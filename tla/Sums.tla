---------------------------------- MODULE Sums ----------------------------------
(***************************************************************************)
(* Facts about SumFunctionOnSet, the sum of the values of a function on a  *)
(* finite set, for the proofs about amounts of money.                      *)
(*                                                                         *)
(* The definition takes the elements in an arbitrary order.  Each proof    *)
(* looks at a smallest set for which the fact would not hold: strict       *)
(* inclusion of the subsets of a finite set is well founded.               *)
(***************************************************************************)
EXTENDS FiniteSetTheorems, TLAPS

-----------------------------------------------------------------------------
(* The equation of the definition.                                         *)

\* The sum on t from the sums s of its subsets.
Step(f, s, t) ==
  IF t = {} THEN 0
  ELSE f[CHOOSE x \in t : TRUE] + s[t \ {CHOOSE x \in t : TRUE}]

\* s holds the sums of f on all subsets of S.
IsSums(f, S, s) == s = [t \in SUBSET S |-> Step(f, s, t)]

\* An entry of the table.
LEMMA TableEntry ==
  ASSUME NEW f, NEW S, NEW s, IsSums(f, S, s), NEW t \in SUBSET S
  PROVE  s[t] = Step(f, s, t)
  BY DEF IsSums

\* The step only looks at a strictly smaller set.
LEMMA SmallerSet ==
  ASSUME NEW t, t # {}
  PROVE  LET c == CHOOSE x \in t : TRUE
         IN  c \in t /\ t \ {c} \subseteq t /\ t \ {c} # t
  OBVIOUS

\* A nonempty set of subsets of a finite set has a smallest one.
LEMMA SmallestSubset ==
  ASSUME NEW S, IsFiniteSet(S), NEW T, T \subseteq SUBSET S, T # {}
  PROVE  \E t \in T : \A u \in T : u \subseteq t => u = t
<1> DEFINE R == StrictSubsetOrdering(S)
<1>1. IsWellFoundedOn(R, SUBSET S)
  BY FS_StrictSubsetOrderingWellFounded, FS_FiniteSubsetsOfFinite
<1>2. PICK t \in T : \A u \in T : ~(<<u, t>> \in R)
  <2> HIDE DEF R
  <2> QED BY <1>1, WFMin
<1>3. ASSUME NEW u \in T, u \subseteq t, u # t PROVE FALSE
  <2>1. <<u, t>> \in (SUBSET S) \X (SUBSET S)
    OBVIOUS
  <2> QED BY <2>1, <1>2, <1>3 DEF StrictSubsetOrdering
<1> QED BY <1>2, <1>3

\* Where the sums of two sets overlap they agree.
LEMMA SumsAgree ==
  ASSUME NEW f, NEW S, IsFiniteSet(S), NEW T,
         NEW s, IsSums(f, S, s), NEW r, IsSums(f, T, r)
  PROVE  \A t \in SUBSET S : t \subseteq T => s[t] = r[t]
<1> DEFINE Bad == {t \in SUBSET S : t \subseteq T /\ s[t] # r[t]}
<1> SUFFICES ASSUME Bad # {} PROVE FALSE
  OBVIOUS
<1>0. Bad \subseteq SUBSET S
  OBVIOUS
<1>1. PICK t \in Bad : \A u \in Bad : u \subseteq t => u = t
  <2> HIDE DEF Bad
  <2> QED BY <1>0, SmallestSubset
<1>2. s[t] = Step(f, s, t) /\ r[t] = Step(f, r, t)
  BY DEF IsSums
<1>3. t # {}
  BY <1>2 DEF Step
<1> DEFINE u == t \ {CHOOSE x \in t : TRUE}
<1>4. u \subseteq t /\ u # t
  BY <1>3, SmallerSet
<1>5. s[u] = r[u]
  BY <1>1, <1>4
<1> QED BY <1>1, <1>2, <1>5 DEF Step

\* Every finite set has its sums.
LEMMA SumsExist ==
  ASSUME NEW f, NEW S, IsFiniteSet(S)
  PROVE  \E s : IsSums(f, S, s)
<1> DEFINE Bad == {t \in SUBSET S : ~\E s : IsSums(f, t, s)}
<1> SUFFICES ASSUME Bad # {} PROVE FALSE
  OBVIOUS
<1>0. Bad \subseteq SUBSET S
  OBVIOUS
<1>1. PICK T \in Bad : \A u \in Bad : u \subseteq T => u = T
  <2> HIDE DEF Bad
  <2> QED BY <1>0, SmallestSubset
<1>2. \A t : t \subseteq T => IsFiniteSet(t)
  BY FS_Subset
<1> DEFINE G(u) == CHOOSE s : IsSums(f, u, s)
<1>3. ASSUME NEW u, u \subseteq T, u # T PROVE IsSums(f, u, G(u))
  <2>1. \E s : IsSums(f, u, s)
    BY <1>1, <1>3
  <2> QED BY <2>1 DEF G
<1> HIDE DEF G
<1> DEFINE h == [t \in SUBSET T |->
                   IF t = {} THEN 0
                   ELSE f[CHOOSE x \in t : TRUE]
                          + G(t \ {CHOOSE x \in t : TRUE})[t \ {CHOOSE x \in t : TRUE}]]
<1>4. ASSUME NEW u, u \subseteq T, u # T PROVE h[u] = G(u)[u]
  <2>1. G(u)[u] = Step(f, G(u), u)
    <3>1. IsSums(f, u, G(u)) /\ u \in SUBSET u
      BY <1>3, <1>4
    <3> QED BY <3>1, TableEntry
  <2>2. CASE u = {}
    BY <2>1, <2>2 DEF Step
  <2>3. CASE u # {}
    <3> DEFINE c == CHOOSE x \in u : TRUE
               w == u \ {c}
    <3>1. w \subseteq u /\ w # u /\ w \subseteq T /\ w # T
      BY <2>3, <1>4, SmallerSet
    <3>2. G(u)[w] = G(w)[w]
      <4>1. IsSums(f, u, G(u)) /\ IsSums(f, w, G(w)) /\ IsFiniteSet(u)
        BY <1>2, <1>3, <1>4, <3>1
      <4> QED BY <4>1, <3>1, SumsAgree
    <3>3. h[u] = f[c] + G(w)[w]
      BY <2>3, <1>4
    <3>4. G(u)[u] = f[c] + G(u)[w]
      BY <2>1, <2>3 DEF Step
    <3> QED BY <3>2, <3>3, <3>4
  <2> QED BY <2>2, <2>3
<1>5. ASSUME NEW t \in SUBSET T PROVE h[t] = Step(f, h, t)
  <2>1. CASE t = {}
    BY <2>1 DEF Step
  <2>2. CASE t # {}
    <3> DEFINE c == CHOOSE x \in t : TRUE
               w == t \ {c}
    <3>1. w \subseteq T /\ w # T
      BY <2>2, SmallerSet
    <3>2. h[w] = G(w)[w]
      BY <3>1, <1>4
    <3>3. h[t] = f[c] + G(w)[w]
      BY <2>2
    <3>4. Step(f, h, t) = f[c] + h[w]
      BY <2>2 DEF Step
    <3> QED BY <3>2, <3>3, <3>4
  <2> QED BY <2>1, <2>2
<1>6. h = [t \in SUBSET T |-> Step(f, h, t)]
  <2> DEFINE k == [t \in SUBSET T |-> Step(f, h, t)]
  <2>1. \A t \in SUBSET T : h[t] = k[t]
    BY <1>5
  <2>2. h = [t \in SUBSET T |-> h[t]]
    OBVIOUS
  <2>3. k = [t \in SUBSET T |-> k[t]]
    OBVIOUS
  <2> HIDE DEF h, k
  <2>4. h = k
    BY <2>1, <2>2, <2>3
  <2> QED BY <2>4 DEF k
<1>7. IsSums(f, T, h)
  <2> HIDE DEF h
  <2> QED BY <1>6 DEF IsSums
<1> QED BY <1>1, <1>7

\* The sum is the entry of any such table.
LEMMA SumFromTable ==
  ASSUME NEW f, NEW S, IsFiniteSet(S), NEW s, IsSums(f, S, s), NEW t \in SUBSET S
  PROVE  SumFunctionOnSet(f, t) = s[t]
<1> DEFINE r == CHOOSE q : IsSums(f, t, q)
<1>1. SumFunctionOnSet(f, t) = r[t]
  BY DEF SumFunctionOnSet, FoldFunctionOnSet, MapThenFoldSet, IsSums, Step
<1>2. IsFiniteSet(t)
  BY FS_Subset
<1>3. IsSums(f, t, r)
  BY <1>2, SumsExist
<1>4. r[t] = s[t]
  <2> HIDE DEF r
  <2> QED BY SMTT(30), <1>2, <1>3, SumsAgree
<1> QED BY <1>1, <1>4

-----------------------------------------------------------------------------
(* The rules of sums.                                                      *)

\* Nothing sums up to zero.
LEMMA SumOfNone ==
  ASSUME NEW f
  PROVE  SumFunctionOnSet(f, {}) = 0
<1>1. IsFiniteSet({})
  BY FS_EmptySet
<1>2. PICK s : IsSums(f, {}, s)
  BY <1>1, SumsExist
<1>3. s[{}] = 0
  BY <1>2 DEF IsSums, Step
<1> QED BY <1>1, <1>2, <1>3, SumFromTable

\* The sum with the element that is taken first.
LEMMA SumByChoice ==
  ASSUME NEW f, NEW S, IsFiniteSet(S), S # {}
  PROVE  \E c \in S : SumFunctionOnSet(f, S) = f[c] + SumFunctionOnSet(f, S \ {c})
<1>1. PICK s : IsSums(f, S, s)
  BY SumsExist
<1> DEFINE c == CHOOSE x \in S : TRUE
<1>2. c \in S
  BY SmallerSet
<1>3. s[S] = f[c] + s[S \ {c}]
  BY <1>1 DEF IsSums, Step
<1>4. SumFunctionOnSet(f, S) = s[S]
  BY <1>1, SumFromTable
<1>5. SumFunctionOnSet(f, S \ {c}) = s[S \ {c}]
  BY <1>1, SumFromTable
<1> QED BY <1>2, <1>3, <1>4, <1>5

\* A sum of integers is one.
LEMMA SumIsInt ==
  ASSUME NEW f, NEW S, IsFiniteSet(S), \A x \in S : f[x] \in Int
  PROVE  SumFunctionOnSet(f, S) \in Int
<1> DEFINE Bad == {t \in SUBSET S : SumFunctionOnSet(f, t) \notin Int}
<1> SUFFICES ASSUME Bad # {} PROVE FALSE
  OBVIOUS
<1>0. Bad \subseteq SUBSET S
  OBVIOUS
<1>1. PICK t \in Bad : \A u \in Bad : u \subseteq t => u = t
  <2> HIDE DEF Bad
  <2> QED BY <1>0, SmallestSubset
<1>2. t # {}
  <2> SUFFICES ASSUME t = {} PROVE FALSE
    OBVIOUS
  <2>1. SumFunctionOnSet(f, {}) = 0
    BY SumOfNone
  <2> QED BY <1>1, <2>1
<1>3. IsFiniteSet(t)
  BY FS_Subset
<1>4. PICK c \in t : SumFunctionOnSet(f, t) = f[c] + SumFunctionOnSet(f, t \ {c})
  BY <1>2, <1>3, SumByChoice
<1>5. SumFunctionOnSet(f, t \ {c}) \in Int
  BY <1>1
<1> QED BY <1>1, <1>4, <1>5

\* Any element can be taken out of the sum.
LEMMA SumWithout ==
  ASSUME NEW f, NEW S, IsFiniteSet(S), \A x \in S : f[x] \in Int, NEW x \in S
  PROVE  SumFunctionOnSet(f, S) = f[x] + SumFunctionOnSet(f, S \ {x})
<1> DEFINE Bad == {t \in SUBSET S : \E y \in t :
                     SumFunctionOnSet(f, t) # f[y] + SumFunctionOnSet(f, t \ {y})}
<1> SUFFICES ASSUME Bad # {} PROVE FALSE
  OBVIOUS
<1>0. Bad \subseteq SUBSET S
  OBVIOUS
<1>1. PICK t \in Bad : \A u \in Bad : u \subseteq t => u = t
  <2> HIDE DEF Bad
  <2> QED BY <1>0, SmallestSubset
<1>2. PICK y \in t : SumFunctionOnSet(f, t) # f[y] + SumFunctionOnSet(f, t \ {y})
  BY <1>1
<1>3. \A u \in SUBSET S : IsFiniteSet(u) /\ SumFunctionOnSet(f, u) \in Int
  <2> TAKE u \in SUBSET S
  <2>1. IsFiniteSet(u)
    BY FS_Subset
  <2> QED BY <2>1, SumIsInt
<1>4. PICK c \in t : SumFunctionOnSet(f, t) = f[c] + SumFunctionOnSet(f, t \ {c})
  BY <1>3, SumByChoice
<1>5. c # y
  BY <1>2, <1>4
<1> DEFINE w == t \ {c, y}
<1>6. SumFunctionOnSet(f, t \ {c}) = f[y] + SumFunctionOnSet(f, w)
  <2>1. t \ {c} \notin Bad /\ y \in t \ {c}
    BY <1>1, <1>5
  <2>2. (t \ {c}) \ {y} = w
    OBVIOUS
  <2> QED BY <2>1, <2>2
<1>7. SumFunctionOnSet(f, t \ {y}) = f[c] + SumFunctionOnSet(f, w)
  <2>1. t \ {y} \notin Bad /\ c \in t \ {y}
    BY <1>1, <1>5
  <2>2. (t \ {y}) \ {c} = w
    OBVIOUS
  <2> QED BY <2>1, <2>2
<1>8. f[c] \in Int /\ f[y] \in Int /\ SumFunctionOnSet(f, w) \in Int
  BY <1>3
<1> QED BY <1>2, <1>4, <1>6, <1>7, <1>8

\* An element that is added adds its value.
LEMMA SumWith ==
  ASSUME NEW f, NEW S, IsFiniteSet(S), \A y \in S : f[y] \in Int,
         NEW x, x \notin S, f[x] \in Int
  PROVE  SumFunctionOnSet(f, S \cup {x}) = SumFunctionOnSet(f, S) + f[x]
<1>1. IsFiniteSet(S \cup {x})
  BY FS_AddElement
<1>2. (S \cup {x}) \ {x} = S
  OBVIOUS
<1>3. SumFunctionOnSet(f, S \cup {x}) = f[x] + SumFunctionOnSet(f, S)
  BY <1>1, <1>2, SumWithout
<1>4. SumFunctionOnSet(f, S) \in Int
  BY SumIsInt
<1> QED BY <1>3, <1>4

\* A sum of natural numbers is one.
LEMMA SumIsNat ==
  ASSUME NEW f, NEW S, IsFiniteSet(S), \A x \in S : f[x] \in Nat
  PROVE  SumFunctionOnSet(f, S) \in Nat
<1> DEFINE Bad == {t \in SUBSET S : SumFunctionOnSet(f, t) \notin Nat}
<1> SUFFICES ASSUME Bad # {} PROVE FALSE
  OBVIOUS
<1>0. Bad \subseteq SUBSET S
  OBVIOUS
<1>1. PICK t \in Bad : \A u \in Bad : u \subseteq t => u = t
  <2> HIDE DEF Bad
  <2> QED BY <1>0, SmallestSubset
<1>2. t # {}
  <2> SUFFICES ASSUME t = {} PROVE FALSE
    OBVIOUS
  <2>1. SumFunctionOnSet(f, {}) = 0
    BY SumOfNone
  <2> QED BY <1>1, <2>1
<1>3. IsFiniteSet(t)
  BY FS_Subset
<1>4. PICK c \in t : SumFunctionOnSet(f, t) = f[c] + SumFunctionOnSet(f, t \ {c})
  BY <1>2, <1>3, SumByChoice
<1>5. SumFunctionOnSet(f, t \ {c}) \in Nat
  BY <1>1
<1> QED BY <1>1, <1>4, <1>5

\* The sum depends on the values only.
LEMMA SumOfEqual ==
  ASSUME NEW f, NEW g, NEW S, IsFiniteSet(S), \A x \in S : f[x] = g[x]
  PROVE  SumFunctionOnSet(f, S) = SumFunctionOnSet(g, S)
<1>1. PICK s : IsSums(f, S, s)
  BY SumsExist
<1>2. \A t \in SUBSET S : Step(f, s, t) = Step(g, s, t)
  <2> TAKE t \in SUBSET S
  <2>1. CASE t = {}
    BY <2>1 DEF Step
  <2>2. CASE t # {}
    <3>1. (CHOOSE x \in t : TRUE) \in S
      BY <2>2, SmallerSet
    <3> QED BY <2>2, <3>1 DEF Step
  <2> QED BY <2>1, <2>2
<1>3. IsSums(g, S, s)
  BY <1>1, <1>2 DEF IsSums
<1> QED BY <1>1, <1>3, SumFromTable

\* The difference of two functions sums up to the difference of their sums.
LEMMA SumOfDifferences ==
  ASSUME NEW f, NEW g, NEW h, NEW S, IsFiniteSet(S),
         \A x \in S : f[x] \in Int /\ g[x] \in Int /\ h[x] = f[x] - g[x]
  PROVE  SumFunctionOnSet(h, S) = SumFunctionOnSet(f, S) - SumFunctionOnSet(g, S)
<1> DEFINE Bad == {t \in SUBSET S : SumFunctionOnSet(h, t)
                     # SumFunctionOnSet(f, t) - SumFunctionOnSet(g, t)}
<1> SUFFICES ASSUME Bad # {} PROVE FALSE
  OBVIOUS
<1>0. Bad \subseteq SUBSET S
  OBVIOUS
<1>1. PICK t \in Bad : \A u \in Bad : u \subseteq t => u = t
  <2> HIDE DEF Bad
  <2> QED BY <1>0, SmallestSubset
<1>2. t # {}
  <2> SUFFICES ASSUME t = {} PROVE FALSE
    OBVIOUS
  <2>1. SumFunctionOnSet(h, {}) = 0 /\ SumFunctionOnSet(f, {}) = 0 /\ SumFunctionOnSet(g, {}) = 0
    BY SumOfNone
  <2> QED BY <1>1, <2>1
<1>3. PICK c : c \in t
  BY <1>2
<1> DEFINE w == t \ {c}
<1>4. IsFiniteSet(t) /\ IsFiniteSet(w) /\ w \in SUBSET S
  BY FS_Subset
<1>5. \A x \in S : f[x] \in Int /\ g[x] \in Int /\ h[x] \in Int
  OBVIOUS
<1>6. SumFunctionOnSet(f, t) = f[c] + SumFunctionOnSet(f, w)
  BY <1>3, <1>4, <1>5, SumWithout
<1>7. SumFunctionOnSet(g, t) = g[c] + SumFunctionOnSet(g, w)
  BY <1>3, <1>4, <1>5, SumWithout
<1>8. SumFunctionOnSet(h, t) = h[c] + SumFunctionOnSet(h, w)
  BY <1>3, <1>4, <1>5, SumWithout
<1>9. SumFunctionOnSet(f, w) \in Int /\ SumFunctionOnSet(g, w) \in Int
  BY <1>4, <1>5, SumIsInt
<1>10. SumFunctionOnSet(h, w) = SumFunctionOnSet(f, w) - SumFunctionOnSet(g, w)
  BY <1>1, <1>3, <1>4
<1>11. f[c] \in Int /\ g[c] \in Int /\ h[c] = f[c] - g[c]
  BY <1>3
<1>12. SumFunctionOnSet(h, t) # SumFunctionOnSet(f, t) - SumFunctionOnSet(g, t)
  BY <1>1
<1> QED BY <1>6, <1>7, <1>8, <1>9, <1>10, <1>11, <1>12

\* Disjoint sets add up.
LEMMA SumOfUnion ==
  ASSUME NEW f, NEW S, NEW T, IsFiniteSet(S), IsFiniteSet(T), S \cap T = {},
         \A x \in S \cup T : f[x] \in Int
  PROVE  SumFunctionOnSet(f, S \cup T) = SumFunctionOnSet(f, S) + SumFunctionOnSet(f, T)
<1> DEFINE Bad == {t \in SUBSET T : SumFunctionOnSet(f, S \cup t)
                     # SumFunctionOnSet(f, S) + SumFunctionOnSet(f, t)}
<1> SUFFICES ASSUME Bad # {} PROVE FALSE
  OBVIOUS
<1>0. Bad \subseteq SUBSET T
  OBVIOUS
<1>1. PICK t \in Bad : \A u \in Bad : u \subseteq t => u = t
  <2> HIDE DEF Bad
  <2> QED BY <1>0, SmallestSubset
<1>2. SumFunctionOnSet(f, S) \in Int
  BY SumIsInt
<1>3. t # {}
  <2> SUFFICES ASSUME t = {} PROVE FALSE
    OBVIOUS
  <2>1. SumFunctionOnSet(f, {}) = 0 /\ S \cup {} = S
    BY SumOfNone
  <2> QED BY <1>1, <1>2, <2>1
<1>4. PICK c : c \in t
  BY <1>3
<1> DEFINE w == t \ {c}
<1>5. IsFiniteSet(t) /\ IsFiniteSet(w) /\ w \in SUBSET T
  BY FS_Subset
<1>6. IsFiniteSet(S \cup t)
  BY <1>5, FS_Union
<1>7. (S \cup t) \ {c} = S \cup w /\ c \in S \cup t
  BY <1>1, <1>4
<1>8. SumFunctionOnSet(f, S \cup t) = f[c] + SumFunctionOnSet(f, S \cup w)
  <2>1. \A x \in S \cup t : f[x] \in Int
    BY <1>0
  <2> QED BY <2>1, <1>6, <1>7, SumWithout
<1>9. SumFunctionOnSet(f, t) = f[c] + SumFunctionOnSet(f, w)
  BY <1>4, <1>5, SumWithout
<1>10. SumFunctionOnSet(f, S \cup w) = SumFunctionOnSet(f, S) + SumFunctionOnSet(f, w)
  BY <1>1, <1>4, <1>5
<1>11. SumFunctionOnSet(f, w) \in Int /\ f[c] \in Int
  BY <1>4, <1>5, SumIsInt
<1>12. SumFunctionOnSet(f, S \cup t) # SumFunctionOnSet(f, S) + SumFunctionOnSet(f, t)
  BY <1>1
<1> QED BY <1>2, <1>8, <1>9, <1>10, <1>11, <1>12

\* More elements sum up to more.
LEMMA SumOfSubset ==
  ASSUME NEW f, NEW T, IsFiniteSet(T), \A x \in T : f[x] \in Nat, NEW S \in SUBSET T
  PROVE  SumFunctionOnSet(f, S) <= SumFunctionOnSet(f, T)
<1>1. IsFiniteSet(S) /\ IsFiniteSet(T \ S)
  BY FS_Subset
<1>2. S \cup (T \ S) = T /\ S \cap (T \ S) = {}
  OBVIOUS
<1>3. SumFunctionOnSet(f, T) = SumFunctionOnSet(f, S) + SumFunctionOnSet(f, T \ S)
  BY <1>1, <1>2, SumOfUnion
<1>4. SumFunctionOnSet(f, S) \in Nat /\ SumFunctionOnSet(f, T \ S) \in Nat
  BY <1>1, SumIsNat
<1> QED BY <1>3, <1>4

\* Every element counts.
LEMMA SumAtLeast ==
  ASSUME NEW f, NEW S, IsFiniteSet(S), \A x \in S : f[x] \in Nat, NEW y \in S
  PROVE  f[y] <= SumFunctionOnSet(f, S)
<1>1. SumFunctionOnSet(f, S) = f[y] + SumFunctionOnSet(f, S \ {y})
  BY SumWithout
<1>2. IsFiniteSet(S \ {y})
  BY FS_Subset
<1>3. SumFunctionOnSet(f, S \ {y}) \in Nat
  BY <1>2, SumIsNat
<1> QED BY <1>1, <1>3

\* Zeros sum up to zero.
LEMMA SumOfZeros ==
  ASSUME NEW f, NEW S, IsFiniteSet(S), \A x \in S : f[x] = 0
  PROVE  SumFunctionOnSet(f, S) = 0
<1>1. SumFunctionOnSet(f, S) \in Int
  BY SumIsInt
<1>2. SumFunctionOnSet(f, S) = SumFunctionOnSet(f, S) - SumFunctionOnSet(f, S)
  <2>1. \A x \in S : f[x] \in Int /\ f[x] = f[x] - f[x]
    OBVIOUS
  <2> QED BY <2>1, SumOfDifferences
<1> QED BY <1>1, <1>2

\* A value that changes changes the sum as much.
LEMMA SumChanged ==
  ASSUME NEW f, NEW g, NEW S, IsFiniteSet(S), NEW y \in S,
         \A x \in S : f[x] \in Int /\ g[x] \in Int,
         \A x \in S \ {y} : f[x] = g[x]
  PROVE  SumFunctionOnSet(g, S) = SumFunctionOnSet(f, S) - f[y] + g[y]
<1>1. IsFiniteSet(S \ {y})
  BY FS_Subset
<1>2. SumFunctionOnSet(f, S \ {y}) = SumFunctionOnSet(g, S \ {y})
  BY <1>1, SumOfEqual
<1>3. SumFunctionOnSet(f, S) = f[y] + SumFunctionOnSet(f, S \ {y})
  BY SumWithout
<1>4. SumFunctionOnSet(g, S) = g[y] + SumFunctionOnSet(g, S \ {y})
  BY SumWithout
<1>5. SumFunctionOnSet(f, S \ {y}) \in Int
  BY <1>1, SumIsInt
<1> QED BY <1>2, <1>3, <1>4, <1>5

\* m[x] names the part of x: one part of R, and those of some names together.
Part(R, m, i) == {x \in R : m[x] = i}
Parts(R, m, I) == {x \in R : m[x] \in I}

\* The sums over the parts of a set make the sum over all of it: g[i] is the sum
\* over part i.
LEMMA SumOfParts ==
  ASSUME NEW f, NEW R, IsFiniteSet(R), \A x \in R : f[x] \in Int,
         NEW m, NEW I, IsFiniteSet(I),
         NEW g, \A i \in I : g[i] = SumFunctionOnSet(f, Part(R, m, i))
  PROVE  SumFunctionOnSet(g, I) = SumFunctionOnSet(f, Parts(R, m, I))
<1> USE DEF Part, Parts
<1> DEFINE P(t) == {x \in R : m[x] \in t}
           Bad == {t \in SUBSET I : SumFunctionOnSet(g, t) # SumFunctionOnSet(f, P(t))}
<1> SUFFICES ASSUME Bad # {} PROVE FALSE
  OBVIOUS
<1>0. Bad \subseteq SUBSET I
  OBVIOUS
<1>1. PICK t \in Bad : \A u \in Bad : u \subseteq t => u = t
  <2> HIDE DEF Bad
  <2> QED BY <1>0, SmallestSubset
<1>2. t # {}
  <2> SUFFICES ASSUME t = {} PROVE FALSE
    OBVIOUS
  <2>1. P({}) = {}
    OBVIOUS
  <2>2. SumFunctionOnSet(g, {}) = 0 /\ SumFunctionOnSet(f, {}) = 0
    BY SumOfNone
  <2> QED BY <1>1, <2>1, <2>2
<1>3. PICK c : c \in t
  BY <1>2
<1> DEFINE w == t \ {c}
           C == {x \in R : m[x] = c}
<1>4. IsFiniteSet(t) /\ IsFiniteSet(w) /\ w \in SUBSET I
  BY FS_Subset
<1>5. IsFiniteSet(P(w)) /\ IsFiniteSet(C) /\ P(w) \cup C = P(t) /\ P(w) \cap C = {}
  <2>1. P(w) \in SUBSET R /\ C \in SUBSET R
    OBVIOUS
  <2>2. IsFiniteSet(P(w)) /\ IsFiniteSet(C)
    BY <2>1, FS_Subset
  <2> QED BY <2>2, <1>3
<1>6. SumFunctionOnSet(f, P(t)) = SumFunctionOnSet(f, P(w)) + SumFunctionOnSet(f, C)
  <2>1. \A x \in P(w) \cup C : f[x] \in Int
    OBVIOUS
  <2>2. \A A, B :
          /\ IsFiniteSet(A) /\ IsFiniteSet(B) /\ A \cap B = {}
          /\ \A x \in A \cup B : f[x] \in Int
          => SumFunctionOnSet(f, A \cup B) = SumFunctionOnSet(f, A) + SumFunctionOnSet(f, B)
    BY SumOfUnion
  <2> HIDE DEF P, C
  <2> QED BY <1>5, <2>1, <2>2
<1>7. \A i \in I : g[i] \in Int
  <2> TAKE i \in I
  <2>1. {x \in R : m[x] = i} \in SUBSET R
    OBVIOUS
  <2>2. IsFiniteSet({x \in R : m[x] = i})
    BY <2>1, FS_Subset
  <2>3. SumFunctionOnSet(f, {x \in R : m[x] = i}) \in Int
    BY <2>2, SumIsInt
  <2> QED BY <2>3
<1>8. SumFunctionOnSet(g, t) = g[c] + SumFunctionOnSet(g, w)
  BY <1>3, <1>4, <1>7, SumWithout
<1>9. SumFunctionOnSet(g, w) = SumFunctionOnSet(f, P(w))
  BY <1>1, <1>3, <1>4
<1>10. g[c] = SumFunctionOnSet(f, C)
  BY <1>3
<1>11. SumFunctionOnSet(g, w) \in Int /\ g[c] \in Int
  BY <1>3, <1>4, <1>7, SumIsInt
<1>12. SumFunctionOnSet(g, t) # SumFunctionOnSet(f, P(t))
  BY <1>1
<1> HIDE DEF P, C, w
<1> QED BY <1>6, <1>8, <1>9, <1>10, <1>11, <1>12
=============================================================================
