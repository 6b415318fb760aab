--------------------------- MODULE HostPayouts_proofs ---------------------------
(***************************************************************************)
(* Theorems about HostPayouts, for any number of earnings, refunds,        *)
(* batches and generations of payouts, and any amounts.                    *)
(***************************************************************************)
EXTENDS HostPayouts, Sums

-----------------------------------------------------------------------------
(* The inductive invariant.                                                *)

\* What may become of a call, as its statuses are seen one after the other.
MayBecome(s, t) ==
  \/ s = "NONE" \/ s = t
  \/ s = "PENDING" /\ t \in {"PAID", "FAILED"}
  \/ s = "PAID" /\ t = "FAILED"

\* The answers that an operation can have.
AnswersOf(o) == IF o \in Payouts THEN {"PENDING", "PAID", "FAILED"} ELSE {"DONE"}

\* The row, what was read, what was applied, and the provider agree.
CallSound(o) ==
  /\ op[o].state = "NONE" => op[o] = NoOperation
  /\ op[o].sent => op[o].state \notin {"NONE", "DEAD_LETTER"}
  /\ provider[o] # "NONE" \/ op[o].known \/ op[o].seen # "NONE" => op[o].sent
  /\ op[o].known => provider[o] \in Answers
  /\ op[o].state = "OBSERVED" \/ op[o].projected # "NONE" => op[o].known
  /\ provider[o] \in {"NONE", "LATE"} \cup AnswersOf(o)
  /\ op[o].seen \in Answers => op[o].seen \in AnswersOf(o)
  /\ MayBecome(op[o].projected, provider[o])
  /\ op[o].seen \in Answers =>
       MayBecome(op[o].projected, op[o].seen) /\ MayBecome(op[o].seen, provider[o])

CallsSound == \A o \in Operations : CallSound(o)

\* A batch and its transfer.
BatchSound(b) ==
  /\ batch[b].state = "NONE" <=> op[Transfer(b)].state = "NONE"
  /\ batch[b].state = "NONE" => ItemsOf(b) = {}
  /\ batch[b].state # "NONE" => op[Transfer(b)].amount = Amount(b)
  /\ batch[b].state = "VOIDED" => op[Transfer(b)].state = "DEAD_LETTER"
  /\ batch[b].state = "PAYOUT_FAILED" => op[Payout(b, batch[b].generation)].projected = "FAILED"

BatchesSound == \A b \in Batches : BatchSound(b)

\* Only the payout of the current generation can still move money.
PayoutSound(b, g) ==
  LET o == Payout(b, g)
  IN  op[o].state # "NONE" =>
        /\ op[Transfer(b)].projected = "DONE"
        /\ g <= batch[b].generation
        /\ g < batch[b].generation => op[o].state = "DEAD_LETTER" \/ op[o].projected = "FAILED"

PayoutsSound == \A b \in Batches, g \in 1..MaxGenerations : PayoutSound(b, g)

ReversalSound(f) ==
  op[Reversal(f)].state # "NONE" =>
    /\ op[Reversal(f)].amount = Cents[f]
    /\ refund[f].state \in {"POST_PAYOUT_REFUND", "RESOLVED"}
    /\ refund[f].batch \in Batches
    /\ op[Transfer(refund[f].batch)].projected = "DONE"

ReversalsSound == \A f \in Refunds : ReversalSound(f)

\* A refund is charged to the batch that held its earning when it was accounted.
ChargeSound(f) ==
  LET b == refund[f].batch
  IN  /\ b = 0 <=> refund[f].state \in {"NONE", "SUCCEEDED", "ALLOCATED"}
      /\ b # 0 => RefundOf[f] \in ItemsOf(b)
      /\ refund[f].state = "BATCH_CHANGED" => ~op[Transfer(b)].sent
      /\ refund[f].state = "RESOLVED" =>
           batch[b].state = "VOIDED" \/ op[Reversal(f)].projected = "DONE"

ChargesSound == \A f \in Refunds : ChargeSound(f)

\* What an earning was reduced by before it entered the batch.
Before(e, b) == {f \in RefundsOf(e) : refund[f].state \in Accounted /\ refund[f].batch # b}

ItemSound(b, e) ==
  batch[b].state # "VOIDED" /\ e \in ItemsOf(b) =>
    /\ Active(e) = {b}
    /\ batch[b].items[e] = Net[e] - SumFunctionOnSet(Cents, Before(e, b))

ItemsSound == \A b \in Batches, e \in Earnings : ItemSound(b, e)

\* All that is or will be taken back from a batch.
Taken(b) == AmountsOf(ReversalsOf(b))

\* While a payout is out, nothing is being taken back, and it is all that is left.
PayoutCovered(b, g) ==
  LET o == Payout(b, g)
  IN  op[o].sent /\ op[o].projected # "FAILED" =>
        /\ \A r \in ReversalsOf(b) : op[r].projected = "DONE"
        /\ op[o].amount + Taken(b) = Transferred(b)

FundsSound ==
  \A b \in Batches :
    /\ Taken(b) <= Transferred(b)
    /\ \A g \in 1..MaxGenerations : PayoutCovered(b, g)

RowTypes ==
  /\ refund \in [Refunds -> [state : RefundStates, batch : Batches \cup {0}]]
  /\ batch \in [Batches -> PayoutBatch]
  /\ op \in [Operations -> Operation]
  /\ provider \in [Operations -> {"NONE"} \cup Effects]
  /\ differences \subseteq Operations

IInv ==
  /\ RowTypes /\ CallsSound /\ BatchesSound /\ PayoutsSound /\ ReversalsSound
  /\ ChargesSound /\ ItemsSound /\ FundsSound

-----------------------------------------------------------------------------
(* The operations.                                                         *)

\* Operations of different kinds, batches, generations or refunds differ.
LEMMA OperationNames ==
  /\ \A b \in Batches : Transfer(b) \in Operations \ Payouts /\ Transfer(b) \in Transfers
  /\ \A b \in Batches, g \in 1..MaxGenerations :
       Payout(b, g) \in Operations /\ Payout(b, g) \in Payouts /\ Payout(b, g) \in PayoutsOf(b)
  /\ \A f \in Refunds : Reversal(f) \in Operations \ Payouts
  /\ \A b, c : Transfer(b) = Transfer(c) => b = c
  /\ \A b, g, c, h : Payout(b, g) = Payout(c, h) => b = c /\ g = h
  /\ \A f, h : Reversal(f) = Reversal(h) => f = h
  /\ \A b, c, g : Transfer(b) # Payout(c, g)
  /\ \A b, f : Transfer(b) # Reversal(f)
  /\ \A b, g, f : Payout(b, g) # Reversal(f)
<1>1. /\ \A b, c : Transfer(b) = Transfer(c) => b = c
      /\ \A b, g, c, h : Payout(b, g) = Payout(c, h) => b = c /\ g = h
      /\ \A f, h : Reversal(f) = Reversal(h) => f = h
      /\ \A b, c, g : Transfer(b) # Payout(c, g)
      /\ \A b, f : Transfer(b) # Reversal(f)
      /\ \A b, g, f : Payout(b, g) # Reversal(f)
  BY DEF Transfer, Payout, Reversal
<1>2. \A o \in Payouts : \E b \in Batches, g \in 1..MaxGenerations : o = Payout(b, g)
  BY DEF Payouts, PayoutsOf
<1>3. \A b \in Batches, g \in 1..MaxGenerations : Payout(b, g) \in Payouts /\ Payout(b, g) \in PayoutsOf(b)
  BY DEF Payouts, PayoutsOf
<1>4. \A b \in Batches : Transfer(b) \in Transfers
  BY DEF Transfers
<1>5. \A f \in Refunds : Reversal(f) \in Reversals
  BY DEF Reversals
<1> QED
  BY <1>1, <1>2, <1>3, <1>4, <1>5 DEF Operations

\* Every operation is one of them.
LEMMA OperationKinds ==
  ASSUME NEW o \in Operations
  PROVE  \/ \E b \in Batches : o = Transfer(b)
         \/ \E b \in Batches, g \in 1..MaxGenerations : o = Payout(b, g)
         \/ \E f \in Refunds : o = Reversal(f)
  BY DEF Operations, Transfers, Payouts, PayoutsOf, Reversals

\* The operations of a batch are finitely many.
LEMMA FiniteOperations ==
  /\ \A b : IsFiniteSet(PayoutsOf(b))
  /\ IsFiniteSet(Reversals)
<1>1. ASSUME NEW b PROVE IsFiniteSet(PayoutsOf(b))
  <2> DEFINE h == [g \in 1..MaxGenerations |-> Payout(b, g)]
  <2>1. h \in Surjection(1..MaxGenerations, PayoutsOf(b))
    BY DEF Surjection, PayoutsOf
  <2>2. IsFiniteSet(1..MaxGenerations)
    BY PayoutAssumption, FS_Interval
  <2> QED
    BY <2>1, <2>2, FS_Surjection
<1>2. IsFiniteSet(Reversals)
  <2> DEFINE h == [f \in Refunds |-> Reversal(f)]
  <2>1. h \in Surjection(Refunds, Reversals)
    BY DEF Surjection, Reversals
  <2> QED
    BY <2>1, FiniteAssumption, FS_Surjection
<1> QED
  BY <1>1, <1>2

\* The amounts of operations of a batch.
LEMMA AmountsNat ==
  ASSUME RowTypes, NEW S \in SUBSET Operations, IsFiniteSet(S)
  PROVE  AmountsOf(S) \in Nat
<1>1. \A o \in S : [q \in Operations |-> op[q].amount][o] \in Nat
  BY DEF RowTypes, Operation
<1> QED
  BY <1>1, SumIsNat DEF AmountsOf

LEMMA AmountsOfPart ==
  ASSUME RowTypes, NEW T \in SUBSET Operations, IsFiniteSet(T), NEW S \in SUBSET T
  PROVE  IsFiniteSet(S) /\ AmountsOf(S) \in Nat /\ AmountsOf(S) <= AmountsOf(T)
<1>1. \A o \in T : [q \in Operations |-> op[q].amount][o] \in Nat
  BY DEF RowTypes, Operation
<1>2. IsFiniteSet(S)
  BY FS_Subset
<1>3. AmountsOf(S) \in Nat
  BY <1>2, AmountsNat
<1> QED
  BY <1>1, <1>2, <1>3, SumOfSubset DEF AmountsOf

LEMMA AmountAtLeast ==
  ASSUME RowTypes, NEW S \in SUBSET Operations, IsFiniteSet(S), NEW o \in S
  PROVE  op[o].amount <= AmountsOf(S) /\ op[o].amount \in Nat
<1>1. \A q \in S : [r \in Operations |-> op[r].amount][q] \in Nat
  BY DEF RowTypes, Operation
<1>2. [r \in Operations |-> op[r].amount][o] = op[o].amount
  OBVIOUS
<1> QED
  BY <1>1, <1>2, SumAtLeast DEF AmountsOf

LEMMA AmountsOfUnion ==
  ASSUME RowTypes, NEW S \in SUBSET Operations, IsFiniteSet(S),
         NEW T \in SUBSET Operations, IsFiniteSet(T), S \cap T = {}
  PROVE  AmountsOf(S \cup T) = AmountsOf(S) + AmountsOf(T)
<1>1. \A o \in S \cup T : [q \in Operations |-> op[q].amount][o] \in Int
  BY DEF RowTypes, Operation
<1> QED
  BY <1>1, SumOfUnion DEF AmountsOf

LEMMA AmountOfOne ==
  ASSUME RowTypes, NEW o \in Operations
  PROVE  AmountsOf({o}) = op[o].amount
<1> DEFINE F == [q \in Operations |-> op[q].amount]
<1>1. \A q \in {o} : F[q] \in Int
  BY DEF RowTypes, Operation
<1>2. IsFiniteSet({o}) /\ {o} \ {o} = {}
  BY FS_Singleton
<1>3. SumFunctionOnSet(F, {o}) = F[o] + SumFunctionOnSet(F, {})
  BY <1>1, <1>2, SumWithout
<1>4. SumFunctionOnSet(F, {}) = 0
  BY SumOfNone
<1> QED
  BY <1>1, <1>3, <1>4 DEF AmountsOf

LEMMA AmountOfNone == AmountsOf({}) = 0
  BY SumOfNone DEF AmountsOf

\* What is taken back from a batch is done or reserved.
LEMMA TakenParts ==
  ASSUME RowTypes, NEW b
  PROVE  /\ ReversalsOf(b) \in SUBSET Operations /\ IsFiniteSet(ReversalsOf(b))
         /\ Reversed(b) \in Nat /\ Reserved(b) \in Nat /\ Taken(b) \in Nat
         /\ Taken(b) = Reversed(b) + Reserved(b)
<1> DEFINE D == {o \in ReversalsOf(b) : op[o].projected = "DONE"}
           R == {o \in ReversalsOf(b) : op[o].projected # "DONE"}
<1>1. ReversalsOf(b) \in SUBSET Operations /\ ReversalsOf(b) \in SUBSET Reversals
  BY DEF ReversalsOf, Operations, Reversals
<1>2. IsFiniteSet(ReversalsOf(b))
  BY <1>1, FiniteOperations, FS_Subset
<1>3. D \in SUBSET ReversalsOf(b) /\ R \in SUBSET ReversalsOf(b) /\ D \cap R = {} /\ D \cup R = ReversalsOf(b)
  OBVIOUS
<1>4. IsFiniteSet(D) /\ IsFiniteSet(R) /\ D \in SUBSET Operations /\ R \in SUBSET Operations
  BY <1>1, <1>2, <1>3, FS_Subset
<1> HIDE DEF D, R
<1>5. AmountsOf(D) \in Nat /\ AmountsOf(R) \in Nat /\ AmountsOf(ReversalsOf(b)) \in Nat
  BY <1>1, <1>2, <1>4, AmountsNat
<1>6. AmountsOf(ReversalsOf(b)) = AmountsOf(D) + AmountsOf(R)
  BY <1>3, <1>4, AmountsOfUnion
<1> QED
  BY <1>1, <1>2, <1>5, <1>6 DEF Taken, Reversed, Reserved, D, R

\* What is paid and pending are parts of the payouts.
LEMMA PaidParts ==
  ASSUME RowTypes, NEW b \in Batches
  PROVE  /\ PayoutsOf(b) \in SUBSET Operations
         /\ PaidCents(b) \in Nat /\ PendingCents(b) \in Nat
<1>1. PayoutsOf(b) \in SUBSET Operations
  BY DEF Operations, Payouts
<1>2. IsFiniteSet(PayoutsOf(b))
  BY FiniteOperations
<1> QED
  BY <1>1, <1>2, AmountsOfPart DEF PaidCents, PendingCents

\* What a batch is worth.
LEMMA AmountNat ==
  ASSUME RowTypes, NEW b \in Batches
  PROVE  /\ IsFiniteSet(ItemsOf(b)) /\ ItemsOf(b) \in SUBSET Earnings
         /\ Amount(b) \in Nat /\ Transferred(b) \in Nat /\ Transferred(b) <= Amount(b)
<1>1. IsFiniteSet(ItemsOf(b)) /\ ItemsOf(b) \in SUBSET Earnings
  BY FiniteAssumption, FS_Subset DEF ItemsOf
<1>2. \A e \in ItemsOf(b) : batch[b].items[e] \in Nat
  BY DEF RowTypes, PayoutBatch, ItemsOf
<1>3. Amount(b) \in Nat
  BY <1>1, <1>2, SumIsNat DEF Amount
<1> QED
  BY <1>1, <1>3 DEF Transferred
-----------------------------------------------------------------------------
(* Steps that move operations on.                                          *)

\* What the authority of a dispatch has to guarantee.
MaySend(o) ==
  /\ \A f \in Refunds : refund[f].state = "BATCH_CHANGED" => o # Transfer(refund[f].batch)
  /\ \A b \in Batches, g \in 1..MaxGenerations :
       o = Payout(b, g) =>
         /\ \A r \in ReversalsOf(b) : op[r].projected = "DONE"
         /\ op[o].amount + Taken(b) = Transferred(b)

\* What an execution does to the rows.
OperationOnward(o) ==
  /\ op'[o].state = "NONE" <=> op[o].state = "NONE"
  /\ op'[o].amount = op[o].amount
  /\ op[o].state = "DEAD_LETTER" => op'[o].state = "DEAD_LETTER"
  /\ op[o].projected = "DONE" => op'[o].projected = "DONE"
  /\ op[o].projected = "FAILED" => op'[o].projected = "FAILED"
  /\ op'[o].sent => op[o].sent \/ MaySend(o)

BatchOnward(b) ==
  /\ batch'[b].items = batch[b].items /\ batch'[b].generation = batch[b].generation
  /\ batch'[b].state = "NONE" <=> batch[b].state = "NONE"
  /\ batch'[b].state = "VOIDED" <=> batch[b].state = "VOIDED"
  /\ batch'[b].state = "PAYOUT_FAILED" =>
       op'[Payout(b, batch[b].generation)].projected = "FAILED"

RefundOnward(f) ==
  \/ refund'[f] = refund[f]
  \/ /\ refund'[f].batch = refund[f].batch
     /\ refund[f].state \in {"POST_PAYOUT_REFUND", "RESOLVED"}
     /\ refund'[f].state = "RESOLVED"
     /\ op'[Reversal(f)].projected = "DONE"

Onward ==
  /\ \A o \in Operations : OperationOnward(o)
  /\ \A b \in Batches : BatchOnward(b)
  /\ \A f \in Refunds : RefundOnward(f)

\* Equal amounts make equal sums.
LEMMA SameAmounts ==
  ASSUME NEW S \in SUBSET Operations, IsFiniteSet(S),
         \A o \in S : op'[o].amount = op[o].amount
  PROVE  SumFunctionOnSet([o \in Operations |-> op'[o].amount], S) = AmountsOf(S)
<1> DEFINE F == [o \in Operations |-> op[o].amount]
           G == [o \in Operations |-> op'[o].amount]
<1>1. \A o \in S : G[o] = F[o]
  OBVIOUS
<1> HIDE DEF F, G
<1>2. SumFunctionOnSet(G, S) = SumFunctionOnSet(F, S)
  BY <1>1, SumOfEqual
<1> QED
  BY <1>2 DEF F, G, AmountsOf

\* What is taken back stays the same as long as no reversal is planned.
LEMMA TakenStays ==
  ASSUME RowTypes, NEW b, ReversalsOf(b)' = ReversalsOf(b),
         \A o \in ReversalsOf(b) : op'[o].amount = op[o].amount
  PROVE  Taken(b)' = Taken(b)
<1>1. ReversalsOf(b) \in SUBSET Operations /\ IsFiniteSet(ReversalsOf(b))
  BY TakenParts
<1>2. SumFunctionOnSet([o \in Operations |-> op'[o].amount], ReversalsOf(b)) = Taken(b)
  BY <1>1, SameAmounts DEF Taken
<1>3. Taken(b)' = SumFunctionOnSet([o \in Operations |-> op'[o].amount], ReversalsOf(b)')
  BY DEF Taken, AmountsOf
<1> QED
  BY <1>2, <1>3

LEMMA OnwardKeeps ==
  ASSUME IInv, RowTypes', CallsSound', Onward
  PROVE  IInv'
<1>1. \A b \in Batches :
        /\ ItemsOf(b)' = ItemsOf(b) /\ Amount(b)' = Amount(b)
        /\ batch'[b].items = batch[b].items
  BY DEF Onward, BatchOnward, ItemsOf, Amount
<1>2. \A o \in Operations : OperationOnward(o)
  BY DEF Onward
<1>3. \A f \in Refunds : refund'[f].batch = refund[f].batch
                         /\ (refund'[f].state \in Accounted <=> refund[f].state \in Accounted)
  BY DEF Onward, RefundOnward, Accounted, RefundStates
<1>4. BatchesSound'
  <2> SUFFICES ASSUME NEW b \in Batches PROVE BatchSound(b)'
    BY DEF BatchesSound
  <2>1. BatchSound(b) /\ BatchOnward(b)
    BY DEF IInv, BatchesSound, Onward
  <2>2. OperationOnward(Transfer(b))
    BY <1>2, OperationNames
  <2> QED
    BY <1>1, <2>1, <2>2 DEF BatchSound, BatchOnward, OperationOnward
<1>5. PayoutsSound'
  <2> SUFFICES ASSUME NEW b \in Batches, NEW g \in 1..MaxGenerations PROVE PayoutSound(b, g)'
    BY DEF PayoutsSound
  <2>1. PayoutSound(b, g) /\ BatchOnward(b)
    BY DEF IInv, PayoutsSound, Onward
  <2>2. OperationOnward(Transfer(b)) /\ OperationOnward(Payout(b, g))
    BY <1>2, OperationNames
  <2> QED
    BY <2>1, <2>2 DEF PayoutSound, BatchOnward, OperationOnward
<1>6. ReversalsSound'
  <2> SUFFICES ASSUME NEW f \in Refunds PROVE ReversalSound(f)'
    BY DEF ReversalsSound
  <2>1. ReversalSound(f) /\ RefundOnward(f)
    BY DEF IInv, ReversalsSound, Onward
  <2>2. OperationOnward(Reversal(f))
    BY <1>2, OperationNames
  <2>3. refund[f].batch \in Batches => OperationOnward(Transfer(refund[f].batch))
    BY <1>2, OperationNames
  <2> QED
    BY <2>1, <2>2, <2>3 DEF ReversalSound, RefundOnward, OperationOnward
<1>7. ChargesSound'
  <2> SUFFICES ASSUME NEW f \in Refunds PROVE ChargeSound(f)'
    BY DEF ChargesSound
  <2>1. ChargeSound(f) /\ RefundOnward(f)
    BY DEF IInv, ChargesSound, Onward
  <2>2. OperationOnward(Reversal(f))
    BY <1>2, OperationNames
  <2>3. refund[f].batch \in Batches \/ refund[f].batch = 0
    BY DEF IInv, RowTypes
  <2>4. refund[f].batch \in Batches =>
          /\ OperationOnward(Transfer(refund[f].batch)) /\ BatchOnward(refund[f].batch)
    BY <1>2, OperationNames DEF Onward
  <2>5. refund[f].state = "BATCH_CHANGED" => ~MaySend(Transfer(refund[f].batch))
    BY DEF MaySend
  <2>6. refund'[f].batch = 0 <=> refund'[f].state \in {"NONE", "SUCCEEDED", "ALLOCATED"}
    BY <2>1 DEF ChargeSound, RefundOnward
  <2>7. refund'[f].batch # 0 => RefundOf[f] \in ItemsOf(refund[f].batch)'
    <3> SUFFICES ASSUME NEW b \in Batches, b = refund'[f].batch
                 PROVE  RefundOf[f] \in ItemsOf(b)'
      BY <1>3, <2>1, <2>3 DEF ItemsOf
    <3>1. b = refund[f].batch /\ b # 0
      BY <1>3, PayoutAssumption DEF Batches
    <3>2. RefundOf[f] \in ItemsOf(b)
      BY <2>1, <3>1 DEF ChargeSound
    <3> QED
      BY <1>1, <3>2
  <2>8. refund'[f].state = "BATCH_CHANGED" => ~op'[Transfer(refund[f].batch)].sent
    <3> SUFFICES ASSUME refund'[f].state = "BATCH_CHANGED"
                 PROVE  ~op'[Transfer(refund[f].batch)].sent
      OBVIOUS
    <3>1. refund[f].state = "BATCH_CHANGED"
      BY <2>1 DEF RefundOnward
    <3>2. refund[f].batch \in Batches /\ ~op[Transfer(refund[f].batch)].sent
      BY <2>1, <2>3, <3>1 DEF ChargeSound
    <3> QED
      BY <2>4, <2>5, <3>1, <3>2 DEF OperationOnward
  <2>9. refund'[f].state = "RESOLVED" =>
          batch'[refund[f].batch].state = "VOIDED" \/ op'[Reversal(f)].projected = "DONE"
    <3> SUFFICES ASSUME refund'[f] = refund[f], refund[f].state = "RESOLVED"
                 PROVE  batch'[refund[f].batch].state = "VOIDED" \/ op'[Reversal(f)].projected = "DONE"
      BY <2>1 DEF RefundOnward
    <3>1. refund[f].batch \in Batches
      BY <2>1, <2>3 DEF ChargeSound
    <3> QED
      BY <2>1, <2>2, <2>4, <3>1 DEF ChargeSound, BatchOnward, OperationOnward
  <2> QED
    BY <1>3, <2>6, <2>7, <2>8, <2>9 DEF ChargeSound
<1>8. ItemsSound'
  <2> SUFFICES ASSUME NEW b \in Batches, NEW e \in Earnings PROVE ItemSound(b, e)'
    BY DEF ItemsSound
  <2>1. ItemSound(b, e)
    BY DEF IInv, ItemsSound
  <2>2. Before(e, b)' = Before(e, b)
    BY <1>3 DEF Before, RefundsOf
  <2>3. Active(e)' = Active(e)
    BY <1>1 DEF Active, Onward, BatchOnward
  <2> QED
    BY <1>1, <2>1, <2>2, <2>3 DEF ItemSound, Onward, BatchOnward
<1>9. FundsSound'
  <2>1. ASSUME NEW b \in Batches
        PROVE  Taken(b)' = Taken(b) /\ ReversalsOf(b)' = ReversalsOf(b)
    <3>1. ReversalsOf(b)' = ReversalsOf(b)
      BY <1>2, <1>3, OperationNames DEF ReversalsOf, OperationOnward
    <3>2. ReversalsOf(b) \in SUBSET Operations
      BY TakenParts DEF IInv
    <3> QED
      BY <1>2, <3>1, <3>2, TakenStays DEF IInv, OperationOnward
  <2>2. ASSUME NEW b \in Batches
        PROVE  /\ op[Transfer(b)].projected = "DONE" => Transferred(b)' = Transferred(b)
               /\ Transferred(b) <= Transferred(b)'
               /\ Transferred(b) \in Nat /\ Transferred(b)' \in Nat
    <3>1. op[Transfer(b)].projected = "DONE" => op'[Transfer(b)].projected = "DONE"
      BY <1>2, OperationNames DEF OperationOnward
    <3>2. Transferred(b) \in Nat
      BY AmountNat DEF IInv
    <3>3. Amount(b) \in Nat
      BY AmountNat DEF IInv
    <3> QED
      BY <1>1, <3>1, <3>2, <3>3 DEF Transferred
  <2>3. ASSUME NEW b \in Batches PROVE Taken(b)' <= Transferred(b)'
    <3>1. Taken(b) <= Transferred(b) /\ Taken(b) \in Nat
      BY TakenParts DEF IInv, FundsSound
    <3> QED
      BY <2>1, <2>2, <3>1
  <2>4. ASSUME NEW b \in Batches, NEW g \in 1..MaxGenerations PROVE PayoutCovered(b, g)'
    <3>1. PICK o \in Operations : o = Payout(b, g)
      BY OperationNames
    <3> SUFFICES ASSUME op'[o].sent, op'[o].projected # "FAILED"
                 PROVE  /\ \A r \in ReversalsOf(b)' : op'[r].projected = "DONE"
                        /\ op'[o].amount + Taken(b)' = Transferred(b)'
      BY <3>1 DEF PayoutCovered
    <3>2. OperationOnward(o)
      BY <1>2
    <3>3. op[o].state # "NONE"
      BY <3>2 DEF CallsSound, CallSound, OperationOnward
    <3>4. op[Transfer(b)].projected = "DONE"
      BY <3>1, <3>3 DEF IInv, PayoutsSound, PayoutSound
    <3>5. /\ \A r \in ReversalsOf(b) : op[r].projected = "DONE"
          /\ op[o].amount + Taken(b) = Transferred(b)
      <4>1. CASE op[o].sent
        BY <3>1, <3>2, <4>1 DEF IInv, FundsSound, PayoutCovered, OperationOnward
      <4>2. CASE MaySend(o)
        BY <3>1, <4>2 DEF MaySend
      <4> QED
        BY <3>2, <4>1, <4>2 DEF OperationOnward
    <3>6. \A r \in ReversalsOf(b) : op'[r].projected = "DONE"
      BY <1>2, <3>5, TakenParts DEF IInv, OperationOnward
    <3> QED
      BY <2>1, <2>2, <3>2, <3>4, <3>5, <3>6 DEF OperationOnward
  <2> QED
    BY <2>3, <2>4 DEF FundsSound
<1> QED
  BY <1>4, <1>5, <1>6, <1>7, <1>8, <1>9 DEF IInv

-----------------------------------------------------------------------------
(* Executions.                                                             *)

\* A step on one operation that leaves the batches and the books alone.
LEMMA OneOperationKeeps ==
  ASSUME IInv, NEW o \in Operations,
         UNCHANGED <<refund, batch>>, differences' \subseteq Operations,
         op' \in [Operations -> Operation],
         provider' \in [Operations -> {"NONE"} \cup Effects],
         \A q \in Operations \ {o} : op'[q] = op[q] /\ provider'[q] = provider[q],
         CallSound(o)', OperationOnward(o)
  PROVE  IInv'
<1>1. RowTypes'
  BY DEF IInv, RowTypes
<1>2. CallsSound'
  <2> SUFFICES ASSUME NEW q \in Operations PROVE CallSound(q)'
    BY DEF CallsSound
  <2>1. CASE q = o
    BY <2>1
  <2>2. CASE q # o
    <3>1. op'[q] = op[q] /\ provider'[q] = provider[q] /\ CallSound(q)
      BY <2>2 DEF IInv, CallsSound
    <3> QED
      BY <3>1 DEF CallSound
  <2> QED
    BY <2>1, <2>2
<1>3. \A q \in Operations : OperationOnward(q)
  BY DEF OperationOnward
<1>4. ASSUME NEW b \in Batches PROVE BatchOnward(b)
  <2>1. batch[b].generation \in 1..MaxGenerations
    BY DEF IInv, RowTypes, PayoutBatch
  <2>2. OperationOnward(Payout(b, batch[b].generation))
    BY <1>3, <2>1, OperationNames
  <2>3. BatchSound(b)
    BY DEF IInv, BatchesSound
  <2> QED
    BY <2>2, <2>3 DEF BatchOnward, BatchSound, OperationOnward
<1>5. \A f \in Refunds : RefundOnward(f)
  BY DEF RefundOnward
<1>6. Onward
  BY <1>3, <1>4, <1>5 DEF Onward
<1> QED
  BY <1>1, <1>2, <1>6, OnwardKeeps

\* Setting the state, what was seen and what was taken back of a row.
LEMMA RowWritten ==
  ASSUME RowTypes, NEW o \in Operations, NEW p \in Operation,
         op' = [op EXCEPT ![o] = p]
  PROVE  /\ op' \in [Operations -> Operation]
         /\ op'[o] = p
         /\ \A q \in Operations \ {o} : op'[q] = op[q]
  BY DEF RowTypes

LEMMA ClaimKeeps ==
  ASSUME IInv, NEW o \in Operations, Claim(o)
  PROVE  IInv'
<1>1. op[o] \in Operation /\ op \in [Operations -> Operation] /\ CallSound(o)
  BY DEF IInv, RowTypes, CallsSound
<1> DEFINE p == [op[o] EXCEPT !.state = "RUNNING", !.seen = "NONE", !.back = 0]
<1>2. p \in Operation
  BY <1>1 DEF Operation, OperationStates
<1>3. op' = [op EXCEPT ![o] = p]
  BY <1>1 DEF Claim
<1>4. /\ p.state = "RUNNING" /\ p.seen = "NONE" /\ p.amount = op[o].amount
      /\ p.sent = op[o].sent /\ p.known = op[o].known /\ p.projected = op[o].projected
  BY <1>1 DEF Operation
<1> HIDE DEF p
<1>5. /\ op' \in [Operations -> Operation] /\ op'[o] = p
      /\ \A q \in Operations \ {o} : op'[q] = op[q]
  BY <1>2, <1>3, RowWritten DEF IInv
<1>6. CallSound(o)'
  BY <1>1, <1>4, <1>5 DEF CallSound, Claim, Answers
<1>7. OperationOnward(o)
  BY <1>4, <1>5 DEF OperationOnward, Claim
<1> QED
  BY <1>5, <1>6, <1>7, OneOperationKeeps DEF Claim, IInv, RowTypes

LEMMA FailKeeps ==
  ASSUME IInv, NEW o \in Operations, Fail(o)
  PROVE  IInv'
<1>1. op[o] \in Operation /\ op \in [Operations -> Operation] /\ CallSound(o)
  BY DEF IInv, RowTypes, CallsSound
<1>0. PICK state \in {"READY", "REVIEW"} :
        op' = [op EXCEPT ![o].state = state, ![o].seen = "NONE", ![o].back = 0]
  BY DEF Fail
<1> DEFINE p == [op[o] EXCEPT !.state = state, !.seen = "NONE", !.back = 0]
<1>2. p \in Operation
  BY <1>1 DEF Operation, OperationStates
<1>3. op' = [op EXCEPT ![o] = p]
  BY <1>0, <1>1
<1>4. /\ p.state = state /\ p.seen = "NONE" /\ p.amount = op[o].amount
      /\ p.sent = op[o].sent /\ p.known = op[o].known /\ p.projected = op[o].projected
  BY <1>1 DEF Operation
<1> HIDE DEF p
<1>5. /\ op' \in [Operations -> Operation] /\ op'[o] = p
      /\ \A q \in Operations \ {o} : op'[q] = op[q]
  BY <1>2, <1>3, RowWritten DEF IInv
<1>6. CallSound(o)'
  BY <1>1, <1>4, <1>5 DEF CallSound, Fail, Answers
<1>7. OperationOnward(o)
  BY <1>4, <1>5 DEF OperationOnward, Fail
<1> QED
  BY <1>5, <1>6, <1>7, OneOperationKeeps DEF Fail, IInv, RowTypes

LEMMA UnknownKeeps ==
  ASSUME IInv, NEW o \in Operations, Unknown(o)
  PROVE  IInv'
<1>1. op[o] \in Operation /\ op \in [Operations -> Operation] /\ CallSound(o)
  BY DEF IInv, RowTypes, CallsSound
<1> DEFINE p == [op[o] EXCEPT !.state = "REVIEW", !.seen = "NONE"]
<1>2. p \in Operation
  BY <1>1 DEF Operation, OperationStates
<1>3. op' = [op EXCEPT ![o] = p]
  BY <1>1 DEF Unknown
<1>4. /\ p.state = "REVIEW" /\ p.seen = "NONE" /\ p.amount = op[o].amount
      /\ p.sent = op[o].sent /\ p.known = op[o].known /\ p.projected = op[o].projected
  BY <1>1 DEF Operation
<1> HIDE DEF p
<1>5. /\ op' \in [Operations -> Operation] /\ op'[o] = p
      /\ \A q \in Operations \ {o} : op'[q] = op[q]
  BY <1>2, <1>3, RowWritten DEF IInv
<1>6. CallSound(o)'
  BY <1>1, <1>4, <1>5 DEF CallSound, Unknown, Answers
<1>7. OperationOnward(o)
  BY <1>4, <1>5 DEF OperationOnward, Unknown
<1> QED
  BY <1>5, <1>6, <1>7, OneOperationKeeps DEF Unknown, IInv, RowTypes

LEMMA ResumeKeeps ==
  ASSUME IInv, NEW o \in Operations, Resume(o)
  PROVE  IInv'
<1>1. op[o] \in Operation /\ op \in [Operations -> Operation] /\ CallSound(o)
  BY DEF IInv, RowTypes, CallsSound
<1> DEFINE p == [op[o] EXCEPT !.state = "READY"]
<1>2. p \in Operation
  BY <1>1 DEF Operation, OperationStates
<1>3. op' = [op EXCEPT ![o] = p]
  BY <1>1 DEF Resume
<1>4. /\ p.state = "READY" /\ p.seen = op[o].seen /\ p.amount = op[o].amount
      /\ p.sent = op[o].sent /\ p.known = op[o].known /\ p.projected = op[o].projected
  BY <1>1 DEF Operation
<1> HIDE DEF p
<1>5. /\ op' \in [Operations -> Operation] /\ op'[o] = p
      /\ \A q \in Operations \ {o} : op'[q] = op[q]
  BY <1>2, <1>3, RowWritten DEF IInv
<1>6. CallSound(o)'
  BY <1>1, <1>4, <1>5 DEF CallSound, Resume, Answers
<1>7. OperationOnward(o)
  BY <1>4, <1>5 DEF OperationOnward, Resume
<1> QED
  BY <1>5, <1>6, <1>7, OneOperationKeeps DEF Resume, IInv, RowTypes

\* What the reversals look like at the provider is an amount.
LEMMA ReadKeeps ==
  ASSUME IInv, NEW o \in Operations, Read(o)
  PROVE  IInv'
<1>1. op[o] \in Operation /\ op \in [Operations -> Operation] /\ CallSound(o)
      /\ provider[o] \in {"NONE"} \cup Effects
  BY DEF IInv, RowTypes, CallsSound
<1>0. \A b : ReversedAtProvider(b) \in Nat
  <2> TAKE b
  <2>1. {q \in ReversalsOf(b) : provider[q] = "DONE"} \in SUBSET ReversalsOf(b)
    OBVIOUS
  <2> QED
    BY <2>1, TakenParts, AmountsOfPart DEF IInv, ReversedAtProvider
<1>2. PICK seen, back :
        /\ seen = IF provider[o] \in Answers THEN provider[o] ELSE "ABSENT"
        /\ back = IF o \in Transfers /\ provider[o] = "DONE" THEN ReversedAtProvider(o[2]) ELSE 0
        /\ op' = [op EXCEPT ![o].seen = seen, ![o].back = back]
  BY DEF Read
<1>3. back \in Nat /\ seen \in {"NONE", "ABSENT"} \cup Answers
  BY <1>0, <1>2
<1> DEFINE p == [op[o] EXCEPT !.seen = seen, !.back = back]
<1>4. p \in Operation
  BY <1>1, <1>3 DEF Operation
<1>5. op' = [op EXCEPT ![o] = p]
  BY <1>1, <1>2
<1>6. /\ p.state = op[o].state /\ p.seen = seen /\ p.amount = op[o].amount
      /\ p.sent = op[o].sent /\ p.known = op[o].known /\ p.projected = op[o].projected
  BY <1>1 DEF Operation
<1> HIDE DEF p
<1>7. /\ op' \in [Operations -> Operation] /\ op'[o] = p
      /\ \A q \in Operations \ {o} : op'[q] = op[q]
  BY <1>4, <1>5, RowWritten DEF IInv
<1>8. op[o].sent /\ op[o].state \in {"RUNNING", "REVIEW"}
  BY <1>1 DEF Read, Effect, CallSound
<1>9. CallSound(o)'
  <2>1. seen \in Answers => seen = provider[o]
    BY <1>2 DEF Answers
  <2>2. UNCHANGED provider
    BY DEF Read
  <2> QED
    BY <1>1, <1>6, <1>7, <1>8, <2>1, <2>2 DEF CallSound, Answers, AnswersOf, MayBecome
<1>10. OperationOnward(o)
  BY <1>6, <1>7 DEF OperationOnward
<1> QED
  BY <1>7, <1>9, <1>10, OneOperationKeeps DEF Read, IInv, RowTypes

LEMMA ProgressKeeps ==
  ASSUME IInv, NEW o \in Operations, Progress(o)
  PROVE  IInv'
<1>1. op[o] \in Operation /\ op \in [Operations -> Operation] /\ CallSound(o)
      /\ provider \in [Operations -> {"NONE"} \cup Effects]
  BY DEF IInv, RowTypes, CallsSound
<1>2. PICK status : provider' = [provider EXCEPT ![o] = status] /\
        \/ provider[o] = "LATE" /\ status = Executed(o)
        \/ provider[o] = "PENDING" /\ status \in {"PAID", "FAILED"}
        \/ provider[o] = "PAID" /\ status = "FAILED"
  BY DEF Progress
<1>3. status \in AnswersOf(o) /\ status \in Answers
  BY <1>1, <1>2 DEF Executed, AnswersOf, Answers, CallSound
<1>4. provider' \in [Operations -> {"NONE"} \cup Effects] /\ provider'[o] = status
      /\ \A q \in Operations \ {o} : provider'[q] = provider[q]
  BY <1>1, <1>2, <1>3 DEF Effects
<1>5. UNCHANGED <<refund, batch, op, differences>>
  BY DEF Progress
<1>6. provider[o] = "LATE" => op[o].projected = "NONE" /\ op[o].seen \notin Answers
  BY <1>1 DEF CallSound, MayBecome, Answers, AnswersOf, Operation
<1>7. CallSound(o)'
  BY <1>1, <1>2, <1>3, <1>4, <1>5, <1>6 DEF CallSound, MayBecome
<1>8. OperationOnward(o)
  BY <1>5 DEF OperationOnward
<1> QED
  BY <1>1, <1>4, <1>5, <1>7, <1>8, OneOperationKeeps DEF IInv, RowTypes

-----------------------------------------------------------------------------
(* Applying an answer.                                                     *)

\* The row of an operation whose answer p was saved.
LEMMA ObservedRow ==
  ASSUME RowTypes, NEW o \in Operations, NEW p \in {"NONE"} \cup Answers, Observed(o, p)
  PROVE  /\ op' \in [Operations -> Operation]
         /\ \A q \in Operations \ {o} : op'[q] = op[q]
         /\ op'[o].state = "OBSERVED" /\ op'[o].sent /\ op'[o].known
         /\ op'[o].seen = "NONE" /\ op'[o].projected = p
         /\ op'[o].amount = op[o].amount
<1>1. op[o] \in Operation /\ op \in [Operations -> Operation]
  BY DEF RowTypes
<1> DEFINE r == [op[o] EXCEPT !.state = "OBSERVED", !.sent = TRUE, !.known = TRUE,
                              !.seen = "NONE", !.back = 0, !.projected = p]
<1>2. r \in Operation
  BY <1>1 DEF Operation, OperationStates
<1>3. op' = [op EXCEPT ![o] = r]
  BY <1>1 DEF Observed
<1>4. /\ r.state = "OBSERVED" /\ r.sent /\ r.known /\ r.seen = "NONE" /\ r.projected = p
      /\ r.amount = op[o].amount
  BY <1>1 DEF Operation
<1> HIDE DEF r
<1> QED
  BY <1>2, <1>3, <1>4, RowWritten

LEMMA ObservedKeeps ==
  ASSUME IInv, NEW o \in Operations, NEW p,
         op[o].state \in {"RUNNING", "REVIEW"}, op[o].sent \/ MaySend(o),
         p \in {"NONE"} \cup AnswersOf(o), MayBecome(op[o].projected, p),
         Observed(o, p),
         provider' \in [Operations -> {"NONE"} \cup Effects],
         \A q \in Operations \ {o} : provider'[q] = provider[q],
         provider'[o] \in AnswersOf(o), MayBecome(p, provider'[o]),
         refund' \in [Refunds -> [state : RefundStates, batch : Batches \cup {0}]],
         batch' \in [Batches -> PayoutBatch],
         differences' \subseteq Operations,
         \A b \in Batches : BatchOnward(b),
         \A f \in Refunds : RefundOnward(f)
  PROVE  IInv'
<1>1. p \in {"NONE"} \cup Answers /\ provider'[o] \in Answers
  BY DEF AnswersOf, Answers
<1>2. /\ op' \in [Operations -> Operation]
      /\ \A q \in Operations \ {o} : op'[q] = op[q]
      /\ op'[o].state = "OBSERVED" /\ op'[o].sent /\ op'[o].known
      /\ op'[o].seen = "NONE" /\ op'[o].projected = p
      /\ op'[o].amount = op[o].amount
  BY <1>1, ObservedRow DEF IInv
<1>3. RowTypes'
  BY <1>2 DEF RowTypes
<1>4. CallSound(o)'
  <2>1. "NONE" \notin Answers
    BY DEF Answers
  <2> QED
    BY <1>1, <1>2, <2>1 DEF CallSound
<1>5. CallsSound'
  <2> SUFFICES ASSUME NEW q \in Operations PROVE CallSound(q)'
    BY DEF CallsSound
  <2>1. CASE q = o
    BY <1>4, <2>1
  <2>2. CASE q # o
    <3>1. op'[q] = op[q] /\ provider'[q] = provider[q] /\ CallSound(q)
      BY <1>2, <2>2 DEF IInv, CallsSound
    <3> QED
      BY <3>1 DEF CallSound
  <2> QED
    BY <2>1, <2>2
<1>6. \A q \in Operations : OperationOnward(q)
  <2>1. OperationOnward(o)
    BY <1>2 DEF OperationOnward, MayBecome, AnswersOf
  <2>2. \A q \in Operations \ {o} : OperationOnward(q)
    BY <1>2 DEF OperationOnward
  <2> QED
    BY <2>1, <2>2
<1>7. Onward
  BY <1>6 DEF Onward
<1> QED
  BY <1>3, <1>5, <1>7, OnwardKeeps

LEMMA ApplyTransferKeeps ==
  ASSUME IInv, NEW b \in Batches, NEW o \in Operations, o = Transfer(b), NEW answer, NEW back,
         op[o].state \in {"RUNNING", "REVIEW"}, op[o].sent \/ MaySend(o),
         answer \in AnswersOf(o), MayBecome(op[o].projected, answer),
         ApplyTransfer(b, back), Observed(o, answer),
         provider' \in [Operations -> {"NONE"} \cup Effects],
         \A q \in Operations \ {o} : provider'[q] = provider[q],
         provider'[o] \in AnswersOf(o), MayBecome(answer, provider'[o])
  PROVE  IInv'
<1>1. \A q \in Operations \ {o} : op'[q] = op[q]
  <2>1. answer \in {"NONE"} \cup Answers
    BY DEF AnswersOf, Answers
  <2> QED
    BY <2>1, ObservedRow DEF IInv
<1>2. batch \in [Batches -> PayoutBatch] /\ batch[b] \in PayoutBatch
  BY DEF IInv, RowTypes
<1>3. PICK s \in BatchStates :
        /\ s = IF batch[b].state = "PLANNED" THEN "TRANSFERRED" ELSE batch[b].state
        /\ batch' = [batch EXCEPT ![b].state = s]
  BY <1>2 DEF ApplyTransfer, BatchStates, PayoutBatch
<1>4. batch' \in [Batches -> PayoutBatch]
  BY <1>2, <1>3 DEF PayoutBatch
<1>5. ASSUME NEW c \in Batches PROVE BatchOnward(c)
  <2>1. /\ batch'[c].items = batch[c].items /\ batch'[c].generation = batch[c].generation
        /\ batch'[c].state = IF c = b THEN s ELSE batch[c].state
    BY <1>2, <1>3 DEF PayoutBatch
  <2>2. batch[c].generation \in 1..MaxGenerations
    BY <1>2 DEF PayoutBatch
  <2>3. op'[Payout(c, batch[c].generation)] = op[Payout(c, batch[c].generation)]
    BY <1>1, <2>2, OperationNames
  <2>4. BatchSound(c)
    BY DEF IInv, BatchesSound
  <2> QED
    BY <1>3, <2>1, <2>3, <2>4 DEF BatchOnward, BatchSound
<1>6. UNCHANGED refund /\ differences' \subseteq Operations
  BY OperationNames DEF ApplyTransfer, IInv, RowTypes
<1>7. \A f \in Refunds : RefundOnward(f)
  BY <1>6 DEF RefundOnward
<1> QED
  BY <1>4, <1>5, <1>6, <1>7, ObservedKeeps DEF IInv, RowTypes

\* A payout has been planned for a batch that was transferred.
LEMMA TransferredBatch ==
  ASSUME IInv, NEW b \in Batches, op[Transfer(b)].projected = "DONE"
  PROVE  batch[b].state \notin {"NONE", "VOIDED"} /\ op[Transfer(b)].sent
         /\ provider[Transfer(b)] = "DONE" /\ Transferred(b) = Amount(b)
<1>1. CallSound(Transfer(b)) /\ Transfer(b) \in Operations \ Payouts
  BY OperationNames DEF IInv, CallsSound
<1>2. op[Transfer(b)].known /\ op[Transfer(b)].sent /\ provider[Transfer(b)] = "DONE"
  BY <1>1 DEF CallSound, Answers, AnswersOf
<1>3. BatchSound(b)
  BY DEF IInv, BatchesSound
<1> QED
  BY <1>1, <1>2, <1>3 DEF CallSound, BatchSound, Transferred

LEMMA ApplyPayoutKeeps ==
  ASSUME IInv, NEW b \in Batches, NEW g \in 1..MaxGenerations, NEW o \in Operations,
         o = Payout(b, g), NEW answer,
         op[o].state \in {"RUNNING", "REVIEW"}, op[o].sent \/ MaySend(o),
         answer \in AnswersOf(o), MayBecome(op[o].projected, answer),
         ApplyPayout(b, g, answer),
         Observed(o, IF batch[b].state = "PAID" /\ answer # "PAID" THEN op[o].projected ELSE answer),
         provider' \in [Operations -> {"NONE"} \cup Effects],
         \A q \in Operations \ {o} : provider'[q] = provider[q],
         provider'[o] \in AnswersOf(o), MayBecome(answer, provider'[o])
  PROVE  IInv'
<1>1. CallSound(o) /\ o \in Payouts /\ batch \in [Batches -> PayoutBatch] /\ op[o] \in Operation
  BY OperationNames DEF IInv, CallsSound, RowTypes
<1>2. PICK p : p = IF batch[b].state = "PAID" /\ answer # "PAID" THEN op[o].projected ELSE answer
  OBVIOUS
<1>3. /\ p \in {"NONE"} \cup AnswersOf(o) /\ MayBecome(op[o].projected, p)
      /\ MayBecome(p, provider'[o]) /\ Observed(o, p)
  BY <1>1, <1>2 DEF CallSound, MayBecome, AnswersOf, Operation, Answers
<1>4. /\ \A q \in Operations \ {o} : op'[q] = op[q]
      /\ op'[o].projected = p
  <2>1. p \in {"NONE"} \cup Answers
    BY <1>3 DEF AnswersOf, Answers
  <2> QED
    BY <1>3, <2>1, ObservedRow DEF IInv
<1>5. batch[b].state \notin {"NONE", "VOIDED"}
  BY <1>1, TransferredBatch DEF IInv, PayoutsSound, PayoutSound
<1>6. PICK s \in BatchStates :
        /\ s \notin {"NONE", "VOIDED"}
        /\ \/ s = batch[b].state /\ (g # batch[b].generation \/ s # "PAYOUT_FAILED")
           \/ g = batch[b].generation /\ (s = "PAYOUT_FAILED" => p = "FAILED")
        /\ \/ UNCHANGED batch /\ s = batch[b].state
           \/ batch' = [batch EXCEPT ![b].state = s]
  <2>0. batch[b].state \in BatchStates
    BY <1>1 DEF PayoutBatch
  <2>1. CASE batch[b].state = "PAID" /\ answer # "PAID"
    <3>1. UNCHANGED batch
      BY <2>1 DEF ApplyPayout
    <3> QED
      BY <2>0, <2>1, <3>1
  <2>2. CASE ~(batch[b].state = "PAID" /\ answer # "PAID") /\ g = batch[b].generation
    <3>1. batch' = [batch EXCEPT ![b].state = Statuses[answer]] /\ p = answer
      BY <1>2, <2>2 DEF ApplyPayout
    <3>2. /\ Statuses[answer] \in BatchStates \ {"NONE", "VOIDED"}
          /\ Statuses[answer] = "PAYOUT_FAILED" => answer = "FAILED"
      BY <1>1 DEF Statuses, AnswersOf, BatchStates
    <3> QED
      BY <2>2, <3>1, <3>2
  <2>3. CASE ~(batch[b].state = "PAID" /\ answer # "PAID") /\ g # batch[b].generation
    <3>1. batch' = [batch EXCEPT ![b].state = batch[b].state]
      BY <2>3 DEF ApplyPayout
    <3> QED
      BY <1>5, <2>0, <2>3, <3>1
  <2> QED
    BY <2>1, <2>2, <2>3
<1>7. batch' \in [Batches -> PayoutBatch]
  BY <1>1, <1>6 DEF PayoutBatch
<1>8. ASSUME NEW c \in Batches PROVE BatchOnward(c)
  <2>1. /\ batch'[c].items = batch[c].items /\ batch'[c].generation = batch[c].generation
        /\ batch'[c].state = IF c = b THEN s ELSE batch[c].state
    BY <1>1, <1>6 DEF PayoutBatch
  <2>2. batch[c].generation \in 1..MaxGenerations
    BY <1>1 DEF PayoutBatch
  <2>3. BatchSound(c)
    BY DEF IInv, BatchesSound
  <2>4. CASE c # b
    <3>1. Payout(c, batch[c].generation) \in Operations /\ Payout(c, batch[c].generation) # o
      BY <2>2, <2>4, OperationNames
    <3> QED
      BY <1>4, <2>1, <2>3, <2>4, <3>1 DEF BatchOnward, BatchSound
  <2>5. CASE c = b /\ g = batch[b].generation
    <3>1. s = "PAYOUT_FAILED" => p = "FAILED"
      BY <1>6, <2>5
    <3> QED
      BY <1>4, <1>5, <1>6, <2>1, <2>5, <3>1 DEF BatchOnward
  <2>6. CASE c = b /\ g # batch[b].generation
    <3>1. Payout(b, batch[b].generation) \in Operations /\ Payout(b, batch[b].generation) # o
      BY <2>2, <2>6, OperationNames
    <3>2. s = batch[b].state
      BY <1>6, <2>6
    <3> QED
      BY <1>4, <2>1, <2>3, <2>6, <3>1, <3>2 DEF BatchOnward, BatchSound
  <2> QED
    BY <2>4, <2>5, <2>6
<1>9. UNCHANGED refund /\ differences' \subseteq Operations
  BY DEF ApplyPayout, IInv, RowTypes
<1>10. \A f \in Refunds : RefundOnward(f)
  BY <1>9 DEF RefundOnward
<1> QED
  BY <1>3, <1>7, <1>8, <1>9, <1>10, ObservedKeeps DEF IInv, RowTypes

LEMMA ApplyReversalKeeps ==
  ASSUME IInv, NEW f \in Refunds, NEW o \in Operations, o = Reversal(f), NEW answer,
         op[o].state \in {"RUNNING", "REVIEW"}, op[o].sent \/ MaySend(o),
         answer \in AnswersOf(o), MayBecome(op[o].projected, answer),
         ApplyReversal(f), Observed(o, answer),
         provider' \in [Operations -> {"NONE"} \cup Effects],
         \A q \in Operations \ {o} : provider'[q] = provider[q],
         provider'[o] \in AnswersOf(o), MayBecome(answer, provider'[o])
  PROVE  IInv'
<1>1. /\ o \in Operations \ Payouts /\ batch \in [Batches -> PayoutBatch]
      /\ refund \in [Refunds -> [state : RefundStates, batch : Batches \cup {0}]]
  BY OperationNames DEF IInv, RowTypes
<1>2. answer = "DONE"
  BY <1>1 DEF AnswersOf
<1>3. /\ \A q \in Operations \ {o} : op'[q] = op[q]
      /\ op'[o].projected = "DONE"
  BY <1>2, ObservedRow DEF IInv, Answers
<1>4. PICK b \in Batches : b = refund[f].batch
  BY DEF IInv, ReversalsSound, ReversalSound
<1>5. batch[b].state \notin {"NONE", "VOIDED"} /\ refund[f].state \in {"POST_PAYOUT_REFUND", "RESOLVED"}
  BY <1>4, TransferredBatch DEF IInv, ReversalsSound, ReversalSound
<1>6. PICK s \in BatchStates :
        /\ s = batch[b].state \/ s = "REVERSED"
        /\ (UNCHANGED batch /\ s = batch[b].state) \/ batch' = [batch EXCEPT ![b].state = s]
  <2>0. batch[b].state \in BatchStates
    BY <1>1 DEF PayoutBatch
  <2>1. CASE op[Reversal(f)].projected = "DONE"
    BY <2>0, <2>1 DEF ApplyReversal
  <2>2. CASE op[Reversal(f)].projected # "DONE"
    <3>1. PICK s : /\ s = IF Reversed(b) + op[Reversal(f)].amount = Transferred(b)
                          THEN "REVERSED" ELSE batch[b].state
                   /\ batch' = [batch EXCEPT ![b].state = s]
      BY <1>4, <2>2 DEF ApplyReversal
    <3> QED
      BY <2>0, <3>1 DEF BatchStates
  <2> QED
    BY <2>1, <2>2
<1>7. batch' \in [Batches -> PayoutBatch]
  BY SMTT(30), <1>1, <1>6 DEF PayoutBatch
<1>8. ASSUME NEW c \in Batches PROVE BatchOnward(c)
  <2>1. /\ batch'[c].items = batch[c].items /\ batch'[c].generation = batch[c].generation
        /\ batch'[c].state = IF c = b THEN s ELSE batch[c].state
    BY <1>1, <1>6 DEF PayoutBatch
  <2>2. batch[c].generation \in 1..MaxGenerations
    BY <1>1 DEF PayoutBatch
  <2>3. op'[Payout(c, batch[c].generation)] = op[Payout(c, batch[c].generation)]
    BY <1>3, <2>2, OperationNames
  <2>4. BatchSound(c)
    BY DEF IInv, BatchesSound
  <2> QED
    BY <1>5, <1>6, <2>1, <2>3, <2>4 DEF BatchOnward, BatchSound
<1>9. UNCHANGED refund \/ refund' = [refund EXCEPT ![f].state = "RESOLVED"]
  BY DEF ApplyReversal
<1>10. refund' \in [Refunds -> [state : RefundStates, batch : Batches \cup {0}]]
  BY <1>1, <1>9 DEF RefundStates
<1>11. ASSUME NEW h \in Refunds PROVE RefundOnward(h)
  BY <1>1, <1>3, <1>5, <1>9 DEF RefundOnward
<1>12. differences' \subseteq Operations
  BY DEF ApplyReversal, IInv, RowTypes
<1> QED
  BY <1>7, <1>8, <1>10, <1>11, <1>12, ObservedKeeps DEF IInv, RowTypes
-----------------------------------------------------------------------------
(* Dispatches.                                                             *)

\* With nothing reserved every reversal is done: none is of zero cents.
LEMMA NothingReserved ==
  ASSUME IInv, NEW b \in Batches, Reserved(b) = 0
  PROVE  \A r \in ReversalsOf(b) : op[r].projected = "DONE"
<1> SUFFICES ASSUME NEW r \in ReversalsOf(b), op[r].projected # "DONE"
             PROVE  FALSE
  OBVIOUS
<1>1. PICK f \in Refunds : r = Reversal(f) /\ op[r].state # "NONE"
  BY DEF ReversalsOf
<1>2. op[r].amount > 0
  BY <1>1, PayoutAssumption DEF IInv, ReversalsSound, ReversalSound
<1> DEFINE R == {o \in ReversalsOf(b) : op[o].projected # "DONE"}
<1>3. R \in SUBSET Operations /\ IsFiniteSet(R) /\ r \in R
  BY TakenParts, AmountsOfPart DEF IInv
<1> HIDE DEF R
<1>4. op[r].amount <= AmountsOf(R) /\ op[r].amount \in Nat /\ AmountsOf(R) \in Nat
  BY <1>3, AmountAtLeast, AmountsNat DEF IInv
<1>5. AmountsOf(R) = 0
  BY DEF Reserved, R
<1> QED
  BY <1>2, <1>4, <1>5

\* Authority for a payout or a transfer (payout-authority.ts) means that the
\* money is there, and that no refund has changed what is sent.
LEMMA AuthoritySends ==
  ASSUME IInv, NEW o \in Operations, Authority(o)
  PROVE  MaySend(o)
<1>1. ASSUME NEW f \in Refunds, refund[f].state = "BATCH_CHANGED", o = Transfer(refund[f].batch)
      PROVE  FALSE
  <2>1. refund[f].batch \in Batches /\ RefundOf[f] \in ItemsOf(refund[f].batch)
    BY <1>1 DEF IInv, RowTypes, ChargesSound, ChargeSound
  <2>2. TransferAuthority(refund[f].batch)
    BY <1>1, <2>1, OperationNames DEF Authority, PayoutsOf
  <2>3. f \in RefundsOf(RefundOf[f])
    BY DEF RefundsOf
  <2> QED
    BY <1>1, <2>1, <2>2, <2>3 DEF TransferAuthority, Eligible
<1>2. ASSUME NEW b \in Batches, NEW g \in 1..MaxGenerations, o = Payout(b, g)
      PROVE  /\ \A r \in ReversalsOf(b) : op[r].projected = "DONE"
             /\ op[o].amount + Taken(b) = Transferred(b)
  <2>1. PayoutAuthority(b, o)
    BY <1>2, OperationNames DEF Authority, PayoutsOf
  <2>2. Reserved(b) = 0 /\ op[o].amount = Transferred(b) - Reversed(b)
    BY <2>1 DEF PayoutAuthority
  <2>3. /\ Taken(b) = Reversed(b) + Reserved(b) /\ Reversed(b) \in Nat
        /\ Transferred(b) \in Nat
    BY TakenParts, AmountNat DEF IInv
  <2> QED
    BY <2>2, <2>3, NothingReserved
<1> QED
  BY <1>1, <1>2 DEF MaySend

LEMMA SaveKeeps ==
  ASSUME IInv, NEW o \in Operations, Save(o)
  PROVE  IInv'
<1>1. op[o] \in Operation /\ CallSound(o) /\ provider \in [Operations -> {"NONE"} \cup Effects]
  BY DEF IInv, RowTypes, CallsSound
<1>2. op[o].seen \in Answers /\ op[o].state \in {"RUNNING", "REVIEW"} /\ op[o].sent
  BY <1>1 DEF Save, CallSound, Answers
<1>3. /\ op[o].seen \in AnswersOf(o) /\ MayBecome(op[o].projected, op[o].seen)
      /\ MayBecome(op[o].seen, provider[o])
  BY <1>1, <1>2 DEF CallSound
<1>4. provider[o] \in AnswersOf(o)
  BY <1>3 DEF MayBecome, AnswersOf
<1>5. /\ provider' \in [Operations -> {"NONE"} \cup Effects]
      /\ \A q \in Operations \ {o} : provider'[q] = provider[q]
      /\ provider'[o] = provider[o]
  BY <1>1 DEF Save
<1>6. PICK answer, back : /\ answer = op[o].seen
                          /\ Apply(o, answer, back)
  BY DEF Save
<1>7. CASE \E b \in Batches : o = Transfer(b) /\ ApplyTransfer(b, back) /\ Observed(o, answer)
  BY <1>2, <1>3, <1>4, <1>5, <1>6, <1>7, ApplyTransferKeeps
<1>8. CASE \E b \in Batches, g \in 1..MaxGenerations :
             /\ o = Payout(b, g) /\ ApplyPayout(b, g, answer)
             /\ Observed(o, IF batch[b].state = "PAID" /\ answer # "PAID" THEN op[o].projected ELSE answer)
  BY <1>2, <1>3, <1>4, <1>5, <1>6, <1>8, ApplyPayoutKeeps
<1>9. CASE \E f \in Refunds : o = Reversal(f) /\ ApplyReversal(f) /\ Observed(o, answer)
  BY <1>2, <1>3, <1>4, <1>5, <1>6, <1>9, ApplyReversalKeeps
<1> QED
  BY <1>6, <1>7, <1>8, <1>9 DEF Apply

LEMMA DispatchKeeps ==
  ASSUME IInv, NEW o \in Operations, Dispatch(o)
  PROVE  IInv'
<1>1. /\ op[o] \in Operation /\ op \in [Operations -> Operation] /\ CallSound(o)
      /\ provider \in [Operations -> {"NONE"} \cup Effects]
  BY DEF IInv, RowTypes, CallsSound
<1>2. MaySend(o)
  BY AuthoritySends DEF Dispatch
<1>3. /\ op[o].state = "RUNNING" /\ ~op[o].sent /\ ~op[o].known
      /\ op[o].projected = "NONE" /\ provider[o] = "NONE" /\ op[o].seen = "NONE"
  BY <1>1 DEF Dispatch, Effect, CallSound
<1>4. Executed(o) \in AnswersOf(o) /\ Executed(o) \in Answers
  BY DEF Executed, AnswersOf, Answers
<1>5. PICK answer : answer = Executed(o)
  OBVIOUS
<1>6. CASE provider' = [provider EXCEPT ![o] = answer] /\ Apply(o, answer, 0)
  <2>1. /\ provider' \in [Operations -> {"NONE"} \cup Effects]
        /\ \A q \in Operations \ {o} : provider'[q] = provider[q]
        /\ provider'[o] = answer
    BY <1>1, <1>4, <1>5, <1>6 DEF Effects
  <2>2. /\ op[o].state \in {"RUNNING", "REVIEW"} /\ answer \in AnswersOf(o)
        /\ MayBecome(op[o].projected, answer) /\ MayBecome(answer, provider'[o])
    BY <1>3, <1>4, <1>5, <2>1 DEF MayBecome
  <2>3. CASE \E b \in Batches : o = Transfer(b) /\ ApplyTransfer(b, 0) /\ Observed(o, answer)
    BY <1>2, <2>1, <2>2, <2>3, ApplyTransferKeeps
  <2>4. CASE \E b \in Batches, g \in 1..MaxGenerations :
               /\ o = Payout(b, g) /\ ApplyPayout(b, g, answer)
               /\ Observed(o, IF batch[b].state = "PAID" /\ answer # "PAID" THEN op[o].projected ELSE answer)
    BY <1>2, <2>1, <2>2, <2>4, ApplyPayoutKeeps
  <2>5. CASE \E f \in Refunds : o = Reversal(f) /\ ApplyReversal(f) /\ Observed(o, answer)
    BY <1>2, <2>1, <2>2, <2>5, ApplyReversalKeeps
  <2> QED
    BY <1>6, <2>3, <2>4, <2>5 DEF Apply
<1>7. CASE /\ provider' = [provider EXCEPT ![o] = answer]
           /\ op' = [op EXCEPT ![o].sent = TRUE, ![o].known = TRUE]
           /\ UNCHANGED <<refund, batch, differences>>
  <2> DEFINE p == [op[o] EXCEPT !.sent = TRUE, !.known = TRUE]
  <2>1. p \in Operation
    BY <1>1 DEF Operation
  <2>2. op' = [op EXCEPT ![o] = p]
    BY <1>1, <1>7
  <2>3. /\ p.state = op[o].state /\ p.seen = op[o].seen /\ p.amount = op[o].amount
        /\ p.sent /\ p.known /\ p.projected = op[o].projected
    BY <1>1 DEF Operation
  <2> HIDE DEF p
  <2>4. /\ op' \in [Operations -> Operation] /\ op'[o] = p
        /\ \A q \in Operations \ {o} : op'[q] = op[q]
    BY <2>1, <2>2, RowWritten DEF IInv
  <2>5. /\ provider' \in [Operations -> {"NONE"} \cup Effects] /\ provider'[o] = answer
        /\ \A q \in Operations \ {o} : provider'[q] = provider[q]
    BY <1>1, <1>4, <1>5, <1>7 DEF Effects
  <2>6. CallSound(o)'
    BY <1>3, <1>4, <1>5, <2>3, <2>4, <2>5 DEF CallSound, MayBecome, Answers
  <2>7. OperationOnward(o)
    BY <1>2, <2>3, <2>4 DEF OperationOnward
  <2> QED
    BY <1>7, <2>4, <2>5, <2>6, <2>7, OneOperationKeeps DEF IInv, RowTypes
<1>8. CASE /\ \E effect \in {answer, "NONE", "LATE"} : provider' = [provider EXCEPT ![o] = effect]
           /\ op' = [op EXCEPT ![o].sent = TRUE, ![o].state = "READY"]
           /\ UNCHANGED <<refund, batch, differences>>
  <2> DEFINE p == [op[o] EXCEPT !.sent = TRUE, !.state = "READY"]
  <2>1. p \in Operation
    BY <1>1 DEF Operation, OperationStates
  <2>2. op' = [op EXCEPT ![o] = p]
    BY <1>1, <1>8
  <2>3. /\ p.state = "READY" /\ p.seen = op[o].seen /\ p.amount = op[o].amount
        /\ p.sent /\ p.known = op[o].known /\ p.projected = op[o].projected
    BY <1>1 DEF Operation
  <2> HIDE DEF p
  <2>4. /\ op' \in [Operations -> Operation] /\ op'[o] = p
        /\ \A q \in Operations \ {o} : op'[q] = op[q]
    BY <2>1, <2>2, RowWritten DEF IInv
  <2>5. PICK effect \in {answer, "NONE", "LATE"} : provider' = [provider EXCEPT ![o] = effect]
    BY <1>8
  <2>6. /\ provider' \in [Operations -> {"NONE"} \cup Effects] /\ provider'[o] = effect
        /\ \A q \in Operations \ {o} : provider'[q] = provider[q]
    BY <1>1, <1>4, <1>5, <2>5 DEF Effects
  <2>7. CallSound(o)'
    BY <1>3, <1>4, <1>5, <2>3, <2>4, <2>6 DEF CallSound, MayBecome, Answers
  <2>8. OperationOnward(o)
    BY <1>2, <1>3, <2>3, <2>4 DEF OperationOnward
  <2> QED
    BY <1>8, <2>4, <2>6, <2>7, <2>8, OneOperationKeeps DEF IInv, RowTypes
<1> QED
  BY <1>5, <1>6, <1>7, <1>8 DEF Dispatch
-----------------------------------------------------------------------------
(* Refunds and their accounting.                                           *)

\* What becomes of a refund when reservations are accounted: it succeeds, it is
\* allocated, or it is charged to the batch that holds its earning.
BooksMove(f) ==
  \/ refund'[f] = refund[f]
  \/ refund[f].state = "NONE" /\ refund'[f] = [state |-> "SUCCEEDED", batch |-> 0]
  \/ /\ refund[f].state = "SUCCEEDED" /\ Active(RefundOf[f]) = {}
     /\ refund'[f] = [state |-> "ALLOCATED", batch |-> 0]
  \/ /\ refund[f].state = "SUCCEEDED"
     /\ \E c \in Active(RefundOf[f]), s \in {"BATCH_CHANGED", "POST_PAYOUT_REFUND"} :
          /\ refund'[f] = [state |-> s, batch |-> c]
          /\ s = "BATCH_CHANGED" => ~op[Transfer(c)].sent

\* accountReservation charges a refund to the batch that holds the earning.
LEMMA AccountMoves ==
  ASSUME IInv, NEW S, Account(S), NEW f \in Refunds
  PROVE  /\ BooksMove(f)
         /\ RefundOf[f] \in S => refund'[f].state # "SUCCEEDED"
<1> DEFINE new == IF Active(RefundOf[f]) = {} THEN [state |-> "ALLOCATED", batch |-> 0]
                  ELSE LET b == CHOOSE b \in Active(RefundOf[f]) : TRUE
                       IN  [state |-> IF MayHaveMoved(b) THEN "POST_PAYOUT_REFUND" ELSE "BATCH_CHANGED",
                            batch |-> b]
<1>1. refund'[f] = IF RefundOf[f] \notin S \/ refund[f].state # "SUCCEEDED" THEN refund[f] ELSE new
  BY DEF Account
<1>2. CASE RefundOf[f] \notin S \/ refund[f].state # "SUCCEEDED"
  BY <1>1, <1>2 DEF BooksMove
<1>3. CASE RefundOf[f] \in S /\ refund[f].state = "SUCCEEDED" /\ Active(RefundOf[f]) = {}
  <2>1. refund'[f] = [state |-> "ALLOCATED", batch |-> 0]
    BY <1>1, <1>3
  <2> QED
    BY <1>3, <2>1 DEF BooksMove
<1>4. CASE RefundOf[f] \in S /\ refund[f].state = "SUCCEEDED" /\ Active(RefundOf[f]) # {}
  <2>1. PICK c \in Active(RefundOf[f]) :
          new = [state |-> IF MayHaveMoved(c) THEN "POST_PAYOUT_REFUND" ELSE "BATCH_CHANGED",
                 batch |-> c]
    BY <1>4
  <2> HIDE DEF new
  <2>2. PICK s \in {"BATCH_CHANGED", "POST_PAYOUT_REFUND"} :
          /\ s = IF MayHaveMoved(c) THEN "POST_PAYOUT_REFUND" ELSE "BATCH_CHANGED"
          /\ new = [state |-> s, batch |-> c]
    BY <2>1
  <2>3. s = "BATCH_CHANGED" => ~op[Transfer(c)].sent
    BY <2>2 DEF MayHaveMoved
  <2>4. refund'[f] = [state |-> s, batch |-> c]
    BY <1>1, <1>4, <2>2
  <2>5. refund'[f].state # "SUCCEEDED"
    BY <2>4
  <2> QED
    BY <1>4, <2>3, <2>4, <2>5 DEF BooksMove
<1> QED
  BY <1>2, <1>3, <1>4

LEMMA MovedRefund ==
  ASSUME IInv, NEW f \in Refunds, BooksMove(f)
  PROVE  /\ refund'[f] \in [state : RefundStates, batch : Batches \cup {0}]
         /\ refund[f].state \in Accounted => refund'[f] = refund[f]
         /\ op[Reversal(f)].state # "NONE" => refund'[f] = refund[f]
         /\ \A b \in Batches :
              batch[b].state # "VOIDED" /\ RefundOf[f] \in ItemsOf(b) =>
                (refund'[f].state \in Accounted /\ refund'[f].batch # b
                  <=> refund[f].state \in Accounted /\ refund[f].batch # b)
         /\ refund'[f].batch = 0 <=> refund'[f].state \in {"NONE", "SUCCEEDED", "ALLOCATED"}
         /\ refund'[f].batch # 0 =>
              /\ RefundOf[f] \in ItemsOf(refund'[f].batch)
              /\ refund'[f].state = "BATCH_CHANGED" => ~op[Transfer(refund'[f].batch)].sent
         /\ refund'[f].state = "RESOLVED" => refund'[f] = refund[f]
<1>1. refund[f] \in [state : RefundStates, batch : Batches \cup {0}] /\ ChargeSound(f)
  BY DEF IInv, RowTypes, ChargesSound
<1>2. CASE refund'[f] = refund[f]
  BY <1>1, <1>2 DEF ChargeSound
<1>3. ReversalSound(f)
  BY DEF IInv, ReversalsSound
<1>4. CASE refund[f].state = "NONE" /\ refund'[f] = [state |-> "SUCCEEDED", batch |-> 0]
  BY <1>1, <1>3, <1>4 DEF ReversalSound, Accounted, RefundStates
<1>5. CASE /\ refund[f].state = "SUCCEEDED" /\ Active(RefundOf[f]) = {}
           /\ refund'[f] = [state |-> "ALLOCATED", batch |-> 0]
  BY <1>1, <1>3, <1>5 DEF ReversalSound, Accounted, RefundStates, Active
<1>6. CASE /\ refund[f].state = "SUCCEEDED"
           /\ \E c \in Active(RefundOf[f]), s \in {"BATCH_CHANGED", "POST_PAYOUT_REFUND"} :
                /\ refund'[f] = [state |-> s, batch |-> c]
                /\ s = "BATCH_CHANGED" => ~op[Transfer(c)].sent
  <2>1. PICK c \in Batches, s \in {"BATCH_CHANGED", "POST_PAYOUT_REFUND"} :
          /\ refund'[f] = [state |-> s, batch |-> c]
          /\ s = "BATCH_CHANGED" => ~op[Transfer(c)].sent
          /\ RefundOf[f] \in ItemsOf(c) /\ batch[c].state # "VOIDED"
    BY <1>6 DEF Active
  <2>2. refund'[f].state = s /\ refund'[f].batch = c /\ c # 0
    BY <2>1, PayoutAssumption DEF Batches
  <2>3. RefundOf[f] \in Earnings
    BY PayoutAssumption
  <2>4. ASSUME NEW b \in Batches, batch[b].state # "VOIDED", RefundOf[f] \in ItemsOf(b)
        PROVE  b = c
    BY <2>1, <2>3, <2>4 DEF IInv, ItemsSound, ItemSound
  <2>5. refund[f].state \notin Accounted /\ op[Reversal(f)].state = "NONE"
    BY <1>3, <1>6 DEF ReversalSound, Accounted
  <2>6. refund'[f] \in [state : RefundStates, batch : Batches \cup {0}]
    BY <2>1 DEF RefundStates
  <2> QED
    BY <2>1, <2>2, <2>4, <2>5, <2>6
<1> QED
  BY <1>2, <1>4, <1>5, <1>6 DEF BooksMove

LEMMA BooksKeep ==
  ASSUME IInv, UNCHANGED <<batch, op, provider, differences>>,
         refund' \in [Refunds -> [state : RefundStates, batch : Batches \cup {0}]],
         \A f \in Refunds : BooksMove(f)
  PROVE  IInv'
<1>1. RowTypes' /\ CallsSound' /\ BatchesSound' /\ PayoutsSound'
  <2>1. RowTypes'
    BY DEF IInv, RowTypes
  <2>2. CallsSound'
    BY DEF IInv, CallsSound, CallSound
  <2>3. \A b : ItemsOf(b)' = ItemsOf(b) /\ Amount(b)' = Amount(b)
    BY DEF ItemsOf, Amount
  <2>4. BatchesSound'
    BY <2>3 DEF IInv, BatchesSound, BatchSound
  <2>5. PayoutsSound'
    BY DEF IInv, PayoutsSound, PayoutSound
  <2> QED
    BY <2>1, <2>2, <2>4, <2>5
<1>2. ReversalsSound'
  <2> SUFFICES ASSUME NEW f \in Refunds PROVE ReversalSound(f)'
    BY DEF ReversalsSound
  <2>1. op[Reversal(f)].state # "NONE" => refund'[f] = refund[f]
    BY MovedRefund
  <2> QED
    BY <2>1 DEF IInv, ReversalsSound, ReversalSound
<1>3. ChargesSound'
  <2> SUFFICES ASSUME NEW f \in Refunds PROVE ChargeSound(f)'
    BY DEF ChargesSound
  <2>1. ChargeSound(f)
    BY DEF IInv, ChargesSound
  <2>2. \A b : ItemsOf(b)' = ItemsOf(b)
    BY DEF ItemsOf
  <2>3. refund'[f].state = "RESOLVED" =>
          batch[refund'[f].batch].state = "VOIDED" \/ op[Reversal(f)].projected = "DONE"
    BY <2>1, MovedRefund DEF ChargeSound
  <2>4. /\ refund'[f].batch = 0 <=> refund'[f].state \in {"NONE", "SUCCEEDED", "ALLOCATED"}
        /\ refund'[f].batch # 0 =>
             /\ RefundOf[f] \in ItemsOf(refund'[f].batch)
             /\ refund'[f].state = "BATCH_CHANGED" => ~op[Transfer(refund'[f].batch)].sent
    BY MovedRefund
  <2> QED
    BY <2>2, <2>3, <2>4 DEF ChargeSound
<1>4. ItemsSound'
  <2> SUFFICES ASSUME NEW b \in Batches, NEW e \in Earnings,
                      batch[b].state # "VOIDED", e \in ItemsOf(b)
               PROVE  ItemSound(b, e)'
    BY DEF ItemsSound, ItemSound, ItemsOf
  <2>1. ItemSound(b, e)
    BY DEF IInv, ItemsSound
  <2>2. ASSUME NEW f \in RefundsOf(e)
        PROVE  refund'[f].state \in Accounted /\ refund'[f].batch # b
                 <=> refund[f].state \in Accounted /\ refund[f].batch # b
    BY MovedRefund DEF RefundsOf
  <2>3. Before(e, b)' = Before(e, b)
    BY <2>2 DEF Before, RefundsOf
  <2>4. Active(e)' = Active(e)
    BY DEF Active, ItemsOf
  <2> QED
    BY <2>1, <2>3, <2>4 DEF ItemSound, ItemsOf
<1>5. FundsSound'
  <2> SUFFICES ASSUME NEW b \in Batches
               PROVE  /\ Taken(b)' <= Transferred(b)'
                      /\ \A g \in 1..MaxGenerations : PayoutCovered(b, g)'
    BY DEF FundsSound
  <2>1. ReversalsOf(b)' = ReversalsOf(b)
    <3>1. ASSUME NEW f \in Refunds
          PROVE  refund'[f].batch = b /\ op[Reversal(f)].state # "NONE"
                   <=> refund[f].batch = b /\ op[Reversal(f)].state # "NONE"
      BY MovedRefund
    <3> QED
      BY <3>1 DEF ReversalsOf
  <2>2. Taken(b)' = Taken(b)
    BY <2>1 DEF Taken, AmountsOf
  <2>3. Transferred(b)' = Transferred(b)
    BY DEF Transferred, Amount, ItemsOf
  <2> QED
    BY <2>1, <2>2, <2>3 DEF IInv, FundsSound, PayoutCovered
<1> QED
  BY <1>1, <1>2, <1>3, <1>4, <1>5 DEF IInv

LEMMA RefundedKeeps ==
  ASSUME IInv, NEW f \in Refunds, Refunded(f)
  PROVE  IInv'
<1>1. refund \in [Refunds -> [state : RefundStates, batch : Batches \cup {0}]] /\ ChargeSound(f)
  BY DEF IInv, RowTypes, ChargesSound
<1>2. refund[f].batch = 0 /\ refund[f].state = "NONE"
  BY <1>1 DEF Refunded, ChargeSound
<1>3. refund' = [refund EXCEPT ![f] = [state |-> "SUCCEEDED", batch |-> 0]]
  <2>1. refund[f] \in [state : RefundStates, batch : Batches \cup {0}]
    BY <1>1
  <2>2. [refund[f] EXCEPT !.state = "SUCCEEDED"] = [state |-> "SUCCEEDED", batch |-> 0]
    BY <1>2, <2>1
  <2> QED
    BY <2>2 DEF Refunded
<1>4. /\ refund' \in [Refunds -> [state : RefundStates, batch : Batches \cup {0}]]
      /\ \A h \in Refunds : BooksMove(h)
  BY <1>1, <1>2, <1>3 DEF BooksMove, RefundStates
<1> QED
  BY <1>4, BooksKeep DEF Refunded

LEMMA AccountReservationKeeps ==
  ASSUME IInv, NEW e \in Earnings, AccountReservation(e)
  PROVE  IInv'
<1>1. Account({e}) /\ UNCHANGED <<batch, op, provider, differences>>
  BY DEF AccountReservation
<1>2. \A f \in Refunds : BooksMove(f)
  BY <1>1, AccountMoves
<1>3. refund' \in [Refunds -> [state : RefundStates, batch : Batches \cup {0}]]
  <2>1. \A f \in Refunds : refund'[f] \in [state : RefundStates, batch : Batches \cup {0}]
    BY <1>2, MovedRefund
  <2>2. \E h : refund' = [f \in Refunds |-> h[f]]
    <3>1. refund' = [f \in Refunds |-> refund'[f]]
      BY <1>1 DEF Account
    <3> QED
      BY <3>1
  <2> QED
    BY <2>1, <2>2
<1> QED
  BY <1>1, <1>2, <1>3, BooksKeep
-----------------------------------------------------------------------------
(* The plans of a batch.                                                   *)

\* A row that changed, and those that did not.
LEMMA OtherCalls ==
  ASSUME IInv, NEW S \in SUBSET Operations, UNCHANGED provider,
         \A q \in Operations \ S : op'[q] = op[q],
         \A q \in S : CallSound(q)'
  PROVE  CallsSound'
<1> SUFFICES ASSUME NEW q \in Operations PROVE CallSound(q)'
  BY DEF CallsSound
<1>1. CASE q \in S
  BY <1>1
<1>2. CASE q \notin S
  <2>1. op'[q] = op[q] /\ CallSound(q)
    BY <1>2 DEF IInv, CallsSound
  <2> QED
    BY <2>1 DEF CallSound
<1> QED
  BY <1>1, <1>2

\* A row just prepared, for an operation that had none.
LEMMA PreparedRow ==
  ASSUME NEW amount \in Nat
  PROVE  /\ Prepared(amount) \in Operation
         /\ Prepared(amount).state = "READY" /\ Prepared(amount).amount = amount
         /\ ~Prepared(amount).sent /\ ~Prepared(amount).known
         /\ Prepared(amount).seen = "NONE" /\ Prepared(amount).projected = "NONE"
<1>1. /\ NoOperation \in Operation
      /\ NoOperation.state = "NONE" /\ NoOperation.amount = 0 /\ ~NoOperation.sent
      /\ ~NoOperation.known /\ NoOperation.seen = "NONE" /\ NoOperation.projected = "NONE"
  BY DEF NoOperation, Operation, OperationStates
<1> HIDE DEF NoOperation
<1> QED
  BY <1>1 DEF Prepared, Operation, OperationStates

LEMMA PreparedSound ==
  ASSUME IInv, NEW o \in Operations, op[o].state = "NONE", NEW amount \in Nat,
         op'[o] = Prepared(amount), UNCHANGED provider
  PROVE  CallSound(o)'
<1>1. CallSound(o) /\ op[o] \in Operation
  BY DEF IInv, CallsSound, RowTypes
<1>2. provider[o] = "NONE"
  BY <1>1 DEF CallSound
<1>3. /\ op'[o].state = "READY" /\ ~op'[o].sent /\ ~op'[o].known
      /\ op'[o].seen = "NONE" /\ op'[o].projected = "NONE"
  BY PreparedRow
<1> QED
  BY <1>2, <1>3 DEF CallSound, MayBecome, Answers

LEMMA PlanBankPayoutKeeps ==
  ASSUME IInv, NEW b \in Batches, PlanBankPayout(b)
  PROVE  IInv'
<1>1. batch[b].generation \in 1..MaxGenerations /\ op \in [Operations -> Operation]
      /\ batch \in [Batches -> PayoutBatch]
  BY DEF IInv, RowTypes, PayoutBatch
<1>2. PICK o \in Operations : o = Payout(b, batch[b].generation)
  BY <1>1, OperationNames
<1>3. /\ batch[b].state = "TRANSFERRED" /\ op[o].state = "NONE"
      /\ Transferred(b) > Reversed(b)
      /\ op' = [op EXCEPT ![o] = Prepared(Transferred(b) - Reversed(b))]
      /\ UNCHANGED <<refund, batch, provider, differences>>
  BY <1>2 DEF PlanBankPayout
<1>4. PICK amount \in Nat : amount = Transferred(b) - Reversed(b)
  BY <1>3, TakenParts, AmountNat DEF IInv
<1>5. /\ op' \in [Operations -> Operation] /\ op'[o] = Prepared(amount)
      /\ \A q \in Operations \ {o} : op'[q] = op[q]
  <2>1. Prepared(amount) \in Operation
    BY PreparedRow
  <2>2. op' = [op EXCEPT ![o] = Prepared(amount)]
    BY <1>3, <1>4
  <2> QED
    BY <2>1, <2>2, RowWritten DEF IInv
<1>6. op'[o].state = "READY" /\ ~op'[o].sent /\ ~op'[o].known
      /\ op'[o].seen = "NONE" /\ op'[o].projected = "NONE"
  BY <1>5, PreparedRow
<1>7. op[Transfer(b)].projected = "DONE"
  BY <1>3, TakenParts DEF IInv, Transferred
<1>8. RowTypes' /\ CallsSound'
  <2>1. CallSound(o)'
    BY <1>3, <1>5, PreparedSound
  <2>2. CallsSound'
    <3>1. {o} \in SUBSET Operations /\ \A q \in {o} : CallSound(q)'
      BY <2>1
    <3> QED
      BY <1>3, <1>5, <3>1, OtherCalls
  <2> QED
    BY <1>3, <1>5, <2>2 DEF IInv, RowTypes
<1>9. /\ \A c \in Batches : op'[Transfer(c)] = op[Transfer(c)]
      /\ \A f \in Refunds : op'[Reversal(f)] = op[Reversal(f)]
      /\ \A c \in Batches, g \in 1..MaxGenerations :
           Payout(c, g) # o => op'[Payout(c, g)] = op[Payout(c, g)]
  BY <1>2, <1>5, OperationNames
<1>10. \A c : ItemsOf(c)' = ItemsOf(c) /\ Amount(c)' = Amount(c)
  BY <1>3 DEF ItemsOf, Amount
<1>11. BatchesSound'
  <2> SUFFICES ASSUME NEW c \in Batches PROVE BatchSound(c)'
    BY DEF BatchesSound
  <2>1. BatchSound(c) /\ batch[c].generation \in 1..MaxGenerations
    BY DEF IInv, BatchesSound, RowTypes, PayoutBatch
  <2>2. batch[c].state = "PAYOUT_FAILED" => c # b
    BY <1>3
  <2>3. c # b => Payout(c, batch[c].generation) # o
    BY <1>2, OperationNames
  <2> QED
    BY <1>3, <1>9, <1>10, <2>1, <2>2, <2>3 DEF BatchSound
<1>12. PayoutsSound'
  <2> SUFFICES ASSUME NEW c \in Batches, NEW g \in 1..MaxGenerations PROVE PayoutSound(c, g)'
    BY DEF PayoutsSound
  <2>1. PayoutSound(c, g)
    BY DEF IInv, PayoutsSound
  <2>2. CASE Payout(c, g) = o
    <3>1. c = b /\ g = batch[b].generation
      BY <1>2, <2>2, OperationNames
    <3> QED
      BY <1>1, <1>3, <1>7, <1>9, <3>1 DEF PayoutSound
  <2>3. CASE Payout(c, g) # o
    BY <1>3, <1>9, <2>1, <2>3 DEF PayoutSound
  <2> QED
    BY <2>2, <2>3
<1>13. ReversalsSound' /\ ChargesSound'
  <2>1. \A f \in Refunds : ReversalSound(f) /\ ChargeSound(f)
    BY DEF IInv, ReversalsSound, ChargesSound
  <2>2. \A f \in Refunds : refund[f].batch \in Batches \cup {0}
    BY DEF IInv, RowTypes
  <2>3. \A f \in Refunds : ReversalSound(f)'
    BY <1>3, <1>9, <2>1 DEF ReversalSound
  <2>4. \A f \in Refunds : ChargeSound(f)'
    <3> TAKE f \in Refunds
    <3>1. refund[f].state = "BATCH_CHANGED" => refund[f].batch \in Batches
      BY <2>1, <2>2 DEF ChargeSound
    <3> QED
      BY <1>3, <1>9, <1>10, <2>1, <3>1 DEF ChargeSound
  <2> QED
    BY <2>3, <2>4 DEF ReversalsSound, ChargesSound
<1>14. ItemsSound'
  BY <1>3, <1>10 DEF IInv, ItemsSound, ItemSound, Active, Before
<1>15. FundsSound'
  <2> SUFFICES ASSUME NEW c \in Batches
               PROVE  /\ Taken(c)' <= Transferred(c)'
                      /\ \A g \in 1..MaxGenerations : PayoutCovered(c, g)'
    BY DEF FundsSound
  <2>1. ReversalsOf(c)' = ReversalsOf(c)
    BY <1>3, <1>9 DEF ReversalsOf
  <2>2. \A r \in ReversalsOf(c) : op'[r] = op[r]
    BY <1>9 DEF ReversalsOf
  <2>3. Taken(c)' = Taken(c)
    BY <2>1, <2>2, TakenStays DEF IInv
  <2>4. Transferred(c)' = Transferred(c)
    BY <1>9, <1>10 DEF Transferred
  <2>5. ASSUME NEW g \in 1..MaxGenerations PROVE PayoutCovered(c, g)'
    <3>1. PayoutCovered(c, g)
      BY DEF IInv, FundsSound
    <3> QED
      BY <1>6, <1>9, <2>1, <2>2, <2>3, <2>4, <3>1 DEF PayoutCovered
  <2> QED
    BY <2>3, <2>4, <2>5 DEF IInv, FundsSound
<1> QED
  BY <1>8, <1>11, <1>12, <1>13, <1>14, <1>15 DEF IInv

LEMMA RetryBankPayoutKeeps ==
  ASSUME IInv, NEW b \in Batches, RetryBankPayout(b)
  PROVE  IInv'
<1>1. batch[b].generation \in 1..MaxGenerations /\ batch \in [Batches -> PayoutBatch]
      /\ batch[b] \in PayoutBatch
  BY DEF IInv, RowTypes, PayoutBatch
<1> DEFINE p == [batch[b] EXCEPT !.state = "TRANSFERRED", !.generation = batch[b].generation + 1]
<1>2. /\ batch[b].state = "PAYOUT_FAILED" /\ batch[b].generation < MaxGenerations
      /\ UNCHANGED <<refund, op, provider, differences>>
      /\ batch' = [batch EXCEPT ![b] = p]
  BY <1>1 DEF RetryBankPayout
<1>3. p \in PayoutBatch
  <2>1. batch[b].generation + 1 \in 1..MaxGenerations
    BY <1>1, <1>2, PayoutAssumption
  <2> QED
    BY <1>1, <2>1 DEF PayoutBatch, BatchStates
<1>4. /\ p.state = "TRANSFERRED" /\ p.items = batch[b].items
      /\ p.generation = batch[b].generation + 1
  BY <1>1 DEF PayoutBatch
<1> HIDE DEF p
<1>5. /\ batch' \in [Batches -> PayoutBatch] /\ batch'[b] = p
      /\ \A c \in Batches \ {b} : batch'[c] = batch[c]
  BY <1>1, <1>2, <1>3
<1>6. op[Payout(b, batch[b].generation)].projected = "FAILED"
  BY <1>2 DEF IInv, BatchesSound, BatchSound
<1>7. \A c \in Batches : /\ ItemsOf(c)' = ItemsOf(c) /\ Amount(c)' = Amount(c)
                         /\ batch'[c].items = batch[c].items
                         /\ batch'[c].state = "VOIDED" <=> batch[c].state = "VOIDED"
  <2> TAKE c \in Batches
  <2>1. batch'[c].items = batch[c].items
    BY <1>4, <1>5
  <2> QED
    BY <1>2, <1>4, <1>5, <2>1 DEF ItemsOf, Amount
<1>8. RowTypes' /\ CallsSound'
  BY <1>2, <1>5 DEF IInv, RowTypes, CallsSound, CallSound
<1>9. BatchesSound'
  <2> SUFFICES ASSUME NEW c \in Batches PROVE BatchSound(c)'
    BY DEF BatchesSound
  <2>1. BatchSound(c)
    BY DEF IInv, BatchesSound
  <2> QED
    BY <1>2, <1>4, <1>5, <1>7, <2>1 DEF BatchSound
<1>10. PayoutsSound'
  <2> SUFFICES ASSUME NEW c \in Batches, NEW g \in 1..MaxGenerations PROVE PayoutSound(c, g)'
    BY DEF PayoutsSound
  <2>1. PayoutSound(c, g)
    BY DEF IInv, PayoutsSound
  <2>2. CASE c = b
    BY <1>1, <1>2, <1>4, <1>5, <1>6, <2>1, <2>2 DEF PayoutSound
  <2>3. CASE c # b
    BY <1>2, <1>5, <2>1, <2>3 DEF PayoutSound
  <2> QED
    BY <2>2, <2>3
<1>11. ReversalsSound' /\ ChargesSound'
  <2>1. \A f \in Refunds : ReversalSound(f) /\ ChargeSound(f)
    BY DEF IInv, ReversalsSound, ChargesSound
  <2>2. \A f \in Refunds : refund[f].batch \in Batches \cup {0}
    BY DEF IInv, RowTypes
  <2>3. \A f \in Refunds : ReversalSound(f)'
    BY <1>2, <2>1 DEF ReversalSound
  <2>4. \A f \in Refunds : ChargeSound(f)'
    BY <1>2, <1>7, <2>1, <2>2 DEF ChargeSound
  <2> QED
    BY <2>3, <2>4 DEF ReversalsSound, ChargesSound
<1>12. ItemsSound'
  <2> SUFFICES ASSUME NEW c \in Batches, NEW e \in Earnings PROVE ItemSound(c, e)'
    BY DEF ItemsSound
  <2>1. ItemSound(c, e)
    BY DEF IInv, ItemsSound
  <2>2. Active(e)' = Active(e) /\ Before(e, c)' = Before(e, c)
    BY <1>2, <1>7 DEF Active, Before
  <2> QED
    BY <1>7, <2>1, <2>2 DEF ItemSound
<1>13. FundsSound'
  <2>1. \A c \in Batches : /\ ReversalsOf(c)' = ReversalsOf(c) /\ Taken(c)' = Taken(c)
                           /\ Transferred(c)' = Transferred(c)
    BY <1>2, <1>7 DEF Taken, ReversalsOf, AmountsOf, Transferred
  <2> QED
    BY <1>2, <2>1 DEF IInv, FundsSound, PayoutCovered
<1> QED
  BY <1>8, <1>9, <1>10, <1>11, <1>12, <1>13 DEF IInv
LEMMA VoidBatchKeeps ==
  ASSUME IInv, NEW b \in Batches, VoidBatch(b)
  PROVE  IInv'
<1> PICK o \in Operations : o = Transfer(b)
  BY OperationNames
<1>1. /\ op[o] \in Operation /\ op \in [Operations -> Operation] /\ CallSound(o)
      /\ batch \in [Batches -> PayoutBatch] /\ batch[b] \in PayoutBatch
      /\ refund \in [Refunds -> [state : RefundStates, batch : Batches \cup {0}]]
  BY DEF IInv, RowTypes, CallsSound
<1>2. /\ batch[b].state \notin {"NONE", "VOIDED"} /\ ~op[o].sent
      /\ UNCHANGED <<provider, differences>>
  BY DEF VoidBatch, NeverSent
<1>3. op[o].state # "NONE" /\ op[o].projected = "NONE" /\ provider[o] = "NONE" /\ ~op[o].known
  BY <1>1, <1>2 DEF CallSound, IInv, BatchesSound, BatchSound
<1> DEFINE p == [op[o] EXCEPT !.state = "DEAD_LETTER", !.seen = "NONE"]
           r == [batch[b] EXCEPT !.state = "VOIDED"]
<1>4. p \in Operation /\ r \in PayoutBatch
  BY <1>1 DEF Operation, OperationStates, PayoutBatch, BatchStates
<1>5. op' = [op EXCEPT ![o] = p] /\ batch' = [batch EXCEPT ![b] = r]
  BY <1>1 DEF VoidBatch
<1>6. /\ p.state = "DEAD_LETTER" /\ p.seen = "NONE" /\ p.amount = op[o].amount
      /\ ~p.sent /\ ~p.known /\ p.projected = "NONE"
      /\ r.state = "VOIDED" /\ r.items = batch[b].items /\ r.generation = batch[b].generation
  BY <1>1, <1>2, <1>3 DEF Operation, PayoutBatch
<1> HIDE DEF p, r
<1>7. /\ op' \in [Operations -> Operation] /\ op'[o] = p
      /\ \A q \in Operations \ {o} : op'[q] = op[q]
      /\ batch' \in [Batches -> PayoutBatch] /\ batch'[b] = r
      /\ \A c \in Batches \ {b} : batch'[c] = batch[c]
  BY <1>1, <1>4, <1>5, RowWritten DEF IInv
<1>8. \A f \in Refunds :
        /\ refund'[f] \in [state : RefundStates, batch : Batches \cup {0}]
        /\ refund'[f].batch = refund[f].batch
        /\ IF refund[f].state = "BATCH_CHANGED" /\ refund[f].batch = b
           THEN refund'[f].state = "RESOLVED" ELSE refund'[f] = refund[f]
  <2> TAKE f \in Refunds
  <2>1. refund'[f] = IF refund[f].state = "BATCH_CHANGED" /\ refund[f].batch = b
                     THEN [refund[f] EXCEPT !.state = "RESOLVED"] ELSE refund[f]
    BY DEF VoidBatch
  <2>2. refund[f] \in [state : RefundStates, batch : Batches \cup {0}]
    BY <1>1
  <2> QED
    BY <2>1, <2>2 DEF RefundStates
<1>9. refund' \in [Refunds -> [state : RefundStates, batch : Batches \cup {0}]]
  <2>1. refund' = [f \in Refunds |-> refund'[f]]
    BY DEF VoidBatch
  <2> QED
    BY <1>8, <2>1
<1>10. RowTypes' /\ CallsSound'
  <2>1. CallSound(o)'
    BY <1>2, <1>3, <1>6, <1>7 DEF CallSound, MayBecome, Answers
  <2>2. {o} \in SUBSET Operations /\ \A q \in {o} : CallSound(q)'
    BY <2>1
  <2>3. CallsSound'
    BY <1>2, <1>7, <2>2, OtherCalls
  <2> QED
    BY <1>2, <1>7, <1>9, <2>3 DEF IInv, RowTypes
<1>11. /\ \A c \in Batches : c # b => op'[Transfer(c)] = op[Transfer(c)]
       /\ \A f \in Refunds : op'[Reversal(f)] = op[Reversal(f)]
       /\ \A c \in Batches, g \in 1..MaxGenerations : op'[Payout(c, g)] = op[Payout(c, g)]
       /\ \A c \in Batches : op'[Transfer(c)].projected = op[Transfer(c)].projected
  BY <1>3, <1>6, <1>7, OperationNames
<1>12. \A c \in Batches : ItemsOf(c)' = ItemsOf(c) /\ Amount(c)' = Amount(c)
                          /\ batch'[c].items = batch[c].items
                          /\ batch'[c].generation = batch[c].generation
  <2> TAKE c \in Batches
  <2>1. batch'[c].items = batch[c].items /\ batch'[c].generation = batch[c].generation
    BY <1>6, <1>7
  <2> QED
    BY <2>1 DEF ItemsOf, Amount
<1>13. BatchesSound'
  <2> SUFFICES ASSUME NEW c \in Batches PROVE BatchSound(c)'
    BY DEF BatchesSound
  <2>1. BatchSound(c) /\ batch[c].generation \in 1..MaxGenerations
    BY <1>1 DEF IInv, BatchesSound, PayoutBatch
  <2>2. CASE c = b
    BY <1>2, <1>3, <1>6, <1>7, <1>12, <2>1, <2>2 DEF BatchSound
  <2>3. CASE c # b
    BY <1>7, <1>11, <1>12, <2>1, <2>3 DEF BatchSound
  <2> QED
    BY <2>2, <2>3
<1>14. PayoutsSound'
  BY <1>11, <1>12 DEF IInv, PayoutsSound, PayoutSound
<1>15. ReversalsSound'
  <2> SUFFICES ASSUME NEW f \in Refunds PROVE ReversalSound(f)'
    BY DEF ReversalsSound
  <2>1. ReversalSound(f)
    BY DEF IInv, ReversalsSound
  <2> QED
    BY <1>8, <1>11, <2>1 DEF ReversalSound
<1>16. ChargesSound'
  <2> SUFFICES ASSUME NEW f \in Refunds PROVE ChargeSound(f)'
    BY DEF ChargesSound
  <2>1. ChargeSound(f) /\ refund[f].batch \in Batches \cup {0}
    BY <1>1 DEF IInv, ChargesSound
  <2>2. refund'[f].batch # 0 => RefundOf[f] \in ItemsOf(refund[f].batch)'
    <3>1. refund'[f].batch = refund[f].batch
      BY <1>8
    <3>2. refund[f].batch # 0 => batch'[refund[f].batch].items = batch[refund[f].batch].items
      BY <1>12, <2>1
    <3> QED
      BY <2>1, <3>1, <3>2 DEF ChargeSound, ItemsOf
  <2>3. CASE refund[f].state = "BATCH_CHANGED" /\ refund[f].batch = b
    <3>1. refund'[f].state = "RESOLVED" /\ refund'[f].batch = b
      BY <1>8, <2>3
    <3>2. b # 0
      BY PayoutAssumption DEF Batches
    <3> QED
      BY <1>6, <1>7, <2>1, <2>2, <2>3, <3>1, <3>2 DEF ChargeSound
  <2>4. CASE ~(refund[f].state = "BATCH_CHANGED" /\ refund[f].batch = b)
    <3>1. refund'[f] = refund[f]
      BY <1>8, <2>4
    <3>2. refund[f].state = "BATCH_CHANGED" =>
            refund[f].batch \in Batches /\ op'[Transfer(refund[f].batch)] = op[Transfer(refund[f].batch)]
      BY <1>11, <2>1, <2>4 DEF ChargeSound
    <3>3. refund[f].batch \in Batches /\ batch[refund[f].batch].state = "VOIDED" =>
            batch'[refund[f].batch].state = "VOIDED"
      BY <1>2, <1>7
    <3>4. refund[f].state = "RESOLVED" => refund[f].batch \in Batches
      BY <2>1 DEF ChargeSound
    <3> QED
      BY <1>11, <2>1, <2>2, <3>1, <3>2, <3>3, <3>4 DEF ChargeSound
  <2> QED
    BY <2>3, <2>4
<1>17. ItemsSound'
  <2> SUFFICES ASSUME NEW c \in Batches, NEW e \in Earnings,
                      batch'[c].state # "VOIDED", e \in ItemsOf(c)
               PROVE  ItemSound(c, e)'
    BY <1>12 DEF ItemsSound, ItemSound
  <2>1. ItemSound(c, e) /\ c # b
    BY <1>6, <1>7 DEF IInv, ItemsSound
  <2>2. Active(e) = {c}
    BY <1>7, <2>1 DEF ItemSound
  <2>3. Active(e)' = {c}
    BY <1>2, <1>6, <1>7, <1>12, <2>1, <2>2 DEF Active
  <2>4. \A f \in Refunds : refund'[f].state \in Accounted <=> refund[f].state \in Accounted
    BY <1>8 DEF Accounted, RefundStates
  <2>5. Before(e, c)' = Before(e, c)
    BY <1>8, <2>4 DEF Before, RefundsOf
  <2> QED
    BY <1>7, <1>12, <2>1, <2>3, <2>5 DEF ItemSound
<1>18. FundsSound'
  <2> SUFFICES ASSUME NEW c \in Batches
               PROVE  /\ Taken(c)' <= Transferred(c)'
                      /\ \A g \in 1..MaxGenerations : PayoutCovered(c, g)'
    BY DEF FundsSound
  <2>1. ReversalsOf(c)' = ReversalsOf(c)
    BY <1>8, <1>11 DEF ReversalsOf
  <2>2. \A q \in ReversalsOf(c) : op'[q] = op[q]
    BY <1>11 DEF ReversalsOf
  <2>3. Taken(c)' = Taken(c)
    BY <2>1, <2>2, TakenStays DEF IInv
  <2>4. Transferred(c)' = Transferred(c)
    BY <1>11, <1>12 DEF Transferred
  <2> QED
    BY <1>11, <2>1, <2>2, <2>3, <2>4 DEF IInv, FundsSound, PayoutCovered
<1> QED
  BY <1>10, <1>13, <1>14, <1>15, <1>16, <1>17, <1>18 DEF IInv
\* planTransferReversal finds no payout out: it would have to have been paid, and
\* then nothing that is not reserved is left to take back.
LEMMA NothingOut ==
  ASSUME IInv, NEW b \in Batches, MovementComplete(b), NEW c \in Nat \ {0},
         Available(b) - Reserved(b) >= c
  PROVE  /\ op[Transfer(b)].projected = "DONE" /\ Taken(b) + c <= Transferred(b)
         /\ \A g \in 1..MaxGenerations :
              op[Payout(b, g)].sent => op[Payout(b, g)].projected = "FAILED"
<1>1. /\ Transferred(b) \in Nat /\ PaidCents(b) \in Nat /\ PendingCents(b) \in Nat
      /\ Reversed(b) \in Nat /\ Reserved(b) \in Nat /\ Taken(b) = Reversed(b) + Reserved(b)
      /\ PayoutsOf(b) \in SUBSET Operations
  BY PaidParts, TakenParts, AmountNat DEF IInv
<1>2. PaidCents(b) + Taken(b) + c <= Transferred(b)
  BY <1>1 DEF Available
<1>3. op[Transfer(b)].projected = "DONE"
  BY <1>1, <1>2 DEF Transferred
<1>4. ASSUME NEW g \in 1..MaxGenerations, op[Payout(b, g)].sent,
             op[Payout(b, g)].projected # "FAILED"
      PROVE  FALSE
  <2> PICK o \in PayoutsOf(b) : o = Payout(b, g)
    BY OperationNames
  <2>1. op[o].projected = "PAID"
    BY <1>4 DEF MovementComplete, Effect
  <2>2. op[o].amount + Taken(b) = Transferred(b)
    BY <1>4 DEF IInv, FundsSound, PayoutCovered
  <2> DEFINE P == {q \in PayoutsOf(b) : op[q].projected = "PAID"}
  <2>3. o \in P /\ P \in SUBSET Operations /\ IsFiniteSet(P)
    BY <1>1, <2>1, FiniteOperations, FS_Subset
  <2> HIDE DEF P
  <2>4. op[o].amount <= AmountsOf(P) /\ op[o].amount \in Nat
    BY <2>3, AmountAtLeast DEF IInv
  <2>5. AmountsOf(P) = PaidCents(b)
    BY DEF P, PaidCents
  <2> QED
    BY <1>1, <1>2, <2>2, <2>4, <2>5
<1> QED
  BY <1>1, <1>2, <1>3, <1>4

\* The rows that planTransferReversal writes: the payout that was prepared, and
\* the reversal.
ReversalNames(f, b, bank, rev) ==
  b = refund[f].batch /\ bank = Payout(b, batch[b].generation) /\ rev = Reversal(f)

ReversalOperations(f, bank, rev, superseded) ==
  /\ op' \in [Operations -> Operation] /\ op'[rev] = Prepared(Cents[f])
  /\ \A q \in Operations \ {bank, rev} : op'[q] = op[q]
  /\ op'[bank].state = IF superseded THEN "DEAD_LETTER" ELSE op[bank].state
  /\ op'[bank].amount = op[bank].amount /\ op'[bank].sent = op[bank].sent
  /\ op'[bank].known = op[bank].known /\ op'[bank].seen = op[bank].seen
  /\ op'[bank].projected = op[bank].projected
  /\ ~superseded => op'[bank] = op[bank]

ReversalBatch(b, superseded) ==
  /\ batch' \in [Batches -> PayoutBatch]
  /\ \A c \in Batches \ {b} : batch'[c] = batch[c]
  /\ batch'[b].state = batch[b].state /\ batch'[b].items = batch[b].items
  /\ batch'[b].generation = IF superseded THEN batch[b].generation + 1 ELSE batch[b].generation

LEMMA PlannedReversal ==
  ASSUME IInv, NEW f \in Refunds, PlanTransferReversal(f)
  PROVE  \E b \in Batches, bank \in Operations, rev \in Operations, superseded \in BOOLEAN :
           /\ ReversalNames(f, b, bank, rev)
           /\ superseded <=> op[bank].state # "NONE" /\ ~op[bank].sent /\ ~op[bank].known
           /\ refund[f].state = "POST_PAYOUT_REFUND" /\ op[rev].state = "NONE"
           /\ MovementComplete(b) /\ Available(b) - Reserved(b) >= Cents[f]
           /\ ReversalOperations(f, bank, rev, superseded)
           /\ ReversalBatch(b, superseded)
           /\ UNCHANGED <<refund, provider, differences>>
<1>1. refund[f].state = "POST_PAYOUT_REFUND" /\ UNCHANGED <<refund, provider, differences>>
  BY DEF PlanTransferReversal
<1>2. PICK b \in Batches : b = refund[f].batch
  BY <1>1 DEF IInv, RowTypes, ChargesSound, ChargeSound
<1>3. /\ op \in [Operations -> Operation] /\ batch \in [Batches -> PayoutBatch]
      /\ batch[b] \in PayoutBatch /\ batch[b].generation \in 1..MaxGenerations
  BY DEF IInv, RowTypes, PayoutBatch
<1>4. PICK bank \in Operations : bank = Payout(b, batch[b].generation)
  BY <1>3, OperationNames
<1>5. PICK rev \in Operations : rev = Reversal(f)
  BY OperationNames
<1>6. bank # rev
  BY <1>4, <1>5, OperationNames
<1>7. PICK superseded \in BOOLEAN :
        superseded <=> op[bank].state # "NONE" /\ ~op[bank].sent /\ ~op[bank].known
  BY ZenonT(60)
<1> DEFINE p == [op[bank] EXCEPT !.state = IF superseded THEN "DEAD_LETTER" ELSE op[bank].state]
           r == [batch[b] EXCEPT !.generation = IF superseded THEN batch[b].generation + 1
                                                ELSE batch[b].generation]
<1>8. /\ op[rev].state = "NONE"
      /\ MovementComplete(b) /\ Available(b) - Reserved(b) >= Cents[f]
      /\ superseded => batch[b].generation < MaxGenerations
  BY <1>2, <1>4, <1>5, <1>7 DEF PlanTransferReversal, Effect
<1>9. batch' = [batch EXCEPT ![b] = r]
  BY ZenonT(60), <1>2, <1>3, <1>4, <1>7 DEF PlanTransferReversal, Effect
<1>10. op' = [op EXCEPT ![bank] = p, ![rev] = Prepared(Cents[f])]
  BY <1>2, <1>3, <1>4, <1>5, <1>7 DEF PlanTransferReversal, Effect
<1>11. p \in Operation /\ r \in PayoutBatch /\ Prepared(Cents[f]) \in Operation
  <2>1. Cents[f] \in Nat
    BY PayoutAssumption
  <2>2. op[bank] \in Operation
    BY <1>3
  <2>3. p \in Operation
    BY <2>2 DEF Operation, OperationStates
  <2>4. (IF superseded THEN batch[b].generation + 1 ELSE batch[b].generation) \in 1..MaxGenerations
    BY <1>3, <1>8, PayoutAssumption
  <2>5. r \in PayoutBatch
    BY <1>3, <2>4 DEF PayoutBatch
  <2> QED
    BY <2>1, <2>3, <2>5, PreparedRow
<1>12. /\ p.state = IF superseded THEN "DEAD_LETTER" ELSE op[bank].state
       /\ p.amount = op[bank].amount /\ p.sent = op[bank].sent /\ p.known = op[bank].known
       /\ p.seen = op[bank].seen /\ p.projected = op[bank].projected
       /\ r.state = batch[b].state /\ r.items = batch[b].items
       /\ r.generation = IF superseded THEN batch[b].generation + 1 ELSE batch[b].generation
  <2>1. op[bank] \in Operation
    BY <1>3
  <2> QED
    BY <1>3, <2>1 DEF Operation, PayoutBatch
<1>18. ~superseded => p = op[bank]
  <2>1. op[bank] \in Operation
    BY <1>3
  <2> QED
    BY <2>1 DEF Operation
<1> HIDE DEF p, r
<1>13. /\ op' \in [Operations -> Operation] /\ op'[bank] = p /\ op'[rev] = Prepared(Cents[f])
       /\ \A q \in Operations \ {bank, rev} : op'[q] = op[q]
  BY <1>3, <1>6, <1>10, <1>11
<1>14. /\ batch' \in [Batches -> PayoutBatch] /\ batch'[b] = r
       /\ \A c \in Batches \ {b} : batch'[c] = batch[c]
  BY <1>3, <1>9, <1>11
<1>15. ReversalOperations(f, bank, rev, superseded)
  BY <1>12, <1>13, <1>18 DEF ReversalOperations
<1>16. ReversalBatch(b, superseded)
  BY <1>12, <1>14 DEF ReversalBatch
<1>17. ReversalNames(f, b, bank, rev)
  BY <1>2, <1>4, <1>5 DEF ReversalNames
<1> QED
  BY SMTT(30), <1>1, <1>7, <1>8, <1>15, <1>16, <1>17

LEMMA PlanTransferReversalKeeps ==
  ASSUME IInv, NEW f \in Refunds, PlanTransferReversal(f)
  PROVE  IInv'
<1>0. PICK b \in Batches, bank \in Operations, rev \in Operations, superseded \in BOOLEAN :
        /\ ReversalNames(f, b, bank, rev)
        /\ superseded <=> op[bank].state # "NONE" /\ ~op[bank].sent /\ ~op[bank].known
        /\ refund[f].state = "POST_PAYOUT_REFUND" /\ op[rev].state = "NONE"
        /\ MovementComplete(b) /\ Available(b) - Reserved(b) >= Cents[f]
        /\ ReversalOperations(f, bank, rev, superseded)
        /\ ReversalBatch(b, superseded)
        /\ UNCHANGED <<refund, provider, differences>>
  BY PlannedReversal
<1>1. b = refund[f].batch /\ bank = Payout(b, batch[b].generation) /\ rev = Reversal(f)
  BY <1>0 DEF ReversalNames
<1>a. superseded <=> op[bank].state # "NONE" /\ ~op[bank].sent /\ ~op[bank].known
  BY <1>0
<1>b. /\ refund[f].state = "POST_PAYOUT_REFUND" /\ op[rev].state = "NONE"
      /\ refund' = refund /\ provider' = provider /\ differences' = differences
  BY <1>0
<1>c. op' \in [Operations -> Operation] /\ op'[rev] = Prepared(Cents[f])
      /\ \A q \in Operations \ {bank, rev} : op'[q] = op[q]
  BY <1>0 DEF ReversalOperations
<1>d. /\ op'[bank].state = IF superseded THEN "DEAD_LETTER" ELSE op[bank].state
      /\ op'[bank].amount = op[bank].amount /\ op'[bank].sent = op[bank].sent
      /\ op'[bank].known = op[bank].known /\ op'[bank].seen = op[bank].seen
      /\ op'[bank].projected = op[bank].projected
  BY <1>0 DEF ReversalOperations
<1>e. /\ batch' \in [Batches -> PayoutBatch]
      /\ \A c \in Batches \ {b} : batch'[c] = batch[c]
      /\ batch'[b].state = batch[b].state /\ batch'[b].items = batch[b].items
      /\ batch'[b].generation = IF superseded THEN batch[b].generation + 1 ELSE batch[b].generation
  BY <1>0 DEF ReversalBatch
<1>f. MovementComplete(b) /\ Available(b) - Reserved(b) >= Cents[f]
  BY <1>0
<1>2. Cents[f] \in Nat \ {0}
  BY PayoutAssumption
<1>3. /\ op[Transfer(b)].projected = "DONE" /\ Taken(b) + Cents[f] <= Transferred(b)
      /\ \A g \in 1..MaxGenerations :
           op[Payout(b, g)].sent => op[Payout(b, g)].projected = "FAILED"
  BY <1>2, <1>f, NothingOut
<1>4. op'[rev].state = "READY" /\ op'[rev].amount = Cents[f]
  BY <1>2, <1>c, PreparedRow
<1>5. batch[b].generation \in 1..MaxGenerations /\ \A c \in Batches : batch[c].generation \in 1..MaxGenerations
  BY DEF IInv, RowTypes, PayoutBatch
<1>6. /\ \A c \in Batches : op'[Transfer(c)] = op[Transfer(c)]
      /\ \A h \in Refunds : h # f => op'[Reversal(h)] = op[Reversal(h)]
      /\ \A c \in Batches, g \in 1..MaxGenerations :
           Payout(c, g) # bank => op'[Payout(c, g)] = op[Payout(c, g)]
      /\ \A c \in Batches, g \in 1..MaxGenerations :
           /\ op'[Payout(c, g)].sent = op[Payout(c, g)].sent
           /\ op'[Payout(c, g)].amount = op[Payout(c, g)].amount
           /\ op'[Payout(c, g)].projected = op[Payout(c, g)].projected
  <2>1. /\ \A c \in Batches : Transfer(c) \in Operations \ {bank, rev}
        /\ \A h \in Refunds : h # f => Reversal(h) \in Operations \ {bank, rev}
        /\ \A c \in Batches, g \in 1..MaxGenerations : Payout(c, g) \in Operations \ {rev}
    BY <1>1, <1>5, OperationNames
  <2>2. \A c \in Batches, g \in 1..MaxGenerations :
          Payout(c, g) = bank \/ op'[Payout(c, g)] = op[Payout(c, g)]
    BY <1>c, <2>1
  <2> QED
    BY <1>c, <1>d, <2>1, <2>2
<1>7. \A c \in Batches : /\ ItemsOf(c)' = ItemsOf(c) /\ Amount(c)' = Amount(c)
                         /\ batch'[c].items = batch[c].items /\ batch'[c].state = batch[c].state
  <2> TAKE c \in Batches
  <2>1. batch'[c].items = batch[c].items /\ batch'[c].state = batch[c].state
    BY <1>e
  <2> QED
    BY <2>1 DEF ItemsOf, Amount
<1>8. RowTypes' /\ CallsSound'
  <2>1. CallSound(rev)'
    BY <1>2, <1>b, <1>c, PreparedSound
  <2>2. CallSound(bank)'
    <3>1. CallSound(bank) /\ op[bank] \in Operation
      BY DEF IInv, CallsSound, RowTypes
    <3>2. CASE superseded
      BY <1>a, <1>b, <1>d, <3>1, <3>2 DEF CallSound, MayBecome
    <3>3. CASE ~superseded
      <4>1. op'[bank] = op[bank]
        BY <1>0, <3>3 DEF ReversalOperations
      <4> QED
        BY <1>b, <3>1, <4>1 DEF CallSound
    <3> QED
      BY <3>2, <3>3
  <2>3. {bank, rev} \in SUBSET Operations /\ \A q \in {bank, rev} : CallSound(q)'
    BY <2>1, <2>2
  <2>4. CallsSound'
    BY <1>b, <1>c, <2>3, OtherCalls
  <2> QED
    BY <1>b, <1>c, <1>e, <2>4 DEF IInv, RowTypes
<1>9. BatchesSound'
  <2> SUFFICES ASSUME NEW c \in Batches PROVE BatchSound(c)'
    BY DEF BatchesSound
  <2>1. BatchSound(c)
    BY DEF IInv, BatchesSound
  <2>2. CASE c = b
    <3>1. CASE superseded
      <4>1. op[bank].projected # "FAILED"
        BY <1>a, <3>1 DEF IInv, CallsSound, CallSound
      <4>2. batch[b].state # "PAYOUT_FAILED"
        BY <1>1, <2>1, <2>2, <4>1 DEF BatchSound
      <4> QED
        BY <1>6, <1>7, <2>1, <2>2, <4>2 DEF BatchSound
    <3>2. CASE ~superseded
      <4>1. batch'[b].generation = batch[b].generation
        BY <1>e, <3>2
      <4> QED
        BY <1>5, <1>6, <1>7, <2>1, <2>2, <4>1 DEF BatchSound
    <3> QED
      BY <3>1, <3>2
  <2>3. CASE c # b
    <3>1. batch'[c] = batch[c]
      BY <1>e, <2>3
    <3> QED
      BY <1>5, <1>6, <1>7, <2>1, <3>1 DEF BatchSound
  <2> QED
    BY <2>2, <2>3
<1>10. PayoutsSound'
  <2> SUFFICES ASSUME NEW c \in Batches, NEW g \in 1..MaxGenerations PROVE PayoutSound(c, g)'
    BY DEF PayoutsSound
  <2>1. PayoutSound(c, g)
    BY DEF IInv, PayoutsSound
  <2>2. CASE Payout(c, g) = bank
    <3>1. c = b /\ g = batch[b].generation
      BY <1>1, <1>5, <2>2, OperationNames
    <3>2. superseded => op'[bank].state = "DEAD_LETTER" /\ batch'[b].generation = batch[b].generation + 1
      BY <1>d, <1>e
    <3>3. ~superseded => batch'[b].generation = batch[b].generation
      BY <1>e
    <3>4. op'[Transfer(b)].projected = "DONE"
      BY <1>3, <1>6
    <3> QED
      BY <1>5, <2>2, <3>1, <3>2, <3>3, <3>4 DEF PayoutSound
  <2>3. CASE Payout(c, g) # bank
    <3>1. c = b => g # batch[b].generation
      BY <1>1, <2>3
    <3>2. /\ op'[Payout(c, g)] = op[Payout(c, g)] /\ op'[Transfer(c)] = op[Transfer(c)]
      BY <1>6, <2>3
    <3>3. CASE c = b
      <4>1. batch'[b].generation \in {batch[b].generation, batch[b].generation + 1}
        BY <1>e
      <4> QED
        BY <1>5, <2>1, <3>1, <3>2, <3>3, <4>1 DEF PayoutSound
    <3>4. CASE c # b
      <4>1. batch'[c] = batch[c]
        BY <1>e, <3>4
      <4> QED
        BY <2>1, <3>2, <4>1 DEF PayoutSound
    <3> QED
      BY <3>3, <3>4
  <2> QED
    BY <2>2, <2>3
<1>11. ReversalsSound' /\ ChargesSound'
  <2>1. \A h \in Refunds : ReversalSound(h) /\ ChargeSound(h) /\ refund[h].batch \in Batches \cup {0}
    BY DEF IInv, ReversalsSound, ChargesSound, RowTypes
  <2>2. ASSUME NEW h \in Refunds PROVE ReversalSound(h)'
    <3>1. CASE h = f
      BY <1>1, <1>b, <1>3, <1>4, <1>6, <3>1 DEF ReversalSound
    <3>2. CASE h # f
      <4>1. op'[Reversal(h)] = op[Reversal(h)]
        BY <1>6, <3>2
      <4>2. refund[h].batch \in Batches => op'[Transfer(refund[h].batch)] = op[Transfer(refund[h].batch)]
        BY <1>6
      <4> QED
        BY <1>b, <2>1, <4>1, <4>2 DEF ReversalSound
    <3> QED
      BY <3>1, <3>2
  <2>3. ASSUME NEW h \in Refunds PROVE ChargeSound(h)'
    <3>1. refund'[h].batch # 0 => RefundOf[h] \in ItemsOf(refund[h].batch)'
      BY <1>b, <1>7, <2>1 DEF ChargeSound, ItemsOf
    <3>2. refund[h].batch # 0 => /\ op'[Transfer(refund[h].batch)] = op[Transfer(refund[h].batch)]
                                 /\ batch'[refund[h].batch].state = batch[refund[h].batch].state
      BY <1>6, <1>7, <2>1
    <3>3. refund[h].state = "RESOLVED" => h # f
      BY <1>b
    <3>4. h # f => op'[Reversal(h)] = op[Reversal(h)]
      BY <1>6
    <3> QED
      <4>1. refund[h].state = "RESOLVED" => refund[h].batch # 0
        BY <2>1 DEF ChargeSound
      <4>2. refund[h].state = "BATCH_CHANGED" => refund[h].batch # 0
        BY <2>1 DEF ChargeSound
      <4> QED
        BY <1>b, <2>1, <3>1, <3>2, <3>3, <3>4, <4>1, <4>2 DEF ChargeSound
  <2> QED
    BY <2>2, <2>3 DEF ReversalsSound, ChargesSound
<1>12. ItemsSound'
  <2> SUFFICES ASSUME NEW c \in Batches, NEW e \in Earnings PROVE ItemSound(c, e)'
    BY DEF ItemsSound
  <2>1. ItemSound(c, e)
    BY DEF IInv, ItemsSound
  <2>2. Active(e)' = Active(e) /\ Before(e, c)' = Before(e, c)
    BY <1>b, <1>7 DEF Active, Before
  <2> QED
    BY <1>7, <2>1, <2>2 DEF ItemSound
<1>13. FundsSound'
  <2> SUFFICES ASSUME NEW c \in Batches
               PROVE  /\ Taken(c)' <= Transferred(c)'
                      /\ \A g \in 1..MaxGenerations : PayoutCovered(c, g)'
    BY DEF FundsSound
  <2>1. Transferred(c)' = Transferred(c)
    BY <1>6, <1>7 DEF Transferred
  <2>2. CASE c = b
    <3> DEFINE A == [o \in Operations |-> op'[o].amount]
    <3>1. ReversalsOf(b)' = ReversalsOf(b) \cup {rev} /\ rev \notin ReversalsOf(b)
      <4>1. ASSUME NEW h \in Refunds
            PROVE  refund'[h].batch = b /\ op'[Reversal(h)].state # "NONE"
                     <=> h = f \/ (refund[h].batch = b /\ op[Reversal(h)].state # "NONE")
        <5>1. CASE h = f
          <6>1. refund'[f].batch = b
            BY <1>1, <1>b
          <6>2. op'[Reversal(f)].state = "READY"
            BY <1>1, <1>4
          <6> QED
            BY <5>1, <6>1, <6>2
        <5>2. CASE h # f
          <6>1. op'[Reversal(h)] = op[Reversal(h)]
            BY <1>6, <5>2
          <6> QED
            BY <1>b, <5>2, <6>1
        <5> QED
          BY <5>1, <5>2
      <4>2. rev \notin ReversalsOf(b)
        <5>1. \A h \in Refunds : Reversal(h) = rev => h = f
          BY <1>1, OperationNames
        <5> QED
          BY <1>1, <1>b, <5>1 DEF ReversalsOf
      <4>3. ReversalsOf(b)' = ReversalsOf(b) \cup {Reversal(f)}
        <5> DEFINE H == {g \in Refunds : refund[g].batch = b /\ op[Reversal(g)].state # "NONE"}
        <5>1. {g \in Refunds : refund'[g].batch = b /\ op'[Reversal(g)].state # "NONE"} = H \cup {f}
          BY <4>1
        <5> HIDE DEF H
        <5>2. {Reversal(h) : h \in H \cup {f}} = {Reversal(h) : h \in H} \cup {Reversal(f)}
          OBVIOUS
        <5>3. ReversalsOf(b)' = {Reversal(h) : h \in H \cup {f}}
          BY <5>1 DEF ReversalsOf
        <5>4. ReversalsOf(b) = {Reversal(h) : h \in H}
          BY DEF ReversalsOf, H
        <5> QED
          BY <5>2, <5>3, <5>4
      <4> QED
        BY <1>1, <4>2, <4>3
    <3>2. /\ ReversalsOf(b) \in SUBSET Operations /\ IsFiniteSet(ReversalsOf(b))
          /\ Taken(b) \in Nat
      BY TakenParts DEF IInv
    <3>3. \A r \in ReversalsOf(b) : op'[r].amount = op[r].amount
      <4>1. \A h \in Refunds : Reversal(h) # rev => op'[Reversal(h)] = op[Reversal(h)]
        BY <1>1, <1>6
      <4> QED
        BY <3>1, <4>1 DEF ReversalsOf
    <3>4. SumFunctionOnSet(A, ReversalsOf(b)) = Taken(b)
      BY <3>2, <3>3, SameAmounts DEF Taken
    <3>5. /\ \A o \in ReversalsOf(b) : A[o] \in Int
          /\ A[rev] = Cents[f] /\ Cents[f] \in Int
      <4>1. \A o \in Operations : op'[o].amount \in Nat
        BY <1>c DEF Operation
      <4> QED
        BY <1>2, <1>4, <3>2, <4>1
    <3> HIDE DEF A
    <3>6. SumFunctionOnSet(A, ReversalsOf(b) \cup {rev}) = Taken(b) + Cents[f]
      BY <3>1, <3>2, <3>4, <3>5, SumWith
    <3>7. Taken(b)' = Taken(b) + Cents[f]
      BY <3>1, <3>6 DEF Taken, AmountsOf, A
    <3>8. \A g \in 1..MaxGenerations : PayoutCovered(b, g)'
      BY <1>3, <1>6 DEF PayoutCovered
    <3> QED
      BY <1>3, <2>1, <2>2, <3>7, <3>8
  <2>3. CASE c # b
    <3>1. \A h \in Refunds : refund[h].batch = c => h # f /\ op'[Reversal(h)] = op[Reversal(h)]
      BY <1>1, <1>6, <2>3
    <3>2. ReversalsOf(c)' = ReversalsOf(c)
      <4>1. \A h \in Refunds : refund'[h] = refund[h]
        BY <1>b
      <4> QED
        BY <3>1, <4>1 DEF ReversalsOf
    <3>3. \A r \in ReversalsOf(c) : op'[r] = op[r]
      BY <3>1 DEF ReversalsOf
    <3>4. Taken(c)' = Taken(c)
      BY <3>2, <3>3, TakenStays DEF IInv
    <3> QED
      BY <1>6, <2>1, <3>2, <3>3, <3>4 DEF IInv, FundsSound, PayoutCovered
  <2> QED
    BY <2>2, <2>3
<1> QED
  BY <1>8, <1>9, <1>10, <1>11, <1>12, <1>13 DEF IInv
\* createPayoutBatch takes earnings that no batch holds, each with what is left
\* of it after every refund that succeeded.
LEMMA CreatedBatch ==
  ASSUME IInv, NEW b \in Batches, CreateBatch(b)
  PROVE  \E items \in SUBSET Earnings, left \in [Earnings -> Int] :
           /\ \A e \in Earnings : left[e] = Left(e, RefundStates \ {"NONE"})
           /\ \A e \in items : Active(e) = {} /\ left[e] > 0
           /\ batch[b].state = "NONE"
           /\ batch' \in [Batches -> PayoutBatch]
           /\ \A c \in Batches \ {b} : batch'[c] = batch[c]
           /\ batch'[b].state = "PLANNED"
           /\ batch'[b].items = [e \in Earnings |-> IF e \in items THEN left[e] ELSE 0]
           /\ op' = [op EXCEPT ![Transfer(b)] = Prepared(SumFunctionOnSet(left, items))]
           /\ Account(Earnings) /\ UNCHANGED <<provider, differences>>
<1> DEFINE left == [e \in Earnings |-> Left(e, RefundStates \ {"NONE"})]
           payable == {e \in Earnings :
             /\ Active(e) = {} /\ left[e] > 0
             /\ \A f \in RefundsOf(e) :
                  refund[f].state \notin {"BATCH_CHANGED", "POST_PAYOUT_REFUND"}}
<1>1. left \in [Earnings -> Int]
  <2> SUFFICES ASSUME NEW e \in Earnings PROVE Left(e, RefundStates \ {"NONE"}) \in Int
    OBVIOUS
  <2> DEFINE S == {f \in RefundsOf(e) : refund[f].state \in RefundStates \ {"NONE"}}
  <2>1. IsFiniteSet(S) /\ \A f \in S : Cents[f] \in Int
    BY PayoutAssumption, FiniteAssumption, FS_Subset DEF RefundsOf
  <2> HIDE DEF S
  <2>2. SumFunctionOnSet(Cents, S) \in Int
    BY <2>1, SumIsInt
  <2>3. Net[e] \in Int
    BY PayoutAssumption
  <2> QED
    BY <2>2, <2>3 DEF Left, S
<1>2. /\ batch[b].state = "NONE" /\ Account(Earnings) /\ UNCHANGED <<provider, differences>>
  BY DEF CreateBatch
<1>3. PICK items \in SUBSET payable :
        /\ batch' = [batch EXCEPT ![b].state = "PLANNED",
             ![b].items = [e \in Earnings |-> IF e \in items THEN left[e] ELSE 0]]
        /\ op' = [op EXCEPT ![Transfer(b)] = Prepared(SumFunctionOnSet(left, items))]
  BY DEF CreateBatch
<1>4. items \in SUBSET Earnings /\ \A e \in items : Active(e) = {} /\ left[e] > 0
  OBVIOUS
<1>5. \A e \in Earnings : left[e] = Left(e, RefundStates \ {"NONE"})
  OBVIOUS
<1> HIDE DEF left, payable
<1>6. batch \in [Batches -> PayoutBatch] /\ batch[b] \in PayoutBatch
  BY DEF IInv, RowTypes
<1> DEFINE amounts == [e \in Earnings |-> IF e \in items THEN left[e] ELSE 0]
<1>7. amounts \in [Earnings -> Nat]
  BY <1>1, <1>4
<1> HIDE DEF amounts
<1> DEFINE r == [batch[b] EXCEPT !.state = "PLANNED", !.items = amounts]
<1>8. r \in PayoutBatch /\ r.state = "PLANNED" /\ r.items = amounts
  BY <1>6, <1>7 DEF PayoutBatch, BatchStates
<1>9. batch' = [batch EXCEPT ![b] = r]
  BY <1>3, <1>6 DEF amounts
<1> HIDE DEF r
<1>10. /\ batch' \in [Batches -> PayoutBatch] /\ batch'[b] = r
       /\ \A c \in Batches \ {b} : batch'[c] = batch[c]
  BY <1>6, <1>8, <1>9
<1> QED
  BY <1>1, <1>2, <1>3, <1>4, <1>5, <1>8, <1>10 DEF amounts

LEMMA CreateBatchKeeps ==
  ASSUME IInv, NEW b \in Batches, CreateBatch(b)
  PROVE  IInv'
<1>1. PICK items \in SUBSET Earnings, left \in [Earnings -> Int] :
        /\ \A e \in Earnings : left[e] = Left(e, RefundStates \ {"NONE"})
        /\ \A e \in items : Active(e) = {} /\ left[e] > 0
        /\ batch[b].state = "NONE"
        /\ batch' \in [Batches -> PayoutBatch]
        /\ \A c \in Batches \ {b} : batch'[c] = batch[c]
        /\ batch'[b].state = "PLANNED"
        /\ batch'[b].items = [e \in Earnings |-> IF e \in items THEN left[e] ELSE 0]
        /\ op' = [op EXCEPT ![Transfer(b)] = Prepared(SumFunctionOnSet(left, items))]
        /\ Account(Earnings) /\ UNCHANGED <<provider, differences>>
  BY CreatedBatch
<1>2. PICK o \in Operations : o = Transfer(b)
  BY OperationNames
<1>3. /\ op \in [Operations -> Operation] /\ CallSound(o) /\ op[o].state = "NONE"
      /\ ItemsOf(b) = {} /\ provider \in [Operations -> {"NONE"} \cup Effects]
  BY <1>1, <1>2 DEF IInv, RowTypes, CallsSound, BatchesSound, BatchSound
<1>4. /\ ItemsOf(b)' = items /\ \A e \in items : batch'[b].items[e] = left[e]
      /\ \A c \in Batches \ {b} : ItemsOf(c)' = ItemsOf(c) /\ Amount(c)' = Amount(c)
  <2>1. ItemsOf(b)' = {e \in Earnings : batch'[b].items[e] > 0}
    BY DEF ItemsOf
  <2>2. \A c \in Batches \ {b} : batch'[c] = batch[c]
    BY <1>1
  <2>3. \A e \in Earnings : batch'[b].items[e] = IF e \in items THEN left[e] ELSE 0
    BY <1>1
  <2>4. ItemsOf(b)' = items
    BY <1>1, <2>1, <2>3
  <2> QED
    BY <2>2, <2>3, <2>4 DEF ItemsOf, Amount
<1>5. PICK amount \in Nat : amount = SumFunctionOnSet(left, items)
  <2>1. IsFiniteSet(items) /\ \A e \in items : left[e] \in Nat
    BY <1>1, FiniteAssumption, FS_Subset
  <2> QED
    BY <2>1, SumIsNat
<1>6. Amount(b)' = amount
  <2>1. IsFiniteSet(items) /\ \A e \in items : left[e] = batch'[b].items[e]
    BY <1>4, FiniteAssumption, FS_Subset
  <2>2. SumFunctionOnSet(left, items) = SumFunctionOnSet(batch'[b].items, items)
    BY <2>1, SumOfEqual
  <2> QED
    BY <1>4, <1>5, <2>2 DEF Amount
<1>7. /\ op' \in [Operations -> Operation] /\ op'[o] = Prepared(amount)
      /\ \A q \in Operations \ {o} : op'[q] = op[q]
  <2>1. Prepared(amount) \in Operation
    BY PreparedRow
  <2>2. op' = [op EXCEPT ![o] = Prepared(amount)]
    BY <1>1, <1>2, <1>5
  <2> QED
    BY <2>1, <2>2, RowWritten DEF IInv
<1>8. /\ op'[o].state = "READY" /\ op'[o].amount = amount /\ ~op'[o].sent
      /\ op'[o].projected = "NONE" /\ op[o].projected = "NONE" /\ ~op[o].sent
  BY <1>3, <1>7, PreparedRow DEF CallSound
<1>9. /\ \A c \in Batches \ {b} : op'[Transfer(c)] = op[Transfer(c)]
      /\ \A c \in Batches, g \in 1..MaxGenerations : op'[Payout(c, g)] = op[Payout(c, g)]
      /\ \A f \in Refunds : op'[Reversal(f)] = op[Reversal(f)]
      /\ \A c \in Batches : op'[Transfer(c)].projected = op[Transfer(c)].projected
      /\ \A c \in Batches : op'[Transfer(c)].sent = op[Transfer(c)].sent
  <2>1. /\ \A c \in Batches \ {b} : op'[Transfer(c)] = op[Transfer(c)]
        /\ \A c \in Batches, g \in 1..MaxGenerations : op'[Payout(c, g)] = op[Payout(c, g)]
        /\ \A f \in Refunds : op'[Reversal(f)] = op[Reversal(f)]
    BY <1>2, <1>7, OperationNames
  <2>2. op'[o].projected = op[o].projected /\ op'[o].sent = op[o].sent
    <3>1. op'[o].sent \in BOOLEAN /\ op[o].sent \in BOOLEAN
      BY <1>3, <1>7 DEF Operation
    <3> QED
      BY <1>8, <3>1
  <2> QED
    BY <1>2, <2>1, <2>2
<1>10. \A f \in Refunds : BooksMove(f) /\ refund'[f].state # "SUCCEEDED"
  BY <1>1, AccountMoves, PayoutAssumption
<1>11. refund' \in [Refunds -> [state : RefundStates, batch : Batches \cup {0}]]
  <2>1. \A f \in Refunds : refund'[f] \in [state : RefundStates, batch : Batches \cup {0}]
    BY <1>10, MovedRefund
  <2>2. refund' = [f \in Refunds |-> refund'[f]]
    BY <1>1 DEF Account
  <2> QED
    BY <2>1, <2>2
<1>12. RowTypes' /\ CallsSound'
  <2>1. CallSound(o)'
    BY <1>1, <1>3, <1>7, PreparedSound
  <2>2. {o} \in SUBSET Operations /\ \A q \in {o} : CallSound(q)'
    BY <2>1
  <2>3. CallsSound'
    BY <1>1, <1>7, <2>2, OtherCalls
  <2> QED
    BY <1>1, <1>7, <1>11, <2>3 DEF IInv, RowTypes
<1>13. BatchesSound'
  <2> SUFFICES ASSUME NEW c \in Batches PROVE BatchSound(c)'
    BY DEF BatchesSound
  <2>1. CASE c = b
    BY <1>1, <1>2, <1>6, <1>8, <2>1 DEF BatchSound
  <2>2. CASE c # b
    <3>1. BatchSound(c) /\ batch[c].generation \in 1..MaxGenerations
      BY DEF IInv, BatchesSound, RowTypes, PayoutBatch
    <3>2. batch'[c] = batch[c]
      BY <1>1, <2>2
    <3> QED
      BY <1>4, <1>9, <2>2, <3>1, <3>2 DEF BatchSound
  <2> QED
    BY <2>1, <2>2
<1>14. PayoutsSound'
  <2> SUFFICES ASSUME NEW c \in Batches, NEW g \in 1..MaxGenerations PROVE PayoutSound(c, g)'
    BY DEF PayoutsSound
  <2>1. PayoutSound(c, g)
    BY DEF IInv, PayoutsSound
  <2>2. c = b => op[Payout(c, g)].state = "NONE"
    BY <1>2, <1>8, <2>1 DEF PayoutSound
  <2>3. c # b => batch'[c] = batch[c]
    BY <1>1
  <2> QED
    BY <1>9, <2>1, <2>2, <2>3 DEF PayoutSound
<1>15. ReversalsSound'
  <2> SUFFICES ASSUME NEW f \in Refunds PROVE ReversalSound(f)'
    BY DEF ReversalsSound
  <2>1. ReversalSound(f)
    BY DEF IInv, ReversalsSound
  <2>2. op[Reversal(f)].state # "NONE" => refund'[f] = refund[f]
    BY <1>10, MovedRefund
  <2> QED
    BY <1>9, <2>1, <2>2 DEF ReversalSound
<1>16. \A f \in Refunds : refund[f].batch # b /\ refund'[f].batch # b
  <2> SUFFICES ASSUME NEW f \in Refunds PROVE refund[f].batch # b /\ refund'[f].batch # b
    OBVIOUS
  <2>1. b # 0
    BY PayoutAssumption DEF Batches
  <2>2. refund[f].batch # 0 => RefundOf[f] \in ItemsOf(refund[f].batch)
    BY DEF IInv, ChargesSound, ChargeSound
  <2>3. \A c : c = refund'[f].batch /\ c # 0 => RefundOf[f] \in ItemsOf(c)
    BY <1>10, MovedRefund
  <2> QED
    BY <1>3, <2>1, <2>2, <2>3
<1>17. ChargesSound'
  <2> SUFFICES ASSUME NEW f \in Refunds PROVE ChargeSound(f)'
    BY DEF ChargesSound
  <2> PICK c \in Batches \cup {0} : c = refund'[f].batch
    BY <1>11
  <2>1. c # b
    BY <1>16
  <2>2. /\ c = 0 <=> refund'[f].state \in {"NONE", "SUCCEEDED", "ALLOCATED"}
        /\ c # 0 => RefundOf[f] \in ItemsOf(c)
        /\ c # 0 /\ refund'[f].state = "BATCH_CHANGED" => ~op[Transfer(c)].sent
        /\ refund'[f].state = "RESOLVED" => refund'[f] = refund[f]
    BY <1>10, MovedRefund
  <2>3. c # 0 => /\ ItemsOf(c)' = ItemsOf(c) /\ batch'[c] = batch[c]
                 /\ op'[Transfer(c)] = op[Transfer(c)]
    BY <1>1, <1>4, <1>9, <2>1
  <2>4. refund'[f].state = "RESOLVED" => batch'[c].state = "VOIDED" \/ op'[Reversal(f)].projected = "DONE"
    <3>1. ChargeSound(f)
      BY DEF IInv, ChargesSound
    <3> QED
      BY <1>9, <2>2, <2>3, <3>1 DEF ChargeSound
  <2>5. c # 0 => RefundOf[f] \in ItemsOf(refund[f].batch)'
    BY <2>2, <2>3 DEF ItemsOf
  <2>6. refund'[f].state = "BATCH_CHANGED" => ~op'[Transfer(c)].sent
    BY <2>2, <2>3
  <2> QED
    BY <2>2, <2>4, <2>5, <2>6 DEF ChargeSound
<1>18. \A e \in Earnings : Active(e)' = IF e \in items THEN {b} ELSE Active(e)
  <2> TAKE e \in Earnings
  <2>1. Active(e)' = {c \in Batches : e \in ItemsOf(c)' /\ batch'[c].state # "VOIDED"}
    BY DEF Active
  <2>2. \A c \in Batches \ {b} :
          e \in ItemsOf(c)' /\ batch'[c].state # "VOIDED" <=> c \in Active(e)
    BY <1>1, <1>4 DEF Active
  <2>3. b \notin Active(e)
    BY <1>3 DEF Active
  <2>4. e \in ItemsOf(b)' /\ batch'[b].state # "VOIDED" <=> e \in items
    BY <1>1, <1>4
  <2>5. Active(e) \subseteq Batches
    BY DEF Active
  <2>6. e \in items => Active(e) = {}
    BY <1>1
  <2> QED
    BY <2>1, <2>2, <2>3, <2>4, <2>5, <2>6
<1>19. ItemsSound'
  <2> SUFFICES ASSUME NEW c \in Batches, NEW e \in Earnings,
                      batch'[c].state # "VOIDED", e \in ItemsOf(c)'
               PROVE  /\ Active(e)' = {c}
                      /\ batch'[c].items[e] = Net[e] - SumFunctionOnSet(Cents, Before(e, c)')
    BY DEF ItemsSound, ItemSound
  <2>1. CASE c = b
    <3>1. e \in items /\ Active(e)' = {b}
      BY <1>4, <1>18, <2>1
    <3>2. Before(e, b)' = {f \in RefundsOf(e) : refund[f].state \in RefundStates \ {"NONE"}}
      <4>1. ASSUME NEW f \in Refunds
            PROVE  refund'[f].state \in Accounted /\ refund'[f].batch # b
                     <=> refund[f].state \in RefundStates \ {"NONE"}
        <5>1. refund[f].state \in RefundStates /\ refund'[f].state \in RefundStates
          BY <1>11 DEF IInv, RowTypes
        <5>2. refund'[f].state # "SUCCEEDED" /\ BooksMove(f)
          BY <1>10
        <5>3. refund[f].state = "NONE" <=> refund'[f].state = "NONE"
          <6>1. CASE refund'[f] = refund[f]
            BY <6>1
          <6>2. CASE refund[f].state = "NONE" /\ refund'[f] = [state |-> "SUCCEEDED", batch |-> 0]
            BY <5>2, <6>2
          <6>3. CASE refund[f].state = "SUCCEEDED" /\ refund'[f] = [state |-> "ALLOCATED", batch |-> 0]
            BY <6>3
          <6>4. CASE /\ refund[f].state = "SUCCEEDED"
                     /\ \E d \in Active(RefundOf[f]), s \in {"BATCH_CHANGED", "POST_PAYOUT_REFUND"} :
                          /\ refund'[f] = [state |-> s, batch |-> d]
                          /\ s = "BATCH_CHANGED" => ~op[Transfer(d)].sent
            <7>1. PICK d \in Active(RefundOf[f]), s \in {"BATCH_CHANGED", "POST_PAYOUT_REFUND"} :
                    refund'[f] = [state |-> s, batch |-> d]
              BY <6>4
            <7>2. refund'[f].state = s
              BY <7>1
            <7> QED
              BY <6>4, <7>2
          <6> QED
            BY <5>2, <6>1, <6>2, <6>3, <6>4 DEF BooksMove
        <5> QED
          BY <1>16, <5>1, <5>2, <5>3 DEF Accounted
      <4> QED
        BY <4>1 DEF Before, RefundsOf
    <3>3. left[e] = Net[e] - SumFunctionOnSet(Cents, Before(e, b)')
      BY <1>1, <3>2 DEF Left
    <3> QED
      BY <1>4, <2>1, <3>1, <3>3
  <2>2. CASE c # b
    <3>1. batch'[c] = batch[c] /\ e \in ItemsOf(c) /\ batch[c].state # "VOIDED"
      BY <1>1, <1>4, <2>2
    <3>2. ItemSound(c, e) /\ Active(e) = {c}
      BY <3>1 DEF IInv, ItemsSound, ItemSound
    <3>3. Active(e)' = {c}
      BY <1>1, <1>18, <3>2
    <3>4. ASSUME NEW f \in RefundsOf(e)
          PROVE  refund'[f].state \in Accounted /\ refund'[f].batch # c
                   <=> refund[f].state \in Accounted /\ refund[f].batch # c
      BY <1>10, <3>1, MovedRefund DEF RefundsOf
    <3>5. Before(e, c)' = Before(e, c)
      BY <3>4 DEF Before, RefundsOf
    <3> QED
      BY <3>1, <3>2, <3>3, <3>5 DEF ItemSound
  <2> QED
    BY <2>1, <2>2
<1>20. FundsSound'
  <2> SUFFICES ASSUME NEW c \in Batches
               PROVE  /\ Taken(c)' <= Transferred(c)'
                      /\ \A g \in 1..MaxGenerations : PayoutCovered(c, g)'
    BY DEF FundsSound
  <2>1. ReversalsOf(c)' = ReversalsOf(c)
    <3>1. ASSUME NEW f \in Refunds
          PROVE  refund'[f].batch = c /\ op'[Reversal(f)].state # "NONE"
                   <=> refund[f].batch = c /\ op[Reversal(f)].state # "NONE"
      BY <1>9, <1>10, MovedRefund
    <3> QED
      BY <3>1 DEF ReversalsOf
  <2>2. \A r \in ReversalsOf(c) : op'[r] = op[r]
    BY <1>9 DEF ReversalsOf
  <2>3. Taken(c)' = Taken(c)
    BY <2>1, <2>2, TakenStays DEF IInv
  <2>4. Transferred(c)' = Transferred(c)
    BY <1>2, <1>4, <1>8, <1>9 DEF Transferred
  <2> QED
    BY <1>9, <2>1, <2>2, <2>3, <2>4 DEF IInv, FundsSound, PayoutCovered
<1> QED
  BY <1>12, <1>13, <1>14, <1>15, <1>17, <1>19, <1>20 DEF IInv
-----------------------------------------------------------------------------
(* The invariant.                                                          *)

LEMMA InitSound ==
  ASSUME Init
  PROVE  IInv
<1>1. RowTypes
  <2>1. NoOperation \in Operation
    BY DEF NoOperation, Operation, OperationStates
  <2>2. [state |-> "NONE", items |-> [e \in Earnings |-> 0], generation |-> 1] \in PayoutBatch
    BY PayoutAssumption DEF PayoutBatch, BatchStates
  <2> QED
    BY <2>1, <2>2 DEF Init, RowTypes, RefundStates
<1>2. \A o \in Operations : op[o] = NoOperation /\ op[o].state = "NONE" /\ ~op[o].sent
        /\ ~op[o].known /\ op[o].seen = "NONE" /\ op[o].projected = "NONE" /\ provider[o] = "NONE"
  BY DEF Init, NoOperation
<1>3. CallsSound
  BY <1>2 DEF CallsSound, CallSound, MayBecome, Answers
<1>4. \A b \in Batches : batch[b].state = "NONE" /\ ItemsOf(b) = {}
  BY DEF Init, ItemsOf
<1>5. \A f \in Refunds : refund[f].state = "NONE" /\ refund[f].batch = 0
  BY DEF Init
<1>6. BatchesSound
  BY <1>2, <1>4, OperationNames DEF BatchesSound, BatchSound
<1>7. PayoutsSound
  BY <1>2, OperationNames DEF PayoutsSound, PayoutSound
<1>8. ReversalsSound
  BY <1>2, OperationNames DEF ReversalsSound, ReversalSound
<1>9. ChargesSound
  BY <1>5 DEF ChargesSound, ChargeSound
<1>10. ItemsSound
  BY <1>4 DEF ItemsSound, ItemSound
<1>11. FundsSound
  <2>1. ASSUME NEW b \in Batches PROVE Taken(b) = 0 /\ Transferred(b) \in Nat
    <3>1. ReversalsOf(b) = {}
      BY <1>2, OperationNames DEF ReversalsOf
    <3> QED
      BY <1>1, <3>1, AmountOfNone, AmountNat DEF Taken
  <2> QED
    BY <1>2, <2>1, OperationNames DEF FundsSound, PayoutCovered
<1> QED
  BY <1>1, <1>3, <1>6, <1>7, <1>8, <1>9, <1>10, <1>11 DEF IInv

LEMMA StepSound ==
  ASSUME IInv, [Next]_vars
  PROVE  IInv'
<1>1. CASE UNCHANGED vars
  <2>1. /\ UNCHANGED <<batch, op, provider, differences>>
        /\ refund' \in [Refunds -> [state : RefundStates, batch : Batches \cup {0}]]
        /\ \A f \in Refunds : refund'[f] = refund[f]
    BY <1>1 DEF vars, IInv, RowTypes
  <2> QED
    BY <2>1, BooksKeep DEF BooksMove
<1>2. ASSUME NEW f \in Refunds, Refunded(f) \/ PlanTransferReversal(f) PROVE IInv'
  BY <1>2, RefundedKeeps, PlanTransferReversalKeeps
<1>3. ASSUME NEW e \in Earnings, AccountReservation(e) PROVE IInv'
  BY <1>3, AccountReservationKeeps
<1>4. ASSUME NEW b \in Batches,
             CreateBatch(b) \/ PlanBankPayout(b) \/ RetryBankPayout(b) \/ VoidBatch(b)
      PROVE  IInv'
  BY <1>4, CreateBatchKeeps, PlanBankPayoutKeeps, RetryBankPayoutKeeps, VoidBatchKeeps
<1>5. ASSUME NEW o \in Operations,
             \/ Claim(o) \/ Read(o) \/ Save(o) \/ Dispatch(o)
             \/ Unknown(o) \/ Fail(o) \/ Resume(o) \/ Progress(o)
      PROVE  IInv'
  BY <1>5, ClaimKeeps, ReadKeeps, SaveKeeps, DispatchKeeps, UnknownKeeps, FailKeeps,
     ResumeKeeps, ProgressKeeps
<1> QED
  BY <1>1, <1>2, <1>3, <1>4, <1>5 DEF Next

\* The inductive invariant: rows, what was read, what was applied and the provider
\* agree (financial-operations.ts, provider-execution-guard.ts); only the payout of
\* the current generation can move money; while it is out nothing is taken back and
\* it is all that is left (payout-operations.ts); a refund is charged to the batch
\* that held its earning, and an item is what was left of the earning before
\* (finance-ledger.ts).
THEOREM Inductive == Spec => []IInv
<1>1. Init => IInv
  BY InitSound
<1>2. IInv /\ [Next]_vars => IInv'
  BY StepSound
<1> QED
  BY <1>1, <1>2, PTL DEF Spec

-----------------------------------------------------------------------------
(* Funds.                                                                  *)

\* Payouts that are out, as far as is known, are one at most, of the current
\* generation.
LEMMA OneOut ==
  ASSUME IInv, NEW b \in Batches, NEW g \in 1..MaxGenerations, NEW h \in 1..MaxGenerations,
         op[Payout(b, g)].sent, op[Payout(b, g)].projected # "FAILED",
         op[Payout(b, h)].sent, op[Payout(b, h)].projected # "FAILED"
  PROVE  g = h
<1>1. CallSound(Payout(b, g)) /\ CallSound(Payout(b, h))
  BY OperationNames DEF IInv, CallsSound
<1>2. PayoutSound(b, g) /\ PayoutSound(b, h)
  BY DEF IInv, PayoutsSound
<1>3. batch[b].generation \in 1..MaxGenerations
  BY DEF IInv, RowTypes, PayoutBatch
<1>4. g = batch[b].generation
  BY <1>1, <1>2, <1>3 DEF CallSound, PayoutSound
<1>5. h = batch[b].generation
  BY <1>1, <1>2, <1>3 DEF CallSound, PayoutSound
<1> QED
  BY <1>4, <1>5

\* What they and the reversals add up to was transferred.
LEMMA OutCovered ==
  ASSUME IInv, NEW b \in Batches, NEW S \in SUBSET PayoutsOf(b),
         \A o \in S : op[o].sent /\ op[o].projected # "FAILED"
  PROVE  /\ AmountsOf(S) \in Nat /\ Taken(b) \in Nat /\ Transferred(b) \in Nat
         /\ AmountsOf(S) + Taken(b) <= Transferred(b)
<1>1. /\ Taken(b) \in Nat /\ Transferred(b) \in Nat /\ Taken(b) <= Transferred(b)
      /\ PayoutsOf(b) \in SUBSET Operations /\ IsFiniteSet(PayoutsOf(b))
  BY TakenParts, AmountNat, PaidParts, FiniteOperations DEF IInv, FundsSound
<1>2. CASE S = {}
  BY <1>1, <1>2, AmountOfNone
<1>3. CASE S # {}
  <2>1. PICK g \in 1..MaxGenerations : Payout(b, g) \in S
    BY <1>3 DEF PayoutsOf
  <2>2. S = {Payout(b, g)}
    <3>1. ASSUME NEW o \in S PROVE o = Payout(b, g)
      <4>1. PICK h \in 1..MaxGenerations : o = Payout(b, h)
        BY DEF PayoutsOf
      <4> QED
        BY <2>1, <4>1, OneOut
    <3> QED
      BY <2>1, <3>1
  <2>3. AmountsOf(S) = op[Payout(b, g)].amount
    BY <2>2, AmountOfOne, OperationNames DEF IInv
  <2>4. op[Payout(b, g)].amount + Taken(b) = Transferred(b)
    BY <2>1 DEF IInv, FundsSound, PayoutCovered
  <2>5. AmountsOf(S) \in Nat
    BY <1>1, AmountsOfPart DEF IInv
  <2> QED
    BY <1>1, <2>3, <2>4, <2>5
<1> QED
  BY <1>2, <1>3

LEMMA TypeHolds ==
  ASSUME IInv
  PROVE  TypeOK
<1> SUFFICES ASSUME NEW b \in Batches
             PROVE  PaidCents(b) + PendingCents(b) + Reversed(b) + Reserved(b) <= Transferred(b)
  BY DEF IInv, RowTypes, TypeOK
<1> DEFINE P == {o \in PayoutsOf(b) : op[o].projected = "PAID"}
           Q == {o \in PayoutsOf(b) : op[o].projected = "PENDING"}
<1>1. PayoutsOf(b) \in SUBSET Operations /\ IsFiniteSet(PayoutsOf(b))
  BY PaidParts, FiniteOperations DEF IInv
<1>2. \A o \in P \cup Q : op[o].sent /\ op[o].projected # "FAILED"
  BY <1>1 DEF IInv, CallsSound, CallSound
<1>3. P \in SUBSET PayoutsOf(b) /\ Q \in SUBSET PayoutsOf(b) /\ P \cap Q = {}
  OBVIOUS
<1>4. PaidCents(b) = AmountsOf(P) /\ PendingCents(b) = AmountsOf(Q)
  BY DEF PaidCents, PendingCents
<1> HIDE DEF P, Q
<1>5. /\ IsFiniteSet(P) /\ IsFiniteSet(Q) /\ P \in SUBSET Operations /\ Q \in SUBSET Operations
      /\ P \cup Q \in SUBSET PayoutsOf(b)
  BY <1>1, <1>3, FS_Subset
<1>6. AmountsOf(P \cup Q) + Taken(b) <= Transferred(b)
  BY <1>2, <1>5, OutCovered
<1>7. AmountsOf(P \cup Q) = AmountsOf(P) + AmountsOf(Q)
  BY <1>3, <1>5, AmountsOfUnion DEF IInv
<1>8. AmountsOf(P) \in Nat /\ AmountsOf(Q) \in Nat
  BY <1>5, AmountsNat DEF IInv
<1>9. Taken(b) = Reversed(b) + Reserved(b) /\ Reversed(b) \in Nat /\ Reserved(b) \in Nat
      /\ Transferred(b) \in Nat
  BY TakenParts, AmountNat DEF IInv
<1> QED
  BY <1>4, <1>6, <1>7, <1>8, <1>9

\* The types of the rows, and the check payout_available_funds_nonnegative of the
\* table, which no transaction can fail: paid, pending, reversed and reserved never
\* exceed what was transferred.
THEOREM TypeCorrect == Spec => []TypeOK
<1>1. IInv => TypeOK
  BY TypeHolds
<1> QED
  BY <1>1, Inductive, PTL

\* Whatever the answers that were lost and the calls that come late, what left for
\* the bank and what was taken back were transferred before (payout-movement.ts).
THEOREM FundsAlwaysCovered == Spec => []FundsCovered
<1>1. ASSUME IInv, NEW b \in Batches,
             NEW out, out = {o \in PayoutsOf(b) : provider[o] \in {"LATE", "PENDING", "PAID"}},
             NEW back, back = {o \in ReversalsOf(b) : provider[o] \in {"LATE", "DONE"}},
             out \cup back # {}
      PROVE  provider[Transfer(b)] = "DONE" /\ AmountsOf(out) + AmountsOf(back) <= Amount(b)
  <2>1. /\ PayoutsOf(b) \in SUBSET Operations /\ ReversalsOf(b) \in SUBSET Operations
        /\ IsFiniteSet(ReversalsOf(b)) /\ Transferred(b) <= Amount(b) /\ Amount(b) \in Nat
    BY <1>1, PaidParts, TakenParts, AmountNat DEF IInv
  <2>2. \A o \in out : op[o].sent /\ op[o].projected # "FAILED" /\ op[o].state # "NONE"
    <3> SUFFICES ASSUME NEW o \in out
                 PROVE  op[o].sent /\ op[o].projected # "FAILED" /\ op[o].state # "NONE"
      OBVIOUS
    <3>1. CallSound(o) /\ provider[o] \in {"LATE", "PENDING", "PAID"}
      BY <1>1, <2>1 DEF IInv, CallsSound
    <3> QED
      BY <3>1 DEF CallSound, MayBecome
  <2>3. out \in SUBSET PayoutsOf(b) /\ back \in SUBSET ReversalsOf(b)
    BY <1>1
  <2>4. AmountsOf(out) + Taken(b) <= Transferred(b) /\ AmountsOf(out) \in Nat
        /\ Taken(b) \in Nat /\ Transferred(b) \in Nat
    BY <1>1, <2>2, <2>3, OutCovered
  <2>5. AmountsOf(back) <= Taken(b) /\ AmountsOf(back) \in Nat
    BY <1>1, <2>1, <2>3, AmountsOfPart DEF IInv, Taken
  <2>6. op[Transfer(b)].projected = "DONE"
    <3>1. CASE out # {}
      <4>1. PICK g \in 1..MaxGenerations : Payout(b, g) \in out
        BY <2>3, <3>1 DEF PayoutsOf
      <4> QED
        BY <1>1, <2>2, <4>1 DEF IInv, PayoutsSound, PayoutSound
    <3>2. CASE back # {}
      <4>1. PICK f \in Refunds : refund[f].batch = b /\ op[Reversal(f)].state # "NONE"
        BY <2>3, <3>2 DEF ReversalsOf
      <4> QED
        BY <1>1, <4>1 DEF IInv, ReversalsSound, ReversalSound
    <3> QED
      BY <1>1, <3>1, <3>2
  <2>7. provider[Transfer(b)] = "DONE"
    BY <1>1, <2>6, TransferredBatch
  <2> QED
    BY <2>1, <2>4, <2>5, <2>7
<1>2. IInv => FundsCovered
  BY <1>1 DEF FundsCovered
<1> QED
  BY <1>2, Inductive, PTL

\* A transfer that was sent belongs to a batch that is not voided.
LEMMA SentBatch ==
  ASSUME IInv, NEW b \in Batches, provider[Transfer(b)] # "NONE"
  PROVE  batch[b].state \notin {"NONE", "VOIDED"} /\ op[Transfer(b)].sent
<1>1. CallSound(Transfer(b)) /\ BatchSound(b)
  BY OperationNames DEF IInv, CallsSound, BatchesSound
<1> QED
  BY <1>1 DEF CallSound, BatchSound

\* A batch whose transfer may have been sent is never voided, so its earnings are
\* never collected again (voidUndispatchedBatch).
THEOREM NeverTransferredTwice == Spec => []TransferredOnce
<1>1. ASSUME IInv, NEW b \in Batches, NEW c \in Batches,
             provider[Transfer(b)] # "NONE", provider[Transfer(c)] # "NONE",
             ItemsOf(b) \cap ItemsOf(c) # {}
      PROVE  b = c
  <2>1. PICK e \in Earnings : e \in ItemsOf(b) /\ e \in ItemsOf(c)
    BY <1>1 DEF ItemsOf
  <2>2. Active(e) = {b}
    BY <1>1, <2>1, SentBatch DEF IInv, ItemsSound, ItemSound
  <2>3. Active(e) = {c}
    BY <1>1, <2>1, SentBatch DEF IInv, ItemsSound, ItemSound
  <2> QED
    BY <2>2, <2>3
<1>2. IInv => TransferredOnce
  BY <1>1 DEF TransferredOnce
<1> QED
  BY <1>2, Inductive, PTL
-----------------------------------------------------------------------------
(* The books.                                                              *)

\* The refunds charged to a batch, and those of one earning.
Charged(b) == {f \in Refunds : refund[f].state \in Accounted /\ refund[f].batch = b}
ChargedTo(b, e) == {f \in Charged(b) : RefundOf[f] = e}

\* What is left of an item after the refunds that are accounted.
LEMMA ItemLeft ==
  ASSUME IInv, NEW b \in Batches, batch[b].state # "VOIDED", NEW e \in ItemsOf(b)
  PROVE  /\ Left(e, Accounted) = batch[b].items[e] - SumFunctionOnSet(Cents, ChargedTo(b, e))
         /\ Left(e, Accounted) \in Int
         /\ SumFunctionOnSet(Cents, ChargedTo(b, e)) \in Int
         /\ batch[b].items[e] \in Int
<1>1. e \in Earnings /\ batch[b].items[e] = Net[e] - SumFunctionOnSet(Cents, Before(e, b))
  BY DEF ItemsOf, IInv, ItemsSound, ItemSound
<1>2. /\ Before(e, b) \cap ChargedTo(b, e) = {}
      /\ Before(e, b) \cup ChargedTo(b, e) = {f \in RefundsOf(e) : refund[f].state \in Accounted}
  BY DEF Before, ChargedTo, Charged, RefundsOf
<1>3. /\ IsFiniteSet(Before(e, b)) /\ IsFiniteSet(ChargedTo(b, e))
      /\ \A f \in Before(e, b) \cup ChargedTo(b, e) : Cents[f] \in Int
  BY FiniteAssumption, PayoutAssumption, FS_Subset DEF Before, ChargedTo, Charged, RefundsOf
<1>4. SumFunctionOnSet(Cents, Before(e, b) \cup ChargedTo(b, e))
        = SumFunctionOnSet(Cents, Before(e, b)) + SumFunctionOnSet(Cents, ChargedTo(b, e))
  BY <1>2, <1>3, SumOfUnion
<1>5. /\ SumFunctionOnSet(Cents, Before(e, b)) \in Int
      /\ SumFunctionOnSet(Cents, ChargedTo(b, e)) \in Int
  BY <1>3, SumIsInt
<1>6. Net[e] \in Int
  BY <1>1, PayoutAssumption
<1>7. Left(e, Accounted) = Net[e] - SumFunctionOnSet(Cents, Before(e, b) \cup ChargedTo(b, e))
  BY <1>2 DEF Left
<1> QED
  BY <1>1, <1>4, <1>5, <1>6, <1>7

\* What is left of a batch: its amount less all that is charged to it.
LEMMA BatchLeft ==
  ASSUME IInv, NEW b \in Batches, batch[b].state # "VOIDED"
  PROVE  LeftOf(ItemsOf(b), Accounted) = Amount(b) - SumFunctionOnSet(Cents, Charged(b))
<1> DEFINE L == [e \in Earnings |-> Left(e, Accounted)]
           H == [e \in Earnings |-> SumFunctionOnSet(Cents, ChargedTo(b, e))]
           I == ItemsOf(b)
<1>1. I \in SUBSET Earnings /\ IsFiniteSet(I)
  BY AmountNat DEF IInv
<1>2. \A e \in I : /\ batch[b].items[e] \in Int /\ H[e] \in Int
                   /\ L[e] = batch[b].items[e] - H[e]
  BY <1>1, ItemLeft
<1>3. \A e \in I : H[e] = SumFunctionOnSet(Cents, {f \in Charged(b) : RefundOf[f] = e})
  BY <1>1 DEF ChargedTo
<1>4. LeftOf(I, Accounted) = SumFunctionOnSet(L, I) /\ Amount(b) = SumFunctionOnSet(batch[b].items, I)
  BY DEF LeftOf, Amount
<1> HIDE DEF L, H, I
<1>5. SumFunctionOnSet(L, I) = SumFunctionOnSet(batch[b].items, I) - SumFunctionOnSet(H, I)
  BY <1>1, <1>2, SumOfDifferences
<1>6. IsFiniteSet(Charged(b)) /\ \A f \in Charged(b) : Cents[f] \in Int
  BY FiniteAssumption, PayoutAssumption, FS_Subset DEF Charged
<1>7. SumFunctionOnSet(H, I) = SumFunctionOnSet(Cents, {f \in Charged(b) : RefundOf[f] \in I})
  <2>1. /\ IsFiniteSet(Charged(b)) /\ IsFiniteSet(I)
        /\ \A x \in Charged(b) : Cents[x] \in Int
        /\ \A i \in I : H[i] = SumFunctionOnSet(Cents, Part(Charged(b), RefundOf, i))
    BY <1>1, <1>3, <1>6 DEF Part
  <2>2. SumFunctionOnSet(H, I) = SumFunctionOnSet(Cents, Parts(Charged(b), RefundOf, I))
    BY <2>1, SumOfParts
  <2> QED
    BY <2>2 DEF Parts
<1>8. {f \in Charged(b) : RefundOf[f] \in I} = Charged(b)
  <2>1. ASSUME NEW f \in Charged(b) PROVE RefundOf[f] \in I
    <3>1. refund[f].batch = b /\ b # 0
      BY PayoutAssumption DEF Charged, Batches
    <3> QED
      BY <3>1 DEF Charged, IInv, ChargesSound, ChargeSound, I
  <2> QED
    BY <2>1
<1> QED
  BY <1>4, <1>5, <1>7, <1>8 DEF I

\* The amounts of reversals are the shares of their refunds.
LEMMA SharesOfReversals ==
  ASSUME IInv, NEW F \in SUBSET Refunds, \A f \in F : op[Reversal(f)].state # "NONE"
  PROVE  SumFunctionOnSet(Cents, F) = AmountsOf({Reversal(f) : f \in F})
<1> DEFINE R == {Reversal(f) : f \in F}
           A == [o \in Operations |-> op[o].amount]
           m == [o \in Operations |-> o[2]]
<1>1. R \in SUBSET Operations /\ R \in SUBSET Reversals
  BY OperationNames DEF Reversals
<1>2. IsFiniteSet(F) /\ IsFiniteSet(R)
  BY <1>1, FiniteAssumption, FiniteOperations, FS_Subset
<1>3. \A o \in R : A[o] \in Int
  BY <1>1 DEF IInv, RowTypes, Operation
<1>4. \A f \in F : m[Reversal(f)] = f
  BY <1>1 DEF Reversal
<1>5. ASSUME NEW f \in F
      PROVE  Cents[f] = SumFunctionOnSet(A, {o \in R : m[o] = f})
  <2>1. {o \in R : m[o] = f} = {Reversal(f)}
    BY <1>4
  <2>2. AmountsOf({Reversal(f)}) = op[Reversal(f)].amount
    BY AmountOfOne, OperationNames DEF IInv
  <2>3. op[Reversal(f)].amount = Cents[f]
    BY DEF IInv, ReversalsSound, ReversalSound
  <2> QED
    BY <2>1, <2>2, <2>3 DEF AmountsOf
<1>6. {o \in R : m[o] \in F} = R
  BY <1>4
<1>7. AmountsOf(R) = SumFunctionOnSet(A, R)
  BY DEF AmountsOf
<1> HIDE DEF R, A, m
<1>8. SumFunctionOnSet(Cents, F) = SumFunctionOnSet(A, {o \in R : m[o] \in F})
  <2>1. /\ IsFiniteSet(R) /\ IsFiniteSet(F)
        /\ \A x \in R : A[x] \in Int
        /\ \A i \in F : Cents[i] = SumFunctionOnSet(A, Part(R, m, i))
    BY <1>2, <1>3, <1>5 DEF Part
  <2>2. SumFunctionOnSet(Cents, F) = SumFunctionOnSet(A, Parts(R, m, F))
    BY <2>1, SumOfParts
  <2> QED
    BY <2>2 DEF Parts
<1> QED
  BY <1>6, <1>7, <1>8 DEF R

\* A refund charged to a batch that was sent is to be recovered, or recovered.
LEMMA ChargedParts ==
  ASSUME IInv, NEW b \in Batches, provider[Transfer(b)] # "NONE", NEW f \in Refunds
  PROVE  f \in Charged(b)
           <=> \/ /\ refund[f].state = "POST_PAYOUT_REFUND" /\ refund[f].batch = b
                  /\ provider[Reversal(f)] \notin {"LATE", "DONE"}
               \/ refund[f].batch = b /\ provider[Reversal(f)] \in {"LATE", "DONE"}
<1>1. op[Transfer(b)].sent /\ batch[b].state # "VOIDED" /\ b # 0
  BY SentBatch, PayoutAssumption DEF Batches
<1>2. CallSound(Reversal(f)) /\ ReversalSound(f) /\ ChargeSound(f) /\ Reversal(f) \in Operations \ Payouts
      /\ refund[f].state \in RefundStates
  BY OperationNames DEF IInv, CallsSound, ReversalsSound, ChargesSound, RowTypes
<1>3. op[Reversal(f)].projected = "DONE" => provider[Reversal(f)] = "DONE"
  BY <1>2 DEF CallSound, Answers, AnswersOf
<1>4. provider[Reversal(f)] \in {"LATE", "DONE"} => refund[f].state \in {"POST_PAYOUT_REFUND", "RESOLVED"}
  BY <1>2 DEF CallSound, ReversalSound
<1>5. refund[f].batch = b /\ refund[f].state \in Accounted =>
        \/ refund[f].state = "POST_PAYOUT_REFUND"
        \/ provider[Reversal(f)] = "DONE"
  BY <1>1, <1>2, <1>3 DEF ChargeSound, Accounted, RefundStates
<1> QED
  BY <1>4, <1>5 DEF Charged, Accounted, RefundStates

\* What the host got beyond the earnings that are left is in the books as
\* something to recover, and what was recovered is counted once (finance-ledger.ts).
THEOREM OverpaymentAlwaysRecorded == Spec => []OverpaymentRecorded
<1>1. ASSUME IInv, NEW b \in Batches, provider[Transfer(b)] # "NONE",
             NEW recoverable, recoverable = {f \in Refunds :
               /\ refund[f].state = "POST_PAYOUT_REFUND" /\ refund[f].batch = b
               /\ provider[Reversal(f)] \notin {"LATE", "DONE"}},
             NEW recovered, recovered = {o \in ReversalsOf(b) : provider[o] \in {"LATE", "DONE"}}
      PROVE  Amount(b) - AmountsOf(recovered) =
               LeftOf(ItemsOf(b), Accounted) + SumFunctionOnSet(Cents, recoverable)
  <2> DEFINE F == {f \in Refunds : refund[f].batch = b /\ provider[Reversal(f)] \in {"LATE", "DONE"}}
  <2>1. Charged(b) = recoverable \cup F /\ recoverable \cap F = {}
    <3>1. \A f \in Refunds : f \in Charged(b) <=> f \in recoverable \/ f \in F
      BY <1>1, ChargedParts
    <3>2. Charged(b) \subseteq Refunds
      BY DEF Charged
    <3> QED
      BY <1>1, <3>1, <3>2
  <2>2. \A f \in F : op[Reversal(f)].state # "NONE"
    BY <1>1, OperationNames DEF IInv, CallsSound, CallSound
  <2>3. recovered = {Reversal(f) : f \in F}
    BY <1>1, <2>2 DEF ReversalsOf
  <2>4. F \in SUBSET Refunds /\ recoverable \in SUBSET Refunds
    BY <1>1
  <2> HIDE DEF F
  <2>5. SumFunctionOnSet(Cents, F) = AmountsOf(recovered)
    BY <1>1, <2>2, <2>3, <2>4, SharesOfReversals
  <2>6. IsFiniteSet(F) /\ IsFiniteSet(recoverable) /\ \A f \in recoverable \cup F : Cents[f] \in Int
    BY <2>4, FiniteAssumption, PayoutAssumption, FS_Subset
  <2>7. SumFunctionOnSet(Cents, Charged(b)) = SumFunctionOnSet(Cents, recoverable) + SumFunctionOnSet(Cents, F)
    BY <2>1, <2>6, SumOfUnion
  <2>8. SumFunctionOnSet(Cents, recoverable) \in Int /\ SumFunctionOnSet(Cents, F) \in Int
    BY <2>6, SumIsInt
  <2>9. LeftOf(ItemsOf(b), Accounted) = Amount(b) - SumFunctionOnSet(Cents, Charged(b))
    BY <1>1, SentBatch, BatchLeft
  <2>10. Amount(b) \in Int
    BY <1>1, AmountNat DEF IInv
  <2> QED
    BY <2>5, <2>7, <2>8, <2>9, <2>10
<1>2. IInv => OverpaymentRecorded
  BY SMTT(30), <1>1 DEF OverpaymentRecorded
<1> QED
  BY <1>2, Inductive, PTL

-----------------------------------------------------------------------------
(* What is sent.                                                           *)

\* Only a dispatch makes the provider do something.
LEMMA OnlyDispatched ==
  ASSUME IInv, [Next]_vars, NEW o \in Operations, provider[o] = "NONE", provider'[o] # "NONE"
  PROVE  Authority(o) /\ op[o].state # "NONE"
<1>1. provider \in [Operations -> {"NONE"} \cup Effects]
  BY DEF IInv, RowTypes
<1>2. CASE UNCHANGED provider
  BY <1>2
<1>3. ASSUME NEW q \in Operations, Dispatch(q) PROVE q = o /\ Authority(q) /\ op[q].state # "NONE"
  BY <1>1, <1>3 DEF Dispatch
<1>4. ASSUME NEW q \in Operations, Progress(q) PROVE FALSE
  BY <1>1, <1>4 DEF Progress
<1> QED
  BY <1>2, <1>3, <1>4 DEF Next, vars, Refunded, PlanTransferReversal, AccountReservation, CreateBatch,
     PlanBankPayout, RetryBankPayout, VoidBatch, Claim, Read, Save, Unknown, Fail, Resume

\* A transfer or a payout is only sent when it is what is left of its earnings after
\* every refund that succeeded, accounted or not (payout-authority.ts).
THEOREM OnlyWhatIsOwed == Spec => SentWhatIsOwed
<1>1. ASSUME IInv, [Next]_vars, NEW b \in Batches, NEW o \in Transfers \cup Payouts, o[2] = b,
             provider[o] = "NONE", provider'[o] # "NONE"
      PROVE  op[o].amount = LeftOf(ItemsOf(b), RefundStates \ {"NONE"})
  <2>1. o \in Operations /\ Authority(o) /\ op[o].state # "NONE"
    BY <1>1, OnlyDispatched DEF Operations
  <2>2. \/ o = Transfer(b) /\ TransferAuthority(b)
        \/ o \in PayoutsOf(b) /\ PayoutAuthority(b, o)
    <3>1. \A c \in Batches : o = Transfer(c) \/ o \in PayoutsOf(c) => c = b
      BY <1>1 DEF Transfer, PayoutsOf, Payout
    <3>2. \A f \in Refunds : o # Reversal(f)
      BY <1>1 DEF Transfers, Payouts, PayoutsOf, Transfer, Payout, Reversal
    <3> QED
      BY <2>1, <3>1, <3>2 DEF Authority
  <2>3. \A e \in ItemsOf(b) : Eligible(e)
    BY <2>2 DEF TransferAuthority, PayoutAuthority
  <2>4. IsFiniteSet(ItemsOf(b)) /\ ItemsOf(b) \in SUBSET Earnings
    BY <1>1, AmountNat DEF IInv
  <2>5. ASSUME NEW e \in ItemsOf(b)
        PROVE  Left(e, Accounted) = Left(e, RefundStates \ {"NONE"})
    <3>1. {f \in RefundsOf(e) : refund[f].state \in Accounted}
            = {f \in RefundsOf(e) : refund[f].state \in RefundStates \ {"NONE"}}
      BY <2>3 DEF Eligible, Accounted
    <3> QED
      BY <3>1 DEF Left
  <2>6. LeftOf(ItemsOf(b), Accounted) = LeftOf(ItemsOf(b), RefundStates \ {"NONE"})
    <3> DEFINE L == [e \in Earnings |-> Left(e, Accounted)]
               M == [e \in Earnings |-> Left(e, RefundStates \ {"NONE"})]
    <3>1. \A e \in ItemsOf(b) : L[e] = M[e]
      BY <2>4, <2>5
    <3>2. LeftOf(ItemsOf(b), Accounted) = SumFunctionOnSet(L, ItemsOf(b))
          /\ LeftOf(ItemsOf(b), RefundStates \ {"NONE"}) = SumFunctionOnSet(M, ItemsOf(b))
      BY DEF LeftOf
    <3> HIDE DEF L, M
    <3>3. SumFunctionOnSet(L, ItemsOf(b)) = SumFunctionOnSet(M, ItemsOf(b))
      BY <2>4, <3>1, SumOfEqual
    <3> QED
      BY <3>2, <3>3
  <2>7. CASE o = Transfer(b) /\ TransferAuthority(b)
    <3> DEFINE L == [e \in Earnings |-> Left(e, Accounted)]
    <3>1. op[o].amount = Amount(b)
      BY <1>1, <2>1, <2>7 DEF IInv, BatchesSound, BatchSound
    <3>2. \A e \in ItemsOf(b) : batch[b].items[e] = L[e]
      BY <2>4, <2>7 DEF TransferAuthority
    <3>3. LeftOf(ItemsOf(b), Accounted) = SumFunctionOnSet(L, ItemsOf(b))
      BY DEF LeftOf
    <3> HIDE DEF L
    <3>4. Amount(b) = SumFunctionOnSet(L, ItemsOf(b))
      BY <2>4, <3>2, SumOfEqual DEF Amount
    <3> QED
      BY <2>6, <3>1, <3>3, <3>4
  <2>8. CASE o \in PayoutsOf(b) /\ PayoutAuthority(b, o)
    BY <2>6, <2>8 DEF PayoutAuthority
  <2> QED
    BY <2>2, <2>7, <2>8
<1> DEFINE Owed == \A b \in Batches, o \in Transfers \cup Payouts :
                     /\ o[2] = b
                     /\ provider[o] = "NONE" /\ provider'[o] # "NONE"
                     => op[o].amount = LeftOf(ItemsOf(b), RefundStates \ {"NONE"})
<1>2. IInv /\ [Next]_vars => [Owed]_vars
  BY <1>1
<1> QED
  BY <1>2, Inductive, PTL DEF Spec, SentWhatIsOwed

=============================================================================
