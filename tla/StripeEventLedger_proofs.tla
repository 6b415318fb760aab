------------------------ MODULE StripeEventLedger_proofs ------------------------
(***************************************************************************)
(* Proofs about StripeEventLedger, for any number of events, deliveries,   *)
(* recovery runs, handler steps and faults and any lease and backoff.      *)
(*                                                                         *)
(* The safety properties rest on what a lease token means.  Tokens are     *)
(* fresh: no worker has one the row has not reached, and no two handlers   *)
(* of an event have the same.  Whoever holds the row's current token is    *)
(* the one handler that may settle it, so the row is still PROCESSING and  *)
(* the transactions committed under the claim are exactly his.             *)
(***************************************************************************)
EXTENDS StripeEventLedger, TLAPS

\* w runs a handler, or has caught its error and not settled the row yet.
Handles(w) == worker[w].pc \in {"handling", "failing"}

\* The row's token numbers its claims.
TokensCount == \A e \in Events : row[e].leaseToken = row[e].attemptCount

\* A handler's token was minted by a claim.
TokensMinted ==
  \A w \in Workers : Handles(w) =>
    worker[w].token > 0 /\ worker[w].token <= RowOf(w).leaseToken

\* No two handlers of an event have the same token.
TokensUnique ==
  \A v, w \in Workers :
    Handles(v) /\ Handles(w) /\ worker[v].event = worker[w].event
    /\ worker[v].token = worker[w].token => v = w

\* The handler with the current token finds the row unsettled ...
HolderUnsettled ==
  \A w \in Workers : Handles(w) /\ HoldsToken(w) => RowOf(w).status = "PROCESSING"

\* ... and made every commit of the current claim himself.
HolderApplied ==
  \A w \in Workers : At(w, "handling") /\ HoldsToken(w)
    => applied[worker[w].event] = worker[w].step

\* A claimant has committed nothing yet.
ClaimantFresh == \A w \in Workers : At(w, "claiming") => worker[w].step = 0

IInv ==
  /\ TypeOK
  /\ TokensCount
  /\ TokensMinted
  /\ TokensUnique
  /\ HolderUnsettled
  /\ HolderApplied
  /\ ClaimantFresh
  /\ ProcessedApplied

-----------------------------------------------------------------------------
\* A worker that is not idle has a work record.
LEMMA BusyType ==
  ASSUME TypeOK, NEW w \in Workers, worker[w].pc # "idle"
  PROVE  /\ worker[w] \in Busy
         /\ worker[w].event \in Events
         /\ RowOf(w) \in Rows
<1>1. worker[w] \in Busy
  BY DEF TypeOK, Idle
<1> QED
  BY <1>1 DEF TypeOK, Busy, RowOf

\* The backoff schedule is never read outside its bounds.
LEMMA RetryDelayType ==
  ASSUME NEW n \in Nat
  PROVE  RetryDelay(n) \in Nat
<1> DEFINE i == IF n < Len(Backoff) THEN n + 1 ELSE Len(Backoff)
<1>1. Backoff \in Seq(Nat) /\ Len(Backoff) \in Nat /\ Len(Backoff) > 0
  BY LedgerAssumption
<1>2. i \in 1..Len(Backoff)
  BY <1>1
<1>3. Backoff[i] \in Nat
  BY <1>1, <1>2
<1> QED
  BY <1>3 DEF RetryDelay

\* The initial states satisfy the inductive invariant.
LEMMA InitInv == Init => IInv
<1> SUFFICES ASSUME Init PROVE IInv
  OBVIOUS
<1>1. TypeOK
  BY LedgerAssumption DEF Init, TypeOK, NoRow, Rows, Statuses, Idle
<1>2. \A w \in Workers : worker[w].pc = "idle"
  BY DEF Init, Idle
<1>3. TokensCount /\ ProcessedApplied
  BY DEF Init, NoRow, TokensCount, ProcessedApplied
<1>4. TokensMinted /\ TokensUnique /\ HolderUnsettled /\ HolderApplied /\ ClaimantFresh
  BY <1>2 DEF TokensMinted, TokensUnique, HolderUnsettled, HolderApplied,
     ClaimantFresh, Handles, At
<1> QED
  BY <1>1, <1>3, <1>4 DEF IInv

\* The work record of a worker that starts to claim is well typed.
LEMMA ClaimingType ==
  ASSUME TypeOK, NEW e \in Events
  PROVE  Claiming(e) \in Busy /\ Claiming(e).pc = "claiming"
BY LedgerAssumption DEF TypeOK, Claiming, Busy

\* Every step preserves the types.
LEMMA TypeStep == IInv /\ [Next]_vars => TypeOK'
<1> SUFFICES ASSUME IInv, [Next]_vars PROVE TypeOK'
  OBVIOUS
<1> USE DEF IInv
<1>1. ASSUME NEW h \in Hooks, NEW e \in Events, Deliver(h, e) PROVE TypeOK'
  BY <1>1, ClaimingType DEF Deliver, TypeOK, Workers, Rows, Statuses
<1>2. ASSUME NEW h \in Hooks, NEW e \in Events, Redeliver(h, e) PROVE TypeOK'
  BY <1>2, ClaimingType DEF Redeliver, TypeOK, Workers
<1>3. ASSUME NEW c \in Crons, NEW e \in Events, Select(c, e) PROVE TypeOK'
  BY <1>3, ClaimingType DEF Select, TypeOK, Workers
<1>4. ASSUME NEW w \in Workers, Step(w) PROVE TypeOK'
  <2> DEFINE e == worker[w].event
  <2>0. worker[w] \in Busy /\ e \in Events /\ row[e] \in Rows
    BY <1>4, BusyType DEF Step, At, Claim, ClaimLost, Commit, Renew, LeaseLost,
       HandlerFails, MarkProcessed, MarkFailed, Flag, Crash, RowOf
  <2>1. CASE Claim(w)
    <3> DEFINE token == row[e].attemptCount + 1
    <3>1. token \in Nat /\ now \in Nat
      BY <2>0 DEF Rows, TypeOK
    <3>2. ClaimedRow(row[e], token) \in Rows
      BY <2>0, <3>1 DEF Rows, Statuses, ClaimedRow
    <3>3. Claimant(worker[w], token) \in Busy
      BY <2>0, <3>1 DEF Busy, Claimant
    <3>4. 0 \in 0..Steps
      BY LedgerAssumption
    <3> QED
      BY <2>0, <2>1, <3>2, <3>3, <3>4 DEF Claim, TypeOK
  <2>2. CASE Commit(w)
    <3>1. worker[w].step \in 0..Steps /\ worker[w].step < Steps
          /\ applied[e] = worker[w].step
      BY <2>0, <2>2 DEF Commit, HolderApplied, Fence, Busy
    <3>2. worker[w].step + 1 \in 0..Steps
      BY <3>1, LedgerAssumption
    <3>3. Advanced(worker[w]) \in Busy
      BY <2>0, <3>2 DEF Busy, Advanced
    <3> QED
      BY <2>0, <2>2, <3>1, <3>2, <3>3 DEF Commit, TypeOK
  <2>3. CASE Renew(w)
    BY <2>0, <2>3 DEF Renew, TypeOK, Busy, Rows
  <2>4. CASE LeaseLost(w) \/ HandlerFails(w)
    <3>1. 0 \in 0..Steps
      BY LedgerAssumption
    <3>2. Thrown(worker[w]) \in Busy
      BY <2>0, <3>1 DEF Busy, Thrown
    <3> QED
      BY <2>0, <2>4, <3>2 DEF LeaseLost, HandlerFails, Throws, Fault, TypeOK
  <2>5. CASE MarkProcessed(w)
    BY <2>0, <2>5 DEF MarkProcessed, Ends, TypeOK, Rows, Statuses
  <2>6. CASE MarkFailed(w)
    <3>1. now + RetryDelay(row[e].attemptCount) \in Nat
      BY <2>0, RetryDelayType DEF Rows, TypeOK
    <3>2. FailedRow(row[e]) \in Rows
      BY <2>0, <3>1 DEF Rows, Statuses, FailedRow
    <3>3. [worker[w] EXCEPT !.pc = "failed"] \in Busy
      BY <2>0 DEF Busy
    <3>4. row' \in [Events -> Rows]
      BY <2>0, <2>6, <3>2 DEF MarkFailed, TypeOK, RowOf
    <3>5. worker' \in [Workers -> Busy \cup {Idle}]
      BY <2>6, <3>3 DEF MarkFailed, TypeOK
    <3> QED
      BY <2>6, <3>4, <3>5 DEF MarkFailed, TypeOK
  <2>7. CASE ClaimLost(w) \/ Flag(w) \/ Crash(w)
    BY <2>0, <2>7 DEF ClaimLost, Flag, Crash, Ends, Fault, TypeOK
  <2> QED
    BY <1>4, <2>1, <2>2, <2>3, <2>4, <2>5, <2>6, <2>7 DEF Step
<1>5. CASE Tick
  BY <1>5 DEF Tick, Fault, TypeOK
<1>6. CASE UNCHANGED vars
  BY <1>6 DEF vars, TypeOK
<1> QED
  BY <1>1, <1>2, <1>3, <1>4, <1>5, <1>6 DEF Next

\* A claim mints a token above every token of the event.
LEMMA ClaimStep ==
  ASSUME IInv, TypeOK', NEW w \in Workers, Claim(w)
  PROVE  IInv'
<1> DEFINE e == worker[w].event
           token == row[e].attemptCount + 1
<1> USE DEF IInv
<1>1. /\ worker[w] \in Busy /\ e \in Events /\ row[e] \in Rows
      /\ token \in Nat /\ token = row[e].leaseToken + 1
      /\ row[e].status # "PROCESSED"
      /\ worker[w].step = 0
  BY SMTT(30), BusyType DEF Claim, At, RowOf, Rows, TokensCount, Claimable, ClaimantFresh
<1>2. /\ row'[e].status = "PROCESSING"
      /\ row'[e].leaseToken = token
      /\ row'[e].attemptCount = token
      /\ \A d \in Events \ {e} : row'[d] = row[d] /\ applied'[d] = applied[d]
      /\ applied'[e] = 0
  BY <1>1 DEF Claim, ClaimedRow, TypeOK, Rows
<1>3. /\ worker'[w].pc = "handling"
      /\ worker'[w].event = e
      /\ worker'[w].token = token
      /\ worker'[w].step = 0
      /\ \A v \in Workers \ {w} : worker'[v] = worker[v]
  BY <1>1 DEF Claim, Claimant, TypeOK, Busy
<1>4. \A v \in Workers \ {w} : Handles(v) =>
        /\ worker[v].event \in Events
        /\ worker[v].token \in Nat /\ RowOf(v).leaseToken \in Nat
        /\ worker[v].token > 0 /\ worker[v].token <= RowOf(v).leaseToken
        /\ worker[v].event = e => worker[v].token < token
  BY <1>1, BusyType DEF TokensMinted, Handles, RowOf, Busy, Rows
<1>5. TokensCount'
  BY <1>2 DEF TokensCount
<1>6. TokensMinted'
  <2> SUFFICES ASSUME NEW v \in Workers, Handles(v)'
               PROVE  worker'[v].token > 0 /\ worker'[v].token <= RowOf(v)'.leaseToken
    BY DEF TokensMinted
  <2>1. CASE v = w
    BY <2>1, <1>1, <1>2, <1>3 DEF RowOf, Rows
  <2>2. CASE v # w
    BY <2>2, <1>1, <1>2, <1>3, <1>4 DEF Handles, RowOf
  <2> QED
    BY <2>1, <2>2
<1>7. TokensUnique'
  BY <1>3, <1>4 DEF TokensUnique, Handles
<1>8. HolderUnsettled'
  BY <1>2, <1>3, <1>4 DEF HolderUnsettled, Handles, HoldsToken, RowOf
<1>9. HolderApplied'
  <2> SUFFICES ASSUME NEW v \in Workers, At(v, "handling")', HoldsToken(v)'
               PROVE  applied'[worker'[v].event] = worker'[v].step
    BY DEF HolderApplied
  <2>1. CASE v = w
    BY <2>1, <1>2, <1>3
  <2>2. CASE v # w
    BY <2>2, <1>2, <1>3, <1>4 DEF At, HoldsToken, HolderApplied, RowOf, Handles
  <2> QED
    BY <2>1, <2>2
<1>10. ClaimantFresh' /\ ProcessedApplied'
  BY <1>2, <1>3 DEF ClaimantFresh, ProcessedApplied, At
<1> QED
  BY <1>5, <1>6, <1>7, <1>8, <1>9, <1>10

\* A step that mints no token and makes no new handler keeps what is said
\* about tokens.
LEMMA TokensKept ==
  ASSUME TypeOK, TokensCount, TokensMinted, TokensUnique,
         \A e \in Events : /\ row'[e].leaseToken = row[e].leaseToken
                          /\ row'[e].attemptCount = row[e].attemptCount,
         \A v \in Workers : Handles(v)' =>
           /\ Handles(v)
           /\ worker'[v].event = worker[v].event
           /\ worker'[v].token = worker[v].token
  PROVE  TokensCount' /\ TokensMinted' /\ TokensUnique'
<1>1. TokensCount'
  BY DEF TokensCount
<1>2. \A v \in Workers : Handles(v) => worker[v].event \in Events
  BY BusyType DEF Handles
<1>3. TokensMinted'
  BY <1>2 DEF TokensMinted, RowOf
<1>4. TokensUnique'
  BY DEF TokensUnique
<1> QED
  BY <1>1, <1>3, <1>4

\* The steps of a worker other than a claim.
LEMMA WorkStep ==
  ASSUME IInv, TypeOK', NEW w \in Workers, Step(w), ~Claim(w)
  PROVE  IInv'
<1> DEFINE e == worker[w].event
<1> USE DEF IInv
<1>1. /\ worker[w] \in Busy /\ e \in Events /\ row[e] \in Rows
  BY BusyType DEF Step, At, Claim, ClaimLost, Commit, Renew, LeaseLost,
     HandlerFails, MarkProcessed, MarkFailed, Flag, Crash, RowOf
<1>2. CASE Commit(w)
  <2>1. /\ worker'[w].pc = "handling" /\ worker[w].pc = "handling"
        /\ worker'[w].event = e
        /\ worker'[w].token = worker[w].token
        /\ worker'[w].step = worker[w].step + 1
        /\ \A v \in Workers \ {w} : worker'[v] = worker[v]
    BY <1>1, <1>2 DEF Commit, Advanced, TypeOK, Busy, At
  <2>2. /\ row' = row
        /\ applied'[e] = applied[e] + 1
        /\ \A d \in Events \ {e} : applied'[d] = applied[d]
        /\ HoldsToken(w) /\ row[e].status = "PROCESSING"
    BY <1>1, <1>2 DEF Commit, TypeOK, Fence, RowOf
  <2>3. TokensCount' /\ TokensMinted' /\ TokensUnique'
    BY <2>1, <2>2, TokensKept DEF Handles
  <2>4. HolderUnsettled'
    BY <2>1, <2>2 DEF HolderUnsettled, Handles, HoldsToken, RowOf
  <2>5. ASSUME NEW v \in Workers, v # w, Handles(v), worker[v].event = e
        PROVE  ~HoldsToken(v)
    BY <2>5, <2>1, <2>2 DEF TokensUnique, Handles, HoldsToken, RowOf
  <2>6. HolderApplied'
    <3> SUFFICES ASSUME NEW v \in Workers, At(v, "handling")', HoldsToken(v)'
                 PROVE  applied'[worker'[v].event] = worker'[v].step
      BY DEF HolderApplied
    <3>1. CASE v = w
      BY <3>1, <2>1, <2>2 DEF HolderApplied, At
    <3>2. CASE v # w
      <4>1. At(v, "handling") /\ HoldsToken(v) /\ worker[v].event \in Events
        BY <3>2, <2>1, <2>2, BusyType DEF At, HoldsToken, RowOf
      <4>2. worker[v].event # e
        BY <4>1, <3>2, <2>5 DEF Handles, At
      <4> QED
        BY <4>1, <4>2, <3>2, <2>1, <2>2 DEF HolderApplied
    <3> QED
      BY <3>1, <3>2
  <2>7. ClaimantFresh' /\ ProcessedApplied'
    BY <2>1, <2>2 DEF ClaimantFresh, ProcessedApplied, At
  <2> QED
    BY <2>3, <2>4, <2>6, <2>7
<1>3. CASE Renew(w)
  <2>1. /\ worker'[w].pc = "handling" /\ worker[w].pc = "handling"
        /\ worker'[w].event = e
        /\ worker'[w].token = worker[w].token
        /\ worker'[w].step = worker[w].step
        /\ \A v \in Workers \ {w} : worker'[v] = worker[v]
    BY <1>1, <1>3 DEF Renew, TypeOK, Busy, At
  <2>2. /\ applied' = applied
        /\ \A d \in Events : /\ row'[d].status = row[d].status
                             /\ row'[d].leaseToken = row[d].leaseToken
                             /\ row'[d].attemptCount = row[d].attemptCount
    BY <1>1, <1>3 DEF Renew, TypeOK, Rows
  <2>3. TokensCount' /\ TokensMinted' /\ TokensUnique'
    BY <2>1, <2>2, TokensKept DEF Handles
  <2>4. \A v \in Workers : Handles(v) => worker[v].event \in Events
    BY BusyType DEF Handles
  <2>5. HolderUnsettled' /\ HolderApplied'
    BY <2>1, <2>2, <2>4 DEF HolderUnsettled, HolderApplied, Handles, At, HoldsToken, RowOf
  <2>6. ClaimantFresh' /\ ProcessedApplied'
    BY <2>1, <2>2 DEF ClaimantFresh, ProcessedApplied, At
  <2> QED
    BY <2>3, <2>5, <2>6
<1>4. CASE LeaseLost(w) \/ HandlerFails(w)
  <2>1. /\ worker'[w].pc = "failing" /\ worker[w].pc = "handling"
        /\ worker'[w].event = e
        /\ worker'[w].token = worker[w].token
        /\ \A v \in Workers \ {w} : worker'[v] = worker[v]
        /\ row' = row /\ applied' = applied
    <3>1. /\ worker' = [worker EXCEPT ![w] = Thrown(worker[w])]
          /\ worker[w].pc = "handling"
          /\ row' = row /\ applied' = applied
      BY <1>4 DEF LeaseLost, HandlerFails, Throws, At
    <3>2. /\ Thrown(worker[w]).pc = "failing"
          /\ Thrown(worker[w]).event = e
          /\ Thrown(worker[w]).token = worker[w].token
      BY <1>1 DEF Thrown, Busy
    <3> QED
      BY <3>1, <3>2 DEF TypeOK
  <2>2. TokensCount' /\ TokensMinted' /\ TokensUnique'
    BY <2>1, TokensKept DEF Handles
  <2>3. HolderUnsettled' /\ HolderApplied' /\ ClaimantFresh' /\ ProcessedApplied'
    BY <2>1 DEF HolderUnsettled, HolderApplied, ClaimantFresh, ProcessedApplied,
       Handles, At, HoldsToken, RowOf
  <2> QED
    BY <2>2, <2>3
<1>5. CASE MarkProcessed(w) \/ MarkFailed(w)
  <2>1. /\ worker'[w].pc \in {"idle", "failed"}
        /\ Handles(w)
        /\ \A v \in Workers \ {w} : worker'[v] = worker[v]
        /\ applied' = applied
    BY <1>1, <1>5 DEF MarkProcessed, MarkFailed, Ends, Idle, Handles, TypeOK, Busy, At
  <2>2. /\ \A d \in Events : /\ row'[d].leaseToken = row[d].leaseToken
                             /\ row'[d].attemptCount = row[d].attemptCount
                             /\ d # e \/ ~HoldsToken(w) => row'[d].status = row[d].status
    <3>1. PICK r : /\ \/ r = [row[e] EXCEPT !.status = "PROCESSED"]
                      \/ r = FailedRow(row[e])
                   /\ row' = IF HoldsToken(w) THEN [row EXCEPT ![e] = r] ELSE row
      <4>1. CASE MarkProcessed(w)
        BY <4>1 DEF MarkProcessed
      <4>2. CASE MarkFailed(w)
        BY <4>2 DEF MarkFailed, RowOf
      <4> QED
        BY <1>5, <4>1, <4>2
    <3>2. r.leaseToken = row[e].leaseToken /\ r.attemptCount = row[e].attemptCount
      BY <1>1, <3>1 DEF FailedRow, Rows
    <3> QED
      BY <1>1, <3>1, <3>2 DEF TypeOK
  <2>3. TokensCount' /\ TokensMinted' /\ TokensUnique'
    BY <2>1, <2>2, TokensKept DEF Handles
  <2>4. ASSUME NEW v \in Workers, v # w, Handles(v), HoldsToken(v)
        PROVE  worker[v].event # e \/ ~HoldsToken(w)
    BY <2>4, <2>1 DEF TokensUnique, Handles, HoldsToken, RowOf
  <2>5. \A v \in Workers : Handles(v) => worker[v].event \in Events
    BY BusyType DEF Handles
  <2>6. HolderUnsettled'
    <3> SUFFICES ASSUME NEW v \in Workers, Handles(v)', HoldsToken(v)'
                 PROVE  RowOf(v)'.status = "PROCESSING"
      BY DEF HolderUnsettled
    <3>1. v # w /\ Handles(v) /\ HoldsToken(v) /\ worker[v].event \in Events
      BY <2>1, <2>2, <2>5 DEF Handles, HoldsToken, RowOf
    <3>2. RowOf(v)'.status = RowOf(v).status
      BY <3>1, <2>1, <2>2, <2>4 DEF RowOf
    <3> QED
      BY <3>1, <3>2 DEF HolderUnsettled
  <2>7. HolderApplied' /\ ClaimantFresh'
    BY <2>1, <2>2, <2>5 DEF HolderApplied, ClaimantFresh, Handles, At, HoldsToken, RowOf
  <2>8. ProcessedApplied'
    <3> SUFFICES ASSUME NEW d \in Events, row'[d].status = "PROCESSED",
                        row[d].status # "PROCESSED"
                 PROVE  applied'[d] = Steps
      BY <2>1 DEF ProcessedApplied
    <3>1. d = e /\ HoldsToken(w)
      BY <2>2
    <3>2. MarkProcessed(w)
      <4>1. FailedRow(row[e]).status = "FAILED"
        BY <1>1 DEF FailedRow, Rows
      <4>2. ~MarkFailed(w)
        BY <3>1, <4>1, <1>1 DEF MarkFailed, TypeOK, RowOf
      <4> QED
        BY <1>5, <4>2
    <3> QED
      BY <3>1, <3>2, <2>1 DEF HolderApplied, MarkProcessed
  <2> QED
    BY <2>3, <2>6, <2>7, <2>8
<1>6. CASE ClaimLost(w) \/ Flag(w) \/ Crash(w)
  <2>1. /\ worker'[w].pc = "idle"
        /\ \A v \in Workers \ {w} : worker'[v] = worker[v]
        /\ row' = row /\ applied' = applied
    BY <1>6 DEF ClaimLost, Flag, Crash, Ends, Idle, TypeOK
  <2>2. TokensCount' /\ TokensMinted' /\ TokensUnique'
    BY <2>1, TokensKept DEF Handles
  <2>3. HolderUnsettled' /\ HolderApplied' /\ ClaimantFresh' /\ ProcessedApplied'
    BY <2>1 DEF HolderUnsettled, HolderApplied, ClaimantFresh, ProcessedApplied,
       Handles, At, HoldsToken, RowOf
  <2> QED
    BY <2>2, <2>3
<1> QED
  BY <1>2, <1>3, <1>4, <1>5, <1>6 DEF Step

\* Deliveries, selections and the clock claim nothing and settle nothing.
LEMMA OtherStep ==
  ASSUME IInv, TypeOK',
         \/ \E h \in Hooks, e \in Events : Deliver(h, e) \/ Redeliver(h, e)
         \/ \E c \in Crons, e \in Events : Select(c, e)
         \/ Tick
         \/ UNCHANGED vars
  PROVE  IInv'
<1> USE DEF IInv
<1>1. ASSUME NEW w \in Workers, NEW e \in Events,
             worker' = [worker EXCEPT ![w] = Claiming(e)], worker[w].pc = "idle",
             applied' = applied,
             \/ row' = row
             \/ row[e].status = "ABSENT" /\ row' = [row EXCEPT ![e].status = "RECEIVED"]
      PROVE  IInv'
  <2>1. /\ worker'[w].pc = "claiming" /\ worker'[w].step = 0
        /\ \A v \in Workers \ {w} : worker'[v] = worker[v]
    BY <1>1 DEF TypeOK, Claiming
  <2>2. \A d \in Events : /\ row'[d].leaseToken = row[d].leaseToken
                         /\ row'[d].attemptCount = row[d].attemptCount
                         /\ \/ row'[d].status = row[d].status
                            \/ row[d].status = "ABSENT" /\ row'[d].status = "RECEIVED"
    BY <1>1 DEF TypeOK, Rows
  <2>3. \A v \in Workers : Handles(v) => worker[v].event \in Events
    BY BusyType DEF Handles
  <2>4. TokensCount' /\ TokensMinted' /\ TokensUnique'
    BY <2>1, <2>2, TokensKept DEF Handles
  <2>5. HolderUnsettled'
    BY <2>1, <2>2, <2>3 DEF HolderUnsettled, Handles, HoldsToken, RowOf
  <2>6. HolderApplied' /\ ClaimantFresh'
    BY <1>1, <2>1, <2>2, <2>3 DEF HolderApplied, ClaimantFresh, Handles, At, HoldsToken, RowOf
  <2>7. ProcessedApplied'
    BY <1>1, <2>2 DEF ProcessedApplied
  <2> QED
    BY <2>4, <2>5, <2>6, <2>7
<1>2. CASE \E h \in Hooks, e \in Events : Deliver(h, e) \/ Redeliver(h, e)
  BY <1>1, <1>2 DEF Deliver, Redeliver, At, Workers
<1>3. CASE \E c \in Crons, e \in Events : Select(c, e)
  BY <1>1, <1>3 DEF Select, At, Workers
<1>4. CASE Tick \/ UNCHANGED vars
  <2>1. row' = row /\ worker' = worker /\ applied' = applied
    BY <1>4 DEF Tick, vars
  <2> QED
    BY <2>1 DEF TokensCount, TokensMinted, TokensUnique, HolderUnsettled, HolderApplied,
       ClaimantFresh, ProcessedApplied, Handles, At, HoldsToken, RowOf
<1> QED
  BY <1>2, <1>3, <1>4

LEMMA NextInv == IInv /\ [Next]_vars => IInv'
<1> SUFFICES ASSUME IInv, [Next]_vars PROVE IInv'
  OBVIOUS
<1>1. TypeOK'
  BY TypeStep
<1>2. ASSUME NEW w \in Workers, Step(w) PROVE IInv'
  BY <1>1, <1>2, ClaimStep, WorkStep
<1> QED
  BY <1>1, <1>2, OtherStep DEF Next

\* The ledger's types: among them, that no handler ever commits more
\* transactions than it has.
THEOREM TypeCorrect == Spec => []TypeOK
<1>1. IInv => TypeOK
  BY DEF IInv
<1> QED
  BY <1>1, InitInv, NextInv, PTL DEF Spec

\* A PROCESSED event had the whole of its handler committed under one claim.
THEOREM ProcessedMeansApplied == Spec => []ProcessedApplied
<1>1. IInv => ProcessedApplied
  BY DEF IInv
<1> QED
  BY <1>1, InitInv, NextInv, PTL DEF Spec

\* The fence admits one handler of an event at a time.
THEOREM OneLiveHandler == Spec => []SingleLiveHandler
<1>1. IInv => SingleLiveHandler
  BY DEF IInv, SingleLiveHandler, TokensUnique, Handles, At, Fence, HoldsToken, RowOf
<1> QED
  BY <1>1, InitInv, NextInv, PTL DEF Spec

\* No step changes a PROCESSED row or commits a transaction of its handler.
LEMMA SettledStep ==
  ASSUME IInv, [Next]_vars, NEW d \in Events, row[d].status = "PROCESSED"
  PROVE  row'[d] = row[d] /\ applied'[d] = applied[d]
<1> USE DEF IInv
<1>1. ASSUME NEW h \in Hooks, NEW e \in Events, Deliver(h, e) \/ Redeliver(h, e)
      PROVE  row'[d] = row[d] /\ applied'[d] = applied[d]
  BY <1>1 DEF Deliver, Redeliver, TypeOK
<1>2. ASSUME NEW w \in Workers, Step(w)
      PROVE  row'[d] = row[d] /\ applied'[d] = applied[d]
  <2> DEFINE e == worker[w].event
  <2>1. Handles(w) /\ e = d => ~HoldsToken(w)
    BY DEF HolderUnsettled, RowOf
  <2>2. CASE Claim(w)
    BY <2>2 DEF Claim, Claimable, RowOf, TypeOK
  <2>3. CASE Commit(w) \/ Renew(w)
    <3>1. e # d
      BY <2>1, <2>3 DEF Commit, Renew, Fence, Handles, At
    <3> QED
      BY <2>3, <3>1 DEF Commit, Renew, TypeOK
  <2>4. CASE MarkProcessed(w) \/ MarkFailed(w)
    <3>1. e # d \/ ~HoldsToken(w)
      BY <2>1, <2>4 DEF MarkProcessed, MarkFailed, Handles, At
    <3> QED
      BY <2>4, <3>1 DEF MarkProcessed, MarkFailed, TypeOK
  <2>5. CASE ClaimLost(w) \/ LeaseLost(w) \/ HandlerFails(w) \/ Flag(w) \/ Crash(w)
    BY <2>5 DEF ClaimLost, LeaseLost, HandlerFails, Flag, Crash
  <2> QED
    BY <1>2, <2>2, <2>3, <2>4, <2>5 DEF Step
<1> QED
  BY <1>1, <1>2 DEF Next, Select, Tick, vars

\* A PROCESSED event is never touched again, whatever slow workers still run.
THEOREM SettledForGood == Spec => CompletedQuiescent
<1>1. IInv /\ [Next]_vars =>
        [\A e \in Events : row[e].status = "PROCESSED"
          => row'[e] = row[e] /\ applied'[e] = applied[e]]_vars
  BY SettledStep
<1> QED
  BY <1>1, InitInv, NextInv, PTL DEF Spec, CompletedQuiescent

-----------------------------------------------------------------------------
\* The refinement.

\* Every step of the ledger is a step of the fenced task, or changes nothing
\* of it.
LEMMA TaskStep ==
  ASSUME IInv, [Next]_vars
  PROVE  [Task!Next]_(Task!vars)
<1> USE DEF IInv
<1> DEFINE done == [c \in Events |-> row[c].status = "PROCESSED"]
           owner == [c \in Events |-> row[c].leaseToken]
<1>1. ASSUME row' = row, applied' = applied
      PROVE  UNCHANGED Task!vars
  BY <1>1 DEF Task!vars
<1>2. ASSUME NEW h \in Hooks, NEW e \in Events, Deliver(h, e)
      PROVE  UNCHANGED Task!vars
  <2>1. \A c \in Events : /\ row'[c].leaseToken = row[c].leaseToken
                         /\ (row'[c].status = "PROCESSED") = (row[c].status = "PROCESSED")
    BY <1>2 DEF Deliver, TypeOK, Rows
  <2>2. done' = done /\ owner' = owner /\ applied' = applied
    BY <2>1, <1>2 DEF Deliver
  <2> QED
    BY <2>2 DEF Task!vars
<1>3. ASSUME NEW w \in Workers, Step(w)
      PROVE  [Task!Next]_(Task!vars)
  <2> DEFINE e == worker[w].event
  <2>0. /\ worker[w] \in Busy /\ e \in Events /\ row[e] \in Rows
    BY <1>3, BusyType DEF Step, At, Claim, ClaimLost, Commit, Renew, LeaseLost,
       HandlerFails, MarkProcessed, MarkFailed, Flag, Crash, RowOf
  <2>0a. PICK d \in Events : d = e
    BY <2>0
  <2>1. CASE Claim(w)
    <3> DEFINE r == ClaimedRow(row[e], row[e].attemptCount + 1)
    <3>1. /\ r.status = "PROCESSING" /\ r.leaseToken = row[e].leaseToken + 1
      BY <2>0 DEF ClaimedRow, Rows, TokensCount
    <3>2. /\ row' = [row EXCEPT ![e] = r]
          /\ applied' = [applied EXCEPT ![e] = 0]
          /\ row[e].status # "PROCESSED"
      BY <2>1 DEF Claim, Claimable, RowOf
    <3>3. done' = done /\ owner' = [owner EXCEPT ![e] = @ + 1]
      BY <2>0, <3>1, <3>2 DEF TypeOK
    <3>4. Task!Take(d)
      BY <2>0a, <3>2, <3>3 DEF Task!Take
    <3> QED
      BY <2>0a, <3>4 DEF Task!Next
  <2>2. CASE Commit(w)
    <3>1. /\ row' = row /\ row[e].status = "PROCESSING"
          /\ row[e].leaseToken > 0
          /\ applied[e] = worker[w].step /\ worker[w].step < Steps
          /\ applied' = [applied EXCEPT ![e] = @ + 1]
      BY <2>0, <2>2 DEF Commit, Fence, HoldsToken, RowOf, HolderApplied, TokensMinted,
         Handles, At, Busy, Rows
    <3>2. Task!Apply(d)
      BY <2>0a, <3>1 DEF Task!Apply
    <3> QED
      BY <2>0a, <3>2 DEF Task!Next
  <2>3. CASE Renew(w)
    <3>1. \A c \in Events : /\ row'[c].leaseToken = row[c].leaseToken
                           /\ row'[c].status = row[c].status
      BY <2>0, <2>3 DEF Renew, TypeOK, Rows
    <3>2. done' = done /\ owner' = owner /\ applied' = applied
      BY <3>1, <2>3 DEF Renew
    <3> QED
      BY <3>2 DEF Task!vars
  <2>4. CASE MarkProcessed(w)
    <3>1. CASE HoldsToken(w)
      <4>1. /\ row[e].status = "PROCESSING"
            /\ row[e].leaseToken > 0
            /\ applied[e] = Steps
        BY <2>0, <2>4, <3>1 DEF MarkProcessed, HoldsToken, RowOf, HolderApplied,
           HolderUnsettled, TokensMinted, Handles, At, Busy, Rows
      <4>2. /\ row'[e].status = "PROCESSED"
            /\ row'[e].leaseToken = row[e].leaseToken
            /\ \A c \in Events \ {e} : row'[c] = row[c]
            /\ applied' = applied
        BY <2>0, <2>4, <3>1 DEF MarkProcessed, TypeOK, Rows
      <4>3. done' = [done EXCEPT ![e] = TRUE] /\ owner' = owner
        BY <2>0, <4>2
      <4>4. Task!Finish(d)
        BY <2>0a, <4>1, <4>2, <4>3 DEF Task!Finish
      <4> QED
        BY <2>0a, <4>4 DEF Task!Next
    <3>2. CASE ~HoldsToken(w)
      BY <2>4, <3>2, <1>1 DEF MarkProcessed
    <3> QED
      BY <3>1, <3>2
  <2>5. CASE MarkFailed(w)
    <3>1. CASE HoldsToken(w)
      <4>1. row[e].status = "PROCESSING"
        BY <2>5, <3>1 DEF MarkFailed, RowOf, HolderUnsettled, Handles, At
      <4>2. /\ FailedRow(row[e]).status = "FAILED"
            /\ FailedRow(row[e]).leaseToken = row[e].leaseToken
        BY <2>0 DEF FailedRow, Rows
      <4>3. /\ row' = [row EXCEPT ![e] = FailedRow(row[e])]
            /\ applied' = applied
        BY <2>5, <3>1 DEF MarkFailed, RowOf
      <4>4. done' = done /\ owner' = owner
        BY <2>0, <4>1, <4>2, <4>3 DEF TypeOK
      <4> QED
        BY <4>3, <4>4 DEF Task!vars
    <3>2. CASE ~HoldsToken(w)
      BY <2>5, <3>2, <1>1 DEF MarkFailed
    <3> QED
      BY <3>1, <3>2
  <2>6. CASE ClaimLost(w) \/ LeaseLost(w) \/ HandlerFails(w) \/ Flag(w) \/ Crash(w)
    BY <2>6, <1>1 DEF ClaimLost, LeaseLost, HandlerFails, Flag, Crash
  <2> QED
    BY <1>3, <2>1, <2>2, <2>3, <2>4, <2>5, <2>6 DEF Step
<1> QED
  BY <1>1, <1>2, <1>3 DEF Next, Redeliver, Select, Tick, vars

\* The ledger of leases, tokens and clocks implements the fenced task: an
\* event is finished once, after one whole run of its handler.
THEOREM LedgerImplementsFencedTask == Spec => ImplementsFencedTask
<1>1. Init => Task!Init
  <2> SUFFICES ASSUME Init PROVE Task!Init
    OBVIOUS
  <2>1. \A e \in Events : row[e].status # "PROCESSED" /\ row[e].leaseToken = 0
    BY DEF Init, NoRow
  <2>2. [e \in Events |-> row[e].status = "PROCESSED"] = [e \in Events |-> FALSE]
    BY <2>1, Zenon
  <2>3. [e \in Events |-> row[e].leaseToken] = [e \in Events |-> 0]
    BY <2>1
  <2> QED
    BY <2>2, <2>3, Zenon DEF Init, Task!Init
<1>2. IInv /\ [Next]_vars => [Task!Next]_(Task!vars)
  BY TaskStep
<1> QED
  BY <1>1, <1>2, InitInv, NextInv, PTL DEF Spec, ImplementsFencedTask, Task!Spec

=============================================================================
