------------------------------- MODULE FencedTask -------------------------------
(***************************************************************************)
(* What a fenced, retried task promises.  A task is taken by a sequence of *)
(* owners.  Taking it starts its effects afresh (they are idempotent, so   *)
(* the effects of an earlier owner are repeated, never relied upon); the   *)
(* effects of the current owner are applied one after the other; the task  *)
(* is finished only after all the effects of one owner, and nothing        *)
(* touches a finished task again.                                          *)
(*                                                                         *)
(* StripeEventLedger implements this specification with leases, tokens and *)
(* a clock.                                                                *)
(***************************************************************************)
EXTENDS Naturals

CONSTANTS
  Tasks,      \* the tasks
  Steps       \* the number of effects of a task

VARIABLES
  done,       \* done[t]: the task is finished
  owner,      \* owner[t]: the number of times the task was taken
  applied     \* applied[t]: the effects the current owner has applied

vars == <<done, owner, applied>>

Init ==
  /\ done = [t \in Tasks |-> FALSE]
  /\ owner = [t \in Tasks |-> 0]
  /\ applied = [t \in Tasks |-> 0]

Take(t) ==
  /\ ~done[t]
  /\ owner' = [owner EXCEPT ![t] = @ + 1]
  /\ applied' = [applied EXCEPT ![t] = 0]
  /\ UNCHANGED done

Apply(t) ==
  /\ ~done[t]
  /\ owner[t] > 0
  /\ applied[t] < Steps
  /\ applied' = [applied EXCEPT ![t] = @ + 1]
  /\ UNCHANGED <<done, owner>>

Finish(t) ==
  /\ ~done[t]
  /\ owner[t] > 0
  /\ applied[t] = Steps
  /\ done' = [done EXCEPT ![t] = TRUE]
  /\ UNCHANGED <<owner, applied>>

Next == \E t \in Tasks : Take(t) \/ Apply(t) \/ Finish(t)

Spec == Init /\ [][Next]_vars

=============================================================================
