----------------------------- MODULE VehicleCalendar -----------------------------
(***************************************************************************)
(* What the inventory of one vehicle promises: every reservation occupies  *)
(* at most one window of time, a window is taken only while it overlaps no *)
(* occupied one, and a reservation that gave its window up because it was  *)
(* terminated never occupies the vehicle again.  Booking implements it.    *)
(***************************************************************************)
EXTENDS Naturals

CONSTANTS
  Reservations,   \* the reservations of the vehicle
  Windows         \* pairs <<pickup, return>>

VARIABLES
  occupied,       \* occupied[r]: the windows r occupies, one or none
  terminated      \* reservations that may not be fulfilled any more

vars == <<occupied, terminated>>

Overlap(u, v) == u[1] < v[2] /\ v[1] < u[2]

Init ==
  /\ occupied = [r \in Reservations |-> {}]
  /\ terminated = {}

\* r takes w, giving up what it and the reservations of S occupied.
Take(r, w, S) ==
  /\ r \notin terminated
  /\ \A q \in Reservations \ (S \cup {r}) : \A v \in occupied[q] : ~Overlap(v, w)
  /\ occupied' = [q \in Reservations |->
                    IF q = r THEN {w} ELSE IF q \in S THEN {} ELSE occupied[q]]
  /\ UNCHANGED terminated

\* Windows are given up, and reservations are terminated.
Release(S) ==
  /\ terminated' \in SUBSET Reservations
  /\ terminated \subseteq terminated'
  /\ occupied' = [q \in Reservations |-> IF q \in S THEN {} ELSE occupied[q]]

Next ==
  \/ \E S \in SUBSET Reservations : Release(S)
  \/ \E r \in Reservations, w \in Windows, S \in SUBSET Reservations : Take(r, w, S)

Spec == Init /\ [][Next]_vars

=============================================================================
