--------------------------------- MODULE MCTrips ---------------------------------
(***************************************************************************)
(* A small instance of Trips for TLC: two bookings of one vehicle, a claim *)
(* or dispute and an incident about the first one.                         *)
(***************************************************************************)
EXTENDS Trips, TLC

CONSTANTS r1, r2, c1, c2

OnFirst == (c1 :> r1) @@ (c2 :> r1)
OneOfEach == (c1 :> {"CLAIM", "DISPUTE"}) @@ (c2 :> {"INCIDENT"})


\* The release of one deposit, next to another booking of the vehicle that keeps
\* its own.
FirstReleases == hold[r2] \in {"NONE", "KEPT"}

=============================================================================
