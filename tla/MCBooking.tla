------------------------------- MODULE MCBooking -------------------------------
(***************************************************************************)
(* Instances of Booking for TLC.                                           *)
(***************************************************************************)
EXTENDS Booking, TLC

OneWindow == {<<1, 3>>}

\* Two overlapping windows.
TwoWindows == {<<1, 3>>, <<2, 4>>}

\* No drafts: requests by dates only.
NoOwners == [d \in {} |-> None]

\* All drafts are of the same customer.
SameOwner == [d \in Drafts |-> CHOOSE c \in Customers : TRUE]

\* The reservations that were ever made.
Used == {r \in Reservations : booking[r].status # "NONE"}

Ours(r) == \A d \in Drafts : booking[r].customer = DraftOwner[d]

\* Two halves in one run: two customers who use no drafts, one of them first,
\* and the customer of the drafts alone, up to the first payment: what follows
\* reads no draft.
DraftsOrPayments ==
  \/ /\ \A d \in Drafts : draft[d].revision = 0
     /\ Used # {} => \E r \in Used : Ours(r)
  \/ /\ \A r \in Reservations : booking[r].payment = "none"
     /\ \A r \in Used : Ours(r)

Symmetry == Permutations(Drafts) \cup Permutations(Reservations)

=============================================================================
