----------------------------- MODULE Booking_proofs -----------------------------
(***************************************************************************)
(* Theorems of Booking, for every number of customers, reservations,       *)
(* windows and drafts and every length of the deadlines.                   *)
(*                                                                         *)
(* The rows are independent of each other but for the dates, so the        *)
(* inductive invariant has two halves: Ledgered, what each row satisfies   *)
(* by itself, and NoDoubleBooking.  A step either only gives dates up      *)
(* (Shrinks) or takes them for one reservation after checking them         *)
(* (Acquires); that alone decides both NoDoubleBooking and the refinement  *)
(* of the calendar.                                                        *)
(***************************************************************************)
EXTENDS Booking, TLAPS

-----------------------------------------------------------------------------
(* The rows.                                                               *)

\* A row that exists has a customer and dates.
RowOK(b) ==
  \/ b = AbsentBooking
  \/ /\ b.status # "NONE"
     /\ b.customer \in Customers
     /\ b.window \in Windows

\* What links the fields of one row.
Ledgered(b) ==
  /\ b.status \in {"NONE", "CHECKOUT_HOLD"} => b.payment = "none"
  /\ b.refund # "none" => b.payment = "captured"
  /\ b.mandate => b.refund # "none"
  /\ b.status \in Cancelled => b.disposition # "OPEN"
  /\ b.disposition = "REFUND_REQUIRED" => b.payment = "captured" \/ b.status \in Cancelled
  /\ b.disposition = "TERMINATED" => b.status \in Cancelled \/ b.refund = "SUCCEEDED"
  /\ b.status = "DOCUMENTS_REQUIRED" /\ b.disposition = "OPEN" => MoneyAvailable(b)
  /\ b.payment = "captured" =>
       /\ b.disposition = "OPEN" => b.status \in Durable
       /\ b.status = "EXPIRED" => b.refund # "none" \/ b.disposition = "REVIEW"

Sound(b) == b \in Bookings /\ RowOK(b) /\ Ledgered(b)

RowsSound == \A r \in Reservations : Sound(booking[r])

\* The inductive invariant.
IInv == TypeOK /\ RowsSound /\ NoDoubleBooking

\* The updates that end a booking keep its row one of the table.
LEMMA EndedRow ==
  ASSUME NEW b \in Bookings, NEW status \in Statuses, NEW disposition \in Dispositions,
         NEW expiresAt \in Nat \cup {NoDeadline}
  PROVE  /\ [b EXCEPT !.status = status, !.expiresAt = expiresAt,
                      !.disposition = disposition] \in Bookings
         /\ [b EXCEPT !.disposition = disposition, !.expiresAt = expiresAt,
                      !.status = status] \in Bookings
  BY DEF Bookings

LEMMA RefundingRow ==
  ASSUME NEW b \in Bookings, NEW disposition \in Dispositions,
         NEW refund \in {"none", "PENDING", "SUCCEEDED", "FAILED"}
  PROVE  [b EXCEPT !.disposition = disposition, !.refund = refund] \in Bookings
  BY DEF Bookings

USE DEF NoDeadline, Transient, Durable, Cancelled, Recovery, Statuses, Dispositions

LEMMA AbsentSound == Sound(AbsentBooking)
  BY BookingAssumption DEF Sound, Bookings, RowOK, Ledgered, AbsentBooking, NewBooking,
     MoneyAvailable

LEMMA NewSound ==
  ASSUME NEW c \in Customers, NEW w \in Windows
  PROVE  Sound(NewBooking(c, w))
  BY BookingAssumption DEF Sound, Bookings, RowOK, Ledgered, NewBooking, MoneyAvailable

\* A row in use stays one whose customer and dates are known.
LEMMA InUse ==
  ASSUME NEW b, Sound(b), b.status # "NONE"
  PROVE  b.customer \in Customers /\ b.window \in Windows
  BY DEF Sound, RowOK, AbsentBooking, NewBooking

LEMMA GivenUpSound ==
  ASSUME NEW b, Sound(b), b.status # "NONE", b.status \notin Cancelled,
         b.disposition = "OPEN" => b.payment # "captured",
         b.payment = "captured" => b.refund # "none" \/ b.disposition = "REVIEW"
  PROVE  Sound(GivenUp(b))
<1> DEFINE c == GivenUp(b)
<1>1. b \in Bookings /\ b.customer \in Customers /\ b.window \in Windows
  BY InUse DEF Sound
<1>2. /\ c \in Bookings /\ c.status = "EXPIRED" /\ c.customer = b.customer
      /\ c.window = b.window /\ c.disposition = b.disposition /\ c.payment = b.payment
      /\ c.refund = b.refund /\ c.mandate = b.mandate
  BY <1>1 DEF GivenUp, Bookings
<1> HIDE DEF c
<1>3. RowOK(c)
  BY <1>1, <1>2 DEF RowOK
<1>4. Ledgered(c)
  BY <1>2 DEF Sound, Ledgered
<1> QED
  BY <1>2, <1>3, <1>4 DEF Sound, c

\* Once a refund is required of a captured payment, there is one.
LEMMA RefundRequiredRow ==
  ASSUME NEW b, b \in Bookings, b.status \notin {"NONE", "CHECKOUT_HOLD"},
         b.customer \in Customers, b.window \in Windows,
         b.payment = "captured", b.mandate => b.refund # "none"
  PROVE  /\ Sound(RefundRequired(b))
         /\ RefundRequired(b).status = b.status
         /\ RefundRequired(b).expiresAt = b.expiresAt
         /\ RefundRequired(b).window = b.window
         /\ RefundRequired(b).payment = "captured"
         /\ RefundRequired(b).disposition = "REFUND_REQUIRED"
         /\ RefundRequired(b).refund # "none"
<1> DEFINE c == RefundRequired(b)
<1>1. /\ c.status = b.status /\ c.expiresAt = b.expiresAt
      /\ c.window = b.window /\ c.customer = b.customer
      /\ c.payment = b.payment /\ c.disposition = "REFUND_REQUIRED"
  BY DEF RefundRequired, Bookings
<1>2. c.refund # "none"
  BY DEF RefundRequired, Bookings
<1>3. CASE ~b.mandate /\ b.refund \notin {"PENDING", "SUCCEEDED"}
  <2>1. c = [b EXCEPT !.disposition = "REFUND_REQUIRED", !.refund = "PENDING",
                      !.mandate = TRUE, !.reconciling = TRUE]
    BY <1>3 DEF RefundRequired, Bookings
  <2> QED
    BY <1>1, <1>2, <2>1 DEF Sound, Bookings, RowOK, Ledgered, MoneyAvailable
<1>4. CASE ~(~b.mandate /\ b.refund \notin {"PENDING", "SUCCEEDED"})
  <2>1. c = [b EXCEPT !.disposition = "REFUND_REQUIRED", !.refund = b.refund,
                      !.mandate = b.mandate, !.reconciling = b.reconciling]
    BY <1>4 DEF RefundRequired, Bookings
  <2> QED
    BY <1>1, <1>2, <2>1 DEF Sound, Bookings, RowOK, Ledgered, MoneyAvailable
<1> QED
  BY <1>3, <1>4

-----------------------------------------------------------------------------
(* The steps.                                                              *)

BlocksRow(b) ==
  \/ b.status \in Durable
  \/ b.status \in Transient /\ b.expiresAt > 0

\* Row b becomes c without taking dates and without being opened again.
Tame(b, c) ==
  /\ c.window = b.window
  /\ b.disposition # "OPEN" =>
       /\ c.disposition # "OPEN"
       /\ b.status \in Cancelled => c.status = b.status
  /\ BlocksRow(c) => BlocksRow(b)

Shrinks == \A r \in Reservations : Tame(booking[r], booking'[r])

\* r takes dates that nothing else occupies, those of old being given up.
Acquires(r, old) ==
  /\ booking[r].disposition = "OPEN"
  /\ booking'[r].disposition = "OPEN"
  /\ booking'[r].window \in Windows
  /\ BlocksRow(booking'[r])
  /\ \A q \in Reservations \ (old \cup {r}) :
       Blocks(q) => ~Overlap(booking[q].window, booking'[r].window)
  /\ \A q \in Reservations \ {r} :
       booking'[q] = IF q \in old THEN GivenUp(booking[q]) ELSE booking[q]
  /\ \A q \in old : booking[q].status = "CHECKOUT_HOLD"

\* What the proof needs to know of a step.
Takes == \E r \in Reservations, old \in SUBSET Reservations : Acquires(r, old)

Keeps == /\ booking' \in [Reservations -> Bookings]
         /\ RowsSound'
         /\ Shrinks \/ Takes

LEMMA SameTame == \A b : Tame(b, b)
  BY DEF Tame

LEMMA GivenUpTame ==
  ASSUME NEW b \in Bookings, b.status \notin Cancelled
  PROVE  Tame(b, GivenUp(b)) /\ ~BlocksRow(GivenUp(b))
  BY DEF Tame, BlocksRow, GivenUp, Bookings

\* An update of one row that takes no dates.
LEMMA OneRow ==
  ASSUME TypeOK, RowsSound, NEW r \in Reservations, NEW c,
         Sound(c), Tame(booking[r], c), Becomes(r, c)
  PROVE  Keeps
<1>1. /\ booking'[r] = c
      /\ \A q \in Reservations \ {r} : booking'[q] = booking[q]
  BY DEF TypeOK, Becomes
<1>2. booking' \in [Reservations -> Bookings]
  BY DEF TypeOK, Becomes, Sound
<1>3. RowsSound'
  BY <1>1 DEF RowsSound
<1>4. Shrinks
  BY <1>1, SameTame DEF Shrinks
<1> QED
  BY <1>2, <1>3, <1>4 DEF Keeps

\* No row changes.
LEMMA NoRowChange ==
  ASSUME TypeOK, RowsSound, UNCHANGED booking
  PROVE  Keeps
  BY SameTame DEF Keeps, TypeOK, RowsSound, Shrinks

\* The old hold is given up and, maybe, r is created.
LEMMA OldHold ==
  ASSUME TypeOK, RowsSound, NEW c \in Customers, NEW old \in Existing(c)
  PROVE  /\ old \in SUBSET Reservations
         /\ \A q \in old : /\ booking[q].status = "CHECKOUT_HOLD"
                            /\ Sound(GivenUp(booking[q]))
                            /\ Tame(booking[q], GivenUp(booking[q]))
<1>1. old \in SUBSET HoldsOf(c)
  BY DEF Existing
<1>2. \A q \in HoldsOf(c) : /\ q \in Reservations
                            /\ booking[q].status = "CHECKOUT_HOLD"
                            /\ Sound(booking[q])
                            /\ booking[q] \in Bookings
  BY DEF HoldsOf, RowsSound, TypeOK
<1>3. ASSUME NEW q \in HoldsOf(c)
      PROVE  Sound(GivenUp(booking[q])) /\ Tame(booking[q], GivenUp(booking[q]))
  <2>1. booking[q].status = "CHECKOUT_HOLD" /\ Ledgered(booking[q])
    BY <1>2 DEF Sound
  <2>2. /\ booking[q].disposition = "OPEN" => booking[q].payment # "captured"
        /\ booking[q].payment = "captured" =>
             booking[q].refund # "none" \/ booking[q].disposition = "REVIEW"
    BY <2>1 DEF Ledgered
  <2> QED
    BY <1>2, <2>1, <2>2, GivenUpSound, GivenUpTame
<1> QED
  BY <1>1, <1>2, <1>3

-----------------------------------------------------------------------------
(* Holds.                                                                  *)

LEMMA RefreshKeeps ==
  ASSUME TypeOK, RowsSound, NEW c \in Customers, NEW d, NEW revision, NEW w,
         RefreshHold(c, d, revision, w)
  PROVE  Keeps
<1>1. PICK r \in HoldsOf(c) :
        /\ Extends({r}, w)
        /\ IF Available(w, {r})
           THEN Becomes(r, [booking[r] EXCEPT !.expiresAt = HoldTTL])
           ELSE UNCHANGED booking
  BY DEF RefreshHold
<1> DEFINE b == booking[r]
           e == [b EXCEPT !.expiresAt = HoldTTL]
<1>2. /\ r \in Reservations /\ Sound(b) /\ b.status = "CHECKOUT_HOLD" /\ b.expiresAt > 0
  BY <1>1 DEF HoldsOf, RowsSound, Extends, Live
<1>3. CASE Available(w, {r})
  <2>1. Sound(e)
    BY <1>2, BookingAssumption, InUse DEF Sound, Bookings, RowOK, Ledgered, MoneyAvailable
  <2>2. Tame(b, e)
    BY <1>2 DEF Tame, BlocksRow, Sound, Bookings
  <2> QED
    BY <1>1, <1>2, <1>3, <2>1, <2>2, OneRow
<1>4. CASE ~Available(w, {r})
  BY <1>1, <1>4, NoRowChange
<1> QED
  BY <1>3, <1>4

LEMMA PlaceKeeps ==
  ASSUME TypeOK, RowsSound, NEW c \in Customers, NEW d, NEW revision, NEW w \in Windows,
         PlaceHold(c, d, revision, w)
  PROVE  Keeps
<1>1. PICK old \in Existing(c), r \in Reservations :
        /\ Available(w, old)
        /\ booking[r].status = "NONE"
        /\ booking' = [q \in Reservations |->
                         IF q = r THEN NewBooking(c, w)
                         ELSE IF q \in old THEN GivenUp(booking[q]) ELSE booking[q]]
  BY DEF PlaceHold
<1>2. /\ old \in SUBSET Reservations
      /\ \A q \in old : booking[q].status = "CHECKOUT_HOLD" /\ Sound(GivenUp(booking[q]))
  BY OldHold
<1>3. r \notin old /\ booking[r] = AbsentBooking
  BY <1>1, <1>2 DEF TypeOK
<1>4. Sound(NewBooking(c, w))
  BY NewSound
<1>5. booking' \in [Reservations -> Bookings]
  BY <1>1, <1>2, <1>4 DEF Sound, TypeOK
<1>6. RowsSound'
  BY <1>1, <1>2, <1>4 DEF RowsSound
<1>7. /\ booking'[r] = NewBooking(c, w)
      /\ booking'[r].window = w /\ booking'[r].disposition = "OPEN"
      /\ BlocksRow(booking'[r])
  BY <1>1, BookingAssumption DEF NewBooking, BlocksRow
<1>8. booking[r].disposition = "OPEN"
  BY <1>3 DEF AbsentBooking, NewBooking
<1>9. \A q \in Reservations \ (old \cup {r}) :
        Blocks(q) => ~Overlap(booking[q].window, w)
  BY <1>1 DEF Available
<1>10. \A q \in Reservations \ {r} :
         booking'[q] = IF q \in old THEN GivenUp(booking[q]) ELSE booking[q]
  BY <1>1
<1>11. Acquires(r, old)
  BY <1>2, <1>7, <1>8, <1>9, <1>10 DEF Acquires
<1> QED
  BY <1>2, <1>5, <1>6, <1>11 DEF Keeps, Takes

LEMMA RefuseKeeps ==
  ASSUME TypeOK, RowsSound, NEW c \in Customers, NEW d, NEW revision, NEW w,
         RefuseHold(c, d, revision, w)
  PROVE  Keeps
<1>1. PICK old \in Existing(c) :
        booking' = [q \in Reservations |->
                     IF q \in old THEN GivenUp(booking[q]) ELSE booking[q]]
  BY DEF RefuseHold
<1>2. \A q \in old : /\ q \in Reservations
                     /\ Sound(GivenUp(booking[q]))
                     /\ Tame(booking[q], GivenUp(booking[q]))
  BY OldHold
<1>3. booking' \in [Reservations -> Bookings]
  BY <1>1, <1>2 DEF Sound, TypeOK
<1>4. RowsSound'
  BY <1>1, <1>2 DEF RowsSound
<1>5. Shrinks
  BY <1>1, <1>2, SameTame DEF Shrinks
<1> QED
  BY <1>3, <1>4, <1>5 DEF Keeps

LEMMA RequestKeeps ==
  ASSUME TypeOK, RowsSound, NEW c \in Customers, NEW d, NEW revision, NEW w \in Windows,
         Request(c, d, revision, w)
  PROVE  Keeps
  BY RefreshKeeps, PlaceKeeps, RefuseKeeps DEF Request

-----------------------------------------------------------------------------
(* Checkout, payment and confirmation.                                     *)

LEMMA CheckoutKeeps ==
  ASSUME TypeOK, RowsSound, NEW r \in Reservations, Checkout(r)
  PROVE  Keeps
<1> DEFINE b == booking[r]
           c == [b EXCEPT !.status = "AWAITING_PAYMENT",
                          !.expiresAt = CheckoutTTL, !.checkedOut = TRUE]
<1>1. /\ Sound(b) /\ b.status = "CHECKOUT_HOLD" /\ b.disposition = "OPEN"
      /\ b.expiresAt > 0 /\ Becomes(r, c)
  BY DEF Checkout, RowsSound, Live
<1>2. Sound(c)
  BY <1>1, BookingAssumption, InUse DEF Sound, Bookings, RowOK, Ledgered, MoneyAvailable
<1>3. Tame(b, c)
  BY <1>1 DEF Tame, BlocksRow, Sound, Bookings
<1> QED
  BY <1>1, <1>2, <1>3, OneRow

LEMMA PaymentKeeps ==
  ASSUME TypeOK, RowsSound, NEW r \in Reservations,
         CreateRentalPayment(r) \/ CustomerPays(r)
  PROVE  Keeps
<1> DEFINE b == booking[r]
<1>1. PICK p \in {"created", "paid"} :
        /\ Becomes(r, [b EXCEPT !.payment = p])
        /\ \/ b.status = "AWAITING_PAYMENT" /\ b.payment = "none"
           \/ b.payment = "created"
  BY DEF CreateRentalPayment, CustomerPays
<1>2. Sound(b)
  BY DEF RowsSound
<1>3. Sound([b EXCEPT !.payment = p])
  BY <1>1, <1>2, InUse DEF Sound, Bookings, RowOK, Ledgered, MoneyAvailable
<1>4. Tame(b, [b EXCEPT !.payment = p])
  BY <1>2 DEF Tame, BlocksRow, Sound, Bookings
<1> QED
  BY <1>1, <1>3, <1>4, OneRow

\* Requiring a refund, with or without giving the dates up, is tame.
LEMMA RefundTame ==
  ASSUME NEW b, Sound(b), b.payment \in {"paid", "captured"}
  PROVE  LET c == RefundRequired(Captured(b))
         IN  /\ Sound(c) /\ Tame(b, c)
             /\ b.status \notin Cancelled => Sound(GivenUp(c)) /\ Tame(b, GivenUp(c))
<1> DEFINE d == Captured(b)
           c == RefundRequired(d)
<1>1. /\ b \in Bookings /\ b.status \notin {"NONE", "CHECKOUT_HOLD"}
      /\ b.mandate => b.refund # "none"
  BY DEF Sound, Ledgered
<1>2. /\ d \in Bookings /\ d.status = b.status /\ d.expiresAt = b.expiresAt
      /\ d.window = b.window /\ d.customer = b.customer /\ d.payment = "captured"
      /\ d.mandate = b.mandate /\ d.refund = b.refund
  BY <1>1 DEF Captured, Bookings
<1>3. d.customer \in Customers /\ d.window \in Windows
  BY <1>1, <1>2, InUse
<1>4. /\ Sound(c) /\ c.status = b.status /\ c.expiresAt = b.expiresAt
      /\ c.window = b.window /\ c.payment = "captured"
      /\ c.disposition = "REFUND_REQUIRED" /\ c.refund # "none"
  BY <1>1, <1>2, <1>3, RefundRequiredRow
<1>5. Tame(b, c)
  BY <1>4 DEF Tame, BlocksRow
<1>6. ASSUME b.status \notin Cancelled
      PROVE  Sound(GivenUp(c)) /\ Tame(b, GivenUp(c))
  <2>1. Sound(GivenUp(c))
    BY <1>1, <1>4, <1>6, GivenUpSound
  <2>2. /\ GivenUp(c).status = "EXPIRED" /\ GivenUp(c).window = b.window
        /\ GivenUp(c).disposition = "REFUND_REQUIRED"
    BY <1>4 DEF GivenUp, Sound, Bookings
  <2> QED
    BY <1>6, <2>1, <2>2 DEF Tame, BlocksRow
<1> QED
  BY <1>4, <1>5, <1>6

LEMMA ObserveKeeps ==
  ASSUME TypeOK, RowsSound, NEW r \in Reservations, ObserveCapture(r)
  PROVE  Keeps
<1> DEFINE b == booking[r]
           d == Captured(b)
           c == Fulfilment(r)
<1>1. /\ Sound(b) /\ b \in Bookings /\ b.payment \in {"paid", "captured"} /\ Becomes(r, c)
      /\ b.status \notin {"NONE", "CHECKOUT_HOLD"}
  BY DEF ObserveCapture, RowsSound, Sound, Ledgered
<1>2. /\ d \in Bookings /\ d.status = b.status /\ d.expiresAt = b.expiresAt
      /\ d.window = b.window /\ d.customer = b.customer /\ d.payment = "captured"
      /\ d.disposition = b.disposition /\ d.refund = b.refund /\ d.mandate = b.mandate
  BY <1>1 DEF Captured, Bookings
<1>3. b.customer \in Customers /\ b.window \in Windows
  BY <1>1, InUse
<1>4. CASE c = d /\ b.disposition # "REFUND_REQUIRED" /\ ~Recoverable(d)
  <2>1. Sound(d)
    <3>1. RowOK(d)
      BY <1>1, <1>2, <1>3 DEF RowOK
    <3>2. Ledgered(d)
      <4>1. b.disposition = "OPEN" => b.status = "DOCUMENTS_REQUIRED"
        BY <1>1, <1>2, <1>4 DEF Recoverable, Sound, Ledgered, Bookings
      <4>2. b.status = "EXPIRED" => b.refund # "none" \/ b.disposition = "REVIEW"
        BY <1>1, <1>2, <1>4 DEF Recoverable, Sound, Ledgered, Bookings
      <4> QED
        BY <1>1, <1>2, <4>1, <4>2 DEF Sound, Ledgered, MoneyAvailable
    <3> QED
      BY <1>2, <3>1, <3>2 DEF Sound
  <2>2. Tame(b, d)
    BY <1>2 DEF Tame, BlocksRow
  <2> QED
    BY <1>1, <1>4, <2>1, <2>2, OneRow
<1>5. CASE c = RefundRequired(d)
  BY <1>1, <1>5, RefundTame, OneRow
<1>6. CASE c = GivenUp(RefundRequired(d)) /\ Recoverable(d)
  BY <1>1, <1>2, <1>6, RefundTame, OneRow DEF Recoverable
<1>7. CASE /\ Recoverable(d) /\ ~TooLate(r)
           /\ \E late \in BOOLEAN :
                c = [d EXCEPT !.status = "PAYMENT_FAILED",
                              !.expiresAt = RecoveryDeadline(d), !.reconciling = late]
  <2>1. RecoveryDeadline(d) \in Nat \cup {NoDeadline}
    BY <1>2, BookingAssumption DEF RecoveryDeadline, Bookings
  <2>2. /\ c \in Bookings /\ c.status = "PAYMENT_FAILED" /\ c.window = b.window
        /\ c.customer = b.customer /\ c.payment = "captured"
        /\ c.disposition = "OPEN" /\ c.refund = b.refund /\ c.mandate = b.mandate
    <3>1. PICK late \in BOOLEAN :
            c = [d EXCEPT !.status = "PAYMENT_FAILED",
                          !.expiresAt = RecoveryDeadline(d), !.reconciling = late]
      BY <1>7
    <3>2. "PAYMENT_FAILED" \in Statuses /\ d \in Bookings
      BY <1>2
    <3>3. d.payment = "captured" /\ d.disposition = "OPEN"
      BY <1>2, <1>7 DEF Recoverable
    <3>4. /\ d.window = b.window /\ d.customer = b.customer
          /\ d.refund = b.refund /\ d.mandate = b.mandate
      BY <1>2
    <3> HIDE DEF c, d
    <3>5. c \in Bookings
      BY <2>1, <3>1, <3>2, Zenon DEF Bookings
    <3>6. /\ c.status = "PAYMENT_FAILED" /\ c.window = d.window /\ c.customer = d.customer
          /\ c.payment = d.payment /\ c.disposition = d.disposition
          /\ c.refund = d.refund /\ c.mandate = d.mandate
      BY <3>1, <3>2 DEF Bookings
    <3> QED
      BY <3>3, <3>4, <3>5, <3>6
  <2>3. Sound(c)
    <3> HIDE DEF c
    <3>1. RowOK(c)
      BY <1>3, <2>2 DEF RowOK
    <3>2. Ledgered(c)
      BY <1>1, <2>2 DEF Sound, Ledgered
    <3> QED
      BY <2>2, <3>1, <3>2 DEF Sound
  <2>4. \A q \in Reservations \ {r} : Blocks(q) => ~Overlap(booking[q].window, b.window)
    BY <1>7 DEF TooLate, Available
  <2>5. /\ booking'[r] = c
        /\ \A q \in Reservations \ {r} : booking'[q] = booking[q]
        /\ booking' \in [Reservations -> Bookings]
    BY <1>1, <2>2 DEF Becomes, TypeOK
  <2>6. Acquires(r, {})
    BY <1>2, <1>3, <1>7, <2>2, <2>4, <2>5 DEF Acquires, BlocksRow, Recoverable
  <2>7. RowsSound'
    BY <2>3, <2>5 DEF RowsSound
  <2> QED
    BY <2>5, <2>6, <2>7 DEF Keeps, Takes
<1>8. QED
  <2>1. d.reconciling \in BOOLEAN
    BY <1>2 DEF Bookings
  <2> QED
    BY <1>2, <1>4, <1>5, <1>6, <1>7, <2>1 DEF Fulfilment

LEMMA CapturedAgain ==
  ASSUME NEW b \in Bookings, b.payment = "captured"
  PROVE  Captured(b) = b
  BY DEF Captured, Bookings

LEMMA ConfirmKeeps ==
  ASSUME TypeOK, RowsSound, NEW r \in Reservations, Confirm(r)
  PROVE  Keeps
<1> DEFINE b == booking[r]
           c == [b EXCEPT !.status = "DOCUMENTS_REQUIRED",
                          !.expiresAt = NoDeadline, !.reconciling = FALSE]
<1>1. /\ Sound(b) /\ b \in Bookings /\ Captured(b) = b
      /\ b.status = "PAYMENT_FAILED" /\ b.disposition = "OPEN" /\ b.payment = "captured"
  BY CapturedAgain DEF Confirm, RowsSound, Sound
<1>2. CASE Becomes(r, RefundRequired(b)) \/ Becomes(r, GivenUp(RefundRequired(b)))
  BY <1>1, <1>2, RefundTame, OneRow
<1>3. CASE MoneyAvailable(b) /\ Becomes(r, c)
  <2>1. Sound(c)
    BY <1>1, <1>3, InUse DEF Sound, Bookings, RowOK, Ledgered, MoneyAvailable
  <2>2. Tame(b, c)
    BY <1>1 DEF Tame, BlocksRow, Bookings
  <2> QED
    BY <1>3, <2>1, <2>2, OneRow
<1> QED
  BY <1>2, <1>3 DEF Confirm

-----------------------------------------------------------------------------
(* Expiry, cancellation, refunds.                                          *)

LEMMA ExpireKeeps ==
  ASSUME TypeOK, RowsSound, NEW r \in Reservations, Expire(r)
  PROVE  Keeps
<1> DEFINE b == booking[r]
<1>1. /\ Sound(b) /\ b \in Bookings
      /\ b.status \in {"CHECKOUT_HOLD", "AWAITING_PAYMENT", "PAYMENT_FAILED"}
  BY DEF Expire, RowsSound, Sound
<1>2. CASE b.payment = "captured"
  <2>1. Becomes(r, GivenUp(RefundRequired(Captured(b))))
    BY <1>1, <1>2, CapturedAgain DEF Expire
  <2> QED
    BY <1>1, <1>2, <2>1, RefundTame, OneRow
<1>3. CASE b.payment # "captured"
  <2>1. Becomes(r, GivenUp(b))
    BY <1>3 DEF Expire
  <2> QED
    BY <1>1, <1>3, <2>1, GivenUpSound, GivenUpTame, OneRow
<1> QED
  BY <1>2, <1>3

LEMMA CancelKeeps ==
  ASSUME TypeOK, RowsSound, NEW r \in Reservations, Cancel(r)
  PROVE  Keeps
<1> DEFINE b == booking[r]
<1>1. PICK status \in Cancelled : Becomes(r, CancelledAs(b, status))
  BY DEF Cancel
<1> DEFINE c == CancelledAs(b, status)
<1>2. Sound(b) /\ b \in Bookings /\ b.status \in Transient \cup Durable
  BY DEF Cancel, Cancellable, RowsSound, Sound
<1>3. /\ c \in Bookings /\ c.status = status /\ c.window = b.window
      /\ c.customer = b.customer /\ c.payment = b.payment
      /\ c.refund = b.refund /\ c.mandate = b.mandate
      /\ c.disposition \in {"TERMINATED", "REFUND_REQUIRED"}
  <2> DEFINE disposition == IF b.status = "DOCUMENTS_REQUIRED"
                            THEN "TERMINATED" ELSE "REFUND_REQUIRED"
  <2>1. /\ b \in Bookings /\ status \in Statuses
        /\ NoDeadline \in Nat \cup {NoDeadline}
        /\ disposition \in Dispositions /\ disposition \in {"TERMINATED", "REFUND_REQUIRED"}
    BY <1>2
  <2>2. c = [b EXCEPT !.status = status, !.expiresAt = NoDeadline,
                      !.disposition = disposition]
    BY ZenonT(60) DEF CancelledAs
  <2> HIDE DEF c, disposition
  <2>3. c \in Bookings
    BY <2>1, <2>2, EndedRow
  <2> QED
    BY <2>1, <2>2, <2>3 DEF Bookings
<1>4. Sound(c)
  <2> HIDE DEF c
  <2>1. RowOK(c)
    BY <1>2, <1>3, InUse DEF RowOK
  <2>2. Ledgered(c)
    BY <1>2, <1>3 DEF Sound, Ledgered
  <2> QED
    BY <1>3, <2>1, <2>2 DEF Sound
<1>5. Tame(b, c)
  BY <1>2, <1>3 DEF Tame, BlocksRow
<1> QED
  BY <1>1, <1>4, <1>5, OneRow

LEMMA SettleKeeps ==
  ASSUME TypeOK, RowsSound, NEW r \in Reservations, Settle(r)
  PROVE  Keeps
  BY RefundTame, OneRow, CapturedAgain DEF Settle, RowsSound, Sound

LEMMA StaffRefundKeeps ==
  ASSUME TypeOK, RowsSound, NEW r \in Reservations, StaffRefund(r)
  PROVE  Keeps
<1> DEFINE b == booking[r]
           c == [b EXCEPT !.disposition = "REFUND_REQUIRED", !.refund = "PENDING"]
<1>1. Sound(b) /\ MoneyAvailable(b) /\ Becomes(r, c)
  BY DEF StaffRefund, RowsSound
<1>2. Sound(c)
  <2>1. /\ c \in Bookings /\ c.status = b.status /\ c.customer = b.customer
        /\ c.window = b.window /\ c.disposition = "REFUND_REQUIRED"
        /\ c.payment = b.payment /\ c.refund = "PENDING" /\ c.mandate = b.mandate
    <3>1. b \in Bookings
      BY ZenonT(60), <1>1 DEF Sound
    <3>2. c \in Bookings
      BY <3>1, RefundingRow
    <3> QED
      BY <3>1, <3>2 DEF Bookings
  <2> HIDE DEF c
  <2>2. RowOK(c)
    BY <1>1, <2>1, InUse DEF RowOK, MoneyAvailable, Sound, Ledgered
  <2>3. Ledgered(c)
    BY <1>1, <2>1 DEF Sound, Ledgered, MoneyAvailable
  <2> QED
    BY <2>1, <2>2, <2>3 DEF Sound
<1>3. Tame(b, c)
  BY <1>1 DEF Tame, BlocksRow, Sound, Bookings
<1> QED
  BY <1>1, <1>2, <1>3, OneRow

LEMMA RefundSucceedsKeeps ==
  ASSUME TypeOK, RowsSound, NEW r \in Reservations, RefundSucceeds(r)
  PROVE  Keeps
<1> DEFINE b == booking[r]
           s == [b EXCEPT !.refund = "SUCCEEDED", !.reconciling = FALSE]
           t == [s EXCEPT !.disposition = "TERMINATED", !.expiresAt = NoDeadline,
                          !.status = IF b.status \in Cancelled
                                     THEN b.status ELSE "EXPIRED"]
<1>1. Sound(b) /\ b.refund = "PENDING" /\ b.payment = "captured"
  BY DEF RefundSucceeds, RowsSound, Sound, Ledgered
<1>2. /\ s \in Bookings /\ s.status = b.status /\ s.window = b.window
      /\ s.expiresAt = b.expiresAt /\ s.customer = b.customer
      /\ s.payment = "captured" /\ s.refund = "SUCCEEDED"
      /\ s.disposition = b.disposition
  BY ZenonT(60), <1>1 DEF Sound, Bookings
<1>3. Becomes(r, IF b.disposition = "REFUND_REQUIRED" THEN t ELSE s)
  BY <1>2 DEF RefundSucceeds
<1>4. CASE b.disposition = "REFUND_REQUIRED"
  <2>1. /\ t \in Bookings /\ t.window = b.window /\ t.customer = b.customer
        /\ t.payment = "captured" /\ t.refund = "SUCCEEDED"
        /\ t.disposition = "TERMINATED"
        /\ t.status = IF b.status \in Cancelled THEN b.status ELSE "EXPIRED"
    <3> DEFINE status == IF b.status \in Cancelled THEN b.status ELSE "EXPIRED"
    <3>1. status \in Statuses
      OBVIOUS
    <3>2. t = [s EXCEPT !.disposition = "TERMINATED", !.expiresAt = NoDeadline,
                        !.status = status]
      OBVIOUS
    <3> HIDE DEF s, status
    <3>3. /\ t \in Bookings /\ t.window = s.window /\ t.customer = s.customer
          /\ t.payment = s.payment /\ t.refund = s.refund
          /\ t.disposition = "TERMINATED" /\ t.status = status
      <4>1. t \in Bookings
        BY <1>2, <3>1, <3>2, EndedRow
      <4>2. /\ t.window = s.window /\ t.customer = s.customer
            /\ t.payment = s.payment /\ t.refund = s.refund
        BY <1>2, <3>2 DEF Bookings
      <4>3. t.disposition = "TERMINATED" /\ t.status = status
        BY <1>2, <3>2 DEF Bookings
      <4> QED
        BY <4>1, <4>2, <4>3
    <3> QED
      BY <1>2, <3>3 DEF status
  <2>2. Sound(t)
    BY <1>1, <2>1, InUse DEF Sound, RowOK, Ledgered, MoneyAvailable
  <2>3. Tame(b, t)
    BY <2>1 DEF Tame, BlocksRow
  <2> QED
    BY <1>3, <1>4, <2>2, <2>3, OneRow
<1>5. CASE b.disposition # "REFUND_REQUIRED"
  <2>1. Sound(s)
    BY <1>1, <1>2, <1>5, InUse DEF Sound, RowOK, Ledgered, MoneyAvailable
  <2>2. Tame(b, s)
    BY <1>2 DEF Tame, BlocksRow
  <2> QED
    BY <1>3, <1>5, <2>1, <2>2, OneRow
<1> QED
  BY <1>4, <1>5

LEMMA RefundFailsKeeps ==
  ASSUME TypeOK, RowsSound, NEW r \in Reservations, RefundFails(r)
  PROVE  Keeps
<1> DEFINE b == booking[r]
           c == [b EXCEPT !.refund = "FAILED"]
<1>1. Sound(b) /\ b.refund = "PENDING" /\ b.payment = "captured" /\ Becomes(r, c)
  BY DEF RefundFails, RowsSound, Sound, Ledgered
<1>2. Sound(c)
  BY <1>1, InUse DEF Sound, Bookings, RowOK, Ledgered, MoneyAvailable
<1>3. Tame(b, c)
  BY <1>1 DEF Tame, BlocksRow, Sound, Bookings
<1> QED
  BY <1>1, <1>2, <1>3, OneRow

LEMMA QuarantineKeeps ==
  ASSUME TypeOK, RowsSound, NEW r \in Reservations, Quarantine(r)
  PROVE  Keeps
<1> DEFINE b == booking[r]
           c == [b EXCEPT !.disposition = "REVIEW"]
<1>1. Sound(b) /\ b.payment # "none" /\ Becomes(r, c)
  BY DEF Quarantine, RowsSound
<1>2. Sound(c)
  BY <1>1, InUse DEF Sound, Bookings, RowOK, Ledgered, MoneyAvailable
<1>3. Tame(b, c)
  BY <1>1 DEF Tame, BlocksRow, Sound, Bookings
<1> QED
  BY <1>1, <1>2, <1>3, OneRow

LEMMA TickKeeps ==
  ASSUME TypeOK, RowsSound, Tick
  PROVE  Keeps
<1> DEFINE aged(r) == IF Live(r) THEN [booking[r] EXCEPT !.expiresAt = @ - 1]
                      ELSE booking[r]
<1>1. booking' = [r \in Reservations |-> aged(r)]
  BY DEF Tick
<1>2. ASSUME NEW r \in Reservations
      PROVE  Sound(aged(r)) /\ Tame(booking[r], aged(r))
  <2> DEFINE b == booking[r]
             c == [b EXCEPT !.expiresAt = b.expiresAt - 1]
  <2>1. Sound(b)
    BY DEF RowsSound
  <2>2. CASE Live(r)
    <3>0. AbsentBooking.expiresAt = -1
      BY DEF AbsentBooking, NewBooking
    <3>1. b.expiresAt > 0 /\ b # AbsentBooking
      BY <2>2, <3>0 DEF Live
    <3>2. aged(r) = c
      BY <2>2
    <3>3. Sound(c)
      BY <2>1, <3>1 DEF Sound, Bookings, RowOK, Ledgered, MoneyAvailable
    <3>4. Tame(b, c)
      BY <2>1, <3>1 DEF Tame, BlocksRow, Sound, Bookings
    <3> QED
      BY <3>2, <3>3, <3>4
  <2>3. CASE ~Live(r)
    BY <2>1, <2>3, SameTame
  <2> QED
    BY <2>2, <2>3
<1> HIDE DEF aged
<1>3. booking' \in [Reservations -> Bookings]
  BY <1>1, <1>2 DEF Sound
<1>4. RowsSound' /\ Shrinks
  BY <1>1, <1>2 DEF RowsSound, Shrinks
<1> QED
  BY <1>3, <1>4 DEF Keeps

LEMMA StepKeeps ==
  ASSUME TypeOK, RowsSound, [Next]_vars
  PROVE  Keeps
<1>1. ASSUME NEW c \in Customers, NEW d, NEW revision, NEW w \in Windows,
             Request(c, d, revision, w)
      PROVE  Keeps
  BY <1>1, RequestKeeps
<1>2. ASSUME NEW r \in Reservations, Progress(r)
      PROVE  Keeps
  BY <1>2, CheckoutKeeps, PaymentKeeps, ObserveKeeps, ConfirmKeeps, ExpireKeeps,
     CancelKeeps, SettleKeeps, StaffRefundKeeps, RefundSucceedsKeeps,
     RefundFailsKeeps, QuarantineKeeps DEF Progress
<1>3. CASE Tick
  BY <1>3, TickKeeps
<1>4. CASE ChangeSale \/ ChangeAdmission \/ UNCHANGED vars
  BY <1>4, NoRowChange DEF ChangeSale, ChangeAdmission, vars
<1> QED
  BY <1>1, <1>2, <1>3, <1>4 DEF Next

-----------------------------------------------------------------------------
(* The invariant.                                                          *)

LEMMA DraftTyped ==
  ASSUME TypeOK, NEW d \in Drafts \cup {None}, NEW revision \in 1..MaxRevision,
         NEW w \in Windows, NEW r \in Reservations \cup {None},
         \/ SaveDraft(d, revision, w)
         \/ SaveDraftWith(d, revision, w, r)
         \/ UNCHANGED draft
  PROVE  draft' \in [Drafts -> DraftRows]
<1>1. revision \in 0..MaxRevision
  BY BookingAssumption
<1>2. ASSUME d \in Drafts
      PROVE  [draft[d] EXCEPT !.revision = revision, !.fingerprint = w] \in DraftRows
  BY <1>1, <1>2 DEF TypeOK, DraftRows
<1>3. CASE SaveDraft(d, revision, w) /\ d # None
  <2> DEFINE row == [draft[d] EXCEPT !.revision = revision, !.fingerprint = w]
  <2>1. draft' = [draft EXCEPT ![d] = row]
    BY <1>3 DEF SaveDraft, TypeOK, DraftRows
  <2> QED
    BY <1>2, <1>3, <2>1 DEF TypeOK
<1>4. CASE SaveDraftWith(d, revision, w, r)
  BY <1>1, <1>4 DEF SaveDraftWith, TypeOK, DraftRows
<1>5. CASE UNCHANGED draft
  BY <1>5 DEF TypeOK
<1> QED
  BY <1>3, <1>4, <1>5 DEF SaveDraft

LEMMA TypeStep ==
  ASSUME TypeOK, RowsSound, [Next]_vars
  PROVE  TypeOK'
<1>1. booking' \in [Reservations -> Bookings] /\ RowsSound'
  BY StepKeeps DEF Keeps
<1>2. \A r \in Reservations :
        \/ booking'[r] = AbsentBooking
        \/ /\ booking'[r].status # "NONE"
           /\ booking'[r].customer \in Customers
           /\ booking'[r].window \in Windows
  BY <1>1 DEF RowsSound, Sound, RowOK
<1>3. draft' \in [Drafts -> DraftRows]
  <2>1. ASSUME NEW c \in Customers, NEW d \in Drafts \cup {None},
               NEW revision \in 1..MaxRevision, NEW w \in Windows,
               Request(c, d, revision, w)
        PROVE  draft' \in [Drafts -> DraftRows]
    <3>1. \E r \in Reservations \cup {None} :
            \/ SaveDraft(d, revision, w)
            \/ SaveDraftWith(d, revision, w, r)
            \/ UNCHANGED draft
      BY <2>1 DEF Request, RefreshHold, PlaceHold, RefuseHold, HoldsOf
    <3> QED
      BY <3>1, DraftTyped
  <2>2. ASSUME NEW r \in Reservations, Progress(r)
        PROVE  UNCHANGED draft
    BY <2>2 DEF Progress, Checkout, CreateRentalPayment, CustomerPays, ObserveCapture,
       Confirm, Expire, Cancel, Settle, StaffRefund, RefundSucceeds, RefundFails, Quarantine
  <2>3. CASE Tick \/ ChangeSale \/ ChangeAdmission \/ UNCHANGED vars
    BY <2>3 DEF Tick, ChangeSale, ChangeAdmission, vars, TypeOK
  <2> QED
    BY <2>1, <2>2, <2>3 DEF Next, TypeOK
<1>4. sale' \in {"open", "blocked", "inactive"} /\ admission' \in BOOLEAN
  <2>1. CASE UNCHANGED <<sale, admission>>
    BY <2>1 DEF TypeOK
  <2>2. CASE ChangeSale \/ ChangeAdmission
    BY <2>2 DEF ChangeSale, ChangeAdmission, TypeOK
  <2>3. ASSUME NEW r \in Reservations, Progress(r)
        PROVE  UNCHANGED <<sale, admission>>
    BY <2>3 DEF Progress, Checkout, CreateRentalPayment, CustomerPays, ObserveCapture,
       Confirm, Expire, Cancel, Settle, StaffRefund, RefundSucceeds, RefundFails, Quarantine
  <2>4. ASSUME NEW c, NEW d, NEW revision, NEW w, Request(c, d, revision, w)
        PROVE  UNCHANGED <<sale, admission>>
    BY <2>4 DEF Request, RefreshHold, PlaceHold, RefuseHold
  <2> QED
    BY <2>1, <2>2, <2>3, <2>4 DEF Next, Tick, vars
<1> QED
  BY <1>1, <1>2, <1>3, <1>4 DEF TypeOK

LEMMA DatesStep ==
  ASSUME IInv, Keeps
  PROVE  NoDoubleBooking'
<1> SUFFICES ASSUME NEW p \in Reservations, NEW q \in Reservations, p # q,
                    Blocks(p)', Blocks(q)'
             PROVE  ~Overlap(booking'[p].window, booking'[q].window)
  BY DEF NoDoubleBooking
<1>1. \A r \in Reservations : /\ Blocks(r) <=> BlocksRow(booking[r])
                              /\ Blocks(r)' <=> BlocksRow(booking'[r])
  BY DEF Blocks, BlocksRow, Live
<1>2. CASE Shrinks
  <2>1. /\ Blocks(p) /\ booking'[p].window = booking[p].window
        /\ Blocks(q) /\ booking'[q].window = booking[q].window
    BY <1>1, <1>2 DEF Shrinks, Tame
  <2> QED
    BY <2>1 DEF IInv, NoDoubleBooking
<1>3. CASE Takes
  <2>1. PICK r \in Reservations, old \in SUBSET Reservations : Acquires(r, old)
    BY <1>3 DEF Takes
  <2>2. ASSUME NEW o \in Reservations, o # r, Blocks(o)'
        PROVE  /\ Blocks(o) /\ booking'[o] = booking[o]
               /\ ~Overlap(booking[o].window, booking'[r].window)
               /\ ~Overlap(booking'[r].window, booking[o].window)
    <3>1. o \notin old
      <4>1. ASSUME o \in old PROVE FALSE
        <5>1. booking'[o] = GivenUp(booking[o]) /\ booking[o] \in Bookings
          BY <2>1, <2>2, <4>1 DEF Acquires, IInv, TypeOK
        <5>2. ~BlocksRow(booking'[o])
          BY <5>1 DEF BlocksRow, GivenUp, Bookings
        <5> QED
          BY <1>1, <2>2, <5>2
      <4> QED
        BY <4>1
    <3>2. booking'[o] = booking[o]
      BY <2>1, <2>2, <3>1 DEF Acquires
    <3>3. Blocks(o)
      BY <1>1, <2>2, <3>2
    <3>4. ~Overlap(booking[o].window, booking'[r].window)
      BY <2>1, <2>2, <3>1, <3>3 DEF Acquires
    <3> QED
      BY <3>2, <3>3, <3>4 DEF Overlap
  <2>3. CASE p = r
    BY <2>2, <2>3
  <2>4. CASE q = r
    BY <2>2, <2>4
  <2>5. CASE p # r /\ q # r
    BY <2>2, <2>5 DEF IInv, NoDoubleBooking
  <2> QED
    BY <2>3, <2>4, <2>5
<1> QED
  BY <1>2, <1>3 DEF Keeps

LEMMA InitInv == Init => IInv
<1> SUFFICES ASSUME Init PROVE IInv
  OBVIOUS
<1>1. AbsentBooking \in Bookings
  BY AbsentSound DEF Sound
<1>2. TypeOK
  <2>1. 0 \in 0..MaxRevision
    BY BookingAssumption
  <2> QED
    BY <1>1, <2>1 DEF Init, TypeOK, DraftRows
<1>3. RowsSound
  BY AbsentSound DEF Init, RowsSound
<1>4. \A r \in Reservations : ~Blocks(r)
  BY DEF Init, Blocks, AbsentBooking, NewBooking
<1> QED
  BY <1>2, <1>3, <1>4 DEF IInv, NoDoubleBooking

LEMMA NextInv == IInv /\ [Next]_vars => IInv'
<1> SUFFICES ASSUME IInv, [Next]_vars PROVE IInv'
  OBVIOUS
<1>1. Keeps
  BY StepKeeps DEF IInv
<1>2. TypeOK'
  BY TypeStep DEF IInv
<1>3. NoDoubleBooking'
  BY <1>1, DatesStep
<1> QED
  BY <1>1, <1>2, <1>3 DEF IInv, Keeps

-----------------------------------------------------------------------------
(* The theorems.                                                           *)

\* Every row, draft and switch keeps its type.
THEOREM TypeCorrect == Spec => []TypeOK
<1>1. IInv => TypeOK
  BY DEF IInv
<1> QED
  BY <1>1, InitInv, NextInv, PTL DEF Spec

\* No two reservations that occupy the vehicle ever overlap.
THEOREM DatesExclusive == Spec => []NoDoubleBooking
<1>1. IInv => NoDoubleBooking
  BY DEF IInv
<1> QED
  BY <1>1, InitInv, NextInv, PTL DEF Spec

\* A confirmed reservation that was not terminated has money behind it.
THEOREM PaidWhenConfirmed == Spec => []ConfirmedIsPaid
<1>1. IInv => ConfirmedIsPaid
  BY DEF IInv, RowsSound, Sound, Ledgered, ConfirmedIsPaid
<1> QED
  BY <1>1, InitInv, NextInv, PTL DEF Spec

\* Captured money is never kept silently.
THEOREM CapturedMoneyAccounted == Spec => []CapturedAccounted
<1>1. IInv => CapturedAccounted
  BY DEF IInv, RowsSound, Sound, Ledgered, CapturedAccounted
<1> QED
  BY <1>1, InitInv, NextInv, PTL DEF Spec

\* Financial termination is one way.
THEOREM TerminationIsFinal == Spec => NoReopening
<1>1. ASSUME IInv, [Next]_vars
      PROVE  [\A r \in Reservations : booking[r].disposition # "OPEN" =>
                /\ booking'[r].disposition # "OPEN"
                /\ booking[r].status \in Cancelled => booking'[r].status = booking[r].status
                /\ Blocks(r)' => Blocks(r)]_vars
  <2> SUFFICES ASSUME NEW r \in Reservations, booking[r].disposition # "OPEN"
               PROVE  /\ booking'[r].disposition # "OPEN"
                      /\ booking[r].status \in Cancelled =>
                            booking'[r].status = booking[r].status
                      /\ Blocks(r)' => Blocks(r)
    OBVIOUS
  <2>1. Tame(booking[r], booking'[r])
    <3>1. Keeps
      BY <1>1, StepKeeps DEF IInv
    <3>2. CASE Takes
      <4>1. PICK a \in Reservations, old \in SUBSET Reservations : Acquires(a, old)
        BY <3>2 DEF Takes
      <4>2. /\ r # a
            /\ \/ booking'[r] = booking[r]
               \/ /\ booking'[r] = GivenUp(booking[r])
                  /\ booking[r].status \notin Cancelled
        BY <4>1 DEF Acquires
      <4> QED
        BY <4>2, SameTame, GivenUpTame, <1>1 DEF IInv, TypeOK
    <3> QED
      BY <3>1, <3>2 DEF Keeps, Shrinks
  <2> QED
    BY <2>1 DEF Tame, Blocks, BlocksRow, Live
<1> QED
  BY <1>1, InitInv, NextInv, PTL DEF Spec, NoReopening

-----------------------------------------------------------------------------
(* The refinement.                                                         *)

Occupied == [r \in Reservations |-> IF Blocks(r) THEN {booking[r].window} ELSE {}]
Terminated == {r \in Reservations : booking[r].disposition # "OPEN"}

LEMMA CalendarStep == IInv /\ [Next]_vars => [Calendar!Next]_(Calendar!vars)
<1> SUFFICES ASSUME IInv, [Next]_vars
             PROVE  Calendar!Next
  OBVIOUS
<1>1. Keeps /\ TypeOK
  BY StepKeeps DEF IInv
<1>2. \A r \in Reservations : /\ Blocks(r) <=> BlocksRow(booking[r])
                              /\ Blocks(r)' <=> BlocksRow(booking'[r])
  BY DEF Blocks, BlocksRow, Live
<1> DEFINE S == {r \in Reservations : ~Blocks(r)'}
<1>3. CASE Shrinks
  <2>1. \A r \in Reservations : Blocks(r)' =>
          Blocks(r) /\ booking'[r].window = booking[r].window
    BY <1>2, <1>3 DEF Shrinks, Tame
  <2>2. Occupied' = [q \in Reservations |-> IF q \in S THEN {} ELSE Occupied[q]]
    BY <2>1 DEF Occupied
  <2>3. Terminated \subseteq Terminated' /\ Terminated' \in SUBSET Reservations
    BY <1>3 DEF Shrinks, Tame, Terminated
  <2>4. PICK R \in SUBSET Reservations : R = S
    OBVIOUS
  <2>5. Calendar!Release(R)
    BY <2>2, <2>3, <2>4 DEF Calendar!Release, Occupied, Terminated
  <2> QED
    BY <2>4, <2>5 DEF Calendar!Next
<1>4. CASE Takes
  <2>1. PICK r \in Reservations, old \in SUBSET Reservations : Acquires(r, old)
    BY <1>4 DEF Takes
  <2>2. PICK w \in Windows : w = booking'[r].window
    BY <2>1 DEF Acquires
  <2>3. r \notin Terminated
    BY <2>1 DEF Acquires, Terminated
  <2>4. ASSUME NEW q \in Reservations \ (old \cup {r}), NEW v \in Occupied[q]
        PROVE  ~Calendar!Overlap(v, w)
    BY <2>1, <2>2, <2>4 DEF Acquires, Occupied, Overlap, Calendar!Overlap
  <2>5. ASSUME NEW q \in Reservations
        PROVE  /\ Occupied'[q] = IF q = r THEN {w} ELSE IF q \in old THEN {} ELSE Occupied[q]
               /\ booking'[q].disposition # "OPEN" <=> booking[q].disposition # "OPEN"
    <3>1. CASE q = r
      BY <1>2, <2>1, <2>2, <3>1 DEF Acquires, Occupied
    <3>2. CASE q # r /\ q \in old
      <4>1. /\ booking'[q] = GivenUp(booking[q]) /\ booking[q] \in Bookings
        BY <1>1, <2>1, <3>2 DEF Acquires, TypeOK
      <4>2. ~BlocksRow(booking'[q]) /\ booking'[q].disposition = booking[q].disposition
        BY <4>1 DEF BlocksRow, GivenUp, Bookings
      <4> QED
        BY <1>2, <3>2, <4>2 DEF Occupied
    <3>3. CASE q # r /\ q \notin old
      <4>1. booking'[q] = booking[q]
        BY <2>1, <3>3 DEF Acquires
      <4> QED
        BY <1>2, <3>3, <4>1 DEF Occupied
    <3> QED
      BY <3>1, <3>2, <3>3
  <2>6. Occupied' = [q \in Reservations |->
                      IF q = r THEN {w} ELSE IF q \in old THEN {} ELSE Occupied[q]]
    BY <2>5 DEF Occupied
  <2>7. Terminated' = Terminated
    BY <2>5 DEF Terminated
  <2>8. Calendar!Take(r, w, old)
    BY <2>3, <2>4, <2>6, <2>7 DEF Calendar!Take, Occupied, Terminated
  <2> QED
    BY <2>8 DEF Calendar!Next
<1> QED
  BY <1>1, <1>3, <1>4 DEF Keeps

\* Holds, deadlines, payments and refunds implement the vehicle's calendar:
\* dates are taken only when they are free, and never by a reservation that
\* was terminated.
THEOREM BookingImplementsCalendar == Spec => ImplementsCalendar
<1>1. Init => Calendar!Init
  <2> SUFFICES ASSUME Init PROVE Calendar!Init
    OBVIOUS
  <2>1. \A r \in Reservations : ~Blocks(r) /\ booking[r].disposition = "OPEN"
    BY DEF Init, Blocks, AbsentBooking, NewBooking
  <2>2. Occupied = [r \in Reservations |-> {}] /\ Terminated = {}
    BY <2>1 DEF Occupied, Terminated
  <2> QED
    BY <2>2 DEF Calendar!Init, Occupied, Terminated
<1> QED
  BY <1>1, InitInv, NextInv, CalendarStep, PTL DEF Spec, ImplementsCalendar, Calendar!Spec

-----------------------------------------------------------------------------
(* The drafts.                                                             *)

\* A draft's reservation exists and is of the draft's customer.
DraftsOwnRows ==
  \A d \in Drafts : draft[d].reservation # None =>
    /\ booking[draft[d].reservation].status # "NONE"
    /\ booking[draft[d].reservation].customer = DraftOwner[d]

\* A customer has one hold at most.
OneHold ==
  \A p, q \in Reservations :
    /\ booking[p].status = "CHECKOUT_HOLD" /\ booking[q].status = "CHECKOUT_HOLD"
    /\ booking[p].customer = booking[q].customer
    => p = q

\* DraftMatchesHold is not inductive by itself: that the reservation a saved
\* draft still points at is the hold the request gave up follows from the two
\* parts above.
DraftInv == DraftsOwnRows /\ OneHold /\ DraftMatchesHold

\* A hold or a reservation being paid for: its draft must agree with it.
Binding(b) == b.status = "CHECKOUT_HOLD" \/ b.checkedOut

\* The later life of a row: its dates and its customer are fixed, and it does
\* not become a hold again.
Onward(b, c) ==
  /\ c.window = b.window
  /\ c.customer = b.customer
  /\ c.status = "CHECKOUT_HOLD" => b.status = "CHECKOUT_HOLD"
  /\ Binding(c) => Binding(b)
  /\ b.status # "NONE" => c.status # "NONE"

RowsOnward == \A r \in Reservations : Onward(booking[r], booking'[r])

LEMMA SameOnward == \A b : Onward(b, b)
  BY DEF Onward

LEMMA GivenUpOnward ==
  ASSUME NEW b \in Bookings
  PROVE  /\ Onward(b, GivenUp(b)) /\ GivenUp(b).status = "EXPIRED"
         /\ GivenUp(b).checkedOut = b.checkedOut
  BY DEF Onward, Binding, GivenUp, Bookings

\* A refund leaves the course of the reservation alone.
LEMMA RefundRequiredOnward ==
  ASSUME NEW b \in Bookings
  PROVE  /\ RefundRequired(b) \in Bookings
         /\ RefundRequired(b).window = b.window
         /\ RefundRequired(b).customer = b.customer
         /\ RefundRequired(b).status = b.status
         /\ RefundRequired(b).checkedOut = b.checkedOut
<1>1. PICK refund \in {"none", "PENDING", "SUCCEEDED", "FAILED"},
           mandate \in BOOLEAN, reconciling \in BOOLEAN :
        RefundRequired(b) = [b EXCEPT !.disposition = "REFUND_REQUIRED", !.refund = refund,
                                      !.mandate = mandate, !.reconciling = reconciling]
  <2> DEFINE reserve == ~b.mandate /\ b.refund \notin {"PENDING", "SUCCEEDED"}
             refund == IF reserve THEN "PENDING" ELSE b.refund
             mandate == b.mandate \/ reserve
             reconciling == b.reconciling \/ reserve
  <2>1. /\ refund \in {"none", "PENDING", "SUCCEEDED", "FAILED"}
        /\ mandate \in BOOLEAN /\ reconciling \in BOOLEAN
    BY DEF Bookings
  <2>2. RefundRequired(b) = [b EXCEPT !.disposition = "REFUND_REQUIRED", !.refund = refund,
                                      !.mandate = mandate, !.reconciling = reconciling]
    BY DEF RefundRequired
  <2> QED
    BY <2>1, <2>2
<1> DEFINE c == [b EXCEPT !.disposition = "REFUND_REQUIRED", !.refund = refund,
                          !.mandate = mandate, !.reconciling = reconciling]
<1>2. c \in Bookings
  BY ZenonT(60) DEF Bookings
<1>3. /\ c.window = b.window /\ c.customer = b.customer
      /\ c.status = b.status /\ c.checkedOut = b.checkedOut
  BY DEF Bookings
<1> QED
  BY <1>1, <1>2, <1>3

LEMMA OnwardChain ==
  ASSUME NEW b, NEW c \in Bookings,
         c.window = b.window, c.customer = b.customer, c.status = b.status,
         c.checkedOut = b.checkedOut
  PROVE  Onward(b, c) /\ Onward(b, GivenUp(c))
  BY GivenUpOnward DEF Onward, Binding

LEMMA OneRowOnward ==
  ASSUME TypeOK, NEW r \in Reservations, NEW c, Becomes(r, c), Onward(booking[r], c)
  PROVE  RowsOnward
<1>1. /\ booking'[r] = c
      /\ \A q \in Reservations \ {r} : booking'[q] = booking[q]
  BY DEF TypeOK, Becomes
<1> QED
  BY <1>1, SameOnward DEF RowsOnward

LEMMA FulfilmentOnward ==
  ASSUME TypeOK, NEW r \in Reservations
  PROVE  Onward(booking[r], Fulfilment(r))
<1> DEFINE b == booking[r]
           c == Captured(b)
           e == [c EXCEPT !.status = "PAYMENT_FAILED",
                          !.expiresAt = RecoveryDeadline(c),
                          !.reconciling = \/ c.reconciling
                                          \/ c.status = "EXPIRED"
                                          \/ c.status = "AWAITING_PAYMENT" /\ c.expiresAt = 0]
<1>1. b \in Bookings
  BY DEF TypeOK
<1>2. /\ c \in Bookings /\ c.window = b.window /\ c.customer = b.customer
      /\ c.status = b.status /\ c.checkedOut = b.checkedOut
  BY <1>1 DEF Captured, Bookings
<1>3. /\ RefundRequired(c) \in Bookings
      /\ RefundRequired(c).window = b.window
      /\ RefundRequired(c).customer = b.customer
      /\ RefundRequired(c).status = b.status
      /\ RefundRequired(c).checkedOut = b.checkedOut
  BY <1>2, RefundRequiredOnward
<1>4. /\ Onward(b, c) /\ Onward(b, RefundRequired(c))
      /\ Onward(b, GivenUp(RefundRequired(c)))
  BY <1>2, <1>3, OnwardChain
<1>5. /\ e.window = b.window /\ e.customer = b.customer
      /\ e.status = "PAYMENT_FAILED" /\ e.checkedOut = b.checkedOut
  BY <1>2 DEF Bookings
<1>6. Onward(b, e)
  BY <1>5 DEF Onward, Binding
<1>7. \/ Fulfilment(r) = c
      \/ Fulfilment(r) = RefundRequired(c)
      \/ Fulfilment(r) = GivenUp(RefundRequired(c))
      \/ Fulfilment(r) = e
  BY DEF Fulfilment
<1> QED
  BY <1>4, <1>6, <1>7

LEMMA ConfirmOnward ==
  ASSUME TypeOK, NEW r \in Reservations, Confirm(r)
  PROVE  RowsOnward
<1> DEFINE b == booking[r]
           c == [b EXCEPT !.status = "DOCUMENTS_REQUIRED",
                          !.expiresAt = NoDeadline, !.reconciling = FALSE]
<1>1. b \in Bookings
  BY DEF TypeOK
<1>2. Onward(b, RefundRequired(b)) /\ Onward(b, GivenUp(RefundRequired(b)))
  BY <1>1, RefundRequiredOnward, OnwardChain
<1>3. Onward(b, c)
  BY <1>1 DEF Onward, Binding, Bookings
<1>4. \E f \in {RefundRequired(b), GivenUp(RefundRequired(b)), c} : Becomes(r, f)
  BY DEF Confirm
<1> QED
  BY <1>2, <1>3, <1>4, OneRowOnward

LEMMA RefundOnward ==
  ASSUME TypeOK, NEW r \in Reservations,
         RefundSucceeds(r) \/ RefundFails(r) \/ StaffRefund(r) \/ Settle(r)
  PROVE  RowsOnward
<1> DEFINE b == booking[r]
           s == [b EXCEPT !.refund = "SUCCEEDED", !.reconciling = FALSE]
           t == [s EXCEPT !.disposition = "TERMINATED", !.expiresAt = NoDeadline,
                          !.status = IF s.status \in Cancelled THEN s.status ELSE "EXPIRED"]
<1>1. b \in Bookings
  BY DEF TypeOK
<1>2. CASE RefundSucceeds(r)
  <2>1. /\ s.window = b.window /\ s.customer = b.customer
        /\ s.status = b.status /\ s.checkedOut = b.checkedOut /\ s \in Bookings
    BY ZenonT(60), <1>1 DEF Bookings
  <2>2. /\ t.window = b.window /\ t.customer = b.customer
        /\ t.status \in Cancelled \cup {"EXPIRED"} /\ t.checkedOut = b.checkedOut
    BY <2>1 DEF Bookings
  <2>3. Onward(b, s) /\ Onward(b, t)
    BY <2>1, <2>2 DEF Onward, Binding
  <2>4. \E f \in {s, t} : Becomes(r, f)
    BY <1>2 DEF RefundSucceeds
  <2> QED
    BY <2>3, <2>4, OneRowOnward
<1>3. CASE RefundFails(r) \/ StaffRefund(r)
  <2> DEFINE f == [b EXCEPT !.refund = "FAILED"]
             g == [b EXCEPT !.disposition = "REFUND_REQUIRED", !.refund = "PENDING"]
  <2>1. Onward(b, f) /\ Onward(b, g)
    BY <1>1 DEF Onward, Binding, Bookings
  <2>2. \E e \in {f, g} : Becomes(r, e)
    BY <1>3 DEF RefundFails, StaffRefund
  <2> QED
    BY <2>1, <2>2, OneRowOnward
<1>4. CASE Settle(r)
  BY <1>1, <1>4, RefundRequiredOnward, OnwardChain, OneRowOnward DEF Settle
<1> QED
  BY <1>2, <1>3, <1>4

LEMMA EndOnward ==
  ASSUME TypeOK, NEW r \in Reservations, Expire(r) \/ Cancel(r)
  PROVE  RowsOnward
<1> DEFINE b == booking[r]
<1>1. b \in Bookings
  BY DEF TypeOK
<1>2. CASE Expire(r)
  <2>1. /\ Onward(b, GivenUp(b)) /\ Onward(b, GivenUp(RefundRequired(b)))
    BY <1>1, RefundRequiredOnward, OnwardChain
  <2>2. \E f \in {GivenUp(b), GivenUp(RefundRequired(b))} : Becomes(r, f)
    BY <1>2 DEF Expire
  <2> QED
    BY <2>1, <2>2, OneRowOnward
<1>3. CASE Cancel(r)
  <2>1. PICK status \in Cancelled : Becomes(r, CancelledAs(b, status))
    BY <1>3 DEF Cancel
  <2> DEFINE c == CancelledAs(b, status)
  <2>2. /\ c.window = b.window /\ c.customer = b.customer
        /\ c.status = status /\ c.checkedOut = b.checkedOut
    BY <1>1 DEF CancelledAs, Bookings
  <2>3. Onward(b, c)
    BY <2>2 DEF Onward, Binding
  <2> QED
    BY <2>1, <2>3, OneRowOnward
<1> QED
  BY <1>2, <1>3

LEMMA ProgressOnward ==
  ASSUME TypeOK, NEW r \in Reservations, Progress(r)
  PROVE  RowsOnward
<1> DEFINE b == booking[r]
<1>1. b \in Bookings
  BY DEF TypeOK
<1>2. CASE Checkout(r)
  <2> DEFINE c == [b EXCEPT !.status = "AWAITING_PAYMENT",
                            !.expiresAt = CheckoutTTL, !.checkedOut = TRUE]
  <2>1. b.status = "CHECKOUT_HOLD" /\ Becomes(r, c)
    BY <1>2 DEF Checkout
  <2>2. Onward(b, c)
    BY <1>1, <2>1 DEF Onward, Binding, Bookings
  <2> QED
    BY <2>1, <2>2, OneRowOnward
<1>3. CASE CreateRentalPayment(r) \/ CustomerPays(r) \/ Quarantine(r)
  <2> DEFINE f == [b EXCEPT !.payment = "created"]
             g == [b EXCEPT !.payment = "paid"]
             h == [b EXCEPT !.disposition = "REVIEW"]
  <2>1. Onward(b, f) /\ Onward(b, g) /\ Onward(b, h)
    BY <1>1 DEF Onward, Binding, Bookings
  <2>2. \E e \in {f, g, h} : Becomes(r, e)
    BY <1>3 DEF CreateRentalPayment, CustomerPays, Quarantine
  <2> QED
    BY <2>1, <2>2, OneRowOnward
<1>4. CASE ObserveCapture(r)
  BY <1>4, FulfilmentOnward, OneRowOnward DEF ObserveCapture
<1> QED
  BY <1>2, <1>3, <1>4, ConfirmOnward, RefundOnward, EndOnward DEF Progress

LEMMA TickOnward ==
  ASSUME TypeOK, Tick
  PROVE  RowsOnward
<1> SUFFICES ASSUME NEW r \in Reservations PROVE Onward(booking[r], booking'[r])
  BY DEF RowsOnward
<1>1. booking[r] \in Bookings
  BY DEF TypeOK
<1>2. booking'[r] = IF Live(r) THEN [booking[r] EXCEPT !.expiresAt = @ - 1] ELSE booking[r]
  BY DEF Tick
<1>3. CASE Live(r)
  BY <1>1, <1>2, <1>3 DEF Onward, Binding, Bookings
<1>4. CASE ~Live(r)
  BY <1>2, <1>4, SameOnward
<1> QED
  BY <1>3, <1>4

\* Every other step than a request leaves the drafts alone.
LEMMA DraftsUntouched ==
  ASSUME TypeOK, NEW r \in Reservations, Progress(r)
  PROVE  UNCHANGED draft
  BY DEF Progress, Checkout, CreateRentalPayment, CustomerPays, ObserveCapture, Confirm,
     Expire, Cancel, Settle, StaffRefund, RefundSucceeds, RefundFails, Quarantine

LEMMA OnwardKeepsOneHold ==
  ASSUME OneHold, RowsOnward
  PROVE  OneHold'
  BY DEF OneHold, RowsOnward, Onward

\* What a draft that is not saved needs.
LEMMA DraftLeftAlone ==
  ASSUME TypeOK, DraftInv, NEW d \in Drafts, draft'[d] = draft[d],
         draft[d].reservation # None =>
           Onward(booking[draft[d].reservation], booking'[draft[d].reservation])
  PROVE  draft'[d].reservation # None =>
           LET b == booking'[draft'[d].reservation]
           IN  /\ b.status # "NONE"
               /\ b.customer = DraftOwner[d]
               /\ Binding(b) => b.window = draft'[d].fingerprint
  BY DEF DraftInv, DraftsOwnRows, DraftMatchesHold, Onward, Binding

\* The invariant in the form the steps below establish it.
LEMMA DraftByDraft ==
  ASSUME OneHold',
         \A d \in Drafts : draft'[d].reservation # None =>
           LET b == booking'[draft'[d].reservation]
           IN  /\ b.status # "NONE"
               /\ b.customer = DraftOwner[d]
               /\ Binding(b) => b.window = draft'[d].fingerprint
  PROVE  DraftInv'
  BY DEF DraftInv, DraftsOwnRows, DraftMatchesHold, Binding

LEMMA OnwardKeepsDrafts ==
  ASSUME TypeOK, DraftInv, RowsOnward, UNCHANGED draft
  PROVE  DraftInv'
<1>1. ASSUME NEW d \in Drafts, draft[d].reservation # None
      PROVE  draft[d].reservation \in Reservations
  BY <1>1 DEF TypeOK, DraftRows
<1>2. ASSUME NEW d \in Drafts
      PROVE  draft'[d].reservation # None =>
               LET b == booking'[draft'[d].reservation]
               IN  /\ b.status # "NONE"
                   /\ b.customer = DraftOwner[d]
                   /\ Binding(b) => b.window = draft'[d].fingerprint
  BY <1>1, DraftLeftAlone DEF RowsOnward
<1>3. OneHold'
  BY OnwardKeepsOneHold DEF DraftInv
<1> QED
  BY <1>2, <1>3, DraftByDraft

\* A request that saved a draft without a new reservation: the draft had no
\* reservation that is being paid for, and its hold, if it has one, is the one
\* the request found.
LEMMA SavedDraft ==
  ASSUME TypeOK, DraftInv, NEW c \in Customers, NEW d \in Drafts, NEW revision, NEW w,
         NEW old \in Existing(c), MayHold(c, d, revision, w, old),
         draft[d].reservation # None
  PROVE  LET x == draft[d].reservation
         IN  /\ x \in Reservations
             /\ booking[x].status # "NONE"
             /\ booking[x].customer = DraftOwner[d]
             /\ ~booking[x].checkedOut
             /\ booking[x].status = "CHECKOUT_HOLD" => old = {x}
<1> DEFINE x == draft[d].reservation
<1>1. x \in Reservations
  BY DEF TypeOK, DraftRows
<1>2. d # None /\ DraftOwner[d] = c /\ ~booking[x].checkedOut
  BY BookingAssumption DEF MayHold, DraftAccepts
<1>3. booking[x].status # "NONE" /\ booking[x].customer = DraftOwner[d]
  BY DEF DraftInv, DraftsOwnRows
<1>4. ASSUME booking[x].status = "CHECKOUT_HOLD" PROVE old = {x}
  <2>1. x \in HoldsOf(c)
    BY <1>1, <1>2, <1>3, <1>4 DEF HoldsOf
  <2>2. PICK r \in HoldsOf(c) : old = {r}
    BY <2>1 DEF Existing
  <2>3. r = x
    BY <2>1, <2>2 DEF HoldsOf, DraftInv, OneHold
  <2> QED
    BY <2>2, <2>3
<1> QED
  BY <1>1, <1>2, <1>3, <1>4

LEMMA RefreshDrafts ==
  ASSUME TypeOK, DraftInv, NEW c \in Customers, NEW d \in Drafts \cup {None},
         NEW revision, NEW w, RefreshHold(c, d, revision, w)
  PROVE  DraftInv'
<1>1. PICK r \in HoldsOf(c) :
        /\ MayHold(c, d, revision, w, {r})
        /\ Extends({r}, w)
        /\ IF Available(w, {r})
           THEN /\ Becomes(r, [booking[r] EXCEPT !.expiresAt = HoldTTL])
                /\ SaveDraftWith(d, revision, w, r)
           ELSE /\ SaveDraft(d, revision, w)
                /\ UNCHANGED booking
  BY DEF RefreshHold
<1> DEFINE e == [booking[r] EXCEPT !.expiresAt = HoldTTL]
<1>2. /\ r \in Reservations /\ booking[r] \in Bookings /\ booking[r].customer = c
      /\ booking[r].status = "CHECKOUT_HOLD" /\ booking[r].window = w
      /\ {r} \in Existing(c)
  BY <1>1 DEF HoldsOf, TypeOK, Extends, Existing
<1>3. Onward(booking[r], e) /\ e.status = "CHECKOUT_HOLD" /\ e.window = w /\ e.customer = c
  BY <1>2 DEF Onward, Binding, Bookings
<1>4. RowsOnward
  BY <1>1, <1>3, <1>2, OneRowOnward, SameOnward DEF RowsOnward
<1>5. OneHold'
  BY <1>4, OnwardKeepsOneHold DEF DraftInv
<1>6. ASSUME NEW o \in Drafts, draft'[o].reservation # None
      PROVE  LET b == booking'[draft'[o].reservation]
             IN  /\ b.status # "NONE"
                 /\ b.customer = DraftOwner[o]
                 /\ Binding(b) => b.window = draft'[o].fingerprint
  <2>1. CASE o # d
    <3>1. draft'[o] = draft[o]
      BY <1>1, <2>1 DEF SaveDraft, SaveDraftWith, TypeOK
    <3>2. draft[o].reservation # None => draft[o].reservation \in Reservations
      BY DEF TypeOK, DraftRows
    <3> QED
      BY <1>4, <1>6, <3>1, <3>2, DraftLeftAlone DEF RowsOnward
  <2>2. CASE o = d /\ Available(w, {r})
    <3>1. draft'[d] = [revision |-> revision, fingerprint |-> w, reservation |-> r]
      BY <1>1, <2>2, BookingAssumption DEF SaveDraftWith, TypeOK
    <3>2. booking'[r] = e
      BY <1>1, <1>2, <2>2 DEF Becomes, TypeOK
    <3>3. DraftOwner[d] = c
      BY <1>1, <2>2, BookingAssumption DEF MayHold
    <3>4. draft'[o].reservation = r /\ draft'[o].fingerprint = w
      BY <2>2, <3>1
    <3> QED
      BY <1>3, <2>2, <3>2, <3>3, <3>4
  <2>3. CASE o = d /\ ~Available(w, {r})
    <3>1. /\ draft'[d].reservation = draft[d].reservation
          /\ draft'[d].fingerprint = w
      BY <1>1, <2>3, BookingAssumption DEF SaveDraft, TypeOK, DraftRows
    <3>2. booking' = booking
      BY <1>1, <2>3
    <3>3. LET x == draft[d].reservation
          IN  /\ x \in Reservations
              /\ booking[x].status # "NONE"
              /\ booking[x].customer = DraftOwner[d]
              /\ ~booking[x].checkedOut
              /\ booking[x].status = "CHECKOUT_HOLD" => {r} = {x}
      BY <1>1, <1>2, <1>6, <2>3, <3>1, SavedDraft
    <3>4. booking[draft[d].reservation].status = "CHECKOUT_HOLD" => draft[d].reservation = r
      BY <3>3
    <3> QED
      BY <1>2, <2>3, <3>1, <3>2, <3>3, <3>4 DEF Binding
  <2> QED
    BY <2>1, <2>2, <2>3
<1> QED
  BY <1>5, <1>6, DraftByDraft

LEMMA PlaceDrafts ==
  ASSUME TypeOK, DraftInv, NEW c \in Customers, NEW d \in Drafts \cup {None},
         NEW revision, NEW w \in Windows, PlaceHold(c, d, revision, w)
  PROVE  DraftInv'
<1>1. PICK old \in Existing(c), r \in Reservations :
        /\ MayHold(c, d, revision, w, old)
        /\ booking[r].status = "NONE"
        /\ booking' = [q \in Reservations |->
                         IF q = r THEN NewBooking(c, w)
                         ELSE IF q \in old THEN GivenUp(booking[q]) ELSE booking[q]]
        /\ SaveDraftWith(d, revision, w, r)
  BY DEF PlaceHold
<1>2. /\ booking'[r] = NewBooking(c, w)
      /\ booking'[r].status = "CHECKOUT_HOLD" /\ booking'[r].customer = c
      /\ booking'[r].window = w
  BY <1>1 DEF NewBooking
<1>3. \A q \in Reservations \ {r} :
        /\ Onward(booking[q], booking'[q])
        /\ q \in old => booking'[q].status = "EXPIRED"
        /\ q \notin old => booking'[q] = booking[q]
  BY <1>1, SameOnward, GivenUpOnward DEF TypeOK
\* No hold of the customer is left.
<1>4. \A q \in Reservations \ {r} :
        ~(booking'[q].status = "CHECKOUT_HOLD" /\ booking'[q].customer = c)
  <2> SUFFICES ASSUME NEW q \in Reservations \ {r},
                      booking'[q].status = "CHECKOUT_HOLD", booking'[q].customer = c
               PROVE  FALSE
    OBVIOUS
  <2>1. booking[q].status = "CHECKOUT_HOLD" /\ booking[q].customer = c /\ q \notin old
    BY <1>3 DEF Onward
  <2>2. q \in HoldsOf(c)
    BY <2>1 DEF HoldsOf
  <2>3. PICK p \in HoldsOf(c) : old = {p}
    BY <2>2 DEF Existing
  <2>4. p = q
    BY <2>2, <2>3 DEF HoldsOf, DraftInv, OneHold
  <2> QED
    BY <2>1, <2>3, <2>4
<1>5. OneHold'
  <2> SUFFICES ASSUME NEW p \in Reservations, NEW q \in Reservations,
                      booking'[p].status = "CHECKOUT_HOLD",
                      booking'[q].status = "CHECKOUT_HOLD",
                      booking'[p].customer = booking'[q].customer
               PROVE  p = q
    BY DEF OneHold
  <2>1. CASE p = r \/ q = r
    BY <1>2, <1>4, <2>1
  <2>2. CASE p # r /\ q # r
    BY <1>3, <2>2 DEF Onward, DraftInv, OneHold
  <2> QED
    BY <2>1, <2>2
<1>6. ASSUME NEW o \in Drafts, draft'[o].reservation # None
      PROVE  LET b == booking'[draft'[o].reservation]
             IN  /\ b.status # "NONE"
                 /\ b.customer = DraftOwner[o]
                 /\ Binding(b) => b.window = draft'[o].fingerprint
  <2>1. CASE o # d
    <3>1. draft'[o] = draft[o]
      BY <1>1, <2>1 DEF SaveDraftWith, TypeOK
    <3>2. draft[o].reservation # None => draft[o].reservation \in Reservations \ {r}
      BY <1>1 DEF TypeOK, DraftRows, DraftInv, DraftsOwnRows
    <3> QED
      BY <1>3, <1>6, <3>1, <3>2, DraftLeftAlone
  <2>2. CASE o = d
    <3>1. draft'[d] = [revision |-> revision, fingerprint |-> w, reservation |-> r]
      BY <1>1, <2>2, BookingAssumption DEF SaveDraftWith, TypeOK
    <3>2. DraftOwner[d] = c
      BY <1>1, <2>2, BookingAssumption DEF MayHold
    <3> QED
      BY <1>2, <2>2, <3>1, <3>2
  <2> QED
    BY <2>1, <2>2
<1> QED
  BY <1>5, <1>6, DraftByDraft

LEMMA RefuseDrafts ==
  ASSUME TypeOK, DraftInv, NEW c \in Customers, NEW d \in Drafts \cup {None},
         NEW revision, NEW w, RefuseHold(c, d, revision, w)
  PROVE  DraftInv'
<1>1. PICK old \in Existing(c) :
        /\ MayHold(c, d, revision, w, old)
        /\ booking' = [q \in Reservations |->
                         IF q \in old THEN GivenUp(booking[q]) ELSE booking[q]]
        /\ SaveDraft(d, revision, w)
  BY DEF RefuseHold
<1>2. \A q \in Reservations :
        /\ Onward(booking[q], booking'[q])
        /\ q \in old => /\ booking'[q].status = "EXPIRED"
                        /\ booking'[q].checkedOut = booking[q].checkedOut
        /\ q \notin old => booking'[q] = booking[q]
  BY <1>1, SameOnward, GivenUpOnward DEF TypeOK
<1>3. RowsOnward
  BY <1>2 DEF RowsOnward
<1>4. OneHold'
  BY <1>3, OnwardKeepsOneHold DEF DraftInv
<1>5. ASSUME NEW o \in Drafts, draft'[o].reservation # None
      PROVE  LET b == booking'[draft'[o].reservation]
             IN  /\ b.status # "NONE"
                 /\ b.customer = DraftOwner[o]
                 /\ Binding(b) => b.window = draft'[o].fingerprint
  <2>1. CASE o # d
    <3>1. draft'[o] = draft[o]
      BY <1>1, <2>1 DEF SaveDraft, TypeOK
    <3>2. draft[o].reservation # None => draft[o].reservation \in Reservations
      BY DEF TypeOK, DraftRows
    <3> QED
      BY <1>2, <1>5, <3>1, <3>2, DraftLeftAlone
  \* Saved by the request: it must not be bound to its reservation any more.
  <2>2. CASE o = d
    <3>1. draft'[d].reservation = draft[d].reservation
      BY <1>1, <2>2, BookingAssumption DEF SaveDraft, TypeOK, DraftRows
    <3>2. PICK x \in Reservations :
            /\ x = draft[d].reservation
            /\ booking[x].status # "NONE"
            /\ booking[x].customer = DraftOwner[d]
            /\ ~booking[x].checkedOut
            /\ booking[x].status = "CHECKOUT_HOLD" => old = {x}
      BY <1>1, <1>5, <2>2, <3>1, SavedDraft
    <3>3. ~Binding(booking'[x])
      <4>1. CASE x \in old
        BY <1>2, <3>2, <4>1 DEF Binding
      <4>2. CASE x \notin old
        BY <1>2, <3>2, <4>2 DEF Binding
      <4> QED
        BY <4>1, <4>2
    <3>4. booking'[x].status # "NONE" /\ booking'[x].customer = DraftOwner[d]
      BY <1>2, <3>2 DEF Onward
    <3> QED
      BY <2>2, <3>1, <3>2, <3>3, <3>4
  <2> QED
    BY <2>1, <2>2
<1> QED
  BY <1>4, <1>5, DraftByDraft

LEMMA DraftStep == TypeOK /\ DraftInv /\ [Next]_vars => DraftInv'
<1> SUFFICES ASSUME TypeOK, DraftInv, [Next]_vars PROVE DraftInv'
  OBVIOUS
<1>1. ASSUME NEW c \in Customers, NEW d \in Drafts \cup {None},
             NEW revision \in 1..MaxRevision, NEW w \in Windows, Request(c, d, revision, w)
      PROVE  DraftInv'
  BY <1>1, RefreshDrafts, PlaceDrafts, RefuseDrafts DEF Request
<1>2. ASSUME NEW r \in Reservations, Progress(r)
      PROVE  DraftInv'
  BY <1>2, ProgressOnward, DraftsUntouched, OnwardKeepsDrafts
<1>3. CASE Tick
  BY <1>3, TickOnward, OnwardKeepsDrafts DEF Tick
<1>4. CASE ChangeSale \/ ChangeAdmission \/ UNCHANGED vars
  <2>1. UNCHANGED <<booking, draft>>
    BY <1>4 DEF ChangeSale, ChangeAdmission, vars
  <2>2. RowsOnward
    BY <2>1, SameOnward DEF RowsOnward
  <2> QED
    BY <2>1, <2>2, OnwardKeepsDrafts
<1> QED
  BY <1>1, <1>2, <1>3, <1>4 DEF Next

\* A draft never drifts away from the hold it resumes nor from the reservation
\* being paid for, whichever requests of the customer's other drafts, refusals
\* and expiries come between its saves.
THEOREM DraftsFollowHolds == Spec => []DraftMatchesHold
<1>1. Init => DraftInv
  <2> SUFFICES ASSUME Init PROVE DraftInv
    OBVIOUS
  <2>1. \A d \in Drafts : draft[d].reservation = None
    BY DEF Init
  <2>2. \A r \in Reservations : booking[r].status = "NONE"
    BY DEF Init, AbsentBooking, NewBooking
  <2> QED
    BY <2>1, <2>2 DEF DraftInv, DraftsOwnRows, OneHold, DraftMatchesHold
<1>2. DraftInv => DraftMatchesHold
  BY DEF DraftInv
<1> QED
  BY <1>1, <1>2, DraftStep, TypeCorrect, PTL DEF Spec

=============================================================================
