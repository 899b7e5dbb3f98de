----------------------------- MODULE SeatBooking -----------------------------
(***************************************************************************)
(* The seats of one trip, from the temporary hold to the sold seat and     *)
(* back: apps/api/bookings/services.py, bookings/change_services.py, the   *)
(* expiry and completion halves of payments/services.py and the two trip   *)
(* commands that touch the inventory.                                      *)
(*                                                                         *)
(* Every handler is one database transaction that locks the trip row       *)
(* (directly, or through the join of its select_for_update), so a handler  *)
(* is one action.  A batch of holds and the booking made from it carry the *)
(* same identifier b: `owner_booking_draft_id` in the code, where a batch  *)
(* is consumed by at most one booking.                                     *)
(*                                                                         *)
(* Operators marked "wrong on purpose" are faulty versions of the operator *)
(* that follows them; a property is only worth its run if such a fault     *)
(* breaks it.                                                              *)
(*                                                                         *)
(* A ticket costs one unit, so the total of a booking is the number of its *)
(* passengers that are not cancelled.                                      *)
(***************************************************************************)
EXTENDS Integers, FiniteSets

CONSTANTS Seats,      \* current, sellable TripSeat rows of the trip
          Bookings,   \* identifiers of hold batches and of their bookings
          MaxPax,     \* most passengers of a booking
          Genders,
          Adjacent,   \* SAME_UNIT pairs: a set of two-element sets of seats
          NoSeat,     \* the seat of a passenger that does not exist
          Free,       \* the owner of an unsold seat (see Sale)
          HoldTTL,    \* SEAT_HOLD_TTL_SECONDS
          PayTTL,     \* payment_deadline_minutes
          MaxTime,    \* bound on the clock
          MaxVersion  \* bound on the trip's version before its cancellation

ASSUME ConstantsAssumption ==
    /\ MaxPax \in Nat \ {0}
    /\ HoldTTL \in Nat \ {0}
    /\ PayTTL \in Nat \ {0}
    /\ MaxTime \in Nat
    /\ MaxVersion \in Nat \ {0}
    /\ NoSeat \notin Seats
    /\ Free \notin Bookings
    /\ Genders # {}
    /\ \A pair \in Adjacent : pair \subseteq Seats

VARIABLES
    now,          \* the clock
    tripOpen,     \* Trip.status = BOOKING_OPEN, its seats sellable; FALSE once cancelled
    version,      \* Trip.version
    hold,         \* hold[b][s]: status of the SeatHold row of batch b on seat s
    holdExpiry,   \* SeatHold.expires_at of the batch
    quote,        \* SeatHold.quote_version of the batch
    deadline,     \* Booking.payment_deadline_at, fixed by the hold's quote
    status,       \* Booking.status; "none" before the booking exists
    pax,          \* pax[b][p]: BookingPassenger.status
    gender,       \* BookingPassenger.gender
    seat,         \* seat of the passenger's latest SeatAssignment
    asg,          \* status of the passenger's latest SeatAssignment
    moved,        \* the booking has a MOVED assignment besides the latest ones
    due,          \* amount of the open electronic PaymentIntent, 0 if none
    paid,         \* Booking.paid_amount
    paidInTime,   \* some SUCCEEDED transaction occurred by the deadline
    caseOpen,     \* the booking has an open PaymentReconciliationCase
    refundOpen    \* passengers with an open Refund

tripVars == <<now, tripOpen, version>>
holdVars == <<hold, holdExpiry, quote, deadline>>
seatVars == <<pax, gender, seat, asg, moved>>
moneyVars == <<due, paid, paidInTime, caseOpen>>
vars == <<now, tripOpen, version, hold, holdExpiry, quote, deadline, status, pax,
          gender, seat, asg, moved, due, paid, paidInTime, caseOpen, refundOpen>>

-----------------------------------------------------------------------------
(* Types *)

Passengers == 1 .. MaxPax
HoldStatus == {"none", "active", "released", "consumed", "expired"}
BookingStatus == {"none", "awaiting_payment", "confirmed",
                  "cancellation_pending", "cancelled"}
PaxStatus == {"none", "active", "cancelled"}
AsgStatus == {"none", "active", "released", "cancelled"}

TypeOK ==
    /\ now \in 0 .. MaxTime
    /\ tripOpen \in BOOLEAN
    /\ version \in 1 .. MaxVersion + 1
    /\ hold \in [Bookings -> [Seats -> HoldStatus]]
    /\ holdExpiry \in [Bookings -> Nat]
    /\ quote \in [Bookings -> 0 .. MaxVersion]
    /\ deadline \in [Bookings -> Nat]
    /\ status \in [Bookings -> BookingStatus]
    /\ pax \in [Bookings -> [Passengers -> PaxStatus]]
    /\ gender \in [Bookings -> [Passengers -> Genders]]
    /\ seat \in [Bookings -> [Passengers -> Seats \cup {NoSeat}]]
    /\ asg \in [Bookings -> [Passengers -> AsgStatus]]
    /\ moved \in [Bookings -> BOOLEAN]
    /\ due \in [Bookings -> Nat]
    /\ paid \in [Bookings -> Nat]
    /\ paidInTime \in [Bookings -> BOOLEAN]
    /\ caseOpen \in [Bookings -> BOOLEAN]
    /\ refundOpen \in [Bookings -> SUBSET Passengers]

-----------------------------------------------------------------------------
(* Helpers *)

(* The passenger holds an ACTIVE SeatAssignment on s.                      *)
Occupies(b, p, s) == asg[b][p] = "active" /\ seat[b][p] = s
Assigned(s) == \E b \in Bookings, p \in Passengers : Occupies(b, p, s)

(* The batch holds s and the hold has not run out.                         *)
HeldBy(b, s) == hold[b][s] = "active" /\ holdExpiry[b] > now
HeldBeyondNow(s) == \E b \in Bookings : hold[b][s] = "active" /\ holdExpiry[b] > now + 1 \* wrong on purpose
Held(s) == \E b \in Bookings : HeldBy(b, s)

Rows(b) == {s \in Seats : hold[b][s] # "none"}
Present(b) == {p \in Passengers : pax[b][p] # "none"}
Travelling(b) == {p \in Passengers : pax[b][p] = "active"}
Total(b) == Cardinality(Travelling(b))
Outstanding(b) == Total(b) - paid[b]

(* assert_public_bookable *)
AlwaysBookable == TRUE \* wrong on purpose
Bookable == tripOpen

GenderFitsConfirmed(b, s, g) == \* wrong on purpose
    \A c \in Bookings \ {b}, q \in Passengers :
        status[c] = "confirmed" /\ asg[c][q] = "active" /\ {s, seat[c][q]} \in Adjacent
            => gender[c][q] = g
(* A passenger of gender g may sit on s: no neighbour of another booking   *)
(* has another gender.                                                     *)
GenderFits(b, s, g) ==
    \A c \in Bookings \ {b}, q \in Passengers :
        asg[c][q] = "active" /\ {s, seat[c][q]} \in Adjacent => gender[c][q] = g

-----------------------------------------------------------------------------
(* Holds *)

ExpiredOnLate(b, s, S) == \* wrong on purpose
    IF s \in S /\ hold[b][s] = "active" /\ holdExpiry[b] < now THEN "expired" ELSE hold[b][s]
ExpiredOnTheDot(b, s, S) == \* wrong on purpose
    IF s \in S /\ hold[b][s] = "active" /\ holdExpiry[b] = now THEN "expired" ELSE hold[b][s]
(* expire_due_holds: status of the row once the rows on S that are due by  *)
(* now have been expired.                                                  *)
ExpiredOn(b, s, S) ==
    IF s \in S /\ hold[b][s] = "active" /\ holdExpiry[b] <= now
    THEN "expired" ELSE hold[b][s]

(* create_public_seat_hold: a batch of seats for one draft.                *)
CreateHold(b, S) ==
    /\ Bookable
    /\ Rows(b) = {}
    /\ \A s \in S : ~Assigned(s) /\ ~Held(s)
    /\ hold' = [c \in Bookings |-> [s \in Seats |->
                   IF c = b /\ s \in S THEN "active" ELSE ExpiredOn(c, s, S)]]
    /\ holdExpiry' = [holdExpiry EXCEPT ![b] = now + HoldTTL]
    /\ quote' = [quote EXCEPT ![b] = version]
    /\ deadline' = [deadline EXCEPT ![b] = now + PayTTL]
    /\ UNCHANGED <<tripVars, status, seatVars, moneyVars, refundOpen>>

(* release_public_seat_hold: the owner gives the batch back; rows that ran *)
(* out are expired instead.                                                *)
ReleaseHold(b) ==
    /\ \E s \in Seats : hold[b][s] = "active"
    /\ hold' = [hold EXCEPT ![b] = [s \in Seats |->
                   IF hold[b][s] # "active" THEN hold[b][s]
                   ELSE IF holdExpiry[b] > now THEN "released" ELSE "expired"]]
    /\ UNCHANGED <<tripVars, holdExpiry, quote, deadline, status, seatVars,
                   moneyVars, refundOpen>>

(* The periodic bookings.expire_seat_holds job.                            *)
ExpireDueHolds ==
    /\ hold' = [b \in Bookings |-> [s \in Seats |-> ExpiredOn(b, s, Seats)]]
    /\ hold' # hold
    /\ UNCHANGED <<tripVars, holdExpiry, quote, deadline, status, seatVars,
                   moneyVars, refundOpen>>

-----------------------------------------------------------------------------
(* Bookings *)

(* create_public_booking: the batch becomes a booking, passenger i on the  *)
(* seat sit[i]; office cash confirms at once, any other method waits.      *)
CreateBooking(b, n, sit, gen, cash) ==
    LET party == 1 .. n IN
    /\ Bookable
    /\ status[b] = "none"
    /\ Rows(b) # {}
    /\ \A s \in Rows(b) : HeldBy(b, s)
    /\ quote[b] = version
    /\ {sit[p] : p \in party} = Rows(b)
    /\ \A p, q \in party : sit[p] = sit[q] => p = q
    /\ \A s \in Rows(b) : ~Assigned(s)
    /\ \A p \in party : GenderFits(b, sit[p], gen[p])
    /\ status' = [status EXCEPT ![b] = IF cash THEN "confirmed" ELSE "awaiting_payment"]
    /\ pax' = [pax EXCEPT ![b] = [p \in Passengers |-> IF p \in party THEN "active" ELSE "none"]]
    /\ gender' = [gender EXCEPT ![b] =
                     [p \in Passengers |-> IF p \in party THEN gen[p] ELSE gender[b][p]]]
    /\ seat' = [seat EXCEPT ![b] = [p \in Passengers |-> IF p \in party THEN sit[p] ELSE NoSeat]]
    /\ asg' = [asg EXCEPT ![b] = [p \in Passengers |-> IF p \in party THEN "active" ELSE "none"]]
    /\ hold' = [hold EXCEPT ![b] = [s \in Seats |->
                   IF s \in Rows(b) THEN "consumed" ELSE hold[b][s]]]
    /\ UNCHANGED <<tripVars, holdExpiry, quote, deadline, moved, moneyVars, refundOpen>>

(* cancel_public_booking: the customer cancels the passengers P.  Whether  *)
(* the policy grants a refund is an input; it takes money already paid.    *)
CancelPassengers(b, P, refunded) ==
    /\ status[b] \in {"confirmed", "awaiting_payment"}
    /\ P # {} /\ P \subseteq Travelling(b)
    /\ \A p \in P : asg[b][p] = "active"
    /\ refunded => paid[b] > 0
    /\ asg' = [asg EXCEPT ![b] = [p \in Passengers |-> IF p \in P THEN "cancelled" ELSE asg[b][p]]]
    /\ pax' = [pax EXCEPT ![b] = [p \in Passengers |-> IF p \in P THEN "cancelled" ELSE pax[b][p]]]
    /\ refundOpen' = [refundOpen EXCEPT ![b] = IF refunded THEN @ \cup P ELSE @]
    /\ status' = [status EXCEPT ![b] =
                     IF Travelling(b) # P THEN @
                     ELSE IF refunded THEN "cancellation_pending" ELSE "cancelled"]
    /\ UNCHANGED <<tripVars, holdVars, gender, seat, moved, moneyVars>>

(* change_booking_seat: the office moves a passenger, whatever the status  *)
(* of the booking.                                                         *)
ChangeSeat(b, p, s) ==
    /\ pax[b][p] = "active"
    /\ asg[b][p] = "active"
    /\ tripOpen
    /\ \A c \in Bookings, q \in Passengers : Occupies(c, q, s) => <<c, q>> = <<b, p>>
    /\ ~Held(s)
    /\ GenderFits(b, s, gender[b][p])
    /\ seat' = [seat EXCEPT ![b][p] = s]
    /\ moved' = [moved EXCEPT ![b] = TRUE]
    /\ UNCHANGED <<tripVars, holdVars, status, pax, gender, asg, moneyVars, refundOpen>>

(* replace_booking_passenger: another person, perhaps of another gender,   *)
(* takes the place of p.                                                   *)
ReplacePassenger(b, p, g) ==
    /\ status[b] \in {"confirmed", "awaiting_payment"}
    /\ pax[b][p] = "active"
    /\ asg[b][p] = "active"
    /\ g # gender[b][p] => GenderFits(b, seat[b][p], g)
    /\ gender' = [gender EXCEPT ![b][p] = g]
    /\ UNCHANGED <<tripVars, holdVars, status, pax, seat, asg, moved, moneyVars, refundOpen>>

-----------------------------------------------------------------------------
(* Payments *)

(* create_public_payment_intent for the electronic method: the amount is   *)
(* the outstanding one at this moment, and the booking may be in any       *)
(* status.                                                                 *)
OpenIntent(b) ==
    /\ status[b] # "none"
    /\ due[b] = 0
    /\ Outstanding(b) > 0
    /\ due' = [due EXCEPT ![b] = Outstanding(b)]
    /\ UNCHANGED <<tripVars, holdVars, status, seatVars, paid, paidInTime, caseOpen, refundOpen>>

PassengersExist(b) == Present(b) # {} \* wrong on purpose
InventoryComplete(b) ==
    Present(b) # {} /\ \A p \in Present(b) : asg[b][p] = "active"

CanRestoreBlind(b) == Present(b) # {} /\ ~moved[b] /\ tripOpen \* wrong on purpose
(* _try_restore_inventory succeeds: one assignment per passenger, no seat  *)
(* of theirs active for another booking, all of them sellable.  It asks    *)
(* neither who is cancelled, nor who holds the seat, nor who sits next.    *)
CanRestore(b) ==
    /\ Present(b) # {}
    /\ ~moved[b]
    /\ tripOpen
    /\ \A p \in Present(b), c \in Bookings \ {b}, q \in Passengers :
           ~Occupies(c, q, seat[b][p])

Restored(b) == [p \in Passengers |-> IF pax[b][p] = "none" THEN asg[b][p] ELSE "active"]

(* can_confirm, with paid_amount raised by the payment *)
ConfirmsUnseated(b, amount, inTime, seated) == paid[b] + amount >= Total(b) /\ inTime \* wrong on purpose
CanConfirm(b, amount, inTime, seated) ==
    paid[b] + amount >= Total(b) /\ inTime /\ seated

(* A payment that does not confirm opens a case, late or without a seat.   *)
NeedsCaseWhenLate(confirmed, inTime) == ~inTime \* wrong on purpose
NeedsCase(confirmed, inTime) == ~confirmed

(* _complete_booking_after_payment for an amount that was paid in time or  *)
(* late.                                                                   *)
CompleteAfterPayment(b, amount, inTime) ==
    LET restored  == ~InventoryComplete(b) /\ inTime /\ CanRestore(b)
        seated    == InventoryComplete(b) \/ restored
        confirmed == CanConfirm(b, amount, inTime, seated)
    IN  /\ inTime \/ now > deadline[b]
        /\ asg' = [asg EXCEPT ![b] = IF restored THEN Restored(b) ELSE @]
        /\ paid' = [paid EXCEPT ![b] = @ + amount]
        /\ paidInTime' = [paidInTime EXCEPT ![b] = @ \/ inTime]
        /\ status' = [status EXCEPT ![b] = IF confirmed THEN "confirmed" ELSE @]
        /\ caseOpen' = [caseOpen EXCEPT ![b] = @ \/ NeedsCase(confirmed, inTime)]

(* process_payment_webhook of a matching event: the provider's success     *)
(* arrives, also for an intent that has expired in the meantime.           *)
CaptureIntent(b, inTime) ==
    /\ due[b] > 0
    /\ CompleteAfterPayment(b, due[b], inTime)
    /\ due' = [due EXCEPT ![b] = 0]
    /\ UNCHANGED <<tripVars, holdVars, pax, gender, seat, moved, refundOpen>>

(* record_office_cash_payment: the office takes the outstanding amount.    *)
RecordOfficeCash(b, inTime) ==
    /\ status[b] # "none"
    /\ Outstanding(b) > 0
    /\ CompleteAfterPayment(b, Outstanding(b), inTime)
    /\ UNCHANGED <<tripVars, holdVars, pax, gender, seat, moved, due, refundOpen>>

(* expire_due_unpaid_bookings, the periodic job: overdue unpaid bookings   *)
(* release their seats, all in one transaction.                            *)
OverdueWithoutIntent(b) == \* wrong on purpose
    /\ status[b] = "awaiting_payment"
    /\ deadline[b] < now
    /\ paid[b] < Total(b)
    /\ due[b] = 0
Overdue(b) ==
    /\ status[b] = "awaiting_payment"
    /\ deadline[b] < now
    /\ paid[b] < Total(b)
    /\ ~paidInTime[b]

ExpireUnpaidBookings ==
    /\ \E b \in Bookings : Overdue(b)
    /\ status' = [b \in Bookings |-> IF Overdue(b) THEN "cancelled" ELSE status[b]]
    /\ asg' = [b \in Bookings |-> [p \in Passengers |->
                  IF Overdue(b) /\ asg[b][p] = "active" THEN "released" ELSE asg[b][p]]]
    /\ UNCHANGED <<tripVars, holdVars, pax, gender, seat, moved, moneyVars, refundOpen>>

(* command_refund, reject or cancel: the refund closes and the booking is   *)
(* not looked at again.                                                    *)
RefundRefused(b, p) ==
    /\ p \in refundOpen[b]
    /\ refundOpen' = [refundOpen EXCEPT ![b] = @ \ {p}]
    /\ UNCHANGED <<tripVars, holdVars, status, seatVars, moneyVars>>

(* command_refund, succeed: _finalize_booking_after_refund cancels the     *)
(* booking when nobody travels and no other refund is open.                *)
RefundSucceeds(b, p) ==
    /\ p \in refundOpen[b]
    /\ refundOpen' = [refundOpen EXCEPT ![b] = @ \ {p}]
    /\ status' = [status EXCEPT ![b] =
                     IF Travelling(b) = {} /\ refundOpen[b] = {p} THEN "cancelled" ELSE @]
    /\ UNCHANGED <<tripVars, holdVars, seatVars, moneyVars>>

-----------------------------------------------------------------------------
(* The trip and the clock *)

(* update_trip: any material change bumps the version and makes the quotes *)
(* of outstanding holds stale.                                             *)
UpdateTrip ==
    /\ tripOpen
    /\ version < MaxVersion
    /\ version' = version + 1
    /\ UNCHANGED <<now, tripOpen, holdVars, status, seatVars, moneyVars, refundOpen>>

(* command_trip, cancel: the seats stop being sellable and the live        *)
(* bookings wait for their cancellation; their assignments stay.           *)
CancelTrip ==
    /\ tripOpen
    /\ tripOpen' = FALSE
    /\ version' = version + 1
    /\ status' = [b \in Bookings |->
                     IF status[b] \in {"awaiting_payment", "confirmed", "cancellation_pending"}
                     THEN "cancellation_pending" ELSE status[b]]
    /\ UNCHANGED <<now, holdVars, seatVars, moneyVars, refundOpen>>

Tick ==
    /\ now < MaxTime
    /\ now' = now + 1
    /\ UNCHANGED <<tripOpen, version, holdVars, status, seatVars, moneyVars, refundOpen>>

-----------------------------------------------------------------------------

Init ==
    /\ now = 0
    /\ tripOpen = TRUE
    /\ version = 1
    /\ hold = [b \in Bookings |-> [s \in Seats |-> "none"]]
    /\ holdExpiry = [b \in Bookings |-> 0]
    /\ quote = [b \in Bookings |-> 0]
    /\ deadline = [b \in Bookings |-> 0]
    /\ status = [b \in Bookings |-> "none"]
    /\ pax = [b \in Bookings |-> [p \in Passengers |-> "none"]]
    /\ gender = [b \in Bookings |-> [p \in Passengers |-> CHOOSE g \in Genders : TRUE]]
    /\ seat = [b \in Bookings |-> [p \in Passengers |-> NoSeat]]
    /\ asg = [b \in Bookings |-> [p \in Passengers |-> "none"]]
    /\ moved = [b \in Bookings |-> FALSE]
    /\ due = [b \in Bookings |-> 0]
    /\ paid = [b \in Bookings |-> 0]
    /\ paidInTime = [b \in Bookings |-> FALSE]
    /\ caseOpen = [b \in Bookings |-> FALSE]
    /\ refundOpen = [b \in Bookings |-> {}]

Customer(b) ==
    \/ \E S \in (SUBSET Seats) \ {{}} : Cardinality(S) <= MaxPax /\ CreateHold(b, S)
    \/ ReleaseHold(b)
    \/ \E n \in Passengers :
           \E sit \in [1 .. n -> Seats], gen \in [1 .. n -> Genders], cash \in BOOLEAN :
               CreateBooking(b, n, sit, gen, cash)
    \/ \E P \in SUBSET Passengers, refunded \in BOOLEAN : CancelPassengers(b, P, refunded)
    \/ OpenIntent(b)

Office(b) ==
    \/ \E p \in Passengers, s \in Seats : ChangeSeat(b, p, s)
    \/ \E p \in Passengers, g \in Genders : ReplacePassenger(b, p, g)
    \/ \E inTime \in BOOLEAN : RecordOfficeCash(b, inTime)
    \/ \E p \in Passengers : RefundSucceeds(b, p) \/ RefundRefused(b, p)

Provider(b) == \E inTime \in BOOLEAN : CaptureIntent(b, inTime)

Next ==
    \/ \E b \in Bookings : Customer(b) \/ Office(b) \/ Provider(b)
    \/ ExpireDueHolds
    \/ ExpireUnpaidBookings
    \/ UpdateTrip
    \/ CancelTrip
    \/ Tick

Spec == Init /\ [][Next]_vars

(* The clock runs and Celery beat starts both jobs every 30 seconds        *)
(* (config/settings.py); nobody else is obliged to act.                    *)
FairSpec ==
    /\ Spec
    /\ WF_vars(Tick)
    /\ WF_vars(ExpireDueHolds)
    /\ WF_vars(ExpireUnpaidBookings)

-----------------------------------------------------------------------------
(* What the code must never do *)

(* One seat is sold to at most one passenger.  The database has a partial  *)
(* unique index for this (SeatAssignment, uq_active_seat_assignment); the  *)
(* handlers here do not lean on it, so their own checks must suffice.      *)
NoDoubleSale ==
    \A b, c \in Bookings, p, q \in Passengers, s \in Seats :
        Occupies(b, p, s) /\ Occupies(c, q, s) => b = c /\ p = q

(* What NoDoubleSale rests on.  A restoration gives a booking its old      *)
(* seats back without comparing them with each other: unless somebody was  *)
(* moved, they are the distinct seats of the sale, and only passengers     *)
(* that exist have one.                                                    *)
SeatsAreDistinct ==
    \A b \in Bookings : ~moved[b] =>
        \A p, q \in Present(b) : seat[b][p] = seat[b][q] => p = q
OnlyPassengersAreSeated ==
    \A b \in Bookings, p \in Passengers : pax[b][p] = "none" => asg[b][p] = "none"
SeatInv == NoDoubleSale /\ SeatsAreDistinct /\ OnlyPassengersAreSeated

(* Two batches never both have an ACTIVE hold row on a seat, run out or    *)
(* not: create_public_seat_hold expires the due rows it would collide with *)
(* (SeatHold, uq_active_hold_per_seat).                                    *)
OneActiveHoldPerSeat ==
    \A b, c \in Bookings, s \in Seats :
        hold[b][s] = "active" /\ hold[c][s] = "active" => b = c

(* Whoever is still expected to travel has a seat, whatever sequence of    *)
(* cancellations, moves, payments and expiries the booking went through.   *)
LiveBookingIsSeated ==
    \A b \in Bookings :
        status[b] \in {"awaiting_payment", "confirmed", "cancellation_pending"} =>
            \A p \in Travelling(b) : asg[b][p] = "active"

(* Money that came in for passengers who still want to travel, but whose   *)
(* booking is not confirmed, is never forgotten: a reconciliation case is  *)
(* open (_complete_booking_after_payment).                                 *)
UnservedMoneyHasACase ==
    \A b \in Bookings :
        paid[b] > 0 /\ Travelling(b) # {} /\ status[b] \in {"awaiting_payment", "cancelled"}
            => caseOpen[b]

(* A booking leaves the cancelled state only when money paid by the        *)
(* deadline covers it and every one of its passengers is seated again      *)
(* (_try_restore_inventory); late money never revives it.                  *)
LateMoneyNeverRevives ==
    [][\A b \in Bookings :
          status[b] = "cancelled" /\ status'[b] # "cancelled" =>
              /\ paidInTime'[b] /\ paid'[b] >= Total(b)
              /\ \A p \in Present(b) : asg'[b][p] = "active"]_vars

(* Passengers of different bookings and genders sit side by side.          *)
GenderConflict(b, p, c, q) ==
    /\ b # c
    /\ asg[b][p] = "active" /\ asg[c][q] = "active"
    /\ {seat[b][p], seat[c][q]} \in Adjacent
    /\ gender[b][p] # gender[c][q]

(* Sales, seat changes and passenger replacements never seat two genders   *)
(* side by side: only the restoration of paid seats can, for it does not   *)
(* call _assert_gender_adjacency.                                          *)
GenderConflictOnlyByRestore ==
    [][\A b, c \in Bookings, p, q \in Passengers :
          GenderConflict(b, p, c, q)' => GenderConflict(b, p, c, q) \/ paid' # paid]_vars

(* Booking c occupies a seat that batch b still holds.                     *)
HoldBroken(b, c, s) == b # c /\ HeldBy(b, s) /\ \E p \in Passengers : Occupies(c, p, s)

(* A seat under a running hold is never sold to somebody else, except by   *)
(* the restoration of paid seats, which does not look at holds.            *)
HoldBrokenOnlyByRestore ==
    [][\A b, c \in Bookings, s \in Seats :
          HoldBroken(b, c, s)' => HoldBroken(b, c, s) \/ paid' # paid]_vars

(* The inventory as SeatSale sees it.                                      *)
owner == [s \in Seats |->
             IF Assigned(s)
             THEN CHOOSE b \in Bookings : \E p \in Passengers : Occupies(b, p, s)
             ELSE Free]
Sale == INSTANCE SeatSale WITH Seats <- Seats, Bookings <- Bookings, Free <- Free, owner <- owner
(* Every handler is, for the seats, a sale of free seats, their return or  *)
(* a move to a free seat.                                                  *)
ImplementsSeatSale == Sale!Spec

-----------------------------------------------------------------------------
(* What must happen in the end *)

(* A hold that runs out within the modelled time is not active for ever.   *)
HoldsEnd ==
    \A b \in Bookings, s \in Seats :
        (hold[b][s] = "active" /\ holdExpiry[b] <= MaxTime) ~> hold[b][s] # "active"

(* An unpaid booking does not keep its seats beyond its deadline.          *)
UnpaidSeatsComeBack ==
    \A b \in Bookings :
        (status[b] = "awaiting_payment" /\ deadline[b] < MaxTime)
            ~> (status[b] # "awaiting_payment" \/ paid[b] > 0)

-----------------------------------------------------------------------------
(* What the documents say, and the code does not keep *)

(* A booking that awaits payment, is paid in full in time and whose        *)
(* travelling passengers are all seated becomes confirmed.                 *)
PaidInTimeIsConfirmed ==
    \A b \in Bookings :
        /\ status[b] = "awaiting_payment"
        /\ paidInTime[b]
        /\ Travelling(b) # {} /\ paid[b] >= Total(b)
        => \E p \in Travelling(b) : asg[b][p] # "active"
=============================================================================
