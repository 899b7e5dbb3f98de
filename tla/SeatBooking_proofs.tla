------------------------- MODULE SeatBooking_proofs -------------------------
(***************************************************************************)
(* What holds of SeatBooking for every number of seats, bookings and       *)
(* passengers, every adjacency and every time-to-live.                     *)
(***************************************************************************)
EXTENDS SeatBooking, FiniteSetTheorems, TLAPS

-----------------------------------------------------------------------------
(* Type correctness *)

(* A cancelled trip may have the version after the last one UpdateTrip     *)
(* reaches, an open trip may not.                                          *)
VersionBound == tripOpen => version <= MaxVersion
TypeInv == TypeOK /\ VersionBound

(* The number of travelling passengers is a natural number.                *)
LEMMA TotalIsNat == ASSUME NEW b \in Bookings PROVE Total(b) \in Nat
<1>1. IsFiniteSet(1 .. MaxPax)
    BY FS_Interval, ConstantsAssumption
<1>2. Travelling(b) \subseteq 1 .. MaxPax
    BY DEF Travelling, Passengers
<1>3. QED
    BY <1>1, <1>2, FS_Subset, FS_CardinalityType DEF Total

LEMMA OutstandingIsNat ==
    ASSUME TypeOK, NEW b \in Bookings, Outstanding(b) > 0 PROVE Outstanding(b) \in Nat
BY TotalIsNat DEF Outstanding, TypeOK

LEMMA InitType == Init => TypeInv
<1>1. (CHOOSE g \in Genders : TRUE) \in Genders
    BY ConstantsAssumption
<1>2. QED
    BY <1>1, ConstantsAssumption
    DEF Init, TypeInv, TypeOK, VersionBound, HoldStatus, BookingStatus, PaxStatus, AsgStatus

LEMMA CompleteType ==
    ASSUME TypeInv, NEW b \in Bookings, NEW amount \in Nat, NEW inTime \in BOOLEAN,
           CompleteAfterPayment(b, amount, inTime)
    PROVE  /\ asg' \in [Bookings -> [Passengers -> AsgStatus]]
           /\ paid' \in [Bookings -> Nat]
           /\ paidInTime' \in [Bookings -> BOOLEAN]
           /\ status' \in [Bookings -> BookingStatus]
           /\ caseOpen' \in [Bookings -> BOOLEAN]
<1>1. Restored(b) \in [Passengers -> AsgStatus]
    BY DEF TypeInv, TypeOK, Restored, AsgStatus
<1>2. asg' \in [Bookings -> [Passengers -> AsgStatus]]
    BY <1>1 DEF CanConfirm, NeedsCase, CompleteAfterPayment, TypeInv, TypeOK
<1>3. paid' \in [Bookings -> Nat] /\ paidInTime' \in [Bookings -> BOOLEAN]
    BY DEF CanConfirm, NeedsCase, CompleteAfterPayment, TypeInv, TypeOK
<1>4. status' \in [Bookings -> BookingStatus]
    BY DEF CanConfirm, NeedsCase, CompleteAfterPayment, TypeInv, TypeOK, BookingStatus
<1>5. caseOpen' \in [Bookings -> BOOLEAN]
    BY DEF CanConfirm, NeedsCase, CompleteAfterPayment, TypeInv, TypeOK
<1>6. QED
    BY <1>2, <1>3, <1>4, <1>5

LEMMA NextType == TypeInv /\ [Next]_vars => TypeInv'
<1> SUFFICES ASSUME TypeInv, [Next]_vars PROVE TypeInv'
    OBVIOUS
<1> USE ConstantsAssumption
<1>1. ASSUME NEW b \in Bookings, NEW S \in SUBSET Seats, CreateHold(b, S) PROVE TypeInv'
    BY <1>1 DEF TypeInv, TypeOK, VersionBound, CreateHold, Bookable, ExpiredOn, HoldStatus, tripVars, seatVars, moneyVars
<1>2. ASSUME NEW b \in Bookings, ReleaseHold(b) PROVE TypeInv'
    BY <1>2 DEF TypeInv, TypeOK, VersionBound, ReleaseHold, HoldStatus, tripVars, seatVars, moneyVars
<1>3. ASSUME ExpireDueHolds PROVE TypeInv'
    BY <1>3 DEF TypeInv, TypeOK, VersionBound, ExpireDueHolds, ExpiredOn, HoldStatus, tripVars, seatVars, moneyVars
<1>4. ASSUME NEW b \in Bookings, NEW n \in Passengers, NEW sit \in [1 .. n -> Seats],
             NEW gen \in [1 .. n -> Genders], NEW cash \in BOOLEAN,
             CreateBooking(b, n, sit, gen, cash)
      PROVE  TypeInv'
    BY <1>4 DEF TypeInv, TypeOK, VersionBound, CreateBooking, Bookable, HoldStatus, BookingStatus, PaxStatus, AsgStatus, tripVars, moneyVars
<1>5. ASSUME NEW b \in Bookings, NEW P \in SUBSET Passengers, NEW refunded \in BOOLEAN,
             CancelPassengers(b, P, refunded)
      PROVE  TypeInv'
    BY <1>5 DEF TypeInv, TypeOK, VersionBound, CancelPassengers, BookingStatus, PaxStatus, AsgStatus, tripVars, holdVars, moneyVars
<1>6. ASSUME NEW b \in Bookings, NEW p \in Passengers, NEW s \in Seats, ChangeSeat(b, p, s)
      PROVE  TypeInv'
    BY <1>6 DEF TypeInv, TypeOK, VersionBound, ChangeSeat, tripVars, holdVars, moneyVars
<1>7. ASSUME NEW b \in Bookings, NEW p \in Passengers, NEW g \in Genders, ReplacePassenger(b, p, g)
      PROVE  TypeInv'
    BY <1>7 DEF TypeInv, TypeOK, VersionBound, ReplacePassenger, tripVars, holdVars, moneyVars
<1>8. ASSUME NEW b \in Bookings, OpenIntent(b) PROVE TypeInv'
    <2>1. Outstanding(b) \in Nat
        BY <1>8, OutstandingIsNat DEF TypeInv, OpenIntent
    <2>2. QED
        BY <1>8, <2>1 DEF TypeInv, TypeOK, VersionBound, OpenIntent, tripVars, holdVars, seatVars
<1>9. ASSUME NEW b \in Bookings, NEW inTime \in BOOLEAN, CaptureIntent(b, inTime) PROVE TypeInv'
    <2>1. due[b] \in Nat
        BY DEF TypeInv, TypeOK
    <2>2. CompleteAfterPayment(b, due[b], inTime)
        BY <1>9 DEF TypeInv, TypeOK, VersionBound, CaptureIntent
    <2>3. due' \in [Bookings -> Nat]
        BY <1>9 DEF TypeInv, TypeOK, VersionBound, CaptureIntent
    <2>4. QED
        BY <1>9, <2>1, <2>2, <2>3, CompleteType DEF TypeInv, TypeOK, VersionBound, CaptureIntent, tripVars, holdVars
<1>10. ASSUME NEW b \in Bookings, NEW inTime \in BOOLEAN, RecordOfficeCash(b, inTime) PROVE TypeInv'
    <2>1. Outstanding(b) \in Nat
        BY <1>10, OutstandingIsNat DEF TypeInv, RecordOfficeCash
    <2>2. CompleteAfterPayment(b, Outstanding(b), inTime)
        BY <1>10 DEF TypeInv, TypeOK, VersionBound, RecordOfficeCash
    <2>3. QED
        BY <1>10, <2>1, <2>2, CompleteType DEF TypeInv, TypeOK, VersionBound, RecordOfficeCash, tripVars, holdVars
<1>11. ASSUME ExpireUnpaidBookings PROVE TypeInv'
    BY <1>11 DEF TypeInv, TypeOK, VersionBound, ExpireUnpaidBookings, BookingStatus, AsgStatus, tripVars, holdVars, moneyVars
<1>12. ASSUME NEW b \in Bookings, NEW p \in Passengers, RefundSucceeds(b, p) \/ RefundRefused(b, p)
       PROVE  TypeInv'
    <2>1. refundOpen' \in [Bookings -> SUBSET Passengers]
        <3>1. refundOpen[b] \ {p} \in SUBSET Passengers
            BY DEF TypeInv, TypeOK
        <3>2. refundOpen' = [refundOpen EXCEPT ![b] = refundOpen[b] \ {p}]
            BY <1>12 DEF RefundSucceeds, RefundRefused
        <3>3. QED
            BY <3>1, <3>2 DEF TypeInv, TypeOK
    <2>2. status' \in [Bookings -> BookingStatus]
        BY <1>12 DEF TypeInv, TypeOK, RefundSucceeds, RefundRefused, BookingStatus
    <2>3. UNCHANGED <<tripVars, holdVars, seatVars, moneyVars>>
        BY <1>12 DEF RefundSucceeds, RefundRefused
    <2>4. QED
        BY <2>1, <2>2, <2>3 DEF TypeInv, TypeOK, VersionBound, tripVars, holdVars, seatVars, moneyVars
<1>13. ASSUME UpdateTrip \/ CancelTrip \/ Tick PROVE TypeInv'
    <2>1. CASE UpdateTrip
        BY <2>1 DEF TypeInv, TypeOK, VersionBound, UpdateTrip, holdVars, seatVars, moneyVars
    <2>2. CASE CancelTrip
        <3>1. version' \in 1 .. MaxVersion + 1
            BY <2>2 DEF TypeInv, TypeOK, VersionBound, CancelTrip
        <3>2. status' \in [Bookings -> BookingStatus]
            BY <2>2 DEF TypeInv, TypeOK, CancelTrip, BookingStatus
        <3>3. tripOpen' = FALSE /\ UNCHANGED <<now, holdVars, seatVars, moneyVars, refundOpen>>
            BY <2>2 DEF CancelTrip
        <3>4. QED
            BY <3>1, <3>2, <3>3 DEF TypeInv, TypeOK, VersionBound, holdVars, seatVars, moneyVars
    <2>3. CASE Tick
        <3>1. now' \in 0 .. MaxTime
            BY <2>3 DEF TypeInv, TypeOK, Tick
        <3>2. UNCHANGED <<tripOpen, version, holdVars, status, seatVars, moneyVars, refundOpen>>
            BY <2>3 DEF Tick
        <3>3. QED
            BY <3>1, <3>2 DEF TypeInv, TypeOK, VersionBound, holdVars, seatVars, moneyVars
    <2>4. QED
        BY <1>13, <2>1, <2>2, <2>3
<1>14. ASSUME UNCHANGED vars PROVE TypeInv'
    BY <1>14 DEF TypeInv, TypeOK, VersionBound, vars
<1>15. QED
    BY <1>1, <1>2, <1>3, <1>4, <1>5, <1>6, <1>7, <1>8, <1>9, <1>10, <1>11, <1>12, <1>13, <1>14
    DEF Next, Customer, Office, Provider

(* Every reachable state has the declared types, and the version never     *)
(* leaves its bound.                                                       *)
THEOREM TypeCorrect == Spec => []TypeOK
<1>1. Spec => []TypeInv
    BY InitType, NextType, PTL DEF Spec
<1>2. TypeInv => TypeOK
    BY DEF TypeInv
<1>3. QED
    BY <1>1, <1>2, PTL

-----------------------------------------------------------------------------
(* No seat is sold twice *)

LEMMA InitSeat == Init => SeatInv
BY DEF Init, SeatInv, NoDoubleSale, Occupies, SeatsAreDistinct, Present, OnlyPassengersAreSeated

(* The seats of a booking change only by its creation, a cancellation, a   *)
(* seat change, a restoration or an expiry.                                *)
LEMMA CreateBookingSeat ==
    ASSUME TypeOK, SeatInv, NEW b \in Bookings, NEW n \in Passengers,
           NEW sit \in [1 .. n -> Seats], NEW gen \in [1 .. n -> Genders], NEW cash \in BOOLEAN,
           CreateBooking(b, n, sit, gen, cash)
    PROVE  SeatInv'
<1>1. /\ \A p \in Passengers : pax'[b][p] = IF p \in 1 .. n THEN "active" ELSE "none"
      /\ \A p \in Passengers : asg'[b][p] = IF p \in 1 .. n THEN "active" ELSE "none"
      /\ \A p \in Passengers : seat'[b][p] = IF p \in 1 .. n THEN sit[p] ELSE NoSeat
      /\ moved' = moved
    BY DEF CreateBooking, TypeOK
<1>2. \A c \in Bookings \ {b} : pax'[c] = pax[c] /\ asg'[c] = asg[c] /\ seat'[c] = seat[c]
    BY DEF CreateBooking, TypeOK
<1>3. \A p, q \in 1 .. n : sit[p] = sit[q] => p = q
    BY DEF CreateBooking
<1>4. \A p \in 1 .. n, c \in Bookings, q \in Passengers : ~Occupies(c, q, sit[p])
    BY DEF CreateBooking, Assigned
<1>5. NoDoubleSale'
    BY <1>1, <1>2, <1>3, <1>4 DEF SeatInv, NoDoubleSale, Occupies
<1>6. SeatsAreDistinct'
    BY <1>1, <1>2, <1>3 DEF SeatInv, SeatsAreDistinct, Present
<1>7. OnlyPassengersAreSeated'
    BY <1>1, <1>2 DEF SeatInv, OnlyPassengersAreSeated
<1>8. QED
    BY <1>5, <1>6, <1>7 DEF SeatInv

LEMMA CompleteSeat ==
    ASSUME TypeOK, SeatInv, NEW b \in Bookings, NEW amount, NEW inTime \in BOOLEAN,
           CompleteAfterPayment(b, amount, inTime), UNCHANGED <<pax, seat, moved>>
    PROVE  SeatInv'
<1>1. CASE asg' = asg
    BY <1>1 DEF SeatInv, NoDoubleSale, Occupies, SeatsAreDistinct, Present, OnlyPassengersAreSeated
<1>2. CASE CanRestore(b) /\ asg' = [asg EXCEPT ![b] = Restored(b)]
    <2>1. \A c \in Bookings \ {b} : asg'[c] = asg[c]
        BY <1>2 DEF TypeOK
    <2>2. \A p \in Passengers : asg'[b][p] = IF pax[b][p] = "none" THEN asg[b][p] ELSE "active"
        BY <1>2 DEF TypeOK, Restored
    <2>3. \A p \in Passengers : pax[b][p] = "none" => asg'[b][p] = "none"
        BY <2>2 DEF SeatInv, OnlyPassengersAreSeated
    <2>4. \A p \in Present(b), c \in Bookings \ {b}, q \in Passengers : ~Occupies(c, q, seat[b][p])
        BY <1>2 DEF CanRestore
    <2>5. \A p, q \in Present(b) : seat[b][p] = seat[b][q] => p = q
        BY <1>2 DEF CanRestore, SeatInv, SeatsAreDistinct
    <2>6. NoDoubleSale'
        BY <2>1, <2>3, <2>4, <2>5 DEF SeatInv, NoDoubleSale, Occupies, Present
    <2>7. SeatsAreDistinct'
        BY DEF SeatInv, SeatsAreDistinct, Present
    <2>8. OnlyPassengersAreSeated'
        BY <2>1, <2>3 DEF SeatInv, OnlyPassengersAreSeated
    <2>9. QED
        BY <2>6, <2>7, <2>8 DEF SeatInv
<1>3. QED
    BY <1>1, <1>2 DEF CanConfirm, NeedsCase, CompleteAfterPayment, TypeOK

LEMMA NextSeat == TypeOK /\ SeatInv /\ [Next]_vars => SeatInv'
<1> SUFFICES ASSUME TypeOK, SeatInv, [Next]_vars PROVE SeatInv'
    OBVIOUS
<1>1. ASSUME UNCHANGED seatVars PROVE SeatInv'
    BY <1>1 DEF seatVars, SeatInv, NoDoubleSale, Occupies, SeatsAreDistinct, Present,
                OnlyPassengersAreSeated
<1>2. ASSUME NEW b \in Bookings, NEW n \in Passengers, NEW sit \in [1 .. n -> Seats],
             NEW gen \in [1 .. n -> Genders], NEW cash \in BOOLEAN,
             CreateBooking(b, n, sit, gen, cash)
      PROVE  SeatInv'
    BY <1>2, CreateBookingSeat
<1>3. ASSUME NEW b \in Bookings, NEW P \in SUBSET Passengers, NEW refunded \in BOOLEAN,
             CancelPassengers(b, P, refunded)
      PROVE  SeatInv'
    <2>1. \A c \in Bookings, p \in Passengers :
              /\ asg'[c][p] = "active" => asg[c][p] = "active"
              /\ pax'[c][p] = "none" <=> pax[c][p] = "none"
              /\ pax[c][p] = "none" => asg'[c][p] = asg[c][p]
        BY <1>3 DEF CancelPassengers, TypeOK, Travelling
    <2>2. UNCHANGED <<seat, moved>>
        BY <1>3 DEF CancelPassengers
    <2>3. QED
        BY <2>1, <2>2 DEF SeatInv, NoDoubleSale, Occupies, SeatsAreDistinct, Present,
                          OnlyPassengersAreSeated
<1>4. ASSUME NEW b \in Bookings, NEW p \in Passengers, NEW s \in Seats, ChangeSeat(b, p, s)
      PROVE  SeatInv'
    <2>1. /\ \A c \in Bookings, q \in Passengers :
                 seat'[c][q] = IF c = b /\ q = p THEN s ELSE seat[c][q]
          /\ \A c \in Bookings : ~moved'[c] => ~moved[c] /\ c # b
          /\ UNCHANGED <<pax, asg>>
        BY <1>4 DEF ChangeSeat, TypeOK
    <2>2. \A c \in Bookings, q \in Passengers : Occupies(c, q, s) => c = b /\ q = p
        BY <1>4 DEF ChangeSeat
    <2>3. NoDoubleSale'
        BY <2>1, <2>2 DEF SeatInv, NoDoubleSale, Occupies
    <2>4. SeatsAreDistinct'
        BY <2>1 DEF SeatInv, SeatsAreDistinct, Present
    <2>5. OnlyPassengersAreSeated'
        BY <2>1 DEF SeatInv, OnlyPassengersAreSeated
    <2>6. QED
        BY <2>3, <2>4, <2>5 DEF SeatInv
<1>5. ASSUME NEW b \in Bookings, NEW p \in Passengers, NEW g \in Genders, ReplacePassenger(b, p, g)
      PROVE  SeatInv'
    BY <1>5 DEF ReplacePassenger, SeatInv, NoDoubleSale, Occupies, SeatsAreDistinct, Present,
                OnlyPassengersAreSeated
<1>6. ASSUME NEW b \in Bookings, NEW inTime \in BOOLEAN,
             CaptureIntent(b, inTime) \/ RecordOfficeCash(b, inTime)
      PROVE  SeatInv'
    BY <1>6, CompleteSeat DEF CaptureIntent, RecordOfficeCash
<1>7. ASSUME ExpireUnpaidBookings PROVE SeatInv'
    <2>1. \A c \in Bookings, p \in Passengers :
              /\ asg'[c][p] = "active" => asg[c][p] = "active"
              /\ asg[c][p] = "none" => asg'[c][p] = "none"
        BY <1>7 DEF ExpireUnpaidBookings, TypeOK
    <2>2. UNCHANGED <<pax, seat, moved>>
        BY <1>7 DEF ExpireUnpaidBookings
    <2>3. QED
        BY <2>1, <2>2 DEF SeatInv, NoDoubleSale, Occupies, SeatsAreDistinct, Present,
                          OnlyPassengersAreSeated
<1>8. ASSUME NEW b \in Bookings,
             \/ \E S \in SUBSET Seats : CreateHold(b, S)
             \/ ReleaseHold(b) \/ OpenIntent(b)
             \/ \E p \in Passengers : RefundSucceeds(b, p) \/ RefundRefused(b, p)
      PROVE  UNCHANGED seatVars
    BY <1>8 DEF Bookable, CreateHold, ReleaseHold, OpenIntent, RefundSucceeds, RefundRefused
<1>9. ASSUME ExpireDueHolds \/ UpdateTrip \/ CancelTrip \/ Tick \/ UNCHANGED vars
      PROVE  UNCHANGED seatVars
    BY <1>9 DEF ExpireDueHolds, UpdateTrip, CancelTrip, Tick, vars, seatVars
<1>10. QED
    BY <1>1, <1>2, <1>3, <1>4, <1>5, <1>6, <1>7, <1>8, <1>9 DEF Next, Customer, Office, Provider

(* No seat is ever sold to two passengers, for any number of seats,        *)
(* bookings and passengers, without the help of the unique index of the    *)
(* database: the checks of the handlers suffice.                           *)
THEOREM SeatsSoldOnce == Spec => []NoDoubleSale
<1>1. Spec => [](TypeInv /\ SeatInv)
    <2>1. Init => TypeInv /\ SeatInv
        BY InitType, InitSeat
    <2>2. TypeInv /\ SeatInv /\ [Next]_vars => TypeInv' /\ SeatInv'
        BY NextType, NextSeat DEF TypeInv
    <2>3. QED
        BY <2>1, <2>2, PTL DEF Spec
<1>2. SeatInv => NoDoubleSale
    BY DEF SeatInv
<1>3. QED
    BY <1>1, <1>2, PTL

-----------------------------------------------------------------------------
(* A seat has at most one active hold *)

LEMMA NextHold ==
    ASSUME TypeOK, OneActiveHoldPerSeat, [Next]_vars PROVE OneActiveHoldPerSeat'
<1>1. ASSUME NEW b \in Bookings, NEW S \in SUBSET Seats, CreateHold(b, S)
      PROVE  OneActiveHoldPerSeat'
    <2>1. \A c \in Bookings, s \in Seats :
              hold'[c][s] = IF c = b /\ s \in S THEN "active" ELSE ExpiredOn(c, s, S)
        BY <1>1 DEF Bookable, CreateHold
    <2>2. \A s \in Seats : hold[b][s] # "active"
        BY <1>1 DEF Bookable, CreateHold, Rows
    <2>3. \A c \in Bookings, s \in S : ~HeldBy(c, s)
        BY <1>1 DEF Bookable, CreateHold, Held
    <2>4. \A c \in Bookings, s \in S : ExpiredOn(c, s, S) # "active"
        BY <2>3, ConstantsAssumption DEF ExpiredOn, HeldBy, TypeOK
    <2>5. \A c \in Bookings, s \in Seats \ S : ExpiredOn(c, s, S) = hold[c][s]
        BY DEF ExpiredOn
    <2>6. QED
        BY <2>1, <2>2, <2>4, <2>5 DEF OneActiveHoldPerSeat
<1>2. ASSUME \A c \in Bookings, s \in Seats : hold'[c][s] = "active" => hold[c][s] = "active"
      PROVE  OneActiveHoldPerSeat'
    BY <1>2 DEF OneActiveHoldPerSeat
<1>3. ASSUME NEW b \in Bookings, ReleaseHold(b)
      PROVE  \A c \in Bookings, s \in Seats : hold'[c][s] = "active" => hold[c][s] = "active"
    BY <1>3 DEF ReleaseHold, TypeOK
<1>4. ASSUME ExpireDueHolds
      PROVE  \A c \in Bookings, s \in Seats : hold'[c][s] = "active" => hold[c][s] = "active"
    BY <1>4 DEF ExpireDueHolds, ExpiredOn
<1>5. ASSUME NEW b \in Bookings, NEW n \in Passengers, NEW sit \in [1 .. n -> Seats],
             NEW gen \in [1 .. n -> Genders], NEW cash \in BOOLEAN,
             CreateBooking(b, n, sit, gen, cash)
      PROVE  \A c \in Bookings, s \in Seats : hold'[c][s] = "active" => hold[c][s] = "active"
    BY <1>5 DEF CreateBooking, TypeOK
<1>6. ASSUME UNCHANGED hold PROVE OneActiveHoldPerSeat'
    BY <1>6 DEF OneActiveHoldPerSeat
<1>7. ASSUME NEW b \in Bookings,
             \/ OpenIntent(b) \/ Office(b) \/ Provider(b)
             \/ \E P \in SUBSET Passengers, refunded \in BOOLEAN : CancelPassengers(b, P, refunded)
      PROVE  UNCHANGED hold
    BY <1>7 DEF OpenIntent, Office, Provider, CancelPassengers, ChangeSeat, ReplacePassenger,
                RecordOfficeCash, RefundSucceeds, RefundRefused, CaptureIntent, holdVars
<1>8. ASSUME ExpireUnpaidBookings \/ UpdateTrip \/ CancelTrip \/ Tick \/ UNCHANGED vars
      PROVE  UNCHANGED hold
    BY <1>8 DEF ExpireUnpaidBookings, UpdateTrip, CancelTrip, Tick, vars, holdVars
<1>9. QED
    BY <1>1, <1>2, <1>3, <1>4, <1>5, <1>6, <1>7, <1>8 DEF Next, Customer

(* Two batches never both have an ACTIVE row on a seat, so the insertion   *)
(* of a hold never meets the unique index.                                 *)
THEOREM HeldOnce == Spec => []OneActiveHoldPerSeat
<1>1. Init => TypeInv /\ OneActiveHoldPerSeat
    BY InitType DEF Init, OneActiveHoldPerSeat
<1>2. TypeInv /\ OneActiveHoldPerSeat /\ [Next]_vars => TypeInv' /\ OneActiveHoldPerSeat'
    BY NextType, NextHold DEF TypeInv
<1>3. QED
    BY <1>1, <1>2, PTL DEF Spec

-----------------------------------------------------------------------------
(* Live bookings are seated, and their money is accounted for *)

(* No money is asked for or taken before a booking exists.                 *)
FreshBookingIsUnpaid ==
    \A b \in Bookings : status[b] = "none" => paid[b] = 0 /\ due[b] = 0
BookingInv == LiveBookingIsSeated /\ UnservedMoneyHasACase /\ FreshBookingIsUnpaid

LEMMA InitBooking == Init => BookingInv
BY DEF Init, BookingInv, LiveBookingIsSeated, UnservedMoneyHasACase, FreshBookingIsUnpaid

LEMMA CompleteBooking ==
    ASSUME TypeOK, BookingInv, NEW b \in Bookings, NEW amount \in Nat, NEW inTime \in BOOLEAN,
           CompleteAfterPayment(b, amount, inTime), status[b] # "none",
           UNCHANGED pax, \A c \in Bookings \ {b} : due'[c] = due[c]
    PROVE  BookingInv'
<1>1. \A c \in Bookings \ {b} : /\ asg'[c] = asg[c] /\ status'[c] = status[c]
                                /\ paid'[c] = paid[c] /\ caseOpen'[c] = caseOpen[c]
    BY DEF CanConfirm, NeedsCase, CompleteAfterPayment, TypeOK
<1>2. status'[b] # "none" /\ status'[b] \in {status[b], "confirmed"}
    BY DEF CanConfirm, NeedsCase, CompleteAfterPayment, TypeOK
<1>3. CASE status'[b] = "confirmed" /\ \A p \in Travelling(b) : asg'[b][p] = "active"
    BY <1>1, <1>3 DEF BookingInv, LiveBookingIsSeated, UnservedMoneyHasACase,
                      FreshBookingIsUnpaid, Travelling
<1>4. CASE caseOpen'[b] /\ status'[b] = status[b] /\ \A p \in Travelling(b) :
               asg'[b][p] = "active" \/ asg'[b][p] = asg[b][p]
    BY <1>1, <1>2, <1>4 DEF BookingInv, LiveBookingIsSeated, UnservedMoneyHasACase,
                            FreshBookingIsUnpaid, Travelling
<1>5. \A p \in Travelling(b) : Restored(b)[p] = "active"
    BY DEF Restored, Travelling, TypeOK
<1>6. InventoryComplete(b) => \A p \in Travelling(b) : asg[b][p] = "active"
    BY DEF InventoryComplete, Travelling, Present
<1>7. asg'[b] = asg[b] \/ asg'[b] = Restored(b)
    BY DEF CanConfirm, NeedsCase, CompleteAfterPayment, TypeOK
<1>8. \/ status'[b] = "confirmed" /\ \A p \in Travelling(b) : asg'[b][p] = "active"
      \/ caseOpen'[b] /\ status'[b] = status[b]
    BY <1>5, <1>6 DEF CanConfirm, NeedsCase, CompleteAfterPayment, TypeOK
<1>9. QED
    BY <1>3, <1>4, <1>5, <1>7, <1>8

LEMMA NextBooking ==
    ASSUME TypeOK, BookingInv, [Next]_vars PROVE BookingInv'
<1> USE DEF BookingInv, LiveBookingIsSeated, UnservedMoneyHasACase, FreshBookingIsUnpaid, Travelling
<1>1. ASSUME UNCHANGED <<status, pax, asg, due, paid, caseOpen>> PROVE BookingInv'
    BY <1>1
<1>2. ASSUME NEW b \in Bookings, NEW n \in Passengers, NEW sit \in [1 .. n -> Seats],
             NEW gen \in [1 .. n -> Genders], NEW cash \in BOOLEAN,
             CreateBooking(b, n, sit, gen, cash)
      PROVE  BookingInv'
    BY <1>2 DEF CreateBooking, Bookable, TypeOK, moneyVars
<1>3. ASSUME NEW b \in Bookings, NEW P \in SUBSET Passengers, NEW refunded \in BOOLEAN,
             CancelPassengers(b, P, refunded)
      PROVE  BookingInv'
    <2>1. \A c \in Bookings, p \in Passengers :
              pax'[c][p] = "active" => pax[c][p] = "active" /\ asg'[c][p] = asg[c][p]
        BY <1>3 DEF CancelPassengers, TypeOK
    <2>2. \A c \in Bookings :
              \/ status'[c] = status[c]
              \/ /\ status[c] \in {"confirmed", "awaiting_payment"}
                 /\ status'[c] \in {"cancellation_pending", "cancelled"}
                 /\ \A p \in Passengers : pax'[c][p] # "active"
        BY <1>3 DEF CancelPassengers, TypeOK
    <2>3. UNCHANGED <<due, paid, caseOpen>>
        BY <1>3 DEF CancelPassengers, moneyVars
    <2>4. LiveBookingIsSeated'
        BY <2>1, <2>2
    <2>5. UnservedMoneyHasACase'
        <3>1. \A c \in Bookings : {p \in Passengers : pax'[c][p] = "active"} # {}
                  => status'[c] = status[c] /\ {p \in Passengers : pax[c][p] = "active"} # {}
            BY <2>1, <2>2
        <3>2. QED
            BY <3>1, <2>3
    <2>6. FreshBookingIsUnpaid'
        BY <2>2, <2>3
    <2>7. QED
        BY <2>4, <2>5, <2>6
<1>4. ASSUME NEW b \in Bookings, OpenIntent(b) PROVE BookingInv'
    BY <1>4 DEF OpenIntent, TypeOK, seatVars
<1>5. ASSUME NEW b \in Bookings, NEW inTime \in BOOLEAN, CaptureIntent(b, inTime) PROVE BookingInv'
    <2>1. due[b] \in Nat /\ due[b] > 0 /\ CompleteAfterPayment(b, due[b], inTime)
        BY <1>5 DEF CaptureIntent, TypeOK
    <2>2. status[b] # "none" /\ UNCHANGED pax /\ \A c \in Bookings \ {b} : due'[c] = due[c]
        BY <1>5, <2>1 DEF CaptureIntent, TypeOK
    <2>3. QED
        BY <2>1, <2>2, CompleteBooking
<1>6. ASSUME NEW b \in Bookings, NEW inTime \in BOOLEAN, RecordOfficeCash(b, inTime) PROVE BookingInv'
    <2>1. Outstanding(b) \in Nat
        BY <1>6, OutstandingIsNat DEF RecordOfficeCash
    <2>2. CompleteAfterPayment(b, Outstanding(b), inTime) /\ status[b] # "none"
        BY <1>6 DEF RecordOfficeCash
    <2>3. UNCHANGED <<pax, due>>
        BY <1>6 DEF RecordOfficeCash
    <2>4. QED
        BY <2>1, <2>2, <2>3, CompleteBooking
<1>7. ASSUME ExpireUnpaidBookings PROVE BookingInv'
    <2>1. \A c \in Bookings :
              \/ status'[c] = status[c] /\ \A p \in Passengers : asg'[c][p] = asg[c][p]
              \/ status[c] = "awaiting_payment" /\ status'[c] = "cancelled"
        BY <1>7 DEF ExpireUnpaidBookings, Overdue, TypeOK
    <2>2. UNCHANGED <<pax, due, paid, caseOpen>>
        BY <1>7 DEF ExpireUnpaidBookings, moneyVars
    <2>3. QED
        BY <2>1, <2>2
<1>8. ASSUME NEW b \in Bookings, NEW p \in Passengers, RefundSucceeds(b, p) PROVE BookingInv'
    <2>1. \A c \in Bookings :
              \/ status'[c] = status[c]
              \/ c = b /\ Travelling(b) = {} /\ status'[c] = "cancelled"
        BY <1>8 DEF RefundSucceeds, TypeOK
    <2>2. UNCHANGED <<pax, asg, due, paid, caseOpen>>
        BY <1>8 DEF RefundSucceeds, moneyVars, seatVars
    <2>3. QED
        BY <2>1, <2>2
<1>9. ASSUME CancelTrip PROVE BookingInv'
    <2>1. \A c \in Bookings :
              \/ status'[c] = status[c]
              \/ /\ status'[c] = "cancellation_pending"
                 /\ status[c] \in {"awaiting_payment", "confirmed", "cancellation_pending"}
        BY <1>9 DEF CancelTrip
    <2>2. UNCHANGED <<pax, asg, due, paid, caseOpen>>
        BY <1>9 DEF CancelTrip, moneyVars, seatVars
    <2>3. QED
        BY <2>1, <2>2
<1>10. ASSUME NEW b \in Bookings,
              \/ \E S \in SUBSET Seats : CreateHold(b, S)
              \/ ReleaseHold(b)
              \/ \E p \in Passengers, s \in Seats : ChangeSeat(b, p, s)
              \/ \E p \in Passengers, g \in Genders : ReplacePassenger(b, p, g)
              \/ \E p \in Passengers : RefundRefused(b, p)
       PROVE  UNCHANGED <<status, pax, asg, due, paid, caseOpen>>
    BY <1>10 DEF Bookable, CreateHold, ReleaseHold, ChangeSeat, ReplacePassenger, RefundRefused,
                 seatVars, moneyVars
<1>11. ASSUME ExpireDueHolds \/ UpdateTrip \/ Tick \/ UNCHANGED vars
       PROVE  UNCHANGED <<status, pax, asg, due, paid, caseOpen>>
    BY <1>11 DEF ExpireDueHolds, UpdateTrip, Tick, vars, seatVars, moneyVars
<1> HIDE DEF BookingInv, LiveBookingIsSeated, UnservedMoneyHasACase, FreshBookingIsUnpaid, Travelling
<1>12. QED
    BY <1>1, <1>2, <1>3, <1>4, <1>5, <1>6, <1>7, <1>8, <1>9, <1>10, <1>11
    DEF Next, Customer, Office, Provider

LEMMA BookingInvariance == Spec => []BookingInv
<1>1. Init => TypeInv /\ BookingInv
    BY InitType, InitBooking
<1>2. TypeInv /\ BookingInv /\ [Next]_vars => TypeInv' /\ BookingInv'
    BY NextType, NextBooking DEF TypeInv
<1>3. QED
    BY <1>1, <1>2, PTL DEF Spec

(* Whoever is still to travel on a booking that is not cancelled has a     *)
(* seat, after any sequence of cancellations, moves, payments and expiries. *)
THEOREM TravellersAreSeated == Spec => []LiveBookingIsSeated
<1>1. BookingInv => LiveBookingIsSeated
    BY DEF BookingInv
<1>2. QED
    BY <1>1, BookingInvariance, PTL

(* Money received for passengers whose booking is not confirmed has an     *)
(* open reconciliation case.                                               *)
THEOREM NoMoneyIsForgotten == Spec => []UnservedMoneyHasACase
<1>1. BookingInv => UnservedMoneyHasACase
    BY DEF BookingInv
<1>2. QED
    BY <1>1, BookingInvariance, PTL

-----------------------------------------------------------------------------
(* Steps that may not happen *)

(* Only a payment changes paid_amount, and every payment is positive.      *)
LEMMA PaymentsArePositive ==
    ASSUME TypeOK, NEW b \in Bookings, NEW inTime \in BOOLEAN,
           CaptureIntent(b, inTime) \/ RecordOfficeCash(b, inTime)
    PROVE  paid' # paid
<1>1. ASSUME NEW amount \in Nat, amount > 0, CompleteAfterPayment(b, amount, inTime)
      PROVE  paid' # paid
    BY <1>1 DEF CanConfirm, NeedsCase, CompleteAfterPayment, TypeOK
<1>2. due[b] \in Nat
    BY DEF TypeOK
<1>3. CASE CaptureIntent(b, inTime)
    BY <1>1, <1>2, <1>3 DEF CaptureIntent
<1>4. CASE RecordOfficeCash(b, inTime)
    <2>1. Outstanding(b) \in Nat /\ Outstanding(b) > 0
        BY <1>4, OutstandingIsNat DEF RecordOfficeCash
    <2>2. CompleteAfterPayment(b, Outstanding(b), inTime)
        BY <1>4 DEF RecordOfficeCash
    <2>3. QED
        BY <1>1, <2>1, <2>2
<1>5. QED
    BY <1>3, <1>4

(* A cancelled booking comes back only in a payment step that was in time, *)
(* covers the price and seats everybody.                                   *)
THEOREM LateMoneyIsLate == Spec => LateMoneyNeverRevives
<1> DEFINE Revival(b) ==
        status[b] = "cancelled" /\ status'[b] # "cancelled" =>
            /\ paidInTime'[b] /\ paid'[b] >= Total(b)
            /\ \A p \in Present(b) : asg'[b][p] = "active"
<1>1. ASSUME TypeOK, NEW b \in Bookings, NEW amount, NEW inTime \in BOOLEAN,
             CompleteAfterPayment(b, amount, inTime), NEW c \in Bookings
      PROVE  Revival(c)
    <2>1. c # b => status'[c] = status[c]
        BY <1>1 DEF CanConfirm, NeedsCase, CompleteAfterPayment, TypeOK
    <2>2. ASSUME status[b] = "cancelled", status'[b] # "cancelled" PROVE Revival(b)
        <3>1. /\ inTime /\ paid[b] + amount >= Total(b)
              /\ \/ InventoryComplete(b) /\ asg' = asg
                 \/ asg' = [asg EXCEPT ![b] = Restored(b)]
            BY <1>1, <2>2 DEF CanConfirm, NeedsCase, CompleteAfterPayment, TypeOK
        <3>2. paid'[b] = paid[b] + amount /\ paidInTime'[b]
            BY <1>1, <3>1 DEF CanConfirm, NeedsCase, CompleteAfterPayment, TypeOK
        <3>3. \A p \in Present(b) : asg'[b][p] = "active"
            BY <1>1, <3>1 DEF InventoryComplete, Restored, Present, TypeOK
        <3>4. QED
            BY <3>1, <3>2, <3>3
    <2>3. QED
        BY <2>1, <2>2
<1>2. ASSUME TypeOK, [Next]_vars, NEW c \in Bookings PROVE Revival(c)
    <2>1. ASSUME status[c] = "cancelled" => status'[c] = "cancelled" PROVE Revival(c)
        BY <2>1
    <2>2. ASSUME NEW b \in Bookings, NEW inTime \in BOOLEAN,
                 CaptureIntent(b, inTime) \/ RecordOfficeCash(b, inTime)
          PROVE  Revival(c)
        BY <1>1, <1>2, <2>2 DEF CaptureIntent, RecordOfficeCash
    <2>3. ASSUME NEW b \in Bookings,
                 \/ \E n \in Passengers : \E sit \in [1 .. n -> Seats],
                        gen \in [1 .. n -> Genders], cash \in BOOLEAN :
                            CreateBooking(b, n, sit, gen, cash)
                 \/ \E P \in SUBSET Passengers, refunded \in BOOLEAN :
                        CancelPassengers(b, P, refunded)
                 \/ \E p \in Passengers : RefundSucceeds(b, p)
          PROVE  status[c] = "cancelled" => status'[c] = "cancelled"
        BY <1>2, <2>3 DEF CreateBooking, CancelPassengers, RefundSucceeds, TypeOK
    <2>4. ASSUME ExpireUnpaidBookings \/ CancelTrip
          PROVE  status[c] = "cancelled" => status'[c] = "cancelled"
        BY <1>2, <2>4 DEF ExpireUnpaidBookings, CancelTrip, TypeOK
    <2>5. ASSUME NEW b \in Bookings,
                 \/ \E S \in SUBSET Seats : CreateHold(b, S)
                 \/ ReleaseHold(b) \/ OpenIntent(b)
                 \/ \E p \in Passengers, s \in Seats : ChangeSeat(b, p, s)
                 \/ \E p \in Passengers, g \in Genders : ReplacePassenger(b, p, g)
                 \/ \E p \in Passengers : RefundRefused(b, p)
          PROVE  UNCHANGED status
        BY <2>5 DEF Bookable, CreateHold, ReleaseHold, OpenIntent, ChangeSeat, ReplacePassenger, RefundRefused
    <2>6. ASSUME ExpireDueHolds \/ UpdateTrip \/ Tick \/ UNCHANGED vars
          PROVE  UNCHANGED status
        BY <2>6 DEF ExpireDueHolds, UpdateTrip, Tick, vars
    <2> HIDE DEF Revival
    <2>7. QED
        BY <1>2, <2>1, <2>2, <2>3, <2>4, <2>5, <2>6 DEF Next, Customer, Office, Provider
<1>3. TypeOK /\ [Next]_vars => [\A b \in Bookings : Revival(b)]_vars
    BY <1>2
<1>4. QED
    BY <1>3, TypeCorrect, PTL DEF Spec, LateMoneyNeverRevives

LEMMA PairSymmetry == \A x, y : {x, y} = {y, x}
OBVIOUS

(* A new conflict needs a new seating or a new gender.                     *)
LEMMA ConflictIsNew ==
    ASSUME NEW b \in Bookings, NEW c \in Bookings, NEW p \in Passengers, NEW q \in Passengers,
           GenderConflict(b, p, c, q)',
           asg'[b][p] = "active" => asg[b][p] = "active" /\ seat'[b][p] = seat[b][p],
           asg'[c][q] = "active" => asg[c][q] = "active" /\ seat'[c][q] = seat[c][q],
           gender' = gender
    PROVE  GenderConflict(b, p, c, q)
BY DEF GenderConflict

LEMMA ConflictIsSymmetric ==
    \A b, c \in Bookings, p, q \in Passengers :
        GenderConflict(b, p, c, q) <=> GenderConflict(c, q, b, p)
BY PairSymmetry DEF GenderConflict

LEMMA CreateBookingConflict ==
    ASSUME TypeOK, NEW b \in Bookings, NEW n \in Passengers, NEW sit \in [1 .. n -> Seats],
           NEW gen \in [1 .. n -> Genders], NEW cash \in BOOLEAN,
           CreateBooking(b, n, sit, gen, cash)
    PROVE  \A c \in Bookings, p, q \in Passengers : ~GenderConflict(b, p, c, q)'
<1> SUFFICES ASSUME NEW c \in Bookings, NEW p \in Passengers, NEW q \in Passengers,
                    GenderConflict(b, p, c, q)'
             PROVE  FALSE
    OBVIOUS
<1>1. p \in 1 .. n /\ seat'[b][p] = sit[p] /\ gender'[b][p] = gen[p]
    BY DEF CreateBooking, GenderConflict, TypeOK
<1>2. c # b /\ asg'[c] = asg[c] /\ seat'[c] = seat[c] /\ gender'[c] = gender[c]
    BY DEF CreateBooking, GenderConflict, TypeOK
<1>3. GenderFits(b, sit[p], gen[p])
    BY <1>1 DEF CreateBooking
<1>4. asg[c][q] = "active" /\ {sit[p], seat[c][q]} \in Adjacent /\ gender[c][q] # gen[p]
    BY <1>1, <1>2 DEF GenderConflict
<1>5. QED
    BY <1>2, <1>3, <1>4 DEF GenderFits

LEMMA ChangeSeatConflict ==
    ASSUME TypeOK, NEW b \in Bookings, NEW p \in Passengers, NEW s \in Seats,
           ChangeSeat(b, p, s), NEW c \in Bookings, NEW q \in Passengers
    PROVE  ~GenderConflict(b, p, c, q)'
<1>1. b # c => seat'[c][q] = seat[c][q]
    BY DEF ChangeSeat, TypeOK
<1>2. seat'[b][p] = s /\ asg' = asg /\ gender' = gender
    BY DEF ChangeSeat, TypeOK
<1>3. GenderFits(b, s, gender[b][p])
    BY DEF ChangeSeat
<1>4. QED
    BY <1>1, <1>2, <1>3 DEF GenderConflict, GenderFits

LEMMA ReplaceConflict ==
    ASSUME TypeOK, NEW b \in Bookings, NEW p \in Passengers, NEW g \in Genders,
           ReplacePassenger(b, p, g), NEW c \in Bookings, NEW q \in Passengers,
           GenderConflict(b, p, c, q)'
    PROVE  GenderConflict(b, p, c, q)
<1>1. b # c => gender'[c][q] = gender[c][q]
    BY DEF ReplacePassenger, TypeOK
<1>2. gender'[b][p] = g /\ asg' = asg /\ seat' = seat
    BY DEF ReplacePassenger, TypeOK
<1>3. g = gender[b][p] \/ GenderFits(b, seat[b][p], g)
    BY DEF ReplacePassenger
<1>4. QED
    BY <1>1, <1>2, <1>3 DEF GenderConflict, GenderFits

(* The sale, the change of a seat and the replacement of a passenger never *)
(* put two genders of different bookings side by side.                     *)
THEOREM SeparationKept == Spec => GenderConflictOnlyByRestore
<1> DEFINE Kept(b, p, c, q) ==
        GenderConflict(b, p, c, q)' => GenderConflict(b, p, c, q) \/ paid' # paid
<1>1. ASSUME TypeOK, [Next]_vars, NEW b \in Bookings, NEW c \in Bookings,
             NEW p \in Passengers, NEW q \in Passengers
      PROVE  Kept(b, p, c, q)
    <2>1. GenderConflict(b, p, c, q)' <=> GenderConflict(c, q, b, p)'
        BY PairSymmetry DEF GenderConflict
    <2>2. ASSUME NEW d \in Bookings, NEW n \in Passengers, NEW sit \in [1 .. n -> Seats],
                 NEW gen \in [1 .. n -> Genders], NEW cash \in BOOLEAN,
                 CreateBooking(d, n, sit, gen, cash)
          PROVE  Kept(b, p, c, q)
        <3>1. CASE d = b \/ d = c
            BY <1>1, <2>1, <2>2, <3>1, CreateBookingConflict
        <3>2. CASE d # b /\ d # c
            BY <1>1, <2>2, <3>2 DEF CreateBooking, TypeOK, GenderConflict
        <3>3. QED
            BY <3>1, <3>2
    <2>3. ASSUME NEW d \in Bookings, NEW r \in Passengers, NEW s \in Seats, ChangeSeat(d, r, s)
          PROVE  Kept(b, p, c, q)
        <3>1. CASE <<d, r>> = <<b, p>> \/ <<d, r>> = <<c, q>>
            BY <1>1, <2>1, <2>3, <3>1, ChangeSeatConflict
        <3>2. CASE <<d, r>> # <<b, p>> /\ <<d, r>> # <<c, q>>
            BY <1>1, <2>3, <3>2 DEF ChangeSeat, TypeOK, GenderConflict
        <3>3. QED
            BY <3>1, <3>2
    <2>4. ASSUME NEW d \in Bookings, NEW r \in Passengers, NEW g \in Genders,
                 ReplacePassenger(d, r, g)
          PROVE  Kept(b, p, c, q)
        <3>1. CASE <<d, r>> = <<b, p>> \/ <<d, r>> = <<c, q>>
            BY <1>1, <2>1, <2>4, <3>1, ReplaceConflict, ConflictIsSymmetric
        <3>2. CASE <<d, r>> # <<b, p>> /\ <<d, r>> # <<c, q>>
            BY <1>1, <2>4, <3>2 DEF ReplacePassenger, TypeOK, GenderConflict
        <3>3. QED
            BY <3>1, <3>2
    <2>5. ASSUME NEW d \in Bookings, NEW inTime \in BOOLEAN,
                 CaptureIntent(d, inTime) \/ RecordOfficeCash(d, inTime)
          PROVE  Kept(b, p, c, q)
        BY <1>1, <2>5, PaymentsArePositive
    <2>6. ASSUME UNCHANGED <<seat, gender>>,
                 \A d \in Bookings, r \in Passengers :
                     asg'[d][r] = "active" => asg[d][r] = "active"
          PROVE  Kept(b, p, c, q)
        BY <2>6 DEF GenderConflict
    <2>7. ASSUME NEW d \in Bookings, NEW P \in SUBSET Passengers, NEW refunded \in BOOLEAN,
                 CancelPassengers(d, P, refunded)
          PROVE  Kept(b, p, c, q)
        <3>1. \A e \in Bookings, r \in Passengers :
                  asg'[e][r] = "active" => asg[e][r] = "active"
            BY <1>1, <2>7 DEF CancelPassengers, TypeOK
        <3>2. UNCHANGED <<seat, gender>>
            BY <2>7 DEF CancelPassengers
        <3>3. QED
            BY <2>6, <3>1, <3>2
    <2>8. ASSUME ExpireUnpaidBookings PROVE Kept(b, p, c, q)
        <3>1. \A e \in Bookings, r \in Passengers :
                  asg'[e][r] = "active" => asg[e][r] = "active"
            BY <1>1, <2>8 DEF ExpireUnpaidBookings, TypeOK
        <3>2. UNCHANGED <<seat, gender>>
            BY <2>8 DEF ExpireUnpaidBookings
        <3>3. QED
            BY <2>6, <3>1, <3>2
    <2>9. ASSUME NEW d \in Bookings,
                 \/ \E S \in SUBSET Seats : CreateHold(d, S)
                 \/ ReleaseHold(d) \/ OpenIntent(d)
                 \/ \E r \in Passengers : RefundSucceeds(d, r) \/ RefundRefused(d, r)
          PROVE  UNCHANGED seatVars
        BY <2>9 DEF Bookable, CreateHold, ReleaseHold, OpenIntent, RefundSucceeds, RefundRefused
    <2>10. ASSUME ExpireDueHolds \/ UpdateTrip \/ CancelTrip \/ Tick \/ UNCHANGED vars
           PROVE  UNCHANGED seatVars
        BY <2>10 DEF ExpireDueHolds, UpdateTrip, CancelTrip, Tick, vars, seatVars
    <2>11. ASSUME UNCHANGED seatVars PROVE Kept(b, p, c, q)
        BY <2>6, <2>11 DEF seatVars
    <2> HIDE DEF Kept
    <2>12. QED
        BY <1>1, <2>2, <2>3, <2>4, <2>5, <2>7, <2>8, <2>9, <2>10, <2>11
        DEF Next, Customer, Office, Provider
<1>2. TypeOK /\ [Next]_vars =>
          [\A b, c \in Bookings, p, q \in Passengers : Kept(b, p, c, q)]_vars
    BY <1>1
<1>3. QED
    BY <1>2, TypeCorrect, PTL DEF Spec, GenderConflictOnlyByRestore

LEMMA CreateHoldBreaksNothing ==
    ASSUME TypeOK, NEW d \in Bookings, NEW S \in SUBSET Seats, CreateHold(d, S),
           NEW b \in Bookings, NEW c \in Bookings, NEW s \in Seats, HoldBroken(b, c, s)'
    PROVE  HoldBroken(b, c, s)
<1>1. /\ \A e \in Bookings, t \in Seats :
              hold'[e][t] = IF e = d /\ t \in S THEN "active" ELSE ExpiredOn(e, t, S)
      /\ \A e \in Bookings \ {d} : holdExpiry'[e] = holdExpiry[e]
      /\ UNCHANGED <<now, asg, seat>>
    BY DEF Bookable, CreateHold, TypeOK, tripVars, seatVars
<1>2. s \in S => ~Assigned(s)
    BY DEF Bookable, CreateHold
<1>3. hold[d][s] = "none"
    BY DEF Bookable, CreateHold, Rows
<1>4. CASE b = d
    BY <1>1, <1>2, <1>3, <1>4 DEF HoldBroken, HeldBy, Occupies, Assigned, ExpiredOn
<1>5. CASE b # d
    <2>1. hold'[b][s] = "active" => hold[b][s] = "active"
        BY <1>1, <1>5 DEF ExpiredOn
    <2>2. QED
        BY <1>1, <1>5, <2>1 DEF HoldBroken, HeldBy, Occupies
<1>6. QED
    BY <1>4, <1>5

LEMMA CreateBookingBreaksNothing ==
    ASSUME TypeOK, OneActiveHoldPerSeat, NEW d \in Bookings, NEW n \in Passengers,
           NEW sit \in [1 .. n -> Seats], NEW gen \in [1 .. n -> Genders], NEW cash \in BOOLEAN,
           CreateBooking(d, n, sit, gen, cash),
           NEW b \in Bookings, NEW c \in Bookings, NEW s \in Seats, HoldBroken(b, c, s)'
    PROVE  HoldBroken(b, c, s)
<1>1. /\ \A e \in Bookings \ {d} : hold'[e] = hold[e] /\ asg'[e] = asg[e] /\ seat'[e] = seat[e]
      /\ \A t \in Seats : hold'[d][t] # "active"
      /\ UNCHANGED <<now, holdExpiry>>
    BY DEF CreateBooking, TypeOK, Rows, tripVars
<1>2. b # d
    BY <1>1 DEF HoldBroken, HeldBy
<1>3. c # d
    <2>1. SUFFICES ASSUME c = d PROVE FALSE
        OBVIOUS
    <2>2. PICK p \in Passengers : asg'[d][p] = "active" /\ seat'[d][p] = s
        BY <2>1 DEF HoldBroken, Occupies
    <2>3. p \in 1 .. n /\ s = sit[p]
        BY <2>2 DEF CreateBooking, TypeOK
    <2>4. hold[d][s] = "active"
        BY <2>3 DEF CreateBooking, HeldBy
    <2>5. hold[b][s] = "active"
        BY <1>1, <1>2 DEF HoldBroken, HeldBy
    <2>6. QED
        BY <1>2, <2>4, <2>5 DEF OneActiveHoldPerSeat
<1>4. QED
    BY <1>1, <1>2, <1>3 DEF HoldBroken, HeldBy, Occupies

(* The clock may only end a hold.                                          *)
LEMMA TickBreaksNothing ==
    ASSUME TypeOK, Tick, NEW b \in Bookings, NEW c \in Bookings, NEW s \in Seats,
           HoldBroken(b, c, s)'
    PROVE  HoldBroken(b, c, s)
<1>1. now \in Int /\ now' = now + 1 /\ holdExpiry[b] \in Int
    BY ConstantsAssumption DEF Tick, TypeOK
<1>2. UNCHANGED <<hold, holdExpiry, asg, seat>>
    BY DEF Tick, holdVars, seatVars
<1>3. QED
    BY <1>1, <1>2 DEF HoldBroken, HeldBy, Occupies

(* A seat under a running hold is sold to nobody else.                     *)
THEOREM HoldsKept == Spec => HoldBrokenOnlyByRestore
<1> DEFINE Kept(b, c, s) == HoldBroken(b, c, s)' => HoldBroken(b, c, s) \/ paid' # paid
<1>1. ASSUME TypeOK, OneActiveHoldPerSeat, [Next]_vars,
             NEW b \in Bookings, NEW c \in Bookings, NEW s \in Seats
      PROVE  Kept(b, c, s)
    <2>1. ASSUME UNCHANGED <<now, holdExpiry, seat>>,
                 \A d \in Bookings, t \in Seats : hold'[d][t] = "active" => hold[d][t] = "active",
                 \A d \in Bookings, p \in Passengers :
                     asg'[d][p] = "active" => asg[d][p] = "active"
          PROVE  Kept(b, c, s)
        BY <2>1 DEF HoldBroken, HeldBy, Occupies
    <2>2. ASSUME NEW d \in Bookings, NEW S \in SUBSET Seats, CreateHold(d, S) PROVE Kept(b, c, s)
        BY <1>1, <2>2, CreateHoldBreaksNothing
    <2>3. ASSUME NEW d \in Bookings, ReleaseHold(d) PROVE Kept(b, c, s)
        <3>1. \A e \in Bookings, t \in Seats : hold'[e][t] = "active" => hold[e][t] = "active"
            BY <1>1, <2>3 DEF ReleaseHold, TypeOK
        <3>2. UNCHANGED <<now, holdExpiry, seat, asg>>
            BY <2>3 DEF ReleaseHold, tripVars, seatVars
        <3>3. QED
            BY <2>1, <3>1, <3>2
    <2>4. ASSUME ExpireDueHolds PROVE Kept(b, c, s)
        <3>1. \A e \in Bookings, t \in Seats : hold'[e][t] = "active" => hold[e][t] = "active"
            BY <2>4 DEF ExpireDueHolds, ExpiredOn
        <3>2. UNCHANGED <<now, holdExpiry, seat, asg>>
            BY <2>4 DEF ExpireDueHolds, tripVars, seatVars
        <3>3. QED
            BY <2>1, <3>1, <3>2
    <2>5. ASSUME NEW d \in Bookings, NEW n \in Passengers, NEW sit \in [1 .. n -> Seats],
                 NEW gen \in [1 .. n -> Genders], NEW cash \in BOOLEAN,
                 CreateBooking(d, n, sit, gen, cash)
          PROVE  Kept(b, c, s)
        BY <1>1, <2>5, CreateBookingBreaksNothing
    <2>6. ASSUME NEW d \in Bookings, NEW P \in SUBSET Passengers, NEW refunded \in BOOLEAN,
                 CancelPassengers(d, P, refunded)
          PROVE  Kept(b, c, s)
        <3>1. \A e \in Bookings, p \in Passengers : asg'[e][p] = "active" => asg[e][p] = "active"
            BY <1>1, <2>6 DEF CancelPassengers, TypeOK
        <3>2. UNCHANGED <<now, hold, holdExpiry, seat>>
            BY <2>6 DEF CancelPassengers, tripVars, holdVars
        <3>3. QED
            BY <2>1, <3>1, <3>2
    <2>7. ASSUME NEW d \in Bookings, NEW p \in Passengers, NEW t \in Seats, ChangeSeat(d, p, t)
          PROVE  Kept(b, c, s)
        <3>1. \A e \in Bookings : ~HeldBy(e, t)
            BY <2>7 DEF ChangeSeat, Held
        <3>2. \A e \in Bookings, q \in Passengers :
                  seat'[e][q] = IF e = d /\ q = p THEN t ELSE seat[e][q]
            BY <1>1, <2>7 DEF ChangeSeat, TypeOK
        <3>3. UNCHANGED <<now, hold, holdExpiry, asg>>
            BY <2>7 DEF ChangeSeat, tripVars, holdVars
        <3>4. QED
            BY <3>1, <3>2, <3>3 DEF HoldBroken, HeldBy, Occupies
    <2>8. ASSUME NEW d \in Bookings, NEW inTime \in BOOLEAN,
                 CaptureIntent(d, inTime) \/ RecordOfficeCash(d, inTime)
          PROVE  Kept(b, c, s)
        BY <1>1, <2>8, PaymentsArePositive
    <2>9. ASSUME ExpireUnpaidBookings PROVE Kept(b, c, s)
        <3>1. \A e \in Bookings, p \in Passengers : asg'[e][p] = "active" => asg[e][p] = "active"
            BY <1>1, <2>9 DEF ExpireUnpaidBookings, TypeOK
        <3>2. UNCHANGED <<now, hold, holdExpiry, seat>>
            BY <2>9 DEF ExpireUnpaidBookings, tripVars, holdVars
        <3>3. QED
            BY <2>1, <3>1, <3>2
    <2>10. ASSUME NEW d \in Bookings,
                  \/ OpenIntent(d)
                  \/ \E p \in Passengers, g \in Genders : ReplacePassenger(d, p, g)
                  \/ \E p \in Passengers : RefundSucceeds(d, p) \/ RefundRefused(d, p)
           PROVE  UNCHANGED <<now, hold, holdExpiry, seat, asg>>
        BY <2>10 DEF OpenIntent, ReplacePassenger, RefundSucceeds, RefundRefused,
                     tripVars, holdVars, seatVars
    <2>11. ASSUME UpdateTrip \/ CancelTrip \/ UNCHANGED vars
           PROVE  UNCHANGED <<now, hold, holdExpiry, seat, asg>>
        BY <2>11 DEF UpdateTrip, CancelTrip, vars, holdVars, seatVars
    <2>12. ASSUME Tick PROVE Kept(b, c, s)
        BY <1>1, <2>12, TickBreaksNothing
    <2>13. ASSUME UNCHANGED <<now, hold, holdExpiry, seat, asg>> PROVE Kept(b, c, s)
        BY <2>1, <2>13
    <2> HIDE DEF Kept
    <2>14. QED
        BY <1>1, <2>2, <2>3, <2>4, <2>5, <2>6, <2>7, <2>8, <2>9, <2>10, <2>11, <2>12, <2>13
        DEF Next, Customer, Office, Provider
<1>2. TypeOK /\ OneActiveHoldPerSeat /\ [Next]_vars =>
          [\A b, c \in Bookings, s \in Seats : Kept(b, c, s)]_vars
    BY <1>1
<1>3. QED
    BY <1>2, TypeCorrect, HeldOnce, PTL DEF Spec, HoldBrokenOnlyByRestore

-----------------------------------------------------------------------------
(* The bookings implement the sale of seats *)

(* A batch that is not a booking yet has no passengers.                    *)
FreshBookingIsEmpty ==
    \A b \in Bookings, p \in Passengers : status[b] = "none" => pax[b][p] = "none"

LEMMA NextFresh ==
    ASSUME TypeOK, FreshBookingIsEmpty, [Next]_vars PROVE FreshBookingIsEmpty'
<1>1. ASSUME \A b \in Bookings, p \in Passengers :
                 /\ status'[b] = "none" => status[b] = "none"
                 /\ pax[b][p] = "none" => pax'[b][p] = "none"
      PROVE  FreshBookingIsEmpty'
    BY <1>1 DEF FreshBookingIsEmpty
<1>2. ASSUME NEW b \in Bookings, NEW n \in Passengers, NEW sit \in [1 .. n -> Seats],
             NEW gen \in [1 .. n -> Genders], NEW cash \in BOOLEAN,
             CreateBooking(b, n, sit, gen, cash)
      PROVE  FreshBookingIsEmpty'
    BY <1>2 DEF CreateBooking, TypeOK, FreshBookingIsEmpty
<1>3. ASSUME NEW b \in Bookings,
             \/ \E P \in SUBSET Passengers, refunded \in BOOLEAN : CancelPassengers(b, P, refunded)
             \/ \E p \in Passengers : RefundSucceeds(b, p)
      PROVE  \A c \in Bookings, p \in Passengers :
                 /\ status'[c] = "none" => status[c] = "none"
                 /\ pax[c][p] = "none" => pax'[c][p] = "none"
    <2>1. ASSUME NEW P \in SUBSET Passengers, NEW refunded \in BOOLEAN,
                 CancelPassengers(b, P, refunded), NEW c \in Bookings, NEW p \in Passengers
          PROVE  /\ status'[c] = "none" => status[c] = "none"
                 /\ pax[c][p] = "none" => pax'[c][p] = "none"
        BY <2>1 DEF CancelPassengers, TypeOK, Travelling
    <2>2. ASSUME NEW q \in Passengers, RefundSucceeds(b, q), NEW c \in Bookings, NEW p \in Passengers
          PROVE  /\ status'[c] = "none" => status[c] = "none"
                 /\ pax[c][p] = "none" => pax'[c][p] = "none"
        BY <2>2 DEF RefundSucceeds, TypeOK, seatVars
    <2>3. QED
        BY <1>3, <2>1, <2>2
<1>4. ASSUME NEW b \in Bookings, NEW inTime \in BOOLEAN,
             CaptureIntent(b, inTime) \/ RecordOfficeCash(b, inTime)
      PROVE  \A c \in Bookings, p \in Passengers :
                 /\ status'[c] = "none" => status[c] = "none"
                 /\ pax[c][p] = "none" => pax'[c][p] = "none"
    BY <1>4 DEF CanConfirm, NeedsCase, CaptureIntent, RecordOfficeCash, CompleteAfterPayment, TypeOK
<1>5. ASSUME ExpireUnpaidBookings \/ CancelTrip
      PROVE  \A c \in Bookings, p \in Passengers :
                 /\ status'[c] = "none" => status[c] = "none"
                 /\ pax[c][p] = "none" => pax'[c][p] = "none"
    BY <1>5 DEF ExpireUnpaidBookings, CancelTrip, TypeOK, seatVars
<1>6. ASSUME NEW b \in Bookings,
             \/ \E S \in SUBSET Seats : CreateHold(b, S)
             \/ ReleaseHold(b) \/ OpenIntent(b)
             \/ \E p \in Passengers, s \in Seats : ChangeSeat(b, p, s)
             \/ \E p \in Passengers, g \in Genders : ReplacePassenger(b, p, g)
             \/ \E p \in Passengers : RefundRefused(b, p)
      PROVE  UNCHANGED <<status, pax>>
    BY <1>6 DEF Bookable, CreateHold, ReleaseHold, OpenIntent, ChangeSeat, ReplacePassenger, RefundRefused,
                seatVars
<1>7. ASSUME ExpireDueHolds \/ UpdateTrip \/ Tick \/ UNCHANGED vars
      PROVE  UNCHANGED <<status, pax>>
    BY <1>7 DEF ExpireDueHolds, UpdateTrip, Tick, vars, seatVars
<1>8. QED
    BY <1>1, <1>2, <1>3, <1>4, <1>5, <1>6, <1>7 DEF Next, Customer, Office, Provider

(* The owner of a seat is the booking that occupies it.                    *)
OwnerIsOccupant ==
    /\ DOMAIN owner = Seats /\ owner = [s \in Seats |-> owner[s]]
    /\ \A s \in Seats, b \in Bookings, p \in Passengers : Occupies(b, p, s) => owner[s] = b
    /\ \A s \in Seats : ~Assigned(s) => owner[s] = Free

LEMMA OwnerFact == NoDoubleSale => OwnerIsOccupant
<1> SUFFICES ASSUME NoDoubleSale PROVE OwnerIsOccupant
    OBVIOUS
<1>1. DOMAIN owner = Seats /\ owner = [s \in Seats |-> owner[s]]
    BY DEF owner
<1>2. ASSUME NEW s \in Seats, NEW b \in Bookings, NEW p \in Passengers, Occupies(b, p, s)
      PROVE  owner[s] = b
    <2>1. Assigned(s)
        BY <1>2 DEF Assigned
    <2>2. owner[s] = CHOOSE c \in Bookings : \E q \in Passengers : Occupies(c, q, s)
        BY <2>1 DEF owner
    <2>3. \E q \in Passengers : Occupies(owner[s], q, s) /\ owner[s] \in Bookings
        BY <1>2, <2>2
    <2>4. QED
        BY <1>2, <2>3 DEF NoDoubleSale
<1>3. \A s \in Seats : ~Assigned(s) => owner[s] = Free
    BY DEF owner
<1>4. QED
    BY <1>1, <1>2, <1>3 DEF OwnerIsOccupant

LEMMA OwnerStays ==
    ASSUME OwnerIsOccupant, OwnerIsOccupant', NEW s \in Seats,
           \A b \in Bookings, p \in Passengers : Occupies(b, p, s)' <=> Occupies(b, p, s)
    PROVE  owner'[s] = owner[s]
BY DEF OwnerIsOccupant, Assigned

LEMMA TakeStep ==
    ASSUME OwnerIsOccupant, OwnerIsOccupant', NEW b \in Bookings, NEW S \in SUBSET Seats,
           \A s \in S : ~Assigned(s) /\ \E p \in Passengers : Occupies(b, p, s)',
           \A s \in Seats \ S, c \in Bookings, p \in Passengers :
               Occupies(c, p, s)' <=> Occupies(c, p, s)
    PROVE  Sale!Take(b, S)
<1>1. \A s \in S : owner[s] = Free /\ owner'[s] = b
    BY DEF OwnerIsOccupant
<1>2. \A s \in Seats \ S : owner'[s] = owner[s]
    BY OwnerStays
<1>3. owner' = [s \in Seats |-> owner'[s]]
    BY DEF OwnerIsOccupant
<1>4. QED
    BY <1>1, <1>2, <1>3 DEF Sale!Take

LEMMA GiveUpStep ==
    ASSUME OwnerIsOccupant, OwnerIsOccupant', NEW S \in SUBSET Seats,
           \A s \in S : ~Assigned(s)',
           \A s \in Seats \ S, c \in Bookings, p \in Passengers :
               Occupies(c, p, s)' <=> Occupies(c, p, s)
    PROVE  Sale!GiveUp(S)
<1>1. \A s \in S : owner'[s] = Free
    BY DEF OwnerIsOccupant
<1>2. \A s \in Seats \ S : owner'[s] = owner[s]
    BY OwnerStays
<1>3. owner' = [s \in Seats |-> owner'[s]]
    BY DEF OwnerIsOccupant
<1>4. QED
    BY <1>1, <1>2, <1>3 DEF Sale!GiveUp

LEMMA OwnerUnchanged ==
    ASSUME UNCHANGED <<asg, seat>> PROVE UNCHANGED owner
BY DEF owner, Assigned, Occupies

LEMMA CreateBookingSells ==
    ASSUME TypeOK, SeatInv, FreshBookingIsEmpty, OwnerIsOccupant, OwnerIsOccupant',
           NEW b \in Bookings, NEW n \in Passengers, NEW sit \in [1 .. n -> Seats],
           NEW gen \in [1 .. n -> Genders], NEW cash \in BOOLEAN,
           CreateBooking(b, n, sit, gen, cash)
    PROVE  Sale!Take(b, Rows(b))
<1>1. \A p \in Passengers : ~(asg[b][p] = "active")
    BY DEF CreateBooking, FreshBookingIsEmpty, SeatInv, OnlyPassengersAreSeated
<1>2. /\ 1 .. n \subseteq Passengers
      /\ {sit[p] : p \in 1 .. n} = Rows(b)
      /\ \A s \in Rows(b) : ~Assigned(s)
    BY ConstantsAssumption DEF CreateBooking, Passengers
<1>3. /\ \A p \in 1 .. n : asg'[b][p] = "active" /\ seat'[b][p] = sit[p]
      /\ \A p \in Passengers \ 1 .. n : asg'[b][p] = "none"
      /\ \A c \in Bookings \ {b} : asg'[c] = asg[c] /\ seat'[c] = seat[c]
    BY <1>2 DEF CreateBooking, TypeOK
<1>4. \A s \in Rows(b) : \E p \in Passengers : Occupies(b, p, s)'
    BY <1>2, <1>3 DEF Occupies
<1>5. \A s \in Seats \ Rows(b), c \in Bookings, p \in Passengers :
          Occupies(c, p, s)' <=> Occupies(c, p, s)
    BY <1>1, <1>2, <1>3 DEF Occupies
<1>6. Rows(b) \subseteq Seats
    BY DEF Rows
<1>7. QED
    BY <1>2, <1>4, <1>5, <1>6, TakeStep

LEMMA CompleteSells ==
    ASSUME TypeOK, SeatInv, OwnerIsOccupant, OwnerIsOccupant',
           NEW b \in Bookings, NEW amount, NEW inTime \in BOOLEAN,
           CompleteAfterPayment(b, amount, inTime), UNCHANGED <<pax, seat>>
    PROVE  (\E S \in SUBSET Seats : Sale!Take(b, S)) \/ UNCHANGED owner
<1>1. CASE asg' = asg
    BY <1>1, OwnerUnchanged
<1>2. CASE CanRestore(b) /\ asg' = [asg EXCEPT ![b] = Restored(b)]
    <2> DEFINE Back == {p \in Present(b) : asg[b][p] # "active"}
               S == {s \in Seats : \E p \in Back : seat[b][p] = s}
    <2>1. \A c \in Bookings \ {b} : asg'[c] = asg[c]
        BY <1>2 DEF TypeOK
    <2>2. \A p \in Passengers : asg'[b][p] = IF pax[b][p] = "none" THEN asg[b][p] ELSE "active"
        BY <1>2 DEF TypeOK, Restored
    <2>3. \A p \in Passengers : asg[b][p] = "active" => p \in Present(b)
        BY DEF SeatInv, OnlyPassengersAreSeated, Present, TypeOK
    <2>4. \A p, q \in Present(b) : seat[b][p] = seat[b][q] => p = q
        BY <1>2 DEF CanRestore, SeatInv, SeatsAreDistinct
    <2>5. \A p \in Present(b), c \in Bookings \ {b}, q \in Passengers : ~Occupies(c, q, seat[b][p])
        BY <1>2 DEF CanRestore
    <2>6. \A s \in S : ~Assigned(s)
        BY <2>3, <2>4, <2>5 DEF Assigned, Occupies
    <2>7. \A s \in S : \E p \in Passengers : Occupies(b, p, s)'
        BY <2>2 DEF Occupies, Present
    <2>8. \A s \in Seats \ S, c \in Bookings, p \in Passengers :
              Occupies(c, p, s)' <=> Occupies(c, p, s)
        BY <2>1, <2>2 DEF Occupies, Present
    <2>9. Sale!Take(b, S)
        BY <2>6, <2>7, <2>8, TakeStep
    <2>10. QED
        BY <2>9
<1>3. QED
    BY <1>1, <1>2 DEF CanConfirm, NeedsCase, CompleteAfterPayment, TypeOK

(* A step that only takes assignments away gives up the seats they held.   *)
LEMMA ReturnStep ==
    ASSUME NoDoubleSale, OwnerIsOccupant, OwnerIsOccupant', UNCHANGED seat,
           \A c \in Bookings, p \in Passengers : asg'[c][p] = "active" => asg[c][p] = "active"
    PROVE  \E S \in SUBSET Seats : Sale!GiveUp(S)
<1> DEFINE S == {s \in Seats : ~Assigned(s)'}
<1>1. \A s \in Seats \ S, c \in Bookings, p \in Passengers :
          Occupies(c, p, s)' <=> Occupies(c, p, s)
    BY DEF Assigned, Occupies, NoDoubleSale
<1>2. Sale!GiveUp(S)
    BY <1>1, GiveUpStep
<1>3. QED
    BY <1>2

LEMMA ChangeSeatMoves ==
    ASSUME TypeOK, NoDoubleSale, OwnerIsOccupant, OwnerIsOccupant', NEW b \in Bookings,
           NEW p \in Passengers, NEW s \in Seats, ChangeSeat(b, p, s)
    PROVE  (\E old \in Seats : Sale!Move(b, old, s)) \/ Sale!Take(b, {s}) \/ UNCHANGED owner
<1>1. /\ \A c \in Bookings, q \in Passengers :
             seat'[c][q] = IF c = b /\ q = p THEN s ELSE seat[c][q]
      /\ UNCHANGED asg /\ asg[b][p] = "active"
    BY DEF ChangeSeat, TypeOK
<1>2. CASE seat[b][p] = s
    <2>1. seat' = seat
        BY <1>2 DEF ChangeSeat, TypeOK
    <2>2. QED
        BY <1>1, <2>1, OwnerUnchanged
<1>3. ASSUME NEW old \in Seats, old = seat[b][p], old # s PROVE Sale!Move(b, old, s)
    <2>1. ~Assigned(s)
        BY <1>3 DEF ChangeSeat, Assigned, Occupies
    <2>2. owner[old] = b /\ owner[s] = Free
        BY <1>1, <1>3, <2>1 DEF OwnerIsOccupant, Occupies
    <2>3. \A c \in Bookings, q \in Passengers : Occupies(c, q, old) => c = b /\ q = p
        BY <1>1, <1>3 DEF NoDoubleSale, Occupies
    <2>4. ~Assigned(old)'
        BY <1>1, <1>3, <2>3 DEF Assigned, Occupies
    <2>5. owner'[s] = b /\ owner'[old] = Free
        BY <1>1, <1>3, <2>4 DEF OwnerIsOccupant, Occupies
    <2>6. \A t \in Seats \ {s, old} : owner'[t] = owner[t]
        BY <1>1, <1>3, OwnerStays DEF Occupies
    <2>7. QED
        BY <1>3, <2>2, <2>5, <2>6 DEF OwnerIsOccupant, Sale!Move
<1>4. CASE seat[b][p] \notin Seats
    <2>1. ~Assigned(s)
        BY <1>4 DEF ChangeSeat, Assigned, Occupies
    <2>2. Occupies(b, p, s)'
        BY <1>1 DEF Occupies
    <2>3. \A t \in Seats \ {s}, c \in Bookings, q \in Passengers :
              Occupies(c, q, t)' <=> Occupies(c, q, t)
        BY <1>1, <1>4 DEF Occupies
    <2>4. QED
        BY <2>1, <2>2, <2>3, TakeStep
<1>5. QED
    BY <1>2, <1>3, <1>4

LEMMA NextSells ==
    ASSUME TypeOK, SeatInv, FreshBookingIsEmpty, OwnerIsOccupant, OwnerIsOccupant', [Next]_vars
    PROVE  [Sale!Next]_owner
<1>1. NoDoubleSale
    BY DEF SeatInv
<1>2. ASSUME NEW b \in Bookings, NEW n \in Passengers, NEW sit \in [1 .. n -> Seats],
             NEW gen \in [1 .. n -> Genders], NEW cash \in BOOLEAN,
             CreateBooking(b, n, sit, gen, cash)
      PROVE  Sale!Next
    <2>1. Sale!Take(b, Rows(b)) /\ Rows(b) \in SUBSET Seats
        BY <1>2, CreateBookingSells DEF Rows
    <2>2. QED
        BY <2>1 DEF Sale!Next
<1>3. ASSUME NEW b \in Bookings, NEW P \in SUBSET Passengers, NEW refunded \in BOOLEAN,
             CancelPassengers(b, P, refunded)
      PROVE  Sale!Next
    <2>1. \A c \in Bookings, p \in Passengers : asg'[c][p] = "active" => asg[c][p] = "active"
        BY <1>3 DEF CancelPassengers, TypeOK
    <2>2. UNCHANGED seat
        BY <1>3 DEF CancelPassengers
    <2>3. QED
        BY <1>1, <2>1, <2>2, ReturnStep DEF Sale!Next
<1>4. ASSUME ExpireUnpaidBookings PROVE Sale!Next
    <2>1. \A c \in Bookings, p \in Passengers : asg'[c][p] = "active" => asg[c][p] = "active"
        BY <1>4 DEF ExpireUnpaidBookings, TypeOK
    <2>2. UNCHANGED seat
        BY <1>4 DEF ExpireUnpaidBookings
    <2>3. QED
        BY <1>1, <2>1, <2>2, ReturnStep DEF Sale!Next
<1>5. ASSUME NEW b \in Bookings, NEW p \in Passengers, NEW s \in Seats, ChangeSeat(b, p, s)
      PROVE  Sale!Next \/ UNCHANGED owner
    <2>1. (\E old \in Seats : Sale!Move(b, old, s)) \/ Sale!Take(b, {s}) \/ UNCHANGED owner
        BY <1>1, <1>5, ChangeSeatMoves
    <2>2. QED
        BY <2>1 DEF Sale!Next
<1>6. ASSUME NEW b \in Bookings, NEW inTime \in BOOLEAN,
             CaptureIntent(b, inTime) \/ RecordOfficeCash(b, inTime)
      PROVE  Sale!Next \/ UNCHANGED owner
    <2>1. \E amount : CompleteAfterPayment(b, amount, inTime)
        BY <1>6 DEF CaptureIntent, RecordOfficeCash
    <2>2. UNCHANGED <<pax, seat>>
        BY <1>6 DEF CaptureIntent, RecordOfficeCash
    <2>3. (\E S \in SUBSET Seats : Sale!Take(b, S)) \/ UNCHANGED owner
        BY <2>1, <2>2, CompleteSells
    <2>4. QED
        BY <2>3 DEF Sale!Next
<1>7. ASSUME NEW b \in Bookings,
             \/ \E S \in SUBSET Seats : CreateHold(b, S)
             \/ ReleaseHold(b) \/ OpenIntent(b)
             \/ \E p \in Passengers, g \in Genders : ReplacePassenger(b, p, g)
             \/ \E p \in Passengers : RefundSucceeds(b, p) \/ RefundRefused(b, p)
      PROVE  UNCHANGED <<asg, seat>>
    BY <1>7 DEF Bookable, CreateHold, ReleaseHold, OpenIntent, ReplacePassenger, RefundSucceeds,
                RefundRefused, seatVars
<1>8. ASSUME ExpireDueHolds \/ UpdateTrip \/ CancelTrip \/ Tick \/ UNCHANGED vars
      PROVE  UNCHANGED <<asg, seat>>
    BY <1>8 DEF ExpireDueHolds, UpdateTrip, CancelTrip, Tick, vars, seatVars
<1>9. QED
    BY <1>2, <1>3, <1>4, <1>5, <1>6, <1>7, <1>8, OwnerUnchanged
    DEF Next, Customer, Office, Provider

(* For the seats, every handler is a sale of free seats, their return or a *)
(* move to a free seat: no seat passes from one booking to another without *)
(* being free in between.                                                  *)
THEOREM BookingImplementsSale == Spec => ImplementsSeatSale
<1>1. Init => Sale!Init
    BY DEF Init, Sale!Init, owner, Assigned, Occupies
<1>2. Init => TypeInv /\ SeatInv /\ FreshBookingIsEmpty
    BY InitType, InitSeat DEF Init, FreshBookingIsEmpty
<1>3. TypeInv /\ SeatInv /\ FreshBookingIsEmpty /\ [Next]_vars
          => TypeInv' /\ SeatInv' /\ FreshBookingIsEmpty'
    BY NextType, NextSeat, NextFresh DEF TypeInv
<1>4. SeatInv => OwnerIsOccupant
    BY OwnerFact DEF SeatInv
<1>5. TypeInv /\ SeatInv /\ FreshBookingIsEmpty /\ OwnerIsOccupant /\ OwnerIsOccupant'
          /\ [Next]_vars => [Sale!Next]_owner
    BY NextSells DEF TypeInv
<1>6. QED
    BY <1>1, <1>2, <1>3, <1>4, <1>5, PTL DEF Spec, ImplementsSeatSale, Sale!Spec
=============================================================================
