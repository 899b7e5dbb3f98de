--------------------------- MODULE TripDay_proofs ---------------------------
(***************************************************************************)
(* What holds of TripDay for every set of passengers, bookings and         *)
(* devices, and every bound on tickets and versions.                       *)
(***************************************************************************)
EXTENDS TripDay, FiniteSetTheorems, WellFoundedInduction, TLAPS

-----------------------------------------------------------------------------
(* The versions of a ticket *)

(* A set of ticket versions that is not empty has a newest one.            *)
LEMMA NewestExists ==
    ASSUME NEW ts \in Seq(TicketStatus), NEW vs \in SUBSET DOMAIN ts, vs # {}
    PROVE  Newest(vs) \in vs /\ \A w \in vs : w <= Newest(vs)
<1> DEFINE n == Len(ts)
           T == {n - v : v \in vs}
<1>1. n \in Nat /\ DOMAIN ts = 1 .. n
    OBVIOUS
<1>2. vs \subseteq 1 .. n
    BY <1>1
<1>3. T \subseteq Nat /\ T # {}
    BY <1>1, <1>2
<1>4. PICK x \in T : \A y \in T : ~(<<y, x>> \in OpToRel(<, Nat))
    BY <1>3, NatLessThanWellFounded, WFMin
<1>5. \A y \in T : x <= y
    <2>1. \A y \in Nat : y < x => <<y, x>> \in OpToRel(<, Nat)
        <3> SUFFICES ASSUME NEW y \in Nat, y < x PROVE <<y, x>> \in OpToRel(<, Nat)
            OBVIOUS
        <3>1. <<y, x>> \in Nat \X Nat /\ <<y, x>>[1] < <<y, x>>[2]
            BY <1>3
        <3>2. QED
            BY <3>1, Zenon DEF OpToRel
    <2>2. \A y \in T : ~(y < x)
        BY <1>3, <1>4, <2>1
    <2> HIDE DEF T
    <2>3. x \in Nat /\ \A y \in T : y \in Nat
        BY <1>3
    <2>4. QED
        BY <2>2, <2>3
<1>6. PICK v \in vs : x = n - v
    BY <1>4
<1>7. \A w \in vs : w <= v
    <2> SUFFICES ASSUME NEW w \in vs PROVE w <= v
        OBVIOUS
    <2>1. n - w \in T
        OBVIOUS
    <2>2. x <= n - w
        BY <1>5, <2>1
    <2>3. v \in Int /\ w \in Int
        BY <1>2
    <2>4. QED
        BY <1>1, <1>6, <2>2, <2>3
<1>8. \E v1 \in vs : \A w \in vs : w <= v1
    BY <1>7
<1>9. QED
    BY <1>8 DEF Newest

LEMMA RevokedType ==
    ASSUME NEW ts \in Seq(TicketStatus)
    PROVE  /\ Revoked(ts) \in Seq(TicketStatus)
           /\ DOMAIN Revoked(ts) = DOMAIN ts /\ Len(Revoked(ts)) = Len(ts)
           /\ \A v \in DOMAIN ts : Revoked(ts)[v] = IF ts[v] = "active" THEN "revoked" ELSE ts[v]
<1>1. DOMAIN ts = 1 .. Len(ts) /\ Len(ts) \in Nat
    OBVIOUS
<1>2. \A v \in 1 .. Len(ts) : Revoked(ts)[v] \in TicketStatus
    BY <1>1 DEF Revoked, TicketStatus
<1>3. Revoked(ts) \in [1 .. Len(ts) -> TicketStatus]
    BY <1>1, <1>2 DEF Revoked
<1>4. QED
    BY <1>1, <1>3 DEF Revoked

LEMMA ReissuedType ==
    ASSUME NEW ts \in Seq(TicketStatus)
    PROVE  /\ Reissued(ts) \in Seq(TicketStatus)
           /\ DOMAIN Reissued(ts) = 1 .. Len(ts) + 1
           /\ Reissued(ts)[Len(ts) + 1] = "active"
           /\ \A v \in DOMAIN ts : Reissued(ts)[v] = IF ts[v] = "active" THEN "revoked" ELSE ts[v]
<1>1. "active" \in TicketStatus
    BY DEF TicketStatus
<1>2. QED
    BY <1>1, RevokedType DEF Reissued

LEMMA TicketAfterType ==
    ASSUME NEW ts \in Seq(TicketStatus), NEW c, NEW v \in DOMAIN ts
    PROVE  /\ TicketAfter(c, ts, v) \in Seq(TicketStatus)
           /\ DOMAIN TicketAfter(c, ts, v) = DOMAIN ts
           /\ \A w \in DOMAIN ts : w # v => TicketAfter(c, ts, v)[w] = ts[w]
           /\ TicketAfter(c, ts, v)[v] =
                  CASE c = "board" -> "used" [] c = "reverse" -> "active" [] OTHER -> ts[v]
<1>1. "active" \in TicketStatus /\ "used" \in TicketStatus
    BY DEF TicketStatus
<1>2. (CASE c = "board" -> "used" [] c = "reverse" -> "active" [] OTHER -> ts[v]) \in TicketStatus
    <2>1. ts[v] \in TicketStatus
        OBVIOUS
    <2>2. CASE c = "board"
        BY <1>1, <2>2
    <2>3. CASE c = "reverse"
        BY <1>1, <2>3
    <2>4. CASE c # "board" /\ c # "reverse"
        BY <2>1, <2>4
    <2>5. QED
        BY <2>2, <2>3, <2>4
<1>3. QED
    BY <1>2 DEF TicketAfter

(* What an action may do to the versions of a passenger's ticket.          *)
TicketMove(p) ==
    \/ tickets'[p] = tickets[p]
    \/ tickets'[p] = Revoked(tickets[p])
    \/ tickets'[p] = Reissued(tickets[p])
    \/ tickets'[p] = Issued(p)
    \/ \E c \in Commands, qr \in BOOLEAN :
           /\ Found(p, qr) # {}
           /\ tickets'[p] = TicketAfter(c, tickets[p], Newest(Found(p, qr)))

TicketsMove == tickets' = [p \in Passengers |-> tickets'[p]] /\ \A p \in Passengers : TicketMove(p)

LEMMA FoundType ==
    ASSUME TypeOK, NEW p \in Passengers, NEW qr
    PROVE  Found(p, qr) \in SUBSET DOMAIN tickets[p]
BY DEF Found, ActiveTicket, LiveTicket, With

LEMMA IssuedType ==
    ASSUME TypeOK, NEW p \in Passengers
    PROVE  Issued(p) \in Seq(TicketStatus)
<1>1. tickets[p] \in Seq(TicketStatus) /\ "active" \in TicketStatus
    BY DEF TypeOK, TicketStatus
<1>2. QED
    BY <1>1 DEF Issued

LEMMA TicketMoveType ==
    ASSUME TypeOK, TicketsMove
    PROVE  tickets' \in [Passengers -> Seq(TicketStatus)]
<1> SUFFICES ASSUME NEW p \in Passengers PROVE tickets'[p] \in Seq(TicketStatus)
    BY DEF TicketsMove
<1>1. tickets[p] \in Seq(TicketStatus)
    BY DEF TypeOK
<1>2. ASSUME NEW c, NEW qr, Found(p, qr) # {}
      PROVE  TicketAfter(c, tickets[p], Newest(Found(p, qr))) \in Seq(TicketStatus)
    <2>1. Newest(Found(p, qr)) \in Found(p, qr)
        BY <1>1, <1>2, FoundType, NewestExists
    <2>2. QED
        BY <1>1, <2>1, FoundType, TicketAfterType
<1>3. Revoked(tickets[p]) \in Seq(TicketStatus)
    BY <1>1, RevokedType
<1>4. Reissued(tickets[p]) \in Seq(TicketStatus)
    BY <1>1, ReissuedType
<1>5. QED
    BY <1>1, <1>2, <1>3, <1>4, IssuedType DEF TicketsMove, TicketMove

LEMMA ExecuteMove ==
    ASSUME TypeOK, NEW c \in Commands, NEW p \in Passengers, NEW qr \in BOOLEAN, Execute(c, p, qr)
    PROVE  TicketsMove
<1>1. tickets' = [tickets EXCEPT ![p] = WithTicket(c, p, qr)]
    BY DEF Execute
<1>2. TicketMove(p)
    BY <1>1 DEF TicketMove, WithTicket, TypeOK
<1>3. \A q \in Passengers : q # p => TicketMove(q)
    BY <1>1 DEF TicketMove, TypeOK
<1>4. QED
    BY <1>1, <1>2, <1>3 DEF TicketsMove, TypeOK

(* Every step moves every passenger's ticket in one of these ways.         *)
LEMMA NextMove == ASSUME TypeOK, [Next]_vars PROVE TicketsMove
<1>1. tickets' = tickets => TicketsMove
    BY DEF TicketsMove, TicketMove, TypeOK
<1>2. ASSUME NEW c \in Commands, NEW p \in Passengers, NEW qr \in BOOLEAN, BoardingCommand(c, p, qr)
      PROVE  TicketsMove
    BY <1>2, ExecuteMove DEF BoardingCommand
<1>3. ASSUME NEW e \in OfflineEvents, NEW qr \in BOOLEAN, SyncEvent(e, qr) PROVE TicketsMove
    <2>1. e.pax \in Passengers /\ e.cmd \in Commands
        BY TripDayAssumption DEF Commands, StatusOf
    <2>2. QED
        BY <1>1, <1>3, <2>1, ExecuteMove DEF SyncEvent
<1>4. ASSUME NEW b \in Bookings, Pay(b) PROVE TicketsMove
    BY <1>4 DEF Pay, TicketsMove, TicketMove
<1>5. ASSUME NEW b \in Bookings, NEW ps \in SUBSET Passengers, NEW refund \in BOOLEAN,
             CancelPassengers(b, ps, refund)
      PROVE  TicketsMove
    BY <1>5 DEF CancelPassengers, TicketsMove, TicketMove
<1>6. ASSUME NEW p \in Passengers, ReplacePassenger(p) \/ ChangeSeat(p) PROVE TicketsMove
    BY <1>6 DEF ReplacePassenger, ChangeSeat, TicketsMove, TicketMove, TypeOK
<1>7. CASE ApplyReallocation
    BY <1>7 DEF ApplyReallocation, TicketsMove, TicketMove
<1>8. QED
    BY <1>1, <1>2, <1>3, <1>4, <1>5, <1>6, <1>7
    DEF Next, vars, GrantCorrection, CreatePackage, PackageExpires, NoShowJob, ListDueTrip,
        MarkDueNoShows, OpenBoarding, CloseBoarding, Depart, Arrive, CancelTrip, Interrupt,
        Complete, CloseInterrupted, ResolveInterruption, PayPart, ExpireUnpaid, RefundSucceeds,
        UpdateTrip, PreviewReallocation, TimePasses

-----------------------------------------------------------------------------
(* Type correctness *)

LEMMA InitType == Init => TypeOK
<1> SUFFICES ASSUME Init PROVE TypeOK
    OBVIOUS
<1>1. << >> \in Seq(TicketStatus)
    OBVIOUS
<1>2. tickets \in [Passengers -> Seq(TicketStatus)]
    BY <1>1 DEF Init
<1>3. /\ clock \in 0 .. 2 /\ trip \in TripStatus /\ version \in Nat
      /\ status \in [Bookings -> BookingStatus]
      /\ pax \in [Passengers -> {"active", "cancelled"}]
      /\ boarding \in [Passengers -> BoardingStatus]
      /\ seated \subseteq Passengers /\ restorable \subseteq Bookings
      /\ inTime \subseteq Bookings /\ refunding \subseteq Bookings
    BY DEF Init, TripStatus, BookingStatus, BoardingStatus
<1>4. plan \in [version : Nat, who : SUBSET Passengers] /\ pack \in [Devices -> Nat]
    BY DEF Init, NoPlan
<1>5. QED
    BY <1>2, <1>3, <1>4 DEF Init, TypeOK

LEMMA ExecuteType ==
    ASSUME TypeOK, NEW c \in Commands, NEW p \in Passengers, NEW qr \in BOOLEAN, Execute(c, p, qr)
    PROVE  /\ status' \in [Bookings -> BookingStatus]
           /\ boarding' \in [Passengers -> BoardingStatus]
           /\ approval' \in [Passengers -> {"none", "approved", "used"}]
           /\ restorable' \subseteq Bookings
<1>1. StatusOf[c] \in BoardingStatus
    BY DEF Commands, StatusOf, BoardingStatus
<1>2. boarding' \in [Passengers -> BoardingStatus]
    BY <1>1 DEF Execute, TypeOK
<1>3. approval' \in [Passengers -> {"none", "approved", "used"}]
    BY DEF Execute, TypeOK
<1> DEFINE b == BookingOf[p]
           allOut == AllNoShow(b, [boarding EXCEPT ![p] = StatusOf[c]])
<1>4. status' = [status EXCEPT ![b] = CASE c = "deny" -> "denied_boarding_review"
                                        [] c = "no_show" /\ allOut -> "no_show"
                                        [] OTHER -> @]
    BY DEF Execute
<1> HIDE DEF allOut
<1>5. (CASE c = "deny" -> "denied_boarding_review" [] c = "no_show" /\ allOut -> "no_show"
         [] OTHER -> status[b]) \in BookingStatus
    <2>1. b \in Bookings /\ status[b] \in BookingStatus
        BY TripDayAssumption DEF TypeOK
    <2>2. CASE c = "deny"
        BY <2>2 DEF BookingStatus
    <2>3. CASE c # "deny" /\ c = "no_show" /\ allOut
        BY <2>3 DEF BookingStatus
    <2>4. CASE c # "deny" /\ ~(c = "no_show" /\ allOut)
        BY <2>1, <2>4
    <2>5. QED
        BY <2>2, <2>3, <2>4
<1>6. status' \in [Bookings -> BookingStatus]
    BY <1>4, <1>5 DEF TypeOK
<1>7. restorable' \subseteq Bookings
    BY DEF Execute, TypeOK
<1>8. QED
    BY <1>2, <1>3, <1>6, <1>7

LEMMA NextType == TypeOK /\ [Next]_vars => TypeOK'
<1> SUFFICES ASSUME TypeOK, [Next]_vars PROVE TypeOK'
    OBVIOUS
<1>t. tickets' \in [Passengers -> Seq(TicketStatus)]
    BY NextMove, TicketMoveType
<1> USE <1>t
<1>1. CASE UNCHANGED vars
    BY <1>1 DEF vars, tripVars, bookingVars, peopleVars, seatVars, deviceVars, TypeOK
<1>2. ASSUME NEW c \in Commands, NEW p \in Passengers, NEW qr \in BOOLEAN, BoardingCommand(c, p, qr)
      PROVE  TypeOK'
    BY <1>2, ExecuteType DEF BoardingCommand, tripVars, deviceVars, TypeOK
<1>3. ASSUME NEW p \in Passengers, GrantCorrection(p) PROVE TypeOK'
    BY <1>3 DEF GrantCorrection, tripVars, bookingVars, peopleVars, seatVars, deviceVars, TypeOK
<1>4. ASSUME NEW p \in Passengers, ReplacePassenger(p) \/ ChangeSeat(p) PROVE TypeOK'
    BY <1>4 DEF ReplacePassenger, ChangeSeat, NoPlan, tripVars, bookingVars, peopleVars, seatVars,
                deviceVars, TypeOK
<1>5. ASSUME NEW d \in Devices, CreatePackage(d) PROVE TypeOK'
    BY <1>5 DEF CreatePackage, tripVars, bookingVars, peopleVars, seatVars, TypeOK
<1>6. ASSUME NEW d \in Devices, PackageExpires(d) PROVE TypeOK'
    BY <1>6 DEF PackageExpires, tripVars, bookingVars, peopleVars, seatVars, TypeOK
<1>7. ASSUME NEW e \in OfflineEvents, NEW qr \in BOOLEAN, SyncEvent(e, qr) PROVE TypeOK'
    <2>1. e.pax \in Passengers /\ e.cmd \in Commands
        BY TripDayAssumption DEF Commands, StatusOf
    <2>2. /\ status' \in [Bookings -> BookingStatus]
          /\ boarding' \in [Passengers -> BoardingStatus]
          /\ approval' \in [Passengers -> {"none", "approved", "used"}]
          /\ restorable' \subseteq Bookings
        BY <1>7, <2>1, ExecuteType DEF SyncEvent, TypeOK
    <2>3. events' \subseteq OfflineEvents /\ conflicts' \subseteq OfflineEvents
        BY <1>7 DEF SyncEvent, TypeOK
    <2>4. QED
        BY <1>7, <2>2, <2>3 DEF SyncEvent, tripVars, TypeOK
<1>8. CASE ListDueTrip
    BY <1>8 DEF ListDueTrip, tripVars, bookingVars, peopleVars, seatVars, deviceVars, TypeOK
<1>9. CASE MarkDueNoShows
    <2>1. boarding' \in [Passengers -> BoardingStatus]
        BY <1>9 DEF MarkDueNoShows, TypeOK, BoardingStatus
    <2>2. status' \in [Bookings -> BookingStatus]
        BY <1>9 DEF MarkDueNoShows, TypeOK, BookingStatus
    <2>3. QED
        BY <1>9, <2>1, <2>2 DEF MarkDueNoShows, tripVars, seatVars, deviceVars, TypeOK
<1>10. CASE OpenBoarding \/ CloseBoarding \/ Arrive \/ UpdateTrip \/ TimePasses
    BY <1>10 DEF OpenBoarding, CloseBoarding, Arrive, UpdateTrip, TimePasses, TripStep, tripVars,
                 bookingVars, peopleVars, seatVars, deviceVars, TypeOK, TripStatus
<1>11. CASE Depart
    BY <1>11 DEF Depart, Manifest, Aboard, TripStep, bookingVars, peopleVars, seatVars, deviceVars, TypeOK, TripStatus
<1>12. CASE CancelTrip
    BY <1>12 DEF CancelTrip, TripStep, deviceVars, TypeOK, TripStatus, BookingStatus
<1>13. CASE Interrupt
    BY <1>13 DEF Interrupt, TripStep, bookingVars, peopleVars, seatVars, deviceVars, TypeOK, TripStatus
<1>14. ASSUME NEW bs \in SUBSET Bookings, Complete(bs) PROVE TypeOK'
    BY <1>14 DEF Complete, TripStep, seatVars, deviceVars, TypeOK, TripStatus, BookingStatus
<1>15. ASSUME NEW o \in {"completed", "cancelled"}, CloseInterrupted(o) PROVE TypeOK'
    BY <1>15 DEF CloseInterrupted, TripStep, bookingVars, peopleVars, seatVars, deviceVars, TypeOK, TripStatus
<1>16. ASSUME NEW b \in Bookings, ResolveInterruption(b) PROVE TypeOK'
    BY <1>16 DEF ResolveInterruption, tripVars, bookingVars, peopleVars, seatVars, deviceVars, TypeOK
<1>17. ASSUME NEW b \in Bookings, Pay(b) \/ PayPart(b) \/ ExpireUnpaid(b) \/ RefundSucceeds(b) PROVE TypeOK'
    BY <1>17 DEF Pay, PayPart, PaxOf, peopleVars, seatVars, ExpireUnpaid, RefundSucceeds, tripVars, deviceVars, TypeOK, BookingStatus
<1>18. ASSUME NEW b \in Bookings, NEW ps \in SUBSET Passengers, NEW refund \in BOOLEAN,
              CancelPassengers(b, ps, refund)
       PROVE  TypeOK'
    <2>1. status' \in [Bookings -> BookingStatus]
        BY <1>18 DEF CancelPassengers, TypeOK, BookingStatus
    <2>2. pax' \in [Passengers -> {"active", "cancelled"}]
        BY <1>18 DEF CancelPassengers, TypeOK
    <2>3. QED
        BY <1>18, <2>1, <2>2 DEF CancelPassengers, tripVars, deviceVars, TypeOK
<1>19. CASE PreviewReallocation
    BY <1>19 DEF PreviewReallocation, tripVars, bookingVars, peopleVars, seatVars, deviceVars, TypeOK
<1>20. CASE ApplyReallocation
    BY <1>20 DEF ApplyReallocation, NoPlan, bookingVars, peopleVars, seatVars, deviceVars, TypeOK
<1>21. QED
    BY <1>1, <1>2, <1>3, <1>4, <1>5, <1>6, <1>7, <1>8, <1>9, <1>10, <1>11, <1>12, <1>13, <1>14,
       <1>15, <1>16, <1>17, <1>18, <1>19, <1>20
    DEF Next, NoShowJob

(* Every variable keeps its type: no handler of boarding, tickets or the   *)
(* trip's commands writes a status its model does not know.                *)
THEOREM TypeCorrect == Spec => []TypeOK
<1>1. QED
    BY InitType, NextType, PTL DEF Spec

-----------------------------------------------------------------------------
(* One active ticket.  That a passenger has at most one active version is  *)
(* not inductive: a reversal makes the newest live version active again,   *)
(* and an older one must not be active beside it.  What every handler      *)
(* keeps is that no live version is newer than an active one.              *)

NewestIsActive(ts) ==
    \A v, w \in DOMAIN ts : ts[v] = "active" /\ ts[w] \in {"active", "used"} => w <= v
ActiveIsNewest == \A p \in Passengers : NewestIsActive(tickets[p])

LEMMA RevokedNewest ==
    ASSUME NEW ts \in Seq(TicketStatus)
    PROVE  NewestIsActive(Revoked(ts)) /\ NewestIsActive(Reissued(ts))
<1>1. NewestIsActive(Revoked(ts))
    BY RevokedType DEF NewestIsActive
<1> DEFINE again == Reissued(ts)
           n == Len(ts)
<1>2. n \in Nat /\ DOMAIN ts = 1 .. n
    OBVIOUS
<1>3. /\ DOMAIN again = 1 .. n + 1
      /\ \A v \in 1 .. n : again[v] = IF ts[v] = "active" THEN "revoked" ELSE ts[v]
    BY <1>2, ReissuedType
<1> HIDE DEF again, n
<1>4. \A v \in DOMAIN again : again[v] = "active" => v = n + 1
    BY <1>2, <1>3
<1>5. \A v \in DOMAIN again : v <= n + 1
    BY <1>2, <1>3
<1>6. NewestIsActive(again)
    BY <1>2, <1>3, <1>4, <1>5 DEF NewestIsActive
<1>7. QED
    BY <1>1, <1>6 DEF again

LEMMA IssuedNewest ==
    ASSUME TypeOK, NEW p \in Passengers, NewestIsActive(tickets[p])
    PROVE  NewestIsActive(Issued(p))
<1>1. CASE ActiveTicket(p) # {}
    BY <1>1 DEF Issued
<1>2. CASE ActiveTicket(p) = {}
    <2> DEFINE ts == tickets[p]
               n == Len(ts)
    <2>1. ts \in Seq(TicketStatus)
        BY DEF TypeOK
    <2>2. DOMAIN ts = 1 .. n /\ n \in Nat
        BY <2>1
    <2>3. \A v \in 1 .. n : ts[v] # "active"
        BY <1>2, <2>2 DEF ActiveTicket, With
    <2>4. Issued(p) = Append(ts, "active")
        BY <1>2 DEF Issued
    <2>5. /\ DOMAIN Append(ts, "active") = 1 .. n + 1
          /\ \A v \in 1 .. n : Append(ts, "active")[v] = ts[v]
        BY <2>1, <2>2
    <2> HIDE DEF ts, n
    <2>6. \A v \in 1 .. n + 1 : Append(ts, "active")[v] = "active" => v = n + 1
        BY <2>2, <2>3, <2>5
    <2>7. QED
        BY <2>2, <2>4, <2>5, <2>6 DEF NewestIsActive
<1>3. QED
    BY <1>1, <1>2

(* A command acts on the newest of the versions it may act on: with a      *)
(* scanned ticket on the active one, without one on the newest live one,   *)
(* which by the invariant is the active one where there is one.            *)
LEMMA CommandNewest ==
    ASSUME TypeOK, NEW p \in Passengers, NewestIsActive(tickets[p]),
           NEW c \in Commands, NEW qr \in BOOLEAN, Found(p, qr) # {}
    PROVE  NewestIsActive(TicketAfter(c, tickets[p], Newest(Found(p, qr))))
<1> DEFINE ts == tickets[p]
           n == Newest(Found(p, qr))
           after == TicketAfter(c, ts, n)
<1>1. ts \in Seq(TicketStatus)
    BY DEF TypeOK
<1>2. n \in Found(p, qr) /\ \A w \in Found(p, qr) : w <= n
    BY <1>1, FoundType, NewestExists
<1>3. n \in DOMAIN ts /\ DOMAIN ts \subseteq Nat
    BY <1>1, <1>2, FoundType
<1>4. ts[n] \in {"active", "used"}
    BY <1>2 DEF Found, ActiveTicket, LiveTicket, With
<1>5. ASSUME NEW v \in DOMAIN ts, ts[v] = "active" PROVE v = n
    <2>1. v \in Found(p, qr)
        BY <1>5 DEF Found, ActiveTicket, LiveTicket, With
    <2>2. v <= n
        BY <1>2, <2>1
    <2>3. n <= v
        BY <1>3, <1>4, <1>5 DEF NewestIsActive
    <2>4. QED
        BY <1>3, <2>2, <2>3
<1>6. ASSUME NEW w \in DOMAIN ts, ts[w] \in {"active", "used"}, ts[n] = "active" PROVE w <= n
    BY <1>3, <1>6 DEF NewestIsActive
<1>7. ASSUME NEW w \in DOMAIN ts, ts[w] \in {"active", "used"}, ts[n] = "used" PROVE w <= n
    <2>1. qr = FALSE
        BY <1>2, <1>7 DEF Found, ActiveTicket, With
    <2>2. w \in Found(p, qr)
        BY <1>7, <2>1 DEF Found, LiveTicket, With
    <2>3. QED
        BY <1>2, <2>2
<1>8. /\ DOMAIN after = DOMAIN ts
      /\ \A w \in DOMAIN ts : w # n => after[w] = ts[w]
    BY <1>1, <1>3, TicketAfterType
<1> HIDE DEF ts, n, after
<1>9. \A v \in DOMAIN ts : after[v] = "active" => v = n
    BY <1>5, <1>8
<1>10. \A w \in DOMAIN ts : after[w] \in {"active", "used"} => w <= n
    BY <1>3, <1>4, <1>6, <1>7, <1>8
<1>11. NewestIsActive(after)
    BY <1>8, <1>9, <1>10 DEF NewestIsActive
<1>12. QED
    BY <1>11 DEF after, ts, n

LEMMA NextNewest == TypeOK /\ ActiveIsNewest /\ [Next]_vars => ActiveIsNewest'
<1> SUFFICES ASSUME TypeOK, ActiveIsNewest, [Next]_vars, NEW p \in Passengers
             PROVE  NewestIsActive(tickets'[p])
    BY DEF ActiveIsNewest, NewestIsActive
<1>1. TicketMove(p)
    BY NextMove DEF TicketsMove
<1>2. NewestIsActive(tickets[p]) /\ tickets[p] \in Seq(TicketStatus)
    BY DEF ActiveIsNewest, TypeOK
<1>3. NewestIsActive(Revoked(tickets[p])) /\ NewestIsActive(Reissued(tickets[p]))
    BY <1>2, RevokedNewest
<1>4. NewestIsActive(Issued(p))
    BY <1>2, IssuedNewest
<1>5. ASSUME NEW c \in Commands, NEW qr \in BOOLEAN, Found(p, qr) # {}
      PROVE  NewestIsActive(TicketAfter(c, tickets[p], Newest(Found(p, qr))))
    BY <1>2, <1>5, CommandNewest
<1>6. QED
    BY <1>1, <1>2, <1>3, <1>4, <1>5 DEF TicketMove

(* A passenger never holds two active tickets, whatever payments, seat     *)
(* changes, replacements, reallocations, boardings and reversals follow    *)
(* each other.                                                             *)
THEOREM TicketsAreUnique == Spec => []OneActiveTicket
<1>1. Init => ActiveIsNewest
    BY DEF Init, ActiveIsNewest, NewestIsActive
<1>2. TypeOK /\ ActiveIsNewest => OneActiveTicket
    <2> SUFFICES ASSUME TypeOK, ActiveIsNewest, NEW p \in Passengers
                 PROVE  Cardinality(ActiveTicket(p)) <= 1
        BY DEF OneActiveTicket
    <2>1. DOMAIN tickets[p] \subseteq Nat
        BY DEF TypeOK
    <2>2. \A v, w \in ActiveTicket(p) : v = w
        BY <2>1 DEF ActiveIsNewest, NewestIsActive, ActiveTicket, With
    <2>3. CASE ActiveTicket(p) = {}
        BY <2>3, FS_EmptySet
    <2>4. CASE ActiveTicket(p) # {}
        <3>1. PICK v : ActiveTicket(p) = {v}
            BY <2>2, <2>4
        <3>2. Cardinality({v}) = 1
            BY FS_Singleton
        <3>3. QED
            BY <3>1, <3>2
    <2>5. QED
        BY <2>3, <2>4
<1>3. QED
    BY <1>1, <1>2, InitType, NextType, NextNewest, PTL DEF Spec

-----------------------------------------------------------------------------
(* What a step may do to one passenger *)

Untouched(p) ==
    /\ boarding'[p] = boarding[p] /\ approval'[p] = approval[p]
    /\ tickets'[p] \in {tickets[p], Revoked(tickets[p]), Reissued(tickets[p]), Issued(p)}

Commanded(p) ==
    \E c \in Commands, qr \in BOOLEAN :
        /\ Resolves(p, qr) /\ Allowed(c, p, qr) /\ trip' = trip
        /\ boarding'[p] = StatusOf[c]
        /\ tickets'[p] = WithTicket(c, p, qr)
        /\ approval'[p] = IF c = "reverse" /\ NeedsCorrection /\ Found(p, qr) # {}
                          THEN "used" ELSE approval[p]

Missing(p) ==
    /\ DueNoShow(p) /\ boarding'[p] = "no_show"
    /\ tickets'[p] = tickets[p] /\ approval'[p] = approval[p]

Corrected(p) ==
    /\ approval[p] = "none" /\ approval'[p] = "approved"
    /\ boarding'[p] = boarding[p] /\ tickets'[p] = tickets[p]

PersonMove(p) == Untouched(p) \/ Commanded(p) \/ Missing(p) \/ Corrected(p)

LEMMA ExecutePerson ==
    ASSUME TypeOK, NEW c \in Commands, NEW p \in Passengers, NEW qr \in BOOLEAN,
           Resolves(p, qr), Allowed(c, p, qr), trip' = trip, Execute(c, p, qr), NEW q \in Passengers
    PROVE  PersonMove(q)
<1>1. CASE q = p
    <2>1. Commanded(p)
        BY DEF Commanded, Execute, TypeOK
    <2>2. QED
        BY <1>1, <2>1 DEF PersonMove
<1>2. CASE q # p
    BY <1>2 DEF PersonMove, Untouched, Execute, TypeOK
<1>3. QED
    BY <1>1, <1>2

LEMMA NextPerson == ASSUME TypeOK, [Next]_vars, NEW q \in Passengers PROVE PersonMove(q)
<1>1. boarding' = boarding /\ approval' = approval /\ tickets' = tickets => PersonMove(q)
    BY DEF PersonMove, Untouched
<1>2. ASSUME NEW c \in Commands, NEW p \in Passengers, NEW qr \in BOOLEAN, BoardingCommand(c, p, qr)
      PROVE  PersonMove(q)
    BY <1>2, ExecutePerson DEF BoardingCommand, tripVars
<1>3. ASSUME NEW e \in OfflineEvents, NEW qr \in BOOLEAN, SyncEvent(e, qr) PROVE PersonMove(q)
    <2>1. e.pax \in Passengers /\ e.cmd \in Commands
        BY TripDayAssumption DEF Commands, StatusOf
    <2>2. QED
        BY <1>1, <1>3, <2>1, ExecutePerson DEF SyncEvent, tripVars
<1>4. ASSUME NEW p \in Passengers, GrantCorrection(p) PROVE PersonMove(q)
    BY <1>4 DEF GrantCorrection, bookingVars, peopleVars, PersonMove, Untouched, Corrected, TypeOK
<1>5. CASE MarkDueNoShows
    BY <1>5 DEF MarkDueNoShows, PersonMove, Untouched, Missing
<1>6. ASSUME NEW b \in Bookings, Pay(b) PROVE PersonMove(q)
    BY <1>6 DEF Pay, PersonMove, Untouched
<1>7. ASSUME NEW b \in Bookings, NEW ps \in SUBSET Passengers, NEW refund \in BOOLEAN,
             CancelPassengers(b, ps, refund)
      PROVE  PersonMove(q)
    BY <1>7 DEF CancelPassengers, PersonMove, Untouched
<1>8. ASSUME NEW p \in Passengers, ReplacePassenger(p) \/ ChangeSeat(p) PROVE PersonMove(q)
    BY <1>8 DEF ReplacePassenger, ChangeSeat, bookingVars, peopleVars, PersonMove, Untouched, TypeOK
<1>9. CASE ApplyReallocation
    BY <1>9 DEF ApplyReallocation, peopleVars, PersonMove, Untouched
<1>10. QED
    BY <1>1, <1>2, <1>3, <1>4, <1>5, <1>6, <1>7, <1>8, <1>9
    DEF Next, vars, bookingVars, peopleVars, CreatePackage, PackageExpires, NoShowJob, ListDueTrip, OpenBoarding,
        CloseBoarding, Depart, Arrive, CancelTrip, Interrupt, Complete, CloseInterrupted,
        ResolveInterruption, PayPart, ExpireUnpaid, RefundSucceeds, UpdateTrip, PreviewReallocation, TimePasses

-----------------------------------------------------------------------------
(* Whoever is aboard has used a ticket *)

HasUsed(ts) == \E v \in DOMAIN ts : ts[v] = "used"
BoardedHasUsed == \A p \in Passengers : boarding[p] = "boarded" => HasUsed(tickets[p])

LEMMA UsedIsKept ==
    ASSUME TypeOK, NEW p \in Passengers, HasUsed(tickets[p])
    PROVE  /\ HasUsed(Revoked(tickets[p])) /\ HasUsed(Reissued(tickets[p]))
           /\ HasUsed(Issued(p))
<1> DEFINE ts == tickets[p]
<1>1. ts \in Seq(TicketStatus)
    BY DEF TypeOK
<1>2. PICK v \in DOMAIN ts : ts[v] = "used"
    BY DEF HasUsed
<1>3. HasUsed(Revoked(ts))
    BY <1>1, <1>2, RevokedType DEF HasUsed
<1>4. HasUsed(Reissued(ts))
    <2>1. v \in DOMAIN Reissued(ts)
        BY <1>1, <1>2, ReissuedType
    <2>2. Reissued(ts)[v] = "used"
        BY <1>1, <1>2, ReissuedType
    <2>3. QED
        BY <2>1, <2>2 DEF HasUsed
<1>5. HasUsed(Append(ts, "active"))
    BY <1>1, <1>2 DEF HasUsed
<1>6. QED
    BY <1>2, <1>3, <1>4, <1>5 DEF Issued, HasUsed

LEMMA NextUsed == TypeOK /\ BoardedHasUsed /\ [Next]_vars => BoardedHasUsed'
<1> SUFFICES ASSUME TypeOK, BoardedHasUsed, [Next]_vars, NEW p \in Passengers,
                    boarding'[p] = "boarded"
             PROVE  HasUsed(tickets'[p])
    BY DEF BoardedHasUsed, HasUsed
<1>1. PersonMove(p)
    BY NextPerson
<1>2. CASE Untouched(p)
    <2>1. HasUsed(tickets[p])
        BY <1>2 DEF Untouched, BoardedHasUsed
    <2>2. QED
        BY <1>2, <2>1, UsedIsKept DEF Untouched
<1>3. CASE Commanded(p)
    <2>1. PICK c \in Commands, qr \in BOOLEAN :
              /\ Allowed(c, p, qr) /\ boarding'[p] = StatusOf[c]
              /\ tickets'[p] = WithTicket(c, p, qr)
        BY <1>3 DEF Commanded
    <2>2. c = "board"
        BY <2>1 DEF Commands, StatusOf
    <2>3. Found(p, qr) # {}
        BY <2>1, <2>2 DEF Allowed
    <2>4. tickets[p] \in Seq(TicketStatus)
        BY DEF TypeOK
    <2>5. Newest(Found(p, qr)) \in DOMAIN tickets[p]
        BY <2>3, <2>4, FoundType, NewestExists
    <2>6. tickets'[p] = TicketAfter("board", tickets[p], Newest(Found(p, qr)))
        BY <2>1, <2>2, <2>3 DEF WithTicket
    <2>7. QED
        BY <2>4, <2>5, <2>6, TicketAfterType DEF HasUsed
<1>4. CASE Missing(p)
    BY <1>4 DEF Missing
<1>5. CASE Corrected(p)
    BY <1>5 DEF Corrected, BoardedHasUsed
<1>6. QED
    BY <1>1, <1>2, <1>3, <1>4, <1>5 DEF PersonMove

(* Nobody gets aboard without using a ticket.                              *)
THEOREM BoardedHaveUsedTickets == Spec => []BoardedUsedATicket
<1>1. Init => BoardedHasUsed
    BY DEF Init, BoardedHasUsed
<1>2. BoardedHasUsed => BoardedUsedATicket
    BY DEF BoardedHasUsed, BoardedUsedATicket, HasUsed, With
<1>3. QED
    BY <1>1, <1>2, InitType, NextType, NextUsed, PTL DEF Spec

-----------------------------------------------------------------------------
(* Cancelled passengers *)

LEMMA NextPax ==
    ASSUME [Next]_vars
    PROVE  \/ pax' = pax
           \/ \E b \in Bookings, ps \in SUBSET Passengers, refund \in BOOLEAN :
                  CancelPassengers(b, ps, refund)
BY DEF Next, vars, bookingVars, peopleVars, BoardingCommand, GrantCorrection, ReplacePassenger,
       ChangeSeat, CreatePackage, PackageExpires, SyncEvent, NoShowJob, ListDueTrip, MarkDueNoShows,
       OpenBoarding, CloseBoarding, Depart, Arrive, CancelTrip, Interrupt, Complete,
       CloseInterrupted, ResolveInterruption, Pay, PayPart, ExpireUnpaid, RefundSucceeds,
       UpdateTrip, PreviewReallocation, ApplyReallocation, TimePasses

LEMMA NextAshore == TypeOK /\ CancelledStaysAshore /\ [Next]_vars => CancelledStaysAshore'
<1> SUFFICES ASSUME TypeOK, CancelledStaysAshore, [Next]_vars, NEW p \in Passengers,
                    pax'[p] = "cancelled"
             PROVE  boarding'[p] \notin {"boarded", "boarded_reversed"}
    BY DEF CancelledStaysAshore
<1>1. ASSUME NEW b \in Bookings, NEW ps \in SUBSET Passengers, NEW refund \in BOOLEAN,
             CancelPassengers(b, ps, refund)
      PROVE  boarding'[p] \notin {"boarded", "boarded_reversed"}
    BY <1>1 DEF CancelPassengers, CancelledStaysAshore
<1>2. CASE pax' = pax
    <2>1. PersonMove(p) /\ ~Commanded(p)
        BY <1>2, NextPerson DEF Commanded, Resolves
    <2>2. QED
        BY <1>2, <2>1 DEF PersonMove, Untouched, Missing, Corrected, CancelledStaysAshore
<1>3. QED
    BY <1>1, <1>2, NextPax

(* Though payments give cancelled passengers seats and tickets again, none *)
(* of them boards, and nobody who has boarded is cancelled.                *)
THEOREM CancelledDoNotBoard == Spec => []CancelledStaysAshore
<1>1. Init => CancelledStaysAshore
    BY DEF Init, CancelledStaysAshore
<1>2. QED
    BY <1>1, InitType, NextType, NextAshore, PTL DEF Spec

-----------------------------------------------------------------------------
(* The FINAL manifest.  A reversal after the departure marks its approval  *)
(* used only if it finds a ticket: that it does is BoardedHasUsed.  That   *)
(* the interruption of the trip finds the booking of everyone on the       *)
(* manifest confirmed is what OnManifest carries to it.                    *)

Before == {"booking_open", "boarding_open", "boarding_closed"}
OnManifest ==
    \A p \in final :
        /\ trip \notin Before
        /\ pax[p] = "active" /\ boarding[p] \in {"boarded", "boarded_reversed"}
        /\ trip = "departed" => Booked(p) = "confirmed"
        /\ trip \in {"interrupted", "cancelled"} => resolution[BookingOf[p]] # "none"

(* After the departure the trip goes on, or is interrupted and closed.     *)
LEMMA TripGoesOn ==
    ASSUME [Next]_vars, trip \notin Before
    PROVE  /\ final' = final /\ trip' \notin Before
           /\ trip' = "departed" => trip = "departed"
           /\ trip' \in {"interrupted", "cancelled"} => trip \in {"interrupted", "cancelled"} \/ Interrupt
BY DEF Before, Next, vars, tripVars, BoardingCommand, GrantCorrection, ReplacePassenger, ChangeSeat,
       CreatePackage, PackageExpires, SyncEvent, NoShowJob, ListDueTrip, MarkDueNoShows, OpenBoarding,
       CloseBoarding, Depart, Arrive, CancelTrip, Interrupt, Complete, CloseInterrupted,
       ResolveInterruption, Pay, PayPart, ExpireUnpaid, RefundSucceeds, CancelPassengers, UpdateTrip,
       PreviewReallocation, ApplyReallocation, TimePasses, TripStep

LEMMA FinalOnDeparture ==
    ASSUME [Next]_vars, trip \in Before
    PROVE  final' = final \/ Depart
BY DEF Before, Next, vars, tripVars, BoardingCommand, GrantCorrection, ReplacePassenger, ChangeSeat,
       CreatePackage, PackageExpires, SyncEvent, NoShowJob, ListDueTrip, MarkDueNoShows, OpenBoarding,
       CloseBoarding, Arrive, CancelTrip, Interrupt, Complete, CloseInterrupted,
       ResolveInterruption, Pay, PayPart, ExpireUnpaid, RefundSucceeds, CancelPassengers, UpdateTrip,
       PreviewReallocation, ApplyReallocation, TimePasses, TripStep

LEMMA ResolutionKept ==
    ASSUME TypeOK, [Next]_vars, NEW b \in Bookings, resolution[b] # "none"
    PROVE  resolution'[b] # "none"
<1>1. ASSUME NEW c \in Bookings, ResolveInterruption(c) PROVE resolution'[b] # "none"
    BY <1>1 DEF ResolveInterruption, TypeOK
<1>2. CASE Interrupt
    BY <1>2 DEF Interrupt
<1>3. QED
    BY <1>1, <1>2
    DEF Next, vars, BoardingCommand, GrantCorrection, ReplacePassenger, ChangeSeat, CreatePackage,
        PackageExpires, SyncEvent, NoShowJob, ListDueTrip, MarkDueNoShows, OpenBoarding,
        CloseBoarding, Depart, Arrive, CancelTrip, Complete, CloseInterrupted, Pay, PayPart,
        ExpireUnpaid, RefundSucceeds, CancelPassengers, UpdateTrip, PreviewReallocation,
        ApplyReallocation, TimePasses

(* While the trip is under way, the booking of somebody aboard stays       *)
(* confirmed: he can neither be cancelled nor be a no-show.                *)
LEMMA ConfirmedUnderWay ==
    ASSUME TypeOK, [Next]_vars, trip = "departed", trip' = "departed", NEW p \in Passengers,
           pax[p] = "active", boarding[p] \in {"boarded", "boarded_reversed"},
           Booked(p) = "confirmed"
    PROVE  Booked(p)' = "confirmed"
<1> DEFINE b == BookingOf[p]
<1>1. b \in Bookings /\ status[b] = "confirmed" /\ p \in Travelling(b)
    BY TripDayAssumption DEF Booked, Travelling, PaxOf
<1> SUFFICES status'[b] = "confirmed"
    BY DEF Booked
<1> HIDE DEF b
<1>2. ASSUME NEW c \in Commands, NEW q \in Passengers, NEW qr \in BOOLEAN,
             Allowed(c, q, qr), Execute(c, q, qr)
      PROVE  status'[b] = "confirmed"
    <2>1. c \notin {"deny", "no_show"}
        BY <1>2 DEF Allowed, MayMarkNoShow
    <2>2. BookingOf[q] \in Bookings
        BY TripDayAssumption
    <2>3. QED
        BY <1>1, <1>2, <2>1, <2>2 DEF Execute, TypeOK
<1>3. ASSUME NEW c \in Commands, NEW q \in Passengers, NEW qr \in BOOLEAN, BoardingCommand(c, q, qr)
      PROVE  status'[b] = "confirmed"
    BY <1>2, <1>3 DEF BoardingCommand
<1>4. ASSUME NEW e \in OfflineEvents, NEW qr \in BOOLEAN, SyncEvent(e, qr)
      PROVE  status'[b] = "confirmed"
    <2>1. e.pax \in Passengers /\ e.cmd \in Commands
        BY TripDayAssumption DEF Commands, StatusOf
    <2>2. status' = status \/ (Allowed(e.cmd, e.pax, qr) /\ Execute(e.cmd, e.pax, qr))
        BY <1>4 DEF SyncEvent
    <2>3. QED
        BY <1>1, <1>2, <2>1, <2>2
<1>5. CASE MarkDueNoShows
    <2>1. ~DueNoShow(p)
        BY DEF DueNoShow
    <2>2. ~AllNoShow(b, [q \in Passengers |->
              IF q \in {r \in Passengers : DueNoShow(r)} THEN "no_show" ELSE boarding[q]])
        BY <1>1, <2>1 DEF AllNoShow
    <2>3. QED
        BY <1>1, <1>5, <2>2 DEF MarkDueNoShows
<1>6. ASSUME NEW c \in Bookings, Pay(c) \/ PayPart(c) \/ ExpireUnpaid(c) \/ RefundSucceeds(c)
      PROVE  status'[b] = "confirmed"
    BY <1>1, <1>6 DEF Pay, PayPart, peopleVars, ExpireUnpaid, RefundSucceeds, TypeOK
<1>7. ASSUME NEW c \in Bookings, NEW ps \in SUBSET Passengers, NEW refund \in BOOLEAN,
             CancelPassengers(c, ps, refund)
      PROVE  status'[b] = "confirmed"
    <2>1. p \notin ps
        BY <1>7 DEF CancelPassengers
    <2>2. c = b => ps # Travelling(c)
        BY <1>1, <2>1
    <2>3. QED
        BY <1>1, <1>7, <2>2 DEF CancelPassengers, TypeOK
<1>8. ASSUME NEW bs \in SUBSET Bookings, Complete(bs) PROVE FALSE
    BY <1>8 DEF Complete, TripStep
<1>9. QED
    BY <1>1, <1>3, <1>4, <1>5, <1>6, <1>7, <1>8
    DEF Next, vars, bookingVars, peopleVars, GrantCorrection, ReplacePassenger, ChangeSeat,
        CreatePackage, PackageExpires, NoShowJob, ListDueTrip, OpenBoarding, CloseBoarding, Depart,
        Arrive, CancelTrip, Interrupt, CloseInterrupted, ResolveInterruption, UpdateTrip,
        PreviewReallocation, ApplyReallocation, TimePasses, TripStep

LEMMA NextOnManifest == TypeOK /\ OnManifest /\ [Next]_vars => OnManifest'
<1> SUFFICES ASSUME TypeOK, OnManifest, [Next]_vars, NEW p \in final'
             PROVE  /\ trip' \notin Before
                    /\ pax'[p] = "active" /\ boarding'[p] \in {"boarded", "boarded_reversed"}
                    /\ trip' = "departed" => Booked(p)' = "confirmed"
                    /\ trip' \in {"interrupted", "cancelled"} => resolution'[BookingOf[p]] # "none"
    BY DEF OnManifest
<1>1. CASE Depart
    <2>1. /\ p \in Manifest /\ trip' = "departed" /\ pax' = pax /\ boarding' = boarding
          /\ status' = status
        BY <1>1 DEF Depart, TripStep, bookingVars, peopleVars
    <2>2. p \in Passengers /\ BookingOf[p] \in Bookings
        BY <2>1, TripDayAssumption DEF Manifest, Aboard
    <2>3. Booked(p) = "confirmed"
        BY <1>1, <2>1, <2>2 DEF Depart, Manifest, Blocked, Booked
    <2>4. QED
        BY <2>1, <2>3 DEF Manifest, Aboard, Before, Booked
<1>2. CASE ~Depart
    <2>1. p \in final /\ trip \notin Before
        BY <1>2, FinalOnDeparture, TripGoesOn DEF OnManifest
    <2>2. p \in Passengers /\ BookingOf[p] \in Bookings
        BY <2>1, TripDayAssumption DEF TypeOK
    <2>3. pax[p] = "active" /\ boarding[p] \in {"boarded", "boarded_reversed"}
        BY <2>1 DEF OnManifest
    <2>4. pax'[p] = "active"
        <3>1. ASSUME NEW b \in Bookings, NEW ps \in SUBSET Passengers, NEW refund \in BOOLEAN,
                     CancelPassengers(b, ps, refund)
              PROVE  pax'[p] = "active"
            BY <2>2, <2>3, <3>1 DEF CancelPassengers
        <3>2. QED
            BY <2>3, <3>1, NextPax
    <2>5. boarding'[p] \in {"boarded", "boarded_reversed"}
        <3>1. PersonMove(p)
            BY <2>2, NextPerson
        <3>2. Commanded(p) => boarding'[p] = "boarded_reversed"
            BY <2>1, <2>3 DEF Commanded, Allowed, MayMarkNoShow, Commands, StatusOf, Before
        <3>3. QED
            BY <2>3, <3>1, <3>2 DEF PersonMove, Untouched, Missing, DueNoShow, Corrected
    <2>6. ASSUME trip' = "departed" PROVE Booked(p)' = "confirmed"
        <3>1. trip = "departed" /\ Booked(p) = "confirmed"
            BY <2>1, <2>6, TripGoesOn DEF OnManifest
        <3>2. QED
            BY <2>2, <2>3, <2>6, <3>1, ConfirmedUnderWay
    <2>7. ASSUME trip' \in {"interrupted", "cancelled"} PROVE resolution'[BookingOf[p]] # "none"
        <3>1. CASE Interrupt
            <4>1. Booked(p) = "confirmed"
                BY <2>1, <3>1 DEF OnManifest, Interrupt, TripStep
            <4>2. QED
                BY <2>2, <3>1, <4>1 DEF Interrupt, In, Booked
        <3>2. CASE ~Interrupt
            <4>1. resolution[BookingOf[p]] # "none"
                BY <2>1, <2>7, <3>2, TripGoesOn DEF OnManifest
            <4>2. QED
                BY <2>2, <4>1, ResolutionKept
        <3>3. QED
            BY <3>1, <3>2
    <2>8. QED
        BY <2>1, <2>4, <2>5, <2>6, <2>7, TripGoesOn
<1>3. QED
    BY <1>1, <1>2

LEMMA NextManifest ==
    TypeOK /\ BoardedHasUsed /\ OnManifest /\ FinalManifestStands /\ [Next]_vars
        => FinalManifestStands'
<1> SUFFICES ASSUME TypeOK, BoardedHasUsed, OnManifest, FinalManifestStands, [Next]_vars,
                    NEW p \in final', boarding'[p] # "boarded"
             PROVE  approval'[p] = "used" \/ resolution'[BookingOf[p]] # "none"
    BY DEF FinalManifestStands
<1>1. CASE Depart
    BY <1>1 DEF Depart, Manifest, Aboard, bookingVars, peopleVars
<1>2. CASE ~Depart
    <2>1. p \in final /\ trip \notin Before
        BY <1>2, FinalOnDeparture, TripGoesOn DEF OnManifest
    <2>2. p \in Passengers /\ BookingOf[p] \in Bookings
        BY <2>1, TripDayAssumption DEF TypeOK
    <2>3. CASE resolution[BookingOf[p]] # "none"
        BY <2>2, <2>3, ResolutionKept
    <2>4. CASE resolution[BookingOf[p]] = "none"
        <3>1. boarding[p] # "boarded" => approval[p] = "used"
            BY <2>1, <2>4 DEF FinalManifestStands
        <3>2. PersonMove(p)
            BY <2>2, NextPerson
        <3>3. CASE Commanded(p)
            <4>1. PICK c \in Commands, qr \in BOOLEAN :
                      /\ Resolves(p, qr) /\ Allowed(c, p, qr) /\ boarding'[p] = StatusOf[c]
                      /\ approval'[p] = IF c = "reverse" /\ NeedsCorrection /\ Found(p, qr) # {}
                                        THEN "used" ELSE approval[p]
                BY <3>3 DEF Commanded
            <4>2. CASE boarding[p] # "boarded"
                BY <3>1, <4>1, <4>2
            <4>3. CASE boarding[p] = "boarded"
                <5>1. c = "reverse"
                    BY <2>1, <4>1, <4>3 DEF Allowed, MayMarkNoShow, Commands, StatusOf, Before
                <5>2. trip \notin {"interrupted", "cancelled"} /\ trip \in TripStatus
                    BY <2>1, <2>4 DEF OnManifest, TypeOK
                <5>3. NeedsCorrection
                    BY <2>1, <5>2 DEF NeedsCorrection, TripStatus, Before
                <5>4. LiveTicket(p) # {}
                    BY <2>2, <4>3 DEF BoardedHasUsed, HasUsed, LiveTicket, With
                <5>5. Found(p, qr) # {}
                    BY <4>1, <5>4 DEF Found, Resolves
                <5>6. QED
                    BY <4>1, <5>1, <5>3, <5>5
            <4>4. QED
                BY <4>2, <4>3
        <3>4. CASE Untouched(p)
            BY <3>1, <3>4 DEF Untouched
        <3>5. CASE Missing(p)
            BY <3>1, <3>5 DEF Missing, DueNoShow
        <3>6. CASE Corrected(p)
            BY <3>1, <3>6 DEF Corrected
        <3>7. QED
            BY <3>2, <3>3, <3>4, <3>5, <3>6 DEF PersonMove
    <2>5. QED
        BY <2>3, <2>4
<1>3. QED
    BY <1>1, <1>2

(* Nobody leaves the FINAL manifest without a correction the platform      *)
(* approved, under way, on arrival and after the completion, except on a   *)
(* trip that was interrupted with his booking aboard.                      *)
THEOREM FinalManifestHolds == Spec => []FinalManifestStands
<1>1. Init => BoardedHasUsed /\ OnManifest /\ FinalManifestStands
    BY DEF Init, BoardedHasUsed, OnManifest, FinalManifestStands
<1>2. QED
    BY <1>1, InitType, NextType, NextUsed, NextOnManifest, NextManifest, PTL DEF Spec

-----------------------------------------------------------------------------
(* No-shows *)

(* A command never takes a passenger out of "no_show".                     *)
LEMMA NoShowIsFinal ==
    ASSUME TypeOK, [Next]_vars, NEW p \in Passengers, boarding[p] = "no_show"
    PROVE  boarding'[p] = "no_show"
<1>1. PersonMove(p)
    BY NextPerson
<1>2. ~Commanded(p)
    BY DEF Commanded, Allowed, MayMarkNoShow, Commands, StatusOf
<1>3. QED
    BY <1>1, <1>2 DEF PersonMove, Untouched, Missing, Corrected

LEMMA ExecuteNoShow ==
    ASSUME TypeOK, NEW c \in Commands, NEW p \in Passengers, NEW qr \in BOOLEAN,
           Resolves(p, qr), Execute(c, p, qr), pax' = pax,
           NEW b \in Bookings, status[b] # "no_show", status'[b] = "no_show"
    PROVE  /\ Travelling(b) # {}
           /\ \A q \in Travelling(b) : boarding'[q] = "no_show"
<1> DEFINE marks == [boarding EXCEPT ![p] = StatusOf[c]]
           out == AllNoShow(BookingOf[p], marks)
<1>1. BookingOf[p] \in Bookings
    BY TripDayAssumption
<1>2. /\ boarding' = marks
      /\ status' = [status EXCEPT ![BookingOf[p]] =
             CASE c = "deny" -> "denied_boarding_review" [] c = "no_show" /\ out -> "no_show"
               [] OTHER -> @]
    BY DEF Execute
<1> HIDE DEF out
<1>3. b = BookingOf[p] /\ c = "no_show" /\ out
    <2>1. b = BookingOf[p]
        BY <1>1, <1>2 DEF TypeOK
    <2>2. CASE c = "deny"
        BY <1>1, <1>2, <2>1, <2>2 DEF TypeOK
    <2>3. CASE c # "deny" /\ ~(c = "no_show" /\ out)
        BY <1>1, <1>2, <2>1, <2>3 DEF TypeOK
    <2>4. QED
        BY <2>1, <2>2, <2>3
<1>4. p \in Travelling(b)
    BY <1>3 DEF Resolves, Travelling, PaxOf
<1>5. QED
    BY <1>2, <1>3, <1>4 DEF out, AllNoShow

LEMMA NextAbsent == TypeOK /\ NoShowBookingIsAbsent /\ [Next]_vars => NoShowBookingIsAbsent'
<1> SUFFICES ASSUME TypeOK, NoShowBookingIsAbsent, [Next]_vars, NEW b \in Bookings,
                    status'[b] = "no_show"
             PROVE  Travelling(b)' # {} /\ \A p \in Travelling(b)' : boarding'[p] = "no_show"
    BY DEF NoShowBookingIsAbsent
<1>1. CASE status[b] = "no_show"
    <2>1. Travelling(b)' = Travelling(b)
        <3>1. pax' = pax => Travelling(b)' = Travelling(b)
            BY DEF Travelling, PaxOf
        <3>2. ASSUME NEW c \in Bookings, NEW ps \in SUBSET Passengers, NEW refund \in BOOLEAN,
                     CancelPassengers(c, ps, refund)
              PROVE  Travelling(b)' = Travelling(b)
            <4>1. c # b
                BY <1>1, <3>2 DEF CancelPassengers, In
            <4>2. \A p \in PaxOf(b) : p \notin ps
                BY <3>2, <4>1 DEF CancelPassengers, Travelling, PaxOf
            <4>3. QED
                BY <3>2, <4>2 DEF CancelPassengers, Travelling, PaxOf, TypeOK
        <3>3. QED
            BY <3>1, <3>2
            DEF Next, vars, bookingVars, peopleVars, BoardingCommand, GrantCorrection, ReplacePassenger, ChangeSeat,
                CreatePackage, PackageExpires, SyncEvent, NoShowJob, ListDueTrip, MarkDueNoShows,
                OpenBoarding, CloseBoarding, Depart, Arrive, CancelTrip, Interrupt, Complete,
                CloseInterrupted, ResolveInterruption, Pay, PayPart, ExpireUnpaid, RefundSucceeds,
                UpdateTrip, PreviewReallocation, ApplyReallocation, TimePasses
    <2>2. Travelling(b) \subseteq Passengers
        BY DEF Travelling, PaxOf
    <2>3. QED
        BY <1>1, <2>1, <2>2, NoShowIsFinal DEF NoShowBookingIsAbsent
<1>2. CASE status[b] # "no_show"
    <2>1. \/ \E c \in Commands, p \in Passengers, qr \in BOOLEAN : BoardingCommand(c, p, qr)
          \/ \E e \in OfflineEvents, qr \in BOOLEAN : SyncEvent(e, qr)
          \/ MarkDueNoShows
        <3>1. status' # status
            BY <1>2
        <3>2. ~\E c \in Bookings : Pay(c) \/ PayPart(c) \/ ExpireUnpaid(c) \/ RefundSucceeds(c)
            BY <1>2 DEF Pay, PayPart, peopleVars, ExpireUnpaid, RefundSucceeds, TypeOK
        <3>3. ~\E c \in Bookings, ps \in SUBSET Passengers, refund \in BOOLEAN :
                  CancelPassengers(c, ps, refund)
            BY <1>2 DEF CancelPassengers, TypeOK
        <3>4. ~\E bs \in SUBSET Bookings : Complete(bs)
            BY <1>2 DEF Complete
        <3>5. ~CancelTrip
            BY <1>2 DEF CancelTrip
        <3>6. QED
            BY <3>1, <3>2, <3>3, <3>4, <3>5
            DEF Next, vars, bookingVars, peopleVars, GrantCorrection, ReplacePassenger, ChangeSeat, CreatePackage,
                PackageExpires, NoShowJob, ListDueTrip, OpenBoarding, CloseBoarding, Depart, Arrive,
                Interrupt, CloseInterrupted, ResolveInterruption, UpdateTrip, PreviewReallocation,
                ApplyReallocation, TimePasses
    <2>2. ASSUME NEW c \in Commands, NEW p \in Passengers, NEW qr \in BOOLEAN,
                 BoardingCommand(c, p, qr)
          PROVE  Travelling(b)' # {} /\ \A q \in Travelling(b)' : boarding'[q] = "no_show"
        <3>1. Travelling(b)' = Travelling(b)
            BY <2>2 DEF BoardingCommand, Travelling, PaxOf
        <3>2. QED
            BY <1>2, <2>2, <3>1, ExecuteNoShow DEF BoardingCommand
    <2>3. ASSUME NEW e \in OfflineEvents, NEW qr \in BOOLEAN, SyncEvent(e, qr)
          PROVE  Travelling(b)' # {} /\ \A q \in Travelling(b)' : boarding'[q] = "no_show"
        <3>1. e.pax \in Passengers /\ e.cmd \in Commands
            BY TripDayAssumption DEF Commands, StatusOf
        <3>2. pax' = pax /\ Travelling(b)' = Travelling(b)
            BY <2>3 DEF SyncEvent, Travelling, PaxOf
        <3>3. Resolves(e.pax, qr) /\ Execute(e.cmd, e.pax, qr)
            BY <1>2, <2>3 DEF SyncEvent
        <3>4. QED
            BY <1>2, <3>1, <3>2, <3>3, ExecuteNoShow
    <2>4. CASE MarkDueNoShows
        <3> DEFINE due == {p \in Passengers : DueNoShow(p)}
                   marks == [p \in Passengers |-> IF p \in due THEN "no_show" ELSE boarding[p]]
        <3>1. boarding' = marks /\ Travelling(b)' = Travelling(b)
            BY <2>4 DEF MarkDueNoShows, Travelling, PaxOf
        <3>2. PaxOf(b) \cap due # {} /\ AllNoShow(b, marks)
            BY <1>2, <2>4 DEF MarkDueNoShows
        <3>3. PaxOf(b) \cap due \subseteq Travelling(b)
            BY DEF Travelling, DueNoShow
        <3>4. QED
            BY <3>1, <3>2, <3>3 DEF AllNoShow
    <2>5. QED
        BY <2>1, <2>2, <2>3, <2>4
<1>3. QED
    BY <1>1, <1>2

(* A booking is a no-show only if all its travellers are.                  *)
THEOREM NoShowBookingsAreAbsent == Spec => []NoShowBookingIsAbsent
<1>1. Init => NoShowBookingIsAbsent
    BY DEF Init, NoShowBookingIsAbsent
<1>2. QED
    BY <1>1, InitType, NextType, NextAbsent, PTL DEF Spec

(* A denied passenger, or one of a booking under review, never becomes a   *)
(* no-show.                                                                *)
THEOREM DeniedStaysDenied == Spec => DeniedIsNotNoShow
<1>1. ASSUME TypeOK, [Next]_vars, NEW p \in Passengers,
             boarding[p] # "no_show", boarding'[p] = "no_show"
      PROVE  boarding[p] # "denied" /\ Booked(p) # "denied_boarding_review"
    <2>1. PersonMove(p)
        BY <1>1, NextPerson
    <2>2. CASE Commanded(p)
        BY <1>1, <2>2 DEF Commanded, Allowed, MayMarkNoShow, Commands, StatusOf
    <2>3. CASE Missing(p)
        BY <2>3 DEF Missing, DueNoShow
    <2>4. QED
        BY <1>1, <2>1, <2>2, <2>3 DEF PersonMove, Untouched, Corrected
<1>2. TypeOK /\ [Next]_vars =>
          [\A p \in Passengers : boarding[p] # "no_show" /\ boarding'[p] = "no_show" =>
               boarding[p] # "denied" /\ Booked(p) # "denied_boarding_review"]_vars
    BY <1>1
<1>3. QED
    BY <1>2, InitType, NextType, PTL DEF Spec, DeniedIsNotNoShow

(* An accepted offline event never becomes a conflict.                     *)
THEOREM AcceptedIsNoConflict == Spec => AcceptedStaysAccepted
<1>1. ASSUME [Next]_vars, NEW e \in events \ conflicts PROVE e \notin conflicts'
    <2>1. ASSUME NEW d \in OfflineEvents, NEW qr \in BOOLEAN, SyncEvent(d, qr) PROVE e \notin conflicts'
        BY <2>1 DEF SyncEvent, Duplicate
    <2>2. conflicts' = conflicts => e \notin conflicts'
        OBVIOUS
    <2>3. QED
        BY <1>1, <2>1, <2>2
        DEF Next, vars, deviceVars, BoardingCommand, GrantCorrection, ReplacePassenger, ChangeSeat,
            CreatePackage, PackageExpires, NoShowJob, ListDueTrip, MarkDueNoShows,
            OpenBoarding, CloseBoarding, Depart, Arrive, CancelTrip, Interrupt, Complete,
            CloseInterrupted, ResolveInterruption, Pay, PayPart, ExpireUnpaid, RefundSucceeds,
            CancelPassengers, UpdateTrip, PreviewReallocation, ApplyReallocation, TimePasses
<1>2. [Next]_vars => [\A e \in events \ conflicts : e \notin conflicts']_vars
    BY <1>1
<1>3. QED
    BY <1>2, PTL DEF Spec, AcceptedStaysAccepted
=============================================================================
