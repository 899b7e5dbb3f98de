---------------------------- MODULE Trips_proofs ----------------------------
(***************************************************************************)
(* What holds of the change of a vehicle for any passengers, families,     *)
(* vehicles and seats, and of the planning of trips for any fleet, crew    *)
(* and layouts.                                                            *)
(***************************************************************************)
EXTENDS Reallocation, TripPlanning, FiniteSetTheorems, TLAPS

-----------------------------------------------------------------------------
(* Reallocation *)

(* The empty plan is a plan, and nothing to apply.                         *)
LEMMA NothingType == Vehicles # {} => Nothing \in [st : PlanStatus, version : 0 .. MaxTripVersion, to : Vehicles,
                                  lines : Lines, broken : BOOLEAN] /\ Nothing.st = "none"
<1> SUFFICES ASSUME Vehicles # {}
             PROVE  /\ Nothing \in [st : PlanStatus, version : 0 .. MaxTripVersion, to : Vehicles,
                                    lines : Lines, broken : BOOLEAN]
                    /\ Nothing.st = "none"
    OBVIOUS
<1>1. << >> \in [{} -> Codes]
    OBVIOUS
<1>2. << >> \in Lines
    BY <1>1 DEF Lines
<1>3. QED
    BY <1>2, ReallocationAssumption DEF Nothing, PlanStatus

(* Whoever has no seat has a row of that type.                             *)
LEMMA UnseatedType == Unseated \in [st : AssignmentStatus, inv : {0}, code : Codes, changed : BOOLEAN]
BY ReallocationAssumption DEF Unseated, AssignmentStatus

-----------------------------------------------------------------------------
(* MovedByTheRules speaks of one step.  What has to hold before it is that *)
(* a plan that may be applied is a distribution that the solver found, and *)
(* that everyone it names is still seated unless the plan is broken.       *)

PlanIsASolution ==
    proposal.st = "previewed" => proposal.lines \in Solutions(DOMAIN proposal.lines, proposal.to)

PlanIsCurrent ==
    proposal.st = "previewed" /\ ~proposal.broken =>
        \A p \in DOMAIN proposal.lines : seat[p].st = "active"

PlanInv == ReallocationTypeOK /\ PlanIsASolution /\ PlanIsCurrent

(* A step that leaves the plan alone, or breaks it for p, takes a seat     *)
(* from nobody but p.                                                      *)
LEMMA SeatTaken ==
    ASSUME PlanInv, NEW p \in People, proposal' = Break(p),
           \A q \in People : q # p => seat'[q] = seat[q]
    PROVE  PlanIsASolution' /\ PlanIsCurrent'
<1>1. /\ proposal'.st = proposal.st /\ proposal'.lines = proposal.lines /\ proposal'.to = proposal.to
      /\ ~proposal'.broken => ~proposal.broken /\ p \notin DOMAIN proposal.lines
    BY DEF Break, PlanInv, ReallocationTypeOK
<1>2. DOMAIN proposal.lines \subseteq People
    BY DEF PlanInv, ReallocationTypeOK, Lines
<1>3. PlanIsASolution'
    BY <1>1 DEF PlanInv, PlanIsASolution, Solutions, Kept, GenderAllowed, Adjacent, MayNeighbour
<1>4. PlanIsCurrent'
    BY <1>1, <1>2 DEF PlanInv, PlanIsCurrent
<1>5. QED
    BY <1>3, <1>4

(* A step that leaves the plan alone and takes no seat from anybody.       *)
LEMMA SeatGiven ==
    ASSUME PlanInv, UNCHANGED proposal,
           \A q \in People : seat[q].st = "active" => seat'[q] = seat[q]
    PROVE  PlanIsASolution' /\ PlanIsCurrent'
<1>1. DOMAIN proposal.lines \subseteq People
    BY DEF PlanInv, ReallocationTypeOK, Lines
<1>2. PlanIsASolution'
    BY DEF PlanInv, PlanIsASolution, Solutions, Kept, GenderAllowed, Adjacent, MayNeighbour
<1>3. PlanIsCurrent'
    BY <1>1 DEF PlanInv, PlanIsCurrent
<1>4. QED
    BY <1>2, <1>3

(* Apply moves exactly those whom the plan names, to the seats it names.   *)
LEMMA ApplyStep ==
    ASSUME PlanInv, Apply
    PROVE  /\ PlanInv'
           /\ LET moved == {p \in People : seat'[p].st = "active" /\ seat'[p].inv = inventory'}
              IN  /\ moved = DOMAIN proposal.lines
                  /\ \A p \in moved : seat[p].st = "active" /\ seat'[p].code = proposal.lines[p]
<1> DEFINE f == proposal.lines
<1>1. f \in Solutions(DOMAIN f, proposal.to) /\ DOMAIN f \subseteq People
    BY DEF Apply, PlanInv, PlanIsASolution, ReallocationTypeOK, Lines
<1>2. \A p \in DOMAIN f : seat[p].st = "active"
    BY DEF Apply, PlanInv, PlanIsCurrent, LinesAreActive, ReallocationTypeOK
<1>3. \A p \in DOMAIN f : f[p] \in Codes
    BY <1>1, ReallocationAssumption DEF Solutions, PlanInv, ReallocationTypeOK
<1>4. inventory \in Nat /\ inventory' = inventory + 1 /\ inventory' \in 1 .. MaxInventory
      /\ tripVersion' \in 1 .. MaxTripVersion
    BY ReallocationAssumption DEF Apply, PlanInv, ReallocationTypeOK
<1>5. seat' \in [People -> [st : AssignmentStatus, inv : 0 .. inventory', code : Codes, changed : BOOLEAN]]
    <2>1. \A p \in People : seat[p] \in [st : AssignmentStatus, inv : 0 .. inventory', code : Codes, changed : BOOLEAN]
        BY <1>4 DEF PlanInv, ReallocationTypeOK
    <2>2. \A p \in DOMAIN f : [st |-> "active", inv |-> inventory', code |-> f[p], changed |-> TRUE]
              \in [st : AssignmentStatus, inv : 0 .. inventory', code : Codes, changed : BOOLEAN]
        BY <1>3, <1>4 DEF AssignmentStatus
    <2>3. seat' = [p \in People |->
             IF p \in DOMAIN f THEN [st |-> "active", inv |-> inventory', code |-> f[p], changed |-> TRUE] ELSE seat[p]]
        BY <1>4 DEF Apply
    <2>4. QED
        BY <2>1, <2>2, <2>3
<1>6. ReallocationTypeOK'
    <2>1. answer' \in [Parties -> AnswerStatus]
        BY DEF Apply, PlanInv, ReallocationTypeOK, AnswerStatus
    <2>2. proposal' \in [st : PlanStatus, version : 0 .. MaxTripVersion, to : Vehicles, lines : Lines, broken : BOOLEAN]
        BY DEF Apply, PlanInv, ReallocationTypeOK, PlanStatus
    <2>3. vehicle' \in Vehicles /\ boarded' \subseteq People
        BY DEF Apply, PlanInv, ReallocationTypeOK
    <2>4. QED
        BY <1>4, <1>5, <2>1, <2>2, <2>3 DEF ReallocationTypeOK
<1>7. proposal'.st = "applied"
    BY DEF Apply, PlanInv, ReallocationTypeOK
<1>8. \A p \in People \ DOMAIN f : seat'[p].inv # inventory'
    <2>1. \A p \in People : seat[p].inv \in 0 .. inventory
        BY DEF PlanInv, ReallocationTypeOK
    <2>2. \A p \in People \ DOMAIN f : seat'[p] = seat[p]
        BY DEF Apply
    <2>3. QED
        BY <1>4, <2>1, <2>2
<1>9. \A p \in DOMAIN f : seat'[p].st = "active" /\ seat'[p].inv = inventory' /\ seat'[p].code = f[p]
    BY <1>1, <1>4 DEF Apply
<1>10. QED
    BY <1>1, <1>2, <1>6, <1>7, <1>8, <1>9 DEF PlanInv, PlanIsASolution, PlanIsCurrent

-----------------------------------------------------------------------------
(* At first there is no plan.                                              *)
LEMMA PlanInvInit == ReallocationInit => PlanInv
<1> SUFFICES ASSUME ReallocationInit PROVE PlanInv
    OBVIOUS
<1>1. seat \in [People -> [st : AssignmentStatus, inv : 0 .. inventory, code : Codes, changed : BOOLEAN]]
    BY UnseatedType DEF ReallocationInit
<1>2. Vehicles # {} /\ proposal = Nothing
    BY DEF ReallocationInit
<1>3. ReallocationTypeOK
    BY <1>1, <1>2, NothingType, ReallocationAssumption
       DEF ReallocationInit, ReallocationTypeOK, AnswerStatus
<1>4. QED
    BY <1>2, <1>3, NothingType DEF PlanInv, PlanIsASolution, PlanIsCurrent

(* A broken plan is a plan.                                                *)
LEMMA BreakType ==
    ASSUME ReallocationTypeOK, NEW p \in People
    PROVE  Break(p) \in [st : PlanStatus, version : 0 .. MaxTripVersion, to : Vehicles, lines : Lines, broken : BOOLEAN]
BY DEF Break, ReallocationTypeOK

(* One row changes.                                                        *)
LEMMA SeatEdit ==
    ASSUME ReallocationTypeOK, NEW p \in People, NEW s, seat' = [seat EXCEPT ![p] = s],
           s \in [st : AssignmentStatus, inv : 0 .. inventory, code : Codes, changed : BOOLEAN]
    PROVE  /\ seat' \in [People -> [st : AssignmentStatus, inv : 0 .. inventory, code : Codes, changed : BOOLEAN]]
           /\ \A q \in People : q # p => seat'[q] = seat[q]
BY DEF ReallocationTypeOK

(* Every step keeps the invariant.                                         *)
LEMMA PlanInvNext == PlanInv /\ [ReallocationNext]_aVars => PlanInv'
<1> SUFFICES ASSUME PlanInv, [ReallocationNext]_aVars PROVE PlanInv'
    OBVIOUS
<1> USE DEF PlanInv
<1> DEFINE Places == [st : AssignmentStatus, inv : 0 .. inventory, code : Codes, changed : BOOLEAN]
<1>1. ASSUME UNCHANGED aVars PROVE PlanInv'
    <2>1. ReallocationTypeOK'
        BY <1>1 DEF aVars, ReallocationTypeOK
    <2>2. QED
        BY <1>1, <2>1, SeatGiven DEF aVars
<1>2. ASSUME NEW p \in People, NEW c \in Codes, Book(p, c) PROVE PlanInv'
    <2>1. [st |-> "active", inv |-> inventory, code |-> c, changed |-> FALSE] \in Places
        BY ReallocationAssumption DEF ReallocationTypeOK, AssignmentStatus
    <2>2. ReallocationTypeOK'
        BY <1>2, <2>1, SeatEdit DEF Book, ReallocationTypeOK
    <2>3. \A q \in People : seat[q].st = "active" => seat'[q] = seat[q]
        BY <1>2 DEF Book, ReallocationTypeOK
    <2>4. QED
        BY <1>2, <2>2, <2>3, SeatGiven DEF Book
<1>3. ASSUME NEW p \in People, NEW st \in {"expired", "cancelled"}, Leave(p, st) PROVE PlanInv'
    <2>1. \E s \in Places : seat' = [seat EXCEPT ![p] = s]
        <3>1. CASE st = "cancelled"
            <4>1. [Unseated EXCEPT !.st = st] \in Places
                BY UnseatedType, ReallocationAssumption DEF AssignmentStatus, ReallocationTypeOK
            <4>2. QED
                BY <1>3, <3>1, <4>1 DEF Leave
        <3>2. CASE st # "cancelled"
            <4>1. [seat[p] EXCEPT !.st = st] \in Places
                BY DEF ReallocationTypeOK, AssignmentStatus
            <4>2. QED
                BY <1>3, <3>2, <4>1 DEF Leave
        <3>3. QED
            BY <3>1, <3>2
    <2>2. /\ seat' \in [People -> Places]
          /\ \A q \in People : q # p => seat'[q] = seat[q]
        BY <2>1, SeatEdit
    <2>3. ReallocationTypeOK'
        BY <1>3, <2>2, BreakType DEF Leave, ReallocationTypeOK
    <2>4. QED
        BY <1>3, <2>2, <2>3, SeatTaken DEF Leave
<1>4. ASSUME NEW p \in People, Restore(p) PROVE PlanInv'
    <2>1. [seat[p] EXCEPT !.st = "active"] \in Places
        BY DEF ReallocationTypeOK, AssignmentStatus
    <2>2. seat' = [seat EXCEPT ![p] = [seat[p] EXCEPT !.st = "active"]]
        BY <1>4 DEF Restore
    <2>3. ReallocationTypeOK'
        BY <1>4, <2>1, <2>2, SeatEdit DEF Restore, ReallocationTypeOK
    <2>4. \A q \in People : seat[q].st = "active" => seat'[q] = seat[q]
        BY <1>4, <2>2 DEF Restore, ReallocationTypeOK
    <2>5. QED
        BY <1>4, <2>3, <2>4, SeatGiven DEF Restore
<1>5. ASSUME NEW p \in People, NEW c \in Codes, ChangeSeat(p, c) PROVE PlanInv'
    <2>1. [st |-> "active", inv |-> inventory, code |-> c, changed |-> TRUE] \in Places
        BY ReallocationAssumption DEF ReallocationTypeOK, AssignmentStatus
    <2>2. ReallocationTypeOK' /\ \A q \in People : q # p => seat'[q] = seat[q]
        BY <1>5, <2>1, SeatEdit, BreakType DEF ChangeSeat, ReallocationTypeOK
    <2>3. QED
        BY <1>5, <2>2, SeatTaken DEF ChangeSeat
<1>6. ASSUME NEW p \in People, Board(p) PROVE PlanInv'
    <2>1. ReallocationTypeOK'
        BY <1>6 DEF Board, ReallocationTypeOK
    <2>2. QED
        BY <1>6, <2>1, SeatGiven DEF Board
<1>7. ASSUME BumpTrip PROVE PlanInv'
    <2>1. ReallocationTypeOK'
        BY <1>7, ReallocationAssumption DEF BumpTrip, ReallocationTypeOK
    <2>2. QED
        BY <1>7, <2>1, SeatGiven DEF BumpTrip
<1>8. ASSUME NEW v \in Vehicles, Preview(v) PROVE PlanInv'
    <2>1. CASE Solutions(Active, v) = {} /\ proposal' = [Nothing EXCEPT !.st = "conflicted"]
        <3>1. [Nothing EXCEPT !.st = "conflicted"]
                  \in [st : PlanStatus, version : 0 .. MaxTripVersion, to : Vehicles, lines : Lines, broken : BOOLEAN]
            BY NothingType DEF PlanStatus
        <3>2. proposal'.st = "conflicted"
            BY <2>1, NothingType
        <3>3. ReallocationTypeOK'
            BY <1>8, <2>1, <3>1 DEF Preview, ReallocationTypeOK
        <3>4. QED
            BY <3>2, <3>3 DEF PlanIsASolution, PlanIsCurrent
    <2>2. ASSUME NEW g \in Solutions(Active, v),
                 proposal' = [st |-> "previewed", version |-> tripVersion, to |-> v, lines |-> g, broken |-> FALSE]
          PROVE  PlanInv'
        <3>1. g \in [Active -> Codes] /\ DOMAIN g = Active
            BY ReallocationAssumption DEF Solutions
        <3>2. g \in Lines
            BY <3>1 DEF Lines, Active
        <3>3. tripVersion \in 0 .. MaxTripVersion
            BY ReallocationAssumption DEF ReallocationTypeOK
        <3>4. ReallocationTypeOK'
            BY <1>8, <2>2, <3>2, <3>3 DEF Preview, ReallocationTypeOK, PlanStatus
        <3>5. proposal'.lines = g /\ proposal'.to = v
            BY <2>2
        <3>6. PlanIsASolution'
            BY <3>1, <3>5, <2>2 DEF PlanIsASolution, Solutions, Kept, GenderAllowed, Adjacent, MayNeighbour
        <3>7. \A p \in DOMAIN g : seat'[p].st = "active"
            BY <1>8, <3>1 DEF Preview, Active
        <3>8. QED
            BY <3>4, <3>5, <3>6, <3>7 DEF PlanIsCurrent
    <2>3. QED
        BY <1>8, <2>1, <2>2 DEF Preview
<1>9. ASSUME Apply PROVE PlanInv'
    BY <1>9, ApplyStep
<1>10. ASSUME NEW b \in Parties, NEW choice \in AnswerStatus, Respond(b, choice) PROVE PlanInv'
    <2>1. ReallocationTypeOK'
        BY <1>10 DEF Respond, ReallocationTypeOK
    <2>2. QED
        BY <1>10, <2>1, SeatGiven DEF Respond
<1>11. QED
    BY <1>1, <1>2, <1>3, <1>4, <1>5, <1>6, <1>7, <1>8, <1>9, <1>10 DEF ReallocationNext

(* The trip's vehicle, its seats and the plan keep their types.            *)
THEOREM ReallocationTypeCorrect == ReallocationSpec => []ReallocationTypeOK
<1>1. PlanInv => ReallocationTypeOK
    BY DEF PlanInv
<1>2. QED
    BY PlanInvInit, PlanInvNext, <1>1, PTL DEF ReallocationSpec

-----------------------------------------------------------------------------
(* The one step that changes the vehicle follows the rules.                *)
LEMMA MovesByTheRules ==
    ASSUME PlanInv, [ReallocationNext]_aVars, vehicle' # vehicle
    PROVE  LET moved == {p \in People : seat'[p].st = "active" /\ seat'[p].inv = inventory'}
           IN  /\ \A p \in moved : seat[p].st = "active"
               /\ \A p, q \in moved : p # q =>
                      /\ seat'[p].code # seat'[q].code
                      /\ Adjacent(vehicle', seat'[p].code, seat'[q].code) => MayNeighbour(p, q)
               /\ \A f \in Families : {f[1], f[2]} \subseteq moved =>
                      Adjacent(vehicle', seat'[f[1]].code, seat'[f[2]].code)
<1> DEFINE moved == {p \in People : seat'[p].st = "active" /\ seat'[p].inv = inventory'}
           g == proposal.lines
<1>1. Apply
    BY DEF ReallocationNext, aVars, Book, Leave, Restore, ChangeSeat, Board, BumpTrip, Preview, Respond
<1>2. /\ moved = DOMAIN g
      /\ \A p \in moved : seat[p].st = "active" /\ seat'[p].code = g[p]
    BY <1>1, ApplyStep
<1>3. vehicle' = proposal.to /\ proposal.st = "previewed"
    BY <1>1 DEF Apply
<1>4. g \in Solutions(DOMAIN g, vehicle')
    BY <1>3 DEF PlanInv, PlanIsASolution
<1>5. \A p, q \in moved : p # q =>
          /\ seat'[p].code # seat'[q].code
          /\ Adjacent(vehicle', seat'[p].code, seat'[q].code) => MayNeighbour(p, q)
    BY <1>2, <1>4 DEF Solutions, GenderAllowed
<1>6. \A f \in Families : {f[1], f[2]} \subseteq moved =>
          Adjacent(vehicle', seat'[f[1]].code, seat'[f[2]].code)
    BY <1>2, <1>4 DEF Solutions, Kept
<1>7. QED
    BY <1>2, <1>5, <1>6

(* However old the plan is, whom it moves had a seat until then, gets an   *)
(* own one, stays beside the family and beside nobody the rule forbids.    *)
THEOREM ChangesFollowTheRules == ReallocationSpec => MovedByTheRules
<1>1. PlanInv /\ [ReallocationNext]_aVars
      => [vehicle' # vehicle =>
            LET moved == {p \in People : seat'[p].st = "active" /\ seat'[p].inv = inventory'}
            IN  /\ \A p \in moved : seat[p].st = "active"
                /\ \A p, q \in moved : p # q =>
                       /\ seat'[p].code # seat'[q].code
                       /\ Adjacent(vehicle', seat'[p].code, seat'[q].code) => MayNeighbour(p, q)
                /\ \A f \in Families : {f[1], f[2]} \subseteq moved =>
                       Adjacent(vehicle', seat'[f[1]].code, seat'[f[2]].code)]_aVars
    BY MovesByTheRules
<1>2. QED
    BY PlanInvInit, PlanInvNext, <1>1, PTL DEF ReallocationSpec, MovedByTheRules

-----------------------------------------------------------------------------
(* Planning *)

(* A trip passes through each status once, and only update_trip, which     *)
(* stops at MaxVersion, may be repeated in one: so far may versions go.    *)
Rank(st) == CASE st = "scheduled" -> 1 [] st = "published" -> 2 [] st = "booking_open" -> 3
              [] st = "cancelled" -> 4 [] OTHER -> 0
VersionsInBounds == \A t \in Trips : trip[t].ver <= MaxVersion + Rank(trip[t].st)
CheckedAreDrafts == \A t \in Trips : checking[t] => trip[t].st = "draft"
PlanningInv == PlanningTypeOK /\ VersionsInBounds /\ CheckedAreDrafts

(* The office starts with vehicles of one layout and no trip.              *)
LEMMA PlanningInvInit == PlanningInit => PlanningInv
<1> SUFFICES ASSUME PlanningInit PROVE PlanningInv
    OBVIOUS
<1> DEFINE first == CHOOSE l \in Layouts : TRUE
           unplanned == [st |-> "none", vehicle |-> CHOOSE v \in Fleet : TRUE, driver |-> NoDriver,
                         layout |-> first, at |-> CHOOSE x \in Slots : TRUE, price |-> 1, ver |-> 1]
<1>1. /\ first \in Layouts /\ (CHOOSE v \in Fleet : TRUE) \in Fleet
      /\ (CHOOSE x \in Slots : TRUE) \in Slots
    BY PlanningAssumption
<1>2. 1 \in 1 .. MaxVersion + 4 /\ 1 <= MaxVersion
    BY PlanningAssumption
<1>3. unplanned \in PlannedTrip /\ unplanned.ver = 1 /\ unplanned.st = "none"
    BY <1>1, <1>2 DEF PlannedTrip, TripStatus
<1>4. trip = [t \in Trips |-> unplanned]
    BY DEF PlanningInit
<1> HIDE DEF unplanned
<1>5. /\ seats \in [Trips -> Layouts \cup {NoLayout}]
      /\ asked \in [Trips -> SUBSET Clients] /\ clients \in [Trips -> SUBSET Clients]
      /\ checking = [t \in Trips |-> FALSE] /\ due \in [Trips -> BOOLEAN]
      /\ bus \in [Fleet -> [st : VehicleStatus, layout : Layouts]]
      /\ layout \in [Layouts -> LayoutStatus]
      /\ driver \in [Crew -> {"active", "suspended"}] /\ licensed \in BOOLEAN
    BY <1>1 DEF PlanningInit, VehicleStatus, LayoutStatus
<1>6. PlanningTypeOK
    BY <1>3, <1>4, <1>5 DEF PlanningTypeOK
<1>7. VersionsInBounds
    BY <1>2, <1>3, <1>4, PlanningAssumption DEF VersionsInBounds, Rank
<1>8. QED
    BY <1>5, <1>6, <1>7 DEF PlanningInv, CheckedAreDrafts

(* One trip is written: its row, and the versions it may have come to.     *)
LEMMA TripRow ==
    ASSUME PlanningInv, NEW t \in Trips, NEW row, trip' = [trip EXCEPT ![t] = row],
           row \in [st : TripStatus, vehicle : Fleet, driver : Crew \cup {NoDriver}, layout : Layouts,
                    at : Slots, price : {1, 2}, ver : Nat \ {0}],
           row.ver <= MaxVersion + Rank(row.st),
           checking'[t] => row.st = "draft",
           \A u \in Trips \ {t} : checking'[u] = checking[u]
    PROVE  trip' \in [Trips -> PlannedTrip] /\ VersionsInBounds' /\ CheckedAreDrafts'
<1>1. Rank(row.st) \in 0 .. 4
    BY DEF Rank
<1>2. row \in PlannedTrip
    <2>1. row.ver \in 1 .. MaxVersion + 4
        BY <1>1, PlanningAssumption
    <2>2. QED
        BY <2>1 DEF PlannedTrip
<1>3. trip \in [Trips -> PlannedTrip] /\ \A u \in Trips : trip'[u] = IF u = t THEN row ELSE trip[u]
    BY DEF PlanningInv, PlanningTypeOK
<1>4. QED
    BY <1>2, <1>3 DEF PlanningInv, VersionsInBounds, CheckedAreDrafts

(* A trip goes on to its next status.                                      *)
LEMMA TripGoesOn ==
    ASSUME PlanningInv, NEW t \in Trips, NEW st \in TripStatus,
           trip' = Bumped(t, [trip[t] EXCEPT !.st = st]),
           Rank(trip[t].st) < Rank(st),
           ~checking'[t], \A u \in Trips \ {t} : checking'[u] = checking[u]
    PROVE  trip' \in [Trips -> PlannedTrip] /\ VersionsInBounds' /\ CheckedAreDrafts'
<1> DEFINE row == [[trip[t] EXCEPT !.st = st] EXCEPT !.ver = @ + 1]
<1>1. trip[t] \in PlannedTrip /\ trip[t].ver <= MaxVersion + Rank(trip[t].st)
    BY DEF PlanningInv, PlanningTypeOK, VersionsInBounds
<1>2. /\ row.st = st /\ row.ver = trip[t].ver + 1
      /\ row \in [st : TripStatus, vehicle : Fleet, driver : Crew \cup {NoDriver}, layout : Layouts,
                  at : Slots, price : {1, 2}, ver : Nat \ {0}]
    <2> DEFINE mid == [trip[t] EXCEPT !.st = st]
    <2>1. mid \in PlannedTrip /\ mid.st = st /\ mid.ver = trip[t].ver
        BY <1>1 DEF PlannedTrip
    <2>2. row = [mid EXCEPT !.ver = mid.ver + 1]
        OBVIOUS
    <2>3. mid.ver \in Nat
        BY <2>1, PlanningAssumption DEF PlannedTrip
    <2> HIDE DEF mid, row
    <2>4. mid.ver + 1 \in Nat \ {0}
        BY <2>3
    <2>5. QED
        BY <2>1, <2>2, <2>4 DEF PlannedTrip
<1>3. row.ver <= MaxVersion + Rank(row.st)
    <2>1. Rank(st) \in 0 .. 4 /\ Rank(trip[t].st) \in 0 .. 4
        BY DEF Rank
    <2>2. trip[t].ver \in Nat
        BY <1>1, PlanningAssumption DEF PlannedTrip
    <2>3. QED
        BY <1>1, <1>2, <2>1, <2>2, PlanningAssumption
<1>4. trip' = [trip EXCEPT ![t] = row]
    BY DEF Bumped
<1> HIDE DEF row
<1>5. QED
    BY <1>2, <1>3, <1>4, TripRow

(* Steps that write no trip and check none.                                *)
LEMMA TripsStay ==
    ASSUME PlanningInv, trip' = trip, \A t \in Trips : checking'[t] => checking[t] \/ trip[t].st = "draft"
    PROVE  trip' \in [Trips -> PlannedTrip] /\ VersionsInBounds' /\ CheckedAreDrafts'
BY DEF PlanningInv, PlanningTypeOK, VersionsInBounds, CheckedAreDrafts

(* Every step keeps the invariant of the planning.                         *)
LEMMA PlanningInvNext == PlanningInv /\ [PlanningNext]_pVars => PlanningInv'
<1> SUFFICES ASSUME PlanningInv, [PlanningNext]_pVars PROVE PlanningInv'
    OBVIOUS
<1> DEFINE TripsKept == trip' \in [Trips -> PlannedTrip] /\ VersionsInBounds' /\ CheckedAreDrafts'
           RestKept == /\ seats' \in [Trips -> Layouts \cup {NoLayout}]
                       /\ asked' \in [Trips -> SUBSET Clients] /\ clients' \in [Trips -> SUBSET Clients]
                       /\ checking' \in [Trips -> BOOLEAN] /\ due' \in [Trips -> BOOLEAN]
                       /\ bus' \in [Fleet -> [st : VehicleStatus, layout : Layouts]]
                       /\ layout' \in [Layouts -> LayoutStatus]
                       /\ driver' \in [Crew -> {"active", "suspended"}] /\ licensed' \in BOOLEAN
<1>0. SUFFICES TripsKept /\ RestKept
    BY DEF PlanningInv, PlanningTypeOK
<1> USE DEF PlanningInv, PlanningTypeOK
<1>1. ASSUME NEW t \in Trips, CheckReadiness(t) PROVE TripsKept /\ RestKept
    BY <1>1, TripsStay DEF CheckReadiness, fleetVars
<1>2. ASSUME NEW t \in Trips, Schedule(t) PROVE TripsKept /\ RestKept
    <2>1. TripsKept
        <3>1. trip[t].st = "draft" /\ "scheduled" \in TripStatus /\ Rank("draft") < Rank("scheduled")
            BY <1>2 DEF Schedule, CheckedAreDrafts, TripStatus, Rank
        <3>2. QED
            BY <1>2, <3>1, TripGoesOn DEF Schedule
    <2>2. trip[t].layout \in Layouts
        BY DEF PlannedTrip
    <2>3. QED
        BY <1>2, <2>1, <2>2 DEF Schedule, fleetVars
<1>3. ASSUME NEW t \in Trips, Publish(t) PROVE TripsKept /\ RestKept
    <2>1. "published" \in TripStatus /\ Rank("scheduled") < Rank("published")
        BY DEF TripStatus, Rank
    <2>2. QED
        BY <1>3, <2>1, TripGoesOn DEF Publish, fleetVars
<1>4. ASSUME NEW t \in Trips, OpenTime(t) PROVE TripsKept /\ RestKept
    BY <1>4, TripsStay DEF OpenTime, fleetVars
<1>5. ASSUME NEW t \in Trips, OpenBooking(t) PROVE TripsKept /\ RestKept
    <2>1. "booking_open" \in TripStatus /\ Rank("published") < Rank("booking_open")
        BY DEF TripStatus, Rank
    <2>2. QED
        BY <1>5, <2>1, TripGoesOn DEF OpenBooking, fleetVars
<1>6. ASSUME NEW t \in Trips, CancelTrip(t) PROVE TripsKept /\ RestKept
    <2>1. "cancelled" \in TripStatus /\ \A st \in Operational : Rank(st) < Rank("cancelled")
        BY DEF TripStatus, Rank, Operational
    <2>2. QED
        BY <1>6, <2>1, TripGoesOn DEF CancelTrip, fleetVars
<1>7. ASSUME NEW t \in Trips, NEW c \in Clients, BookTrip(t, c) \/ LeaveTrip(t, c) \/ Answer(t, c)
      PROVE  TripsKept /\ RestKept
    BY <1>7, TripsStay DEF BookTrip, LeaveTrip, Answer, fleetVars
<1>8. ASSUME NEW t \in Trips, NEW v \in Fleet, NEW d \in Crew \cup {NoDriver}, NEW at \in Slots,
             CreateTrip(t, v, d, at)
      PROVE  TripsKept /\ RestKept
    <2> DEFINE row == [st |-> "draft", vehicle |-> v, driver |-> d, layout |-> bus[v].layout, at |-> at,
                       price |-> 1, ver |-> 1]
    <2>1. /\ row \in [st : TripStatus, vehicle : Fleet, driver : Crew \cup {NoDriver}, layout : Layouts,
                      at : Slots, price : {1, 2}, ver : Nat \ {0}]
          /\ row.st = "draft" /\ row.ver <= MaxVersion + Rank(row.st)
        BY PlanningAssumption DEF TripStatus, Rank
    <2>2. trip' = [trip EXCEPT ![t] = row]
        BY <1>8 DEF CreateTrip
    <2> HIDE DEF row
    <2>3. TripsKept
        <3>1. checking' = checking
            BY <1>8 DEF CreateTrip
        <3>2. QED
            BY <2>1, <2>2, <3>1, TripRow
    <2>4. QED
        BY <1>8, <2>3 DEF CreateTrip, fleetVars
<1>9. ASSUME NEW t \in Trips, NEW v \in Fleet, NEW d \in Crew \cup {NoDriver}, NEW at \in Slots,
             NEW price \in {1, 2}, UpdateTrip(t, v, d, at, price)
      PROVE  TripsKept /\ RestKept
    <2> DEFINE old == trip[t]
               new == [old EXCEPT !.vehicle = v, !.driver = d, !.at = at, !.price = price,
                                  !.layout = IF v = old.vehicle THEN old.layout ELSE bus[v].layout]
               row == [new EXCEPT !.ver = @ + 1]
    <2>1. old \in PlannedTrip /\ old.ver < MaxVersion /\ ~checking[t] /\ old.ver \in Nat /\ old.ver # 0
        BY <1>9, PlanningAssumption DEF UpdateTrip, PlannedTrip
    <2>2. /\ row \in [st : TripStatus, vehicle : Fleet, driver : Crew \cup {NoDriver}, layout : Layouts,
                      at : Slots, price : {1, 2}, ver : Nat \ {0}]
          /\ row.st = old.st /\ row.ver = old.ver + 1
        <3>1. /\ bus[v].layout \in Layouts /\ old.layout \in Layouts
              /\ old.st \in TripStatus /\ old.ver + 1 \in Nat \ {0}
            BY <2>1 DEF PlannedTrip
        <3>2. new \in PlannedTrip /\ new.st = old.st /\ new.ver = old.ver
            BY <2>1, <3>1 DEF PlannedTrip
        <3>3. row = [new EXCEPT !.ver = new.ver + 1]
            OBVIOUS
        <3> HIDE DEF row, new, old
        <3>4. QED
            BY <3>1, <3>2, <3>3 DEF PlannedTrip
    <2>3. row.ver <= MaxVersion + Rank(row.st)
        <3>1. Rank(row.st) \in 0 .. 4
            BY DEF Rank
        <3>2. QED
            BY <2>1, <2>2, <3>1, PlanningAssumption
    <2>4. trip' = [trip EXCEPT ![t] = row]
        BY <1>9 DEF UpdateTrip, Bumped
    <2> HIDE DEF row, new, old
    <2>5. TripsKept
        <3>1. checking' = checking
            BY <1>9 DEF UpdateTrip
        <3>2. QED
            BY <2>1, <2>2, <2>3, <2>4, <3>1, TripRow
    <2>6. asked' \in [Trips -> SUBSET Clients]
        BY <1>9 DEF UpdateTrip
    <2>7. QED
        BY <1>9, <2>5, <2>6 DEF UpdateTrip, fleetVars
<1>10. ASSUME OpenDueBookings PROVE TripsKept /\ RestKept
    <2>1. trip' = [t \in Trips |-> IF t \in DueTrips
                                   THEN [trip[t] EXCEPT !.st = "booking_open", !.ver = @ + 1] ELSE trip[t]]
        BY <1>10 DEF OpenDueBookings
    <2>2. ASSUME NEW t \in Trips
          PROVE  /\ trip'[t] \in PlannedTrip /\ trip'[t].ver <= MaxVersion + Rank(trip'[t].st)
                 /\ checking[t] => trip'[t].st = "draft"
        <3>1. CASE t \in DueTrips
            <4>1. /\ trip'[t] = [trip[t] EXCEPT !.st = "booking_open", !.ver = @ + 1]
                  /\ trip[t].st = "published" /\ trip[t] \in PlannedTrip
                BY <2>1, <3>1 DEF DueTrips
            <4>2. /\ trip[t].ver <= MaxVersion + 2 /\ trip[t].ver \in Nat
                  /\ ~checking[t] /\ Rank("booking_open") = 3
                <5>1. Rank("published") = 2 /\ Rank("booking_open") = 3
                    BY DEF Rank
                <5>2. trip[t].ver <= MaxVersion + Rank("published")
                    BY <4>1 DEF VersionsInBounds
                <5>3. trip[t].ver \in Nat
                    BY <4>1, PlanningAssumption DEF PlannedTrip
                <5>4. QED
                    BY <1>10, <3>1, <5>1, <5>2, <5>3 DEF OpenDueBookings
            <4>3. trip[t].ver + 1 \in 1 .. MaxVersion + 4 /\ trip[t].ver + 1 <= MaxVersion + 3
                BY <4>2, PlanningAssumption
            <4>4. trip'[t].st = "booking_open" /\ trip'[t].ver = trip[t].ver + 1
                BY <4>1 DEF PlannedTrip
            <4>5. trip'[t] \in PlannedTrip
                BY <4>1, <4>3 DEF PlannedTrip, TripStatus
            <4>6. QED
                BY <4>2, <4>3, <4>4, <4>5
        <3>2. CASE t \notin DueTrips
            <4>1. trip'[t] = trip[t]
                BY <2>1, <3>2
            <4>2. QED
                BY <4>1 DEF VersionsInBounds, CheckedAreDrafts
        <3>3. QED
            BY <3>1, <3>2
    <2>3. checking' = checking /\ DOMAIN trip' = Trips
        BY <1>10, <2>1 DEF OpenDueBookings
    <2>4. TripsKept
        <3>1. trip' \in [Trips -> PlannedTrip]
            BY <2>1, <2>2
        <3>2. QED
            BY <2>2, <2>3, <3>1 DEF VersionsInBounds, CheckedAreDrafts
    <2>5. QED
        BY <1>10, <2>4 DEF OpenDueBookings, fleetVars
<1>11. ASSUME NEW a \in Layouts, NEW b \in Layouts, VersionLayout(a, b) PROVE TripsKept /\ RestKept
    BY <1>11, TripsStay DEF VersionLayout, planVars, LayoutStatus
<1>12. ASSUME NEW v \in Fleet, NEW st \in VehicleStatus, NEW l \in Layouts, UpdateVehicle(v, st, l)
       PROVE  TripsKept /\ RestKept
    <2>1. bus' \in [Fleet -> [st : VehicleStatus, layout : Layouts]]
        BY <1>12 DEF UpdateVehicle
    <2>2. QED
        BY <1>12, <2>1, TripsStay DEF UpdateVehicle, planVars
<1>13. ASSUME (\E d \in Crew : UpdateDriver(d)) \/ OfficeChanges PROVE TripsKept /\ RestKept
    BY <1>13, TripsStay DEF UpdateDriver, OfficeChanges, planVars
<1>14. ASSUME UNCHANGED pVars PROVE TripsKept /\ RestKept
    BY <1>14, TripsStay DEF pVars
<1> HIDE DEF TripsKept, RestKept, PlanningInv, PlanningTypeOK
<1>15. QED
    BY Zenon, <1>1, <1>2, <1>3, <1>4, <1>5, <1>6, <1>7, <1>8, <1>9, <1>10, <1>11, <1>12, <1>13, <1>14
       DEF PlanningNext

(* Trips, vehicles, layouts and drivers keep their types, and versions     *)
(* their bound.                                                            *)
THEOREM PlanningTypeCorrect == PlanningSpec => []PlanningTypeOK
<1>1. PlanningInv => PlanningTypeOK
    BY DEF PlanningInv
<1>2. QED
    BY PlanningInvInit, PlanningInvNext, <1>1, PTL DEF PlanningSpec

(* Whichever step changes the price or, by much, the departure of a trip:  *)
(* all its bookings are asked, those that had answered before too.         *)
THEOREM NobodyIsLeftUnasked == PlanningSpec => AskedOfEveryChange
<1> DEFINE Asks == \A t \in Trips : clients[t] # {} /\ trip[t].st # "none"
                       /\ (trip'[t].price # trip[t].price \/ Apart(trip'[t].at, trip[t].at) >= Material)
                       => asked'[t] = clients'[t]
<1>1. PlanningInv /\ [PlanningNext]_pVars => [Asks]_pVars
    <2> SUFFICES ASSUME PlanningInv, PlanningNext, NEW t \in Trips, trip[t].st # "none",
                        trip'[t].price # trip[t].price \/ Apart(trip'[t].at, trip[t].at) >= Material
                 PROVE  asked'[t] = clients'[t]
        OBVIOUS
    <2> USE DEF PlanningInv, PlanningTypeOK
    <2>0. trip[t].at \in Nat
        BY PlanningAssumption DEF PlannedTrip
    <2>1. trip'[t].price # trip[t].price \/ trip'[t].at # trip[t].at
        BY <2>0, PlanningAssumption DEF Apart
    <2>2. ASSUME NEW u \in Trips, NEW v \in Fleet, NEW d \in Crew \cup {NoDriver}, NEW at \in Slots,
                 NEW price \in {1, 2}, UpdateTrip(u, v, d, at, price)
          PROVE  asked'[t] = clients'[t]
        <3>1. trip' = [trip EXCEPT ![u] = trip'[u]]
            BY <2>2 DEF UpdateTrip, Bumped
        <3>2. u = t
            BY <2>1, <3>1
        <3>3. trip'[t].price = price /\ trip'[t].at = at
            BY <2>2, <3>2 DEF UpdateTrip, Bumped, PlannedTrip
        <3>4. IsMaterial(t, at, price)
            BY <3>3 DEF IsMaterial
        <3>5. QED
            BY <2>2, <3>2, <3>4 DEF UpdateTrip
    <2>3. ASSUME NEW u \in Trips, NEW st, trip' = Bumped(u, [trip[u] EXCEPT !.st = st]) PROVE FALSE
        BY <2>1, <2>3 DEF Bumped, PlannedTrip
    <2>4. ASSUME NEW u \in Trips, Schedule(u) \/ Publish(u) \/ OpenBooking(u) \/ CancelTrip(u) PROVE FALSE
        BY <2>3, <2>4, Zenon DEF Schedule, Publish, OpenBooking, CancelTrip
    <2>5. ASSUME NEW u \in Trips, NEW v \in Fleet, NEW d \in Crew \cup {NoDriver}, NEW at \in Slots,
                 CreateTrip(u, v, d, at)
          PROVE  FALSE
        BY <2>1, <2>5 DEF CreateTrip
    <2>6. ASSUME OpenDueBookings PROVE FALSE
        BY <2>1, <2>6 DEF OpenDueBookings, PlannedTrip
    <2>7. ASSUME trip' = trip PROVE FALSE
        BY <2>1, <2>7
    <2>8. ASSUME NEW u \in Trips, CheckReadiness(u) \/ OpenTime(u) PROVE FALSE
        BY <2>7, <2>8 DEF CheckReadiness, OpenTime
    <2>9. ASSUME NEW u \in Trips, NEW c \in Clients, BookTrip(u, c) \/ LeaveTrip(u, c) \/ Answer(u, c)
          PROVE  FALSE
        BY <2>7, <2>9 DEF BookTrip, LeaveTrip, Answer
    <2>10. ASSUME \/ \E l, m \in Layouts : VersionLayout(l, m)
                  \/ \E v \in Fleet, st \in VehicleStatus, l \in Layouts : UpdateVehicle(v, st, l)
                  \/ (\E d \in Crew : UpdateDriver(d)) \/ OfficeChanges
           PROVE  FALSE
        BY <2>7, <2>10 DEF VersionLayout, UpdateVehicle, UpdateDriver, OfficeChanges, planVars
    <2> HIDE DEF PlanningInv, PlanningTypeOK
    <2>11. QED
        BY Zenon, <2>2, <2>4, <2>5, <2>6, <2>8, <2>9, <2>10 DEF PlanningNext
<1>2. QED
    BY PlanningInvInit, PlanningInvNext, <1>1, PTL DEF PlanningSpec, AskedOfEveryChange

=============================================================================
