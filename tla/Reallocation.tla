---------------------------- MODULE Reallocation ----------------------------
(***************************************************************************)
(* The change of a trip's vehicle (trips/reallocation_services.py): a plan *)
(* that gives every passenger a seat in the new vehicle is previewed, and  *)
(* applied later by another request, while bookings go on.  Each handler   *)
(* locks the trip and is one action; the order in which the solver prefers *)
(* seats is left out, that it finds a distribution whenever there is one   *)
(* is kept.                                                                *)
(***************************************************************************)
EXTENDS Integers, FiniteSets

CONSTANTS People,          \* passengers
          PartyOf, Gender, \* the booking and the gender of each
          Families,        \* protected groups <<guardian, dependent>>
          Vehicles, Codes, \* seat codes are the same in every vehicle
          SeatsOf,         \* the sellable seat codes of a vehicle
          Neighbours,      \* its pairs of adjacent seats, as sets
          MaxInventory, MaxTripVersion  \* bounds

ASSUME ReallocationAssumption ==
    /\ SeatsOf \in [Vehicles -> SUBSET Codes] /\ Codes # {}
    /\ MaxInventory \in Nat \ {0} /\ MaxTripVersion \in Nat \ {0}

VARIABLES
    vehicle,   \* Trip.vehicle
    inventory, \* inventory_version of the current seats
    tripVersion,
    seat,      \* the assignment of each passenger
    boarded,   \* passengers whose boarding_status is BOARDED
    proposal,  \* TripReallocationPlan with its lines
    answer     \* TripChangeResponse.status of each booking

aVars == <<vehicle, inventory, tripVersion, seat, boarded, proposal, answer>>

-----------------------------------------------------------------------------
Parties == {PartyOf[p] : p \in People}
AssignmentStatus == {"none", "active", "expired", "cancelled"}
PlanStatus == {"none", "previewed", "conflicted", "applied"}
AnswerStatus == {"none", "pending", "accepted", "alternative_requested", "refund_requested"}
Unseated == [st |-> "none", inv |-> 0, code |-> CHOOSE c \in Codes : TRUE, changed |-> FALSE]
Nothing == [st |-> "none", version |-> 0, to |-> CHOOSE v \in Vehicles : TRUE, lines |-> << >>, broken |-> FALSE]

Lines == UNION {[ps -> Codes] : ps \in SUBSET People}

ReallocationTypeOK ==
    /\ vehicle \in Vehicles /\ inventory \in 1 .. MaxInventory /\ tripVersion \in 1 .. MaxTripVersion
    /\ seat \in [People -> [st : AssignmentStatus, inv : 0 .. inventory, code : Codes, changed : BOOLEAN]]
    /\ boarded \subseteq People
    /\ proposal \in [st : PlanStatus, version : 0 .. MaxTripVersion, to : Vehicles, lines : Lines, broken : BOOLEAN]
    /\ answer \in [Parties -> AnswerStatus]

-----------------------------------------------------------------------------
Active == {p \in People : seat[p].st = "active"}
Adjacent(v, a, b) == {a, b} \in Neighbours[v]
(* Strangers of different gender do not sit next to each other.            *)
MayNeighbour(p, q) == PartyOf[p] = PartyOf[q] \/ Gender[p] = Gender[q]
(* A seat of the current inventory that is free, with a neighbour to suit. *)
Offered(p, c) ==
    /\ c \in SeatsOf[vehicle]
    /\ \A q \in Active \ {p} : seat[q].inv = inventory =>
           seat[q].code # c /\ (Adjacent(vehicle, c, seat[q].code) => MayNeighbour(p, q))

(* _protected_units: a guardian is kept with the first dependent only.     *)
Kept(ps) == {f \in Families : f[1] \in ps /\ f[2] \in ps}

GenderIgnored(f, v) == TRUE \* wrong on purpose
(* _gender_allowed *)
GenderAllowed(f, v) ==
    \A p, q \in DOMAIN f : p # q /\ Adjacent(v, f[p], f[q]) => MayNeighbour(p, q)

(* _solve: every distribution it may come to.                              *)
Solutions(ps, v) ==
    {f \in [ps -> SeatsOf[v]] :
        /\ \A p, q \in ps : p # q => f[p] # f[q]
        /\ \A k \in Kept(ps) : Adjacent(v, f[k[1]], f[k[2]])
        /\ GenderAllowed(f, v)}

(* A line of the plan names an assignment that is not active any more.     *)
Break(p) == [proposal EXCEPT !.broken = @ \/ p \in DOMAIN proposal.lines]

-----------------------------------------------------------------------------
(* Bookings go on *)

Book(p, c) ==
    /\ seat[p].st = "none" /\ Offered(p, c)
    /\ seat' = [seat EXCEPT ![p] = [st |-> "active", inv |-> inventory, code |-> c, changed |-> FALSE]]
    /\ UNCHANGED <<vehicle, inventory, tripVersion, boarded, proposal, answer>>

Leave(p, st) ==
    /\ seat[p].st = "active" /\ p \notin boarded
    /\ seat' = [seat EXCEPT ![p] = IF st = "cancelled" THEN [Unseated EXCEPT !.st = st] ELSE [@ EXCEPT !.st = st]]
    /\ proposal' = Break(p)
    /\ UNCHANGED <<vehicle, inventory, tripVersion, boarded, answer>>

(* _try_restore_inventory after a late payment.                            *)
Restore(p) ==
    /\ seat[p].st = "expired" /\ ~seat[p].changed /\ seat[p].inv = inventory
    /\ \A q \in Active : seat[q].inv = inventory => seat[q].code # seat[p].code
    /\ seat' = [seat EXCEPT ![p].st = "active"]
    /\ UNCHANGED <<vehicle, inventory, tripVersion, boarded, proposal, answer>>

ChangeSeat(p, c) ==
    /\ p \in Active \ boarded /\ Offered(p, c) /\ seat[p].code # c
    /\ seat' = [seat EXCEPT ![p] = [st |-> "active", inv |-> inventory, code |-> c, changed |-> TRUE]]
    /\ proposal' = Break(p)
    /\ UNCHANGED <<vehicle, inventory, tripVersion, boarded, answer>>

Board(p) ==
    /\ p \in Active /\ boarded' = boarded \cup {p}
    /\ UNCHANGED <<vehicle, inventory, tripVersion, seat, proposal, answer>>

BumpTrip ==
    /\ tripVersion < MaxTripVersion /\ tripVersion' = tripVersion + 1
    /\ UNCHANGED <<vehicle, inventory, seat, boarded, proposal, answer>>

-----------------------------------------------------------------------------
(* Reallocation *)

(* preview_vehicle_reallocation; it supersedes the plan before it.         *)
Preview(v) ==
    /\ boarded = {} /\ v # vehicle
    /\ \/ \E f \in Solutions(Active, v) :
              proposal' = [st |-> "previewed", version |-> tripVersion, to |-> v, lines |-> f, broken |-> FALSE]
       \/ /\ Solutions(Active, v) = {}
          /\ proposal' = [Nothing EXCEPT !.st = "conflicted"]
    /\ UNCHANGED <<vehicle, inventory, tripVersion, seat, boarded, answer>>

StillThere == TRUE \* wrong on purpose
LinesAreActive == ~proposal.broken

(* apply_vehicle_reallocation *)
Apply ==
    LET f == proposal.lines IN
    /\ proposal.st = "previewed" /\ proposal.version = tripVersion
    /\ boarded = {} /\ LinesAreActive
    /\ inventory < MaxInventory /\ tripVersion < MaxTripVersion
    /\ vehicle' = proposal.to /\ inventory' = inventory + 1 /\ tripVersion' = tripVersion + 1
    /\ seat' = [p \in People |->
           IF p \in DOMAIN f
           THEN [st |-> "active", inv |-> inventory + 1, code |-> f[p], changed |-> TRUE]
           ELSE seat[p]]
    /\ proposal' = [proposal EXCEPT !.st = "applied"]
    /\ answer' = [b \in Parties |->
           IF \E p \in DOMAIN f : PartyOf[p] = b THEN "pending" ELSE answer[b]]
    /\ UNCHANGED boarded

(* respond_to_trip_change *)
Respond(b, choice) ==
    /\ answer[b] = "pending"
    /\ answer' = [answer EXCEPT ![b] = choice]
    /\ UNCHANGED <<vehicle, inventory, tripVersion, seat, boarded, proposal>>

ReallocationInit ==
    /\ vehicle \in Vehicles /\ inventory = 1 /\ tripVersion = 1
    /\ seat = [p \in People |-> Unseated]
    /\ boarded = {} /\ proposal = Nothing
    /\ answer = [b \in Parties |-> "none"]

ReallocationNext ==
    \/ \E p \in People : Restore(p) \/ Board(p) \/ Leave(p, "expired") \/ Leave(p, "cancelled")
    \/ \E p \in People, c \in Codes : Book(p, c) \/ ChangeSeat(p, c)
    \/ \E v \in Vehicles : Preview(v)
    \/ \E b \in Parties, choice \in AnswerStatus \ {"none", "pending"} : Respond(b, choice)
    \/ BumpTrip \/ Apply

ReallocationSpec == ReallocationInit /\ [][ReallocationNext]_aVars

-----------------------------------------------------------------------------
(* Properties *)

(* E11-AC01: whoever a reallocation moves has an own seat in the new       *)
(* vehicle, next to the dependent and beside nobody the rule forbids.  The *)
(* plan may be old: what happened since must not make it wrong.            *)
MovedByTheRules ==
    [][vehicle' # vehicle =>
        LET moved == {p \in People : seat'[p].st = "active" /\ seat'[p].inv = inventory'}
        IN  /\ \A p \in moved : seat[p].st = "active"
            /\ \A p, q \in moved : p # q =>
                   /\ seat'[p].code # seat'[q].code
                   /\ Adjacent(vehicle', seat'[p].code, seat'[q].code) => MayNeighbour(p, q)
            /\ \A f \in Families : {f[1], f[2]} \subseteq moved =>
                   Adjacent(vehicle', seat'[f[1]].code, seat'[f[2]].code)]_aVars

(* Expected to fail: E11-AC01, after the change no seat is given twice: a  *)
(* seat code means one place in the vehicle that drives.                   *)
NoDoubleSeat == \A p, q \in Active : p # q => seat[p].code # seat[q].code
=============================================================================
