----------------------------- MODULE BackOffice -----------------------------
(***************************************************************************)
(* What happens around the sale, the money and the day of a trip: refunds, *)
(* settlements, the change of a vehicle and the planning of trips;         *)
(* subscriptions, offices, the outbox, the support desk, the path of a     *)
(* write request and the configuration.  The components share no state, so *)
(* each behaviour follows one of them; the others stand still.             *)
(***************************************************************************)
EXTENDS Refunds, Settlements, Reallocation, TripPlanning,
        Subscriptions, Offices, Outbox, RequestPath, SupportDesk, Configuration

CONSTANT Focuses \* the components to look at
VARIABLE focus

vars == <<focus, rVars, sVars, aVars, pVars, bVars, oVars, nVars, qVars, dVars, cVars>>
tripVars == <<rVars, sVars, aVars, pVars>>
platformVars == <<bVars, oVars, nVars, qVars, dVars, cVars>>

Init ==
    /\ focus \in Focuses
    /\ RefundsInit /\ SettlementsInit /\ ReallocationInit /\ PlanningInit
    /\ SubscriptionsInit /\ OfficesInit /\ OutboxInit
    /\ RequestPathInit /\ SupportInit /\ ConfigurationInit

Next ==
    /\ UNCHANGED focus
    /\ \/ focus = "refunds" /\ RefundsNext /\ UNCHANGED <<sVars, aVars, pVars, platformVars>>
       \/ focus = "settlements" /\ SettlementsNext /\ UNCHANGED <<rVars, aVars, pVars, platformVars>>
       \/ focus = "reallocation" /\ ReallocationNext /\ UNCHANGED <<rVars, sVars, pVars, platformVars>>
       \/ focus = "planning" /\ PlanningNext /\ UNCHANGED <<rVars, sVars, aVars, platformVars>>
       \/ focus = "rent" /\ SubscriptionsNext /\ UNCHANGED <<tripVars, oVars, nVars, qVars, dVars, cVars>>
       \/ focus = "offices" /\ OfficesNext /\ UNCHANGED <<tripVars, bVars, nVars, qVars, dVars, cVars>>
       \/ focus = "outbox" /\ OutboxNext /\ UNCHANGED <<tripVars, bVars, oVars, qVars, dVars, cVars>>
       \/ focus = "requests" /\ RequestPathNext /\ UNCHANGED <<tripVars, bVars, oVars, nVars, dVars, cVars>>
       \/ focus = "support" /\ SupportNext /\ UNCHANGED <<tripVars, bVars, oVars, nVars, qVars, cVars>>
       \/ focus = "settings" /\ ConfigurationNext /\ UNCHANGED <<tripVars, bVars, oVars, nVars, qVars, dVars>>

Spec == Init /\ [][Next]_vars
(* Celery beat runs the dispatcher every five seconds.                     *)
Fairness == WF_vars(Dispatch /\ UNCHANGED <<focus, tripVars, bVars, oVars, qVars, dVars, cVars>>)

(* The variables of every component have their types.                      *)
TypeOK ==
    /\ focus \in Focuses
    /\ RefundsTypeOK /\ SettlementsTypeOK /\ ReallocationTypeOK /\ PlanningTypeOK
    /\ SubscriptionsTypeOK /\ OfficesTypeOK /\ OutboxTypeOK
    /\ RequestPathTypeOK /\ SupportTypeOK /\ ConfigurationTypeOK
=============================================================================
