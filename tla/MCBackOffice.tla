---------------------------- MODULE MCBackOffice ----------------------------
(* Instances of BackOffice for TLC. *)
EXTENDS BackOffice, TLC

(* An electronic booking e1 and a cash booking d1; the second period is    *)
(* part of the first.                                                      *)
EarnedInEach == ("q1" :> {"e1", "d1"}) @@ ("q2" :> {"e1"})
ThreeOfEach == ("e1" :> 3) @@ ("d1" :> 3)
OneOfEach == ("e1" :> 1) @@ ("d1" :> 1)

(* A guardian and a dependent of one booking, a stranger, two vehicles     *)
(* with three seats in other rows, and one that is too small for them.     *)
PartyOfEach == ("a1" :> "A") @@ ("a2" :> "A") @@ ("b1" :> "B")
GenderOfEach == ("a1" :> "f") @@ ("a2" :> "m") @@ ("b1" :> "m")
KeptTogether == {<<"a1", "a2">>}
SeatsIn == ("v1" :> {"c1", "c2", "c3"}) @@ ("v2" :> {"c1", "c2", "c3"}) @@ ("v3" :> {"c1", "c3"})
NeighboursIn == ("v1" :> {{"c1", "c2"}}) @@ ("v2" :> {{"c2", "c3"}}) @@ ("v3" :> {})

(* Two trips, two buses, one driver, a layout and its next version, which  *)
(* has fewer seats.                                                        *)
SeatsOfLayouts == ("l1" :> 2) @@ ("l2" :> 1)

(* A plan with a billing period and one without.                           *)
FirstPriceOf == ("p1" :> 1) @@ ("p2" :> 2)

(* Two events that mean the same, and one of an unknown kind.              *)
MeaningOf == ("e1" :> "k1") @@ ("e2" :> "k1") @@ ("e3" :> "k2")

(* A request, its retry, another request with the same key, and one whose  *)
(* key has no scope.                                                       *)
KeyOf == ("r1" :> "k1") @@ ("r2" :> "k1") @@ ("r3" :> "k1") @@ ("r4" :> "k2")
BodyOf == ("r1" :> "x") @@ ("r2" :> "x") @@ ("r3" :> "y") @@ ("r4" :> "x")

(* What a component starts from matters to the behaviours that follow it.  *)
MCInit ==
    /\ Init
    /\ focus = "offices" \/ ~case.enhanced
    /\ focus = "settings" \/ (platform /\ \A c \in DOMAIN value : value[c].by = "u1")
MCSpec == MCInit /\ [][Next]_vars
MCFairSpec == MCSpec /\ Fairness

-----------------------------------------------------------------------------
(* Bounds of the instances: states without a new combination.              *)

SmallSettlements ==
    /\ dispute["d1"].st = "none"
    /\ dispute["e1"].st # "none" => com["d1"] = "expected" /\ settlement["q1"].st = "none" /\ bankable

SmallReallocation ==
    /\ \A b \in {"A", "B"} : answer[b] \in {"none", "pending"}
    /\ vehicle # "v3" /\ (vehicle = "v2" => inventory = 2)
    /\ proposal.st = "previewed" => proposal.to # "v3"
    /\ inventory = 2 => proposal.st = "applied" /\ boarded = {} /\ \A p \in {"a1", "a2", "b1"} : seat[p].st # "cancelled"
    /\ boarded # {} => boarded = {"b1"} /\ tripVersion = 1 /\ seat["a2"].st \in {"none", "active"}
    /\ seat["a1"].st \in {"none", "active"}

SmallPlanning ==
    /\ trip["t1"].st = "draft" => trip["t1"].ver <= 2
    /\ trip["t1"].st = "scheduled" => trip["t1"].ver <= 3
    /\ trip["t2"].st \in {"none", "draft", "scheduled"} /\ trip["t2"].ver <= 2 /\ trip["t2"].price = 1
    /\ trip["t2"].st # "none" => /\ trip["t2"].vehicle = "b1" /\ trip["t2"].at = 2
                                 /\ trip["t1"].ver <= 2 /\ layout["l2"] = "absent"
    /\ ~due["t2"] /\ licensed
    /\ bus["b2"].st = "active" /\ bus["b1"].st # "retired" /\ driver["k1"] = "active"
    /\ bus["b2"].layout = "l2" => bus["b1"].layout = "l1"
    /\ bus["b1"].st = "active" \/ bus["b2"].layout = "l1"

SmallRent ==
    /\ Cardinality(agreed["o1"]) <= 1 /\ price["p1"] = 1
    /\ lease["o1"] # << >> => lease["o1"][1].late <= 1
    /\ Len(lease["o1"]) = 2 => wish["o1"].plan = "none" /\ agreed["o1"] = {}

(* Either the verification of the office, with one command under way, or   *)
(* its money.                                                              *)
NoMoney == \A a \in {"a1", "a2"} : deposit[a].st = "none"
NoReview == /\ office = "draft" /\ papers = "missing" /\ sanction["g1"].st = "none" /\ case.st = "draft"
            /\ ~case.enhanced /\ \A u \in {"w1", "w2"} : reading[u].cmd = "none"
SmallOffices ==
    \/ /\ NoMoney
       /\ reading["w1"].cmd = "none" \/ reading["w2"].cmd = "none"
       /\ \A u \in {"w1", "w2"} : reading[u].cmd # "none" => case.st \in From[reading[u].cmd]
       /\ office \notin {"restricted", "terminated", "no_new_bookings"} \/ case.st = "expired"
       /\ sanction["g1"].st # "none" => sanction["g1"].by = "w1" /\ case.st # "draft"
       /\ papers = "pending" => case.st = "draft" /\ reading["w1"].cmd = "none"
       /\ papers = "expired" => case.st \in {"approved", "conditional", "expired"}
    \/ NoReview

(* A restore of data that contradict each other, or requests in numbers.   *)
SmallRequests ==
    \/ backup.lastRun = "none" /\ backup.mode = "normal" /\ ~conflicts
    \/ phase["r3"] = "new" /\ phase["r4"] = "new" /\ record = {}

Small ==
    /\ SmallSettlements /\ SmallReallocation /\ SmallPlanning
    /\ SmallRent /\ SmallOffices /\ SmallRequests
=============================================================================
