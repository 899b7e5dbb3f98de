------------------------- MODULE Settlements_proofs -------------------------
(***************************************************************************)
(* What holds of Settlements for any bookings, any periods however they    *)
(* overlap, and any amounts.                                               *)
(***************************************************************************)
EXTENDS Settlements, Sums, TLAPS

-----------------------------------------------------------------------------
(* The amounts *)

(* What recognition finds is due lies between zero and what was paid.      *)
LEMMA AmountsAreNat ==
    ASSUME SettlementsTypeOK, NEW b \in Sales
    PROVE  /\ RecognisedGross(b) \in Nat /\ CutOf(b) \in Nat /\ Net(b) \in Nat /\ Frozen(b) \in Nat
           /\ ItemOf(b) \in Item /\ NoItem \in Item
<1>1. /\ returned[b] \in Nat /\ returned[b] <= Gross[b] /\ Gross[b] \in Nat /\ Cut[b] \in Nat
      /\ Disputed[b] \in Nat
    BY SettlementsAssumption DEF SettlementsTypeOK
<1>2. RecognisedGross(b) \in Nat
    BY <1>1 DEF RecognisedGross
<1>3. CutOf(b) \in Nat /\ CutOf(b) <= RecognisedGross(b)
    BY <1>1, <1>2 DEF CutOf, Lesser
<1>4. Net(b) \in Nat
    BY <1>2, <1>3 DEF Net
<1>5. Frozen(b) \in Nat
    BY <1>1, <1>4 DEF Frozen, Lesser
<1>6. QED
    BY <1>2, <1>3, <1>4, <1>5 DEF ItemOf, NoItem, Item

(* What a settlement pays out and what it charges, as sums over one        *)
(* function each.                                                          *)
PaysOut(items) == [b \in Sales |-> items[b].due - items[b].frozen]
Charges(items) == [b \in Sales |-> items[b].due]

LEMMA DueIsSum ==
    ASSUME NEW items \in [Sales -> Item]
    PROVE  /\ Due(items) = SumFunctionOnSet(PaysOut(items), Electronic)
           /\ Owed(items) = SumFunctionOnSet(Charges(items), Sales \ Electronic)
           /\ Due(items) \in Int /\ Owed(items) \in Int
           /\ IsFiniteSet(Electronic) /\ IsFiniteSet(Sales \ Electronic)
           /\ \A b \in Sales : /\ PaysOut(items)[b] = items[b].due - items[b].frozen
                               /\ Charges(items)[b] = items[b].due
                               /\ items[b].due \in Nat /\ items[b].frozen \in Nat
<1>1. IsFiniteSet(Electronic) /\ IsFiniteSet(Sales \ Electronic) /\ Electronic \subseteq Sales
    BY SettlementsAssumption, FS_Subset
<1>2. \A b \in Sales : /\ PaysOut(items)[b] = items[b].due - items[b].frozen
                       /\ Charges(items)[b] = items[b].due
                       /\ items[b].due \in Nat /\ items[b].frozen \in Nat
    BY DEF PaysOut, Charges, Item
<1> DEFINE f == [b \in Electronic |-> items[b].due - items[b].frozen]
           g == [b \in Sales \ Electronic |-> items[b].due]
<1>3. /\ DOMAIN f = Electronic /\ \A b \in Electronic : f[b] = items[b].due - items[b].frozen
      /\ DOMAIN g = Sales \ Electronic /\ \A b \in Sales \ Electronic : g[b] = items[b].due
    OBVIOUS
<1>4. Due(items) = SumFunctionOnSet(f, Electronic) /\ Owed(items) = SumFunctionOnSet(g, Sales \ Electronic)
    BY <1>3 DEF Due, Owed, SumFunction
<1> HIDE DEF f, g
<1>5. /\ SumFunctionOnSet(f, Electronic) = SumFunctionOnSet(PaysOut(items), Electronic)
      /\ SumFunctionOnSet(f, Electronic) \in Int
    <2>1. \A b \in Electronic : f[b] \in Int /\ f[b] = PaysOut(items)[b]
        BY <1>1, <1>2, <1>3
    <2>2. QED
        BY <1>1, <2>1, SumAgrees, SumInt
<1>6. /\ SumFunctionOnSet(g, Sales \ Electronic) = SumFunctionOnSet(Charges(items), Sales \ Electronic)
      /\ SumFunctionOnSet(g, Sales \ Electronic) \in Int
    <2>1. \A b \in Sales \ Electronic : g[b] \in Int /\ g[b] = Charges(items)[b]
        BY <1>2, <1>3
    <2>2. QED
        BY <1>1, <2>1, SumAgrees, SumInt
<1>7. QED
    BY <1>1, <1>2, <1>4, <1>5, <1>6

-----------------------------------------------------------------------------
(* The inductive invariant *)

OpenSettlement(s) == settlement[s].st \in {"calculated", "under_review", "approved", "processing"}
OverSettlement(s) == settlement[s].st \in {"paid", "closed"}

(* A booking outside a settlement has no amount in it.                     *)
NoStrayItem == \A s \in Periods, b \in Sales : b \notin InItems(s) => settlement[s].items[b] = NoItem

(* The item of a booking is of one settlement, which has been calculated,  *)
(* and its commission says whether that is paid; refunds after the         *)
(* calculation only lower what the booking still earns.                    *)
ItemsAreSettled ==
    \A s \in Periods, b \in Sales : b \in InItems(s) =>
        /\ OpenSettlement(s) \/ OverSettlement(s)
        /\ b \in EarnedIn[s]
        /\ com[b] = IF OverSettlement(s) THEN "paid" ELSE "in_settlement"
        /\ OpenSettlement(s) => ItemOf(b).due <= settlement[s].items[b].due
ItemsAreOfOne == \A b \in Sales, s, t \in Periods : b \in InItems(s) /\ b \in InItems(t) => s = t
PaidInOne == \A b \in Sales : com[b] = "paid" => \E s \in Periods : OverSettlement(s) /\ b \in InItems(s)
NetIsTheDifference ==
    \A s \in Periods : settlement[s].net = Due(settlement[s].items) - Owed(settlement[s].items)

(* A claim for each booking, as high as what it has earned or what an open *)
(* settlement holds for it, that the balances of the ledger cover.         *)
Claims(c) ==
    /\ c \in [Sales -> Nat]
    /\ \A b \in Sales : com[b] = "earned" => ItemOf(b).due <= c[b]
    /\ \A s \in Periods, b \in Sales :
           b \in InItems(s) /\ OpenSettlement(s) => settlement[s].items[b].due <= c[b]
    /\ SumFunctionOnSet(c, Electronic) <= payable
    /\ SumFunctionOnSet(c, Sales \ Electronic) <= receivable
ClaimsAreCovered == \E c \in [Sales -> Nat] : Claims(c)

(* Before the first decision nothing is posted, and until an appeal is     *)
(* decided only the first.                                                 *)
EffectSoFar(b) ==
    /\ dispute[b].st \in {"none", "open", "awaiting_office", "under_review"} =>
           decision[b].initial = NoDecision /\ decision[b].appeal = NoDecision /\ effect[b] = 0
    /\ dispute[b].st \in {"decided", "appealed"} =>
           /\ decision[b].appeal = NoDecision /\ decision[b].initial # NoDecision
           /\ effect[b] = decision[b].initial
EffectsSoFar == \A b \in Sales : EffectSoFar(b)

MoneyInv ==
    /\ NoStrayItem /\ ItemsAreSettled /\ ItemsAreOfOne /\ PaidInOne /\ NetIsTheDifference
    /\ ClaimsAreCovered
SettlementsInv == SettlementsTypeOK /\ MoneyInv /\ EffectsSoFar /\ LastDecisionCounts

-----------------------------------------------------------------------------
(* Init, and steps that leave the money alone *)

(* At first nothing is earned and nothing is claimed.                      *)
LEMMA SettlementsInvInit == SettlementsInit => SettlementsInv
<1> SUFFICES ASSUME SettlementsInit PROVE SettlementsInv
    OBVIOUS
<1>1. SettlementsTypeOK
    <2>1. NoItem \in Item
        BY DEF NoItem, Item
    <2>2. settlement \in [Periods -> [st : SettlementStatus, items : [Sales -> Item], net : Int]]
        BY <2>1 DEF SettlementsInit, SettlementStatus
    <2>3. returned \in [Sales -> Nat] /\ \A b \in Sales : returned[b] <= Gross[b]
        BY SettlementsAssumption DEF SettlementsInit
    <2>4. QED
        BY <2>2, <2>3 DEF SettlementsInit, SettlementsTypeOK, DisputeStatus, NoDecision
<1>2. \A s \in Periods : /\ settlement[s].items = [b \in Sales |-> NoItem]
                         /\ InItems(s) = {} /\ settlement[s].net = 0
    BY DEF SettlementsInit, InItems, NoItem
<1>3. NoStrayItem /\ ItemsAreSettled /\ ItemsAreOfOne /\ PaidInOne
    BY <1>2 DEF SettlementsInit, NoStrayItem, ItemsAreSettled, ItemsAreOfOne, PaidInOne
<1>4. NetIsTheDifference
    <2> DEFINE items == [b \in Sales |-> NoItem]
    <2>1. items \in [Sales -> Item] /\ \A b \in Sales : items[b].due = 0 /\ items[b].frozen = 0
        BY DEF Item, NoItem
    <2> HIDE DEF items
    <2>2. \A b \in Sales : PaysOut(items)[b] = 0 /\ Charges(items)[b] = 0
        BY <2>1, DueIsSum
    <2>3. Due(items) = 0 /\ Owed(items) = 0
        <3>1. \A T \in SUBSET Sales : /\ SumFunctionOnSet(PaysOut(items), T) = 0
                                      /\ SumFunctionOnSet(Charges(items), T) = 0
            BY <2>2, SumZero, SettlementsAssumption, FS_Subset
        <3>2. QED
            BY <2>1, <3>1, DueIsSum, SettlementsAssumption
    <2>4. QED
        BY <1>2, <2>3 DEF NetIsTheDifference, items
<1>5. ClaimsAreCovered
    <2> DEFINE c == [b \in Sales |-> 0]
    <2>1. c \in [Sales -> Nat] /\ \A b \in Sales : c[b] = 0
        OBVIOUS
    <2> HIDE DEF c
    <2>2. SumFunctionOnSet(c, Electronic) = 0 /\ SumFunctionOnSet(c, Sales \ Electronic) = 0
        BY <2>1, SumZero, SettlementsAssumption, FS_Subset
    <2>3. Claims(c)
        BY <1>2, <2>1, <2>2 DEF Claims, SettlementsInit
    <2>4. QED
        BY <2>1, <2>3 DEF ClaimsAreCovered
<1>6. EffectsSoFar /\ LastDecisionCounts
    BY DEF SettlementsInit, EffectsSoFar, EffectSoFar, LastDecisionCounts, LastDecision
<1>7. QED
    BY <1>1, <1>3, <1>4, <1>5, <1>6 DEF SettlementsInv, MoneyInv

-----------------------------------------------------------------------------
(* Types, and what is posted of a dispute *)

(* Every step keeps the types; refunds stay within what was paid.          *)
LEMMA SettlementsTypeNext ==
    ASSUME SettlementsTypeOK, [SettlementsNext]_sVars
    PROVE  SettlementsTypeOK'
<1> USE DEF SettlementsTypeOK
<1>0. ASSUME NEW b \in Sales, NEW from, NEW to \in DisputeStatus, DisputeStep(b, from, to)
      PROVE  dispute' \in [Sales -> [st : DisputeStatus, late : BOOLEAN]]
    BY <1>0 DEF DisputeStep
<1>1. ASSUME NEW b \in Sales,
             \/ Recognise(b) \/ RefundLater(b) \/ OpenDispute(b) \/ AssignOffice(b)
             \/ OfficeResponds(b) \/ Appeal(b) \/ AppealTimeEnds(b) \/ CloseNoAppeal(b)
      PROVE  SettlementsTypeOK'
    <2>1. CASE Recognise(b)
        <3>1. Net(b) \in Int /\ CutOf(b) \in Int
            BY AmountsAreNat
        <3>2. QED
            BY <2>1, <3>1 DEF Recognise, disputeVars
    <2>2. CASE RefundLater(b)
        <3>1. returned' \in [Sales -> Nat] /\ \A a \in Sales : returned'[a] <= Gross[a]
            <4>1. \A a \in Sales : returned'[a] = IF a = b THEN Gross[b] ELSE returned[a]
                BY <2>2 DEF RefundLater
            <4>2. \A a \in Sales : Gross[a] \in Nat /\ returned[a] \in Nat /\ returned[a] <= Gross[a]
                BY SettlementsAssumption
            <4>3. returned' \in [Sales -> Nat]
                BY <2>2, <4>2 DEF RefundLater
            <4>4. ASSUME NEW a \in Sales PROVE returned'[a] <= Gross[a]
                <5>1. CASE a = b
                    BY <4>1, <4>2, <5>1
                <5>2. CASE a # b
                    BY <4>1, <4>2, <5>2
                <5>3. QED
                    BY <5>1, <5>2
            <4>5. QED
                BY <4>3, <4>4
        <3>2. QED
            BY <2>2, <3>1 DEF RefundLater, moneyVars, disputeVars
    <2>3. CASE AppealTimeEnds(b)
        BY <2>3 DEF AppealTimeEnds, moneyVars, DisputeStatus
    <2>4. CASE OpenDispute(b) \/ AssignOffice(b) \/ OfficeResponds(b) \/ Appeal(b) \/ CloseNoAppeal(b)
        <3>1. \E from, to : DisputeStep(b, from, to) /\ to \in DisputeStatus
            BY <2>4, Zenon DEF OpenDispute, AssignOffice, OfficeResponds, Appeal, CloseNoAppeal,
               DisputeStatus
        <3>2. dispute' \in [Sales -> [st : DisputeStatus, late : BOOLEAN]]
            BY <1>0, <3>1
        <3>3. UNCHANGED <<decision, effect, moneyVars, returned, bankable>>
            BY <2>4 DEF OpenDispute, AssignOffice, OfficeResponds, Appeal, CloseNoAppeal, DisputeStep
        <3>4. QED
            BY <3>2, <3>3 DEF moneyVars
    <2>5. QED
        BY <1>1, <2>1, <2>2, <2>3, <2>4
<1>2. ASSUME NEW b \in Sales, NEW x \in {-1, 0, 1}, Decide(b, x) \/ DecideAppeal(b, x)
      PROVE  SettlementsTypeOK'
    <2>1. decision[b].initial \in Int /\ effect[b] \in Int /\ x \in Int
        OBVIOUS
    <2>2. decision' \in [Sales -> [initial : Int, appeal : Int]] /\ effect' \in [Sales -> Int]
        BY <1>2, <2>1 DEF Decide, DecideAppeal, CorrectedEffect
    <2>3. dispute' \in [Sales -> [st : DisputeStatus, late : BOOLEAN]]
        <3>1. "decided" \in DisputeStatus /\ "closed" \in DisputeStatus
            BY DEF DisputeStatus
        <3>2. QED
            BY <1>0, <1>2, <3>1 DEF Decide, DecideAppeal
    <2>4. QED
        BY <1>2, <2>2, <2>3 DEF Decide, DecideAppeal, DisputeStep, moneyVars
<1>3. ASSUME NEW s \in Periods, NEW from, NEW to \in SettlementStatus, Steps(s, from, to)
      PROVE  SettlementsTypeOK'
    BY <1>3 DEF Steps, disputeVars
<1>4. ASSUME NEW s \in Periods, Calculate(s) PROVE SettlementsTypeOK'
    <2> DEFINE items == [b \in Sales |-> IF b \in Settleable(s) THEN ItemOf(b) ELSE NoItem]
               row == [st |-> "calculated", items |-> items, net |-> Due(items) - Owed(items)]
    <2>1. items \in [Sales -> Item]
        BY AmountsAreNat
    <2>2. row \in [st : SettlementStatus, items : [Sales -> Item], net : Int]
        <3> HIDE DEF items
        <3>1. QED
            BY <2>1, DueIsSum DEF SettlementStatus
    <2>3. settlement' = [settlement EXCEPT ![s] = row]
        BY <1>4 DEF Calculate
    <2> HIDE DEF row
    <2>4. settlement' \in [Periods -> [st : SettlementStatus, items : [Sales -> Item], net : Int]]
        BY <2>2, <2>3
    <2>5. com' \in [Sales -> {"expected", "earned", "in_settlement", "paid"}]
        BY <1>4 DEF Calculate
    <2>6. QED
        BY <1>4, <2>4, <2>5 DEF Calculate, disputeVars
<1>5. ASSUME NEW s \in Periods, MarkPaid(s) PROVE SettlementsTypeOK'
    <2> DEFINE items == settlement[s].items
               net == settlement[s].net
    <2>1. net \in Int /\ Netted(items) \in Int
        BY DueIsSum DEF Netted, Lesser
    <2>2. payable' \in Int /\ receivable' \in Int
        <3>1. /\ payable' = payable - Netted(items) - (IF net > 0 THEN net ELSE 0)
              /\ receivable' = receivable - Netted(items) - (IF net < 0 THEN -net ELSE 0)
            BY <1>5 DEF MarkPaid
        <3> HIDE DEF items, net
        <3>2. QED
            BY <2>1, <3>1
    <2>3. com' \in [Sales -> {"expected", "earned", "in_settlement", "paid"}]
        BY <1>5 DEF MarkPaid, Paid
    <2>4. settlement' \in [Periods -> [st : SettlementStatus, items : [Sales -> Item], net : Int]]
        BY <1>5 DEF MarkPaid, SettlementStatus
    <2>5. QED
        BY <1>5, <2>2, <2>3, <2>4 DEF MarkPaid, disputeVars
<1>6. ASSUME PayoutAccountChanges \/ UNCHANGED sVars PROVE SettlementsTypeOK'
    BY <1>6 DEF PayoutAccountChanges, sVars, moneyVars, disputeVars
<1>7. ASSUME NEW s \in Periods,
             \/ CreateSettlement(s) \/ SubmitReview(s) \/ ApproveSettlement(s)
             \/ ProcessSettlement(s) \/ CloseSettlement(s)
      PROVE  SettlementsTypeOK'
    <2>1. \E from, to \in SettlementStatus : Steps(s, from, to)
        BY <1>7, Zenon DEF CreateSettlement, SubmitReview, ApproveSettlement, ProcessSettlement,
           CloseSettlement, SettlementStatus
    <2>2. QED
        BY <1>3, <2>1
<1>8. QED
    BY <1>1, <1>2, <1>4, <1>5, <1>6, <1>7 DEF SettlementsNext

(* Whoever decides: what is posted is the decision that counts.            *)
LEMMA EffectsNext ==
    ASSUME SettlementsTypeOK, EffectsSoFar, LastDecisionCounts, [SettlementsNext]_sVars
    PROVE  EffectsSoFar' /\ LastDecisionCounts'
<1> DEFINE Counts(b) == effect[b] = IF LastDecision(b) = NoDecision THEN 0 ELSE LastDecision(b)
<1>1. CASE UNCHANGED disputeVars
    BY <1>1 DEF EffectsSoFar, EffectSoFar, LastDecisionCounts, LastDecision, disputeVars
<1>2. ASSUME NEW b \in Sales, UNCHANGED <<decision, effect>>,
             \A a \in Sales \ {b} : dispute'[a] = dispute[a],
             \/ dispute'[b].st = dispute[b].st \/ dispute'[b].st = "closed"
             \/ dispute[b].st = "decided" /\ dispute'[b].st = "appealed"
             \/ /\ dispute[b].st \in {"none", "open", "awaiting_office"}
                /\ dispute'[b].st \in {"open", "awaiting_office", "under_review"}
      PROVE  EffectsSoFar' /\ LastDecisionCounts'
    <2>1. LastDecisionCounts'
        BY <1>2 DEF LastDecisionCounts, LastDecision
    <2>2. ASSUME NEW a \in Sales PROVE EffectSoFar(a)'
        <3>1. EffectSoFar(a)
            BY DEF EffectsSoFar
        <3>2. CASE a = b
            BY <1>2, <3>1, <3>2 DEF EffectSoFar
        <3>3. CASE a # b
            BY <1>2, <3>1, <3>3 DEF EffectSoFar
        <3>4. QED
            BY <3>2, <3>3
    <2>3. QED
        BY <2>1, <2>2 DEF EffectsSoFar
<1>3. ASSUME NEW b \in Sales,
             \/ OpenDispute(b) \/ AssignOffice(b) \/ OfficeResponds(b) \/ Appeal(b)
             \/ AppealTimeEnds(b) \/ CloseNoAppeal(b)
      PROVE  EffectsSoFar' /\ LastDecisionCounts'
    BY <1>2, <1>3 DEF OpenDispute, AssignOffice, OfficeResponds, Appeal, AppealTimeEnds, CloseNoAppeal,
       DisputeStep, SettlementsTypeOK
<1>4. ASSUME NEW b \in Sales, NEW x \in {-1, 0, 1}, Decide(b, x) \/ DecideAppeal(b, x)
      PROVE  EffectsSoFar' /\ LastDecisionCounts'
    <2>1. ASSUME NEW a \in Sales, a # b PROVE EffectSoFar(a)' /\ Counts(a)'
        <3>1. /\ dispute'[a] = dispute[a] /\ decision'[a] = decision[a] /\ effect'[a] = effect[a]
              /\ EffectSoFar(a) /\ Counts(a)
            BY <1>4, <2>1 DEF Decide, DecideAppeal, DisputeStep, SettlementsTypeOK, EffectsSoFar,
               LastDecisionCounts
        <3>2. QED
            BY <3>1 DEF EffectSoFar, LastDecision
    <2>2. EffectSoFar(b) /\ effect[b] \in Int
        BY DEF EffectsSoFar, SettlementsTypeOK
    <2>3. CASE Decide(b, x)
        <3>1. /\ dispute[b].st \in {"open", "under_review"} /\ dispute'[b].st = "decided"
              /\ decision'[b].initial = x /\ decision'[b].appeal = decision[b].appeal
              /\ effect'[b] = effect[b] + x
            BY <2>3 DEF Decide, DisputeStep, SettlementsTypeOK
        <3>2. x # NoDecision
            BY DEF NoDecision
        <3>3. decision[b].appeal = NoDecision /\ effect[b] = 0
            BY <2>2, <3>1 DEF EffectSoFar
        <3>4. effect'[b] = x
            BY <3>1, <3>3
        <3>5. QED
            BY <2>1, <3>1, <3>2, <3>3, <3>4 DEF EffectsSoFar, EffectSoFar, LastDecisionCounts, LastDecision
    <2>4. CASE DecideAppeal(b, x)
        <3>1. /\ dispute[b].st = "appealed" /\ dispute'[b].st = "closed"
              /\ decision'[b].appeal = x
              /\ effect'[b] = effect[b] - decision[b].initial + x
            BY <2>4 DEF DecideAppeal, DisputeStep, SettlementsTypeOK, CorrectedEffect
        <3>2. x # NoDecision
            BY DEF NoDecision
        <3>3. effect[b] = decision[b].initial
            BY <2>2, <3>1 DEF EffectSoFar
        <3>4. effect'[b] = x
            BY <2>2, <3>1, <3>3
        <3>5. EffectSoFar(b)'
            BY <3>1 DEF EffectSoFar
        <3>6. Counts(b)'
            BY <3>1, <3>2, <3>4 DEF LastDecision
        <3>7. QED
            BY <2>1, <3>5, <3>6 DEF EffectsSoFar, LastDecisionCounts
    <2>5. QED
        BY <1>4, <2>3, <2>4
<1>5. ASSUME NEW s \in Periods,
             \/ CreateSettlement(s) \/ Calculate(s) \/ SubmitReview(s) \/ ApproveSettlement(s)
             \/ ProcessSettlement(s) \/ MarkPaid(s) \/ CloseSettlement(s)
      PROVE  UNCHANGED disputeVars
    BY <1>5 DEF CreateSettlement, Calculate, SubmitReview, ApproveSettlement, ProcessSettlement,
       MarkPaid, CloseSettlement, Steps
<1>6. ASSUME \/ PayoutAccountChanges \/ UNCHANGED sVars
             \/ \E b \in Sales : Recognise(b) \/ RefundLater(b)
      PROVE  UNCHANGED disputeVars
    BY <1>6 DEF PayoutAccountChanges, Recognise, RefundLater, sVars, disputeVars
<1>7. QED
    BY <1>1, <1>3, <1>4, <1>5, <1>6 DEF SettlementsNext

-----------------------------------------------------------------------------
(* The steps of the money *)

(* The class of a settlement, open or over, decides; later refunds only    *)
(* lower what a booking has earned.                                        *)
LEMMA MoneyFrame ==
    ASSUME MoneyInv, UNCHANGED <<com, payable, receivable>>,
           \A s \in Periods : /\ settlement'[s].items = settlement[s].items
                              /\ settlement'[s].net = settlement[s].net
                              /\ OpenSettlement(s)' <=> OpenSettlement(s)
                              /\ OverSettlement(s)' <=> OverSettlement(s),
           \A b \in Sales : /\ ItemOf(b).due \in Nat /\ ItemOf(b)'.due \in Nat
                            /\ ItemOf(b)'.due <= ItemOf(b).due,
           SettlementsTypeOK
    PROVE  MoneyInv'
<1> USE DEF MoneyInv
<1>1. \A s \in Periods : InItems(s)' = InItems(s)
    BY DEF InItems
<1>2. \A s \in Periods, b \in Sales : settlement[s].items[b].due \in Nat
    BY DEF SettlementsTypeOK, Item
<1>3. NoStrayItem'
    BY <1>1 DEF NoStrayItem
<1>4. ItemsAreSettled'
    <2> SUFFICES ASSUME NEW s \in Periods, NEW b \in Sales, b \in InItems(s)
                 PROVE  /\ OpenSettlement(s)' \/ OverSettlement(s)'
                        /\ b \in EarnedIn[s]
                        /\ com'[b] = IF OverSettlement(s)' THEN "paid" ELSE "in_settlement"
                        /\ OpenSettlement(s)' => ItemOf(b)'.due <= settlement'[s].items[b].due
        BY <1>1 DEF ItemsAreSettled
    <2>1. /\ OpenSettlement(s) \/ OverSettlement(s)
          /\ b \in EarnedIn[s]
          /\ com[b] = IF OverSettlement(s) THEN "paid" ELSE "in_settlement"
          /\ OpenSettlement(s) => ItemOf(b).due <= settlement[s].items[b].due
        BY DEF ItemsAreSettled
    <2>2. /\ settlement'[s].items[b].due = settlement[s].items[b].due
          /\ settlement[s].items[b].due \in Nat
        BY <1>2
    <2>3. ItemOf(b).due \in Nat /\ ItemOf(b)'.due \in Nat /\ ItemOf(b)'.due <= ItemOf(b).due
        OBVIOUS
    <2>4. OpenSettlement(s) => ItemOf(b)'.due <= settlement[s].items[b].due
        BY <2>1, <2>2, <2>3
    <2>5. QED
        BY <2>1, <2>2, <2>4
<1>5. ItemsAreOfOne' /\ PaidInOne'
    BY <1>1 DEF ItemsAreOfOne, PaidInOne
<1>6. NetIsTheDifference'
    BY DEF NetIsTheDifference, Due, Owed
<1>7. ClaimsAreCovered'
    <2>1. PICK c \in [Sales -> Nat] : Claims(c)
        BY DEF ClaimsAreCovered
    <2>2. \A b \in Sales : com'[b] = "earned" => ItemOf(b)'.due <= c[b]
        <3>1. \A b \in Sales : com[b] = "earned" => ItemOf(b).due <= c[b]
            BY <2>1 DEF Claims
        <3>2. \A b \in Sales : c[b] \in Nat
            BY <2>1
        <3>3. \A b \in Sales : com'[b] = "earned" => ItemOf(b).due <= c[b]
            BY <3>1
        <3>4. QED
            BY <3>2, <3>3
    <2>3. \A s \in Periods, b \in Sales :
              b \in InItems(s)' /\ OpenSettlement(s)' => settlement'[s].items[b].due <= c[b]
        BY <1>1, <2>1 DEF Claims
    <2>4. Claims(c)'
        BY <2>1, <2>2, <2>3 DEF Claims
    <2>5. QED
        BY <2>4 DEF ClaimsAreCovered
<1>8. QED
    BY <1>3, <1>4, <1>5, <1>6, <1>7

(* What recognition posts is what the booking may claim.                   *)
LEMMA RecogniseKeepsMoney ==
    ASSUME SettlementsTypeOK, MoneyInv, NEW b \in Sales, Recognise(b)
    PROVE  MoneyInv'
<1> USE DEF MoneyInv
<1>1. /\ com[b] = "expected" /\ com' = [com EXCEPT ![b] = "earned"]
      /\ settlement' = settlement /\ returned' = returned /\ dispute' = dispute
      /\ com \in [Sales -> {"expected", "earned", "in_settlement", "paid"}]
    BY DEF Recognise, disputeVars, SettlementsTypeOK
<1>2. \A s \in Periods : /\ InItems(s)' = InItems(s) /\ OpenSettlement(s)' = OpenSettlement(s)
                         /\ OverSettlement(s)' = OverSettlement(s) /\ b \notin InItems(s)
    BY <1>1 DEF InItems, OpenSettlement, OverSettlement, ItemsAreSettled
<1>3. \A a \in Sales : ItemOf(a)' = ItemOf(a)
    BY <1>1 DEF ItemOf, Net, CutOf, RecognisedGross, Frozen, IsOpen
<1>4. \A a \in Sales : com'[a] = IF a = b THEN "earned" ELSE com[a]
    BY <1>1
<1>5. NoStrayItem' /\ ItemsAreOfOne'
    BY <1>1, <1>2 DEF NoStrayItem, ItemsAreOfOne
<1>6. ItemsAreSettled' /\ PaidInOne'
    BY <1>1, <1>2, <1>3, <1>4 DEF ItemsAreSettled, PaidInOne
<1>7. NetIsTheDifference'
    BY <1>1 DEF NetIsTheDifference, Due, Owed
<1>8. ClaimsAreCovered'
    <2> DEFINE x == ItemOf(b).due
               mine == IF b \in Electronic THEN Electronic ELSE Sales \ Electronic
               other == IF b \in Electronic THEN Sales \ Electronic ELSE Electronic
    <2>1. PICK c \in [Sales -> Nat] : Claims(c)
        BY DEF ClaimsAreCovered
    <2>2. x \in Nat /\ x = IF b \in Electronic THEN Net(b) ELSE CutOf(b)
        BY AmountsAreNat DEF ItemOf, Item
    <2> HIDE DEF x
    <2>0. PICK d \in [Sales -> Nat] : d[b] = x /\ \A a \in Sales : a # b => d[a] = c[a]
        <3>1. [c EXCEPT ![b] = x] \in [Sales -> Nat]
            BY <2>1, <2>2
        <3>2. QED
            BY <3>1
    <2>3. /\ d[b] = x /\ \A a \in Sales : a # b => d[a] = c[a]
          /\ \A a \in Sales : c[a] \in Nat /\ d[a] \in Nat
        BY <2>0, <2>1
    <2>4. /\ \A a \in Sales : com'[a] = "earned" => ItemOf(a)'.due <= d[a]
          /\ \A s \in Periods, a \in Sales :
                 a \in InItems(s)' /\ OpenSettlement(s)' => settlement'[s].items[a].due <= d[a]
        <3>1. ItemOf(b)'.due <= d[b]
            BY <1>3, <2>2, <2>3 DEF x
        <3>2. \A a \in Sales : a # b /\ com'[a] = "earned" => ItemOf(a)'.due <= d[a]
            BY <1>3, <1>4, <2>1, <2>3 DEF Claims
        <3>3. QED
            BY <1>1, <1>2, <2>1, <2>3, <3>1, <3>2 DEF Claims
    <2>5. /\ IsFiniteSet(mine) /\ IsFiniteSet(other) /\ b \in mine /\ b \notin other
          /\ mine \subseteq Sales /\ other \subseteq Sales
        BY SettlementsAssumption, FS_Subset
    <2>6. SumFunctionOnSet(d, other) = SumFunctionOnSet(c, other)
        <3> HIDE DEF other
        <3>1. \A a \in other : d[a] \in Int /\ d[a] = c[a]
            BY <2>3, <2>5
        <3>2. QED
            BY <2>5, <3>1, SumAgrees
    <2>7. SumFunctionOnSet(d, mine) <= SumFunctionOnSet(c, mine) + x
        <3> HIDE DEF mine
        <3>1. SumFunctionOnSet(d, mine) = SumFunctionOnSet(c, mine) - c[b] + d[b]
            BY <2>3, <2>5, SumChange
        <3>2. SumFunctionOnSet(c, mine) \in Int
            BY <2>3, <2>5, SumInt
        <3>3. QED
            BY <2>2, <2>3, <2>5, <3>1, <3>2
    <2>8. /\ SumFunctionOnSet(c, mine) \in Int /\ SumFunctionOnSet(d, mine) \in Int
        <3> HIDE DEF mine
        <3>1. QED
            BY <2>3, <2>5, SumInt
    <2>9. /\ SumFunctionOnSet(d, Electronic) <= payable'
          /\ SumFunctionOnSet(d, Sales \ Electronic) <= receivable'
        <3>1. /\ SumFunctionOnSet(c, Electronic) <= payable /\ payable \in Int
              /\ SumFunctionOnSet(c, Sales \ Electronic) <= receivable /\ receivable \in Int
            BY <2>1 DEF Claims, SettlementsTypeOK
        <3>2. CASE b \in Electronic
            <4>1. payable' = payable + x /\ receivable' = receivable
                BY <2>2, <3>2 DEF Recognise
            <4>2. mine = Electronic /\ other = Sales \ Electronic
                BY <3>2
            <4>3. SumFunctionOnSet(d, Electronic) <= payable + x
                BY <2>2, <2>7, <2>8, <3>1, <4>2
            <4>4. QED
                BY <2>6, <3>1, <4>1, <4>2, <4>3
        <3>3. CASE b \notin Electronic
            <4>1. receivable' = receivable + x /\ payable' = payable
                BY <2>2, <3>3 DEF Recognise
            <4>2. mine = Sales \ Electronic /\ other = Electronic
                BY <3>3
            <4>3. SumFunctionOnSet(d, Sales \ Electronic) <= receivable + x
                BY <2>2, <2>7, <2>8, <3>1, <4>2
            <4>4. QED
                BY <2>6, <3>1, <4>1, <4>2, <4>3
        <3>4. QED
            BY <3>2, <3>3
    <2>10. Claims(d)'
        BY <2>3, <2>4, <2>9 DEF Claims
    <2>11. QED
        BY <2>3, <2>10 DEF ClaimsAreCovered
<1>9. QED
    BY <1>5, <1>6, <1>7, <1>8

(* A calculation takes what is earned or is its own already; no booking is *)
(* claimed twice, and none for more than before.                           *)
LEMMA CalculateKeepsMoney ==
    ASSUME SettlementsTypeOK, MoneyInv, NEW s \in Periods, Calculate(s)
    PROVE  MoneyInv'
<1> USE DEF MoneyInv
<1> DEFINE mine == Settleable(s)
           items == [b \in Sales |-> IF b \in mine THEN ItemOf(b) ELSE NoItem]
<1>1. /\ settlement[s].st \in {"draft", "calculated"}
      /\ com' = [b \in Sales |-> IF b \in mine THEN "in_settlement" ELSE com[b]]
      /\ returned' = returned /\ dispute' = dispute /\ payable' = payable /\ receivable' = receivable
      /\ settlement \in [Periods -> [st : SettlementStatus, items : [Sales -> Item], net : Int]]
    BY DEF Calculate, disputeVars, SettlementsTypeOK
<1>2. /\ settlement'[s].st = "calculated" /\ settlement'[s].items = items
      /\ settlement'[s].net = Due(items) - Owed(items)
      /\ \A t \in Periods : t # s => settlement'[t] = settlement[t]
    <2> DEFINE row == [st |-> "calculated", items |-> items, net |-> Due(items) - Owed(items)]
    <2>1. settlement' = [settlement EXCEPT ![s] = row]
        BY DEF Calculate
    <2>2. row.st = "calculated" /\ row.items = items /\ row.net = Due(items) - Owed(items)
        OBVIOUS
    <2> HIDE DEF row, items
    <2>3. settlement'[s] = row /\ \A t \in Periods : t # s => settlement'[t] = settlement[t]
        BY <1>1, <2>1
    <2>4. QED
        BY <2>2, <2>3
<1>3. mine \subseteq Sales /\ InItems(s)' = mine /\ \A b \in mine : settlement'[s].items[b] = ItemOf(b)
    <2>1. mine \subseteq Sales
        BY SettlementsAssumption DEF Settleable
    <2>2. \A b \in Sales : items[b].listed <=> b \in mine
        BY DEF ItemOf, NoItem
    <2>3. \A b \in mine : items[b] = ItemOf(b)
        BY <2>1
    <2> HIDE DEF items, mine
    <2>4. QED
        BY <1>2, <2>1, <2>2, <2>3 DEF InItems
<1>4. \A b \in Sales \ mine : settlement'[s].items[b] = NoItem
    BY <1>2
<1>5. \A b \in Sales : ItemOf(b)' = ItemOf(b)
    BY <1>1 DEF ItemOf, Net, CutOf, RecognisedGross, Frozen, IsOpen
<1>6. \A t \in Periods : t # s => /\ InItems(t)' = InItems(t)
                                  /\ OpenSettlement(t)' <=> OpenSettlement(t)
                                  /\ OverSettlement(t)' <=> OverSettlement(t)
    BY <1>2 DEF InItems, OpenSettlement, OverSettlement
<1>7. OpenSettlement(s)' /\ ~OverSettlement(s)' /\ ~OverSettlement(s)
    BY <1>1, <1>2 DEF OpenSettlement, OverSettlement
<1>8. \A b \in mine : /\ b \in EarnedIn[s]
                      /\ com[b] = "earned" \/ (b \in InItems(s) /\ com[b] = "in_settlement")
                      /\ \A t \in Periods : t # s => b \notin InItems(t)
    <2>1. SUFFICES ASSUME NEW b \in mine
                   PROVE  /\ b \in EarnedIn[s]
                          /\ com[b] = "earned" \/ (b \in InItems(s) /\ com[b] = "in_settlement")
                          /\ \A t \in Periods : t # s => b \notin InItems(t)
        OBVIOUS
    <2>2. b \in Sales /\ b \in EarnedIn[s] /\ (com[b] = "earned" \/ b \in InItems(s))
        BY <1>3 DEF Settleable
    <2>3. \A t \in Periods : b \in InItems(t) => com[b] \in {"paid", "in_settlement"}
        BY <2>2 DEF ItemsAreSettled
    <2>4. b \in InItems(s) => com[b] = "in_settlement"
        BY <1>7, <2>2 DEF ItemsAreSettled
    <2>5. QED
        BY <2>2, <2>3, <2>4 DEF ItemsAreOfOne
<1> HIDE DEF items, mine
<1>9. NoStrayItem'
    <2> SUFFICES ASSUME NEW t \in Periods, NEW b \in Sales, b \notin InItems(t)'
                 PROVE  settlement'[t].items[b] = NoItem
        BY DEF NoStrayItem
    <2>1. CASE t = s
        BY <1>3, <1>4, <2>1
    <2>2. CASE t # s
        BY <1>2, <1>6, <2>2 DEF NoStrayItem
    <2>3. QED
        BY <2>1, <2>2
<1>10. ItemsAreSettled'
    <2> SUFFICES ASSUME NEW t \in Periods, NEW b \in Sales, b \in InItems(t)'
                 PROVE  /\ OpenSettlement(t)' \/ OverSettlement(t)'
                        /\ b \in EarnedIn[t]
                        /\ com'[b] = IF OverSettlement(t)' THEN "paid" ELSE "in_settlement"
                        /\ OpenSettlement(t)' => ItemOf(b)'.due <= settlement'[t].items[b].due
        BY DEF ItemsAreSettled
    <2>1. CASE t = s
        <3>1. b \in mine /\ b \in EarnedIn[s] /\ com'[b] = "in_settlement"
            BY <1>1, <1>3, <1>8, <2>1
        <3>2. settlement'[s].items[b] = ItemOf(b) /\ ItemOf(b)' = ItemOf(b) /\ ItemOf(b).due \in Nat
            BY <1>3, <1>5, <3>1, AmountsAreNat DEF Item
        <3>3. QED
            BY <1>7, <2>1, <3>1, <3>2
    <2>2. CASE t # s
        <3>1. b \in InItems(t) /\ b \notin mine /\ com'[b] = com[b]
            BY <1>1, <1>6, <1>8, <2>2
        <3>2. /\ OpenSettlement(t) \/ OverSettlement(t)
              /\ b \in EarnedIn[t]
              /\ com[b] = IF OverSettlement(t) THEN "paid" ELSE "in_settlement"
              /\ OpenSettlement(t) => ItemOf(b).due <= settlement[t].items[b].due
            BY <3>1 DEF ItemsAreSettled
        <3>3. settlement'[t] = settlement[t] /\ ItemOf(b)' = ItemOf(b)
            BY <1>2, <1>5, <2>2
        <3>4. QED
            BY <1>6, <2>2, <3>1, <3>2, <3>3
    <2>3. QED
        BY <2>1, <2>2
<1>11. ItemsAreOfOne'
    BY <1>3, <1>6, <1>8 DEF ItemsAreOfOne
<1>12. PaidInOne'
    <2> SUFFICES ASSUME NEW b \in Sales, com'[b] = "paid"
                 PROVE  \E t \in Periods : OverSettlement(t)' /\ b \in InItems(t)'
        BY DEF PaidInOne
    <2>1. com[b] = "paid"
        BY <1>1
    <2>2. PICK t \in Periods : OverSettlement(t) /\ b \in InItems(t)
        BY <2>1 DEF PaidInOne
    <2>3. t # s
        BY <1>7, <2>2
    <2>4. QED
        BY <1>6, <2>2, <2>3
<1>13. NetIsTheDifference'
    <2>1. ASSUME NEW t \in Periods
          PROVE  settlement'[t].net = Due(settlement'[t].items) - Owed(settlement'[t].items)
        <3>1. CASE t = s
            BY <1>2, <3>1
        <3>2. CASE t # s
            BY <1>2, <3>2 DEF NetIsTheDifference
        <3>3. QED
            BY <3>1, <3>2
    <2>2. QED
        BY <2>1 DEF NetIsTheDifference, Due, Owed
<1>14. ClaimsAreCovered'
    <2>1. PICK c \in [Sales -> Nat] : Claims(c)
        BY DEF ClaimsAreCovered
    <2>2. \A b \in Sales : com'[b] = "earned" => ItemOf(b)'.due <= c[b]
        BY <1>1, <1>5, <2>1 DEF Claims
    <2>3. ASSUME NEW t \in Periods, NEW b \in Sales, b \in InItems(t)', OpenSettlement(t)'
          PROVE  settlement'[t].items[b].due <= c[b]
        <3>1. CASE t = s
            <4>1. b \in mine /\ settlement'[s].items[b] = ItemOf(b)
                BY <1>3, <2>3, <3>1
            <4>2. ItemOf(b).due \in Nat /\ c[b] \in Nat
                BY <2>1, AmountsAreNat DEF Item
            <4>3. CASE com[b] = "earned"
                BY <2>1, <3>1, <4>1, <4>3 DEF Claims
            <4>4. CASE b \in InItems(s) /\ com[b] = "in_settlement"
                <5>1. OpenSettlement(s)
                    BY <1>7, <4>4 DEF ItemsAreSettled
                <5>2. ItemOf(b).due <= settlement[s].items[b].due /\ settlement[s].items[b].due <= c[b]
                    BY <2>1, <4>4, <5>1 DEF ItemsAreSettled, Claims
                <5>3. settlement[s].items[b].due \in Nat
                    BY <1>1 DEF Item
                <5> DEFINE i == ItemOf(b).due
                           j == settlement[s].items[b].due
                <5>4. i <= c[b]
                    <6> HIDE DEF i, j
                    <6>1. i \in Nat /\ j \in Nat /\ i <= j /\ j <= c[b]
                        BY <4>2, <5>2, <5>3 DEF i, j
                    <6>2. QED
                        BY <4>2, <6>1
                <5>5. QED
                    BY <3>1, <4>1, <5>4
            <4>5. QED
                BY <1>8, <4>1, <4>3, <4>4
        <3>2. CASE t # s
            BY <1>2, <1>6, <2>1, <2>3, <3>2 DEF Claims
        <3>3. QED
            BY <3>1, <3>2
    <2>4. Claims(c)'
        BY <1>1, <2>1, <2>2, <2>3 DEF Claims
    <2>5. QED
        BY <2>4 DEF ClaimsAreCovered
<1>15. QED
    BY <1>9, <1>10, <1>11, <1>12, <1>13, <1>14

(* Netting and payment together take what the settlement pays out from the *)
(* one account and what it charges from the other; the claims of its       *)
(* bookings end.                                                           *)
LEMMA MarkPaidKeepsMoney ==
    ASSUME SettlementsTypeOK, MoneyInv, NEW s \in Periods, MarkPaid(s)
    PROVE  MoneyInv'
<1> USE DEF MoneyInv
<1> DEFINE items == settlement[s].items
<1>1. /\ settlement[s].st = "processing"
      /\ com' = [b \in Sales |-> IF b \in InItems(s) THEN "paid" ELSE com[b]]
      /\ returned' = returned /\ dispute' = dispute
      /\ settlement \in [Periods -> [st : SettlementStatus, items : [Sales -> Item], net : Int]]
      /\ items \in [Sales -> Item]
    BY DEF MarkPaid, Paid, disputeVars, SettlementsTypeOK
<1>2. /\ settlement'[s].st = "paid"
      /\ \A t \in Periods : /\ settlement'[t].items = settlement[t].items
                            /\ settlement'[t].net = settlement[t].net
                            /\ t # s => settlement'[t] = settlement[t]
    BY <1>1 DEF MarkPaid
<1>3. /\ \A t \in Periods : InItems(t)' = InItems(t)
      /\ \A t \in Periods : t # s => /\ OpenSettlement(t)' <=> OpenSettlement(t)
                                     /\ OverSettlement(t)' <=> OverSettlement(t)
      /\ OverSettlement(s)' /\ ~OpenSettlement(s)' /\ OpenSettlement(s) /\ ~OverSettlement(s)
    BY <1>1, <1>2 DEF InItems, OpenSettlement, OverSettlement
<1>4. \A b \in Sales : ItemOf(b)' = ItemOf(b)
    BY <1>1 DEF ItemOf, Net, CutOf, RecognisedGross, Frozen, IsOpen
<1>5. NoStrayItem' /\ ItemsAreOfOne'
    BY <1>2, <1>3 DEF NoStrayItem, ItemsAreOfOne
<1>6. ItemsAreSettled'
    <2> SUFFICES ASSUME NEW t \in Periods, NEW b \in Sales, b \in InItems(t)
                 PROVE  /\ OpenSettlement(t)' \/ OverSettlement(t)'
                        /\ b \in EarnedIn[t]
                        /\ com'[b] = IF OverSettlement(t)' THEN "paid" ELSE "in_settlement"
                        /\ OpenSettlement(t)' => ItemOf(b)'.due <= settlement'[t].items[b].due
        BY <1>3 DEF ItemsAreSettled
    <2>1. /\ OpenSettlement(t) \/ OverSettlement(t)
          /\ b \in EarnedIn[t]
          /\ com[b] = IF OverSettlement(t) THEN "paid" ELSE "in_settlement"
          /\ OpenSettlement(t) => ItemOf(b).due <= settlement[t].items[b].due
        BY DEF ItemsAreSettled
    <2>2. CASE t = s
        BY <1>1, <1>3, <2>1, <2>2
    <2>3. CASE t # s
        <3>1. b \notin InItems(s)
            BY <2>3 DEF ItemsAreOfOne
        <3>2. QED
            BY <1>1, <1>2, <1>3, <1>4, <2>1, <2>3, <3>1
    <2>4. QED
        BY <2>2, <2>3
<1>7. PaidInOne'
    <2> SUFFICES ASSUME NEW b \in Sales, com'[b] = "paid"
                 PROVE  \E t \in Periods : OverSettlement(t)' /\ b \in InItems(t)'
        BY DEF PaidInOne
    <2>1. CASE b \in InItems(s)
        BY <1>3, <2>1
    <2>2. CASE b \notin InItems(s)
        <3>1. PICK t \in Periods : OverSettlement(t) /\ b \in InItems(t)
            BY <1>1, <2>2 DEF PaidInOne
        <3>2. QED
            BY <1>3, <3>1
    <2>3. QED
        BY <2>1, <2>2
<1>8. NetIsTheDifference'
    BY <1>2 DEF NetIsTheDifference, Due, Owed
<1>9. payable' = payable - Due(items) /\ receivable' = receivable - Owed(items)
    <2> DEFINE x == Due(items)
               y == Owed(items)
               net == settlement[s].net
    <2>1. x \in Int /\ y \in Int
        BY <1>1, DueIsSum
    <2>2. net = x - y
        BY DEF NetIsTheDifference
    <2>3. /\ payable' = payable - Lesser(x, y) - (IF net > 0 THEN net ELSE 0)
          /\ receivable' = receivable - Lesser(x, y) - (IF net < 0 THEN -net ELSE 0)
        BY DEF MarkPaid, Netted
    <2>4. payable \in Int /\ receivable \in Int
        BY DEF SettlementsTypeOK
    <2> HIDE DEF x, y, net
    <2>5. payable' = payable - x /\ receivable' = receivable - y
        BY <2>1, <2>2, <2>3, <2>4 DEF Lesser
    <2>6. QED
        BY <2>5 DEF x, y
<1>10. ClaimsAreCovered'
    <2>1. PICK c \in [Sales -> Nat] : Claims(c)
        BY DEF ClaimsAreCovered
    <2>2. PICK d \in [Sales -> Nat] : \A b \in Sales : d[b] = IF b \in InItems(s) THEN 0 ELSE c[b]
        <3> DEFINE e == [b \in Sales |-> IF b \in InItems(s) THEN 0 ELSE c[b]]
        <3>1. e \in [Sales -> Nat] /\ \A b \in Sales : e[b] = IF b \in InItems(s) THEN 0 ELSE c[b]
            BY <2>1
        <3>2. QED
            BY <3>1
    <2>3. \A b \in Sales : c[b] \in Nat /\ d[b] \in Nat
        BY <2>1, <2>2
    <2>4. \A b \in Sales : /\ PaysOut(items)[b] \in Int /\ d[b] + PaysOut(items)[b] <= c[b]
                           /\ Charges(items)[b] \in Int /\ d[b] + Charges(items)[b] <= c[b]
        <3> SUFFICES ASSUME NEW b \in Sales
                     PROVE  /\ PaysOut(items)[b] \in Int /\ d[b] + PaysOut(items)[b] <= c[b]
                            /\ Charges(items)[b] \in Int /\ d[b] + Charges(items)[b] <= c[b]
            OBVIOUS
        <3> DEFINE i == items[b].due
                   j == items[b].frozen
        <3>1. /\ i \in Nat /\ j \in Nat
              /\ PaysOut(items)[b] = i - j /\ Charges(items)[b] = i
            BY <1>1, DueIsSum
        <3>2. c[b] \in Nat /\ d[b] = IF b \in InItems(s) THEN 0 ELSE c[b]
            BY <2>2, <2>3
        <3>3. b \in InItems(s) => i <= c[b]
            BY <1>3, <2>1 DEF Claims
        <3>4. b \notin InItems(s) => i = 0
            BY DEF NoStrayItem, NoItem
        <3> HIDE DEF i, j
        <3>5. QED
            BY <3>1, <3>2, <3>3, <3>4
    <2>5. /\ IsFiniteSet(Electronic) /\ IsFiniteSet(Sales \ Electronic)
          /\ Due(items) = SumFunctionOnSet(PaysOut(items), Electronic)
          /\ Owed(items) = SumFunctionOnSet(Charges(items), Sales \ Electronic)
          /\ Due(items) \in Int /\ Owed(items) \in Int
          /\ Electronic \subseteq Sales /\ Sales \ Electronic \subseteq Sales
        BY <1>1, DueIsSum, SettlementsAssumption
    <2> HIDE DEF items
    <2>6. /\ SumFunctionOnSet(d, Electronic) + Due(items) <= SumFunctionOnSet(c, Electronic)
          /\ SumFunctionOnSet(d, Electronic) \in Int /\ SumFunctionOnSet(c, Electronic) \in Int
        <3>1. \A b \in Electronic : /\ d[b] \in Int /\ c[b] \in Int /\ PaysOut(items)[b] \in Int
                                    /\ d[b] + PaysOut(items)[b] <= c[b]
            BY <2>3, <2>4, <2>5
        <3>2. QED
            BY <2>5, <3>1, SumsWithin, SumInt
    <2>7. /\ SumFunctionOnSet(d, Sales \ Electronic) + Owed(items) <= SumFunctionOnSet(c, Sales \ Electronic)
          /\ SumFunctionOnSet(d, Sales \ Electronic) \in Int
          /\ SumFunctionOnSet(c, Sales \ Electronic) \in Int
        <3>1. \A b \in Sales \ Electronic : /\ d[b] \in Int /\ c[b] \in Int /\ Charges(items)[b] \in Int
                                            /\ d[b] + Charges(items)[b] <= c[b]
            BY <2>3, <2>4
        <3>2. QED
            BY <2>5, <3>1, SumsWithin, SumInt
    <2>8. /\ SumFunctionOnSet(d, Electronic) <= payable'
          /\ SumFunctionOnSet(d, Sales \ Electronic) <= receivable'
        <3>1. /\ SumFunctionOnSet(c, Electronic) <= payable /\ payable \in Int
              /\ SumFunctionOnSet(c, Sales \ Electronic) <= receivable /\ receivable \in Int
            BY <2>1 DEF Claims, SettlementsTypeOK
        <3>2. QED
            BY <1>9, <2>5, <2>6, <2>7, <3>1
    <2>9. \A b \in Sales : com'[b] = "earned" => ItemOf(b)'.due <= d[b]
        BY <1>1, <1>4, <2>1, <2>2 DEF Claims
    <2>10. \A t \in Periods, b \in Sales :
               b \in InItems(t)' /\ OpenSettlement(t)' => settlement'[t].items[b].due <= d[b]
        <3> SUFFICES ASSUME NEW t \in Periods, NEW b \in Sales, b \in InItems(t), OpenSettlement(t)'
                     PROVE  settlement'[t].items[b].due <= d[b]
            BY <1>3
        <3>1. t # s /\ b \notin InItems(s)
            BY <1>3 DEF ItemsAreOfOne
        <3>2. QED
            BY <1>2, <1>3, <2>1, <2>2, <3>1 DEF Claims
    <2>11. Claims(d)'
        BY <2>2, <2>8, <2>9, <2>10 DEF Claims
    <2>12. QED
        BY <2>11 DEF ClaimsAreCovered
<1>11. QED
    BY <1>5, <1>6, <1>7, <1>8, <1>10

(* Every step of the money, of the disputes and of the payout account.     *)
LEMMA MoneyNext ==
    ASSUME SettlementsTypeOK, SettlementsTypeOK', MoneyInv, [SettlementsNext]_sVars
    PROVE  MoneyInv'
<1>1. \A b \in Sales : ItemOf(b).due \in Nat /\ ItemOf(b)'.due \in Nat
    <2>1. \A b \in Sales : ItemOf(b).due \in Nat
        BY AmountsAreNat DEF Item
    <2>2. \A b \in Sales : ItemOf(b)'.due \in Nat
        <3> SUFFICES ASSUME NEW b \in Sales PROVE ItemOf(b)'.due \in Nat
            OBVIOUS
        <3>1. RecognisedGross(b)' \in Nat
            BY SettlementsAssumption DEF SettlementsTypeOK, RecognisedGross
        <3>2. CutOf(b)' \in Nat /\ CutOf(b)' <= RecognisedGross(b)'
            BY <3>1, SettlementsAssumption DEF CutOf, Lesser
        <3>3. Net(b)' \in Nat
            BY <3>1, <3>2 DEF Net
        <3>4. QED
            BY <3>2, <3>3 DEF ItemOf
    <2>3. QED
        BY <2>1, <2>2
<1>2. ASSUME UNCHANGED <<com, payable, receivable, settlement>>, returned' = returned
      PROVE  MoneyInv'
    <2>1. \A b \in Sales : ItemOf(b)'.due = ItemOf(b).due
        BY <1>2 DEF ItemOf, Net, CutOf, RecognisedGross
    <2>2. \A b \in Sales : ItemOf(b)'.due <= ItemOf(b).due
        BY <1>1, <2>1
    <2>3. QED
        BY <1>1, <1>2, <2>2, MoneyFrame DEF OpenSettlement, OverSettlement
<1>3. ASSUME NEW b \in Sales,
             \/ OpenDispute(b) \/ AssignOffice(b) \/ OfficeResponds(b) \/ Appeal(b)
             \/ AppealTimeEnds(b) \/ CloseNoAppeal(b)
             \/ \E x \in {-1, 0, 1} : Decide(b, x) \/ DecideAppeal(b, x)
      PROVE  MoneyInv'
    BY <1>2, <1>3 DEF OpenDispute, AssignOffice, OfficeResponds, Appeal, AppealTimeEnds,
       CloseNoAppeal, Decide, DecideAppeal, DisputeStep, moneyVars
<1>4. ASSUME PayoutAccountChanges \/ UNCHANGED sVars PROVE MoneyInv'
    BY <1>2, <1>4 DEF PayoutAccountChanges, sVars, moneyVars
<1>5. ASSUME NEW b \in Sales, Recognise(b) PROVE MoneyInv'
    BY <1>5, RecogniseKeepsMoney
<1>6. ASSUME NEW b \in Sales, RefundLater(b) PROVE MoneyInv'
    <2>1. UNCHANGED <<com, settlement, payable, receivable>>
        BY <1>6 DEF RefundLater, moneyVars
    <2>2. \A a \in Sales : ItemOf(a)'.due <= ItemOf(a).due
        <3> SUFFICES ASSUME NEW a \in Sales PROVE ItemOf(a)'.due <= ItemOf(a).due
            OBVIOUS
        <3>1. /\ returned[a] \in Nat /\ returned'[a] \in Nat /\ Gross[a] \in Nat /\ Cut[a] \in Nat
              /\ returned[a] <= Gross[a] /\ returned'[a] <= Gross[a]
            BY SettlementsAssumption DEF SettlementsTypeOK
        <3>2. returned[a] <= returned'[a]
            BY <1>6, <3>1 DEF RefundLater, SettlementsTypeOK
        <3>3. /\ CutOf(a)' <= CutOf(a) /\ Net(a)' <= Net(a)
            BY <3>1, <3>2 DEF CutOf, Net, RecognisedGross, Lesser
        <3>4. QED
            BY <3>3 DEF ItemOf
    <2>3. QED
        BY <1>1, <2>1, <2>2, MoneyFrame DEF OpenSettlement, OverSettlement
<1>7. ASSUME NEW s \in Periods, Calculate(s) PROVE MoneyInv'
    BY <1>7, CalculateKeepsMoney
<1>8. ASSUME NEW s \in Periods, MarkPaid(s) PROVE MoneyInv'
    BY <1>8, MarkPaidKeepsMoney
<1>9. ASSUME NEW s \in Periods,
             \/ CreateSettlement(s) \/ SubmitReview(s) \/ ApproveSettlement(s)
             \/ ProcessSettlement(s) \/ CloseSettlement(s)
      PROVE  MoneyInv'
    <2>1. PICK from, to : /\ Steps(s, from, to)
                          /\ \/ from = "none" /\ to = "draft"
                             \/ from = "calculated" /\ to = "under_review"
                             \/ from = "under_review" /\ to = "approved"
                             \/ from = "approved" /\ to = "processing"
                             \/ from = "paid" /\ to = "closed"
        BY <1>9, Zenon DEF CreateSettlement, SubmitReview, ApproveSettlement, ProcessSettlement,
           CloseSettlement
    <2>2. \A t \in Periods : /\ settlement'[t].items = settlement[t].items
                             /\ settlement'[t].net = settlement[t].net
                             /\ settlement'[t].st = IF t = s THEN to ELSE settlement[t].st
        BY <2>1 DEF Steps, SettlementsTypeOK
    <2>3. UNCHANGED <<com, payable, receivable>> /\ returned' = returned /\ settlement[s].st = from
        BY <2>1 DEF Steps
    <2>4. \A b \in Sales : ItemOf(b)'.due <= ItemOf(b).due
        <3>1. \A b \in Sales : ItemOf(b)'.due = ItemOf(b).due
            BY <2>3 DEF ItemOf, Net, CutOf, RecognisedGross
        <3>2. QED
            BY <1>1, <3>1
    <2>5. \A t \in Periods : /\ OpenSettlement(t)' <=> OpenSettlement(t)
                             /\ OverSettlement(t)' <=> OverSettlement(t)
        BY <2>1, <2>2, <2>3 DEF OpenSettlement, OverSettlement
    <2>6. QED
        BY <1>1, <2>2, <2>3, <2>4, <2>5, MoneyFrame
<1>10. QED
    BY <1>3, <1>4, <1>5, <1>6, <1>7, <1>8, <1>9 DEF SettlementsNext

-----------------------------------------------------------------------------
(* Theorems *)

(* The invariant always holds.                                             *)
LEMMA SettlementsInvAlways == SettlementsSpec => []SettlementsInv
<1>1. SettlementsInv /\ [SettlementsNext]_sVars => SettlementsInv'
    BY SettlementsTypeNext, EffectsNext, MoneyNext DEF SettlementsInv
<1>2. QED
    BY <1>1, SettlementsInvInit, PTL DEF SettlementsSpec

(* Amounts due stay natural numbers, refunds stay within what was paid.    *)
THEOREM SettlementsTypeCorrect == SettlementsSpec => []SettlementsTypeOK
<1>1. SettlementsInv => SettlementsTypeOK
    BY DEF SettlementsInv
<1>2. QED
    BY <1>1, SettlementsInvAlways, PTL

(* However the periods of settlements overlap, are calculated again and    *)
(* paid while bookings are recognised, refunded and disputed: the office   *)
(* is paid and charged no more than was recognised, a commission is paid   *)
(* in exactly one settlement, and of a dispute the last decision counts.   *)
THEOREM NothingIsSettledTwice == SettlementsSpec => []SettledOnce
<1>1. SettlementsInv => SettledOnce
    <2> SUFFICES ASSUME SettlementsInv PROVE SettledOnce
        OBVIOUS
    <2> USE DEF SettlementsInv, MoneyInv
    <2>1. OwedOnce
        <3>1. PICK c \in [Sales -> Nat] : Claims(c)
            BY DEF ClaimsAreCovered
        <3>2. SumFunctionOnSet(c, Electronic) \in Nat /\ SumFunctionOnSet(c, Sales \ Electronic) \in Nat
            <4>1. /\ IsFiniteSet(Electronic) /\ \A b \in Electronic : c[b] \in Nat
                  /\ IsFiniteSet(Sales \ Electronic) /\ \A b \in Sales \ Electronic : c[b] \in Nat
                BY SettlementsAssumption, FS_Subset
            <4>2. QED
                BY <4>1, SumNat
        <3>3. /\ SumFunctionOnSet(c, Electronic) <= payable
              /\ SumFunctionOnSet(c, Sales \ Electronic) <= receivable
            BY <3>1 DEF Claims
        <3>4. QED
            BY <3>2, <3>3 DEF OwedOnce, SettlementsTypeOK
    <2>2. PaidIsSettled
        <3> SUFFICES ASSUME NEW b \in Sales, com[b] = "paid"
                     PROVE  /\ \E s \in Periods : settlement[s].st \in {"paid", "closed"} /\ b \in InItems(s)
                            /\ Cardinality({s \in Periods : b \in InItems(s)}) = 1
            BY DEF PaidIsSettled
        <3>1. PICK s \in Periods : OverSettlement(s) /\ b \in InItems(s)
            BY DEF PaidInOne
        <3>2. {t \in Periods : b \in InItems(t)} = {s}
            BY <3>1 DEF ItemsAreOfOne
        <3>3. QED
            BY <3>1, <3>2, FS_Singleton DEF OverSettlement
    <2>3. QED
        BY <2>1, <2>2 DEF SettledOnce
<1>2. QED
    BY <1>1, SettlementsInvAlways, PTL
=============================================================================
