--------------------------- MODULE Refunds_proofs ---------------------------
(***************************************************************************)
(* What holds of Refunds for any number of passengers, any fare and any    *)
(* percentages of the cancellation policy.                                 *)
(***************************************************************************)
EXTENDS Refunds, Sums, TLAPS

-----------------------------------------------------------------------------
(* Sums over the refunds of some passengers *)

RefundRow == [st : RefundStatus, asked : Nat, approved : Nat]
InOf(r, sts) == {p \in Travellers : r[p].st \in sts}
AskedOf(r, ps) == SumFunction([p \in ps |-> r[p].asked])
ApprovedOf(r, ps) == SumFunction([p \in ps |-> r[p].approved])

(* The sums of the module, as functions of the refunds.                    *)
LEMMA SumsAreOf ==
    /\ \A sts : In(sts) = InOf(refund, sts)
    /\ \A ps : Asked(ps) = AskedOf(refund, ps) /\ Approved(ps) = ApprovedOf(refund, ps)
BY DEF In, InOf, Asked, AskedOf, Approved, ApprovedOf

(* The same after a step.                                                  *)
LEMMA SumsAreOfNext ==
    /\ \A sts : In(sts)' = InOf(refund', sts)
    /\ \A ps : Asked(ps)' = AskedOf(refund', ps) /\ Approved(ps)' = ApprovedOf(refund', ps)
BY DEF In, InOf, Asked, AskedOf, Approved, ApprovedOf

(* The sum of the amounts of some passengers, as a sum over one function.  *)
Amounts(r, part) == [p \in Travellers |-> IF part = "asked" THEN r[p].asked ELSE r[p].approved]

(* The sums, as sums over the amounts of all passengers.                   *)
LEMMA OfIsSum ==
    ASSUME NEW r \in [Travellers -> RefundRow], NEW ps \in SUBSET Travellers
    PROVE  /\ AskedOf(r, ps) = SumFunctionOnSet(Amounts(r, "asked"), ps)
           /\ ApprovedOf(r, ps) = SumFunctionOnSet(Amounts(r, "approved"), ps)
           /\ \A p \in Travellers : /\ Amounts(r, "asked")[p] = r[p].asked /\ r[p].asked \in Nat
                                    /\ Amounts(r, "approved")[p] = r[p].approved /\ r[p].approved \in Nat
           /\ IsFiniteSet(ps)
<1>1. \A p \in Travellers : /\ Amounts(r, "asked")[p] = r[p].asked /\ r[p].asked \in Nat
                            /\ Amounts(r, "approved")[p] = r[p].approved /\ r[p].approved \in Nat
    BY DEF Amounts, RefundRow
<1>2. IsFiniteSet(ps)
    BY RefundsAssumption, FS_Subset
<1> DEFINE a == [p \in ps |-> r[p].asked]
           b == [p \in ps |-> r[p].approved]
<1>3. /\ DOMAIN a = ps /\ \A p \in ps : a[p] = r[p].asked
      /\ DOMAIN b = ps /\ \A p \in ps : b[p] = r[p].approved
    OBVIOUS
<1> HIDE DEF a, b
<1>4. /\ SumFunctionOnSet(a, ps) = SumFunctionOnSet(Amounts(r, "asked"), ps)
      /\ SumFunctionOnSet(b, ps) = SumFunctionOnSet(Amounts(r, "approved"), ps)
    BY <1>1, <1>2, <1>3, SumAgrees
<1>5. /\ AskedOf(r, ps) = SumFunctionOnSet(a, ps)
      /\ ApprovedOf(r, ps) = SumFunctionOnSet(b, ps)
    BY <1>3 DEF AskedOf, ApprovedOf, SumFunction, a, b
<1>6. QED
    BY <1>1, <1>2, <1>4, <1>5

(* They are natural numbers, and of some no more than of all.              *)
LEMMA OfIsNat ==
    ASSUME NEW r \in [Travellers -> RefundRow], NEW ps \in SUBSET Travellers
    PROVE  /\ AskedOf(r, ps) \in Nat /\ ApprovedOf(r, ps) \in Nat
           /\ AskedOf(r, ps) <= AskedOf(r, Travellers)
<1>1. IsFiniteSet(Travellers) /\ Travellers \in SUBSET Travellers
    BY RefundsAssumption
<1>2. \A p \in Travellers : Amounts(r, "asked")[p] \in Nat /\ Amounts(r, "approved")[p] \in Nat
    BY OfIsSum
<1>3. /\ SumFunctionOnSet(Amounts(r, "asked"), ps) \in Nat
      /\ SumFunctionOnSet(Amounts(r, "approved"), ps) \in Nat
    BY <1>2, SumNat, OfIsSum
<1>4. SumFunctionOnSet(Amounts(r, "asked"), ps) <= SumFunctionOnSet(Amounts(r, "asked"), Travellers)
    BY <1>1, <1>2, SumNat
<1>5. QED
    BY <1>1, <1>3, <1>4, OfIsSum

(* The sums see nothing but the amounts.                                   *)
LEMMA OfAgrees ==
    ASSUME NEW r \in [Travellers -> RefundRow], NEW q \in [Travellers -> RefundRow],
           NEW ps \in SUBSET Travellers
    PROVE  /\ (\A p \in ps : q[p].asked = r[p].asked) => AskedOf(q, ps) = AskedOf(r, ps)
           /\ (\A p \in ps : q[p].approved = r[p].approved) => ApprovedOf(q, ps) = ApprovedOf(r, ps)
<1>1. IsFiniteSet(ps)
    BY RefundsAssumption, FS_Subset
<1>2. ASSUME \A p \in ps : q[p].asked = r[p].asked
      PROVE  SumFunctionOnSet(Amounts(q, "asked"), ps) = SumFunctionOnSet(Amounts(r, "asked"), ps)
    BY <1>1, <1>2, SumAgrees, OfIsSum
<1>3. ASSUME \A p \in ps : q[p].approved = r[p].approved
      PROVE  SumFunctionOnSet(Amounts(q, "approved"), ps) = SumFunctionOnSet(Amounts(r, "approved"), ps)
    BY <1>1, <1>3, SumAgrees, OfIsSum
<1>4. QED
    BY <1>2, <1>3, OfIsSum

(* One more passenger adds what is approved of theirs.                     *)
LEMMA ApprovedOfOneMore ==
    ASSUME NEW r \in [Travellers -> RefundRow], NEW ps \in SUBSET Travellers,
           NEW p \in Travellers, p \notin ps
    PROVE  ApprovedOf(r, ps \cup {p}) = r[p].approved + ApprovedOf(r, ps)
<1> DEFINE f == Amounts(r, "approved")
<1>1. \A u \in Travellers : f[u] \in Int /\ f[u] = r[u].approved
    BY OfIsSum
<1>2. IsFiniteSet(ps)
    BY OfIsSum
<1>3. SumFunctionOnSet(f, ps \cup {p}) = f[p] + SumFunctionOnSet(f, ps)
    <2> HIDE DEF f
    <2>1. QED
        BY <1>1, <1>2, SumAdd
<1>4. ps \cup {p} \in SUBSET Travellers
    OBVIOUS
<1>5. QED
    BY <1>1, <1>3, <1>4, OfIsSum

(* What is approved of all passengers is within what all of them asked.    *)
LEMMA ApprovedOfWithinAsked ==
    ASSUME NEW r \in [Travellers -> RefundRow], \A p \in Travellers : r[p].approved <= r[p].asked,
           NEW ps \in SUBSET Travellers
    PROVE  ApprovedOf(r, ps) <= AskedOf(r, Travellers)
<1>1. ApprovedOf(r, ps) <= AskedOf(r, ps)
    <2>1. SumFunctionOnSet(Amounts(r, "approved"), ps) <= SumFunctionOnSet(Amounts(r, "asked"), ps)
        BY SumOrdered, OfIsSum
    <2>2. QED
        BY <2>1, OfIsSum
<1>2. QED
    BY <1>1, OfIsNat

(* Some passengers who had asked for nothing ask for at most c each.       *)
LEMMA AskedOfMore ==
    ASSUME NEW r \in [Travellers -> RefundRow], NEW q \in [Travellers -> RefundRow],
           NEW ps \in SUBSET Travellers, NEW c \in Nat,
           \A p \in Travellers \ ps : q[p].asked = r[p].asked,
           \A p \in ps : r[p].asked = 0 /\ q[p].asked <= c
    PROVE  AskedOf(q, Travellers) <= AskedOf(r, Travellers) + c * Cardinality(ps)
<1> DEFINE rest == Travellers \ ps
           old == Amounts(r, "asked")
           new == Amounts(q, "asked")
<1>1. /\ rest \in SUBSET Travellers /\ ps \cup rest = Travellers /\ ps \cap rest = {}
      /\ IsFiniteSet(ps) /\ IsFiniteSet(rest) /\ IsFiniteSet(Travellers)
    BY RefundsAssumption, FS_Subset
<1>2. \A p \in Travellers : /\ old[p] \in Nat /\ new[p] \in Nat
                            /\ old[p] = r[p].asked /\ new[p] = q[p].asked
    BY OfIsSum
<1>3. /\ Travellers \in SUBSET Travellers
      /\ AskedOf(q, Travellers) = SumFunctionOnSet(new, Travellers)
      /\ AskedOf(r, Travellers) = SumFunctionOnSet(old, Travellers)
    BY OfIsSum
<1> HIDE DEF old, new
<1>4. SumFunctionOnSet(new, Travellers) = SumFunctionOnSet(new, ps) + SumFunctionOnSet(new, rest)
    <2> HIDE DEF rest
    <2>1. SumFunctionOnSet(new, ps \cup rest) = SumFunctionOnSet(new, ps) + SumFunctionOnSet(new, rest)
        BY <1>1, <1>2, SumDisjoint
    <2>2. QED
        BY <1>1, <2>1
<1>5. SumFunctionOnSet(new, ps) <= c * Cardinality(ps)
    BY <1>1, <1>2, SumBounded
<1>6. SumFunctionOnSet(new, rest) = SumFunctionOnSet(old, rest)
    BY <1>1, <1>2, SumAgrees
<1>7. SumFunctionOnSet(old, rest) <= SumFunctionOnSet(old, Travellers)
    BY <1>1, <1>2, SumNat
<1>8. /\ SumFunctionOnSet(new, ps) \in Nat /\ SumFunctionOnSet(new, rest) \in Nat
      /\ SumFunctionOnSet(old, Travellers) \in Nat /\ SumFunctionOnSet(old, rest) \in Nat
    <2>1. \A p \in ps : new[p] \in Nat
        BY <1>2
    <2>2. \A p \in rest : new[p] \in Nat /\ old[p] \in Nat
        BY <1>2
    <2>3. QED
        BY <1>1, <1>2, <2>1, <2>2, SumNat
<1>9. Cardinality(ps) \in Nat
    BY <1>1, FS_CardinalityType
<1> DEFINE m == c * Cardinality(ps)
           n == SumFunctionOnSet(new, ps)
           s == SumFunctionOnSet(old, rest)
           t == SumFunctionOnSet(old, Travellers)
<1>10. m \in Nat
    BY <1>9
<1>11. n + s <= t + m
    <2>1. n \in Nat /\ s \in Nat /\ t \in Nat /\ n <= m /\ s <= t
        BY <1>5, <1>7, <1>8
    <2> HIDE DEF m, n, s, t
    <2>2. QED
        BY <1>10, <2>1
<1>12. QED
    BY <1>3, <1>4, <1>6, <1>11

-----------------------------------------------------------------------------
(* The inductive invariant *)

(* A passenger who travels has asked for nothing, so that what they paid   *)
(* is still to be had when they cancel.                                    *)
ActiveAskNothing == \A p \in active : refund[p] = NoRefund
TotalIsTheirs == total = Worth(active)
NothingBeforePayment ==
    /\ stage = "awaiting_payment" => paidBy = "none"
    /\ paidBy = "none" => /\ paid = 0 /\ \A p \in Travellers : refund[p] = NoRefund
                          /\ account["psp"] = 0 /\ account["custody"] = 0
ApprovedWithinAsked == \A p \in Travellers : refund[p].approved <= refund[p].asked
(* What was asked for and what those who travel paid do not overlap.       *)
AskedWithinPaid == paidBy # "none" => AskedOf(refund, Travellers) + Worth(active) <= paid
RefundedIsTheSum == refunded = ApprovedOf(refund, InOf(refund, {"succeeded"}))
EarnedAtTheEnd == fee.st = "earned" => ride = "completed"
Owing == {"approved", "processing", "failed"}
OwesThem == account["refund_payable"] = -ApprovedOf(refund, InOf(refund, Owing))
AtHand == fee.st # "earned" /\ paidBy # "none" => account[Till(paidBy)] = paid - refunded

RefundsInv ==
    /\ RefundsTypeOK
    /\ ActiveAskNothing /\ TotalIsTheirs /\ NothingBeforePayment /\ ApprovedWithinAsked
    /\ AskedWithinPaid /\ RefundedIsTheSum /\ EarnedAtTheEnd /\ OwesThem /\ AtHand

(* The fare of some passengers.                                            *)
LEMMA WorthIsNat ==
    ASSUME NEW ps \in SUBSET Travellers
    PROVE  /\ IsFiniteSet(ps) /\ Cardinality(ps) \in Nat /\ Worth(ps) \in Nat
           /\ ps # {} => Worth(ps) # 0 /\ Cardinality(ps) # 0
<1>1. IsFiniteSet(ps)
    BY RefundsAssumption, FS_Subset
<1>2. Cardinality(ps) \in Nat /\ (ps # {} => Cardinality(ps) # 0)
    BY <1>1, FS_CardinalityType, FS_EmptySet
<1>3. QED
    <2> DEFINE n == Cardinality(ps)
    <2> HIDE DEF n
    <2>1. \A m \in Nat : Fare * m \in Nat /\ (m # 0 => Fare * m # 0)
        BY RefundsAssumption
    <2>2. QED
        BY <1>1, <1>2, <2>1 DEF Worth, n

(* Nobody asked for anything: the sums are nothing.                        *)
LEMMA NoRefundNoSum ==
    ASSUME NEW r \in [Travellers -> RefundRow], NEW ps \in SUBSET Travellers,
           \A p \in Travellers : r[p] = NoRefund
    PROVE  AskedOf(r, ps) = 0 /\ ApprovedOf(r, ps) = 0
<1>1. \A p \in ps : r[p].asked = 0 /\ r[p].approved = 0
    BY DEF NoRefund
<1>2. IsFiniteSet(ps) /\ Cardinality(ps) \in Nat
    BY WorthIsNat
<1>3. /\ SumFunctionOnSet(Amounts(r, "asked"), ps) <= 0 * Cardinality(ps)
      /\ SumFunctionOnSet(Amounts(r, "approved"), ps) <= 0 * Cardinality(ps)
    BY <1>1, <1>2, SumBounded, OfIsSum
<1>4. AskedOf(r, ps) \in Nat /\ ApprovedOf(r, ps) \in Nat
    BY OfIsNat
<1>5. /\ SumFunctionOnSet(Amounts(r, "asked"), ps) = AskedOf(r, ps)
      /\ SumFunctionOnSet(Amounts(r, "approved"), ps) = ApprovedOf(r, ps)
    BY OfIsSum
<1>6. QED
    BY <1>2, <1>3, <1>4, <1>5

(* The invariant holds at first: nothing is paid and nobody asks.          *)
LEMMA RefundsInvInit == RefundsInit => RefundsInv
<1> SUFFICES ASSUME RefundsInit PROVE RefundsInv
    OBVIOUS
<1>1. Travellers \in SUBSET Travellers /\ \A sts : InOf(refund, sts) \in SUBSET Travellers
    BY DEF InOf
<1>2. Worth(Travellers) \in Nat
    BY <1>1, WorthIsNat
<1>3. RefundsTypeOK
    <2>1. total \in Nat /\ Commission(total) \in Nat
        BY <1>2 DEF RefundsInit, Commission
    <2>2. refund \in [Travellers -> [st : RefundStatus, asked : Nat, approved : Nat]]
        BY DEF RefundsInit, NoRefund, RefundStatus
    <2>3. fee \in [st : FeeStatus, amount : Nat]
        BY <2>1 DEF RefundsInit, FeeStatus
    <2>4. QED
        BY <2>1, <2>2, <2>3 DEF RefundsInit, RefundsTypeOK, Stage
<1>4. /\ AskedOf(refund, Travellers) = 0
      /\ \A sts : ApprovedOf(refund, InOf(refund, sts)) = 0
    <2>1. refund \in [Travellers -> RefundRow] /\ \A p \in Travellers : refund[p] = NoRefund
        BY <1>3 DEF RefundsInit, RefundsTypeOK, RefundRow
    <2>2. QED
        BY <1>1, <2>1, NoRefundNoSum
<1>5. \A p \in Travellers : refund[p] = NoRefund /\ refund[p].asked = 0 /\ refund[p].approved = 0
    BY DEF RefundsInit, NoRefund
<1>6. QED
    BY <1>3, <1>4, <1>5 DEF RefundsInit, RefundsInv, ActiveAskNothing, TotalIsTheirs,
       NothingBeforePayment, ApprovedWithinAsked, AskedWithinPaid, RefundedIsTheSum,
       EarnedAtTheEnd, OwesThem, AtHand, Accounts

-----------------------------------------------------------------------------
(* The steps *)

(* A refund changes its status and nothing else; neither side of the       *)
(* change is paid out, and both are owed or neither is.                    *)
LEMMA MoveKeepsInv ==
    ASSUME RefundsInv, NEW p \in Travellers, NEW from \in RefundStatus, NEW to \in RefundStatus,
           from \notin {"none", "succeeded"}, to \notin {"none", "succeeded"},
           from \in Owing <=> to \in Owing,
           Move(p, from, to), Keep
    PROVE  RefundsInv'
<1> USE DEF RefundsInv
<1>1. refund \in [Travellers -> RefundRow] /\ refund' \in [Travellers -> RefundRow]
    BY DEF RefundsTypeOK, Move, RefundRow
<1>2. RefundsTypeOK'
    BY <1>1 DEF RefundsTypeOK, Keep, RefundRow
<1>3. \A q \in Travellers : /\ refund'[q].asked = refund[q].asked
                            /\ refund'[q].approved = refund[q].approved
                            /\ refund'[q].st = IF q = p THEN to ELSE refund[q].st
    BY <1>1 DEF Move, RefundRow
<1>4. /\ InOf(refund', {"succeeded"}) = InOf(refund, {"succeeded"})
      /\ InOf(refund', Owing) = InOf(refund, Owing)
    BY <1>3 DEF InOf, Move
<1>5. \A ps \in SUBSET Travellers : /\ AskedOf(refund', ps) = AskedOf(refund, ps)
                                    /\ ApprovedOf(refund', ps) = ApprovedOf(refund, ps)
    BY <1>1, <1>3, OfAgrees
<1>6. refund[p] # NoRefund /\ \A q \in Travellers : q # p => refund'[q] = refund[q]
    BY <1>1 DEF Move, NoRefund
<1>7. ActiveAskNothing'
    BY <1>1, <1>6 DEF ActiveAskNothing, Keep, RefundsTypeOK
<1>8. ApprovedWithinAsked'
    BY <1>3 DEF ApprovedWithinAsked
<1>9. NothingBeforePayment'
    BY <1>6 DEF NothingBeforePayment, Keep
<1>10. AskedWithinPaid'
    BY <1>5 DEF AskedWithinPaid, Keep, Worth
<1>11. RefundedIsTheSum' /\ OwesThem'
    <2>1. InOf(refund, {"succeeded"}) \in SUBSET Travellers /\ InOf(refund, Owing) \in SUBSET Travellers
        BY DEF InOf
    <2>2. QED
        BY <1>4, <1>5, <2>1 DEF RefundedIsTheSum, OwesThem, Keep, Owing
<1>12. TotalIsTheirs' /\ EarnedAtTheEnd' /\ AtHand'
    BY DEF TotalIsTheirs, EarnedAtTheEnd, AtHand, Keep, Worth, Till
<1>13. QED
    BY <1>2, <1>7, <1>8, <1>9, <1>10, <1>11, <1>12

(* The office approves a part of what was asked for: the debt grows by it. *)
LEMMA ApproveKeepsInv ==
    ASSUME RefundsInv, NEW p \in Travellers, NEW x \in Nat, Approve(p, x)
    PROVE  RefundsInv'
<1> USE DEF RefundsInv
<1>1. /\ refund \in [Travellers -> RefundRow]
      /\ refund[p].asked \in Nat /\ x <= refund[p].asked
    <2>1. refund \in [Travellers -> RefundRow]
        BY DEF RefundsTypeOK, RefundRow
    <2>2. refund[p].asked \in Nat /\ Available(p) \in Int => x <= refund[p].asked
        BY DEF Approve, Least
    <2>3. Available(p) \in Int
        <3>1. Asked(In(OpenRefund \cup {"succeeded"}) \ {p}) \in Nat
            <4>1. In(OpenRefund \cup {"succeeded"}) \ {p} \in SUBSET Travellers
                BY DEF In
            <4>2. QED
                BY <2>1, <4>1, OfIsNat, SumsAreOf
        <3>2. QED
            BY <3>1 DEF Available, AtLeastZero, RefundsTypeOK
    <2>4. QED
        BY <2>1, <2>2, <2>3 DEF RefundRow
<1>2. \A q \in Travellers : refund'[q] = IF q = p THEN ApprovedIs(refund[p], x) ELSE refund[q]
    BY <1>1 DEF Approve
<1>3. refund' \in [Travellers -> RefundRow]
    <2>1. ApprovedIs(refund[p], x) \in RefundRow
        BY <1>1 DEF ApprovedIs, RefundRow, RefundStatus
    <2>2. QED
        BY <1>1, <2>1 DEF Approve
<1>4. \A q \in Travellers : /\ refund'[q].asked = refund[q].asked
                            /\ refund'[q].approved = IF q = p THEN x ELSE refund[q].approved
                            /\ refund'[q].st = IF q = p THEN "approved" ELSE refund[q].st
    BY <1>1, <1>2 DEF ApprovedIs, RefundRow
<1>5. /\ account' \in [Accounts -> Int]
      /\ account'["refund_payable"] = account["refund_payable"] - x
      /\ account'["psp"] = account["psp"] /\ account'["custody"] = account["custody"]
    BY DEF Approve, Post, RefundsTypeOK, Accounts
<1>6. RefundsTypeOK'
    BY <1>3, <1>5 DEF RefundsTypeOK, Approve, RefundRow
<1>7. ActiveAskNothing' /\ NothingBeforePayment'
    <2>1. refund[p] # NoRefund
        BY DEF Approve, NoRefund
    <2>2. QED
        BY <1>2, <1>5, <2>1 DEF ActiveAskNothing, NothingBeforePayment, Approve
<1>8. ApprovedWithinAsked'
    BY <1>1, <1>4 DEF ApprovedWithinAsked
<1>9. AskedWithinPaid'
    <2>1. AskedOf(refund', Travellers) = AskedOf(refund, Travellers)
        BY <1>1, <1>3, <1>4, OfAgrees
    <2>2. QED
        BY <2>1 DEF AskedWithinPaid, Approve, Worth
<1>10. RefundedIsTheSum'
    <2> DEFINE S == InOf(refund, {"succeeded"})
    <2>1. S \in SUBSET Travellers /\ p \notin S /\ InOf(refund', {"succeeded"}) = S
        BY <1>4 DEF InOf, Approve
    <2>2. ApprovedOf(refund', S) = ApprovedOf(refund, S)
        BY <1>1, <1>3, <1>4, <2>1, OfAgrees
    <2>3. QED
        BY <2>1, <2>2 DEF RefundedIsTheSum, Approve
<1>11. OwesThem'
    <2> DEFINE S == InOf(refund, Owing)
    <2>1. S \in SUBSET Travellers /\ p \notin S /\ InOf(refund', Owing) = S \cup {p}
        BY <1>4 DEF InOf, Approve, Owing
    <2>2. ApprovedOf(refund', S) = ApprovedOf(refund, S)
        BY <1>1, <1>3, <1>4, <2>1, OfAgrees
    <2>3. ApprovedOf(refund', S \cup {p}) = x + ApprovedOf(refund', S)
        BY <1>3, <1>4, <2>1, ApprovedOfOneMore
    <2>4. ApprovedOf(refund, S) \in Nat
        BY <1>1, <2>1, OfIsNat
    <2>5. account["refund_payable"] = -ApprovedOf(refund, S)
        BY DEF OwesThem
    <2>6. account'["refund_payable"] = -ApprovedOf(refund', InOf(refund', Owing))
        <3> HIDE DEF S
        <3>1. QED
            BY <1>5, <2>1, <2>2, <2>3, <2>4, <2>5
    <2>7. QED
        BY <2>6 DEF OwesThem, Owing
<1>12. TotalIsTheirs' /\ EarnedAtTheEnd' /\ AtHand'
    BY <1>5 DEF TotalIsTheirs, EarnedAtTheEnd, AtHand, Approve, Worth, Till
<1>13. QED
    BY <1>6, <1>7, <1>8, <1>9, <1>10, <1>11, <1>12

(* A refund is paid out: what is owed shrinks by what is returned, and so  *)
(* does the money at hand.                                                 *)
LEMMA SucceedKeepsInv ==
    ASSUME RefundsInv, NEW p \in Travellers, Succeed(p)
    PROVE  RefundsInv'
<1> USE DEF RefundsInv
<1> DEFINE x == refund[p].approved
           done == InOf(refund, {"succeeded"})
           owed == InOf(refund, Owing)
<1>1. /\ refund \in [Travellers -> RefundRow] /\ x \in Nat
      /\ refund[p].st = "processing" /\ refund[p] # NoRefund
    BY DEF RefundsTypeOK, RefundRow, Succeed, Move, NoRefund
<1>2. /\ refund' \in [Travellers -> RefundRow]
      /\ \A q \in Travellers : /\ refund'[q].asked = refund[q].asked
                               /\ refund'[q].approved = refund[q].approved
                               /\ refund'[q].st = IF q = p THEN "succeeded" ELSE refund[q].st
      /\ \A q \in Travellers : q # p => refund'[q] = refund[q]
    BY <1>1 DEF RefundRow, Succeed, Move, RefundStatus
<1>3. /\ paidBy \in {"electronic", "direct"} /\ paidBy' = paidBy /\ Till(paidBy) \in {"psp", "custody"}
      /\ Till(paidBy)' = Till(paidBy)
    BY <1>1 DEF NothingBeforePayment, RefundsTypeOK, Succeed, Till
<1>4. /\ account' \in [Accounts -> Int]
      /\ account'["refund_payable"] = account["refund_payable"] + x
      /\ account'[Till(paidBy)] = account[Till(paidBy)] - x
      /\ account[Till(paidBy)] \in Int /\ account["refund_payable"] \in Int
    <2>1. account' = Post(account, "refund_payable", Till(paidBy), x)
        BY DEF Succeed, PaysBack
    <2> HIDE DEF x
    <2>2. QED
        BY <1>1, <1>3, <2>1 DEF Post, RefundsTypeOK, Accounts
<1>5. refunded' = refunded + x
    BY DEF Succeed, PaysBack
<1>6. RefundsTypeOK'
    <2>1. stage' \in Stage /\ refunded' \in Nat
        BY <1>1, <1>5 DEF Succeed, RefundsTypeOK, Stage
    <2>2. QED
        BY <1>2, <1>4, <2>1 DEF RefundsTypeOK, Succeed, RefundRow
<1>7. ActiveAskNothing'
    BY <1>1, <1>2 DEF ActiveAskNothing, Succeed, RefundsTypeOK
<1>8. NothingBeforePayment'
    BY <1>3 DEF NothingBeforePayment, Succeed
<1>9. ApprovedWithinAsked'
    BY <1>2 DEF ApprovedWithinAsked
<1>10. AskedWithinPaid'
    BY <1>1, <1>2, OfAgrees DEF AskedWithinPaid, Succeed, Worth
<1>11. done \in SUBSET Travellers /\ owed \in SUBSET Travellers /\ p \notin done /\ p \in owed
    BY <1>1 DEF InOf, Owing
<1>12. RefundedIsTheSum'
    <2>1. InOf(refund', {"succeeded"}) = done \cup {p}
        BY <1>2 DEF InOf
    <2>2. ApprovedOf(refund', done \cup {p}) = x + ApprovedOf(refund', done)
        BY <1>2, <1>11, ApprovedOfOneMore
    <2>3. ApprovedOf(refund', done) = ApprovedOf(refund, done) /\ ApprovedOf(refund, done) \in Nat
        BY <1>1, <1>2, <1>11, OfAgrees, OfIsNat
    <2>4. refunded = ApprovedOf(refund, done)
        BY DEF RefundedIsTheSum
    <2>5. refunded' = ApprovedOf(refund', done \cup {p})
        <3>1. x \in Nat
            BY <1>1
        <3> HIDE DEF x, done
        <3>2. QED
            BY <3>1, <1>5, <2>2, <2>3, <2>4
    <2>6. QED
        BY <2>1, <2>5 DEF RefundedIsTheSum
<1>13. OwesThem'
    <2> DEFINE rest == owed \ {p}
    <2>1. /\ rest \in SUBSET Travellers /\ p \notin rest /\ rest \cup {p} = owed
          /\ InOf(refund', Owing) = rest
        BY <1>1, <1>2, <1>11 DEF InOf, Owing
    <2> HIDE DEF rest, owed, x
    <2>2. ApprovedOf(refund, rest \cup {p}) = x + ApprovedOf(refund, rest)
        BY <1>1, <2>1, ApprovedOfOneMore DEF x
    <2>3. ApprovedOf(refund', rest) = ApprovedOf(refund, rest) /\ ApprovedOf(refund, rest) \in Nat
        BY <1>1, <1>2, <2>1, OfAgrees, OfIsNat
    <2>4. account["refund_payable"] = -ApprovedOf(refund, owed)
        BY DEF OwesThem, owed
    <2>5. account'["refund_payable"] = -ApprovedOf(refund', rest)
        <3>1. x \in Nat /\ ApprovedOf(refund, owed) = x + ApprovedOf(refund, rest)
            BY <1>1, <2>1, <2>2 DEF x
        <3>2. account'["refund_payable"] = account["refund_payable"] + x
            BY <1>4 DEF x
        <3>3. QED
            BY <3>1, <3>2, <2>3, <2>4
    <2>6. QED
        BY <2>1, <2>5 DEF OwesThem, Owing
<1>14. AtHand'
    <2>1. paid \in Nat /\ refunded \in Nat /\ paid' = paid /\ fee' = fee
        BY DEF Succeed, RefundsTypeOK
    <2> HIDE DEF x
    <2>2. fee.st # "earned" => account'[Till(paidBy)] = paid - (refunded + x)
        BY <1>1, <1>3, <1>4, <2>1 DEF AtHand
    <2>3. QED
        BY <1>3, <1>5, <2>1, <2>2 DEF AtHand
<1>15. TotalIsTheirs' /\ EarnedAtTheEnd'
    BY DEF TotalIsTheirs, EarnedAtTheEnd, Succeed, Worth
<1>16. QED
    BY <1>6, <1>7, <1>8, <1>9, <1>10, <1>12, <1>13, <1>14, <1>15

(* Nobody has asked for anything when the money arrives.                   *)
LEMMA PayKeepsInv ==
    ASSUME RefundsInv, NEW method \in {"electronic", "direct"}, Pay(method)
    PROVE  RefundsInv'
<1> USE DEF RefundsInv
<1>1. /\ paidBy = "none" /\ paid = 0 /\ \A p \in Travellers : refund[p] = NoRefund
      /\ account["psp"] = 0 /\ account["custody"] = 0
    BY DEF Pay, NothingBeforePayment
<1>2. /\ refund \in [Travellers -> RefundRow] /\ refund' = refund /\ total \in Nat
      /\ active \in SUBSET Travellers /\ active' = active /\ total' = total
    BY DEF RefundsTypeOK, RefundRow, Pay
<1>3. refunded = 0 /\ refunded' = 0 /\ AskedOf(refund, Travellers) = 0
    <2>1. InOf(refund, {"succeeded"}) \in SUBSET Travellers /\ Travellers \in SUBSET Travellers
        BY DEF InOf
    <2>2. ApprovedOf(refund, InOf(refund, {"succeeded"})) = 0 /\ AskedOf(refund, Travellers) = 0
        BY <1>1, <1>2, <2>1, NoRefundNoSum
    <2>3. QED
        BY <2>2 DEF RefundedIsTheSum, Pay
<1>4. /\ account' \in [Accounts -> Int]
      /\ account'["refund_payable"] = account["refund_payable"]
      /\ account'[Till(method)] = total /\ paidBy' = method /\ paid' = total
    BY <1>1, <1>2 DEF Pay, Post, RefundsTypeOK, Accounts, Till
<1>5. RefundsTypeOK'
    BY <1>2, <1>4 DEF RefundsTypeOK, Pay, Stage
<1>6. ActiveAskNothing' /\ ApprovedWithinAsked' /\ NothingBeforePayment'
    BY <1>2, <1>4 DEF ActiveAskNothing, ApprovedWithinAsked, NothingBeforePayment, Pay
<1>7. AskedWithinPaid'
    BY <1>2, <1>3, <1>4, WorthIsNat DEF AskedWithinPaid, TotalIsTheirs, Worth
<1>8. RefundedIsTheSum' /\ OwesThem'
    BY <1>2, <1>3, <1>4 DEF RefundedIsTheSum, OwesThem, Owing
<1>9. AtHand'
    BY <1>2, <1>3, <1>4 DEF AtHand, Till
<1>10. TotalIsTheirs' /\ EarnedAtTheEnd'
    BY DEF TotalIsTheirs, EarnedAtTheEnd, Pay, Worth
<1>11. QED
    BY <1>5, <1>6, <1>7, <1>8, <1>9, <1>10

(* The worth of the passengers is that of those who leave and those who    *)
(* stay.                                                                   *)
LEMMA WorthSplits ==
    ASSUME NEW all \in SUBSET Travellers, NEW ps \in SUBSET all
    PROVE  Worth(all \ ps) = Worth(all) - Worth(ps)
<1> DEFINE n == Cardinality(all)
           m == Cardinality(ps)
<1>1. all \in SUBSET Travellers /\ ps \in SUBSET Travellers /\ all \cap ps = ps
    OBVIOUS
<1>2. n \in Nat /\ m \in Nat /\ IsFiniteSet(all)
    BY <1>1, WorthIsNat
<1>3. Cardinality(all \ ps) = n - m
    <2> HIDE DEF n, m
    <2>1. Cardinality(all \ ps) = Cardinality(all) - Cardinality(all \cap ps)
        BY <1>2, FS_Difference
    <2>2. QED
        BY <1>1, <2>1 DEF n, m
<1>4. \A i, j \in Nat : Fare * (i - j) = Fare * i - Fare * j
    BY RefundsAssumption
<1>5. Fare * (n - m) = Fare * n - Fare * m
    <2> HIDE DEF n, m
    <2>1. QED
        BY <1>2, <1>4
<1>6. QED
    BY <1>3, <1>5 DEF Worth

(* The quote is within what the cancelled seats cost; nothing is quoted of *)
(* a booking that is not paid.                                             *)
LEMMA QuoteIsCovered ==
    ASSUME RefundsInv, NEW ps \in SUBSET active, ps # {}, NEW percent \in Percents
    PROVE  LET share == QuoteOf(ps, percent) \div Cardinality(ps)
           IN  /\ share \in Nat /\ share * Cardinality(ps) <= Worth(ps)
               /\ paid = 0 => share = 0
<1> DEFINE n == Cardinality(ps)
           w == Worth(ps)
           u == Unspoken({})
           q == QuoteOf(ps, percent)
<1>1. /\ ps \in SUBSET Travellers /\ active \in SUBSET Travellers /\ active # {}
      /\ total \in Nat /\ paid \in Nat /\ refund \in [Travellers -> RefundRow]
    BY DEF RefundsInv, RefundsTypeOK, RefundRow
<1>2. n \in Nat \ {0} /\ w \in Nat /\ total \in Nat \ {0}
    BY <1>1, WorthIsNat DEF RefundsInv, TotalIsTheirs
<1>3. u \in Nat /\ (paid = 0 => u = 0)
    <2>1. Asked(In(OpenRefund \cup {"succeeded"}) \ {}) \in Nat
        <3>1. In(OpenRefund \cup {"succeeded"}) \ {} \in SUBSET Travellers
            BY DEF In
        <3>2. QED
            BY <1>1, <3>1, OfIsNat, SumsAreOf
    <2>2. QED
        BY <1>1, <2>1 DEF Unspoken, AtLeastZero
<1>4. percent \in 0 .. 100
    BY RefundsAssumption
<1>5. /\ (w * percent) \div 100 \in Nat /\ (w * percent) \div 100 <= w
      /\ (u * w) \div total \in Nat /\ (u = 0 => (u * w) \div total = 0)
    <2> HIDE DEF w, u
    <2>1. \A a \in Nat, p \in 0 .. 100 : (a * p) \div 100 \in Nat /\ (a * p) \div 100 <= a
        OBVIOUS
    <2>2. \A a \in Nat, c \in Nat \ {0} : a \div c \in Nat /\ 0 \div c = 0
        OBVIOUS
    <2>3. u * w \in Nat /\ (u = 0 => u * w = 0)
        BY <1>2, <1>3
    <2>4. QED
        BY <1>2, <1>4, <2>1, <2>2, <2>3
<1>6. q \in Nat /\ q <= w /\ (paid = 0 => q = 0)
    <2>1. q = Least((w * percent) \div 100, (u * w) \div total)
        BY DEF QuoteOf
    <2> HIDE DEF q, w, u
    <2>2. QED
        BY <1>2, <1>3, <1>5, <2>1 DEF Least
<1>7. q \div n \in Nat /\ (q \div n) * n <= w /\ (q = 0 => q \div n = 0)
    <2> HIDE DEF q, w, n
    <2>1. \A a \in Nat, b \in Nat \ {0} : a \div b \in Nat /\ (a \div b) * b <= a /\ 0 \div b = 0
        OBVIOUS
    <2>2. q \div n \in Nat /\ (q \div n) * n <= q /\ (q = 0 => q \div n = 0)
        BY <1>2, <1>6, <2>1
    <2> DEFINE k == (q \div n) * n
    <2>3. k \in Int
        BY <1>2, <2>2
    <2> HIDE DEF k
    <2>4. k <= w
        BY <1>2, <1>6, <2>2, <2>3 DEF k
    <2>5. QED
        BY <2>2, <2>4 DEF k
<1>8. QED
    BY <1>6, <1>7

(* Passengers who leave had asked for nothing and ask for no more than     *)
(* their seats cost.                                                       *)
LEMMA CancelKeepsInv ==
    ASSUME RefundsInv, NEW ps \in SUBSET Travellers, NEW percent \in Percents, Cancel(ps, percent)
    PROVE  RefundsInv'
<1> USE DEF RefundsInv
<1> DEFINE share == QuoteOf(ps, percent) \div Cardinality(ps)
           some == [st |-> "requested", asked |-> share, approved |-> 0]
<1>1. /\ ps \in SUBSET active /\ ps # {} /\ active \in SUBSET Travellers /\ active' = active \ ps
      /\ refund \in [Travellers -> RefundRow]
    BY DEF Cancel, RefundsTypeOK, RefundRow
<1>2. share \in Nat /\ share * Cardinality(ps) <= Worth(ps) /\ (paid = 0 => share = 0)
    BY <1>1, QuoteIsCovered
<1>3. /\ \A p \in Travellers : refund'[p] = IF p \in ps /\ share > 0 THEN some ELSE refund[p]
      /\ refund' \in [Travellers -> RefundRow]
    <2>1. refund' = [p \in Travellers |-> IF p \in ps /\ share > 0 THEN some ELSE refund[p]]
        BY DEF Cancel
    <2>2. some \in RefundRow
        BY <1>2 DEF RefundRow, RefundStatus
    <2> HIDE DEF some, share
    <2>3. QED
        BY <1>1, <2>1, <2>2
<1>4. /\ Worth(active \ ps) = total - Worth(ps) /\ Worth(active \ ps) \in Nat
      /\ Worth(ps) \in Nat /\ Worth(active) = total
    BY <1>1, WorthSplits, WorthIsNat DEF TotalIsTheirs
<1>5. total' = Worth(active') /\ total' \in Nat
    BY <1>1, <1>4 DEF Cancel, Worth
<1>6. fee' \in [st : FeeStatus, amount : Nat] /\ fee'.st # "earned"
    <2>1. fee' = AdjustedFee(total')
        BY DEF Cancel
    <2>2. QED
        BY <1>5, <2>1 DEF AdjustedFee, Commission, FeeStatus
<1>7. stage' \in {stage, "cancellation_pending", "cancelled"}
    BY DEF Cancel
<1>8. RefundsTypeOK'
    BY <1>1, <1>3, <1>5, <1>6, <1>7 DEF RefundsTypeOK, Cancel, RefundRow, Stage
<1>9. /\ \A p \in ps : /\ refund[p].st = "none" /\ refund[p].asked = 0 /\ refund[p].approved = 0
                       /\ refund'[p].asked <= share /\ refund'[p].approved = 0
                       /\ refund'[p].st \in {"none", "requested"}
      /\ \A p \in Travellers \ ps : refund'[p] = refund[p]
    BY <1>1, <1>2, <1>3 DEF ActiveAskNothing, NoRefund
<1>10. ActiveAskNothing'
    BY <1>1, <1>9 DEF ActiveAskNothing
<1>11. TotalIsTheirs'
    BY <1>5 DEF TotalIsTheirs
<1>12. NothingBeforePayment'
    BY <1>2, <1>3, <1>7 DEF NothingBeforePayment, Cancel
<1>13. ApprovedWithinAsked'
    <2>1. \A p \in ps : refund'[p].asked \in Nat
        BY <1>1, <1>3 DEF RefundRow
    <2>2. QED
        BY <1>9, <2>1 DEF ApprovedWithinAsked
<1>14. AskedWithinPaid'
    <2> DEFINE a == AskedOf(refund, Travellers)
               b == AskedOf(refund', Travellers)
               c == share * Cardinality(ps)
    <2>1. b <= a + c
        <3> HIDE DEF share, some
        <3>1. QED
            BY <1>1, <1>2, <1>3, <1>9, AskedOfMore
    <2>2. a \in Nat /\ b \in Nat /\ c \in Nat
        <3>1. Cardinality(ps) \in Nat /\ Travellers \in SUBSET Travellers
            BY <1>1, WorthIsNat
        <3>2. c \in Nat
            <4> HIDE DEF share
            <4>1. QED
                BY <1>2, <3>1
        <3>3. QED
            BY <1>1, <1>3, <3>1, <3>2, OfIsNat
    <2>3. paidBy # "none" => a + total <= paid
        BY <1>4 DEF AskedWithinPaid
    <2>4. c <= Worth(ps) /\ total' = total - Worth(ps) /\ paid \in Nat /\ total \in Nat
        BY <1>2 DEF Cancel, RefundsTypeOK
    <2> HIDE DEF a, b, c
    <2>5. paidBy # "none" => b + total' <= paid
        BY <1>4, <2>1, <2>2, <2>3, <2>4
    <2>6. paidBy' = paidBy /\ paid' = paid
        BY DEF Cancel
    <2>7. QED
        BY <1>5, <2>5, <2>6 DEF AskedWithinPaid, b, Worth
<1>15. \A sts : "none" \notin sts /\ "requested" \notin sts =>
           /\ InOf(refund', sts) = InOf(refund, sts) /\ InOf(refund, sts) \in SUBSET Travellers
           /\ ApprovedOf(refund', InOf(refund, sts)) = ApprovedOf(refund, InOf(refund, sts))
    <2> SUFFICES ASSUME NEW sts, "none" \notin sts, "requested" \notin sts
                 PROVE  /\ InOf(refund', sts) = InOf(refund, sts) /\ InOf(refund, sts) \in SUBSET Travellers
                        /\ ApprovedOf(refund', InOf(refund, sts)) = ApprovedOf(refund, InOf(refund, sts))
        OBVIOUS
    <2>1. InOf(refund', sts) = InOf(refund, sts) /\ InOf(refund, sts) \in SUBSET Travellers
        BY <1>9 DEF InOf
    <2>2. \A p \in Travellers : refund'[p].approved = refund[p].approved
        BY <1>9
    <2>3. QED
        BY <1>1, <1>3, <2>1, <2>2, OfAgrees
<1>16. RefundedIsTheSum' /\ OwesThem'
    BY <1>15 DEF RefundedIsTheSum, OwesThem, Cancel, Owing
<1>17. EarnedAtTheEnd' /\ AtHand'
    <2>1. fee.st # "earned"
        BY DEF EarnedAtTheEnd, Cancel
    <2>2. QED
        BY <1>6, <2>1 DEF EarnedAtTheEnd, AtHand, Cancel, Till
<1>18. QED
    BY <1>8, <1>10, <1>11, <1>12, <1>13, <1>14, <1>16, <1>17

(* The refunds and the money are left alone, the ledger up to the entries  *)
(* of the recognition at the end of the ride.                              *)
LEMMA OthersKeepInv ==
    ASSUME RefundsInv,
           \/ CancelRide \/ CompleteRide \/ Settle \/ (\E x \in {Fare, paid} : Contest(x))
           \/ UNCHANGED rVars
    PROVE  RefundsInv'
<1> USE DEF RefundsInv
<1>1. /\ refund' = refund /\ active' = active /\ total' = total /\ paid' = paid
      /\ refunded' = refunded /\ paidBy' = paidBy
    BY DEF CancelRide, CompleteRide, Settle, Contest, rVars
<1>2. \/ account' = account /\ fee' = fee
      \/ /\ ride' = "completed" /\ fee' = [fee EXCEPT !.st = "earned"]
         /\ account' = Recognised /\ paidBy # "none"
    BY DEF CancelRide, CompleteRide, Settle, Contest, rVars, NothingBeforePayment, RefundsTypeOK
<1>3. /\ account' \in [Accounts -> Int] /\ account'["refund_payable"] = account["refund_payable"]
      /\ fee' \in [st : FeeStatus, amount : Nat]
      /\ fee'.st # "earned" => fee' = fee /\ account' = account
      /\ paidBy = "none" => account' = account
    <2>1. CASE account' = account /\ fee' = fee
        BY <2>1 DEF RefundsTypeOK
    <2>2. CASE fee' = [fee EXCEPT !.st = "earned"] /\ account' = Recognised /\ paidBy # "none"
        <3> DEFINE gross == AtLeastZero(paid - refunded)
                   due == Least(fee.amount, gross)
        <3>1. gross \in Nat /\ due \in Nat /\ fee' \in [st : FeeStatus, amount : Nat] /\ fee'.st = "earned"
            BY <2>2 DEF RefundsTypeOK, AtLeastZero, Least, FeeStatus
        <3>2. account' = IF paidBy = "electronic"
                         THEN Post(Post(account, "platform_funds", "office_payable", gross - due),
                                   "platform_funds", "revenue", due)
                         ELSE Post(Post(account, "office_funds", "custody", gross),
                                   "commission_receivable", "revenue", due)
            BY <2>2 DEF Recognised
        <3> HIDE DEF gross, due
        <3>3. QED
            BY <2>2, <3>1, <3>2 DEF Post, RefundsTypeOK, Accounts
    <2>3. QED
        BY <1>2, <2>1, <2>2
<1>4. /\ ride' \in {"ahead", "completed", "cancelled"} /\ stage' \in Stage /\ contested' \in Nat
      /\ ride' = ride \/ ride = "ahead"
      /\ stage' = stage \/ stage' \in {"completed", "cancellation_pending"}
    <2>1. ASSUME NEW x \in {Fare, paid}, Contest(x) PROVE x \in Nat
        BY <2>1, RefundsAssumption DEF RefundsTypeOK
    <2>2. QED
        BY <2>1 DEF CancelRide, CompleteRide, Settle, Contest, rVars, RefundsTypeOK, Stage
<1>5. RefundsTypeOK'
    BY <1>1, <1>3, <1>4 DEF RefundsTypeOK
<1>6. NothingBeforePayment'
    BY <1>1, <1>3, <1>4 DEF NothingBeforePayment
<1>7. EarnedAtTheEnd'
    BY <1>2, <1>4 DEF EarnedAtTheEnd
<1>8. AtHand' /\ OwesThem'
    BY <1>1, <1>3 DEF AtHand, OwesThem, Owing, Till
<1>9. ActiveAskNothing' /\ TotalIsTheirs' /\ ApprovedWithinAsked' /\ AskedWithinPaid' /\ RefundedIsTheSum'
    BY <1>1 DEF ActiveAskNothing, TotalIsTheirs, ApprovedWithinAsked, AskedWithinPaid, RefundedIsTheSum, Worth
<1>10. QED
    BY <1>5, <1>6, <1>7, <1>8, <1>9

(* Every step keeps it.                                                    *)
LEMMA RefundsInvNext == RefundsInv /\ [RefundsNext]_rVars => RefundsInv'
<1> SUFFICES ASSUME RefundsInv, [RefundsNext]_rVars PROVE RefundsInv'
    OBVIOUS
<1>1. ASSUME NEW method \in {"electronic", "direct"}, Pay(method) PROVE RefundsInv'
    BY <1>1, PayKeepsInv
<1>2. ASSUME NEW ps \in SUBSET Travellers, NEW percent \in Percents, Cancel(ps, percent)
      PROVE  RefundsInv'
    BY <1>2, CancelKeepsInv
<1>3. ASSUME NEW p \in Travellers, NEW x \in 1 .. paid, Approve(p, x) PROVE RefundsInv'
    <2>1. x \in Nat
        BY DEF RefundsInv, RefundsTypeOK
    <2>2. QED
        BY <1>3, <2>1, ApproveKeepsInv
<1>4. ASSUME NEW p \in Travellers, Succeed(p) PROVE RefundsInv'
    BY <1>4, SucceedKeepsInv
<1>5. ASSUME NEW p \in Travellers,
             Review(p) \/ Reject(p) \/ Withdraw(p) \/ Process(p) \/ Fail(p) \/ Retry(p)
      PROVE  RefundsInv'
    <2>1. PICK from \in RefundStatus \ {"none", "succeeded"}, to \in RefundStatus \ {"none", "succeeded"} :
              (from \in Owing <=> to \in Owing) /\ Move(p, from, to) /\ Keep
        BY <1>5, Zenon DEF Review, Reject, Withdraw, Process, Fail, Retry, RefundStatus, Owing
    <2>2. QED
        BY <2>1, MoveKeepsInv
<1>6. ASSUME \/ CancelRide \/ CompleteRide \/ Settle \/ (\E x \in {Fare, paid} : Contest(x))
             \/ UNCHANGED rVars
      PROVE  RefundsInv'
    BY <1>6, OthersKeepInv
<1>7. QED
    BY <1>1, <1>2, <1>3, <1>4, <1>5, <1>6 DEF RefundsNext

-----------------------------------------------------------------------------
(* Theorems *)

(* So it always holds.                                                     *)
LEMMA RefundsInvAlways == RefundsSpec => []RefundsInv
<1>1. QED
    BY RefundsInvInit, RefundsInvNext, PTL DEF RefundsSpec

(* Every amount of a booking that is cancelled and refunded stays a        *)
(* natural number, the ledger accounts integers, the statuses those of the *)
(* code.                                                                   *)
THEOREM RefundsTypeCorrect == RefundsSpec => []RefundsTypeOK
<1>1. RefundsInv => RefundsTypeOK
    BY DEF RefundsInv
<1>2. QED
    BY <1>1, RefundsInvAlways, PTL

(* However cancellations, approvals, failures, retries and chargebacks     *)
(* interleave: no more goes back than was paid, and the ledger owes the    *)
(* refunds that are approved and not paid out, for any number of           *)
(* passengers, any fare and any policy.                                    *)
THEOREM RefundsStayCovered == RefundsSpec => []RefundsAreCovered
<1>1. RefundsInv => RefundsAreCovered
    <2> SUFFICES ASSUME RefundsInv PROVE RefundsAreCovered
        OBVIOUS
    <2> USE DEF RefundsInv
    <2> DEFINE a == AskedOf(refund, Travellers)
    <2>1. /\ refund \in [Travellers -> RefundRow] /\ active \in SUBSET Travellers /\ Travellers \in SUBSET Travellers
          /\ \A sts : InOf(refund, sts) \in SUBSET Travellers
        BY DEF RefundsTypeOK, RefundRow, InOf
    <2>2. refunded <= a /\ a \in Nat /\ Worth(active) \in Nat
        <3>1. ApprovedOf(refund, InOf(refund, {"succeeded"})) <= a
            BY <2>1, ApprovedOfWithinAsked DEF ApprovedWithinAsked
        <3>2. QED
            BY <2>1, <3>1, OfIsNat, WorthIsNat DEF RefundedIsTheSum
    <2>3. paid \in Nat /\ refunded \in Nat
        BY DEF RefundsTypeOK
    <2>4. RefundedWithinPaid
        <3>1. CASE paidBy = "none"
            <4>1. ApprovedOf(refund, InOf(refund, {"succeeded"})) = 0
                BY <2>1, <3>1, NoRefundNoSum DEF NothingBeforePayment
            <4>2. QED
                BY <2>3, <4>1 DEF RefundedIsTheSum, RefundedWithinPaid
        <3>2. CASE paidBy # "none"
            <4>1. a + Worth(active) <= paid
                BY <3>2 DEF AskedWithinPaid
            <4> HIDE DEF a
            <4>2. QED
                BY <2>2, <2>3, <4>1 DEF RefundedWithinPaid
        <3>3. QED
            BY <3>1, <3>2
    <2>5. LedgerOwesTheApproved
        BY SumsAreOf DEF LedgerOwesTheApproved, OwesThem, AtHand, Owing
    <2>6. QED
        BY <2>4, <2>5 DEF RefundsAreCovered
<1>2. QED
    BY <1>1, RefundsInvAlways, PTL
=============================================================================
