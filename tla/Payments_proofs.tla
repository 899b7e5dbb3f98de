--------------------------- MODULE Payments_proofs ---------------------------
(***************************************************************************)
(* What holds of Payments for any number of intents, transfers, receipts,  *)
(* provider events and workers, and any price.                             *)
(***************************************************************************)
EXTENDS Payments, Sums, TLAPS

-----------------------------------------------------------------------------
(* Type correctness *)

(* A listed or received event has a payload about an intent that exists,   *)
(* and an intent that exists asks for money.                               *)
EventsHavePayloads ==
    \A e \in Events : delivery[e] # "none" =>
        event[e] \in Payload /\ intent[event[e].intent] # "none"
BatchesAreReceived == \A w \in Workers : \A e \in batch[w] : delivery[e] # "none"
IntentsAskForMoney == \A i \in Intents : intent[i] # "none" => amount[i] \in 1 .. Price
TransfersHaveIntents == \A i \in Manual : transfer[i] # "none" => intent[i] # "none"
TypeInv ==
    /\ TypeOK
    /\ EventsHavePayloads
    /\ BatchesAreReceived
    /\ IntentsAskForMoney
    /\ TransfersHaveIntents

LEMMA InitType == Init => TypeInv
<1> SUFFICES ASSUME Init PROVE TypeInv
    OBVIOUS
<1> USE PaymentsAssumption
<1>1. txs \subseteq Transaction
    <2>1. PICK used \in SUBSET Receipts : txs = {Row(r, Other, 1, TRUE, TRUE) : r \in used}
        BY DEF Init
    <2>2. 1 \in 1 .. Price
        OBVIOUS
    <2>3. ASSUME NEW r \in used PROVE Row(r, Other, 1, TRUE, TRUE) \in Transaction
        BY <2>2 DEF Row, Transaction, References
    <2>4. QED
        BY <2>1, <2>3
<1>2. /\ overdue \in BOOLEAN /\ seated \in BOOLEAN
      /\ status \in BookingStatus /\ payStatus \in PayStatus
    BY DEF Init, BookingStatus, PayStatus
<1>3. total \in 0 .. Price /\ paid \in Nat
    <2>1. total = Price /\ paid = 0
        BY DEF Init
    <2>2. QED
        BY <2>1
<1>4. amount \in [Intents -> 0 .. Price]
    BY DEF Init
<1>5. /\ transfer \in [Manual -> {"none", "submitted", "verified", "rejected"}]
      /\ sentInTime \in [Manual -> BOOLEAN]
      /\ delivery \in [Events -> {"none", "received", "processed", "failed"}]
      /\ event \in [Events -> Payload \cup {NoPayload}]
      /\ batch \in [Workers -> SUBSET Events]
      /\ intent \in [Intents -> IntentStatus]
      /\ cases \subseteq Intents \X Reasons
    BY DEF Init, IntentStatus
<1>6. QED
    BY <1>1, <1>2, <1>3, <1>4, <1>5 DEF Init, TypeInv, TypeOK, EventsHavePayloads, BatchesAreReceived, IntentsAskForMoney,
        TransfersHaveIntents

(* What Complete does to the types of what it changes.                     *)
LEMMA CompleteType ==
    ASSUME TypeOK, NEW ref \in References, NEW i \in Intents, NEW a \in 1 .. Price,
           NEW inTime \in BOOLEAN, NEW back \in BOOLEAN, Complete(ref, i, a, inTime, back)
    PROVE  /\ txs' \subseteq Transaction
           /\ paid' \in Nat
           /\ payStatus' \in PayStatus
           /\ seated' \in BOOLEAN
           /\ status' \in BookingStatus
           /\ cases' \subseteq Intents \X Reasons
<1> USE PaymentsAssumption
<1>1. Row(ref, i, a, inTime, TRUE) \in Transaction
    BY DEF Row, Transaction
<1>2. \A confirmed \in BOOLEAN : CaseFor(i, inTime, confirmed) \subseteq Intents \X Reasons
    BY DEF CaseFor, Reasons
<1>3. txs' \subseteq Transaction
    BY <1>1 DEF Complete, TypeOK
<1>4. paid' \in Nat /\ payStatus' \in PayStatus
    BY DEF Complete, Applied, TypeOK, PayStatus
<1>5. seated' \in BOOLEAN /\ status' \in BookingStatus
    BY DEF Complete, TypeOK, BookingStatus
<1>6. cases' \subseteq Intents \X Reasons
    BY <1>2 DEF Complete, TypeOK
<1>7. QED
    BY <1>3, <1>4, <1>5, <1>6

(* Whatever amounts the provider reports, the one of an event that does    *)
(* not raise is positive.                                                  *)
LEMMA AppliedAmount ==
    ASSUME TypeInv, NEW e \in Events, event[e] \in Payload, intent[event[e].intent] # "none",
           event[e].intent \in Electronic, ~Raises(e)
    PROVE  event[e].amount \in 1 .. Price
<1> USE PaymentsAssumption
<1>1. event[e].intent \in Intents /\ event[e].amount \in 0 .. Price
    BY DEF Payload
<1>2. amount[event[e].intent] \in 1 .. Price
    BY <1>1 DEF TypeInv, IntentsAskForMoney
<1>3. CASE Matches(e)
    BY <1>2, <1>3 DEF Matches
<1>4. CASE ~Matches(e)
    BY <1>1, <1>4 DEF Raises
<1>5. QED
    BY <1>3, <1>4

LEMMA NextType == TypeInv /\ [Next]_vars => TypeInv'
<1> SUFFICES ASSUME TypeInv, [Next]_vars PROVE TypeInv'
    OBVIOUS
<1> USE PaymentsAssumption
<1>1. ASSUME NEW i \in Intents, CreateIntent(i) PROVE TypeInv'
    <2>1. Outstanding \in 1 .. Price
        BY <1>1 DEF CreateIntent, Payable, Outstanding, TypeInv, TypeOK
    <2>2. QED
        BY <1>1, <2>1 DEF TypeInv, TypeOK, CreateIntent, IntentStatus, EventsHavePayloads,
            BatchesAreReceived, IntentsAskForMoney, TransfersHaveIntents, Payload,
            bookingVars, transferVars, inboxVars
<1>2. ASSUME NEW i \in Manual, NEW inTime \in BOOLEAN, SubmitTransfer(i, inTime) PROVE TypeInv'
    BY <1>2 DEF TypeInv, TypeOK, SubmitTransfer, Intents, IntentStatus, PayStatus, Payload,
        EventsHavePayloads, BatchesAreReceived, IntentsAskForMoney, TransfersHaveIntents, inboxVars
<1>3. ASSUME NEW n \in 1 .. Price, NEW refund \in BOOLEAN, CancelPassengers(n, refund)
      PROVE  TypeInv'
    <2>1. total \in 0 .. Price /\ n \in 1 .. total /\ total' = total - n
        BY <1>3 DEF TypeInv, TypeOK, CancelPassengers
    <2>2. total' \in 0 .. Price
        BY <2>1
    <2>3. seated' \in BOOLEAN /\ status' \in BookingStatus
        BY <1>3 DEF TypeInv, TypeOK, CancelPassengers, BookingStatus
    <2>4. QED
        BY <1>3, <2>2, <2>3 DEF TypeInv, TypeOK, CancelPassengers, EventsHavePayloads,
            BatchesAreReceived, IntentsAskForMoney, TransfersHaveIntents, transferVars, inboxVars
<1>4. ASSUME NEW i \in Manual, RejectTransfer(i) PROVE TypeInv'
    BY <1>4 DEF TypeInv, TypeOK, RejectTransfer, Intents, IntentStatus, PayStatus, Payload,
        EventsHavePayloads, BatchesAreReceived, IntentsAskForMoney, TransfersHaveIntents, inboxVars
<1>5. ASSUME NEW i \in Manual, NEW back \in BOOLEAN, VerifyTransfer(i, back) PROVE TypeInv'
    <2>1. i \in References /\ i \in Intents /\ amount[i] \in 1 .. Price /\ sentInTime[i] \in BOOLEAN
        BY <1>5 DEF VerifyTransfer, References, Intents, TypeInv, TypeOK, IntentsAskForMoney,
            TransfersHaveIntents
    <2>2. Complete(i, i, amount[i], sentInTime[i], back)
        BY <1>5 DEF VerifyTransfer
    <2>3. TypeOK'
        BY <1>5, <2>1, <2>2, CompleteType DEF VerifyTransfer, TypeInv, TypeOK, IntentStatus, inboxVars
    <2>4. QED
        BY <1>5, <2>1, <2>3 DEF VerifyTransfer, TypeInv, TypeOK, Payload, EventsHavePayloads,
            BatchesAreReceived, IntentsAskForMoney, TransfersHaveIntents, inboxVars
<1>6. ASSUME NEW i \in Cash, NEW r \in Receipts, NEW inTime \in BOOLEAN, NEW back \in BOOLEAN,
             RecordOfficeCash(i, r, inTime, back)
      PROVE  TypeInv'
    <2>1. r \in References /\ i \in Intents /\ Outstanding \in 1 .. Price
        BY <1>6 DEF RecordOfficeCash, References, Intents, Payable, Outstanding, TypeInv, TypeOK
    <2>2. TypeOK'
        <3>1. CASE Recorded(r)
            BY <1>6, <2>1, <3>1 DEF RecordOfficeCash, TypeInv, TypeOK, IntentStatus, inboxVars, transferVars
        <3>2. CASE ~Recorded(r)
            <4>1. Complete(r, i, Outstanding, inTime, back)
                BY <1>6, <3>2 DEF RecordOfficeCash
            <4>2. QED
                BY <1>6, <2>1, <4>1, CompleteType
                DEF RecordOfficeCash, TypeInv, TypeOK, IntentStatus, inboxVars, transferVars
        <3>3. QED
            BY <3>1, <3>2
    <2>3. QED
        BY <1>6, <2>1, <2>2 DEF RecordOfficeCash, TypeInv, TypeOK, Payload, EventsHavePayloads,
            BatchesAreReceived, IntentsAskForMoney, TransfersHaveIntents, inboxVars, transferVars
<1>7. ASSUME NEW e \in Events, NEW i \in Intents, NEW a \in 0 .. Price, NEW inTime \in BOOLEAN,
             NEW refTaken \in BOOLEAN, ReceiveEvent(e, i, a, inTime, refTaken)
      PROVE  TypeInv'
    BY <1>7 DEF TypeInv, TypeOK, ReceiveEvent, Payload, EventsHavePayloads, BatchesAreReceived,
        IntentsAskForMoney, TransfersHaveIntents, bookingVars, transferVars
<1>8. ASSUME NEW w \in Workers, ListDeliveries(w) PROVE TypeInv'
    BY <1>8 DEF TypeInv, TypeOK, ListDeliveries, Listed, EventsHavePayloads, BatchesAreReceived,
        IntentsAskForMoney, TransfersHaveIntents, bookingVars, transferVars
<1>9. ASSUME NEW w \in Workers, NEW e \in Events, NEW back \in BOOLEAN, ProcessDelivery(w, e, back)
      PROVE  TypeInv'
    <2>1. event[e] \in Payload /\ intent[event[e].intent] # "none"
        BY <1>9 DEF ProcessDelivery, TypeInv, BatchesAreReceived, EventsHavePayloads
    <2>2. batch' \in [Workers -> SUBSET Events] /\ \A v \in Workers : batch'[v] \subseteq batch[v]
        BY <1>9 DEF ProcessDelivery, TypeInv, TypeOK
    <2>3. UNCHANGED <<overdue, total, amount, transferVars, event, ahead>>
        BY <1>9 DEF ProcessDelivery
    <2>4. ASSUME Apply(e, back), delivery' = [delivery EXCEPT ![e] = "processed"],
                 event[e].amount \in 1 .. Price
          PROVE  TypeInv'
        <3>1. IntentAfter(e) \in {"succeeded", "pending_verification"}
            BY DEF IntentAfter
        <3>2. e \in References /\ event[e].intent \in Intents /\ event[e].amount \in 1 .. Price
              /\ event[e].inTime \in BOOLEAN
            BY <2>1, <2>4 DEF Payload, References
        <3>3. /\ intent' = [intent EXCEPT ![event[e].intent] = IntentAfter(e)]
              /\ intent' \in [Intents -> IntentStatus]
            BY <2>4, <3>1, <3>2 DEF Apply, TypeInv, TypeOK, IntentStatus
        <3>4. CASE Matches(e)
            <4>1. Complete(e, event[e].intent, event[e].amount, event[e].inTime, back)
                BY <2>4, <3>4 DEF Apply
            <4>2. TypeOK'
                BY <2>2, <2>3, <2>4, <3>2, <3>3, <4>1, CompleteType DEF TypeInv, TypeOK, transferVars
            <4>3. QED
                BY <2>1, <2>2, <2>3, <2>4, <3>1, <3>2, <3>3, <4>2 DEF TypeInv, TypeOK, Payload, EventsHavePayloads,
                    BatchesAreReceived, IntentsAskForMoney, TransfersHaveIntents, transferVars
        <3>5. CASE ~Matches(e)
            <4>1. Row(e, event[e].intent, event[e].amount, event[e].inTime, FALSE) \in Transaction
                BY <3>2 DEF Row, Transaction
            <4>2. <<event[e].intent, "mismatch">> \in Intents \X Reasons
                BY <3>2 DEF Reasons
            <4>0. /\ txs' = txs \cup {Row(e, event[e].intent, event[e].amount, event[e].inTime, FALSE)}
                  /\ cases' = cases \cup {<<event[e].intent, "mismatch">>}
                  /\ UNCHANGED <<status, payStatus, paid, seated>>
                BY <2>4, <3>5 DEF Apply
            <4>3. txs' \subseteq Transaction /\ cases' \subseteq Intents \X Reasons
                BY <4>0, <4>1, <4>2 DEF TypeInv, TypeOK
            <4>4. TypeOK'
                BY <2>2, <2>3, <2>4, <3>3, <4>0, <4>3 DEF TypeInv, TypeOK, transferVars
            <4>5. QED
                BY <2>1, <2>2, <2>3, <2>4, <3>1, <3>2, <3>3, <4>4 DEF TypeInv, TypeOK, Payload, EventsHavePayloads,
                    BatchesAreReceived, IntentsAskForMoney, TransfersHaveIntents, transferVars
        <3>6. QED
            BY <3>4, <3>5
    <2>5. ASSUME UNCHANGED <<status, payStatus, paid, seated, intent, txs, cases>>,
                 NEW d \in {"processed", "failed"}, delivery' = [delivery EXCEPT ![e] = d]
          PROVE  TypeInv'
        <3>1. /\ delivery' \in [Events -> {"none", "received", "processed", "failed"}]
              /\ \A f \in Events : f # e => delivery'[f] = delivery[f]
              /\ delivery'[e] # "none"
            BY <2>5 DEF TypeInv, TypeOK
        <3>2. TypeOK'
            BY <2>2, <2>3, <2>5, <3>1 DEF TypeInv, TypeOK, transferVars
        <3>3. EventsHavePayloads' /\ BatchesAreReceived'
            BY <2>1, <2>2, <2>3, <2>5, <3>1 DEF TypeInv, TypeOK, EventsHavePayloads, BatchesAreReceived, Payload
        <3>4. IntentsAskForMoney' /\ TransfersHaveIntents'
            BY <2>3, <2>5 DEF TypeInv, IntentsAskForMoney, TransfersHaveIntents, transferVars
        <3>5. QED
            BY <3>2, <3>3, <3>4 DEF TypeInv
    <2>6. ASSUME UNCHANGED <<status, payStatus, paid, seated, intent, delivery, txs, cases>>
          PROVE  TypeInv'
        <3>1. TypeOK'
            BY <2>2, <2>3, <2>6 DEF TypeInv, TypeOK, transferVars
        <3>2. EventsHavePayloads' /\ BatchesAreReceived'
            BY <2>2, <2>3, <2>6 DEF TypeInv, EventsHavePayloads, BatchesAreReceived, Payload
        <3>3. IntentsAskForMoney' /\ TransfersHaveIntents'
            BY <2>3, <2>6 DEF TypeInv, IntentsAskForMoney, TransfersHaveIntents, transferVars
        <3>4. QED
            BY <3>1, <3>2, <3>3 DEF TypeInv
    <2>7. ASSUME event[e].intent \in Electronic, ~Raises(e) PROVE event[e].amount \in 1 .. Price
        BY <2>1, <2>7, AppliedAmount
    <2>8. QED
        BY <1>9, <2>4, <2>5, <2>6, <2>7 DEF ProcessDelivery
<1>10. ASSUME DeadlinePasses PROVE TypeInv'
    BY <1>10 DEF TypeInv, TypeOK, DeadlinePasses, EventsHavePayloads, BatchesAreReceived,
        IntentsAskForMoney, TransfersHaveIntents, bookingVars, transferVars, inboxVars
<1>11. ASSUME ExpireUnpaidBooking PROVE TypeInv'
    <2>1. intent' \in [Intents -> IntentStatus]
        BY <1>11 DEF TypeInv, TypeOK, ExpireUnpaidBooking, IntentStatus
    <2>2. ASSUME NEW i \in Intents PROVE intent'[i] # "none" <=> intent[i] # "none"
        BY <1>11, <2>2 DEF ExpireUnpaidBooking
    <2>3. status' \in BookingStatus /\ seated' \in BOOLEAN
        BY <1>11 DEF ExpireUnpaidBooking, BookingStatus
    <2>4. TypeOK'
        BY <1>11, <2>1, <2>3 DEF TypeInv, TypeOK, ExpireUnpaidBooking, transferVars, inboxVars
    <2>5. EventsHavePayloads' /\ BatchesAreReceived'
        BY <1>11, <2>2 DEF TypeInv, ExpireUnpaidBooking, EventsHavePayloads, BatchesAreReceived,
            Payload, inboxVars
    <2>6. IntentsAskForMoney' /\ TransfersHaveIntents'
        BY <1>11, <2>2 DEF TypeInv, ExpireUnpaidBooking, IntentsAskForMoney, TransfersHaveIntents,
            transferVars, Intents
    <2>7. QED
        BY <2>4, <2>5, <2>6 DEF TypeInv
<1>12. CASE UNCHANGED vars
    BY <1>12 DEF vars, TypeInv, TypeOK, EventsHavePayloads, BatchesAreReceived,
        IntentsAskForMoney, TransfersHaveIntents
<1>13. QED
    BY <1>1, <1>2, <1>3, <1>4, <1>5, <1>6, <1>7, <1>8, <1>9, <1>10, <1>11, <1>12
    DEF Next, Customer, Office, Provider, Job

(* Every reachable state is well typed.                                    *)
THEOREM TypeCorrect == Spec => []TypeOK
<1>1. Spec => []TypeInv
    BY InitType, NextType, PTL DEF Spec
<1>2. TypeInv => TypeOK
    BY DEF TypeInv
<1>3. QED
    BY <1>1, <1>2, PTL

-----------------------------------------------------------------------------
(* What a step does to the transactions and the booking *)

(* Complete adds one succeeded transaction, and confirms or opens a case.  *)
LEMMA CompleteAdds ==
    ASSUME NEW ref, NEW i \in Intents, NEW a, NEW inTime, NEW back,
           Complete(ref, i, a, inTime, back)
    PROVE  /\ txs' = txs \cup {Row(ref, i, a, inTime, TRUE)}
           /\ Row(ref, i, a, inTime, TRUE).ref = ref
           /\ Row(ref, i, a, inTime, TRUE).intent = i
           /\ Row(ref, i, a, inTime, TRUE).ok
           /\ i # Other
           /\ paid' = paid + a
           /\ payStatus' = IF paid + a >= total THEN "paid" ELSE "partially_paid"
           /\ \/ status' = "confirmed" /\ cases \subseteq cases'
              \/ /\ status' = status /\ cases \subseteq cases'
                 /\ \E reason \in Reasons \ {"mismatch"} : <<i, reason>> \in cases'
<1>1. i # Other
    BY PaymentsAssumption
<1>2. txs' = txs \cup {Row(ref, i, a, inTime, TRUE)} /\ paid' = paid + a
    BY DEF Complete, Applied
<1>3. payStatus' = IF paid + a >= total THEN "paid" ELSE "partially_paid"
    BY DEF Complete, Applied
<1>4. PICK confirmed \in BOOLEAN :
          /\ status' = IF confirmed THEN "confirmed" ELSE status
          /\ cases' = cases \cup CaseFor(i, inTime, confirmed)
    <2> DEFINE c == Applied(a) >= total /\ inTime /\ (seated \/ (inTime /\ back))
    <2>1. /\ status' = IF c THEN "confirmed" ELSE status
          /\ cases' = cases \cup CaseFor(i, inTime, c)
        BY DEF Complete
    <2>2. c \in BOOLEAN
        OBVIOUS
    <2>3. QED
        BY <2>1, <2>2
<1>5. CASE confirmed
    BY <1>1, <1>2, <1>3, <1>4, <1>5 DEF Row
<1>6. CASE ~confirmed
    <2>1. CaseFor(i, inTime, confirmed) =
              {<<i, IF inTime THEN "inventory_unavailable" ELSE "after_deadline">>}
        BY <1>6 DEF CaseFor
    <2>2. \E reason \in Reasons \ {"mismatch"} : <<i, reason>> \in cases'
        BY <1>4, <2>1 DEF Reasons
    <2>3. QED
        BY <1>1, <1>2, <1>3, <1>4, <1>6, <2>2 DEF Row
<1>7. QED
    BY <1>4, <1>5, <1>6

(* A step enters at most one transaction, under a new reference; that of a *)
(* transfer comes with its verification.                                   *)
Enters(ref) ==
    /\ ~Recorded(ref)
    /\ ref \in Manual => transfer'[ref] = "verified"
    /\ \E t : t.ref = ref /\ txs' = txs \cup {t}

-----------------------------------------------------------------------------
(* One transaction for each reference *)

(* A transfer in the books is verified, and the intent of a transfer that  *)
(* was sent never takes another one: so a transfer is verified once.       *)
VerifiedInTheBooks == \A t \in txs : t.ref \in Manual => transfer[t.ref] = "verified"
SentOnce == \A i \in Manual :
                transfer[i] # "none" => intent[i] \notin {"none", "created", "requires_action"}
RefInv == OneTransactionPerReference /\ VerifiedInTheBooks /\ SentOnce

LEMMA InitRef == Init => RefInv
<1> SUFFICES ASSUME Init PROVE RefInv
    OBVIOUS
<1>1. PICK used \in SUBSET Receipts : txs = {Row(r, Other, 1, TRUE, TRUE) : r \in used}
    BY DEF Init
<1>2. \A t \in txs : t.ref \in Receipts /\ t = Row(t.ref, Other, 1, TRUE, TRUE)
    BY <1>1 DEF Row
<1>3. OneTransactionPerReference
    BY <1>2 DEF OneTransactionPerReference
<1>4. VerifiedInTheBooks
    BY <1>2, PaymentsAssumption DEF VerifiedInTheBooks
<1>5. SentOnce
    BY DEF Init, SentOnce
<1>6. QED
    BY <1>3, <1>4, <1>5 DEF RefInv

(* The two ways a step keeps the references apart.                         *)
LEMMA SameTxs ==
    ASSUME RefInv, txs' = txs, SentOnce',
           \A i \in Manual : transfer[i] = "verified" => transfer'[i] = "verified"
    PROVE  RefInv'
BY DEF RefInv, OneTransactionPerReference, VerifiedInTheBooks

LEMMA NewTx ==
    ASSUME RefInv, NEW ref, Enters(ref), SentOnce',
           \A i \in Manual : transfer[i] = "verified" => transfer'[i] = "verified"
    PROVE  RefInv'
<1>1. PICK t : t.ref = ref /\ txs' = txs \cup {t}
    BY DEF Enters
<1>2. \A u \in txs : u.ref # t.ref
    BY <1>1 DEF Enters, Recorded
<1>3. OneTransactionPerReference'
    BY <1>1, <1>2 DEF RefInv, OneTransactionPerReference
<1>4. VerifiedInTheBooks'
    BY <1>1 DEF RefInv, VerifiedInTheBooks, Enters
<1>5. QED
    BY <1>3, <1>4 DEF RefInv

LEMMA NextRef == TypeInv /\ RefInv /\ [Next]_vars => RefInv'
<1> SUFFICES ASSUME TypeInv, RefInv, [Next]_vars PROVE RefInv'
    OBVIOUS
<1> USE PaymentsAssumption
<1>1. ASSUME NEW i \in Intents, CreateIntent(i) PROVE RefInv'
    <2>1. SentOnce'
        BY <1>1 DEF CreateIntent, RefInv, SentOnce, TypeInv, TypeOK, transferVars
    <2>2. QED
        BY <1>1, <2>1, SameTxs DEF CreateIntent, transferVars
<1>2. ASSUME NEW i \in Manual, NEW inTime \in BOOLEAN, SubmitTransfer(i, inTime) PROVE RefInv'
    <2>1. SentOnce'
        BY <1>2 DEF SubmitTransfer, RefInv, SentOnce, TypeInv, TypeOK, Intents
    <2>2. transfer[i] # "verified"
        BY <1>2 DEF SubmitTransfer, RefInv, SentOnce
    <2>3. QED
        BY <1>2, <2>1, <2>2, SameTxs DEF SubmitTransfer, TypeInv, TypeOK
<1>3. ASSUME NEW n \in 1 .. Price, NEW refund \in BOOLEAN, CancelPassengers(n, refund)
      PROVE  RefInv'
    BY <1>3, SameTxs DEF CancelPassengers, RefInv, SentOnce, transferVars
<1>4. ASSUME NEW i \in Manual, RejectTransfer(i) PROVE RefInv'
    <2>1. SentOnce'
        BY <1>4 DEF RejectTransfer, RefInv, SentOnce, TypeInv, TypeOK, Intents
    <2>2. QED
        BY <1>4, <2>1, SameTxs DEF RejectTransfer, TypeInv, TypeOK
<1>5. ASSUME NEW i \in Manual, NEW back \in BOOLEAN, VerifyTransfer(i, back) PROVE RefInv'
    <2>1. SentOnce'
        BY <1>5 DEF VerifyTransfer, RefInv, SentOnce, TypeInv, TypeOK, Intents
    <2>2. ~Recorded(i)
        BY <1>5 DEF VerifyTransfer, Recorded, RefInv, VerifiedInTheBooks
    <2>3. transfer'[i] = "verified"
        BY <1>5 DEF VerifyTransfer, TypeInv, TypeOK
    <2>4. Complete(i, i, amount[i], sentInTime[i], back)
        BY <1>5 DEF VerifyTransfer
    <2>5. Enters(i)
        BY <2>2, <2>3, <2>4, CompleteAdds DEF Enters, Intents
    <2>6. QED
        BY <1>5, <2>1, <2>5, NewTx DEF VerifyTransfer, TypeInv, TypeOK
<1>6. ASSUME NEW i \in Cash, NEW r \in Receipts, NEW inTime \in BOOLEAN, NEW back \in BOOLEAN,
             RecordOfficeCash(i, r, inTime, back)
      PROVE  RefInv'
    <2>1. SentOnce' /\ UNCHANGED transfer
        BY <1>6 DEF RecordOfficeCash, RefInv, SentOnce, TypeInv, TypeOK, transferVars, Intents
    <2>2. CASE Recorded(r)
        BY <1>6, <2>1, <2>2, SameTxs DEF RecordOfficeCash
    <2>3. CASE ~Recorded(r)
        <3>1. Complete(r, i, Outstanding, inTime, back)
            BY <1>6, <2>3 DEF RecordOfficeCash
        <3>2. Enters(r)
            BY <2>3, <3>1, CompleteAdds DEF Enters, Intents
        <3>3. QED
            BY <2>1, <3>2, NewTx
    <2>4. QED
        BY <2>2, <2>3
<1>7. ASSUME NEW e \in Events, NEW i \in Intents, NEW a \in 0 .. Price, NEW inTime \in BOOLEAN,
             NEW refTaken \in BOOLEAN, ReceiveEvent(e, i, a, inTime, refTaken)
      PROVE  RefInv'
    BY <1>7, SameTxs DEF ReceiveEvent, RefInv, SentOnce, transferVars
<1>8. ASSUME NEW w \in Workers, ListDeliveries(w) PROVE RefInv'
    BY <1>8, SameTxs DEF ListDeliveries, RefInv, SentOnce, transferVars
<1>9. ASSUME NEW w \in Workers, NEW e \in Events, NEW back \in BOOLEAN, ProcessDelivery(w, e, back)
      PROVE  RefInv'
    <2>1. UNCHANGED transfer
        BY <1>9 DEF ProcessDelivery, transferVars
    <2>2. ASSUME UNCHANGED <<intent, txs>> PROVE RefInv'
        BY <2>1, <2>2, SameTxs DEF RefInv, SentOnce
    <2>3. ASSUME Apply(e, back), ~Recorded(e), event[e].intent \in Electronic PROVE RefInv'
        <3>1. SentOnce'
            BY <2>1, <2>3 DEF Apply, RefInv, SentOnce, TypeInv, TypeOK, Intents
        <3>2. Enters(e)
            <4>1. CASE Matches(e)
                <5>1. Complete(e, event[e].intent, event[e].amount, event[e].inTime, back)
                    BY <2>3, <4>1 DEF Apply
                <5>2. QED
                    BY <2>3, <5>1, CompleteAdds DEF Enters, Intents
            <4>2. CASE ~Matches(e)
                BY <2>3, <4>2 DEF Apply, Enters, Row
            <4>3. QED
                BY <4>1, <4>2
        <3>3. QED
            BY <2>1, <3>1, <3>2, NewTx
    <2>4. QED
        BY <1>9, <2>2, <2>3 DEF ProcessDelivery
<1>10. ASSUME DeadlinePasses PROVE RefInv'
    BY <1>10, SameTxs DEF DeadlinePasses, RefInv, SentOnce, transferVars
<1>11. ASSUME ExpireUnpaidBooking PROVE RefInv'
    <2>1. SentOnce'
        BY <1>11 DEF ExpireUnpaidBooking, RefInv, SentOnce, transferVars, Intents
    <2>2. QED
        BY <1>11, <2>1, SameTxs DEF ExpireUnpaidBooking, transferVars
<1>12. CASE UNCHANGED vars
    BY <1>12, SameTxs DEF vars, RefInv, SentOnce
<1>13. QED
    BY <1>1, <1>2, <1>3, <1>4, <1>5, <1>6, <1>7, <1>8, <1>9, <1>10, <1>11, <1>12
    DEF Next, Customer, Office, Provider, Job

(* However many workers list and process the same deliveries, and however  *)
(* often a transfer or a receipt is entered, a reference has one           *)
(* transaction.                                                            *)
THEOREM ReferencesAreUnique == Spec => []OneTransactionPerReference
<1>1. Spec => [](TypeInv /\ RefInv)
    BY InitType, NextType, InitRef, NextRef, PTL DEF Spec
<1>2. RefInv => OneTransactionPerReference
    BY DEF RefInv
<1>3. QED
    BY <1>1, <1>2, PTL

-----------------------------------------------------------------------------
(* No partial payment *)

(* Every intent asks for the whole price: the total only falls, and while  *)
(* anything is outstanding nothing is paid.                                *)
IntentsAskForAll == \A i \in Intents : intent[i] # "none" => amount[i] >= total
MoneyInv == NoPartialPayment /\ IntentsAskForAll

LEMMA CompleteMoney ==
    ASSUME TypeInv, MoneyInv, NEW ref, NEW i \in Intents, NEW a \in Nat, NEW inTime, NEW back,
           a >= total, Complete(ref, i, a, inTime, back), total' = total
    PROVE  NoPartialPayment'
<1>1. paid' = paid + a /\ payStatus' = IF paid + a >= total THEN "paid" ELSE "partially_paid"
    BY CompleteAdds
<1>2. paid \in Nat /\ total \in Nat
    BY DEF TypeInv, TypeOK
<1>3. paid + a >= total
    BY <1>2
<1>4. QED
    BY <1>1, <1>3 DEF NoPartialPayment

LEMMA NextMoney == TypeInv /\ TypeInv' /\ MoneyInv /\ [Next]_vars => MoneyInv'
<1> SUFFICES ASSUME TypeInv, TypeInv', MoneyInv, [Next]_vars PROVE MoneyInv'
    OBVIOUS
<1> USE PaymentsAssumption
<1>0. /\ paid \in Nat /\ total \in Nat /\ (paid = 0 \/ paid >= total)
      /\ \A i \in Intents : amount[i] \in Nat
    BY DEF TypeInv, TypeOK, MoneyInv, NoPartialPayment
<1>1. ASSUME NEW i \in Intents, CreateIntent(i) PROVE MoneyInv'
    <2>1. Outstanding = total
        BY <1>0, <1>1 DEF CreateIntent, Payable, Outstanding
    <2>2. amount' = [amount EXCEPT ![i] = total] /\ total' = total
        BY <1>1, <2>1 DEF CreateIntent, bookingVars
    <2>3. IntentsAskForAll'
        BY <1>0, <1>1, <2>2 DEF CreateIntent, MoneyInv, IntentsAskForAll, TypeInv, TypeOK
    <2>4. QED
        BY <1>1, <2>3 DEF CreateIntent, MoneyInv, NoPartialPayment, bookingVars
<1>2. ASSUME NEW i \in Manual, NEW inTime \in BOOLEAN, SubmitTransfer(i, inTime) PROVE MoneyInv'
    <2>1. \A j \in Intents : intent'[j] # "none" => intent[j] # "none"
        BY <1>2 DEF SubmitTransfer, TypeInv, TypeOK
    <2>2. QED
        BY <1>2, <2>1 DEF SubmitTransfer, MoneyInv, NoPartialPayment, IntentsAskForAll
<1>3. ASSUME NEW n \in 1 .. Price, NEW refund \in BOOLEAN, CancelPassengers(n, refund)
      PROVE  MoneyInv'
    <2>1. n \in Nat /\ total' = total - n /\ UNCHANGED <<payStatus, paid, intent, amount>>
        BY <1>3 DEF CancelPassengers
    <2>2. paid' = 0 \/ paid' >= total'
        BY <1>0, <2>1
    <2>3. ASSUME NEW j \in Intents, intent'[j] # "none" PROVE amount'[j] >= total'
        <3>1. amount[j] \in Nat /\ amount[j] >= total
            BY <1>0, <2>1, <2>3 DEF MoneyInv, IntentsAskForAll
        <3>2. QED
            BY <1>0, <2>1, <3>1
    <2>4. QED
        BY <2>1, <2>2, <2>3 DEF MoneyInv, NoPartialPayment, IntentsAskForAll
<1>4. ASSUME NEW i \in Manual, RejectTransfer(i) PROVE MoneyInv'
    <2>1. \A j \in Intents : intent'[j] # "none" => intent[j] # "none"
        BY <1>4 DEF RejectTransfer, TypeInv, TypeOK, TransfersHaveIntents
    <2>2. QED
        BY <1>4, <2>1 DEF RejectTransfer, MoneyInv, NoPartialPayment, IntentsAskForAll
<1>5. ASSUME NEW i \in Manual, NEW back \in BOOLEAN, VerifyTransfer(i, back) PROVE MoneyInv'
    <2>1. i \in Intents /\ intent[i] # "none"
        BY <1>5 DEF VerifyTransfer, TypeInv, TransfersHaveIntents, Intents
    <2>2. Complete(i, i, amount[i], sentInTime[i], back) /\ UNCHANGED <<total, amount>>
        BY <1>5 DEF VerifyTransfer
    <2>3. amount[i] >= total /\ amount[i] \in Nat
        BY <1>0, <2>1 DEF MoneyInv, IntentsAskForAll
    <2>4. NoPartialPayment'
        BY <2>1, <2>2, <2>3, CompleteMoney
    <2>5. \A j \in Intents : intent'[j] # "none" => intent[j] # "none"
        BY <1>5, <2>1 DEF VerifyTransfer, TypeInv, TypeOK
    <2>6. QED
        BY <2>2, <2>4, <2>5 DEF MoneyInv, IntentsAskForAll
<1>6. ASSUME NEW i \in Cash, NEW r \in Receipts, NEW inTime \in BOOLEAN, NEW back \in BOOLEAN,
             RecordOfficeCash(i, r, inTime, back)
      PROVE  MoneyInv'
    <2>1. Outstanding = total /\ i \in Intents
        BY <1>0, <1>6 DEF RecordOfficeCash, Payable, Outstanding, Intents
    <2>2. amount' = [amount EXCEPT ![i] = total] /\ total' = total
        BY <1>6, <2>1 DEF RecordOfficeCash
    <2>3. IntentsAskForAll'
        BY <1>0, <1>6, <2>1, <2>2 DEF RecordOfficeCash, MoneyInv, IntentsAskForAll, TypeInv, TypeOK
    <2>4. NoPartialPayment'
        <3>1. CASE Recorded(r)
            BY <1>6, <2>2, <3>1 DEF RecordOfficeCash, MoneyInv, NoPartialPayment
        <3>2. CASE ~Recorded(r)
            <4>1. Complete(r, i, total, inTime, back)
                BY <1>6, <2>1, <3>2 DEF RecordOfficeCash
            <4>2. QED
                BY <1>0, <2>1, <2>2, <4>1, CompleteMoney
        <3>3. QED
            BY <3>1, <3>2
    <2>5. QED
        BY <2>3, <2>4 DEF MoneyInv
<1>7. ASSUME NEW e \in Events, NEW i \in Intents, NEW a \in 0 .. Price, NEW inTime \in BOOLEAN,
             NEW refTaken \in BOOLEAN, ReceiveEvent(e, i, a, inTime, refTaken)
      PROVE  MoneyInv'
    BY <1>7 DEF ReceiveEvent, MoneyInv, NoPartialPayment, IntentsAskForAll, bookingVars
<1>8. ASSUME NEW w \in Workers, ListDeliveries(w) PROVE MoneyInv'
    BY <1>8 DEF ListDeliveries, MoneyInv, NoPartialPayment, IntentsAskForAll, bookingVars
<1>9. ASSUME NEW w \in Workers, NEW e \in Events, NEW back \in BOOLEAN, ProcessDelivery(w, e, back)
      PROVE  MoneyInv'
    <2>1. UNCHANGED <<total, amount>>
        BY <1>9 DEF ProcessDelivery
    <2>2. event[e] \in Payload /\ intent[event[e].intent] # "none"
        BY <1>9 DEF ProcessDelivery, TypeInv, BatchesAreReceived, EventsHavePayloads
    <2>3. event[e].intent \in Intents
        BY <2>2 DEF Payload
    <2>4. ASSUME UNCHANGED <<status, payStatus, paid, seated, intent>> PROVE MoneyInv'
        BY <2>1, <2>4 DEF MoneyInv, NoPartialPayment, IntentsAskForAll
    <2>5. ASSUME Apply(e, back) PROVE MoneyInv'
        <3>1. \A j \in Intents : intent'[j] # "none" => intent[j] # "none"
            BY <2>2, <2>3, <2>5 DEF Apply, TypeInv, TypeOK
        <3>2. NoPartialPayment'
            <4>1. CASE Matches(e)
                <5>1. Complete(e, event[e].intent, event[e].amount, event[e].inTime, back)
                    BY <2>5, <4>1 DEF Apply
                <5>2. event[e].amount \in Nat /\ event[e].amount >= total
                    BY <1>0, <2>2, <2>3, <4>1 DEF Matches, MoneyInv, IntentsAskForAll
                <5>3. QED
                    BY <2>1, <2>3, <5>1, <5>2, CompleteMoney
            <4>2. CASE ~Matches(e)
                BY <2>1, <2>5, <4>2 DEF Apply, MoneyInv, NoPartialPayment
            <4>3. QED
                BY <4>1, <4>2
        <3>3. QED
            BY <2>1, <3>1, <3>2 DEF MoneyInv, IntentsAskForAll
    <2>6. QED
        BY <1>9, <2>4, <2>5 DEF ProcessDelivery
<1>10. ASSUME DeadlinePasses PROVE MoneyInv'
    BY <1>10 DEF DeadlinePasses, MoneyInv, NoPartialPayment, IntentsAskForAll, bookingVars
<1>11. ASSUME ExpireUnpaidBooking PROVE MoneyInv'
    <2>1. \A j \in Intents : intent'[j] # "none" => intent[j] # "none"
        BY <1>11 DEF ExpireUnpaidBooking
    <2>2. QED
        BY <1>11, <2>1 DEF ExpireUnpaidBooking, MoneyInv, NoPartialPayment, IntentsAskForAll
<1>12. CASE UNCHANGED vars
    BY <1>12 DEF vars, MoneyInv, NoPartialPayment, IntentsAskForAll
<1>13. QED
    BY <1>1, <1>2, <1>3, <1>4, <1>5, <1>6, <1>7, <1>8, <1>9, <1>10, <1>11, <1>12
    DEF Next, Customer, Office, Provider, Job

LEMMA MoneyInvariant == Spec => [](TypeInv /\ MoneyInv)
<1>1. Init => MoneyInv
    BY DEF Init, MoneyInv, NoPartialPayment, IntentsAskForAll
<1>2. TypeInv /\ MoneyInv /\ [Next]_vars => TypeInv' /\ MoneyInv'
    BY NextType, NextMoney
<1>3. QED
    BY <1>1, <1>2, InitType, PTL DEF Spec

(* Whatever intents are created, in whatever order their money arrives and *)
(* however many passengers leave meanwhile, what is paid is nothing or at  *)
(* least the total, and PARTIALLY_PAID never occurs.                       *)
THEOREM NeverPartial == Spec => []NoPartialPayment
<1>1. MoneyInv => NoPartialPayment
    BY DEF MoneyInv
<1>2. QED
    BY <1>1, MoneyInvariant, PTL

-----------------------------------------------------------------------------
(* The deadline and the money *)

LEMMA CancelledUnpaid ==
    ASSUME TypeInv, MoneyInv, [Next]_vars, status = "awaiting_payment", status' = "cancelled",
           total' > 0
    PROVE  paid = 0
<1> USE PaymentsAssumption
<1>0. total \in Nat /\ paid \in Nat /\ (paid = 0 \/ paid >= total)
    BY DEF TypeInv, TypeOK, MoneyInv, NoPartialPayment
<1>1. ASSUME NEW n \in 1 .. Price, NEW refund \in BOOLEAN, CancelPassengers(n, refund) PROVE FALSE
    <2>1. n \in 1 .. total /\ total' = total - n /\ ~(n < total)
        BY <1>1 DEF CancelPassengers
    <2>2. QED
        BY <1>0, <2>1
<1>2. ASSUME NEW ref, NEW i \in Intents, NEW a, NEW inTime, NEW back,
             Complete(ref, i, a, inTime, back)
      PROVE  FALSE
    BY <1>2, CompleteAdds
<1>3. ASSUME UNCHANGED status PROVE FALSE
    BY <1>3
<1>4. ASSUME NEW i \in Manual, NEW back \in BOOLEAN, VerifyTransfer(i, back) PROVE FALSE
    BY <1>2, <1>4 DEF VerifyTransfer, Intents
<1>5. ASSUME NEW i \in Cash, NEW r \in Receipts, NEW inTime \in BOOLEAN, NEW back \in BOOLEAN,
             RecordOfficeCash(i, r, inTime, back)
      PROVE  FALSE
    BY <1>2, <1>3, <1>5 DEF RecordOfficeCash, Intents
<1>6. ASSUME NEW w \in Workers, NEW e \in Events, NEW back \in BOOLEAN, ProcessDelivery(w, e, back)
      PROVE  FALSE
    <2>1. event[e].intent \in Intents
        BY <1>6 DEF ProcessDelivery, TypeInv, BatchesAreReceived, EventsHavePayloads, Payload
    <2>2. ~Apply(e, back)
        BY <1>2, <1>3, <2>1 DEF Apply
    <2>3. QED
        BY <1>3, <1>6, <2>2 DEF ProcessDelivery
<1>7. ASSUME ExpireUnpaidBooking PROVE paid = 0
    BY <1>0, <1>7 DEF ExpireUnpaidBooking, Expirable
<1>8. CASE Customer
    BY <1>1, <1>3, <1>8 DEF Customer, CreateIntent, SubmitTransfer, bookingVars
<1>9. CASE Office
    BY <1>3, <1>4, <1>5, <1>9 DEF Office, RejectTransfer
<1>10. CASE Provider \/ DeadlinePasses \/ UNCHANGED vars
    BY <1>3, <1>10 DEF Provider, ReceiveEvent, DeadlinePasses, vars, bookingVars
<1>11. CASE \E w \in Workers : Job(w)
    BY <1>3, <1>6, <1>11 DEF Job, ListDeliveries, bookingVars
<1>12. QED
    BY <1>7, <1>8, <1>9, <1>10, <1>11 DEF Next

(* The deadline job cancels no booking that has received money.            *)
THEOREM NoMoneyExpires == Spec => ExpiryTakesNoMoney
<1>1. TypeInv /\ MoneyInv /\ [Next]_vars =>
          [status = "awaiting_payment" /\ status' = "cancelled" /\ total' > 0 => paid = 0]_vars
    BY CancelledUnpaid
<1>2. QED
    BY <1>1, MoneyInvariant, PTL DEF Spec, ExpiryTakesNoMoney

-----------------------------------------------------------------------------
(* Money that came in is not lost *)

(* The part of a step that money can be lost in: rows and cases only grow, *)
(* a new succeeded row confirms the booking or has its case, and an intent *)
(* succeeds with a row or, for cash, without.                              *)
KeepsTrack ==
    /\ txs \subseteq txs'
    /\ cases \subseteq cases'
    /\ \A t \in txs' \ txs : t.ok /\ t.intent # Other =>
           \/ status' = "confirmed"
           \/ \E reason \in Reasons \ {"mismatch"} : <<t.intent, reason>> \in cases'
    /\ \A i \in Electronic \cup Manual : intent'[i] = "succeeded" =>
           intent[i] = "succeeded" \/ \E t \in txs' : t.ok /\ t.intent = i

(* A booking that waits or is cancelled, with passengers who wanted to     *)
(* travel, did so before the step.                                         *)
KeepsWaiting ==
    status' \in {"awaiting_payment", "cancelled"} /\ total' > 0 =>
        status \in {"awaiting_payment", "cancelled"} /\ total > 0

LEMMA CompleteTracks ==
    ASSUME TypeInv, NEW ref, NEW i \in Intents, NEW a, NEW inTime, NEW back,
           Complete(ref, i, a, inTime, back), NEW s,
           intent' = [intent EXCEPT ![i] = s], total' = total
    PROVE  KeepsTrack /\ KeepsWaiting
<1> DEFINE row == Row(ref, i, a, inTime, TRUE)
<1>1. txs' = txs \cup {row} /\ row.intent = i /\ row.ok
    <2>1. txs' = txs \cup {row}
        BY CompleteAdds
    <2>2. row.intent = i /\ row.ok
        BY DEF Row
    <2>3. QED
        BY <2>1, <2>2
<1>2. /\ cases \subseteq cases'
      /\ \/ status' = "confirmed"
         \/ /\ status' = status
            /\ \E reason \in Reasons \ {"mismatch"} : <<i, reason>> \in cases'
    <2> HIDE DEF row
    <2>1. QED
        BY CompleteAdds
<1>3. \A j \in Intents : j # i => intent'[j] = intent[j]
    BY DEF TypeInv, TypeOK
<1>4. Electronic \cup Manual \subseteq Intents
    BY DEF Intents
<1> HIDE DEF row
<1>5. KeepsTrack
    BY <1>1, <1>2, <1>3, <1>4 DEF KeepsTrack
<1>6. KeepsWaiting
    BY <1>2 DEF KeepsWaiting
<1>7. QED
    BY <1>5, <1>6

LEMMA QuietTracks ==
    ASSUME UNCHANGED <<txs, cases>>, KeepsWaiting,
           \A i \in Electronic \cup Manual : intent'[i] = "succeeded" => intent[i] = "succeeded"
    PROVE  KeepsTrack /\ KeepsWaiting
BY DEF KeepsTrack

LEMMA NextTracks == TypeInv /\ [Next]_vars => KeepsTrack /\ KeepsWaiting
<1> SUFFICES ASSUME TypeInv, [Next]_vars PROVE KeepsTrack /\ KeepsWaiting
    OBVIOUS
<1> USE PaymentsAssumption
<1>1. ASSUME NEW i \in Intents, CreateIntent(i) PROVE KeepsTrack /\ KeepsWaiting
    <2>1. \A j \in Intents : intent'[j] = "succeeded" => intent[j] = "succeeded"
        BY <1>1 DEF CreateIntent, TypeInv, TypeOK
    <2>2. KeepsWaiting
        BY <1>1 DEF CreateIntent, KeepsWaiting, bookingVars
    <2>3. QED
        BY <1>1, <2>1, <2>2, QuietTracks DEF CreateIntent, Intents
<1>2. ASSUME NEW i \in Manual, NEW inTime \in BOOLEAN, SubmitTransfer(i, inTime)
      PROVE  KeepsTrack /\ KeepsWaiting
    <2>1. \A j \in Intents : intent'[j] = "succeeded" => intent[j] = "succeeded"
        BY <1>2 DEF SubmitTransfer, TypeInv, TypeOK
    <2>2. KeepsWaiting
        BY <1>2 DEF SubmitTransfer, KeepsWaiting
    <2>3. QED
        BY <1>2, <2>1, <2>2, QuietTracks DEF SubmitTransfer, Intents
<1>3. ASSUME NEW n \in 1 .. Price, NEW refund \in BOOLEAN, CancelPassengers(n, refund)
      PROVE  KeepsTrack /\ KeepsWaiting
    <2>1. total \in Nat /\ n \in 1 .. total /\ total' = total - n
        BY <1>3 DEF CancelPassengers, TypeInv, TypeOK
    <2>2. total' > 0 => n < total /\ total > 0
        BY <2>1
    <2>3. KeepsWaiting
        BY <1>3, <2>2 DEF CancelPassengers, KeepsWaiting
    <2>4. QED
        BY <1>3, <2>3, QuietTracks DEF CancelPassengers
<1>4. ASSUME NEW i \in Manual, RejectTransfer(i) PROVE KeepsTrack /\ KeepsWaiting
    <2>1. \A j \in Intents : intent'[j] = "succeeded" => intent[j] = "succeeded"
        BY <1>4 DEF RejectTransfer, TypeInv, TypeOK
    <2>2. KeepsWaiting
        BY <1>4 DEF RejectTransfer, KeepsWaiting
    <2>3. QED
        BY <1>4, <2>1, <2>2, QuietTracks DEF RejectTransfer, Intents
<1>5. ASSUME NEW i \in Manual, NEW back \in BOOLEAN, VerifyTransfer(i, back)
      PROVE  KeepsTrack /\ KeepsWaiting
    BY <1>5, CompleteTracks DEF VerifyTransfer, Intents
<1>6. ASSUME NEW i \in Cash, NEW r \in Receipts, NEW inTime \in BOOLEAN, NEW back \in BOOLEAN,
             RecordOfficeCash(i, r, inTime, back)
      PROVE  KeepsTrack /\ KeepsWaiting
    <2>1. CASE Recorded(r)
        <3>1. \A j \in Electronic \cup Manual : intent'[j] = intent[j]
            BY <1>6 DEF RecordOfficeCash, TypeInv, TypeOK, Intents
        <3>2. KeepsWaiting
            BY <1>6, <2>1 DEF RecordOfficeCash, KeepsWaiting
        <3>3. QED
            BY <1>6, <2>1, <3>1, <3>2, QuietTracks DEF RecordOfficeCash
    <2>2. CASE ~Recorded(r)
        BY <1>6, <2>2, CompleteTracks DEF RecordOfficeCash, Intents
    <2>3. QED
        BY <2>1, <2>2
<1>7. CASE Provider \/ DeadlinePasses \/ UNCHANGED vars \/ \E w \in Workers : ListDeliveries(w)
    <2>1. UNCHANGED <<status, total, intent, txs, cases>>
        BY <1>7 DEF Provider, ReceiveEvent, DeadlinePasses, ListDeliveries, vars, bookingVars
    <2>2. QED
        BY <2>1, QuietTracks DEF KeepsWaiting
<1>8. ASSUME NEW w \in Workers, NEW e \in Events, NEW back \in BOOLEAN, ProcessDelivery(w, e, back)
      PROVE  KeepsTrack /\ KeepsWaiting
    <2>1. event[e].intent \in Intents /\ UNCHANGED total
        BY <1>8 DEF ProcessDelivery, TypeInv, BatchesAreReceived, EventsHavePayloads, Payload
    <2>2. ASSUME UNCHANGED <<status, intent, txs, cases>> PROVE KeepsTrack /\ KeepsWaiting
        BY <2>1, <2>2, QuietTracks DEF KeepsWaiting
    <2>3. ASSUME Apply(e, back), Matches(e) PROVE KeepsTrack /\ KeepsWaiting
        BY <2>1, <2>3, CompleteTracks DEF Apply
    <2>4. ASSUME Apply(e, back), ~Matches(e) PROVE KeepsTrack /\ KeepsWaiting
        <3> DEFINE row == Row(e, event[e].intent, event[e].amount, event[e].inTime, FALSE)
        <3>1. txs' = txs \cup {row} /\ ~row.ok /\ cases \subseteq cases' /\ UNCHANGED status
            BY <2>4 DEF Apply, Row
        <3>2. \A j \in Intents : intent'[j] = "succeeded" => intent[j] = "succeeded"
            BY <2>1, <2>4 DEF Apply, IntentAfter, TypeInv, TypeOK
        <3> HIDE DEF row
        <3>3. QED
            BY <2>1, <3>1, <3>2 DEF KeepsTrack, KeepsWaiting, Intents
    <2>5. QED
        BY <1>8, <2>2, <2>3, <2>4 DEF ProcessDelivery
<1>9. ASSUME ExpireUnpaidBooking PROVE KeepsTrack /\ KeepsWaiting
    <2>1. \A j \in Intents : intent'[j] = "succeeded" => intent[j] = "succeeded"
        BY <1>9 DEF ExpireUnpaidBooking
    <2>2. KeepsWaiting
        BY <1>9 DEF ExpireUnpaidBooking, Expirable, KeepsWaiting
    <2>3. QED
        BY <1>9, <2>1, <2>2, QuietTracks DEF ExpireUnpaidBooking, Intents
<1>10. QED
    BY <1>1, <1>2, <1>3, <1>4, <1>5, <1>6, <1>7, <1>8, <1>9
    DEF Next, Customer, Office, Job

(* No payment of a booking that was never served is without its case: not  *)
(* after the deadline, not when the seats are gone, not when events come   *)
(* twice or the booking was cancelled meanwhile.                           *)
THEOREM UnservedMoneyIsReviewed == Spec => []EveryUnservedPaymentHasACase
<1>1. Init => EveryUnservedPaymentHasACase
    BY DEF Init, EveryUnservedPaymentHasACase, Succeeded, Row
<1>2. TypeInv /\ EveryUnservedPaymentHasACase /\ [Next]_vars => EveryUnservedPaymentHasACase'
    <2>1. ASSUME EveryUnservedPaymentHasACase, KeepsTrack, KeepsWaiting
          PROVE  EveryUnservedPaymentHasACase'
        BY <2>1 DEF EveryUnservedPaymentHasACase, KeepsTrack, KeepsWaiting, Succeeded
    <2>2. QED
        BY <2>1, NextTracks
<1>3. QED
    BY <1>1, <1>2, InitType, NextType, PTL DEF Spec

(* A transfer or an electronic intent that shows as succeeded has a        *)
(* succeeded transaction, in whatever order its events came.               *)
THEOREM SuccessHasMoney == Spec => []SuccessIsBacked
<1>1. Init => SuccessIsBacked
    BY DEF Init, SuccessIsBacked, Intents
<1>2. TypeInv /\ SuccessIsBacked /\ [Next]_vars => SuccessIsBacked'
    <2>1. ASSUME SuccessIsBacked, KeepsTrack PROVE SuccessIsBacked'
        <3>1. \A i \in Electronic \cup Manual : i # Other
            BY PaymentsAssumption DEF Intents
        <3>2. QED
            BY <2>1, <3>1 DEF SuccessIsBacked, KeepsTrack, Succeeded
    <2>2. QED
        BY <2>1, NextTracks
<1>3. QED
    BY <1>1, <1>2, InitType, NextType, PTL DEF Spec

-----------------------------------------------------------------------------
(* The paid amount is the sum of the succeeded transactions *)

(* A step leaves the money alone, or counts one new transaction.           *)
Counts ==
    \/ paid' = paid /\ Succeeded' = Succeeded
    \/ \E t \in Transaction : /\ t \notin Succeeded /\ Succeeded' = Succeeded \cup {t}
                              /\ paid' = paid + t.amount

LEMMA CompleteCounts ==
    ASSUME NEW ref \in References, ~Recorded(ref), NEW i \in Intents, NEW a \in 1 .. Price,
           NEW inTime \in BOOLEAN, NEW back, Complete(ref, i, a, inTime, back)
    PROVE  Counts
<1> DEFINE row == Row(ref, i, a, inTime, TRUE)
<1>1. row \in Transaction /\ row.ok /\ row.intent # Other /\ row.ref = ref /\ row.amount = a
    BY PaymentsAssumption DEF Row, Transaction
<1>2. txs' = txs \cup {row} /\ paid' = paid + a
    BY DEF Complete, Applied
<1> HIDE DEF row
<1>3. row \notin Succeeded
    BY <1>1 DEF Recorded, Succeeded
<1>4. Succeeded' = Succeeded \cup {row}
    BY <1>1, <1>2 DEF Succeeded
<1>5. QED
    BY <1>1, <1>2, <1>3, <1>4 DEF Counts

LEMMA NextCounts == TypeInv /\ RefInv /\ [Next]_vars => Counts
<1> SUFFICES ASSUME TypeInv, RefInv, [Next]_vars PROVE Counts
    OBVIOUS
<1> USE PaymentsAssumption
<1>1. ASSUME UNCHANGED <<paid, txs>> PROVE Counts
    BY <1>1 DEF Counts, Succeeded
<1>2. CASE Customer \/ Provider \/ DeadlinePasses \/ ExpireUnpaidBooking \/ UNCHANGED vars
           \/ \E w \in Workers : ListDeliveries(w)
    <2>1. UNCHANGED <<paid, txs>>
        BY <1>2 DEF Customer, CreateIntent, SubmitTransfer, CancelPassengers, Provider, ReceiveEvent,
            DeadlinePasses, ExpireUnpaidBooking, ListDeliveries, vars, bookingVars
    <2>2. QED
        BY <1>1, <2>1
<1>3. ASSUME NEW i \in Manual, RejectTransfer(i) PROVE Counts
    BY <1>1, <1>3 DEF RejectTransfer
<1>4. ASSUME NEW i \in Manual, NEW back \in BOOLEAN, VerifyTransfer(i, back) PROVE Counts
    <2>1. i \in References /\ i \in Intents /\ amount[i] \in 1 .. Price /\ sentInTime[i] \in BOOLEAN
        BY <1>4 DEF VerifyTransfer, References, Intents, TypeInv, TypeOK, IntentsAskForMoney,
            TransfersHaveIntents
    <2>2. ~Recorded(i)
        BY <1>4 DEF VerifyTransfer, Recorded, RefInv, VerifiedInTheBooks
    <2>3. Complete(i, i, amount[i], sentInTime[i], back)
        BY <1>4 DEF VerifyTransfer
    <2>4. QED
        BY <2>1, <2>2, <2>3, CompleteCounts
<1>5. ASSUME NEW i \in Cash, NEW r \in Receipts, NEW inTime \in BOOLEAN, NEW back \in BOOLEAN,
             RecordOfficeCash(i, r, inTime, back)
      PROVE  Counts
    <2>1. r \in References /\ i \in Intents /\ Outstanding \in 1 .. Price
        BY <1>5 DEF RecordOfficeCash, References, Intents, Payable, Outstanding, TypeInv, TypeOK
    <2>2. CASE Recorded(r)
        BY <1>1, <1>5, <2>2 DEF RecordOfficeCash
    <2>3. CASE ~Recorded(r)
        <3>1. Complete(r, i, Outstanding, inTime, back)
            BY <1>5, <2>3 DEF RecordOfficeCash
        <3>2. QED
            BY <2>1, <2>3, <3>1, CompleteCounts
    <2>4. QED
        BY <2>2, <2>3
<1>6. ASSUME NEW w \in Workers, NEW e \in Events, NEW back \in BOOLEAN, ProcessDelivery(w, e, back)
      PROVE  Counts
    <2> DEFINE i == event[e].intent
    <2>0. event[e] \in Payload /\ intent[i] # "none"
        BY <1>6 DEF ProcessDelivery, TypeInv, BatchesAreReceived, EventsHavePayloads
    <2>1. e \in References /\ i \in Intents /\ event[e].inTime \in BOOLEAN
        BY <2>0 DEF References, Payload
    <2>2. ASSUME ~Recorded(e), i \in Electronic, ~Raises(e), Apply(e, back), Matches(e)
          PROVE  Counts
        <3>0. event[e].amount \in 1 .. Price
            BY <2>0, <2>2, AppliedAmount
        <3>1. Complete(e, i, event[e].amount, event[e].inTime, back)
            BY <2>2 DEF Apply
        <3>2. QED
            BY <2>1, <2>2, <3>0, <3>1, CompleteCounts
    <2>3. ASSUME Apply(e, back), ~Matches(e) PROVE Counts
        <3> DEFINE row == Row(e, i, event[e].amount, event[e].inTime, FALSE)
        <3>1. txs' = txs \cup {row} /\ ~row.ok /\ paid' = paid
            BY <2>3 DEF Apply, Row
        <3> HIDE DEF row
        <3>2. Succeeded' = Succeeded
            BY <3>1 DEF Succeeded
        <3>3. QED
            BY <3>1, <3>2 DEF Counts
    <2>4. QED
        BY <1>1, <1>6, <2>2, <2>3 DEF ProcessDelivery
<1>7. QED
    BY <1>2, <1>3, <1>4, <1>5, <1>6 DEF Next, Office, Job

FiniteMoney == IsFiniteSet(Succeeded) /\ Succeeded \subseteq Transaction /\ PaidIsTheSum

LEMMA SumOfOneMore ==
    ASSUME NEW S, IsFiniteSet(S), S \subseteq Transaction, NEW t \in Transaction, t \notin S
    PROVE  SumFunction([u \in S \cup {t} |-> u.amount]) = t.amount + SumFunction([u \in S |-> u.amount])
<1> DEFINE f == [u \in S |-> u.amount]
           g == [u \in S \cup {t} |-> u.amount]
<1>1. \A u \in S \cup {t} : u.amount \in Int
    BY PaymentsAssumption DEF Transaction
<1>2. /\ \A u \in S \cup {t} : g[u] = u.amount
      /\ \A u \in S : f[u] = u.amount /\ g[u] = f[u]
      /\ DOMAIN f = S /\ DOMAIN g = S \cup {t}
    OBVIOUS
<1> HIDE DEF f, g
<1>3. SumFunctionOnSet(g, S \cup {t}) = g[t] + SumFunctionOnSet(g, S)
    BY <1>1, <1>2, SumAdd
<1>4. SumFunctionOnSet(g, S) = SumFunctionOnSet(f, S)
    BY <1>1, <1>2, SumAgrees
<1>5. SumFunction(g) = t.amount + SumFunction(f)
    BY <1>2, <1>3, <1>4 DEF SumFunction
<1>6. QED
    BY <1>5 DEF f, g

(* The booking's paid amount is the sum of its succeeded transactions,     *)
(* however many workers deliver however many events, whatever comes twice  *)
(* and whatever fails.                                                     *)
THEOREM MoneyAddsUp == Spec => []PaidIsTheSum
<1>1. Init => FiniteMoney
    <2> SUFFICES ASSUME Init PROVE FiniteMoney
        OBVIOUS
    <2>1. Succeeded = {} /\ paid = 0
        BY DEF Init, Succeeded, Row
    <2> DEFINE f == [u \in {} |-> u.amount]
    <2>2. DOMAIN f = {}
        OBVIOUS
    <2> HIDE DEF f
    <2>3. SumFunction(f) = 0
        BY <2>2, SumEmpty DEF SumFunction
    <2>4. QED
        BY <2>1, <2>3, FS_EmptySet DEF f, FiniteMoney, PaidIsTheSum
<1>2. FiniteMoney /\ Counts => FiniteMoney'
    <2> SUFFICES ASSUME FiniteMoney, Counts PROVE FiniteMoney'
        OBVIOUS
    <2>1. CASE paid' = paid /\ Succeeded' = Succeeded
        BY <2>1 DEF FiniteMoney, PaidIsTheSum
    <2>2. ASSUME NEW t \in Transaction, t \notin Succeeded, Succeeded' = Succeeded \cup {t},
                 paid' = paid + t.amount
          PROVE  FiniteMoney'
        <3>1. IsFiniteSet(Succeeded')
            BY <2>2, FS_AddElement DEF FiniteMoney
        <3>2. SumFunction([u \in Succeeded \cup {t} |-> u.amount])
                = t.amount + SumFunction([u \in Succeeded |-> u.amount])
            BY <2>2, SumOfOneMore DEF FiniteMoney
        <3>3. t.amount \in Int /\ paid = SumFunction([u \in Succeeded |-> u.amount])
            BY PaymentsAssumption DEF FiniteMoney, PaidIsTheSum, Transaction
        <3>4. paid \in Int
            <4> DEFINE f == [u \in Succeeded |-> u.amount]
            <4>1. DOMAIN f = Succeeded /\ \A u \in Succeeded : f[u] \in Int
                BY PaymentsAssumption DEF FiniteMoney, Transaction
            <4> HIDE DEF f
            <4>2. SumFunction(f) \in Int
                BY <4>1, SumInt DEF FiniteMoney, SumFunction
            <4>3. QED
                BY <3>3, <4>2 DEF f
        <3>5. PaidIsTheSum'
            BY <2>2, <3>2, <3>3, <3>4 DEF PaidIsTheSum
        <3>6. QED
            BY <2>2, <3>1, <3>5 DEF FiniteMoney
    <2>3. QED
        BY <2>1, <2>2 DEF Counts
<1>3. FiniteMoney => PaidIsTheSum
    BY DEF FiniteMoney
<1>4. QED
    BY <1>1, <1>2, <1>3, NextCounts, InitType, NextType, InitRef, NextRef, PTL DEF Spec
=============================================================================
