--------------------------- MODULE MsaSagaProofs ---------------------------
(***************************************************************************)
(* Proofs about the order saga, for every stock, every set of arguments    *)
(* run_flow is called with and any number of faults.                       *)
(*                                                                         *)
(* The argument: a command that is in flight, live or late, was sent at a  *)
(* point of run_flow where its precondition held (MaySend), and no         *)
(* transaction of any service undoes such a precondition (Grows).  So a    *)
(* late command finds the databases no further back than they were when it *)
(* was sent, and can only add what run_flow already decided.               *)
(***************************************************************************)
EXTENDS MsaSaga, TLAPS

Undoing == {"COMPENSATING", "CANCELLED"}

Kept == {"HELD", "RELEASED"}   \* states of a hold that was granted

\* The part of the invariant that is about the services' databases and the
\* persisted status alone.
DbInv ==
  /\ commands["order"] \in {None, "ACCEPTED"}
  /\ commands["hold"] \in {None, "HELD", "REJECTED"}
  /\ commands["payment"] \in {None, "AUTHORIZED"}
  /\ commands["shipping"] \in {None, "CREATED", "PERMANENT_FAILURE"}
  /\ commands["refund"] \in {None, "REFUNDED"}
  /\ commands["release"] \in {None, "RELEASED"}
  /\ StoredResultsTrue
  /\ StockAccounted
  /\ charges = 1 => hold \in Kept
  /\ shipment # None => charges = 1
  /\ status \in Undoing => shipment = "FAILED"
  /\ refunds = 1 \/ hold = "RELEASED" => status \in Undoing
  /\ ReleaseAfterRefund

\* What run_flow has established before it sends command k.
MaySend(k) ==
  /\ k \in {"payment", "reconcile"} => hold \in Kept
  /\ k = "shipping" => charges = 1
  /\ k \in {"refund", "release"} => status \in Undoing
  /\ k = "release" => retried \/ refunds = 1

\* Command k may still be executed: run_flow stands at its call, or gave it up.
Asked(k) == late[k] > 0 \/ (pc \in CallPoints /\ KindAt(pc) = k)

Undo == {"refund", "release", "refundAgain", "releaseAgain", "saveCancelled"}

\* What run_flow knows at each of its points, from its own answers.
FlowInv ==
  /\ req # None => pc \in CallPoints /\ req = KindAt(pc)
  /\ rsp # None => req # None
  /\ rsp \notin {None, "UNKNOWN"} =>
       rsp = commands[req] \/ (req = "reconcile" /\ rsp = "NOT_FOUND")
  /\ pc = "saveInventory" =>
       /\ answer = "HELD" => hold \in Kept
       /\ answer \notin {"HELD", "UNKNOWN"} => hold = "REJECTED"
  /\ pc = "savePayment" /\ answer = "AUTHORIZED" => charges = 1
  /\ pc = "saveCompleted" => shipment = "CREATED"
  /\ pc = "saveCompensating" => shipment = "FAILED"
  /\ pc \in Undo <=> status = "COMPENSATING" /\ pc # "idle"
  /\ pc \in {"refundAgain", "releaseAgain"} => retried
  /\ retry => retried
  /\ refundAnswer = "REFUNDED" => refunds = 1
  /\ releaseAnswer = "RELEASED" => hold = "RELEASED"
  /\ pc = "release" => refundAnswer = "REFUNDED"
  /\ pc = "saveCancelled" => refunds = 1 /\ hold = "RELEASED"
  /\ status = "COMPLETED" => shipment = "CREATED"
  /\ status = "CANCELLED" => refunds = 1 /\ hold = "RELEASED"
  /\ status \in Terminal => pc = "idle"

SendInv == \A k \in Kinds : Asked(k) => MaySend(k)

IInv == TypeOK /\ DbInv /\ SendInv /\ FlowInv /\ FinalTruthful

-----------------------------------------------------------------------------
(* Types.                                                                  *)

\* Every transaction of every service keeps the types of the databases.  This
\* needs the invariant for the counts, so only the shape is claimed here.
LEMMA ExecuteType ==
  ASSUME TypeOK, NEW k \in Kinds, NEW result \in Results, Execute(k, result)
  PROVE  /\ commands' \in [Kinds -> Results \cup {None}]
         /\ stock' \in Nat
         /\ otherHold' = otherHold
         /\ charges' \in {0, 1}
         /\ refunds' \in {0, 1}
         /\ shipment' \in {None, "CREATED", "FAILED"}
<1> USE DEF TypeOK, dbs, effects, Record, Kinds
<1>1. CASE UNCHANGED dbs
  BY <1>1
<1>2. CASE OrderTxn(result)
  BY <1>2 DEF OrderTxn
<1>3. CASE HoldTxn(result)
  BY <1>3 DEF HoldTxn
<1>4. CASE PaymentTxn(result)
  BY <1>4 DEF PaymentTxn
<1>5. CASE ReconcileTxn(result)
  BY <1>5 DEF ReconcileTxn
<1>6. CASE ShippingTxn(result)
  BY <1>6 DEF ShippingTxn
<1>7. CASE RefundTxn(result)
  BY <1>7 DEF RefundTxn
<1>8. CASE ReleaseTxn(result)
  BY <1>8 DEF ReleaseTxn
<1>9. QED
  BY <1>1, <1>2, <1>3, <1>4, <1>5, <1>6, <1>7, <1>8 DEF Execute

\* No transaction undoes what an earlier one did.
Grows ==
  /\ \A j \in Kinds : commands[j] # None => commands'[j] = commands[j]
  /\ charges = 1 => charges' = 1
  /\ refunds = 1 => refunds' = 1
  /\ shipment # None => shipment' = shipment
  /\ hold \in Kept => hold' \in Kept
  /\ hold \in {"REJECTED", "RELEASED"} => hold' = hold

\* A command that run_flow was entitled to send keeps the databases consistent
\* whenever it is executed, grows them, and answers what they say.
LEMMA ExecuteStep ==
  ASSUME TypeOK, DbInv, NEW k \in Kinds, MaySend(k),
         NEW result \in Results, Execute(k, result),
         UNCHANGED <<status, retried>>
  PROVE  /\ DbInv'
         /\ Grows
         /\ hold' \in {None, "HELD", "REJECTED", "RELEASED"}
         /\ result = commands'[k] \/ (k = "reconcile" /\ result = "NOT_FOUND")
         /\ hold' # hold => k \in {"hold", "release"}
         /\ charges' # charges => k = "payment"
         /\ shipment' # shipment => k = "shipping"
         /\ refunds' # refunds => k = "refund"
         /\ hold' = "RELEASED" => hold = "RELEASED" \/ k = "release"
<1> USE DEF TypeOK, DbInv, StoredResultsTrue, StockAccounted, ReleaseAfterRefund, Unit,
            Grows, MaySend, dbs, effects, Record, Kinds, Kept, Undoing, Prior, None
<1>1. CASE Prior(k) # None /\ result = Prior(k) /\ UNCHANGED dbs
  BY <1>1
<1>2. CASE Prior(k) = None /\ k = "order" /\ OrderTxn(result)
  BY <1>2 DEF OrderTxn
<1>3. CASE Prior(k) = None /\ k = "hold" /\ HoldTxn(result)
  BY <1>3 DEF HoldTxn
<1>4. CASE Prior(k) = None /\ k = "payment" /\ PaymentTxn(result)
  BY <1>4 DEF PaymentTxn
<1>5. CASE Prior(k) = None /\ k = "reconcile" /\ ReconcileTxn(result)
  BY <1>5 DEF ReconcileTxn
<1>6. CASE Prior(k) = None /\ k = "shipping" /\ ShippingTxn(result)
  BY <1>6 DEF ShippingTxn
<1>7. CASE Prior(k) = None /\ k = "refund" /\ RefundTxn(result)
  BY <1>7 DEF RefundTxn
<1>8. CASE Prior(k) = None /\ k = "release" /\ ReleaseTxn(result)
  BY <1>8 DEF ReleaseTxn
<1>9. QED
  BY <1>1, <1>2, <1>3, <1>4, <1>5, <1>6, <1>7, <1>8 DEF Execute

-----------------------------------------------------------------------------
(* The inductive invariant, one lemma per group of actions.                *)

LEMMA InitInv == ASSUME Init PROVE IInv
<1> USE DEF Init
<1>1. TypeOK
  BY SagaAssumption DEF TypeOK, Services, None
<1>2. DbInv
  BY SagaAssumption
     DEF DbInv, StoredResultsTrue, StockAccounted, ReleaseAfterRefund, Unit, Kinds, Undoing, None
<1>3. SendInv
  BY DEF SendInv, Asked, CallPoints, Kinds
<1>4. FlowInv
  BY DEF FlowInv, Undo, Terminal, None
<1>5. FinalTruthful
  BY DEF FinalTruthful, None
<1>6. QED
  BY <1>1, <1>2, <1>3, <1>4, <1>5 DEF IInv

\* The live service: the answer it gives is the stored one.
LEMMA ServeInv == ASSUME IInv, Serve PROVE IInv'
<1> USE DEF IInv
<1>1. PICK result \in Results : Execute(req, result) /\ rsp' = result
  BY DEF Serve
<1>2. req \in Kinds /\ pc \in CallPoints /\ req = KindAt(pc) /\ MaySend(req)
  BY DEF Serve, TypeOK, FlowInv, SendInv, Asked
<1>3. UNCHANGED <<procs, req, late, flow, status, final, faults, retried>>
  BY DEF Serve, flow, run
<1>4. /\ DbInv'
      /\ Grows
      /\ hold' \in {None, "HELD", "REJECTED", "RELEASED"}
      /\ result = commands'[req] \/ (req = "reconcile" /\ result = "NOT_FOUND")
      /\ hold' # hold => req \in {"hold", "release"}
      /\ charges' # charges => req = "payment"
      /\ shipment' # shipment => req = "shipping"
      /\ refunds' # refunds => req = "refund"
      /\ hold' = "RELEASED" => hold = "RELEASED" \/ req = "release"
  BY <1>1, <1>2, <1>3, ExecuteStep
<1>5. TypeOK'
  BY <1>1, <1>2, <1>3, <1>4, ExecuteType DEF TypeOK, procs, flow, run, answers
<1>6. SendInv'
  BY <1>3, <1>4 DEF SendInv, Asked, MaySend, Grows, flow, run, TypeOK
<1>7. FlowInv'
  BY <1>1, <1>2, <1>3, <1>4 DEF FlowInv, Grows, flow, run, answers, TypeOK, Kept, Terminal, None, Kinds
<1>8. FinalTruthful'
  BY <1>2, <1>3, <1>4 DEF FinalTruthful, Grows, TypeOK, DbInv, MaySend, Kept, Undoing, None
<1>9. QED
  BY <1>4, <1>5, <1>6, <1>7, <1>8

\* A late command: nobody hears its answer.
LEMMA ServeLateInv == ASSUME IInv, NEW k \in Kinds, ServeLate(k) PROVE IInv'
<1> USE DEF IInv
<1>1. PICK result \in Results : Execute(k, result)
  BY DEF ServeLate
<1>2. MaySend(k)
  BY DEF ServeLate, SendInv, Asked
<1>3. /\ UNCHANGED <<procs, req, rsp, flow, status, final, faults, retried>>
      /\ late[k] > 0
      /\ late' = [late EXCEPT ![k] = @ - 1]
  BY DEF ServeLate, flow, run
<1>4. /\ DbInv'
      /\ Grows
      /\ hold' \in {None, "HELD", "REJECTED", "RELEASED"}
      /\ hold' # hold => k \in {"hold", "release"}
      /\ charges' # charges => k = "payment"
      /\ shipment' # shipment => k = "shipping"
      /\ refunds' # refunds => k = "refund"
      /\ hold' = "RELEASED" => hold = "RELEASED" \/ k = "release"
  BY <1>1, <1>2, <1>3, ExecuteStep
<1>5. TypeOK'
  BY <1>1, <1>3, <1>4, ExecuteType DEF TypeOK, procs, flow, run, answers
<1>6. SendInv'
  BY <1>3, <1>4 DEF SendInv, Asked, MaySend, Grows, flow, run, TypeOK
<1>7. FlowInv'
  BY <1>2, <1>3, <1>4 DEF FlowInv, Grows, flow, run, answers, TypeOK, Kept, Terminal, None
<1>8. FinalTruthful'
  BY <1>2, <1>3, <1>4 DEF FinalTruthful, Grows, TypeOK, DbInv, MaySend, Kept, Undoing, None
<1>9. QED
  BY <1>4, <1>5, <1>6, <1>7, <1>8

\* Facts about databases nobody touched.
LEMMA DbsKept ==
  ASSUME IInv, UNCHANGED dbs, UNCHANGED <<status, retried>>
  PROVE  DbInv'
BY DEF IInv, dbs, effects, DbInv, StoredResultsTrue, StockAccounted, ReleaseAfterRefund

\* The processes and the other client.
LEMMA ProcessInv ==
  ASSUME IInv,
         \/ ServerError \/ OtherHold \/ OtherRelease
         \/ \E s \in Services : Crash(s) \/ Restart(s)
  PROVE  IInv'
<1> USE DEF IInv, dbs, effects, procs, net, flow, run, answers
<1>1. CASE ServerError
  <2>1. DbInv'
    BY <1>1, DbsKept DEF ServerError
  <2>2. TypeOK'
    BY <1>1 DEF ServerError, Fault, TypeOK, Results
  <2>3. SendInv' /\ FlowInv' /\ FinalTruthful'
    BY <1>1 DEF ServerError, SendInv, Asked, MaySend, FlowInv, FinalTruthful, None, Kept, Undo
  <2>4. QED
    BY <2>1, <2>2, <2>3
<1>2. CASE OtherHold
  <2>1. DbInv' /\ TypeOK'
    BY <1>2 DEF OtherHold, DbInv, TypeOK, StoredResultsTrue, StockAccounted,
                ReleaseAfterRefund, Unit, None
  <2>2. SendInv' /\ FlowInv' /\ FinalTruthful'
    BY <1>2 DEF OtherHold, SendInv, Asked, MaySend, FlowInv, FinalTruthful
  <2>3. QED
    BY <2>1, <2>2
<1>3. CASE OtherRelease
  <2>1. DbInv' /\ TypeOK'
    BY <1>3 DEF OtherRelease, DbInv, TypeOK, StoredResultsTrue, StockAccounted,
                ReleaseAfterRefund, Unit, None
  <2>2. SendInv' /\ FlowInv' /\ FinalTruthful'
    BY <1>3 DEF OtherRelease, SendInv, Asked, MaySend, FlowInv, FinalTruthful
  <2>3. QED
    BY <2>1, <2>2
<1>4. ASSUME NEW s \in Services, Crash(s) PROVE IInv'
  <2>1. DbInv'
    BY <1>4, DbsKept DEF Crash
  <2>2. TypeOK'
    BY <1>4 DEF Crash, Fault, TypeOK, Results
  <2>3. SendInv'
    BY <1>4 DEF Crash, SendInv, Asked, MaySend
  <2>4. FlowInv' /\ FinalTruthful'
    BY <1>4 DEF Crash, FlowInv, FinalTruthful, None, Kept, Undo
  <2>5. QED
    BY <2>1, <2>2, <2>3, <2>4
<1>5. ASSUME NEW s \in Services, Restart(s) PROVE IInv'
  <2>1. DbInv'
    BY <1>5, DbsKept DEF Restart
  <2>2. TypeOK'
    BY <1>5 DEF Restart, TypeOK
  <2>3. SendInv' /\ FlowInv' /\ FinalTruthful'
    BY <1>5 DEF Restart, SendInv, Asked, MaySend, FlowInv, FinalTruthful
  <2>4. QED
    BY <2>1, <2>2, <2>3
<1>6. QED
  BY <1>1, <1>2, <1>3, <1>4, <1>5

\* The start of a run, its calls and what can go wrong with them.
LEMMA CallInv ==
  ASSUME IInv, Start \/ Send \/ Refused \/ Timeout \/ CoordinatorCrash
  PROVE  IInv'
<1> USE DEF IInv, dbs, effects, procs, net, flow, run, answers
<1>1. CASE Start
  <2> USE <1>1 DEF Start, Goto, Return, Terminal, Undoing, None
  <2>0. /\ reconcile' \in BOOLEAN /\ retry' \in BOOLEAN /\ retried' \in BOOLEAN
        /\ (retry' => retried') /\ (retried => retried')
    BY SagaAssumption DEF TypeOK, FlowInv
  <2>1. TypeOK'
    <3>1. pc' \in {"idle"} \cup CallPoints \cup SavePoints
      BY DEF CallPoints, Kinds
    <3>2. status' \in Statuses \cup {None} /\ final' \in Finals \cup {None}
      BY DEF TypeOK, Statuses, Finals
    <3>3. /\ answer' \in Results \cup {None}
          /\ refundAnswer' \in Results \cup {None}
          /\ releaseAnswer' \in Results \cup {None}
      BY DEF TypeOK
    <3>4. QED
      BY <2>0, <3>1, <3>2, <3>3 DEF TypeOK
  <2>2. DbInv'
    BY DEF DbInv, StoredResultsTrue, StockAccounted, ReleaseAfterRefund
  <2>3. SendInv'
    BY DEF SendInv, Asked, MaySend, CallPoints, Kinds, KindAt, FlowInv
  <2>4. FlowInv'
    <3>1. CASE status \in Terminal
      BY <2>0, <3>1 DEF FlowInv, Undo
    <3>2. CASE status \notin Terminal
      BY <2>0, <3>2 DEF FlowInv, Undo, TypeOK, CallPoints, Kinds, Statuses
    <3>3. QED
      BY <3>1, <3>2
  <2>5. FinalTruthful'
    BY DEF FinalTruthful, FlowInv, DbInv, Kept, TypeOK
  <2>6. QED
    BY <2>1, <2>2, <2>3, <2>4, <2>5
<1>2. CASE Send
  <2>1. DbInv'
    BY <1>2, DbsKept DEF Send
  <2>2. TypeOK'
    BY <1>2 DEF Send, TypeOK, CallPoints, KindAt, Kinds
  <2>3. SendInv' /\ FlowInv' /\ FinalTruthful'
    BY <1>2 DEF Send, SendInv, Asked, MaySend, FlowInv, FinalTruthful, None
  <2>4. QED
    BY <2>1, <2>2, <2>3
<1>3. CASE Refused
  <2>1. DbInv'
    BY <1>3, DbsKept DEF Refused
  <2>2. TypeOK'
    BY <1>3 DEF Refused, TypeOK, Results
  <2>3. SendInv' /\ FlowInv' /\ FinalTruthful'
    BY <1>3 DEF Refused, SendInv, Asked, MaySend, FlowInv, FinalTruthful, None
  <2>4. QED
    BY <2>1, <2>2, <2>3
<1>4. CASE Timeout
  <2>1. DbInv'
    BY <1>4, DbsKept DEF Timeout
  <2>2. TypeOK'
    BY <1>4 DEF Timeout, Fault, TypeOK, Results
  <2>3. SendInv'
    BY <1>4 DEF Timeout, SendInv, Asked, MaySend, FlowInv, TypeOK
  <2>4. FlowInv' /\ FinalTruthful'
    BY <1>4 DEF Timeout, FlowInv, FinalTruthful, None
  <2>5. QED
    BY <2>1, <2>2, <2>3, <2>4
<1>5. CASE CoordinatorCrash
  <2>1. DbInv'
    BY <1>5, DbsKept DEF CoordinatorCrash
  <2>2. TypeOK'
    BY <1>5 DEF CoordinatorCrash, Fault, TypeOK
  <2>3. SendInv'
    BY <1>5 DEF CoordinatorCrash, SendInv, Asked, MaySend, FlowInv, TypeOK, CallPoints, Kinds
  <2>4. FlowInv' /\ FinalTruthful'
    BY <1>5 DEF CoordinatorCrash, FlowInv, FinalTruthful, None, Undo
  <2>5. QED
    BY <2>1, <2>2, <2>3, <2>4
<1>6. QED
  BY <1>1, <1>2, <1>3, <1>4, <1>5

\* run_flow reads an answer and goes on.
LEMMA ContinueInv == ASSUME IInv, Continue PROVE IInv'
<1> USE DEF IInv, dbs, effects, procs, net, flow, run, answers, Receive, Goto, Return,
            Conclude, CallPoints, Kinds, KindAt, Undo, Undoing, Terminal, Kept, None
<1>1. CASE AfterOrder
  <2>1. TypeOK'
    BY <1>1 DEF AfterOrder, TypeOK, CallPoints, SavePoints, Kinds, Finals, Statuses
  <2>2. SendInv'
    BY <1>1 DEF AfterOrder, SendInv, Asked, MaySend, DbInv, FlowInv, StoredResultsTrue, TypeOK
  <2>3. FlowInv' /\ FinalTruthful'
    BY <1>1 DEF AfterOrder, FlowInv, FinalTruthful, DbInv, StoredResultsTrue, TypeOK
  <2>4. QED
    BY <1>1, <2>1, <2>2, <2>3, DbsKept DEF AfterOrder
<1>2. CASE AfterHold
  <2>1. TypeOK'
    BY <1>2 DEF AfterHold, TypeOK, CallPoints, SavePoints, Kinds, Finals, Statuses
  <2>2. SendInv'
    BY <1>2 DEF AfterHold, SendInv, Asked, MaySend, DbInv, FlowInv, StoredResultsTrue, TypeOK
  <2>3. FlowInv' /\ FinalTruthful'
    BY <1>2 DEF AfterHold, FlowInv, FinalTruthful, DbInv, StoredResultsTrue, TypeOK
  <2>4. QED
    BY <1>2, <2>1, <2>2, <2>3, DbsKept DEF AfterHold
<1>3. CASE AfterReconcile
  <2>1. TypeOK'
    BY <1>3 DEF AfterReconcile, TypeOK, CallPoints, SavePoints, Kinds, Finals, Statuses
  <2>2. SendInv'
    BY <1>3 DEF AfterReconcile, SendInv, Asked, MaySend, DbInv, FlowInv, StoredResultsTrue, TypeOK
  <2>3. FlowInv' /\ FinalTruthful'
    BY <1>3 DEF AfterReconcile, FlowInv, FinalTruthful, DbInv, StoredResultsTrue, TypeOK
  <2>4. QED
    BY <1>3, <2>1, <2>2, <2>3, DbsKept DEF AfterReconcile
<1>4. CASE AfterPayment
  <2>1. TypeOK'
    BY <1>4 DEF AfterPayment, TypeOK, CallPoints, SavePoints, Kinds, Finals, Statuses
  <2>2. SendInv'
    BY <1>4 DEF AfterPayment, SendInv, Asked, MaySend, DbInv, FlowInv, StoredResultsTrue, TypeOK
  <2>3. FlowInv' /\ FinalTruthful'
    BY <1>4 DEF AfterPayment, FlowInv, FinalTruthful, DbInv, StoredResultsTrue, TypeOK
  <2>4. QED
    BY <1>4, <2>1, <2>2, <2>3, DbsKept DEF AfterPayment
<1>5. CASE AfterShipping
  <2>1. TypeOK'
    BY <1>5 DEF AfterShipping, TypeOK, CallPoints, SavePoints, Kinds, Finals, Statuses
  <2>2. SendInv'
    BY <1>5 DEF AfterShipping, SendInv, Asked, MaySend, DbInv, FlowInv, StoredResultsTrue, TypeOK
  <2>3. FlowInv' /\ FinalTruthful'
    BY <1>5 DEF AfterShipping, FlowInv, FinalTruthful, DbInv, StoredResultsTrue, TypeOK
  <2>4. QED
    BY <1>5, <2>1, <2>2, <2>3, DbsKept DEF AfterShipping
<1>6. CASE AfterRefund
  <2>1. TypeOK'
    BY <1>6 DEF AfterRefund, TypeOK, SavePoints, Finals, Results
  <2>2. SendInv'
    BY <1>6 DEF AfterRefund, SendInv, Asked, MaySend, DbInv, FlowInv, StoredResultsTrue, TypeOK
  <2>3. FlowInv' /\ FinalTruthful'
    BY <1>6 DEF AfterRefund, FlowInv, FinalTruthful, DbInv, StoredResultsTrue, TypeOK
  <2>4. QED
    BY <1>6, <2>1, <2>2, <2>3, DbsKept DEF AfterRefund
<1>7. CASE AfterRelease
  <2>1. TypeOK'
    BY <1>7 DEF AfterRelease, TypeOK, CallPoints, SavePoints, Kinds, Finals, Statuses
  <2>2. SendInv'
    BY <1>7 DEF AfterRelease, SendInv, Asked, MaySend, DbInv, FlowInv, StoredResultsTrue, TypeOK
  <2>3. FlowInv' /\ FinalTruthful'
    BY <1>7 DEF AfterRelease, FlowInv, FinalTruthful, DbInv, StoredResultsTrue, TypeOK
  <2>4. QED
    BY <1>7, <2>1, <2>2, <2>3, DbsKept DEF AfterRelease
<1>8. CASE AfterRefundAgain
  <2>1. TypeOK'
    BY <1>8 DEF AfterRefundAgain, TypeOK, CallPoints, SavePoints, Kinds, Finals, Statuses
  <2>2. SendInv'
    BY <1>8 DEF AfterRefundAgain, SendInv, Asked, MaySend, DbInv, FlowInv, StoredResultsTrue, TypeOK
  <2>3. FlowInv' /\ FinalTruthful'
    BY <1>8 DEF AfterRefundAgain, FlowInv, FinalTruthful, DbInv, StoredResultsTrue, TypeOK
  <2>4. QED
    BY <1>8, <2>1, <2>2, <2>3, DbsKept DEF AfterRefundAgain
<1>9. CASE AfterReleaseAgain
  <2>1. TypeOK'
    BY <1>9 DEF AfterReleaseAgain, TypeOK, CallPoints, SavePoints, Kinds, Finals, Statuses
  <2>2. SendInv'
    BY <1>9 DEF AfterReleaseAgain, SendInv, Asked, MaySend, DbInv, FlowInv, StoredResultsTrue, TypeOK
  <2>3. FlowInv' /\ FinalTruthful'
    BY <1>9 DEF AfterReleaseAgain, FlowInv, FinalTruthful, DbInv, StoredResultsTrue, TypeOK
  <2>4. QED
    BY <1>9, <2>1, <2>2, <2>3, DbsKept DEF AfterReleaseAgain
<1>10. QED
  BY <1>1, <1>2, <1>3, <1>4, <1>5, <1>6, <1>7, <1>8, <1>9 DEF Continue

\* run_flow saves its status and goes on.
LEMMA SaveInv == ASSUME IInv, SaveStep PROVE IInv'
<1> USE DEF IInv, dbs, effects, procs, net, flow, run, answers, Save, Goto, Return,
            CallPoints, Kinds, KindAt, Undo, Undoing, Terminal, Kept, None
<1>1. CASE SaveOrder
  <2>1. TypeOK'
    BY <1>1 DEF SaveOrder, TypeOK, SavePoints, Finals, Statuses
  <2>2. DbInv' /\ SendInv'
    BY <1>1 DEF SaveOrder, SendInv, Asked, MaySend, DbInv, FlowInv, StoredResultsTrue,
                  StockAccounted, ReleaseAfterRefund, TypeOK
  <2>3. FlowInv' /\ FinalTruthful'
    BY <1>1 DEF SaveOrder, FlowInv, FinalTruthful, DbInv, SendInv, Asked, MaySend,
                  StoredResultsTrue, TypeOK
  <2>4. QED
    BY <2>1, <2>2, <2>3
<1>2. CASE SaveInventory
  <2>1. TypeOK'
    BY <1>2 DEF SaveInventory, TypeOK, SavePoints, Finals, Statuses
  <2>2. DbInv' /\ SendInv'
    BY <1>2 DEF SaveInventory, SendInv, Asked, MaySend, DbInv, FlowInv, StoredResultsTrue,
                  StockAccounted, ReleaseAfterRefund, TypeOK
  <2>3. FlowInv' /\ FinalTruthful'
    BY <1>2 DEF SaveInventory, FlowInv, FinalTruthful, DbInv, SendInv, Asked, MaySend,
                  StoredResultsTrue, TypeOK
  <2>4. QED
    BY <2>1, <2>2, <2>3
<1>3. CASE SavePayment
  <2>1. TypeOK'
    BY <1>3 DEF SavePayment, TypeOK, SavePoints, Finals, Statuses
  <2>2. DbInv' /\ SendInv'
    BY <1>3 DEF SavePayment, SendInv, Asked, MaySend, DbInv, FlowInv, StoredResultsTrue,
                  StockAccounted, ReleaseAfterRefund, TypeOK
  <2>3. FlowInv' /\ FinalTruthful'
    BY <1>3 DEF SavePayment, FlowInv, FinalTruthful, DbInv, SendInv, Asked, MaySend,
                  StoredResultsTrue, TypeOK
  <2>4. QED
    BY <2>1, <2>2, <2>3
<1>4. CASE SaveShippingUnknown
  <2>1. TypeOK'
    BY <1>4 DEF SaveShippingUnknown, TypeOK, SavePoints, Finals, Statuses
  <2>2. DbInv' /\ SendInv'
    BY <1>4 DEF SaveShippingUnknown, SendInv, Asked, MaySend, DbInv, FlowInv, StoredResultsTrue,
                  StockAccounted, ReleaseAfterRefund, TypeOK
  <2>3. FlowInv' /\ FinalTruthful'
    BY <1>4 DEF SaveShippingUnknown, FlowInv, FinalTruthful, DbInv, SendInv, Asked, MaySend,
                  StoredResultsTrue, TypeOK
  <2>4. QED
    BY <2>1, <2>2, <2>3
<1>5. CASE SaveCompensating
  <2>1. TypeOK'
    BY <1>5 DEF SaveCompensating, TypeOK, SavePoints, Finals, Statuses
  <2>2. DbInv' /\ SendInv'
    BY <1>5 DEF SaveCompensating, SendInv, Asked, MaySend, DbInv, FlowInv, StoredResultsTrue,
                  StockAccounted, ReleaseAfterRefund, TypeOK
  <2>3. FlowInv' /\ FinalTruthful'
    BY <1>5 DEF SaveCompensating, FlowInv, FinalTruthful, DbInv, SendInv, Asked, MaySend,
                  StoredResultsTrue, TypeOK
  <2>4. QED
    BY <2>1, <2>2, <2>3
<1>6. CASE SaveCompleted
  <2>1. TypeOK'
    BY <1>6 DEF SaveCompleted, TypeOK, SavePoints, Finals, Statuses
  <2>2. DbInv' /\ SendInv'
    BY <1>6 DEF SaveCompleted, SendInv, Asked, MaySend, DbInv, FlowInv, StoredResultsTrue,
                  StockAccounted, ReleaseAfterRefund, TypeOK
  <2>3. FlowInv' /\ FinalTruthful'
    BY <1>6 DEF SaveCompleted, FlowInv, FinalTruthful, DbInv, SendInv, Asked, MaySend,
                  StoredResultsTrue, TypeOK
  <2>4. QED
    BY <2>1, <2>2, <2>3
<1>7. CASE SaveCancelled
  <2>1. TypeOK'
    BY <1>7 DEF SaveCancelled, TypeOK, SavePoints, Finals, Statuses
  <2>2. DbInv' /\ SendInv'
    BY <1>7 DEF SaveCancelled, SendInv, Asked, MaySend, DbInv, FlowInv, StoredResultsTrue,
                  StockAccounted, ReleaseAfterRefund, TypeOK
  <2>3. FlowInv' /\ FinalTruthful'
    BY <1>7 DEF SaveCancelled, FlowInv, FinalTruthful, DbInv, SendInv, Asked, MaySend,
                  StoredResultsTrue, TypeOK
  <2>4. QED
    BY <2>1, <2>2, <2>3
<1>8. QED
  BY <1>1, <1>2, <1>3, <1>4, <1>5, <1>6, <1>7 DEF SaveStep

LEMMA NextInv == ASSUME IInv, [Next]_vars PROVE IInv'
<1>1. CASE Next
  BY <1>1, ServeInv, ServeLateInv, ProcessInv, CallInv, ContinueInv, SaveInv DEF Next
<1>2. CASE UNCHANGED vars
  BY <1>2 DEF vars, dbs, effects, procs, net, flow, run, answers, IInv, TypeOK, DbInv,
              SendInv, Asked, MaySend, FlowInv, FinalTruthful, StoredResultsTrue,
              StockAccounted, ReleaseAfterRefund
<1>3. QED
  BY <1>1, <1>2

\* The strengthening all the safety results rest on.
THEOREM Invariance == Spec => []IInv
<1>1. Init => IInv
  BY InitInv
<1>2. IInv /\ [Next]_vars => IInv'
  BY NextInv
<1>3. QED
  BY <1>1, <1>2, PTL DEF Spec

-----------------------------------------------------------------------------
(* The safety results.                                                     *)

\* No effect is counted twice and no variable leaves its range, for any number
\* of timeouts, crashes, late commands and runs.
THEOREM TypeCorrect == Spec => []TypeOK
<1>1. IInv => TypeOK
  BY DEF IInv
<1>2. QED
  BY <1>1, Invariance, PTL

\* Replayed and late holds and releases neither lose nor create a unit of stock.
THEOREM StockIsAccounted == Spec => []StockAccounted
<1>1. IInv => StockAccounted
  BY DEF IInv, DbInv
<1>2. QED
  BY <1>1, Invariance, PTL

\* A command and its effect are committed together or not at all.
THEOREM StoredResultsAreTrue == Spec => []StoredResultsTrue
<1>1. IInv => StoredResultsTrue
  BY DEF IInv, DbInv
<1>2. QED
  BY <1>1, Invariance, PTL

\* A shipped order is never refunded and keeps its stock.
THEOREM ShippedStaysDone == Spec => []NeverShippedAndUndone
<1>1. IInv => NeverShippedAndUndone
  BY DEF IInv, DbInv, TypeOK, NeverShippedAndUndone, Undoing, Kept, None
<1>2. QED
  BY <1>1, Invariance, PTL

\* What run_flow returned is and stays true of the services' databases.
THEOREM FinalIsTruthful == Spec => []FinalTruthful
<1>1. IInv => FinalTruthful
  BY DEF IInv
<1>2. QED
  BY <1>1, Invariance, PTL

\* Without a retried compensation, no stock is released before the refund.
THEOREM ReleaseFollowsRefund == Spec => []ReleaseAfterRefund
<1>1. IInv => ReleaseAfterRefund
  BY DEF IInv, DbInv
<1>2. QED
  BY <1>1, Invariance, PTL

-----------------------------------------------------------------------------
(* The refinement of OrderOutcome.                                         *)

LEMMA InitRefines == Init => Outcome!Init
BY DEF Init, Outcome!Init, OutcomeBar, Terminal, None

\* A transaction of a command that run_flow was entitled to send is one step of
\* the abstract order, or none.
LEMMA ExecuteRefines ==
  ASSUME TypeOK, DbInv, FlowInv, NEW k \in Kinds, MaySend(k),
         NEW result \in Results, Execute(k, result),
         UNCHANGED <<status, retried>>
  PROVE  [Outcome!Next]_Outcome!vars
<1> USE DEF TypeOK, DbInv, StoredResultsTrue, MaySend, dbs, effects, Kinds, Kept, Undoing,
            Prior, None, OutcomeBar, Terminal, Outcome!vars, Outcome!Next
<1>1. CASE UNCHANGED dbs
  BY <1>1
<1>2. CASE Prior(k) = None /\ k = "order" /\ OrderTxn(result)
  BY <1>2 DEF OrderTxn
<1>3. CASE Prior(k) = None /\ k = "hold" /\ HoldTxn(result)
  <2>1. status \notin {"COMPLETED", "CANCELLED", "COMPENSATING"}
    BY <1>3 DEF FlowInv
  <2>2. Outcome!Reserve
    BY <1>3, <2>1 DEF HoldTxn, Outcome!Reserve
  <2>3. QED
    BY <2>2
<1>4. CASE Prior(k) = None /\ k = "payment" /\ PaymentTxn(result)
  <2>1. status \notin {"COMPLETED", "CANCELLED", "COMPENSATING"} /\ hold = "HELD"
    BY <1>4 DEF FlowInv
  <2>2. Outcome!Charge
    BY <1>4, <2>1 DEF PaymentTxn, Outcome!Charge
  <2>3. QED
    BY <2>2
<1>5. CASE Prior(k) = None /\ k = "reconcile" /\ ReconcileTxn(result)
  BY <1>5 DEF ReconcileTxn
<1>6. CASE Prior(k) = None /\ k = "shipping" /\ ShippingTxn(result)
  <2>1. status \notin {"COMPLETED", "CANCELLED", "COMPENSATING"}
    BY <1>6 DEF FlowInv
  <2>2. Outcome!Ship
    BY <1>6, <2>1 DEF ShippingTxn, Outcome!Ship
  <2>3. QED
    BY <2>2
<1>7. CASE Prior(k) = None /\ k = "refund" /\ RefundTxn(result)
  <2>1. status = "COMPENSATING" /\ charges = 1 /\ refunds = 0
    BY <1>7 DEF FlowInv
  <2>2. Outcome!Refund
    BY <1>7, <2>1 DEF RefundTxn, Outcome!Refund
  <2>3. QED
    BY <2>2
<1>8. CASE Prior(k) = None /\ k = "release" /\ ReleaseTxn(result)
  <2>1. status = "COMPENSATING" /\ hold = "HELD"
    BY <1>8 DEF FlowInv
  <2>2. Outcome!Release
    BY <1>8, <2>1 DEF ReleaseTxn, Outcome!Release
  <2>3. QED
    BY <2>2
<1>9. QED
  BY <1>1, <1>2, <1>3, <1>4, <1>5, <1>6, <1>7, <1>8 DEF Execute

LEMMA NextRefines ==
  ASSUME IInv, [Next]_vars
  PROVE  [Outcome!Next]_Outcome!vars
<1> USE DEF dbs, effects, procs, net, flow, run, answers
<1>1. CASE Serve
  <2>1. PICK result \in Results : Execute(req, result)
    BY <1>1 DEF Serve
  <2>2. req \in Kinds /\ MaySend(req)
    BY <1>1 DEF Serve, IInv, TypeOK, FlowInv, SendInv, Asked
  <2>3. QED
    BY <1>1, <2>1, <2>2, ExecuteRefines DEF Serve, IInv
<1>2. ASSUME NEW k \in Kinds, ServeLate(k) PROVE [Outcome!Next]_Outcome!vars
  <2>1. PICK result \in Results : Execute(k, result)
    BY <1>2 DEF ServeLate
  <2>2. QED
    BY <1>2, <2>1, ExecuteRefines DEF ServeLate, IInv, SendInv, Asked
<1>3. CASE \/ ServerError \/ OtherHold \/ OtherRelease \/ Send \/ Refused \/ Timeout
           \/ CoordinatorCrash \/ Continue \/ (\E s \in Services : Crash(s) \/ Restart(s))
           \/ UNCHANGED vars
  <2>1. UNCHANGED <<hold, charges, shipment, refunds, status>>
    BY <1>3 DEF ServerError, OtherHold, OtherRelease, Send, Refused, Timeout,
                CoordinatorCrash, Crash, Restart, Continue, Receive, AfterOrder, AfterHold,
                AfterReconcile, AfterPayment, AfterShipping, AfterRefund, AfterRelease,
                AfterRefundAgain, AfterReleaseAgain, vars
  <2>2. QED
    BY <2>1 DEF Outcome!vars, OutcomeBar
<1>4. CASE Start
  <2>1. UNCHANGED <<hold, charges, shipment, refunds, OutcomeBar>>
    BY <1>4 DEF Start, OutcomeBar, Terminal, None
  <2>2. QED
    BY <2>1 DEF Outcome!vars
<1>5. CASE SaveStep
  <2> USE DEF IInv, FlowInv, DbInv, Save, Undo, Undoing, Terminal, OutcomeBar,
              Outcome!vars, Outcome!Next
  <2>1. CASE SaveOrder \/ SaveInventory \/ SavePayment \/ SaveShippingUnknown
    BY <1>5, <2>1 DEF SaveOrder, SaveInventory, SavePayment, SaveShippingUnknown
  <2>2. CASE SaveCompensating
    BY <1>5, <2>2 DEF SaveCompensating, Outcome!Compensate
  <2>3. CASE SaveCompleted
    BY <1>5, <2>3 DEF SaveCompleted, Outcome!Complete
  <2>4. CASE SaveCancelled
    BY <1>5, <2>4 DEF SaveCancelled, Outcome!Cancel
  <2>5. QED
    BY <1>5, <2>1, <2>2, <2>3, <2>4 DEF SaveStep
<1>6. QED
  BY <1>1, <1>2, <1>3, <1>4, <1>5 DEF Next

\* The saga implements the promise OrderOutcome makes of one order.
THEOREM SagaImplementsOutcome == Spec => ImplementsOutcome
<1>1. Init => Outcome!Init
  BY InitRefines
<1>2. IInv /\ [Next]_vars => [Outcome!Next]_Outcome!vars
  BY NextRefines
<1>3. QED
  BY <1>1, <1>2, Invariance, PTL DEF Spec, ImplementsOutcome, Outcome!Spec
=============================================================================
