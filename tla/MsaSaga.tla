------------------------------ MODULE MsaSaga ------------------------------
(***************************************************************************)
(* The order saga of examples/knowledge/msa-lab: four service processes,   *)
(* each with its own SQLite file, and a coordinator that calls them over   *)
(* HTTP and may be killed and run again.  There is one order (o-17), so    *)
(* every command has one fixed command_id and is named here by its kind.   *)
(*                                                                         *)
(* A service handles one request at a time inside BEGIN IMMEDIATE, so a    *)
(* transaction is one step.  The coordinator gives up on a call after      *)
(* 1.5 s; the request it gave up on may still be executed later ("late").  *)
(*                                                                         *)
(* Left out: the outbox row and the effects row that every commit writes   *)
(* next to the ones kept here (nothing reads them back), the step column   *)
(* of workflow_state (written, never read) and the collision checks, which *)
(* compare fields that are constants of the one order.                     *)
(***************************************************************************)
EXTENDS Naturals, FiniteSets

CONSTANTS
  InitialStock,    \* units of SKU-A before the first hold (1 in service.py)
  Reconciling,     \* the reconcile_unknown arguments run_flow is called with
  Resuming,        \* the resume_compensation arguments run_flow is called with
  MaxFaults        \* bound: timeouts, server errors and crashes in a behaviour

ASSUME SagaAssumption ==
  /\ InitialStock \in Nat
  /\ Reconciling \subseteq BOOLEAN /\ Reconciling # {}
  /\ Resuming \subseteq BOOLEAN /\ Resuming # {}
  /\ MaxFaults \in Nat

None == "NONE"

Services == {"order", "inventory", "payment", "shipping"}

Kinds == {"order", "hold", "payment", "reconcile", "shipping", "refund", "release"}

ServiceOf(k) ==
  CASE k \in {"hold", "release"}                -> "inventory"
    [] k \in {"payment", "reconcile", "refund"} -> "payment"
    [] OTHER                                    -> k

Results == {"ACCEPTED", "HELD", "REJECTED", "AUTHORIZED", "NOT_FOUND", "CREATED",
            "PERMANENT_FAILURE", "REFUNDED", "RELEASED", "UNKNOWN"}

Statuses == {"RUNNING", "SHIPPING_UNKNOWN", "COMPENSATING", "COMPLETED", "CANCELLED"}

Terminal == {"COMPLETED", "CANCELLED"}

Finals == Terminal \cup {"INVENTORY_UNKNOWN", "PAYMENT_UNKNOWN", "SHIPPING_UNKNOWN",
                         "COMPENSATING"}

CallPoints == Kinds \cup {"refundAgain", "releaseAgain"}

SavePoints == {"saveOrder", "saveInventory", "savePayment", "saveShippingUnknown",
               "saveCompensating", "saveCompleted", "saveCancelled"}

\* The command the coordinator sends at a call point.
KindAt(p) ==
  IF p = "refundAgain" THEN "refund" ELSE IF p = "releaseAgain" THEN "release" ELSE p

VARIABLES
  commands,       \* commands table of the owning service: the stored result
  stock,          \* effects row stock:SKU-A (available)
  hold,           \* effects row hold:o-17 (state)
  otherHold,      \* effects row of a hold of another order
  charges,        \* rows ever inserted into provider_ledger for payment:o-17
  refunds,        \* rows ever inserted into provider_refund_ledger
  shipment,       \* effects row shipping:o-17 (state)
  up,             \* which service processes run
  carrierRejects, \* failpoint shipping-permanent-failure of the shipping process
  req,            \* the command the coordinator is waiting for
  rsp,            \* the status in the answer to req, once there is one
  late,           \* per kind, requests given up on that a service may still execute
  pc,             \* where run_flow stands
  reconcile,      \* argument reconcile_unknown of this run
  retry,          \* resume_compensation, in the branch of run_flow that reads it
  retried,        \* history: some run so far had retry
  answer,         \* status of the last answer kept by run_flow
  refundAnswer,   \* refund.get("status")
  releaseAnswer,  \* release.get("status")
  status,         \* workflow_state.status, None before the row exists
  final,          \* "final" of the last run_flow that returned
  faults          \* faults so far

effects == <<stock, hold, otherHold, charges, refunds, shipment>>
dbs     == <<commands, effects>>
procs   == <<up, carrierRejects>>
net     == <<req, rsp, late>>
answers == <<answer, refundAnswer, releaseAnswer>>
run     == <<reconcile, retry, retried>>
flow    == <<pc, run, answers>>
vars    == <<dbs, procs, net, flow, status, final, faults>>

Init ==
  /\ commands = [k \in Kinds |-> None]
  /\ stock = InitialStock
  /\ hold = None
  /\ otherHold = None
  /\ charges = 0
  /\ refunds = 0
  /\ shipment = None
  /\ up = [s \in Services |-> TRUE]
  /\ carrierRejects \in BOOLEAN
  /\ req = None
  /\ rsp = None
  /\ late = [k \in Kinds |-> 0]
  /\ pc = "idle"
  /\ reconcile = FALSE
  /\ retry = FALSE
  /\ retried = FALSE
  /\ answer = None
  /\ refundAnswer = None
  /\ releaseAnswer = None
  /\ status = None
  /\ final = None
  /\ faults = 0

-----------------------------------------------------------------------------
(* The transactions of the services.  Each takes the status it answers.    *)

\* INSERT INTO commands, in the same transaction as the effect.
Record(k, result) == commands' = [commands EXCEPT ![k] = result]

\* -- Mutants of the transactions: mistakes the properties must notice.

\* A release that forgets to put the unit back.
ReleaseTxnKeepsUnit(result) ==
  /\ result = "RELEASED" /\ hold' = "RELEASED" /\ Record("release", result)
  /\ UNCHANGED <<stock, otherHold, charges, refunds, shipment>>

\* A reconciliation that stores the absence it saw.
ReconcileTxnStoresAbsence(result) ==
  /\ result = IF charges = 0 THEN "NOT_FOUND" ELSE "AUTHORIZED"
  /\ Record("reconcile", result)
  /\ UNCHANGED effects

\* A hold that is granted without looking at the stock.
HoldTxnUnchecked(result) ==
  /\ result = "HELD" /\ hold' = "HELD" /\ Record("hold", result)
  /\ stock' = IF hold = None THEN stock - 1 ELSE stock
  /\ UNCHANGED <<otherHold, charges, refunds, shipment>>

\* -- The transactions of the code.

OrderTxn(result) ==
  /\ result = "ACCEPTED"
  /\ Record("order", result)
  /\ UNCHANGED effects

\* A hold that exists answers what its row says; a new one takes a unit if there is one.
HoldTxn(result) ==
  /\ result = IF hold # None THEN hold ELSE IF stock < 1 THEN "REJECTED" ELSE "HELD"
  /\ stock' = IF hold = None /\ stock >= 1 THEN stock - 1 ELSE stock
  /\ hold' = result
  /\ Record("hold", result)
  /\ UNCHANGED <<otherHold, charges, refunds, shipment>>

PaymentTxn(result) ==
  /\ result = "AUTHORIZED"
  /\ charges' = IF charges = 0 THEN 1 ELSE charges
  /\ Record("payment", result)
  /\ UNCHANGED <<stock, hold, otherHold, refunds, shipment>>

\* Absence is an observation, so NOT_FOUND is not stored.
ReconcileTxn(result) ==
  /\ \/ charges = 0 /\ result = "NOT_FOUND" /\ UNCHANGED commands
     \/ charges > 0 /\ result = "AUTHORIZED" /\ Record("reconcile", result)
  /\ UNCHANGED effects

ShippingTxn(result) ==
  /\ result = IF carrierRejects THEN "PERMANENT_FAILURE" ELSE "CREATED"
  /\ shipment' = IF carrierRejects THEN "FAILED" ELSE "CREATED"
  /\ Record("shipping", result)
  /\ UNCHANGED <<stock, hold, otherHold, charges, refunds>>

\* A refund of an unknown payment raises ValueError: rollback, and 400.
RefundTxn(result) ==
  IF charges = 0
  THEN result = "REJECTED" /\ UNCHANGED dbs
  ELSE /\ result = "REFUNDED"
       /\ refunds' = IF refunds = 0 THEN 1 ELSE refunds
       /\ Record("refund", result)
       /\ UNCHANGED <<stock, hold, otherHold, charges, shipment>>

\* Only a hold that is HELD gives its unit back; other states change nothing.
ReleaseTxn(result) ==
  IF hold = None
  THEN result = "REJECTED" /\ UNCHANGED dbs
  ELSE /\ result = "RELEASED"
       /\ stock' = IF hold = "HELD" THEN stock + 1 ELSE stock
       /\ hold' = IF hold = "HELD" THEN "RELEASED" ELSE hold
       /\ Record("release", result)
       /\ UNCHANGED <<otherHold, charges, refunds, shipment>>

\* _prior: a command_id that was committed before answers its stored result.
Prior(k) == commands[k]

Execute(k, result) ==
  \/ /\ Prior(k) # None
     /\ result = Prior(k)
     /\ UNCHANGED dbs
  \/ /\ Prior(k) = None
     /\ \/ k = "order"     /\ OrderTxn(result)
        \/ k = "hold"      /\ HoldTxn(result)
        \/ k = "payment"   /\ PaymentTxn(result)
        \/ k = "reconcile" /\ ReconcileTxn(result)
        \/ k = "shipping"  /\ ShippingTxn(result)
        \/ k = "refund"    /\ RefundTxn(result)
        \/ k = "release"   /\ ReleaseTxn(result)

-----------------------------------------------------------------------------
(* The service processes.                                                  *)

\* A service executes the request the coordinator waits for and answers it.
Serve ==
  /\ req # None /\ rsp = None
  /\ up[ServiceOf(req)]
  /\ \E result \in Results : Execute(req, result) /\ rsp' = result
  /\ UNCHANGED <<procs, req, late, flow, status, final, faults>>

\* A service executes a request nobody waits for any more.
ServeLate(k) ==
  /\ late[k] > 0
  /\ up[ServiceOf(k)]
  /\ \E result \in Results : Execute(k, result)
  /\ late' = [late EXCEPT ![k] = @ - 1]
  /\ UNCHANGED <<procs, req, rsp, flow, status, final, faults>>

Fault == faults < MaxFaults /\ faults' = faults + 1

\* do_POST answers 500 after a rollback (a locked database, for one).
ServerError ==
  /\ Fault
  /\ req # None /\ rsp = None
  /\ up[ServiceOf(req)]
  /\ rsp' = "UNKNOWN"
  /\ UNCHANGED <<dbs, procs, req, late, flow, status, final>>

\* A service process dies.  Its backlog is reset; an answer that was already
\* committed may or may not have left (payment-after-commit, refund-after-effect).
Crash(s) ==
  /\ Fault
  /\ up[s]
  /\ up' = [up EXCEPT ![s] = FALSE]
  /\ late' = [k \in Kinds |-> IF ServiceOf(k) = s THEN 0 ELSE late[k]]
  /\ IF req # None /\ ServiceOf(req) = s
     THEN rsp' = "UNKNOWN" \/ (rsp # None /\ UNCHANGED rsp)
     ELSE UNCHANGED rsp
  /\ UNCHANGED <<dbs, carrierRejects, req, flow, status, final>>

\* Shipping comes back with or without its failpoint.
Restart(s) ==
  /\ ~up[s]
  /\ up' = [up EXCEPT ![s] = TRUE]
  /\ IF s = "shipping" THEN carrierRejects' \in BOOLEAN ELSE UNCHANGED carrierRejects
  /\ UNCHANGED <<dbs, net, flow, status, final, faults>>

\* Another client's inventory and release commands, with identities of their own.
OtherHold ==
  /\ up["inventory"]
  /\ otherHold = None /\ stock >= 1
  /\ otherHold' = "HELD"
  /\ stock' = stock - 1
  /\ UNCHANGED <<commands, hold, charges, refunds, shipment, procs, net, flow, status, final, faults>>

OtherRelease ==
  /\ up["inventory"]
  /\ otherHold = "HELD"
  /\ otherHold' = "RELEASED"
  /\ stock' = stock + 1
  /\ UNCHANGED <<commands, hold, charges, refunds, shipment, procs, net, flow, status, final, faults>>

-----------------------------------------------------------------------------
(* The coordinator.                                                        *)

Goto(point) == pc' = point /\ UNCHANGED final

Return(outcome) == pc' = "idle" /\ final' = outcome

\* run_flow starts: INSERT OR IGNORE of the row, then a look at its status.
Start ==
  /\ pc = "idle"
  /\ status' = IF status = None THEN "RUNNING" ELSE status
  /\ IF status \in Terminal
     THEN /\ Return(status)
          /\ UNCHANGED <<run, answers>>
     ELSE /\ Goto(IF status = "COMPENSATING" THEN "refund" ELSE "order")
          /\ reconcile' \in Reconciling
          /\ retry' \in IF status = "COMPENSATING" THEN {FALSE} ELSE Resuming
          /\ retried' = (retried \/ retry')
          /\ answer' = None /\ refundAnswer' = None /\ releaseAnswer' = None
  /\ UNCHANGED <<dbs, procs, net, faults>>

Send ==
  /\ pc \in CallPoints
  /\ req = None
  /\ req' = KindAt(pc)
  /\ UNCHANGED <<dbs, procs, rsp, late, flow, status, final, faults>>

\* Connection refused: call answers UNKNOWN and nothing is left in flight.
Refused ==
  /\ req # None /\ rsp = None
  /\ ~up[ServiceOf(req)]
  /\ rsp' = "UNKNOWN"
  /\ UNCHANGED <<dbs, procs, req, late, flow, status, final, faults>>

\* The timeout of call: a request not executed yet stays behind, an answer that
\* was on its way is dropped.
Timeout ==
  /\ Fault
  /\ req # None /\ rsp # "UNKNOWN"
  /\ rsp' = "UNKNOWN"
  /\ late' = IF rsp = None THEN [late EXCEPT ![req] = @ + 1] ELSE late
  /\ UNCHANGED <<dbs, procs, req, flow, status, final>>

\* What every continuation of a call does with the connection.
Receive(point) ==
  /\ pc = point
  /\ req # None /\ rsp # None
  /\ req' = None /\ rsp' = None
  /\ UNCHANGED <<dbs, procs, late, run, status, faults>>

\* _save_step commits the status (RUNNING unless the caller says otherwise) and
\* run_flow goes on.
Save(point, newStatus) ==
  /\ pc = point
  /\ status' = newStatus
  /\ UNCHANGED <<dbs, procs, net, run, answers, faults>>

\* -- Mutants of the coordinator.

\* A compensation taken for done once the refund is.
ConcludeOnRefund(refund, release) ==
  IF refund = "REFUNDED" THEN Goto("saveCancelled") ELSE Return("COMPENSATING")

\* A release that does not wait for the refund.
AfterRefundUnconfirmed ==
  /\ Receive("refund")
  /\ refundAnswer' = rsp
  /\ Goto("release")
  /\ UNCHANGED <<answer, releaseAnswer>>

\* A compensation that starts before it is recorded.
SaveCompensatingRunning == Save("saveCompensating", "RUNNING") /\ Goto("refund")

\* A cancellation that is returned and never saved.
SaveCancelledForgotten == Save("saveCancelled", "COMPENSATING") /\ Return("CANCELLED")

\* -- The coordinator of the code.

\* The answer of the order service is not looked at.
AfterOrder ==
  /\ Receive("order")
  /\ Goto("saveOrder")
  /\ UNCHANGED answers

AfterHold ==
  /\ Receive("hold")
  /\ answer' = rsp
  /\ Goto("saveInventory")
  /\ UNCHANGED <<refundAnswer, releaseAnswer>>

AfterReconcile ==
  /\ Receive("reconcile")
  /\ answer' = rsp
  /\ Goto(IF rsp = "NOT_FOUND" THEN "payment" ELSE "savePayment")
  /\ UNCHANGED <<refundAnswer, releaseAnswer>>

AfterPayment ==
  /\ Receive("payment")
  /\ answer' = rsp
  /\ Goto("savePayment")
  /\ UNCHANGED <<refundAnswer, releaseAnswer>>

AfterShipping ==
  /\ Receive("shipping")
  /\ answer' = rsp
  /\ Goto(CASE rsp = "UNKNOWN" -> "saveShippingUnknown"
            [] rsp = "CREATED" -> "saveCompleted"
            [] OTHER           -> "saveCompensating")
  /\ UNCHANGED <<refundAnswer, releaseAnswer>>

\* The result of a compensation whose refund and release ended like this.
Conclude(refund, release) ==
  IF refund = "REFUNDED" /\ release = "RELEASED"
  THEN Goto("saveCancelled")
  ELSE Return("COMPENSATING")

\* Without a confirmed refund there is no release, only a release status of
\* UNKNOWN; a retrying run then asks again for whatever is UNKNOWN.
AfterRefund ==
  /\ Receive("refund")
  /\ refundAnswer' = rsp
  /\ IF rsp = "REFUNDED"
     THEN Goto("release") /\ UNCHANGED releaseAnswer
     ELSE /\ releaseAnswer' = "UNKNOWN"
          /\ IF retry
             THEN Goto(IF rsp = "UNKNOWN" THEN "refundAgain" ELSE "releaseAgain")
             ELSE Conclude(rsp, "UNKNOWN")
  /\ UNCHANGED answer

AfterRelease ==
  /\ Receive("release")
  /\ releaseAnswer' = rsp
  /\ IF retry /\ rsp = "UNKNOWN"
     THEN Goto("releaseAgain")
     ELSE Conclude(refundAnswer, rsp)
  /\ UNCHANGED <<answer, refundAnswer>>

AfterRefundAgain ==
  /\ Receive("refundAgain")
  /\ refundAnswer' = rsp
  /\ Goto("releaseAgain")
  /\ UNCHANGED <<answer, releaseAnswer>>

AfterReleaseAgain ==
  /\ Receive("releaseAgain")
  /\ releaseAnswer' = rsp
  /\ Conclude(refundAnswer, rsp)
  /\ UNCHANGED <<answer, refundAnswer>>

SaveOrder == Save("saveOrder", "RUNNING") /\ Goto("hold")

SaveInventory ==
  /\ Save("saveInventory", "RUNNING")
  /\ CASE answer = "UNKNOWN" -> Return("INVENTORY_UNKNOWN")
       [] answer = "HELD"    -> Goto(IF reconcile THEN "reconcile" ELSE "payment")
       [] OTHER              -> Return("CANCELLED")

SavePayment ==
  /\ Save("savePayment", "RUNNING")
  /\ IF answer = "AUTHORIZED" THEN Goto("shipping") ELSE Return("PAYMENT_UNKNOWN")

SaveShippingUnknown ==
  Save("saveShippingUnknown", "SHIPPING_UNKNOWN") /\ Return("SHIPPING_UNKNOWN")

SaveCompensating == Save("saveCompensating", "COMPENSATING") /\ Goto("refund")

SaveCompleted == Save("saveCompleted", "COMPLETED") /\ Return("COMPLETED")

SaveCancelled == Save("saveCancelled", "CANCELLED") /\ Return("CANCELLED")

\* The coordinator is killed; what it had sent may still be executed.
CoordinatorCrash ==
  /\ Fault
  /\ pc # "idle"
  /\ pc' = "idle"
  /\ answer' = None /\ refundAnswer' = None /\ releaseAnswer' = None
  /\ req' = None /\ rsp' = None
  /\ late' = IF req # None /\ rsp = None THEN [late EXCEPT ![req] = @ + 1] ELSE late
  /\ UNCHANGED <<dbs, procs, run, status, final>>

Continue ==
  \/ AfterOrder \/ AfterHold \/ AfterReconcile \/ AfterPayment \/ AfterShipping
  \/ AfterRefund \/ AfterRelease \/ AfterRefundAgain \/ AfterReleaseAgain

SaveStep ==
  \/ SaveOrder \/ SaveInventory \/ SavePayment \/ SaveShippingUnknown
  \/ SaveCompensating \/ SaveCompleted \/ SaveCancelled

Next ==
  \/ Serve \/ ServerError \/ OtherHold \/ OtherRelease
  \/ \E k \in Kinds : ServeLate(k)
  \/ \E s \in Services : Crash(s) \/ Restart(s)
  \/ Start \/ Send \/ Refused \/ Timeout \/ Continue \/ SaveStep
  \/ CoordinatorCrash

Spec == Init /\ [][Next]_vars

\* Live services answer, dead ones are started again, a run of the coordinator
\* goes on until it returns and run_flow is called again after it did.  Faults
\* and the other client are not fair.
Fairness ==
  /\ WF_vars(Serve) /\ WF_vars(Refused)
  /\ WF_vars(Start) /\ WF_vars(Send) /\ WF_vars(Continue) /\ WF_vars(SaveStep)
  /\ \A s \in Services : WF_vars(Restart(s))

FairSpec == Spec /\ Fairness

-----------------------------------------------------------------------------
(* Properties.                                                             *)

\* The values every variable ranges over; in particular stock never goes
\* negative and no effect is counted twice (the ledgers' primary keys).
TypeOK ==
  /\ commands \in [Kinds -> Results \cup {None}]
  /\ stock \in Nat
  /\ hold \in {None, "HELD", "REJECTED", "RELEASED"}
  /\ otherHold \in {None, "HELD", "RELEASED"}
  /\ charges \in {0, 1}
  /\ refunds \in {0, 1}
  /\ shipment \in {None, "CREATED", "FAILED"}
  /\ up \in [Services -> BOOLEAN]
  /\ carrierRejects \in BOOLEAN
  /\ req \in Kinds \cup {None}
  /\ rsp \in Results \cup {None}
  /\ late \in [Kinds -> Nat]
  /\ pc \in {"idle"} \cup CallPoints \cup SavePoints
  /\ reconcile \in BOOLEAN
  /\ retry \in BOOLEAN
  /\ retried \in BOOLEAN
  /\ answer \in Results \cup {None}
  /\ refundAnswer \in Results \cup {None}
  /\ releaseAnswer \in Results \cup {None}
  /\ status \in Statuses \cup {None}
  /\ final \in Finals \cup {None}
  /\ faults \in Nat

Unit(state) == IF state = "HELD" THEN 1 ELSE 0

\* Every unit of stock is either available or behind a hold that is HELD: no
\* replayed hold or release takes or gives back a unit twice (HoldTxn and
\* ReleaseTxn run again for late and repeated commands).
StockAccounted == stock + Unit(hold) + Unit(otherHold) = InitialStock

\* The commands table tells the truth about the effects: a stored result is
\* there exactly when its effect is, and an absence is never stored
\* (payment_reconcile may not cache NOT_FOUND).
StoredResultsTrue ==
  /\ commands["hold"] # None <=> hold # None
  /\ commands["hold"] = "HELD" <=> hold \in {"HELD", "RELEASED"}
  /\ commands["payment"] = "AUTHORIZED" <=> charges = 1
  /\ commands["reconcile"] # None => commands["reconcile"] = "AUTHORIZED" /\ charges = 1
  /\ commands["shipping"] = "CREATED" <=> shipment = "CREATED"
  /\ commands["shipping"] = "PERMANENT_FAILURE" <=> shipment = "FAILED"
  /\ commands["refund"] = "REFUNDED" <=> refunds = 1
  /\ commands["release"] = "RELEASED" <=> hold = "RELEASED"

\* The contradiction the saga exists to avoid: an order that was shipped is
\* never refunded nor given its stock back, not even when the answer about the
\* shipment was lost (SHIPPING_UNKNOWN is not a failure).
NeverShippedAndUndone ==
  shipment = "CREATED" => refunds = 0 /\ hold = "HELD"

\* What run_flow tells its caller is true of the services' databases.
FinalTruthful ==
  /\ final = "COMPLETED" => shipment = "CREATED" /\ charges = 1 /\ hold = "HELD"
  /\ final = "CANCELLED" =>
       \/ hold = "REJECTED" /\ charges = 0 /\ shipment = None
       \/ hold = "RELEASED" /\ refunds = 1 /\ shipment = "FAILED"

\* "Refund first, release only after REFUNDED is confirmed" (the note of the
\* lab): true of every behaviour in which no run retried a compensation.
ReleaseAfterRefund == hold = "RELEASED" /\ ~retried => refunds = 1

\* The same statement with no exception, as the note makes it.
ReleaseWaitsForRefund == hold = "RELEASED" => refunds = 1

\* The outcome that OrderOutcome speaks of.
OutcomeBar ==
  IF status \in Terminal \cup {"COMPENSATING"} THEN status ELSE "OPEN"

Outcome == INSTANCE OrderOutcome WITH outcome <- OutcomeBar

\* The saga implements its abstract promise: each transaction of a service and
\* each saved status is a step OrderOutcome allows, or leaves its state alone.
ImplementsOutcome == Outcome!Spec

\* If faults stop and run_flow keeps being called, the workflow reaches a terminal
\* status and stays there; the one exception is an order whose hold was rejected,
\* which run_flow reports as CANCELLED and never saves as such.
Settles == <>[](status \in Terminal \/ hold = "REJECTED")
=============================================================================
