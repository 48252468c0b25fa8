---------------------------- MODULE OrderOutcome ----------------------------
(***************************************************************************)
(* What the order saga of examples/knowledge/msa-lab promises of one       *)
(* order, whatever is lost, late or restarted on the way: stock is held,   *)
(* then the payment is charged once, then shipping decides.  A shipment    *)
(* completes the order; a rejected one is compensated by one refund and    *)
(* one release, and only then is the order cancelled.  Nothing moves after *)
(* the order is completed or cancelled.                                    *)
(***************************************************************************)
EXTENDS Naturals

VARIABLES hold, charges, shipment, refunds, outcome

vars == <<hold, charges, shipment, refunds, outcome>>

Init ==
  /\ hold = "NONE"
  /\ charges = 0
  /\ shipment = "NONE"
  /\ refunds = 0
  /\ outcome = "OPEN"

Reserve ==
  /\ outcome = "OPEN" /\ hold = "NONE"
  /\ hold' \in {"HELD", "REJECTED"}
  /\ UNCHANGED <<charges, shipment, refunds, outcome>>

Charge ==
  /\ outcome = "OPEN" /\ hold = "HELD" /\ charges = 0
  /\ charges' = 1
  /\ UNCHANGED <<hold, shipment, refunds, outcome>>

Ship ==
  /\ outcome = "OPEN" /\ charges = 1 /\ shipment = "NONE"
  /\ shipment' \in {"CREATED", "FAILED"}
  /\ UNCHANGED <<hold, charges, refunds, outcome>>

Complete ==
  /\ outcome = "OPEN" /\ shipment = "CREATED"
  /\ outcome' = "COMPLETED"
  /\ UNCHANGED <<hold, charges, shipment, refunds>>

Compensate ==
  /\ outcome = "OPEN" /\ shipment = "FAILED"
  /\ outcome' = "COMPENSATING"
  /\ UNCHANGED <<hold, charges, shipment, refunds>>

Refund ==
  /\ outcome = "COMPENSATING" /\ refunds = 0
  /\ refunds' = 1
  /\ UNCHANGED <<hold, charges, shipment, outcome>>

Release ==
  /\ outcome = "COMPENSATING" /\ hold = "HELD"
  /\ hold' = "RELEASED"
  /\ UNCHANGED <<charges, shipment, refunds, outcome>>

Cancel ==
  /\ outcome = "COMPENSATING" /\ refunds = 1 /\ hold = "RELEASED"
  /\ outcome' = "CANCELLED"
  /\ UNCHANGED <<hold, charges, shipment, refunds>>

Next ==
  Reserve \/ Charge \/ Ship \/ Complete \/ Compensate \/ Refund \/ Release \/ Cancel

Spec == Init /\ [][Next]_vars
=============================================================================
