--------------------------- MODULE OrderLifecycle ---------------------------
(***************************************************************************)
(* What the Order Engine promises about one order, with every operation a  *)
(* single indivisible step: payment confirms it and plans its tasks, the   *)
(* kitchen advances tasks one press at a time, the status follows the      *)
(* tasks forward and never past them, dispatch calls the customer only     *)
(* when everything is ready, and a cancellation stops all unfinished work. *)
(*                                                                         *)
(* The promise is deliberately silent on how soon the status follows the   *)
(* tasks: OrderEngine, which has the transactions and locks of the code,   *)
(* implements this specification but may leave the status behind.          *)
(***************************************************************************)
EXTENDS OrderDomain

CONSTANT Produced   \* the order's items that need production: one task each

VARIABLES
  status,           \* the order's status
  tasks             \* the status of each production task

vars == <<status, tasks>>

Unfinished == {t \in Produced : tasks[t] \in {"SCHEDULED", "IN_PRODUCTION"}}

Init ==
  /\ status = "AWAITING_PAYMENT"
  /\ tasks = [t \in Produced |-> NoTask]

-----------------------------------------------------------------------------
Confirm ==
  /\ status = "AWAITING_PAYMENT"
  /\ status' = IF Produced = {} THEN "READY_FOR_ASSEMBLY" ELSE "SCHEDULED"
  /\ tasks' = [t \in Produced |-> "SCHEDULED"]

(***************************************************************************)
(* One press on the kitchen screen.  The status may follow, as far as the  *)
(* tasks justify it.                                                       *)
(***************************************************************************)
Press(t) ==
  /\ InProduction(status)
  /\ \/ tasks[t] = "SCHEDULED"     /\ tasks' = [tasks EXCEPT ![t] = "IN_PRODUCTION"]
     \/ tasks[t] = "IN_PRODUCTION" /\ tasks' = [tasks EXCEPT ![t] = "READY"]
  /\ \/ status' = status
     \/ /\ status' \in DOMAIN PRODUCTION_RANK
        /\ PRODUCTION_RANK[status] < PRODUCTION_RANK[status']
        /\ PRODUCTION_RANK[status'] <= PRODUCTION_RANK[RollupOrderStatusFromTasks(tasks')]

(***************************************************************************)
(* Dispatch calls the customer: everything is ready, or staff with the     *)
(* right to force it declares the unfinished tasks ready in the same step. *)
(***************************************************************************)
CallCustomer ==
  /\ InProduction(status)
  /\ tasks' = [t \in Produced |-> IF t \in Unfinished THEN "READY" ELSE tasks[t]]
  /\ status' = "READY_FOR_PICKUP"

HandOver ==
  /\ status = "READY_FOR_PICKUP"
  /\ status' = "COMPLETED"
  /\ UNCHANGED tasks

Cancel ==
  /\ IsCancellable(status)
  /\ status' = "CANCELLED"
  /\ tasks' = [t \in Produced |-> IF t \in Unfinished THEN "CANCELLED" ELSE tasks[t]]

SettleRefund ==
  /\ status = "CANCELLED"
  /\ status' = "REFUNDED"
  /\ UNCHANGED tasks

Next ==
  \/ Confirm
  \/ \E t \in Produced : Press(t)
  \/ CallCustomer
  \/ HandOver
  \/ Cancel
  \/ SettleRefund

Spec == Init /\ [][Next]_vars

=============================================================================
