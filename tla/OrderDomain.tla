----------------------------- MODULE OrderDomain -----------------------------
(***************************************************************************)
(* The pure rules of packages/domain about an order and its production     *)
(* tasks: the statuses, the table of legal order transitions, the roll-up  *)
(* that derives an order status from its tasks, and its forward-only       *)
(* application.  No state; every other module takes its words from here.   *)
(***************************************************************************)
EXTENDS Naturals

(***************************************************************************)
(* Statuses (packages/domain/src/enums.ts).  NoTask stands for the row of  *)
(* a production task that the planner has not inserted yet, NoStatus for   *)
(* the `null` that nextStatusFromRollup returns.                           *)
(***************************************************************************)
NoTask   == "ABSENT"
NoStatus == "null"

OrderStatus ==
  {"DRAFT", "AWAITING_PAYMENT", "PAID", "CONFIRMED", "SCHEDULED", "IN_PRODUCTION",
   "PARTIALLY_READY", "READY_FOR_ASSEMBLY", "READY_FOR_PICKUP", "COMPLETED",
   "CANCELLED", "REFUNDED"}

ProductionTaskStatus == {"SCHEDULED", "IN_PRODUCTION", "READY", "CANCELLED"}

OrderItemStatus == {"PENDING", "IN_PRODUCTION", "READY", "CANCELLED"}

(***************************************************************************)
(* ORDER_TRANSITIONS: the statuses an order may move to from each status.  *)
(***************************************************************************)
ORDER_TRANSITIONS ==
  [DRAFT              |-> {"AWAITING_PAYMENT", "CANCELLED"},
   AWAITING_PAYMENT   |-> {"PAID", "CANCELLED"},
   PAID               |-> {"CONFIRMED", "CANCELLED"},
   CONFIRMED          |-> {"SCHEDULED", "READY_FOR_ASSEMBLY", "CANCELLED"},
   SCHEDULED          |-> {"IN_PRODUCTION", "PARTIALLY_READY", "READY_FOR_ASSEMBLY", "CANCELLED"},
   IN_PRODUCTION      |-> {"PARTIALLY_READY", "READY_FOR_ASSEMBLY", "CANCELLED"},
   PARTIALLY_READY    |-> {"IN_PRODUCTION", "READY_FOR_ASSEMBLY", "CANCELLED"},
   READY_FOR_ASSEMBLY |-> {"READY_FOR_PICKUP", "CANCELLED"},
   READY_FOR_PICKUP   |-> {"COMPLETED", "CANCELLED"},
   COMPLETED          |-> {},
   CANCELLED          |-> {"REFUNDED"},
   REFUNDED           |-> {}]

CanTransitionOrder(from, to) == to \in ORDER_TRANSITIONS[from]

IsCancellable(status) == CanTransitionOrder(status, "CANCELLED")

(***************************************************************************)
(* PRODUCTION_RANK: how far production is, for the four statuses a roll-up *)
(* can produce; undefined for every other status.                          *)
(***************************************************************************)
PRODUCTION_RANK ==
  [SCHEDULED |-> 1, IN_PRODUCTION |-> 2, PARTIALLY_READY |-> 3, READY_FOR_ASSEMBLY |-> 4]

InProduction(status) == status \in DOMAIN PRODUCTION_RANK

(***************************************************************************)
(* rollupOrderStatusFromTasks: the status implied by the tasks `st`, a     *)
(* function from task ids to their status.  Cancelled tasks are ignored;   *)
(* when nothing live is left there is nothing left to produce.             *)
(***************************************************************************)
Live(st) == {t \in DOMAIN st : st[t] \notin {NoTask, "CANCELLED"}}
Ready_StartedCounts(st) ==              \* faulty: a started task counts as done
  {t \in DOMAIN st : st[t] \in {"READY", "IN_PRODUCTION"}}

Ready(st) == {t \in DOMAIN st : st[t] = "READY"}

RollupOrderStatusFromTasks(st) ==
  IF Live(st) \subseteq Ready(st) THEN "READY_FOR_ASSEMBLY"
  ELSE IF Ready(st) # {} THEN "PARTIALLY_READY"
  ELSE IF \E t \in Live(st) : st[t] = "IN_PRODUCTION" THEN "IN_PRODUCTION"
  ELSE "SCHEDULED"

(***************************************************************************)
(* nextStatusFromRollup: the roll-up when it moves the order forward along *)
(* the table, NoStatus otherwise.                                          *)
(***************************************************************************)
NextStatusFromRollup(current, rollup) ==
  IF /\ InProduction(current)
     /\ InProduction(rollup)
     /\ PRODUCTION_RANK[rollup] > PRODUCTION_RANK[current]
     /\ CanTransitionOrder(current, rollup)
  THEN rollup
  ELSE NoStatus

=============================================================================
