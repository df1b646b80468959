----------------------------- MODULE OrderEngine -----------------------------
(***************************************************************************)
(* One paid order in the Order Engine: the order row, the rows of its      *)
(* production tasks and items, and the HTTP requests that change them at   *)
(* the same time (kitchen presses, dispatch, cancellation), with the       *)
(* database transactions of                                                *)
(*   apps/api/src/orders/order-engine.service.ts                           *)
(*   apps/api/src/production/production.service.ts                         *)
(*   apps/api/src/dispatch/dispatch.module.ts                              *)
(*                                                                         *)
(* The transactions run at PostgreSQL's READ COMMITTED, Prisma's default:  *)
(* every statement sees what other transactions have committed by then     *)
(* plus the writes of its own transaction; an UPDATE waits for a row that  *)
(* another transaction has written, and then re-evaluates its WHERE.  A    *)
(* transaction is therefore a sequence of steps, one for each statement    *)
(* that waits or reads; a statement that does neither is part of the step  *)
(* before it.  `order`, `task` and `item` hold committed values; what an   *)
(* open transaction has written to a row it has locked is a function of    *)
(* its operation (Written) and becomes visible when it commits.            *)
(***************************************************************************)
EXTENDS OrderDomain

CONSTANTS
  Items,       \* the items of the order
  Produced,    \* those with productionRequired: the planner makes one task for each
  Requests,    \* concurrent request handlers (each handles any number, one by one)
  NoRequest    \* the holder of a row that nobody has locked

ASSUME ProducedAssumption == Produced \subseteq Items
ASSUME RequestAssumption == NoRequest \notin Requests

VARIABLES
  order,       \* Order.status
  task,        \* ProductionTask.status of each produced item
  item,        \* OrderItem.status
  orderLock,   \* the request whose transaction has written the order row
  taskLock,    \* the same for each task row; it covers the task's item row too
  req          \* per request: [pc, op, seen, next]

vars == <<order, task, item, orderLock, taskLock, req>>

-----------------------------------------------------------------------------
(***************************************************************************)
(* A request.  `op` is what it was asked to do, `seen` the order status it *)
(* read last, `next` what the roll-up told it to write.                    *)
(***************************************************************************)
Op == {"START", "READY", "DISPATCH", "FORCE", "CANCEL"}

Pc == {"idle",        \* no request being handled
       "opened",      \* the order was read outside the transaction
       "rollup",      \* task rows written; the roll-up starts with the order row
       "rollupTasks", \* order status read; the task rows come next
       "apply",       \* roll-up computed; the order row is to be written
       "cancelling"}  \* order row written; tasks, items and payments come next

Handling(pc, op, seen) == [pc |-> pc, op |-> op, seen |-> seen, next |-> NoStatus]

Idle == Handling("idle", "none", NoStatus)

Request ==
  [pc : Pc, op : Op \cup {"none"}, seen : OrderStatus \cup {NoStatus},
   next : OrderStatus \cup {NoStatus}]

PREPARING == {"CONFIRMED", "SCHEDULED", "IN_PRODUCTION", "PARTIALLY_READY"}

(* The status `act` requires of a task, and the one an operation writes to *)
(* a task and its item.                                                    *)
Required == [START |-> "SCHEDULED", READY |-> "IN_PRODUCTION"]
Written  == [START |-> "IN_PRODUCTION", READY |-> "READY", FORCE |-> "READY"]

Unfinished == {t \in Produced : task[t] \in {"SCHEDULED", "IN_PRODUCTION"}}
Held(r)    == {t \in Produced : taskLock[t] = r}

-----------------------------------------------------------------------------
ItemsSeenBy_ForceLeavesItems(r) ==     \* faulty: force writes no item
  [i \in Items |-> IF i \in Held(r) /\ req[r].op # "FORCE"
                   THEN Written[req[r].op] ELSE item[i]]

(* The tasks and the items as the transaction of r sees them.              *)
TasksSeenBy(r) ==
  [t \in Produced |-> IF t \in Held(r) THEN Written[req[r].op] ELSE task[t]]

ItemsSeenBy(r) ==
  [i \in Items |-> IF \/ i \in Held(r)
                      \/ req[r].op = "FORCE" /\ item[i] \in {"PENDING", "IN_PRODUCTION"}
                   THEN Written[req[r].op] ELSE item[i]]

(* The end of a request: its locks are released.                           *)
Finish(r) ==
  /\ req' = [req EXCEPT ![r] = Idle]
  /\ taskLock' = [t \in Produced |-> IF taskLock[t] = r THEN NoRequest ELSE taskLock[t]]
  /\ orderLock' = IF orderLock = r THEN NoRequest ELSE orderLock

Rollback(r) == Finish(r) /\ UNCHANGED <<order, task, item>>

Commit(r, status) ==
  /\ Finish(r)
  /\ order' = status
  /\ task' = TasksSeenBy(r)
  /\ item' = ItemsSeenBy(r)

Init ==
  /\ order = "AWAITING_PAYMENT"
  /\ task = [t \in Produced |-> NoTask]
  /\ item = [i \in Items |-> "PENDING"]
  /\ orderLock = NoRequest
  /\ taskLock = [t \in Produced |-> NoRequest]
  /\ req = [r \in Requests |-> Idle]

(***************************************************************************)
(* onPaymentSucceeded with ProductionPlannerService.plan, in the           *)
(* transaction that settles the payment: AWAITING_PAYMENT -> PAID ->       *)
(* CONFIRMED -> SCHEDULED, or READY_FOR_ASSEMBLY when nothing needs        *)
(* production.  Once the first conditional UPDATE has the order row        *)
(* nothing else can wait or fail, so it is one step.                       *)
(***************************************************************************)
OnPaymentSucceeded ==
  /\ orderLock = NoRequest
  /\ order = "AWAITING_PAYMENT"
  /\ order' = IF Produced = {} THEN "READY_FOR_ASSEMBLY" ELSE "SCHEDULED"
  /\ task' = [t \in Produced |-> "SCHEDULED"]
  /\ item' = [i \in Items |-> IF i \notin Produced /\ item[i] = "PENDING"
                              THEN "READY" ELSE item[i]]
  /\ UNCHANGED <<orderLock, taskLock, req>>

-----------------------------------------------------------------------------
PressTask_AnyStatus(r, t, op) ==        \* faulty: UPDATE without the status in WHERE
  /\ req[r].pc = "idle"
  /\ taskLock[t] = NoRequest
  /\ task[t] # NoTask
  /\ taskLock' = [taskLock EXCEPT ![t] = r]
  /\ req' = [req EXCEPT ![r] = Handling("rollup", op, NoStatus)]
  /\ UNCHANGED <<order, task, item, orderLock>>

(***************************************************************************)
(* act: START or READY on one task.  The conditional UPDATE waits for the  *)
(* row, then finds the required status or answers 409 (no step).  The      *)
(* task's step and item rows are written under the same lock.              *)
(***************************************************************************)
PressTask(r, t, op) ==
  /\ req[r].pc = "idle"
  /\ taskLock[t] = NoRequest
  /\ task[t] = Required[op]
  /\ taskLock' = [taskLock EXCEPT ![t] = r]
  /\ req' = [req EXCEPT ![r] = Handling("rollup", op, NoStatus)]
  /\ UNCHANGED <<order, task, item, orderLock>>

(***************************************************************************)
(* readyForCustomer and cancel first load the order outside any            *)
(* transaction and check what they saw.  DISPATCH is readyForCustomer on   *)
(* an assembled order, FORCE the same call with force=true by staff who    *)
(* may force it.                                                           *)
(***************************************************************************)
OpenRequest(r, op) ==
  /\ req[r].pc = "idle"
  /\ \/ op = "DISPATCH" /\ order = "READY_FOR_ASSEMBLY"
     \/ op = "FORCE"    /\ order \in PREPARING
     \/ op = "CANCEL"   /\ IsCancellable(order)
  /\ req' = [req EXCEPT ![r] = Handling("opened", op, order)]
  /\ UNCHANGED <<order, task, item, orderLock, taskLock>>

DispatchReady_Unconditional(r) ==       \* faulty: trusts the status read before
  /\ req[r].pc = "opened" /\ req[r].op = "DISPATCH"
  /\ orderLock = NoRequest
  /\ Commit(r, "READY_FOR_PICKUP")

(***************************************************************************)
(* readyForCustomer without force: the single conditional transition.      *)
(***************************************************************************)
DispatchReady(r) ==
  /\ req[r].pc = "opened" /\ req[r].op = "DISPATCH"
  /\ orderLock = NoRequest
  /\ IF order = "READY_FOR_ASSEMBLY"
     THEN Commit(r, "READY_FOR_PICKUP")
     ELSE Rollback(r)

(***************************************************************************)
(* readyForCustomer with force: every unfinished task and item is declared *)
(* ready, waiting for the rows other transactions have written.  Taking    *)
(* all rows at once stands for locking them one by one: a row held early   *)
(* does not change meanwhile, and a cycle of waits ends in                 *)
(* LockWaitAborted either way.                                             *)
(***************************************************************************)
ForceTasks(r) ==
  /\ req[r].pc = "opened" /\ req[r].op = "FORCE"
  /\ \A t \in Unfinished : taskLock[t] = NoRequest
  /\ taskLock' = [t \in Produced |-> IF t \in Unfinished THEN r ELSE taskLock[t]]
  /\ req' = [req EXCEPT ![r].pc = "rollup"]
  /\ UNCHANGED <<order, task, item, orderLock>>

(***************************************************************************)
(* rollupFromTasks: the order row is read, then its task rows (Prisma      *)
(* loads an `include` with a second SELECT), and the status to write       *)
(* follows from both.                                                      *)
(***************************************************************************)
RollupReadOrder(r) ==
  /\ req[r].pc = "rollup"
  /\ req' = [req EXCEPT ![r].pc = "rollupTasks", ![r].seen = order]
  /\ UNCHANGED <<order, task, item, orderLock, taskLock>>

RollupReadTasks(r) ==
  /\ req[r].pc = "rollupTasks"
  /\ LET rollup == RollupOrderStatusFromTasks(TasksSeenBy(r))
     IN  req' = [req EXCEPT ![r].pc = "apply",
                            ![r].next = NextStatusFromRollup(req[r].seen, rollup)]
  /\ UNCHANGED <<order, task, item, orderLock, taskLock>>

(***************************************************************************)
(* The rest of `act`: nothing to write to the order, or a conditional      *)
(* transition from the status the roll-up had read (409 and roll back if   *)
(* the order has moved).                                                   *)
(***************************************************************************)
ApplyRollup(r) ==
  /\ req[r].pc = "apply" /\ req[r].op \in {"START", "READY"}
  /\ \/ /\ req[r].next = NoStatus
        /\ Commit(r, order)
     \/ /\ req[r].next # NoStatus
        /\ orderLock = NoRequest
        /\ IF order = req[r].seen
           THEN Commit(r, req[r].next)
           ELSE Rollback(r)

(***************************************************************************)
(* The rest of a forced readyForCustomer: the roll-up's transition, then   *)
(* READY_FOR_ASSEMBLY -> READY_FOR_PICKUP, both conditional.               *)
(***************************************************************************)
ApplyForce(r) ==
  /\ req[r].pc = "apply" /\ req[r].op = "FORCE"
  /\ orderLock = NoRequest
  /\ LET rolled == IF req[r].next = NoStatus THEN order ELSE req[r].next
     IN  IF /\ req[r].next # NoStatus => order = req[r].seen
            /\ rolled = "READY_FOR_ASSEMBLY"
         THEN Commit(r, "READY_FOR_PICKUP")
         ELSE Rollback(r)

CancelOrderRow_Unconditional(r) ==      \* faulty: trusts the status read before
  /\ req[r].pc = "opened" /\ req[r].op = "CANCEL"
  /\ orderLock = NoRequest
  /\ orderLock' = r
  /\ req' = [req EXCEPT ![r].pc = "cancelling"]
  /\ UNCHANGED <<order, task, item, taskLock>>

CancelTasks_StartedKept(r) ==           \* faulty: only SCHEDULED tasks are cancelled
  /\ req[r].pc = "cancelling"
  /\ \A t \in Unfinished : taskLock[t] = NoRequest
  /\ Finish(r)
  /\ order' = "CANCELLED"
  /\ task' = [t \in Produced |-> IF task[t] = "SCHEDULED" THEN "CANCELLED" ELSE task[t]]
  /\ item' = [i \in Items |-> IF item[i] # "READY" THEN "CANCELLED" ELSE item[i]]

(***************************************************************************)
(* cancel: the conditional transition from the status that was read        *)
(* outside the transaction, then the rows of unfinished tasks and of items *)
(* that are not ready.  (Its payment rows are in module Payments.)         *)
(***************************************************************************)
CancelOrderRow(r) ==
  /\ req[r].pc = "opened" /\ req[r].op = "CANCEL"
  /\ orderLock = NoRequest
  /\ IF order = req[r].seen
     THEN /\ orderLock' = r
          /\ req' = [req EXCEPT ![r].pc = "cancelling"]
          /\ UNCHANGED <<order, task, item, taskLock>>
     ELSE Rollback(r)

CancelTasks(r) ==
  /\ req[r].pc = "cancelling"
  /\ \A t \in Unfinished : taskLock[t] = NoRequest
  /\ Finish(r)
  /\ order' = "CANCELLED"
  /\ task' = [t \in Produced |-> IF t \in Unfinished THEN "CANCELLED" ELSE task[t]]
  /\ item' = [i \in Items |-> IF item[i] # "READY" THEN "CANCELLED" ELSE item[i]]

(***************************************************************************)
(* handOver, and markRefundedIfSettled once module Payments has seen every *)
(* captured payment refunded: one conditional UPDATE each.                 *)
(***************************************************************************)
HandOver ==
  /\ orderLock = NoRequest
  /\ order = "READY_FOR_PICKUP"
  /\ order' = "COMPLETED"
  /\ UNCHANGED <<task, item, orderLock, taskLock, req>>

MarkRefundedIfSettled ==
  /\ orderLock = NoRequest
  /\ order = "CANCELLED"
  /\ order' = "REFUNDED"
  /\ UNCHANGED <<task, item, orderLock, taskLock, req>>

(***************************************************************************)
(* The next statement of r waits for a row that another transaction has    *)
(* written.                                                                *)
(***************************************************************************)
Blocked(r) ==
  \/ /\ req[r].pc = "opened" /\ req[r].op \in {"DISPATCH", "CANCEL"}
     /\ orderLock # NoRequest
  \/ /\ req[r].pc = "apply"
     /\ req[r].op = "FORCE" \/ req[r].next # NoStatus
     /\ orderLock # NoRequest
  \/ /\ \/ req[r].pc = "opened" /\ req[r].op = "FORCE"
        \/ req[r].pc = "cancelling"
     /\ \E t \in Unfinished : taskLock[t] # NoRequest

-----------------------------------------------------------------------------
LockWaitAborted_Never(r) == FALSE       \* faulty: transactions without a timeout

(***************************************************************************)
(* A blocked transaction does not wait for ever: PostgreSQL aborts one of  *)
(* the transactions in a cycle of waits, and Prisma rolls an interactive   *)
(* transaction back after 15 seconds.                                      *)
(***************************************************************************)
LockWaitAborted(r) == Blocked(r) /\ Rollback(r)

(* The API process may die at any moment; the database rolls back.         *)
Crash(r) == req[r].pc # "idle" /\ Rollback(r)

Step(r) ==
  \/ DispatchReady(r)
  \/ ForceTasks(r)
  \/ RollupReadOrder(r)
  \/ RollupReadTasks(r)
  \/ ApplyRollup(r)
  \/ ApplyForce(r)
  \/ CancelOrderRow(r)
  \/ CancelTasks(r)

Next ==
  \/ OnPaymentSucceeded
  \/ HandOver
  \/ MarkRefundedIfSettled
  \/ \E r \in Requests :
        \/ \E t \in Produced, op \in {"START", "READY"} : PressTask(r, t, op)
        \/ \E op \in {"DISPATCH", "FORCE", "CANCEL"} : OpenRequest(r, op)
        \/ Step(r)
        \/ LockWaitAborted(r)
        \/ Crash(r)

Spec == Init /\ [][Next]_vars

(***************************************************************************)
(* A handler that can go on does, and a wait that would never end is       *)
(* aborted.  Fairness is strong because PostgreSQL serves the waiters of a *)
(* row in turn: a request is not overtaken for ever by later ones.         *)
(* Nothing is assumed of people: no press, payment or hand-over ever has   *)
(* to happen.                                                              *)
(***************************************************************************)
Fairness == \A r \in Requests : SF_vars(Step(r)) /\ WF_vars(LockWaitAborted(r))

FairSpec == Spec /\ Fairness

TypeOK ==
  /\ order \in OrderStatus
  /\ task \in [Produced -> ProductionTaskStatus \cup {NoTask}]
  /\ item \in [Items -> OrderItemStatus]
  /\ orderLock \in Requests \cup {NoRequest}
  /\ taskLock \in [Produced -> Requests \cup {NoRequest}]
  /\ req \in [Requests -> Request]

(***************************************************************************)
(* The order's status never runs ahead of its tasks: in production it is   *)
(* at most what the roll-up of the committed tasks justifies, and once the *)
(* customer is called no task is unfinished, whatever presses, forced      *)
(* dispatches and cancellations ran at the same time                       *)
(* (rollupFromTasks, readyForCustomer).                                    *)
(***************************************************************************)
OrderNeverAhead ==
  /\ InProduction(order) =>
       PRODUCTION_RANK[order] <= PRODUCTION_RANK[RollupOrderStatusFromTasks(task)]
  /\ order \in {"READY_FOR_PICKUP", "COMPLETED"} => \A t \in Produced : task[t] = "READY"

(***************************************************************************)
(* A cancelled order leaves no work on a kitchen screen and no item that   *)
(* anyone still waits for, even when a press was in flight (cancel, act).  *)
(***************************************************************************)
NoWorkAfterCancel ==
  order \in {"CANCELLED", "REFUNDED"} =>
    /\ Unfinished = {}
    /\ \A i \in Items : item[i] \in {"READY", "CANCELLED"}

(***************************************************************************)
(* The item a customer follows and the task the kitchen works on agree in  *)
(* every committed state (plan, act, readyForCustomer, cancel write both). *)
(***************************************************************************)
ItemMirrorsTask ==
  \A i \in Produced :
    IF task[i] = NoTask THEN item[i] \in {"PENDING", "CANCELLED"}
    ELSE item[i] = IF task[i] = "SCHEDULED" THEN "PENDING" ELSE task[i]

(***************************************************************************)
(* Every change of the order's status that a transaction commits is a      *)
(* chain of at most three legal transitions, never demotes production and  *)
(* never leaves a final status, although cancel and readyForCustomer       *)
(* decide on a status read before their transaction (transition).          *)
(***************************************************************************)
Onward(S) == S \cup UNION {ORDER_TRANSITIONS[s] : s \in S}

StatusOnlyForward ==
  [][/\ order' \in Onward(Onward(Onward({order})))
     /\ InProduction(order) /\ InProduction(order') =>
          PRODUCTION_RANK[order'] >= PRODUCTION_RANK[order]]_order

(***************************************************************************)
(* A task that is ready or cancelled stays so, and one in production never *)
(* goes back: no press is executed twice (act, spec section 57).           *)
(***************************************************************************)
TaskNeverReopened ==
  [][\A t \in Produced :
       /\ task[t] \in {"READY", "CANCELLED"} => task'[t] = task[t]
       /\ task[t] = "IN_PRODUCTION" => task'[t] # "SCHEDULED"]_task

(***************************************************************************)
(* When no request is being handled, the status is the one its tasks call  *)
(* for: the last press brings the order to assembly                        *)
(* (docs/ORDER_LIFECYCLE.md, the roll-up rule).                            *)
(***************************************************************************)
RollupKeptUp ==
  (\A r \in Requests : req[r].pc = "idle") =>
    NextStatusFromRollup(order, RollupOrderStatusFromTasks(task)) = NoStatus

(***************************************************************************)
(* The inductive invariant behind the safety properties.  Besides them it  *)
(* says what the locks are for: a transaction holds only unfinished tasks, *)
(* so no cancellation can pass it, and what it is about to write to the    *)
(* order is justified by the tasks as they will be when it commits.        *)
(***************************************************************************)
Writing(r) == req[r].pc \in {"rollup", "rollupTasks", "apply"}

TasksMatchOrder ==
  /\ order \in OrderStatus \ {"DRAFT", "PAID", "CONFIRMED"}
  /\ order = "AWAITING_PAYMENT" => /\ \A t \in Produced : task[t] = NoTask
                                   /\ \A i \in Items : item[i] = "PENDING"
  /\ InProduction(order) => \A t \in Produced : task[t] \notin {NoTask, "CANCELLED"}

OwnsItsLocks(r) ==
  /\ Held(r) # {} => Writing(r)
  /\ Held(r) \subseteq Unfinished
  /\ Writing(r) =>
       \/ /\ req[r].op \in {"START", "READY"}
          /\ \E t \in Produced : Held(r) = {t} /\ task[t] = Required[req[r].op]
       \/ req[r].op = "FORCE" /\ Unfinished \subseteq Held(r)
  /\ orderLock = r <=> req[r].pc = "cancelling"
  /\ orderLock = r => IsCancellable(order)
  /\ req[r].op = "FORCE" => order # "AWAITING_PAYMENT"
  /\ req[r].pc = "opened" /\ req[r].op = "CANCEL" => IsCancellable(req[r].seen)

RollupIsJustified(r) ==
  req[r].pc = "apply" /\ req[r].next # NoStatus =>
    /\ InProduction(req[r].seen) /\ InProduction(req[r].next)
    /\ PRODUCTION_RANK[req[r].next] > PRODUCTION_RANK[req[r].seen]
    /\ CanTransitionOrder(req[r].seen, req[r].next)
    /\ PRODUCTION_RANK[req[r].next] <=
         PRODUCTION_RANK[RollupOrderStatusFromTasks(TasksSeenBy(r))]

IInv ==
  /\ TypeOK
  /\ TasksMatchOrder
  /\ \A r \in Requests : OwnsItsLocks(r) /\ RollupIsJustified(r)
  /\ OrderNeverAhead
  /\ NoWorkAfterCancel
  /\ ItemMirrorsTask

(***************************************************************************)
(* Every request is answered: the opposite lock orders of cancel (order,   *)
(* then tasks) and of act and the forced dispatch (tasks, then order) can  *)
(* make two transactions wait for each other, but not for ever.            *)
(***************************************************************************)
EveryRequestAnswered == \A r \in Requests : req[r].pc # "idle" ~> req[r].pc = "idle"

(***************************************************************************)
(* The transactions implement the indivisible lifecycle.                   *)
(***************************************************************************)
Lifecycle == INSTANCE OrderLifecycle WITH status <- order, tasks <- task

RefinesLifecycle == Lifecycle!Spec

=============================================================================
