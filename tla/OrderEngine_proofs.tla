-------------------------- MODULE OrderEngine_proofs --------------------------
(***************************************************************************)
(* Proofs about OrderEngine for every set of items, of items that need     *)
(* production and of concurrent requests.                                  *)
(*                                                                         *)
(* The argument.  A transaction that has written task rows holds only      *)
(* unfinished tasks (OwnsItsLocks), so a cancellation, which needs every  *)
(* unfinished task, cannot pass it; and while it is open the other tasks   *)
(* can only advance, so a roll-up computed from an older read of them is   *)
(* still justified when it is written (RollupIsJustified).  Justifies      *)
(* restates the ranks of the roll-up as statements about the tasks.        *)
(***************************************************************************)
EXTENDS OrderEngine, TLAPS

TaskValue == ProductionTaskStatus \cup {NoTask}

(* The tasks f justify an order status of rank at least that of s.         *)
Justifies(f, s) ==
  \/ \A t \in Produced : f[t] \in {NoTask, "CANCELLED", "READY"}
  \/ s = "SCHEDULED"
  \/ s = "IN_PRODUCTION" /\ \E t \in Produced : f[t] \in {"IN_PRODUCTION", "READY"}
  \/ s = "PARTIALLY_READY" /\ \E t \in Produced : f[t] = "READY"

(* g is f with some tasks further on in production.                        *)
Advances(f, g) ==
  \A t \in Produced :
    \/ g[t] = f[t]
    \/ f[t] = "SCHEDULED" /\ g[t] \in {"IN_PRODUCTION", "READY"}
    \/ f[t] = "IN_PRODUCTION" /\ g[t] = "READY"

(* The part of the invariant that concerns committed rows only.            *)
RowsInv == TasksMatchOrder /\ OrderNeverAhead /\ NoWorkAfterCancel /\ ItemMirrorsTask

-----------------------------------------------------------------------------
(* The statuses that have a rank, and their ranks.                         *)
LEMMA RankedStatus ==
  ASSUME NEW s
  PROVE  InProduction(s) <=>
           s \in {"SCHEDULED", "IN_PRODUCTION", "PARTIALLY_READY", "READY_FOR_ASSEMBLY"}
  BY DEF InProduction, PRODUCTION_RANK

(* The four ranks.                                                         *)
LEMMA RankValues ==
  /\ PRODUCTION_RANK["SCHEDULED"] = 1
  /\ PRODUCTION_RANK["IN_PRODUCTION"] = 2
  /\ PRODUCTION_RANK["PARTIALLY_READY"] = 3
  /\ PRODUCTION_RANK["READY_FOR_ASSEMBLY"] = 4
  BY DEF PRODUCTION_RANK

(* The statuses that presses require and write.                            *)
LEMMA WrittenValues ==
  /\ Written["START"] = "IN_PRODUCTION"
  /\ Written["READY"] = "READY"
  /\ Written["FORCE"] = "READY"
  /\ Required["START"] = "SCHEDULED"
  /\ Required["READY"] = "IN_PRODUCTION"
  BY DEF Written, Required

(***************************************************************************)
(* The rank of rollupOrderStatusFromTasks is at least that of s exactly    *)
(* when the tasks justify s.                                               *)
(***************************************************************************)
LEMMA RollupJustifies ==
  ASSUME NEW f \in [Produced -> TaskValue],
         NEW s, InProduction(s)
  PROVE  /\ InProduction(RollupOrderStatusFromTasks(f))
         /\ PRODUCTION_RANK[s] <= PRODUCTION_RANK[RollupOrderStatusFromTasks(f)]
              <=> Justifies(f, s)
<1> DEFINE rollup == RollupOrderStatusFromTasks(f)
<1>1. DOMAIN f = Produced
  OBVIOUS
<1>2. CASE \A t \in Produced : f[t] \in {NoTask, "CANCELLED", "READY"}
  <2>1. Live(f) \subseteq Ready(f)
    BY <1>2 DEF Live, Ready
  <2>2. rollup = "READY_FOR_ASSEMBLY"
    BY <2>1 DEF RollupOrderStatusFromTasks
  <2>. QED
    BY <2>2, <1>2, RankedStatus, RankValues DEF Justifies
<1>3. CASE \E t \in Produced : f[t] \notin {NoTask, "CANCELLED", "READY"}
  <2>1. ~(Live(f) \subseteq Ready(f))
    BY <1>1, <1>3 DEF Live, Ready
  <2>2. CASE \E t \in Produced : f[t] = "READY"
    <3>1. Ready(f) # {}
      BY <1>1, <2>2 DEF Ready
    <3>2. rollup = "PARTIALLY_READY"
      BY <2>1, <3>1 DEF RollupOrderStatusFromTasks
    <3>. QED
      BY <3>2, <1>3, <2>2, RankedStatus, RankValues DEF Justifies
  <2>3. CASE /\ \A t \in Produced : f[t] # "READY"
             /\ \E t \in Produced : f[t] = "IN_PRODUCTION"
    <3>1. Ready(f) = {}
      BY <1>1, <2>3 DEF Ready
    <3>2. \E t \in Live(f) : f[t] = "IN_PRODUCTION"
      BY <1>1, <2>3 DEF Live, NoTask
    <3>3. rollup = "IN_PRODUCTION"
      BY <2>1, <3>1, <3>2 DEF RollupOrderStatusFromTasks
    <3>. QED
      BY <3>3, <1>3, <2>3, RankedStatus, RankValues DEF Justifies
  <2>4. CASE \A t \in Produced : f[t] \notin {"READY", "IN_PRODUCTION"}
    <3>1. Ready(f) = {}
      BY <1>1, <2>4 DEF Ready
    <3>2. ~ \E t \in Live(f) : f[t] = "IN_PRODUCTION"
      BY <1>1, <2>4 DEF Live
    <3>3. rollup = "SCHEDULED"
      BY <2>1, <3>1, <3>2 DEF RollupOrderStatusFromTasks
    <3>. QED
      BY <3>3, <1>3, <2>4, RankedStatus, RankValues DEF Justifies
  <2>. QED
    BY <2>2, <2>3, <2>4
<1>. QED
  BY <1>2, <1>3

(***************************************************************************)
(* What justified a status before some tasks advanced justifies it after.  *)
(***************************************************************************)
LEMMA JustifiesMonotone ==
  ASSUME NEW f \in [Produced -> TaskValue], NEW g, NEW s,
         Advances(f, g), Justifies(f, s)
  PROVE  Justifies(g, s)
  BY DEF Advances, Justifies, NoTask

(***************************************************************************)
(* nextStatusFromRollup only ever moves forward along the table.           *)
(***************************************************************************)
LEMMA NextStatusForward ==
  ASSUME NEW s, NEW u, NextStatusFromRollup(s, u) # NoStatus
  PROVE  /\ NextStatusFromRollup(s, u) = u
         /\ InProduction(s) /\ InProduction(u)
         /\ PRODUCTION_RANK[u] > PRODUCTION_RANK[s]
         /\ CanTransitionOrder(s, u)
  BY DEF NextStatusFromRollup

(* nextStatusFromRollup returns an order status or null.                   *)
LEMMA NextStatusType ==
  ASSUME NEW s, NEW u
  PROVE  NextStatusFromRollup(s, u) \in OrderStatus \cup {NoStatus}
  BY RankedStatus DEF NextStatusFromRollup, OrderStatus
-----------------------------------------------------------------------------
(***************************************************************************)
(* What a request that finishes leaves to the others: their locks and      *)
(* their fields are untouched.                                             *)
(***************************************************************************)
LEMMA FinishEffect ==
  ASSUME TypeOK, NEW r \in Requests, Finish(r)
  PROVE  /\ req' = [req EXCEPT ![r] = Idle] /\ req'[r] = Idle
         /\ \A q \in Requests \ {r} : req'[q] = req[q]
         /\ taskLock' \in [Produced -> Requests \cup {NoRequest}]
         /\ orderLock' \in Requests \cup {NoRequest}
         /\ Held(r)' = {}
         /\ \A q \in Requests \ {r} : Held(q)' = Held(q)
         /\ orderLock' # r
         /\ \A q \in Requests \ {r} : orderLock' = q <=> orderLock = q
<1>. USE RequestAssumption DEF TypeOK, Finish
<1>1. /\ req' = [req EXCEPT ![r] = Idle] /\ req'[r] = Idle
      /\ \A q \in Requests \ {r} : req'[q] = req[q]
      /\ taskLock' \in [Produced -> Requests \cup {NoRequest}]
      /\ orderLock' \in Requests \cup {NoRequest}
      /\ orderLock' # r
      /\ \A q \in Requests \ {r} : orderLock' = q <=> orderLock = q
  OBVIOUS
<1>2. Held(r)' = {}
  BY DEF Held
<1>3. \A q \in Requests \ {r} : Held(q)' = Held(q)
  BY DEF Held
<1>. QED
  BY <1>1, <1>2, <1>3

(* Finishing returns the request to a well-typed idle record.              *)
LEMMA IdleType == Idle \in Request
  BY DEF Idle, Handling, Request, Pc, Op

(* The request table stays well-typed when a request finishes.             *)
LEMMA FinishType ==
  ASSUME TypeOK, NEW r \in Requests, Finish(r)
  PROVE  req' \in [Requests -> Request]
  BY IdleType, FinishEffect DEF TypeOK

(***************************************************************************)
(* The invariant of the committed rows is kept by any step that does not   *)
(* change them.                                                            *)
(***************************************************************************)
LEMMA RowsUnchanged ==
  ASSUME RowsInv, UNCHANGED <<order, task, item>>
  PROVE  RowsInv'
  BY DEF RowsInv, TasksMatchOrder, OrderNeverAhead, NoWorkAfterCancel, ItemMirrorsTask,
         Unfinished

(***************************************************************************)
(* The tasks a transaction sees are task statuses.                         *)
(***************************************************************************)
LEMMA SeenType ==
  ASSUME TypeOK, NEW r \in Requests, OwnsItsLocks(r)
  PROVE  TasksSeenBy(r) \in [Produced -> TaskValue]
<1>1. \A t \in Held(r) : Written[req[r].op] \in TaskValue
  BY WrittenValues DEF OwnsItsLocks, TaskValue, ProductionTaskStatus
<1>. QED
  BY <1>1 DEF TasksSeenBy, TypeOK, TaskValue

(***************************************************************************)
(* A request keeps its part of the invariant when a step changes neither   *)
(* what it holds nor what it sees.                                         *)
(***************************************************************************)
LEMMA UntouchedRequest ==
  ASSUME NEW q \in Requests, OwnsItsLocks(q), RollupIsJustified(q),
         UNCHANGED <<order, task>>,
         req'[q] = req[q], Held(q)' = Held(q), (orderLock' = q <=> orderLock = q)
  PROVE  OwnsItsLocks(q)' /\ RollupIsJustified(q)'
<1>1. TasksSeenBy(q)' = TasksSeenBy(q) /\ Unfinished' = Unfinished
  BY DEF TasksSeenBy, Unfinished
<1>. QED
  BY <1>1 DEF OwnsItsLocks, RollupIsJustified, Writing

(***************************************************************************)
(* A rolled-back request leaves the invariant intact.                      *)
(***************************************************************************)
LEMMA RollbackKeeps ==
  ASSUME IInv, NEW r \in Requests, Rollback(r)
  PROVE  IInv'
<1>. USE DEF IInv
<1>1. Finish(r) /\ UNCHANGED <<order, task, item>>
  BY DEF Rollback
<1>2. TypeOK'
  BY <1>1, FinishEffect, FinishType DEF TypeOK
<1>3. RowsInv'
  BY <1>1, RowsUnchanged DEF RowsInv
<1>4. ASSUME NEW q \in Requests
      PROVE  OwnsItsLocks(q)' /\ RollupIsJustified(q)'
  <2>1. CASE q = r
    BY <1>1, <2>1, FinishEffect DEF OwnsItsLocks, RollupIsJustified, Idle, Handling, Writing
  <2>2. CASE q # r
    <3>1. /\ req'[q] = req[q] /\ Held(q)' = Held(q)
          /\ (orderLock' = q <=> orderLock = q)
      BY <1>1, <2>2, FinishEffect
    <3>. QED
      BY <1>1, <3>1, UntouchedRequest
  <2>. QED
    BY <2>1, <2>2
<1>. QED
  BY <1>2, <1>3, <1>4 DEF RowsInv

(***************************************************************************)
(* Steps of a request that change no committed row and leave it holding    *)
(* what the others do not.                                                 *)
(***************************************************************************)
PrivateStep(r) ==
  \/ \E t \in Produced, op \in {"START", "READY"} : PressTask(r, t, op)
  \/ \E op \in {"DISPATCH", "FORCE", "CANCEL"} : OpenRequest(r, op)
  \/ ForceTasks(r)
  \/ RollupReadOrder(r)
  \/ RollupReadTasks(r)
  \/ CancelOrderRow(r) /\ order = req[r].seen

(* A private step keeps the types and changes no committed row.            *)
LEMMA PrivateStepType ==
  ASSUME IInv, NEW r \in Requests, PrivateStep(r)
  PROVE  TypeOK' /\ UNCHANGED <<order, task, item>>
<1>. USE DEF IInv, TypeOK
<1>1. UNCHANGED <<order, task, item>>
  BY DEF PrivateStep, PressTask, OpenRequest, ForceTasks, RollupReadOrder, RollupReadTasks,
         CancelOrderRow
<1>2. /\ taskLock' \in [Produced -> Requests \cup {NoRequest}]
      /\ orderLock' \in Requests \cup {NoRequest}
  BY DEF PrivateStep, PressTask, OpenRequest, ForceTasks, RollupReadOrder, RollupReadTasks,
         CancelOrderRow
<1>3. req' \in [Requests -> Request]
  <2>1. ASSUME NEW t \in Produced, NEW op \in {"START", "READY"}, PressTask(r, t, op)
        PROVE  req' \in [Requests -> Request]
    BY <2>1 DEF PressTask, Handling, Request, Pc, Op
  <2>2. ASSUME NEW op \in {"DISPATCH", "FORCE", "CANCEL"}, OpenRequest(r, op)
        PROVE  req' \in [Requests -> Request]
    BY <2>2 DEF OpenRequest, Handling, Request, Pc, Op
  <2>3. CASE ForceTasks(r)
    BY <2>3 DEF ForceTasks, Request, Pc
  <2>4. CASE RollupReadOrder(r)
    BY <2>4 DEF RollupReadOrder, Request, Pc
  <2>5. CASE RollupReadTasks(r)
    BY <2>5, NextStatusType DEF RollupReadTasks, Request, Pc
  <2>6. CASE CancelOrderRow(r) /\ order = req[r].seen
    BY <2>6 DEF CancelOrderRow, Request, Pc
  <2>. QED
    BY <2>1, <2>2, <2>3, <2>4, <2>5, <2>6 DEF PrivateStep
<1>. QED
  BY <1>1, <1>2, <1>3

(* A private step leaves every other request as it was.                    *)
LEMMA PrivateStepOthers ==
  ASSUME IInv, NEW r \in Requests, PrivateStep(r), NEW q \in Requests, q # r
  PROVE  OwnsItsLocks(q)' /\ RollupIsJustified(q)'
<1>1. req'[q] = req[q] /\ UNCHANGED <<order, task>> /\ (orderLock' = q <=> orderLock = q)
  BY RequestAssumption
     DEF PrivateStep, PressTask, OpenRequest, ForceTasks, RollupReadOrder, RollupReadTasks,
         CancelOrderRow, IInv, TypeOK
<1>2. \A t \in Produced : taskLock'[t] = q <=> taskLock[t] = q
  <2>1. ASSUME NEW t \in Produced, NEW op \in {"START", "READY"}, PressTask(r, t, op)
        PROVE  \A u \in Produced : taskLock'[u] = q <=> taskLock[u] = q
    BY <2>1, RequestAssumption DEF PressTask, IInv, TypeOK
  <2>2. CASE ForceTasks(r)
    BY <2>2, RequestAssumption DEF ForceTasks
  <2>3. CASE UNCHANGED taskLock
    BY <2>3
  <2>. QED
    BY <2>1, <2>2, <2>3
       DEF PrivateStep, OpenRequest, RollupReadOrder, RollupReadTasks, CancelOrderRow
<1>3. Held(q)' = Held(q)
  BY <1>2 DEF Held
<1>. QED
  BY <1>1, <1>3, UntouchedRequest DEF IInv

(* A private step leaves its own request within its part of the invariant. *)
LEMMA PrivateStepOwn ==
  ASSUME IInv, NEW r \in Requests, PrivateStep(r)
  PROVE  OwnsItsLocks(r)' /\ RollupIsJustified(r)'
<1>. USE DEF IInv, TypeOK
<1>1. OwnsItsLocks(r) /\ RollupIsJustified(r)
  OBVIOUS
<1>2. ASSUME NEW t \in Produced, NEW op \in {"START", "READY"}, PressTask(r, t, op)
      PROVE  OwnsItsLocks(r)' /\ RollupIsJustified(r)'
  <2>1. /\ req'[r] = Handling("rollup", op, NoStatus) /\ UNCHANGED <<order, task, orderLock>>
        /\ req[r].pc = "idle" /\ task[t] = Required[op]
    BY <1>2 DEF PressTask
  <2>2. Held(r) = {}
    BY <1>1, <2>1 DEF OwnsItsLocks, Writing
  <2>3. Held(r)' = {t}
    BY <1>2, <2>2, RequestAssumption DEF PressTask, Held
  <2>4. t \in Unfinished' 
    BY <2>1, WrittenValues DEF Unfinished
  <2>5. orderLock # r
    BY <1>1, <2>1 DEF OwnsItsLocks
  <2>. QED
    BY <2>1, <2>3, <2>4, <2>5 DEF OwnsItsLocks, RollupIsJustified, Handling, Writing
<1>3. ASSUME NEW op \in {"DISPATCH", "FORCE", "CANCEL"}, OpenRequest(r, op)
      PROVE  OwnsItsLocks(r)' /\ RollupIsJustified(r)'
  <2>1. /\ req'[r] = Handling("opened", op, order)
        /\ UNCHANGED <<order, task, orderLock, taskLock>>
        /\ req[r].pc = "idle"
        /\ op = "FORCE" => order # "AWAITING_PAYMENT"
        /\ op = "CANCEL" => IsCancellable(order)
    BY <1>3 DEF OpenRequest, PREPARING
  <2>2. Held(r)' = {}
    BY <1>1, <2>1 DEF OwnsItsLocks, Writing, Held
  <2>. QED
    BY <1>1, <2>1, <2>2 DEF OwnsItsLocks, RollupIsJustified, Handling, Writing
<1>4. CASE ForceTasks(r)
  <2>1. /\ req'[r] = [req[r] EXCEPT !.pc = "rollup"] /\ req[r].op = "FORCE" /\ req[r].pc = "opened"
        /\ UNCHANGED <<order, task, orderLock>>
    BY <1>4 DEF ForceTasks
  <2>2. Held(r) = {}
    BY <1>1, <2>1 DEF OwnsItsLocks, Writing
  <2>3. Held(r)' = Unfinished /\ Unfinished' = Unfinished
    BY <1>4, <2>2, RequestAssumption DEF ForceTasks, Held, Unfinished
  <2>4. req'[r].pc = "rollup" /\ req'[r].op = "FORCE"
    BY <2>1 DEF Request
  <2>. QED
    BY <1>1, <2>1, <2>3, <2>4 DEF OwnsItsLocks, RollupIsJustified, Writing
<1>5. CASE RollupReadOrder(r)
  <2>1. /\ UNCHANGED <<order, task, orderLock, taskLock>>
        /\ req[r].pc = "rollup" /\ req'[r].pc = "rollupTasks" /\ req'[r].op = req[r].op
    BY <1>5 DEF RollupReadOrder, Request
  <2>2. Held(r)' = Held(r) /\ Unfinished' = Unfinished
    BY <2>1 DEF Held, Unfinished
  <2>. QED
    BY <1>1, <2>1, <2>2 DEF OwnsItsLocks, RollupIsJustified, Writing
<1>6. CASE RollupReadTasks(r)
  <2>. DEFINE rollup == RollupOrderStatusFromTasks(TasksSeenBy(r))
  <2>1. /\ UNCHANGED <<order, task, orderLock, taskLock>>
        /\ req[r].pc = "rollupTasks" /\ req'[r].pc = "apply" /\ req'[r].op = req[r].op
        /\ req'[r].seen = req[r].seen
        /\ req'[r].next = NextStatusFromRollup(req[r].seen, rollup)
    BY <1>6 DEF RollupReadTasks, Request
  <2>2. Held(r)' = Held(r) /\ Unfinished' = Unfinished /\ TasksSeenBy(r)' = TasksSeenBy(r)
    BY <2>1 DEF Held, Unfinished, TasksSeenBy
  <2>3. OwnsItsLocks(r)'
    BY <1>1, <2>1, <2>2 DEF OwnsItsLocks, Writing
  <2>4. ASSUME req'[r].next # NoStatus
        PROVE  /\ req'[r].next = rollup
               /\ InProduction(req[r].seen) /\ InProduction(rollup)
               /\ PRODUCTION_RANK[rollup] > PRODUCTION_RANK[req[r].seen]
               /\ CanTransitionOrder(req[r].seen, rollup)
    BY <2>1, <2>4, NextStatusForward
  <2>5. InProduction(rollup) => PRODUCTION_RANK[rollup] <= PRODUCTION_RANK[rollup]
    BY RankedStatus, RankValues
  <2>6. RollupIsJustified(r)'
    BY <2>1, <2>2, <2>4, <2>5 DEF RollupIsJustified
  <2>. QED
    BY <2>3, <2>6
<1>7. CASE CancelOrderRow(r) /\ order = req[r].seen
  <2>1. /\ UNCHANGED <<order, task, taskLock>> /\ orderLock' = r
        /\ req[r].pc = "opened" /\ req[r].op = "CANCEL" /\ order = req[r].seen
        /\ req'[r].pc = "cancelling" /\ req'[r].op = req[r].op
    BY <1>7 DEF CancelOrderRow, Request
  <2>2. Held(r)' = Held(r) /\ Unfinished' = Unfinished
    BY <2>1 DEF Held, Unfinished
  <2>. QED
    BY <1>1, <2>1, <2>2 DEF OwnsItsLocks, RollupIsJustified, Writing
<1>. QED
  BY <1>2, <1>3, <1>4, <1>5, <1>6, <1>7 DEF PrivateStep

(* A private step keeps the invariant.                                     *)
LEMMA PrivateStepKeeps ==
  ASSUME IInv, NEW r \in Requests, PrivateStep(r)
  PROVE  IInv'
<1>1. TypeOK' /\ UNCHANGED <<order, task, item>>
  BY PrivateStepType
<1>2. RowsInv'
  BY <1>1, RowsUnchanged DEF IInv, RowsInv
<1>3. \A q \in Requests : OwnsItsLocks(q)' /\ RollupIsJustified(q)'
  BY PrivateStepOthers, PrivateStepOwn
<1>. QED
  BY <1>1, <1>2, <1>3 DEF IInv, RowsInv

-----------------------------------------------------------------------------
(***************************************************************************)
(* A request that neither holds nor writes anything is indifferent to      *)
(* what happens to the rows.                                               *)
(***************************************************************************)
LEMMA NotWritingRequest ==
  ASSUME NEW q \in Requests, OwnsItsLocks(q), ~Writing(q),
         req'[q] = req[q], Held(q)' = {}, orderLock # q, orderLock' # q,
         order' # "AWAITING_PAYMENT"
  PROVE  OwnsItsLocks(q)' /\ RollupIsJustified(q)'
  BY DEF OwnsItsLocks, RollupIsJustified, Writing

(***************************************************************************)
(* A request whose own tasks are left alone survives the progress of the   *)
(* others: what it is about to write stays justified.                      *)
(***************************************************************************)
LEMMA OvertakenRequest ==
  ASSUME TypeOK, NEW q \in Requests, OwnsItsLocks(q), RollupIsJustified(q),
         task' \in [Produced -> TaskValue], Advances(task, task'),
         \A t \in Held(q) : task'[t] = task[t],
         req'[q] = req[q], Held(q)' = Held(q),
         (orderLock' = q <=> orderLock = q) /\ (orderLock = q => order' = order),
         order' # "AWAITING_PAYMENT"
  PROVE  OwnsItsLocks(q)' /\ RollupIsJustified(q)'
<1>1. Unfinished' \subseteq Unfinished
  BY DEF Unfinished, Advances
<1>2. Held(q) \subseteq Unfinished'
  BY DEF Unfinished, OwnsItsLocks
<1>3. OwnsItsLocks(q)'
  BY <1>1, <1>2 DEF OwnsItsLocks, Writing
<1>. DEFINE old == TasksSeenBy(q)
            new == TasksSeenBy(q)'
<1>4. new = [t \in Produced |-> IF t \in Held(q) THEN Written[req[q].op] ELSE task'[t]]
  BY DEF TasksSeenBy
<1>5. Advances(old, new)
  BY <1>4 DEF Advances, TasksSeenBy
<1>6. old \in [Produced -> TaskValue]
  BY SeenType
<1>7. new \in [Produced -> TaskValue]
  <2>1. \A t \in Held(q) : Written[req[q].op] \in TaskValue
    BY WrittenValues DEF OwnsItsLocks, TaskValue, ProductionTaskStatus
  <2>. QED
    BY <1>4, <2>1
<1>8. RollupIsJustified(q)'
  <2>. SUFFICES ASSUME req[q].pc = "apply", req[q].next # NoStatus
       PROVE  /\ InProduction(req[q].seen) /\ InProduction(req[q].next)
              /\ PRODUCTION_RANK[req[q].next] > PRODUCTION_RANK[req[q].seen]
              /\ CanTransitionOrder(req[q].seen, req[q].next)
              /\ PRODUCTION_RANK[req[q].next] <=
                   PRODUCTION_RANK[RollupOrderStatusFromTasks(new)]
    BY DEF RollupIsJustified
  <2>. DEFINE s == req[q].next
  <2>1. /\ InProduction(s)
        /\ PRODUCTION_RANK[s] <= PRODUCTION_RANK[RollupOrderStatusFromTasks(old)]
    BY DEF RollupIsJustified
  <2>2. Justifies(old, s)
    BY <2>1, <1>6, RollupJustifies
  <2>3. Justifies(new, s)
    BY <2>2, <1>5, <1>6, JustifiesMonotone
  <2>4. PRODUCTION_RANK[s] <= PRODUCTION_RANK[RollupOrderStatusFromTasks(new)]
    BY <2>1, <2>3, <1>7, RollupJustifies
  <2>. QED
    BY <2>4 DEF RollupIsJustified
<1>. QED
  BY <1>3, <1>8

(***************************************************************************)
(* What a committing transaction makes of the tasks: those it holds move   *)
(* forward, those others hold stay.                                        *)
(***************************************************************************)
LEMMA CommitTasks ==
  ASSUME IInv, NEW r \in Requests, Writing(r), task' = TasksSeenBy(r)
  PROVE  /\ task' \in [Produced -> TaskValue]
         /\ Advances(task, task')
         /\ \A q \in Requests \ {r} : \A t \in Held(q) : task'[t] = task[t]
<1>1. OwnsItsLocks(r)
  BY DEF IInv
<1>2. task' \in [Produced -> TaskValue]
  BY <1>1, SeenType DEF IInv
<1>3. Advances(task, task')
  <2>. SUFFICES ASSUME NEW t \in Produced
       PROVE  \/ task'[t] = task[t]
              \/ task[t] = "SCHEDULED" /\ task'[t] \in {"IN_PRODUCTION", "READY"}
              \/ task[t] = "IN_PRODUCTION" /\ task'[t] = "READY"
    BY DEF Advances
  <2>1. CASE t \notin Held(r)
    BY <2>1 DEF TasksSeenBy
  <2>2. CASE t \in Held(r)
    BY <1>1, <2>2, WrittenValues DEF OwnsItsLocks, TasksSeenBy, Unfinished
  <2>. QED
    BY <2>1, <2>2
<1>4. ASSUME NEW q \in Requests \ {r}, NEW t \in Held(q)
      PROVE  task'[t] = task[t]
  BY <1>4 DEF Held, TasksSeenBy
<1>. QED
  BY <1>2, <1>3, <1>4

(* A commit keeps every request's part of the invariant.                   *)
LEMMA CommitRequests ==
  ASSUME IInv, NEW r \in Requests, Writing(r), Finish(r), task' = TasksSeenBy(r),
         order' # "AWAITING_PAYMENT", orderLock = NoRequest \/ order' = order,
         NEW q \in Requests
  PROVE  OwnsItsLocks(q)' /\ RollupIsJustified(q)'
<1>. USE DEF IInv
<1>1. CASE q = r
  BY <1>1, FinishEffect DEF OwnsItsLocks, RollupIsJustified, Idle, Handling, Writing
<1>2. CASE q # r
  <2>1. /\ req'[q] = req[q] /\ Held(q)' = Held(q)
        /\ (orderLock' = q <=> orderLock = q) /\ (orderLock = q => order' = order)
    BY <1>2, FinishEffect, RequestAssumption
  <2>2. /\ task' \in [Produced -> TaskValue] /\ Advances(task, task')
        /\ \A t \in Held(q) : task'[t] = task[t]
    BY <1>2, CommitTasks
  <2>. QED
    BY <2>1, <2>2, OvertakenRequest
<1>. QED
  BY <1>1, <1>2

-----------------------------------------------------------------------------
(* OrderNeverAhead, restated with Justifies.                               *)
LEMMA NeverAheadJustifies ==
  ASSUME task \in [Produced -> TaskValue], InProduction(order)
  PROVE  OrderNeverAhead <=> Justifies(task, order)
<1>1. order \notin {"READY_FOR_PICKUP", "COMPLETED"}
  BY RankedStatus
<1>. QED
  BY <1>1, RollupJustifies DEF OrderNeverAhead

(* An order with an unfinished task is in production.                      *)
LEMMA UnfinishedInProduction ==
  ASSUME RowsInv, Unfinished # {}
  PROVE  InProduction(order)
<1>1. PICK t \in Produced : task[t] \in {"SCHEDULED", "IN_PRODUCTION"}
  BY DEF Unfinished
<1>2. order \notin {"AWAITING_PAYMENT", "CANCELLED", "REFUNDED", "READY_FOR_PICKUP",
                   "COMPLETED"}
  BY <1>1 DEF RowsInv, TasksMatchOrder, NoWorkAfterCancel, OrderNeverAhead, NoTask
<1>. QED
  BY <1>2, RankedStatus DEF RowsInv, TasksMatchOrder, OrderStatus

(***************************************************************************)
(* The committed rows after a press: the order status is one the tasks     *)
(* justify, and the pressed task's item follows it.                        *)
(***************************************************************************)
LEMMA PressCommitRows ==
  ASSUME IInv, NEW r \in Requests, Writing(r), req[r].op \in {"START", "READY"},
         NEW s, Commit(r, s), InProduction(s), Justifies(task', s)
  PROVE  RowsInv'
<1>. USE DEF IInv
<1>1. order' = s /\ task' = TasksSeenBy(r) /\ item' = ItemsSeenBy(r)
  BY DEF Commit
<1>2. task' \in [Produced -> TaskValue] /\ Advances(task, task')
  BY <1>1, CommitTasks
<1>3. Unfinished # {}
  BY WrittenValues DEF OwnsItsLocks, Unfinished
<1>4. InProduction(order)
  BY <1>3, UnfinishedInProduction DEF RowsInv
<1>5. order' \in {"SCHEDULED", "IN_PRODUCTION", "PARTIALLY_READY", "READY_FOR_ASSEMBLY"}
  BY <1>1, RankedStatus
<1>6. TasksMatchOrder'
  BY <1>2, <1>4, <1>5 DEF TasksMatchOrder, Advances, OrderStatus, NoTask
<1>7. OrderNeverAhead'
  <2>1. PRODUCTION_RANK[s] <= PRODUCTION_RANK[RollupOrderStatusFromTasks(task')]
    BY <1>2, RollupJustifies
  <2>. QED
    BY <1>1, <1>5, <2>1 DEF OrderNeverAhead
<1>8. NoWorkAfterCancel'
  BY <1>5 DEF NoWorkAfterCancel
<1>9. ItemMirrorsTask'
  <2>. SUFFICES ASSUME NEW i \in Produced
       PROVE  IF task'[i] = NoTask THEN item'[i] \in {"PENDING", "CANCELLED"}
              ELSE item'[i] = IF task'[i] = "SCHEDULED" THEN "PENDING" ELSE task'[i]
    BY DEF ItemMirrorsTask
  <2>0. i \in Items
    BY ProducedAssumption
  <2>1. CASE i \in Held(r)
    BY <1>1, <2>0, <2>1, WrittenValues DEF TasksSeenBy, ItemsSeenBy, NoTask
  <2>2. CASE i \notin Held(r)
    <3>1. task'[i] = task[i] /\ item'[i] = item[i]
      BY <1>1, <2>0, <2>2 DEF TasksSeenBy, ItemsSeenBy
    <3>. QED
      BY <3>1 DEF ItemMirrorsTask
  <2>. QED
    BY <2>1, <2>2
<1>. QED
  BY <1>6, <1>7, <1>8, <1>9 DEF RowsInv

(* The committed rows after a forced dispatch: everything is ready.        *)
LEMMA ForceCommitRows ==
  ASSUME IInv, NEW r \in Requests, Writing(r), req[r].op = "FORCE",
         Commit(r, "READY_FOR_PICKUP"), InProduction(order)
  PROVE  RowsInv'
<1>. USE DEF IInv
<1>1. /\ order' = "READY_FOR_PICKUP" /\ task' = TasksSeenBy(r) /\ item' = ItemsSeenBy(r)
  BY DEF Commit
<1>2. Unfinished \subseteq Held(r)
  BY DEF OwnsItsLocks
<1>3. \A t \in Produced : task[t] \in {"SCHEDULED", "IN_PRODUCTION", "READY"}
  BY DEF TypeOK, TasksMatchOrder, ProductionTaskStatus
<1>4. \A t \in Produced : task'[t] = "READY"
  BY <1>1, <1>2, <1>3, WrittenValues DEF TasksSeenBy, Unfinished
<1>5. \A i \in Produced : item'[i] = "READY"
  <2>. SUFFICES ASSUME NEW i \in Produced PROVE item'[i] = "READY"
    OBVIOUS
  <2>0. i \in Items
    BY ProducedAssumption
  <2>1. CASE i \in Held(r)
    BY <1>1, <2>0, <2>1, WrittenValues DEF ItemsSeenBy
  <2>2. CASE i \notin Held(r)
    <3>1. task[i] = "READY"
      BY <1>2, <1>3, <2>2 DEF Unfinished
    <3>2. item[i] = "READY"
      BY <3>1 DEF ItemMirrorsTask, NoTask
    <3>. QED
      BY <1>1, <2>0, <2>2, <3>2 DEF ItemsSeenBy
  <2>. QED
    BY <2>1, <2>2
<1>6. ~InProduction(order')
  BY <1>1, RankedStatus
<1>. QED
  BY <1>1, <1>4, <1>5, <1>6
     DEF RowsInv, TasksMatchOrder, OrderNeverAhead, NoWorkAfterCancel, ItemMirrorsTask,
         OrderStatus, NoTask

(* A commit keeps the types.                                               *)
LEMMA CommitType ==
  ASSUME IInv, NEW r \in Requests, NEW s \in OrderStatus, Commit(r, s)
  PROVE  TypeOK'
<1>. USE DEF IInv, TypeOK
<1>1. Finish(r) /\ order' = s /\ task' = TasksSeenBy(r) /\ item' = ItemsSeenBy(r)
  BY DEF Commit
<1>2. task' \in [Produced -> ProductionTaskStatus \cup {NoTask}]
  BY <1>1, SeenType DEF TaskValue
<1>3. item' \in [Items -> OrderItemStatus]
  <2>1. \A i \in Held(r) : Written[req[r].op] \in OrderItemStatus
    BY WrittenValues DEF OwnsItsLocks, OrderItemStatus
  <2>2. req[r].op = "FORCE" => Written[req[r].op] \in OrderItemStatus
    BY WrittenValues DEF OrderItemStatus
  <2>3. \A i \in Items : ItemsSeenBy(r)[i] \in OrderItemStatus
    BY <2>1, <2>2 DEF ItemsSeenBy
  <2>. QED
    BY <1>1, <2>3 DEF ItemsSeenBy
<1>. QED
  BY <1>1, <1>2, <1>3, FinishEffect, FinishType

(***************************************************************************)
(* The last step of a press keeps the invariant.                           *)
(***************************************************************************)
LEMMA ApplyRollupKeeps ==
  ASSUME IInv, NEW r \in Requests, ApplyRollup(r)
  PROVE  IInv'
<1>. USE DEF IInv
<1>1. req[r].pc = "apply" /\ req[r].op \in {"START", "READY"} /\ Writing(r)
  BY DEF ApplyRollup, Writing
<1>2. RowsInv /\ Unfinished # {}
  BY <1>1, WrittenValues DEF RowsInv, OwnsItsLocks, Unfinished
<1>3. InProduction(order)
  BY <1>2, UnfinishedInProduction
<1>4. ASSUME NEW s \in OrderStatus, Commit(r, s), InProduction(s), Justifies(task', s),
             orderLock = NoRequest \/ s = order
      PROVE  IInv'
  <2>1. TypeOK'
    BY <1>4, CommitType
  <2>2. RowsInv'
    BY <1>1, <1>4, PressCommitRows
  <2>3. Finish(r) /\ task' = TasksSeenBy(r) /\ order' = s /\ s # "AWAITING_PAYMENT"
    BY <1>4, RankedStatus DEF Commit
  <2>4. \A q \in Requests : OwnsItsLocks(q)' /\ RollupIsJustified(q)'
    BY <1>1, <1>4, <2>3, CommitRequests
  <2>. QED
    BY <2>1, <2>2, <2>4 DEF RowsInv
<1>5. CASE req[r].next = NoStatus /\ Commit(r, order)
  <2>1. order \in OrderStatus /\ task \in [Produced -> TaskValue]
    BY DEF TypeOK, TaskValue
  <2>2. Justifies(task, order)
    BY <1>3, <2>1, NeverAheadJustifies
  <2>3. Advances(task, task')
    BY <1>1, <1>5, CommitTasks DEF Commit
  <2>4. Justifies(task', order)
    BY <2>1, <2>2, <2>3, JustifiesMonotone
  <2>. QED
    BY <1>3, <1>4, <1>5, <2>1, <2>4
<1>6. CASE /\ req[r].next # NoStatus /\ orderLock = NoRequest /\ order = req[r].seen
           /\ Commit(r, req[r].next)
  <2>1. /\ InProduction(req[r].next)
        /\ PRODUCTION_RANK[req[r].next] <=
             PRODUCTION_RANK[RollupOrderStatusFromTasks(TasksSeenBy(r))]
    BY <1>1, <1>6 DEF RollupIsJustified
  <2>2. req[r].next \in OrderStatus
    BY <2>1, RankedStatus DEF OrderStatus
  <2>3. task' = TasksSeenBy(r) /\ task' \in [Produced -> TaskValue]
    BY <1>6, SeenType DEF Commit
  <2>4. Justifies(task', req[r].next)
    BY <2>1, <2>3, RollupJustifies
  <2>. QED
    BY <1>4, <1>6, <2>1, <2>2, <2>4
<1>7. CASE Rollback(r)
  BY <1>7, RollbackKeeps
<1>. QED
  BY <1>5, <1>6, <1>7 DEF ApplyRollup

(***************************************************************************)
(* The last step of a forced dispatch keeps the invariant.                 *)
(***************************************************************************)
LEMMA ApplyForceKeeps ==
  ASSUME IInv, NEW r \in Requests, ApplyForce(r)
  PROVE  IInv'
<1>. USE DEF IInv
<1>1. /\ req[r].pc = "apply" /\ req[r].op = "FORCE" /\ Writing(r)
      /\ orderLock = NoRequest
  BY DEF ApplyForce, Writing
<1>2. CASE Rollback(r)
  BY <1>2, RollbackKeeps
<1>3. CASE /\ Commit(r, "READY_FOR_PICKUP")
           /\ IF req[r].next = NoStatus THEN order = "READY_FOR_ASSEMBLY"
              ELSE order = req[r].seen
  <2>1. InProduction(order)
    BY <1>1, <1>3, RankedStatus DEF RollupIsJustified
  <2>2. TypeOK'
    BY <1>3, CommitType DEF OrderStatus
  <2>3. RowsInv'
    BY <1>1, <1>3, <2>1, ForceCommitRows
  <2>4. Finish(r) /\ task' = TasksSeenBy(r) /\ order' # "AWAITING_PAYMENT"
    BY <1>3 DEF Commit
  <2>5. \A q \in Requests : OwnsItsLocks(q)' /\ RollupIsJustified(q)'
    BY <1>1, <2>4, CommitRequests
  <2>. QED
    BY <2>2, <2>3, <2>5 DEF RowsInv
<1>. QED
  BY <1>2, <1>3 DEF ApplyForce

(***************************************************************************)
(* Calling the customer for an assembled order keeps the invariant: an     *)
(* order READY_FOR_ASSEMBLY has only ready tasks.                          *)
(***************************************************************************)
LEMMA DispatchReadyKeeps ==
  ASSUME IInv, NEW r \in Requests, DispatchReady(r)
  PROVE  IInv'
<1>. USE DEF IInv
<1>1. CASE Rollback(r)
  BY <1>1, RollbackKeeps
<1>2. CASE order = "READY_FOR_ASSEMBLY" /\ Commit(r, "READY_FOR_PICKUP")
  <2>1. req[r].pc = "opened" /\ req[r].op = "DISPATCH" /\ orderLock = NoRequest
    BY DEF DispatchReady
  <2>2. Held(r) = {}
    BY <2>1 DEF OwnsItsLocks, Writing
  <2>3. Finish(r) /\ order' = "READY_FOR_PICKUP" /\ task' = task /\ item' = item
    BY <1>2, <2>1, <2>2 DEF Commit, TasksSeenBy, ItemsSeenBy, TypeOK
  <2>4. task \in [Produced -> TaskValue]
    BY DEF TypeOK, TaskValue
  <2>5. InProduction(order)
    BY <1>2, RankedStatus
  <2>6. \A t \in Produced : task[t] \in {NoTask, "CANCELLED", "READY"}
    BY <1>2, <2>4, <2>5, NeverAheadJustifies DEF Justifies
  <2>7. \A t \in Produced : task[t] = "READY"
    BY <2>5, <2>6 DEF TasksMatchOrder
  <2>8. ~InProduction(order')
    BY <2>3, RankedStatus
  <2>9. RowsInv'
    BY <2>3, <2>7, <2>8
       DEF RowsInv, TasksMatchOrder, OrderNeverAhead, NoWorkAfterCancel, ItemMirrorsTask,
           OrderStatus
  <2>10. TypeOK'
    BY <1>2, CommitType DEF OrderStatus
  <2>11. ASSUME NEW q \in Requests
         PROVE  OwnsItsLocks(q)' /\ RollupIsJustified(q)'
    <3>1. CASE q = r
      BY <2>3, <3>1, FinishEffect
         DEF OwnsItsLocks, RollupIsJustified, Idle, Handling, Writing
    <3>2. CASE q # r
      <4>1. /\ req'[q] = req[q] /\ Held(q)' = Held(q)
            /\ orderLock # q /\ orderLock' # q
        BY <2>1, <2>3, <3>2, FinishEffect, RequestAssumption
      <4>2. Advances(task, task')
        BY <2>3 DEF Advances
      <4>. QED
        BY <2>3, <2>4, <4>1, <4>2, OvertakenRequest
    <3>. QED
      BY <3>1, <3>2
  <2>. QED
    BY <2>9, <2>10, <2>11 DEF RowsInv
<1>. QED
  BY <1>1, <1>2 DEF DispatchReady

(***************************************************************************)
(* The end of a cancellation keeps the invariant: it got every unfinished  *)
(* task, so no press is open, and a forced dispatch that is open found     *)
(* nothing left to declare ready.                                          *)
(***************************************************************************)
LEMMA CancelTasksKeeps ==
  ASSUME IInv, NEW r \in Requests, CancelTasks(r)
  PROVE  IInv'
<1>. USE DEF IInv
<1>1. /\ Finish(r) /\ order' = "CANCELLED"
      /\ task' = [t \in Produced |-> IF t \in Unfinished THEN "CANCELLED" ELSE task[t]]
      /\ item' = [i \in Items |-> IF item[i] # "READY" THEN "CANCELLED" ELSE item[i]]
      /\ \A t \in Unfinished : taskLock[t] = NoRequest
  BY DEF CancelTasks
<1>2. TypeOK'
  <2>1. task' \in [Produced -> ProductionTaskStatus \cup {NoTask}]
    BY <1>1 DEF TypeOK, ProductionTaskStatus
  <2>2. item' \in [Items -> OrderItemStatus]
    BY <1>1 DEF TypeOK, OrderItemStatus
  <2>. QED
    BY <1>1, <2>1, <2>2, FinishEffect, FinishType DEF TypeOK, OrderStatus
<1>3. RowsInv'
  <2>1. ~InProduction(order')
    BY <1>1, RankedStatus
  <2>2. Unfinished' = {}
    BY <1>1 DEF Unfinished
  <2>3. \A i \in Items : item'[i] \in {"READY", "CANCELLED"}
    BY <1>1 DEF TypeOK, OrderItemStatus
  <2>4. ItemMirrorsTask'
    <3>. SUFFICES ASSUME NEW i \in Produced
         PROVE  IF task'[i] = NoTask THEN item'[i] \in {"PENDING", "CANCELLED"}
                ELSE item'[i] = IF task'[i] = "SCHEDULED" THEN "PENDING" ELSE task'[i]
      BY DEF ItemMirrorsTask
    <3>1. i \in Items /\ task[i] \in ProductionTaskStatus \cup {NoTask}
      BY ProducedAssumption DEF TypeOK
    <3>. QED
      BY <1>1, <3>1 DEF ItemMirrorsTask, Unfinished, ProductionTaskStatus, NoTask
  <2>. QED
    BY <1>1, <2>1, <2>2, <2>3, <2>4
       DEF RowsInv, TasksMatchOrder, OrderNeverAhead, NoWorkAfterCancel, OrderStatus
<1>4. ASSUME NEW q \in Requests
      PROVE  OwnsItsLocks(q)' /\ RollupIsJustified(q)'
  <2>1. CASE q = r
    BY <1>1, <2>1, FinishEffect DEF OwnsItsLocks, RollupIsJustified, Idle, Handling, Writing
  <2>2. CASE q # r
    <3>1. req'[q] = req[q] /\ Held(q)' = Held(q) /\ (orderLock' = q <=> orderLock = q)
      BY <1>1, <2>2, FinishEffect
    <3>2. orderLock # q
      <4>1. req[r].pc = "cancelling"
        BY DEF CancelTasks
      <4>. QED
        BY <4>1, <1>1, <2>2 DEF OwnsItsLocks
    <3>3. Held(q) = {}
      BY <1>1, RequestAssumption DEF OwnsItsLocks, Held
    <3>4. CASE ~Writing(q)
      BY <1>1, <3>1, <3>2, <3>3, <3>4, NotWritingRequest
    <3>5. CASE Writing(q)
      <4>1. Unfinished = {}
        BY <3>3, <3>5 DEF OwnsItsLocks
      <4>2. task' = task
        BY <1>1, <4>1 DEF TypeOK
      <4>3. task \in [Produced -> TaskValue] /\ Advances(task, task')
        BY <4>2 DEF TypeOK, TaskValue, Advances
      <4>. QED
        BY <1>1, <3>1, <3>2, <4>2, <4>3, OvertakenRequest
    <3>. QED
      BY <3>4, <3>5
  <2>. QED
    BY <2>1, <2>2
<1>. QED
  BY <1>2, <1>3, <1>4 DEF RowsInv

(***************************************************************************)
(* Payment confirmation keeps the invariant: before it there are no tasks, *)
(* so no transaction has written any.                                      *)
(***************************************************************************)
LEMMA OnPaymentSucceededKeeps ==
  ASSUME IInv, OnPaymentSucceeded
  PROVE  IInv'
<1>. USE DEF IInv
<1>1. /\ order = "AWAITING_PAYMENT" /\ orderLock = NoRequest
      /\ order' = IF Produced = {} THEN "READY_FOR_ASSEMBLY" ELSE "SCHEDULED"
      /\ task' = [t \in Produced |-> "SCHEDULED"]
      /\ item' = [i \in Items |-> IF i \notin Produced /\ item[i] = "PENDING"
                                 THEN "READY" ELSE item[i]]
      /\ UNCHANGED <<orderLock, taskLock, req>>
  BY DEF OnPaymentSucceeded
<1>2. \A t \in Produced : task[t] = NoTask
  BY <1>1 DEF TasksMatchOrder
<1>3. TypeOK'
  <2>1. task' \in [Produced -> ProductionTaskStatus \cup {NoTask}]
    BY <1>1 DEF ProductionTaskStatus
  <2>2. item' \in [Items -> OrderItemStatus]
    BY <1>1 DEF TypeOK, OrderItemStatus
  <2>. QED
    BY <1>1, <2>1, <2>2 DEF TypeOK, OrderStatus
<1>4. RowsInv'
  <2>1. InProduction(order') /\ order' \in OrderStatus \ {"DRAFT", "PAID", "CONFIRMED"}
    BY <1>1, RankedStatus DEF OrderStatus
  <2>2. task' \in [Produced -> TaskValue] /\ Justifies(task', order')
    BY <1>1 DEF TaskValue, ProductionTaskStatus, Justifies
  <2>3. PRODUCTION_RANK[order'] <= PRODUCTION_RANK[RollupOrderStatusFromTasks(task')]
    BY <2>1, <2>2, RollupJustifies
  <2>4. ItemMirrorsTask'
    <3>. SUFFICES ASSUME NEW i \in Produced
         PROVE  IF task'[i] = NoTask THEN item'[i] \in {"PENDING", "CANCELLED"}
                ELSE item'[i] = IF task'[i] = "SCHEDULED" THEN "PENDING" ELSE task'[i]
      BY DEF ItemMirrorsTask
    <3>1. i \in Items
      BY ProducedAssumption
    <3>2. item[i] = "PENDING"
      BY <1>1, <3>1 DEF TasksMatchOrder
    <3>. QED
      BY <1>1, <3>1, <3>2 DEF NoTask
  <2>. QED
    BY <1>1, <2>1, <2>3, <2>4
       DEF RowsInv, TasksMatchOrder, OrderNeverAhead, NoWorkAfterCancel, NoTask
<1>5. ASSUME NEW q \in Requests
      PROVE  OwnsItsLocks(q)' /\ RollupIsJustified(q)'
  <2>1. Unfinished = {}
    BY <1>2 DEF Unfinished, NoTask
  <2>2. Held(q) = {} /\ Held(q)' = {}
    BY <1>1, <2>1 DEF OwnsItsLocks, Held
  <2>3. ~Writing(q)
    BY <1>1, <2>2 DEF OwnsItsLocks
  <2>4. orderLock # q
    BY <1>1, RequestAssumption
  <2>. QED
    BY <1>1, <2>2, <2>3, <2>4, NotWritingRequest
<1>. QED
  BY <1>3, <1>4, <1>5 DEF RowsInv

(* Hand-over and the settled refund change only the order's final status.  *)
LEMMA FinalStatusKeeps ==
  ASSUME IInv, HandOver \/ MarkRefundedIfSettled
  PROVE  IInv'
<1>. USE DEF IInv
<1>1. /\ \/ order = "READY_FOR_PICKUP" /\ order' = "COMPLETED"
         \/ order = "CANCELLED" /\ order' = "REFUNDED"
      /\ orderLock = NoRequest
      /\ UNCHANGED <<task, item, orderLock, taskLock, req>>
  BY DEF HandOver, MarkRefundedIfSettled
<1>2. TypeOK'
  BY <1>1 DEF TypeOK, OrderStatus
<1>3. RowsInv'
  <2>1. ~InProduction(order') /\ Unfinished' = Unfinished
    BY <1>1, RankedStatus DEF Unfinished
  <2>. QED
    BY <1>1, <2>1
       DEF RowsInv, TasksMatchOrder, OrderNeverAhead, NoWorkAfterCancel, ItemMirrorsTask,
           OrderStatus
<1>4. ASSUME NEW q \in Requests
      PROVE  OwnsItsLocks(q)' /\ RollupIsJustified(q)'
  <2>1. req'[q] = req[q] /\ Held(q)' = Held(q) /\ orderLock # q /\ orderLock' # q
    BY <1>1, RequestAssumption DEF Held
  <2>2. task \in [Produced -> TaskValue] /\ Advances(task, task') /\ task' = task
    BY <1>1 DEF TypeOK, TaskValue, Advances
  <2>. QED
    BY <1>1, <2>1, <2>2, OvertakenRequest
<1>. QED
  BY <1>2, <1>3, <1>4 DEF RowsInv

(* A step that changes nothing keeps the invariant.                        *)
LEMMA StutterKeeps ==
  ASSUME IInv, UNCHANGED vars
  PROVE  IInv'
  BY DEF IInv, vars, TypeOK, TasksMatchOrder, OwnsItsLocks, RollupIsJustified, Writing, Held,
         Unfinished, TasksSeenBy, OrderNeverAhead, NoWorkAfterCancel, ItemMirrorsTask

-----------------------------------------------------------------------------
(* The invariant holds of an order that awaits its payment.                *)
LEMMA InitIInv == Init => IInv
<1>. SUFFICES ASSUME Init PROVE IInv
  OBVIOUS
<1>. USE DEF Init
<1>1. TypeOK
  BY IdleType DEF TypeOK, OrderStatus, OrderItemStatus
<1>2. Unfinished = {} /\ ~InProduction(order)
  BY RankedStatus DEF Unfinished, NoTask
<1>3. TasksMatchOrder /\ OrderNeverAhead /\ NoWorkAfterCancel
  BY <1>2 DEF TasksMatchOrder, OrderNeverAhead, NoWorkAfterCancel, OrderStatus
<1>4. ItemMirrorsTask
  BY ProducedAssumption DEF ItemMirrorsTask
<1>5. ASSUME NEW r \in Requests
      PROVE  OwnsItsLocks(r) /\ RollupIsJustified(r)
  <2>1. req[r].pc = "idle" /\ req[r].op = "none" /\ Held(r) = {} /\ orderLock # r
    BY RequestAssumption DEF Idle, Handling, Held
  <2>. QED
    BY <2>1 DEF OwnsItsLocks, RollupIsJustified, Writing
<1>. QED
  BY <1>1, <1>3, <1>4, <1>5 DEF IInv

(* Every step keeps the invariant.                                         *)
LEMMA NextIInv == IInv /\ [Next]_vars => IInv'
<1>. SUFFICES ASSUME IInv, [Next]_vars PROVE IInv'
  OBVIOUS
<1>1. CASE OnPaymentSucceeded
  BY <1>1, OnPaymentSucceededKeeps
<1>2. CASE HandOver \/ MarkRefundedIfSettled
  BY <1>2, FinalStatusKeeps
<1>3. ASSUME NEW r \in Requests, PrivateStep(r)
      PROVE  IInv'
  BY <1>3, PrivateStepKeeps
<1>4. ASSUME NEW r \in Requests, Rollback(r)
      PROVE  IInv'
  BY <1>4, RollbackKeeps
<1>5. ASSUME NEW r \in Requests, Step(r)
      PROVE  IInv'
  <2>1. CASE DispatchReady(r)
    BY <2>1, DispatchReadyKeeps
  <2>2. CASE ForceTasks(r) \/ RollupReadOrder(r) \/ RollupReadTasks(r)
    BY <2>2, <1>3 DEF PrivateStep
  <2>3. CASE ApplyRollup(r)
    BY <2>3, ApplyRollupKeeps
  <2>4. CASE ApplyForce(r)
    BY <2>4, ApplyForceKeeps
  <2>5. CASE CancelOrderRow(r)
    <3>1. CASE order = req[r].seen
      BY <2>5, <3>1, <1>3 DEF PrivateStep
    <3>2. CASE order # req[r].seen
      BY <2>5, <3>2, <1>4 DEF CancelOrderRow
    <3>. QED
      BY <3>1, <3>2
  <2>6. CASE CancelTasks(r)
    BY <2>6, CancelTasksKeeps
  <2>. QED
    BY <1>5, <2>1, <2>2, <2>3, <2>4, <2>5, <2>6 DEF Step
<1>6. ASSUME NEW r \in Requests,
             \/ \E t \in Produced, op \in {"START", "READY"} : PressTask(r, t, op)
             \/ \E op \in {"DISPATCH", "FORCE", "CANCEL"} : OpenRequest(r, op)
      PROVE  IInv'
  BY <1>6, <1>3 DEF PrivateStep
<1>7. ASSUME NEW r \in Requests, LockWaitAborted(r) \/ Crash(r)
      PROVE  IInv'
  BY <1>7, <1>4 DEF LockWaitAborted, Crash
<1>8. CASE UNCHANGED vars
  BY <1>8, StutterKeeps
<1>. QED
  BY <1>1, <1>2, <1>5, <1>6, <1>7, <1>8 DEF Next

(***************************************************************************)
(* The inductive invariant holds in every reachable state: transactions    *)
(* hold only unfinished tasks, and what they are about to write to the     *)
(* order is justified by the tasks.                                        *)
(***************************************************************************)
THEOREM Invariance == Spec => []IInv
<1>1. Init => IInv
  BY InitIInv
<1>2. IInv /\ [Next]_vars => IInv'
  BY NextIInv
<1>. QED
  BY <1>1, <1>2, PTL DEF Spec

(* Rows, locks and requests always have the values their columns allow.    *)
THEOREM TypeCorrect == Spec => []TypeOK
<1>1. IInv => TypeOK
  BY DEF IInv
<1>. QED
  BY <1>1, Invariance, PTL

(***************************************************************************)
(* However many kitchen screens, dispatchers and cancellations run at the  *)
(* same time, the order's status never runs ahead of its tasks, and the    *)
(* customer is called only when every task is ready.                       *)
(***************************************************************************)
THEOREM NeverAhead == Spec => []OrderNeverAhead
<1>1. IInv => OrderNeverAhead
  BY DEF IInv
<1>. QED
  BY <1>1, Invariance, PTL

(* No task of a cancelled order is left on a kitchen screen.               *)
THEOREM CancelStopsWork == Spec => []NoWorkAfterCancel
<1>1. IInv => NoWorkAfterCancel
  BY DEF IInv
<1>. QED
  BY <1>1, Invariance, PTL

(* The item a customer follows always agrees with the task of the kitchen. *)
THEOREM ItemsFollowTasks == Spec => []ItemMirrorsTask
<1>1. IInv => ItemMirrorsTask
  BY DEF IInv
<1>. QED
  BY <1>1, Invariance, PTL

-----------------------------------------------------------------------------
(***************************************************************************)
(* Refinement: every commit is one indivisible step of OrderLifecycle, and *)
(* every other step is invisible to it.                                    *)
(***************************************************************************)

(* The words of OrderDomain mean the same in the lifecycle's instance.     *)
LEMMA LifecycleWords ==
  /\ Lifecycle!PRODUCTION_RANK = PRODUCTION_RANK
  /\ Lifecycle!NoTask = NoTask
  /\ \A s : Lifecycle!InProduction(s) <=> InProduction(s)
  /\ \A s : Lifecycle!IsCancellable(s) <=> IsCancellable(s)
  /\ \A f : Lifecycle!RollupOrderStatusFromTasks(f) = RollupOrderStatusFromTasks(f)
  /\ Lifecycle!Unfinished = Unfinished
<1>1. Lifecycle!PRODUCTION_RANK = PRODUCTION_RANK
  BY DEF Lifecycle!PRODUCTION_RANK, PRODUCTION_RANK
<1>2. Lifecycle!NoTask = NoTask
  BY DEF Lifecycle!NoTask, NoTask
<1>3. \A s : Lifecycle!InProduction(s) <=> InProduction(s)
  BY <1>1 DEF Lifecycle!InProduction, InProduction
<1>4. Lifecycle!ORDER_TRANSITIONS = ORDER_TRANSITIONS
  BY DEF Lifecycle!ORDER_TRANSITIONS, ORDER_TRANSITIONS
<1>5. \A s : Lifecycle!IsCancellable(s) <=> IsCancellable(s)
  BY <1>4 DEF Lifecycle!IsCancellable, IsCancellable, Lifecycle!CanTransitionOrder,
              CanTransitionOrder
<1>6. ASSUME NEW f
      PROVE  Lifecycle!RollupOrderStatusFromTasks(f) = RollupOrderStatusFromTasks(f)
  <2>1. Lifecycle!Live(f) = Live(f)
    BY <1>2 DEF Lifecycle!Live, Live
  <2>2. Lifecycle!Ready(f) = Ready(f)
    BY DEF Lifecycle!Ready, Ready
  <2>. QED
    BY <2>1, <2>2 DEF Lifecycle!RollupOrderStatusFromTasks, RollupOrderStatusFromTasks
<1>7. Lifecycle!Unfinished = Unfinished
  BY DEF Lifecycle!Unfinished, Unfinished
<1>. QED
  BY <1>1, <1>2, <1>3, <1>5, <1>6, <1>7

(***************************************************************************)
(* A press that commits is the lifecycle's Press of the task it holds.     *)
(***************************************************************************)
LEMMA ApplyRollupIsPress ==
  ASSUME IInv, NEW r \in Requests, ApplyRollup(r)
  PROVE  (\E t \in Produced : Lifecycle!Press(t)) \/ UNCHANGED <<order, task>>
<1>. USE DEF IInv
<1>1. req[r].pc = "apply" /\ req[r].op \in {"START", "READY"} /\ Writing(r)
  BY DEF ApplyRollup, Writing
<1>2. PICK t \in Produced : Held(r) = {t} /\ task[t] = Required[req[r].op]
  BY <1>1 DEF OwnsItsLocks
<1>3. InProduction(order)
  BY <1>2, UnfinishedInProduction DEF OwnsItsLocks, RowsInv
<1>4. ASSUME task' = TasksSeenBy(r)
      PROVE  \/ task[t] = "SCHEDULED" /\ task' = [task EXCEPT ![t] = "IN_PRODUCTION"]
             \/ task[t] = "IN_PRODUCTION" /\ task' = [task EXCEPT ![t] = "READY"]
  <2>1. task' = [task EXCEPT ![t] = Written[req[r].op]]
    BY <1>2, <1>4 DEF TasksSeenBy, TypeOK
  <2>. QED
    BY <1>1, <1>2, <2>1, WrittenValues
<1>5. CASE Commit(r, order)
  <2>1. task' = TasksSeenBy(r) /\ order' = order
    BY <1>5 DEF Commit
  <2>2. Lifecycle!Press(t)
    BY <1>3, <1>4, <2>1, LifecycleWords DEF Lifecycle!Press
  <2>. QED
    BY <2>2
<1>6. CASE req[r].next # NoStatus /\ order = req[r].seen /\ Commit(r, req[r].next)
  <2>1. task' = TasksSeenBy(r) /\ order' = req[r].next
    BY <1>6 DEF Commit
  <2>2. /\ InProduction(order') /\ PRODUCTION_RANK[order'] > PRODUCTION_RANK[order]
        /\ PRODUCTION_RANK[order'] <= PRODUCTION_RANK[RollupOrderStatusFromTasks(task')]
    BY <1>1, <1>6, <2>1 DEF RollupIsJustified
  <2>3. PRODUCTION_RANK[order] < PRODUCTION_RANK[order']
    BY <1>3, <2>2, RankedStatus, RankValues
  <2>4. Lifecycle!Press(t)
    BY <1>3, <1>4, <2>1, <2>2, <2>3, LifecycleWords DEF Lifecycle!Press, InProduction
  <2>. QED
    BY <2>4
<1>7. CASE Rollback(r)
  BY <1>7 DEF Rollback
<1>. QED
  BY <1>5, <1>6, <1>7 DEF ApplyRollup

(***************************************************************************)
(* A forced dispatch that commits is the lifecycle's CallCustomer.         *)
(***************************************************************************)
LEMMA ApplyForceIsCall ==
  ASSUME IInv, NEW r \in Requests, ApplyForce(r)
  PROVE  Lifecycle!CallCustomer \/ UNCHANGED <<order, task>>
<1>. USE DEF IInv
<1>1. req[r].pc = "apply" /\ req[r].op = "FORCE" /\ Writing(r)
  BY DEF ApplyForce, Writing
<1>2. CASE Rollback(r)
  BY <1>2 DEF Rollback
<1>3. CASE /\ Commit(r, "READY_FOR_PICKUP")
           /\ IF req[r].next = NoStatus THEN order = "READY_FOR_ASSEMBLY"
              ELSE order = req[r].seen
  <2>1. InProduction(order)
    BY <1>1, <1>3, RankedStatus DEF RollupIsJustified
  <2>2. Held(r) = Unfinished
    BY <1>1 DEF OwnsItsLocks
  <2>3. task' = [t \in Produced |-> IF t \in Unfinished THEN "READY" ELSE task[t]]
    BY <1>1, <1>3, <2>2, WrittenValues DEF Commit, TasksSeenBy
  <2>4. order' = "READY_FOR_PICKUP"
    BY <1>3 DEF Commit
  <2>. QED
    BY <2>1, <2>3, <2>4, LifecycleWords DEF Lifecycle!CallCustomer
<1>. QED
  BY <1>2, <1>3 DEF ApplyForce

(***************************************************************************)
(* So is an ordinary dispatch: it finds no task unfinished.                *)
(***************************************************************************)
LEMMA DispatchReadyIsCall ==
  ASSUME IInv, NEW r \in Requests, DispatchReady(r)
  PROVE  Lifecycle!CallCustomer \/ UNCHANGED <<order, task>>
<1>. USE DEF IInv
<1>1. CASE Rollback(r)
  BY <1>1 DEF Rollback
<1>2. CASE order = "READY_FOR_ASSEMBLY" /\ Commit(r, "READY_FOR_PICKUP")
  <2>1. Held(r) = {}
    BY DEF DispatchReady, OwnsItsLocks, Writing
  <2>2. order' = "READY_FOR_PICKUP" /\ task' = [t \in Produced |-> task[t]]
    BY <1>2, <2>1 DEF Commit, TasksSeenBy
  <2>3. InProduction(order) /\ task \in [Produced -> TaskValue]
    BY <1>2, RankedStatus DEF TypeOK, TaskValue
  <2>4. Unfinished = {}
    BY <1>2, <2>3, NeverAheadJustifies DEF Justifies, Unfinished, NoTask
  <2>. QED
    BY <2>2, <2>3, <2>4, LifecycleWords DEF Lifecycle!CallCustomer
<1>. QED
  BY <1>1, <1>2 DEF DispatchReady

(***************************************************************************)
(* The end of a cancellation is the lifecycle's Cancel: while it held the  *)
(* order row nobody else moved the status it had checked.                  *)
(***************************************************************************)
LEMMA CancelTasksIsCancel ==
  ASSUME IInv, NEW r \in Requests, CancelTasks(r)
  PROVE  Lifecycle!Cancel
<1>1. IsCancellable(order)
  BY DEF IInv, OwnsItsLocks, CancelTasks
<1>2. /\ order' = "CANCELLED"
      /\ task' = [t \in Produced |-> IF t \in Unfinished THEN "CANCELLED" ELSE task[t]]
  BY DEF CancelTasks
<1>. QED
  BY <1>1, <1>2, LifecycleWords DEF Lifecycle!Cancel

(* Every step of the transactions is a step of the lifecycle or none.      *)
LEMMA StepIsLifecycle ==
  ASSUME IInv, [Next]_vars
  PROVE  Lifecycle!Next \/ UNCHANGED <<order, task>>
<1>1. CASE OnPaymentSucceeded
  <2>1. Lifecycle!Confirm
    BY <1>1 DEF OnPaymentSucceeded, Lifecycle!Confirm
  <2>. QED
    BY <2>1 DEF Lifecycle!Next
<1>2. CASE HandOver
  <2>1. Lifecycle!HandOver
    BY <1>2 DEF HandOver, Lifecycle!HandOver
  <2>. QED
    BY <2>1 DEF Lifecycle!Next
<1>3. CASE MarkRefundedIfSettled
  <2>1. Lifecycle!SettleRefund
    BY <1>3 DEF MarkRefundedIfSettled, Lifecycle!SettleRefund
  <2>. QED
    BY <2>1 DEF Lifecycle!Next
<1>4. ASSUME NEW r \in Requests,
             \/ PrivateStep(r) \/ CancelOrderRow(r) \/ LockWaitAborted(r) \/ Crash(r)
      PROVE  UNCHANGED <<order, task>>
  <2>1. PrivateStep(r) => UNCHANGED <<order, task>>
    BY PrivateStepType
  <2>. QED
    BY <1>4, <2>1 DEF CancelOrderRow, LockWaitAborted, Crash, Rollback
<1>5. ASSUME NEW r \in Requests, Step(r)
      PROVE  Lifecycle!Next \/ UNCHANGED <<order, task>>
  <2>1. CASE ForceTasks(r) \/ RollupReadOrder(r) \/ RollupReadTasks(r) \/ CancelOrderRow(r)
    BY <2>1, <1>4 DEF PrivateStep
  <2>2. CASE DispatchReady(r)
    BY <2>2, DispatchReadyIsCall DEF Lifecycle!Next
  <2>3. CASE ApplyRollup(r)
    BY <2>3, ApplyRollupIsPress DEF Lifecycle!Next
  <2>4. CASE ApplyForce(r)
    BY <2>4, ApplyForceIsCall DEF Lifecycle!Next
  <2>5. CASE CancelTasks(r)
    BY <2>5, CancelTasksIsCancel DEF Lifecycle!Next
  <2>. QED
    BY <1>5, <2>1, <2>2, <2>3, <2>4, <2>5 DEF Step
<1>6. ASSUME NEW r \in Requests,
             \/ \E t \in Produced, op \in {"START", "READY"} : PressTask(r, t, op)
             \/ \E op \in {"DISPATCH", "FORCE", "CANCEL"} : OpenRequest(r, op)
      PROVE  UNCHANGED <<order, task>>
  BY <1>6, <1>4 DEF PrivateStep
<1>7. CASE UNCHANGED vars
  BY <1>7 DEF vars
<1>. QED
  BY <1>1, <1>2, <1>3, <1>4, <1>5, <1>6, <1>7 DEF Next

(***************************************************************************)
(* The transactions of presses, dispatches and cancellations, however they *)
(* interleave, wait, time out or crash, look like a history of indivisible *)
(* lifecycle operations to whoever reads the committed rows.               *)
(***************************************************************************)
THEOREM Refinement == Spec => RefinesLifecycle
<1>1. Init => Lifecycle!Init
  BY LifecycleWords DEF Init, Lifecycle!Init
<1>2. IInv /\ [Next]_vars => [Lifecycle!Next]_(Lifecycle!vars)
  BY StepIsLifecycle DEF Lifecycle!vars
<1>. QED
  BY <1>1, <1>2, Invariance, PTL DEF Spec, RefinesLifecycle, Lifecycle!Spec

(* The legal chains used below, read off ORDER_TRANSITIONS.                *)
LEMMA OnwardChains ==
  /\ \A s \in OrderStatus : IsCancellable(s) => "CANCELLED" \in Onward({s})
  /\ \A s : InProduction(s) => {s, "READY_FOR_ASSEMBLY"} \subseteq Onward({s})
  /\ \A S, s : s \in S => Onward({s}) \subseteq Onward(S)
  /\ \A S : S \subseteq Onward(S)
<1>1. \A s \in OrderStatus : IsCancellable(s) => "CANCELLED" \in Onward({s})
  BY DEF IsCancellable, CanTransitionOrder, Onward
<1>2. \A s : InProduction(s) => {s, "READY_FOR_ASSEMBLY"} \subseteq Onward({s})
  BY RankedStatus DEF Onward, ORDER_TRANSITIONS
<1>. QED
  BY <1>1, <1>2 DEF Onward

(* One step of the lifecycle moves the status along the transition table   *)
(* and never back within production.                                       *)
LEMMA LifecycleForward ==
  ASSUME order \in OrderStatus, Lifecycle!Next
  PROVE  /\ order' \in Onward(Onward(Onward({order})))
         /\ InProduction(order) /\ InProduction(order') =>
              PRODUCTION_RANK[order'] >= PRODUCTION_RANK[order]
<1>. DEFINE Chain(s) == Onward(Onward(Onward({s})))
<1>1. \A s : Onward({s}) \subseteq Chain(s) /\ Onward(Onward({s})) \subseteq Chain(s)
             /\ s \in Chain(s)
  BY OnwardChains
<1>2. CASE Lifecycle!Confirm
  <2>1. order = "AWAITING_PAYMENT" /\ order' \in {"SCHEDULED", "READY_FOR_ASSEMBLY"}
    BY <1>2 DEF Lifecycle!Confirm
  <2>2. "PAID" \in Onward({order})
    BY <2>1 DEF Onward, ORDER_TRANSITIONS
  <2>3. "CONFIRMED" \in Onward(Onward({order}))
    BY <2>2 DEF Onward, ORDER_TRANSITIONS
  <2>4. order' \in Chain(order)
    BY <2>1, <2>3 DEF Onward, ORDER_TRANSITIONS
  <2>. QED
    BY <2>1, <2>4, RankedStatus
<1>3. ASSUME NEW t \in Produced, Lifecycle!Press(t)
      PROVE  order' \in Chain(order) /\ (InProduction(order) /\ InProduction(order') =>
              PRODUCTION_RANK[order'] >= PRODUCTION_RANK[order])
  <2>1. /\ InProduction(order)
        /\ \/ order' = order
           \/ InProduction(order') /\ PRODUCTION_RANK[order] < PRODUCTION_RANK[order']
    BY <1>3, LifecycleWords DEF Lifecycle!Press, InProduction
  <2>2. order' \in Onward({order})
    BY <2>1, RankedStatus, RankValues DEF Onward, ORDER_TRANSITIONS
  <2>3. order' \in Chain(order)
    BY <1>1, <2>2
  <2>4. InProduction(order') => PRODUCTION_RANK[order'] >= PRODUCTION_RANK[order]
    BY <2>1, RankedStatus, RankValues
  <2>. QED
    BY <2>3, <2>4
<1>4. CASE Lifecycle!CallCustomer
  <2>1. InProduction(order) /\ order' = "READY_FOR_PICKUP"
    BY <1>4, LifecycleWords DEF Lifecycle!CallCustomer
  <2>2. "READY_FOR_ASSEMBLY" \in Onward({order})
    BY <2>1, OnwardChains
  <2>3. order' \in Onward(Onward({order}))
    BY <2>1, <2>2 DEF Onward, ORDER_TRANSITIONS
  <2>. QED
    BY <1>1, <2>1, <2>3, RankedStatus
<1>5. CASE Lifecycle!HandOver \/ Lifecycle!SettleRefund
  <2>1. \/ order = "READY_FOR_PICKUP" /\ order' = "COMPLETED"
        \/ order = "CANCELLED" /\ order' = "REFUNDED"
    BY <1>5 DEF Lifecycle!HandOver, Lifecycle!SettleRefund
  <2>2. order' \in Onward({order})
    BY <2>1 DEF Onward, ORDER_TRANSITIONS
  <2>. QED
    BY <1>1, <2>1, <2>2, RankedStatus
<1>6. CASE Lifecycle!Cancel
  <2>1. IsCancellable(order) /\ order' = "CANCELLED"
    BY <1>6, LifecycleWords DEF Lifecycle!Cancel
  <2>2. order' \in Onward({order})
    BY <2>1, OnwardChains
  <2>. QED
    BY <1>1, <2>1, <2>2, RankedStatus
<1>. QED
  BY <1>2, <1>3, <1>4, <1>5, <1>6 DEF Lifecycle!Next

(***************************************************************************)
(* Whatever runs at the same time, the status a reader sees only ever      *)
(* moves along ORDER_TRANSITIONS, by at most three of them at a commit,    *)
(* and production never goes back.                                         *)
(***************************************************************************)
THEOREM StatusForward == Spec => StatusOnlyForward
<1>. DEFINE Forward == /\ order' \in Onward(Onward(Onward({order})))
                       /\ InProduction(order) /\ InProduction(order') =>
                            PRODUCTION_RANK[order'] >= PRODUCTION_RANK[order]
<1>1. IInv /\ [Next]_vars => [Forward]_order
  BY StepIsLifecycle, LifecycleForward DEF IInv, TypeOK
<1>. QED
  BY <1>1, Invariance, PTL DEF Spec, StatusOnlyForward

(***************************************************************************)
(* A task that was finished or cancelled is never worked on again, and one *)
(* in production is never put back on the list: two presses of one button, *)
(* or a press and a forced dispatch, count once.                           *)
(***************************************************************************)
THEOREM TasksForward == Spec => TaskNeverReopened
<1>. DEFINE Kept(t) == /\ task[t] \in {"READY", "CANCELLED"} => task'[t] = task[t]
                       /\ task[t] = "IN_PRODUCTION" => task'[t] # "SCHEDULED"
<1>1. ASSUME IInv, Lifecycle!Next, NEW t \in Produced
      PROVE  Kept(t)
  <2>1. task \in [Produced -> TaskValue]
    BY <1>1 DEF IInv, TypeOK, TaskValue
  <2>2. CASE Lifecycle!Confirm
    <3>1. task[t] = NoTask
      BY <1>1, <2>2 DEF IInv, TasksMatchOrder, Lifecycle!Confirm
    <3>. QED
      BY <3>1 DEF NoTask
  <2>3. ASSUME NEW u \in Produced, Lifecycle!Press(u)
        PROVE  Kept(t)
    BY <2>1, <2>3 DEF Lifecycle!Press
  <2>4. CASE Lifecycle!CallCustomer \/ Lifecycle!Cancel
    BY <2>4, LifecycleWords DEF Lifecycle!CallCustomer, Lifecycle!Cancel, Unfinished
  <2>5. CASE Lifecycle!HandOver \/ Lifecycle!SettleRefund
    BY <2>5 DEF Lifecycle!HandOver, Lifecycle!SettleRefund
  <2>. QED
    BY <1>1, <2>2, <2>3, <2>4, <2>5 DEF Lifecycle!Next
<1>2. IInv /\ [Next]_vars => [\A t \in Produced : Kept(t)]_task
  BY <1>1, StepIsLifecycle
<1>. QED
  BY <1>2, Invariance, PTL DEF Spec, TaskNeverReopened

=============================================================================
