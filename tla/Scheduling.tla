----------------------------- MODULE Scheduling -----------------------------
(***************************************************************************)
(* The pure functions of packages/domain/src/scheduling/plan.ts: when an   *)
(* order is promised, when each of its tasks is planned, what a kitchen    *)
(* screen shows of a task, in which order, and which pickup slots are      *)
(* offered.  Times are integers; MINUTE is the length of a minute in them  *)
(* (60 000 in the code), durations and settings are in minutes.            *)
(*                                                                         *)
(* An item is a record [required, station, duration, buffer, units,        *)
(* priority]; a set of items is a function from item ids to such records.  *)
(* A task has status, station, start, ready, units, priority, target and   *)
(* created; a set of tasks is a function too.                              *)
(***************************************************************************)
EXTENDS Integers, FiniteSetsExt

CONSTANT MINUTE

ASSUME MinuteAssumption == MINUTE \in Nat \ {0}

CeilToMinute(t) == ((t + MINUTE - 1) \div MINUTE) * MINUTE

ToProduce(items) == {i \in DOMAIN items : items[i].required}

(* The time an item needs before it can be handed over.                    *)
Needs(item) == (item.duration + item.buffer) * MINUTE

ComputeAsapTargetReadyAt_NoBuffer(items, now) ==    \* faulty: the estimate ignores buffers
  CeilToMinute(now + Max({0} \cup {items[i].duration * MINUTE : i \in ToProduce(items)}))

(* computeAsapTargetReadyAt: the critical path, rounded up to the minute.  *)
ComputeAsapTargetReadyAt(items, now) ==
  CeilToMinute(now + Max({0} \cup {Needs(items[i]) : i \in ToProduce(items)}))

-----------------------------------------------------------------------------
(***************************************************************************)
(* buildProductionPlan: backwards from the target; a task that would have  *)
(* started already starts now, is late, and moves the order's target.      *)
(***************************************************************************)
Late(item, target, now) == target - Needs(item) < now

PlannedStart(item, target, now) == IF Late(item, target, now) THEN now ELSE target - Needs(item)

PlannedReady(item, target, now) == PlannedStart(item, target, now) + item.duration * MINUTE

EffectiveReadyAt_NoBuffer(items, target, now) ==    \* faulty: the buffer of a late task is forgotten
  Max({target} \cup {PlannedReady(items[i], target, now) : i \in ToProduce(items)})

EffectiveReadyAt(items, target, now) ==
  Max({target} \cup
      {PlannedReady(items[i], target, now) + items[i].buffer * MINUTE :
         i \in {j \in ToProduce(items) : Late(items[j], target, now)}})

BuildProductionPlan(items, target, now) ==
  [i \in ToProduce(items) |->
     [status |-> "SCHEDULED", station |-> items[i].station,
      start |-> PlannedStart(items[i], target, now),
      ready |-> PlannedReady(items[i], target, now),
      units |-> items[i].units, priority |-> items[i].priority, created |-> now]]

-----------------------------------------------------------------------------
(***************************************************************************)
(* deriveProductionDisplayStatus: `th` holds the settings startingSoon and *)
(* lateGrace.                                                              *)
(***************************************************************************)
DeriveProductionDisplayStatus(task, now, th) ==
  CASE task.status = "READY"         -> "READY"
    [] task.status = "CANCELLED"     -> "CANCELLED"
    [] task.status = "IN_PRODUCTION" -> IF now > task.ready THEN "LATE" ELSE "IN_PRODUCTION"
    [] task.status = "SCHEDULED"     ->
         IF now > task.start + th.lateGrace * MINUTE THEN "LATE"
         ELSE IF now >= task.start THEN "START_NOW"
         ELSE IF now >= task.start - th.startingSoon * MINUTE THEN "STARTING_SOON"
         ELSE "SCHEDULED"

IsOnMainBoard_Swapped(task, now, horizon) ==        \* faulty: the difference the wrong way round
  task.status = "SCHEDULED" => now - task.start <= horizon * MINUTE

IsOnMainBoard(task, now, horizon) ==
  task.status = "SCHEDULED" => task.start - now <= horizon * MINUTE

IsLate(task, now, th) == DeriveProductionDisplayStatus(task, now, th) = "LATE"

Before_LateFirst(a, b, now, th) ==                  \* faulty: any late task goes first
  \/ IsLate(a, now, th)
  \/ ~IsLate(b, now, th) /\ a.start < b.start

(* compareTasksForBoard(a, b) < 0: a stands before b on the board.         *)
Before(a, b, now, th) ==
  \/ IsLate(a, now, th) /\ ~IsLate(b, now, th)
  \/ /\ IsLate(a, now, th) = IsLate(b, now, th)
     /\ \/ a.start < b.start
        \/ a.start = b.start /\ a.target < b.target
        \/ a.start = b.start /\ a.target = b.target /\ a.priority > b.priority
        \/ /\ a.start = b.start /\ a.target = b.target /\ a.priority = b.priority
           /\ a.created < b.created

-----------------------------------------------------------------------------
Overlaps(aStart, aEnd, bStart, bEnd) == aStart < bEnd /\ bStart < aEnd

(* A rule is about one station or, with station NoStation, all of them.    *)
NoStation == "ALL"

Concerns(rule, task) == rule.station = NoStation \/ task.station = rule.station

LoadInWindow(tasks, rule, from, to) ==
  MapThenSumSet(LAMBDA t : tasks[t].units,
    {t \in DOMAIN tasks : Concerns(rule, tasks[t]) /\ Overlaps(tasks[t].start, tasks[t].ready, from, to)})

IsSlotFeasible_ExistingOnly(slot, now, rules, load, items) ==  \* faulty: the order's own load is forgotten
  LET plan == BuildProductionPlan(items, slot, now)
  IN  \A rule \in rules : \A t \in DOMAIN plan : Concerns(rule, plan[t]) =>
        LET to == plan[t].start + rule.window * MINUTE
        IN  LoadInWindow(load, rule, plan[t].start, to) <= rule.max

(***************************************************************************)
(* isSlotFeasible: the order planned for the slot exceeds no rule in the   *)
(* window that starts with one of its tasks.                               *)
(***************************************************************************)
IsSlotFeasible(slot, now, rules, load, items) ==
  LET plan == BuildProductionPlan(items, slot, now)
  IN  \A rule \in rules : \A t \in DOMAIN plan : Concerns(rule, plan[t]) =>
        LET to == plan[t].start + rule.window * MINUTE
        IN  LoadInWindow(load, rule, plan[t].start, to)
              + LoadInWindow(plan, rule, plan[t].start, to) <= rule.max

(* computePickupSlots: the grid relative to the opening time.              *)
FirstSlot(day, now) ==
  LET step     == day.slot * MINUTE
      earliest == Max({day.opens, CeilToMinute(now + day.minLead * MINUTE)})
      offset   == (earliest - day.opens) % step
  IN  IF offset = 0 THEN earliest ELSE earliest + (step - offset)

ComputePickupSlots(day, now) ==
  {t \in FirstSlot(day, now) .. day.closes : (t - FirstSlot(day, now)) % (day.slot * MINUTE) = 0}

=============================================================================
