------------------------------- MODULE Kitchen -------------------------------
(***************************************************************************)
(* Time in the kitchen of one branch: when an order is promised, what      *)
(* payment does to the promise, what the screens show of its tasks while   *)
(* the clock runs, the tick that announces tasks about to start, and the   *)
(* pickup slots quoted from the load.                                      *)
(*   apps/api/src/orders/{order-engine,production-planner,pickup-slots}    *)
(*   apps/api/src/production/production.{service,module}.ts                *)
(*                                                                         *)
(* Requests are indivisible here (OrderEngine has their transactions); a   *)
(* tick is not: it reads all candidates and then handles them one by one,  *)
(* each with an await between the mark and the event.                      *)
(***************************************************************************)
EXTENDS Scheduling, FiniteSets

CONSTANTS
  Orders,       \* orders of the branch
  Menu,         \* item ids -> items
  Cart,         \* Cart[o]: the item ids of order o
  PickupTimes,  \* the instants a customer may ask for
  Thresholds,   \* settings: [startingSoon, lateGrace, boardHorizon]
  ScanMinutes,  \* how far ahead the tick looks (15 in the code)
  Tickers,      \* runs of the tick that may overlap
  Day,          \* [opens, closes, slot, minLead]
  Rules,        \* capacity rules [station, window, max]
  Quoted,       \* the item ids of the cart that asks for slots
  MaxTime,      \* bound: the last instant
  MaxAborts     \* bound: ticks that die half-way

(* An item as the catalog's input checks let it be (times in minutes).     *)
Item ==
  [required : BOOLEAN, station : STRING, duration : 0 .. 1440, buffer : 0 .. 240,
   units : Nat, priority : Int]

ASSUME MenuAssumption == \A i \in DOMAIN Menu : Menu[i] \in Item
ASSUME ThresholdAssumption ==
  Thresholds \in [startingSoon : Nat, lateGrace : Nat, boardHorizon : Nat]
ASSUME TimeAssumption == PickupTimes \subseteq Int
ASSUME CartAssumption == \A o \in Orders : Cart[o] \in SUBSET DOMAIN Menu
ASSUME QuoteAssumption == Quoted \subseteq DOMAIN Menu
ASSUME BranchAssumption == IsFiniteSet(Orders) /\ IsFiniteSet(DOMAIN Menu)
ASSUME DayAssumption ==                 \* opening times are given to the minute
  /\ Day \in [opens : Int, closes : Int, slot : Nat \ {0}, minLead : Nat]
  /\ Day.opens % MINUTE = 0
ASSUME RuleAssumption == \A rule \in Rules : rule.window \in Int /\ rule.max \in Int

VARIABLES
  now,          \* the clock of the server
  order,        \* per order: [status, asap, created, paid, promised, target]
  task,         \* per order: its ProductionTask rows, by item
  notified,     \* the tasks whose startingSoonNotifiedAt is set
  published,    \* how often PRODUCTION_STARTING_SOON was published for a task
  ticker,       \* per tick: [pc, at, todo, current]
  aborts

vars == <<now, order, task, notified, published, ticker, aborts>>

-----------------------------------------------------------------------------
TaskId == UNION {{<<o, i>> : i \in Cart[o]} : o \in Orders}

Row(id) == task[id[1]][id[2]]

Planned == {id \in TaskId : id[2] \in DOMAIN task[id[1]]}

Waiting == {id \in Planned : Row(id).status = "SCHEDULED"}

Unfinished == {id \in Planned : Row(id).status \in {"SCHEDULED", "IN_PRODUCTION"}}

Bought(o) == [i \in Cart[o] |-> Menu[i]]

(* A task as the board sees it, with the target of its order.              *)
BoardTask(id) ==
  [status |-> Row(id).status, start |-> Row(id).start, ready |-> Row(id).ready,
   priority |-> Row(id).priority, created |-> Row(id).created,
   target |-> order[id[1]].target]

Display(id) == DeriveProductionDisplayStatus(Row(id), now, Thresholds)

NoOrder ==
  [status |-> "ABSENT", asap |-> FALSE, created |-> 0, paid |-> 0, promised |-> 0, target |-> 0]

Resting == [pc |-> "idle", at |-> 0, todo |-> {}, current |-> {}]

Init ==
  /\ now = 0
  /\ order = [o \in Orders |-> NoOrder]
  /\ task = [o \in Orders |-> [i \in {} |-> NoStation]]
  /\ notified = {}
  /\ published = [id \in TaskId |-> 0]
  /\ ticker = [k \in Tickers |-> Resting]
  /\ aborts = 0

-----------------------------------------------------------------------------
(***************************************************************************)
(* createOrder: the promise.  The only check of a scheduled pickup is that *)
(* it is not in the past.                                                  *)
(***************************************************************************)
Promise(o, asap, target) ==
  /\ order[o].status = "ABSENT"
  /\ order' = [order EXCEPT ![o] =
       [status |-> "AWAITING_PAYMENT", asap |-> asap, created |-> now, paid |-> 0,
        promised |-> target, target |-> target]]
  /\ UNCHANGED <<now, task, notified, published, ticker, aborts>>

CreateAsap(o) == Promise(o, TRUE, ComputeAsapTargetReadyAt(Bought(o), now))

CreateScheduled(o, pickupAt) == pickupAt >= now /\ Promise(o, FALSE, pickupAt)

(***************************************************************************)
(* ProductionPlannerService.plan, when the order is paid: the rows of the  *)
(* tasks, and the target they can be ready for.  CONFIRMED stands for that *)
(* status and the ones that follow it.                                     *)
(***************************************************************************)
Plan(o) ==
  /\ order[o].status = "AWAITING_PAYMENT"
  /\ order' = [order EXCEPT
       ![o].status = "CONFIRMED", ![o].paid = now,
       ![o].target = EffectiveReadyAt(Bought(o), order[o].target, now)]
  /\ task' = [task EXCEPT ![o] = BuildProductionPlan(Bought(o), order[o].target, now)]
  /\ UNCHANGED <<now, notified, published, ticker, aborts>>

(* act: START and READY.                                                   *)
Press(id, from, to) ==
  /\ id \in Planned
  /\ Row(id).status = from
  /\ task' = [task EXCEPT ![id[1]][id[2]].status = to]
  /\ UNCHANGED <<now, order, notified, published, ticker, aborts>>

Cancel(o) ==
  /\ order[o].status \in {"AWAITING_PAYMENT", "CONFIRMED"}
  /\ order' = [order EXCEPT ![o].status = "CANCELLED"]
  /\ task' = [task EXCEPT ![o] =
       [i \in DOMAIN task[o] |->
          IF <<o, i>> \in Unfinished THEN [task[o][i] EXCEPT !.status = "CANCELLED"]
          ELSE task[o][i]]]
  /\ UNCHANGED <<now, notified, published, ticker, aborts>>

Advance ==
  /\ now < MaxTime
  /\ now' = now + 1
  /\ UNCHANGED <<order, task, notified, published, ticker, aborts>>

-----------------------------------------------------------------------------
(***************************************************************************)
(* tickStartingSoon.  The interval starts a run every 30 s whether or not  *)
(* the last one has ended, and every process of the API has its own.       *)
(***************************************************************************)
Candidates_FutureOnly(at) ==            \* faulty: overlooks tasks that should have started
  {id \in Waiting \ notified : Row(id).start \in at .. at + ScanMinutes * MINUTE}

Candidates(at) == {id \in Waiting \ notified : Row(id).start <= at + ScanMinutes * MINUTE}

Scan(k) ==
  /\ ticker[k].pc = "idle"
  /\ Candidates(now) # {}
  /\ ticker' = [ticker EXCEPT ![k] =
       [pc |-> "scanning", at |-> now, todo |-> Candidates(now), current |-> {}]]
  /\ UNCHANGED <<now, order, task, notified, published, aborts>>

(* The rest of the loop when `todo` is left.                               *)
Continue(k, todo) ==
  ticker' = [ticker EXCEPT ![k] =
    IF todo = {} THEN Resting
    ELSE [pc |-> "scanning", at |-> ticker[k].at, todo |-> todo, current |-> {}]]

IsDue_Window(start, at) == TRUE         \* faulty: the scan's window taken for the threshold

IsDue(start, at) == start - at <= Thresholds.startingSoon * MINUTE

Mark_Always(k, id) ==                   \* faulty: UPDATE without startingSoonNotifiedAt in WHERE
  /\ ticker[k].pc = "scanning" /\ id \in ticker[k].todo
  /\ IsDue(Row(id).start, ticker[k].at)
  /\ notified' = notified \cup {id}
  /\ ticker' = [ticker EXCEPT ![k].pc = "marked", ![k].todo = @ \ {id}, ![k].current = {id}]
  /\ UNCHANGED <<now, order, task, published, aborts>>

(* The conditional UPDATE that makes this run the one to announce.         *)
Mark(k, id) ==
  /\ ticker[k].pc = "scanning" /\ id \in ticker[k].todo
  /\ IsDue(Row(id).start, ticker[k].at)
  /\ id \notin notified
  /\ notified' = notified \cup {id}
  /\ ticker' = [ticker EXCEPT ![k].pc = "marked", ![k].todo = @ \ {id}, ![k].current = {id}]
  /\ UNCHANGED <<now, order, task, published, aborts>>

(* `continue`: not due yet, or another run was first.                      *)
Skip(k, id) ==
  /\ ticker[k].pc = "scanning" /\ id \in ticker[k].todo
  /\ ~IsDue(Row(id).start, ticker[k].at) \/ id \in notified
  /\ Continue(k, ticker[k].todo \ {id})
  /\ UNCHANGED <<now, order, task, notified, published, aborts>>

Publish(k) ==
  /\ ticker[k].pc = "marked"
  /\ published' = [id \in TaskId |->
       IF id \in ticker[k].current THEN published[id] + 1 ELSE published[id]]
  /\ Continue(k, ticker[k].todo)
  /\ UNCHANGED <<now, order, task, notified, aborts>>

(* A query throws, or the process stops.                                   *)
Abort(k) ==
  /\ ticker[k].pc # "idle"
  /\ aborts < MaxAborts
  /\ aborts' = aborts + 1
  /\ ticker' = [ticker EXCEPT ![k] = Resting]
  /\ UNCHANGED <<now, order, task, notified, published>>

-----------------------------------------------------------------------------
TickStep(k) == Scan(k) \/ (\E id \in TaskId : Mark(k, id) \/ Skip(k, id)) \/ Publish(k)

Next ==
  \/ \E o \in Orders :
       \/ CreateAsap(o)
       \/ \E t \in PickupTimes : CreateScheduled(o, t)
       \/ Plan(o)
       \/ Cancel(o)
  \/ \E id \in TaskId :
       Press(id, "SCHEDULED", "IN_PRODUCTION") \/ Press(id, "IN_PRODUCTION", "READY")
  \/ Advance
  \/ \E k \in Tickers : Abort(k)
  \/ \E k \in Tickers : TickStep(k)

(* The interval keeps starting runs, and a run that does not die ends.     *)
Spec == Init /\ [][Next]_vars /\ \A k \in Tickers : WF_vars(TickStep(k))

-----------------------------------------------------------------------------
(***************************************************************************)
(* Every variable keeps its type.  The tasks of an order are there, one    *)
(* for each item that needs production, from its payment on; a tick deals  *)
(* with planned tasks only, and publishes what it has marked.              *)
(***************************************************************************)
OrderRow ==
  [status : {"ABSENT", "AWAITING_PAYMENT", "CONFIRMED", "CANCELLED"}, asap : BOOLEAN,
   created : Nat, paid : Nat, promised : Int, target : Int]

TaskRow ==
  [status : {"SCHEDULED", "IN_PRODUCTION", "READY", "CANCELLED"}, station : STRING,
   start : Int, ready : Int, units : Nat, priority : Int, created : Nat]

TickerState ==
  [pc : {"idle", "scanning", "marked"}, at : Nat, todo : SUBSET TaskId, current : SUBSET TaskId]

TasksOfOrder(o) ==
  /\ task[o] \in [DOMAIN task[o] -> TaskRow]
  /\ DOMAIN task[o] \in {{}, ToProduce(Bought(o))}
  /\ order[o].status \in {"ABSENT", "AWAITING_PAYMENT"} => DOMAIN task[o] = {}
  /\ order[o].status = "CONFIRMED" => DOMAIN task[o] = ToProduce(Bought(o))

TypeOK ==
  /\ now \in Nat
  /\ order \in [Orders -> OrderRow]
  /\ DOMAIN task = Orders
  /\ \A o \in Orders : TasksOfOrder(o)
  /\ notified \subseteq Planned
  /\ published \in [TaskId -> Nat]
  /\ ticker \in [Tickers -> TickerState]
  /\ \A k \in Tickers : ticker[k].todo \subseteq Planned
  /\ aborts \in Nat

(***************************************************************************)
(* What the customer is told once the order is paid can be kept, and is    *)
(* not later than it has to be: every task, with its buffer, fits before   *)
(* the target, and a target that moved is met exactly by some task.        *)
(***************************************************************************)
HandedOver(id) == Row(id).ready + Menu[id[2]].buffer * MINUTE

PromiseKept ==
  \A o \in Orders :
    /\ \A i \in DOMAIN task[o] : HandedOver(<<o, i>>) <= order[o].target
    /\ order[o].target # order[o].promised =>
         \E i \in DOMAIN task[o] : HandedOver(<<o, i>>) = order[o].target

(***************************************************************************)
(* An ASAP order slips by no more than the customer took to pay: the       *)
(* estimate at creation and the plan at payment reckon alike.              *)
(***************************************************************************)
SlipOf(o) ==
  order[o].asap /\ order[o].status = "CONFIRMED" =>
    order[o].target - order[o].promised <= order[o].paid - order[o].created

AsapSlipsByDelayOnly == \A o \in Orders : SlipOf(o)

(* Why: until the payment, the estimate leaves time for every item.        *)
EstimateOf(o) ==
  order[o].status = "AWAITING_PAYMENT" =>
    /\ order[o].created <= now
    /\ order[o].target = order[o].promised
    /\ order[o].asap => \A i \in ToProduce(Bought(o)) :
         order[o].created + Needs(Bought(o)[i]) <= order[o].target

(***************************************************************************)
(* A task is announced at most once, whatever ticks overlap or die.        *)
(***************************************************************************)
AnnouncedOnce == \A id \in TaskId : published[id] <= 1

(***************************************************************************)
(* Why: a run that has marked a task is the only one to have done so, and  *)
(* the task has not been published yet.                                    *)
(***************************************************************************)
MarkedByOne ==
  /\ \A id \in TaskId : published[id] > 0 => id \in notified
  /\ \A k \in Tickers : ticker[k].pc = "marked" =>
       /\ ticker[k].current \subseteq notified
       /\ \A id \in ticker[k].current :
            /\ published[id] = 0
            /\ \A l \in Tickers \ {k} : ticker[l].pc = "marked" => id \notin ticker[l].current

(* Why a mark is never early: it is made by a run of the past, of a task   *)
(* that was due then, and a task is not planned again.                     *)
MarkedIsDue ==
  /\ \A k \in Tickers : ticker[k].at <= now
  /\ \A id \in notified : IsDue(Row(id).start, now)

IInv ==
  /\ TypeOK
  /\ PromiseKept
  /\ \A o \in Orders : SlipOf(o) /\ EstimateOf(o)
  /\ AnnouncedOnce
  /\ MarkedByOne
  /\ MarkedIsDue

(***************************************************************************)
(* The server's announcement and the screen's own derivation agree: a task *)
(* announced and not yet touched already shows as starting soon or later.  *)
(***************************************************************************)
AnnouncedLooksSoon == \A id \in Waiting : published[id] > 0 => Display(id) # "SCHEDULED"

(***************************************************************************)
(* What has to be started now, is late or is under way is not hidden in    *)
(* the Upcoming view, whatever the settings; what is starting soon is, but *)
(* only if the horizon was set shorter than the starting-soon threshold    *)
(* (nothing in the code compares the two).                                 *)
(***************************************************************************)
UpcomingIsCalm ==
  \A id \in Unfinished : ~IsOnMainBoard(Row(id), now, Thresholds.boardHorizon) =>
    \/ Display(id) = "SCHEDULED"
    \/ Display(id) = "STARTING_SOON" /\ Thresholds.boardHorizon < Thresholds.startingSoon

(***************************************************************************)
(* The comparator of the board is one that a sort may use: a strict weak   *)
(* order, in which tasks that tie are interchangeable.                     *)
(***************************************************************************)
BoardOrderIsConsistent ==
  LET Lt(a, b) == Before(BoardTask(a), BoardTask(b), now, Thresholds)
  IN  \A a, b \in Unfinished :
        /\ ~(Lt(a, b) /\ Lt(b, a))
        /\ \A c \in Unfinished : Lt(a, c) => Lt(a, b) \/ Lt(b, c)

-----------------------------------------------------------------------------
(***************************************************************************)
(* PickupSlotsService.quote: the load it reads, and the slots it offers.   *)
(***************************************************************************)
QuoteLoad ==
  [id \in {t \in Unfinished : Row(t).ready >= Day.opens /\ Row(t).start <= Day.closes} |-> Row(id)]

QuotedItems == [i \in Quoted |-> Menu[i]]

Offered ==
  {s \in ComputePickupSlots(Day, now) : IsSlotFeasible(s, now, Rules, QuoteLoad, QuotedItems)}

(***************************************************************************)
(* The slots listed are the instants of the grid between opening and       *)
(* closing that leave the minimum lead time, all of them and no others.    *)
(***************************************************************************)
SlotsComplete ==
  ComputePickupSlots(Day, now) =
    {t \in Day.opens .. Day.closes :
       /\ \E n \in 0 .. (Day.closes - Day.opens) : t = Day.opens + n * Day.slot * MINUTE
       /\ t >= now + Day.minLead * MINUTE}

(* The units being produced at instant t, with the quoted cart taken at s. *)
Running(rows, rule, t) ==
  MapThenSumSet(LAMBDA id : rows[id].units,
    {id \in DOMAIN rows : Concerns(rule, rows[id]) /\ rows[id].start <= t /\ t < rows[id].ready})

RoomFor(s) ==
  LET plan == BuildProductionPlan(QuotedItems, s, now)
      rows == [id \in Unfinished |-> Row(id)]
  IN  \A rule \in Rules : \A i \in DOMAIN plan :
        Concerns(rule, plan[i]) /\ plan[i].start >= Day.opens =>
          Running(rows, rule, plan[i].start) + Running(plan, rule, plan[i].start) <= rule.max

(***************************************************************************)
(* A slot is offered only if, when each task of the cart starts within the *)
(* opening hours, the kitchen then runs no more units than a rule allows.  *)
(* (The quote reads no load before the opening, so that a task which       *)
(* starts earlier may meet a full oven: the first slots of a day.)         *)
(***************************************************************************)
OfferedSlotHasRoom == \A s \in Offered : RoomFor(s)

(* computePickupSlots: neither a slot too many nor one too few, and none   *)
(* that is sold beyond the capacity of a station.                          *)
SlotsAreRight == SlotsComplete /\ OfferedSlotHasRoom

(***************************************************************************)
(* A task that has crossed the threshold is marked as announced by some    *)
(* tick, unless it is started or cancelled before.                         *)
(***************************************************************************)
DueIsMarked ==
  \A id \in TaskId :
    (id \in Waiting /\ IsDue(Row(id).start, now)) ~> (id \in notified \/ id \notin Waiting)

=============================================================================
