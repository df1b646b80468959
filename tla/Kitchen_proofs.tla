---------------------------- MODULE Kitchen_proofs ----------------------------
(***************************************************************************)
(* Proofs about Kitchen for every menu, set of orders, settings and number *)
(* of overlapping ticks.                                                   *)
(*                                                                         *)
(* The argument.  The effective target of a plan is a maximum over its     *)
(* late tasks (EffectiveTarget): it exists because the catalog bounds the  *)
(* time an item may need, and nothing but the target's own step writes     *)
(* ready times or targets (PromiseStep).  The estimate of an ASAP order    *)
(* leaves time for every item from its creation on (EstimateOf), so a late *)
(* task at payment can move the target only by the time since then.  A     *)
(* task is announced once because the conditional update makes one run the *)
(* owner of its mark (MarkedByOne), and not before the screens agree,      *)
(* because the clock does not go back and a task is not planned again      *)
(* (MarkedIsDue).  The slots of a day are the multiples of a step from     *)
(* the opening (FirstOfGrid); a slot has room because the tasks that run   *)
(* when one of the cart's begins are among those counted in its window,    *)
(* and a sum of units is the size of a set of trays (UnitsAreTrays).       *)
(***************************************************************************)
EXTENDS Kitchen, SubsetInduction, TLAPS

(* A non-empty set of integers with an upper bound has a greatest element. *)
LEMMA MaxExists ==
  ASSUME NEW S \in SUBSET Int, S # {}, NEW b \in Int, \A x \in S : x <= b
  PROVE  Max(S) \in S /\ \A x \in S : Max(S) >= x
<1> DEFINE T == {b - x : x \in S}
<1>1. T \in SUBSET Nat /\ T # {}
  <2>1. \A x \in S : b - x \in Nat
    OBVIOUS
  <2>. QED BY <2>1
<1>2. PICK t \in T : \A u \in T : t <= u
  <2>. HIDE DEF T
  <2>. QED BY <1>1, SmallestExists
<1>3. PICK x \in S : t = b - x
  OBVIOUS
<1>4. \A y \in S : x >= y
  <2> TAKE y \in S
  <2>1. b - y \in T /\ x \in Int /\ y \in Int
    OBVIOUS
  <2>2. b - x <= b - y
    <3>. HIDE DEF T
    <3>. QED BY <2>1, <1>2, <1>3
  <2>. QED BY <2>1, <2>2
<1>. QED BY <1>4 DEF Max

(* An item takes at most 1680 minutes.                                     *)
LEMMA NeedsBounded ==
  ASSUME NEW item \in Item
  PROVE  /\ item.duration * MINUTE \in Nat
         /\ item.buffer * MINUTE \in Nat
         /\ Needs(item) \in Nat
         /\ Needs(item) = item.duration * MINUTE + item.buffer * MINUTE
         /\ Needs(item) <= 1680 * MINUTE
<1> DEFINE d == item.duration
           c == item.buffer
<1>1. d \in 0 .. 1440 /\ c \in 0 .. 240 /\ Needs(item) = (d + c) * MINUTE
  BY DEF Item, Needs
<1> HIDE DEF d, c
<1>2. d \in Nat /\ c \in Nat /\ d + c <= 1680 /\ MINUTE \in Nat
  BY <1>1, MinuteAssumption
<1>3. \A a, b \in Nat : a * b \in Nat
  OBVIOUS
<1>4. \A a, b, m \in Nat : (a + b) * m = a * m + b * m
  OBVIOUS
<1>5. \A a, b, m \in Nat : a <= b => a * m <= b * m
  OBVIOUS
<1>6. /\ d * MINUTE \in Nat /\ c * MINUTE \in Nat /\ Needs(item) \in Nat
      /\ Needs(item) = d * MINUTE + c * MINUTE
      /\ Needs(item) <= 1680 * MINUTE
  BY <1>1, <1>2, <1>3, <1>4, <1>5
<1>. QED BY <1>6 DEF d, c

(***************************************************************************)
(* buildProductionPlan's effective target: it is not before the target,    *)
(* every task with its buffer fits before it, and if it moved then it is   *)
(* exactly when some task is handed over.                                  *)
(***************************************************************************)
LEMMA EffectiveTarget ==
  ASSUME NEW items, \A i \in DOMAIN items : items[i] \in Item,
         NEW target \in Int, NEW t \in Nat
  PROVE  LET eff == EffectiveReadyAt(items, target, t)
             handedOver(i) == PlannedReady(items[i], target, t) + items[i].buffer * MINUTE
         IN  /\ eff \in Int
             /\ \A i \in ToProduce(items) :
                  /\ PlannedStart(items[i], target, t) \in Int
                  /\ PlannedReady(items[i], target, t) \in Int
                  /\ handedOver(i) <= eff
             /\ eff # target => \E i \in ToProduce(items) :
                                 handedOver(i) = eff /\ eff = t + Needs(items[i])
<1> DEFINE handedOver(i) == PlannedReady(items[i], target, t) + items[i].buffer * MINUTE
           late == {i \in ToProduce(items) : Late(items[i], target, t)}
           S == {target} \cup {handedOver(i) : i \in late}
           bound == (IF target > t THEN target ELSE t) + 1680 * MINUTE
<1>1. \A i \in ToProduce(items) :
        /\ PlannedStart(items[i], target, t) \in Int
        /\ PlannedReady(items[i], target, t) \in Int
        /\ handedOver(i) \in Int
        /\ i \in late => handedOver(i) = t + Needs(items[i])
        /\ i \notin late => handedOver(i) = target
  <2> TAKE i \in ToProduce(items)
  <2>1. items[i] \in Item
    BY DEF ToProduce
  <2>. QED BY <2>1, NeedsBounded DEF PlannedStart, PlannedReady, Late
<1>2. 1680 * MINUTE \in Nat
  BY MinuteAssumption
<1>3. S \in SUBSET Int /\ S # {}
  BY <1>1
<1>4. bound \in Int /\ \A x \in S : x <= bound
  <2>1. \A i \in late : Needs(items[i]) \in Nat /\ Needs(items[i]) <= 1680 * MINUTE
    BY NeedsBounded DEF ToProduce
  <2>2. \A i \in late : handedOver(i) <= bound
    <3> TAKE i \in late
    <3>1. handedOver(i) = t + Needs(items[i])
      BY <1>1
    <3>. QED BY <3>1, <2>1, <1>2
  <2>3. target <= bound /\ bound \in Int
    BY <1>2
  <2>. QED BY <2>2, <2>3
<1>5. Max(S) \in S /\ \A x \in S : Max(S) >= x
  <2>. HIDE DEF S, bound
  <2>. QED BY <1>3, <1>4, MaxExists
<1>6. EffectiveReadyAt(items, target, t) = Max(S)
  BY DEF EffectiveReadyAt
<1>7. Max(S) \in Int
  BY <1>3, <1>5
<1>8. \A i \in ToProduce(items) : handedOver(i) <= Max(S)
  <2> TAKE i \in ToProduce(items)
  <2>1. CASE i \in late
    <3>1. handedOver(i) \in S
      BY <2>1
    <3>. QED BY <3>1, <1>5, <1>7, <1>1
  <2>2. CASE i \notin late
    <3>1. target \in S /\ handedOver(i) = target
      BY <2>2, <1>1
    <3>. QED BY <3>1, <1>5, <1>7
  <2>. QED BY <2>1, <2>2
<1>9. Max(S) # target =>
        \E i \in ToProduce(items) : handedOver(i) = Max(S) /\ Max(S) = t + Needs(items[i])
  BY <1>5, <1>1
<1>. QED BY <1>1, <1>6, <1>7, <1>8, <1>9

(* How multiples of a positive number compare, and what the remainder says.*)
LEMMA Multiples ==
  ASSUME NEW s \in Nat \ {0}
  PROVE  /\ \A a, b \in Int : a * s \in Int /\ (a + b) * s = a * s + b * s
         /\ \A a, b \in Int : (a - b) * s = a * s - b * s
         /\ \A a, b \in Int : a < b <=> a * s < b * s
         /\ \A d \in Int : d % s = 0 <=> \E k \in Int : d = k * s
<1>1. \A a, b \in Int : a * s \in Int /\ (a + b) * s = a * s + b * s /\ (a - b) * s = a * s - b * s
  OBVIOUS
<1>2. \A a \in Int : (a > 0 => a * s >= s) /\ (a <= 0 => a * s <= 0)
  OBVIOUS
<1>3. ASSUME NEW a \in Int, NEW b \in Int
      PROVE  a < b <=> a * s < b * s
  <2>1. b - a \in Int /\ (b - a) * s = b * s - a * s /\ a * s \in Int /\ b * s \in Int
    BY <1>1
  <2>2. (b - a > 0 => (b - a) * s >= s) /\ (b - a <= 0 => (b - a) * s <= 0)
    BY <2>1, <1>2
  <2>. QED BY <2>1, <2>2
<1>4. ASSUME NEW d \in Int
      PROVE  d % s = 0 <=> \E k \in Int : d = k * s
  <2>. DEFINE q == d \div s
              r == d % s
  <2>1. q \in Int /\ r \in 0 .. s - 1 /\ d = s * q + r
    OBVIOUS
  <2>2. s * q = q * s /\ q * s \in Int
    BY <2>1
  <2>. HIDE DEF q, r
  <2>3. r = 0 => d = q * s
    BY <2>1, <2>2
  <2>4. ASSUME NEW k \in Int, d = k * s
        PROVE  r = 0
    <3>1. (k - q) * s = r /\ k - q \in Int
      BY <2>1, <2>2, <2>4, <1>1
    <3>2. (k - q > 0 => r >= s) /\ (k - q <= 0 => r <= 0)
      BY <3>1, <1>2
    <3>. QED BY <3>2, <2>1
  <2>5. r = 0 <=> \E k \in Int : d = k * s
    BY <2>1, <2>3, <2>4
  <2>. QED BY <2>5 DEF r
<1>. QED BY <1>1, <1>3, <1>4

(* ceilToMinute returns the first full minute that is not before.          *)
LEMMA RoundUp ==
  ASSUME NEW x \in Int
  PROVE  /\ CeilToMinute(x) \in Int
         /\ x <= CeilToMinute(x)
         /\ \A k \in Int : x <= k * MINUTE => CeilToMinute(x) <= k * MINUTE
<1>. DEFINE y == x + MINUTE - 1
            q == y \div MINUTE
<1>1. y \in Int /\ MINUTE \in Nat \ {0}
  BY MinuteAssumption
<1>2. q \in Int /\ y = MINUTE * q + (y % MINUTE) /\ y % MINUTE \in 0 .. MINUTE - 1
  BY <1>1
<1>3. MINUTE * q = q * MINUTE /\ q * MINUTE \in Int
  BY <1>1, <1>2
<1>4. CeilToMinute(x) = q * MINUTE
  BY DEF CeilToMinute
<1>5. x <= q * MINUTE /\ q * MINUTE <= x + MINUTE - 1
  BY <1>1, <1>2, <1>3
<1>6. ASSUME NEW k \in Int, x <= k * MINUTE
      PROVE  q * MINUTE <= k * MINUTE
  <2>. HIDE DEF y, q
  <2>1. k * MINUTE \in Int /\ (k + 1) * MINUTE = k * MINUTE + 1 * MINUTE
    BY <1>1, Multiples
  <2>2. q * MINUTE < (k + 1) * MINUTE
    BY <2>1, <1>1, <1>3, <1>5, <1>6
  <2>3. q < k + 1
    BY <2>2, <1>1, <1>2, Multiples
  <2>4. ~(k < q)
    BY <2>3, <1>2
  <2>5. ~(k * MINUTE < q * MINUTE)
    BY <2>4, <1>1, <1>2, Multiples
  <2>. QED BY <2>1, <2>5, <1>3
<1>. QED BY <1>3, <1>4, <1>5, <1>6

(* computeAsapTargetReadyAt returns an instant that leaves time for every  *)
(* item.                                                                   *)
LEMMA AsapTarget ==
  ASSUME NEW items, \A i \in DOMAIN items : items[i] \in Item, NEW t \in Nat
  PROVE  /\ ComputeAsapTargetReadyAt(items, t) \in Int
         /\ \A i \in ToProduce(items) : t + Needs(items[i]) <= ComputeAsapTargetReadyAt(items, t)
<1> DEFINE S == {0} \cup {Needs(items[i]) : i \in ToProduce(items)}
           bound == 1680 * MINUTE
<1>1. \A i \in ToProduce(items) : Needs(items[i]) \in Nat /\ Needs(items[i]) <= 1680 * MINUTE
  BY NeedsBounded DEF ToProduce
<1>2. bound \in Nat /\ MINUTE \in Nat \ {0}
  BY MinuteAssumption
<1>3. S \in SUBSET Int /\ S # {} /\ \A x \in S : x <= bound
  BY <1>1, <1>2
<1>4. Max(S) \in Int /\ \A x \in S : Max(S) >= x
  <2>. HIDE DEF S, bound
  <2>1. bound \in Int
    BY <1>2
  <2>2. Max(S) \in S /\ \A x \in S : Max(S) >= x
    BY <1>3, <2>1, MaxExists
  <2>. QED BY <1>3, <2>2
<1>5. \A x \in Int : CeilToMinute(x) \in Int /\ x <= CeilToMinute(x)
  BY RoundUp
<1>6. \A i \in ToProduce(items) : Needs(items[i]) <= Max(S)
  BY <1>4, <1>1
<1>7. ComputeAsapTargetReadyAt(items, t) = CeilToMinute(t + Max(S))
  BY DEF ComputeAsapTargetReadyAt
<1>8. t + Max(S) \in Int
  BY <1>4
<1>. HIDE DEF S
<1>. QED BY <1>1, <1>4, <1>5, <1>6, <1>7, <1>8

-----------------------------------------------------------------------------
(* The items of an order, and its tasks, are items of the menu.            *)
LEMMA BoughtItems ==
  ASSUME NEW o \in Orders
  PROVE  /\ DOMAIN Bought(o) = Cart[o]
         /\ \A i \in Cart[o] : Bought(o)[i] = Menu[i] /\ Menu[i] \in Item
         /\ ToProduce(Bought(o)) \subseteq Cart[o]
BY CartAssumption, MenuAssumption DEF Bought, ToProduce

(* The rows a plan writes have the type of a task.                         *)
LEMMA PlanType ==
  ASSUME NEW items, \A i \in DOMAIN items : items[i] \in Item,
         NEW target \in Int, NEW t \in Nat
  PROVE  /\ BuildProductionPlan(items, target, t) \in [ToProduce(items) -> TaskRow]
         /\ DOMAIN BuildProductionPlan(items, target, t) = ToProduce(items)
<1> SUFFICES ASSUME NEW i \in ToProduce(items)
             PROVE  [status |-> "SCHEDULED", station |-> items[i].station,
                     start |-> PlannedStart(items[i], target, t),
                     ready |-> PlannedReady(items[i], target, t),
                     units |-> items[i].units, priority |-> items[i].priority,
                     created |-> t] \in TaskRow
  BY DEF BuildProductionPlan
<1>1. items[i] \in Item
  BY DEF ToProduce
<1>2. items[i].station \in STRING /\ items[i].units \in Nat /\ items[i].priority \in Int
  BY <1>1 DEF Item
<1>3. PlannedStart(items[i], target, t) \in Int /\ PlannedReady(items[i], target, t) \in Int
  BY EffectiveTarget
<1>. QED BY <1>2, <1>3 DEF TaskRow

(* A task once planned stays a task.                                       *)
LEMMA PlannedGrows ==
  ASSUME \A o \in Orders : DOMAIN task[o] \subseteq DOMAIN task'[o]
  PROVE  Planned \subseteq Planned'
BY DEF Planned, TaskId

(* TypeOK is inductive.                                                    *)
LEMMA TypeStep ==
  ASSUME TypeOK, [Next]_vars
  PROVE  TypeOK'
<1> USE DEF TypeOK
<1>1. ASSUME NEW o \in Orders, NEW asap \in BOOLEAN, NEW target \in Int, Promise(o, asap, target)
      PROVE  TypeOK'
  <2> USE <1>1 DEF Promise
  <2>1. order' \in [Orders -> OrderRow]
    BY DEF OrderRow
  <2>2. \A p \in Orders : TasksOfOrder(p)'
    BY DEF TasksOfOrder, OrderRow
  <2>. QED BY <2>1, <2>2 DEF Planned, TickerState
<1>2. ASSUME NEW o \in Orders, CreateAsap(o)
      PROVE  TypeOK'
  <2>1. ComputeAsapTargetReadyAt(Bought(o), now) \in Int
    BY AsapTarget, BoughtItems
  <2>. QED BY <2>1, <1>1, <1>2 DEF CreateAsap
<1>3. ASSUME NEW o \in Orders, NEW t \in PickupTimes, CreateScheduled(o, t)
      PROVE  TypeOK'
  BY <1>1, <1>3, TimeAssumption DEF CreateScheduled
<1>4. ASSUME NEW o \in Orders, Plan(o)
      PROVE  TypeOK'
  <2> DEFINE plan == BuildProductionPlan(Bought(o), order[o].target, now)
  <2>0. order[o] \in OrderRow /\ order[o].target \in Int /\ now \in Nat
    BY DEF OrderRow
  <2>1. \A i \in DOMAIN Bought(o) : Bought(o)[i] \in Item
    BY BoughtItems
  <2>2. EffectiveReadyAt(Bought(o), order[o].target, now) \in Int
    BY <2>0, <2>1, EffectiveTarget
  <2>3. plan \in [ToProduce(Bought(o)) -> TaskRow] /\ DOMAIN plan = ToProduce(Bought(o))
    BY <2>0, <2>1, PlanType
  <2>4. order' \in [Orders -> OrderRow]
    BY <1>4, <2>0, <2>2 DEF Plan, OrderRow
  <2>5. \A p \in Orders : TasksOfOrder(p)' /\ DOMAIN task[p] \subseteq DOMAIN task'[p]
    <3> TAKE p \in Orders
    <3> HIDE DEF plan
    <3>0. task' = [task EXCEPT ![o] = plan]
      BY <1>4 DEF Plan, plan
    <3>1. CASE p = o
      <4>1. task'[p] = plan /\ DOMAIN task[p] = {} /\ order'[p].status = "CONFIRMED"
        BY <1>4, <3>0, <3>1 DEF Plan, TasksOfOrder
      <4>. QED BY <4>1, <2>3, <3>1 DEF TasksOfOrder
    <3>2. CASE p # o
      <4>1. task'[p] = task[p] /\ order'[p] = order[p]
        BY <1>4, <3>0, <3>2 DEF Plan
      <4>. QED BY <4>1 DEF TasksOfOrder
    <3>. QED BY <3>1, <3>2
  <2>6. Planned \subseteq Planned'
    BY <2>5, PlannedGrows
  <2>7. UNCHANGED <<now, notified, published, ticker, aborts>> /\ DOMAIN task' = Orders
    BY <1>4 DEF Plan
  <2>. QED BY <2>4, <2>5, <2>6, <2>7
<1>5. ASSUME NEW id \in TaskId, NEW from \in {"SCHEDULED", "IN_PRODUCTION"},
             NEW to \in {"IN_PRODUCTION", "READY"}, Press(id, from, to)
      PROVE  TypeOK'
  <2>a. PICK o \in Orders : \E i \in Cart[o] : id = <<o, i>>
    BY DEF TaskId
  <2>0. PICK i \in Cart[o] : id = <<o, i>>
    BY <2>a
  <2>1. i \in DOMAIN task[o] /\ task' = [task EXCEPT ![o][i].status = to]
    BY <1>5, <2>0 DEF Press, Planned
  <2>2. UNCHANGED <<now, order, notified, published, ticker, aborts>>
    BY <1>5 DEF Press
  <2>3. task[o] \in [DOMAIN task[o] -> TaskRow] /\ task[o][i] \in TaskRow
    BY <2>1 DEF TasksOfOrder
  <2>4. [task[o][i] EXCEPT !.status = to] \in TaskRow
    BY <2>3 DEF TaskRow
  <2>5. \A p \in Orders : TasksOfOrder(p)' /\ DOMAIN task[p] = DOMAIN task'[p]
    <3> TAKE p \in Orders
    <3>1. CASE p = o
      <4>1. task'[p] = [task[o] EXCEPT ![i] = [task[o][i] EXCEPT !.status = to]]
        BY <2>1, <3>1
      <4>2. task'[p] \in [DOMAIN task[o] -> TaskRow]
        BY <4>1, <2>3, <2>4
      <4>. QED BY <4>2, <2>2, <3>1 DEF TasksOfOrder
    <3>2. CASE p # o
      BY <2>1, <2>2, <3>2 DEF TasksOfOrder
    <3>. QED BY <3>1, <3>2
  <2>6. Planned \subseteq Planned'
    BY <2>5, PlannedGrows
  <2>7. DOMAIN task' = Orders
    BY <2>1
  <2>. QED BY <2>2, <2>5, <2>6, <2>7
<1>6. ASSUME NEW o \in Orders, Cancel(o)
      PROVE  TypeOK'
  <2> DEFINE rows == [i \in DOMAIN task[o] |->
                        IF <<o, i>> \in Unfinished THEN [task[o][i] EXCEPT !.status = "CANCELLED"]
                        ELSE task[o][i]]
  <2>1. order' = [order EXCEPT ![o].status = "CANCELLED"] /\ task' = [task EXCEPT ![o] = rows]
    BY <1>6 DEF Cancel
  <2>2. rows \in [DOMAIN task[o] -> TaskRow]
    <3> SUFFICES ASSUME NEW i \in DOMAIN task[o]
                 PROVE  [task[o][i] EXCEPT !.status = "CANCELLED"] \in TaskRow /\ task[o][i] \in TaskRow
      OBVIOUS
    <3>1. task[o][i] \in TaskRow
      BY DEF TasksOfOrder
    <3>. QED BY <3>1 DEF TaskRow
  <2>3. order' \in [Orders -> OrderRow]
    BY <2>1 DEF OrderRow
  <2>4. \A p \in Orders : TasksOfOrder(p)' /\ DOMAIN task[p] = DOMAIN task'[p]
    <3> TAKE p \in Orders
    <3> HIDE DEF rows
    <3>1. CASE p = o
      <4>1. task'[p] = rows /\ order'[p].status = "CANCELLED"
        BY <2>1, <3>1
      <4>. QED BY <4>1, <2>2, <3>1 DEF TasksOfOrder
    <3>2. CASE p # o
      <4>1. task'[p] = task[p] /\ order'[p] = order[p]
        BY <2>1, <3>2
      <4>. QED BY <4>1 DEF TasksOfOrder
    <3>. QED BY <3>1, <3>2
  <2>5. Planned \subseteq Planned'
    BY <2>4, PlannedGrows
  <2>6. UNCHANGED <<now, notified, published, ticker, aborts>> /\ DOMAIN task' = Orders
    BY <1>6 DEF Cancel
  <2>. QED BY <2>3, <2>4, <2>5, <2>6
<1>7. CASE Advance
  BY <1>7 DEF Advance, Planned, TasksOfOrder
<1>8. ASSUME NEW k \in Tickers, TickStep(k) \/ Abort(k)
      PROVE  TypeOK'
  <2>0. UNCHANGED <<now, order, task>>
    BY <1>8 DEF TickStep, Scan, Mark, Skip, Publish, Abort
  <2>1. (\A p \in Orders : TasksOfOrder(p)') /\ Planned' = Planned /\ Planned \subseteq TaskId
    BY <2>0 DEF TasksOfOrder, Planned
  <2>2. Resting \in TickerState /\ Resting.todo = {}
    BY DEF Resting, TickerState
  <2>3. ticker[k] \in TickerState
    OBVIOUS
  <2>4. ASSUME NEW todo \in SUBSET Planned, Continue(k, todo)
        PROVE  /\ ticker' \in [Tickers -> TickerState]
               /\ \A l \in Tickers : ticker'[l].todo \subseteq Planned
    BY <2>1, <2>2, <2>3, <2>4 DEF Continue, TickerState
  <2>5. CASE Scan(k)
    <3>1. Candidates(now) \subseteq Planned
      BY DEF Candidates, Waiting
    <3>. QED BY <2>5, <3>1, <2>0, <2>1 DEF Scan, TickerState
  <2>6. ASSUME NEW id \in TaskId, Mark(k, id)
        PROVE  TypeOK'
    <3>1. notified' \subseteq Planned
      BY <2>6 DEF Mark
    <3>2. ticker' \in [Tickers -> TickerState] /\ \A l \in Tickers : ticker'[l].todo \subseteq Planned
      BY <2>6, <2>3 DEF Mark, TickerState
    <3>. QED BY <2>6, <2>0, <2>1, <3>1, <3>2 DEF Mark
  <2>7. ASSUME NEW id \in TaskId, Skip(k, id)
        PROVE  TypeOK'
    BY <2>7, <2>0, <2>1, <2>4 DEF Skip
  <2>8. CASE Publish(k)
    <3>1. published' \in [TaskId -> Nat]
      BY <2>8 DEF Publish
    <3>. QED BY <2>8, <2>0, <2>1, <2>4, <3>1 DEF Publish
  <2>9. CASE Abort(k)
    <3>1. aborts' \in Nat
      BY <2>9 DEF Abort
    <3>. QED BY <2>9, <2>0, <2>1, <2>2, <3>1 DEF Abort
  <2>. QED BY <1>8, <2>5, <2>6, <2>7, <2>8, <2>9 DEF TickStep
<1>9. CASE UNCHANGED vars
  BY <1>9 DEF vars, TasksOfOrder, Planned
<1>. QED BY <1>2, <1>3, <1>4, <1>5, <1>6, <1>7, <1>8, <1>9 DEF Next

-----------------------------------------------------------------------------
(* What PromiseKept says of one order.                                     *)
PromiseOf(o) ==
  /\ \A i \in DOMAIN task[o] : task[o][i].ready + Menu[i].buffer * MINUTE <= order[o].target
  /\ order[o].target # order[o].promised =>
       \E i \in DOMAIN task[o] :
         task[o][i].ready + Menu[i].buffer * MINUTE = order[o].target

(* PromiseKept is PromiseOf for each order.                                *)
LEMMA PromisePerOrder == PromiseKept <=> \A o \in Orders : PromiseOf(o)
BY DEF PromiseKept, PromiseOf, HandedOver, Row

(* Rows that keep their ready times, and the target, keep the promise.     *)
LEMMA PromiseUntouched ==
  ASSUME NEW o \in Orders, PromiseOf(o),
         order'[o].target = order[o].target, order'[o].promised = order[o].promised,
         DOMAIN task'[o] = DOMAIN task[o],
         \A i \in DOMAIN task[o] : task'[o][i].ready = task[o][i].ready
  PROVE  PromiseOf(o)'
BY DEF PromiseOf

(* No step breaks a promise.                                               *)
LEMMA PromiseStep ==
  ASSUME TypeOK, PromiseKept, [Next]_vars
  PROVE  PromiseKept'
<1> SUFFICES ASSUME NEW o \in Orders
             PROVE  PromiseOf(o)'
  <2>1. (\A o \in Orders : PromiseOf(o)') => PromiseKept'
    BY DEF PromiseKept, PromiseOf, HandedOver, Row
  <2>. QED BY <2>1
<1>0. PromiseOf(o)
  BY PromisePerOrder
<1>a. /\ DOMAIN task = Orders
      /\ order \in [Orders -> OrderRow]
      /\ task[o] \in [DOMAIN task[o] -> TaskRow]
      /\ order[o].target \in Int
      /\ now \in Nat
  BY DEF TypeOK, TasksOfOrder, OrderRow
<1>1. CASE UNCHANGED <<order, task>>
  BY <1>0, <1>1, PromiseUntouched
<1>2. ASSUME NEW p \in Orders, NEW asap, NEW target, Promise(p, asap, target)
      PROVE  PromiseOf(o)'
  <2>1. CASE p = o
    <3>1. DOMAIN task'[o] = {} /\ order'[o].target = order'[o].promised
      BY <1>2, <1>a, <2>1 DEF Promise, TypeOK, TasksOfOrder
    <3>. QED BY <3>1 DEF PromiseOf
  <2>2. CASE p # o
    <3>1. order'[o] = order[o] /\ task' = task
      BY <1>2, <1>a, <2>2 DEF Promise
    <3>. QED BY <3>1, <1>0, PromiseUntouched
  <2>. QED BY <2>1, <2>2
<1>3. ASSUME NEW p \in Orders, Plan(p)
      PROVE  PromiseOf(o)'
  <2>1. CASE p = o
    <3> DEFINE eff == EffectiveReadyAt(Bought(o), order[o].target, now)
               ready(i) == PlannedReady(Bought(o)[i], order[o].target, now)
    <3>1. /\ DOMAIN task'[o] = ToProduce(Bought(o))
          /\ \A i \in ToProduce(Bought(o)) : task'[o][i].ready = ready(i)
          /\ order'[o].target = eff /\ order'[o].promised = order[o].promised
      BY <1>3, <1>a, <2>1 DEF Plan, BuildProductionPlan
    <3>2. order[o].target = order[o].promised
      BY <1>0, <1>3, <2>1 DEF Plan, PromiseOf, TypeOK, TasksOfOrder
    <3>3. /\ \A i \in ToProduce(Bought(o)) : ready(i) + Bought(o)[i].buffer * MINUTE <= eff
          /\ eff # order[o].target =>
               \E i \in ToProduce(Bought(o)) : ready(i) + Bought(o)[i].buffer * MINUTE = eff
      <4>1. \A i \in DOMAIN Bought(o) : Bought(o)[i] \in Item
        BY BoughtItems
      <4>. QED BY <4>1, <1>a, EffectiveTarget
    <3>4. \A i \in ToProduce(Bought(o)) : Bought(o)[i] = Menu[i]
      BY BoughtItems
    <3>. HIDE DEF eff, ready
    <3>. QED BY <3>1, <3>2, <3>3, <3>4 DEF PromiseOf
  <2>2. CASE p # o
    <3>1. order'[o] = order[o] /\ task'[o] = task[o]
      BY <1>3, <1>a, <2>2 DEF Plan
    <3>. QED BY <3>1, <1>0, PromiseUntouched
  <2>. QED BY <2>1, <2>2
<1>4. ASSUME NEW id \in TaskId, NEW from \in {"SCHEDULED", "IN_PRODUCTION"},
             NEW to \in {"IN_PRODUCTION", "READY"}, Press(id, from, to)
      PROVE  PromiseOf(o)'
  <2>1. order' = order /\ id[2] \in DOMAIN task[id[1]]
        /\ task' = [task EXCEPT ![id[1]][id[2]].status = to]
    BY <1>4 DEF Press, Planned
  <2>2. \A i \in DOMAIN task[o] : task'[o][i].ready = task[o][i].ready
    BY <2>1, <1>a DEF TaskRow
  <2>3. DOMAIN task'[o] = DOMAIN task[o]
    BY <2>1, <1>a
  <2>. QED BY <2>1, <2>2, <2>3, <1>0, PromiseUntouched
<1>5. ASSUME NEW p \in Orders, Cancel(p)
      PROVE  PromiseOf(o)'
  <2>1. /\ order'[o].target = order[o].target
        /\ order'[o].promised = order[o].promised
    BY <1>5, <1>a DEF Cancel, OrderRow
  <2>2. \A i \in DOMAIN task[o] : task'[o][i].ready = task[o][i].ready
    BY <1>5, <1>a DEF Cancel, TaskRow
  <2>3. DOMAIN task'[o] = DOMAIN task[o]
    BY <1>5, <1>a DEF Cancel
  <2>. QED BY <2>1, <2>2, <2>3, <1>0, PromiseUntouched
<1>6. ASSUME NEW k \in Tickers, TickStep(k) \/ Abort(k)
      PROVE  PromiseOf(o)'
  <2>1. UNCHANGED <<order, task>>
    BY <1>6 DEF TickStep, Scan, Mark, Skip, Publish, Abort
  <2>. QED BY <2>1, <1>1
<1>7. CASE Advance \/ UNCHANGED vars
  BY <1>7, <1>1 DEF Advance, vars
<1>. QED BY <1>2, <1>3, <1>4, <1>5, <1>6, <1>7 DEF Next, CreateAsap, CreateScheduled

-----------------------------------------------------------------------------
(* An estimate, and the slip of its order, depend on its row and the clock.*)
LEMMA SlipUntouched ==
  ASSUME NEW o \in Orders, SlipOf(o), EstimateOf(o), order'[o] = order[o],
         now' \in Nat, now \in Nat, now' >= now, order[o].created \in Nat
  PROVE  SlipOf(o)' /\ EstimateOf(o)'
<1>1. Bought(o)' = Bought(o)
  BY DEF Bought
<1>. QED BY <1>1 DEF SlipOf, EstimateOf

(* No step but the plan moves a target, and the plan only by the delay.    *)
LEMMA SlipStep ==
  ASSUME TypeOK, [Next]_vars, NEW o \in Orders, SlipOf(o), EstimateOf(o)
  PROVE  SlipOf(o)' /\ EstimateOf(o)'
<1>a. /\ order \in [Orders -> OrderRow]
      /\ order[o] \in OrderRow /\ order[o].created \in Nat /\ order[o].target \in Int
      /\ now \in Nat
  BY DEF TypeOK, OrderRow
<1>b. /\ \A i \in DOMAIN Bought(o) : Bought(o)[i] \in Item
      /\ \A i \in ToProduce(Bought(o)) : Needs(Bought(o)[i]) \in Nat
      /\ Bought(o)' = Bought(o)
  <2>1. \A i \in DOMAIN Bought(o) : Bought(o)[i] \in Item
    BY BoughtItems
  <2>2. \A i \in ToProduce(Bought(o)) : Bought(o)[i] \in Item
    BY <2>1 DEF ToProduce
  <2>3. Bought(o)' = Bought(o)
    BY DEF Bought
  <2>. QED BY <2>1, <2>2, <2>3, NeedsBounded
<1>1. ASSUME UNCHANGED order, now' = now \/ now' = now + 1
      PROVE  SlipOf(o)' /\ EstimateOf(o)'
  <2>1. now' \in Nat /\ now' >= now
    BY <1>1, <1>a
  <2>. QED BY <2>1, <1>1, <1>a, SlipUntouched
<1>2. ASSUME NEW p \in Orders, NEW asap \in BOOLEAN, NEW target \in Int, Promise(p, asap, target),
             asap => \A i \in ToProduce(Bought(p)) : now + Needs(Bought(p)[i]) <= target
      PROVE  SlipOf(o)' /\ EstimateOf(o)'
  <2>1. CASE p = o
    <3>1. /\ order'[o].status = "AWAITING_PAYMENT" /\ order'[o].created = now
          /\ order'[o].target = target /\ order'[o].promised = target
          /\ order'[o].asap = asap /\ now' = now
      BY <1>2, <1>a, <2>1 DEF Promise
    <3>. QED BY <3>1, <1>2, <2>1, <1>a, <1>b DEF SlipOf, EstimateOf
  <2>2. CASE p # o
    <3>1. order'[o] = order[o] /\ now' = now
      BY <1>2, <1>a, <2>2 DEF Promise
    <3>. QED BY <3>1, <1>a, SlipUntouched
  <2>. QED BY <2>1, <2>2
<1>3. ASSUME NEW p \in Orders, CreateAsap(p)
      PROVE  SlipOf(o)' /\ EstimateOf(o)'
  <2>1. \A i \in DOMAIN Bought(p) : Bought(p)[i] \in Item
    BY BoughtItems
  <2>. QED BY <2>1, <1>a, <1>2, <1>3, AsapTarget DEF CreateAsap
<1>4. ASSUME NEW p \in Orders, NEW t \in PickupTimes, CreateScheduled(p, t)
      PROVE  SlipOf(o)' /\ EstimateOf(o)'
  BY <1>2, <1>4, TimeAssumption DEF CreateScheduled
<1>5. ASSUME NEW p \in Orders, Plan(p)
      PROVE  SlipOf(o)' /\ EstimateOf(o)'
  <2>1. CASE p = o
    <3> DEFINE eff == EffectiveReadyAt(Bought(o), order[o].target, now)
    <3>1. /\ order[o].status = "AWAITING_PAYMENT" /\ order'[o].status = "CONFIRMED"
          /\ order'[o].target = eff /\ order'[o].paid = now
          /\ order'[o].promised = order[o].promised /\ order'[o].created = order[o].created
          /\ order'[o].asap = order[o].asap
      BY <1>5, <1>a, <2>1 DEF Plan, OrderRow
    <3>2. eff # order[o].target =>
            \E i \in ToProduce(Bought(o)) : eff = now + Needs(Bought(o)[i])
      BY <1>a, <1>b, EffectiveTarget
    <3>. HIDE DEF eff
    <3>3. CASE eff = order[o].target
      BY <3>1, <3>3, <1>a DEF SlipOf, EstimateOf
    <3>4. CASE eff # order[o].target
      <4>1. PICK i \in ToProduce(Bought(o)) : eff = now + Needs(Bought(o)[i])
        BY <3>2, <3>4
      <4>2. order[o].asap => order[o].created + Needs(Bought(o)[i]) <= order[o].target
        BY <3>1 DEF EstimateOf
      <4>3. order[o].target = order[o].promised
        BY <3>1 DEF EstimateOf
      <4>4. order[o].asap => eff - order[o].promised <= now - order[o].created
        <5>1. Needs(Bought(o)[i]) \in Nat
          BY <1>b
        <5>. QED BY <4>1, <4>2, <4>3, <5>1, <1>a
      <4>. QED BY <3>1, <4>4 DEF SlipOf, EstimateOf
    <3>. QED BY <3>3, <3>4
  <2>2. CASE p # o
    <3>1. order'[o] = order[o] /\ now' = now
      BY <1>5, <1>a, <2>2 DEF Plan
    <3>. QED BY <3>1, <1>a, SlipUntouched
  <2>. QED BY <2>1, <2>2
<1>6. ASSUME NEW p \in Orders, Cancel(p)
      PROVE  SlipOf(o)' /\ EstimateOf(o)'
  <2>1. CASE p = o
    <3>1. order'[o].status = "CANCELLED"
      BY <1>6, <1>a, <2>1 DEF Cancel, OrderRow
    <3>. QED BY <3>1 DEF SlipOf, EstimateOf
  <2>2. CASE p # o
    <3>1. order'[o] = order[o] /\ now' = now
      BY <1>6, <1>a, <2>2 DEF Cancel
    <3>. QED BY <3>1, <1>a, SlipUntouched
  <2>. QED BY <2>1, <2>2
<1>7. ASSUME NEW k \in Tickers, TickStep(k) \/ Abort(k)
      PROVE  SlipOf(o)' /\ EstimateOf(o)'
  BY <1>7, <1>1 DEF TickStep, Scan, Mark, Skip, Publish, Abort
<1>8. ASSUME NEW id \in TaskId, NEW from, NEW to, Press(id, from, to)
      PROVE  SlipOf(o)' /\ EstimateOf(o)'
  BY <1>8, <1>1 DEF Press
<1>9. CASE Advance \/ UNCHANGED vars
  BY <1>9, <1>1 DEF Advance, vars
<1>. QED BY <1>9, <1>3, <1>4, <1>5, <1>6, <1>7, <1>8 DEF Next

-----------------------------------------------------------------------------
(* A mark is made by one run only, and published by that run only.         *)
LEMMA AnnounceStep ==
  ASSUME TypeOK, AnnouncedOnce, MarkedByOne, [Next]_vars
  PROVE  AnnouncedOnce' /\ MarkedByOne'
<1> USE DEF AnnouncedOnce, MarkedByOne
<1>0. ticker \in [Tickers -> TickerState] /\ published \in [TaskId -> Nat]
  BY DEF TypeOK
<1>1. CASE UNCHANGED <<notified, published, ticker>>
  BY <1>1
<1>2. ASSUME NEW k \in Tickers, Scan(k)
      PROVE  AnnouncedOnce' /\ MarkedByOne'
  <2>1. UNCHANGED <<notified, published>>
    BY <1>2 DEF Scan
  <2>2. \A l \in Tickers : ticker'[l].pc = "marked" => ticker'[l] = ticker[l] /\ ticker[l].pc = "marked"
    BY <1>0, <1>2 DEF Scan
  <2>. QED BY <2>1, <2>2
<1>3. ASSUME NEW k \in Tickers, NEW id \in TaskId, Mark(k, id)
      PROVE  AnnouncedOnce' /\ MarkedByOne'
  <2>1. /\ id \notin notified /\ notified' = notified \cup {id} /\ published' = published
        /\ ticker'[k].pc = "marked" /\ ticker'[k].current = {id}
        /\ \A l \in Tickers \ {k} : ticker'[l] = ticker[l]
    BY <1>0, <1>3 DEF Mark, TickerState
  <2>2. published[id] = 0
    BY <2>1, <1>0
  <2>. QED BY <2>1, <2>2
<1>4. ASSUME NEW k \in Tickers, NEW todo, Continue(k, todo),
             UNCHANGED <<notified, published>>
      PROVE  AnnouncedOnce' /\ MarkedByOne'
  <2>1. \A l \in Tickers : ticker'[l].pc = "marked" => ticker'[l] = ticker[l] /\ ticker[l].pc = "marked"
    BY <1>0, <1>4 DEF Continue, Resting
  <2>. QED BY <2>1, <1>4
<1>5. ASSUME NEW k \in Tickers, Publish(k)
      PROVE  AnnouncedOnce' /\ MarkedByOne'
  <2>1. /\ ticker[k].pc = "marked" /\ notified' = notified
        /\ \A id \in TaskId : published'[id] = IF id \in ticker[k].current THEN published[id] + 1
                                               ELSE published[id]
    BY <1>5 DEF Publish
  <2>2. ticker'[k].pc # "marked" /\ \A l \in Tickers \ {k} : ticker'[l] = ticker[l]
    BY <1>0, <1>5 DEF Publish, Continue, Resting
  <2>3. \A l \in Tickers : ticker[l].current \subseteq TaskId
    BY <1>0 DEF TickerState
  <2>4. AnnouncedOnce'
    BY <2>1, <1>0
  <2>5. \A id \in TaskId : published'[id] > 0 => id \in notified'
    BY <2>1, <1>0
  <2>6. ASSUME NEW l \in Tickers, ticker'[l].pc = "marked"
        PROVE  /\ ticker'[l].current \subseteq notified'
               /\ \A id \in ticker'[l].current :
                    /\ published'[id] = 0
                    /\ \A m \in Tickers \ {l} : ticker'[m].pc = "marked" => id \notin ticker'[m].current
    <3>1. l # k /\ ticker'[l] = ticker[l]
      BY <2>2, <2>6
    <3>2. \A id \in ticker[l].current : published'[id] = 0
      BY <2>1, <2>3, <2>6, <3>1
    <3>3. \A m \in Tickers : ticker'[m].pc = "marked" => ticker'[m] = ticker[m]
      BY <2>2
    <3>. QED BY <2>1, <2>6, <3>1, <3>2, <3>3
  <2>. QED BY <2>4, <2>5, <2>6
<1>6. ASSUME NEW k \in Tickers, Abort(k)
      PROVE  AnnouncedOnce' /\ MarkedByOne'
  <2>1. UNCHANGED <<notified, published>>
    BY <1>6 DEF Abort
  <2>2. \A l \in Tickers : ticker'[l].pc = "marked" => ticker'[l] = ticker[l] /\ ticker[l].pc = "marked"
    BY <1>0, <1>6 DEF Abort, Resting
  <2>. QED BY <2>1, <2>2
<1>7. ASSUME NEW k \in Tickers, TickStep(k)
      PROVE  AnnouncedOnce' /\ MarkedByOne'
  BY <1>7, <1>2, <1>3, <1>4, <1>5 DEF TickStep, Skip
<1>. QED
  BY <1>1, <1>6, <1>7
     DEF Next, vars, CreateAsap, CreateScheduled, Promise, Plan, Cancel, Press, Advance

-----------------------------------------------------------------------------
(* Only Advance moves the clock.                                           *)
LEMMA ClockForward ==
  ASSUME now \in Nat, [Next]_vars
  PROVE  now' \in Nat /\ now <= now'
<1>1. CASE Advance
  BY <1>1 DEF Advance
<1>2. CASE now' = now
  BY <1>2
<1>3. ASSUME NEW k \in Tickers, TickStep(k) \/ Abort(k)
      PROVE  now' = now
  BY <1>3 DEF TickStep, Scan, Mark, Skip, Publish, Abort
<1>4. ASSUME NEW o \in Orders, NEW t \in PickupTimes,
             CreateAsap(o) \/ CreateScheduled(o, t) \/ Plan(o) \/ Cancel(o)
      PROVE  now' = now
  BY <1>4 DEF CreateAsap, CreateScheduled, Promise, Plan, Cancel
<1>5. ASSUME NEW o \in Orders, CreateAsap(o) \/ Plan(o) \/ Cancel(o)
      PROVE  now' = now
  BY <1>5 DEF CreateAsap, Promise, Plan, Cancel
<1>6. ASSUME NEW id \in TaskId, NEW from, NEW to, Press(id, from, to)
      PROVE  now' = now
  BY <1>6 DEF Press
<1>. QED BY <1>1, <1>2, <1>3, <1>4, <1>5, <1>6 DEF Next, vars

(* A task that was due stays due: the clock does not go back and nothing   *)
(* writes the planned start of a task that was planned before.             *)
LEMMA StaysDue ==
  ASSUME TypeOK, [Next]_vars, NEW id \in Planned, NEW at \in Int, at <= now,
         IsDue(Row(id).start, at)
  PROVE  /\ now' \in Nat /\ now <= now'
         /\ Row(id)'.start = Row(id).start
         /\ IsDue(Row(id)'.start, now')
<1>a. PICK o \in Orders : \E i \in Cart[o] : id = <<o, i>> /\ i \in DOMAIN task[o]
  BY DEF Planned, TaskId
<1>1. PICK i \in Cart[o] : id = <<o, i>> /\ i \in DOMAIN task[o]
  BY <1>a
<1>2. task[o][i] \in TaskRow /\ task[o][i].start \in Int /\ now \in Nat /\ DOMAIN task = Orders
  BY <1>1 DEF TypeOK, TasksOfOrder, TaskRow
<1>3. now' \in Nat /\ now <= now'
  BY <1>2, ClockForward
<1>4. task'[o][i].start = task[o][i].start
  <2>1. ASSUME NEW p \in Orders, Plan(p)
        PROVE  task'[o] = task[o]
    <3>1. DOMAIN task[p] = {}
      BY <2>1 DEF Plan, TypeOK, TasksOfOrder
    <3>. QED BY <3>1, <1>1, <1>2, <2>1 DEF Plan
  <2>2. ASSUME NEW p \in Orders, Cancel(p)
        PROVE  task'[o][i].start = task[o][i].start
    BY <1>1, <1>2, <2>2 DEF Cancel, TaskRow
  <2>3. ASSUME NEW t \in TaskId, NEW from, NEW to, Press(t, from, to)
        PROVE  task'[o][i].start = task[o][i].start
    <3>a. PICK p \in Orders : \E j \in Cart[p] : t = <<p, j>> /\ j \in DOMAIN task[p]
      BY <2>3 DEF Press, Planned, TaskId
    <3>1. PICK j \in Cart[p] : t = <<p, j>> /\ j \in DOMAIN task[p]
      BY <3>a
    <3>. QED BY <3>1, <1>1, <1>2, <2>3 DEF Press, TaskRow, TypeOK, TasksOfOrder
  <2>. QED
    BY <2>1, <2>2, <2>3
       DEF Next, vars, Advance, CreateAsap, CreateScheduled, Promise,
           TickStep, Scan, Mark, Skip, Publish, Abort
<1>5. Thresholds.startingSoon * MINUTE \in Nat
  <2>1. \A a, m \in Nat : a * m \in Nat
    OBVIOUS
  <2>. QED BY <2>1, MinuteAssumption, ThresholdAssumption
<1>. QED BY <1>1, <1>2, <1>3, <1>4, <1>5 DEF IsDue, Row

(* A run marks what was due when it began.                                 *)
LEMMA MarkStep ==
  ASSUME TypeOK, MarkedIsDue, [Next]_vars
  PROVE  MarkedIsDue'
<1>0. /\ ticker \in [Tickers -> TickerState] /\ now \in Nat
      /\ \A k \in Tickers : ticker[k].at \in Nat /\ ticker[k].at <= now
                           /\ ticker[k].todo \subseteq Planned
      /\ notified \subseteq Planned
  BY DEF TypeOK, MarkedIsDue, TickerState
<1>1. \A id \in notified : IsDue(Row(id)'.start, now')
  BY <1>0, StaysDue DEF MarkedIsDue
<1>2. now' \in Nat /\ now <= now'
  BY <1>0, ClockForward
<1>3. \A l \in Tickers : ticker'[l].at <= now'
  <2>1. \A l \in Tickers : ticker'[l].at \in {ticker[l].at, now, 0}
    <3>1. ASSUME NEW k \in Tickers, TickStep(k) \/ Abort(k)
          PROVE  \A l \in Tickers : ticker'[l].at \in {ticker[l].at, now, 0}
      <4>1. ASSUME NEW todo, Continue(k, todo)
            PROVE  \A l \in Tickers : ticker'[l].at \in {ticker[l].at, now, 0}
        BY <1>0, <4>1 DEF Continue, Resting
      <4>2. CASE Scan(k)
        BY <1>0, <4>2 DEF Scan
      <4>3. ASSUME NEW id \in TaskId, Mark(k, id)
            PROVE  \A l \in Tickers : ticker'[l].at \in {ticker[l].at, now, 0}
        BY <1>0, <4>3 DEF Mark, TickerState
      <4>4. ASSUME NEW id \in TaskId, Skip(k, id)
            PROVE  \A l \in Tickers : ticker'[l].at \in {ticker[l].at, now, 0}
        BY <4>4, <4>1 DEF Skip
      <4>5. CASE Publish(k)
        BY <4>5, <4>1 DEF Publish
      <4>6. CASE Abort(k)
        BY <1>0, <4>6 DEF Abort, Resting
      <4>. QED BY <3>1, <4>2, <4>3, <4>4, <4>5, <4>6 DEF TickStep
    <3>2. CASE ticker' = ticker
      BY <3>2
    <3>. QED
      BY <3>1, <3>2
         DEF Next, vars, Advance, CreateAsap, CreateScheduled, Promise, Plan, Cancel, Press
  <2>. QED BY <2>1, <1>0, <1>2
<1>4. \A id \in notified' : IsDue(Row(id)'.start, now')
  <2>1. ASSUME NEW k \in Tickers, NEW id \in TaskId, Mark(k, id)
        PROVE  IsDue(Row(id)'.start, now') /\ notified' = notified \cup {id}
    <3>1. id \in Planned /\ IsDue(Row(id).start, ticker[k].at) /\ notified' = notified \cup {id}
      BY <1>0, <2>1 DEF Mark
    <3>. QED BY <3>1, <1>0, StaysDue
  <2>. QED
    BY <2>1, <1>1
       DEF Next, vars, Advance, CreateAsap, CreateScheduled, Promise, Plan, Cancel, Press,
           TickStep, Scan, Skip, Publish, Abort
<1>. QED BY <1>3, <1>4 DEF MarkedIsDue, Row

-----------------------------------------------------------------------------
(* The invariant holds before any order is placed.                         *)
LEMMA InitInv == Init => IInv
<1> SUFFICES ASSUME Init PROVE IInv
  OBVIOUS
<1>1. TypeOK
  <2>1. \A o \in Orders : task[o] = [i \in {} |-> NoStation] /\ order[o] = NoOrder
    BY DEF Init
  <2>2. \A o \in Orders : TasksOfOrder(o)
    <3> TAKE o \in Orders
    <3>1. DOMAIN task[o] = {} /\ task[o] \in [{} -> TaskRow]
      BY <2>1
    <3>2. order[o].status = "ABSENT"
      BY <2>1 DEF NoOrder
    <3>. QED BY <3>1, <3>2 DEF TasksOfOrder
  <2>3. NoOrder \in OrderRow /\ Resting \in TickerState /\ Resting.todo = {}
    BY DEF NoOrder, OrderRow, Resting, TickerState
  <2>. QED BY <2>2, <2>3 DEF TypeOK, Init
<1>2. PromiseKept
  BY DEF Init, PromiseKept, NoOrder
<1>3. AnnouncedOnce /\ MarkedByOne
  BY DEF Init, AnnouncedOnce, MarkedByOne, Resting
<1>4. \A o \in Orders : SlipOf(o) /\ EstimateOf(o)
  BY DEF Init, SlipOf, EstimateOf, NoOrder
<1>5. MarkedIsDue
  BY DEF Init, MarkedIsDue, Resting
<1>. QED BY <1>1, <1>2, <1>3, <1>4, <1>5 DEF IInv

(* Every state satisfies the inductive invariant.                          *)
THEOREM Invariance == Spec => []IInv
<1>1. IInv /\ [Next]_vars => IInv'
  BY TypeStep, PromiseStep, SlipStep, AnnounceStep, MarkStep DEF IInv
<1>. QED BY <1>1, InitInv, PTL DEF Spec

(* Every variable of the kitchen keeps its type.                           *)
THEOREM TypeCorrect == Spec => []TypeOK
<1>1. IInv => TypeOK
  BY DEF IInv
<1>. QED BY <1>1, Invariance, PTL

(* The target of a paid order leaves time for every task and its buffer,   *)
(* and is moved no further than the slowest task needs.                    *)
THEOREM PromiseHolds == Spec => []PromiseKept
<1>1. IInv => PromiseKept
  BY DEF IInv
<1>. QED BY <1>1, Invariance, PTL

(* An ASAP order is never moved by more than its payment was awaited.      *)
THEOREM SlipIsDelay == Spec => []AsapSlipsByDelayOnly
<1>1. IInv => AsapSlipsByDelayOnly
  BY DEF IInv, AsapSlipsByDelayOnly
<1>. QED BY <1>1, Invariance, PTL

(* No task is announced twice, whatever runs of the tick overlap or die.   *)
THEOREM OneAnnouncement == Spec => []AnnouncedOnce
<1>1. IInv => AnnouncedOnce
  BY DEF IInv
<1>. QED BY <1>1, Invariance, PTL

(* The row of a planned task has the type of one.                          *)
LEMMA PlannedRow ==
  ASSUME TypeOK, NEW id \in Planned
  PROVE  Row(id) \in TaskRow /\ order[id[1]].target \in Int
<1>1. PICK o \in Orders : \E i \in Cart[o] : id = <<o, i>>
  BY DEF Planned, TaskId
<1>2. PICK i \in Cart[o] : id = <<o, i>>
  BY <1>1
<1>. QED BY <1>2 DEF Planned, Row, TypeOK, TasksOfOrder, OrderRow

(* A task the server has announced and nobody has touched shows on the     *)
(* screen's own clock as starting soon, as due or as late: the two compute *)
(* the threshold alike, and the announcement is not ahead of the screen.   *)
THEOREM AnnouncementShows == Spec => []AnnouncedLooksSoon
<1>1. IInv => AnnouncedLooksSoon
  <2> SUFFICES ASSUME IInv, NEW id \in Waiting, published[id] > 0
               PROVE  Display(id) # "SCHEDULED"
    BY DEF AnnouncedLooksSoon
  <2> DEFINE start == Row(id).start
             soon == Thresholds.startingSoon * MINUTE
             late == now > start + Thresholds.lateGrace * MINUTE
  <2>1. id \in Planned /\ Row(id).status = "SCHEDULED" /\ id \in TaskId
    BY DEF Waiting, Planned
  <2>2. Row(id) \in TaskRow
    BY <2>1, PlannedRow DEF IInv
  <2>3. start \in Int /\ now \in Nat /\ soon \in Nat
    <3>1. \A a, m \in Nat : a * m \in Nat
      OBVIOUS
    <3>. QED BY <3>1, <2>2, MinuteAssumption, ThresholdAssumption DEF TaskRow, IInv, TypeOK
  <2>4. start - now <= soon
    BY <2>1 DEF IInv, MarkedByOne, MarkedIsDue, IsDue
  <2>5. Display(id) = IF late THEN "LATE"
                      ELSE IF now >= start THEN "START_NOW"
                      ELSE IF now >= start - soon THEN "STARTING_SOON"
                      ELSE "SCHEDULED"
    BY <2>1 DEF Display, DeriveProductionDisplayStatus
  <2>. HIDE DEF start, soon, late
  <2>. QED BY <2>3, <2>4, <2>5
<1>. QED BY <1>1, Invariance, PTL

-----------------------------------------------------------------------------
(* compareTasksForBoard is a strict weak order.                            *)
LEMMA BeforeIsWeakOrder ==
  ASSUME NEW a, NEW b, NEW c, NEW t, NEW th,
         \A x \in {a, b, c} : /\ x.start \in Int /\ x.target \in Int
                              /\ x.priority \in Int /\ x.created \in Int
  PROVE  /\ ~(Before(a, b, t, th) /\ Before(b, a, t, th))
         /\ Before(a, c, t, th) => Before(a, b, t, th) \/ Before(b, c, t, th)
<1> DEFINE late(x) == IsLate(x, t, th)
<1>1. late(a) \in BOOLEAN /\ late(b) \in BOOLEAN /\ late(c) \in BOOLEAN
  BY DEF IsLate
<1> HIDE DEF late
<1>2. \A x, y : Before(x, y, t, th) <=>
        \/ late(x) /\ ~late(y)
        \/ /\ late(x) = late(y)
           /\ \/ x.start < y.start
              \/ x.start = y.start /\ x.target < y.target
              \/ x.start = y.start /\ x.target = y.target /\ x.priority > y.priority
              \/ /\ x.start = y.start /\ x.target = y.target /\ x.priority = y.priority
                 /\ x.created < y.created
  BY DEF Before, late
<1>. QED BY <1>1, <1>2

(* In every state the board is sorted by a strict weak order.              *)
THEOREM BoardConsistent == Spec => []BoardOrderIsConsistent
<1>1. TypeOK => BoardOrderIsConsistent
  <2> SUFFICES ASSUME TypeOK, NEW a \in Unfinished, NEW b \in Unfinished, NEW c \in Unfinished
               PROVE  LET Lt(x, y) == Before(BoardTask(x), BoardTask(y), now, Thresholds)
                      IN  ~(Lt(a, b) /\ Lt(b, a)) /\ (Lt(a, c) => Lt(a, b) \/ Lt(b, c))
    BY DEF BoardOrderIsConsistent
  <2>1. \A x \in Unfinished :
          /\ BoardTask(x).start \in Int /\ BoardTask(x).target \in Int
          /\ BoardTask(x).priority \in Int /\ BoardTask(x).created \in Int
    <3> TAKE x \in Unfinished
    <3>1. Row(x) \in TaskRow /\ order[x[1]].target \in Int
      BY PlannedRow DEF Unfinished
    <3>. QED BY <3>1 DEF BoardTask, TaskRow
  <2>. QED BY <2>1, BeforeIsWeakOrder
<1>. QED BY <1>1, TypeCorrect, PTL

(* Whatever horizon and thresholds are set, nothing that has to be started *)
(* now, is late or is under way is hidden in the Upcoming view, and what   *)
(* is starting soon only below a horizon shorter than the threshold.       *)
THEOREM UpcomingCalm == Spec => []UpcomingIsCalm
<1>1. TypeOK => UpcomingIsCalm
  <2> SUFFICES ASSUME TypeOK, NEW id \in Unfinished,
                      ~IsOnMainBoard(Row(id), now, Thresholds.boardHorizon)
               PROVE  \/ Display(id) = "SCHEDULED"
                      \/ /\ Display(id) = "STARTING_SOON"
                         /\ Thresholds.boardHorizon < Thresholds.startingSoon
    BY DEF UpcomingIsCalm
  <2> DEFINE start == Row(id).start
             soon == Thresholds.startingSoon * MINUTE
             grace == Thresholds.lateGrace * MINUTE
             horizon == Thresholds.boardHorizon * MINUTE
  <2>1. start \in Int /\ now \in Nat
    BY PlannedRow DEF Unfinished, TaskRow, TypeOK
  <2>2. /\ soon \in Nat /\ grace \in Nat /\ horizon \in Nat
        /\ horizon >= soon \/ Thresholds.boardHorizon < Thresholds.startingSoon
    <3>1. \A a, b, m \in Nat : a * m \in Nat /\ (a <= b => a * m <= b * m)
      OBVIOUS
    <3>2. /\ Thresholds.startingSoon \in Nat /\ Thresholds.lateGrace \in Nat
          /\ Thresholds.boardHorizon \in Nat /\ MINUTE \in Nat
      BY MinuteAssumption, ThresholdAssumption
    <3>3. \/ Thresholds.startingSoon <= Thresholds.boardHorizon
          \/ Thresholds.boardHorizon < Thresholds.startingSoon
      BY <3>2
    <3>. QED BY <3>1, <3>2, <3>3
  <2>3. Row(id).status = "SCHEDULED" /\ ~(start - now <= horizon)
    BY DEF IsOnMainBoard
  <2>4. Display(id) = IF now > start + grace THEN "LATE"
                      ELSE IF now >= start THEN "START_NOW"
                      ELSE IF now >= start - soon THEN "STARTING_SOON"
                      ELSE "SCHEDULED"
    BY <2>3 DEF Display, DeriveProductionDisplayStatus
  <2>. HIDE DEF start, soon, grace, horizon
  <2>. QED BY <2>1, <2>2, <2>3, <2>4
<1>. QED BY <1>1, TypeCorrect, PTL

-----------------------------------------------------------------------------
(* The units a set of tasks takes up in the kitchen.                       *)
UnitsOf(tasks, S) == MapThenSumSet(LAMBDA t : tasks[t].units, S)

(* The same as a set: one tray for each unit of each task.                 *)
Trays(tasks, S) == UNION {{t} \X (1 .. tasks[t].units) : t \in S}

(* The sum of the units of any finite set of tasks is the number of their  *)
(* trays.                                                                  *)
LEMMA UnitsAreTrays ==
  ASSUME NEW tasks, NEW S, IsFiniteSet(S), \A t \in S : tasks[t].units \in Nat
  PROVE  IsFiniteSet(Trays(tasks, S)) /\ UnitsOf(tasks, S) = Cardinality(Trays(tasks, S))
<1>. DEFINE Pick(s) == CHOOSE x \in s : TRUE
            Sums(h) == h = [s \in SUBSET S |->
                             IF s = {} THEN 0 ELSE tasks[Pick(s)].units + h[s \ {Pick(s)}]]
            sum == CHOOSE h : Sums(h)
            count == [s \in SUBSET S |-> Cardinality(Trays(tasks, s))]
            Finite == {s \in SUBSET S : IsFiniteSet(Trays(tasks, s))}
            Agree == {s \in SUBSET S : sum[s] = count[s]}
<1>0. \A s : s # {} => Pick(s) \in s
  OBVIOUS
<1>1. UnitsOf(tasks, S) = sum[S]
  BY DEF UnitsOf, MapThenSumSet, MapThenFoldSet
<1>. HIDE DEF Pick
<1>2. Trays(tasks, {}) = {}
  BY DEF Trays
<1>3. ASSUME NEW s \in SUBSET S, NEW x \in s, IsFiniteSet(Trays(tasks, s \ {x}))
      PROVE  /\ IsFiniteSet(Trays(tasks, s))
             /\ Cardinality(Trays(tasks, s)) = tasks[x].units + Cardinality(Trays(tasks, s \ {x}))
  <2>. DEFINE own == {x} \X (1 .. tasks[x].units)
              rest == Trays(tasks, s \ {x})
  <2>1. Trays(tasks, s) = own \cup rest
    BY DEF Trays
  <2>2. own \cap rest = {}
    BY DEF Trays
  <2>3. IsFiniteSet(own) /\ Cardinality(own) = tasks[x].units
    <3>1. tasks[x].units \in Nat
      OBVIOUS
    <3>a. ASSUME NEW n \in Nat
          PROVE  IsFiniteSet(1 .. n) /\ Cardinality(1 .. n) = n
      <4>1. IsFiniteSet(1 .. n) /\ Cardinality(1 .. n) = IF 1 > n THEN 0 ELSE n - 1 + 1
        BY FS_Interval
      <4>. QED BY <4>1
    <3>2. IsFiniteSet(1 .. tasks[x].units) /\ Cardinality(1 .. tasks[x].units) = tasks[x].units
      BY <3>1, <3>a
    <3>3. IsFiniteSet({x}) /\ Cardinality({x}) = 1
      BY FS_Singleton
    <3>4. IsFiniteSet(own) /\ Cardinality(own) = 1 * tasks[x].units
      BY <3>2, <3>3, FS_Product
    <3>. QED BY <3>1, <3>4
  <2>4. Cardinality(own) \in Nat /\ Cardinality(rest) \in Nat
    BY <1>3, <2>3, FS_CardinalityType
  <2>5. IsFiniteSet(own \cup rest)
        /\ Cardinality(own \cup rest) = Cardinality(own) + Cardinality(rest) - Cardinality({})
    <3>. HIDE DEF own
    <3>1. IsFiniteSet(rest)
      BY <1>3
    <3>. HIDE DEF rest
    <3>2. /\ IsFiniteSet(own \cup rest)
          /\ Cardinality(own \cup rest)
               = Cardinality(own) + Cardinality(rest) - Cardinality(own \cap rest)
      BY <3>1, <2>3, FS_Union
    <3>. QED BY <3>2, <2>2
  <2>6. Cardinality({}) = 0
    BY FS_EmptySet
  <2>. HIDE DEF own, rest
  <2>. QED BY <2>1, <2>3, <2>4, <2>5, <2>6 DEF rest
<1>4. Finite = SUBSET S
  <2>1. ASSUME NEW s \in SUBSET S, \A t \in SUBSET s : t # s => t \in Finite
        PROVE  s \in Finite
    <3>1. CASE s = {}
      BY <1>2, <3>1, FS_EmptySet
    <3>2. CASE s # {}
      <4>1. Pick(s) \in s /\ s \ {Pick(s)} \in Finite
        BY <1>0, <2>1, <3>2
      <4>. QED BY <4>1, <1>3
    <3>. QED BY <3>1, <3>2
  <2>. HIDE DEF Finite
  <2>2. Finite \in SUBSET (SUBSET S)
    BY DEF Finite
  <2>. QED BY <2>1, <2>2, SubsetInduct
<1>5. Sums(count)
  <2>1. ASSUME NEW s \in SUBSET S
        PROVE  count[s] = IF s = {} THEN 0 ELSE tasks[Pick(s)].units + count[s \ {Pick(s)}]
    <3>1. CASE s = {}
      BY <1>2, <3>1, FS_EmptySet
    <3>2. CASE s # {}
      <4>1. Pick(s) \in s /\ s \ {Pick(s)} \in SUBSET S
        BY <1>0, <3>2
      <4>2. IsFiniteSet(Trays(tasks, s \ {Pick(s)}))
        BY <4>1, <1>4
      <4>. QED BY <4>1, <4>2, <1>3, <3>2
    <3>. QED BY <3>1, <3>2
  <2>. QED BY <2>1
<1>6. Sums(sum)
  <2>. HIDE DEF Sums, count
  <2>. QED BY <1>5
<1>. HIDE DEF sum
<1>7. Agree = SUBSET S
  <2>1. ASSUME NEW s \in SUBSET S, \A t \in SUBSET s : t # s => t \in Agree
        PROVE  s \in Agree
    <3>1. CASE s = {}
      BY <1>5, <1>6, <3>1
    <3>2. CASE s # {}
      <4>1. Pick(s) \in s /\ s \ {Pick(s)} \in Agree
        BY <1>0, <2>1, <3>2
      <4>2. sum[s \ {Pick(s)}] = count[s \ {Pick(s)}]
        BY <4>1
      <4>3. sum[s] = tasks[Pick(s)].units + sum[s \ {Pick(s)}]
        BY <1>6, <3>2
      <4>4. count[s] = tasks[Pick(s)].units + count[s \ {Pick(s)}]
        <5>. HIDE DEF count
        <5>. QED BY <1>5, <3>2
      <4>. QED BY <4>2, <4>3, <4>4
    <3>. QED BY <3>1, <3>2
  <2>. HIDE DEF Agree
  <2>2. Agree \in SUBSET (SUBSET S)
    BY DEF Agree
  <2>. QED BY <2>1, <2>2, SubsetInduct
<1>8. IsFiniteSet(Trays(tasks, S)) /\ sum[S] = count[S]
  <2>1. S \in Finite /\ S \in Agree
    BY <1>4, <1>7
  <2>. QED BY <2>1
<1>. QED BY <1>1, <1>8

(* Fewer tasks of the same sizes take up no more.                          *)
LEMMA FewerUnits ==
  ASSUME NEW few, NEW A, NEW many, NEW B, IsFiniteSet(B), A \subseteq B,
         \A t \in B : many[t].units \in Nat,
         \A t \in A : few[t].units = many[t].units
  PROVE  UnitsOf(few, A) \in Nat /\ UnitsOf(many, B) \in Nat /\ UnitsOf(few, A) <= UnitsOf(many, B)
<1>1. IsFiniteSet(A)
  BY FS_Subset
<1>2. Trays(few, A) \subseteq Trays(many, B)
  BY DEF Trays
<1>3. /\ UnitsOf(few, A) = Cardinality(Trays(few, A))
      /\ IsFiniteSet(Trays(few, A))
      /\ UnitsOf(many, B) = Cardinality(Trays(many, B))
      /\ IsFiniteSet(Trays(many, B))
  BY <1>1, UnitsAreTrays
<1>. QED BY <1>2, <1>3, FS_Subset, FS_CardinalityType

(* The first slot is the first instant of the grid that is not before the  *)
(* opening nor before the minimum lead time.                               *)
LEMMA FirstOfGrid ==
  ASSUME NEW t0 \in Nat, NEW t \in Int
  PROVE  LET step  == Day.slot * MINUTE
             first == FirstSlot(Day, t0)
         IN  /\ step \in Nat \ {0} /\ first \in Int /\ Day.minLead * MINUTE \in Nat
             /\ t >= first /\ (t - first) % step = 0
                <=> /\ \E n \in Nat : t = Day.opens + n * step
                    /\ t >= t0 + Day.minLead * MINUTE
<1>. DEFINE step     == Day.slot * MINUTE
            first    == FirstSlot(Day, t0)
            lead     == t0 + Day.minLead * MINUTE
            earliest == Max({Day.opens, CeilToMinute(lead)})
            q        == (earliest - Day.opens) \div step
            offset   == (earliest - Day.opens) % step
            p        == IF offset = 0 THEN q ELSE q + 1
<1>1. /\ Day.opens \in Int /\ Day.slot \in Nat \ {0} /\ Day.minLead \in Nat
      /\ MINUTE \in Nat \ {0} /\ Day.opens % MINUTE = 0
  BY DayAssumption, MinuteAssumption
<1>2. step \in Nat \ {0} /\ Day.minLead * MINUTE \in Nat /\ lead \in Int
  <2>1. \A a, m \in Nat : a * m \in Nat /\ (a > 0 /\ m > 0 => a * m > 0)
    OBVIOUS
  <2>. QED BY <1>1, <2>1
<1>3. /\ earliest \in Int /\ Day.opens <= earliest /\ CeilToMinute(lead) <= earliest
      /\ earliest \in {Day.opens, CeilToMinute(lead)}
  <2>. HIDE DEF lead
  <2>1. CeilToMinute(lead) \in Int
    BY <1>2, RoundUp
  <2>. DEFINE S == {Day.opens, CeilToMinute(lead)}
              b == IF Day.opens > CeilToMinute(lead) THEN Day.opens ELSE CeilToMinute(lead)
  <2>2. S \in SUBSET Int /\ S # {} /\ b \in Int /\ \A x \in S : x <= b
    BY <1>1, <2>1
  <2>3. Max(S) \in S /\ \A x \in S : Max(S) >= x
    <3>. HIDE DEF S, b
    <3>. QED BY <2>2, MaxExists
  <2>. QED BY <2>1, <2>3, <1>1
<1>4. first = IF offset = 0 THEN earliest ELSE earliest + (step - offset)
  BY DEF FirstSlot
<1>5. lead <= CeilToMinute(lead) /\ CeilToMinute(lead) \in Int
  BY <1>2, RoundUp
<1>. HIDE DEF step, first, lead, earliest
<1>6. /\ q \in Int /\ offset \in 0 .. step - 1 /\ earliest - Day.opens = q * step + offset
      /\ q * step \in Int /\ q * step = step * q
  <2>. DEFINE d == earliest - Day.opens
  <2>1. d \in Int /\ d >= 0
    BY <1>1, <1>3
  <2>. HIDE DEF d
  <2>2. d \div step \in Int /\ d % step \in 0 .. step - 1 /\ d = step * (d \div step) + (d % step)
    BY <2>1, <1>2
  <2>3. step * (d \div step) = (d \div step) * step /\ (d \div step) * step \in Int
    BY <2>2, <1>2
  <2>. QED BY <2>2, <2>3 DEF d
<1>. HIDE DEF q, offset
<1>7. /\ p \in Int /\ p * step \in Int /\ first = Day.opens + p * step
      /\ first >= earliest /\ first - step < earliest
  <2>1. (q + 1) * step = q * step + 1 * step /\ 1 * step = step
    BY <1>2, <1>6, Multiples
  <2>. DEFINE m == q * step
              r == p * step
  <2>2. /\ p \in Int /\ r = IF offset = 0 THEN m ELSE m + step
        /\ m \in Int /\ earliest - Day.opens = m + offset
    BY <2>1, <1>6
  <2>3. /\ offset \in Int /\ 0 <= offset /\ offset < step
        /\ step \in Int /\ earliest \in Int /\ Day.opens \in Int
    BY <1>1, <1>2, <1>3, <1>6
  <2>4. /\ r \in Int /\ first = Day.opens + r
        /\ first >= earliest /\ first - step < earliest
    <3>. HIDE DEF p, m, r
    <3>1. CASE offset = 0
      BY <2>2, <2>3, <3>1, <1>4
    <3>2. CASE offset # 0
      BY <2>2, <2>3, <3>2, <1>4
    <3>. QED BY <3>1, <3>2
  <2>. QED BY <2>2, <2>4
<1>. HIDE DEF p
<1>8. p >= 0
  <2>1. p * step >= 0 * step /\ 0 * step = 0
    BY <1>1, <1>2, <1>3, <1>7
  <2>2. ~(p < 0)
    BY <2>1, <1>2, <1>7, Multiples
  <2>. QED BY <2>2, <1>7
<1>9. ASSUME t >= first, (t - first) % step = 0
      PROVE  (\E n \in Nat : t = Day.opens + n * step) /\ t >= lead
  <2>0. t - first \in Int
    BY <1>1, <1>7
  <2>1. PICK k \in Int : t - first = k * step
    BY <2>0, <1>2, <1>9, Multiples
  <2>2. k * step >= 0 * step /\ 0 * step = 0 /\ k * step \in Int
    BY <2>1, <1>2, <1>7, <1>9
  <2>3. k >= 0
    <3>1. ~(k < 0)
      BY <2>2, <1>2, Multiples
    <3>. QED BY <3>1
  <2>4. (p + k) * step = p * step + k * step /\ p + k \in Nat
    BY <2>3, <1>2, <1>7, <1>8, Multiples
  <2>5. t = Day.opens + (p + k) * step
    BY <2>1, <2>2, <2>4, <1>1, <1>7
  <2>6. t >= lead
    BY <1>2, <1>3, <1>5, <1>7, <1>9
  <2>. QED BY <2>4, <2>5, <2>6
<1>10. ASSUME NEW n \in Nat, t = Day.opens + n * step, t >= lead
       PROVE  t >= first /\ (t - first) % step = 0
  <2>0. n * step \in Int /\ (n - p) * step = n * step - p * step /\ n \in Int /\ n - p \in Int
    BY <1>2, <1>7, Multiples
  <2>1. t >= earliest
    <3>1. PICK k \in Int : Day.opens = k * MINUTE
      BY <1>1, Multiples
    <3>2. n * step = (n * Day.slot) * MINUTE /\ n * Day.slot \in Int
      BY <1>1 DEF step
    <3>a. (k + n * Day.slot) * MINUTE = k * MINUTE + (n * Day.slot) * MINUTE
      BY <3>2, <1>1, Multiples
    <3>3. t = (k + n * Day.slot) * MINUTE /\ k + n * Day.slot \in Int
      BY <3>1, <3>2, <3>a, <1>10
    <3>4. CeilToMinute(lead) <= t
      BY <3>3, <1>2, <1>10, RoundUp
    <3>5. n * step >= 0
      <4>1. \A a, m \in Nat : a * m >= 0
        OBVIOUS
      <4>. QED BY <4>1, <1>2
    <3>6. Day.opens <= t
      BY <2>0, <3>5, <1>1, <1>10
    <3>. QED BY <3>4, <3>6, <1>3
  <2>2. first - step = Day.opens + (p - 1) * step /\ p - 1 \in Int /\ (p - 1) * step \in Int
    <3>1. (p - 1) * step = p * step - 1 * step /\ 1 * step = step
      BY <1>2, <1>7, Multiples
    <3>. QED BY <3>1, <1>1, <1>2, <1>7
  <2>3. (p - 1) * step < n * step
    BY <2>0, <2>1, <2>2, <1>1, <1>2, <1>3, <1>7, <1>10
  <2>4. p - 1 < n
    BY <2>0, <2>2, <2>3, <1>2, Multiples
  <2>5. ~(n < p)
    BY <2>4, <2>0, <1>7
  <2>6. ~(n * step < p * step)
    BY <2>5, <2>0, <1>2, <1>7, Multiples
  <2>7. t - first = (n - p) * step /\ t >= first
    BY <2>0, <2>6, <1>1, <1>7, <1>10
  <2>8. t - first \in Int
    BY <2>7, <2>0, <1>1, <1>7, <1>10
  <2>. QED BY <2>0, <2>7, <2>8, <1>2, Multiples
<1>11. t >= first /\ (t - first) % step = 0
         <=> (\E n \in Nat : t = Day.opens + n * step) /\ t >= lead
  BY <1>9, <1>10
<1>. QED BY <1>1, <1>2, <1>7, <1>11 DEF step, first, lead

(* The slots listed are those of the grid that leave the lead time.        *)
LEMMA GridIsComplete ==
  ASSUME now \in Nat
  PROVE  SlotsComplete
<1>. DEFINE step == Day.slot * MINUTE
            lead == now + Day.minLead * MINUTE
<1>1. Day.opens \in Int /\ Day.closes \in Int
  BY DayAssumption
<1>2. /\ step \in Nat \ {0} /\ FirstSlot(Day, now) \in Int /\ lead \in Int
      /\ \A t \in Int : t >= FirstSlot(Day, now) /\ (t - FirstSlot(Day, now)) % step = 0
           <=> (\E n \in Nat : t = Day.opens + n * step) /\ t >= lead
  BY FirstOfGrid
<1>. HIDE DEF step, lead
<1>3. ASSUME NEW n \in Nat, NEW t \in Int, t = Day.opens + n * step, t <= Day.closes
      PROVE  t \in Day.opens .. Day.closes /\ n \in 0 .. (Day.closes - Day.opens)
  <2>1. \A a, m \in Nat : m > 0 => a * m \in Nat /\ a * m >= a
    OBVIOUS
  <2>2. n * step \in Nat /\ n * step >= n
    BY <2>1, <1>2
  <2>. QED BY <2>2, <1>1, <1>3
<1>4. \A t \in Int :
        t \in ComputePickupSlots(Day, now) <=>
          /\ t \in Day.opens .. Day.closes
          /\ \E n \in 0 .. (Day.closes - Day.opens) : t = Day.opens + n * step
          /\ t >= lead
  <2>. TAKE t \in Int
  <2>1. t \in ComputePickupSlots(Day, now) <=>
          t >= FirstSlot(Day, now) /\ t <= Day.closes /\ (t - FirstSlot(Day, now)) % step = 0
    BY <1>1, <1>2 DEF ComputePickupSlots, step
  <2>2. ASSUME t \in ComputePickupSlots(Day, now)
        PROVE  /\ t \in Day.opens .. Day.closes
               /\ \E n \in 0 .. (Day.closes - Day.opens) : t = Day.opens + n * step
               /\ t >= lead
    <3>1. PICK n \in Nat : t = Day.opens + n * step
      BY <2>1, <2>2, <1>2
    <3>. QED BY <2>1, <2>2, <3>1, <1>2, <1>3
  <2>3. ASSUME t \in Day.opens .. Day.closes, t >= lead,
               NEW n \in 0 .. (Day.closes - Day.opens), t = Day.opens + n * step
        PROVE  t \in ComputePickupSlots(Day, now)
    <3>1. n \in Nat /\ t <= Day.closes
      BY <2>3, <1>1
    <3>. QED BY <2>1, <2>3, <3>1, <1>2
  <2>. QED BY <2>2, <2>3
<1>5. \A t : t \in ComputePickupSlots(Day, now) => t \in Int
  BY <1>1, <1>2 DEF ComputePickupSlots
<1>6. \A n \in Int : n * Day.slot * MINUTE = n * step
  BY DayAssumption, MinuteAssumption DEF step
<1>7. \A n \in 0 .. (Day.closes - Day.opens) : n * Day.slot * MINUTE = n * step
  BY <1>1, <1>6
<1>. QED BY <1>1, <1>4, <1>5, <1>7 DEF SlotsComplete, lead


(* There are finitely many tasks.                                          *)
LEMMA TasksFinite == IsFiniteSet(TaskId)
<1>1. TaskId \in SUBSET (Orders \X DOMAIN Menu)
  BY CartAssumption DEF TaskId
<1>2. IsFiniteSet(Orders \X DOMAIN Menu)
  BY BranchAssumption, FS_Product
<1>. QED BY <1>1, <1>2, FS_Subset

(* The tasks that run at the first instant of a window are counted in it.  *)
LEMMA RunningIsCounted ==
  ASSUME NEW few, NEW many, NEW rule, NEW from \in Int, NEW to \in Int, from < to,
         IsFiniteSet(DOMAIN many), \A id \in DOMAIN many : many[id] \in TaskRow,
         \A id \in DOMAIN few : few[id].start <= from /\ from < few[id].ready =>
           id \in DOMAIN many /\ many[id] = few[id]
  PROVE  /\ Running(few, rule, from) \in Nat
         /\ LoadInWindow(many, rule, from, to) \in Nat
         /\ Running(few, rule, from) <= LoadInWindow(many, rule, from, to)
<1>. DEFINE A == {id \in DOMAIN few : /\ Concerns(rule, few[id])
                                      /\ few[id].start <= from
                                      /\ from < few[id].ready}
            B == {t \in DOMAIN many : /\ Concerns(rule, many[t])
                                      /\ Overlaps(many[t].start, many[t].ready, from, to)}
<1>1. Running(few, rule, from) = UnitsOf(few, A) /\ LoadInWindow(many, rule, from, to) = UnitsOf(many, B)
  BY DEF Running, LoadInWindow, UnitsOf
<1>2. IsFiniteSet(B)
  BY FS_Subset, B \in SUBSET DOMAIN many
<1>3. \A t \in B : many[t].units \in Nat
  BY DEF TaskRow
<1>4. ASSUME NEW t \in A
      PROVE  t \in B /\ few[t].units = many[t].units
  <2>1. t \in DOMAIN many /\ many[t] = few[t]
    OBVIOUS
  <2>2. many[t].start \in Int /\ many[t].ready \in Int
    BY <2>1 DEF TaskRow
  <2>3. Overlaps(many[t].start, many[t].ready, from, to)
    BY <2>1, <2>2 DEF Overlaps
  <2>. QED BY <2>1, <2>3
<1>. HIDE DEF A, B
<1>5. A \subseteq B /\ \A t \in A : few[t].units = many[t].units
  BY <1>4
<1>. QED BY <1>1, <1>2, <1>3, <1>5, FewerUnits

(* A slot found feasible has room for the cart.                            *)
LEMMA SlotHasRoom ==
  ASSUME TypeOK, \A rule \in Rules : rule.window > 0
  PROVE  OfferedSlotHasRoom
<1>. SUFFICES ASSUME NEW s \in Offered,
                     NEW rule \in Rules,
                     NEW i \in DOMAIN BuildProductionPlan(QuotedItems, s, now),
                     Concerns(rule, BuildProductionPlan(QuotedItems, s, now)[i]),
                     BuildProductionPlan(QuotedItems, s, now)[i].start >= Day.opens
              PROVE  LET plan == BuildProductionPlan(QuotedItems, s, now)
                         from == plan[i].start
                     IN  Running([id \in Unfinished |-> Row(id)], rule, from)
                           + Running(plan, rule, from) <= rule.max
  BY DEF OfferedSlotHasRoom, RoomFor
<1>. DEFINE plan == BuildProductionPlan(QuotedItems, s, now)
            rows == [id \in Unfinished |-> Row(id)]
            from == plan[i].start
            to   == from + rule.window * MINUTE
<1>1. /\ now \in Nat /\ Day.opens \in Int /\ Day.closes \in Int
      /\ rule.window \in Nat \ {0} /\ rule.max \in Int
  BY DayAssumption, RuleAssumption DEF TypeOK
<1>2. \A j \in DOMAIN QuotedItems : QuotedItems[j] \in Item
  BY QuoteAssumption, MenuAssumption DEF QuotedItems
<1>3. s \in Int /\ now <= s /\ s <= Day.closes
  <2>1. s \in Int /\ s >= FirstSlot(Day, now) /\ s <= Day.closes
        /\ (s - FirstSlot(Day, now)) % (Day.slot * MINUTE) = 0
    <3>1. FirstSlot(Day, now) \in Int
      BY <1>1, FirstOfGrid, 0 \in Int
    <3>. QED BY <3>1, <1>1 DEF Offered, ComputePickupSlots
  <2>2. s >= now + Day.minLead * MINUTE /\ Day.minLead * MINUTE \in Nat
    BY <2>1, <1>1, FirstOfGrid
  <2>. QED BY <2>1, <2>2, <1>1
<1>4. plan \in [ToProduce(QuotedItems) -> TaskRow] /\ DOMAIN plan = ToProduce(QuotedItems)
  BY <1>1, <1>2, <1>3, PlanType
<1>5. from \in Int /\ from <= s
  <2>1. from = PlannedStart(QuotedItems[i], s, now) /\ QuotedItems[i] \in Item
    BY <1>2 DEF BuildProductionPlan, ToProduce
  <2>2. Needs(QuotedItems[i]) \in Nat
    BY <2>1, NeedsBounded
  <2>. HIDE DEF from
  <2>. QED BY <2>1, <2>2, <1>1, <1>3 DEF PlannedStart, Late
<1>6. to \in Int /\ from < to
  <2>1. \A a, m \in Nat : a > 0 /\ m > 0 => a * m \in Nat /\ a * m > 0
    OBVIOUS
  <2>2. rule.window * MINUTE \in Nat /\ rule.window * MINUTE > 0
    BY <2>1, <1>1, MinuteAssumption
  <2>. HIDE DEF from
  <2>. QED BY <2>2, <1>5
<1>7. LoadInWindow(QuoteLoad, rule, from, to) + LoadInWindow(plan, rule, from, to) <= rule.max
  BY DEF Offered, IsSlotFeasible
<1>8. \A id \in Unfinished : Row(id) \in TaskRow /\ rows[id] = Row(id)
  BY PlannedRow DEF Unfinished
<1>9. /\ Running(rows, rule, from) \in Nat /\ LoadInWindow(QuoteLoad, rule, from, to) \in Nat
      /\ Running(rows, rule, from) <= LoadInWindow(QuoteLoad, rule, from, to)
  <2>1. /\ DOMAIN QuoteLoad =
             {t \in Unfinished : Row(t).ready >= Day.opens /\ Row(t).start <= Day.closes}
        /\ \A id \in DOMAIN QuoteLoad : QuoteLoad[id] = Row(id) /\ Row(id) \in TaskRow
    BY <1>8 DEF QuoteLoad
  <2>2. IsFiniteSet(DOMAIN QuoteLoad)
    <3>1. DOMAIN QuoteLoad \in SUBSET TaskId
      BY <2>1 DEF Unfinished, Planned
    <3>. QED BY <3>1, TasksFinite, FS_Subset
  <2>3. ASSUME NEW id \in DOMAIN rows, rows[id].start <= from, from < rows[id].ready
        PROVE  id \in DOMAIN QuoteLoad /\ QuoteLoad[id] = rows[id]
    <3>1. id \in Unfinished /\ rows[id] = Row(id) /\ Row(id).start \in Int /\ Row(id).ready \in Int
      BY <1>8 DEF TaskRow
    <3>2. Row(id).start <= Day.closes /\ Row(id).ready >= Day.opens
      <4>1. from >= Day.opens
        OBVIOUS
      <4>. HIDE DEF from
      <4>. QED BY <3>1, <4>1, <2>3, <1>1, <1>3, <1>5
    <3>. QED BY <3>1, <3>2, <2>1
  <2>. HIDE DEF from, to, rows
  <2>. QED BY <2>1, <2>2, <2>3, <1>5, <1>6, RunningIsCounted
<1>10. /\ Running(plan, rule, from) \in Nat /\ LoadInWindow(plan, rule, from, to) \in Nat
       /\ Running(plan, rule, from) <= LoadInWindow(plan, rule, from, to)
  <2>1. IsFiniteSet(DOMAIN plan)
    <3>1. DOMAIN plan \in SUBSET DOMAIN Menu
      BY <1>4, QuoteAssumption DEF ToProduce, QuotedItems
    <3>. QED BY <3>1, BranchAssumption, FS_Subset
  <2>2. \A id \in DOMAIN plan : plan[id] \in TaskRow
    BY <1>4
  <2>. HIDE DEF from, to, plan
  <2>. QED BY <2>1, <2>2, <1>5, <1>6, RunningIsCounted
<1>. HIDE DEF from, to, rows, plan
<1>11. Running(rows, rule, from) + Running(plan, rule, from) <= rule.max
  BY <1>1, <1>7, <1>9, <1>10
<1>. QED BY <1>11 DEF rows, plan, from

(***************************************************************************)
(* The pickup slots of a day are those of the grid, none missing and none  *)
(* too many, and an offered slot is not sold beyond the capacity of a      *)
(* station: in every state, for every day, menu, load and set of rules     *)
(* whose windows are not empty (a rule with an empty window counts no task *)
(* that starts with it, and none is written by the code).                  *)
(***************************************************************************)
THEOREM SlotsHold ==
  ASSUME \A rule \in Rules : rule.window > 0
  PROVE  Spec => []SlotsAreRight
<1>1. TypeOK => SlotsAreRight
  BY GridIsComplete, SlotHasRoom DEF SlotsAreRight, TypeOK
<1>. QED BY <1>1, TypeCorrect, PTL

=============================================================================
