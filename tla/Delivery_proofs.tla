---------------------------- MODULE Delivery_proofs ----------------------------
(***************************************************************************)
(* Proofs about Delivery for every bound on reloads, boards, changes and   *)
(* faults.                                                                 *)
(*                                                                         *)
(* The argument.  NothingOverlooked is inductive once the requests under   *)
(* way are counted in natural numbers: every step that uses up what is on  *)
(* the way either replaces it (an event by a reload, the timer by a board, *)
(* a request by an answer that is up to date) or leaves a gap.  What is    *)
(* left is the table: EventsCoverChanges, for every screen and change.     *)
(* For the mirror, whatever can reach the screen is a view the order has   *)
(* had (CargoIsPast), and it can reach only a screen that has started      *)
(* (StartedFirst).                                                         *)
(***************************************************************************)
EXTENDS Delivery, TLAPS

Flight == [Cargo -> Nat]

Hows == {c.how : c \in Changes} \cup {None}

TypedPress == press \in [phase : {"idle", "sent", "back"}, how : Hows, answer : Statuses]

Typed ==
  /\ role \in Roles /\ truth \in Statuses /\ link \in {"up", "down"}
  /\ reads \in Flight /\ boards \in Flight
  /\ TypedPress

CargoIsPast ==
  /\ View(truth) \in past
  /\ \A v \in Views : reads[v] > 0 \/ boards[v] > 0 => v \in past
  /\ press.answer # None => View(press.answer) \in past

StartedFirst ==
  profile # "loaded" => /\ shown = Nothing /\ press = Idle
                        /\ \A c \in Cargo : reads[c] = 0

IInv == Typed /\ NothingOverlooked /\ CargoIsPast /\ StartedFirst

-----------------------------------------------------------------------------
(* What a screen shows of a status is one of the views.                    *)
LEMMA ViewType ==
  ASSUME role \in Roles, NEW s
  PROVE  View(s) \in Views
<1>1. OnScreen[role] \subseteq OrderStatus
  BY DEF Roles, OnScreen, DispatchBoard, TaskBoard, AwaitingCash, OrdersTable, Preparing,
         OrderStatus
<1>. QED
  BY <1>1 DEF View, Views

(* "asked" is no view, and no status is the blank screen.                  *)
LEMMA Words == "asked" \notin Views /\ Nothing \notin OrderStatus /\ Views \subseteq Cargo
               /\ "asked" \in Cargo
  BY DEF Views, Nothing, OrderStatus, Cargo

(* A change leads to a status of the order.                                *)
LEMMA ChangeLeadsToStatus == \A c \in Changes : c.to \in OrderStatus
  BY DEF Changes, Change, OrderStatus

(***************************************************************************)
(* The table that makes the events sufficient: a change that shows on a    *)
(* screen publishes an event that the screen hears, or that arms the       *)
(* display's timer.  The forced dispatch is the exception: it finishes     *)
(* tasks without a task event.                                             *)
(***************************************************************************)
LEMMA EventsCoverChanges ==
  ASSUME NEW c \in Changes, NEW s \in c.from, View(c.to) # View(s),
         role \in Roles \ {"HEADQUARTERS"},
         ~(c.how = "force" /\ role \in {"STATION", "KITCHEN"})
  PROVE  \E type \in c.says : Concerns(type)
<1>. USE DEF Changes, Change
<1>1. CASE role = "DISPLAY"
  <2>1. "ORDER_STATUS_CHANGED" \in c.says \/ c.how = "create"
    OBVIOUS
  <2>2. c.how # "create"
    BY <1>1 DEF View, OnScreen, DispatchBoard, Preparing, None, Nothing
  <2>. QED
    BY <1>1, <2>1, <2>2 DEF Concerns, DISPLAY_RELEVANT
<1>2. CASE role \in {"STATION", "KITCHEN"}
  <2>1. \E type \in c.says : type \in TaskEvents
    BY <1>2 DEF View, OnScreen, TaskBoard, TaskEvents, None, Nothing
  <2>2. \A type \in TaskEvents : Reaches(type)
    BY <1>2 DEF Reaches, Rooms, RoomsOf, TaskEvents, ListensFor, BoardEvents
  <2>. QED
    BY <2>1, <2>2 DEF Concerns
<1>3. CASE role = "DISPATCHER"
  <2>1. c.how # "create"
    BY <1>3 DEF View, OnScreen, DispatchBoard, Preparing, None, Nothing
  <2>2. "ORDER_STATUS_CHANGED" \in c.says
    BY <2>1
  <2>3. Reaches("ORDER_STATUS_CHANGED")
    BY <1>3 DEF Reaches, Rooms, RoomsOf, TaskEvents, ListensFor
  <2>. QED
    BY <2>2, <2>3 DEF Concerns
<1>4. CASE role \in {"POS", "ADMIN"}
  <2>1. "ORDER_STATUS_CHANGED" \in c.says \/ "ORDER_CREATED" \in c.says
    OBVIOUS
  <2>2. Reaches("ORDER_STATUS_CHANGED") /\ Reaches("ORDER_CREATED")
    BY <1>4 DEF Reaches, Rooms, RoomsOf, TaskEvents, ListensFor
  <2>. QED
    BY <2>1, <2>2 DEF Concerns
<1>. QED
  BY <1>1, <1>2, <1>3, <1>4 DEF Roles

-----------------------------------------------------------------------------
(* Requests under way are counted: what sending, ending and loading do.    *)
LEMMA SendEffect ==
  ASSUME NEW f \in Flight
  PROVE  /\ Send(f) \in Flight
         /\ Send(f)["asked"] > 0
         /\ \A v \in Views : Send(f)[v] = f[v]
  BY Words DEF Send, Flight

(* A message that arrives is one less of its kind under way, nothing else. *)
LEMMA DropEffect ==
  ASSUME NEW f \in Flight, NEW c \in Cargo, f[c] > 0
  PROVE  /\ Drop(f, c) \in Flight
         /\ \A d \in Cargo \ {c} : Drop(f, c)[d] = f[d]
         /\ Drop(f, c)[c] = f[c] - 1
  BY DEF Drop, Flight

(* The server answers a read with the truth; other answers stay under way. *)
LEMMA LoadEffect ==
  ASSUME NEW f \in Flight, f["asked"] > 0, role \in Roles
  PROVE  /\ Load(f) \in Flight
         /\ \A v \in Views \ {View(truth)} : Load(f)[v] = f[v]
<1>1. View(truth) \in Views
  BY ViewType
<1>. QED
  BY <1>1, Words DEF Load, Flight

(***************************************************************************)
(* A committed change, whoever asked for it.                               *)
(***************************************************************************)
Committed == \E how : Commit(how)

(* A committed change of the order: what was true becomes past.            *)
LEMMA CommittedKeeps ==
  ASSUME IInv, Committed,
         UNCHANGED <<role, link, timer, boards, reads, profile, latest>>, TypedPress'
  PROVE  /\ Typed' /\ NothingOverlooked'
         /\ View(truth)' \in past' /\ past \subseteq past'
         /\ \A s : View(s)' = View(s)
<1>. USE DEF IInv, Typed
<1>1. PICK c \in Changes :
        /\ truth \in c.from /\ truth' = c.to
        /\ outbox' = outbox \cup {<<commits', type>> : type \in {t \in c.says : Concerns(t)}}
        /\ past' = past \cup {View(c.to)}
        /\ gap' = (gap \/ (c.how = "force" /\ role \in {"STATION", "KITCHEN"}))
  BY DEF Committed, Commit
<1>2. Typed'
  BY <1>1, ChangeLeadsToStatus DEF Statuses
<1>3. \A s : View(s)' = View(s)
  BY DEF View
<1>4. \A type : (Reaches(type)' <=> Reaches(type))
  BY DEF Reaches
<1>5. NothingOverlooked'
  <2>. SUFFICES ASSUME profile = "loaded", role # "HEADQUARTERS", ~gap',
                       latest # View(c.to)
       PROVE  OnTheWay'
    BY <1>1, <1>3 DEF NothingOverlooked, View
  <2>1. ~gap /\ ~(c.how = "force" /\ role \in {"STATION", "KITCHEN"})
    BY <1>1
  <2>2. CASE OnTheWay
    BY <1>1, <1>4, <2>2 DEF OnTheWay
  <2>3. CASE latest = View(truth)
    <3>1. PICK type \in c.says : Concerns(type)
      BY <1>1, <2>1, <2>3, EventsCoverChanges
    <3>2. <<commits', type>> \in outbox'
      BY <1>1, <3>1
    <3>3. <<commits', type>>[2] = type
      OBVIOUS
    <3>. QED
      BY <1>4, <3>1, <3>2, <3>3 DEF Concerns, OnTheWay
  <2>. QED
    BY <2>1, <2>2, <2>3 DEF NothingOverlooked
<1>6. View(truth)' \in past' /\ past \subseteq past'
  BY <1>1, <1>3 DEF View
<1>. QED
  BY <1>2, <1>3, <1>5, <1>6

-----------------------------------------------------------------------------
(* Views and hearing depend only on the kind of screen.                    *)
LEMMA SameViews ==
  ASSUME UNCHANGED role
  PROVE  /\ \A s : View(s)' = View(s)
         /\ \A type : Reaches(type)' <=> Reaches(type)
  BY DEF View, Reaches

(* Nothing is overlooked by a step that keeps the order and what was read, *)
(* as long as what was on the way is replaced or its loss leaves a gap.    *)
LEMMA StillOnTheWay ==
  ASSUME NothingOverlooked, UNCHANGED <<role, truth, latest, profile>>, gap => gap',
         OnTheWay => OnTheWay' \/ gap'
  PROVE  NothingOverlooked'
  BY SameViews DEF NothingOverlooked

(* Steps that touch neither what is under way nor what is shown.           *)
LEMMA QuietStep ==
  ASSUME IInv,
         UNCHANGED <<role, truth, past, outbox, timer, boards, profile, reads, shown, latest, gap>>,
         link' \in {"up", "down"}, TypedPress',
         \/ press' = press
         \/ /\ profile = "loaded"
            /\ press'.answer = None \/ press'.answer = press.answer
  PROVE  IInv'
<1>. USE DEF IInv
<1>1. Typed'
  BY DEF Typed, TypedPress
<1>2. OnTheWay => OnTheWay'
  BY SameViews DEF OnTheWay
<1>3. NothingOverlooked'
  BY <1>2, StillOnTheWay
<1>4. CargoIsPast'
  <2>1. View(truth)' \in past'
    BY SameViews DEF CargoIsPast
  <2>2. \A v \in Views : reads'[v] > 0 \/ boards'[v] > 0 => v \in past'
    BY DEF CargoIsPast
  <2>3. press'.answer # None => View(press'.answer) \in past'
    BY DEF CargoIsPast
  <2>4. View(press.answer)' = View(press'.answer)
    BY DEF View
  <2>. QED
    BY <2>1, <2>2, <2>3, <2>4 DEF CargoIsPast
<1>5. StartedFirst'
  BY DEF StartedFirst
<1>. QED
  BY <1>1, <1>3, <1>4, <1>5

(***************************************************************************)
(* Steps that change what is under way or shown, but neither the order,    *)
(* nor its history, nor the screen's own request.                          *)
(***************************************************************************)
LEMMA CargoStep ==
  ASSUME IInv, UNCHANGED <<role, truth, past, press>>, Typed',
         NothingOverlooked',
         \A v \in Views : reads'[v] > 0 => v \in past,
         \A v \in Views : boards'[v] > 0 => v \in past,
         profile' # "loaded" => /\ profile # "loaded" /\ shown' = shown
                                /\ \A c \in Cargo : reads'[c] = reads[c]
  PROVE  IInv'
<1>. USE DEF IInv
<1>1. View(truth)' = View(truth) /\ View(press.answer)' = View(press.answer)
  BY DEF View
<1>2. CargoIsPast'
  BY <1>1 DEF CargoIsPast
<1>3. StartedFirst'
  BY DEF StartedFirst
<1>. QED
  BY <1>2, <1>3

(* The gateway hands an event to the sockets that are connected.           *)
LEMMA RouteKeeps ==
  ASSUME IInv, NEW e \in outbox, Route(e)
  PROVE  IInv'
<1>. USE DEF IInv, Route
<1>1. reads' = reads \/ (reads' = Send(reads) /\ profile = "loaded")
  OBVIOUS
<1>2. Typed' /\ \A v \in Views : reads'[v] = reads[v]
  BY <1>1, SendEffect DEF Typed, TypedPress
<1>3. NothingOverlooked'
  <2>. SUFFICES ASSUME OnTheWay, ~gap', profile = "loaded" PROVE OnTheWay'
    BY StillOnTheWay, SameViews DEF NothingOverlooked
  <2>1. reads'["asked"] > 0 \/ reads' = reads
    BY <1>1, SendEffect DEF Typed, TypedPress
  <2>2. CASE reads["asked"] > 0 \/ (boards["asked"] > 0 /\ role = "DISPLAY")
    BY <2>1, <2>2 DEF OnTheWay
  <2>3. ASSUME NEW d \in outbox, d # e,
               Reaches(d[2]) \/ (role = "DISPLAY" /\ d[2] \in DISPLAY_RELEVANT)
        PROVE  OnTheWay'
    <3>1. d \in outbox'
      BY <2>3
    <3>. QED
      BY <2>3, <3>1, SameViews DEF OnTheWay
  <2>4. CASE Reaches(e[2])
    <3>1. link = "up"
      BY <2>4 DEF Typed, TypedPress
    <3>2. reads' = Send(reads)
      BY <2>4, <3>1
    <3>. QED
      BY <3>2, SendEffect DEF Typed, TypedPress, OnTheWay
  <2>5. CASE role = "DISPLAY" /\ (timer = "armed" \/ e[2] \in DISPLAY_RELEVANT)
    <3>1. timer' = "armed"
      BY <2>5 DEF ScheduleDisplayRefresh
    <3>. QED
      BY <2>5, <3>1 DEF OnTheWay
  <2>6. ASSUME NEW d \in outbox, Reaches(d[2]) \/ (role = "DISPLAY" /\ d[2] \in DISPLAY_RELEVANT)
        PROVE  OnTheWay'
    <3>1. CASE d = e
      BY <2>4, <2>5, <2>6, <3>1
    <3>2. CASE d # e
      BY <2>3, <2>6, <3>2
    <3>. QED
      BY <3>1, <3>2
  <2>7. \/ reads["asked"] > 0 
        \/ boards["asked"] > 0 /\ role = "DISPLAY"
        \/ role = "DISPLAY" /\ timer = "armed"
        \/ \E d \in outbox : Reaches(d[2]) \/ (role = "DISPLAY" /\ d[2] \in DISPLAY_RELEVANT)
    BY DEF OnTheWay
  <2>. QED
    BY <2>2, <2>5, <2>6, <2>7
<1>. QED
  BY <1>2, <1>3, CargoStep DEF CargoIsPast

(* The process dies between commit and publication; events are gone.       *)
LEMMA LoseEventsKeeps ==
  ASSUME IInv, LoseEvents
  PROVE  IInv'
<1>. USE DEF IInv, LoseEvents, display, client
<1>1. Typed' /\ NothingOverlooked'
  BY DEF Typed, TypedPress, NothingOverlooked
<1>. QED
  BY <1>1, CargoStep DEF CargoIsPast

(* The timer of the display board fires and asks for the board.            *)
LEMMA FireKeeps ==
  ASSUME IInv, Fire
  PROVE  IInv'
<1>. USE DEF IInv, Fire, server, client
<1>1. boards["asked"] \in Nat /\ boards' = Send(boards)
  BY Words DEF Typed, TypedPress, Flight
<1>2. Typed' /\ (\A v \in Views : boards'[v] = boards[v]) /\ boards'["asked"] > 0
  BY <1>1, SendEffect DEF Typed, TypedPress
<1>3. NothingOverlooked'
  <2>1. OnTheWay => OnTheWay'
    BY <1>2, SameViews DEF OnTheWay
  <2>. QED
    BY <2>1, StillOnTheWay
<1>. QED
  BY <1>2, <1>3, CargoStep DEF CargoIsPast

(* The server answers the board and the screen that asked.                 *)
LEMMA ReadKeeps ==
  ASSUME IInv, ReadBoard \/ ReadForScreen
  PROVE  IInv'
<1>. USE DEF IInv, ReadBoard, ReadForScreen, server, client, display
<1>1. /\ UNCHANGED <<role, truth, past, press, profile, shown>> /\ latest' = View(truth)
      /\ \/ boards["asked"] > 0 /\ boards' = Load(boards) /\ reads' = reads
         \/ reads["asked"] > 0 /\ reads' = Load(reads) /\ boards' = boards
  OBVIOUS
<1>2. Typed'
  BY <1>1, LoadEffect DEF Typed, TypedPress
<1>3. NothingOverlooked'
  BY <1>1, SameViews DEF NothingOverlooked, View
<1>4. \A v \in Views \ {View(truth)} : reads'[v] = reads[v] /\ boards'[v] = boards[v]
  BY <1>1, LoadEffect DEF Typed, TypedPress
<1>5. \A v \in Views : (reads'[v] > 0 \/ boards'[v] > 0) => v \in past
  BY <1>4 DEF CargoIsPast
<1>6. profile # "loaded" => reads' = reads
  BY <1>1, Words DEF StartedFirst
<1>. QED
  BY <1>1, <1>2, <1>3, <1>5, <1>6, CargoStep

(* An answer or a pushed board shows a view the order has had, and only on *)
(* a screen that has started.                                              *)
LEMMA ShowKeeps ==
  ASSUME IInv, NEW view \in Views, PushBoard(view) \/ Answer(view)
  PROVE  /\ IInv'
         /\ shown' # shown => profile = "loaded" /\ shown' \in past
<1>. USE DEF IInv, PushBoard, Answer, server, client, display
<1>1. /\ UNCHANGED <<role, truth, past, outbox, timer, link, press, profile, latest, gap>>
      /\ \/ boards[view] > 0 /\ boards' = Drop(boards, view) /\ reads' = reads
            /\ shown' = IF link = "up" /\ profile = "loaded" THEN view ELSE shown
         \/ reads[view] > 0 /\ reads' = Drop(reads, view) /\ boards' = boards
            /\ shown' = view
  OBVIOUS
<1>2. view \in Cargo /\ view # "asked" /\ view \in past
  BY <1>1, Words DEF CargoIsPast
<1>3. Typed' /\ reads'["asked"] = reads["asked"] /\ boards'["asked"] = boards["asked"]
  BY <1>1, <1>2, Words, DropEffect DEF Typed, TypedPress
<1>4. \A v \in Views : (reads'[v] > 0 => reads[v] > 0 \/ v = view)
                       /\ (boards'[v] > 0 => boards[v] > 0 \/ v = view)
  BY <1>1, <1>2, Words, DropEffect DEF Typed, TypedPress
<1>5. OnTheWay => OnTheWay'
  BY <1>1, <1>3, SameViews DEF OnTheWay
<1>6. NothingOverlooked'
  BY <1>1, <1>5, StillOnTheWay
<1>7. \A v \in Views : (reads'[v] > 0 \/ boards'[v] > 0) => v \in past
  BY <1>2, <1>4 DEF CargoIsPast
<1>8. profile # "loaded" => reads' = reads /\ shown' = shown
  BY <1>1, <1>2 DEF StartedFirst
<1>9. IInv'
  BY <1>1, <1>3, <1>6, <1>7, <1>8, CargoStep
<1>. QED
  BY <1>1, <1>2, <1>8, <1>9

(* Failed reloads and boards leave a gap.                                  *)
LEMMA FailKeeps ==
  ASSUME IInv, ReloadFails \/ BoardFails
  PROVE  IInv'
<1>. USE DEF IInv, ReloadFails, BoardFails, server, client, display
<1>1. /\ UNCHANGED <<role, truth, past, link, press, profile, shown, latest>> /\ gap'
      /\ \/ boards["asked"] > 0 /\ boards' = Drop(boards, "asked") /\ reads' = reads
         \/ reads["asked"] > 0 /\ reads' = Drop(reads, "asked") /\ boards' = boards
  OBVIOUS
<1>2. Typed' /\ \A v \in Views : reads'[v] = reads[v] /\ boards'[v] = boards[v]
  BY <1>1, Words, DropEffect DEF Typed, TypedPress
<1>3. NothingOverlooked'
  BY <1>1 DEF NothingOverlooked
<1>4. profile # "loaded" => reads' = reads
  BY <1>1, Words DEF StartedFirst
<1>5. \A v \in Views : (reads'[v] > 0 \/ boards'[v] > 0) => v \in past
  BY <1>2 DEF CargoIsPast
<1>. QED
  BY <1>1, <1>2, <1>3, <1>4, <1>5, CargoStep

(* A reload is asked for: by the poll, or once the profile is there.       *)
LEMMA AskKeeps ==
  ASSUME IInv, LoadProfile \/ Poll
  PROVE  IInv'
<1>. USE DEF IInv, LoadProfile, Poll, server, client, display
<1>1. UNCHANGED <<role, truth, past, outbox, timer, boards, link, press, shown, latest, gap>>
  OBVIOUS
<1>2. CASE reads' = Send(reads) /\ profile' = "loaded"
  <2>1. Typed' /\ reads'["asked"] > 0 /\ \A v \in Views : reads'[v] = reads[v]
    BY <1>1, <1>2, SendEffect DEF Typed, TypedPress
  <2>2. NothingOverlooked'
    BY <2>1 DEF NothingOverlooked, OnTheWay
  <2>. QED
    BY <1>1, <1>2, <2>1, <2>2, CargoStep DEF CargoIsPast
<1>3. CASE reads' = reads /\ profile' = "failed" /\ profile = "asked"
  <2>1. Typed' /\ NothingOverlooked'
    BY <1>1, <1>3 DEF Typed, TypedPress, NothingOverlooked
  <2>. QED
    BY <1>1, <1>3, <2>1, CargoStep DEF CargoIsPast
<1>. QED
  BY <1>2, <1>3

(***************************************************************************)
(* A change that is committed, with what it does to the screen's request.  *)
(***************************************************************************)
LEMMA CommitStepKeeps ==
  ASSUME IInv, Committed,
         UNCHANGED <<role, link, timer, boards, reads, profile, shown, latest>>, TypedPress',
         \/ press' = press
         \/ /\ profile = "loaded"
            /\ press'.answer \in {None, truth'}
  PROVE  IInv'
<1>. USE DEF IInv
<1>1. /\ Typed' /\ NothingOverlooked'
      /\ View(truth)' \in past' /\ past \subseteq past'
      /\ \A s : View(s)' = View(s)
  BY CommittedKeeps
<1>2. View(truth)' = View(truth') /\ View(press.answer)' = View(press'.answer)
  BY DEF View
<1>3. View(press.answer)' \in past' \/ press'.answer = None
  BY <1>1, <1>2 DEF CargoIsPast
<1>4. CargoIsPast'
  BY <1>1, <1>3 DEF CargoIsPast
<1>5. StartedFirst'
  BY DEF StartedFirst
<1>. QED
  BY <1>1, <1>4, <1>5

(* Somebody else moves the order on.                                       *)
LEMMA ElsewhereKeeps ==
  ASSUME IInv, Elsewhere
  PROVE  IInv'
<1>1. Committed
  BY DEF Elsewhere, Committed
<1>. QED
  BY <1>1, CommitStepKeeps DEF Elsewhere, display, client, IInv, Typed, TypedPress

(* The server serves the button the user pressed.                          *)
LEMMA ServeKeeps ==
  ASSUME IInv, Serve
  PROVE  IInv'
<1>1. /\ profile = "loaded" /\ TypedPress /\ truth \in Statuses /\ link \in {"up", "down"}
      /\ UNCHANGED <<role, link, timer, boards, reads, profile, shown, latest>>
  BY DEF Serve, display, client, IInv, Typed, StartedFirst, Idle
<1>2. CASE Possible(Meant(press.how))
  <2>1. /\ Committed
        /\ press' = [press EXCEPT !.phase = "back",
                                  !.answer = IF press.how \in Answered THEN truth' ELSE None]
    BY <1>2 DEF Serve, Committed
  <2>2. truth' \in Statuses
    BY <2>1, ChangeLeadsToStatus DEF Committed, Commit, Statuses
  <2>3. press'.answer \in {None, truth'} /\ TypedPress'
    BY <1>1, <2>1, <2>2 DEF TypedPress, Statuses
  <2>. QED
    BY <1>1, <2>1, <2>3, CommitStepKeeps
<1>3. CASE ~Possible(Meant(press.how))
  <2>1. press' = [press EXCEPT !.phase = "back"] /\ UNCHANGED <<truth, past, outbox, gap>>
    BY <1>3 DEF Serve, server
  <2>2. press'.answer = press.answer /\ TypedPress'
    BY <1>1, <2>1 DEF TypedPress
  <2>. QED
    BY <1>1, <2>1, <2>2, QuietStep
<1>. QED
  BY <1>2, <1>3

(* ... and the press that its client has given up.                         *)
LEMMA ServeStrayKeeps ==
  ASSUME IInv, ServeStray
  PROVE  IInv'
<1>1. /\ UNCHANGED <<role, link, timer, boards, reads, profile, shown, latest, press>>
      /\ TypedPress' /\ link \in {"up", "down"}
  BY DEF ServeStray, display, client, IInv, Typed, TypedPress
<1>2. CASE Possible(Meant(stray))
  <2>1. Committed
    BY <1>2 DEF Committed, ServeStray
  <2>. QED
    BY <1>1, <2>1, CommitStepKeeps
<1>3. CASE ~Possible(Meant(stray))
  <2>1. UNCHANGED <<truth, past, outbox, gap>>
    BY <1>3 DEF ServeStray, server
  <2>. QED
    BY <1>1, <2>1, QuietStep
<1>. QED
  BY <1>2, <1>3

-----------------------------------------------------------------------------
(* The buttons are on orders, and each asks for one of the changes.        *)
LEMMA ButtonsTable ==
  ASSUME role \in Roles, NEW v \in DOMAIN Buttons[role]
  PROVE  v \in OrderStatus /\ Buttons[role][v] \in Hows
<1>1. {"start", "ready", "force", "call", "handover", "pay", "cancel"} \subseteq Hows
  BY DEF Hows, Changes, Change
<1>2. CASE role = "DISPLAY"
  BY <1>2 DEF Buttons
<1>3. CASE role \in {"STATION", "KITCHEN"}
  <2>1. Buttons[role] = TaskCard
    BY <1>3 DEF Buttons
  <2>. QED
    BY <1>1, <2>1 DEF TaskCard, OrderStatus
<1>4. CASE role = "DISPATCHER"
  <2>1. Buttons[role] = OrderCard
    BY <1>4 DEF Buttons
  <2>. QED
    BY <1>1, <2>1 DEF OrderCard, OrderStatus
<1>5. CASE role = "POS"
  <2>1. Buttons[role] = OrderPanel
    BY <1>5 DEF Buttons
  <2>. QED
    BY <1>1, <2>1 DEF OrderPanel, OrderStatus
<1>6. CASE role \in {"ADMIN", "HEADQUARTERS"}
  <2>1. Buttons[role] = OrderDetail
    BY <1>6 DEF Buttons
  <2>. QED
    BY <1>1, <2>1 DEF OrderDetail
<1>. QED
  BY <1>2, <1>3, <1>4, <1>5, <1>6 DEF Roles

(* The user presses a button of what the screen shows.                     *)
LEMMA PressKeeps ==
  ASSUME IInv, Press
  PROVE  IInv'
<1>1. /\ UNCHANGED <<role, truth, past, outbox, timer, boards, link, profile, reads, shown,
                     latest, gap>>
      /\ shown \in DOMAIN Buttons[role]
      /\ press' = [phase |-> "sent", how |-> Buttons[role][shown], answer |-> None]
  BY DEF Press, server, display, client
<1>2. shown \in OrderStatus /\ Buttons[role][shown] \in Hows
  BY <1>1, ButtonsTable DEF IInv, Typed
<1>3. profile = "loaded"
  BY <1>2, Words DEF IInv, StartedFirst
<1>4. TypedPress' /\ press'.answer = None /\ link' \in {"up", "down"}
  BY <1>1, <1>2 DEF TypedPress, Statuses, IInv, Typed
<1>. QED
  BY <1>1, <1>3, <1>4, QuietStep

(* The client gives the press up, the server may still serve it.           *)
LEMMA PressTimesOutKeeps ==
  ASSUME IInv, PressTimesOut
  PROVE  IInv'
<1>1. /\ UNCHANGED <<role, truth, past, outbox, timer, boards, link, profile, reads, shown,
                     latest, gap>>
      /\ press.phase \in {"sent", "back"}
      /\ press' = [press EXCEPT !.phase = "back", !.answer = None]
  BY DEF PressTimesOut, server, display, client
<1>2. profile = "loaded"
  BY <1>1 DEF IInv, StartedFirst, Idle
<1>3. TypedPress' /\ press'.answer = None /\ link' \in {"up", "down"}
  BY <1>1 DEF TypedPress, Statuses, IInv, Typed
<1>. QED
  BY <1>1, <1>2, <1>3, QuietStep

(* The socket comes and goes.                                              *)
LEMMA SocketKeeps ==
  ASSUME IInv, Connect \/ Disconnect \/ UNCHANGED vars
  PROVE  IInv'
<1>1. /\ UNCHANGED <<role, truth, past, outbox, timer, boards, profile, reads, shown, latest,
                     gap, press>>
      /\ link' \in {"up", "down"} /\ TypedPress'
  BY DEF Connect, Disconnect, vars, server, display, client, IInv, Typed, TypedPress
<1>. QED
  BY <1>1, QuietStep

(* The end of the screen's own request: a task is patched in from the      *)
(* answer, which was the order at the commit, and the screen reloads.      *)
LEMMA PressEndsKeeps ==
  ASSUME IInv, PressEnds
  PROVE  /\ IInv'
         /\ profile = "loaded"
         /\ shown' # shown => shown' \in past
<1>. USE DEF IInv
<1>1. /\ UNCHANGED <<role, truth, past, outbox, timer, boards, link, profile, latest, gap>>
      /\ press.phase = "back" /\ press' = Idle /\ shown' = Patched
      /\ reads' = reads \/ reads' = Send(reads)
  BY DEF PressEnds, server, display
<1>2. profile = "loaded"
  BY <1>1 DEF StartedFirst, Idle
<1>3. TypedPress' /\ press'.answer = None
  <2>1. None \in Hows /\ None \in Statuses
    BY DEF Hows, Statuses
  <2>. QED
    BY <1>1, <2>1 DEF TypedPress, Idle
<1>4. /\ reads' \in Flight /\ \A v \in Views : reads'[v] = reads[v]
      /\ reads["asked"] > 0 => reads'["asked"] > 0
  BY <1>1, SendEffect DEF Typed
<1>5. Typed'
  BY <1>1, <1>3, <1>4 DEF Typed
<1>6. OnTheWay => OnTheWay'
  BY <1>1, <1>4, SameViews DEF OnTheWay
<1>7. NothingOverlooked'
  BY <1>1, <1>6, StillOnTheWay
<1>8. View(truth)' = View(truth)
  BY <1>1 DEF View
<1>9. CargoIsPast'
  BY <1>1, <1>3, <1>4, <1>8 DEF CargoIsPast
<1>10. StartedFirst'
  BY <1>1, <1>2 DEF StartedFirst
<1>11. shown' # shown => shown' \in past
  BY <1>1 DEF Patched, CargoIsPast
<1>. QED
  BY <1>2, <1>5, <1>7, <1>9, <1>10, <1>11

-----------------------------------------------------------------------------
(* A client that has just been opened.                                     *)
LEMMA InitIInv == Init => IInv
<1>. SUFFICES ASSUME Init PROVE IInv
  OBVIOUS
<1>. USE DEF Init
<1>1. Typed
  <2>1. None \in Hows /\ None \in Statuses
    BY DEF Hows, Statuses
  <2>2. Idle \in [phase : {"idle", "sent", "back"}, how : Hows, answer : Statuses]
    BY <2>1 DEF Idle
  <2>3. NoFlight \in Flight
    BY DEF NoFlight, Flight
  <2>. QED
    BY <2>2, <2>3 DEF Typed, TypedPress, Statuses, OrderStatus
<1>2. \A c \in Cargo : reads[c] = 0 /\ boards[c] = 0
  BY DEF NoFlight
<1>3. press.answer = None
  BY DEF Idle
<1>4. CargoIsPast
  BY <1>2, <1>3, Words DEF CargoIsPast
<1>. QED
  BY <1>1, <1>2, <1>4 DEF IInv, NothingOverlooked, StartedFirst

(* No step breaks the invariant.                                           *)
LEMMA NextIInv == IInv /\ [Next]_vars => IInv'
<1>. SUFFICES ASSUME IInv, [Next]_vars PROVE IInv'
  OBVIOUS
<1>1. CASE Elsewhere
  BY <1>1, ElsewhereKeeps
<1>2. ASSUME NEW e \in outbox, Route(e) PROVE IInv'
  BY <1>2, RouteKeeps
<1>3. CASE LoseEvents
  BY <1>3, LoseEventsKeeps
<1>4. CASE Fire
  BY <1>4, FireKeeps
<1>5. CASE ReadBoard \/ ReadForScreen
  BY <1>5, ReadKeeps
<1>6. CASE BoardFails \/ ReloadFails
  BY <1>6, FailKeeps
<1>7. CASE Connect \/ Disconnect \/ UNCHANGED vars
  BY <1>7, SocketKeeps
<1>8. CASE LoadProfile \/ Poll
  BY <1>8, AskKeeps
<1>9. ASSUME NEW view \in Views, PushBoard(view) \/ Answer(view) PROVE IInv'
  BY <1>9, ShowKeeps
<1>10. CASE Press
  BY <1>10, PressKeeps
<1>11. CASE Serve
  BY <1>11, ServeKeeps
<1>12. CASE PressEnds
  BY <1>12, PressEndsKeeps
<1>13. CASE PressTimesOut
  BY <1>13, PressTimesOutKeeps
<1>14. CASE ServeStray
  BY <1>14, ServeStrayKeeps
<1>. QED
  BY <1>1, <1>2, <1>3, <1>4, <1>5, <1>6, <1>7, <1>8, <1>9, <1>10, <1>11, <1>12, <1>13, <1>14
     DEF Next

(***************************************************************************)
(* The inductive invariant holds in every reachable state: requests are    *)
(* counted, whatever travels to the screen is a view the order has had,    *)
(* and it travels only to a screen that has started.                       *)
(***************************************************************************)
THEOREM Invariance == Spec => []IInv
<1>1. Init => IInv
  BY InitIInv
<1>2. IInv /\ [Next]_vars => IInv'
  BY NextIInv
<1>. QED
  BY <1>1, <1>2, PTL DEF Spec

(***************************************************************************)
(* For every kind of screen and every change of an order: unless a message *)
(* was lost, a screen that is behind the server has a reload, a board or   *)
(* an event on the way to it.                                              *)
(***************************************************************************)
THEOREM Overlooked == Spec => []NothingOverlooked
<1>1. IInv => NothingOverlooked
  BY DEF IInv
<1>. QED
  BY <1>1, Invariance, PTL

-----------------------------------------------------------------------------
(* A step moves the mirror's source along, shows a view of the past, opens *)
(* the screen, or does none of these.                                      *)
LEMMA StepIsMirror ==
  ASSUME IInv, [Next]_vars
  PROVE  M!Next \/ UNCHANGED M!vars
<1>. USE DEF IInv
<1>0. UNCHANGED role
  BY DEF Next, vars, Elsewhere, Route, LoseEvents, Fire, ReadBoard, BoardFails, Connect,
         Disconnect, LoadProfile, Poll, ReadForScreen, ReloadFails, PushBoard, Answer, Press,
         Serve, PressEnds, PressTimesOut, ServeStray
<1>1. ASSUME Committed, UNCHANGED <<profile, shown>>
      PROVE  M!Next
  <2>1. PICK c \in Changes : truth' = c.to /\ past' = past \cup {View(c.to)}
    BY <1>1 DEF Committed, Commit
  <2>2. View(truth)' = View(c.to) /\ View(c.to) \in Views
    BY <1>0, <2>1, ViewType DEF View, Typed
  <2>3. M!Change(View(c.to))
    BY <1>1, <2>1, <2>2 DEF M!Change
  <2>. QED
    BY <2>2, <2>3 DEF M!Next
<1>2. ASSUME UNCHANGED <<truth, past, profile>>,
             shown' # shown => profile = "loaded" /\ shown' \in past
      PROVE  M!Next \/ UNCHANGED M!vars
  <2>1. View(truth)' = View(truth)
    BY <1>0, <1>2 DEF View
  <2>2. CASE shown' = shown
    BY <1>2, <2>1, <2>2 DEF M!vars
  <2>3. CASE shown' # shown
    <3>1. M!Show(shown')
      BY <1>2, <2>1, <2>3 DEF M!Show
    <3>. QED
      BY <1>2, <2>3, <3>1 DEF M!Next
  <2>. QED
    BY <2>2, <2>3
<1>3. CASE Elsewhere
  <2>1. Committed /\ UNCHANGED <<profile, shown>>
    BY <1>3 DEF Elsewhere, Committed, client
  <2>. QED
    BY <1>1, <2>1
<1>4. CASE Serve \/ ServeStray
  <2>1. UNCHANGED <<profile, shown>>
    BY <1>4 DEF Serve, ServeStray, client
  <2>2. Committed \/ UNCHANGED <<truth, past>>
    BY <1>4 DEF Serve, ServeStray, Committed, server
  <2>. QED
    BY <1>1, <1>2, <2>1, <2>2
<1>5. CASE LoadProfile
  <2>1. UNCHANGED <<truth, past, shown>> /\ profile = "asked" /\ profile' \in {"loaded", "failed"}
    BY <1>5 DEF LoadProfile, server
  <2>2. View(truth)' = View(truth)
    BY <1>0, <2>1 DEF View
  <2>3. CASE profile' = "loaded"
    <3>1. M!Open
      BY <2>1, <2>2, <2>3 DEF M!Open
    <3>. QED
      BY <3>1 DEF M!Next
  <2>4. CASE profile' = "failed"
    BY <2>1, <2>2, <2>4 DEF M!vars
  <2>. QED
    BY <2>1, <2>3, <2>4
<1>6. ASSUME NEW view \in Views, PushBoard(view) \/ Answer(view)
      PROVE  M!Next \/ UNCHANGED M!vars
  <2>1. UNCHANGED <<truth, past, profile>>
    BY <1>6 DEF PushBoard, Answer, server
  <2>. QED
    BY <1>2, <1>6, <2>1, ShowKeeps
<1>7. CASE PressEnds
  <2>1. UNCHANGED <<truth, past, profile>>
    BY <1>7 DEF PressEnds, server
  <2>. QED
    BY <1>2, <1>7, <2>1, PressEndsKeeps
<1>8. CASE \/ \E e \in outbox : Route(e)
           \/ LoseEvents \/ Fire \/ ReadBoard \/ BoardFails \/ Connect \/ Disconnect
           \/ Poll \/ ReadForScreen \/ ReloadFails \/ Press \/ PressTimesOut
           \/ UNCHANGED vars
  <2>1. UNCHANGED <<truth, past, profile, shown>>
    BY <1>8 DEF Route, LoseEvents, Fire, ReadBoard, BoardFails, Connect, Disconnect, Poll,
                ReadForScreen, ReloadFails, Press, PressTimesOut, vars, server, client
  <2>. QED
    BY <1>2, <2>1
<1>. QED
  BY <1>3, <1>4, <1>5, <1>6, <1>7, <1>8 DEF Next

(***************************************************************************)
(* The safety half of RefinesMirror: neither patches nor late answers nor  *)
(* pushed boards make a screen show the order as it has never been.        *)
(***************************************************************************)
THEOREM MirrorSafety == Spec => M!Safety
<1>1. Init => M!Init
  <2>. SUFFICES ASSUME Init PROVE M!Init
    OBVIOUS
  <2>1. View(truth) \in Views
    BY ViewType DEF Init
  <2>. QED
    BY <2>1 DEF Init, M!Init
<1>2. IInv /\ [Next]_vars => [M!Next]_(M!vars)
  BY StepIsMirror
<1>. QED
  BY <1>1, <1>2, Invariance, PTL DEF Spec, M!Safety

================================================================================
