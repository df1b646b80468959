------------------------------ MODULE Delivery ------------------------------
(***************************************************************************)
(* From a committed change of an order to what a screen shows: the events  *)
(* published after the commit, the bus, the rooms of the gateway, the      *)
(* debounced board of the customer display, the socket that drops and      *)
(* reconnects, and the screen that reloads on events, polls, applies       *)
(* answers as they arrive and patches in the answer to its own press.      *)
(*   apps/api/src/{common/events,realtime,display}                         *)
(*   packages/api-client, packages/ui/src/hooks.ts                         *)
(*   apps/{customer-display,production,dispatcher,pos,admin}               *)
(*                                                                         *)
(* One order and one screen, whose kind is chosen at the start: screens    *)
(* meet only in the server.  Each request is one step of the server (its   *)
(* transaction is in OrderEngine), but the answer travels on its own.      *)
(***************************************************************************)
EXTENDS OrderDomain, Functions

CONSTANTS
  MaxReads,     \* bound: reloads of the screen under way at once
  MaxBoards,    \* bound: boards of the display being computed at once
  MaxCommits,   \* bound: changes of the order
  MaxFaults     \* bound: connections dropped, requests and events lost

ASSUME FlightAssumption == MaxReads \in Nat \ {0} /\ MaxBoards \in Nat \ {0}

VARIABLES
  role,         \* the kind of screen
  truth,        \* the committed status of the order
  commits,      \* how many changes have been committed
  outbox,       \* events published and not yet routed: <<commit, type>>
  timer,        \* the display's debounce timer: "idle" or "armed"
  boards,       \* the display boards the server is computing
  link,         \* the socket: "down", or "up" and in the rooms of its actor
  profile,      \* the first request of the app: who am I
  reads,        \* the reloads under way
  shown,        \* how the screen shows the order
  press,        \* the screen's own request: [phase, how, answer]
  stray,        \* a request whose sender has given up on it
  faults,
  past,         \* history: what there has been to show
  latest,       \* history: what was last read for the screen
  gap           \* history: the screen may have missed a change

server   == <<truth, commits, outbox, past>>
display  == <<timer, boards>>
client   == <<profile, reads, shown>>
vars     == <<role, server, display, link, client, press, stray, faults, latest, gap>>

-----------------------------------------------------------------------------
(***************************************************************************)
(* The screens, and how much of the order each of them shows.              *)
(***************************************************************************)
Nothing == "nothing"
None    == "none"

Statuses == OrderStatus \cup {None}

Views == OrderStatus \cup {"PREPARING", Nothing}

Roles == {"DISPLAY", "STATION", "KITCHEN", "DISPATCHER", "POS", "ADMIN", "HEADQUARTERS"}

Preparing == {"CONFIRMED", "SCHEDULED", "IN_PRODUCTION", "PARTIALLY_READY", "READY_FOR_ASSEMBLY"}

(* The task board, the dispatcher's two columns, the till's list of orders *)
(* waiting for cash, the table of the administrators.                      *)
TaskBoard     == {"SCHEDULED", "IN_PRODUCTION"}
DispatchBoard == Preparing \cup {"READY_FOR_PICKUP"}
AwaitingCash  == {"AWAITING_PAYMENT"}
OrdersTable   == OrderStatus

OnScreen == [
  DISPLAY      |-> DispatchBoard,
  STATION      |-> TaskBoard,
  KITCHEN      |-> TaskBoard,
  DISPATCHER   |-> DispatchBoard,
  POS          |-> AwaitingCash,
  ADMIN        |-> OrdersTable,
  HEADQUARTERS |-> OrdersTable]

View(status) ==
  IF status \notin OnScreen[role] THEN Nothing
  ELSE IF role = "DISPLAY" /\ status \in Preparing THEN "PREPARING"
  ELSE status

(***************************************************************************)
(* What is published with each change.  The three transitions of a payment *)
(* publish three ORDER_STATUS_CHANGED; one stands for them here.           *)
(***************************************************************************)
Change(how, from, to, says) == [how |-> how, from |-> from, to |-> to, says |-> says]

Changes == {
  Change("create", {None}, "AWAITING_PAYMENT", {"ORDER_CREATED"}),
  Change("pay", {"AWAITING_PAYMENT"}, "SCHEDULED",
         {"PAYMENT_COMPLETED", "ORDER_STATUS_CHANGED", "ORDER_CONFIRMED", "PRODUCTION_TASK_CREATED"}),
  Change("start", {"SCHEDULED"}, "IN_PRODUCTION", {"PRODUCTION_STARTED", "ORDER_STATUS_CHANGED"}),
  Change("ready", {"IN_PRODUCTION"}, "READY_FOR_ASSEMBLY",
         {"PRODUCTION_ITEM_READY", "ORDER_STATUS_CHANGED", "ORDER_READY_FOR_ASSEMBLY"}),
  Change("call", {"READY_FOR_ASSEMBLY"}, "READY_FOR_PICKUP",
         {"ORDER_STATUS_CHANGED", "ORDER_READY_FOR_PICKUP"}),
  Change("force", {"SCHEDULED", "IN_PRODUCTION"}, "READY_FOR_PICKUP",
         {"ORDER_STATUS_CHANGED", "ORDER_READY_FOR_ASSEMBLY", "ORDER_READY_FOR_PICKUP"}),
  Change("handover", {"READY_FOR_PICKUP"}, "COMPLETED", {"ORDER_STATUS_CHANGED", "ORDER_COMPLETED"}),
  Change("cancel", {"AWAITING_PAYMENT", "READY_FOR_ASSEMBLY", "READY_FOR_PICKUP"}, "CANCELLED",
         {"ORDER_STATUS_CHANGED", "ORDER_CANCELLED"}),
  Change("cancel", {"SCHEDULED", "IN_PRODUCTION"}, "CANCELLED",
         {"ORDER_STATUS_CHANGED", "ORDER_CANCELLED", "PRODUCTION_TASK_CANCELLED"})}

TaskEvents ==
  {"PRODUCTION_TASK_CREATED", "PRODUCTION_STARTED", "PRODUCTION_ITEM_READY",
   "PRODUCTION_TASK_CANCELLED"}

DISPLAY_RELEVANT ==
  {"ORDER_CONFIRMED", "ORDER_STATUS_CHANGED", "ORDER_READY_FOR_PICKUP", "ORDER_COMPLETED",
   "ORDER_CANCELLED"}

(***************************************************************************)
(* The rooms a socket is put into, the rooms an event goes to, and the     *)
(* events each screen asked its socket for.  A socket that is in two rooms *)
(* of an event gets it twice, one right after the other, and the client    *)
(* drops the second by its id: hearing is being in any of the rooms.       *)
(***************************************************************************)
Rooms == [
  DISPLAY      |-> {"display"},
  STATION      |-> {"station"},
  KITCHEN      |-> {"branch"},
  DISPATCHER   |-> {"branch", "dispatch"},
  POS          |-> {"branch"},
  ADMIN        |-> {"branch"},
  HEADQUARTERS |-> {}]

RoomsOf_NoStation(type) == {"branch", "dispatch"}   \* faulty: forgets the station room

RoomsOf(type) ==
  IF type \in TaskEvents THEN {"branch", "dispatch", "station"} ELSE {"branch", "dispatch"}

BoardEvents ==
  {"PRODUCTION_TASK_CREATED", "PRODUCTION_STARTED", "PRODUCTION_ITEM_READY",
   "PRODUCTION_TASK_CANCELLED", "ORDER_CANCELLED"}

ListensFor == [
  DISPLAY      |-> {},
  STATION      |-> BoardEvents,
  KITCHEN      |-> BoardEvents,
  DISPATCHER   |-> {"ORDER_CONFIRMED", "ORDER_STATUS_CHANGED", "PRODUCTION_STARTED",
                    "PRODUCTION_ITEM_READY", "ORDER_READY_FOR_ASSEMBLY",
                    "ORDER_READY_FOR_PICKUP", "ORDER_COMPLETED", "ORDER_CANCELLED"},
  POS          |-> {"ORDER_CREATED", "PAYMENT_COMPLETED", "ORDER_CANCELLED",
                    "ORDER_STATUS_CHANGED"},
  ADMIN        |-> {"ORDER_CREATED", "ORDER_STATUS_CHANGED", "PAYMENT_COMPLETED"},
  HEADQUARTERS |-> {"ORDER_CREATED", "ORDER_STATUS_CHANGED", "PAYMENT_COMPLETED"}]

Reaches(type) == Rooms[role] \cap RoomsOf(type) # {} /\ type \in ListensFor[role]

(* Events that change nothing on this screen are not kept.                 *)
Concerns(type) == Reaches(type) \/ (role = "DISPLAY" /\ type \in DISPLAY_RELEVANT)

(***************************************************************************)
(* Requests under way, counted by what they carry: "asked" on the way to   *)
(* the server, what the screen is to show on the way back.                 *)
(***************************************************************************)
Cargo == {"asked"} \cup Views

NoFlight == [c \in Cargo |-> 0]

Room(flight, max) == SumFunction(flight) < max

Send(flight)       == [flight EXCEPT !["asked"] = @ + 1]
Drop(flight, c)    == [flight EXCEPT ![c] = @ - 1]
Load(flight)       == [flight EXCEPT !["asked"] = @ - 1, ![View(truth)] = @ + 1]

Idle == [phase |-> "idle", how |-> None, answer |-> None]

Init ==
  /\ role \in Roles
  /\ truth \in {None, "AWAITING_PAYMENT", "IN_PRODUCTION"}
  /\ commits = 0 /\ outbox = {}
  /\ timer = "idle" /\ boards = NoFlight
  /\ link = "down"
  /\ profile = "asked" /\ reads = NoFlight /\ shown = Nothing
  /\ press = Idle /\ stray = None
  /\ faults = 0
  /\ past = {View(truth)} /\ latest = Nothing /\ gap = FALSE

-----------------------------------------------------------------------------
(***************************************************************************)
(* A change is committed and its events are handed to the bus.  They are   *)
(* published at the same time and nothing orders them with those of other  *)
(* changes, so the outbox is a set.                                        *)
(***************************************************************************)
Commit(how) ==
  \E c \in Changes :
    /\ c.how = how
    /\ truth \in c.from
    /\ commits < MaxCommits
    /\ commits' = commits + 1
    /\ truth' = c.to
    /\ outbox' = outbox \cup {<<commits', type>> : type \in {t \in c.says : Concerns(t)}}
    /\ past' = past \cup {View(c.to)}
    /\ gap' = (gap \/ (how = "force" /\ role \in {"STATION", "KITCHEN"}))

(* Somebody else, at another screen or a till.                             *)
Elsewhere ==
  /\ \E c \in Changes : Commit(c.how)
  /\ UNCHANGED <<role, display, link, client, press, stray, faults, latest>>

(***************************************************************************)
(* route: an event reaches the gateway.  A screen that hears it reloads;   *)
(* one that is not connected misses it for good.                           *)
(***************************************************************************)
ScheduleDisplayRefresh == timer' = "armed"

Route(e) ==
  /\ outbox' = outbox \ {e}
  /\ IF role = "DISPLAY" /\ e[2] \in DISPLAY_RELEVANT
     THEN ScheduleDisplayRefresh ELSE UNCHANGED timer
  /\ IF link = "up" /\ Reaches(e[2]) /\ profile = "loaded"
     THEN Room(reads, MaxReads) /\ reads' = Send(reads)
     ELSE UNCHANGED reads
  /\ gap' = (gap \/ (link = "down" /\ Reaches(e[2])))
  /\ UNCHANGED <<role, truth, commits, past, boards, link, profile, shown, press, stray, faults,
                 latest>>

(* The process dies between commit and publish, or Redis is not there.     *)
LoseEvents ==
  /\ outbox # {}
  /\ faults < MaxFaults
  /\ faults' = faults + 1
  /\ \E e \in outbox : outbox' \in {outbox \ {e}, {x \in outbox : x[1] # e[1]}}
  /\ gap' = TRUE
  /\ UNCHANGED <<role, truth, commits, past, display, link, client, press, stray, latest>>

(***************************************************************************)
(* The display's timer fires, the board is read and then sent.  Two boards *)
(* may be under way, and the one read first may be sent last.              *)
(***************************************************************************)
Fire ==
  /\ timer = "armed"
  /\ Room(boards, MaxBoards)
  /\ timer' = "idle"
  /\ boards' = Send(boards)
  /\ UNCHANGED <<role, server, link, client, press, stray, faults, latest, gap>>

ReadBoard ==
  /\ boards["asked"] > 0
  /\ boards' = Load(boards)
  /\ latest' = View(truth)
  /\ UNCHANGED <<role, server, timer, link, client, press, stray, faults, gap>>

PushBoard(view) ==
  /\ boards[view] > 0
  /\ boards' = Drop(boards, view)
  /\ shown' = IF link = "up" /\ profile = "loaded" THEN view ELSE shown
  /\ UNCHANGED <<role, server, timer, link, profile, reads, press, stray, faults, latest, gap>>

-----------------------------------------------------------------------------
(* handleConnection: the actor's rooms are joined before `ready`.          *)
Connect ==
  /\ link = "down"
  /\ link' = "up"
  /\ UNCHANGED <<role, server, display, client, press, stray, faults, latest, gap>>

Disconnect ==
  /\ link = "up"
  /\ faults < MaxFaults
  /\ faults' = faults + 1
  /\ link' = "down"
  /\ UNCHANGED <<role, server, display, client, press, stray, latest, gap>>

(***************************************************************************)
(* The app starts: it asks who it is and then loads its data.  The first   *)
(* question is asked once and has no poll behind it.                       *)
(***************************************************************************)
LoadProfile ==
  /\ profile = "asked"
  /\ \/ profile' = "loaded" /\ reads' = Send(reads) /\ UNCHANGED faults
     \/ profile' = "failed" /\ faults < MaxFaults /\ faults' = faults + 1 /\ UNCHANGED reads
  /\ UNCHANGED <<role, server, display, link, shown, press, stray, latest, gap>>

(* The safety net behind the events.                                       *)
Poll_Offline ==            \* faulty: stops polling once the socket is connected
  /\ link = "down"
  /\ profile = "loaded"
  /\ Room(reads, MaxReads)
  /\ reads' = Send(reads)
  /\ UNCHANGED <<role, server, display, link, profile, shown, press, stray, faults, latest, gap>>

Poll ==
  /\ profile = "loaded"
  /\ Room(reads, MaxReads)
  /\ reads' = Send(reads)
  /\ UNCHANGED <<role, server, display, link, profile, shown, press, stray, faults, latest, gap>>

ReadForScreen ==
  /\ reads["asked"] > 0
  /\ reads' = Load(reads)
  /\ latest' = View(truth)
  /\ UNCHANGED <<role, server, display, link, profile, shown, press, stray, faults, gap>>

(* refresh: an answer is shown when it arrives, however old it is.         *)
Answer(view) ==
  /\ reads[view] > 0
  /\ reads' = Drop(reads, view)
  /\ shown' = view
  /\ UNCHANGED <<role, server, display, link, profile, press, stray, faults, latest, gap>>

(* A reload fails, also after the retries of the client, or a board of the *)
(* display does: what is shown stays.                                      *)
ReloadFails ==
  /\ reads["asked"] > 0
  /\ faults < MaxFaults
  /\ faults' = faults + 1
  /\ reads' = Drop(reads, "asked")
  /\ gap' = TRUE
  /\ UNCHANGED <<role, server, display, link, profile, shown, press, stray, latest>>

BoardFails ==
  /\ boards["asked"] > 0
  /\ faults < MaxFaults
  /\ faults' = faults + 1
  /\ boards' = Drop(boards, "asked")
  /\ gap' = TRUE
  /\ UNCHANGED <<role, server, timer, link, client, press, stray, latest>>

-----------------------------------------------------------------------------
(***************************************************************************)
(* The buttons of a screen: START and READY on a task card; the            *)
(* dispatcher's and the administrator's, which open a dialog, and the      *)
(* till's MARK AS PAID, which opens a panel, on the order as it was then   *)
(* (a dialog left open is a request that is served late).                  *)
(***************************************************************************)
TaskCard    == [SCHEDULED |-> "start", IN_PRODUCTION |-> "ready"]
OrderCard   == [SCHEDULED |-> "force", IN_PRODUCTION |-> "force", READY_FOR_ASSEMBLY |-> "call",
                READY_FOR_PICKUP |-> "handover"]
OrderPanel  == [AWAITING_PAYMENT |-> "pay"]
OrderDetail == [s \in OrderStatus \ {"COMPLETED", "CANCELLED", "REFUNDED"} |-> "cancel"]

Buttons == [
  DISPLAY      |-> <<>>,
  STATION      |-> TaskCard,
  KITCHEN      |-> TaskCard,
  DISPATCHER   |-> OrderCard,
  POS          |-> OrderPanel,
  ADMIN        |-> OrderDetail,
  HEADQUARTERS |-> OrderDetail]

Answered == {"start", "ready", "pay"}      \* the answer makes a difference to the screen

Press ==
  /\ press = Idle
  /\ shown \in DOMAIN Buttons[role]
  /\ press' = [phase |-> "sent", how |-> Buttons[role][shown], answer |-> None]
  /\ UNCHANGED <<role, server, display, link, client, stray, faults, latest, gap>>

(* A forced call finds the order assembled and is then a plain one.        *)
Meant(how) == IF how = "force" /\ truth = "READY_FOR_ASSEMBLY" THEN "call" ELSE how

Possible(how) == \E c \in Changes : c.how = how /\ truth \in c.from

Serve ==
  /\ press.phase = "sent"
  /\ IF Possible(Meant(press.how))
     THEN /\ Commit(Meant(press.how))
          /\ press' = [press EXCEPT !.phase = "back",
                                    !.answer = IF press.how \in Answered THEN truth' ELSE None]
     ELSE press' = [press EXCEPT !.phase = "back"] /\ UNCHANGED <<server, gap>>
  /\ UNCHANGED <<role, display, link, client, stray, faults, latest>>

(* The request ends, well or not: a task is patched in from the answer,    *)
(* a dialog closes, and the screen is reloaded, the till's only after a    *)
(* payment that went well.                                                 *)
Patched_Early == IF press.how = "start" THEN "IN_PRODUCTION" ELSE shown
                                    \* faulty: does not wait for the server's word

Patched ==
  IF press.how # "pay" /\ press.answer # None /\ shown \in DOMAIN TaskCard
  THEN View(press.answer) ELSE shown

PressEnds ==
  /\ press.phase = "back"
  /\ shown' = Patched
  /\ press' = Idle
  /\ IF role = "POS" /\ press.answer = None
     THEN UNCHANGED reads
     ELSE Room(reads, MaxReads) /\ reads' = Send(reads)
  /\ UNCHANGED <<role, server, display, link, profile, stray, faults, latest, gap>>

(* The client gives up waiting; the server may still get the request.      *)
PressTimesOut ==
  /\ press.phase \in {"sent", "back"}
  /\ stray = None
  /\ faults < MaxFaults
  /\ faults' = faults + 1
  /\ stray' = IF press.phase = "sent" THEN press.how ELSE None
  /\ press' = [press EXCEPT !.phase = "back", !.answer = None]
  /\ UNCHANGED <<role, server, display, link, client, latest, gap>>

ServeStray ==
  /\ stray # None
  /\ stray' = None
  /\ IF Possible(Meant(stray)) THEN Commit(Meant(stray)) ELSE UNCHANGED <<server, gap>>
  /\ UNCHANGED <<role, display, link, client, press, faults, latest>>

-----------------------------------------------------------------------------
Next ==
  \/ Elsewhere
  \/ \E e \in outbox : Route(e)
  \/ LoseEvents
  \/ Fire \/ ReadBoard \/ BoardFails
  \/ Connect \/ Disconnect
  \/ LoadProfile \/ Poll
  \/ ReadForScreen \/ ReloadFails
  \/ \E view \in Views : PushBoard(view) \/ Answer(view)
  \/ Press \/ Serve \/ PressEnds \/ PressTimesOut \/ ServeStray

(* The app starts, the poll keeps polling and some of its answers arrive.  *)
(* Nothing is assumed of the socket, of pushed boards, of people or of     *)
(* faults: the poll alone must do.                                         *)
Fairness ==
  /\ WF_vars(LoadProfile) /\ WF_vars(Poll) /\ WF_vars(ReadForScreen)
  /\ WF_vars(\E view \in Views : Answer(view))

Spec == Init /\ [][Next]_vars /\ Fairness

-----------------------------------------------------------------------------
TypeOK ==
  /\ role \in Roles
  /\ truth \in Statuses /\ past \in SUBSET Views
  /\ commits \in 0 .. MaxCommits
  /\ outbox \in SUBSET ((1 .. MaxCommits) \X UNION {c.says : c \in Changes})
  /\ timer \in {"idle", "armed"} /\ boards \in [Cargo -> 0 .. MaxBoards]
  /\ link \in {"up", "down"}
  /\ profile \in {"asked", "loaded", "failed"}
  /\ reads \in [Cargo -> 0 .. MaxReads] /\ shown \in Views
  /\ press.phase \in {"idle", "sent", "back"}
  /\ press.how \in {c.how : c \in Changes} \cup {None} /\ press.answer \in Statuses
  /\ stray \in {c.how : c \in Changes} \cup {None}
  /\ faults \in 0 .. MaxFaults
  /\ latest \in Views /\ gap \in BOOLEAN

(***************************************************************************)
(* A change is not overlooked: unless a message was lost or came while the *)
(* socket was down, a screen whose data differ on the server from what was *)
(* last read for it has a reload, a board or an event on the way.  It      *)
(* takes the room of every actor, the rooms of every event, the list each  *)
(* screen listens for and the debounce to fit together.  Two screens rely  *)
(* on the poll: a station is not told of work finished by force, and       *)
(* headquarters is in no room at all.                                      *)
(***************************************************************************)
OnTheWay ==
  \/ reads["asked"] > 0
  \/ \E e \in outbox : Reaches(e[2])
  \/ role = "DISPLAY" /\ \/ timer = "armed"
                         \/ boards["asked"] > 0
                         \/ \E e \in outbox : e[2] \in DISPLAY_RELEVANT

NothingOverlooked ==
  (profile = "loaded" /\ role # "HEADQUARTERS" /\ ~gap)
    => (latest = View(truth) \/ OnTheWay)

(***************************************************************************)
(* Whatever is lost, delayed or overtaken, a screen that has started shows *)
(* the order as it is in the end and from then on.                         *)
(***************************************************************************)
ScreenCatchesUp == <>[](profile = "loaded" => shown = View(truth))

(***************************************************************************)
(* The screen implements a mirror of the order: neither patches nor late   *)
(* answers nor pushed boards make it show the order as it has never been,  *)
(* and a screen that has started is brought up to date again and again.    *)
(***************************************************************************)
M == INSTANCE Mirror WITH Values <- Views, Blank <- Nothing, open <- (profile = "loaded"),
                          source <- View(truth), copy <- shown

RefinesMirror == M!Spec
=============================================================================
