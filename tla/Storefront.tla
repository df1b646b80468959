----------------------------- MODULE Storefront -----------------------------
(***************************************************************************)
(* One ordering client - the kiosk, the till's "new order" tab or the      *)
(* mobile page - and the server that takes its orders, over a network that *)
(* loses and delays, with an administrator who deletes orders meanwhile.   *)
(*   apps/{kiosk,pos,mobile-ordering}                                      *)
(*   apps/api/src/orders/{orders.controller,order-engine.service           *)
(*                        (createOrder), order-number.service}.ts          *)
(*   apps/api/src/maintenance                                              *)
(*                                                                         *)
(* A payment here is its status only; what happens inside the operations   *)
(* of a payment is the subject of Payments.                                *)
(***************************************************************************)
EXTENDS PaymentDomain, Sequences

CONSTANTS
  MaxOrders,    \* bound: orders ever created
  MaxAttempts,  \* bound: payments of one order
  MaxBaskets,   \* bound: customers, one after the other
  MaxPresses,   \* bound: buttons of the result screen served at a time
  MaxFaults     \* bound, for each app: messages lost, crashes, restarts, tabs left, deletions,
                \* and buttons pressed while another is served

VARIABLES
  app,          \* which client this is
  screen,       \* where its user is
  cart,         \* what is in the cart: 0 is nothing, 2 is 1 after a change
  key,          \* the base of the idempotency key (idemRef)
  view,         \* the order and the payment the client shows
  req,          \* the submissions: the client's own and one it has given up on
  gets,         \* the read of a payment's status that is under way
  deed,         \* the buttons of the result screen that are being served
  orders,       \* the orders in the database
  lastValue,    \* the number sequence of the branch and day; 0 is no row
  lock,         \* the transaction that holds its row
  doomed,       \* the orders the running purge has deleted and not committed
  faults,
  basket,       \* history: the customer
  spoiled,      \* history: the baskets changed after they had been submitted
  overrun       \* history: an order was created in the middle of a purge

ui     == <<screen, cart, key, view, basket, spoiled>>
db     == <<orders, lastValue, lock, doomed, overrun>>
vars   == <<app, ui, req, gets, deed, db, faults>>

-----------------------------------------------------------------------------
Nobody == "nobody"
Own    == "own"
Stray  == "stray"

Methods == [KIOSK |-> {"CARD", "CASH"}, POS |-> {"CARD", "CASH"}, MOBILE |-> {"ONLINE"}]

ASSUME BoundsAssumption ==
  /\ {MaxOrders, MaxAttempts, MaxBaskets, MaxPresses} \subseteq Nat \ {0}
  /\ MaxFaults \in [DOMAIN Methods -> Nat]

OrderIds == 1 .. MaxOrders
Absent   == [status |-> "ABSENT"]
Deleted  == [status |-> "DELETED"]

Exists(o) == o \in OrderIds /\ orders[o] \notin {Absent, Deleted}
Known     == {o \in OrderIds : Exists(o)}
Unused    == {o \in OrderIds : orders[o] = Absent}
WithKey(k, method) == {o \in Known : orders[o].key = <<k, method>>}

NoPay  == [order |-> 0, n |-> 0, status |-> NoPayment]
NoView == [order |-> 0, sent |-> 0, mode |-> "none", first |-> NoPay, pay |-> NoPay,
           swapped |-> FALSE]   \* history: the order changed while the screen stayed
NoDeed == [kind |-> "none", phase |-> "idle", at |-> NoView, basket |-> 0, answer |-> NoPay]
Slots  == 1 .. MaxPresses
NoDeeds == [d \in Slots |-> NoDeed]
NoReq  == [phase |-> "idle", key |-> 0, method |-> "CASH", cart |-> 0, basket |-> 0,
           order |-> 0, answer |-> NoPay]

(* toPaymentView: the n-th payment of an order as it is read now.          *)
PaymentView(o, n) == [order |-> o, n |-> n, status |-> orders[o].pays[n]]

Attempts(o) == DOMAIN orders[o].pays
OpenOnes(o) == {n \in Attempts(o) : orders[o].pays[n] \in InFlight}

Pending(pay) == pay.status \in InFlight
Failed(pay)  == pay.status \in {"FAILED", "CANCELLED"}

Paying == req[Own].phase # "idle"

Init ==
  /\ app \in DOMAIN Methods
  /\ screen = IF app = "KIOSK" THEN "welcome" ELSE "basket"
  /\ cart = 0 /\ key = 1 /\ view = NoView
  /\ req = [r \in {Own, Stray} |-> NoReq]
  /\ gets = NoPay /\ deed = NoDeeds
  /\ orders = [o \in OrderIds |-> Absent]
  /\ lastValue = 0 /\ lock = Nobody /\ doomed = {}
  /\ faults = 0 /\ basket = 1 /\ spoiled = {} /\ overrun = FALSE

Fault == faults < MaxFaults[app] /\ faults' = faults + 1

-----------------------------------------------------------------------------
(***************************************************************************)
(* The customer.                                                           *)
(***************************************************************************)
Submitted == \E r \in {Own, Stray}, o \in OrderIds :
  \/ req[r].phase # "idle" /\ req[r].key = key
  \/ Exists(o) /\ orders[o].key[1] = key

Start ==
  /\ app = "KIOSK" /\ screen = "welcome"
  /\ screen' = "basket"
  /\ UNCHANGED <<app, cart, key, view, basket, spoiled, req, gets, deed, db, faults>>

(* cartReducer and its likes: lines are added, changed and removed.  Which *)
(* ones matters only after a submission, when the cart may differ from it. *)
Contents == {0, IF Submitted THEN 2 ELSE 1}

Edit(c) ==
  /\ screen = "basket"
  /\ c # cart
  /\ cart' = c
  /\ spoiled' = IF Submitted THEN spoiled \cup {basket} ELSE spoiled
  /\ UNCHANGED <<app, screen, key, view, basket, req, gets, deed, db, faults>>

(* The till has its pay buttons beside the cart.                           *)
ToCheckout ==
  /\ app # "POS" /\ screen = "basket" /\ cart # 0
  /\ screen' = "checkout"
  /\ UNCHANGED <<app, cart, key, view, basket, spoiled, req, gets, deed, db, faults>>

Back ==
  /\ screen = "checkout"
  /\ app = "KIOSK" => ~Paying
  /\ screen' = "basket"
  /\ UNCHANGED <<app, cart, key, view, basket, spoiled, req, gets, deed, db, faults>>

(* A page that is left drops the answer it waits for; the till stays where *)
(* it is.                                                                  *)
Left_Heard == UNCHANGED gets    \* faulty: the next screen is given the answer

Left == gets' = IF app = "POS" THEN gets ELSE NoPay

(* The tracking page of the last order is one tap away.                    *)
Track ==
  /\ app = "MOBILE" /\ view # NoView
  /\ \/ screen = "result" /\ screen' = "basket" /\ Left
     \/ screen = "basket" /\ screen' = "result" /\ UNCHANGED gets
  /\ UNCHANGED <<app, cart, key, view, basket, spoiled, req, deed, db, faults>>

(* reset: a new cart and a new key.                                        *)
NewKey_Kept == UNCHANGED key    \* faulty: the next customer submits under the same key

NewKey == key' = key + 1

NewBasket ==
  /\ basket' = basket + 1
  /\ NewKey
  /\ cart' = 0
  /\ UNCHANGED spoiled

FirstScreen == IF app = "KIOSK" THEN "welcome" ELSE "basket"

Reset == basket < MaxBaskets /\ NewBasket /\ view' = NoView /\ screen' = FirstScreen

(* The kiosk resets when nobody touches it, also while it waits for the    *)
(* server; the till from its cart or from the paid order.  The mobile page *)
(* has nothing left to reset: placeOrder did it.                           *)
StartOver ==
  /\ \/ app = "KIOSK" /\ screen # "welcome" /\ Reset
     \/ /\ app = "POS" /\ Reset
        /\ view = NoView \/ (view.mode = "CARD" /\ view.pay.status \in Captured)
     \/ /\ app = "MOBILE" /\ screen = "result"
        /\ screen' = "basket" /\ view' = NoView
        /\ UNCHANGED <<cart, key, basket, spoiled>>
  /\ Left
  /\ UNCHANGED <<app, req, deed, db, faults>>

(* The client forgets its submission, which is lost or goes on without it. *)
Abandon ==
  \/ /\ req[Own].phase \in {"sent", "back"}
     /\ req' = [req EXCEPT ![Own] = NoReq]
     /\ UNCHANGED lock
  \/ /\ req[Own].phase \notin {"idle", "back"}
     /\ req[Stray] = NoReq
     /\ req' = [req EXCEPT ![Own] = NoReq, ![Stray] = req[Own]]
     /\ lock' = IF lock = Own THEN Stray ELSE lock

(* The page is reloaded or the machine restarted; only the mobile page     *)
(* remembers its last order.  At the till the key F3 has the same effect:  *)
(* it leaves the tab and with it the order that is waiting for its card.   *)
Restart ==
  /\ Fault
  /\ basket < MaxBaskets
  /\ NewBasket
  /\ view' = IF app = "MOBILE" THEN view ELSE NoView
  /\ screen' = IF view' # NoView THEN "result" ELSE FirstScreen
  /\ \/ ~Paying /\ UNCHANGED <<req, lock>>
     \/ Abandon
  /\ gets' = NoPay /\ deed' = NoDeeds
  /\ UNCHANGED <<app, orders, lastValue, doomed, overrun>>

-----------------------------------------------------------------------------
(***************************************************************************)
(* placeOrder, place: the cart is sent under the key of the basket and the *)
(* method.  A button that waits cannot be pressed again; at the till the   *)
(* confirmation of cash shares the flag.                                   *)
(***************************************************************************)
Busy == Paying \/ \E d \in Slots : deed[d].kind = "confirm"

PlaceOrder(method) ==
  /\ ~Busy
  /\ cart # 0
  /\ screen = IF app = "POS" THEN "basket" ELSE "checkout"
  /\ basket < MaxBaskets \/ app # "MOBILE"
  /\ Cardinality(Unused) > (IF req[Stray] = NoReq THEN 0 ELSE 1)
  /\ req' = [req EXCEPT ![Own] = [NoReq EXCEPT !.phase = "sent", !.key = key,
                                               !.method = method, !.cart = cart,
                                               !.basket = basket]]
  /\ UNCHANGED <<app, ui, gets, deed, db, faults>>

Succeeds(r) == req[r].phase = "back" /\ req[r].order # 0

(* The answer is shown whenever it comes, to whoever stands there.  The    *)
(* kiosk's result screen takes its payment when it opens; one that is open *)
(* already shows the new order and goes on with the payment it has.        *)
OrderPlaced ==
  /\ Succeeds(Own)
  /\ LET q == req[Own]
         open == app = "KIOSK" /\ view # NoView
     IN  view' = [order |-> q.order, sent |-> q.cart, mode |-> q.method,
                  first |-> IF app = "KIOSK" THEN q.answer ELSE NoPay,
                  pay |-> IF open THEN view.pay ELSE q.answer, swapped |-> open]
  /\ screen' = "result"
  /\ req' = [req EXCEPT ![Own] = NoReq]
  /\ IF app = "MOBILE"
     THEN NewBasket
     ELSE UNCHANGED <<cart, key, basket, spoiled>>
  /\ UNCHANGED <<app, gets, deed, db, faults>>

PlacingFails ==
  /\ req[Own].phase = "back" /\ ~Succeeds(Own)
  /\ req' = [req EXCEPT ![Own] = NoReq]
  /\ UNCHANGED <<app, ui, gets, deed, db, faults>>

(* The request or its answer is lost, or the client stops waiting while    *)
(* the server goes on.                                                     *)
LosePlacing ==
  /\ Fault
  /\ Abandon
  /\ UNCHANGED <<app, ui, gets, deed, orders, lastValue, doomed, overrun>>

-----------------------------------------------------------------------------
(***************************************************************************)
(* createOrder and OrdersController.create.                                *)
(***************************************************************************)
Step(r, q) ==      \* nobody waits for the answer to a stray one
  req' = [req EXCEPT ![r] = IF r = Stray /\ q.phase = "back" THEN NoReq ELSE q]

(* The key is looked up before the transaction.  A replay has its payment  *)
(* already unless the server died in between.                              *)
NeedsPayment_New(q, o) == FALSE     \* faulty: only a new order is given its payment

NeedsPayment(q, o) ==
  /\ q.method # "CASH"
  /\ \A n \in Attempts(o) : orders[o].pays[n] = "CANCELLED"

Replay(q, o) ==
  IF NeedsPayment(q, o) THEN [q EXCEPT !.phase = "initiate", !.order = o]
  ELSE [q EXCEPT !.phase = "back", !.order = o,
                 !.answer = IF q.method = "CASH" \/ Attempts(o) = {} THEN NoPay
                            ELSE PaymentView(o, CHOOSE n \in Attempts(o) :
                                   /\ orders[o].pays[n] # "CANCELLED"
                                   /\ \A m \in 1 .. n - 1 : orders[o].pays[m] = "CANCELLED")]

LookUpKey(r) ==
  /\ req[r].phase = "sent"
  /\ LET q == req[r]
         known == WithKey(q.key, q.method)
     IN  IF known = {} THEN Step(r, [q EXCEPT !.phase = "new"])
         ELSE \E o \in known : Step(r, Replay(q, o))
  /\ UNCHANGED <<app, ui, gets, deed, db, faults>>

(* A product has been disabled or archived meanwhile, or the branch has.   *)
Refuse(r) ==
  /\ req[r].phase = "new"
  /\ Step(r, [req[r] EXCEPT !.phase = "back"])
  /\ UNCHANGED <<app, ui, gets, deed, db, faults>>

(* allocate: the row of the sequence is taken until the commit.            *)
Allocate(r) ==
  /\ req[r].phase = "new"
  /\ lock = Nobody
  /\ lock' = r
  /\ Step(r, [req[r] EXCEPT !.phase = "numbered"])
  /\ UNCHANGED <<app, ui, gets, deed, orders, lastValue, doomed, overrun, faults>>

(* order.create and the commit.  The key and the number are unique; a      *)
(* violation rolls the number back.                                        *)
Collides_ByNumber(q) ==                 \* faulty: the key is not unique
  \E o \in Known : orders[o].number = lastValue + 1

Collides(q) ==
  \/ WithKey(q.key, q.method) # {}
  \/ \E o \in Known : orders[o].number = lastValue + 1

Insert(r) ==
  /\ lock = r /\ req[r].phase = "numbered"
  /\ lock' = Nobody
  /\ LET q == req[r] IN
     IF Collides(q)
     THEN Step(r, [q EXCEPT !.phase = "back"]) /\ UNCHANGED <<orders, lastValue, overrun>>
     ELSE LET o == Min(Unused) IN
            /\ orders' = [orders EXCEPT ![o] =
                 [status |-> "AWAITING_PAYMENT", key |-> <<q.key, q.method>>,
                  number |-> lastValue + 1, cart |-> q.cart, basket |-> q.basket,
                  pays |-> <<>>, cash |-> FALSE]]
            /\ lastValue' = lastValue + 1
            /\ overrun' = (overrun \/ doomed # {})
            /\ Step(r, [q EXCEPT !.phase = IF q.method = "CASH" THEN "back" ELSE "initiate",
                                 !.order = o])
  /\ UNCHANGED <<app, ui, gets, deed, doomed, faults>>

(***************************************************************************)
(* PaymentsService.initiate.  The key of the first payment is made from    *)
(* the key of the order, every retry has a new one.                        *)
(***************************************************************************)
Awaiting(o) == Exists(o) /\ o \notin doomed /\ orders[o].status = "AWAITING_PAYMENT"

Initiated(o) == [orders EXCEPT ![o].pays = Append(@, "PENDING")]

InitiateFirst(r) ==
  /\ req[r].phase = "initiate"
  /\ LET q == req[r] o == q.order IN
     /\ o \notin doomed
     /\ IF ~Awaiting(o)
        THEN Step(r, [q EXCEPT !.phase = "back", !.order = 0]) /\ UNCHANGED orders
        ELSE IF Attempts(o) # {}
        THEN /\ Step(r, [q EXCEPT !.phase = "back", !.answer = PaymentView(o, 1)])
             /\ UNCHANGED orders
        ELSE /\ orders' = Initiated(o)
             /\ Step(r, [q EXCEPT !.phase = "back",
                                  !.answer = [order |-> o, n |-> 1, status |-> "PENDING"]])
  /\ UNCHANGED <<app, ui, gets, deed, lastValue, lock, doomed, overrun, faults>>

(* The server dies: the transaction is rolled back, the client sees an     *)
(* error, what has been committed stays.                                   *)
RolledBack_Held(r) == UNCHANGED lock    \* faulty: the row stays locked

RolledBack(r) == lock' = IF lock = r THEN Nobody ELSE lock

ServerDies(r) ==
  /\ Fault
  /\ req[r].phase \notin {"idle", "back"}
  /\ Step(r, [req[r] EXCEPT !.phase = "back", !.order = 0])
  /\ RolledBack(r)
  /\ UNCHANGED <<app, ui, gets, deed, orders, lastValue, doomed, overrun>>

-----------------------------------------------------------------------------
(***************************************************************************)
(* The result screen follows its payment: a poll, hastened by events.      *)
(***************************************************************************)
AskPayment_First ==         \* faulty: a retried payment is not followed
  /\ screen = "result" /\ Pending(view.pay) /\ view.pay.n = 1
  /\ gets = NoPay
  /\ gets' = [view.pay EXCEPT !.status = "asked"]
  /\ UNCHANGED <<app, ui, req, deed, db, faults>>

AskPayment ==
  /\ screen = "result" /\ Pending(view.pay)
  /\ gets = NoPay
  /\ gets' = [view.pay EXCEPT !.status = "asked"]
  /\ UNCHANGED <<app, ui, req, deed, db, faults>>

ReadPayment ==
  /\ gets.status = "asked"
  /\ gets' = IF Exists(gets.order) THEN PaymentView(gets.order, gets.n) ELSE NoPay
  /\ UNCHANGED <<app, ui, req, deed, db, faults>>

(* The kiosk and the till put it on the order they show, whichever that is *)
(* by now; the mobile page reads an order with its payment.                *)
Applies(read) == app = "MOBILE" => (screen = "result" /\ view.order = read.order)

PaymentRead ==
  /\ gets.status \notin {NoPayment, "asked"}
  /\ gets' = NoPay
  /\ view' = IF view # NoView /\ Applies(gets)
             THEN [view EXCEPT !.pay = gets] ELSE view
  /\ UNCHANGED <<app, screen, cart, key, basket, spoiled, req, deed, db, faults>>

LoseRead ==
  /\ Fault
  /\ gets # NoPay
  /\ gets' = NoPay
  /\ UNCHANGED <<app, ui, req, deed, db>>

(***************************************************************************)
(* The buttons of the result screen.  (The till's "check status" is not    *)
(* among them.)                                                            *)
(***************************************************************************)
Deeds ==
  CASE app = "KIOSK" -> IF Failed(view.pay) THEN {"retry"} ELSE {}
    [] app = "POS" ->
         IF view.mode = "CASH" THEN {"confirm", "cancel"}
         ELSE IF view.mode = "CARD" /\ Failed(view.pay) THEN {"retry"} ELSE {}
    [] app = "MOBILE" -> {}

(* The till waits for the confirmation of cash only.  The kiosk's screen   *)
(* waits for its own retry, not for that of a screen that is gone.         *)
Waits(kind) ==
  \/ kind = "confirm" /\ Busy
  \/ app = "KIOSK" /\ \E d \in Slots : deed[d].basket = basket

Press(kind) ==
  /\ screen = "result"
  /\ kind \in Deeds /\ ~Waits(kind)
  /\ \E d \in Slots :
       /\ deed[d] = NoDeed /\ \A e \in 1 .. d - 1 : deed[e] # NoDeed
       /\ deed' = [deed EXCEPT ![d] = [kind |-> kind, phase |-> "sent", at |-> view,
                                       basket |-> basket, answer |-> NoPay]]
       /\ IF d = 1 THEN UNCHANGED faults ELSE Fault
  /\ UNCHANGED <<app, ui, req, gets, db>>

(* After a failed card the customer may pay in cash instead.               *)
PayCashInstead ==
  /\ screen = "result" /\ Failed(view.pay)
  /\ app = "KIOSK" \/ view.mode = "CARD"
  /\ view' = [view EXCEPT !.pay = NoPay, !.mode = IF app = "POS" THEN "CASH" ELSE @]
  /\ UNCHANGED <<app, screen, cart, key, basket, spoiled, req, gets, deed, db, faults>>

(* What the server does; a press that comes too late changes nothing.      *)
Superseded(o) ==
  [n \in Attempts(o) |-> IF n \in OpenOnes(o) THEN "CANCELLED" ELSE orders[o].pays[n]]

ServeDeed(d) ==
  /\ deed[d].phase = "sent"
  /\ LET o == deed[d].at.order
         Answer(p) == deed' = [deed EXCEPT ![d].phase = "back", ![d].answer = p]
     IN /\ o \notin doomed
        /\ \/ /\ deed[d].kind = "retry" /\ Awaiting(o) /\ OpenOnes(o) = {}
              /\ Len(orders[o].pays) < MaxAttempts
              /\ orders' = Initiated(o)
              /\ Answer([order |-> o, n |-> Len(orders[o].pays) + 1, status |-> "PENDING"])
           \/ /\ deed[d].kind = "retry" /\ ~(Awaiting(o) /\ OpenOnes(o) = {})
              /\ Answer(NoPay) /\ UNCHANGED orders
           \/ /\ deed[d].kind = "confirm" /\ Awaiting(o)
              /\ orders' = [orders EXCEPT
                   ![o] = [@ EXCEPT !.status = "PAID", !.cash = TRUE,
                                    !.pays = Append(Superseded(o), "SUCCEEDED")]]
              /\ Answer([order |-> o, n |-> Len(orders[o].pays) + 1, status |-> "SUCCEEDED"])
           \/ /\ deed[d].kind = "confirm" /\ ~Awaiting(o)
              /\ Answer(IF Exists(o) /\ orders[o].cash THEN PaymentView(o, Len(orders[o].pays))
                        ELSE NoPay)
              /\ UNCHANGED orders
           \/ /\ deed[d].kind = "cancel"
              /\ orders' = IF ~Awaiting(o) THEN orders
                           ELSE [orders EXCEPT ![o].status = "CANCELLED",
                                               ![o].pays = Superseded(o)]
              /\ Answer(NoPay)
  /\ UNCHANGED <<app, ui, req, gets, lastValue, lock, doomed, overrun, faults>>

(* The till puts the answer on the order as it was when the button was     *)
(* pressed, and is ready for the next one after a payment or, whatever the *)
(* answer, a cancellation.  The kiosk goes back to the result it showed    *)
(* when the button was pressed.  Its result screen takes the payment of    *)
(* that result when it opens, and does not look at the new one; one that   *)
(* is open keeps the payment it has, also if the order was another's.      *)
DeedEnds(d) ==
  /\ deed[d].phase = "back"
  /\ deed' = [deed EXCEPT ![d] = NoDeed]
  /\ LET at == deed[d].at
         kind == deed[d].kind
         ok == deed[d].answer # NoPay
     IN \/ /\ app = "POS"
           /\ kind = "cancel" \/ (kind = "confirm" /\ ok)
           /\ Reset
        \/ /\ app = "POS" /\ kind = "retry" /\ ok
           /\ view' = [at EXCEPT !.pay = deed[d].answer, !.mode = view.mode]
           /\ screen' = "result"
           /\ UNCHANGED <<cart, key, basket, spoiled>>
        \/ /\ app = "KIOSK" /\ ok
           /\ view' = IF view = NoView
                      THEN [at EXCEPT !.pay = at.first, !.swapped = FALSE]
                      ELSE [at EXCEPT !.pay = view.pay,
                                      !.swapped = view.swapped \/ at.order # view.order]
           /\ screen' = "result"
           /\ UNCHANGED <<cart, key, basket, spoiled>>
        \/ /\ ~ok /\ kind # "cancel"
           /\ UNCHANGED ui
  /\ UNCHANGED <<app, req, gets, db, faults>>

LoseDeed(d) ==
  /\ Fault
  /\ deed[d] # NoDeed
  /\ deed' = [deed EXCEPT ![d].phase = "back", ![d].answer = NoPay]
  /\ UNCHANGED <<app, ui, req, gets, db>>

-----------------------------------------------------------------------------
(* The customer at the terminal (external).                                *)
BankDecides(o, n) ==
  /\ Exists(o) /\ o \notin doomed /\ n \in OpenOnes(o)
  /\ \/ orders' = [orders EXCEPT ![o] = [@ EXCEPT !.status = "PAID", !.pays[n] = "SUCCEEDED"]]
     \/ orders' = [orders EXCEPT ![o].pays[n] = "FAILED"]
  /\ UNCHANGED <<app, ui, req, gets, deed, lastValue, lock, doomed, overrun, faults>>

(***************************************************************************)
(* purgeOrders: one transaction that deletes first the orders it sees and  *)
(* then the number sequence.  The second statement waits for the row of    *)
(* the sequence; a row that is being inserted it does not see.             *)
(***************************************************************************)
Doomed_Unpaid == {o \in Known : orders[o].status # "PAID"}     \* faulty: keeps some

Doomed == Known

PurgeOrders ==
  /\ Fault
  /\ doomed = {} /\ Doomed # {}
  /\ doomed' = Doomed
  /\ UNCHANGED <<app, ui, req, gets, deed, orders, lastValue, lock, overrun>>

PurgeNumbers ==
  /\ doomed # {}
  /\ lock = Nobody \/ lastValue = 0
  /\ doomed' = {}
  /\ orders' = [o \in OrderIds |-> IF o \in doomed THEN Deleted ELSE orders[o]]
  /\ lastValue' = 0
  /\ UNCHANGED <<app, ui, req, gets, deed, lock, overrun, faults>>

(* deleteOrders, of one order.                                             *)
DeleteOrder(o) ==
  /\ Fault
  /\ Exists(o) /\ o \notin doomed
  /\ orders' = [orders EXCEPT ![o] = Deleted]
  /\ UNCHANGED <<app, ui, req, gets, deed, lastValue, lock, doomed, overrun>>

-----------------------------------------------------------------------------
Serve(r) == LookUpKey(r) \/ Allocate(r) \/ Insert(r) \/ InitiateFirst(r)

Next ==
  \/ Start \/ ToCheckout \/ Back \/ Track \/ StartOver \/ Restart
  \/ \E c \in Contents : Edit(c)
  \/ \E method \in Methods[app] : PlaceOrder(method)
  \/ OrderPlaced \/ PlacingFails \/ LosePlacing
  \/ \E r \in {Own, Stray} : Serve(r) \/ Refuse(r) \/ ServerDies(r)
  \/ AskPayment \/ ReadPayment \/ PaymentRead \/ LoseRead
  \/ \E kind \in Deeds : Press(kind)
  \/ PayCashInstead
  \/ \E d \in Slots : ServeDeed(d) \/ DeedEnds(d) \/ LoseDeed(d)
  \/ \E o \in OrderIds, n \in 1 .. MaxAttempts : BankDecides(o, n)
  \/ PurgeOrders \/ PurgeNumbers
  \/ \E o \in OrderIds : DeleteOrder(o)

(* The server serves, answers arrive or fail, the screen keeps polling.    *)
Fairness ==
  /\ \A r \in {Own, Stray} : WF_vars(Serve(r))
  /\ WF_vars(PurgeNumbers)
  /\ WF_vars(OrderPlaced \/ PlacingFails)
  /\ WF_vars(AskPayment) /\ WF_vars(ReadPayment \/ PaymentRead)

Spec == Init /\ [][Next]_vars /\ Fairness

-----------------------------------------------------------------------------
PayViews == [order : 0 .. MaxOrders, n : 0 .. MaxAttempts + 1,
             status : PaymentRecordStatus \cup {NoPayment, "asked"}]

TypeOK ==
  /\ app \in DOMAIN Methods
  /\ screen \in {"welcome", "basket", "checkout", "result"}
  /\ cart \in 0 .. 2 /\ basket \in 1 .. MaxBaskets /\ key \in 1 .. MaxBaskets
  /\ view.order \in 0 .. MaxOrders /\ view.pay \in PayViews /\ view.first \in PayViews
  /\ \A r \in {Own, Stray} :
       /\ req[r].phase \in {"idle", "sent", "new", "numbered", "initiate", "back"}
       /\ req[r].answer \in PayViews
  /\ gets \in PayViews
  /\ \A d \in Slots : /\ deed[d].kind \in {"none", "retry", "confirm", "cancel"}
                      /\ deed[d].answer \in PayViews
  /\ \A o \in Known : /\ orders[o].status \in {"AWAITING_PAYMENT", "PAID", "CANCELLED"}
                       /\ orders[o].number \in 1 .. MaxOrders
                       /\ Len(orders[o].pays) <= MaxAttempts + 1
  /\ lastValue \in 0 .. MaxOrders
  /\ lock \in {Own, Stray, Nobody} /\ (lock # Nobody => req[lock].phase = "numbered")
  /\ doomed \subseteq Known /\ spoiled \subseteq 1 .. MaxBaskets
  /\ faults \in 0 .. MaxFaults[app] /\ overrun \in BOOLEAN

(***************************************************************************)
(* A customer pays once.  Whatever is lost, timed out, pressed again or    *)
(* repeated after a crash, the submissions of one basket by one method     *)
(* lead to at most one captured payment.  (Choosing the other method after *)
(* a lost answer makes a second order: the method is part of the key.)     *)
(***************************************************************************)
ChargedOnce ==
  \A o, p \in Known : \A n \in Attempts(o), m \in Attempts(p) :
    (/\ orders[o].basket = orders[p].basket /\ orders[o].key[2] = orders[p].key[2]
     /\ orders[o].pays[n] = "SUCCEEDED" /\ orders[p].pays[m] = "SUCCEEDED")
      => (o = p /\ n = m)

(***************************************************************************)
(* An order that is answered as placed by card or online has a payment,    *)
(* also when the server died between the order and its payment and the     *)
(* client submitted again.                                                 *)
(***************************************************************************)
PlacedHasPayment ==
  (Succeeds(Own) /\ req[Own].method # "CASH" /\ Exists(req[Own].order))
    => Attempts(req[Own].order) # {}

(***************************************************************************)
(* The order on the screen is the cart that was submitted, for this        *)
(* customer and the next, unless the customer changed the cart after a     *)
(* submission whose answer was lost: the key still stands for the old one. *)
(***************************************************************************)
ShownIsWhatWasSent ==
  (Exists(view.order) /\ orders[view.order].basket \notin spoiled)
    => orders[view.order].cart = view.sent

(***************************************************************************)
(* A screen that says "paid" says so of a payment that is captured.  On    *)
(* the mobile page it is always a payment of the order shown, on the kiosk *)
(* unless the order was exchanged while its result screen was open; the    *)
(* till may show a late answer for its previous order.                     *)
(***************************************************************************)
PaidScreenIsPaid ==
  (view.pay.status = "SUCCEEDED" /\ Exists(view.pay.order))
    => /\ orders[view.pay.order].pays[view.pay.n] = "SUCCEEDED"
       /\ app # "POS" /\ ~view.swapped => view.pay.order = view.order

(***************************************************************************)
(* The kiosk prints the slip of an order as paid "after a successful card  *)
(* payment" (ResultScreen): the order on a screen that says "paid" has a   *)
(* captured payment.                                                       *)
(***************************************************************************)
PaidSlipIsPaid ==
  (app = "KIOSK" /\ view.pay.status = "SUCCEEDED" /\ Exists(view.order))
    => \E n \in Attempts(view.order) : orders[view.order].pays[n] = "SUCCEEDED"

(***************************************************************************)
(* Order numbers go on: the next number is free.  A purge that overlaps    *)
(* the creation of an order breaks it: the order survives, the sequence    *)
(* does not, and its number blocks every order that reaches it.            *)
(***************************************************************************)
NumberingGoesOn == overrun \/ \A o \in Known : orders[o].number <= lastValue

(***************************************************************************)
(* A decision of the terminal reaches the screen that waits for it.        *)
(***************************************************************************)
Undisplayed ==
  /\ screen = "result" /\ Pending(view.pay) /\ Exists(view.pay.order)
  /\ ~Pending(PaymentView(view.pay.order, view.pay.n))

DecisionReachesScreen == Undisplayed ~> ~Undisplayed

(***************************************************************************)
(* The pay buttons come back: no submission waits for ever.                *)
(***************************************************************************)
PlacingEnds == Paying ~> ~Paying
=============================================================================
