---------------------------- MODULE Storefront_proofs ----------------------------
(***************************************************************************)
(* Proofs about Storefront for every number of orders, attempts, customers *)
(* and faults.                                                             *)
(*                                                                         *)
(* The argument.  A table of orders only grows (Grows): an order that has  *)
(* been deleted does not return, its key, cart and number stay, and a      *)
(* payment that has succeeded stays.  So what a client, a submission or a  *)
(* press has learned of an order stays true however late it is used.       *)
(* What ties the clients to the table is the key: it is the customer's     *)
(* own, unique in the table, and all submissions under it carry one cart   *)
(* unless the customer changed it in between (OneCart).                    *)
(*                                                                         *)
(* The parts of the invariant are stated about any table of orders, any    *)
(* submission and any view, so that one lemma about two tables serves both *)
(* sides of a step.                                                        *)
(***************************************************************************)
EXTENDS Storefront, SequenceTheorems, FiniteSetTheorems, WellFoundedInduction, TLAPS

Clients   == {Own, Stray}
AnyMethod == {"CARD", "CASH", "ONLINE"}
Phases    == {"idle", "sent", "new", "numbered", "initiate", "back"}

AnyOrder ==
  [status : {"AWAITING_PAYMENT", "PAID", "CANCELLED"}, key : (1 .. MaxBaskets) \X AnyMethod,
   number : 1 .. MaxOrders, cart : 1 .. 2, basket : 1 .. MaxBaskets,
   pays : Seq(PaymentRecordStatus), cash : BOOLEAN]

Submission ==
  [phase : Phases, key : 0 .. MaxBaskets, method : AnyMethod, cart : 0 .. 2,
   basket : 0 .. MaxBaskets, order : 0 .. MaxOrders, answer : PayViews]

AnyView ==
  [order : 0 .. MaxOrders, sent : 0 .. 2, mode : AnyMethod \cup {"none"},
   first : PayViews, pay : PayViews, swapped : BOOLEAN]

AnyDeed ==
  [kind : {"none", "retry", "confirm", "cancel"}, phase : {"idle", "sent", "back"},
   at : AnyView, basket : 0 .. MaxBaskets, answer : PayViews]

Tables == [OrderIds -> AnyOrder \cup {Absent, Deleted}]

-----------------------------------------------------------------------------
(* An order of the table `os` that is there, and one that has been.        *)
Live(os, o) == o \in OrderIds /\ os[o] \notin {Absent, Deleted}
Met(os, o)  == o = 0 \/ (o \in OrderIds /\ os[o] # Absent)

(* At most one payment of an order is open or captured: while the order    *)
(* waits for its payment none is captured, afterwards none is open.        *)
Counts(status) == status \in InFlight \cup {"SUCCEEDED"}

OrderIsSound(x) ==
  /\ x.key[1] = x.basket
  /\ Len(x.pays) <= MaxAttempts + 1
  /\ x.status = "AWAITING_PAYMENT" =>
       /\ Len(x.pays) <= MaxAttempts
       /\ \A n \in DOMAIN x.pays : x.pays[n] # "SUCCEEDED"
  /\ x.status # "AWAITING_PAYMENT" => \A n \in DOMAIN x.pays : x.pays[n] \notin InFlight
  /\ \A n, m \in DOMAIN x.pays : Counts(x.pays[n]) /\ Counts(x.pays[m]) => n = m
  /\ x.cash => Len(x.pays) > 0

TableIsSound(os) ==
  /\ os \in Tables
  /\ \A o \in OrderIds : Live(os, o) => OrderIsSound(os[o])
  /\ \A o, p \in OrderIds : Live(os, o) /\ Live(os, p) /\ os[o].key = os[p].key => o = p

(* What somebody has read of a payment.                                    *)
PayIsTrue(os, p) ==
  /\ Met(os, p.order)
  /\ Live(os, p.order) =>
       /\ p.n \in DOMAIN os[p.order].pays
       /\ p.status = "SUCCEEDED" => os[p.order].pays[p.n] = "SUCCEEDED"

(* What a client shows of an order; `sp` are the spoiled baskets.          *)
ViewIsTrue(os, sp, v) ==
  /\ Met(os, v.order)
  /\ PayIsTrue(os, v.pay) /\ PayIsTrue(os, v.first)
  /\ Live(os, v.order) /\ os[v.order].basket \notin sp => os[v.order].cart = v.sent

ViewIsItsOwn(a, v) ==
  /\ a # "POS" => /\ v.first # NoPay => v.first.order = v.order
                  /\ v.pay # NoPay /\ ~v.swapped => v.pay.order = v.order
  /\ a = "KIOSK" /\ v.pay # NoPay => v.order # 0

(* What the kiosk reads is for the screen that asked for it.               *)
ReadIsItsOwn(a, v, g) ==
  a = "KIOSK" /\ g # NoPay => v.order # 0 /\ (~v.swapped => g.order = v.order)

(* The presses that are being served carry the view they were made at.     *)
DeedsAreTrue(os, sp, a, dd) ==
  \A d \in Slots : /\ ViewIsTrue(os, sp, dd[d].at) /\ ViewIsItsOwn(a, dd[d].at)
                   /\ PayIsTrue(os, dd[d].answer)
                   /\ dd[d].answer # NoPay => dd[d].at.order # 0


(* What a submission carries.                                              *)
SubmissionIsSound(os, q) ==
  /\ q.phase # "idle" => q.key = q.basket /\ q.key > 0 /\ q.cart > 0
  /\ q.phase \in {"sent", "new", "numbered"} => q.order = 0
  /\ q.phase = "initiate" => q.order # 0 /\ q.method # "CASH"
  /\ q.phase # "back" => q.answer = NoPay
  /\ Met(os, q.order)
  /\ PayIsTrue(os, q.answer)
  /\ q.answer # NoPay => q.answer.order = q.order
  /\ Live(os, q.order) => os[q.order].key = <<q.key, q.method>>
  /\ q.phase = "back" /\ q.method # "CASH" /\ Live(os, q.order) => DOMAIN os[q.order].pays # {}

(* The carts that were submitted, each with its customer: under way, and   *)
(* in the table.                                                           *)
Sent(os, rq) ==
  {<<rq[r].basket, rq[r].cart>> : r \in {x \in Clients : rq[x].phase # "idle"}}
    \cup {<<os[o].basket, os[o].cart>> : o \in {x \in OrderIds : Live(os, x)}}

OneCart(sent, sp, b, c) ==
  /\ \A x, y \in sent : x[1] = y[1] /\ x[1] \notin sp => x[2] = y[2]
  /\ \A x \in sent : x[1] = b /\ b \notin sp => x[2] = c
  /\ \A x \in sent : x[1] <= b

(* The orders are created one after the other, and there is one for every  *)
(* submission that may still create one.                                   *)
Creating == {"sent", "new", "numbered"}
Creators(rq) == {r \in Clients : rq[r].phase \in Creating}

Room(os, rq, last) ==
  \E k \in 0 .. MaxOrders :
    /\ \A o \in OrderIds : os[o] = Absent <=> o > k
    /\ \A r \in Clients : r \in Creators(rq) => k + 1 <= MaxOrders
    /\ Creators(rq) = Clients => k + 2 <= MaxOrders
    /\ last <= k

Numbering(os, last, over) == over \/ \A o \in OrderIds : Live(os, o) => os[o].number <= last

PurgeSeesAll(os, dm, over) ==
  /\ \A o \in dm : Live(os, o)
  /\ dm # {} => over \/ \A o \in OrderIds : Live(os, o) => o \in dm

Typed ==
  /\ app \in DOMAIN Methods
  /\ screen \in {"welcome", "basket", "checkout", "result"}
  /\ cart \in 0 .. 2 /\ basket \in 1 .. MaxBaskets /\ key = basket
  /\ view \in AnyView
  /\ req \in [Clients -> Submission]
  /\ gets \in PayViews
  /\ deed \in [Slots -> AnyDeed]
  /\ lastValue \in 0 .. MaxOrders
  /\ lock \in Clients \cup {Nobody}
  /\ lock # Nobody => req[lock].phase = "numbered"
  /\ doomed \subseteq OrderIds
  /\ spoiled \subseteq 1 .. MaxBaskets
  /\ faults \in 0 .. MaxFaults[app]
  /\ overrun \in BOOLEAN
  /\ app = "MOBILE" /\ req[Own].phase # "idle" => basket < MaxBaskets

Client ==
  /\ ViewIsTrue(orders, spoiled, view) /\ ViewIsItsOwn(app, view)
  /\ DeedsAreTrue(orders, spoiled, app, deed)
  /\ PayIsTrue(orders, gets) /\ ReadIsItsOwn(app, view, gets)

Server ==
  /\ TableIsSound(orders)
  /\ Room(orders, req, lastValue)
  /\ Numbering(orders, lastValue, overrun)
  /\ PurgeSeesAll(orders, doomed, overrun)

Submissions ==
  /\ \A r \in Clients : SubmissionIsSound(orders, req[r])
  /\ OneCart(Sent(orders, req), spoiled, basket, cart)

IInv == Typed /\ Client /\ Server /\ Submissions

(* No step takes back what a table says.                                   *)
Grows(os, ot) ==
  \A o \in OrderIds : os[o] # Absent =>
    /\ ot[o] # Absent
    /\ Live(ot, o) =>
         /\ Live(os, o)
         /\ ot[o].key = os[o].key /\ ot[o].number = os[o].number
         /\ ot[o].cart = os[o].cart /\ ot[o].basket = os[o].basket
         /\ DOMAIN os[o].pays \subseteq DOMAIN ot[o].pays
         /\ \A n \in DOMAIN os[o].pays :
              os[o].pays[n] = "SUCCEEDED" => ot[o].pays[n] = "SUCCEEDED"

-----------------------------------------------------------------------------
(* The bounds are positive numbers.                                        *)
LEMMA Numbers == /\ MaxOrders \in Nat \ {0} /\ MaxAttempts \in Nat \ {0}
                 /\ MaxBaskets \in Nat \ {0} /\ MaxPresses \in Nat \ {0}
                 /\ MaxFaults \in [DOMAIN Methods -> Nat]
  BY BoundsAssumption

(* The values that stand for nothing have their types.                     *)
LEMMA BlankTypes == NoPay \in PayViews /\ NoView \in AnyView /\ NoReq \in Submission
                    /\ NoDeed \in AnyDeed /\ NoDeeds \in [Slots -> AnyDeed]
<1>1. NoPay \in PayViews
  BY Numbers DEF NoPay, PayViews
<1>. QED
  BY <1>1, Numbers DEF NoView, AnyView, NoReq, Submission, Phases, AnyMethod, NoDeed, AnyDeed,
                       NoDeeds

(* ... and say nothing of any order.                                       *)
LEMMA Blank ==
  ASSUME NEW os
  PROVE  /\ Met(os, 0) /\ ~Live(os, 0)
         /\ PayIsTrue(os, NoPay)
         /\ \A sp : ViewIsTrue(os, sp, NoView)
         /\ \A a : ViewIsItsOwn(a, NoView) /\ \A v : ReadIsItsOwn(a, v, NoPay)
         /\ \A a, sp : DeedsAreTrue(os, sp, a, NoDeeds)
         /\ SubmissionIsSound(os, NoReq)
<1>1. Met(os, 0) /\ ~Live(os, 0)
  BY Numbers DEF Met, Live, OrderIds
<1>2. PayIsTrue(os, NoPay)
  BY <1>1 DEF PayIsTrue, NoPay
<1>3. \A sp : ViewIsTrue(os, sp, NoView)
  BY <1>1, <1>2 DEF ViewIsTrue, NoView
<1>4. \A a : ViewIsItsOwn(a, NoView) /\ \A v : ReadIsItsOwn(a, v, NoPay)
  BY DEF ViewIsItsOwn, ReadIsItsOwn, NoView
<1>5. SubmissionIsSound(os, NoReq)
  BY <1>1, <1>2 DEF SubmissionIsSound, NoReq, NoPay, NoPayment
<1>6. \A a, sp : DeedsAreTrue(os, sp, a, NoDeeds)
  BY <1>2, <1>3, <1>4 DEF DeedsAreTrue, NoDeeds, NoDeed
<1>. QED BY <1>1, <1>2, <1>3, <1>4, <1>5, <1>6

(* An order that was met is met in the grown table, where it is what it was. *)
LEMMA StillThere ==
  ASSUME NEW os, NEW ot, Grows(os, ot), NEW o, Met(os, o)
  PROVE  /\ Met(ot, o)
         /\ Live(ot, o) =>
              /\ Live(os, o)
              /\ ot[o].key = os[o].key /\ ot[o].number = os[o].number
              /\ ot[o].cart = os[o].cart /\ ot[o].basket = os[o].basket
              /\ DOMAIN os[o].pays \subseteq DOMAIN ot[o].pays
              /\ \A n \in DOMAIN os[o].pays :
                   os[o].pays[n] = "SUCCEEDED" => ot[o].pays[n] = "SUCCEEDED"
<1>1. CASE o = 0
  BY <1>1, Blank DEF Met
<1>2. CASE o \in OrderIds /\ os[o] # Absent
  BY <1>2 DEF Grows, Met
<1>. QED BY <1>1, <1>2 DEF Met

(* What was true of a table stays true when it grows.                      *)
LEMMA PaysStayTrue ==
  ASSUME NEW os, NEW ot, Grows(os, ot), NEW p, PayIsTrue(os, p)
  PROVE  PayIsTrue(ot, p)
<1>1. Met(os, p.order)
  BY DEF PayIsTrue
<1>. QED BY <1>1, StillThere DEF PayIsTrue

(* ... of a view ...                                                       *)
LEMMA ViewsStayTrue ==
  ASSUME NEW os, NEW ot, Grows(os, ot), NEW v, NEW sp, ViewIsTrue(os, sp, v)
  PROVE  ViewIsTrue(ot, sp, v)
<1>1. PayIsTrue(ot, v.pay) /\ PayIsTrue(ot, v.first)
  BY PaysStayTrue DEF ViewIsTrue
<1>2. Met(os, v.order)
  BY DEF ViewIsTrue
<1>. QED BY <1>1, <1>2, StillThere DEF ViewIsTrue

(* ... of the presses ...                                                  *)
LEMMA DeedsStayTrue ==
  ASSUME NEW os, NEW ot, Grows(os, ot), NEW sp, NEW a, NEW dd, DeedsAreTrue(os, sp, a, dd)
  PROVE  DeedsAreTrue(ot, sp, a, dd)
  BY ViewsStayTrue, PaysStayTrue DEF DeedsAreTrue

(* ... and of a submission.                                                *)
LEMMA SubmissionsStaySound ==
  ASSUME NEW os, NEW ot, Grows(os, ot), NEW q, SubmissionIsSound(os, q)
  PROVE  SubmissionIsSound(ot, q)
<1>1. PayIsTrue(ot, q.answer)
  BY PaysStayTrue DEF SubmissionIsSound
<1>2. Met(os, q.order)
  BY DEF SubmissionIsSound
<1>3. Met(ot, q.order)
  BY <1>2, StillThere
<1>4. Live(ot, q.order) => /\ Live(os, q.order) /\ ot[q.order].key = os[q.order].key
                           /\ DOMAIN os[q.order].pays \subseteq DOMAIN ot[q.order].pays
  BY <1>2, StillThere
<1>. QED BY <1>1, <1>3, <1>4 DEF SubmissionIsSound

(* Spoiling more baskets asks less of a view.                              *)
LEMMA ViewOfMore ==
  ASSUME NEW os, NEW v, NEW sp, ViewIsTrue(os, sp, v), NEW sq, sp \subseteq sq
  PROVE  ViewIsTrue(os, sq, v)
  BY DEF ViewIsTrue

LEMMA DeedsOfMore ==
  ASSUME NEW os, NEW sp, NEW a, NEW dd, DeedsAreTrue(os, sp, a, dd), NEW sq, sp \subseteq sq
  PROVE  DeedsAreTrue(os, sq, a, dd)
  BY ViewOfMore DEF DeedsAreTrue

(* One press is made, answered or done with.                               *)
LEMMA OneDeed ==
  ASSUME NEW os, NEW sp, NEW a, NEW dd \in [Slots -> AnyDeed], DeedsAreTrue(os, sp, a, dd),
         NEW d \in Slots, NEW x \in AnyDeed, ViewIsTrue(os, sp, x.at), ViewIsItsOwn(a, x.at),
         PayIsTrue(os, x.answer), x.answer # NoPay => x.at.order # 0
  PROVE  /\ [dd EXCEPT ![d] = x] \in [Slots -> AnyDeed]
         /\ DeedsAreTrue(os, sp, a, [dd EXCEPT ![d] = x])
<1>. DEFINE de == [dd EXCEPT ![d] = x]
<1>1. \A e \in Slots : de[e] = IF e = d THEN x ELSE dd[e]
  OBVIOUS
<1>2. DeedsAreTrue(os, sp, a, de)
  BY <1>1 DEF DeedsAreTrue
<1>. QED BY <1>2

(* The carts that were submitted: fewer of them, a change of cart that     *)
(* spoils the basket if it has been submitted, a new customer.             *)
LEMMA FewerSent ==
  ASSUME NEW s, NEW t \in SUBSET s, NEW sp, NEW b, NEW c, OneCart(s, sp, b, c)
  PROVE  OneCart(t, sp, b, c)
  BY DEF OneCart

(* A changed cart: the basket is spoiled, unless it was never submitted.   *)
LEMMA CartEdited ==
  ASSUME NEW s, NEW sp, NEW b, NEW c, NEW d, OneCart(s, sp, b, c)
  PROVE  /\ OneCart(s, sp \cup {b}, b, d)
         /\ (\A x \in s : x[1] # b) => OneCart(s, sp, b, d)
  BY DEF OneCart

(* The next customer has submitted nothing.                                *)
LEMMA NextCustomer ==
  ASSUME NEW s \in SUBSET (Nat \X Nat), NEW sp, NEW b \in Nat, NEW c, OneCart(s, sp, b, c)
  PROVE  OneCart(s, sp, b + 1, 0)
<1>1. \A x \in s : x[1] \in Nat /\ x[1] <= b
  BY DEF OneCart
<1>. QED
  BY <1>1 DEF OneCart

(* The cart of the customer who stands there is submitted.                 *)
LEMMA CartSubmitted ==
  ASSUME NEW s, NEW sp, NEW b \in Nat, NEW c, OneCart(s, sp, b, c)
  PROVE  OneCart(s \cup {<<b, c>>}, sp, b, c)
  BY DEF OneCart

-----------------------------------------------------------------------------
(* An order is not mistaken for none.                                      *)
LEMMA OrderIsThere ==
  /\ Absent # Deleted
  /\ \A x \in AnyOrder : x # Absent /\ x # Deleted
<1>1. Absent # Deleted
  <2>1. Absent.status # Deleted.status
    BY DEF Absent, Deleted
  <2>. QED BY <2>1
<1>2. ASSUME NEW x \in AnyOrder PROVE x # Absent /\ x # Deleted
  <2>1. x.status # Absent.status /\ x.status # Deleted.status
    BY DEF AnyOrder, Absent, Deleted
  <2>. QED BY <2>1
<1>. QED BY <1>1, <1>2

(* One order moves on: what it is stays, its payments grow.                *)
Advances(x, y) ==
  /\ y \in AnyOrder /\ OrderIsSound(y)
  /\ y.key = x.key /\ y.number = x.number /\ y.cart = x.cart /\ y.basket = x.basket
  /\ DOMAIN x.pays \subseteq DOMAIN y.pays
  /\ \A n \in DOMAIN x.pays : x.pays[n] = "SUCCEEDED" => y.pays[n] = "SUCCEEDED"

(* A table moves on without a new order.                                   *)
Follows(os, ot) ==
  /\ TableIsSound(ot)
  /\ Grows(os, ot)
  /\ \A o \in OrderIds : ot[o] = Absent <=> os[o] = Absent

(* If one order advances the table follows.                                *)
LEMMA OneAdvances ==
  ASSUME NEW os, TableIsSound(os), NEW o, Live(os, o), NEW y, Advances(os[o], y)
  PROVE  /\ Follows(os, [os EXCEPT ![o] = y])
         /\ \A p : Live(os, p) => Live([os EXCEPT ![o] = y], p)
<1>. DEFINE ot == [os EXCEPT ![o] = y]
<1>1. os \in Tables /\ o \in OrderIds /\ os[o] \in AnyOrder /\ y \in AnyOrder
  BY DEF TableIsSound, Live, Tables, Advances
<1>2. ot \in Tables /\ ot[o] = y /\ \A p \in OrderIds \ {o} : ot[p] = os[p]
  BY <1>1 DEF Tables
<1>3. y # Absent /\ y # Deleted /\ os[o] # Absent
  BY <1>1, OrderIsThere
<1>. HIDE DEF ot
<1>4. \A p : Live(ot, p) <=> Live(os, p)
  BY <1>1, <1>2, <1>3 DEF Live
<1>5. Grows(os, ot)
  BY <1>2, <1>3, <1>4 DEF Grows, Advances
<1>6. TableIsSound(ot)
  <2>1. \A p \in OrderIds : Live(ot, p) => OrderIsSound(ot[p])
    BY <1>2, <1>4 DEF TableIsSound, Advances
  <2>2. \A p \in OrderIds : Live(ot, p) => ot[p].key = os[p].key
    BY <1>2, <1>4 DEF Advances
  <2>. QED BY <1>2, <1>4, <2>1, <2>2 DEF TableIsSound
<1>7. \A p \in OrderIds : ot[p] = Absent <=> os[p] = Absent
  BY <1>2, <1>3
<1>. QED BY <1>4, <1>5, <1>6, <1>7 DEF Follows, ot

(* Orders are deleted.                                                     *)
LEMMA SomeDeleted ==
  ASSUME NEW os, TableIsSound(os), NEW D, \A o \in D : Live(os, o),
         NEW ot, ot = [o \in OrderIds |-> IF o \in D THEN Deleted ELSE os[o]]
  PROVE  /\ Follows(os, ot)
         /\ \A p : Live(os, p) /\ p \notin D => Live(ot, p)
         /\ \A p \in D : ~Live(ot, p)
<1>1. ot \in Tables
  BY DEF Tables, TableIsSound
<1>2. \A p \in OrderIds : ot[p] = IF p \in D THEN Deleted ELSE os[p]
  OBVIOUS
<1>3. \A p : Live(ot, p) <=> Live(os, p) /\ p \notin D
  BY <1>2 DEF Live
<1>4. Grows(os, ot)
  BY <1>2, <1>3, OrderIsThere DEF Grows
<1>5. TableIsSound(ot)
  BY <1>1, <1>2, <1>3 DEF TableIsSound
<1>6. \A p \in OrderIds : ot[p] = Absent <=> os[p] = Absent
  BY <1>2, OrderIsThere DEF Live
<1>. QED BY <1>3, <1>4, <1>5, <1>6 DEF Follows

(* What such a table leaves as it is.                                      *)
LEMMA FollowsKeeps ==
  ASSUME NEW os, NEW ot, Follows(os, ot), TableIsSound(os), NEW rq
  PROVE  /\ Sent(ot, rq) \subseteq Sent(os, rq)
         /\ \A last : Room(os, rq, last) => Room(ot, rq, last)
         /\ \A last, over : Numbering(os, last, over) => Numbering(ot, last, over)
         /\ \A o : Live(ot, o) => Live(os, o)
<1>1. \A o \in OrderIds : Live(ot, o) => /\ Live(os, o)
                                          /\ ot[o].number = os[o].number
                                          /\ ot[o].cart = os[o].cart
                                          /\ ot[o].basket = os[o].basket
  BY DEF Follows, Grows, Live
<1>2. Sent(ot, rq) \subseteq Sent(os, rq)
  BY <1>1 DEF Sent
<1>3. \A last : Room(os, rq, last) => Room(ot, rq, last)
  BY DEF Room, Follows
<1>4. \A last, over : Numbering(os, last, over) => Numbering(ot, last, over)
  BY <1>1 DEF Numbering
<1>5. \A o : Live(ot, o) => o \in OrderIds
  BY DEF Live
<1>. QED BY <1>1, <1>2, <1>3, <1>4, <1>5

-----------------------------------------------------------------------------
(* The payments of an order are numbered from one.                         *)
LEMMA Payments ==
  ASSUME NEW x \in AnyOrder
  PROVE  /\ x.pays \in Seq(PaymentRecordStatus)
         /\ Len(x.pays) \in Nat /\ DOMAIN x.pays = 1 .. Len(x.pays)
         /\ \A n \in DOMAIN x.pays : x.pays[n] \in PaymentRecordStatus
  BY DEF AnyOrder

(* One more payment.                                                       *)
LEMMA OneMore ==
  ASSUME NEW s \in Seq(PaymentRecordStatus), NEW e \in PaymentRecordStatus
  PROVE  /\ Append(s, e) \in Seq(PaymentRecordStatus)
         /\ Len(Append(s, e)) = Len(s) + 1
         /\ DOMAIN Append(s, e) = 1 .. Len(s) + 1
         /\ \A n \in 1 .. Len(s) : Append(s, e)[n] = s[n]
         /\ Append(s, e)[Len(s) + 1] = e
  OBVIOUS

(* The payments as they are once the open ones are given up.               *)
GivenUp(s) == [n \in DOMAIN s |-> IF s[n] \in InFlight THEN "CANCELLED" ELSE s[n]]

(* Giving up keeps the payments in number and the captured ones captured.  *)
LEMMA GivenUpIsSeq ==
  ASSUME NEW s \in Seq(PaymentRecordStatus)
  PROVE  /\ GivenUp(s) \in Seq(PaymentRecordStatus)
         /\ Len(GivenUp(s)) = Len(s)
         /\ DOMAIN GivenUp(s) = 1 .. Len(s)
         /\ \A n \in 1 .. Len(s) : /\ GivenUp(s)[n] \notin InFlight
                                   /\ s[n] = "SUCCEEDED" <=> GivenUp(s)[n] = "SUCCEEDED"
<1>1. Len(s) \in Nat /\ DOMAIN s = 1 .. Len(s) /\ \A n \in 1 .. Len(s) : s[n] \in PaymentRecordStatus
  OBVIOUS
<1>2. GivenUp(s) \in [1 .. Len(s) -> PaymentRecordStatus]
  BY <1>1 DEF GivenUp, PaymentRecordStatus
<1>3. GivenUp(s) \in Seq(PaymentRecordStatus) /\ Len(GivenUp(s)) = Len(s)
  BY <1>1, <1>2
<1>. QED BY <1>1, <1>2, <1>3 DEF GivenUp, InFlight

(* initiate: a pending payment more.                                       *)
LEMMA AttemptAdvances ==
  ASSUME NEW x \in AnyOrder, OrderIsSound(x), x.status = "AWAITING_PAYMENT",
         \A n \in DOMAIN x.pays : x.pays[n] \notin InFlight,
         Len(x.pays) < MaxAttempts,
         NEW y, y = [x EXCEPT !.pays = Append(@, "PENDING")]
  PROVE  /\ Advances(x, y)
         /\ DOMAIN y.pays = 1 .. Len(x.pays) + 1
<1>. DEFINE s == x.pays
<1>1. s \in Seq(PaymentRecordStatus) /\ Len(s) \in Nat /\ DOMAIN s = 1 .. Len(s)
  BY Payments
<1>2. y \in AnyOrder
  BY <1>1, OneMore DEF AnyOrder, PaymentRecordStatus
<1>3. /\ y.pays = Append(s, "PENDING") /\ y.status = x.status /\ y.cash = x.cash
      /\ y.key = x.key /\ y.number = x.number /\ y.cart = x.cart /\ y.basket = x.basket
  BY DEF AnyOrder
<1>4. /\ Len(y.pays) = Len(s) + 1
      /\ DOMAIN y.pays = 1 .. Len(s) + 1
      /\ \A n \in 1 .. Len(s) : y.pays[n] = s[n]
      /\ y.pays[Len(s) + 1] = "PENDING"
  BY <1>1, <1>3, OneMore DEF PaymentRecordStatus
<1>5. \A n \in 1 .. Len(s) : ~Counts(s[n])
  BY <1>1 DEF OrderIsSound, Counts
<1>6. OrderIsSound(y)
  <2>1. \A n \in 1 .. Len(s) + 1 : Counts(y.pays[n]) => n = Len(s) + 1
    BY <1>1, <1>4, <1>5
  <2>2. \A n \in 1 .. Len(s) + 1 : y.pays[n] # "SUCCEEDED"
    BY <1>1, <1>4, <1>5 DEF Counts
  <2>. QED BY <1>1, <1>3, <1>4, <2>1, <2>2, Numbers DEF OrderIsSound
<1>. QED BY <1>1, <1>2, <1>3, <1>4, <1>6 DEF Advances

(* confirmCash: the open payment is given up, a paid one added.            *)
LEMMA CashAdvances ==
  ASSUME NEW x \in AnyOrder, OrderIsSound(x), x.status = "AWAITING_PAYMENT",
         NEW y, y = [x EXCEPT !.status = "PAID", !.cash = TRUE,
                              !.pays = Append(GivenUp(x.pays), "SUCCEEDED")]
  PROVE  /\ Advances(x, y)
         /\ Len(x.pays) + 1 \in DOMAIN y.pays /\ y.pays[Len(x.pays) + 1] = "SUCCEEDED"
<1>. DEFINE s == x.pays
            g == GivenUp(s)
<1>1. s \in Seq(PaymentRecordStatus) /\ Len(s) \in Nat /\ DOMAIN s = 1 .. Len(s)
  BY Payments
<1>2. /\ g \in Seq(PaymentRecordStatus) /\ Len(g) = Len(s)
      /\ \A n \in 1 .. Len(s) : g[n] \notin InFlight /\ (s[n] = "SUCCEEDED" <=> g[n] = "SUCCEEDED")
  BY <1>1, GivenUpIsSeq
<1>. HIDE DEF g
<1>3. Append(g, "SUCCEEDED") \in Seq(PaymentRecordStatus)
  BY <1>2, OneMore DEF PaymentRecordStatus
<1>4. /\ y.pays = Append(g, "SUCCEEDED") /\ y.status = "PAID" /\ y.cash = TRUE
      /\ y.key = x.key /\ y.number = x.number /\ y.cart = x.cart /\ y.basket = x.basket
  BY DEF AnyOrder, g
<1>5. y \in AnyOrder
  BY <1>3 DEF AnyOrder, g
<1>6. /\ Len(y.pays) = Len(s) + 1
      /\ DOMAIN y.pays = 1 .. Len(s) + 1
      /\ \A n \in 1 .. Len(s) : y.pays[n] = g[n]
      /\ y.pays[Len(s) + 1] = "SUCCEEDED"
  BY <1>1, <1>2, <1>4, OneMore DEF PaymentRecordStatus
<1>7. \A n \in 1 .. Len(s) : s[n] # "SUCCEEDED" /\ ~Counts(g[n])
  BY <1>1, <1>2 DEF OrderIsSound, Counts
<1>8. OrderIsSound(y)
  <2>1. \A n \in 1 .. Len(s) + 1 : Counts(y.pays[n]) => n = Len(s) + 1
    BY <1>1, <1>6, <1>7
  <2>2. \A n \in 1 .. Len(s) + 1 : y.pays[n] \notin InFlight
    BY <1>1, <1>2, <1>6 DEF InFlight
  <2>3. Len(s) <= MaxAttempts
    BY DEF OrderIsSound
  <2>. QED BY <1>1, <1>4, <1>6, <2>1, <2>2, <2>3, Numbers DEF OrderIsSound
<1>. QED BY <1>1, <1>4, <1>5, <1>6, <1>7, <1>8 DEF Advances

(* cancel: the open payment is given up.                                   *)
LEMMA CancelAdvances ==
  ASSUME NEW x \in AnyOrder, OrderIsSound(x), x.status = "AWAITING_PAYMENT",
         NEW y, y = [x EXCEPT !.status = "CANCELLED", !.pays = GivenUp(x.pays)]
  PROVE  Advances(x, y)
<1>. DEFINE s == x.pays
            g == GivenUp(s)
<1>1. s \in Seq(PaymentRecordStatus) /\ Len(s) \in Nat /\ DOMAIN s = 1 .. Len(s)
  BY Payments
<1>2. /\ g \in Seq(PaymentRecordStatus) /\ Len(g) = Len(s) /\ DOMAIN g = 1 .. Len(s)
      /\ \A n \in 1 .. Len(s) : g[n] \notin InFlight /\ (s[n] = "SUCCEEDED" <=> g[n] = "SUCCEEDED")
  BY <1>1, GivenUpIsSeq
<1>. HIDE DEF g
<1>3. /\ y.pays = g /\ y.status = "CANCELLED" /\ y.cash = x.cash
      /\ y.key = x.key /\ y.number = x.number /\ y.cart = x.cart /\ y.basket = x.basket
  BY DEF AnyOrder, g
<1>4. y \in AnyOrder
  BY <1>2 DEF AnyOrder, g
<1>5. \A n \in 1 .. Len(s) : s[n] # "SUCCEEDED" /\ ~Counts(g[n])
  BY <1>1, <1>2 DEF OrderIsSound, Counts
<1>6. OrderIsSound(y)
  BY <1>1, <1>2, <1>3, <1>5, Numbers DEF OrderIsSound
<1>. QED BY <1>1, <1>2, <1>3, <1>4, <1>5, <1>6 DEF Advances

(* The terminal decides.                                                   *)
LEMMA DecisionAdvances ==
  ASSUME NEW x \in AnyOrder, OrderIsSound(x),
         NEW n \in DOMAIN x.pays, x.pays[n] \in InFlight,
         NEW y, \/ y = [x EXCEPT !.status = "PAID", !.pays[n] = "SUCCEEDED"]
                \/ y = [x EXCEPT !.pays[n] = "FAILED"]
  PROVE  Advances(x, y)
<1>. DEFINE s == x.pays
<1>1. s \in Seq(PaymentRecordStatus) /\ Len(s) \in Nat /\ DOMAIN s = 1 .. Len(s)
  BY Payments
<1>2. PICK e \in {"SUCCEEDED", "FAILED"} :
        /\ y.pays = [s EXCEPT ![n] = e]
        /\ e = "SUCCEEDED" => y = [x EXCEPT !.status = "PAID", !.pays = [s EXCEPT ![n] = e]]
        /\ e = "FAILED" => y = [x EXCEPT !.pays = [s EXCEPT ![n] = e]]
  BY DEF AnyOrder
<1>3. /\ y.pays \in Seq(PaymentRecordStatus) /\ Len(y.pays) = Len(s) /\ DOMAIN y.pays = 1 .. Len(s)
      /\ y.pays[n] = e /\ \A m \in 1 .. Len(s) \ {n} : y.pays[m] = s[m]
  <2>1. e \in PaymentRecordStatus
    BY DEF PaymentRecordStatus
  <2>. QED BY <1>1, <1>2, <2>1, ExceptSeq
<1>4. /\ y \in AnyOrder /\ y.status = IF e = "SUCCEEDED" THEN "PAID" ELSE x.status
      /\ y.cash = x.cash
      /\ y.key = x.key /\ y.number = x.number /\ y.cart = x.cart /\ y.basket = x.basket
  <2>1. CASE e = "SUCCEEDED"
    BY <1>2, <1>3, <2>1 DEF AnyOrder
  <2>2. CASE e = "FAILED"
    BY <1>2, <1>3, <2>2 DEF AnyOrder
  <2>. QED BY <2>1, <2>2
<1>5. \A m \in 1 .. Len(s) : Counts(s[m]) => m = n
  BY <1>1 DEF OrderIsSound, Counts
<1>6. x.status = "AWAITING_PAYMENT"
  BY DEF OrderIsSound
<1>7. OrderIsSound(y)
  <2>1. \A m \in 1 .. Len(s) : Counts(y.pays[m]) => m = n
    BY <1>3, <1>5
  <2>2. \A m \in 1 .. Len(s) : y.pays[m] \notin InFlight
    BY <1>3, <1>5 DEF Counts, InFlight
  <2>3. e = "FAILED" => \A m \in 1 .. Len(s) : y.pays[m] # "SUCCEEDED"
    BY <1>1, <1>3, <1>6 DEF OrderIsSound
  <2>4. x.key[1] = x.basket /\ Len(s) <= MaxAttempts /\ (x.cash => Len(s) > 0)
    BY <1>6 DEF OrderIsSound
  <2>. QED BY <1>1, <1>3, <1>4, <1>6, <2>1, <2>2, <2>3, <2>4, Numbers DEF OrderIsSound
<1>8. \A m \in DOMAIN s : s[m] = "SUCCEEDED" => y.pays[m] = "SUCCEEDED"
  BY <1>1, <1>3 DEF InFlight
<1>. QED BY <1>1, <1>3, <1>4, <1>7, <1>8 DEF Advances

-----------------------------------------------------------------------------
(* The first payment that has not been cancelled.                          *)
LEMMA FirstLeft ==
  ASSUME NEW n \in Nat, NEW s, \E m \in 1 .. n : s[m] # "CANCELLED"
  PROVE  \E m \in 1 .. n : s[m] # "CANCELLED" /\ \A l \in 1 .. m - 1 : s[l] = "CANCELLED"
<1>. DEFINE T == {m \in 1 .. n : s[m] # "CANCELLED"}
            R == {p \in Nat \X Nat : p[1] < p[2]}
<1>1. IsWellFoundedOn(R, Nat)
  BY NatLessThanWellFounded DEF OpToRel
<1>2. T \in SUBSET Nat /\ T # {}
  OBVIOUS
<1>3. PICK m \in T : \A l \in T : ~(<<l, m>> \in R)
  <2>. HIDE DEF T, R
  <2>. QED BY <1>1, <1>2, WFMin
<1>4. ASSUME NEW l \in 1 .. m - 1 PROVE l \notin T /\ l \in 1 .. n
  <2>1. m \in 1 .. n /\ l \in Nat /\ l < m
    OBVIOUS
  <2>2. <<l, m>> \in R
    BY <2>1
  <2>. QED BY <1>3, <2>1, <2>2
<1>. QED BY <1>3, <1>4

(* Table and clients stay as they are when nothing changes.                *)
LEMMA SameFollows ==
  ASSUME NEW os, TableIsSound(os)
  PROVE  Follows(os, os)
  BY DEF Follows, Grows

Stepped(rq, r, q, rp) ==
  rp = [rq EXCEPT ![r] = IF r = Stray /\ q.phase = "back" THEN NoReq ELSE q]

(* One submission takes a step: the others and the carts that were         *)
(* submitted stay.                                                         *)
LEMMA StepEffect ==
  ASSUME NEW rq \in [Clients -> Submission], NEW r \in Clients, NEW q \in Submission,
         NEW os, NEW rp, Stepped(rq, r, q, rp),
         rq[r].phase # "idle", q.basket = rq[r].basket, q.cart = rq[r].cart,
         q.phase \in Creating => rq[r].phase \in Creating,
         \A s \in Clients : SubmissionIsSound(os, rq[s]), SubmissionIsSound(os, q)
  PROVE  /\ rp \in [Clients -> Submission]
         /\ \A s \in Clients : SubmissionIsSound(os, rp[s])
         /\ Creators(rp) \subseteq Creators(rq)
         /\ Sent(os, rp) \subseteq Sent(os, rq)
<1>1. rp \in [Clients -> Submission]
  BY BlankTypes DEF Stepped
<1>2. /\ rp[r] = q \/ (rp[r] = NoReq /\ r = Stray /\ q.phase = "back")
      /\ \A s \in Clients \ {r} : rp[s] = rq[s]
  BY DEF Stepped
<1>3. \A s \in Clients : SubmissionIsSound(os, rp[s])
  BY <1>2, Blank
<1>4. NoReq.phase = "idle"
  BY DEF NoReq
<1>5. \A s \in Clients : rp[s].phase # "idle" => /\ rq[s].phase # "idle"
                                                 /\ rp[s].basket = rq[s].basket
                                                 /\ rp[s].cart = rq[s].cart
  BY <1>2, <1>4
<1>6. Sent(os, rp) \subseteq Sent(os, rq)
  BY <1>5 DEF Sent
<1>7. \A s \in Clients : rp[s].phase \in Creating => rq[s].phase \in Creating
  BY <1>2, <1>4 DEF Creating
<1>8. Creators(rp) \subseteq Creators(rq)
  BY <1>7 DEF Creators
<1>. QED BY <1>1, <1>3, <1>6, <1>8

(* Fewer submissions need less room.                                       *)
LEMMA RoomForFewer ==
  ASSUME NEW os, NEW rq, NEW rp, NEW last, Room(os, rq, last),
         Creators(rp) \subseteq Creators(rq)
  PROVE  Room(os, rp, last)
<1>1. Creators(rq) \subseteq Clients
  BY DEF Creators
<1>. QED BY <1>1 DEF Room

(* What a growing table leaves true of clients and submissions.            *)
LEMMA GrownKeeps ==
  ASSUME IInv, Grows(orders, orders')
  PROVE  /\ ViewIsTrue(orders', spoiled, view) /\ DeedsAreTrue(orders', spoiled, app, deed)
         /\ PayIsTrue(orders', gets)
         /\ \A s \in Clients : SubmissionIsSound(orders', req[s])
  BY ViewsStayTrue, PaysStayTrue, DeedsStayTrue, SubmissionsStaySound DEF IInv, Client, Submissions

(* A step of one submission, which may change one order.                   *)
LEMMA StepKeeps ==
  ASSUME IInv, NEW r \in Clients, NEW q \in Submission, Step(r, q),
         req[r].phase # "idle", q.basket = req[r].basket, q.cart = req[r].cart,
         q.phase \in Creating => req[r].phase \in Creating,
         Follows(orders, orders'), \A o \in doomed : Live(orders', o),
         SubmissionIsSound(orders', q),
         lock' \in Clients \cup {Nobody},
         lock' # Nobody => IF lock' = r THEN q.phase = "numbered" ELSE lock' = lock,
         faults' \in 0 .. MaxFaults[app],
         UNCHANGED <<app, ui, gets, deed, lastValue, doomed, overrun>>
  PROVE  IInv'
<1>1. /\ req' \in [Clients -> Submission]
      /\ \A s \in Clients : SubmissionIsSound(orders', req'[s])
      /\ Creators(req') \subseteq Creators(req)
      /\ Sent(orders', req') \subseteq Sent(orders', req)
      /\ req'[Own].phase # "idle" => req[Own].phase # "idle"
      /\ q.phase # "back" => req'[r] = q
      /\ \A s \in Clients \ {r} : req'[s] = req[s]
  <2>1. req \in [Clients -> Submission]
    BY DEF IInv, Typed
  <2>2. \A s \in Clients : SubmissionIsSound(orders', req[s])
    BY GrownKeeps DEF Follows
  <2>3. Stepped(req, r, q, req')
    BY DEF Step, Stepped
  <2>4. req' \in [Clients -> Submission]
    BY <2>1, <2>2, <2>3, StepEffect
  <2>5. Creators(req') \subseteq Creators(req)
    BY <2>1, <2>2, <2>3, StepEffect
  <2>6. Sent(orders', req') \subseteq Sent(orders', req)
    BY <2>1, <2>2, <2>3, StepEffect
  <2>7. \A s \in Clients \ {r} : req'[s] = req[s]
    BY <2>1 DEF Step
  <2>8. \A s \in Clients : SubmissionIsSound(orders', req'[s])
    BY <2>1, <2>2, <2>3, StepEffect
  <2>9. req'[Own].phase # "idle" => req[Own].phase # "idle"
    BY <2>7 DEF Clients
  <2>10. q.phase # "back" => req'[r] = q
    BY <2>1 DEF Step
  <2>. QED BY <2>4, <2>5, <2>6, <2>7, <2>8, <2>9, <2>10
<1>2. Typed'
  <2>1. lock' # Nobody => req'[lock'].phase = "numbered"
    BY <1>1 DEF IInv, Typed
  <2>. QED BY <1>1, <2>1 DEF IInv, Typed, ui
<1>3. Client'
  BY GrownKeeps DEF IInv, Client, Follows, ui
<1>4. Server'
  <2>1. Room(orders', req', lastValue)
    BY <1>1, FollowsKeeps, RoomForFewer DEF IInv, Server
  <2>2. Numbering(orders', lastValue, overrun) /\ \A o : Live(orders', o) => Live(orders, o)
    BY FollowsKeeps DEF IInv, Server
  <2>3. PurgeSeesAll(orders', doomed, overrun)
    BY <2>2 DEF IInv, Server, PurgeSeesAll
  <2>. QED BY <2>1, <2>2, <2>3 DEF Server, Follows
<1>5. Submissions'
  <2>1. Sent(orders', req') \subseteq Sent(orders, req)
    BY <1>1, FollowsKeeps DEF IInv, Server
  <2>2. OneCart(Sent(orders', req'), spoiled, basket, cart)
    BY <2>1, FewerSent DEF IInv, Submissions
  <2>. QED BY <1>1, <2>2 DEF Submissions, ui
<1>. QED BY <1>2, <1>3, <1>4, <1>5 DEF IInv

(* A submission that moves on to another phase, order and answer.          *)
Moved(q, f, o, a) ==
  [phase |-> f, key |-> q.key, method |-> q.method, cart |-> q.cart, basket |-> q.basket,
   order |-> o, answer |-> a]

(* A submission that moves on carries its key, method, cart and basket.    *)
LEMMA MovedOn ==
  ASSUME NEW q \in Submission, NEW f \in Phases, NEW o \in 0 .. MaxOrders, NEW a \in PayViews
  PROVE  /\ Moved(q, f, o, a) \in Submission
         /\ Moved(q, f, o, a).phase = f
         /\ Moved(q, f, o, a).order = o /\ Moved(q, f, o, a).answer = a
         /\ Moved(q, f, o, a).key = q.key /\ Moved(q, f, o, a).method = q.method
         /\ Moved(q, f, o, a).basket = q.basket /\ Moved(q, f, o, a).cart = q.cart
<1>1. /\ q.key \in 0 .. MaxBaskets /\ q.method \in AnyMethod /\ q.cart \in 0 .. 2
      /\ q.basket \in 0 .. MaxBaskets
  BY DEF Submission
<1>. QED BY <1>1 DEF Submission, Moved

(* What a submission is and what it knows.                                 *)
LEMMA TheSubmission ==
  ASSUME IInv, NEW r \in Clients
  PROVE  req[r] \in Submission /\ SubmissionIsSound(orders, req[r])
  BY DEF IInv, Typed, Submissions

(* Refuse: the error comes back.                                           *)
LEMMA RefuseKeeps ==
  ASSUME IInv, NEW r \in Clients, Refuse(r)
  PROVE  IInv'
<1>. PICK q : q = [req[r] EXCEPT !.phase = "back"]
  OBVIOUS
<1>1. req[r] \in Submission /\ SubmissionIsSound(orders, req[r])
  BY TheSubmission
<1>2. /\ q \in Submission /\ q.phase = "back" /\ q.order = req[r].order /\ q.answer = req[r].answer
      /\ q.key = req[r].key /\ q.basket = req[r].basket /\ q.cart = req[r].cart
      /\ q.method = req[r].method
  BY <1>1 DEF Submission, Phases
<1>3. req[r].phase = "new" /\ Step(r, q) /\ req[r].order = 0
  BY <1>1 DEF Refuse, SubmissionIsSound
<1>4. SubmissionIsSound(orders, q)
  BY <1>1, <1>2, <1>3, Blank DEF SubmissionIsSound, NoPay, NoPayment
<1>5. UNCHANGED <<app, ui, gets, deed, lastValue, doomed, overrun, lock, faults, orders>>
  BY DEF Refuse, db
<1>6. Follows(orders, orders') /\ \A o \in doomed : Live(orders', o)
  BY <1>5, SameFollows DEF IInv, Server, PurgeSeesAll
<1>7. /\ lock' \in Clients \cup {Nobody}
      /\ lock' # Nobody => IF lock' = r THEN q.phase = "numbered" ELSE lock' = lock
      /\ faults' \in 0 .. MaxFaults[app]
  BY <1>3, <1>5 DEF IInv, Typed
<1>. QED
  BY <1>2, <1>3, <1>4, <1>5, <1>6, <1>7, StepKeeps DEF Creating

(* allocate: the row of the sequence is locked.                            *)
LEMMA AllocateKeeps ==
  ASSUME IInv, NEW r \in Clients, Allocate(r)
  PROVE  IInv'
<1>. PICK q : q = [req[r] EXCEPT !.phase = "numbered"]
  OBVIOUS
<1>1. req[r] \in Submission /\ SubmissionIsSound(orders, req[r])
  BY TheSubmission
<1>2. /\ q \in Submission /\ q.phase = "numbered" /\ q.order = req[r].order
      /\ q.answer = req[r].answer
      /\ q.key = req[r].key /\ q.basket = req[r].basket /\ q.cart = req[r].cart
      /\ q.method = req[r].method
  BY <1>1 DEF Submission, Phases
<1>3. req[r].phase = "new" /\ Step(r, q) /\ lock' = r
  BY DEF Allocate
<1>4. SubmissionIsSound(orders, q)
  BY <1>1, <1>2, <1>3 DEF SubmissionIsSound
<1>5. UNCHANGED <<app, ui, gets, deed, lastValue, doomed, overrun, faults, orders>>
  BY DEF Allocate
<1>6. Follows(orders, orders') /\ \A o \in doomed : Live(orders', o)
  BY <1>5, SameFollows DEF IInv, Server, PurgeSeesAll
<1>7. faults' \in 0 .. MaxFaults[app]
  BY <1>5 DEF IInv, Typed
<1>. QED
  BY <1>2, <1>3, <1>4, <1>5, <1>6, <1>7, StepKeeps DEF Creating

(* One fault more is still within the bound.                               *)
LEMMA FaultCounts ==
  ASSUME IInv, Fault
  PROVE  faults' \in 0 .. MaxFaults[app]
<1>1. MaxFaults[app] \in Nat
  BY Numbers DEF IInv, Typed
<1>. QED BY <1>1 DEF IInv, Typed, Fault

(* ServerDies: the transaction is rolled back, the error comes back.       *)
LEMMA ServerDiesKeeps ==
  ASSUME IInv, NEW r \in Clients, ServerDies(r)
  PROVE  IInv'
<1>. PICK q : q = [req[r] EXCEPT !.phase = "back", !.order = 0]
  OBVIOUS
<1>1. req[r] \in Submission /\ SubmissionIsSound(orders, req[r])
  BY TheSubmission
<1>2. /\ q \in Submission /\ q.phase = "back" /\ q.order = 0 /\ q.answer = req[r].answer
      /\ q.key = req[r].key /\ q.basket = req[r].basket /\ q.cart = req[r].cart
      /\ q.method = req[r].method
  <2>1. 0 \in 0 .. MaxOrders /\ "back" \in Phases /\ req[r].answer \in PayViews
    BY <1>1, Numbers DEF Phases, Submission
  <2>2. q = Moved(req[r], "back", 0, req[r].answer)
    BY <1>1 DEF Submission, Moved
  <2>. QED BY <1>1, <2>1, <2>2, MovedOn
<1>3. req[r].phase \notin {"idle", "back"} /\ Step(r, q) /\ RolledBack(r)
  BY DEF ServerDies
<1>4. SubmissionIsSound(orders, q)
  BY <1>1, <1>2, <1>3, Blank DEF SubmissionIsSound, NoPay, NoPayment
<1>5. UNCHANGED <<app, ui, gets, deed, lastValue, doomed, overrun, orders>>
  BY DEF ServerDies
<1>6. Follows(orders, orders') /\ \A o \in doomed : Live(orders', o)
  BY <1>5, SameFollows DEF IInv, Server, PurgeSeesAll
<1>7. /\ lock' \in Clients \cup {Nobody}
      /\ lock' # Nobody => lock' # r /\ lock' = lock
  BY <1>3 DEF RolledBack, IInv, Typed, Clients, Own, Stray, Nobody
<1>8. faults' \in 0 .. MaxFaults[app]
  BY FaultCounts DEF ServerDies
<1>. QED
  BY <1>2, <1>3, <1>4, <1>5, <1>6, <1>7, <1>8, StepKeeps DEF Creating

(* The order that a replayed submission finds, and the payment it is       *)
(* answered with.                                                          *)
LEMMA ReplayIsSound ==
  ASSUME IInv, NEW q \in Submission, SubmissionIsSound(orders, q), q.phase = "sent",
         NEW o \in WithKey(q.key, q.method)
  PROVE  /\ Replay(q, o) \in Submission /\ SubmissionIsSound(orders, Replay(q, o))
         /\ Replay(q, o).phase \in {"initiate", "back"}
         /\ Replay(q, o).basket = q.basket /\ Replay(q, o).cart = q.cart
<1>. DEFINE pays == orders[o].pays
<1>1. /\ o \in OrderIds /\ Live(orders, o) /\ orders[o].key = <<q.key, q.method>>
      /\ orders[o] \in AnyOrder
  BY DEF WithKey, Known, Exists, Live, IInv, Server, TableIsSound, Tables
<1>2. Len(pays) \in Nat /\ DOMAIN pays = 1 .. Len(pays)
      /\ \A n \in 1 .. Len(pays) : pays[n] \in PaymentRecordStatus
  BY <1>1, Payments
<1>3. Attempts(o) = 1 .. Len(pays) /\ Len(pays) <= MaxAttempts + 1
  BY <1>1, <1>2 DEF Attempts, IInv, Server, TableIsSound, OrderIsSound
<1>4. o \in 1 .. MaxOrders /\ Met(orders, o)
  BY <1>1 DEF OrderIds, Met, Live
<1>5. q.answer = NoPay /\ q.key = q.basket /\ q.key > 0 /\ q.cart > 0
  BY DEF SubmissionIsSound
<1>. HIDE DEF pays
<1>6. CASE NeedsPayment(q, o)
  <2>1. Replay(q, o) = [q EXCEPT !.phase = "initiate", !.order = o]
    BY <1>6 DEF Replay
  <2>2. /\ Replay(q, o) \in Submission /\ Replay(q, o).phase = "initiate"
        /\ Replay(q, o).order = o /\ Replay(q, o).answer = q.answer
        /\ Replay(q, o).key = q.key /\ Replay(q, o).basket = q.basket
        /\ Replay(q, o).cart = q.cart /\ Replay(q, o).method = q.method
    <3>1. o \in 0 .. MaxOrders /\ "initiate" \in Phases /\ q.answer \in PayViews
      BY <1>4 DEF Phases, Submission
    <3>2. Replay(q, o) = Moved(q, "initiate", o, q.answer)
      BY <2>1 DEF Submission, Moved
    <3>. QED BY <3>1, <3>2, MovedOn
  <2>3. q.method # "CASH" /\ o # 0
    BY <1>4, <1>6 DEF NeedsPayment
  <2>4. SubmissionIsSound(orders, Replay(q, o))
    BY <1>1, <1>4, <1>5, <2>2, <2>3, Blank DEF SubmissionIsSound, NoPay, NoPayment
  <2>. QED BY <2>2, <2>4
<1>7. CASE ~NeedsPayment(q, o)
  <2>. DEFINE a == IF q.method = "CASH" \/ Attempts(o) = {} THEN NoPay
                   ELSE PaymentView(o, CHOOSE n \in Attempts(o) :
                          /\ pays[n] # "CANCELLED"
                          /\ \A m \in 1 .. n - 1 : pays[m] = "CANCELLED")
  <2>1. Replay(q, o) = [q EXCEPT !.phase = "back", !.order = o, !.answer = a]
    BY <1>7 DEF Replay, pays
  <2>2. q.method # "CASH" => \E n \in 1 .. Len(pays) : pays[n] # "CANCELLED"
    BY <1>3, <1>7 DEF NeedsPayment, pays
  <2>. HIDE DEF a
  <2>3. /\ a \in PayViews /\ PayIsTrue(orders, a)
        /\ a # NoPay => a.order = o
    <3>1. CASE q.method = "CASH"
      BY <3>1, BlankTypes, Blank DEF NoPay, NoPayment, a
    <3>2. CASE q.method # "CASH"
      <4>1. PICK n \in 1 .. Len(pays) : /\ a = PaymentView(o, n)
        <5>1. Attempts(o) # {} /\ \E n \in Attempts(o) :
                 pays[n] # "CANCELLED" /\ \A m \in 1 .. n - 1 : pays[m] = "CANCELLED"
          <6>1. \E n \in 1 .. Len(pays) : pays[n] # "CANCELLED"
            BY <2>2, <3>2
          <6>. HIDE DEF pays
          <6>2. \E n \in 1 .. Len(pays) :
                   pays[n] # "CANCELLED" /\ \A m \in 1 .. n - 1 : pays[m] = "CANCELLED"
            BY <6>1, <1>2, FirstLeft
          <6>. QED BY <6>2, <1>3
        <5>. QED BY <5>1, <3>2, <1>3 DEF a
      <4>2. a = [order |-> o, n |-> n, status |-> pays[n]]
        BY <4>1 DEF PaymentView, pays
      <4>3. n \in 0 .. MaxAttempts + 1
        BY <1>2, <1>3, Numbers
      <4>4. a \in PayViews
        BY <4>2, <4>3, <1>2, <1>4 DEF PayViews
      <4>5. PayIsTrue(orders, a)
        <5>1. a.order = o /\ a.n = n /\ a.status = pays[n] /\ n \in DOMAIN pays
          BY <4>2, <1>2
        <5>. QED BY <5>1, <1>4 DEF PayIsTrue, pays
      <4>. QED BY <4>2, <4>4, <4>5
    <3>. QED BY <3>1, <3>2
  <2>4. /\ Replay(q, o) \in Submission /\ Replay(q, o).phase = "back"
        /\ Replay(q, o).order = o /\ Replay(q, o).answer = a
        /\ Replay(q, o).key = q.key /\ Replay(q, o).basket = q.basket
        /\ Replay(q, o).cart = q.cart /\ Replay(q, o).method = q.method
    <3>1. o \in 0 .. MaxOrders /\ "back" \in Phases
      BY <1>4 DEF Phases
    <3>2. Replay(q, o) = Moved(q, "back", o, a)
      BY <2>1 DEF Submission, Moved
    <3>. QED BY <2>3, <3>1, <3>2, MovedOn
  <2>5. q.method # "CASH" => DOMAIN orders[o].pays # {}
    BY <2>2, <1>2 DEF pays
  <2>6. SubmissionIsSound(orders, Replay(q, o))
    BY <1>1, <1>4, <1>5, <2>3, <2>4, <2>5 DEF SubmissionIsSound
  <2>. QED BY <2>4, <2>6
<1>. QED BY <1>6, <1>7

(* findByIdempotencyKey, before the transaction.                           *)
LEMMA LookUpKeyKeeps ==
  ASSUME IInv, NEW r \in Clients, LookUpKey(r)
  PROVE  IInv'
<1>1. req[r] \in Submission /\ SubmissionIsSound(orders, req[r]) /\ req[r].phase = "sent"
  BY TheSubmission DEF LookUpKey
<1>2. PICK q : /\ Step(r, q) /\ q \in Submission /\ SubmissionIsSound(orders, q)
               /\ q.phase \in {"new", "initiate", "back"}
               /\ q.basket = req[r].basket /\ q.cart = req[r].cart
  <2>1. CASE WithKey(req[r].key, req[r].method) = {}
    <3>. PICK q : q = [req[r] EXCEPT !.phase = "new"]
      OBVIOUS
    <3>1. /\ q \in Submission /\ q.phase = "new" /\ q.order = req[r].order
          /\ q.answer = req[r].answer
          /\ q.key = req[r].key /\ q.basket = req[r].basket /\ q.cart = req[r].cart
          /\ q.method = req[r].method
      BY <1>1 DEF Submission, Phases
    <3>2. SubmissionIsSound(orders, q)
      BY <1>1, <3>1 DEF SubmissionIsSound
    <3>3. Step(r, q)
      BY <2>1 DEF LookUpKey
    <3>. QED BY <3>1, <3>2, <3>3
  <2>2. CASE WithKey(req[r].key, req[r].method) # {}
    <3>1. PICK o \in WithKey(req[r].key, req[r].method) : Step(r, Replay(req[r], o))
      BY <2>2 DEF LookUpKey
    <3>. PICK p : p = req[r]
      OBVIOUS
    <3>. PICK q : q = Replay(p, o)
      OBVIOUS
    <3>2. /\ p \in Submission /\ SubmissionIsSound(orders, p) /\ p.phase = "sent"
          /\ o \in WithKey(p.key, p.method) /\ Step(r, q)
      BY <1>1, <3>1
    <3>. QED BY <3>2, ReplayIsSound
  <2>. QED BY <2>1, <2>2
<1>5. UNCHANGED <<app, ui, gets, deed, lastValue, doomed, overrun, lock, faults, orders>>
  BY DEF LookUpKey, db
<1>6. Follows(orders, orders') /\ \A o \in doomed : Live(orders', o)
  BY <1>5, SameFollows DEF IInv, Server, PurgeSeesAll
<1>7. /\ lock' \in Clients \cup {Nobody}
      /\ lock' # Nobody => IF lock' = r THEN q.phase = "numbered" ELSE lock' = lock
      /\ faults' \in 0 .. MaxFaults[app]
  BY <1>1, <1>5 DEF IInv, Typed
<1>. QED
  BY <1>1, <1>2, <1>5, <1>6, <1>7, StepKeeps DEF Creating

(* The order of a sound table.                                             *)
LEMMA TheOrder ==
  ASSUME IInv, NEW o, Live(orders, o)
  PROVE  /\ o \in OrderIds /\ o \in 1 .. MaxOrders /\ Met(orders, o)
         /\ orders \in Tables /\ orders[o] \in AnyOrder /\ OrderIsSound(orders[o])
         /\ Len(orders[o].pays) \in Nat /\ DOMAIN orders[o].pays = 1 .. Len(orders[o].pays)
         /\ \A n \in 1 .. Len(orders[o].pays) : orders[o].pays[n] \in PaymentRecordStatus
         /\ Len(orders[o].pays) <= MaxAttempts + 1
<1>1. o \in OrderIds /\ orders \in Tables /\ orders[o] \in AnyOrder /\ OrderIsSound(orders[o])
  BY DEF IInv, Server, TableIsSound, Tables, Live
<1>2. Len(orders[o].pays) \in Nat /\ DOMAIN orders[o].pays = 1 .. Len(orders[o].pays)
      /\ \A n \in 1 .. Len(orders[o].pays) : orders[o].pays[n] \in PaymentRecordStatus
  BY <1>1, Payments
<1>. QED BY <1>1, <1>2 DEF OrderIds, Met, Live, OrderIsSound

(* What somebody sees who reads a payment now.                             *)
LEMMA PaymentViewIsTrue ==
  ASSUME IInv, NEW o, Live(orders, o), NEW n \in DOMAIN orders[o].pays
  PROVE  /\ PaymentView(o, n) \in PayViews /\ PayIsTrue(orders, PaymentView(o, n))
         /\ PaymentView(o, n).order = o
<1>1. /\ o \in 1 .. MaxOrders /\ Met(orders, o) /\ n \in 0 .. MaxAttempts + 1
      /\ orders[o].pays[n] \in PaymentRecordStatus
  BY TheOrder, Numbers
<1>2. PaymentView(o, n) \in PayViews
  BY <1>1 DEF PaymentView, PayViews
<1>3. PayIsTrue(orders, PaymentView(o, n))
  <2>1. PaymentView(o, n).order = o /\ PaymentView(o, n).n = n
        /\ PaymentView(o, n).status = orders[o].pays[n]
    BY DEF PaymentView
  <2>. QED BY <1>1, <2>1 DEF PayIsTrue
<1>. QED BY <1>2, <1>3 DEF PaymentView

(* A new attempt, and what its initiator is answered.                      *)
LEMMA InitiatedKeeps ==
  ASSUME IInv, NEW o, Awaiting(o), \A n \in Attempts(o) : orders[o].pays[n] \notin InFlight,
         Len(orders[o].pays) < MaxAttempts,
         NEW n, n = Len(orders[o].pays) + 1,
         NEW a, a = [order |-> o, n |-> n, status |-> "PENDING"]
  PROVE  /\ Live(orders, o)
         /\ Follows(orders, Initiated(o)) /\ \A p : Live(orders, p) => Live(Initiated(o), p)
         /\ a \in PayViews /\ PayIsTrue(Initiated(o), a)
         /\ Initiated(o)[o].key = orders[o].key /\ DOMAIN Initiated(o)[o].pays # {}
<1>1. Live(orders, o) /\ o \notin doomed /\ orders[o].status = "AWAITING_PAYMENT"
  BY DEF Awaiting, Exists, Live
<1>. DEFINE y == [orders[o] EXCEPT !.pays = Append(@, "PENDING")]
            ot == [orders EXCEPT ![o] = y]
<1>2. o \in 1 .. MaxOrders /\ orders[o] \in AnyOrder /\ OrderIsSound(orders[o])
      /\ TableIsSound(orders) /\ orders \in Tables /\ o \in OrderIds /\ n \in Nat \ {0}
  BY <1>1, TheOrder DEF IInv, Server
<1>3. Initiated(o) = ot
  BY <1>2 DEF Initiated, Tables
<1>4. Advances(orders[o], y) /\ DOMAIN y.pays = 1 .. n
  BY <1>1, <1>2, AttemptAdvances DEF Attempts
<1>. HIDE DEF y
<1>5. /\ Follows(orders, ot) /\ \A p : Live(orders, p) => Live(ot, p)
      /\ ot[o] = y
  BY <1>1, <1>2, <1>4, OneAdvances DEF Tables
<1>. HIDE DEF ot
<1>6. a \in PayViews
  BY <1>2, Numbers DEF PayViews, PaymentRecordStatus
<1>7. PayIsTrue(ot, a)
  <2>1. Live(ot, o) /\ Met(ot, o)
    BY <1>1, <1>2, <1>5 DEF Live, Met
  <2>. QED BY <1>2, <1>4, <1>5, <2>1 DEF PayIsTrue
<1>8. ot[o].key = orders[o].key /\ DOMAIN ot[o].pays # {}
  <2>1. n \in 1 .. n
    BY <1>2
  <2>. QED BY <1>4, <1>5, <2>1 DEF Advances
<1>. QED BY <1>1, <1>3, <1>5, <1>6, <1>7, <1>8

(* PaymentsService.initiate for a submission.                              *)
LEMMA InitiateFirstKeeps ==
  ASSUME IInv, NEW r \in Clients, InitiateFirst(r)
  PROVE  IInv'
<1>. PICK o : o = req[r].order
  OBVIOUS
<1>1. req[r] \in Submission /\ SubmissionIsSound(orders, req[r]) /\ req[r].phase = "initiate"
  BY TheSubmission DEF InitiateFirst
<1>2. /\ req[r].key = req[r].basket /\ req[r].key > 0 /\ req[r].cart > 0
      /\ req[r].method # "CASH" /\ req[r].answer = NoPay /\ Met(orders, o)
      /\ Live(orders, o) => orders[o].key = <<req[r].key, req[r].method>>
      /\ "back" \in Phases /\ 0 \in 0 .. MaxOrders /\ o \in 0 .. MaxOrders
  BY <1>1, Numbers DEF SubmissionIsSound, Phases, Submission
<1>3. UNCHANGED <<app, ui, gets, deed, lastValue, lock, doomed, overrun, faults>>
  BY DEF InitiateFirst
<1>4. PICK q : /\ Step(r, q) /\ q \in Submission /\ q.phase = "back"
               /\ q.basket = req[r].basket /\ q.cart = req[r].cart
               /\ SubmissionIsSound(orders', q)
               /\ Follows(orders, orders') /\ \A p \in doomed : Live(orders', p)
  <2>0. UNCHANGED orders => Follows(orders, orders') /\ \A p \in doomed : Live(orders', p)
    BY SameFollows DEF IInv, Server, PurgeSeesAll
  <2>1. CASE ~Awaiting(o)
    <3>. PICK q : q = [req[r] EXCEPT !.phase = "back", !.order = 0]
      OBVIOUS
    <3>1. q = Moved(req[r], "back", 0, NoPay)
      BY <1>1, <1>2 DEF Submission, Moved
    <3>2. /\ q \in Submission /\ q.phase = "back" /\ q.order = 0 /\ q.answer = NoPay
          /\ q.key = req[r].key /\ q.basket = req[r].basket /\ q.cart = req[r].cart
          /\ q.method = req[r].method
      BY <1>1, <1>2, <3>1, BlankTypes, MovedOn
    <3>3. Step(r, q) /\ UNCHANGED orders
      BY <2>1 DEF InitiateFirst
    <3>4. SubmissionIsSound(orders, q)
      BY <1>2, <3>2, Blank DEF SubmissionIsSound, NoPay, NoPayment
    <3>. QED BY <2>0, <3>2, <3>3, <3>4
  <2>2. CASE Awaiting(o) /\ Attempts(o) # {}
    <3>. PICK a : a = PaymentView(o, 1)
      OBVIOUS
    <3>. PICK q : q = [req[r] EXCEPT !.phase = "back", !.answer = a]
      OBVIOUS
    <3>1. Live(orders, o) /\ 1 \in DOMAIN orders[o].pays
      <4>1. Live(orders, o)
        BY <2>2 DEF Awaiting, Exists, Live
      <4>. QED BY <2>2, <4>1, TheOrder DEF Attempts
    <3>2. a \in PayViews /\ PayIsTrue(orders, a) /\ a.order = o
      BY <3>1, PaymentViewIsTrue
    <3>3. q = Moved(req[r], "back", o, a)
      BY <1>1 DEF Submission, Moved
    <3>4. /\ q \in Submission /\ q.phase = "back" /\ q.order = o /\ q.answer = a
          /\ q.key = req[r].key /\ q.basket = req[r].basket /\ q.cart = req[r].cart
          /\ q.method = req[r].method
      BY <1>1, <1>2, <3>2, <3>3, MovedOn
    <3>5. Step(r, q) /\ UNCHANGED orders
      BY <2>2 DEF InitiateFirst
    <3>6. SubmissionIsSound(orders, q)
      BY <1>2, <3>1, <3>2, <3>4 DEF SubmissionIsSound
    <3>. QED BY <2>0, <3>4, <3>5, <3>6
  <2>3. CASE Awaiting(o) /\ Attempts(o) = {}
    <3>. PICK a : a = [order |-> o, n |-> 1, status |-> "PENDING"]
      OBVIOUS
    <3>. PICK q : q = [req[r] EXCEPT !.phase = "back", !.answer = a]
      OBVIOUS
    <3>1. Step(r, q) /\ orders' = Initiated(o)
      BY <2>3 DEF InitiateFirst
    <3>2. Len(orders[o].pays) = 0
      <4>1. Live(orders, o)
        BY <2>3 DEF Awaiting, Exists, Live
      <4>2. 1 .. Len(orders[o].pays) = {} /\ Len(orders[o].pays) \in Nat
        BY <2>3, <4>1, TheOrder DEF Attempts
      <4>3. 1 \notin 1 .. Len(orders[o].pays)
        BY <4>2
      <4>. QED BY <4>2, <4>3
    <3>3. /\ Live(orders, o)
          /\ Follows(orders, orders') /\ \A p : Live(orders, p) => Live(orders', p)
          /\ a \in PayViews /\ PayIsTrue(orders', a)
          /\ orders'[o].key = orders[o].key /\ DOMAIN orders'[o].pays # {}
      <4>1. /\ Awaiting(o) /\ \A n \in Attempts(o) : orders[o].pays[n] \notin InFlight
            /\ Len(orders[o].pays) < MaxAttempts /\ 1 = Len(orders[o].pays) + 1
        BY <2>3, <3>2, Numbers
      <4>. QED BY <3>1, <4>1, InitiatedKeeps
    <3>4. q = Moved(req[r], "back", o, a)
      BY <1>1 DEF Submission, Moved
    <3>5. /\ q \in Submission /\ q.phase = "back" /\ q.order = o /\ q.answer = a
          /\ q.key = req[r].key /\ q.basket = req[r].basket /\ q.cart = req[r].cart
          /\ q.method = req[r].method
      BY <1>1, <1>2, <3>3, <3>4, MovedOn
    <3>6. Met(orders', o)
      BY <1>2, <3>3, StillThere DEF Follows
    <3>7. SubmissionIsSound(orders', q)
      BY <1>2, <3>3, <3>5, <3>6 DEF SubmissionIsSound
    <3>8. \A p \in doomed : Live(orders', p)
      BY <3>3 DEF IInv, Server, PurgeSeesAll
    <3>. QED BY <3>1, <3>3, <3>5, <3>7, <3>8
  <2>. QED BY <2>1, <2>2, <2>3
<1>5. /\ lock' \in Clients \cup {Nobody}
      /\ lock' # Nobody => IF lock' = r THEN q.phase = "numbered" ELSE lock' = lock
      /\ faults' \in 0 .. MaxFaults[app]
  BY <1>1, <1>3 DEF IInv, Typed
<1>. QED
  BY <1>1, <1>3, <1>4, <1>5, StepKeeps DEF Creating

(* order.create: a new order in a sound table.                             *)
LEMMA NewOrder ==
  ASSUME NEW os, TableIsSound(os), NEW o \in OrderIds, os[o] = Absent,
         NEW y \in AnyOrder, OrderIsSound(y),
         \A p \in OrderIds : Live(os, p) => os[p].key # y.key
  PROVE  /\ TableIsSound([os EXCEPT ![o] = y]) /\ Grows(os, [os EXCEPT ![o] = y])
         /\ \A p : p # o => (Live([os EXCEPT ![o] = y], p) <=> Live(os, p))
<1>. DEFINE ot == [os EXCEPT ![o] = y]
<1>1. os \in Tables
  BY DEF TableIsSound
<1>2. ot \in Tables /\ ot[o] = y /\ \A p \in OrderIds \ {o} : ot[p] = os[p]
  BY <1>1 DEF Tables
<1>. HIDE DEF ot
<1>3. \A p : p # o => (Live(ot, p) <=> Live(os, p))
  BY <1>2 DEF Live
<1>4. Grows(os, ot)
  BY <1>2, <1>3 DEF Grows
<1>5. TableIsSound(ot)
  BY <1>2, <1>3 DEF TableIsSound
<1>. QED BY <1>3, <1>4, <1>5 DEF ot

(* createOrder's insertion and commit, without a collision: the steps of   *)
(* Insert.                                                                 *)
Inserted(r, o) ==
  /\ orders' = [orders EXCEPT ![o] =
       [status |-> "AWAITING_PAYMENT", key |-> <<req[r].key, req[r].method>>,
        number |-> lastValue + 1, cart |-> req[r].cart, basket |-> req[r].basket,
        pays |-> <<>>, cash |-> FALSE]]
  /\ lastValue' = lastValue + 1
  /\ overrun' = (overrun \/ doomed # {})
  /\ Step(r, [req[r] EXCEPT !.phase = IF req[r].method = "CASH" THEN "back" ELSE "initiate",
                            !.order = o])

(* There is room for the order, and it is the first that is unused.        *)
LEMMA FirstUnused ==
  ASSUME IInv, NEW r \in Creators(req)
  PROVE  /\ Min(Unused) \in OrderIds /\ orders[Min(Unused)] = Absent
         /\ \A k \in 0 .. MaxOrders :
              (\A o \in OrderIds : orders[o] = Absent <=> o > k) => Min(Unused) = k + 1
<1>1. PICK k \in 0 .. MaxOrders :
        /\ \A o \in OrderIds : orders[o] = Absent <=> o > k
        /\ k + 1 <= MaxOrders
  BY DEF IInv, Server, Room, Creators
<1>2. k + 1 \in OrderIds /\ k + 1 \in Unused /\ \A o \in Unused : o >= k + 1 /\ o \in Nat
  BY <1>1, Numbers DEF Unused, OrderIds
<1>3. Min(Unused) = k + 1
  <2>1. \E x \in Unused : \A y \in Unused : x <= y
    BY <1>2
  <2>2. Min(Unused) \in Unused /\ \A y \in Unused : Min(Unused) <= y
    BY <2>1 DEF Min
  <2>. QED BY <1>1, <1>2, <2>2
<1>4. ASSUME NEW l \in 0 .. MaxOrders, \A o \in OrderIds : orders[o] = Absent <=> o > l
      PROVE  l = k
  <2>1. CASE l < k
    <3>1. l + 1 \in OrderIds
      BY <1>1, <2>1, Numbers DEF OrderIds
    <3>2. orders[l + 1] = Absent <=> l + 1 > k
      BY <1>1, <3>1
    <3>. QED BY <1>4, <2>1, <3>1, <3>2
  <2>2. CASE k < l
    <3>1. orders[k + 1] = Absent <=> k + 1 > l
      BY <1>2, <1>4
    <3>. QED BY <1>1, <1>2, <2>2, <3>1
  <2>. QED BY <2>1, <2>2
<1>. QED BY <1>1, <1>2, <1>3, <1>4 DEF Unused

(* order.create: the new order is the next one of the table.               *)
LEMMA InsertedKeeps ==
  ASSUME IInv, NEW r \in Clients, NEW o, o = Min(Unused), Inserted(r, o),
         req[r].phase = "numbered", lock' = Nobody,
         WithKey(req[r].key, req[r].method) = {},
         UNCHANGED <<app, ui, gets, deed, doomed, faults>>
  PROVE  IInv'
<1>1. req[r] \in Submission /\ SubmissionIsSound(orders, req[r]) /\ r \in Creators(req)
  BY TheSubmission DEF Creators, Creating
<1>2. /\ req[r].key = req[r].basket /\ req[r].key > 0 /\ req[r].cart > 0
      /\ req[r].answer = NoPay /\ req[r].order = 0
      /\ req[r].key \in 1 .. MaxBaskets /\ req[r].cart \in 1 .. 2 /\ req[r].method \in AnyMethod
  BY <1>1, Numbers DEF SubmissionIsSound, Submission
<1>3. /\ o \in OrderIds /\ orders[o] = Absent /\ o \in 1 .. MaxOrders
      /\ TableIsSound(orders) /\ orders \in Tables
  BY <1>1, FirstUnused DEF OrderIds, IInv, Server, TableIsSound
<1>4. PICK k \in 0 .. MaxOrders :
        /\ \A p \in OrderIds : orders[p] = Absent <=> p > k
        /\ k + 1 <= MaxOrders
        /\ Creators(req) = Clients => k + 2 <= MaxOrders
        /\ lastValue <= k /\ lastValue \in Nat /\ o = k + 1
  <2>1. lastValue \in Nat
    BY DEF IInv, Typed
  <2>. QED BY <1>1, <2>1, FirstUnused DEF IInv, Server, Room, Creators
<1>y. PICK y : y = [status |-> "AWAITING_PAYMENT", key |-> <<req[r].key, req[r].method>>,
                   number |-> lastValue + 1, cart |-> req[r].cart, basket |-> req[r].basket,
                   pays |-> <<>>, cash |-> FALSE]
  OBVIOUS
<1>q. PICK q : q = [req[r] EXCEPT !.phase = IF req[r].method = "CASH" THEN "back" ELSE "initiate",
                                 !.order = o]
  OBVIOUS
<1>5. y \in AnyOrder /\ OrderIsSound(y)
  <2>1. lastValue + 1 \in 1 .. MaxOrders
    BY <1>4, Numbers
  <2>2. <<>> \in Seq(PaymentRecordStatus) /\ Len(<<>>) = 0 /\ DOMAIN <<>> = 1 .. 0
    BY EmptySeq
  <2>3. y \in AnyOrder
    BY <1>y, <1>2, <2>1, <2>2 DEF AnyOrder
  <2>4. /\ y.key[1] = y.basket /\ y.pays = <<>> /\ y.status = "AWAITING_PAYMENT"
        /\ y.cash = FALSE
    BY <1>y, <1>2
  <2>. QED BY <2>2, <2>3, <2>4, Numbers DEF OrderIsSound
<1>6. /\ TableIsSound(orders') /\ Grows(orders, orders') /\ orders'[o] = y
      /\ \A p \in OrderIds \ {o} : orders'[p] = orders[p] /\ (Live(orders', p) <=> Live(orders, p))
  <2>1. orders' = [orders EXCEPT ![o] = y]
    BY <1>y DEF Inserted
  <2>2. \A p \in OrderIds : Live(orders, p) => orders[p].key # y.key
    <3>1. \A p \in OrderIds : Live(orders, p) => p \in Known
      BY DEF Live, Known, Exists
    <3>. QED BY <1>y, <3>1 DEF WithKey
  <2>3. /\ TableIsSound([orders EXCEPT ![o] = y]) /\ Grows(orders, [orders EXCEPT ![o] = y])
        /\ \A p : p # o => (Live([orders EXCEPT ![o] = y], p) <=> Live(orders, p))
    BY <1>3, <1>5, <2>2, NewOrder
  <2>4. orders'[o] = y /\ \A p \in OrderIds \ {o} : orders'[p] = orders[p]
    BY <1>3, <2>1 DEF Tables
  <2>. QED BY <2>1, <2>3, <2>4
<1>7. Live(orders', o) /\ Met(orders', o) /\ ~Live(orders, o)
  BY <1>3, <1>5, <1>6, OrderIsThere DEF Live, Met
<1>8. /\ q \in Submission /\ q.phase = IF req[r].method = "CASH" THEN "back" ELSE "initiate"
      /\ q.order = o /\ q.answer = NoPay
      /\ q.key = req[r].key /\ q.basket = req[r].basket /\ q.cart = req[r].cart
      /\ q.method = req[r].method
  <2>. DEFINE f == IF req[r].method = "CASH" THEN "back" ELSE "initiate"
  <2>1. f \in Phases /\ o \in 0 .. MaxOrders
    BY <1>3 DEF Phases
  <2>. HIDE DEF f
  <2>2. q = Moved(req[r], f, o, NoPay)
    BY <1>q, <1>1, <1>2 DEF Submission, Moved, f
  <2>3. /\ q \in Submission /\ q.phase = f
        /\ q.order = o /\ q.answer = NoPay
        /\ q.key = req[r].key /\ q.basket = req[r].basket /\ q.cart = req[r].cart
        /\ q.method = req[r].method
    BY <1>1, <2>1, <2>2, BlankTypes, MovedOn
  <2>. QED BY <2>3 DEF f
<1>9. SubmissionIsSound(orders', q)
  <2>1. orders'[o].key = <<q.key, q.method>> /\ o # 0
    BY <1>y, <1>3, <1>6, <1>8
  <2>2. /\ q.phase \in {"back", "initiate"} /\ (q.phase = "initiate" => q.method # "CASH")
        /\ (q.phase = "back" => q.method = "CASH")
    BY <1>8
  <2>. QED BY <1>2, <1>7, <1>8, <2>1, <2>2, Blank DEF SubmissionIsSound, NoPay, NoPayment
<1>10. Step(r, q) /\ lastValue' = lastValue + 1 /\ overrun' = (overrun \/ doomed # {})
  BY <1>q DEF Inserted
<1>11. /\ req' \in [Clients -> Submission]
       /\ \A s \in Clients : SubmissionIsSound(orders', req'[s])
       /\ Creators(req') \subseteq Creators(req)
       /\ Sent(orders', req') \subseteq Sent(orders', req)
  <2>1. req \in [Clients -> Submission]
    BY DEF IInv, Typed
  <2>2. \A s \in Clients : SubmissionIsSound(orders', req[s])
    BY <1>6, GrownKeeps
  <2>3. Stepped(req, r, q, req')
    BY <1>10 DEF Step, Stepped
  <2>4. /\ req[r].phase # "idle" /\ q.basket = req[r].basket /\ q.cart = req[r].cart
        /\ q.phase \in Creating => req[r].phase \in Creating
    BY <1>8 DEF Creating
  <2>5. req' \in [Clients -> Submission]
    BY <1>9, <2>1, <2>2, <2>3, <2>4, <1>8, StepEffect
  <2>6. \A s \in Clients : SubmissionIsSound(orders', req'[s])
    BY <1>9, <2>1, <2>2, <2>3, <2>4, <1>8, StepEffect
  <2>7. Creators(req') \subseteq Creators(req)
    BY <1>9, <2>1, <2>2, <2>3, <2>4, <1>8, StepEffect
  <2>8. Sent(orders', req') \subseteq Sent(orders', req)
    BY <1>9, <2>1, <2>2, <2>3, <2>4, <1>8, StepEffect
  <2>. QED BY <2>5, <2>6, <2>7, <2>8
<1>12. /\ r \notin Creators(req')
       /\ req'[Own].phase # "idle" => req[Own].phase # "idle"
  <2>1. req \in [Clients -> Submission]
    BY DEF IInv, Typed
  <2>2. req'[r] = q \/ req'[r] = NoReq
    BY <1>10, <2>1 DEF Step
  <2>3. \A s \in Clients \ {r} : req'[s] = req[s]
    BY <1>10, <2>1 DEF Step
  <2>. QED BY <1>8, <2>2, <2>3 DEF Creators, Creating, NoReq, Clients
<1>13. Typed'
  <2>1. lastValue' \in 0 .. MaxOrders
    BY <1>4, <1>10, Numbers
  <2>2. overrun' \in BOOLEAN
    BY <1>10, Zenon
  <2>. QED BY <1>11, <1>12, <2>1, <2>2 DEF IInv, Typed, ui
<1>14. Client'
  BY <1>6, GrownKeeps DEF IInv, Client, ui
<1>15. Server'
  <2>1. Room(orders', req', lastValue')
    <3>1. \A p \in OrderIds : orders'[p] = Absent <=> p > k + 1
      <4>1. y # Absent
        BY <1>5, OrderIsThere
      <4>2. \A p \in OrderIds : p \in Nat
        BY DEF OrderIds
      <4>. QED BY <1>4, <1>6, <4>1, <4>2
    <3>2. \A s \in Clients : s \in Creators(req') => k + 2 <= MaxOrders
      <4>1. ASSUME NEW s \in Creators(req') PROVE Creators(req) = Clients
        BY <1>1, <1>11, <1>12, <4>1 DEF Creators, Clients
      <4>. QED BY <1>4, <4>1
    <3>3. Creators(req') # Clients
      BY <1>12
    <3>4. k + 1 \in 0 .. MaxOrders /\ lastValue' <= k + 1
      BY <1>4, <1>10
    <3>5. (k + 1) + 1 = k + 2
      BY <1>4
    <3>. QED BY <3>1, <3>2, <3>3, <3>4, <3>5 DEF Room
  <2>2. Numbering(orders', lastValue', overrun')
    <3>1. CASE overrun
      BY <3>1, <1>10 DEF Numbering
    <3>2. CASE ~overrun
      <4>1. \A p \in OrderIds : Live(orders, p) =>
               orders[p].number <= lastValue /\ orders[p].number \in Nat
        BY <3>2, TheOrder DEF IInv, Server, Numbering, AnyOrder
      <4>2. orders'[o].number = lastValue + 1
        BY <1>y, <1>6
      <4>3. \A p \in OrderIds : Live(orders', p) => orders'[p].number <= lastValue + 1
        BY <1>4, <1>6, <4>1, <4>2
      <4>. QED BY <1>10, <4>3 DEF Numbering
    <3>. QED BY <3>1, <3>2
  <2>3. PurgeSeesAll(orders', doomed, overrun')
    <3>1. \A p \in doomed : Live(orders', p)
      <4>1. \A p \in doomed : Live(orders, p) /\ p \in OrderIds
        BY DEF IInv, Server, PurgeSeesAll, Live
      <4>. QED BY <1>6, <1>7, <4>1
    <3>. QED BY <3>1, <1>10 DEF PurgeSeesAll
  <2>. QED BY <1>6, <2>1, <2>2, <2>3 DEF Server
<1>16. Submissions'
  <2>1. Sent(orders', req) \subseteq Sent(orders, req)
    <3>1. <<req[r].basket, req[r].cart>> \in Sent(orders, req)
      BY DEF Sent
    <3>2. orders'[o].basket = req[r].basket /\ orders'[o].cart = req[r].cart
      BY <1>y, <1>6
    <3>3. \A p \in OrderIds : Live(orders', p) =>
             <<orders'[p].basket, orders'[p].cart>> \in Sent(orders, req)
      <4>1. ASSUME NEW p \in OrderIds, Live(orders', p), p # o
            PROVE  <<orders'[p].basket, orders'[p].cart>> \in Sent(orders, req)
        <5>1. orders'[p] = orders[p] /\ Live(orders, p)
          BY <1>6, <4>1
        <5>. QED BY <5>1 DEF Sent
      <4>. QED BY <3>1, <3>2, <4>1
    <3>. QED BY <3>3 DEF Sent
  <2>2. OneCart(Sent(orders', req'), spoiled, basket, cart)
    BY <1>11, <2>1, FewerSent DEF IInv, Submissions
  <2>. QED BY <1>11, <2>2 DEF Submissions, ui
<1>. QED BY <1>13, <1>14, <1>15, <1>16 DEF IInv

(* Insert: the order is created, or the transaction fails.                 *)
LEMMA InsertKeeps ==
  ASSUME IInv, NEW r \in Clients, Insert(r)
  PROVE  IInv'
<1>1. CASE Collides(req[r])
  <2>. PICK q : q = [req[r] EXCEPT !.phase = "back"]
    OBVIOUS
  <2>1. /\ req[r] \in Submission /\ SubmissionIsSound(orders, req[r])
        /\ req[r].phase = "numbered"
    BY TheSubmission DEF Insert
  <2>2. /\ q \in Submission /\ q.phase = "back" /\ q.order = req[r].order
        /\ q.answer = req[r].answer
        /\ q.key = req[r].key /\ q.basket = req[r].basket /\ q.cart = req[r].cart
        /\ q.method = req[r].method
    BY <2>1 DEF Submission, Phases
  <2>3. Step(r, q) /\ req[r].order = 0 /\ lock' = Nobody
    BY <1>1, <2>1 DEF Insert, SubmissionIsSound
  <2>4. SubmissionIsSound(orders, q)
    BY <2>1, <2>2, <2>3, Blank DEF SubmissionIsSound, NoPay, NoPayment
  <2>5. UNCHANGED <<app, ui, gets, deed, lastValue, doomed, overrun, faults, orders>>
    BY <1>1 DEF Insert
  <2>6. Follows(orders, orders') /\ \A o \in doomed : Live(orders', o)
    BY <2>5, SameFollows DEF IInv, Server, PurgeSeesAll
  <2>7. faults' \in 0 .. MaxFaults[app]
    BY <2>5 DEF IInv, Typed
  <2>. QED
    BY <2>1, <2>2, <2>3, <2>4, <2>5, <2>6, <2>7, StepKeeps DEF Creating
<1>2. CASE ~Collides(req[r])
  <2>1. PICK o : o = Min(Unused) /\ Inserted(r, o)
    BY <1>2 DEF Insert, Inserted
  <2>2. WithKey(req[r].key, req[r].method) = {}
    BY <1>2 DEF Collides
  <2>. QED BY <2>1, <2>2, InsertedKeeps DEF Insert
<1>. QED BY <1>1, <1>2

-----------------------------------------------------------------------------
(* A step of the client, while the server does nothing.                    *)
LEMMA ClientKeeps ==
  ASSUME IInv, Typed',
         ViewIsTrue(orders, spoiled', view'), ViewIsItsOwn(app, view'),
         DeedsAreTrue(orders, spoiled', app, deed'),
         PayIsTrue(orders, gets'), ReadIsItsOwn(app, view', gets'),
         \A s \in Clients : SubmissionIsSound(orders, req'[s]),
         OneCart(Sent(orders, req'), spoiled', basket', cart'),
         Room(orders, req', lastValue),
         UNCHANGED <<app, orders, lastValue, doomed, overrun>>
  PROVE  IInv'
  BY DEF IInv, Client, Server, Submissions

(* What the invariant says of the parts that a step leaves alone.          *)
LEMMA Truths ==
  ASSUME IInv
  PROVE  /\ ViewIsTrue(orders, spoiled, view) /\ ViewIsItsOwn(app, view)
         /\ DeedsAreTrue(orders, spoiled, app, deed)
         /\ PayIsTrue(orders, gets) /\ ReadIsItsOwn(app, view, gets)
         /\ \A s \in Clients : SubmissionIsSound(orders, req[s])
         /\ OneCart(Sent(orders, req), spoiled, basket, cart)
         /\ Room(orders, req, lastValue)
         /\ TableIsSound(orders)
  BY DEF IInv, Client, Server, Submissions

(* Customers and carts are numbers.                                        *)
LEMMA SentType ==
  ASSUME IInv
  PROVE  Sent(orders, req) \in SUBSET (Nat \X Nat)
<1>1. \A r \in Clients : req[r].basket \in Nat /\ req[r].cart \in Nat
  BY Numbers DEF IInv, Typed, Submission
<1>2. \A o \in OrderIds : Live(orders, o) => orders[o].basket \in Nat /\ orders[o].cart \in Nat
  BY TheOrder, Numbers DEF AnyOrder
<1>. QED BY <1>1, <1>2 DEF Sent

(* The screen changes, and an answer may be dropped.                       *)
LEMMA ScreenKeeps ==
  ASSUME IInv, screen' \in {"welcome", "basket", "checkout", "result"},
         gets' \in {gets, NoPay},
         UNCHANGED <<app, cart, key, view, basket, spoiled, req, deed, db, faults>>
  PROVE  IInv'
<1>1. Typed' /\ PayIsTrue(orders, gets') /\ ReadIsItsOwn(app, view, gets')
  BY BlankTypes, Blank, Truths DEF IInv, Typed, db
<1>. QED
  BY <1>1, Truths, ClientKeeps DEF db

(* cartReducer: after a submission the basket is spoiled.                  *)
LEMMA EditKeeps ==
  ASSUME IInv, NEW c \in Contents, Edit(c)
  PROVE  IInv'
<1>1. /\ cart' = c /\ spoiled' = IF Submitted THEN spoiled \cup {basket} ELSE spoiled
      /\ UNCHANGED <<app, screen, key, view, basket, req, gets, deed, db, faults>>
  BY DEF Edit
<1>2. Typed'
  <2>1. c \in 0 .. 2 /\ spoiled' \subseteq 1 .. MaxBaskets
    BY <1>1 DEF Contents, IInv, Typed
  <2>. QED BY <1>1, <2>1 DEF IInv, Typed, db
<1>3. OneCart(Sent(orders, req), spoiled', basket, c)
  <2>1. CASE Submitted
    BY <1>1, <2>1, Truths, CartEdited
  <2>2. CASE ~Submitted
    <3>1. \A r \in Clients : req[r].phase # "idle" => req[r].basket # basket
      <4>1. \A r \in Clients : req[r].phase # "idle" => req[r].basket = req[r].key
        BY Truths DEF SubmissionIsSound
      <4>2. 1 \in OrderIds
        BY Numbers DEF OrderIds
      <4>. QED BY <2>2, <4>1, <4>2 DEF Submitted, Clients, IInv, Typed
    <3>2. \A o \in OrderIds : Live(orders, o) => orders[o].basket # basket
      <4>1. \A o \in OrderIds : Live(orders, o) => orders[o].key[1] = orders[o].basket
        BY Truths DEF TableIsSound, OrderIsSound
      <4>. QED BY <2>2, <4>1 DEF Submitted, Exists, Live, IInv, Typed
    <3>3. \A x \in Sent(orders, req) : x[1] # basket
      BY <3>1, <3>2 DEF Sent
    <3>. QED BY <1>1, <2>2, <3>3, Truths, CartEdited
  <2>. QED BY <2>1, <2>2
<1>4. ViewIsTrue(orders, spoiled', view) /\ DeedsAreTrue(orders, spoiled', app, deed)
  BY <1>1, Truths, ViewOfMore, DeedsOfMore
<1>. QED
  BY <1>1, <1>2, <1>3, <1>4, Truths, ClientKeeps DEF db

(* The client lets its submission go.                                      *)
LEMMA LetGo ==
  ASSUME IInv, req' = [req EXCEPT ![Own] = NoReq]
  PROVE  /\ req' \in [Clients -> Submission] /\ req'[Own].phase = "idle"
         /\ req'[Stray] = req[Stray]
         /\ \A s \in Clients : SubmissionIsSound(orders, req'[s])
         /\ Sent(orders, req') \subseteq Sent(orders, req)
         /\ OneCart(Sent(orders, req'), spoiled, basket, cart)
         /\ Room(orders, req', lastValue)
<1>1. req \in [Clients -> Submission]
  BY DEF IInv, Typed
<1>2. /\ req' \in [Clients -> Submission] /\ req'[Own] = NoReq /\ req'[Stray] = req[Stray]
  BY <1>1, BlankTypes DEF Clients, Own, Stray
<1>3. \A s \in Clients : SubmissionIsSound(orders, req'[s])
  BY <1>2, Blank, Truths DEF Clients
<1>4. req'[Own].phase = "idle"
  BY <1>2 DEF NoReq
<1>5. Sent(orders, req') \subseteq Sent(orders, req)
  BY <1>2, <1>4 DEF Sent, Clients
<1>6. OneCart(Sent(orders, req'), spoiled, basket, cart)
  BY <1>5, Truths, FewerSent
<1>7. Creators(req') \subseteq Creators(req)
  BY <1>2, <1>4 DEF Creators, Creating, Clients
<1>8. Room(orders, req', lastValue)
  BY <1>7, Truths, RoomForFewer
<1>. QED BY <1>2, <1>3, <1>4, <1>5, <1>6, <1>8

(* Its submission is lost, or goes on without it.                          *)
LEMMA AbandonEffect ==
  ASSUME IInv, Abandon
  PROVE  /\ req' \in [Clients -> Submission] /\ req'[Own].phase = "idle"
         /\ \A s \in Clients : SubmissionIsSound(orders, req'[s])
         /\ Sent(orders, req') \subseteq Sent(orders, req)
         /\ OneCart(Sent(orders, req'), spoiled, basket, cart)
         /\ Room(orders, req', lastValue)
         /\ lock' \in Clients \cup {Nobody}
         /\ lock' # Nobody => req'[lock'].phase = "numbered"
<1>0. /\ req \in [Clients -> Submission] /\ lock \in Clients \cup {Nobody}
      /\ lock # Nobody => req[lock].phase = "numbered"
  BY DEF IInv, Typed
<1>1. CASE req[Own].phase \in {"sent", "back"} /\ req' = [req EXCEPT ![Own] = NoReq]
           /\ UNCHANGED lock
  <2>1. /\ req' \in [Clients -> Submission] /\ req'[Own].phase = "idle"
        /\ req'[Stray] = req[Stray]
        /\ \A s \in Clients : SubmissionIsSound(orders, req'[s])
        /\ Sent(orders, req') \subseteq Sent(orders, req)
        /\ OneCart(Sent(orders, req'), spoiled, basket, cart)
        /\ Room(orders, req', lastValue)
    BY <1>1, LetGo
  <2>2. lock' # Nobody => lock' = Stray /\ lock = Stray
    BY <1>0, <1>1 DEF Clients
  <2>. QED BY <1>0, <1>1, <2>1, <2>2
<1>2. CASE /\ req[Own].phase \notin {"idle", "back"}
           /\ req[Stray] = NoReq
           /\ req' = [req EXCEPT ![Own] = NoReq, ![Stray] = req[Own]]
           /\ lock' = IF lock = Own THEN Stray ELSE lock
  <2>1. /\ req' \in [Clients -> Submission] /\ req'[Own] = NoReq /\ req'[Stray] = req[Own]
    BY <1>0, <1>2, BlankTypes DEF Clients, Own, Stray
  <2>2. \A s \in Clients : SubmissionIsSound(orders, req'[s])
    BY <2>1, Blank, Truths DEF Clients
  <2>3. req'[Own].phase = "idle" /\ req[Stray].phase = "idle"
    BY <1>2, <2>1 DEF NoReq
  <2>4. Sent(orders, req') \subseteq Sent(orders, req)
    BY <2>1, <2>3, <1>2 DEF Sent, Clients
  <2>5. OneCart(Sent(orders, req'), spoiled, basket, cart)
    BY <2>4, Truths, FewerSent
  <2>6. Room(orders, req', lastValue)
    <3>1. Own \notin Creators(req')
      BY <2>3 DEF Creators, Creating
    <3>2. Creators(req') # {} => Own \in Creators(req)
      BY <2>1, <2>3 DEF Creators, Creating, Clients
    <3>3. Creators(req') # Clients
      BY <3>1 DEF Clients
    <3>. QED BY <3>2, <3>3, Truths DEF Room, Clients
  <2>7. lock' \in Clients \cup {Nobody} /\ (lock' # Nobody => req'[lock'].phase = "numbered")
    <3>1. lock # Stray
      BY <1>0, <2>3 DEF Stray, Nobody
    <3>2. CASE lock = Own
      BY <1>0, <1>2, <2>1, <3>2 DEF Clients, Own, Nobody
    <3>3. CASE lock = Nobody
      BY <1>2, <3>3 DEF Own, Nobody
    <3>. QED BY <1>0, <3>1, <3>2, <3>3 DEF Clients
  <2>. QED BY <2>1, <2>2, <2>3, <2>4, <2>5, <2>6, <2>7
<1>. QED BY <1>1, <1>2 DEF Abandon

(* A timeout, a lost request or a lost answer.                             *)
LEMMA LosePlacingKeeps ==
  ASSUME IInv, LosePlacing
  PROVE  IInv'
<1>1. Fault /\ Abandon /\ UNCHANGED <<app, ui, gets, deed, orders, lastValue, doomed, overrun>>
  BY DEF LosePlacing
<1>2. /\ req' \in [Clients -> Submission] /\ req'[Own].phase = "idle"
      /\ \A s \in Clients : SubmissionIsSound(orders, req'[s])
      /\ OneCart(Sent(orders, req'), spoiled, basket, cart)
      /\ Room(orders, req', lastValue)
      /\ lock' \in Clients \cup {Nobody}
      /\ lock' # Nobody => req'[lock'].phase = "numbered"
  BY <1>1, AbandonEffect
<1>3. Typed'
  BY <1>1, <1>2, FaultCounts DEF IInv, Typed, ui
<1>. QED
  BY <1>1, <1>2, <1>3, Truths, ClientKeeps DEF ui

(* The error is shown.                                                     *)
LEMMA PlacingFailsKeeps ==
  ASSUME IInv, PlacingFails
  PROVE  IInv'
<1>1. /\ req' = [req EXCEPT ![Own] = NoReq] /\ req[Own].phase = "back"
      /\ UNCHANGED <<app, ui, gets, deed, db, faults>>
  BY DEF PlacingFails
<1>2. /\ req' \in [Clients -> Submission] /\ req'[Own].phase = "idle"
      /\ req'[Stray] = req[Stray]
      /\ \A s \in Clients : SubmissionIsSound(orders, req'[s])
      /\ OneCart(Sent(orders, req'), spoiled, basket, cart)
      /\ Room(orders, req', lastValue)
  BY <1>1, LetGo
<1>3. Typed'
  <2>1. lock # Nobody => req'[lock].phase = "numbered"
    BY <1>1, <1>2 DEF IInv, Typed, Clients
  <2>. QED BY <1>1, <1>2, <2>1 DEF IInv, Typed, ui, db
<1>. QED
  BY <1>1, <1>2, <1>3, Truths, ClientKeeps DEF ui, db

(* placeOrder: the cart is sent under the key of the basket.               *)
LEMMA PlaceOrderKeeps ==
  ASSUME IInv, NEW method \in Methods[app], PlaceOrder(method)
  PROVE  IInv'
<1>q. PICK q : q = [NoReq EXCEPT !.phase = "sent", !.key = key, !.method = method,
                                !.cart = cart, !.basket = basket]
  OBVIOUS
<1>1. /\ req[Own].phase = "idle" /\ cart # 0
      /\ basket < MaxBaskets \/ app # "MOBILE"
      /\ Cardinality(Unused) > (IF req[Stray] = NoReq THEN 0 ELSE 1)
      /\ req' = [req EXCEPT ![Own] = q]
      /\ UNCHANGED <<app, ui, gets, deed, db, faults>>
  BY <1>q DEF PlaceOrder, Paying, Busy
<1>2. /\ req \in [Clients -> Submission] /\ cart \in 1 .. 2
      /\ basket \in 1 .. MaxBaskets /\ key = basket
  BY <1>1 DEF IInv, Typed
<1>3. method \in AnyMethod
  BY DEF Methods, AnyMethod, IInv, Typed
<1>4. /\ q \in Submission
      /\ q.phase = "sent" /\ q.key = basket /\ q.basket = basket /\ q.cart = cart
      /\ q.order = 0 /\ q.answer = NoPay
  <2>1. q = [phase |-> "sent", key |-> basket, method |-> method, cart |-> cart,
             basket |-> basket, order |-> 0, answer |-> NoPay]
    BY <1>q, <1>2 DEF NoReq
  <2>2. "sent" \in Phases /\ basket \in 0 .. MaxBaskets /\ cart \in 0 .. 2 /\ 0 \in 0 .. MaxOrders
    BY <1>2, Numbers DEF Phases
  <2>3. NoPay \in PayViews
    BY BlankTypes
  <2>4. q \in Submission
    BY <2>1, <2>2, <2>3, <1>3 DEF Submission
  <2>. QED BY <2>1, <2>4
<1>5. SubmissionIsSound(orders, q)
  BY <1>2, <1>4, Blank DEF SubmissionIsSound, NoPay, NoPayment
<1>6. req' \in [Clients -> Submission] /\ req'[Own] = q /\ req'[Stray] = req[Stray]
  BY <1>1, <1>2, <1>4 DEF Clients, Own, Stray
<1>7. \A s \in Clients : SubmissionIsSound(orders, req'[s])
  BY <1>5, <1>6, Truths DEF Clients
<1>8. OneCart(Sent(orders, req'), spoiled, basket, cart)
  <2>1. Sent(orders, req') \subseteq Sent(orders, req) \cup {<<basket, cart>>}
    <3>1. \A r \in Clients : req'[r].phase # "idle" =>
             \/ req[r].phase # "idle" /\ req'[r] = req[r]
             \/ req'[r].basket = basket /\ req'[r].cart = cart
      BY <1>4, <1>6 DEF Clients
    <3>. QED BY <3>1 DEF Sent
  <2>2. OneCart(Sent(orders, req) \cup {<<basket, cart>>}, spoiled, basket, cart)
    BY <1>2, Truths, CartSubmitted
  <2>. QED BY <2>1, <2>2, FewerSent
<1>9. Room(orders, req', lastValue)
  <2>1. PICK k \in 0 .. MaxOrders :
          /\ \A o \in OrderIds : orders[o] = Absent <=> o > k
          /\ lastValue <= k
    BY Truths DEF Room
  <2>2. Unused = k + 1 .. MaxOrders
    BY <2>1 DEF Unused, OrderIds
  <2>3. Cardinality(Unused) = MaxOrders - k
    <3>1. k + 1 \in Int /\ MaxOrders \in Int
      BY <2>1, Numbers
    <3>2. Cardinality(k + 1 .. MaxOrders) = IF k + 1 > MaxOrders THEN 0 ELSE MaxOrders - (k + 1) + 1
      BY <3>1, FS_Interval
    <3>. QED BY <2>1, <2>2, <3>2, Numbers
  <2>4. k + 1 <= MaxOrders
    BY <1>1, <2>1, <2>3, Numbers
  <2>5. Creators(req') = Clients => k + 2 <= MaxOrders
    <3>1. CASE req[Stray] = NoReq
      <4>1. Stray \notin Creators(req')
        BY <1>6, <3>1 DEF Creators, Creating, NoReq
      <4>. QED BY <4>1 DEF Clients
    <3>2. CASE req[Stray] # NoReq
      <4>1. MaxOrders - k > 1
        BY <1>1, <2>3, <3>2
      <4>. QED BY <4>1, <2>1, Numbers
    <3>. QED BY <3>1, <3>2
  <2>. QED BY <2>1, <2>4, <2>5 DEF Room
<1>10. Typed'
  <2>1. lock # Nobody => req'[lock].phase = "numbered"
    BY <1>1, <1>6 DEF IInv, Typed, Clients
  <2>. QED BY <1>1, <1>6, <2>1 DEF IInv, Typed, ui, db
<1>. QED
  BY <1>1, <1>7, <1>8, <1>9, <1>10, Truths, ClientKeeps DEF ui, db

(* reset: the next customer has submitted nothing.                         *)
LEMMA NewBasketEffect ==
  ASSUME IInv, NewBasket, basket < MaxBaskets
  PROVE  /\ basket' \in 1 .. MaxBaskets /\ key' = basket' /\ cart' = 0 /\ cart' \in 0 .. 2
         /\ spoiled' = spoiled
         /\ \A s : s \subseteq Sent(orders, req) => OneCart(s, spoiled', basket', cart')
<1>1. /\ basket' = basket + 1 /\ key' = key + 1 /\ cart' = 0 /\ spoiled' = spoiled
      /\ basket \in 1 .. MaxBaskets /\ key = basket
  BY DEF NewBasket, NewKey, IInv, Typed
<1>2. OneCart(Sent(orders, req), spoiled, basket + 1, 0)
  BY <1>1, Truths, SentType, NextCustomer
<1>3. \A s : s \subseteq Sent(orders, req) => OneCart(s, spoiled, basket + 1, 0)
  BY <1>2, FewerSent
<1>. QED BY <1>1, <1>3, Numbers

(* A view that shows another payment, another method, or went another way. *)
Shown(v, p, m, x) ==
  [order |-> v.order, sent |-> v.sent, mode |-> m, first |-> v.first, pay |-> p, swapped |-> x]

(* A view stays true when it shows another true payment.                   *)
LEMMA ShownIsTrue ==
  ASSUME NEW os, NEW sp, NEW v \in AnyView, ViewIsTrue(os, sp, v),
         NEW p \in PayViews, PayIsTrue(os, p), NEW m \in AnyMethod \cup {"none"},
         NEW x \in BOOLEAN
  PROVE  /\ Shown(v, p, m, x) \in AnyView /\ ViewIsTrue(os, sp, Shown(v, p, m, x))
         /\ ViewIsItsOwn("POS", Shown(v, p, m, x))
         /\ \A a : (/\ ViewIsItsOwn(a, v)
                    /\ ~x /\ a # "POS" /\ p # NoPay => p.order = v.order
                    /\ a = "KIOSK" /\ p # NoPay => v.order # 0)
                   => ViewIsItsOwn(a, Shown(v, p, m, x))
<1>1. /\ Shown(v, p, m, x).order = v.order /\ Shown(v, p, m, x).sent = v.sent
      /\ Shown(v, p, m, x).first = v.first /\ Shown(v, p, m, x).pay = p
      /\ Shown(v, p, m, x).swapped = x
  BY DEF Shown
<1>2. Shown(v, p, m, x) \in AnyView
  BY DEF Shown, AnyView
<1>3. ViewIsTrue(os, sp, Shown(v, p, m, x))
  BY <1>1 DEF ViewIsTrue
<1>4. ViewIsItsOwn("POS", Shown(v, p, m, x))
  BY DEF ViewIsItsOwn
<1>5. ASSUME NEW a, ViewIsItsOwn(a, v), ~x /\ a # "POS" /\ p # NoPay => p.order = v.order,
             a = "KIOSK" /\ p # NoPay => v.order # 0
      PROVE  ViewIsItsOwn(a, Shown(v, p, m, x))
  <2>. PICK w : w = Shown(v, p, m, x)
    OBVIOUS
  <2>1. w.first = v.first /\ w.order = v.order /\ w.pay = p /\ w.swapped = x
    BY <1>1
  <2>. QED BY <1>5, <2>1 DEF ViewIsItsOwn
<1>. QED BY <1>2, <1>3, <1>4, <1>5

(* The parts of a view are typed.                                          *)
LEMMA ViewParts ==
  ASSUME NEW v \in AnyView
  PROVE  /\ v.pay \in PayViews /\ v.first \in PayViews /\ v.swapped \in BOOLEAN
         /\ v.mode \in AnyMethod \cup {"none"}
         /\ \A p : [v EXCEPT !.pay = p] = Shown(v, p, v.mode, v.swapped)
<1>1. /\ v.pay \in PayViews /\ v.first \in PayViews /\ v.swapped \in BOOLEAN
      /\ v.mode \in AnyMethod \cup {"none"}
      /\ v = [order |-> v.order, sent |-> v.sent, mode |-> v.mode, first |-> v.first,
              pay |-> v.pay, swapped |-> v.swapped]
  BY DEF AnyView
<1>2. ASSUME NEW p PROVE [v EXCEPT !.pay = p] = Shown(v, p, v.mode, v.swapped)
  BY <1>1 DEF Shown
<1>. QED BY <1>1, <1>2

(* The answer is shown whenever it comes.                                  *)
LEMMA OrderPlacedKeeps ==
  ASSUME IInv, OrderPlaced
  PROVE  IInv'
<1>. PICK q : q = req[Own]
  OBVIOUS
<1>1. /\ q \in Submission /\ SubmissionIsSound(orders, q)
      /\ q.phase = "back" /\ q.order # 0
  BY TheSubmission DEF OrderPlaced, Succeeds, Clients
<1>. PICK open \in BOOLEAN : open = (app = "KIOSK" /\ view # NoView)
  OBVIOUS
<1>2. /\ view' = [order |-> q.order, sent |-> q.cart, mode |-> q.method,
                  first |-> IF app = "KIOSK" THEN q.answer ELSE NoPay,
                  pay |-> IF open THEN view.pay ELSE q.answer, swapped |-> open]
      /\ screen' = "result"
      /\ req' = [req EXCEPT ![Own] = NoReq]
      /\ IF app = "MOBILE" THEN NewBasket ELSE UNCHANGED <<cart, key, basket, spoiled>>
      /\ UNCHANGED <<app, gets, deed, db, faults>>
  BY DEF OrderPlaced
<1>3. /\ req' \in [Clients -> Submission] /\ req'[Own].phase = "idle"
      /\ req'[Stray] = req[Stray]
      /\ \A s \in Clients : SubmissionIsSound(orders, req'[s])
      /\ Sent(orders, req') \subseteq Sent(orders, req)
      /\ OneCart(Sent(orders, req'), spoiled, basket, cart)
      /\ Room(orders, req', lastValue)
  BY <1>2, LetGo
<1>4. /\ basket' \in 1 .. MaxBaskets /\ key' = basket' /\ cart' \in 0 .. 2
      /\ spoiled' = spoiled
      /\ OneCart(Sent(orders, req'), spoiled', basket', cart')
  <2>1. CASE app = "MOBILE"
    <3>1. basket < MaxBaskets /\ NewBasket
      BY <1>1, <1>2, <2>1 DEF IInv, Typed
    <3>. QED BY <1>3, <3>1, NewBasketEffect
  <2>2. CASE app # "MOBILE"
    BY <1>2, <1>3, <2>2 DEF IInv, Typed
  <2>. QED BY <2>1, <2>2
<1>. PICK v : v = view'
  OBVIOUS
<1>5. /\ v.order = q.order /\ v.sent = q.cart
      /\ v.pay = IF open THEN view.pay ELSE q.answer
      /\ v.first = IF app = "KIOSK" THEN q.answer ELSE NoPay
      /\ v.swapped = open
      /\ v \in AnyView
  <2>1. q.answer \in PayViews /\ NoPay \in PayViews /\ q.order \in 0 .. MaxOrders
        /\ q.cart \in 0 .. 2 /\ q.method \in AnyMethod
        /\ view.pay \in PayViews /\ open \in BOOLEAN
    BY <1>1, BlankTypes, ViewParts DEF Submission, IInv, Typed
  <2>. QED BY <1>2, <2>1 DEF AnyView
<1>6. ViewIsTrue(orders, spoiled, v)
  <2>1. PayIsTrue(orders, v.pay) /\ PayIsTrue(orders, v.first) /\ Met(orders, v.order)
    BY <1>1, <1>5, Blank, Truths DEF SubmissionIsSound, ViewIsTrue
  <2>2. ASSUME Live(orders, v.order), orders[v.order].basket \notin spoiled
        PROVE  orders[v.order].cart = v.sent
    <3>1. orders[v.order].key = <<q.key, q.method>> /\ v.order \in OrderIds
      BY <1>1, <1>5, <2>2 DEF SubmissionIsSound, Live
    <3>2. orders[v.order].basket = q.basket
      BY <1>1, <2>2, <3>1, TheOrder DEF OrderIsSound, SubmissionIsSound
    <3>3. /\ <<orders[v.order].basket, orders[v.order].cart>> \in Sent(orders, req)
          /\ <<q.basket, q.cart>> \in Sent(orders, req)
      BY <1>1, <2>2, <3>1 DEF Sent, Clients
    <3>. QED BY <1>5, <2>2, <3>2, <3>3, Truths DEF OneCart
  <2>. QED BY <2>1, <2>2 DEF ViewIsTrue
<1>7. ViewIsItsOwn(app, v)
  BY <1>1, <1>5 DEF ViewIsItsOwn, SubmissionIsSound
<1>8. ReadIsItsOwn(app, v, gets)
  <2>1. app = "KIOSK" /\ gets # NoPay => view.order # 0
    BY Truths DEF ReadIsItsOwn
  <2>2. ASSUME app = "KIOSK", gets # NoPay PROVE v.order # 0 /\ v.swapped = TRUE
    <3>1. view # NoView
      BY <2>1, <2>2 DEF NoView
    <3>2. open = TRUE
      BY <2>2, <3>1
    <3>. QED BY <1>1, <1>5, <3>2
  <2>. QED BY <2>2 DEF ReadIsItsOwn
<1>9. Typed'
  <2>1. lock # Nobody => req'[lock].phase = "numbered"
    BY <1>1, <1>3 DEF IInv, Typed, Clients
  <2>. QED BY <1>2, <1>3, <1>4, <1>5, <2>1 DEF IInv, Typed, db
<1>. QED
  BY <1>2, <1>3, <1>4, <1>6, <1>7, <1>8, <1>9, Truths, ClientKeeps DEF db

(* The kiosk and the till start over.                                      *)
LEMMA ResetKeeps ==
  ASSUME IInv, Reset, app # "MOBILE",
         deed' \in [Slots -> AnyDeed], DeedsAreTrue(orders, spoiled, app, deed'),
         gets' \in {gets, NoPay}, app = "KIOSK" => gets' = NoPay,
         UNCHANGED <<app, req, db, faults>>
  PROVE  IInv'
<1>1. /\ basket' \in 1 .. MaxBaskets /\ key' = basket' /\ cart' \in 0 .. 2
      /\ spoiled' = spoiled
      /\ OneCart(Sent(orders, req), spoiled', basket', cart')
  BY NewBasketEffect DEF Reset
<1>2. /\ view' = NoView /\ screen' \in {"welcome", "basket"}
  BY DEF Reset, FirstScreen
<1>3. gets' \in PayViews /\ PayIsTrue(orders, gets') /\ ReadIsItsOwn(app, view', gets')
  BY BlankTypes, Blank, Truths DEF IInv, Typed, ReadIsItsOwn
<1>4. Typed'
  BY <1>1, <1>2, <1>3, BlankTypes DEF IInv, Typed, db
<1>. QED
  BY <1>1, <1>2, <1>3, <1>4, Blank, Truths, ClientKeeps DEF db

(* The user starts over.                                                   *)
LEMMA StartOverKeeps ==
  ASSUME IInv, StartOver
  PROVE  IInv'
<1>1. CASE app # "MOBILE"
  <2>1. /\ Reset /\ gets' \in {gets, NoPay} /\ (app = "KIOSK" => gets' = NoPay)
        /\ UNCHANGED <<app, req, deed, db, faults>>
    BY <1>1 DEF StartOver, Left
  <2>2. deed' \in [Slots -> AnyDeed] /\ DeedsAreTrue(orders, spoiled, app, deed')
    BY <2>1, Truths DEF IInv, Typed
  <2>. QED BY <1>1, <2>1, <2>2, ResetKeeps
<1>2. CASE app = "MOBILE"
  <2>1. /\ screen' = "basket" /\ view' = NoView /\ gets' = NoPay
        /\ UNCHANGED <<cart, key, basket, spoiled>>
        /\ UNCHANGED <<app, req, deed, db, faults>>
    BY <1>2 DEF StartOver, Left
  <2>2. Typed'
    BY <2>1, BlankTypes DEF IInv, Typed, db
  <2>. QED
    BY <2>1, <2>2, Blank, Truths, ClientKeeps DEF db
<1>. QED BY <1>1, <1>2

(* The page is loaded anew, whatever is under way.                         *)
LEMMA RestartKeeps ==
  ASSUME IInv, Restart
  PROVE  IInv'
<1>1. /\ Fault /\ basket < MaxBaskets /\ NewBasket
      /\ view' = IF app = "MOBILE" THEN view ELSE NoView
      /\ screen' \in {"welcome", "basket", "result"}
      /\ (~Paying /\ UNCHANGED <<req, lock>>) \/ Abandon
      /\ gets' = NoPay /\ deed' = NoDeeds
      /\ UNCHANGED <<app, orders, lastValue, doomed, overrun>>
  BY DEF Restart, FirstScreen
<1>2. /\ basket' \in 1 .. MaxBaskets /\ key' = basket' /\ cart' \in 0 .. 2
      /\ spoiled' = spoiled
      /\ \A s : s \subseteq Sent(orders, req) => OneCart(s, spoiled', basket', cart')
  BY <1>1, NewBasketEffect
<1>3. /\ req' \in [Clients -> Submission] /\ req'[Own].phase = "idle"
      /\ \A s \in Clients : SubmissionIsSound(orders, req'[s])
      /\ Sent(orders, req') \subseteq Sent(orders, req)
      /\ Room(orders, req', lastValue)
      /\ lock' \in Clients \cup {Nobody}
      /\ lock' # Nobody => req'[lock'].phase = "numbered"
  <2>1. CASE Abandon
    BY <2>1, AbandonEffect
  <2>2. CASE ~Paying /\ UNCHANGED <<req, lock>>
    BY <2>2, Truths DEF Paying, IInv, Typed
  <2>. QED BY <1>1, <2>1, <2>2
<1>4. view' \in AnyView /\ ViewIsTrue(orders, spoiled, view') /\ ViewIsItsOwn(app, view')
  BY <1>1, BlankTypes, Blank, Truths DEF IInv, Typed
<1>5. Typed'
  BY <1>1, <1>2, <1>3, <1>4, BlankTypes, FaultCounts DEF IInv, Typed
<1>. QED
  BY <1>1, <1>2, <1>3, <1>4, <1>5, Blank, ClientKeeps

(* The payment on the screen is asked for.                                 *)
LEMMA AskPaymentKeeps ==
  ASSUME IInv, AskPayment
  PROVE  IInv'
<1>. PICK p : p = view.pay
  OBVIOUS
<1>1. p \in PayViews /\ PayIsTrue(orders, p)
  BY ViewParts, Truths DEF ViewIsTrue, IInv, Typed
<1>2. gets' = [p EXCEPT !.status = "asked"] /\ UNCHANGED <<app, ui, req, deed, db, faults>>
  BY DEF AskPayment
<1>3. /\ gets' \in PayViews /\ gets'.order = p.order /\ gets'.n = p.n /\ gets'.status = "asked"
  BY <1>1, <1>2 DEF PayViews
<1>4. PayIsTrue(orders, gets')
  BY <1>1, <1>3 DEF PayIsTrue
<1>5. ReadIsItsOwn(app, view, gets')
  <2>1. p # NoPay
    BY DEF AskPayment, Pending, InFlight, NoPay, NoPayment
  <2>. QED BY <1>3, <2>1, Truths DEF ReadIsItsOwn, ViewIsItsOwn
<1>6. Typed'
  BY <1>2, <1>3 DEF IInv, Typed, ui, db
<1>. QED
  BY <1>2, <1>4, <1>5, <1>6, Truths, ClientKeeps DEF ui, db

(* It is read.                                                             *)
LEMMA ReadPaymentKeeps ==
  ASSUME IInv, ReadPayment
  PROVE  IInv'
<1>1. /\ gets' = IF Exists(gets.order) THEN PaymentView(gets.order, gets.n) ELSE NoPay
      /\ UNCHANGED <<app, ui, req, deed, db, faults>>
  BY DEF ReadPayment
<1>2. gets' \in PayViews /\ PayIsTrue(orders, gets') /\ ReadIsItsOwn(app, view, gets')
  <2>1. CASE Exists(gets.order)
    <3>. PICK o, n : o = gets.order /\ n = gets.n
      OBVIOUS
    <3>1. Live(orders, o) /\ n \in DOMAIN orders[o].pays
      BY <2>1, Truths DEF Exists, Live, PayIsTrue
    <3>2. gets # NoPay /\ gets'.order = gets.order
      BY <1>1, <2>1 DEF ReadPayment, PaymentView, NoPay, NoPayment
    <3>3. ReadIsItsOwn(app, view, gets')
      BY <3>2, Truths DEF ReadIsItsOwn
    <3>. QED BY <1>1, <2>1, <3>1, <3>3, PaymentViewIsTrue
  <2>2. CASE ~Exists(gets.order)
    BY <1>1, <2>2, BlankTypes, Blank
  <2>. QED BY <2>1, <2>2
<1>3. Typed'
  BY <1>1, <1>2 DEF IInv, Typed, ui, db
<1>. QED
  BY <1>1, <1>2, <1>3, Truths, ClientKeeps DEF ui, db

(* The answer is shown, by the till on whatever order it shows.            *)
LEMMA PaymentReadKeeps ==
  ASSUME IInv, PaymentRead
  PROVE  IInv'
<1>1. /\ gets' = NoPay
      /\ view' = IF view # NoView /\ Applies(gets) THEN [view EXCEPT !.pay = gets] ELSE view
      /\ UNCHANGED <<app, screen, cart, key, basket, spoiled, req, deed, db, faults>>
  BY DEF PaymentRead
<1>2. view' \in AnyView /\ ViewIsTrue(orders, spoiled, view') /\ ViewIsItsOwn(app, view')
  <2>1. CASE view # NoView /\ Applies(gets)
    <3>. PICK v, p : v = view /\ p = gets
      OBVIOUS
    <3>1. /\ v \in AnyView /\ ViewIsTrue(orders, spoiled, v) /\ ViewIsItsOwn(app, v)
          /\ p \in PayViews /\ PayIsTrue(orders, p) /\ ReadIsItsOwn(app, v, p)
      BY Truths DEF IInv, Typed
    <3>2. /\ view' = Shown(v, p, v.mode, v.swapped) /\ v.mode \in AnyMethod \cup {"none"}
          /\ v.swapped \in BOOLEAN
      BY <1>1, <2>1, <3>1, ViewParts
    <3>3. /\ app # "POS" /\ ~v.swapped /\ p # NoPay => p.order = v.order
          /\ app = "KIOSK" /\ p # NoPay => v.order # 0
      <4>1. app \in {"KIOSK", "POS", "MOBILE"}
        BY DEF IInv, Typed, Methods
      <4>. QED BY <2>1, <3>1, <4>1 DEF Applies, ReadIsItsOwn
    <3>4. /\ Shown(v, p, v.mode, v.swapped) \in AnyView
          /\ ViewIsTrue(orders, spoiled, Shown(v, p, v.mode, v.swapped))
          /\ ViewIsItsOwn(app, Shown(v, p, v.mode, v.swapped))
      BY <3>1, <3>2, <3>3, ShownIsTrue
    <3>. QED BY <3>2, <3>4
  <2>2. CASE ~(view # NoView /\ Applies(gets))
    BY <1>1, <2>2, Truths DEF IInv, Typed
  <2>. QED BY <2>1, <2>2
<1>3. Typed'
  BY <1>1, <1>2, BlankTypes DEF IInv, Typed, db
<1>. QED
  BY <1>1, <1>2, <1>3, Blank, Truths, ClientKeeps DEF db

(* The read is lost.                                                       *)
LEMMA LoseReadKeeps ==
  ASSUME IInv, LoseRead
  PROVE  IInv'
<1>1. Fault /\ gets' = NoPay /\ UNCHANGED <<app, ui, req, deed, db>>
  BY DEF LoseRead
<1>2. Typed'
  BY <1>1, BlankTypes, FaultCounts DEF IInv, Typed, ui, db
<1>. QED
  BY <1>1, <1>2, Blank, Truths, ClientKeeps DEF ui, db

(* A button is pressed: the press carries what the screen shows.           *)
LEMMA PressKeeps ==
  ASSUME IInv, NEW kind \in Deeds, Press(kind)
  PROVE  IInv'
<1>. PICK d \in Slots :
       deed' = [deed EXCEPT ![d] = [kind |-> kind, phase |-> "sent", at |-> view,
                                    basket |-> basket, answer |-> NoPay]]
  BY DEF Press
<1>. PICK x : x = [kind |-> kind, phase |-> "sent", at |-> view, basket |-> basket,
                   answer |-> NoPay]
  OBVIOUS
<1>1. UNCHANGED <<app, ui, req, gets, db>> /\ (UNCHANGED faults \/ Fault)
  BY DEF Press
<1>2. kind \in {"retry", "confirm", "cancel"}
  <2>1. app \in {"KIOSK", "POS", "MOBILE"}
    BY DEF IInv, Typed, Methods
  <2>. QED BY <2>1 DEF Deeds
<1>3. x \in AnyDeed /\ x.at = view /\ x.answer = NoPay
  BY <1>2, BlankTypes DEF AnyDeed, IInv, Typed
<1>4. deed' \in [Slots -> AnyDeed] /\ DeedsAreTrue(orders, spoiled, app, deed')
  BY <1>3, Blank, Truths, OneDeed DEF IInv, Typed
<1>5. Typed'
  BY <1>1, <1>4, FaultCounts DEF IInv, Typed, ui, db
<1>. QED
  BY <1>1, <1>4, <1>5, Truths, ClientKeeps DEF ui, db

(* Cash instead of a failed card.                                          *)
LEMMA PayCashInsteadKeeps ==
  ASSUME IInv, PayCashInstead
  PROVE  IInv'
<1>. PICK v : v = view
  OBVIOUS
<1>. PICK m : m = IF app = "POS" THEN "CASH" ELSE v.mode
  OBVIOUS
<1>1. /\ v \in AnyView /\ ViewIsTrue(orders, spoiled, v) /\ ViewIsItsOwn(app, v)
  BY Truths DEF IInv, Typed
<1>2. /\ view' = [v EXCEPT !.pay = NoPay, !.mode = m]
      /\ UNCHANGED <<app, screen, cart, key, basket, spoiled, req, gets, deed, db, faults>>
  BY DEF PayCashInstead
<1>3. /\ view' = Shown(v, NoPay, m, v.swapped) /\ m \in AnyMethod \cup {"none"}
      /\ v.swapped \in BOOLEAN
  <2>1. view' = Shown(v, NoPay, m, v.swapped)
    BY <1>1, <1>2 DEF AnyView, Shown
  <2>2. m \in AnyMethod \cup {"none"} /\ v.swapped \in BOOLEAN
    BY <1>1, ViewParts DEF AnyMethod
  <2>. QED BY <2>1, <2>2
<1>4. ReadIsItsOwn(app, view', gets)
  <2>1. view'.order = v.order /\ view'.swapped = v.swapped
    BY <1>3 DEF Shown
  <2>. QED BY <2>1, Truths DEF ReadIsItsOwn
<1>5. /\ Shown(v, NoPay, m, v.swapped) \in AnyView
      /\ ViewIsTrue(orders, spoiled, Shown(v, NoPay, m, v.swapped))
      /\ ViewIsItsOwn(app, Shown(v, NoPay, m, v.swapped))
  BY <1>1, <1>3, BlankTypes, Blank, ShownIsTrue
<1>6. Typed'
  BY <1>2, <1>3, <1>5 DEF IInv, Typed, db
<1>. QED
  BY <1>2, <1>3, <1>4, <1>5, <1>6, Truths, ClientKeeps DEF db

(* The answer to a press.                                                  *)
Answered(x, a) == [x EXCEPT !.phase = "back", !.answer = a]

LEMMA AnswerType ==
  ASSUME NEW x \in AnyDeed, NEW a \in PayViews
  PROVE  /\ Answered(x, a) \in AnyDeed
         /\ Answered(x, a).at = x.at /\ Answered(x, a).answer = a
<1>. PICK y : y = Answered(x, a)
  OBVIOUS
<1>1. y = [x EXCEPT !.phase = "back", !.answer = a]
  BY DEF Answered
<1>2. y \in AnyDeed /\ y.at = x.at /\ y.answer = a
  BY <1>1 DEF AnyDeed
<1>. QED BY <1>2

(* ... is true with the press.                                             *)
LEMMA AnswerIsTrue ==
  ASSUME NEW os, NEW sp, NEW b, NEW dd \in [Slots -> AnyDeed], DeedsAreTrue(os, sp, b, dd),
         NEW d \in Slots, NEW a \in PayViews, PayIsTrue(os, a),
         a # NoPay => dd[d].at.order # 0
  PROVE  /\ [dd EXCEPT ![d].phase = "back", ![d].answer = a] \in [Slots -> AnyDeed]
         /\ DeedsAreTrue(os, sp, b, [dd EXCEPT ![d].phase = "back", ![d].answer = a])
<1>1. /\ Answered(dd[d], a) \in AnyDeed
      /\ Answered(dd[d], a).at = dd[d].at /\ Answered(dd[d], a).answer = a
  <2>1. dd[d] \in AnyDeed
    OBVIOUS
  <2>. QED BY <2>1, AnswerType
<1>2. ViewIsTrue(os, sp, dd[d].at) /\ ViewIsItsOwn(b, dd[d].at)
  BY DEF DeedsAreTrue
<1>. PICK x \in AnyDeed : x = Answered(dd[d], a)
  BY <1>1
<1>3. /\ ViewIsTrue(os, sp, x.at) /\ ViewIsItsOwn(b, x.at) /\ PayIsTrue(os, x.answer)
      /\ x.answer # NoPay => x.at.order # 0
  BY <1>1, <1>2
<1>4. /\ [dd EXCEPT ![d] = x] \in [Slots -> AnyDeed]
      /\ DeedsAreTrue(os, sp, b, [dd EXCEPT ![d] = x])
  BY <1>3, OneDeed
<1>5. [dd EXCEPT ![d].phase = "back", ![d].answer = a] = [dd EXCEPT ![d] = x]
  BY DEF Answered
<1>. QED BY <1>4, <1>5

(* The press is lost, or its answer.                                       *)
LEMMA LoseDeedKeeps ==
  ASSUME IInv, NEW d \in Slots, LoseDeed(d)
  PROVE  IInv'
<1>1. /\ Fault /\ deed' = [deed EXCEPT ![d].phase = "back", ![d].answer = NoPay]
      /\ UNCHANGED <<app, ui, req, gets, db>>
  BY DEF LoseDeed
<1>2. deed' \in [Slots -> AnyDeed] /\ DeedsAreTrue(orders, spoiled, app, deed')
  BY <1>1, BlankTypes, Blank, Truths, AnswerIsTrue DEF IInv, Typed
<1>3. Typed'
  BY <1>1, <1>2, FaultCounts DEF IInv, Typed, ui, db
<1>. QED
  BY <1>1, <1>2, <1>3, Truths, ClientKeeps DEF ui, db

(* The answer of a press is shown, also when the screen has gone on.       *)
LEMMA DeedEndsKeeps ==
  ASSUME IInv, NEW d \in Slots, DeedEnds(d)
  PROVE  IInv'
<1>1. deed' = [deed EXCEPT ![d] = NoDeed] /\ UNCHANGED <<app, req, gets, db, faults>>
  BY DEF DeedEnds
<1>2. deed' \in [Slots -> AnyDeed] /\ DeedsAreTrue(orders, spoiled, app, deed')
  <2>1. NoDeed.at = NoView /\ NoDeed.answer = NoPay
    BY DEF NoDeed
  <2>. QED BY <1>1, <2>1, BlankTypes, Blank, Truths, OneDeed DEF IInv, Typed
<1>3. CASE app = "POS" /\ Reset
  BY <1>1, <1>2, <1>3, ResetKeeps
<1>4. CASE /\ view' \in AnyView /\ ViewIsTrue(orders, spoiled, view') /\ ViewIsItsOwn(app, view')
           /\ ReadIsItsOwn(app, view', gets)
           /\ screen' \in {screen, "result"}
           /\ UNCHANGED <<cart, key, basket, spoiled>>
  <2>1. Typed'
    BY <1>1, <1>2, <1>4 DEF IInv, Typed, db
  <2>. QED
    BY <1>1, <1>2, <1>4, <2>1, Truths, ClientKeeps DEF db
<1>. PICK v, at, p : v = view /\ at = deed[d].at /\ p = deed[d].answer
  OBVIOUS
<1>5. /\ v \in AnyView /\ at \in AnyView /\ p \in PayViews
      /\ ViewIsTrue(orders, spoiled, v) /\ ViewIsItsOwn(app, v)
      /\ ViewIsTrue(orders, spoiled, at) /\ ViewIsItsOwn(app, at)
      /\ PayIsTrue(orders, p) /\ PayIsTrue(orders, at.first) /\ PayIsTrue(orders, v.pay)
      /\ p # NoPay => at.order # 0
      /\ ReadIsItsOwn(app, v, gets)
  BY Truths DEF IInv, Typed, AnyDeed, ViewIsTrue, DeedsAreTrue
<1>6. ASSUME app = "POS",
             view' = [at EXCEPT !.pay = p, !.mode = v.mode],
             screen' = "result",
             UNCHANGED <<cart, key, basket, spoiled>>
      PROVE  IInv'
  <2>1. /\ view' = Shown(at, p, v.mode, at.swapped) /\ v.mode \in AnyMethod \cup {"none"}
        /\ at.swapped \in BOOLEAN
    <3>1. view' = Shown(at, p, v.mode, at.swapped)
      BY <1>5, <1>6 DEF AnyView, Shown
    <3>. QED BY <1>5, <3>1, ViewParts
  <2>2. /\ Shown(at, p, v.mode, at.swapped) \in AnyView
        /\ ViewIsTrue(orders, spoiled, Shown(at, p, v.mode, at.swapped))
        /\ ViewIsItsOwn(app, Shown(at, p, v.mode, at.swapped))
    BY <1>5, <1>6, <2>1, ShownIsTrue
  <2>3. ReadIsItsOwn(app, view', gets)
    BY <1>6 DEF ReadIsItsOwn
  <2>. QED BY <1>4, <1>6, <2>1, <2>2, <2>3
<1>7. ASSUME app = "KIOSK", p # NoPay,
             view' = IF v = NoView
                     THEN [at EXCEPT !.pay = at.first, !.swapped = FALSE]
                     ELSE [at EXCEPT !.pay = v.pay,
                                     !.swapped = v.swapped \/ at.order # v.order],
             screen' = "result",
             UNCHANGED <<cart, key, basket, spoiled>>
      PROVE  IInv'
  <2>. PICK q, x : /\ q = IF v = NoView THEN at.first ELSE v.pay
                   /\ x = IF v = NoView THEN FALSE ELSE v.swapped \/ at.order # v.order
    OBVIOUS
  <2>1. view' = Shown(at, q, at.mode, x)
    BY <1>5, <1>7 DEF AnyView, Shown
  <2>2. /\ q \in PayViews /\ PayIsTrue(orders, q) /\ x \in BOOLEAN
        /\ at.mode \in AnyMethod \cup {"none"}
    BY <1>5, ViewParts
  <2>3. ~x /\ q # NoPay => q.order = at.order
    BY <1>5, <1>7 DEF ViewIsItsOwn
  <2>4. /\ Shown(at, q, at.mode, x) \in AnyView
        /\ ViewIsTrue(orders, spoiled, Shown(at, q, at.mode, x))
        /\ ViewIsItsOwn(app, Shown(at, q, at.mode, x))
    BY <1>5, <1>7, <2>2, <2>3, ShownIsTrue
  <2>5. ReadIsItsOwn(app, view', gets)
    <3>1. view'.order = at.order /\ view'.swapped = x
      BY <2>1 DEF Shown
    <3>2. v = NoView => gets = NoPay
      BY <1>5, <1>7 DEF ReadIsItsOwn, NoView
    <3>. QED BY <1>5, <1>7, <3>1, <3>2 DEF ReadIsItsOwn
  <2>. QED BY <1>4, <1>7, <2>1, <2>4, <2>5
<1>8. CASE UNCHANGED ui
  BY <1>4, <1>5, <1>8 DEF ui
<1>. QED BY <1>3, <1>6, <1>7, <1>8 DEF DeedEnds

-----------------------------------------------------------------------------
(* A step of the server on orders that are there.                          *)
LEMMA TableKeeps ==
  ASSUME IInv, Follows(orders, orders'),
         deed' \in [Slots -> AnyDeed], DeedsAreTrue(orders', spoiled, app, deed'),
         lastValue' \in 0 .. MaxOrders, faults' \in 0 .. MaxFaults[app],
         doomed' \subseteq OrderIds,
         Room(orders, req, lastValue'),
         Numbering(orders', lastValue', overrun),
         PurgeSeesAll(orders', doomed', overrun),
         UNCHANGED <<app, ui, req, gets, lock, overrun>>
  PROVE  IInv'
<1>1. /\ ViewIsTrue(orders', spoiled, view)
      /\ PayIsTrue(orders', gets)
      /\ \A s \in Clients : SubmissionIsSound(orders', req[s])
  BY GrownKeeps DEF Follows
<1>2. Typed'
  BY DEF IInv, Typed, ui
<1>3. Client'
  BY <1>1, Truths DEF Client, ui
<1>4. Server'
  <2>1. Room(orders', req, lastValue')
    BY Truths, FollowsKeeps
  <2>. QED BY <2>1 DEF Server, Follows
<1>5. Submissions'
  <2>1. Sent(orders', req) \subseteq Sent(orders, req)
    BY Truths, FollowsKeeps
  <2>2. OneCart(Sent(orders', req), spoiled, basket, cart)
    BY <2>1, Truths, FewerSent
  <2>. QED BY <1>1, <2>2 DEF Submissions, ui
<1>. QED BY <1>2, <1>3, <1>4, <1>5 DEF IInv

(* ... that deletes none of them.                                          *)
LEMMA OrderMovesOn ==
  ASSUME IInv, Follows(orders, orders'), \A o : Live(orders, o) => Live(orders', o),
         deed' \in [Slots -> AnyDeed], DeedsAreTrue(orders', spoiled, app, deed'),
         UNCHANGED <<app, ui, req, gets, lastValue, lock, doomed, overrun, faults>>
  PROVE  IInv'
<1>1. Numbering(orders', lastValue, overrun) /\ \A o : Live(orders', o) => Live(orders, o)
  BY FollowsKeeps DEF IInv, Server
<1>2. PurgeSeesAll(orders', doomed, overrun)
  BY <1>1 DEF IInv, Server, PurgeSeesAll
<1>3. /\ lastValue' \in 0 .. MaxOrders /\ faults' \in 0 .. MaxFaults[app]
      /\ doomed' \subseteq OrderIds
  BY DEF IInv, Typed
<1>. QED BY <1>1, <1>2, <1>3, Truths, TableKeeps

(* The terminal decides.                                                   *)
LEMMA BankDecidesKeeps ==
  ASSUME IInv, NEW o \in OrderIds, NEW n \in 1 .. MaxAttempts, BankDecides(o, n)
  PROVE  IInv'
<1>1. /\ Live(orders, o) /\ n \in DOMAIN orders[o].pays /\ orders[o].pays[n] \in InFlight
      /\ UNCHANGED <<app, ui, req, gets, deed, lastValue, lock, doomed, overrun, faults>>
  BY DEF BankDecides, Exists, Live, OpenOnes, Attempts
<1>2. orders[o] \in AnyOrder /\ OrderIsSound(orders[o]) /\ orders \in Tables /\ TableIsSound(orders)
  BY <1>1, TheOrder, Truths
<1>3. PICK y : /\ \/ y = [orders[o] EXCEPT !.status = "PAID", !.pays[n] = "SUCCEEDED"]
                  \/ y = [orders[o] EXCEPT !.pays[n] = "FAILED"]
               /\ orders' = [orders EXCEPT ![o] = y]
  BY <1>2 DEF BankDecides, Tables
<1>4. Advances(orders[o], y)
  BY <1>1, <1>2, <1>3, DecisionAdvances
<1>5. Follows(orders, orders') /\ \A p : Live(orders, p) => Live(orders', p)
  <2>1. /\ Follows(orders, [orders EXCEPT ![o] = y])
        /\ \A p : Live(orders, p) => Live([orders EXCEPT ![o] = y], p)
    BY <1>1, <1>2, <1>4, OneAdvances
  <2>. QED BY <1>3, <2>1
<1>6. deed' \in [Slots -> AnyDeed] /\ DeedsAreTrue(orders', spoiled, app, deed')
  BY <1>1, <1>5, GrownKeeps DEF IInv, Typed, Follows
<1>. QED BY <1>1, <1>5, <1>6, OrderMovesOn

(* An order that waits has room for one payment more.                      *)
LEMMA RoomForOne ==
  ASSUME NEW x \in AnyOrder, OrderIsSound(x), x.status = "AWAITING_PAYMENT"
  PROVE  Len(x.pays) + 1 \in 0 .. MaxAttempts + 1
<1>1. Len(x.pays) \in Nat /\ Len(x.pays) <= MaxAttempts
  BY Payments DEF OrderIsSound
<1>2. MaxAttempts \in Nat
  BY Numbers
<1>3. \A k \in Nat : k <= MaxAttempts => k + 1 \in 0 .. MaxAttempts + 1
  BY <1>2
<1>. QED BY <1>1, <1>3

(* A retry, a payment in cash or a cancellation is served.                 *)
LEMMA ServeDeedKeeps ==
  ASSUME IInv, NEW d \in Slots, ServeDeed(d)
  PROVE  IInv'
<1>. PICK o : o = deed[d].at.order
  OBVIOUS
<1>1. /\ UNCHANGED <<app, ui, req, gets, lastValue, lock, doomed, overrun, faults>>
  BY DEF ServeDeed
<1>2. ASSUME NEW a \in PayViews, deed' = [deed EXCEPT ![d].phase = "back", ![d].answer = a],
             PayIsTrue(orders', a), a # NoPay => o # 0,
             Follows(orders, orders'), \A p : Live(orders, p) => Live(orders', p)
      PROVE  IInv'
  <2>1. DeedsAreTrue(orders', spoiled, app, deed)
    BY <1>2, GrownKeeps DEF Follows
  <2>2. deed' \in [Slots -> AnyDeed] /\ DeedsAreTrue(orders', spoiled, app, deed')
    BY <1>2, <2>1, AnswerIsTrue DEF IInv, Typed
  <2>. QED BY <1>1, <1>2, <2>2, OrderMovesOn
<1>3. ASSUME NEW a \in PayViews, deed' = [deed EXCEPT ![d].phase = "back", ![d].answer = a],
             PayIsTrue(orders, a), a # NoPay => o # 0, UNCHANGED orders
      PROVE  IInv'
  BY <1>2, <1>3, SameFollows, Truths
<1>4. Awaiting(o) => /\ Live(orders, o) /\ orders[o].status = "AWAITING_PAYMENT"
                     /\ orders[o] \in AnyOrder /\ OrderIsSound(orders[o])
                     /\ orders \in Tables /\ TableIsSound(orders)
                     /\ o \in 1 .. MaxOrders /\ o # 0
                     /\ Len(orders[o].pays) \in Nat
                     /\ DOMAIN orders[o].pays = 1 .. Len(orders[o].pays)
                     /\ Superseded(o) = GivenUp(orders[o].pays)
  <2>1. Awaiting(o) => Live(orders, o) /\ orders[o].status = "AWAITING_PAYMENT"
    BY DEF Awaiting, Exists, Live
  <2>2. Superseded(o) = GivenUp(orders[o].pays)
    BY DEF Superseded, GivenUp, Attempts, OpenOnes
  <2>. QED BY <2>1, <2>2, TheOrder, Truths, Blank
<1>5. ASSUME Awaiting(o), OpenOnes(o) = {}, Len(orders[o].pays) < MaxAttempts,
             orders' = Initiated(o),
             deed' = [deed EXCEPT ![d].phase = "back", ![d].answer =
                        [order |-> o, n |-> Len(orders[o].pays) + 1, status |-> "PENDING"]]
      PROVE  IInv'
  <2>. PICK n, a : /\ n = Len(orders[o].pays) + 1
                   /\ a = [order |-> o, n |-> n, status |-> "PENDING"]
    OBVIOUS
  <2>1. \A m \in Attempts(o) : orders[o].pays[m] \notin InFlight
    BY <1>5 DEF OpenOnes
  <2>2. /\ Follows(orders, Initiated(o)) /\ \A p : Live(orders, p) => Live(Initiated(o), p)
        /\ a \in PayViews /\ PayIsTrue(Initiated(o), a)
    BY <1>5, <2>1, InitiatedKeeps
  <2>3. deed' = [deed EXCEPT ![d].phase = "back", ![d].answer = a]
    BY <1>5
  <2>. QED BY <1>2, <1>4, <1>5, <2>2, <2>3
<1>6. ASSUME deed' = [deed EXCEPT ![d].phase = "back", ![d].answer = NoPay], UNCHANGED orders
      PROVE  IInv'
  BY <1>3, <1>6, BlankTypes, Blank
<1>7. ASSUME Awaiting(o),
             orders' = [orders EXCEPT
               ![o] = [@ EXCEPT !.status = "PAID", !.cash = TRUE,
                                !.pays = Append(Superseded(o), "SUCCEEDED")]],
             deed' = [deed EXCEPT ![d].phase = "back", ![d].answer =
                        [order |-> o, n |-> Len(orders[o].pays) + 1, status |-> "SUCCEEDED"]]
      PROVE  IInv'
  <2>. PICK n, a : /\ n = Len(orders[o].pays) + 1
                   /\ a = [order |-> o, n |-> n, status |-> "SUCCEEDED"]
    OBVIOUS
  <2>1. PICK y : /\ y = [orders[o] EXCEPT !.status = "PAID", !.cash = TRUE,
                                          !.pays = Append(GivenUp(orders[o].pays), "SUCCEEDED")]
                 /\ orders' = [orders EXCEPT ![o] = y]
    BY <1>4, <1>7 DEF Tables
  <2>2. Advances(orders[o], y) /\ n \in DOMAIN y.pays /\ y.pays[n] = "SUCCEEDED"
    <3>. PICK x \in AnyOrder : x = orders[o]
      BY <1>4, <1>7
    <3>1. OrderIsSound(x) /\ x.status = "AWAITING_PAYMENT"
      BY <1>4, <1>7
    <3>2. y = [x EXCEPT !.status = "PAID", !.cash = TRUE,
                        !.pays = Append(GivenUp(x.pays), "SUCCEEDED")]
      BY <2>1
    <3>3. /\ Advances(x, y)
          /\ Len(x.pays) + 1 \in DOMAIN y.pays /\ y.pays[Len(x.pays) + 1] = "SUCCEEDED"
      BY <3>1, <3>2, CashAdvances
    <3>. QED BY <3>3
  <2>3. Follows(orders, orders') /\ \A p : Live(orders, p) => Live(orders', p)
    <3>1. /\ Follows(orders, [orders EXCEPT ![o] = y])
          /\ \A p : Live(orders, p) => Live([orders EXCEPT ![o] = y], p)
      BY <1>4, <1>7, <2>2, OneAdvances
    <3>. QED BY <2>1, <3>1
  <2>4. a \in PayViews
    <3>1. n \in 0 .. MaxAttempts + 1
      BY <1>4, <1>7, RoomForOne
    <3>. QED BY <1>4, <1>7, <3>1 DEF PayViews, PaymentRecordStatus
  <2>5. PayIsTrue(orders', a)
    <3>1. orders'[o] = y /\ Met(orders', o)
      BY <1>4, <1>7, <2>1, <2>3 DEF Tables, Live, Met
    <3>. QED BY <2>2, <3>1 DEF PayIsTrue
  <2>6. deed' = [deed EXCEPT ![d].phase = "back", ![d].answer = a]
    BY <1>7
  <2>. QED BY <1>2, <1>4, <1>7, <2>3, <2>4, <2>5, <2>6
<1>8. ASSUME deed' = [deed EXCEPT ![d].phase = "back", ![d].answer =
                        IF Exists(o) /\ orders[o].cash THEN PaymentView(o, Len(orders[o].pays))
                        ELSE NoPay],
             UNCHANGED orders
      PROVE  IInv'
  <2>1. CASE Exists(o) /\ orders[o].cash
    <3>. PICK n, a : n = Len(orders[o].pays) /\ a = PaymentView(o, n)
      OBVIOUS
    <3>1. Live(orders, o) /\ o # 0
      BY <2>1, Blank DEF Exists, Live
    <3>2. n \in DOMAIN orders[o].pays
      <4>1. n \in Nat /\ n > 0 /\ DOMAIN orders[o].pays = 1 .. n
        BY <2>1, <3>1, TheOrder DEF OrderIsSound
      <4>. QED BY <4>1
    <3>3. a \in PayViews /\ PayIsTrue(orders, a)
      BY <3>1, <3>2, PaymentViewIsTrue
    <3>4. deed' = [deed EXCEPT ![d].phase = "back", ![d].answer = a]
      BY <1>8, <2>1
    <3>. QED BY <1>3, <1>8, <3>1, <3>3, <3>4
  <2>2. CASE ~(Exists(o) /\ orders[o].cash)
    BY <1>6, <1>8, <2>2
  <2>. QED BY <2>1, <2>2
<1>9. ASSUME Awaiting(o),
             orders' = [orders EXCEPT ![o].status = "CANCELLED", ![o].pays = Superseded(o)],
             deed' = [deed EXCEPT ![d].phase = "back", ![d].answer = NoPay]
      PROVE  IInv'
  <2>1. PICK y : /\ y = [orders[o] EXCEPT !.status = "CANCELLED",
                                          !.pays = GivenUp(orders[o].pays)]
                 /\ orders' = [orders EXCEPT ![o] = y]
    BY <1>4, <1>9 DEF Tables
  <2>2. Advances(orders[o], y)
    BY <1>4, <1>9, <2>1, CancelAdvances
  <2>3. Follows(orders, orders') /\ \A p : Live(orders, p) => Live(orders', p)
    <3>1. /\ Follows(orders, [orders EXCEPT ![o] = y])
          /\ \A p : Live(orders, p) => Live([orders EXCEPT ![o] = y], p)
      BY <1>4, <1>9, <2>2, OneAdvances
    <3>. QED BY <2>1, <3>1
  <2>. QED BY <1>2, <1>9, <2>3, BlankTypes, Blank
<1>. QED BY <1>5, <1>6, <1>7, <1>8, <1>9 DEF ServeDeed

-----------------------------------------------------------------------------
(* purgeOrders, first statement.                                           *)
LEMMA PurgeOrdersKeeps ==
  ASSUME IInv, PurgeOrders
  PROVE  IInv'
<1>1. /\ Fault /\ doomed' = Known
      /\ UNCHANGED <<app, ui, req, gets, deed, orders, lastValue, lock, overrun>>
  BY DEF PurgeOrders, Doomed
<1>2. PurgeSeesAll(orders, doomed', overrun) /\ doomed' \subseteq OrderIds
  BY <1>1 DEF PurgeSeesAll, Known, Exists, Live
<1>3. /\ lastValue' \in 0 .. MaxOrders /\ faults' \in 0 .. MaxFaults[app]
      /\ deed' \in [Slots -> AnyDeed] /\ DeedsAreTrue(orders', spoiled, app, deed')
      /\ Follows(orders, orders')
  BY <1>1, FaultCounts, Truths, SameFollows DEF IInv, Typed
<1>. QED BY <1>1, <1>2, <1>3, Truths, TableKeeps DEF IInv, Server

(* ... and second, with the commit.                                        *)
LEMMA PurgeNumbersKeeps ==
  ASSUME IInv, PurgeNumbers
  PROVE  IInv'
<1>1. /\ doomed' = {} /\ lastValue' = 0
      /\ orders' = [o \in OrderIds |-> IF o \in doomed THEN Deleted ELSE orders[o]]
      /\ UNCHANGED <<app, ui, req, gets, deed, lock, overrun, faults>>
      /\ doomed # {}
  BY DEF PurgeNumbers
<1>2. \A o \in doomed : Live(orders, o)
  BY DEF IInv, Server, PurgeSeesAll
<1>3. Follows(orders, orders') /\ \A p \in doomed : ~Live(orders', p)
  BY <1>1, <1>2, Truths, SomeDeleted
<1>4. \A o : Live(orders', o) => Live(orders, o)
  BY <1>3, Truths, FollowsKeeps
<1>5. Numbering(orders', 0, overrun)
  BY <1>1, <1>3, <1>4 DEF IInv, Server, PurgeSeesAll, Numbering
<1>6. PurgeSeesAll(orders', {}, overrun)
  BY DEF PurgeSeesAll
<1>7. Room(orders, req, 0)
  BY Truths DEF Room
<1>8. /\ 0 \in 0 .. MaxOrders /\ faults' \in 0 .. MaxFaults[app]
      /\ deed' \in [Slots -> AnyDeed] /\ DeedsAreTrue(orders', spoiled, app, deed')
  BY <1>1, <1>3, GrownKeeps, Numbers DEF IInv, Typed, Follows
<1>. QED BY <1>1, <1>3, <1>5, <1>6, <1>7, <1>8, TableKeeps

(* deleteOrders.                                                           *)
LEMMA DeleteOrderKeeps ==
  ASSUME IInv, NEW o \in OrderIds, DeleteOrder(o)
  PROVE  IInv'
<1>1. /\ Fault /\ Live(orders, o) /\ o \notin doomed
      /\ orders' = [orders EXCEPT ![o] = Deleted]
      /\ UNCHANGED <<app, ui, req, gets, deed, lastValue, lock, doomed, overrun>>
  BY DEF DeleteOrder, Exists, Live
<1>2. orders' = [p \in OrderIds |-> IF p \in {o} THEN Deleted ELSE orders[p]]
  BY <1>1, Truths DEF TableIsSound, Tables
<1>3. /\ Follows(orders, orders')
      /\ \A p : Live(orders, p) /\ p \notin {o} => Live(orders', p)
  <2>1. \A p \in {o} : Live(orders, p)
    BY <1>1
  <2>. QED BY <1>2, <2>1, Truths, SomeDeleted
<1>4. Numbering(orders', lastValue, overrun) /\ \A p : Live(orders', p) => Live(orders, p)
  BY <1>3, Truths, FollowsKeeps DEF IInv, Server
<1>5. PurgeSeesAll(orders', doomed, overrun)
  <2>1. PurgeSeesAll(orders, doomed, overrun)
    BY DEF IInv, Server
  <2>2. ASSUME NEW p \in doomed PROVE Live(orders', p)
    <3>1. Live(orders, p)
      BY <2>1 DEF PurgeSeesAll
    <3>2. p \notin {o}
      BY <1>1
    <3>. QED BY <1>3, <3>1, <3>2
  <2>3. doomed # {} => overrun \/ \A p \in OrderIds : Live(orders', p) => p \in doomed
    BY <1>4, <2>1 DEF PurgeSeesAll
  <2>. QED BY <2>2, <2>3, Zenon DEF PurgeSeesAll
<1>6. /\ lastValue' \in 0 .. MaxOrders /\ faults' \in 0 .. MaxFaults[app]
      /\ doomed' \subseteq OrderIds
      /\ deed' \in [Slots -> AnyDeed] /\ DeedsAreTrue(orders', spoiled, app, deed')
  BY <1>1, <1>3, GrownKeeps, FaultCounts DEF IInv, Typed, Follows
<1>. QED BY <1>1, <1>3, <1>4, <1>5, <1>6, Truths, TableKeeps

-----------------------------------------------------------------------------
(* Nothing has been ordered.                                               *)
LEMMA InitIInv == Init => IInv
<1>. SUFFICES ASSUME Init PROVE IInv
  OBVIOUS
<1>1. /\ app \in DOMAIN Methods /\ screen \in {"welcome", "basket"}
      /\ cart = 0 /\ key = 1 /\ view = NoView
      /\ req = [r \in Clients |-> NoReq]
      /\ gets = NoPay /\ deed = NoDeeds
      /\ orders = [o \in OrderIds |-> Absent]
      /\ lastValue = 0 /\ lock = Nobody /\ doomed = {}
      /\ faults = 0 /\ basket = 1 /\ spoiled = {} /\ overrun = FALSE
  BY DEF Init, Clients
<1>2. \A r \in Clients : req[r] = NoReq /\ req[r].phase = "idle"
  BY <1>1 DEF NoReq
<1>4. \A o \in OrderIds : orders[o] = Absent /\ ~Live(orders, o)
  BY <1>1 DEF Live
<1>5. Typed
  <2>1. MaxFaults[app] \in Nat /\ req[Own].phase = "idle"
    BY <1>1, <1>2, Numbers DEF Clients
  <2>2. req \in [Clients -> Submission] /\ deed \in [Slots -> AnyDeed] /\ gets \in PayViews /\ view \in AnyView
    BY <1>1, BlankTypes
  <2>3. /\ cart \in 0 .. 2 /\ basket \in 1 .. MaxBaskets /\ key = basket
        /\ lastValue \in 0 .. MaxOrders /\ faults \in 0 .. MaxFaults[app]
    BY <1>1, <2>1, Numbers
  <2>4. /\ doomed \subseteq OrderIds /\ spoiled \subseteq 1 .. MaxBaskets
        /\ overrun \in BOOLEAN /\ lock = Nobody
    BY <1>1
  <2>. QED BY <1>1, <2>1, <2>2, <2>3, <2>4 DEF Typed
<1>6. Client
  BY <1>1, Blank DEF Client
<1>7. Server
  <2>1. TableIsSound(orders)
    BY <1>1, <1>4 DEF TableIsSound, Tables
  <2>2. Room(orders, req, lastValue)
    <3>1. \A o \in OrderIds : orders[o] = Absent <=> o > 0
      BY <1>4 DEF OrderIds
    <3>2. Creators(req) = {}
      BY <1>2 DEF Creators, Creating
    <3>. QED BY <1>1, <3>1, <3>2, Numbers DEF Room, Clients
  <2>3. Numbering(orders, lastValue, overrun) /\ PurgeSeesAll(orders, doomed, overrun)
    BY <1>1, <1>4 DEF Numbering, PurgeSeesAll
  <2>. QED BY <2>1, <2>2, <2>3 DEF Server
<1>8. Submissions
  <2>1. Sent(orders, req) = {}
    BY <1>2, <1>4 DEF Sent
  <2>. QED BY <1>2, <2>1, Blank DEF Submissions, OneCart
<1>. QED BY <1>5, <1>6, <1>7, <1>8 DEF IInv

(* No step breaks the invariant.                                           *)
LEMMA NextIInv == IInv /\ [Next]_vars => IInv'
<1>. SUFFICES ASSUME IInv, [Next]_vars PROVE IInv'
  OBVIOUS
<1>1. CASE Start
  BY <1>1, ScreenKeeps DEF Start
<1>2. CASE ToCheckout
  BY <1>2, ScreenKeeps DEF ToCheckout
<1>3. CASE Back
  BY <1>3, ScreenKeeps DEF Back
<1>4. CASE Track
  BY <1>4, ScreenKeeps DEF Track, Left
<1>5. CASE StartOver
  BY <1>5, StartOverKeeps
<1>6. CASE Restart
  BY <1>6, RestartKeeps
<1>7. CASE \E c \in Contents : Edit(c)
  BY <1>7, EditKeeps
<1>8. CASE \E method \in Methods[app] : PlaceOrder(method)
  BY <1>8, PlaceOrderKeeps
<1>9. CASE OrderPlaced
  BY <1>9, OrderPlacedKeeps
<1>10. CASE PlacingFails
  BY <1>10, PlacingFailsKeeps
<1>11. CASE LosePlacing
  BY <1>11, LosePlacingKeeps
<1>12. CASE \E r \in {Own, Stray} : Serve(r) \/ Refuse(r) \/ ServerDies(r)
  <2>1. PICK r \in Clients : Serve(r) \/ Refuse(r) \/ ServerDies(r)
    BY <1>12 DEF Clients
  <2>. QED
    BY <2>1, LookUpKeyKeeps, AllocateKeeps, InsertKeeps, InitiateFirstKeeps, RefuseKeeps,
       ServerDiesKeeps DEF Serve
<1>13. CASE AskPayment
  BY <1>13, AskPaymentKeeps
<1>14. CASE ReadPayment
  BY <1>14, ReadPaymentKeeps
<1>15. CASE PaymentRead
  BY <1>15, PaymentReadKeeps
<1>16. CASE LoseRead
  BY <1>16, LoseReadKeeps
<1>17. CASE \E kind \in Deeds : Press(kind)
  BY <1>17, PressKeeps
<1>18. CASE PayCashInstead
  BY <1>18, PayCashInsteadKeeps
<1>19. CASE \E d \in Slots : ServeDeed(d) \/ DeedEnds(d) \/ LoseDeed(d)
  BY <1>19, ServeDeedKeeps, DeedEndsKeeps, LoseDeedKeeps
<1>22. CASE \E o \in OrderIds, n \in 1 .. MaxAttempts : BankDecides(o, n)
  BY <1>22, BankDecidesKeeps
<1>23. CASE PurgeOrders
  BY <1>23, PurgeOrdersKeeps
<1>24. CASE PurgeNumbers
  BY <1>24, PurgeNumbersKeeps
<1>25. CASE \E o \in OrderIds : DeleteOrder(o)
  BY <1>25, DeleteOrderKeeps
<1>26. CASE UNCHANGED vars
  <2>1. /\ screen' \in {"welcome", "basket", "checkout", "result"}
        /\ gets' = gets
        /\ UNCHANGED <<app, cart, key, view, basket, spoiled, req, deed, db, faults>>
    BY <1>26 DEF vars, ui, IInv, Typed
  <2>. QED BY <2>1, ScreenKeeps
<1>. QED
  BY <1>1, <1>2, <1>3, <1>4, <1>5, <1>6, <1>7, <1>8, <1>9, <1>10, <1>11, <1>12, <1>13, <1>14,
     <1>15, <1>16, <1>17, <1>18, <1>19, <1>22, <1>23, <1>24, <1>25, <1>26
  DEF Next

-----------------------------------------------------------------------------
(***************************************************************************)
(* In every reachable state the clients, the submissions under way and the *)
(* table of orders agree in the sense of IInv, whatever has been lost,     *)
(* repeated, restarted, purged or deleted.                                 *)
(***************************************************************************)
THEOREM Invariance == Spec => []IInv
<1>1. Init => IInv
  BY InitIInv
<1>2. IInv /\ [Next]_vars => IInv'
  BY NextIInv
<1>. QED BY <1>1, <1>2, PTL DEF Spec

(* The orders that are there are the live ones of the table.               *)
LEMMA KnownIsLive == /\ \A o : Exists(o) <=> Live(orders, o)
                     /\ \A o : o \in Known <=> Live(orders, o)
  BY DEF Exists, Known, Live

(***************************************************************************)
(* createOrder and purgeOrders: as long as no order was created in the     *)
(* middle of a purge, the next number of the sequence is free.             *)
(***************************************************************************)
THEOREM NumbersGoOn == Spec => []NumberingGoesOn
<1>1. ASSUME IInv PROVE NumberingGoesOn
  BY <1>1, KnownIsLive DEF NumberingGoesOn, IInv, Server, Numbering, Live
<1>. QED BY <1>1, Invariance, PTL

(***************************************************************************)
(* OrdersController.create: an order answered as placed by card or online  *)
(* has a payment, also after a crash between the two and a replay.         *)
(***************************************************************************)
THEOREM PlacedIsPaidFor == Spec => []PlacedHasPayment
<1>1. ASSUME IInv PROVE PlacedHasPayment
  <2>1. SubmissionIsSound(orders, req[Own])
    BY <1>1 DEF IInv, Submissions, Clients
  <2>. QED
    BY <2>1, KnownIsLive DEF PlacedHasPayment, Succeeds, SubmissionIsSound, Attempts
<1>. QED BY <1>1, Invariance, PTL

(***************************************************************************)
(* The idempotency key, the unique key of the orders and the one open      *)
(* payment of an order together: a customer is charged once per method.    *)
(***************************************************************************)
THEOREM OneCharge == Spec => []ChargedOnce
<1>1. ASSUME IInv PROVE ChargedOnce
  <2>. SUFFICES ASSUME NEW o \in Known, NEW p \in Known,
                       NEW n \in Attempts(o), NEW m \in Attempts(p),
                       orders[o].basket = orders[p].basket,
                       orders[o].key[2] = orders[p].key[2],
                       orders[o].pays[n] = "SUCCEEDED", orders[p].pays[m] = "SUCCEEDED"
                PROVE  o = p /\ n = m
    BY DEF ChargedOnce
  <2>1. Live(orders, o) /\ Live(orders, p) /\ TableIsSound(orders)
    BY <1>1, KnownIsLive DEF IInv, Server
  <2>2. /\ orders[o] \in AnyOrder /\ orders[p] \in AnyOrder
        /\ OrderIsSound(orders[o]) /\ OrderIsSound(orders[p])
    BY <2>1 DEF TableIsSound, Tables, Live
  <2>3. orders[o].key = orders[p].key
    <3>1. /\ orders[o].key \in (1 .. MaxBaskets) \X AnyMethod
          /\ orders[p].key \in (1 .. MaxBaskets) \X AnyMethod
      BY <2>2 DEF AnyOrder
    <3>2. orders[o].key[1] = orders[p].key[1]
      BY <2>2 DEF OrderIsSound
    <3>. QED BY <3>1, <3>2
  <2>4. o = p
    BY <2>1, <2>3 DEF TableIsSound, Live
  <2>5. n = m
    BY <2>2, <2>4 DEF OrderIsSound, Counts, Attempts
  <2>. QED BY <2>4, <2>5
<1>. QED BY <1>1, Invariance, PTL

(***************************************************************************)
(* The client shows the cart it has sent, unless its customer changed it   *)
(* under the key of an earlier submission.                                 *)
(***************************************************************************)
THEOREM ShownIsSent == Spec => []ShownIsWhatWasSent
<1>1. ASSUME IInv PROVE ShownIsWhatWasSent
  BY <1>1, KnownIsLive DEF ShownIsWhatWasSent, IInv, Client, ViewIsTrue
<1>. QED BY <1>1, Invariance, PTL

(***************************************************************************)
(* A screen says "paid" only of a captured payment: the mobile page only   *)
(* of the order it shows, the kiosk unless that order was exchanged under  *)
(* the open result screen (ResultScreen, onRetryCard).                     *)
(***************************************************************************)
THEOREM PaidIsTrue == Spec => []PaidScreenIsPaid
<1>1. ASSUME IInv PROVE PaidScreenIsPaid
  <2>1. PayIsTrue(orders, view.pay) /\ ViewIsItsOwn(app, view)
    BY <1>1 DEF IInv, Client, ViewIsTrue
  <2>2. view.pay.status = "SUCCEEDED" => view.pay # NoPay
    BY DEF NoPay, NoPayment
  <2>. QED BY <2>1, <2>2, KnownIsLive DEF PaidScreenIsPaid, PayIsTrue, ViewIsItsOwn
<1>. QED BY <1>1, Invariance, PTL
==============================================================================
