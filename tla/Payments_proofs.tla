---------------------------- MODULE Payments_proofs ----------------------------
(***************************************************************************)
(* Proofs about Payments for every number of requests and payment rows and *)
(* every total.                                                            *)
(*                                                                         *)
(* The argument.  What a request wrote under a row lock nobody else        *)
(* changes (OwnsItsLocks), so a row that is settled or refunded is still   *)
(* as the request read it, or is in flight, when the transaction commits.  *)
(* What a request carries over from an unlocked read stays true because    *)
(* payments only grow (RowsGrow): a captured row stays captured, refunds   *)
(* and the provider's own refunds only increase, the provider's decision   *)
(* is final.  Each request holds a seat for the row it may insert (Seats), *)
(* so rows are inserted where none is.                                     *)
(***************************************************************************)
EXTENDS Payments, SubsetInduction, TLAPS

(* The records of TypeOK.                                                   *)
PaymentRow == [status : PaymentRecordStatus \cup {NoPayment}, method : {"CARD", "CASH"},
               ref : BOOLEAN, refunded : 0..Total]

BankRow == [result : {"NONE", "PENDING", "SUCCEEDED", "FAILED", "CANCELLED"},
            decided : {"NONE", "SUCCEEDED", "FAILED"}, refunded : 0..MaxPaidBack]

Request ==
  [pc : {"idle", "check", "create", "send", "sent", "settle", "settlePayment",
         "settleOrder", "query", "timeout", "cash", "cashOrder", "cancel",
         "cancelPayments", "refundProvider", "refundPayment", "refundOrder"},
   op : Op \cup {"none"}, p : Rows \cup {0},
   seen : Orders \cup PaymentRecordStatus \cup {"none"}, old : 0..Total,
   amount : 0..Total, target : PaymentRecordStatus \cup {"none"},
   next : PaymentStatus \cup {"none"}]

Typed ==
  /\ order \in Orders
  /\ paymentStatus \in PaymentStatus
  /\ pay \in [Rows -> PaymentRow]
  /\ bank \in [Rows -> BankRow]
  /\ acknowledged \subseteq Rows
  /\ orderLock \in Requests \cup {NoRequest}
  /\ payLock \in [Rows -> Requests \cup {NoRequest}]
  /\ req \in [Requests -> Request]

RefundedStatus == {"PARTIALLY_REFUNDED", "REFUNDED"}

(* What a row says of its refunds, and what the provider knows behind it.  *)
RowIsSound(p) ==
  /\ pay[p].refunded = Total <=> pay[p].status = "REFUNDED"
  /\ pay[p].refunded \in 1..Total => pay[p].status \in RefundedStatus
  /\ pay[p].status \in RefundedStatus => pay[p].refunded > 0
  /\ pay[p].status = NoPayment => pay[p].method = "CARD"
  /\ pay[p].ref => bank[p].result # "NONE"
  /\ pay[p].method = "CARD" =>
       /\ pay[p].status \in Captured => pay[p].ref /\ bank[p].decided = "SUCCEEDED"
       /\ pay[p].refunded <= bank[p].refunded
  /\ bank[p].decided # "NONE" => bank[p].result # "NONE"
  /\ bank[p].result = "SUCCEEDED" => bank[p].decided = "SUCCEEDED"

Inserters == {r \in Requests : req[r].pc \in Inserting}

(* There is a row for everyone who will insert one.                        *)
Seats ==
  \E k \in 0..MaxPayments :
    /\ Created = 1..k
    /\ IsFiniteSet(Inserters)
    /\ k + Cardinality(Inserters) <= MaxPayments

Settles == {"settle", "settlePayment", "settleOrder"}
Refunds == {"refundProvider", "refundPayment", "refundOrder"}

(* Which locks a request holds, and what they keep as it is.               *)
OwnsItsLocks(r) ==
  /\ Held(r) # {} => req[r].pc \in {"settleOrder", "cashOrder", "refundOrder"}
  /\ req[r].pc \in {"settleOrder", "refundOrder"} => Held(r) = {req[r].p}
  /\ req[r].pc \in {"settleOrder", "cashOrder"} => Held(r) \subseteq Open
  /\ req[r].pc = "refundOrder" => /\ pay[req[r].p].status = req[r].seen
                                  /\ pay[req[r].p].refunded = req[r].old
  /\ orderLock = r <=> req[r].pc = "cancelPayments"
  /\ req[r].pc = "cancelPayments" => order \in {"AWAITING_PAYMENT", "CONFIRMED"}
  /\ req[r].pc = "cancel" => req[r].seen \in {"AWAITING_PAYMENT", "CONFIRMED"}

(* Cash and cancellation write CANCELLED; the terminal is asked about a row; *)
(* settlements and refunds carry a paymentStatus to the order.             *)
DoesItsJob(r) ==
  /\ req[r].pc \in {"cash", "cashOrder"} => req[r].op = "CASH"
  /\ req[r].pc \in {"cancel", "cancelPayments"} => req[r].op \in {"CANCEL", "CANCEL_UNPAID"}
  /\ req[r].pc \in {"send", "sent", "query", "timeout"} => req[r].p \in Rows
  /\ req[r].pc \in {"sent", "query"} => bank[req[r].p].result # "NONE"
  /\ req[r].pc \in {"settleOrder", "refundOrder"} => req[r].next \in PaymentStatus

(* A settlement carries a result that the provider gave.                   *)
SettlesTheTruth(r) ==
  req[r].pc \in Settles =>
    /\ req[r].p \in Rows
    /\ req[r].op \in {"INITIATE", "CALLBACK", "RECONCILE", "FAIL"}
    /\ req[r].target \in {"SUCCEEDED", "FAILED", "CANCELLED"}
    /\ req[r].op = "FAIL" => req[r].target = "FAILED"
    /\ req[r].op # "FAIL" => bank[req[r].p].result # "NONE"
    /\ req[r].target = "SUCCEEDED" => bank[req[r].p].decided = "SUCCEEDED"

(* A refund carries an amount that the payment as it was read has left.    *)
RefundsWhatIsLeft(r) ==
  req[r].pc \in Refunds =>
    /\ req[r].p \in Rows
    /\ req[r].op = "REFUND"
    /\ req[r].seen \in {"SUCCEEDED", "PARTIALLY_REFUNDED"}
    /\ req[r].amount > 0 /\ req[r].old + req[r].amount <= Total
    /\ req[r].target = PaymentStatusAfterRefund(Total, req[r].old, req[r].amount)
    /\ pay[req[r].p].status \in Captured
    /\ pay[req[r].p].method = "CARD" =>
         /\ req[r].old <= bank[req[r].p].refunded
         /\ req[r].pc # "refundProvider" =>
              req[r].old + req[r].amount <= bank[req[r].p].refunded

(* The paymentStatus that a failed settlement derived is still justified.  *)
Money == \E p \in Rows : pay[p].status \in Captured
PaidBack == \E p \in Rows : pay[p].refunded > 0

DerivedIsReal(r) ==
  req[r].pc = "settleOrder" /\ req[r].target # "SUCCEEDED" =>
    /\ req[r].next \in {"PAID", "PARTIALLY_REFUNDED", "REFUNDED"} => Money
    /\ req[r].next \in RefundedStatus => PaidBack

RequestIsSound(r) ==
  OwnsItsLocks(r) /\ DoesItsJob(r) /\ SettlesTheTruth(r) /\ RefundsWhatIsLeft(r) /\ DerivedIsReal(r)

Cash == {p \in Rows : pay[p].method = "CASH"}

OrderIsSound ==
  /\ order \in {"CONFIRMED", "COMPLETED"} => Money
  /\ PaidStatusIsReal
  /\ order = "AWAITING_PAYMENT" => Cash = {}
  /\ CashTakenOnce

IInv ==
  /\ Typed
  /\ Seats
  /\ \A p \in Rows : RowIsSound(p)
  /\ \A r \in Requests : RequestIsSound(r)
  /\ OrderIsSound

-----------------------------------------------------------------------------
(* The sum that derivePaymentStatus takes is zero when nothing was refunded. *)
SumOfRefunds(rows, S) == MapThenSumSet(LAMBDA p : rows[p].refunded, S)

(* ... for any set of rows, however large.                                 *)
LEMMA NothingSumsToZero ==
  ASSUME NEW rows, NEW S, IsFiniteSet(S), \A p \in S : rows[p].refunded = 0
  PROVE  SumOfRefunds(rows, S) = 0
<1>. DEFINE Pick(s) == CHOOSE x \in s : TRUE
            Sums(h) == h = [s \in SUBSET S |->
                             IF s = {} THEN 0 ELSE rows[Pick(s)].refunded + h[s \ {Pick(s)}]]
            sum == CHOOSE h : Sums(h)
            zero == [s \in SUBSET S |-> 0]
<1>0. \A s : s # {} => Pick(s) \in s
  OBVIOUS
<1>1. SumOfRefunds(rows, S) = sum[S]
  BY DEF SumOfRefunds, MapThenSumSet, MapThenFoldSet
<1>. HIDE DEF Pick
<1>2. Sums(zero)
  <2>1. ASSUME NEW s \in SUBSET S, s # {}
        PROVE  rows[Pick(s)].refunded + zero[s \ {Pick(s)}] = 0
    BY <1>0, <2>1
  <2>. QED BY <2>1
<1>3. Sums(sum)
  <2>. HIDE DEF Sums, zero
  <2>. QED BY <1>2
<1>. HIDE DEF sum
<1>. DEFINE Z == {s \in SUBSET S : sum[s] = 0}
<1>4. ASSUME NEW s \in SUBSET S, \A t \in SUBSET s : t # s => t \in Z
      PROVE  s \in Z
  <2>1. CASE s = {}
    BY <1>3, <2>1
  <2>2. CASE s # {}
    <3>1. Pick(s) \in s /\ sum[s \ {Pick(s)}] = 0
      BY <1>0, <1>4, <2>2
    <3>2. sum[s] = rows[Pick(s)].refunded + sum[s \ {Pick(s)}]
      BY <1>3, <2>2
    <3>3. rows[Pick(s)].refunded = 0
      BY <3>1
    <3>. QED BY <3>1, <3>2, <3>3
  <2>. QED BY <2>1, <2>2
<1>5. Z = SUBSET S
  <2>. HIDE DEF Z
  <2>1. Z \in SUBSET (SUBSET S)
    BY DEF Z
  <2>. QED BY <1>4, <2>1, SubsetInduct
<1>. QED
  BY <1>1, <1>5

(***************************************************************************)
(* What derivePaymentStatus promises, for any number of rows: the order is *)
(* called paid only when a payment is captured, and refunded only when     *)
(* something was refunded.                                                 *)
(***************************************************************************)
LEMMA DerivedStatus ==
  ASSUME NEW N \in Nat, NEW total \in Nat \ {0},
         NEW rows, DOMAIN rows = 1..N,
         \A p \in 1..N : rows[p].refunded \in Nat
  PROVE  LET d == DerivePaymentStatus(rows, total)
         IN  /\ d \in PaymentStatus
             /\ d \in {"PAID", "PARTIALLY_REFUNDED", "REFUNDED"} =>
                  \E p \in 1..N : rows[p].status \in Captured
             /\ d \in {"PARTIALLY_REFUNDED", "REFUNDED"} =>
                  \E p \in 1..N : rows[p].status \in Captured /\ rows[p].refunded > 0
<1>. DEFINE relevant  == {p \in 1..N : rows[p].status \notin {NoPayment, "CANCELLED"}}
            succeeded == {p \in relevant : rows[p].status \in Captured}
            paid      == Cardinality(succeeded) * total
            refunded  == SumOfRefunds(rows, succeeded)
            last      == rows[Max(relevant)].status
<1>1. DerivePaymentStatus(rows, total) =
        IF relevant = {} THEN "UNPAID"
        ELSE IF succeeded # {} THEN
          IF refunded = 0 THEN "PAID"
          ELSE IF refunded >= paid THEN "REFUNDED" ELSE "PARTIALLY_REFUNDED"
        ELSE IF last = "FAILED" THEN "FAILED" ELSE "PENDING"
  BY DEF DerivePaymentStatus, SumOfRefunds
<1>2. IsFiniteSet(succeeded)
  BY FS_Interval, FS_Subset, succeeded \in SUBSET (1..N)
<1>3. (\A p \in succeeded : rows[p].refunded = 0) => refunded = 0
  <2>. HIDE DEF succeeded
  <2>. QED BY <1>2, NothingSumsToZero
<1>4. succeeded \in SUBSET (1..N) /\ \A p \in succeeded : rows[p].status \in Captured
  OBVIOUS
<1>. HIDE DEF relevant, succeeded, paid, refunded, last
<1>5. refunded # 0 => \E p \in succeeded : rows[p].refunded > 0
  <2>1. \A p \in succeeded : rows[p].refunded # 0 => rows[p].refunded > 0
    BY <1>4
  <2>. QED
    BY <1>3, <2>1
<1>6. DerivePaymentStatus(rows, total) \in PaymentStatus
  BY <1>1 DEF PaymentStatus
<1>7. DerivePaymentStatus(rows, total) \in {"PAID", "PARTIALLY_REFUNDED", "REFUNDED"} =>
        succeeded # {}
  BY <1>1
<1>8. DerivePaymentStatus(rows, total) \in {"PARTIALLY_REFUNDED", "REFUNDED"} =>
        refunded # 0
  BY <1>1
<1>. QED
  BY <1>4, <1>5, <1>6, <1>7, <1>8
-----------------------------------------------------------------------------
(* The bounds are positive numbers.                                        *)
LEMMA Numbers == /\ MaxPayments \in Nat \ {0} /\ Total \in Nat \ {0}
                 /\ Rows \subseteq Nat \ {0} /\ MaxPaidBack \in Nat
  BY PositiveAssumption DEF Rows, MaxPaidBack

(* The refunded part of a payment is an amount up to the total.            *)
LEMMA RowNumbers ==
  ASSUME NEW row \in PaymentRow
  PROVE  row.refunded \in Nat /\ row.refunded <= Total
  BY Numbers DEF PaymentRow

(* The request records that the steps build are of their type.             *)
LEMMA FreshRequests ==
  /\ Idle \in Request
  /\ \A pc \in {"check", "create", "send", "sent", "query", "timeout", "cash", "cancel",
                "refundProvider", "refundPayment"},
       op \in Op, p \in Rows \cup {0} : At(pc, op, p) \in Request
  /\ \A p \in Rows : Failing(p) \in Request
  /\ \A op \in Op, p \in Rows, target \in {"SUCCEEDED", "FAILED", "CANCELLED"} :
       Settling(op, p, target) \in Request
<1>1. Idle \in Request
  BY Numbers DEF Idle, Request
<1>2. ASSUME NEW pc \in {"check", "create", "send", "sent", "settle", "settlePayment", "query",
                        "timeout", "cash", "cancel", "refundProvider", "refundPayment"},
             NEW op \in Op, NEW p \in Rows \cup {0}
      PROVE  At(pc, op, p) \in Request
  BY <1>1 DEF At, Request
<1>3. ASSUME NEW p \in Rows
      PROVE  Failing(p) \in Request
  <2>1. At("settlePayment", "FAIL", p) \in Request
    BY <1>2 DEF Op
  <2>. QED
    BY <2>1 DEF Failing, Request, PaymentRecordStatus
<1>4. ASSUME NEW op \in Op, NEW p \in Rows, NEW target \in {"SUCCEEDED", "FAILED", "CANCELLED"}
      PROVE  Settling(op, p, target) \in Request
  <2>1. At("settle", op, p) \in Request
    BY <1>2
  <2>. QED
    BY <2>1 DEF Settling, Request, PaymentRecordStatus
<1>. QED
  BY <1>1, <1>2, <1>3, <1>4

(* ... and what they say.                                                  *)
LEMMA RequestFields ==
  /\ Idle.pc = "idle"
  /\ \A pc, op, p : /\ At(pc, op, p).pc = pc /\ At(pc, op, p).op = op /\ At(pc, op, p).p = p
  /\ \A p : /\ Failing(p).pc = "settlePayment" /\ Failing(p).op = "FAIL" /\ Failing(p).p = p
            /\ Failing(p).target = "FAILED"
  /\ \A op, p, target :
       /\ Settling(op, p, target).pc = "settle" /\ Settling(op, p, target).op = op
       /\ Settling(op, p, target).p = p /\ Settling(op, p, target).target = target
<1>1. \A pc, op, p : /\ At(pc, op, p).pc = pc /\ At(pc, op, p).op = op /\ At(pc, op, p).p = p
                    /\ DOMAIN At(pc, op, p) = DOMAIN Idle
  BY DEF At, Idle
<1>2. DOMAIN Idle = {"pc", "op", "p", "seen", "old", "amount", "target", "next"}
  BY DEF Idle
<1>3. Idle.pc = "idle"
  BY DEF Idle
<1>4. \A p : /\ Failing(p).pc = "settlePayment" /\ Failing(p).op = "FAIL" /\ Failing(p).p = p
            /\ Failing(p).target = "FAILED"
  BY <1>1, <1>2 DEF Failing
<1>5. \A op, p, target :
       /\ Settling(op, p, target).pc = "settle" /\ Settling(op, p, target).op = op
       /\ Settling(op, p, target).p = p /\ Settling(op, p, target).target = target
  BY <1>1, <1>2 DEF Settling
<1>. QED
  BY <1>1, <1>3, <1>4, <1>5

-----------------------------------------------------------------------------
(* What every step does to payments: they only grow.                       *)
RowGrows(p) ==
  /\ \/ pay'[p] = pay[p]
     \/ pay[p].status = NoPayment
     \/ CanTransitionPayment(pay[p].status, pay'[p].status)
  /\ pay[p].status # NoPayment => pay'[p].method = pay[p].method
  /\ pay'[p].refunded >= pay[p].refunded
  /\ bank[p].decided # "NONE" => bank'[p].decided = bank[p].decided
  /\ bank[p].result # "NONE" => bank'[p].result # "NONE"
  /\ bank'[p].refunded >= bank[p].refunded

RowsGrow == \A p \in Rows : RowGrows(p)

(* PAYMENT_TRANSITIONS leads from captured rows to captured rows only.     *)
LEMMA CapturedStays ==
  ASSUME Typed, NEW p \in Rows, RowGrows(p), pay[p].status \in Captured
  PROVE  pay'[p].status \in Captured
  BY DEF Typed, RowGrows, CanTransitionPayment, PAYMENT_TRANSITIONS, Captured, NoPayment,
               PaymentRow

(* So money that is behind an order, or was paid back, stays so.           *)
LEMMA MoneyStays ==
  ASSUME Typed, Typed', RowsGrow
  PROVE  (Money => Money') /\ (PaidBack => PaidBack')
<1>1. Money => Money'
  BY CapturedStays DEF Money, RowsGrow
<1>2. PaidBack => PaidBack'
  <2>1. \A p \in Rows : pay[p].refunded \in Int /\ pay'[p].refunded \in Int
    BY Numbers DEF Typed, PaymentRow
  <2>. QED
    BY <2>1 DEF PaidBack, RowsGrow, RowGrows
<1>. QED
  BY <1>1, <1>2

(* A step that leaves request q, its locks and what it has locked alone.   *)
Untouched(q) ==
  /\ req'[q] = req[q]
  /\ Held(q)' = Held(q)
  /\ orderLock' = q <=> orderLock = q
  /\ \A p \in Held(q) : pay'[p] = pay[p]
  /\ orderLock = q => order' = order

(* What such a request has read stays true when payments grow.             *)
LEMMA UntouchedKeeps ==
  ASSUME IInv, Typed', RowsGrow, NEW q \in Requests, Untouched(q)
  PROVE  RequestIsSound(q)'
<1>. USE DEF IInv, RequestIsSound
<1>1. /\ \A p \in Rows : /\ pay[p] \in PaymentRow /\ pay'[p] \in PaymentRow
                         /\ bank[p] \in BankRow /\ bank'[p] \in BankRow
      /\ req[q] \in Request
  BY DEF Typed
<1>2. OwnsItsLocks(q)'
  <2>1. \A p \in Held(q) : p \in Open => p \in Open'
    BY DEF Untouched, Held, Open
  <2>2. req[q].pc \in {"settleOrder", "cashOrder"} => Held(q)' \subseteq Open'
    BY <2>1 DEF OwnsItsLocks, Untouched
  <2>3. req[q].pc = "refundOrder" => pay'[req[q].p] = pay[req[q].p]
    BY DEF OwnsItsLocks, Untouched
  <2>4. req[q].pc = "cancelPayments" => order' = order
    BY DEF OwnsItsLocks, Untouched
  <2>. QED
    BY <2>2, <2>3, <2>4 DEF OwnsItsLocks, Untouched
<1>3. DoesItsJob(q)'
  BY DEF DoesItsJob, Untouched, RowsGrow, RowGrows
<1>4. SettlesTheTruth(q)'
  BY DEF SettlesTheTruth, Untouched, RowsGrow, RowGrows
<1>5. RefundsWhatIsLeft(q)'
  <2>. SUFFICES ASSUME req[q].pc \in Refunds
       PROVE  RefundsWhatIsLeft(q)'
    BY DEF RefundsWhatIsLeft, Untouched
  <2>. DEFINE p == req[q].p
  <2>1. p \in Rows /\ RowGrows(p) /\ pay[p].status \in Captured
    BY DEF RefundsWhatIsLeft, RowsGrow
  <2>2. pay'[p].status \in Captured /\ pay'[p].method = pay[p].method
    BY <2>1, CapturedStays DEF RowGrows, NoPayment, Captured
  <2>3. bank'[p].refunded \in Int /\ bank[p].refunded \in Int /\ bank'[p].refunded >= bank[p].refunded
    <3>. HIDE DEF IInv, RequestIsSound
    <3>1. bank[p] \in BankRow /\ bank'[p] \in BankRow
      BY <1>1, <2>1
    <3>2. \A n \in 0..MaxPaidBack : n \in Int
      BY Numbers
    <3>. QED
      BY <2>1, <3>1, <3>2 DEF RowGrows, BankRow
  <2>4. req[q].old \in Int /\ req[q].amount \in Int
    BY <1>1, Numbers DEF Request
  <2>. QED
    BY <2>1, <2>2, <2>3, <2>4 DEF RefundsWhatIsLeft, Untouched
<1>6. DerivedIsReal(q)'
  BY MoneyStays DEF DerivedIsReal, Untouched
<1>. QED
  BY <1>2, <1>3, <1>4, <1>5, <1>6

-----------------------------------------------------------------------------
(* The seats: nobody gives one up twice, and a new one needs room.         *)
LEMMA SeatKept ==
  ASSUME Seats, Created' = Created, Inserters' \subseteq Inserters
  PROVE  Seats'
<1>1. PICK k \in 0..MaxPayments :
        /\ Created = 1..k
        /\ IsFiniteSet(Inserters)
        /\ k + Cardinality(Inserters) <= MaxPayments
  BY DEF Seats
<1>2. IsFiniteSet(Inserters') /\ Cardinality(Inserters') <= Cardinality(Inserters)
  BY <1>1, FS_Subset
<1>3. Cardinality(Inserters') \in Nat /\ Cardinality(Inserters) \in Nat
  BY <1>1, <1>2, FS_CardinalityType
<1>4. k + Cardinality(Inserters') <= MaxPayments
  BY <1>1, <1>2, <1>3, Numbers
<1>. QED
  BY <1>1, <1>2, <1>4 DEF Seats

(* A request that may insert takes its seat when there is room.            *)
LEMMA SeatTaken ==
  ASSUME Seats, Created' = Created, NEW r, Inserters' = Inserters \cup {r}, Room
  PROVE  Seats'
<1>1. PICK k \in 0..MaxPayments :
        /\ Created = 1..k
        /\ IsFiniteSet(Inserters)
        /\ k + Cardinality(Inserters) <= MaxPayments
  BY DEF Seats
<1>2. /\ IsFiniteSet(Inserters')
      /\ Cardinality(Inserters') \in {Cardinality(Inserters), Cardinality(Inserters) + 1}
  BY <1>1, FS_AddElement
<1>3. Cardinality(Inserters') \in Nat /\ Cardinality(Inserters) \in Nat
  BY <1>1, <1>2, FS_CardinalityType
<1>4. k + Cardinality(Inserters) < MaxPayments
  <2>1. Cardinality(1..k) = k
    BY FS_Interval, Numbers
  <2>. QED
    BY <1>1, <2>1 DEF Room, Inserters
<1>5. k + Cardinality(Inserters') <= MaxPayments
  BY <1>2, <1>3, <1>4, Numbers
<1>. QED
  BY <1>1, <1>2, <1>5 DEF Seats

(* Whoever inserts finds the row after the last one there is.              *)
LEMMA SeatFound ==
  ASSUME Seats, NEW r \in Inserters
  PROVE  NextRow \in Rows /\ NextRow \notin Created /\ Created \cup {NextRow} = 1..NextRow
<1>1. PICK k \in 0..MaxPayments :
        /\ Created = 1..k
        /\ IsFiniteSet(Inserters)
        /\ k + Cardinality(Inserters) <= MaxPayments
  BY DEF Seats
<1>2. NextRow = k + 1
  <2>1. Cardinality(1..k) = k
    BY FS_Interval, Numbers
  <2>. QED
    BY <1>1, <2>1 DEF NextRow
<1>3. Cardinality(Inserters) \in Nat /\ Cardinality(Inserters) # 0
  BY <1>1, FS_CardinalityType, FS_EmptySet
<1>4. k + 1 <= MaxPayments
  BY <1>1, <1>3, Numbers
<1>. QED
  BY <1>1, <1>2, <1>4, Numbers DEF Rows

(* The row takes the seat of the request that has inserted it.             *)
LEMMA SeatUsed ==
  ASSUME Seats, NEW r \in Inserters, Inserters' = Inserters \ {r},
         Created' = Created \cup {NextRow}
  PROVE  Seats'
<1>1. PICK k \in 0..MaxPayments :
        /\ Created = 1..k
        /\ IsFiniteSet(Inserters)
        /\ k + Cardinality(Inserters) <= MaxPayments
  BY DEF Seats
<1>2. NextRow = k + 1
  <2>1. Cardinality(1..k) = k
    BY FS_Interval, Numbers
  <2>. QED
    BY <1>1, <2>1 DEF NextRow
<1>3. /\ IsFiniteSet(Inserters')
      /\ Cardinality(Inserters') = Cardinality(Inserters) - 1
  BY <1>1, FS_RemoveElement
<1>4. Cardinality(Inserters') \in Nat /\ Cardinality(Inserters) \in Nat
  BY <1>1, <1>3, FS_CardinalityType
<1>5. k + 1 \in 0..MaxPayments /\ (k + 1) + Cardinality(Inserters') <= MaxPayments
  BY <1>1, <1>3, <1>4, Numbers
<1>6. Created' = 1..(k + 1)
  BY <1>2, SeatFound
<1>. QED
  BY <1>3, <1>5, <1>6 DEF Seats

-----------------------------------------------------------------------------
(* Steps that leave the order, the payments and the provider as they are.  *)
LEMMA BooksAsTheyWere ==
  ASSUME IInv, Typed', UNCHANGED <<order, paymentStatus, pay, bank>>
  PROVE  /\ RowsGrow
         /\ \A p \in Rows : RowIsSound(p)'
         /\ OrderIsSound'
         /\ Created' = Created
<1>1. RowsGrow
  <2>1. \A p \in Rows : pay[p].refunded \in Int /\ bank[p].refunded \in Int
    BY Numbers DEF IInv, Typed, PaymentRow, BankRow
  <2>. QED
    BY <2>1 DEF RowsGrow, RowGrows
<1>2. \A p \in Rows : RowIsSound(p)'
  BY DEF IInv, RowIsSound
<1>3. OrderIsSound'
  BY DEF IInv, OrderIsSound, Money, PaidStatusIsReal, Cash, CashTakenOnce
<1>4. Created' = Created
  BY DEF Created
<1>. QED
  BY <1>1, <1>2, <1>3, <1>4

(* A step of r that inserts nothing.                                       *)
LEMMA SeatsFollow ==
  ASSUME Seats, Created' = Created, NEW r \in Requests,
         \A q \in Requests \ {r} : Untouched(q),
         req'[r].pc \in Inserting => req[r].pc \in Inserting \/ Room
  PROVE  Seats'
<1>1. \A q \in Requests \ {r} : q \in Inserters' <=> q \in Inserters
  BY DEF Untouched, Inserters
<1>2. CASE r \in Inserters \/ r \notin Inserters'
  BY <1>1, <1>2, SeatKept DEF Inserters
<1>3. CASE r \notin Inserters /\ r \in Inserters'
  <2>1. Inserters' = Inserters \cup {r}
    BY <1>1, <1>3 DEF Inserters
  <2>2. Room
    BY <1>3 DEF Inserters
  <2>. QED
    BY <2>1, <2>2, SeatTaken
<1>. QED
  BY <1>2, <1>3

(* One request r goes from one record to the next; what it leaves.         *)
LEMMA BookStep ==
  ASSUME IInv, Typed', UNCHANGED <<order, paymentStatus, pay, bank>>, NEW r \in Requests,
         \A q \in Requests \ {r} : Untouched(q),
         req'[r].pc \in Inserting => req[r].pc \in Inserting \/ Room,
         RequestIsSound(r)'
  PROVE  IInv'
<1>1. Seats'
  BY SeatsFollow, BooksAsTheyWere DEF IInv
<1>2. \A q \in Requests : RequestIsSound(q)'
  BY BooksAsTheyWere, UntouchedKeeps
<1>. QED
  BY <1>1, <1>2, BooksAsTheyWere DEF IInv

(* What Proceed and Goto leave alone.                                      *)
LEMMA ProceedEffect ==
  ASSUME IInv, NEW r \in Requests, NEW next \in Request, Proceed(r, next)
  PROVE  /\ req'[r] = next /\ req' \in [Requests -> Request]
         /\ \A q \in Requests \ {r} : Untouched(q)
         /\ Held(r)' = Held(r) /\ orderLock' = orderLock
<1>. USE DEF IInv, Typed, Proceed
<1>1. req'[r] = next /\ req' \in [Requests -> Request] /\ \A q \in Requests \ {r} : req'[q] = req[q]
  OBVIOUS
<1>2. \A q \in Requests : Held(q)' = Held(q)
  BY DEF Held
<1>. QED
  BY <1>1, <1>2 DEF Untouched

(* Goto changes the record of r and gives its locks back.                  *)
LEMMA GotoEffect ==
  ASSUME IInv, NEW r \in Requests, NEW next \in Request, Goto(r, next)
  PROVE  /\ req'[r] = next /\ req' \in [Requests -> Request]
         /\ payLock' \in [Rows -> Requests \cup {NoRequest}]
         /\ orderLock' \in Requests \cup {NoRequest}
         /\ Held(r)' = {} /\ orderLock' # r
         /\ \A q \in Requests \ {r} :
              /\ req'[q] = req[q] /\ Held(q)' = Held(q)
              /\ orderLock' = q <=> orderLock = q
<1>. USE RequestAssumption DEF IInv, Typed, Goto
<1>1. req'[r] = next /\ req' \in [Requests -> Request] /\ \A q \in Requests \ {r} : req'[q] = req[q]
  OBVIOUS
<1>2. payLock' \in [Rows -> Requests \cup {NoRequest}] /\ orderLock' \in Requests \cup {NoRequest}
  OBVIOUS
<1>3. Held(r)' = {} /\ \A q \in Requests \ {r} : Held(q)' = Held(q)
  BY DEF Held
<1>4. orderLock' # r /\ \A q \in Requests \ {r} : orderLock' = q <=> orderLock = q
  OBVIOUS
<1>. QED
  BY <1>1, <1>2, <1>3, <1>4

(* A request that is done, or is about to fail its payment, is sound.      *)
LEMMA FreshIsSound ==
  ASSUME NEW r \in Requests, Held(r)' = {}, orderLock' # r,
         req'[r] = Idle \/ \E p \in Rows : req'[r] = Failing(p)
  PROVE  RequestIsSound(r)' /\ req'[r].pc \notin Inserting
<1>. USE RequestFields
<1>0. req'[r].pc \in {"idle", "settlePayment"}
  OBVIOUS
<1>1. OwnsItsLocks(r)' /\ DoesItsJob(r)' /\ RefundsWhatIsLeft(r)' /\ DerivedIsReal(r)'
  BY <1>0 DEF OwnsItsLocks, DoesItsJob, RefundsWhatIsLeft, DerivedIsReal, Refunds
<1>2. SettlesTheTruth(r)'
  BY DEF SettlesTheTruth, Settles
<1>. QED
  BY <1>0, <1>1, <1>2 DEF RequestIsSound, Inserting

(* A transaction that ends without having changed anything.                *)
LEMMA EndsKeeps ==
  ASSUME IInv, NEW r \in Requests, NEW next, Goto(r, next),
         next = Idle \/ \E p \in Rows : next = Failing(p),
         UNCHANGED <<order, paymentStatus, pay, bank>>, acknowledged' \subseteq Rows
  PROVE  IInv'
<1>1. next \in Request
  BY FreshRequests
<1>2. \A q \in Requests \ {r} : Untouched(q)
  BY <1>1, GotoEffect DEF Untouched
<1>3. Typed'
  BY <1>1, GotoEffect DEF IInv, Typed
<1>4. RequestIsSound(r)' /\ req'[r].pc \notin Inserting
  BY <1>1, GotoEffect, FreshIsSound
<1>. QED
  BY <1>2, <1>3, <1>4, BookStep

(* A step of r alone keeps the invariant if r is sound after it.           *)
LEMMA ProceedKeeps ==
  ASSUME IInv, NEW r \in Requests, NEW next \in Request, Proceed(r, next), UNCHANGED bank,
         next.pc \in Inserting => req[r].pc \in Inserting \/ Room,
         RequestIsSound(r)'
  PROVE  IInv'
<1>1. /\ req'[r] = next /\ req' \in [Requests -> Request]
      /\ \A q \in Requests \ {r} : Untouched(q)
  BY ProceedEffect
<1>2. Typed' /\ UNCHANGED <<order, paymentStatus, pay, bank>>
  BY <1>1 DEF IInv, Typed, Proceed
<1>. QED
  BY <1>1, <1>2, BookStep

-----------------------------------------------------------------------------
(* The statements at which a request holds no lock.                        *)
Unlocked == {"idle", "check", "create", "send", "sent", "settle", "settlePayment", "query",
             "timeout", "cash", "cancel", "refundProvider", "refundPayment"}

(* A request outside a transaction holds no lock.                          *)
LEMMA NoLocks ==
  ASSUME IInv, NEW r \in Requests, req[r].pc \in Unlocked
  PROVE  Held(r) = {} /\ orderLock # r
  BY DEF IInv, RequestIsSound, OwnsItsLocks, Unlocked

(* Outside a transaction there is nothing to ask of the locks.             *)
LEMMA UnlockedIsSound ==
  ASSUME NEW r \in Requests, Held(r)' = {}, orderLock' # r, req'[r].pc \in Unlocked,
         req'[r].pc = "cancel" => req'[r].seen \in {"AWAITING_PAYMENT", "CONFIRMED"}
  PROVE  OwnsItsLocks(r)' /\ DerivedIsReal(r)'
  BY DEF OwnsItsLocks, DerivedIsReal, Unlocked

(* A request that goes on without a lock.                                  *)
LEMMA GoesOn ==
  ASSUME IInv, NEW r \in Requests, req[r].pc \in Unlocked,
         NEW next \in Request, Proceed(r, next), UNCHANGED bank, next.pc \in Unlocked,
         next.pc \in Inserting => req[r].pc \in Inserting \/ Room,
         next.pc = "cancel" => next.seen \in {"AWAITING_PAYMENT", "CONFIRMED"},
         req'[r] = next => DoesItsJob(r)' /\ SettlesTheTruth(r)' /\ RefundsWhatIsLeft(r)'
  PROVE  IInv'
<1>1. req'[r] = next /\ Held(r)' = {} /\ orderLock' # r
  BY NoLocks, ProceedEffect
<1>2. RequestIsSound(r)'
  BY <1>1, UnlockedIsSound DEF RequestIsSound
<1>. QED
  BY <1>2, ProceedKeeps

(* initiate, confirmCash, cancel: the checks that open a request.          *)
LEMMA OpenKeeps ==
  ASSUME IInv, NEW r \in Requests,
         \/ OpenInitiate(r) \/ OpenCash(r)
         \/ \E op \in {"CANCEL", "CANCEL_UNPAID"} : OpenCancel(r, op)
         \/ CheckInFlight(r)
  PROVE  IInv'
<1>1. req[r].pc \in Unlocked
  BY DEF OpenInitiate, OpenCash, OpenCancel, CheckInFlight, Unlocked
<1>2. PICK next : Proceed(r, next) /\ UNCHANGED bank /\
        \/ next = At("check", "INITIATE", 0) /\ Room
        \/ next = At("create", "INITIATE", 0) /\ req[r].pc = "check"
        \/ next = Idle
        \/ next = At("cash", "CASH", 0) /\ Room
        \/ \E op \in {"CANCEL", "CANCEL_UNPAID"} :
              /\ next = [At("cancel", op, 0) EXCEPT !.seen = order]
              /\ order \in {"AWAITING_PAYMENT", "CONFIRMED"}
  BY DEF OpenInitiate, OpenCash, OpenCancel, CheckInFlight
<1>3. /\ next \in Request
      /\ next.pc \in {"check", "create", "idle", "cash", "cancel"}
      /\ next.pc \in Inserting => req[r].pc \in Inserting \/ Room
      /\ next.pc = "cancel" => /\ next.seen \in {"AWAITING_PAYMENT", "CONFIRMED"}
                               /\ next.op \in {"CANCEL", "CANCEL_UNPAID"}
      /\ next.pc = "cash" => next.op = "CASH"
  <2>. USE FreshRequests, RequestFields DEF Inserting
  <2>1. CASE \E op \in {"CANCEL", "CANCEL_UNPAID"} :
               /\ next = [At("cancel", op, 0) EXCEPT !.seen = order]
               /\ order \in {"AWAITING_PAYMENT", "CONFIRMED"}
    <3>1. PICK op \in {"CANCEL", "CANCEL_UNPAID"} :
               /\ next = [At("cancel", op, 0) EXCEPT !.seen = order]
               /\ order \in {"AWAITING_PAYMENT", "CONFIRMED"}
      BY <2>1
    <3>2. At("cancel", op, 0) \in Request
      BY DEF Op
    <3>. QED
      BY <3>1, <3>2 DEF Request, Orders
  <2>2. CASE \/ next = At("check", "INITIATE", 0) /\ Room
             \/ next = At("create", "INITIATE", 0) /\ req[r].pc = "check"
             \/ next = Idle
             \/ next = At("cash", "CASH", 0) /\ Room
    BY <2>2 DEF Op
  <2>. QED
    BY <1>2, <2>1, <2>2
<1>4. req'[r] = next => DoesItsJob(r)' /\ SettlesTheTruth(r)' /\ RefundsWhatIsLeft(r)'
  BY <1>3 DEF DoesItsJob, SettlesTheTruth, RefundsWhatIsLeft, Settles, Refunds
<1>. QED
  BY <1>1, <1>2, <1>3, <1>4, GoesOn DEF Unlocked

(* A settlement that has read the order is still the same settlement.      *)
LEMMA ReadsOrder ==
  ASSUME NEW q \in Request, NEW status \in Orders
  PROVE  LET next == [q EXCEPT !.pc = "settlePayment", !.seen = status]
         IN  /\ next \in Request /\ next.pc = "settlePayment"
             /\ next.p = q.p /\ next.op = q.op /\ next.target = q.target
  BY DEF Request

(* Settlements start with what the provider said.                          *)
LEMMA SettlementOpens ==
  ASSUME IInv, NEW r \in Requests,
         \/ ReadForSettlement(r) \/ QueryStatus(r)
         \/ \E p \in Rows : OpenCallback(r, p) \/ OpenReconcile(r, p)
  PROVE  IInv'
<1>. USE FreshRequests, RequestFields DEF IInv, RequestIsSound
<1>1. CASE ReadForSettlement(r)
  <2>. DEFINE next == [req[r] EXCEPT !.pc = "settlePayment", !.seen = order]
  <2>1. req[r].pc = "settle" /\ Proceed(r, next) /\ UNCHANGED bank
    BY <1>1 DEF ReadForSettlement
  <2>2. /\ next \in Request /\ next.pc = "settlePayment"
        /\ next.p = req[r].p /\ next.op = req[r].op /\ next.target = req[r].target
    <3>1. req[r] \in Request /\ order \in Orders
      BY DEF Typed
    <3>. QED
      BY <3>1, ReadsOrder
  <2>3. req'[r] = next => DoesItsJob(r)' /\ SettlesTheTruth(r)' /\ RefundsWhatIsLeft(r)'
    BY <2>1, <2>2 DEF DoesItsJob, SettlesTheTruth, RefundsWhatIsLeft, Settles, Refunds
  <2>. QED
    BY <2>1, <2>2, <2>3, GoesOn DEF Unlocked, Inserting
<1>2. CASE QueryStatus(r)
  <2>. DEFINE p == req[r].p
  <2>1. /\ req[r].pc = "query" /\ p \in Rows /\ bank[p] \in BankRow
        /\ bank[p].result # "NONE"
        /\ bank[p].result = "SUCCEEDED" => bank[p].decided = "SUCCEEDED"
    BY <1>2 DEF QueryStatus, DoesItsJob, Typed, RowIsSound
  <2>2. PICK next : Proceed(r, next) /\ UNCHANGED bank /\
          \/ next = Idle
          \/ next = At("timeout", "RECONCILE", p)
          \/ next = Settling("RECONCILE", p, bank[p].result) /\ bank[p].result # "PENDING"
    BY <1>2 DEF QueryStatus
  <2>3. bank[p].result \in {"PENDING", "SUCCEEDED", "FAILED", "CANCELLED"}
    BY <2>1 DEF BankRow
  <2>4. next \in Request /\ next.pc \in {"idle", "timeout", "settle"}
    BY <2>1, <2>2, <2>3 DEF Op
  <2>5. req'[r] = next => DoesItsJob(r)' /\ SettlesTheTruth(r)' /\ RefundsWhatIsLeft(r)'
    BY <2>1, <2>2, <2>3, <2>4
       DEF DoesItsJob, SettlesTheTruth, RefundsWhatIsLeft, Settles, Refunds
  <2>. QED
    BY <2>1, <2>2, <2>4, <2>5, GoesOn DEF Unlocked, Inserting
<1>3. ASSUME NEW p \in Rows, OpenCallback(r, p)
      PROVE  IInv'
  <2>. DEFINE next == Settling("CALLBACK", p, bank[p].decided)
  <2>1. req[r].pc = "idle" /\ Proceed(r, next) /\ UNCHANGED bank /\ bank[p].decided # "NONE"
    BY <1>3 DEF OpenCallback
  <2>2. bank[p].decided \in {"SUCCEEDED", "FAILED"} /\ bank[p].result # "NONE"
    BY <2>1 DEF Typed, BankRow, RowIsSound
  <2>3. next \in Request /\ next.pc = "settle"
    BY <2>2 DEF Op
  <2>4. req'[r] = next => DoesItsJob(r)' /\ SettlesTheTruth(r)' /\ RefundsWhatIsLeft(r)'
    BY <2>1, <2>2, <2>3 DEF DoesItsJob, SettlesTheTruth, RefundsWhatIsLeft, Settles, Refunds
  <2>. QED
    BY <2>1, <2>3, <2>4, GoesOn DEF Unlocked, Inserting
<1>4. ASSUME NEW p \in Rows, OpenReconcile(r, p)
      PROVE  IInv'
  <2>1. PICK next : req[r].pc = "idle" /\ Proceed(r, next) /\ UNCHANGED bank /\
          \/ next = At("query", "RECONCILE", p) /\ pay[p].ref
          \/ next = Failing(p)
    BY <1>4 DEF OpenReconcile
  <2>2. next \in Request /\ next.pc \in {"query", "settlePayment"}
    BY <2>1 DEF Op
  <2>3. pay[p].ref => bank[p].result # "NONE"
    BY DEF RowIsSound
  <2>4. req'[r] = next => DoesItsJob(r)' /\ SettlesTheTruth(r)' /\ RefundsWhatIsLeft(r)'
    BY <2>1, <2>2, <2>3 DEF DoesItsJob, SettlesTheTruth, RefundsWhatIsLeft, Settles, Refunds
  <2>. QED
    BY <2>1, <2>2, <2>4, GoesOn DEF Unlocked, Inserting
<1>. QED
  BY <1>1, <1>2, <1>3, <1>4

-----------------------------------------------------------------------------
(* refund: read outside the transaction, and paid back by the provider.    *)
LEMMA AfterRefund ==
  ASSUME NEW old \in Nat, NEW amount \in Nat
  PROVE  /\ PaymentStatusAfterRefund(Total, old, amount) \in RefundedStatus
         /\ PaymentStatusAfterRefund(Total, old, amount) = "REFUNDED" <=> old + amount = Total
  BY DEF PaymentStatusAfterRefund, RefundedStatus

(* refund: the amount is checked against the row as it is read.            *)
LEMMA OpenRefundKeeps ==
  ASSUME IInv, NEW r \in Requests, NEW p \in Rows, NEW amount \in 1..Total,
         OpenRefund(r, p, amount)
  PROVE  IInv'
<1>. DEFINE target == PaymentStatusAfterRefund(Total, pay[p].refunded, amount)
            start  == At(IF pay[p].ref THEN "refundProvider" ELSE "refundPayment", "REFUND", p)
            next   == [start EXCEPT !.seen = pay[p].status, !.old = pay[p].refunded,
                                    !.amount = amount, !.target = target]
<1>1. /\ req[r].pc = "idle" /\ pay[p].refunded + amount <= Total
      /\ pay[p].status # NoPayment /\ CanTransitionPayment(pay[p].status, target)
      /\ Proceed(r, next) /\ UNCHANGED bank
  BY DEF OpenRefund
<1>2. pay[p] \in PaymentRow /\ RowIsSound(p) /\ bank[p] \in BankRow
  BY DEF IInv, Typed
<1>3. /\ pay[p].refunded \in 0..Total /\ pay[p].refunded \in Nat /\ bank[p].refunded \in Nat
      /\ amount \in Nat /\ amount > 0 /\ amount \in 0..Total
  BY <1>2, Numbers DEF PaymentRow, BankRow
<1>4. target \in RefundedStatus
  BY <1>3, AfterRefund
<1>5. pay[p].status \in {"SUCCEEDED", "PARTIALLY_REFUNDED"}
  BY <1>1, <1>2, <1>4
     DEF CanTransitionPayment, PAYMENT_TRANSITIONS, RefundedStatus, PaymentRow,
         PaymentRecordStatus
<1>6. /\ start \in Request
      /\ start.pc \in {"refundProvider", "refundPayment"} /\ start.op = "REFUND" /\ start.p = p
      /\ start.pc = "refundPayment" => pay[p].method # "CARD"
  <2>1. start.pc \in {"refundProvider", "refundPayment"} /\ start.op = "REFUND" /\ start.p = p
    BY RequestFields
  <2>2. start.pc = "refundPayment" => pay[p].method # "CARD"
    BY <1>2, <1>5, RequestFields DEF RowIsSound, Captured
  <2>3. start \in Request
    BY FreshRequests DEF Op
  <2>. QED
    BY <2>1, <2>2, <2>3
<1>. HIDE DEF start, target
<1>7. /\ next \in Request /\ next.pc = start.pc /\ next.op = "REFUND" /\ next.p = p
      /\ next.seen = pay[p].status /\ next.old = pay[p].refunded
      /\ next.amount = amount /\ next.target = target
  BY <1>3, <1>4, <1>5, <1>6 DEF Request, RefundedStatus, PaymentRecordStatus
<1>. HIDE DEF next
<1>8. req'[r] = next => DoesItsJob(r)' /\ SettlesTheTruth(r)'
  BY <1>6, <1>7 DEF DoesItsJob, SettlesTheTruth, Settles
<1>9. req'[r] = next => RefundsWhatIsLeft(r)'
  <2>1. pay' = pay /\ bank' = bank
    BY <1>1 DEF Proceed
  <2>2. pay[p].method = "CARD" => pay[p].refunded <= bank[p].refunded
    BY <1>2 DEF RowIsSound
  <2>. QED
    BY <1>1, <1>3, <1>5, <1>6, <1>7, <2>1, <2>2
       DEF RefundsWhatIsLeft, Captured, target
<1>. QED
  BY <1>1, <1>6, <1>7, <1>8, <1>9, GoesOn DEF Unlocked, Inserting

(* What the provider learns: its records only grow.                        *)
LEMMA BankStep ==
  ASSUME IInv, Typed', UNCHANGED <<order, paymentStatus, pay>>,
         \A p \in Rows :
           /\ bank[p].decided # "NONE" => bank'[p].decided = bank[p].decided
           /\ bank[p].result # "NONE" => bank'[p].result # "NONE"
           /\ bank'[p].decided # "NONE" => bank'[p].result # "NONE"
           /\ bank'[p].result = "SUCCEEDED" => bank'[p].decided = "SUCCEEDED"
           /\ bank'[p].refunded >= bank[p].refunded
  PROVE  /\ RowsGrow
         /\ \A p \in Rows : RowIsSound(p)'
         /\ OrderIsSound'
         /\ Created' = Created
<1>1. \A p \in Rows : /\ pay[p].refunded \in Int /\ bank[p].refunded \in Int
                      /\ bank'[p].refunded \in Int
  BY Numbers DEF IInv, Typed, PaymentRow, BankRow
<1>2. RowsGrow
  BY <1>1 DEF RowsGrow, RowGrows
<1>3. \A p \in Rows : RowIsSound(p)'
  BY <1>1 DEF IInv, RowIsSound
<1>4. OrderIsSound'
  BY DEF IInv, OrderIsSound, Money, PaidStatusIsReal, Cash, CashTakenOnce
<1>5. Created' = Created
  BY DEF Created
<1>. QED
  BY <1>2, <1>3, <1>4, <1>5

(* The customer pays at the terminal, or does not.                         *)
LEMMA BankDecidesKeeps ==
  ASSUME IInv, NEW p \in Rows, BankDecides(p)
  PROVE  IInv' /\ RowsGrow
<1>1. PICK outcome \in {"SUCCEEDED", "FAILED"} :
        bank' = [bank EXCEPT ![p].result = outcome, ![p].decided = outcome]
  BY DEF BankDecides
<1>2. /\ bank[p].decided = "NONE"
      /\ UNCHANGED <<order, paymentStatus, pay, acknowledged, orderLock, payLock, req>>
  BY DEF BankDecides
<1>3. bank' \in [Rows -> BankRow]
  BY <1>1 DEF IInv, Typed, BankRow
<1>4. Typed'
  BY <1>2, <1>3 DEF IInv, Typed
<1>5. \A q \in Rows :
        /\ bank[q].decided # "NONE" => bank'[q].decided = bank[q].decided
        /\ bank[q].result # "NONE" => bank'[q].result # "NONE"
        /\ bank'[q].decided # "NONE" => bank'[q].result # "NONE"
        /\ bank'[q].result = "SUCCEEDED" => bank'[q].decided = "SUCCEEDED"
        /\ bank'[q].refunded >= bank[q].refunded
  <2>1. \A q \in Rows : bank[q] \in BankRow /\ bank[q].refunded \in Int /\ RowIsSound(q)
    BY Numbers DEF IInv, Typed, BankRow
  <2>2. /\ bank'[p].result = outcome /\ bank'[p].decided = outcome
        /\ bank'[p].refunded = bank[p].refunded
        /\ \A q \in Rows \ {p} : bank'[q] = bank[q]
    BY <1>1, <2>1 DEF IInv, Typed, BankRow
  <2>. QED
    BY <1>2, <2>1, <2>2 DEF RowIsSound
<1>6. \A q \in Requests : Untouched(q)
  BY <1>2 DEF Untouched, Held
<1>7. /\ RowsGrow /\ \A q \in Rows : RowIsSound(q)'
      /\ OrderIsSound' /\ Created' = Created
  BY <1>2, <1>4, <1>5, BankStep
<1>8. Seats'
  <2>1. Inserters' = Inserters
    BY <1>2 DEF Inserters
  <2>. QED
    BY <1>7, <2>1, SeatKept DEF IInv
<1>. QED
  BY <1>4, <1>6, <1>7, <1>8, UntouchedKeeps DEF IInv

(* A request that goes on after the provider's answer.                     *)
LEMMA BankProceed ==
  ASSUME IInv, NEW r \in Requests, req[r].pc \in Unlocked,
         NEW next \in Request, Proceed(r, next),
         next.pc \in Unlocked \ {"cancel"}, next.pc \notin Inserting,
         bank' \in [Rows -> BankRow],
         \A p \in Rows :
           /\ bank'[p].decided = bank[p].decided
           /\ bank'[p].result = bank[p].result \/ bank'[p].result \in {"PENDING", "CANCELLED"}
           /\ bank'[p].refunded >= bank[p].refunded,
         req'[r] = next => DoesItsJob(r)' /\ SettlesTheTruth(r)' /\ RefundsWhatIsLeft(r)'
  PROVE  IInv' /\ RowsGrow
<1>1. /\ req'[r] = next /\ req' \in [Requests -> Request]
      /\ \A q \in Requests \ {r} : Untouched(q)
      /\ Held(r)' = {} /\ orderLock' # r
  BY NoLocks, ProceedEffect
<1>2. Typed' /\ UNCHANGED <<order, paymentStatus, pay>>
  BY <1>1 DEF IInv, Typed, Proceed
<1>3. \A p \in Rows :
        /\ bank[p].decided # "NONE" => bank'[p].decided = bank[p].decided
        /\ bank[p].result # "NONE" => bank'[p].result # "NONE"
        /\ bank'[p].decided # "NONE" => bank'[p].result # "NONE"
        /\ bank'[p].result = "SUCCEEDED" => bank'[p].decided = "SUCCEEDED"
        /\ bank'[p].refunded >= bank[p].refunded
  BY DEF IInv, RowIsSound
<1>4. /\ RowsGrow /\ \A p \in Rows : RowIsSound(p)'
      /\ OrderIsSound' /\ Created' = Created
  BY <1>2, <1>3, BankStep
<1>5. Seats'
  BY <1>1, <1>4, SeatsFollow DEF IInv
<1>6. RequestIsSound(r)'
  BY <1>1, UnlockedIsSound DEF RequestIsSound
<1>. QED
  BY <1>1, <1>2, <1>4, <1>5, <1>6, UntouchedKeeps DEF IInv

(* The attempt is sent to the terminal.                                    *)
LEMMA SendKeeps ==
  ASSUME IInv, NEW r \in Requests, SendToTerminal(r)
  PROVE  IInv' /\ RowsGrow
<1>. DEFINE p == req[r].p
<1>1. req[r].pc = "send" /\ p \in Rows
  BY DEF SendToTerminal, IInv, RequestIsSound, DoesItsJob
<1>2. bank \in [Rows -> BankRow] /\ \A q \in Rows : bank[q].refunded \in Int
  BY Numbers DEF IInv, Typed, BankRow
<1>3. CASE bank' = [bank EXCEPT ![p].result = "PENDING"] /\ Proceed(r, At("sent", "INITIATE", p))
  <2>. DEFINE next == At("sent", "INITIATE", p)
  <2>1. next \in Request /\ next.pc = "sent" /\ next.p = p
    BY <1>1, FreshRequests, RequestFields DEF Op
  <2>2. /\ bank' \in [Rows -> BankRow] /\ bank'[p].result = "PENDING"
        /\ \A q \in Rows :
             /\ bank'[q].decided = bank[q].decided /\ bank'[q].refunded = bank[q].refunded
             /\ q # p => bank'[q] = bank[q]
    BY <1>1, <1>2, <1>3 DEF BankRow
  <2>3. req'[r] = next => DoesItsJob(r)' /\ SettlesTheTruth(r)' /\ RefundsWhatIsLeft(r)'
    BY <1>1, <2>1, <2>2 DEF DoesItsJob, SettlesTheTruth, RefundsWhatIsLeft, Settles, Refunds
  <2>4. \A q \in Rows :
           /\ bank'[q].decided = bank[q].decided
           /\ bank'[q].result = bank[q].result \/ bank'[q].result \in {"PENDING", "CANCELLED"}
           /\ bank'[q].refunded >= bank[q].refunded
    BY <1>2, <2>2
  <2>. QED
    BY <1>1, <1>3, <2>1, <2>2, <2>3, <2>4, BankProceed DEF Unlocked, Inserting
<1>4. CASE UNCHANGED bank /\ Proceed(r, Failing(p))
  <2>1. Failing(p) \in Request /\ Failing(p).pc = "settlePayment"
    BY <1>1, FreshRequests, RequestFields
  <2>2. req'[r] = Failing(p) => DoesItsJob(r)' /\ SettlesTheTruth(r)' /\ RefundsWhatIsLeft(r)'
    BY <1>1, RequestFields DEF DoesItsJob, SettlesTheTruth, RefundsWhatIsLeft, Settles, Refunds
  <2>. QED
    BY <1>1, <1>2, <1>4, <2>1, <2>2, BankProceed DEF Unlocked, Inserting
<1>. QED
  BY <1>3, <1>4 DEF SendToTerminal

(* reconcile gives up on a payment that has been pending for too long.     *)
LEMMA CancelAtTerminalKeeps ==
  ASSUME IInv, NEW r \in Requests, CancelAtTerminal(r)
  PROVE  IInv' /\ RowsGrow
<1>. DEFINE p == req[r].p
<1>1. /\ req[r].pc = "timeout" /\ p \in Rows
      /\ bank' = [bank EXCEPT ![p].result = "CANCELLED"] /\ Proceed(r, Failing(p))
  BY DEF CancelAtTerminal, IInv, RequestIsSound, DoesItsJob
<1>2. bank \in [Rows -> BankRow] /\ \A q \in Rows : bank[q].refunded \in Int
  BY Numbers DEF IInv, Typed, BankRow
<1>3. bank' \in [Rows -> BankRow]
  BY <1>1, <1>2 DEF BankRow
<1>4. \A q \in Rows :
         /\ bank'[q].decided = bank[q].decided
         /\ bank'[q].result = bank[q].result \/ bank'[q].result \in {"PENDING", "CANCELLED"}
         /\ bank'[q].refunded >= bank[q].refunded
  <2>1. \A q \in Rows : bank[q] \in BankRow /\ bank[q].refunded >= bank[q].refunded
    BY <1>2
  <2>2. /\ bank'[p].decided = bank[p].decided /\ bank'[p].refunded = bank[p].refunded
        /\ bank'[p].result = "CANCELLED" /\ \A q \in Rows \ {p} : bank'[q] = bank[q]
    BY <1>1, <1>2, <2>1 DEF BankRow
  <2>. QED
    BY <2>1, <2>2
<1>5. Failing(p) \in Request /\ Failing(p).pc = "settlePayment"
  BY <1>1, FreshRequests, RequestFields
<1>6. req'[r] = Failing(p) => DoesItsJob(r)' /\ SettlesTheTruth(r)' /\ RefundsWhatIsLeft(r)'
  BY <1>1, RequestFields DEF DoesItsJob, SettlesTheTruth, RefundsWhatIsLeft, Settles, Refunds
<1>. QED
  BY <1>1, <1>3, <1>4, <1>5, <1>6, BankProceed DEF Unlocked, Inserting

(* The provider pays back before the row is written.                       *)
LEMMA RefundAtProviderKeeps ==
  ASSUME IInv, NEW r \in Requests, RefundAtProvider(r)
  PROVE  IInv' /\ RowsGrow
<1>. DEFINE p == req[r].p
<1>1. /\ req[r].pc = "refundProvider" /\ RefundsWhatIsLeft(r)
      /\ p \in Rows /\ req[r] \in Request
  BY DEF RefundAtProvider, IInv, Typed, RequestIsSound, RefundsWhatIsLeft, Refunds
<1>2. bank \in [Rows -> BankRow] /\ \A q \in Rows : bank[q].refunded \in Nat
  BY Numbers DEF IInv, Typed, BankRow
<1>3. req[r].amount \in Nat /\ req[r].old \in Nat
  BY <1>1, Numbers DEF Request
<1>4. CASE /\ bank[p].refunded + req[r].amount <= MaxPaidBack
           /\ bank' = [bank EXCEPT ![p].refunded = @ + req[r].amount]
           /\ Proceed(r, [req[r] EXCEPT !.pc = "refundPayment"])
  <2>. DEFINE next == [req[r] EXCEPT !.pc = "refundPayment"]
  <2>1. /\ next \in Request /\ next.pc = "refundPayment"
        /\ next.p = p /\ next.op = req[r].op /\ next.target = req[r].target
        /\ next.old = req[r].old /\ next.amount = req[r].amount /\ next.seen = req[r].seen
    BY <1>1 DEF Request
  <2>2. bank[p].refunded + req[r].amount \in 0..MaxPaidBack
    BY <1>1, <1>2, <1>3, <1>4, Numbers
  <2>3. /\ bank' \in [Rows -> BankRow] /\ bank'[p].refunded = bank[p].refunded + req[r].amount
        /\ bank'[p].decided = bank[p].decided /\ bank'[p].result = bank[p].result
        /\ \A q \in Rows \ {p} : bank'[q] = bank[q]
    BY <1>1, <1>2, <1>4, <2>2 DEF BankRow
  <2>4. \A q \in Rows :
           /\ bank'[q].decided = bank[q].decided
           /\ bank'[q].result = bank[q].result \/ bank'[q].result \in {"PENDING", "CANCELLED"}
           /\ bank'[q].refunded >= bank[q].refunded
    BY <1>1, <1>2, <1>3, <2>3
  <2>5. pay' = pay
    BY <1>4 DEF Proceed
  <2>. HIDE DEF next
  <2>6. req'[r] = next => DoesItsJob(r)' /\ SettlesTheTruth(r)'
    BY <1>1, <2>1 DEF DoesItsJob, SettlesTheTruth, Settles
  <2>7. req'[r] = next => RefundsWhatIsLeft(r)'
    <3>1. pay[p].method = "CARD" => req[r].old + req[r].amount <= bank'[p].refunded
      BY <1>1, <1>2, <1>3, <2>3 DEF RefundsWhatIsLeft, Refunds
    <3>2. pay[p].method = "CARD" => req[r].old <= bank'[p].refunded
      BY <1>1, <1>2, <1>3, <3>1, <2>3
    <3>. QED
      BY <1>1, <2>1, <2>5, <3>1, <3>2 DEF RefundsWhatIsLeft, Refunds
  <2>. QED
    BY <1>1, <1>4, <2>1, <2>3, <2>4, <2>6, <2>7, BankProceed DEF Unlocked, Inserting, next
<1>5. CASE UNCHANGED bank /\ Proceed(r, Idle)
  <2>1. req'[r] = Idle => DoesItsJob(r)' /\ SettlesTheTruth(r)' /\ RefundsWhatIsLeft(r)'
    BY RequestFields DEF DoesItsJob, SettlesTheTruth, RefundsWhatIsLeft, Settles, Refunds
  <2>. QED
    BY <1>1, <1>2, <1>5, <2>1, FreshRequests, RequestFields, BankProceed DEF Unlocked, Inserting
<1>. QED
  BY <1>4, <1>5 DEF RefundAtProvider

-----------------------------------------------------------------------------
(* Row locks are taken where nobody has them.                              *)
LEMMA RowsTaken ==
  ASSUME IInv, NEW r \in Requests, NEW S \in SUBSET Rows, Held(r) = {},
         \A p \in S : payLock[p] = NoRequest,
         payLock' = [p \in Rows |-> IF p \in S THEN r ELSE payLock[p]]
  PROVE  /\ Held(r)' = S /\ payLock' \in [Rows -> Requests \cup {NoRequest}]
         /\ \A q \in Requests \ {r} : Held(q)' = Held(q)
<1>1. payLock \in [Rows -> Requests \cup {NoRequest}]
  BY DEF IInv, Typed
<1>2. Held(r)' = S
  BY DEF Held
<1>3. \A q \in Requests \ {r} : Held(q)' = Held(q)
  BY RequestAssumption DEF Held
<1>. QED
  BY <1>1, <1>2, <1>3

(* The result of a settlement or refund within its locks.                  *)
LEMMA LockStep ==
  ASSUME IInv, UNCHANGED <<order, paymentStatus, pay, bank, acknowledged>>,
         NEW r \in Requests, NEW next \in Request, req' = [req EXCEPT ![r] = next],
         payLock' \in [Rows -> Requests \cup {NoRequest}],
         orderLock' \in Requests \cup {NoRequest},
         \A q \in Requests \ {r} : Held(q)' = Held(q) /\ (orderLock' = q <=> orderLock = q),
         next.pc \in Inserting => req[r].pc \in Inserting,
         RequestIsSound(r)'
  PROVE  IInv'
<1>1. /\ req'[r] = next /\ req' \in [Requests -> Request]
      /\ \A q \in Requests \ {r} : req'[q] = req[q]
  BY DEF IInv, Typed
<1>2. \A q \in Requests \ {r} : Untouched(q)
  BY <1>1 DEF Untouched
<1>3. Typed'
  BY <1>1 DEF IInv, Typed
<1>. QED
  BY <1>1, <1>2, <1>3, BookStep

(* What a transaction derives from the rows it sees.                       *)
LEMMA DerivedAfterSettling ==
  ASSUME IInv, NEW r \in Requests, NEW p \in Rows,
         Written(r, p).refunded \in Nat
  PROVE  /\ DerivedAfter(r, p) \in PaymentStatus
         /\ Written(r, p).status \notin Captured =>
              /\ DerivedAfter(r, p) \in {"PAID", "PARTIALLY_REFUNDED", "REFUNDED"} => Money
              /\ DerivedAfter(r, p) \in RefundedStatus => PaidBack
<1>. DEFINE rows == [q \in Rows |-> IF q = p THEN Written(r, p) ELSE pay[q]]
<1>1. DOMAIN rows = 1..MaxPayments /\ MaxPayments \in Nat /\ Total \in Nat \ {0}
  BY Numbers DEF Rows
<1>2. \A q \in Rows : pay[q].refunded \in Nat
  BY Numbers DEF IInv, Typed, PaymentRow
<1>3. \A q \in 1..MaxPayments : rows[q].refunded \in Nat
  BY <1>2 DEF Rows
<1>4. DerivedAfter(r, p) = DerivePaymentStatus(rows, Total)
  BY DEF DerivedAfter
<1>5. \A q \in Rows : rows[q] = IF q = p THEN Written(r, p) ELSE pay[q]
  OBVIOUS
<1>. HIDE DEF rows
<1>6. /\ DerivedAfter(r, p) \in PaymentStatus
      /\ DerivedAfter(r, p) \in {"PAID", "PARTIALLY_REFUNDED", "REFUNDED"} =>
           \E q \in Rows : rows[q].status \in Captured
      /\ DerivedAfter(r, p) \in {"PARTIALLY_REFUNDED", "REFUNDED"} =>
           \E q \in Rows : rows[q].status \in Captured /\ rows[q].refunded > 0
  BY <1>1, <1>3, <1>4, DerivedStatus DEF Rows
<1>. QED
  BY <1>5, <1>6 DEF Money, PaidBack, RefundedStatus

(* What a settlement writes: the result, and the provider's reference.     *)
LEMMA SettlementWrites ==
  ASSUME IInv, NEW r \in Requests, req[r].pc \in Settles, NEW p \in Rows
  PROVE  /\ Written(r, p) \in PaymentRow
         /\ Written(r, p).status = req[r].target /\ Written(r, p).refunded = pay[p].refunded
         /\ Written(r, p).method = pay[p].method
         /\ Written(r, p).ref = (pay[p].ref \/ req[r].op # "FAIL")
<1>1. pay[p] \in PaymentRow /\ SettlesTheTruth(r)
  BY DEF IInv, Typed, RequestIsSound
<1>2. /\ req[r].op \in {"INITIATE", "CALLBACK", "RECONCILE", "FAIL"}
      /\ req[r].target \in {"SUCCEEDED", "FAILED", "CANCELLED"}
  BY <1>1 DEF SettlesTheTruth
<1>3. Written(r, p) = [pay[p] EXCEPT !.status = req[r].target, !.ref = @ \/ req[r].op # "FAIL"]
  BY <1>2 DEF Written
<1>. QED
  BY <1>1, <1>2, <1>3 DEF PaymentRow, PaymentRecordStatus

(* settle writes the row of the payment, within its transaction.           *)
LEMMA SettlePaymentKeeps ==
  ASSUME IInv, NEW r \in Requests, SettlePayment(r)
  PROVE  IInv'
<1>. DEFINE p == req[r].p
<1>1. /\ req[r].pc = "settlePayment" /\ payLock[p] = NoRequest
      /\ UNCHANGED <<order, paymentStatus, pay, bank>>
      /\ Held(r) = {} /\ orderLock # r
  BY NoLocks DEF SettlePayment, Unlocked
<1>2. p \in Rows /\ SettlesTheTruth(r) /\ req[r] \in Request
  BY <1>1 DEF IInv, Typed, RequestIsSound, SettlesTheTruth, Settles
<1>3. CASE p \in Open
  <2>. DEFINE next == [req[r] EXCEPT !.pc = "settleOrder", !.next = DerivedAfter(r, p)]
  <2>1. /\ payLock' = [payLock EXCEPT ![p] = r]
        /\ req' = [req EXCEPT ![r] = next]
        /\ UNCHANGED <<acknowledged, orderLock>>
    BY <1>3 DEF SettlePayment
  <2>2. /\ Held(r)' = {p} /\ payLock' \in [Rows -> Requests \cup {NoRequest}]
        /\ \A q \in Requests \ {r} : Held(q)' = Held(q)
    <3>1. payLock' = [q \in Rows |-> IF q \in {p} THEN r ELSE payLock[q]]
      BY <2>1 DEF IInv, Typed
    <3>. QED
      BY <1>1, <1>2, <3>1, RowsTaken
  <2>3. /\ DerivedAfter(r, p) \in PaymentStatus
        /\ Written(r, p).status \notin Captured =>
             /\ DerivedAfter(r, p) \in {"PAID", "PARTIALLY_REFUNDED", "REFUNDED"} => Money
             /\ DerivedAfter(r, p) \in RefundedStatus => PaidBack
        /\ Written(r, p).status = req[r].target
    <3>1. Written(r, p) \in PaymentRow /\ Written(r, p).status = req[r].target
      BY <1>1, <1>2, SettlementWrites DEF Settles
    <3>2. Written(r, p).refunded \in Nat
      BY <3>1, RowNumbers
    <3>. QED
      BY <1>2, <3>1, <3>2, DerivedAfterSettling
  <2>4. /\ next \in Request /\ next.pc = "settleOrder" /\ next.next = DerivedAfter(r, p)
        /\ next.p = p /\ next.op = req[r].op /\ next.target = req[r].target
    BY <1>2, <2>3 DEF Request
  <2>. HIDE DEF next
  <2>5. req'[r] = next /\ Open' = Open /\ (Money => Money') /\ (PaidBack => PaidBack')
    BY <1>1, <2>1 DEF IInv, Typed, Open, Money, PaidBack
  <2>6. OwnsItsLocks(r)'
    BY <1>1, <1>3, <2>1, <2>2, <2>4, <2>5 DEF OwnsItsLocks
  <2>7. DoesItsJob(r)' /\ SettlesTheTruth(r)' /\ RefundsWhatIsLeft(r)'
    BY <1>1, <1>2, <2>3, <2>4, <2>5 DEF DoesItsJob, SettlesTheTruth, Settles, RefundsWhatIsLeft, Refunds
  <2>8. DerivedIsReal(r)'
    BY <1>1, <1>2, <2>3, <2>4, <2>5 DEF DerivedIsReal, SettlesTheTruth, Settles, Captured
  <2>9. RequestIsSound(r)'
    BY <2>6, <2>7, <2>8 DEF RequestIsSound
  <2>10. orderLock' \in Requests \cup {NoRequest}
    BY <2>1 DEF IInv, Typed
  <2>. QED
    BY <1>1, <2>1, <2>2, <2>4, <2>9, <2>10, LockStep DEF Inserting
<1>4. CASE p \notin Open
  <2>1. Goto(r, Idle) /\ acknowledged' \subseteq Rows
    BY <1>2, <1>4 DEF SettlePayment, Finish, IInv, Typed
  <2>. QED
    BY <1>1, <2>1, EndsKeeps
<1>. QED
  BY <1>3, <1>4

(* confirmCash gives the open card attempts up.                            *)
LEMMA SupersedeCardKeeps ==
  ASSUME IInv, NEW r \in Requests, SupersedeCard(r)
  PROVE  IInv'
<1>. DEFINE next == [req[r] EXCEPT !.pc = "cashOrder"]
<1>1. /\ req[r].pc = "cash" /\ \A p \in Open : payLock[p] = NoRequest
      /\ payLock' = [p \in Rows |-> IF p \in Open THEN r ELSE payLock[p]]
      /\ req' = [req EXCEPT ![r] = next]
      /\ UNCHANGED <<order, paymentStatus, pay, bank, acknowledged, orderLock>>
      /\ Held(r) = {} /\ orderLock # r
  BY NoLocks DEF SupersedeCard, Unlocked
<1>2. req[r] \in Request /\ req[r].op = "CASH"
  BY <1>1 DEF IInv, Typed, RequestIsSound, DoesItsJob
<1>3. /\ Held(r)' = Open /\ payLock' \in [Rows -> Requests \cup {NoRequest}]
      /\ \A q \in Requests \ {r} : Held(q)' = Held(q)
  <2>1. Open \in SUBSET Rows
    BY DEF Open
  <2>. QED
    BY <1>1, <2>1, RowsTaken
<1>4. next \in Request /\ next.pc = "cashOrder" /\ next.op = "CASH"
  BY <1>2 DEF Request
<1>. HIDE DEF next
<1>5. req'[r] = next /\ Open' = Open
  BY <1>1 DEF IInv, Typed, Open
<1>6. RequestIsSound(r)'
  <2>1. OwnsItsLocks(r)'
    BY <1>1, <1>3, <1>4, <1>5 DEF OwnsItsLocks
  <2>2. DoesItsJob(r)' /\ SettlesTheTruth(r)' /\ RefundsWhatIsLeft(r)' /\ DerivedIsReal(r)'
    BY <1>4, <1>5 DEF DoesItsJob, SettlesTheTruth, Settles, RefundsWhatIsLeft, Refunds,
                      DerivedIsReal
  <2>. QED
    BY <2>1, <2>2 DEF RequestIsSound
<1>7. orderLock' \in Requests \cup {NoRequest}
  BY <1>1 DEF IInv, Typed
<1>. QED
  BY <1>1, <1>3, <1>4, <1>6, <1>7, LockStep DEF Inserting

(* cancel writes the order first and keeps its row locked.                 *)
LEMMA CancelOrderRowKeeps ==
  ASSUME IInv, NEW r \in Requests, CancelOrderRow(r)
  PROVE  IInv'
<1>. DEFINE next == [req[r] EXCEPT !.pc = "cancelPayments"]
<1>1. /\ req[r].pc = "cancel" /\ orderLock = NoRequest
      /\ Held(r) = {} /\ orderLock # r
  BY NoLocks DEF CancelOrderRow, Unlocked
<1>2. /\ req[r] \in Request /\ req[r].op \in {"CANCEL", "CANCEL_UNPAID"}
      /\ req[r].seen \in {"AWAITING_PAYMENT", "CONFIRMED"}
  BY <1>1 DEF IInv, Typed, RequestIsSound, DoesItsJob, OwnsItsLocks
<1>3. CASE order = req[r].seen
  <2>1. /\ orderLock' = r /\ req' = [req EXCEPT ![r] = next]
        /\ UNCHANGED <<order, paymentStatus, pay, bank, acknowledged, payLock>>
    BY <1>3 DEF CancelOrderRow
  <2>2. next \in Request /\ next.pc = "cancelPayments" /\ next.op = req[r].op
    BY <1>2 DEF Request
  <2>. HIDE DEF next
  <2>3. req'[r] = next /\ \A q \in Requests : Held(q)' = Held(q)
    BY <2>1 DEF IInv, Typed, Held
  <2>4. RequestIsSound(r)'
    <3>1. OwnsItsLocks(r)'
      BY <1>1, <1>2, <1>3, <2>1, <2>2, <2>3 DEF OwnsItsLocks
    <3>2. DoesItsJob(r)' /\ SettlesTheTruth(r)' /\ RefundsWhatIsLeft(r)' /\ DerivedIsReal(r)'
      BY <1>2, <2>2, <2>3 DEF DoesItsJob, SettlesTheTruth, Settles, RefundsWhatIsLeft, Refunds,
                              DerivedIsReal
    <3>. QED
      BY <3>1, <3>2 DEF RequestIsSound
  <2>5. /\ payLock' \in [Rows -> Requests \cup {NoRequest}]
        /\ \A q \in Requests \ {r} : orderLock' = q <=> orderLock = q
    BY <1>1, <2>1, RequestAssumption DEF IInv, Typed
  <2>. QED
    BY <2>1, <2>2, <2>3, <2>4, <2>5, LockStep DEF Inserting
<1>4. CASE order # req[r].seen
  <2>1. Goto(r, Idle) /\ UNCHANGED <<order, paymentStatus, pay, bank, acknowledged>>
    BY <1>4 DEF CancelOrderRow, Rollback, Finish
  <2>2. acknowledged' \subseteq Rows
    BY <2>1 DEF IInv, Typed
  <2>. QED
    BY <2>1, <2>2, EndsKeeps
<1>. QED
  BY <1>3, <1>4

(* What a refund writes: the amount added, and the status that goes with it. *)
LEMMA RefundWrites ==
  ASSUME IInv, NEW r \in Requests, req[r].pc \in Refunds, NEW p \in Rows, p = req[r].p,
         pay[p].status = req[r].seen, pay[p].refunded = req[r].old
  PROVE  /\ Written(r, p) \in PaymentRow
         /\ Written(r, p).status = PaymentStatusAfterRefund(Total, req[r].old, req[r].amount)
         /\ Written(r, p).refunded = req[r].old + req[r].amount
         /\ Written(r, p).method = pay[p].method /\ Written(r, p).ref = pay[p].ref
         /\ req[r].old \in Nat /\ req[r].amount \in Nat \ {0}
         /\ req[r].old + req[r].amount <= Total
         /\ CanTransitionPayment(pay[p].status, Written(r, p).status)
<1>1. pay[p] \in PaymentRow /\ req[r] \in Request /\ RefundsWhatIsLeft(r)
  BY DEF IInv, Typed, RequestIsSound
<1>2. /\ req[r].op = "REFUND" /\ req[r].seen \in {"SUCCEEDED", "PARTIALLY_REFUNDED"}
      /\ req[r].amount > 0 /\ req[r].old + req[r].amount <= Total
      /\ req[r].target = PaymentStatusAfterRefund(Total, req[r].old, req[r].amount)
  BY <1>1 DEF RefundsWhatIsLeft
<1>3. Written(r, p) = [pay[p] EXCEPT !.status = req[r].target, !.refunded = @ + req[r].amount]
  BY <1>2 DEF Written
<1>4. req[r].old \in Nat /\ req[r].amount \in Nat \ {0}
  BY <1>1, <1>2, Numbers DEF Request
<1>5. req[r].target \in RefundedStatus
  BY <1>2, <1>4, AfterRefund
<1>6. req[r].old + req[r].amount \in 0..Total
  BY <1>2, <1>4, Numbers
<1>7. /\ Written(r, p) \in PaymentRow
      /\ Written(r, p).status = req[r].target
      /\ Written(r, p).refunded = req[r].old + req[r].amount
      /\ Written(r, p).method = pay[p].method /\ Written(r, p).ref = pay[p].ref
  BY <1>1, <1>3, <1>5, <1>6 DEF PaymentRow, PaymentRecordStatus, RefundedStatus
<1>8. CanTransitionPayment(pay[p].status, Written(r, p).status)
  BY <1>2, <1>5, <1>7 DEF CanTransitionPayment, PAYMENT_TRANSITIONS, RefundedStatus
<1>. QED
  BY <1>2, <1>4, <1>7, <1>8

(* refund writes the row of the payment, within its transaction.           *)
LEMMA RefundPaymentKeeps ==
  ASSUME IInv, NEW r \in Requests, RefundPayment(r)
  PROVE  IInv'
<1>. DEFINE p == req[r].p
<1>1. /\ req[r].pc = "refundPayment" /\ payLock[p] = NoRequest
      /\ UNCHANGED <<order, paymentStatus, pay, bank, acknowledged>>
      /\ Held(r) = {} /\ orderLock # r
  BY NoLocks DEF RefundPayment, Unlocked
<1>2. p \in Rows /\ RefundsWhatIsLeft(r) /\ req[r] \in Request
  BY <1>1 DEF IInv, Typed, RequestIsSound, RefundsWhatIsLeft, Refunds
<1>3. CASE pay[p].status = req[r].seen /\ pay[p].refunded = req[r].old
  <2>. DEFINE next == [req[r] EXCEPT !.pc = "refundOrder", !.next = DerivedAfter(r, p)]
  <2>1. /\ payLock' = [payLock EXCEPT ![p] = r]
        /\ req' = [req EXCEPT ![r] = next]
        /\ UNCHANGED orderLock
    BY <1>3 DEF RefundPayment
  <2>2. /\ Held(r)' = {p} /\ payLock' \in [Rows -> Requests \cup {NoRequest}]
        /\ \A q \in Requests \ {r} : Held(q)' = Held(q)
    <3>1. payLock' = [q \in Rows |-> IF q \in {p} THEN r ELSE payLock[q]]
      BY <2>1 DEF IInv, Typed
    <3>. QED
      BY <1>1, <1>2, <3>1, RowsTaken
  <2>3. DerivedAfter(r, p) \in PaymentStatus
    <3>1. Written(r, p) \in PaymentRow
      BY <1>1, <1>2, <1>3, RefundWrites DEF Refunds
    <3>2. Written(r, p).refunded \in Nat
      BY <3>1, RowNumbers
    <3>. QED
      BY <1>2, <3>2, DerivedAfterSettling
  <2>4. /\ next \in Request /\ next.pc = "refundOrder" /\ next.next = DerivedAfter(r, p)
        /\ next.p = p /\ next.op = req[r].op /\ next.target = req[r].target
        /\ next.old = req[r].old /\ next.amount = req[r].amount /\ next.seen = req[r].seen
    BY <1>2, <2>3 DEF Request
  <2>. HIDE DEF next
  <2>5. req'[r] = next /\ Open' = Open
    BY <1>1, <2>1 DEF IInv, Typed, Open
  <2>6. OwnsItsLocks(r)'
    BY <1>1, <1>3, <2>1, <2>2, <2>4, <2>5 DEF OwnsItsLocks
  <2>7. DoesItsJob(r)' /\ SettlesTheTruth(r)' /\ DerivedIsReal(r)'
    BY <2>3, <2>4, <2>5 DEF DoesItsJob, SettlesTheTruth, Settles, DerivedIsReal
  <2>8. RefundsWhatIsLeft(r)'
    BY <1>1, <1>2, <2>4, <2>5 DEF RefundsWhatIsLeft, Refunds
  <2>9. RequestIsSound(r)'
    BY <2>6, <2>7, <2>8 DEF RequestIsSound
  <2>10. orderLock' \in Requests \cup {NoRequest}
    BY <2>1 DEF IInv, Typed
  <2>. QED
    BY <1>1, <2>1, <2>2, <2>4, <2>9, <2>10, LockStep DEF Inserting
<1>4. CASE ~(pay[p].status = req[r].seen /\ pay[p].refunded = req[r].old)
  <2>1. Goto(r, Idle) /\ acknowledged' \subseteq Rows
    BY <1>1, <1>4 DEF RefundPayment, Finish, IInv, Typed
  <2>. QED
    BY <1>1, <2>1, EndsKeeps
<1>. QED
  BY <1>3, <1>4

(* What rolls back leaves no trace.                                        *)
LEMMA RollbackKeeps ==
  ASSUME IInv, NEW r \in Requests, Rollback(r) \/ Throw(r)
  PROVE  IInv' /\ UNCHANGED <<order, paymentStatus, pay, bank>>
<1>1. acknowledged' \subseteq Rows /\ UNCHANGED <<order, paymentStatus, pay, bank>>
  BY DEF Rollback, Throw, IInv, Typed
<1>2. req[r].p \in Rows \cup {0}
  BY DEF IInv, Typed, Request
<1>3. \E next : /\ Goto(r, next)
                /\ next = Idle \/ \E p \in Rows : next = Failing(p)
  BY <1>2 DEF Rollback, Finish, Throw
<1>. QED
  BY <1>1, <1>3, EndsKeeps

-----------------------------------------------------------------------------
(* Steps that write payment rows: what is to be shown of them.             *)
LEMMA RowsFollow ==
  ASSUME IInv, Typed', UNCHANGED bank, NEW S,
         \A p \in Rows \ S : pay'[p] = pay[p],
         \A p \in Rows \cap S : RowGrows(p) /\ RowIsSound(p)' /\ pay'[p].method = pay[p].method
  PROVE  RowsGrow /\ (\A p \in Rows : RowIsSound(p)') /\ Cash' = Cash
<1>1. \A p \in Rows : pay[p] \in PaymentRow /\ bank[p].refunded \in Int
  BY Numbers DEF IInv, Typed, BankRow
<1>2. \A p \in Rows \ S : RowGrows(p) /\ RowIsSound(p)'
  BY <1>1, RowNumbers DEF IInv, RowGrows, RowIsSound
<1>3. \A p \in Rows : pay'[p].method = pay[p].method
  OBVIOUS
<1>. QED
  BY <1>2, <1>3 DEF RowsGrow, Cash

(* What the order says stays justified when payments grow.                 *)
LEMMA OrderFollows ==
  ASSUME IInv, Typed', RowsGrow, Cash' = Cash,
         order' \in {"CONFIRMED", "COMPLETED"} => order \in {"CONFIRMED", "COMPLETED"} \/ Money',
         order' = "AWAITING_PAYMENT" => order = "AWAITING_PAYMENT",
         \/ paymentStatus' = paymentStatus
         \/ /\ paymentStatus' \in {"PAID", "PARTIALLY_REFUNDED", "REFUNDED"} => Money'
            /\ paymentStatus' \in RefundedStatus => PaidBack'
  PROVE  OrderIsSound'
<1>1. (Money => Money') /\ (PaidBack => PaidBack')
  BY MoneyStays DEF IInv
<1>2. order' \in {"CONFIRMED", "COMPLETED"} => Money'
  BY <1>1 DEF IInv, OrderIsSound
<1>3. PaidStatusIsReal'
  BY <1>1 DEF IInv, OrderIsSound, PaidStatusIsReal, Money, PaidBack, RefundedStatus
<1>4. (order' = "AWAITING_PAYMENT" => Cash' = {}) /\ CashTakenOnce'
  BY DEF IInv, OrderIsSound, CashTakenOnce, Cash
<1>. QED
  BY <1>2, <1>3, <1>4 DEF OrderIsSound

(* A step of r that writes payments keeps the invariant.                   *)
LEMMA PayStep ==
  ASSUME IInv, Typed', RowsGrow, \A p \in Rows : RowIsSound(p)', NEW r \in Requests,
         \A q \in Requests \ {r} : Untouched(q), RequestIsSound(r)', Seats', OrderIsSound'
  PROVE  IInv'
  BY UntouchedKeeps DEF IInv

(* A row that is to be inserted has no history.                            *)
LEMMA NewRow ==
  ASSUME IInv, NEW r \in Requests, req[r].pc \in {"create", "cashOrder"}
  PROVE  /\ NextRow \in Rows /\ NextRow \notin Created /\ NextRow \notin Open
         /\ pay[NextRow].status = NoPayment /\ pay[NextRow].refunded = 0
         /\ pay[NextRow].method = "CARD" /\ bank[NextRow].refunded \in Nat
         /\ r \in Inserters /\ Created \cup {NextRow} = 1..NextRow
<1>1. /\ r \in Inserters /\ NextRow \in Rows /\ NextRow \notin Created
      /\ Created \cup {NextRow} = 1..NextRow
  BY SeatFound DEF IInv, Inserters, Inserting
<1>2. pay[NextRow].status = NoPayment
  BY <1>1 DEF Created
<1>3. pay[NextRow] \in PaymentRow /\ RowIsSound(NextRow)
  BY <1>1 DEF IInv, Typed
<1>4. pay[NextRow].refunded = 0
  BY <1>2, <1>3, RowNumbers, Numbers DEF RowIsSound, NoPayment, RefundedStatus
<1>5. bank[NextRow].refunded \in Nat
  BY <1>1, Numbers DEF IInv, Typed, BankRow
<1>. QED
  BY <1>1, <1>2, <1>3, <1>4, <1>5 DEF RowIsSound, Open, InFlight, NoPayment

(* ... and its type.                                                       *)
LEMMA FreshRow ==
  ASSUME NEW status \in PaymentRecordStatus, NEW method \in {"CARD", "CASH"}
  PROVE  /\ Row(status, method) \in PaymentRow
         /\ Row(status, method).status = status /\ Row(status, method).method = method
         /\ Row(status, method).ref = FALSE /\ Row(status, method).refunded = 0
  BY Numbers DEF Row, PaymentRow

(* initiate inserts the row of a new attempt.                              *)
LEMMA CreatePaymentKeeps ==
  ASSUME IInv, NEW r \in Requests, CreatePayment(r)
  PROVE  IInv' /\ RowsGrow
<1>0. PICK n : n = NextRow
  OBVIOUS
<1>. DEFINE row == Row("INITIATED", "CARD")
            next == At("send", "INITIATE", n)
<1>1. /\ req[r].pc = "create" /\ Held(r) = {} /\ orderLock # r
      /\ pay' = [pay EXCEPT ![n] = row] /\ paymentStatus' = "PENDING"
      /\ req' = [req EXCEPT ![r] = next]
      /\ UNCHANGED <<order, bank, acknowledged, orderLock, payLock>>
  BY <1>0, NoLocks DEF CreatePayment, Unlocked
<1>2. /\ n \in Rows /\ n \notin Created /\ n \notin Open
      /\ pay[n].status = NoPayment /\ pay[n].refunded = 0
      /\ pay[n].method = "CARD" /\ bank[n].refunded \in Nat /\ r \in Inserters
  BY <1>0, <1>1, NewRow
<1>3. /\ row \in PaymentRow /\ row.status = "INITIATED" /\ row.method = "CARD"
      /\ row.ref = FALSE /\ row.refunded = 0
  BY FreshRow DEF PaymentRecordStatus
<1>4. next \in Request /\ next.pc = "send" /\ next.p = n
  BY <1>2, FreshRequests, RequestFields DEF Op
<1>. HIDE DEF row, next
<1>5. Typed' /\ pay'[n] = row /\ \A p \in Rows \ {n} : pay'[p] = pay[p]
  BY <1>1, <1>2, <1>3, <1>4 DEF IInv, Typed, PaymentStatus
<1>6. /\ req'[r] = next /\ \A q \in Requests \ {r} : req'[q] = req[q]
  BY <1>1 DEF IInv, Typed
<1>7. RowsGrow /\ (\A p \in Rows : RowIsSound(p)') /\ Cash' = Cash
  <2>1. RowIsSound(n)'
    <3>1. RowIsSound(n)
      BY <1>2 DEF IInv
    <3>. QED
      BY <1>1, <1>2, <1>3, <1>5, <3>1, Numbers
         DEF RowIsSound, RefundedStatus, NoPayment, Captured
  <2>2. RowGrows(n)
    BY <1>1, <1>2, <1>3, <1>5 DEF RowGrows
  <2>3. \A p \in Rows \cap {n} :
          RowGrows(p) /\ RowIsSound(p)' /\ pay'[p].method = pay[p].method
    BY <1>2, <1>3, <1>5, <2>1, <2>2
  <2>. QED
    BY <1>1, <1>5, <2>3, RowsFollow
<1>8. \A q \in Requests \ {r} : Untouched(q)
  <2>1. \A q \in Requests \ {r} : n \notin Held(q)
    <3>. SUFFICES ASSUME NEW q \in Requests \ {r}, n \in Held(q) PROVE FALSE
      OBVIOUS
    <3>1. OwnsItsLocks(q) /\ RefundsWhatIsLeft(q)
      BY DEF IInv, RequestIsSound
    <3>. QED
      BY <1>2, <3>1 DEF OwnsItsLocks, RefundsWhatIsLeft, Refunds, NoPayment, Captured
  <2>. QED
    BY <1>1, <1>5, <1>6, <2>1 DEF Untouched, Held
<1>9. RequestIsSound(r)'
  <2>1. OwnsItsLocks(r)' /\ DerivedIsReal(r)'
    BY <1>1, <1>4, <1>6, UnlockedIsSound DEF Unlocked, Held
  <2>2. DoesItsJob(r)' /\ SettlesTheTruth(r)' /\ RefundsWhatIsLeft(r)'
    BY <1>2, <1>4, <1>6 DEF DoesItsJob, SettlesTheTruth, Settles, RefundsWhatIsLeft, Refunds
  <2>. QED
    BY <2>1, <2>2 DEF RequestIsSound
<1>10. Seats'
  <2>1. Inserters' = Inserters \ {r}
    BY <1>4, <1>6 DEF Inserters, Inserting
  <2>2. Created' = Created \cup {NextRow}
    BY <1>0, <1>2, <1>3, <1>5 DEF Created, NoPayment
  <2>. QED
    BY <1>2, <2>1, <2>2, SeatUsed DEF IInv
<1>11. OrderIsSound'
  BY <1>1, <1>5, <1>7, OrderFollows DEF RefundedStatus
<1>. QED
  BY <1>5, <1>7, <1>8, <1>9, <1>10, <1>11, PayStep

(* The terminal has taken the attempt: the row keeps its reference.        *)
LEMMA MarkPendingKeeps ==
  ASSUME IInv, NEW r \in Requests, MarkPending(r)
  PROVE  IInv' /\ RowsGrow
<1>0. PICK p : p = req[r].p
  OBVIOUS
<1>1. /\ req[r].pc = "sent" /\ payLock[p] = NoRequest /\ Held(r) = {} /\ orderLock # r
      /\ pay' = IF pay[p].status = "INITIATED"
                THEN [pay EXCEPT ![p].status = "PENDING", ![p].ref = TRUE] ELSE pay
      /\ UNCHANGED <<order, paymentStatus, bank, acknowledged, orderLock, payLock>>
  BY <1>0, NoLocks DEF MarkPending, Unlocked
<1>2. PICK next : /\ req' = [req EXCEPT ![r] = next]
                  /\ \/ next = Idle
                     \/ /\ bank[p].decided # "NONE"
                        /\ next = Settling("INITIATE", p, bank[p].decided)
  BY <1>0 DEF MarkPending
<1>3. /\ p \in Rows /\ bank[p].result # "NONE" /\ pay[p] \in PaymentRow /\ bank[p] \in BankRow
      /\ RowIsSound(p)
  BY <1>0, <1>1 DEF IInv, Typed, RequestIsSound, DoesItsJob
<1>4. /\ next \in Request
      /\ next.pc = "idle" \/ /\ next.pc = "settle" /\ next.op = "INITIATE" /\ next.p = p
                             /\ next.target = bank[p].decided /\ bank[p].decided # "NONE"
  <2>1. bank[p].decided # "NONE" => bank[p].decided \in {"SUCCEEDED", "FAILED"}
    BY <1>3 DEF BankRow
  <2>2. Idle \in Request /\ Idle.pc = "idle"
    BY FreshRequests, RequestFields
  <2>3. bank[p].decided # "NONE" => Settling("INITIATE", p, bank[p].decided) \in Request
    BY <1>3, <2>1, FreshRequests DEF Op
  <2>. QED
    BY <1>2, <2>2, <2>3, RequestFields
<1>5. /\ pay' \in [Rows -> PaymentRow] /\ \A q \in Rows \ {p} : pay'[q] = pay[q]
      /\ pay'[p].method = pay[p].method /\ pay'[p].refunded = pay[p].refunded
      /\ \/ pay'[p] = pay[p]
         \/ /\ pay[p].status = "INITIATED" /\ pay'[p].status = "PENDING"
            /\ pay'[p].ref = TRUE
  BY <1>1, <1>3 DEF IInv, Typed, PaymentRow, PaymentRecordStatus
<1>6. /\ req' \in [Requests -> Request] /\ req'[r] = next
      /\ \A q \in Requests \ {r} : req'[q] = req[q]
  BY <1>2, <1>4 DEF IInv, Typed
<1>7. Typed'
  BY <1>1, <1>5, <1>6 DEF IInv, Typed
<1>8. RowsGrow /\ (\A q \in Rows : RowIsSound(q)') /\ Cash' = Cash
  <2>1. RowIsSound(p)'
    BY <1>1, <1>3, <1>5 DEF RowIsSound, RefundedStatus, Captured, NoPayment
  <2>2. RowGrows(p)
    <3>1. pay[p].refunded \in Int /\ bank[p].refunded \in Int
      BY <1>3, Numbers, RowNumbers DEF BankRow
    <3>. QED
      BY <1>1, <1>5, <3>1 DEF RowGrows, CanTransitionPayment, PAYMENT_TRANSITIONS
  <2>3. \A q \in Rows \cap {p} :
          RowGrows(q) /\ RowIsSound(q)' /\ pay'[q].method = pay[q].method
    BY <1>5, <2>1, <2>2
  <2>. QED
    BY <1>1, <1>5, <1>7, <2>3, RowsFollow
<1>9. \A q \in Requests \ {r} : Untouched(q)
  <2>1. \A q \in Requests \ {r} : p \notin Held(q)
    BY <1>1, RequestAssumption DEF Held
  <2>. QED
    BY <1>1, <1>5, <1>6, <2>1 DEF Untouched, Held
<1>10. RequestIsSound(r)'
  <2>1. OwnsItsLocks(r)' /\ DerivedIsReal(r)'
    BY <1>1, <1>4, <1>6, UnlockedIsSound DEF Unlocked, Held
  <2>2. DoesItsJob(r)' /\ RefundsWhatIsLeft(r)'
    BY <1>4, <1>6 DEF DoesItsJob, RefundsWhatIsLeft, Refunds
  <2>3. SettlesTheTruth(r)'
    BY <1>1, <1>3, <1>4, <1>6 DEF SettlesTheTruth, Settles, BankRow
  <2>. QED
    BY <2>1, <2>2, <2>3 DEF RequestIsSound
<1>11. Seats'
  <2>1. Created' = Created
    BY <1>5 DEF Created, NoPayment
  <2>. QED
    BY <1>4, <1>6, <1>9, <2>1, SeatsFollow DEF IInv, Inserting
<1>12. OrderIsSound'
  BY <1>1, <1>7, <1>8, OrderFollows
<1>. QED
  BY <1>7, <1>8, <1>9, <1>10, <1>11, <1>12, PayStep

-----------------------------------------------------------------------------
(* A transaction that commits: rows in S written, the request finished.    *)
LEMMA CommitStep ==
  ASSUME IInv, NEW r \in Requests, Goto(r, Idle), UNCHANGED bank,
         acknowledged' \subseteq Rows, order' \in Orders, paymentStatus' \in PaymentStatus,
         pay' \in [Rows -> PaymentRow], RowsGrow, \A p \in Rows : RowIsSound(p)',
         \A q \in Requests \ {r} : \A p \in Held(q) : pay'[p] = pay[p],
         order' = order \/ orderLock \in {NoRequest, r},
         Seats', OrderIsSound'
  PROVE  IInv'
<1>1. Idle \in Request
  BY FreshRequests
<1>2. Typed'
  BY <1>1, GotoEffect DEF IInv, Typed
<1>3. \A q \in Requests \ {r} : Untouched(q)
  BY <1>1, GotoEffect, RequestAssumption DEF Untouched
<1>4. RequestIsSound(r)'
  BY <1>1, GotoEffect, FreshIsSound
<1>. QED
  BY <1>2, <1>3, <1>4, PayStep

(* Such a transaction leaves the seats alone if it inserts no row.         *)
LEMMA CommitSeats ==
  ASSUME IInv, Typed', NEW r \in Requests, Goto(r, Idle), RowsGrow,
         \A p \in Rows : pay[p].status = NoPayment => pay'[p] = pay[p]
  PROVE  Seats'
<1>1. \A p \in Rows : pay[p].status # NoPayment => pay'[p].status # NoPayment
  <2>. SUFFICES ASSUME NEW p \in Rows, pay[p].status # NoPayment
       PROVE  pay'[p].status # NoPayment
    OBVIOUS
  <2>1. pay[p] \in PaymentRow /\ RowGrows(p)
    BY DEF IInv, Typed, RowsGrow
  <2>. QED
    BY <2>1 DEF RowGrows, CanTransitionPayment, PAYMENT_TRANSITIONS, PaymentRow,
                PaymentRecordStatus, NoPayment
<1>2. Created' = Created
  BY <1>1 DEF Created
<1>3. Idle \in Request
  BY FreshRequests
<1>4. Inserters' \subseteq Inserters
  BY <1>3, GotoEffect, RequestFields DEF Inserters, Inserting
<1>. QED
  BY <1>2, <1>4, SeatKept DEF IInv

(* A card attempt that is cancelled.                                       *)
LEMMA ClosedRow ==
  ASSUME IInv, NEW p \in Open, UNCHANGED bank, NEW row,
         row = [pay[p] EXCEPT !.status = "CANCELLED"]
  PROVE  /\ row \in PaymentRow /\ row.method = pay[p].method
         /\ pay'[p] = row => RowGrows(p) /\ RowIsSound(p)'
<1>1. p \in Rows /\ pay[p] \in PaymentRow /\ RowIsSound(p) /\ bank[p] \in BankRow
      /\ pay[p].status \in InFlight
  BY DEF IInv, Typed, Open
<1>2. /\ row \in PaymentRow /\ row.method = pay[p].method /\ row.status = "CANCELLED"
      /\ row.refunded = pay[p].refunded /\ row.ref = pay[p].ref
  BY <1>1 DEF PaymentRow, PaymentRecordStatus
<1>3. pay[p].refunded \in Int /\ bank[p].refunded \in Int
  BY <1>1, RowNumbers, Numbers DEF BankRow
<1>4. pay'[p] = row => RowIsSound(p)'
  BY <1>1, <1>2 DEF RowIsSound, RefundedStatus, InFlight, NoPayment, Captured
<1>5. pay'[p] = row => RowGrows(p)
  BY <1>1, <1>2, <1>3 DEF RowGrows, CanTransitionPayment, PAYMENT_TRANSITIONS, InFlight
<1>. QED
  BY <1>2, <1>4, <1>5

(* A payment in flight that gets its result.                               *)
LEMMA SettledRow ==
  ASSUME IInv, NEW r \in Requests, req[r].pc \in Settles, NEW p \in Open, p = req[r].p,
         UNCHANGED bank, NEW row, row = Written(r, p)
  PROVE  /\ row \in PaymentRow /\ row.method = pay[p].method /\ row.status = req[r].target
         /\ pay'[p] = row => RowGrows(p) /\ RowIsSound(p)'
<1>1. p \in Rows /\ pay[p] \in PaymentRow /\ RowIsSound(p) /\ bank[p] \in BankRow
      /\ pay[p].status \in InFlight /\ SettlesTheTruth(r)
  BY DEF IInv, Typed, Open, RequestIsSound
<1>2. /\ row \in PaymentRow /\ row.method = pay[p].method /\ row.status = req[r].target
      /\ row.refunded = pay[p].refunded /\ row.ref = (pay[p].ref \/ req[r].op # "FAIL")
  BY <1>1, SettlementWrites
<1>3. pay[p].refunded \in Int /\ bank[p].refunded \in Int
  BY <1>1, RowNumbers, Numbers DEF BankRow
<1>4. /\ req[r].target \in {"SUCCEEDED", "FAILED", "CANCELLED"}
      /\ req[r].target = "SUCCEEDED" => req[r].op # "FAIL" /\ bank[p].decided = "SUCCEEDED"
      /\ req[r].op # "FAIL" => bank[p].result # "NONE"
  BY <1>1 DEF SettlesTheTruth
<1>5. pay'[p] = row => RowIsSound(p)'
  BY <1>1, <1>2, <1>4 DEF RowIsSound, RefundedStatus, InFlight, NoPayment, Captured
<1>6. pay'[p] = row => RowGrows(p)
  BY <1>1, <1>2, <1>3, <1>4 DEF RowGrows, CanTransitionPayment, PAYMENT_TRANSITIONS, InFlight
<1>. QED
  BY <1>2, <1>5, <1>6

(* A payment that is paid back, in part or in full.                        *)
LEMMA RefundedRow ==
  ASSUME IInv, NEW r \in Requests, req[r].pc = "refundOrder", NEW p \in Rows, p = req[r].p,
         UNCHANGED bank, NEW row, row = Written(r, p)
  PROVE  /\ row \in PaymentRow /\ row.method = pay[p].method
         /\ row.status \in Captured /\ row.refunded > 0
         /\ pay'[p] = row => RowGrows(p) /\ RowIsSound(p)'
<1>1. /\ pay[p] \in PaymentRow /\ RowIsSound(p) /\ bank[p] \in BankRow
      /\ RefundsWhatIsLeft(r) /\ pay[p].status \in Captured
      /\ pay[p].status = req[r].seen /\ pay[p].refunded = req[r].old
  BY DEF IInv, Typed, RequestIsSound, RefundsWhatIsLeft, Refunds, OwnsItsLocks
<1>2. /\ row \in PaymentRow
      /\ row.status = PaymentStatusAfterRefund(Total, req[r].old, req[r].amount)
      /\ row.refunded = req[r].old + req[r].amount
      /\ row.method = pay[p].method /\ row.ref = pay[p].ref
      /\ req[r].old \in Nat /\ req[r].amount \in Nat \ {0}
      /\ req[r].old + req[r].amount <= Total
      /\ CanTransitionPayment(pay[p].status, row.status)
  BY <1>1, RefundWrites DEF Refunds
<1>3. row.status \in RefundedStatus /\ (row.status = "REFUNDED" <=> row.refunded = Total)
  BY <1>2, AfterRefund
<1>4. row.refunded > 0 /\ row.refunded >= pay[p].refunded /\ bank[p].refunded \in Int
  BY <1>1, <1>2, Numbers DEF BankRow
<1>5. pay[p].method = "CARD" => row.refunded <= bank[p].refunded
  BY <1>1, <1>2 DEF RefundsWhatIsLeft, Refunds
<1>6. pay'[p] = row => RowIsSound(p)'
  BY <1>1, <1>2, <1>3, <1>4, <1>5 DEF RowIsSound, RefundedStatus, Captured, NoPayment
<1>7. pay'[p] = row => RowGrows(p)
  BY <1>1, <1>2, <1>4 DEF RowGrows
<1>. QED
  BY <1>2, <1>3, <1>4, <1>6, <1>7 DEF RefundedStatus, Captured

(* Nobody else holds a row that is locked by r or by nobody.               *)
LEMMA HeldApart ==
  ASSUME NEW r \in Requests, NEW q \in Requests \ {r}, NEW p \in Held(q)
  PROVE  p \notin Held(r) /\ payLock[p] # NoRequest
  BY RequestAssumption DEF Held

(* What an order may become while payments are settled.                    *)
OrderMoves ==
  \/ order' = order
  \/ /\ order = "CANCELLED" => order' = "REFUNDED"
     /\ order \notin {"COMPLETED", "REFUNDED"}

(* settle writes the order and commits.                                    *)
LEMMA SettleOrderKeeps ==
  ASSUME IInv, NEW r \in Requests, SettleOrder(r)
  PROVE  IInv' /\ RowsGrow /\ OrderMoves
<1>0. PICK p : p = req[r].p
  OBVIOUS
<1>1. req[r].pc = "settleOrder" /\ orderLock = NoRequest
  BY DEF SettleOrder
<1>2. Held(r) = {p} /\ p \in Open /\ p \in Rows /\ SettlesTheTruth(r) /\ DerivedIsReal(r)
      /\ req[r].next \in PaymentStatus
  <2>1. OwnsItsLocks(r) /\ SettlesTheTruth(r) /\ DerivedIsReal(r) /\ DoesItsJob(r)
    BY DEF IInv, RequestIsSound
  <2>. QED
    BY <1>0, <1>1, <2>1 DEF OwnsItsLocks, DoesItsJob, Open
<1>3. CASE Throw(r)
  <2>1. IInv' /\ UNCHANGED <<order, paymentStatus, pay, bank>>
    BY <1>3, RollbackKeeps
  <2>. QED
    BY <2>1, BooksAsTheyWere DEF IInv, OrderMoves
<1>4. ASSUME /\ order' = IF req[r].target = "SUCCEEDED" /\ req[r].seen = "AWAITING_PAYMENT"
                         THEN "CONFIRMED" ELSE order
             /\ req[r].target = "SUCCEEDED" /\ req[r].seen = "AWAITING_PAYMENT" =>
                  order = "AWAITING_PAYMENT"
             /\ paymentStatus' = IF req[r].target = "SUCCEEDED" THEN "PAID" ELSE req[r].next
             /\ pay' = PaySeenBy(r)
             /\ acknowledged' \subseteq Rows
             /\ Finish(r)
             /\ UNCHANGED bank
      PROVE  IInv' /\ RowsGrow /\ OrderMoves
  <2>1. /\ pay' = [q \in Rows |-> IF q = p THEN Written(r, p) ELSE pay[q]]
        /\ Goto(r, Idle)
    BY <1>2, <1>4 DEF PaySeenBy, Finish
  <2>2. pay'[p] = Written(r, p) /\ \A q \in Rows \ {p} : pay'[q] = pay[q]
    BY <1>2, <2>1
  <2>3. /\ Written(r, p) \in PaymentRow /\ Written(r, p).method = pay[p].method
        /\ Written(r, p).status = req[r].target
        /\ RowGrows(p) /\ RowIsSound(p)'
    <3>1. PICK row : row = Written(r, p)
      OBVIOUS
    <3>. QED
      BY <1>0, <1>1, <1>2, <1>4, <2>2, <3>1, SettledRow DEF Settles
  <2>4. pay' \in [Rows -> PaymentRow]
    BY <1>2, <2>1, <2>3 DEF IInv, Typed
  <2>5. order' \in Orders /\ paymentStatus' \in PaymentStatus
    BY <1>2, <1>4 DEF IInv, Typed, Orders, PaymentStatus
  <2>6. Typed'
    BY <1>4, <2>1, <2>4, <2>5, GotoEffect, FreshRequests DEF IInv, Typed
  <2>7. RowsGrow /\ (\A q \in Rows : RowIsSound(q)') /\ Cash' = Cash
    <3>1. \A q \in Rows \cap {p} :
            RowGrows(q) /\ RowIsSound(q)' /\ pay'[q].method = pay[q].method
      BY <2>2, <2>3
    <3>. QED
      BY <1>4, <2>2, <2>6, <3>1, RowsFollow
  <2>8. \A q \in Requests \ {r} : \A o \in Held(q) : pay'[o] = pay[o]
    BY <1>2, <2>2, HeldApart DEF Held
  <2>9. Seats'
    <3>1. pay[p].status # NoPayment
      BY <1>2 DEF Open, InFlight, NoPayment
    <3>. QED
      BY <2>1, <2>2, <2>6, <2>7, <3>1, CommitSeats
  <2>10. OrderIsSound'
    <3>1. req[r].target = "SUCCEEDED" => Money'
      BY <1>2, <2>2, <2>3 DEF Money, Captured
    <3>2. req[r].target # "SUCCEEDED" =>
            /\ paymentStatus' \in {"PAID", "PARTIALLY_REFUNDED", "REFUNDED"} => Money'
            /\ paymentStatus' \in RefundedStatus => PaidBack'
      BY <1>1, <1>2, <1>4, <2>6, <2>7, MoneyStays DEF DerivedIsReal, IInv
    <3>. QED
      BY <1>4, <2>6, <2>7, <3>1, <3>2, OrderFollows DEF RefundedStatus
  <2>11. IInv'
    BY <1>1, <1>4, <2>1, <2>4, <2>5, <2>7, <2>8, <2>9, <2>10, CommitStep
  <2>. QED
    BY <1>4, <2>7, <2>11 DEF OrderMoves
<1>. QED
  <2>1. CASE req[r].target = "SUCCEEDED" /\ req[r].seen = "AWAITING_PAYMENT"
             /\ order # "AWAITING_PAYMENT"
    BY <1>3, <2>1 DEF SettleOrder
  <2>2. CASE ~(req[r].target = "SUCCEEDED" /\ req[r].seen = "AWAITING_PAYMENT"
               /\ order # "AWAITING_PAYMENT")
    <3>1. acknowledged \subseteq Rows
      BY DEF IInv, Typed
    <3>. QED
      BY <1>0, <1>2, <1>4, <2>2, <3>1 DEF SettleOrder
  <2>. QED
    BY <2>1, <2>2

(* refund writes the order and commits.                                    *)
LEMMA RefundOrderKeeps ==
  ASSUME IInv, NEW r \in Requests, RefundOrder(r)
  PROVE  IInv' /\ RowsGrow /\ OrderMoves
<1>0. PICK p : p = req[r].p
  OBVIOUS
<1>1. /\ req[r].pc = "refundOrder" /\ orderLock = NoRequest
      /\ pay' = PaySeenBy(r) /\ paymentStatus' = req[r].next
      /\ order' = IF req[r].next = "REFUNDED" /\ order = "CANCELLED" THEN "REFUNDED" ELSE order
      /\ Goto(r, Idle) /\ UNCHANGED <<bank, acknowledged>>
  BY DEF RefundOrder, Finish
<1>2. Held(r) = {p} /\ p \in Rows /\ req[r].next \in PaymentStatus
      /\ pay[p].status \in Captured
  <2>1. OwnsItsLocks(r) /\ RefundsWhatIsLeft(r) /\ DoesItsJob(r)
    BY DEF IInv, RequestIsSound
  <2>. QED
    BY <1>0, <1>1, <2>1 DEF OwnsItsLocks, DoesItsJob, RefundsWhatIsLeft, Refunds
<1>3. pay' = [q \in Rows |-> IF q = p THEN Written(r, p) ELSE pay[q]]
  BY <1>1, <1>2 DEF PaySeenBy
<1>4. pay'[p] = Written(r, p) /\ \A q \in Rows \ {p} : pay'[q] = pay[q]
  BY <1>2, <1>3
<1>5. /\ Written(r, p) \in PaymentRow /\ Written(r, p).method = pay[p].method
      /\ Written(r, p).status \in Captured /\ Written(r, p).refunded > 0
      /\ RowGrows(p) /\ RowIsSound(p)'
  <2>1. PICK row : row = Written(r, p)
    OBVIOUS
  <2>. QED
    BY <1>0, <1>1, <1>2, <1>4, <2>1, RefundedRow
<1>6. pay' \in [Rows -> PaymentRow]
  BY <1>2, <1>3, <1>5 DEF IInv, Typed
<1>7. order' \in Orders /\ paymentStatus' \in PaymentStatus
  BY <1>1, <1>2 DEF IInv, Typed, Orders
<1>8. Typed'
  BY <1>1, <1>6, <1>7, GotoEffect, FreshRequests DEF IInv, Typed
<1>9. RowsGrow /\ (\A q \in Rows : RowIsSound(q)') /\ Cash' = Cash
  <2>1. \A q \in Rows \cap {p} :
          RowGrows(q) /\ RowIsSound(q)' /\ pay'[q].method = pay[q].method
    BY <1>4, <1>5
  <2>. QED
    BY <1>1, <1>4, <1>8, <2>1, RowsFollow
<1>10. \A q \in Requests \ {r} : \A o \in Held(q) : pay'[o] = pay[o]
  BY <1>2, <1>4, HeldApart DEF Held
<1>11. Seats'
  <2>1. pay[p].status # NoPayment
    BY <1>2 DEF Captured, NoPayment
  <2>. QED
    BY <1>1, <1>4, <1>8, <1>9, <2>1, CommitSeats
<1>12. OrderIsSound'
  <2>1. Money' /\ PaidBack'
    BY <1>2, <1>4, <1>5 DEF Money, PaidBack
  <2>. QED
    BY <1>1, <1>8, <1>9, <2>1, OrderFollows
<1>13. acknowledged' \subseteq Rows
  BY <1>1 DEF IInv, Typed
<1>14. IInv'
  BY <1>1, <1>6, <1>7, <1>9, <1>10, <1>11, <1>12, <1>13, CommitStep
<1>. QED
  BY <1>1, <1>9, <1>14 DEF OrderMoves

(* confirmCash inserts the cash row, writes the order and commits.         *)
LEMMA ConfirmCashKeeps ==
  ASSUME IInv, NEW r \in Requests, ConfirmCash(r)
  PROVE  IInv' /\ RowsGrow /\ OrderMoves
<1>0. PICK n : n = NextRow
  OBVIOUS
<1>. DEFINE row == Row("SUCCEEDED", "CASH")
<1>1. req[r].pc = "cashOrder" /\ orderLock = NoRequest
  BY DEF ConfirmCash
<1>2. CASE order # "AWAITING_PAYMENT"
  <2>1. IInv' /\ UNCHANGED <<order, paymentStatus, pay, bank>>
    BY <1>2, RollbackKeeps DEF ConfirmCash
  <2>. QED
    BY <2>1, BooksAsTheyWere DEF IInv, OrderMoves
<1>3. CASE order = "AWAITING_PAYMENT"
  <2>1. /\ pay' = [PaySeenBy(r) EXCEPT ![n] = row]
        /\ order' = "CONFIRMED" /\ paymentStatus' = "PAID"
        /\ Goto(r, Idle) /\ UNCHANGED <<bank, acknowledged>>
    BY <1>0, <1>3 DEF ConfirmCash, Finish
  <2>2. /\ n \in Rows /\ n \notin Created /\ n \notin Open
        /\ pay[n].status = NoPayment /\ pay[n].refunded = 0
        /\ pay[n].method = "CARD" /\ bank[n].refunded \in Nat /\ r \in Inserters
    BY <1>0, <1>1, NewRow
  <2>3. Held(r) \subseteq Open /\ req[r].op = "CASH" /\ RowIsSound(n)
    BY <1>1, <2>2 DEF IInv, RequestIsSound, OwnsItsLocks, DoesItsJob
  <2>4. /\ row \in PaymentRow /\ row.status = "SUCCEEDED" /\ row.method = "CASH"
        /\ row.ref = FALSE /\ row.refunded = 0
    BY FreshRow DEF PaymentRecordStatus
  <2>. HIDE DEF row
  <2>5. \A p \in Rows : PaySeenBy(r)[p] = IF p \in Held(r)
                                         THEN [pay[p] EXCEPT !.status = "CANCELLED"] ELSE pay[p]
    BY <2>3 DEF PaySeenBy, Written
  <2>6. /\ pay'[n] = row
        /\ \A p \in Held(r) : pay'[p] = [pay[p] EXCEPT !.status = "CANCELLED"]
        /\ \A p \in Rows \ (Held(r) \cup {n}) : pay'[p] = pay[p]
        /\ DOMAIN pay' = Rows
    BY <2>1, <2>2, <2>3, <2>5 DEF PaySeenBy, Open
  <2>7. \A p \in Held(r) : /\ pay'[p] \in PaymentRow /\ pay'[p].method = pay[p].method
                           /\ RowGrows(p) /\ RowIsSound(p)'
    <3>. SUFFICES ASSUME NEW p \in Held(r)
         PROVE  /\ pay'[p] \in PaymentRow /\ pay'[p].method = pay[p].method
                /\ RowGrows(p) /\ RowIsSound(p)'
      OBVIOUS
    <3>1. PICK closed : closed = [pay[p] EXCEPT !.status = "CANCELLED"]
      OBVIOUS
    <3>. QED
      BY <2>1, <2>3, <2>6, <3>1, ClosedRow
  <2>8. RowGrows(n) /\ RowIsSound(n)'
    <3>1. RowIsSound(n)'
      BY <2>1, <2>2, <2>3, <2>4, <2>6, Numbers
         DEF RowIsSound, RefundedStatus, NoPayment, Captured
    <3>2. RowGrows(n)
      BY <2>1, <2>2, <2>4, <2>6 DEF RowGrows
    <3>. QED
      BY <3>1, <3>2
  <2>9. RowsGrow /\ (\A p \in Rows : RowIsSound(p)')
    <3>1. \A p \in Rows \ (Held(r) \cup {n}) : RowGrows(p) /\ RowIsSound(p)'
      <4>1. \A p \in Rows : pay[p] \in PaymentRow /\ bank[p].refunded \in Int
        BY Numbers DEF IInv, Typed, BankRow
      <4>. QED
        BY <2>1, <2>6, <4>1, RowNumbers DEF IInv, RowGrows, RowIsSound
    <3>. QED
      BY <2>7, <2>8, <3>1 DEF RowsGrow
  <2>10. pay' \in [Rows -> PaymentRow]
    <3>1. pay' = [p \in Rows |-> pay'[p]]
      BY <2>1, <2>6 DEF PaySeenBy
    <3>2. \A p \in Rows : pay'[p] \in PaymentRow
      BY <2>4, <2>6, <2>7 DEF IInv, Typed
    <3>. QED
      BY <3>1, <3>2
  <2>11. \A q \in Requests \ {r} : \A p \in Held(q) : pay'[p] = pay[p]
    <3>. SUFFICES ASSUME NEW q \in Requests \ {r}, NEW p \in Held(q)
         PROVE  pay'[p] = pay[p]
      OBVIOUS
    <3>1. p \in Rows /\ p \notin Held(r)
      BY HeldApart DEF Held
    <3>2. p # n
      <4>1. OwnsItsLocks(q) /\ RefundsWhatIsLeft(q)
        BY DEF IInv, RequestIsSound
      <4>. QED
        BY <2>2, <4>1 DEF OwnsItsLocks, RefundsWhatIsLeft, Refunds, NoPayment, Captured
    <3>. QED
      BY <2>6, <3>1, <3>2
  <2>12. Seats'
    <3>1. Inserters' = Inserters \ {r}
      <4>1. /\ req'[r] = Idle /\ \A q \in Requests \ {r} : req'[q] = req[q]
        BY <2>1, GotoEffect, FreshRequests
      <4>. QED
        BY <4>1, RequestFields DEF Inserters, Inserting
    <3>2. Created' = Created \cup {NextRow}
      <4>1. \A p \in Held(r) : p \in Created /\ p \in Created'
        <5>0. \A p \in Held(r) : p \in Rows /\ pay[p] \in PaymentRow
          BY DEF Held, IInv, Typed
        <5>1. \A p \in Held(r) : pay'[p].status = "CANCELLED" /\ p \in Rows
          BY <2>6, <5>0 DEF PaymentRow
        <5>. QED
          BY <2>3, <5>1 DEF Created, Open, InFlight, NoPayment
      <4>2. \A p \in Rows \ (Held(r) \cup {n}) : p \in Created' <=> p \in Created
        BY <2>6 DEF Created
      <4>3. n \in Created'
        BY <2>2, <2>4, <2>6 DEF Created, NoPayment
      <4>. QED
        BY <1>0, <2>2, <4>1, <4>2, <4>3 DEF Created
    <3>. QED
      BY <2>2, <3>1, <3>2, SeatUsed DEF IInv
  <2>13. OrderIsSound'
    <3>1. Money'
      BY <2>2, <2>4, <2>6 DEF Money, Captured
    <3>2. Cash' = {n}
      <4>1. Cash = {}
        BY <1>3 DEF IInv, OrderIsSound
      <4>. QED
        BY <2>2, <2>4, <2>6, <2>7, <4>1 DEF Cash
    <3>3. CashTakenOnce'
      <4>1. Cardinality(Cash') = 1
        BY <3>2, FS_Singleton
      <4>2. CashTakenOnce' <=> Cardinality(Cash') <= 1
        BY DEF CashTakenOnce, Cash
      <4>. QED
        BY <4>1, <4>2
    <3>4. PaidStatusIsReal'
      BY <2>1, <3>1 DEF PaidStatusIsReal, Money
    <3>. QED
      BY <2>1, <3>1, <3>3, <3>4 DEF OrderIsSound
  <2>14. acknowledged' \subseteq Rows /\ order' \in Orders /\ paymentStatus' \in PaymentStatus
    BY <2>1 DEF IInv, Typed, Orders, PaymentStatus
  <2>15. IInv'
    BY <1>1, <2>1, <2>9, <2>10, <2>11, <2>12, <2>13, <2>14, CommitStep
  <2>. QED
    BY <1>3, <2>1, <2>9, <2>15 DEF OrderMoves
<1>. QED
  BY <1>2, <1>3

(* cancel gives the open attempts up and commits.                          *)
LEMMA CancelPaymentsKeeps ==
  ASSUME IInv, NEW r \in Requests, CancelPayments(r)
  PROVE  IInv' /\ RowsGrow /\ OrderMoves
<1>1. /\ req[r].pc = "cancelPayments" /\ \A p \in Open : payLock[p] = NoRequest
      /\ pay' = [p \in Rows |-> IF p \in Open THEN Written(r, p) ELSE pay[p]]
      /\ order' = "CANCELLED" /\ Goto(r, Idle)
      /\ UNCHANGED <<paymentStatus, bank, acknowledged>>
  BY DEF CancelPayments, Finish
<1>2. /\ req[r].op \in {"CANCEL", "CANCEL_UNPAID"} /\ orderLock = r
      /\ order \in {"AWAITING_PAYMENT", "CONFIRMED"}
  BY <1>1 DEF IInv, RequestIsSound, OwnsItsLocks, DoesItsJob
<1>3. /\ \A p \in Open : pay'[p] = [pay[p] EXCEPT !.status = "CANCELLED"]
      /\ \A p \in Rows \ Open : pay'[p] = pay[p]
  BY <1>1, <1>2 DEF Written, Open
<1>4. \A p \in Open : /\ pay'[p] \in PaymentRow /\ pay'[p].method = pay[p].method
                      /\ RowGrows(p) /\ RowIsSound(p)'
  <2>. SUFFICES ASSUME NEW p \in Open
       PROVE  /\ pay'[p] \in PaymentRow /\ pay'[p].method = pay[p].method
              /\ RowGrows(p) /\ RowIsSound(p)'
    OBVIOUS
  <2>1. PICK row : row = [pay[p] EXCEPT !.status = "CANCELLED"]
    OBVIOUS
  <2>. QED
    BY <1>1, <1>3, <2>1, ClosedRow
<1>5. pay' \in [Rows -> PaymentRow]
  <2>1. \A p \in Rows : pay'[p] \in PaymentRow
    BY <1>3, <1>4 DEF IInv, Typed
  <2>2. pay' = [p \in Rows |-> pay'[p]]
    BY <1>1
  <2>. QED
    BY <2>1, <2>2
<1>6. acknowledged' \subseteq Rows /\ order' \in Orders /\ paymentStatus' \in PaymentStatus
  BY <1>1 DEF IInv, Typed, Orders
<1>7. Typed'
  BY <1>1, <1>5, <1>6, GotoEffect, FreshRequests DEF IInv, Typed
<1>8. RowsGrow /\ (\A p \in Rows : RowIsSound(p)') /\ Cash' = Cash
  <2>. DEFINE S == {p \in Rows : p \in Open}
  <2>1. PICK T : T = S
    OBVIOUS
  <2>2. /\ \A p \in Rows \ T : pay'[p] = pay[p]
        /\ \A p \in Rows \cap T : RowGrows(p) /\ RowIsSound(p)' /\ pay'[p].method = pay[p].method
    BY <1>3, <1>4, <2>1
  <2>. QED
    BY <1>1, <1>7, <2>2, RowsFollow
<1>9. \A q \in Requests \ {r} : \A p \in Held(q) : pay'[p] = pay[p]
  BY <1>1, <1>3, HeldApart DEF Held
<1>10. Seats'
  <2>1. \A p \in Rows : pay[p].status = NoPayment => pay'[p] = pay[p]
    BY <1>3 DEF Open, InFlight, NoPayment
  <2>. QED
    BY <1>1, <1>7, <1>8, <2>1, CommitSeats
<1>11. OrderIsSound'
  BY <1>1, <1>7, <1>8, OrderFollows
<1>12. IInv'
  BY <1>1, <1>2, <1>5, <1>6, <1>8, <1>9, <1>10, <1>11, CommitStep
<1>. QED
  BY <1>2, <1>8, <1>12 DEF OrderMoves

(* The kitchen is done with a confirmed order.                             *)
LEMMA CompleteKeeps ==
  ASSUME IInv, Complete
  PROVE  IInv' /\ RowsGrow /\ OrderMoves
<1>1. /\ order = "CONFIRMED" /\ orderLock = NoRequest /\ order' = "COMPLETED"
      /\ UNCHANGED <<paymentStatus, pay, bank, acknowledged, orderLock, payLock, req>>
  BY DEF Complete
<1>2. Typed'
  BY <1>1 DEF IInv, Typed, Orders
<1>3. RowsGrow /\ (\A p \in Rows : RowIsSound(p)') /\ Cash' = Cash
  <2>1. /\ \A p \in Rows \ {} : pay'[p] = pay[p]
        /\ \A p \in Rows \cap {} :
             RowGrows(p) /\ RowIsSound(p)' /\ pay'[p].method = pay[p].method
    BY <1>1
  <2>. QED
    BY <1>1, <1>2, <2>1, RowsFollow
<1>4. \A q \in Requests : Untouched(q)
  BY <1>1, RequestAssumption DEF Untouched, Held
<1>5. Seats'
  <2>1. Created' = Created /\ Inserters' = Inserters
    BY <1>1 DEF Created, Inserters
  <2>. QED
    BY <2>1, SeatKept DEF IInv
<1>6. OrderIsSound'
  BY <1>1, <1>2, <1>3, OrderFollows
<1>. QED
  BY <1>1, <1>2, <1>3, <1>4, <1>5, <1>6, UntouchedKeeps DEF IInv, OrderMoves

-----------------------------------------------------------------------------
(* An order that has just been created.                                    *)
LEMMA InitIInv == Init => IInv
<1>. SUFFICES ASSUME Init
     PROVE  IInv
  OBVIOUS
<1>. USE Numbers DEF Init
<1>1. Typed
  <2>1. Row(NoPayment, "CARD") \in PaymentRow /\ NotSent \in BankRow /\ Idle \in Request
    BY FreshRequests DEF Row, PaymentRow, NotSent, BankRow
  <2>. QED
    BY <2>1 DEF Typed, Orders, PaymentStatus
<1>2. \A p \in Rows : /\ pay[p].status = NoPayment /\ pay[p].method = "CARD"
                      /\ pay[p].ref = FALSE /\ pay[p].refunded = 0
                      /\ bank[p].result = "NONE" /\ bank[p].decided = "NONE"
                      /\ bank[p].refunded = 0
  BY DEF Row, NotSent
<1>3. Seats
  <2>0. 1..0 = {}
    OBVIOUS
  <2>1. Created = {}
    <3>. HIDE DEF Init
    <3>. QED
      BY <1>2, Zenon DEF Created
  <2>2. Inserters = {}
    BY RequestFields DEF Inserters, Inserting
  <2>3. IsFiniteSet(Inserters) /\ Cardinality(Inserters) = 0
    BY <2>2, FS_EmptySet
  <2>. QED
    BY <2>0, <2>1, <2>3 DEF Seats
<1>4. \A p \in Rows : RowIsSound(p)
  BY <1>2 DEF RowIsSound, NoPayment, RefundedStatus, Captured
<1>5. ASSUME NEW r \in Requests
      PROVE  RequestIsSound(r)
  <2>1. req[r].pc = "idle" /\ Held(r) = {} /\ orderLock # r
    BY RequestFields, RequestAssumption DEF Held
  <2>. QED
    BY <2>1 DEF RequestIsSound, OwnsItsLocks, DoesItsJob, SettlesTheTruth, Settles,
                RefundsWhatIsLeft, Refunds, DerivedIsReal
<1>6. OrderIsSound
  <2>1. Cash = {}
    BY <1>2 DEF Cash
  <2>2. CashTakenOnce
    BY <2>1, FS_EmptySet DEF Cash, CashTakenOnce
  <2>. QED
    BY <2>1, <2>2 DEF OrderIsSound, PaidStatusIsReal
<1>. QED
  BY <1>1, <1>3, <1>4, <1>5, <1>6 DEF IInv

(* Every step keeps the invariant, and moves payments and order forward.   *)
LEMMA NextKeeps ==
  ASSUME IInv, [Next]_vars
  PROVE  IInv' /\ RowsGrow /\ OrderMoves
<1>1. ASSUME IInv', UNCHANGED <<order, paymentStatus, pay, bank>>
      PROVE  RowsGrow /\ OrderMoves
  BY <1>1, BooksAsTheyWere DEF IInv, OrderMoves
<1>2. CASE UNCHANGED vars
  <2>1. Typed' /\ UNCHANGED <<order, paymentStatus, pay, bank>>
    BY <1>2 DEF vars, IInv, Typed
  <2>2. Inserters' = Inserters /\ \A r \in Requests : Untouched(r)
    BY <1>2 DEF vars, Inserters, Untouched, Held
  <2>3. Seats'
    BY <2>1, <2>2, SeatKept, BooksAsTheyWere DEF IInv
  <2>4. IInv'
    BY <2>1, <2>2, <2>3, BooksAsTheyWere, UntouchedKeeps DEF IInv
  <2>. QED
    BY <1>1, <2>1, <2>4
<1>3. CASE Complete
  BY <1>3, CompleteKeeps
<1>4. ASSUME NEW p \in Rows, BankDecides(p)
      PROVE  IInv' /\ RowsGrow /\ OrderMoves
  BY <1>4, BankDecidesKeeps DEF BankDecides, OrderMoves
<1>5. ASSUME NEW r \in Requests,
             \/ OpenInitiate(r) \/ OpenCash(r) \/ CheckInFlight(r)
             \/ \E op \in {"CANCEL", "CANCEL_UNPAID"} : OpenCancel(r, op)
      PROVE  IInv' /\ RowsGrow /\ OrderMoves
  <2>1. UNCHANGED <<order, paymentStatus, pay, bank>>
    BY <1>5 DEF OpenInitiate, OpenCash, CheckInFlight, OpenCancel, Proceed
  <2>. QED
    BY <1>1, <1>5, <2>1, OpenKeeps
<1>6. ASSUME NEW r \in Requests,
             \/ ReadForSettlement(r) \/ QueryStatus(r)
             \/ \E p \in Rows : OpenCallback(r, p) \/ OpenReconcile(r, p)
      PROVE  IInv' /\ RowsGrow /\ OrderMoves
  <2>1. UNCHANGED <<order, paymentStatus, pay, bank>>
    BY <1>6 DEF ReadForSettlement, QueryStatus, OpenCallback, OpenReconcile, Proceed
  <2>. QED
    BY <1>1, <1>6, <2>1, SettlementOpens
<1>7. ASSUME NEW r \in Requests, NEW p \in Rows, NEW amount \in 1..Total,
             OpenRefund(r, p, amount)
      PROVE  IInv' /\ RowsGrow /\ OrderMoves
  <2>1. UNCHANGED <<order, paymentStatus, pay, bank>>
    BY <1>7 DEF OpenRefund, Proceed
  <2>. QED
    BY <1>1, <1>7, <2>1, OpenRefundKeeps
<1>8. ASSUME NEW r \in Requests,
             \/ SettlePayment(r) \/ SupersedeCard(r) \/ CancelOrderRow(r) \/ RefundPayment(r)
      PROVE  IInv' /\ RowsGrow /\ OrderMoves
  <2>1. UNCHANGED <<order, paymentStatus, pay, bank>>
    BY <1>8 DEF SettlePayment, SupersedeCard, CancelOrderRow, Rollback, RefundPayment
  <2>2. IInv'
    BY <1>8, SettlePaymentKeeps, SupersedeCardKeeps, CancelOrderRowKeeps, RefundPaymentKeeps
  <2>. QED
    BY <1>1, <2>1, <2>2
<1>9. ASSUME NEW r \in Requests,
             \/ SendToTerminal(r) \/ CancelAtTerminal(r) \/ RefundAtProvider(r)
      PROVE  IInv' /\ RowsGrow /\ OrderMoves
  <2>1. order' = order
    BY <1>9 DEF SendToTerminal, CancelAtTerminal, RefundAtProvider, Proceed
  <2>. QED
    BY <1>9, <2>1, SendKeeps, CancelAtTerminalKeeps, RefundAtProviderKeeps DEF OrderMoves
<1>10. ASSUME NEW r \in Requests, CreatePayment(r) \/ MarkPending(r)
      PROVE  IInv' /\ RowsGrow /\ OrderMoves
  BY <1>10, CreatePaymentKeeps, MarkPendingKeeps DEF CreatePayment, MarkPending, OrderMoves
<1>11. ASSUME NEW r \in Requests,
              \/ SettleOrder(r) \/ ConfirmCash(r) \/ CancelPayments(r) \/ RefundOrder(r)
      PROVE  IInv' /\ RowsGrow /\ OrderMoves
  BY <1>11, SettleOrderKeeps, ConfirmCashKeeps, CancelPaymentsKeeps, RefundOrderKeeps
<1>12. ASSUME NEW r \in Requests, LockWaitAborted(r) \/ Crash(r)
      PROVE  IInv' /\ RowsGrow /\ OrderMoves
  BY <1>1, <1>12, RollbackKeeps DEF LockWaitAborted, Crash
<1>13. ASSUME NEW r \in Requests, Step(r)
      PROVE  IInv' /\ RowsGrow /\ OrderMoves
  BY <1>5, <1>6, <1>8, <1>9, <1>10, <1>11, <1>13 DEF Step
<1>. QED
  BY <1>2, <1>3, <1>4, <1>5, <1>6, <1>7, <1>12, <1>13 DEF Next

(***************************************************************************)
(* The inductive invariant holds in every reachable state.                 *)
(***************************************************************************)
THEOREM Invariance == Spec => []IInv
<1>1. Init => IInv
  BY InitIInv
<1>2. IInv /\ [Next]_vars => IInv'
  BY NextKeeps
<1>. QED
  BY <1>1, <1>2, PTL DEF Spec

(* Every variable keeps its type.                                          *)
THEOREM TypeCorrect == Spec => []TypeOK
<1>1. IInv => TypeOK
  BY DEF IInv, Typed, TypeOK, PaymentRow, BankRow, Request
<1>. QED
  BY <1>1, Invariance, PTL

(***************************************************************************)
(* A confirmed order has a captured payment behind it, and a captured card *)
(* payment the provider's decision (docs/PAYMENTS.md, principle 1), for    *)
(* any number of concurrent requests.                                      *)
(***************************************************************************)
THEOREM MoneyIsThere == Spec => []MoneyBehindOrder
<1>1. IInv => MoneyBehindOrder
  BY DEF IInv, OrderIsSound, Money, RowIsSound, MoneyBehindOrder
<1>. QED
  BY <1>1, Invariance, PTL

(***************************************************************************)
(* The order is called paid or refunded only when payments say so, however *)
(* old the rows are that derivePaymentStatus was computed from.            *)
(***************************************************************************)
THEOREM PaidIsReal == Spec => []PaidStatusIsReal
<1>1. IInv => PaidStatusIsReal
  BY DEF IInv, OrderIsSound
<1>. QED
  BY <1>1, Invariance, PTL

(***************************************************************************)
(* Refunds never exceed the payment or what the provider paid back, and a  *)
(* payment is called refunded exactly when all of it was paid back.        *)
(***************************************************************************)
THEOREM RefundsAdd == Spec => []RefundsBalanced
<1>1. IInv => RefundsBalanced
  BY RowNumbers DEF IInv, Typed, RowIsSound, RefundsBalanced
<1>. QED
  BY <1>1, Invariance, PTL

(* Two cashiers never both take the cash of an order (confirmCash).        *)
THEOREM OneCash == Spec => []CashTakenOnce
<1>1. IInv => CashTakenOnce
  BY DEF IInv, OrderIsSound
<1>. QED
  BY <1>1, Invariance, PTL

(***************************************************************************)
(* Payments move along PAYMENT_TRANSITIONS only, and an order that was     *)
(* cancelled or handed over is not revived by a late payment.              *)
(***************************************************************************)
THEOREM Forward == Spec => NeverBack
<1>1. IInv /\ [Next]_vars =>
        [\A p \in Rows :
           \/ pay'[p] = pay[p]
           \/ pay[p].status = NoPayment
           \/ CanTransitionPayment(pay[p].status, pay'[p].status)]_pay
  BY NextKeeps DEF RowsGrow, RowGrows
<1>2. IInv /\ [Next]_vars =>
        [/\ order = "CANCELLED" => order' = "REFUNDED"
         /\ order \notin {"COMPLETED", "REFUNDED"}]_order
  BY NextKeeps DEF OrderMoves
<1>. QED
  BY <1>1, <1>2, Invariance, PTL DEF Spec, NeverBack, PaymentOnlyForward, NoRevival

==============================================================================
