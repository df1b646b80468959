------------------------------ MODULE Payments ------------------------------
(***************************************************************************)
(* The payments of one order: card payments through a terminal, cash at    *)
(* the cashier, reconciliation, cancellation of the order and refunds, as  *)
(* concurrent HTTP requests against the database and the provider          *)
(* (apps/api/src/payments/payments.service.ts, and `cancel`,               *)
(* `onPaymentSucceeded`, `markRefundedIfSettled` of                        *)
(* apps/api/src/orders/order-engine.service.ts).                           *)
(*                                                                         *)
(* Transactions are broken up as in module OrderEngine: at READ COMMITTED, *)
(* one step for each statement that waits for a locked row or reads, and   *)
(* the writes of an open transaction (Written) show when it commits.  Of   *)
(* the order only what payments see is kept: CONFIRMED stands for every    *)
(* status from CONFIRMED to READY_FOR_PICKUP.                              *)
(***************************************************************************)
EXTENDS PaymentDomain

CONSTANTS
  MaxPayments,  \* bound on the payment rows of the order
  Total,        \* the order's total, in the smallest unit that can be refunded
  Requests,     \* concurrent request handlers
  NoRequest     \* the holder of a row that nobody has locked

ASSUME PositiveAssumption == MaxPayments \in Nat \ {0} /\ Total \in Nat \ {0}
ASSUME RequestAssumption == NoRequest \notin Requests

Rows == 1..MaxPayments        \* payment rows in the order of their creation

VARIABLES
  order,          \* Order.status, as far as payments see it
  paymentStatus,  \* Order.paymentStatus
  pay,            \* Payment rows: status, method, whether providerReference is set, refundedAmount
  bank,           \* what the provider knows of each card payment (survives the API)
  acknowledged,   \* payments whose SUCCEEDED result the API has answered with success
  orderLock,      \* the request whose transaction has written the order row
  payLock,        \* the same for each payment row
  req             \* per request: what it is doing and what it has read

vars == <<order, paymentStatus, pay, bank, acknowledged, orderLock, payLock, req>>

-----------------------------------------------------------------------------
Orders == {"AWAITING_PAYMENT", "CONFIRMED", "COMPLETED", "CANCELLED", "REFUNDED"}

Row(status, method) == [status |-> status, method |-> method, ref |-> FALSE, refunded |-> 0]

(***************************************************************************)
(* The provider's view: `result` is what queryStatus answers, `decided`    *)
(* the outcome at the terminal (SUCCEEDED: money was taken), `refunded`    *)
(* what it has paid back.                                                  *)
(***************************************************************************)
NotSent == [result |-> "NONE", decided |-> "NONE", refunded |-> 0]

(***************************************************************************)
(* A request: `p` the payment it works on, `seen` a status and `old` a     *)
(* refunded amount it read earlier, `target` the status it will give to p, *)
(* `next` the derived paymentStatus it will write.  FAIL is failPayment;   *)
(* CANCEL_UNPAID is cancel by staff without the right orders.refund.       *)
(***************************************************************************)
Op == {"INITIATE", "CALLBACK", "RECONCILE", "FAIL", "CASH", "CANCEL", "CANCEL_UNPAID", "REFUND"}

Idle ==
  [pc |-> "idle", op |-> "none", p |-> 0, seen |-> "none", old |-> 0, amount |-> 0,
   target |-> "none", next |-> "none"]

At(pc, op, p) == [Idle EXCEPT !.pc = pc, !.op = op, !.p = p]

Settling(op, p, target) == [At("settle", op, p) EXCEPT !.target = target]

(* failPayment starts at its conditional UPDATE.                           *)
Failing(p) == [At("settlePayment", "FAIL", p) EXCEPT !.target = "FAILED"]

Created  == {p \in Rows : pay[p].status # NoPayment}
Open     == {p \in Rows : pay[p].status \in InFlight}
Held(r)  == {p \in Rows : payLock[p] = r}
NextRow  == Cardinality(Created) + 1

(* Bounds: a request that will insert a row finds room for it, and the     *)
(* provider is asked to pay back at most twice what a payment is for.      *)
Inserting == {"check", "create", "cash", "cashOrder"}
MaxPaidBack == 2 * Total
Room == Cardinality(Created) + Cardinality({r \in Requests : req[r].pc \in Inserting})
          < MaxPayments

(* What the transaction of r has written, or is about to, to row p.        *)
Written(r, p) ==
  CASE req[r].op \in {"CASH", "CANCEL", "CANCEL_UNPAID"} -> [pay[p] EXCEPT !.status = "CANCELLED"]
    [] req[r].op = "REFUND" -> [pay[p] EXCEPT !.status = req[r].target,
                                              !.refunded = @ + req[r].amount]
    [] OTHER -> [pay[p] EXCEPT !.status = req[r].target, !.ref = @ \/ req[r].op # "FAIL"]

PaySeenBy(r) == [p \in Rows |-> IF p \in Held(r) THEN Written(r, p) ELSE pay[p]]

(* derivePaymentStatus of what r sees right after writing row p.           *)
DerivedAfter(r, p) ==
  DerivePaymentStatus([q \in Rows |-> IF q = p THEN Written(r, p) ELSE pay[q]], Total)

Goto(r, next) ==
  /\ req' = [req EXCEPT ![r] = next]
  /\ payLock' = [p \in Rows |-> IF payLock[p] = r THEN NoRequest ELSE payLock[p]]
  /\ orderLock' = IF orderLock = r THEN NoRequest ELSE orderLock

Finish(r) == Goto(r, Idle)

Rollback(r) == Finish(r) /\ UNCHANGED <<order, paymentStatus, pay, bank, acknowledged>>

(* A settlement that throws inside `initiate` is turned into failPayment.  *)
Throw(r) ==
  /\ Goto(r, IF req[r].op = "INITIATE" /\ req[r].p # 0 THEN Failing(req[r].p) ELSE Idle)
  /\ UNCHANGED <<order, paymentStatus, pay, bank, acknowledged>>

(* A request goes on, outside a transaction or within its locks.           *)
Proceed(r, next) ==
  /\ req' = [req EXCEPT ![r] = next]
  /\ UNCHANGED <<order, paymentStatus, pay, acknowledged, orderLock, payLock>>

Init ==
  /\ order = "AWAITING_PAYMENT"
  /\ paymentStatus = "UNPAID"
  /\ pay = [p \in Rows |-> Row(NoPayment, "CARD")]
  /\ bank = [p \in Rows |-> NotSent]
  /\ acknowledged = {}
  /\ orderLock = NoRequest
  /\ payLock = [p \in Rows |-> NoRequest]
  /\ req = [r \in Requests |-> Idle]

-----------------------------------------------------------------------------
(***************************************************************************)
(* initiate.  The order and then its payments are read outside the         *)
(* transaction; the transaction inserts the row and overwrites the order's *)
(* paymentStatus, whatever it has become.                                  *)
(***************************************************************************)
OpenInitiate(r) ==
  /\ req[r].pc = "idle"
  /\ order = "AWAITING_PAYMENT"
  /\ Room
  /\ Proceed(r, At("check", "INITIATE", 0))
  /\ UNCHANGED bank

CheckInFlight(r) ==
  /\ req[r].pc = "check"
  /\ Proceed(r, IF Open = {} THEN At("create", "INITIATE", 0) ELSE Idle)
  /\ UNCHANGED bank

CreatePayment(r) ==
  /\ req[r].pc = "create"
  /\ orderLock = NoRequest
  /\ pay' = [pay EXCEPT ![NextRow] = Row("INITIATED", "CARD")]
  /\ paymentStatus' = "PENDING"
  /\ req' = [req EXCEPT ![r] = At("send", "INITIATE", NextRow)]
  /\ UNCHANGED <<order, bank, acknowledged, orderLock, payLock>>

(* terminal.initiate: the terminal takes the payment, or is offline.       *)
SendToTerminal(r) ==
  /\ req[r].pc = "send"
  /\ LET p == req[r].p
     IN  \/ /\ bank' = [bank EXCEPT ![p].result = "PENDING"]
            /\ Proceed(r, At("sent", "INITIATE", p))
         \/ UNCHANGED bank /\ Proceed(r, Failing(p))

(***************************************************************************)
(* The rest of initiate: INITIATED -> PENDING with the provider's          *)
(* reference unless a result came first, and the settlement of a result    *)
(* that the terminal returned at once.                                     *)
(***************************************************************************)
MarkPending(r) ==
  /\ req[r].pc = "sent"
  /\ payLock[req[r].p] = NoRequest
  /\ LET p == req[r].p
     IN  /\ pay' = IF pay[p].status = "INITIATED"
                   THEN [pay EXCEPT ![p].status = "PENDING", ![p].ref = TRUE] ELSE pay
         /\ \/ req' = [req EXCEPT ![r] = Idle]
            \/ /\ bank[p].decided # "NONE"
               /\ req' = [req EXCEPT ![r] = Settling("INITIATE", p, bank[p].decided)]
  /\ UNCHANGED <<order, paymentStatus, bank, acknowledged, orderLock, payLock>>

-----------------------------------------------------------------------------
(* The customer's card is charged or declined at the terminal.             *)
BankDecides(p) ==
  /\ bank[p].result # "NONE" /\ bank[p].decided = "NONE"
  /\ \E outcome \in {"SUCCEEDED", "FAILED"} :
        bank' = [bank EXCEPT ![p].result = outcome, ![p].decided = outcome]
  /\ UNCHANGED <<order, paymentStatus, pay, acknowledged, orderLock, payLock, req>>

(* callback: delivered never, once or several times.                       *)
OpenCallback(r, p) ==
  /\ req[r].pc = "idle"
  /\ bank[p].decided # "NONE"
  /\ Proceed(r, Settling("CALLBACK", p, bank[p].decided))
  /\ UNCHANGED bank

(***************************************************************************)
(* handleProviderResult: the order is read, the payment row is written     *)
(* where it is still in flight (a duplicate is answered and ignored), and  *)
(* then the order row: confirmed when it was awaiting payment at the read, *)
(* else only its paymentStatus.  failPayment is the same from the write on *)
(* (settlePayment).                                                        *)
(***************************************************************************)
ReadForSettlement(r) ==
  /\ req[r].pc = "settle"
  /\ Proceed(r, [req[r] EXCEPT !.pc = "settlePayment", !.seen = order])
  /\ UNCHANGED bank

SettlePayment(r) ==
  /\ req[r].pc = "settlePayment"
  /\ LET p == req[r].p
     IN  /\ payLock[p] = NoRequest
         /\ IF p \in Open
            THEN /\ payLock' = [payLock EXCEPT ![p] = r]
                 /\ req' = [req EXCEPT ![r].pc = "settleOrder", ![r].next = DerivedAfter(r, p)]
                 /\ UNCHANGED <<acknowledged, orderLock>>
            ELSE /\ Finish(r)
                 /\ acknowledged' = acknowledged \cup (IF req[r].target = "SUCCEEDED" THEN {p} ELSE {})
  /\ UNCHANGED <<order, paymentStatus, pay, bank>>

SettleOrder_MarksOrderOnly(r) ==        \* faulty: a late result does not record the payment
  /\ req[r].pc = "settleOrder"
  /\ orderLock = NoRequest
  /\ order' = IF req[r].target = "SUCCEEDED" /\ req[r].seen = "AWAITING_PAYMENT"
              THEN "CONFIRMED" ELSE order
  /\ paymentStatus' = IF req[r].target = "SUCCEEDED" THEN "PAID" ELSE req[r].next
  /\ Finish(r)
  /\ UNCHANGED <<pay, bank, acknowledged>>

SettleOrder_TrustsRead(r) ==            \* faulty: confirms on the status read before
  /\ req[r].pc = "settleOrder"
  /\ orderLock = NoRequest
  /\ LET paid == req[r].target = "SUCCEEDED"
     IN  /\ order' = IF paid /\ req[r].seen = "AWAITING_PAYMENT" THEN "CONFIRMED" ELSE order
         /\ paymentStatus' = IF paid THEN "PAID" ELSE req[r].next
         /\ pay' = PaySeenBy(r)
         /\ Finish(r)
  /\ UNCHANGED <<bank, acknowledged>>

SettleOrder(r) ==
  /\ req[r].pc = "settleOrder"
  /\ orderLock = NoRequest
  /\ LET paid    == req[r].target = "SUCCEEDED"
         confirm == paid /\ req[r].seen = "AWAITING_PAYMENT"
     IN  IF confirm /\ order # "AWAITING_PAYMENT"
         THEN Throw(r)
         ELSE /\ order' = IF confirm THEN "CONFIRMED" ELSE order
              /\ paymentStatus' = IF paid THEN "PAID" ELSE req[r].next
              /\ pay' = PaySeenBy(r)
              /\ acknowledged' = acknowledged \cup (IF paid THEN {req[r].p} ELSE {})
              /\ Finish(r)
              /\ UNCHANGED bank

-----------------------------------------------------------------------------
(***************************************************************************)
(* reconcile: asks the provider about a payment in flight; gives up on it  *)
(* when the provider has no answer after the timeout, or when the API      *)
(* never learned the provider's reference.                                 *)
(***************************************************************************)
OpenReconcile(r, p) ==
  /\ req[r].pc = "idle"
  /\ p \in Open
  /\ Proceed(r, IF pay[p].ref THEN At("query", "RECONCILE", p) ELSE Failing(p))
  /\ UNCHANGED bank

QueryStatus(r) ==
  /\ req[r].pc = "query"
  /\ LET p == req[r].p
     IN  IF bank[p].result = "PENDING"
         THEN Proceed(r, Idle) \/ Proceed(r, At("timeout", "RECONCILE", p))
         ELSE Proceed(r, Settling("RECONCILE", p, bank[p].result))
  /\ UNCHANGED bank

CancelAtTerminal(r) ==
  /\ req[r].pc = "timeout"
  /\ bank' = [bank EXCEPT ![req[r].p].result = "CANCELLED"]
  /\ Proceed(r, Failing(req[r].p))

-----------------------------------------------------------------------------
(***************************************************************************)
(* confirmCash: cancels the card attempts in flight, inserts the cash      *)
(* payment and confirms the order if it still awaits payment.              *)
(***************************************************************************)
OpenCash(r) ==
  /\ req[r].pc = "idle"
  /\ order = "AWAITING_PAYMENT"
  /\ Room
  /\ Proceed(r, At("cash", "CASH", 0))
  /\ UNCHANGED bank

SupersedeCard(r) ==
  /\ req[r].pc = "cash"
  /\ \A p \in Open : payLock[p] = NoRequest
  /\ payLock' = [p \in Rows |-> IF p \in Open THEN r ELSE payLock[p]]
  /\ req' = [req EXCEPT ![r].pc = "cashOrder"]
  /\ UNCHANGED <<order, paymentStatus, pay, bank, acknowledged, orderLock>>

ConfirmCash_Unconditional(r) ==         \* faulty: the order is confirmed in any status
  /\ req[r].pc = "cashOrder"
  /\ orderLock = NoRequest
  /\ pay' = [PaySeenBy(r) EXCEPT ![NextRow] = Row("SUCCEEDED", "CASH")]
  /\ order' = "CONFIRMED"
  /\ paymentStatus' = "PAID"
  /\ Finish(r)
  /\ UNCHANGED <<bank, acknowledged>>

ConfirmCash(r) ==
  /\ req[r].pc = "cashOrder"
  /\ orderLock = NoRequest
  /\ IF order = "AWAITING_PAYMENT"
     THEN /\ pay' = [PaySeenBy(r) EXCEPT ![NextRow] = Row("SUCCEEDED", "CASH")]
          /\ order' = "CONFIRMED"
          /\ paymentStatus' = "PAID"
          /\ Finish(r)
          /\ UNCHANGED <<bank, acknowledged>>
     ELSE Rollback(r)

-----------------------------------------------------------------------------
(***************************************************************************)
(* cancel, as far as payments see it.  The right to cancel a paid order is *)
(* judged by the paymentStatus read outside the transaction; paymentStatus *)
(* itself is left as it was.  (A CONFIRMED order that has moved on within  *)
(* production is answered 409: Crash has the same effect.)                 *)
(***************************************************************************)
OpenCancel(r, op) ==
  /\ req[r].pc = "idle"
  /\ order \in {"AWAITING_PAYMENT", "CONFIRMED"}
  /\ op = "CANCEL_UNPAID" => paymentStatus \notin {"PAID", "PARTIALLY_REFUNDED"}
  /\ Proceed(r, [At("cancel", op, 0) EXCEPT !.seen = order])
  /\ UNCHANGED bank

CancelOrderRow(r) ==
  /\ req[r].pc = "cancel"
  /\ orderLock = NoRequest
  /\ IF order = req[r].seen
     THEN /\ orderLock' = r
          /\ req' = [req EXCEPT ![r].pc = "cancelPayments"]
          /\ UNCHANGED <<order, paymentStatus, pay, bank, acknowledged, payLock>>
     ELSE Rollback(r)

CancelPayments(r) ==
  /\ req[r].pc = "cancelPayments"
  /\ \A p \in Open : payLock[p] = NoRequest
  /\ pay' = [p \in Rows |-> IF p \in Open THEN Written(r, p) ELSE pay[p]]
  /\ order' = "CANCELLED"
  /\ Finish(r)
  /\ UNCHANGED <<paymentStatus, bank, acknowledged>>

(* Production, dispatch and hand-over, which module OrderEngine details.   *)
Complete ==
  /\ order = "CONFIRMED" /\ orderLock = NoRequest
  /\ order' = "COMPLETED"
  /\ UNCHANGED <<paymentStatus, pay, bank, acknowledged, orderLock, payLock, req>>

-----------------------------------------------------------------------------
(***************************************************************************)
(* refund: the payment is read, the provider pays back, and only then the  *)
(* transaction writes the row if it is still as it was read, derives the   *)
(* order's paymentStatus, and marks a cancelled order refunded when all is *)
(* settled (markRefundedIfSettled).                                        *)
(***************************************************************************)
OpenRefund(r, p, amount) ==
  /\ req[r].pc = "idle"
  /\ pay[p].refunded + amount <= Total
  /\ LET target == PaymentStatusAfterRefund(Total, pay[p].refunded, amount)
     IN  /\ pay[p].status # NoPayment /\ CanTransitionPayment(pay[p].status, target)
         /\ Proceed(r, [At(IF pay[p].ref THEN "refundProvider" ELSE "refundPayment", "REFUND", p)
                          EXCEPT !.seen = pay[p].status, !.old = pay[p].refunded,
                                 !.amount = amount, !.target = target])
  /\ UNCHANGED bank

RefundAtProvider(r) ==
  /\ req[r].pc = "refundProvider"
  /\ \/ /\ bank[req[r].p].refunded + req[r].amount <= MaxPaidBack
        /\ bank' = [bank EXCEPT ![req[r].p].refunded = @ + req[r].amount]
        /\ Proceed(r, [req[r] EXCEPT !.pc = "refundPayment"])
     \/ UNCHANGED bank /\ Proceed(r, Idle)

RefundPayment(r) ==
  /\ req[r].pc = "refundPayment"
  /\ LET p == req[r].p
     IN  /\ payLock[p] = NoRequest
         /\ IF pay[p].status = req[r].seen /\ pay[p].refunded = req[r].old
            THEN /\ payLock' = [payLock EXCEPT ![p] = r]
                 /\ req' = [req EXCEPT ![r].pc = "refundOrder", ![r].next = DerivedAfter(r, p)]
                 /\ UNCHANGED orderLock
            ELSE Finish(r)
  /\ UNCHANGED <<order, paymentStatus, pay, bank, acknowledged>>

RefundOrder(r) ==
  /\ req[r].pc = "refundOrder"
  /\ orderLock = NoRequest
  /\ pay' = PaySeenBy(r)
  /\ paymentStatus' = req[r].next
  /\ order' = IF req[r].next = "REFUNDED" /\ order = "CANCELLED" THEN "REFUNDED" ELSE order
  /\ Finish(r)
  /\ UNCHANGED <<bank, acknowledged>>

-----------------------------------------------------------------------------
(* The next statement of r waits for a row another transaction has written. *)
Blocked(r) ==
  \/ /\ req[r].pc \in {"create", "settleOrder", "cashOrder", "cancel", "refundOrder"}
     /\ orderLock # NoRequest
  \/ /\ req[r].pc \in {"sent", "settlePayment", "refundPayment"}
     /\ payLock[req[r].p] # NoRequest
  \/ /\ req[r].pc \in {"cash", "cancelPayments"}
     /\ \E p \in Open : payLock[p] # NoRequest

LockWaitAborted_Never(r) == FALSE       \* faulty: transactions without a timeout

(* A wait ends with an error: deadlock detection or the 15 s timeout.      *)
LockWaitAborted(r) == Blocked(r) /\ Throw(r)

(* The API process may die at any moment; the database rolls back.         *)
Crash(r) == req[r].pc # "idle" /\ Rollback(r)

Step(r) ==
  \/ CheckInFlight(r) \/ CreatePayment(r) \/ SendToTerminal(r) \/ MarkPending(r)
  \/ ReadForSettlement(r) \/ SettlePayment(r) \/ SettleOrder(r)
  \/ QueryStatus(r) \/ CancelAtTerminal(r)
  \/ SupersedeCard(r) \/ ConfirmCash(r)
  \/ CancelOrderRow(r) \/ CancelPayments(r)
  \/ RefundAtProvider(r) \/ RefundPayment(r) \/ RefundOrder(r)

Next ==
  \/ Complete
  \/ \E p \in Rows : BankDecides(p)
  \/ \E r \in Requests :
        \/ OpenInitiate(r)
        \/ OpenCash(r)
        \/ \E op \in {"CANCEL", "CANCEL_UNPAID"} : OpenCancel(r, op)
        \/ \E p \in Rows : OpenCallback(r, p) \/ OpenReconcile(r, p)
        \/ \E p \in Rows, amount \in 1..Total : OpenRefund(r, p, amount)
        \/ Step(r)
        \/ LockWaitAborted(r)
        \/ Crash(r)

Spec == Init /\ [][Next]_vars

(***************************************************************************)
(* As in OrderEngine: handlers that can go on do, waits end, and nothing   *)
(* is assumed of customers, staff or the bank.                             *)
(***************************************************************************)
Fairness == \A r \in Requests : SF_vars(Step(r)) /\ WF_vars(LockWaitAborted(r))

FairSpec == Spec /\ Fairness

-----------------------------------------------------------------------------
TypeOK ==
  /\ order \in Orders
  /\ paymentStatus \in PaymentStatus
  /\ pay \in [Rows -> [status : PaymentRecordStatus \cup {NoPayment}, method : {"CARD", "CASH"},
                       ref : BOOLEAN, refunded : 0..Total]]
  /\ bank \in [Rows -> [result : {"NONE", "PENDING", "SUCCEEDED", "FAILED", "CANCELLED"},
                        decided : {"NONE", "SUCCEEDED", "FAILED"}, refunded : 0..MaxPaidBack]]
  /\ acknowledged \subseteq Rows
  /\ orderLock \in Requests \cup {NoRequest}
  /\ payLock \in [Rows -> Requests \cup {NoRequest}]
  /\ req \in [Requests ->
                [pc : {"idle", "check", "create", "send", "sent", "settle", "settlePayment",
                       "settleOrder", "query", "timeout", "cash", "cashOrder", "cancel",
                       "cancelPayments", "refundProvider", "refundPayment", "refundOrder"},
                 op : Op \cup {"none"}, p : Rows \cup {0},
                 seen : Orders \cup PaymentRecordStatus \cup {"none"}, old : 0..Total,
                 amount : 0..Total, target : PaymentRecordStatus \cup {"none"},
                 next : PaymentStatus \cup {"none"}]]


(***************************************************************************)
(* "Unpaid orders never enter production" (docs/PAYMENTS.md, principle 1): *)
(* behind an order that was confirmed there is a captured payment, and     *)
(* behind a captured card payment the provider's own decision, whatever    *)
(* retries, duplicates, cash and cancellations ran at the same time.       *)
(***************************************************************************)
MoneyBehindOrder ==
  /\ order \in {"CONFIRMED", "COMPLETED"} => \E p \in Rows : pay[p].status \in Captured
  /\ \A p \in Rows : pay[p].status \in Captured /\ pay[p].method = "CARD"
                      => bank[p].decided = "SUCCEEDED"

(***************************************************************************)
(* The order is called paid or refunded only when payments say so, even    *)
(* when the status was derived before another transaction committed        *)
(* (handleProviderResult, failPayment, refund).                            *)
(***************************************************************************)
PaidStatusIsReal ==
  /\ paymentStatus \in {"PAID", "PARTIALLY_REFUNDED", "REFUNDED"} =>
       \E p \in Rows : pay[p].status \in Captured
  /\ paymentStatus \in {"PARTIALLY_REFUNDED", "REFUNDED"} =>
       \E p \in Rows : pay[p].refunded > 0

(***************************************************************************)
(* The API never claims to have paid back more than the payment, or more   *)
(* than the provider paid back (refund, paymentStatusAfterRefund).         *)
(***************************************************************************)
RefundsBalanced ==
  \A p \in Rows :
    /\ pay[p].refunded <= Total
    /\ pay[p].status = "REFUNDED" <=> pay[p].refunded = Total
    /\ pay[p].method = "CARD" => pay[p].refunded <= bank[p].refunded

(***************************************************************************)
(* Two cashiers never both take the cash (confirmCash).                    *)
(***************************************************************************)
CashTakenOnce == Cardinality({p \in Rows : pay[p].method = "CASH"}) <= 1

(***************************************************************************)
(* A payment row moves along PAYMENT_TRANSITIONS only, whatever order its  *)
(* results, retries and cancellations arrive in: it is settled once.       *)
(***************************************************************************)
PaymentOnlyForward ==
  [][\A p \in Rows :
       \/ pay'[p] = pay[p]
       \/ pay[p].status = NoPayment
       \/ CanTransitionPayment(pay[p].status, pay'[p].status)]_pay

(***************************************************************************)
(* A cancelled order is not revived by a payment that was already under    *)
(* way, and one handed over is not cancelled (onPaymentSucceeded, cancel). *)
(***************************************************************************)
NoRevival ==
  [][/\ order = "CANCELLED" => order' = "REFUNDED"
     /\ order \notin {"COMPLETED", "REFUNDED"}]_order

(* What is settled stays settled, in the rows and in the order.            *)
NeverBack == PaymentOnlyForward /\ NoRevival

(***************************************************************************)
(* Every request is answered although cancel takes order and payments in   *)
(* the opposite order of the settlements.                                  *)
(***************************************************************************)
EveryRequestAnswered == \A r \in Requests : req[r].pc # "idle" ~> req[r].pc = "idle"

-----------------------------------------------------------------------------
(* What the repository says of payments and the code does not keep.        *)

(***************************************************************************)
(* "Money captured for an order that moved on ... never lose it silently"  *)
(* (payments.service.ts, handleProviderResult): a success that the API has *)
(* acknowledged to the provider is recorded on the payment.                *)
(***************************************************************************)
CapturedMoneyRecorded == \A p \in acknowledged : pay[p].status \in Captured

(***************************************************************************)
(* "Idempotent everywhere ... refund" (docs/PAYMENTS.md) and "Refund       *)
(* exceeds paid amount" (paymentStatusAfterRefund): the provider never     *)
(* pays back more than was paid.                                           *)
(***************************************************************************)
NoOverRefund == \A p \in Rows : bank[p].refunded <= Total

=============================================================================
