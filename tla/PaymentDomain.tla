---------------------------- MODULE PaymentDomain ----------------------------
(***************************************************************************)
(* The pure rules of packages/domain about the payments of an order: the   *)
(* life of one payment row, the order's paymentStatus derived from all of  *)
(* them, and the status a refund leaves behind.                            *)
(***************************************************************************)
EXTENDS Naturals, FiniteSets, FiniteSetsExt

(* NoPayment stands for a row that has not been inserted.                  *)
NoPayment == "ABSENT"

PaymentRecordStatus ==
  {"INITIATED", "PENDING", "SUCCEEDED", "FAILED", "CANCELLED", "PARTIALLY_REFUNDED", "REFUNDED"}

PaymentStatus == {"UNPAID", "PENDING", "PAID", "FAILED", "PARTIALLY_REFUNDED", "REFUNDED"}

PAYMENT_TRANSITIONS ==
  [INITIATED          |-> {"PENDING", "SUCCEEDED", "FAILED", "CANCELLED"},
   PENDING            |-> {"SUCCEEDED", "FAILED", "CANCELLED"},
   SUCCEEDED          |-> {"PARTIALLY_REFUNDED", "REFUNDED"},
   PARTIALLY_REFUNDED |-> {"PARTIALLY_REFUNDED", "REFUNDED"},
   FAILED             |-> {},
   CANCELLED          |-> {},
   REFUNDED           |-> {}]

CanTransitionPayment(from, to) == to \in PAYMENT_TRANSITIONS[from]

InFlight == {"INITIATED", "PENDING"}
Captured == {"SUCCEEDED", "PARTIALLY_REFUNDED", "REFUNDED"}

(***************************************************************************)
(* derivePaymentStatus: `pay` is a function from creation order to rows    *)
(* with a status and a refunded amount, each of them for the amount total. *)
(* Cancelled rows are ignored; captured ones decide before any other.      *)
(***************************************************************************)
DerivePaymentStatus(pay, total) ==
  LET relevant  == {p \in DOMAIN pay : pay[p].status \notin {NoPayment, "CANCELLED"}}
      succeeded == {p \in relevant : pay[p].status \in Captured}
      paid      == Cardinality(succeeded) * total
      refunded  == MapThenSumSet(LAMBDA p : pay[p].refunded, succeeded)
  IN  IF relevant = {} THEN "UNPAID"
      ELSE IF succeeded # {} THEN
        IF refunded = 0 THEN "PAID"
        ELSE IF refunded >= paid THEN "REFUNDED" ELSE "PARTIALLY_REFUNDED"
      ELSE IF pay[Max(relevant)].status = "FAILED" THEN "FAILED" ELSE "PENDING"

PaymentStatusAfterRefund_Partial(total, refunded, amount) ==  \* faulty: never settles
  "PARTIALLY_REFUNDED"

(* paymentStatusAfterRefund, for a refund that does not exceed the payment. *)
PaymentStatusAfterRefund(total, refunded, amount) ==
  IF refunded + amount = total THEN "REFUNDED" ELSE "PARTIALLY_REFUNDED"

=============================================================================
