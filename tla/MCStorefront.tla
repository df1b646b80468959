---------------------------- MODULE MCStorefront ----------------------------
(* Model-checking instances of Storefront.                                 *)
EXTENDS Storefront

(* The till has by far the most states.                                    *)
MCMaxFaults == [KIOSK |-> 2, POS |-> 1, MOBILE |-> 3]

(* The late retry of one customer needs no fault to meet the next.         *)
NoFaults == [KIOSK |-> 0, POS |-> 0, MOBILE |-> 0]
=============================================================================
