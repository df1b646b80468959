---------------------------- MODULE MCBackOffice ----------------------------
(* Model-checking instance of BackOffice.                                  *)
EXTENDS BackOffice

CONSTANTS cashier, manager

MCSeed    == [r \in Roles |-> IF r = cashier THEN Perms ELSE {}]
MCDefault == [x \in Items |-> "STATION"]
=============================================================================
