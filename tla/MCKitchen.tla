------------------------------ MODULE MCKitchen ------------------------------
(* Model-checking instance of Kitchen: half-minutes, a menu of three items, *)
(* a day that opens late and a kitchen that bakes two breads at a time.     *)
EXTENDS Kitchen, TLC

CONSTANTS o1, o2

MCMenu ==
  [bread |-> [required |-> TRUE, station |-> "oven", duration |-> 1, buffer |-> 1,
              units |-> 2, priority |-> 0],
   cake  |-> [required |-> TRUE, station |-> "deco", duration |-> 1, buffer |-> 0,
              units |-> 1, priority |-> 1],
   water |-> [required |-> FALSE, station |-> "none", duration |-> 0, buffer |-> 0,
              units |-> 1, priority |-> 0]]

MCCart == o1 :> {"bread", "water"} @@ o2 :> {"bread", "cake"}

MCThresholds == [startingSoon |-> 1, lateGrace |-> 0, boardHorizon |-> 1]

(* The board looks less far ahead than the announcements.                  *)
MCShortBoard == [startingSoon |-> 2, lateGrace |-> 0, boardHorizon |-> 1]

MCDay == [opens |-> 4, closes |-> 16, slot |-> 3, minLead |-> 1]

MCRules == {[station |-> "oven", window |-> 1, max |-> 4], [station |-> NoStation, window |-> 2, max |-> 5]}
=============================================================================
