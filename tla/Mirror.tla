------------------------------- MODULE Mirror -------------------------------
(***************************************************************************)
(* What a screen is promised: a copy of a source that only ever shows a    *)
(* value the source has had and, once the screen is open, does not stay    *)
(* behind it.                                                              *)
(*                                                                         *)
(* The promise is silent on order: the copy may step back for a while.     *)
(* Delivery, with its lossy events, polls and late answers, implements it. *)
(***************************************************************************)
CONSTANTS
  Values,           \* what the source can be
  Blank             \* what the copy shows before its first load

VARIABLES
  open,             \* the screen has started
  source,
  past,             \* the values the source has had
  copy

vars == <<open, source, past, copy>>

Init ==
  /\ open = FALSE
  /\ source \in Values
  /\ past = {source}
  /\ copy = Blank

Open ==
  /\ ~open
  /\ open' = TRUE
  /\ UNCHANGED <<source, past, copy>>

Change(v) ==
  /\ source' = v
  /\ past' = past \cup {v}
  /\ UNCHANGED <<open, copy>>

Show(v) ==
  /\ open
  /\ copy' = v
  /\ UNCHANGED <<open, source, past>>

Next ==
  \/ Open
  \/ \E v \in Values : Change(v)
  \/ \E v \in past : Show(v)

CatchUp == copy # source /\ Show(source)

Safety == Init /\ [][Next]_vars

Spec == Safety /\ WF_vars(CatchUp)
=============================================================================
