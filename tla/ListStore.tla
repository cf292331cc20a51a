----------------------------- MODULE ListStore -----------------------------
(***************************************************************************)
(* What the connection store promises when handlers do not overlap: the    *)
(* saved list changes by one whole edit at a time, each applied to the     *)
(* list that was saved last, and a stop of the program loses no edit.  The *)
(* one exception is a list that could not be read: it is taken for empty,  *)
(* and the next edit replaces it.                                          *)
(***************************************************************************)
CONSTANTS Ids, None

VARIABLES
  store,   \* the saved list
  view     \* what this run of the program knows of it

Saveable == [temp : BOOLEAN, pw : {"none", "sealed"}]
Empty == [i \in Ids |-> None]
Base == IF view = "blind" THEN Empty ELSE store

Put(l, i, d) == [l EXCEPT ![i] = d]
Add(l, new) == [i \in Ids |-> IF i \in new /\ l[i] = None
                             THEN [temp |-> FALSE, pw |-> "none"] ELSE l[i]]
DropTemp(l) == [i \in Ids |-> IF l[i] # None /\ l[i].temp THEN None ELSE l[i]]
Seal(l) == [i \in Ids |-> IF l[i] # None /\ l[i].pw = "plain"
                         THEN [temp |-> l[i].temp, pw |-> "sealed"] ELSE l[i]]

Init == view = "unread" /\ store \in [Ids -> Saveable \cup {None}
                                        \cup [temp : BOOLEAN, pw : {"plain"}]]

Open == view = "unread" /\ view' \in {"whole", "blind"} /\ UNCHANGED store

Edit ==
  /\ view # "unread"
  /\ view' = "whole"
  /\ \/ \E i \in Ids, d \in Saveable \cup {None} : store' = Put(Base, i, d)
     \/ \E new \in SUBSET Ids : store' = Add(Base, new)
     \/ store' = DropTemp(Base)
     \/ store' = Seal(Base)

Restart == view' = "unread" /\ UNCHANGED store

Next == Open \/ Edit \/ Restart
Spec == Init /\ [][Next]_<<store, view>>
=============================================================================
