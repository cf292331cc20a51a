------------------------------ MODULE MCStamp ------------------------------
(***************************************************************************)
(* Terminal with the age of the requests under way, for the guard of       *)
(* ssh-report-status.                                                      *)
(***************************************************************************)
EXTENDS Terminal

VARIABLE stale    \* requests of each window sent before the last connect

Taken(w) == Len(outbox'[w]) < Len(outbox[w])
Older(w) ==
  IF entry = "none" /\ entry' = "fresh" THEN Len(outbox[w])
  ELSE IF Taken(w) /\ stale[w] > 0 THEN stale[w] - 1 ELSE stale[w]

StampSpec ==
  /\ Init /\ stale = [w \in Windows |-> 0]
  /\ [][Next /\ stale' = [w \in Windows |-> Older(w)]]_<<termVars, stale>>

(* "A stale sshReportStatus(true) from an old terminal window must not      *)
(* stamp a freshly-reconnecting session" (ipc.js): a report that was sent   *)
(* before the connect does not make its entry connected.                    *)
StampIsOwn ==
  [][entry = "fresh" /\ entry' = "stamped" =>
       \E w \in Windows : Taken(w) /\ stale[w] = 0]_<<termVars, stale>>
=============================================================================
