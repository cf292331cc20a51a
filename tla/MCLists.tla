------------------------------ MODULE MCLists ------------------------------
(***************************************************************************)
(* The two lists the main process keeps on disk, connections.json and the  *)
(* managed connections, side by side: `part` says which one a behaviour is *)
(* about; the other stays as it was at the start, with nothing under way.  *)
(***************************************************************************)
EXTENDS ConnStore, Sync

VARIABLE part

listsVars == <<part, vars, allSyncVars>>

ListsInit ==
  /\ part \in {"own", "managed"}
  /\ Init /\ SyncInit
  /\ part = "own" => setting = NoSync /\ policy = NoSync /\ savedList = NoSync
  /\ part = "managed" => file = Missing

OwnPart == part = "own" /\ Next /\ UNCHANGED <<part, allSyncVars>>
ManagedPart ==
  part = "managed" /\ SyncNext /\ UNCHANGED policy /\ UNCHANGED <<part, vars>>

ListsSpec == ListsInit /\ [][OwnPart \/ ManagedPart]_listsVars /\ SyncFairness
=============================================================================
