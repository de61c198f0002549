---------------------------- MODULE MCTaskManager ----------------------------
(***************************************************************************)
(* Small instances of TaskManager: imports i1 and i2 compete for the slot  *)
(* of vault v1, x1 rebuilds the index of vault v2, and d1 and d2 delete    *)
(* vaults.                                                                 *)
(***************************************************************************)
EXTENDS TaskManager

CONSTANTS i1, i2, x1, v1, v2, d1, d2

MCVaults == [t \in Tasks |-> IF t = x1 THEN v2 ELSE v1]
MCKinds == [t \in Tasks |-> IF t = x1 THEN "index" ELSE "import"]

\* Only these tasks are requested, and these deleters delete, only these vaults.
Cast(tasks, deleters, vaults) ==
    /\ \A t \in Tasks \ tasks : start[t] = "idle"
    /\ \A d \in Deleters :
          /\ d \in deleters \/ attempts[d] = 0
          /\ delVault[d] \in vaults \cup {NoVault}

Uneventful == restarts = 0 /\ lost = {}

\* No request has cleared a row of a vault that is still there.
Tidy == \A t \in Tasks :
            row[t] = "none" => work[t] = "none" \/ VaultOf[t] \notin vaultRows

(* The run explores the union of six casts, all of them but the last with   *)
(* shutdown.  With a crash and a lost write: two imports that compete for   *)
(* the slot of a vault; an import and a rebuild of two vaults; an import    *)
(* and a deletion of its vault.  Without them: an import and two deletions  *)
(* of its vault; two imports that compete and a deletion of the vault; an   *)
(* import and a rebuild of two vaults and a deletion of either.             *)
(* What the constraint cuts off, a crash, a lost write, the shutdown or the *)
(* begin of a request, is never owed, so it does not hide a fair step.      *)
Casts ==
    \/ Cast({i1, i2}, {}, {})
    \/ Cast({i1, x1}, {}, {})
    \/ Cast({i1}, {d1}, {v1})
    \/ Uneventful /\ Cast({i1}, {d1, d2}, {v1})
    \/ Uneventful /\ Tidy /\ Cast({i1, i2}, {d1}, {v1})
    \/ Uneventful /\ Tidy /\ ~closed /\ Cast({i1, x1}, {d1}, {v1, v2})
=============================================================================
