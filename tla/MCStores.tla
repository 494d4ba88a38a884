------------------------------- MODULE MCStores -------------------------------
(* One instance each of the four services whose state is in stores that share  *)
(* no transaction: documents, backups, API keys, sessions.  They have no       *)
(* variable in common; a behaviour is one of the service `service` names.      *)
EXTENDS Documents, BackupService, ApiKeys, Sessions, TLC

CONSTANTS r1, r2, r3, d1, d2, b1, b2

VARIABLE service

ASSUME StoresAssumption ==
    BackupAssumption /\ KeysAssumption /\ SessionsAssumption

\* d1 is deleted when its retention ends, the others archived.
MCRetention == [d \in Docs |-> [action |-> IF d = d1 THEN "delete" ELSE "archive", until |-> 1]]

MCSymmetry == Permutations(Requests) \cup Permutations(BackupIds)

MCInit ==
    /\ service \in {"documents", "backups", "keys", "sessions"}
    /\ Init /\ BackupInit /\ KeysInit /\ SessionsInit

MCNext ==
    \/ /\ service = "documents" /\ Next
       /\ UNCHANGED <<service, backupVars, keyVars, sessionVars>>
    \/ /\ service = "backups" /\ BackupNext
       /\ UNCHANGED <<service, vars, keyVars, sessionVars>>
    \/ /\ service = "keys" /\ KeysNext
       /\ UNCHANGED <<service, vars, backupVars, sessionVars>>
    \/ /\ service = "sessions" /\ SessionsNext
       /\ UNCHANGED <<service, vars, backupVars, keyVars>>

MCSpec == MCInit /\ [][MCNext]_<<service, vars, backupVars, keyVars, sessionVars>>
=============================================================================
