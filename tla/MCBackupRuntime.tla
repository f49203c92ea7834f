-------------------------- MODULE MCBackupRuntime --------------------------
(***************************************************************************)
(* The scheduler and the restores of the backup runtime (BackupSchedule    *)
(* and RestoreOperations) for TLC.  They share nothing but the lease,      *)
(* which the restores see as `Elsewhere`: a behaviour takes the steps of   *)
(* one of them, and the other keeps its initial state.                     *)
(***************************************************************************)
EXTENDS BackupSchedule, OperationTable, TLC

CONSTANTS i1, i2, t1, often, rare, off, Nobody, Other

VARIABLES phase, gaveUp, lease, request, job, ops, order, waits, part

restores == <<phase, gaveUp, lease, request, job, ops, order, waits>>

R == INSTANCE RestoreOperations

MCDue == [s \in Schedules |-> IF s = often THEN {2, 4} ELSE IF s = rare THEN {3} ELSE {}]

RuntimeInit == Init /\ R!Init /\ part \in {"rounds", "restores"}
             /\ (part = "restores" => settings = [t \in Targets |-> [enabled |-> TRUE, schedule |-> often]])

Rounds == part = "rounds" /\ Next /\ UNCHANGED <<restores, part>>
Restores == part = "restores" /\ R!Next /\ UNCHANGED <<vars, part>>

RuntimeSpec ==
  /\ RuntimeInit /\ [][Rounds \/ Restores]_<<vars, restores, part>>
  /\ part = "rounds" => Fairness

\* See RestoreOperations.
NoneIsCutOff == R!NoneIsCutOff
ForgottenInOrder == R!ForgottenInOrder
=============================================================================
