--------------------------- MODULE MCBackupRuns ---------------------------
(* An instance of BackupRuns for TLC: the runs t1a and t1b belong to target *)
(* t1 and the run t2a to target t2.                                         *)
EXTENDS BackupRuns, TLC

CONSTANTS i1, i2, t1, t2, t1a, t1b, t2a

MCTargetOf == [r \in Runs |-> IF r \in {t1a, t1b} THEN t1 ELSE t2]
=============================================================================
