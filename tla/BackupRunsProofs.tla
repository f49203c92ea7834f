-------------------------- MODULE BackupRunsProofs --------------------------
(* Proofs about BackupRuns, for every set of instances, targets and runs    *)
(* and every bound on dumps, restores, shutdowns, crashes and errors.       *)
EXTENDS BackupRuns, TLAPS

(* The rewritings of the run table yield run tables.                         *)
LEMMA EmptyDbType == EmptyDb \in Db
BY DEF EmptyDb, Db, RunStates

(* Marking a row as running.                                                 *)
LEMMA ClaimType ==
  ASSUME NEW d \in Db, NEW r \in Runs
  PROVE  Claimed(d, r) \in Db
BY DEF Db, RunStates, Claimed

(* Recording an outcome and a checksum.                                      *)
LEMMA SettleType ==
  ASSUME NEW d \in Db, NEW r \in Runs, NEW st \in RunStates, NEW n \in Nat
  PROVE  Settled(d, r, st, n) \in Db
BY DEF Db, Settled

(* Inserting a pending row.                                                  *)
LEMMA InsertType ==
  ASSUME NEW d \in Db, NEW r \in Runs, NEW n \in Nat
  PROVE  Inserted(d, r, n) \in Db
BY DEF Db, RunStates, Inserted

(* Switching a target on or off.                                             *)
LEMMA ToggleType ==
  ASSUME NEW d \in Db, NEW t \in Targets
  PROVE  [d EXCEPT !.enabled[t] = ~@] \in Db
BY DEF Db

(* The missing object is an object of version 0.                             *)
LEMMA NoObjectType == NoObject \in Object
BY EmptyDbType DEF NoObject, Object

(* Every reachable state is well typed, and a worker, a restore and a        *)
(* request know the run or target they are at work on.                       *)
THEOREM TypeCorrect == Spec => []TypeOK
<1>1. Init => TypeOK
  BY EmptyDbType, NoObjectType DEF Init, TypeOK, WorkerPcs, RestorePcs, QueuePcs, Executing
<1>2. TypeOK /\ [Next]_vars => TypeOK'
  <2> SUFFICES ASSUME TypeOK, [Next]_vars PROVE TypeOK'
    OBVIOUS
  <2> USE DEF TypeOK, WorkerPcs, RestorePcs, QueuePcs, Threads, Executing,
              workerVars, restoreVars, queueVars, budgets
  <2>1. ASSUME NEW i \in Instances, WorkerLock(i) PROVE TypeOK'
    BY <2>1 DEF WorkerLock, TryAcquire
  <2>2. ASSUME NEW i \in Instances, WorkerClaim(i) PROVE TypeOK'
    <3>1. db' \in Db
      BY <2>2, ClaimType DEF WorkerClaim
    <3> QED
      BY <2>2, <3>1 DEF WorkerClaim
  <2>3. ASSUME NEW i \in Instances, WorkerNoClaim(i) PROVE TypeOK'
    BY <2>3 DEF WorkerNoClaim
  <2>4. ASSUME NEW i \in Instances, WorkerClaimLost(i) PROVE TypeOK'
    <3>1. db' \in Db
      BY <2>4, ClaimType DEF WorkerClaimLost
    <3> QED
      BY <2>4, <3>1 DEF WorkerClaimLost, Interrupted
  <2>5. ASSUME NEW i \in Instances, WorkerPrepare(i) PROVE TypeOK'
    BY <2>5 DEF WorkerPrepare
  <2>6. ASSUME NEW i \in Instances, WorkerDump(i) PROVE TypeOK'
    <3>1. [ver |-> dumps + 1, db |-> db] \in Object
      BY DEF Object
    <3> QED
      BY <2>6, <3>1 DEF WorkerDump
  <2>7. ASSUME NEW i \in Instances, WorkerPut(i) PROVE TypeOK'
    BY <2>7 DEF WorkerPut
  <2>8. ASSUME NEW i \in Instances, WorkerSucceed(i) PROVE TypeOK'
    <3>1. wrun[i] \in Runs /\ wdump[i].ver \in Nat
      BY <2>8 DEF WorkerSucceed, Object
    <3>2. db' \in Db
      BY <2>8, <3>1, SettleType DEF WorkerSucceed, UpdateRun, RunStates
    <3> QED
      BY <2>8, <3>2, NoObjectType DEF WorkerSucceed, WorkerReturn
  <2>9. ASSUME NEW i \in Instances, WorkerSucceedLost(i) PROVE TypeOK'
    <3>1. wrun[i] \in Runs /\ wdump[i].ver \in Nat
      BY <2>9 DEF WorkerSucceedLost, Object
    <3>2. db' \in Db
      BY <2>9, <3>1, SettleType DEF WorkerSucceedLost, UpdateRun, RunStates
    <3> QED
      BY <2>9, <3>2, NoObjectType DEF WorkerSucceedLost, WorkerReturn, Interrupted
  <2>10. ASSUME NEW i \in Instances, WorkerFail(i) PROVE TypeOK'
    <3>1. wrun[i] \in Runs /\ wdump[i].ver \in Nat
      BY <2>10 DEF WorkerFail, Object
    <3>2. db' \in Db
      BY <2>10, <3>1, SettleType DEF WorkerFail, UpdateRun, RunStates
    <3> QED
      BY <2>10, <3>2, NoObjectType DEF WorkerFail, WorkerReturn
  <2>11. ASSUME NEW i \in Instances, WorkerRelease(i) PROVE TypeOK'
    BY <2>11 DEF WorkerRelease, Release
  <2>12. ASSUME NEW i \in Instances, RestoreLock(i) PROVE TypeOK'
    BY <2>12 DEF RestoreLock, TryAcquire
  <2>13. ASSUME NEW i \in Instances, RestoreCheck(i) PROVE TypeOK'
    BY <2>13 DEF RestoreCheck, RestoreGiveUp, Db
  <2>14. ASSUME NEW i \in Instances, RestoreApply(i) PROVE TypeOK'
    BY <2>14 DEF RestoreApply, RestoreGiveUp, Object
  <2>15. ASSUME NEW i \in Instances, RestoreFail(i) PROVE TypeOK'
    BY <2>15 DEF RestoreFail, RestoreGiveUp
  <2>16. ASSUME NEW i \in Instances, RestoreRelease(i) PROVE TypeOK'
    BY <2>16 DEF RestoreRelease, Release
  <2>17. ASSUME NEW i \in Instances, QueueLock(i) PROVE TypeOK'
    BY <2>17 DEF QueueLock, TryAcquire
  <2>18. ASSUME NEW i \in Instances, QueueCheck(i) PROVE TypeOK'
    BY <2>18 DEF QueueCheck
  <2>19. ASSUME NEW i \in Instances, QueueInsert(i) PROVE TypeOK'
    BY <2>19, InsertType DEF QueueInsert, InsertRun
  <2>20. ASSUME NEW i \in Instances, QueueRelease(i) PROVE TypeOK'
    BY <2>20 DEF QueueRelease, Release
  <2>21. ASSUME NEW i \in Instances, ScheduleDue(i) PROVE TypeOK'
    BY <2>21 DEF ScheduleDue
  <2>22. ASSUME NEW i \in Instances, ScheduleInsert(i) PROVE TypeOK'
    BY <2>22, InsertType DEF ScheduleInsert, InsertRun
  <2>23. ASSUME NEW i \in Instances, Stop(i) PROVE TypeOK'
    BY <2>23 DEF Stop
  <2>24. ASSUME NEW i \in Instances, Restart(i) PROVE TypeOK'
    BY <2>24 DEF Restart
  <2>25. ASSUME NEW i \in Instances, Crash(i) PROVE TypeOK'
    BY <2>25, NoObjectType DEF Crash
  <2>26. ASSUME NEW t \in Targets, UpdateTarget(t) PROVE TypeOK'
    BY <2>26, ToggleType DEF UpdateTarget
  <2>27. CASE LoseSession
    BY <2>27 DEF LoseSession
  <2>28. CASE UNCHANGED vars
    BY <2>28 DEF vars
  <2> QED
    BY <2>1, <2>2, <2>3, <2>4, <2>5, <2>6, <2>7, <2>8, <2>9, <2>10, <2>11, <2>12, <2>13, <2>14,
       <2>15, <2>16, <2>17, <2>18, <2>19, <2>20, <2>21, <2>22, <2>23, <2>24, <2>25, <2>26, <2>27, <2>28
       DEF Next, Worker, Restore, Queue
<1> QED
  BY <1>1, <1>2, PTL DEF Spec

-----------------------------------------------------------------------------
(* At most one active run per target.  A restore brings back whatever a dump *)
(* copied, so the property is needed of every object and of every dump that  *)
(* is on its way as well.                                                    *)

OneActive(d) ==
  \A r, q \in Runs :
    Active(d, r) /\ Active(d, q) /\ TargetOf[r] = TargetOf[q] => r = q

ActiveInv ==
  /\ OneActive(db)
  /\ \A r \in Runs : OneActive(store[r].db)
  /\ \A i \in Instances : OneActive(wdump[i].db)

(* The empty table has no active run.                                        *)
LEMMA EmptyOneActive == OneActive(NoObject.db)
BY DEF OneActive, Active, NoObject, EmptyDb

(* Claiming moves an active run to another active state.                     *)
LEMMA ClaimOneActive ==
  ASSUME NEW d \in Db, NEW r \in Runs, d.state[r] = "pending", OneActive(d)
  PROVE  OneActive(Claimed(d, r))
BY DEF OneActive, Active, Claimed, Db

(* Settling removes an active run.                                           *)
LEMMA SettleOneActive ==
  ASSUME NEW d \in Db, NEW r \in Runs, NEW st \in {"succeeded", "failed"},
         NEW n \in Nat, OneActive(d)
  PROVE  OneActive(Settled(d, r, st, n))
BY DEF OneActive, Active, Settled, Db

(* Inserting adds the only active run of a target that had none.             *)
LEMMA InsertOneActive ==
  ASSUME NEW d \in Db, NEW r \in Runs, NEW n \in Nat, OneActive(d),
         ~HasActive(d, TargetOf[r])
  PROVE  OneActive(Inserted(d, r, n))
BY DEF OneActive, HasActive, Active, Inserted, Db

(* Switching a target leaves the runs alone.                                 *)
LEMMA ToggleOneActive ==
  ASSUME NEW d \in Db, NEW t \in Targets, OneActive(d)
  PROVE  OneActive([d EXCEPT !.enabled[t] = ~@])
BY DEF OneActive, Active, Db

(* No table, current or dumped or stored, has two active runs of a target.   *)
LEMMA ActiveInvariant == Spec => []ActiveInv
<1>1. Init => ActiveInv
  BY EmptyOneActive DEF Init, ActiveInv, NoObject
<1>2. TypeOK /\ ActiveInv /\ [Next]_vars => ActiveInv'
  <2> SUFFICES ASSUME TypeOK, ActiveInv, [Next]_vars PROVE ActiveInv'
    OBVIOUS
  <2> USE DEF ActiveInv, TypeOK, workerVars, restoreVars, queueVars, budgets
  <2>1. ASSUME NEW i \in Instances, WorkerLock(i) PROVE ActiveInv'
    BY <2>1 DEF WorkerLock
  <2>2. ASSUME NEW i \in Instances, WorkerClaim(i) PROVE ActiveInv'
    BY <2>2, ClaimOneActive DEF WorkerClaim, OldestPending
  <2>3. ASSUME NEW i \in Instances, WorkerNoClaim(i) PROVE ActiveInv'
    BY <2>3 DEF WorkerNoClaim
  <2>4. ASSUME NEW i \in Instances, WorkerClaimLost(i) PROVE ActiveInv'
    BY <2>4, ClaimOneActive DEF WorkerClaimLost, OldestPending
  <2>5. ASSUME NEW i \in Instances, WorkerPrepare(i) PROVE ActiveInv'
    BY <2>5 DEF WorkerPrepare
  <2>6. ASSUME NEW i \in Instances, WorkerDump(i) PROVE ActiveInv'
    BY <2>6 DEF WorkerDump, Object
  <2>7. ASSUME NEW i \in Instances, WorkerPut(i) PROVE ActiveInv'
    BY <2>7 DEF WorkerPut
  <2>8. ASSUME NEW i \in Instances, WorkerSucceed(i) PROVE ActiveInv'
    <3>1. wrun[i] \in Runs /\ wdump[i].ver \in Nat
      BY <2>8 DEF WorkerSucceed, Object, Executing
    <3>2. OneActive(db')
      BY <2>8, <3>1, SettleOneActive DEF WorkerSucceed, UpdateRun
    <3>3. \A j \in Instances : OneActive(wdump'[j].db)
      BY <2>8, EmptyOneActive DEF WorkerSucceed, WorkerReturn
    <3> QED
      BY <2>8, <3>2, <3>3 DEF WorkerSucceed
  <2>9. ASSUME NEW i \in Instances, WorkerSucceedLost(i) PROVE ActiveInv'
    <3>1. wrun[i] \in Runs /\ wdump[i].ver \in Nat
      BY <2>9 DEF WorkerSucceedLost, Object, Executing
    <3>2. OneActive(db')
      BY <2>9, <3>1, SettleOneActive DEF WorkerSucceedLost, UpdateRun
    <3>3. \A j \in Instances : OneActive(wdump'[j].db)
      BY <2>9, EmptyOneActive DEF WorkerSucceedLost, WorkerReturn
    <3> QED
      BY <2>9, <3>2, <3>3 DEF WorkerSucceedLost
  <2>10. ASSUME NEW i \in Instances, WorkerFail(i) PROVE ActiveInv'
    <3>1. wrun[i] \in Runs /\ wdump[i].ver \in Nat
      BY <2>10 DEF WorkerFail, Object, Executing
    <3>2. OneActive(db')
      BY <2>10, <3>1, SettleOneActive DEF WorkerFail, UpdateRun
    <3>3. \A j \in Instances : OneActive(wdump'[j].db)
      BY <2>10, EmptyOneActive DEF WorkerFail, WorkerReturn
    <3> QED
      BY <2>10, <3>2, <3>3 DEF WorkerFail
  <2>11. ASSUME NEW i \in Instances, WorkerRelease(i) PROVE ActiveInv'
    BY <2>11 DEF WorkerRelease
  <2>12. ASSUME NEW i \in Instances, RestoreLock(i) PROVE ActiveInv'
    BY <2>12 DEF RestoreLock
  <2>13. ASSUME NEW i \in Instances, RestoreCheck(i) PROVE ActiveInv'
    BY <2>13 DEF RestoreCheck
  <2>14. ASSUME NEW i \in Instances, RestoreApply(i) PROVE ActiveInv'
    BY <2>14 DEF RestoreApply
  <2>15. ASSUME NEW i \in Instances, RestoreFail(i) PROVE ActiveInv'
    BY <2>15 DEF RestoreFail
  <2>16. ASSUME NEW i \in Instances, RestoreRelease(i) PROVE ActiveInv'
    BY <2>16 DEF RestoreRelease
  <2>17. ASSUME NEW i \in Instances, QueueLock(i) PROVE ActiveInv'
    BY <2>17 DEF QueueLock
  <2>18. ASSUME NEW i \in Instances, QueueCheck(i) PROVE ActiveInv'
    BY <2>18 DEF QueueCheck
  <2>19. ASSUME NEW i \in Instances, QueueInsert(i) PROVE ActiveInv'
    BY <2>19, InsertOneActive DEF QueueInsert, InsertRun
  <2>20. ASSUME NEW i \in Instances, QueueRelease(i) PROVE ActiveInv'
    BY <2>20 DEF QueueRelease
  <2>21. ASSUME NEW i \in Instances, ScheduleDue(i) PROVE ActiveInv'
    BY <2>21 DEF ScheduleDue
  <2>22. ASSUME NEW i \in Instances, ScheduleInsert(i) PROVE ActiveInv'
    BY <2>22, InsertOneActive DEF ScheduleInsert, InsertRun
  <2>23. ASSUME NEW i \in Instances, Stop(i) PROVE ActiveInv'
    BY <2>23 DEF Stop
  <2>24. ASSUME NEW i \in Instances, Restart(i) PROVE ActiveInv'
    BY <2>24 DEF Restart
  <2>25. ASSUME NEW i \in Instances, Crash(i) PROVE ActiveInv'
    BY <2>25, EmptyOneActive DEF Crash
  <2>26. ASSUME NEW t \in Targets, UpdateTarget(t) PROVE ActiveInv'
    BY <2>26, ToggleOneActive DEF UpdateTarget
  <2>27. CASE LoseSession
    BY <2>27 DEF LoseSession
  <2>28. CASE UNCHANGED vars
    BY <2>28 DEF vars
  <2> QED
    BY <2>1, <2>2, <2>3, <2>4, <2>5, <2>6, <2>7, <2>8, <2>9, <2>10, <2>11, <2>12, <2>13, <2>14,
       <2>15, <2>16, <2>17, <2>18, <2>19, <2>20, <2>21, <2>22, <2>23, <2>24, <2>25, <2>26, <2>27, <2>28
       DEF Next, Worker, Restore, Queue
<1> QED
  BY <1>1, <1>2, TypeCorrect, PTL DEF Spec

(* No target ever has two pending or running runs, with any number of        *)
(* instances, whatever crashes, is lost or is restored.                      *)
THEOREM AtMostOneActive == Spec => []AtMostOneActiveRun
<1>1. ActiveInv => AtMostOneActiveRun
  BY DEF ActiveInv, OneActive, AtMostOneActiveRun
<1> QED
  BY <1>1, ActiveInvariant, PTL
-----------------------------------------------------------------------------
(* Mutual exclusion of the operations: while no session has been lost, a     *)
(* thread that has passed its try-lock is the one recorded in the lock.      *)

HolderInv ==
  losses = 0 => \A i \in Instances :
    /\ wpc[i] # "idle" => lock = <<i, "worker">>
    /\ rpc[i] # "idle" => lock = <<i, "restore">>
    /\ qpc[i] # "idle" => lock = <<i, "queue">>

(* Whoever is past its try-lock is the thread the lock records.              *)
LEMMA HolderInvariant == Spec => []HolderInv
<1>1. Init => HolderInv
  BY DEF Init, HolderInv
<1>2. TypeOK /\ HolderInv /\ [Next]_vars => HolderInv'
  <2> SUFFICES ASSUME TypeOK, HolderInv, [Next]_vars PROVE HolderInv'
    OBVIOUS
  <2> USE ConstantsAssumption
      DEF HolderInv, TypeOK, Threads, workerVars, restoreVars, queueVars, budgets
  <2>1. ASSUME NEW i \in Instances, WorkerLock(i) PROVE HolderInv'
    BY <2>1 DEF WorkerLock, TryAcquire
  <2>2. ASSUME NEW i \in Instances, WorkerClaim(i) PROVE HolderInv'
    BY <2>2 DEF WorkerClaim
  <2>3. ASSUME NEW i \in Instances, WorkerNoClaim(i) PROVE HolderInv'
    BY <2>3 DEF WorkerNoClaim
  <2>4. ASSUME NEW i \in Instances, WorkerClaimLost(i) PROVE HolderInv'
    BY <2>4 DEF WorkerClaimLost, Interrupted
  <2>5. ASSUME NEW i \in Instances, WorkerPrepare(i) PROVE HolderInv'
    BY <2>5 DEF WorkerPrepare
  <2>6. ASSUME NEW i \in Instances, WorkerDump(i) PROVE HolderInv'
    BY <2>6 DEF WorkerDump
  <2>7. ASSUME NEW i \in Instances, WorkerPut(i) PROVE HolderInv'
    BY <2>7 DEF WorkerPut
  <2>8. ASSUME NEW i \in Instances, WorkerSucceed(i) PROVE HolderInv'
    BY <2>8 DEF WorkerSucceed, WorkerReturn
  <2>9. ASSUME NEW i \in Instances, WorkerSucceedLost(i) PROVE HolderInv'
    BY <2>9 DEF WorkerSucceedLost, WorkerReturn, Interrupted
  <2>10. ASSUME NEW i \in Instances, WorkerFail(i) PROVE HolderInv'
    BY <2>10 DEF WorkerFail, WorkerReturn
  <2>11. ASSUME NEW i \in Instances, WorkerRelease(i) PROVE HolderInv'
    BY <2>11 DEF WorkerRelease, Release
  <2>12. ASSUME NEW i \in Instances, RestoreLock(i) PROVE HolderInv'
    BY <2>12 DEF RestoreLock, TryAcquire
  <2>13. ASSUME NEW i \in Instances, RestoreCheck(i) PROVE HolderInv'
    BY <2>13 DEF RestoreCheck, RestoreGiveUp
  <2>14. ASSUME NEW i \in Instances, RestoreApply(i) PROVE HolderInv'
    BY <2>14 DEF RestoreApply, RestoreGiveUp
  <2>15. ASSUME NEW i \in Instances, RestoreFail(i) PROVE HolderInv'
    BY <2>15 DEF RestoreFail, RestoreGiveUp
  <2>16. ASSUME NEW i \in Instances, RestoreRelease(i) PROVE HolderInv'
    BY <2>16 DEF RestoreRelease, Release
  <2>17. ASSUME NEW i \in Instances, QueueLock(i) PROVE HolderInv'
    BY <2>17 DEF QueueLock, TryAcquire
  <2>18. ASSUME NEW i \in Instances, QueueCheck(i) PROVE HolderInv'
    BY <2>18 DEF QueueCheck
  <2>19. ASSUME NEW i \in Instances, QueueInsert(i) PROVE HolderInv'
    BY <2>19 DEF QueueInsert
  <2>20. ASSUME NEW i \in Instances, QueueRelease(i) PROVE HolderInv'
    BY <2>20 DEF QueueRelease, Release
  <2>21. ASSUME NEW i \in Instances, ScheduleDue(i) PROVE HolderInv'
    BY <2>21 DEF ScheduleDue
  <2>22. ASSUME NEW i \in Instances, ScheduleInsert(i) PROVE HolderInv'
    BY <2>22 DEF ScheduleInsert
  <2>23. ASSUME NEW i \in Instances, Stop(i) PROVE HolderInv'
    BY <2>23 DEF Stop
  <2>24. ASSUME NEW i \in Instances, Restart(i) PROVE HolderInv'
    BY <2>24 DEF Restart
  <2>25. ASSUME NEW i \in Instances, Crash(i) PROVE HolderInv'
    BY <2>25 DEF Crash
  <2>26. ASSUME NEW t \in Targets, UpdateTarget(t) PROVE HolderInv'
    BY <2>26 DEF UpdateTarget
  <2>27. CASE LoseSession
    BY <2>27 DEF LoseSession
  <2>28. CASE UNCHANGED vars
    BY <2>28 DEF vars
  <2> QED
    BY <2>1, <2>2, <2>3, <2>4, <2>5, <2>6, <2>7, <2>8, <2>9, <2>10, <2>11, <2>12, <2>13, <2>14,
       <2>15, <2>16, <2>17, <2>18, <2>19, <2>20, <2>21, <2>22, <2>23, <2>24, <2>25, <2>26, <2>27, <2>28
       DEF Next, Worker, Restore, Queue
<1> QED
  BY <1>1, <1>2, TypeCorrect, PTL DEF Spec

(* Dumps, restores and queueing requests of all instances exclude each other *)
(* for as long as PostgreSQL keeps the sessions of the living processes.     *)
THEOREM MutualExclusion == Spec => []OperationsExclude
<1>1. HolderInv => OperationsExclude
  BY DEF HolderInv, OperationsExclude, InOperation, Threads
<1> QED
  BY <1>1, HolderInvariant, PTL
-----------------------------------------------------------------------------
(* The lineage of the run table.  A restore may bring back any row of any    *)
(* object, so "a succeeded run has its object" has to be known of the tables *)
(* inside the objects too; and a run that is executed again overwrites its   *)
(* object, so no table that can come back may call that run succeeded.  What *)
(* holds the argument together: the outcomes recorded in an object of a      *)
(* succeeded run are still the outcomes of the table (Keeps).                *)

Keeps(a, d) ==
  \A q \in Runs : Terminal(a, q) =>
    d.state[q] = a.state[q] /\ d.sum[q] = a.sum[q]

Sound(d, s) ==
  \A r \in Runs : d.state[r] = "succeeded" =>
    /\ d.sum[r] > 0 /\ s[r].ver = d.sum[r]
    /\ s[r].db.state[r] = "running"
    /\ Keeps(s[r].db, d)

TablesSound ==
  /\ Sound(db, store)
  /\ \A r \in Runs : db.state[r] = "succeeded" => Sound(store[r].db, store)

WorkersSound ==
  \A i \in Instances :
    /\ Executing(i) => db.state[wrun[i]] = "running"
    /\ wpc[i] \in {"dumped", "stored"} =>
         /\ wdump[i].ver > 0
         /\ Sound(wdump[i].db, store)
         /\ Keeps(wdump[i].db, db)
         /\ wdump[i].db.state[wrun[i]] = "running"
    /\ wpc[i] = "stored" => store[wrun[i]] = wdump[i]

RestoresSound ==
  \A i \in Instances : rpc[i] = "checked" =>
    db.state[rrun[i]] = "succeeded" /\ rsum[i] = db.sum[rrun[i]]

Lineage    == TablesSound /\ WorkersSound /\ RestoresSound
LineageInv == losses = 0 => Lineage

\* Only the row of r differs, it was not settled and is not succeeded now.
Other(d, e, r) ==
  /\ ~Terminal(d, r) /\ e.state[r] # "succeeded"
  /\ \A q \in Runs \ {r} : e.state[q] = d.state[q] /\ e.sum[q] = d.sum[q]

(* Outcomes kept before such a change are kept after it.                     *)
LEMMA OtherKeeps ==
  ASSUME NEW a, NEW d, NEW e, NEW r \in Runs, Other(d, e, r), Keeps(a, d)
  PROVE  Keeps(a, e)
BY DEF Other, Keeps, Terminal

(* A sound table stays sound under such a change.                            *)
LEMMA OtherSound ==
  ASSUME NEW d, NEW e, NEW s, NEW r \in Runs, Other(d, e, r), Sound(d, s)
  PROVE  Sound(e, s)
BY OtherKeeps DEF Other, Sound

(* A claim is such a change.                                                 *)
LEMMA ClaimOther ==
  ASSUME NEW d \in Db, NEW r \in Runs, d.state[r] = "pending"
  PROVE  Other(d, Claimed(d, r), r) /\ Claimed(d, r).state[r] = "running"
BY DEF Other, Claimed, Terminal, Db

(* An insert is such a change.                                               *)
LEMMA InsertOther ==
  ASSUME NEW d \in Db, NEW r \in Runs, NEW n \in Nat, d.state[r] = "absent"
  PROVE  Other(d, Inserted(d, r, n), r)
BY DEF Other, Inserted, Terminal, Db

(* What settling does to the rows, field by field.                           *)
LEMMA SettleRow ==
  ASSUME NEW d \in Db, NEW r \in Runs, NEW st \in {"succeeded", "failed"}, NEW n \in Nat
  PROVE  /\ Settled(d, r, st, n).state[r] = st /\ Settled(d, r, st, n).sum[r] = n
         /\ \A q \in Runs \ {r} : /\ Settled(d, r, st, n).state[q] = d.state[q]
                                  /\ Settled(d, r, st, n).sum[q] = d.sum[q]
BY DEF Settled, Db

(* An identifier that was never handed out occurs in no table.               *)
FreshInv ==
  \A r \in Runs \ issued :
    /\ db.state[r] = "absent"
    /\ \A q \in Runs : store[q].db.state[r] = "absent"
    /\ \A i \in Instances : wdump[i].db.state[r] = "absent"

(* An insert uses up one identifier and leaves the rows of the others.       *)
LEMMA InsertFresh ==
  ASSUME NEW t \in Targets, db \in Db, InsertRun(t)
  PROVE  \A r \in Runs \ issued' : r \notin issued /\ db'.state[r] = db.state[r]
<1>1. PICK q \in Runs : db' = Inserted(db, q, clock) /\ issued' = issued \union {q}
  BY DEF InsertRun
<1>2. \A r \in Runs \ {q} : Inserted(db, q, clock).state[r] = db.state[r]
  BY DEF Inserted, Db
<1> QED
  BY <1>1, <1>2

(* The identifiers outside issued stay out of every table.                   *)
LEMMA FreshInvariant == Spec => []FreshInv
<1>1. Init => FreshInv
  BY DEF Init, FreshInv, NoObject, EmptyDb
<1>2. TypeOK /\ FreshInv /\ [Next]_vars => FreshInv'
  <2> SUFFICES ASSUME TypeOK, FreshInv, [Next]_vars PROVE FreshInv'
    OBVIOUS
  <2> USE DEF FreshInv, TypeOK, workerVars, restoreVars, queueVars, budgets
  <2>1. ASSUME NEW i \in Instances, WorkerLock(i) PROVE FreshInv'
    BY <2>1 DEF WorkerLock, TryAcquire
  <2>2. ASSUME NEW i \in Instances, WorkerClaim(i) PROVE FreshInv'
    BY <2>2 DEF WorkerClaim, OldestPending, Claimed, Db
  <2>3. ASSUME NEW i \in Instances, WorkerNoClaim(i) PROVE FreshInv'
    BY <2>3 DEF WorkerNoClaim
  <2>4. ASSUME NEW i \in Instances, WorkerClaimLost(i) PROVE FreshInv'
    BY <2>4 DEF WorkerClaimLost, OldestPending, Claimed, Db
  <2>5. ASSUME NEW i \in Instances, WorkerPrepare(i) PROVE FreshInv'
    BY <2>5 DEF WorkerPrepare
  <2>6. ASSUME NEW i \in Instances, WorkerDump(i) PROVE FreshInv'
    BY <2>6 DEF WorkerDump
  <2>7. ASSUME NEW i \in Instances, WorkerPut(i) PROVE FreshInv'
    BY <2>7 DEF WorkerPut
  <2>8. ASSUME NEW i \in Instances, WorkerSucceed(i) PROVE FreshInv'
    <3>1. wrun[i] \in Runs /\ wdump[i].ver \in Nat
      BY <2>8 DEF WorkerSucceed, Object, Executing
    <3>2. \A r \in Runs : db.state[r] = "absent" => db'.state[r] = "absent"
      BY <2>8, <3>1, SettleRow DEF WorkerSucceed, UpdateRun
    <3>3. NoObject.db.state = [r \in Runs |-> "absent"]
      BY DEF NoObject, EmptyDb
    <3> QED
      BY <2>8, <3>2, <3>3 DEF WorkerSucceed, WorkerReturn
  <2>9. ASSUME NEW i \in Instances, WorkerSucceedLost(i) PROVE FreshInv'
    <3>1. wrun[i] \in Runs /\ wdump[i].ver \in Nat
      BY <2>9 DEF WorkerSucceedLost, Object, Executing
    <3>2. \A r \in Runs : db.state[r] = "absent" => db'.state[r] = "absent"
      BY <2>9, <3>1, SettleRow DEF WorkerSucceedLost, UpdateRun
    <3>3. NoObject.db.state = [r \in Runs |-> "absent"]
      BY DEF NoObject, EmptyDb
    <3> QED
      BY <2>9, <3>2, <3>3 DEF WorkerSucceedLost, WorkerReturn
  <2>10. ASSUME NEW i \in Instances, WorkerFail(i) PROVE FreshInv'
    <3>1. wrun[i] \in Runs /\ wdump[i].ver \in Nat
      BY <2>10 DEF WorkerFail, Object, Executing
    <3>2. \A r \in Runs : db.state[r] = "absent" => db'.state[r] = "absent"
      BY <2>10, <3>1, SettleRow DEF WorkerFail, UpdateRun
    <3>3. NoObject.db.state = [r \in Runs |-> "absent"]
      BY DEF NoObject, EmptyDb
    <3> QED
      BY <2>10, <3>2, <3>3 DEF WorkerFail, WorkerReturn
  <2>11. ASSUME NEW i \in Instances, WorkerRelease(i) PROVE FreshInv'
    BY <2>11 DEF WorkerRelease, Release
  <2>12. ASSUME NEW i \in Instances, RestoreLock(i) PROVE FreshInv'
    BY <2>12 DEF RestoreLock, TryAcquire
  <2>13. ASSUME NEW i \in Instances, RestoreCheck(i) PROVE FreshInv'
    BY <2>13 DEF RestoreCheck, RestoreGiveUp
  <2>14. ASSUME NEW i \in Instances, RestoreApply(i) PROVE FreshInv'
    BY <2>14 DEF RestoreApply, RestoreGiveUp
  <2>15. ASSUME NEW i \in Instances, RestoreFail(i) PROVE FreshInv'
    BY <2>15 DEF RestoreFail, RestoreGiveUp
  <2>16. ASSUME NEW i \in Instances, RestoreRelease(i) PROVE FreshInv'
    BY <2>16 DEF RestoreRelease, Release
  <2>17. ASSUME NEW i \in Instances, QueueLock(i) PROVE FreshInv'
    BY <2>17 DEF QueueLock, TryAcquire
  <2>18. ASSUME NEW i \in Instances, QueueCheck(i) PROVE FreshInv'
    BY <2>18 DEF QueueCheck
  <2>19. ASSUME NEW i \in Instances, QueueInsert(i) PROVE FreshInv'
    <3>1. CASE InsertRun(qtgt[i])
      <4>1. qtgt[i] \in Targets /\ db \in Db
        BY <2>19 DEF QueueInsert
      <4>2. \A r \in Runs \ issued' : r \notin issued /\ db'.state[r] = db.state[r]
        BY <3>1, <4>1, InsertFresh
      <4> QED
        BY <2>19, <4>2 DEF QueueInsert
    <3>2. CASE UNCHANGED <<db, issued>>
      BY <2>19, <3>2 DEF QueueInsert
    <3> QED
      BY <2>19, <3>1, <3>2 DEF QueueInsert
  <2>20. ASSUME NEW i \in Instances, QueueRelease(i) PROVE FreshInv'
    BY <2>20 DEF QueueRelease, Release
  <2>21. ASSUME NEW i \in Instances, ScheduleDue(i) PROVE FreshInv'
    BY <2>21 DEF ScheduleDue
  <2>22. ASSUME NEW i \in Instances, ScheduleInsert(i) PROVE FreshInv'
    <3>1. CASE InsertRun(stgt[i])
      <4>1. stgt[i] \in Targets /\ db \in Db
        BY <2>22 DEF ScheduleInsert
      <4>2. \A r \in Runs \ issued' : r \notin issued /\ db'.state[r] = db.state[r]
        BY <3>1, <4>1, InsertFresh
      <4> QED
        BY <2>22, <4>2 DEF ScheduleInsert
    <3>2. CASE UNCHANGED <<db, issued>>
      BY <2>22, <3>2 DEF ScheduleInsert
    <3> QED
      BY <2>22, <3>1, <3>2 DEF ScheduleInsert
  <2>23. ASSUME NEW i \in Instances, Stop(i) PROVE FreshInv'
    BY <2>23 DEF Stop
  <2>24. ASSUME NEW i \in Instances, Restart(i) PROVE FreshInv'
    BY <2>24 DEF Restart
  <2>25. ASSUME NEW i \in Instances, Crash(i) PROVE FreshInv'
    BY <2>25 DEF Crash, NoObject, EmptyDb
  <2>26. ASSUME NEW t \in Targets, UpdateTarget(t) PROVE FreshInv'
    BY <2>26 DEF UpdateTarget, Db
  <2>27. CASE LoseSession
    BY <2>27 DEF LoseSession
  <2>28. CASE UNCHANGED vars
    BY <2>28 DEF vars
  <2> QED
    BY <2>1, <2>2, <2>3, <2>4, <2>5, <2>6, <2>7, <2>8, <2>9, <2>10, <2>11, <2>12, <2>13, <2>14,
       <2>15, <2>16, <2>17, <2>18, <2>19, <2>20, <2>21, <2>22, <2>23, <2>24, <2>25, <2>26, <2>27, <2>28
       DEF Next, Worker, Restore, Queue
<1> QED
  BY <1>1, <1>2, TypeCorrect, PTL DEF Spec

(* The lineage is inductive together with typing, the lock and freshness.    *)
LEMMA LineageInvariant == Spec => []LineageInv
<1>1. Init => LineageInv
  BY DEF Init, LineageInv, Lineage, TablesSound, WorkersSound, RestoresSound, Sound,
         EmptyDb, Executing
<1>2. TypeOK /\ HolderInv /\ FreshInv /\ LineageInv /\ [Next]_vars => LineageInv'
  <2> SUFFICES ASSUME TypeOK, HolderInv, FreshInv, LineageInv, [Next]_vars, losses' = 0
               PROVE  Lineage'
    BY DEF LineageInv
  <2> USE DEF LineageInv, TypeOK, workerVars, restoreVars, queueVars, budgets
  <2>1. ASSUME NEW i \in Instances, WorkerLock(i) PROVE Lineage'
    <3>1. Lineage
      BY <2>1 DEF WorkerLock
    <3> QED
      BY <2>1, <3>1 DEF WorkerLock, TryAcquire, Lineage, TablesSound, WorkersSound, RestoresSound, Executing
  <2>2. ASSUME NEW i \in Instances, WorkerClaim(i) PROVE Lineage'
    <3>1. Lineage
      BY <2>2 DEF WorkerClaim
    <3>2. PICK r \in Runs : db.state[r] = "pending" /\ db' = Claimed(db, r) /\ wrun' = [wrun EXCEPT ![i] = r]
      BY <2>2 DEF WorkerClaim, OldestPending
    <3>3. Other(db, db', r)
      BY <3>2, ClaimOther
    <3>4. TablesSound'
      BY <2>2, <3>1, <3>2, <3>3, OtherSound DEF WorkerClaim, Lineage, TablesSound, Other
    <3>5. WorkersSound'
      BY <2>2, <3>1, <3>2, <3>3, ClaimOther, OtherKeeps DEF WorkerClaim, Lineage, WorkersSound, Executing, Other
    <3>6. RestoresSound'
      BY <2>2, <3>1, <3>2, <3>3 DEF WorkerClaim, Lineage, RestoresSound, Other, Terminal
    <3> QED
      BY <3>4, <3>5, <3>6 DEF Lineage
  <2>3. ASSUME NEW i \in Instances, WorkerNoClaim(i) PROVE Lineage'
    <3>1. Lineage
      BY <2>3 DEF WorkerNoClaim
    <3> QED
      BY <2>3, <3>1 DEF WorkerNoClaim, Lineage, TablesSound, WorkersSound, RestoresSound, Executing
  <2>4. ASSUME NEW i \in Instances, WorkerClaimLost(i) PROVE Lineage'
    <3>1. Lineage
      BY <2>4 DEF WorkerClaimLost
    <3>2. PICK r \in Runs : db.state[r] = "pending" /\ db' = Claimed(db, r)
      BY <2>4 DEF WorkerClaimLost, OldestPending
    <3>3. Other(db, db', r)
      BY <3>2, ClaimOther
    <3>4. TablesSound'
      BY <2>4, <3>1, <3>2, <3>3, OtherSound DEF WorkerClaimLost, Lineage, TablesSound, Other
    <3>5. WorkersSound'
      BY <2>4, <3>1, <3>2, <3>3, ClaimOther, OtherKeeps DEF WorkerClaimLost, Lineage, WorkersSound, Executing, Other, Interrupted
    <3>6. RestoresSound'
      BY <2>4, <3>1, <3>2, <3>3 DEF WorkerClaimLost, Lineage, RestoresSound, Other, Terminal
    <3> QED
      BY <3>4, <3>5, <3>6 DEF Lineage
  <2>5. ASSUME NEW i \in Instances, WorkerPrepare(i) PROVE Lineage'
    <3>1. Lineage
      BY <2>5 DEF WorkerPrepare
    <3> QED
      BY <2>5, <3>1 DEF WorkerPrepare, Lineage, TablesSound, WorkersSound, RestoresSound, Executing
  <2>6. ASSUME NEW i \in Instances, WorkerDump(i) PROVE Lineage'
    <3>1. Lineage
      BY <2>6 DEF WorkerDump
    <3>2. Keeps(db, db)
      BY DEF Keeps
    <3>3. TablesSound' /\ RestoresSound'
      BY <2>6, <3>1 DEF WorkerDump, Lineage, TablesSound, RestoresSound
    <3>4. WorkersSound'
      BY <2>6, <3>1, <3>2 DEF WorkerDump, Lineage, TablesSound, WorkersSound, Executing
    <3> QED
      BY <3>3, <3>4 DEF Lineage
  <2>7. ASSUME NEW i \in Instances, WorkerPut(i) PROVE Lineage'
    <3>1. Lineage
      BY <2>7 DEF WorkerPut
    <3> DEFINE w == wrun[i]
    <3>2. /\ w \in Runs /\ db.state[w] = "running"
          /\ \A q \in Runs \ {w} : store'[q] = store[q]
          /\ store' \in [Runs -> Object]
      BY <2>7, <3>1 DEF WorkerPut, Executing, Lineage, WorkersSound
    <3>3. ASSUME NEW d, Sound(d, store), d.state[w] # "succeeded" PROVE Sound(d, store')
      BY <3>2, <3>3 DEF Sound
    <3>4. \A r \in Runs : db.state[r] = "succeeded" => store[r].db.state[w] # "succeeded"
      BY <3>1, <3>2 DEF Lineage, TablesSound, Sound, Keeps, Terminal
    <3>5. TablesSound'
      BY <2>7, <3>1, <3>2, <3>3, <3>4 DEF WorkerPut, Lineage, TablesSound
    <3>6. \A j \in Instances : wpc[j] \in {"dumped", "stored"} => j = i
      BY <2>7, ConstantsAssumption DEF WorkerPut, HolderInv
    <3>7. WorkersSound'
      BY <2>7, <3>1, <3>2, <3>3, <3>6 DEF WorkerPut, Lineage, WorkersSound, Executing
    <3> QED
      BY <2>7, <3>1, <3>5, <3>7 DEF WorkerPut, Lineage, RestoresSound
  <2>8. ASSUME NEW i \in Instances, WorkerSucceed(i) PROVE Lineage'
    <3>1. Lineage
      BY <2>8 DEF WorkerSucceed
    <3> DEFINE w == wrun[i]
    <3>2. /\ w \in Runs /\ db.state[w] = "running" /\ wdump[i].ver \in Nat
          /\ wdump[i].ver > 0 /\ store[w] = wdump[i] /\ Sound(wdump[i].db, store)
          /\ Keeps(wdump[i].db, db) /\ wdump[i].db.state[w] = "running"
      BY <2>8, <3>1 DEF WorkerSucceed, Executing, Lineage, WorkersSound, Object
    <3>3. \A j \in Instances : /\ Executing(j) => j = i
                              /\ rpc[j] # "checked"
      BY <2>8 DEF WorkerSucceed, HolderInv, Executing
    <3>4. WorkersSound' /\ RestoresSound'
      BY <2>8, <3>3 DEF WorkerSucceed, WorkerReturn, WorkersSound, RestoresSound, Executing
    <3>5. /\ db'.state[w] = "succeeded" /\ db'.sum[w] = wdump[i].ver
          /\ \A q \in Runs \ {w} : db'.state[q] = db.state[q] /\ db'.sum[q] = db.sum[q]
      BY <2>8, <3>2, SettleRow DEF WorkerSucceed, UpdateRun
    <3>6. ASSUME NEW a, Keeps(a, db) PROVE Keeps(a, db')
      BY <3>2, <3>5, <3>6 DEF Keeps, Terminal
    <3>7. Sound(db', store)
      BY <3>1, <3>2, <3>5, <3>6 DEF Lineage, TablesSound, Sound
    <3>8. TablesSound'
      BY <2>8, <3>1, <3>2, <3>5, <3>7 DEF WorkerSucceed, Lineage, TablesSound
    <3> QED
      BY <3>4, <3>8 DEF Lineage
  <2>9. ASSUME NEW i \in Instances, WorkerSucceedLost(i) PROVE Lineage'
    <3>1. Lineage
      BY <2>9 DEF WorkerSucceedLost
    <3> DEFINE w == wrun[i]
    <3>2. /\ w \in Runs /\ db.state[w] = "running" /\ wdump[i].ver \in Nat
          /\ wdump[i].ver > 0 /\ store[w] = wdump[i] /\ Sound(wdump[i].db, store)
          /\ Keeps(wdump[i].db, db) /\ wdump[i].db.state[w] = "running"
      BY <2>9, <3>1 DEF WorkerSucceedLost, Executing, Lineage, WorkersSound, Object
    <3>3. \A j \in Instances : /\ Executing(j) => j = i
                              /\ rpc[j] # "checked"
      BY <2>9 DEF WorkerSucceedLost, HolderInv, Executing
    <3>4. WorkersSound' /\ RestoresSound'
      BY <2>9, <3>3 DEF WorkerSucceedLost, WorkerReturn, WorkersSound, RestoresSound, Executing
    <3>a. CASE UNCHANGED db
      BY <2>9, <3>1, <3>4, <3>a DEF WorkerSucceedLost, Lineage, TablesSound
    <3>b. SUFFICES ASSUME db' = Settled(db, w, "succeeded", wdump[i].ver) PROVE Lineage'
      BY <2>9, <3>a DEF WorkerSucceedLost, UpdateRun
    <3>5. /\ db'.state[w] = "succeeded" /\ db'.sum[w] = wdump[i].ver
          /\ \A q \in Runs \ {w} : db'.state[q] = db.state[q] /\ db'.sum[q] = db.sum[q]
      BY <3>2, <3>b, SettleRow
    <3>6. ASSUME NEW a, Keeps(a, db) PROVE Keeps(a, db')
      BY <3>2, <3>5, <3>6 DEF Keeps, Terminal
    <3>7. Sound(db', store)
      BY <3>1, <3>2, <3>5, <3>6 DEF Lineage, TablesSound, Sound
    <3>8. TablesSound'
      BY <2>9, <3>1, <3>2, <3>5, <3>7 DEF WorkerSucceedLost, Lineage, TablesSound
    <3> QED
      BY <3>4, <3>8 DEF Lineage
  <2>10. ASSUME NEW i \in Instances, WorkerFail(i) PROVE Lineage'
    <3>1. Lineage
      BY <2>10 DEF WorkerFail
    <3> DEFINE w == wrun[i]
    <3>2. w \in Runs /\ db.state[w] = "running"
      BY <2>10, <3>1 DEF WorkerFail, Executing, Lineage, WorkersSound
    <3>3. \A j \in Instances : /\ Executing(j) => j = i
                              /\ rpc[j] # "checked"
      BY <2>10 DEF WorkerFail, HolderInv, Executing
    <3>4. WorkersSound' /\ RestoresSound'
      BY <2>10, <3>3 DEF WorkerFail, WorkerReturn, WorkersSound, RestoresSound, Executing
    <3>a. CASE UNCHANGED db
      BY <2>10, <3>1, <3>4, <3>a DEF WorkerFail, Lineage, TablesSound
    <3>b. SUFFICES ASSUME db' = Settled(db, w, "failed", 0) PROVE Lineage'
      BY <2>10, <3>a DEF WorkerFail, UpdateRun
    <3>5. Other(db, db', w)
      BY <3>2, <3>b, SettleRow DEF Other, Terminal
    <3>6. TablesSound'
      BY <2>10, <3>1, <3>2, <3>5, OtherSound DEF WorkerFail, Lineage, TablesSound, Other
    <3> QED
      BY <3>4, <3>6 DEF Lineage
  <2>11. ASSUME NEW i \in Instances, WorkerRelease(i) PROVE Lineage'
    <3>1. Lineage
      BY <2>11 DEF WorkerRelease
    <3> QED
      BY <2>11, <3>1 DEF WorkerRelease, Release, Lineage, TablesSound, WorkersSound, RestoresSound, Executing
  <2>12. ASSUME NEW i \in Instances, RestoreLock(i) PROVE Lineage'
    <3>1. Lineage
      BY <2>12 DEF RestoreLock
    <3> QED
      BY <2>12, <3>1 DEF RestoreLock, TryAcquire, Lineage, TablesSound, WorkersSound, RestoresSound, Executing
  <2>13. ASSUME NEW i \in Instances, RestoreCheck(i) PROVE Lineage'
    <3>1. Lineage
      BY <2>13 DEF RestoreCheck
    <3> QED
      BY <2>13, <3>1 DEF RestoreCheck, RestoreGiveUp, Lineage, TablesSound, WorkersSound, RestoresSound, Executing
  <2>14. ASSUME NEW i \in Instances, RestoreApply(i) PROVE Lineage'
    <3>1. Lineage
      BY <2>14 DEF RestoreApply
    <3> DEFINE r == rrun[i]
    <3>2. r \in Runs /\ db.state[r] = "succeeded" /\ Sound(store[r].db, store)
          /\ Keeps(store[r].db, db)
      BY <2>14, <3>1 DEF RestoreApply, Lineage, TablesSound, RestoresSound, Sound
    <3>3. \A j \in Instances : ~Executing(j) /\ (rpc[j] = "checked" => j = i)
      BY <2>14 DEF RestoreApply, HolderInv, Executing
    <3>4. WorkersSound' /\ RestoresSound'
      BY <2>14, <3>3 DEF RestoreApply, RestoreGiveUp, WorkersSound, RestoresSound, Executing
    <3>5. \A q \in Runs : db'.state[q] = "succeeded" => db.state[q] = "succeeded"
      BY <2>14, <3>2 DEF RestoreApply, Keeps, Terminal
    <3>6. TablesSound'
      BY <2>14, <3>1, <3>2, <3>5 DEF RestoreApply, Lineage, TablesSound
    <3> QED
      BY <3>4, <3>6 DEF Lineage
  <2>15. ASSUME NEW i \in Instances, RestoreFail(i) PROVE Lineage'
    <3>1. Lineage
      BY <2>15 DEF RestoreFail
    <3> QED
      BY <2>15, <3>1 DEF RestoreFail, RestoreGiveUp, Lineage, TablesSound, WorkersSound, RestoresSound, Executing
  <2>16. ASSUME NEW i \in Instances, RestoreRelease(i) PROVE Lineage'
    <3>1. Lineage
      BY <2>16 DEF RestoreRelease
    <3> QED
      BY <2>16, <3>1 DEF RestoreRelease, Release, Lineage, TablesSound, WorkersSound, RestoresSound, Executing
  <2>17. ASSUME NEW i \in Instances, QueueLock(i) PROVE Lineage'
    <3>1. Lineage
      BY <2>17 DEF QueueLock
    <3> QED
      BY <2>17, <3>1 DEF QueueLock, TryAcquire, Lineage, TablesSound, WorkersSound, RestoresSound, Executing
  <2>18. ASSUME NEW i \in Instances, QueueCheck(i) PROVE Lineage'
    <3>1. Lineage
      BY <2>18 DEF QueueCheck
    <3> QED
      BY <2>18, <3>1 DEF QueueCheck, Lineage, TablesSound, WorkersSound, RestoresSound, Executing
  <2>19. ASSUME NEW i \in Instances, QueueInsert(i) PROVE Lineage'
    <3>1. Lineage
      BY <2>19 DEF QueueInsert
    <3>a. CASE UNCHANGED db
      BY <2>19, <3>1, <3>a DEF QueueInsert, Lineage, TablesSound, WorkersSound, RestoresSound, Executing
    <3>b. SUFFICES ASSUME db' # db PROVE Lineage'
      BY <3>a
    <3>2. PICK r \in Runs : db.state[r] = "absent" /\ db' = Inserted(db, r, clock)
      BY <2>19, <3>b DEF QueueInsert, InsertRun, FreshInv
    <3>3. Other(db, db', r)
      BY <3>2, InsertOther
    <3>4. TablesSound'
      BY <2>19, <3>1, <3>2, <3>3, OtherSound DEF QueueInsert, Lineage, TablesSound, Other
    <3>5. WorkersSound'
      BY <2>19, <3>1, <3>2, <3>3, InsertOther, OtherKeeps DEF QueueInsert, Lineage, WorkersSound, Executing, Other
    <3>6. RestoresSound'
      BY <2>19, <3>1, <3>2, <3>3 DEF QueueInsert, Lineage, RestoresSound, Other, Terminal
    <3> QED
      BY <3>4, <3>5, <3>6 DEF Lineage
  <2>20. ASSUME NEW i \in Instances, QueueRelease(i) PROVE Lineage'
    <3>1. Lineage
      BY <2>20 DEF QueueRelease
    <3> QED
      BY <2>20, <3>1 DEF QueueRelease, Release, Lineage, TablesSound, WorkersSound, RestoresSound, Executing
  <2>21. ASSUME NEW i \in Instances, ScheduleDue(i) PROVE Lineage'
    <3>1. Lineage
      BY <2>21 DEF ScheduleDue
    <3> QED
      BY <2>21, <3>1 DEF ScheduleDue, Lineage, TablesSound, WorkersSound, RestoresSound, Executing
  <2>22. ASSUME NEW i \in Instances, ScheduleInsert(i) PROVE Lineage'
    <3>1. Lineage
      BY <2>22 DEF ScheduleInsert
    <3>a. CASE UNCHANGED db
      BY <2>22, <3>1, <3>a DEF ScheduleInsert, Lineage, TablesSound, WorkersSound, RestoresSound, Executing
    <3>b. SUFFICES ASSUME db' # db PROVE Lineage'
      BY <3>a
    <3>2. PICK r \in Runs : db.state[r] = "absent" /\ db' = Inserted(db, r, clock)
      BY <2>22, <3>b DEF ScheduleInsert, InsertRun, FreshInv
    <3>3. Other(db, db', r)
      BY <3>2, InsertOther
    <3>4. TablesSound'
      BY <2>22, <3>1, <3>2, <3>3, OtherSound DEF ScheduleInsert, Lineage, TablesSound, Other
    <3>5. WorkersSound'
      BY <2>22, <3>1, <3>2, <3>3, InsertOther, OtherKeeps DEF ScheduleInsert, Lineage, WorkersSound, Executing, Other
    <3>6. RestoresSound'
      BY <2>22, <3>1, <3>2, <3>3 DEF ScheduleInsert, Lineage, RestoresSound, Other, Terminal
    <3> QED
      BY <3>4, <3>5, <3>6 DEF Lineage
  <2>23. ASSUME NEW i \in Instances, Stop(i) PROVE Lineage'
    <3>1. Lineage
      BY <2>23 DEF Stop
    <3> QED
      BY <2>23, <3>1 DEF Stop, Lineage, TablesSound, WorkersSound, RestoresSound, Executing
  <2>24. ASSUME NEW i \in Instances, Restart(i) PROVE Lineage'
    <3>1. Lineage
      BY <2>24 DEF Restart
    <3> QED
      BY <2>24, <3>1 DEF Restart, Lineage, TablesSound, WorkersSound, RestoresSound, Executing
  <2>25. ASSUME NEW i \in Instances, Crash(i) PROVE Lineage'
    <3>1. Lineage
      BY <2>25 DEF Crash
    <3> QED
      BY <2>25, <3>1 DEF Crash, Lineage, TablesSound, WorkersSound, RestoresSound, Executing
  <2>26. ASSUME NEW t \in Targets, UpdateTarget(t) PROVE Lineage'
    <3>1. Lineage
      BY <2>26 DEF UpdateTarget
    <3>2. db'.state = db.state /\ db'.sum = db.sum
      BY <2>26 DEF UpdateTarget, Db
    <3> QED
      BY <2>26, <3>1, <3>2 DEF UpdateTarget, Lineage, TablesSound, WorkersSound,
         RestoresSound, Executing, Sound, Keeps, Terminal
  <2>27. CASE LoseSession
    BY <2>27 DEF LoseSession
  <2>28. CASE UNCHANGED vars
    BY <2>28 DEF vars, Lineage, TablesSound, WorkersSound, RestoresSound, Executing
  <2> QED
    BY <2>1, <2>2, <2>3, <2>4, <2>5, <2>6, <2>7, <2>8, <2>9, <2>10, <2>11, <2>12, <2>13, <2>14,
       <2>15, <2>16, <2>17, <2>18, <2>19, <2>20, <2>21, <2>22, <2>23, <2>24, <2>25, <2>26, <2>27, <2>28
       DEF Next, Worker, Restore, Queue
<1> QED
  BY <1>1, <1>2, TypeCorrect, HolderInvariant, FreshInvariant, PTL DEF Spec

(* While a worker is at work on a run, the row of the run says running.      *)
THEOREM ExecutedRunStaysRunning == Spec => []ExecutedRunIsRunning
<1>1. LineageInv => ExecutedRunIsRunning
  BY DEF LineageInv, Lineage, WorkersSound, ExecutedRunIsRunning
<1> QED
  BY <1>1, LineageInvariant, PTL

(* A run recorded as succeeded can be restored: its object is there and has  *)
(* the recorded checksum, through any sequence of restores and re-executions.*)
THEOREM SucceededRestorable == Spec => []SucceededRunIsRestorable
<1>1. LineageInv => SucceededRunIsRestorable
  BY DEF LineageInv, Lineage, TablesSound, Sound, SucceededRunIsRestorable
<1> QED
  BY <1>1, LineageInvariant, PTL
(* Nothing but a restore changes a recorded outcome: the rows a worker        *)
(* overwrites without looking at them are still running, and claims and       *)
(* inserts touch pending and unused identifiers only.                         *)
THEOREM OutcomesStay == Spec => SettledRunsStay
<1> DEFINE Kept == \A r \in Runs : Terminal(db, r) =>
                     db'.state[r] = db.state[r] /\ db'.sum[r] = db.sum[r]
<1>1. TypeOK /\ FreshInv /\ LineageInv /\ [Next]_vars =>
        [losses = 0 =>
           \/ \E i \in Instances : RestoreApply(i)
           \/ \A r \in Runs : Terminal(db, r) =>
                db'.state[r] = db.state[r] /\ db'.sum[r] = db.sum[r]]_vars
  <2> SUFFICES ASSUME TypeOK, FreshInv, LineageInv, Next, losses = 0
               PROVE  (\E i \in Instances : RestoreApply(i)) \/ Kept
    OBVIOUS
  <2>0. WorkersSound
    BY DEF LineageInv, Lineage
  <2>1. db' = db => Kept
    OBVIOUS
  <2>2. ASSUME NEW r \in Runs, ~Terminal(db, r),
               \A q \in Runs \ {r} : db'.state[q] = db.state[q] /\ db'.sum[q] = db.sum[q]
        PROVE  Kept
    BY <2>2
  <2>3. ASSUME NEW t \in Targets, InsertRun(t) PROVE Kept
    <3>1. PICK r \in Runs : r \notin issued /\ db' = Inserted(db, r, clock)
      BY <2>3 DEF InsertRun
    <3>2. Other(db, db', r)
      BY <3>1, InsertOther DEF FreshInv, TypeOK
    <3> QED
      BY <3>2, <2>2 DEF Other
  <2>4. ASSUME NEW r \in Runs, OldestPending(r), db' = Claimed(db, r) PROVE Kept
    <3>1. Other(db, db', r)
      BY <2>4, ClaimOther DEF OldestPending, TypeOK
    <3> QED
      BY <3>1, <2>2 DEF Other
  <2>5. ASSUME NEW i \in Instances, Executing(i), NEW st \in {"succeeded", "failed"},
               NEW n \in Nat, UpdateRun(wrun[i], st, n)
        PROVE  Kept
    <3>1. wrun[i] \in Runs /\ ~Terminal(db, wrun[i])
      BY <2>5, <2>0 DEF WorkersSound, TypeOK, Terminal
    <3>2. db' = Settled(db, wrun[i], st, n) \/ db' = db
      BY <2>5 DEF UpdateRun
    <3>3. CASE db' = Settled(db, wrun[i], st, n)
      <4>1. \A q \in Runs \ {wrun[i]} :
              db'.state[q] = db.state[q] /\ db'.sum[q] = db.sum[q]
        BY <3>1, <3>3, SettleRow DEF TypeOK
      <4> QED
        BY <3>1, <4>1, <2>2
    <3> QED
      BY <3>2, <3>3, <2>1
  <2>6. CASE \E i \in Instances : Worker(i)
    <3> SUFFICES ASSUME NEW i \in Instances, Worker(i) PROVE Kept
      BY <2>6
    <3>1. CASE WorkerClaim(i) \/ WorkerClaimLost(i)
      BY <3>1, <2>4 DEF WorkerClaim, WorkerClaimLost
    <3>2. CASE WorkerSucceed(i) \/ WorkerSucceedLost(i) \/ WorkerFail(i)
      <4>1. wdump[i].ver \in Nat
        BY DEF TypeOK, Object
      <4> QED
        BY <3>2, <4>1, <2>1, <2>5
           DEF WorkerSucceed, WorkerSucceedLost, WorkerFail, Executing
    <3>3. CASE \/ WorkerLock(i) \/ WorkerNoClaim(i) \/ WorkerPrepare(i) \/ WorkerDump(i)
               \/ WorkerPut(i) \/ WorkerRelease(i)
      BY <3>3, <2>1 DEF WorkerLock, WorkerNoClaim, WorkerPrepare, WorkerDump, WorkerPut,
                        WorkerRelease
    <3> QED
      BY <3>1, <3>2, <3>3 DEF Worker
  <2>7. CASE \E i \in Instances : Restore(i)
    BY <2>7, <2>1 DEF Restore, RestoreLock, RestoreCheck, RestoreFail, RestoreRelease
  <2>8. CASE \E i \in Instances : Queue(i) \/ ScheduleDue(i) \/ ScheduleInsert(i)
    <3> SUFFICES ASSUME NEW i \in Instances, Queue(i) \/ ScheduleDue(i) \/ ScheduleInsert(i)
                 PROVE  Kept
      BY <2>8
    <3>1. CASE QueueInsert(i)
      <4>1. qtgt[i] \in Targets
        BY <3>1 DEF QueueInsert, TypeOK
      <4> QED
        BY <3>1, <4>1, <2>1, <2>3 DEF QueueInsert
    <3>2. CASE ScheduleInsert(i)
      <4>1. stgt[i] \in Targets
        BY <3>2 DEF ScheduleInsert, TypeOK
      <4> QED
        BY <3>2, <4>1, <2>1, <2>3 DEF ScheduleInsert
    <3>3. CASE QueueLock(i) \/ QueueCheck(i) \/ QueueRelease(i) \/ ScheduleDue(i)
      BY <3>3, <2>1 DEF QueueLock, QueueCheck, QueueRelease, ScheduleDue
    <3> QED
      BY <3>1, <3>2, <3>3 DEF Queue
  <2>9. CASE \E i \in Instances : Stop(i) \/ Restart(i) \/ Crash(i)
    BY <2>9, <2>1 DEF Stop, Restart, Crash
  <2>10. CASE \E t \in Targets : UpdateTarget(t)
    BY <2>10 DEF UpdateTarget, TypeOK, Db
  <2>11. CASE LoseSession
    BY <2>11, <2>1 DEF LoseSession
  <2> QED
    BY <2>6, <2>7, <2>8, <2>9, <2>10, <2>11 DEF Next
<1> QED
  BY <1>1, TypeCorrect, FreshInvariant, LineageInvariant, PTL DEF Spec, SettledRunsStay

(* A committed restore leaves the run it restores from running, while no      *)
(* worker of any instance executes anything.                                  *)
THEOREM RestoreReopens == Spec => RestoreReopensItsRun
<1>1. TypeOK /\ HolderInv /\ LineageInv /\ losses = 0 =>
        \A i \in Instances : RestoreApply(i) =>
          /\ db'.state[rrun[i]] = "running"
          /\ \A j \in Instances : ~Executing(j)
  <2> SUFFICES ASSUME TypeOK, HolderInv, LineageInv, losses = 0,
                      NEW i \in Instances, RestoreApply(i)
               PROVE  /\ db'.state[rrun[i]] = "running"
                      /\ \A j \in Instances : ~Executing(j)
    OBVIOUS
  <2>1. rpc[i] = "checked" /\ rrun[i] \in Runs /\ db' = store[rrun[i]].db
    BY DEF RestoreApply, TypeOK
  <2>2. db.state[rrun[i]] = "succeeded"
    BY <2>1 DEF LineageInv, Lineage, RestoresSound
  <2>3. store[rrun[i]].db.state[rrun[i]] = "running"
    BY <2>1, <2>2 DEF LineageInv, Lineage, TablesSound, Sound
  <2>4. lock = <<i, "restore">>
    BY <2>1 DEF HolderInv
  <2>5. \A j \in Instances : ~Executing(j)
    BY <2>4 DEF HolderInv, Executing
  <2> QED
    BY <2>1, <2>3, <2>5
<1> QED
  BY <1>1, TypeCorrect, HolderInvariant, LineageInvariant, PTL DEF RestoreReopensItsRun
-----------------------------------------------------------------------------
(* A claimed run is not forgotten.  Without faults no context is cancelled,   *)
(* so a claim and the statement that settles a run reach the worker; and the  *)
(* worker that settles a run is the only one at work on it.                   *)

InHands(r) == \E i \in Instances : Executing(i) /\ wrun[i] = r

Attended ==
  /\ \A i \in Instances : ~stopping[i]
  /\ \A r \in Runs : db.state[r] = "running" => InHands(r)

AttendedInv == ~Disturbed => Attended

(* A run stays in the hands of the worker that executes it when neither the   *)
(* phase nor the run of a worker changes for the worse, and no row becomes    *)
(* running.                                                                   *)
LEMMA HandsKept ==
  ASSUME Attended, stopping' = stopping,
         \A r \in Runs : db'.state[r] = "running" => db.state[r] = "running",
         \A i \in Instances : Executing(i) => Executing(i)' /\ wrun'[i] = wrun[i]
  PROVE  Attended'
BY DEF Attended, InHands

(* A worker that returns leaves no running run behind: the row of its run is  *)
(* settled, and no other worker is at work.                                   *)
LEMMA HandsEmptied ==
  ASSUME TypeOK, Attended, NEW i \in Instances, Executing(i), stopping' = stopping,
         \A j \in Instances : Executing(j) => j = i,
         NEW st \in {"succeeded", "failed"}, NEW n \in Nat,
         db.state[wrun[i]] = "running", UpdateRun(wrun[i], st, n)
  PROVE  Attended'
<1>1. wrun[i] \in Runs /\ db \in Db
  BY DEF TypeOK
<1>2. db' = Settled(db, wrun[i], st, n)
  BY DEF UpdateRun
<1>3. \A r \in Runs : db'.state[r] # "running"
  <2> SUFFICES ASSUME NEW r \in Runs, db'.state[r] = "running" PROVE FALSE
    OBVIOUS
  <2>1. r # wrun[i]
    BY <1>1, <1>2, SettleRow
  <2>2. db.state[r] = "running"
    BY <1>1, <1>2, <2>1, SettleRow
  <2> QED
    BY <2>1, <2>2 DEF Attended, InHands
<1> QED
  BY <1>3 DEF Attended

(* Until the first fault or restore every running run is in the hands of a    *)
(* worker.                                                                    *)
LEMMA AttendedInvariant == Spec => []AttendedInv
<1>1. Init => AttendedInv
  BY DEF Init, AttendedInv, Attended, EmptyDb
<1>2. TypeOK /\ HolderInv /\ LineageInv /\ FreshInv /\ AttendedInv /\ [Next]_vars => AttendedInv'
  <2> SUFFICES ASSUME TypeOK, HolderInv, LineageInv, FreshInv, AttendedInv, [Next]_vars, ~Disturbed'
               PROVE  Attended'
    BY DEF AttendedInv
  <2> USE DEF workerVars, restoreVars, queueVars, budgets
  <2>1. ~Disturbed /\ Attended /\ losses = 0
    <3>1. ASSUME NEW i \in Instances, Worker(i) PROVE ~Disturbed
      BY <3>1 DEF Worker, WorkerLock, WorkerClaim, WorkerNoClaim, WorkerClaimLost, WorkerPrepare,
                  WorkerDump, WorkerPut, WorkerSucceed, WorkerSucceedLost, WorkerFail, WorkerRelease,
                  Interrupted, Disturbed, TypeOK
    <3>2. ASSUME NEW i \in Instances, Restore(i) \/ Queue(i) \/ ScheduleDue(i) \/ ScheduleInsert(i)
          PROVE  ~Disturbed
      BY <3>2 DEF Restore, RestoreLock, RestoreCheck, RestoreApply, RestoreFail, RestoreRelease,
                  Queue, QueueLock, QueueCheck, QueueInsert, QueueRelease, ScheduleDue,
                  ScheduleInsert, Disturbed, TypeOK
    <3>3. ASSUME NEW i \in Instances, Stop(i) \/ Restart(i) \/ Crash(i) PROVE ~Disturbed
      BY <3>3 DEF Stop, Restart, Crash, Disturbed, TypeOK
    <3>4. ASSUME (\E t \in Targets : UpdateTarget(t)) \/ LoseSession \/ UNCHANGED vars
          PROVE  ~Disturbed
      BY <3>4 DEF UpdateTarget, LoseSession, vars, Disturbed, TypeOK
    <3>5. ~Disturbed
      BY <3>1, <3>2, <3>3, <3>4 DEF Next
    <3> QED
      BY <3>5 DEF AttendedInv, Disturbed, TypeOK
  <2>2. \A i, j \in Instances : Executing(i) /\ Executing(j) => i = j
    BY <2>1 DEF HolderInv, Executing
  <2>3. \A i \in Instances : Executing(i) => db.state[wrun[i]] = "running"
    BY <2>1 DEF LineageInv, Lineage, WorkersSound
  <2>4. \A i \in Instances : ~WorkerClaimLost(i) /\ ~WorkerSucceedLost(i)
    BY <2>1 DEF WorkerClaimLost, WorkerSucceedLost, Interrupted, Attended, Disturbed, TypeOK
  <2>5. ASSUME NEW i \in Instances, WorkerClaim(i) PROVE Attended'
    <3>1. PICK r \in Runs : OldestPending(r) /\ db' = Claimed(db, r) /\ wrun' = [wrun EXCEPT ![i] = r]
      BY <2>5 DEF WorkerClaim
    <3>2. Executing(i)' /\ wrun'[i] = r /\ ~Executing(i)
      BY <2>5, <3>1 DEF WorkerClaim, Executing, TypeOK
    <3>3. \A j \in Instances \ {i} : Executing(j) => Executing(j)' /\ wrun'[j] = wrun[j]
      BY <2>5, <3>1 DEF WorkerClaim, Executing, TypeOK
    <3>4. \A q \in Runs \ {r} : db'.state[q] = db.state[q]
      BY <3>1 DEF Claimed, TypeOK, Db
    <3> QED
      BY <2>1, <2>5, <3>2, <3>3, <3>4 DEF Attended, InHands, WorkerClaim
  <2>6. ASSUME NEW i \in Instances, WorkerSucceed(i) PROVE Attended'
    <3>1. Executing(i) /\ wdump[i].ver \in Nat
      BY <2>6 DEF WorkerSucceed, Executing, TypeOK, Object
    <3> QED
      BY <2>1, <2>2, <2>3, <2>6, <3>1, HandsEmptied DEF WorkerSucceed
  <2>7. ASSUME NEW i \in Instances, WorkerFail(i) PROVE Attended'
    <3>1. Executing(i)
      BY <2>7 DEF WorkerFail, Executing
    <3>2. errors' = errors
      BY <2>1, <2>7 DEF WorkerFail, Disturbed, TypeOK
    <3>3. UpdateRun(wrun[i], "failed", 0)
      BY <2>7, <3>2 DEF WorkerFail, TypeOK
    <3> QED
      BY <2>1, <2>2, <2>3, <2>7, <3>1, <3>3, HandsEmptied DEF WorkerFail
  <2>8. ASSUME NEW i \in Instances,
               \/ WorkerLock(i) \/ WorkerNoClaim(i) \/ WorkerPrepare(i) \/ WorkerDump(i)
               \/ WorkerPut(i) \/ WorkerRelease(i)
        PROVE  Attended'
    <3>1. db' = db /\ stopping' = stopping /\ wrun' = wrun
      BY <2>8 DEF WorkerLock, WorkerNoClaim, WorkerPrepare, WorkerDump, WorkerPut, WorkerRelease
    <3>2. \A j \in Instances : Executing(j) => Executing(j)'
      BY <2>8 DEF WorkerLock, WorkerNoClaim, WorkerPrepare, WorkerDump, WorkerPut, WorkerRelease,
                  Executing, TypeOK
    <3> QED
      BY <2>1, <3>1, <3>2, HandsKept
  <2>9. ASSUME NEW i \in Instances, Worker(i) PROVE Attended'
    BY <2>4, <2>5, <2>6, <2>7, <2>8, <2>9 DEF Worker
  <2>10. ASSUME NEW t \in Targets, InsertRun(t), stopping' = stopping, UNCHANGED workerVars PROVE Attended'
    <3>1. PICK r \in Runs : r \notin issued /\ db' = Inserted(db, r, clock)
      BY <2>10 DEF InsertRun
    <3>2. \A q \in Runs : db'.state[q] = "running" => db.state[q] = "running"
      BY <3>1 DEF Inserted, TypeOK, Db
    <3> QED
      BY <2>1, <2>10, <3>2, HandsKept DEF Executing
  <2>11. ASSUME UNCHANGED <<db, stopping, workerVars>> PROVE Attended'
    BY <2>1, <2>11, HandsKept DEF Executing
  <2>12. ASSUME NEW i \in Instances, Restore(i) PROVE Attended'
    <3>1. ~RestoreApply(i)
      BY <2>1 DEF RestoreApply, Disturbed, TypeOK
    <3> QED
      BY <2>11, <2>12, <3>1 DEF Restore, RestoreLock, RestoreCheck, RestoreFail, RestoreRelease
  <2>13. ASSUME NEW i \in Instances, Queue(i) \/ ScheduleDue(i) \/ ScheduleInsert(i) PROVE Attended'
    <3>1. CASE QueueInsert(i)
      BY <2>10, <2>11, <3>1 DEF QueueInsert, TypeOK
    <3>2. CASE ScheduleInsert(i)
      BY <2>10, <2>11, <3>2 DEF ScheduleInsert, TypeOK
    <3> QED
      BY <2>11, <2>13, <3>1, <3>2 DEF Queue, QueueLock, QueueCheck, QueueRelease, ScheduleDue
  <2>14. ASSUME NEW i \in Instances, Stop(i) \/ Restart(i) \/ Crash(i) PROVE Attended'
    <3>1. ~Stop(i) /\ ~Restart(i) /\ ~Crash(i)
      BY <2>1 DEF Stop, Restart, Crash, Disturbed, Attended, TypeOK
    <3> QED
      BY <2>14, <3>1
  <2>15. ASSUME NEW t \in Targets, UpdateTarget(t) PROVE Attended'
    <3>1. db'.state = db.state
      BY <2>15 DEF UpdateTarget, TypeOK, Db
    <3> QED
      BY <2>1, <2>15, <3>1, HandsKept DEF UpdateTarget, Executing
  <2>16. CASE LoseSession
    BY <2>11, <2>16 DEF LoseSession
  <2>17. CASE UNCHANGED vars
    BY <2>11, <2>17 DEF vars
  <2> QED
    BY <2>9, <2>12, <2>13, <2>14, <2>15, <2>16, <2>17 DEF Next
<1> QED
  BY <1>1, <1>2, TypeCorrect, HolderInvariant, LineageInvariant, FreshInvariant, PTL DEF Spec

(* A run that says running is being executed, as long as nothing failed, was  *)
(* shut down or was restored: its target is not blocked by a row nobody will  *)
(* ever settle.                                                               *)
THEOREM RunningIsAttended == Spec => []RunningRunHasWorker
<1>1. AttendedInv => RunningRunHasWorker
  BY DEF AttendedInv, Attended, InHands, RunningRunHasWorker
<1> QED
  BY <1>1, AttendedInvariant, PTL
=============================================================================
