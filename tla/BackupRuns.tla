----------------------------- MODULE BackupRuns -----------------------------
(***************************************************************************)
(* The life of a backup run: it is queued by a request or by the           *)
(* scheduler, claimed by the backup worker of some server instance, dumped,*)
(* uploaded and settled; and a stored snapshot can be restored over the    *)
(* database that holds the run table itself.                               *)
(*                                                                         *)
(* Every server instance has a worker, a scheduler, at most one restore    *)
(* goroutine and queueing requests.  All instances share the database (db),*)
(* the object store (store) and one session-level advisory lock (lock).    *)
(* A statement or a transaction is one step; what happens between two      *)
(* statements of the code is a separate step, so the instances interleave  *)
(* there.  Faults: shutdown (the runtime context is cancelled), process    *)
(* crash, a database statement whose reply is an error, and the loss of    *)
(* the session that carries the advisory lock.                             *)
(***************************************************************************)
EXTENDS Integers

CONSTANTS
  Instances,   \* server processes sharing one database
  Targets,     \* rows of backup_targets
  Runs,        \* run identifiers domain.NewRandomID can return
  TargetOf,    \* the target a run identifier is used for
  NoRun, NoTarget, NoThread,
  MaxDumps,    \* bound on successful pg_dump commands
  MaxFaults    \* bound on committed pg_restore commands, shutdowns, crashes,
               \* failed statements and lost lock sessions together

ASSUME ConstantsAssumption ==
  /\ TargetOf \in [Runs -> Targets]
  /\ NoRun \notin Runs
  /\ NoTarget \notin Targets
  /\ NoThread \notin Instances \X {"worker", "restore", "queue"}
  /\ MaxDumps \in Nat /\ MaxFaults \in Nat

VARIABLES
  db,        \* the run table and the enabled flag of each target
  store,     \* the object stored for each run; version 0: no object
  issued,    \* run identifiers handed out so far
  clock,     \* created_at of the next run
  lock,      \* the thread whose session holds the advisory lock
  wpc, wrun, wdump,   \* the worker of each instance
  rpc, rrun, rsum,    \* the restore goroutine of each instance
  qpc, qtgt,          \* the queueing request of each instance
  stgt,               \* the target the scheduler of each instance found due
  stopping,           \* the runtime context of the instance is cancelled
  dumps, restores, stops, crashes, errors, losses   \* counters of the bounded steps

workerVars  == <<wpc, wrun, wdump>>
restoreVars == <<rpc, rrun, rsum>>
queueVars   == <<qpc, qtgt>>
budgets     == <<dumps, restores, stops, crashes, errors, losses>>
vars == <<db, store, issued, clock, lock, workerVars, restoreVars, queueVars,
          stgt, stopping, budgets>>

Faults == restores + stops + crashes + errors + losses

-----------------------------------------------------------------------------
(* The database and the object store.                                      *)

RunStates == {"absent", "pending", "running", "succeeded", "failed"}

\* The part of the database pg_dump and pg_restore copy that matters here.
\* sum is the checksum of the object a run recorded; two dumps never have the
\* same checksum, so the version of the dump stands for it (0: none).
Db == [state   : [Runs -> RunStates],
       created : [Runs -> Nat],
       sum     : [Runs -> Nat],
       enabled : [Targets -> BOOLEAN]]

Object == [ver : Nat, db : Db]

EmptyDb == [state   |-> [r \in Runs |-> "absent"],
            created |-> [r \in Runs |-> 0],
            sum     |-> [r \in Runs |-> 0],
            enabled |-> [t \in Targets |-> TRUE]]

NoObject == [ver |-> 0, db |-> EmptyDb]

Active(d, r)    == d.state[r] \in {"pending", "running"}
Terminal(d, r)  == d.state[r] \in {"succeeded", "failed"}
HasActive(d, t) == \E r \in Runs : TargetOf[r] = t /\ Active(d, r)

Threads == Instances \X {"worker", "restore", "queue"}

WorkerPcs  == {"idle", "locked", "claimed", "ready", "dumped", "stored",
               "failing", "release"}
RestorePcs == {"idle", "locked", "checked", "release"}
QueuePcs   == {"idle", "locked", "checked", "release"}

\* The worker between its claim and the last statement about its run.
Executing(i) == wpc[i] \in {"claimed", "ready", "dumped", "stored", "failing"}

TypeOK ==
  /\ db \in Db
  /\ store \in [Runs -> Object]
  /\ issued \subseteq Runs
  /\ clock \in Nat
  /\ lock \in Threads \union {NoThread}
  /\ wpc \in [Instances -> WorkerPcs]
  /\ wrun \in [Instances -> Runs \union {NoRun}]
  /\ wdump \in [Instances -> Object]
  /\ rpc \in [Instances -> RestorePcs]
  /\ rrun \in [Instances -> Runs \union {NoRun}]
  /\ rsum \in [Instances -> Nat]
  /\ qpc \in [Instances -> QueuePcs]
  /\ qtgt \in [Instances -> Targets \union {NoTarget}]
  /\ stgt \in [Instances -> Targets \union {NoTarget}]
  /\ stopping \in [Instances -> BOOLEAN]
  /\ dumps \in Nat /\ restores \in Nat /\ stops \in Nat
  /\ crashes \in Nat /\ errors \in Nat /\ losses \in Nat
  /\ \A i \in Instances : Executing(i) => wrun[i] \in Runs
  /\ \A i \in Instances : rpc[i] \in {"locked", "checked"} => rrun[i] \in Runs
  /\ \A i \in Instances : qpc[i] \in {"locked", "checked"} => qtgt[i] \in Targets

Init ==
  /\ db = EmptyDb
  /\ store = [r \in Runs |-> NoObject]
  /\ issued = {}
  /\ clock = 0
  /\ lock = NoThread
  /\ wpc = [i \in Instances |-> "idle"]
  /\ wrun = [i \in Instances |-> NoRun]
  /\ wdump = [i \in Instances |-> NoObject]
  /\ rpc = [i \in Instances |-> "idle"]
  /\ rrun = [i \in Instances |-> NoRun]
  /\ rsum = [i \in Instances |-> 0]
  /\ qpc = [i \in Instances |-> "idle"]
  /\ qtgt = [i \in Instances |-> NoTarget]
  /\ stgt = [i \in Instances |-> NoTarget]
  /\ stopping = [i \in Instances |-> FALSE]
  /\ dumps = 0 /\ restores = 0 /\ stops = 0 /\ crashes = 0 /\ errors = 0 /\ losses = 0

SlipTryAcquire(th) ==  \* slip: a lock that only its own process knows
  /\ IF lock = NoThread THEN TRUE ELSE lock[1] # th[1]
  /\ lock' = th

\* pg_try_advisory_lock: never waits.
TryAcquire(th) == lock = NoThread /\ lock' = th

\* pg_advisory_unlock: only the session that owns the lock frees it.
Release(th) == lock' = IF lock = th THEN NoThread ELSE lock

\* The run table after the row of r is rewritten, claimed or inserted.
Settled(d, r, st, sum) == [d EXCEPT !.state[r] = st, !.sum[r] = sum]
Claimed(d, r) == [d EXCEPT !.state[r] = "running"]
Inserted(d, r, at) ==
  [d EXCEPT !.state[r] = "pending", !.created[r] = at, !.sum[r] = 0]

\* UpdateBackupRun: overwrites the row, whatever its state; no row, no effect.
UpdateRun(r, st, sum) ==
  db' = IF db.state[r] = "absent" THEN db
        ELSE Settled(db, r, st, sum)

SlipInsertRun(t) ==  \* slip: the active run is not looked for
  /\ \E r \in Runs \ issued :
       /\ TargetOf[r] = t
       /\ db' = Inserted(db, r, clock)
       /\ issued' = issued \union {r}
  /\ clock' = clock + 1

\* The transaction of CreateBackupRun and of CreateScheduledBackupRun: the
\* target row is locked, then a pending or running run of it is looked for.
InsertRun(t) ==
  /\ ~HasActive(db, t)
  /\ \E r \in Runs \ issued :
       /\ TargetOf[r] = t
       /\ db' = Inserted(db, r, clock)
       /\ issued' = issued \union {r}
  /\ clock' = clock + 1

-----------------------------------------------------------------------------
(* Worker.ProcessNext and Service.Execute.                                 *)

WorkerLock(i) ==
  /\ wpc[i] = "idle" /\ ~stopping[i]
  /\ TryAcquire(<<i, "worker">>)
  /\ wpc' = [wpc EXCEPT ![i] = "locked"]
  /\ UNCHANGED <<db, store, issued, clock, wrun, wdump, restoreVars, queueVars,
                 stgt, stopping, budgets>>

SlipOldestPending(r) ==  \* slip: failed runs are claimed again
  /\ db.state[r] \in {"pending", "failed"}
  /\ \A q \in Runs : db.state[q] = "pending" => db.created[r] <= db.created[q]

OldestPending(r) ==
  /\ db.state[r] = "pending"
  /\ \A q \in Runs : db.state[q] = "pending" => db.created[r] <= db.created[q]

SlipWorkerClaimLate(i) ==  \* slip: the claim does not mark the row
  /\ wpc[i] = "locked" /\ ~stopping[i]
  /\ \E r \in Runs : OldestPending(r) /\ wrun' = [wrun EXCEPT ![i] = r]
  /\ wpc' = [wpc EXCEPT ![i] = "claimed"]
  /\ UNCHANGED <<db, store, issued, clock, lock, wdump, restoreVars, queueVars,
                 stgt, stopping, budgets>>

WorkerClaim(i) ==
  /\ wpc[i] = "locked" /\ ~stopping[i]
  /\ \E r \in Runs :
       /\ OldestPending(r)
       /\ db' = Claimed(db, r)
       /\ wrun' = [wrun EXCEPT ![i] = r]
  /\ wpc' = [wpc EXCEPT ![i] = "claimed"]
  /\ UNCHANGED <<store, issued, clock, lock, wdump, restoreVars, queueVars,
                 stgt, stopping, budgets>>

\* Nothing to claim, or the statement was never executed.
WorkerNoClaim(i) ==
  /\ wpc[i] = "locked"
  /\ stopping[i] \/ \A r \in Runs : db.state[r] # "pending"
  /\ wpc' = [wpc EXCEPT ![i] = "release"]
  /\ UNCHANGED <<db, store, issued, clock, lock, wrun, wdump, restoreVars,
                 queueVars, stgt, stopping, budgets>>

\* A statement whose reply is an error because the context was cancelled while
\* it was under way, or because the connection failed.
Interrupted(i) ==
  /\ stopping[i] \/ Faults < MaxFaults
  /\ errors' = IF stopping[i] THEN errors ELSE errors + 1

\* The claim commits in the database and its reply is lost: ProcessNext returns
\* the error and no thread knows the run it has claimed.
WorkerClaimLost(i) ==
  /\ wpc[i] = "locked"
  /\ Interrupted(i)
  /\ \E r \in Runs :
       OldestPending(r) /\ db' = Claimed(db, r)
  /\ wpc' = [wpc EXCEPT ![i] = "release"]
  /\ UNCHANGED <<store, issued, clock, lock, wrun, wdump, restoreVars,
                 queueVars, stgt, stopping, dumps, restores, stops, crashes, losses>>

\* GetBackupTarget, the enabled check, openStore and the context check.
WorkerPrepare(i) ==
  /\ wpc[i] = "claimed"
  /\ \/ /\ ~stopping[i] /\ db.enabled[TargetOf[wrun[i]]]
        /\ wpc' = [wpc EXCEPT ![i] = "ready"]
     \/ wpc' = [wpc EXCEPT ![i] = "failing"]
  /\ UNCHANGED <<db, store, issued, clock, lock, wrun, wdump, restoreVars,
                 queueVars, stgt, stopping, budgets>>

\* pg_dump sees one committed state of the database; Seal and the checksum.
WorkerDump(i) ==
  /\ wpc[i] = "ready"
  /\ \/ /\ ~stopping[i] /\ dumps < MaxDumps
        /\ dumps' = dumps + 1
        /\ wdump' = [wdump EXCEPT ![i] = [ver |-> dumps + 1, db |-> db]]
        /\ wpc' = [wpc EXCEPT ![i] = "dumped"]
     \/ /\ wpc' = [wpc EXCEPT ![i] = "failing"]
        /\ UNCHANGED <<wdump, dumps>>
  /\ UNCHANGED <<db, store, issued, clock, lock, wrun, restoreVars, queueVars,
                 stgt, stopping, restores, stops, crashes, errors, losses>>

SlipWorkerPut(i) ==  \* slip: an upload that fails is taken for stored
  /\ wpc[i] = "dumped"
  /\ store' = [store EXCEPT ![wrun[i]] = wdump[i]] \/ UNCHANGED store
  /\ wpc' = [wpc EXCEPT ![i] = "stored"]
  /\ UNCHANGED <<db, issued, clock, lock, wrun, wdump, restoreVars, queueVars,
                 stgt, stopping, budgets>>

\* BackupStore.Put under the key of the run; an upload that reports an error
\* may have been stored all the same.  The key also holds the day of the
\* execution: all executions of a run fall on one day here, so that a second one
\* overwrites the object of the first.
WorkerPut(i) ==
  /\ wpc[i] = "dumped"
  /\ \/ /\ ~stopping[i]
        /\ store' = [store EXCEPT ![wrun[i]] = wdump[i]]
        /\ wpc' = [wpc EXCEPT ![i] = "stored"]
     \/ /\ \/ store' = [store EXCEPT ![wrun[i]] = wdump[i]]
           \/ UNCHANGED store
        /\ wpc' = [wpc EXCEPT ![i] = "failing"]
  /\ UNCHANGED <<db, issued, clock, lock, wrun, wdump, restoreVars, queueVars,
                 stgt, stopping, budgets>>

\* The worker is done with its run and forgets it.
WorkerReturn(i) ==
  /\ wpc' = [wpc EXCEPT ![i] = "release"]
  /\ wrun' = [wrun EXCEPT ![i] = NoRun]
  /\ wdump' = [wdump EXCEPT ![i] = NoObject]

\* The last statement of Execute, on the caller's context.
WorkerSucceed(i) ==
  /\ wpc[i] = "stored" /\ ~stopping[i]
  /\ UpdateRun(wrun[i], "succeeded", wdump[i].ver)
  /\ WorkerReturn(i)
  /\ UNCHANGED <<store, issued, clock, lock, restoreVars, queueVars, stgt,
                 stopping, budgets>>

\* The same statement with an error for a reply, executed or not: Execute
\* returns the error and nothing else is written.
WorkerSucceedLost(i) ==
  /\ wpc[i] = "stored"
  /\ Interrupted(i)
  /\ UpdateRun(wrun[i], "succeeded", wdump[i].ver) \/ UNCHANGED db
  /\ WorkerReturn(i)
  /\ UNCHANGED <<store, issued, clock, lock, restoreVars, queueVars, stgt,
                 stopping, dumps, restores, stops, crashes, losses>>

SlipWorkerFail(i) ==  \* slip: the failure is returned and not recorded
  /\ wpc[i] = "failing"
  /\ WorkerReturn(i)
  /\ UNCHANGED <<db, store, issued, clock, lock, restoreVars, queueVars, stgt,
                 stopping, budgets>>

\* failRun and Service.fail: five seconds on a context that is not cancelled.
WorkerFail(i) ==
  /\ wpc[i] = "failing"
  /\ \/ UpdateRun(wrun[i], "failed", 0) /\ UNCHANGED errors
     \/ /\ Faults < MaxFaults /\ errors' = errors + 1
        /\ UNCHANGED db
  /\ WorkerReturn(i)
  /\ UNCHANGED <<store, issued, clock, lock, restoreVars, queueVars, stgt,
                 stopping, dumps, restores, stops, crashes, losses>>

WorkerRelease(i) ==
  /\ wpc[i] = "release"
  /\ Release(<<i, "worker">>)
  /\ wpc' = [wpc EXCEPT ![i] = "idle"]
  /\ UNCHANGED <<db, store, issued, clock, wrun, wdump, restoreVars, queueVars,
                 stgt, stopping, budgets>>

Worker(i) ==
  \/ WorkerLock(i) \/ WorkerClaim(i) \/ WorkerNoClaim(i) \/ WorkerClaimLost(i)
  \/ WorkerPrepare(i) \/ WorkerDump(i) \/ WorkerPut(i) \/ WorkerSucceed(i)
  \/ WorkerSucceedLost(i) \/ WorkerFail(i) \/ WorkerRelease(i)

-----------------------------------------------------------------------------
(* Worker.StartRestore and Service.Restore.                                *)

RestoreLock(i) ==
  /\ rpc[i] = "idle" /\ ~stopping[i]
  /\ TryAcquire(<<i, "restore">>)
  /\ \E r \in issued : rrun' = [rrun EXCEPT ![i] = r]
  /\ rpc' = [rpc EXCEPT ![i] = "locked"]
  /\ UNCHANGED <<db, store, issued, clock, workerVars, rsum, queueVars, stgt,
                 stopping, budgets>>

RestoreGiveUp(i) ==
  /\ rpc' = [rpc EXCEPT ![i] = "release"]
  /\ rrun' = [rrun EXCEPT ![i] = NoRun]
  /\ rsum' = [rsum EXCEPT ![i] = 0]

\* Only a succeeded run is restorable; the target and its store are opened.
RestoreCheck(i) ==
  /\ rpc[i] = "locked"
  /\ \/ /\ db.state[rrun[i]] = "succeeded" /\ ~stopping[i]
        /\ rsum' = [rsum EXCEPT ![i] = db.sum[rrun[i]]]
        /\ rpc' = [rpc EXCEPT ![i] = "checked"]
        /\ UNCHANGED rrun
     \/ RestoreGiveUp(i)
  /\ UNCHANGED <<db, store, issued, clock, lock, workerVars, queueVars, stgt,
                 stopping, budgets>>

\* The object has the recorded checksum; pg_restore replaces the database in a
\* single transaction.
RestoreApply(i) ==
  /\ rpc[i] = "checked" /\ Faults < MaxFaults
  /\ restores' = restores + 1
  /\ store[rrun[i]].ver = rsum[i]
  /\ db' = store[rrun[i]].db
  /\ RestoreGiveUp(i)
  /\ UNCHANGED <<store, issued, clock, lock, workerVars, queueVars, stgt,
                 stopping, dumps, stops, crashes, errors, losses>>

\* Get, the checksum, Open or pg_restore fails, or the command is cancelled.
RestoreFail(i) ==
  /\ rpc[i] = "checked"
  /\ RestoreGiveUp(i)
  /\ UNCHANGED <<db, store, issued, clock, lock, workerVars, queueVars, stgt,
                 stopping, budgets>>

RestoreRelease(i) ==
  /\ rpc[i] = "release"
  /\ Release(<<i, "restore">>)
  /\ rpc' = [rpc EXCEPT ![i] = "idle"]
  /\ UNCHANGED <<db, store, issued, clock, workerVars, rrun, rsum, queueVars,
                 stgt, stopping, budgets>>

Restore(i) ==
  \/ RestoreLock(i) \/ RestoreCheck(i) \/ RestoreApply(i) \/ RestoreFail(i)
  \/ RestoreRelease(i)

-----------------------------------------------------------------------------
(* BackupService.QueueRun, Scheduler.RunOnce and UpdateTarget.             *)

QueueLock(i) ==
  /\ qpc[i] = "idle"
  /\ TryAcquire(<<i, "queue">>)
  /\ \E t \in Targets : qtgt' = [qtgt EXCEPT ![i] = t]
  /\ qpc' = [qpc EXCEPT ![i] = "locked"]
  /\ UNCHANGED <<db, store, issued, clock, workerVars, restoreVars, stgt,
                 stopping, budgets>>

QueueCheck(i) ==
  /\ qpc[i] = "locked"
  /\ qpc' = [qpc EXCEPT ![i] = IF db.enabled[qtgt[i]] THEN "checked"
                               ELSE "release"]
  /\ UNCHANGED <<db, store, issued, clock, lock, workerVars, restoreVars, qtgt,
                 stgt, stopping, budgets>>

\* CreateBackupRun: inserted, or refused because of an active run.  The bound
\* on run identifiers shows as a failed insert.
QueueInsert(i) ==
  /\ qpc[i] = "checked"
  /\ \/ InsertRun(qtgt[i])
     \/ /\ HasActive(db, qtgt[i]) \/ \A r \in Runs \ issued : TargetOf[r] # qtgt[i]
        /\ UNCHANGED <<db, issued, clock>>
  /\ qpc' = [qpc EXCEPT ![i] = "release"]
  /\ UNCHANGED <<store, lock, workerVars, restoreVars, qtgt, stgt, stopping,
                 budgets>>

SlipQueueRelease(i) ==  \* slip: the request returns with the lock
  /\ qpc[i] = "release"
  /\ qpc' = [qpc EXCEPT ![i] = "idle"]
  /\ qtgt' = [qtgt EXCEPT ![i] = NoTarget]
  /\ UNCHANGED <<db, store, issued, clock, lock, workerVars, restoreVars, stgt,
                 stopping, budgets>>

QueueRelease(i) ==
  /\ qpc[i] = "release"
  /\ Release(<<i, "queue">>)
  /\ qpc' = [qpc EXCEPT ![i] = "idle"]
  /\ qtgt' = [qtgt EXCEPT ![i] = NoTarget]
  /\ UNCHANGED <<db, store, issued, clock, workerVars, restoreVars, stgt,
                 stopping, budgets>>

Queue(i) == QueueLock(i) \/ QueueCheck(i) \/ QueueInsert(i) \/ QueueRelease(i)

\* RunOnce reads the targets and finds an enabled one due (BackupSchedule
\* models when that is).  The scheduler takes no advisory lock.
ScheduleDue(i) ==
  /\ stgt[i] = NoTarget /\ ~stopping[i]
  /\ \E t \in Targets : db.enabled[t] /\ stgt' = [stgt EXCEPT ![i] = t]
  /\ UNCHANGED <<db, store, issued, clock, lock, workerVars, restoreVars,
                 queueVars, stopping, budgets>>

\* CreateScheduledBackupRun: inserted, or the window is already taken.
ScheduleInsert(i) ==
  /\ stgt[i] # NoTarget
  /\ InsertRun(stgt[i]) \/ UNCHANGED <<db, issued, clock>>
  /\ stgt' = [stgt EXCEPT ![i] = NoTarget]
  /\ UNCHANGED <<store, lock, workerVars, restoreVars, queueVars, stopping,
                 budgets>>

\* UpdateTarget, as far as the runs are concerned: enabled may flip.
UpdateTarget(t) ==
  /\ db' = [db EXCEPT !.enabled[t] = ~@]
  /\ UNCHANGED <<store, issued, clock, lock, workerVars, restoreVars, queueVars,
                 stgt, stopping, budgets>>

-----------------------------------------------------------------------------
(* Faults.                                                                 *)

\* The runtime context is cancelled; the threads see it at their next step.
Stop(i) ==
  /\ ~stopping[i] /\ Faults < MaxFaults
  /\ stops' = stops + 1
  /\ stopping' = [stopping EXCEPT ![i] = TRUE]
  /\ UNCHANGED <<db, store, issued, clock, lock, workerVars, restoreVars,
                 queueVars, stgt, dumps, restores, crashes, errors, losses>>

\* Worker.Run and the restore goroutine have returned; a new process starts.
Restart(i) ==
  /\ stopping[i]
  /\ wpc[i] = "idle" /\ rpc[i] = "idle" /\ qpc[i] = "idle"
  /\ stopping' = [stopping EXCEPT ![i] = FALSE]
  /\ stgt' = [stgt EXCEPT ![i] = NoTarget]
  /\ UNCHANGED <<db, store, issued, clock, lock, workerVars, restoreVars,
                 queueVars, budgets>>

\* The process dies and is started again: its sessions end with it.
Crash(i) ==
  /\ Faults < MaxFaults
  /\ crashes' = crashes + 1
  /\ lock' = IF lock \in {i} \X {"worker", "restore", "queue"} THEN NoThread
             ELSE lock
  /\ wpc' = [wpc EXCEPT ![i] = "idle"]
  /\ wrun' = [wrun EXCEPT ![i] = NoRun]
  /\ wdump' = [wdump EXCEPT ![i] = NoObject]
  /\ rpc' = [rpc EXCEPT ![i] = "idle"]
  /\ rrun' = [rrun EXCEPT ![i] = NoRun]
  /\ rsum' = [rsum EXCEPT ![i] = 0]
  /\ qpc' = [qpc EXCEPT ![i] = "idle"]
  /\ qtgt' = [qtgt EXCEPT ![i] = NoTarget]
  /\ stgt' = [stgt EXCEPT ![i] = NoTarget]
  /\ stopping' = [stopping EXCEPT ![i] = FALSE]
  /\ UNCHANGED <<db, store, issued, clock, dumps, restores, stops, errors, losses>>

\* PostgreSQL ends the session that holds the lock; the thread goes on.
LoseSession ==
  /\ lock # NoThread /\ Faults < MaxFaults
  /\ losses' = losses + 1
  /\ lock' = NoThread
  /\ UNCHANGED <<db, store, issued, clock, workerVars, restoreVars, queueVars,
                 stgt, stopping, dumps, restores, stops, crashes, errors>>

-----------------------------------------------------------------------------
Next ==
  \/ \E i \in Instances :
       \/ Worker(i) \/ Restore(i) \/ Queue(i)
       \/ ScheduleDue(i) \/ ScheduleInsert(i)
       \/ Stop(i) \/ Restart(i) \/ Crash(i)
  \/ \E t \in Targets : UpdateTarget(t)
  \/ LoseSession

Spec == Init /\ [][Next]_vars

-----------------------------------------------------------------------------
(* Properties.                                                             *)

\* A target never has two runs that are pending or running, whoever queues
\* them (request or scheduler, in any instance) and whatever is restored: the
\* row lock of CreateBackupRun and CreateScheduledBackupRun.
AtMostOneActiveRun ==
  \A r, q \in Runs :
    Active(db, r) /\ Active(db, q) /\ TargetOf[r] = TargetOf[q] => r = q

\* The threads between TryAcquireBackupOperation and the release function.
InOperation ==
  {th \in Threads :
     \/ th[2] = "worker"  /\ wpc[th[1]] # "idle"
     \/ th[2] = "restore" /\ rpc[th[1]] # "idle"
     \/ th[2] = "queue"   /\ qpc[th[1]] # "idle"}

\* As long as no lock session is lost, dumps, restores and queueing requests
\* of all instances exclude each other, across shutdowns and crashes.
OperationsExclude ==
  losses = 0 => \A a, b \in InOperation : a = b

\* While a worker executes a run, the row of that run says running: nobody
\* else settles it, and no restore replaces it under the worker.
ExecutedRunIsRunning ==
  losses = 0 => \A i \in Instances : Executing(i) => db.state[wrun[i]] = "running"

\* A run that says succeeded has an object in the store, and the object has the
\* checksum the run recorded, also after restores that bring back older rows
\* and let runs be executed a second time.
SucceededRunIsRestorable ==
  losses = 0 =>
    \A r \in Runs : db.state[r] = "succeeded" =>
      db.sum[r] > 0 /\ store[r].ver = db.sum[r]

\* A settled run keeps its outcome and its checksum; only a restore takes it
\* back (UpdateBackupRun itself does not look at the state it overwrites).
SettledRunsStay ==
  [][losses = 0 =>
       \/ \E i \in Instances : RestoreApply(i)
       \/ \A r \in Runs : Terminal(db, r) =>
            db'.state[r] = db.state[r] /\ db'.sum[r] = db.sum[r]]_vars

\* What pg_dump copies of the run it is taken for is a row that says running, so
\* a restore brings the run it restores from back as running, with no worker
\* behind it, and its target refuses new runs from then on.
RestoreReopensItsRun ==
  [][losses = 0 =>
       \A i \in Instances : RestoreApply(i) =>
         /\ db'.state[rrun[i]] = "running"
         /\ \A j \in Instances : ~Executing(j)]_vars

\* A fault has happened, or a restore has replaced the run table.
Disturbed == restores + stops + crashes + errors + losses > 0

\* Without faults and restores a running run is always in the hands of a worker,
\* so its target is not blocked for good.
RunningRunHasWorker ==
  ~Disturbed =>
    \A r \in Runs : db.state[r] = "running" =>
      \E i \in Instances : Executing(i) /\ wrun[i] = r

-----------------------------------------------------------------------------
(* Liveness without faults: workers poll, requests and schedulers finish   *)
(* what they have begun; nobody has to queue or to restore anything.       *)

WorkerFairness == \A i \in Instances :
  /\ SF_vars(WorkerLock(i))
  /\ WF_vars(WorkerClaim(i) \/ WorkerNoClaim(i))
  /\ WF_vars(WorkerPrepare(i)) /\ WF_vars(WorkerDump(i)) /\ WF_vars(WorkerPut(i))
  /\ WF_vars(WorkerSucceed(i)) /\ WF_vars(WorkerFail(i)) /\ WF_vars(WorkerRelease(i))

ReleaseFairness == \A i \in Instances :
  /\ WF_vars(RestoreCheck(i)) /\ WF_vars(RestoreApply(i) \/ RestoreFail(i))
  /\ WF_vars(RestoreRelease(i))
  /\ WF_vars(QueueCheck(i)) /\ WF_vars(QueueInsert(i)) /\ WF_vars(QueueRelease(i))

FairSpec == Spec /\ WorkerFairness /\ ReleaseFairness

\* Without faults and committed restores every pending run is settled: no queued
\* run waits forever behind other targets, requests or restores that fail.
PendingRunSettles ==
  \A r \in Runs :
    db.state[r] = "pending" ~> (Terminal(db, r) \/ Disturbed)
=============================================================================
