--------------------------- MODULE BackupSchedule ---------------------------
(***************************************************************************)
(* When the scheduler queues a run.  Every server process has a scheduler; *)
(* each of its rounds reads the clock and the targets once and then, for   *)
(* every enabled target, reads the newest run, asks the target's schedule  *)
(* for the first due time after it and queues a run when that time has     *)
(* come.  All this happens while other schedulers, requests and the        *)
(* workers write the same run table, so the transaction that inserts looks *)
(* again.  A due time is served by the first run created at or after it:   *)
(* windows missed while no server was up are made up by one run.  A run    *)
(* that its worker leaves running stays so and blocks its target.          *)
(*                                                                         *)
(* Time is counted in ticks up to Horizon.  Every read or transaction is   *)
(* one step, and time can pass between any two of them.                    *)
(***************************************************************************)
EXTENDS FiniteSets, Integers, FiniteSetsExt

CONSTANTS
  Instances,   \* server processes
  Targets,     \* rows of backup_targets; all are created at tick 0
  Schedules,   \* values of backup_targets.schedule
  Due,         \* the due times of a schedule; none when it is empty or
               \* does not parse
  Horizon,     \* bound on time
  MaxEvents    \* bound on failed reads and transactions, restarts of a
               \* process, runs left running, changes of settings and runs
               \* queued by hand

ASSUME ScheduleAssumption ==
  /\ Horizon \in Nat /\ MaxEvents \in Nat
  /\ Due \in [Schedules -> SUBSET (1..Horizon)]

VARIABLES
  now,       \* the clock
  settings,  \* enabled and schedule of each target
  runs,      \* the run table: created_at, the due time it serves, state
  round,     \* the round of each scheduler: its reading of the clock, the
             \* targets it still has to look at and the one it found due
  asked,     \* the clock as a queueing request of each target read it
  events     \* bounded steps so far

vars == <<now, settings, runs, round, asked, events>>

Never == 0   \* the due time of a run queued by hand, and no due time
Idle  == [at |-> 0, todo |-> {}, found |-> {}]

\* A run is pending, running or over.  The row of one that is `left` says
\* running, and no worker has it.
States == {"pending", "running", "left", "over"}

TypeOK ==
  /\ now \in 0..Horizon
  /\ settings \in [Targets -> [enabled : BOOLEAN, schedule : Schedules]]
  /\ runs \in [Targets -> SUBSET [at : 0..now, due : 0..now, state : States]]
  /\ \A t \in Targets : \A r \in runs[t] : r.due <= r.at
  /\ round \in [Instances -> [at : 0..now, todo : SUBSET (Targets \X Schedules),
                              found : SUBSET (Targets \X (1..Horizon))]]
  /\ \A i \in Instances : /\ Cardinality(round[i].found) <= 1
                          /\ \A p \in round[i].found : p[2] <= round[i].at
  /\ asked \in [Targets -> {-1} \cup 0..now] /\ events \in 0..MaxEvents

Init ==
  /\ now = 0
  /\ settings \in [Targets -> [enabled : {TRUE}, schedule : Schedules]]
  /\ runs = [t \in Targets |-> {}]
  /\ round = [i \in Instances |-> Idle]
  /\ asked = [t \in Targets |-> -1]
  /\ events = 0

Spend == events < MaxEvents /\ events' = events + 1

Tick == now < Horizon /\ now' = now + 1 /\ UNCHANGED <<settings, runs, round, asked, events>>

-----------------------------------------------------------------------------
(* The run table.                                                          *)

Active(t) == \E r \in runs[t] : r.state # "over"

\* The first due time of a schedule after a time.
NextDue(s, anchor) ==
  LET later == {d \in Due[s] : d > anchor}
  IN  IF later = {} THEN Never ELSE Min(later)

SlipTaken(t, due) == Active(t)  \* slip: only an active run is looked for

\* The test of the inserting transaction, under the lock of the target's row.
Taken(t, due) == \E r \in runs[t] : r.at >= due \/ r.state # "over"

Insert(t, at, due) ==
  runs' = [runs EXCEPT ![t] = @ \cup {[at |-> at, due |-> due, state |-> "pending"]}]

Move(t, from, to) ==
  /\ \E r \in runs[t] : r.state = from
  /\ runs' = [runs EXCEPT ![t] = {IF r.state = from THEN [r EXCEPT !.state = to] ELSE r : r \in @}]

-----------------------------------------------------------------------------
(* A round of a scheduler.                                                 *)

\* The clock is read, then the targets; disabled ones are passed over.
Begin(i) ==
  /\ round[i] = Idle
  /\ \E t \in Targets : settings[t].enabled
  /\ round' = [round EXCEPT ![i] = [at |-> now, found |-> {},
        todo |-> {<<t, settings[t].schedule>> : t \in {u \in Targets : settings[u].enabled}}]]
  /\ UNCHANGED <<now, settings, runs, asked, events>>

SlipAnchor(t) == now  \* slip: due times are counted from the present

\* The later of the target's creation and its newest run.
Anchor(t) == Max({0} \cup {r.at : r \in runs[t]})

Ripe(due, at) == due # Never /\ due <= at

\* A target of the round is looked at.
Look(i) ==
  /\ round[i].found = {}
  /\ \E p \in round[i].todo :
        LET due == NextDue(p[2], Anchor(p[1]))
            rest == [round[i] EXCEPT !.todo = @ \ {p}]
        IN  round' = [round EXCEPT ![i] =
              IF Ripe(due, round[i].at) THEN [rest EXCEPT !.found = {<<p[1], due>>}]
              ELSE IF rest.todo = {} THEN Idle ELSE rest]
  /\ UNCHANGED <<now, settings, runs, asked, events>>

Leave(i) ==
  round' = [round EXCEPT ![i] = IF @.todo = {} THEN Idle ELSE [@ EXCEPT !.found = {}]]

\* CreateScheduledBackupRun: inserted, or the window is taken already.
Create(i) ==
  /\ \E p \in round[i].found :
        IF Taken(p[1], p[2]) THEN UNCHANGED runs ELSE Insert(p[1], round[i].at, p[2])
  /\ Leave(i)
  /\ UNCHANGED <<now, settings, asked, events>>

\* A read or the transaction fails: the target is passed over in this round.
Fail(i) ==
  /\ Spend
  /\ \/ round[i].found # {} /\ Leave(i)
     \/ /\ round[i].found = {}
        /\ \E p \in round[i].todo :
              LET rest == round[i].todo \ {p}
              IN  round' = [round EXCEPT ![i] = IF rest = {} THEN Idle ELSE [@ EXCEPT !.todo = rest]]
  /\ UNCHANGED <<now, settings, runs, asked>>

\* The process dies in a round; a new one starts its own.
Crash(i) ==
  /\ round[i] # Idle
  /\ Spend
  /\ round' = [round EXCEPT ![i] = Idle]
  /\ UNCHANGED <<now, settings, runs, asked>>

-----------------------------------------------------------------------------
(* Requests, workers and administrators.                                   *)

\* QueueRun checks the target and reads the clock ...
Ask(t) ==
  /\ asked[t] = -1 /\ settings[t].enabled
  /\ Spend
  /\ asked' = [asked EXCEPT ![t] = now]
  /\ UNCHANGED <<now, settings, runs, round>>

\* ... and CreateBackupRun inserts unless a run is active.
Answer(t) ==
  /\ asked[t] # -1
  /\ IF Active(t) THEN UNCHANGED runs ELSE Insert(t, asked[t], Never)
  /\ asked' = [asked EXCEPT ![t] = -1]
  /\ UNCHANGED <<now, settings, round, events>>

\* A worker claims the pending run and settles what it runs ...
Claim(t) == Move(t, "pending", "running") /\ UNCHANGED <<now, settings, round, asked, events>>
Settle(t) == Move(t, "running", "over") /\ UNCHANGED <<now, settings, round, asked, events>>

\* ... or its process dies, its shutdown cancels the last update, or the reply
\* to the claim or the update is lost.  Workers claim pending runs only: the row
\* stays as it is.
Abandon(t) ==
  /\ Spend
  /\ Move(t, "running", "left")
  /\ UNCHANGED <<now, settings, round, asked>>

Edit(t) ==
  /\ Spend
  /\ \E e \in BOOLEAN, s \in Schedules :
        settings' = [settings EXCEPT ![t] = [enabled |-> e, schedule |-> s]]
  /\ UNCHANGED <<now, runs, round, asked>>

-----------------------------------------------------------------------------
Scheduler(i) == Begin(i) \/ Look(i) \/ Create(i)

Next ==
  \/ Tick
  \/ \E i \in Instances : Scheduler(i) \/ Fail(i) \/ Crash(i)
  \/ \E t \in Targets : Ask(t) \/ Answer(t) \/ Claim(t) \/ Settle(t) \/ Abandon(t) \/ Edit(t)

Spec == Init /\ [][Next]_vars

-----------------------------------------------------------------------------
(* Two runs the schedulers queued for a target never serve the same window:
   one was created before the other fell due, however long a round slept
   between its read of the clock and its insert.                           *)
WindowsRunOnce ==
  \A t \in Targets : \A r, q \in {x \in runs[t] : x.due # Never} :
     r # q => (r.at < q.due \/ q.at < r.due)

(* A run the schedulers queue never waits behind another: the table has at
   most one active run of a target, whoever inserted it.                   *)
OneActiveRun ==
  \A t \in Targets : Cardinality({r \in runs[t] : r.state # "over"}) <= 1

(* The ticker of a running process fires again, rounds end, and a worker
   claims what is pending and settles what it has not left.                *)
Fairness ==
  /\ WF_now(Tick)
  /\ \A i \in Instances : WF_vars(Scheduler(i))
  /\ \A t \in Targets : WF_vars(Claim(t)) /\ WF_vars(Settle(t)) /\ WF_vars(Answer(t))

FairSpec == Spec /\ Fairness

(* A due time that has passed is served by a run created at or after it,
   unless the target is disabled, its schedule is changed or a run of it was
   left running: no window is lost to failed reads and transactions, restarts
   of schedulers, runs in progress or rounds that read an old clock.       *)
DueIsServed ==
  \A t \in Targets : \A d \in 1..Horizon :
     (settings[t].enabled /\ d \in Due[settings[t].schedule] /\ now >= d)
       ~> (\/ \E r \in runs[t] : r.at >= d \/ r.state = "left"
           \/ ~settings[t].enabled
           \/ d \notin Due[settings[t].schedule])
=============================================================================
