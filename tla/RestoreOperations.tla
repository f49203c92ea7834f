-------------------------- MODULE RestoreOperations -------------------------
(***************************************************************************)
(* The restores one server process has started.  A request reserves the    *)
(* repository-wide operation lease, the restore runs in a goroutine of its *)
(* own, and the coordinator keeps a bounded table of operations that a     *)
(* browser polls.  The table is lost with the process: pg_restore replaces *)
(* the database that could hold it.  A shutdown drains the requests and    *)
(* then waits for the restores, each for a limited time.                   *)
(*                                                                         *)
(* What a restore does to the database is the subject of BackupRuns.       *)
(***************************************************************************)
EXTENDS OperationTable

CONSTANTS
  Nobody,     \* the lease is free
  Other       \* a backup, or another process, holds the lease

VARIABLES
  phase,    \* of the process
  gaveUp,   \* a wait of the shutdown reached its time limit
  lease,    \* holder of the operation lease
  request,  \* progress of each request
  job,      \* the goroutine that restores, and its result once it has one
  ops,      \* RestoreCoordinator.operations
  order,    \* RestoreCoordinator.order
  waits     \* RestoreCoordinator.wait: observers that have not ended

vars == <<phase, gaveUp, lease, request, job, ops, order, waits>>

Remembered == DOMAIN ops
Running(r) == ops[r] = "running"

\* The order lists what the table holds, once each, oldest first.
TypeOK ==
  /\ phase \in {"serving", "draining", "joining", "stopped"} /\ gaveUp \in BOOLEAN
  /\ lease \in Requests \cup {Nobody, Other}
  /\ request \in [Requests -> {"new", "reserved", "recorded", "answered", "refused"}]
  /\ job \in [Requests -> {"none", "running", "succeeded", "failed"}]
  /\ \A r \in Remembered : ops[r] \in {"running", "succeeded", "failed"}
  /\ ToSet(order) = Remembered /\ Len(order) = Cardinality(Remembered)
  /\ waits \in 0..Cardinality(Requests)

Init ==
  /\ phase = "serving" /\ gaveUp = FALSE
  /\ lease = Nobody
  /\ request = [r \in Requests |-> "new"]
  /\ job = [r \in Requests |-> "none"]
  /\ ops = << >> /\ order = << >> /\ waits = 0

-----------------------------------------------------------------------------
(* A request.                                                              *)

\* StartRestore: the run and its target are checked under the lease, which
\* only a started restore keeps.  A cancelled runtime reserves nothing.
Reserve(r) ==
  /\ request[r] = "new" /\ phase = "serving" /\ lease = Nobody
  /\ lease' = r
  /\ job' = [job EXCEPT ![r] = "running"]
  /\ request' = [request EXCEPT ![r] = "reserved"]
  /\ UNCHANGED <<phase, gaveUp, ops, order, waits>>

\* The run is not restorable, the lease is taken, or the process stops.
Refuse(r) ==
  /\ request[r] = "new" /\ phase \in {"serving", "draining"}
  /\ request' = [request EXCEPT ![r] = "refused"]
  /\ UNCHANGED <<phase, gaveUp, lease, job, ops, order, waits>>

\* Under the mutex: prune, remember, append.
Record(r) ==
  /\ request[r] = "reserved" /\ phase # "stopped"
  /\ LET table == Remember(ops, order, r) IN ops' = table.ops /\ order' = table.order
  /\ request' = [request EXCEPT ![r] = "recorded"]
  /\ UNCHANGED <<phase, gaveUp, lease, job, waits>>

SlipCount == waits  \* slip: the observer counts itself once it runs

\* wait.Add before the observer starts and the request is answered.
Count == waits + 1

Answer(r) ==
  /\ request[r] = "recorded" /\ phase # "stopped"
  /\ waits' = Count
  /\ request' = [request EXCEPT ![r] = "answered"]
  /\ UNCHANGED <<phase, gaveUp, lease, job, ops, order>>

-----------------------------------------------------------------------------
(* The restore and its observer.                                           *)

\* The result is sent, whether or not anyone receives it yet ...
Restore(r) ==
  /\ job[r] = "running" /\ phase # "stopped"
  /\ \E outcome \in {"succeeded", "failed"} : job' = [job EXCEPT ![r] = outcome]
  /\ UNCHANGED <<phase, gaveUp, lease, request, ops, order, waits>>

\* ... and then the lease is released.
Release(r) ==
  /\ lease = r /\ job[r] # "running" /\ phase # "stopped"
  /\ lease' = Nobody
  /\ UNCHANGED <<phase, gaveUp, request, job, ops, order, waits>>

Outcome(r) == IF job[r] = "failed" THEN "failed" ELSE "succeeded"

\* The buffered channel holds the result until the observer receives it.
Delivered(r) == job[r] \in {"succeeded", "failed"}

\* The observer settles the operation, if it is still remembered.
Observe(r) ==
  /\ request[r] = "answered" /\ Delivered(r)
  /\ r \in Remembered /\ Running(r) /\ phase # "stopped"
  /\ ops' = [ops EXCEPT ![r] = Outcome(r)]
  /\ waits' = waits - 1
  /\ UNCHANGED <<phase, gaveUp, lease, request, job, order>>

\* A backup of this process, or another process, takes or leaves the lease.
Elsewhere ==
  /\ phase # "stopped"
  /\ \/ lease = Nobody /\ lease' = Other
     \/ lease = Other /\ lease' = Nobody
  /\ UNCHANGED <<phase, gaveUp, request, job, ops, order, waits>>

-----------------------------------------------------------------------------
(* The shutdown.                                                           *)

\* SIGTERM cancels every runtime; the server takes no new request.
Signal ==
  /\ phase = "serving" /\ phase' = "draining"
  /\ UNCHANGED <<gaveUp, lease, request, job, ops, order, waits>>

InFlight == \E r \in Requests : request[r] \in {"reserved", "recorded"}

\* server.Shutdown returns when the requests have ended, or after its limit.
Drained ==
  /\ phase = "draining" /\ phase' = "joining"
  /\ gaveUp' = InFlight
  /\ UNCHANGED <<lease, request, job, ops, order, waits>>

Joinable == waits = 0

\* restores.Wait, or its limit; the process ends and its table with it.
Join ==
  /\ phase = "joining" /\ phase' = "stopped"
  /\ \/ Joinable /\ gaveUp' = gaveUp
     \/ ~Joinable /\ gaveUp' = TRUE
  /\ ops' = << >> /\ order' = << >>
  /\ UNCHANGED <<lease, request, job, waits>>

Next ==
  \/ \E r \in Requests : \/ Reserve(r) \/ Refuse(r) \/ Record(r) \/ Answer(r)
                         \/ Restore(r) \/ Release(r) \/ Observe(r)
  \/ Elsewhere \/ Signal \/ Drained \/ Join

Spec == Init /\ [][Next]_vars

-----------------------------------------------------------------------------
(* A browser that was told a restore is running finds it under its
   identifier, however many operations came after it.                      *)
RunningIsRemembered ==
  \A r \in Requests :
     (phase # "stopped" /\ request[r] = "answered" /\ job[r] = "running")
       => (r \in Remembered /\ Running(r))

(* What a poll reports of a settled operation is how the restore ended.    *)
OutcomeIsTrue ==
  \A r \in Remembered : (~Running(r)) => ops[r] = job[r]

(* A shutdown in which no time limit was reached leaves no restore half
   done: the restores it waited for are all that were started.             *)
NoneIsCutOff ==
  (phase = "stopped" /\ ~gaveUp) => \A r \in Requests : job[r] # "running"

(* An operation is forgotten only when it has ended, the table is full and
   no older one that has ended stays; until then its outcome never changes. *)
ForgottenInOrder ==
  [][\A r \in Remembered :
       \/ phase' = "stopped"
       \/ r \in DOMAIN ops' /\ (Running(r) \/ ops'[r] = ops[r])
       \/ /\ r \notin DOMAIN ops' /\ ~Running(r)
          /\ Cardinality(Remembered) >= Capacity
          /\ Finished(ops) \cap Older(order, r) \cap DOMAIN ops' = {}
          /\ Cardinality(DOMAIN ops') >= Capacity]_vars

(* The goroutines of a live process run, and pg_restore ends.              *)
FairSpec ==
  Spec /\ \A r \in Requests : /\ WF_vars(Record(r)) /\ WF_vars(Answer(r))
                              /\ WF_vars(Restore(r)) /\ WF_vars(Observe(r))

(* A poller is told the outcome in the end, or the process is gone.        *)
OperationSettles ==
  \A r \in Requests :
     (request[r] = "reserved")
       ~> (phase = "stopped" \/ (request[r] = "answered" /\ (r \notin Remembered \/ ~Running(r))))
=============================================================================
