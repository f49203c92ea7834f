-------------------------- MODULE CredentialRefresh -------------------------
(* The refresh of OAuth credentials: service/retrieval.go under the locks of  *)
(* one process and of the database, the adapters that rotate a refresh token, *)
(* and the imports that replace a credential meanwhile.                       *)
(*                                                                            *)
(* Refresh tokens are numbered in the order the provider issues them.  A      *)
(* rotation consumes the token it was asked with, the strictest a provider    *)
(* can be.  Gmail's Retrieve asks for an access token by itself, outside both *)
(* locks, and forgets the refresh token it was given.                         *)
EXTENDS Naturals, FiniteSets, Functions

CONSTANTS
  Callers,      \* goroutines: requests that retrieve mail and the worker's jobs
  Keys,         \* one credential each: a mailbox and a kind
  Instances,    \* server processes on one database
  Methods,      \* the channels a credential holds an access token for
  AdapterOf,    \* "method": Microsoft (EnsureAccessToken); "single": Gmail (Refresh)
  PoolSize,     \* connections of a process
  MaxJobs,      \* refreshes and retrievals that start
  MaxEvents     \* expiries, refusals, imports, toggles and faults together

ASSUME CallersAssumption == IsFiniteSet(Callers)
ASSUME SomeoneAssumption == Instances # {} /\ Keys # {} /\ Methods # {}
ASSUME AdapterAssumption == AdapterOf \in [Keys -> {"method", "single"}]
ASSUME BoundsAssumption == PoolSize \in Nat \ {0} /\ MaxJobs \in Nat /\ MaxEvents \in Nat

VARIABLES
  cred,      \* the row of mailbox_credentials
  accepted,  \* refresh tokens the provider still accepts
  issued,    \* the number of the newest one
  setting,   \* app_settings: refreshing is enabled
  pc, job,   \* where a caller stands and what it carries
  used       \* how often each bounded event has happened
vars == <<cred, accepted, issued, setting, pc, job, used>>

Events == {
  "expiry",   \* access tokens run out
  "refusal",  \* the provider refuses a call although the token looked fresh
  "import",   \* an import replaces a credential
  "toggle",   \* the refresh setting changes
  "error",    \* a call or a statement fails
  "drop",     \* a connection breaks while it holds the lock
  "crash"}    \* a process dies
Count(e) == used' = [used EXCEPT ![e] = @ + 1]
Spend(e) == SumFunctionOnSet(used, Events) < MaxEvents /\ Count(e)

Credential == [version: Nat, token: Nat, status: {"active", "due", "error"}, fresh: SUBSET Methods]
\* A row as an import writes it: without an access token, and due unless the
\* file says that it expires later.
Imported(version, token) == [version: {version}, token: {token}, status: {"active", "due"}, fresh: {{}}]

Job == [at: Instances, key: Keys, method: Methods, worker: BOOLEAN, force: BOOLEAN, observed: Nat,
        ended: BOOLEAN, locked: BOOLEAN, current: Credential,
        got: Nat, outcome: {"success", "failure"}]

Waiting == {"mutex", "connection", "advisory"}
Refreshing == {"remote", "store"}
Held == {"read"} \union Refreshing
Labels == {"idle", "using", "listing"} \union Waiting \union Held

\* Goroutines of a process that keep one of its connections.
Pinned(i) == {c \in Callers : job[c].at = i /\ pc[c] \in Held \union {"advisory"}}
ConnectionFree(c) == Cardinality(Pinned(job[c].at)) < PoolSize

Goto(c, label) == pc' = [pc EXCEPT ![c] = label]

\* What a caller carries while it does nothing.
NoJob == CHOOSE j \in [at: Instances, key: Keys, method: Methods, worker: {FALSE}, force: {FALSE}, observed: {0},
    ended: {FALSE}, locked: {FALSE},
    current: [version: {0}, token: {0}, status: {"active"}, fresh: {{}}],
    got: {0}, outcome: {"failure"}] : TRUE

\* The caller leaves: the advisory lock, its connection and the mutex go with
\* it.
Leave(c) == Goto(c, "idle") /\ job' = [job EXCEPT ![c] = NoJob]

\* A refresh hands out a credential, and a retrieval goes on with it.
Return(c, credential) ==
  IF job[c].worker THEN Leave(c)
  ELSE Goto(c, "using") /\ job' = [job EXCEPT ![c] = [NoJob EXCEPT !.at = job[c].at, !.key = job[c].key,
         !.method = job[c].method, !.observed = job[c].observed, !.force = job[c].force,
         !.current = credential]]

Init ==
  /\ cred \in [Keys -> Imported(1, 1)]
  /\ accepted = [k \in Keys |-> {1}]
  /\ issued = [k \in Keys |-> 1]
  /\ setting = TRUE
  /\ pc = [c \in Callers |-> "idle"]
  /\ job = [c \in Callers |-> NoJob]
  /\ used = [e \in Events \union {"job"} |-> 0]

\* What the row says, whatever the sealed secret holds.
NeedsRefresh(credential) == credential.status # "active"

Start(c, i, k, m, worker) ==
  job' = [job EXCEPT ![c] = [NoJob EXCEPT !.at = i, !.key = k, !.method = m, !.worker = worker,
    !.observed = cred[k].version, !.current = cred[k]]]

\* A request lists the credentials and asks for a fresh one, whatever the
\* setting says.
BeginRetrieval(c) ==
  /\ pc[c] = "idle"
  /\ used["job"] < MaxJobs /\ Count("job")
  /\ \E i \in Instances, k \in Keys, m \in Methods :
       /\ Goto(c, IF AdapterOf[k] # "method" /\ ~NeedsRefresh(cred[k]) THEN "using" ELSE "mutex")
       /\ Start(c, i, k, m, FALSE)
  /\ UNCHANGED <<cred, accepted, issued, setting>>

\* The worker asks while refreshing is enabled, for one method after the other
\* where the adapter knows methods.
BeginJob(c) ==
  /\ pc[c] = "idle" /\ setting
  /\ used["job"] < MaxJobs /\ Count("job")
  /\ \E i \in Instances, k \in Keys, m \in Methods :
       /\ AdapterOf[k] # "method" => NeedsRefresh(cred[k])
       /\ Start(c, i, k, m, TRUE)
  /\ Goto(c, "mutex")
  /\ UNCHANGED <<cred, accepted, issued, setting>>

\* Gmail's Retrieve was given a credential without an access token that lasts:
\* of an import, of a refresh that failed, or one that got old.
RefreshesItself(c) ==
  pc[c] = "using" /\ AdapterOf[job[c].key] = "single" /\ job[c].current.fresh = {}

\* The provider's side of a refresh: the token asked with is consumed and a new
\* one issued, or the answer carries none and the old one stays.
Rotates(k, token) ==
  \/ /\ issued' = [issued EXCEPT ![k] = @ + 1]
     /\ accepted' = [accepted EXCEPT ![k] = (@ \ {token}) \union {issued[k] + 1}]
  \/ UNCHANGED <<issued, accepted>>

\* It then asks the token endpoint, under no lock, and nobody stores the refresh
\* token of the answer.
RetrieveRefreshes(c) ==
  /\ RefreshesItself(c)
  /\ LET k == job[c].key  token == job[c].current.token
     IN  \/ token \in accepted[k] /\ Rotates(k, token) /\ Goto(c, "listing") /\ UNCHANGED <<job, used>>
         \/ token \in accepted[k] /\ Rotates(k, token) /\ Spend("error") /\ Leave(c)
         \/ token \notin accepted[k] /\ UNCHANGED <<issued, accepted, used>> /\ Leave(c)
  /\ UNCHANGED <<cred, setting>>

Asking(c) == pc[c] = "listing" \/ (pc[c] = "using" /\ ~RefreshesItself(c))

\* The provider refuses the access token: the request refreshes once more, by
\* force and with the credential it had listed.
Refused(c) ==
  /\ Asking(c) /\ ~job[c].force
  /\ Spend("refusal")
  /\ Goto(c, "mutex")
  /\ job' = [job EXCEPT ![c].force = TRUE]
  /\ UNCHANGED <<cred, accepted, issued, setting>>

Served(c) ==
  /\ Asking(c)
  /\ Leave(c)
  /\ UNCHANGED <<cred, accepted, issued, setting, used>>

\* acquireRefreshLock: one goroutine of a process per credential, and a mutex
\* that knows no context.
InMutex(c, k) == pc[c] \in Held \union {"connection", "advisory"} /\ job[c].key = k

LockMutex(c) ==
  /\ pc[c] = "mutex"
  /\ \A d \in Callers : job[d].at = job[c].at => ~InMutex(d, job[c].key)
  /\ Goto(c, "connection")
  /\ UNCHANGED <<cred, accepted, issued, setting, job, used>>

\* A connection of its own, kept until the refresh is over.
Connect(c) ==
  /\ pc[c] = "connection"
  /\ ~job[c].ended /\ ConnectionFree(c)
  /\ Goto(c, "advisory")
  /\ UNCHANGED <<cred, accepted, issued, setting, job, used>>

HoldsLock(c, k) == pc[c] \in Held /\ job[c].locked /\ job[c].key = k

SlipAdvisoryLock(c) ==
  /\ pc[c] = "advisory" /\ ~job[c].ended
  /\ Goto(c, "read")
  /\ job' = [job EXCEPT ![c].locked = TRUE]
  /\ UNCHANGED <<cred, accepted, issued, setting, used>>

AdvisoryLock(c) ==
  /\ pc[c] = "advisory" /\ ~job[c].ended
  /\ \A d \in Callers : ~HoldsLock(d, job[c].key)
  /\ Goto(c, "read")
  /\ job' = [job EXCEPT ![c].locked = TRUE]
  /\ UNCHANGED <<cred, accepted, issued, setting, used>>

\* What a caller does not refresh: with EnsureAccessToken a token of its method
\* that is still fresh; with Refresh a credential another caller has refreshed.
UpToDate(c, current) ==
  IF AdapterOf[job[c].key] = "method" THEN ~job[c].force /\ job[c].method \in current.fresh
  ELSE current.version # job[c].observed \/ (~job[c].force /\ ~NeedsRefresh(current))

\* The second connection: the credential as it is now, under the locks.
Read(c) ==
  /\ pc[c] = "read"
  /\ ~job[c].ended /\ ConnectionFree(c)
  /\ UNCHANGED cred
  /\ LET current == cred[job[c].key]
     IN  IF UpToDate(c, current) THEN Return(c, current)
         ELSE Goto(c, "remote") /\ job' = [job EXCEPT ![c].current = current]
  /\ UNCHANGED <<accepted, issued, setting, used>>

\* The answer's refresh token, or the one asked with.
Answered(k, token) == IF issued'[k] = issued[k] THEN token ELSE issued'[k]

\* The call to the token endpoint succeeds.
Remote(c) ==
  /\ pc[c] = "remote" /\ ~job[c].ended
  /\ LET k == job[c].key  token == job[c].current.token
     IN  /\ token \in accepted[k]
         /\ Rotates(k, token)
         /\ job' = [job EXCEPT ![c].got = Answered(k, token), ![c].outcome = "success"]
  /\ Goto(c, "store")
  /\ UNCHANGED <<cred, setting, used>>

\* The endpoint refuses a consumed token, fails, or its answer is lost.
RemoteFails(c) ==
  /\ pc[c] = "remote"
  /\ LET k == job[c].key  token == job[c].current.token
     IN  \/ token \notin accepted[k] /\ UNCHANGED <<issued, accepted, used>>
         \/ job[c].ended /\ token \in accepted[k] /\ Rotates(k, token) /\ UNCHANGED used
         \/ Spend("error") /\ token \in accepted[k] /\ Rotates(k, token)
  /\ job' = [job EXCEPT ![c].outcome = "failure"]
  /\ Goto(c, "store")
  /\ UNCHANGED <<cred, setting>>

\* What the caller makes of the row it read: refreshed, or marked as failed; a
\* failure keeps the token it was read with.
SlipRefreshed(c) ==
  LET j == job[c]  version == cred[j.key].version + 1
  IN  IF j.outcome = "failure" THEN [j.current EXCEPT !.version = version, !.status = "error"]
      ELSE [version |-> version, token |-> j.current.token, status |-> "active",
            fresh |-> IF AdapterOf[j.key] = "method" THEN j.current.fresh \union {j.method} ELSE Methods]

Refreshed(c) ==
  LET j == job[c]  version == cred[j.key].version + 1
  IN  IF j.outcome = "failure" THEN [j.current EXCEPT !.version = version, !.status = "error"]
      ELSE [version |-> version, token |-> j.got, status |-> "active",
            fresh |-> IF AdapterOf[j.key] = "method" THEN j.current.fresh \union {j.method} ELSE Methods]

\* UpsertCredential writes where the version is the one read; otherwise the row
\* belongs to someone else and stays, and its credential is handed out.
SlipStore(c) ==
  /\ pc[c] = "store" /\ ConnectionFree(c) /\ ~job[c].ended
  /\ cred' = [cred EXCEPT ![job[c].key] = Refreshed(c)]
  /\ IF job[c].outcome = "success" THEN Return(c, cred'[job[c].key]) ELSE Leave(c)
  /\ UNCHANGED <<accepted, issued, setting, used>>

Store(c) ==
  /\ pc[c] = "store" /\ ConnectionFree(c) /\ ~job[c].ended
  /\ IF cred[job[c].key].version = job[c].current.version
     THEN cred' = [cred EXCEPT ![job[c].key] = Refreshed(c)]
     ELSE UNCHANGED cred
  /\ IF job[c].outcome = "success" THEN Return(c, cred'[job[c].key]) ELSE Leave(c)
  /\ UNCHANGED <<accepted, issued, setting, used>>

StatementFails(c) ==
  /\ pc[c] \in {"advisory", "read", "store"}
  /\ Spend("error")
  /\ Leave(c)
  /\ UNCHANGED <<cred, accepted, issued, setting>>

\* A caller whose context has ended gives up at its next statement.
GiveUp(c) ==
  /\ job[c].ended
  /\ pc[c] \in {"connection", "advisory", "read", "store"}
  /\ Leave(c)
  /\ UNCHANGED <<cred, accepted, issued, setting, used>>

\* The deadline of a worker's item passes, or a request's client goes away.
SlipTimeout(c) ==
  /\ pc[c] \in {"mutex"} \union Refreshing /\ ~job[c].ended
  /\ job' = [job EXCEPT ![c].ended = TRUE]
  /\ UNCHANGED <<cred, accepted, issued, setting, pc, used>>

Timeout(c) ==
  /\ pc[c] \in Waiting \union Held /\ ~job[c].ended
  /\ job' = [job EXCEPT ![c].ended = TRUE]
  /\ UNCHANGED <<cred, accepted, issued, setting, pc, used>>

\* The database drops the session that holds the lock: the lock is free and its
\* holder does not know.
Drop(c) ==
  /\ pc[c] \in Held /\ job[c].locked
  /\ Spend("drop")
  /\ job' = [job EXCEPT ![c].locked = FALSE]
  /\ UNCHANGED <<cred, accepted, issued, setting, pc>>

Crash(i) ==
  /\ \E c \in Callers : job[c].at = i /\ pc[c] # "idle"
  /\ Spend("crash")
  /\ pc' = [c \in Callers |-> IF job[c].at = i THEN "idle" ELSE pc[c]]
  /\ job' = [c \in Callers |-> IF job[c].at = i THEN NoJob ELSE job[c]]
  /\ UNCHANGED <<cred, accepted, issued, setting>>

Expired(credential) ==
  [version |-> credential.version, token |-> credential.token, fresh |-> {},
   status |-> IF credential.status = "active" THEN "due" ELSE credential.status]

\* Time passes and the access tokens run out, in the row and in what callers
\* have read of it.
Expire(k) ==
  /\ cred[k].fresh # {}
  /\ Spend("expiry")
  /\ cred' = [cred EXCEPT ![k] = Expired(@)]
  /\ job' = [c \in Callers |-> IF job[c].key = k THEN [job[c] EXCEPT !.current = Expired(@)] ELSE job[c]]
  /\ UNCHANGED <<accepted, issued, setting, pc>>

\* An import that updates a mailbox replaces its credential in one transaction,
\* with the token of a new grant and whatever the version.
Import(k) ==
  /\ Spend("import")
  /\ issued' = [issued EXCEPT ![k] = @ + 1]
  /\ accepted' = [accepted EXCEPT ![k] = @ \union {issued[k] + 1}]
  /\ \E row \in Imported(cred[k].version + 1, issued[k] + 1) : cred' = [cred EXCEPT ![k] = row]
  /\ UNCHANGED <<setting, pc, job>>

Toggle ==
  /\ Spend("toggle")
  /\ setting' = ~setting
  /\ UNCHANGED <<cred, accepted, issued, pc, job>>

Next ==
  \/ \E c \in Callers :
       \/ BeginRetrieval(c) \/ BeginJob(c) \/ RetrieveRefreshes(c) \/ Refused(c) \/ Served(c)
       \/ LockMutex(c) \/ Connect(c) \/ AdvisoryLock(c) \/ Read(c) \/ Remote(c) \/ RemoteFails(c) \/ Store(c) \/ StatementFails(c) \/ GiveUp(c)
       \/ Timeout(c) \/ Drop(c)
  \/ \E i \in Instances : Crash(i)
  \/ \E k \in Keys : Expire(k) \/ Import(k)
  \/ Toggle

Spec == Init /\ [][Next]_vars

-----------------------------------------------------------------------------
(* Properties.                                                                *)

\* Every variable has its type.
TypeOK ==
  /\ cred \in [Keys -> Credential]
  /\ issued \in [Keys -> Nat]
  /\ accepted \in [Keys -> SUBSET Nat]
  /\ \A k \in Keys : accepted[k] \subseteq 1 .. issued[k]
  /\ setting \in BOOLEAN
  /\ pc \in [Callers -> Labels]
  /\ job \in [Callers -> Job]
  /\ used \in [Events \union {"job"} -> Nat]

\* Who talks to the token endpoint, or is about to store what it said.
Talks(c) == pc[c] \in Refreshing \/ RefreshesItself(c)

\* Until a connection breaks, one caller at a time talks to the provider about
\* a credential, whatever process it belongs to; only a Retrieve of Gmail that
\* refreshes by itself may meet another, and never one for Microsoft.
OneRefreshAtATime ==
  used["drop"] = 0 => \A c, d \in Callers :
    c # d /\ Talks(c) /\ Talks(d) /\ job[c].key = job[d].key =>
      AdapterOf[job[c].key] = "single" /\ (RefreshesItself(c) \/ RefreshesItself(d))

\* What the architecture asks for, a lock of the credential around every refresh
\* at the provider: nobody talks to it about a credential while another does.
RefreshesAreLocked ==
  used["drop"] = 0 => \A c, d \in Callers :
    c # d /\ Talks(c) /\ Talks(d) => job[c].key # job[d].key

\* The provider accepts the stored token of a credential, or a caller that may
\* still store it carries the successor.
Kept(k) ==
  \/ cred[k].token \in accepted[k]
  \/ \E c \in Callers :
       /\ pc[c] = "store" /\ job[c].key = k
       /\ job[c].got \in accepted[k] /\ job[c].current.version = cred[k].version

\* A rotation is forgotten only in a step in which a call or a statement fails,
\* a process dies or a caller's deadline has passed, or Gmail's Retrieve asks for
\* itself, or after a lock was lost; no interleaving of refreshes and imports
\* does it.
RotationKept == [][\A k \in Keys : Kept(k) /\ ~Kept(k)' =>
  \/ \E e \in {"error", "crash"} : used'[e] > used[e]
  \/ used["drop"] > 0
  \/ \E c \in Callers : job[c].key = k /\ (job[c].ended \/ (RefreshesItself(c) /\ pc'[c] = "listing"))]_vars

\* The stored token never goes back to an older one: neither a refresh that an
\* import has overtaken nor one that has lost its lock brings a consumed or a
\* replaced token back.
StoredTokenAdvances == [][\A k \in Keys : cred'[k].token >= cred[k].token]_vars

\* A step that can go on does, and the deadline of a worker's item ends it; the
\* other callers have none: neither a request nor the first synchronisation of a
\* mailbox.
Progress(c) ==
  \/ RetrieveRefreshes(c) \/ Served(c) \/ LockMutex(c) \/ Connect(c) \/ AdvisoryLock(c) \/ Read(c)
  \/ Remote(c) \/ RemoteFails(c) \/ Store(c) \/ GiveUp(c)
LiveSpec == Spec /\ \A c \in Callers : WF_vars(Progress(c)) /\ WF_vars(job[c].worker /\ Timeout(c))

\* Callers without a deadline hold every connection of a process.
Exhausted(i) == Cardinality({c \in Pinned(i) : ~job[c].worker}) >= PoolSize

\* Every refresh ends, though callers may take all connections of a pool for
\* their locks and wait for one more to read the credential: unless none of them
\* has a deadline.
RefreshEnds == \A c \in Callers :
  pc[c] # "idle" ~> pc[c] = "idle" \/ \E i \in Instances : Exhausted(i)
=============================================================================
