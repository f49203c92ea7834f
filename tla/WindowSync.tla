----------------------------- MODULE WindowSync -----------------------------
(***************************************************************************)
(* MessageCacheService.Sync for providers without an incremental retriever *)
(* (Gmail): one folder of one mailbox, its cached messages and its saved   *)
(* sync state.  A first import pages backward by a "before" time; later    *)
(* syncs ask for what arrived since one overlap before the newest message. *)
(*                                                                         *)
(* Callers (import worker, probe worker, HTTP requests) of all server      *)
(* instances share the database.  The lock of Sync is a mutex of its       *)
(* process.  Each database statement and each provider call is a step;     *)
(* mail arrives, the cache is purged and processes die between the steps.  *)
(***************************************************************************)
EXTENDS Integers, FiniteSets

CONSTANTS
  Messages,      \* mail the provider may come to hold in the folder
  AliasMail,     \* the messages addressed to an alias of the mailbox
  Callers,       \* threads that call Sync
  Instances,     \* server processes
  InstanceOf,    \* the process of a caller
  NoCaller,
  QueryLimit,    \* messages Sync asks for (500)
  AdapterLimit,  \* messages the adapter returns at most
  Overlap,       \* messageSyncOverlap, in seconds
  Lateness,      \* how far behind the newest date mail can still turn up
  MaxTime,       \* bound on dates
  MaxPurges,     \* bound on purges
  MaxAliasSyncs, \* bound on syncs asked for through the alias
  MaxFetchErrors,\* bound on provider calls that fail
  MaxErrors,     \* bound on database statements that fail
  MaxCrashes,    \* bound on process crashes
  MaxFaults      \* bound on all these together

ASSUME ConstantsAssumption ==
  /\ AliasMail \subseteq Messages /\ IsFiniteSet(Messages)
  /\ InstanceOf \in [Callers -> Instances]
  /\ NoCaller \notin Callers
  /\ {QueryLimit, AdapterLimit} \subseteq Nat \ {0}
  /\ {Overlap, Lateness, MaxTime, MaxPurges, MaxAliasSyncs, MaxFetchErrors,
      MaxErrors, MaxCrashes, MaxFaults} \subseteq Nat

VARIABLES
  at,      \* the received date of each message; 0: not delivered yet
  newest,  \* the newest received date
  cache,   \* the messages in mailbox_cached_messages
  purged,  \* history: removed on request, and no reset asked for them since
  cut,     \* history: what the adapter left out of an answer Sync took for all
  backlog, \* history: what the provider held when an import asked first
  state,   \* the row of mailbox_message_sync_states, or NoState
  lock,    \* the caller that holds the mutex in each instance
  sync,    \* what the Sync call of each caller knows
  purge,   \* a purge that has still to reset the sync state
  used     \* counters of the bounded steps

vars == <<at, newest, cache, purged, cut, backlog, state, lock, sync, purge, used>>

-----------------------------------------------------------------------------
Times == 0 .. MaxTime   \* 0 stands for a nil time and for an empty cursor

State   == [last : Times, cursor : Times]
NoState == [last |-> -1, cursor |-> -1]

Pcs == {"idle", "loaded", "fetched", "stored", "failed", "saved"}

\* A call that knows a state and has no answer.
Known(pc, alias, last, cursor) ==
  [pc |-> pc, alias |-> alias, last |-> last, cursor |-> cursor,
   batch |-> {}, complete |-> FALSE]

Idle == Known("idle", FALSE, 0, 0)

Call == [pc : Pcs, alias : BOOLEAN, last : Times, cursor : Times,
         batch : SUBSET Messages, complete : BOOLEAN]

\* The bounded steps.
Kinds == {"purge", "alias", "fetch", "error", "crash"}

Delivered == {m \in Messages : at[m] > 0}

TypeOK ==
  /\ at \in [Messages -> Times]
  /\ newest \in Times
  /\ cache \subseteq Delivered
  /\ purged \subseteq Delivered
  /\ cut \subseteq Delivered
  /\ backlog \subseteq Delivered
  /\ state \in State \union {NoState}
  /\ lock \in [Instances -> Callers \union {NoCaller}]
  /\ sync \in [Callers -> Call]
  /\ \A c \in Callers : sync[c].batch \subseteq Delivered
  /\ purge \in BOOLEAN
  /\ used \in [Kinds -> Nat]

Init ==
  /\ at = [m \in Messages |-> 0]
  /\ newest = 0
  /\ cache = {}
  /\ purged = {}
  /\ cut = {}
  /\ backlog = {}
  /\ state = NoState
  /\ lock = [i \in Instances |-> NoCaller]
  /\ sync = [c \in Callers |-> Idle]
  /\ purge = FALSE
  /\ used = [k \in Kinds |-> 0]

Faults == used.purge + used.error + used.crash + used.alias + used.fetch
Spend(k, max) == used[k] < max /\ Faults < MaxFaults /\ used' = [used EXCEPT ![k] = @ + 1]

\* Mail turns up in the folder, dated at most Lateness before the newest.
Deliver(m) ==
  /\ at[m] = 0
  /\ \E t \in 1 .. MaxTime :
       /\ t >= newest - Lateness
       /\ at' = [at EXCEPT ![m] = t]
       /\ newest' = IF t > newest THEN t ELSE newest
  /\ UNCHANGED <<cache, purged, cut, backlog, state, lock, sync, purge, used>>

-----------------------------------------------------------------------------
(* Sync.                                                                   *)

\* The mutex of the mailbox and folder, then GetMessageSyncState.  A sync
\* through the alias uses the mutex and the state of the mailbox.
Load(c) ==
  /\ sync[c].pc = "idle" /\ lock[InstanceOf[c]] = NoCaller
  /\ lock' = [lock EXCEPT ![InstanceOf[c]] = c]
  /\ \E alias \in BOOLEAN :
       /\ IF alias THEN Spend("alias", MaxAliasSyncs) ELSE UNCHANGED used
       /\ sync' = [sync EXCEPT ![c] =
            IF state = NoState THEN Known("loaded", alias, 0, 0)
            ELSE Known("loaded", alias, state.last, state.cursor)]
  /\ UNCHANGED <<at, newest, cache, purged, cut, backlog, state, purge>>

SlipInWindow(m, s) ==  \* slip: no overlap
  IF s.cursor > 0 THEN at[m] < s.cursor ELSE s.last > 0 => at[m] > s.last

\* The window asked for: a backfill looks below its cursor, otherwise from the
\* overlap on; without a state the whole folder.
InWindow(m, s) ==
  IF s.cursor > 0 THEN at[m] < s.cursor
  ELSE s.last > 0 => at[m] >= s.last - Overlap

Wanted(s) ==
  {m \in Delivered : InWindow(m, s) /\ (s.alias => m \in AliasMail)}

\* What an adapter answers: all of it, or the newest AdapterLimit messages.
IsAnswer(batch, wanted) ==
  \/ batch = wanted /\ Cardinality(wanted) <= AdapterLimit
  \/ /\ Cardinality(batch) = AdapterLimit
     /\ \A m \in batch : \A n \in wanted \ batch : at[m] >= at[n]

\* A short answer is taken for the end of the window.
Complete(batch) == Cardinality(batch) < QueryLimit

\* The answer, and what Sync makes of it.
Answered(alias, last, cursor, batch) ==
  [pc |-> "fetched", alias |-> alias, last |-> last, cursor |-> cursor,
   batch |-> batch, complete |-> Complete(batch)]

\* Retrieve; the cursor and the newest date follow from the answer.
Fetch(c) ==
  /\ sync[c].pc = "loaded"
  /\ \E batch \in SUBSET Wanted(sync[c]) :
       /\ IsAnswer(batch, Wanted(sync[c]))
       /\ \E last, cursor \in Times :
            /\ last \in {sync[c].last} \union {at[m] : m \in batch}
            /\ last >= sync[c].last /\ \A m \in batch : at[m] <= last
            /\ IF Complete(batch) THEN cursor = 0
               ELSE /\ cursor \in {at[m] : m \in batch}
                    /\ \A m \in batch : cursor <= at[m]
            /\ sync' = [sync EXCEPT ![c] =
                 Answered(sync[c].alias, last, cursor, batch)]
       /\ cut' = IF Complete(batch) THEN cut \union (Wanted(sync[c]) \ batch) ELSE cut
  /\ backlog' = IF sync[c].last + sync[c].cursor = 0 THEN Delivered ELSE backlog
  /\ UNCHANGED <<at, newest, cache, purged, state, lock, purge, used>>

\* Retrieve fails: its empty answer counts as a complete one.
FetchFails(c) ==
  /\ sync[c].pc = "loaded"
  /\ Spend("fetch", MaxFetchErrors)
  /\ sync' = [sync EXCEPT ![c] = Known("failed", sync[c].alias, sync[c].last, 0)]
  /\ UNCHANGED <<at, newest, cache, purged, cut, backlog, state, lock, purge>>

\* SyncIncremental fails before it finds that the provider has no retriever
\* for it (the mailbox or the provider cannot be looked up).
LookupFails(c) ==
  /\ sync[c].pc = "loaded"
  /\ Spend("error", MaxErrors)
  /\ sync' = [sync EXCEPT ![c] =
       Known("failed", sync[c].alias, sync[c].last, sync[c].cursor)]
  /\ UNCHANGED <<at, newest, cache, purged, cut, backlog, state, lock, purge>>

Return(c) ==
  /\ sync' = [sync EXCEPT ![c] = Idle]
  /\ lock' = [lock EXCEPT ![InstanceOf[c]] = NoCaller]

\* SaveMessageSyncState: the newest date never goes back, the cursor is
\* overwritten.
Merged(s) ==
  [last   |-> IF s.last > state.last THEN s.last ELSE state.last,
   cursor |-> s.cursor]

\* The error is recorded, on a context that is not cancelled; the result of
\* this statement is ignored.
SaveFailure(c) ==
  /\ sync[c].pc = "failed"
  /\ \/ state' = Merged(sync[c]) /\ UNCHANGED used
     \/ Spend("error", MaxErrors) /\ UNCHANGED state
  /\ Return(c)
  /\ UNCHANGED <<at, newest, cache, purged, cut, backlog, purge>>

\* UpsertCachedMessages, one transaction.
Upsert(c) ==
  /\ sync[c].pc = "fetched"
  /\ cache' = cache \union sync[c].batch
  /\ purged' = purged \ sync[c].batch
  /\ cut' = cut \ sync[c].batch
  /\ sync' = [sync EXCEPT ![c].pc = "stored"]
  /\ UNCHANGED <<at, newest, backlog, state, lock, purge, used>>

Save(c) ==
  /\ sync[c].pc = "stored"
  /\ state' = Merged(sync[c])
  /\ sync' = [sync EXCEPT ![c].pc = "saved"]
  /\ UNCHANGED <<at, newest, cache, purged, cut, backlog, lock, purge, used>>

\* A statement fails (or the caller's context ends): Sync returns at once.
StatementFails(c) ==
  /\ sync[c].pc \in {"fetched", "stored", "saved"}
  /\ Spend("error", MaxErrors)
  /\ Return(c)
  /\ UNCHANGED <<at, newest, cache, purged, cut, backlog, state, purge>>

\* List reads the first page for the answer; then the mutex is released.
Finish(c) ==
  /\ sync[c].pc = "saved"
  /\ Return(c)
  /\ UNCHANGED <<at, newest, cache, purged, cut, backlog, state, purge, used>>

Sync(c) ==
  \/ Load(c) \/ Fetch(c) \/ FetchFails(c) \/ LookupFails(c) \/ SaveFailure(c)
  \/ Upsert(c) \/ Save(c) \/ StatementFails(c) \/ Finish(c)

-----------------------------------------------------------------------------
(* Purge, DeleteManaged and faults.  None of them takes the mutex.         *)

\* The oldest cached messages (perhaps none), or those of a range of dates, are
\* deleted.  A purge asked to reset the cursor goes on to do so.
Purge ==
  /\ Spend("purge", MaxPurges)
  /\ \E from, before \in 1 .. MaxTime + 1 :
       LET doomed == {m \in cache : from <= at[m] /\ at[m] < before}
       IN  /\ cache' = cache \ doomed
           /\ purged' = purged \union doomed
           /\ purge' \in (IF from = 1 THEN BOOLEAN ELSE {FALSE})
  /\ ~purge
  /\ UNCHANGED <<at, newest, cut, backlog, state, lock, sync>>

\* Some Sync call has read the state and not returned.
InFlight == \E c \in Callers : sync[c].pc # "idle"

SlipReset ==  \* slip: the cursor is emptied and the newest date is kept
  /\ purge /\ purge' = FALSE
  /\ state' = IF state = NoState THEN NoState ELSE [state EXCEPT !.cursor = 0]
  /\ purged' = IF InFlight THEN purged ELSE {}
  /\ cut' = IF InFlight THEN cut ELSE {}
  /\ UNCHANGED <<at, newest, cache, backlog, lock, sync, used>>

\* ResetMessageSyncState.  What was purged or cut is owed to the cache again,
\* unless a Sync call is under way, which may yet save the state it had read.
Reset ==
  /\ purge /\ purge' = FALSE
  /\ state' = NoState
  /\ purged' = IF InFlight THEN purged ELSE {}
  /\ cut' = IF InFlight THEN cut ELSE {}
  /\ UNCHANGED <<at, newest, cache, backlog, lock, sync, used>>

\* The reset fails, or the process dies after the purge; the purges bound it.
ResetFails ==
  /\ purge /\ purge' = FALSE
  /\ UNCHANGED <<at, newest, cache, purged, cut, backlog, state, lock, sync, used>>

\* The process dies; its mutexes and calls are gone.
Crash(i) ==
  /\ Spend("crash", MaxCrashes)
  /\ sync' = [c \in Callers |-> IF InstanceOf[c] = i THEN Idle ELSE sync[c]]
  /\ lock' = [lock EXCEPT ![i] = NoCaller]
  /\ UNCHANGED <<at, newest, cache, purged, cut, backlog, state, purge>>

-----------------------------------------------------------------------------
Next ==
  \/ \E m \in Messages : Deliver(m)
  \/ \E c \in Callers : Sync(c)
  \/ Purge \/ Reset \/ ResetFails
  \/ \E i \in Instances : Crash(i)

Spec == Init /\ [][Next]_vars

-----------------------------------------------------------------------------
(* Properties.                                                             *)

\* The window a later sync will ask for, now or after the backfill it is in.
Reachable(m) ==
  \/ state = NoState \/ state.last = 0
  \/ at[m] < state.cursor
  \/ at[m] >= state.last - Overlap

\* The adapter answers with less than Sync asks for, as Gmail's does (100 of
\* 500): every answer counts as complete, and the cursor stays empty.
Clamped == AdapterLimit < QueryLimit

\* No sync was asked for through the alias, which advances the state of its
\* mailbox past mail it does not store.
Plain == used.alias = 0

\* The saved state is never ahead of the cache: mail the provider holds and the
\* cache does not is in a window that a later sync will ask for, whatever
\* arrived, failed or crashed in between (the upsert comes before the save), or
\* stood behind as much newer mail of its window as the adapter returns.
NothingSkipped ==
  Plain => \A m \in Delivered \ (cache \union purged \union cut) : Reachable(m)

\* When Sync reports complete, which is what ends an initial import
\* (initial_message_sync_worker.go:85-92), the cache has all mail the provider
\* held when the import asked for its first batch.
CompleteImportIsFull ==
  Plain => \A c \in Callers :
    sync[c].pc = "saved" /\ sync[c].complete =>
      backlog \subseteq cache \union purged

-----------------------------------------------------------------------------
(* Liveness: the probe worker calls Sync in every round                    *)
(* (message_probe_worker.go:83-109) and a call comes to its end.           *)

Fairness == \A c \in Callers : WF_vars(Sync(c))

FairSpec == Spec /\ Fairness /\ WF_vars(Reset \/ ResetFails)

\* All mail that reaches the folder reaches the cache, through everything that
\* arrives and fails meanwhile, or is cut off by an answer of the adapter;
\* purged and cut mail does so once a reset asks for it.
MailIsCached ==
  \A m \in Messages : (at[m] > 0 /\ m \notin purged \union cut)
                    ~> (m \in cache \union purged \union cut \/ ~Plain)
=============================================================================
