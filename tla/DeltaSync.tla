------------------------------ MODULE DeltaSync ------------------------------
(* MessageCacheService.Sync for a Microsoft mailbox: one folder, read through *)
(* Graph's delta feed or through IMAP UIDs, with the fallback from one to the *)
(* other, the cursors both leave in the sync state, expired cursors, and the  *)
(* rows they store and delete.  It implements FolderMirror.                   *)
EXTENDS Naturals, Sequences, FiniteSets, Functions

CONSTANTS
  Items,       \* what the folder may come to hold, each with its provider id
  ExtOf,       \* the Message-ID of an item: the key of its row
  AliasItems,  \* the items addressed to the mailbox's alias
  Poor,        \* the items that may not come to be a row: without a body, one
               \* that cannot be parsed, without an id or a date
  Nobody,
  Syncers,     \* callers of Sync
  OneProcess,  \* they share the mutex of one process
  Offered,     \* lists of methods a mailbox may offer, Graph first
  PageSize,    \* changes on a page of the delta feed
  MaxPages,    \* pages of one Sync (20)
  Limit,       \* messages of one Sync (500)
  MaxLeaves,   \* bound on removals
  MaxEvents    \* bound on the events together

ASSUME ItemsAssumption == IsFiniteSet(Items) /\ AliasItems \cup Poor \subseteq Items /\ Nobody \notin Items
ASSUME SyncAssumption ==
  /\ Offered \subseteq {<<"graph">>, <<"imap">>, <<"graph", "imap">>} /\ OneProcess \in BOOLEAN
  /\ PageSize \in Nat \ {0} /\ MaxPages \in Nat \ {0} /\ Limit \in Nat \ {0}
ASSUME BoundsAssumption == MaxLeaves \in Nat /\ MaxEvents \in Nat

VARIABLES
  methods, \* the methods this mailbox offers
  log,     \* what happened in the folder, as the delta feed tells it
  uids,    \* the item of each UID; Nobody once it has left
  epoch,   \* the generation of delta tokens and the UIDVALIDITY
  cache,   \* mailbox_cached_messages
  state,   \* mailbox_message_sync_states: delta cursor, UIDVALIDITY, highest UID
  sync,    \* what each caller's Sync knows
  used     \* how often each event has happened
vars == <<methods, log, uids, epoch, cache, state, sync, used>>
provider == <<methods, log, uids, epoch>>

Exts == {ExtOf[i] : i \in Items}
Arrived(i) == \E n \in DOMAIN log : log[n] = [item |-> i, kind |-> "add"]
Left(i) == \E n \in DOMAIN log : log[n] = [item |-> i, kind |-> "del"]
\* The last change of its item so far.
Last(n) == \A k \in n + 1 .. Len(log) : log[k].item # log[n].item
Box == {i \in Items : \E n \in DOMAIN log : Last(n) /\ log[n] = [item |-> i, kind |-> "add"]}

\* A delta token: the changes told, the length of the history when the
\* enumeration began, and the generation it was issued in.
Token(pos, since) == [pos |-> pos, since |-> since, epoch |-> epoch.token]
NoCursor == [pos |-> 0, since |-> 0, epoch |-> 0]
NoState == [cursor |-> NoCursor, validity |-> 0, high |-> 0]
NoRow == [item |-> Nobody, method |-> "none"]
Idle == [pc |-> "idle", alias |-> FALSE, asked |-> FALSE, left |-> <<>>, from |-> NoState,
         next |-> NoState, again |-> FALSE, pages |-> 0, adds |-> {}, dels |-> {}]

Events == {
  "return",    \* mail is moved out of the folder and back
  "asked",     \* a sync asks for one method by name
  "alias",     \* a sync through the alias
  "expire",    \* the delta tokens expire
  "renumber",  \* a new UIDVALIDITY
  "failure",   \* a call to the provider fails
  "interrupt"} \* a statement fails or the process dies
Spend(e) == SumFunction(used) < MaxEvents /\ used' = [used EXCEPT ![e] = @ + 1]

Init ==
  /\ methods \in Offered /\ log = <<>> /\ uids = <<>> /\ epoch = [token |-> 1, uid |-> 1]
  /\ cache = [e \in Exts |-> NoRow]
  /\ state = NoState
  /\ sync = [s \in Syncers |-> Idle]
  /\ used = [e \in Events |-> 0]

-----------------------------------------------------------------------------
(* The folder at the provider.                                                *)

\* New mail, or mail moved out and back: Graph keeps its id, IMAP does not.
Arrive(i) ==
  /\ \A j \in Box : ExtOf[j] # ExtOf[i]
  /\ IF Arrived(i) THEN Spend("return") ELSE UNCHANGED used
  /\ log' = Append(log, [item |-> i, kind |-> "add"]) /\ uids' = Append(uids, i)
  /\ UNCHANGED <<methods, epoch, cache, state, sync>>

Leave(i) ==
  /\ i \in Box /\ Cardinality({n \in DOMAIN log : log[n].kind = "del"}) < MaxLeaves
  /\ log' = Append(log, [item |-> i, kind |-> "del"])
  /\ uids' = [u \in DOMAIN uids |-> IF uids[u] = i THEN Nobody ELSE uids[u]]
  /\ UNCHANGED <<methods, epoch, cache, state, sync, used>>

\* Graph no longer knows its tokens (410); IMAP numbers the folder anew.
Expire ==
  /\ Spend("expire") /\ epoch' = [epoch EXCEPT !.token = @ + 1]
  /\ UNCHANGED <<methods, log, uids, cache, state, sync>>

Renumber ==
  /\ Spend("renumber") /\ epoch' = [epoch EXCEPT !.uid = @ + 1]
  /\ uids' \in {q \in [1 .. Cardinality(Box) -> Box] : \A u, v \in DOMAIN q : u < v =>
                   \E j, k \in DOMAIN uids : j < k /\ uids[j] = q[u] /\ uids[k] = q[v]}
  /\ UNCHANGED <<methods, log, cache, state, sync>>

-----------------------------------------------------------------------------
(* Sync.                                                                      *)

Now(s, changes) == sync' = [sync EXCEPT ![s] = changes]

\* The mutex, the state, and the methods: one asked for by name or all of them.
\* A sync of the alias uses the mailbox's state.
Begin(s) ==
  /\ sync[s].pc = "idle" /\ (OneProcess => \A t \in Syncers : sync[t].pc = "idle")
  /\ \E alias \in BOOLEAN, asked \in BOOLEAN, asks \in {methods, <<"graph">>, <<"imap">>} :
       /\ asked \/ asks = methods
       /\ asked => Len(asks) = 1 /\ \E k \in DOMAIN methods : methods[k] = asks[1]
       /\ \/ ~alias /\ ~asked /\ UNCHANGED used
          \/ alias /\ ~asked /\ Spend("alias")
          \/ ~alias /\ asked /\ Spend("asked")
       /\ Now(s, [Idle EXCEPT !.pc = "ask", !.alias = alias, !.asked = asked, !.left = asks, !.from = state])
  /\ UNCHANGED <<provider, cache, state>>

\* What the feed tells from a token on: the last change of an item; an
\* enumeration from the start is silent on what had gone before it began.
Told(token, last, kind) ==
  {n \in token.pos + 1 .. last : log[n].kind = kind /\ Last(n) /\ (kind = "add" \/ n > token.since)}

\* The batch of messages to store, each at its place in the answer.
Listed(ns, list) == {[at |-> n, item |-> list[n]] : n \in ns}
LogItems == [n \in DOMAIN log |-> log[n].item]

SlipPageToken(token, last) == [token EXCEPT !.pos = Len(log)]

\* The link a page ends with: to the next page, or to what comes after the last.
PageToken(token, last) == [token EXCEPT !.pos = last]

GraphToken(s) ==
  IF sync[s].pages > 0 THEN sync[s].next.cursor
  ELSE IF sync[s].from.cursor = NoCursor THEN Token(0, Len(log)) ELSE sync[s].from.cursor

SlipGathered(before, ns) == {log[n].item : n \in ns}

\* The removals of all pages of one answer.
Gathered(before, ns) == before \union {log[n].item : n \in ns}

\* syncGraphDelta takes a page; another follows while there is one, up to the
\* number of pages and messages of one Sync.
GraphPage(s) ==
  /\ sync[s].pc = "ask" /\ Head(sync[s].left) = "graph"
  /\ LET token == GraphToken(s)
         last == IF token.pos + PageSize < Len(log) THEN token.pos + PageSize ELSE Len(log)
         adds == sync[s].adds \union Listed(Told(token, last, "add"), LogItems)
         over == last = Len(log) \/ sync[s].pages + 1 = MaxPages \/ Cardinality(adds) >= Limit
     IN  /\ token.epoch = epoch.token
         /\ Now(s, [sync[s] EXCEPT !.pages = @ + 1, !.adds = adds, !.dels = Gathered(@, Told(token, last, "del")),
                                   !.next = [NoState EXCEPT !.cursor = PageToken(token, last)],
                                   !.pc = IF over THEN "upsert" ELSE "ask"])
  /\ UNCHANGED <<provider, cache, state, used>>

\* An expired cursor starts the sync over from nothing, once.
Restart(s) == [Idle EXCEPT !.pc = "ask", !.alias = sync[s].alias, !.asked = sync[s].asked, !.again = TRUE,
                           !.left = IF sync[s].asked THEN sync[s].left ELSE methods]

Refused(s) ==
  /\ sync[s].pc = "ask" /\ Head(sync[s].left) = "graph" /\ GraphToken(s).epoch # epoch.token
  /\ Now(s, IF sync[s].again THEN [sync[s] EXCEPT !.pc = "failed"] ELSE Restart(s))
  /\ UNCHANGED <<provider, cache, state, used>>

SlipKnownUID(known) == known.high

\* UIDs of another UIDVALIDITY say nothing.
KnownUID(known) == IF known.validity \notin {0, epoch.uid} THEN 0 ELSE known.high

\* syncMicrosoftIMAP: the messages above the known UID, lowest first, up to the
\* limit; no word of those that have left, and no delta cursor.  A message that is
\* sent without a body, or that cannot be read, raises the highest UID and is
\* skipped.
ImapSearch(s) ==
  /\ sync[s].pc = "ask" /\ Head(sync[s].left) = "imap"
  /\ LET high == KnownUID(sync[s].from)
         found == {u \in DOMAIN uids : u > high /\ uids[u] # Nobody}
         taken == {u \in found : Cardinality({v \in found : v < u}) < Limit}
     IN  \E top \in taken \union {high}, skipped \in SUBSET {u \in taken : uids[u] \in Poor} :
           /\ \A u \in taken : u <= top
           /\ Now(s, [sync[s] EXCEPT !.pc = "upsert", !.adds = Listed(taken \ skipped, uids),
                                     !.next = [cursor |-> NoCursor, validity |-> epoch.uid, high |-> top]])
  /\ UNCHANGED <<provider, cache, state, used>>

\* A call fails: what its pages said is dropped, and the next method is asked
\* with the same request unless one was asked for by name.
Failure(s) ==
  /\ sync[s].pc = "ask" /\ Spend("failure")
  /\ Now(s, IF sync[s].asked \/ Len(sync[s].left) = 1 THEN [sync[s] EXCEPT !.pc = "failed"]
            ELSE [sync[s] EXCEPT !.left = Tail(@), !.pages = 0, !.adds = {}, !.dels = {}])
  /\ UNCHANGED <<provider, cache, state>>

\* The state goes back with its error, its cursors as they were or emptied.
SaveFailure(s) ==
  /\ sync[s].pc = "failed"
  /\ state' = sync[s].from
  /\ Now(s, Idle)
  /\ UNCHANGED <<provider, cache, used>>

\* What is stored under an identity; a sync of the alias stores its mail only, and
\* cachedMessageFrom makes no row of mail without an id or a date.
Batch(s, e, dropped) ==
  {a \in sync[s].adds : ExtOf[a.item] = e /\ a.item \notin dropped /\ (sync[s].alias => a.item \in AliasItems)}
Latest(batch) == CHOOSE a \in batch : \A b \in batch : b.at <= a.at

\* The rows of the batch in its order: the last one of an identity stays.
Upsert(s) ==
  /\ sync[s].pc = "upsert"
  /\ \E dropped \in SUBSET Poor :
       cache' = [e \in Exts |-> IF Batch(s, e, dropped) = {} THEN cache[e]
                                ELSE [item |-> Latest(Batch(s, e, dropped)).item, method |-> Head(sync[s].left)]]
  /\ Now(s, [sync[s] EXCEPT !.pc = "delete"])
  /\ UNCHANGED <<provider, state, used>>

SlipDoomed(s, row) == row.item # Nobody /\ \E i \in sync[s].dels : ExtOf[i] = ExtOf[row.item]

\* The rows DeleteCachedMessages deletes: of the method, by provider id.
Doomed(s, row) == row.item \in sync[s].dels /\ row.method = Head(sync[s].left)

Delete(s) ==
  /\ sync[s].pc = "delete"
  /\ cache' = [e \in Exts |-> IF Doomed(s, cache[e]) THEN NoRow ELSE cache[e]]
  /\ Now(s, [sync[s] EXCEPT !.pc = "save"])
  /\ UNCHANGED <<provider, state, used>>

\* The cursors of the answer replace all of the old ones.
Save(s) ==
  /\ sync[s].pc = "save"
  /\ state' = sync[s].next
  /\ Now(s, Idle)
  /\ UNCHANGED <<provider, cache, used>>

\* A statement fails, whose error Sync returns without saving anything, or the
\* process dies.
Interrupted(s) ==
  /\ sync[s].pc # "idle" /\ Spend("interrupt")
  /\ Now(s, Idle)
  /\ UNCHANGED <<provider, cache, state>>

Step(s) == GraphPage(s) \/ Refused(s) \/ ImapSearch(s) \/ SaveFailure(s) \/ Upsert(s) \/ Delete(s) \/ Save(s)
Folder == Expire \/ Renumber \/ \E i \in Items : Arrive(i) \/ Leave(i)
Next == Folder \/ \E s \in Syncers : Begin(s) \/ Step(s) \/ Failure(s) \/ Interrupted(s)

Spec == Init /\ [][Next]_vars
\* The probe worker syncs again and again (MessageProbe), and a Sync that began
\* goes on.
Fairness == \A s \in Syncers : WF_vars(Begin(s)) /\ WF_vars(Step(s))
LiveSpec == Spec /\ Fairness

-----------------------------------------------------------------------------
(* Properties.                                                                *)

Methods == {<<>>, <<"graph">>, <<"imap">>, <<"graph", "imap">>}
Tokens == [pos : Nat, since : Nat, epoch : Nat]
States == [cursor : Tokens, validity : Nat, high : Nat]
Syncs ==
  [pc : {"idle", "ask", "failed", "upsert", "delete", "save"}, alias : BOOLEAN, asked : BOOLEAN, left : Methods,
   from : States, next : States, again : BOOLEAN, pages : Nat,
   adds : SUBSET [at : Nat, item : Items], dels : SUBSET Items]

\* Every variable has its type, and mail is cached under its own identity.
TypeOK ==
  /\ methods \in Offered
  /\ log \in Seq([item : Items, kind : {"add", "del"}]) /\ uids \in Seq(Items \union {Nobody})
  /\ epoch \in [token : Nat, uid : Nat]
  /\ cache \in [Exts -> [item : Items \union {Nobody}, method : {"graph", "imap", "none"}]]
  /\ \A e \in Exts : cache[e].item # Nobody => ExtOf[cache[e].item] = e
  /\ state \in States
  /\ sync \in [Syncers -> Syncs]
  /\ \A s \in Syncers : sync[s].pc \in {"ask", "upsert", "delete"} => sync[s].left # <<>>
  /\ used \in [Events -> Nat]

Held(i) == cache[ExtOf[i]].item # Nobody

\* A sync of the alias stores its mail only and moves the mailbox's cursor, and
\* the removals of an answer undo a return that follows them.
Lossy == used["alias"] > 0 \/ used["return"] > 0

\* A saved cursor has passed over nothing that can be read: such mail, still in
\* the folder, that lies behind the delta cursor, or at or under the highest UID,
\* has its row, whatever mail beside it cannot be read.
NothingSkipped ==
  /\ ~Lossy /\ state.cursor.epoch = epoch.token =>
       \A n \in 1 .. state.cursor.pos :
         log[n].kind = "add" /\ Last(n) /\ log[n].item \notin Poor => Held(log[n].item)
  /\ used["alias"] = 0 /\ state.validity = epoch.uid =>
       \A u \in DOMAIN uids : u <= state.high /\ uids[u] \notin {Nobody} \cup Poor => Held(uids[u])

\* As long as only Graph answers, its saved delta cursor has passed over no
\* removal since its enumeration began: mail that left before it has no row.
TombstonesApplied ==
  used["failure"] + used["asked"] = 0 /\ state.cursor.epoch = epoch.token =>
    \A n \in state.cursor.since + 1 .. state.cursor.pos :
      log[n].kind = "del" /\ Last(n) => cache[ExtOf[log[n].item]].item # log[n].item

Mirror == INSTANCE FolderMirror WITH
  Due <- Items \ Poor, present <- Box, gone <- {i \in Items : Left(i)}, held <- [e \in Exts |-> cache[e].item], lossy <- Lossy

\* The cache learns and forgets as FolderMirror says, and (under LiveSpec) comes
\* to hold the mail that stays and can be read.
MirrorSpec == Mirror!Spec
=============================================================================
