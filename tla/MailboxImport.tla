---------------------------- MODULE MailboxImport ----------------------------
(***************************************************************************)
(* Imports of mailboxes: service/importexport.go on PostgreSQL             *)
(* (repository/postgres/import_formats.go) and the worker that fetches the *)
(* mail of what was imported (service/initial_message_sync_worker.go).     *)
(* A request previews a file, imports it in a serializable transaction and *)
(* then, outside of it, ensures a pickup key, adds the capability rows and *)
(* queues the first synchronisation of every imported mailbox.             *)
(*                                                                         *)
(* A transaction reads its snapshot and its own writes; it can commit when *)
(* no row it read has been written since.  Waiting for row locks, which    *)
(* ends in a commit, a serialization failure or a deadlock error, is part  *)
(* of Commit and Abort.  Other requests use single statements.             *)
(***************************************************************************)
EXTENDS MailboxTables, FiniteSets, SequencesExt

CONSTANTS
    Clients,     \* administrators that import files
    Workers,     \* goroutines of the initial synchronisation
    QueueBound,  \* mailboxes its queue holds (1024)
    MaxRequests,
    MaxEvents    \* failing steps, crashes and statements of others together

ASSUME ImportAssumption == QueueBound \in Nat /\ MaxRequests \in Nat /\ MaxEvents \in Nat
ASSUME ClientsAssumption == None \notin Clients

VARIABLES
    db,       \* the tables, as in MailboxStore
    req,      \* per client: the request it waits for
    keyed,    \* mailboxes with an exportable pickup key
    capable,  \* mailboxes with capability rows
    queue, job, tried,   \* the initial synchronisation
    errors, crashes, writes, requests

vars == <<db, req, keyed, capable, queue, job, tried, errors, crashes, writes, requests>>
bounds == <<errors, crashes, writes, requests>>

Store == INSTANCE MailboxStore

MayHappen == errors + crashes + writes < MaxEvents

NoRequest == [at |-> "idle"]
At(c, step) == req[c].at = step

Init ==
    /\ Store!Init /\ req = [c \in Clients |-> NoRequest]
    /\ keyed = {t.box : t \in Aliased} /\ capable = keyed
    /\ queue = <<>> /\ job = [w \in Workers |-> None] /\ tried = {}
    /\ errors = 0 /\ crashes = 0 /\ writes = 0 /\ requests = 0

-----------------------------------------------------------------------------
\* The preview reads the identity of one row after the other and remembers the
\* identities the file has named.
SlipPlan(d, file) ==
    LET new == {i \in DOMAIN file : ~Has(d, Mailbox(file[i].box))}
    IN  [new |-> Cardinality(new), conflicts |-> Len(file) - Cardinality(new)]
Plan(d, file) ==
    LET new == {i \in DOMAIN file : /\ ~Has(d, Mailbox(file[i].box))
                                    /\ \A j \in 1..(i - 1) : file[j].box # file[i].box}
    IN  [new |-> Cardinality(new), conflicts |-> Len(file) - Cardinality(new)]

Preview(c) ==
    /\ At(c, "idle") /\ requests < MaxRequests /\ requests' = requests + 1
    /\ \E file \in Files, strategy \in Strategies :
          req' = [req EXCEPT ![c] = [at |-> "previewed", file |-> file, strategy |-> strategy,
                                     plan |-> Plan(db, file), current |-> TRUE]]
    /\ UNCHANGED <<db, keyed, capable, queue, job, tried, errors, crashes, writes>>

\* The client imports the file it has previewed, or sends it again.
Begin(c) ==
    /\ req[c].at \in {"previewed", "failed"}
    /\ req' = [req EXCEPT ![c] = [at |-> "tx", file |-> @.file, strategy |-> @.strategy, plan |-> @.plan,
                                  current |-> @.current, base |-> db, rest |-> @.file,
                                  work |-> Store!NewImport(db)]]
    /\ UNCHANGED <<db, keyed, capable, queue, job, tried, bounds>>

-----------------------------------------------------------------------------
\* The transaction.

\* One item: an upsert of the mailbox, its credential, its platform account
\* with the login route, and the insert of its legacy key.
SlipUpsert(d, r, a) == [d EXCEPT ![r] = [owner |-> a, via |-> @.via, version |-> @.version + 1]]
Upsert(d, r, a) == [d EXCEPT ![r] = [owner |-> a, via |-> None, version |-> @.version + 1]]
UpsertIf(asked, d, r, a) == IF asked THEN Upsert(d, r, a) ELSE d
KeyRow(item) == Key(item.key)

WriteItem(d, item) ==
    LET a == item.box
        withCredential == UpsertIf(item.cred, Upsert(d, Mailbox(a), a), Credential(a), a)
        withPlatform == UpsertIf(item.acct # None, withCredential, Account(item.acct), a)
    IN  UpsertIf(item.key # None /\ ~Has(d, KeyRow(item)), withPlatform, KeyRow(item), a)

KeyElsewhere(d, item) ==
    item.key # None /\ Has(d, KeyRow(item)) /\ d[KeyRow(item)].owner # item.box

Step(work, item, strategy) ==
    LET here == Has(work.db, Mailbox(item.box))
    IN  CASE here /\ strategy = "skip" -> [work EXCEPT !.skipped = @ + 1]
          [] here /\ strategy = "error" -> [work EXCEPT !.failed = "mailbox"]
          [] (here => strategy = "update") /\ KeyElsewhere(work.db, item) -> [work EXCEPT !.failed = "key"]
          [] OTHER ->
               [work EXCEPT !.db = WriteItem(@, item),
                            !.created = IF here THEN @ ELSE @ + 1,
                            !.updated = IF here THEN @ + 1 ELSE @,
                            !.ids = IF Contains(@, item.box) THEN @ ELSE Append(@, item.box)]

Item(c) ==
    /\ At(c, "tx") /\ req[c].rest # <<>> /\ req[c].work.failed = "no"
    /\ req' = [req EXCEPT ![c].work = Step(@, Head(req[c].rest), req[c].strategy), ![c].rest = Tail(@)]
    /\ UNCHANGED <<db, keyed, capable, queue, job, tried, bounds>>

\* The rows the statements of a file name.
Named(file) ==
    UNION {{Mailbox(file[i].box), Credential(file[i].box)}
           \cup {Account(p) : p \in {file[i].acct} \ {None}}
           \cup {Key(k) : k \in {file[i].key} \ {None}} : i \in DOMAIN file}

SlipSerializable(c) == TRUE
Serializable(c) == \A r \in Named(req[c].file) : db[r] = req[c].base[r]

\* Every write makes the previews of the others out of date.
Outdated(c) == [d \in Clients |-> IF d # c /\ req[d].at \in {"previewed", "tx", "failed"}
                                    THEN [req[d] EXCEPT !.current = FALSE] ELSE req[d]]
After(c, step) ==
    [at |-> step, file |-> req[c].file, strategy |-> req[c].strategy, plan |-> req[c].plan,
     current |-> req[c].current, todo |-> req[c].work.ids,
     done |-> [count \in DOMAIN req[c].work \ {"db"} |-> req[c].work[count]]]

Commit(c) ==
    /\ At(c, "tx") /\ req[c].rest = <<>> /\ req[c].work.failed = "no"
    /\ Serializable(c) /\ Bounded(req[c].work.db)
    /\ db' = [r \in Rows |-> IF req[c].work.db[r] # req[c].base[r] THEN req[c].work.db[r] ELSE db[r]]
    /\ req' = [Outdated(c) EXCEPT ![c] = After(c, "keys")]
    /\ UNCHANGED <<keyed, capable, queue, job, tried, bounds>>

\* A conflict ends the request, a serialization failure leaves it to the
\* client to send it again.
Refuse(c) ==
    /\ At(c, "tx") /\ req[c].work.failed # "no"
    /\ req' = [req EXCEPT ![c] = After(c, "refused")]
    /\ UNCHANGED <<db, keyed, capable, queue, job, tried, bounds>>

Abort(c) ==
    /\ At(c, "tx") /\ ~Serializable(c)
    /\ req' = [req EXCEPT ![c].at = "failed", ![c].current = FALSE]
    /\ UNCHANGED <<db, keyed, capable, queue, job, tried, bounds>>

-----------------------------------------------------------------------------
\* After the commit.

Fail(c) ==
    /\ req[c].at \in {"keys", "capabilities", "schedule"} /\ MayHappen
    /\ errors' = errors + 1 /\ req' = [req EXCEPT ![c].at = "failed", ![c].current = FALSE]
    /\ UNCHANGED <<db, keyed, capable, queue, job, tried, crashes, writes, requests>>

Ensure(c) ==
    /\ At(c, "keys")
    /\ IF req[c].todo = <<>>
         THEN req' = [req EXCEPT ![c].at = "capabilities"] /\ UNCHANGED keyed
         ELSE /\ keyed' = keyed \cup {Head(req[c].todo)}
              /\ req' = [req EXCEPT ![c].todo = Tail(@)]
    /\ UNCHANGED <<db, capable, queue, job, tried, bounds>>

InitializeCapabilities(c) ==
    /\ At(c, "capabilities") /\ capable' = capable \cup Range(req[c].done.ids)
    /\ req' = [req EXCEPT ![c].at = "schedule", ![c].todo = req[c].done.ids]
    /\ UNCHANGED <<db, keyed, queue, job, tried, bounds>>

\* The request waits while the queue is full.
SlipSchedule(c) ==
    /\ At(c, "schedule") /\ req[c].todo # <<>>
    /\ queue' = IF Len(queue) < QueueBound THEN Append(queue, Head(req[c].todo)) ELSE queue
    /\ req' = [req EXCEPT ![c].todo = Tail(@)]
    /\ UNCHANGED <<db, keyed, capable, job, tried, bounds>>
Schedule(c) ==
    /\ At(c, "schedule") /\ req[c].todo # <<>> /\ Len(queue) < QueueBound
    /\ queue' = Append(queue, Head(req[c].todo)) /\ req' = [req EXCEPT ![c].todo = Tail(@)]
    /\ UNCHANGED <<db, keyed, capable, job, tried, bounds>>

Reply(c) ==
    /\ \/ At(c, "schedule") /\ req[c].todo = <<>>
       \/ At(c, "refused")
    /\ req' = [req EXCEPT ![c] = NoRequest]
    /\ UNCHANGED <<db, keyed, capable, queue, job, tried, bounds>>

Take(w) ==
    /\ job[w] = None /\ queue # <<>>
    /\ job' = [job EXCEPT ![w] = Head(queue)] /\ queue' = Tail(queue)
    /\ UNCHANGED <<db, req, keyed, capable, tried, bounds>>

\* A mailbox whose synchronisation fails is not tried again.
Fetch(w) ==
    /\ job[w] # None /\ job' = [job EXCEPT ![w] = None] /\ tried' = tried \cup {job[w]}
    /\ UNCHANGED <<db, req, keyed, capable, queue, bounds>>

-----------------------------------------------------------------------------
\* Single statements of other requests, and the end of the process: its start
\* adds missing keys and capability rows, the queue is gone.

OneStatement(action) ==
    /\ action /\ MayHappen /\ writes' = writes + 1 /\ req' = Outdated(None)
    /\ UNCHANGED <<keyed, capable, queue, job, tried, errors, crashes, requests>>

CreateMailbox(a) == OneStatement(~Has(db, Mailbox(a)) /\ db' = Upsert(db, Mailbox(a), a))
UpsertCredential(a) ==
    OneStatement(/\ Has(db, Mailbox(a)) /\ db[Credential(a)].version < MaxVersion
                 /\ db' = Upsert(db, Credential(a), a))
\* AccountService.Create has read the mailbox and the alias, which stay.
CreatePlatformAccount(p, a, l) ==
    OneStatement(/\ Has(db, Mailbox(a)) /\ ~Has(db, Account(p))
                 /\ (l # None => Has(db, Alias(l)) /\ db[Alias(l)].owner = a)
                 /\ db' = [db EXCEPT ![Account(p)] = [owner |-> a, via |-> l, version |-> 1]])

Crash ==
    /\ MayHappen /\ crashes' = crashes + 1
    /\ req' = [c \in Clients |-> IF At(c, "idle") THEN NoRequest
                                 ELSE [at |-> "failed", file |-> req[c].file, strategy |-> req[c].strategy,
                                       plan |-> req[c].plan, current |-> FALSE]]
    /\ queue' = <<>> /\ job' = [w \in Workers |-> None]
    /\ keyed' = {a \in Addresses : Has(db, Mailbox(a))} /\ capable' = keyed'
    /\ UNCHANGED <<db, tried, errors, writes, requests>>

RequestStep(c) ==
    \/ Begin(c) \/ Item(c) \/ Commit(c) \/ Refuse(c) \/ Abort(c)
    \/ Ensure(c) \/ InitializeCapabilities(c) \/ Schedule(c) \/ Reply(c)
Work(w) == Take(w) \/ Fetch(w)

Next ==
    \/ \E c \in Clients : Preview(c) \/ RequestStep(c) \/ Fail(c)
    \/ \E w \in Workers : Work(w)
    \/ \E a \in Addresses : CreateMailbox(a) \/ UpsertCredential(a)
    \/ \E a \in Addresses, p \in Accounts, l \in Aliases \cup {None} : CreatePlatformAccount(p, a, l)
    \/ Crash

Spec == Init /\ [][Next]_vars

\* The goroutine of a request and the workers go on, and the client sends a
\* request that failed again.
Progress == (\A c \in Clients : WF_vars(RequestStep(c))) /\ \A w \in Workers : WF_vars(Work(w))
LiveSpec == Spec /\ Progress

-----------------------------------------------------------------------------
Steps == {"idle", "previewed", "tx", "keys", "capabilities", "schedule", "refused", "failed"}

\* The types; a queued mailbox has a row, a key and capability rows.
TypeOK ==
    /\ Store!TypeOK
    /\ \A c \in Clients : req[c].at \in Steps
    /\ queue \in Seq(Addresses) /\ Len(queue) <= QueueBound
    /\ job \in [Workers -> Addresses \cup {None}]
    /\ \A a \in Range(queue) \cup tried : Has(db, Mailbox(a)) /\ a \in keyed /\ a \in capable
    /\ errors \in 0..MaxEvents /\ crashes \in 0..MaxEvents /\ writes \in 0..MaxEvents /\ requests \in 0..MaxRequests

\* The transaction that writes item by item implements the store that applies
\* a file as one step (memory/store.go:440): nothing of a file that fails is
\* kept, and two imports, or an import and other statements, never mix.
StoreSpec == Store!Spec

\* A file imported on the tables it was previewed on does what the preview
\* said (importexport.go:147), duplicates within the file included: as many
\* mailboxes are created, the conflicting rows are skipped or updated, or
\* refuse the file.  The preview does not foresee a key of another mailbox.
PreviewAgrees ==
    \A c \in Clients :
        (req[c].at \in {"keys", "refused"} /\ req[c].current /\ req[c].done.failed # "key") =>
            LET plan == req[c].plan done == req[c].done
            IN  IF req[c].strategy = "error" /\ plan.conflicts > 0
                  THEN done.failed = "mailbox"
                  ELSE /\ done.failed = "no" /\ done.created = plan.new
                       /\ (IF req[c].strategy = "update" THEN done.updated ELSE done.skipped) = plan.conflicts

\* A platform account is routed through an alias of its own mailbox only, also
\* when an import moves it to another mailbox (import_formats.go:124) between
\* the statements that create and route it.
RoutesStayInside == Store!RoutesStayInside

\* The mail of an imported mailbox is asked for in the end, although
\* the queue may be full when it is scheduled and also when a step
\* after the commit failed, if the client sends the request again with the
\* strategy "update"; "skip" leaves a mailbox that exists alone for ever, and a
\* crash forgets the queue.
ImportedIsFetched ==
    \A a \in Addresses :
        (\E c \in Clients : req[c].at = "keys" /\ req[c].strategy = "update" /\ a \in Range(req[c].todo))
            ~> a \in tried \/ crashes > 0
=============================================================================
