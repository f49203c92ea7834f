----------------------------- MODULE PickupKeys -----------------------------
(***************************************************************************)
(* Pickup keys: internal/security/secrets.go, the callers of Ensure        *)
(* (service/mailboxes.go, cmd/server/main.go, service/importexport.go) and *)
(* the table mailbox_pickup_keys with the partial unique index of          *)
(* migration 000007.  A key is named by its digest: a fresh key is a key   *)
(* without a row, an imported one may have a row already.  Reading,        *)
(* issuing and reading again are three statements; the mutex of a mailbox  *)
(* orders them within one server process only.                             *)
(***************************************************************************)
EXTENDS Naturals, FiniteSets, Sequences, SequencesExt

CONSTANTS
    Mailboxes, Keys,
    Servers,            \* server processes on one database
    Callers, ServerOf,  \* goroutines that call Ensure, and where they run
    ListBound,          \* rows one List returns (500)
    GivenKeys,          \* keys left to administrators and imports, so that
                        \* an Ensure never runs out of random ones
    MayExpire,          \* labels an administrator gives to keys that expire
    MaxEvents           \* failed statements, crashes and revocations together

ASSUME ServersAssumption == ServerOf \in [Callers -> Servers]
ASSUME BoundsAssumption == ListBound \in Nat \ {0} /\ MaxEvents \in Nat

Labels == {"automatic", "other"}
ASSUME LabelsAssumption == MayExpire \subseteq Labels
ASSUME KeysAssumption == GivenKeys \subseteq Keys

NoRow == [mailbox |-> "none"]
Row(m, label, sealed, expires) ==
    [mailbox |-> m, label |-> label, sealed |-> sealed, expires |-> expires, revoked |-> FALSE]

VARIABLES
    mailboxes,   \* rows of the table mailboxes
    rows,        \* rows of mailbox_pickup_keys
    order,       \* the keys with a row by created_at
    expired,     \* keys whose expires_at has passed
    server,      \* per server: "down", "starting" or "up"
    todo,        \* per server: mailboxes its start has still to ensure
    caller,      \* per caller: the Ensure it runs
    errors, crashes, revokes

vars == <<mailboxes, rows, order, expired, server, todo, caller, errors, crashes, revokes>>
tables == <<mailboxes, rows, order>>

MayHappen == errors + crashes + revokes < MaxEvents

Idle == [at |-> "idle"]
At(c, step) == caller[c].at = step
Holds(c, m) == caller[c].at \in {"list", "issue", "relist"} /\ caller[c].for = m

Init ==
    /\ mailboxes = {} /\ rows = [k \in Keys |-> NoRow] /\ order = <<>> /\ expired = {}
    /\ server = [s \in Servers |-> "down"] /\ todo = [s \in Servers |-> {}]
    /\ caller = [c \in Callers |-> Idle]
    /\ errors = 0 /\ crashes = 0 /\ revokes = 0

HasRow(k) == rows[k] # NoRow
Active(k, over) == HasRow(k) /\ ~rows[k].revoked /\ k \notin over

\* List: the newest rows of the mailbox, of which Ensure takes an active
\* encrypted one; OVER is the set of keys expired at the time it compares with.
SlipNewest(m) ==
    LET own == SelectSeq(order, LAMBDA k : rows[k].mailbox = m)
    IN  {own[i] : i \in DOMAIN own \cap {1}}
Newest(m) ==
    LET own == SelectSeq(order, LAMBDA k : rows[k].mailbox = m)
    IN  Range(SubSeq(own, 1 + Len(own) - (IF Len(own) < ListBound THEN Len(own) ELSE ListBound), Len(own)))
Exportable(m, over) == {k \in Newest(m) : Active(k, over) /\ rows[k].sealed}

\* What the partial unique index counts: it looks at the revocation of a row
\* and not at its expiry.
Automatic(m) == {k \in Keys : HasRow(k) /\ rows[k].mailbox = m /\ rows[k].label = "automatic"
                              /\ rows[k].sealed /\ ~rows[k].revoked}

SlipConflicts(row) == FALSE
Conflicts(row) == row.label = "automatic" /\ row.sealed /\ Automatic(row.mailbox) # {}

Insert(k, row) == rows' = [rows EXCEPT ![k] = row] /\ order' = Append(order, k)

-----------------------------------------------------------------------------
\* A process starts: before it serves it ensures a key for every mailbox, and
\* it exits when one of them fails.

SlipStart(s) ==
    /\ server[s] = "down" /\ server' = [server EXCEPT ![s] = "up"]
    /\ UNCHANGED <<tables, expired, todo, caller, errors, crashes, revokes>>
Start(s) ==
    /\ server[s] = "down"
    /\ server' = [server EXCEPT ![s] = "starting"] /\ todo' = [todo EXCEPT ![s] = mailboxes]
    /\ UNCHANGED <<tables, expired, caller, errors, crashes, revokes>>

Serve(s) ==
    /\ server[s] = "starting" /\ todo[s] = {}
    /\ server' = [server EXCEPT ![s] = "up"]
    /\ UNCHANGED <<tables, expired, todo, caller, errors, crashes, revokes>>

StopsAt(s) == [c \in Callers |-> IF ServerOf[c] = s THEN Idle ELSE caller[c]]

Crash(s) ==
    /\ MayHappen /\ server[s] # "down" /\ crashes' = crashes + 1
    /\ server' = [server EXCEPT ![s] = "down"] /\ caller' = StopsAt(s)
    /\ UNCHANGED <<tables, expired, todo, errors, revokes>>

Begin(c, m) == caller' = [caller EXCEPT ![c] = [at |-> "lock", for |-> m]]

\* The start of a server calls Ensure for one mailbox after the other.
EnsureAtStart(c) ==
    LET s == ServerOf[c]
    IN  /\ server[s] = "starting" /\ \A d \in Callers : ServerOf[d] = s => At(d, "idle")
        /\ \E m \in todo[s] : Begin(c, m)
        /\ UNCHANGED <<tables, expired, server, todo, errors, crashes, revokes>>

\* Reveal and an export call Ensure for a mailbox that has a row.
Reveal(c) ==
    /\ server[ServerOf[c]] = "up" /\ At(c, "idle")
    /\ \E m \in mailboxes : Begin(c, m)
    /\ UNCHANGED <<tables, expired, server, todo, errors, crashes, revokes>>

\* MailboxService.Create inserts the mailbox in one statement and calls Ensure.
Create(c) ==
    /\ server[ServerOf[c]] = "up" /\ At(c, "idle")
    /\ \E m \in Mailboxes \ mailboxes : mailboxes' = mailboxes \cup {m} /\ Begin(c, m)
    /\ UNCHANGED <<rows, order, expired, server, todo, errors, crashes, revokes>>

\* An import brings the mailbox and its legacy key in one transaction and
\* calls Ensure.  The stored row is digest-only; a digest of this mailbox is
\* left as it is, a digest of another mailbox aborts the import.
SlipImport(c, k, m) ==
    /\ server[ServerOf[c]] = "up" /\ At(c, "idle")
    /\ mailboxes' = mailboxes \cup {m} /\ Begin(c, m)
    /\ IF HasRow(k) THEN rows' = [rows EXCEPT ![k].mailbox = m] /\ UNCHANGED order
                    ELSE Insert(k, Row(m, "other", FALSE, FALSE))
    /\ UNCHANGED <<expired, server, todo, errors, crashes, revokes>>
Import(c, k, m) ==
    /\ server[ServerOf[c]] = "up" /\ At(c, "idle")
    /\ HasRow(k) => rows[k].mailbox = m
    /\ mailboxes' = mailboxes \cup {m} /\ Begin(c, m)
    /\ IF HasRow(k) THEN UNCHANGED <<rows, order>>
                    ELSE Insert(k, Row(m, "other", FALSE, FALSE))
    /\ UNCHANGED <<expired, server, todo, errors, crashes, revokes>>

-----------------------------------------------------------------------------
\* Ensure.

Return(c, result) ==
    LET s == ServerOf[c]
    IN  IF server[s] = "up" \/ result = "ok"
        THEN /\ caller' = [caller EXCEPT ![c] = Idle] /\ UNCHANGED server
             /\ todo' = [todo EXCEPT ![s] = @ \ {caller[c].for}]
        ELSE /\ caller' = StopsAt(s) /\ server' = [server EXCEPT ![s] = "down"]
             /\ UNCHANGED todo

Fail(c) == MayHappen /\ errors' = errors + 1 /\ Return(c, "error")

Lock(c) ==
    /\ At(c, "lock")
    /\ \A d \in Callers : ServerOf[d] = ServerOf[c] => ~Holds(d, caller[c].for)
    /\ caller' = [caller EXCEPT ![c].at = "list"]
    /\ UNCHANGED <<tables, expired, server, todo, errors, crashes, revokes>>

Found(c, over) == Exportable(caller[c].for, over) # {} /\ Return(c, "ok") /\ UNCHANGED errors

ListKeys(c) ==
    /\ At(c, "list")
    /\ \/ Found(c, expired)
       \/ /\ Exportable(caller[c].for, expired) = {}
          /\ caller' = [caller EXCEPT ![c] = [at |-> "issue", for |-> caller[c].for, over |-> expired]]
          /\ UNCHANGED <<server, todo, errors>>
       \/ Fail(c)
    /\ UNCHANGED <<tables, expired, crashes, revokes>>

\* Random keys that have no row; it does not matter which one is drawn.
RandomKeys == {k \in Keys \ GivenKeys : ~HasRow(k)}

IssueKey(c) ==
    LET row == Row(caller[c].for, "automatic", TRUE, FALSE)
    IN  /\ At(c, "issue")
        /\ \/ /\ ~Conflicts(row) /\ RandomKeys # {} /\ Insert(CHOOSE k \in RandomKeys : TRUE, row)
              /\ Return(c, "ok") /\ UNCHANGED errors
           \/ /\ Conflicts(row) /\ caller' = [caller EXCEPT ![c].at = "relist"]
              /\ UNCHANGED <<rows, order, server, todo, errors>>
           \/ Fail(c) /\ UNCHANGED <<rows, order>>
        /\ UNCHANGED <<mailboxes, expired, crashes, revokes>>

\* After a conflict the rows are compared with the time of the first reading.
ListAgain(c) ==
    /\ At(c, "relist")
    /\ \/ Found(c, caller[c].over)
       \/ Exportable(caller[c].for, caller[c].over) = {} /\ Return(c, "conflict") /\ UNCHANGED errors
       \/ Fail(c)
    /\ UNCHANGED <<tables, expired, crashes, revokes>>

-----------------------------------------------------------------------------
\* Administration, and time.

Serving == \E s \in Servers : server[s] = "up"

Issue(m, label, expires) ==
    LET row == Row(m, label, TRUE, expires)
    IN  /\ Serving /\ m \in mailboxes /\ (expires => label \in MayExpire)
        /\ ~Conflicts(row) /\ \E k \in GivenKeys : ~HasRow(k) /\ Insert(k, row)
        /\ UNCHANGED <<mailboxes, expired, server, todo, caller, errors, crashes, revokes>>

Revoke(k) ==
    /\ Serving /\ HasRow(k) /\ MayHappen /\ revokes' = revokes + 1
    /\ rows' = [rows EXCEPT ![k].revoked = TRUE]
    /\ UNCHANGED <<mailboxes, order, expired, server, todo, caller, errors, crashes>>

Expire(k) ==
    /\ HasRow(k) /\ rows[k].expires /\ k \notin expired /\ expired' = expired \cup {k}
    /\ UNCHANGED <<tables, server, todo, caller, errors, crashes, revokes>>

Administer ==
    \/ \E m \in Mailboxes, label \in Labels, expires \in BOOLEAN : Issue(m, label, expires)
    \/ \E k \in Keys : Revoke(k)
    \/ \E k \in Keys : Expire(k)

EnsureStep(c) == Lock(c) \/ ListKeys(c) \/ IssueKey(c) \/ ListAgain(c)
StartStep(s) == Start(s) \/ Serve(s)

Next ==
    \/ \E s \in Servers : StartStep(s) \/ Crash(s)
    \/ \E c \in Callers : EnsureAtStart(c) \/ Reveal(c) \/ Create(c) \/ EnsureStep(c)
    \/ \E c \in Callers, k \in GivenKeys, m \in Mailboxes : Import(c, k, m)
    \/ Administer

Spec == Init /\ [][Next]_vars

\* A goroutine that can go on does, a process that ended is started again.
Fairness == /\ \A c \in Callers : WF_vars(EnsureStep(c)) /\ WF_vars(EnsureAtStart(c))
            /\ \A s \in Servers : WF_vars(StartStep(s))
LiveSpec == Spec /\ Fairness

-----------------------------------------------------------------------------
StoredRows == [mailbox : Mailboxes, label : Labels, sealed : BOOLEAN, expires : BOOLEAN, revoked : BOOLEAN]
Ensures == {Idle} \cup [at : {"lock", "list"}, for : Mailboxes]
                  \cup [at : {"issue", "relist"}, for : Mailboxes, over : SUBSET Keys]

\* The types, and the order holds exactly the keys with a row, once each.
TypeOK ==
    /\ mailboxes \subseteq Mailboxes /\ rows \in [Keys -> StoredRows \cup {NoRow}] /\ expired \subseteq Keys
    /\ order \in Seq(Keys) /\ IsInjective(order) /\ Range(order) = {k \in Keys : HasRow(k)}
    /\ \A k \in Keys : HasRow(k) => rows[k].mailbox \in mailboxes
    /\ server \in [Servers -> {"down", "starting", "up"}] /\ todo \in [Servers -> SUBSET mailboxes]
    /\ caller \in [Callers -> Ensures]
    /\ \A c \in Callers : caller[c].at # "idle" => caller[c].for \in mailboxes /\ server[ServerOf[c]] # "down"
    /\ {errors, crashes, revokes} \subseteq 0..MaxEvents

\* Concurrent servers converge on one active encrypted automatic key
\* (docs/progress.md:44): Ensure reads and issues in two statements on every
\* server, and an administrator issues keys with the same label.
OneAutomaticKey == \A m \in Mailboxes : Cardinality(Automatic(m)) <= 1

\* A key opens one mailbox for ever, a revoked one stays revoked and a
\* digest-only one never becomes exportable, whatever is imported later with
\* the same token.
KeysAreFixed ==
    [][\A k \in Keys : HasRow(k) =>
          /\ HasRow(k)' /\ rows'[k].mailbox = rows[k].mailbox /\ rows'[k].sealed = rows[k].sealed
          /\ rows[k].revoked => rows'[k].revoked]_vars

\* Ensure creates a key when the mailbox has no active encrypted one
\* (secrets.go:194), so a server that is started again serves in the end.
ServerComesUp == \A s \in Servers : <>[](server[s] = "up")

\* Every mailbox is issued an exportable key in the end: a crash between the
\* insert of a mailbox and its Ensure is made up for by the next start.  Only a
\* statement that fails leaves the mailbox without one until someone asks again.
EveryMailboxGetsKey ==
    \A m \in Mailboxes :
        m \in mailboxes ~> errors > 0 \/ \E k \in Keys : HasRow(k) /\ rows[k].mailbox = m /\ rows[k].sealed
=============================================================================
