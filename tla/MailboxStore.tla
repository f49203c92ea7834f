---------------------------- MODULE MailboxStore ----------------------------
(***************************************************************************)
(* What the mailbox repository promises, as internal/repository/memory/    *)
(* store.go does it under its one lock: every operation is a single step   *)
(* and an import of a whole file is all or nothing.  MailboxImport shows   *)
(* that the statements and transactions of PostgreSQL implement it.        *)
(***************************************************************************)
EXTENDS MailboxTables, SequencesExt

VARIABLE db

Init ==
    db = [r \in Rows |->
            LET of == {t \in Aliased : r \in {Mailbox(t.box), Alias(t.alias)}}
            IN  IF of = {} THEN Absent
                ELSE [owner |-> (CHOOSE t \in of : TRUE).box, via |-> None, version |-> 1]]

\* The state an import starts with.
NewImport(d) == [db |-> d, created |-> 0, updated |-> 0, skipped |-> 0, failed |-> "no", ids |-> <<>>]

\* The optional records of an item, for the mailbox A that has or gets its
\* address; an account is moved to this mailbox and leaves its alias.
ApplyPlatform(d, item, a) ==
    IF item.acct = None THEN d ELSE Put(d, Account(item.acct), a, None)

KeyTaken(d, item, a) == item.key # None /\ Has(d, Key(item.key)) /\ d[Key(item.key)].owner # a
ApplyKey(d, item, a) ==
    IF item.key = None \/ Has(d, Key(item.key)) THEN d ELSE Put(d, Key(item.key), a, None)

Write(d, item) ==
    LET a == item.box
        boxed == Put(d, Mailbox(a), a, None)
        sealed == IF item.cred THEN Put(boxed, Credential(a), a, None) ELSE boxed
    IN  ApplyKey(ApplyPlatform(sealed, item, a), item, a)

\* One item of the file on the copies of the maps; the identifiers keep the
\* first place of an address that a file names twice.
ImportItem(st, item, strategy) ==
    LET a == item.box
        here == Has(st.db, Mailbox(a))
    IN  IF st.failed # "no" THEN st ELSE
        CASE here /\ strategy = "skip" -> [st EXCEPT !.skipped = @ + 1]
          [] here /\ strategy = "error" -> [st EXCEPT !.failed = "mailbox"]
          [] (here => strategy = "update") /\ KeyTaken(st.db, item, a) -> [st EXCEPT !.failed = "key"]
          [] OTHER -> [st EXCEPT !.db = Write(@, item),
                                 !.created = @ + (IF here THEN 0 ELSE 1),
                                 !.updated = @ + (IF here THEN 1 ELSE 0),
                                 !.ids = IF Contains(@, a) THEN @ ELSE Append(@, a)]

\* The states of an import, after each item of the file.
Imports(d, file, strategy) ==
    LET st[i \in 0..Len(file)] ==
            IF i = 0 THEN NewImport(d) ELSE ImportItem(st[i - 1], file[i], strategy)
    IN  st

ImportMailboxes(file, strategy) ==
    LET st == Imports(db, file, strategy)[Len(file)]
    IN  st.failed = "no" /\ Bounded(st.db) /\ db' = st.db

CreateMailbox(a) == ~Has(db, Mailbox(a)) /\ db' = Put(db, Mailbox(a), a, None)

CreateAlias(l, a) ==
    Has(db, Mailbox(a)) /\ ~Has(db, Alias(l)) /\ db' = Put(db, Alias(l), a, None)

CreatePlatformAccount(p, a, l) ==
    /\ ~Has(db, Account(p)) /\ Has(db, Mailbox(a))
    /\ l # None => Has(db, Alias(l)) /\ db[Alias(l)].owner = a
    /\ db' = Put(db, Account(p), a, l)

UpsertCredential(a, version) ==
    /\ Has(db, Mailbox(a)) /\ db[Credential(a)].version = version /\ version < MaxVersion
    /\ db' = Put(db, Credential(a), a, None)

Next ==
    \/ \E file \in Files, strategy \in Strategies : ImportMailboxes(file, strategy)
    \/ \E a \in Addresses :
          \/ CreateMailbox(a)
          \/ \E v \in 0..MaxVersion : UpsertCredential(a, v)
          \/ \E l \in Aliases : CreateAlias(l, a)
          \/ \E p \in Accounts, l \in Aliases \cup {None} : CreatePlatformAccount(p, a, l)

Spec == Init /\ [][Next]_db

-----------------------------------------------------------------------------
\* Every row belongs to a mailbox that has a row.
TypeOK ==
    /\ db \in [Rows -> [owner : Addresses \cup {None}, via : Aliases \cup {None}, version : 0..MaxVersion]]
    /\ \A r \in Rows : IF Has(db, r) THEN db[r].owner # None /\ Has(db, Mailbox(db[r].owner))
                                     ELSE db[r] = Absent

\* A platform account is routed through an alias of its own mailbox only, also
\* after an import has moved it to another mailbox.
RoutesStayInside ==
    \A p \in Accounts :
        LET row == db[Account(p)]
        IN  row.via # None => Has(db, Alias(row.via)) /\ db[Alias(row.via)].owner = row.owner
=============================================================================
