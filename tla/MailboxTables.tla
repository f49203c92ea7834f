---------------------------- MODULE MailboxTables ----------------------------
(***************************************************************************)
(* The rows of the mailbox repository and the files that are imported into *)
(* it, shared by MailboxStore and MailboxImport.  The tables are one       *)
(* function: a row has the mailbox it belongs to, for a platform account   *)
(* also the alias it is routed through, and the number of times it was     *)
(* written.                                                                *)
(***************************************************************************)
EXTENDS Naturals, Sequences

CONSTANTS
    Addresses, Aliases, Accounts, Keys, None,
    Files,        \* the files an administrator imports: sequences of items
    Strategies,   \* conflict strategies, of "skip", "update", "error"
    Aliased,      \* mailboxes with an alias before the first import
    MaxVersion    \* bound on the writes of a row

ASSUME StoreAssumption == MaxVersion \in Nat \ {0} /\ Strategies \subseteq {"skip", "update", "error"}
ASSUME NamesAssumption == None \notin Addresses \cup Aliases \cup Accounts \cup Keys

Items == [box : Addresses, cred : BOOLEAN, acct : Accounts \cup {None}, key : Keys \cup {None}]
ASSUME FilesAssumption == Files \subseteq Seq(Items)
ASSUME AliasedAssumption == Aliased \subseteq [box : Addresses, alias : Aliases]

Mailbox(a) == <<"mailbox", a>>
Credential(a) == <<"credential", a>>
Alias(l) == <<"alias", l>>
Account(p) == <<"account", p>>
Key(k) == <<"key", k>>
Rows == {Mailbox(a) : a \in Addresses} \cup {Credential(a) : a \in Addresses}
        \cup {Alias(l) : l \in Aliases} \cup {Account(p) : p \in Accounts} \cup {Key(k) : k \in Keys}

Absent == [owner |-> None, via |-> None, version |-> 0]
Has(d, r) == d[r].version > 0
Put(d, r, a, l) == [d EXCEPT ![r] = [owner |-> a, via |-> l, version |-> @.version + 1]]
Bounded(d) == \A r \in Rows : d[r].version <= MaxVersion
=============================================================================
