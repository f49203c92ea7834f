-------------------------- MODULE EditableRecords --------------------------
(***************************************************************************)
(* The records that administrators edit, as data: the Cloudflare           *)
(* connection, backup targets and application settings.  Fields are named  *)
(* after their role: `secret` is the API token or the encrypted target     *)
(* configuration, `plain` the account or the kind of target, `on` the      *)
(* switch.  VersionedSettings runs the requests that edit them.            *)
(***************************************************************************)
EXTENDS Naturals, FiniteSets

CONSTANTS
    Unset,                            \* a field that is not stored or not sent
    Connections, Targets, Settings,   \* the editable records
    Accounts, Kinds, Secrets,
    Fits,                             \* the kind of target a configuration is for
    MaxVersion, MaxLosses             \* bounds: versions of a record, answers lost

Records == Connections \cup Targets \cup Settings
ASSUME FitsAssumption == Fits \in [Secrets -> Kinds]
ASSUME UnsetAssumption == \A v \in Accounts \cup Kinds \cup Secrets \cup BOOLEAN : v # Unset
ASSUME VersionsAssumption == MaxVersion \in Nat \ {0} /\ MaxLosses \in Nat
ASSUME RecordsAssumption == Connections \cap Targets = {} /\ Settings \cap (Connections \cup Targets) = {}

Fields == [plain : Accounts \cup Kinds \cup {Unset}, secret : Secrets \cup {Unset}, on : BOOLEAN]
Blank == [version |-> 0, plain |-> Unset, secret |-> Unset, on |-> TRUE]

\* The fields one request may carry; Unset keeps the stored value.
Edits(r) ==
    [plain : IF r \in Targets THEN Kinds \cup {Unset} ELSE Accounts,
     secret : IF r \in Settings THEN {Unset} ELSE Secrets \cup {Unset},
     on : IF r \in Settings THEN BOOLEAN ELSE BOOLEAN \cup {Unset}]

Merge(old, e) ==
    [plain |-> IF e.plain = Unset THEN old.plain ELSE e.plain,
     secret |-> IF e.secret = Unset THEN old.secret ELSE e.secret,
     on |-> IF e.on = Unset THEN old.on ELSE e.on]

\* What the service demands of the merged record before it writes it.
Accepted(r, old, e) ==
    /\ r \in Connections => Merge(old, e).secret # Unset
    /\ r \in Targets =>
        /\ e.plain \notin {Unset, old.plain} => e.secret # Unset
        /\ e.secret # Unset => Fits[e.secret] = Merge(old, e).plain
=============================================================================
