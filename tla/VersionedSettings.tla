-------------------------- MODULE VersionedSettings --------------------------
(***************************************************************************)
(* Records that administrators edit: the Cloudflare connection             *)
(* (service/provider_connections.go), backup targets (service/backups.go)  *)
(* and application settings (token_refresh_settings.go,                    *)
(* message_probe_settings.go).  All carry a version.  A browser shows a    *)
(* version, sends the fields to change together with that version, and the *)
(* server reads the row, keeps the fields that were not sent, among them   *)
(* the secret the browser never sees, and writes the row if it still has   *)
(* the version.                                                            *)
(***************************************************************************)
EXTENDS EditableRecords

CONSTANT Clients

VARIABLES
    row,     \* the stored record; version 0 when there is none
    view,    \* per client and record: what its page shows
    call,    \* per client: the request the server works on
    losses

vars == <<row, view, call, losses>>

Idle == [at |-> "idle"]

Init ==
    /\ row = [r \in Records |-> Blank]
    /\ view = [c \in Clients |-> row] /\ call = [c \in Clients |-> Idle] /\ losses = 0

-----------------------------------------------------------------------------
\* The page loads the record.  A page whose request was lost may reload while
\* the server still works on that request.
Open(c, r) ==
    /\ view[c][r] # row[r] /\ view' = [view EXCEPT ![c][r] = row[r]]
    /\ UNCHANGED <<row, call, losses>>

\* `seen` records what the page showed when the request was sent.
Submit(c, r, e) ==
    /\ call[c] = Idle /\ row[r].version < MaxVersion
    /\ r \in Targets => view[c][r].version > 0
    /\ call' = [call EXCEPT ![c] = [at |-> "read", record |-> r, edit |-> e, version |-> view[c][r].version, seen |-> view[c][r]]]
    /\ UNCHANGED <<row, view, losses>>

Refuse(c) == call' = [call EXCEPT ![c] = Idle] /\ UNCHANGED <<row, view, losses>>

\* A connection and a target are read before they are written, a setting is
\* replaced.  A target whose version has moved is refused here already.
Read(c) ==
    LET r == call[c].record
        v == call[c].version
    IN  /\ call[c].at = "read"
        /\ IF \/ r \in Connections /\ (row[r].version = 0) # (v = 0)
              \/ r \in Targets /\ row[r].version # v
              \/ ~Accepted(r, row[r], call[c].edit)
             THEN Refuse(c)
             ELSE /\ call' = [call EXCEPT ![c] = [at |-> "write", record |-> r, edit |-> @.edit, version |-> v, seen |-> @.seen,
                                                  data |-> Merge(IF r \in Settings THEN Blank ELSE row[r], @.edit)]]
                  /\ UNCHANGED <<row, view, losses>>

\* One statement: an insert for version 0, otherwise an update of the row that
\* still has the version.  The page may not get the answer.
SlipWritable(c) == row[call[c].record].version > 0 <=> call[c].version > 0
Writable(c) == row[call[c].record].version = call[c].version

Write(c) ==
    LET r == call[c].record
        new == [version |-> row[r].version + 1, plain |-> call[c].data.plain, secret |-> call[c].data.secret, on |-> call[c].data.on]
    IN  /\ call[c].at = "write" /\ call' = [call EXCEPT ![c] = Idle]
        /\ IF ~Writable(c) THEN UNCHANGED <<row, view, losses>>
           ELSE /\ row' = [row EXCEPT ![r] = new]
                /\ \/ view' = [view EXCEPT ![c][r] = new] /\ UNCHANGED losses
                   \/ losses < MaxLosses /\ losses' = losses + 1 /\ UNCHANGED view

\* A new target has an identifier of its own, no request competes for it.
CreateTarget(r, e) ==
    /\ r \in Targets /\ row[r] = Blank /\ Unset \notin {e.plain, e.secret, e.on} /\ Accepted(r, Blank, e)
    /\ row' = [row EXCEPT ![r] = [version |-> 1, plain |-> e.plain, secret |-> e.secret, on |-> e.on]]
    /\ UNCHANGED <<view, call, losses>>

Next ==
    \/ \E c \in Clients, r \in Records : Open(c, r) \/ \E e \in Edits(r) : Submit(c, r, e)
    \/ \E c \in Clients : Read(c) \/ Write(c)
    \/ \E r \in Targets : \E e \in Edits(r) : CreateTarget(r, e)

Spec == Init /\ [][Next]_vars

-----------------------------------------------------------------------------
Rows == [version : 0..MaxVersion, plain : Accounts \cup Kinds \cup {Unset}, secret : Secrets \cup {Unset}, on : BOOLEAN]

\* A stored connection or target has its secret.
TypeOK ==
    /\ row \in [Records -> Rows] /\ view \in [Clients -> [Records -> Rows]]
    /\ \A r \in Records \ Settings : row[r].version > 0 => row[r].secret # Unset
    /\ call = [c \in Clients |-> call[c]] /\ \A c \in Clients : call[c].at \in {"idle", "read", "write"}
    /\ \A c \in Clients : call[c].at # "idle" =>
          /\ call[c].record \in Records /\ call[c].edit \in Edits(call[c].record)
          /\ call[c].seen \in Rows /\ call[c].version = call[c].seen.version
    /\ \A c \in Clients : call[c].at = "write" => call[c].data \in Fields
    /\ losses \in 0..MaxLosses

\* No edit is lost and no secret is brought back: what is written is the edit
\* merged over exactly the version the page showed, although the page sent no
\* secret and the server read the row for itself in between.
SavedOverWhatWasSeen ==
    [][\A r \in Records : (row[r] # row'[r] /\ row[r].version > 0) =>
          \E c \in Clients :
              /\ call[c].at = "write" /\ call[c].record = r /\ call[c].seen = row[r]
              /\ row'[r].version = row[r].version + 1
              /\ LET merged == Merge(row[r], call[c].edit)
                 IN  row'[r].plain = merged.plain /\ row'[r].secret = merged.secret /\ row'[r].on = merged.on]_vars
=============================================================================
