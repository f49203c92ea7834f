------------------------ MODULE AdministrationProofs ------------------------
(* Proofs about the parts of the administration.  VersionedSettings: for      *)
(* every set of records, clients, field values and every bound on versions   *)
(* and lost answers.  ForwardRoutes (F): for every set of addresses and      *)
(* mailboxes and every bound on requests and events.                         *)
EXTENDS MCAdministration, WellFoundedInduction, TLAPS

(* The record a request without stored row starts from is a row.             *)
LEMMA BlankType == Blank \in Rows
BY VersionsAssumption DEF Blank, Rows

(* The merge of an edit over a row has fields of the same types.             *)
LEMMA MergeType ==
  ASSUME NEW r \in Records, NEW old \in Rows, NEW e \in Edits(r)
  PROVE  Merge(old, e) \in Fields
<1>1. Merge(old, e).plain \in Accounts \cup Kinds \cup {Unset}
  BY DEF Merge, Rows, Edits
<1>2. Merge(old, e).secret \in Secrets \cup {Unset}
  BY DEF Merge, Rows, Edits
<1>3. Merge(old, e).on \in BOOLEAN
  <2>1. old.on \in BOOLEAN
    BY DEF Rows
  <2>2. e.on \in BOOLEAN \cup {Unset}
    BY DEF Edits
  <2>3. Merge(old, e).on = IF e.on = Unset THEN old.on ELSE e.on
    BY DEF Merge
  <2> QED
    BY <2>1, <2>2, <2>3
<1>4. Merge(old, e) = [plain |-> Merge(old, e).plain, secret |-> Merge(old, e).secret, on |-> Merge(old, e).on]
  BY DEF Merge
<1> QED
  BY <1>1, <1>2, <1>3, <1>4 DEF Fields

(* A setting is edited as a whole, so replacing it and merging the edit over *)
(* it come to the same.                                                      *)
LEMMA ReplaceIsMerge ==
  ASSUME NEW r \in Settings, NEW old, old.secret = Unset, NEW e \in Edits(r)
  PROVE  Merge(Blank, e) = Merge(old, e)
<1>1. e.plain # Unset /\ e.secret = Unset
  BY RecordsAssumption, UnsetAssumption DEF Edits
<1>2. e.on # Unset
  <2>1. e.on \in BOOLEAN
    BY DEF Edits
  <2> QED
    BY <2>1, UnsetAssumption
<1> QED
  BY <1>1, <1>2 DEF Merge, Blank

-----------------------------------------------------------------------------
(* The inductive invariant.                                                  *)

(* What a page shows, or showed when it sent a request, is an earlier        *)
(* version of the row or the row itself.                                     *)
Seen(s, r) == s.version <= row[r].version /\ (s.version = row[r].version => s = row[r])

PagesSeen == \A c \in Clients, r \in Records : Seen(view[c][r], r)

RequestSeen(c) ==
    /\ Seen(call[c].seen, call[c].record)
    /\ call[c].version < MaxVersion
    /\ call[c].record \in Targets => call[c].version > 0

(* A request is about to write the edit merged over the row, if the row      *)
(* still has its version.                                                    *)
DataMerged(c) ==
    LET r == call[c].record
    IN  /\ r \notin Settings => call[c].data.secret # Unset
        /\ row[r].version = call[c].version => call[c].data = Merge(row[r], call[c].edit)

MergeInv ==
    /\ PagesSeen
    /\ \A c \in Clients : call[c].at # "idle" => RequestSeen(c)
    /\ \A c \in Clients : call[c].at = "write" => DataMerged(c)
    /\ \A r \in Settings : row[r].secret = Unset

(* A row that is written gets a version that nobody has seen.                *)
LEMMA SeenStays ==
  ASSUME TypeOK, NEW r \in Records, NEW s \in Rows, Seen(s, r),
         row'[r] = row[r] \/ row'[r].version = row[r].version + 1
  PROVE  Seen(s, r)'
BY VersionsAssumption DEF Seen, TypeOK, Rows

(* The same of a request that waits to write.                                *)
LEMMA DataStays ==
  ASSUME TypeOK, NEW c \in Clients, call[c].at = "write", RequestSeen(c), DataMerged(c),
         call'[c] = call[c],
         \A r \in Records : row'[r] = row[r] \/ row'[r].version = row[r].version + 1
  PROVE  DataMerged(c)'
<1> DEFINE r == call[c].record
<1>1. r \in Records /\ row[r].version \in Nat /\ call[c].seen.version <= row[r].version
  BY VersionsAssumption DEF RequestSeen, Seen, TypeOK, Rows
<1>2. call[c].version = call[c].seen.version
  BY DEF TypeOK
<1>3. row'[r] = row[r] \/ row'[r].version # call[c].version
  BY VersionsAssumption, <1>1, <1>2 DEF TypeOK, Rows
<1> QED
  BY <1>3 DEF DataMerged

(* A step that writes at most new versions and changes the request of one    *)
(* client keeps what the invariant says of the others.                       *)
LEMMA OthersKeep ==
  ASSUME TypeOK, MergeInv, NEW c \in Clients,
         \A d \in Clients \ {c} : call'[d] = call[d],
         \A r \in Records : row'[r] = row[r] \/ row'[r].version = row[r].version + 1
  PROVE  \A d \in Clients \ {c} : /\ (call[d].at # "idle")' => RequestSeen(d)'
                                  /\ (call[d].at = "write")' => DataMerged(d)'
<1> SUFFICES ASSUME NEW d \in Clients \ {c}
             PROVE  /\ (call[d].at # "idle")' => RequestSeen(d)'
                    /\ (call[d].at = "write")' => DataMerged(d)'
  OBVIOUS
<1>1. (call[d].at # "idle")' => RequestSeen(d)'
  <2> SUFFICES ASSUME call[d].at # "idle" PROVE RequestSeen(d)'
    OBVIOUS
  <2>1. RequestSeen(d) /\ call[d].seen \in Rows /\ call[d].record \in Records
    BY DEF MergeInv, TypeOK
  <2>2. Seen(call[d].seen, call[d].record)'
    BY <2>1, SeenStays DEF RequestSeen, Seen
  <2> QED
    BY <2>1, <2>2 DEF RequestSeen
<1>2. (call[d].at = "write")' => DataMerged(d)'
  BY DataStays DEF MergeInv
<1> QED
  BY <1>1, <1>2

Inv == TypeOK /\ MergeInv

(* The page loads a row.                                                     *)
LEMMA OpenStep ==
  ASSUME Inv, NEW c \in Clients, NEW r \in Records, Open(c, r)
  PROVE  Inv'
<1>1. TypeOK'
  BY DEF Open, Inv, TypeOK
<1>2. PagesSeen'
  BY VersionsAssumption DEF Open, Inv, TypeOK, MergeInv, PagesSeen, Seen, Rows
<1> QED
  BY <1>1, <1>2 DEF Open, Inv, MergeInv, RequestSeen, DataMerged, Seen

(* A request begins with what its page shows.                                *)
LEMMA SubmitStep ==
  ASSUME Inv, NEW c \in Clients, NEW r \in Records, NEW e \in Edits(r), Submit(c, r, e)
  PROVE  Inv'
<1>1. /\ call'[c] = [at |-> "read", record |-> r, edit |-> e, version |-> view[c][r].version, seen |-> view[c][r]]
      /\ \A d \in Clients \ {c} : call'[d] = call[d]
      /\ call' = [d \in Clients |-> call'[d]]
  BY DEF Submit, Inv, TypeOK
<1>2. view[c][r] \in Rows /\ row[r] \in Rows /\ Seen(view[c][r], r)
  BY DEF Inv, TypeOK, MergeInv, PagesSeen
<1>3. TypeOK'
  BY <1>1, <1>2 DEF Submit, Inv, TypeOK
<1>4. RequestSeen(c)'
  BY <1>1, <1>2, VersionsAssumption DEF Submit, RequestSeen, Seen, Rows
<1>5. \A d \in Clients \ {c} : /\ (call[d].at # "idle")' => RequestSeen(d)'
                               /\ (call[d].at = "write")' => DataMerged(d)'
  BY <1>1, OthersKeep DEF Submit, Inv
<1>6. (call[c].at # "write")'
  BY <1>1
<1> QED
  BY <1>3, <1>4, <1>5, <1>6 DEF Submit, Inv, MergeInv, PagesSeen, Seen

(* A request ends without writing anything.                                  *)
LEMMA RefuseStep ==
  ASSUME Inv, NEW c \in Clients, Refuse(c)
  PROVE  Inv'
<1>1. /\ call'[c] = Idle /\ \A d \in Clients \ {c} : call'[d] = call[d]
      /\ call' = [d \in Clients |-> call'[d]]
  BY DEF Refuse, Inv, TypeOK
<1>2. TypeOK'
  BY <1>1 DEF Refuse, Inv, TypeOK, Idle
<1>3. \A d \in Clients \ {c} : /\ (call[d].at # "idle")' => RequestSeen(d)'
                               /\ (call[d].at = "write")' => DataMerged(d)'
  BY <1>1, OthersKeep DEF Refuse, Inv
<1> QED
  BY <1>1, <1>2, <1>3 DEF Refuse, Inv, MergeInv, PagesSeen, Seen, Idle

(* The row is read and the edit merged over it.  A connection without a      *)
(* secret is refused; a target has a row, and that one has its secret.       *)
LEMMA ReadStep ==
  ASSUME Inv, NEW c \in Clients, Read(c)
  PROVE  Inv'
<1> DEFINE r == call[c].record
           e == call[c].edit
           data == Merge(IF r \in Settings THEN Blank ELSE row[r], e)
<1>1. r \in Records /\ e \in Edits(r) /\ call[c].seen \in Rows /\ row[r] \in Rows
      /\ call[c].version = call[c].seen.version /\ RequestSeen(c)
  BY DEF Read, Inv, TypeOK, MergeInv
<1>2. SUFFICES ASSUME ~Refuse(c) PROVE Inv'
  BY RefuseStep
<1>3. /\ r \in Targets => row[r].version = call[c].version
      /\ Accepted(r, row[r], e)
      /\ UNCHANGED <<row, view, losses>>
  BY <1>2 DEF Read
<1>4. /\ call'[c] = [at |-> "write", record |-> r, edit |-> e, version |-> call[c].version, seen |-> call[c].seen, data |-> data]
      /\ \A d \in Clients \ {c} : call'[d] = call[d]
      /\ call' = [d \in Clients |-> call'[d]]
  BY <1>2 DEF Read, Inv, TypeOK
<1>5. data \in Fields
  BY <1>1, MergeType, BlankType
<1>6. TypeOK'
  <2> HIDE DEF data
  <2>1. /\ call'[c].at = "write" /\ call'[c].data \in Fields
        /\ call'[c].record \in Records /\ call'[c].edit \in Edits(call'[c].record)
        /\ call'[c].seen \in Rows /\ call'[c].version = call'[c].seen.version
    BY <1>1, <1>4, <1>5
  <2>2. \A d \in Clients : call'[d].at \in {"idle", "read", "write"}
    BY <1>4, <2>1 DEF Inv, TypeOK
  <2>3. \A d \in Clients : call'[d].at = "write" => call'[d].data \in Fields
    BY <1>4, <2>1 DEF Inv, TypeOK
  <2>4. \A d \in Clients : call'[d].at # "idle" =>
          /\ call'[d].record \in Records /\ call'[d].edit \in Edits(call'[d].record)
          /\ call'[d].seen \in Rows /\ call'[d].version = call'[d].seen.version
    <3> SUFFICES ASSUME NEW d \in Clients, call'[d].at # "idle"
                 PROVE  /\ call'[d].record \in Records /\ call'[d].edit \in Edits(call'[d].record)
                        /\ call'[d].seen \in Rows /\ call'[d].version = call'[d].seen.version
      OBVIOUS
    <3>1. CASE d = c
      BY <2>1, <3>1
    <3>2. CASE d # c
      BY <1>4, <3>2 DEF Inv, TypeOK
    <3> QED
      BY <3>1, <3>2
  <2> QED
    BY <1>3, <1>4, <2>2, <2>3, <2>4 DEF Inv, TypeOK
<1>7. RequestSeen(c)'
  BY <1>1, <1>3, <1>4 DEF RequestSeen, Seen
<1>8. r \notin Settings => data.secret # Unset
  <2>1. CASE r \in Connections
    BY <1>3, <2>1, RecordsAssumption DEF Accepted
  <2>2. CASE r \in Targets
    <3>1. row[r].version > 0 /\ r \notin Settings
      BY <1>1, <1>3, <2>2, RecordsAssumption DEF RequestSeen
    <3>2. row[r].secret # Unset
      BY <1>1, <3>1 DEF Inv, TypeOK
    <3> QED
      BY <3>1, <3>2 DEF Merge
  <2> QED
    BY <1>1, <2>1, <2>2 DEF Records
<1>9. data = Merge(row[r], e)
  BY <1>1, ReplaceIsMerge DEF Inv, MergeInv
<1>10. DataMerged(c)'
  <2> HIDE DEF data
  <2> QED
    BY <1>3, <1>4, <1>8, <1>9 DEF DataMerged
<1>11. \A d \in Clients \ {c} : /\ (call[d].at # "idle")' => RequestSeen(d)'
                                /\ (call[d].at = "write")' => DataMerged(d)'
  BY <1>3, <1>4, OthersKeep DEF Inv
<1> QED
  BY <1>3, <1>6, <1>7, <1>10, <1>11 DEF Inv, MergeInv, PagesSeen, Seen

(* A row that is replaced by its next version keeps the invariant, and so    *)
(* does a page that shows the row it has just written.                       *)
LEMMA NextVersionStep ==
  ASSUME Inv, NEW r \in Records, NEW new \in Rows, row' = [row EXCEPT ![r] = new],
         new.version = row[r].version + 1,
         r \in Settings => new.secret = Unset, r \notin Settings => new.secret # Unset,
         \/ view' = view
         \/ \E c \in Clients : view' = [view EXCEPT ![c][r] = new]
  PROVE  /\ row' \in [Records -> Rows] /\ view' \in [Clients -> [Records -> Rows]]
         /\ \A q \in Records \ Settings : row'[q].version > 0 => row'[q].secret # Unset
         /\ PagesSeen'
         /\ \A q \in Settings : row'[q].secret = Unset
         /\ \A q \in Records : row'[q] = row[q] \/ row'[q].version = row[q].version + 1
<1>1. \A q \in Records : row'[q] = IF q = r THEN new ELSE row[q]
  BY DEF Inv, TypeOK
<1>2. \A q \in Records : row'[q] = row[q] \/ row'[q].version = row[q].version + 1
  BY <1>1
<1>3. row' \in [Records -> Rows] /\ view' \in [Clients -> [Records -> Rows]]
  <2>1. row' \in [Records -> Rows]
    BY DEF Inv, TypeOK
  <2>2. ASSUME NEW c \in Clients, view' = [view EXCEPT ![c][r] = new]
        PROVE  view' \in [Clients -> [Records -> Rows]]
    <3>1. [view[c] EXCEPT ![r] = new] \in [Records -> Rows]
      BY DEF Inv, TypeOK
    <3> QED
      BY <2>2, <3>1 DEF Inv, TypeOK
  <2> QED
    BY <2>1, <2>2 DEF Inv, TypeOK
<1>4. PagesSeen'
  <2> SUFFICES ASSUME NEW c \in Clients, NEW q \in Records
               PROVE  /\ view'[c][q].version <= row'[q].version
                      /\ view'[c][q].version = row'[q].version => view'[c][q] = row'[q]
    BY DEF PagesSeen, Seen
  <2>1. CASE view'[c][q] = view[c][q]
    <3>1. view[c][q] \in Rows /\ Seen(view[c][q], q)
      BY DEF Inv, TypeOK, MergeInv, PagesSeen
    <3>2. Seen(view[c][q], q)'
      BY <1>2, <3>1, SeenStays, <2>1 DEF Inv, Seen
    <3> QED
      BY <2>1, <3>2 DEF Seen
  <2>2. CASE q = r /\ view'[c][q] = new
    BY <1>1, <2>2, VersionsAssumption DEF Rows
  <2> QED
    BY <2>1, <2>2 DEF Inv, TypeOK
<1>5. \A q \in Settings : row'[q].secret = Unset
  BY <1>1 DEF Inv, MergeInv, Records
<1>6. \A q \in Records \ Settings : row'[q].version > 0 => row'[q].secret # Unset
  BY <1>1 DEF Inv, TypeOK
<1> QED
  BY <1>2, <1>3, <1>4, <1>5, <1>6

(* The row is written if it still has the version the page showed.           *)
LEMMA WriteStep ==
  ASSUME Inv, NEW c \in Clients, Write(c)
  PROVE  Inv'
<1> DEFINE r == call[c].record
           data == call[c].data
           new == [version |-> row[r].version + 1, plain |-> data.plain, secret |-> data.secret, on |-> data.on]
<1>1. /\ call'[c] = Idle /\ \A d \in Clients \ {c} : call'[d] = call[d]
      /\ call' = [d \in Clients |-> call'[d]]
  BY DEF Write, Inv, TypeOK
<1>2. CASE ~Writable(c)
  BY <1>2, RefuseStep DEF Write, Refuse
<1>3. CASE Writable(c)
  <2>1. r \in Records /\ data \in Fields /\ row[r] \in Rows /\ RequestSeen(c) /\ DataMerged(c)
    BY DEF Write, Inv, TypeOK, MergeInv
  <2>2. row[r].version = call[c].version /\ row[r].version + 1 \in 0..MaxVersion
    BY <1>3, <2>1, VersionsAssumption DEF Writable, RequestSeen, Rows
  <2>3. data.plain \in Accounts \cup Kinds \cup {Unset} /\ data.secret \in Secrets \cup {Unset}
    BY <2>1 DEF Fields
  <2>4. data.on \in BOOLEAN
    BY <2>1 DEF Fields
  <2>5. new \in Rows
    BY <2>2, <2>3, <2>4 DEF Rows
  <2>6. r \notin Settings => new.secret # Unset
    BY <2>1 DEF DataMerged
  <2>7. r \in Settings => new.secret = Unset
    <3> SUFFICES ASSUME r \in Settings PROVE data.secret = Unset
      OBVIOUS
    <3>1. data = Merge(row[r], call[c].edit) /\ row[r].secret = Unset
      BY <2>1, <2>2 DEF DataMerged, Inv, MergeInv
    <3>2. call[c].edit.secret = Unset
      BY <2>1 DEF Write, Inv, TypeOK, Edits
    <3> QED
      BY <3>1, <3>2 DEF Merge
  <2>8. /\ row' = [row EXCEPT ![r] = new]
        /\ view' = view \/ view' = [view EXCEPT ![c][r] = new]
        /\ losses' \in 0..MaxLosses
    BY <1>3, VersionsAssumption DEF Write, Inv, TypeOK
  <2> HIDE DEF new
  <2>9. new.version = row[r].version + 1
    BY DEF new
  <2>10. /\ row' \in [Records -> Rows] /\ view' \in [Clients -> [Records -> Rows]]
         /\ \A q \in Records \ Settings : row'[q].version > 0 => row'[q].secret # Unset
         /\ PagesSeen'
         /\ \A q \in Settings : row'[q].secret = Unset
         /\ \A q \in Records : row'[q] = row[q] \/ row'[q].version = row[q].version + 1
    BY <2>1, <2>5, <2>6, <2>7, <2>8, <2>9, NextVersionStep
  <2>11. TypeOK'
    <3>1. \A d \in Clients : call'[d] = call[d] \/ call'[d].at = "idle"
      BY <1>1 DEF Idle
    <3> HIDE DEF r, data
    <3>2. \A d \in Clients : call'[d].at \in {"idle", "read", "write"}
      BY <3>1 DEF Inv, TypeOK
    <3>3. \A d \in Clients : call'[d].at # "idle" =>
            /\ call'[d].record \in Records /\ call'[d].edit \in Edits(call'[d].record)
            /\ call'[d].seen \in Rows /\ call'[d].version = call'[d].seen.version
      BY <3>1 DEF Inv, TypeOK
    <3>4. \A d \in Clients : call'[d].at = "write" => call'[d].data \in Fields
      BY <3>1 DEF Inv, TypeOK
    <3> QED
      BY <1>1, <2>8, <2>10, <3>2, <3>3, <3>4 DEF TypeOK
  <2>12. \A d \in Clients \ {c} : /\ (call[d].at # "idle")' => RequestSeen(d)'
                                  /\ (call[d].at = "write")' => DataMerged(d)'
    BY <1>1, <2>10, OthersKeep DEF Inv
  <2> QED
    BY <1>1, <2>10, <2>11, <2>12 DEF Inv, MergeInv, Idle
<1> QED
  BY <1>2, <1>3

(* A target is created with all its fields.                                  *)
LEMMA CreateStep ==
  ASSUME Inv, NEW r \in Targets, NEW e \in Edits(r), CreateTarget(r, e)
  PROVE  Inv'
<1> DEFINE new == [version |-> 1, plain |-> e.plain, secret |-> e.secret, on |-> e.on]
<1>1. r \in Records /\ r \notin Settings /\ row[r].version = 0
  BY RecordsAssumption DEF CreateTarget, Records, Blank
<1>2. e.plain \in Kinds /\ e.secret \in Secrets /\ e.secret # Unset
  BY <1>1 DEF CreateTarget, Edits
<1>3. e.on \in BOOLEAN
  <2>1. e.on \in BOOLEAN \cup {Unset}
    BY <1>1 DEF Edits
  <2>2. e.on # Unset
    BY DEF CreateTarget
  <2> QED
    BY <2>1, <2>2
<1>4. new \in Rows
  BY <1>2, <1>3, VersionsAssumption DEF Rows
<1>5. row' = [row EXCEPT ![r] = new] /\ UNCHANGED <<view, call, losses>>
  BY DEF CreateTarget
<1>6. new.version = row[r].version + 1 /\ new.secret # Unset
  BY <1>1, <1>2
<1> HIDE DEF new
<1>7. /\ row' \in [Records -> Rows] /\ view' \in [Clients -> [Records -> Rows]]
      /\ \A q \in Records \ Settings : row'[q].version > 0 => row'[q].secret # Unset
      /\ PagesSeen'
      /\ \A q \in Settings : row'[q].secret = Unset
      /\ \A q \in Records : row'[q] = row[q] \/ row'[q].version = row[q].version + 1
  BY <1>1, <1>4, <1>5, <1>6, NextVersionStep
<1>8. TypeOK'
  BY <1>5, <1>7 DEF Inv, TypeOK
<1>9. \A c \in Clients : (call[c].at # "idle")' => RequestSeen(c)'
  <2> SUFFICES ASSUME NEW c \in Clients, call[c].at # "idle" PROVE RequestSeen(c)'
    BY <1>5
  <2>1. RequestSeen(c) /\ call[c].seen \in Rows /\ call[c].record \in Records
    BY DEF Inv, MergeInv, TypeOK
  <2>2. Seen(call[c].seen, call[c].record)'
    BY <1>5, <1>7, <2>1, SeenStays DEF Inv, RequestSeen, Seen
  <2> QED
    BY <1>5, <2>1, <2>2 DEF RequestSeen
<1>10. \A c \in Clients : (call[c].at = "write")' => DataMerged(c)'
  BY <1>5, <1>7, DataStays DEF Inv, MergeInv
<1> QED
  BY <1>7, <1>8, <1>9, <1>10 DEF Inv, MergeInv

(* Rows, pages and requests agree in every reachable state.                  *)
LEMMA Invariant == Spec => []Inv
<1>1. Init => Inv
  <2> SUFFICES ASSUME Init PROVE Inv
    OBVIOUS
  <2>1. \A r \in Records : row[r] = Blank /\ \A c \in Clients : view[c][r] = Blank
    BY DEF Init
  <2>2. TypeOK
    <3>1. row \in [Records -> Rows] /\ view \in [Clients -> [Records -> Rows]]
      BY BlankType DEF Init
    <3>2. /\ call = [c \in Clients |-> call[c]]
          /\ \A c \in Clients : call[c].at = "idle"
      BY DEF Init, Idle
    <3>3. \A r \in Records : row[r].version = 0
      BY <2>1 DEF Blank
    <3>4. losses \in 0..MaxLosses
      BY VersionsAssumption DEF Init
    <3> QED
      BY <3>1, <3>2, <3>3, <3>4 DEF TypeOK
  <2>3. MergeInv
    BY <2>1 DEF Init, MergeInv, PagesSeen, Seen, Idle, Blank, Records
  <2> QED
    BY <2>2, <2>3 DEF Inv
<1>2. Inv /\ [Next]_vars => Inv'
  <2> SUFFICES ASSUME Inv, [Next]_vars PROVE Inv'
    OBVIOUS
  <2>1. CASE Next
    BY <2>1, OpenStep, SubmitStep, ReadStep, WriteStep, CreateStep DEF Next
  <2>2. CASE UNCHANGED vars
    BY <2>2 DEF vars, Inv, TypeOK, MergeInv, PagesSeen, Seen, RequestSeen, DataMerged
  <2> QED
    BY <2>1, <2>2
<1> QED
  BY <1>1, <1>2, PTL DEF Spec

(* Rows, pages and requests are well typed, versions stay within their bound *)
(* and a stored connection or target always has its secret, although no      *)
(* browser ever sends the one that is stored.                                *)
THEOREM TypeCorrect == Spec => []TypeOK
<1>1. Inv => TypeOK
  BY DEF Inv
<1> QED
  BY <1>1, Invariant, PTL

(* Whatever the interleaving of pages and requests, a stored row is only     *)
(* replaced by the edit merged over the very row its page showed.            *)
THEOREM NothingOverwritten == Spec => SavedOverWhatWasSeen
<1> DEFINE Saved(r) ==
      \E c \in Clients :
          /\ call[c].at = "write" /\ call[c].record = r /\ call[c].seen = row[r]
          /\ row'[r].version = row[r].version + 1
          /\ LET merged == Merge(row[r], call[c].edit)
             IN  row'[r].plain = merged.plain /\ row'[r].secret = merged.secret /\ row'[r].on = merged.on
<1>1. Inv /\ [Next]_vars => [\A r \in Records : (row[r] # row'[r] /\ row[r].version > 0) => Saved(r)]_vars
  <2> SUFFICES ASSUME Inv, Next, NEW r \in Records, row[r] # row'[r], row[r].version > 0
               PROVE  Saved(r)
    OBVIOUS
  <2>1. ~(row' = row)
    OBVIOUS
  <2>2. ASSUME NEW c \in Clients, Write(c) PROVE Saved(r)
    <3> DEFINE data == call[c].data
               new == [version |-> row[call[c].record].version + 1, plain |-> data.plain, secret |-> data.secret, on |-> data.on]
    <3>1. Writable(c) /\ call[c].at = "write" /\ row' = [row EXCEPT ![call[c].record] = new]
      BY <2>1, <2>2 DEF Write
    <3>2. call[c].record = r
      BY <3>1 DEF Inv, TypeOK
    <3>3. row'[r] = new
      BY <3>1, <3>2 DEF Inv, TypeOK
    <3>4. call[c].seen = row[r]
      BY <3>1, <3>2 DEF Writable, Inv, TypeOK, MergeInv, RequestSeen, Seen
    <3>5. data = Merge(row[r], call[c].edit)
      BY <3>1, <3>2 DEF Writable, Inv, MergeInv, DataMerged
    <3>6. /\ row'[r].version = row[r].version + 1
          /\ row'[r].plain = data.plain /\ row'[r].secret = data.secret /\ row'[r].on = data.on
      BY <3>2, <3>3
    <3> HIDE DEF data
    <3> QED
      BY <3>1, <3>2, <3>4, <3>5, <3>6
  <2>3. ASSUME NEW q \in Targets, NEW e \in Edits(q), CreateTarget(q, e) PROVE FALSE
    BY <2>3 DEF CreateTarget, Inv, TypeOK, Blank
  <2>4. \A c \in Clients : ~Read(c)
    BY <2>1 DEF Read, Refuse
  <2>5. \A c \in Clients, q \in Records : ~Open(c, q) /\ \A e \in Edits(q) : ~Submit(c, q, e)
    BY <2>1 DEF Open, Submit
  <2> QED
    BY <2>2, <2>3, <2>4, <2>5 DEF Next
<1> QED
  BY <1>1, Invariant, PTL DEF Spec, SavedOverWhatWasSeen

-----------------------------------------------------------------------------
(* Forwarding aliases.                                                       *)

Steps == {"failed", "resolve", "destinations", "rules", "post", "insert"}
Asked == [at : Steps, source : Sources, to : Mailboxes]
Destinations == [mailbox : Mailboxes, verified : BOOLEAN]

RoutesInv ==
  /\ F!TypeOK
  /\ ask \in [Requests -> Asked \cup {F!Idle}]
  /\ destination \in Seq(Destinations)

(* A request that is under way takes a step of its own.                      *)
LEMMA GoStep ==
  ASSUME ask \in [Requests -> Asked \cup {F!Idle}], NEW c \in Requests, ask[c].at # "idle",
         NEW step \in Steps, F!Go(c, step)
  PROVE  /\ ask' \in [Requests -> Asked \cup {F!Idle}] /\ ask[c] \in Asked /\ ask'[c] \in Asked
         /\ ask'[c].at = step /\ ask'[c].source = ask[c].source /\ ask'[c].to = ask[c].to
         /\ \A d \in Requests : d # c => ask'[d] = ask[d]
<1>1. ask[c] \in Asked
  BY DEF F!Idle
<1>2. ask' = [ask EXCEPT ![c] = [ask[c] EXCEPT !.at = step]]
  BY DEF F!Go
<1> DEFINE next == [ask[c] EXCEPT !.at = step]
<1>3. next \in Asked /\ next.at = step /\ next.source = ask[c].source /\ next.to = ask[c].to
  BY <1>1 DEF Asked
<1> HIDE DEF next
<1>4. ask' = [ask EXCEPT ![c] = next]
  BY <1>2 DEF next
<1> QED
  BY <1>1, <1>3, <1>4

(* What a request is doing.                                                  *)
LEMMA AskTypes ==
  ASSUME ask \in [Requests -> Asked \cup {F!Idle}], NEW c \in Requests
  PROVE  /\ ask[c].at \in Steps \cup {"idle"}
         /\ (ask[c].at # "idle" => ask[c].source \in Sources /\ ask[c].to \in Mailboxes)
BY DEF Asked, F!Idle

(* The zone grows by one rule at most.                                       *)
LEMMA RuleAdded ==
  ASSUME F!TypeOK, NEW s \in Sources, NEW m \in Mailboxes
  PROVE  LET new == Append(rules, [source |-> s, to |-> m, on |-> TRUE])
         IN  /\ new \in Seq(F!Rules) /\ Len(new) = Len(rules) + 1 /\ new[Len(rules) + 1].source = s
             /\ \A i \in 1 .. Len(rules) : new[i] = rules[i]
<1> DEFINE r == [source |-> s, to |-> m, on |-> TRUE]
<1>1. r \in F!Rules /\ r.source = s /\ rules \in Seq(F!Rules)
  BY DEF F!Rules, F!TypeOK
<1> HIDE DEF r
<1>2. /\ Append(rules, r) \in Seq(F!Rules) /\ Len(Append(rules, r)) = Len(rules) + 1
      /\ Append(rules, r)[Len(rules) + 1] = r
      /\ \A i \in 1 .. Len(rules) : Append(rules, r)[i] = rules[i]
  BY <1>1
<1> QED
  BY <1>1, <1>2 DEF r

(* An address is registered once.                                            *)
LEMMA DestinationAdded ==
  ASSUME RoutesInv, NEW m \in Mailboxes, ~(\E d \in F!Range(destination) : d.mailbox = m)
  PROVE  LET new == Append(destination, [mailbox |-> m, verified |-> FALSE])
         IN  /\ new \in Seq(Destinations)
             /\ \A i, j \in DOMAIN new : new[i].mailbox = new[j].mailbox => i = j
<1> DEFINE d == [mailbox |-> m, verified |-> FALSE]
           new == Append(destination, d)
<1>1. d \in Destinations /\ d.mailbox = m /\ destination \in Seq(Destinations)
  BY DEF Destinations, RoutesInv
<1>2. \A i \in 1 .. Len(destination) : destination[i].mailbox # m
  <2>1. DOMAIN destination = 1 .. Len(destination)
    BY <1>1
  <2> QED
    BY <2>1 DEF F!Range
<1>3. \A i, j \in 1 .. Len(destination) : destination[i].mailbox = destination[j].mailbox => i = j
  <2>1. DOMAIN destination = 1 .. Len(destination)
    BY <1>1
  <2> QED
    BY <2>1 DEF RoutesInv, F!TypeOK
<1> HIDE DEF d
<1>4. /\ new \in Seq(Destinations) /\ DOMAIN new = 1 .. Len(destination) + 1 /\ new[Len(destination) + 1] = d
      /\ \A i \in 1 .. Len(destination) : new[i] = destination[i]
  BY <1>1
<1>5. Len(destination) \in Nat
  BY <1>1
<1> HIDE DEF new
<1>6. ASSUME NEW i \in DOMAIN new, NEW j \in DOMAIN new, new[i].mailbox = new[j].mailbox PROVE i = j
  <2>1. \A k \in DOMAIN new : k \in 1 .. Len(destination) \/ k = Len(destination) + 1
    BY <1>4, <1>5
  <2> QED
    BY <1>1, <1>2, <1>3, <1>4, <1>6, <2>1
<1> QED
  BY <1>4, <1>6 DEF new, d

(* Every step of a request or of the surroundings keeps the types.           *)
LEMMA RoutesStep ==
  ASSUME RoutesInv, [F!Next]_(F!vars)
  PROVE  RoutesInv'
<1>1. /\ rules \in Seq(F!Rules) /\ connection \in {"absent", "on", "off"}
      /\ alias \in [Sources -> Mailboxes \cup {None}] /\ asks \in 0..MaxAsks /\ events \in 0..MaxEvents
      /\ exposed \subseteq Sources
      /\ ask \in [Requests -> Asked \cup {F!Idle}]
      /\ destination \in Seq(Destinations)
      /\ \A i, j \in DOMAIN destination : destination[i].mailbox = destination[j].mailbox => i = j
  BY DEF RoutesInv, F!TypeOK
<1>2. ASSUME rules' \in Seq(F!Rules), connection' \in {"absent", "on", "off"},
             alias' \in [Sources -> Mailboxes \cup {None}], asks' \in 0..MaxAsks, events' \in 0..MaxEvents,
             exposed' \subseteq Sources,
             ask' \in [Requests -> Asked \cup {F!Idle}],
             destination' \in Seq(Destinations),
             \A i, j \in DOMAIN destination' : destination'[i].mailbox = destination'[j].mailbox => i = j
      PROVE  RoutesInv'
  <2>1. \A c \in Requests : ask'[c].at \in Steps \cup {"idle"}
    BY <1>2 DEF Asked, F!Idle
  <2> QED
    BY <1>2, <2>1 DEF RoutesInv, F!TypeOK, Steps
<1>3. F!Spend => events' \in 0..MaxEvents
  BY <1>1, BoundsAssumption DEF F!Spend
<1>4. \A c \in Requests, step \in Steps : ask[c].at # "idle" /\ F!Go(c, step) => ask' \in [Requests -> Asked \cup {F!Idle}]
  BY <1>1, GoStep
<1>5. \A step : \A c \in Requests : F!At(c, step) <=> ask[c].at = step
  BY DEF F!At
<1>6. ASSUME NEW c \in Requests, F!Ask(c)
      PROVE  RoutesInv'
  <2>1. ask' \in [Requests -> Asked \cup {F!Idle}]
    BY <1>1, <1>6 DEF F!Ask, Asked, Steps
  <2>2. asks' \in 0..MaxAsks
    BY <1>1, <1>6, BoundsAssumption DEF F!Ask
  <2> QED
    BY <1>1, <1>2, <1>6, <2>1, <2>2 DEF F!Ask
<1>7. ASSUME NEW c \in Requests, F!Resolve(c)
      PROVE  RoutesInv'
  <2>1. ask' \in [Requests -> Asked \cup {F!Idle}]
    BY <1>4, <1>5, <1>7 DEF F!Resolve, F!Refuse, Steps
  <2> QED
    BY <1>1, <1>2, <1>7, <2>1 DEF F!Resolve
<1>8. ASSUME NEW c \in Requests, F!EnsureDestination(c)
      PROVE  RoutesInv'
  <2>1. ask[c].at # "idle" /\ ask[c].to \in Mailboxes
    BY <1>1, <1>5, <1>8, AskTypes DEF F!EnsureDestination
  <2>2. ask' \in [Requests -> Asked \cup {F!Idle}]
    BY <1>4, <1>8, <2>1 DEF F!EnsureDestination, F!Refuse, Steps
  <2>3. UNCHANGED <<rules, connection, alias, asks, events, exposed>>
    BY <1>8 DEF F!EnsureDestination
  <2>4. \/ destination' = destination
        \/ /\ ~(\E d \in F!Range(destination) : d.mailbox = ask[c].to)
           /\ destination' = Append(destination, [mailbox |-> ask[c].to, verified |-> FALSE])
    BY <1>8 DEF F!EnsureDestination
  <2>5. /\ destination' \in Seq(Destinations)
        /\ \A i, j \in DOMAIN destination' : destination'[i].mailbox = destination'[j].mailbox => i = j
    BY <1>1, <2>1, <2>4, DestinationAdded
  <2> QED
    BY <1>1, <1>2, <2>2, <2>3, <2>5
<1>9. ASSUME NEW c \in Requests, F!ListRules(c)
      PROVE  RoutesInv'
  <2>1. ask' \in [Requests -> Asked \cup {F!Idle}]
    BY <1>4, <1>5, <1>9 DEF F!ListRules, F!Refuse, Steps
  <2>2. ask[c].source \in Sources
    BY <1>1, <1>5, <1>9, AskTypes DEF F!ListRules
  <2>3. exposed' \subseteq Sources
    BY <1>1, <1>9, <2>2 DEF F!ListRules, F!Found
  <2> QED
    BY <1>1, <1>2, <1>9, <2>1, <2>3 DEF F!ListRules
<1>10. ASSUME NEW c \in Requests, F!Post(c)
       PROVE  RoutesInv'
  <2>1. ask[c].at # "idle" /\ ask[c].source \in Sources /\ ask[c].to \in Mailboxes
    BY <1>1, <1>5, <1>10, AskTypes DEF F!Post
  <2>2. ask' \in [Requests -> Asked \cup {F!Idle}] /\ events' \in 0..MaxEvents
    BY <1>1, <1>3, <1>4, <1>10, <2>1 DEF F!Post, F!Refuse, Steps
  <2>3. rules' = rules \/ rules' = Append(rules, [source |-> ask[c].source, to |-> ask[c].to, on |-> TRUE])
    BY <1>10 DEF F!Post
  <2>4. rules' \in Seq(F!Rules)
    <3>1. rules \in Seq(F!Rules)
      BY <1>1 DEF F!TypeOK
    <3> DEFINE r == [source |-> ask[c].source, to |-> ask[c].to, on |-> TRUE]
    <3>2. r \in F!Rules
      BY <2>1 DEF F!Rules
    <3> HIDE DEF r
    <3>3. Append(rules, r) \in Seq(F!Rules)
      BY <3>1, <3>2
    <3> QED
      BY <2>3, <3>1, <3>3, Zenon DEF r
  <2> QED
    BY <1>1, <1>2, <1>10, <2>2, <2>4 DEF F!Post
<1>11. ASSUME NEW c \in Requests, F!Insert(c)
       PROVE  RoutesInv'
  <2>1. ask[c].at # "idle" /\ ask[c].source \in Sources /\ ask[c].to \in Mailboxes
    BY <1>1, <1>5, <1>11, AskTypes DEF F!Insert
  <2>2. [ask EXCEPT ![c] = F!Idle] \in [Requests -> Asked \cup {F!Idle}]
    BY <1>1
  <2>3. ask' \in [Requests -> Asked \cup {F!Idle}] /\ events' \in 0..MaxEvents
    BY <1>1, <1>3, <1>4, <1>11, <2>1, <2>2 DEF F!Insert, F!Refuse, Steps
  <2>4. alias' \in [Sources -> Mailboxes \cup {None}]
    BY <1>1, <1>11, <2>1 DEF F!Insert
  <2> QED
    BY <1>1, <1>2, <1>11, <2>3, <2>4 DEF F!Insert
<1>12. ASSUME NEW c \in Requests, F!Again(c)
       PROVE  RoutesInv'
  <2>1. ask' \in [Requests -> Asked \cup {F!Idle}]
    BY <1>4, <1>5, <1>12 DEF F!Again, Steps
  <2> QED
    BY <1>1, <1>2, <1>12, <2>1 DEF F!Again
<1>13. CASE F!Crash
  <2>1. ask' \in [Requests -> Asked \cup {F!Idle}]
    <3>1. ask' = [c \in Requests |-> IF ask[c].at = "idle" THEN F!Idle ELSE [ask[c] EXCEPT !.at = "failed"]]
      BY <1>13 DEF F!Crash, F!At
    <3>2. \A c \in Requests : ask[c].at # "idle" => [ask[c] EXCEPT !.at = "failed"] \in Asked
      BY <1>1 DEF Asked, F!Idle, Steps
    <3> QED
      BY <3>1, <3>2
  <2> QED
    BY <1>1, <1>2, <1>3, <1>13, <2>1 DEF F!Crash
<1>14. CASE F!Connect
  BY <1>1, <1>2, <1>14 DEF F!Connect
<1>15. CASE F!SwitchOff
  BY <1>1, <1>2, <1>3, <1>15 DEF F!SwitchOff
<1>16. CASE F!Confirm
  <2>1. PICK k \in DOMAIN destination : destination' = [destination EXCEPT ![k].verified = TRUE]
    BY <1>16 DEF F!Confirm
  <2> DEFINE d == [destination[k] EXCEPT !.verified = TRUE]
  <2>2. d \in Destinations /\ d.mailbox = destination[k].mailbox
    <3>1. destination[k] \in Destinations
      BY <1>1
    <3> QED
      BY <3>1 DEF Destinations
  <2> HIDE DEF d
  <2>3. destination' = [destination EXCEPT ![k] = d]
    BY <2>1 DEF d
  <2>4. destination' \in Seq(Destinations) /\ DOMAIN destination' = DOMAIN destination
        /\ \A i \in DOMAIN destination : destination'[i].mailbox = destination[i].mailbox
    <3> DEFINE n == Len(destination)
    <3>1. n \in Nat /\ DOMAIN destination = 1 .. n /\ destination \in [1 .. n -> Destinations]
      BY <1>1
    <3> HIDE DEF n
    <3>2. destination' \in [1 .. n -> Destinations]
      BY <2>2, <2>3, <3>1
    <3>3. destination' \in Seq(Destinations)
      BY <3>1, <3>2
    <3>4. \A i \in DOMAIN destination : destination'[i].mailbox = destination[i].mailbox
      BY <2>2, <2>3, <3>1
    <3> QED
      BY <3>1, <3>2, <3>3, <3>4
  <2> QED
    BY <1>1, <1>2, <1>16, <2>4 DEF F!Confirm
<1>17. CASE UNCHANGED F!vars
  BY <1>1, <1>2, <1>17 DEF F!vars
<1> QED
  BY <1>6, <1>7, <1>8, <1>9, <1>10, <1>11, <1>12, <1>13, <1>14, <1>15, <1>16, <1>17 DEF F!Next, F!CallStep

(* They hold from the start.                                                 *)
LEMMA RoutesStay == F!Spec => []RoutesInv
<1>1. F!Init => RoutesInv
  <2> SUFFICES ASSUME F!Init PROVE RoutesInv
    OBVIOUS
  <2>1. rules \in Seq(F!Rules)
    BY RulesAssumption DEF F!Init, F!Rules, Rules
  <2>2. ask = [c \in Requests |-> F!Idle] /\ \A c \in Requests : ask[c].at = "idle"
    BY DEF F!Init, F!Idle
  <2>3. destination \in Seq(Destinations) /\ DOMAIN destination = {}
    BY DEF F!Init
  <2>4. asks \in 0..MaxAsks /\ events \in 0..MaxEvents
    BY BoundsAssumption DEF F!Init
  <2> QED
    BY <2>1, <2>2, <2>3, <2>4 DEF F!Init, RoutesInv, F!TypeOK
<1>2. RoutesInv /\ [F!Next]_(F!vars) => RoutesInv'
  BY RoutesStep
<1> QED
  BY <1>1, <1>2, PTL DEF F!Spec

(* The zone, the addresses of the account, the aliases and the requests are  *)
(* well typed, and no mailbox is registered twice as a destination: the      *)
(* check is made on the whole account, whatever page a listing shows.        *)
THEOREM RoutesTyped == F!Spec => []F!TypeOK
<1>1. RoutesInv => F!TypeOK
  BY DEF RoutesInv
<1> QED
  BY <1>1, RoutesStay, PTL

(* A request that is about to add a rule has seen that there is none, and no *)
(* other is about to add one for the address, unless its listing could not   *)
(* show it.                                                                  *)
RouteInv ==
  /\ \A i, j \in 1 .. Len(rules) : rules[i].source = rules[j].source => i = j \/ rules[i].source \in exposed
  /\ \A c \in Requests : ask[c].at = "post" =>
        ask[c].source \in exposed \/ \A i \in 1 .. Len(rules) : rules[i].source # ask[c].source
  /\ \A c, d \in Requests : ask[c].at = "post" /\ ask[d].at = "post" /\ ask[c].source = ask[d].source =>
        c = d \/ ask[c].source \in exposed

(* The listing shows a rule of the address when there is one on its page:    *)
(* the first of them is found.                                               *)
LEMMA ListingFinds ==
  ASSUME F!TypeOK, NEW c \in Requests, F!FindRule(c) = {}
  PROVE  \A i \in 1 .. Len(rules) : rules[i].source = ask[c].source => i > PageSize
<1> DEFINE n == Len(rules)
           Match(i) == i \in 1 .. n /\ rules[i].source = ask[c].source /\ i <= PageSize
<1> SUFFICES ASSUME NEW k \in 1 .. n, Match(k) PROVE FALSE
  BY BoundsAssumption
<1>1. n \in Nat /\ DOMAIN rules = 1 .. n
  BY DEF F!TypeOK
<1> HIDE DEF n
<1> DEFINE T == {i \in 1 .. n : Match(i)}
<1>2. T \subseteq Nat /\ k \in T
  BY <1>1
<1>3. PICK i \in T : \A j \in T : i <= j
  <2> DEFINE Less == OpToRel(<, Nat)
  <2>1. IsWellFoundedOn(Less, Nat)
    BY NatLessThanWellFounded
  <2> HIDE DEF Less, T
  <2>2. PICK least \in T : \A j \in T : ~(<<j, least>> \in Less)
    BY <1>2, <2>1, WFMin
  <2>3. \A i, j \in Nat : <<j, i>> \in Less <=> j < i
    BY DEF Less, OpToRel
  <2>4. \A j \in T : j \in Nat /\ least \in Nat
    BY <1>2
  <2>5. \A j \in T : ~(j < least)
    BY <2>2, <2>3, <2>4
  <2>6. \A j \in T : least <= j
    BY <2>4, <2>5
  <2> QED
    BY <2>6
<1>4. \A j \in 1..(i - 1) : rules[j].source # ask[c].source
  <2> SUFFICES ASSUME NEW j \in 1..(i - 1), rules[j].source = ask[c].source PROVE FALSE
    OBVIOUS
  <2>1. i \in Nat /\ i <= n /\ i <= PageSize
    BY <1>1, <1>3
  <2>2. j \in T /\ ~(i <= j)
    BY <1>1, <2>1, BoundsAssumption
  <2> QED
    BY <1>3, <2>2
<1>5. i \in F!FindRule(c)
  BY <1>1, <1>3, <1>4 DEF F!FindRule
<1> QED
  BY <1>5

(* No step adds a second rule for an address that was not exposed.           *)
LEMMA RouteStep ==
  ASSUME RoutesInv, RoutesInv', RouteInv, [F!Next]_(F!vars)
  PROVE  RouteInv'
<1>1. /\ F!TypeOK /\ ask \in [Requests -> Asked \cup {F!Idle}] /\ Len(rules) \in Nat
  BY DEF RoutesInv, F!TypeOK
<1>2. \A c \in Requests, step \in Steps : ask[c].at # "idle" /\ F!Go(c, step) =>
         /\ ask'[c].at = step /\ ask'[c].source = ask[c].source
         /\ \A d \in Requests : d # c => ask'[d] = ask[d]
  BY <1>1, GoStep
<1>3. \A step : \A c \in Requests : F!At(c, step) <=> ask[c].at = step
  BY DEF F!At
<1>4. ASSUME rules' = rules, exposed \subseteq exposed',
             \A c \in Requests : ask'[c].at = "post" => ask[c].at = "post" /\ ask'[c].source = ask[c].source
      PROVE  RouteInv'
  BY <1>4 DEF RouteInv
<1>5. ASSUME NEW c \in Requests, NEW step \in Steps \ {"post"}, ask[c].at # "idle", F!Go(c, step),
             rules' = rules, exposed \subseteq exposed'
      PROVE  RouteInv'
  <2>1. ask'[c].at = step /\ \A d \in Requests : d # c => ask'[d] = ask[d]
    BY <1>2, <1>5
  <2> QED
    BY <1>4, <1>5, <2>1
<1>6. ASSUME NEW c \in Requests, F!Ask(c)
      PROVE  RouteInv'
  <2>1. \A d \in Requests : ask'[d].at = "post" => ask'[d] = ask[d]
    BY <1>1, <1>6 DEF F!Ask
  <2> QED
    BY <1>4, <1>6, <2>1 DEF F!Ask
<1>7. ASSUME NEW c \in Requests, F!Resolve(c) \/ F!EnsureDestination(c) \/ F!Again(c)
      PROVE  RouteInv'
  <2>1. rules' = rules /\ exposed' = exposed /\ ask[c].at # "idle"
    BY <1>3, <1>7 DEF F!Resolve, F!EnsureDestination, F!Again
  <2>2. \E step \in {"destinations", "rules", "failed", "resolve"} : F!Go(c, step)
    BY <1>7 DEF F!Resolve, F!EnsureDestination, F!Again, F!Refuse
  <2> QED
    BY <1>5, <2>1, <2>2 DEF Steps
<1>8. ASSUME NEW c \in Requests, F!ListRules(c)
      PROVE  RouteInv'
  <2>1. rules' = rules /\ exposed \subseteq exposed' /\ ask[c].at # "idle"
    BY <1>3, <1>8 DEF F!ListRules, F!Found
  <2>2. CASE F!FindRule(c) = {} /\ F!Go(c, "post")
    <3>1. /\ ask'[c].source = ask[c].source
          /\ \A d \in Requests : d # c => ask'[d] = ask[d]
      BY <1>2, <2>1, <2>2 DEF Steps
    <3>2. CASE F!Unshown(c)
      <4>1. exposed' = exposed \cup {ask[c].source}
        BY <1>8, <2>2, <3>2 DEF F!ListRules, F!Found
      <4> QED
        BY <2>1, <3>1, <4>1 DEF RouteInv
    <3>3. CASE ~F!Unshown(c)
      <4>1. \A i \in 1 .. Len(rules) : rules[i].source # ask[c].source
        <5>1. DOMAIN rules = 1 .. Len(rules)
          BY <1>1 DEF F!TypeOK
        <5>2. \A i \in 1 .. Len(rules) : i > PageSize => rules[i].source # ask[c].source
          BY <3>3, <5>1 DEF F!Unshown
        <5> QED
          BY <1>1, <2>2, <5>2, ListingFinds
      <4>2. \A d \in Requests \ {c} : ask[d].at = "post" => ask[d].source # ask[c].source
        BY <1>3, <3>3 DEF F!Unshown
      <4> QED
        BY <2>1, <3>1, <4>1, <4>2 DEF RouteInv
    <3> QED
      BY <3>2, <3>3
  <2>3. CASE F!Go(c, "insert") \/ F!Go(c, "failed")
    BY <1>5, <2>1, <2>3 DEF Steps
  <2> QED
    BY <1>8, <2>2, <2>3 DEF F!ListRules, F!Refuse
<1>9. ASSUME NEW c \in Requests, F!Post(c)
      PROVE  RouteInv'
  <2>1. ask[c].at = "post" /\ ask[c].source \in Sources /\ ask[c].to \in Mailboxes /\ exposed' = exposed
    BY <1>1, <1>3, <1>9, AskTypes DEF F!Post
  <2>2. F!Go(c, "insert") \/ F!Go(c, "failed")
    BY <1>9 DEF F!Post, F!Refuse
  <2>3. /\ ask'[c].at # "post"
        /\ \A d \in Requests : d # c => ask'[d] = ask[d]
    BY <1>2, <2>1, <2>2 DEF Steps
  <2>4. CASE rules' = rules
    BY <1>4, <2>1, <2>3, <2>4
  <2>5. CASE rules' = Append(rules, [source |-> ask[c].source, to |-> ask[c].to, on |-> TRUE])
    <3>1. /\ Len(rules') = Len(rules) + 1 /\ rules'[Len(rules) + 1].source = ask[c].source
          /\ \A i \in 1 .. Len(rules) : rules'[i] = rules[i]
      BY <1>1, <2>1, <2>5, RuleAdded
    <3>2. ask[c].source \in exposed \/ \A i \in 1 .. Len(rules) : rules[i].source # ask[c].source
      BY <2>1 DEF RouteInv
    <3>3. \A i \in 1 .. Len(rules') : i \in 1 .. Len(rules) \/ i = Len(rules) + 1
      BY <1>1, <3>1
    <3>4. \A i, j \in 1 .. Len(rules') : rules'[i].source = rules'[j].source => i = j \/ rules'[i].source \in exposed
      BY <3>1, <3>2, <3>3 DEF RouteInv
    <3>5. \A d \in Requests : ask'[d].at = "post" =>
             /\ d # c /\ ask'[d] = ask[d] /\ ask[d].at = "post"
             /\ ask[d].source = ask[c].source => ask[d].source \in exposed
      BY <2>1, <2>3 DEF RouteInv
    <3>6. \A d \in Requests : ask'[d].at = "post" =>
             ask'[d].source \in exposed \/ \A i \in 1 .. Len(rules') : rules'[i].source # ask'[d].source
      BY <3>1, <3>3, <3>5 DEF RouteInv
    <3>7. \A b, d \in Requests : ask'[b].at = "post" /\ ask'[d].at = "post" /\ ask'[b].source = ask'[d].source =>
             b = d \/ ask'[b].source \in exposed
      BY <3>5 DEF RouteInv
    <3> QED
      BY <2>1, <3>4, <3>6, <3>7 DEF RouteInv
  <2> QED
    BY <1>9, <2>4, <2>5 DEF F!Post
<1>10. ASSUME NEW c \in Requests, F!Insert(c)
       PROVE  RouteInv'
  <2>1. ask[c].at # "idle" /\ rules' = rules /\ exposed' = exposed
    BY <1>3, <1>10 DEF F!Insert
  <2>2. CASE ask' = [ask EXCEPT ![c] = F!Idle]
    <3>1. ask'[c].at = "idle" /\ \A d \in Requests : d # c => ask'[d] = ask[d]
      BY <1>1, <2>2 DEF F!Idle
    <3> QED
      BY <1>4, <2>1, <3>1
  <2>3. CASE F!Go(c, "failed")
    BY <1>5, <2>1, <2>3 DEF Steps
  <2> QED
    BY <1>10, <2>2, <2>3 DEF F!Insert, F!Refuse
<1>11. CASE F!Crash
  <2>1. \A c \in Requests : ask'[c].at # "post"
    <3>1. ask' = [c \in Requests |-> IF ask[c].at = "idle" THEN F!Idle ELSE [ask[c] EXCEPT !.at = "failed"]]
      BY <1>11 DEF F!Crash, F!At
    <3>2. \A c \in Requests : ask[c].at # "idle" => [ask[c] EXCEPT !.at = "failed"].at = "failed"
      BY <1>1 DEF Asked, F!Idle
    <3> QED
      BY <3>1, <3>2 DEF F!Idle
  <2> QED
    BY <1>4, <1>11, <2>1 DEF F!Crash
<1>12. CASE F!Connect \/ F!SwitchOff \/ F!Confirm \/ UNCHANGED F!vars
  <2>1. rules' = rules /\ ask' = ask /\ exposed' = exposed
    BY <1>12 DEF F!Connect, F!SwitchOff, F!Confirm, F!vars
  <2> QED
    BY <1>4, <2>1
<1> QED
  BY <1>6, <1>7, <1>8, <1>9, <1>10, <1>11, <1>12 DEF F!Next, F!CallStep

(* Repeated requests, lost answers, failed inserts and crashes leave no two  *)
(* rules for one address, for any number of clients, zone and page size,     *)
(* except where a listing could not show the first rule: it was behind the   *)
(* page, or another request was about to add it.                             *)
THEOREM RoutesAreUnique == F!Spec => []OneRulePerAddress
<1>1. RoutesInv /\ F!Init => RouteInv
  <2> SUFFICES ASSUME RoutesInv, F!Init PROVE RouteInv
    OBVIOUS
  <2>1. rules \in Seq(F!Rules) /\ DOMAIN rules = 1 .. Len(rules)
    BY DEF RoutesInv, F!TypeOK
  <2>2. \A c \in Requests : ask[c].at # "post"
    BY DEF F!Init, F!Idle
  <2>3. \A i \in 1 .. Len(rules) : rules[i].source \in Sources
    <3>1. \A i \in 1 .. Len(rules) : rules[i] \in F!Rules
      BY <2>1
    <3>2. \A q \in F!Rules : q.source \in Sources
      BY DEF F!Rules
    <3> QED
      BY <3>1, <3>2
  <2>4. \A i, j \in 1 .. Len(rules) : rules[i].source = rules[j].source => i = j \/ rules[i].source \in exposed
    BY <2>1, <2>3 DEF F!Init
  <2> QED
    BY <2>2, <2>4 DEF RouteInv
<1>2. RoutesInv /\ RoutesInv' /\ RouteInv /\ [F!Next]_(F!vars) => RouteInv'
  BY RouteStep
<1>3. RoutesInv /\ RouteInv => OneRulePerAddress
  <2> SUFFICES ASSUME RoutesInv, RouteInv PROVE OneRulePerAddress
    OBVIOUS
  <2>1. DOMAIN rules = 1 .. Len(rules)
    BY DEF RoutesInv, F!TypeOK
  <2> QED
    BY <2>1 DEF RouteInv, OneRulePerAddress, F!OneRulePerAddress
<1> QED
  BY <1>1, <1>2, <1>3, RoutesStay, PTL DEF F!Spec
=============================================================================
