-------------------------- MODULE PickupKeysProofs --------------------------
(* Proofs about PickupKeys, for every set of mailboxes, keys, servers and    *)
(* callers, every length of a list and every bound on faults.                *)
EXTENDS PickupKeys, FiniteSetTheorems, TLAPS

(* A row that is stored is not the absence of one.                           *)
LEMMA RowType ==
    ASSUME NEW m \in Mailboxes, NEW label \in Labels, NEW sealed \in BOOLEAN, NEW expires \in BOOLEAN
    PROVE  /\ Row(m, label, sealed, expires) \in StoredRows
           /\ Row(m, label, sealed, expires).mailbox = m
           /\ Row(m, label, sealed, expires).label = label
           /\ Row(m, label, sealed, expires).sealed = sealed
           /\ Row(m, label, sealed, expires).revoked = FALSE
BY DEF Row, StoredRows

(* A key without a row is told apart from one with a row.                    *)
LEMMA NoRowIsNone == NoRow \notin StoredRows
<1>1. DOMAIN NoRow = {"mailbox"}
    BY DEF NoRow
<1>2. \A r \in StoredRows : "label" \in DOMAIN r
    BY DEF StoredRows
<1> QED
    BY <1>1, <1>2

(* The three things a step does to the table of keys.                        *)
Inserts(k, row) == ~HasRow(k) /\ ~Conflicts(row) /\ ~row.revoked /\ row.mailbox \in mailboxes' /\ Insert(k, row)
Revokes(k) == HasRow(k) /\ rows' = [rows EXCEPT ![k].revoked = TRUE] /\ order' = order
RowStep ==
    \/ UNCHANGED <<rows, order>>
    \/ \E k \in Keys, row \in StoredRows : Inserts(k, row)
    \/ \E k \in Keys : Revokes(k)

(* Every step does one of the three, and mailboxes are added only.           *)
LEMMA TableStep ==
    ASSUME TypeOK, [Next]_vars
    PROVE  RowStep /\ mailboxes \subseteq mailboxes' /\ mailboxes' \subseteq Mailboxes
<1> SUFFICES ASSUME Next PROVE RowStep /\ mailboxes \subseteq mailboxes' /\ mailboxes' \subseteq Mailboxes
    BY DEF vars, RowStep, TypeOK
<1>1. ASSUME NEW s \in Servers, StartStep(s) \/ Crash(s) PROVE UNCHANGED tables
    BY <1>1 DEF StartStep, Start, Serve, Crash, tables
<1>2. ASSUME NEW c \in Callers, EnsureAtStart(c) \/ Reveal(c) \/ Lock(c) \/ ListKeys(c) \/ ListAgain(c)
      PROVE  UNCHANGED tables
    BY <1>2 DEF EnsureAtStart, Reveal, Lock, ListKeys, ListAgain, tables
<1>3. ASSUME NEW c \in Callers, Create(c)
      PROVE  RowStep /\ mailboxes \subseteq mailboxes' /\ mailboxes' \subseteq Mailboxes
    BY <1>3 DEF Create, RowStep, TypeOK
<1>4. ASSUME NEW c \in Callers, IssueKey(c) PROVE RowStep /\ UNCHANGED mailboxes
    <2> DEFINE row == Row(caller[c].for, "automatic", TRUE, FALSE)
               k == CHOOSE k \in RandomKeys : TRUE
    <2>1. UNCHANGED mailboxes /\ caller[c].for \in mailboxes /\ At(c, "issue")
        BY <1>4 DEF IssueKey, At, TypeOK
    <2>2. CASE UNCHANGED <<rows, order>>
        BY <2>1, <2>2 DEF RowStep
    <2>3. CASE ~Conflicts(row) /\ RandomKeys # {} /\ Insert(k, row)
        <3>1. k \in Keys /\ ~HasRow(k)
            BY <2>3 DEF RandomKeys
        <3>2. row \in StoredRows /\ row.mailbox = caller[c].for /\ row.revoked = FALSE
            BY <2>1, RowType DEF Labels, TypeOK
        <3> HIDE DEF row, k
        <3>3. Inserts(k, row)
            BY <2>1, <2>3, <3>1, <3>2 DEF Inserts
        <3> QED
            BY <2>1, <3>1, <3>2, <3>3 DEF RowStep
    <2> QED
        BY <1>4, <2>2, <2>3 DEF IssueKey
<1>5. ASSUME NEW c \in Callers, NEW k \in GivenKeys, NEW m \in Mailboxes, Import(c, k, m)
      PROVE  RowStep /\ mailboxes \subseteq mailboxes' /\ mailboxes' \subseteq Mailboxes
    <2> DEFINE row == Row(m, "other", FALSE, FALSE)
    <2>1. mailboxes' = mailboxes \cup {m} /\ k \in Keys
        BY <1>5, KeysAssumption DEF Import
    <2>2. row \in StoredRows /\ row.mailbox = m /\ row.revoked = FALSE /\ row.label = "other"
        BY RowType DEF Labels
    <2>3. HasRow(k) => UNCHANGED <<rows, order>>
        BY <1>5 DEF Import
    <2>4. ~HasRow(k) => Insert(k, row)
        BY <1>5 DEF Import
    <2> HIDE DEF row
    <2>5. ~HasRow(k) => Inserts(k, row)
        BY <2>1, <2>2, <2>4 DEF Inserts, Conflicts
    <2> QED
        BY <2>1, <2>2, <2>3, <2>5 DEF RowStep, TypeOK
<1>6. ASSUME NEW m \in Mailboxes, NEW label \in Labels, NEW expires \in BOOLEAN, Issue(m, label, expires)
      PROVE  RowStep /\ UNCHANGED mailboxes
    <2> DEFINE row == Row(m, label, TRUE, expires)
    <2>1. row \in StoredRows /\ row.mailbox = m /\ row.revoked = FALSE
        BY DEF Row, StoredRows
    <2>2. PICK k \in GivenKeys : ~HasRow(k) /\ Insert(k, row)
        BY <1>6 DEF Issue
    <2>3. ~Conflicts(row) /\ m \in mailboxes /\ UNCHANGED mailboxes
        BY <1>6 DEF Issue
    <2> HIDE DEF row
    <2>4. Inserts(k, row)
        BY <2>1, <2>2, <2>3 DEF Inserts
    <2> QED
        BY <2>1, <2>3, <2>4, KeysAssumption DEF RowStep
<1>7. ASSUME NEW k \in Keys, Revoke(k) \/ Expire(k) PROVE RowStep /\ UNCHANGED mailboxes
    BY <1>7 DEF Revoke, Expire, RowStep, Revokes, tables
<1> QED
    BY <1>1, <1>2, <1>3, <1>4, <1>5, <1>6, <1>7 DEF Next, EnsureStep, Administer, RowStep, tables, TypeOK

(* The rows stay rows of known mailboxes, each with its place in the order.  *)
TableInv ==
    /\ rows \in [Keys -> StoredRows \cup {NoRow}]
    /\ order \in Seq(Keys) /\ IsInjective(order) /\ Range(order) = {k \in Keys : HasRow(k)}
    /\ \A k \in Keys : HasRow(k) => rows[k].mailbox \in mailboxes

(* None of the three breaks the table.                                       *)
LEMMA RowsKept ==
    ASSUME TypeOK, RowStep, mailboxes \subseteq mailboxes'
    PROVE  TableInv'
<1>1. /\ rows \in [Keys -> StoredRows \cup {NoRow}] /\ order \in Seq(Keys)
      /\ \A i, j \in DOMAIN order : order[i] = order[j] => i = j
      /\ {order[i] : i \in DOMAIN order} = {k \in Keys : HasRow(k)}
      /\ \A k \in Keys : HasRow(k) => rows[k].mailbox \in mailboxes
    BY DEF TypeOK, IsInjective, Range
<1>2. CASE UNCHANGED <<rows, order>>
    BY <1>1, <1>2 DEF TableInv, HasRow, IsInjective, Range
<1>3. ASSUME NEW k \in Keys, NEW row \in StoredRows, Inserts(k, row) PROVE TableInv'
    <2>1. ~HasRow(k) /\ row.mailbox \in mailboxes' /\ rows' = [rows EXCEPT ![k] = row] /\ order' = Append(order, k)
        BY <1>3 DEF Inserts, Insert
    <2>2. rows' \in [Keys -> StoredRows \cup {NoRow}]
        BY <1>1, <2>1
    <2>3. /\ rows'[k] = row /\ row # NoRow
          /\ \A l \in Keys \ {k} : rows'[l] = rows[l]
        BY <1>1, <2>1, NoRowIsNone
    <2>4. order' \in Seq(Keys) /\ Len(order') = Len(order) + 1 /\ Len(order) \in Nat
          /\ DOMAIN order = 1..Len(order) /\ DOMAIN order' = 1..(Len(order) + 1)
          /\ order'[Len(order) + 1] = k /\ \A i \in DOMAIN order : order'[i] = order[i]
        BY <1>1, <2>1
    <2>5. \A i \in DOMAIN order : order[i] # k
        BY <1>1, <2>1
    <2>6. \A i, j \in DOMAIN order' : order'[i] = order'[j] => i = j
        BY <1>1, <2>4, <2>5
    <2>7. {order'[i] : i \in DOMAIN order'} = {order[i] : i \in DOMAIN order} \cup {k}
        BY <2>4
    <2>8. {l \in Keys : HasRow(l)}' = {l \in Keys : HasRow(l)} \cup {k}
        BY <2>3 DEF HasRow
    <2>9. \A l \in Keys : HasRow(l)' => rows'[l].mailbox \in mailboxes'
        BY <1>1, <2>1, <2>3 DEF HasRow
    <2> QED
        BY <1>1, <2>2, <2>4, <2>6, <2>7, <2>8, <2>9 DEF TableInv, IsInjective, Range
<1>4. ASSUME NEW k \in Keys, Revokes(k) PROVE TableInv'
    <2>1. rows[k] \in StoredRows /\ rows' = [rows EXCEPT ![k].revoked = TRUE] /\ order' = order
        BY <1>1, <1>4 DEF Revokes, HasRow
    <2>2. rows'[k] \in StoredRows /\ rows'[k].mailbox = rows[k].mailbox
          /\ \A l \in Keys \ {k} : rows'[l] = rows[l]
        BY <1>1, <2>1 DEF StoredRows
    <2>3. rows' \in [Keys -> StoredRows \cup {NoRow}]
        BY <1>1, <2>1, <2>2
    <2>4. \A l \in Keys : HasRow(l)' <=> HasRow(l)
        BY <2>1, <2>2, NoRowIsNone DEF HasRow
    <2>5. \A l \in Keys : rows'[l].mailbox = rows[l].mailbox
        BY <2>2
    <2> QED
        BY <1>1, <2>1, <2>3, <2>4, <2>5 DEF TableInv, IsInjective, Range
<1> QED
    BY <1>2, <1>3, <1>4 DEF RowStep

(* Callers run only on servers that are up, and for known mailboxes.         *)
CallerInv ==
    /\ server \in [Servers -> {"down", "starting", "up"}] /\ todo \in [Servers -> SUBSET mailboxes]
    /\ caller \in [Callers -> Ensures]
    /\ \A c \in Callers : caller[c].at # "idle" => caller[c].for \in mailboxes /\ server[ServerOf[c]] # "down"

(* A caller at rest.                                                         *)
LEMMA IdleType == Idle \in Ensures /\ Idle.at = "idle"
BY DEF Idle, Ensures

(* A caller begins on a server that runs.                                    *)
LEMMA BeginType ==
    ASSUME TypeOK, mailboxes \subseteq mailboxes', mailboxes' \subseteq Mailboxes,
           NEW c \in Callers, NEW m \in mailboxes', server[ServerOf[c]] # "down", Begin(c, m),
           UNCHANGED <<server, todo>>
    PROVE  CallerInv'
<1>1. [at |-> "lock", for |-> m] \in Ensures
    BY DEF Ensures
<1>2. caller' \in [Callers -> Ensures]
    BY <1>1 DEF TypeOK, Begin
<1>3. todo' \in [Servers -> SUBSET mailboxes']
    BY DEF TypeOK
<1>4. caller'[c].for = m /\ \A d \in Callers \ {c} : caller'[d] = caller[d]
    BY DEF TypeOK, Begin
<1> QED
    BY <1>2, <1>3, <1>4 DEF TypeOK, CallerInv

(* A server that stops takes its callers with it.                            *)
LEMMA StopType ==
    ASSUME TypeOK, NEW s \in Servers, server' = [server EXCEPT ![s] = "down"], caller' = StopsAt(s),
           UNCHANGED <<todo, mailboxes>>
    PROVE  CallerInv'
<1>1. caller' \in [Callers -> Ensures]
    BY IdleType DEF StopsAt, TypeOK
<1>2. \A c \in Callers : caller'[c] = IF ServerOf[c] = s THEN Idle ELSE caller[c]
    BY DEF StopsAt
<1>3. \A c \in Callers : ServerOf[c] \in Servers
    BY ServersAssumption
<1> QED
    BY <1>1, <1>2, <1>3, IdleType DEF TypeOK, CallerInv

(* A caller returns, and a failed start takes the server down.               *)
LEMMA ReturnType ==
    ASSUME TypeOK, NEW c \in Callers, NEW result, Return(c, result), UNCHANGED mailboxes
    PROVE  CallerInv'
<1> DEFINE s == ServerOf[c]
<1>1. s \in Servers
    BY ServersAssumption
<1>2. CASE server[s] = "up" \/ result = "ok"
    <2>1. /\ caller' = [caller EXCEPT ![c] = Idle] /\ UNCHANGED server
          /\ todo' = [todo EXCEPT ![s] = @ \ {caller[c].for}]
        BY <1>2 DEF Return
    <2> QED
        BY <1>1, <2>1, IdleType DEF TypeOK, CallerInv
<1>3. CASE ~(server[s] = "up" \/ result = "ok")
    BY <1>1, <1>3, StopType DEF Return
<1> QED
    BY <1>2, <1>3

(* The caller goes on inside its Ensure.                                     *)
LEMMA GoesOnType ==
    ASSUME TypeOK, NEW c \in Callers, NEW e \in Ensures, caller[c].at # "idle", e.for = caller[c].for,
           caller' = [caller EXCEPT ![c] = e], UNCHANGED <<server, todo, mailboxes>>
    PROVE  CallerInv'
BY DEF TypeOK, CallerInv

(* An Ensure that waits or reads knows its mailbox.                          *)
LEMMA EnsureFields ==
    ASSUME TypeOK, NEW c \in Callers
    PROVE  /\ caller[c].at = "lock" => [caller[c] EXCEPT !.at = "list"] \in Ensures
           /\ caller[c].at = "issue" => [caller[c] EXCEPT !.at = "relist"] \in Ensures
           /\ caller[c].at = "list" => [at |-> "issue", for |-> caller[c].for, over |-> expired] \in Ensures
           /\ caller[c].at # "idle" =>
                /\ [caller[c] EXCEPT !.at = "list"].for = caller[c].for
                /\ [caller[c] EXCEPT !.at = "relist"].for = caller[c].for
<1>1. caller[c] \in Ensures
    BY DEF TypeOK
<1>2. CASE caller[c] = Idle
    BY <1>2 DEF Idle
<1>3. CASE caller[c] \in [at : {"lock", "list"}, for : Mailboxes]
    BY <1>3 DEF Ensures, TypeOK
<1>4. CASE caller[c] \in [at : {"issue", "relist"}, for : Mailboxes, over : SUBSET Keys]
    BY <1>4 DEF Ensures
<1> QED
    BY <1>1, <1>2, <1>3, <1>4 DEF Ensures

(* The step of each caller and server.                                       *)
LEMMA CallerStep ==
    ASSUME TypeOK, [Next]_vars, mailboxes \subseteq mailboxes', mailboxes' \subseteq Mailboxes
    PROVE  CallerInv'
<1>1. ASSUME UNCHANGED <<server, todo, caller>> PROVE CallerInv'
    BY <1>1 DEF TypeOK, CallerInv
<1>2. ASSUME NEW s \in Servers, StartStep(s) PROVE CallerInv'
    <2>1. PICK stage \in {"starting", "up"} : server' = [server EXCEPT ![s] = stage]
        BY <1>2 DEF StartStep, Start, Serve
    <2>2. UNCHANGED <<mailboxes, caller>>
        BY <1>2 DEF StartStep, Start, Serve, tables
    <2>3. todo' = todo \/ todo' = [todo EXCEPT ![s] = mailboxes]
        BY <1>2 DEF StartStep, Start, Serve
    <2>4. todo' \in [Servers -> SUBSET mailboxes']
        BY <2>2, <2>3 DEF TypeOK
    <2> QED
        BY <2>1, <2>2, <2>4, ServersAssumption DEF TypeOK, CallerInv
<1>3. ASSUME NEW s \in Servers, Crash(s) PROVE CallerInv'
    BY <1>3, StopType DEF Crash, tables
<1>4. ASSUME NEW c \in Callers, EnsureAtStart(c) PROVE CallerInv'
    <2>1. PICK m \in todo[ServerOf[c]] : Begin(c, m)
        BY <1>4 DEF EnsureAtStart
    <2>2. m \in mailboxes' /\ server[ServerOf[c]] # "down"
        BY <1>4, ServersAssumption DEF EnsureAtStart, TypeOK
    <2> QED
        BY <1>4, <2>1, <2>2, BeginType DEF EnsureAtStart
<1>5. ASSUME NEW c \in Callers, Reveal(c) \/ Create(c) PROVE CallerInv'
    <2>1. PICK m \in mailboxes' : Begin(c, m)
        BY <1>5 DEF Reveal, Create, tables
    <2>2. server[ServerOf[c]] # "down" /\ UNCHANGED <<server, todo>>
        BY <1>5 DEF Reveal, Create
    <2> QED
        BY <2>1, <2>2, BeginType
<1>6. ASSUME NEW c \in Callers, NEW k \in GivenKeys, NEW m \in Mailboxes, Import(c, k, m) PROVE CallerInv'
    <2>1. m \in mailboxes' /\ Begin(c, m) /\ server[ServerOf[c]] # "down" /\ UNCHANGED <<server, todo>>
        BY <1>6 DEF Import
    <2> QED
        BY <2>1, BeginType
<1>7. ASSUME NEW c \in Callers, Lock(c) PROVE CallerInv'
    <2>1. /\ caller[c].at = "lock" /\ caller' = [caller EXCEPT ![c] = [caller[c] EXCEPT !.at = "list"]]
          /\ UNCHANGED <<server, todo, mailboxes>>
        BY <1>7 DEF Lock, At, tables
    <2> QED
        BY <2>1, EnsureFields, GoesOnType
<1>8. ASSUME NEW c \in Callers, ListKeys(c) PROVE CallerInv'
    <2>1. CASE Found(c, expired) \/ Fail(c)
        BY <1>8, <2>1, ReturnType DEF Found, Fail, ListKeys, tables
    <2>2. CASE caller' = [caller EXCEPT ![c] = [at |-> "issue", for |-> caller[c].for, over |-> expired]]
               /\ UNCHANGED <<server, todo>>
        BY <1>8, <2>2, EnsureFields, GoesOnType DEF ListKeys, At, tables
    <2> QED
        BY <1>8, <2>1, <2>2 DEF ListKeys
<1>9. ASSUME NEW c \in Callers, IssueKey(c) PROVE CallerInv'
    <2>1. CASE Return(c, "ok") \/ Fail(c)
        BY <1>9, <2>1, ReturnType DEF Fail, IssueKey
    <2>2. CASE caller' = [caller EXCEPT ![c].at = "relist"] /\ UNCHANGED <<server, todo>>
        BY <1>9, <2>2, EnsureFields, GoesOnType DEF IssueKey, At
    <2> QED
        BY <1>9, <2>1, <2>2 DEF IssueKey
<1>10. ASSUME NEW c \in Callers, ListAgain(c) PROVE CallerInv'
    BY <1>10, ReturnType DEF ListAgain, Found, Fail, tables
<1>11. ASSUME Administer \/ UNCHANGED vars PROVE UNCHANGED <<server, todo, caller>>
    BY <1>11 DEF Administer, Issue, Revoke, Expire, vars
<1> QED
    BY <1>1, <1>2, <1>3, <1>4, <1>5, <1>6, <1>7, <1>8, <1>9, <1>10, <1>11 DEF Next, EnsureStep

(* Faults are counted up to their bound.                                     *)
LEMMA CountersStep ==
    ASSUME TypeOK, [Next]_vars
    PROVE  {errors, crashes, revokes}' \subseteq 0..MaxEvents /\ expired' \subseteq Keys
<1>1. errors \in 0..MaxEvents /\ crashes \in 0..MaxEvents /\ revokes \in 0..MaxEvents /\ expired \subseteq Keys
    BY DEF TypeOK
<1>2. CASE UNCHANGED <<errors, crashes, revokes, expired>>
    BY <1>1, <1>2
<1>3. CASE MayHappen /\ errors' = errors + 1 /\ UNCHANGED <<crashes, revokes, expired>>
    BY <1>1, <1>3, BoundsAssumption DEF MayHappen
<1>4. CASE MayHappen /\ crashes' = crashes + 1 /\ UNCHANGED <<errors, revokes, expired>>
    BY <1>1, <1>4, BoundsAssumption DEF MayHappen
<1>5. CASE MayHappen /\ revokes' = revokes + 1 /\ UNCHANGED <<errors, crashes, expired>>
    BY <1>1, <1>5, BoundsAssumption DEF MayHappen
<1>6. CASE \E k \in Keys : expired' = expired \cup {k} /\ UNCHANGED <<errors, crashes, revokes>>
    BY <1>1, <1>6
<1> QED
    BY <1>2, <1>3, <1>4, <1>5, <1>6 DEF Next, StartStep, Start, Serve, Crash, EnsureAtStart, Reveal, Create,
       EnsureStep, Lock, ListKeys, IssueKey, ListAgain, Found, Fail, Import, Administer, Issue, Revoke, Expire, vars

(* Every reachable state is well typed: rows, their order and the mailboxes  *)
(* agree, and callers run on servers that are up.                            *)
THEOREM TypeCorrect == Spec => []TypeOK
<1>1. Init => TypeOK
    <2> SUFFICES ASSUME Init PROVE TypeOK
        OBVIOUS
    <2>1. order \in Seq(Keys) /\ IsInjective(order) /\ Range(order) = {}
        BY DEF Init, IsInjective, Range
    <2> QED
        BY <2>1, IdleType, BoundsAssumption DEF Init, TypeOK, HasRow
<1>2. TypeOK /\ [Next]_vars => TypeOK'
    <2> SUFFICES ASSUME TypeOK, [Next]_vars PROVE TypeOK'
        OBVIOUS
    <2>1. TableInv' /\ mailboxes' \subseteq Mailboxes
        BY TableStep, RowsKept
    <2>2. CallerInv'
        BY TableStep, CallerStep
    <2> QED
        BY <2>1, <2>2, CountersStep DEF TableInv, CallerInv, TypeOK
<1> QED
    BY <1>1, <1>2, PTL DEF Spec

-----------------------------------------------------------------------------
(* What the unique index keeps: two automatic keys of a mailbox are one.     *)
IndexInv == \A m \in Mailboxes : \A k, l \in Automatic(m) : k = l

(* An insert finds no other automatic key, a revocation makes none.          *)
LEMMA IndexStep ==
    ASSUME TypeOK, RowStep, IndexInv
    PROVE  IndexInv'
<1>1. CASE UNCHANGED <<rows, order>>
    BY <1>1 DEF IndexInv, Automatic, HasRow
<1>2. ASSUME NEW k \in Keys, NEW row \in StoredRows, Inserts(k, row) PROVE IndexInv'
    <2>1. rows'[k] = row /\ \A l \in Keys \ {k} : rows'[l] = rows[l]
        BY <1>2 DEF Inserts, Insert, TypeOK
    <2>2. \A m \in Mailboxes : Automatic(m)' \subseteq Automatic(m) \cup {k}
        BY <2>1 DEF Automatic, HasRow
    <2>3. \A m \in Mailboxes : k \in Automatic(m)' => row.label = "automatic" /\ row.sealed /\ row.mailbox = m
        BY <2>1 DEF Automatic
    <2>4. \A m \in Mailboxes : k \in Automatic(m)' => Automatic(m) = {}
        BY <1>2, <2>3 DEF Inserts, Conflicts
    <2> QED
        BY <2>2, <2>4 DEF IndexInv
<1>3. ASSUME NEW k \in Keys, Revokes(k) PROVE IndexInv'
    <2>1. rows[k] \in StoredRows /\ rows' = [rows EXCEPT ![k].revoked = TRUE]
        BY <1>3 DEF Revokes, HasRow, TypeOK
    <2>2. /\ \A l \in Keys \ {k} : rows'[l] = rows[l]
          /\ rows'[k].revoked = TRUE
        BY <2>1 DEF TypeOK, StoredRows
    <2>3. \A m \in Mailboxes : Automatic(m)' \subseteq Automatic(m)
        BY <2>2 DEF Automatic, HasRow
    <2> QED
        BY <2>3 DEF IndexInv
<1> QED
    BY <1>1, <1>2, <1>3 DEF RowStep

(* However many servers and administrators issue keys at the same time, a    *)
(* mailbox has at most one active encrypted automatic key.                   *)
THEOREM AtMostOneAutomatic == Spec => []OneAutomaticKey
<1>1. Init => IndexInv
    BY DEF Init, IndexInv, Automatic, HasRow
<1>2. TypeOK /\ IndexInv /\ [Next]_vars => IndexInv'
    BY TableStep, IndexStep
<1>3. IndexInv => OneAutomaticKey
    <2> SUFFICES ASSUME IndexInv, NEW m \in Mailboxes PROVE Cardinality(Automatic(m)) <= 1
        BY DEF OneAutomaticKey
    <2>1. CASE Automatic(m) = {}
        BY <2>1, FS_EmptySet
    <2>2. CASE \E k : k \in Automatic(m)
        <3>1. PICK k : Automatic(m) = {k}
            BY <2>2 DEF IndexInv
        <3> QED
            BY <3>1, FS_Singleton
    <2> QED
        BY <2>1, <2>2
<1> QED
    BY <1>1, <1>2, <1>3, TypeCorrect, PTL DEF Spec

(* A key opens one mailbox for ever, a revoked one stays revoked and a       *)
(* digest-only one never becomes exportable.                                 *)
THEOREM KeysStayFixed == Spec => KeysAreFixed
<1> DEFINE Fixed == \A k \in Keys : HasRow(k) =>
                        /\ HasRow(k)' /\ rows'[k].mailbox = rows[k].mailbox /\ rows'[k].sealed = rows[k].sealed
                        /\ rows[k].revoked => rows'[k].revoked
<1>1. TypeOK /\ [Next]_vars => Fixed
    <2> SUFFICES ASSUME TypeOK, RowStep, NEW k \in Keys, HasRow(k)
                 PROVE  /\ HasRow(k)' /\ rows'[k].mailbox = rows[k].mailbox /\ rows'[k].sealed = rows[k].sealed
                        /\ rows[k].revoked => rows'[k].revoked
        BY TableStep
    <2>1. CASE rows'[k] = rows[k]
        BY <2>1 DEF HasRow
    <2>2. ASSUME NEW l \in Keys, NEW row \in StoredRows, Inserts(l, row) PROVE rows'[k] = rows[k]
        BY <2>2 DEF Inserts, Insert, TypeOK
    <2>3. ASSUME NEW l \in Keys, Revokes(l), l # k PROVE rows'[k] = rows[k]
        BY <2>3 DEF Revokes, TypeOK
    <2>4. CASE Revokes(k)
        <3>1. rows[k] \in StoredRows
            BY DEF HasRow, TypeOK
        <3>2. rows' = [rows EXCEPT ![k].revoked = TRUE]
            BY <2>4 DEF Revokes
        <3>3. /\ rows'[k] \in StoredRows /\ rows'[k].mailbox = rows[k].mailbox
              /\ rows'[k].sealed = rows[k].sealed /\ rows'[k].revoked = TRUE
            BY <3>1, <3>2 DEF TypeOK, StoredRows
        <3> QED
            BY <3>3, NoRowIsNone DEF HasRow
    <2> QED
        BY <2>1, <2>2, <2>3, <2>4 DEF RowStep
<1> QED
    BY <1>1, TypeCorrect, PTL DEF Spec, KeysAreFixed
=============================================================================
