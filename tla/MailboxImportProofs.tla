------------------------- MODULE MailboxImportProofs -------------------------
(* Proofs about MailboxImport and the store it implements, for every set of   *)
(* addresses, keys and files, every number of clients and every bound on      *)
(* faults: imports are serial, keep routes inside and do what was previewed.  *)
EXTENDS MCMailboxImport, FiniteSetTheorems, SequenceTheorems, WellFoundedInduction, TLAPS

(* Induction over the items of a file: a set of numbers that holds 0 and the  *)
(* successors of its members holds every number up to N.                      *)
LEMMA UpTo ==
    ASSUME NEW n \in Nat, NEW S, 0 \in S, \A k \in 0..n : k \in S /\ k < n => k + 1 \in S
    PROVE  \A k \in 0..n : k \in S
<1> SUFFICES ASSUME NEW m \in 0..n, m \notin S PROVE FALSE
    OBVIOUS
<1> DEFINE Less == OpToRel(<, Nat)
           Missing == {k \in 0..n : k \notin S}
<1>1. IsWellFoundedOn(Less, Nat)
    BY NatLessThanWellFounded
<1>2. Missing \subseteq Nat /\ m \in Missing
    OBVIOUS
<1>3. \A k \in Nat, l \in Nat : k < l => <<k, l>> \in Less
    BY DEF OpToRel
<1> HIDE DEF Less
<1>4. PICK k \in Missing : \A l \in Missing : ~(<<l, k>> \in Less)
    BY <1>1, <1>2, WFMin
<1>5. k # 0 /\ k \in 0..n
    BY <1>4
<1>6. k - 1 \in 0..n /\ k - 1 < n /\ k - 1 \in Nat /\ k \in Nat /\ (k - 1) + 1 = k /\ k - 1 < k
    BY <1>5
<1>7. k - 1 \notin Missing
    BY <1>3, <1>4, <1>6
<1> QED
    BY <1>4, <1>6, <1>7

-----------------------------------------------------------------------------
(* The tables as functions of their rows.                                     *)
RowValues == [owner : Addresses \cup {None}, via : Aliases \cup {None}, version : Nat]
Tables == [Rows -> RowValues]
Written(value, a) == [owner |-> a, via |-> None, version |-> value.version + 1]
WrittenAt(d, T, a) == [r \in Rows |-> IF r \in T THEN Written(d[r], a) ELSE d[r]]

(* The rows the statements of an item write.                                  *)
Touched(d, item) ==
    {Mailbox(item.box)} \cup {r \in {Credential(item.box)} : item.cred}
    \cup {r \in {Account(item.acct)} : item.acct # None}
    \cup {r \in {Key(item.key)} : item.key # None /\ ~Has(d, Key(item.key))}

(* The store and the transaction speak of the same tables.                    *)
LEMMA SameTables ==
    /\ \A a : Store!Mailbox(a) = Mailbox(a) /\ Store!Credential(a) = Credential(a) /\ Store!Alias(a) = Alias(a)
              /\ Store!Account(a) = Account(a) /\ Store!Key(a) = Key(a)
    /\ Store!Rows = Rows /\ Store!Absent = Absent
    /\ \A d, r : Store!Has(d, r) <=> Has(d, r)
    /\ \A d, r, a, l : Store!Put(d, r, a, l) = Put(d, r, a, l)
    /\ \A d : Store!Bounded(d) <=> Bounded(d)
    /\ \A s, e : Store!Contains(s, e) <=> Contains(s, e)
<1>1. \A a : Store!Mailbox(a) = Mailbox(a) /\ Store!Credential(a) = Credential(a) /\ Store!Alias(a) = Alias(a)
             /\ Store!Account(a) = Account(a) /\ Store!Key(a) = Key(a)
    BY DEF Store!Mailbox, Store!Credential, Store!Alias, Store!Account, Store!Key,
           Mailbox, Credential, Alias, Account, Key
<1>2. Store!Rows = Rows
    BY <1>1 DEF Store!Rows, Rows
<1>3. Store!Absent = Absent
    BY DEF Store!Absent, Absent
<1>4. \A d, r : Store!Has(d, r) <=> Has(d, r)
    BY DEF Store!Has, Has
<1>5. \A d, r, a, l : Store!Put(d, r, a, l) = Put(d, r, a, l)
    BY DEF Store!Put, Put
<1>6. \A d : Store!Bounded(d) <=> Bounded(d)
    BY <1>2 DEF Store!Bounded, Bounded
<1>7. \A s, e : Store!Contains(s, e) <=> Contains(s, e)
    BY DEF Store!Contains, Contains
<1> QED
    BY <1>1, <1>2, <1>3, <1>4, <1>5, <1>6, <1>7

(* Rows of different kinds, and of different names, are different.            *)
LEMMA RowsDiffer ==
    /\ \A a, b : Mailbox(a) # Credential(b) /\ Mailbox(a) # Alias(b) /\ Mailbox(a) # Account(b) /\ Mailbox(a) # Key(b)
    /\ \A a, b : Credential(a) # Alias(b) /\ Credential(a) # Account(b) /\ Credential(a) # Key(b)
    /\ \A a, b : Alias(a) # Account(b) /\ Alias(a) # Key(b) /\ Account(a) # Key(b)
    /\ \A a, b : Mailbox(a) = Mailbox(b) => a = b
    /\ \A a, b : Alias(a) = Alias(b) => a = b
    /\ \A a, b : Account(a) = Account(b) => a = b
    /\ \A a, b : Key(a) = Key(b) => a = b
    /\ \A a, b : Credential(a) = Credential(b) => a = b
BY DEF Mailbox, Credential, Alias, Account, Key

(* The rows an item names exist.                                              *)
LEMMA ItemRows ==
    ASSUME NEW item \in Items
    PROVE  /\ item.box \in Addresses /\ item.cred \in BOOLEAN
           /\ Mailbox(item.box) \in Rows /\ Credential(item.box) \in Rows
           /\ item.acct # None => Account(item.acct) \in Rows
           /\ item.key # None => Key(item.key) \in Rows
           /\ \A d : Touched(d, item) \subseteq Rows
           /\ \A d, l : Alias(l) \notin Touched(d, item)
<1>1. /\ item.box \in Addresses /\ item.cred \in BOOLEAN
      /\ item.acct \in Accounts \cup {None} /\ item.key \in Keys \cup {None}
    BY DEF Items
<1>2. /\ Mailbox(item.box) \in Rows /\ Credential(item.box) \in Rows
      /\ item.acct # None => Account(item.acct) \in Rows
      /\ item.key # None => Key(item.key) \in Rows
    BY <1>1 DEF Rows
<1>3. \A d : Touched(d, item) \subseteq Rows
    BY <1>2 DEF Touched
<1>4. \A d, l : Alias(l) \notin Touched(d, item)
    BY RowsDiffer DEF Touched
<1> QED
    BY <1>1, <1>2, <1>3, <1>4

(* One row written.                                                           *)
LEMMA PutOne ==
    ASSUME NEW d \in Tables, NEW r \in Rows, NEW a
    PROVE  /\ Put(d, r, a, None) = WrittenAt(d, {r}, a)
           /\ Upsert(d, r, a) = WrittenAt(d, {r}, a)
BY DEF Put, Upsert, WrittenAt, Written, Tables

(* Rows written, and then another.                                            *)
LEMMA PutAnother ==
    ASSUME NEW d \in Tables, NEW T \in SUBSET Rows, NEW r \in Rows, r \notin T, NEW a
    PROVE  /\ Put(WrittenAt(d, T, a), r, a, None) = WrittenAt(d, T \cup {r}, a)
           /\ Upsert(WrittenAt(d, T, a), r, a) = WrittenAt(d, T \cup {r}, a)
BY DEF Put, Upsert, WrittenAt, Written, Tables

(* The values of rows that were written.                                      *)
LEMMA WrittenRows ==
    ASSUME NEW d \in Tables, NEW T \in SUBSET Rows, NEW a \in Addresses
    PROVE  /\ WrittenAt(d, T, a) \in Tables
           /\ \A r \in Rows : d[r] \in RowValues /\ d[r].version \in Nat
           /\ \A r \in T : /\ WrittenAt(d, T, a)[r] = Written(d[r], a)
                           /\ WrittenAt(d, T, a)[r].owner = a /\ WrittenAt(d, T, a)[r].via = None
                           /\ WrittenAt(d, T, a)[r].version = d[r].version + 1
                           /\ Has(WrittenAt(d, T, a), r)
           /\ \A r \in Rows \ T : WrittenAt(d, T, a)[r] = d[r]
           /\ \A r \in Rows : Has(WrittenAt(d, T, a), r) <=> r \in T \/ Has(d, r)
<1>1. \A r \in Rows : d[r] \in RowValues /\ d[r].version \in Nat
    BY DEF Tables, RowValues
<1>2. \A r \in Rows : Written(d[r], a) \in RowValues
    BY <1>1 DEF Written, RowValues
<1>3. WrittenAt(d, T, a) \in Tables
    BY <1>1, <1>2 DEF WrittenAt, Tables
<1>4. \A r \in T : /\ WrittenAt(d, T, a)[r] = Written(d[r], a)
                   /\ WrittenAt(d, T, a)[r].owner = a /\ WrittenAt(d, T, a)[r].via = None
                   /\ WrittenAt(d, T, a)[r].version = d[r].version + 1
    BY DEF WrittenAt, Written
<1>5. \A r \in Rows \ T : WrittenAt(d, T, a)[r] = d[r]
    BY DEF WrittenAt
<1>6. \A r \in T : Has(WrittenAt(d, T, a), r)
    BY <1>1, <1>4 DEF Has
<1>7. \A r \in Rows \ T : Has(WrittenAt(d, T, a), r) <=> Has(d, r)
    BY <1>5 DEF Has
<1> QED
    BY <1>1, <1>3, <1>4, <1>5, <1>6, <1>7

(* The statements of an item write the rows it touches, in the store and in   *)
(* the transaction alike.                                                     *)
LEMMA WriteIs ==
    ASSUME NEW d \in Tables, NEW item \in Items
    PROVE  /\ Store!Write(d, item) = WrittenAt(d, Touched(d, item), item.box)
           /\ WriteItem(d, item) = WrittenAt(d, Touched(d, item), item.box)
<1> DEFINE a == item.box
           T1 == {Mailbox(a)}
           T2 == T1 \cup {r \in {Credential(a)} : item.cred}
           T3 == T2 \cup {r \in {Account(item.acct)} : item.acct # None}
           T4 == T3 \cup {r \in {Key(item.key)} : item.key # None /\ ~Has(d, Key(item.key))}
<1>0. T4 = Touched(d, item)
    BY DEF Touched
<1>1. T1 \in SUBSET Rows /\ T2 \in SUBSET Rows /\ T3 \in SUBSET Rows
    BY ItemRows DEF Touched
<1>2. Put(d, Mailbox(a), a, None) = WrittenAt(d, T1, a) /\ Upsert(d, Mailbox(a), a) = WrittenAt(d, T1, a)
    BY PutOne, ItemRows
<1>3. /\ IF item.cred THEN Put(WrittenAt(d, T1, a), Credential(a), a, None) = WrittenAt(d, T2, a)
                     ELSE WrittenAt(d, T1, a) = WrittenAt(d, T2, a)
      /\ UpsertIf(item.cred, WrittenAt(d, T1, a), Credential(a), a) = WrittenAt(d, T2, a)
    <2>1. CASE item.cred
        <3>1. T2 = T1 \cup {Credential(a)} /\ Credential(a) \notin T1 /\ Credential(a) \in Rows
            BY <2>1, RowsDiffer, ItemRows
        <3> HIDE DEF T1, T2
        <3> QED
            BY <1>1, <2>1, <3>1, PutAnother DEF UpsertIf
    <2>2. CASE ~item.cred
        <3>1. T2 = T1
            BY <2>2
        <3> HIDE DEF T1, T2
        <3> QED
            BY <2>2, <3>1 DEF UpsertIf
    <2> QED
        BY <2>1, <2>2
<1>4. /\ Store!ApplyPlatform(WrittenAt(d, T2, a), item, a) = WrittenAt(d, T3, a)
      /\ UpsertIf(item.acct # None, WrittenAt(d, T2, a), Account(item.acct), a) = WrittenAt(d, T3, a)
    <2>1. CASE item.acct # None
        <3>1. T3 = T2 \cup {Account(item.acct)} /\ Account(item.acct) \notin T2 /\ Account(item.acct) \in Rows
            BY <2>1, RowsDiffer, ItemRows
        <3> HIDE DEF T1, T2, T3
        <3> QED
            BY <1>1, <2>1, <3>1, PutAnother, SameTables DEF UpsertIf, Store!ApplyPlatform
    <2>2. CASE item.acct = None
        <3>1. T3 = T2
            BY <2>2
        <3> HIDE DEF T1, T2, T3
        <3> QED
            BY <2>2, <3>1 DEF UpsertIf, Store!ApplyPlatform
    <2> QED
        BY <2>1, <2>2
<1>5. Key(item.key) \notin T3
    BY RowsDiffer
<1>6. item.key # None => (Has(WrittenAt(d, T3, a), Key(item.key)) <=> Has(d, Key(item.key)))
    <2> SUFFICES ASSUME item.key # None PROVE Has(WrittenAt(d, T3, a), Key(item.key)) <=> Has(d, Key(item.key))
        OBVIOUS
    <2>1. a \in Addresses /\ Key(item.key) \in Rows
        BY ItemRows
    <2> HIDE DEF T1, T2, T3, a
    <2>2. \A r \in Rows : Has(WrittenAt(d, T3, a), r) <=> r \in T3 \/ Has(d, r)
        BY <1>1, <2>1, WrittenRows
    <2> QED
        BY <1>5, <2>1, <2>2
<1>7. /\ Store!ApplyKey(WrittenAt(d, T3, a), item, a) = WrittenAt(d, T4, a)
      /\ UpsertIf(item.key # None /\ ~Has(d, KeyRow(item)), WrittenAt(d, T3, a), KeyRow(item), a) = WrittenAt(d, T4, a)
    <2>1. CASE item.key # None /\ ~Has(d, Key(item.key))
        <3>1. T4 = T3 \cup {Key(item.key)} /\ Key(item.key) \in Rows
            BY <2>1, ItemRows
        <3> HIDE DEF T1, T2, T3, T4
        <3>2. /\ Put(WrittenAt(d, T3, a), Key(item.key), a, None) = WrittenAt(d, T4, a)
              /\ Upsert(WrittenAt(d, T3, a), Key(item.key), a) = WrittenAt(d, T4, a)
            BY <1>1, <1>5, <3>1, PutAnother
        <3> QED
            BY <1>6, <2>1, <3>2, SameTables DEF UpsertIf, KeyRow, Store!ApplyKey
    <2>2. CASE ~(item.key # None /\ ~Has(d, Key(item.key)))
        <3>1. T4 = T3
            BY <2>2
        <3> HIDE DEF T1, T2, T3, T4
        <3> QED
            BY <1>6, <2>2, <3>1, SameTables DEF UpsertIf, KeyRow, Store!ApplyKey
    <2> QED
        BY <2>1, <2>2
<1> HIDE DEF T1, T2, T3, T4
<1>8. Store!Write(d, item) = WrittenAt(d, T4, a)
    BY <1>2, <1>3, <1>4, <1>7, SameTables DEF Store!Write
<1>9. WriteItem(d, item) = WrittenAt(d, T4, a)
    BY <1>2, <1>3, <1>4, <1>7 DEF WriteItem
<1> QED
    BY <1>0, <1>8, <1>9

-----------------------------------------------------------------------------
(* The states of an import.                                                   *)
States == [db : Tables, created : Nat, updated : Nat, skipped : Nat,
           failed : {"no", "mailbox", "key"}, ids : Seq(Addresses)]

Here(st, item) == Has(st.db, Mailbox(item.box))
Refuses(st, item, strategy) ==
    \/ Here(st, item) /\ strategy \in {"skip", "error"}
    \/ (Here(st, item) => strategy = "update") /\ KeyElsewhere(st.db, item)

(* What an item does to the state of an import that has not failed.           *)
LEMMA ImportItemIs ==
    ASSUME NEW st \in States, NEW item \in Items, NEW strategy \in Strategies, st.failed = "no",
           NEW next, next = Store!ImportItem(st, item, strategy)
    PROVE  /\ next \in States
           /\ next = Step(st, item, strategy)
           /\ Here(st, item) /\ strategy = "skip" =>
                /\ next.db = st.db /\ next.failed = "no" /\ next.ids = st.ids
                /\ next.created = st.created /\ next.updated = st.updated /\ next.skipped = st.skipped + 1
           /\ Here(st, item) /\ strategy = "error" =>
                /\ next.db = st.db /\ next.failed = "mailbox" /\ next.ids = st.ids
                /\ next.created = st.created /\ next.updated = st.updated /\ next.skipped = st.skipped
           /\ (Here(st, item) => strategy = "update") /\ KeyElsewhere(st.db, item) =>
                /\ next.db = st.db /\ next.failed = "key" /\ next.ids = st.ids
                /\ next.created = st.created /\ next.updated = st.updated /\ next.skipped = st.skipped
           /\ ~Refuses(st, item, strategy) =>
                /\ next.db = WrittenAt(st.db, Touched(st.db, item), item.box) /\ next.failed = "no"
                /\ next.skipped = st.skipped
                /\ next.created = IF Here(st, item) THEN st.created ELSE st.created + 1
                /\ next.updated = IF Here(st, item) THEN st.updated + 1 ELSE st.updated
                /\ next.ids = IF Contains(st.ids, item.box) THEN st.ids ELSE Append(st.ids, item.box)
<1>1. /\ st.db \in Tables /\ st.created \in Nat /\ st.updated \in Nat /\ st.skipped \in Nat /\ st.ids \in Seq(Addresses)
      /\ st = [db |-> st.db, created |-> st.created, updated |-> st.updated, skipped |-> st.skipped,
               failed |-> st.failed, ids |-> st.ids]
    BY DEF States
<1>2. strategy \in {"skip", "update", "error"} /\ item.box \in Addresses
    BY StoreAssumption, ItemRows
<1>3. Store!KeyTaken(st.db, item, item.box) <=> KeyElsewhere(st.db, item)
    BY SameTables DEF Store!KeyTaken, KeyElsewhere, KeyRow
<1> DEFINE written == WrittenAt(st.db, Touched(st.db, item), item.box)
<1>4. Store!Write(st.db, item) = written /\ WriteItem(st.db, item) = written
    BY <1>1, WriteIs
<1>5. written \in Tables
    <2> DEFINE d == st.db  T == Touched(d, item)  a == item.box
    <2>1. T \in SUBSET Rows /\ d \in Tables /\ a \in Addresses
        BY <1>1, <1>2, ItemRows
    <2>2. written = WrittenAt(d, T, a)
        OBVIOUS
    <2> HIDE DEF d, T, a, written
    <2>3. WrittenAt(d, T, a) \in Tables
        BY <2>1, WrittenRows
    <2> QED
        BY <2>2, <2>3
<1> HIDE DEF written
<1>6. CASE Here(st, item) /\ strategy = "skip"
    <2>1. next = [st EXCEPT !.skipped = @ + 1]
        BY <1>6, SameTables DEF Store!ImportItem, Here
    <2>2. Step(st, item, strategy) = [st EXCEPT !.skipped = @ + 1]
        BY <1>6 DEF Step, Here
    <2>3. next \in States
        BY <1>1, <2>1 DEF States
    <2> QED
        BY <1>6, <2>1, <2>2, <2>3 DEF Refuses, States
<1>7. CASE Here(st, item) /\ strategy = "error"
    <2>1. next = [st EXCEPT !.failed = "mailbox"]
        BY <1>7, SameTables DEF Store!ImportItem, Here
    <2>2. Step(st, item, strategy) = [st EXCEPT !.failed = "mailbox"]
        BY <1>7 DEF Step, Here
    <2>3. next \in States
        BY <1>1, <2>1 DEF States
    <2> QED
        BY <1>7, <2>1, <2>2, <2>3 DEF Refuses, States
<1>8. CASE (Here(st, item) => strategy = "update") /\ KeyElsewhere(st.db, item)
    <2>1. next = [st EXCEPT !.failed = "key"]
        BY <1>2, <1>3, <1>8, SameTables DEF Store!ImportItem, Here
    <2>2. Step(st, item, strategy) = [st EXCEPT !.failed = "key"]
        BY <1>2, <1>8 DEF Step, Here
    <2>3. next \in States
        BY <1>1, <2>1 DEF States
    <2> QED
        BY <1>8, <2>1, <2>2, <2>3 DEF Refuses, States
<1>9. CASE ~Refuses(st, item, strategy)
    <2> DEFINE created == IF Here(st, item) THEN st.created ELSE st.created + 1
               updated == IF Here(st, item) THEN st.updated + 1 ELSE st.updated
               ids == IF Contains(st.ids, item.box) THEN st.ids ELSE Append(st.ids, item.box)
               result == [db |-> written, created |-> created, updated |-> updated, skipped |-> st.skipped,
                          failed |-> "no", ids |-> ids]
    <2>0. (Here(st, item) => strategy = "update") /\ ~KeyElsewhere(st.db, item)
        BY <1>2, <1>9 DEF Refuses
    <2>1. created \in Nat /\ updated \in Nat /\ ids \in Seq(Addresses)
        BY <1>1, <1>2
    <2>2. /\ created = st.created + (IF Here(st, item) THEN 0 ELSE 1)
          /\ updated = st.updated + (IF Here(st, item) THEN 1 ELSE 0)
        BY <1>1
    <2>3. next = [st EXCEPT !.db = written, !.created = st.created + (IF Here(st, item) THEN 0 ELSE 1),
                            !.updated = st.updated + (IF Here(st, item) THEN 1 ELSE 0), !.ids = ids]
        BY <1>2, <1>3, <1>4, <2>0, SameTables DEF Store!ImportItem, Here
    <2>4. Step(st, item, strategy) = [st EXCEPT !.db = written, !.created = created, !.updated = updated, !.ids = ids]
        BY <1>2, <1>4, <2>0 DEF Step, Here
    <2> HIDE DEF created, updated, ids
    <2>a. next = [st EXCEPT !.db = written, !.created = created, !.updated = updated, !.ids = ids]
        BY <2>2, <2>3
    <2>b. [st EXCEPT !.db = written, !.created = created, !.updated = updated, !.ids = ids] = result
        <3> DEFINE d == st.db c == st.created u == st.updated s == st.skipped f == st.failed i == st.ids
        <3>1. st = [db |-> d, created |-> c, updated |-> u, skipped |-> s, failed |-> f, ids |-> i]
            BY <1>1
        <3>2. f = "no" /\ st.skipped = s
            OBVIOUS
        <3> HIDE DEF d, c, u, s, f, i
        <3>3. [st EXCEPT !.db = written]
                = [db |-> written, created |-> c, updated |-> u, skipped |-> s, failed |-> f, ids |-> i]
            BY <3>1
        <3>4. [[db |-> written, created |-> c, updated |-> u, skipped |-> s, failed |-> f, ids |-> i]
                 EXCEPT !.created = created]
                = [db |-> written, created |-> created, updated |-> u, skipped |-> s, failed |-> f, ids |-> i]
            OBVIOUS
        <3>5. [[db |-> written, created |-> created, updated |-> u, skipped |-> s, failed |-> f, ids |-> i]
                 EXCEPT !.updated = updated]
                = [db |-> written, created |-> created, updated |-> updated, skipped |-> s, failed |-> f, ids |-> i]
            OBVIOUS
        <3>6. [[db |-> written, created |-> created, updated |-> updated, skipped |-> s, failed |-> f, ids |-> i]
                 EXCEPT !.ids = ids]
                = [db |-> written, created |-> created, updated |-> updated, skipped |-> s, failed |-> f, ids |-> ids]
            OBVIOUS
        <3>7. [st EXCEPT !.db = written, !.created = created, !.updated = updated, !.ids = ids]
                = [[[[st EXCEPT !.db = written] EXCEPT !.created = created] EXCEPT !.updated = updated] EXCEPT !.ids = ids]
            OBVIOUS
        <3>8. [[[[st EXCEPT !.db = written] EXCEPT !.created = created] EXCEPT !.updated = updated] EXCEPT !.ids = ids]
                = [db |-> written, created |-> created, updated |-> updated, skipped |-> s, failed |-> f, ids |-> ids]
            BY <3>3, <3>4, <3>5, <3>6
        <3>9. [db |-> written, created |-> created, updated |-> updated, skipped |-> s, failed |-> f, ids |-> ids] = result
            BY <3>2
        <3> QED
            BY <3>7, <3>8, <3>9
    <2>5. next = result /\ Step(st, item, strategy) = result
        BY <2>4, <2>a, <2>b
    <2>6. result \in States
        BY <1>5, <2>1, <1>1 DEF States
    <2>7. /\ next.db = written /\ next.failed = "no" /\ next.skipped = st.skipped
          /\ next.created = created /\ next.updated = updated /\ next.ids = ids
        BY <2>5
    <2>8. next \in States /\ next = Step(st, item, strategy)
        BY <2>5, <2>6
    <2> QED
        BY <1>9, <2>0, <2>7, <2>8 DEF created, updated, ids, written, Refuses
<1> QED
    BY <1>2, <1>6, <1>7, <1>8, <1>9 DEF Refuses

(* The states of an import obey the equation they are defined by: there is a  *)
(* function that does, up to every item of the file.                          *)
LEMMA ImportsEquation ==
    ASSUME NEW d, NEW file \in Seq(Items), NEW strategy
    PROVE  /\ Store!Imports(d, file, strategy)[0] = Store!NewImport(d)
           /\ \A i \in 1..Len(file) :
                 Store!Imports(d, file, strategy)[i]
                   = Store!ImportItem(Store!Imports(d, file, strategy)[i - 1], file[i], strategy)
<1> DEFINE new == Store!NewImport(d)
           after(st, i) == Store!ImportItem(st, file[i], strategy)
           Solves(f, n) == f = [i \in 0..n |-> IF i = 0 THEN new ELSE after(f[i - 1], i)]
           Solved == {n \in 0..Len(file) : \E f : Solves(f, n)}
<1>1. Len(file) \in Nat
    OBVIOUS
<1>2. Store!Imports(d, file, strategy) = CHOOSE f : Solves(f, Len(file))
    BY DEF Store!Imports
<1> HIDE DEF new, after
<1>3. 0 \in Solved
    <2> DEFINE f == [i \in 0..0 |-> new]
    <2>1. Solves(f, 0)
        OBVIOUS
    <2> HIDE DEF f, Solves
    <2>2. \E h : Solves(h, 0)
        BY <2>1
    <2> QED
        BY <1>1, <2>2
<1>4. \A k \in 0..Len(file) : k \in Solved /\ k < Len(file) => k + 1 \in Solved
    <2> SUFFICES ASSUME NEW k \in 0..Len(file), k < Len(file), NEW f, Solves(f, k) PROVE k + 1 \in Solved
        OBVIOUS
    <2> DEFINE last == after(f[k], k + 1)
               g == [i \in 0..(k + 1) |-> IF i = k + 1 THEN last ELSE f[i]]
    <2>1. k \in Nat /\ k + 1 \in 0..Len(file) /\ k + 1 # 0 /\ (k + 1) - 1 = k
        BY <1>1
    <2>2. g[k + 1] = last /\ \A i \in 0..k : g[i] = f[i]
        BY <2>1
    <2>3. \A i \in 0..k : f[i] = IF i = 0 THEN new ELSE after(f[i - 1], i)
        OBVIOUS
    <2>4. \A i \in 1..k : i - 1 \in 0..k /\ i # 0 /\ i \in 0..k
        BY <2>1
    <2>5. \A i \in 0..(k + 1) : i = 0 \/ i \in 1..k \/ i = k + 1
        BY <2>1
    <2>6. g[0] = new
        BY <2>1, <2>2, <2>3
    <2>7. \A i \in 1..k : g[i] = after(g[i - 1], i)
        BY <2>2, <2>3, <2>4
    <2>8. g[k + 1] = after(g[(k + 1) - 1], k + 1)
        BY <2>1, <2>2
    <2>9. g = [i \in 0..(k + 1) |-> g[i]]
        OBVIOUS
    <2> HIDE DEF g
    <2>10. \A i \in 0..(k + 1) : g[i] = IF i = 0 THEN new ELSE after(g[i - 1], i)
        BY <2>1, <2>4, <2>5, <2>6, <2>7, <2>8
    <2>11. Solves(g, k + 1)
        BY <2>9, <2>10
    <2> QED
        BY <2>1, <2>11
<1>5. Len(file) \in Solved
    <2> DEFINE n == Len(file)
    <2>1. n \in Nat /\ \A k \in 0..n : k \in Solved /\ k < n => k + 1 \in Solved
        BY <1>1, <1>4
    <2> HIDE DEF Solved, n
    <2>2. \A k \in 0..n : k \in Solved
        BY <1>3, <2>1, UpTo
    <2>3. n \in 0..n
        BY <2>1
    <2> QED
        BY <2>2, <2>3 DEF n
<1>6. PICK f : Solves(f, Len(file))
    BY <1>5
<1>7. Solves(Store!Imports(d, file, strategy), Len(file))
    <2> HIDE DEF Solves
    <2> QED
        BY <1>2, <1>6
<1> DEFINE st == Store!Imports(d, file, strategy)
<1> HIDE DEF st
<1>8. \A i \in 0..Len(file) : st[i] = IF i = 0 THEN new ELSE after(st[i - 1], i)
    BY <1>7 DEF st
<1>9. st[0] = new /\ \A i \in 1..Len(file) : st[i] = after(st[i - 1], i)
    BY <1>1, <1>8
<1> QED
    BY <1>9 DEF st, new, after

(* The states have their types.                                               *)
LEMMA ImportsType ==
    ASSUME NEW d \in Tables, NEW file \in Seq(Items), NEW strategy \in Strategies
    PROVE  \A k \in 0..Len(file) : Store!Imports(d, file, strategy)[k] \in States
<1> DEFINE st == Store!Imports(d, file, strategy)
           Good == {k \in 0..Len(file) : st[k] \in States}
<1>1. st[0] = Store!NewImport(d)
      /\ \A i \in 1..Len(file) : st[i] = Store!ImportItem(st[i - 1], file[i], strategy)
    BY ImportsEquation
<1>2. Len(file) \in Nat /\ \A i \in 1..Len(file) : file[i] \in Items
    OBVIOUS
<1> HIDE DEF st
<1>3. 0 \in Good
    <2>1. <<>> \in Seq(Addresses)
        OBVIOUS
    <2>2. Store!NewImport(d) \in States
        BY <2>1 DEF Store!NewImport, States
    <2> QED
        BY <1>1, <1>2, <2>2
<1>4. \A k \in 0..Len(file) : k \in Good /\ k < Len(file) => k + 1 \in Good
    <2> SUFFICES ASSUME NEW k \in 0..Len(file), k < Len(file), st[k] \in States PROVE k + 1 \in Good
        OBVIOUS
    <2>1. k + 1 \in 0..Len(file) /\ st[k + 1] = Store!ImportItem(st[k], file[k + 1], strategy) /\ file[k + 1] \in Items
        BY <1>1, <1>2
    <2>2. CASE st[k].failed = "no"
        BY <2>1, <2>2, ImportItemIs
    <2>3. CASE st[k].failed # "no"
        <3>1. st[k + 1] = st[k]
            BY <2>1, <2>3 DEF Store!ImportItem
        <3> QED
            BY <2>1, <3>1
    <2> QED
        BY <2>2, <2>3
<1>5. \A k \in 0..Len(file) : k \in Good
    <2> DEFINE n == Len(file)
    <2>1. n \in Nat /\ \A k \in 0..n : k \in Good /\ k < n => k + 1 \in Good
        BY <1>2, <1>4
    <2> HIDE DEF Good, n
    <2>2. \A k \in 0..n : k \in Good
        BY <1>3, <2>1, UpTo
    <2> QED
        BY <2>2 DEF n
<1> QED
    BY <1>5 DEF Good, st

-----------------------------------------------------------------------------
(* What the store keeps, as predicates of its tables.                         *)
Typed(d) ==
    /\ d \in Tables
    /\ \A r \in Rows : IF Has(d, r) THEN d[r].owner \in Addresses /\ Has(d, Mailbox(d[r].owner)) ELSE d[r] = Absent
Routed(d) ==
    \A p \in Accounts :
        d[Account(p)].via # None =>
            Has(d, Alias(d[Account(p)].via)) /\ d[Alias(d[Account(p)].via)].owner = d[Account(p)].owner

(* The rows of the parts of a table.                                          *)
LEMMA RowMembers ==
    /\ \A a \in Addresses : Mailbox(a) \in Rows /\ Credential(a) \in Rows
    /\ \A l \in Aliases : Alias(l) \in Rows
    /\ \A p \in Accounts : Account(p) \in Rows
    /\ \A k \in Keys : Key(k) \in Rows
BY DEF Rows

(* Writing rows of a mailbox that has or gets its row keeps both, if no alias *)
(* is written: an account that is written leaves its alias.                   *)
LEMMA WrittenKeeps ==
    ASSUME NEW d, Typed(d), Routed(d), NEW T \in SUBSET Rows, NEW a \in Addresses,
           Mailbox(a) \in T \/ Has(d, Mailbox(a)), \A l : Alias(l) \notin T
    PROVE  Typed(WrittenAt(d, T, a)) /\ Routed(WrittenAt(d, T, a))
<1> DEFINE e == WrittenAt(d, T, a)
<1>0. d \in Tables
    BY DEF Typed
<1>1. e \in Tables
    BY <1>0, WrittenRows
<1>2. /\ \A r \in T : e[r].owner = a /\ e[r].via = None
      /\ \A r \in Rows \ T : e[r] = d[r]
      /\ \A r \in Rows : Has(e, r) <=> r \in T \/ Has(d, r)
    <2>1. \A r \in T : e[r].owner = a /\ e[r].via = None
        BY DEF WrittenAt, Written
    <2>2. \A r \in Rows \ T : e[r] = d[r]
        BY DEF WrittenAt
    <2>3. \A r \in Rows : Has(e, r) <=> r \in T \/ Has(d, r)
        BY <1>0, WrittenRows
    <2> QED
        BY <2>1, <2>2, <2>3
<1> HIDE DEF e
<1>3. \A b \in Addresses : Mailbox(b) \in Rows
    BY RowMembers
<1>4. Has(e, Mailbox(a))
    BY <1>2, <1>3
<1>5. \A r \in Rows : IF Has(e, r) THEN e[r].owner \in Addresses /\ Has(e, Mailbox(e[r].owner)) ELSE e[r] = Absent
    <2> SUFFICES ASSUME NEW r \in Rows
                 PROVE  IF Has(e, r) THEN e[r].owner \in Addresses /\ Has(e, Mailbox(e[r].owner)) ELSE e[r] = Absent
        OBVIOUS
    <2>1. CASE r \in T
        BY <1>2, <1>4, <2>1
    <2>2. CASE r \notin T
        <3>1. e[r] = d[r] /\ (Has(e, r) <=> Has(d, r))
            BY <1>2, <2>2
        <3>2. Has(d, r) => d[r].owner \in Addresses /\ Has(d, Mailbox(d[r].owner))
            BY DEF Typed
        <3>3. ~Has(d, r) => d[r] = Absent
            BY DEF Typed
        <3> QED
            BY <1>2, <1>3, <3>1, <3>2, <3>3
    <2> QED
        BY <2>1, <2>2
<1>6. Routed(e)
    <2> SUFFICES ASSUME NEW p \in Accounts, e[Account(p)].via # None
                 PROVE  Has(e, Alias(e[Account(p)].via)) /\ e[Alias(e[Account(p)].via)].owner = e[Account(p)].owner
        BY DEF Routed
    <2>1. Account(p) \in Rows
        BY RowMembers
    <2>2. e[Account(p)] = d[Account(p)]
        BY <1>2, <2>1
    <2>3. d[Account(p)] \in RowValues
        BY <1>0, <2>1 DEF Tables
    <2> DEFINE l == d[Account(p)].via
    <2>4. l \in Aliases
        BY <2>2, <2>3 DEF RowValues
    <2>5. Alias(l) \in Rows \ T
        BY <2>4, RowMembers
    <2>6. Has(d, Alias(l)) /\ d[Alias(l)].owner = d[Account(p)].owner
        BY <2>2 DEF Routed
    <2> HIDE DEF l
    <2>7. Has(e, Alias(l)) /\ e[Alias(l)] = d[Alias(l)]
        BY <1>2, <2>5, <2>6
    <2> QED
        BY <2>2, <2>6, <2>7 DEF l
<1>7. Typed(e)
    BY <1>1, <1>5 DEF Typed
<1> QED
    BY <1>6, <1>7 DEF e

(* An item leaves the tables alone or writes the rows it touches.             *)
LEMMA ItemWrites ==
    ASSUME NEW st \in States, NEW item \in Items, NEW strategy \in Strategies,
           NEW next, next = Store!ImportItem(st, item, strategy)
    PROVE  next.db = st.db \/ next.db = WrittenAt(st.db, Touched(st.db, item), item.box)
<1>1. CASE st.failed # "no"
    BY <1>1 DEF Store!ImportItem
<1>2. CASE st.failed = "no"
    <2>1. strategy \in {"skip", "update", "error"}
        BY StoreAssumption
    <2> QED
        BY <1>2, <2>1, ImportItemIs DEF Refuses
<1> QED
    BY <1>1, <1>2

(* An import keeps what the store keeps.                                      *)
LEMMA ImportsKeep ==
    ASSUME NEW d, Typed(d), Routed(d), NEW file \in Seq(Items), NEW strategy \in Strategies
    PROVE  \A k \in 0..Len(file) : Typed(Store!Imports(d, file, strategy)[k].db)
                                   /\ Routed(Store!Imports(d, file, strategy)[k].db)
<1> DEFINE st == Store!Imports(d, file, strategy)
           n == Len(file)
           Good == {k \in 0..n : Typed(st[k].db) /\ Routed(st[k].db)}
<1>0. d \in Tables
    BY DEF Typed
<1>1. st[0] = Store!NewImport(d) /\ \A i \in 1..n : st[i] = Store!ImportItem(st[i - 1], file[i], strategy)
    BY ImportsEquation
<1>2. n \in Nat /\ \A i \in 1..n : file[i] \in Items
    OBVIOUS
<1>3. \A k \in 0..n : st[k] \in States
    BY <1>0, ImportsType
<1> HIDE DEF st, n
<1>4. 0 \in Good
    BY <1>1, <1>2 DEF Store!NewImport
<1>5. \A k \in 0..n : k \in Good /\ k < n => k + 1 \in Good
    <2> SUFFICES ASSUME NEW k \in 0..n, k < n, Typed(st[k].db), Routed(st[k].db) PROVE k + 1 \in Good
        OBVIOUS
    <2>1. /\ k + 1 \in 0..n /\ st[k + 1] = Store!ImportItem(st[k], file[k + 1], strategy) /\ file[k + 1] \in Items
          /\ st[k] \in States
        BY <1>1, <1>2, <1>3
    <2> DEFINE item == file[k + 1]  e == st[k].db  a == item.box  T == Touched(e, item)
    <2>2. st[k + 1].db = e \/ st[k + 1].db = WrittenAt(e, T, a)
        BY <2>1, ItemWrites
    <2>3. a \in Addresses /\ T \in SUBSET Rows /\ \A l : Alias(l) \notin T
        BY <2>1, ItemRows
    <2>4. Mailbox(a) \in T
        BY DEF Touched
    <2>5. Typed(e) /\ Routed(e)
        OBVIOUS
    <2> HIDE DEF e, T, a, item
    <2>6. Typed(WrittenAt(e, T, a)) /\ Routed(WrittenAt(e, T, a))
        BY <2>3, <2>4, <2>5, WrittenKeeps
    <2> QED
        BY <2>1, <2>2, <2>5, <2>6
<1>6. \A k \in 0..n : k \in Good
    <2> HIDE DEF Good
    <2> QED
        BY <1>2, <1>4, <1>5, UpTo
<1> QED
    BY <1>6 DEF st, n

(* A row that gets its first owner: an alias, or an account and its route.    *)
LEMMA CreatedKeeps ==
    ASSUME NEW d, Typed(d), Routed(d), NEW r \in Rows, ~Has(d, r), NEW a \in Addresses, Has(d, Mailbox(a)),
           NEW l \in Aliases \cup {None},
           \/ \E m \in Aliases : r = Alias(m) /\ l = None
           \/ \E p \in Accounts : r = Account(p) /\ (l # None => Has(d, Alias(l)) /\ d[Alias(l)].owner = a)
    PROVE  Typed(Put(d, r, a, l)) /\ Routed(Put(d, r, a, l)) /\ Put(d, r, a, l)[r].version = 1
<1> DEFINE e == Put(d, r, a, l)
<1>0. d \in Tables /\ d[r] = Absent
    BY DEF Typed
<1>1. e[r] = [owner |-> a, via |-> l, version |-> 1]
    BY <1>0 DEF Put, Tables, Absent
<1>2. DOMAIN e = Rows /\ \A q \in Rows \ {r} : e[q] = d[q]
    BY <1>0 DEF Put, Tables
<1>3. \A q \in Rows : d[q] \in RowValues
    BY <1>0 DEF Tables
<1>4. e[r] \in RowValues
    BY <1>1 DEF RowValues
<1>5. e \in Tables
    BY <1>0, <1>4 DEF Put, Tables
<1> HIDE DEF e
<1>6. \A q \in Rows : Has(e, q) <=> q = r \/ Has(d, q)
    BY <1>1, <1>2 DEF Has
<1>7. \A b \in Addresses : Mailbox(b) \in Rows /\ Mailbox(b) # r
    BY RowMembers, RowsDiffer
<1>8. \A q \in Rows : IF Has(e, q) THEN e[q].owner \in Addresses /\ Has(e, Mailbox(e[q].owner)) ELSE e[q] = Absent
    <2> SUFFICES ASSUME NEW q \in Rows
                 PROVE  IF Has(e, q) THEN e[q].owner \in Addresses /\ Has(e, Mailbox(e[q].owner)) ELSE e[q] = Absent
        OBVIOUS
    <2>1. CASE q = r
        BY <1>1, <1>6, <1>7, <2>1
    <2>2. CASE q # r
        <3>1. e[q] = d[q] /\ (Has(e, q) <=> Has(d, q))
            BY <1>2, <1>6, <2>2
        <3>2. IF Has(d, q) THEN d[q].owner \in Addresses /\ Has(d, Mailbox(d[q].owner)) ELSE d[q] = Absent
            BY DEF Typed
        <3> QED
            BY <1>6, <1>7, <3>1, <3>2
    <2> QED
        BY <2>1, <2>2
<1>9. Typed(e)
    BY <1>5, <1>8 DEF Typed
<1>10. Routed(e)
    <2> SUFFICES ASSUME NEW p \in Accounts, e[Account(p)].via # None
                 PROVE  Has(e, Alias(e[Account(p)].via)) /\ e[Alias(e[Account(p)].via)].owner = e[Account(p)].owner
        BY DEF Routed
    <2>1. Account(p) \in Rows
        BY RowMembers
    <2>2. CASE Account(p) # r
        <3> DEFINE m == d[Account(p)].via
        <3>1. e[Account(p)] = d[Account(p)] /\ m # None
            BY <1>2, <2>1, <2>2
        <3>2. m \in Aliases /\ Alias(m) \in Rows
            BY <1>3, <2>1, <3>1, RowMembers DEF RowValues
        <3>3. Has(d, Alias(m)) /\ d[Alias(m)].owner = d[Account(p)].owner
            BY <3>1 DEF Routed
        <3> HIDE DEF m
        <3>4. Alias(m) # r
            BY <3>3
        <3>5. Has(e, Alias(m)) /\ e[Alias(m)] = d[Alias(m)]
            BY <1>2, <1>6, <3>2, <3>3, <3>4
        <3> QED
            BY <3>1, <3>3, <3>5 DEF m
    <2>3. CASE Account(p) = r
        <3>1. e[Account(p)].via = l /\ e[Account(p)].owner = a /\ l # None
            BY <1>1, <2>3
        <3>2. Has(d, Alias(l)) /\ d[Alias(l)].owner = a
            BY <2>3, <3>1, RowsDiffer
        <3>3. Alias(l) \in Rows /\ Alias(l) # r
            BY <3>1, RowMembers, <2>3, RowsDiffer
        <3>4. Has(e, Alias(l)) /\ e[Alias(l)] = d[Alias(l)]
            BY <1>2, <1>6, <3>2, <3>3
        <3> QED
            BY <3>1, <3>2, <3>4
    <2> QED
        BY <2>2, <2>3
<1> QED
    BY <1>1, <1>9, <1>10 DEF e

(* What holds of the store in every state.                                    *)
StoreInv == Typed(db) /\ Routed(db) /\ Bounded(db)

(* A bounded table stays bounded when one row is written below the bound.     *)
LEMMA BoundedRow ==
    ASSUME NEW d \in Tables, Bounded(d), NEW e, NEW r \in Rows, e[r].version \in 0..MaxVersion,
           \A q \in Rows \ {r} : e[q] = d[q]
    PROVE  Bounded(e)
<1>1. \A q \in Rows : d[q].version <= MaxVersion
    BY DEF Bounded
<1>2. \A q \in Rows : e[q].version <= MaxVersion
    BY <1>1
<1> QED
    BY <1>2 DEF Bounded

(* Every step of the store keeps it.                                          *)
LEMMA StoreStep ==
    ASSUME StoreInv, [Store!Next]_db
    PROVE  StoreInv'
<1>0. db \in Tables /\ Typed(db) /\ Routed(db) /\ Bounded(db)
    BY DEF StoreInv, Typed
<1>1. CASE UNCHANGED db
    <2>1. (Typed(db))' /\ (Routed(db))' /\ (Bounded(db))'
        BY <1>0, <1>1 DEF Typed, Routed, Bounded, Has
    <2> QED
        BY <2>1 DEF StoreInv
<1>2. ASSUME NEW file \in Files, NEW strategy \in Strategies, Store!ImportMailboxes(file, strategy)
      PROVE  StoreInv'
    <2> DEFINE e == Store!Imports(db, file, strategy)[Len(file)].db
    <2>1. file \in Seq(Items)
        BY FilesAssumption
    <2>2. Bounded(e) /\ db' = e
        BY <1>2, SameTables DEF Store!ImportMailboxes
    <2>3. Typed(e) /\ Routed(e)
        <3>1. Len(file) \in 0..Len(file)
            BY <2>1
        <3> QED
            BY <1>0, <2>1, <3>1, ImportsKeep
    <2> HIDE DEF e
    <2> QED
        BY <2>2, <2>3 DEF StoreInv
<1>3. ASSUME NEW a \in Addresses, Store!CreateMailbox(a) PROVE StoreInv'
    <2>1. ~Has(db, Mailbox(a)) /\ db' = Put(db, Mailbox(a), a, None)
        BY <1>3, SameTables DEF Store!CreateMailbox
    <2> DEFINE r == Mailbox(a)  e == WrittenAt(db, {r}, a)
    <2>2. r \in Rows /\ \A l : Alias(l) # r
        BY RowMembers, RowsDiffer
    <2>3. db' = e
        BY <1>0, <2>1, <2>2, PutOne
    <2>4. db[r].version = 0
        BY <1>0, <2>1, <2>2 DEF Typed, Absent
    <2> HIDE DEF r
    <2>5. Typed(e) /\ Routed(e)
        <3>1. {r} \in SUBSET Rows /\ \A l : Alias(l) \notin {r}
            BY <2>2
        <3>2. Mailbox(a) \in {r}
            BY DEF r
        <3> QED
            BY <1>0, <3>1, <3>2, WrittenKeeps
    <2>6. e[r].version = 1 /\ \A q \in Rows \ {r} : e[q] = db[q]
        BY <2>2, <2>4 DEF WrittenAt, Written
    <2> HIDE DEF e
    <2>7. Bounded(e)
        BY <1>0, <2>2, <2>6, BoundedRow, StoreAssumption
    <2> QED
        BY <2>3, <2>5, <2>7 DEF StoreInv
<1>4. ASSUME NEW a \in Addresses, NEW v \in 0..MaxVersion, Store!UpsertCredential(a, v) PROVE StoreInv'
    <2> DEFINE r == Credential(a)  e == WrittenAt(db, {r}, a)
    <2>1. Has(db, Mailbox(a)) /\ db' = Put(db, r, a, None) /\ db[r].version = v /\ v < MaxVersion
        BY <1>4, SameTables DEF Store!UpsertCredential
    <2>2. r \in Rows /\ \A l : Alias(l) # r
        BY RowMembers, RowsDiffer
    <2> HIDE DEF r
    <2>3. db' = e
        BY <1>0, <2>1, <2>2, PutOne
    <2>5. Typed(e) /\ Routed(e)
        <3>1. {r} \in SUBSET Rows /\ \A l : Alias(l) \notin {r}
            BY <2>2
        <3> QED
            BY <1>0, <2>1, <3>1, WrittenKeeps
    <2>6. e[r].version = v + 1 /\ \A q \in Rows \ {r} : e[q] = db[q]
        BY <2>1, <2>2 DEF WrittenAt, Written
    <2> HIDE DEF e
    <2>7. Bounded(e)
        <3>1. e[r].version \in 0..MaxVersion
            BY <2>1, <2>6, StoreAssumption
        <3> QED
            BY <1>0, <2>2, <2>6, <3>1, BoundedRow
    <2> QED
        BY <2>3, <2>5, <2>7 DEF StoreInv
<1>5. ASSUME NEW r \in Rows, NEW a \in Addresses, NEW l \in Aliases \cup {None},
             ~Has(db, r), Has(db, Mailbox(a)), db' = Put(db, r, a, l),
             \/ \E m \in Aliases : r = Alias(m) /\ l = None
             \/ \E p \in Accounts : r = Account(p) /\ (l # None => Has(db, Alias(l)) /\ db[Alias(l)].owner = a)
      PROVE  StoreInv'
    <2> DEFINE e == Put(db, r, a, l)
    <2>1. Typed(e) /\ Routed(e) /\ e[r].version = 1
        BY <1>0, <1>5, CreatedKeeps
    <2>2. \A q \in Rows \ {r} : e[q] = db[q]
        BY <1>0 DEF Put, Tables
    <2>3. db' = e
        BY <1>5
    <2> HIDE DEF e
    <2>4. Bounded(e)
        BY <1>0, <2>1, <2>2, BoundedRow, StoreAssumption
    <2> QED
        BY <2>1, <2>3, <2>4 DEF StoreInv
<1>6. ASSUME NEW a \in Addresses, NEW l \in Aliases, Store!CreateAlias(l, a) PROVE StoreInv'
    <2>1. Has(db, Mailbox(a)) /\ ~Has(db, Alias(l)) /\ db' = Put(db, Alias(l), a, None) /\ Alias(l) \in Rows
        BY <1>6, SameTables, RowMembers DEF Store!CreateAlias
    <2> QED
        BY <1>5, <2>1
<1>7. ASSUME NEW a \in Addresses, NEW p \in Accounts, NEW l \in Aliases \cup {None},
             Store!CreatePlatformAccount(p, a, l)
      PROVE  StoreInv'
    <2>1. /\ Has(db, Mailbox(a)) /\ ~Has(db, Account(p)) /\ db' = Put(db, Account(p), a, l) /\ Account(p) \in Rows
          /\ l # None => Has(db, Alias(l)) /\ db[Alias(l)].owner = a
        BY <1>7, SameTables, RowMembers DEF Store!CreatePlatformAccount
    <2> QED
        BY <1>5, <2>1
<1> QED
    BY <1>1, <1>2, <1>3, <1>4, <1>6, <1>7 DEF Store!Next

(* It holds of the tables before the first import.                            *)
LEMMA StoreInit ==
    ASSUME Store!Init
    PROVE  StoreInv
<1> DEFINE of(r) == {t \in Aliased : r \in {Mailbox(t.box), Alias(t.alias)}}
<1>1. db = [r \in Rows |-> IF of(r) = {} THEN Absent
                           ELSE [owner |-> (CHOOSE t \in of(r) : TRUE).box, via |-> None, version |-> 1]]
    BY SameTables DEF Store!Init
<1>2. \A t \in Aliased : t.box \in Addresses /\ t.alias \in Aliases
    BY AliasedAssumption
<1>3. ASSUME NEW r \in Rows, of(r) # {}
      PROVE  /\ db[r].owner \in Addresses /\ db[r].via = None /\ db[r].version = 1
             /\ of(Mailbox(db[r].owner)) # {}
    <2> DEFINE t == CHOOSE t \in of(r) : TRUE
    <2>1. t \in of(r)
        BY <1>3
    <2>2. t \in Aliased
        BY <2>1
    <2>3. db[r] = [owner |-> t.box, via |-> None, version |-> 1]
        BY <1>1, <1>3
    <2> HIDE DEF t
    <2>4. t \in of(Mailbox(t.box))
        BY <2>2
    <2> QED
        BY <1>2, <2>2, <2>3, <2>4
<1>4. \A r \in Rows : of(r) = {} => db[r] = Absent
    BY <1>1
<1>5. Absent.version = 0 /\ Absent.via = None /\ Absent \in RowValues
    BY DEF Absent, RowValues
<1>6. \A r \in Rows : of(r) # {} => db[r] \in RowValues
    BY <1>1, <1>3 DEF RowValues
<1>7. db \in Tables
    BY <1>1, <1>4, <1>5, <1>6 DEF Tables
<1> HIDE DEF of
<1>8. \A r \in Rows : Has(db, r) <=> of(r) # {}
    BY <1>3, <1>4, <1>5 DEF Has
<1>9. \A a \in Addresses : Mailbox(a) \in Rows
    BY RowMembers
<1>10. Typed(db)
    BY <1>3, <1>4, <1>7, <1>8, <1>9 DEF Typed
<1>11. \A r \in Rows : db[r].via = None
    BY <1>3, <1>4, <1>5
<1>12. Routed(db)
    BY <1>11, RowMembers DEF Routed
<1>13. \A r \in Rows : db[r].version <= MaxVersion
    BY <1>3, <1>4, <1>5, StoreAssumption
<1> QED
    BY <1>10, <1>12, <1>13 DEF StoreInv, Bounded

(* It is what the store's own invariants say.                                 *)
LEMMA StoreMeans ==
    ASSUME StoreInv
    PROVE  Store!TypeOK /\ Store!RoutesStayInside
<1>1. db \in Tables /\ \A r \in Rows : db[r].version \in 0..MaxVersion
    <2>1. db \in Tables /\ \A r \in Rows : db[r].version <= MaxVersion
        BY DEF StoreInv, Typed, Bounded
    <2>2. \A r \in Rows : db[r].version \in Nat
        BY <2>1 DEF Tables, RowValues
    <2> QED
        BY <2>1, <2>2, StoreAssumption
<1>2. db \in [Rows -> [owner : Addresses \cup {None}, via : Aliases \cup {None}, version : 0..MaxVersion]]
    <2>1. \A r \in Rows : db[r] \in RowValues
        BY <1>1 DEF Tables
    <2>2. \A r \in Rows : db[r] \in [owner : Addresses \cup {None}, via : Aliases \cup {None}, version : 0..MaxVersion]
        BY <1>1, <2>1 DEF RowValues
    <2> QED
        BY <1>1, <2>2 DEF Tables
<1>3. \A r \in Rows : IF Has(db, r) THEN db[r].owner # None /\ Has(db, Mailbox(db[r].owner)) ELSE db[r] = Absent
    BY NamesAssumption DEF StoreInv, Typed
<1>4. Store!TypeOK
    BY <1>2, <1>3, SameTables DEF Store!TypeOK
<1>5. Store!RoutesStayInside
    BY SameTables DEF StoreInv, Routed, Store!RoutesStayInside
<1> QED
    BY <1>4, <1>5

(* The store itself keeps its rows with their mailboxes and its routes inside *)
(* them, whatever files are imported into it.                                 *)
THEOREM StoreKeepsRoutes == Store!Spec => [](Store!TypeOK /\ Store!RoutesStayInside)
<1>1. Store!Init => StoreInv
    BY StoreInit
<1>2. StoreInv /\ [Store!Next]_db => StoreInv'
    BY StoreStep
<1>3. StoreInv => Store!TypeOK /\ Store!RoutesStayInside
    BY StoreMeans
<1> QED
    BY <1>1, <1>2, <1>3, PTL DEF Store!Spec

-----------------------------------------------------------------------------
(* Imports into tables that agree on the rows a file names.                   *)
Same(s, t, N) ==
    /\ s.created = t.created /\ s.updated = t.updated /\ s.skipped = t.skipped
    /\ s.failed = t.failed /\ s.ids = t.ids
    /\ \A r \in N : s.db[r] = t.db[r]

(* A file names the rows its items touch.                                     *)
LEMMA NamedRows ==
    ASSUME NEW file \in Seq(Items)
    PROVE  /\ Named(file) \in SUBSET Rows
           /\ \A i \in 1..Len(file) :
                 /\ file[i] \in Items
                 /\ Mailbox(file[i].box) \in Named(file)
                 /\ file[i].key # None => Key(file[i].key) \in Named(file)
                 /\ \A d : Touched(d, file[i]) \subseteq Named(file)
<1>1. DOMAIN file = 1..Len(file) /\ \A i \in 1..Len(file) : file[i] \in Items
    OBVIOUS
<1>2. ASSUME NEW i \in 1..Len(file)
      PROVE  /\ Mailbox(file[i].box) \in Named(file) /\ Credential(file[i].box) \in Named(file)
             /\ file[i].acct # None => Account(file[i].acct) \in Named(file)
             /\ file[i].key # None => Key(file[i].key) \in Named(file)
    BY <1>1 DEF Named
<1>3. \A i \in 1..Len(file) : \A d : Touched(d, file[i]) \subseteq Named(file)
    BY <1>2 DEF Touched
<1>4. Named(file) \subseteq Rows
    <2> SUFFICES ASSUME NEW r \in Named(file) PROVE r \in Rows
        OBVIOUS
    <2>1. PICK i \in 1..Len(file) :
             \/ r \in {Mailbox(file[i].box), Credential(file[i].box)}
             \/ \E p \in {file[i].acct} \ {None} : r = Account(p)
             \/ \E k \in {file[i].key} \ {None} : r = Key(k)
        BY <1>1 DEF Named
    <2>2. file[i] \in Items
        BY <1>1
    <2> QED
        BY <2>1, <2>2, ItemRows
<1> QED
    BY <1>1, <1>2, <1>3, <1>4

(* One item does the same to both, and nothing to other rows.                 *)
LEMMA ItemAgrees ==
    ASSUME NEW s \in States, NEW t \in States, NEW item \in Items, NEW strategy \in Strategies,
           NEW N \in SUBSET Rows, Same(s, t, N), Mailbox(item.box) \in N,
           item.key # None => Key(item.key) \in N, \A d : Touched(d, item) \subseteq N,
           NEW u, u = Store!ImportItem(s, item, strategy), NEW v, v = Store!ImportItem(t, item, strategy)
    PROVE  Same(u, v, N) /\ \A r \in Rows \ N : u.db[r] = s.db[r] /\ v.db[r] = t.db[r]
<1>1. CASE s.failed # "no"
    <2>1. u = s /\ v = t
        BY <1>1 DEF Store!ImportItem, Same
    <2> QED
        BY <2>1
<1>2. CASE s.failed = "no"
    <2> DEFINE a == item.box
    <2>0. s.db \in Tables /\ t.db \in Tables /\ t.failed = "no" /\ strategy \in {"skip", "update", "error"}
        BY <1>2, StoreAssumption DEF States, Same
    <2>1. s.db[Mailbox(a)] = t.db[Mailbox(a)] /\ (item.key # None => s.db[Key(item.key)] = t.db[Key(item.key)])
        BY DEF Same
    <2>2. (Here(s, item) <=> Here(t, item)) /\ (KeyElsewhere(s.db, item) <=> KeyElsewhere(t.db, item))
        BY <2>1 DEF Here, KeyElsewhere, KeyRow, Has
    <2>3. Touched(s.db, item) = Touched(t.db, item)
        BY <2>1 DEF Touched, Has
    <2>4. Refuses(s, item, strategy) <=> Refuses(t, item, strategy)
        BY <2>2 DEF Refuses
    <2>5. CASE Refuses(s, item, strategy)
        <3>1. u.db = s.db /\ v.db = t.db
            BY <1>2, <2>0, <2>2, <2>5, ImportItemIs DEF Refuses
        <3>2. u.created = v.created /\ u.updated = v.updated /\ u.skipped = v.skipped
              /\ u.failed = v.failed /\ u.ids = v.ids
            <4>1. CASE Here(s, item) /\ strategy = "skip"
                BY <1>2, <2>0, <2>2, <4>1, ImportItemIs DEF Same
            <4>2. CASE Here(s, item) /\ strategy = "error"
                BY <1>2, <2>0, <2>2, <4>2, ImportItemIs DEF Same
            <4>3. CASE (Here(s, item) => strategy = "update") /\ KeyElsewhere(s.db, item)
                BY <1>2, <2>0, <2>2, <4>3, ImportItemIs DEF Same
            <4> QED
                BY <2>5, <4>1, <4>2, <4>3 DEF Refuses
        <3> QED
            BY <3>1, <3>2 DEF Same
    <2>6. CASE ~Refuses(s, item, strategy)
        <3> DEFINE T == Touched(s.db, item)
        <3>1. u.db = WrittenAt(s.db, T, a) /\ v.db = WrittenAt(t.db, T, a)
            BY <1>2, <2>0, <2>3, <2>4, <2>6, ImportItemIs
        <3>2. u.created = v.created /\ u.updated = v.updated /\ u.skipped = v.skipped
              /\ u.failed = v.failed /\ u.ids = v.ids
            BY <1>2, <2>0, <2>2, <2>4, <2>6, ImportItemIs DEF Same
        <3>3. T \subseteq N
            OBVIOUS
        <3> HIDE DEF T, a
        <3>4. \A r \in N : u.db[r] = v.db[r]
            BY <3>1 DEF WrittenAt, Same
        <3>5. \A r \in Rows \ N : u.db[r] = s.db[r] /\ v.db[r] = t.db[r]
            BY <3>1, <3>3 DEF WrittenAt
        <3> QED
            BY <3>2, <3>4, <3>5 DEF Same
    <2> QED
        BY <2>5, <2>6
<1> QED
    BY <1>1, <1>2

(* A whole file does the same to both.                                        *)
LEMMA ImportsAgree ==
    ASSUME NEW d \in Tables, NEW e \in Tables, NEW file \in Seq(Items), NEW strategy \in Strategies,
           \A r \in Named(file) : d[r] = e[r]
    PROVE  \A k \in 0..Len(file) :
              /\ Same(Store!Imports(d, file, strategy)[k], Store!Imports(e, file, strategy)[k], Named(file))
              /\ \A r \in Rows \ Named(file) : /\ Store!Imports(d, file, strategy)[k].db[r] = d[r]
                                               /\ Store!Imports(e, file, strategy)[k].db[r] = e[r]
<1> DEFINE s == Store!Imports(d, file, strategy)
           t == Store!Imports(e, file, strategy)
           n == Len(file)
           N == Named(file)
           Good == {k \in 0..n : Same(s[k], t[k], N) /\ \A r \in Rows \ N : s[k].db[r] = d[r] /\ t[k].db[r] = e[r]}
<1>1. s[0] = Store!NewImport(d) /\ \A i \in 1..n : s[i] = Store!ImportItem(s[i - 1], file[i], strategy)
    BY ImportsEquation
<1>2. t[0] = Store!NewImport(e) /\ \A i \in 1..n : t[i] = Store!ImportItem(t[i - 1], file[i], strategy)
    BY ImportsEquation
<1>3. \A k \in 0..n : s[k] \in States /\ t[k] \in States
    BY ImportsType
<1>4. /\ N \in SUBSET Rows
      /\ \A i \in 1..n : /\ file[i] \in Items /\ Mailbox(file[i].box) \in N
                         /\ file[i].key # None => Key(file[i].key) \in N
                         /\ \A x : Touched(x, file[i]) \subseteq N
    BY NamedRows
<1>5. n \in Nat
    OBVIOUS
<1>6. \A r \in N : d[r] = e[r]
    OBVIOUS
<1> HIDE DEF s, t, n, N
<1>7. 0 \in Good
    BY <1>1, <1>2, <1>5, <1>6 DEF Same, Store!NewImport
<1>8. \A k \in 0..n : k \in Good /\ k < n => k + 1 \in Good
    <2> SUFFICES ASSUME NEW k \in 0..n, k < n, Same(s[k], t[k], N),
                        \A r \in Rows \ N : s[k].db[r] = d[r] /\ t[k].db[r] = e[r]
                 PROVE  k + 1 \in Good
        OBVIOUS
    <2>1. k + 1 \in 0..n /\ k + 1 \in 1..n /\ (k + 1) - 1 = k
        BY <1>5
    <2> DEFINE item == file[k + 1]  u == s[k + 1]  v == t[k + 1]
    <2>2. u = Store!ImportItem(s[k], item, strategy) /\ v = Store!ImportItem(t[k], item, strategy)
        BY <1>1, <1>2, <2>1
    <2>3. /\ item \in Items /\ Mailbox(item.box) \in N
          /\ item.key # None => Key(item.key) \in N
          /\ \A x : Touched(x, item) \subseteq N
        BY <1>4, <2>1
    <2> HIDE DEF item, u, v
    <2>4. Same(u, v, N) /\ \A r \in Rows \ N : u.db[r] = s[k].db[r] /\ v.db[r] = t[k].db[r]
        BY <1>3, <1>4, <2>2, <2>3, ItemAgrees
    <2> QED
        BY <2>1, <2>4 DEF u, v
<1>9. \A k \in 0..n : k \in Good
    <2> HIDE DEF Good
    <2> QED
        BY <1>5, <1>7, <1>8, UpTo
<1> QED
    BY <1>9 DEF s, t, n, N

-----------------------------------------------------------------------------
(* The items of a file that bring a mailbox the tables and the items before   *)
(* do not have; what an import has counted after K items.                     *)
IsNew(d, file, i) == ~Has(d, Mailbox(file[i].box)) /\ \A j \in 1..(i - 1) : file[j].box # file[i].box
NewItems(d, file, k) == {i \in 1..k : IsNew(d, file, i)}
Counted(d, file, strategy, k, st) ==
    /\ st.failed = "no" =>
          /\ \A a \in Addresses : Has(st.db, Mailbox(a)) <=> Has(d, Mailbox(a)) \/ \E j \in 1..k : file[j].box = a
          /\ st.created = Cardinality(NewItems(d, file, k))
          /\ strategy = "update" => st.updated + st.created = k
          /\ strategy = "skip" => st.skipped + st.created = k
          /\ strategy = "error" => st.created = k /\ st.skipped = 0
    /\ st.failed = "mailbox" => strategy = "error" /\ \E i \in 1..k : ~IsNew(d, file, i)

(* One more new item is one more in the count.                                *)
LEMMA NewItemsGrow ==
    ASSUME NEW d, NEW file \in Seq(Items), NEW k \in Nat
    PROVE  /\ IsFiniteSet(NewItems(d, file, k)) /\ Cardinality(NewItems(d, file, k)) \in 0..k
           /\ IsNew(d, file, k + 1) => Cardinality(NewItems(d, file, k + 1)) = Cardinality(NewItems(d, file, k)) + 1
           /\ ~IsNew(d, file, k + 1) => NewItems(d, file, k + 1) = NewItems(d, file, k)
           /\ (\E i \in 1..k : ~IsNew(d, file, i)) => Cardinality(NewItems(d, file, k)) < k
<1>1. IsFiniteSet(1..k) /\ Cardinality(1..k) = k
    BY FS_Interval
<1>2. NewItems(d, file, k) \subseteq 1..k
    BY DEF NewItems
<1>3. IsFiniteSet(NewItems(d, file, k)) /\ Cardinality(NewItems(d, file, k)) \in 0..k
    <2>1. IsFiniteSet(NewItems(d, file, k)) /\ Cardinality(NewItems(d, file, k)) <= k
        BY <1>1, <1>2, FS_Subset
    <2>2. Cardinality(NewItems(d, file, k)) \in Nat
        BY <2>1, FS_CardinalityType
    <2> QED
        BY <2>1, <2>2
<1>4. 1..(k + 1) = (1..k) \cup {k + 1} /\ k + 1 \notin 1..k
    OBVIOUS
<1>5. ASSUME IsNew(d, file, k + 1)
      PROVE  Cardinality(NewItems(d, file, k + 1)) = Cardinality(NewItems(d, file, k)) + 1
    <2>1. NewItems(d, file, k + 1) = NewItems(d, file, k) \cup {k + 1}
        BY <1>4, <1>5 DEF NewItems
    <2>2. k + 1 \notin NewItems(d, file, k)
        BY <1>2, <1>4
    <2> QED
        BY <1>3, <2>1, <2>2, FS_AddElement
<1>6. ASSUME ~IsNew(d, file, k + 1)
      PROVE  NewItems(d, file, k + 1) = NewItems(d, file, k)
    BY <1>4, <1>6 DEF NewItems
<1>7. ASSUME NEW i \in 1..k, ~IsNew(d, file, i)
      PROVE  Cardinality(NewItems(d, file, k)) < k
    <2>1. NewItems(d, file, k) # 1..k
        BY <1>7 DEF NewItems
    <2>2. Cardinality(NewItems(d, file, k)) # k
        BY <1>1, <1>2, <2>1, FS_Subset
    <2> QED
        BY <1>3, <2>2
<1> QED
    BY <1>3, <1>5, <1>6, <1>7

(* One item is counted as new or not, unless the import has failed.           *)
LEMMA ItemCounted ==
    ASSUME NEW d \in Tables, NEW file \in Seq(Items), NEW strategy \in Strategies,
           NEW k \in Nat, k < Len(file), NEW st \in States, Counted(d, file, strategy, k, st),
           NEW next, next = Store!ImportItem(st, file[k + 1], strategy)
    PROVE  Counted(d, file, strategy, k + 1, next)
<1> DEFINE item == file[k + 1]  a == item.box
<1>0. k + 1 \in 1..Len(file) /\ item \in Items /\ (k + 1) - 1 = k /\ k + 1 \in Nat
    OBVIOUS
<1>1. a \in Addresses /\ strategy \in {"skip", "update", "error"}
    BY <1>0, ItemRows, StoreAssumption

<1>3. CASE st.failed # "no"
    <2>1. next = st
        BY <1>3 DEF Store!ImportItem
    <2>2. (\E i \in 1..k : ~IsNew(d, file, i)) => \E i \in 1..(k + 1) : ~IsNew(d, file, i)
        OBVIOUS
    <2> QED
        BY <1>3, <2>1, <2>2 DEF Counted
<1>4. CASE st.failed = "no"
    <2>0. next = Store!ImportItem(st, item, strategy)
        OBVIOUS
    <2>1. /\ \A b \in Addresses : Has(st.db, Mailbox(b)) <=> Has(d, Mailbox(b)) \/ \E j \in 1..k : file[j].box = b
          /\ st.created = Cardinality(NewItems(d, file, k))
          /\ strategy = "update" => st.updated + st.created = k
          /\ strategy = "skip" => st.skipped + st.created = k
          /\ strategy = "error" => st.created = k /\ st.skipped = 0
        BY <1>4 DEF Counted
    <2>2. IsNew(d, file, k + 1) <=> ~Here(st, item)
        BY <1>0, <1>1, <2>1 DEF IsNew, Here
    <2>3. st.db \in Tables /\ st.created \in Nat /\ st.updated \in Nat /\ st.skipped \in Nat
        BY DEF States
    <2>4. \A b \in Addresses : (\E j \in 1..(k + 1) : file[j].box = b) <=> (\E j \in 1..k : file[j].box = b) \/ b = a
        BY <1>0
    <2>5. CASE Here(st, item) /\ strategy = "skip"
        <3>1. next.db = st.db /\ next.failed = "no" /\ next.created = st.created /\ next.skipped = st.skipped + 1
            BY <1>0, <1>4, <2>0, <2>5, ImportItemIs
        <3>2. next.created = Cardinality(NewItems(d, file, k + 1))
            BY <2>1, <2>2, <2>5, <3>1, NewItemsGrow
        <3>3. Has(st.db, Mailbox(a))
            BY <2>5 DEF Here
        <3>4. \A b \in Addresses :
                 Has(next.db, Mailbox(b)) <=> Has(d, Mailbox(b)) \/ \E j \in 1..(k + 1) : file[j].box = b
            BY <1>1, <2>1, <2>4, <3>1, <3>3
        <3>5. next.skipped + next.created = k + 1
            BY <2>1, <2>3, <2>5, <3>1
        <3> QED
            BY <2>5, <3>1, <3>2, <3>4, <3>5 DEF Counted
    <2>6. CASE Here(st, item) /\ strategy = "error"
        <3>1. next.failed = "mailbox"
            BY <1>0, <1>4, <2>0, <2>6, ImportItemIs
        <3>2. k + 1 \in 1..(k + 1) /\ ~IsNew(d, file, k + 1)
            BY <1>0, <2>2, <2>6
        <3> QED
            BY <2>6, <3>1, <3>2 DEF Counted
    <2>7. CASE (Here(st, item) => strategy = "update") /\ KeyElsewhere(st.db, item)
        <3>1. next.failed = "key"
            BY <1>0, <1>4, <2>0, <2>7, ImportItemIs
        <3> QED
            BY <3>1 DEF Counted
    <2>8. CASE ~Refuses(st, item, strategy)
        <3> DEFINE T == Touched(st.db, item)
        <3>1. /\ next.db = WrittenAt(st.db, T, a) /\ next.failed = "no" /\ next.skipped = st.skipped
              /\ next.created = IF Here(st, item) THEN st.created ELSE st.created + 1
              /\ next.updated = IF Here(st, item) THEN st.updated + 1 ELSE st.updated
            BY <1>0, <1>4, <2>0, <2>8, ImportItemIs
        <3>2. next.created = Cardinality(NewItems(d, file, k + 1))
            BY <2>1, <2>2, <3>1, NewItemsGrow
        <3>3. T \in SUBSET Rows /\ \A b : Mailbox(b) \in T <=> b = a
            <4>1. T \in SUBSET Rows
                BY <1>0, ItemRows
            <4>2. \A b : Mailbox(b) \in T <=> b = a
                BY RowsDiffer DEF Touched
            <4> QED
                BY <4>1, <4>2
        <3>4. Here(st, item) => strategy = "update"
            BY <1>1, <2>8 DEF Refuses
        <3> HIDE DEF T, a, item
        <3>5. \A r \in Rows : Has(next.db, r) <=> r \in T \/ Has(st.db, r)
            <4> DEFINE e == st.db
            <4>1. e \in Tables /\ a \in Addresses /\ T \in SUBSET Rows
                BY <1>1, <2>3, <3>3
            <4>2. next.db = WrittenAt(e, T, a)
                BY <3>1
            <4> HIDE DEF e
            <4>3. \A r \in Rows : Has(WrittenAt(e, T, a), r) <=> r \in T \/ Has(e, r)
                BY <4>1, WrittenRows
            <4> QED
                BY <4>2, <4>3 DEF e
        <3>6. \A b \in Addresses :
                 Has(next.db, Mailbox(b)) <=> Has(d, Mailbox(b)) \/ \E j \in 1..(k + 1) : file[j].box = b
            BY <2>1, <2>4, <3>3, <3>5, RowMembers
        <3>7. /\ strategy = "update" => next.updated + next.created = k + 1
              /\ strategy = "skip" => next.skipped + next.created = k + 1
              /\ strategy = "error" => next.created = k + 1 /\ next.skipped = 0
            BY <2>1, <2>3, <3>1, <3>4
        <3> QED
            BY <3>1, <3>2, <3>6, <3>7 DEF Counted
    <2> QED
        BY <1>1, <2>5, <2>6, <2>7, <2>8 DEF Refuses
<1> QED
    BY <1>3, <1>4

(* So is a whole file.                                                        *)
LEMMA ImportsCounted ==
    ASSUME NEW d \in Tables, NEW file \in Seq(Items), NEW strategy \in Strategies
    PROVE  \A k \in 0..Len(file) : Counted(d, file, strategy, k, Store!Imports(d, file, strategy)[k])
<1> DEFINE st == Store!Imports(d, file, strategy)
           n == Len(file)
           Good == {k \in 0..n : Counted(d, file, strategy, k, st[k])}
<1>1. st[0] = Store!NewImport(d) /\ \A i \in 1..n : st[i] = Store!ImportItem(st[i - 1], file[i], strategy)
    BY ImportsEquation
<1>2. n \in Nat
    OBVIOUS
<1>3. \A k \in 0..n : st[k] \in States
    BY ImportsType
<1> HIDE DEF st
<1>4. 0 \in Good
    <2>1. /\ st[0].db = d /\ st[0].failed = "no" /\ st[0].created = 0 /\ st[0].updated = 0 /\ st[0].skipped = 0
        BY <1>1 DEF Store!NewImport
    <2>2. NewItems(d, file, 0) = {}
        BY DEF NewItems
    <2>3. Cardinality(NewItems(d, file, 0)) = 0
        BY <2>2, FS_EmptySet
    <2>4. \A a \in Addresses : Has(st[0].db, Mailbox(a)) <=> Has(d, Mailbox(a)) \/ \E j \in 1..0 : file[j].box = a
        BY <2>1
    <2>5. Counted(d, file, strategy, 0, st[0])
        BY <2>1, <2>3, <2>4 DEF Counted
    <2> QED
        BY <1>2, <2>5
<1>5. \A k \in 0..n : k \in Good /\ k < n => k + 1 \in Good
    <2> SUFFICES ASSUME NEW k \in 0..n, k < n, Counted(d, file, strategy, k, st[k]) PROVE k + 1 \in Good
        OBVIOUS
    <2>1. k \in Nat /\ k + 1 \in 0..n /\ st[k + 1] = Store!ImportItem(st[k], file[k + 1], strategy)
        BY <1>1, <1>2
    <2> DEFINE s == st[k]  next == st[k + 1]
    <2>2. s \in States /\ Counted(d, file, strategy, k, s) /\ next = Store!ImportItem(s, file[k + 1], strategy)
        BY <1>3, <2>1
    <2> HIDE DEF s, next
    <2>3. Counted(d, file, strategy, k + 1, next)
        BY <2>1, <2>2, ItemCounted
    <2> QED
        BY <2>1, <2>3 DEF next
<1> HIDE DEF n
<1>6. \A k \in 0..n : k \in Good
    <2> HIDE DEF Good
    <2> QED
        BY <1>2, <1>4, <1>5, UpTo
<1> QED
    BY <1>6 DEF st, n

(* What the preview and the import of a file say of each other.               *)
Agrees(plan, done, strategy) ==
    done.failed # "key" =>
        IF strategy = "error" /\ plan.conflicts > 0
          THEN done.failed = "mailbox"
          ELSE /\ done.failed = "no" /\ done.created = plan.new
               /\ (IF strategy = "update" THEN done.updated ELSE done.skipped) = plan.conflicts

(* An import that has failed, or has come to the end of the file, agrees with *)
(* the preview of the same file on the same tables.                           *)
LEMMA PlanAgrees ==
    ASSUME NEW d \in Tables, NEW file \in Seq(Items), NEW strategy \in Strategies, NEW k \in 0..Len(file),
           NEW st, st = Store!Imports(d, file, strategy)[k], st.failed = "no" => k = Len(file)
    PROVE  Agrees(Plan(d, file), st, strategy)
<1> DEFINE n == Len(file)
           plan == Plan(d, file)
<1>1. n \in Nat /\ k \in Nat /\ k <= n
    OBVIOUS
<1>2. plan.new = Cardinality(NewItems(d, file, n)) /\ plan.conflicts = n - Cardinality(NewItems(d, file, n))
    <2>1. DOMAIN file = 1..n
        OBVIOUS
    <2>2. NewItems(d, file, n) = {i \in DOMAIN file : /\ ~Has(d, Mailbox(file[i].box))
                                                      /\ \A j \in 1..(i - 1) : file[j].box # file[i].box}
        BY <2>1 DEF NewItems, IsNew
    <2> QED
        BY <2>2 DEF Plan
<1>3. Counted(d, file, strategy, k, st) /\ st \in States
    BY ImportsCounted, ImportsType
<1>4. strategy \in {"skip", "update", "error"}
    BY StoreAssumption
<1>5. Cardinality(NewItems(d, file, n)) \in 0..n
      /\ ((\E i \in 1..n : ~IsNew(d, file, i)) => Cardinality(NewItems(d, file, n)) < n)
    BY <1>1, NewItemsGrow
<1> HIDE DEF n, plan
<1>6. CASE st.failed = "no"
    <2>1. k = n
        BY <1>6 DEF n
    <2>2. /\ st.created = Cardinality(NewItems(d, file, n))
          /\ strategy = "update" => st.updated + st.created = n
          /\ strategy = "skip" => st.skipped + st.created = n
          /\ strategy = "error" => st.created = n /\ st.skipped = 0
        BY <1>3, <1>6, <2>1 DEF Counted
    <2>3. st.created \in Nat /\ st.updated \in Nat /\ st.skipped \in Nat
        BY <1>3 DEF States
    <2> QED
        BY <1>1, <1>2, <1>4, <1>5, <1>6, <2>2, <2>3 DEF Agrees, plan
<1>7. CASE st.failed = "mailbox"
    <2>1. strategy = "error" /\ \E i \in 1..k : ~IsNew(d, file, i)
        BY <1>3, <1>7 DEF Counted
    <2>2. \E i \in 1..n : ~IsNew(d, file, i)
        BY <1>1, <2>1
    <2>3. plan.conflicts > 0
        BY <1>1, <1>2, <1>5, <2>2
    <2> QED
        BY <1>7, <2>1, <2>3 DEF Agrees, plan
<1>8. CASE st.failed = "key"
    BY <1>8 DEF Agrees
<1> QED
    BY <1>3, <1>6, <1>7, <1>8 DEF States

-----------------------------------------------------------------------------
(* The requests of the clients, by their stage; a failed one keeps the fields *)
(* of the stage it failed in.                                                 *)
Plans == [new : Nat, conflicts : Nat]
Results == [created : Nat, updated : Nat, skipped : Nat, failed : {"no", "mailbox", "key"}, ids : Seq(Addresses)]
Previews == [at : {"previewed", "failed"}, file : Files, strategy : Strategies, plan : Plans, current : BOOLEAN]
Transactions == [at : {"tx", "failed"}, file : Files, strategy : Strategies, plan : Plans, current : BOOLEAN,
                 base : Tables, rest : Seq(Items), work : States]
FollowUps == [at : {"keys", "capabilities", "schedule", "refused", "failed"}, file : Files, strategy : Strategies,
              plan : Plans, current : BOOLEAN, todo : Seq(Addresses), done : Results]
Requests == {NoRequest} \cup Previews \cup Transactions \cup FollowUps

(* How far a transaction has come in its file.                                *)
Taken(r) == Len(r.file) - Len(r.rest)
Underway(r) ==
    /\ Len(r.rest) <= Len(r.file)
    /\ \A i \in 1..Len(r.rest) : r.rest[i] = r.file[Taken(r) + i]
    /\ r.work = Store!Imports(r.base, r.file, r.strategy)[Taken(r)]
    /\ r.current => r.plan = Plan(r.base, r.file)

(* What holds of a request R while the tables are D: what was previewed is    *)
(* what is there until someone writes, a transaction is the import of the     *)
(* items it has taken into its snapshot, and its result agrees with the plan. *)
RequestOK(r, d) ==
    /\ r \in Requests
    /\ r.at = "previewed" /\ r.current => r.plan = Plan(d, r.file)
    /\ r.at = "failed" => ~r.current
    /\ r.at = "tx" => Underway(r)
    /\ r.at \in {"keys", "refused"} /\ r.current => Agrees(r.plan, r.done, r.strategy)

Inv ==
    /\ StoreInv
    /\ req \in [Clients -> Requests]
    /\ \A c \in Clients : RequestOK(req[c], db)

(* The fields of a request follow from its stage.                             *)
LEMMA RequestShape ==
    ASSUME NEW r \in Requests
    PROVE  /\ r.at \in Steps
           /\ r.at = "idle" => r = NoRequest
           /\ r.at = "previewed" => r \in Previews
           /\ r.at = "tx" => r \in Transactions
           /\ r.at \in {"keys", "capabilities", "schedule", "refused"} => r \in FollowUps
           /\ r.at # "idle" => r \in Previews \/ r \in Transactions \/ r \in FollowUps
           /\ r.at # "idle" => r.file \in Files /\ r.strategy \in Strategies /\ r.plan \in Plans /\ r.current \in BOOLEAN
<1>1. CASE r = NoRequest
    BY <1>1 DEF NoRequest, Steps
<1>2. CASE r \in Previews
    BY <1>2 DEF Previews, Steps
<1>3. CASE r \in Transactions
    BY <1>3 DEF Transactions, Steps
<1>4. CASE r \in FollowUps
    BY <1>4 DEF FollowUps, Steps
<1> QED
    BY <1>1, <1>2, <1>3, <1>4 DEF Requests

(* A request that fails, or whose preview is out of date.                     *)
LEMMA Spoiled ==
    ASSUME NEW r \in Requests, r.at # "idle"
    PROVE  /\ [r EXCEPT !.at = "failed", !.current = FALSE] \in Requests
           /\ [r EXCEPT !.at = "failed", !.current = FALSE].at = "failed"
           /\ [r EXCEPT !.at = "failed", !.current = FALSE].current = FALSE
           /\ [r EXCEPT !.current = FALSE] \in Requests
           /\ [r EXCEPT !.current = FALSE].at = r.at
           /\ [r EXCEPT !.current = FALSE].current = FALSE
           /\ r \in Transactions => /\ [r EXCEPT !.current = FALSE].file = r.file
                                    /\ [r EXCEPT !.current = FALSE].strategy = r.strategy
                                    /\ [r EXCEPT !.current = FALSE].base = r.base
                                    /\ [r EXCEPT !.current = FALSE].rest = r.rest
                                    /\ [r EXCEPT !.current = FALSE].work = r.work
<1>1. CASE r \in Previews
    <2>1. [r EXCEPT !.at = "failed", !.current = FALSE] \in Previews /\ [r EXCEPT !.current = FALSE] \in Previews
        BY <1>1 DEF Previews
    <2>2. /\ [r EXCEPT !.at = "failed", !.current = FALSE].at = "failed"
          /\ [r EXCEPT !.at = "failed", !.current = FALSE].current = FALSE
          /\ [r EXCEPT !.current = FALSE].at = r.at /\ [r EXCEPT !.current = FALSE].current = FALSE
        BY <1>1 DEF Previews
    <2>3. r \notin Transactions
        <3>1. "rest" \notin DOMAIN r
            BY <1>1 DEF Previews
        <3> QED
            BY <3>1 DEF Transactions
    <2> QED
        BY <2>1, <2>2, <2>3 DEF Requests
<1>2. CASE r \in Transactions
    <2>1. [r EXCEPT !.at = "failed", !.current = FALSE] \in Transactions /\ [r EXCEPT !.current = FALSE] \in Transactions
        BY <1>2 DEF Transactions
    <2>2. /\ [r EXCEPT !.at = "failed", !.current = FALSE].at = "failed"
          /\ [r EXCEPT !.at = "failed", !.current = FALSE].current = FALSE
          /\ [r EXCEPT !.current = FALSE].at = r.at /\ [r EXCEPT !.current = FALSE].current = FALSE
        BY <1>2 DEF Transactions
    <2>3. /\ [r EXCEPT !.current = FALSE].file = r.file /\ [r EXCEPT !.current = FALSE].strategy = r.strategy
          /\ [r EXCEPT !.current = FALSE].base = r.base /\ [r EXCEPT !.current = FALSE].rest = r.rest
          /\ [r EXCEPT !.current = FALSE].work = r.work
        BY <1>2 DEF Transactions
    <2> QED
        BY <2>1, <2>2, <2>3 DEF Requests
<1>3. CASE r \in FollowUps
    <2>1. [r EXCEPT !.at = "failed", !.current = FALSE] \in FollowUps /\ [r EXCEPT !.current = FALSE] \in FollowUps
        BY <1>3 DEF FollowUps
    <2>2. /\ [r EXCEPT !.at = "failed", !.current = FALSE].at = "failed"
          /\ [r EXCEPT !.at = "failed", !.current = FALSE].current = FALSE
          /\ [r EXCEPT !.current = FALSE].at = r.at /\ [r EXCEPT !.current = FALSE].current = FALSE
        BY <1>3 DEF FollowUps
    <2>3. r \notin Transactions
        <3>1. "rest" \notin DOMAIN r
            BY <1>3 DEF FollowUps
        <3> QED
            BY <3>1 DEF Transactions
    <2> QED
        BY <2>1, <2>2, <2>3 DEF Requests
<1> QED
    BY <1>1, <1>2, <1>3, RequestShape

(* A write of the tables: what it does to the requests in progress.           *)
LEMMA Outdate ==
    ASSUME NEW r, NEW d, NEW e, RequestOK(r, d),
           NEW s, s = IF r.at \in {"previewed", "tx", "failed"} THEN [r EXCEPT !.current = FALSE] ELSE r
    PROVE  RequestOK(s, e)
<1>0. r \in Requests
    BY DEF RequestOK
<1>1. CASE r.at \in {"previewed", "failed"}
    <2>1. s \in Requests /\ s.at = r.at /\ s.current = FALSE
        BY <1>0, <1>1, Spoiled
    <2> QED
        BY <1>1, <2>1 DEF RequestOK
<1>2. CASE r.at = "tx"
    <2>1. s = [r EXCEPT !.current = FALSE] /\ r \in Transactions
        BY <1>0, <1>2, RequestShape
    <2>2. s \in Requests /\ s.at = "tx" /\ s.current = FALSE
        BY <1>0, <1>2, <2>1, Spoiled
    <2>3. s.file = r.file /\ s.strategy = r.strategy /\ s.base = r.base /\ s.rest = r.rest /\ s.work = r.work
        BY <1>0, <1>2, <2>1, Spoiled
    <2>4. Underway(r)
        BY <1>2 DEF RequestOK
    <2>5. Underway(s)
        BY <2>2, <2>3, <2>4 DEF Underway, Taken
    <2> QED
        BY <2>2, <2>5 DEF RequestOK
<1>3. CASE r.at \notin {"previewed", "tx", "failed"}
    BY <1>3 DEF RequestOK
<1> QED
    BY <1>1, <1>2, <1>3

(* One client goes on and the tables stay.                                    *)
LEMMA ClientStep ==
    ASSUME Inv, NEW c \in Clients, NEW r, RequestOK(r, db), req' = [req EXCEPT ![c] = r], UNCHANGED db
    PROVE  Inv'
<1>1. StoreInv'
    BY StoreStep DEF Inv
<1>2. r \in Requests
    BY DEF RequestOK
<1>3. req' \in [Clients -> Requests]
    BY <1>2 DEF Inv
<1>4. \A b \in Clients : req'[b] = IF b = c THEN r ELSE req[b]
    BY DEF Inv
<1>5. \A b \in Clients : RequestOK(req'[b], db)
    BY <1>4 DEF Inv
<1>6. \A b \in Clients : RequestOK(req'[b], db')
    BY <1>5
<1> QED
    BY <1>1, <1>3, <1>6 DEF Inv

(* A preview plans what an import of the file would create.                   *)
LEMMA PreviewKeeps ==
    ASSUME Inv, NEW c \in Clients, Preview(c)
    PROVE  Inv'
<1>1. PICK file \in Files, strategy \in Strategies :
         req' = [req EXCEPT ![c] = [at |-> "previewed", file |-> file, strategy |-> strategy,
                                    plan |-> Plan(db, file), current |-> TRUE]]
    BY DEF Preview
<1>2. UNCHANGED db
    BY DEF Preview
<1> DEFINE plan == Plan(db, file)
           r == [at |-> "previewed", file |-> file, strategy |-> strategy, plan |-> plan, current |-> TRUE]
<1>3. plan \in Plans
    <2> DEFINE n == Len(file)
    <2>1. file \in Seq(Items)
        BY FilesAssumption
    <2>2. n \in Nat /\ DOMAIN file = 1..n
        BY <2>1
    <2>3. NewItems(db, file, n) = {i \in DOMAIN file : /\ ~Has(db, Mailbox(file[i].box))
                                                       /\ \A j \in 1..(i - 1) : file[j].box # file[i].box}
        BY <2>2 DEF NewItems, IsNew
    <2>4. plan = [new |-> Cardinality(NewItems(db, file, n)), conflicts |-> n - Cardinality(NewItems(db, file, n))]
        BY <2>3 DEF Plan
    <2> HIDE DEF n, plan
    <2>5. Cardinality(NewItems(db, file, n)) \in 0..n
        BY <2>1, <2>2, NewItemsGrow
    <2>6. /\ Cardinality(NewItems(db, file, n)) \in Nat
          /\ n - Cardinality(NewItems(db, file, n)) \in Nat
        BY <2>2, <2>5
    <2> QED
        BY <2>4, <2>6 DEF Plans
<1>4. r \in Requests
    <2> HIDE DEF plan
    <2> QED
        BY <1>3 DEF Requests, Previews
<1>5. RequestOK(r, db)
    BY <1>4 DEF RequestOK
<1>6. req' = [req EXCEPT ![c] = r]
    BY <1>1
<1> HIDE DEF r
<1> QED
    BY <1>2, <1>5, <1>6, ClientStep

(* The transaction begins with the tables as they are and has taken nothing.  *)
LEMMA BeginKeeps ==
    ASSUME Inv, NEW c \in Clients, Begin(c)
    PROVE  Inv'
<1> DEFINE old == req[c]
           work == Store!NewImport(db)
           r == [at |-> "tx", file |-> old.file, strategy |-> old.strategy, plan |-> old.plan,
                 current |-> old.current, base |-> db, rest |-> old.file, work |-> work]
<1>1. RequestOK(old, db) /\ old.at \in {"previewed", "failed"} /\ req' = [req EXCEPT ![c] = r] /\ UNCHANGED db
    BY DEF Begin, Inv
<1>2. old \in Requests /\ old.file \in Files /\ old.strategy \in Strategies /\ old.plan \in Plans /\ old.current \in BOOLEAN
    BY <1>1, RequestShape DEF RequestOK
<1>3. old.file \in Seq(Items) /\ Len(old.file) \in Nat /\ db \in Tables
    BY <1>2, FilesAssumption DEF Inv, StoreInv, Typed
<1>4. work = Store!Imports(db, old.file, old.strategy)[0] /\ work \in States
    <2>1. work = Store!Imports(db, old.file, old.strategy)[0]
        BY <1>3, ImportsEquation
    <2>2. 0 \in 0..Len(old.file)
        BY <1>3
    <2> QED
        BY <1>2, <1>3, <2>1, <2>2, ImportsType
<1>5. old.current => old.plan = Plan(db, old.file)
    BY <1>1 DEF RequestOK
<1> HIDE DEF work, old
<1>6. r \in Requests
    BY <1>2, <1>3, <1>4 DEF Requests, Transactions
<1>7. Underway(r)
    <2>1. Taken(r) = 0
        BY <1>3 DEF Taken
    <2>2. /\ Len(r.rest) <= Len(r.file)
          /\ r.work = Store!Imports(r.base, r.file, r.strategy)[0]
          /\ r.current => r.plan = Plan(r.base, r.file)
        BY <1>3, <1>4, <1>5
    <2>3. \A i \in 1..Len(r.rest) : r.rest[i] = r.file[0 + i]
        BY <1>3
    <2> QED
        BY <2>1, <2>2, <2>3 DEF Underway
<1>8. RequestOK(r, db)
    BY <1>6, <1>7 DEF RequestOK
<1> HIDE DEF r
<1> QED
    BY <1>1, <1>8, ClientStep

(* The transaction takes one more item of the file.                           *)
LEMMA ItemKeeps ==
    ASSUME Inv, NEW c \in Clients, Item(c)
    PROVE  Inv'
<1> DEFINE old == req[c]
           n == Len(old.file)
           k == Taken(old)
           item == Head(old.rest)
           work == Step(old.work, item, old.strategy)
           rest == Tail(old.rest)
           r == [[old EXCEPT !.work = work] EXCEPT !.rest = rest]
<1>1. /\ RequestOK(old, db) /\ old.at = "tx" /\ old.rest # <<>> /\ old.work.failed = "no"
      /\ req' = [req EXCEPT ![c] = r] /\ UNCHANGED db
    BY DEF Item, At, Inv
<1>2. old \in Transactions /\ Underway(old)
    BY <1>1, RequestShape DEF RequestOK
<1>3. /\ old.file \in Files /\ old.strategy \in Strategies /\ old.base \in Tables /\ old.rest \in Seq(Items)
      /\ old.work \in States
    BY <1>2 DEF Transactions
<1>4. old.file \in Seq(Items) /\ n \in Nat
    BY <1>3, FilesAssumption
<1>5. /\ Len(old.rest) \in 1..n /\ k = n - Len(old.rest) /\ k \in 0..(n - 1) /\ k + 1 \in 1..n /\ (k + 1) - 1 = k
      /\ rest \in Seq(Items) /\ Len(rest) = Len(old.rest) - 1 /\ item \in Items
    <2>1. Len(old.rest) <= n
        BY <1>2 DEF Underway
    <2>2. Len(old.rest) \in Nat /\ Len(old.rest) > 0 /\ rest \in Seq(Items) /\ Len(rest) = Len(old.rest) - 1 /\ item \in Items
        BY <1>1, <1>3
    <2>3. k = n - Len(old.rest)
        BY DEF Taken
    <2> DEFINE left == Len(old.rest)
    <2>4. left \in Nat /\ left > 0 /\ left <= n /\ k = n - left /\ n \in Nat
        BY <1>4, <2>1, <2>2, <2>3
    <2> HIDE DEF k, n, left
    <2>5. left \in 1..n /\ k \in 0..(n - 1) /\ k + 1 \in 1..n /\ (k + 1) - 1 = k
        BY <2>4
    <2> QED
        BY <2>2, <2>3, <2>5 DEF left
<1>6. item = old.file[k + 1] /\ \A i \in 1..Len(rest) : rest[i] = old.file[(k + 1) + i]
    <2>1. \A i \in 1..Len(old.rest) : old.rest[i] = old.file[k + i]
        BY <1>2 DEF Underway
    <2>2. item = old.rest[1] /\ 1 \in 1..Len(old.rest)
        BY <1>1, <1>3, <1>5
    <2>3. \A i \in 1..Len(rest) : rest[i] = old.rest[i + 1] /\ i + 1 \in 1..Len(old.rest)
        BY <1>1, <1>3, <1>5
    <2> HIDE DEF k, rest, n
    <2>0. k \in Int
        BY <1>5
    <2>4. ASSUME NEW i \in Nat PROVE k + (i + 1) = (k + 1) + i
        BY <2>0
    <2>5. ASSUME NEW i \in 1..Len(rest) PROVE rest[i] = old.file[(k + 1) + i]
        <3>1. rest[i] = old.file[k + (i + 1)]
            BY <2>1, <2>3
        <3>2. i \in Nat
            OBVIOUS
        <3> QED
            BY <2>4, <3>1, <3>2
    <2> QED
        BY <2>1, <2>2, <2>5
<1>7. work \in States /\ work = Store!Imports(old.base, old.file, old.strategy)[k + 1]
    <2> DEFINE st == Store!Imports(old.base, old.file, old.strategy)
    <2>1. old.work = st[k]
        BY <1>2 DEF Underway
    <2>2. st[k + 1] = Store!ImportItem(st[(k + 1) - 1], old.file[k + 1], old.strategy)
        <3> DEFINE file == old.file  base == old.base  how == old.strategy  j == k + 1
        <3>1. file \in Seq(Items) /\ j \in 1..Len(file)
            BY <1>4, <1>5
        <3> HIDE DEF file, base, how, j
        <3>2. Store!Imports(base, file, how)[j] = Store!ImportItem(Store!Imports(base, file, how)[j - 1], file[j], how)
            BY <3>1, ImportsEquation
        <3> QED
            BY <3>2 DEF file, base, how, j
    <2> DEFINE next == st[k + 1]
    <2>3. next = Store!ImportItem(old.work, item, old.strategy)
        BY <1>5, <1>6, <2>1, <2>2
    <2> DEFINE was == old.work  how == old.strategy
    <2>4. was \in States /\ was.failed = "no" /\ how \in Strategies /\ item \in Items
        BY <1>1, <1>3, <1>5
    <2>5. next = Store!ImportItem(was, item, how)
        BY <2>3
    <2> HIDE DEF next, st, item, was, how
    <2>6. next \in States /\ next = Step(was, item, how)
        BY <2>4, <2>5, ImportItemIs
    <2> QED
        BY <2>6 DEF next, st, was, how
<1> HIDE DEF work, rest, item, k, n
<1>8. /\ r \in Transactions /\ r.at = "tx" /\ r.work = work /\ r.rest = rest
      /\ r.file = old.file /\ r.strategy = old.strategy /\ r.plan = old.plan /\ r.current = old.current /\ r.base = old.base
    BY <1>1, <1>2, <1>5, <1>7 DEF Transactions
<1>9. Underway(r)
    <2>1. Taken(r) = k + 1 /\ Len(r.rest) <= Len(r.file)
        <3> DEFINE left == Len(old.rest)  more == Len(rest)
        <3>1. left \in 1..n /\ k = n - left /\ more = left - 1 /\ n \in Nat
            BY <1>4, <1>5
        <3>2. Taken(r) = n - more /\ Len(r.rest) = more /\ Len(r.file) = n
            BY <1>8 DEF Taken, n
        <3> HIDE DEF left, more, r
        <3> QED
            BY <3>1, <3>2
    <2>2. r.current => r.plan = Plan(r.base, r.file)
        BY <1>2, <1>8 DEF Underway
    <2>3. r.work = Store!Imports(r.base, r.file, r.strategy)[k + 1]
        BY <1>7, <1>8
    <2>4. \A i \in 1..Len(r.rest) : r.rest[i] = r.file[(k + 1) + i]
        BY <1>6, <1>8
    <2> HIDE DEF r, old
    <2> QED
        BY <2>1, <2>2, <2>3, <2>4 DEF Underway
<1>10. RequestOK(r, db)
    BY <1>8, <1>9 DEF RequestOK, Requests
<1> HIDE DEF r
<1> QED
    BY <1>1, <1>10, ClientStep

(* What a transaction that can commit has done: the import of its file into   *)
(* its snapshot, which agrees with the tables on every row the file names.    *)
LEMMA Finished ==
    ASSUME Inv, NEW c \in Clients, At(c, "tx"), req[c].rest = <<>>
    PROVE  /\ req[c] \in Transactions /\ req[c].file \in Seq(Items)
           /\ req[c].work = Store!Imports(req[c].base, req[c].file, req[c].strategy)[Len(req[c].file)]
           /\ req[c].current => req[c].plan = Plan(req[c].base, req[c].file)
<1> DEFINE old == req[c]
<1>1. RequestOK(old, db) /\ old.at = "tx" /\ old.rest = <<>>
    BY DEF Inv, At
<1>2. old \in Transactions /\ Underway(old)
    BY <1>1, RequestShape DEF RequestOK
<1>3. old.file \in Seq(Items)
    BY <1>2, FilesAssumption DEF Transactions
<1>4. Taken(old) = Len(old.file)
    BY <1>1, <1>3 DEF Taken
<1>5. /\ old.work = Store!Imports(old.base, old.file, old.strategy)[Len(old.file)]
      /\ old.current => old.plan = Plan(old.base, old.file)
    BY <1>2, <1>4 DEF Underway
<1> QED
    BY <1>2, <1>3, <1>5

(* A commit writes what the import of the whole file into the tables as they  *)
(* are leads to: what others have written since is not lost and not mixed in. *)
LEMMA CommitWrites ==
    ASSUME Inv, NEW c \in Clients, Commit(c)
    PROVE  LET st == Store!Imports(db, req[c].file, req[c].strategy)[Len(req[c].file)]
           IN  /\ req[c].file \in Files /\ req[c].file \in Seq(Items) /\ req[c].strategy \in Strategies
               /\ st.failed = "no" /\ db' = st.db /\ Bounded(st.db) /\ req[c].work.ids = st.ids
<1> DEFINE base == req[c].base
           file == req[c].file
           strategy == req[c].strategy
           work == req[c].work
           n == Len(file)
           s == Store!Imports(db, file, strategy)[n]
           N == Named(file)
<1>1. /\ req[c] \in Transactions /\ file \in Seq(Items)
      /\ work = Store!Imports(base, file, strategy)[n]
    BY Finished DEF Commit
<1>2. /\ work.failed = "no" /\ Bounded(work.db) /\ \A r \in N : db[r] = base[r]
      /\ db' = [r \in Rows |-> IF work.db[r] # base[r] THEN work.db[r] ELSE db[r]]
    BY DEF Commit, Serializable
<1>3. base \in Tables /\ strategy \in Strategies /\ work \in States /\ db \in Tables /\ Bounded(db)
    BY <1>1 DEF Transactions, Inv, StoreInv, Typed
<1>4. n \in 0..n /\ N \in SUBSET Rows
    BY <1>1, NamedRows
<1> HIDE DEF base, file, strategy, work
<1>5. s \in States
    BY <1>1, <1>3, <1>4, ImportsType
<1>6. /\ Same(s, work, N)
      /\ \A r \in Rows \ N : s.db[r] = db[r] /\ work.db[r] = base[r]
    BY <1>1, <1>2, <1>3, <1>4, ImportsAgree
<1> HIDE DEF s, N, n
<1>7. s.failed = "no" /\ \A r \in N : s.db[r] = work.db[r]
    BY <1>2, <1>6 DEF Same
<1>8. \A r \in Rows : db'[r] = s.db[r]
    <2>1. \A r \in N : db'[r] = s.db[r]
        BY <1>2, <1>4, <1>7
    <2>2. \A r \in Rows \ N : db'[r] = s.db[r]
        BY <1>2, <1>6
    <2> QED
        BY <2>1, <2>2
<1>9. db' = s.db
    <2>1. db' = [r \in Rows |-> db'[r]]
        BY <1>2
    <2>2. s.db = [r \in Rows |-> s.db[r]]
        BY <1>5 DEF States, Tables
    <2> QED
        BY <1>8, <2>1, <2>2
<1>10. Bounded(s.db)
    <2>1. \A r \in N : s.db[r].version <= MaxVersion
        BY <1>2, <1>4, <1>7 DEF Bounded
    <2>2. \A r \in Rows \ N : s.db[r].version <= MaxVersion
        BY <1>3, <1>6 DEF Bounded
    <2> QED
        BY <2>1, <2>2 DEF Bounded
<1>11. work.ids = s.ids
    BY <1>6 DEF Same
<1>12. file \in Files
    BY <1>1 DEF file, Transactions
<1> QED
    BY <1>1, <1>3, <1>7, <1>9, <1>10, <1>11, <1>12 DEF s, n, file, strategy, work

LEMMA CommitIsImport ==
    ASSUME Inv, NEW c \in Clients, Commit(c)
    PROVE  Store!ImportMailboxes(req[c].file, req[c].strategy)
BY CommitWrites, SameTables DEF Store!ImportMailboxes

(* The single statements of others are steps of the store.                    *)
LEMMA StatementIsStep ==
    ASSUME Inv, NEW a \in Addresses,
           \/ CreateMailbox(a) \/ UpsertCredential(a)
           \/ \E p \in Accounts, l \in Aliases \cup {None} : CreatePlatformAccount(p, a, l)
    PROVE  Store!Next /\ req' = Outdated(None)
<1>0. db \in Tables /\ Typed(db) /\ Bounded(db)
    BY DEF Inv, StoreInv, Typed
<1>1. CASE CreateMailbox(a)
    <2>1. ~Has(db, Mailbox(a)) /\ db' = Upsert(db, Mailbox(a), a) /\ req' = Outdated(None)
        BY <1>1 DEF CreateMailbox, OneStatement
    <2>2. Mailbox(a) \in Rows
        BY RowMembers
    <2> DEFINE r == Mailbox(a)
    <2>3. r \in Rows /\ db' = Upsert(db, r, a)
        BY <2>1, <2>2
    <2> HIDE DEF r
    <2>4. db' = Put(db, r, a, None)
        BY <1>0, <2>3, PutOne
    <2>5. Store!CreateMailbox(a)
        BY <2>1, <2>4, SameTables DEF Store!CreateMailbox, r
    <2> QED
        BY <2>1, <2>5 DEF Store!Next
<1>2. CASE UpsertCredential(a)
    <2> DEFINE r == Credential(a)  v == db[r].version
    <2>1. Has(db, Mailbox(a)) /\ db[r].version < MaxVersion /\ db' = Upsert(db, r, a) /\ req' = Outdated(None)
        BY <1>2 DEF UpsertCredential, OneStatement
    <2>2. r \in Rows
        BY RowMembers
    <2> HIDE DEF r
    <2>3. db' = Put(db, r, a, None)
        BY <1>0, <2>1, <2>2, PutOne
    <2>4. v \in 0..MaxVersion
        BY <1>0, <2>1, <2>2, StoreAssumption DEF Tables, RowValues
    <2>5. Store!UpsertCredential(a, v)
        BY <2>1, <2>3, SameTables DEF Store!UpsertCredential, r
    <2> QED
        BY <2>1, <2>4, <2>5 DEF Store!Next
<1>3. ASSUME NEW p \in Accounts, NEW l \in Aliases \cup {None}, CreatePlatformAccount(p, a, l)
      PROVE  Store!Next /\ req' = Outdated(None)
    <2> DEFINE r == Account(p)
    <2>1. /\ Has(db, Mailbox(a)) /\ ~Has(db, r) /\ req' = Outdated(None)
          /\ l # None => Has(db, Alias(l)) /\ db[Alias(l)].owner = a
          /\ db' = [db EXCEPT ![r] = [owner |-> a, via |-> l, version |-> 1]]
        BY <1>3 DEF CreatePlatformAccount, OneStatement
    <2>2. r \in Rows
        BY RowMembers
    <2> HIDE DEF r
    <2>3. db[r].version = 0
        BY <1>0, <2>1, <2>2 DEF Typed, Absent
    <2>4. db' = Put(db, r, a, l)
        BY <1>0, <2>1, <2>2, <2>3 DEF Put, Tables
    <2>5. Store!CreatePlatformAccount(p, a, l)
        BY <2>1, <2>4, SameTables DEF Store!CreatePlatformAccount, r
    <2> QED
        BY <2>1, <2>5 DEF Store!Next
<1> QED
    BY <1>1, <1>2, <1>3

(* The end of a transaction keeps the counts and drops the copy of the tables. *)
LEMMA AfterIs ==
    ASSUME NEW c \in Clients, req[c] \in Transactions, NEW step \in {"keys", "refused"},
           NEW r, r = After(c, step)
    PROVE  /\ r \in FollowUps /\ r.at = step /\ r.current = req[c].current
           /\ Agrees(r.plan, r.done, r.strategy) <=> Agrees(req[c].plan, req[c].work, req[c].strategy)
<1> DEFINE old == req[c]
           work == old.work
           done == [count \in DOMAIN work \ {"db"} |-> work[count]]
<1>1. /\ old.file \in Files /\ old.strategy \in Strategies /\ old.plan \in Plans /\ old.current \in BOOLEAN
      /\ work \in States
    BY DEF Transactions
<1>2. r = [at |-> step, file |-> old.file, strategy |-> old.strategy, plan |-> old.plan,
           current |-> old.current, todo |-> work.ids, done |-> done]
    BY DEF After
<1> HIDE DEF old
<1>3. DOMAIN work = {"db", "created", "updated", "skipped", "failed", "ids"}
    BY <1>1 DEF States
<1>4. DOMAIN work \ {"db"} = {"created", "updated", "skipped", "failed", "ids"}
    BY <1>3
<1>5. /\ work.created \in Nat /\ work.updated \in Nat /\ work.skipped \in Nat
      /\ work.failed \in {"no", "mailbox", "key"} /\ work.ids \in Seq(Addresses)
    BY <1>1 DEF States
<1>6. done = [created |-> work.created, updated |-> work.updated, skipped |-> work.skipped,
              failed |-> work.failed, ids |-> work.ids]
    BY <1>4
<1>7. done \in Results
    BY <1>5, <1>6 DEF Results
<1>8. Agrees(old.plan, done, old.strategy) <=> Agrees(old.plan, work, old.strategy)
    BY <1>6 DEF Agrees
<1> HIDE DEF done, work
<1>9. r \in FollowUps
    BY <1>1, <1>2, <1>5, <1>7 DEF FollowUps
<1>10. /\ r.at = step /\ r.current = old.current
       /\ Agrees(r.plan, r.done, r.strategy) <=> Agrees(old.plan, done, old.strategy)
    BY <1>2
<1> QED
    BY <1>8, <1>9, <1>10 DEF old, work

(* What a transaction has counted when it ends is what its preview planned.   *)
LEMMA AfterOK ==
    ASSUME Inv, NEW c \in Clients, At(c, "tx"), NEW step \in {"keys", "refused"}, NEW e,
           req[c].work.failed = "no" => req[c].rest = <<>>
    PROVE  RequestOK(After(c, step), e)
<1> DEFINE old == req[c]
           k == Taken(old)
           r == After(c, step)
<1>1. RequestOK(old, db) /\ old.at = "tx"
    BY DEF Inv, At
<1>2. old \in Transactions /\ Underway(old)
    BY <1>1, RequestShape DEF RequestOK
<1>3. /\ old.file \in Files /\ old.strategy \in Strategies /\ old.base \in Tables /\ old.rest \in Seq(Items)
    BY <1>2 DEF Transactions
<1>4. old.file \in Seq(Items) /\ Len(old.file) \in Nat /\ Len(old.rest) \in Nat
    BY <1>3, FilesAssumption
<1>5. /\ k \in 0..Len(old.file) /\ (old.work.failed = "no" => k = Len(old.file))
    <2>1. Len(old.rest) <= Len(old.file)
        BY <1>2 DEF Underway
    <2>2. k = Len(old.file) - Len(old.rest)
        BY DEF Taken
    <2>3. k \in 0..Len(old.file)
        <3> DEFINE n == Len(old.file)  left == Len(old.rest)
        <3>1. n \in Nat /\ left \in Nat /\ left <= n /\ k = n - left
            BY <1>4, <2>1, <2>2
        <3> HIDE DEF n, left, k
        <3>2. k \in 0..n
            BY <3>1
        <3> QED
            BY <3>2 DEF n
    <2>4. ASSUME old.work.failed = "no" PROVE k = Len(old.file)
        <3>1. Len(old.rest) = 0
            BY <2>4
        <3> DEFINE n == Len(old.file)
        <3>2. n \in Nat /\ k = n - 0
            BY <1>4, <2>2, <3>1
        <3> HIDE DEF n, k
        <3>3. k = n
            BY <3>2
        <3> QED
            BY <3>3 DEF n
    <2> QED
        BY <2>3, <2>4
<1>6. old.work = Store!Imports(old.base, old.file, old.strategy)[k]
    BY <1>2 DEF Underway
<1>7. Agrees(Plan(old.base, old.file), old.work, old.strategy)
    <2> DEFINE d == old.base  file == old.file  strategy == old.strategy  st == old.work
    <2>1. d \in Tables /\ file \in Seq(Items) /\ strategy \in Strategies /\ k \in 0..Len(file)
          /\ st = Store!Imports(d, file, strategy)[k] /\ (st.failed = "no" => k = Len(file))
        BY <1>3, <1>4, <1>5, <1>6
    <2> HIDE DEF d, file, strategy, st, k
    <2>2. Agrees(Plan(d, file), st, strategy)
        BY <2>1, PlanAgrees
    <2> QED
        BY <2>2 DEF d, file, strategy, st
<1>8. old.current => Agrees(old.plan, old.work, old.strategy)
    BY <1>2, <1>7 DEF Underway
<1>9. /\ r \in FollowUps /\ r.at = step /\ r.current = old.current
      /\ Agrees(r.plan, r.done, r.strategy) <=> Agrees(old.plan, old.work, old.strategy)
    <2> HIDE DEF r
    <2>1. r = After(c, step)
        BY DEF r
    <2> QED
        BY <1>2, <2>1, AfterIs
<1> HIDE DEF r, old
<1>10. RequestOK(r, e)
    BY <1>8, <1>9 DEF RequestOK, Requests
<1> QED
    BY <1>10 DEF r

(* The commit of a transaction makes what others have previewed out of date.  *)
LEMMA CommitKeeps ==
    ASSUME Inv, NEW c \in Clients, Commit(c)
    PROVE  Inv'
<1> DEFINE end == After(c, "keys")
           old(b) == Outdated(c)[b]
<1>1. /\ At(c, "tx") /\ req[c].rest = <<>> /\ req' = [Outdated(c) EXCEPT ![c] = end]
    BY DEF Commit
<1>2. StoreInv'
    <2>1. Store!ImportMailboxes(req[c].file, req[c].strategy)
        BY CommitIsImport
    <2>2. req[c].file \in Files /\ req[c].strategy \in Strategies
        BY <1>1, Finished DEF Transactions
    <2>3. Store!Next
        BY <2>1, <2>2 DEF Store!Next
    <2> QED
        BY <2>3, StoreStep DEF Inv
<1>3. RequestOK(end, db')
    BY <1>1, AfterOK
<1>4. ASSUME NEW b \in Clients, b # c PROVE RequestOK(old(b), db')
    <2> DEFINE r == req[b]
               s == IF r.at \in {"previewed", "tx", "failed"} THEN [r EXCEPT !.current = FALSE] ELSE r
    <2>1. RequestOK(r, db)
        BY DEF Inv
    <2>2. old(b) = s
        BY <1>4 DEF Outdated
    <2> HIDE DEF r
    <2>3. \A e : RequestOK(s, e)
        BY <2>1, Outdate
    <2> HIDE DEF s
    <2>4. RequestOK(s, db')
        BY <2>3
    <2> QED
        BY <2>2, <2>4
<1>5. \A b \in Clients : req'[b] = IF b = c THEN end ELSE old(b)
    BY <1>1 DEF Outdated
<1>6. DOMAIN req' = Clients /\ req' = [b \in Clients |-> req'[b]]
    BY <1>1 DEF Outdated
<1> HIDE DEF end, old
<1>7. \A b \in Clients : RequestOK(req'[b], db')
    <2> SUFFICES ASSUME NEW b \in Clients PROVE RequestOK(req'[b], db')
        OBVIOUS
    <2>1. CASE b = c
        <3>1. req'[b] = end
            BY <1>5, <2>1
        <3> QED
            BY <1>3, <3>1
    <2>2. CASE b # c
        <3>1. req'[b] = old(b)
            BY <1>5, <2>2
        <3> QED
            BY <1>4, <2>2, <3>1
    <2> QED
        BY <2>1, <2>2
<1>8. \A b \in Clients : req'[b] \in Requests
    BY <1>7 DEF RequestOK
<1>9. req' \in [Clients -> Requests]
    BY <1>6, <1>8
<1> QED
    BY <1>2, <1>7, <1>9 DEF Inv

(* A statement of another request does so too.                                *)
LEMMA StatementKeeps ==
    ASSUME Inv, Store!Next, req' = Outdated(None)
    PROVE  Inv'
<1>1. StoreInv'
    BY StoreStep DEF Inv
<1>2. ASSUME NEW b \in Clients PROVE RequestOK(req'[b], db')
    <2> DEFINE r == req[b]
               s == IF r.at \in {"previewed", "tx", "failed"} THEN [r EXCEPT !.current = FALSE] ELSE r
    <2>1. RequestOK(r, db)
        BY DEF Inv
    <2>2. req'[b] = s
        BY ClientsAssumption DEF Outdated
    <2> HIDE DEF r
    <2>3. \A e : RequestOK(s, e)
        BY <2>1, Outdate
    <2> HIDE DEF s
    <2>4. RequestOK(s, db')
        BY <2>3
    <2> QED
        BY <2>2, <2>4
<1>3. \A b \in Clients : req'[b] \in Requests
    BY <1>2 DEF RequestOK
<1>4. req' = [b \in Clients |-> req'[b]]
    BY DEF Outdated
<1>5. req' \in [Clients -> Requests]
    BY <1>3, <1>4
<1> QED
    BY <1>1, <1>2, <1>5 DEF Inv

(* A request that is refused, or fails.                                       *)
LEMMA RefuseKeeps ==
    ASSUME Inv, NEW c \in Clients, Refuse(c)
    PROVE  Inv'
<1>1. /\ At(c, "tx") /\ req[c].work.failed # "no" /\ req' = [req EXCEPT ![c] = After(c, "refused")] /\ UNCHANGED db
    BY DEF Refuse
<1> DEFINE r == After(c, "refused")
<1>2. RequestOK(r, db)
    BY <1>1, AfterOK
<1> HIDE DEF r
<1>3. req' = [req EXCEPT ![c] = r]
    BY <1>1 DEF r
<1> QED
    BY <1>1, <1>2, <1>3, ClientStep

LEMMA FailureKeeps ==
    ASSUME Inv, NEW c \in Clients, Abort(c) \/ Fail(c)
    PROVE  Inv'
<1> DEFINE old == req[c]
           r == [old EXCEPT !.at = "failed", !.current = FALSE]
<1>1. old.at # "idle" /\ req' = [req EXCEPT ![c] = r] /\ UNCHANGED db
    BY DEF Abort, Fail, At
<1>2. old \in Requests
    BY DEF Inv
<1> HIDE DEF old
<1>3. r \in Requests /\ r.at = "failed" /\ r.current = FALSE
    BY <1>1, <1>2, Spoiled
<1> HIDE DEF r
<1>4. RequestOK(r, db)
    BY <1>3 DEF RequestOK
<1> QED
    BY <1>1, <1>4, ClientStep

(* A request after its commit, with another stage or another list to do.      *)
LEMMA FollowUp ==
    ASSUME NEW r \in FollowUps, NEW list \in Seq(Addresses), NEW step \in {"capabilities", "schedule"}
    PROVE  /\ [r EXCEPT !.at = step] \in FollowUps /\ [r EXCEPT !.at = step].at = step
           /\ [r EXCEPT !.todo = list] \in FollowUps
           /\ [r EXCEPT !.todo = list].at = r.at /\ [r EXCEPT !.todo = list].current = r.current
           /\ [r EXCEPT !.todo = list].plan = r.plan /\ [r EXCEPT !.todo = list].done = r.done
           /\ [r EXCEPT !.todo = list].strategy = r.strategy
BY DEF FollowUps

LEMMA EnsureKeeps ==
    ASSUME Inv, NEW c \in Clients, Ensure(c)
    PROVE  Inv'
<1> DEFINE old == req[c]
<1>1. RequestOK(old, db) /\ old.at = "keys" /\ UNCHANGED db
    BY DEF Inv, Ensure, At
<1>2. old \in FollowUps /\ (old.current => Agrees(old.plan, old.done, old.strategy))
    BY <1>1, RequestShape DEF RequestOK
<1>3. old.todo \in Seq(Addresses)
    BY <1>2 DEF FollowUps
<1>4. CASE old.todo = <<>>
    <2> DEFINE r == [old EXCEPT !.at = "capabilities"]
    <2>1. req' = [req EXCEPT ![c] = r]
        BY <1>4 DEF Ensure
    <2> HIDE DEF old
    <2>2. r \in FollowUps /\ r.at = "capabilities"
        BY <1>2, <1>3, FollowUp
    <2>3. RequestOK(r, db)
        BY <2>2 DEF RequestOK, Requests
    <2> HIDE DEF r
    <2> QED
        BY <1>1, <2>1, <2>3, ClientStep
<1>5. CASE old.todo # <<>>
    <2> DEFINE list == Tail(old.todo)
               r == [old EXCEPT !.todo = list]
    <2>1. req' = [req EXCEPT ![c] = r] /\ list \in Seq(Addresses)
        BY <1>3, <1>5 DEF Ensure
    <2> HIDE DEF old, list
    <2>2. /\ r \in FollowUps /\ r.at = old.at /\ r.current = old.current /\ r.plan = old.plan
          /\ r.done = old.done /\ r.strategy = old.strategy
        BY <1>2, <2>1, FollowUp
    <2> HIDE DEF r
    <2>3. RequestOK(r, db)
        BY <1>1, <1>2, <2>2 DEF RequestOK, Requests
    <2> QED
        BY <1>1, <2>1, <2>3, ClientStep
<1> QED
    BY <1>4, <1>5

LEMMA CapabilitiesKeep ==
    ASSUME Inv, NEW c \in Clients, InitializeCapabilities(c)
    PROVE  Inv'
<1> DEFINE old == req[c]
           list == old.done.ids
           r == [old EXCEPT !.at = "schedule", !.todo = list]
<1>1. RequestOK(old, db) /\ old.at = "capabilities" /\ req' = [req EXCEPT ![c] = r] /\ UNCHANGED db
    BY DEF Inv, InitializeCapabilities, At
<1>2. old \in FollowUps
    BY <1>1, RequestShape DEF RequestOK
<1> HIDE DEF old
<1>3. list \in Seq(Addresses)
    BY <1>2 DEF FollowUps, Results
<1> HIDE DEF list
<1>4. r \in FollowUps /\ r.at = "schedule"
    BY <1>2, <1>3 DEF FollowUps
<1>5. RequestOK(r, db)
    BY <1>4 DEF RequestOK, Requests
<1> HIDE DEF r
<1> QED
    BY <1>1, <1>5, ClientStep

LEMMA ScheduleKeeps ==
    ASSUME Inv, NEW c \in Clients, Schedule(c)
    PROVE  Inv'
<1> DEFINE old == req[c]
           list == Tail(old.todo)
           r == [old EXCEPT !.todo = list]
<1>1. /\ RequestOK(old, db) /\ old.at = "schedule" /\ old.todo # <<>>
      /\ req' = [req EXCEPT ![c] = r] /\ UNCHANGED db
    BY DEF Inv, Schedule, At
<1>2. old \in FollowUps
    BY <1>1, RequestShape DEF RequestOK
<1> HIDE DEF old
<1>3. list \in Seq(Addresses)
    BY <1>1, <1>2 DEF FollowUps
<1> HIDE DEF list
<1>4. r \in FollowUps /\ r.at = old.at
    BY <1>2, <1>3, FollowUp
<1> HIDE DEF r
<1>5. RequestOK(r, db)
    BY <1>1, <1>4 DEF RequestOK, Requests
<1> QED
    BY <1>1, <1>5, ClientStep

(* The answer ends the request.                                               *)
LEMMA ReplyKeeps ==
    ASSUME Inv, NEW c \in Clients, Reply(c)
    PROVE  Inv'
<1> DEFINE r == NoRequest
<1>1. req' = [req EXCEPT ![c] = r] /\ UNCHANGED db
    BY DEF Reply
<1>2. RequestOK(r, db)
    BY DEF RequestOK, Requests, NoRequest
<1> HIDE DEF r
<1> QED
    BY <1>1, <1>2, ClientStep

(* A crash leaves the tables and the file in the hands of the client.         *)
LEMMA CrashKeeps ==
    ASSUME Inv, Crash
    PROVE  Inv'
<1>1. StoreInv'
    BY StoreStep DEF Inv, Crash
<1>2. ASSUME NEW b \in Clients PROVE RequestOK(req'[b], db')
    <2> DEFINE r == req[b]
               failed == [at |-> "failed", file |-> r.file, strategy |-> r.strategy, plan |-> r.plan, current |-> FALSE]
    <2>1. r \in Requests
        BY DEF Inv
    <2>2. req'[b] = IF r.at = "idle" THEN NoRequest ELSE failed
        BY DEF Crash, At
    <2>3. CASE r.at = "idle"
        BY <2>2, <2>3 DEF RequestOK, Requests, NoRequest
    <2>4. CASE r.at # "idle"
        <3>1. r.file \in Files /\ r.strategy \in Strategies /\ r.plan \in Plans
            BY <2>1, <2>4, RequestShape
        <3> HIDE DEF r
        <3>2. failed \in Requests
            BY <3>1 DEF Requests, Previews
        <3>3. req'[b] = failed
            BY <2>2, <2>4
        <3>4. failed.at = "failed" /\ failed.current = FALSE
            OBVIOUS
        <3> HIDE DEF failed
        <3> QED
            BY <3>2, <3>3, <3>4 DEF RequestOK
    <2> QED
        BY <2>3, <2>4
<1>3. \A b \in Clients : req'[b] \in Requests
    BY <1>2 DEF RequestOK
<1>4. req' = [b \in Clients |-> req'[b]]
    BY DEF Crash
<1>5. req' \in [Clients -> Requests]
    BY <1>3, <1>4
<1> QED
    BY <1>1, <1>2, <1>5 DEF Inv

(* The workers neither write the tables nor move a request.                   *)
LEMMA RestKeeps ==
    ASSUME Inv, UNCHANGED <<db, req>>
    PROVE  Inv'
<1>1. StoreInv'
    BY StoreStep DEF Inv
<1>2. \A b \in Clients : RequestOK(req'[b], db')
    BY DEF Inv
<1>3. req' \in [Clients -> Requests]
    BY DEF Inv
<1> QED
    BY <1>1, <1>2, <1>3 DEF Inv

-----------------------------------------------------------------------------
(* The whole system.                                                          *)
LEMMA InitInv ==
    ASSUME Init
    PROVE  Inv
<1>1. StoreInv
    BY StoreInit DEF Init
<1>2. req = [c \in Clients |-> NoRequest]
    BY DEF Init
<1>3. \A d : RequestOK(NoRequest, d) /\ NoRequest \in Requests
    BY DEF RequestOK, Requests, NoRequest
<1> QED
    BY <1>1, <1>2, <1>3 DEF Inv

LEMMA NextInv ==
    ASSUME Inv, [Next]_vars
    PROVE  Inv'
<1>1. CASE UNCHANGED vars
    BY <1>1, RestKeeps DEF vars
<1>2. ASSUME NEW c \in Clients, Preview(c) PROVE Inv'
    BY <1>2, PreviewKeeps
<1>3. ASSUME NEW c \in Clients, RequestStep(c) PROVE Inv'
    BY <1>3, BeginKeeps, ItemKeeps, CommitKeeps, RefuseKeeps, FailureKeeps,
       EnsureKeeps, CapabilitiesKeep, ScheduleKeeps, ReplyKeeps DEF RequestStep
<1>4. ASSUME NEW c \in Clients, Fail(c) PROVE Inv'
    BY <1>4, FailureKeeps
<1>5. ASSUME NEW w \in Workers, Work(w) PROVE Inv'
    BY <1>5, RestKeeps DEF Work, Take, Fetch
<1>6. ASSUME NEW a \in Addresses,
             \/ CreateMailbox(a) \/ UpsertCredential(a)
             \/ \E p \in Accounts, l \in Aliases \cup {None} : CreatePlatformAccount(p, a, l)
      PROVE  Inv'
    BY <1>6, StatementIsStep, StatementKeeps
<1>7. CASE Crash
    BY <1>7, CrashKeeps
<1> QED
    BY <1>1, <1>2, <1>3, <1>4, <1>5, <1>6, <1>7 DEF Next

(* Every step is a step of the store, or leaves the tables alone.             *)
LEMMA NextIsStep ==
    ASSUME Inv, [Next]_vars
    PROVE  [Store!Next]_db
<1>1. ASSUME NEW c \in Clients, Commit(c) PROVE Store!Next
    <2>1. Store!ImportMailboxes(req[c].file, req[c].strategy)
        BY <1>1, CommitIsImport
    <2>2. req[c].file \in Files /\ req[c].strategy \in Strategies
        BY <1>1, Finished DEF Transactions, Commit
    <2> QED
        BY <2>1, <2>2 DEF Store!Next
<1>2. ASSUME NEW a \in Addresses,
             \/ CreateMailbox(a) \/ UpsertCredential(a)
             \/ \E p \in Accounts, l \in Aliases \cup {None} : CreatePlatformAccount(p, a, l)
      PROVE  Store!Next
    BY <1>2, StatementIsStep
<1>3. ASSUME NEW c \in Clients,
             \/ Preview(c) \/ Begin(c) \/ Item(c) \/ Refuse(c) \/ Abort(c) \/ Fail(c)
             \/ Ensure(c) \/ InitializeCapabilities(c) \/ Schedule(c) \/ Reply(c)
      PROVE  UNCHANGED db
    BY <1>3 DEF Preview, Begin, Item, Refuse, Abort, Fail, Ensure, InitializeCapabilities, Schedule, Reply
<1>4. CASE Crash \/ (\E w \in Workers : Work(w)) \/ UNCHANGED vars
    BY <1>4 DEF Crash, Work, Take, Fetch, vars
<1> QED
    BY <1>1, <1>2, <1>3, <1>4 DEF Next, RequestStep

(* The transactions of PostgreSQL, with statements of others between their    *)
(* items, commits that fail, and crashes, implement the store that imports a  *)
(* file as one step.                                                          *)
THEOREM ImportsAreAtomic == Spec => StoreSpec
<1>1. Init => Inv /\ Store!Init
    BY InitInv DEF Init
<1>2. Inv /\ [Next]_vars => Inv'
    BY NextInv
<1>3. Inv /\ [Next]_vars => [Store!Next]_db
    BY NextIsStep
<1> QED
    BY <1>1, <1>2, <1>3, PTL DEF Spec, StoreSpec, Store!Spec

(* A platform account is routed through an alias of its own mailbox, whatever *)
(* imports and statements of others come in between.                          *)
THEOREM ImportsKeepRoutes == Spec => []RoutesStayInside
<1>1. Init => Inv
    BY InitInv
<1>2. Inv /\ [Next]_vars => Inv'
    BY NextInv
<1>3. Inv => RoutesStayInside
    BY StoreMeans DEF Inv, RoutesStayInside
<1> QED
    BY <1>1, <1>2, <1>3, PTL DEF Spec

(* What the preview of a file said is what its import does, for every file    *)
(* and every strategy, as long as nobody has written in between.              *)
THEOREM PreviewsAreKept == Spec => []PreviewAgrees
<1>1. Init => Inv
    BY InitInv
<1>2. Inv /\ [Next]_vars => Inv'
    BY NextInv
<1>3. Inv => PreviewAgrees
    <2> SUFFICES ASSUME Inv, NEW c \in Clients, req[c].at \in {"keys", "refused"}, req[c].current,
                        req[c].done.failed # "key"
                 PROVE  LET plan == req[c].plan done == req[c].done
                        IN  IF req[c].strategy = "error" /\ plan.conflicts > 0
                              THEN done.failed = "mailbox"
                              ELSE /\ done.failed = "no" /\ done.created = plan.new
                                   /\ (IF req[c].strategy = "update" THEN done.updated ELSE done.skipped)
                                        = plan.conflicts
        BY DEF PreviewAgrees
    <2>1. Agrees(req[c].plan, req[c].done, req[c].strategy)
        BY DEF Inv, RequestOK
    <2> QED
        BY <2>1 DEF Agrees
<1> QED
    BY <1>1, <1>2, <1>3, PTL DEF Spec

-----------------------------------------------------------------------------
(* The work after a commit.                                                   *)

(* A row that exists goes on existing, through items and whole imports; the   *)
(* mailboxes an import names have a row when it ends.                         *)
LEMMA ItemBoxes ==
    ASSUME NEW st \in States, NEW item \in Items, NEW strategy \in Strategies,
           NEW next, next = Store!ImportItem(st, item, strategy)
    PROVE  /\ \A r \in Rows : Has(st.db, r) => Has(next.db, r)
           /\ \A a \in Addresses : a \in Range(next.ids) => a \in Range(st.ids) \/ Has(next.db, Mailbox(a))
<1> DEFINE a == item.box
           T == Touched(st.db, item)
           written == WrittenAt(st.db, T, a)
<1>1. st.db \in Tables /\ st.ids \in Seq(Addresses) /\ a \in Addresses /\ T \in SUBSET Rows /\ Mailbox(a) \in T
    BY ItemRows DEF States, Touched
<1>2. CASE st.failed # "no"
    <2>1. next = st
        BY <1>2 DEF Store!ImportItem
    <2> QED
        BY <2>1
<1>3. CASE st.failed = "no" /\ Refuses(st, item, strategy)
    <2>1. strategy \in {"skip", "update", "error"}
        BY StoreAssumption
    <2>2. next.db = st.db /\ next.ids = st.ids
        BY <1>3, <2>1, ImportItemIs DEF Refuses
    <2> QED
        BY <2>2
<1>4. CASE st.failed = "no" /\ ~Refuses(st, item, strategy)
    <2>1. next.db = written /\ next.ids = IF Contains(st.ids, a) THEN st.ids ELSE Append(st.ids, a)
        BY <1>4, ImportItemIs
    <2> HIDE DEF T, a
    <2>2. \A r \in Rows : Has(written, r) <=> r \in T \/ Has(st.db, r)
        BY <1>1, WrittenRows
    <2>3. \A r \in Rows : Has(st.db, r) => Has(next.db, r)
        BY <2>1, <2>2
    <2>4. Has(next.db, Mailbox(a))
        BY <1>1, <2>1, <2>2
    <2>5. Range(next.ids) \subseteq Range(st.ids) \cup {a}
        <3> DEFINE ids == st.ids
        <3>1. ids \in Seq(Addresses) /\ next.ids = IF Contains(ids, a) THEN ids ELSE Append(ids, a)
            BY <1>1, <2>1
        <3> HIDE DEF ids
        <3>2. Range(Append(ids, a)) \subseteq Range(ids) \cup {a}
            BY <1>1, <3>1 DEF Range
        <3> QED
            BY <3>1, <3>2 DEF ids
    <2> QED
        BY <2>3, <2>4, <2>5
<1> QED
    BY <1>2, <1>3, <1>4

LEMMA ImportsBoxes ==
    ASSUME NEW d \in Tables, NEW file \in Seq(Items), NEW strategy \in Strategies
    PROVE  \A k \in 0..Len(file) :
              /\ \A r \in Rows : Has(d, r) => Has(Store!Imports(d, file, strategy)[k].db, r)
              /\ \A a \in Addresses : a \in Range(Store!Imports(d, file, strategy)[k].ids) =>
                                        Has(Store!Imports(d, file, strategy)[k].db, Mailbox(a))
<1> DEFINE st == Store!Imports(d, file, strategy)
           n == Len(file)
           Boxes(s) == /\ \A r \in Rows : Has(d, r) => Has(s.db, r)
                       /\ \A a \in Addresses : a \in Range(s.ids) => Has(s.db, Mailbox(a))
           Good == {k \in 0..n : Boxes(st[k])}
<1>1. st[0] = Store!NewImport(d) /\ \A i \in 1..n : st[i] = Store!ImportItem(st[i - 1], file[i], strategy)
    BY ImportsEquation
<1>2. n \in Nat /\ \A i \in 1..n : file[i] \in Items
    OBVIOUS
<1>3. \A k \in 0..n : st[k] \in States
    BY ImportsType
<1> HIDE DEF st, n
<1>4. 0 \in Good
    <2>1. st[0].db = d /\ st[0].ids = <<>>
        BY <1>1 DEF Store!NewImport
    <2>2. Range(<<>>) = {}
        BY DEF Range
    <2> QED
        BY <1>2, <2>1, <2>2
<1>5. \A k \in 0..n : k \in Good /\ k < n => k + 1 \in Good
    <2> SUFFICES ASSUME NEW k \in 0..n, k < n, Boxes(st[k]) PROVE k + 1 \in Good
        OBVIOUS
    <2> DEFINE s == st[k]  t == st[k + 1]  item == file[k + 1]
    <2>1. /\ k + 1 \in 0..n /\ t = Store!ImportItem(s, item, strategy) /\ item \in Items
          /\ s \in States
        BY <1>1, <1>2, <1>3
    <2>2. Boxes(s)
        OBVIOUS
    <2> HIDE DEF s, t, item
    <2>3. /\ \A r \in Rows : Has(s.db, r) => Has(t.db, r)
          /\ \A a \in Addresses : a \in Range(t.ids) => a \in Range(s.ids) \/ Has(t.db, Mailbox(a))
        BY <2>1, ItemBoxes
    <2>4. Boxes(t)
        BY <2>2, <2>3, RowMembers
    <2> QED
        BY <2>1, <2>4 DEF t
<1>6. \A k \in 0..n : k \in Good
    <2> HIDE DEF Good
    <2> QED
        BY <1>2, <1>4, <1>5, UpTo
<1> QED
    BY <1>6 DEF st, n

(* A mailbox keeps its row in every step.                                     *)
LEMMA RowsStay ==
    ASSUME Inv, [Next]_vars, NEW a \in Addresses, Has(db, Mailbox(a))
    PROVE  Has(db', Mailbox(a))
<1>0. db \in Tables /\ Mailbox(a) \in Rows
    BY RowMembers DEF Inv, StoreInv, Typed
<1>1. ASSUME NEW r \in Rows, NEW o, NEW l, db' = Put(db, r, o, l) PROVE Has(db', Mailbox(a))
    <2> DEFINE e == Put(db, r, o, l)  q == Mailbox(a)
    <2>1. db[q].version \in Nat /\ db[q].version > 0
        BY <1>0 DEF Tables, RowValues, Has
    <2>2. e[q] = IF q = r THEN [owner |-> o, via |-> l, version |-> db[q].version + 1] ELSE db[q]
        BY <1>0 DEF Put, Tables
    <2> HIDE DEF e, q
    <2>3. e[q].version = db[q].version + 1 \/ e[q].version = db[q].version
        BY <2>2
    <2>4. e[q].version > 0
        BY <2>1, <2>3
    <2> QED
        BY <1>1, <2>4 DEF Has, e, q
<1>2. ASSUME NEW c \in Clients, Commit(c) PROVE Has(db', Mailbox(a))
    <2> DEFINE file == req[c].file  strategy == req[c].strategy  st == Store!Imports(db, file, strategy)[Len(file)]
    <2>1. file \in Seq(Items) /\ strategy \in Strategies /\ db' = st.db
        BY <1>2, CommitWrites
    <2> HIDE DEF file, strategy
    <2>2. Len(file) \in 0..Len(file)
        BY <2>1
    <2>3. \A r \in Rows : Has(db, r) => Has(st.db, r)
        BY <1>0, <2>1, <2>2, ImportsBoxes
    <2> HIDE DEF st
    <2> QED
        BY <1>0, <2>1, <2>3
<1>3. ASSUME NEW b \in Addresses, CreateMailbox(b) \/ UpsertCredential(b) PROVE Has(db', Mailbox(a))
    <2>1. \E r \in Rows : db' = Upsert(db, r, b)
        BY <1>3, RowMembers DEF CreateMailbox, UpsertCredential, OneStatement
    <2>2. \A r \in Rows : Upsert(db, r, b) = Put(db, r, b, None)
        BY <1>0, PutOne
    <2> QED
        BY <1>1, <2>1, <2>2
<1>4. ASSUME NEW b \in Addresses, NEW p \in Accounts, NEW l \in Aliases \cup {None}, CreatePlatformAccount(p, b, l)
      PROVE  Has(db', Mailbox(a))
    <2>1. db' = [db EXCEPT ![Account(p)] = [owner |-> b, via |-> l, version |-> 1]]
        BY <1>4 DEF CreatePlatformAccount, OneStatement
    <2>2. db'[Mailbox(a)] = db[Mailbox(a)]
        BY <1>0, <2>1, RowsDiffer DEF Tables
    <2> QED
        BY <2>2 DEF Has
<1>5. CASE UNCHANGED db
    BY <1>5
<1> QED
    BY <1>2, <1>3, <1>4, <1>5
    DEF Next, RequestStep, Preview, Begin, Item, Refuse, Abort, Fail, Ensure, InitializeCapabilities, Schedule,
        Reply, Work, Take, Fetch, Crash, vars

(* A request R on its way from the commit to its answer, when K have keys and *)
(* P capability rows: every mailbox it imported has its row; behind the stage *)
(* of the keys each has its key, behind the next its capability rows.         *)
Following == {"keys", "capabilities", "schedule"}
Followed(r, d, K, P) ==
    /\ r.at \in Following => \A a \in Addresses : a \in Range(r.done.ids) => Has(d, Mailbox(a))
    /\ r.at = "keys" => \A a \in Range(r.done.ids) : a \in K \/ a \in Range(r.todo)
    /\ r.at \in {"capabilities", "schedule"} => Range(r.done.ids) \subseteq K
    /\ r.at = "schedule" => Range(r.done.ids) \subseteq P /\ Range(r.todo) \subseteq Range(r.done.ids)
FollowInv == \A c \in Clients : Followed(req[c], db, keyed, capable)

(* A mailbox that can be synchronised: this is why the queue comes last.      *)
Ready(a, d, K, P) == Has(d, Mailbox(a)) /\ a \in K /\ a \in P
QueueInv ==
    /\ queue \in Seq(Addresses) /\ Len(queue) <= QueueBound
    /\ job \in [Workers -> Addresses \cup {None}]
    /\ tried \subseteq Addresses
    /\ \A a \in Addresses :
          a \in Range(queue) \/ a \in tried \/ (\E w \in Workers : job[w] = a) => Ready(a, db, keyed, capable)
BoundsInv ==
    /\ {errors, crashes, writes, requests} \subseteq Nat
    /\ errors + crashes + writes <= MaxEvents /\ requests <= MaxRequests

(* The first of a list and the rest, and one more at its end.                 *)
LEMMA RangeParts ==
    ASSUME NEW s \in Seq(Addresses)
    PROVE  /\ Range(s) \subseteq Addresses
           /\ s # <<>> => /\ Head(s) \in Addresses /\ Tail(s) \in Seq(Addresses) /\ Len(Tail(s)) = Len(s) - 1
                          /\ Range(s) = {Head(s)} \cup Range(Tail(s))
           /\ \A a \in Addresses : /\ Append(s, a) \in Seq(Addresses) /\ Len(Append(s, a)) = Len(s) + 1
                                    /\ Range(Append(s, a)) = Range(s) \cup {a}
<1>1. Range(s) \subseteq Addresses
    BY DEF Range
<1>2. ASSUME s # <<>>
      PROVE  /\ Head(s) \in Addresses /\ Tail(s) \in Seq(Addresses) /\ Len(Tail(s)) = Len(s) - 1
             /\ Range(s) = {Head(s)} \cup Range(Tail(s))
    <2>1. Head(s) \in Addresses /\ Tail(s) \in Seq(Addresses) /\ Len(Tail(s)) = Len(s) - 1
        BY <1>2
    <2> DEFINE n == Len(s)  t == Tail(s)
    <2>2. n \in Nat /\ n > 0 /\ DOMAIN s = 1..n /\ DOMAIN t = 1..(n - 1) /\ s[1] = Head(s)
          /\ \A i \in 1..(n - 1) : t[i] = s[i + 1]
        BY <1>2
    <2> HIDE DEF n, t
    <2>3. \A i \in 1..n : i = 1 \/ (i - 1 \in 1..(n - 1) /\ s[i] = t[i - 1])
        BY <2>2
    <2>4. \A i \in 1..(n - 1) : i + 1 \in 1..n /\ t[i] = s[i + 1]
        BY <2>2
    <2>5. Range(s) = {Head(s)} \cup Range(t)
        BY <2>2, <2>3, <2>4 DEF Range
    <2> QED
        BY <2>1, <2>5 DEF t
<1>3. ASSUME NEW a \in Addresses
      PROVE  /\ Append(s, a) \in Seq(Addresses) /\ Len(Append(s, a)) = Len(s) + 1
             /\ Range(Append(s, a)) = Range(s) \cup {a}
    <2> DEFINE n == Len(s)  t == Append(s, a)
    <2>1. n \in Nat /\ DOMAIN s = 1..n /\ DOMAIN t = 1..(n + 1) /\ t[n + 1] = a /\ \A i \in 1..n : t[i] = s[i]
        OBVIOUS
    <2> HIDE DEF n, t
    <2>2. \A i \in 1..(n + 1) : i = n + 1 \/ i \in 1..n
        BY <2>1
    <2>3. n + 1 \in 1..(n + 1) /\ \A i \in 1..n : i \in 1..(n + 1)
        BY <2>1
    <2>4. Range(t) = Range(s) \cup {a}
        BY <2>1, <2>2, <2>3 DEF Range
    <2> QED
        BY <2>4 DEF t
<1> QED
    BY <1>1, <1>2, <1>3

(* A request goes on as it was when others write, seal or finish more.        *)
LEMMA FollowStays ==
    ASSUME NEW r, NEW d, NEW K, NEW P, Followed(r, d, K, P),
           NEW e, NEW L, NEW Q, K \subseteq L, P \subseteq Q,
           \A a \in Addresses : Has(d, Mailbox(a)) => Has(e, Mailbox(a))
    PROVE  Followed(r, e, L, Q)
BY DEF Followed

LEMMA FollowAll ==
    ASSUME Inv, FollowInv, [Next]_vars, keyed \subseteq keyed', capable \subseteq capable',
           \A b \in Clients : \/ req'[b] = req[b]
                              \/ req'[b].at \notin Following
                              \/ Followed(req'[b], db', keyed', capable')
    PROVE  FollowInv'
<1>1. ASSUME NEW b \in Clients PROVE Followed(req'[b], db', keyed', capable')
    <2>1. CASE req'[b] = req[b]
        <3> DEFINE r == req[b]  e == db'  L == keyed'  Q == capable'
        <3>1. Followed(r, db, keyed, capable) /\ keyed \subseteq L /\ capable \subseteq Q
            BY DEF FollowInv
        <3>2. \A a \in Addresses : Has(db, Mailbox(a)) => Has(e, Mailbox(a))
            BY RowsStay
        <3>3. req'[b] = r
            BY <2>1
        <3> HIDE DEF r, e, L, Q
        <3>4. Followed(r, e, L, Q)
            BY <3>1, <3>2, FollowStays
        <3> QED
            BY <3>3, <3>4 DEF e, L, Q
    <2>2. CASE req'[b].at \notin Following
        BY <2>2 DEF Followed, Following
    <2> QED
        BY <2>1, <2>2
<1> QED
    BY <1>1 DEF FollowInv

(* A write of the tables leaves the requests behind their commit alone.       *)
LEMMA OutdatedFollow ==
    ASSUME Inv, NEW c, NEW b \in Clients
    PROVE  Outdated(c)[b] = req[b] \/ Outdated(c)[b].at \notin Following
<1> DEFINE r == req[b]
<1>1. r \in Requests
    BY DEF Inv
<1>2. CASE b # c /\ r.at \in {"previewed", "tx", "failed"}
    <2>1. Outdated(c)[b] = [r EXCEPT !.current = FALSE]
        BY <1>2 DEF Outdated
    <2> HIDE DEF r
    <2>2. [r EXCEPT !.current = FALSE].at = r.at
        BY <1>1, <1>2, Spoiled
    <2> QED
        BY <1>2, <2>1, <2>2 DEF Following
<1>3. CASE ~(b # c /\ r.at \in {"previewed", "tx", "failed"})
    BY <1>3 DEF Outdated
<1> QED
    BY <1>2, <1>3

(* What was committed: its mailboxes have rows, and wait for their keys.      *)
LEMMA CommitFollows ==
    ASSUME Inv, FollowInv, [Next]_vars, NEW c \in Clients, Commit(c)
    PROVE  FollowInv'
<1> DEFINE file == req[c].file
           strategy == req[c].strategy
           st == Store!Imports(db, file, strategy)[Len(file)]
           ids == req[c].work.ids
           r == After(c, "keys")
<1>1. file \in Seq(Items) /\ strategy \in Strategies /\ db' = st.db /\ ids = st.ids
    BY CommitWrites
<1>2. db \in Tables
    BY DEF Inv, StoreInv, Typed
<1>3. req' = [Outdated(c) EXCEPT ![c] = r] /\ UNCHANGED <<keyed, capable>>
    BY DEF Commit
<1>4. req[c] \in Transactions
    BY Finished DEF Commit
<1>5. r.at = "keys" /\ r.todo = ids /\ r.done.ids = ids
    <2>1. "ids" \in DOMAIN req[c].work \ {"db"}
        BY <1>4 DEF Transactions, States
    <2> QED
        BY <2>1 DEF After
<1> HIDE DEF file, strategy, ids, r
<1>6. \A a \in Addresses : a \in Range(ids) => Has(db', Mailbox(a))
    <2>1. Len(file) \in 0..Len(file)
        BY <1>1
    <2>2. \A a \in Addresses : a \in Range(st.ids) => Has(st.db, Mailbox(a))
        BY <1>1, <1>2, <2>1, ImportsBoxes
    <2> HIDE DEF st
    <2> QED
        BY <1>1, <2>2
<1>7. \A d, K, P : (\A a \in Addresses : a \in Range(ids) => Has(d, Mailbox(a))) => Followed(r, d, K, P)
    BY <1>5 DEF Followed
<1>8. Followed(r, db', keyed', capable')
    BY <1>6, <1>7
<1>9. \A b \in Clients : req'[b] = IF b = c THEN r ELSE Outdated(c)[b]
    BY <1>3 DEF Outdated
<1>10. \A b \in Clients : \/ req'[b] = req[b] \/ req'[b].at \notin Following
                          \/ Followed(req'[b], db', keyed', capable')
    BY <1>8, <1>9, OutdatedFollow
<1> QED
    BY <1>3, <1>10, FollowAll

(* The steps outside the work after a commit.                                 *)
LEMMA OthersFollow ==
    ASSUME Inv, FollowInv, [Next]_vars,
           \/ \E c \in Clients : \/ Preview(c) \/ Begin(c) \/ Item(c) \/ Refuse(c) \/ Abort(c) \/ Fail(c) \/ Reply(c)
           \/ req' = Outdated(None) /\ UNCHANGED <<keyed, capable>>
           \/ UNCHANGED <<req, keyed, capable>>
    PROVE  FollowInv'
<1>1. CASE UNCHANGED <<req, keyed, capable>>
    BY <1>1, FollowAll
<1>2. CASE req' = Outdated(None) /\ UNCHANGED <<keyed, capable>>
    BY <1>2, OutdatedFollow, FollowAll
<1>3. ASSUME NEW c \in Clients,
             \/ Preview(c) \/ Begin(c) \/ Item(c) \/ Refuse(c) \/ Abort(c) \/ Fail(c) \/ Reply(c)
      PROVE  FollowInv'
    <2>1. req \in [Clients -> Requests] /\ UNCHANGED <<keyed, capable>>
        BY <1>3 DEF Inv, Preview, Begin, Item, Refuse, Abort, Fail, Reply
    <2>2. \A b \in Clients \ {c} : req'[b] = req[b]
        <3>1. CASE Preview(c) \/ Begin(c)
            BY <2>1, <3>1 DEF Preview, Begin
        <3>2. CASE Item(c)
            BY <2>1, <3>2 DEF Item
        <3>3. CASE Refuse(c) \/ Reply(c)
            BY <2>1, <3>3 DEF Refuse, Reply
        <3>4. CASE Abort(c) \/ Fail(c)
            BY <2>1, <3>4 DEF Abort, Fail
        <3> QED
            BY <1>3, <3>1, <3>2, <3>3, <3>4
    <2>3. req'[c].at \notin Following
        <3>1. CASE Preview(c) \/ Begin(c)
            BY <2>1, <3>1 DEF Preview, Begin, Following
        <3>2. CASE Item(c)
            <4> DEFINE old == req[c]
                       work == Step(old.work, Head(old.rest), old.strategy)
            <4>1. old \in Transactions /\ old.at = "tx"
                BY <2>1, <3>2, RequestShape DEF Item, At
            <4>2. req'[c] = [[old EXCEPT !.work = work] EXCEPT !.rest = Tail(old.rest)]
                BY <2>1, <3>2 DEF Item
            <4> HIDE DEF old, work
            <4>3. req'[c].at = old.at
                BY <4>1, <4>2 DEF Transactions
            <4> QED
                BY <4>1, <4>3 DEF Following
        <3>3. CASE Refuse(c)
            <4>1. req'[c] = After(c, "refused")
                BY <2>1, <3>3 DEF Refuse
            <4> QED
                BY <4>1 DEF After, Following
        <3>4. CASE Abort(c) \/ Fail(c)
            <4> DEFINE old == req[c]
            <4>1. old \in Requests /\ old.at # "idle" /\ req'[c] = [old EXCEPT !.at = "failed", !.current = FALSE]
                BY <2>1, <3>4 DEF Abort, Fail, At
            <4> HIDE DEF old
            <4> QED
                BY <4>1, Spoiled DEF Following
        <3>5. CASE Reply(c)
            BY <2>1, <3>5 DEF Reply, NoRequest, Following
        <3> QED
            BY <1>3, <3>1, <3>2, <3>3, <3>4, <3>5
    <2> QED
        BY <2>1, <2>2, <2>3, FollowAll
<1> QED
    BY <1>1, <1>2, <1>3

(* The steps after a commit: a key for every mailbox it imported, then its    *)
(* capability rows, and then its place in the queue.                          *)
LEMMA EnsureFollows ==
    ASSUME Inv, FollowInv, [Next]_vars, NEW c \in Clients, Ensure(c)
    PROVE  FollowInv'
<1> DEFINE old == req[c]
<1>1. /\ old.at = "keys" /\ UNCHANGED <<db, capable>>
      /\ Followed(old, db, keyed, capable) /\ req \in [Clients -> Requests]
    BY DEF FollowInv, Inv, Ensure, At
<1>2. old \in FollowUps
    BY <1>1, RequestShape
<1>3. old.todo \in Seq(Addresses) /\ old.done \in Results /\ old.done.ids \in Seq(Addresses)
    BY <1>2 DEF FollowUps, Results
<1>4. \E r : /\ req' = [req EXCEPT ![c] = r] /\ keyed \subseteq keyed'
             /\ Followed(r, db, keyed', capable)
    <2>1. CASE old.todo = <<>>
        <3> DEFINE r == [old EXCEPT !.at = "capabilities"]
        <3>1. req' = [req EXCEPT ![c] = r] /\ keyed' = keyed
            BY <2>1 DEF Ensure
        <3>2. Range(old.todo) = {}
            BY <2>1 DEF Range
        <3> HIDE DEF old
        <3>3. r.at = "capabilities" /\ r.done = old.done
            BY <1>2 DEF FollowUps
        <3> HIDE DEF r
        <3>4. Followed(r, db, keyed, capable)
            BY <1>1, <3>2, <3>3 DEF Followed, Following
        <3>5. Followed(r, db, keyed', capable)
            BY <3>1, <3>4
        <3> QED
            BY <3>1, <3>5
    <2>2. CASE old.todo # <<>>
        <3> DEFINE list == Tail(old.todo)
                   L == keyed \cup {Head(old.todo)}
                   r == [old EXCEPT !.todo = list]
        <3>1. req' = [req EXCEPT ![c] = r] /\ keyed' = L /\ keyed \subseteq L
            BY <2>2 DEF Ensure
        <3> HIDE DEF old
        <3>2. list \in Seq(Addresses) /\ Range(old.todo) = {Head(old.todo)} \cup Range(list)
            BY <1>3, <2>2, RangeParts
        <3>3. \A a : a \in keyed \/ a \in Range(old.todo) => a \in L \/ a \in Range(list)
            BY <3>2
        <3> HIDE DEF list, L
        <3>4. r.at = old.at /\ r.done = old.done /\ r.todo = list
            BY <1>2 DEF FollowUps
        <3> HIDE DEF r
        <3>5. Followed(r, db, L, capable)
            BY <1>1, <3>3, <3>4 DEF Followed, Following
        <3>6. Followed(r, db, keyed', capable)
            BY <3>1, <3>5
        <3> QED
            BY <3>1, <3>6
    <2> QED
        BY <2>1, <2>2
<1>5. PICK r : /\ req' = [req EXCEPT ![c] = r] /\ keyed \subseteq keyed'
               /\ Followed(r, db, keyed', capable)
    BY <1>4
<1>6. \A b \in Clients : req'[b] = IF b = c THEN r ELSE req[b]
    BY <1>1, <1>5
<1>7. Followed(r, db', keyed', capable')
    BY <1>1, <1>5
<1>8. \A b \in Clients : req'[b] = req[b] \/ Followed(req'[b], db', keyed', capable')
    BY <1>6, <1>7
<1> QED
    BY <1>1, <1>5, <1>8, FollowAll

LEMMA CapabilitiesFollow ==
    ASSUME Inv, FollowInv, [Next]_vars, NEW c \in Clients, InitializeCapabilities(c)
    PROVE  FollowInv'
<1> DEFINE old == req[c]
           ids == old.done.ids
           r == [[old EXCEPT !.at = "schedule"] EXCEPT !.todo = ids]
           Q == capable \cup Range(ids)
<1>1. /\ old.at = "capabilities" /\ UNCHANGED <<db, keyed>> /\ capable' = Q
      /\ Followed(old, db, keyed, capable) /\ req \in [Clients -> Requests]
      /\ req' = [req EXCEPT ![c] = r]
    BY DEF FollowInv, Inv, InitializeCapabilities, At
<1>2. old \in FollowUps
    BY <1>1, RequestShape
<1> HIDE DEF old
<1>3. r.at = "schedule" /\ r.done.ids = ids /\ r.todo = ids
    BY <1>2 DEF FollowUps
<1> HIDE DEF r
<1>4. Followed(r, db, keyed, Q)
    BY <1>1, <1>3 DEF Followed, Following
<1> HIDE DEF ids
<1>5. Followed(r, db', keyed', capable')
    BY <1>1, <1>4
<1>6. \A b \in Clients : req'[b] = req[b] \/ Followed(req'[b], db', keyed', capable')
    BY <1>1, <1>5
<1>7. keyed \subseteq keyed' /\ capable \subseteq capable'
    BY <1>1
<1> QED
    BY <1>6, <1>7, FollowAll

(* The next mailbox of a request that is scheduled can be synchronised.       *)
LEMMA ScheduleTakes ==
    ASSUME Inv, FollowInv, NEW c \in Clients, Schedule(c)
    PROVE  /\ Head(req[c].todo) \in Addresses /\ Ready(Head(req[c].todo), db, keyed, capable)
           /\ UNCHANGED <<db, keyed, capable>>
           /\ \E r : req' = [req EXCEPT ![c] = r] /\ Followed(r, db, keyed, capable)
<1> DEFINE old == req[c]
           a == Head(old.todo)
           list == Tail(old.todo)
           r == [old EXCEPT !.todo = list]
<1>1. /\ old.at = "schedule" /\ old.todo # <<>> /\ UNCHANGED <<db, keyed, capable>>
      /\ Followed(old, db, keyed, capable) /\ req \in [Clients -> Requests]
      /\ req' = [req EXCEPT ![c] = r]
    BY DEF FollowInv, Inv, Schedule, At
<1>2. old \in FollowUps
    BY <1>1, RequestShape
<1>3. old.todo \in Seq(Addresses)
    BY <1>2 DEF FollowUps
<1> HIDE DEF old
<1>4. /\ a \in Addresses /\ list \in Seq(Addresses)
      /\ Range(old.todo) = {a} \cup Range(list)
    BY <1>1, <1>3, RangeParts
<1> HIDE DEF a, list
<1>5. r.at = old.at /\ r.done = old.done /\ r.todo = list
    BY <1>2 DEF FollowUps
<1> HIDE DEF r
<1>6. Followed(r, db, keyed, capable)
    BY <1>1, <1>4, <1>5 DEF Followed, Following
<1>7. Ready(a, db, keyed, capable)
    BY <1>1, <1>4 DEF Followed, Following, Ready
<1>8. a \in Addresses /\ Ready(a, db, keyed, capable) /\ UNCHANGED <<db, keyed, capable>>
    BY <1>1, <1>4, <1>7
<1>9. \E s : req' = [req EXCEPT ![c] = s] /\ Followed(s, db, keyed, capable)
    BY <1>1, <1>6
<1> QED
    BY <1>8, <1>9 DEF a, old

LEMMA ScheduleFollows ==
    ASSUME Inv, FollowInv, [Next]_vars, NEW c \in Clients, Schedule(c)
    PROVE  FollowInv'
<1>1. PICK r : req' = [req EXCEPT ![c] = r] /\ Followed(r, db, keyed, capable)
    BY ScheduleTakes
<1>2. UNCHANGED <<db, keyed, capable>> /\ req \in [Clients -> Requests]
    BY DEF Schedule, Inv
<1>3. Followed(r, db', keyed', capable')
    BY <1>1, <1>2
<1>4. \A b \in Clients : req'[b] = req[b] \/ Followed(req'[b], db', keyed', capable')
    BY <1>1, <1>2, <1>3
<1> QED
    BY <1>2, <1>4, FollowAll

(* A crash ends every request; its start seals every mailbox that has a row.  *)
LEMMA CrashFollows ==
    ASSUME Crash
    PROVE  FollowInv'
<1>1. \A c \in Clients : req'[c].at \notin Following
    BY DEF Crash, At, NoRequest, Following
<1>2. \A c \in Clients : Followed(req'[c], db', keyed', capable')
    BY <1>1 DEF Followed, Following
<1> QED
    BY <1>2 DEF FollowInv

LEMMA FollowStep ==
    ASSUME Inv, FollowInv, [Next]_vars
    PROVE  FollowInv'
<1>1. ASSUME NEW c \in Clients, RequestStep(c) PROVE FollowInv'
    BY <1>1, CommitFollows, EnsureFollows, CapabilitiesFollow, ScheduleFollows, OthersFollow DEF RequestStep
<1>2. ASSUME NEW c \in Clients, Preview(c) \/ Fail(c) PROVE FollowInv'
    BY <1>2, OthersFollow
<1>3. ASSUME NEW a \in Addresses,
             \/ CreateMailbox(a) \/ UpsertCredential(a)
             \/ \E p \in Accounts, l \in Aliases \cup {None} : CreatePlatformAccount(p, a, l)
      PROVE  FollowInv'
    <2>1. req' = Outdated(None) /\ UNCHANGED <<keyed, capable>>
        BY <1>3 DEF CreateMailbox, UpsertCredential, CreatePlatformAccount, OneStatement
    <2> QED
        BY <2>1, OthersFollow
<1>4. ASSUME (\E w \in Workers : Work(w)) \/ UNCHANGED vars PROVE FollowInv'
    <2>1. UNCHANGED <<req, keyed, capable>>
        BY <1>4 DEF Work, Take, Fetch, vars
    <2> QED
        BY <2>1, OthersFollow
<1>5. ASSUME Crash PROVE FollowInv'
    BY <1>5, CrashFollows
<1> QED
    BY <1>1, <1>2, <1>3, <1>4, <1>5 DEF Next

-----------------------------------------------------------------------------
(* The queue of the initial synchronisation.                                  *)
LEMMA ReadyStays ==
    ASSUME Inv, [Next]_vars, NEW a \in Addresses, Ready(a, db, keyed, capable)
    PROVE  Ready(a, db', keyed', capable')
<1>1. Has(db, Mailbox(a)) /\ a \in keyed /\ a \in capable
    BY DEF Ready
<1>2. Has(db', Mailbox(a))
    BY <1>1, RowsStay
<1>3. a \in keyed' /\ a \in capable'
    BY <1>1 DEF Next, RequestStep, Preview, Begin, Item, Commit, Refuse, Abort, Fail, Ensure, InitializeCapabilities,
                Schedule, Reply, Work, Take, Fetch, CreateMailbox, UpsertCredential, CreatePlatformAccount,
                OneStatement, Crash, vars
<1> QED
    BY <1>2, <1>3 DEF Ready

(* The mailboxes that wait for the workers, are with one, or were tried.      *)
Queued(q, j, t) == {a \in Addresses : a \in Range(q) \/ a \in t \/ \E w \in Workers : j[w] = a}

LEMMA QueueAll ==
    ASSUME Inv, QueueInv, [Next]_vars,
           queue' \in Seq(Addresses), Len(queue') <= QueueBound,
           job' \in [Workers -> Addresses \cup {None}], tried' \subseteq Addresses,
           \A a \in Queued(queue', job', tried') : a \in Queued(queue, job, tried) \/ Ready(a, db, keyed, capable)
    PROVE  QueueInv'
<1>1. \A a \in Queued(queue, job, tried) : Ready(a, db, keyed, capable)
    BY DEF QueueInv, Queued
<1>2. \A a \in Addresses : a \in Queued(queue', job', tried') => Ready(a, db', keyed', capable')
    BY <1>1, ReadyStays
<1>3. \A a \in Addresses :
          a \in Range(queue') \/ a \in tried' \/ (\E w \in Workers : job'[w] = a) => Ready(a, db', keyed', capable')
    BY <1>2 DEF Queued
<1> QED
    BY <1>3 DEF QueueInv

LEMMA QueueStep ==
    ASSUME Inv, FollowInv, QueueInv, [Next]_vars
    PROVE  QueueInv'
<1>0. /\ queue \in Seq(Addresses) /\ Len(queue) <= QueueBound
      /\ job \in [Workers -> Addresses \cup {None}] /\ tried \subseteq Addresses
    BY DEF QueueInv
<1>1. ASSUME NEW c \in Clients, Schedule(c) PROVE QueueInv'
    <2> DEFINE a == Head(req[c].todo)
    <2>1. a \in Addresses /\ Ready(a, db, keyed, capable)
        BY <1>1, ScheduleTakes
    <2>2. Len(queue) < QueueBound /\ queue' = Append(queue, a) /\ UNCHANGED <<job, tried>>
        BY <1>1 DEF Schedule
    <2> HIDE DEF a
    <2>3. queue' \in Seq(Addresses) /\ Len(queue') = Len(queue) + 1 /\ Range(queue') = Range(queue) \cup {a}
        BY <1>0, <2>1, <2>2, RangeParts
    <2>4. Len(queue') <= QueueBound
        BY <1>0, <2>2, <2>3, ImportAssumption
    <2>5. \A b \in Queued(queue', job', tried') : b \in Queued(queue, job, tried) \/ Ready(b, db, keyed, capable)
        BY <2>1, <2>2, <2>3 DEF Queued
    <2> QED
        BY <1>0, <2>2, <2>3, <2>4, <2>5, QueueAll
<1>2. ASSUME NEW w \in Workers, Take(w) PROVE QueueInv'
    <2>1. queue # <<>> /\ job' = [job EXCEPT ![w] = Head(queue)] /\ queue' = Tail(queue) /\ UNCHANGED tried
        BY <1>2 DEF Take
    <2>2. /\ Head(queue) \in Addresses /\ queue' \in Seq(Addresses) /\ Len(queue') = Len(queue) - 1
          /\ Range(queue) = {Head(queue)} \cup Range(queue')
        BY <1>0, <2>1, RangeParts
    <2>3. Len(queue') <= QueueBound /\ job' \in [Workers -> Addresses \cup {None}]
        <3>1. Len(queue) \in Nat
            BY <1>0
        <3> QED
            BY <1>0, <2>1, <2>2, <3>1, ImportAssumption
    <2>4. \A b \in Queued(queue', job', tried') : b \in Queued(queue, job, tried)
        <3>1. \A v \in Workers : job'[v] = Head(queue) \/ job'[v] = job[v]
            BY <1>0, <2>1
        <3> QED
            BY <2>1, <2>2, <3>1 DEF Queued
    <2> QED
        BY <1>0, <2>1, <2>2, <2>3, <2>4, QueueAll
<1>3. ASSUME NEW w \in Workers, Fetch(w) PROVE QueueInv'
    <2>1. job[w] # None /\ job' = [job EXCEPT ![w] = None] /\ tried' = tried \cup {job[w]} /\ UNCHANGED queue
        BY <1>3 DEF Fetch
    <2>2. job[w] \in Addresses /\ job' \in [Workers -> Addresses \cup {None}] /\ tried' \subseteq Addresses
        BY <1>0, <2>1
    <2>3. \A b \in Queued(queue', job', tried') : b \in Queued(queue, job, tried)
        <3>1. \A v \in Workers : job'[v] = None \/ job'[v] = job[v]
            BY <1>0, <2>1
        <3> QED
            BY <2>1, <3>1, NamesAssumption DEF Queued
    <2> QED
        BY <1>0, <2>1, <2>2, <2>3, QueueAll
<1>4. ASSUME Crash PROVE QueueInv'
    <2>1. queue' = <<>> /\ job' = [w \in Workers |-> None] /\ UNCHANGED tried
        BY <1>4 DEF Crash
    <2>2. queue' \in Seq(Addresses) /\ Len(queue') <= QueueBound /\ Range(queue') = {}
        BY <2>1, ImportAssumption DEF Range
    <2>3. job' \in [Workers -> Addresses \cup {None}] /\ \A w \in Workers : job'[w] = None
        BY <2>1
    <2>4. \A b \in Queued(queue', job', tried') : b \in Queued(queue, job, tried)
        BY <2>1, <2>2, <2>3, NamesAssumption DEF Queued
    <2> QED
        BY <1>0, <2>1, <2>2, <2>3, <2>4, QueueAll
<1>5. ASSUME UNCHANGED <<queue, job, tried>> PROVE QueueInv'
    BY <1>0, <1>5, QueueAll
<1> QED
    BY <1>1, <1>2, <1>3, <1>4, <1>5
    DEF Next, RequestStep, Preview, Begin, Item, Commit, Refuse, Abort, Fail, Ensure, InitializeCapabilities,
        Reply, Work, CreateMailbox, UpsertCredential, CreatePlatformAccount, OneStatement, vars

(* Failing steps, crashes and statements of others share their bound.         *)
LEMMA BoundsStep ==
    ASSUME BoundsInv, [Next]_vars
    PROVE  BoundsInv'
<1>1. errors \in Nat /\ crashes \in Nat /\ writes \in Nat /\ requests \in Nat
    BY DEF BoundsInv
<1>2. ASSUME UNCHANGED bounds PROVE BoundsInv'
    BY <1>2 DEF BoundsInv, bounds
<1>3. ASSUME NEW c \in Clients, Preview(c) PROVE BoundsInv'
    BY <1>1, <1>3, ImportAssumption DEF Preview, BoundsInv
<1>4. ASSUME NEW c \in Clients, Fail(c) PROVE BoundsInv'
    BY <1>1, <1>4, ImportAssumption DEF Fail, MayHappen, BoundsInv
<1>5. ASSUME Crash PROVE BoundsInv'
    BY <1>1, <1>5, ImportAssumption DEF Crash, MayHappen, BoundsInv
<1>6. ASSUME MayHappen, writes' = writes + 1, UNCHANGED <<errors, crashes, requests>> PROVE BoundsInv'
    BY <1>1, <1>6, ImportAssumption DEF MayHappen, BoundsInv
<1>7. ASSUME NEW a \in Addresses,
             \/ CreateMailbox(a) \/ UpsertCredential(a)
             \/ \E p \in Accounts, l \in Aliases \cup {None} : CreatePlatformAccount(p, a, l)
      PROVE  BoundsInv'
    BY <1>6, <1>7 DEF CreateMailbox, UpsertCredential, CreatePlatformAccount, OneStatement
<1>8. ASSUME NEW c \in Clients, RequestStep(c) PROVE UNCHANGED bounds
    BY <1>8 DEF RequestStep, Begin, Item, Commit, Refuse, Abort, Ensure, InitializeCapabilities, Schedule, Reply
<1>9. ASSUME NEW w \in Workers, Work(w) PROVE UNCHANGED bounds
    BY <1>9 DEF Work, Take, Fetch
<1>10. ASSUME UNCHANGED vars PROVE UNCHANGED bounds
    BY <1>10 DEF vars, bounds
<1> QED
    BY <1>2, <1>3, <1>4, <1>5, <1>7, <1>8, <1>9, <1>10 DEF Next

(* The inductive invariant of the whole component.                            *)
WorkInv == Inv /\ FollowInv /\ QueueInv /\ BoundsInv

LEMMA WorkInit ==
    ASSUME Init
    PROVE  WorkInv
<1>1. Inv
    BY InitInv
<1>2. FollowInv
    BY DEF Init, NoRequest, FollowInv, Followed, Following
<1>3. QueueInv
    <2>1. queue = <<>> /\ job = [w \in Workers |-> None] /\ tried = {}
        BY DEF Init
    <2>2. queue \in Seq(Addresses) /\ Len(queue) <= QueueBound /\ Range(queue) = {}
        BY <2>1, ImportAssumption DEF Range
    <2>3. job \in [Workers -> Addresses \cup {None}] /\ \A w \in Workers : job[w] = None
        BY <2>1
    <2> QED
        BY <2>1, <2>2, <2>3, NamesAssumption DEF QueueInv
<1>4. BoundsInv
    BY ImportAssumption DEF Init, BoundsInv
<1> QED
    BY <1>1, <1>2, <1>3, <1>4 DEF WorkInv

(* It is what the type invariant says.                                        *)
LEMMA WorkMeans ==
    ASSUME WorkInv
    PROVE  TypeOK
<1>1. Store!TypeOK
    BY StoreMeans DEF WorkInv, Inv
<1>2. \A c \in Clients : req[c].at \in Steps
    BY RequestShape DEF WorkInv, Inv
<1>3. /\ queue \in Seq(Addresses) /\ Len(queue) <= QueueBound /\ job \in [Workers -> Addresses \cup {None}]
      /\ \A a \in Range(queue) \cup tried : Has(db, Mailbox(a)) /\ a \in keyed /\ a \in capable
    BY RangeParts DEF WorkInv, QueueInv, Ready
<1>4. /\ errors \in Nat /\ crashes \in Nat /\ writes \in Nat /\ requests \in Nat
      /\ errors + crashes + writes <= MaxEvents /\ requests <= MaxRequests
    BY DEF WorkInv, BoundsInv
<1>5. errors \in 0..MaxEvents /\ crashes \in 0..MaxEvents /\ writes \in 0..MaxEvents /\ requests \in 0..MaxRequests
    BY <1>4, ImportAssumption
<1> QED
    BY <1>1, <1>2, <1>3, <1>5 DEF TypeOK

(* A mailbox whose mail is asked for has its row, its pickup key and its      *)
(* capability rows, whatever steps failed, whoever imported it and whenever   *)
(* the process crashed; the queue never holds more than its bound.            *)
THEOREM TypeCorrect == Spec => []TypeOK
<1>1. Init => WorkInv
    BY WorkInit
<1>2. WorkInv /\ [Next]_vars => WorkInv'
    BY NextInv, FollowStep, QueueStep, BoundsStep DEF WorkInv
<1>3. WorkInv => TypeOK
    BY WorkMeans
<1> QED
    BY <1>1, <1>2, <1>3, PTL DEF Spec

-----------------------------------------------------------------------------
(* A set of places in a text has a first and a last one.                      *)
LEMMA Ends ==
    ASSUME NEW n \in Nat, NEW S \in SUBSET (1..n), S # {}
    PROVE  /\ Min(S) \in S /\ \A x \in S : Min(S) <= x
           /\ Max(S) \in S /\ \A x \in S : x <= Max(S)
<1> DEFINE Less == OpToRel(<, Nat)
           Above == {n - x : x \in S}
<1>1. IsWellFoundedOn(Less, Nat)
    BY NatLessThanWellFounded
<1>2. \A k \in Nat, l \in Nat : k < l => <<k, l>> \in Less
    BY DEF OpToRel
<1>3. S \subseteq Nat /\ Above \subseteq Nat /\ Above # {}
    <2>1. \A x \in S : x \in Nat /\ n - x \in Nat
        OBVIOUS
    <2>2. Above # {}
        <3>1. PICK x \in S : TRUE
            OBVIOUS
        <3>2. n - x \in Above
            BY <3>1
        <3> QED
            BY <3>2
    <2> QED
        BY <2>1, <2>2
<1> HIDE DEF Less, Above
<1>4. PICK k \in S : \A l \in S : ~(<<l, k>> \in Less)
    BY <1>1, <1>3, WFMin
<1>5. ASSUME NEW l \in S PROVE k <= l
    <2>1. l \in Nat /\ k \in Nat /\ ~(<<l, k>> \in Less)
        BY <1>3, <1>4
    <2>2. ~(l < k)
        BY <2>1, <1>2
    <2> QED
        BY <2>1, <2>2
<1>6. PICK a \in Above : \A b \in Above : ~(<<b, a>> \in Less)
    BY <1>1, <1>3, WFMin
<1>7. PICK m \in S : a = n - m
    BY <1>6 DEF Above
<1>8. ASSUME NEW l \in S PROVE l <= m
    <2>1. n - l \in Above /\ n - l \in Nat /\ a \in Nat
        BY <1>3, <1>6 DEF Above
    <2>2. ~(n - l < a)
        BY <2>1, <1>2, <1>6
    <2> QED
        BY <2>2, <1>7
<1>9. Min(S) \in S /\ \A x \in S : Min(S) <= x
    BY <1>4, <1>5 DEF Min
<1>10. Max(S) \in S /\ \A x \in S : x <= Max(S)
    BY <1>8 DEF Max
<1> QED
    BY <1>9, <1>10

(* Trimming keeps a text and, of a text with a symbol that is no blank, one. *)
LEMMA Trimmed ==
    ASSUME NEW S, NEW text \in Seq(S)
    PROVE  /\ Trim(text) \in Seq(S)
           /\ (\E i \in DOMAIN text : text[i] # Blank) => Trim(text) # Empty
<1> DEFINE solid == {i \in DOMAIN text : text[i] # Blank}
           n == Len(text)
<1>1. n \in Nat /\ DOMAIN text = 1..n /\ solid \in SUBSET (1..n)
    OBVIOUS
<1>2. CASE solid = {}
    <2>1. Trim(text) = Empty
        BY <1>2 DEF Trim
    <2> QED
        BY <2>1, <1>2 DEF Empty
<1>3. CASE solid # {}
    <2> DEFINE lo == Min(solid)
               hi == Max(solid)
    <2>1. Trim(text) = SubSeq(text, lo, hi)
        BY <1>3 DEF Trim
    <2> HIDE DEF solid
    <2>2. lo \in solid /\ hi \in solid /\ lo <= hi
        BY <1>1, <1>3, Ends
    <2>3. lo \in 1..n /\ hi \in 1..n
        BY <2>2, <1>1
    <2> HIDE DEF lo, hi
    <2>4. SubSeq(text, lo, hi) \in Seq(S) /\ Len(SubSeq(text, lo, hi)) = hi - lo + 1
        BY <2>2, <2>3
    <2>5. Len(SubSeq(text, lo, hi)) # 0
        BY <2>2, <2>3, <2>4
    <2>6. SubSeq(text, lo, hi) # Empty
        <3> DEFINE part == SubSeq(text, lo, hi)
        <3>1. Len(part) # 0
            BY <2>5
        <3> HIDE DEF part
        <3>2. part # <<>>
            BY <3>1
        <3> QED
            BY <3>2 DEF Empty, part
    <2> QED
        BY <2>1, <2>4, <2>6
<1> QED
    BY <1>2, <1>3

-----------------------------------------------------------------------------
(* What is read of a record are texts.                                        *)
LEMMA ReadTexts ==
    ASSUME NEW default \in Defaults, NEW entry \in Entries
    PROVE  ParseJSON(Complete(default), entry).values \in [Targets -> Text]
<1> DEFINE fields == Complete(default).fields
           value == [i \in DOMAIN fields |->
                        OrDefault(IF fields[i].column \in DOMAIN entry THEN entry[fields[i].column] ELSE Empty, fields[i])]
<1>1. DOMAIN fields = DOMAIN AllTargets /\ \A i \in DOMAIN fields : fields[i].default = Empty /\ fields[i].target = AllTargets[i]
    BY DEF Complete
<1>2. ParseJSON(Complete(default), entry).values
        = [t \in Targets |-> IF \E i \in DOMAIN fields : fields[i].target = t
                               THEN value[CHOOSE i \in DOMAIN fields : fields[i].target = t] ELSE Empty]
    BY Zenon DEF ParseJSON, Mapped
<1>3. Empty \in Text
    BY DEF Empty, Text
<1> HIDE DEF fields
<1>4. \A i \in DOMAIN fields : value[i] \in Text
    BY <1>1, <1>3, EntriesAssumption DEF OrDefault
<1> HIDE DEF value
<1> QED
    BY <1>2, <1>3, <1>4

(* A row that is valid and has no value the checks do not look at is sealed. *)
LEMMA RowIsSealed ==
    ASSUME NEW format, NEW raw, raw.values \in [Targets -> Text], Build(format, raw).valid,
           Build(format, raw).platform \in Namespaces \cup {Empty},
           \A text \in {Build(format, raw).key, Build(format, raw).external} : text = Empty \/ Trim(text) # Empty
    PROVE  ~SealFails(Build(format, raw))
<1> DEFINE row == Build(format, raw)
           v == raw.values
<1>1. /\ row.provider = Gmail /\ CredentialDeclared(v) => GmailComplete(v, row.kind)
      /\ row.client = v["client_id"] /\ row.password = v["password"] /\ row.refresh = v["refresh_token"]
      /\ row.username = IF row.provider = Gmail /\ row.kind = Password /\ CredentialDeclared(v) /\ Trim(v["username"]) = Empty
                          THEN Trim(v["address"]) ELSE Trim(v["username"])
      /\ row.host = Trim(v["imap_host"]) /\ row.port = Trim(v["imap_port"]) /\ row.expires = Trim(v["expires_at"])
      /\ row.address = Trim(v["address"])
    BY DEF Build
<1>2. row.platform \in Namespaces \cup {Empty} /\ (row.key = Empty \/ Trim(row.key) # Empty)
      /\ (row.external = Empty \/ Trim(row.external) # Empty)
    OBVIOUS
<1>3. v["address"] \in Text
    BY DEF Targets, AllTargets, ToSet
<1> HIDE DEF row, v
<1>4. ~(HasCredential(row) /\ SecretFails(row))
    <2>1. CASE CredentialDeclared(v)
        BY <2>1, <1>1 DEF GmailComplete, SecretFails
    <2>2. CASE ~CredentialDeclared(v)
        <3>1. /\ v["client_id"] = Empty /\ v["password"] = Empty /\ v["refresh_token"] = Empty
              /\ Trim(v["username"]) = Empty /\ Trim(v["imap_host"]) = Empty /\ Trim(v["imap_port"]) = Empty
              /\ Trim(v["expires_at"]) = Empty
            BY <2>2 DEF CredentialDeclared, ConnectionDeclared
        <3>2. row.username = Empty
            BY <3>1, <2>2, <1>1
        <3> QED
            BY <3>1, <3>2, <1>1 DEF HasCredential
    <2> QED
        BY <2>1, <2>2
<1>5. ASSUME HasAccount(row) PROVE row.platform \in Namespaces /\ Trim(Reference(row)) # Empty
    <2>1. row.platform \in Namespaces
        BY <1>2, <1>5 DEF HasAccount
    <2>2. CASE row.external # Empty
        BY <2>1, <2>2, <1>2 DEF Reference
    <2>3. CASE row.external = Empty
        <3> DEFINE address == row.address
                   reference == <<"import">> \o address
        <3>1. address \in Text
            BY <1>1, <1>3, Trimmed DEF Text
        <3> HIDE DEF address
        <3>2. reference \in Seq(STRING \cup {"import"}) /\ 1 \in DOMAIN reference /\ reference[1] = "import"
            <4> DEFINE word == <<"import">>
                       Letters == STRING \cup {"import"}
            <4>1. word \in Seq(Letters) /\ Len(word) = 1 /\ word[1] = "import"
                OBVIOUS
            <4>2. address \in Seq(Letters)
                BY <3>1 DEF Text
            <4> HIDE DEF word
            <4>3. reference \in Seq(Letters) /\ reference = word \o address /\ Len(address) \in Nat
                BY <4>1, <4>2, ConcatProperties, LenProperties DEF word
            <4>4. Len(word \o address) = 1 + Len(address) /\ (word \o address)[1] = word[1]
                BY <4>1, <4>2, <4>3, ConcatProperties
            <4>5. DOMAIN reference = 1..(1 + Len(address)) /\ 1 \in 1..(1 + Len(address))
                BY <4>3, <4>4, LenProperties
            <4> QED
                BY <4>1, <4>3, <4>4, <4>5
        <3> HIDE DEF reference
        <3>3. Trim(reference) # Empty
            BY <3>2, Trimmed DEF Blank
        <3> QED
            BY <3>3, <2>1, <2>3 DEF Reference, reference, address
    <2> QED
        BY <2>2, <2>3
<1> QED
    BY <1>2, <1>4, <1>5 DEF SealFails, row

(* See ValidRowsSeal: a row the preview shows as valid does not fail the      *)
(* import, whatever the file, the defaults and the texts that are valid.       *)
THEOREM ValidRowsAreSealed == ImportSpec => []ValidRowsSeal
<1>1. ASSUME InputChosen PROVE ValidRowsSeal
    <2> SUFFICES ASSUME input.kind = "record", Imported.valid, Imported.platform \in Namespaces \cup {Empty},
                        ~ \E text \in {Imported.key, Imported.external} : text # Empty /\ Trim(text) = Empty
                 PROVE  ~SealFails(Imported)
        BY DEF ValidRowsSeal
    <2>1. PICK default \in Defaults, entry \in Entries : input = [kind |-> "record", default |-> default, entry |-> entry]
        BY <1>1 DEF InputChosen, Nothing
    <2>2. Imported = Build(Complete(default), ParseJSON(Complete(default), entry))
        BY <2>1 DEF Imported
    <2>3. ParseJSON(Complete(default), entry).values \in [Targets -> Text]
        BY ReadTexts
    <2> QED
        BY <2>2, <2>3, RowIsSealed
<1>2. ASSUME InputChosen, [input = Nothing /\ Next /\ UNCHANGED input]_<<vars, input>> PROVE InputChosen'
    <2>1. UNCHANGED input
        BY <1>2
    <2> QED
        BY <2>1, <1>2 DEF InputChosen, Nothing
<1> QED
    BY <1>1, <1>2, PTL DEF ImportSpec, ImportInit

(* A text with no blank at either end is trimmed, and what is trimmed is.     *)
LEMMA Kept ==
    ASSUME NEW S, NEW text \in Seq(S), Len(text) > 0 => text[1] # Blank /\ text[Len(text)] # Blank
    PROVE  Trim(text) = text
<1> DEFINE solid == {i \in DOMAIN text : text[i] # Blank}
           n == Len(text)
<1>1. n \in Nat /\ DOMAIN text = 1..n /\ solid \in SUBSET (1..n)
    OBVIOUS
<1>2. CASE n = 0
    <2>1. text = <<>>
        BY <1>2, EmptySeq
    <2>2. solid = {}
        BY <1>1, <1>2
    <2> QED
        BY <2>1, <2>2 DEF Trim, Empty
<1>3. CASE n # 0
    <2>1. 1 \in solid /\ n \in solid
        BY <1>1, <1>3
    <2> DEFINE lo == Min(solid)
               hi == Max(solid)
    <2>2. Trim(text) = SubSeq(text, lo, hi)
        BY <2>1 DEF Trim
    <2> HIDE DEF solid
    <2>3. lo \in solid /\ hi \in solid /\ lo <= 1 /\ n <= hi
        BY <1>1, <2>1, Ends
    <2> HIDE DEF lo, hi
    <2>4. lo \in 1..n /\ hi \in 1..n
        BY <2>3, <1>1
    <2> HIDE DEF n
    <2>5. lo = 1 /\ hi = n
        BY <2>3, <2>4, <1>1
    <2> USE DEF n
    <2>6. SubSeq(text, 1, n) = text
        BY <1>1
    <2> QED
        BY <2>2, <2>5, <2>6 DEF lo, hi
<1> QED
    BY <1>2, <1>3

LEMMA TrimmedOnce ==
    ASSUME NEW text \in Text
    PROVE  Trim(text) \in Text /\ Trim(Trim(text)) = Trim(text)
<1> DEFINE solid == {i \in DOMAIN text : text[i] # Blank}
           n == Len(text)
           trim == Trim(text)
<1>1. n \in Nat /\ DOMAIN text = 1..n /\ solid \in SUBSET (1..n) /\ text \in Seq(STRING)
    BY DEF Text
<1>2. trim \in Seq(STRING)
    BY <1>1, Trimmed
<1>3. CASE solid = {}
    <2>1. trim = Empty
        BY <1>3 DEF Trim
    <2> HIDE DEF trim
    <2>2. Len(trim) = 0
        BY <2>1 DEF Empty
    <2>3. Len(trim) > 0 => trim[1] # Blank /\ trim[Len(trim)] # Blank
        BY <2>2
    <2>4. Trim(trim) = trim
        BY <1>2, <2>3, Kept
    <2> QED
        BY <1>2, <2>4 DEF Text, trim
<1>4. CASE solid # {}
    <2> DEFINE lo == Min(solid)
               hi == Max(solid)
    <2>1. trim = SubSeq(text, lo, hi)
        BY <1>4 DEF Trim
    <2>2. \A i \in solid : text[i] # Blank
        OBVIOUS
    <2> HIDE DEF solid
    <2>3. lo \in solid /\ hi \in solid /\ lo <= hi
        BY <1>1, <1>4, Ends
    <2>4. lo \in 1..n /\ hi \in 1..n
        BY <2>3, <1>1
    <2>5. text[lo] # Blank /\ text[hi] # Blank
        BY <2>2, <2>3
    <2> HIDE DEF lo, hi
    <2>6. Len(trim) = hi - lo + 1 /\ trim[1] = text[lo] /\ trim[hi - lo + 1] = text[hi]
        BY <2>1, <2>3, <2>4, <1>1
    <2> HIDE DEF trim
    <2>7. trim[1] # Blank /\ trim[Len(trim)] # Blank
        BY <2>5, <2>6
    <2> QED
        BY <1>2, <2>7, Kept DEF Text, trim
<1> QED
    BY <1>3, <1>4

(* The words of the program are trimmed.                                      *)
LEMMA WordsAreTrimmed ==
    /\ Trim(Empty) = Empty
    /\ \A word \in Providers \cup {OAuth, Graph, Password, AutomaticKey} : Trim(word) = word /\ word # Empty
<1>1. Trim(Empty) = Empty
    <2> DEFINE empty == Empty
    <2>1. empty \in Seq(STRING) /\ Len(empty) = 0
        BY DEF Empty
    <2> HIDE DEF empty
    <2>2. Len(empty) > 0 => empty[1] # Blank /\ empty[Len(empty)] # Blank
        BY <2>1
    <2>3. Trim(empty) = empty
        BY <2>1, <2>2, Kept
    <2> QED
        BY <2>3 DEF empty
<1>2. ASSUME NEW symbol, symbol # Blank PROVE Trim(<<symbol>>) = <<symbol>> /\ <<symbol>> # Empty
    <2> DEFINE word == <<symbol>>
    <2>1. word \in Seq({symbol}) /\ Len(word) = 1 /\ word[1] = symbol
        OBVIOUS
    <2>2. <<symbol>> # Empty
        BY DEF Empty
    <2> HIDE DEF word
    <2>3. Trim(word) = word
        BY <1>2, <2>1, Kept
    <2> QED
        BY <2>2, <2>3 DEF word
<1>3. \A symbol \in {"gmail", "microsoft", "cloudflare_route", "gmail_oauth", "microsoft_graph_oauth", "imap_password",
                     "key"} : symbol # Blank
    BY DEF Blank
<1>4. \A word \in Providers \cup {OAuth, Graph, Password, AutomaticKey} :
        \E symbol \in {"gmail", "microsoft", "cloudflare_route", "gmail_oauth", "microsoft_graph_oauth", "imap_password",
                       "key"} : word = <<symbol>>
    BY DEF Providers, Gmail, Microsoft, OAuth, Graph, Password, AutomaticKey
<1> QED
    BY <1>1, <1>2, <1>3, <1>4

LEMMA TargetNames ==
    Targets = {"provider", "address", "credential_kind", "client_id", "password", "refresh_token", "pickup_key",
               "username", "imap_host", "imap_port", "expires_at",
               "platform", "platform_external_reference", "platform_token"}
BY DEF Targets, AllTargets, ToSet

(* What is exported of a sealed row, value by value.                          *)
LEMMA Exported ==
    ASSUME NEW row, ~SealFails(row), NEW values, values = ExportValues(Seal(row))
    PROVE  /\ values["provider"] = row.provider /\ values["address"] = row.address
           /\ values["pickup_key"] = AutomaticKey
           /\ HasCredential(row) =>
                /\ values["credential_kind"] = row.kind /\ values["expires_at"] = row.expires
                /\ values["client_id"] = IF row.client = Empty THEN Secret(row).client ELSE row.client
                /\ values["username"] = Secret(row).username /\ values["imap_host"] = Secret(row).host
                /\ values["imap_port"] = Secret(row).port
                /\ values["refresh_token"] = Secret(row).refresh /\ values["password"] = Secret(row).password
           /\ ~HasCredential(row) =>
                \A t \in {"credential_kind", "expires_at", "client_id", "username", "imap_host", "imap_port",
                          "refresh_token", "password"} : values[t] = Empty
           /\ HasAccount(row) =>
                /\ values["platform"] = row.platform /\ values["platform_external_reference"] = Reference(row)
                /\ values["platform_token"] = row.token
           /\ ~HasAccount(row) =>
                \A t \in {"platform", "platform_external_reference", "platform_token"} : values[t] = Empty
<1> DEFINE item == Seal(row)
           none == [t \in {} |-> Empty]
           credentialOf(c) ==
             [credential_kind |-> c.kind, expires_at |-> c.expires,
              client_id |-> IF c.client = Empty THEN c.secret.client ELSE c.client,
              username |-> c.secret.username, imap_host |-> c.secret.host, imap_port |-> c.secret.port,
              refresh_token |-> c.secret.refresh, password |-> c.secret.password]
           accountOf(a) == [platform |-> a.platform, platform_external_reference |-> a.external, platform_token |-> a.token]
           credential == IF HasCredential(row)
                           THEN credentialOf([kind |-> row.kind, client |-> row.client, expires |-> row.expires,
                                              secret |-> Secret(row)])
                           ELSE none
           account == IF HasAccount(row)
                        THEN accountOf([platform |-> row.platform, external |-> Reference(row), token |-> row.token])
                        ELSE none
           basic == [address |-> row.address, provider |-> row.provider,
                     pickup_key |-> AutomaticKey]
<1>1. item = [failed |-> FALSE, provider |-> row.provider, address |-> row.address, key |-> Trim(row.key),
              credential |-> IF HasCredential(row)
                               THEN [present |-> TRUE, kind |-> row.kind, client |-> row.client,
                                     expires |-> row.expires, secret |-> Secret(row)]
                               ELSE [present |-> FALSE],
              account |-> IF HasAccount(row)
                            THEN [present |-> TRUE, platform |-> row.platform, external |-> Reference(row), token |-> row.token]
                            ELSE [present |-> FALSE]]
    BY DEF Seal, NotGiven
<1> HIDE DEF item
<1>2. /\ item.provider = row.provider /\ item.address = row.address /\ item.key = Trim(row.key)
      /\ HasCredential(row) =>
           /\ item.credential.present /\ item.credential.kind = row.kind /\ item.credential.client = row.client
           /\ item.credential.expires = row.expires /\ item.credential.secret = Secret(row)
      /\ ~HasCredential(row) => ~item.credential.present
      /\ HasAccount(row) =>
           /\ item.account.present /\ item.account.platform = row.platform /\ item.account.external = Reference(row)
           /\ item.account.token = row.token
      /\ ~HasAccount(row) => ~item.account.present
    BY <1>1
<1>3. (IF ~item.credential.present THEN none ELSE credentialOf(item.credential)) = credential
    BY <1>2
<1>4. (IF ~item.account.present THEN none ELSE accountOf(item.account)) = account
    BY <1>2
<1>5. [address |-> item.address, provider |-> item.provider,
       pickup_key |-> AutomaticKey] = basic
    BY <1>2
<1>6. ExportValues(item)
        = LET mailbox == [address |-> item.address, provider |-> item.provider,
                          pickup_key |-> AutomaticKey]
              c == IF ~item.credential.present THEN none ELSE credentialOf(item.credential)
              a == IF ~item.account.present THEN none ELSE accountOf(item.account)
          IN  [t \in Targets |-> IF t \in DOMAIN mailbox THEN mailbox[t] ELSE IF t \in DOMAIN c THEN c[t]
                                ELSE IF t \in DOMAIN a THEN a[t] ELSE Empty]
    BY Zenon DEF ExportValues
<1>7. values = [t \in Targets |-> IF t \in DOMAIN basic THEN basic[t] ELSE IF t \in DOMAIN credential THEN credential[t]
                                 ELSE IF t \in DOMAIN account THEN account[t] ELSE Empty]
    <2>1. values = ExportValues(item)
        BY DEF item
    <2> HIDE DEF basic, credential, account, none, credentialOf, accountOf
    <2> QED
        BY <2>1, <1>3, <1>4, <1>5, <1>6
<1>8. DOMAIN basic = {"address", "provider", "pickup_key"}
    OBVIOUS
<1>9. HasCredential(row) =>
        /\ DOMAIN credential = {"credential_kind", "expires_at", "client_id", "username", "imap_host", "imap_port",
                                "refresh_token", "password"}
        /\ credential.credential_kind = row.kind /\ credential.expires_at = row.expires
        /\ credential.client_id = IF row.client = Empty THEN Secret(row).client ELSE row.client
        /\ credential.username = Secret(row).username /\ credential.imap_host = Secret(row).host
        /\ credential.imap_port = Secret(row).port
        /\ credential.refresh_token = Secret(row).refresh /\ credential.password = Secret(row).password
    OBVIOUS
<1>10. HasAccount(row) =>
        /\ DOMAIN account = {"platform", "platform_external_reference", "platform_token"}
        /\ account.platform = row.platform /\ account.platform_external_reference = Reference(row)
        /\ account.platform_token = row.token
    OBVIOUS
<1>11. (~HasCredential(row) => DOMAIN credential = {}) /\ (~HasAccount(row) => DOMAIN account = {})
    OBVIOUS
<1>12. basic.address = row.address /\ basic.provider = row.provider
       /\ basic.pickup_key = AutomaticKey
    OBVIOUS
<1> HIDE DEF basic, credential, account
<1>14. /\ values["provider"] = row.provider /\ values["address"] = row.address
       /\ values["pickup_key"] = AutomaticKey
    BY <1>7, <1>8, <1>12, TargetNames
<1> DEFINE CredentialTargets == {"credential_kind", "expires_at", "client_id", "username", "imap_host", "imap_port",
                            "refresh_token", "password"}
           AccountTargets == {"platform", "platform_external_reference", "platform_token"}
<1>15. \A t \in CredentialTargets : values[t] = IF HasCredential(row) THEN credential[t] ELSE Empty
    <2>1. \A t \in CredentialTargets : t \in Targets /\ t \notin DOMAIN basic /\ t \notin AccountTargets
        BY <1>8, TargetNames
    <2>2. DOMAIN credential = IF HasCredential(row) THEN CredentialTargets ELSE {}
        BY <1>9, <1>11
    <2>3. DOMAIN account \subseteq AccountTargets
        BY <1>10, <1>11
    <2> HIDE DEF CredentialTargets, AccountTargets
    <2> QED
        BY <2>1, <2>2, <2>3, <1>7
<1>16. \A t \in AccountTargets : values[t] = IF HasAccount(row) THEN account[t] ELSE Empty
    <2>1. \A t \in AccountTargets : t \in Targets /\ t \notin DOMAIN basic /\ t \notin CredentialTargets
        BY <1>8, TargetNames
    <2>2. DOMAIN account = IF HasAccount(row) THEN AccountTargets ELSE {}
        BY <1>10, <1>11
    <2>3. DOMAIN credential \subseteq CredentialTargets
        BY <1>9, <1>11
    <2> HIDE DEF CredentialTargets, AccountTargets
    <2> QED
        BY <2>1, <2>2, <2>3, <1>7
<1>17. HasCredential(row) =>
        /\ values["credential_kind"] = row.kind /\ values["expires_at"] = row.expires
        /\ values["client_id"] = IF row.client = Empty THEN Secret(row).client ELSE row.client
        /\ values["username"] = Secret(row).username /\ values["imap_host"] = Secret(row).host
        /\ values["imap_port"] = Secret(row).port
        /\ values["refresh_token"] = Secret(row).refresh /\ values["password"] = Secret(row).password
    BY <1>9, <1>15
<1>18. HasAccount(row) =>
        /\ values["platform"] = row.platform /\ values["platform_external_reference"] = Reference(row)
        /\ values["platform_token"] = row.token
    BY <1>10, <1>16
<1> QED
    BY <1>14, <1>15, <1>16, <1>17, <1>18
(* A built row, field by field.                                               *)
LEMMA BuildFields ==
    ASSUME NEW format, NEW raw, NEW v, v = raw.values, NEW row, row = Build(format, raw),
           NEW provider, provider = ProviderOf(format, v), NEW kind, kind = KindOf(format, v, provider)
    PROVE  /\ row.provider = provider /\ row.address = Trim(v["address"]) /\ row.kind = kind
           /\ row.client = v["client_id"] /\ row.password = v["password"] /\ row.refresh = v["refresh_token"]
           /\ row.key = v["pickup_key"]
           /\ row.username = IF provider = Gmail /\ kind = Password /\ CredentialDeclared(v) /\ Trim(v["username"]) = Empty
                               THEN Trim(v["address"]) ELSE Trim(v["username"])
           /\ row.host = Trim(v["imap_host"]) /\ row.port = Trim(v["imap_port"]) /\ row.expires = Trim(v["expires_at"])
           /\ row.platform = IF Trim(v["platform"]) = Empty THEN Trim(format.platform) ELSE Trim(v["platform"])
           /\ row.external = v["platform_external_reference"] /\ row.token = v["platform_token"]
           /\ row.valid <=>
                /\ ~raw.broken /\ provider \in Providers /\ AddressOK(v["address"])
                /\ Trim(v["imap_port"]) \in Ports \cup {Empty}
                /\ Trim(v["expires_at"]) \in Times \cup {Empty}
                /\ (provider = Gmail /\ CredentialDeclared(v)) => GmailComplete(v, kind)
                /\ (row.external # Empty \/ row.token # Empty) => row.platform # Empty
<1> DEFINE named == Trim(v["username"])
           platform == IF Trim(v["platform"]) = Empty THEN Trim(format.platform) ELSE Trim(v["platform"])
           ok == /\ ~raw.broken /\ provider \in Providers /\ AddressOK(v["address"])
                 /\ Trim(v["imap_port"]) \in Ports \cup {Empty}
                 /\ Trim(v["expires_at"]) \in Times \cup {Empty}
                 /\ (provider = Gmail /\ CredentialDeclared(v)) => GmailComplete(v, kind)
                 /\ (v["platform_external_reference"] # Empty \/ v["platform_token"] # Empty) => platform # Empty
<1>1. row = [valid |-> ok,
             provider |-> provider, address |-> Trim(v["address"]), kind |-> kind,
             client |-> v["client_id"], password |-> v["password"], refresh |-> v["refresh_token"], key |-> v["pickup_key"],
             username |-> IF provider = Gmail /\ kind = Password /\ CredentialDeclared(v) /\ named = Empty
                            THEN Trim(v["address"]) ELSE named,
             host |-> Trim(v["imap_host"]), port |-> Trim(v["imap_port"]), expires |-> Trim(v["expires_at"]),
             platform |-> platform, external |-> v["platform_external_reference"], token |-> v["platform_token"]]
    BY DEF Build
<1> HIDE DEF platform, ok
<1>2. /\ row.provider = provider /\ row.address = Trim(v["address"]) /\ row.kind = kind
      /\ row.client = v["client_id"] /\ row.password = v["password"] /\ row.refresh = v["refresh_token"]
      /\ row.key = v["pickup_key"]
      /\ row.username = IF provider = Gmail /\ kind = Password /\ CredentialDeclared(v) /\ named = Empty
                          THEN Trim(v["address"]) ELSE named
      /\ row.host = Trim(v["imap_host"]) /\ row.port = Trim(v["imap_port"]) /\ row.expires = Trim(v["expires_at"])
      /\ row.platform = platform /\ row.external = v["platform_external_reference"] /\ row.token = v["platform_token"]
    BY <1>1
<1>3. row.valid = ok
    BY <1>1
<1>4. row.valid <=> ok
    BY <1>3, Zenon
<1> QED
    BY <1>2, <1>4 DEF ok, platform

(* What the checks of a valid row establish: its fields are trimmed, and Gmail *)
(* mailboxes with a password have a user name.                                 *)
LEMMA RowFields ==
    ASSUME NEW default \in Defaults, NEW raw, raw.values \in [Targets -> Text],
           NEW row, row = Build(Complete(default), raw), row.valid, ~SealFails(row)
    PROVE  /\ row.provider \in Providers
           /\ row.address \in Text /\ Trim(row.address) = row.address /\ row.address # Empty /\ AddressOK(row.address)
           /\ row.kind # Empty /\ Trim(row.kind) = row.kind
           /\ \A text \in {row.username, row.host, row.port, row.expires, row.platform} : Trim(text) = text
           /\ row.port \in Ports \cup {Empty} /\ row.expires \in Times \cup {Empty}
           /\ row.key \in Text
           /\ row.external # Empty \/ row.token # Empty => row.platform # Empty
           /\ row.provider = Gmail /\ HasCredential(row) /\ row.kind # OAuth
                => row.kind = Password /\ row.username # Empty
<1> DEFINE format == Complete(default)
           v == raw.values
           provider == ProviderOf(format, v)
           kind == KindOf(format, v, provider)
<1>1. /\ provider \in Providers /\ AddressOK(v["address"])
      /\ Trim(v["imap_port"]) \in Ports \cup {Empty} /\ Trim(v["expires_at"]) \in Times \cup {Empty}
      /\ row.provider = provider /\ row.address = Trim(v["address"]) /\ row.kind = kind
      /\ row.client = v["client_id"] /\ row.password = v["password"] /\ row.refresh = v["refresh_token"]
      /\ row.key = v["pickup_key"]
      /\ row.username = IF provider = Gmail /\ kind = Password /\ CredentialDeclared(v) /\ Trim(v["username"]) = Empty
                          THEN Trim(v["address"]) ELSE Trim(v["username"])
      /\ row.host = Trim(v["imap_host"]) /\ row.port = Trim(v["imap_port"]) /\ row.expires = Trim(v["expires_at"])
      /\ row.platform = IF Trim(v["platform"]) = Empty THEN Trim(format.platform) ELSE Trim(v["platform"])
      /\ row.external # Empty \/ row.token # Empty => row.platform # Empty
    BY BuildFields
<1>2. \A t \in Targets : v[t] \in Text /\ Trim(v[t]) \in Text /\ Trim(Trim(v[t])) = Trim(v[t])
    BY TrimmedOnce
<1>3. format.platform \in Text /\ format.kind \in Text
      /\ Trim(Trim(format.platform)) = Trim(format.platform) /\ Trim(Trim(format.kind)) = Trim(format.kind)
    <2>1. format.platform = default.platform /\ format.kind = default.kind
        BY DEF Complete
    <2>2. default.platform \in Text /\ default.kind \in Text
        BY DefaultsAssumption
    <2> QED
        BY <2>1, <2>2, TrimmedOnce
<1>4. kind # Empty /\ Trim(kind) = kind
    <2> DEFINE asked == IF Trim(v["credential_kind"]) = Empty THEN format.kind ELSE v["credential_kind"]
    <2>1. kind = IF Trim(asked) # Empty THEN Trim(asked)
                 ELSE IF v["password"] # Empty /\ v["refresh_token"] = Empty THEN Password
                 ELSE IF provider = Gmail THEN OAuth ELSE Graph
        BY Zenon DEF KindOf
    <2>2. Trim(Trim(asked)) = Trim(asked)
        BY <1>2, <1>3, TargetNames
    <2> HIDE DEF asked, kind
    <2> QED
        BY <2>1, <2>2, WordsAreTrimmed
<1> HIDE DEF provider, kind, format
<1>5. /\ row.address \in Text /\ Trim(row.address) = row.address /\ AddressOK(row.address)
      /\ row.key \in Text
    BY <1>1, <1>2, TargetNames DEF AddressOK
<1>6. row.address # Empty
    <2>1. Len(row.address) = 2
        BY <1>5 DEF AddressOK
    <2>2. Len(Empty) = 0
        BY DEF Empty
    <2> QED
        BY <2>1, <2>2
<1>7. \A text \in {row.username, row.host, row.port, row.expires, row.platform} : Trim(text) = text
    BY <1>1, <1>2, <1>3, TargetNames
<1>8. row.provider = Gmail /\ HasCredential(row) /\ row.kind # OAuth => row.kind = Password /\ row.username # Empty
    <2> SUFFICES ASSUME row.provider = Gmail, HasCredential(row), row.kind # OAuth
                 PROVE  row.kind = Password /\ row.username # Empty
        OBVIOUS
    <2>1. row.kind = Password
        BY DEF SealFails, SecretFails
    <2>2. CredentialDeclared(v)
        <3> SUFFICES ASSUME ~CredentialDeclared(v) PROVE FALSE
            OBVIOUS
        <3>1. /\ v["client_id"] = Empty /\ v["password"] = Empty /\ v["refresh_token"] = Empty
              /\ Trim(v["username"]) = Empty /\ Trim(v["imap_host"]) = Empty /\ Trim(v["imap_port"]) = Empty
              /\ Trim(v["expires_at"]) = Empty
            BY DEF CredentialDeclared, ConnectionDeclared
        <3>2. row.username = Empty
            BY <3>1, <1>1
        <3> QED
            BY <3>1, <3>2, <1>1 DEF HasCredential
    <2> QED
        BY <2>1, <2>2, <1>1, <1>6
<1> QED
    BY <1>1, <1>4, <1>5, <1>6, <1>7, <1>8

(* Rows for Gmail's own interface, and for IMAP with Gmail.                   *)
Web(row) == row.provider = Gmail /\ row.kind = OAuth
Imap(row) == row.provider = Gmail /\ row.kind # OAuth

(* The secret of a row, field by field.                                       *)
LEMMA SecretFields ==
    ASSUME NEW row
    PROVE  Secret(row) = [client |-> IF Imap(row) THEN Empty ELSE row.client, refresh |-> IF Imap(row) THEN Empty ELSE row.refresh,
                          username |-> IF Web(row) THEN Empty
                                       ELSE IF row.provider \notin {Gmail, Microsoft} /\ row.username = Empty /\ row.password # Empty
                                         THEN row.address ELSE row.username,
                          password |-> IF Web(row) THEN Empty ELSE row.password,
                          host |-> IF Web(row) THEN Empty ELSE row.host, port |-> IF Web(row) THEN Empty ELSE row.port]
<1> DEFINE full == [client |-> row.client, refresh |-> row.refresh, username |-> row.username,
                    password |-> row.password, host |-> row.host, port |-> row.port]
           web == [full EXCEPT !.username = Empty, !.password = Empty, !.host = Empty, !.port = Empty]
           plain == [full EXCEPT !.client = Empty, !.refresh = Empty]
           named == [full EXCEPT !.username = IF @ = Empty /\ row.password # Empty THEN row.address ELSE @]
<1>1. Secret(row) = CASE row.provider = Gmail /\ row.kind = OAuth -> web
                      [] row.provider = Gmail /\ row.kind # OAuth -> plain
                      [] row.provider = Microsoft -> full
                      [] OTHER -> named
    BY Zenon DEF Secret
<1>2. full = [client |-> row.client, refresh |-> row.refresh, username |-> row.username,
              password |-> row.password, host |-> row.host, port |-> row.port]
    OBVIOUS
<1> HIDE DEF full
<1>3. web = [client |-> row.client, refresh |-> row.refresh, username |-> Empty,
             password |-> Empty, host |-> Empty, port |-> Empty]
    <2> SUFFICES ASSUME NEW changed, changed = web PROVE changed = [client |-> row.client, refresh |-> row.refresh,
                        username |-> Empty, password |-> Empty, host |-> Empty, port |-> Empty]
        OBVIOUS
    <2> QED
        BY <1>2
<1>4. plain = [client |-> Empty, refresh |-> Empty, username |-> row.username,
               password |-> row.password, host |-> row.host, port |-> row.port]
    <2> SUFFICES ASSUME NEW changed, changed = plain PROVE changed = [client |-> Empty, refresh |-> Empty,
                        username |-> row.username, password |-> row.password, host |-> row.host, port |-> row.port]
        OBVIOUS
    <2> QED
        BY <1>2
<1>5. named = [client |-> row.client, refresh |-> row.refresh,
               username |-> IF row.username = Empty /\ row.password # Empty THEN row.address ELSE row.username,
               password |-> row.password, host |-> row.host, port |-> row.port]
    <2> SUFFICES ASSUME NEW changed, changed = named PROVE changed = [client |-> row.client, refresh |-> row.refresh,
               username |-> IF row.username = Empty /\ row.password # Empty THEN row.address ELSE row.username,
               password |-> row.password, host |-> row.host, port |-> row.port]
        OBVIOUS
    <2> QED
        BY <1>2
<1> HIDE DEF web, plain, named
<1>6. Gmail # Microsoft
    BY DEF Gmail, Microsoft
<1>7. CASE Web(row)
    <2>1. Secret(row) = web /\ row.provider = Gmail /\ ~Imap(row)
        BY <1>1, <1>6, <1>7 DEF Web, Imap
    <2> QED
        BY <2>1, <1>3, <1>7
<1>8. CASE Imap(row)
    <2>1. Secret(row) = plain /\ row.provider = Gmail /\ ~Web(row)
        BY <1>1, <1>6, <1>8 DEF Web, Imap
    <2> QED
        BY <2>1, <1>4, <1>8
<1>9. CASE row.provider = Microsoft
    <2>1. Secret(row) = full /\ ~Web(row) /\ ~Imap(row)
        BY <1>1, <1>6, <1>9 DEF Web, Imap
    <2> QED
        BY <2>1, <1>2, <1>9
<1>10. CASE row.provider \notin {Gmail, Microsoft}
    <2>1. Secret(row) = named /\ ~Web(row) /\ ~Imap(row)
        BY <1>1, <1>10 DEF Web, Imap
    <2> QED
        BY <2>1, <1>5, <1>10
<1> QED
    BY <1>7, <1>8, <1>9, <1>10 DEF Web, Imap

(* What a sealed row is exported as is built into a row that is valid and     *)
(* sealed into the same mailbox, but for the key, which is the automatic one.  *)
LEMMA BuiltAgain ==
    ASSUME NEW default \in Defaults, NEW raw, raw.values \in [Targets -> Text],
           NEW row, row = Build(Complete(default), raw), row.valid, ~SealFails(row),
           NEW again, again.values = ExportValues(Seal(row)), again.broken <=> again.values["address"] = Empty,
           NEW back, back = Build(Complete(default), again)
    PROVE  /\ back.valid
           /\ Seal(back) = [Seal(row) EXCEPT !.key = AutomaticKey]
<1> DEFINE format == Complete(default)
           w == again.values
           provider == ProviderOf(format, w)
           kind == KindOf(format, w, provider)
           sec == Secret(row)
<1>1. /\ row.provider \in Providers
      /\ row.address \in Text /\ Trim(row.address) = row.address /\ row.address # Empty /\ AddressOK(row.address)
      /\ row.kind # Empty /\ Trim(row.kind) = row.kind
      /\ \A text \in {row.username, row.host, row.port, row.expires, row.platform} : Trim(text) = text
      /\ row.port \in Ports \cup {Empty} /\ row.expires \in Times \cup {Empty}
      /\ row.key \in Text
      /\ row.external # Empty \/ row.token # Empty => row.platform # Empty
      /\ row.provider = Gmail /\ HasCredential(row) /\ row.kind # OAuth
           => row.kind = Password /\ row.username # Empty
    BY RowFields
<1>2. /\ w["provider"] = row.provider /\ w["address"] = row.address
      /\ w["pickup_key"] = AutomaticKey
      /\ HasCredential(row) =>
           /\ w["credential_kind"] = row.kind /\ w["expires_at"] = row.expires
           /\ w["client_id"] = IF row.client = Empty THEN sec.client ELSE row.client
           /\ w["username"] = sec.username /\ w["imap_host"] = sec.host /\ w["imap_port"] = sec.port
           /\ w["refresh_token"] = sec.refresh /\ w["password"] = sec.password
      /\ ~HasCredential(row) =>
           \A t \in {"credential_kind", "expires_at", "client_id", "username", "imap_host", "imap_port",
                     "refresh_token", "password"} : w[t] = Empty
      /\ HasAccount(row) =>
           /\ w["platform"] = row.platform /\ w["platform_external_reference"] = Reference(row)
           /\ w["platform_token"] = row.token
      /\ ~HasAccount(row) =>
           \A t \in {"platform", "platform_external_reference", "platform_token"} : w[t] = Empty
    BY Exported
<1>3. /\ back.provider = provider /\ back.address = Trim(w["address"]) /\ back.kind = kind
      /\ back.client = w["client_id"] /\ back.password = w["password"] /\ back.refresh = w["refresh_token"]
      /\ back.key = w["pickup_key"]
      /\ back.username = IF provider = Gmail /\ kind = Password /\ CredentialDeclared(w) /\ Trim(w["username"]) = Empty
                          THEN Trim(w["address"]) ELSE Trim(w["username"])
      /\ back.host = Trim(w["imap_host"]) /\ back.port = Trim(w["imap_port"]) /\ back.expires = Trim(w["expires_at"])
      /\ back.platform = IF Trim(w["platform"]) = Empty THEN Trim(format.platform) ELSE Trim(w["platform"])
      /\ back.external = w["platform_external_reference"] /\ back.token = w["platform_token"]
      /\ back.valid <=>
           /\ ~again.broken /\ provider \in Providers /\ AddressOK(w["address"])
           /\ Trim(w["imap_port"]) \in Ports \cup {Empty}
           /\ Trim(w["expires_at"]) \in Times \cup {Empty}
           /\ (provider = Gmail /\ CredentialDeclared(w)) => GmailComplete(w, kind)
           /\ (back.external # Empty \/ back.token # Empty) => back.platform # Empty
    BY BuildFields
<1>4. ~again.broken /\ Trim(w["address"]) = row.address
    BY <1>1, <1>2
<1>5. provider = row.provider
    <2>1. Trim(row.provider) = row.provider /\ row.provider # Empty
        BY <1>1, WordsAreTrimmed
    <2> QED
        BY <1>2, <2>1 DEF ProviderOf, Complete
<1>6. HasCredential(row) => kind = row.kind
    BY <1>1, <1>2 DEF KindOf
<1>7. Trim(Empty) = Empty
    BY WordsAreTrimmed
<1> HIDE DEF provider, kind, format, w, sec
<1>8. CredentialDeclared(w) <=> HasCredential(row)
    <2>1. CASE HasCredential(row)
        BY <2>1, <1>1, <1>2 DEF CredentialDeclared
    <2>2. CASE ~HasCredential(row)
        BY <2>2, <1>2, <1>7 DEF CredentialDeclared, ConnectionDeclared
    <2> QED
        BY <2>1, <2>2
(* The credential.                                                            *)
<1>9. row.provider = Gmail /\ row.kind = OAuth
        => /\ sec.client = row.client /\ sec.refresh = row.refresh
           /\ sec.username = Empty /\ sec.password = Empty /\ sec.host = Empty /\ sec.port = Empty
    BY SecretFields DEF sec, Web, Imap
<1>10. row.provider = Gmail /\ row.kind # OAuth
        => /\ sec.client = Empty /\ sec.refresh = Empty
           /\ sec.username = row.username /\ sec.password = row.password /\ sec.host = row.host /\ sec.port = row.port
    BY SecretFields DEF sec, Web, Imap
<1>11. row.provider # Gmail
        => /\ sec.client = row.client /\ sec.refresh = row.refresh
           /\ sec.username = (IF row.provider # Microsoft /\ row.username = Empty /\ row.password # Empty
                                THEN row.address ELSE row.username)
           /\ sec.password = row.password /\ sec.host = row.host /\ sec.port = row.port
    BY SecretFields DEF sec, Web, Imap
<1>12. \A text \in {sec.username, sec.host, sec.port} : Trim(text) = text
    BY <1>1, <1>7, <1>9, <1>10, <1>11
<1>13. ASSUME HasCredential(row)
       PROVE  /\ back.client = row.client /\ back.refresh = sec.refresh /\ back.password = sec.password
              /\ back.username = sec.username /\ back.host = sec.host /\ back.port = sec.port
              /\ back.expires = row.expires /\ back.kind = row.kind /\ back.provider = row.provider
    <2>1. back.client = row.client
        BY <1>13, <1>2, <1>3, <1>9, <1>10, <1>11
    <2>2. back.username = sec.username
        <3>1. CASE row.provider = Gmail /\ row.kind = Password
            <4>1. row.kind # OAuth
                BY <3>1 DEF OAuth, Password
            <4> QED
                BY <4>1, <3>1, <1>13, <1>1, <1>2, <1>3, <1>10, <1>12
        <3>2. CASE ~(row.provider = Gmail /\ row.kind = Password)
            BY <3>2, <1>13, <1>2, <1>3, <1>5, <1>6, <1>12
        <3> QED
            BY <3>1, <3>2
    <2> QED
        BY <2>1, <2>2, <1>13, <1>1, <1>2, <1>3, <1>5, <1>6, <1>12
<1>14. ASSUME HasCredential(row)
       PROVE  HasCredential(back) /\ ~SecretFails(back) /\ Secret(back) = sec
    <2>1. ~SecretFails(row)
        BY <1>14 DEF SealFails
    <2>2. CASE row.provider = Gmail /\ row.kind = OAuth
        <3>1. row.client # Empty /\ row.refresh # Empty
            BY <2>1, <2>2 DEF SecretFails, OAuth, Password
        <3>2. HasCredential(back) /\ ~SecretFails(back)
            BY <3>1, <2>2, <1>9, <1>13, <1>14 DEF HasCredential, SecretFails
        <3>3. Secret(back) = sec
            BY <2>2, <1>9, <1>13, <1>14, SecretFields DEF sec, Web, Imap
        <3> QED
            BY <3>2, <3>3
    <2>3. CASE row.provider = Gmail /\ row.kind # OAuth
        <3>1. row.kind = Password /\ row.password # Empty
            BY <2>1, <2>3 DEF SecretFails
        <3>2. HasCredential(back) /\ ~SecretFails(back)
            BY <3>1, <2>3, <1>10, <1>13, <1>14 DEF HasCredential, SecretFails
        <3>3. Secret(back) = sec
            BY <2>3, <1>10, <1>13, <1>14, SecretFields DEF sec, Web, Imap
        <3> QED
            BY <3>2, <3>3
    <2>4. CASE row.provider # Gmail
        <3>1. back.address = row.address
            BY <1>3, <1>4
        <3>2. ~SecretFails(back)
            BY <2>4, <1>13, <1>14 DEF SecretFails
        <3>3. HasCredential(back)
            BY <2>4, <1>11, <1>1, <1>13, <1>14 DEF HasCredential
        <3>4. Secret(back) = sec
            <4>1. CASE row.provider = Microsoft
                BY <4>1, <2>4, <1>11, <1>13, <1>14 DEF Secret, sec
            <4>2. CASE row.provider # Microsoft
                BY <4>2, <3>1, <2>4, <1>1, <1>11, <1>13, <1>14 DEF Secret, sec
            <4> QED
                BY <4>1, <4>2
        <3> QED
            BY <3>2, <3>3, <3>4
    <2> QED
        BY <2>2, <2>3, <2>4
<1>15. ASSUME ~HasCredential(row) PROVE ~HasCredential(back)
    <2>1. ~CredentialDeclared(w)
        BY <1>8, <1>15
    <2> QED
        BY <2>1, <1>15, <1>2, <1>3, <1>7 DEF HasCredential
(* The account.                                                               *)
<1>16. ASSUME HasAccount(row)
       PROVE  /\ HasAccount(back) /\ back.platform = row.platform /\ Reference(back) = Reference(row)
              /\ back.token = row.token /\ back.platform \in Namespaces /\ Trim(Reference(back)) # Empty
    <2>1. row.platform \in Namespaces /\ Trim(Reference(row)) # Empty
        BY <1>16 DEF SealFails
    <2>2. back.platform = row.platform /\ back.token = row.token /\ back.external = Reference(row) /\ row.platform # Empty
        BY <1>16, <1>1, <1>2, <1>3 DEF HasAccount
    <2>3. Reference(row) # Empty
        BY <2>1, <1>7
    <2> QED
        BY <2>1, <2>2, <2>3 DEF HasAccount, Reference
<1>17. ASSUME ~HasAccount(row) PROVE ~HasAccount(back) /\ back.external = Empty /\ back.token = Empty
    BY <1>17, <1>2, <1>3 DEF HasAccount
(* The key.                                                                   *)
<1>18. Trim(w["pickup_key"]) = w["pickup_key"] /\ w["pickup_key"] # Empty
    BY <1>1, <1>2, TrimmedOnce, WordsAreTrimmed
<1>19. back.valid
    <2>1. Trim(w["imap_port"]) \in Ports \cup {Empty} /\ Trim(w["expires_at"]) \in Times \cup {Empty}
        <3>1. CASE HasCredential(row)
            <4>1. sec.port \in {Empty, row.port}
                BY <1>9, <1>10, <1>11
            <4> QED
                BY <4>1, <3>1, <1>1, <1>2, <1>7
        <3>2. CASE ~HasCredential(row)
            BY <3>2, <1>2, <1>7
        <3> QED
            BY <3>1, <3>2
    <2>2. ASSUME provider = Gmail, CredentialDeclared(w) PROVE GmailComplete(w, kind)
        <3>1. HasCredential(row) /\ kind = row.kind /\ row.provider = Gmail
            BY <2>2, <1>5, <1>6, <1>8
        <3>2. ~SecretFails(row)
            BY <3>1 DEF SealFails
        <3>3. CASE row.kind = OAuth
            <4>1. row.client # Empty /\ row.refresh # Empty
                BY <3>1, <3>2, <3>3 DEF SecretFails, OAuth, Password
            <4>2. ~ConnectionDeclared(w)
                BY <3>1, <3>3, <1>2, <1>7, <1>9 DEF ConnectionDeclared
            <4> QED
                BY <4>1, <4>2, <3>1, <3>3, <1>2, <1>9 DEF GmailComplete
        <3>4. CASE row.kind # OAuth
            BY <3>1, <3>2, <3>4, <1>2, <1>10 DEF GmailComplete, SecretFails
        <3> QED
            BY <3>3, <3>4
    <2>3. (back.external # Empty \/ back.token # Empty) => back.platform # Empty
        BY <1>16, <1>17 DEF HasAccount
    <2>4. provider \in Providers /\ AddressOK(w["address"])
        BY <1>1, <1>2, <1>5
    <2> QED
        BY <2>1, <2>2, <2>3, <2>4, <1>3, <1>4
<1>20. ~SealFails(back)
    <2>1. ~(back.key # Empty /\ Trim(back.key) = Empty)
        BY <1>3, <1>18
    <2>2. ~(HasCredential(back) /\ SecretFails(back))
        BY <1>14, <1>15
    <2>3. ~(HasAccount(back) /\ (back.platform \notin Namespaces \/ Trim(Reference(back)) = Empty))
        BY <1>16, <1>17
    <2> QED
        BY <2>1, <2>2, <2>3 DEF SealFails
<1>21. Seal(back) = [Seal(row) EXCEPT !.key = w["pickup_key"]]
    <2> DEFINE credentialOf(r) == IF HasCredential(r)
                                    THEN [present |-> TRUE, kind |-> r.kind, client |-> r.client,
                                          expires |-> r.expires, secret |-> Secret(r)]
                                    ELSE NotGiven
               accountOf(r) == IF HasAccount(r)
                                 THEN [present |-> TRUE, platform |-> r.platform, external |-> Reference(r), token |-> r.token]
                                 ELSE NotGiven
    <2>1. credentialOf(back) = credentialOf(row)
        <3>1. CASE HasCredential(row)
            BY <3>1, <1>13, <1>14 DEF sec
        <3>2. CASE ~HasCredential(row)
            BY <3>2, <1>15
        <3> QED
            BY <3>1, <3>2
    <2>2. accountOf(back) = accountOf(row)
        <3>1. CASE HasAccount(row)
            BY <3>1, <1>16
        <3>2. CASE ~HasAccount(row)
            BY <3>2, <1>17
        <3> QED
            BY <3>1, <3>2
    <2> DEFINE credential == credentialOf(row)
               account == accountOf(row)
    <2>3. Seal(row) = [failed |-> FALSE, provider |-> row.provider, address |-> row.address, key |-> Trim(row.key),
                       credential |-> credential, account |-> account]
        BY DEF Seal
    <2>4. Seal(back) = [failed |-> FALSE, provider |-> back.provider, address |-> back.address, key |-> Trim(back.key),
                        credential |-> credentialOf(back), account |-> accountOf(back)]
        BY <1>20 DEF Seal
    <2> HIDE DEF credential, account
    <2>5. Seal(back) = [failed |-> FALSE, provider |-> back.provider, address |-> back.address, key |-> Trim(back.key),
                        credential |-> credential, account |-> account]
        BY <2>1, <2>2, <2>4 DEF credential, account
    <2>6. back.provider = row.provider /\ back.address = row.address /\ Trim(back.key) = w["pickup_key"]
        BY <1>3, <1>4, <1>5, <1>18
    <2> HIDE DEF credentialOf, accountOf
    <2> SUFFICES ASSUME NEW sealed, sealed = Seal(row), NEW no, no = FALSE, NEW key, key = w["pickup_key"],
                        NEW kept, kept = [sealed EXCEPT !.key = key]
                 PROVE  Seal(back) = kept
        OBVIOUS
    <2>9. Seal(back) = [failed |-> no, provider |-> row.provider, address |-> row.address, key |-> key,
                        credential |-> credential, account |-> account]
        BY <2>5, <2>6
    <2>7. sealed = [failed |-> no, provider |-> row.provider, address |-> row.address, key |-> Trim(row.key),
                    credential |-> credential, account |-> account]
        BY <2>3
    <2>8. kept = [failed |-> no, provider |-> row.provider, address |-> row.address, key |-> key,
                  credential |-> credential, account |-> account]
        BY <2>7
    <2> QED
        BY <2>8, <2>9
<1> QED
    BY <1>2, <1>19, <1>21

(* A recursive function on numbers exists: a first value, and a step from each *)
(* to the next.                                                                *)
Iterable(m, n, S, first, step) ==
    /\ m \in Nat /\ n \in Nat /\ m <= n /\ first \in S
    /\ \A k \in (m + 1)..n, s \in S : step[<<k, s>>] \in S
Iterates(f, m, n, S, first, step) ==
    f \in [m..n -> S] /\ f[m] = first /\ \A k \in (m + 1)..n : f[k] = step[<<k, f[k - 1]>>]

LEMMA Iterated ==
    ASSUME NEW m, NEW n, NEW S, NEW first, NEW step, Iterable(m, n, S, first, step)
    PROVE  \E f : Iterates(f, m, n, S, first, step)
<1> USE DEF Iterable, Iterates
<1> DEFINE N == n - m
           Solves(f, k) == f \in [m..(m + k) -> S] /\ f[m] = first
                           /\ \A i \in (m + 1)..(m + k) : f[i] = step[<<i, f[i - 1]>>]
           Solved == {k \in 0..N : \E f : Solves(f, k)}
<1>1. N \in Nat
    OBVIOUS
<1>2. 0 \in Solved
    <2> DEFINE f == [i \in m..(m + 0) |-> first]
    <2>1. Solves(f, 0)
        OBVIOUS
    <2> HIDE DEF f, Solves
    <2> QED
        BY <1>1, <2>1
<1>3. \A k \in 0..N : k \in Solved /\ k < N => k + 1 \in Solved
    <2> SUFFICES ASSUME NEW k \in 0..N, k < N, NEW f, Solves(f, k) PROVE k + 1 \in Solved
        OBVIOUS
    <2> DEFINE at == m + k
               last == step[<<at + 1, f[at]>>]
               g == [i \in m..(at + 1) |-> IF i = at + 1 THEN last ELSE f[i]]
    <2>1. k \in Nat /\ at \in m..n /\ at + 1 \in (m + 1)..n /\ at + 1 = m + (k + 1) /\ k + 1 \in 0..N
        BY <1>1
    <2>2. f \in [m..at -> S] /\ f[m] = first /\ \A i \in (m + 1)..at : f[i] = step[<<i, f[i - 1]>>]
        OBVIOUS
    <2>3. last \in S
        BY <2>1, <2>2
    <2> HIDE DEF last, at
    <2>4. g \in [m..(at + 1) -> S] /\ g[at + 1] = last /\ \A i \in m..at : g[i] = f[i]
        BY <2>1, <2>2, <2>3
    <2> HIDE DEF g
    <2>5. m \in m..at /\ \A i \in (m + 1)..at : i \in m..at /\ i - 1 \in m..at
        BY <2>1
    <2>6. \A i \in (m + 1)..at : g[i] = step[<<i, g[i - 1]>>]
        BY <2>2, <2>4, <2>5
    <2>7. g[at + 1] = step[<<at + 1, g[(at + 1) - 1]>>]
        BY <2>1, <2>4 DEF last
    <2>8. \A i \in (m + 1)..(at + 1) : i = at + 1 \/ i \in (m + 1)..at
        BY <2>1
    <2>9. g \in [m..(m + (k + 1)) -> S] /\ g[m] = first
          /\ \A i \in (m + 1)..(m + (k + 1)) : g[i] = step[<<i, g[i - 1]>>]
        BY <2>1, <2>2, <2>4, <2>5, <2>6, <2>7, <2>8
    <2>10. Solves(g, k + 1)
        BY <2>9
    <2> HIDE DEF Solves
    <2> QED
        BY <2>1, <2>10
<1> HIDE DEF Solved
<1>4. N \in Solved
    <2> HIDE DEF N
    <2>1. \A k \in 0..N : k \in Solved
        BY <1>1, <1>2, <1>3, UpTo
    <2>2. N \in 0..N
        BY <1>1
    <2> QED
        BY <2>1, <2>2
<1>5. PICK f : Solves(f, N)
    BY <1>4 DEF Solved
<1>6. m + N = n
    OBVIOUS
<1> HIDE DEF N
<1>7. Iterates(f, m, n, S, first, step)
    BY <1>5, <1>6
<1> QED
    BY <1>7, Zenon

(* Where the parts of a flattened sequence are: part k follows position        *)
(* start[k - 1].                                                               *)
Laid(whole, parts, start) ==
    /\ start \in [0..Len(parts) -> Nat] /\ start[0] = 0 /\ start[Len(parts)] = Len(whole)
    /\ \A k \in 1..Len(parts) :
         /\ start[k] = start[k - 1] + Len(parts[k]) /\ start[k] <= Len(whole)
         /\ \A i \in 1..Len(parts[k]) : whole[start[k - 1] + i] = parts[k][i]

LEMMA Flattened ==
    ASSUME NEW S, NEW seqs \in Seq(Seq(S))
    PROVE  FlattenSeq(seqs) \in Seq(S) /\ \E start : Laid(FlattenSeq(seqs), seqs, start)
<1> DEFINE n == Len(seqs)
           whole == FlattenSeq(seqs)
<1>1. n \in Nat /\ \A k \in 1..n : seqs[k] \in Seq(S) /\ Len(seqs[k]) \in Nat
    OBVIOUS
<1>2. CASE n = 0
    <2>1. seqs = <<>>
        BY <1>2, EmptySeq
    <2>2. whole = <<>>
        BY <1>2, <2>1 DEF FlattenSeq
    <2> DEFINE start == [k \in 0..0 |-> 0]
    <2>3. start \in [0..0 -> Nat] /\ start[0] = 0
        OBVIOUS
    <2>4. Len(whole) = 0 /\ whole \in Seq(S) /\ 1..0 = {}
        BY <2>2
    <2> HIDE DEF start, whole
    <2>5. Laid(whole, seqs, start)
        BY <1>2, <2>3, <2>4 DEF Laid
    <2> QED
        BY <2>4, <2>5 DEF whole
<1>3. CASE n # 0
    <2> DEFINE Flattens(f) == f = [i \in 1..n |-> IF i = 1 THEN seqs[i] ELSE f[i - 1] \o seqs[i]]
               step == [p \in (1..n) \X Seq(S) |-> p[2] \o seqs[p[1]]]
    <2>1. whole = (CHOOSE f : Flattens(f))[n]
        BY <1>3, Zenon DEF FlattenSeq
    <2>2. 1 \in Nat /\ 1 <= n /\ seqs[1] \in Seq(S) /\ 1 \in 1..n
        BY <1>1, <1>3
    <2> HIDE DEF n
    <2>3. \A k \in 2..n, s \in Seq(S) : step[<<k, s>>] = s \o seqs[k] /\ s \o seqs[k] \in Seq(S)
        <3> SUFFICES ASSUME NEW k \in 2..n, NEW s \in Seq(S)
                     PROVE  step[<<k, s>>] = s \o seqs[k] /\ s \o seqs[k] \in Seq(S)
            OBVIOUS
        <3>1. k \in 1..n
            BY <1>1
        <3>2. s \o seqs[k] \in Seq(S)
            BY <3>1, <1>1, ConcatProperties
        <3> QED
            BY <3>1, <3>2
    <2> HIDE DEF step
    <2>4. PICK f \in [1..n -> Seq(S)] : f[1] = seqs[1] /\ \A k \in 2..n : f[k] = step[<<k, f[k - 1]>>]
        <3> DEFINE m == 1
        <3>1. m \in Nat /\ m <= n /\ m + 1 = 2
            BY <2>2
        <3>2. \A k \in 2..n, s \in Seq(S) : step[<<k, s>>] \in Seq(S)
            BY <2>3
        <3> HIDE DEF m
        <3>3. \A k \in (m + 1)..n, s \in Seq(S) : step[<<k, s>>] \in Seq(S)
            BY <3>1, <3>2
        <3>4. \E f \in [m..n -> Seq(S)] : f[m] = seqs[1] /\ \A k \in (m + 1)..n : f[k] = step[<<k, f[k - 1]>>]
            <4> DEFINE T == Seq(S)
                       first == seqs[1]
            <4>1. Iterable(m, n, T, first, step)
                BY <1>1, <2>2, <3>1, <3>3 DEF Iterable
            <4> HIDE DEF T, first
            <4>2. \E f : Iterates(f, m, n, T, first, step)
                BY <4>1, Iterated
            <4> QED
                BY <4>2 DEF T, first, Iterates
        <3> QED
            BY <3>1, <3>4 DEF m
    <2>5. \A k \in 2..n : k - 1 \in 1..n /\ k \in 1..n /\ k # 1
        BY <1>1
    <2>6. \A k \in 2..n : f[k] = f[k - 1] \o seqs[k]
        BY <2>3, <2>4, <2>5
    <2>7. Flattens(f)
        <3>1. \A k \in 1..n : k = 1 \/ k \in 2..n
            BY <1>1
        <3>2. \A k \in 1..n : f[k] = IF k = 1 THEN seqs[k] ELSE f[k - 1] \o seqs[k]
            BY <2>4, <2>5, <2>6, <3>1
        <3> QED
            BY <2>4, <3>2
    <2> HIDE DEF Flattens
    <2>8. PICK h : Flattens(h) /\ whole = h[n]
        BY <2>1, <2>7
    <2>9. h[1] = seqs[1] /\ \A k \in 2..n : h[k] = h[k - 1] \o seqs[k]
        <3>1. h = [i \in 1..n |-> IF i = 1 THEN seqs[i] ELSE h[i - 1] \o seqs[i]]
            BY <2>8 DEF Flattens
        <3>2. \A i \in 1..n : h[i] = IF i = 1 THEN seqs[i] ELSE h[i - 1] \o seqs[i]
            BY <3>1
        <3> QED
            BY <2>2, <2>5, <3>2
    <2> DEFINE Lined == {k \in 0..n : k = 0 \/ h[k] \in Seq(S)}
    <2>10. \A k \in 1..n : h[k] \in Seq(S)
        <3>1. 0 \in Lined
            BY <1>1
        <3>2. ASSUME NEW k \in 0..n, k \in Lined, k < n PROVE k + 1 \in Lined
            <4>1. k + 1 \in 1..n /\ (k = 0 \/ k + 1 \in 2..n) /\ (k + 1) - 1 = k /\ k + 1 \in 0..n
                BY <1>1, <3>2
            <4>2. CASE k = 0
                BY <4>1, <4>2, <1>1, <2>9
            <4>3. CASE k # 0
                <5>1. h[k + 1] = h[k] \o seqs[k + 1] /\ h[k] \in Seq(S) /\ seqs[k + 1] \in Seq(S)
                    BY <4>1, <4>3, <3>2, <1>1, <2>9
                <5>2. h[k + 1] \in Seq(S)
                    BY <5>1, ConcatProperties
                <5> QED
                    BY <4>1, <5>2
            <4> QED
                BY <4>2, <4>3
        <3> HIDE DEF Lined
        <3>3. \A k \in 0..n : k \in Lined
            BY <1>1, <3>1, <3>2, UpTo
        <3> QED
            BY <3>3, <1>1 DEF Lined
    <2>11. \A k \in 2..n : /\ Len(h[k]) = Len(h[k - 1]) + Len(seqs[k])
                           /\ \A i \in 1..Len(h[k - 1]) : h[k][i] = h[k - 1][i]
                           /\ \A i \in 1..Len(seqs[k]) : h[k][Len(h[k - 1]) + i] = seqs[k][i]
        <3> SUFFICES ASSUME NEW k \in 2..n
                     PROVE  /\ Len(h[k]) = Len(h[k - 1]) + Len(seqs[k])
                            /\ \A i \in 1..Len(h[k - 1]) : h[k][i] = h[k - 1][i]
                            /\ \A i \in 1..Len(seqs[k]) : h[k][Len(h[k - 1]) + i] = seqs[k][i]
            OBVIOUS
        <3> DEFINE before == h[k - 1]
                   part == seqs[k]
        <3>1. before \in Seq(S) /\ part \in Seq(S) /\ h[k] = before \o part
            BY <1>1, <2>5, <2>9, <2>10
        <3> HIDE DEF before, part
        <3>2. /\ Len(before) \in Nat /\ Len(part) \in Nat /\ Len(before \o part) = Len(before) + Len(part)
              /\ \A i \in 1..(Len(before) + Len(part)) :
                    (before \o part)[i] = IF i <= Len(before) THEN before[i] ELSE part[i - Len(before)]
            BY <3>1, ConcatProperties, LenProperties
        <3>3. \A i \in 1..Len(before) : (before \o part)[i] = before[i]
            BY <3>2
        <3>4. \A i \in 1..Len(part) : (before \o part)[Len(before) + i] = part[i]
            BY <3>2
        <3> QED
            BY <3>1, <3>2, <3>3, <3>4 DEF before, part
    <2>12. \A k \in 1..n : Len(h[k]) \in Nat
        BY <2>10
    <2> DEFINE Within(k) == Len(h[k]) <= Len(whole) /\ \A i \in 1..Len(h[k]) : whole[i] = h[k][i]
               Reached == {d \in 0..(n - 1) : Within(n - d)}
    <2>13. \A k \in 1..n : Within(k)
        <3>1. n - 1 \in Nat /\ n \in 1..n /\ n - 0 = n
            BY <1>1, <2>2
        <3>2. 0 \in Reached
            BY <3>1, <2>8, <2>12
        <3>3. ASSUME NEW d \in 0..(n - 1), d \in Reached, d < n - 1 PROVE d + 1 \in Reached
            <4> DEFINE k == n - d
            <4>1. k \in 2..n /\ k - 1 \in 1..n /\ k \in 1..n /\ n - (d + 1) = k - 1 /\ d + 1 \in 0..(n - 1)
                BY <3>1, <3>3, <1>1
            <4>2. Within(k)
                BY <3>3
            <4> HIDE DEF k
            <4>3. Len(h[k]) = Len(h[k - 1]) + Len(seqs[k]) /\ \A i \in 1..Len(h[k - 1]) : h[k][i] = h[k - 1][i]
                BY <2>11, <4>1
            <4> DEFINE a == Len(h[k - 1])
                       b == Len(seqs[k])
                       c == Len(h[k])
                       w == Len(whole)
            <4>4. a \in Nat /\ b \in Nat /\ c \in Nat /\ w \in Nat /\ c = a + b /\ c <= w
                BY <1>1, <2>8, <2>12, <3>1, <4>1, <4>2, <4>3
            <4>5. \A i \in 1..a : h[k][i] = h[k - 1][i]
                BY <4>3
            <4>6. \A i \in 1..c : whole[i] = h[k][i]
                BY <4>2
            <4> HIDE DEF a, b, c, w, whole
            <4>7. a <= w /\ \A i \in 1..a : i \in 1..c
                BY <4>4
            <4>8. Within(k - 1)
                BY <4>5, <4>6, <4>7 DEF a, w
            <4> QED
                BY <4>1, <4>8
        <3> HIDE DEF Reached
        <3>4. \A d \in 0..(n - 1) : d \in Reached
            <4> DEFINE N == n - 1
            <4>1. N \in Nat /\ \A d \in 0..N : d \in Reached /\ d < N => d + 1 \in Reached
                BY <3>1, <3>3
            <4> HIDE DEF N
            <4>2. \A d \in 0..N : d \in Reached
                BY <3>2, <4>1, UpTo
            <4> QED
                BY <4>2 DEF N
        <3> SUFFICES ASSUME NEW k \in 1..n PROVE Within(k)
            OBVIOUS
        <3>5. n - k \in 0..(n - 1) /\ n - (n - k) = k
            BY <1>1
        <3>6. n - k \in Reached
            BY <3>4, <3>5
        <3> HIDE DEF Within
        <3>7. Within(n - (n - k))
            BY <3>6 DEF Reached
        <3> QED
            BY <3>5, <3>7
    <2> DEFINE start == [k \in 0..n |-> IF k = 0 THEN 0 ELSE Len(h[k])]
    <2>14. /\ start \in [0..n -> Nat] /\ start[0] = 0 /\ start[n] = Len(whole)
           /\ \A k \in 1..n : start[k] = Len(h[k])
        BY <1>1, <2>2, <2>8, <2>12
    <2> HIDE DEF start, whole
    <2>15. ASSUME NEW k \in 1..n
           PROVE  /\ start[k] = start[k - 1] + Len(seqs[k]) /\ start[k] <= Len(whole)
                  /\ \A i \in 1..Len(seqs[k]) : whole[start[k - 1] + i] = seqs[k][i]
        <3>1. Within(k)
            BY <2>13
        <3>2. start[k] <= Len(whole)
            BY <3>1, <2>14
        <3>3. CASE k = 1
            <4>1. h[k] = seqs[k] /\ start[k - 1] = 0
                BY <3>3, <2>9, <2>14
            <4>2. start[k] = start[k - 1] + Len(seqs[k])
                BY <4>1, <1>1, <2>14
            <4>3. \A i \in 1..Len(seqs[k]) : start[k - 1] + i = i
                BY <4>1
            <4> QED
                BY <4>1, <4>2, <4>3, <3>1, <3>2
        <3>4. CASE k # 1
            <4>1. k \in 2..n /\ k - 1 \in 1..n
                BY <3>4, <1>1
            <4>2. /\ Len(h[k]) = Len(h[k - 1]) + Len(seqs[k])
                  /\ \A i \in 1..Len(seqs[k]) : h[k][Len(h[k - 1]) + i] = seqs[k][i]
                BY <4>1, <2>11
            <4>3. start[k - 1] = Len(h[k - 1]) /\ start[k] = Len(h[k])
                BY <4>1, <2>14
            <4> DEFINE a == Len(h[k - 1])
                       b == Len(seqs[k])
                       c == Len(h[k])
            <4>4. a \in Nat /\ b \in Nat /\ c = a + b
                BY <1>1, <2>12, <4>1, <4>2
            <4>5. (\A i \in 1..b : h[k][a + i] = seqs[k][i]) /\ \A i \in 1..c : whole[i] = h[k][i]
                BY <3>1, <4>2
            <4> HIDE DEF a, b, c
            <4>6. \A i \in 1..b : a + i \in 1..c
                BY <4>4
            <4>7. \A i \in 1..b : whole[a + i] = seqs[k][i]
                BY <4>5, <4>6
            <4> QED
                BY <3>2, <4>2, <4>3, <4>7 DEF a, b
        <3> QED
            BY <3>3, <3>4
    <2>16. Laid(whole, seqs, start)
        BY <2>14, <2>15 DEF Laid, n
    <2>17. whole \in Seq(S)
        BY <2>2, <2>8, <2>10, <1>1
    <2> QED
        BY <2>16, <2>17 DEF whole
<1> QED
    BY <1>2, <1>3

(* The symbols of texts and of what surrounds them.                           *)
Words == {"gmail", "microsoft", "cloudflare_route", "gmail_oauth", "microsoft_graph_oauth", "imap_password", "import", "key"}
Symbols == STRING \cup Words \cup {Quote, Dash, Escape}

(* A literal stands at a place.                                               *)
Stands(text, i, literal) ==
    i + Len(literal) <= Len(text) + 1 /\ \A k \in 1..Len(literal) : text[i + k - 1] = literal[k]

LEMMA PrefixAt ==
    ASSUME NEW text \in Seq(Symbols), NEW literal \in Seq(Symbols), NEW i \in 1..(Len(text) + 1)
    PROVE  IsPrefix(literal, SubSeq(text, i, Len(text))) <=> Stands(text, i, literal)
<1> DEFINE n == Len(text)
           m == Len(literal)
           rest == SubSeq(text, i, n)
           head == SubSeq(rest, 1, m)
<1>1. n \in Nat /\ m \in Nat /\ i \in 1..(n + 1)
    OBVIOUS
<1>2. /\ rest \in Seq(Symbols) /\ Len(rest) = n + 1 - i
      /\ \A k \in 1..(n + 1 - i) : rest[k] = text[i + k - 1]
    OBVIOUS
<1>3. SubSeq(literal, 1, m) = literal
    OBVIOUS
<1>4. IsPrefix(literal, rest) <=> m <= Len(rest) /\ literal = head
    BY <1>3 DEF IsPrefix
<1> HIDE DEF n, rest
<1>5. CASE m <= n + 1 - i
    <2>1. \A k \in 1..m : k \in 1..(n + 1 - i) /\ rest[k] \in Symbols
        BY <1>1, <1>2, <1>5
    <2>2. head \in Seq(Symbols) /\ Len(head) = m /\ \A k \in 1..m : head[k] = rest[k]
        BY <1>1, <1>2, <1>5, <2>1
    <2>3. \A k \in 1..m : head[k] = text[i + k - 1]
        BY <1>2, <2>1, <2>2
    <2> HIDE DEF head
    <2>4. literal = head <=> \A k \in 1..m : literal[k] = head[k]
        <3>1. ASSUME \A k \in 1..m : literal[k] = head[k] PROVE literal = head
            BY <2>2, <3>1, SeqEqual
        <3> QED
            BY <3>1
    <2>5. i + m <= n + 1
        BY <1>1, <1>5
    <2> QED
        BY <1>2, <1>4, <1>5, <2>3, <2>4, <2>5 DEF Stands, n, rest
<1>6. CASE ~(m <= n + 1 - i)
    <2>1. ~(i + m <= n + 1)
        BY <1>1, <1>6
    <2> QED
        BY <1>2, <1>4, <1>6, <2>1 DEF Stands, n, rest
<1> QED
    BY <1>5, <1>6

LEMMA DelimiterIs ==
    ASSUME NEW line \in Seq(Symbols), NEW i \in 1..Len(line)
    PROVE  DelimiterAt(line, i) <=> i < Len(line) /\ line[i] = Dash /\ line[i + 1] = Dash
<1> DEFINE n == Len(line)
           d == Delimiter
<1>1. n \in Nat /\ i \in 1..(n + 1)
    OBVIOUS
<1>2. d \in Seq(Symbols) /\ Len(d) = 2 /\ d[1] = Dash /\ d[2] = Dash
    <2>1. Dash \in Symbols
        BY DEF Symbols
    <2> HIDE DEF Dash
    <2> QED
        BY <2>1 DEF Delimiter
<1>3. DelimiterAt(line, i) = IsPrefix(d, SubSeq(line, i, Len(line)))
    BY DEF DelimiterAt
<1> HIDE DEF d
<1>4. DelimiterAt(line, i) <=> Stands(line, i, d)
    BY <1>1, <1>2, <1>3, PrefixAt
<1>5. Stands(line, i, d) <=> i + 2 <= n + 1 /\ \A k \in 1..2 : line[i + k - 1] = d[k]
    BY <1>2 DEF Stands
<1>6. (\A k \in 1..2 : line[i + k - 1] = d[k]) <=> line[i] = Dash /\ line[i + 1] = Dash
    <2>1. 1..2 = {1, 2} /\ i + 1 - 1 = i /\ i + 2 - 1 = i + 1
        BY <1>1
    <2> HIDE DEF n
    <2> QED
        BY <1>2, <2>1
<1>7. i + 2 <= n + 1 <=> i < n
    BY <1>1
<1> QED
    BY <1>4, <1>5, <1>6, <1>7

-----------------------------------------------------------------------------
(* The reader of a line.                                                      *)
Reader(at, inside, field, fields) == [at |-> at, inside |-> inside, field |-> field, fields |-> fields]
Readers == [at : Nat \ {0}, inside : BOOLEAN, field : Seq(Symbols), fields : Seq(Seq(Symbols))]

LEMMA AdvanceIs ==
    ASSUME NEW line \in Seq(Symbols), NEW at \in Nat \ {0}, NEW inside \in BOOLEAN, NEW field, NEW fields
    PROVE  LET next == Advance(line, Reader(at, inside, field, fields)) IN
           /\ at > Len(line) => next = Reader(at, inside, field, fields)
           /\ at <= Len(line) /\ line[at] = Quote =>
                IF inside /\ at < Len(line) /\ line[at + 1] = Quote
                  THEN next = Reader(at + 2, inside, Append(field, Quote), fields)
                  ELSE next = Reader(at + 1, ~inside, field, fields)
           /\ at <= Len(line) /\ line[at] # Quote =>
                IF ~inside /\ DelimiterAt(line, at)
                  THEN next = Reader(at + 2, inside, Empty, Append(fields, field))
                  ELSE next = Reader(at + 1, inside, Append(field, line[at]), fields)
<1> DEFINE s == Reader(at, inside, field, fields)
           next == Advance(line, s)
<1>1. s.at = at /\ s.inside = inside /\ s.field = field /\ s.fields = fields
    BY DEF Reader
<1>2. s = [at |-> at, inside |-> inside, field |-> field, fields |-> fields]
    BY DEF Reader
<1>3. Len(Delimiter) = 2
    BY DEF Delimiter
<1>4. next = IF s.at > Len(line) THEN s
             ELSE IF line[s.at] = Quote
               THEN IF s.inside /\ s.at < Len(line) /\ line[s.at + 1] = Quote
                      THEN [s EXCEPT !.at = @ + 2, !.field = Append(@, Quote)]
                      ELSE [s EXCEPT !.at = @ + 1, !.inside = ~@]
             ELSE IF ~s.inside /\ DelimiterAt(line, s.at)
               THEN [s EXCEPT !.at = @ + Len(Delimiter), !.fields = Append(@, s.field), !.field = Empty]
             ELSE [s EXCEPT !.at = @ + 1, !.field = Append(@, line[s.at])]
    BY Zenon DEF Advance
<1> HIDE DEF s, next
<1>5. ASSUME NEW a, NEW b, NEW f
      PROVE  /\ [s EXCEPT !.at = a, !.field = f] = Reader(a, inside, f, fields)
             /\ [s EXCEPT !.at = a, !.inside = b] = Reader(a, b, field, fields)
    <2>1. [s EXCEPT !.at = a, !.field = f] = Reader(a, inside, f, fields)
        <3> SUFFICES ASSUME NEW changed, changed = [s EXCEPT !.at = a, !.field = f] PROVE changed = Reader(a, inside, f, fields)
            OBVIOUS
        <3> QED
            BY <1>2 DEF Reader
    <2>2. [s EXCEPT !.at = a, !.inside = b] = Reader(a, b, field, fields)
        <3> SUFFICES ASSUME NEW changed, changed = [s EXCEPT !.at = a, !.inside = b] PROVE changed = Reader(a, b, field, fields)
            OBVIOUS
        <3> QED
            BY <1>2 DEF Reader
    <2> QED
        BY <2>1, <2>2
<1>6. [s EXCEPT !.at = @ + 2, !.field = Append(@, Quote)] = Reader(at + 2, inside, Append(field, Quote), fields)
    <2>1. [s EXCEPT !.at = s.at + 2, !.field = Append(s.field, Quote)] = Reader(s.at + 2, inside, Append(s.field, Quote), fields)
        BY <1>5
    <2> QED
        BY <2>1, <1>1
<1>7. [s EXCEPT !.at = @ + 1, !.inside = ~@] = Reader(at + 1, ~inside, field, fields)
    <2>1. [s EXCEPT !.at = s.at + 1, !.inside = ~s.inside] = Reader(s.at + 1, ~s.inside, field, fields)
        BY <1>5
    <2> QED
        BY <2>1, <1>1
<1>8. /\ [s EXCEPT !.at = @ + 2, !.fields = Append(@, s.field), !.field = Empty]
            = Reader(at + 2, inside, Empty, Append(fields, field))
      /\ [s EXCEPT !.at = @ + 1, !.field = Append(@, line[s.at])] = Reader(at + 1, inside, Append(field, line[at]), fields)
    <2>1. [s EXCEPT !.at = s.at + 2, !.fields = Append(s.fields, s.field), !.field = Empty]
            = Reader(s.at + 2, inside, Empty, Append(s.fields, s.field))
        <3> SUFFICES ASSUME NEW a, a = s.at + 2, NEW f, f = Empty, NEW g, g = Append(s.fields, s.field)
                     PROVE  [s EXCEPT !.at = a, !.fields = g, !.field = f] = Reader(a, inside, f, g)
            OBVIOUS
        <3> SUFFICES ASSUME NEW changed, changed = [s EXCEPT !.at = a, !.fields = g, !.field = f]
                     PROVE  changed = Reader(a, inside, f, g)
            OBVIOUS
        <3> QED
            BY <1>2 DEF Reader
    <2>2. [s EXCEPT !.at = s.at + 1, !.field = Append(s.field, line[s.at])]
            = Reader(s.at + 1, inside, Append(s.field, line[s.at]), fields)
        BY <1>5
    <2> QED
        BY <2>1, <2>2, <1>1
<1>9. Len(line) \in Nat
    OBVIOUS
<1>10. ASSUME at > Len(line) PROVE next = s
    BY <1>1, <1>4, <1>10
<1>11. ASSUME at <= Len(line), line[at] = Quote
       PROVE  IF inside /\ at < Len(line) /\ line[at + 1] = Quote
                  THEN next = Reader(at + 2, inside, Append(field, Quote), fields)
                  ELSE next = Reader(at + 1, ~inside, field, fields)
    <2>1. ~(at > Len(line))
        BY <1>9, <1>11
    <2>2. next = IF inside /\ at < Len(line) /\ line[at + 1] = Quote
                      THEN [s EXCEPT !.at = @ + 2, !.field = Append(@, Quote)]
                      ELSE [s EXCEPT !.at = @ + 1, !.inside = ~@]
        BY <2>1, <1>1, <1>4, <1>11, Zenon
    <2> QED
        BY <2>2, <1>6, <1>7, Zenon
<1>12. ASSUME at <= Len(line), line[at] # Quote
       PROVE  IF ~inside /\ DelimiterAt(line, at)
                  THEN next = Reader(at + 2, inside, Empty, Append(fields, field))
                  ELSE next = Reader(at + 1, inside, Append(field, line[at]), fields)
    <2>1. ~(at > Len(line))
        BY <1>9, <1>12
    <2>2. next = IF ~inside /\ DelimiterAt(line, at)
                   THEN [s EXCEPT !.at = @ + 2, !.fields = Append(@, s.field), !.field = Empty]
                   ELSE [s EXCEPT !.at = @ + 1, !.field = Append(@, line[s.at])]
        BY <2>1, <1>1, <1>3, <1>4, <1>12, Zenon
    <2> QED
        BY <2>2, <1>8, Zenon
<1> QED
    BY <1>10, <1>11, <1>12 DEF s, next

LEMMA AdvanceTyped ==
    ASSUME NEW line \in Seq(Symbols), NEW s \in Readers
    PROVE  Advance(line, s) \in Readers
<1>1. PICK at \in Nat \ {0}, inside \in BOOLEAN, field \in Seq(Symbols), fields \in Seq(Seq(Symbols)) :
         s = Reader(at, inside, field, fields)
    <2>1. s.at \in Nat \ {0} /\ s.inside \in BOOLEAN /\ s.field \in Seq(Symbols) /\ s.fields \in Seq(Seq(Symbols))
          /\ s = Reader(s.at, s.inside, s.field, s.fields)
        BY DEF Readers, Reader
    <2> QED
        BY <2>1
<1>2. \A a \in Nat \ {0}, b \in BOOLEAN, f \in Seq(Symbols), g \in Seq(Seq(Symbols)) : Reader(a, b, f, g) \in Readers
    BY DEF Reader, Readers
<1>3. Quote \in Symbols /\ Empty \in Seq(Symbols)
    BY DEF Symbols, Empty
<1>4. Append(field, Quote) \in Seq(Symbols) /\ Append(fields, field) \in Seq(Seq(Symbols))
    BY <1>3, AppendProperties
<1>5. at <= Len(line) => line[at] \in Symbols /\ Append(field, line[at]) \in Seq(Symbols)
    OBVIOUS
<1>6. (~inside) \in BOOLEAN
    BY SMT
<1>10. at + 1 \in Nat \ {0} /\ at + 2 \in Nat \ {0}
    OBVIOUS
<1>7. Len(line) \in Nat /\ (at > Len(line) \/ at <= Len(line))
    OBVIOUS
<1> DEFINE next == Advance(line, Reader(at, inside, field, fields))
<1>8. \/ next = Reader(at, inside, field, fields)
      \/ next = Reader(at + 2, inside, Append(field, Quote), fields)
      \/ next = Reader(at + 1, ~inside, field, fields)
      \/ next = Reader(at + 2, inside, Empty, Append(fields, field))
      \/ at <= Len(line) /\ next = Reader(at + 1, inside, Append(field, line[at]), fields)
    <2>1. /\ at > Len(line) => next = Reader(at, inside, field, fields)
          /\ at <= Len(line) /\ line[at] = Quote =>
               IF inside /\ at < Len(line) /\ line[at + 1] = Quote
                 THEN next = Reader(at + 2, inside, Append(field, Quote), fields)
                 ELSE next = Reader(at + 1, ~inside, field, fields)
          /\ at <= Len(line) /\ line[at] # Quote =>
               IF ~inside /\ DelimiterAt(line, at)
                 THEN next = Reader(at + 2, inside, Empty, Append(fields, field))
                 ELSE next = Reader(at + 1, inside, Append(field, line[at]), fields)
        BY AdvanceIs
    <2> HIDE DEF next
    <2>2. CASE at <= Len(line) /\ line[at] = Quote
        BY <2>1, <2>2, Zenon
    <2>3. CASE at <= Len(line) /\ line[at] # Quote
        BY <2>1, <2>3, Zenon
    <2>4. CASE at > Len(line)
        BY <2>1, <2>4, Zenon
    <2> QED
        BY <2>2, <2>3, <2>4, <1>7, Zenon
<1> HIDE DEF next
<1>11. Reader(at, inside, field, fields) \in Readers /\ Reader(at + 2, inside, Append(field, Quote), fields) \in Readers
       /\ Reader(at + 2, inside, Empty, Append(fields, field)) \in Readers
    BY <1>2, <1>3, <1>4, <1>10
<1>12. Reader(at + 1, ~inside, field, fields) \in Readers
    BY <1>2, <1>6, <1>10, Zenon
<1>13. at <= Len(line) => Reader(at + 1, inside, Append(field, line[at]), fields) \in Readers
    BY <1>2, <1>5, <1>10
<1>9. next \in Readers
    BY <1>8, <1>11, <1>12, <1>13, Zenon
<1> QED
    BY <1>1, <1>9 DEF next

LEMMA ReadingIs ==
    ASSUME NEW line \in Seq(Symbols)
    PROVE  /\ Reading(line)[0] = Reader(1, FALSE, Empty, <<>>)
           /\ \A k \in 1..Len(line) : Reading(line)[k] = Advance(line, Reading(line)[k - 1])
<1> DEFINE n == Len(line)
           first == [at |-> 1, inside |-> FALSE, field |-> Empty, fields |-> <<>>]
           Reads(f) == f = [k \in 0..n |-> IF k = 0 THEN first ELSE Advance(line, f[k - 1])]
           step == [p \in (1..n) \X Readers |-> Advance(line, p[2])]
           T == Readers
<1>1. n \in Nat
    OBVIOUS
<1>2. Reading(line) = CHOOSE f : Reads(f)
    BY DEF Reading
<1>3. first \in T /\ first = Reader(1, FALSE, Empty, <<>>)
    BY DEF Readers, Empty, Reader
<1> HIDE DEF n, first
<1>4. \A k \in 1..n, s \in T : step[<<k, s>>] = Advance(line, s) /\ Advance(line, s) \in T
    <2> SUFFICES ASSUME NEW k \in 1..n, NEW s \in T PROVE step[<<k, s>>] = Advance(line, s) /\ Advance(line, s) \in T
        OBVIOUS
    <2>1. Advance(line, s) \in T
        BY AdvanceTyped
    <2> QED
        BY <2>1
<1> HIDE DEF step, T
<1>5. PICK f : f \in [0..n -> T] /\ f[0] = first /\ \A k \in 1..n : f[k] = step[<<k, f[k - 1]>>]
    <2> DEFINE m == 0
    <2>1. m \in Nat /\ m <= n /\ m + 1 = 1
        BY <1>1
    <2> HIDE DEF m
    <2>2. Iterable(m, n, T, first, step)
        BY <1>1, <1>3, <1>4, <2>1 DEF Iterable
    <2>3. PICK f : Iterates(f, m, n, T, first, step)
        BY <2>2, Iterated
    <2>4. f \in [m..n -> T] /\ f[m] = first /\ \A k \in 1..n : f[k] = step[<<k, f[k - 1]>>]
        BY <2>1, <2>3 DEF Iterates
    <2> QED
        BY <2>4 DEF m
<1>6. \A k \in 1..n : k \in 0..n /\ k - 1 \in 0..n /\ k # 0
    BY <1>1
<1>7. \A k \in 0..n : k = 0 \/ k \in 1..n
    BY <1>1
<1>8. Reads(f)
    <2>1. \A k \in 1..n : f[k] = Advance(line, f[k - 1])
        BY <1>4, <1>5, <1>6
    <2>2. \A k \in 0..n : f[k] = IF k = 0 THEN first ELSE Advance(line, f[k - 1])
        BY <2>1, <1>5, <1>6, <1>7
    <2> QED
        BY <2>2, <1>5
<1> HIDE DEF Reads
<1>9. PICK h : Reads(h) /\ Reading(line) = h
    BY <1>2, <1>8
<1>10. \A k \in 0..n : h[k] = IF k = 0 THEN first ELSE Advance(line, h[k - 1])
    <2>1. h = [k \in 0..n |-> IF k = 0 THEN first ELSE Advance(line, h[k - 1])]
        BY <1>9 DEF Reads
    <2> QED
        BY <2>1
<1>11. 0 \in 0..n
    BY <1>1
<1> QED
    BY <1>3, <1>6, <1>9, <1>10, <1>11 DEF n

(* The reader gets into a state, having taken fewer steps than symbols.       *)
Reached(line, s) == \E k \in 0..Len(line) : Reading(line)[k] = s /\ k < s.at

LEMMA ReachedNext ==
    ASSUME NEW line \in Seq(Symbols), NEW s, Reached(line, s), s.at \in 1..Len(line),
           NEW next, next = Advance(line, s), next.at \in Nat, next.at > s.at
    PROVE  Reached(line, next)
<1>1. Len(line) \in Nat
    OBVIOUS
<1>2. PICK k \in 0..Len(line) : Reading(line)[k] = s /\ k < s.at
    BY DEF Reached
<1> DEFINE n == Len(line)
           at == s.at
           then == next.at
           l == k + 1
<1>3. n \in Nat /\ k \in Nat /\ at \in 1..n /\ then \in Nat /\ then > at /\ k < at
    BY <1>1, <1>2
<1> HIDE DEF n, at, then
<1>4. l \in 1..n /\ l \in 0..n /\ l - 1 = k /\ l < then
    BY <1>3
<1> HIDE DEF l
<1>5. Reading(line)[l] = Advance(line, Reading(line)[l - 1])
    BY <1>4, ReadingIs DEF n
<1>6. Reading(line)[l] = next
    BY <1>2, <1>4, <1>5
<1> QED
    BY <1>4, <1>6 DEF Reached, n, then

LEMMA ReachedEnd ==
    ASSUME NEW line \in Seq(Symbols), NEW at \in Nat \ {0}, NEW inside \in BOOLEAN, NEW field, NEW fields,
           Reached(line, Reader(at, inside, field, fields)), at > Len(line)
    PROVE  Reading(line)[Len(line)] = Reader(at, inside, field, fields)
<1> DEFINE n == Len(line)
           s == Reader(at, inside, field, fields)
<1>1. n \in Nat
    OBVIOUS
<1>2. Advance(line, s) = s
    BY AdvanceIs
<1> HIDE DEF s
<1>3. PICK k \in 0..n : Reading(line)[k] = s
    BY DEF Reached, s
<1> HIDE DEF n
<1> DEFINE Stays == {l \in 0..n : k <= l => Reading(line)[l] = s}
<1>4. 0 \in Stays
    BY <1>1, <1>3
<1>5. ASSUME NEW l \in 0..n, l \in Stays, l < n PROVE l + 1 \in Stays
    <2> DEFINE m == l + 1
    <2>1. m \in 1..n /\ m \in 0..n /\ m - 1 = l /\ (k <= m => k = m \/ k <= l)
        BY <1>1, <1>5
    <2> HIDE DEF m
    <2>2. Reading(line)[m] = Advance(line, Reading(line)[m - 1])
        BY <2>1, ReadingIs DEF n
    <2>3. m \in Stays
        BY <2>1, <2>2, <1>2, <1>3, <1>5
    <2> QED
        BY <2>3 DEF m
<1> HIDE DEF Stays
<1>6. \A l \in 0..n : l \in Stays
    BY <1>1, <1>4, <1>5, UpTo
<1>7. n \in 0..n /\ k <= n
    BY <1>1
<1>8. Reading(line)[n] = s
    BY <1>6, <1>7 DEF Stays
<1> QED
    BY <1>8 DEF n, s

(* What the reader does with a symbol, a doubled quote, a single quote and a  *)
(* delimiter.                                                                 *)
LEMMA ReadOn ==
    ASSUME NEW line \in Seq(Symbols), NEW at \in 1..Len(line), NEW inside \in BOOLEAN, NEW field, NEW fields,
           Reached(line, Reader(at, inside, field, fields))
    PROVE  /\ line[at] # Quote /\ (inside \/ ~DelimiterAt(line, at))
                => Reached(line, Reader(at + 1, inside, Append(field, line[at]), fields))
           /\ inside /\ at < Len(line) /\ line[at] = Quote /\ line[at + 1] = Quote
                => Reached(line, Reader(at + 2, inside, Append(field, Quote), fields))
           /\ line[at] = Quote /\ ~(inside /\ at < Len(line) /\ line[at + 1] = Quote)
                => Reached(line, Reader(at + 1, ~inside, field, fields))
           /\ line[at] # Quote /\ ~inside /\ DelimiterAt(line, at)
                => Reached(line, Reader(at + 2, inside, Empty, Append(fields, field)))
<1> DEFINE s == Reader(at, inside, field, fields)
           next == Advance(line, s)
<1>1. at \in Nat \ {0} /\ at <= Len(line) /\ Len(line) \in Nat
    OBVIOUS
<1>2. s.at = at /\ \A a, b, f, g : Reader(a, b, f, g).at = a
    BY DEF Reader
<1>3. /\ line[at] = Quote =>
           IF inside /\ at < Len(line) /\ line[at + 1] = Quote
             THEN next = Reader(at + 2, inside, Append(field, Quote), fields)
             ELSE next = Reader(at + 1, ~inside, field, fields)
      /\ line[at] # Quote =>
           IF ~inside /\ DelimiterAt(line, at)
             THEN next = Reader(at + 2, inside, Empty, Append(fields, field))
             ELSE next = Reader(at + 1, inside, Append(field, line[at]), fields)
    BY <1>1, AdvanceIs
<1> HIDE DEF s
<1>4. ASSUME NEW to, to \in {at + 1, at + 2}, NEW b, NEW f, NEW g, next = Reader(to, b, f, g)
      PROVE  Reached(line, Reader(to, b, f, g))
    <2> DEFINE t == Reader(to, b, f, g)
    <2>1. t = Advance(line, s) /\ t.at = to
        BY <1>2, <1>4
    <2>2. to \in Nat /\ to > at
        BY <1>1, <1>4
    <2>3. Reached(line, s)
        BY DEF s
    <2> HIDE DEF t, next
    <2>4. s.at \in 1..Len(line)
        BY <1>2
    <2>5. Reached(line, t)
        BY <2>1, <2>2, <2>3, <2>4, <1>2, ReachedNext
    <2> QED
        BY <2>5 DEF t
<1> HIDE DEF next
<1>5. ASSUME line[at] # Quote, inside \/ ~DelimiterAt(line, at)
      PROVE  Reached(line, Reader(at + 1, inside, Append(field, line[at]), fields))
    <2>1. next = Reader(at + 1, inside, Append(field, line[at]), fields)
        BY <1>3, <1>5, Zenon
    <2> QED
        BY <2>1, <1>4
<1>6. ASSUME inside, at < Len(line), line[at] = Quote, line[at + 1] = Quote
      PROVE  Reached(line, Reader(at + 2, inside, Append(field, Quote), fields))
    <2>1. next = Reader(at + 2, inside, Append(field, Quote), fields)
        BY <1>3, <1>6, Zenon
    <2> QED
        BY <2>1, <1>4
<1>7. ASSUME line[at] = Quote, ~(inside /\ at < Len(line) /\ line[at + 1] = Quote)
      PROVE  Reached(line, Reader(at + 1, ~inside, field, fields))
    <2>1. next = Reader(at + 1, ~inside, field, fields)
        BY <1>3, <1>7, Zenon
    <2>2. at + 1 \in {at + 1, at + 2}
        OBVIOUS
    <2> QED
        BY <2>1, <2>2, <1>4, Zenon
<1>8. ASSUME line[at] # Quote, ~inside, DelimiterAt(line, at)
      PROVE  Reached(line, Reader(at + 2, inside, Empty, Append(fields, field)))
    <2>1. next = Reader(at + 2, inside, Empty, Append(fields, field))
        BY <1>3, <1>8, Zenon
    <2> QED
        BY <2>1, <1>4
<1> QED
    BY <1>5, <1>6, <1>7, <1>8, Zenon

(* A text grows symbol by symbol.                                             *)
LEMMA Prefixed ==
    ASSUME NEW S, NEW text \in Seq(S)
    PROVE  /\ SubSeq(text, 1, 0) = <<>> /\ SubSeq(text, 1, Len(text)) = text
           /\ \A j \in 0..(Len(text) - 1) : Append(SubSeq(text, 1, j), text[j + 1]) = SubSeq(text, 1, j + 1)
<1> DEFINE n == Len(text)
<1>1. n \in Nat
    OBVIOUS
<1>2. SubSeq(text, 1, 0) = <<>> /\ SubSeq(text, 1, n) = text
    OBVIOUS
<1>3. ASSUME NEW j \in 0..(n - 1) PROVE Append(SubSeq(text, 1, j), text[j + 1]) = SubSeq(text, 1, j + 1)
    <2> DEFINE short == SubSeq(text, 1, j)
               long == SubSeq(text, 1, j + 1)
               both == Append(short, text[j + 1])
    <2>1. j \in Nat /\ j + 1 \in 1..n
        BY <1>1
    <2>2. /\ short \in Seq(S) /\ Len(short) = j /\ \A i \in 1..j : short[i] = text[i]
          /\ long \in Seq(S) /\ Len(long) = j + 1 /\ \A i \in 1..(j + 1) : long[i] = text[i]
          /\ text[j + 1] \in S
        BY <1>1, <2>1
    <2> HIDE DEF short, long, n
    <2>3. both \in Seq(S) /\ Len(both) = j + 1 /\ (\A i \in 1..j : both[i] = short[i]) /\ both[j + 1] = text[j + 1]
        BY <2>2, AppendProperties
    <2> HIDE DEF both
    <2>4. \A i \in 1..(j + 1) : i \in 1..j \/ i = j + 1
        BY <2>1
    <2>5. \A i \in 1..(j + 1) : both[i] = long[i]
        BY <2>1, <2>2, <2>3, <2>4
    <2>6. both = long
        BY <2>2, <2>3, <2>5, SeqEqual
    <2> QED
        BY <2>6 DEF both, short, long
<1> QED
    BY <1>2, <1>3

(* A written value stands in a line after position o, and no quote behind it.  *)
WrittenAfter(line, o, code) ==
    /\ o \in Nat /\ o + Len(code) <= Len(line) /\ \A i \in 1..Len(code) : line[o + i] = code[i]
    /\ o + Len(code) < Len(line) => line[o + Len(code) + 1] # Quote

LEMMA Encoded ==
    ASSUME NEW value \in Seq(Symbols)
    PROVE  /\ EncodeValue(value) \in Seq(Symbols)
           /\ ~Quoted(value) => EncodeValue(value) = value
           /\ Quoted(value) => \E body, start :
                LET doubled == [i \in DOMAIN value |-> IF value[i] = Quote THEN <<Quote, Quote>> ELSE <<value[i]>>]
                    code == EncodeValue(value)
                IN  /\ body \in Seq(Symbols) /\ Laid(body, doubled, start)
                    /\ Len(code) = Len(body) + 2 /\ code[1] = Quote /\ code[Len(body) + 2] = Quote
                    /\ \A i \in 1..Len(body) : code[i + 1] = body[i]
<1> DEFINE doubled == [i \in DOMAIN value |-> IF value[i] = Quote THEN <<Quote, Quote>> ELSE <<value[i]>>]
           body == FlattenSeq(doubled)
           quote == <<Quote>>
           code == quote \o body \o quote
<1>1. Quote \in Symbols
    BY DEF Symbols
<1>2. CASE ~Quoted(value)
    BY <1>2 DEF EncodeValue
<1>3. CASE Quoted(value)
    <2>1. EncodeValue(value) = code
        BY <1>3 DEF EncodeValue
    <2>2. doubled \in Seq(Seq(Symbols))
        <3>1. \A i \in DOMAIN value : doubled[i] \in Seq(Symbols)
            BY <1>1
        <3>2. DOMAIN value = 1..Len(value) /\ Len(value) \in Nat
            OBVIOUS
        <3> QED
            BY <3>1, <3>2
    <2> HIDE DEF doubled
    <2>3. body \in Seq(Symbols) /\ \E start : Laid(body, doubled, start)
        BY <2>2, Flattened
    <2>4. quote \in Seq(Symbols) /\ Len(quote) = 1 /\ quote[1] = Quote
        BY <1>1
    <2> HIDE DEF body, quote
    <2> DEFINE both == quote \o body
               n == Len(body)
    <2>5. n \in Nat
        BY <2>3
    <2>6. both \in Seq(Symbols) /\ Len(both) = 1 + n
          /\ \A i \in 1..(1 + n) : both[i] = IF i <= 1 THEN quote[i] ELSE body[i - 1]
        <3>1. both \in Seq(Symbols) /\ Len(both) = Len(quote) + Len(body)
              /\ \A i \in 1..(Len(quote) + Len(body)) : both[i] = IF i <= Len(quote) THEN quote[i] ELSE body[i - Len(quote)]
            BY <2>3, <2>4, ConcatProperties
        <3> HIDE DEF both
        <3> QED
            BY <3>1, <2>4
    <2> HIDE DEF both, n
    <2>7. code = both \o quote
        BY DEF both
    <2> HIDE DEF code
    <2>8. code \in Seq(Symbols) /\ Len(code) = (1 + n) + 1
          /\ \A i \in 1..((1 + n) + 1) : code[i] = IF i <= 1 + n THEN both[i] ELSE quote[i - (1 + n)]
        <3>1. code \in Seq(Symbols) /\ Len(code) = Len(both) + Len(quote)
              /\ \A i \in 1..(Len(both) + Len(quote)) : code[i] = IF i <= Len(both) THEN both[i] ELSE quote[i - Len(both)]
            BY <2>4, <2>6, <2>7, ConcatProperties
        <3> QED
            BY <3>1, <2>4, <2>6
    <2>9. code[1] = Quote
        BY <2>4, <2>5, <2>6, <2>8
    <2>10. code[n + 2] = Quote
        <3>1. n + 2 \in 1..((1 + n) + 1) /\ ~(n + 2 <= 1 + n) /\ (n + 2) - (1 + n) = 1
            BY <2>5
        <3> QED
            BY <3>1, <2>4, <2>8
    <2>11. \A i \in 1..n : code[i + 1] = body[i]
        <3> SUFFICES ASSUME NEW i \in 1..n PROVE code[i + 1] = body[i]
            OBVIOUS
        <3>1. i + 1 \in 1..((1 + n) + 1) /\ i + 1 <= 1 + n /\ i + 1 \in 1..(1 + n) /\ ~(i + 1 <= 1) /\ (i + 1) - 1 = i
            BY <2>5
        <3> QED
            BY <3>1, <2>6, <2>8
    <2>12. Len(code) = n + 2
        BY <2>5, <2>8
    <2>13. PICK start : Laid(body, doubled, start)
        BY <2>3
    <2>14. \E start9 : Laid(body, doubled, start9)
        BY <2>13
    <2>15. /\ body \in Seq(Symbols) /\ Laid(body, doubled, start)
           /\ Len(code) = Len(body) + 2 /\ code[1] = Quote /\ code[Len(body) + 2] = Quote
           /\ \A i \in 1..Len(body) : code[i + 1] = body[i]
        BY <2>3, <2>9, <2>10, <2>11, <2>12, <2>13 DEF n
    <2>16. \E b, s : /\ b \in Seq(Symbols) /\ Laid(b, doubled, s)
                     /\ Len(code) = Len(b) + 2 /\ code[1] = Quote /\ code[Len(b) + 2] = Quote
                     /\ \A i \in 1..Len(b) : code[i + 1] = b[i]
        BY <2>15, Zenon
    <2> QED
        BY <1>3, <2>1, <2>8, <2>16, Zenon DEF doubled
<1> QED
    BY <1>2, <1>3

LEMMA ValueRead ==
    ASSUME NEW line \in Seq(Symbols), NEW value \in Seq(Symbols), value # Empty => Last(value) # Dash,
           NEW fields, NEW o, WrittenAfter(line, o, EncodeValue(value)),
           Reached(line, Reader(o + 1, FALSE, Empty, fields))
    PROVE  Reached(line, Reader(o + Len(EncodeValue(value)) + 1, FALSE, value, fields))
<1> DEFINE n == Len(value)
           w == Len(line)
           part(j) == SubSeq(value, 1, j)
<1>1. n \in Nat /\ w \in Nat /\ o \in Nat
    BY DEF WrittenAfter
<1>2. part(0) = Empty /\ part(n) = value /\ \A j \in 0..(n - 1) : Append(part(j), value[j + 1]) = part(j + 1)
    BY Prefixed DEF Empty
<1>3. n > 0 => value[n] # Dash
    <2> SUFFICES ASSUME n > 0 PROVE value[n] # Dash
        OBVIOUS
    <2>1. value # Empty
        BY DEF Empty
    <2> QED
        BY <2>1 DEF Last
<1> HIDE DEF part
<1>4. CASE ~Quoted(value)
    <2> DEFINE Crossed == {j \in 0..n : Reached(line, Reader(o + j + 1, FALSE, part(j), fields))}
    <2>1. EncodeValue(value) = value
        BY <1>4, Encoded
    <2>2. o + n <= w /\ \A i \in 1..n : line[o + i] = value[i]
        BY <2>1 DEF WrittenAfter
    <2>3. \A i \in 1..n : value[i] # Quote /\ ~DelimiterAt(value, i)
        BY <1>4 DEF Quoted
    <2>4. \A i \in 1..n : i < n /\ value[i] = Dash => value[i + 1] # Dash
        BY <2>3, DelimiterIs
    <2>5. 0 \in Crossed
        <3>1. o + 0 + 1 = o + 1 /\ 0 \in 0..n
            BY <1>1
        <3> DEFINE at == o + 0 + 1
                   none == part(0)
        <3>2. at = o + 1 /\ none = Empty
            BY <1>2, <3>1
        <3> HIDE DEF at, none
        <3>3. Reached(line, Reader(at, FALSE, none, fields))
            BY <3>2
        <3> QED
            BY <3>1, <3>3 DEF at, none
    <2>6. ASSUME NEW j \in 0..n, j \in Crossed, j < n PROVE j + 1 \in Crossed
        <3> DEFINE at == o + j + 1
                   k == j + 1
        <3>1. Reached(line, Reader(at, FALSE, part(j), fields))
            BY <2>6
        <3>2. k \in 1..n /\ k \in 0..n /\ j \in 0..(n - 1) /\ at = o + k
            BY <1>1, <2>6
        <3> HIDE DEF n, w
        <3>3. at \in 1..w /\ at + 1 = o + k + 1 /\ k \in Nat
            BY <1>1, <2>2, <3>2
        <3> HIDE DEF at
        <3>4. line[at] = value[k]
            BY <2>2, <3>2
        <3>5. line[at] # Quote
            BY <2>3, <3>2, <3>4
        <3>6. ~DelimiterAt(line, at)
            <4> SUFFICES ASSUME DelimiterAt(line, at) PROVE FALSE
                OBVIOUS
            <4>1. at < w /\ line[at] = Dash /\ line[at + 1] = Dash
                BY <3>3, DelimiterIs DEF w
            <4>2. CASE k = n
                <5>1. n > 0
                    BY <3>2, <1>1
                <5> QED
                    BY <4>1, <4>2, <5>1, <3>4, <1>3 DEF n
            <4>3. CASE k # n
                <5>1. k < n /\ k + 1 \in 1..n /\ at + 1 = o + (k + 1)
                    BY <1>1, <3>2, <3>3, <4>3
                <5>2. line[at + 1] = value[k + 1]
                    BY <5>1, <2>2
                <5> QED
                    BY <5>1, <5>2, <4>1, <3>4, <3>2, <2>4
            <4> QED
                BY <4>2, <4>3
        <3>7. Reached(line, Reader(at + 1, FALSE, Append(part(j), line[at]), fields))
            BY <3>1, <3>3, <3>5, <3>6, ReadOn DEF w
        <3>8. Append(part(j), line[at]) = part(k)
            BY <1>2, <3>2, <3>4
        <3>9. Reached(line, Reader(o + k + 1, FALSE, part(k), fields))
            BY <3>3, <3>7, <3>8
        <3> QED
            BY <3>2, <3>9
    <2> HIDE DEF Crossed
    <2>7. \A j \in 0..n : j \in Crossed
        BY <1>1, <2>5, <2>6, UpTo
    <2>8. n \in 0..n
        BY <1>1
    <2>9. Reached(line, Reader(o + n + 1, FALSE, part(n), fields))
        BY <2>7, <2>8 DEF Crossed
    <2> QED
        BY <2>1, <2>9, <1>2
<1>5. CASE Quoted(value)
    <2> DEFINE code == EncodeValue(value)
               doubled == [i \in DOMAIN value |-> IF value[i] = Quote THEN <<Quote, Quote>> ELSE <<value[i]>>]
    <2>1. PICK body, start :
            /\ body \in Seq(Symbols) /\ Laid(body, doubled, start)
            /\ Len(code) = Len(body) + 2 /\ code[1] = Quote /\ code[Len(body) + 2] = Quote
            /\ \A i \in 1..Len(body) : code[i + 1] = body[i]
        BY <1>5, Encoded
    <2> DEFINE m == Len(body)
               Crossed == {j \in 0..n : Reached(line, Reader(o + start[j] + 2, TRUE, part(j), fields))}
    <2>2. m \in Nat
        BY <2>1
    <2>3. /\ o + (m + 2) <= w /\ (\A i \in 1..(m + 2) : line[o + i] = code[i])
          /\ o + (m + 2) < w => line[o + (m + 2) + 1] # Quote
        BY <2>1 DEF WrittenAfter
    <2> HIDE DEF code
    <2>4. line[o + 1] = Quote /\ line[o + m + 2] = Quote /\ \A i \in 1..m : line[o + i + 1] = body[i]
        <3>1. 1 \in 1..(m + 2) /\ m + 2 \in 1..(m + 2) /\ o + (m + 2) = o + m + 2
            BY <1>1, <2>2
        <3>2. \A i \in 1..m : i + 1 \in 1..(m + 2) /\ o + (i + 1) = o + i + 1
            BY <1>1, <2>2
        <3> QED
            BY <3>1, <3>2, <2>1, <2>3
    <2>5. Len(doubled) = n
        <3>1. DOMAIN value = 1..n
            OBVIOUS
        <3>2. DOMAIN doubled = 1..n
            BY <3>1
        <3>3. doubled \in Seq({<<Quote, Quote>>} \cup {<<value[i]>> : i \in 1..n})
            BY <1>1, <3>1
        <3> HIDE DEF doubled
        <3> QED
            BY <3>2, <3>3, <1>1, LenProperties
    <2>6. /\ start \in [0..n -> Nat] /\ start[0] = 0 /\ start[n] = m
          /\ \A k \in 1..n : /\ start[k] = start[k - 1] + Len(doubled[k]) /\ start[k] <= m
                             /\ \A i \in 1..Len(doubled[k]) : body[start[k - 1] + i] = doubled[k][i]
        BY <2>1, <2>5, Zenon DEF Laid
    <2>7. ASSUME NEW k \in 1..n
          PROVE  /\ value[k] = Quote => /\ start[k] = start[k - 1] + 2
                                        /\ body[start[k - 1] + 1] = Quote /\ body[start[k - 1] + 2] = Quote
                 /\ value[k] # Quote => start[k] = start[k - 1] + 1 /\ body[start[k - 1] + 1] = value[k]
        <3>1. doubled[k] = IF value[k] = Quote THEN <<Quote, Quote>> ELSE <<value[k]>>
            OBVIOUS
        <3> HIDE DEF doubled
        <3>2. start[k] = start[k - 1] + Len(doubled[k]) /\ \A i \in 1..Len(doubled[k]) : body[start[k - 1] + i] = doubled[k][i]
            BY <2>6
        <3>3. CASE value[k] = Quote
            <4>1. Len(doubled[k]) = 2 /\ doubled[k][1] = Quote /\ doubled[k][2] = Quote
                BY <3>1, <3>3
            <4>2. 1 \in 1..2 /\ 2 \in 1..2
                OBVIOUS
            <4> QED
                BY <3>2, <3>3, <4>1, <4>2
        <3>4. CASE value[k] # Quote
            <4>1. Len(doubled[k]) = 1 /\ doubled[k][1] = value[k]
                BY <3>1, <3>4
            <4>2. 1 \in 1..1
                OBVIOUS
            <4> QED
                BY <3>2, <3>4, <4>1, <4>2
        <3> QED
            BY <3>3, <3>4
    <2> HIDE DEF doubled
    <2>8. 0 \in Crossed
        <3> DEFINE at == o + 1
        <3>1. at \in 1..w /\ at + 1 = o + 0 + 2
            BY <1>1, <2>2, <2>3
        <3> HIDE DEF at, w
        <3>2. Reached(line, Reader(at, FALSE, Empty, fields))
            BY DEF at
        <3>3. line[at] = Quote
            BY <2>4 DEF at
        <3>4. Reached(line, Reader(at + 1, ~FALSE, Empty, fields))
            BY <3>1, <3>2, <3>3, ReadOn DEF w
        <3>5. Reached(line, Reader(at + 1, TRUE, Empty, fields))
            BY <3>4
        <3> DEFINE to == o + start[0] + 2
                   none == part(0)
        <3>6. to = at + 1 /\ none = Empty /\ 0 \in 0..n
            BY <1>1, <1>2, <2>6, <3>1
        <3> HIDE DEF to, none
        <3>7. Reached(line, Reader(to, TRUE, none, fields))
            BY <3>5, <3>6
        <3> QED
            BY <3>6, <3>7 DEF to, none
    <2>9. ASSUME NEW j \in 0..n, j \in Crossed, j < n PROVE j + 1 \in Crossed
        <3> DEFINE at == o + start[j] + 2
                   k == j + 1
        <3>1. Reached(line, Reader(at, TRUE, part(j), fields))
            BY <2>9
        <3>2. k \in 1..n /\ k \in 0..n /\ j \in 0..(n - 1) /\ k - 1 = j
            BY <1>1, <2>9
        <3>3. start[j] \in Nat /\ start[k] \in Nat /\ start[k] <= m
            BY <2>6, <3>2
        <3> HIDE DEF n, w, m
        <3>4. Append(part(j), value[k]) = part(k)
            BY <1>2, <3>2
        <3> HIDE DEF k
        <3>5. CASE value[k] = Quote
            <4>1. start[k] = start[j] + 2 /\ body[start[j] + 1] = Quote /\ body[start[j] + 2] = Quote
                BY <2>7, <3>2, <3>5
            <4>2. start[j] + 1 \in 1..m /\ start[j] + 2 \in 1..m /\ o + (start[j] + 1) + 1 = at
                  /\ o + (start[j] + 2) + 1 = at + 1 /\ at \in 1..w /\ at < w /\ at + 2 = o + start[k] + 2
                <5> DEFINE p == start[j]
                           q == start[k]
                <5>1. p \in Nat /\ q \in Nat /\ q <= m /\ q = p + 2 /\ at = o + p + 2
                    BY <4>1, <3>3
                <5>2. o + (m + 2) <= w
                    BY <2>3
                <5> HIDE DEF p, q, at
                <5>3. p + 1 \in 1..m /\ p + 2 \in 1..m /\ o + (p + 1) + 1 = at
                      /\ o + (p + 2) + 1 = at + 1 /\ at \in 1..w /\ at < w /\ at + 2 = o + q + 2
                    BY <5>1, <5>2, <2>2, <1>1
                <5> QED
                    BY <5>3 DEF p, q
            <4>3. line[at] = Quote /\ line[at + 1] = Quote
                BY <4>1, <4>2, <2>4
            <4> HIDE DEF at
            <4>4. Reached(line, Reader(at + 2, TRUE, Append(part(j), Quote), fields))
                BY <3>1, <4>2, <4>3, ReadOn DEF w
            <4>5. Reached(line, Reader(o + start[k] + 2, TRUE, part(k), fields))
                BY <4>2, <4>4, <3>4, <3>5
            <4> QED
                BY <4>5, <3>2 DEF k
        <3>6. CASE value[k] # Quote
            <4>1. start[k] = start[j] + 1 /\ body[start[j] + 1] = value[k]
                BY <2>7, <3>2, <3>6
            <4>2. start[j] + 1 \in 1..m /\ o + (start[j] + 1) + 1 = at
                  /\ at \in 1..w /\ at + 1 = o + start[k] + 2
                <5> DEFINE p == start[j]
                           q == start[k]
                <5>1. p \in Nat /\ q \in Nat /\ q <= m /\ q = p + 1 /\ at = o + p + 2
                    BY <4>1, <3>3
                <5>2. o + (m + 2) <= w
                    BY <2>3
                <5> HIDE DEF p, q, at
                <5>3. p + 1 \in 1..m /\ o + (p + 1) + 1 = at
                      /\ at \in 1..w /\ at + 1 = o + q + 2
                    BY <5>1, <5>2, <2>2, <1>1
                <5> QED
                    BY <5>3 DEF p, q
            <4>3. line[at] = value[k]
                BY <4>1, <4>2, <2>4
            <4> HIDE DEF at
            <4>4. Reached(line, Reader(at + 1, TRUE, Append(part(j), line[at]), fields))
                BY <3>1, <3>6, <4>2, <4>3, ReadOn DEF w
            <4>5. Reached(line, Reader(o + start[k] + 2, TRUE, part(k), fields))
                BY <4>2, <4>3, <4>4, <3>4
            <4> QED
                BY <4>5, <3>2 DEF k
        <3> QED
            BY <3>5, <3>6
    <2> HIDE DEF Crossed
    <2>10. \A j \in 0..n : j \in Crossed
        BY <1>1, <2>8, <2>9, UpTo
    <2>11. n \in 0..n
        BY <1>1
    <2>12. Reached(line, Reader(o + m + 2, TRUE, value, fields))
        BY <2>6, <2>10, <2>11, <1>2 DEF Crossed
    <2> DEFINE at == o + m + 2
    <2>13. at \in 1..w /\ o + (m + 2) = at /\ o + Len(code) + 1 = at + 1
        BY <1>1, <2>1, <2>2, <2>3
    <2>14. line[at] = Quote /\ (at < w => line[at + 1] # Quote)
        BY <2>3, <2>4, <2>13
    <2>15. Reached(line, Reader(at, TRUE, value, fields))
        BY <2>12
    <2> HIDE DEF at, w
    <2>16. Reached(line, Reader(at + 1, ~TRUE, value, fields))
        BY <2>13, <2>14, <2>15, ReadOn DEF w
    <2>17. Reached(line, Reader(at + 1, FALSE, value, fields))
        BY <2>16
    <2> QED
        BY <2>13, <2>17 DEF code
<1> QED
    BY <1>4, <1>5

(* A function from an initial segment of the numbers is a sequence.           *)
LEMMA Listed ==
    ASSUME NEW S, NEW m \in Nat, NEW f \in [1..m -> S]
    PROVE  f \in Seq(S) /\ Len(f) = m
OBVIOUS

(* What is written as a line is read back, value by value.                    *)
LEMMA LineRead ==
    ASSUME NEW values \in Seq(Seq(Symbols)), Len(values) > 0,
           \A i \in 1..Len(values) : values[i] # Empty => Last(values[i]) # Dash
    PROVE  ParseLine(EncodeLine(values)) = [values |-> values, unclosed |-> FALSE]
<1> DEFINE n == Len(values)
           line == EncodeLine(values)
           w == Len(line)
           code(i) == EncodeValue(values[i])
           pieces == [i \in DOMAIN values |-> IF i = 1 THEN code(i) ELSE Delimiter \o code(i)]
           before(k) == SubSeq(values, 1, k)
           delimiter == Delimiter
<1>1. n \in Nat /\ n > 0 /\ DOMAIN values = 1..n /\ \A i \in 1..n : values[i] \in Seq(Symbols)
    OBVIOUS
<1>2. delimiter \in Seq(Symbols) /\ Len(delimiter) = 2 /\ delimiter[1] = Dash /\ delimiter[2] = Dash
    <2>1. Dash \in Symbols
        BY DEF Symbols
    <2> HIDE DEF Dash
    <2> QED
        BY <2>1 DEF Delimiter
<1>3. \A i \in 1..n : code(i) \in Seq(Symbols) /\ Len(code(i)) \in Nat
    BY <1>1, Encoded
<1>4. line = FlattenSeq(pieces)
    BY DEF EncodeLine
<1>5. before(0) = <<>> /\ before(n) = values /\ \A j \in 0..(n - 1) : Append(before(j), values[j + 1]) = before(j + 1)
    BY Prefixed
<1> HIDE DEF code, delimiter, before
<1>6. DOMAIN pieces = 1..n /\ pieces[1] = code(1) /\ \A i \in 2..n : pieces[i] = delimiter \o code(i)
    BY <1>1 DEF delimiter
<1> HIDE DEF n, pieces
<1>7. \A i \in 2..n : /\ pieces[i] \in Seq(Symbols) /\ Len(pieces[i]) = 2 + Len(code(i))
                      /\ pieces[i][1] = Dash /\ pieces[i][2] = Dash
                      /\ \A j \in 1..Len(code(i)) : pieces[i][j + 2] = code(i)[j]
    <2> SUFFICES ASSUME NEW i \in 2..n
                 PROVE  /\ pieces[i] \in Seq(Symbols) /\ Len(pieces[i]) = 2 + Len(code(i))
                        /\ pieces[i][1] = Dash /\ pieces[i][2] = Dash
                        /\ \A j \in 1..Len(code(i)) : pieces[i][j + 2] = code(i)[j]
        OBVIOUS
    <2> DEFINE value == code(i)
               piece == pieces[i]
               m == Len(value)
    <2>1. i \in 1..n
        BY <1>1
    <2>2. value \in Seq(Symbols) /\ m \in Nat /\ piece = delimiter \o value
        BY <2>1, <1>3, <1>6
    <2> HIDE DEF value, piece
    <2>3. piece \in Seq(Symbols) /\ Len(piece) = Len(delimiter) + m
          /\ \A j \in 1..(Len(delimiter) + m) : piece[j] = IF j <= Len(delimiter) THEN delimiter[j] ELSE value[j - Len(delimiter)]
        BY <2>2, <1>2, ConcatProperties
    <2>4. Len(piece) = 2 + m /\ \A j \in 1..(2 + m) : piece[j] = IF j <= 2 THEN delimiter[j] ELSE value[j - 2]
        BY <2>3, <1>2
    <2> HIDE DEF m
    <2>5. 1 \in 1..(2 + m) /\ 2 \in 1..(2 + m) /\ \A j \in 1..m : j + 2 \in 1..(2 + m) /\ ~(j + 2 <= 2) /\ (j + 2) - 2 = j
        BY <2>2
    <2>6. piece[1] = Dash /\ piece[2] = Dash
        BY <2>4, <2>5, <1>2
    <2>7. \A j \in 1..m : piece[j + 2] = value[j]
        BY <2>4, <2>5
    <2> QED
        BY <2>3, <2>4, <2>6, <2>7 DEF m, value, piece
<1>8. pieces \in Seq(Seq(Symbols)) /\ Len(pieces) = n
    <2>1. \A i \in 1..n : i = 1 \/ i \in 2..n
        BY <1>1
    <2>2. \A i \in 1..n : pieces[i] \in Seq(Symbols)
        BY <2>1, <1>1, <1>3, <1>6, <1>7
    <2>3. pieces = [i \in 1..n |-> pieces[i]]
        BY <1>6 DEF pieces
    <2>4. pieces \in [1..n -> Seq(Symbols)]
        BY <2>2, <2>3
    <2> QED
        BY <2>4, <1>1, Listed
<1> HIDE DEF line
<1>9. line \in Seq(Symbols) /\ \E start : Laid(line, pieces, start)
    BY <1>4, <1>8, Flattened
<1>10. PICK start : Laid(line, pieces, start)
    BY <1>9
<1>11. /\ start \in [0..n -> Nat] /\ start[0] = 0 /\ start[n] = w
       /\ \A k \in 1..n : /\ start[k] = start[k - 1] + Len(pieces[k]) /\ start[k] <= w
                          /\ \A i \in 1..Len(pieces[k]) : line[start[k - 1] + i] = pieces[k][i]
    BY <1>8, <1>10, Zenon DEF Laid
<1>12. w \in Nat
    BY <1>9
<1> HIDE DEF w
<1>13. \A k \in 0..n : k \in 1..n => start[k] \in Nat /\ start[k - 1] \in Nat
    BY <1>1, <1>11
(* Behind a value there is a delimiter, or the end.                           *)
<1>14. ASSUME NEW k \in 1..n, k < n
       PROVE  /\ start[k] + 2 <= w /\ line[start[k] + 1] = Dash /\ line[start[k] + 2] = Dash
              /\ start[k + 1] = start[k] + 2 + Len(code(k + 1))
              /\ \A j \in 1..Len(code(k + 1)) : line[(start[k] + 2) + j] = code(k + 1)[j]
    <2> DEFINE l == k + 1
               piece == pieces[l]
               value == code(l)
               m == Len(value)
               p == start[k]
               q == start[l]
    <2>1. l \in 2..n /\ l \in 1..n /\ l - 1 = k
        BY <1>1, <1>14
    <2>2. /\ Len(piece) = 2 + m /\ piece[1] = Dash /\ piece[2] = Dash
          /\ \A j \in 1..m : piece[j + 2] = value[j]
        BY <2>1, <1>7
    <2>3. q = p + Len(piece) /\ q <= w /\ \A i \in 1..Len(piece) : line[p + i] = piece[i]
        BY <2>1, <1>11
    <2>4. p \in Nat /\ q \in Nat /\ m \in Nat
        BY <2>1, <1>3, <1>11, <1>13
    <2> HIDE DEF l, piece, value, m, p, q
    <2>8. q = p + (2 + m) /\ q <= w
        BY <2>2, <2>3
    <2>5. 1 \in 1..(2 + m) /\ 2 \in 1..(2 + m) /\ p + 2 <= w /\ q = p + 2 + m
          /\ \A j \in 1..m : j + 2 \in 1..(2 + m) /\ p + (j + 2) = (p + 2) + j
        BY <2>4, <2>8, <1>12
    <2>6. line[p + 1] = Dash /\ line[p + 2] = Dash
        BY <2>2, <2>3, <2>5
    <2>7. \A j \in 1..m : line[(p + 2) + j] = value[j]
        BY <2>2, <2>3, <2>5
    <2> QED
        BY <2>5, <2>6, <2>7 DEF l, value, m, p, q
<1>15. ASSUME NEW k \in 1..n PROVE start[k] < w => line[start[k] + 1] # Quote
    <2>1. CASE k < n
        BY <2>1, <1>14 DEF Quote, Dash
    <2>2. CASE ~(k < n)
        <3>1. k = n
            BY <2>2, <1>1
        <3> QED
            BY <3>1, <1>11, <1>12
    <2> QED
        BY <2>1, <2>2
<1> DEFINE Through == {k \in 0..n : k = 0 \/ Reached(line, Reader(start[k] + 1, FALSE, values[k], before(k - 1)))}
<1>16. 0 \in Through
    BY <1>1
<1>17. ASSUME NEW j \in 0..n, j \in Through, j < n PROVE j + 1 \in Through
    <2> DEFINE k == j + 1
               value == values[k]
               c == EncodeValue(value)
               o == IF j = 0 THEN 0 ELSE start[j] + 2
    <2>1. k \in 1..n /\ k \in 0..n /\ j \in 0..(n - 1) /\ k - 1 = j
        BY <1>1, <1>17
    <2>2. value \in Seq(Symbols) /\ (value # Empty => Last(value) # Dash) /\ c \in Seq(Symbols) /\ Len(c) \in Nat
        BY <2>1, <1>1, <1>3 DEF code, n
    <2>3. start[k] = o + Len(c) /\ o \in Nat /\ \A i \in 1..Len(c) : line[o + i] = c[i]
        <3>1. CASE j = 0
            <4>1. k = 1 /\ pieces[k] = c /\ o = 0
                BY <3>1, <1>6 DEF code
            <4>2. start[k] = start[0] + Len(c) /\ \A i \in 1..Len(c) : line[start[0] + i] = c[i]
                BY <4>1, <2>1, <1>11
            <4> HIDE DEF c
            <4> QED
                BY <4>1, <4>2, <1>11
        <3>2. CASE j # 0
            <4>1. j \in 1..n /\ o = start[j] + 2 /\ start[j] \in Nat
                BY <3>2, <1>1, <1>11
            <4> HIDE DEF o
            <4>2. c = code(j + 1)
                BY DEF code
            <4> HIDE DEF c
            <4>3. start[j + 1] = start[j] + 2 + Len(c) /\ \A i \in 1..Len(c) : line[(start[j] + 2) + i] = c[i]
                BY <4>1, <4>2, <1>14, <1>17
            <4> DEFINE p == start[j]
                       q == start[j + 1]
                       m == Len(c)
            <4>4. q = p + 2 + m /\ p \in Nat /\ m \in Nat /\ o = p + 2 /\ \A i \in 1..m : line[(p + 2) + i] = c[i]
                BY <4>1, <4>3, <2>2 DEF c
            <4> HIDE DEF p, q, m
            <4>5. q = o + m /\ o \in Nat /\ \A i \in 1..m : line[o + i] = c[i]
                BY <4>4
            <4> QED
                BY <4>5 DEF q, m
        <3> QED
            BY <3>1, <3>2
    <2>4. Reached(line, Reader(o + 1, FALSE, Empty, before(j)))
        <3>1. CASE j = 0
            <4>1. Reading(line)[0] = Reader(1, FALSE, Empty, <<>>)
                BY <1>9, ReadingIs
            <4>2. Reader(1, FALSE, Empty, <<>>).at = 1
                BY DEF Reader
            <4>3. 0 \in 0..Len(line) /\ 0 < 1
                BY <1>12 DEF w
            <4>4. Reached(line, Reader(1, FALSE, Empty, <<>>))
                BY <4>1, <4>2, <4>3 DEF Reached
            <4>5. o + 1 = 1 /\ before(j) = <<>>
                BY <3>1, <1>5
            <4> QED
                BY <4>4, <4>5
        <3>2. CASE j # 0
            <4> DEFINE at == start[j] + 1
            <4>1. j \in 1..n /\ j - 1 \in 0..(n - 1) /\ (j - 1) + 1 = j /\ start[j] \in Nat
                BY <3>2, <1>1, <1>11
            <4>2. Reached(line, Reader(at, FALSE, values[j], before(j - 1)))
                BY <1>17, <3>2
            <4>3. start[j] + 2 <= w /\ line[start[j] + 1] = Dash /\ line[start[j] + 2] = Dash
                BY <4>1, <1>14, <1>17
            <4>4. at \in 1..w /\ at < w /\ at + 1 = start[j] + 2 /\ at + 2 = o + 1
                <5> DEFINE p == start[j]
                <5>1. p \in Nat /\ p + 2 <= w /\ o = p + 2 /\ at = p + 1
                    BY <4>1, <4>3, <3>2
                <5> HIDE DEF p, at, o
                <5>2. at \in 1..w /\ at < w /\ at + 1 = p + 2 /\ at + 2 = o + 1
                    BY <5>1, <1>12
                <5> QED
                    BY <5>2 DEF p
            <4>5. line[at] = Dash /\ line[at + 1] = Dash
                BY <4>3, <4>4
            <4> HIDE DEF at, o
            <4>6. DelimiterAt(line, at) /\ line[at] # Quote
                BY <4>4, <4>5, <1>9, DelimiterIs DEF w, Quote, Dash
            <4>7. Reached(line, Reader(at + 2, FALSE, Empty, Append(before(j - 1), values[j])))
                BY <4>2, <4>4, <4>6, <1>9, ReadOn DEF w
            <4>8. Append(before(j - 1), values[j]) = before(j)
                BY <4>1, <1>5
            <4> QED
                BY <4>4, <4>7, <4>8
        <3> QED
            BY <3>1, <3>2
    <2>5. WrittenAfter(line, o, c)
        <3>1. start[k] <= w /\ (start[k] < w => line[start[k] + 1] # Quote)
            BY <2>1, <1>11, <1>15
        <3> HIDE DEF c, o
        <3> QED
            BY <2>3, <3>1 DEF WrittenAfter, w
    <2>6. Reached(line, Reader(o + Len(c) + 1, FALSE, value, before(j)))
        <3> HIDE DEF value, o
        <3> QED
            BY <2>2, <2>4, <2>5, <1>9, ValueRead
    <2>7. Reached(line, Reader(start[k] + 1, FALSE, values[k], before(k - 1)))
        <3>1. o + Len(c) + 1 = start[k] + 1 /\ before(k - 1) = before(j)
            BY <2>1, <2>3
        <3> HIDE DEF o, c
        <3> QED
            BY <2>6, <3>1
    <2> HIDE DEF k
    <2>8. k \in Through
        BY <2>1, <2>7
    <2> QED
        BY <2>8 DEF k
<1> HIDE DEF Through
<1>18. \A k \in 0..n : k \in Through
    BY <1>1, <1>16, <1>17, UpTo
<1> DEFINE at == w + 1
           end == Reader(at, FALSE, values[n], before(n - 1))
<1>19. n \in 0..n /\ n # 0 /\ n - 1 \in 0..(n - 1) /\ (n - 1) + 1 = n /\ at \in Nat \ {0} /\ at > w
    BY <1>1, <1>12
<1>20. Reached(line, end)
    BY <1>11, <1>18, <1>19 DEF Through
<1>21. Reading(line)[Len(line)] = end
    <2> HIDE DEF at
    <2> QED
        BY <1>9, <1>19, <1>20, ReachedEnd DEF w
<1>22. end.field = values[n] /\ end.fields = before(n - 1) /\ end.inside = FALSE
    BY DEF Reader
<1>23. Append(before(n - 1), values[n]) = values
    BY <1>5, <1>19
<1> HIDE DEF end
<1>24. ParseLine(line) = [values |-> Append(end.fields, end.field), unclosed |-> end.inside]
    BY <1>21 DEF ParseLine
<1>25. ParseLine(line) = [values |-> values, unclosed |-> FALSE]
    BY <1>22, <1>23, <1>24
<1> QED
    BY <1>25 DEF line

(* The words of the program are texts of these symbols, as the values of a    *)
(* record are.                                                                *)
LEMMA WordsAreTexts ==
    /\ \A text \in Text : text \in Seq(Symbols)
    /\ Empty \in Seq(Symbols)
    /\ \A word \in Providers \cup {OAuth, Graph, Password, AutomaticKey} : word \in Seq(Symbols)
    /\ \A text \in Seq(Symbols) : <<"import">> \o text \in Seq(Symbols)
<1>1. STRING \subseteq Symbols
    BY DEF Symbols
<1>2. \A text \in Text : text \in Seq(Symbols)
    <2> SUFFICES ASSUME NEW text \in Seq(STRING) PROVE text \in Seq(Symbols)
        BY DEF Text
    <2> DEFINE n == Len(text)
    <2>1. n \in Nat /\ text \in [1..n -> STRING]
        OBVIOUS
    <2> HIDE DEF n
    <2>2. text \in [1..n -> Symbols]
        BY <1>1, <2>1
    <2> QED
        BY <2>1, <2>2, Listed
<1>3. Empty \in Seq(Symbols)
    BY DEF Empty
<1>4. \A symbol \in Symbols : <<symbol>> \in Seq(Symbols)
    OBVIOUS
<1>5. \A symbol \in Words : symbol \in Symbols
    BY DEF Symbols
<1>6. \A word \in Providers \cup {OAuth, Graph, Password, AutomaticKey} : \E symbol \in Words : word = <<symbol>>
    BY DEF Providers, Gmail, Microsoft, OAuth, Graph, Password, AutomaticKey, Words
<1>7. \A word \in Providers \cup {OAuth, Graph, Password, AutomaticKey} : word \in Seq(Symbols)
    BY <1>4, <1>5, <1>6
<1>8. <<"import">> \in Seq(Symbols)
    BY <1>4, <1>5 DEF Words
<1> DEFINE word == <<"import">>
<1>9. \A text \in Seq(Symbols) : word \o text \in Seq(Symbols)
    <2>1. word \in Seq(Symbols)
        BY <1>8
    <2> HIDE DEF word
    <2> QED
        BY <2>1, ConcatProperties
<1> QED
    BY <1>2, <1>3, <1>7, <1>9

(* What is exported of a sealed row is a text for every target.               *)
LEMMA ExportedTexts ==
    ASSUME NEW default \in Defaults, NEW raw, raw.values \in [Targets -> Text],
           NEW row, row = Build(Complete(default), raw), row.valid, ~SealFails(row),
           NEW values, values = ExportValues(Seal(row))
    PROVE  values \in [Targets -> Seq(Symbols)]
<1> DEFINE format == Complete(default)
           v == raw.values
           provider == ProviderOf(format, v)
           kind == KindOf(format, v, provider)
           T == Seq(Symbols)
           sec == Secret(row)
<1>1. /\ row.provider = provider /\ row.address = Trim(v["address"]) /\ row.kind = kind
      /\ row.client = v["client_id"] /\ row.password = v["password"] /\ row.refresh = v["refresh_token"]
      /\ row.key = v["pickup_key"]
      /\ row.username = IF provider = Gmail /\ kind = Password /\ CredentialDeclared(v) /\ Trim(v["username"]) = Empty
                          THEN Trim(v["address"]) ELSE Trim(v["username"])
      /\ row.host = Trim(v["imap_host"]) /\ row.port = Trim(v["imap_port"]) /\ row.expires = Trim(v["expires_at"])
      /\ row.platform = IF Trim(v["platform"]) = Empty THEN Trim(format.platform) ELSE Trim(v["platform"])
      /\ row.external = v["platform_external_reference"] /\ row.token = v["platform_token"]
    BY BuildFields
<1>2. row.provider \in Providers
    BY RowFields
<1>3. \A text \in Text : text \in T /\ Trim(text) \in T
    BY WordsAreTexts, TrimmedOnce
<1>4. \A t \in Targets : v[t] \in T /\ Trim(v[t]) \in T
    BY <1>3
<1>5. format.platform \in Text /\ format.kind \in Text
    <2>1. format.platform = default.platform /\ format.kind = default.kind
        BY DEF Complete
    <2>2. default.platform \in Text /\ default.kind \in Text
        BY DefaultsAssumption
    <2> QED
        BY <2>1, <2>2
<1>6. Trim(format.platform) \in T /\ Trim(format.kind) \in T
    BY <1>3, <1>5
<1>7. Empty \in T /\ \A word \in Providers \cup {OAuth, Graph, Password, AutomaticKey} : word \in T
    BY WordsAreTexts
<1>8. kind \in T
    <2> DEFINE asked == IF Trim(v["credential_kind"]) = Empty THEN format.kind ELSE v["credential_kind"]
    <2>1. kind = IF Trim(asked) # Empty THEN Trim(asked)
                 ELSE IF v["password"] # Empty /\ v["refresh_token"] = Empty THEN Password
                 ELSE IF provider = Gmail THEN OAuth ELSE Graph
        BY Zenon DEF KindOf
    <2>2. Trim(asked) \in T
        BY <1>4, <1>6, TargetNames
    <2> HIDE DEF asked, kind, T
    <2> QED
        BY <2>1, <2>2, <1>7
<1>9. \A text \in T : <<"import">> \o text \in T
    BY WordsAreTexts
<1>10. /\ values["provider"] = row.provider /\ values["address"] = row.address
       /\ values["pickup_key"] = AutomaticKey
       /\ HasCredential(row) =>
            /\ values["credential_kind"] = row.kind /\ values["expires_at"] = row.expires
            /\ values["client_id"] = IF row.client = Empty THEN sec.client ELSE row.client
            /\ values["username"] = sec.username /\ values["imap_host"] = sec.host /\ values["imap_port"] = sec.port
            /\ values["refresh_token"] = sec.refresh /\ values["password"] = sec.password
       /\ ~HasCredential(row) =>
            \A t \in {"credential_kind", "expires_at", "client_id", "username", "imap_host", "imap_port",
                      "refresh_token", "password"} : values[t] = Empty
       /\ HasAccount(row) =>
            /\ values["platform"] = row.platform /\ values["platform_external_reference"] = Reference(row)
            /\ values["platform_token"] = row.token
       /\ ~HasAccount(row) =>
            \A t \in {"platform", "platform_external_reference", "platform_token"} : values[t] = Empty
    BY Exported
<1>11. sec = [client |-> IF Imap(row) THEN Empty ELSE row.client, refresh |-> IF Imap(row) THEN Empty ELSE row.refresh,
              username |-> IF Web(row) THEN Empty
                           ELSE IF row.provider \notin {Gmail, Microsoft} /\ row.username = Empty /\ row.password # Empty
                             THEN row.address ELSE row.username,
              password |-> IF Web(row) THEN Empty ELSE row.password,
              host |-> IF Web(row) THEN Empty ELSE row.host, port |-> IF Web(row) THEN Empty ELSE row.port]
    BY SecretFields
<1>12. DOMAIN values = Targets /\ values = [t \in Targets |-> values[t]]
    BY DEF ExportValues
<1> HIDE DEF format, v, provider, kind, T, sec
<1>13. /\ row.provider \in T /\ row.address \in T /\ row.kind \in T /\ row.client \in T /\ row.password \in T
       /\ row.refresh \in T /\ row.username \in T /\ row.host \in T /\ row.port \in T /\ row.expires \in T
       /\ row.platform \in T /\ row.external \in T /\ row.token \in T /\ Trim(row.key) \in T
    BY <1>1, <1>2, <1>4, <1>6, <1>7, <1>8, TargetNames
<1>14. sec.client \in T /\ sec.refresh \in T /\ sec.username \in T /\ sec.password \in T /\ sec.host \in T /\ sec.port \in T
    BY <1>7, <1>11, <1>13
<1>15. Reference(row) \in T
    BY <1>9, <1>13 DEF Reference
<1>16. \A t \in Targets : values[t] \in T
    BY <1>7, <1>10, <1>13, <1>14, <1>15, TargetNames
<1> QED
    BY <1>12, <1>16 DEF T

Count == 14

(* Every target has one column.                                               *)
LEMMA Columns ==
    /\ DOMAIN AllTargets = 1..Count /\ AllTargets[2] = "address"
    /\ \A i \in 1..Count : AllTargets[i] \in Targets
    /\ \A t \in Targets : \E i \in 1..Count : AllTargets[i] = t
    /\ \A i \in 1..Count, j \in 1..Count : AllTargets[i] = AllTargets[j] => i = j
<1>1. DOMAIN AllTargets = 1..Count /\ AllTargets[2] = "address"
    BY DEF AllTargets, Count
<1>2. Targets = {AllTargets[i] : i \in 1..Count}
    BY <1>1 DEF Targets, ToSet
<1>3. \A i \in 1..Count, j \in 1..Count : AllTargets[i] = AllTargets[j] => i = j
    BY DEF AllTargets, Count
<1> QED
    BY <1>1, <1>2, <1>3

LEMMA Fields ==
    ASSUME NEW default
    PROVE  /\ DOMAIN Complete(default).fields = 1..Count
           /\ \A i \in 1..Count : LET field == Complete(default).fields[i]
                                  IN  /\ field.column = AllTargets[i] /\ field.target = AllTargets[i] /\ field.default = Empty
                                      /\ field.required <=> AllTargets[i] = "address"
BY Columns DEF Complete

(* The columns hold these values.                                             *)
Holds(value, values) ==
    /\ DOMAIN values = Targets /\ values = [t \in Targets |-> values[t]]
    /\ \A i \in 1..Count : value[i] = values[AllTargets[i]]

(* A record whose columns hold these values is read as these values.          *)
LEMMA MappedBack ==
    ASSUME NEW default, NEW values, NEW value, Holds(value, values), NEW broken, ~broken,
           NEW read, read = Mapped(Complete(default), value, broken)
    PROVE  read.values = values /\ (read.broken <=> read.values["address"] = Empty)
<1> DEFINE fields == Complete(default).fields
<1>0. /\ DOMAIN values = Targets /\ values = [t \in Targets |-> values[t]]
      /\ \A i \in 1..Count : value[i] = values[AllTargets[i]]
    BY DEF Holds
<1>1. /\ DOMAIN fields = 1..Count
      /\ \A i \in 1..Count : /\ fields[i].target = AllTargets[i]
                             /\ fields[i].required <=> AllTargets[i] = "address"
    BY Fields
<1>2. read = [values |-> [t \in Targets |->
                            IF \E i \in DOMAIN fields : fields[i].target = t
                              THEN value[CHOOSE i \in DOMAIN fields : fields[i].target = t] ELSE Empty],
              broken |-> broken \/ \E i \in DOMAIN fields : fields[i].required /\ value[i] = Empty]
    BY Zenon DEF Mapped
<1> HIDE DEF fields
<1>3. read.values = [t \in Targets |->
                       IF \E i \in DOMAIN fields : fields[i].target = t
                         THEN value[CHOOSE i \in DOMAIN fields : fields[i].target = t] ELSE Empty]
    BY <1>2
<1>4. read.broken <=> \E i \in DOMAIN fields : fields[i].required /\ value[i] = Empty
    <2>1. read.broken = (broken \/ \E i \in DOMAIN fields : fields[i].required /\ value[i] = Empty)
        BY <1>2
    <2> QED
        BY <2>1, Zenon
<1>5. ASSUME NEW t \in Targets PROVE read.values[t] = values[t]
    <2> DEFINE i == CHOOSE k \in DOMAIN fields : fields[k].target = t
    <2>1. \E k \in DOMAIN fields : fields[k].target = t
        BY <1>1, Columns
    <2>2. i \in 1..Count /\ fields[i].target = t
        BY <1>1, <2>1
    <2>3. read.values[t] = value[i]
        BY <1>3, <2>1
    <2> HIDE DEF i
    <2> QED
        BY <1>0, <1>1, <2>2, <2>3
<1>6. read.values = values
    <2>1. read.values = [t \in Targets |-> read.values[t]]
        BY <1>3
    <2> HIDE <1>3
    <2> QED
        BY <2>1, <1>0, <1>5
<1>7. (\E i \in DOMAIN fields : fields[i].required /\ value[i] = Empty) <=> values["address"] = Empty
    <2>1. 2 \in 1..Count /\ AllTargets[2] = "address"
        BY Columns DEF Count
    <2>2. \A i \in DOMAIN fields : fields[i].required /\ value[i] = Empty => values["address"] = Empty
        BY <1>0, <1>1
    <2>3. values["address"] = Empty => fields[2].required /\ value[2] = Empty
        BY <1>0, <1>1, <2>1
    <2> QED
        BY <1>1, <2>1, <2>2, <2>3
<1> QED
    BY <1>4, <1>6, <1>7

LEMMA ObjectRead ==
    ASSUME NEW default, NEW item, NEW values, values = ExportValues(item),
           NEW read, read = ParseJSON(Complete(default), ExportObject(Complete(default), item))
    PROVE  read.values = values /\ (read.broken <=> read.values["address"] = Empty)
<1> DEFINE format == Complete(default)
           fields == format.fields
           object == ExportObject(format, item)
           value == [i \in DOMAIN fields |->
                        OrDefault(IF fields[i].column \in DOMAIN object THEN object[fields[i].column] ELSE Empty, fields[i])]
<1>1. /\ DOMAIN fields = 1..Count
      /\ \A i \in 1..Count : fields[i].column = AllTargets[i] /\ fields[i].target = AllTargets[i] /\ fields[i].default = Empty
    BY Fields
<1>2. DOMAIN values = Targets /\ values = [t \in Targets |-> values[t]]
    BY DEF ExportValues
<1>3. object = [column \in {fields[i].column : i \in DOMAIN fields} |->
                  values[fields[CHOOSE k \in DOMAIN fields : fields[k].column = column].target]]
    BY DEF ExportObject
<1>4. read = Mapped(format, value, FALSE)
    BY DEF ParseJSON
<1> HIDE DEF fields, object
<1>5. ASSUME NEW i \in 1..Count PROVE value[i] = values[AllTargets[i]]
    <2> DEFINE column == fields[i].column
               k == CHOOSE l \in DOMAIN fields : fields[l].column = column
    <2>1. column = AllTargets[i] /\ i \in DOMAIN fields
        BY <1>1
    <2>2. k \in 1..Count /\ fields[k].column = column
        BY <1>1, <2>1
    <2>3. column \in DOMAIN object /\ object[column] = values[fields[k].target]
        BY <1>3, <2>1
    <2>4. value[i] = OrDefault(object[column], fields[i])
        BY <2>1, <2>3
    <2> HIDE DEF k, column, value
    <2>5. fields[k].target = AllTargets[i]
        BY <1>1, <2>1, <2>2
    <2> QED
        BY <1>1, <2>3, <2>4, <2>5 DEF OrDefault
<1> HIDE DEF value, format
<1> DEFINE no == FALSE
<1>6. read = Mapped(Complete(default), value, no)
    BY <1>4 DEF format
<1>7. ~no
    OBVIOUS
<1> HIDE DEF no
<1>8. Holds(value, values)
    BY <1>2, <1>5 DEF Holds
<1> QED
    BY <1>6, <1>7, <1>8, MappedBack

(* In a file with this header, the columns are in this order, each in its place. *)
Ordered(default, header, names, place) ==
    /\ header = <<>> \/ Len(header) = Count
    /\ names \in [1..Count -> Targets] /\ place \in [1..Count -> 1..Count]
    /\ \A i \in 1..Count : ColumnOf(Complete(default), header, i) = place[i] /\ names[place[i]] = AllTargets[i]

(* A delimited line of these values, in any order of the columns, is read as   *)
(* these values when every column is found.                                    *)
LEMMA LineOfRecordRead ==
    ASSUME NEW default, NEW values \in [Targets -> Seq(Symbols)], \A t \in Targets : Plain(values[t]),
           NEW header, NEW names, NEW place, Ordered(default, header, names, place),
           NEW cells, cells = [i \in 1..Count |-> values[names[i]]],
           NEW read, read = ParseDelimited(Complete(default), header, EncodeLine(cells))
    PROVE  read.values = values /\ (read.broken <=> read.values["address"] = Empty)
<1> DEFINE format == Complete(default)
           fields == format.fields
           column(i) == ColumnOf(format, header, i)
           parsed == ParseLine(EncodeLine(cells))
           expected == IF header = <<>> THEN Len(fields) ELSE Len(header)
           value == [i \in DOMAIN fields |->
                        OrDefault(IF column(i) <= Len(parsed.values) THEN Trim(parsed.values[column(i)]) ELSE Empty, fields[i])]
           broken == parsed.unclosed \/ Len(parsed.values) # expected
<1>1. DOMAIN fields = 1..Count /\ \A i \in 1..Count : fields[i].default = Empty
    BY Fields
<1>0. /\ header = <<>> \/ Len(header) = Count
      /\ names \in [1..Count -> Targets] /\ place \in [1..Count -> 1..Count]
      /\ \A i \in 1..Count : column(i) = place[i] /\ names[place[i]] = AllTargets[i]
    BY DEF Ordered
<1>2. Len(fields) = Count
    BY <1>1, LenProperties DEF Complete, AllTargets, Count
<1>3. Count \in Nat /\ Count > 0
    BY DEF Count
<1>4. cells \in Seq(Seq(Symbols)) /\ Len(cells) = Count
    <2>1. cells \in [1..Count -> Seq(Symbols)]
        BY <1>0
    <2> QED
        BY <2>1, <1>3, Listed
<1>5. \A i \in 1..Len(cells) : cells[i] # Empty => Last(cells[i]) # Dash
    <2>1. \A i \in 1..Count : Plain(cells[i])
        BY <1>0
    <2> QED
        BY <2>1, <1>4 DEF Plain
<1>6. parsed = [values |-> cells, unclosed |-> FALSE]
    BY <1>3, <1>4, <1>5, LineRead
<1>7. read = Mapped(format, value, broken)
    BY Zenon DEF ParseDelimited
<1> HIDE DEF parsed, fields
<1>8. parsed.values = cells /\ ~parsed.unclosed
    BY <1>6
<1>9. ~broken
    BY <1>0, <1>2, <1>4, <1>8
<1>10. ASSUME NEW i \in 1..Count PROVE value[i] = values[AllTargets[i]]
    <2> DEFINE k == column(i)
    <2>1. k \in 1..Count /\ names[k] = AllTargets[i]
        BY <1>0
    <2>2. value[i] = OrDefault(IF k <= Len(cells) THEN Trim(cells[k]) ELSE Empty, fields[i])
        BY <1>1, <1>8
    <2> HIDE DEF k, value
    <2>3. cells[k] = values[AllTargets[i]]
        BY <2>1
    <2>5. k <= Len(cells)
        BY <2>1, <1>3, <1>4
    <2>4. Trim(cells[k]) = cells[k]
        BY <2>1, <2>3, Columns DEF Plain
    <2> QED
        BY <1>1, <2>2, <2>3, <2>4, <2>5 DEF OrDefault
<1> HIDE DEF value, broken, format
<1>11. read = Mapped(Complete(default), value, broken)
    BY <1>7 DEF format
<1>12. Holds(value, values)
    BY <1>10 DEF Holds
<1> QED
    BY <1>9, <1>11, <1>12, MappedBack

(* Without a header, the columns are in the order of the format.              *)
LEMMA PlainLineRead ==
    ASSUME NEW default, NEW item, NEW values, values = ExportValues(item), values \in [Targets -> Seq(Symbols)],
           \A t \in Targets : Plain(values[t]),
           NEW read, read = ParseDelimited(Complete(default), <<>>, ExportLine(Complete(default), item))
    PROVE  read.values = values /\ (read.broken <=> read.values["address"] = Empty)
<1> DEFINE format == Complete(default)
           fields == format.fields
           names == [i \in 1..Count |-> AllTargets[i]]
           place == [i \in 1..Count |-> i]
           cells == [i \in 1..Count |-> values[names[i]]]
<1>1. DOMAIN fields = 1..Count /\ \A i \in 1..Count : fields[i].target = AllTargets[i]
    BY Fields
<1>2. ExportLine(format, item) = EncodeLine([i \in DOMAIN fields |-> values[fields[i].target]])
    BY DEF ExportLine
<1> HIDE DEF fields
<1>3. [i \in DOMAIN fields |-> values[fields[i].target]] = cells
    BY <1>1
<1>4. \A i \in 1..Count : ColumnOf(format, <<>>, i) = place[i] /\ names[place[i]] = AllTargets[i]
    BY DEF ColumnOf
<1>5. names \in [1..Count -> Targets] /\ place \in [1..Count -> 1..Count]
    BY Columns
<1>6. cells = [i \in 1..Count |-> values[names[i]]]
    OBVIOUS
<1> HIDE DEF names, place, cells
<1>7. read = ParseDelimited(Complete(default), <<>>, EncodeLine(cells))
    BY <1>2, <1>3
<1> DEFINE none == <<>>
<1>8. Ordered(default, none, names, place)
    BY <1>4, <1>5 DEF Ordered
<1>10. read = ParseDelimited(Complete(default), none, EncodeLine(cells))
    BY <1>7
<1> HIDE DEF none
<1> QED
    BY <1>6, <1>8, <1>10, LineOfRecordRead

(* With a header, in whatever order: here the opposite one.                   *)
LEMMA TurnedLineRead ==
    ASSUME NEW default, NEW item, NEW values, values = ExportValues(item), values \in [Targets -> Seq(Symbols)],
           \A t \in Targets : Plain(values[t]),
           NEW other, other = [Complete(default) EXCEPT !.fields = Reverse(@)],
           NEW read, read = ParseDelimited(Complete(default), Header(other), ExportLine(other, item))
    PROVE  read.values = values /\ (read.broken <=> read.values["address"] = Empty)
<1> DEFINE format == Complete(default)
           fields == format.fields
           turned == other.fields
           header == Header(other)
           names == [i \in 1..Count |-> AllTargets[15 - i]]
           place == [i \in 1..Count |-> 15 - i]
           cells == [i \in 1..Count |-> values[names[i]]]
<1>1. /\ DOMAIN fields = 1..Count
      /\ \A i \in 1..Count : fields[i].target = AllTargets[i] /\ fields[i].column = AllTargets[i]
    BY Fields
<1>2. Len(fields) = Count
    BY <1>1, LenProperties DEF Complete, AllTargets, Count
<1>3. \A i \in 1..Count : 15 - i \in 1..Count /\ (Count - i) + 1 = 15 - i /\ 15 - (15 - i) = i
    BY DEF Count
<1>4. turned = Reverse(fields)
    BY DEF Complete
<1> HIDE DEF fields
<1>5. turned = [i \in 1..Count |-> fields[15 - i]]
    BY <1>2, <1>3, <1>4 DEF Reverse
<1> HIDE DEF turned
<1>6. header = [i \in 1..Count |-> AllTargets[15 - i]]
    <2>1. header = [i \in DOMAIN turned |-> turned[i].column]
        BY DEF Header, turned
    <2> QED
        BY <2>1, <1>1, <1>3, <1>5
<1>7. ExportLine(other, item) = EncodeLine(cells)
    <2>1. ExportLine(other, item) = EncodeLine([i \in DOMAIN turned |-> values[turned[i].target]])
        BY DEF ExportLine, turned
    <2>2. [i \in DOMAIN turned |-> values[turned[i].target]] = cells
        BY <1>1, <1>3, <1>5
    <2> QED
        BY <2>1, <2>2
<1>8. header \in Seq(Targets) /\ Len(header) = Count
    <2>1. header \in [1..Count -> Targets] /\ Count \in Nat
        BY <1>3, <1>6, Columns DEF Count
    <2> QED
        BY <2>1, Listed
<1> HIDE DEF header
<1>9. header # <<>>
    <2>1. Len(header) # 0
        BY <1>8 DEF Count
    <2> QED
        BY <2>1
<1>10. ASSUME NEW i \in 1..Count PROVE ColumnOf(format, header, i) = 15 - i
    <2> DEFINE k == 15 - i
    <2>1. k \in 1..Count /\ header[k] = AllTargets[i]
        BY <1>3, <1>6
    <2> HIDE DEF k
    <2>2. {l \in DOMAIN header : header[l] = fields[i].column} = {k}
        <3>1. \A l \in 1..Count : header[l] = AllTargets[i] => l = k
            <4> SUFFICES ASSUME NEW l \in 1..Count, header[l] = AllTargets[i] PROVE l = k
                OBVIOUS
            <4>1. 15 - l = i
                BY <1>3, <1>6, Columns
            <4> QED
                BY <4>1, <1>3 DEF k
        <3> QED
            BY <1>1, <1>6, <2>1, <3>1
    <2>3. Max({k}) = k
        BY <2>1 DEF Max
    <2>4. ColumnOf(format, header, i) = Max({l \in DOMAIN header : header[l] = fields[i].column})
        BY <1>9 DEF ColumnOf, fields
    <2> QED
        BY <2>2, <2>3, <2>4 DEF k
<1>11. \A i \in 1..Count : ColumnOf(Complete(default), header, i) = place[i] /\ names[place[i]] = AllTargets[i]
    BY <1>3, <1>10
<1>12. names \in [1..Count -> Targets] /\ place \in [1..Count -> 1..Count]
    BY <1>3, Columns
<1>13. cells = [i \in 1..Count |-> values[names[i]]]
    OBVIOUS
<1> HIDE DEF names, place, cells
<1>14. read = ParseDelimited(Complete(default), header, EncodeLine(cells))
    BY <1>7 DEF header
<1>15. Ordered(default, header, names, place)
    BY <1>8, <1>11, <1>12 DEF Ordered
<1> QED
    BY <1>13, <1>14, <1>15, LineOfRecordRead

(* A record that was imported comes back, in JSON and in delimited lines.     *)
LEMMA RecordBack ==
    ASSUME input.kind = "record", InputChosen
    PROVE  RecordComesBack
<1>1. PICK default \in Defaults, entry \in Entries : input = [kind |-> "record", default |-> default, entry |-> entry]
    BY DEF InputChosen, Nothing
<1> DEFINE format == Complete(default)
           raw == ParseJSON(format, entry)
           row == Imported
           item == Seal(row)
           values == ExportValues(item)
           other == [format EXCEPT !.fields = Reverse(@)]
           stored == [item EXCEPT !.key = AutomaticKey]
           again(r) == LET back == Build(format, r) IN back.valid /\ Seal(back) = stored
<1>2. input.default = default /\ input.entry = entry
    BY <1>1
<1>3. row = Build(format, raw)
    BY <1>2 DEF Imported
<1>4. raw.values \in [Targets -> Text]
    BY ReadTexts
<1> HIDE DEF raw, row
<1>5. SUFFICES ASSUME row.valid, ~SealFails(row)
               PROVE  /\ again(ParseJSON(format, ExportObject(format, item)))
                      /\ (\A t \in Targets : Plain(values[t])) =>
                            /\ again(ParseDelimited(format, <<>>, ExportLine(format, item)))
                            /\ again(ParseDelimited(format, Header(other), ExportLine(other, item)))
    BY <1>2 DEF RecordComesBack, row
<1>6. values \in [Targets -> Seq(Symbols)]
    BY <1>3, <1>4, <1>5, ExportedTexts
<1>7. ASSUME NEW r, r.values = values, r.broken <=> r.values["address"] = Empty
      PROVE  again(r)
    <2> DEFINE back == Build(format, r)
    <2>1. back.valid /\ Seal(back) = stored
        BY <1>3, <1>4, <1>5, <1>7, BuiltAgain
    <2> QED
        BY <2>1
<1> HIDE DEF item, other, again
<1>8. again(ParseJSON(format, ExportObject(format, item)))
    <2> DEFINE r == ParseJSON(format, ExportObject(format, item))
    <2>1. r.values = values /\ (r.broken <=> r.values["address"] = Empty)
        BY ObjectRead
    <2> HIDE DEF r, values, format
    <2>2. again(r)
        BY <2>1, <1>7
    <2> QED
        BY <2>2 DEF r
<1>9. ASSUME \A t \in Targets : Plain(values[t]) PROVE again(ParseDelimited(format, <<>>, ExportLine(format, item)))
    <2> DEFINE r == ParseDelimited(format, <<>>, ExportLine(format, item))
    <2>1. r.values = values /\ (r.broken <=> r.values["address"] = Empty)
        BY <1>6, <1>9, PlainLineRead
    <2> HIDE DEF r, values, format
    <2>2. again(r)
        BY <2>1, <1>7
    <2> QED
        BY <2>2 DEF r
<1>10. ASSUME \A t \in Targets : Plain(values[t])
       PROVE  again(ParseDelimited(format, Header(other), ExportLine(other, item)))
    <2> DEFINE r == ParseDelimited(format, Header(other), ExportLine(other, item))
    <2>1. r.values = values /\ (r.broken <=> r.values["address"] = Empty)
        BY <1>6, <1>10, TurnedLineRead DEF other
    <2> HIDE DEF r, values, format
    <2>2. again(r)
        BY <2>1, <1>7
    <2> QED
        BY <2>2 DEF r
<1> QED
    BY <1>8, <1>9, <1>10

-----------------------------------------------------------------------------
(* Two texts behind each other.                                               *)
LEMMA Joined ==
    ASSUME NEW S, NEW a \in Seq(S), NEW b \in Seq(S)
    PROVE  /\ a \o b \in Seq(S) /\ Len(a \o b) = Len(a) + Len(b)
           /\ \A i \in 1..Len(a) : (a \o b)[i] = a[i]
           /\ \A i \in 1..Len(b) : (a \o b)[Len(a) + i] = b[i]
<1> DEFINE c == a \o b
           m == Len(a)
           n == Len(b)
<1>1. m \in Nat /\ n \in Nat
    OBVIOUS
<1>2. c \in Seq(S) /\ Len(c) = m + n /\ \A i \in 1..(m + n) : c[i] = IF i <= m THEN a[i] ELSE b[i - m]
    BY ConcatProperties
<1> HIDE DEF c, m, n
<1>3. \A i \in 1..m : i \in 1..(m + n) /\ i <= m
    BY <1>1
<1>4. \A i \in 1..n : m + i \in 1..(m + n) /\ ~(m + i <= m) /\ (m + i) - m = i
    BY <1>1
<1>5. (\A i \in 1..m : c[i] = a[i]) /\ \A i \in 1..n : c[m + i] = b[i]
    BY <1>2, <1>3, <1>4
<1> QED
    BY <1>2, <1>5 DEF c, m, n

(* Three texts behind each other, two of them as one.                          *)
Three(S, a, b, c, front, whole) ==
    a \in Seq(S) /\ b \in Seq(S) /\ c \in Seq(S) /\ front = a \o b /\ whole = a \o (b \o c)

LEMMA Grouped ==
    ASSUME NEW S, NEW a, NEW b, NEW c, NEW front, NEW whole, Three(S, a, b, c, front, whole)
    PROVE  whole = front \o c
<1>1. a \in Seq(S) /\ b \in Seq(S) /\ c \in Seq(S) /\ front = a \o b /\ whole = a \o (b \o c)
    BY DEF Three
<1>2. (a \o b) \o c = a \o (b \o c)
    BY <1>1, ConcatAssociative
<1> QED
    BY <1>1, <1>2, Zenon

(* What stands at a place is cut out there.                                   *)
LEMMA CutOut ==
    ASSUME NEW S, NEW text \in Seq(S), NEW part \in Seq(S), NEW i \in 1..(Len(text) + 1), Stands(text, i, part)
    PROVE  SubSeq(text, i, i + Len(part) - 1) = part
<1> DEFINE n == Len(text)
           m == Len(part)
           j == i + m - 1
           cut == SubSeq(text, i, j)
<1>1. n \in Nat /\ m \in Nat /\ i \in 1..(n + 1) /\ j \in 0..n /\ i - 1 <= j /\ j + 1 - i = m
    BY DEF Stands
<1>2. \A k \in 1..m : text[i + k - 1] = part[k]
    BY DEF Stands
<1>3. cut \in Seq(S) /\ Len(cut) = (IF i <= j THEN j - i + 1 ELSE 0)
      /\ \A k \in 1..(j - i + 1) : cut[k] = text[i + k - 1]
    BY <1>1
<1>4. Len(cut) = m /\ j - i + 1 = m
    <2> HIDE DEF cut, m
    <2>1. j - i + 1 = m /\ (i <= j \/ m = 0)
        BY <1>1
    <2> HIDE DEF j
    <2> QED
        BY <2>1, <1>3
<1> HIDE DEF cut, j
<1>5. \A k \in 1..m : cut[k] = part[k]
    BY <1>2, <1>3, <1>4
<1> QED
    BY <1>3, <1>4, <1>5, SeqEqual DEF cut, j

(* A text that begins with a value keeps it, and what is behind it.           *)
LEMMA Rest ==
    ASSUME NEW S, NEW a \in Seq(S), NEW b \in Seq(S)
    PROVE  SubSeq(a \o b, Len(a) + 1, Len(a \o b)) = b /\ SubSeq(a \o b, 1, Len(a)) = a
<1> DEFINE c == a \o b
           m == Len(a)
           n == Len(b)
<1>1. /\ c \in Seq(S) /\ Len(c) = m + n /\ m \in Nat /\ n \in Nat
      /\ \A i \in 1..m : c[i] = a[i]
      /\ \A i \in 1..n : c[m + i] = b[i]
    BY Joined
<1> HIDE DEF c, m, n
<1>2. m + 1 \in 1..(Len(c) + 1) /\ 1 \in 1..(Len(c) + 1) /\ (m + 1) + n - 1 = Len(c) /\ 1 + m - 1 = m
      /\ (m + 1) + n <= Len(c) + 1 /\ 1 + m <= Len(c) + 1
    BY <1>1
<1>3. Stands(c, m + 1, b)
    <2>1. \A k \in 1..n : (m + 1) + k - 1 = m + k
        BY <1>1
    <2>2. \A k \in 1..n : c[(m + 1) + k - 1] = b[k]
        BY <2>1, <1>1
    <2> QED
        BY <2>2, <1>2 DEF Stands, n
<1>4. Stands(c, 1, a)
    <2>1. \A k \in 1..m : 1 + k - 1 = k
        BY <1>1
    <2>2. \A k \in 1..m : c[1 + k - 1] = a[k]
        BY <2>1, <1>1
    <2> QED
        BY <2>2, <1>2 DEF Stands, m
<1>5. SubSeq(c, m + 1, (m + 1) + Len(b) - 1) = b
    <2> DEFINE i == m + 1
    <2>1. i \in 1..(Len(c) + 1) /\ Stands(c, i, b)
        BY <1>2, <1>3
    <2> HIDE DEF i
    <2>2. SubSeq(c, i, i + Len(b) - 1) = b
        BY <1>1, <2>1, CutOut
    <2> QED
        BY <2>2 DEF i
<1>6. SubSeq(c, 1, 1 + Len(a) - 1) = a
    <2> DEFINE i == 1
    <2>1. i \in 1..(Len(c) + 1) /\ Stands(c, i, a)
        BY <1>2, <1>4
    <2> HIDE DEF i
    <2>2. SubSeq(c, i, i + Len(a) - 1) = a
        BY <1>1, <2>1, CutOut
    <2> QED
        BY <2>2 DEF i
<1> QED
    BY <1>2, <1>5, <1>6 DEF c, m, n

(* A literal that begins within a value is there as well when the value has    *)
(* the literal itself behind it, or ended the text.                            *)
LEMMA RunsInto ==
    ASSUME NEW text \in Seq(Symbols), NEW value \in Seq(Symbols), NEW behind \in Seq(Symbols), NEW o \in Nat,
           Stands(text, o + 1, value),
           o + Len(value) = Len(text) \/ Stands(text, o + Len(value) + 1, behind),
           NEW j \in 1..Len(value), Stands(text, o + j, behind)
    PROVE  LiteralAt(value \o behind, j, behind)
<1> DEFINE w == Len(text)
           m == Len(value)
           b == Len(behind)
           both == value \o behind
<1>1. /\ both \in Seq(Symbols) /\ Len(both) = m + b /\ w \in Nat /\ m \in Nat /\ b \in Nat
      /\ \A i \in 1..m : both[i] = value[i]
      /\ \A i \in 1..b : both[m + i] = behind[i]
    BY Joined
<1>2. \A k \in 1..m : text[o + 1 + k - 1] = value[k]
    BY DEF Stands
<1>3. o + j + b <= w + 1 /\ \A k \in 1..b : text[o + j + k - 1] = behind[k]
    BY DEF Stands
<1>4. o + m = w \/ \A k \in 1..b : text[o + m + 1 + k - 1] = behind[k]
    BY DEF Stands
<1> HIDE DEF w, m, b, both
<1>5. j \in 1..m
    BY DEF m
<1>6. ASSUME NEW k \in 1..b PROVE both[j + k - 1] = behind[k]
    <2> DEFINE p == j + k - 1
    <2>1. p \in Nat /\ p >= 1 /\ o + j + k - 1 = o + p
        BY <1>1, <1>5
    <2>2. text[o + p] = behind[k]
        BY <1>3, <2>1
    <2>3. CASE p <= m
        <3>1. p \in 1..m /\ o + 1 + p - 1 = o + p
            BY <1>1, <2>1, <2>3
        <3> HIDE DEF p
        <3>2. both[p] = value[p] /\ text[o + p] = value[p]
            BY <1>1, <1>2, <3>1
        <3>3. both[p] = behind[k]
            BY <2>2, <3>2
        <3> QED
            BY <3>3 DEF p
    <2>4. CASE ~(p <= m)
        <3> DEFINE q == p - m
        <3>1. o + m # w
            BY <1>1, <1>3, <1>5, <2>4
        <3>2. q \in 1..b /\ m + q = p /\ o + m + 1 + q - 1 = o + p
            BY <1>1, <1>5, <2>1, <2>4
        <3> HIDE DEF p, q
        <3>3. both[m + q] = behind[q] /\ text[o + m + 1 + q - 1] = behind[q]
            BY <1>1, <1>4, <3>1, <3>2
        <3>4. both[p] = behind[q] /\ text[o + p] = behind[q]
            BY <3>2, <3>3
        <3>5. both[p] = behind[k]
            BY <2>2, <3>4
        <3> QED
            BY <3>5 DEF p
    <2> QED
        BY <2>3, <2>4
<1>7. j \in 1..(Len(both) + 1) /\ j + b <= Len(both) + 1
    BY <1>1, <1>5
<1>8. Stands(both, j, behind)
    BY <1>6, <1>7 DEF Stands, b
<1>9. LiteralAt(both, j, behind)
    BY <1>1, <1>7, <1>8, PrefixAt DEF LiteralAt
<1> QED
    BY <1>9 DEF both

(* Literals and values stand in a text one behind the other, each where it     *)
(* starts: literal k behind start[k - 1] symbols.                               *)
InPlace(text, literals, values, start) ==
    /\ start \in [0..Len(values) -> Nat] /\ start[0] = 0
    /\ \A k \in 1..Len(values) :
         /\ start[k] = start[k - 1] + Len(literals[k]) + Len(values[k])
         /\ Stands(text, start[k - 1] + 1, literals[k])
         /\ Stands(text, start[k - 1] + Len(literals[k]) + 1, values[k])
    /\ Stands(text, start[Len(values)] + 1, literals[Len(values) + 1])

(* What stands somewhere stands there with more behind it.                     *)
LEMMA StandsOn ==
    ASSUME NEW S, NEW text \in Seq(S), NEW tail \in Seq(S), NEW part \in Seq(S), NEW o \in Nat,
           o + Len(part) <= Len(text), \A i \in 1..Len(part) : text[o + i] = part[i]
    PROVE  Stands(text \o tail, o + 1, part)
<1> DEFINE w == Len(text)
           n == Len(part)
           whole == text \o tail
<1>1. /\ Len(whole) = w + Len(tail) /\ w \in Nat /\ n \in Nat /\ Len(tail) \in Nat
      /\ \A i \in 1..w : whole[i] = text[i]
    BY Joined
<1> HIDE DEF w, n, whole
<1>2. \A i \in 1..n : o + i \in 1..w /\ o + 1 + i - 1 = o + i /\ text[o + i] = part[i]
    BY <1>1 DEF n, w
<1>3. \A i \in 1..n : whole[o + 1 + i - 1] = part[i]
    BY <1>1, <1>2
<1>4. o + 1 + n <= Len(whole) + 1
    BY <1>1 DEF n, w
<1> QED
    BY <1>3, <1>4 DEF Stands, n, whole

(* A record that is written by a template is written so.                      *)
Composed(record, literals, values) ==
    /\ literals \in Seq(Seq(Symbols)) /\ values \in Seq(Seq(Symbols)) /\ Len(literals) = Len(values) + 1
    /\ record = FlattenSeq([i \in 1..Len(values) |-> literals[i] \o values[i]]) \o literals[Len(literals)]

LEMMA RecordWritten ==
    ASSUME NEW literals, NEW values, NEW record, Composed(record, literals, values), NEW tail \in Seq(Symbols)
    PROVE  /\ record \in Seq(Symbols) /\ record \o tail \in Seq(Symbols)
           /\ \E start : /\ InPlace(record \o tail, literals, values, start)
                         /\ start[Len(values)] + Len(literals[Len(values) + 1]) = Len(record)
<1> SUFFICES ASSUME literals \in Seq(Seq(Symbols)), values \in Seq(Seq(Symbols)), Len(literals) = Len(values) + 1,
                    record = FlattenSeq([i \in 1..Len(values) |-> literals[i] \o values[i]]) \o literals[Len(literals)]
             PROVE  /\ record \in Seq(Symbols) /\ record \o tail \in Seq(Symbols)
                    /\ \E start : /\ InPlace(record \o tail, literals, values, start)
                                  /\ start[Len(values)] + Len(literals[Len(values) + 1]) = Len(record)
    BY DEF Composed
<1> DEFINE n == Len(values)
           T == Seq(Symbols)
           pieces == [i \in 1..n |-> literals[i] \o values[i]]
           flat == FlattenSeq(pieces)
           last == literals[n + 1]
           text == record \o tail
<1>1. /\ n \in Nat /\ Len(literals) = n + 1 /\ last \in T
      /\ \A k \in 1..n : literals[k] \in T /\ values[k] \in T /\ Len(literals[k]) \in Nat /\ Len(values[k]) \in Nat
    <2>1. n \in Nat /\ Len(literals) = n + 1 /\ n + 1 \in 1..Len(literals)
        OBVIOUS
    <2>2. \A k \in 1..n : k \in 1..Len(literals)
        BY <2>1
    <2> QED
        BY <2>1, <2>2
<1>2. \A k \in 1..n : /\ pieces[k] \in T /\ Len(pieces[k]) = Len(literals[k]) + Len(values[k])
                      /\ \A i \in 1..Len(literals[k]) : pieces[k][i] = literals[k][i]
                      /\ \A i \in 1..Len(values[k]) : pieces[k][Len(literals[k]) + i] = values[k][i]
    <2> SUFFICES ASSUME NEW k \in 1..n
                 PROVE  /\ pieces[k] \in T /\ Len(pieces[k]) = Len(literals[k]) + Len(values[k])
                        /\ \A i \in 1..Len(literals[k]) : pieces[k][i] = literals[k][i]
                        /\ \A i \in 1..Len(values[k]) : pieces[k][Len(literals[k]) + i] = values[k][i]
        OBVIOUS
    <2> DEFINE literal == literals[k]
               value == values[k]
               piece == pieces[k]
    <2>1. literal \in T /\ value \in T /\ piece = literal \o value
        BY <1>1
    <2> HIDE DEF literal, value, piece
    <2>2. /\ piece \in T /\ Len(piece) = Len(literal) + Len(value)
          /\ \A i \in 1..Len(literal) : piece[i] = literal[i]
          /\ \A i \in 1..Len(value) : piece[Len(literal) + i] = value[i]
        BY <2>1, Joined
    <2> QED
        BY <2>2 DEF literal, value, piece
<1>3. pieces \in Seq(T) /\ Len(pieces) = n
    <2>1. pieces \in [1..n -> T]
        BY <1>2
    <2> HIDE DEF pieces, n
    <2> QED
        BY <2>1, <1>1, Listed
<1> HIDE DEF pieces, n
<1>4. flat \in T /\ \E start : Laid(flat, pieces, start)
    BY <1>3, Flattened
<1>5. PICK start : Laid(flat, pieces, start)
    BY <1>4
<1>6. /\ start \in [0..n -> Nat] /\ start[0] = 0 /\ start[n] = Len(flat)
      /\ \A k \in 1..n : /\ start[k] = start[k - 1] + Len(pieces[k]) /\ start[k] <= Len(flat)
                         /\ \A i \in 1..Len(pieces[k]) : flat[start[k - 1] + i] = pieces[k][i]
    BY <1>3, <1>5, Zenon DEF Laid
<1>7. record = flat \o last
    BY <1>1 DEF pieces, n
<1> HIDE DEF flat, last
<1>8. record \in T /\ text \in T /\ Len(record) = Len(flat) + Len(last)
      /\ (\A i \in 1..Len(flat) : record[i] = flat[i])
      /\ (\A i \in 1..Len(last) : record[Len(flat) + i] = last[i])
    <2>1. record \in T /\ Len(record) = Len(flat) + Len(last)
          /\ (\A i \in 1..Len(flat) : record[i] = flat[i])
          /\ (\A i \in 1..Len(last) : record[Len(flat) + i] = last[i])
        <3> DEFINE r == flat \o last
        <3>1. flat \in Seq(Symbols) /\ last \in Seq(Symbols)
            BY <1>1, <1>4
        <3>2. r \in Seq(Symbols) /\ Len(r) = Len(flat) + Len(last)
              /\ (\A i \in 1..Len(flat) : r[i] = flat[i])
              /\ (\A i \in 1..Len(last) : r[Len(flat) + i] = last[i])
            BY <3>1, Joined
        <3>3. record = r
            BY <1>7
        <3> HIDE DEF r
        <3> QED
            BY <3>2, <3>3
    <2> QED
        BY <2>1, Joined
<1>9. Len(flat) \in Nat /\ Len(last) \in Nat /\ Len(record) \in Nat
    BY <1>1, <1>4, <1>8
<1>10. ASSUME NEW k \in 1..n
       PROVE  /\ start[k] = start[k - 1] + Len(literals[k]) + Len(values[k])
              /\ Stands(text, start[k - 1] + 1, literals[k])
              /\ Stands(text, start[k - 1] + Len(literals[k]) + 1, values[k])
    <2> DEFINE o == start[k - 1]
               q == start[k]
               literal == literals[k]
               value == values[k]
               l == Len(literal)
               m == Len(value)
               piece == pieces[k]
               w == Len(flat)
    <2>1. /\ o \in Nat /\ q \in Nat /\ q = o + (l + m) /\ q <= w /\ l \in Nat /\ m \in Nat
          /\ \A i \in 1..(l + m) : flat[o + i] = piece[i]
        <3>1. k - 1 \in 0..n /\ k \in 0..n
            BY <1>1
        <3> QED
            BY <3>1, <1>1, <1>2, <1>6
    <2>2. /\ literal \in T /\ value \in T
          /\ \A i \in 1..l : piece[i] = literal[i]
          /\ \A i \in 1..m : piece[l + i] = value[i]
        BY <1>1, <1>2
    <2> HIDE DEF o, q, literal, value, l, m, piece, w
    <2>3. (\A i \in 1..l : i \in 1..(l + m) /\ o + i \in 1..w)
          /\ \A i \in 1..m : l + i \in 1..(l + m) /\ (o + l) + i = o + (l + i) /\ o + (l + i) \in 1..w
        BY <2>1, <1>9 DEF w
    <2>4. \A i \in 1..l : record[o + i] = literal[i]
        BY <2>1, <2>2, <2>3, <1>8 DEF w
    <2>5. \A i \in 1..m : record[(o + l) + i] = value[i]
        BY <2>1, <2>2, <2>3, <1>8 DEF w
    <2>6. o + l <= Len(record) /\ (o + l) + m <= Len(record) /\ o + l \in Nat
        <3> DEFINE e == Len(record)
        <3>1. o \in Nat /\ l \in Nat /\ m \in Nat /\ o + (l + m) <= w
            BY <2>1
        <3>2. w \in Nat /\ e \in Nat /\ w <= e
            BY <1>8, <1>9 DEF w
        <3> HIDE DEF e
        <3>3. o + l <= e /\ (o + l) + m <= e /\ o + l \in Nat
            BY <3>1, <3>2
        <3> QED
            BY <3>3 DEF e
    <2>7. Stands(text, o + 1, literal)
        BY <2>1, <2>2, <2>4, <2>6, <1>8, StandsOn DEF l
    <2>8. Stands(text, (o + l) + 1, value)
        <3> DEFINE p == o + l
        <3>1. p \in Nat /\ p + Len(value) <= Len(record) /\ \A i \in 1..Len(value) : record[p + i] = value[i]
            BY <2>5, <2>6 DEF m
        <3> HIDE DEF p
        <3>2. Stands(text, p + 1, value)
            BY <3>1, <2>2, <1>8, StandsOn
        <3> QED
            BY <3>2 DEF p
    <2>9. q = o + l + m
        BY <2>1
    <2> QED
        BY <2>7, <2>8, <2>9 DEF o, q, literal, value, l, m
<1>11. Stands(text, start[n] + 1, last)
    <2> DEFINE o == start[n]
    <2>4. o = Len(flat)
        BY <1>6
    <2> HIDE DEF o
    <2>1. o \in Nat /\ o + Len(last) <= Len(record) /\ \A i \in 1..Len(last) : record[o + i] = last[i]
        <3>1. \A i \in 1..Len(last) : record[o + i] = last[i]
            BY <2>4, <1>8
        <3> DEFINE l == Len(last)
                   w == Len(record)
        <3>2. w = o + l /\ o \in Nat /\ l \in Nat
            BY <2>4, <1>8, <1>9
        <3> HIDE DEF l, w
        <3>3. o + l <= w
            BY <3>2
        <3> QED
            BY <3>1, <3>2, <3>3 DEF l, w
    <2>2. last \in T
        BY <1>1
    <2>3. Stands(text, o + 1, last)
        BY <2>1, <2>2, <1>8, StandsOn
    <2> QED
        BY <2>3 DEF o
<1>12. InPlace(text, literals, values, start)
    BY <1>6, <1>10, <1>11 DEF InPlace, n, last
<1>13. start[n] + Len(last) = Len(record)
    BY <1>6, <1>8
<1> QED
    BY <1>8, <1>12, <1>13 DEF n, last

(* The places of literal k, when these are the places of the literal behind it. *)
PlaceSet(t, text, k, behind) ==
    {i \in 1..(Len(text) + 1) :
        /\ LiteralAt(text, i, t.literals[k])
        /\ IF k = Len(t.literals)
             THEN i + Len(t.literals[k]) = Len(text) + 1 \/ LiteralAt(text, i + Len(t.literals[k]), t.separator)
             ELSE \E j \in behind : j >= i + Len(t.literals[k])}

LEMMA PlacesAre ==
    ASSUME NEW t, Len(t.literals) \in Nat, Len(t.literals) > 0, NEW text
    PROVE  \A k \in 1..Len(t.literals) :
              Places(t, text)[k] = PlaceSet(t, text, k, IF k = Len(t.literals) THEN {} ELSE Places(t, text)[k + 1])
<1> DEFINE n == Len(t.literals)
           T == SUBSET (1..(Len(text) + 1))
           N == n - 1
           set(k, behind) == PlaceSet(t, text, k, behind)
           first == set(n, {})
           step == [p \in (1..N) \X T |-> set(n - p[1], p[2])]
           Solves(f) == f = [k \in 1..n |-> set(k, IF k = n THEN {} ELSE f[k + 1])]
<1>1. Places(t, text) = CHOOSE f : Solves(f)
    BY Zenon DEF Places, PlaceSet
<1>2. \A k, behind : set(k, behind) \in T
    BY DEF PlaceSet
<1>0. n \in Nat /\ n > 0
    OBVIOUS
<1> HIDE DEF set, n
<1>3. \A j \in 1..N, behind \in T : step[<<j, behind>>] = set(n - j, behind) /\ step[<<j, behind>>] \in T
    BY <1>2
<1>4. first \in T /\ N \in Nat /\ 0 + 1 = 1
    BY <1>0, <1>2
<1> HIDE DEF T, step, first, N
<1>5. PICK h : h \in [0..N -> T] /\ h[0] = first /\ \A j \in 1..N : h[j] = step[<<j, h[j - 1]>>]
    <2> DEFINE m == 0
    <2>1. m \in Nat /\ m <= N /\ m + 1 = 1
        BY <1>4
    <2> HIDE DEF m
    <2>2. Iterable(m, N, T, first, step)
        BY <1>3, <1>4, <2>1 DEF Iterable
    <2>3. PICK h : Iterates(h, m, N, T, first, step)
        BY <2>2, Iterated
    <2>4. h \in [m..N -> T] /\ h[m] = first /\ \A j \in 1..N : h[j] = step[<<j, h[j - 1]>>]
        BY <2>1, <2>3 DEF Iterates
    <2> QED
        BY <2>4 DEF m
<1> DEFINE f == [k \in 1..n |-> h[n - k]]
<1>6. ASSUME NEW k \in 1..n PROVE f[k] = set(k, IF k = n THEN {} ELSE f[k + 1])
    <2>1. CASE k = n
        BY <2>1, <1>0, <1>5 DEF first
    <2>2. CASE k # n
        <3> DEFINE j == n - k
        <3>1. j \in 1..N /\ n - j = k /\ n - (k + 1) = j - 1 /\ k + 1 \in 1..n /\ j - 1 \in 0..N
            BY <2>2, <1>0 DEF N
        <3> HIDE DEF j
        <3>2. h[j] = step[<<j, h[j - 1]>>] /\ h[j - 1] \in T
            BY <3>1, <1>5
        <3>3. h[j] = set(k, h[j - 1])
            BY <3>1, <3>2, <1>3
        <3>4. f[k] = h[j] /\ f[k + 1] = h[j - 1]
            BY <3>1 DEF j
        <3> HIDE DEF f
        <3> QED
            BY <2>2, <3>3, <3>4
    <2> QED
        BY <2>1, <2>2
<1>7. Solves(f)
    <2>1. f = [k \in 1..n |-> f[k]]
        OBVIOUS
    <2> HIDE DEF f
    <2> QED
        BY <2>1, <1>6
<1> HIDE DEF f, Solves
<1>8. Solves(Places(t, text))
    BY <1>1, <1>7
<1> DEFINE places == Places(t, text)
<1>9. places = [k \in 1..n |-> set(k, IF k = n THEN {} ELSE places[k + 1])]
    BY <1>8, Zenon DEF Solves
<1> HIDE DEF places
<1>10. \A k \in 1..n : places[k] = set(k, IF k = n THEN {} ELSE places[k + 1])
    BY <1>9
<1> QED
    BY <1>10 DEF places, set, n

(* What is written by a template is found: where the values end the text, or a *)
(* separator follows.                                                          *)
Ended(text, t, end) == end = Len(text) \/ Stands(text, end + 1, t.separator)

LEMMA WrittenIsFound ==
    ASSUME NEW t, t.literals \in Seq(Seq(Symbols)), t.separator \in Seq(Symbols), NEW text \in Seq(Symbols),
           NEW values, NEW n, n = Len(values), n \in Nat, Len(t.literals) = n + 1,
           NEW start, InPlace(text, t.literals, values, start), \A k \in 1..n : Len(values[k]) \in Nat,
           Ended(text, t, start[n] + Len(t.literals[n + 1]))
    PROVE  \A k \in 1..(n + 1) : start[k - 1] + 1 \in Places(t, text)[k]
<1> DEFINE w == Len(text)
           literals == t.literals
           places == Places(t, text)
<1>1. \A k \in 1..(n + 1) : places[k] = PlaceSet(t, text, k, IF k = n + 1 THEN {} ELSE places[k + 1])
    <2>1. Len(literals) = n + 1 /\ Len(literals) \in Nat /\ Len(literals) > 0
        OBVIOUS
    <2>2. \A k \in 1..Len(literals) : places[k] = PlaceSet(t, text, k, IF k = Len(literals) THEN {} ELSE places[k + 1])
        BY <2>1, PlacesAre
    <2> QED
        BY <2>1, <2>2
<1>2. w \in Nat /\ \A k \in 1..(n + 1) : literals[k] \in Seq(Symbols) /\ Len(literals[k]) \in Nat
    OBVIOUS
<1>3. /\ start \in [0..n -> Nat] /\ start[0] = 0
      /\ \A k \in 1..n : /\ start[k] = start[k - 1] + Len(literals[k]) + Len(values[k])
                         /\ Stands(text, start[k - 1] + 1, literals[k])
      /\ Stands(text, start[n] + 1, literals[n + 1])
    BY DEF InPlace
<1> HIDE DEF w, places
<1>4. ASSUME NEW k \in 1..(n + 1)
      PROVE  /\ start[k - 1] \in Nat /\ start[k - 1] + 1 \in 1..(w + 1) /\ LiteralAt(text, start[k - 1] + 1, literals[k])
             /\ start[k - 1] + 1 + Len(literals[k]) <= w + 1
    <2> DEFINE p == start[k - 1]
               literal == literals[k]
               l == Len(literal)
    <2>1. Stands(text, p + 1, literal)
        <3>1. k \in 1..n \/ k = n + 1
            OBVIOUS
        <3>2. CASE k \in 1..n
            BY <3>2, <1>3
        <3>3. CASE k = n + 1
            <4>1. k - 1 = n
                BY <3>3
            <4> QED
                BY <4>1, <3>3, <1>3
        <3> QED
            BY <3>1, <3>2, <3>3
    <2>2. p \in Nat /\ literal \in Seq(Symbols) /\ l \in Nat
        <3>1. k - 1 \in 0..n
            OBVIOUS
        <3> QED
            BY <3>1, <1>2, <1>3
    <2> HIDE DEF p, literal
    <2>3. p + 1 + l <= w + 1
        BY <2>1 DEF Stands, w
    <2> HIDE DEF l
    <2>4. p + 1 \in 1..(w + 1)
        BY <2>2, <2>3, <1>2
    <2>5. LiteralAt(text, p + 1, literal)
        <3> DEFINE i == p + 1
        <3>1. i \in 1..(Len(text) + 1) /\ Stands(text, i, literal)
            BY <2>1, <2>4 DEF w
        <3> HIDE DEF i
        <3>2. LiteralAt(text, i, literal)
            BY <3>1, <2>2, PrefixAt DEF LiteralAt
        <3> QED
            BY <3>2 DEF i
    <2> QED
        BY <2>2, <2>3, <2>4, <2>5 DEF p, literal, l
<1> DEFINE Found == {j \in 0..n : start[n - j] + 1 \in places[(n + 1) - j]}
<1>5. 0 \in Found
    <2> DEFINE p == start[n]
               literal == literals[n + 1]
               l == Len(literal)
    <2>1. n + 1 \in 1..(n + 1) /\ (n + 1) - 1 = n /\ n - 0 = n /\ (n + 1) - 0 = n + 1
        OBVIOUS
    <2>2. p \in Nat /\ p + 1 \in 1..(w + 1) /\ LiteralAt(text, p + 1, literal) /\ p + 1 + l <= w + 1 /\ l \in Nat
        BY <2>1, <1>2, <1>4
    <2>3. p + 1 + l = w + 1 \/ LiteralAt(text, p + 1 + l, t.separator)
        <3>2. p + l = w \/ Stands(text, p + l + 1, t.separator)
            BY DEF Ended, w
        <3> HIDE DEF p, l
        <3> DEFINE i == p + 1 + l
        <3>1. i \in 1..(w + 1) /\ p + l + 1 = i
            BY <2>2, <1>2
        <3>3. CASE p + l = w
            BY <3>1, <3>3
        <3>4. CASE Stands(text, p + l + 1, t.separator)
            <4>1. Stands(text, i, t.separator)
                BY <3>1, <3>4
            <4> HIDE DEF i
            <4>2. LiteralAt(text, i, t.separator)
                BY <3>1, <4>1, PrefixAt DEF LiteralAt, w
            <4> QED
                BY <4>2 DEF i
        <3> QED
            BY <3>2, <3>3, <3>4
    <2>4. p + 1 \in PlaceSet(t, text, n + 1, {})
        <3> HIDE DEF p
        <3>1. Len(t.literals) = n + 1 /\ literal = t.literals[n + 1]
            OBVIOUS
        <3> HIDE DEF literal
        <3> QED
            BY <2>2, <2>3, <3>1 DEF PlaceSet, w, l
    <2>5. places[n + 1] = PlaceSet(t, text, n + 1, {})
        BY <2>1, <1>1
    <2>6. start[n - 0] + 1 \in places[(n + 1) - 0] /\ 0 \in 0..n
        BY <2>1, <2>4, <2>5
    <2> QED
        BY <2>6
<1> HIDE DEF Found
<1>6. ASSUME NEW j \in 0..n, j \in Found, j < n PROVE j + 1 \in Found
    <2> DEFINE k == n - j
               literal == literals[k]
               p == start[k - 1]
               q == start[k]
    <2>1. k \in 1..n /\ k \in 1..(n + 1) /\ k # n + 1 /\ n - (j + 1) = k - 1 /\ (n + 1) - (j + 1) = k /\ (n + 1) - j = k + 1
          /\ j + 1 \in 0..n
        BY <1>6
    <2>2. q + 1 \in places[k + 1]
        BY <2>1, <1>6 DEF Found
    <2>3. places[k] = PlaceSet(t, text, k, places[k + 1])
        BY <2>1, <1>1
    <2>4. p \in Nat /\ p + 1 \in 1..(w + 1) /\ LiteralAt(text, p + 1, literal)
        BY <2>1, <1>4
    <2>5. q = p + Len(literal) + Len(values[k]) /\ Len(literal) \in Nat /\ Len(values[k]) \in Nat /\ literal = t.literals[k]
        BY <2>1, <1>2, <1>3
    <2> HIDE DEF literal, p, q
    <2>6. q + 1 >= (p + 1) + Len(literal)
        <3> DEFINE l == Len(literal)
                   m == Len(values[k])
        <3>1. q = p + l + m /\ l \in Nat /\ m \in Nat /\ p \in Nat
            BY <2>4, <2>5
        <3> HIDE DEF l, m, k
        <3>2. q + 1 >= (p + 1) + l
            BY <3>1
        <3> QED
            BY <3>2 DEF l
    <2>7. p + 1 \in PlaceSet(t, text, k, places[k + 1])
        <3> HIDE DEF k
        <3>1. k # Len(t.literals)
            BY <2>1
        <3> QED
            BY <2>2, <2>4, <2>5, <2>6, <3>1 DEF PlaceSet, w
    <2> QED
        BY <2>1, <2>3, <2>7 DEF p, Found
<1>7. \A j \in 0..n : j \in Found
    BY <1>5, <1>6, UpTo
<1>8. ASSUME NEW k \in 1..(n + 1) PROVE start[k - 1] + 1 \in places[k]
    <2>1. (n + 1) - k \in 0..n /\ n - ((n + 1) - k) = k - 1 /\ (n + 1) - ((n + 1) - k) = k
        OBVIOUS
    <2>2. (n + 1) - k \in Found
        BY <2>1, <1>7
    <2> QED
        BY <2>1, <2>2 DEF Found
<1> QED
    BY <1>8 DEF places

(* No value runs into the literal behind it: see Apart.                        *)
Behind(t, values, i) ==
    IF i = Len(values) /\ Last(t.literals) = Empty THEN t.separator ELSE t.literals[i + 1]
Unmistaken(t, values) ==
    \A i \in 1..Len(values) : \A k \in 1..Len(values[i]) :
        ~LiteralAt(values[i] \o Behind(t, values, i), k, Behind(t, values, i))

Recorded(t, text, values, n, start) ==
    /\ t.literals \in Seq(Seq(Symbols)) /\ t.separator \in Seq(Symbols) /\ text \in Seq(Symbols)
    /\ values \in Seq(Seq(Symbols)) /\ n = Len(values) /\ Len(t.literals) = n + 1
    /\ InPlace(text, t.literals, values, start) /\ Unmistaken(t, values)
    /\ Ended(text, t, start[n] + Len(t.literals[n + 1]))

(* Then the places that are preferred are the ones it was written to.          *)
LEMMA WrittenIsPreferred ==
    ASSUME NEW t, NEW text, NEW values, NEW n, NEW start, Recorded(t, text, values, n, start)
    PROVE  \A k \in 1..(n + 1) : Preferred(t, text)[k] = start[k - 1] + 1
<1> SUFFICES ASSUME t.literals \in Seq(Seq(Symbols)), t.separator \in Seq(Symbols), text \in Seq(Symbols),
                    values \in Seq(Seq(Symbols)), n = Len(values), Len(t.literals) = n + 1,
                    InPlace(text, t.literals, values, start), Unmistaken(t, values),
                    Ended(text, t, start[n] + Len(t.literals[n + 1]))
             PROVE  \A k \in 1..(n + 1) : Preferred(t, text)[k] = start[k - 1] + 1
    BY DEF Recorded
<1> DEFINE w == Len(text)
           literals == t.literals
           places == [k \in DOMAIN literals |-> Places(t, text)[k]]
           Near(k, j) == {p \in places[k] : p >= j}
           Reads(f) == f = [k \in DOMAIN literals |-> IF k = 1 THEN 1 ELSE Min(Near(k, f[k - 1] + Len(literals[k - 1])))]
           end == start[n] + Len(literals[n + 1])
<1>1. /\ n \in Nat /\ w \in Nat /\ Len(literals) = n + 1 /\ DOMAIN literals = 1..(n + 1)
      /\ \A k \in 1..(n + 1) : literals[k] \in Seq(Symbols) /\ Len(literals[k]) \in Nat
      /\ \A k \in 1..n : values[k] \in Seq(Symbols) /\ Len(values[k]) \in Nat
    OBVIOUS
<1>2. \A k \in 1..(n + 1) : start[k - 1] + 1 \in Places(t, text)[k]
    BY <1>1, WrittenIsFound
<1>3. \A k \in 1..(n + 1) : places[k] = PlaceSet(t, text, k, IF k = n + 1 THEN {} ELSE Places(t, text)[k + 1])
    <2>1. Len(literals) = n + 1 /\ Len(literals) \in Nat /\ Len(literals) > 0
        BY <1>1
    <2>2. \A k \in 1..Len(literals) :
             Places(t, text)[k] = PlaceSet(t, text, k, IF k = Len(literals) THEN {} ELSE Places(t, text)[k + 1])
        BY <2>1, PlacesAre
    <2> QED
        BY <2>1, <2>2, <1>1
<1>4. \A k \in 1..(n + 1) : start[k - 1] + 1 \in places[k]
    BY <1>1, <1>2
<1>5. /\ start \in [0..n -> Nat] /\ start[0] = 0
      /\ \A k \in 1..n : /\ start[k] = start[k - 1] + Len(literals[k]) + Len(values[k])
                         /\ Stands(text, start[k - 1] + 1, literals[k])
                         /\ Stands(text, start[k - 1] + Len(literals[k]) + 1, values[k])
      /\ Stands(text, start[n] + 1, literals[n + 1])
    BY DEF InPlace
<1>6. end = w \/ Stands(text, end + 1, t.separator)
    BY DEF Ended
<1>7. Preferred(t, text) = [k \in DOMAIN literals |-> (CHOOSE f : Reads(f))[k]]
    BY Zenon DEF Preferred
<1>8. Last(literals) = literals[n + 1]
    BY <1>1 DEF Last
<1> HIDE DEF w, places, end
(* The nearest place of the literal behind value i.                            *)
<1>9. ASSUME NEW i \in 1..n PROVE Min(Near(i + 1, (start[i - 1] + 1) + Len(literals[i]))) = start[i] + 1
    <2> DEFINE k == i + 1
               literal == literals[i]
               value == values[i]
               l == Len(literal)
               m == Len(value)
               p == start[i - 1]
               o == p + l
               q == start[i]
               S == Near(k, (p + 1) + l)
               behind == Behind(t, values, i)
    <2>1. k \in 1..(n + 1) /\ k - 1 = i /\ i \in 0..n /\ i - 1 \in 0..n
        BY <1>1
    <2>2. /\ p \in Nat /\ q \in Nat /\ l \in Nat /\ m \in Nat /\ q = p + l + m
          /\ value \in Seq(Symbols) /\ Stands(text, p + l + 1, value) /\ q + 1 \in places[k]
        <3>1. p \in Nat /\ q \in Nat
            BY <2>1, <1>5
        <3>2. l \in Nat /\ m \in Nat /\ value \in Seq(Symbols)
            BY <2>1, <1>1
        <3>3. q = p + l + m /\ Stands(text, p + l + 1, value)
            BY <1>5
        <3>4. q + 1 \in places[k]
            <4> HIDE DEF k
            <4>1. start[k - 1] + 1 \in places[k]
                BY <2>1, <1>4
            <4> QED
                BY <4>1, <2>1
        <3> QED
            BY <3>1, <3>2, <3>3, <3>4
    <2>3. places[k] \subseteq 1..(w + 1)
        BY <2>1, <1>3 DEF PlaceSet, w
    <2>4. \A j \in 1..m : ~LiteralAt(value \o behind, j, behind)
        BY DEF Unmistaken
    <2>5. behind \in Seq(Symbols)
        BY <2>1, <1>1 DEF Behind
    <2>6. i = n => q + Len(literals[k]) = end
        BY DEF end
    <2>7. places[k] = PlaceSet(t, text, k, IF k = n + 1 THEN {} ELSE Places(t, text)[k + 1])
        BY <2>1, <1>3
    <2>8. q + Len(literals[k]) <= w /\ Stands(text, q + 1, literals[k]) /\ Len(literals[k]) \in Nat
        <3>1. Stands(text, q + 1, literals[k])
            <4>1. CASE i = n
                BY <4>1, <1>5
            <4>2. CASE i # n
                <5>1. k \in 1..n
                    BY <4>2
                <5> QED
                    BY <5>1, <2>1, <1>5
            <4> QED
                BY <4>1, <4>2
        <3>2. Len(literals[k]) \in Nat
            BY <2>1, <1>1
        <3> DEFINE b == Len(literals[k])
        <3>3. q + 1 + b <= w + 1
            BY <3>1 DEF Stands, w
        <3>5. q \in Nat /\ b \in Nat /\ w \in Nat
            BY <3>2, <2>2, <1>1
        <3> HIDE DEF q, b
        <3>4. q + b <= w
            BY <3>3, <3>5
        <3> QED
            BY <3>1, <3>2, <3>4 DEF b, q
    <2>9. (q = w \/ Stands(text, q + 1, behind))
          /\ \A j \in places[k] : j < q + 1 => Stands(text, j, behind)
        <3> DEFINE next == literals[k]
        <3>1. next \in Seq(Symbols)
            BY <2>1, <1>1
        <3>2. CASE i = n /\ Last(literals) = Empty
            <4>1. behind = t.separator /\ next = Empty /\ Len(next) = 0 /\ k = n + 1
                BY <3>2, <1>8 DEF Behind, Empty
            <4>2. q = end
                <5>1. q + Len(next) = end
                    BY <3>2, <2>6
                <5> HIDE DEF q, next
                <5> QED
                    BY <4>1, <5>1, <2>2
            <4>3. q = w \/ Stands(text, q + 1, behind)
                BY <4>1, <4>2, <1>6
            <4>4. ASSUME NEW j \in places[k], j < q + 1 PROVE Stands(text, j, behind)
                <5>1. j \in 1..(w + 1)
                    BY <2>3
                <5>2. j + Len(next) = Len(text) + 1 \/ LiteralAt(text, j + Len(next), t.separator)
                    BY <4>1, <2>7, <1>1 DEF PlaceSet
                <5> HIDE DEF next, q, k
                <5>3. j + Len(next) = j
                    BY <4>1, <5>1
                <5>4. j # Len(text) + 1
                    <6> HIDE DEF l, m, p
                    <6>1. q \in Nat /\ w \in Nat /\ q = end
                        BY <4>2, <2>2, <1>1
                    <6>2. q <= w
                        <7> DEFINE b == Len(literals[i + 1])
                        <7>1. q + b <= w /\ b \in Nat
                            BY <2>8 DEF k
                        <7> HIDE DEF b
                        <7> QED
                            BY <6>1, <7>1
                    <6> QED
                        BY <4>4, <5>1, <6>1, <6>2 DEF w
                <5>5. LiteralAt(text, j, t.separator)
                    BY <5>2, <5>3, <5>4
                <5>6. Stands(text, j, t.separator)
                    BY <5>1, <5>5, PrefixAt DEF LiteralAt, w
                <5> QED
                    BY <4>1, <5>6
            <4> QED
                BY <4>3, <4>4
        <3>3. CASE ~(i = n /\ Last(literals) = Empty)
            <4>1. behind = next
                BY <3>3 DEF Behind
            <4>2. ASSUME NEW j \in places[k], j < q + 1 PROVE Stands(text, j, behind)
                <5>1. j \in 1..(w + 1) /\ LiteralAt(text, j, next)
                    BY <2>3, <2>7 DEF PlaceSet
                <5> HIDE DEF next
                <5>2. Stands(text, j, next)
                    BY <5>1, <3>1, PrefixAt DEF LiteralAt, w
                <5> QED
                    BY <5>2, <4>1
            <4> QED
                BY <4>1, <4>2, <2>8
        <3> QED
            BY <3>2, <3>3
    <2> HIDE DEF value, l, m, p, q, behind, k, Near
    <2>10. o \in Nat /\ o + m = q /\ (p + 1) + l = o + 1
        BY <2>2
    <2> HIDE DEF o
    <2>11. ASSUME NEW j \in S PROVE j \in places[k] /\ j >= o + 1 /\ j >= q + 1
        <3>1. j \in places[k] /\ j >= o + 1 /\ j \in Nat
            BY <2>3, <2>10 DEF Near
        <3>2. SUFFICES ASSUME j < q + 1 PROVE FALSE
            BY <3>1, <2>2
        <3> DEFINE r == j - o
        <3>3. r \in 1..m /\ o + r = j
            BY <3>1, <3>2, <2>2, <2>10
        <3>4. Stands(text, j, behind)
            BY <3>1, <3>2, <2>9
        <3> HIDE DEF r
        <3>5. Stands(text, o + r, behind) /\ r \in 1..Len(value)
            BY <3>3, <3>4 DEF m
        <3>6. Stands(text, o + 1, value)
            BY <2>2 DEF o
        <3>7. o + Len(value) = Len(text) \/ Stands(text, o + Len(value) + 1, behind)
            BY <2>9, <2>10 DEF m, w
        <3>8. LiteralAt(value \o behind, r, behind)
            BY <3>5, <3>6, <3>7, <2>2, <2>5, <2>10, RunsInto
        <3> QED
            BY <3>3, <3>8, <2>4
    <2>12. q + 1 \in S
        <3>1. p \in Nat /\ l \in Nat /\ m \in Nat /\ q = p + l + m /\ q + 1 \in places[k]
            BY <2>2
        <3>2. q + 1 >= (p + 1) + l
            BY <3>1
        <3> QED
            BY <3>1, <3>2 DEF Near
    <2>13. S \in SUBSET (1..(w + 1)) /\ w + 1 \in Nat
        BY SMTT(30), <2>3, <2>11, <1>1
    <2> HIDE DEF S
    <2>14. Min(S) \in S /\ Min(S) <= q + 1
        <3> DEFINE N == w + 1
        <3>1. N \in Nat /\ S \in SUBSET (1..N) /\ S # {}
            BY <2>12, <2>13
        <3> HIDE DEF N
        <3>2. Min(S) \in S /\ \A x \in S : Min(S) <= x
            BY <3>1, Ends
        <3> QED
            BY <3>2, <2>12
    <2> DEFINE s == Min(S)
    <2>15. s >= q + 1 /\ s <= q + 1 /\ s \in 1..(w + 1)
        BY <2>11, <2>13, <2>14
    <2> HIDE DEF s
    <2>17. s = q + 1
        BY <2>2, <2>15, <1>1
    <2>16. Min(S) = q + 1
        BY <2>17 DEF s
    <2> QED
        BY <2>16 DEF S, k, p, l, q
<1> HIDE DEF Near
<1> DEFINE f == [k \in DOMAIN literals |-> start[k - 1] + 1]
<1>10. Reads(f)
    <2>1. ASSUME NEW k \in 1..(n + 1)
          PROVE  f[k] = IF k = 1 THEN 1 ELSE Min(Near(k, f[k - 1] + Len(literals[k - 1])))
        <3>1. CASE k = 1
            <4>1. f[k] = start[0] + 1
                BY <3>1, <1>1
            <4> QED
                BY <3>1, <4>1, <1>5
        <3>2. CASE k # 1
            <4> DEFINE i == k - 1
            <4>1. i \in 1..n /\ k = i + 1 /\ i \in 1..(n + 1)
                BY <3>2, <1>1
            <4>2. f[k] = start[i] + 1 /\ f[i] = start[i - 1] + 1
                BY <4>1, <1>1
            <4> HIDE DEF f, i
            <4>3. f[k] = Min(Near(i + 1, f[i] + Len(literals[i])))
                BY <4>1, <4>2, <1>9
            <4> QED
                BY <3>2, <4>1, <4>3 DEF i
        <3> QED
            BY <3>1, <3>2
    <2>2. f = [k \in DOMAIN literals |-> f[k]]
        OBVIOUS
    <2> HIDE DEF f
    <2> QED
        BY <2>1, <2>2, <1>1
<1> HIDE DEF f
<1> DEFINE at == CHOOSE g : Reads(g)
<1>11. Reads(at)
    <2> HIDE DEF Reads
    <2> QED
        BY <1>10
<1>12. Preferred(t, text) = [k \in DOMAIN literals |-> at[k]]
    BY <1>7
<1> HIDE DEF at
<1>13. at[1] = 1 /\ \A k \in 1..n : at[k + 1] = Min(Near(k + 1, at[k] + Len(literals[k])))
    <2>1. \A k \in 1..(n + 1) : at[k] = IF k = 1 THEN 1 ELSE Min(Near(k, at[k - 1] + Len(literals[k - 1])))
        BY <1>1, <1>11
    <2> HIDE DEF Near
    <2>2. at[1] = 1
        <3>1. 1 \in 1..(n + 1)
            BY <1>1
        <3> QED
            BY <2>1, <3>1
    <2>3. ASSUME NEW k \in 1..n PROVE at[k + 1] = Min(Near(k + 1, at[k] + Len(literals[k])))
        <3> DEFINE j == k + 1
        <3>1. j \in 1..(n + 1) /\ j # 1 /\ j - 1 = k
            BY <1>1
        <3> HIDE DEF j
        <3>2. at[j] = Min(Near(j, at[j - 1] + Len(literals[j - 1])))
            BY <2>1, <3>1
        <3> QED
            BY <3>1, <3>2 DEF j
    <2> QED
        BY <2>2, <2>3
<1> DEFINE Matched == {k \in 0..n : at[k + 1] = start[k] + 1}
<1>14. 0 \in Matched
    BY <1>1, <1>5, <1>13
<1>15. ASSUME NEW j \in 0..n, j \in Matched, j < n PROVE j + 1 \in Matched
    <2> DEFINE i == j + 1
    <2>1. i \in 1..n /\ i \in 0..n /\ i - 1 = j
        BY <1>1, <1>15
    <2>2. at[i] = start[i - 1] + 1
        BY <2>1, <1>15
    <2> HIDE DEF i
    <2>3. at[i + 1] = start[i] + 1
        BY <2>1, <2>2, <1>9, <1>13
    <2> QED
        BY <2>1, <2>3 DEF i
<1>16. \A k \in 0..n : k \in Matched
    <2> HIDE DEF Matched
    <2> QED
        BY <1>1, <1>14, <1>15, UpTo
<1>17. ASSUME NEW k \in 1..(n + 1) PROVE Preferred(t, text)[k] = start[k - 1] + 1
    <2>1. k - 1 \in 0..n /\ (k - 1) + 1 = k
        BY <1>1
    <2>2. at[(k - 1) + 1] = start[k - 1] + 1
        BY <2>1, <1>16
    <2> QED
        BY <2>1, <2>2, <1>1, <1>12
<1> QED
    BY <1>17

(* So every value is captured between the literals around it.                  *)
LEMMA WrittenIsCaptured ==
    ASSUME NEW t, NEW text, NEW values, NEW n, NEW start, Recorded(t, text, values, n, start),
           NEW at, at = Preferred(t, text)
    PROVE  /\ \A k \in 1..n : SubSeq(text, at[k] + Len(t.literals[k]), at[k + 1] - 1) = values[k]
           /\ at[Len(at)] = start[n] + 1
<1> DEFINE literals == t.literals
<1>1. \A k \in 1..(n + 1) : at[k] = start[k - 1] + 1
    <2>1. \A k \in 1..(n + 1) : Preferred(t, text)[k] = start[k - 1] + 1
        BY WrittenIsPreferred
    <2> QED
        BY <2>1
<1>2. n \in Nat /\ text \in Seq(Symbols) /\ Len(literals) = n + 1 /\ DOMAIN literals = 1..(n + 1)
      /\ (\A k \in 1..(n + 1) : literals[k] \in Seq(Symbols)) /\ \A k \in 1..n : values[k] \in Seq(Symbols)
    BY DEF Recorded
<1>3. Len(at) = n + 1
    <2> DEFINE Near(k, j) == {p \in [i \in DOMAIN literals |-> Places(t, text)[i]][k] : p >= j}
               Reads(f) == f = [k \in DOMAIN literals |->
                                  IF k = 1 THEN 1 ELSE Min(Near(k, f[k - 1] + Len(literals[k - 1])))]
               g == CHOOSE f : Reads(f)
    <2>6. Preferred(t, text) = [k \in DOMAIN literals |-> g[k]]
        BY Zenon DEF Preferred
    <2> HIDE DEF g, literals
    <2>1. at = [k \in DOMAIN literals |-> at[k]]
        <3>1. at = [k \in DOMAIN literals |-> g[k]]
            BY <2>6
        <3> QED
            BY <3>1
    <2>2. at = [k \in 1..(n + 1) |-> at[k]]
        BY <2>1, <1>2
    <2>3. n + 1 \in Nat /\ at \in [1..(n + 1) -> {at[k] : k \in 1..(n + 1)}]
        BY <2>2, <1>2
    <2> DEFINE m == n + 1
               S == {at[k] : k \in 1..m}
    <2>4. m \in Nat /\ at \in [1..m -> S]
        BY <2>3
    <2> HIDE DEF m, S
    <2>5. Len(at) = m
        BY <2>4, Listed
    <2> QED
        BY <2>5 DEF m
<1>4. /\ start \in [0..n -> Nat]
      /\ \A k \in 1..n : /\ start[k] = start[k - 1] + Len(literals[k]) + Len(values[k])
                         /\ Stands(text, start[k - 1] + Len(literals[k]) + 1, values[k])
    BY DEF Recorded, InPlace
<1>5. ASSUME NEW k \in 1..n PROVE SubSeq(text, at[k] + Len(literals[k]), at[k + 1] - 1) = values[k]
    <2> DEFINE value == values[k]
               literal == literals[k]
               l == Len(literal)
               m == Len(value)
               p == start[k - 1]
               q == start[k]
               i == p + l + 1
    <2>1. k \in 1..(n + 1) /\ k + 1 \in 1..(n + 1) /\ k - 1 \in 0..n /\ k \in 0..n /\ (k + 1) - 1 = k
        BY <1>2
    <2>2. at[k] = p + 1 /\ at[k + 1] = q + 1
        BY <2>1, <1>1
    <2>3. q = p + l + m /\ Stands(text, i, value) /\ p \in Nat /\ q \in Nat
        BY <2>1, <1>4
    <2>4. literal \in Seq(Symbols) /\ value \in Seq(Symbols)
        BY <2>1, <1>2
    <2>5. l \in Nat /\ m \in Nat /\ Len(text) \in Nat
        BY <1>2, <2>4
    <2> HIDE DEF p, q, value, literal
    <2>6. i + m <= Len(text) + 1
        BY <2>3 DEF Stands
    <2> HIDE DEF l, m
    <2>7. i \in 1..(Len(text) + 1) /\ (p + 1) + l = i /\ (q + 1) - 1 = i + m - 1
        BY <2>3, <2>5, <2>6
    <2> HIDE DEF i
    <2>8. SubSeq(text, i, i + m - 1) = value
        BY <1>2, <2>3, <2>4, <2>7, CutOut DEF m
    <2> QED
        BY <2>2, <2>7, <2>8 DEF l, literal, value
<1>6. at[Len(at)] = start[n] + 1
    <2>1. n + 1 \in 1..(n + 1) /\ (n + 1) - 1 = n
        BY <1>2
    <2> QED
        BY <2>1, <1>1, <1>3
<1> QED
    BY <1>5, <1>6

(* A value that is written as a JSON string is read back from it.              *)
LEMMA JSONRead ==
    ASSUME NEW value \in Seq(Symbols \ {Escape}), NEW text, text = EncodeJSON(value)
    PROVE  text \in Seq(Symbols) /\ WellEncoded(text) /\ DecodeJSON(text) = value
<1> DEFINE n == Len(value)
           T == Seq(Symbols)
           pieces == [i \in DOMAIN value |-> IF value[i] = Quote THEN <<Escape, Quote>> ELSE <<value[i]>>]
           x == FlattenSeq(pieces)
           w == Len(x)
           kept == [i \in DOMAIN x |-> IF x[i] = Escape THEN Empty ELSE <<x[i]>>]
           y == FlattenSeq(kept)
<1>1. n \in Nat /\ DOMAIN value = 1..n /\ \A k \in 1..n : value[k] \in Symbols /\ value[k] # Escape
    OBVIOUS
<1>2. Quote \in Symbols /\ Escape \in Symbols /\ Quote # Escape
    BY DEF Symbols, Quote, Escape
<1>3. \A k \in 1..n : pieces[k] \in T /\ Len(pieces[k]) = (IF value[k] = Quote THEN 2 ELSE 1)
    BY <1>1, <1>2
<1>4. pieces \in Seq(T) /\ Len(pieces) = n
    <2>1. pieces \in [1..n -> T]
        BY <1>1, <1>3
    <2> HIDE DEF pieces, n
    <2> QED
        BY <2>1, <1>1, Listed
<1>5. \A k \in 1..n : (value[k] = Quote => pieces[k][1] = Escape /\ pieces[k][2] = Quote)
                      /\ (value[k] # Quote => pieces[k][1] = value[k])
    BY <1>1
<1> HIDE DEF pieces, n
<1>6. x \in T /\ \E start : Laid(x, pieces, start)
    BY <1>4, Flattened
<1>7. PICK start : Laid(x, pieces, start)
    BY <1>6
<1> HIDE DEF x
<1>8. /\ start \in [0..n -> Nat] /\ start[0] = 0 /\ start[n] = w /\ w \in Nat
      /\ \A k \in 1..n : /\ start[k] = start[k - 1] + Len(pieces[k]) /\ start[k] <= w
                         /\ \A i \in 1..Len(pieces[k]) : x[start[k - 1] + i] = pieces[k][i]
    <2>1. w \in Nat
        BY <1>6
    <2> QED
        BY <1>4, <1>7, <2>1, Zenon DEF Laid
(* What one symbol of the value becomes.                                       *)
<1>9. ASSUME NEW k \in 0..n, k < n
      PROVE  /\ k + 1 \in 1..n /\ k + 1 \in 0..n /\ start[k] \in Nat /\ start[k + 1] <= w
             /\ value[k + 1] = Quote => /\ start[k + 1] = start[k] + 2
                                        /\ x[start[k] + 1] = Escape /\ x[start[k] + 2] = Quote
             /\ value[k + 1] # Quote => /\ start[k + 1] = start[k] + 1
                                        /\ x[start[k] + 1] = value[k + 1]
    <2> DEFINE j == k + 1
               p == start[k]
               q == start[j]
               piece == pieces[j]
               l == Len(piece)
    <2>1. j \in 1..n /\ j \in 0..n /\ j - 1 = k /\ p \in Nat
        BY <1>1, <1>8, <1>9
    <2>2. q = p + l /\ q <= w /\ \A i \in 1..l : x[p + i] = piece[i]
        BY <2>1, <1>8
    <2>3. /\ l = IF value[j] = Quote THEN 2 ELSE 1
          /\ value[j] = Quote => piece[1] = Escape /\ piece[2] = Quote
          /\ value[j] # Quote => piece[1] = value[j]
        BY <2>1, <1>3, <1>5
    <2> HIDE DEF j, p, q, piece, l
    <2>4. CASE value[j] = Quote
        <3>1. l = 2 /\ 1 \in 1..l /\ 2 \in 1..l
            BY <2>3, <2>4
        <3> QED
            BY <3>1, <2>1, <2>2, <2>3, <2>4 DEF j, p, q
    <2>5. CASE value[j] # Quote
        <3>1. l = 1 /\ 1 \in 1..l
            BY <2>3, <2>5
        <3> QED
            BY <3>1, <2>1, <2>2, <2>3, <2>5 DEF j, p, q
    <2> QED
        BY <2>4, <2>5
(* The text is that between two quotes.                                        *)
<1>10. /\ text \in T /\ Len(text) = w + 2 /\ text[1] = Quote /\ text[w + 2] = Quote
       /\ \A i \in 1..w : text[i + 1] = x[i]
    <2> DEFINE q == <<Quote>>
               a == q \o x
               b == a \o q
    <2>1. q \in Seq(Symbols) /\ Len(q) = 1 /\ q[1] = Quote
        BY <1>2
    <2>2. text = b
        BY DEF EncodeJSON, x, pieces
    <2> HIDE DEF q
    <2>3. /\ a \in Seq(Symbols) /\ Len(a) = 1 + w
          /\ a[1] = Quote /\ \A i \in 1..w : a[1 + i] = x[i]
        <3>1. /\ a \in Seq(Symbols) /\ Len(a) = Len(q) + Len(x)
              /\ (\A i \in 1..Len(q) : a[i] = q[i]) /\ \A i \in 1..Len(x) : a[Len(q) + i] = x[i]
            <4>1. q \in Seq(Symbols) /\ x \in Seq(Symbols)
                BY <2>1, <1>6
            <4> QED
                BY <4>1, Joined
        <3> HIDE DEF a
        <3> QED
            BY <3>1, <2>1
    <2> HIDE DEF a
    <2>4. /\ b \in Seq(Symbols) /\ Len(b) = Len(a) + Len(q)
          /\ (\A i \in 1..Len(a) : b[i] = a[i]) /\ \A i \in 1..Len(q) : b[Len(a) + i] = q[i]
        <3>1. a \in Seq(Symbols) /\ q \in Seq(Symbols)
            BY <2>1, <2>3
        <3> QED
            BY <3>1, Joined
    <2> HIDE DEF b, w
    <2>5. Len(b) = w + 2 /\ b[1] = Quote /\ b[w + 2] = Quote
        <3>1. 1 \in 1..Len(a) /\ 1 \in 1..Len(q) /\ Len(a) + 1 = w + 2
            BY <1>8, <2>1, <2>3
        <3> QED
            BY <3>1, <2>1, <2>3, <2>4
    <2>6. \A i \in 1..w : b[i + 1] = x[i]
        <3>1. \A i \in 1..w : i + 1 \in 1..Len(a) /\ i + 1 = 1 + i
            BY <1>8, <2>3
        <3> QED
            BY <3>1, <2>3, <2>4
    <2> QED
        BY <2>2, <2>4, <2>5, <2>6
<1> HIDE DEF w
(* A quote in it has a backslash before it, and nothing else has.              *)
<1> DEFINE Marked(i) == x[i] = Quote <=> text[i] = Escape
           Good == {k \in 0..n : text[start[k] + 1] # Escape /\ \A i \in 1..start[k] : Marked(i)}
<1>11. 0 \in Good
    BY <1>1, <1>2, <1>8, <1>10
<1>12. ASSUME NEW k \in 0..n, k \in Good, k < n PROVE k + 1 \in Good
    <2> DEFINE p == start[k]
               q == start[k + 1]
               v == value[k + 1]
    <2>1. /\ k + 1 \in 1..n /\ k + 1 \in 0..n /\ p \in Nat /\ q <= w
          /\ v = Quote => q = p + 2 /\ x[p + 1] = Escape /\ x[p + 2] = Quote
          /\ v # Quote => q = p + 1 /\ x[p + 1] = v
        BY <1>9, <1>12
    <2>2. v # Escape
        BY <2>1, <1>1
    <2>3. text[p + 1] # Escape /\ \A i \in 1..p : Marked(i)
        BY <1>12
    <2> HIDE DEF p, q, v
    <2>4. text[q + 1] # Escape /\ \A i \in 1..q : Marked(i)
        <3>1. CASE v = Quote
            <4>1. p + 1 \in 1..w /\ p + 2 \in 1..w /\ (p + 1) + 1 = p + 2 /\ (p + 2) + 1 = q + 1
                BY <3>1, <2>1, <1>8
            <4>2. text[p + 2] = Escape /\ text[q + 1] = Quote
                BY <3>1, <4>1, <2>1, <1>10
            <4>3. Marked(p + 1) /\ Marked(p + 2)
                BY <3>1, <4>2, <2>1, <2>3, <1>2
            <4>4. \A i \in 1..q : i \in 1..p \/ i = p + 1 \/ i = p + 2
                BY <3>1, <2>1
            <4> HIDE DEF Marked
            <4> QED
                BY <4>2, <4>3, <4>4, <2>3, <1>2
        <3>2. CASE v # Quote
            <4>1. p + 1 \in 1..w /\ (p + 1) + 1 = q + 1
                BY <3>2, <2>1, <1>8
            <4>2. text[q + 1] = v
                BY <3>2, <4>1, <2>1, <1>10
            <4>3. Marked(p + 1)
                BY <3>2, <2>1, <2>3
            <4>4. \A i \in 1..q : i \in 1..p \/ i = p + 1
                BY <3>2, <2>1
            <4> HIDE DEF Marked
            <4> QED
                BY <4>2, <4>3, <4>4, <2>2, <2>3
        <3> QED
            BY <3>1, <3>2
    <2> QED
        BY <2>1, <2>4 DEF p, q
<1>13. \A i \in 1..w : Marked(i)
    <2>1. \A k \in 0..n : k \in Good
        <3> HIDE DEF Good
        <3> QED
            BY <1>1, <1>11, <1>12, UpTo
    <2>2. n \in Good
        BY <2>1, <1>1
    <2> QED
        BY <2>2, <1>8
<1>14. WellEncoded(text)
    <2>1. Len(text) > 1 /\ Head(text) = Quote /\ Last(text) = Quote
        BY <1>8, <1>10 DEF Last
    <2>2. ASSUME NEW i \in 2..(Len(text) - 1) PROVE text[i] = Quote <=> text[i - 1] = Escape
        <3>1. i - 1 \in 1..w /\ (i - 1) + 1 = i
            BY <1>8, <1>10
        <3> HIDE DEF Marked
        <3>2. text[i] = x[i - 1] /\ Marked(i - 1)
            BY <3>1, <1>10, <1>13
        <3> QED
            BY <3>2 DEF Marked
    <2> QED
        BY <2>1, <2>2 DEF WellEncoded
(* Without the backslashes it is the value.                                    *)
<1>15. SubSeq(text, 2, Len(text) - 1) = x
    <2> DEFINE i == 2
    <2>1. i \in 1..(Len(text) + 1) /\ i + Len(x) - 1 = Len(text) - 1 /\ i + Len(x) <= Len(text) + 1
        BY <1>8, <1>10 DEF w
    <2>2. \A k \in 1..Len(x) : text[i + k - 1] = x[k]
        <3>1. \A k \in 1..Len(x) : i + k - 1 = k + 1
            BY <1>8 DEF w
        <3> QED
            BY <3>1, <1>10 DEF w
    <2> HIDE DEF i
    <2>3. Stands(text, i, x)
        BY <2>1, <2>2 DEF Stands
    <2>4. SubSeq(text, i, i + Len(x) - 1) = x
        BY <2>1, <2>3, <1>6, <1>10, CutOut
    <2> QED
        BY <2>1, <2>4 DEF i
<1>16. DecodeJSON(text) = y
    BY <1>15, Zenon DEF DecodeJSON
<1>17. kept \in Seq(T) /\ Len(kept) = w /\ \A i \in 1..w : kept[i] = IF x[i] = Escape THEN Empty ELSE <<x[i]>>
    <2>1. DOMAIN x = 1..w /\ \A i \in 1..w : x[i] \in Symbols
        BY <1>6 DEF w
    <2>2. kept \in [1..w -> T] /\ \A i \in 1..w : kept[i] = IF x[i] = Escape THEN Empty ELSE <<x[i]>>
        BY <2>1 DEF Empty
    <2> HIDE DEF kept
    <2> QED
        BY <2>2, <1>8, Listed
<1> HIDE DEF kept
<1>18. y \in T /\ \E s : Laid(y, kept, s)
    BY <1>17, Flattened
<1>19. PICK s : Laid(y, kept, s)
    BY <1>18
<1> HIDE DEF y
<1>20. /\ s \in [0..w -> Nat] /\ s[0] = 0 /\ s[w] = Len(y)
       /\ \A k \in 1..w : /\ s[k] = s[k - 1] + Len(kept[k])
                          /\ \A i \in 1..Len(kept[k]) : y[s[k - 1] + i] = kept[k][i]
    BY <1>17, <1>19, Zenon DEF Laid
<1>21. ASSUME NEW i \in 0..w, i < w
       PROVE  /\ i + 1 \in 0..w /\ s[i] \in Nat
              /\ x[i + 1] = Escape => s[i + 1] = s[i]
              /\ x[i + 1] # Escape => s[i + 1] = s[i] + 1 /\ y[s[i] + 1] = x[i + 1]
    <2> DEFINE j == i + 1
               p == s[i]
               q == s[j]
               piece == kept[j]
               l == Len(piece)
    <2>1. j \in 1..w /\ j \in 0..w /\ j - 1 = i /\ p \in Nat
        BY <1>8, <1>20, <1>21
    <2>2. q = p + l /\ (\A k \in 1..l : y[p + k] = piece[k]) /\ piece = IF x[j] = Escape THEN Empty ELSE <<x[j]>>
        BY <2>1, <1>17, <1>20
    <2> HIDE DEF j, p, q, piece
    <2>3. CASE x[j] = Escape
        <3>1. l = 0
            BY <2>2, <2>3 DEF Empty
        <3> HIDE DEF l
        <3> QED
            BY <3>1, <2>1, <2>2, <2>3 DEF j, p, q
    <2>4. CASE x[j] # Escape
        <3>1. l = 1 /\ piece[1] = x[j] /\ 1 \in 1..l
            BY <2>2, <2>4
        <3> HIDE DEF l
        <3> QED
            BY <3>1, <2>1, <2>2, <2>4 DEF j, p, q
    <2> QED
        BY <2>3, <2>4
<1> DEFINE Back == {k \in 0..n : s[start[k]] = k /\ (k > 0 => y[k] = value[k])}
<1>22. 0 \in Back
    BY <1>1, <1>8, <1>20
<1>23. ASSUME NEW k \in 0..n, k \in Back, k < n PROVE k + 1 \in Back
    <2> DEFINE p == start[k]
               q == start[k + 1]
               v == value[k + 1]
    <2>1. /\ k + 1 \in 1..n /\ k + 1 \in 0..n /\ p \in Nat /\ q <= w
          /\ v = Quote => q = p + 2 /\ x[p + 1] = Escape /\ x[p + 2] = Quote
          /\ v # Quote => q = p + 1 /\ x[p + 1] = v
        BY <1>9, <1>23
    <2>2. v # Escape
        BY <2>1, <1>1
    <2>3. s[p] = k /\ k \in Nat
        BY <1>1, <1>23
    <2> HIDE DEF p, q, v
    <2>4. s[q] = k + 1 /\ y[k + 1] = v
        <3>1. CASE v = Quote
            <4>1. p \in 0..w /\ p < w /\ p + 1 \in 0..w /\ p + 1 < w /\ (p + 1) + 1 = p + 2
                BY <3>1, <2>1, <1>8
            <4>2. s[p + 1] = k
                BY <3>1, <4>1, <2>1, <2>3, <1>21
            <4>3. s[p + 2] = k + 1 /\ y[k + 1] = x[p + 2]
                BY <3>1, <4>1, <4>2, <2>1, <1>2, <1>21
            <4> QED
                BY <3>1, <4>3, <2>1
        <3>2. CASE v # Quote
            <4>1. p \in 0..w /\ p < w
                BY <3>2, <2>1, <1>8
            <4>2. s[p + 1] = k + 1 /\ y[k + 1] = x[p + 1]
                BY <3>2, <4>1, <2>1, <2>2, <2>3, <1>21
            <4> QED
                BY <3>2, <4>2, <2>1
        <3> QED
            BY <3>1, <3>2
    <2> QED
        BY <2>1, <2>4 DEF p, q, v
<1>24. \A k \in 0..n : k \in Back
    <2> HIDE DEF Back
    <2> QED
        BY <1>1, <1>22, <1>23, UpTo
<1>25. y = value
    <2>1. n \in Back /\ \A k \in 1..n : k \in Back /\ k > 0
        BY <1>1, <1>24
    <2>2. Len(y) = n /\ \A k \in 1..n : y[k] = value[k]
        BY <2>1, <1>8, <1>20
    <2> QED
        BY <2>2, <1>1, <1>18, SeqEqual DEF n
<1> QED
    BY <1>10, <1>14, <1>16, <1>25

(* A template, and values that it can be written with.                         *)
Spelled(t) ==
    /\ t.prefix \in Seq(Symbols) /\ t.suffix \in Seq(Symbols) /\ t.separator \in Seq(Symbols)
    /\ t.literals \in Seq(Seq(Symbols)) /\ Len(t.variables) \in Nat /\ DOMAIN t.variables = 1..Len(t.variables)
    /\ Len(t.literals) = Len(t.variables) + 1
Usable(t, values) ==
    /\ Spelled(t) /\ WellFormed(t)
    /\ \A target \in DOMAIN t.default : values[target] \in Seq(Symbols \ {Escape})

Shown(t, values) == [i \in 1..Len(t.variables) |-> Rendered(t.variables[i], values)]
Expected(t, values) ==
    [target \in DOMAIN t.default |->
        IF \E i \in DOMAIN t.variables : t.variables[i].target = target THEN values[target] ELSE t.default[target]]
RowOf(t, values) ==
    [broken |-> \E target \in t.required : Trim(Expected(t, values)[target]) = Empty, values |-> Expected(t, values)]

(* The values that are shown become the row again.                             *)
LEMMA ShownRead ==
    ASSUME NEW t, NEW values, Usable(t, values), NEW captured, captured = Shown(t, values)
    PROVE  captured \in Seq(Seq(Symbols)) /\ Len(captured) = Len(t.variables) /\ Row(t, captured) = RowOf(t, values)
<1> DEFINE n == Len(t.variables)
           variables == t.variables
           value(i) == values[variables[i].target]
           read(i) == IF variables[i].json THEN DecodeJSON(captured[i]) ELSE captured[i]
           bad == \E i \in DOMAIN captured : variables[i].json /\ ~WellEncoded(captured[i])
           kept == [target \in DOMAIN t.default |->
                      IF \E i \in DOMAIN variables : variables[i].target = target
                        THEN read(CHOOSE i \in DOMAIN variables : variables[i].target = target)
                        ELSE t.default[target]]
<1>1. n \in Nat /\ DOMAIN variables = 1..n
    BY DEF Usable, Spelled
<1>2. ASSUME NEW v \in Seq(Symbols \ {Escape}) PROVE v \in Seq(Symbols)
    <2>1. Symbols \ {Escape} \subseteq Symbols
        OBVIOUS
    <2> DEFINE m == Len(v)
    <2>2. m \in Nat /\ v \in [1..m -> Symbols \ {Escape}]
        OBVIOUS
    <2> HIDE DEF m
    <2>3. v \in [1..m -> Symbols]
        BY <2>1, <2>2
    <2> QED
        BY <2>2, <2>3, Listed
<1>3. ASSUME NEW i \in 1..n
      PROVE  captured[i] \in Seq(Symbols) /\ read(i) = value(i) /\ (variables[i].json => WellEncoded(captured[i]))
    <2> DEFINE x == value(i)
               y == captured[i]
    <2>1. x \in Seq(Symbols \ {Escape})
        BY <1>1 DEF Usable, WellFormed
    <2>2. y = IF variables[i].json THEN EncodeJSON(x) ELSE x
        BY DEF Shown, Rendered
    <2> HIDE DEF x, y, value
    <2>3. CASE variables[i].json
        <3>1. y = EncodeJSON(x)
            BY <2>2, <2>3
        <3>2. y \in Seq(Symbols) /\ WellEncoded(y) /\ DecodeJSON(y) = x
            BY <2>1, <3>1, JSONRead
        <3> QED
            BY <2>3, <3>2 DEF x, y
    <2>4. CASE ~variables[i].json
        <3>1. y = x
            BY <2>2, <2>4
        <3> QED
            BY <2>1, <2>4, <3>1, <1>2 DEF x, y
    <2> QED
        BY <2>3, <2>4
<1>4. captured \in Seq(Seq(Symbols)) /\ Len(captured) = n
    <2>1. captured = [i \in 1..n |-> captured[i]]
        BY DEF Shown
    <2> DEFINE T == Seq(Symbols)
    <2>2. captured \in [1..n -> T]
        BY <2>1, <1>3
    <2> HIDE DEF T, n
    <2>3. captured \in Seq(T) /\ Len(captured) = n
        BY <2>2, <1>1, Listed
    <2> QED
        BY <2>3 DEF T
<1>5. ~bad
    BY SMTT(30), <1>3, <1>4
<1>6. ASSUME NEW target \in DOMAIN t.default PROVE kept[target] = Expected(t, values)[target]
    <2>1. CASE \E i \in DOMAIN variables : variables[i].target = target
        <3> DEFINE i == CHOOSE j \in DOMAIN variables : variables[j].target = target
        <3>1. i \in 1..n /\ variables[i].target = target
            BY <2>1, <1>1
        <3>2. kept[target] = read(i)
            BY <2>1
        <3> HIDE DEF i
        <3>3. read(i) = values[target]
            <4>1. read(i) = value(i)
                BY <3>1, <1>3
            <4> HIDE DEF read
            <4> QED
                BY <3>1, <4>1
        <3>4. Expected(t, values)[target] = values[target]
            BY <2>1 DEF Expected
        <3> QED
            BY <3>2, <3>3, <3>4
    <2>2. CASE ~\E i \in DOMAIN variables : variables[i].target = target
        BY <2>2 DEF Expected
    <2> QED
        BY <2>1, <2>2
<1>7. kept = Expected(t, values)
    <2> DEFINE expected == Expected(t, values)
    <2>1. expected = [target \in DOMAIN t.default |-> expected[target]]
        BY DEF Expected
    <2>2. kept = [target \in DOMAIN t.default |-> kept[target]]
        OBVIOUS
    <2> HIDE DEF expected, kept
    <2>3. \A target \in DOMAIN t.default : kept[target] = expected[target]
        BY <1>6 DEF expected
    <2>4. kept = expected
        BY <2>1, <2>2, <2>3
    <2> QED
        BY <2>4 DEF expected
<1>8. Row(t, captured) = IF bad THEN [broken |-> TRUE]
                         ELSE [broken |-> \E target \in t.required : Trim(kept[target]) = Empty, values |-> kept]
    BY Zenon DEF Row
<1> HIDE DEF bad, kept
<1>9. Row(t, captured) = RowOf(t, values)
    BY <1>5, <1>7, <1>8, Zenon DEF RowOf
<1> QED
    BY <1>4, <1>9

(* A record that was written is literals and values, one behind the other.     *)
LEMMA RecordComposed ==
    ASSUME NEW t, NEW values, Usable(t, values), NEW record, record = RenderRecord(t, values)
    PROVE  record \in Seq(Symbols) /\ Composed(record, t.literals, Shown(t, values))
<1> DEFINE n == Len(t.variables)
           literals == t.literals
           shown == Shown(t, values)
           last == literals[n + 1]
           tail == <<>>
<1>1. n \in Nat /\ DOMAIN t.variables = 1..n /\ literals \in Seq(Seq(Symbols)) /\ Len(literals) = n + 1
    BY DEF Usable, Spelled
<1>2. shown \in Seq(Seq(Symbols)) /\ Len(shown) = n
    BY ShownRead
<1>3. Last(literals) = last /\ last \in Seq(Symbols) /\ Len(last) \in Nat
    <2>1. n + 1 \in 1..Len(literals)
        BY <1>1
    <2>2. last \in Seq(Symbols)
        BY <2>1, <1>1
    <2>3. Last(literals) = last
        BY <1>1 DEF Last
    <2> QED
        BY <2>2, <2>3
<1>4. record = FlattenSeq([i \in 1..Len(shown) |-> literals[i] \o shown[i]]) \o literals[Len(literals)]
    <2>1. record = FlattenSeq([i \in 1..n |-> literals[i] \o Rendered(t.variables[i], values)]) \o last
        BY <1>1, <1>3 DEF RenderRecord
    <2>2. [i \in 1..n |-> literals[i] \o Rendered(t.variables[i], values)] = [i \in 1..n |-> literals[i] \o shown[i]]
        BY DEF Shown
    <2> HIDE DEF shown
    <2> QED
        BY <2>1, <2>2, <1>1, <1>2
<1> HIDE DEF shown, n
<1>5. Composed(record, literals, shown)
    <2>1. Len(literals) = Len(shown) + 1
        BY <1>1, <1>2
    <2> QED
        BY <2>1, <1>1, <1>2, <1>4 DEF Composed
<1>6. record \in Seq(Symbols)
    <2>1. tail \in Seq(Symbols)
        OBVIOUS
    <2> HIDE DEF tail
    <2> QED
        BY <2>1, <1>5, RecordWritten
<1> QED
    BY <1>5, <1>6 DEF shown

(* A record that was written stands in front of a text, as the last or with a  *)
(* separator behind it.                                                        *)
Follows(t, values, record, tail, rest) ==
    /\ Usable(t, values) /\ Apart(t, values) /\ record = RenderRecord(t, values) /\ record \o tail # Empty
    /\ rest \in Seq(Symbols) /\ ((tail = Empty /\ rest = Empty) \/ tail = t.separator \o rest)

(* It is taken off as the row it shows.                                        *)
TakenOff(s, rest, row) == [remaining |-> rest, rows |-> Append(s.rows, row)]

LEMMA RecordTaken ==
    ASSUME NEW t, NEW values, NEW record, NEW tail, NEW rest, Follows(t, values, record, tail, rest),
           NEW s, s.remaining = record \o tail
    PROVE  NextRecord(t, s) = TakenOff(s, rest, RowOf(t, values))
<1> SUFFICES ASSUME Usable(t, values), Apart(t, values), record = RenderRecord(t, values), record \o tail # Empty
             PROVE  NextRecord(t, s) = [remaining |-> rest, rows |-> Append(s.rows, RowOf(t, values))]
    BY DEF Follows, TakenOff
<1> DEFINE n == Len(t.variables)
           literals == t.literals
           shown == Shown(t, values)
           separator == t.separator
           text == record \o tail
           at == Preferred(t, text)
           last == literals[n + 1]
<1>1. /\ n \in Nat /\ DOMAIN t.variables = 1..n /\ literals \in Seq(Seq(Symbols)) /\ Len(literals) = n + 1
      /\ separator \in Seq(Symbols) /\ rest \in Seq(Symbols)
    BY DEF Usable, Spelled, Follows
<1>2. shown \in Seq(Seq(Symbols)) /\ Len(shown) = n /\ Row(t, shown) = RowOf(t, values)
    BY ShownRead
<1>3. Last(literals) = last /\ last \in Seq(Symbols) /\ Len(last) \in Nat
    <2>1. n + 1 \in 1..Len(literals)
        BY <1>1
    <2>2. last \in Seq(Symbols)
        BY <2>1, <1>1
    <2>3. Last(literals) = last
        BY <1>1 DEF Last
    <2> QED
        BY <2>2, <2>3
<1>4. tail \in Seq(Symbols)
    <2>1. CASE tail = Empty
        BY <2>1 DEF Empty
    <2>2. CASE tail = separator \o rest
        BY <2>2, <1>1
    <2> HIDE DEF separator
    <2> QED
        BY <2>1, <2>2 DEF Follows, separator
<1>5. record \in Seq(Symbols) /\ Composed(record, literals, shown)
    BY RecordComposed
<1> HIDE DEF shown, n, text
<1>6. record \in Seq(Symbols) /\ text \in Seq(Symbols)
      /\ \E start : InPlace(text, literals, shown, start) /\ start[n] + Len(last) = Len(record)
    <2>1. Composed(record, literals, shown) /\ tail \in Seq(Symbols)
        BY <1>4, <1>5
    <2> HIDE DEF literals
    <2>2. /\ record \in Seq(Symbols) /\ record \o tail \in Seq(Symbols)
          /\ \E start : /\ InPlace(record \o tail, literals, shown, start)
                        /\ start[Len(shown)] + Len(literals[Len(shown) + 1]) = Len(record)
        BY <2>1, RecordWritten
    <2> QED
        BY <2>2, <1>2 DEF text, last, literals
<1>7. PICK start : InPlace(text, literals, shown, start) /\ start[n] + Len(last) = Len(record)
    BY <1>6
<1>8. Unmistaken(t, shown)
    <2>1. ASSUME NEW i \in 1..n, NEW k \in 1..Len(shown[i])
          PROVE  ~LiteralAt(shown[i] \o Behind(t, shown, i), k, Behind(t, shown, i))
        <3> DEFINE value == Rendered(t.variables[i], values)
                   behind == IF i = Len(t.variables) /\ Last(t.literals) = Empty THEN t.separator ELSE t.literals[i + 1]
        <3>1. value = shown[i] /\ behind = Behind(t, shown, i)
            BY <1>2 DEF shown, Shown, Behind, n
        <3>2. \A j \in DOMAIN value : ~LiteralAt(value \o behind, j, behind)
            BY <1>1 DEF Apart
        <3>3. shown[i] \in Seq(Symbols)
            BY <1>2
        <3> HIDE DEF value, behind
        <3>4. k \in DOMAIN value
            BY <3>1, <3>3
        <3> QED
            BY <3>1, <3>2, <3>4
    <2> QED
        BY <2>1, <1>2 DEF Unmistaken
<1>9. Ended(text, t, Len(record)) /\ SubSeq(text, (Len(record) + 1) + Len(separator), Len(text)) = rest
    <2> DEFINE w == Len(record)
               l == Len(separator)
    <2>1. w \in Nat /\ l \in Nat
        BY <1>1, <1>6
    <2>2. CASE tail = Empty /\ rest = Empty
        <3>1. text = record
            BY <2>2, <1>6 DEF text, Empty
        <3>2. SubSeq(text, (w + 1) + l, w) = Empty
            <4> HIDE DEF w, l
            <4>1. (w + 1) + l > w /\ (w + 1) + l \in Nat
                BY <2>1
            <4> QED
                BY <4>1, <2>1, <1>6 DEF Empty
        <3> QED
            BY <3>1, <3>2, <2>2 DEF Ended
    <2>3. CASE tail = separator \o rest
        <3> DEFINE both == record \o separator
        <3>1. /\ both \in Seq(Symbols) /\ Len(both) = w + l
              /\ (\A i \in 1..w : both[i] = record[i]) /\ \A i \in 1..l : both[w + i] = separator[i]
            BY <1>1, <1>6, Joined
        <3>2. text = both \o rest
            <4>1. record \in Seq(Symbols) /\ separator \in Seq(Symbols) /\ rest \in Seq(Symbols)
                BY <1>1, <1>6
            <4>2. Three(Symbols, record, separator, rest, both, text)
                BY <2>3, <4>1, Zenon DEF Three, text
            <4> HIDE DEF both
            <4> QED
                BY <4>2, Grouped, Zenon
        <3> HIDE DEF both
        <3>3. SubSeq(both \o rest, Len(both) + 1, Len(both \o rest)) = rest
            BY <3>1, <1>1, Rest
        <3>4. Stands(both \o rest, w + 1, separator)
            <4>1. w + Len(separator) <= Len(both) /\ \A i \in 1..Len(separator) : both[w + i] = separator[i]
                BY <3>1, <2>1
            <4> HIDE DEF w
            <4> QED
                BY <4>1, <3>1, <2>1, <1>1, StandsOn
        <3> HIDE DEF w, l
        <3>5. (w + l) + 1 = (w + 1) + l
            BY <2>1
        <3> QED
            BY <3>1, <3>2, <3>3, <3>4, <3>5 DEF Ended, w, l
    <2> QED
        BY <2>2, <2>3 DEF Follows
<1>10. Recorded(t, text, shown, n, start)
    BY <1>1, <1>2, <1>6, <1>7, <1>8, <1>9 DEF Recorded
<1>11. /\ \A k \in 1..n : SubSeq(text, at[k] + Len(literals[k]), at[k + 1] - 1) = shown[k]
       /\ at[Len(at)] = start[n] + 1
    BY <1>10, WrittenIsCaptured
<1>12. 1 \in Places(t, text)[1]
    <2>1. \A k \in 1..n : Len(shown[k]) \in Nat
        BY <1>2
    <2>2. \A k \in 1..(n + 1) : start[k - 1] + 1 \in Places(t, text)[k]
        BY <1>1, <1>2, <1>6, <1>7, <1>9, <2>1, WrittenIsFound
    <2>3. start[0] = 0 /\ 1 \in 1..(n + 1) /\ 1 - 1 = 0
        BY <1>1, <1>7 DEF InPlace
    <2> QED
        BY <2>2, <2>3
<1> DEFINE captured == [k \in DOMAIN t.variables |-> SubSeq(text, at[k] + Len(t.literals[k]), at[k + 1] - 1)]
           after == at[Len(at)] + Len(Last(t.literals))
<1>13. captured = shown
    <2>1. captured = [k \in 1..n |-> shown[k]]
        BY <1>1, <1>11
    <2>2. shown = [k \in 1..n |-> shown[k]]
        BY <1>2
    <2> QED
        BY <2>1, <2>2
<1>14. after = Len(record) + 1
    <2> DEFINE p == start[n]
               l == Len(last)
    <2>1. p \in Nat
        <3>1. n \in 0..n
            BY <1>1
        <3> QED
            BY <3>1, <1>2, <1>7 DEF InPlace
    <2>2. after = (p + 1) + l /\ p + l = Len(record) /\ l \in Nat
        BY <1>3, <1>7, <1>11
    <2> HIDE DEF p, l, after
    <2> QED
        BY <2>1, <2>2
<1>15. NextRecord(t, s) = IF text = Empty THEN s
                          ELSE IF 1 \notin Places(t, text)[1] THEN Refused
                          ELSE [remaining |-> SubSeq(text, after + Len(separator), Len(text)),
                                rows |-> Append(s.rows, Row(t, captured))]
    <2>1. s.remaining = text
        BY DEF text
    <2> QED
        BY <2>1, Zenon DEF NextRecord
<1>16. text # Empty
    BY DEF text
<1> HIDE DEF captured, after
<1>17. NextRecord(t, s) = [remaining |-> SubSeq(text, after + Len(separator), Len(text)), rows |-> Append(s.rows, Row(t, captured))]
    BY <1>12, <1>15, <1>16, Zenon
<1>18. NextRecord(t, s) = [remaining |-> rest, rows |-> Append(s.rows, RowOf(t, values))]
    BY <1>2, <1>9, <1>13, <1>14, <1>17
<1> QED
    BY <1>18

(* What stands in front of a text is a prefix of it, what stands behind it a   *)
(* suffix.                                                                     *)
LEMMA Around ==
    ASSUME NEW S, NEW a \in Seq(S), NEW b \in Seq(S)
    PROVE  IsPrefix(a, a \o b) /\ IsSuffix(b, a \o b)
<1>1. ASSUME NEW c \in Seq(S), NEW d \in Seq(S) PROVE IsPrefix(c, c \o d)
    <2>1. SubSeq(c \o d, 1, Len(c)) = c /\ SubSeq(c, 1, Len(c)) = c
        BY Rest, Prefixed
    <2>2. Len(c \o d) = Len(c) + Len(d) /\ Len(c) \in Nat /\ Len(d) \in Nat
        BY Joined
    <2>3. Len(c) <= Len(c \o d)
        BY <2>2
    <2> QED
        BY <2>1, <2>3 DEF IsPrefix
<1> DEFINE m == Len(a)
           n == Len(b)
           whole == a \o b
           back == Reverse(b)
           front == Reverse(a)
           turned == Reverse(whole)
           both == back \o front
<1>2. /\ whole \in Seq(S) /\ Len(whole) = m + n /\ m \in Nat /\ n \in Nat
      /\ \A i \in 1..m : whole[i] = a[i]
      /\ \A i \in 1..n : whole[m + i] = b[i]
    BY Joined
<1>3. ASSUME NEW c \in Seq(S)
      PROVE  Reverse(c) \in Seq(S) /\ Len(Reverse(c)) = Len(c)
             /\ \A i \in 1..Len(c) : Reverse(c)[i] = c[(Len(c) - i) + 1]
    <2> DEFINE l == Len(c)
               r == Reverse(c)
    <2>1. l \in Nat /\ r = [i \in 1..l |-> c[(l - i) + 1]] /\ \A i \in 1..l : c[i] \in S
        BY DEF Reverse
    <2> HIDE DEF l, r
    <2>2. \A i \in 1..l : (l - i) + 1 \in 1..l
        BY <2>1
    <2>3. r \in [1..l -> S]
        BY <2>1, <2>2
    <2>4. r \in Seq(S) /\ Len(r) = l
        BY <2>1, <2>3, Listed
    <2> QED
        BY <2>1, <2>4 DEF l, r
<1> HIDE DEF m, n, whole
<1>4. back \in Seq(S) /\ Len(back) = n /\ \A i \in 1..n : back[i] = b[(n - i) + 1]
    BY <1>3 DEF n
<1>5. front \in Seq(S) /\ Len(front) = m /\ \A i \in 1..m : front[i] = a[(m - i) + 1]
    BY <1>3 DEF m
<1>6. turned \in Seq(S) /\ Len(turned) = m + n /\ \A i \in 1..(m + n) : turned[i] = whole[((m + n) - i) + 1]
    <2>1. whole \in Seq(S) /\ Len(whole) = m + n
        BY <1>2
    <2>2. turned \in Seq(S) /\ Len(turned) = Len(whole)
          /\ \A i \in 1..Len(whole) : turned[i] = whole[(Len(whole) - i) + 1]
        BY <2>1, <1>3
    <2> HIDE DEF turned
    <2> QED
        BY <2>1, <2>2
<1> HIDE DEF back, front, turned
<1>7. /\ both \in Seq(S) /\ Len(both) = n + m
      /\ (\A i \in 1..n : both[i] = back[i]) /\ \A i \in 1..m : both[n + i] = front[i]
    <2>1. back \in Seq(S) /\ front \in Seq(S) /\ Len(back) = n /\ Len(front) = m
        BY <1>4, <1>5
    <2>2. /\ both \in Seq(S) /\ Len(both) = Len(back) + Len(front)
          /\ (\A i \in 1..Len(back) : both[i] = back[i]) /\ \A i \in 1..Len(front) : both[Len(back) + i] = front[i]
        <3>1. back \in Seq(S) /\ front \in Seq(S)
            BY <2>1
        <3> QED
            BY <3>1, Joined
    <2> QED
        BY <2>1, <2>2
<1> HIDE DEF both
<1>8. ASSUME NEW i \in 1..(m + n) PROVE turned[i] = both[i]
    <2>1. CASE i <= n
        <3> DEFINE j == (n - i) + 1
        <3>1. i \in 1..n /\ j \in 1..n /\ ((m + n) - i) + 1 = m + j
            BY <2>1, <1>2
        <3> HIDE DEF j
        <3>2. both[i] = b[j]
            BY <3>1, <1>4, <1>7 DEF j
        <3> QED
            BY <3>1, <3>2, <1>2, <1>6
    <2>2. CASE ~(i <= n)
        <3> DEFINE k == i - n
                   j == (m - k) + 1
        <3>1. k \in 1..m /\ j \in 1..m /\ n + k = i /\ ((m + n) - i) + 1 = j
            BY <2>2, <1>2
        <3> HIDE DEF k
        <3>2. both[i] = a[j]
            <4>1. both[n + k] = front[k] /\ front[k] = a[j]
                BY <3>1, <1>5, <1>7
            <4> QED
                BY <3>1, <4>1
        <3> HIDE DEF j
        <3> QED
            BY <3>1, <3>2, <1>2, <1>6
    <2> QED
        BY <2>1, <2>2
<1>9. turned = both
    <2>1. m + n = n + m
        BY <1>2
    <2> QED
        BY <2>1, <1>6, <1>7, <1>8, SeqEqual
<1>10. IsSuffix(b, a \o b)
    <2>1. IsPrefix(back, both)
        BY <1>1, <1>4, <1>5 DEF both
    <2> QED
        BY <2>1, <1>9 DEF IsSuffix, back, turned, whole
<1> QED
    BY <1>1, <1>10

(* Two records are all that is taken off a text.                               *)
LEMMA TwoTaken ==
    ASSUME NEW t, NEW content, Len(content) \in Nat, Len(content) >= 2,
           NEW one, one = NextRecord(t, [remaining |-> content, rows |-> <<>>]),
           NEW two, two = NextRecord(t, one), NextRecord(t, two) = two
    PROVE  ParseRecords(t, content) = two.rows
<1> DEFINE n == Len(content)
           zero == [remaining |-> content, rows |-> <<>>]
           Goes(f) == f = [k \in 0..n |-> IF k = 0 THEN zero ELSE NextRecord(t, f[k - 1])]
           f == [k \in 0..n |-> IF k = 0 THEN zero ELSE IF k = 1 THEN one ELSE two]
           after == CHOOSE g : Goes(g)
<1>1. ParseRecords(t, content) = after[n].rows
    BY Zenon DEF ParseRecords
<1>2. n \in Nat /\ n >= 2 /\ NextRecord(t, zero) = one /\ NextRecord(t, one) = two /\ NextRecord(t, two) = two
    OBVIOUS
<1> HIDE DEF n, zero
<1>3. ASSUME NEW k \in 0..n PROVE f[k] = IF k = 0 THEN zero ELSE NextRecord(t, f[k - 1])
    <2>1. CASE k = 0
        BY <2>1, <1>2
    <2>2. CASE k = 1
        <3>1. k - 1 = 0 /\ 0 \in 0..n /\ k # 0
            BY <2>2, <1>2
        <3>2. f[k] = one /\ f[k - 1] = zero
            BY <2>2, <3>1
        <3> HIDE DEF f
        <3> QED
            BY <3>1, <3>2, <1>2
    <2>3. CASE k = 2
        <3>1. k - 1 = 1 /\ 1 \in 0..n /\ k # 0
            BY <2>3, <1>2
        <3>2. f[k] = two /\ f[k - 1] = one
            BY <2>3, <3>1
        <3> HIDE DEF f
        <3> QED
            BY <3>1, <3>2, <1>2
    <2>4. CASE k > 2
        <3>1. k - 1 \in 0..n /\ k - 1 > 1 /\ k # 0
            BY <2>4, <1>2
        <3>2. f[k] = two /\ f[k - 1] = two
            BY <2>4, <3>1
        <3> HIDE DEF f
        <3> QED
            BY <3>1, <3>2, <1>2
    <2> QED
        BY <2>1, <2>2, <2>3, <2>4, <1>2
<1>4. Goes(f)
    <2>1. f = [k \in 0..n |-> f[k]]
        OBVIOUS
    <2> HIDE DEF f
    <2> QED
        BY <2>1, <1>3
<1> HIDE DEF f, Goes
<1>5. Goes(after)
    BY <1>4
<1> HIDE DEF after
<1>6. \A k \in 0..n : after[k] = IF k = 0 THEN zero ELSE NextRecord(t, after[k - 1])
    BY <1>5 DEF Goes
<1> DEFINE Alike == {k \in 0..n : after[k] = f[k]}
<1>7. 0 \in Alike
    BY <1>2, <1>3, <1>6
<1>8. ASSUME NEW k \in 0..n, k \in Alike, k < n PROVE k + 1 \in Alike
    <2>1. k + 1 \in 0..n /\ k + 1 # 0 /\ (k + 1) - 1 = k
        BY <1>2, <1>8
    <2>2. after[k + 1] = NextRecord(t, after[k]) /\ f[k + 1] = NextRecord(t, f[k])
        BY <2>1, <1>3, <1>6
    <2> QED
        BY <2>1, <2>2, <1>8
<1>9. \A k \in 0..n : k \in Alike
    <2> HIDE DEF Alike
    <2> QED
        BY <1>2, <1>7, <1>8, UpTo
<1>10. after[n] = two
    <2>1. n \in 0..n /\ n # 0 /\ n # 1
        BY <1>2
    <2>2. after[n] = f[n]
        BY <2>1, <1>9
    <2>3. f[n] = two
        BY <2>1 DEF f
    <2> QED
        BY <2>2, <2>3
<1> QED
    BY <1>1, <1>10

(* Two texts in a row.                                                         *)
LEMMA Paired ==
    ASSUME NEW S, NEW a \in Seq(S), NEW b \in Seq(S), NEW seqs, seqs = <<a, b>>
    PROVE  FlattenSeq(seqs) = a \o b
<1> DEFINE T == Seq(S)
           x == FlattenSeq(seqs)
           y == a \o b
           m == Len(a)
           n == Len(b)
<1>1. seqs \in Seq(T) /\ Len(seqs) = 2 /\ seqs[1] = a /\ seqs[2] = b
    OBVIOUS
<1>2. x \in T /\ \E start : Laid(x, seqs, start)
    BY <1>1, Flattened
<1>3. PICK start : Laid(x, seqs, start)
    BY <1>2
<1> HIDE DEF x
<1>4. /\ m \in Nat /\ n \in Nat /\ Len(x) = m + n
      /\ \A i \in 1..m : x[i] = a[i]
      /\ \A i \in 1..n : x[m + i] = b[i]
    <2>1. /\ start[0] = 0 /\ start[2] = Len(x)
          /\ \A k \in 1..2 : /\ start[k] = start[k - 1] + Len(seqs[k])
                             /\ \A i \in 1..Len(seqs[k]) : x[start[k - 1] + i] = seqs[k][i]
        BY <1>1, <1>3 DEF Laid
    <2>2. m \in Nat /\ n \in Nat /\ 1 \in 1..2 /\ 2 \in 1..2 /\ 1 - 1 = 0 /\ 2 - 1 = 1
        OBVIOUS
    <2>3. start[1] = m /\ \A i \in 1..m : x[i] = a[i]
        <3>1. start[1] = start[0] + m /\ \A i \in 1..m : x[start[0] + i] = a[i]
            BY <1>1, <2>1, <2>2
        <3>2. 0 + m = m /\ \A i \in 1..m : 0 + i = i
            BY <2>2
        <3> QED
            BY <2>1, <3>1, <3>2
    <2>4. start[2] = start[1] + n /\ \A i \in 1..n : x[start[1] + i] = b[i]
        BY <1>1, <2>1, <2>2
    <2> QED
        BY <2>1, <2>2, <2>3, <2>4
<1>5. /\ y \in Seq(S) /\ Len(y) = m + n
      /\ (\A i \in 1..m : y[i] = a[i]) /\ \A i \in 1..n : y[m + i] = b[i]
    BY Joined
<1> HIDE DEF y, m, n
<1>6. ASSUME NEW i \in 1..(m + n) PROVE x[i] = y[i]
    <2>1. CASE i <= m
        <3>1. i \in 1..m
            BY <2>1, <1>4
        <3> QED
            BY <3>1, <1>4, <1>5
    <2>2. CASE ~(i <= m)
        <3> DEFINE j == i - m
        <3>1. j \in 1..n /\ i = m + j
            BY <2>2, <1>4
        <3> HIDE DEF j
        <3> QED
            BY <3>1, <1>4, <1>5
    <2> QED
        BY <2>1, <2>2
<1>7. x = y
    BY <1>2, <1>4, <1>5, <1>6, SeqEqual
<1> QED
    BY <1>7 DEF x, y

(* Two records are read as they were written.                                  *)
LEMMA TemplateRead ==
    ASSUME NEW t, NEW first, NEW second, Usable(t, first), Usable(t, second), Apart(t, first), Apart(t, second),
           RenderRecord(t, second) # Empty
    PROVE  ParseTemplate(t, Render(t, <<first, second>>)) = <<RowOf(t, first), RowOf(t, second)>>
<1> DEFINE T == Seq(Symbols)
           prefix == t.prefix
           suffix == t.suffix
           separator == t.separator
           one == RenderRecord(t, first)
           two == RenderRecord(t, second)
           behind == separator \o two
           content == one \o behind
           text == Render(t, <<first, second>>)
           row1 == RowOf(t, first)
           row2 == RowOf(t, second)
           zero == [remaining |-> content, rows |-> <<>>]
           s1 == TakenOff(zero, two, row1)
           s2 == TakenOff(s1, Empty, row2)
<1>1. prefix \in T /\ suffix \in T /\ separator \in T /\ separator # Empty
    BY DEF Usable, Spelled, WellFormed
<1>2. one \in T /\ two \in T /\ two # Empty
    BY RecordComposed
<1> HIDE DEF prefix, suffix, separator, one, two, row1, row2
<1>3. /\ behind \in T /\ Len(behind) = Len(separator) + Len(two) /\ Len(separator) >= 1 /\ Len(two) >= 1
      /\ Len(separator) \in Nat /\ Len(two) \in Nat
    <2>1. behind \in T /\ Len(behind) = Len(separator) + Len(two)
        <3>1. separator \in Seq(Symbols) /\ two \in Seq(Symbols)
            BY <1>1, <1>2
        <3> QED
            BY <3>1, Joined
    <2> HIDE DEF behind
    <2> QED
        BY <1>1, <1>2, <2>1 DEF Empty
<1> HIDE DEF behind
<1>4. content \in T /\ Len(content) = Len(one) + Len(behind) /\ Len(one) \in Nat
    <2>1. one \in Seq(Symbols) /\ behind \in Seq(Symbols)
        BY <1>2, <1>3
    <2> QED
        BY <2>1, Joined
<1> HIDE DEF content
<1>5. Len(content) \in Nat /\ Len(content) >= 2
    <2> DEFINE a == Len(one)
               b == Len(behind)
               c == Len(separator)
               d == Len(two)
               e == Len(content)
    <2>1. e = a + b /\ b = c + d /\ c >= 1 /\ d >= 1 /\ a \in Nat /\ c \in Nat /\ d \in Nat
        BY <1>3, <1>4
    <2> HIDE DEF a, b, c, d, e
    <2>2. e \in Nat /\ e >= 2
        BY <2>1
    <2> QED
        BY <2>2 DEF e
<1>6. NextRecord(t, zero) = s1
    <2>1. content # Empty
        BY <1>4, <1>5 DEF Empty
    <2>2. Follows(t, first, one, behind, two)
        BY <1>2, <2>1 DEF Follows, one, content, behind, separator
    <2>3. zero.remaining = one \o behind
        BY DEF content
    <2> HIDE DEF zero
    <2>4. NextRecord(t, zero) = TakenOff(zero, two, RowOf(t, first))
        BY <2>2, <2>3, RecordTaken
    <2> QED
        BY <2>3, <2>4 DEF row1
<1>7. NextRecord(t, s1) = s2
    <2>1. two \o Empty = two /\ Empty \in T
        BY <1>2 DEF Empty
    <2>2. Follows(t, second, two, Empty, Empty)
        BY <1>2, <2>1 DEF Follows, two
    <2>3. s1.remaining = two \o Empty
        BY <2>1 DEF TakenOff
    <2> HIDE DEF s1
    <2>4. NextRecord(t, s1) = TakenOff(s1, Empty, RowOf(t, second))
        BY <2>2, <2>3, RecordTaken
    <2> QED
        BY <2>3, <2>4 DEF row2
<1>8. NextRecord(t, s2) = s2
    <2>1. s2.remaining = Empty
        BY DEF TakenOff
    <2> HIDE DEF s2
    <2> QED
        BY <2>1, Zenon DEF NextRecord
<1>9. ParseRecords(t, content) = <<row1, row2>>
    <2>1. ParseRecords(t, content) = s2.rows
        <3> DEFINE z1 == s1
                   z2 == s2
        <3>1. z1 = NextRecord(t, [remaining |-> content, rows |-> <<>>]) /\ z2 = NextRecord(t, z1) /\ NextRecord(t, z2) = z2
            BY <1>6, <1>7, <1>8
        <3> HIDE DEF z1, z2
        <3>2. ParseRecords(t, content) = z2.rows
            BY <3>1, <1>5, TwoTaken
        <3> QED
            BY <3>2 DEF z2
    <2>2. s2.rows = <<row1, row2>>
        <3>1. zero.rows = <<>> /\ s1.rows = Append(zero.rows, row1) /\ s2.rows = Append(s1.rows, row2)
            BY DEF TakenOff
        <3> HIDE DEF zero, s1, s2
        <3>2. s1.rows = <<row1>>
            BY <3>1
        <3>3. Append(<<row1>>, row2) = <<row1, row2>>
            <4> DEFINE rows == Append(<<row1>>, row2)
                       pair == <<row1, row2>>
                       R == {row1, row2}
            <4>1. rows \in Seq(R) /\ Len(rows) = 2 /\ rows[1] = row1 /\ rows[2] = row2
                OBVIOUS
            <4>2. pair \in Seq(R) /\ Len(pair) = 2 /\ pair[1] = row1 /\ pair[2] = row2
                OBVIOUS
            <4> HIDE DEF rows, pair
            <4>3. \A i \in 1..2 : rows[i] = pair[i]
                BY <4>1, <4>2
            <4>4. rows = pair
                BY <4>1, <4>2, <4>3, SeqEqual
            <4> QED
                BY <4>4 DEF rows, pair
        <3>4. s2.rows = Append(<<row1>>, row2)
            BY <3>1, <3>2, Zenon
        <3> QED
            BY <3>3, <3>4, Zenon
    <2> QED
        BY <2>1, <2>2
(* What was written is that between the prefix and the suffix.                 *)
<1>10. text = prefix \o (content \o suffix)
    <2> DEFINE records == <<first, second>>
               seqs == [i \in DOMAIN records |->
                          IF i = 1 THEN RenderRecord(t, records[i]) ELSE separator \o RenderRecord(t, records[i])]
    <2>1. seqs = <<one, behind>>
        BY DEF one, two, behind
    <2>2. text = (prefix \o FlattenSeq(seqs)) \o suffix
        BY Zenon DEF Render, prefix, suffix, separator
    <2> HIDE DEF seqs, text
    <2>3. FlattenSeq(seqs) = content
        BY <1>2, <1>3, <2>1, Paired DEF content
    <2>4. (prefix \o content) \o suffix = prefix \o (content \o suffix)
        <3> DEFINE front == prefix \o content
                   whole == prefix \o (content \o suffix)
        <3>1. prefix \in Seq(Symbols) /\ content \in Seq(Symbols) /\ suffix \in Seq(Symbols)
            BY <1>1, <1>4
        <3>2. Three(Symbols, prefix, content, suffix, front, whole)
            BY <3>1, Zenon DEF Three
        <3> HIDE DEF front, whole
        <3>3. whole = front \o suffix
            BY <3>2, Grouped, Zenon
        <3> QED
            BY <3>3, Zenon DEF front, whole
    <2> QED
        BY <2>2, <2>3, <2>4
<1> DEFINE inner == content \o suffix
           rest == SubSeq(text, Len(prefix) + 1, Len(text))
<1>11. inner \in T /\ Len(inner) = Len(content) + Len(suffix) /\ Len(suffix) \in Nat
    <2>1. content \in Seq(Symbols) /\ suffix \in Seq(Symbols)
        BY <1>1, <1>4
    <2> QED
        BY <2>1, Joined
<1>12. IsSuffix(suffix, inner) /\ SubSeq(inner, 1, Len(content)) = content
    BY <1>1, <1>4, Around, Rest
<1> HIDE DEF inner, text
<1>13. IsPrefix(prefix, text) /\ rest = inner
    <2> DEFINE whole == prefix \o inner
    <2>1. IsPrefix(prefix, whole) /\ SubSeq(whole, Len(prefix) + 1, Len(whole)) = inner
        BY <1>1, <1>11, Around, Rest
    <2>2. whole = text
        BY <1>10 DEF inner
    <2> HIDE DEF whole
    <2> QED
        BY <2>1, <2>2
<1> HIDE DEF rest
<1>14. SubSeq(rest, 1, Len(rest) - Len(suffix)) = content
    <2> DEFINE c == Len(content)
               d == Len(suffix)
               e == Len(inner)
    <2>1. e = c + d /\ c \in Nat /\ d \in Nat
        BY <1>5, <1>11
    <2> HIDE DEF c, d, e
    <2>2. e - d = c
        BY <2>1
    <2> QED
        BY <2>2, <1>12, <1>13 DEF c, d, e
<1>15. ParseTemplate(t, text) = IF IsPrefix(prefix, text) /\ IsSuffix(suffix, rest)
                                  THEN ParseRecords(t, SubSeq(rest, 1, Len(rest) - Len(suffix)))
                                  ELSE Refused.rows
    BY Zenon DEF ParseTemplate, rest, prefix, suffix
<1>16. ParseTemplate(t, text) = <<row1, row2>>
    BY <1>9, <1>12, <1>13, <1>14, <1>15
<1> QED
    BY <1>16 DEF text, row1, row2

(* A template that is chosen can be written with the records that are chosen.  *)
LEMMA ChosenUsable ==
    ASSUME NEW t \in Templates, NEW values \in TemplateRecords, WellFormed(t)
    PROVE  Usable(t, values)
<1> DEFINE n == Len(t.variables)
           l == Len(t.literals)
<1>1. /\ t.prefix \in Text /\ t.suffix \in Text /\ t.separator \in Text /\ t.literals \in Seq(Text)
      /\ t.variables \in Seq([target : STRING, json : BOOLEAN]) /\ Len(t.literals) = Len(t.variables) + 1
      /\ \A target \in DOMAIN t.default : values[target] \in Seq(STRING \ {Escape})
    BY TemplatesAssumption
<1>2. t.prefix \in Seq(Symbols) /\ t.suffix \in Seq(Symbols) /\ t.separator \in Seq(Symbols)
    BY <1>1, WordsAreTexts
<1>3. t.literals \in Seq(Seq(Symbols))
    <2> DEFINE T == Seq(Symbols)
               literals == t.literals
    <2>1. l \in Nat /\ literals \in [1..l -> Text]
        BY <1>1
    <2> HIDE DEF l, T, literals
    <2>2. \A i \in 1..l : literals[i] \in T
        BY <2>1, WordsAreTexts DEF T
    <2>3. literals \in [1..l -> T]
        BY <2>1, <2>2
    <2>4. literals \in Seq(T)
        BY <2>1, <2>3, Listed
    <2> QED
        BY <2>4 DEF T, literals
<1>4. n \in Nat /\ DOMAIN t.variables = 1..n
    BY <1>1
<1>5. ASSUME NEW target \in DOMAIN t.default PROVE values[target] \in Seq(Symbols \ {Escape})
    <2> DEFINE v == values[target]
               m == Len(v)
               S == Symbols \ {Escape}
    <2>1. v \in Seq(STRING \ {Escape})
        BY <1>1
    <2> HIDE DEF v
    <2>2. m \in Nat /\ v \in [1..m -> STRING \ {Escape}]
        BY <2>1
    <2>3. STRING \ {Escape} \subseteq S
        BY DEF Symbols
    <2> HIDE DEF m, S
    <2>4. v \in [1..m -> S]
        BY <2>2, <2>3
    <2>5. v \in Seq(S)
        BY <2>2, <2>4, Listed
    <2> QED
        BY <2>5 DEF v, S
<1>6. Spelled(t)
    BY <1>1, <1>2, <1>3, <1>4 DEF Spelled
<1> QED
    BY <1>5, <1>6 DEF Usable

(* What a template has written comes back.                                     *)
LEMMA TemplateBack ==
    ASSUME input.kind = "template", InputChosen
    PROVE  TemplateComesBack(input.template, input.records[1], input.records[2])
<1>1. PICK t \in Templates, first \in TemplateRecords, second \in TemplateRecords :
         input = [kind |-> "template", template |-> t, records |-> <<first, second>>]
    BY DEF InputChosen, Nothing
<1>2. input.template = t /\ input.records[1] = first /\ input.records[2] = second
    BY <1>1
<1>3. TemplateComesBack(t, first, second)
    <2> DEFINE records == <<first, second>>
               expected(values) ==
                  [target \in DOMAIN t.default |->
                      IF \E i \in DOMAIN t.variables : t.variables[i].target = target
                        THEN values[target] ELSE t.default[target]]
               row(values) == [broken |-> \E target \in t.required : Trim(expected(values)[target]) = Empty,
                               values |-> expected(values)]
    <2>1. SUFFICES ASSUME WellFormed(t), \A i \in 1..2 : Apart(t, records[i]), RenderRecord(t, second) # Empty
                   PROVE  ParseTemplate(t, Render(t, records)) = <<row(first), row(second)>>
        BY Zenon DEF TemplateComesBack
    <2>2. Usable(t, first) /\ Usable(t, second)
        BY <2>1, ChosenUsable
    <2>3. Apart(t, first) /\ Apart(t, second)
        <3>1. 1 \in 1..2 /\ 2 \in 1..2 /\ records[1] = first /\ records[2] = second
            OBVIOUS
        <3> HIDE DEF records
        <3> QED
            BY <2>1, <3>1
    <2>4. ParseTemplate(t, Render(t, records)) = <<RowOf(t, first), RowOf(t, second)>>
        BY <2>1, <2>2, <2>3, TemplateRead
    <2>5. row(first) = RowOf(t, first) /\ row(second) = RowOf(t, second)
        BY Zenon DEF RowOf, Expected
    <2> HIDE DEF records, row
    <2> QED
        BY <2>4, <2>5
<1> QED
    BY <1>2, <1>3

(* See ExportComesBack: what was exported, in JSON, in delimited lines or by a *)
(* template, comes back when it is imported again, but for the key, whatever   *)
(* the defaults of the format, the texts that are valid and the template.      *)
THEOREM ExportsComeBack == ImportSpec => []ExportComesBack
<1>1. ASSUME InputChosen PROVE ExportComesBack
    BY <1>1, RecordBack, TemplateBack DEF ExportComesBack
<1>2. ASSUME InputChosen, [input = Nothing /\ Next /\ UNCHANGED input]_<<vars, input>> PROVE InputChosen'
    <2>1. UNCHANGED input
        BY <1>2
    <2> QED
        BY <2>1, <1>2 DEF InputChosen, Nothing
<1> QED
    BY <1>1, <1>2, PTL DEF ImportSpec, ImportInit

=============================================================================
