------------------------- MODULE MailRetrievalProofs ------------------------
(* Proofs about WindowSync, for every set of messages and callers and every *)
(* bound on deliveries, purges, failed statements and crashes, and about    *)
(* RetrievalCapabilities, for every set of callers and every bound on       *)
(* requests and changes, with the table seeded or empty.                    *)
EXTENDS MCMailRetrieval, FiniteSetTheorems, SequenceTheorems, TLAPS

(* A bounded step counts.                                                    *)
LEMMA SpendType ==
  ASSUME used \in [Kinds -> Nat], NEW k \in Kinds, NEW max, Spend(k, max)
  PROVE  used' \in [Kinds -> Nat]
BY DEF Spend

(* What a Sync call remembers is well typed.                                 *)
LEMMA KnownType ==
  ASSUME NEW pc \in Pcs, NEW alias \in BOOLEAN, NEW last \in Times, NEW cursor \in Times
  PROVE  /\ Known(pc, alias, last, cursor) \in Call
         /\ Known(pc, alias, last, cursor).batch = {}
BY DEF Known, Call

(* And so is what it makes of an answer.                                     *)
LEMMA AnsweredType ==
  ASSUME NEW alias \in BOOLEAN, NEW last \in Times, NEW cursor \in Times,
         NEW batch \in SUBSET Messages
  PROVE  /\ Answered(alias, last, cursor, batch) \in Call
         /\ Answered(alias, last, cursor, batch).batch = batch
<1>1. Complete(batch) \in BOOLEAN
  BY DEF Complete
<1> QED
  BY <1>1 DEF Answered, Call, Pcs

(* A call that is not there.                                                 *)
LEMMA IdleType == Idle \in Call /\ Idle.batch = {}
<1>1. 0 \in Times
  BY ConstantsAssumption DEF Times
<1> QED
  BY <1>1, KnownType DEF Idle, Pcs

(* Every reachable state is well typed; the cache holds only mail that was   *)
(* delivered.                                                                *)
THEOREM TypeCorrect == Spec => []TypeOK
<1>1. Init => TypeOK
  <2> SUFFICES ASSUME Init PROVE TypeOK
    OBVIOUS
  <2>1. 0 \in Times
    BY ConstantsAssumption DEF Times
  <2>2. at \in [Messages -> Times] /\ used \in [Kinds -> Nat]
    BY <2>1 DEF Init
  <2> QED
    BY <2>1, <2>2, IdleType DEF Init, TypeOK, Delivered
<1>2. TypeOK /\ [Next]_vars => TypeOK'
  <2> SUFFICES ASSUME TypeOK, [Next]_vars PROVE TypeOK'
    OBVIOUS
  <2> USE DEF TypeOK, Delivered
  <2>1. ASSUME NEW m \in Messages, Deliver(m) PROVE TypeOK'
    <3>1. PICK t \in 1 .. MaxTime :
            /\ at' = [at EXCEPT ![m] = t]
            /\ newest' = IF t > newest THEN t ELSE newest
      BY <2>1 DEF Deliver
    <3>2. at' \in [Messages -> Times] /\ newest' \in Times
      BY <3>1, ConstantsAssumption DEF Times
    <3>3. \A n \in Messages : at[n] > 0 => at'[n] > 0
      BY <3>1
    <3> QED
      BY <2>1, <3>2, <3>3 DEF Deliver
  <2>2. ASSUME NEW c \in Callers, Load(c) PROVE TypeOK'
    <3>1. PICK alias \in BOOLEAN :
            /\ IF alias THEN Spend("alias", MaxAliasSyncs) ELSE UNCHANGED used
            /\ sync' = [sync EXCEPT ![c] =
                 IF state = NoState THEN Known("loaded", alias, 0, 0)
                 ELSE Known("loaded", alias, state.last, state.cursor)]
      BY <2>2 DEF Load
    <3>2. 0 \in Times /\ (state # NoState => state.last \in Times /\ state.cursor \in Times)
      BY ConstantsAssumption DEF State, Times
    <3>3. sync' \in [Callers -> Call] /\ \A d \in Callers : sync'[d].batch \subseteq Delivered
      BY <3>1, <3>2, KnownType DEF Pcs
    <3>4. used' \in [Kinds -> Nat]
      BY <3>1, SpendType DEF Kinds
    <3> QED
      BY <2>2, <3>3, <3>4, ConstantsAssumption DEF Load
  <2>3. ASSUME NEW c \in Callers, Fetch(c) PROVE TypeOK'
    <3>1. PICK batch \in SUBSET Wanted(sync[c]), last \in Times, cursor \in Times :
            sync' = [sync EXCEPT ![c] = Answered(sync[c].alias, last, cursor, batch)]
      BY <2>3 DEF Fetch
    <3>2. batch \subseteq Delivered /\ batch \subseteq Messages
      BY DEF Wanted
    <3>3. sync[c].alias \in BOOLEAN
      BY DEF Call
    <3>4. sync' \in [Callers -> Call] /\ \A d \in Callers : sync'[d].batch \subseteq Delivered
      BY <3>1, <3>2, <3>3, AnsweredType
    <3>5. Wanted(sync[c]) \subseteq Delivered
      BY DEF Wanted
    <3> QED
      BY <2>3, <3>4, <3>5 DEF Fetch
  <2> DEFINE SyncOK == sync \in [Callers -> Call] /\ \A d \in Callers : sync[d].batch \subseteq Delivered
  <2>4. ASSUME NEW c \in Callers, FetchFails(c) PROVE TypeOK'
    <3>1. 0 \in Times /\ sync[c].alias \in BOOLEAN /\ sync[c].last \in Times
      BY ConstantsAssumption DEF Call, Times
    <3>2. SyncOK'
      BY <2>4, <3>1, KnownType DEF FetchFails, Pcs
    <3> QED
      BY <2>4, <3>2, SpendType DEF FetchFails, Kinds
  <2>5. ASSUME NEW c \in Callers, LookupFails(c) PROVE TypeOK'
    <3>1. sync[c].alias \in BOOLEAN /\ sync[c].last \in Times /\ sync[c].cursor \in Times
      BY DEF Call
    <3>2. SyncOK'
      BY <2>5, <3>1, KnownType DEF LookupFails, Pcs
    <3> QED
      BY <2>5, <3>2, SpendType DEF LookupFails, Kinds
  <2>6. ASSUME NEW c \in Callers, Return(c), UNCHANGED at
        PROVE  SyncOK' /\ lock' \in [Instances -> Callers \union {NoCaller}]
    BY <2>6, IdleType DEF Return
  <2>7. ASSUME NEW c \in Callers PROVE Merged(sync[c]) \in State
    <3>1. sync[c].last \in Times /\ sync[c].cursor \in Times
      BY DEF Call
    <3>2. CASE state = NoState
      BY <3>1, <3>2, ConstantsAssumption DEF Merged, State, NoState, Times
    <3>3. CASE state \in State
      BY <3>1, <3>3 DEF Merged, State
    <3> QED
      BY <3>2, <3>3
  <2>8. ASSUME NEW c \in Callers, SaveFailure(c) PROVE TypeOK'
    BY <2>6, <2>7, <2>8, SpendType DEF SaveFailure, Kinds
  <2> DEFINE Moved(c, pc) == sync' = [sync EXCEPT ![c].pc = pc]
  <2>9. ASSUME NEW c \in Callers, NEW pc \in Pcs, Moved(c, pc), UNCHANGED at PROVE SyncOK'
    <3>1. [sync[c] EXCEPT !.pc = pc] \in Call /\ [sync[c] EXCEPT !.pc = pc].batch = sync[c].batch
      BY DEF Call
    <3>2. sync' = [sync EXCEPT ![c] = [sync[c] EXCEPT !.pc = pc]]
      BY <2>9
    <3> QED
      BY <2>9, <3>1, <3>2
  <2>10. ASSUME NEW c \in Callers, Upsert(c) PROVE TypeOK'
    <3>1. SyncOK'
      BY <2>9, <2>10 DEF Upsert, Pcs
    <3> QED
      BY <2>10, <3>1 DEF Upsert
  <2>19. ASSUME NEW c \in Callers, Save(c) PROVE TypeOK'
    <3>1. SyncOK'
      BY <2>9, <2>19 DEF Save, Pcs
    <3> QED
      BY <2>7, <2>19, <3>1 DEF Save
  <2>11. ASSUME NEW c \in Callers, StatementFails(c) PROVE TypeOK'
    BY <2>6, <2>11, SpendType DEF StatementFails, Kinds
  <2>12. ASSUME NEW c \in Callers, Finish(c) PROVE TypeOK'
    BY <2>6, <2>12 DEF Finish
  <2>13. CASE Purge
    BY <2>13, SpendType DEF Purge, Kinds
  <2>14. CASE Reset
    BY <2>14 DEF Reset
  <2>15. CASE ResetFails
    BY <2>15 DEF ResetFails
  <2>16. ASSUME NEW i \in Instances, Crash(i) PROVE TypeOK'
    BY <2>16, SpendType, IdleType DEF Crash, Kinds
  <2>18. CASE UNCHANGED vars
    BY <2>18 DEF vars
  <2> QED
    BY <2>1, <2>2, <2>3, <2>4, <2>5, <2>8, <2>9, <2>10, <2>11, <2>12, <2>13, <2>14, <2>15,
       <2>16, <2>18, <2>19 DEF Next, Sync
<1> QED
  BY <1>1, <1>2, PTL DEF Spec

-----------------------------------------------------------------------------
(* The setting in which Sync keeps its promise: an adapter that returns less *)
(* than it is asked for, as Gmail's does, and no mail later than the overlap.*)
Sound == Clamped /\ Lateness <= Overlap

(* What the cache lacks, was not asked to lack and no answer has cut off.    *)
Missing == Delivered \ (cache \union purged \union cut)

(* A newest date under which a message can still be found.                   *)
Found(m, last) == last = 0 \/ at[m] >= last - Overlap

(* The saved state leaves every missing message to be found.                 *)
StateCovers ==
  state # NoState =>
    /\ state.last <= newest /\ state.cursor = 0
    /\ \A m \in Missing : Found(m, state.last)

(* So does what a call has in its hands, but for its batch.                  *)
Batch(c) == IF sync[c].pc = "fetched" THEN sync[c].batch ELSE {}

CallCovers(c) ==
  /\ ~sync[c].alias /\ sync[c].cursor = 0 /\ sync[c].last <= newest
  /\ sync[c].pc # "idle" => \A m \in Missing \ Batch(c) : Found(m, sync[c].last)

CoverInv ==
  /\ \A m \in Messages : at[m] <= newest
  /\ StateCovers
  /\ \A c \in Callers : CallCovers(c)

(* The numbers the covering conditions compare.                              *)
LEMMA CoverTypes ==
  ASSUME TypeOK
  PROVE  /\ \A m \in Messages : at[m] \in Nat
         /\ newest \in Nat /\ Overlap \in Nat /\ Lateness \in Nat
         /\ \A c \in Callers : sync[c].last \in Nat /\ sync[c].cursor \in Nat
         /\ state # NoState => state.last \in Nat /\ state.cursor \in Nat
         /\ NoState.last = -1
         /\ Missing \subseteq Messages
BY ConstantsAssumption DEF TypeOK, Times, Call, State, NoState, Missing, Delivered

(* A call that is not there has nothing in its hands.                        *)
LEMMA IdleCovers ==
  ASSUME TypeOK, NEW c \in Callers, sync'[c] = Idle, newest' \in Nat
  PROVE  CallCovers(c)'
BY DEF CallCovers, Idle, Known

(* Calls may end and less may be missing: what is left stays covered.        *)
LEMMA LessCovers ==
  ASSUME TypeOK, CoverInv, UNCHANGED <<at, newest>>, Missing' \subseteq Missing,
         NEW d \in Callers, sync'[d] = sync[d] \/ sync'[d] = Idle
  PROVE  CallCovers(d)'
<1>1. CASE sync'[d] = Idle
  BY <1>1, IdleCovers, CoverTypes
<1>2. CASE sync'[d] = sync[d]
  <2>1. CallCovers(d)
    BY DEF CoverInv
  <2>2. (Missing \ Batch(d))' \subseteq Missing \ Batch(d)
    BY <1>2 DEF Batch
  <2> QED
    BY <1>2, <2>1, <2>2 DEF CallCovers, Found
<1> QED
  BY <1>1, <1>2

(* So does the saved state.                                                  *)
LEMMA LessStateCovers ==
  ASSUME CoverInv, UNCHANGED <<at, newest, state>>, Missing' \subseteq Missing
  PROVE  StateCovers'
BY DEF CoverInv, StateCovers, Found

(* New mail is never older than the newest date less the overlap.            *)
LEMMA DeliverCovers ==
  ASSUME Sound, TypeOK, CoverInv, NEW m \in Messages, Deliver(m)
  PROVE  CoverInv'
<1>1. PICK t \in 1 .. MaxTime :
        /\ t >= newest - Lateness
        /\ at' = [at EXCEPT ![m] = t]
        /\ newest' = IF t > newest THEN t ELSE newest
  BY DEF Deliver
<1>2. t \in Nat /\ newest' \in Nat /\ newest' >= newest /\ newest' >= t
  BY <1>1, ConstantsAssumption, CoverTypes
<1>3. /\ UNCHANGED <<state, sync, cache, purged, cut>>
      /\ at'[m] = t /\ at[m] = 0 /\ \A n \in Messages \ {m} : at'[n] = at[n]
  BY <1>1 DEF Deliver, TypeOK
<1>4. Missing' \subseteq Missing \union {m} /\ m \notin Missing
  BY <1>3 DEF Missing, Delivered
<1>5. ASSUME NEW last \in Nat, last <= newest PROVE at'[m] >= last - Overlap
  BY <1>1, <1>2, <1>3, <1>5, CoverTypes DEF Sound
<1>6. ASSUME NEW last \in Nat, last <= newest, NEW n \in Missing', n # m => Found(n, last)
      PROVE  Found(n, last)'
  BY <1>3, <1>4, <1>5, <1>6, CoverTypes DEF Found
<1>7. \A n \in Messages : at'[n] <= newest'
  BY <1>2, <1>3, CoverTypes DEF CoverInv
<1>8. StateCovers'
  <2> SUFFICES ASSUME state # NoState PROVE StateCovers'
    BY <1>3 DEF StateCovers
  <2>1. state.last \in Nat /\ state.last <= newest /\ state.cursor = 0
        /\ \A n \in Missing : Found(n, state.last)
    BY CoverTypes DEF CoverInv, StateCovers
  <2>2. state.last <= newest'
    BY <1>2, <2>1, CoverTypes
  <2>3. \A n \in Missing' : Found(n, state.last)'
    BY <1>3, <1>4, <1>6, <2>1 DEF Found
  <2> QED
    BY <1>3, <2>1, <2>2, <2>3 DEF StateCovers
<1>9. ASSUME NEW d \in Callers PROVE CallCovers(d)'
  <2>1. CallCovers(d) /\ sync[d].last \in Nat
    BY CoverTypes DEF CoverInv
  <2>2. sync[d].last <= newest'
    BY <1>2, <2>1, CoverTypes DEF CallCovers
  <2>3. Batch(d)' = Batch(d)
    BY <1>3 DEF Batch
  <2>4. sync[d].pc # "idle" => \A n \in (Missing \ Batch(d))' : Found(n, sync[d].last)'
    BY <1>3, <1>4, <1>6, <2>1, <2>3 DEF CallCovers, Found
  <2> QED
    BY <1>3, <2>1, <2>2, <2>4 DEF CallCovers
<1> QED
  BY <1>7, <1>8, <1>9 DEF CoverInv

(* A call starts from the saved state.                                       *)
LEMMA LoadCovers ==
  ASSUME Sound, TypeOK, CoverInv, Plain', NEW c \in Callers, Load(c)
  PROVE  CallCovers(c)'
<1>1. PICK alias \in BOOLEAN :
        /\ IF alias THEN Spend("alias", MaxAliasSyncs) ELSE UNCHANGED used
        /\ sync' = [sync EXCEPT ![c] =
             IF state = NoState THEN Known("loaded", alias, 0, 0)
             ELSE Known("loaded", alias, state.last, state.cursor)]
  BY DEF Load
<1>2. ~alias
  BY <1>1 DEF Plain, Spend, TypeOK, Kinds
<1>3. /\ sync'[c].pc = "loaded" /\ ~sync'[c].alias
      /\ sync'[c].last = (IF state = NoState THEN 0 ELSE state.last)
      /\ sync'[c].cursor = (IF state = NoState THEN 0 ELSE state.cursor)
  BY <1>1, <1>2 DEF TypeOK, Known
<1>4. UNCHANGED <<at, newest, Missing>>
  BY DEF Load, Missing, Delivered
<1>5. Batch(c)' = {}
  BY <1>3 DEF Batch
<1>6. CASE state = NoState
  BY <1>3, <1>4, <1>5, <1>6, CoverTypes DEF CallCovers, Found
<1>7. CASE state # NoState
  BY <1>3, <1>4, <1>5, <1>7 DEF CoverInv, StateCovers, CallCovers, Found
<1> QED
  BY <1>6, <1>7

(* Every answer of such an adapter counts as complete.                       *)
LEMMA AlwaysComplete ==
  ASSUME Sound, NEW wanted \in SUBSET Messages, NEW batch \in SUBSET wanted, IsAnswer(batch, wanted)
  PROVE  Complete(batch)
<1>1. Cardinality(batch) \in Nat
  BY ConstantsAssumption, FS_Subset, FS_CardinalityType
<1> QED
  BY <1>1, ConstantsAssumption DEF Sound, Clamped, IsAnswer, Complete

(* A call that has an answer has all that was missing in its batch.          *)
LEMMA FetchCovers ==
  ASSUME Sound, TypeOK, CoverInv, NEW c \in Callers, Fetch(c)
  PROVE  CallCovers(c)' /\ Missing' \subseteq Missing
<1>1. PICK batch \in SUBSET Wanted(sync[c]), last \in Times, cursor \in Times :
        /\ IsAnswer(batch, Wanted(sync[c]))
        /\ last \in {sync[c].last} \union {at[m] : m \in batch}
        /\ Complete(batch) => cursor = 0
        /\ sync' = [sync EXCEPT ![c] = Answered(sync[c].alias, last, cursor, batch)]
        /\ cut' = IF Complete(batch) THEN cut \union (Wanted(sync[c]) \ batch) ELSE cut
  BY DEF Fetch
<1>2. Complete(batch)
  <2>1. Wanted(sync[c]) \in SUBSET Messages
    BY DEF Wanted, Delivered
  <2> QED
    BY <1>1, <2>1, AlwaysComplete
<1>3. /\ sync'[c].pc = "fetched" /\ sync'[c].alias = sync[c].alias /\ sync'[c].batch = batch
      /\ sync'[c].last = last /\ sync'[c].cursor = 0
  BY <1>1, <1>2 DEF TypeOK, Answered
<1>4. UNCHANGED <<at, newest, cache, purged>> /\ sync[c].pc = "loaded"
  BY DEF Fetch
<1>5. Missing' = Missing \ (Wanted(sync[c]) \ batch)
  BY <1>1, <1>2, <1>4 DEF Missing, Delivered
<1>6. CallCovers(c) /\ Batch(c) = {}
  BY <1>4 DEF CoverInv, Batch
<1>7. \A m \in Missing : m \in Wanted(sync[c])
  BY <1>4, <1>6, CoverTypes DEF CallCovers, Found, Wanted, InWindow, Missing
<1>8. (Missing \ Batch(c))' = {}
  BY <1>3, <1>5, <1>7 DEF Batch
<1>9. last <= newest
  BY <1>1, <1>6 DEF CallCovers, CoverInv, Wanted, Delivered
<1> QED
  BY <1>3, <1>4, <1>5, <1>6, <1>8, <1>9 DEF CallCovers

(* The batch is in the cache before the state that is past it is saved.      *)
LEMMA UpsertCovers ==
  ASSUME TypeOK, CoverInv, NEW c \in Callers, Upsert(c)
  PROVE  CallCovers(c)' /\ Missing' \subseteq Missing
<1>1. /\ UNCHANGED <<at, newest>> /\ sync[c].pc = "fetched"
      /\ sync'[c] = [sync[c] EXCEPT !.pc = "stored"]
  BY DEF Upsert, TypeOK
<1>2. /\ sync'[c].pc = "stored" /\ sync'[c].alias = sync[c].alias
      /\ sync'[c].last = sync[c].last /\ sync'[c].cursor = sync[c].cursor
  BY <1>1 DEF TypeOK, Call
<1>3. Missing' = Missing \ sync[c].batch
  BY DEF Upsert, Missing, Delivered
<1>4. (Missing \ Batch(c))' = Missing \ Batch(c)
  BY <1>1, <1>2, <1>3 DEF Batch
<1> QED
  BY <1>1, <1>2, <1>3, <1>4 DEF CoverInv, CallCovers, Found

(* Sync saves its state once the batch is stored, or with an error: whichever*)
(* newest date wins leaves what is missing to be found.                      *)
LEMMA SaveCovers ==
  ASSUME TypeOK, CoverInv, NEW c \in Callers, sync[c].pc \in {"stored", "failed"},
         state' = Merged(sync[c]), UNCHANGED <<at, newest, cache, purged, cut>>
  PROVE  StateCovers'
<1>1. Missing' = Missing /\ Missing \ Batch(c) = Missing
  BY DEF Missing, Delivered, Batch
<1>2. /\ state'.cursor = 0 /\ sync[c].last <= newest
      /\ \A m \in Missing : Found(m, sync[c].last)
  BY <1>1 DEF CoverInv, CallCovers, Merged
<1>3. state'.last = sync[c].last \/ (state # NoState /\ state'.last = state.last)
  BY CoverTypes DEF Merged
<1>4. state # NoState => state.last <= newest /\ \A m \in Missing : Found(m, state.last)
  BY DEF CoverInv, StateCovers
<1>5. state'.last <= newest /\ \A m \in Missing : Found(m, state'.last)
  BY <1>2, <1>3, <1>4
<1> QED
  BY <1>1, <1>2, <1>5 DEF StateCovers, Found

(* A call that fails, or has saved, keeps what it read.                      *)
LEMMA KeptCovers ==
  ASSUME TypeOK, CoverInv, NEW c \in Callers, UNCHANGED <<at, newest, cache, purged, cut>>,
         sync[c].pc \in {"loaded", "stored"},
         sync'[c].alias = sync[c].alias /\ sync'[c].last = sync[c].last /\ sync'[c].cursor = 0,
         sync'[c].pc \in {"failed", "saved"}
  PROVE  CallCovers(c)'
<1>1. (Missing \ Batch(c))' = Missing \ Batch(c)
  BY DEF Missing, Delivered, Batch
<1> QED
  BY <1>1 DEF CoverInv, CallCovers, Found

(* A reset forgets the state; a call that is under way keeps what it read.   *)
LEMMA ResetCovers ==
  ASSUME TypeOK, CoverInv, Reset
  PROVE  CoverInv'
<1>1. UNCHANGED <<at, newest, cache, sync>> /\ state' = NoState
  BY DEF Reset
<1>2. StateCovers'
  BY <1>1 DEF StateCovers
<1>3. ASSUME NEW d \in Callers PROVE CallCovers(d)'
  <2>1. CallCovers(d)
    BY DEF CoverInv
  <2>2. CASE sync[d].pc = "idle"
    BY <1>1, <2>1, <2>2 DEF CallCovers
  <2>3. CASE sync[d].pc # "idle"
    <3>1. UNCHANGED <<purged, cut>>
      BY <2>3 DEF Reset, InFlight
    <3>2. (Missing \ Batch(d))' = Missing \ Batch(d)
      BY <1>1, <3>1 DEF Missing, Delivered, Batch
    <3> QED
      BY <1>1, <2>1, <3>2 DEF CallCovers, Found
  <2> QED
    BY <2>2, <2>3
<1> QED
  BY <1>1, <1>2, <1>3 DEF CoverInv

(* What was synchronised through the alias is not forgotten.                 *)
LEMMA PlainBefore ==
  ASSUME TypeOK, [Next]_vars, Plain'
  PROVE  Plain
<1>1. \A k \in Kinds : \A max : Spend(k, max) => Plain
  BY DEF Spend, Plain, TypeOK, Kinds
<1>2. used' = used => Plain
  BY DEF Plain
<1>3. used' = used \/ \E k \in Kinds : \E max : Spend(k, max)
  <2>1. ASSUME NEW c \in Callers, Sync(c) PROVE used' = used \/ \E k \in Kinds : \E max : Spend(k, max)
    BY <2>1 DEF Sync, Load, Fetch, FetchFails, LookupFails, SaveFailure, Upsert, Save, StatementFails, Finish, Kinds
  <2>2. ASSUME NEW i \in Instances, Crash(i) PROVE \E k \in Kinds : \E max : Spend(k, max)
    BY <2>2 DEF Crash, Kinds
  <2>3. CASE Purge
    BY <2>3 DEF Purge, Kinds
  <2> QED
    BY <2>1, <2>2, <2>3 DEF Next, Deliver, Reset, ResetFails, vars
<1> QED
  BY <1>1, <1>2, <1>3

(* In that setting, every missing message stays to be found, until the state *)
(* of the mailbox has been advanced by a sync of the alias.                  *)
LEMMA CoverInvariant ==
  ASSUME Sound
  PROVE  Spec => [](Plain => CoverInv)
<1>1. Init => CoverInv
  BY ConstantsAssumption DEF Init, CoverInv, StateCovers, CallCovers, Idle, Known
<1>2. TypeOK /\ (Plain => CoverInv) /\ [Next]_vars => (Plain => CoverInv)'
  <2> SUFFICES ASSUME TypeOK, CoverInv, Plain', [Next]_vars PROVE CoverInv'
    BY PlainBefore
  <2>0. ASSUME UNCHANGED <<at, newest, state>>, Missing' \subseteq Missing,
               \A d \in Callers : sync'[d] = sync[d] \/ sync'[d] = Idle \/ CallCovers(d)'
        PROVE  CoverInv'
    BY <2>0, LessCovers, LessStateCovers DEF CoverInv
  <2>1. ASSUME NEW m \in Messages, Deliver(m) PROVE CoverInv'
    BY <2>1, DeliverCovers
  <2>2. ASSUME NEW c \in Callers, Sync(c) PROVE CoverInv'
    <3>0. \A d \in Callers \ {c} : sync'[d] = sync[d]
      BY <2>2 DEF Sync, Load, Fetch, FetchFails, LookupFails, SaveFailure, Upsert, Save,
                  StatementFails, Finish, Return, TypeOK
    <3>1. CASE Load(c)
      <4>1. UNCHANGED <<at, newest, state, Missing>>
        BY <3>1 DEF Load, Missing, Delivered
      <4> QED
        BY <2>0, <3>0, <3>1, <4>1, LoadCovers
    <3>2. CASE Fetch(c)
      <4>1. UNCHANGED <<at, newest, state>>
        BY <3>2 DEF Fetch
      <4> QED
        BY <2>0, <3>0, <3>2, <4>1, FetchCovers
    <3>3. CASE FetchFails(c) \/ LookupFails(c)
      <4>1. /\ UNCHANGED <<at, newest, state, cache, purged, cut, Missing>> /\ sync[c].pc = "loaded"
        BY <3>3 DEF FetchFails, LookupFails, Missing, Delivered
      <4>2. sync[c].cursor = 0
        BY DEF CoverInv, CallCovers
      <4>3. /\ sync'[c].alias = sync[c].alias /\ sync'[c].last = sync[c].last
            /\ sync'[c].cursor = 0 /\ sync'[c].pc = "failed"
        BY <3>3, <4>2 DEF FetchFails, LookupFails, Known, TypeOK
      <4> QED
        BY <2>0, <3>0, <4>1, <4>3, KeptCovers
    <3>4. CASE Upsert(c)
      <4>1. UNCHANGED <<at, newest, state>>
        BY <3>4 DEF Upsert
      <4> QED
        BY <2>0, <3>0, <3>4, <4>1, UpsertCovers
    <3>5. CASE Save(c) \/ SaveFailure(c)
      <4>1. /\ UNCHANGED <<at, newest, cache, purged, cut, Missing>> /\ sync[c].pc \in {"stored", "failed"}
            /\ Save(c) => sync[c].pc = "stored"
            /\ state' = Merged(sync[c]) \/ UNCHANGED state
        BY <3>5 DEF Save, SaveFailure, Missing, Delivered
      <4>2. StateCovers'
        BY <4>1, SaveCovers, LessStateCovers
      <4>3. CASE Save(c)
        <5>1. sync[c].cursor = 0
          BY DEF CoverInv, CallCovers
        <5>2. /\ sync'[c].alias = sync[c].alias /\ sync'[c].last = sync[c].last
              /\ sync'[c].cursor = 0 /\ sync'[c].pc = "saved"
          BY <4>3, <5>1 DEF Save, TypeOK, Call
        <5>3. CallCovers(c)'
          BY <4>1, <4>3, <5>2, KeptCovers
        <5> QED
          BY <3>0, <4>1, <4>2, <5>3, LessCovers DEF CoverInv
      <4>4. CASE SaveFailure(c)
        <5>1. sync'[c] = Idle
          BY <4>4 DEF SaveFailure, Return, TypeOK
        <5> QED
          BY <3>0, <4>1, <4>2, <5>1, LessCovers DEF CoverInv
      <4> QED
        BY <3>5, <4>3, <4>4
    <3>6. CASE StatementFails(c) \/ Finish(c)
      <4>1. /\ UNCHANGED <<at, newest, state, Missing>> /\ sync'[c] = Idle
        BY <3>6 DEF StatementFails, Finish, Return, TypeOK, Missing, Delivered
      <4> QED
        BY <2>0, <3>0, <4>1
    <3> QED
      BY <2>2, <3>1, <3>2, <3>3, <3>4, <3>5, <3>6 DEF Sync
  <2>3. CASE Purge
    <3>1. Missing' \subseteq Missing
      BY <2>3 DEF Purge, Missing, Delivered
    <3> QED
      BY <2>0, <2>3, <3>1 DEF Purge
  <2>4. CASE Reset
    BY <2>4, ResetCovers
  <2>5. ASSUME NEW i \in Instances, Crash(i) PROVE CoverInv'
    <3>1. /\ UNCHANGED <<at, newest, state, Missing>>
          /\ \A d \in Callers : sync'[d] = sync[d] \/ sync'[d] = Idle
      BY <2>5 DEF Crash, Missing, Delivered
    <3> QED
      BY <2>0, <3>1
  <2>6. CASE ResetFails \/ UNCHANGED vars
    <3>1. UNCHANGED <<at, newest, state, Missing, sync>>
      BY <2>6 DEF ResetFails, vars, Missing, Delivered
    <3> QED
      BY <2>0, <3>1
  <2> QED
    BY <2>1, <2>2, <2>3, <2>4, <2>5, <2>6 DEF Next
<1> QED
  BY <1>1, <1>2, TypeCorrect, PTL DEF Spec

(* With an adapter that returns less than it is asked for, the saved state is*)
(* never ahead of the cache, for any number of processes: what is missing and*)
(* was not cut off is in a window that a later sync asks for, because the    *)
(* batch is upserted before the state that is past it is saved.              *)
THEOREM NothingIsSkipped ==
  ASSUME Sound
  PROVE  Spec => []NothingSkipped
<1>1. (Plain => CoverInv) => NothingSkipped
  BY DEF CoverInv, StateCovers, NothingSkipped, Reachable, Missing, Found
<1> QED
  BY <1>1, CoverInvariant, PTL

-----------------------------------------------------------------------------
(* The channel a mailbox is read through.                                    *)

Lists == {<<>>, <<"graph">>, <<"imap">>, <<"graph", "imap">>}
Runs == [at : {"idle", "try", "look", "record"}, kind : {"auto", "asked", "probe"}, left : Lists,
         verdict : C!Verdicts, ended : BOOLEAN, seen : C!Row, unread : BOOLEAN]
Seedings == [todo : {<<>>, <<"imap">>, <<"graph", "imap">>}, absent : BOOLEAN]

(* What the types do not say: who asks has a method left to ask, and an     *)
(* import that found a row absent knows which.                               *)
ChannelInv ==
  /\ cap \in [C!Methods -> C!Row]
  /\ answer \in [C!Methods -> C!Verdicts]
  /\ run \in [Callers -> Runs]
  /\ \A c \in Callers : run[c].at # "idle" => run[c].left # <<>>
  /\ seeding \in Seedings
  /\ seeding.absent => seeding.todo # <<>>
  /\ budget \in [{"request", "event"} -> Nat]

(* The lists of methods, taken apart.                                        *)
LEMMA Taken ==
  /\ Head(<<"graph">>) = "graph" /\ Tail(<<"graph">>) = <<>>
  /\ Head(<<"imap">>) = "imap" /\ Tail(<<"imap">>) = <<>>
  /\ Head(<<"graph", "imap">>) = "graph" /\ Tail(<<"graph", "imap">>) = <<"imap">>
<1>1. Head(<<"graph">>) = "graph" /\ Tail(<<"graph">>) = <<>>
  OBVIOUS
<1>2. Head(<<"imap">>) = "imap" /\ Tail(<<"imap">>) = <<>>
  OBVIOUS
<1>3. Head(<<"graph", "imap">>) = "graph" /\ Tail(<<"graph", "imap">>) = <<"imap">>
  OBVIOUS
<1> QED
  BY <1>1, <1>2, <1>3

(* The first of the methods left is one, and what follows it is a shorter   *)
(* list.                                                                     *)
LEMMA ListParts ==
  ASSUME NEW l \in Lists, l # <<>>
  PROVE  /\ Head(l) \in C!Methods
         /\ Tail(l) \in Lists
<1>1. l = <<"graph">> \/ l = <<"imap">> \/ l = <<"graph", "imap">>
  BY DEF Lists
<1> QED
  BY <1>1, Taken, Zenon DEF Lists, C!Methods

LEMMA SeedingParts ==
  ASSUME NEW s \in Seedings, s.todo # <<>>
  PROVE  /\ Head(s.todo) \in C!Methods
         /\ [todo |-> Tail(s.todo), absent |-> FALSE] \in Seedings
         /\ [s EXCEPT !.todo = Tail(@)] \in Seedings
         /\ [s EXCEPT !.absent = TRUE] \in Seedings
         /\ [s EXCEPT !.absent = TRUE].todo = s.todo
         /\ [s EXCEPT !.todo = Tail(@)].absent = s.absent
<1>1. s.todo \in {<<"imap">>, <<"graph", "imap">>} /\ s.absent \in BOOLEAN
  BY DEF Seedings
<1>2. Head(s.todo) \in C!Methods /\ Tail(s.todo) \in {<<>>, <<"imap">>}
  <2>1. s.todo = <<"imap">> \/ s.todo = <<"graph", "imap">>
    BY <1>1
  <2> QED
    BY <2>1, Taken, Zenon DEF C!Methods
<1> QED
  BY <1>1, <1>2 DEF Seedings

(* A bounded event counts down.                                              *)
LEMMA SpentBudget ==
  ASSUME budget \in [{"request", "event"} -> Nat], NEW e \in {"request", "event"}, C!Spend(e)
  PROVE  budget' \in [{"request", "event"} -> Nat]
BY DEF C!Spend

LEMMA EventBudget ==
  ASSUME budget \in [{"request", "event"} -> Nat], C!Event
  PROVE  budget' \in [{"request", "event"} -> Nat]
BY SpentBudget DEF C!Event

(* A verdict makes a row, and a failure keeps what it saw available.         *)
LEMMA VerdictRowType ==
  ASSUME NEW m \in C!Methods, NEW verdict \in C!Verdicts, NEW seen \in C!Row
  PROVE  /\ C!VerdictRow(m, verdict, seen) \in C!Row
         /\ verdict = "served" => C!VerdictRow(m, verdict, seen).status = "available"
         /\ verdict = "refused" => C!VerdictRow(m, verdict, seen).status = "unavailable"
         /\ verdict = "failed" /\ seen.status = "available" => C!VerdictRow(m, verdict, seen) = seen
BY DEF C!VerdictRow, C!Row, C!Statuses, C!Verdicts

(* A caller that starts has the methods it was given, and one that goes on  *)
(* has the rest of them.                                                     *)
LEMMA StartType ==
  ASSUME run \in [Callers -> Runs], NEW c \in Callers, NEW kind \in {"auto", "asked", "probe"},
         NEW list \in Lists, list # <<>>, C!Start(c, kind, list),
         \A d \in Callers : run[d].at # "idle" => run[d].left # <<>>
  PROVE  /\ run' \in [Callers -> Runs]
         /\ \A d \in Callers : run'[d].at # "idle" => run'[d].left # <<>>
<1> DEFINE r == [C!Nothing EXCEPT !.at = "try", !.kind = kind, !.left = list]
<1>1. r \in Runs /\ r.left = list
  BY DEF C!Nothing, C!NoRow, Runs, Lists, C!Verdicts, C!Row, C!Statuses
<1>2. run' = [run EXCEPT ![c] = r]
  BY DEF C!Start
<1> HIDE DEF r
<1> QED
  BY <1>1, <1>2

LEMMA OnwardType ==
  ASSUME NEW r \in Runs, r.left # <<>>
  PROVE  /\ C!Onward(r) \in Runs
         /\ C!Onward(r).at \in {"idle", "try"}
         /\ C!Onward(r).at # "idle" => C!Onward(r).left # <<>>
<1> DEFINE more == Tail(r.left)
           next == [C!Nothing EXCEPT !.at = "try", !.kind = r.kind, !.left = more]
<1>1. more \in Lists
  BY ListParts DEF Runs
<1>2. C!Nothing \in Runs /\ C!Nothing.at = "idle"
  BY DEF C!Nothing, C!NoRow, Runs, Lists, C!Verdicts, C!Row, C!Statuses
<1>3. next \in Runs /\ next.at = "try" /\ next.left = more
  BY <1>1 DEF C!Nothing, C!NoRow, Runs, Lists, C!Verdicts, C!Row, C!Statuses
<1>4. C!Onward(r) = C!Nothing \/ (C!Onward(r) = next /\ more # <<>>)
  BY DEF C!Onward
<1> HIDE DEF more, next
<1> QED
  BY <1>2, <1>3, <1>4

(* The invariant holds at first and every step keeps it.                     *)
LEMMA ChannelInit ==
  ASSUME C!Init
  PROVE  ChannelInv
<1> DEFINE none == C!Nothing
<1>1. none \in Runs /\ none.at = "idle"
  BY DEF C!Nothing, C!NoRow, Runs, Lists, C!Verdicts, C!Row, C!Statuses
<1>2. cap \in [C!Methods -> C!Row] /\ answer \in [C!Methods -> C!Verdicts]
  BY DEF C!Init, C!NoRow, C!Row, C!Statuses
<1>3. run = [c \in Callers |-> none]
  BY DEF C!Init
<1>4. run \in [Callers -> Runs] /\ \A c \in Callers : run[c].at # "idle" => run[c].left # <<>>
  <2> HIDE DEF none
  <2> QED
    BY <1>1, <1>3
<1>5. seeding \in Seedings /\ ~seeding.absent
  BY DEF C!Init, Seedings
<1>6. budget \in [{"request", "event"} -> Nat]
  BY RequestsAssumption DEF C!Init
<1> QED
  BY <1>2, <1>4, <1>5, <1>6 DEF ChannelInv

LEMMA RetrieveKeeps ==
  ASSUME ChannelInv, NEW c \in Callers, C!Retrieve(c)
  PROVE  ChannelInv'
<1>1. C!Candidates \in Lists
  <2> DEFINE a == IF cap["graph"].status # "unavailable" THEN <<"graph">> ELSE <<>>
             b == IF cap["imap"].status # "unavailable" THEN <<"imap">> ELSE <<>>
  <2>1. a \in {<<>>, <<"graph">>} /\ b \in {<<>>, <<"imap">>} /\ C!Candidates = a \o b
    BY DEF C!Candidates
  <2>2. /\ <<>> \o <<>> = <<>> /\ <<"graph">> \o <<>> = <<"graph">>
        /\ <<>> \o <<"imap">> = <<"imap">> /\ <<"graph">> \o <<"imap">> = <<"graph", "imap">>
    <3>1. <<>> \o <<>> = <<>>
      OBVIOUS
    <3>2. <<"graph">> \o <<>> = <<"graph">>
      OBVIOUS
    <3>3. <<>> \o <<"imap">> = <<"imap">>
      OBVIOUS
    <3>4. <<"graph">> \o <<"imap">> = <<"graph", "imap">>
      <4> DEFINE g == <<"graph">>  i == <<"imap">>  both == <<"graph", "imap">>
      <4>1. /\ g \in Seq(C!Methods) /\ Len(g) = 1 /\ g[1] = "graph"
            /\ i \in Seq(C!Methods) /\ Len(i) = 1 /\ i[1] = "imap"
            /\ both \in Seq(C!Methods) /\ Len(both) = 2 /\ both[1] = "graph" /\ both[2] = "imap"
        BY DEF C!Methods
      <4> HIDE DEF g, i, both
      <4>2. /\ g \o i \in Seq(C!Methods) /\ Len(g \o i) = 2
            /\ (g \o i)[1] = "graph" /\ (g \o i)[2] = "imap"
        <5>1. /\ g \o i \in Seq(C!Methods) /\ Len(g \o i) = Len(g) + Len(i)
              /\ \A j \in 1..(Len(g) + Len(i)) : (g \o i)[j] = IF j <= Len(g) THEN g[j] ELSE i[j - Len(g)]
          BY <4>1, ConcatProperties
        <5>2. Len(g) + Len(i) = 2 /\ 1 \in 1..2 /\ 2 \in 1..2 /\ 1 <= Len(g) /\ ~(2 <= Len(g)) /\ 2 - Len(g) = 1
          BY <4>1
        <5>3. (g \o i)[1] = g[1] /\ (g \o i)[2] = i[2 - Len(g)]
          BY <5>1, <5>2
        <5> QED
          BY <4>1, <5>1, <5>2, <5>3
      <4>3. g \o i = both
        <5>1. \A j \in 1..Len(g \o i) : (g \o i)[j] = both[j]
          BY <4>1, <4>2
        <5> QED
          BY <4>1, <4>2, <5>1, SeqEqual
      <4> QED
        BY <4>3 DEF g, i, both
    <3> QED
      BY <3>1, <3>2, <3>3, <3>4
  <2> HIDE DEF a, b
  <2> QED
    BY <2>1, <2>2, Zenon DEF Lists
<1>2. budget' \in [{"request", "event"} -> Nat]
  BY SpentBudget, EventBudget DEF C!Retrieve, ChannelInv
<1>3. \E kind \in {"auto", "asked", "probe"}, l \in Lists : l # <<>> /\ C!Start(c, kind, l)
  <2>1. CASE C!Candidates # <<>> /\ C!Start(c, "auto", C!Candidates)
    BY <1>1, <2>1
  <2>2. CASE C!Start(c, "auto", <<"graph", "imap">>)
    <3>1. <<"graph", "imap">> \in Lists /\ <<"graph", "imap">> # <<>>
      BY DEF Lists
    <3> QED
      BY <2>2, <3>1
  <2>3. ASSUME NEW m \in C!Methods, C!Start(c, "asked", <<m>>)
        PROVE  \E kind \in {"auto", "asked", "probe"}, l \in Lists : l # <<>> /\ C!Start(c, kind, l)
    <3>1. <<m>> = <<"graph">> \/ <<m>> = <<"imap">>
      BY DEF C!Methods
    <3>2. <<m>> \in Lists /\ <<m>> # <<>>
      BY <3>1 DEF Lists
    <3> QED
      BY <2>3, <3>2
  <2> QED
    BY <2>1, <2>2, <2>3 DEF C!Retrieve
<1>4. run' \in [Callers -> Runs] /\ \A d \in Callers : run'[d].at # "idle" => run'[d].left # <<>>
  BY <1>3, StartType DEF ChannelInv
<1> QED
  BY <1>2, <1>4 DEF ChannelInv, C!Retrieve

LEMMA ProbeKeeps ==
  ASSUME ChannelInv, NEW c \in Callers, C!Probe(c)
  PROVE  ChannelInv'
<1>1. C!ProbeMethods \in Lists /\ C!ProbeMethods # <<>>
  BY DEF C!ProbeMethods, Lists
<1>2. run' \in [Callers -> Runs] /\ \A d \in Callers : run'[d].at # "idle" => run'[d].left # <<>>
  BY <1>1, StartType DEF ChannelInv, C!Probe
<1> QED
  BY <1>2 DEF ChannelInv, C!Probe

(* A caller on its way asks for the first of the methods it has left.        *)
LEMMA CallerAsks ==
  ASSUME ChannelInv, NEW c \in Callers, run[c].at # "idle"
  PROVE  /\ run[c] \in Runs /\ run[c].left \in Lists /\ run[c].left # <<>>
         /\ Head(run[c].left) \in C!Methods
         /\ run[c].verdict \in C!Verdicts /\ run[c].seen \in C!Row
<1>1. run[c] \in Runs /\ run[c].left # <<>>
  BY DEF ChannelInv
<1>2. run[c].left \in Lists /\ run[c].verdict \in C!Verdicts /\ run[c].seen \in C!Row
  BY <1>1 DEF Runs
<1> QED
  BY <1>1, <1>2, ListParts

LEMMA TryKeeps ==
  ASSUME ChannelInv, NEW c \in Callers, C!Try(c)
  PROVE  ChannelInv'
<1> DEFINE r == run[c]
           m == Head(r.left)
<1>1. r \in Runs /\ r.left # <<>> /\ m \in C!Methods /\ answer[m] \in C!Verdicts
  BY CallerAsks DEF C!Try, ChannelInv
<1>2. \E s \in Runs : s.left = r.left /\ run' = [run EXCEPT ![c] = s]
  <2> DEFINE told(v) == [[r EXCEPT !.verdict = v] EXCEPT !.at = "look"]
             halted == [[[r EXCEPT !.verdict = "failed"] EXCEPT !.ended = TRUE] EXCEPT !.at = "look"]
  <2>1. run' = [run EXCEPT ![c] = told(answer[m])] \/ run' = [run EXCEPT ![c] = halted]
    BY DEF C!Try, ChannelInv
  <2>2. \A v \in C!Verdicts : told(v) \in Runs /\ told(v).left = r.left
    BY <1>1 DEF Runs
  <2>3. halted \in Runs /\ halted.left = r.left
    BY <1>1 DEF Runs, C!Verdicts
  <2> DEFINE answered == told(answer[m])
  <2>4. answered \in Runs /\ answered.left = r.left
    BY <1>1, <2>2
  <2>5. run' = [run EXCEPT ![c] = answered] \/ run' = [run EXCEPT ![c] = halted]
    BY <2>1
  <2> HIDE DEF told, halted, answered
  <2> QED
    BY <2>3, <2>4, <2>5
<1>3. budget' \in [{"request", "event"} -> Nat]
  BY EventBudget DEF C!Try, ChannelInv
<1> HIDE DEF r, m
<1>4. run' \in [Callers -> Runs] /\ \A d \in Callers : run'[d].at # "idle" => run'[d].left # <<>>
  BY <1>1, <1>2 DEF ChannelInv
<1> QED
  BY <1>3, <1>4 DEF ChannelInv, C!Try

LEMMA LookKeeps ==
  ASSUME ChannelInv, NEW c \in Callers, C!Look(c)
  PROVE  ChannelInv'
<1> DEFINE r == run[c]
           asked == IF r.verdict = "served" THEN "graph" ELSE Head(r.left)
           read == C!LookedAt(r, cap[asked], FALSE)
           missed == C!LookedAt(r, C!NoRow, TRUE)
<1>1. r \in Runs /\ r.left # <<>> /\ cap[asked] \in C!Row /\ C!NoRow \in C!Row
  BY CallerAsks DEF C!Look, ChannelInv, C!Methods, C!NoRow, C!Row, C!Statuses
<1>2. run' = [run EXCEPT ![c] = read] \/ run' = [run EXCEPT ![c] = missed]
  BY DEF C!Look
<1>3. \A row \in C!Row, unread \in BOOLEAN :
        C!LookedAt(r, row, unread) \in Runs /\ C!LookedAt(r, row, unread).left = r.left
  BY <1>1 DEF Runs, C!LookedAt
<1>4. read \in Runs /\ read.left = r.left /\ missed \in Runs /\ missed.left = r.left
  BY <1>1, <1>3
<1>5. budget' \in [{"request", "event"} -> Nat]
  BY EventBudget DEF C!Look, ChannelInv
<1> HIDE DEF r, read, missed
<1>6. run' \in [Callers -> Runs] /\ \A d \in Callers : run'[d].at # "idle" => run'[d].left # <<>>
  BY <1>1, <1>2, <1>4 DEF ChannelInv
<1> QED
  BY <1>5, <1>6 DEF ChannelInv, C!Look

(* What a verdict writes, and to which row.                                  *)
LEMMA RecordWrites ==
  ASSUME ChannelInv, NEW c \in Callers, C!Record(c)
  PROVE  LET m == Head(run[c].left)
             row == C!VerdictRow(m, run[c].verdict, run[c].seen)
         IN  /\ row \in C!Row /\ m \in C!Methods
             /\ cap' = cap \/ cap' = [cap EXCEPT ![m] = row]
             /\ run' = [run EXCEPT ![c] = C!Onward(run[c])]
             /\ run'[c] # run[c] /\ run[c].at = "record"
<1>1. run[c].at = "record" /\ run' = [run EXCEPT ![c] = C!Onward(run[c])]
  BY DEF C!Record
<1>2. run[c] \in Runs /\ run[c].left # <<>>
  BY <1>1, CallerAsks
<1>3. C!Onward(run[c]).at # "record"
  BY <1>2, OnwardType
<1>4. run'[c] # run[c]
  <2> DEFINE on == C!Onward(run[c])
  <2> HIDE DEF on
  <2>1. run' = [run EXCEPT ![c] = on] /\ on.at # "record"
    BY <1>1, <1>3 DEF on
  <2> QED
    BY <1>1, <2>1 DEF ChannelInv
<1>5. Head(run[c].left) \in C!Methods /\ C!VerdictRow(Head(run[c].left), run[c].verdict, run[c].seen) \in C!Row
  BY <1>1, CallerAsks, VerdictRowType
<1> QED
  BY <1>1, <1>4, <1>5 DEF C!Record

LEMMA RecordKeeps ==
  ASSUME ChannelInv, NEW c \in Callers, C!Record(c)
  PROVE  ChannelInv'
<1>1. cap' \in [C!Methods -> C!Row]
  BY RecordWrites DEF ChannelInv
<1>2. run' \in [Callers -> Runs] /\ \A d \in Callers : run'[d].at # "idle" => run'[d].left # <<>>
  <2> DEFINE on == C!Onward(run[c])
  <2>1. run' = [run EXCEPT ![c] = on] /\ run[c].at # "idle"
    BY DEF C!Record
  <2>2. on \in Runs /\ (on.at # "idle" => on.left # <<>>)
    BY <2>1, CallerAsks, OnwardType
  <2> HIDE DEF on
  <2> QED
    BY <2>1, <2>2 DEF ChannelInv
<1>3. budget' \in [{"request", "event"} -> Nat]
  BY EventBudget DEF C!Record, ChannelInv
<1> QED
  BY <1>1, <1>2, <1>3 DEF ChannelInv, C!Record

LEMMA SeedKeeps ==
  ASSUME ChannelInv, C!Seed
  PROVE  ChannelInv'
<1>1. CASE C!SeedLook
  <2>1. seeding' \in Seedings /\ (seeding'.absent => seeding'.todo # <<>>)
    BY <1>1, SeedingParts DEF ChannelInv, C!SeedLook
  <2> QED
    BY <1>1, <2>1 DEF ChannelInv, C!SeedLook
<1>2. CASE C!SeedWrite
  <2>1. Head(seeding.todo) \in C!Methods /\ [todo |-> Tail(seeding.todo), absent |-> FALSE] \in Seedings
    BY <1>2, SeedingParts DEF ChannelInv, C!SeedWrite
  <2>2. cap' \in [C!Methods -> C!Row]
    BY <1>2, <2>1 DEF ChannelInv, C!SeedWrite, C!Row, C!Statuses
  <2> QED
    BY <1>2, <2>1, <2>2 DEF ChannelInv, C!SeedWrite
<1> QED
  BY <1>1, <1>2 DEF C!Seed

LEMMA ChannelStep ==
  ASSUME ChannelInv, [C!Next]_(C!vars)
  PROVE  ChannelInv'
<1>1. CASE C!Import
  <2>1. answer' \in [C!Methods -> C!Verdicts] /\ seeding' \in Seedings /\ ~seeding'.absent
    BY <1>1 DEF C!Import, C!Verdicts, Seedings
  <2> QED
    BY <1>1, <2>1, EventBudget DEF ChannelInv, C!Import
<1>2. CASE C!Change
  <2>1. answer' \in [C!Methods -> C!Verdicts]
    BY <1>2 DEF ChannelInv, C!Change
  <2> QED
    BY <1>2, <2>1, EventBudget DEF ChannelInv, C!Change
<1>3. CASE UNCHANGED C!vars
  BY <1>3 DEF ChannelInv, C!vars
<1> QED
  BY <1>1, <1>2, <1>3, SeedKeeps, RetrieveKeeps, ProbeKeeps, TryKeeps, LookKeeps, RecordKeeps DEF C!Next, C!Work

(* Every reachable state of the table of channels, of its callers and of its *)
(* imports is well typed: a caller that asks, looks or records has a method, *)
(* and an import writes the row of the method it found absent.               *)
THEOREM ChannelsTyped == C!Spec => []ChannelInv
<1>1. C!Init => ChannelInv
  BY ChannelInit
<1>2. ChannelInv /\ [C!Next]_(C!vars) => ChannelInv'
  BY ChannelStep
<1> QED
  BY <1>1, <1>2, PTL DEF C!Spec

(* The writer of a verdict on a method could not read the row it was to      *)
(* preserve.                                                                 *)
Unread(m) == \E c \in Callers : C!Records(c, m) /\ run[c].unread

(* What a step makes of a row that is available: it stays so or becomes      *)
(* unavailable, unless the writer concluded it from a row that has changed,  *)
(* or from none.                                                             *)
LEMMA FailureStep ==
  ASSUME ChannelInv, [C!Next]_(C!vars), NEW m \in C!Methods, cap[m].status = "available"
  PROVE  cap'[m].status \in {"available", "unavailable"} \/ C!Stale(m) \/ Unread(m)
<1>1. CASE cap' = cap
  BY <1>1
<1>2. CASE C!SeedWrite
  <2> DEFINE first == Head(seeding.todo)
  <2>1. seeding.absent /\ seeding'.absent = FALSE
    BY <1>2 DEF C!SeedWrite
  <2>2. seeding' # seeding
    BY <2>1
  <2>3. first # m => cap'[m] = cap[m]
    BY <1>2 DEF C!SeedWrite, ChannelInv
  <2>4. first = m => C!Stale(m)
    BY <2>1, <2>2 DEF C!Stale
  <2> QED
    BY <2>3, <2>4
<1>3. ASSUME NEW c \in Callers, C!Record(c)
      PROVE  cap'[m].status \in {"available", "unavailable"} \/ C!Stale(m) \/ Unread(m)
  <2> DEFINE asked == Head(run[c].left)
             verdict == run[c].verdict
             seen == run[c].seen
             row == C!VerdictRow(asked, verdict, seen)
  <2>1. /\ asked \in C!Methods /\ verdict \in C!Verdicts /\ seen \in C!Row
        /\ cap' = cap \/ cap' = [cap EXCEPT ![asked] = row]
        /\ run'[c] # run[c] /\ run[c].at = "record"
    BY <1>3, RecordWrites, CallerAsks
  <2>2. CASE cap' = cap
    BY <2>2
  <2>3. CASE cap' = [cap EXCEPT ![asked] = row] /\ asked # m
    <3>1. cap'[m] = cap[m]
      BY <2>1, <2>3 DEF ChannelInv
    <3> QED
      BY <3>1
  <2>4. CASE cap' = [cap EXCEPT ![asked] = row] /\ asked = m
    <3>1. cap'[m] = row
      BY <2>1, <2>4 DEF ChannelInv
    <3>2. CASE run[c].unread
      BY <2>1, <2>4, <3>2 DEF Unread, C!Records
    <3>3. CASE ~run[c].unread /\ seen # cap[m]
      BY <2>1, <2>4, <3>3 DEF C!Stale, C!Records
    <3>4. CASE seen = cap[m]
      <4>1. row.status \in {"available", "unavailable"}
        BY <2>1, <3>4, VerdictRowType DEF C!Verdicts
      <4> QED
        BY <3>1, <4>1
    <3> QED
      BY <3>2, <3>3, <3>4
  <2> QED
    BY <2>1, <2>2, <2>3, <2>4
<1>4. cap' = cap \/ C!SeedWrite \/ \E c \in Callers : C!Record(c)
  BY DEF C!Next, C!Seed, C!SeedLook, C!Import, C!Change, C!Retrieve, C!Work, C!Probe, C!Try, C!Look, C!vars
<1> QED
  BY <1>1, <1>2, <1>3, <1>4

(* A passing failure of the provider, and an import that seeds the table, do *)
(* not demote a channel that is known to work, for any number of requests,   *)
(* probes and imports.  Two writers do: one whose row has changed since it   *)
(* looked, and one that saw no row, because its context had ended or its     *)
(* statement failed.                                                         *)
THEOREM FailuresDemoteNothing == C!Spec => FailurePreservesAvailable
<1>1. ChannelInv /\ [C!Next]_(C!vars) =>
        [\A m \in C!Methods : cap[m].status = "available" =>
           \/ cap'[m].status \in {"available", "unavailable"}
           \/ C!Stale(m)
           \/ \E c \in Callers : C!Records(c, m) /\ run[c].unread]_(C!vars)
  BY FailureStep DEF Unread
<1>2. C!Spec => []ChannelInv
  BY ChannelsTyped
<1> QED
  BY <1>1, <1>2, PTL DEF C!Spec, FailurePreservesAvailable, C!FailurePreservesAvailable

=============================================================================
