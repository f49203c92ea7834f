-------------------------- MODULE MessageCacheProofs --------------------------
(* Proofs about the message cache.  DeltaSync: for every set of items, every *)
(* page size and limit and every number of events; what the cursors have     *)
(* passed over is proved for callers that share the mutex of one process.    *)
(* RangeRestore (R): for every folder, every limit of the providers and of   *)
(* the pages, and every number of errors, deletions and calls.               *)
EXTENDS MCMessageCache, FiniteSetTheorems, WellFoundedInduction, TLAPS

-----------------------------------------------------------------------------
(* The history of the folder.                                                *)

(* The members of a sequence, and of one with a member more.                 *)
LEMMA SeqMembers ==
  ASSUME NEW S, NEW q \in Seq(S)
  PROVE  /\ Len(q) \in Nat /\ DOMAIN q = 1 .. Len(q) /\ \A n \in 1 .. Len(q) : q[n] \in S
         /\ \A e \in S : /\ Append(q, e) \in Seq(S) /\ Len(Append(q, e)) = Len(q) + 1
                         /\ DOMAIN Append(q, e) = 1 .. Len(q) + 1
                         /\ \A n \in 1 .. Len(q) : Append(q, e)[n] = q[n]
                         /\ Append(q, e)[Len(q) + 1] = e
OBVIOUS

(* A function over 1 .. n is a sequence.                                     *)
LEMMA SeqOf ==
  ASSUME NEW S, NEW n \in Nat, NEW q \in [1 .. n -> S]
  PROVE  q \in Seq(S) /\ Len(q) = n
OBVIOUS

(* The history is a sequence of arrivals and removals.                       *)
LEMMA LogType ==
  ASSUME TypeOK
  PROVE  /\ Len(log) \in Nat /\ DOMAIN log = 1 .. Len(log)
         /\ \A n \in 1 .. Len(log) : /\ log[n].item \in Items /\ log[n].kind \in {"add", "del"}
                                     /\ log[n] = [item |-> log[n].item, kind |-> log[n].kind]
<1> DEFINE Changes == [item : Items, kind : {"add", "del"}]
<1>1. log \in Seq(Changes)
  BY DEF TypeOK
<1>2. Len(log) \in Nat /\ DOMAIN log = 1 .. Len(log) /\ \A n \in 1 .. Len(log) : log[n] \in Changes
  <2> HIDE DEF Changes
  <2> QED
    BY <1>1, SeqMembers
<1> QED
  BY <1>2

(* An item has one last change, and is in the folder if that is its arrival. *)
LEMMA LastChange ==
  ASSUME TypeOK
  PROVE  /\ \A n, k \in 1 .. Len(log) : Last(n) /\ Last(k) /\ log[n].item = log[k].item => n = k
         /\ \A n \in 1 .. Len(log) : Last(n) => (log[n].item \in Box <=> log[n].kind = "add")
<1>1. \A n, k \in 1 .. Len(log) : Last(n) /\ Last(k) /\ log[n].item = log[k].item => n = k
  BY LogType DEF Last
<1>2. \A n \in 1 .. Len(log) : Last(n) => (log[n].item \in Box <=> log[n].kind = "add")
  BY <1>1, LogType DEF Box
<1> QED
  BY <1>1, <1>2

(* A change becomes the last one of its item and of no other.                *)
LEMMA AppendLast ==
  ASSUME TypeOK, NEW i \in Items, NEW k \in {"add", "del"}, log' = Append(log, [item |-> i, kind |-> k])
  PROVE  /\ Len(log') = Len(log) + 1 /\ DOMAIN log' = 1 .. Len(log) + 1
         /\ \A n \in 1 .. Len(log) : log'[n] = log[n] /\ (Last(n)' <=> Last(n) /\ log[n].item # i)
         /\ \A n \in Nat : n = Len(log) + 1 => log'[n] = [item |-> i, kind |-> k] /\ Last(n)'
<1>1. /\ Len(log') = Len(log) + 1 /\ DOMAIN log' = 1 .. Len(log) + 1
      /\ \A n \in 1 .. Len(log) : log'[n] = log[n]
      /\ log'[Len(log) + 1] = [item |-> i, kind |-> k]
  BY DEF TypeOK
<1>2. \A n \in 1 .. Len(log) : Last(n)' <=> Last(n) /\ log[n].item # i
  BY <1>1, LogType DEF Last
<1>3. \A n \in Nat : n = Len(log) + 1 => Last(n)'
  BY <1>1, LogType DEF Last
<1> QED
  BY <1>1, <1>2, <1>3

(* Who is in the folder, has arrived and has left after one more change.     *)
LEMMA AppendBox ==
  ASSUME TypeOK, NEW i \in Items, NEW k \in {"add", "del"}, log' = Append(log, [item |-> i, kind |-> k])
  PROVE  /\ \A j \in Items : /\ j \in Box' <=> (j = i /\ k = "add") \/ (j # i /\ j \in Box)
                             /\ Left(j)' <=> Left(j) \/ (j = i /\ k = "del")
                             /\ Arrived(j)' <=> Arrived(j) \/ (j = i /\ k = "add")
<1> SUFFICES ASSUME NEW j \in Items
             PROVE  /\ j \in Box' <=> (j = i /\ k = "add") \/ (j # i /\ j \in Box)
                    /\ Left(j)' <=> Left(j) \/ (j = i /\ k = "del")
                    /\ Arrived(j)' <=> Arrived(j) \/ (j = i /\ k = "add")
  OBVIOUS
<1>0. /\ Len(log') = Len(log) + 1 /\ DOMAIN log' = 1 .. Len(log) + 1 /\ Len(log) \in Nat
      /\ \A n \in 1 .. Len(log) : log'[n] = log[n] /\ (Last(n)' <=> Last(n) /\ log[n].item # i)
      /\ \A n \in Nat : n = Len(log) + 1 => log'[n] = [item |-> i, kind |-> k] /\ Last(n)'
  <2>1. Len(log) \in Nat
    BY LogType
  <2> QED
    BY <2>1, AppendLast
<1>1. j \in Box' <=> \E n \in 1 .. Len(log) + 1 : Last(n)' /\ log'[n] = [item |-> j, kind |-> "add"]
  BY <1>0 DEF Box
<1>2. j \in Box <=> \E n \in 1 .. Len(log) : Last(n) /\ log[n] = [item |-> j, kind |-> "add"]
  BY LogType DEF Box
<1>3. j \in Box' <=> (j = i /\ k = "add") \/ (j # i /\ j \in Box)
  <2>0. \A n \in 1 .. Len(log) + 1 : n # Len(log) + 1 => n \in 1 .. Len(log)
    BY <1>0
  <2>1. CASE j = i
    <3>1. ASSUME NEW n \in 1 .. Len(log) + 1, Last(n)', log'[n] = [item |-> j, kind |-> "add"]
          PROVE  n = Len(log) + 1
      BY <1>0, <2>0, <2>1, <3>1
    <3>2. Len(log) + 1 \in 1 .. Len(log) + 1
      BY <1>0
    <3>3. log'[Len(log) + 1] = [item |-> j, kind |-> "add"] <=> k = "add"
      BY <1>0, <2>1
    <3>4. j \in Box' => k = "add"
      BY <1>1, <3>1, <3>3
    <3>5. k = "add" => j \in Box'
      BY <1>0, <1>1, <3>2, <3>3
    <3> QED
      BY <2>1, <3>4, <3>5
  <2>2. CASE j # i
    <3>1. log'[Len(log) + 1] # [item |-> j, kind |-> "add"]
      BY <2>2, <1>0
    <3>2. ASSUME NEW n \in 1 .. Len(log)
          PROVE  Last(n)' /\ log'[n] = [item |-> j, kind |-> "add"] <=> Last(n) /\ log[n] = [item |-> j, kind |-> "add"]
      BY <1>0, <2>2
    <3>3. 1 .. Len(log) \subseteq 1 .. Len(log) + 1
      BY <1>0
    <3>4. j \in Box' => j \in Box
      BY <1>1, <1>2, <2>0, <3>1, <3>2
    <3>5. j \in Box => j \in Box'
      BY <1>1, <1>2, <3>2, <3>3
    <3> QED
      BY <2>2, <3>4, <3>5
  <2> QED
    BY <2>1, <2>2
<1>4. Left(j)' <=> Left(j) \/ (j = i /\ k = "del")
  BY <1>0, LogType DEF Left
<1>5. Arrived(j)' <=> Arrived(j) \/ (j = i /\ k = "add")
  BY <1>0, LogType DEF Arrived
<1> QED
  BY <1>3, <1>4, <1>5

-----------------------------------------------------------------------------
(* Types.                                                                    *)

(* The empty state and the idle caller.                                      *)
LEMMA IdleType == NoState \in States /\ Idle \in Syncs
<1>1. NoState \in States
  BY DEF NoState, NoCursor, States, Tokens
<1>2. Idle \in Syncs
  <2> DEFINE st == NoState
  <2> HIDE DEF st
  <2>1. [pc |-> "idle", alias |-> FALSE, asked |-> FALSE, left |-> <<>>, from |-> st,
         next |-> st, again |-> FALSE, pages |-> 0, adds |-> {}, dels |-> {}] \in Syncs
    BY <1>1 DEF st, Syncs, Methods
  <2> QED
    BY <2>1 DEF st, Idle
<1> QED
  BY <1>1, <1>2

(* Only the caller that makes a step changes what it knows.                  *)
LEMMA NowFacts ==
  ASSUME TypeOK, NEW s \in Syncers, NEW r \in Syncs, Now(s, r)
  PROVE  /\ sync' \in [Syncers -> Syncs] /\ sync'[s] = r
         /\ \A t \in Syncers \ {s} : sync'[t] = sync[t]
BY DEF TypeOK, Now

(* An event is counted once.                                                 *)
LEMMA SpendFacts ==
  ASSUME TypeOK, NEW e \in Events, Spend(e)
  PROVE  /\ used' \in [Events -> Nat] /\ used'[e] = used[e] + 1
         /\ \A f \in Events \ {e} : used'[f] = used[f]
BY DEF TypeOK, Spend

(* What expires the tokens or numbers the folder anew begins a generation.   *)
LEMMA Generations ==
  ASSUME TypeOK
  PROVE  /\ Expire => epoch' = [token |-> epoch.token + 1, uid |-> epoch.uid]
         /\ Renumber => epoch' = [token |-> epoch.token, uid |-> epoch.uid + 1]
         /\ epoch.token \in Nat /\ epoch.uid \in Nat
<1>1. epoch \in [token : Nat, uid : Nat]
  BY DEF TypeOK
<1>2. /\ [epoch EXCEPT !.token = epoch.token + 1] = [token |-> epoch.token + 1, uid |-> epoch.uid]
      /\ [epoch EXCEPT !.uid = epoch.uid + 1] = [token |-> epoch.token, uid |-> epoch.uid + 1]
  BY <1>1
<1>3. Expire => epoch' = [epoch EXCEPT !.token = epoch.token + 1]
  BY DEF Expire
<1>4. Renumber => epoch' = [epoch EXCEPT !.uid = epoch.uid + 1]
  BY DEF Renumber
<1> QED
  BY <1>1, <1>2, <1>3, <1>4

(* The folder changes and the callers do not.                                *)
LEMMA FolderType ==
  ASSUME TypeOK, Folder
  PROVE  TypeOK' /\ UNCHANGED <<methods, cache, state, sync>>
<1> DEFINE Changes == [item : Items, kind : {"add", "del"}]
           Members == Items \union {Nobody}
<1>1. log \in Seq(Changes) /\ uids \in Seq(Members) /\ Len(log) \in Nat /\ Len(uids) \in Nat
  BY DEF TypeOK
<1>2. UNCHANGED <<methods, cache, state, sync>> /\ (used' = used \/ \E e \in Events : Spend(e))
  BY DEF Folder, Expire, Renumber, Arrive, Leave, Events
<1>3. used' \in [Events -> Nat]
  BY <1>2, SpendFacts DEF TypeOK
<1>4. ASSUME NEW i \in Items, NEW k \in {"add", "del"} PROVE Append(log, [item |-> i, kind |-> k]) \in Seq(Changes)
  <2>1. [item |-> i, kind |-> k] \in Changes
    OBVIOUS
  <2> HIDE DEF Changes
  <2> QED
    BY <1>1, <2>1, SeqMembers
<1>5. log' \in Seq(Changes)
  BY <1>1, <1>4 DEF Folder, Expire, Renumber, Arrive, Leave
<1>6. uids' \in Seq(Members)
  <2>1. ASSUME NEW i \in Items, Arrive(i) PROVE uids' \in Seq(Members)
    <3>1. i \in Members /\ uids' = Append(uids, i)
      BY <2>1 DEF Arrive
    <3> HIDE DEF Members
    <3> QED
      BY <1>1, <3>1, SeqMembers
  <2>2. ASSUME NEW i \in Items, Leave(i) PROVE uids' \in Seq(Members)
    <3>1. uids' = [u \in 1 .. Len(uids) |-> IF uids[u] = i THEN Nobody ELSE uids[u]]
      BY <1>1, <2>2 DEF Leave
    <3>2. \A u \in 1 .. Len(uids) : uids[u] \in Members
      <4> HIDE DEF Members
      <4> QED
        BY <1>1, SeqMembers
    <3>3. uids' \in [1 .. Len(uids) -> Members]
      BY <3>1, <3>2
    <3> HIDE DEF Members
    <3> QED
      BY <1>1, <3>3, SeqOf
  <2>3. ASSUME Renumber PROVE uids' \in Seq(Members)
    <3>1. Box \subseteq Items
      BY DEF Box
    <3>2. Cardinality(Box) \in Nat
      BY <3>1, ItemsAssumption, FS_Subset, FS_CardinalityType
    <3>3. uids' \in [1 .. Cardinality(Box) -> Members]
      BY <2>3, <3>1 DEF Renumber
    <3> HIDE DEF Members
    <3> QED
      BY <3>2, <3>3, SeqOf
  <2>4. ASSUME Expire PROVE uids' \in Seq(Members)
    BY <1>1, <2>4 DEF Expire
  <2> HIDE DEF Members
  <2> QED
    BY <2>1, <2>2, <2>3, <2>4 DEF Folder
<1>7. epoch' \in [token : Nat, uid : Nat]
  <2>1. (\E i \in Items : Arrive(i) \/ Leave(i)) => epoch' = epoch
    BY DEF Arrive, Leave
  <2> QED
    BY <2>1, Generations DEF Folder, TypeOK
<1> QED
  BY <1>2, <1>3, <1>5, <1>6, <1>7 DEF TypeOK

-----------------------------------------------------------------------------
(* What holds of the folder.                                                 *)

\* One item in the folder has a Message-ID and one UID an item; what has left
\* had arrived, and is in the folder only if it has returned.
FolderInv ==
  /\ \A i, j \in Box : ExtOf[i] = ExtOf[j] => i = j
  /\ \A u \in DOMAIN uids : uids[u] # Nobody => uids[u] \in Box
  /\ \A u, v \in DOMAIN uids : uids[u] = uids[v] /\ uids[u] # Nobody => u = v
  /\ \A i \in Items : Left(i) => Arrived(i)
  /\ used["return"] = 0 => \A i \in Box : ~Left(i)
  /\ epoch.token > 0 /\ epoch.uid > 0

(* Mail arrives.                                                             *)
LEMMA ArriveFolder ==
  ASSUME TypeOK, FolderInv, NEW i \in Items, Arrive(i)
  PROVE  FolderInv'
<1>1. /\ \A j \in Items : /\ j \in Box' <=> j = i \/ j \in Box
                          /\ Left(j)' <=> Left(j)
                          /\ Arrived(j)' <=> Arrived(j) \/ j = i
      /\ Box \subseteq Items /\ Box' \subseteq Items
  <2>1. log' = Append(log, [item |-> i, kind |-> "add"])
    BY DEF Arrive
  <2>2. Box \subseteq Items /\ Box' \subseteq Items
    BY DEF Box
  <2> QED
    BY <2>1, <2>2, AppendBox
<1>2. i \notin Box /\ (\A j \in Box : ExtOf[j] # ExtOf[i]) /\ i # Nobody
  BY ItemsAssumption DEF Arrive
<1>3. /\ Len(uids) \in Nat /\ DOMAIN uids = 1 .. Len(uids) /\ DOMAIN uids' = 1 .. Len(uids) + 1
      /\ \A u \in 1 .. Len(uids) : uids'[u] = uids[u]
      /\ uids'[Len(uids) + 1] = i
  BY DEF TypeOK, Arrive
<1>4. used'["return"] = 0 => used["return"] = 0 /\ ~Arrived(i)
  BY SpendFacts DEF Arrive, Events, TypeOK
<1>5. \A j, k \in Box' : ExtOf[j] = ExtOf[k] => j = k
  BY <1>1, <1>2 DEF FolderInv
<1>6. \A u \in DOMAIN uids' : uids'[u] # Nobody => uids'[u] \in Box'
  BY <1>1, <1>3 DEF FolderInv
<1>7. \A u, v \in DOMAIN uids' : uids'[u] = uids'[v] /\ uids'[u] # Nobody => u = v
  BY <1>2, <1>3 DEF FolderInv
<1>8. \A j \in Items : Left(j)' => Arrived(j)'
  BY <1>1 DEF FolderInv
<1>9. used'["return"] = 0 => \A j \in Box' : ~Left(j)'
  BY <1>1, <1>4 DEF FolderInv
<1>10. epoch'.token > 0 /\ epoch'.uid > 0
  BY DEF FolderInv, Arrive
<1> QED
  BY <1>5, <1>6, <1>7, <1>8, <1>9, <1>10 DEF FolderInv

(* Mail leaves.                                                              *)
LEMMA LeaveFolder ==
  ASSUME TypeOK, FolderInv, NEW i \in Items, Leave(i)
  PROVE  FolderInv'
<1>1. /\ \A j \in Items : /\ j \in Box' <=> j # i /\ j \in Box
                          /\ Left(j)' <=> Left(j) \/ j = i
                          /\ Arrived(j)' <=> Arrived(j)
      /\ Box \subseteq Items /\ Box' \subseteq Items
  <2>1. log' = Append(log, [item |-> i, kind |-> "del"])
    BY DEF Leave
  <2>2. Box \subseteq Items /\ Box' \subseteq Items
    BY DEF Box
  <2> QED
    BY <2>1, <2>2, AppendBox
<1>2. i \in Box /\ Arrived(i) /\ i # Nobody
  BY ItemsAssumption DEF Leave, Box, Arrived
<1>3. /\ DOMAIN uids' = DOMAIN uids
      /\ \A u \in DOMAIN uids : uids'[u] = IF uids[u] = i THEN Nobody ELSE uids[u]
  BY DEF Leave
<1>4. used' = used /\ epoch' = epoch
  BY DEF Leave
<1>5. \A j, k \in Box' : ExtOf[j] = ExtOf[k] => j = k
  BY <1>1 DEF FolderInv
<1>6. \A u \in DOMAIN uids' : uids'[u] # Nobody => uids'[u] \in Box'
  BY <1>1, <1>3 DEF FolderInv
<1>7. \A u, v \in DOMAIN uids' : uids'[u] = uids'[v] /\ uids'[u] # Nobody => u = v
  BY <1>2, <1>3 DEF FolderInv
<1>8. \A j \in Items : Left(j)' => Arrived(j)'
  BY <1>1, <1>2 DEF FolderInv
<1>9. used'["return"] = 0 => \A j \in Box' : ~Left(j)'
  BY <1>1, <1>4 DEF FolderInv
<1>10. epoch'.token > 0 /\ epoch'.uid > 0
  BY <1>4 DEF FolderInv
<1> QED
  BY <1>5, <1>6, <1>7, <1>8, <1>9, <1>10 DEF FolderInv

(* The folder is numbered anew, or its tokens expire.                        *)
LEMMA EpochFolder ==
  ASSUME TypeOK, FolderInv, Expire \/ Renumber
  PROVE  FolderInv'
<1>1. /\ Box' = Box /\ \A j \in Items : (Left(j)' <=> Left(j)) /\ (Arrived(j)' <=> Arrived(j))
      /\ Box \subseteq Items
  BY DEF Expire, Renumber, Box, Left, Arrived, Last
<1>2. used'["return"] = 0 => used["return"] = 0
  BY SpendFacts DEF Expire, Renumber, Events, TypeOK
<1>3. /\ \A u \in DOMAIN uids' : uids'[u] # Nobody => uids'[u] \in Box
      /\ \A u, v \in DOMAIN uids' : uids'[u] = uids'[v] /\ uids'[u] # Nobody => u = v
  <2>1. CASE Expire
    BY <2>1 DEF Expire, FolderInv
  <2>2. CASE Renumber
    <3>1. Cardinality(Box) \in Nat
      BY <1>1, ItemsAssumption, FS_Subset, FS_CardinalityType
    <3>2. /\ DOMAIN uids' = 1 .. Cardinality(Box) /\ \A u \in DOMAIN uids' : uids'[u] \in Box
          /\ \A u, v \in DOMAIN uids' : u < v =>
               \E j, k \in DOMAIN uids : j < k /\ uids[j] = uids'[u] /\ uids[k] = uids'[v]
      BY <2>2 DEF Renumber
    <3>3. DOMAIN uids = 1 .. Len(uids) /\ Len(uids) \in Nat
      BY DEF TypeOK
    <3>4. ASSUME NEW u \in DOMAIN uids', NEW v \in DOMAIN uids', u < v, uids'[u] # Nobody
          PROVE  uids'[u] # uids'[v]
      <4>1. PICK j, k \in DOMAIN uids : j < k /\ uids[j] = uids'[u] /\ uids[k] = uids'[v]
        BY <3>2, <3>4
      <4>2. uids[j] = uids[k] => j = k
        BY <4>1, <3>4 DEF FolderInv
      <4> QED
        BY <3>3, <4>1, <4>2
    <3> QED
      BY <3>1, <3>2, <3>4
  <2> QED
    BY <2>1, <2>2
<1>4. epoch'.token > 0 /\ epoch'.uid > 0
  BY Generations DEF FolderInv
<1>5. \A i, j \in Box' : ExtOf[i] = ExtOf[j] => i = j
  BY <1>1 DEF FolderInv
<1>6. \A j \in Items : Left(j)' => Arrived(j)'
  BY <1>1 DEF FolderInv
<1>7. used'["return"] = 0 => \A j \in Box' : ~Left(j)'
  BY <1>1, <1>2 DEF FolderInv
<1> QED
  BY <1>1, <1>3, <1>4, <1>5, <1>6, <1>7 DEF FolderInv

-----------------------------------------------------------------------------
(* What a step of a Sync changes.                                            *)

(* No event is uncounted.                                                    *)
LEMMA UsedGrows ==
  ASSUME TypeOK, [Next]_vars
  PROVE  used' \in [Events -> Nat] /\ \A e \in Events : used'[e] >= used[e]
<1>1. used' = used \/ \E e \in Events : Spend(e)
  <2>1. Folder => used' = used \/ \E e \in Events : Spend(e)
    BY DEF Folder, Expire, Renumber, Arrive, Leave, Events
  <2>2. ASSUME NEW s \in Syncers, Begin(s) \/ Failure(s) \/ Interrupted(s)
        PROVE  used' = used \/ \E e \in Events : Spend(e)
    BY <2>2 DEF Begin, Failure, Interrupted, Events
  <2>3. ASSUME NEW s \in Syncers, Step(s)
        PROVE  used' = used \/ \E e \in Events : Spend(e)
    BY <2>3 DEF Step, GraphPage, Refused, ImapSearch, SaveFailure, Upsert, Delete, Save, Events
  <2>4. CASE UNCHANGED vars
    BY <2>4 DEF vars
  <2> QED
    BY <2>1, <2>2, <2>3, <2>4 DEF Next
<1>2. ASSUME NEW e \in Events, Spend(e)
      PROVE  used' \in [Events -> Nat] /\ \A f \in Events : used'[f] >= used[f]
  <2>1. /\ used' \in [Events -> Nat] /\ used'[e] = used[e] + 1
        /\ \A f \in Events \ {e} : used'[f] = used[f]
    BY <1>2, SpendFacts
  <2>2. \A f \in Events : used[f] \in Nat
    BY DEF TypeOK
  <2> QED
    BY <2>1, <2>2
<1>3. ASSUME used' = used
      PROVE  used' \in [Events -> Nat] /\ \A f \in Events : used'[f] >= used[f]
  BY <1>3 DEF TypeOK
<1> QED
  BY <1>1, <1>2, <1>3

(* So an event that has not happened has not happened before.                *)
LEMMA StillUnused ==
  ASSUME TypeOK, [Next]_vars, NEW e \in Events
  PROVE  used'[e] = 0 => used[e] = 0
<1>1. used[e] \in Nat
  BY DEF TypeOK
<1>2. used'[e] \in Nat /\ used'[e] >= used[e]
  BY UsedGrows
<1> QED
  BY <1>1, <1>2

(* A mailbox offers a method.                                                *)
LEMMA MethodsType ==
  ASSUME TypeOK
  PROVE  methods \in Methods /\ methods # <<>>
<1>1. methods \in {<<"graph">>, <<"imap">>, <<"graph", "imap">>}
  BY SyncAssumption DEF TypeOK
<1>2. <<"graph">> # <<>> /\ <<"imap">> # <<>> /\ <<"graph", "imap">> # <<>>
  OBVIOUS
<1> QED
  BY <1>1, <1>2 DEF Methods

Labels == {"idle", "ask", "failed", "upsert", "delete", "save"}
Adds == SUBSET [at : Nat, item : Items]

\* A caller goes on.
Moving(r, pc) == [r EXCEPT !.pc = pc]

(* What it changes and what it leaves.                                       *)
LEMMA Moved ==
  ASSUME NEW r \in Syncs, NEW pc \in Labels
  PROVE  LET q == Moving(r, pc)
         IN  /\ q \in Syncs /\ q.pc = pc
             /\ q.alias = r.alias /\ q.asked = r.asked /\ q.left = r.left /\ q.from = r.from /\ q.next = r.next
             /\ q.again = r.again /\ q.pages = r.pages /\ q.adds = r.adds /\ q.dels = r.dels
<1> DEFINE B == BOOLEAN
           D == SUBSET Items
           q == Moving(r, pc)
<1>1. Syncs = [pc : Labels, alias : B, asked : B, left : Methods, from : States, next : States,
               again : B, pages : Nat, adds : Adds, dels : D]
  BY DEF Syncs, Labels, Adds
<1>2. pc \in Labels /\ r \in Syncs
  OBVIOUS
<1> HIDE DEF B, D
<1>3. q \in Syncs /\ q.pc = pc
  BY <1>1, <1>2 DEF Moving
<1>4. /\ q.alias = r.alias /\ q.asked = r.asked /\ q.left = r.left /\ q.from = r.from /\ q.next = r.next
      /\ q.again = r.again /\ q.pages = r.pages /\ q.adds = r.adds /\ q.dels = r.dels
  BY <1>1, <1>2 DEF Moving
<1> QED
  BY <1>3, <1>4

\* A page is read.
Paging(r, pages, adds, dels, next, pc) ==
  [r EXCEPT !.pages = pages, !.adds = adds, !.dels = dels, !.next = next, !.pc = pc]

(* What it changes and what it leaves.                                       *)
LEMMA Paged ==
  ASSUME NEW r \in Syncs, NEW pages \in Nat, NEW adds \in Adds, NEW dels \in SUBSET Items,
         NEW next \in States, NEW pc \in Labels
  PROVE  LET q == Paging(r, pages, adds, dels, next, pc)
         IN  /\ q \in Syncs /\ q.pages = pages /\ q.adds = adds /\ q.dels = dels /\ q.next = next /\ q.pc = pc
             /\ q.alias = r.alias /\ q.asked = r.asked /\ q.left = r.left /\ q.from = r.from /\ q.again = r.again
<1> DEFINE B == BOOLEAN
           D == SUBSET Items
           q == Paging(r, pages, adds, dels, next, pc)
<1>1. Syncs = [pc : Labels, alias : B, asked : B, left : Methods, from : States, next : States,
               again : B, pages : Nat, adds : Adds, dels : D]
  BY DEF Syncs, Labels, Adds
<1>2. pages \in Nat /\ adds \in Adds /\ dels \in D /\ next \in States /\ pc \in Labels /\ r \in Syncs
  OBVIOUS
<1> HIDE DEF B, D
<1>3. q \in Syncs /\ q.pages = pages /\ q.adds = adds /\ q.dels = dels /\ q.next = next /\ q.pc = pc
  BY <1>1, <1>2 DEF Paging
<1>4. /\ q.alias = r.alias /\ q.asked = r.asked /\ q.left = r.left /\ q.from = r.from /\ q.again = r.again
  BY <1>1, <1>2 DEF Paging
<1> QED
  BY <1>3, <1>4

\* A search is answered.
Finding(r, pc, adds, next) == [r EXCEPT !.pc = pc, !.adds = adds, !.next = next]

(* What it changes and what it leaves.                                       *)
LEMMA Found ==
  ASSUME NEW r \in Syncs, NEW pc \in Labels, NEW adds \in Adds, NEW next \in States
  PROVE  LET q == Finding(r, pc, adds, next)
         IN  /\ q \in Syncs /\ q.pc = pc /\ q.adds = adds /\ q.next = next
             /\ q.alias = r.alias /\ q.asked = r.asked /\ q.left = r.left /\ q.from = r.from /\ q.again = r.again
             /\ q.pages = r.pages /\ q.dels = r.dels
<1> DEFINE B == BOOLEAN
           D == SUBSET Items
           q == Finding(r, pc, adds, next)
<1>1. Syncs = [pc : Labels, alias : B, asked : B, left : Methods, from : States, next : States,
               again : B, pages : Nat, adds : Adds, dels : D]
  BY DEF Syncs, Labels, Adds
<1>2. pc \in Labels /\ adds \in Adds /\ next \in States /\ r \in Syncs
  OBVIOUS
<1> HIDE DEF B, D
<1>3. q \in Syncs /\ q.pc = pc /\ q.adds = adds /\ q.next = next
  BY <1>1, <1>2 DEF Finding
<1>4. /\ q.alias = r.alias /\ q.asked = r.asked /\ q.left = r.left /\ q.from = r.from /\ q.again = r.again
      /\ q.pages = r.pages /\ q.dels = r.dels
  BY <1>1, <1>2 DEF Finding
<1> QED
  BY <1>3, <1>4

\* A Sync starts.
Starting(r, pc, alias, asked, left, from) ==
  [r EXCEPT !.pc = pc, !.alias = alias, !.asked = asked, !.left = left, !.from = from]

(* What it changes and what it leaves.                                       *)
LEMMA Started ==
  ASSUME NEW r \in Syncs, NEW pc \in Labels, NEW alias \in BOOLEAN, NEW asked \in BOOLEAN,
         NEW left \in Methods, NEW from \in States
  PROVE  LET q == Starting(r, pc, alias, asked, left, from)
         IN  /\ q \in Syncs /\ q.pc = pc /\ q.alias = alias /\ q.asked = asked /\ q.left = left /\ q.from = from
             /\ q.next = r.next /\ q.again = r.again /\ q.pages = r.pages /\ q.adds = r.adds /\ q.dels = r.dels
<1> DEFINE B == BOOLEAN
           D == SUBSET Items
           q == Starting(r, pc, alias, asked, left, from)
<1>1. Syncs = [pc : Labels, alias : B, asked : B, left : Methods, from : States, next : States,
               again : B, pages : Nat, adds : Adds, dels : D]
  BY DEF Syncs, Labels, Adds
<1>2. pc \in Labels /\ alias \in B /\ asked \in B /\ left \in Methods /\ from \in States /\ r \in Syncs
  OBVIOUS
<1> HIDE DEF B, D
<1>3. q \in Syncs /\ q.pc = pc /\ q.alias = alias /\ q.asked = asked /\ q.left = left /\ q.from = from
  BY <1>1, <1>2 DEF Starting
<1>4. /\ q.next = r.next /\ q.again = r.again /\ q.pages = r.pages /\ q.adds = r.adds /\ q.dels = r.dels
  BY <1>1, <1>2 DEF Starting
<1> QED
  BY <1>3, <1>4

\* A Sync starts over.
Restarting(r, pc, alias, asked, again, left) ==
  [r EXCEPT !.pc = pc, !.alias = alias, !.asked = asked, !.again = again, !.left = left]

(* What it changes and what it leaves.                                       *)
LEMMA Restarted ==
  ASSUME NEW r \in Syncs, NEW pc \in Labels, NEW alias \in BOOLEAN, NEW asked \in BOOLEAN,
         NEW again \in BOOLEAN, NEW left \in Methods
  PROVE  LET q == Restarting(r, pc, alias, asked, again, left)
         IN  /\ q \in Syncs /\ q.pc = pc /\ q.alias = alias /\ q.asked = asked /\ q.again = again /\ q.left = left
             /\ q.from = r.from /\ q.next = r.next /\ q.pages = r.pages /\ q.adds = r.adds /\ q.dels = r.dels
<1> DEFINE B == BOOLEAN
           D == SUBSET Items
           q == Restarting(r, pc, alias, asked, again, left)
<1>1. Syncs = [pc : Labels, alias : B, asked : B, left : Methods, from : States, next : States,
               again : B, pages : Nat, adds : Adds, dels : D]
  BY DEF Syncs, Labels, Adds
<1>2. pc \in Labels /\ alias \in B /\ asked \in B /\ again \in B /\ left \in Methods /\ r \in Syncs
  OBVIOUS
<1> HIDE DEF B, D
<1>3. q \in Syncs /\ q.pc = pc /\ q.alias = alias /\ q.asked = asked /\ q.again = again /\ q.left = left
  BY <1>1, <1>2 DEF Restarting
<1>4. /\ q.from = r.from /\ q.next = r.next /\ q.pages = r.pages /\ q.adds = r.adds /\ q.dels = r.dels
  BY <1>1, <1>2 DEF Restarting
<1> QED
  BY <1>3, <1>4

\* The next method is asked.
Falling(r, left, pages, adds, dels) == [r EXCEPT !.left = left, !.pages = pages, !.adds = adds, !.dels = dels]

(* What it changes and what it leaves.                                       *)
LEMMA Fallen ==
  ASSUME NEW r \in Syncs, NEW left \in Methods, NEW pages \in Nat, NEW adds \in Adds, NEW dels \in SUBSET Items
  PROVE  LET q == Falling(r, left, pages, adds, dels)
         IN  /\ q \in Syncs /\ q.left = left /\ q.pages = pages /\ q.adds = adds /\ q.dels = dels
             /\ q.pc = r.pc /\ q.alias = r.alias /\ q.asked = r.asked /\ q.from = r.from /\ q.next = r.next
             /\ q.again = r.again
<1> DEFINE B == BOOLEAN
           D == SUBSET Items
           q == Falling(r, left, pages, adds, dels)
<1>1. Syncs = [pc : Labels, alias : B, asked : B, left : Methods, from : States, next : States,
               again : B, pages : Nat, adds : Adds, dels : D]
  BY DEF Syncs, Labels, Adds
<1>2. left \in Methods /\ pages \in Nat /\ adds \in Adds /\ dels \in D /\ r \in Syncs
  OBVIOUS
<1> HIDE DEF B, D
<1>3. q \in Syncs /\ q.left = left /\ q.pages = pages /\ q.adds = adds /\ q.dels = dels
  BY <1>1, <1>2 DEF Falling
<1>4. /\ q.pc = r.pc /\ q.alias = r.alias /\ q.asked = r.asked /\ q.from = r.from /\ q.next = r.next
      /\ q.again = r.again
  BY <1>1, <1>2 DEF Falling
<1> QED
  BY <1>3, <1>4

(* A Sync begins.                                                            *)
LEMMA BeginFacts ==
  ASSUME TypeOK, NEW s \in Syncers, Begin(s)
  PROVE  /\ sync' \in [Syncers -> Syncs] /\ \A t \in Syncers \ {s} : sync'[t] = sync[t]
         /\ UNCHANGED <<provider, cache, state>>
         /\ sync[s].pc = "idle" /\ (OneProcess => \A t \in Syncers : sync[t].pc = "idle")
         /\ sync'[s].pc = "ask" /\ sync'[s].from = state /\ sync'[s].next = NoState /\ sync'[s].pages = 0
         /\ sync'[s].adds = {} /\ sync'[s].dels = {} /\ sync'[s].left # <<>>
         /\ sync'[s].alias => used'["alias"] > 0
         /\ used'["asked"] = 0 => sync'[s].left = methods
<1>1. PICK alias \in BOOLEAN, asked \in BOOLEAN, asks \in {methods, <<"graph">>, <<"imap">>} :
        /\ asked \/ asks = methods
        /\ \/ ~alias /\ ~asked /\ UNCHANGED used
           \/ alias /\ ~asked /\ Spend("alias")
           \/ ~alias /\ asked /\ Spend("asked")
        /\ Now(s, [Idle EXCEPT !.pc = "ask", !.alias = alias, !.asked = asked, !.left = asks, !.from = state])
  BY DEF Begin
<1> DEFINE r == Starting(Idle, "ask", alias, asked, asks, state)
<1>2. Now(s, r)
  BY <1>1, Zenon DEF Starting
<1>3. asks \in Methods /\ asks # <<>>
  <2>1. <<"graph">> # <<>> /\ <<"imap">> # <<>>
    OBVIOUS
  <2> QED
    BY <2>1, MethodsType DEF Methods
<1>4. /\ r \in Syncs /\ r.pc = "ask" /\ r.alias = alias /\ r.left = asks /\ r.from = state
      /\ r.next = Idle.next /\ r.pages = Idle.pages /\ r.adds = Idle.adds /\ r.dels = Idle.dels
  <2>1. "ask" \in Labels /\ state \in States
    BY DEF Labels, TypeOK
  <2>2. asks \in Methods /\ Idle \in Syncs
    BY <1>3, IdleType
  <2>3. \A b \in BOOLEAN, c \in BOOLEAN :
          LET q == Starting(Idle, "ask", b, c, asks, state)
          IN  /\ q \in Syncs /\ q.pc = "ask" /\ q.alias = b /\ q.left = asks /\ q.from = state
              /\ q.next = Idle.next /\ q.pages = Idle.pages /\ q.adds = Idle.adds /\ q.dels = Idle.dels
    BY <2>1, <2>2, Started
  <2> HIDE DEF r
  <2> QED
    BY <2>3, Zenon DEF r
<1>5. (alias => used'["alias"] > 0) /\ (used'["asked"] = 0 => ~asked)
  <2>1. (alias => Spend("alias")) /\ (asked => Spend("asked"))
    BY <1>1, Zenon
  <2>2. \A e \in Events : Spend(e) => used'[e] = used[e] + 1
    BY SpendFacts
  <2>3. "alias" \in Events /\ "asked" \in Events /\ \A e \in Events : used[e] \in Nat
    BY DEF Events, TypeOK
  <2> QED
    BY <2>1, <2>2, <2>3
<1>6. Idle.next = NoState /\ Idle.pages = 0 /\ Idle.adds = {} /\ Idle.dels = {}
  BY DEF Idle
<1> HIDE DEF r
<1>7. sync' \in [Syncers -> Syncs] /\ sync'[s] = r /\ \A t \in Syncers \ {s} : sync'[t] = sync[t]
  BY <1>2, <1>4, NowFacts
<1>8. /\ UNCHANGED <<provider, cache, state>>
      /\ sync[s].pc = "idle" /\ (OneProcess => \A t \in Syncers : sync[t].pc = "idle")
  BY DEF Begin
<1>9. used'["asked"] = 0 => r.left = methods
  BY <1>1, <1>4, <1>5
<1>10. r.alias => used'["alias"] > 0
  BY <1>4, <1>5, Zenon
<1> QED
  BY <1>3, <1>4, <1>6, <1>7, <1>8, <1>9, <1>10

(* The token a page is asked with.                                           *)
LEMMA TokenType ==
  ASSUME TypeOK, NEW s \in Syncers
  PROVE  GraphToken(s) \in Tokens
<1>1. sync[s].next \in States /\ sync[s].from \in States
  BY DEF TypeOK, Syncs
<1>2. Token(0, Len(log)) \in Tokens
  BY LogType, Generations DEF Token, Tokens
<1> QED
  BY <1>1, <1>2 DEF GraphToken, States

(* A page tells the last changes of its part of the history.                 *)
LEMMA PageFacts ==
  ASSUME TypeOK, NEW s \in Syncers, GraphPage(s)
  PROVE  \E token \in Tokens, last \in Nat :
         /\ token = GraphToken(s)
         /\ sync' \in [Syncers -> Syncs] /\ \A t \in Syncers \ {s} : sync'[t] = sync[t]
         /\ UNCHANGED <<provider, cache, state, used>>
         /\ sync[s].pc = "ask" /\ sync[s].left # <<>> /\ Head(sync[s].left) = "graph" /\ token.epoch = epoch.token
         /\ last <= Len(log) /\ (token.pos <= Len(log) => token.pos <= last)
         /\ sync'[s].pc \in {"ask", "upsert"} /\ sync'[s].left = sync[s].left /\ sync'[s].from = sync[s].from
         /\ sync'[s].alias = sync[s].alias /\ sync'[s].pages > 0
         /\ sync'[s].next = [cursor |-> [pos |-> last, since |-> token.since, epoch |-> epoch.token],
                             validity |-> 0, high |-> 0]
         /\ \A a : a \in sync'[s].adds <=>
              \/ a \in sync[s].adds
              \/ \E n \in token.pos + 1 .. last : log[n].kind = "add" /\ Last(n) /\ a = [at |-> n, item |-> log[n].item]
         /\ \A i : i \in sync'[s].dels <=>
              \/ i \in sync[s].dels
              \/ \E n \in token.pos + 1 .. last : /\ log[n].kind = "del" /\ Last(n) /\ n > token.since
                                                  /\ i = log[n].item
<1> DEFINE token == GraphToken(s)
           last == IF token.pos + PageSize < Len(log) THEN token.pos + PageSize ELSE Len(log)
           adds == sync[s].adds \union Listed(Told(token, last, "add"), LogItems)
           dels == Gathered(sync[s].dels, Told(token, last, "del"))
           next == [cursor |-> [pos |-> last, since |-> token.since, epoch |-> epoch.token], validity |-> 0, high |-> 0]
           over == last = Len(log) \/ sync[s].pages + 1 = MaxPages \/ Cardinality(adds) >= Limit
           pc == IF over THEN "upsert" ELSE "ask"
           r == Paging(sync[s], sync[s].pages + 1, adds, dels, next, pc)
<1>1. token \in Tokens /\ Len(log) \in Nat /\ PageSize \in Nat /\ sync[s] \in Syncs
  BY TokenType, LogType, SyncAssumption DEF TypeOK
<1>2. last \in Nat /\ last <= Len(log) /\ (token.pos <= Len(log) => token.pos <= last)
  BY <1>1 DEF Tokens
<1>3. next = [NoState EXCEPT !.cursor = PageToken(token, last)] /\ token.epoch = epoch.token
  BY <1>1 DEF GraphPage, NoState, PageToken, Tokens
<1>4. Now(s, r)
  BY <1>3 DEF GraphPage, Paging
<1>5. \A n \in token.pos + 1 .. last : n \in 1 .. Len(log)
  BY <1>1, <1>2 DEF Tokens
<1>6. \A a : a \in adds <=>
        \/ a \in sync[s].adds
        \/ \E n \in token.pos + 1 .. last : log[n].kind = "add" /\ Last(n) /\ a = [at |-> n, item |-> log[n].item]
  <2>1. \A n \in 1 .. Len(log) : LogItems[n] = log[n].item
    BY LogType DEF LogItems
  <2> QED
    BY <1>5, <2>1 DEF Listed, Told
<1>7. \A i : i \in dels <=>
        \/ i \in sync[s].dels
        \/ \E n \in token.pos + 1 .. last : log[n].kind = "del" /\ Last(n) /\ n > token.since /\ i = log[n].item
  BY DEF Gathered, Told
<1>8. adds \in SUBSET [at : Nat, item : Items] /\ dels \in SUBSET Items
  <2>1. sync[s].adds \in SUBSET [at : Nat, item : Items] /\ sync[s].dels \in SUBSET Items
    BY <1>1 DEF Syncs
  <2>2. \A n \in token.pos + 1 .. last : n \in Nat /\ log[n].item \in Items
    BY <1>1, <1>2, <1>5, LogType
  <2> HIDE DEF adds, dels, last, token
  <2>3. ASSUME NEW a \in adds PROVE a \in [at : Nat, item : Items]
    BY <1>6, <2>1, <2>2
  <2>4. ASSUME NEW i \in dels PROVE i \in Items
    BY <1>7, <2>1, <2>2
  <2> QED
    BY <2>3, <2>4
<1>9. next \in States
  <2>1. token.since \in Nat /\ epoch.token \in Nat
    BY <1>1, Generations DEF Tokens
  <2> HIDE DEF token, last
  <2> QED
    BY <1>2, <2>1 DEF States, Tokens
<1>16. pc \in {"ask", "upsert"}
  OBVIOUS
<1> HIDE DEF adds, dels, next, over, pc, last, token
<1>10. /\ r \in Syncs /\ r.pages = sync[s].pages + 1 /\ r.adds = adds /\ r.dels = dels /\ r.next = next /\ r.pc = pc
       /\ r.alias = sync[s].alias /\ r.left = sync[s].left /\ r.from = sync[s].from
  <2>1. pc \in Labels /\ adds \in Adds /\ sync[s].pages + 1 \in Nat
    BY <1>1, <1>8, <1>16 DEF Labels, Adds, Syncs
  <2>2. dels \in SUBSET Items /\ sync[s] \in Syncs /\ next \in States
    BY <1>1, <1>8, <1>9
  <2> HIDE DEF r
  <2> QED
    BY <2>1, <2>2, Paged DEF r
<1>11. r.pages > 0
  BY <1>1, <1>10 DEF Syncs
<1> HIDE DEF r
<1>12. sync' \in [Syncers -> Syncs] /\ sync'[s] = r /\ \A t \in Syncers \ {s} : sync'[t] = sync[t]
  BY <1>4, <1>10, NowFacts
<1>13. UNCHANGED <<provider, cache, state, used>> /\ sync[s].pc = "ask" /\ Head(sync[s].left) = "graph"
  BY DEF GraphPage
<1>14. sync[s].left # <<>>
  BY <1>13 DEF TypeOK
<1>15. next = [cursor |-> [pos |-> last, since |-> token.since, epoch |-> epoch.token], validity |-> 0, high |-> 0]
  BY DEF next
<1>17. token = GraphToken(s)
  BY DEF token
<1> HIDE DEF token
<1> token \in Tokens /\ last \in Nat
  BY <1>1, <1>2
<1> WITNESS token \in Tokens, last \in Nat
<1>18. /\ sync'[s].pc \in {"ask", "upsert"} /\ sync'[s].left = sync[s].left /\ sync'[s].from = sync[s].from
       /\ sync'[s].pages > 0 /\ sync'[s].next = next /\ sync'[s].adds = adds /\ sync'[s].dels = dels
  BY <1>10, <1>11, <1>12, <1>16
<1>19. sync'[s].alias = sync[s].alias
  BY <1>10, <1>12, Zenon
<1>20. \A a : a \in sync'[s].adds <=>
         \/ a \in sync[s].adds
         \/ \E n \in token.pos + 1 .. last : log[n].kind = "add" /\ Last(n) /\ a = [at |-> n, item |-> log[n].item]
  BY <1>6, <1>18
<1>21. \A i : i \in sync'[s].dels <=>
         \/ i \in sync[s].dels
         \/ \E n \in token.pos + 1 .. last : log[n].kind = "del" /\ Last(n) /\ n > token.since /\ i = log[n].item
  BY <1>7, <1>18
<1>22. sync'[s].next = [cursor |-> [pos |-> last, since |-> token.since, epoch |-> epoch.token],
                        validity |-> 0, high |-> 0]
  BY <1>15, <1>18
<1> QED
  BY <1>2, <1>3, <1>12, <1>13, <1>14, <1>17, <1>18, <1>19, <1>20, <1>21, <1>22

(* A search finds the UIDs above the known one, the lowest first.            *)
LEMMA SearchFacts ==
  ASSUME TypeOK, NEW s \in Syncers, ImapSearch(s)
  PROVE  \E high \in Nat, top \in Nat :
         /\ high = KnownUID(sync[s].from)
         /\ sync' \in [Syncers -> Syncs] /\ \A t \in Syncers \ {s} : sync'[t] = sync[t]
         /\ UNCHANGED <<provider, cache, state, used>>
         /\ sync[s].pc = "ask" /\ sync[s].left # <<>> /\ Head(sync[s].left) = "imap"
         /\ sync'[s].pc = "upsert" /\ sync'[s].left = sync[s].left /\ sync'[s].from = sync[s].from
         /\ sync'[s].alias = sync[s].alias /\ sync'[s].dels = sync[s].dels
         /\ sync'[s].next = [cursor |-> NoCursor, validity |-> epoch.uid, high |-> top]
         /\ top = high \/ top <= Len(uids)
         /\ \A a \in sync'[s].adds : a.at \in 1 .. Len(uids) /\ a.item = uids[a.at] /\ uids[a.at] # Nobody
         /\ \A u \in 1 .. Len(uids) : u > high /\ u <= top /\ uids[u] \notin {Nobody} \cup Poor =>
              \E a \in sync'[s].adds : a.at = u /\ a.item = uids[u]
<1> DEFINE high == KnownUID(sync[s].from)
           found == {u \in DOMAIN uids : u > high /\ uids[u] # Nobody}
           taken == {u \in found : Cardinality({v \in found : v < u}) < Limit}
<1>1. sync[s] \in Syncs /\ sync[s].from \in States /\ epoch.uid \in Nat
  BY Generations DEF TypeOK, Syncs
<1>2. high \in Nat
  BY <1>1 DEF KnownUID, States
<1>3. /\ Len(uids) \in Nat /\ DOMAIN uids = 1 .. Len(uids)
      /\ \A u \in 1 .. Len(uids) : uids[u] # Nobody => uids[u] \in Items
  <2> DEFINE Members == Items \union {Nobody}
  <2>1. uids \in Seq(Members)
    BY DEF TypeOK
  <2>2. Len(uids) \in Nat /\ DOMAIN uids = 1 .. Len(uids) /\ \A u \in 1 .. Len(uids) : uids[u] \in Members
    <3> HIDE DEF Members
    <3> QED
      BY <2>1, SeqMembers
  <2> QED
    BY <2>2
<1>4. found \subseteq 1 .. Len(uids) /\ taken \subseteq found /\ taken \subseteq 1 .. Len(uids)
  BY <1>3
<1>5. IsFiniteSet(found)
  <2>1. IsFiniteSet(1 .. Len(uids))
    BY <1>3, FS_Interval
  <2> QED
    BY <1>4, <2>1, FS_Subset
<1>6. PICK top \in taken \union {high}, skipped \in SUBSET {u \in taken : uids[u] \in Poor} :
        Now(s, [sync[s] EXCEPT !.pc = "upsert", !.adds = Listed(taken \ skipped, uids),
                               !.next = [cursor |-> NoCursor, validity |-> epoch.uid, high |-> top]])
  BY DEF ImapSearch
<1>7. top \in Nat /\ (top = high \/ top <= Len(uids))
  BY <1>2, <1>3, <1>4
<1>8. ASSUME NEW u \in 1 .. Len(uids), u > high, u <= top, uids[u] # Nobody
      PROVE  u \in taken
  <2>1. u \in found /\ top \in taken /\ top \in found
    BY <1>3, <1>6, <1>8, <1>2
  <2>2. {v \in found : v < u} \subseteq {v \in found : v < top}
    BY <1>3, <1>4, <1>7, <1>8
  <2>3. {v \in found : v < top} \subseteq found
    OBVIOUS
  <2>4. IsFiniteSet({v \in found : v < top})
    BY <1>5, <2>3, FS_Subset
  <2>5. Cardinality({v \in found : v < u}) <= Cardinality({v \in found : v < top})
    BY <2>2, <2>4, FS_Subset
  <2>6. IsFiniteSet({v \in found : v < u})
    BY <2>2, <2>4, FS_Subset
  <2>7. Cardinality({v \in found : v < u}) \in Nat /\ Cardinality({v \in found : v < top}) \in Nat
    BY <2>4, <2>6, FS_CardinalityType
  <2>8. Cardinality({v \in found : v < top}) < Limit
    BY <2>1
  <2>9. Cardinality({v \in found : v < u}) < Limit
    <3> DEFINE m == Cardinality({v \in found : v < u})
               n == Cardinality({v \in found : v < top})
    <3>1. m \in Nat /\ n \in Nat /\ m <= n /\ n < Limit /\ Limit \in Nat
      BY <2>5, <2>7, <2>8, SyncAssumption
    <3> HIDE DEF m, n
    <3>2. m < Limit
      BY <3>1
    <3> QED
      BY <3>2 DEF m
  <2> QED
    BY <2>1, <2>9
<1> DEFINE read == taken \ skipped
           adds == Listed(read, uids)
<1>9. /\ \A u \in read : u \in 1 .. Len(uids) /\ uids[u] # Nobody /\ uids[u] \in Items
      /\ \A u \in taken : uids[u] \notin Poor => u \in read
  BY <1>3, <1>4, <1>6
<1>23. Now(s, [sync[s] EXCEPT !.pc = "upsert", !.adds = adds,
                              !.next = [cursor |-> NoCursor, validity |-> epoch.uid, high |-> top]])
  BY <1>6
<1> HIDE DEF high, found, taken, read
<1>10. /\ \A a \in adds : a.at \in 1 .. Len(uids) /\ a.item = uids[a.at] /\ uids[a.at] # Nobody
       /\ \A u \in 1 .. Len(uids) : u > high /\ u <= top /\ uids[u] \notin {Nobody} \cup Poor =>
            \E a \in adds : a.at = u /\ a.item = uids[u]
       /\ adds \in Adds
  <2>1. adds = {[at |-> u, item |-> uids[u]] : u \in read}
    BY DEF Listed
  <2>2. \A a \in adds : a \in [at : Nat, item : Items] /\ a.at \in 1 .. Len(uids) /\ a.item = uids[a.at]
                        /\ uids[a.at] # Nobody
    BY <1>3, <1>9, <2>1
  <2>3. \A u \in read : [at |-> u, item |-> uids[u]] \in adds
    BY <2>1
  <2> HIDE DEF adds
  <2>4. \A u \in 1 .. Len(uids) : u > high /\ u <= top /\ uids[u] \notin {Nobody} \cup Poor => u \in read
    BY <1>8, <1>9
  <2> QED
    BY <2>2, <2>3, <2>4 DEF Adds
<1> DEFINE next == [cursor |-> NoCursor, validity |-> epoch.uid, high |-> top]
           r == Finding(sync[s], "upsert", adds, next)
<1>11. next \in States /\ "upsert" \in Labels
  <2>1. NoCursor \in Tokens
    BY DEF NoCursor, Tokens
  <2> QED
    BY <1>1, <1>7, <2>1 DEF States, Labels
<1>12. Now(s, r)
  BY <1>23 DEF Finding
<1>13. next = [cursor |-> NoCursor, validity |-> epoch.uid, high |-> top]
  OBVIOUS
<1> HIDE DEF next, adds
<1>14. /\ r \in Syncs /\ r.pc = "upsert" /\ r.adds = adds /\ r.next = next /\ r.alias = sync[s].alias
       /\ r.left = sync[s].left /\ r.from = sync[s].from /\ r.dels = sync[s].dels
  BY <1>1, <1>10, <1>11, Found
<1> HIDE DEF r
<1>15. sync' \in [Syncers -> Syncs] /\ sync'[s] = r /\ \A t \in Syncers \ {s} : sync'[t] = sync[t]
  BY <1>12, <1>14, NowFacts
<1>16. UNCHANGED <<provider, cache, state, used>> /\ sync[s].pc = "ask" /\ Head(sync[s].left) = "imap"
  BY DEF ImapSearch
<1>17. sync[s].left # <<>>
  BY <1>16 DEF TypeOK
<1>18. sync'[s].alias = sync[s].alias
  BY <1>14, <1>15, Zenon
<1>19. high = KnownUID(sync[s].from)
  BY DEF high
<1>20. /\ sync'[s].pc = "upsert" /\ sync'[s].left = sync[s].left /\ sync'[s].from = sync[s].from
       /\ sync'[s].dels = sync[s].dels /\ sync'[s].adds = adds
       /\ sync'[s].next = [cursor |-> NoCursor, validity |-> epoch.uid, high |-> top]
  BY <1>13, <1>14, <1>15
<1>21. /\ \A a \in sync'[s].adds : a.at \in 1 .. Len(uids) /\ a.item = uids[a.at] /\ uids[a.at] # Nobody
       /\ \A u \in 1 .. Len(uids) : u > high /\ u <= top /\ uids[u] \notin {Nobody} \cup Poor =>
            \E a \in sync'[s].adds : a.at = u /\ a.item = uids[u]
  BY <1>10, <1>20
<1> high \in Nat /\ top \in Nat
  BY <1>2, <1>7
<1> WITNESS high \in Nat, top \in Nat
<1> QED
  BY <1>7, <1>15, <1>16, <1>17, <1>18, <1>19, <1>20, <1>21

(* The methods that are left when one has failed.                            *)
LEMMA TailType ==
  ASSUME NEW l \in Methods, l # <<>>, Len(l) # 1
  PROVE  Tail(l) \in Methods /\ Tail(l) # <<>>
<1>1. Len(<<"graph">>) = 1 /\ Len(<<"imap">>) = 1
  OBVIOUS
<1>2. l = <<"graph", "imap">>
  BY <1>1 DEF Methods
<1>3. Tail(<<"graph", "imap">>) = <<"imap">> /\ <<"imap">> # <<>>
  OBVIOUS
<1> QED
  BY <1>2, <1>3 DEF Methods

(* A refused cursor or a failed call drops what the method had said.         *)
LEMMA DroppedFacts ==
  ASSUME TypeOK, NEW s \in Syncers, Refused(s) \/ Failure(s)
  PROVE  /\ sync' \in [Syncers -> Syncs] /\ \A t \in Syncers \ {s} : sync'[t] = sync[t]
         /\ UNCHANGED <<provider, cache, state>>
         /\ sync[s].pc = "ask" /\ sync'[s].pc \in {"ask", "failed"}
         /\ sync'[s].alias = sync[s].alias
         /\ sync'[s].from \in {sync[s].from, NoState} /\ sync'[s].next \in {sync[s].next, NoState}
         /\ sync'[s].adds \in {sync[s].adds, {}} /\ sync'[s].dels \in {sync[s].dels, {}}
         /\ sync'[s].pc = "ask" =>
              sync'[s].left # <<>> /\ sync'[s].pages = 0 /\ sync'[s].adds = {} /\ sync'[s].dels = {}
         /\ used'["failure"] = 0 => sync'[s].left \in {sync[s].left, methods}
<1>0. /\ UNCHANGED <<provider, cache, state>> /\ sync[s].pc = "ask" /\ sync[s].left # <<>>
      /\ sync[s] \in Syncs /\ sync[s].left \in Methods /\ "failed" \in Labels /\ "ask" \in Labels
      /\ sync[s].alias \in BOOLEAN /\ sync[s].asked \in BOOLEAN
  BY DEF Refused, Failure, TypeOK, Syncs, Labels
<1>1. ASSUME Now(s, [sync[s] EXCEPT !.pc = "failed"])
      PROVE  /\ sync' \in [Syncers -> Syncs] /\ \A t \in Syncers \ {s} : sync'[t] = sync[t]
             /\ sync'[s].pc = "failed" /\ sync'[s].alias = sync[s].alias /\ sync'[s].from = sync[s].from
             /\ sync'[s].next = sync[s].next /\ sync'[s].adds = sync[s].adds /\ sync'[s].dels = sync[s].dels
             /\ sync'[s].left = sync[s].left
  <2> DEFINE r == Moving(sync[s], "failed")
  <2>1. Now(s, r)
    BY <1>1 DEF Moving
  <2>2. /\ r \in Syncs /\ r.pc = "failed" /\ r.alias = sync[s].alias /\ r.from = sync[s].from
        /\ r.next = sync[s].next /\ r.adds = sync[s].adds /\ r.dels = sync[s].dels /\ r.left = sync[s].left
    BY <1>0, Moved
  <2> HIDE DEF r
  <2>3. sync' \in [Syncers -> Syncs] /\ sync'[s] = r /\ \A t \in Syncers \ {s} : sync'[t] = sync[t]
    BY <2>1, <2>2, NowFacts
  <2> QED
    BY <2>2, <2>3, Zenon
<1>2. ASSUME Now(s, Restart(s))
      PROVE  /\ sync' \in [Syncers -> Syncs] /\ \A t \in Syncers \ {s} : sync'[t] = sync[t]
             /\ sync'[s].pc = "ask" /\ sync'[s].alias = sync[s].alias /\ sync'[s].from = NoState
             /\ sync'[s].next = NoState /\ sync'[s].adds = {} /\ sync'[s].dels = {} /\ sync'[s].pages = 0
             /\ sync'[s].left \in {sync[s].left, methods} /\ sync'[s].left # <<>>
  <2> DEFINE left == IF sync[s].asked THEN sync[s].left ELSE methods
             q == Restarting(Idle, "ask", sync[s].alias, sync[s].asked, TRUE, left)
  <2>1. Now(s, q)
    BY <1>2, Zenon DEF Restarting, Restart
  <2>2. left \in {sync[s].left, methods} /\ left \in Methods /\ left # <<>>
    BY <1>0, MethodsType
  <2>3. Idle.from = NoState /\ Idle.next = NoState /\ Idle.adds = {} /\ Idle.dels = {} /\ Idle.pages = 0
    BY DEF Idle
  <2> HIDE DEF left
  <2>4. /\ q \in Syncs /\ q.pc = "ask" /\ q.alias = sync[s].alias /\ q.left = left /\ q.from = Idle.from
        /\ q.next = Idle.next /\ q.pages = Idle.pages /\ q.adds = Idle.adds /\ q.dels = Idle.dels
    <3> DEFINE i == Idle
               a == sync[s].alias
               b == sync[s].asked
               c == TRUE
               w == Restarting(i, "ask", a, b, c, left)
    <3>1. "ask" \in Labels /\ left \in Methods /\ i \in Syncs /\ a \in BOOLEAN /\ b \in BOOLEAN /\ c \in BOOLEAN
      BY <1>0, <2>2, IdleType DEF Labels
    <3> HIDE DEF i, a, b, c
    <3>2. /\ w \in Syncs /\ w.pc = "ask" /\ w.alias = a /\ w.asked = b /\ w.again = c /\ w.left = left
          /\ w.from = i.from /\ w.next = i.next /\ w.pages = i.pages /\ w.adds = i.adds /\ w.dels = i.dels
      BY <3>1, Restarted
    <3> HIDE DEF w
    <3>3. q = w
      BY Zenon DEF w, i, a, b, c
    <3> HIDE DEF q
    <3> QED
      BY <3>2, <3>3, Zenon DEF i, a
  <2> HIDE DEF q
  <2>5. /\ q \in Syncs /\ q.pc = "ask" /\ q.alias = sync[s].alias /\ q.left = left /\ q.from = NoState
        /\ q.next = NoState /\ q.pages = 0 /\ q.adds = {} /\ q.dels = {}
    BY <2>3, <2>4, Zenon
  <2>6. sync' \in [Syncers -> Syncs] /\ sync'[s] = q /\ \A t \in Syncers \ {s} : sync'[t] = sync[t]
    BY <2>1, <2>5, NowFacts
  <2> QED
    BY <2>2, <2>5, <2>6, Zenon
<1>3. ASSUME Failure(s), Now(s, [sync[s] EXCEPT !.left = Tail(@), !.pages = 0, !.adds = {}, !.dels = {}]),
             Len(sync[s].left) # 1
      PROVE  /\ sync' \in [Syncers -> Syncs] /\ \A t \in Syncers \ {s} : sync'[t] = sync[t]
             /\ sync'[s].pc = "ask" /\ sync'[s].alias = sync[s].alias /\ sync'[s].from = sync[s].from
             /\ sync'[s].next = sync[s].next /\ sync'[s].adds = {} /\ sync'[s].dels = {} /\ sync'[s].pages = 0
             /\ sync'[s].left # <<>> /\ used'["failure"] # 0
  <2> DEFINE r == Falling(sync[s], Tail(sync[s].left), 0, {}, {})
  <2>1. Now(s, r)
    BY <1>3 DEF Falling
  <2>2. Tail(sync[s].left) \in Methods /\ Tail(sync[s].left) # <<>> /\ {} \in Adds /\ {} \in SUBSET Items /\ 0 \in Nat
    BY <1>0, <1>3, TailType DEF Adds
  <2>3. /\ r \in Syncs /\ r.pc = sync[s].pc /\ r.alias = sync[s].alias /\ r.from = sync[s].from
        /\ r.next = sync[s].next /\ r.adds = {} /\ r.dels = {} /\ r.pages = 0 /\ r.left = Tail(sync[s].left)
    BY <1>0, <2>2, Fallen
  <2> HIDE DEF r
  <2>4. sync' \in [Syncers -> Syncs] /\ sync'[s] = r /\ \A t \in Syncers \ {s} : sync'[t] = sync[t]
    BY <2>1, <2>3, NowFacts
  <2>5. used'["failure"] # 0
    BY <1>3, SpendFacts DEF Failure, Events, TypeOK
  <2> QED
    BY <1>0, <2>2, <2>3, <2>4, <2>5, Zenon
<1>4. \/ Now(s, [sync[s] EXCEPT !.pc = "failed"])
      \/ Now(s, Restart(s))
      \/ Failure(s) /\ Now(s, [sync[s] EXCEPT !.left = Tail(@), !.pages = 0, !.adds = {}, !.dels = {}])
         /\ Len(sync[s].left) # 1
  BY Zenon DEF Refused, Failure
<1>5. CASE Now(s, [sync[s] EXCEPT !.pc = "failed"])
  BY <1>0, <1>1, <1>5, Zenon
<1>6. CASE Now(s, Restart(s))
  BY <1>0, <1>2, <1>6, Zenon
<1>7. CASE Failure(s) /\ Now(s, [sync[s] EXCEPT !.left = Tail(@), !.pages = 0, !.adds = {}, !.dels = {}])
           /\ Len(sync[s].left) # 1
  BY <1>0, <1>3, <1>7, Zenon
<1> QED
  BY <1>4, <1>5, <1>6, <1>7

(* A Sync ends: with an answer, with its error or with nothing saved.        *)
LEMMA EndedFacts ==
  ASSUME TypeOK, NEW s \in Syncers, SaveFailure(s) \/ Save(s) \/ Interrupted(s)
  PROVE  /\ sync' \in [Syncers -> Syncs] /\ \A t \in Syncers \ {s} : sync'[t] = sync[t]
         /\ UNCHANGED <<provider, cache>> /\ sync'[s] = Idle /\ sync[s].pc # "idle"
         /\ \/ sync[s].pc = "failed" /\ state' = sync[s].from
            \/ sync[s].pc = "save" /\ state' = sync[s].next
            \/ state' = state
<1>1. Now(s, Idle)
  BY DEF SaveFailure, Save, Interrupted
<1>2. sync' \in [Syncers -> Syncs] /\ sync'[s] = Idle /\ \A t \in Syncers \ {s} : sync'[t] = sync[t]
  BY <1>1, IdleType, NowFacts
<1> QED
  BY <1>2 DEF SaveFailure, Save, Interrupted

(* The rows of an answer are stored, or its removals applied.                *)
LEMMA StoredFacts ==
  ASSUME TypeOK, NEW s \in Syncers, Upsert(s) \/ Delete(s)
  PROVE  /\ sync' \in [Syncers -> Syncs] /\ \A t \in Syncers \ {s} : sync'[t] = sync[t]
         /\ UNCHANGED <<provider, state, used>> /\ sync[s].left # <<>>
         /\ sync'[s].alias = sync[s].alias /\ sync'[s].from = sync[s].from /\ sync'[s].next = sync[s].next
         /\ sync'[s].adds = sync[s].adds /\ sync'[s].dels = sync[s].dels /\ sync'[s].left = sync[s].left
         /\ sync'[s].pages = sync[s].pages
         /\ \/ Upsert(s) /\ sync[s].pc = "upsert" /\ sync'[s].pc = "delete"
            \/ Delete(s) /\ sync[s].pc = "delete" /\ sync'[s].pc = "save"
<1>1. ASSUME NEW pc \in Labels, Now(s, [sync[s] EXCEPT !.pc = pc])
      PROVE  /\ sync' \in [Syncers -> Syncs] /\ \A t \in Syncers \ {s} : sync'[t] = sync[t]
             /\ sync'[s].alias = sync[s].alias /\ sync'[s].from = sync[s].from /\ sync'[s].next = sync[s].next
             /\ sync'[s].adds = sync[s].adds /\ sync'[s].dels = sync[s].dels /\ sync'[s].left = sync[s].left
             /\ sync'[s].pages = sync[s].pages /\ sync'[s].pc = pc
  <2> DEFINE r == Moving(sync[s], pc)
  <2>1. Now(s, r)
    BY <1>1 DEF Moving
  <2>2. sync[s] \in Syncs
    BY DEF TypeOK
  <2>3. /\ r \in Syncs /\ r.pc = pc /\ r.alias = sync[s].alias /\ r.from = sync[s].from /\ r.pages = sync[s].pages
        /\ r.next = sync[s].next /\ r.adds = sync[s].adds /\ r.dels = sync[s].dels /\ r.left = sync[s].left
    BY <2>2, Moved
  <2> HIDE DEF r
  <2>4. sync' \in [Syncers -> Syncs] /\ sync'[s] = r /\ \A t \in Syncers \ {s} : sync'[t] = sync[t]
    BY <2>1, <2>3, NowFacts
  <2> QED
    BY <2>3, <2>4, Zenon
<1>2. "delete" \in Labels /\ "save" \in Labels
  BY DEF Labels
<1>3. CASE Upsert(s)
  <2>1. Now(s, [sync[s] EXCEPT !.pc = "delete"]) /\ UNCHANGED <<provider, state, used>> /\ sync[s].pc = "upsert"
    BY <1>3 DEF Upsert
  <2>2. sync[s].left # <<>>
    BY <2>1 DEF TypeOK
  <2> QED
    BY <1>1, <1>2, <1>3, <2>1, <2>2, Zenon
<1>4. CASE Delete(s)
  <2>1. Now(s, [sync[s] EXCEPT !.pc = "save"]) /\ UNCHANGED <<provider, state, used>> /\ sync[s].pc = "delete"
    BY <1>4 DEF Delete
  <2>2. sync[s].left # <<>>
    BY <2>1 DEF TypeOK
  <2> QED
    BY <1>1, <1>2, <1>4, <2>1, <2>2, Zenon
<1> QED
  BY <1>3, <1>4

-----------------------------------------------------------------------------
(* Type correctness.                                                         *)

(* A batch whose places have a bound has a latest message.                   *)
LEMMA LatestMessage ==
  ASSUME NEW S \in SUBSET [at : Nat, item : Items], NEW m \in Nat, \A a \in S : a.at <= m, S # {}
  PROVE  Latest(S) \in S /\ \A b \in S : b.at <= Latest(S).at
<1> DEFINE Less == OpToRel(<, Nat)
           rest == {m - a.at : a \in S}
<1>1. \A a \in S : a.at \in Nat /\ m - a.at \in Nat
  OBVIOUS
<1>2. rest \subseteq Nat /\ rest # {}
  BY <1>1
<1>3. IsWellFoundedOn(Less, Nat)
  BY NatLessThanWellFounded
<1> HIDE DEF Less
<1>4. PICK k \in rest : \A n \in rest : ~(<<n, k>> \in Less)
  <2> HIDE DEF rest
  <2> QED
    BY <1>2, <1>3, WFMin
<1>5. \A n \in rest : ~(n < k)
  <2>1. \A n \in rest : <<n, k>> \in Less <=> n < k
    BY <1>2 DEF Less, OpToRel
  <2> QED
    BY <1>4, <2>1
<1>6. PICK a \in S : k = m - a.at
  BY DEF rest
<1>7. ASSUME NEW b \in S PROVE b.at <= a.at
  <2>1. ~(m - b.at < m - a.at)
    BY <1>5, <1>6
  <2> QED
    BY <1>1, <2>1
<1> QED
  BY <1>7 DEF Latest

\* The places of an answer have a bound.
Bounded == \A s \in Syncers : \E m \in Nat : \A a \in sync[s].adds : a.at <= m

(* What is stored under an identity is the latest message that bears it.     *)
LEMMA BatchFacts ==
  ASSUME TypeOK, Bounded, NEW s \in Syncers, NEW e \in Exts, NEW dropped, Batch(s, e, dropped) # {}
  PROVE  /\ Latest(Batch(s, e, dropped)) \in Batch(s, e, dropped) /\ Latest(Batch(s, e, dropped)) \in sync[s].adds
         /\ Latest(Batch(s, e, dropped)).item \in Items /\ ExtOf[Latest(Batch(s, e, dropped)).item] = e
         /\ \A b \in Batch(s, e, dropped) : b.at <= Latest(Batch(s, e, dropped)).at
<1>1. sync[s].adds \in SUBSET [at : Nat, item : Items]
  BY DEF TypeOK, Syncs
<1>2. Batch(s, e, dropped) \subseteq sync[s].adds /\ \A a \in Batch(s, e, dropped) : ExtOf[a.item] = e
  BY Zenon DEF Batch
<1>3. PICK m \in Nat : \A a \in sync[s].adds : a.at <= m
  BY DEF Bounded
<1> DEFINE S == Batch(s, e, dropped)
<1>4. S \in SUBSET [at : Nat, item : Items] /\ (\A a \in S : a.at <= m) /\ S # {}
  BY <1>1, <1>2, <1>3
<1> HIDE DEF S
<1>5. Latest(S) \in S /\ \A b \in S : b.at <= Latest(S).at
  BY <1>4, LatestMessage
<1>6. Latest(S).item \in Items
  BY <1>4, <1>5
<1> QED
  BY <1>2, <1>5, <1>6 DEF S

(* What is stored is mail under its own identity.                            *)
LEMMA UpsertType ==
  ASSUME TypeOK, Bounded, NEW s \in Syncers, Upsert(s)
  PROVE  \E dropped \in SUBSET Poor :
         /\ cache' \in [Exts -> [item : Items \union {Nobody}, method : {"graph", "imap", "none"}]]
         /\ \A e \in Exts : cache'[e].item # Nobody => ExtOf[cache'[e].item] = e
         /\ \A e \in Exts : /\ Batch(s, e, dropped) = {} => cache'[e] = cache[e]
                            /\ Batch(s, e, dropped) # {} => /\ cache'[e].item = Latest(Batch(s, e, dropped)).item
                                                            /\ cache'[e].method = Head(sync[s].left)
<1> DEFINE Rows == [item : Items \union {Nobody}, method : {"graph", "imap", "none"}]
           method == Head(sync[s].left)
<1>1. method \in {"graph", "imap"}
  <2>1. sync[s].left \in Methods /\ sync[s].left # <<>>
    BY DEF TypeOK, Upsert, Syncs
  <2>2. Head(<<"graph">>) = "graph" /\ Head(<<"imap">>) = "imap" /\ Head(<<"graph", "imap">>) = "graph"
    OBVIOUS
  <2> QED
    BY <2>1, <2>2 DEF Methods
<1> HIDE DEF method
<1>2. PICK dropped \in SUBSET Poor :
        cache' = [e \in Exts |-> IF Batch(s, e, dropped) = {} THEN cache[e]
                                 ELSE [item |-> Latest(Batch(s, e, dropped)).item, method |-> method]]
  BY DEF Upsert, method
<1>3. ASSUME NEW e \in Exts
      PROVE  /\ cache'[e] \in Rows /\ (cache'[e].item # Nobody => ExtOf[cache'[e].item] = e)
             /\ Batch(s, e, dropped) = {} => cache'[e] = cache[e]
             /\ Batch(s, e, dropped) # {} => cache'[e].item = Latest(Batch(s, e, dropped)).item /\ cache'[e].method = method
  <2>1. CASE Batch(s, e, dropped) = {}
    BY <1>2, <2>1 DEF TypeOK
  <2>2. CASE Batch(s, e, dropped) # {}
    <3>1. Latest(Batch(s, e, dropped)).item \in Items /\ ExtOf[Latest(Batch(s, e, dropped)).item] = e
      BY <2>2, BatchFacts
    <3>2. cache'[e] = [item |-> Latest(Batch(s, e, dropped)).item, method |-> method]
      BY <1>2, <2>2
    <3> QED
      BY <1>1, <2>2, <3>1, <3>2
  <2> QED
    BY <2>1, <2>2
<1>4. cache' = [e \in Exts |-> cache'[e]]
  BY <1>2
<1>5. cache' \in [Exts -> Rows]
  BY <1>3, <1>4
<1> QED
  BY <1>3, <1>5 DEF method

(* What is deleted leaves no row.                                            *)
LEMMA DeleteType ==
  ASSUME TypeOK, NEW s \in Syncers, Delete(s)
  PROVE  /\ cache' \in [Exts -> [item : Items \union {Nobody}, method : {"graph", "imap", "none"}]]
         /\ \A e \in Exts : cache'[e].item # Nobody => cache'[e] = cache[e]
         /\ \A e \in Exts : cache[e].item \notin sync[s].dels => cache'[e] = cache[e]
         /\ \A e \in Exts : cache[e].item \in sync[s].dels /\ cache[e].method = Head(sync[s].left) =>
              cache'[e].item = Nobody
<1> DEFINE Rows == [item : Items \union {Nobody}, method : {"graph", "imap", "none"}]
<1>1. cache' = [e \in Exts |-> IF cache[e].item \in sync[s].dels /\ cache[e].method = Head(sync[s].left) THEN NoRow
                               ELSE cache[e]]
  BY DEF Delete, Doomed
<1>2. NoRow \in Rows /\ NoRow.item = Nobody
  BY DEF NoRow
<1>3. cache \in [Exts -> Rows]
  BY DEF TypeOK
<1> HIDE DEF Rows
<1>4. cache' \in [Exts -> Rows]
  BY <1>1, <1>2, <1>3
<1> QED
  BY <1>1, <1>2, <1>4 DEF Rows

(* Every step keeps the types, and the bounds of the answers.                *)
LEMMA TypeStep ==
  ASSUME TypeOK, Bounded, [Next]_vars
  PROVE  TypeOK' /\ Bounded'
<1>1. CASE UNCHANGED vars
  BY <1>1 DEF vars, TypeOK, Bounded
<1>2. CASE Folder
  BY <1>2, FolderType DEF Bounded
<1>3. ASSUME NEW s \in Syncers, UNCHANGED <<provider, cache>>, state' \in States,
             sync' \in [Syncers -> Syncs], \A t \in Syncers \ {s} : sync'[t] = sync[t],
             sync'[s].pc \in {"ask", "upsert", "delete"} => sync'[s].left # <<>>,
             \E m \in Nat : \A a \in sync'[s].adds : a.at <= m
      PROVE  TypeOK' /\ Bounded'
  <2>1. TypeOK'
    <3>1. used' \in [Events -> Nat]
      BY UsedGrows
    <3>2. \A t \in Syncers : sync'[t].pc \in {"ask", "upsert", "delete"} => sync'[t].left # <<>>
      BY <1>3 DEF TypeOK
    <3>3. /\ methods' \in Offered
          /\ log' \in Seq([item : Items, kind : {"add", "del"}]) /\ uids' \in Seq(Items \union {Nobody})
          /\ epoch' \in [token : Nat, uid : Nat]
          /\ cache' \in [Exts -> [item : Items \union {Nobody}, method : {"graph", "imap", "none"}]]
          /\ \A e \in Exts : cache'[e].item # Nobody => ExtOf[cache'[e].item] = e
      BY <1>3 DEF TypeOK, provider
    <3> QED
      BY <1>3, <3>1, <3>2, <3>3 DEF TypeOK
  <2>2. Bounded'
    BY <1>3 DEF Bounded
  <2> QED
    BY <2>1, <2>2
<1>4. NoState \in States /\ Idle.adds = {} /\ Idle.pc = "idle"
  BY IdleType DEF Idle
<1>5. ASSUME NEW s \in Syncers, Begin(s) PROVE TypeOK' /\ Bounded'
  <2>1. \E m \in Nat : \A a \in sync'[s].adds : a.at <= m
    BY <1>5, BeginFacts
  <2>2. /\ sync' \in [Syncers -> Syncs] /\ \A t \in Syncers \ {s} : sync'[t] = sync[t]
        /\ UNCHANGED <<provider, cache, state>> /\ sync'[s].left # <<>>
    BY <1>5, BeginFacts, Zenon
  <2> QED
    BY <1>3, <2>1, <2>2 DEF TypeOK
<1>6. ASSUME NEW s \in Syncers, GraphPage(s) PROVE TypeOK' /\ Bounded'
  <2>1. PICK token \in Tokens, last \in Nat :
         /\ token = GraphToken(s)
         /\ sync' \in [Syncers -> Syncs] /\ \A t \in Syncers \ {s} : sync'[t] = sync[t]
         /\ UNCHANGED <<provider, cache, state, used>>
         /\ sync[s].pc = "ask" /\ sync[s].left # <<>> /\ Head(sync[s].left) = "graph" /\ token.epoch = epoch.token
         /\ last <= Len(log) /\ (token.pos <= Len(log) => token.pos <= last)
         /\ sync'[s].pc \in {"ask", "upsert"} /\ sync'[s].left = sync[s].left /\ sync'[s].from = sync[s].from
         /\ sync'[s].alias = sync[s].alias /\ sync'[s].pages > 0
         /\ sync'[s].next = [cursor |-> [pos |-> last, since |-> token.since, epoch |-> epoch.token],
                             validity |-> 0, high |-> 0]
         /\ \A a : a \in sync'[s].adds <=>
              \/ a \in sync[s].adds
              \/ \E n \in token.pos + 1 .. last : log[n].kind = "add" /\ Last(n) /\ a = [at |-> n, item |-> log[n].item]
         /\ \A i : i \in sync'[s].dels <=>
              \/ i \in sync[s].dels
              \/ \E n \in token.pos + 1 .. last : /\ log[n].kind = "del" /\ Last(n) /\ n > token.since
                                                  /\ i = log[n].item
    BY <1>6, PageFacts
  <2>2. \E m \in Nat : \A a \in sync'[s].adds : a.at <= m
    <3>1. PICK m \in Nat : \A a \in sync[s].adds : a.at <= m
      BY DEF Bounded
    <3>2. \A a \in sync[s].adds : a.at \in Nat
      BY DEF TypeOK, Syncs
    <3>3. m + last \in Nat /\ token.pos \in Nat
      BY DEF Tokens
    <3>4. \A a \in sync'[s].adds : a.at <= m + last
      BY <2>1, <3>1, <3>2, <3>3
    <3> QED
      BY <3>3, <3>4
  <2> QED
    BY <1>3, <2>1, <2>2 DEF TypeOK
<1>7. ASSUME NEW s \in Syncers, ImapSearch(s) PROVE TypeOK' /\ Bounded'
  <2>1. /\ sync' \in [Syncers -> Syncs] /\ \A t \in Syncers \ {s} : sync'[t] = sync[t]
        /\ UNCHANGED <<provider, cache, state, used>> /\ sync[s].left # <<>> /\ sync'[s].left = sync[s].left
        /\ \A a \in sync'[s].adds : a.at \in 1 .. Len(uids)
    BY <1>7, SearchFacts
  <2>2. Len(uids) \in Nat
    BY DEF TypeOK
  <2>3. \E m \in Nat : \A a \in sync'[s].adds : a.at <= m
    BY <2>1, <2>2
  <2> QED
    BY <1>3, <2>1, <2>3 DEF TypeOK
<1>8. ASSUME NEW s \in Syncers, Refused(s) \/ Failure(s) PROVE TypeOK' /\ Bounded'
  <2>1. /\ sync' \in [Syncers -> Syncs] /\ \A t \in Syncers \ {s} : sync'[t] = sync[t]
        /\ UNCHANGED <<provider, cache, state>> /\ sync'[s].adds \in {sync[s].adds, {}}
        /\ sync'[s].pc \in {"ask", "failed"} /\ (sync'[s].pc = "ask" => sync'[s].left # <<>>)
    BY <1>8, DroppedFacts
  <2>2. \E m \in Nat : \A a \in sync'[s].adds : a.at <= m
    BY <2>1 DEF Bounded
  <2> QED
    BY <1>3, <2>1, <2>2 DEF TypeOK
<1>9. ASSUME NEW s \in Syncers, SaveFailure(s) \/ Save(s) \/ Interrupted(s) PROVE TypeOK' /\ Bounded'
  <2>1. /\ sync' \in [Syncers -> Syncs] /\ \A t \in Syncers \ {s} : sync'[t] = sync[t]
        /\ UNCHANGED <<provider, cache>> /\ sync'[s] = Idle /\ state' \in {state, sync[s].from, sync[s].next}
    BY <1>9, EndedFacts
  <2>2. state' \in States
    BY <2>1 DEF TypeOK, Syncs
  <2>3. \E m \in Nat : \A a \in sync'[s].adds : a.at <= m
    BY <1>4, <2>1
  <2> QED
    BY <1>3, <1>4, <2>1, <2>2, <2>3
<1>10. ASSUME NEW s \in Syncers, Upsert(s) \/ Delete(s) PROVE TypeOK' /\ Bounded'
  <2>1. /\ sync' \in [Syncers -> Syncs] /\ \A t \in Syncers \ {s} : sync'[t] = sync[t]
        /\ UNCHANGED <<provider, state, used>> /\ sync[s].left # <<>> /\ sync'[s].left = sync[s].left
        /\ sync'[s].adds = sync[s].adds
    BY <1>10, StoredFacts
  <2>2. /\ cache' \in [Exts -> [item : Items \union {Nobody}, method : {"graph", "imap", "none"}]]
        /\ \A e \in Exts : cache'[e].item # Nobody => ExtOf[cache'[e].item] = e
    BY <1>10, UpsertType, DeleteType DEF TypeOK
  <2>3. \A t \in Syncers : sync'[t].pc \in {"ask", "upsert", "delete"} => sync'[t].left # <<>>
    BY <2>1 DEF TypeOK
  <2>4. \A t \in Syncers : sync'[t].adds = sync[t].adds
    BY <2>1
  <2>5. Bounded'
    BY <2>4 DEF Bounded
  <2> QED
    BY <2>1, <2>2, <2>3, <2>5 DEF TypeOK, provider
<1> QED
  BY <1>1, <1>2, <1>5, <1>6, <1>7, <1>8, <1>9, <1>10 DEF Next, Step

(* What holds at the start.                                                  *)
LEMMA TypeInit ==
  ASSUME Init
  PROVE  TypeOK /\ Bounded
<1>1. log \in Seq([item : Items, kind : {"add", "del"}]) /\ uids \in Seq(Items \union {Nobody})
  <2>1. \A S : <<>> \in Seq(S)
    OBVIOUS
  <2> QED
    BY <2>1 DEF Init
<1>2. cache \in [Exts -> [item : Items \union {Nobody}, method : {"graph", "imap", "none"}]]
      /\ \A e \in Exts : cache[e].item = Nobody
  BY DEF Init, NoRow
<1>3. Idle.pc = "idle" /\ Idle.adds = {}
  BY DEF Idle
<1>4. sync \in [Syncers -> Syncs] /\ \A s \in Syncers : sync[s].pc = "idle" /\ sync[s].adds = {}
  BY <1>3, IdleType DEF Init
<1>5. Bounded
  BY <1>4 DEF Bounded
<1> QED
  BY <1>1, <1>2, <1>4, <1>5, IdleType DEF Init, TypeOK

(* Every variable always has its type: mail is cached under its own identity *)
(* and a Sync that asks, stores or deletes has a method to ask.              *)
THEOREM TypeCorrect == Spec => []TypeOK
<1>1. Init => TypeOK /\ Bounded
  BY TypeInit
<1>2. TypeOK /\ Bounded /\ [Next]_vars => (TypeOK /\ Bounded)'
  BY TypeStep
<1> QED
  BY <1>1, <1>2, PTL DEF Spec

-----------------------------------------------------------------------------
(* The cursors and the folder.                                               *)

\* Cursors that the folder has issued.
Grounded(st) ==
  /\ st.cursor.pos <= Len(log) /\ st.cursor.epoch <= epoch.token /\ st.validity <= epoch.uid
  /\ st.validity = 0 => st.high = 0
  /\ st.validity = epoch.uid => st.high <= Len(uids)

\* An item that can be read and whose arrival, still its last change, lies behind
\* the delta cursor, or whose UID is at or under the highest one.
ToldOf(st, i) ==
  /\ ~Lossy /\ st.cursor.epoch = epoch.token
  /\ \E n \in 1 .. st.cursor.pos : log[n] = [item |-> i, kind |-> "add"] /\ Last(n)
Numbered(st, i) ==
  used["alias"] = 0 /\ st.validity = epoch.uid /\ \E u \in DOMAIN uids : u <= st.high /\ uids[u] = i
Covers(st, i) == i \notin Poor /\ (ToldOf(st, i) \/ Numbered(st, i))

\* An item whose removal, still its last change, lies behind the delta cursor
\* and is one its enumeration tells.
Forgets(st, i) ==
  /\ st.cursor.epoch = epoch.token
  /\ \E n \in st.cursor.since + 1 .. st.cursor.pos : log[n] = [item |-> i, kind |-> "del"] /\ Last(n)

(* The fields of the cursors.                                                *)
LEMMA StateType ==
  ASSUME NEW st \in States
  PROVE  /\ st.cursor.pos \in Nat /\ st.cursor.since \in Nat /\ st.cursor.epoch \in Nat
         /\ st.validity \in Nat /\ st.high \in Nat
BY DEF States, Tokens

(* Cursors cover mail that is in the folder and forget mail that is not.     *)
LEMMA CoversBox ==
  ASSUME TypeOK, FolderInv, NEW st \in States, Grounded(st), NEW i \in Items
  PROVE  (Covers(st, i) => i \in Box) /\ (Forgets(st, i) => i \notin Box)
<1>1. ToldOf(st, i) => i \in Box
  BY LogType, StateType DEF ToldOf, Box, Grounded
<1>2. Numbered(st, i) => i \in Box
  BY ItemsAssumption DEF Numbered, FolderInv
<1>3. Forgets(st, i) => i \notin Box
  <2>1. SUFFICES ASSUME NEW n \in st.cursor.since + 1 .. st.cursor.pos,
                        log[n] = [item |-> i, kind |-> "del"], Last(n)
                 PROVE  i \notin Box
    BY DEF Forgets
  <2>2. n \in 1 .. Len(log)
    BY LogType, StateType DEF Grounded
  <2> QED
    BY <2>1, <2>2, LastChange
<1> QED
  BY <1>1, <1>2, <1>3 DEF Covers

(* What happens in the folder lies before no cursor, and adds nothing to     *)
(* what the cursors cover and forget.                                        *)
LEMMA FolderCovers ==
  ASSUME TypeOK, FolderInv, Folder, NEW st \in States, Grounded(st)
  PROVE  /\ Grounded(st)'
         /\ \A i \in Items : /\ Covers(st, i)' => Covers(st, i)
                             /\ Forgets(st, i)' => Forgets(st, i)
                             /\ Left(i) => Left(i)'
<1>0. /\ st.cursor.pos \in Nat /\ st.cursor.since \in Nat /\ st.cursor.epoch \in Nat
      /\ st.validity \in Nat /\ st.high \in Nat
      /\ Len(log) \in Nat /\ Len(uids) \in Nat /\ DOMAIN uids = 1 .. Len(uids)
      /\ epoch.token \in Nat /\ epoch.uid \in Nat
      /\ st.cursor.pos <= Len(log) /\ st.cursor.epoch <= epoch.token /\ st.validity <= epoch.uid
      /\ (st.validity = 0 => st.high = 0) /\ (st.validity = epoch.uid => st.high <= Len(uids))
  BY StateType, LogType, Generations DEF TypeOK, Grounded
<1>1. \A e \in Events : used'[e] = 0 => used[e] = 0
  BY UsedGrows DEF Next, TypeOK
<1>2. (~Lossy)' => ~Lossy
  <2>1. used["alias"] \in Nat /\ used["return"] \in Nat /\ used'["alias"] \in Nat /\ used'["return"] \in Nat
    BY UsedGrows DEF Next, TypeOK, Events
  <2> QED
    BY <1>1, <2>1 DEF Lossy, Events
<1>3. used'["alias"] = 0 => used["alias"] = 0
  BY <1>1 DEF Events
<1>4. ASSUME NEW j \in Items, NEW k \in {"add", "del"}, log' = Append(log, [item |-> j, kind |-> k]), epoch' = epoch
      PROVE  /\ st.cursor.pos <= Len(log') /\ st.cursor.epoch <= epoch'.token
             /\ \A i \in Items : (ToldOf(st, i)' => ToldOf(st, i)) /\ (Forgets(st, i)' => Forgets(st, i))
                                 /\ (Left(i) => Left(i)')
  <2>1. /\ Len(log') = Len(log) + 1
        /\ \A n \in 1 .. Len(log) : log'[n] = log[n] /\ (Last(n)' => Last(n))
    BY <1>4, AppendLast
  <2>2. \A n \in 1 .. st.cursor.pos : n \in 1 .. Len(log)
    BY <1>0
  <2>3. \A n \in st.cursor.since + 1 .. st.cursor.pos : n \in 1 .. Len(log)
    BY <1>0
  <2>4. \A i \in Items : ToldOf(st, i)' => ToldOf(st, i)
    BY <1>2, <1>4, <2>1, <2>2 DEF ToldOf
  <2>5. \A i \in Items : Forgets(st, i)' => Forgets(st, i)
    BY <1>4, <2>1, <2>3 DEF Forgets
  <2>6. \A i \in Items : Left(i) => Left(i)'
    BY <1>4, AppendBox
  <2> QED
    BY <1>0, <1>4, <2>1, <2>4, <2>5, <2>6
<1>5. ASSUME NEW j \in Items, Arrive(j)
      PROVE  Grounded(st)' /\ \A i \in Items : Numbered(st, i)' => Numbered(st, i)
  <2>1. /\ Len(uids') = Len(uids) + 1 /\ DOMAIN uids' = 1 .. Len(uids) + 1 /\ epoch' = epoch
        /\ \A u \in 1 .. Len(uids) : uids'[u] = uids[u]
        /\ log' = Append(log, [item |-> j, kind |-> "add"])
    BY <1>5 DEF Arrive, TypeOK
  <2>2. Grounded(st)'
    BY <1>0, <1>4, <2>1 DEF Grounded
  <2>3. ASSUME NEW i \in Items, Numbered(st, i)' PROVE Numbered(st, i)
    <3>1. PICK u \in 1 .. Len(uids) + 1 : u <= st.high /\ uids'[u] = i
      BY <2>1, <2>3 DEF Numbered
    <3>2. st.validity = epoch.uid /\ used["alias"] = 0
      BY <1>3, <2>1, <2>3 DEF Numbered
    <3>3. u \in 1 .. Len(uids)
      BY <1>0, <3>1, <3>2
    <3> QED
      BY <1>0, <2>1, <3>1, <3>2, <3>3 DEF Numbered
  <2> QED
    BY <2>2, <2>3
<1>6. ASSUME NEW j \in Items, Leave(j)
      PROVE  Grounded(st)' /\ \A i \in Items : Numbered(st, i)' => Numbered(st, i)
  <2>1. /\ DOMAIN uids' = DOMAIN uids /\ epoch' = epoch
        /\ \A u \in 1 .. Len(uids) : uids'[u] = IF uids[u] = j THEN Nobody ELSE uids[u]
        /\ log' = Append(log, [item |-> j, kind |-> "del"])
    BY <1>0, <1>6 DEF Leave
  <2>2. Len(uids') = Len(uids)
    <3>1. uids' = [u \in 1 .. Len(uids) |-> IF uids[u] = j THEN Nobody ELSE uids[u]]
      BY <1>0, <1>6 DEF Leave
    <3> QED
      BY <1>0, <3>1
  <2>3. Grounded(st)'
    BY <1>0, <1>4, <2>1, <2>2 DEF Grounded
  <2>4. ASSUME NEW i \in Items, Numbered(st, i)' PROVE Numbered(st, i)
    BY <1>0, <1>3, <2>1, <2>4, ItemsAssumption DEF Numbered
  <2> QED
    BY <2>3, <2>4
<1>7. ASSUME Expire PROVE Grounded(st)' /\ \A i \in Items : ~ToldOf(st, i)' /\ ~Forgets(st, i)'
                                                           /\ (Numbered(st, i)' => Numbered(st, i))
  <2>1. epoch'.token = epoch.token + 1 /\ epoch'.uid = epoch.uid /\ log' = log /\ uids' = uids
    BY <1>7, Generations DEF Expire
  <2>2. Grounded(st)'
    BY <1>0, <2>1 DEF Grounded
  <2>3. st.cursor.epoch # epoch'.token
    BY <1>0, <2>1
  <2> QED
    BY <1>3, <2>1, <2>2, <2>3 DEF ToldOf, Forgets, Numbered
<1>8. ASSUME Renumber PROVE Grounded(st)' /\ \A i \in Items : ~Numbered(st, i)' /\ (ToldOf(st, i)' => ToldOf(st, i))
                                                             /\ (Forgets(st, i)' => Forgets(st, i))
  <2>1. epoch'.token = epoch.token /\ epoch'.uid = epoch.uid + 1 /\ log' = log
    BY <1>8, Generations DEF Renumber
  <2>2. st.validity # epoch'.uid
    BY <1>0, <2>1
  <2>3. Grounded(st)'
    BY <1>0, <2>1, <2>2 DEF Grounded
  <2> QED
    BY <1>2, <2>1, <2>2, <2>3 DEF ToldOf, Forgets, Numbered, Last
<1>9. CASE Expire
  <2>1. log' = log
    BY <1>9 DEF Expire
  <2> QED
    BY <1>7, <1>9, <2>1 DEF Covers, Left
<1>10. CASE Renumber
  <2>1. log' = log
    BY <1>10 DEF Renumber
  <2> QED
    BY <1>8, <1>10, <2>1 DEF Covers, Left
<1>11. ASSUME NEW j \in Items, Arrive(j)
       PROVE  Grounded(st)' /\ \A i \in Items : /\ Covers(st, i)' => Covers(st, i)
                                                /\ Forgets(st, i)' => Forgets(st, i)
                                                /\ Left(i) => Left(i)'
  <2>1. log' = Append(log, [item |-> j, kind |-> "add"]) /\ epoch' = epoch
    BY <1>11 DEF Arrive
  <2> QED
    BY <1>4, <1>5, <1>11, <2>1 DEF Covers
<1>12. ASSUME NEW j \in Items, Leave(j)
       PROVE  Grounded(st)' /\ \A i \in Items : /\ Covers(st, i)' => Covers(st, i)
                                                /\ Forgets(st, i)' => Forgets(st, i)
                                                /\ Left(i) => Left(i)'
  <2>1. log' = Append(log, [item |-> j, kind |-> "del"]) /\ epoch' = epoch
    BY <1>12 DEF Leave
  <2> QED
    BY <1>4, <1>6, <1>12, <2>1 DEF Covers
<1> QED
  BY <1>9, <1>10, <1>11, <1>12 DEF Folder

-----------------------------------------------------------------------------
(* What a Sync knows.                                                        *)

Active(s) == sync[s].pc # "idle"
\* The mutex of the one process.
SoleSync == \A s, t \in Syncers : Active(s) /\ Active(t) => s = t

\* A Sync goes out from the saved cursors or from none; what its pages have said
\* lies behind their last link.
SyncInv(s) ==
  /\ Grounded(sync[s].from) /\ Grounded(sync[s].next) /\ sync[s].from \in {state, NoState}
  /\ sync[s].alias => used["alias"] > 0
  /\ sync[s].pc = "idle" => sync[s] = Idle
  /\ sync[s].pc = "ask" => \A a \in sync[s].adds : a.at <= sync[s].next.cursor.pos
  /\ sync[s].pc = "ask" /\ sync[s].pages = 0 => sync[s].adds = {} /\ sync[s].dels = {}
  /\ sync[s].pc = "ask" /\ sync[s].pages # 0 => Head(sync[s].left) = "graph"
  /\ \A i \in sync[s].dels : Left(i)

BookInv == TypeOK /\ Bounded /\ FolderInv /\ SoleSync /\ Grounded(state) /\ \A s \in Syncers : SyncInv(s)

(* The empty state and the caller that is idle.                              *)
LEMMA IdleFields ==
  /\ NoState.cursor = NoCursor /\ NoCursor.pos = 0 /\ NoCursor.since = 0 /\ NoCursor.epoch = 0
  /\ NoState.validity = 0 /\ NoState.high = 0
  /\ Idle.pc = "idle" /\ Idle.from = NoState /\ Idle.next = NoState /\ Idle.pages = 0
  /\ Idle.adds = {} /\ Idle.dels = {} /\ ~Idle.alias
<1>1. /\ Idle.pc = "idle" /\ Idle.from = NoState /\ Idle.next = NoState /\ Idle.pages = 0
      /\ Idle.adds = {} /\ Idle.dels = {}
  BY DEF Idle
<1>2. Idle.alias = FALSE
  BY DEF Idle
<1>3. /\ NoState.cursor = NoCursor /\ NoCursor.pos = 0 /\ NoCursor.since = 0 /\ NoCursor.epoch = 0
      /\ NoState.validity = 0 /\ NoState.high = 0
  BY DEF NoState, NoCursor
<1> QED
  BY <1>1, <1>2, <1>3

(* No cursor is one the folder has issued, and covers and forgets nothing.   *)
LEMMA NoStateCovers ==
  ASSUME TypeOK, FolderInv
  PROVE  Grounded(NoState) /\ \A i \in Items : ~Covers(NoState, i) /\ ~Forgets(NoState, i)
<1>1. /\ epoch.token \in Nat /\ epoch.uid \in Nat /\ epoch.token > 0 /\ epoch.uid > 0
      /\ Len(log) \in Nat /\ Len(uids) \in Nat
  BY Generations, LogType DEF FolderInv, TypeOK
<1>2. Grounded(NoState)
  BY <1>1, IdleFields DEF Grounded
<1>3. ASSUME NEW i \in Items PROVE ~Covers(NoState, i) /\ ~Forgets(NoState, i)
  <2>1. NoState.cursor.epoch # epoch.token /\ NoState.validity # epoch.uid
    BY <1>1, IdleFields
  <2> QED
    BY <2>1 DEF Covers, ToldOf, Numbered, Forgets
<1> QED
  BY <1>2, <1>3

(* A caller that makes no step keeps what it knows.                          *)
LEMMA OtherSync ==
  ASSUME TypeOK, [Next]_vars, UNCHANGED provider, NEW t \in Syncers, SyncInv(t), sync'[t] = sync[t],
         state' = state \/ ~Active(t)
  PROVE  SyncInv(t)'
<1>1. log' = log /\ uids' = uids /\ epoch' = epoch
  BY DEF provider
<1>2. used["alias"] \in Nat /\ used'["alias"] \in Nat /\ used'["alias"] >= used["alias"]
  BY UsedGrows DEF TypeOK, Events
<1>3. sync'[t].from \in {state', NoState}
  BY IdleFields DEF SyncInv, Active
<1>4. sync'[t].alias => used'["alias"] > 0
  <2>1. sync[t].alias => used["alias"] > 0
    BY DEF SyncInv
  <2>2. used["alias"] > 0 => used'["alias"] > 0
    BY <1>2
  <2> QED
    BY <2>1, <2>2, Zenon
<1>5. Grounded(sync[t].from)' /\ Grounded(sync[t].next)'
  BY <1>1 DEF SyncInv, Grounded
<1>6. \A i \in sync'[t].dels : Left(i)'
  BY <1>1 DEF SyncInv, Left
<1>7. /\ sync'[t].pc = "idle" => sync'[t] = Idle
      /\ sync'[t].pc = "ask" => \A a \in sync'[t].adds : a.at <= sync'[t].next.cursor.pos
      /\ sync'[t].pc = "ask" /\ sync'[t].pages = 0 => sync'[t].adds = {} /\ sync'[t].dels = {}
      /\ sync'[t].pc = "ask" /\ sync'[t].pages # 0 => Head(sync'[t].left) = "graph"
  BY DEF SyncInv
<1> QED
  BY <1>3, <1>4, <1>5, <1>6, <1>7 DEF SyncInv

(* The caller that makes a step is the one that is active, and the others    *)
(* are idle.                                                                 *)
LEMMA SoleStep ==
  ASSUME OneProcess, BookInv, [Next]_vars, NEW s \in Syncers,
         sync' \in [Syncers -> Syncs], \A t \in Syncers \ {s} : sync'[t] = sync[t],
         Active(s) \/ \A t \in Syncers : ~Active(t)
  PROVE  SoleSync' /\ \A t \in Syncers \ {s} : ~Active(t) /\ sync[t] = Idle /\ sync'[t] = Idle
<1>1. \A t \in Syncers \ {s} : ~Active(t)
  BY DEF BookInv, SoleSync
<1>2. \A t \in Syncers \ {s} : sync[t] = Idle
  BY <1>1 DEF BookInv, SyncInv, Active
<1>3. \A t \in Syncers \ {s} : ~(Active(t)')
  BY <1>1 DEF Active
<1>4. SoleSync'
  BY <1>3 DEF SoleSync
<1> QED
  BY <1>1, <1>2, <1>4

(* The folder changes.                                                       *)
LEMMA FolderBook ==
  ASSUME BookInv, Folder
  PROVE  BookInv'
<1>1. TypeOK' /\ Bounded' /\ UNCHANGED <<methods, cache, state, sync>>
  BY FolderType, TypeStep DEF BookInv, Next
<1>2. FolderInv'
  BY ArriveFolder, LeaveFolder, EpochFolder DEF BookInv, Folder
<1>3. SoleSync'
  BY <1>1 DEF BookInv, SoleSync, Active
<1>4. Grounded(state)'
  <2>1. state \in States
    BY DEF BookInv, TypeOK
  <2>2. PICK st \in States : st = state
    BY <2>1
  <2>3. Grounded(st)'
    BY <2>2, FolderCovers DEF BookInv
  <2> QED
    BY <1>1, <2>2, <2>3 DEF Grounded
<1>5. ASSUME NEW s \in Syncers PROVE SyncInv(s)'
  <2>0. SyncInv(s) /\ sync[s].from \in States /\ sync[s].next \in States
    BY DEF BookInv, TypeOK, Syncs
  <2>1. PICK from \in States : from = sync[s].from
    BY <2>0
  <2>2. PICK next \in States : next = sync[s].next
    BY <2>0
  <2>3. Grounded(from)' /\ Grounded(next)'
    BY <2>0, <2>1, <2>2, FolderCovers DEF BookInv, SyncInv
  <2>4. Grounded(sync[s].from)' /\ Grounded(sync[s].next)'
    BY <1>1, <2>1, <2>2, <2>3 DEF Grounded
  <2>5. \A i \in sync'[s].dels : Left(i)'
    <3>1. sync[s].dels \subseteq Items /\ state \in States /\ Grounded(state)
      BY DEF BookInv, TypeOK, Syncs
    <3> QED
      BY <1>1, <2>0, <2>1, <3>1, FolderCovers DEF BookInv, SyncInv
  <2>6. sync'[s].alias => used'["alias"] > 0
    <3>1. used["alias"] \in Nat /\ used'["alias"] \in Nat /\ used'["alias"] >= used["alias"]
      BY UsedGrows DEF BookInv, TypeOK, Events, Next
    <3>2. used["alias"] > 0 => used'["alias"] > 0
      BY <3>1
    <3>3. sync[s].alias => used["alias"] > 0
      BY <2>0 DEF SyncInv
    <3> QED
      BY <1>1, <3>2, <3>3, Zenon
  <2>7. /\ sync'[s].from \in {state', NoState}
        /\ sync'[s].pc = "idle" => sync'[s] = Idle
        /\ sync'[s].pc = "ask" => \A a \in sync'[s].adds : a.at <= sync'[s].next.cursor.pos
        /\ sync'[s].pc = "ask" /\ sync'[s].pages = 0 => sync'[s].adds = {} /\ sync'[s].dels = {}
        /\ sync'[s].pc = "ask" /\ sync'[s].pages # 0 => Head(sync'[s].left) = "graph"
    BY <1>1, <2>0 DEF SyncInv
  <2> QED
    BY <2>4, <2>5, <2>6, <2>7 DEF SyncInv
<1> QED
  BY <1>1, <1>2, <1>3, <1>4, <1>5 DEF BookInv

(* The step of a caller keeps the folder and what the others know.           *)
LEMMA CallerBook ==
  ASSUME OneProcess, BookInv, [Next]_vars, NEW s \in Syncers, UNCHANGED provider,
         sync' \in [Syncers -> Syncs], \A t \in Syncers \ {s} : sync'[t] = sync[t],
         Active(s) \/ \A t \in Syncers : ~Active(t),
         state' \in {state, sync[s].from, sync[s].next}, SyncInv(s)'
  PROVE  BookInv' /\ \A t \in Syncers \ {s} : ~Active(t) /\ sync[t] = Idle /\ sync'[t] = Idle
<1>1. SoleSync' /\ \A t \in Syncers \ {s} : ~Active(t) /\ sync[t] = Idle /\ sync'[t] = Idle
  BY SoleStep
<1>2. TypeOK' /\ Bounded'
  BY TypeStep DEF BookInv
<1>3. log' = log /\ uids' = uids /\ epoch' = epoch
  BY DEF provider
<1>4. FolderInv'
  <2>1. used'["return"] = 0 => used["return"] = 0
    BY StillUnused DEF BookInv, Events
  <2>2. Box' = Box /\ \A i \in Items : (Left(i)' <=> Left(i)) /\ (Arrived(i)' <=> Arrived(i))
    BY <1>3 DEF Box, Left, Arrived, Last
  <2>3. /\ \A i, j \in Box : ExtOf[i] = ExtOf[j] => i = j
        /\ \A u \in DOMAIN uids : uids[u] # Nobody => uids[u] \in Box
        /\ \A u, v \in DOMAIN uids : uids[u] = uids[v] /\ uids[u] # Nobody => u = v
        /\ \A i \in Items : Left(i) => Arrived(i)
        /\ used["return"] = 0 => \A i \in Box : ~Left(i)
        /\ epoch.token > 0 /\ epoch.uid > 0 /\ Box \subseteq Items
    BY DEF BookInv, FolderInv, Box
  <2> QED
    BY <1>3, <2>1, <2>2, <2>3 DEF FolderInv
<1>5. Grounded(state)'
  <2>1. Grounded(state) /\ Grounded(sync[s].from) /\ Grounded(sync[s].next)
    BY DEF BookInv, SyncInv
  <2> QED
    BY <1>3, <2>1 DEF Grounded
<1>6. ASSUME NEW t \in Syncers \ {s} PROVE SyncInv(t)'
  <2>1. TypeOK /\ SyncInv(t) /\ sync'[t] = sync[t] /\ ~Active(t)
    BY <1>1 DEF BookInv
  <2> QED
    BY <2>1, OtherSync
<1> QED
  BY <1>1, <1>2, <1>4, <1>5, <1>6 DEF BookInv

(* A Sync begins.                                                            *)
LEMMA BeginBook ==
  ASSUME OneProcess, BookInv, NEW s \in Syncers, Begin(s)
  PROVE  BookInv' /\ \A t \in Syncers \ {s} : sync[t] = Idle /\ sync'[t] = Idle
<1>0. TypeOK /\ FolderInv /\ Grounded(state) /\ [Next]_vars
  BY DEF BookInv, Next
<1>1. /\ sync' \in [Syncers -> Syncs] /\ \A t \in Syncers \ {s} : sync'[t] = sync[t]
      /\ UNCHANGED <<provider, cache, state>> /\ \A t \in Syncers : sync[t].pc = "idle"
      /\ sync'[s].pc = "ask" /\ sync'[s].from = state /\ sync'[s].next = NoState /\ sync'[s].pages = 0
      /\ sync'[s].adds = {} /\ sync'[s].dels = {}
  BY <1>0, BeginFacts
<1>2. sync'[s].alias => used'["alias"] > 0
  BY <1>0, BeginFacts, Zenon
<1>4. SyncInv(s)'
  <2>1. Grounded(sync[s].from)' /\ Grounded(sync[s].next)'
    <3>1. log' = log /\ uids' = uids /\ epoch' = epoch /\ state' = state
      BY <1>1 DEF provider
    <3>2. Grounded(state) /\ Grounded(NoState)
      BY <1>0, NoStateCovers
    <3> QED
      BY <1>1, <3>1, <3>2 DEF Grounded
  <2>2. sync'[s].from \in {state', NoState}
    BY <1>1
  <2>3. sync'[s].dels = {} /\ sync'[s].adds = {} /\ sync'[s].pages = 0 /\ sync'[s].pc = "ask"
    BY <1>1
  <2> QED
    BY <1>2, <2>1, <2>2, <2>3 DEF SyncInv
<1> QED
  BY <1>0, <1>1, <1>4, CallerBook DEF Active

(* A page keeps what a Sync knows.                                           *)
LEMMA PageBook ==
  ASSUME OneProcess, BookInv, NEW s \in Syncers, GraphPage(s)
  PROVE  BookInv' /\ \A t \in Syncers \ {s} : sync[t] = Idle /\ sync'[t] = Idle
<1>0. TypeOK /\ FolderInv /\ Grounded(state) /\ SyncInv(s) /\ [Next]_vars
  BY DEF BookInv, Next, Step
<1>1. PICK token \in Tokens, last \in Nat :
       /\ token = GraphToken(s)
       /\ sync' \in [Syncers -> Syncs] /\ \A t \in Syncers \ {s} : sync'[t] = sync[t]
       /\ UNCHANGED <<provider, cache, state, used>>
       /\ sync[s].pc = "ask" /\ sync[s].left # <<>> /\ Head(sync[s].left) = "graph" /\ token.epoch = epoch.token
       /\ last <= Len(log) /\ (token.pos <= Len(log) => token.pos <= last)
       /\ sync'[s].pc \in {"ask", "upsert"} /\ sync'[s].left = sync[s].left /\ sync'[s].from = sync[s].from
       /\ sync'[s].alias = sync[s].alias /\ sync'[s].pages > 0
       /\ sync'[s].next = [cursor |-> [pos |-> last, since |-> token.since, epoch |-> epoch.token],
                             validity |-> 0, high |-> 0]
       /\ \A a : a \in sync'[s].adds <=>
            \/ a \in sync[s].adds
            \/ \E n \in token.pos + 1 .. last : log[n].kind = "add" /\ Last(n) /\ a = [at |-> n, item |-> log[n].item]
       /\ \A i : i \in sync'[s].dels <=>
            \/ i \in sync[s].dels
            \/ \E n \in token.pos + 1 .. last : /\ log[n].kind = "del" /\ Last(n) /\ n > token.since
                                                /\ i = log[n].item
  BY <1>0, PageFacts
<1>2. log' = log /\ uids' = uids /\ epoch' = epoch /\ state' = state /\ used' = used
  BY <1>1 DEF provider
<1>3. /\ Len(log) \in Nat /\ Len(uids) \in Nat /\ epoch.token \in Nat /\ epoch.uid \in Nat /\ epoch.uid > 0
      /\ token.pos \in Nat /\ token.since \in Nat
  BY <1>0, LogType, Generations DEF TypeOK, FolderInv, Tokens
<1>4. token.pos <= Len(log)
  <2>1. Grounded(sync[s].from) /\ Grounded(sync[s].next)
    BY <1>0 DEF SyncInv
  <2>2. Token(0, Len(log)).pos = 0
    BY DEF Token
  <2> QED
    BY <1>1, <1>3, <2>1, <2>2 DEF GraphToken, Grounded
<1>5. Grounded(sync[s].from)' /\ Grounded(sync[s].next)'
  <2>1. Grounded(sync[s].from)
    BY <1>0 DEF SyncInv
  <2>2. Grounded(sync[s].from)'
    BY <1>1, <1>2, <2>1 DEF Grounded
  <2>3. /\ sync'[s].next.cursor.pos = last /\ sync'[s].next.cursor.epoch = epoch.token
        /\ sync'[s].next.validity = 0 /\ sync'[s].next.high = 0
    BY <1>1
  <2>4. Grounded(sync[s].next)'
    BY <1>1, <1>2, <1>3, <2>3 DEF Grounded
  <2> QED
    BY <2>2, <2>4
<1>6. \A a \in sync'[s].adds : a.at <= sync'[s].next.cursor.pos
  <2>1. \A a \in sync[s].adds : a.at <= token.pos
    <3>1. CASE sync[s].pages = 0
      BY <1>0, <1>1, <3>1 DEF SyncInv
    <3>2. CASE sync[s].pages # 0
      <4>1. sync[s].pages > 0
        BY <1>0, <3>2 DEF TypeOK, Syncs
      <4>2. token = sync[s].next.cursor
        BY <1>1, <4>1 DEF GraphToken
      <4> QED
        BY <1>0, <1>1, <4>2 DEF SyncInv
    <3> QED
      BY <3>1, <3>2
  <2>2. \A a \in sync[s].adds : a.at \in Nat
    BY <1>0 DEF TypeOK, Syncs
  <2>3. sync'[s].next.cursor.pos = last
    BY <1>1
  <2>4. \A n \in token.pos + 1 .. last : n <= last
    OBVIOUS
  <2>5. \A a \in sync'[s].adds : a.at <= last
    BY <1>1, <1>3, <1>4, <2>1, <2>2, <2>4
  <2> QED
    BY <2>3, <2>5
<1>7. \A i \in sync'[s].dels : Left(i)'
  <2>1. \A i \in sync[s].dels : Left(i)
    BY <1>0 DEF SyncInv
  <2>2. ASSUME NEW n \in token.pos + 1 .. last, log[n].kind = "del" PROVE Left(log[n].item)
    <3>1. n \in 1 .. Len(log)
      BY <1>1, <1>3
    <3> QED
      BY <1>0, <2>2, <3>1, LogType DEF Left
  <2> QED
    BY <1>1, <1>2, <2>1, <2>2 DEF Left
<1>8. sync'[s].alias => used'["alias"] > 0
  BY <1>0, <1>1, <1>2, Zenon DEF SyncInv
<1>9. SyncInv(s)'
  <2>1. sync'[s].from \in {state', NoState}
    BY <1>0, <1>1, <1>2 DEF SyncInv
  <2>2. /\ sync'[s].pc = "ask" /\ sync'[s].pages = 0 => sync'[s].adds = {} /\ sync'[s].dels = {}
        /\ sync'[s].pc = "ask" /\ sync'[s].pages # 0 => Head(sync'[s].left) = "graph"
        /\ sync'[s].pc # "idle"
    BY <1>1
  <2> QED
    BY <1>5, <1>6, <1>7, <1>8, <2>1, <2>2 DEF SyncInv
<1> QED
  BY <1>0, <1>1, <1>9, CallerBook DEF Active

(* A search keeps what a Sync knows.                                         *)
LEMMA SearchBook ==
  ASSUME OneProcess, BookInv, NEW s \in Syncers, ImapSearch(s)
  PROVE  BookInv' /\ \A t \in Syncers \ {s} : sync[t] = Idle /\ sync'[t] = Idle
<1>0. TypeOK /\ FolderInv /\ Grounded(state) /\ SyncInv(s) /\ [Next]_vars
  BY DEF BookInv, Next, Step
<1>1. PICK high \in Nat, top \in Nat :
         /\ high = KnownUID(sync[s].from)
         /\ sync' \in [Syncers -> Syncs] /\ \A t \in Syncers \ {s} : sync'[t] = sync[t]
         /\ UNCHANGED <<provider, cache, state, used>>
         /\ sync[s].pc = "ask" /\ sync[s].left # <<>> /\ Head(sync[s].left) = "imap"
         /\ sync'[s].pc = "upsert" /\ sync'[s].left = sync[s].left /\ sync'[s].from = sync[s].from
         /\ sync'[s].alias = sync[s].alias /\ sync'[s].dels = sync[s].dels
         /\ sync'[s].next = [cursor |-> NoCursor, validity |-> epoch.uid, high |-> top]
         /\ top = high \/ top <= Len(uids)
         /\ \A a \in sync'[s].adds : a.at \in 1 .. Len(uids) /\ a.item = uids[a.at] /\ uids[a.at] # Nobody
         /\ \A u \in 1 .. Len(uids) : u > high /\ u <= top /\ uids[u] \notin {Nobody} \cup Poor =>
              \E a \in sync'[s].adds : a.at = u /\ a.item = uids[u]
  BY <1>0, SearchFacts
<1>2. log' = log /\ uids' = uids /\ epoch' = epoch /\ state' = state /\ used' = used
  BY <1>1 DEF provider
<1>3. /\ Len(log) \in Nat /\ Len(uids) \in Nat /\ epoch.token \in Nat /\ epoch.uid \in Nat /\ epoch.uid > 0
  BY <1>0, LogType, Generations DEF TypeOK, FolderInv
<1>4. sync[s].pages = 0 /\ sync[s].dels = {}
  BY <1>0, <1>1 DEF SyncInv
<1>5. high <= Len(uids)
  <2>1. Grounded(sync[s].from)
    BY <1>0 DEF SyncInv
  <2> QED
    BY <1>1, <1>3, <2>1 DEF KnownUID, Grounded
<1>6. Grounded(sync[s].from)' /\ Grounded(sync[s].next)'
  <2>1. Grounded(sync[s].from)
    BY <1>0 DEF SyncInv
  <2>2. Grounded(sync[s].from)'
    BY <1>1, <1>2, <2>1 DEF Grounded
  <2>3. /\ sync'[s].next.cursor.pos = 0 /\ sync'[s].next.cursor.epoch = 0
        /\ sync'[s].next.validity = epoch.uid /\ sync'[s].next.high = top
    BY <1>1, IdleFields
  <2>4. Grounded(sync[s].next)'
    BY <1>1, <1>2, <1>3, <1>5, <2>3 DEF Grounded
  <2> QED
    BY <2>2, <2>4
<1>8. sync'[s].alias => used'["alias"] > 0
  BY <1>0, <1>1, <1>2, Zenon DEF SyncInv
<1>9. SyncInv(s)'
  <2>1. sync'[s].from \in {state', NoState}
    BY <1>0, <1>1, <1>2 DEF SyncInv
  <2>2. sync'[s].pc = "upsert" /\ sync'[s].dels = {}
    BY <1>1, <1>4
  <2> QED
    BY <1>6, <1>8, <2>1, <2>2 DEF SyncInv
<1> QED
  BY <1>0, <1>1, <1>9, CallerBook DEF Active

(* A refused cursor or a failed call keeps what a Sync knows.                *)
LEMMA DroppedBook ==
  ASSUME OneProcess, BookInv, NEW s \in Syncers, Refused(s) \/ Failure(s)
  PROVE  BookInv' /\ \A t \in Syncers \ {s} : sync[t] = Idle /\ sync'[t] = Idle
<1>0. TypeOK /\ FolderInv /\ Grounded(state) /\ SyncInv(s) /\ [Next]_vars
  BY DEF BookInv, Next, Step
<1>1. /\ sync' \in [Syncers -> Syncs] /\ \A t \in Syncers \ {s} : sync'[t] = sync[t]
      /\ UNCHANGED <<provider, cache, state>> /\ sync[s].pc = "ask" /\ sync'[s].pc \in {"ask", "failed"}
      /\ sync'[s].from \in {sync[s].from, NoState} /\ sync'[s].next \in {sync[s].next, NoState}
      /\ sync'[s].dels \in {sync[s].dels, {}}
      /\ sync'[s].pc = "ask" => sync'[s].pages = 0 /\ sync'[s].adds = {} /\ sync'[s].dels = {}
  BY <1>0, DroppedFacts
<1>2. sync'[s].alias = sync[s].alias
  BY <1>0, DroppedFacts, Zenon
<1>3. log' = log /\ uids' = uids /\ epoch' = epoch /\ state' = state
  BY <1>1 DEF provider
<1>4. Grounded(sync[s].from)' /\ Grounded(sync[s].next)'
  <2>1. Grounded(sync[s].from) /\ Grounded(sync[s].next) /\ Grounded(NoState)
    BY <1>0, NoStateCovers DEF SyncInv
  <2> QED
    BY <1>1, <1>3, <2>1 DEF Grounded
<1>5. sync'[s].alias => used'["alias"] > 0
  <2>1. used["alias"] \in Nat /\ used'["alias"] \in Nat /\ used'["alias"] >= used["alias"]
    BY <1>0, UsedGrows DEF TypeOK, Events
  <2>2. used["alias"] > 0 => used'["alias"] > 0
    BY <2>1
  <2>3. sync[s].alias => used["alias"] > 0
    BY <1>0 DEF SyncInv
  <2> QED
    BY <1>2, <2>2, <2>3, Zenon
<1>6. \A i \in sync'[s].dels : Left(i)'
  BY <1>0, <1>1, <1>3 DEF SyncInv, Left
<1>7. SyncInv(s)'
  <2>1. sync'[s].from \in {state', NoState}
    BY <1>0, <1>1, <1>3 DEF SyncInv
  <2> QED
    BY <1>1, <1>4, <1>5, <1>6, <2>1 DEF SyncInv
<1> QED
  BY <1>0, <1>1, <1>7, CallerBook DEF Active

(* A caller that becomes idle knows nothing.                                 *)
LEMMA EndedBook ==
  ASSUME OneProcess, BookInv, NEW s \in Syncers, SaveFailure(s) \/ Save(s) \/ Interrupted(s)
  PROVE  BookInv' /\ \A t \in Syncers : sync'[t] = Idle
<1>0. TypeOK /\ FolderInv /\ [Next]_vars
  BY DEF BookInv, Next, Step
<1>1. /\ sync' \in [Syncers -> Syncs] /\ \A t \in Syncers \ {s} : sync'[t] = sync[t]
      /\ UNCHANGED <<provider, cache>> /\ sync'[s] = Idle /\ sync[s].pc # "idle"
      /\ state' \in {state, sync[s].from, sync[s].next}
  BY <1>0, EndedFacts
<1>2. log' = log /\ uids' = uids /\ epoch' = epoch
  BY <1>1 DEF provider
<1>3. SyncInv(s)'
  <2>1. Grounded(NoState)
    BY <1>0, NoStateCovers
  <2>2. Grounded(sync[s].from)' /\ Grounded(sync[s].next)'
    BY <1>1, <1>2, <2>1, IdleFields DEF Grounded
  <2>3. ~sync'[s].alias
    BY <1>1, IdleFields
  <2>4. /\ sync'[s].from = NoState /\ sync'[s].pc = "idle" /\ sync'[s].dels = {} /\ sync'[s] = Idle
    BY <1>1, IdleFields
  <2> QED
    BY <2>2, <2>3, <2>4 DEF SyncInv
<1> QED
  BY <1>0, <1>1, <1>3, CallerBook DEF Active

(* Storing and deleting rows keep what a Sync knows.                         *)
LEMMA StoredBook ==
  ASSUME OneProcess, BookInv, NEW s \in Syncers, Upsert(s) \/ Delete(s)
  PROVE  BookInv' /\ \A t \in Syncers \ {s} : sync[t] = Idle /\ sync'[t] = Idle
<1>0. TypeOK /\ FolderInv /\ SyncInv(s) /\ [Next]_vars
  BY DEF BookInv, Next, Step
<1>1. /\ sync' \in [Syncers -> Syncs] /\ \A t \in Syncers \ {s} : sync'[t] = sync[t]
      /\ UNCHANGED <<provider, state, used>>
      /\ sync'[s].from = sync[s].from /\ sync'[s].next = sync[s].next /\ sync'[s].dels = sync[s].dels
      /\ sync[s].pc \in {"upsert", "delete"} /\ sync'[s].pc \in {"delete", "save"}
  BY <1>0, StoredFacts
<1>2. log' = log /\ uids' = uids /\ epoch' = epoch /\ state' = state /\ used' = used
  BY <1>1 DEF provider
<1>3. sync'[s].alias = sync[s].alias
  BY <1>0, StoredFacts, Zenon
<1>4. SyncInv(s)'
  <2>1. Grounded(sync[s].from)' /\ Grounded(sync[s].next)'
    BY <1>0, <1>1, <1>2 DEF SyncInv, Grounded
  <2>2. sync'[s].alias => used'["alias"] > 0
    BY <1>0, <1>2, <1>3, Zenon DEF SyncInv
  <2>3. \A i \in sync'[s].dels : Left(i)'
    BY <1>0, <1>1, <1>2 DEF SyncInv, Left
  <2>4. sync'[s].from \in {state', NoState} /\ sync'[s].pc # "idle" /\ sync'[s].pc # "ask"
    BY <1>0, <1>1, <1>2 DEF SyncInv
  <2> QED
    BY <2>1, <2>2, <2>3, <2>4 DEF SyncInv
<1> QED
  BY <1>0, <1>1, <1>4, CallerBook DEF Active

-----------------------------------------------------------------------------
(* What the cursors have passed over has its row.                            *)

Has(i) == cache[ExtOf[i]].item = i
Answering(s) == sync[s].pc \in {"upsert", "delete", "save"} \/ (sync[s].pc = "ask" /\ sync[s].pages > 0)

\* The answer stores nothing else under the identity of an item; or it comes to
\* store the item.
Alone(s, i) == \A b \in sync[s].adds : ExtOf[b.item] = ExtOf[i] => b.item = i
Stores(s, i) ==
  \E a \in sync[s].adds : /\ a.item = i
                          /\ \A b \in sync[s].adds : ExtOf[b.item] = ExtOf[i] =>
                               b.at <= a.at /\ (b.at = a.at => b.item = i)
Comes(s, i) ==
  /\ i \notin sync[s].dels
  /\ sync[s].pc \in {"ask", "upsert"} => Stores(s, i) \/ (Has(i) /\ Alone(s, i))
  /\ sync[s].pc \notin {"ask", "upsert"} => Has(i)

\* Mail the saved cursors cover has its row, which no Sync is about to take
\* away; mail the cursors of an answer cover has it or comes to have it.
CoverInv ==
  /\ \A i \in Items : Covers(state, i) =>
       Has(i) /\ \A s \in Syncers : Alone(s, i) /\ i \notin sync[s].dels
  /\ \A s \in Syncers, i \in Items : Answering(s) /\ Covers(sync[s].next, i) => Comes(s, i)

(* What cursors cover and forget depends on their values.                    *)
LEMMA SameCursors ==
  ASSUME NEW st, NEW i
  PROVE  /\ state' = st => (Covers(state, i)' <=> Covers(st, i)') /\ (Forgets(state, i)' <=> Forgets(st, i)')
         /\ \A s : sync'[s].next = st => /\ Covers(sync[s].next, i)' <=> Covers(st, i)'
                                         /\ Forgets(sync[s].next, i)' <=> Forgets(st, i)'
<1>1. state' = st => (Covers(state, i)' <=> Covers(st, i)')
  BY DEF Covers, ToldOf, Numbered
<1>2. state' = st => (Forgets(state, i)' <=> Forgets(st, i)')
  BY DEF Forgets
<1>3. ASSUME NEW s, sync'[s].next = st PROVE Covers(sync[s].next, i)' <=> Covers(st, i)'
  BY <1>3 DEF Covers, ToldOf, Numbered
<1>4. ASSUME NEW s, sync'[s].next = st PROVE Forgets(sync[s].next, i)' <=> Forgets(st, i)'
  BY <1>4 DEF Forgets
<1> QED
  BY <1>1, <1>2, <1>3, <1>4

(* What a caller does changes nothing that cursors cover and forget.         *)
LEMMA CallerCovers ==
  ASSUME TypeOK, [Next]_vars, UNCHANGED provider, NEW st \in States, NEW i \in Items
  PROVE  (Covers(st, i)' => Covers(st, i)) /\ (Forgets(st, i)' => Forgets(st, i))
<1>1. log' = log /\ uids' = uids /\ epoch' = epoch
  BY DEF provider
<1>2. (used'["alias"] = 0 => used["alias"] = 0) /\ ((~Lossy)' => ~Lossy)
  <2>1. /\ used["alias"] \in Nat /\ used["return"] \in Nat /\ used'["alias"] \in Nat /\ used'["return"] \in Nat
        /\ used'["alias"] >= used["alias"] /\ used'["return"] >= used["return"]
    BY UsedGrows DEF TypeOK, Events
  <2> QED
    BY <2>1 DEF Lossy
<1>3. ToldOf(st, i)' => ToldOf(st, i)
  BY <1>1, <1>2 DEF ToldOf, Last
<1>4. Numbered(st, i)' => Numbered(st, i)
  BY <1>1, <1>2 DEF Numbered
<1>5. Forgets(st, i)' => Forgets(st, i)
  BY <1>1 DEF Forgets, Last
<1> QED
  BY <1>3, <1>4, <1>5 DEF Covers

(* The folder covers nothing anew.                                           *)
LEMMA FolderKeepsCover ==
  ASSUME BookInv, CoverInv, Folder
  PROVE  CoverInv'
<1>0. TypeOK /\ FolderInv /\ Grounded(state) /\ UNCHANGED <<methods, cache, state, sync>>
  BY FolderType DEF BookInv
<1>1. ASSUME NEW i \in Items, Covers(state, i)'
      PROVE  Has(i)' /\ \A s \in Syncers : Alone(s, i)' /\ i \notin sync'[s].dels
  <2>1. PICK st \in States : st = state
    BY <1>0 DEF TypeOK
  <2>2. Grounded(st)
    BY <1>0, <2>1
  <2>3. Covers(st, i)'
    BY <1>0, <1>1, <2>1, SameCursors
  <2>4. Covers(st, i)
    BY <1>0, <2>2, <2>3, FolderCovers
  <2>5. Covers(state, i)
    BY <2>1, <2>4
  <2> QED
    BY <1>0, <2>5 DEF CoverInv, Has, Alone
<1>2. ASSUME NEW s \in Syncers, NEW i \in Items, Answering(s)', Covers(sync[s].next, i)'
      PROVE  Comes(s, i)'
  <2>0. sync[s].next \in States /\ Grounded(sync[s].next)
    BY <1>0 DEF BookInv, SyncInv, TypeOK, Syncs
  <2>1. PICK st \in States : st = sync[s].next
    BY <2>0
  <2>2. Grounded(st)
    BY <2>0, <2>1
  <2>3. Covers(st, i)'
    BY <1>0, <1>2, <2>1, SameCursors
  <2>4. Covers(st, i)
    BY <1>0, <2>2, <2>3, FolderCovers
  <2>5. Covers(sync[s].next, i)
    BY <2>1, <2>4
  <2>6. Answering(s)
    BY <1>0, <1>2 DEF Answering
  <2> QED
    BY <1>0, <2>5, <2>6 DEF CoverInv, Comes, Stores, Has, Alone
<1> QED
  BY <1>1, <1>2 DEF CoverInv

(* A step of one caller, while the others are idle.                          *)
LEMMA CoverFrame ==
  ASSUME NEW s \in Syncers, \A t \in Syncers \ {s} : sync'[t] = Idle,
         \A i \in Items : Covers(state, i)' => Has(i)' /\ Alone(s, i)' /\ i \notin sync'[s].dels,
         \A i \in Items : Answering(s)' /\ Covers(sync[s].next, i)' => Comes(s, i)'
  PROVE  CoverInv'
<1>1. ASSUME NEW t \in Syncers \ {s}, NEW i \in Items PROVE Alone(t, i)' /\ i \notin sync'[t].dels
  BY IdleFields DEF Alone
<1>2. ASSUME NEW t \in Syncers \ {s} PROVE ~(Answering(t)')
  BY IdleFields DEF Answering
<1> QED
  BY <1>1, <1>2 DEF CoverInv

(* Cursors that stay cover and forget nothing anew.                          *)
LEMMA OldCovers ==
  ASSUME TypeOK, [Next]_vars, UNCHANGED provider, NEW i \in Items
  PROVE  /\ state' = state => (Covers(state, i)' => Covers(state, i)) /\ (Forgets(state, i)' => Forgets(state, i))
         /\ \A s \in Syncers : sync'[s].next = sync[s].next =>
              /\ Covers(sync[s].next, i)' => Covers(sync[s].next, i)
              /\ Forgets(sync[s].next, i)' => Forgets(sync[s].next, i)
<1>1. ASSUME state' = state
      PROVE  (Covers(state, i)' => Covers(state, i)) /\ (Forgets(state, i)' => Forgets(state, i))
  <2>1. PICK st \in States : st = state
    BY DEF TypeOK
  <2>2. (Covers(state, i)' <=> Covers(st, i)') /\ (Forgets(state, i)' <=> Forgets(st, i)')
    BY <1>1, <2>1, SameCursors
  <2>3. (Covers(st, i)' => Covers(st, i)) /\ (Forgets(st, i)' => Forgets(st, i))
    BY CallerCovers
  <2> QED
    BY <2>1, <2>2, <2>3
<1>2. ASSUME NEW s \in Syncers, sync'[s].next = sync[s].next
      PROVE  /\ Covers(sync[s].next, i)' => Covers(sync[s].next, i)
             /\ Forgets(sync[s].next, i)' => Forgets(sync[s].next, i)
  <2>1. PICK st \in States : st = sync[s].next
    BY DEF TypeOK, Syncs
  <2>2. /\ Covers(sync[s].next, i)' <=> Covers(st, i)'
        /\ Forgets(sync[s].next, i)' <=> Forgets(st, i)'
    BY <1>2, <2>1, SameCursors
  <2>3. (Covers(st, i)' => Covers(st, i)) /\ (Forgets(st, i)' => Forgets(st, i))
    BY CallerCovers
  <2> QED
    BY <2>1, <2>2, <2>3
<1> QED
  BY <1>1, <1>2

(* A Sync begins, or drops what a method had said.                           *)
LEMMA AskingCover ==
  ASSUME OneProcess, BookInv, CoverInv, NEW s \in Syncers, Begin(s) \/ Refused(s) \/ Failure(s)
  PROVE  CoverInv'
<1>0. TypeOK /\ [Next]_vars
  BY DEF BookInv, Next, Step
<1>1. /\ UNCHANGED <<provider, cache, state>>
      /\ sync'[s].pc = "ask" => sync'[s].pages = 0
      /\ sync'[s].pc \in {"ask", "failed"}
      /\ sync'[s].adds \in {sync[s].adds, {}} /\ sync'[s].dels \in {sync[s].dels, {}}
  BY <1>0, BeginFacts, DroppedFacts
<1>2. \A t \in Syncers \ {s} : sync'[t] = Idle
  BY BeginBook, DroppedBook
<1>3. ASSUME NEW i \in Items, Covers(state, i)' PROVE Has(i)' /\ Alone(s, i)' /\ i \notin sync'[s].dels
  <2>1. Covers(state, i)
    BY <1>0, <1>1, <1>3, OldCovers
  <2>2. Has(i) /\ Alone(s, i) /\ i \notin sync[s].dels
    BY <2>1 DEF CoverInv
  <2> QED
    BY <1>1, <2>2 DEF Has, Alone
<1>4. ~(Answering(s)')
  BY <1>1 DEF Answering
<1> QED
  BY <1>2, <1>3, <1>4, CoverFrame

(* A Sync ends: its cursors become the saved ones, or those stay.            *)
LEMMA EndedCover ==
  ASSUME OneProcess, BookInv, CoverInv, NEW s \in Syncers, SaveFailure(s) \/ Save(s) \/ Interrupted(s)
  PROVE  CoverInv'
<1>0. TypeOK /\ FolderInv /\ SyncInv(s) /\ [Next]_vars
  BY DEF BookInv, Next, Step
<1>1. /\ UNCHANGED <<provider, cache>> /\ sync'[s] = Idle
      /\ \/ state' = sync[s].from
         \/ sync[s].pc = "save" /\ state' = sync[s].next
         \/ state' = state
  BY <1>0, EndedFacts
<1>2. \A t \in Syncers \ {s} : sync'[t] = Idle
  BY EndedBook
<1>3. ASSUME NEW i \in Items, Covers(state, i)' PROVE Has(i)' /\ Alone(s, i)' /\ i \notin sync'[s].dels
  <2>1. state' \in States
    BY <1>0, <1>1 DEF TypeOK, Syncs
  <2>2. PICK st \in States : st = state'
    BY <2>1
  <2>3. Covers(st, i)
    BY <1>0, <1>1, <1>3, <2>2, SameCursors, CallerCovers
  <2>4. st = state \/ st = NoState \/ (sync[s].pc = "save" /\ st = sync[s].next)
    BY <1>0, <1>1, <2>2 DEF SyncInv
  <2>5. Has(i)
    <3>1. CASE st = state
      BY <2>3, <3>1 DEF CoverInv
    <3>2. CASE st = NoState
      BY <1>0, <2>3, <3>2, NoStateCovers
    <3>3. CASE sync[s].pc = "save" /\ st = sync[s].next
      <4>1. Covers(sync[s].next, i) /\ Answering(s)
        BY <2>3, <3>3 DEF Answering
      <4>2. Comes(s, i)
        BY <4>1 DEF CoverInv
      <4> QED
        BY <3>3, <4>2 DEF Comes
    <3> QED
      BY <2>4, <3>1, <3>2, <3>3
  <2> QED
    BY <1>1, <2>5, IdleFields DEF Has, Alone
<1>4. ~(Answering(s)')
  BY <1>1, IdleFields DEF Answering
<1> QED
  BY <1>2, <1>3, <1>4, CoverFrame

(* The batch stores mail the cursors cover.                                  *)
LEMMA UpsertCover ==
  ASSUME OneProcess, BookInv, CoverInv, NEW s \in Syncers, Upsert(s)
  PROVE  CoverInv'
<1>0. TypeOK /\ Bounded /\ SyncInv(s) /\ [Next]_vars
  BY DEF BookInv, Next, Step
<1>1. /\ UNCHANGED <<provider, state, used>>
      /\ sync'[s].next = sync[s].next /\ sync'[s].adds = sync[s].adds /\ sync'[s].dels = sync[s].dels
      /\ sync[s].pc = "upsert" /\ sync'[s].pc = "delete"
  <2>1. /\ UNCHANGED <<provider, state, used>>
        /\ sync'[s].next = sync[s].next /\ sync'[s].adds = sync[s].adds /\ sync'[s].dels = sync[s].dels
        /\ \/ sync[s].pc = "upsert" /\ sync'[s].pc = "delete"
           \/ sync[s].pc = "delete" /\ sync'[s].pc = "save"
    BY <1>0, StoredFacts
  <2>2. sync[s].pc = "upsert"
    BY DEF Upsert
  <2> QED
    BY <2>1, <2>2
<1>2. \A t \in Syncers \ {s} : sync'[t] = Idle
  BY StoredBook
<1>9. PICK dropped \in SUBSET Poor :
       /\ \A e \in Exts : /\ Batch(s, e, dropped) = {} => cache'[e] = cache[e]
                          /\ Batch(s, e, dropped) # {} => /\ cache'[e].item = Latest(Batch(s, e, dropped)).item
                                                          /\ cache'[e].method = Head(sync[s].left)
  BY <1>0, UpsertType
<1>3. ASSUME NEW i \in Items, used["alias"] = 0
      PROVE  /\ ExtOf[i] \in Exts
             /\ Batch(s, ExtOf[i], dropped) = {a \in sync[s].adds : ExtOf[a.item] = ExtOf[i] /\ a.item \notin dropped}
  <2>1. ~sync[s].alias
    <3>1. sync[s].alias => used["alias"] > 0
      BY <1>0 DEF SyncInv
    <3>2. ~(used["alias"] > 0)
      BY <1>3
    <3> QED
      BY <3>1, <3>2, Zenon
  <2> QED
    BY <2>1, Zenon DEF Batch, Exts
<1>10. ASSUME NEW i \in Items
       PROVE  /\ Batch(s, ExtOf[i], dropped) = {} => cache'[ExtOf[i]] = cache[ExtOf[i]]
              /\ Batch(s, ExtOf[i], dropped) # {} =>
                   cache'[ExtOf[i]].item = Latest(Batch(s, ExtOf[i], dropped)).item
  <2>1. ExtOf[i] \in Exts
    BY DEF Exts
  <2> QED
    BY <1>9, <2>1, Zenon
<1>4. ASSUME NEW i \in Items, used["alias"] = 0, Has(i), Alone(s, i) PROVE Has(i)'
  <2>1. CASE Batch(s, ExtOf[i], dropped) = {}
    BY <1>4, <1>10, <2>1 DEF Has
  <2>2. CASE Batch(s, ExtOf[i], dropped) # {}
    <3>1. Latest(Batch(s, ExtOf[i], dropped)).item = i
      BY <1>0, <1>3, <1>4, <2>2, BatchFacts DEF Alone
    <3> QED
      BY <1>4, <1>10, <2>2, <3>1 DEF Has
  <2> QED
    BY <2>1, <2>2
<1>5. ASSUME NEW i \in Items \ Poor, used["alias"] = 0, Stores(s, i) PROVE Has(i)'
  <2>1. PICK a \in sync[s].adds : /\ a.item = i
                                  /\ \A b \in sync[s].adds : ExtOf[b.item] = ExtOf[i] =>
                                       b.at <= a.at /\ (b.at = a.at => b.item = i)
    BY <1>5 DEF Stores
  <2>2. ExtOf[i] \in Exts /\ a \in Batch(s, ExtOf[i], dropped) /\ Batch(s, ExtOf[i], dropped) # {}
    BY <1>3, <1>5, <2>1
  <2>3. PICK l \in sync[s].adds : l = Latest(Batch(s, ExtOf[i], dropped))
    BY <1>0, <2>2, BatchFacts
  <2>4. ExtOf[l.item] = ExtOf[i] /\ a.at <= l.at
    BY <1>0, <2>2, <2>3, BatchFacts
  <2>5. l.at \in Nat /\ a.at \in Nat
    BY <1>0, <2>1, <2>3 DEF TypeOK, Syncs
  <2>6. l.item = i
    BY <2>1, <2>3, <2>4, <2>5
  <2> QED
    BY <1>10, <2>2, <2>3, <2>6 DEF Has
<1>6. ASSUME NEW i \in Items, NEW st, Covers(st, i) PROVE used["alias"] = 0 /\ i \notin Poor
  <2>1. used["alias"] \in Nat
    BY <1>0 DEF TypeOK, Events
  <2> QED
    BY <1>6, <2>1 DEF Covers, ToldOf, Numbered, Lossy
<1>7. ASSUME NEW i \in Items, Covers(state, i)' PROVE Has(i)' /\ Alone(s, i)' /\ i \notin sync'[s].dels
  <2>1. Covers(state, i)
    BY <1>0, <1>1, <1>7, OldCovers
  <2>2. Has(i) /\ Alone(s, i) /\ i \notin sync[s].dels /\ used["alias"] = 0
    <3>1. PICK st \in States : st = state
      BY <1>0 DEF TypeOK
    <3> QED
      BY <1>6, <2>1, <3>1 DEF CoverInv
  <2> QED
    BY <1>1, <1>4, <2>2 DEF Alone
<1>8. ASSUME NEW i \in Items, Answering(s)', Covers(sync[s].next, i)' PROVE Comes(s, i)'
  <2>1. Covers(sync[s].next, i)
    BY <1>0, <1>1, <1>8, OldCovers
  <2>2. Comes(s, i) /\ used["alias"] = 0 /\ i \notin Poor
    <3>1. PICK st \in States : st = sync[s].next
      BY <1>0 DEF TypeOK, Syncs
    <3>2. Answering(s)
      BY <1>1 DEF Answering
    <3> QED
      BY <1>6, <2>1, <3>1, <3>2 DEF CoverInv
  <2>3. Has(i)'
    BY <1>1, <1>4, <1>5, <2>2 DEF Comes
  <2> QED
    BY <1>1, <2>2, <2>3 DEF Comes
<1> QED
  BY <1>2, <1>7, <1>8, CoverFrame

(* The removals spare mail the cursors cover.                                *)
LEMMA DeleteCover ==
  ASSUME OneProcess, BookInv, CoverInv, NEW s \in Syncers, Delete(s)
  PROVE  CoverInv'
<1>0. TypeOK /\ [Next]_vars
  BY DEF BookInv, Next, Step
<1>1. /\ UNCHANGED <<provider, state, used>>
      /\ sync'[s].next = sync[s].next /\ sync'[s].adds = sync[s].adds /\ sync'[s].dels = sync[s].dels
      /\ sync[s].pc = "delete" /\ sync'[s].pc = "save"
  <2>1. /\ UNCHANGED <<provider, state, used>>
        /\ sync'[s].next = sync[s].next /\ sync'[s].adds = sync[s].adds /\ sync'[s].dels = sync[s].dels
        /\ \/ sync[s].pc = "upsert" /\ sync'[s].pc = "delete"
           \/ sync[s].pc = "delete" /\ sync'[s].pc = "save"
    BY <1>0, StoredFacts
  <2>2. sync[s].pc = "delete"
    BY DEF Delete
  <2> QED
    BY <2>1, <2>2
<1>2. \A t \in Syncers \ {s} : sync'[t] = Idle
  BY StoredBook
<1>3. ASSUME NEW i \in Items, Has(i), i \notin sync[s].dels PROVE Has(i)'
  <2>1. ExtOf[i] \in Exts
    BY DEF Exts
  <2> QED
    BY <1>0, <1>3, <2>1, DeleteType DEF Has
<1>4. ASSUME NEW i \in Items, Covers(state, i)' PROVE Has(i)' /\ Alone(s, i)' /\ i \notin sync'[s].dels
  <2>1. Covers(state, i)
    BY <1>0, <1>1, <1>4, OldCovers
  <2>2. Has(i) /\ Alone(s, i) /\ i \notin sync[s].dels
    BY <2>1 DEF CoverInv
  <2> QED
    BY <1>1, <1>3, <2>2 DEF Alone
<1>5. ASSUME NEW i \in Items, Answering(s)', Covers(sync[s].next, i)' PROVE Comes(s, i)'
  <2>1. Covers(sync[s].next, i) /\ Answering(s)
    BY <1>0, <1>1, <1>5, OldCovers DEF Answering
  <2>2. Has(i) /\ i \notin sync[s].dels
    BY <1>1, <2>1 DEF CoverInv, Comes
  <2> QED
    BY <1>1, <1>3, <2>2 DEF Comes
<1> QED
  BY <1>2, <1>4, <1>5, CoverFrame

(* A page covers what it tells and what had been told.                       *)
LEMMA PageCover ==
  ASSUME OneProcess, BookInv, CoverInv, NEW s \in Syncers, GraphPage(s)
  PROVE  CoverInv'
<1>0. TypeOK /\ FolderInv /\ Grounded(state) /\ SyncInv(s) /\ [Next]_vars
  BY DEF BookInv, Next, Step
<1>1. PICK token \in Tokens, last \in Nat :
       /\ token = GraphToken(s)
       /\ sync' \in [Syncers -> Syncs] /\ \A t \in Syncers \ {s} : sync'[t] = sync[t]
       /\ UNCHANGED <<provider, cache, state, used>>
       /\ sync[s].pc = "ask" /\ sync[s].left # <<>> /\ Head(sync[s].left) = "graph" /\ token.epoch = epoch.token
       /\ last <= Len(log) /\ (token.pos <= Len(log) => token.pos <= last)
       /\ sync'[s].pc \in {"ask", "upsert"} /\ sync'[s].left = sync[s].left /\ sync'[s].from = sync[s].from
       /\ sync'[s].alias = sync[s].alias /\ sync'[s].pages > 0
       /\ sync'[s].next = [cursor |-> [pos |-> last, since |-> token.since, epoch |-> epoch.token],
                             validity |-> 0, high |-> 0]
       /\ \A a : a \in sync'[s].adds <=>
            \/ a \in sync[s].adds
            \/ \E n \in token.pos + 1 .. last : log[n].kind = "add" /\ Last(n) /\ a = [at |-> n, item |-> log[n].item]
       /\ \A i : i \in sync'[s].dels <=>
            \/ i \in sync[s].dels
            \/ \E n \in token.pos + 1 .. last : /\ log[n].kind = "del" /\ Last(n) /\ n > token.since
                                                /\ i = log[n].item
  BY <1>0, PageFacts
<1>2. \A t \in Syncers \ {s} : sync'[t] = Idle
  BY PageBook
<1>3. /\ log' = log /\ uids' = uids /\ epoch' = epoch /\ state' = state /\ used' = used /\ cache' = cache
      /\ Len(log) \in Nat /\ token.pos \in Nat /\ token.since \in Nat
      /\ epoch.uid > 0 /\ epoch.uid \in Nat /\ used["return"] \in Nat
  BY <1>0, <1>1, LogType, Generations DEF provider, Tokens, FolderInv, TypeOK, Events
<1>4. \A n \in token.pos + 1 .. last : /\ n \in 1 .. Len(log) /\ n > token.pos /\ log[n].item \in Items
                                       /\ Last(n) => (log[n].item \in Box <=> log[n].kind = "add")
  <2>1. \A n \in token.pos + 1 .. last : n \in 1 .. Len(log) /\ n > token.pos
    BY <1>1, <1>3
  <2> QED
    BY <1>0, <2>1, LogType, LastChange
\* What the page adds: mail in the folder, and the removal of mail that is not.
<1>5. ASSUME NEW i \in Box, NEW b \in sync'[s].adds, ExtOf[b.item] = ExtOf[i], b \notin sync[s].adds
      PROVE  b.item = i /\ \E n \in token.pos + 1 .. last : b.at = n /\ Last(n) /\ log[n].item = i
  <2>1. PICK n \in token.pos + 1 .. last : log[n].kind = "add" /\ Last(n) /\ b = [at |-> n, item |-> log[n].item]
    BY <1>1, <1>5
  <2>2. b.item \in Box /\ b.item = log[n].item /\ b.at = n
    BY <1>4, <2>1
  <2>3. b.item = i
    BY <1>0, <1>5, <2>2 DEF FolderInv
  <2> QED
    BY <2>1, <2>2, <2>3
<1>6. ASSUME NEW i \in Box, i \notin sync[s].dels PROVE i \notin sync'[s].dels
  BY <1>1, <1>4, <1>6
<1>7. ASSUME NEW i \in Box, Alone(s, i) PROVE Alone(s, i)'
  BY <1>5, <1>7 DEF Alone
<1>8. ASSUME NEW i \in Items, Covers(state, i) PROVE i \in Box /\ Has(i)' /\ Alone(s, i)' /\ i \notin sync'[s].dels
  <2>1. i \in Box
    <3>1. PICK st \in States : st = state
      BY <1>0 DEF TypeOK
    <3> QED
      BY <1>0, <1>8, <3>1, CoversBox
  <2>2. Has(i) /\ Alone(s, i) /\ i \notin sync[s].dels
    BY <1>8 DEF CoverInv
  <2> QED
    BY <1>3, <1>6, <1>7, <2>1, <2>2 DEF Has
<1>9. ASSUME NEW i \in Items, Covers(state, i)' PROVE Has(i)' /\ Alone(s, i)' /\ i \notin sync'[s].dels
  <2>1. Covers(state, i)
    BY <1>0, <1>1, <1>9, OldCovers
  <2> QED
    BY <1>8, <2>1
<1>10. ASSUME NEW i \in Items, Answering(s)', Covers(sync[s].next, i)' PROVE Comes(s, i)'
  <2>1. PICK n \in 1 .. last : log[n] = [item |-> i, kind |-> "add"] /\ Last(n) /\ ~Lossy /\ i \notin Poor
    <3>1. sync'[s].next.validity = 0 /\ sync'[s].next.cursor.pos = last
      BY <1>1
    <3> QED
      BY <1>3, <1>10, <3>1 DEF Covers, ToldOf, Numbered, Last, Lossy
  <2>2. n \in 1 .. Len(log) /\ i \in Box /\ n \in Nat /\ n > 0
    <3>1. n \in 1 .. Len(log)
      BY <1>1, <1>3
    <3> QED
      BY <2>1, <3>1 DEF Box
  <2>3. i \notin sync'[s].dels
    <3>1. used["return"] = 0
      BY <1>3, <2>1 DEF Lossy
    <3>2. ~Left(i)
      BY <1>0, <2>2, <3>1 DEF FolderInv
    <3>3. i \notin sync[s].dels
      BY <1>0, <3>2 DEF SyncInv
    <3> QED
      BY <1>6, <2>2, <3>3
  <2>4. \A k \in 1 .. Len(log) : Last(k) /\ log[k].item = i => k = n
    BY <1>0, <2>1, <2>2, LastChange
  <2>5. CASE n > token.pos
    <3> DEFINE a == [at |-> n, item |-> i]
    <3>1. a \in sync'[s].adds
      <4>1. n \in token.pos + 1 .. last
        BY <1>3, <2>1, <2>2, <2>5
      <4>2. log[n].kind = "add" /\ log[n].item = i
        BY <2>1
      <4> QED
        BY <1>1, <2>1, <4>1, <4>2
    <3>2. ASSUME NEW b \in sync'[s].adds, ExtOf[b.item] = ExtOf[i]
          PROVE  b.at <= n /\ (b.at = n => b.item = i)
      <4>1. CASE b \in sync[s].adds
        <5>1. b.at <= token.pos
          <6>1. sync[s].pages # 0
            BY <1>0, <1>1, <4>1 DEF SyncInv
          <6>2. sync[s].pages > 0
            BY <1>0, <6>1 DEF TypeOK, Syncs
          <6>3. token = sync[s].next.cursor
            BY <1>1, <6>2 DEF GraphToken
          <6> QED
            BY <1>0, <1>1, <4>1, <6>3 DEF SyncInv
        <5>2. b.at \in Nat
          BY <1>0, <4>1 DEF TypeOK, Syncs
        <5> QED
          BY <1>3, <2>2, <2>5, <5>1, <5>2
      <4>2. CASE b \notin sync[s].adds
        <5>1. b.item = i /\ \E k \in token.pos + 1 .. last : b.at = k /\ Last(k) /\ log[k].item = i
          BY <1>5, <2>2, <3>2, <4>2
        <5>2. b.at = n
          BY <1>4, <2>4, <5>1
        <5> QED
          BY <2>2, <5>1, <5>2
      <4> QED
        BY <4>1, <4>2
    <3>3. a.item = i /\ a.at = n
      OBVIOUS
    <3> HIDE DEF a
    <3>4. Stores(s, i)'
      BY <3>1, <3>2, <3>3 DEF Stores
    <3> QED
      BY <1>1, <2>3, <3>4 DEF Comes
  <2>6. CASE n <= token.pos
    \* No message the page adds bears this identity.
    <3>1. ASSUME NEW b \in sync'[s].adds, ExtOf[b.item] = ExtOf[i] PROVE b \in sync[s].adds
      <4>1. SUFFICES ASSUME b \notin sync[s].adds PROVE FALSE
        OBVIOUS
      <4>2. PICK k \in token.pos + 1 .. last : Last(k) /\ log[k].item = i
        BY <1>5, <2>2, <3>1, <4>1
      <4>3. k = n /\ k > token.pos
        BY <1>4, <2>4, <4>2
      <4> QED
        BY <1>3, <2>2, <2>6, <4>3
    <3>2. CASE sync[s].pages > 0
      <4>1. token = sync[s].next.cursor
        BY <1>1, <3>2 DEF GraphToken
      <4>2. Covers(sync[s].next, i)
        <5>1. n \in 1 .. token.pos
          BY <1>3, <2>2, <2>6
        <5> QED
          BY <1>1, <2>1, <4>1, <5>1 DEF Covers, ToldOf
      <4>3. Comes(s, i)
        BY <1>1, <3>2, <4>2 DEF CoverInv, Answering
      <4>4. CASE Stores(s, i)
        <5>1. Stores(s, i)'
          BY <1>1, <3>1, <4>4 DEF Stores
        <5> QED
          BY <1>1, <2>3, <5>1 DEF Comes
      <4>5. CASE Has(i) /\ Alone(s, i)
        <5>1. Has(i)' /\ Alone(s, i)'
          BY <1>3, <1>7, <2>2, <4>5 DEF Has
        <5> QED
          BY <2>3, <5>1, <1>1 DEF Comes
      <4> QED
        BY <1>1, <4>3, <4>4, <4>5 DEF Comes
    <3>3. CASE ~(sync[s].pages > 0)
      <4>1. token = sync[s].from.cursor /\ sync[s].from = state
        <5>1. Token(0, Len(log)).pos = 0
          BY DEF Token
        <5>2. token = sync[s].from.cursor
          BY <1>1, <2>2, <2>6, <3>3, <5>1 DEF GraphToken
        <5>3. sync[s].from # NoState
          BY <2>2, <2>6, <5>2, IdleFields
        <5> QED
          BY <1>0, <5>2, <5>3 DEF SyncInv
      <4>2. Covers(state, i)
        <5>1. n \in 1 .. token.pos
          BY <1>3, <2>2, <2>6
        <5> QED
          BY <1>1, <2>1, <4>1, <5>1 DEF Covers, ToldOf
      <4>3. Has(i)' /\ Alone(s, i)'
        BY <1>8, <4>2
      <4> QED
        BY <1>1, <2>3, <4>3 DEF Comes
    <3> QED
      BY <3>2, <3>3
  <2> QED
    BY <1>3, <2>2, <2>5, <2>6
<1> QED
  BY <1>2, <1>9, <1>10, CoverFrame

(* A search covers what it finds and what had been found.                    *)
LEMMA SearchCover ==
  ASSUME OneProcess, BookInv, CoverInv, NEW s \in Syncers, ImapSearch(s)
  PROVE  CoverInv'
<1>0. TypeOK /\ FolderInv /\ Grounded(state) /\ SyncInv(s) /\ [Next]_vars
  BY DEF BookInv, Next, Step
<1>1. PICK high \in Nat, top \in Nat :
       /\ high = KnownUID(sync[s].from)
       /\ sync' \in [Syncers -> Syncs] /\ \A t \in Syncers \ {s} : sync'[t] = sync[t]
       /\ UNCHANGED <<provider, cache, state, used>>
       /\ sync[s].pc = "ask" /\ sync[s].left # <<>> /\ Head(sync[s].left) = "imap"
       /\ sync'[s].pc = "upsert" /\ sync'[s].left = sync[s].left /\ sync'[s].from = sync[s].from
       /\ sync'[s].alias = sync[s].alias /\ sync'[s].dels = sync[s].dels
       /\ sync'[s].next = [cursor |-> NoCursor, validity |-> epoch.uid, high |-> top]
       /\ top = high \/ top <= Len(uids)
       /\ \A a \in sync'[s].adds : a.at \in 1 .. Len(uids) /\ a.item = uids[a.at] /\ uids[a.at] # Nobody
       /\ \A u \in 1 .. Len(uids) : u > high /\ u <= top /\ uids[u] \notin {Nobody} \cup Poor =>
              \E a \in sync'[s].adds : a.at = u /\ a.item = uids[u]
  BY <1>0, SearchFacts
<1>2. \A t \in Syncers \ {s} : sync'[t] = Idle
  BY SearchBook
<1>3. /\ log' = log /\ uids' = uids /\ epoch' = epoch /\ state' = state /\ used' = used /\ cache' = cache
      /\ Len(uids) \in Nat /\ DOMAIN uids = 1 .. Len(uids)
      /\ epoch.uid > 0 /\ epoch.uid \in Nat /\ epoch.token > 0 /\ epoch.token \in Nat
  BY <1>0, <1>1, Generations DEF provider, FolderInv, TypeOK
<1>4. sync'[s].dels = {}
  BY <1>0, <1>1 DEF SyncInv
<1>5. ASSUME NEW i \in Box PROVE Alone(s, i)'
  <2>1. \A b \in sync'[s].adds : b.item \in Box
    BY <1>0, <1>1, <1>3 DEF FolderInv
  <2> QED
    BY <1>0, <2>1 DEF Alone, FolderInv
<1>6. ASSUME NEW i \in Items, Covers(state, i) PROVE Has(i)' /\ Alone(s, i)' /\ i \notin sync'[s].dels
  <2>1. i \in Box
    <3>1. PICK st \in States : st = state
      BY <1>0 DEF TypeOK
    <3> QED
      BY <1>0, <1>6, <3>1, CoversBox
  <2>2. Has(i)
    BY <1>6 DEF CoverInv
  <2> QED
    BY <1>3, <1>4, <1>5, <2>1, <2>2 DEF Has
<1>7. ASSUME NEW i \in Items, Covers(state, i)' PROVE Has(i)' /\ Alone(s, i)' /\ i \notin sync'[s].dels
  <2>1. Covers(state, i)
    BY <1>0, <1>1, <1>7, OldCovers
  <2> QED
    BY <1>6, <2>1
<1>8. ASSUME NEW i \in Items, Answering(s)', Covers(sync[s].next, i)' PROVE Comes(s, i)'
  <2>1. PICK u \in 1 .. Len(uids) : u <= top /\ uids[u] = i /\ used["alias"] = 0 /\ i \notin Poor
    <3>1. sync'[s].next.cursor.epoch = 0 /\ sync'[s].next.high = top
      BY <1>1, IdleFields
    <3> QED
      BY <1>3, <1>8, <3>1 DEF Covers, ToldOf, Numbered
  <2>2. i # Nobody /\ i \in Box
    BY <1>0, <1>3, <2>1, ItemsAssumption DEF FolderInv
  <2>3. CASE u > high
    <3>1. PICK a \in sync'[s].adds : a.at = u /\ a.item = i
      BY <1>1, <2>1, <2>2, <2>3
    <3>2. ASSUME NEW b \in sync'[s].adds, ExtOf[b.item] = ExtOf[i]
          PROVE  b.at <= a.at /\ (b.at = a.at => b.item = i)
      <4>1. b.item = i
        BY <1>5, <2>2, <3>2 DEF Alone
      <4>2. b.at \in 1 .. Len(uids) /\ uids[b.at] = i
        BY <1>1, <4>1
      <4>3. b.at = u
        BY <1>0, <1>3, <2>1, <2>2, <4>2 DEF FolderInv
      <4> QED
        BY <1>3, <3>1, <4>1, <4>3
    <3>3. Stores(s, i)'
      BY <3>1, <3>2 DEF Stores
    <3> QED
      BY <1>1, <1>4, <3>3 DEF Comes
  <2>4. CASE ~(u > high)
    <3>1. high > 0 /\ u <= high
      BY <1>3, <2>1, <2>4
    <3>2. high = sync[s].from.high /\ sync[s].from.validity = epoch.uid
      <4>1. Grounded(sync[s].from)
        BY <1>0 DEF SyncInv
      <4> QED
        BY <1>1, <3>1, <4>1 DEF KnownUID, Grounded
    <3>3. sync[s].from = state
      BY <1>0, <3>1, <3>2, IdleFields DEF SyncInv
    <3>4. Covers(state, i)
      BY <1>3, <2>1, <3>1, <3>2, <3>3 DEF Covers, Numbered
    <3>5. Has(i)' /\ Alone(s, i)'
      BY <1>6, <3>4
    <3> QED
      BY <1>1, <1>4, <3>5 DEF Comes
  <2> QED
    BY <2>3, <2>4
<1> QED
  BY <1>2, <1>7, <1>8, CoverFrame

-----------------------------------------------------------------------------
(* The theorems.                                                             *)

(* Every step keeps the invariant.                                           *)
LEMMA CoverStep ==
  ASSUME OneProcess, BookInv, CoverInv, [Next]_vars
  PROVE  BookInv' /\ CoverInv'
<1>1. CASE UNCHANGED vars
  <2>1. BookInv'
    <3>1. TypeOK' /\ Bounded'
      BY TypeStep DEF BookInv
    <3> QED
      BY <1>1, <3>1 DEF vars, BookInv, FolderInv, SoleSync, Active, Grounded, SyncInv, Box, Last, Left, Arrived
  <2>2. CoverInv'
    BY <1>1 DEF vars, CoverInv, Covers, ToldOf, Numbered, Lossy, Last, Has, Alone, Answering, Comes, Stores
  <2> QED
    BY <2>1, <2>2
<1>2. CASE Folder
  BY <1>2, FolderBook, FolderKeepsCover
<1>3. ASSUME NEW s \in Syncers, Begin(s) \/ Step(s) \/ Failure(s) \/ Interrupted(s)
      PROVE  BookInv' /\ CoverInv'
  <2>1. BookInv'
    BY <1>3, BeginBook, PageBook, SearchBook, DroppedBook, EndedBook, StoredBook DEF Step
  <2>2. CoverInv'
    BY <1>3, AskingCover, PageCover, SearchCover, EndedCover, UpsertCover, DeleteCover DEF Step
  <2> QED
    BY <2>1, <2>2
<1> QED
  BY <1>1, <1>2, <1>3 DEF Next

(* What holds at the start.                                                  *)
LEMMA CoverInit ==
  ASSUME Init
  PROVE  BookInv /\ CoverInv
<1>1. TypeOK /\ Bounded
  BY TypeInit
<1>2. /\ log = <<>> /\ uids = <<>> /\ epoch = [token |-> 1, uid |-> 1] /\ state = NoState
      /\ \A s \in Syncers : sync[s] = Idle
  BY DEF Init
<1>3. DOMAIN log = {} /\ DOMAIN uids = {} /\ Len(log) = 0 /\ Len(uids) = 0
  BY <1>2
<1>4. Box = {} /\ \A i \in Items : ~Left(i)
  BY <1>3 DEF Box, Left
<1>5. FolderInv
  BY <1>2, <1>3, <1>4 DEF FolderInv
<1>6. Grounded(NoState) /\ \A i \in Items : ~Covers(NoState, i)
  BY <1>1, <1>5, NoStateCovers
<1>7. SoleSync
  BY <1>2, IdleFields DEF SoleSync, Active
<1>8. ASSUME NEW s \in Syncers PROVE SyncInv(s)
  <2>1. sync[s] = Idle /\ state = NoState
    BY <1>2
  <2>2. ~sync[s].alias
    BY <2>1, IdleFields, Zenon
  <2>3. /\ sync[s].pc = "idle" /\ sync[s].from = NoState /\ sync[s].next = NoState /\ sync[s].dels = {}
    BY <2>1, IdleFields
  <2> QED
    BY <1>6, <2>1, <2>2, <2>3 DEF SyncInv
<1>9. CoverInv
  <2>1. \A s \in Syncers : ~Answering(s)
    BY <1>2, IdleFields DEF Answering
  <2> QED
    BY <1>2, <1>6, <2>1 DEF CoverInv
<1> QED
  BY <1>1, <1>2, <1>5, <1>6, <1>7, <1>8, <1>9 DEF BookInv

(* In one process, mail that can be read, is still in the folder and lies    *)
(* behind the saved delta cursor, or at or under the saved UID, has its row, *)
(* whatever fails and whatever mail beside it cannot be read.                *)
THEOREM CursorsSkipNothing == OneProcess => (Spec => []NothingSkipped)
<1> SUFFICES ASSUME OneProcess PROVE Spec => []NothingSkipped
  OBVIOUS
<1>1. Init => BookInv /\ CoverInv
  BY CoverInit
<1>2. BookInv /\ CoverInv /\ [Next]_vars => (BookInv /\ CoverInv)'
  BY CoverStep
<1>3. BookInv /\ CoverInv => NothingSkipped
  <2> SUFFICES ASSUME BookInv, CoverInv PROVE NothingSkipped
    OBVIOUS
  <2>0. TypeOK /\ FolderInv /\ Grounded(state)
    BY DEF BookInv
  <2>1. \A i \in Items : Has(i) => Held(i)
    BY ItemsAssumption DEF Has, Held
  <2>2. ASSUME ~Lossy, state.cursor.epoch = epoch.token, NEW n \in 1 .. state.cursor.pos,
               log[n].kind = "add", Last(n), log[n].item \notin Poor
        PROVE  Held(log[n].item)
    <3>1. n \in 1 .. Len(log)
      BY <2>0, LogType, StateType DEF TypeOK, Grounded
    <3>2. log[n].item \in Items /\ log[n] = [item |-> log[n].item, kind |-> "add"]
      BY <2>0, <2>2, <3>1, LogType
    <3>3. Covers(state, log[n].item)
      BY <2>2, <3>2 DEF Covers, ToldOf
    <3> QED
      BY <2>1, <3>2, <3>3 DEF CoverInv
  <2>3. ASSUME used["alias"] = 0, state.validity = epoch.uid, NEW u \in DOMAIN uids, u <= state.high,
               uids[u] \notin {Nobody} \cup Poor
        PROVE  Held(uids[u])
    <3>1. uids[u] \in Items
      BY <2>0, <2>3 DEF FolderInv, Box
    <3>2. Covers(state, uids[u])
      BY <2>3, <3>1 DEF Covers, Numbered
    <3> QED
      BY <2>1, <3>1, <3>2 DEF CoverInv
  <2> QED
    BY <2>2, <2>3 DEF NothingSkipped
<1> QED
  BY <1>1, <1>2, <1>3, PTL DEF Spec

-----------------------------------------------------------------------------
(* What the delta cursor has forgotten has no row.                           *)

\* No call has failed and no method was asked for by name: only the first of
\* the methods is asked.
OneMethod == used["failure"] = 0 /\ used["asked"] = 0
In(s, i) == \E a \in sync[s].adds : a.item = i
Goes(s, i) ==
  /\ sync[s].pc \in {"ask", "upsert"} => i \in sync[s].dels \/ (~Has(i) /\ ~In(s, i))
  /\ sync[s].pc = "delete" => i \in sync[s].dels \/ ~Has(i)
  /\ sync[s].pc = "save" => ~Has(i)

FirstMethod ==
  /\ \A e \in Exts : cache[e].item # Nobody => cache[e].method = Head(methods)
  /\ \A s \in Syncers : Active(s) => sync[s].left = methods
\* Mail the saved cursor forgets has no row and no Sync brings it; mail the
\* cursor of an answer forgets has none, or the answer deletes it.
ForgetInv ==
  OneMethod =>
    /\ FirstMethod
    /\ \A i \in Items : Forgets(state, i) => ~Has(i) /\ \A s \in Syncers : ~In(s, i)
    /\ \A s \in Syncers, i \in Items : Answering(s) /\ Forgets(sync[s].next, i) => Goes(s, i)

(* A method that was asked for or has failed stays counted.                  *)
LEMMA OneMethodBefore ==
  ASSUME TypeOK, [Next]_vars, OneMethod'
  PROVE  OneMethod
<1>1. /\ used["failure"] \in Nat /\ used["asked"] \in Nat /\ used'["failure"] \in Nat /\ used'["asked"] \in Nat
      /\ used'["failure"] >= used["failure"] /\ used'["asked"] >= used["asked"]
  BY UsedGrows DEF TypeOK, Events
<1> QED
  BY <1>1 DEF OneMethod

(* A step of one caller, while the others are idle.                          *)
LEMMA ForgetFrame ==
  ASSUME NEW s \in Syncers, \A t \in Syncers \ {s} : sync'[t] = Idle, UNCHANGED methods,
         OneMethod' =>
           /\ \A e \in Exts : cache'[e].item # Nobody => cache'[e].method = Head(methods)
           /\ Active(s)' => sync'[s].left = methods
           /\ \A i \in Items : Forgets(state, i)' => ~(Has(i)') /\ ~(In(s, i)')
           /\ \A i \in Items : Answering(s)' /\ Forgets(sync[s].next, i)' => Goes(s, i)'
  PROVE  ForgetInv'
<1> SUFFICES ASSUME OneMethod' PROVE
      /\ FirstMethod'
      /\ \A i \in Items : Forgets(state, i)' => ~(Has(i)') /\ \A t \in Syncers : ~(In(t, i)')
      /\ \A t \in Syncers, i \in Items : Answering(t)' /\ Forgets(sync[t].next, i)' => Goes(t, i)'
  BY DEF ForgetInv
<1>1. ASSUME NEW t \in Syncers \ {s}, NEW i \in Items PROVE ~(In(t, i)')
  BY IdleFields DEF In
<1>2. ASSUME NEW t \in Syncers \ {s} PROVE ~(Answering(t)') /\ ~(Active(t)')
  BY IdleFields DEF Answering, Active
<1>3. FirstMethod'
  BY <1>2 DEF FirstMethod
<1> QED
  BY <1>1, <1>2, <1>3

(* The folder makes no cursor forget more.                                   *)
LEMMA FolderKeepsForget ==
  ASSUME BookInv, ForgetInv, Folder
  PROVE  ForgetInv'
<1>0. TypeOK /\ FolderInv /\ Grounded(state) /\ UNCHANGED <<methods, cache, state, sync>> /\ [Next]_vars
  BY FolderType DEF BookInv, Next
<1> SUFFICES ASSUME OneMethod' PROVE
      /\ FirstMethod'
      /\ \A i \in Items : Forgets(state, i)' => ~(Has(i)') /\ \A t \in Syncers : ~(In(t, i)')
      /\ \A t \in Syncers, i \in Items : Answering(t)' /\ Forgets(sync[t].next, i)' => Goes(t, i)'
  BY DEF ForgetInv
<1>1. OneMethod
  BY <1>0, OneMethodBefore
<1>2. FirstMethod'
  BY <1>0, <1>1 DEF ForgetInv, FirstMethod, Active
<1>3. ASSUME NEW i \in Items, Forgets(state, i)' PROVE ~(Has(i)') /\ \A t \in Syncers : ~(In(t, i)')
  <2>1. PICK st \in States : st = state
    BY <1>0 DEF TypeOK
  <2>2. Grounded(st)
    BY <1>0, <2>1
  <2>3. Forgets(st, i)'
    BY <1>0, <1>3, <2>1, SameCursors
  <2>4. Forgets(st, i)
    BY <1>0, <2>2, <2>3, FolderCovers
  <2>5. Forgets(state, i)
    BY <2>1, <2>4
  <2> QED
    BY <1>0, <1>1, <2>5 DEF ForgetInv, Has, In
<1>4. ASSUME NEW s \in Syncers, NEW i \in Items, Answering(s)', Forgets(sync[s].next, i)'
      PROVE  Goes(s, i)'
  <2>0. sync[s].next \in States /\ Grounded(sync[s].next)
    BY <1>0 DEF BookInv, SyncInv, TypeOK, Syncs
  <2>1. PICK st \in States : st = sync[s].next
    BY <2>0
  <2>2. Grounded(st)
    BY <2>0, <2>1
  <2>3. Forgets(st, i)'
    BY <1>0, <1>4, <2>1, SameCursors
  <2>4. Forgets(st, i)
    BY <1>0, <2>2, <2>3, FolderCovers
  <2>5. Forgets(sync[s].next, i)
    BY <2>1, <2>4
  <2>6. Answering(s)
    BY <1>0, <1>4 DEF Answering
  <2> QED
    BY <1>0, <1>1, <2>5, <2>6 DEF ForgetInv, Goes, Has, In
<1> QED
  BY <1>2, <1>3, <1>4

(* A Sync begins, or drops what a method had said.                           *)
LEMMA AskingForget ==
  ASSUME OneProcess, BookInv, ForgetInv, NEW s \in Syncers, Begin(s) \/ Refused(s) \/ Failure(s)
  PROVE  ForgetInv'
<1>0. TypeOK /\ [Next]_vars
  BY DEF BookInv, Next, Step
<1>1. /\ UNCHANGED <<provider, cache, state>>
      /\ sync'[s].pc = "ask" => sync'[s].pages = 0
      /\ sync'[s].pc \in {"ask", "failed"}
      /\ sync'[s].adds \in {sync[s].adds, {}}
  BY <1>0, BeginFacts, DroppedFacts
<1>2. \A t \in Syncers \ {s} : sync'[t] = Idle
  BY BeginBook, DroppedBook
<1>3. ASSUME OneMethod', Begin(s) PROVE sync'[s].left = methods
  BY <1>0, <1>3, BeginFacts DEF OneMethod
<1>4. ASSUME OneMethod', Refused(s) \/ Failure(s) PROVE sync'[s].left = methods
  <2>1. sync'[s].left \in {sync[s].left, methods} /\ sync[s].pc = "ask"
    BY <1>0, <1>4, DroppedFacts DEF OneMethod
  <2>2. OneMethod
    BY <1>0, <1>4, OneMethodBefore
  <2> QED
    BY <2>1, <2>2 DEF ForgetInv, FirstMethod, Active
<1>5. ASSUME OneMethod'
      PROVE  /\ \A e \in Exts : cache'[e].item # Nobody => cache'[e].method = Head(methods)
             /\ \A i \in Items : Forgets(state, i)' => ~(Has(i)') /\ ~(In(s, i)')
  <2>1. OneMethod
    BY <1>0, <1>5, OneMethodBefore
  <2>2. ASSUME NEW i \in Items, Forgets(state, i)' PROVE ~(Has(i)') /\ ~(In(s, i)')
    <3>1. Forgets(state, i)
      BY <1>0, <1>1, <2>2, OldCovers
    <3>2. ~Has(i) /\ ~In(s, i)
      BY <2>1, <3>1 DEF ForgetInv
    <3> QED
      BY <1>1, <3>2 DEF Has, In
  <2> QED
    BY <1>1, <2>1, <2>2 DEF ForgetInv, FirstMethod
<1>6. ~(Answering(s)')
  BY <1>1 DEF Answering
<1>7. UNCHANGED methods
  BY <1>1 DEF provider
<1> QED
  BY <1>2, <1>3, <1>4, <1>5, <1>6, <1>7, ForgetFrame

(* A Sync ends: its cursors become the saved ones, or those stay.            *)
LEMMA EndedForget ==
  ASSUME OneProcess, BookInv, ForgetInv, NEW s \in Syncers, SaveFailure(s) \/ Save(s) \/ Interrupted(s)
  PROVE  ForgetInv'
<1>0. TypeOK /\ FolderInv /\ SyncInv(s) /\ [Next]_vars
  BY DEF BookInv, Next, Step
<1>1. /\ UNCHANGED <<provider, cache>> /\ sync'[s] = Idle
      /\ \/ state' = sync[s].from
         \/ sync[s].pc = "save" /\ state' = sync[s].next
         \/ state' = state
  BY <1>0, EndedFacts
<1>2. \A t \in Syncers \ {s} : sync'[t] = Idle
  BY EndedBook
<1>3. ASSUME OneMethod', NEW i \in Items, Forgets(state, i)' PROVE ~(Has(i)') /\ ~(In(s, i)')
  <2>0. OneMethod
    BY <1>0, <1>3, OneMethodBefore
  <2>1. state' \in States
    BY <1>0, <1>1 DEF TypeOK, Syncs
  <2>2. PICK st \in States : st = state'
    BY <2>1
  <2>3. Forgets(st, i)
    BY <1>0, <1>1, <1>3, <2>2, SameCursors, CallerCovers
  <2>4. st = state \/ st = NoState \/ (sync[s].pc = "save" /\ st = sync[s].next)
    BY <1>0, <1>1, <2>2 DEF SyncInv
  <2>5. ~Has(i)
    <3>1. CASE st = state
      BY <2>0, <2>3, <3>1 DEF ForgetInv
    <3>2. CASE st = NoState
      BY <1>0, <2>3, <3>2, NoStateCovers
    <3>3. CASE sync[s].pc = "save" /\ st = sync[s].next
      <4>1. Forgets(sync[s].next, i) /\ Answering(s)
        BY <2>3, <3>3 DEF Answering
      <4>2. Goes(s, i)
        BY <2>0, <4>1 DEF ForgetInv
      <4> QED
        BY <3>3, <4>2 DEF Goes
    <3> QED
      BY <2>4, <3>1, <3>2, <3>3
  <2> QED
    BY <1>1, <2>5, IdleFields DEF Has, In
<1>4. ~(Answering(s)') /\ ~(Active(s)')
  BY <1>1, IdleFields DEF Answering, Active
<1>5. OneMethod' => \A e \in Exts : cache'[e].item # Nobody => cache'[e].method = Head(methods)
  BY <1>0, <1>1, OneMethodBefore DEF ForgetInv, FirstMethod
<1>6. UNCHANGED methods
  BY <1>1 DEF provider
<1> QED
  BY <1>2, <1>3, <1>4, <1>5, <1>6, ForgetFrame

(* The batch stores no mail a cursor forgets, unless it is to be deleted.    *)
LEMMA UpsertForget ==
  ASSUME OneProcess, BookInv, ForgetInv, NEW s \in Syncers, Upsert(s)
  PROVE  ForgetInv'
<1>0. TypeOK /\ Bounded /\ SyncInv(s) /\ [Next]_vars
  BY DEF BookInv, Next, Step
<1>1. /\ UNCHANGED <<provider, state, used>> /\ sync'[s].left = sync[s].left
      /\ sync'[s].next = sync[s].next /\ sync'[s].adds = sync[s].adds /\ sync'[s].dels = sync[s].dels
      /\ sync[s].pc = "upsert" /\ sync'[s].pc = "delete"
  <2>1. /\ UNCHANGED <<provider, state, used>> /\ sync'[s].left = sync[s].left
        /\ sync'[s].next = sync[s].next /\ sync'[s].adds = sync[s].adds /\ sync'[s].dels = sync[s].dels
        /\ \/ sync[s].pc = "upsert" /\ sync'[s].pc = "delete"
           \/ sync[s].pc = "delete" /\ sync'[s].pc = "save"
    BY <1>0, StoredFacts
  <2>2. sync[s].pc = "upsert"
    BY DEF Upsert
  <2> QED
    BY <2>1, <2>2
<1>2. \A t \in Syncers \ {s} : sync'[t] = Idle
  BY StoredBook
<1>6. PICK dropped \in SUBSET Poor :
       /\ \A e \in Exts : /\ Batch(s, e, dropped) = {} => cache'[e] = cache[e]
                          /\ Batch(s, e, dropped) # {} => /\ cache'[e].item = Latest(Batch(s, e, dropped)).item
                                                          /\ cache'[e].method = Head(sync[s].left)
  BY <1>0, UpsertType
<1>3. ASSUME NEW i \in Items, ~Has(i), ~In(s, i) PROVE ~(Has(i)')
  <2>1. ExtOf[i] \in Exts
    BY DEF Exts
  <2>4. /\ Batch(s, ExtOf[i], dropped) = {} => cache'[ExtOf[i]] = cache[ExtOf[i]]
        /\ Batch(s, ExtOf[i], dropped) # {} =>
             cache'[ExtOf[i]].item = Latest(Batch(s, ExtOf[i], dropped)).item
    BY <1>6, <2>1, Zenon
  <2>2. CASE Batch(s, ExtOf[i], dropped) = {}
    BY <1>3, <2>2, <2>4 DEF Has
  <2>3. CASE Batch(s, ExtOf[i], dropped) # {}
    <3>1. Latest(Batch(s, ExtOf[i], dropped)) \in sync[s].adds
      BY <1>0, <2>1, <2>3, BatchFacts
    <3>2. Latest(Batch(s, ExtOf[i], dropped)).item # i
      BY <1>3, <3>1 DEF In
    <3> QED
      BY <2>3, <2>4, <3>2 DEF Has
  <2> QED
    BY <2>2, <2>3
<1>4. ASSUME OneMethod'
      PROVE  /\ \A e \in Exts : cache'[e].item # Nobody => cache'[e].method = Head(methods)
             /\ sync'[s].left = methods
             /\ \A i \in Items : Forgets(state, i)' => ~(Has(i)') /\ ~(In(s, i)')
             /\ \A i \in Items : Answering(s)' /\ Forgets(sync[s].next, i)' => Goes(s, i)'
  <2>0. OneMethod /\ sync[s].left = methods
    <3>1. OneMethod
      BY <1>0, <1>4, OneMethodBefore
    <3> QED
      BY <1>1, <3>1 DEF ForgetInv, FirstMethod, Active
  <2>1. \A e \in Exts : cache'[e].item # Nobody => cache'[e].method = Head(methods)
    <3>1. \A e \in Exts : cache[e].item # Nobody => cache[e].method = Head(methods)
      BY <2>0 DEF ForgetInv, FirstMethod
    <3>2. ASSUME NEW e \in Exts PROVE cache'[e] = cache[e] \/ cache'[e].method = Head(methods)
      <4>1. cache'[e] = cache[e] \/ cache'[e].method = Head(sync[s].left)
        BY <1>6, Zenon
      <4> QED
        BY <2>0, <4>1
    <3> QED
      BY <3>1, <3>2
  <2>2. ASSUME NEW i \in Items, Forgets(state, i)' PROVE ~(Has(i)') /\ ~(In(s, i)')
    <3>1. Forgets(state, i)
      BY <1>0, <1>1, <2>2, OldCovers
    <3>2. ~Has(i) /\ ~In(s, i)
      BY <2>0, <3>1 DEF ForgetInv
    <3> QED
      BY <1>1, <1>3, <3>2 DEF In
  <2>3. ASSUME NEW i \in Items, Forgets(sync[s].next, i)' PROVE Goes(s, i)'
    <3>1. Forgets(sync[s].next, i) /\ Answering(s)
      BY <1>0, <1>1, <2>3, OldCovers DEF Answering
    <3>2. Goes(s, i)
      BY <2>0, <3>1 DEF ForgetInv
    <3>3. i \in sync[s].dels \/ ~(Has(i)')
      BY <1>1, <1>3, <3>2 DEF Goes
    <3> QED
      BY <1>1, <3>3 DEF Goes
  <2> QED
    BY <1>1, <2>0, <2>1, <2>2, <2>3
<1>5. UNCHANGED methods
  BY <1>1 DEF provider
<1> QED
  BY <1>2, <1>4, <1>5, ForgetFrame

(* The removals delete the rows of mail the cursors forget.                  *)
LEMMA DeleteForget ==
  ASSUME OneProcess, BookInv, ForgetInv, NEW s \in Syncers, Delete(s)
  PROVE  ForgetInv'
<1>0. TypeOK /\ [Next]_vars
  BY DEF BookInv, Next, Step
<1>1. /\ UNCHANGED <<provider, state, used>> /\ sync'[s].left = sync[s].left
      /\ sync'[s].next = sync[s].next /\ sync'[s].adds = sync[s].adds /\ sync'[s].dels = sync[s].dels
      /\ sync[s].pc = "delete" /\ sync'[s].pc = "save"
  <2>1. /\ UNCHANGED <<provider, state, used>> /\ sync'[s].left = sync[s].left
        /\ sync'[s].next = sync[s].next /\ sync'[s].adds = sync[s].adds /\ sync'[s].dels = sync[s].dels
        /\ \/ sync[s].pc = "upsert" /\ sync'[s].pc = "delete"
           \/ sync[s].pc = "delete" /\ sync'[s].pc = "save"
    BY <1>0, StoredFacts
  <2>2. sync[s].pc = "delete"
    BY DEF Delete
  <2> QED
    BY <2>1, <2>2
<1>2. \A t \in Syncers \ {s} : sync'[t] = Idle
  BY StoredBook
<1>3. ASSUME NEW i \in Items, ~Has(i) PROVE ~(Has(i)')
  <2>1. ExtOf[i] \in Exts /\ i # Nobody
    BY ItemsAssumption DEF Exts
  <2> QED
    BY <1>0, <1>3, <2>1, DeleteType DEF Has
<1>4. ASSUME OneMethod'
      PROVE  /\ \A e \in Exts : cache'[e].item # Nobody => cache'[e].method = Head(methods)
             /\ sync'[s].left = methods
             /\ \A i \in Items : Forgets(state, i)' => ~(Has(i)') /\ ~(In(s, i)')
             /\ \A i \in Items : Answering(s)' /\ Forgets(sync[s].next, i)' => Goes(s, i)'
  <2>0. OneMethod /\ sync[s].left = methods /\ \A e \in Exts : cache[e].item # Nobody => cache[e].method = Head(methods)
    <3>1. OneMethod
      BY <1>0, <1>4, OneMethodBefore
    <3> QED
      BY <1>1, <3>1 DEF ForgetInv, FirstMethod, Active
  <2>1. \A e \in Exts : cache'[e].item # Nobody => cache'[e].method = Head(methods)
    BY <1>0, <2>0, DeleteType
  <2>2. ASSUME NEW i \in Items, Forgets(state, i)' PROVE ~(Has(i)') /\ ~(In(s, i)')
    <3>1. Forgets(state, i)
      BY <1>0, <1>1, <2>2, OldCovers
    <3>2. ~Has(i) /\ ~In(s, i)
      BY <2>0, <3>1 DEF ForgetInv
    <3> QED
      BY <1>1, <1>3, <3>2 DEF In
  <2>3. ASSUME NEW i \in Items, Forgets(sync[s].next, i)' PROVE Goes(s, i)'
    <3>1. Forgets(sync[s].next, i) /\ Answering(s)
      BY <1>0, <1>1, <2>3, OldCovers DEF Answering
    <3>2. i \in sync[s].dels \/ ~Has(i)
      BY <1>1, <2>0, <3>1 DEF ForgetInv, Goes
    <3>3. ExtOf[i] \in Exts /\ i # Nobody
      BY ItemsAssumption DEF Exts
    <3>4. CASE Has(i) /\ i \in sync[s].dels
      <4>1. cache[ExtOf[i]].item = i /\ cache[ExtOf[i]].method = Head(sync[s].left)
        BY <2>0, <3>3, <3>4 DEF Has
      <4>2. cache'[ExtOf[i]].item = Nobody
        BY <1>0, <3>3, <3>4, <4>1, DeleteType
      <4> QED
        BY <1>1, <3>3, <4>2 DEF Goes, Has
    <3>5. CASE ~Has(i)
      BY <1>1, <1>3, <3>5 DEF Goes
    <3> QED
      BY <3>2, <3>4, <3>5
  <2> QED
    BY <1>1, <2>0, <2>1, <2>2, <2>3
<1>5. UNCHANGED methods
  BY <1>1 DEF provider
<1> QED
  BY <1>2, <1>4, <1>5, ForgetFrame

(* A page tells the removals its cursor forgets.                             *)
LEMMA PageForget ==
  ASSUME OneProcess, BookInv, ForgetInv, NEW s \in Syncers, GraphPage(s)
  PROVE  ForgetInv'
<1>0. TypeOK /\ FolderInv /\ Grounded(state) /\ SyncInv(s) /\ [Next]_vars
  BY DEF BookInv, Next, Step
<1>1. PICK token \in Tokens, last \in Nat :
       /\ token = GraphToken(s)
       /\ sync' \in [Syncers -> Syncs] /\ \A t \in Syncers \ {s} : sync'[t] = sync[t]
       /\ UNCHANGED <<provider, cache, state, used>>
       /\ sync[s].pc = "ask" /\ sync[s].left # <<>> /\ Head(sync[s].left) = "graph" /\ token.epoch = epoch.token
       /\ last <= Len(log) /\ (token.pos <= Len(log) => token.pos <= last)
       /\ sync'[s].pc \in {"ask", "upsert"} /\ sync'[s].left = sync[s].left /\ sync'[s].from = sync[s].from
       /\ sync'[s].alias = sync[s].alias /\ sync'[s].pages > 0
       /\ sync'[s].next = [cursor |-> [pos |-> last, since |-> token.since, epoch |-> epoch.token],
                             validity |-> 0, high |-> 0]
       /\ \A a : a \in sync'[s].adds <=>
            \/ a \in sync[s].adds
            \/ \E n \in token.pos + 1 .. last : log[n].kind = "add" /\ Last(n) /\ a = [at |-> n, item |-> log[n].item]
       /\ \A i : i \in sync'[s].dels <=>
            \/ i \in sync[s].dels
            \/ \E n \in token.pos + 1 .. last : /\ log[n].kind = "del" /\ Last(n) /\ n > token.since
                                                /\ i = log[n].item
  BY <1>0, PageFacts
<1>2. \A t \in Syncers \ {s} : sync'[t] = Idle
  BY PageBook
<1>3. /\ log' = log /\ epoch' = epoch /\ state' = state /\ cache' = cache /\ methods' = methods
      /\ Len(log) \in Nat /\ token.pos \in Nat /\ token.since \in Nat
  BY <1>0, <1>1, LogType DEF provider, Tokens
<1>4. \A n \in token.pos + 1 .. last : /\ n \in 1 .. Len(log)
                                       /\ Last(n) /\ log[n].kind = "add" => log[n].item \in Box
  <2>1. \A n \in token.pos + 1 .. last : n \in 1 .. Len(log)
    BY <1>1, <1>3
  <2> QED
    BY <1>0, <2>1, LastChange
<1>5. ASSUME NEW i \in Items, i \notin Box, ~In(s, i) PROVE ~(In(s, i)')
  <2>1. \A a \in sync'[s].adds : a \in sync[s].adds \/ a.item \in Box
    BY <1>1, <1>4
  <2> QED
    BY <1>5, <2>1 DEF In
<1>6. ASSUME NEW i \in Items, Forgets(state, i) PROVE i \notin Box
  <2>1. PICK st \in States : st = state
    BY <1>0 DEF TypeOK
  <2> QED
    BY <1>0, <1>6, <2>1, CoversBox
<1>7. ASSUME OneMethod'
      PROVE  /\ \A e \in Exts : cache'[e].item # Nobody => cache'[e].method = Head(methods)
             /\ sync'[s].left = methods
             /\ \A i \in Items : Forgets(state, i)' => ~(Has(i)') /\ ~(In(s, i)')
             /\ \A i \in Items : Answering(s)' /\ Forgets(sync[s].next, i)' => Goes(s, i)'
  <2>0. OneMethod /\ sync[s].left = methods /\ \A e \in Exts : cache[e].item # Nobody => cache[e].method = Head(methods)
    <3>1. OneMethod
      BY <1>0, <1>7, OneMethodBefore
    <3> QED
      BY <1>1, <3>1 DEF ForgetInv, FirstMethod, Active
  <2>1. ASSUME NEW i \in Items, Forgets(state, i) PROVE ~(Has(i)') /\ ~(In(s, i)')
    <3>1. ~Has(i) /\ ~In(s, i)
      BY <2>0, <2>1 DEF ForgetInv
    <3> QED
      BY <1>3, <1>5, <1>6, <2>1, <3>1 DEF Has
  <2>2. ASSUME NEW i \in Items, Forgets(state, i)' PROVE ~(Has(i)') /\ ~(In(s, i)')
    <3>1. Forgets(state, i)
      BY <1>0, <1>1, <2>2, OldCovers
    <3> QED
      BY <2>1, <3>1
  <2>3. ASSUME NEW i \in Items, Forgets(sync[s].next, i)' PROVE Goes(s, i)'
    <3>1. PICK n \in token.since + 1 .. last : log[n] = [item |-> i, kind |-> "del"] /\ Last(n)
      <4>1. sync'[s].next.cursor.since = token.since /\ sync'[s].next.cursor.pos = last
        BY <1>1
      <4> QED
        BY <1>3, <2>3, <4>1 DEF Forgets, Last
    <3>2. n \in 1 .. Len(log) /\ n \in Nat /\ n > 0 /\ n > token.since /\ n <= last
      BY <1>1, <1>3
    <3>3. i \notin Box
      BY <1>0, <3>1, <3>2, LastChange
    <3>4. CASE n > token.pos
      <4>1. n \in token.pos + 1 .. last
        BY <1>3, <3>2, <3>4
      <4>2. log[n].kind = "del" /\ log[n].item = i
        BY <3>1
      <4>3. i \in sync'[s].dels
        BY <1>1, <3>1, <3>2, <4>1, <4>2
      <4> QED
        BY <1>1, <4>3 DEF Goes
    <3>5. CASE n <= token.pos /\ sync[s].pages > 0
      <4>1. token = sync[s].next.cursor
        BY <1>1, <3>5 DEF GraphToken
      <4>2. Forgets(sync[s].next, i)
        <5>1. n \in token.since + 1 .. token.pos
          BY <1>3, <3>2, <3>5
        <5> QED
          BY <1>1, <3>1, <4>1, <5>1 DEF Forgets
      <4>3. Goes(s, i)
        BY <1>1, <2>0, <3>5, <4>2 DEF ForgetInv, Answering
      <4>4. CASE i \in sync[s].dels
        BY <1>1, <4>4 DEF Goes
      <4>5. CASE ~Has(i) /\ ~In(s, i)
        <5>1. ~(Has(i)') /\ ~(In(s, i)')
          BY <1>3, <1>5, <3>3, <4>5 DEF Has
        <5> QED
          BY <1>1, <5>1 DEF Goes
      <4> QED
        BY <1>1, <4>3, <4>4, <4>5 DEF Goes
    <3>6. CASE n <= token.pos /\ ~(sync[s].pages > 0)
      <4>1. token = sync[s].from.cursor /\ sync[s].from = state
        <5>1. Token(0, Len(log)).pos = 0
          BY DEF Token
        <5>2. token = sync[s].from.cursor
          BY <1>1, <3>2, <3>6, <5>1 DEF GraphToken
        <5>3. sync[s].from # NoState
          BY <3>2, <3>6, <5>2, IdleFields
        <5> QED
          BY <1>0, <5>2, <5>3 DEF SyncInv
      <4>2. Forgets(state, i)
        <5>1. n \in token.since + 1 .. token.pos
          BY <1>3, <3>2, <3>6
        <5> QED
          BY <1>1, <3>1, <4>1, <5>1 DEF Forgets
      <4>3. ~(Has(i)') /\ ~(In(s, i)')
        BY <2>1, <4>2
      <4> QED
        BY <1>1, <4>3 DEF Goes
    <3> QED
      BY <1>3, <3>2, <3>4, <3>5, <3>6
  <2> QED
    BY <1>1, <1>3, <2>0, <2>2, <2>3
<1> QED
  BY <1>2, <1>3, <1>7, ForgetFrame

(* A search brings only mail in the folder, and its cursors forget nothing.  *)
LEMMA SearchForget ==
  ASSUME OneProcess, BookInv, ForgetInv, NEW s \in Syncers, ImapSearch(s)
  PROVE  ForgetInv'
<1>0. TypeOK /\ FolderInv /\ Grounded(state) /\ SyncInv(s) /\ [Next]_vars
  BY DEF BookInv, Next, Step
<1>1. PICK high \in Nat, top \in Nat :
       /\ high = KnownUID(sync[s].from)
       /\ sync' \in [Syncers -> Syncs] /\ \A t \in Syncers \ {s} : sync'[t] = sync[t]
       /\ UNCHANGED <<provider, cache, state, used>>
       /\ sync[s].pc = "ask" /\ sync[s].left # <<>> /\ Head(sync[s].left) = "imap"
       /\ sync'[s].pc = "upsert" /\ sync'[s].left = sync[s].left /\ sync'[s].from = sync[s].from
       /\ sync'[s].alias = sync[s].alias /\ sync'[s].dels = sync[s].dels
       /\ sync'[s].next = [cursor |-> NoCursor, validity |-> epoch.uid, high |-> top]
       /\ top = high \/ top <= Len(uids)
       /\ \A a \in sync'[s].adds : a.at \in 1 .. Len(uids) /\ a.item = uids[a.at] /\ uids[a.at] # Nobody
       /\ \A u \in 1 .. Len(uids) : u > high /\ u <= top /\ uids[u] \notin {Nobody} \cup Poor =>
              \E a \in sync'[s].adds : a.at = u /\ a.item = uids[u]
  BY <1>0, SearchFacts
<1>2. \A t \in Syncers \ {s} : sync'[t] = Idle
  BY SearchBook
<1>3. /\ uids' = uids /\ epoch' = epoch /\ state' = state /\ cache' = cache /\ methods' = methods
      /\ DOMAIN uids = 1 .. Len(uids) /\ epoch.token > 0 /\ epoch.token \in Nat
  BY <1>0, <1>1, Generations DEF provider, FolderInv, TypeOK
<1>4. ASSUME NEW i \in Items, i \notin Box PROVE ~(In(s, i)')
  <2>1. \A b \in sync'[s].adds : b.item \in Box
    BY <1>0, <1>1, <1>3 DEF FolderInv
  <2> QED
    BY <1>4, <2>1 DEF In
<1>5. ASSUME NEW i \in Items PROVE ~(Forgets(sync[s].next, i)')
  <2>1. sync'[s].next.cursor.epoch = 0
    BY <1>1, IdleFields
  <2> QED
    BY <1>3, <2>1 DEF Forgets
<1>6. ASSUME NEW i \in Items, Forgets(state, i) PROVE i \notin Box
  <2>1. PICK st \in States : st = state
    BY <1>0 DEF TypeOK
  <2> QED
    BY <1>0, <1>6, <2>1, CoversBox
<1>7. ASSUME OneMethod'
      PROVE  /\ \A e \in Exts : cache'[e].item # Nobody => cache'[e].method = Head(methods)
             /\ sync'[s].left = methods
             /\ \A i \in Items : Forgets(state, i)' => ~(Has(i)') /\ ~(In(s, i)')
  <2>0. OneMethod /\ sync[s].left = methods /\ \A e \in Exts : cache[e].item # Nobody => cache[e].method = Head(methods)
    <3>1. OneMethod
      BY <1>0, <1>7, OneMethodBefore
    <3> QED
      BY <1>1, <3>1 DEF ForgetInv, FirstMethod, Active
  <2>1. ASSUME NEW i \in Items, Forgets(state, i)' PROVE ~(Has(i)') /\ ~(In(s, i)')
    <3>1. Forgets(state, i)
      BY <1>0, <1>1, <2>1, OldCovers
    <3>2. ~Has(i) /\ i \notin Box
      BY <1>6, <2>0, <3>1 DEF ForgetInv
    <3> QED
      BY <1>3, <1>4, <3>2 DEF Has
  <2> QED
    BY <1>1, <1>3, <2>0, <2>1
<1> QED
  BY <1>2, <1>3, <1>5, <1>7, ForgetFrame

(* In one process, while only the first method has been asked, mail whose    *)
(* removal the saved delta cursor has passed over has no row.                *)
THEOREM RemovalsAreTold == OneProcess => (Spec => []TombstonesApplied)
<1> SUFFICES ASSUME OneProcess PROVE Spec => []TombstonesApplied
  OBVIOUS
<1>1. Init => BookInv /\ CoverInv /\ ForgetInv
  <2> SUFFICES ASSUME Init PROVE BookInv /\ CoverInv /\ ForgetInv
    OBVIOUS
  <2>1. BookInv /\ CoverInv
    BY CoverInit
  <2>2. state = NoState /\ \A s \in Syncers : sync[s] = Idle
    BY DEF Init
  <2>3. \A e \in Exts : cache[e].item = Nobody
    BY DEF Init, NoRow
  <2>4. \A i \in Items : ~Forgets(state, i)
    BY <2>1, <2>2, NoStateCovers DEF BookInv
  <2>5. \A s \in Syncers : ~Answering(s) /\ ~Active(s)
    BY <2>2, IdleFields DEF Answering, Active
  <2> QED
    BY <2>1, <2>3, <2>4, <2>5 DEF ForgetInv, FirstMethod
<1>2. BookInv /\ CoverInv /\ ForgetInv /\ [Next]_vars => (BookInv /\ CoverInv /\ ForgetInv)'
  <2> SUFFICES ASSUME BookInv, CoverInv, ForgetInv, [Next]_vars PROVE (BookInv /\ CoverInv /\ ForgetInv)'
    OBVIOUS
  <2>1. BookInv' /\ CoverInv'
    BY CoverStep
  <2>2. CASE UNCHANGED vars
    BY <2>1, <2>2 DEF vars, ForgetInv, OneMethod, FirstMethod, Forgets, Last, Has, In, Answering, Active, Goes
  <2>3. CASE Folder
    BY <2>1, <2>3, FolderKeepsForget
  <2>4. ASSUME NEW s \in Syncers, Begin(s) \/ Step(s) \/ Failure(s) \/ Interrupted(s) PROVE ForgetInv'
    BY <2>4, AskingForget, PageForget, SearchForget, EndedForget, UpsertForget, DeleteForget DEF Step
  <2> QED
    BY <2>1, <2>2, <2>3, <2>4 DEF Next
<1>3. BookInv /\ CoverInv /\ ForgetInv => TombstonesApplied
  <2> SUFFICES ASSUME BookInv, ForgetInv, used["failure"] + used["asked"] = 0, state.cursor.epoch = epoch.token,
                      NEW n \in state.cursor.since + 1 .. state.cursor.pos, log[n].kind = "del", Last(n)
               PROVE  cache[ExtOf[log[n].item]].item # log[n].item
    BY DEF TombstonesApplied
  <2>0. TypeOK /\ Grounded(state)
    BY DEF BookInv
  <2>1. OneMethod
    <3>1. used["failure"] \in Nat /\ used["asked"] \in Nat
      BY <2>0 DEF TypeOK, Events
    <3> QED
      BY <3>1 DEF OneMethod
  <2>2. n \in 1 .. Len(log)
    BY <2>0, LogType, StateType DEF TypeOK, Grounded
  <2>3. log[n].item \in Items /\ log[n] = [item |-> log[n].item, kind |-> "del"]
    BY <2>0, <2>2, LogType
  <2>4. Forgets(state, log[n].item)
    BY <2>3 DEF Forgets
  <2> QED
    BY <2>1, <2>3, <2>4 DEF ForgetInv, Has
<1> QED
  BY <1>1, <1>2, <1>3, PTL DEF Spec

-----------------------------------------------------------------------------
(* Sync keeps the promise of FolderMirror.  This needs no mutex: what callers *)
(* carry and what the cache holds has been in the folder, and what they       *)
(* delete has left it.                                                        *)

Gone == {i \in Items : Left(i)}
Known == Box \union Gone
HeardInv ==
  /\ \A e \in Exts : cache[e].item \in Known \union {Nobody}
  /\ \A s \in Syncers : (\A a \in sync[s].adds : a.item \in Known) /\ sync[s].dels \subseteq Gone
MirrorInv == TypeOK /\ Bounded /\ FolderInv /\ HeardInv

(* What has been in the folder stays so, and what has left it.               *)
LEMMA KnownStays ==
  ASSUME TypeOK, FolderInv, [Next]_vars
  PROVE  FolderInv' /\ Known \subseteq Known' /\ Gone \subseteq Gone'
<1>1. ASSUME NEW i \in Items, Arrive(i)
      PROVE  FolderInv' /\ Known \subseteq Known' /\ Gone \subseteq Gone'
  <2>1. log' = Append(log, [item |-> i, kind |-> "add"])
    BY <1>1 DEF Arrive
  <2>2. \A j \in Items : (j \in Box' <=> j = i \/ j \in Box) /\ (Left(j)' <=> Left(j))
    BY <2>1, AppendBox
  <2> QED
    BY <1>1, <2>1, <2>2, ArriveFolder DEF Known, Gone, Box
<1>2. ASSUME NEW i \in Items, Leave(i)
      PROVE  FolderInv' /\ Known \subseteq Known' /\ Gone \subseteq Gone'
  <2>1. log' = Append(log, [item |-> i, kind |-> "del"])
    BY <1>2 DEF Leave
  <2>2. \A j \in Items : (j \in Box' <=> j # i /\ j \in Box) /\ (Left(j)' <=> Left(j) \/ j = i)
    BY <2>1, AppendBox
  <2> QED
    BY <1>2, <2>1, <2>2, LeaveFolder DEF Known, Gone, Box
<1>3. ASSUME UNCHANGED log PROVE Known \subseteq Known' /\ Gone \subseteq Gone'
  BY <1>3 DEF Known, Gone, Box, Last, Left
<1>4. CASE Expire \/ Renumber
  <2>1. UNCHANGED log
    BY <1>4 DEF Expire, Renumber
  <2> QED
    BY <1>3, <1>4, <2>1, EpochFolder
<1>5. CASE UNCHANGED provider
  <2>2. used'["return"] = 0 => used["return"] = 0
    BY StillUnused DEF Events
  <2>3. FolderInv'
    BY <1>5, <2>2 DEF FolderInv, provider, Box, Last, Left, Arrived
  <2> QED
    BY <1>3, <1>5, <2>3 DEF provider
<1>6. (\E i \in Items : Arrive(i) \/ Leave(i)) \/ Expire \/ Renumber \/ UNCHANGED provider
  <2>1. ASSUME NEW s \in Syncers, Begin(s) \/ Failure(s) \/ Interrupted(s)
        PROVE  UNCHANGED provider
    BY <2>1 DEF Begin, Failure, Interrupted
  <2>2. ASSUME NEW s \in Syncers, Step(s)
        PROVE  UNCHANGED provider
    BY <2>2 DEF Step, GraphPage, Refused, ImapSearch, SaveFailure, Upsert, Delete, Save
  <2>3. CASE UNCHANGED vars
    BY <2>3 DEF vars, provider
  <2> QED
    BY <2>1, <2>2, <2>3 DEF Next, Folder
<1> QED
  BY <1>1, <1>2, <1>4, <1>5, <1>6

\* What a step does to the rows of the cache.
Absorbs == \A e \in Exts :
  \/ cache'[e].item = cache[e].item
  \/ cache'[e].item \in Known /\ ExtOf[cache'[e].item] = e
  \/ cache'[e].item = Nobody /\ cache[e].item \in Gone

(* What callers are told and what they store has been in the folder.         *)
LEMMA CallersHear ==
  ASSUME MirrorInv, [Next]_vars
  PROVE  /\ Absorbs
         /\ \A s \in Syncers : (\A a \in sync'[s].adds : a.item \in Known) /\ sync'[s].dels \subseteq Gone
<1> DEFINE Hears(s) == (\A a \in sync'[s].adds : a.item \in Known) /\ sync'[s].dels \subseteq Gone
<1>1. \A s \in Syncers : (\A a \in sync[s].adds : a.item \in Known) /\ sync[s].dels \subseteq Gone
  BY DEF MirrorInv, HeardInv
<1>2. ASSUME UNCHANGED <<cache, sync>> PROVE Absorbs /\ \A s \in Syncers : Hears(s)
  BY <1>1, <1>2 DEF Absorbs
<1>3. CASE UNCHANGED vars
  BY <1>2, <1>3 DEF vars
<1>4. CASE Folder
  BY <1>2, <1>4, FolderType DEF MirrorInv
<1>5. ASSUME NEW s \in Syncers, \A t \in Syncers \ {s} : sync'[t] = sync[t], Hears(s), Absorbs
      PROVE  Absorbs /\ \A t \in Syncers : Hears(t)
  BY <1>1, <1>5
<1>6. ASSUME UNCHANGED cache PROVE Absorbs
  BY <1>6 DEF Absorbs
<1>7. ASSUME NEW s \in Syncers, Begin(s) PROVE Absorbs /\ \A t \in Syncers : Hears(t)
  <2>1. UNCHANGED cache /\ sync'[s].adds = {} /\ sync'[s].dels = {} /\ \A t \in Syncers \ {s} : sync'[t] = sync[t]
    BY <1>7, BeginFacts DEF MirrorInv
  <2> QED
    BY <1>5, <1>6, <2>1
<1>8. ASSUME NEW s \in Syncers, GraphPage(s) PROVE Absorbs /\ \A t \in Syncers : Hears(t)
  <2>1. PICK token \in Tokens, last \in Nat :
         /\ token = GraphToken(s)
         /\ sync' \in [Syncers -> Syncs] /\ \A t \in Syncers \ {s} : sync'[t] = sync[t]
         /\ UNCHANGED <<provider, cache, state, used>>
         /\ sync[s].pc = "ask" /\ sync[s].left # <<>> /\ Head(sync[s].left) = "graph" /\ token.epoch = epoch.token
         /\ last <= Len(log) /\ (token.pos <= Len(log) => token.pos <= last)
         /\ sync'[s].pc \in {"ask", "upsert"} /\ sync'[s].left = sync[s].left /\ sync'[s].from = sync[s].from
         /\ sync'[s].alias = sync[s].alias /\ sync'[s].pages > 0
         /\ sync'[s].next = [cursor |-> [pos |-> last, since |-> token.since, epoch |-> epoch.token],
                             validity |-> 0, high |-> 0]
         /\ \A a : a \in sync'[s].adds <=>
              \/ a \in sync[s].adds
              \/ \E n \in token.pos + 1 .. last : log[n].kind = "add" /\ Last(n) /\ a = [at |-> n, item |-> log[n].item]
         /\ \A i : i \in sync'[s].dels <=>
              \/ i \in sync[s].dels
              \/ \E n \in token.pos + 1 .. last : /\ log[n].kind = "del" /\ Last(n) /\ n > token.since
                                                  /\ i = log[n].item
    BY <1>8, PageFacts DEF MirrorInv
  <2>2. \A n \in token.pos + 1 .. last : n \in 1 .. Len(log)
    BY <2>1, LogType DEF MirrorInv, Tokens
  <2>3. \A n \in 1 .. Len(log) : Last(n) /\ log[n].kind = "add" => log[n].item \in Known
    BY LastChange DEF MirrorInv, Known
  <2>4. \A n \in 1 .. Len(log) : log[n].kind = "del" => log[n].item \in Gone
    BY LogType DEF MirrorInv, Left, Gone
  <2>5. Hears(s)
    BY <1>1, <2>1, <2>2, <2>3, <2>4
  <2> QED
    BY <1>5, <1>6, <2>1, <2>5
<1>9. ASSUME NEW s \in Syncers, ImapSearch(s) PROVE Absorbs /\ \A t \in Syncers : Hears(t)
  <2>1. /\ UNCHANGED cache /\ \A t \in Syncers \ {s} : sync'[t] = sync[t]
        /\ sync'[s].dels = sync[s].dels
        /\ \A a \in sync'[s].adds : a.at \in 1 .. Len(uids) /\ a.item = uids[a.at] /\ uids[a.at] # Nobody
    BY <1>9, SearchFacts DEF MirrorInv
  <2>2. \A u \in 1 .. Len(uids) : uids[u] # Nobody => uids[u] \in Known
    <3>1. DOMAIN uids = 1 .. Len(uids)
      BY DEF MirrorInv, TypeOK
    <3> QED
      BY <3>1 DEF MirrorInv, FolderInv, Known
  <2>3. Hears(s)
    BY <1>1, <2>1, <2>2
  <2> QED
    BY <1>5, <1>6, <2>1, <2>3
<1>10. ASSUME NEW s \in Syncers, Refused(s) \/ Failure(s) PROVE Absorbs /\ \A t \in Syncers : Hears(t)
  <2>1. /\ UNCHANGED cache /\ \A t \in Syncers \ {s} : sync'[t] = sync[t]
        /\ sync'[s].adds \in {sync[s].adds, {}} /\ sync'[s].dels \in {sync[s].dels, {}}
    BY <1>10, DroppedFacts DEF MirrorInv
  <2>2. Hears(s)
    BY <1>1, <2>1
  <2> QED
    BY <1>5, <1>6, <2>1, <2>2
<1>11. ASSUME NEW s \in Syncers, SaveFailure(s) \/ Save(s) \/ Interrupted(s)
       PROVE  Absorbs /\ \A t \in Syncers : Hears(t)
  <2>1. UNCHANGED cache /\ sync'[s] = Idle /\ \A t \in Syncers \ {s} : sync'[t] = sync[t]
    BY <1>11, EndedFacts DEF MirrorInv
  <2>2. Hears(s)
    BY <2>1, IdleFields
  <2> QED
    BY <1>5, <1>6, <2>1, <2>2
<1>12. ASSUME NEW s \in Syncers, Upsert(s) \/ Delete(s) PROVE Absorbs /\ \A t \in Syncers : Hears(t)
  <2>1. /\ \A t \in Syncers \ {s} : sync'[t] = sync[t]
        /\ sync'[s].adds = sync[s].adds /\ sync'[s].dels = sync[s].dels
    BY <1>12, StoredFacts DEF MirrorInv
  <2>2. ASSUME Upsert(s) PROVE Absorbs
    <3>2. PICK dropped \in SUBSET Poor :
           /\ \A e \in Exts : /\ Batch(s, e, dropped) = {} => cache'[e] = cache[e]
                              /\ Batch(s, e, dropped) # {} => /\ cache'[e].item = Latest(Batch(s, e, dropped)).item
                                                              /\ cache'[e].method = Head(sync[s].left)
      BY <2>2, UpsertType DEF MirrorInv
    <3>1. ASSUME NEW e \in Exts, Batch(s, e, dropped) # {}
          PROVE  cache'[e].item \in Known /\ ExtOf[cache'[e].item] = e
      <4>1. cache'[e].item = Latest(Batch(s, e, dropped)).item
        BY <3>1, <3>2, Zenon
      <4> QED
        BY <1>1, <3>1, <4>1, BatchFacts DEF MirrorInv
    <3>3. ASSUME NEW e \in Exts, Batch(s, e, dropped) = {} PROVE cache'[e] = cache[e]
      BY <3>2, <3>3, Zenon
    <3> QED
      BY <3>1, <3>3 DEF Absorbs
  <2>3. ASSUME Delete(s) PROVE Absorbs
    <3>1. ASSUME NEW e \in Exts, cache'[e].item # cache[e].item
          PROVE  cache'[e].item = Nobody /\ cache[e].item \in sync[s].dels
      BY <2>3, <3>1, DeleteType DEF MirrorInv
    <3> QED
      BY <1>1, <3>1 DEF Absorbs
  <2> QED
    BY <1>1, <1>5, <1>12, <2>1, <2>2, <2>3
<1> QED
  BY <1>3, <1>4, <1>7, <1>8, <1>9, <1>10, <1>11, <1>12 DEF Next, Step

(* Both begin with an empty folder and an empty cache.                       *)
LEMMA MirrorInit ==
  ASSUME Init
  PROVE  MirrorInv /\ Mirror!Init
<1>1. TypeOK /\ Bounded /\ FolderInv
  BY CoverInit DEF BookInv
<1>2. /\ log = <<>> /\ cache = [e \in Exts |-> NoRow] /\ \A e \in Exts : cache[e].item = Nobody
      /\ \A s \in Syncers : sync[s].adds = {} /\ sync[s].dels = {}
      /\ used["alias"] = 0 /\ used["return"] = 0
  BY IdleFields DEF Init, NoRow, Events
<1>3. Box = {} /\ {i \in Items : Left(i)} = {}
  <2>1. DOMAIN log = {}
    BY <1>2
  <2> QED
    BY <2>1 DEF Box, Left
<1>4. HeardInv
  BY <1>2 DEF HeardInv
<1>5. Mirror!Init
  <2>1. Lossy = FALSE
    BY <1>2 DEF Lossy
  <2>2. [e \in Exts |-> cache[e].item] = [e \in Exts |-> Nobody]
    BY <1>2
  <2>3. Mirror!Exts = Exts
    BY DEF Mirror!Exts, Exts
  <2> QED
    BY <1>3, <2>1, <2>2, <2>3, Zenon DEF Mirror!Init
<1> QED
  BY <1>1, <1>4, <1>5 DEF MirrorInv

(* Arrivals and removals are those of the promise, all else absorbs.         *)
LEMMA MirrorStep ==
  ASSUME MirrorInv, [Next]_vars
  PROVE  MirrorInv' /\ Mirror!Next
<1>1. TypeOK' /\ Bounded' /\ FolderInv'
  BY TypeStep, KnownStays DEF MirrorInv
<1>2. HeardInv'
  <2>1. Known \subseteq Known' /\ Gone \subseteq Gone'
    BY KnownStays DEF MirrorInv
  <2>2. \A e \in Exts : cache'[e].item \in Known \union {Nobody}
    BY CallersHear DEF Absorbs, MirrorInv, HeardInv
  <2>3. \A s \in Syncers : (\A a \in sync'[s].adds : a.item \in Known) /\ sync'[s].dels \subseteq Gone
    BY CallersHear
  <2> QED
    BY <2>1, <2>2, <2>3 DEF HeardInv
<1>3. Lossy => Lossy'
  <2>1. /\ used["alias"] \in Nat /\ used["return"] \in Nat /\ used'["alias"] \in Nat /\ used'["return"] \in Nat
        /\ used'["alias"] >= used["alias"] /\ used'["return"] >= used["return"]
    BY UsedGrows DEF MirrorInv, TypeOK, Events
  <2> QED
    BY <2>1 DEF Lossy
<1>4. ASSUME NEW i \in Items, Arrive(i) PROVE Mirror!Arrive(i)
  <2>1. log' = Append(log, [item |-> i, kind |-> "add"]) /\ UNCHANGED cache /\ i \notin Box
    BY <1>4 DEF Arrive
  <2>2. \A j \in Items : (j \in Box' <=> j = i \/ j \in Box) /\ (Left(j)' <=> Left(j))
    BY <2>1, AppendBox DEF MirrorInv
  <2>3. Box' = Box \union {i} /\ {j \in Items : Left(j)}' = {j \in Items : Left(j)}
    BY <2>2 DEF Box
  <2> QED
    BY <1>3, <2>1, <2>3 DEF Mirror!Arrive, Mirror!MayLose
<1>5. ASSUME NEW i \in Items, Leave(i) PROVE Mirror!Leave(i)
  <2>1. log' = Append(log, [item |-> i, kind |-> "del"]) /\ UNCHANGED <<cache, used>> /\ i \in Box
    BY <1>5 DEF Leave
  <2>2. \A j \in Items : (j \in Box' <=> j # i /\ j \in Box) /\ (Left(j)' <=> Left(j) \/ j = i)
    BY <2>1, AppendBox DEF MirrorInv
  <2>3. Box' = Box \ {i} /\ {j \in Items : Left(j)}' = {j \in Items : Left(j)} \union {i}
    BY <2>2 DEF Box
  <2> QED
    BY <2>1, <2>3 DEF Mirror!Leave, Lossy
<1>6. ASSUME UNCHANGED log PROVE Mirror!Absorb
  <2> DEFINE h == [e \in Exts |-> cache'[e].item]
  <2>1. h \in [Exts -> Items \union {Nobody}]
    BY <1>1 DEF TypeOK
  <2>2. Box' = Box /\ {j \in Items : Left(j)}' = {j \in Items : Left(j)}
    BY <1>6 DEF Box, Last, Left
  <2>3. \A e \in Exts : \/ h[e] \in {cache[e].item} \union {i \in Box \union {j \in Items : Left(j)} : ExtOf[i] = e}
                        \/ h[e] = Nobody /\ cache[e].item \in {j \in Items : Left(j)}
    BY CallersHear DEF Absorbs, Known, Gone
  <2> QED
    BY <1>3, <2>1, <2>2, <2>3 DEF Mirror!Absorb, Mirror!MayLose, Mirror!Exts, Mirror!Seen, Exts
<1>7. UNCHANGED log \/ \E i \in Items : Arrive(i) \/ Leave(i)
  BY DEF Next, Folder, vars, provider, Step, Begin, GraphPage, Refused, ImapSearch, SaveFailure, Upsert, Delete,
     Save, Failure, Interrupted, Expire, Renumber
<1>8. Mirror!Next
  BY <1>4, <1>5, <1>6, <1>7 DEF Mirror!Next
<1> QED
  BY <1>1, <1>2, <1>8 DEF MirrorInv

(* Sync implements the safety of FolderMirror, for any number of callers and *)
(* with or without the mutex: the cache learns only mail that has been in    *)
(* the folder, each under its own identity, and forgets only mail that has   *)
(* left it.                                                                  *)
THEOREM CacheMirrors == Spec => Mirror!Safe
<1>1. Init => MirrorInv /\ Mirror!Init
  BY MirrorInit
<1>2. MirrorInv /\ [Next]_vars => MirrorInv' /\ [Mirror!Next]_(Mirror!vars)
  BY MirrorStep
<1> QED
  BY <1>1, <1>2, PTL DEF Spec, Mirror!Safe

-----------------------------------------------------------------------------
(* RangeRestore: types.                                                      *)

(* RangeRestore counts messages as the facts about finite sets do.           *)
LEMMA SameCount == \A S : R!Cardinality(S) = Cardinality(S)
BY DEF R!Cardinality, Cardinality

(* The counters.                                                             *)
LEMMA Counters ==
  ASSUME spent \in [DOMAIN R!NoneUsed -> Nat]
  PROVE  /\ R!NoneUsed \in [DOMAIN R!NoneUsed -> Nat]
         /\ DOMAIN R!NoneUsed = {"errors", "deletes", "restores", "exports"}
         /\ \A max : \A k \in DOMAIN R!NoneUsed : R!Spend(k, max) =>
              /\ spent' \in [DOMAIN R!NoneUsed -> Nat] /\ spent'[k] = spent[k] + 1
              /\ \A l \in DOMAIN R!NoneUsed \ {k} : spent'[l] = spent[l]
<1>1. R!NoneUsed \in [DOMAIN R!NoneUsed -> Nat]
  BY DEF R!NoneUsed
<1>2. DOMAIN R!NoneUsed = {"errors", "deletes", "restores", "exports"}
  BY DEF R!NoneUsed
<1>3. ASSUME NEW k \in DOMAIN R!NoneUsed, NEW max, R!Spend(k, max)
      PROVE  /\ spent' \in [DOMAIN R!NoneUsed -> Nat] /\ spent'[k] = spent[k] + 1
             /\ \A l \in DOMAIN R!NoneUsed \ {k} : spent'[l] = spent[l]
  BY <1>3 DEF R!Spend
<1> QED
  BY <1>1, <1>2, <1>3

(* What a call that has started looks like.                                  *)
LEMMA CallFields ==
  ASSUME R!TypeOK
  PROVE  /\ restore.at \in {"idle", "ask", "store"} /\ (restore.at = "idle" <=> restore = R!Idle)
         /\ restore # R!Idle =>
              /\ restore.at \in {"ask", "store"} /\ restore.range \in R!Ranges /\ restore.todo \in Seq(R!Asks)
              /\ restore.got \subseteq Messages /\ restore.present \subseteq Messages
         /\ export.at \in {"idle", "count", "read", "done"} /\ (export.at = "idle" <=> export = R!Idle)
         /\ export # R!Idle => /\ export.offset \in Nat /\ export.total \in Nat
                              /\ export.rows \subseteq Messages /\ export.stays \subseteq Messages
<1>1. R!Idle.at = "idle"
  BY DEF R!Idle
<1>2. CASE restore = R!Idle /\ export = R!Idle
  BY <1>1, <1>2
<1>3. restore \in R!Restores => /\ restore.at \in {"ask", "store"} /\ restore.range \in R!Ranges /\ restore.todo \in Seq(R!Asks)
                              /\ restore.got \subseteq Messages /\ restore.present \subseteq Messages
  BY DEF R!Restores
<1>4. export \in R!Exports => /\ export.at \in {"count", "read", "done"} /\ export.offset \in Nat /\ export.total \in Nat
                            /\ export.rows \subseteq Messages /\ export.stays \subseteq Messages
  BY DEF R!Exports
<1> QED
  BY <1>1, <1>3, <1>4 DEF R!TypeOK

(* A provider answers with mail it holds.                                    *)
LEMMA AnswerIsMail ==
  ASSUME NEW adapter, NEW r
  PROVE  R!Answer(adapter, r) \subseteq mail
<1>1. \A S, n : R!Newest(S, n) \subseteq S
  BY DEF R!Newest
<1>2. R!Selected(adapter, r) \subseteq mail
  BY DEF R!Selected
<1> QED
  BY <1>1, <1>2 DEF R!Answer

(* A range is halved inside.                                                 *)
LEMMA HalvesType ==
  ASSUME NEW r \in R!Asks, r.before - r.after > Second, r.depth < MaxDepth
  PROVE  \E middle \in R!Times :
           /\ r.after < middle /\ middle < r.before
           /\ middle - r.after <= r.before - middle /\ r.before - middle <= middle - r.after + 1
           /\ R!Halves(r) = <<[after |-> r.after, before |-> middle, depth |-> r.depth + 1],
                            [after |-> middle, before |-> r.before, depth |-> r.depth + 1]>>
           /\ R!Halves(r) \in Seq(R!Asks)
<1> DEFINE middle == r.after + (r.before - r.after) \div 2
<1>1. /\ r.after \in 0..MaxTime /\ r.before \in 0..MaxTime /\ r.depth \in 0..MaxDepth
      /\ Second \in Nat \ {0} /\ MaxTime \in Nat /\ MaxDepth \in Nat
  BY RangesAssumption DEF R!Asks, R!Times
<1>2. \A w \in Nat : w >= 2 => w \div 2 \in Nat /\ 0 < w \div 2 /\ w \div 2 < w
                               /\ w \div 2 <= w - (w \div 2) /\ w - (w \div 2) <= (w \div 2) + 1
  OBVIOUS
<1>3. r.before - r.after \in Nat /\ r.before - r.after >= 2
  BY <1>1
<1>4. /\ middle \in 0..MaxTime /\ r.after < middle /\ middle < r.before
      /\ middle - r.after <= r.before - middle /\ r.before - middle <= middle - r.after + 1
  BY <1>1, <1>2, <1>3
<1>5. r.depth + 1 \in 0..MaxDepth
  BY <1>1
<1>6. R!Halves(r) = <<[after |-> r.after, before |-> middle, depth |-> r.depth + 1],
                    [after |-> middle, before |-> r.before, depth |-> r.depth + 1]>>
  BY DEF R!Halves
<1> HIDE DEF middle
<1>7. /\ [after |-> r.after, before |-> middle, depth |-> r.depth + 1] \in R!Asks
      /\ [after |-> middle, before |-> r.before, depth |-> r.depth + 1] \in R!Asks
  BY <1>1, <1>4, <1>5 DEF R!Asks, R!Times
<1>8. \A a, b \in R!Asks : <<a, b>> \in Seq(R!Asks)
  OBVIOUS
<1> QED
  BY <1>4, <1>6, <1>7, <1>8 DEF R!Times

(* The ranges still to ask, without the first or with its halves instead.    *)
LEMMA Queues ==
  ASSUME NEW todo \in Seq(R!Asks), todo # <<>>, NEW a \in R!Asks, NEW b \in R!Asks
  PROVE  /\ Len(todo) \in Nat \ {0} /\ DOMAIN todo = 1 .. Len(todo) /\ \A i \in 1 .. Len(todo) : todo[i] \in R!Asks
         /\ Head(todo) = todo[1] /\ Head(todo) \in R!Asks
         /\ Tail(todo) \in Seq(R!Asks) /\ Len(Tail(todo)) = Len(todo) - 1
         /\ (Tail(todo) = <<>> <=> Len(todo) = 1)
         /\ \A i \in 1 .. Len(todo) - 1 : Tail(todo)[i] = todo[i + 1]
         /\ <<a, b>> \o Tail(todo) \in Seq(R!Asks) /\ <<a, b>> \o Tail(todo) # <<>>
         /\ Len(<<a, b>> \o Tail(todo)) = Len(todo) + 1
         /\ (<<a, b>> \o Tail(todo))[1] = a /\ (<<a, b>> \o Tail(todo))[2] = b
         /\ \A i \in 2 .. Len(todo) : (<<a, b>> \o Tail(todo))[i + 1] = todo[i]
<1>1. /\ Len(todo) \in Nat \ {0} /\ DOMAIN todo = 1 .. Len(todo) /\ \A i \in 1 .. Len(todo) : todo[i] \in R!Asks
      /\ Head(todo) = todo[1] /\ Head(todo) \in R!Asks
  OBVIOUS
<1>2. /\ Tail(todo) \in Seq(R!Asks) /\ Len(Tail(todo)) = Len(todo) - 1
      /\ (Tail(todo) = <<>> <=> Len(todo) = 1)
      /\ \A i \in 1 .. Len(todo) - 1 : Tail(todo)[i] = todo[i + 1]
  <2>1. Tail(todo) \in Seq(R!Asks) /\ Len(Tail(todo)) = Len(todo) - 1
    OBVIOUS
  <2>2. \A i \in 1 .. Len(todo) - 1 : Tail(todo)[i] = todo[i + 1]
    OBVIOUS
  <2>3. \A q \in Seq(R!Asks) : q = <<>> <=> Len(q) = 0
    OBVIOUS
  <2>4. Tail(todo) = <<>> <=> Len(todo) = 1
    BY <1>1, <2>1, <2>3
  <2> QED
    BY <2>1, <2>2, <2>4
<1> DEFINE rest == Tail(todo)
<1>3. <<a, b>> \in Seq(R!Asks) /\ Len(<<a, b>>) = 2 /\ <<a, b>>[1] = a /\ <<a, b>>[2] = b
  OBVIOUS
<1>4. rest \in Seq(R!Asks) /\ Len(rest) = Len(todo) - 1 /\ \A i \in 1 .. Len(todo) - 1 : rest[i] = todo[i + 1]
  BY <1>2
<1> HIDE DEF rest
<1>5. /\ <<a, b>> \o rest \in Seq(R!Asks) /\ Len(<<a, b>> \o rest) = 2 + Len(rest)
      /\ (<<a, b>> \o rest)[1] = a /\ (<<a, b>> \o rest)[2] = b
      /\ \A i \in 1 .. Len(rest) : (<<a, b>> \o rest)[i + 2] = rest[i]
  BY <1>3, <1>4
<1>6. \A i \in 2 .. Len(todo) : (<<a, b>> \o rest)[i + 1] = todo[i]
  <2> SUFFICES ASSUME NEW i \in 2 .. Len(todo) PROVE (<<a, b>> \o rest)[i + 1] = todo[i]
    OBVIOUS
  <2>1. i - 1 \in 1 .. Len(rest) /\ i - 1 \in 1 .. Len(todo) - 1 /\ (i - 1) + 2 = i + 1 /\ (i - 1) + 1 = i
    BY <1>1, <1>4
  <2>2. (<<a, b>> \o rest)[(i - 1) + 2] = rest[i - 1] /\ rest[i - 1] = todo[(i - 1) + 1]
    BY <1>4, <1>5, <2>1
  <2> QED
    BY <2>1, <2>2
<1>7. <<a, b>> \o rest # <<>> /\ Len(<<a, b>> \o rest) = Len(todo) + 1
  BY <1>1, <1>4, <1>5
<1> QED
  BY <1>1, <1>2, <1>5, <1>6, <1>7 DEF rest

\* The ranges still to ask follow each other up to the end of the request.
Chain(todo, end) ==
  /\ todo # <<>> /\ todo[Len(todo)].before = end
  /\ \A i \in 1 .. Len(todo) : todo[i].after < todo[i].before
  /\ \A i \in 1 .. Len(todo) - 1 : todo[i].before = todo[i + 1].after

(* They do when the first is done ...                                       *)
LEMMA TailChains ==
  ASSUME NEW todo \in Seq(R!Asks), NEW end, Chain(todo, end), Tail(todo) # <<>>
  PROVE  Chain(Tail(todo), end)
<1>1. todo # <<>> /\ todo[1] \in R!Asks /\ Len(todo) \in Nat \ {0}
  BY DEF Chain
<1>2. /\ Len(Tail(todo)) = Len(todo) - 1 /\ \A i \in 1 .. Len(todo) - 1 : Tail(todo)[i] = todo[i + 1]
      /\ Len(todo) # 1
  BY <1>1, Queues
<1>3. Len(todo) - 1 \in 1 .. Len(todo) - 1 /\ (Len(todo) - 1) + 1 = Len(todo)
  BY <1>1, <1>2
<1>4. Tail(todo)[Len(Tail(todo))].before = end
  BY <1>2, <1>3 DEF Chain
<1>5. \A i \in 1 .. Len(todo) - 1 : i + 1 \in 1 .. Len(todo)
  BY <1>1
<1>6. \A i \in 1 .. Len(Tail(todo)) : Tail(todo)[i].after < Tail(todo)[i].before
  BY <1>2, <1>5 DEF Chain
<1>7. ASSUME NEW i \in 1 .. Len(Tail(todo)) - 1
      PROVE  Tail(todo)[i].before = Tail(todo)[i + 1].after
  <2>1. i \in 1 .. Len(todo) - 1 /\ i + 1 \in 1 .. Len(todo) - 1
    BY <1>1, <1>2
  <2>2. Tail(todo)[i] = todo[i + 1] /\ Tail(todo)[i + 1] = todo[(i + 1) + 1]
    BY <1>2, <2>1
  <2> QED
    BY <2>1, <2>2 DEF Chain
<1> QED
  BY <1>4, <1>6, <1>7 DEF Chain

(* ... and when its halves take its place.                                   *)
LEMMA HalvesChain ==
  ASSUME NEW todo \in Seq(R!Asks), NEW end, Chain(todo, end), NEW a \in R!Asks, NEW b \in R!Asks,
         a.after = todo[1].after, a.before = b.after, b.before = todo[1].before,
         a.after < a.before, b.after < b.before
  PROVE  Chain(<<a, b>> \o Tail(todo), end)
<1> DEFINE q == <<a, b>> \o Tail(todo)
<1>1. todo # <<>> /\ Len(todo) \in Nat \ {0}
  BY DEF Chain
<1>2. q # <<>> /\ Len(q) = Len(todo) + 1 /\ q[1] = a /\ q[2] = b /\ \A i \in 2 .. Len(todo) : q[i + 1] = todo[i]
  BY <1>1, Queues
<1> HIDE DEF q
<1>3. ASSUME NEW i \in 3 .. Len(q) PROVE i - 1 \in 2 .. Len(todo) /\ q[i] = todo[i - 1]
  <2>1. i - 1 \in 2 .. Len(todo) /\ (i - 1) + 1 = i
    BY <1>1, <1>2
  <2> QED
    BY <1>2, <2>1
<1>4. q[Len(q)].before = end
  <2>1. CASE Len(todo) = 1
    BY <1>1, <1>2, <2>1 DEF Chain
  <2>2. CASE Len(todo) # 1
    <3>1. \A n \in Nat \ {0} : n # 1 => n + 1 \in 3 .. n + 1 /\ (n + 1) - 1 = n
      OBVIOUS
    <3>2. Len(q) \in 3 .. Len(q) /\ Len(q) - 1 = Len(todo)
      BY <1>1, <1>2, <2>2, <3>1
    <3> QED
      BY <1>3, <3>2 DEF Chain
  <2> QED
    BY <2>1, <2>2
<1>5. \A i \in 1 .. Len(q) : q[i].after < q[i].before
  <2> SUFFICES ASSUME NEW i \in 1 .. Len(q) PROVE q[i].after < q[i].before
    OBVIOUS
  <2>1. CASE i = 1 \/ i = 2
    BY <1>2, <2>1
  <2>2. CASE i # 1 /\ i # 2
    <3>1. i \in 3 .. Len(q)
      BY <1>1, <1>2, <2>2
    <3>2. i - 1 \in 1 .. Len(todo) /\ q[i] = todo[i - 1]
      BY <1>1, <1>3, <3>1
    <3> QED
      BY <3>2 DEF Chain
  <2> QED
    BY <2>1, <2>2
<1>6. \A i \in 1 .. Len(q) - 1 : q[i].before = q[i + 1].after
  <2> SUFFICES ASSUME NEW i \in 1 .. Len(q) - 1 PROVE q[i].before = q[i + 1].after
    OBVIOUS
  <2>1. CASE i = 1
    BY <1>2, <2>1
  <2>2. CASE i = 2
    <3>1. 3 \in 3 .. Len(q) /\ 3 - 1 = 2 /\ 2 \in 2 .. Len(todo) /\ 1 \in 1 .. Len(todo) - 1
      BY <1>1, <1>2, <2>2
    <3>2. q[3] = todo[2] /\ todo[1].before = todo[2].after
      BY <1>3, <3>1 DEF Chain
    <3> QED
      BY <1>2, <2>2, <3>2
  <2>3. CASE i # 1 /\ i # 2
    <3>0. \A n \in Nat \ {0} : \A j \in 1 .. (n + 1) - 1 : j # 1 /\ j # 2 =>
            j \in 3 .. n + 1 /\ j + 1 \in 3 .. n + 1 /\ (j + 1) - 1 = j /\ j - 1 \in 1 .. n - 1 /\ (j - 1) + 1 = j
      OBVIOUS
    <3>1. i \in 3 .. Len(q) /\ i + 1 \in 3 .. Len(q) /\ (i + 1) - 1 = i /\ i - 1 \in 1 .. Len(todo) - 1
          /\ (i - 1) + 1 = i
      BY <1>1, <1>2, <2>3, <3>0
    <3>2. q[i] = todo[i - 1] /\ q[i + 1] = todo[i]
      BY <1>3, <3>1
    <3>3. todo[i - 1].before = todo[(i - 1) + 1].after
      BY <3>1 DEF Chain
    <3> QED
      BY <3>1, <3>2, <3>3
  <2> QED
    BY <2>1, <2>2, <2>3
<1> QED
  BY <1>2, <1>4, <1>5, <1>6 DEF Chain, q

(* The queue of ranges keeps its form.                                       *)
LEMMA AskKeepsChain ==
  ASSUME NEW todo \in Seq(R!Asks), NEW end, Chain(todo, end), NEW answer
  PROVE  LET r == Head(todo)
             rest == IF R!Split(r, answer) THEN R!Halves(r) \o Tail(todo) ELSE Tail(todo)
         IN  rest \in Seq(R!Asks) /\ (rest # <<>> => Chain(rest, end))
<1> DEFINE r == Head(todo)
<1>1. /\ todo # <<>> /\ r \in R!Asks /\ r = todo[1] /\ Len(todo) \in Nat \ {0}
      /\ Tail(todo) \in Seq(R!Asks) /\ r.after < r.before
  <2>1. todo # <<>>
    BY DEF Chain
  <2>2. r \in R!Asks /\ r = todo[1] /\ Len(todo) \in Nat \ {0} /\ Tail(todo) \in Seq(R!Asks)
    BY <2>1
  <2>3. 1 \in 1 .. Len(todo)
    BY <2>2
  <2> QED
    BY <2>1, <2>2, <2>3 DEF Chain
<1>2. CASE R!Split(r, answer)
  <2> DEFINE left(middle) == [after |-> r.after, before |-> middle, depth |-> r.depth + 1]
             right(middle) == [after |-> middle, before |-> r.before, depth |-> r.depth + 1]
  <2>1. r.before - r.after > Second /\ r.depth < MaxDepth
    BY <1>2 DEF R!Split
  <2>2. PICK middle \in R!Times :
           /\ r.after < middle /\ middle < r.before
           /\ R!Halves(r) = <<left(middle), right(middle)>>
           /\ R!Halves(r) \in Seq(R!Asks)
    BY <1>1, <2>1, HalvesType
  <2>3. left(middle) \in R!Asks /\ right(middle) \in R!Asks
    <3>1. \A a, b : <<a, b>> \in Seq(R!Asks) => a \in R!Asks /\ b \in R!Asks
      <4> SUFFICES ASSUME NEW a, NEW b, <<a, b>> \in Seq(R!Asks) PROVE a \in R!Asks /\ b \in R!Asks
        OBVIOUS
      <4>1. Len(<<a, b>>) = 2 /\ <<a, b>>[1] = a /\ <<a, b>>[2] = b
        OBVIOUS
      <4>2. \A i \in 1 .. Len(<<a, b>>) : <<a, b>>[i] \in R!Asks
        OBVIOUS
      <4>3. 1 \in 1 .. Len(<<a, b>>) /\ 2 \in 1 .. Len(<<a, b>>)
        BY <4>1
      <4> QED
        BY <4>1, <4>2, <4>3
    <3> HIDE DEF left, right
    <3> QED
      BY <2>2, <3>1
  <2>4. /\ left(middle).after = todo[1].after /\ left(middle).before = right(middle).after
        /\ right(middle).before = todo[1].before
        /\ left(middle).after < left(middle).before /\ right(middle).after < right(middle).before
    BY <1>1, <2>2
  <2> HIDE DEF left, right
  <2>5. Chain(<<left(middle), right(middle)>> \o Tail(todo), end)
    BY <2>3, <2>4, HalvesChain
  <2>6. <<left(middle), right(middle)>> \o Tail(todo) \in Seq(R!Asks)
    BY <1>1, <2>3, Queues
  <2> QED
    BY <1>2, <2>2, <2>5, <2>6
<1>3. CASE ~R!Split(r, answer)
  BY <1>1, <1>3, TailChains
<1> QED
  BY <1>2, <1>3

(* What TypeOK says of the ranges still to ask.                              *)
LEMMA ChainIsTyped ==
  ASSUME NEW todo \in Seq(R!Asks), NEW end
  PROVE  Chain(todo, end) <=>
           /\ todo # <<>> /\ todo[Len(todo)].before = end
           /\ \A i \in DOMAIN todo : todo[i].after < todo[i].before
           /\ \A i \in 1..(Len(todo) - 1) : todo[i].before = todo[i + 1].after
<1>1. DOMAIN todo = 1 .. Len(todo)
  OBVIOUS
<1> QED
  BY <1>1 DEF Chain

Calls(r) ==
  /\ r = R!Idle \/ r \in R!Restores
  /\ r.at = "ask" => Chain(r.todo, r.range.before)

(* The type of the restore as TypeOK states it.                              *)
LEMMA CallsTyped ==
  ASSUME NEW r
  PROVE  Calls(r) <=>
           /\ r = R!Idle \/ r \in R!Restores
           /\ r.at = "ask" =>
                LET todo == r.todo
                IN  /\ todo # <<>> /\ todo[Len(todo)].before = r.range.before
                    /\ \A i \in DOMAIN todo : todo[i].after < todo[i].before
                    /\ \A i \in 1..(Len(todo) - 1) : todo[i].before = todo[i + 1].after
<1>1. CASE r = R!Idle
  <2>1. r.at # "ask"
    BY <1>1 DEF R!Idle
  <2> QED
    BY <1>1, <2>1 DEF Calls
<1>2. CASE r \in R!Restores
  <2>1. r.todo \in Seq(R!Asks)
    BY <1>2 DEF R!Restores
  <2> QED
    BY <1>2, <2>1, ChainIsTyped DEF Calls
<1> QED
  BY <1>1, <1>2 DEF Calls

(* One answer of a provider is gathered, or its range is halved.             *)
LEMMA AskStep ==
  ASSUME R!TypeOK, R!AskRange
  PROVE  Calls(restore') /\ restore'.range = restore.range /\ restore'.present = restore.present
<1>1. restore.at = "ask" /\ Calls(restore)
  BY CallsTyped DEF R!TypeOK, R!AskRange
<1>2. restore \in R!Restores /\ restore.todo \in Seq(R!Asks) /\ restore.got \subseteq Messages
  BY <1>1, CallFields DEF Calls, R!Restores, R!Idle
<1>3. Chain(restore.todo, restore.range.before)
  BY <1>1 DEF Calls
<1>4. PICK adapter \in Adapters :
        LET r == Head(restore.todo)
            answer == R!Answer(adapter, r)
            rest == IF R!Split(r, answer) THEN R!Halves(r) \o Tail(restore.todo) ELSE Tail(restore.todo)
        IN  restore' = [restore EXCEPT !.todo = rest, !.got = IF R!Split(r, answer) THEN @ ELSE @ \cup answer,
                                       !.at = IF rest = <<>> THEN "store" ELSE "ask"]
  BY DEF R!AskRange
<1> DEFINE r == Head(restore.todo)
           answer == R!Answer(adapter, r)
           rest == IF R!Split(r, answer) THEN R!Halves(r) \o Tail(restore.todo) ELSE Tail(restore.todo)
           got == IF R!Split(r, answer) THEN restore.got ELSE restore.got \cup answer
           at == IF rest = <<>> THEN "store" ELSE "ask"
<1>5. restore' = [restore EXCEPT !.todo = rest, !.got = got, !.at = at]
  BY <1>4
<1>6. rest \in Seq(R!Asks) /\ (rest # <<>> => Chain(rest, restore.range.before))
  BY <1>2, <1>3, AskKeepsChain
<1>7. got \subseteq Messages
  <2>1. answer \subseteq Messages
    BY AnswerIsMail DEF R!TypeOK
  <2> HIDE DEF answer
  <2> QED
    BY <1>2, <2>1
<1>8. at \in {"ask", "store"} /\ (at = "ask" => rest # <<>>)
  OBVIOUS
<1> HIDE DEF rest, got, at
<1>9. /\ restore' \in R!Restores /\ restore'.at = at /\ restore'.todo = rest
      /\ restore'.range = restore.range /\ restore'.present = restore.present
  BY <1>2, <1>5, <1>6, <1>7, <1>8 DEF R!Restores
<1> QED
  BY <1>6, <1>8, <1>9 DEF Calls

(* A message leaves the folder.                                              *)
LEMMA VanishStep ==
  ASSUME R!TypeOK, NEW m, R!Vanish(m)
  PROVE  Calls(restore')
<1>1. Calls(restore)
  BY CallsTyped DEF R!TypeOK
<1>2. CASE restore = R!Idle
  BY <1>1, <1>2 DEF R!Vanish
<1>3. CASE restore # R!Idle
  <2>1. restore' = [restore EXCEPT !.present = restore.present \ {m}] /\ restore \in R!Restores
    BY <1>1, <1>3 DEF R!Vanish, Calls
  <2>2. restore' \in R!Restores /\ restore'.at = restore.at /\ restore'.todo = restore.todo /\ restore'.range = restore.range
    BY <2>1 DEF R!Restores
  <2> QED
    BY <1>1, <2>2 DEF Calls
<1> QED
  BY <1>2, <1>3

(* The state a step leaves alone keeps its type.                             *)
LEMMA TypeParts ==
  ASSUME mail' \subseteq Messages, rows' \subseteq Messages, gone' \subseteq Messages,
         Calls(restore'), export' = R!Idle \/ export' \in R!Exports, spent' \in [DOMAIN R!NoneUsed -> Nat]
  PROVE  R!TypeOK'
<1>1. Calls(restore') <=>
           /\ restore' = R!Idle \/ restore' \in R!Restores
           /\ restore'.at = "ask" =>
                LET todo == restore'.todo
                IN  /\ todo # <<>> /\ todo[Len(todo)].before = restore'.range.before
                    /\ \A i \in DOMAIN todo : todo[i].after < todo[i].before
                    /\ \A i \in 1..(Len(todo) - 1) : todo[i].before = todo[i + 1].after
  BY CallsTyped
<1> QED
  BY <1>1 DEF R!TypeOK

(* The rows are counted.                                                     *)
LEMMA CountFields ==
  ASSUME R!TypeOK, R!CountRows
  PROVE  /\ export' \in R!Exports /\ export'.at = "read" /\ export'.offset = export.offset
         /\ export'.rows = export.rows /\ export'.stays = export.stays /\ export # R!Idle /\ export' # R!Idle
<1>1. export \in R!Exports /\ export # R!Idle
  BY DEF R!CountRows, R!TypeOK, R!Idle
<1>2. R!Cardinality(rows) \in Nat
  BY SameCount, FS_Subset, FS_CardinalityType, DateAssumption DEF R!TypeOK
<1> DEFINE n == R!Cardinality(rows)
<1>3. n \in Nat /\ export' = [export EXCEPT !.total = n, !.at = "read"]
  BY <1>2 DEF R!CountRows
<1> HIDE DEF n
<1>4. export' = [at |-> "read", offset |-> export.offset, total |-> n, rows |-> export.rows,
                 stays |-> export.stays, short |-> export.short]
  BY <1>1, <1>3 DEF R!Exports
<1> QED
  BY <1>1, <1>3, <1>4 DEF R!Exports, R!Idle

(* A page is read.                                                           *)
LEMMA ReadFields ==
  ASSUME R!TypeOK, R!ReadPage
  PROVE  /\ export \in R!Exports /\ export # R!Idle /\ export' \in R!Exports /\ export' # R!Idle
         /\ export'.rows = export.rows \cup R!Page /\ export'.offset = export.offset + ExportPage
         /\ export'.stays = export.stays /\ export'.short = (export.total < Cardinality(rows))
         /\ export'.at = IF export.offset + ExportPage > Cardinality(rows) \/ export.offset + ExportPage >= export.total
                         THEN "done" ELSE "count"
<1> DEFINE n == Cardinality(rows)
           next == IF export.offset + ExportPage > n \/ export.offset + ExportPage >= export.total THEN "done" ELSE "count"
           late == export.total < n
<1>1. export \in R!Exports /\ export # R!Idle /\ ExportPage \in Nat /\ R!Page \subseteq Messages
  BY RangesAssumption DEF R!ReadPage, R!TypeOK, R!Idle, R!Page
<1>2. next \in {"done", "count"} /\ late \in BOOLEAN
  OBVIOUS
<1>3. R!Cardinality(rows) = n
  BY SameCount
<1>4. export' = [at |-> next, offset |-> export.offset + ExportPage, total |-> export.total,
                 rows |-> export.rows \cup R!Page, stays |-> export.stays, short |-> late]
  BY <1>3 DEF R!ReadPage
<1> DEFINE offset == export.offset + ExportPage
           read == export.rows \cup R!Page
<1>5. /\ offset \in Nat /\ read \in SUBSET Messages /\ export.stays \in SUBSET Messages /\ export.total \in Nat
  BY <1>1 DEF R!Exports
<1> HIDE DEF next, late, offset, read
<1>6. export' = [at |-> next, offset |-> offset, total |-> export.total, rows |-> read, stays |-> export.stays, short |-> late]
  BY <1>4 DEF offset, read
<1>7. export' \in R!Exports /\ export' # R!Idle
  BY <1>2, <1>5, <1>6 DEF R!Exports, R!Idle
<1>8. /\ export'.rows = read /\ export'.offset = offset /\ export'.stays = export.stays /\ export'.at = next
  BY <1>6
<1>9. export'.short = late
  BY <1>6, Zenon
<1> QED
  BY <1>1, <1>7, <1>8, <1>9 DEF next, late, offset, read

(* Every step keeps the types.                                               *)
LEMMA RangesStep ==
  ASSUME R!TypeOK, [R!Next]_(R!vars)
  PROVE  R!TypeOK'
<1>1. /\ mail \subseteq Messages /\ rows \subseteq Messages /\ gone \subseteq Messages
      /\ export = R!Idle \/ export \in R!Exports
      /\ spent \in [DOMAIN R!NoneUsed -> Nat]
  BY DEF R!TypeOK
<1>2. Calls(restore)
  BY CallsTyped DEF R!TypeOK
<1>3. Calls(R!Idle)
  BY DEF Calls, R!Idle
<1>4. \A max : \A k \in DOMAIN R!NoneUsed : R!Spend(k, max) => spent' \in [DOMAIN R!NoneUsed -> Nat]
  BY <1>1, Counters
<1>5. DOMAIN R!NoneUsed = {"errors", "deletes", "restores", "exports"}
  BY DEF R!NoneUsed
<1>6. CASE R!StartRestore
  <2>1. PICK a, b \in {t \in 0..MaxTime : t % Second = 0} :
          a < b /\ restore' = [at |-> "ask", range |-> [after |-> a, before |-> b],
                               todo |-> <<[after |-> a, before |-> b, depth |-> 0]>>, got |-> {}, present |-> mail]
    BY <1>6 DEF R!StartRestore
  <2> DEFINE r == [after |-> a, before |-> b, depth |-> 0]
             q == <<r>>
  <2>2. r \in R!Asks /\ r.after < r.before /\ r.before = b
    <3>1. 0 \in 0 .. MaxDepth
      BY RangesAssumption
    <3> QED
      BY <2>1, <3>1 DEF R!Asks, R!Times
  <2> HIDE DEF r
  <2>3. q \in Seq(R!Asks) /\ q # <<>> /\ Len(q) = 1 /\ q[1] = r
    BY <2>2
  <2> HIDE DEF q
  <2>4. Chain(q, b)
    BY <2>2, <2>3 DEF Chain
  <2>5. [after |-> a, before |-> b] \in R!Ranges
    BY DEF R!Ranges, R!Times
  <2>6. restore' = [at |-> "ask", range |-> [after |-> a, before |-> b], todo |-> q, got |-> {}, present |-> mail]
    BY <2>1 DEF q, r
  <2>7. restore' \in R!Restores /\ restore'.todo = q /\ restore'.range.before = b
    BY <1>1, <2>3, <2>5, <2>6 DEF R!Restores
  <2>8. Calls(restore')
    BY <2>4, <2>7 DEF Calls
  <2> QED
    BY <1>1, <1>4, <1>5, <1>6, <2>8, TypeParts DEF R!StartRestore
<1>7. CASE R!AskRange
  BY <1>1, <1>7, AskStep, TypeParts DEF R!AskRange
<1>8. CASE R!RestoreFails
  BY <1>1, <1>3, <1>4, <1>5, <1>8, TypeParts DEF R!RestoreFails
<1>9. CASE R!Store
  <2>1. restore.got \subseteq Messages
    BY <1>9, CallFields DEF R!Store, R!Idle
  <2> QED
    BY <1>1, <1>3, <1>9, <2>1, TypeParts DEF R!Store
<1>10. ASSUME NEW m \in Messages, R!Arrive(m)
       PROVE  R!TypeOK'
  BY <1>1, <1>2, <1>10, TypeParts DEF R!Arrive
<1>11. ASSUME NEW m \in Messages, R!Vanish(m)
       PROVE  R!TypeOK'
  BY <1>1, <1>4, <1>5, <1>11, VanishStep, TypeParts DEF R!Vanish
<1>12. \A set : R!Drop(set) => rows' \subseteq Messages /\ (export' = R!Idle \/ export' \in R!Exports)
  <2> SUFFICES ASSUME NEW set, R!Drop(set)
               PROVE  rows' \subseteq Messages /\ (export' = R!Idle \/ export' \in R!Exports)
    OBVIOUS
  <2>1. CASE export = R!Idle
    BY <1>1, <2>1 DEF R!Drop
  <2>2. CASE export # R!Idle
    BY <1>1, <2>2 DEF R!Drop, R!Exports
  <2> QED
    BY <2>1, <2>2
<1>13. CASE R!SyncFolder
  <2>1. CASE gone # {} /\ R!Drop(gone) /\ gone' = {}
    BY <1>1, <1>2, <1>12, <1>13, <2>1, TypeParts DEF R!SyncFolder
  <2>2. CASE \E m \in mail \ rows : rows' = rows \cup {m} /\ UNCHANGED <<gone, export>>
    BY <1>1, <1>2, <1>13, <2>2, TypeParts DEF R!SyncFolder
  <2> QED
    BY <1>13, <2>1, <2>2 DEF R!SyncFolder
<1>14. CASE R!DeleteManaged
  <2>1. rows' \subseteq Messages /\ (export' = R!Idle \/ export' \in R!Exports)
    BY <1>12, <1>14 DEF R!DeleteManaged
  <2> QED
    BY <1>1, <1>2, <1>4, <1>5, <1>14, <2>1, TypeParts DEF R!DeleteManaged
<1>15. CASE R!StartExport
  <2>1. export' \in R!Exports
    BY <1>1, <1>15 DEF R!StartExport, R!Exports
  <2> QED
    BY <1>1, <1>2, <1>4, <1>5, <1>15, <2>1, TypeParts DEF R!StartExport
<1>16. CASE R!ReadPage
  <2>1. export' \in R!Exports
    BY <1>16, ReadFields
  <2> QED
    BY <1>1, <1>2, <1>16, <2>1, TypeParts DEF R!ReadPage
<1>17. CASE R!EndExport
  BY <1>1, <1>2, <1>17, TypeParts DEF R!EndExport
<1>19. CASE R!CountRows
  BY <1>1, <1>2, <1>19, CountFields, TypeParts DEF R!CountRows
<1>18. CASE UNCHANGED R!vars
  BY <1>1, <1>2, <1>18, TypeParts DEF R!vars
<1> QED
  BY <1>6, <1>7, <1>8, <1>9, <1>10, <1>11, <1>13, <1>14, <1>15, <1>16, <1>17, <1>18, <1>19 DEF R!Next

(* The ranges a restore has still to ask follow each other up to the end of  *)
(* the requested range, whatever was halved: no halving opens a gap between  *)
(* two requests, and no request runs past the end.                           *)
THEOREM RangesTyped == R!Spec => []R!TypeOK
<1>1. R!Init => R!TypeOK
  <2> SUFFICES ASSUME R!Init PROVE R!TypeOK
    OBVIOUS
  <2>1. R!NoneUsed \in [DOMAIN R!NoneUsed -> Nat]
    BY DEF R!NoneUsed
  <2> QED
    BY <2>1 DEF R!Init, R!TypeOK, R!Idle
<1>2. R!TypeOK /\ [R!Next]_(R!vars) => R!TypeOK'
  BY RangesStep
<1> QED
  BY <1>1, <1>2, PTL DEF R!Spec

-----------------------------------------------------------------------------
(* The export.                                                               *)

\* The rows an export reads before m.
Ahead(S, m) == {k \in S : Date[k] > Date[m] \/ (Date[k] = Date[m] /\ Id[k] < Id[m])}

\* Nothing has been deleted: the rows there were at the beginning are still
\* there, and one not read yet stands behind the pages read.
ExportInv ==
  spent.deletes = 0 =>
    /\ gone = {}
    /\ export # R!Idle => export.stays \subseteq rows
    /\ export.at \in {"count", "read"} =>
         \A m \in export.stays : m \in export.rows \/ Cardinality(Ahead(rows, m)) >= export.offset
    /\ export.at = "done" /\ ~export.short => export.stays \subseteq export.rows

(* Rows that are added push the others back, never forward, and a row stands *)
(* within the table.                                                         *)
LEMMA RanksGrow ==
  ASSUME NEW S \in SUBSET Messages, NEW T \in SUBSET Messages, S \subseteq T, NEW m \in S
  PROVE  /\ Cardinality(Ahead(S, m)) \in Nat /\ Cardinality(S) \in Nat
         /\ Cardinality(Ahead(S, m)) <= Cardinality(Ahead(T, m))
         /\ Cardinality(Ahead(S, m)) < Cardinality(S)
<1> DEFINE A == Ahead(S, m)
           B == Ahead(T, m)
<1>1. IsFiniteSet(S) /\ IsFiniteSet(T) /\ IsFiniteSet(B) /\ IsFiniteSet(A)
  <2>1. B \subseteq Messages /\ A \subseteq Messages
    BY DEF Ahead
  <2> HIDE DEF A, B
  <2> QED
    BY <2>1, FS_Subset, DateAssumption
<1>2. A \subseteq B /\ A \subseteq S /\ m \in S /\ m \notin A
  <2>1. Date[m] \in Int /\ Id[m] \in Int
    BY DateAssumption, IdAssumption, RangesAssumption
  <2> QED
    BY <2>1 DEF Ahead
<1> HIDE DEF A, B
<1>3. /\ Cardinality(A) \in Nat /\ Cardinality(B) \in Nat /\ Cardinality(S) \in Nat
      /\ Cardinality(A) <= Cardinality(B) /\ Cardinality(A) <= Cardinality(S)
      /\ (Cardinality(A) = Cardinality(S) => A = S)
  BY <1>1, <1>2, FS_Subset, FS_CardinalityType
<1> QED
  BY <1>2, <1>3 DEF A, B

(* A step that only adds rows leaves the export where it was.                *)
LEMMA RowsAdded ==
  ASSUME R!TypeOK, ExportInv, rows \subseteq rows', rows' \subseteq Messages, UNCHANGED export,
         spent'.deletes = 0 => spent.deletes = 0 /\ gone' = {}
  PROVE  ExportInv'
<1> SUFFICES ASSUME spent'.deletes = 0 PROVE ExportInv'
  BY DEF ExportInv
<1>1. /\ spent.deletes = 0 /\ gone' = {} /\ rows \subseteq Messages
      /\ export # R!Idle => export.stays \subseteq rows
      /\ export.at \in {"count", "read"} => \A m \in export.stays : m \in export.rows \/ Cardinality(Ahead(rows, m)) >= export.offset
      /\ export.at = "done" /\ ~export.short => export.stays \subseteq export.rows
  BY DEF ExportInv, R!TypeOK
<1>2. export.at \in {"count", "read"} => \A m \in export.stays :
         m \in export.rows \/ Cardinality(Ahead(rows', m)) >= export.offset
  <2> SUFFICES ASSUME export.at \in {"count", "read"}, NEW m \in export.stays, m \notin export.rows
               PROVE  Cardinality(Ahead(rows', m)) >= export.offset
    OBVIOUS
  <2>1. export.offset \in Nat /\ m \in rows
    BY <1>1, CallFields
  <2> DEFINE a == Cardinality(Ahead(rows, m))
             b == Cardinality(Ahead(rows', m))
  <2>2. a \in Nat /\ a <= b
    BY <1>1, <2>1, RanksGrow
  <2>3. b \in Nat
    BY <1>1, <2>1, RanksGrow
  <2>4. a >= export.offset
    BY <1>1
  <2> HIDE DEF a, b
  <2>5. b >= export.offset
    BY <2>1, <2>2, <2>3, <2>4
  <2> QED
    BY <2>5 DEF b
<1> QED
  BY <1>1, <1>2 DEF ExportInv

(* The rows are counted: what is left to read stays where it was.            *)
LEMMA CountStep ==
  ASSUME R!TypeOK, ExportInv, R!CountRows
  PROVE  ExportInv'
<1>1. /\ export'.at = "read" /\ export'.offset = export.offset /\ export'.rows = export.rows
      /\ export'.stays = export.stays /\ export # R!Idle /\ export.at = "count"
      /\ rows' = rows /\ gone' = gone /\ spent' = spent
  BY CountFields DEF R!CountRows
<1> QED
  BY <1>1 DEF ExportInv

(* A page is read: what stood behind the pages read before is on this one or *)
(* behind it, and nothing stands behind the last, unless rows have come since*)
(* the count.                                                                *)
LEMMA PageStep ==
  ASSUME R!TypeOK, ExportInv, R!ReadPage
  PROVE  ExportInv'
<1> DEFINE Rank(m) == Cardinality(Ahead(rows, m))
           n == Cardinality(rows)
<1>1. /\ export.at = "read" /\ export # R!Idle /\ export.offset \in Nat /\ export.total \in Nat
      /\ ExportPage \in Nat \ {0} /\ rows \subseteq Messages
  BY CallFields, ReadFields, RangesAssumption DEF R!ReadPage, R!TypeOK
<1>2. /\ export'.rows = export.rows \cup R!Page /\ export'.offset = export.offset + ExportPage
      /\ export'.stays = export.stays /\ export' # R!Idle
      /\ rows' = rows /\ gone' = gone /\ spent' = spent
  BY ReadFields DEF R!ReadPage
<1>3. /\ export'.short = (export.total < n)
      /\ export'.at = IF export.offset + ExportPage > n \/ export.offset + ExportPage >= export.total THEN "done" ELSE "count"
  BY ReadFields
<1> SUFFICES ASSUME spent'.deletes = 0 PROVE ExportInv'
  BY DEF ExportInv
<1>4. /\ gone = {} /\ export.stays \subseteq rows
      /\ \A m \in export.stays : m \in export.rows \/ Rank(m) >= export.offset
  BY <1>1, <1>2 DEF ExportInv
<1>5. ASSUME NEW m \in export.stays, m \notin export'.rows
      PROVE  Rank(m) >= export'.offset /\ (export'.at = "done" => export'.short)
  <2>1. m \in rows /\ m \notin export.rows /\ m \notin R!Page /\ Rank(m) >= export.offset
    BY <1>2, <1>4, <1>5
  <2>2. Rank(m) \in Nat /\ n \in Nat /\ Rank(m) < n
    BY <1>1, <2>1, RanksGrow
  <2>3. R!Above(m) = Ahead(rows, m)
    BY DEF R!Above, Ahead
  <2>4. ~(export.offset <= Rank(m) /\ Rank(m) < export.offset + ExportPage)
    BY <2>1, <2>3, SameCount DEF R!Page
  <2> HIDE DEF Rank, n
  <2>5. Rank(m) >= export.offset + ExportPage
    BY <1>1, <2>1, <2>2, <2>4
  <2>6. ~(export.offset + ExportPage > n)
    BY <1>1, <2>2, <2>5
  <2>7. export.offset + ExportPage >= export.total => export.total < n
    BY <1>1, <2>2, <2>5
  <2>8. export'.at = "done" => export'.short
    BY <1>3, <2>6, <2>7
  <2> QED
    BY <1>2, <2>5, <2>8
<1>6. export'.at \in {"done", "count"}
  BY <1>3
<1> HIDE DEF Rank, n
<1>7. /\ gone' = {} /\ export'.stays \subseteq rows'
      /\ \A m \in export'.stays : m \in export'.rows \/ Rank(m) >= export'.offset
      /\ export'.at = "done" /\ ~export'.short => export'.stays \subseteq export'.rows
  BY <1>2, <1>4, <1>5
<1> QED
  BY <1>2, <1>6, <1>7 DEF ExportInv, Rank

(* Every step keeps what the export relies on.                               *)
LEMMA ExportStep ==
  ASSUME R!TypeOK, R!TypeOK', ExportInv, [R!Next]_(R!vars)
  PROVE  ExportInv'
<1>1. \A max : \A k \in DOMAIN R!NoneUsed : R!Spend(k, max) =>
        spent'[k] = spent[k] + 1 /\ \A l \in DOMAIN R!NoneUsed \ {k} : spent'[l] = spent[l]
  BY Counters DEF R!TypeOK
<1>2. DOMAIN R!NoneUsed = {"errors", "deletes", "restores", "exports"} /\ spent.deletes \in Nat
  BY DEF R!TypeOK, R!NoneUsed
<1>3. rows' \subseteq Messages /\ rows \subseteq Messages
  BY DEF R!TypeOK
<1>4. spent.deletes = 0 => gone = {}
  BY DEF ExportInv
<1>5. \A max : R!Spend("deletes", max) => spent'.deletes # 0
  BY <1>1, <1>2
<1>6. spent'.deletes # 0 => ExportInv'
  BY DEF ExportInv
<1>7. CASE R!StartRestore
  BY <1>1, <1>2, <1>3, <1>4, <1>7, RowsAdded DEF R!StartRestore
<1>8. CASE R!AskRange
  BY <1>3, <1>4, <1>8, RowsAdded DEF R!AskRange
<1>9. CASE R!RestoreFails
  BY <1>1, <1>2, <1>3, <1>4, <1>9, RowsAdded DEF R!RestoreFails
<1>10. CASE R!Store
  BY <1>3, <1>4, <1>10, RowsAdded DEF R!Store
<1>11. ASSUME NEW m \in Messages, R!Arrive(m)
       PROVE  ExportInv'
  BY <1>3, <1>4, <1>11, RowsAdded DEF R!Arrive
<1>12. ASSUME NEW m \in Messages, R!Vanish(m)
       PROVE  ExportInv'
  BY <1>5, <1>6, <1>12 DEF R!Vanish
<1>13. CASE R!SyncFolder
  <2>1. CASE spent.deletes # 0
    BY <1>6, <1>13, <2>1 DEF R!SyncFolder
  <2>2. CASE spent.deletes = 0
    <3>1. rows \subseteq rows' /\ UNCHANGED <<gone, export>>
      BY <1>4, <1>13, <2>2 DEF R!SyncFolder
    <3> QED
      BY <1>3, <1>4, <2>2, <3>1, RowsAdded
  <2> QED
    BY <2>1, <2>2
<1>14. CASE R!DeleteManaged
  BY <1>5, <1>6, <1>14 DEF R!DeleteManaged
<1>15. CASE R!StartExport
  <2>1. /\ export' # R!Idle /\ export'.at = "count" /\ export'.stays = rows /\ export'.offset = 0
        /\ rows' = rows /\ gone' = gone /\ spent'.deletes = spent.deletes
    <3>1. export' = [at |-> "count", offset |-> 0, total |-> 0, rows |-> {}, stays |-> rows, short |-> FALSE]
          /\ UNCHANGED <<rows, gone>>
      BY <1>15 DEF R!StartExport
    <3>2. export'.at = "count" /\ export'.stays = rows /\ export'.offset = 0
      BY <3>1
    <3>3. spent'.deletes = spent.deletes
      BY <1>1, <1>2, <1>15 DEF R!StartExport
    <3> QED
      BY <3>1, <3>2, <3>3 DEF R!Idle
  <2>2. \A m \in export'.stays : Cardinality(Ahead(rows', m)) >= export'.offset
    <3> SUFFICES ASSUME NEW m \in rows' PROVE Cardinality(Ahead(rows', m)) >= 0
      BY <2>1
    <3>1. Cardinality(Ahead(rows', m)) \in Nat
      BY <1>3, RanksGrow
    <3> QED
      BY <3>1
  <2>3. export'.at # "done" /\ export'.stays \subseteq rows'
    BY <2>1
  <2> QED
    BY <1>4, <2>1, <2>2, <2>3 DEF ExportInv
<1>16. CASE R!ReadPage
  BY <1>16, PageStep
<1>17. CASE R!EndExport
  <2>1. export' = R!Idle /\ export'.at = "idle" /\ gone' = gone /\ spent' = spent
    BY <1>17 DEF R!EndExport, R!Idle
  <2> QED
    BY <1>4, <2>1 DEF ExportInv
<1>18. CASE UNCHANGED R!vars
  BY <1>3, <1>4, <1>18, RowsAdded DEF R!vars
<1>19. CASE R!CountRows
  BY <1>19, CountStep
<1> QED
  BY <1>7, <1>8, <1>9, <1>10, <1>11, <1>12, <1>13, <1>14, <1>15, <1>16, <1>17, <1>18, <1>19 DEF R!Next

(* The export contains every row that was there from its beginning to its    *)
(* end, while restores and synchronisations add rows between its pages,      *)
(* unless some come between the count and the page that is the last by it.   *)
THEOREM ExportIsComplete == R!Spec => []ExportMissesNothing
<1>1. R!Init => ExportInv
  BY DEF R!Init, ExportInv, R!Idle, R!NoneUsed
<1>2. R!TypeOK /\ R!TypeOK' /\ ExportInv /\ [R!Next]_(R!vars) => ExportInv'
  BY ExportStep
<1>3. ExportInv => ExportMissesNothing
  BY DEF ExportInv, ExportMissesNothing, R!ExportMissesNothing
<1> QED
  BY <1>1, <1>2, <1>3, RangesTyped, PTL DEF R!Spec

-----------------------------------------------------------------------------
(* The restore.                                                              *)

Sec(t) == t \div Second
Dense(m) == Cardinality({k \in Messages : Date[k] - Date[m] \in (1 - Second)..(Second - 1)}) >= RangeLimit

(* The second a time lies in.                                                *)
LEMMA SecondsOf ==
  ASSUME NEW t \in Nat
  PROVE  /\ Sec(t) \in Nat /\ R!Floor(t, Second) = Sec(t) * Second
         /\ Sec(t) * Second <= t /\ t < Sec(t) * Second + Second
         /\ (t % Second = 0 => Sec(t) * Second = t)
<1>1. Second \in Nat \ {0}
  BY RangesAssumption
<1>2. \A u \in Nat \ {0} : t \div u \in Nat /\ (t \div u) * u <= t /\ t < (t \div u) * u + u
  OBVIOUS
<1>3. \A u \in Nat \ {0} : t % u = 0 => (t \div u) * u = t
  OBVIOUS
<1> QED
  BY <1>1, <1>2, <1>3 DEF Sec, R!Floor

(* Seconds are ordered as the times in them.                                 *)
LEMMA SecondsInOrder ==
  ASSUME NEW s \in Nat, NEW t \in Nat
  PROVE  /\ (R!Floor(s, Second) <= R!Floor(t, Second) <=> Sec(s) <= Sec(t))
         /\ (R!Floor(s, Second) < R!Floor(t, Second) <=> Sec(s) < Sec(t))
         /\ (s <= t => Sec(s) <= Sec(t))
         /\ (t - s <= Second => Sec(t) <= Sec(s) + 1)
         /\ (Sec(s) = Sec(t) => s - t \in (1 - Second)..(Second - 1))
         /\ (t % Second = 0 /\ s < t => Sec(s) < Sec(t))
<1>1. Second \in Nat \ {0}
  BY RangesAssumption
<1>2. /\ Sec(s) \in Nat /\ R!Floor(s, Second) = Sec(s) * Second
      /\ Sec(s) * Second <= s /\ s < Sec(s) * Second + Second
      /\ Sec(t) \in Nat /\ R!Floor(t, Second) = Sec(t) * Second
      /\ Sec(t) * Second <= t /\ t < Sec(t) * Second + Second
      /\ (t % Second = 0 => Sec(t) * Second = t)
  BY SecondsOf
<1>3. \A p, q \in Nat, u \in Nat \ {0} : p * u < q * u <=> p < q
  OBVIOUS
<1>4. \A p, q \in Nat, u \in Nat \ {0} : p * u <= q * u <=> p <= q
  OBVIOUS
<1>5. \A p, q \in Nat, u \in Nat \ {0} : p * u < q * u + u => p <= q
  <2> SUFFICES ASSUME NEW p \in Nat, NEW q \in Nat, NEW u \in Nat \ {0}, p * u < q * u + u PROVE p <= q
    OBVIOUS
  <2>1. p * u < (q + 1) * u
    OBVIOUS
  <2>2. p >= q + 1 => p * u >= (q + 1) * u
    OBVIOUS
  <2> QED
    BY <2>1, <2>2
<1>6. \A p, q \in Nat, u \in Nat \ {0} : p * u < q * u + u + u => p <= q + 1
  <2> SUFFICES ASSUME NEW p \in Nat, NEW q \in Nat, NEW u \in Nat \ {0}, p * u < q * u + u + u PROVE p <= q + 1
    OBVIOUS
  <2>1. p * u < (q + 2) * u
    OBVIOUS
  <2>2. p >= q + 2 => p * u >= (q + 2) * u
    OBVIOUS
  <2> QED
    BY <2>1, <2>2
<1> DEFINE ss == Sec(s) * Second
           tt == Sec(t) * Second
<1>7. ss \in Int /\ tt \in Int
  BY <1>1, <1>2
<1>8. s <= t => ss < tt + Second
  BY <1>1, <1>2, <1>7
<1>9. t - s <= Second => tt < ss + Second + Second
  BY <1>1, <1>2, <1>7
<1>10. ss = tt => s - t \in (1 - Second)..(Second - 1)
  <2> HIDE DEF ss, tt
  <2>1. ss <= s /\ s < ss + Second /\ tt <= t /\ t < tt + Second
    BY <1>2 DEF ss, tt
  <2> QED
    BY <1>1, <1>7, <2>1
<1>11. t % Second = 0 /\ s < t => ss < tt
  BY <1>1, <1>2, <1>7
<1>12. s <= t => Sec(s) <= Sec(t)
  BY <1>1, <1>2, <1>5, <1>8
<1>13. t - s <= Second => Sec(t) <= Sec(s) + 1
  BY <1>1, <1>2, <1>6, <1>9
<1>14. t % Second = 0 /\ s < t => Sec(s) < Sec(t)
  BY <1>1, <1>2, <1>3, <1>11
<1>15. /\ (R!Floor(s, Second) <= R!Floor(t, Second) <=> Sec(s) <= Sec(t))
       /\ (R!Floor(s, Second) < R!Floor(t, Second) <=> Sec(s) < Sec(t))
  BY <1>1, <1>2, <1>3, <1>4
<1> QED
  BY <1>10, <1>12, <1>13, <1>14, <1>15

(* An answer that leaves a message out is full.                              *)
LEMMA FullAnswer ==
  ASSUME NEW S \in SUBSET Messages, NEW n \in Nat, NEW m \in S, m \notin R!Newest(S, n)
  PROVE  /\ Cardinality({k \in S : Date[k] > Date[m]}) >= n
         /\ Cardinality(R!Newest(S, n)) >= n
<1> DEFINE Above(x) == {k \in S : Date[k] > Date[x]}
           Less == OpToRel(<, Nat)
           left == S \ R!Newest(S, n)
           ages == {MaxTime - Date[x] : x \in left}
<1>1. \A x \in S : Date[x] \in 0..MaxTime /\ MaxTime - Date[x] \in Nat
  BY DateAssumption, RangesAssumption
<1>2. ages \subseteq Nat /\ ages # {}
  BY <1>1
<1>3. IsWellFoundedOn(Less, Nat)
  BY NatLessThanWellFounded
<1> HIDE DEF Less
<1>4. PICK a \in ages : \A b \in ages : ~(<<b, a>> \in Less)
  <2> HIDE DEF ages
  <2> QED
    BY <1>2, <1>3, WFMin
<1>5. \A b \in ages : ~(b < a)
  <2>1. \A b \in ages : <<b, a>> \in Less <=> b < a
    BY <1>2 DEF Less, OpToRel
  <2> QED
    BY <1>4, <2>1
<1>6. PICK x \in left : a = MaxTime - Date[x]
  OBVIOUS
<1>7. \A y \in left : ~(Date[y] > Date[x])
  <2> SUFFICES ASSUME NEW y \in left PROVE ~(Date[y] > Date[x])
    OBVIOUS
  <2>1. ~(MaxTime - Date[y] < MaxTime - Date[x])
    BY <1>5, <1>6
  <2>2. Date[x] \in Int /\ Date[y] \in Int /\ MaxTime \in Int
    BY <1>1, RangesAssumption
  <2> QED
    BY <2>1, <2>2
<1>8. Above(x) \subseteq R!Newest(S, n)
  BY <1>7
<1>9. \A y \in S : IsFiniteSet(Above(y)) /\ Cardinality(Above(y)) \in Nat
  <2> SUFFICES ASSUME NEW y \in S PROVE IsFiniteSet(Above(y)) /\ Cardinality(Above(y)) \in Nat
    OBVIOUS
  <2>1. Above(y) \subseteq Messages
    OBVIOUS
  <2> HIDE DEF Above
  <2> QED
    BY <2>1, FS_Subset, FS_CardinalityType, DateAssumption
<1>10. \A y \in S : y \notin R!Newest(S, n) => Cardinality(Above(y)) >= n
  <2> SUFFICES ASSUME NEW y \in S, y \notin R!Newest(S, n) PROVE Cardinality(Above(y)) >= n
    OBVIOUS
  <2>1. ~(Cardinality(Above(y)) < n)
    BY SameCount DEF R!Newest
  <2>2. Cardinality(Above(y)) \in Nat
    BY <1>9
  <2> HIDE DEF Above
  <2> QED
    BY <2>1, <2>2
<1>11. IsFiniteSet(R!Newest(S, n)) /\ Cardinality(R!Newest(S, n)) \in Nat
  <2>1. R!Newest(S, n) \subseteq Messages
    BY DEF R!Newest
  <2> QED
    BY <2>1, FS_Subset, FS_CardinalityType, DateAssumption
<1>12. Cardinality(Above(x)) >= n /\ Cardinality(Above(m)) >= n /\ Cardinality(Above(x)) \in Nat
  BY <1>9, <1>10
<1> HIDE DEF Above
<1>13. Cardinality(Above(x)) <= Cardinality(R!Newest(S, n))
  BY <1>8, <1>11, FS_Subset
<1>14. Cardinality(R!Newest(S, n)) >= n
  BY <1>11, <1>12, <1>13
<1> QED
  BY <1>12, <1>14 DEF Above

(* Graph answers with the newest of the range, in whole seconds.             *)
LEMMA GraphAnswer ==
  ASSUME NEW r \in R!Asks, mail \subseteq Messages, NEW m \in mail,
         Sec(r.after) <= Sec(Date[m]), Sec(Date[m]) < Sec(r.before)
  PROVE  /\ R!Answer("graph", r) = R!Newest(R!Selected("graph", r), RangeLimit)
         /\ R!Selected("graph", r) \subseteq Messages /\ m \in R!Selected("graph", r)
         /\ \A k \in R!Selected("graph", r) : Sec(r.after) <= Sec(Date[k]) /\ Sec(Date[k]) < Sec(r.before)
<1>1. r.after \in Nat /\ r.before \in Nat /\ \A k \in Messages : Date[k] \in Nat
  BY DateAssumption, RangesAssumption DEF R!Asks, R!Times
<1>2. \A k \in Messages :
        /\ (R!Floor(r.after, Second) <= R!Floor(Date[k], Second) <=> Sec(r.after) <= Sec(Date[k]))
        /\ (R!Floor(Date[k], Second) < R!Floor(r.before, Second) <=> Sec(Date[k]) < Sec(r.before))
  BY <1>1, SecondsInOrder
<1>3. R!Selected("graph", r) =
        {k \in mail : R!Floor(r.after, Second) <= R!Floor(Date[k], Second) /\ R!Floor(Date[k], Second) < R!Floor(r.before, Second)}
  BY DEF R!Selected
<1>4. R!Answer("graph", r) = R!Newest(R!Selected("graph", r), RangeLimit)
  BY DEF R!Answer
<1> QED
  BY <1>2, <1>3, <1>4

(* A request that is not halved any more brings a message, or the second of  *)
(* the message holds a full answer.                                          *)
LEMMA AskBrings ==
  ASSUME NEW r \in R!Asks, mail \subseteq Messages, NEW m \in mail,
         Sec(r.after) <= Sec(Date[m]), Sec(Date[m]) < Sec(r.before), r.after < r.before,
         r.depth = MaxDepth => r.before - r.after <= Second,
         ~R!Split(r, R!Answer("graph", r))
  PROVE  m \in R!Answer("graph", r) \/ Dense(m)
<1> SUFFICES ASSUME m \notin R!Answer("graph", r) PROVE Dense(m)
  OBVIOUS
<1> DEFINE S == R!Selected("graph", r)
<1>1. /\ R!Answer("graph", r) = R!Newest(S, RangeLimit) /\ S \subseteq Messages /\ m \in S
      /\ \A k \in S : Sec(r.after) <= Sec(Date[k]) /\ Sec(Date[k]) < Sec(r.before)
  BY GraphAnswer
<1>2. RangeLimit \in Nat /\ Second \in Nat \ {0} /\ MaxDepth \in Nat
  BY RangesAssumption
<1> HIDE DEF S
<1>3. Cardinality({k \in S : Date[k] > Date[m]}) >= RangeLimit /\ Cardinality(R!Newest(S, RangeLimit)) >= RangeLimit
  BY <1>1, <1>2, FullAnswer
<1>4. ~(r.depth < MaxDepth /\ r.before - r.after > Second)
  BY <1>1, <1>3, SameCount DEF R!Split
<1>5. r.after \in Nat /\ r.before \in Nat /\ r.depth \in 0..MaxDepth /\ \A k \in Messages : Date[k] \in Nat
  BY DateAssumption, RangesAssumption DEF R!Asks, R!Times
<1>6. r.before - r.after <= Second
  BY <1>2, <1>4, <1>5
<1>7. Sec(r.before) <= Sec(r.after) + 1
  BY <1>5, <1>6, SecondsInOrder
<1>8. \A k \in S : Sec(Date[k]) = Sec(Date[m])
  <2> SUFFICES ASSUME NEW k \in S PROVE Sec(Date[k]) = Sec(Date[m])
    OBVIOUS
  <2>1. Sec(Date[k]) \in Nat /\ Sec(Date[m]) \in Nat /\ Sec(r.after) \in Nat /\ Sec(r.before) \in Nat
    BY <1>1, <1>5, SecondsOf
  <2> QED
    BY <1>1, <1>7, <2>1
<1> DEFINE newer == {k \in S : Date[k] > Date[m]}
           near == {k \in Messages : Date[k] - Date[m] \in (1 - Second)..(Second - 1)}
<1>9. newer \subseteq near
  <2> SUFFICES ASSUME NEW k \in newer PROVE k \in near
    OBVIOUS
  <2>1. k \in Messages /\ Sec(Date[k]) = Sec(Date[m]) /\ Date[k] \in Nat /\ Date[m] \in Nat
    BY <1>1, <1>5, <1>8
  <2> QED
    BY <2>1, SecondsInOrder
<1>10. near \subseteq Messages
  OBVIOUS
<1>11. Cardinality(newer) >= RangeLimit
  BY <1>3
<1> HIDE DEF newer, near
<1>12. IsFiniteSet(near) /\ IsFiniteSet(newer)
  BY <1>9, <1>10, FS_Subset, DateAssumption
<1>13. /\ Cardinality(newer) \in Nat /\ Cardinality(near) \in Nat
       /\ Cardinality(newer) <= Cardinality(near)
  BY <1>9, <1>12, FS_Subset, FS_CardinalityType
<1>14. Cardinality(near) >= RangeLimit
  BY <1>2, <1>11, <1>13
<1> QED
  BY <1>14 DEF Dense, near

\* The range halved MaxDepth times is a second long at most; W bounds what is
\* left of it at each depth.
Widths(W) ==
  /\ W \in [0..MaxDepth -> Nat] /\ W[0] >= MaxTime /\ W[MaxDepth] <= Second
  /\ \A d \in 0..(MaxDepth - 1) : 2 * W[d + 1] >= W[d]
EnoughDepth == \E W \in [0..MaxDepth -> Nat] : Widths(W)

Narrow(W, todo) == \A i \in 1 .. Len(todo) : todo[i].before - todo[i].after <= W[todo[i].depth]

\* Every message that was there all along has been fetched, shares its second
\* with a full answer, or lies in a range that is still to be asked.
RestoreInv(W) ==
  restore # R!Idle =>
    /\ restore.range.before % Second = 0 /\ restore.present \subseteq mail
    /\ restore.at = "ask" => Narrow(W, restore.todo)
    /\ \A m \in restore.present : restore.range.after <= Date[m] /\ Date[m] < restore.range.before =>
         \/ m \in restore.got \/ Dense(m)
         \/ restore.at = "ask" /\ Sec(restore.todo[1].after) <= Sec(Date[m])

(* What one request does to the call.                                        *)
LEMMA AskFields ==
  ASSUME R!TypeOK, R!AskRange, Adapters = {"graph"}
  PROVE  LET r == restore.todo[1]
             split == R!Split(r, R!Answer("graph", r))
         IN  /\ restore # R!Idle /\ restore.at = "ask" /\ restore.range \in R!Ranges
             /\ restore.todo \in Seq(R!Asks) /\ restore.todo # <<>> /\ Chain(restore.todo, restore.range.before)
             /\ restore' # R!Idle /\ restore'.range = restore.range /\ restore'.present = restore.present
             /\ restore'.todo = IF split THEN R!Halves(r) \o Tail(restore.todo) ELSE Tail(restore.todo)
             /\ restore'.got = IF split THEN restore.got ELSE restore.got \cup R!Answer("graph", r)
             /\ restore'.at = IF restore'.todo = <<>> THEN "store" ELSE "ask"
<1>1. restore.at = "ask" /\ Calls(restore)
  BY CallsTyped DEF R!TypeOK, R!AskRange
<1>2. restore # R!Idle /\ restore \in R!Restores /\ restore.todo \in Seq(R!Asks) /\ restore.range \in R!Ranges
  BY <1>1, CallFields DEF Calls, R!Restores, R!Idle
<1>3. Chain(restore.todo, restore.range.before) /\ restore.todo # <<>>
  BY <1>1 DEF Calls, Chain
<1> DEFINE r == restore.todo[1]
           split == R!Split(r, R!Answer("graph", r))
           rest == IF split THEN R!Halves(r) \o Tail(restore.todo) ELSE Tail(restore.todo)
           got == IF split THEN restore.got ELSE restore.got \cup R!Answer("graph", r)
           at == IF rest = <<>> THEN "store" ELSE "ask"
<1>4. Head(restore.todo) = r
  BY <1>2, <1>3
<1>5. restore' = [restore EXCEPT !.todo = rest, !.got = got, !.at = at]
  BY <1>4 DEF R!AskRange
<1>6. at \in {"store", "ask"}
  OBVIOUS
<1> HIDE DEF rest, got, at
<1>7. /\ restore'.range = restore.range /\ restore'.present = restore.present
      /\ restore'.todo = rest /\ restore'.got = got /\ restore'.at = at
  BY <1>2, <1>5 DEF R!Restores
<1>8. restore' # R!Idle
  BY <1>6, <1>7 DEF R!Idle
<1> QED
  BY <1>1, <1>2, <1>3, <1>7, <1>8 DEF rest, got, at

(* A request leaves no message of the range behind.                          *)
LEMMA AskCovers ==
  ASSUME R!TypeOK, R!AskRange, Adapters = {"graph"}, NEW W, Widths(W), RestoreInv(W)
  PROVE  RestoreInv(W)'
<1> DEFINE todo == restore.todo
           r == todo[1]
           answer == R!Answer("graph", r)
<1>1. /\ restore # R!Idle /\ restore.at = "ask" /\ restore.range \in R!Ranges
      /\ todo \in Seq(R!Asks) /\ todo # <<>> /\ Chain(todo, restore.range.before)
      /\ restore' # R!Idle /\ restore'.range = restore.range /\ restore'.present = restore.present
      /\ restore'.todo = IF R!Split(r, answer) THEN R!Halves(r) \o Tail(todo) ELSE Tail(todo)
      /\ restore'.got = IF R!Split(r, answer) THEN restore.got ELSE restore.got \cup answer
      /\ restore'.at = IF restore'.todo = <<>> THEN "store" ELSE "ask"
  BY AskFields
<1>2. /\ restore.range.before % Second = 0 /\ restore.present \subseteq mail /\ Narrow(W, todo)
      /\ \A m \in restore.present : restore.range.after <= Date[m] /\ Date[m] < restore.range.before =>
           m \in restore.got \/ Dense(m) \/ Sec(r.after) <= Sec(Date[m])
  BY <1>1 DEF RestoreInv
<1>3. mail' = mail /\ mail \subseteq Messages
  BY DEF R!AskRange, R!TypeOK
<1> HIDE DEF todo
<1>4. /\ Len(todo) \in Nat \ {0} /\ 1 \in 1 .. Len(todo) /\ r \in R!Asks
      /\ r.after < r.before /\ r.before - r.after <= W[r.depth]
  <2>1. Len(todo) \in Nat \ {0} /\ 1 \in 1 .. Len(todo)
    BY <1>1
  <2> QED
    BY <1>1, <1>2, <2>1 DEF Chain, Narrow
<1>5. /\ r.after \in Nat /\ r.before \in Nat /\ r.depth \in 0..MaxDepth /\ MaxDepth \in Nat /\ Second \in Nat \ {0}
      /\ \A k \in Messages : Date[k] \in Nat
      /\ W \in [0..MaxDepth -> Nat] /\ W[MaxDepth] <= Second /\ \A d \in 0..(MaxDepth - 1) : 2 * W[d + 1] >= W[d]
  <2>1. r \in [after : 0..MaxTime, before : 0..MaxTime, depth : 0..MaxDepth]
    BY <1>4 DEF R!Asks, R!Times
  <2>2. MaxDepth \in Nat /\ MaxTime \in Nat /\ Second \in Nat \ {0}
    BY RangesAssumption
  <2>3. \A k \in Messages : Date[k] \in Nat
    BY <2>2, DateAssumption
  <2> HIDE DEF r
  <2>4. r.after \in Nat /\ r.before \in Nat /\ r.depth \in 0..MaxDepth
    BY <2>1, <2>2
  <2> QED
    BY <2>2, <2>3, <2>4 DEF Widths
<1> HIDE DEF answer, r
<1>6. CASE R!Split(r, answer)
  <2>1. r.before - r.after > Second /\ r.depth < MaxDepth
    BY <1>6 DEF R!Split
  <2>2. PICK middle \in R!Times :
          /\ r.after < middle /\ middle < r.before
          /\ middle - r.after <= r.before - middle /\ r.before - middle <= middle - r.after + 1
          /\ R!Halves(r) = <<[after |-> r.after, before |-> middle, depth |-> r.depth + 1],
                           [after |-> middle, before |-> r.before, depth |-> r.depth + 1]>>
    BY <1>4, <2>1, HalvesType
  <2> DEFINE a == [after |-> r.after, before |-> middle, depth |-> r.depth + 1]
             b == [after |-> middle, before |-> r.before, depth |-> r.depth + 1]
             q == <<a, b>> \o Tail(todo)
  <2>3. r.depth + 1 \in 0..MaxDepth /\ r.depth \in 0..(MaxDepth - 1) /\ middle \in Nat
    <3>1. middle \in Nat
      BY RangesAssumption DEF R!Times
    <3>2. \A d \in 0..MaxDepth : d < MaxDepth => d + 1 \in 0..MaxDepth /\ d \in 0..(MaxDepth - 1)
      BY <1>5
    <3> QED
      BY <1>5, <2>1, <3>1, <3>2
  <2>4. a \in R!Asks /\ b \in R!Asks
    BY <1>4, <2>2, <2>3 DEF R!Asks
  <2>5. /\ a.before - a.after <= W[a.depth] /\ b.before - b.after <= W[b.depth] /\ a.after = r.after
    <3>1. W[r.depth + 1] \in Nat /\ W[r.depth] \in Nat /\ 2 * W[r.depth + 1] >= W[r.depth]
      BY <1>5, <2>3
    <3>2. middle - r.after <= W[r.depth + 1] /\ r.before - middle <= W[r.depth + 1]
      <4>1. \A x, y, m, v, w \in Nat : x < m /\ m < y /\ m - x <= y - m /\ y - m <= m - x + 1 /\ y - x <= w /\ 2 * v >= w
                                       => m - x <= v /\ y - m <= v
        OBVIOUS
      <4> QED
        BY <1>4, <1>5, <2>2, <2>3, <3>1, <4>1
    <3> QED
      BY <3>2 DEF a, b
  <2> HIDE DEF a, b
  <2>6. /\ q # <<>> /\ Len(q) = Len(todo) + 1 /\ q[1] = a /\ q[2] = b
        /\ \A i \in 2 .. Len(todo) : q[i + 1] = todo[i]
    BY <1>1, <2>4, Queues
  <2>7. restore'.todo = q /\ restore'.got = restore.got
    BY <1>1, <1>6, <2>2 DEF a, b
  <2> HIDE DEF q
  <2>8. Narrow(W, q)
    <3> SUFFICES ASSUME NEW i \in 1 .. Len(q) PROVE q[i].before - q[i].after <= W[q[i].depth]
      BY DEF Narrow
    <3>1. CASE i = 1 \/ i = 2
      BY <2>5, <2>6, <3>1
    <3>2. CASE i # 1 /\ i # 2
      <4>1. i - 1 \in 2 .. Len(todo) /\ (i - 1) + 1 = i /\ i - 1 \in 1 .. Len(todo)
        BY <1>4, <2>6, <3>2
      <4>2. q[i] = todo[i - 1]
        BY <2>6, <4>1
      <4> QED
        BY <1>2, <4>1, <4>2 DEF Narrow
    <3> QED
      BY <3>1, <3>2
  <2>9. restore'.at = "ask" /\ restore'.todo[1].after = r.after /\ Narrow(W, restore'.todo)
    BY <1>1, <2>5, <2>6, <2>7, <2>8
  <2>10. \A m \in restore'.present : restore'.range.after <= Date[m] /\ Date[m] < restore'.range.before =>
            m \in restore'.got \/ Dense(m) \/ (restore'.at = "ask" /\ Sec(restore'.todo[1].after) <= Sec(Date[m]))
    BY <1>1, <1>2, <2>7, <2>9
  <2> QED
    BY <1>1, <1>2, <1>3, <2>9, <2>10 DEF RestoreInv
<1>7. CASE ~R!Split(r, answer)
  <2>1. restore'.todo = Tail(todo) /\ restore'.got = restore.got \cup answer
    BY <1>1, <1>7
  <2>2. /\ Tail(todo) \in Seq(R!Asks) /\ Len(Tail(todo)) = Len(todo) - 1 /\ (Tail(todo) = <<>> <=> Len(todo) = 1)
        /\ \A i \in 1 .. Len(todo) - 1 : Tail(todo)[i] = todo[i + 1]
    BY <1>1, <1>4, Queues
  <2>3. Narrow(W, Tail(todo))
    <3> SUFFICES ASSUME NEW i \in 1 .. Len(todo) - 1
                 PROVE  Tail(todo)[i].before - Tail(todo)[i].after <= W[Tail(todo)[i].depth]
      BY <2>2 DEF Narrow
    <3>1. i + 1 \in 1 .. Len(todo) /\ Tail(todo)[i] = todo[i + 1]
      BY <1>4, <2>2
    <3> QED
      BY <1>2, <3>1 DEF Narrow
  <2>4. r.depth = MaxDepth => r.before - r.after <= Second
    <3> SUFFICES ASSUME r.depth = MaxDepth PROVE r.before - r.after <= Second
      OBVIOUS
    <3>1. W[MaxDepth] \in Nat /\ r.before - r.after <= W[MaxDepth]
      BY <1>4, <1>5
    <3> QED
      BY <1>5, <3>1
  <2>5. ASSUME NEW m \in restore'.present, restore'.range.after <= Date[m], Date[m] < restore'.range.before
        PROVE  m \in restore'.got \/ Dense(m) \/ (restore'.at = "ask" /\ Sec(restore'.todo[1].after) <= Sec(Date[m]))
    <3>1. m \in mail /\ m \in Messages /\ Date[m] \in Nat /\ Sec(Date[m]) \in Nat /\ Sec(r.before) \in Nat
      BY <1>1, <1>2, <1>3, <1>5, <2>5, SecondsOf
    <3>2. m \in restore.got \/ Dense(m) \/ Sec(r.after) <= Sec(Date[m])
      BY <1>1, <1>2, <2>5
    <3>3. CASE Sec(r.after) <= Sec(Date[m]) /\ Sec(Date[m]) < Sec(r.before)
      BY <1>3, <1>4, <1>7, <2>1, <2>4, <3>1, <3>3, AskBrings DEF answer
    <3>4. CASE ~(Sec(Date[m]) < Sec(r.before))
      <4>1. Tail(todo) # <<>>
        <5> SUFFICES ASSUME Len(todo) = 1 PROVE FALSE
          BY <2>2
        <5>1. r.before = restore.range.before
          BY <1>1 DEF Chain, r
        <5>2. Sec(Date[m]) < Sec(r.before)
          BY <1>1, <1>2, <1>5, <2>5, <3>1, <5>1, SecondsInOrder
        <5> QED
          BY <3>4, <5>2
      <4>2. 1 \in 1 .. Len(todo) - 1
        BY <1>4, <2>2, <4>1
      <4>3. Tail(todo)[1].after = r.before
        <5>1. Tail(todo)[1] = todo[1 + 1] /\ todo[1].before = todo[1 + 1].after
          BY <1>1, <2>2, <4>2 DEF Chain
        <5> QED
          BY <5>1 DEF r
      <4>4. restore'.at = "ask" /\ restore'.todo[1].after = r.before
        BY <1>1, <2>1, <4>1, <4>3
      <4> QED
        BY <3>1, <3>4, <4>4
    <3> QED
      BY <2>1, <3>2, <3>3, <3>4
  <2>6. restore'.at = "ask" => Narrow(W, restore'.todo)
    BY <2>1, <2>3
  <2> QED
    BY <1>1, <1>2, <1>3, <2>5, <2>6 DEF RestoreInv
<1> QED
  BY <1>6, <1>7

(* A step beside the call keeps it, new mail or not.                         *)
LEMMA RestoreKept ==
  ASSUME NEW W, RestoreInv(W), UNCHANGED restore, mail \subseteq mail'
  PROVE  RestoreInv(W)'
BY DEF RestoreInv

(* Every step keeps what the restore relies on.                              *)
LEMMA RestoreStep ==
  ASSUME R!TypeOK, Adapters = {"graph"}, NEW W, Widths(W), RestoreInv(W), [R!Next]_(R!vars)
  PROVE  RestoreInv(W)'
<1>1. restore' = R!Idle => RestoreInv(W)'
  BY DEF RestoreInv
<1>2. CASE R!StartRestore
  <2>1. PICK a, b \in {t \in 0..MaxTime : t % Second = 0} :
          a < b /\ restore' = [at |-> "ask", range |-> [after |-> a, before |-> b],
                               todo |-> <<[after |-> a, before |-> b, depth |-> 0]>>, got |-> {}, present |-> mail]
    BY <1>2 DEF R!StartRestore
  <2> DEFINE r == [after |-> a, before |-> b, depth |-> 0]
             q == <<r>>
  <2>2. r.after = a /\ r.before = b /\ r.depth = 0 /\ a \in 0..MaxTime /\ b \in 0..MaxTime /\ b % Second = 0
    OBVIOUS
  <2> HIDE DEF r
  <2>3. Len(q) = 1 /\ q[1] = r
    OBVIOUS
  <2> HIDE DEF q
  <2>4. restore' = [at |-> "ask", range |-> [after |-> a, before |-> b], todo |-> q, got |-> {}, present |-> mail]
    BY <2>1 DEF q, r
  <2>5. /\ restore'.at = "ask" /\ restore'.range.after = a /\ restore'.range.before = b
        /\ restore'.todo = q /\ restore'.present = mail /\ mail' = mail
    BY <1>2, <2>4 DEF R!StartRestore
  <2>6. W[0] \in Nat /\ b - a <= W[0]
    <3>1. W \in [0..MaxDepth -> Nat] /\ W[0] >= MaxTime /\ MaxTime \in Nat /\ 0 \in 0..MaxDepth
      BY RangesAssumption DEF Widths
    <3> QED
      BY <2>2, <3>1
  <2>7. Narrow(W, q)
    BY <2>2, <2>3, <2>6 DEF Narrow
  <2>8. \A m \in mail : a <= Date[m] => Sec(q[1].after) <= Sec(Date[m])
    <3> SUFFICES ASSUME NEW m \in mail, a <= Date[m] PROVE Sec(q[1].after) <= Sec(Date[m])
      OBVIOUS
    <3>1. Date[m] \in Nat /\ a \in Nat
      BY <2>2, DateAssumption, RangesAssumption DEF R!TypeOK
    <3> QED
      BY <2>2, <2>3, <3>1, SecondsInOrder
  <2> QED
    BY <2>2, <2>5, <2>7, <2>8 DEF RestoreInv
<1>3. CASE R!AskRange
  BY <1>3, AskCovers
<1>4. CASE R!RestoreFails
  BY <1>1, <1>4 DEF R!RestoreFails
<1>5. CASE R!Store
  BY <1>1, <1>5 DEF R!Store
<1>6. ASSUME NEW m \in Messages, R!Arrive(m)
      PROVE  RestoreInv(W)'
  BY <1>6, RestoreKept DEF R!Arrive
<1>7. ASSUME NEW m \in Messages, R!Vanish(m)
      PROVE  RestoreInv(W)'
  <2>1. CASE restore = R!Idle
    BY <1>1, <1>7, <2>1 DEF R!Vanish
  <2>2. CASE restore # R!Idle
    <3>1. restore \in R!Restores /\ restore' = [restore EXCEPT !.present = restore.present \ {m}] /\ mail' = mail \ {m}
      BY <1>7, <2>2 DEF R!Vanish, R!TypeOK
    <3>2. /\ restore'.at = restore.at /\ restore'.range = restore.range /\ restore'.todo = restore.todo
          /\ restore'.got = restore.got /\ restore'.present = restore.present \ {m}
      BY <3>1 DEF R!Restores
    <3> QED
      BY <2>2, <3>1, <3>2 DEF RestoreInv
  <2> QED
    BY <2>1, <2>2
<1>8. CASE R!SyncFolder
  BY <1>8, RestoreKept DEF R!SyncFolder
<1>9. CASE R!DeleteManaged
  BY <1>9, RestoreKept DEF R!DeleteManaged
<1>10. CASE R!StartExport \/ R!CountRows \/ R!ReadPage \/ R!EndExport
  BY <1>10, RestoreKept DEF R!StartExport, R!CountRows, R!ReadPage, R!EndExport
<1>11. CASE UNCHANGED R!vars
  BY <1>11, RestoreKept DEF R!vars
<1> QED
  BY <1>2, <1>3, <1>4, <1>5, <1>6, <1>7, <1>8, <1>9, <1>10, <1>11 DEF R!Next

(* The end of the call finds everything fetched.                             *)
LEMMA StoreIsComplete ==
  ASSUME R!TypeOK, NEW W, RestoreInv(W), [R!Next]_(R!vars), restore.at = "store", restore' = R!Idle, spent' = spent,
         NEW m \in restore.present, R!Between(m, restore.range)
  PROVE  m \in rows' \/ Dense(m)
<1>1. restore # R!Idle
  BY DEF R!Idle
<1>2. m \in restore.got \/ Dense(m)
  BY <1>1 DEF RestoreInv, R!Between
<1>3. rows' = rows \cup restore.got
  <2>1. \A max : \A k \in DOMAIN R!NoneUsed : ~R!Spend(k, max)
    <3> SUFFICES ASSUME NEW k \in DOMAIN R!NoneUsed, NEW max, R!Spend(k, max) PROVE FALSE
      OBVIOUS
    <3>1. spent'[k] = spent[k] + 1 /\ spent[k] \in Nat
      BY Counters DEF R!TypeOK
    <3> QED
      BY <3>1
  <2>2. ~R!StartRestore /\ ~R!RestoreFails /\ ~R!DeleteManaged /\ ~R!StartExport /\ \A k \in Messages : ~R!Vanish(k)
    <3>1. DOMAIN R!NoneUsed = {"errors", "deletes", "restores", "exports"}
      BY DEF R!NoneUsed
    <3> QED
      BY <2>1, <3>1 DEF R!StartRestore, R!RestoreFails, R!DeleteManaged, R!StartExport, R!Vanish
  <2>3. ~(UNCHANGED restore)
    BY <1>1
  <2>4. ~R!AskRange
    BY DEF R!AskRange
  <2>5. (\A k \in Messages : ~R!Arrive(k)) /\ ~R!SyncFolder /\ ~R!CountRows /\ ~R!ReadPage /\ ~R!EndExport
        /\ ~UNCHANGED R!vars
    BY <2>3 DEF R!Arrive, R!SyncFolder, R!CountRows, R!ReadPage, R!EndExport, R!vars
  <2>6. R!Store
    BY <2>2, <2>4, <2>5 DEF R!Next
  <2> QED
    BY <2>6 DEF R!Store
<1> QED
  BY <1>2, <1>3

(* A restore through Graph is complete: whatever is halved, and whatever     *)
(* arrives or is deleted meanwhile, each message of the range that was there *)
(* all along has a row when the call ends, unless its second holds a full    *)
(* answer.  It takes a range that MaxDepth halvings reduce to a second, as   *)
(* ranges of up to 2^20 seconds are.                                         *)
THEOREM GraphRestoresAll == (Adapters = {"graph"} /\ EnoughDepth) => (R!Spec => RestoreIsComplete)
<1> SUFFICES ASSUME Adapters = {"graph"}, EnoughDepth PROVE R!Spec => RestoreIsComplete
  OBVIOUS
<1>1. PICK W : Widths(W)
  BY DEF EnoughDepth
<1>2. R!Init => RestoreInv(W)
  BY DEF R!Init, RestoreInv
<1>3. R!TypeOK /\ RestoreInv(W) /\ [R!Next]_(R!vars) => RestoreInv(W)'
  BY <1>1, RestoreStep
<1>4. R!TypeOK /\ RestoreInv(W) /\ [R!Next]_(R!vars) =>
        [(restore.at = "store" /\ restore' = R!Idle /\ spent' = spent) =>
          \A m \in restore.present : R!Between(m, restore.range) =>
              \/ m \in rows'
              \/ R!Cardinality({k \in Messages : Date[k] - Date[m] \in (1 - Second)..(Second - 1)}) >= RangeLimit]_(R!vars)
  BY StoreIsComplete, SameCount DEF Dense
<1> QED
  BY <1>2, <1>3, <1>4, RangesTyped, PTL DEF R!Spec, RestoreIsComplete, R!RestoreIsComplete
=============================================================================
