------------------------- MODULE BackupRuntimeProofs -------------------------
(***************************************************************************)
(* Proofs about the parts of the backup runtime.  BackupSchedule: for      *)
(* every set of processes and targets, every schedule, every horizon and   *)
(* every bound on events.  RestoreOperations (R): for every finite set of  *)
(* requests and every size of the table.                                   *)
(***************************************************************************)
EXTENDS MCBackupRuntime, FiniteSetTheorems, WellFoundedInduction, TLAPS

(* A set of numbers has a least one.                                       *)
LEMMA LeastNumber ==
  ASSUME NEW S, S \subseteq Nat, S # {}
  PROVE  Min(S) \in S /\ \A n \in S : Min(S) <= n
<1> DEFINE Less == OpToRel(<, Nat)
<1>1. IsWellFoundedOn(Less, Nat)
  BY NatLessThanWellFounded
<1> HIDE DEF Less
<1>2. PICK m \in S : \A n \in S : ~(<<n, m>> \in Less)
  BY <1>1, WFMin
<1>3. \A n \in S : <<n, m>> \in Less <=> n < m
  BY DEF Less, OpToRel
<1>4. \A n \in S : m <= n
  <2> SUFFICES ASSUME NEW n \in S PROVE m <= n
    OBVIOUS
  <2>1. ~(n < m)
    BY <1>2, <1>3
  <2> QED
    BY <2>1
<1> QED
  BY <1>2, <1>4 DEF Min

(* The due time a schedule names lies after the anchor.                    *)
LEMMA NextDueType ==
  ASSUME NEW s \in Schedules, NEW anchor \in Int
  PROVE  \/ NextDue(s, anchor) = Never
         \/ NextDue(s, anchor) \in Due[s] /\ NextDue(s, anchor) > anchor
<1> DEFINE later == {d \in Due[s] : d > anchor}
<1>1. CASE later = {}
  BY <1>1 DEF NextDue
<1>2. CASE later # {}
  <2>1. later \subseteq Nat
    BY ScheduleAssumption
  <2>2. Min(later) \in later
    BY <1>2, <2>1, LeastNumber
  <2> QED
    BY <1>2, <2>2 DEF NextDue
<1> QED
  BY <1>1, <1>2

(* A set of numbers with a bound has a greatest one.                       *)
LEMMA GreatestNumber ==
  ASSUME NEW S, NEW h \in Nat, S \subseteq 0..h, S # {}
  PROVE  Max(S) \in S /\ \A n \in S : Max(S) >= n
<1> DEFINE rest == {h - n : n \in S}
<1>1. rest \subseteq Nat /\ rest # {}
  <2>1. \A n \in S : n \in 0..h /\ h - n \in Nat
    OBVIOUS
  <2>2. PICK n \in S : TRUE
    OBVIOUS
  <2> QED
    BY <2>1, <2>2
<1>2. Min(rest) \in rest /\ \A k \in rest : Min(rest) <= k
  BY <1>1, LeastNumber
<1>3. PICK m \in S : Min(rest) = h - m
  BY <1>2
<1>4. \A n \in S : h - m <= h - n
  BY <1>2, <1>3
<1>5. \A n \in S : m >= n
  BY <1>4
<1> QED
  BY <1>5 DEF Max

(* The anchor of a target is a time that has passed.                       *)
LEMMA AnchorType ==
  ASSUME TypeOK, NEW t \in Targets
  PROVE  Anchor(t) \in 0..now /\ \A r \in runs[t] : Anchor(t) >= r.at
<1> DEFINE times == {0} \cup {r.at : r \in runs[t]}
<1>1. now \in Nat /\ times \subseteq 0..now
  BY ScheduleAssumption DEF TypeOK
<1>2. Max(times) \in times /\ \A n \in times : Max(times) >= n
  BY <1>1, GreatestNumber
<1> QED
  BY <1>1, <1>2 DEF Anchor

-----------------------------------------------------------------------------
(* What a step does to the runs of a target: nothing, a run is inserted    *)
(* when the table allows it, or the active run gets another state.         *)
Queued(t, at, due) ==
  /\ at \in 0..now /\ due \in 0..now /\ due <= at
  /\ ~Active(t)
  /\ due # Never => \A r \in runs[t] : r.at < due
  /\ Insert(t, at, due)
Moved(t) == \E from \in States \ {"over"}, to \in States : Move(t, from, to)
RunStep ==
  \/ UNCHANGED runs
  \/ \E t \in Targets : \E at, due \in 0..now : Queued(t, at, due)
  \/ \E t \in Targets : Moved(t)

(* A step does one of the three things to the runs.                          *)
LEMMA RunKinds ==
  ASSUME TypeOK, [Next]_vars
  PROVE  RunStep
<1>1. ASSUME NEW i \in Instances, Create(i) PROVE RunStep
  <2>1. PICK p \in round[i].found :
          IF Taken(p[1], p[2]) THEN UNCHANGED runs ELSE Insert(p[1], round[i].at, p[2])
    BY <1>1 DEF Create
  <2>2. /\ p[1] \in Targets /\ p[2] \in 1..Horizon /\ round[i].at \in 0..now /\ now \in Nat
        /\ p[2] <= round[i].at
    BY ScheduleAssumption DEF TypeOK
  <2>3. CASE Taken(p[1], p[2])
    BY <2>1, <2>3 DEF RunStep
  <2>4. CASE ~Taken(p[1], p[2])
    <3>1. \A r \in runs[p[1]] : r.at \in 0..now
      BY <2>2 DEF TypeOK
    <3>2. ~Active(p[1]) /\ \A r \in runs[p[1]] : r.at < p[2]
      BY <2>2, <2>4, <3>1 DEF Taken, Active
    <3>3. Queued(p[1], round[i].at, p[2])
      BY <2>1, <2>2, <2>4, <3>2 DEF Queued
    <3> QED
      BY <2>2, <3>3 DEF RunStep
  <2> QED
    BY <2>3, <2>4
<1>2. ASSUME NEW t \in Targets, Answer(t) PROVE RunStep
  <2>1. asked[t] \in 0..now /\ now \in Nat
    BY <1>2, ScheduleAssumption DEF Answer, TypeOK
  <2>2. CASE Active(t)
    BY <1>2, <2>2 DEF Answer, RunStep
  <2>3. CASE ~Active(t)
    <3>1. Queued(t, asked[t], Never)
      BY <1>2, <2>1, <2>3 DEF Answer, Queued, Never
    <3> QED
      BY <2>1, <3>1 DEF RunStep, Never
  <2> QED
    BY <2>2, <2>3
<1>3. ASSUME NEW t \in Targets, Claim(t) \/ Settle(t) \/ Abandon(t) PROVE RunStep
  <2>1. Moved(t)
    BY <1>3 DEF Claim, Settle, Abandon, Moved, States
  <2> QED
    BY <2>1 DEF RunStep
<1> QED
  BY <1>1, <1>2, <1>3 DEF Next, Scheduler, Tick, Begin, Look, Fail, Crash, Ask, Edit, vars, RunStep

(* Time goes forward, so that what was a time stays one.                   *)
LEMMA TimePasses ==
  ASSUME TypeOK, [Next]_vars
  PROVE  now \in Nat /\ now' \in 0..Horizon /\ now <= now' /\ 0..now \subseteq 0..now'
<1>1. now \in 0..Horizon /\ Horizon \in Nat
  BY ScheduleAssumption DEF TypeOK
<1>2. now' = now \/ (now < Horizon /\ now' = now + 1)
  BY DEF Next, Tick, Scheduler, Begin, Look, Create, Fail, Crash, Ask, Answer, Claim, Settle, Abandon, Edit, vars
<1> QED
  BY <1>1, <1>2

(* The runs of a target after one gets another state: the other rows are   *)
(* what they were, and a run is active only if it was.                     *)
MovedBy(t, f) ==
  /\ f \in [runs[t] -> [at : 0..now, due : 0..now, state : States]]
  /\ runs'[t] = {f[r] : r \in runs[t]}
  /\ \A r \in runs[t] : /\ f[r].at = r.at /\ f[r].due = r.due
                        /\ f[r].state # "over" => r.state # "over"
  /\ \A u \in Targets \ {t} : runs'[u] = runs[u]
  /\ runs' = [u \in Targets |-> runs'[u]]
LEMMA MovedRuns ==
  ASSUME TypeOK, NEW t \in Targets, Moved(t)
  PROVE  \E f : MovedBy(t, f)
<1> DEFINE Row == [at : 0..now, due : 0..now, state : States]
<1>1. PICK from \in States \ {"over"}, to \in States : Move(t, from, to)
  BY DEF Moved
<1> DEFINE f == [r \in runs[t] |-> IF r.state = from THEN [r EXCEPT !.state = to] ELSE r]
<1>2. /\ runs'[t] = {f[r] : r \in runs[t]} /\ runs' = [u \in Targets |-> runs'[u]]
      /\ \A u \in Targets \ {t} : runs'[u] = runs[u]
  <2>1. runs' = [runs EXCEPT ![t] = {IF r.state = from THEN [r EXCEPT !.state = to] ELSE r : r \in runs[t]}]
    BY <1>1 DEF Move
  <2>2. {f[r] : r \in runs[t]} = {IF r.state = from THEN [r EXCEPT !.state = to] ELSE r : r \in runs[t]}
    OBVIOUS
  <2>3. t \in DOMAIN runs /\ DOMAIN runs = Targets
    BY DEF TypeOK
  <2> QED
    BY <2>1, <2>2, <2>3
<1>3. ASSUME NEW r \in runs[t]
      PROVE  f[r] \in Row /\ f[r].at = r.at /\ f[r].due = r.due /\ (f[r].state # "over" => r.state # "over")
  <2>1. r \in Row
    BY DEF TypeOK
  <2>2. CASE r.state = from
    BY <2>1, <2>2
  <2>3. CASE r.state # from
    BY <2>1, <2>3
  <2> QED
    BY <2>2, <2>3
<1>4. f \in [runs[t] -> Row]
  BY <1>3
<1> HIDE DEF f, Row
<1> QED
  BY <1>2, <1>3, <1>4 DEF Row, MovedBy

(* An insert adds one active run to its target.                              *)
LEMMA InsertedRuns ==
  ASSUME TypeOK, NEW t \in Targets, NEW at \in 0..now, NEW due \in 0..now, Insert(t, at, due)
  PROVE  \E n \in [at : 0..now, due : 0..now, state : States] :
           /\ n.at = at /\ n.due = due
           /\ runs'[t] = runs[t] \cup {n}
           /\ \A u \in Targets \ {t} : runs'[u] = runs[u]
<1>1. [at |-> at, due |-> due, state |-> "pending"] \in [at : 0..now, due : 0..now, state : States]
  BY DEF States
<1>2. /\ runs'[t] = runs[t] \cup {[at |-> at, due |-> due, state |-> "pending"]}
      /\ \A u \in Targets \ {t} : runs'[u] = runs[u]
  BY DEF Insert, TypeOK
<1> QED
  BY <1>1, <1>2

(* The run table stays well typed.                                         *)
LEMMA RunsType ==
  ASSUME TypeOK, [Next]_vars
  PROVE  /\ runs' \in [Targets -> SUBSET [at : 0..now', due : 0..now', state : States]]
         /\ \A t \in Targets : \A r \in runs'[t] : r.due <= r.at
<1> DEFINE Row == [at : 0..now, due : 0..now, state : States]
<1>1. \A t \in Targets : runs[t] \subseteq Row /\ \A r \in runs[t] : r.due <= r.at
  BY DEF TypeOK
<1>2. runs' \in [Targets -> SUBSET Row] /\ \A t \in Targets : \A r \in runs'[t] : r.due <= r.at
  <2>1. DOMAIN runs = Targets /\ runs = [t \in Targets |-> runs[t]]
    BY DEF TypeOK
  <2>2. CASE UNCHANGED runs
    BY <2>2 DEF TypeOK
  <2>3. ASSUME NEW t \in Targets, NEW at \in 0..now, NEW due \in 0..now, Queued(t, at, due)
        PROVE  runs' \in [Targets -> SUBSET Row] /\ \A u \in Targets : \A r \in runs'[u] : r.due <= r.at
    <3>1. PICK n \in Row : /\ n.at = at /\ n.due = due
                           /\ runs'[t] = runs[t] \cup {n}
                           /\ \A u \in Targets \ {t} : runs'[u] = runs[u]
      BY <2>3, InsertedRuns DEF Queued
    <3>2. runs' = [u \in Targets |-> runs'[u]]
      BY <2>3 DEF Queued, Insert, TypeOK
    <3>3. due <= at
      BY <2>3 DEF Queued
    <3> HIDE DEF Row
    <3>4. \A u \in Targets : runs'[u] \subseteq Row
      BY <1>1, <3>1
    <3>5. \A u \in Targets : \A r \in runs'[u] : r.due <= r.at
      BY <1>1, <3>1, <3>3
    <3> QED
      BY <3>2, <3>4, <3>5
  <2>4. ASSUME NEW t \in Targets, Moved(t)
        PROVE  runs' \in [Targets -> SUBSET Row] /\ \A u \in Targets : \A r \in runs'[u] : r.due <= r.at
    <3> HIDE DEF Row
    <3>0. PICK f : MovedBy(t, f)
      BY <2>4, MovedRuns
    <3>1. /\ f \in [runs[t] -> Row] /\ runs'[t] = {f[r] : r \in runs[t]}
          /\ \A r \in runs[t] : f[r].at = r.at /\ f[r].due = r.due
          /\ \A u \in Targets \ {t} : runs'[u] = runs[u]
          /\ runs' = [u \in Targets |-> runs'[u]]
      BY <3>0 DEF MovedBy, Row
    <3>2. \A u \in Targets : runs'[u] \subseteq Row
      BY <1>1, <3>1
    <3>3. \A u \in Targets : \A r \in runs'[u] : r.due <= r.at
      BY <1>1, <3>1
    <3> QED
      BY <3>1, <3>2, <3>3
  <2> QED
    BY <2>2, <2>3, <2>4, RunKinds DEF RunStep
<1>3. Row \subseteq [at : 0..now', due : 0..now', state : States]
  BY TimePasses
<1> QED
  BY <1>2, <1>3

(* A round carries targets with their schedules, and at most one due time. *)
Round == [at : 0..now, todo : SUBSET (Targets \X Schedules), found : SUBSET (Targets \X (1..Horizon))]
RoundOK(r) == r \in Round /\ Cardinality(r.found) <= 1 /\ \A p \in r.found : p[2] <= r.at

(* A round that starts has found nothing.                                    *)
LEMMA RoundFields ==
  ASSUME NEW at \in 0..now, NEW todo \in SUBSET (Targets \X Schedules)
  PROVE  RoundOK([at |-> at, todo |-> todo, found |-> {}])
BY FS_EmptySet DEF RoundOK, Round

(* An instance between rounds.                                               *)
LEMMA IdleType == ASSUME TypeOK PROVE RoundOK(Idle)
<1>1. 0 \in 0..now
  BY ScheduleAssumption DEF TypeOK
<1> QED
  BY <1>1, RoundFields DEF Idle

(* A step changes the round of one instance at most.                         *)
LEMMA RoundStep ==
  ASSUME TypeOK, [Next]_vars, NEW i \in Instances
  PROVE  round' = round \/ \E r \in Round : RoundOK(r) /\ \E j \in Instances : round' = [round EXCEPT ![j] = r]
<1> DEFINE Moves == \E r \in Round : RoundOK(r) /\ \E j \in Instances : round' = [round EXCEPT ![j] = r]
<1>0. now \in Nat /\ RoundOK(Idle) /\ Idle \in Round
  BY IdleType, ScheduleAssumption DEF TypeOK, RoundOK
<1>1. ASSUME NEW j \in Instances, Begin(j) PROVE Moves
  <2> DEFINE todo == {<<t, settings[t].schedule>> : t \in {u \in Targets : settings[u].enabled}}
  <2>1. todo \in SUBSET (Targets \X Schedules)
    BY DEF TypeOK
  <2>2. round' = [round EXCEPT ![j] = [at |-> now, todo |-> todo, found |-> {}]]
    BY <1>1 DEF Begin
  <2> HIDE DEF todo
  <2>3. RoundOK([at |-> now, todo |-> todo, found |-> {}])
    BY <1>0, <2>1, RoundFields
  <2> QED
    BY <2>2, <2>3 DEF RoundOK
<1>2. ASSUME NEW j \in Instances, Look(j) PROVE Moves
  <2>1. PICK p \in round[j].todo :
          round' = [round EXCEPT ![j] =
            IF Ripe(NextDue(p[2], Anchor(p[1])), round[j].at)
            THEN [[round[j] EXCEPT !.todo = @ \ {p}] EXCEPT !.found = {<<p[1], NextDue(p[2], Anchor(p[1]))>>}]
            ELSE IF [round[j] EXCEPT !.todo = @ \ {p}].todo = {} THEN Idle ELSE [round[j] EXCEPT !.todo = @ \ {p}]]
    BY <1>2, Zenon DEF Look
  <2> DEFINE due == NextDue(p[2], Anchor(p[1]))  rest == [round[j] EXCEPT !.todo = @ \ {p}]
             ripe == [rest EXCEPT !.found = {<<p[1], due>>}]
  <2>2. RoundOK(round[j]) /\ p \in Targets \X Schedules
    BY DEF TypeOK, RoundOK, Round
  <2>3. RoundOK(rest) /\ rest.at = round[j].at
    BY <2>2 DEF RoundOK, Round
  <2>4. CASE Ripe(due, round[j].at)
    <3>1. Anchor(p[1]) \in Int
      BY <1>0, <2>2, AnchorType
    <3>2. due \in 1..Horizon /\ due <= round[j].at
      BY <2>2, <2>4, <3>1, NextDueType, ScheduleAssumption DEF Ripe
    <3>3. <<p[1], due>> \in Targets \X (1..Horizon)
      BY <2>2, <3>2
    <3>4. Cardinality({<<p[1], due>>}) <= 1
      <4> DEFINE found == <<p[1], due>>
      <4> HIDE DEF found
      <4>1. Cardinality({found}) = 1
        BY FS_Singleton
      <4> QED
        BY <4>1 DEF found
    <3>5. rest \in Round
      BY <2>3 DEF RoundOK
    <3> HIDE DEF rest, due
    <3>6. ripe \in Round /\ ripe.found = {<<p[1], due>>} /\ ripe.at = rest.at
      BY <3>3, <3>5 DEF Round
    <3>7. RoundOK(ripe)
      BY <2>3, <3>2, <3>4, <3>6 DEF RoundOK
    <3> QED
      BY <2>1, <2>4, <3>7 DEF RoundOK, rest, due
  <2>5. CASE ~Ripe(due, round[j].at)
    BY <1>0, <2>1, <2>3, <2>5 DEF RoundOK
  <2> QED
    BY <2>4, <2>5
<1>3. ASSUME NEW j \in Instances, Leave(j) PROVE Moves
  <2>1. round[j] \in Round
    BY DEF TypeOK, Round
  <2>2. RoundOK([round[j] EXCEPT !.found = {}])
    BY <2>1, FS_EmptySet DEF RoundOK, Round
  <2>3. round' = [round EXCEPT ![j] = IF round[j].todo = {} THEN Idle ELSE [round[j] EXCEPT !.found = {}]]
    BY <1>3 DEF Leave, TypeOK
  <2> QED
    BY <1>0, <2>2, <2>3 DEF RoundOK
<1>4. ASSUME NEW j \in Instances, Fail(j) PROVE Moves
  <2>1. CASE Leave(j)
    BY <1>3, <2>1
  <2>2. CASE ~Leave(j)
    <3>1. PICK p \in round[j].todo :
            round' = [round EXCEPT ![j] = IF round[j].todo \ {p} = {} THEN Idle
                                          ELSE [round[j] EXCEPT !.todo = round[j].todo \ {p}]]
      BY <1>4, <2>2 DEF Fail, TypeOK
    <3>2. RoundOK(round[j])
      BY DEF TypeOK, RoundOK, Round
    <3>3. RoundOK([round[j] EXCEPT !.todo = round[j].todo \ {p}])
      BY <3>2 DEF RoundOK, Round
    <3> QED
      BY <1>0, <3>1, <3>3 DEF RoundOK
  <2> QED
    BY <2>1, <2>2
<1>5. ASSUME NEW j \in Instances, Crash(j) PROVE Moves
  BY <1>0, <1>5 DEF Crash
<1>6. ASSUME NEW j \in Instances, Create(j) PROVE Moves
  BY <1>3, <1>6 DEF Create
<1> QED
  BY <1>1, <1>2, <1>4, <1>5, <1>6 DEF Next, Scheduler, Tick, Ask, Answer, Claim, Settle, Abandon, Edit, vars

(* Every reachable state is well typed: no run and no round is later than  *)
(* the clock, and a round has found a window only after it fell due.       *)
THEOREM TypeCorrect == Spec => []TypeOK
<1>1. Init => TypeOK
  <2> SUFFICES ASSUME Init PROVE TypeOK
    OBVIOUS
  <2>1. 0 \in 0..Horizon /\ 0 \in 0..MaxEvents /\ now = 0
    BY ScheduleAssumption DEF Init
  <2>2. Idle \in [at : 0..now, todo : SUBSET (Targets \X Schedules), found : SUBSET (Targets \X (1..Horizon))]
        /\ Cardinality(Idle.found) <= 1 /\ Idle.found = {}
    BY <2>1, FS_EmptySet DEF Idle
  <2> QED
    BY <2>1, <2>2 DEF Init, TypeOK
<1>2. TypeOK /\ [Next]_vars => TypeOK'
  <2> SUFFICES ASSUME TypeOK, [Next]_vars PROVE TypeOK'
    OBVIOUS
  <2>1. now' \in 0..Horizon /\ 0..now \subseteq 0..now' /\ now \in Nat /\ now <= now'
    BY TimePasses
  <2>2. settings' \in [Targets -> [enabled : BOOLEAN, schedule : Schedules]]
    <3>1. CASE UNCHANGED settings
      BY <3>1 DEF TypeOK
    <3>2. ASSUME NEW t \in Targets, Edit(t) PROVE settings' \in [Targets -> [enabled : BOOLEAN, schedule : Schedules]]
      BY <3>2 DEF Edit, TypeOK
    <3> QED
      BY <3>1, <3>2 DEF Next, Tick, Scheduler, Begin, Look, Create, Fail, Crash, Ask, Answer, Claim, Settle, Abandon, vars
  <2>3. /\ round' \in [Instances -> [at : 0..now', todo : SUBSET (Targets \X Schedules),
                                     found : SUBSET (Targets \X (1..Horizon))]]
        /\ \A i \in Instances : Cardinality(round'[i].found) <= 1 /\ \A p \in round'[i].found : p[2] <= round'[i].at
    <3>1. \A i \in Instances : RoundOK(round[i])
      BY DEF TypeOK, RoundOK, Round
    <3>2. round' \in [Instances -> Round] /\ \A i \in Instances : RoundOK(round'[i])
      <4>1. CASE round' = round
        BY <3>1, <4>1 DEF RoundOK, TypeOK, Round
      <4>2. ASSUME NEW r \in Round, RoundOK(r), NEW j \in Instances, round' = [round EXCEPT ![j] = r]
            PROVE  round' \in [Instances -> Round] /\ \A i \in Instances : RoundOK(round'[i])
        <5>1. round \in [Instances -> Round]
          BY DEF TypeOK, Round
        <5> QED
          BY <3>1, <4>2, <5>1
      <4>3. CASE Instances = {}
        BY <4>3, <4>1 DEF Next, Scheduler, Tick, Ask, Answer, Claim, Settle, Abandon, Edit, vars
      <4> QED
        BY <4>1, <4>2, <4>3, RoundStep
    <3>3. Round \subseteq [at : 0..now', todo : SUBSET (Targets \X Schedules), found : SUBSET (Targets \X (1..Horizon))]
      BY <2>1 DEF Round
    <3> QED
      BY <3>2, <3>3 DEF RoundOK
  <2>4. asked' \in [Targets -> {-1} \cup 0..now']
    <3>1. asked' = asked \/ \E t \in Targets : asked' = [asked EXCEPT ![t] = now] \/ asked' = [asked EXCEPT ![t] = -1]
      BY DEF Next, Tick, Scheduler, Begin, Look, Create, Fail, Crash, Ask, Answer, Claim, Settle, Abandon, Edit, vars
    <3>2. now \in 0..now' /\ \A x \in {-1} \cup 0..now : x \in {-1} \cup 0..now'
      BY <2>1
    <3> QED
      BY <3>1, <3>2 DEF TypeOK
  <2>5. events' \in 0..MaxEvents
    <3>1. events' = events \/ Spend
      BY DEF Next, Tick, Scheduler, Begin, Look, Create, Fail, Crash, Ask, Answer, Claim, Settle, Abandon, Edit, vars
    <3>2. events \in 0..MaxEvents /\ MaxEvents \in Nat
      BY ScheduleAssumption DEF TypeOK
    <3>3. events' = events \/ (events < MaxEvents /\ events' = events + 1)
      BY <3>1 DEF Spend
    <3> QED
      BY <3>2, <3>3
  <2> QED
    BY <2>1, <2>2, <2>3, <2>4, <2>5, RunsType DEF TypeOK
<1> QED
  BY <1>1, <1>2, PTL DEF Spec

-----------------------------------------------------------------------------
(* Two runs the schedulers queued for a target never serve the same        *)
(* window, and the run table has one active run of a target at a time.     *)
LEMMA WindowStep ==
  ASSUME TypeOK, RunStep, WindowsRunOnce
  PROVE  WindowsRunOnce'
<1>1. CASE UNCHANGED runs
  BY <1>1 DEF WindowsRunOnce
<1>2. ASSUME NEW t \in Targets, NEW at \in 0..now, NEW due \in 0..now, Queued(t, at, due)
      PROVE  WindowsRunOnce'
  <2>0. Insert(t, at, due)
    BY <1>2 DEF Queued
  <2>1. PICK n \in [at : 0..now, due : 0..now, state : States] :
          /\ n.at = at /\ n.due = due
          /\ runs'[t] = runs[t] \cup {n}
          /\ \A u \in Targets \ {t} : runs'[u] = runs[u]
    BY <2>0, InsertedRuns
  <2>2. n.due # Never => \A r \in runs[t] : r.at < n.due
    BY <1>2, <2>1 DEF Queued
  <2> QED
    BY <2>1, <2>2 DEF WindowsRunOnce
<1>3. ASSUME NEW t \in Targets, Moved(t) PROVE WindowsRunOnce'
  <2>0. PICK f : MovedBy(t, f)
    BY <1>3, MovedRuns
  <2>1. /\ runs'[t] = {f[r] : r \in runs[t]}
        /\ \A r \in runs[t] : f[r].at = r.at /\ f[r].due = r.due
        /\ \A u \in Targets \ {t} : runs'[u] = runs[u]
    BY <2>0 DEF MovedBy
  <2>2. ASSUME NEW q \in runs'[t], NEW p \in runs'[t], q # p, q.due # Never, p.due # Never
        PROVE  q.at < p.due \/ p.at < q.due
    <3>1. PICK r \in runs[t] : q = f[r]
      BY <2>1
    <3>2. PICK s \in runs[t] : p = f[s]
      BY <2>1
    <3>3. r # s /\ q.at = r.at /\ q.due = r.due /\ p.at = s.at /\ p.due = s.due
      BY <2>1, <2>2, <3>1, <3>2
    <3> QED
      BY <2>2, <3>3 DEF WindowsRunOnce
  <2> QED
    BY <2>1, <2>2 DEF WindowsRunOnce
<1> QED
  BY <1>1, <1>2, <1>3 DEF RunStep

(* createScheduled and the table queue a target once per due time,           *)
(* however many instances run the scheduler: what found a window asks again, *)
(* in the statement that inserts, whether a later run is there already.      *)
THEOREM NoWindowTwice == Spec => []WindowsRunOnce
<1>1. Init => WindowsRunOnce
  BY DEF Init, WindowsRunOnce
<1>2. TypeOK /\ WindowsRunOnce /\ [Next]_vars => WindowsRunOnce'
  BY RunKinds, WindowStep
<1> QED
  BY <1>1, <1>2, TypeCorrect, PTL DEF Spec

(* The table has at most one active run of a target, whoever inserted it:  *)
(* a request, a round that slept, or two rounds at once.                   *)
ActiveInv == \A t \in Targets : \A r, q \in runs[t] : r.state # "over" /\ q.state # "over" => r = q

(* An insert needs that no run of the target is active.                      *)
LEMMA ActiveStep ==
  ASSUME TypeOK, RunStep, ActiveInv
  PROVE  ActiveInv'
<1>1. CASE UNCHANGED runs
  BY <1>1 DEF ActiveInv
<1>2. ASSUME NEW t \in Targets, NEW at \in 0..now, NEW due \in 0..now, Queued(t, at, due)
      PROVE  ActiveInv'
  <2>1. PICK n : runs'[t] = runs[t] \cup {n} /\ \A u \in Targets \ {t} : runs'[u] = runs[u]
    BY <1>2, InsertedRuns DEF Queued
  <2>2. \A r \in runs[t] : r.state = "over"
    BY <1>2 DEF Queued, Active
  <2> QED
    BY <2>1, <2>2 DEF ActiveInv
<1>3. ASSUME NEW t \in Targets, Moved(t) PROVE ActiveInv'
  <2>0. PICK f : MovedBy(t, f)
    BY <1>3, MovedRuns
  <2>1. /\ runs'[t] = {f[r] : r \in runs[t]}
        /\ \A r \in runs[t] : f[r].state # "over" => r.state # "over"
        /\ \A u \in Targets \ {t} : runs'[u] = runs[u]
    BY <2>0 DEF MovedBy
  <2>2. ASSUME NEW q \in runs'[t], NEW p \in runs'[t], q.state # "over", p.state # "over" PROVE q = p
    BY <2>1, <2>2 DEF ActiveInv
  <2> QED
    BY <2>1, <2>2 DEF ActiveInv
<1> QED
  BY <1>1, <1>2, <1>3 DEF RunStep

(* No two runs of a target are active, whatever requests and rounds insert   *)
(* and whatever the workers leave: the inserting transactions look again.    *)
THEOREM OneActive == Spec => []OneActiveRun
<1>1. Init => ActiveInv
  BY DEF Init, ActiveInv
<1>2. TypeOK /\ ActiveInv /\ [Next]_vars => ActiveInv'
  BY RunKinds, ActiveStep
<1>3. ActiveInv => OneActiveRun
  <2> SUFFICES ASSUME ActiveInv, NEW t \in Targets PROVE Cardinality({r \in runs[t] : r.state # "over"}) <= 1
    BY DEF OneActiveRun
  <2> DEFINE active == {r \in runs[t] : r.state # "over"}
  <2>1. active = {} \/ \E r : active = {r}
    <3>1. \A r, q \in active : r = q
      BY DEF ActiveInv
    <3> HIDE DEF active
    <3>2. CASE \E r : r \in active
      <4>1. PICK r : r \in active
        BY <3>2
      <4>2. active = {r}
        BY <3>1, <4>1
      <4> QED
        BY <4>2
    <3> QED
      BY <3>2
  <2> HIDE DEF active
  <2>2. Cardinality(active) <= 1
    <3>1. CASE active = {}
      BY <3>1, FS_EmptySet
    <3>2. CASE \E r : active = {r}
      <4>1. PICK r : active = {r}
        BY <3>2
      <4>2. Cardinality({r}) = 1
        BY FS_Singleton
      <4> QED
        BY <4>1, <4>2
    <3> QED
      BY <2>1, <3>1, <3>2
  <2> QED
    BY <2>2 DEF active
<1> QED
  BY <1>1, <1>2, <1>3, TypeCorrect, PTL DEF Spec

-----------------------------------------------------------------------------
(* The restores.                                                           *)

Remembered == DOMAIN ops
Watched == {r \in Requests : request[r] = "answered" /\ r \in Remembered /\ ops[r] = "running"}

\* What is running is remembered as running from the moment it is recorded,
\* and the shutdown has counted it.
RestoresInv ==
  /\ phase \in {"serving", "draining", "joining", "stopped"} /\ gaveUp \in BOOLEAN
  /\ request \in [Requests -> {"new", "reserved", "recorded", "answered", "refused"}]
  /\ job \in [Requests -> {"none", "running", "succeeded", "failed"}]
  /\ \A r \in Requests : job[r] = "none" <=> request[r] \in {"new", "refused"}
  /\ \A r \in Remembered : /\ r \in Requests /\ request[r] \in {"recorded", "answered"}
                            /\ ops[r] \in {"running", "succeeded", "failed"}
                            /\ (ops[r] # "running" => request[r] = "answered" /\ ops[r] = job[r])
  /\ phase # "stopped" =>
       /\ \A r \in Requests : request[r] = "recorded" => r \in Remembered /\ ops[r] = "running"
       /\ \A r \in Requests : request[r] = "answered" /\ job[r] = "running" => r \in Remembered /\ ops[r] = "running"
       /\ waits = Cardinality(Watched)
  /\ phase = "joining" /\ ~gaveUp => \A r \in Requests : request[r] \notin {"reserved", "recorded"}
  /\ phase = "stopped" /\ ~gaveUp => \A r \in Requests : job[r] # "running"

(* Room is made by forgetting what has ended.                              *)
LEMMA RunningIsKept ==
  ASSUME NEW r \in Requests
  PROVE  LET new == R!Remember(ops, order, r).ops
         IN  /\ r \in DOMAIN new /\ new[r] = "running"
             /\ \A q \in DOMAIN new : q = r \/ q \in Remembered
             /\ \A q \in DOMAIN new : q # r => new[q] = ops[q]
             /\ \A q \in Remembered : ops[q] = "running" => q \in DOMAIN new
<1> DEFINE kept == Remembered \ R!Excess(ops, order)
           new == [q \in kept \cup {r} |-> IF q = r THEN "running" ELSE ops[q]]
<1>1. R!Remember(ops, order, r).ops = new
  BY DEF R!Remember, Remembered
<1>2. \A q \in R!Excess(ops, order) : ops[q] # "running"
  BY DEF R!Excess, R!Finished
<1> QED
  BY <1>1, <1>2

(* The shutdown waits for as many as are watched.                          *)
LEMMA WatchedCount ==
  ASSUME NEW W \in SUBSET Requests, NEW r \in Requests
  PROVE  /\ Cardinality(W) \in Nat /\ (Cardinality(W) = 0 => W = {})
         /\ (r \notin W => Cardinality(W \cup {r}) = Cardinality(W) + 1)
         /\ (r \in W => Cardinality(W \ {r}) = Cardinality(W) - 1)
<1>1. IsFiniteSet(W)
  BY FS_Subset, CapacityAssumption
<1> QED
  BY <1>1, FS_CardinalityType, FS_EmptySet, FS_AddElement, FS_RemoveElement

(* A step that changes neither a request nor a restore keeps what is known *)
(* of them.                                                                *)
LEMMA RestoresKept ==
  ASSUME RestoresInv, UNCHANGED <<request, job, ops, waits>>, phase # "stopped",
         phase' \in {"serving", "draining", "joining"}, gaveUp' \in BOOLEAN,
         phase' = "joining" /\ ~gaveUp' => \A r \in Requests : request[r] \notin {"reserved", "recorded"}
  PROVE  RestoresInv'
<1>1. Watched' = Watched
  BY DEF Watched, Remembered
<1>2. phase' # "stopped" /\ Remembered' = Remembered
  BY DEF Remembered
<1>3. waits' = Cardinality(Watched')
  BY <1>1 DEF RestoresInv
<1> HIDE DEF Watched
<1> QED
  BY <1>2, <1>3 DEF RestoresInv

(* A request is recorded.                                                  *)
LEMMA RecordStep ==
  ASSUME RestoresInv, NEW r \in Requests, R!Record(r)
  PROVE  RestoresInv'
<1>1. /\ request[r] = "reserved" /\ phase # "stopped" /\ ops' = R!Remember(ops, order, r).ops
      /\ request' = [request EXCEPT ![r] = "recorded"] /\ UNCHANGED <<phase, gaveUp, job, waits>>
  BY DEF R!Record
<1>2. /\ r \in Remembered' /\ ops'[r] = "running"
      /\ \A q \in Remembered' : q = r \/ q \in Remembered
      /\ \A q \in Remembered' : q # r => ops'[q] = ops[q]
      /\ \A q \in Remembered : ops[q] = "running" => q \in Remembered'
  BY <1>1, RunningIsKept DEF Remembered
<1>3. request' \in [Requests -> {"new", "reserved", "recorded", "answered", "refused"}] /\ request'[r] = "recorded"
      /\ \A q \in Requests : q # r => request'[q] = request[q]
  BY <1>1 DEF RestoresInv
<1>4. r \notin Remembered
  BY <1>1 DEF RestoresInv
<1>5. Watched' = Watched
  BY <1>2, <1>3, <1>4 DEF Watched
<1>6. waits' = Cardinality(Watched')
  BY <1>1, <1>5 DEF RestoresInv
<1>7. \A q \in Requests : job'[q] = "none" <=> request'[q] \in {"new", "refused"}
  BY <1>1, <1>3 DEF RestoresInv
<1>8. \A q \in Remembered' : /\ q \in Requests /\ request'[q] \in {"recorded", "answered"}
                             /\ ops'[q] \in {"running", "succeeded", "failed"}
                             /\ (ops'[q] # "running" => request'[q] = "answered" /\ ops'[q] = job'[q])
  BY <1>1, <1>2, <1>3 DEF RestoresInv
<1>9. /\ \A q \in Requests : request'[q] = "recorded" => q \in Remembered' /\ ops'[q] = "running"
      /\ \A q \in Requests : request'[q] = "answered" /\ job'[q] = "running" => q \in Remembered' /\ ops'[q] = "running"
  BY <1>1, <1>2, <1>3 DEF RestoresInv
<1>10. phase' = "joining" /\ ~gaveUp' => \A q \in Requests : request'[q] \notin {"reserved", "recorded"}
  BY <1>1 DEF RestoresInv
<1> HIDE DEF Watched, Remembered
<1> QED
  BY <1>1, <1>3, <1>6, <1>7, <1>8, <1>9, <1>10 DEF RestoresInv

(* The request is answered, and its observer is waited for from now on.    *)
LEMMA AnswerStep ==
  ASSUME RestoresInv, NEW r \in Requests, R!Answer(r)
  PROVE  RestoresInv'
<1>1. /\ request[r] = "recorded" /\ phase # "stopped" /\ waits' = waits + 1
      /\ request' = [request EXCEPT ![r] = "answered"] /\ UNCHANGED <<phase, gaveUp, job, ops>>
  BY DEF R!Answer, R!Count
<1>2. request' \in [Requests -> {"new", "reserved", "recorded", "answered", "refused"}] /\ request'[r] = "answered"
      /\ \A q \in Requests : q # r => request'[q] = request[q]
  BY <1>1 DEF RestoresInv
<1>3. r \in Remembered /\ ops[r] = "running" /\ Remembered' = Remembered
  BY <1>1 DEF RestoresInv, Remembered
<1>4. r \notin Watched /\ Watched' = Watched \cup {r}
  BY <1>1, <1>2, <1>3 DEF Watched
<1>5. Cardinality(Watched \cup {r}) = Cardinality(Watched) + 1
  <2>1. Watched \in SUBSET Requests
    BY DEF Watched
  <2> QED
    BY <1>4, <2>1, WatchedCount
<1>6. waits' = Cardinality(Watched')
  BY <1>1, <1>4, <1>5 DEF RestoresInv
<1> HIDE DEF Watched, Remembered
<1>7. \A q \in Requests : job'[q] = "none" <=> request'[q] \in {"new", "refused"}
  BY <1>1, <1>2 DEF RestoresInv
<1>8. \A q \in Remembered' : /\ q \in Requests /\ request'[q] \in {"recorded", "answered"}
                             /\ ops'[q] \in {"running", "succeeded", "failed"}
                             /\ (ops'[q] # "running" => request'[q] = "answered" /\ ops'[q] = job'[q])
  BY <1>1, <1>2, <1>3 DEF RestoresInv
<1>9. /\ \A q \in Requests : request'[q] = "recorded" => q \in Remembered' /\ ops'[q] = "running"
      /\ \A q \in Requests : request'[q] = "answered" /\ job'[q] = "running" => q \in Remembered' /\ ops'[q] = "running"
  BY <1>1, <1>2, <1>3 DEF RestoresInv
<1>10. phase' = "joining" /\ ~gaveUp' => \A q \in Requests : request'[q] \notin {"reserved", "recorded"}
  BY <1>1 DEF RestoresInv
<1> QED
  BY <1>1, <1>2, <1>6, <1>7, <1>8, <1>9, <1>10 DEF RestoresInv

(* The observer settles the operation and is no longer waited for.         *)
LEMMA ObserveStep ==
  ASSUME RestoresInv, NEW r \in Requests, R!Observe(r)
  PROVE  RestoresInv'
<1>1. /\ request[r] = "answered" /\ job[r] \in {"succeeded", "failed"} /\ r \in Remembered /\ ops[r] = "running"
      /\ phase # "stopped" /\ waits' = waits - 1 /\ UNCHANGED <<phase, gaveUp, request, job>>
      /\ ops' = [ops EXCEPT ![r] = job[r]]
  <2>1. job[r] \in {"succeeded", "failed"}
    BY DEF R!Observe, R!Delivered
  <2>2. R!Outcome(r) = job[r]
    BY <2>1 DEF R!Outcome
  <2> QED
    BY <2>1, <2>2 DEF R!Observe, R!Remembered, R!Running, Remembered
<1>2. Remembered' = Remembered /\ ops'[r] = job[r] /\ \A q \in Remembered : q # r => ops'[q] = ops[q]
  BY <1>1 DEF Remembered
<1>3. r \in Watched /\ Watched' = Watched \ {r}
  BY <1>1, <1>2 DEF Watched
<1>4. Cardinality(Watched \ {r}) = Cardinality(Watched) - 1
  <2>1. Watched \in SUBSET Requests
    BY DEF Watched
  <2> QED
    BY <1>3, <2>1, WatchedCount
<1>5. waits' = Cardinality(Watched')
  BY <1>1, <1>3, <1>4 DEF RestoresInv
<1> HIDE DEF Watched, Remembered
<1>6. \A q \in Remembered' : /\ q \in Requests /\ request'[q] \in {"recorded", "answered"}
                             /\ ops'[q] \in {"running", "succeeded", "failed"}
                             /\ (ops'[q] # "running" => request'[q] = "answered" /\ ops'[q] = job'[q])
  BY <1>1, <1>2 DEF RestoresInv
<1>7. /\ \A q \in Requests : request'[q] = "recorded" => q \in Remembered' /\ ops'[q] = "running"
      /\ \A q \in Requests : request'[q] = "answered" /\ job'[q] = "running" => q \in Remembered' /\ ops'[q] = "running"
  BY <1>1, <1>2 DEF RestoresInv
<1> QED
  BY <1>1, <1>5, <1>6, <1>7 DEF RestoresInv

(* A restore ends, whether or not anyone looks.                            *)
LEMMA RestoreStep ==
  ASSUME RestoresInv, NEW r \in Requests, R!Restore(r)
  PROVE  RestoresInv'
<1>1. PICK outcome \in {"succeeded", "failed"} : job' = [job EXCEPT ![r] = outcome]
  BY DEF R!Restore
<1>2. job[r] = "running" /\ phase # "stopped" /\ UNCHANGED <<phase, gaveUp, request, ops, waits>>
  BY DEF R!Restore
<1>3. job' \in [Requests -> {"none", "running", "succeeded", "failed"}] /\ job'[r] = outcome
      /\ \A q \in Requests : q # r => job'[q] = job[q]
  BY <1>1 DEF RestoresInv
<1>4. Watched' = Watched /\ Remembered' = Remembered
  BY <1>2 DEF Watched, Remembered
<1>5. waits' = Cardinality(Watched')
  BY <1>2, <1>4 DEF RestoresInv
<1> HIDE DEF Watched, Remembered
<1>6. \A q \in Requests : job'[q] = "none" <=> request'[q] \in {"new", "refused"}
  BY <1>2, <1>3 DEF RestoresInv
<1>7. \A q \in Remembered : ops[q] # "running" => q # r
  BY <1>2 DEF RestoresInv
<1>8. \A q \in Remembered' : /\ q \in Requests /\ request'[q] \in {"recorded", "answered"}
                             /\ ops'[q] \in {"running", "succeeded", "failed"}
                             /\ (ops'[q] # "running" => request'[q] = "answered" /\ ops'[q] = job'[q])
  BY <1>2, <1>3, <1>4, <1>7 DEF RestoresInv
<1>9. \A q \in Requests : request'[q] = "answered" /\ job'[q] = "running" => q \in Remembered' /\ ops'[q] = "running"
  BY <1>2, <1>3, <1>4 DEF RestoresInv
<1> QED
  BY <1>2, <1>3, <1>4, <1>5, <1>6, <1>8, <1>9 DEF RestoresInv

(* A new request is reserved or refused.                                   *)
LEMMA NewRequestStep ==
  ASSUME RestoresInv, NEW r \in Requests, R!Reserve(r) \/ R!Refuse(r)
  PROVE  RestoresInv'
<1>1. /\ request[r] = "new" /\ phase \in {"serving", "draining"} /\ UNCHANGED <<phase, gaveUp, ops, waits>>
      /\ \/ request' = [request EXCEPT ![r] = "reserved"] /\ job' = [job EXCEPT ![r] = "running"]
         \/ request' = [request EXCEPT ![r] = "refused"] /\ job' = job
  BY DEF R!Reserve, R!Refuse
<1>2. /\ request' \in [Requests -> {"new", "reserved", "recorded", "answered", "refused"}]
      /\ job' \in [Requests -> {"none", "running", "succeeded", "failed"}]
      /\ request'[r] \in {"reserved", "refused"}
      /\ (job'[r] = "none" <=> request'[r] \in {"new", "refused"})
      /\ \A q \in Requests : q # r => request'[q] = request[q] /\ job'[q] = job[q]
  BY <1>1 DEF RestoresInv
<1>3. r \notin Remembered
  BY <1>1 DEF RestoresInv
<1>4. Watched' = Watched /\ Remembered' = Remembered
  BY <1>1, <1>2, <1>3 DEF Watched, Remembered
<1>5. waits' = Cardinality(Watched') /\ phase' \notin {"joining", "stopped"}
  BY <1>1, <1>4 DEF RestoresInv
<1> HIDE DEF Watched, Remembered
<1>6. \A q \in Requests : job'[q] = "none" <=> request'[q] \in {"new", "refused"}
  BY <1>2 DEF RestoresInv
<1>7. \A q \in Remembered' : /\ q \in Requests /\ request'[q] \in {"recorded", "answered"}
                             /\ ops'[q] \in {"running", "succeeded", "failed"}
                             /\ (ops'[q] # "running" => request'[q] = "answered" /\ ops'[q] = job'[q])
  BY <1>1, <1>2, <1>3, <1>4 DEF RestoresInv
<1>8. /\ \A q \in Requests : request'[q] = "recorded" => q \in Remembered' /\ ops'[q] = "running"
      /\ \A q \in Requests : request'[q] = "answered" /\ job'[q] = "running" => q \in Remembered' /\ ops'[q] = "running"
  BY <1>1, <1>2, <1>4 DEF RestoresInv
<1> QED
  BY <1>1, <1>2, <1>5, <1>6, <1>7, <1>8 DEF RestoresInv

(* The process ends: what it waited for is all that was running.           *)
LEMMA JoinStep ==
  ASSUME RestoresInv, R!Join
  PROVE  RestoresInv'
<1>1. /\ phase = "joining" /\ phase' = "stopped" /\ UNCHANGED <<request, job, waits>> /\ Remembered' = {}
      /\ \/ waits = 0 /\ gaveUp' = gaveUp
         \/ gaveUp' = TRUE
  BY DEF R!Join, R!Joinable, Remembered
<1>2. gaveUp' \in BOOLEAN
  BY <1>1 DEF RestoresInv
<1>3. ASSUME ~gaveUp', NEW r \in Requests PROVE job[r] # "running"
  <2>1. waits = 0 /\ ~gaveUp
    BY <1>1, <1>3
  <2>2. Watched = {}
    <3>1. Watched \in SUBSET Requests /\ Cardinality(Watched) = 0
      BY <1>1, <2>1 DEF RestoresInv, Watched
    <3> QED
      BY <3>1, WatchedCount
  <2>3. request[r] \notin {"reserved", "recorded"}
    BY <1>1, <2>1 DEF RestoresInv
  <2>4. ~(request[r] = "answered" /\ job[r] = "running")
    BY <1>1, <2>2 DEF RestoresInv, Watched
  <2> QED
    BY <2>3, <2>4 DEF RestoresInv
<1> QED
  BY <1>1, <1>2, <1>3 DEF RestoresInv

(* Every step keeps what is known of the restores.                         *)
LEMMA RestoresStep ==
  ASSUME RestoresInv, [R!Next]_(R!vars)
  PROVE  RestoresInv'
<1>1. ASSUME NEW r \in Requests, R!Release(r)
      PROVE  RestoresInv'
  <2>1. phase # "stopped" /\ UNCHANGED <<phase, gaveUp, request, job, ops, waits>>
    BY <1>1 DEF R!Release
  <2> QED
    BY <2>1, RestoresKept DEF RestoresInv
<1>2. CASE R!Elsewhere
  <2>1. phase # "stopped" /\ UNCHANGED <<phase, gaveUp, request, job, ops, waits>>
    BY <1>2 DEF R!Elsewhere
  <2> QED
    BY <2>1, RestoresKept DEF RestoresInv
<1>3. CASE R!Signal
  BY <1>3, RestoresKept DEF R!Signal, RestoresInv
<1>4. CASE R!Drained
  <2>1. phase = "draining" /\ phase' = "joining" /\ UNCHANGED <<request, job, ops, waits>> /\ gaveUp' = R!InFlight
    BY <1>4 DEF R!Drained
  <2>2. gaveUp' \in BOOLEAN
    BY <2>1 DEF R!InFlight
  <2>3. ~gaveUp' => \A r \in Requests : request[r] \notin {"reserved", "recorded"}
    BY <2>1 DEF R!InFlight
  <2> QED
    BY <2>1, <2>2, <2>3, RestoresKept
<1>5. CASE UNCHANGED R!vars
  <2>1. UNCHANGED <<phase, gaveUp, request, job, ops, waits>>
    BY <1>5 DEF R!vars
  <2> QED
    BY <2>1 DEF RestoresInv, Watched, Remembered
<1> QED
  BY <1>1, <1>2, <1>3, <1>4, <1>5, NewRequestStep, RecordStep, AnswerStep, RestoreStep, ObserveStep, JoinStep DEF R!Next

(* They hold from the start.                                               *)
LEMMA RestoresStay == R!Spec => []RestoresInv
<1>1. R!Init => RestoresInv
  <2> SUFFICES ASSUME R!Init PROVE RestoresInv
    OBVIOUS
  <2>1. Remembered = {} /\ Watched = {}
    BY DEF R!Init, Remembered, Watched
  <2>2. waits = Cardinality(Watched)
    BY <2>1, FS_EmptySet DEF R!Init
  <2> QED
    BY <2>1, <2>2 DEF R!Init, RestoresInv
<1>2. RestoresInv /\ [R!Next]_(R!vars) => RestoresInv'
  BY RestoresStep
<1> QED
  BY <1>1, <1>2, PTL DEF R!Spec

(* A shutdown in which no time limit was reached leaves no restore half      *)
(* done: those it waited for are all that were started, whenever the signal  *)
(* came between the reservation of a request and its answer.                 *)
THEOREM ShutdownWaits == R!Spec => []NoneIsCutOff
<1>1. RestoresInv => NoneIsCutOff
  BY DEF RestoresInv, NoneIsCutOff, R!NoneIsCutOff
<1> QED
  BY <1>1, RestoresStay, PTL

(* A browser that was told a restore is running finds it under its           *)
(* identifier until it has ended, however many came after it, and a settled  *)
(* operation shows how its restore ended.                                    *)
THEOREM PollsAreTrue == R!Spec => [](R!RunningIsRemembered /\ R!OutcomeIsTrue)
<1>1. RestoresInv => R!RunningIsRemembered /\ R!OutcomeIsTrue
  BY DEF RestoresInv, Remembered, R!RunningIsRemembered, R!OutcomeIsTrue, R!Remembered, R!Running
<1> QED
  BY <1>1, RestoresStay, PTL

-----------------------------------------------------------------------------
(* What the table of restores forgets, and in which order.                 *)

(* The order lists what is remembered, once each.                          *)
OrderInv ==
  /\ order \in Seq(Requests)
  /\ \A i, j \in 1..Len(order) : order[i] = order[j] => i = j
  /\ Remembered = {order[i] : i \in 1..Len(order)}

(* The table counts as the facts about finite sets do.                     *)
LEMMA SameCount == \A S : R!Cardinality(S) = Cardinality(S)
BY DEF R!Cardinality, Cardinality

(* A set of numbers that holds 0 and the successors of its members holds    *)
(* every number up to N.                                                   *)
LEMMA UpTo ==
  ASSUME NEW n \in Nat, NEW S, 0 \in S, \A k \in 0..n : k \in S /\ k < n => k + 1 \in S
  PROVE  \A k \in 0..n : k \in S
<1> SUFFICES ASSUME NEW m \in 0..n, m \notin S PROVE FALSE
  OBVIOUS
<1> DEFINE missing == {k \in 0..n : k \notin S}
<1>1. missing \subseteq Nat /\ missing # {}
  OBVIOUS
<1>2. Min(missing) \in missing /\ \A k \in missing : Min(missing) <= k
  <2> HIDE DEF missing
  <2> QED
    BY <1>1, LeastNumber
<1> DEFINE k == Min(missing)
<1>3. k \in 0..n /\ k \notin S /\ \A l \in missing : k <= l
  BY <1>2
<1> HIDE DEF k
<1>4. k # 0
  BY <1>3
<1>5. k - 1 \in 0..n /\ k - 1 < n /\ (k - 1) + 1 = k /\ ~(k <= k - 1)
  BY <1>3, <1>4
<1>6. k - 1 \in S
  BY <1>3, <1>5
<1> QED
  BY <1>3, <1>5, <1>6

(* The parts of a kept order obey the equation they are defined by.        *)
LEMMA RemainingEquation ==
  ASSUME NEW seq \in Seq(Requests), NEW kept
  PROVE  /\ R!Remaining(seq, kept)[0] = << >>
         /\ \A i \in 1..Len(seq) :
              R!Remaining(seq, kept)[i] = IF seq[i] \in kept THEN Append(R!Remaining(seq, kept)[i - 1], seq[i])
                                                            ELSE R!Remaining(seq, kept)[i - 1]
<1> DEFINE after(p, i) == IF seq[i] \in kept THEN Append(p, seq[i]) ELSE p
           Solves(f, n) == f = [i \in 0..n |-> IF i = 0 THEN << >> ELSE after(f[i - 1], i)]
           Solved == {n \in 0..Len(seq) : \E f : Solves(f, n)}
<1>1. Len(seq) \in Nat
  OBVIOUS
<1>2. R!Remaining(seq, kept) = CHOOSE f : Solves(f, Len(seq))
  BY DEF R!Remaining
<1> HIDE DEF after
<1>3. 0 \in Solved
  <2> DEFINE f == [i \in 0..0 |-> << >>]
  <2>1. Solves(f, 0)
    OBVIOUS
  <2> HIDE DEF f, Solves
  <2>2. \E h : Solves(h, 0)
    BY <2>1
  <2> QED
    BY <1>1, <2>2
<1>4. \A k \in 0..Len(seq) : k \in Solved /\ k < Len(seq) => k + 1 \in Solved
  <2> SUFFICES ASSUME NEW k \in 0..Len(seq), k < Len(seq), NEW f, Solves(f, k) PROVE k + 1 \in Solved
    OBVIOUS
  <2> DEFINE last == after(f[k], k + 1)
             g == [i \in 0..(k + 1) |-> IF i = k + 1 THEN last ELSE f[i]]
  <2>1. k \in Nat /\ k + 1 \in 0..Len(seq) /\ k + 1 # 0 /\ (k + 1) - 1 = k
    BY <1>1
  <2>2. g[k + 1] = last /\ \A i \in 0..k : g[i] = f[i]
    BY <2>1
  <2>3. \A i \in 0..k : f[i] = IF i = 0 THEN << >> ELSE after(f[i - 1], i)
    OBVIOUS
  <2>4. \A i \in 1..k : i - 1 \in 0..k /\ i # 0 /\ i \in 0..k
    BY <2>1
  <2>5. \A i \in 0..(k + 1) : i = 0 \/ i \in 1..k \/ i = k + 1
    BY <2>1
  <2>6. g[0] = << >>
    BY <2>1, <2>2, <2>3
  <2>7. \A i \in 1..k : g[i] = after(g[i - 1], i)
    BY <2>2, <2>3, <2>4
  <2>8. g[k + 1] = after(g[(k + 1) - 1], k + 1)
    BY <2>1, <2>2
  <2>9. g = [i \in 0..(k + 1) |-> g[i]]
    OBVIOUS
  <2> HIDE DEF g
  <2>10. \A i \in 0..(k + 1) : g[i] = IF i = 0 THEN << >> ELSE after(g[i - 1], i)
    BY <2>1, <2>4, <2>5, <2>6, <2>7, <2>8
  <2>11. Solves(g, k + 1)
    BY <2>9, <2>10
  <2> QED
    BY <2>1, <2>11
<1>5. Len(seq) \in Solved
  <2> DEFINE n == Len(seq)
  <2>1. n \in Nat /\ \A k \in 0..n : k \in Solved /\ k < n => k + 1 \in Solved
    BY <1>1, <1>4
  <2> HIDE DEF Solved, n
  <2>2. \A k \in 0..n : k \in Solved
    BY <1>3, <2>1, UpTo
  <2>3. n \in 0..n
    BY <2>1
  <2> QED
    BY <2>2, <2>3 DEF n
<1>6. PICK f : Solves(f, Len(seq))
  BY <1>5
<1>7. Solves(R!Remaining(seq, kept), Len(seq))
  <2> HIDE DEF Solves
  <2> QED
    BY <1>2, <1>6
<1> DEFINE p == R!Remaining(seq, kept)
<1> HIDE DEF p
<1>8. \A i \in 0..Len(seq) : p[i] = IF i = 0 THEN << >> ELSE after(p[i - 1], i)
  BY <1>7 DEF p
<1>9. p[0] = << >> /\ \A i \in 1..Len(seq) : p[i] = after(p[i - 1], i)
  BY <1>1, <1>8
<1> QED
  BY <1>9 DEF p, after

(* A member is appended to a sequence without repetitions.                 *)
LEMMA Appended ==
  ASSUME NEW seq \in Seq(Requests), NEW r \in Requests, \A i, j \in 1..Len(seq) : seq[i] = seq[j] => i = j,
         \A i \in 1..Len(seq) : seq[i] # r
  PROVE  /\ Append(seq, r) \in Seq(Requests)
         /\ \A i, j \in 1..Len(Append(seq, r)) : Append(seq, r)[i] = Append(seq, r)[j] => i = j
         /\ {Append(seq, r)[i] : i \in 1..Len(Append(seq, r))} = {seq[i] : i \in 1..Len(seq)} \cup {r}
<1> DEFINE n == Len(seq)
           new == Append(seq, r)
<1>1. n \in Nat /\ new \in Seq(Requests) /\ Len(new) = n + 1 /\ new[n + 1] = r /\ \A i \in 1..n : new[i] = seq[i]
  OBVIOUS
<1>2. (\A i, j \in 1..n : seq[i] = seq[j] => i = j) /\ \A i \in 1..n : seq[i] # r
  OBVIOUS
<1> HIDE DEF n, new
<1>3. \A i \in 1..(n + 1) : i \in 1..n \/ i = n + 1
  BY <1>1
<1>4. \A i, j \in 1..(n + 1) : new[i] = new[j] => i = j
  BY <1>1, <1>2, <1>3
<1>5. {new[i] : i \in 1..(n + 1)} = {seq[i] : i \in 1..n} \cup {r}
  <2>1. n + 1 \in 1..(n + 1) /\ \A i \in 1..n : i \in 1..(n + 1)
    BY <1>1
  <2> QED
    BY <1>1, <1>3, <2>1
<1>6. new \in Seq(Requests) /\ (\A i, j \in 1..Len(new) : new[i] = new[j] => i = j)
      /\ {new[i] : i \in 1..Len(new)} = {seq[i] : i \in 1..n} \cup {r}
  BY <1>1, <1>4, <1>5
<1> QED
  BY <1>6 DEF new, n

(* The order that is left lists what is kept, once each.                   *)
LEMMA KeptOrder ==
  ASSUME NEW seq \in Seq(Requests), \A i, j \in 1..Len(seq) : seq[i] = seq[j] => i = j, NEW kept
  PROVE  LET left == R!Remaining(seq, kept)[Len(seq)]
         IN  /\ left \in Seq(Requests)
             /\ \A i, j \in 1..Len(left) : left[i] = left[j] => i = j
             /\ {left[i] : i \in 1..Len(left)} = {seq[i] : i \in 1..Len(seq)} \cap kept
<1> DEFINE p == R!Remaining(seq, kept)
           Listed(q) == {q[i] : i \in 1..Len(q)}
           Distinct(q) == \A i, j \in 1..Len(q) : q[i] = q[j] => i = j
           Upto(k) == {seq[i] : i \in 1..k}
           Good == {k \in 0..Len(seq) : p[k] \in Seq(Requests) /\ Distinct(p[k]) /\ Listed(p[k]) = Upto(k) \cap kept}
           n == Len(seq)
<1>1. p[0] = << >> /\ \A i \in 1..n : p[i] = IF seq[i] \in kept THEN Append(p[i - 1], seq[i]) ELSE p[i - 1]
  BY RemainingEquation
<1>2. n \in Nat /\ (\A i \in 1..n : seq[i] \in Requests) /\ \A i, j \in 1..n : seq[i] = seq[j] => i = j
  OBVIOUS
<1> HIDE DEF p
<1>3. 0 \in Good
  <2>1. << >> \in Seq(Requests) /\ Distinct(<< >>) /\ Listed(<< >>) = {} /\ Upto(0) = {}
    OBVIOUS
  <2>2. p[0] = << >> /\ 0 \in 0..Len(seq)
    BY <1>1, <1>2
  <2> HIDE DEF Distinct, Listed, Upto
  <2>3. p[0] \in Seq(Requests) /\ Distinct(p[0]) /\ Listed(p[0]) = Upto(0) \cap kept
    BY <2>1, <2>2
  <2> QED
    BY <2>2, <2>3
<1>4. \A k \in 0..n : k \in Good /\ k < n => k + 1 \in Good
  <2> SUFFICES ASSUME NEW k \in 0..n, k < n, k \in Good PROVE k + 1 \in Good
    OBVIOUS
  <2>1. k + 1 \in 1..n /\ k + 1 \in 0..n /\ (k + 1) - 1 = k /\ (\A i \in 1..k : i \in 1..n /\ i # k + 1)
        /\ (\A i \in 1..(k + 1) : i \in 1..k \/ i = k + 1) /\ \A i \in 1..k : i \in 1..(k + 1)
    BY <1>2
  <2>2. p[k + 1] = IF seq[k + 1] \in kept THEN Append(p[k], seq[k + 1]) ELSE p[k]
    BY <1>1, <2>1
  <2>3. p[k] \in Seq(Requests) /\ Distinct(p[k]) /\ Listed(p[k]) = Upto(k) \cap kept
    OBVIOUS
  <2>4. Upto(k + 1) = Upto(k) \cup {seq[k + 1]} /\ seq[k + 1] \notin Upto(k) /\ seq[k + 1] \in Requests
    BY <1>2, <2>1
  <2>5. CASE seq[k + 1] \in kept
    <3> DEFINE q == p[k]
               r == seq[k + 1]
    <3>1. q \in Seq(Requests) /\ r \in Requests /\ (\A i, j \in 1..Len(q) : q[i] = q[j] => i = j)
          /\ \A i \in 1..Len(q) : q[i] # r
      <4>1. \A i \in 1..Len(q) : q[i] \in Listed(p[k])
        OBVIOUS
      <4>2. \A i \in 1..Len(q) : q[i] \in Upto(k)
        <5> HIDE DEF q, Upto, Listed
        <5> QED
          BY <2>3, <4>1
      <4>3. q \in Seq(Requests) /\ \A i, j \in 1..Len(q) : q[i] = q[j] => i = j
        BY <2>3
      <4> HIDE DEF q, Upto
      <4> QED
        BY <2>4, <4>2, <4>3
    <3>2. p[k + 1] = Append(q, r)
      BY <2>2, <2>5
    <3>3. r \in kept /\ Upto(k + 1) = Upto(k) \cup {r} /\ {q[i] : i \in 1..Len(q)} = Upto(k) \cap kept
      BY <2>3, <2>4, <2>5
    <3> HIDE DEF q, r, Upto
    <3>4. Append(q, r) \in Seq(Requests) /\ Distinct(Append(q, r)) /\ Listed(Append(q, r)) = {q[i] : i \in 1..Len(q)} \cup {r}
      BY <3>1, Appended
    <3> HIDE DEF Distinct, Listed
    <3>5. Listed(Append(q, r)) = Upto(k + 1) \cap kept
      BY <3>3, <3>4
    <3> QED
      BY <2>1, <3>2, <3>4, <3>5
  <2>6. CASE seq[k + 1] \notin kept
    <3>1. Upto(k + 1) \cap kept = Upto(k) \cap kept /\ p[k + 1] = p[k]
      BY <2>2, <2>4, <2>6
    <3> HIDE DEF Distinct, Listed, Upto
    <3> QED
      BY <2>1, <2>3, <3>1
  <2> QED
    BY <2>5, <2>6
<1>5. n \in Good
  <2>1. n \in 0..n
    BY <1>2
  <2> HIDE DEF Good, n
  <2> QED
    BY <1>2, <1>3, <1>4, <2>1, UpTo
<1> QED
  BY <1>5 DEF p

(* Who came before whom in the order.                                      *)
LEMMA OlderIs ==
  ASSUME OrderInv
  PROVE  /\ \A q, r : q \in R!Older(order, r) <=> \E i, j \in 1..Len(order) : i < j /\ order[i] = q /\ order[j] = r
         /\ \A p, q, r : p \in R!Older(order, q) /\ q \in R!Older(order, r) => p \in R!Older(order, r)
<1>1. Len(order) \in Nat /\ DOMAIN order = 1..Len(order)
  BY DEF OrderInv
<1>2. \A q, r : q \in R!Older(order, r) <=> \E i, j \in 1..Len(order) : i < j /\ order[i] = q /\ order[j] = r
  BY <1>1 DEF R!Older
<1>3. ASSUME NEW p, NEW q, NEW r, p \in R!Older(order, q), q \in R!Older(order, r)
      PROVE  p \in R!Older(order, r)
  <2>1. PICK i, j \in 1..Len(order) : i < j /\ order[i] = p /\ order[j] = q
    BY <1>2, <1>3
  <2>2. PICK k, l \in 1..Len(order) : k < l /\ order[k] = q /\ order[l] = r
    BY <1>2, <1>3
  <2>3. j = k
    BY <2>1, <2>2 DEF OrderInv
  <2>4. i < l
    BY <1>1, <2>1, <2>2, <2>3
  <2> QED
    BY <1>2, <2>1, <2>2, <2>4
<1> QED
  BY <1>2, <1>3

(* The prune drops what has ended, never one without those that ended and  *)
(* are older, and only what makes room for one more.                       *)
LEMMA ExcessIs ==
  ASSUME OrderInv, RestoresInv
  PROVE  LET excess == R!Excess(ops, order)
         IN  /\ IsFiniteSet(Remembered) /\ excess \subseteq Remembered
             /\ \A r \in excess : ops[r] # "running" /\ R!Finished(ops) \cap R!Older(order, r) \subseteq excess
             /\ excess # {} => /\ Cardinality(Remembered) >= Capacity
                               /\ Cardinality(Remembered \ excess) >= Capacity - 1
<1> DEFINE excess == R!Excess(ops, order)
           ended == R!Finished(ops)
           before(r) == ended \cap R!Older(order, r)
           room == Cardinality(Remembered) - Capacity
           n == Len(order)
<1>1. /\ Remembered \subseteq Requests /\ IsFiniteSet(Remembered) /\ Cardinality(Remembered) \in Nat
      /\ Capacity \in Nat \ {0} /\ n \in Nat
  <2>1. Remembered \subseteq Requests
    BY DEF RestoresInv
  <2>2. IsFiniteSet(Remembered)
    BY <2>1, CapacityAssumption, FS_Subset
  <2> QED
    BY <2>1, <2>2, CapacityAssumption, FS_CardinalityType DEF OrderInv
<1>2. ended \subseteq Remembered /\ \A r \in ended : ops[r] # "running"
  BY DEF R!Finished, Remembered
<1>3. \A r : r \in excess <=> r \in ended /\ Cardinality(before(r)) <= room
  BY SameCount DEF R!Excess, Remembered
<1>4. \A r : before(r) \subseteq ended /\ IsFiniteSet(before(r)) /\ Cardinality(before(r)) \in Nat
  <2> SUFFICES ASSUME NEW r PROVE before(r) \subseteq ended /\ IsFiniteSet(before(r)) /\ Cardinality(before(r)) \in Nat
    OBVIOUS
  <2>1. before(r) \in SUBSET Remembered /\ before(r) \subseteq ended
    BY <1>2
  <2> HIDE DEF before, ended
  <2>2. IsFiniteSet(before(r))
    BY <1>1, <2>1, FS_Subset
  <2> QED
    BY <2>1, <2>2, FS_CardinalityType
<1>5. room \in Int /\ (room >= 0 => Cardinality(Remembered) >= Capacity)
  BY <1>1
<1>6. \A q, r : q \in before(r) => before(q) \subseteq before(r)
  BY OlderIs
<1> HIDE DEF excess, ended, before
<1>7. \A r \in excess : before(r) \subseteq excess
  <2> SUFFICES ASSUME NEW r \in excess, NEW q \in before(r) PROVE q \in excess
    OBVIOUS
  <2>1. before(q) \in SUBSET before(r) /\ IsFiniteSet(before(r))
    BY <1>4, <1>6
  <2>2. Cardinality(before(q)) <= Cardinality(before(r))
    BY <2>1, FS_Subset
  <2>3. q \in ended /\ Cardinality(before(r)) <= room /\ Cardinality(before(q)) \in Nat /\ Cardinality(before(r)) \in Nat
    BY <1>3, <1>4
  <2>4. Cardinality(before(q)) <= room
    <3> HIDE DEF room
    <3> QED
      BY <1>5, <2>2, <2>3
  <2> QED
    BY <1>3, <2>3, <2>4
<1>8. ASSUME excess # {}
      PROVE  Cardinality(Remembered) >= Capacity /\ Cardinality(Remembered \ excess) >= Capacity - 1
  <2> DEFINE places == {i \in 1..n : order[i] \in excess}
  <2>1. places \subseteq 0..n /\ places # {}
    <3>1. PICK r \in excess : TRUE
      BY <1>8
    <3>2. \E i \in 1..n : order[i] = r
      BY <1>2, <1>3, <3>1 DEF OrderInv
    <3> QED
      BY <1>1, <3>1, <3>2
  <2> DEFINE m == Max(places)
  <2>2. m \in places /\ \A i \in places : m >= i
    <3> HIDE DEF places
    <3> QED
      BY <1>1, <2>1, GreatestNumber
  <2> HIDE DEF m
  <2> DEFINE last == order[m]
  <2>3. m \in 1..n /\ last \in excess
    BY <2>2
  <2>4. excess \subseteq before(last) \cup {last}
    <3> SUFFICES ASSUME NEW q \in excess, q # last PROVE q \in before(last)
      OBVIOUS
    <3>1. PICK i \in 1..n : order[i] = q
      BY <1>2, <1>3 DEF OrderInv
    <3>2. m >= i /\ i # m
      BY <2>2, <3>1
    <3>3. i < m
      BY <1>1, <2>3, <3>2
    <3>4. q \in R!Older(order, last)
      BY <2>3, <3>1, <3>3, OlderIs
    <3> QED
      BY <1>3, <3>4 DEF before
  <2> HIDE DEF last
  <2>5. Cardinality(before(last)) \in Nat /\ Cardinality(before(last)) <= room /\ IsFiniteSet(before(last))
    BY <1>3, <1>4, <2>3
  <2>6. IsFiniteSet(before(last) \cup {last}) /\ Cardinality(before(last) \cup {last}) <= room + 1
        /\ Cardinality(before(last) \cup {last}) \in Nat
    <3>1. IsFiniteSet(before(last) \cup {last}) /\ Cardinality(before(last) \cup {last}) \in {Cardinality(before(last)), Cardinality(before(last)) + 1}
      BY <2>5, FS_AddElement
    <3> HIDE DEF room
    <3> QED
      BY <1>5, <2>5, <3>1
  <2>7. Cardinality(excess) <= room + 1 /\ Cardinality(excess) \in Nat
    <3>1. IsFiniteSet(excess) /\ Cardinality(excess) <= Cardinality(before(last) \cup {last})
      BY <2>4, <2>6, FS_Subset
    <3>2. Cardinality(excess) \in Nat
      BY <3>1, FS_CardinalityType
    <3> HIDE DEF room
    <3> QED
      BY <1>5, <2>6, <3>1, <3>2
  <2>8. Remembered \cap excess = excess
    BY <1>2, <1>3
  <2>9. Cardinality(Remembered \ excess) = Cardinality(Remembered) - Cardinality(excess)
    BY <1>1, <2>8, FS_Difference
  <2>10. room >= 0
    <3> HIDE DEF room
    <3> QED
      BY <1>5, <2>5
  <2> QED
    BY <1>1, <1>5, <2>7, <2>9, <2>10
<1>9. \A r \in excess : ops[r] # "running"
  BY <1>2, <1>3
<1>10. excess \subseteq Remembered
  BY <1>2, <1>3
<1> QED
  BY <1>1, <1>7, <1>8, <1>9, <1>10 DEF before, ended, excess

(* What the table forgets with a step.                                     *)
Forgets(r) ==
  \/ phase' = "stopped"
  \/ r \in Remembered' /\ (ops[r] = "running" \/ ops'[r] = ops[r])
  \/ /\ r \notin Remembered' /\ ops[r] # "running"
     /\ Cardinality(Remembered) >= Capacity
     /\ R!Finished(ops) \cap R!Older(order, r) \cap Remembered' = {}
     /\ Cardinality(Remembered') >= Capacity

(* A request is recorded: the order gets it at its end, and what goes goes *)
(* for lack of room.                                                       *)
LEMMA RecordForgets ==
  ASSUME OrderInv, RestoresInv, NEW r \in Requests, R!Record(r)
  PROVE  OrderInv' /\ \A q \in Remembered : Forgets(q)
<1> DEFINE excess == R!Excess(ops, order)
           kept == Remembered \ excess
           left == R!Remaining(order, kept)[Len(order)]
<1>1. /\ request[r] = "reserved" /\ phase # "stopped" /\ Remembered' = kept \cup {r}
      /\ \A q \in kept : q # r => ops'[q] = ops[q]
      /\ order' = Append(left, r)
  BY DEF R!Record, R!Remember, Remembered
<1>2. r \notin Remembered
  BY <1>1 DEF RestoresInv
<1>3. /\ IsFiniteSet(Remembered) /\ excess \subseteq Remembered
      /\ \A q \in excess : ops[q] # "running" /\ R!Finished(ops) \cap R!Older(order, q) \subseteq excess
      /\ excess # {} => Cardinality(Remembered) >= Capacity /\ Cardinality(kept) >= Capacity - 1
  BY ExcessIs
<1>4. OrderInv'
  <2>1. /\ left \in Seq(Requests)
        /\ \A i, j \in 1..Len(left) : left[i] = left[j] => i = j
        /\ {left[i] : i \in 1..Len(left)} = Remembered \cap kept
    <3> HIDE DEF kept
    <3> QED
      BY KeptOrder DEF OrderInv
  <2>2. Remembered \cap kept = kept /\ r \notin kept
    BY <1>2
  <2> HIDE DEF left, kept
  <2>3. \A i \in 1..Len(left) : left[i] # r
    BY <2>1, <2>2
  <2> QED
    BY <1>1, <2>1, <2>2, <2>3, Appended DEF OrderInv
<1>5. ASSUME NEW q \in Remembered PROVE Forgets(q)
  <2>1. CASE q \in kept
    BY <1>1, <1>2, <2>1 DEF Forgets
  <2>2. CASE q \in excess
    <3>1. q \notin Remembered' /\ ops[q] # "running" /\ Cardinality(Remembered) >= Capacity
      BY <1>1, <1>2, <1>3, <2>2
    <3>2. R!Finished(ops) \cap R!Older(order, q) \cap Remembered' = {}
      <4>1. R!Finished(ops) \cap R!Older(order, q) \subseteq excess
        BY <1>3, <2>2
      <4> QED
        BY <1>1, <1>2, <1>3, <4>1
    <3>3. Cardinality(Remembered') >= Capacity
      <4>1. IsFiniteSet(kept) /\ r \notin kept /\ Cardinality(kept) >= Capacity - 1
        BY <1>2, <1>3, <2>2, FS_Difference
      <4> HIDE DEF kept
      <4>2. Cardinality(kept \cup {r}) = Cardinality(kept) + 1 /\ Cardinality(kept) \in Nat
        BY <4>1, FS_AddElement, FS_CardinalityType
      <4> QED
        BY <1>1, <4>1, <4>2, CapacityAssumption
    <3> QED
      BY <3>1, <3>2, <3>3 DEF Forgets
  <2> QED
    BY <2>1, <2>2
<1> QED
  BY <1>4, <1>5

(* Every step of the restores keeps the order and forgets in order.        *)
LEMMA ForgetStep ==
  ASSUME OrderInv, RestoresInv, [R!Next]_(R!vars)
  PROVE  OrderInv' /\ \A q \in Remembered : Forgets(q)
<1>1. ASSUME UNCHANGED <<ops, order>> PROVE OrderInv' /\ \A q \in Remembered : Forgets(q)
  BY <1>1 DEF OrderInv, Remembered, Forgets
<1>2. ASSUME NEW r \in Requests, R!Observe(r) PROVE OrderInv' /\ \A q \in Remembered : Forgets(q)
  <2>1. r \in Remembered /\ ops[r] = "running" /\ ops' = [ops EXCEPT ![r] = R!Outcome(r)] /\ order' = order
    BY <1>2 DEF R!Observe, R!Remembered, R!Running, Remembered
  <2>2. Remembered' = Remembered /\ \A q \in Remembered : q # r => ops'[q] = ops[q]
    BY <2>1 DEF Remembered
  <2> HIDE DEF Remembered
  <2> QED
    BY <2>1, <2>2 DEF OrderInv, Forgets
<1>3. CASE R!Join
  <2>1. phase' = "stopped" /\ ops' = << >> /\ order' = << >>
    BY <1>3 DEF R!Join
  <2>2. Remembered' = {} /\ order' \in Seq(Requests) /\ 1..Len(order') = {}
    BY <2>1 DEF Remembered
  <2> QED
    BY <2>1, <2>2 DEF OrderInv, Forgets
<1>4. ASSUME NEW r \in Requests, R!Reserve(r) \/ R!Refuse(r) \/ R!Answer(r) \/ R!Restore(r) \/ R!Release(r)
      PROVE  UNCHANGED <<ops, order>>
  BY <1>4 DEF R!Reserve, R!Refuse, R!Answer, R!Restore, R!Release
<1>5. CASE R!Elsewhere \/ R!Signal \/ R!Drained \/ UNCHANGED R!vars
  <2>1. UNCHANGED <<ops, order>>
    BY <1>5 DEF R!Elsewhere, R!Signal, R!Drained, R!vars
  <2> QED
    BY <1>1, <2>1
<1> QED
  BY <1>1, <1>2, <1>3, <1>4, <1>5, RecordForgets DEF R!Next

(* An operation is forgotten only when it has ended, the table is full and   *)
(* no older one that has ended stays, and no more go than must; until then   *)
(* its outcome stays.  For every number of restores and every capacity.      *)
THEOREM ForgottenByAge == R!Spec => ForgottenInOrder
<1>1. R!Init => OrderInv
  <2> SUFFICES ASSUME R!Init PROVE OrderInv
    OBVIOUS
  <2>1. order = << >> /\ Remembered = {}
    BY DEF R!Init, Remembered
  <2>2. order \in Seq(Requests) /\ 1..Len(order) = {}
    BY <2>1
  <2> QED
    BY <2>1, <2>2 DEF OrderInv
<1>2. RestoresInv /\ OrderInv /\ [R!Next]_(R!vars) => OrderInv'
  BY ForgetStep
<1>3. RestoresInv /\ OrderInv /\ [R!Next]_(R!vars) =>
        [\A r \in R!Remembered :
           \/ phase' = "stopped"
           \/ r \in DOMAIN ops' /\ (R!Running(r) \/ ops'[r] = ops[r])
           \/ /\ r \notin DOMAIN ops' /\ ~R!Running(r)
              /\ R!Cardinality(R!Remembered) >= Capacity
              /\ R!Finished(ops) \cap R!Older(order, r) \cap DOMAIN ops' = {}
              /\ R!Cardinality(DOMAIN ops') >= Capacity]_(R!vars)
  BY ForgetStep, SameCount DEF Forgets, Remembered, R!Remembered, R!Running
<1> QED
  BY <1>1, <1>2, <1>3, RestoresStay, PTL DEF R!Spec, ForgottenInOrder, R!ForgottenInOrder
=============================================================================
