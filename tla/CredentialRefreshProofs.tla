----------------------- MODULE CredentialRefreshProofs -----------------------
(* Proofs about CredentialRefresh, for every set of callers, credentials,     *)
(* processes and methods, every mix of adapters, every size of the pool and   *)
(* every bound on jobs and events.                                            *)
EXTENDS CredentialRefresh, TLAPS

(* The strengthening.  While no connection has broken, the advisory lock is   *)
(* held by whoever is past it, and by one caller for a credential.            *)
LockInv == used["drop"] = 0 =>
  /\ \A c \in Callers : pc[c] \in Held => job[c].locked
  /\ \A c, d \in Callers : c # d /\ pc[c] \in Held /\ pc[d] \in Held => job[c].key # job[d].key

(* A caller has a new token only from the answer to its own call.             *)
Carries(c) == pc[c] = "store" /\ job[c].outcome # "failure"
Overtaken(c) == job[c].current.version # cred[job[c].key].version

(* What a caller read, and what it carries, is no newer than the row and the  *)
(* provider; while nobody has overtaken it, it read the stored token.         *)
Tokens(c) ==
  /\ pc[c] \in Refreshing =>
       /\ job[c].current.version <= cred[job[c].key].version
       /\ job[c].current.token <= issued[job[c].key]
       /\ job[c].got <= issued[job[c].key]
       /\ ~Overtaken(c) => job[c].current.token = cred[job[c].key].token
       /\ Carries(c) => job[c].got >= job[c].current.token
  /\ ~Carries(c) => job[c].got = 0
TokenInv ==
  /\ \A k \in Keys : cred[k].token <= issued[k]
  /\ \A c \in Callers : Tokens(c)

(* A caller that has been overtaken never spends the stored token, and one    *)
(* that has not been carries it, or has spent it.                             *)
Spent(c) ==
  /\ pc[c] = "remote" /\ Overtaken(c) => job[c].current.token # cred[job[c].key].token
  /\ Carries(c) /\ ~Overtaken(c) =>
       \/ job[c].got = cred[job[c].key].token
       \/ cred[job[c].key].token \notin accepted[job[c].key]
SpentInv == used["drop"] = 0 => \A c \in Callers : Spent(c)

-----------------------------------------------------------------------------
(* A record with the fields of Job is one.                                    *)
LEMMA JobRecord ==
  ASSUME NEW at \in Instances, NEW key \in Keys, NEW method \in Methods, NEW worker \in BOOLEAN,
         NEW force \in BOOLEAN, NEW observed \in Nat, NEW ended \in BOOLEAN, NEW locked \in BOOLEAN,
         NEW current \in Credential, NEW got \in Nat,
         NEW outcome \in {"success", "failure"}
  PROVE  [at |-> at, key |-> key, method |-> method, worker |-> worker, force |-> force,
          observed |-> observed, ended |-> ended, locked |-> locked, current |-> current,
          got |-> got, outcome |-> outcome] \in Job
BY DEF Job

(* An access token that runs out leaves version and refresh token alone.      *)
LEMMA ExpiredType ==
  ASSUME NEW credential \in Credential
  PROVE  /\ Expired(credential) \in Credential
         /\ Expired(credential).version = credential.version
         /\ Expired(credential).token = credential.token
BY DEF Expired, Credential

(* A flag changes, an answer arrives, another credential is held.             *)
LEMMA JobChanged ==
  ASSUME NEW j \in Job, NEW b \in BOOLEAN, NEW n \in Nat
  PROVE  /\ [j EXCEPT !.force = b] \in Job
         /\ [j EXCEPT !.locked = b] \in Job
         /\ [j EXCEPT !.ended = b] \in Job
         /\ [j EXCEPT !.got = n, !.outcome = "success"] \in Job
<1>1. [j EXCEPT !.force = b] \in Job
  BY DEF Job
<1>2. [j EXCEPT !.locked = b] \in Job
  BY DEF Job
<1>3. [j EXCEPT !.ended = b] \in Job
  BY DEF Job
<1>4. [j EXCEPT !.got = n, !.outcome = "success"] \in Job
  BY DEF Job
<1> QED
  BY <1>1, <1>2, <1>3, <1>4

(* What an idle caller carries is well typed: there is such a record.         *)
LEMMA NoJobType ==
  /\ NoJob \in Job
  /\ ~NoJob.locked /\ ~NoJob.ended /\ NoJob.got = 0
<1> DEFINE None == [at: Instances, key: Keys, method: Methods, worker: {FALSE}, force: {FALSE}, observed: {0},
             ended: {FALSE}, locked: {FALSE},
             current: [version: {0}, token: {0}, status: {"active"}, fresh: {{}}],
             got: {0}, outcome: {"failure"}]
<1>1. PICK i \in Instances, k \in Keys, m \in Methods : TRUE
  BY SomeoneAssumption
<1>2. [at |-> i, key |-> k, method |-> m, worker |-> FALSE, force |-> FALSE, observed |-> 0,
       ended |-> FALSE, locked |-> FALSE,
       current |-> [version |-> 0, token |-> 0, status |-> "active", fresh |-> {}],
       got |-> 0, outcome |-> "failure"] \in None
  OBVIOUS
<1>3. NoJob \in None
  BY <1>2 DEF NoJob
<1>4. None \subseteq Job
  <2> SUFFICES ASSUME NEW j \in None PROVE j \in Job
    OBVIOUS
  <2>1. j.current \in Credential
    <3>1. j.current \in [version: {0}, token: {0}, status: {"active"}, fresh: {{}}]
      OBVIOUS
    <3> QED
      BY <3>1 DEF Credential
  <2>2. j = [at |-> j.at, key |-> j.key, method |-> j.method, worker |-> FALSE, force |-> FALSE,
             observed |-> 0, ended |-> FALSE, locked |-> FALSE, current |-> j.current,
             got |-> 0, outcome |-> "failure"]
    OBVIOUS
  <2>3. /\ j.at \in Instances /\ j.key \in Keys /\ j.method \in Methods
        /\ j.worker = FALSE /\ j.force = FALSE /\ j.observed = 0
        /\ j.ended = FALSE /\ j.locked = FALSE /\ j.got = 0 /\ j.outcome = "failure"
    OBVIOUS
  <2> HIDE DEF None
  <2> QED
    <3>1. j.at \in Instances /\ j.key \in Keys /\ j.method \in Methods
      BY <2>3
    <3>2. FALSE \in BOOLEAN /\ 0 \in Nat /\ "failure" \in {"success", "failure"}
      OBVIOUS
    <3>3. [at |-> j.at, key |-> j.key, method |-> j.method, worker |-> FALSE, force |-> FALSE,
           observed |-> 0, ended |-> FALSE, locked |-> FALSE, current |-> j.current,
           got |-> 0, outcome |-> "failure"] \in Job
      BY <2>1, <3>1, <3>2, JobRecord, Zenon
    <3> QED
      BY <2>2, <3>3, Zenon
<1> QED
  BY <1>3, <1>4

(* A counted event.                                                           *)
LEMMA SpendType ==
  ASSUME used \in [Events \union {"job"} -> Nat], NEW e \in Events \union {"job"},
         Spend(e) \/ Count(e)
  PROVE  /\ used' \in [Events \union {"job"} -> Nat]
         /\ used'[e] = used[e] + 1
         /\ \A f \in (Events \union {"job"}) \ {e} : used'[f] = used[f]
BY DEF Spend, Count

(* What a caller carries when it starts, leaves, and goes on to use a         *)
(* credential.                                                                *)
LEMMA StartType ==
  ASSUME TypeOK, NEW c \in Callers, NEW i \in Instances, NEW k \in Keys, NEW m \in Methods,
         NEW worker \in BOOLEAN, Start(c, i, k, m, worker)
  PROVE  /\ job' \in [Callers -> Job]
         /\ job'[c].key = k /\ job'[c].at = i /\ job'[c].got = 0 /\ ~job'[c].locked
         /\ \A d \in Callers \ {c} : job'[d] = job[d]
<1>1. cred[k].version \in Nat /\ cred[k] \in Credential
  BY DEF TypeOK, Credential
<1>2. [NoJob EXCEPT !.at = i, !.key = k, !.method = m, !.worker = worker, !.observed = cred[k].version,
                    !.current = cred[k]] \in Job
  BY <1>1, NoJobType DEF Job
<1> QED
  BY <1>2, NoJobType DEF Start, TypeOK, Job

(* A caller leaves and carries nothing.                                      *)
LEMMA LeaveType ==
  ASSUME TypeOK, NEW c \in Callers, Leave(c)
  PROVE  /\ pc' \in [Callers -> Labels] /\ job' \in [Callers -> Job]
         /\ pc'[c] = "idle" /\ job'[c].got = 0
         /\ \A d \in Callers \ {c} : pc'[d] = pc[d] /\ job'[d] = job[d]
BY NoJobType DEF TypeOK, Leave, Goto, Labels

(* A refresh returns: the caller leaves or goes on with a credential.        *)
LEMMA ReturnType ==
  ASSUME TypeOK, NEW c \in Callers, NEW credential \in Credential, Return(c, credential)
  PROVE  /\ pc' \in [Callers -> Labels] /\ job' \in [Callers -> Job]
         /\ pc'[c] \in {"idle", "using"} /\ job'[c].got = 0
         /\ \A d \in Callers \ {c} : pc'[d] = pc[d] /\ job'[d] = job[d]
<1>1. CASE job[c].worker
  BY <1>1, LeaveType DEF Return
<1>2. CASE ~job[c].worker
  <2>1. /\ job[c].at \in Instances /\ job[c].key \in Keys /\ job[c].method \in Methods
        /\ job[c].observed \in Nat /\ job[c].force \in BOOLEAN
    BY DEF TypeOK, Job
  <2> DEFINE next == [NoJob EXCEPT !.at = job[c].at, !.key = job[c].key, !.method = job[c].method,
                                   !.observed = job[c].observed, !.force = job[c].force,
                                   !.current = credential]
  <2>2. next \in Job /\ next.got = 0
    BY <2>1, NoJobType DEF Job
  <2>3. pc' = [pc EXCEPT ![c] = "using"] /\ job' = [job EXCEPT ![c] = next]
    BY <1>2 DEF Return, Goto
  <2> HIDE DEF next
  <2> QED
    BY <2>2, <2>3 DEF TypeOK, Labels
<1> QED
  BY <1>1, <1>2

(* What a caller makes of the row is a row.                                   *)
LEMMA RefreshedType ==
  ASSUME TypeOK, NEW c \in Callers
  PROVE  /\ Refreshed(c) \in Credential
         /\ Refreshed(c).version = cred[job[c].key].version + 1
         /\ Refreshed(c).token = IF job[c].outcome = "failure" THEN job[c].current.token ELSE job[c].got
<1> DEFINE j == job[c]
<1>1. /\ cred[j.key].version \in Nat /\ j.got \in Nat /\ j.method \in Methods /\ j.current \in Credential
      /\ j.outcome \in {"success", "failure"}
  BY DEF TypeOK, Job, Credential
<1>2. CASE j.outcome = "failure"
  <2>1. Refreshed(c) = [j.current EXCEPT !.version = cred[j.key].version + 1, !.status = "error"]
    BY <1>2 DEF Refreshed
  <2>2. Refreshed(c) = [version |-> cred[j.key].version + 1, token |-> j.current.token,
                        status |-> "error", fresh |-> j.current.fresh]
    BY <1>1, <2>1 DEF Credential
  <2>3. j.current.token \in Nat /\ j.current.fresh \in SUBSET Methods
    BY <1>1 DEF Credential
  <2>4. Refreshed(c) \in Credential
    BY <1>1, <2>2, <2>3 DEF Credential
  <2> QED
    BY <1>2, <2>2, <2>4
<1>3. CASE j.outcome # "failure"
  <2> DEFINE fresh == IF AdapterOf[j.key] = "method" THEN j.current.fresh \union {j.method} ELSE Methods
  <2>1. fresh \in SUBSET Methods
    BY <1>1 DEF Credential
  <2>2. Refreshed(c) = [version |-> cred[j.key].version + 1, token |-> j.got, status |-> "active", fresh |-> fresh]
    BY <1>3 DEF Refreshed
  <2> HIDE DEF fresh
  <2> QED
    BY <1>1, <1>3, <2>1, <2>2 DEF Credential
<1> QED
  BY <1>2, <1>3

(* One call of the provider: tokens are only added to what it accepts by      *)
(* issuing them.                                                              *)
LEMMA RotatesType ==
  ASSUME TypeOK, NEW k \in Keys, NEW token \in Nat, Rotates(k, token)
  PROVE  /\ issued' \in [Keys -> Nat] /\ accepted' \in [Keys -> SUBSET Nat]
         /\ \A h \in Keys : accepted'[h] \subseteq 1 .. issued'[h] /\ issued'[h] >= issued[h]
         /\ \A h \in Keys \ {k} : accepted'[h] = accepted[h] /\ issued'[h] = issued[h]
         /\ Answered(k, token) \in Nat
         /\ token <= issued[k] => Answered(k, token) <= issued'[k] /\ Answered(k, token) >= token
         /\ token \in accepted[k] => Answered(k, token) \in accepted'[k]
<1>1. issued[k] \in Nat /\ accepted[k] \in SUBSET Nat /\ accepted[k] \subseteq 1 .. issued[k]
  BY DEF TypeOK
<1>2. CASE UNCHANGED <<issued, accepted>>
  BY <1>1, <1>2 DEF TypeOK, Answered
<1>3. CASE /\ issued' = [issued EXCEPT ![k] = @ + 1]
           /\ accepted' = [accepted EXCEPT ![k] = (@ \ {token}) \union {issued[k] + 1}]
  <2>1. issued' \in [Keys -> Nat] /\ issued'[k] = issued[k] + 1
        /\ \A h \in Keys \ {k} : issued'[h] = issued[h]
    BY <1>1, <1>3 DEF TypeOK
  <2>2. accepted'[k] = (accepted[k] \ {token}) \union {issued[k] + 1}
        /\ \A h \in Keys \ {k} : accepted'[h] = accepted[h]
    BY <1>3 DEF TypeOK
  <2>3. accepted' \in [Keys -> SUBSET Nat]
    BY <1>1, <1>3 DEF TypeOK
  <2>4. accepted'[k] \subseteq 1 .. issued'[k]
    BY <1>1, <2>1, <2>2
  <2>5. Answered(k, token) = issued[k] + 1
    BY <1>1, <2>1 DEF Answered
  <2>6. \A h \in Keys : accepted'[h] \subseteq 1 .. issued'[h] /\ issued'[h] >= issued[h]
    BY <1>1, <2>1, <2>2, <2>4 DEF TypeOK
  <2> QED
    BY <1>1, <2>1, <2>2, <2>3, <2>5, <2>6
<1> QED
  BY <1>2, <1>3 DEF Rotates

(* A call that fails leaves the provider alone, or has rotated there.         *)
LEMMA RemoteFailsProvider ==
  ASSUME NEW c \in Callers, RemoteFails(c)
  PROVE  \/ UNCHANGED <<issued, accepted>>
         \/ Rotates(job[c].key, job[c].current.token)
BY DEF RemoteFails, Rotates

(* So does a Retrieve that refreshes by itself.                               *)
LEMMA RetrieveRefreshesProvider ==
  ASSUME NEW c \in Callers, RetrieveRefreshes(c)
  PROVE  /\ UNCHANGED <<issued, accepted>> \/ Rotates(job[c].key, job[c].current.token)
         /\ UNCHANGED cred
         /\ pc[c] = "using"
         /\ Leave(c) \/ (Goto(c, "listing") /\ UNCHANGED job)
BY DEF RetrieveRefreshes, RefreshesItself

(* What a caller works on is in range.                                       *)
LEMMA JobFields ==
  ASSUME TypeOK, NEW c \in Callers
  PROVE  /\ job[c].key \in Keys /\ job[c].got \in Nat /\ job[c].current \in Credential
         /\ job[c].current.token \in Nat /\ job[c].current.version \in Nat
         /\ cred[job[c].key] \in Credential /\ cred[job[c].key].version \in Nat /\ cred[job[c].key].token \in Nat
         /\ issued[job[c].key] \in Nat /\ accepted[job[c].key] \subseteq 1 .. issued[job[c].key]
BY DEF TypeOK, Job, Credential

(* What callers hold runs out with the row; the rest they carry stays.        *)
LEMMA ExpireHolds ==
  ASSUME TypeOK, NEW k \in Keys, Expire(k)
  PROVE  /\ job' \in [Callers -> Job]
         /\ \A c \in Callers :
              /\ job'[c].key = job[c].key /\ job'[c].got = job[c].got /\ job'[c].outcome = job[c].outcome
              /\ job'[c].locked = job[c].locked
              /\ job'[c].current.version = job[c].current.version
              /\ job'[c].current.token = job[c].current.token
<1> DEFINE after(c) == IF job[c].key = k THEN [job[c] EXCEPT !.current = Expired(job[c].current)] ELSE job[c]
<1>1. job' = [c \in Callers |-> after(c)]
  BY DEF Expire
<1>2. ASSUME NEW c \in Callers
      PROVE  /\ after(c) \in Job
             /\ after(c).key = job[c].key /\ after(c).got = job[c].got /\ after(c).outcome = job[c].outcome
             /\ after(c).locked = job[c].locked
             /\ after(c).current.version = job[c].current.version
             /\ after(c).current.token = job[c].current.token
  <2> DEFINE held == Expired(job[c].current)
  <2>1. held \in Credential /\ held.version = job[c].current.version /\ held.token = job[c].current.token
    BY ExpiredType DEF TypeOK, Job
  <2>2. after(c) = IF job[c].key = k THEN [job[c] EXCEPT !.current = held] ELSE job[c]
    OBVIOUS
  <2>3. job[c] \in Job
    BY DEF TypeOK
  <2> HIDE DEF held, after
  <2> QED
    BY <2>1, <2>2, <2>3 DEF Job
<1> HIDE DEF after
<1> QED
  BY <1>1, <1>2

(* The row an import writes.                                                  *)
LEMMA ImportRow ==
  ASSUME TypeOK, NEW k \in Keys, Import(k)
  PROVE  /\ cred' \in [Keys -> Credential]
         /\ cred'[k].version = cred[k].version + 1 /\ cred'[k].token = issued[k] + 1
         /\ \A h \in Keys \ {k} : cred'[h] = cred[h]
<1>1. PICK row \in Imported(cred[k].version + 1, issued[k] + 1) : cred' = [cred EXCEPT ![k] = row]
  BY DEF Import
<1>2. cred[k].version + 1 \in Nat /\ issued[k] + 1 \in Nat
  BY DEF TypeOK, Credential
<1>3. row \in Credential /\ row.version = cred[k].version + 1 /\ row.token = issued[k] + 1
  BY <1>2 DEF Imported, Credential
<1> QED
  BY <1>1, <1>3 DEF TypeOK

(* Every reachable state is well typed; the provider accepts only tokens it   *)
(* has issued.                                                                *)
THEOREM TypeCorrect == Spec => []TypeOK
<1>1. Init => TypeOK
  <2> SUFFICES ASSUME Init PROVE TypeOK
    OBVIOUS
  <2>1. Imported(1, 1) \subseteq Credential
    BY DEF Imported, Credential
  <2>2. cred \in [Keys -> Credential]
    BY <2>1 DEF Init
  <2> QED
    BY <2>2, NoJobType DEF Init, TypeOK, Labels
<1>2. TypeOK /\ [Next]_vars => TypeOK'
  <2> SUFFICES ASSUME TypeOK, [Next]_vars PROVE TypeOK'
    OBVIOUS
  <2>1. ASSUME NEW c \in Callers, BeginRetrieval(c) PROVE TypeOK'
    <3>1. PICK i \in Instances, k \in Keys, m \in Methods :
            Start(c, i, k, m, FALSE)
            /\ Goto(c, IF AdapterOf[k] # "method" /\ ~NeedsRefresh(cred[k]) THEN "using" ELSE "mutex")
      BY <2>1 DEF BeginRetrieval
    <3>2. pc' \in [Callers -> Labels]
      BY <3>1 DEF Goto, TypeOK, Labels, Waiting
    <3>3. job' \in [Callers -> Job]
      BY <3>1, StartType
    <3> QED
      BY <2>1, <3>2, <3>3, SpendType DEF BeginRetrieval, TypeOK
  <2>2. ASSUME NEW c \in Callers, BeginJob(c) PROVE TypeOK'
    <3>1. PICK i \in Instances, k \in Keys, m \in Methods : Start(c, i, k, m, TRUE)
      BY <2>2 DEF BeginJob
    <3>2. pc' \in [Callers -> Labels]
      BY <2>2 DEF BeginJob, Goto, TypeOK, Labels, Waiting
    <3>3. job' \in [Callers -> Job]
      BY <3>1, StartType
    <3> QED
      BY <2>2, <3>2, <3>3, SpendType DEF BeginJob, TypeOK
  <2>3. ASSUME NEW c \in Callers, Refused(c) PROVE TypeOK'
    <3>1. used' \in [Events \union {"job"} -> Nat]
      BY <2>3, SpendType DEF Refused, TypeOK, Events
    <3>2. job[c] \in Job /\ job' = [job EXCEPT ![c] = [job[c] EXCEPT !.force = TRUE]]
      BY <2>3 DEF Refused, TypeOK
    <3>3. job' \in [Callers -> Job]
      BY <3>2, JobChanged DEF TypeOK
    <3>4. pc' \in [Callers -> Labels]
      BY <2>3 DEF Refused, TypeOK, Goto, Labels, Waiting
    <3> QED
      BY <2>3, <3>1, <3>3, <3>4 DEF Refused, TypeOK
  <2>4. ASSUME NEW c \in Callers, Served(c) PROVE TypeOK'
    BY <2>4, LeaveType DEF Served, TypeOK
  <2>20. ASSUME NEW c \in Callers, RetrieveRefreshes(c) PROVE TypeOK'
    <3>1. /\ issued' \in [Keys -> Nat] /\ accepted' \in [Keys -> SUBSET Nat]
          /\ \A k \in Keys : accepted'[k] \subseteq 1 .. issued'[k]
      BY <2>20, JobFields, RotatesType, RetrieveRefreshesProvider DEF TypeOK
    <3>2. used' \in [Events \union {"job"} -> Nat]
      BY <2>20, SpendType DEF RetrieveRefreshes, TypeOK, Events
    <3>3. job' \in [Callers -> Job] /\ pc' \in [Callers -> Labels]
      <4>1. CASE Leave(c)
        BY <4>1, LeaveType
      <4>2. CASE Goto(c, "listing") /\ UNCHANGED job
        BY <4>2 DEF Goto, TypeOK, Labels
      <4> QED
        BY <2>20, <4>1, <4>2, RetrieveRefreshesProvider
    <3> QED
      BY <2>20, <3>1, <3>2, <3>3 DEF RetrieveRefreshes, TypeOK
  <2>5. ASSUME NEW c \in Callers, LockMutex(c) \/ Connect(c) PROVE TypeOK'
    BY <2>5 DEF LockMutex, Connect, TypeOK, Goto, Labels, Waiting
  <2>6. ASSUME NEW c \in Callers, AdvisoryLock(c) PROVE TypeOK'
    <3>1. job[c] \in Job /\ job' = [job EXCEPT ![c] = [job[c] EXCEPT !.locked = TRUE]]
      BY <2>6 DEF AdvisoryLock, TypeOK
    <3>2. job' \in [Callers -> Job]
      BY <3>1, JobChanged DEF TypeOK
    <3>3. pc' \in [Callers -> Labels]
      BY <2>6 DEF AdvisoryLock, TypeOK, Goto, Labels, Held
    <3> QED
      BY <2>6, <3>2, <3>3 DEF AdvisoryLock, TypeOK
  <2>7. ASSUME NEW c \in Callers, Read(c) PROVE TypeOK'
    <3>1. CASE UpToDate(c, cred[job[c].key])
      BY <2>7, <3>1, ReturnType, JobFields DEF Read, TypeOK
    <3>2. CASE ~UpToDate(c, cred[job[c].key])
      <4>1. cred[job[c].key] \in Credential
        BY JobFields
      <4>2. [job[c] EXCEPT !.current = cred[job[c].key]] \in Job
        BY <4>1 DEF TypeOK, Job
      <4>3. job' \in [Callers -> Job]
        BY <2>7, <3>2, <4>2 DEF Read, TypeOK
      <4>4. pc' \in [Callers -> Labels]
        BY <2>7, <3>2 DEF Read, TypeOK, Goto, Labels, Held, Refreshing
      <4> QED
        BY <2>7, <4>3, <4>4 DEF Read, TypeOK
    <3> QED
      BY <3>1, <3>2
  <2>8. ASSUME NEW c \in Callers, Remote(c) PROVE TypeOK'
    <3>1. Answered(job[c].key, job[c].current.token) \in Nat
      BY <2>8, JobFields, RotatesType DEF Remote
    <3>2. job' \in [Callers -> Job]
      <4> DEFINE got == Answered(job[c].key, job[c].current.token)
      <4>1. job' = [job EXCEPT ![c] = [job[c] EXCEPT !.got = got, !.outcome = "success"]]
        BY <2>8 DEF Remote, TypeOK
      <4>2. got \in Nat
        BY <3>1
      <4> HIDE DEF got
      <4>3. [job[c] EXCEPT !.got = got, !.outcome = "success"] \in Job
        BY <4>2, JobChanged DEF TypeOK
      <4> QED
        BY <4>1, <4>3 DEF TypeOK
    <3>3. pc' \in [Callers -> Labels]
      BY <2>8 DEF Remote, TypeOK, Goto, Labels, Held, Refreshing
    <3> QED
      BY <2>8, <3>2, <3>3, JobFields, RotatesType DEF Remote, TypeOK
  <2>9. ASSUME NEW c \in Callers, RemoteFails(c) PROVE TypeOK'
    <3>1. /\ issued' \in [Keys -> Nat] /\ accepted' \in [Keys -> SUBSET Nat]
          /\ \A k \in Keys : accepted'[k] \subseteq 1 .. issued'[k]
      BY <2>9, JobFields, RotatesType, RemoteFailsProvider DEF TypeOK
    <3>2. used' \in [Events \union {"job"} -> Nat]
      BY <2>9, SpendType DEF RemoteFails, TypeOK, Events
    <3>3. job' \in [Callers -> Job] /\ pc' \in [Callers -> Labels]
      BY <2>9 DEF RemoteFails, TypeOK, Job, Goto, Labels, Held, Refreshing
    <3> QED
      BY <2>9, <3>1, <3>2, <3>3 DEF RemoteFails, TypeOK
  <2>10. ASSUME NEW c \in Callers, Store(c) PROVE TypeOK'
    <3>1. cred' \in [Keys -> Credential]
      BY <2>10, RefreshedType DEF Store, TypeOK
    <3>2. job' \in [Callers -> Job] /\ pc' \in [Callers -> Labels]
      <4>1. cred'[job[c].key] \in Credential
        BY <3>1, JobFields
      <4> QED
        BY <2>10, <4>1, ReturnType, LeaveType DEF Store
    <3> QED
      BY <2>10, <3>1, <3>2 DEF Store, TypeOK
  <2>11. ASSUME NEW c \in Callers, StatementFails(c) PROVE TypeOK'
    <3>1. used' \in [Events \union {"job"} -> Nat]
      BY <2>11, SpendType DEF StatementFails, TypeOK, Events
    <3> QED
      BY <2>11, <3>1, LeaveType DEF StatementFails, TypeOK
  <2>12. ASSUME NEW c \in Callers, GiveUp(c) PROVE TypeOK'
    BY <2>12, LeaveType DEF GiveUp, TypeOK
  <2>13. ASSUME NEW c \in Callers, Timeout(c) PROVE TypeOK'
    <3>1. job[c] \in Job /\ job' = [job EXCEPT ![c] = [job[c] EXCEPT !.ended = TRUE]]
      BY <2>13 DEF Timeout, TypeOK
    <3>2. job' \in [Callers -> Job]
      BY <3>1, JobChanged DEF TypeOK
    <3> QED
      BY <2>13, <3>2 DEF Timeout, TypeOK
  <2>14. ASSUME NEW c \in Callers, Drop(c) PROVE TypeOK'
    <3>1. used' \in [Events \union {"job"} -> Nat]
      BY <2>14, SpendType DEF Drop, TypeOK, Events
    <3>2. job' \in [Callers -> Job]
      <4>1. ASSUME NEW locked \in BOOLEAN PROVE [job[c] EXCEPT !.locked = locked] \in Job
        BY DEF TypeOK, Job
      <4>2. [job[c] EXCEPT !.locked = FALSE] \in Job
        BY <4>1
      <4>3. job' = [job EXCEPT ![c] = [job[c] EXCEPT !.locked = FALSE]]
        BY <2>14, Zenon DEF Drop
      <4> QED
        BY <4>2, <4>3 DEF TypeOK
    <3> QED
      BY <2>14, <3>1, <3>2 DEF Drop, TypeOK
  <2>15. ASSUME NEW i \in Instances, Crash(i) PROVE TypeOK'
    <3>1. used' \in [Events \union {"job"} -> Nat]
      BY <2>15, SpendType DEF Crash, TypeOK, Events
    <3> QED
      BY <2>15, <3>1, NoJobType DEF Crash, TypeOK, Labels
  <2>16. ASSUME NEW k \in Keys, Expire(k) PROVE TypeOK'
    <3>1. used' \in [Events \union {"job"} -> Nat]
      BY <2>16, SpendType DEF Expire, TypeOK, Events
    <3>2. cred' \in [Keys -> Credential]
      <4>1. Expired(cred[k]) \in Credential
        BY ExpiredType DEF TypeOK
      <4>2. cred' = [cred EXCEPT ![k] = Expired(cred[k])]
        BY <2>16 DEF Expire
      <4> QED
        BY <4>1, <4>2 DEF TypeOK
    <3>3. job' \in [Callers -> Job]
      BY <2>16, ExpireHolds
    <3> QED
      BY <2>16, <3>1, <3>2, <3>3 DEF Expire, TypeOK
  <2>17. ASSUME NEW k \in Keys, Import(k) PROVE TypeOK'
    <3>1. used' \in [Events \union {"job"} -> Nat]
      BY <2>17, SpendType DEF Import, TypeOK, Events
    <3>2. cred[k].version + 1 \in Nat /\ issued[k] \in Nat /\ issued[k] + 1 \in Nat
      BY DEF TypeOK, Credential
    <3>3. cred' \in [Keys -> Credential]
      BY <2>17, ImportRow DEF TypeOK
    <3>4. issued' \in [Keys -> Nat] /\ accepted' \in [Keys -> SUBSET Nat]
      BY <2>17, <3>2 DEF Import, TypeOK
    <3>5. \A h \in Keys : accepted'[h] \subseteq 1 .. issued'[h]
      BY <2>17, <3>2 DEF Import, TypeOK
    <3> QED
      BY <2>17, <3>1, <3>3, <3>4, <3>5 DEF Import, TypeOK
  <2>18. ASSUME Toggle PROVE TypeOK'
    <3>1. used' \in [Events \union {"job"} -> Nat]
      BY <2>18, SpendType DEF Toggle, TypeOK, Events
    <3> QED
      BY <2>18, <3>1 DEF Toggle, TypeOK
  <2>19. CASE UNCHANGED vars
    BY <2>19 DEF vars, TypeOK
  <2> QED
    BY <2>1, <2>2, <2>3, <2>4, <2>5, <2>6, <2>7, <2>8, <2>9, <2>10, <2>11, <2>12, <2>13, <2>14,
       <2>15, <2>16, <2>17, <2>18, <2>19, <2>20 DEF Next
<1> QED
  BY <1>1, <1>2, PTL DEF Spec

-----------------------------------------------------------------------------
(* Events are only counted up.                                                *)
LEMMA UsedGrows ==
  ASSUME TypeOK, [Next]_vars
  PROVE  \A e \in Events \union {"job"} : used'[e] >= used[e]
<1>1. CASE UNCHANGED used
  BY <1>1 DEF TypeOK
<1>2. ASSUME NEW e \in Events \union {"job"}, Spend(e) \/ Count(e)
      PROVE  \A f \in Events \union {"job"} : used'[f] >= used[f]
  <2>1. used \in [Events \union {"job"} -> Nat]
    BY DEF TypeOK
  <2> QED
    BY <1>2, <2>1, SpendType
<1>3. \/ UNCHANGED used \/ Count("job")
      \/ Spend("expiry") \/ Spend("refusal") \/ Spend("import") \/ Spend("toggle")
      \/ Spend("error") \/ Spend("drop") \/ Spend("crash")
  BY DEF Next, vars, BeginRetrieval, BeginJob, RetrieveRefreshes, Refused, Served, LockMutex, Connect, AdvisoryLock, Read, Remote,
     RemoteFails, Store, StatementFails, GiveUp, Timeout, Drop, Crash, Expire, Import, Toggle
<1> QED
  BY <1>1, <1>2, <1>3 DEF Events

(* The last step of a refresh: its caller leaves or goes on.                  *)
LEMMA StoreEnds ==
  ASSUME TypeOK, NEW c \in Callers, Store(c)
  PROVE  Leave(c) \/ \E credential \in Credential : Return(c, credential)
<1>1. cred' \in [Keys -> Credential]
  BY RefreshedType DEF Store, TypeOK
<1>2. cred'[job[c].key] \in Credential
  BY <1>1, JobFields
<1> QED
  BY <1>2 DEF Store

(* What a step does to the callers past the advisory lock: they were there    *)
(* before, with their credential and their lock, or have just taken it.       *)
HeldBefore(d) ==
  pc'[d] \in Held =>
    /\ job'[d].key = job[d].key
    /\ \/ pc[d] \in Held /\ job'[d].locked = job[d].locked
       \/ /\ pc[d] = "advisory" /\ job'[d].locked
          /\ \A e \in Callers \ {d} : pc'[e] = pc[e] /\ ~HoldsLock(e, job[d].key)

(* A step of one caller leaves what the others carry alone.                   *)
LEMMA HeldStep ==
  ASSUME TypeOK, [Next]_vars, used'["drop"] = 0
  PROVE  used["drop"] = 0 /\ \A d \in Callers : HeldBefore(d)
<1> DEFINE HeldSame == \A d \in Callers : HeldBefore(d)
<1>1. used["drop"] = 0
  BY UsedGrows DEF TypeOK, Events
<1>2. ASSUME NEW c \in Callers, BeginRetrieval(c) PROVE HeldSame
  <2>1. PICK label \in {"using", "mutex"} : Goto(c, label)
    BY <1>2 DEF BeginRetrieval
  <2>2. \A d \in Callers \ {c} : pc'[d] = pc[d] /\ job'[d] = job[d]
    BY <1>2, <2>1 DEF BeginRetrieval, Goto, Start, TypeOK
  <2>3. pc'[c] = label
    BY <2>1 DEF Goto, TypeOK
  <2> QED
    BY <2>2, <2>3 DEF HeldBefore, Held, Refreshing
<1>3. ASSUME NEW c \in Callers, BeginJob(c) PROVE HeldSame
  BY <1>3 DEF BeginJob, Goto, TypeOK, HeldBefore, Start, Held, Refreshing
<1>4. ASSUME NEW c \in Callers, Refused(c) PROVE HeldSame
  BY <1>4 DEF Refused, Goto, TypeOK, HeldBefore, Held, Refreshing
<1>5. ASSUME NEW c \in Callers, Leave(c) PROVE HeldSame
  BY <1>5, LeaveType DEF HeldBefore, Held, Refreshing
<1>6. ASSUME NEW c \in Callers, NEW credential \in Credential, Return(c, credential) PROVE HeldSame
  BY <1>6, ReturnType DEF HeldBefore, Held, Refreshing
<1>7. ASSUME NEW c \in Callers, Served(c) \/ StatementFails(c) \/ GiveUp(c) PROVE HeldSame
  BY <1>5, <1>7 DEF Served, StatementFails, GiveUp
<1>21. ASSUME NEW c \in Callers, RetrieveRefreshes(c) PROVE HeldSame
  <2>1. CASE Leave(c)
    BY <1>5, <2>1
  <2>2. CASE Goto(c, "listing") /\ UNCHANGED job
    BY <2>2 DEF Goto, TypeOK, HeldBefore, Held, Refreshing
  <2> QED
    BY <1>21, <2>1, <2>2, RetrieveRefreshesProvider
<1>8. ASSUME NEW c \in Callers, LockMutex(c) \/ Connect(c) PROVE HeldSame
  BY <1>8 DEF LockMutex, Connect, Goto, TypeOK, HeldBefore, Held, Refreshing
<1>9. ASSUME NEW c \in Callers, AdvisoryLock(c) PROVE HeldSame
  <2>1. \A d \in Callers \ {c} : pc'[d] = pc[d] /\ job'[d] = job[d]
    BY <1>9 DEF AdvisoryLock, Goto, TypeOK
  <2>2. job'[c].key = job[c].key /\ job'[c].locked
    BY <1>9 DEF AdvisoryLock, TypeOK, Job
  <2>3. pc[c] = "advisory" /\ \A e \in Callers : ~HoldsLock(e, job[c].key)
    BY <1>9 DEF AdvisoryLock
  <2>4. \A d \in Callers \ {c} : HeldBefore(d)
    BY <2>1 DEF HeldBefore
  <2>5. HeldBefore(c)
    BY <2>1, <2>2, <2>3 DEF HeldBefore
  <2> QED
    BY <2>4, <2>5, Zenon
<1>10. ASSUME NEW c \in Callers, Read(c) PROVE HeldSame
  <2>1. CASE Return(c, cred[job[c].key])
    BY <1>6, <2>1, JobFields
  <2>2. CASE Goto(c, "remote") /\ job' = [job EXCEPT ![c].current = cred[job[c].key]]
    BY <1>10, <2>2 DEF Read, Goto, TypeOK, Job, HeldBefore, Held
  <2> QED
    BY <1>10, <2>1, <2>2 DEF Read
<1>11. ASSUME NEW c \in Callers, Remote(c) PROVE HeldSame
  BY <1>11 DEF Remote, Goto, TypeOK, Job, HeldBefore, Held, Refreshing
<1>12. ASSUME NEW c \in Callers, RemoteFails(c) PROVE HeldSame
  BY <1>12 DEF RemoteFails, Goto, TypeOK, Job, HeldBefore, Held, Refreshing
<1>13. ASSUME NEW c \in Callers, Store(c) PROVE HeldSame
  BY <1>5, <1>6, <1>13, StoreEnds
<1>14. ASSUME NEW c \in Callers, Timeout(c) PROVE HeldSame
  BY <1>14 DEF Timeout, TypeOK, Job, HeldBefore
<1>15. ASSUME NEW c \in Callers, Drop(c) PROVE FALSE
  <2>1. used \in [Events \union {"job"} -> Nat] /\ "drop" \in Events \union {"job"} /\ Spend("drop")
    BY <1>15 DEF Drop, TypeOK, Events
  <2>2. used'["drop"] = used["drop"] + 1
    BY <2>1, SpendType
  <2> QED
    BY <1>1, <2>2
<1>16. ASSUME NEW i \in Instances, Crash(i) PROVE HeldSame
  BY <1>16 DEF Crash, TypeOK, HeldBefore, Held, Refreshing
<1>17. ASSUME UNCHANGED <<pc, job>> PROVE HeldSame
  BY <1>17 DEF HeldBefore
<1>18. ASSUME NEW k \in Keys, Expire(k) \/ Import(k) PROVE HeldSame
  <2>1. CASE Import(k)
    BY <1>17, <2>1 DEF Import
  <2>2. CASE Expire(k)
    BY <2>2, ExpireHolds DEF Expire, HeldBefore
  <2> QED
    BY <1>18, <2>1, <2>2
<1>19. ASSUME Toggle \/ UNCHANGED vars PROVE HeldSame
  BY <1>17, <1>19 DEF Toggle, vars
<1> HIDE DEF HeldSame
<1>20. HeldSame
  BY <1>2, <1>3, <1>4, <1>7, <1>8, <1>9, <1>10, <1>11, <1>12, <1>13, <1>14, <1>15, <1>16, <1>18, <1>19, <1>21
     DEF Next
<1> QED
  BY <1>1, <1>20 DEF HeldSame

(* While no connection has broken, whoever is past the advisory lock holds    *)
(* it, alone for its credential.                                              *)
LEMMA LockStep ==
  ASSUME TypeOK, LockInv, [Next]_vars
  PROVE  LockInv'
<1> SUFFICES ASSUME used'["drop"] = 0
             PROVE  /\ \A c \in Callers : pc'[c] \in Held => job'[c].locked
                    /\ \A c, d \in Callers :
                         c # d /\ pc'[c] \in Held /\ pc'[d] \in Held => job'[c].key # job'[d].key
  BY DEF LockInv
<1>1. /\ \A c \in Callers : pc[c] \in Held => job[c].locked
      /\ \A c, d \in Callers : c # d /\ pc[c] \in Held /\ pc[d] \in Held => job[c].key # job[d].key
      /\ \A d \in Callers : HeldBefore(d)
  BY HeldStep DEF LockInv
<1>2. "advisory" \notin Held
  BY DEF Held, Refreshing
<1>3. ASSUME NEW c \in Callers, pc'[c] \in Held PROVE job'[c].locked
  BY <1>1, <1>3 DEF HeldBefore
<1>4. ASSUME NEW c \in Callers, NEW d \in Callers, c # d, pc'[c] \in Held, pc'[d] \in Held
      PROVE  job'[c].key # job'[d].key
  BY <1>1, <1>2, <1>4 DEF HeldBefore, HoldsLock
<1> QED
  BY <1>3, <1>4

(* Whoever refreshes holds the mutex and the advisory lock of its            *)
(* credential, until a connection that held the lock is dropped.             *)
THEOREM Locked == Spec => []LockInv
<1>1. Init => LockInv
  BY DEF Init, LockInv, Held, Refreshing
<1>2. TypeOK /\ LockInv /\ [Next]_vars => LockInv'
  BY LockStep
<1> QED
  BY <1>1, <1>2, TypeCorrect, PTL DEF Spec

(* Until a connection breaks, two callers that talk to the provider about one *)
(* credential are not both under the locks: one of them is a Retrieve of      *)
(* Gmail that refreshes by itself, and for Microsoft there are no two.        *)
THEOREM Exclusive == Spec => []OneRefreshAtATime
<1>1. LockInv => OneRefreshAtATime
  <2> SUFFICES ASSUME LockInv, used["drop"] = 0, NEW c \in Callers, NEW d \in Callers, c # d,
                      Talks(c), Talks(d), job[c].key = job[d].key
               PROVE  AdapterOf[job[c].key] = "single" /\ (RefreshesItself(c) \/ RefreshesItself(d))
    BY DEF OneRefreshAtATime
  <2>1. RefreshesItself(c) \/ RefreshesItself(d)
    BY DEF LockInv, Talks, Held
  <2> QED
    BY <2>1 DEF RefreshesItself
<1> QED
  BY <1>1, Locked, PTL

-----------------------------------------------------------------------------
(* A step seen from a caller that does not take it: it stands where it was,   *)
(* or has left; a caller that carries a token leaves by a fault or because    *)
(* its deadline has passed.                                                   *)
Faulty == \E e \in {"error", "crash"} : used'[e] > used[e]
Stays(d) ==
  /\ pc'[d] = pc[d]
  /\ job'[d].key = job[d].key
  /\ job'[d].current.version = job[d].current.version /\ job'[d].current.token = job[d].current.token
  /\ job'[d].got = job[d].got /\ job'[d].outcome = job[d].outcome
Parts(d) ==
  /\ pc'[d] \notin Refreshing /\ job'[d].got = 0
  /\ pc[d] = "store" => job[d].ended \/ Faulty
Aside(d) == Stays(d) \/ Parts(d)

(* A caller goes on from the row it has read.                                 *)
ReadsOn(c) ==
  /\ pc[c] = "read"
  /\ pc' = [pc EXCEPT ![c] = "remote"]
  /\ job' = [job EXCEPT ![c].current = cred[job[c].key]]

(* One step of a caller as the tokens see it: apart from four kinds of step   *)
(* it leaves the row and the provider alone.                                  *)
Quiet == UNCHANGED <<cred, accepted, issued>> /\ \A d \in Callers : Aside(d)

(* An error or a crash is a fault.                                           *)
LEMMA SpendFault ==
  ASSUME TypeOK, Spend("error") \/ Spend("crash")
  PROVE  Faulty
<1>1. used \in [Events \union {"job"} -> Nat] /\ {"error", "crash"} \subseteq Events \union {"job"}
  BY DEF TypeOK, Events
<1>2. CASE Spend("error")
  <2>1. used'["error"] = used["error"] + 1
    BY <1>1, <1>2, SpendType
  <2> QED
    BY <1>1, <2>1 DEF Faulty
<1>3. CASE Spend("crash")
  <2>1. used'["crash"] = used["crash"] + 1
    BY <1>1, <1>3, SpendType
  <2> QED
    BY <1>1, <2>1 DEF Faulty
<1> QED
  BY <1>2, <1>3

(* A caller that leaves changes nothing of the others.                       *)
LEMMA LeaveAside ==
  ASSUME TypeOK, NEW c \in Callers, Leave(c) \/ \E credential \in Credential : Return(c, credential),
         pc[c] = "store" => job[c].ended \/ Faulty
  PROVE  \A d \in Callers : Aside(d)
<1>1. /\ pc'[c] \in {"idle", "using"} /\ job'[c].got = 0
      /\ \A d \in Callers \ {c} : pc'[d] = pc[d] /\ job'[d] = job[d]
  BY LeaveType, ReturnType
<1>2. Parts(c)
  BY <1>1 DEF Parts, Refreshing
<1>3. \A d \in Callers \ {c} : Stays(d)
  BY <1>1 DEF Stays
<1> QED
  BY <1>2, <1>3 DEF Aside

(* What a step does to the row and the provider.                             *)
LEMMA StepKinds ==
  ASSUME TypeOK, TokenInv, [Next]_vars
  PROVE  \/ Quiet
         \/ \E c \in Callers :
              \/ ReadsOn(c) /\ UNCHANGED <<cred, accepted, issued>>
              \/ Remote(c) \/ RemoteFails(c) \/ Store(c)
              \/ RetrieveRefreshes(c)
         \/ \E k \in Keys : Expire(k) \/ Import(k)
<1>1. ASSUME NEW c \in Callers, BeginRetrieval(c) \/ BeginJob(c) PROVE Quiet
  <2>1. pc[c] = "idle" /\ UNCHANGED <<cred, accepted, issued>>
    BY <1>1 DEF BeginRetrieval, BeginJob
  <2>2. PICK label \in {"using", "mutex"} : pc' = [pc EXCEPT ![c] = label]
    BY <1>1 DEF BeginRetrieval, BeginJob, Goto
  <2>3. PICK i \in Instances, k \in Keys, m \in Methods, worker \in BOOLEAN : Start(c, i, k, m, worker)
    BY <1>1 DEF BeginRetrieval, BeginJob
  <2>4. job'[c].got = 0 /\ \A d \in Callers \ {c} : job'[d] = job[d]
    BY <2>3, StartType
  <2>5. Parts(c)
    BY <2>1, <2>2, <2>4 DEF Parts, Refreshing, TypeOK
  <2>6. \A d \in Callers \ {c} : Stays(d)
    BY <2>2, <2>4 DEF Stays, TypeOK
  <2> QED
    BY <2>1, <2>5, <2>6 DEF Quiet, Aside
<1>2. ASSUME NEW c \in Callers, Refused(c) PROVE Quiet
  <2>1. job[c].got = 0
    BY <1>2 DEF TokenInv, Tokens, Carries, Refused, Asking
  <2>2. Parts(c)
    BY <1>2, <2>1 DEF Refused, Asking, Parts, Goto, Refreshing, TypeOK, Job
  <2>3. \A d \in Callers \ {c} : Stays(d)
    BY <1>2 DEF Refused, Asking, Stays, Goto, TypeOK
  <2> QED
    BY <1>2, <2>2, <2>3 DEF Quiet, Aside, Refused
<1>3. ASSUME NEW c \in Callers, Served(c) \/ GiveUp(c) PROVE Quiet
  BY <1>3, LeaveAside DEF Served, Asking, GiveUp, Quiet
<1>4. ASSUME NEW c \in Callers, StatementFails(c) PROVE Quiet
  BY <1>4, LeaveAside, SpendFault DEF StatementFails, Quiet
<1>5. ASSUME NEW c \in Callers, LockMutex(c) \/ Connect(c) \/ AdvisoryLock(c) PROVE Quiet
  <2>1. pc[c] \in Waiting /\ pc'[c] \in {"connection", "advisory", "read"}
    BY <1>5 DEF LockMutex, Connect, AdvisoryLock, Waiting, Goto, TypeOK
  <2>2. job[c].got = 0
    BY <2>1 DEF TokenInv, Tokens, Carries, Waiting
  <2>3. job'[c].got = job[c].got
    BY <1>5 DEF LockMutex, Connect, AdvisoryLock, TypeOK, Job
  <2>4. Parts(c)
    BY <2>1, <2>2, <2>3 DEF Parts, Refreshing, Waiting
  <2>5. \A d \in Callers \ {c} : Stays(d)
    BY <1>5 DEF LockMutex, Connect, AdvisoryLock, Stays, Goto, TypeOK
  <2> QED
    BY <1>5, <2>4, <2>5 DEF LockMutex, Connect, AdvisoryLock, Quiet, Aside
<1>6. ASSUME NEW c \in Callers, Read(c) PROVE Quiet \/ (ReadsOn(c) /\ UNCHANGED <<cred, accepted, issued>>)
  BY <1>6, LeaveAside, JobFields DEF Read, Quiet, ReadsOn, Goto
<1>7. ASSUME NEW c \in Callers, Timeout(c) \/ Drop(c) PROVE Quiet
  <2>1. \A d \in Callers \ {c} : job'[d] = job[d]
    BY <1>7 DEF Timeout, Drop, TypeOK
  <2>2. /\ job'[c].key = job[c].key /\ job'[c].current = job[c].current
        /\ job'[c].got = job[c].got /\ job'[c].outcome = job[c].outcome
    <3>1. CASE job' = [job EXCEPT ![c] = [job[c] EXCEPT !.ended = TRUE]]
      BY <3>1 DEF TypeOK, Job
    <3>2. CASE job' = [job EXCEPT ![c] = [job[c] EXCEPT !.locked = FALSE]]
      BY <3>2 DEF TypeOK, Job
    <3> QED
      BY <1>7, <3>1, <3>2 DEF Timeout, Drop
  <2>3. \A d \in Callers : Stays(d)
    BY <1>7, <2>1, <2>2 DEF Timeout, Drop, Stays
  <2> QED
    BY <1>7, <2>3 DEF Timeout, Drop, Quiet, Aside
<1>8. ASSUME NEW i \in Instances, Crash(i) PROVE Quiet
  <2>1. Faulty
    BY <1>8, SpendFault DEF Crash
  <2>2. ASSUME NEW d \in Callers, job[d].at = i PROVE Parts(d)
    <3>1. pc'[d] = "idle" /\ job'[d] = NoJob
      BY <1>8, <2>2 DEF Crash
    <3> QED
      BY <2>1, <3>1, NoJobType DEF Parts, Refreshing
  <2>3. ASSUME NEW d \in Callers, job[d].at # i PROVE Stays(d)
    BY <1>8, <2>3 DEF Crash, Stays
  <2>4. \A d \in Callers : Aside(d)
    BY <2>2, <2>3 DEF Aside
  <2> QED
    BY <1>8, <2>4 DEF Crash, Quiet
<1>9. ASSUME Toggle \/ UNCHANGED vars PROVE Quiet
  BY <1>9 DEF Toggle, vars, Quiet, Aside, Stays
<1> QED
  BY <1>1, <1>2, <1>3, <1>4, <1>5, <1>6, <1>7, <1>8, <1>9 DEF Next

(* What a loud step of one caller does to the others: they stay.              *)
LEMMA OthersStay ==
  ASSUME TypeOK, NEW c \in Callers, ReadsOn(c) \/ Remote(c) \/ RemoteFails(c) \/ Store(c)
  PROVE  \A d \in Callers \ {c} : Stays(d)
<1>1. CASE Leave(c) \/ \E credential \in Credential : Return(c, credential)
  BY <1>1, LeaveType, ReturnType DEF Stays
<1>2. CASE ReadsOn(c)
  BY <1>2 DEF ReadsOn, Stays, TypeOK
<1>3. CASE Remote(c) \/ RemoteFails(c)
  BY <1>3 DEF Remote, RemoteFails, Goto, Stays, TypeOK
<1>4. CASE Store(c)
  BY <1>1, <1>4, StoreEnds
<1> QED
  BY <1>2, <1>3, <1>4

(* A Retrieve that refreshes by itself is none of their business, nor of its  *)
(* own: it carries nothing that could be stored.                              *)
LEMMA RetrieveAside ==
  ASSUME TypeOK, TokenInv, NEW c \in Callers, RetrieveRefreshes(c)
  PROVE  \A d \in Callers : Aside(d)
<1>1. pc[c] = "using" /\ job[c].got = 0
  BY RetrieveRefreshesProvider DEF TokenInv, Tokens, Carries
<1>2. CASE Leave(c)
  BY <1>1, <1>2, LeaveAside
<1>3. CASE Goto(c, "listing") /\ UNCHANGED job
  <2>1. Parts(c)
    BY <1>1, <1>3 DEF Goto, TypeOK, Parts, Refreshing
  <2>2. \A d \in Callers \ {c} : Stays(d)
    BY <1>3 DEF Goto, TypeOK, Stays
  <2> QED
    BY <2>1, <2>2 DEF Aside
<1> QED
  BY <1>2, <1>3, RetrieveRefreshesProvider

(* An expiry or an import is none of the callers' business either.            *)
LEMMA ClockStays ==
  ASSUME TypeOK, NEW k \in Keys, Expire(k) \/ Import(k), NEW d \in Callers
  PROVE  Stays(d)
<1>1. CASE Expire(k)
  <2>1. UNCHANGED pc
    BY <1>1 DEF Expire
  <2> QED
    BY <1>1, <2>1, ExpireHolds DEF Stays
<1>2. CASE Import(k)
  BY <1>2 DEF Import, Stays
<1> QED
  BY <1>1, <1>2

(* The row and the provider go forward only, and a row that gets another      *)
(* token gets another version.                                                *)
RowAdvances(k) ==
  /\ cred'[k].version >= cred[k].version
  /\ cred'[k].token >= cred[k].token
  /\ issued'[k] >= issued[k]
  /\ cred'[k].token <= issued'[k]
  /\ cred'[k].version = cred[k].version => cred'[k].token = cred[k].token

(* A row that runs out keeps its version and its token.                      *)
LEMMA ExpireRow ==
  ASSUME TypeOK, NEW k \in Keys, Expire(k)
  PROVE  /\ cred'[k].version = cred[k].version /\ cred'[k].token = cred[k].token
         /\ \A h \in Keys \ {k} : cred'[h] = cred[h]
<1> DEFINE row == Expired(cred[k])
<1>1. row.version = cred[k].version /\ row.token = cred[k].token
  BY ExpiredType DEF TypeOK
<1>2. cred' = [cred EXCEPT ![k] = row]
  BY DEF Expire
<1> HIDE DEF row
<1> QED
  BY <1>1, <1>2 DEF TypeOK

(* Every step moves them forward.                                            *)
LEMMA RowStep ==
  ASSUME TypeOK, TokenInv, [Next]_vars
  PROVE  \A k \in Keys : RowAdvances(k)
<1> DEFINE Advances == \A k \in Keys : RowAdvances(k)
<1>0. \A k \in Keys : cred[k].version \in Nat /\ cred[k].token \in Nat /\ issued[k] \in Nat
                      /\ cred[k].token <= issued[k]
  BY DEF TypeOK, Credential, TokenInv
<1>1. CASE Quiet
  BY <1>0, <1>1 DEF Quiet, RowAdvances
<1>2. ASSUME UNCHANGED <<cred, accepted, issued>> PROVE Advances
  BY <1>0, <1>2 DEF RowAdvances
<1>3. ASSUME NEW c \in Callers, Remote(c) \/ RemoteFails(c) \/ RetrieveRefreshes(c) PROVE Advances
  <2>1. UNCHANGED cred
    BY <1>3, RetrieveRefreshesProvider DEF Remote, RemoteFails
  <2>2. \A k \in Keys : issued'[k] \in Nat /\ issued'[k] >= issued[k]
    <3>1. CASE UNCHANGED <<issued, accepted>>
      BY <1>0, <3>1
    <3>2. CASE Rotates(job[c].key, job[c].current.token)
      BY <1>0, <3>2, JobFields, RotatesType
    <3> QED
      BY <1>3, <3>1, <3>2, RemoteFailsProvider, RetrieveRefreshesProvider DEF Remote
  <2> QED
    BY <1>0, <2>1, <2>2 DEF RowAdvances
<1>4. ASSUME NEW c \in Callers, Store(c) PROVE Advances
  <2> DEFINE k == job[c].key
  <2>1. UNCHANGED issued /\ pc[c] = "store" /\ k \in Keys
    BY <1>4, JobFields DEF Store
  <2>2. CASE UNCHANGED cred
    BY <1>0, <2>1, <2>2 DEF RowAdvances
  <2>3. CASE cred[k].version = job[c].current.version /\ cred' = [cred EXCEPT ![k] = Refreshed(c)]
    <3>1. /\ job[c].current.token = cred[k].token
          /\ job[c].got <= issued[k]
          /\ job[c].outcome # "failure" => job[c].got >= job[c].current.token
      BY <2>1, <2>3 DEF TokenInv, Tokens, Refreshing, Overtaken, Carries
    <3>2. cred'[k] = Refreshed(c) /\ \A h \in Keys \ {k} : cred'[h] = cred[h]
      BY <2>1, <2>3 DEF TypeOK
    <3>3. /\ cred'[k].version = cred[k].version + 1
          /\ cred'[k].token = IF job[c].outcome = "failure" THEN job[c].current.token ELSE job[c].got
      BY <3>2, RefreshedType
    <3>4. job[c].got \in Nat
      BY JobFields
    <3> QED
      BY <1>0, <2>1, <3>1, <3>2, <3>3, <3>4 DEF RowAdvances
  <2> QED
    BY <1>4, <2>2, <2>3 DEF Store
<1>5. ASSUME NEW k \in Keys, Expire(k) PROVE Advances
  <2>1. /\ cred'[k].version = cred[k].version /\ cred'[k].token = cred[k].token
        /\ \A h \in Keys \ {k} : cred'[h] = cred[h]
    BY <1>5, ExpireRow
  <2>2. UNCHANGED issued
    BY <1>5 DEF Expire
  <2> QED
    BY <1>0, <2>1, <2>2 DEF RowAdvances
<1>6. ASSUME NEW k \in Keys, Import(k) PROVE Advances
  <2>1. /\ cred'[k].version = cred[k].version + 1 /\ cred'[k].token = issued[k] + 1
        /\ issued'[k] = issued[k] + 1
        /\ \A h \in Keys \ {k} : cred'[h] = cred[h] /\ issued'[h] = issued[h]
    BY <1>6, ImportRow DEF Import, TypeOK
  <2> QED
    BY <1>0, <2>1 DEF RowAdvances
<1> QED
  BY <1>1, <1>2, <1>3, <1>4, <1>5, <1>6, StepKinds

(* A caller that stands aside while the row goes forward.                     *)
LEMMA AsideTokens ==
  ASSUME TypeOK, TypeOK', NEW d \in Callers, Aside(d), Tokens(d), RowAdvances(job[d].key),
         cred[job[d].key].token <= issued[job[d].key]
  PROVE  Tokens(d)'
<1>1. CASE Parts(d)
  BY <1>1 DEF Parts, Tokens, Carries, Refreshing
<1>2. CASE Stays(d)
  <2>1. Carries(d)' = Carries(d)
    BY <1>2 DEF Stays, Carries
  <2>2. /\ job[d].current.version \in Nat /\ job[d].current.token \in Nat /\ job[d].got \in Nat
        /\ cred[job[d].key].version \in Nat /\ issued[job[d].key] \in Nat
    BY JobFields
  <2>3. cred'[job[d].key].version \in Nat /\ issued'[job[d].key] \in Nat
    BY JobFields DEF TypeOK, Credential
  <2> QED
    BY <1>2, <2>1, <2>2, <2>3 DEF Stays, Tokens, Overtaken, RowAdvances
<1> QED
  BY <1>1, <1>2 DEF Aside

(* What the caller of a loud step carries afterwards.                         *)
LEMMA ReadsOnFields ==
  ASSUME TypeOK, NEW c \in Callers, ReadsOn(c)
  PROVE  /\ pc'[c] = "remote" /\ job'[c].key = job[c].key
         /\ job'[c].current = cred[job[c].key] /\ job'[c].got = job[c].got
BY DEF ReadsOn, TypeOK, Job

(* A rotation that is answered.                                              *)
LEMMA RemoteFields ==
  ASSUME TypeOK, NEW c \in Callers, Remote(c)
  PROVE  /\ pc[c] = "remote" /\ ~job[c].ended
         /\ job[c].current.token \in accepted[job[c].key] /\ Rotates(job[c].key, job[c].current.token)
         /\ UNCHANGED cred
         /\ pc'[c] = "store"
         /\ job'[c].key = job[c].key /\ job'[c].current = job[c].current
         /\ job'[c].got = Answered(job[c].key, job[c].current.token) /\ job'[c].outcome = "success"
<1> DEFINE got == Answered(job[c].key, job[c].current.token)
<1>1. job' = [job EXCEPT ![c] = [job[c] EXCEPT !.got = got, !.outcome = "success"]]
  BY DEF Remote, TypeOK
<1> HIDE DEF got
<1>2. job'[c].key = job[c].key /\ job'[c].current = job[c].current /\ job'[c].got = got /\ job'[c].outcome = "success"
  BY <1>1 DEF TypeOK, Job
<1> QED
  BY <1>2 DEF Remote, Goto, TypeOK, got

(* A rotation that fails.                                                    *)
LEMMA RemoteFailsFields ==
  ASSUME TypeOK, NEW c \in Callers, RemoteFails(c)
  PROVE  /\ pc[c] = "remote" /\ pc'[c] = "store" /\ UNCHANGED cred
         /\ job'[c].key = job[c].key /\ job'[c].current = job[c].current
         /\ job'[c].got = job[c].got
         /\ job'[c].outcome = "failure"
BY DEF RemoteFails, Goto, TypeOK, Job

(* The tokens stay within what the provider issued.                          *)
LEMMA TokenStep ==
  ASSUME TypeOK, TypeOK', TokenInv, [Next]_vars
  PROVE  TokenInv'
<1>1. \A k \in Keys : RowAdvances(k) /\ cred[k].token <= issued[k]
  BY RowStep DEF TokenInv
<1>2. \A d \in Callers : Aside(d) => Tokens(d)'
  BY <1>1, JobFields, AsideTokens DEF TokenInv
<1>3. ASSUME NEW c \in Callers, ReadsOn(c), UNCHANGED <<cred, accepted, issued>> PROVE Tokens(c)'
  <2>1. job[c].got = 0
    BY <1>3 DEF ReadsOn, TokenInv, Tokens, Carries
  <2> QED
    BY <1>1, <1>3, <2>1, ReadsOnFields, JobFields DEF Tokens, Overtaken, Carries
<1>4. ASSUME NEW c \in Callers, Remote(c) PROVE Tokens(c)'
  <2> DEFINE k == job[c].key  token == job[c].current.token
  <2>1. /\ job[c].current.version <= cred[k].version
        /\ ~Overtaken(c) => token = cred[k].token
    BY <1>4, RemoteFields DEF TokenInv, Tokens, Refreshing
  <2>2. token \in Nat /\ token <= issued[k]
    BY <1>4, RemoteFields, JobFields DEF TokenInv, Tokens, Refreshing
  <2>3. /\ job'[c].got \in Nat /\ issued'[k] \in Nat /\ issued'[k] >= issued[k]
        /\ job'[c].got <= issued'[k] /\ job'[c].got >= token
    BY <1>4, <2>2, RemoteFields, JobFields, RotatesType
  <2>4. Carries(c)' /\ (Overtaken(c)' <=> Overtaken(c))
    BY <1>4, RemoteFields DEF Carries, Overtaken
  <2> QED
    BY <1>4, <2>1, <2>2, <2>3, <2>4, RemoteFields, JobFields DEF Tokens
<1>5. ASSUME NEW c \in Callers, RemoteFails(c) PROVE Tokens(c)'
  <2> DEFINE k == job[c].key
  <2>1. /\ job[c].current.version <= cred[k].version
        /\ job[c].current.token <= issued[k] /\ job[c].got = 0
        /\ ~Overtaken(c) => job[c].current.token = cred[k].token
    BY <1>5, RemoteFailsFields DEF TokenInv, Tokens, Refreshing, Carries
  <2>2. issued'[k] \in Nat /\ issued'[k] >= issued[k]
    BY <1>1, JobFields DEF TypeOK, RowAdvances
  <2>3. ~Carries(c)' /\ (Overtaken(c)' <=> Overtaken(c))
    BY <1>5, RemoteFailsFields DEF Carries, Overtaken
  <2> QED
    BY <1>5, <2>1, <2>2, <2>3, RemoteFailsFields, JobFields DEF Tokens
<1>6. ASSUME NEW c \in Callers, Store(c) PROVE Tokens(c)'
  <2>1. pc'[c] \in {"idle", "using"} /\ job'[c].got = 0
    BY <1>6, StoreEnds, LeaveType, ReturnType
  <2> QED
    BY <2>1 DEF Tokens, Carries, Refreshing
<1>7. ASSUME NEW k \in Keys, Expire(k) \/ Import(k) PROVE \A d \in Callers : Stays(d)
  BY <1>7, ClockStays
<1>8. \A c \in Callers : Tokens(c)'
  BY <1>2, <1>3, <1>4, <1>5, <1>6, <1>7, OthersStay, RetrieveAside, StepKinds DEF Quiet, Aside
<1> QED
  BY <1>1, <1>8 DEF TokenInv, RowAdvances

(* Every token that is stored or carried was issued, and a caller            *)
(* that carries a new one carries one that is newer than what it read.       *)
THEOREM TokensKnown == Spec => []TokenInv
<1>1. Init => TokenInv
  BY NoJobType DEF Init, Imported, TokenInv, Tokens, Carries, Refreshing
<1>2. TypeOK /\ TypeOK' /\ TokenInv /\ [Next]_vars => TokenInv'
  BY TokenStep
<1> QED
  BY <1>1, <1>2, TypeCorrect, PTL DEF Spec

(* The stored token never goes back to an older one.                          *)
THEOREM TokenAdvances == Spec => StoredTokenAdvances
<1>1. TypeOK /\ TokenInv /\ [Next]_vars => [\A k \in Keys : cred'[k].token >= cred[k].token]_vars
  BY RowStep DEF RowAdvances
<1> QED
  BY <1>1, TypeCorrect, TokensKnown, PTL DEF Spec, StoredTokenAdvances

-----------------------------------------------------------------------------
(* The callers of other credentials see nothing of a step.                    *)
LEMMA OtherKeys ==
  ASSUME TypeOK, NEW c \in Callers, Remote(c) \/ RemoteFails(c) \/ Store(c),
         NEW k \in Keys, k # job[c].key
  PROVE  cred'[k] = cred[k] /\ accepted'[k] = accepted[k]
<1>1. CASE Remote(c)
  BY <1>1, RemoteFields, JobFields, RotatesType
<1>2. CASE RemoteFails(c)
  BY <1>2, RemoteFailsFields, RemoteFailsProvider, JobFields, RotatesType
<1>3. CASE Store(c)
  BY <1>3 DEF Store, TypeOK
<1> QED
  BY <1>1, <1>2, <1>3

(* A step of the provider consumes the token it is asked with, and issues a   *)
(* number nobody knows.                                                       *)
LEMMA RotatesSpends ==
  ASSUME TypeOK, NEW k \in Keys, NEW token \in Nat, Rotates(k, token)
  PROVE  \/ UNCHANGED <<issued, accepted>> /\ Answered(k, token) = token
         \/ /\ Answered(k, token) = issued[k] + 1
            /\ accepted'[k] = (accepted[k] \ {token}) \union {issued[k] + 1}
BY DEF TypeOK, Rotates, Answered

(* A caller that stays while its credential keeps its token, and the provider *)
(* takes no consumed token back.                                              *)
LEMMA StaysSpent ==
  ASSUME TypeOK, NEW d \in Callers, Stays(d), Spent(d),
         cred'[job[d].key].version = cred[job[d].key].version,
         cred'[job[d].key].token = cred[job[d].key].token,
         cred[job[d].key].token \in accepted'[job[d].key] => cred[job[d].key].token \in accepted[job[d].key]
  PROVE  Spent(d)'
BY DEF Stays, Spent, Overtaken, Carries

(* The provider takes no consumed token back.                                *)
LEMMA NothingRevived ==
  ASSUME TypeOK, TokenInv, NEW k \in Keys, NEW token \in Nat,
         UNCHANGED <<issued, accepted>> \/ Rotates(k, token), NEW h \in Keys
  PROVE  cred[h].token \in accepted'[h] => cred[h].token \in accepted[h]
<1>1. CASE UNCHANGED <<issued, accepted>>
  BY <1>1
<1>2. CASE Rotates(k, token) /\ h # k
  BY <1>2, RotatesType
<1>3. CASE Rotates(k, token) /\ h = k
  <2>1. cred[h].token <= issued[h] /\ cred[h].token \in Nat /\ issued[h] \in Nat
    BY DEF TokenInv, TypeOK, Credential
  <2> QED
    BY <1>3, <2>1, RotatesSpends
<1> QED
  BY <1>1, <1>2, <1>3

(* A caller that has left owes nothing.                                      *)
LEMMA PartsSpent ==
  ASSUME NEW d \in Callers, Parts(d)
  PROVE  Spent(d)'
BY DEF Parts, Spent, Carries, Refreshing

(* Two refreshes of one credential need a lock that was dropped.             *)
LEMMA AloneSpent ==
  ASSUME TypeOK, LockInv, used["drop"] = 0,
         NEW c \in Callers, pc[c] \in Refreshing, NEW d \in Callers \ {c}, pc[d] \in Refreshing
  PROVE  job[d].key # job[c].key
BY DEF LockInv, Held

(* The step of each caller keeps it.                                         *)
LEMMA SpentStep ==
  ASSUME TypeOK, TypeOK', LockInv, TokenInv, SpentInv, [Next]_vars
  PROVE  SpentInv'
<1> SUFFICES ASSUME used'["drop"] = 0 PROVE \A d \in Callers : Spent(d)'
  BY DEF SpentInv
<1>1. used["drop"] = 0 /\ \A d \in Callers : Spent(d)
  BY HeldStep DEF SpentInv
<1>2. ASSUME UNCHANGED <<cred, accepted, issued>>, NEW d \in Callers, Aside(d) PROVE Spent(d)'
  BY <1>1, <1>2, StaysSpent, PartsSpent DEF Aside
<1>3. ASSUME NEW c \in Callers, ReadsOn(c), UNCHANGED <<cred, accepted, issued>> PROVE Spent(c)'
  BY <1>3, ReadsOnFields DEF Spent, Overtaken, Carries
<1>4. ASSUME NEW c \in Callers, Remote(c) \/ RemoteFails(c) \/ Store(c), NEW d \in Callers \ {c}
      PROVE  Spent(d)'
  <2>1. pc[c] \in Refreshing /\ Stays(d)
    BY <1>4, OthersStay DEF Remote, RemoteFails, Store, Refreshing
  <2>2. CASE pc[d] \in Refreshing
    <3>1. job[d].key # job[c].key /\ job[d].key \in Keys
      BY <1>1, <2>1, <2>2, AloneSpent, JobFields
    <3> QED
      BY <1>1, <1>4, <2>1, <3>1, OtherKeys, StaysSpent
  <2>3. CASE pc[d] \notin Refreshing
    BY <2>1, <2>3 DEF Stays, Spent, Carries, Refreshing
  <2> QED
    BY <2>2, <2>3
<1>5. ASSUME NEW c \in Callers, Remote(c) PROVE Spent(c)'
  <2> DEFINE k == job[c].key  token == job[c].current.token
  <2>1. /\ k \in Keys /\ token \in Nat /\ cred[k].token \in Nat /\ issued[k] \in Nat
        /\ accepted[k] \subseteq 1 .. issued[k] /\ cred[k].token <= issued[k]
    BY JobFields DEF TokenInv
  <2>2. Overtaken(c) => token # cred[k].token
    BY <1>1, <1>5, RemoteFields DEF Spent
  <2>3. ~Overtaken(c) => token = cred[k].token
    BY <1>5, RemoteFields DEF TokenInv, Tokens, Refreshing
  <2>4. /\ cred' = cred /\ job'[c].key = k /\ Carries(c)' /\ (Overtaken(c)' <=> Overtaken(c))
        /\ pc'[c] # "remote" /\ job'[c].got = Answered(k, token)
    BY <1>5, RemoteFields DEF Carries, Overtaken
  <2>5. \/ accepted' = accepted /\ job'[c].got = token
        \/ job'[c].got = issued[k] + 1 /\ accepted'[k] = (accepted[k] \ {token}) \union {issued[k] + 1}
    BY <1>5, <2>1, <2>4, RemoteFields, RotatesSpends
  <2>6. Overtaken(c) => job'[c].got # cred[k].token
    BY <2>1, <2>2, <2>5
  <2>7. ~Overtaken(c) => job'[c].got = cred[k].token \/ cred[k].token \notin accepted'[k]
    BY <2>1, <2>3, <2>5
  <2> QED
    BY <2>4, <2>6, <2>7 DEF Spent
<1>6. ASSUME NEW c \in Callers, RemoteFails(c) PROVE Spent(c)'
  <2>1. ~Carries(c)' /\ pc'[c] = "store"
    BY <1>6, RemoteFailsFields DEF Carries
  <2> QED
    BY <2>1 DEF Spent
<1>7. ASSUME NEW c \in Callers, Store(c) PROVE Spent(c)'
  <2>1. pc'[c] \in {"idle", "using"}
    BY <1>7, StoreEnds, LeaveType, ReturnType
  <2> QED
    BY <2>1 DEF Spent, Carries
<1>8. ASSUME NEW k \in Keys, Expire(k), NEW d \in Callers PROVE Spent(d)'
  <2>1. /\ \A h \in Keys : cred'[h].version = cred[h].version /\ cred'[h].token = cred[h].token
        /\ accepted' = accepted /\ Stays(d)
    BY <1>8, ExpireRow, ClockStays DEF Expire
  <2> QED
    BY <1>1, <2>1, StaysSpent, JobFields
<1>9. ASSUME NEW k \in Keys, Import(k), NEW d \in Callers PROVE Spent(d)'
  <2>1. /\ cred'[k].version = cred[k].version + 1 /\ cred'[k].token = issued[k] + 1
        /\ \A h \in Keys \ {k} : cred'[h] = cred[h] /\ accepted'[h] = accepted[h]
        /\ Stays(d)
    BY <1>9, ImportRow, ClockStays DEF Import, TypeOK
  <2>2. CASE job[d].key # k
    BY <1>1, <2>1, <2>2, StaysSpent, JobFields
  <2>3. CASE job[d].key = k /\ pc[d] \in Refreshing
    <3>1. /\ job[d].current.version <= cred[k].version /\ job[d].current.token <= issued[k]
          /\ job[d].got <= issued[k]
      BY <2>3 DEF TokenInv, Tokens
    <3>2. /\ job[d].current.version \in Nat /\ cred[k].version \in Nat /\ issued[k] \in Nat
          /\ job[d].current.token \in Nat /\ job[d].got \in Nat
      BY <2>3, JobFields
    <3>3. Overtaken(d)'
      BY <2>1, <2>3, <3>1, <3>2 DEF Stays, Overtaken
    <3>4. job'[d].current.token # cred'[k].token
      BY <2>1, <2>3, <3>1, <3>2 DEF Stays
    <3> QED
      BY <2>1, <2>3, <3>3, <3>4 DEF Stays, Spent
  <2>4. CASE pc[d] \notin Refreshing
    BY <2>1, <2>4 DEF Stays, Spent, Carries, Refreshing
  <2> QED
    BY <2>2, <2>3, <2>4
<1>12. ASSUME NEW c \in Callers, RetrieveRefreshes(c), NEW d \in Callers PROVE Spent(d)'
  <2>1. UNCHANGED cred /\ Aside(d)
    BY <1>12, RetrieveAside, RetrieveRefreshesProvider
  <2>2. \A h \in Keys : cred[h].token \in accepted'[h] => cred[h].token \in accepted[h]
    BY <1>12, RetrieveRefreshesProvider, JobFields, NothingRevived
  <2> QED
    BY <1>1, <2>1, <2>2, StaysSpent, PartsSpent, JobFields DEF Aside
<1>10. \/ \A d \in Callers : Spent(d)'
       \/ \E c \in Callers : ReadsOn(c) /\ UNCHANGED <<cred, accepted, issued>>
  BY <1>2, <1>4, <1>5, <1>6, <1>7, <1>8, <1>9, <1>12, StepKinds DEF Quiet
<1>11. ASSUME NEW c \in Callers, ReadsOn(c), UNCHANGED <<cred, accepted, issued>>
       PROVE  \A d \in Callers : Spent(d)'
  BY <1>2, <1>3, <1>11, OthersStay DEF Aside
<1> QED
  BY <1>10, <1>11

(* While no lock is dropped, a caller whose token the provider no            *)
(* longer accepts carries its successor, or the row has moved on.            *)
THEOREM TokensSpent == Spec => []SpentInv
<1>1. Init => SpentInv
  BY DEF Init, SpentInv, Spent, Carries
<1>2. TypeOK /\ TypeOK' /\ LockInv /\ TokenInv /\ SpentInv /\ [Next]_vars => SpentInv'
  BY SpentStep
<1> QED
  BY <1>1, <1>2, TypeCorrect, Locked, TokensKnown, PTL DEF Spec

-----------------------------------------------------------------------------
(* Who may still store the successor of a credential's token.                 *)
Carrier(c, k) ==
  /\ pc[c] = "store" /\ job[c].key = k
  /\ job[c].got \in accepted[k] /\ job[c].current.version = cred[k].version

(* While no lock is lost, no fault or deadline interferes and no Retrieve of  *)
(* Gmail refreshes by itself, a credential keeps its token through every step.*)
LEMMA KeptStep ==
  ASSUME TypeOK, TypeOK', LockInv, TokenInv, SpentInv, [Next]_vars,
         used["drop"] = 0, ~Faulty,
         NEW k \in Keys, Kept(k),
         \A c \in Callers : job[c].key = k => ~job[c].ended /\ ~(RefreshesItself(c) /\ pc'[c] = "listing")
  PROVE  Kept(k)'
<1> USE DEF Kept
<1>1. cred[k].token \in accepted[k] \/ \E c \in Callers : Carrier(c, k)
  BY DEF Carrier
<1>2. ASSUME NEW c \in Callers, Carrier(c, k), Aside(c),
             cred'[k].version = cred[k].version, accepted'[k] = accepted[k]
      PROVE  Kept(k)'
  BY <1>2 DEF Carrier, Aside, Stays, Parts
<1>3. ASSUME cred[k].token \in accepted[k], cred'[k].token = cred[k].token, accepted'[k] = accepted[k]
      PROVE  Kept(k)'
  BY <1>3
<1>4. CASE Quiet
  BY <1>1, <1>2, <1>3, <1>4 DEF Quiet
<1>5. ASSUME NEW c \in Callers, ReadsOn(c), UNCHANGED <<cred, accepted, issued>> PROVE Kept(k)'
  <2>1. ~Carrier(c, k)
    BY <1>5 DEF ReadsOn, Carrier
  <2> QED
    BY <1>1, <1>2, <1>3, <1>5, <2>1, OthersStay DEF Aside
<1>6. ASSUME NEW c \in Callers, Remote(c) \/ RemoteFails(c) \/ Store(c), job[c].key # k PROVE Kept(k)'
  <2>1. ~Carrier(c, k)
    BY <1>6 DEF Carrier
  <2>2. cred'[k] = cred[k] /\ accepted'[k] = accepted[k]
    BY <1>6, OtherKeys
  <2> QED
    BY <1>1, <1>2, <1>3, <1>6, <2>1, <2>2, OthersStay DEF Aside
<1>7. ASSUME NEW c \in Callers, pc[c] \in Refreshing, job[c].key = k, NEW d \in Callers, Carrier(d, k)
      PROVE  d = c
  BY <1>7, AloneSpent DEF Carrier, Refreshing
<1>8. ASSUME NEW c \in Callers, Remote(c), job[c].key = k PROVE Kept(k)'
  <2> DEFINE token == job[c].current.token
  <2>1. /\ token \in Nat /\ token \in accepted[k] /\ Rotates(k, token) /\ UNCHANGED cred
        /\ pc'[c] = "store" /\ job'[c].key = k /\ job'[c].current = job[c].current
        /\ job'[c].got = Answered(k, token)
    BY <1>8, RemoteFields, JobFields
  <2>2. Answered(k, token) \in accepted'[k]
    BY <2>1, RotatesType
  <2>3. CASE ~Overtaken(c)
    <3>1. job'[c].current.version = cred'[k].version
      BY <1>8, <2>1, <2>3 DEF Overtaken
    <3> QED
      BY <2>1, <2>2, <3>1
  <2>4. CASE Overtaken(c)
    <3>1. token # cred[k].token
      BY <1>8, <2>4, RemoteFields DEF SpentInv, Spent
    <3>2. ~Carrier(c, k)
      BY <1>8, <2>4 DEF Overtaken, Carrier
    <3>3. cred[k].token \in accepted[k]
      BY <1>1, <1>7, <1>8, <3>2, RemoteFields DEF Refreshing
    <3>4. cred[k].token \in accepted'[k]
      BY <2>1, <3>1, <3>3, RotatesSpends
    <3> QED
      BY <2>1, <3>4
  <2> QED
    BY <2>3, <2>4
<1>9. ASSUME NEW c \in Callers, RemoteFails(c), job[c].key = k PROVE Kept(k)'
  <2>1. ~Spend("error")
    BY SpendFault
  <2>2. job[c].current.token \notin accepted[k] /\ UNCHANGED <<issued, accepted>>
    BY <1>9, <2>1 DEF RemoteFails
  <2>3. pc[c] = "remote" /\ UNCHANGED cred
    BY <1>9, RemoteFailsFields
  <2>4. ~Carrier(c, k)
    BY <2>3 DEF Carrier
  <2>5. cred[k].token \in accepted[k]
    BY <1>1, <1>7, <1>9, <2>3, <2>4 DEF Refreshing
  <2> QED
    BY <2>2, <2>3, <2>5
<1>10. ASSUME NEW c \in Callers, Store(c), job[c].key = k PROVE Kept(k)'
  <2>1. pc[c] = "store" /\ accepted' = accepted
    BY <1>10 DEF Store
  <2>2. CASE Overtaken(c)
    <3>1. cred' = cred /\ ~Carrier(c, k)
      BY <1>10, <2>2 DEF Store, Overtaken, Carrier
    <3> QED
      BY <1>1, <1>3, <1>7, <1>10, <2>1, <3>1 DEF Refreshing
  <2>3. CASE ~Overtaken(c)
    <3>1. cred' = [cred EXCEPT ![k] = Refreshed(c)]
      BY <1>10, <2>3 DEF Store, Overtaken
    <3>2. cred'[k].token = IF job[c].outcome = "failure" THEN job[c].current.token ELSE job[c].got
      BY <3>1, RefreshedType DEF TypeOK
    <3>3. cred[k].token \in accepted[k] \/ Carrier(c, k)
      BY <1>1, <1>7, <1>10, <2>1 DEF Refreshing
    <3>4. CASE job[c].outcome = "failure"
      <4>1. job[c].got = 0 /\ job[c].current.token = cred[k].token
        BY <1>10, <2>1, <2>3, <3>4 DEF TokenInv, Tokens, Carries, Refreshing
      <4>2. 0 \notin accepted[k]
        BY DEF TypeOK
      <4> QED
        BY <2>1, <3>2, <3>3, <3>4, <4>1, <4>2 DEF Carrier
    <3>5. CASE job[c].outcome # "failure"
      <4>1. job[c].got = cred[k].token \/ cred[k].token \notin accepted[k]
        BY <1>10, <2>1, <2>3, <3>5 DEF SpentInv, Spent, Carries
      <4>2. job[c].got \in accepted[k]
        BY <3>3, <4>1 DEF Carrier
      <4> QED
        BY <2>1, <3>2, <3>5, <4>2
    <3> QED
      BY <3>4, <3>5
  <2> QED
    BY <2>2, <2>3
<1>11. ASSUME NEW h \in Keys, Expire(h) PROVE Kept(k)'
  <2>1. /\ cred'[k].version = cred[k].version /\ cred'[k].token = cred[k].token
        /\ accepted' = accepted /\ \A d \in Callers : Stays(d)
    BY <1>11, ExpireRow, ClockStays DEF Expire
  <2> QED
    BY <1>1, <1>2, <1>3, <2>1 DEF Aside
<1>12. ASSUME NEW h \in Keys, Import(h) PROVE Kept(k)'
  <2>1. CASE h = k
    <3>1. cred'[k].token = issued[k] + 1
      BY <1>12, <2>1, ImportRow
    <3>2. accepted'[k] = accepted[k] \union {issued[k] + 1}
      BY <1>12, <2>1 DEF Import, TypeOK
    <3> QED
      BY <3>1, <3>2
  <2>2. CASE h # k
    <3>1. cred'[k] = cred[k]
      BY <1>12, <2>2, ImportRow DEF Import, TypeOK
    <3>2. accepted'[k] = accepted[k]
      BY <1>12, <2>2, ImportRow DEF Import, TypeOK
    <3>3. \A d \in Callers : Stays(d)
      BY <1>12, ImportRow, ClockStays DEF Import
    <3> QED
      BY <1>1, <1>2, <1>3, <3>1, <3>2, <3>3 DEF Aside
  <2> QED
    BY <2>1, <2>2
<1>13. ASSUME NEW c \in Callers, RetrieveRefreshes(c) PROVE Kept(k)'
  <2>1. UNCHANGED cred /\ \A d \in Callers : Aside(d)
    BY <1>13, RetrieveAside, RetrieveRefreshesProvider
  <2>2. accepted'[k] = accepted[k]
    <3>1. CASE job[c].key = k
      <4>1. ~Spend("error") /\ pc'[c] # "listing"
        BY <1>13, <3>1, SpendFault DEF RetrieveRefreshes
      <4>2. ~Goto(c, "listing")
        BY <4>1 DEF Goto, TypeOK
      <4> QED
        BY <1>13, <4>1, <4>2 DEF RetrieveRefreshes
    <3>2. CASE job[c].key # k
      BY <1>13, <3>2, RetrieveRefreshesProvider, JobFields, RotatesType
    <3> QED
      BY <3>1, <3>2
  <2> QED
    BY <1>1, <1>2, <1>3, <2>1, <2>2
<1> QED
  BY <1>4, <1>5, <1>6, <1>8, <1>9, <1>10, <1>11, <1>12, <1>13, StepKinds

(* A rotation is forgotten only by a fault, a deadline, a lost lock or a      *)
(* Retrieve of Gmail that refreshes by itself.                                *)
THEOREM NoRotationLost == Spec => RotationKept
<1> DEFINE Forgotten == \A k \in Keys : Kept(k) /\ ~Kept(k)' =>
             \/ \E e \in {"error", "crash"} : used'[e] > used[e]
             \/ used["drop"] > 0
             \/ \E c \in Callers : job[c].key = k /\ (job[c].ended \/ (RefreshesItself(c) /\ pc'[c] = "listing"))
<1>1. TypeOK /\ TypeOK' /\ LockInv /\ TokenInv /\ SpentInv /\ [Next]_vars => Forgotten
  <2>1. TypeOK => used["drop"] \in Nat
    BY DEF TypeOK, Events
  <2> QED
    BY <2>1, KeptStep DEF Faulty
<1> QED
  BY <1>1, TypeCorrect, Locked, TokensKnown, TokensSpent, PTL DEF Spec, RotationKept

=============================================================================
