------------------------ MODULE RetrievalCapabilities -----------------------
(* Which channel a Microsoft mailbox is read through: the table of retrieval  *)
(* capabilities, the automatic choice and its fallback, the requests and the  *)
(* probe that record their verdicts, and the rows an import seeds.            *)
EXTENDS RetrievalLimits, Sequences

CONSTANT Callers \* goroutines that retrieve, synchronise or probe one mailbox

VARIABLES
  cap,      \* the row of a method; "absent" where there is none
  answer,   \* what the provider says: served, refused, or a passing failure
  run,      \* what a caller is about
  seeding,  \* methods an import still has to seed, and the one found absent
  budget
vars == <<cap, answer, run, seeding, budget>>

Methods == {"graph", "imap"}
Statuses == {"absent", "pending", "available", "unavailable", "error"}
Row == [status: Statuses, preferred: BOOLEAN]
Verdicts == {"served", "refused", "failed"}
NoRow == [status |-> "absent", preferred |-> FALSE]
Nothing == [at |-> "idle", kind |-> "auto", left |-> <<>>, verdict |-> "served", ended |-> FALSE,
            seen |-> NoRow, unread |-> FALSE]
Spend(e) == budget[e] > 0 /\ budget' = [budget EXCEPT ![e] = @ - 1]
Event == Spend("event")

Init ==
  /\ cap = [m \in Methods |-> IF Seeded THEN [status |-> "pending", preferred |-> FALSE] ELSE NoRow]
  /\ answer \in [Methods -> Verdicts]
  /\ run = [c \in Callers |-> Nothing]
  /\ seeding = [todo |-> IF Seeded THEN <<>> ELSE <<"graph", "imap">>, absent |-> FALSE]
  /\ budget = [request |-> MaxRequests, event |-> MaxChanges]

\* InitializeCapabilities looks for a row and then writes one.
SeedLook ==
  /\ seeding.todo # <<>> /\ ~seeding.absent
  /\ seeding' = IF cap[Head(seeding.todo)].status = "absent" THEN [seeding EXCEPT !.absent = TRUE]
                ELSE [seeding EXCEPT !.todo = Tail(@)]
  /\ UNCHANGED <<cap, answer, run, budget>>

SeedWrite ==
  /\ seeding.absent
  /\ cap' = [cap EXCEPT ![Head(seeding.todo)] = [status |-> "pending", preferred |-> FALSE]]
  /\ seeding' = [todo |-> Tail(seeding.todo), absent |-> FALSE]
  /\ UNCHANGED <<answer, run, budget>>

\* An import brings a credential the provider accepts and seeds what is absent.
Import ==
  /\ seeding.todo = <<>>
  /\ Event
  /\ answer' = [m \in Methods |-> "served"]
  /\ seeding' = [todo |-> <<"graph", "imap">>, absent |-> FALSE]
  /\ UNCHANGED <<cap, run>>

\* The methods an automatic retrieval may use, Graph before IMAP; an unreadable
\* table hides none.
Candidates == (IF cap["graph"].status # "unavailable" THEN <<"graph">> ELSE <<>>)
  \o (IF cap["imap"].status # "unavailable" THEN <<"imap">> ELSE <<>>)

Start(c, kind, methods) ==
  run' = [run EXCEPT ![c] = [Nothing EXCEPT !.at = "try", !.kind = kind, !.left = methods]]

Retrieve(c) ==
  /\ run[c].at = "idle"
  /\ \/ Spend("request") /\ Candidates # <<>> /\ Start(c, "auto", Candidates)
     \/ Event /\ Start(c, "auto", <<"graph", "imap">>)
     \/ Spend("request") /\ \E m \in Methods : Start(c, "asked", <<m>>)
  /\ UNCHANGED <<cap, answer, seeding>>

\* ProbeMailbox asks for both by name.
ProbeMethods == <<"graph", "imap">>


Pending == {m \in Methods : cap[m].status \in {"pending", "error"}}

Probe(c) ==
  /\ run[c].at = "idle" /\ Pending # {}
  /\ \A d \in Callers : run[d].kind # "probe"
  /\ Start(c, "probe", ProbeMethods)
  /\ UNCHANGED <<cap, answer, seeding, budget>>

\* The provider is asked, after a refresh where it refused the access token;
\* an ended context is a passing failure.
Try(c) ==
  /\ run[c].at = "try"
  /\ \/ run' = [run EXCEPT ![c].verdict = answer[Head(run[c].left)], ![c].at = "look"] /\ UNCHANGED budget
     \/ Event /\ run' = [run EXCEPT ![c].verdict = "failed", ![c].ended = TRUE, ![c].at = "look"]
  /\ UNCHANGED <<cap, answer, seeding>>

\* What is read before a verdict is written: the row of Graph for IMAP's
\* success, the method's own for a passing failure.  It is read in the context of
\* the caller: one that has ended, or a statement that fails, reads no row.
LookedAt(r, row, unread) ==
  [at |-> "record", kind |-> r.kind, left |-> r.left, verdict |-> r.verdict, ended |-> r.ended,
   seen |-> row, unread |-> unread]

Look(c) ==
  /\ run[c].at = "look"
  /\ LET m == IF run[c].verdict = "served" THEN "graph" ELSE Head(run[c].left)
     IN  \/ run' = [run EXCEPT ![c] = LookedAt(run[c], cap[m], FALSE)] /\ UNCHANGED budget
         \/ /\ (run[c].ended /\ UNCHANGED budget) \/ Event
            /\ run' = [run EXCEPT ![c] = LookedAt(run[c], NoRow, TRUE)]
  /\ UNCHANGED <<cap, answer, seeding>>

SlipVerdictRow(m, verdict, seen) ==
  CASE verdict = "served" -> [status |-> "available", preferred |-> m = "graph" \/ seen.status # "available"]
    [] verdict = "refused" -> [status |-> "unavailable", preferred |-> FALSE]
    [] verdict = "failed" -> [status |-> "error", preferred |-> FALSE]

VerdictRow(m, verdict, seen) ==
  CASE verdict = "served" -> [status |-> "available", preferred |-> m = "graph" \/ seen.status # "available"]
    [] verdict = "refused" -> [status |-> "unavailable", preferred |-> FALSE]
    [] verdict = "failed" ->
         IF seen.status = "available" THEN seen ELSE [status |-> "error", preferred |-> FALSE]

\* The next method, when this one failed and the request named none.
Onward(r) ==
  LET more == Tail(r.left)
      stop == more = <<>> \/ (r.kind = "auto" /\ (r.verdict = "served" \/ r.ended))
  IN  IF stop THEN Nothing ELSE [Nothing EXCEPT !.at = "try", !.kind = r.kind, !.left = more]

\* The verdict is written, whatever happened to the row since and to the context;
\* a statement that fails is ignored.
Record(c) ==
  /\ run[c].at = "record"
  /\ \/ /\ cap' = [cap EXCEPT ![Head(run[c].left)] = VerdictRow(Head(run[c].left), run[c].verdict, run[c].seen)]
        /\ UNCHANGED budget
     \/ Event /\ UNCHANGED cap
  /\ run' = [run EXCEPT ![c] = Onward(run[c])]
  /\ UNCHANGED <<answer, seeding>>

Change ==
  /\ Event
  /\ \E m \in Methods, v \in Verdicts : answer[m] # v /\ answer' = [answer EXCEPT ![m] = v]
  /\ UNCHANGED <<cap, run, seeding>>

Work(c) == Probe(c) \/ Try(c) \/ Look(c) \/ Record(c)
Seed == SeedLook \/ SeedWrite
Next == Seed \/ Import \/ Change \/ \E c \in Callers : Retrieve(c) \/ Work(c)

Spec == Init /\ [][Next]_vars
\* The worker's ticker goes on, and every request that started goes on.
Progress == WF_vars(Seed) /\ \A c \in Callers : WF_vars(Work(c))
LiveSpec == Spec /\ Progress

-----------------------------------------------------------------------------
(* Properties.                                                                *)

\* Every variable has its type.
TypeOK ==
  /\ cap \in [Methods -> Row]
  /\ answer \in [Methods -> Verdicts]
  /\ \A c \in Callers :
       /\ run[c].at \in {"idle", "try", "look", "record"} /\ run[c].kind \in {"auto", "asked", "probe"}
       /\ run[c].left \in {<<>>, <<"graph">>, <<"imap">>, <<"graph", "imap">>}
       /\ run[c].verdict \in Verdicts /\ run[c].ended \in BOOLEAN
       /\ run[c].seen \in Row /\ run[c].unread \in BOOLEAN
  /\ seeding.todo \in {<<>>, <<"imap">>, <<"graph", "imap">>} /\ (seeding.absent => seeding.todo # <<>>)
  /\ \A e \in DOMAIN budget : budget[e] \in Nat

\* The step of a caller that writes what it concluded about a method.
Records(c, m) == run[c].at = "record" /\ Head(run[c].left) = m /\ run'[c] # run[c]

\* The step of a caller, or of an import, that writes what it concluded from a
\* row which has changed since.
Stale(m) ==
  \/ seeding.absent /\ seeding' # seeding /\ Head(seeding.todo) = m
  \/ \E c \in Callers : Records(c, m) /\ ~run[c].unread /\ run[c].seen # cap[m]

\* A passing failure does not demote a method that is known to work, and neither
\* does an import that seeds the table.  Two writers do: one whose verdict
\* overtakes another's, and one that could not read the row it was to preserve.
FailurePreservesAvailable == [][\A m \in Methods :
  cap[m].status = "available" =>
    \/ cap'[m].status \in {"available", "unavailable"}
    \/ Stale(m)
    \/ \E c \in Callers : Records(c, m) /\ run[c].unread]_vars

\* TestTransientRetrievalErrorPreservesVerifiedCapability: a transient failure
\* preserves a verified capability.  The verdict is written after the context of
\* the request ended; the row it preserves is read in that context.
TransientErrorPreserves == [][\A m \in Methods :
  cap[m].status = "available" => cap'[m].status \in {"available", "unavailable"} \/ Stale(m)]_vars

=============================================================================
