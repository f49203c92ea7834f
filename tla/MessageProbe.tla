---------------------------- MODULE MessageProbe ----------------------------
(***************************************************************************)
(* The worker that looks for new mail (service/message_probe_worker.go): a *)
(* round reads the mailboxes page by page, newest first and by offset,     *)
(* collects the folders that are due, and has them synchronised by a few   *)
(* workers.  Mailboxes are created and disabled meanwhile, others          *)
(* synchronise the same folders, and the process dies.                     *)
(***************************************************************************)
EXTENDS Naturals, Sequences, SequencesExt

CONSTANTS
    Mailboxes, Folders,
    Probes,       \* goroutines of a round (4)
    PageSize,     \* mailboxes of a page (500)
    MaxEvents     \* creations, changes of settings, views, failing statements
                  \* and crashes, together

VARIABLES
    list,       \* the mailboxes, newest first
    disabled,   \* mailboxes that are disabled
    state,      \* what the sync state of a folder says: none, old or fresh
    enabled,    \* the probe's setting, which is off until someone saves it
    round,      \* the worker: where it is, its offset and its jobs
    running,    \* what each goroutine synchronises
    events
vars == <<list, disabled, state, enabled, round, running, events>>

Free == <<>>
Idle == [at |-> "idle", offset |-> 0, jobs |-> <<>>]
ProbeTargets == Mailboxes \X Folders
Spend == events < MaxEvents /\ events' = events + 1

Init ==
    /\ list = <<>> /\ disabled = {} /\ state = [t \in ProbeTargets |-> "none"] /\ enabled = TRUE
    /\ round = Idle /\ running = [p \in Probes |-> Free] /\ events = 0

-----------------------------------------------------------------------------
\* A heartbeat while the probe is enabled.
Begin ==
    /\ round.at = "idle" /\ enabled
    /\ round' = [Idle EXCEPT !.at = "list"]
    /\ UNCHANGED <<list, disabled, state, enabled, running, events>>

\* The folders of a mailbox without a state, or with one that is too old; a
\* state that cannot be read is not due.
SlipDue(t, lost) == state[t] = "old" /\ t \notin lost
Due(t, lost) == state[t] # "fresh" /\ t \notin lost

Page == SubSeq(list, round.offset + 1, IF round.offset + PageSize < Len(list) THEN round.offset + PageSize ELSE Len(list))

\* One page; the states of LOST cannot be read.
ReadPage(lost) ==
    LET wanted(m) == SetToSeq({t \in {m} \X Folders : m \notin disabled /\ Due(t, lost)})
        more == round.jobs \o FlattenSeq([i \in DOMAIN Page |-> wanted(Page[i])])
    IN  /\ round.at = "list"
        /\ round' = IF Len(Page) < PageSize THEN [at |-> "run", offset |-> 0, jobs |-> more]
                                           ELSE [at |-> "list", offset |-> round.offset + PageSize, jobs |-> more]
        /\ UNCHANGED <<list, disabled, state, enabled, running>>

List == ReadPage({}) /\ UNCHANGED events
StateFails == \E t \in ProbeTargets : t[1] \in ToSet(Page) /\ ReadPage({t}) /\ Spend

\* The list cannot be read: the round ends.
ListFails ==
    /\ round.at = "list" /\ round' = Idle /\ Spend
    /\ UNCHANGED <<list, disabled, state, enabled, running>>

Take(p) ==
    /\ round.at = "run" /\ round.jobs # <<>> /\ running[p] = Free
    /\ running' = [running EXCEPT ![p] = Head(round.jobs)]
    /\ round' = [round EXCEPT !.jobs = Tail(@)]
    /\ UNCHANGED <<list, disabled, state, enabled, events>>

\* The synchronisation ends, with the folder's state or with an error of the
\* provider or because its time is over.
Sync(p) ==
    /\ running[p] # Free
    /\ running' = [running EXCEPT ![p] = Free]
    /\ \/ UNCHANGED state
       \/ state' = [state EXCEPT ![running[p]] = "fresh"]
    /\ UNCHANGED <<list, disabled, enabled, round, events>>

End ==
    /\ round.at = "run" /\ round.jobs = <<>> /\ \A p \in Probes : running[p] = Free
    /\ round' = Idle
    /\ UNCHANGED <<list, disabled, state, enabled, running, events>>

-----------------------------------------------------------------------------
\* A mailbox is inserted in front of the others; an import changes its status.
\* Nothing deletes a mailbox.
Create(m) ==
    /\ m \notin ToSet(list) /\ list' = <<m>> \o list /\ Spend
    /\ UNCHANGED <<disabled, state, enabled, round, running>>
SetStatus(m) ==
    /\ m \in ToSet(list) /\ Spend
    /\ disabled' = IF m \in disabled THEN disabled \ {m} ELSE disabled \cup {m}
    /\ UNCHANGED <<list, state, enabled, round, running>>
SetProbe ==
    /\ enabled' = ~enabled /\ Spend
    /\ UNCHANGED <<list, disabled, state, round, running>>

\* A view of the folder synchronises it; the interval passes.
View(t) ==
    /\ t[1] \in ToSet(list) /\ state[t] # "fresh" /\ state' = [state EXCEPT ![t] = "fresh"] /\ Spend
    /\ UNCHANGED <<list, disabled, enabled, round, running>>
Expire(t) ==
    /\ state[t] = "fresh" /\ state' = [state EXCEPT ![t] = "old"]
    /\ UNCHANGED <<list, disabled, enabled, round, running, events>>

\* The process dies and starts again.
Crash ==
    /\ round' = Idle /\ running' = [p \in Probes |-> Free] /\ Spend
    /\ UNCHANGED <<list, disabled, state, enabled>>

-----------------------------------------------------------------------------
Go(p) == Take(p) \/ Sync(p)
Round == Begin \/ List \/ End
Next ==
    \/ Round \/ StateFails \/ ListFails \/ SetProbe \/ Crash
    \/ \E p \in Probes : Go(p)
    \/ \E m \in Mailboxes : Create(m) \/ SetStatus(m)
    \/ \E t \in ProbeTargets : View(t) \/ Expire(t)

\* The ticker and the statements go on, and every synchronisation has a
\* deadline.
Fairness == WF_vars(Round) /\ \A p \in Probes : WF_vars(Go(p))
Spec == Init /\ [][Next]_vars /\ Fairness

\* Every folder of a mailbox that stays enabled is synchronised, or at least
\* tried, again and again (message_probe_worker.go:80), also one that has never
\* been: neither the mailboxes that are inserted between two pages nor a folder
\* that fails before it keep it out for ever.
FoldersAreProbed ==
    \A t \in ProbeTargets :
        []<>(\/ ~enabled \/ t[1] \notin ToSet(list) \/ t[1] \in disabled
             \/ state[t] = "fresh" \/ \E p \in Probes : running[p] = t)
=============================================================================
