---------------------------- MODULE RangeRestore ----------------------------
(***************************************************************************)
(* Managed mail cache: RestoreRange of service/message_cache.go fetches    *)
(* all mail of a folder received in a range again, and the settings page   *)
(* queries, exports and deletes cached rows.  A full answer of the         *)
(* provider may be cut off, so its range is halved and asked again.  The   *)
(* rows are written at the end, without the lock that synchronisations of  *)
(* the folder take.  Time is counted in ticks, fractions of a second.      *)
(***************************************************************************)
EXTENDS Integers, Sequences, FiniteSets, MailRanges

VARIABLES
    mail,      \* messages the provider holds
    cache,     \* messages with a row
    gone,      \* deleted at the provider, the next synchronisation will hear of it
    restore,   \* the RestoreRange call
    export,    \* the CSV export
    used       \* bounded steps taken

vars == <<mail, cache, gone, restore, export, used>>

Idle == [at |-> "idle"]
NoneUsed == [errors |-> 0, deletes |-> 0, restores |-> 0, exports |-> 0]
Spend(kind, max) == used[kind] < max /\ used' = [used EXCEPT ![kind] = @ + 1]

Init ==
    /\ mail \in SUBSET Messages /\ cache \in {{}, mail} /\ gone = {}
    /\ restore = Idle /\ export = Idle /\ used = NoneUsed

-----------------------------------------------------------------------------
(* One answer of a provider.                                               *)

Floor(t, unit) == (t \div unit) * unit
Between(m, r) == r.after <= Date[m] /\ Date[m] < r.before
Newest(set, n) == {m \in set : Cardinality({k \in set : Date[k] > Date[m]}) < n}

\* What the server selects: Graph and Gmail compare seconds, IMAP compares
\* days.
Selected(adapter, r) ==
    LET unit == IF adapter \in {"graph", "gmail"} THEN Second ELSE Day
    IN  {m \in mail : Floor(r.after, unit) <= Floor(Date[m], unit) /\ Floor(Date[m], unit) < Floor(r.before, unit)}

\* What the adapter keeps of it: Gmail checks both ends again, Outlook IMAP
\* the lower one, Graph none.
Answer(adapter, r) ==
    LET read == IF adapter \in {"gmail imap", "outlook imap"} THEN Newest(Selected(adapter, r), ScanLimit)
                                                             ELSE Selected(adapter, r)
        kept == CASE adapter = "graph" -> read
                  [] adapter = "outlook imap" -> {m \in read : r.after <= Date[m]}
                  [] OTHER -> {m \in read : Between(m, r)}
    IN  Newest(kept, IF adapter \in {"gmail", "gmail imap"} /\ GmailLimit < RangeLimit THEN GmailLimit ELSE RangeLimit)

-----------------------------------------------------------------------------
(* RestoreRange.                                                           *)

\* `present` records what the folder held all along.
StartRestore ==
    /\ restore = Idle /\ Spend("restores", MaxRestores)
    /\ \E a, b \in {t \in 0..MaxTime : t % Second = 0} :
          a < b /\ restore' = [at |-> "ask", range |-> [after |-> a, before |-> b],
                               todo |-> <<[after |-> a, before |-> b, depth |-> 0]>>, got |-> {}, present |-> mail]
    /\ UNCHANGED <<mail, cache, gone, export>>

Halves(r) ==
    LET middle == r.after + (r.before - r.after) \div 2
    IN  <<[after |-> r.after, before |-> middle, depth |-> r.depth + 1], [after |-> middle, before |-> r.before, depth |-> r.depth + 1]>>

SlipSplit(r, answer) == Cardinality(answer) > RangeLimit
Split(r, answer) == Cardinality(answer) >= RangeLimit /\ r.depth < MaxDepth /\ r.before - r.after > Second

\* The adapter may be another one for every request, the retrieval falls back
\* by itself.  The answer of a range that is halved is dropped.
AskRange ==
    /\ restore.at = "ask"
    /\ \E adapter \in Adapters :
        LET r == Head(restore.todo)
            answer == Answer(adapter, r)
            rest == IF Split(r, answer) THEN Halves(r) \o Tail(restore.todo) ELSE Tail(restore.todo)
        IN  restore' = [restore EXCEPT !.todo = rest, !.got = IF Split(r, answer) THEN @ ELSE @ \cup answer,
                                       !.at = IF rest = <<>> THEN "store" ELSE "ask"]
    /\ UNCHANGED <<mail, cache, gone, export, used>>

\* One failed request ends the call, and so does a failed write.
RestoreFails ==
    /\ restore # Idle /\ Spend("errors", MaxErrors) /\ restore' = Idle
    /\ UNCHANGED <<mail, cache, gone, export>>

Store ==
    /\ restore.at = "store" /\ cache' = cache \cup restore.got /\ restore' = Idle
    /\ UNCHANGED <<mail, gone, export, used>>

-----------------------------------------------------------------------------
(* The folder and the rows change meanwhile.                               *)

Arrive(m) ==
    /\ m \notin mail \cup cache \cup gone /\ mail' = mail \cup {m}
    /\ UNCHANGED <<cache, gone, restore, export, used>>

Vanish(m) ==
    /\ m \in mail /\ Spend("deletes", MaxDeletes) /\ mail' = mail \ {m} /\ gone' = gone \cup {m}
    /\ restore' = IF restore = Idle THEN Idle ELSE [restore EXCEPT !.present = @ \ {m}]
    /\ UNCHANGED <<cache, export>>

\* Rows that leave the cache are not asked of a running export.
Drop(set) ==
    /\ cache' = cache \ set
    /\ export' = IF export = Idle THEN Idle ELSE [export EXCEPT !.stays = @ \ set]

\* A synchronisation adds new mail and applies the deletions it hears of.
SyncFolder ==
    /\ \/ gone # {} /\ Drop(gone) /\ gone' = {}
       \/ \E m \in mail \ cache : cache' = cache \cup {m} /\ UNCHANGED <<gone, export>>
    /\ UNCHANGED <<mail, restore, used>>

\* The oldest rows of a range are deleted, at most as many as asked for.
DeleteManaged ==
    /\ Spend("deletes", MaxDeletes)
    /\ \E a, b \in {t \in 0..MaxTime : t % Second = 0}, limit \in 1..Cardinality(Messages) :
          LET rows == {m \in cache : Between(m, [after |-> a, before |-> b])}
          IN  a < b /\ Drop({m \in rows : Cardinality({k \in rows : Date[k] < Date[m]}) < limit})
    /\ UNCHANGED <<mail, gone, restore>>

-----------------------------------------------------------------------------
(* The CSV export reads page after page of the newest rows.                *)

StartExport ==
    /\ export = Idle /\ Spend("exports", MaxExports)
    /\ export' = [at |-> "count", offset |-> 0, total |-> 0, rows |-> {}, stays |-> cache, short |-> FALSE]
    /\ UNCHANGED <<mail, cache, gone, restore>>

\* QueryCachedMessages counts the rows of the range in a statement of its own.
CountRows ==
    /\ export.at = "count"
    /\ export' = [export EXCEPT !.total = Cardinality(cache), !.at = "read"]
    /\ UNCHANGED <<mail, cache, gone, restore, used>>

\* ORDER BY received_at DESC, id
Above(m) == {k \in cache : Date[k] > Date[m] \/ (Date[k] = Date[m] /\ Id[k] < Id[m])}

SlipPage == {m \in cache : LET rank == Cardinality(Above(m))
                           IN  export.offset < rank /\ rank <= export.offset + ExportPage}
Page == {m \in cache : LET rank == Cardinality(Above(m))
                       IN  export.offset <= rank /\ rank < export.offset + ExportPage}

\* A page that is not full is the last, and so is one that reaches the count.
\* `short` records that rows were added between the count and the last page.
ReadPage ==
    /\ export.at = "read"
    /\ LET over == export.offset + ExportPage > Cardinality(cache) \/ export.offset + ExportPage >= export.total
       IN  export' = [at |-> IF over THEN "done" ELSE "count", offset |-> export.offset + ExportPage,
                      total |-> export.total, rows |-> export.rows \cup Page, stays |-> export.stays,
                      short |-> export.total < Cardinality(cache)]
    /\ UNCHANGED <<mail, cache, gone, restore, used>>

\* The file ends after the last page, or where a query fails.
EndExport ==
    /\ export # Idle /\ export' = Idle
    /\ UNCHANGED <<mail, cache, gone, restore, used>>

Next ==
    \/ StartRestore \/ AskRange \/ RestoreFails \/ Store
    \/ \E m \in Messages : Arrive(m) \/ Vanish(m)
    \/ SyncFolder \/ DeleteManaged
    \/ StartExport \/ CountRows \/ ReadPage \/ EndExport

Spec == Init /\ [][Next]_vars

-----------------------------------------------------------------------------
Times == 0..MaxTime
Ranges == [after : Times, before : Times]
Asks == [after : Times, before : Times, depth : 0..MaxDepth]
Restores == [at : {"ask", "store"}, range : Ranges, todo : Seq(Asks), got : SUBSET Messages, present : SUBSET Messages]
Exports == [at : {"count", "read", "done"}, offset : Nat, total : Nat, rows : SUBSET Messages,
            stays : SUBSET Messages, short : BOOLEAN]

\* The ranges still to ask follow each other up to the end of the requested
\* range, whatever was halved.
TypeOK ==
    /\ mail \subseteq Messages /\ cache \subseteq Messages /\ gone \subseteq Messages
    /\ restore = Idle \/ restore \in Restores
    /\ export = Idle \/ export \in Exports
    /\ used \in [DOMAIN NoneUsed -> Nat]
    /\ restore.at = "ask" =>
        LET todo == restore.todo
        IN  /\ todo # <<>> /\ todo[Len(todo)].before = restore.range.before
            /\ \A i \in DOMAIN todo : todo[i].after < todo[i].before
            /\ \A i \in 1..(Len(todo) - 1) : todo[i].before = todo[i + 1].after

\* The range is restored completely (README.md:13, and the name of
\* retrieveCompleteRange): when the call ends, every message that was there
\* all along has a row, unless one second holds a full answer.
RestoreIsComplete ==
    [][(restore.at = "store" /\ restore' = Idle /\ used' = used) =>
          \A m \in restore.present : Between(m, restore.range) =>
              \/ m \in cache'
              \/ Cardinality({k \in Messages : Date[k] - Date[m] \in (1 - Second)..(Second - 1)}) >= RangeLimit]_vars

\* The export contains every row that was there from its beginning to its
\* end (README.md:13), while restores and synchronisations add rows between its
\* pages, unless some come between the count and the page that is the last by
\* it.  A row deleted between two pages shifts the rest past the offset.
ExportMissesNothing ==
    (export.at = "done" /\ used.deletes = 0 /\ ~export.short) => export.stays \subseteq export.rows
=============================================================================
