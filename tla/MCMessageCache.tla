--------------------------- MODULE MCMessageCache ---------------------------
(***************************************************************************)
(* The message cache for TLC: the incremental synchronisation of a folder  *)
(* (DeltaSync; a1 and a2 are copies of one message, a2 one that may not be *)
(* readable), and the restore and the export of ranges of another folder   *)
(* (RangeRestore).  They share no state: a behaviour takes the steps of    *)
(* one, the other keeps an initial state.  A restore and an export meet in *)
(* the rows only, where a restore adds what synchronisations add as well,  *)
(* so a behaviour has the one or the other.                                *)
(***************************************************************************)
EXTENDS DeltaSync, MailRanges, TLC

CONSTANTS a1, a2, b1, s1, m1, m2, m3

VARIABLES mail, rows, gone, restore, export, spent, part

R == INSTANCE RangeRestore WITH cache <- rows, used <- spent

ranges == <<mail, rows, gone, restore, export, spent>>

MCExtOf == [i \in Items |-> IF i = b1 THEN "b" ELSE "a"]
MCOffered == {<<"graph", "imap">>, <<"imap">>}
Spread == m1 :> 0 @@ m2 :> 2 @@ m3 :> 6
Places == m1 :> 3 @@ m2 :> 1 @@ m3 :> 2

CacheInit ==
  /\ Init /\ R!Init /\ part \in {"folder", "restore", "export"}
  /\ part = "folder" => mail = {}
  /\ part # "folder" => methods = <<"imap">>

Following == part = "folder" /\ Next /\ UNCHANGED <<ranges, part>>
Restoring == part = "restore" /\ R!Next /\ UNCHANGED <<vars, part, export>>
Exporting == part = "export" /\ R!Next /\ UNCHANGED <<vars, part, restore>>

\* DeltaSync's fairness, for the behaviours of its part.
CacheSpec ==
  /\ CacheInit /\ [][Following \/ Restoring \/ Exporting]_<<vars, ranges, part>>
  /\ \A s \in Syncers : WF_vars(part = "folder" /\ Begin(s)) /\ WF_vars(part = "folder" /\ Step(s))

\* See RangeRestore.
ExportMissesNothing == R!ExportMissesNothing
RestoreIsComplete == R!RestoreIsComplete
=============================================================================
