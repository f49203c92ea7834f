----------------------------- MODULE MailRanges -----------------------------
(***************************************************************************)
(* The mail of a folder and the limits under which RangeRestore restores   *)
(* and exports a range of it.                                              *)
(***************************************************************************)
EXTENDS Integers, FiniteSets

CONSTANTS
    Messages, Date,       \* messages of the folder and when they were received
    Id,                   \* the place of their rows among those of one time
    Adapters,             \* subset of {"graph", "gmail", "gmail imap", "outlook imap"}
    RangeLimit,           \* messages one request asks for (500)
    GmailLimit,           \* messages the Gmail adapter returns at most (100)
    ScanLimit,            \* messages an IMAP adapter reads at most (1000)
    Second, Day, MaxTime, \* ticks
    MaxDepth,             \* 20
    ExportPage,           \* rows of one export query (1000)
    MaxErrors, MaxDeletes, MaxRestores, MaxExports

ASSUME DateAssumption == IsFiniteSet(Messages) /\ Date \in [Messages -> 0..MaxTime]
ASSUME IdAssumption == /\ Id \in [Messages -> Nat]
                       /\ \A k, m \in Messages : Id[k] = Id[m] => k = m
ASSUME RangesAssumption ==
    /\ {RangeLimit, GmailLimit, ScanLimit, Second, Day, ExportPage} \subseteq Nat \ {0}
    /\ {MaxTime, MaxDepth, MaxErrors, MaxDeletes, MaxRestores, MaxExports} \subseteq Nat
=============================================================================
