---------------------------- MODULE RoutingRules ----------------------------
(***************************************************************************)
(* The routing rules of a Cloudflare zone and the listings of the API, as  *)
(* data (providers/cloudflare.go).  A source address is an alias address,  *)
(* a destination is a mailbox.  ForwardRoutes runs the requests.           *)
(***************************************************************************)
EXTENDS Naturals, Sequences, FiniteSets, SequencesExt

CONSTANTS
    Sources, Mailboxes, None,
    FirstRules,    \* the sequences of rules a zone may start with
    PageSize,      \* rules and destinations one listing returns (50)
    MaxAsks,
    MaxEvents      \* lost answers, failed inserts, switches and crashes together

Rules == [source : Sources, to : Mailboxes, on : BOOLEAN]
ASSUME RulesAssumption == FirstRules \subseteq Seq(Rules)
ASSUME BoundsAssumption == PageSize \in Nat \ {0} /\ MaxAsks \in Nat /\ MaxEvents \in Nat

\* One listing; no further page is read.
FirstPage(list) == Range(SubSeq(list, 1, IF Len(list) < PageSize THEN Len(list) ELSE PageSize))
=============================================================================
