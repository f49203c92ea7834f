-------------------------- MODULE MCAdministration --------------------------
(***************************************************************************)
(* Forwarding aliases (ForwardRoutes), edited records (VersionedSettings)  *)
(* and the probe of mailboxes that are created (MessageProbe, a page for   *)
(* each) for TLC.  They share no state, nor do the records: a behaviour    *)
(* takes the steps of one and the others keep an initial state.            *)
(***************************************************************************)
EXTENDS VersionedSettings, RoutingRules, TLC

CONSTANTS r1, r2, m1, m2, kind1, kind2, s1, s2, n1, n2, n3, w1, w2, Requests

VARIABLES rules, destination, connection, alias, ask, asks, events, exposed
VARIABLES list, disabled, state, enabled, round, running, changes
VARIABLE part

F == INSTANCE ForwardRoutes WITH Clients <- Requests, call <- ask

P == INSTANCE MessageProbe WITH
       Mailboxes <- {n1, n2, n3}, Folders <- {"inbox"}, Probes <- {w1, w2}, PageSize <- 1, MaxEvents <- 4,
       events <- changes

routes == <<rules, destination, connection, alias, ask, asks, events, exposed>>
probe == <<list, disabled, state, enabled, round, running, changes>>

Rule(s, m) == [source |-> s, to |-> m, on |-> TRUE]
\* An empty zone, and one in which earlier requests for r2 overlapped, where the
\* rule of r1 is behind the page.
Zones == {<<>>, <<Rule(r2, m1), Rule(r2, m2), Rule(r1, m2)>>}
MCFits == s1 :> kind1 @@ s2 :> kind2

AdministrationInit ==
    /\ Init /\ F!Init /\ P!Init /\ part \in Records \cup {"routes", "probe"}
    /\ part # "routes" => rules = <<>>

Routes == part = "routes" /\ F!Next /\ UNCHANGED <<vars, probe, part>>

OnlyOnPart ==
    /\ \A c \in {d \in Clients : call'[d].at # "idle"} : call'[c].record = part
    /\ \A r \in Records \ {part} : row'[r] = row[r]
Saves == part \in Records /\ Next /\ OnlyOnPart /\ UNCHANGED <<routes, probe, part>>

Probing == part = "probe" /\ P!Next /\ UNCHANGED <<vars, routes, part>>

AdministrationSpec ==
    /\ AdministrationInit /\ [][Routes \/ Saves \/ Probing]_<<vars, routes, probe, part>>
    /\ part = "routes" => F!Fairness
    /\ part = "probe" => P!Fairness

\* See ForwardRoutes and MessageProbe.
OneRulePerAddress == F!OneRulePerAddress
FoldersAreProbed == part = "probe" => P!FoldersAreProbed
=============================================================================
