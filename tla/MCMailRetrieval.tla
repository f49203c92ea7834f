-------------------------- MODULE MCMailRetrieval ---------------------------
(* Mail retrieval for TLC: the channel a mailbox is read through              *)
(* (RetrievalCapabilities), and the windows a folder is read by               *)
(* (WindowSync).  They share no state: a behaviour takes the steps of one,    *)
(* the other keeps an initial state.                                          *)
EXTENDS MCWindowSync, RetrievalLimits

VARIABLES cap, answer, run, seeding, budget, part

C == INSTANCE RetrievalCapabilities

channels == <<cap, answer, run, seeding, budget>>

RetrievalInit ==
  /\ Init /\ C!Init /\ part \in {"windows", "channels"}
  /\ part = "windows" => answer = [m \in C!Methods |-> "served"]

Reading == part = "windows" /\ Next /\ UNCHANGED <<channels, part>>
Choosing == part = "channels" /\ C!Next /\ UNCHANGED <<vars, part>>

\* The fairness of both, each for the behaviours of its part.
RetrievalSpec ==
  /\ RetrievalInit /\ [][Reading \/ Choosing]_<<vars, channels, part>>
  /\ \A c \in Callers : WF_vars(part = "windows" /\ Sync(c))
  /\ WF_vars(part = "windows" /\ (Reset \/ ResetFails))
  /\ WF_channels(part = "channels" /\ C!Seed)
  /\ \A c \in Callers : WF_channels(part = "channels" /\ C!Work(c))

\* See RetrievalCapabilities.
FailurePreservesAvailable == C!FailurePreservesAvailable
TransientErrorPreserves == C!TransientErrorPreserves
=============================================================================
