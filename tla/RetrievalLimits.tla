-------------------------- MODULE RetrievalLimits ---------------------------
(* The table RetrievalCapabilities starts from, and its bounds.               *)
EXTENDS Naturals

CONSTANTS
  Seeded,        \* the rows exist from the start, as the migration leaves them
  MaxRequests,   \* retrievals that start
  MaxChanges     \* changes of the provider's mind, capability statements that
                 \* fail, contexts that end and imports, together

ASSUME SeededAssumption == Seeded \in BOOLEAN
ASSUME RequestsAssumption == MaxRequests \in Nat /\ MaxChanges \in Nat
=============================================================================
