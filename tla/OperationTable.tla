--------------------------- MODULE OperationTable ---------------------------
(***************************************************************************)
(* The bounded table of restore operations (backup/restores.go): what it   *)
(* remembers, as a function from operations to their states, and the order *)
(* in which they were entered.  RestoreOperations runs it.                 *)
(***************************************************************************)
EXTENDS FiniteSets, Integers, Sequences, SequencesExt

CONSTANTS
  Requests,   \* restore requests, which are also the operations they create
  Capacity    \* maxRememberedRestoreOperations

ASSUME CapacityAssumption == Capacity \in Nat \ {0} /\ IsFiniteSet(Requests)

Finished(ops) == {r \in DOMAIN ops : ops[r] # "running"}

Older(order, r) == {order[i] : i \in {k \in DOMAIN order : \E j \in DOMAIN order : k < j /\ order[j] = r}}

SlipExcess(ops, order) == Finished(ops)  \* slip: every finished operation goes

\* What pruneLocked drops: finished operations, oldest first, until there is
\* room for one more.
Excess(ops, order) ==
  {r \in Finished(ops) :
     Cardinality(Finished(ops) \cap Older(order, r)) <= Cardinality(DOMAIN ops) - Capacity}

\* The order of what is kept, over growing parts of the old order.
Remaining(order, kept) ==
  LET upto[i \in 0..Len(order)] ==
        IF i = 0 THEN << >>
        ELSE IF order[i] \in kept THEN Append(upto[i - 1], order[i]) ELSE upto[i - 1]
  IN  upto

Remember(ops, order, r) ==
  LET kept == DOMAIN ops \ Excess(ops, order)
  IN  [ops |-> [q \in kept \cup {r} |-> IF q = r THEN "running" ELSE ops[q]],
       order |-> Append(Remaining(order, kept)[Len(order)], r)]
=============================================================================
