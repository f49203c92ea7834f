------------------------ MODULE MCCredentialRefresh -------------------------
(* An instance of CredentialRefresh for TLC: two callers in two processes,    *)
(* the credential k1 of Microsoft's adapter and another of kind Other.        *)
EXTENDS CredentialRefresh, TLC

CONSTANTS c1, c2, i1, i2, k1, k2, graph, imap, Other

MCAdapterOf == [k \in Keys |-> IF k = k1 THEN "method" ELSE Other]
=============================================================================
