-------------------------- MODULE MCStellarScanner --------------------------
(* Constants for model checking StellarScanner. *)
EXTENDS StellarScanner

\* With PageSize 1: empty ledgers, and one that fills its pages exactly, so that
\* only the empty page after them ends it.
MCEffectsIn == [l \in Ledger |-> IF l = 1 THEN 2 ELSE 0]

=============================================================================
