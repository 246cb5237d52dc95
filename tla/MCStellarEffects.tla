-------------------------- MODULE MCStellarEffects --------------------------
(* Constants for model checking StellarEffects. *)
EXTENDS StellarEffects

CONSTANTS w1, w2, d1, d2

\* Two devices share a Stellar address; no wallet has an EVM address, so the hooks stay
\* out of it.
MCDeviceOf == [w \in {w1, w2} |-> IF w = w1 THEN d1 ELSE d2]

MCXlmOf == [w \in {w1, w2} |-> "x1"]

MCMultiOf == [w \in {w1, w2} |-> NoAddress]

=============================================================================
