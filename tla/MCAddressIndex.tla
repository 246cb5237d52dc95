--------------------------- MODULE MCAddressIndex ---------------------------
(* Constants for model checking AddressIndex. *)
EXTENDS AddressIndex

CONSTANTS w1, w2, w3, d1, d2

\* Two devices share a Stellar address, the first with an EVM address besides; a
\* third wallet has a Stellar address of its own.
MCDeviceOf == [w \in {w1, w2, w3} |-> IF w = w1 THEN d1 ELSE d2]

MCXlmOf == [w \in {w1, w2, w3} |-> IF w = w3 THEN "x2" ELSE "x1"]

MCMultiOf == [w \in {w1, w2, w3} |-> IF w = w1 THEN "m1" ELSE NoAddress]

=============================================================================
