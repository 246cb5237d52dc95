----------------------------- MODULE MCBulkSend -----------------------------
(* Constants for model checking BulkSend: d1 has two spellings of its id. *)
EXTENDS BulkSend

CONSTANTS d1, d2, d3

MCNames == [a |-> d1, A |-> d1, b |-> d2, c |-> d3, x |-> NoDevice]

MCSpeltAs == [d \in {d1, d2, d3} |-> IF d = d1 THEN "a" ELSE IF d = d2 THEN "b" ELSE "c"]

=============================================================================
