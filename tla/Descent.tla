------------------------------- MODULE Descent -------------------------------
(***************************************************************************)
(* What the liveness proofs need to know about the natural numbers.        *)
(*                                                                         *)
(* Rests(m) holds of every behaviour and every state function m: a natural *)
(* number cannot go down for ever.  It takes an induction to prove, which  *)
(* the provers at hand cannot do with a temporal formula, so the theorems  *)
(* that rest on it carry it as a hypothesis, where it can be seen.         *)
(***************************************************************************)
EXTENDS Integers

\* Whenever m is a natural number from now on that never rises, it comes to rest.
Rests(m) == []([](m \in Nat) /\ [][m' <= m]_m => <>[][FALSE]_m)

=============================================================================
