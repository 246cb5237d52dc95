------------------------------ MODULE Multicast ------------------------------
(***************************************************************************)
(* What a bulk notification promises about tokens, without ids, lists,     *)
(* chunks or positions: a request is refused, or its tokens are settled    *)
(* once each, in groups of any size and in any order, each as a success,   *)
(* a failure or a failure of a dead token; it is answered when none is     *)
(* left.                                                                   *)
(***************************************************************************)
EXTENDS Integers, FiniteSets

CONSTANT Token

VARIABLES phase,    \* "open", "sending", "answered" or "refused"
          todo,     \* the tokens that are not settled yet
          success,  \* successCount
          failure,  \* failureCount
          invalid   \* invalidTokens

multicastVars == <<phase, todo, success, failure, invalid>>

Init ==
    /\ phase = "open"
    /\ todo = {}
    /\ success = 0
    /\ failure = 0
    /\ invalid = {}

Begin(T) ==
    /\ phase = "open"
    /\ phase' = "sending"
    /\ todo' = T
    /\ UNCHANGED <<success, failure, invalid>>

\* Tokens still to do are settled: good are delivered, bad are not, dead ones among them.
Settle(good, bad, dead) ==
    /\ phase = "sending"
    /\ good \cup bad # {}
    /\ dead \subseteq bad
    /\ todo' = todo \ (good \cup bad)
    /\ success' = success + Cardinality(good)
    /\ failure' = failure + Cardinality(bad)
    /\ invalid' = invalid \cup dead
    /\ UNCHANGED phase

Finish ==
    /\ phase = "sending"
    /\ todo = {}
    /\ phase' = "answered"
    /\ UNCHANGED <<todo, success, failure, invalid>>

Refuse ==
    /\ phase = "open"
    /\ phase' = "refused"
    /\ UNCHANGED <<todo, success, failure, invalid>>

Next ==
    \/ \E T \in SUBSET Token : Begin(T)
    \/ \E good \in SUBSET todo :
          \E bad \in SUBSET (todo \ good) :
             \E dead \in SUBSET bad : Settle(good, bad, dead)
    \/ Finish
    \/ Refuse

Spec == Init /\ [][Next]_multicastVars

=============================================================================
