---------------------------- MODULE SenderMonitor ----------------------------
(***************************************************************************)
(* The second layer of RateLimitService, trackAndCheckFromAddress: how many *)
(* wallets one sender pays within a window, kept in two Redis sets.         *)
(*                                                                         *)
(* The two SADDs, the EXPIREs and the two SCARDs of one call are one step:  *)
(* what is asked of the sets does not depend on calls in between.  Nobody   *)
(* calls the service at this commit.                                        *)
(***************************************************************************)
EXTENDS Naturals, FiniteSets

CONSTANTS Wallet,  \* the addresses the sender may pay
          Window,  \* AML windows in ticks: "short" for 10 minutes, "long" for the hour
          Limit    \* AML_SENDER_WALLET_LIMIT of each window

VARIABLES hit,   \* the sets: the wallets paid, as Redis remembers them
          ttl,   \* what is left of the life of each set, 0 when it does not exist
          age,   \* history: ticks since each wallet was paid last, saturating
          flag   \* what the last call answered

vars == <<hit, ttl, age, flag>>

Windows == {"short", "long"}

Forever == Window["long"] + 1

Init ==
    /\ hit = [w \in Windows |-> {}]
    /\ ttl = [w \in Windows |-> 0]
    /\ age = [a \in Wallet |-> Forever]
    /\ flag = "none"

\* SADD answers 1 for every member that is new, and each of them renews the TTL.
Track(a) ==
    /\ hit' = [w \in Windows |-> hit[w] \cup {a}]
    /\ ttl' = [w \in Windows |-> IF a \in hit[w] THEN ttl[w] ELSE Window[w]]
    /\ age' = [age EXCEPT ![a] = 0]
    /\ flag' = IF Cardinality(hit'["long"]) > Limit["long"] THEN "malicious"
               ELSE IF Cardinality(hit'["short"]) > Limit["short"] THEN "suspicious"
               ELSE "none"

\* Time passes, and Redis drops a set whose life is over.
Tick ==
    /\ ttl' = [w \in Windows |-> IF ttl[w] = 0 THEN 0 ELSE ttl[w] - 1]
    /\ hit' = [w \in Windows |-> IF ttl[w] = 1 THEN {} ELSE hit[w]]
    /\ age' = [a \in Wallet |-> IF age[a] = Forever THEN Forever ELSE age[a] + 1]
    /\ flag' = "none"

Next == Tick \/ \E a \in Wallet : Track(a)

Spec == Init /\ [][Next]_vars

\* The wallets paid within window w.
PaidWithin(w) == {a \in Wallet : age[a] < Window[w]}

\* The comment on the limit, "> 10 different wallets in 10 mins -> suspicious": a sender
\* is suspicious only when that many were paid within the window.
SuspiciousMeansWindow ==
    flag = "suspicious" => Cardinality(PaidWithin("short")) > Limit["short"]

=============================================================================
