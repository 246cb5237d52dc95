---------------------------- MODULE LedgerWatch -----------------------------
(***************************************************************************)
(* What StellarService promises about ledgers, without polls, scans or     *)
(* pages: from the ledger at which the process started, it announces newer *)
(* ledgers in order and settles each announced ledger once, in any order,  *)
(* as scanned or as dropped.  A new process starts afresh.                 *)
(***************************************************************************)
EXTENDS Integers

CONSTANT MaxLedger

Ledger == 0..MaxLedger

VARIABLES up,       \* is a process watching
          base,     \* the ledger it started from
          last,     \* the newest ledger it announced
          outcome   \* what it did with each ledger

watchVars == <<up, base, last, outcome>>

Init ==
    /\ up = FALSE
    /\ base = 0
    /\ last = 0
    /\ outcome = [l \in Ledger |-> "pending"]

Start(cur) ==
    /\ ~up
    /\ up' = TRUE
    /\ base' = cur
    /\ last' = cur
    /\ outcome' = [l \in Ledger |-> "pending"]

Announce(cur) ==
    /\ up
    /\ cur > last
    /\ last' = cur
    /\ UNCHANGED <<up, base, outcome>>

Settle(l, how) ==
    /\ up
    /\ base < l
    /\ l <= last
    /\ outcome[l] = "pending"
    /\ outcome' = [outcome EXCEPT ![l] = how]
    /\ UNCHANGED <<up, base, last>>

Stop ==
    /\ up
    /\ up' = FALSE
    /\ UNCHANGED <<base, last, outcome>>

Next ==
    \/ \E cur \in Ledger : Start(cur) \/ Announce(cur)
    \/ \E l \in Ledger, how \in {"scanned", "dropped"} : Settle(l, how)
    \/ Stop

Spec == Init /\ [][Next]_watchVars

=============================================================================
