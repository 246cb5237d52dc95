------------------------ MODULE StellarScannerProofs ------------------------
(***************************************************************************)
(* Proofs about StellarScanner, for every number of scans, ledgers,        *)
(* effects, page size, Horizon lag, 429s and crashes.                      *)
(*                                                                         *)
(* TypeOK is not inductive: that pos stays within MaxEffects follows from  *)
(* the relation between pos, left and the effects of the ledger.  So it is *)
(* proved with ScanShape, then the partition of the ledgers on top of it,  *)
(* then the accounting of the parsed effects on top of both.               *)
(***************************************************************************)
EXTENDS StellarScanner, Descent, TLAPS

-----------------------------------------------------------------------------
(* Types and the shape of a scan *)

\* Within a ledger: what was parsed and what is in hand do not exceed its
\* effects, and a short page holds all that was left.
ScanShape ==
    \A s \in Scan :
        /\ scan[s].pos + scan[s].left <= EffectsIn[scan[s].ledger]
        /\ scan[s].pc # "idle" => scan[s].ledger <= scan[s].end
        /\ scan[s].pc = "fetch" => scan[s].left = 0
        /\ (scan[s].pc = "parse" /\ ~scan[s].full) =>
               scan[s].pos + scan[s].left = EffectsIn[scan[s].ledger]

\* A scan exists only while the process is up.
NoScanWhenDown == ~Up => \A s \in Scan : scan[s].pc = "idle"

TypeInv == TypeOK /\ ScanShape /\ NoScanWhenDown

LEMMA IdleType == Idle \in ScanCall
  BY ScannerAssumption DEF Idle, ScanCall, Ledger

LEMMA StartOfType ==
  ASSUME NEW l \in Ledger, NEW m \in Ledger
  PROVE  StartOf(l, m) \in ScanCall
  BY ScannerAssumption DEF StartOf, ScanCall, Ledger

LEMMA NextLedgerOfType ==
  ASSUME NEW c \in ScanCall
  PROVE  NextLedgerOf(c) \in ScanCall
<1>1. CASE c.ledger < c.end
  <2>1. c.ledger + 1 \in Ledger /\ c.end \in Ledger
    BY <1>1, ScannerAssumption DEF ScanCall, Ledger
  <2> QED BY <1>1, <2>1, StartOfType DEF NextLedgerOf
<1>2. CASE ~(c.ledger < c.end)
  BY <1>2, IdleType DEF NextLedgerOf
<1> QED BY <1>1, <1>2

\* Initially every variable has its type.
LEMMA InitTypeInv == Init => TypeInv
<1> SUFFICES ASSUME Init PROVE TypeInv
  OBVIOUS
<1>1. TypeOK
  BY ScannerAssumption, IdleType DEF Init, TypeOK, Ledger, Effect
<1>2. ScanShape
  <2>1. 0 \in Ledger /\ EffectsIn[0] \in 0..MaxEffects
    BY ScannerAssumption DEF Ledger
  <2>2. ASSUME NEW s \in Scan
        PROVE  /\ scan[s].pc = "idle" /\ scan[s].ledger = 0
               /\ scan[s].pos = 0 /\ scan[s].left = 0
    BY DEF Init, Idle
  <2>3. EffectsIn[0] \in Nat
    BY <2>1, ScannerAssumption
  <2>4. ASSUME NEW s \in Scan
        PROVE  scan[s].pos + scan[s].left <= EffectsIn[scan[s].ledger]
    BY <2>2, <2>3
  <2> QED BY <2>2, <2>4 DEF ScanShape
<1>3. NoScanWhenDown
  BY DEF Init, NoScanWhenDown, Idle
<1> QED BY <1>1, <1>2, <1>3 DEF TypeInv

\* Every step keeps the types and the shape of the scans.
LEMMA NextTypeInv == TypeInv /\ [Next]_vars => TypeInv'
<1> SUFFICES ASSUME TypeInv, [Next]_vars PROVE TypeInv'
  OBVIOUS
<1> USE ScannerAssumption DEF TypeInv
<1>1. CASE LedgerCloses
  BY <1>1 DEF LedgerCloses, TypeOK, ScanShape, NoScanWhenDown, Up, Ledger
<1>2. CASE Crash
  <2>1. TypeOK'
    BY <1>2, IdleType DEF Crash, TypeOK
  <2>2. ScanShape' /\ NoScanWhenDown'
    BY <1>2 DEF Crash, ScanShape, NoScanWhenDown, Idle, Ledger
  <2> QED BY <2>1, <2>2
<1>3. CASE Restart
  BY <1>3 DEF Restart, TypeOK, ScanShape, NoScanWhenDown, Up
<1>4. ASSUME NEW cur \in Reported, Boot(cur) PROVE TypeInv'
  BY <1>4 DEF Boot, TypeOK, ScanShape, NoScanWhenDown, Up, Reported
<1>5. ASSUME NEW cur \in Reported, PollSame(cur) PROVE TypeInv'
  BY <1>5 DEF PollSame, TypeOK, ScanShape, NoScanWhenDown, Up
<1>6. ASSUME NEW cur \in Reported, NEW s \in Scan, PollNewer(cur, s) PROVE TypeInv'
  <2>1. last + 1 \in Ledger /\ cur \in Ledger /\ last + 1 <= cur
    BY <1>6 DEF PollNewer, Reported, TypeOK, Ledger
  <2>2. TypeOK'
    BY <1>6, <2>1, StartOfType DEF PollNewer, TypeOK
  <2>3. ScanShape'
    BY <1>6, <2>1 DEF PollNewer, TypeOK, ScanShape, StartOf
  <2>4. NoScanWhenDown'
    BY <1>6 DEF PollNewer, NoScanWhenDown, Up
  <2> QED BY <2>2, <2>3, <2>4
<1>7. CASE Recheck
  BY <1>7 DEF Recheck, TypeOK, ScanShape, NoScanWhenDown, Up
<1>8. CASE PollFails
  BY <1>8 DEF PollFails, TypeOK, ScanShape, NoScanWhenDown, Up
<1>9. CASE Wake
  BY <1>9 DEF Wake, TypeOK, ScanShape, NoScanWhenDown, Up
<1>10. ASSUME NEW s \in Scan, FetchPage(s) PROVE TypeInv'
  <2> DEFINE rest == EffectsIn[scan[s].ledger] - scan[s].pos
             size == IF rest < PageSize THEN rest ELSE PageSize
  <2>1. /\ scan[s] \in ScanCall /\ scan[s].pc = "fetch" /\ scan[s].left = 0
        /\ EffectsIn[scan[s].ledger] \in 0..MaxEffects
        /\ scan[s].pos + scan[s].left <= EffectsIn[scan[s].ledger]
    BY <1>10 DEF FetchPage, TypeOK, ScanShape, ScanCall
  <2>2. /\ size \in 0..MaxEffects
        /\ scan[s].pos + size <= EffectsIn[scan[s].ledger]
        /\ size # PageSize => scan[s].pos + size = EffectsIn[scan[s].ledger]
    BY <2>1 DEF ScanCall
  <2>3. scan' = [scan EXCEPT ![s] = [scan[s] EXCEPT !.pc = "parse", !.left = size,
                                                    !.full = (size = PageSize)]]
    BY <1>10 DEF FetchPage, TypeOK
  <2> HIDE DEF size
  <2>4. TypeOK'
    <3>1. [scan[s] EXCEPT !.pc = "parse", !.left = size, !.full = (size = PageSize)]
            \in ScanCall
      BY <2>1, <2>2 DEF ScanCall
    <3>2. scan' \in [Scan -> ScanCall]
      BY <2>3, <3>1 DEF TypeOK
    <3> QED BY <1>10, <3>2 DEF FetchPage, TypeOK
  <2>5. ScanShape'
    <3>1. /\ scan'[s].pos = scan[s].pos /\ scan'[s].left = size
          /\ scan'[s].ledger = scan[s].ledger /\ scan'[s].end = scan[s].end
          /\ scan'[s].full = (size = PageSize) /\ scan'[s].pc = "parse"
      BY <2>1, <2>3 DEF TypeOK, ScanCall
    <3>2. \A t \in Scan : t # s => scan'[t] = scan[t]
      BY <2>3 DEF TypeOK
    <3> QED BY <2>1, <2>2, <3>1, <3>2 DEF ScanShape
  <2>6. NoScanWhenDown'
    BY <1>10 DEF FetchPage, NoScanWhenDown, Up
  <2> QED BY <2>4, <2>5, <2>6
<1>11. ASSUME NEW s \in Scan, ParseEffect(s) PROVE TypeInv'
  <2>1. /\ scan[s].pos \in 0..MaxEffects /\ scan[s].left \in 0..MaxEffects
        /\ scan[s].ledger \in Ledger
        /\ EffectsIn[scan[s].ledger] \in 0..MaxEffects
        /\ scan[s].left > 0
        /\ scan[s].pos + scan[s].left <= EffectsIn[scan[s].ledger]
    BY <1>11 DEF ParseEffect, TypeOK, ScanShape, ScanCall
  <2>2. /\ scan[s].pos + 1 \in 0..MaxEffects
        /\ scan[s].left - 1 \in 0..MaxEffects
        /\ <<scan[s].ledger, scan[s].pos + 1>> \in Effect
    BY <2>1 DEF Effect
  <2>3. TypeOK'
    BY <1>11, <2>2 DEF ParseEffect, TypeOK, ScanCall
  <2>4. ScanShape'
    BY <1>11, <2>1 DEF ParseEffect, TypeOK, ScanShape, ScanCall
  <2>5. NoScanWhenDown'
    BY <1>11 DEF ParseEffect, NoScanWhenDown, Up
  <2> QED BY <2>3, <2>4, <2>5
<1>12. ASSUME NEW s \in Scan, NextPage(s) PROVE TypeInv'
  <2>1. TypeOK'
    BY <1>12 DEF NextPage, TypeOK, ScanCall
  <2>2. ScanShape' /\ NoScanWhenDown'
    BY <1>12 DEF NextPage, TypeOK, ScanShape, NoScanWhenDown, Up
  <2> QED BY <2>1, <2>2
<1>13. ASSUME NEW s \in Scan, LedgerDone(s) PROVE TypeInv'
  <2>1. TypeOK'
    BY <1>13 DEF LedgerDone, TypeOK, ScanCall
  <2>2. ScanShape' /\ NoScanWhenDown'
    BY <1>13 DEF LedgerDone, TypeOK, ScanShape, NoScanWhenDown, Up
  <2> QED BY <2>1, <2>2
<1>14. ASSUME NEW s \in Scan, scan[s].pc # "idle",
              scan' = [scan EXCEPT ![s] = NextLedgerOf(scan[s])], loop' = loop
       PROVE  scan' \in [Scan -> ScanCall] /\ ScanShape' /\ NoScanWhenDown'
  <2>1. scan[s] \in ScanCall
    BY DEF TypeOK
  <2>2. scan' \in [Scan -> ScanCall]
    BY <1>14, <2>1, NextLedgerOfType DEF TypeOK
  <2>3. ScanShape'
    <3>1. \A t \in Scan : t # s => scan'[t] = scan[t]
      BY <1>14 DEF TypeOK
    <3>2. /\ scan'[s].pos = 0 /\ scan'[s].left = 0 /\ scan'[s].pc \in {"idle", "fetch"}
          /\ scan'[s].pc # "idle" => scan'[s].ledger <= scan'[s].end
          /\ scan'[s].ledger \in Ledger
      <4>1. scan'[s] = NextLedgerOf(scan[s])
        BY <1>14 DEF TypeOK
      <4>2. CASE scan[s].ledger < scan[s].end
        BY <2>1, <4>1, <4>2 DEF NextLedgerOf, StartOf, ScanCall, Ledger
      <4>3. CASE ~(scan[s].ledger < scan[s].end)
        BY <4>1, <4>3 DEF NextLedgerOf, Idle, Ledger
      <4> QED BY <4>2, <4>3
    <3>3. EffectsIn[scan'[s].ledger] >= 0
      BY <3>2
    <3> QED BY <3>1, <3>2, <3>3 DEF ScanShape
  <2>4. NoScanWhenDown'
    BY <1>14 DEF NoScanWhenDown, Up
  <2> QED BY <2>2, <2>3, <2>4
<1>15. ASSUME NEW s \in Scan, Advance(s) PROVE TypeInv'
  BY <1>14, <1>15 DEF Advance, TypeOK
<1>16. ASSUME NEW s \in Scan, RateLimited(s) PROVE TypeInv'
  <2>1. scan[s].ledger \in Ledger
    BY DEF TypeOK, ScanCall
  <2>2. TypeOK'
    BY <1>16, <2>1 DEF RateLimited, TypeOK, ScanCall
  <2>3. ScanShape' /\ NoScanWhenDown'
    BY <1>16 DEF RateLimited, TypeOK, ScanShape, NoScanWhenDown, Up
  <2> QED BY <2>2, <2>3
<1>17. ASSUME NEW s \in Scan, Retry(s) PROVE TypeInv'
  <2>1. scan[s].ledger \in Ledger /\ scan[s].end \in Ledger
    BY DEF TypeOK, ScanCall
  <2>2. TypeOK'
    BY <1>17, <2>1, StartOfType DEF Retry, TypeOK
  <2>3. ScanShape' /\ NoScanWhenDown'
    BY <1>17, <2>1 DEF Retry, TypeOK, ScanShape, NoScanWhenDown, Up, StartOf
  <2> QED BY <2>2, <2>3
<1>18. ASSUME NEW s \in Scan, FetchFails(s) PROVE TypeInv'
  BY <1>14, <1>18 DEF FetchFails, TypeOK
<1>19. CASE UNCHANGED vars
  BY <1>19 DEF vars, TypeOK, ScanShape, NoScanWhenDown, Up
<1> QED
  BY <1>1, <1>2, <1>3, <1>4, <1>5, <1>6, <1>7, <1>8, <1>9, <1>10, <1>11, <1>12,
     <1>13, <1>15, <1>16, <1>17, <1>18, <1>19
  DEF Next, Environment, LoopStep, ScanStep

LEMMA TypeInvHolds == Spec => []TypeInv
  BY InitTypeInv, NextTypeInv, PTL DEF Spec

\* Type correctness of StellarService's loop and scans: every variable stays in
\* its range, whatever the interleaving.
THEOREM TypeCorrect == Spec => []TypeOK
<1>1. TypeInv => TypeOK
  BY DEF TypeInv
<1> QED BY <1>1, TypeInvHolds, PTL

-----------------------------------------------------------------------------
(* The ledgers are partitioned among the scans *)

\* Outside the window noticed so far nothing is settled.
UnseenIsPending == Up => \A l \in Ledger : ~InWindow(l) => outcome[l] = "pending"

WindowOrdered == Up => base <= last

PartitionInv == LedgersPartitioned /\ UnseenIsPending /\ WindowOrdered

\* Steps of a scan that leave what every scan still has to settle as it was.
LEMMA RemainingKept ==
  ASSUME TypeInv, NEW s \in Scan,
         \/ FetchPage(s) \/ ParseEffect(s) \/ NextPage(s) \/ Advance(s)
         \/ RateLimited(s) \/ Retry(s)
  PROVE  \A t \in Scan : Remaining(t)' = Remaining(t)
<1> USE ScannerAssumption DEF TypeInv, Remaining, FirstOpen
<1>1. scan[s] \in ScanCall
  BY DEF TypeOK
<1>2. CASE FetchPage(s)
  BY <1>1, <1>2 DEF FetchPage, TypeOK, ScanCall
<1>3. CASE ParseEffect(s)
  BY <1>1, <1>3 DEF ParseEffect, TypeOK, ScanCall
<1>4. CASE NextPage(s)
  BY <1>1, <1>4 DEF NextPage, TypeOK, ScanCall
<1>5. CASE Advance(s)
  <2>1. \A t \in Scan : t # s => scan'[t] = scan[t]
    BY <1>5 DEF Advance, TypeOK
  <2>2. scan'[s] = NextLedgerOf(scan[s]) /\ scan[s].pc = "settled"
    BY <1>5 DEF Advance, TypeOK
  <2>3. Remaining(s)' = Remaining(s)
    <3>1. CASE scan[s].ledger < scan[s].end
      BY <1>1, <2>2, <3>1 DEF NextLedgerOf, StartOf, ScanCall, Ledger
    <3>2. CASE ~(scan[s].ledger < scan[s].end)
      BY <1>1, <2>2, <3>2 DEF NextLedgerOf, Idle, ScanCall, Ledger
    <3> QED BY <3>1, <3>2
  <2> QED BY <2>1, <2>3
<1>6. CASE RateLimited(s)
  BY <1>1, <1>6 DEF RateLimited, TypeOK, ScanCall
<1>7. CASE Retry(s)
  BY <1>1, <1>7 DEF Retry, TypeOK, ScanCall, StartOf
<1> QED BY <1>2, <1>3, <1>4, <1>5, <1>6, <1>7

\* The two steps that settle a ledger: it was the scan's to settle, and no more is.
LEMMA RemainingSettled ==
  ASSUME TypeInv, NEW s \in Scan, LedgerDone(s) \/ FetchFails(s)
  PROVE  /\ scan[s].ledger \in Remaining(s)
         /\ Remaining(s)' = Remaining(s) \ {scan[s].ledger}
         /\ \A t \in Scan : t # s => Remaining(t)' = Remaining(t)
         /\ outcome' \in { [outcome EXCEPT ![scan[s].ledger] = how] : how \in {"scanned", "dropped"} }
<1> USE ScannerAssumption DEF TypeInv, Remaining, FirstOpen
<1>1. scan[s] \in ScanCall /\ scan[s].pc \in {"fetch", "parse"}
  BY DEF TypeOK, LedgerDone, FetchFails
<1>2. scan[s].ledger \in Remaining(s)
  BY <1>1 DEF ScanShape, ScanCall, Ledger
<1>3. \A t \in Scan : t # s => Remaining(t)' = Remaining(t)
  BY DEF LedgerDone, FetchFails, TypeOK
<1>4. CASE LedgerDone(s)
  <2>1. /\ scan'[s].pc = "settled" /\ scan'[s].ledger = scan[s].ledger
        /\ scan'[s].end = scan[s].end /\ scan[s].pc = "parse"
    BY <1>1, <1>4 DEF LedgerDone, TypeOK, ScanCall
  <2>2. scan[s].ledger \in Nat /\ scan[s].end \in Nat
    BY <1>1 DEF ScanCall, Ledger
  <2>3. ASSUME NEW l \in Ledger
        PROVE  l \in Remaining(s)' <=> (l \in Remaining(s) /\ l # scan[s].ledger)
    BY <2>1, <2>2 DEF Ledger
  <2>4. Remaining(s)' = Remaining(s) \ {scan[s].ledger}
    <3>1. Remaining(s)' \subseteq Ledger /\ Remaining(s) \subseteq Ledger
      OBVIOUS
    <3> HIDE DEF Remaining
    <3> QED BY <2>3, <3>1
  <2> QED BY <1>2, <1>3, <1>4, <2>4 DEF LedgerDone
<1>5. CASE FetchFails(s)
  <2>1. scan'[s] = NextLedgerOf(scan[s])
    BY <1>5 DEF FetchFails, TypeOK
  <2>2. Remaining(s)' = Remaining(s) \ {scan[s].ledger}
    <3>1. scan[s].ledger \in Nat /\ scan[s].end \in Nat
      BY <1>1 DEF ScanCall, Ledger
    <3>2. Remaining(s)' \subseteq Ledger /\ Remaining(s) \subseteq Ledger
      OBVIOUS
    <3>3. ASSUME NEW l \in Ledger
          PROVE  l \in Remaining(s)' <=> (l \in Remaining(s) /\ l # scan[s].ledger)
      <4>1. CASE scan[s].ledger < scan[s].end
        <5>1. /\ scan'[s].pc = "fetch" /\ scan'[s].end = scan[s].end
              /\ scan'[s].ledger = scan[s].ledger + 1
          BY <2>1, <4>1 DEF NextLedgerOf, StartOf
        <5> QED BY <1>1, <3>1, <5>1 DEF Ledger
      <4>2. CASE ~(scan[s].ledger < scan[s].end)
        <5>1. scan'[s].pc = "idle"
          BY <2>1, <4>2 DEF NextLedgerOf, Idle
        <5> QED BY <1>1, <3>1, <4>2, <5>1 DEF Ledger
      <4> QED BY <4>1, <4>2
    <3> HIDE DEF Remaining
    <3> QED BY <3>2, <3>3
  <2> QED BY <1>2, <1>3, <1>5, <2>2 DEF FetchFails
<1> QED BY <1>4, <1>5

LEMMA InitPartition == Init => PartitionInv
  BY DEF Init, PartitionInv, LedgersPartitioned, UnseenIsPending, WindowOrdered, Up

\* Every step keeps the partition.
LEMMA NextPartition == TypeInv /\ PartitionInv /\ [Next]_vars => PartitionInv'
<1> SUFFICES ASSUME TypeInv, PartitionInv, [Next]_vars PROVE PartitionInv'
  OBVIOUS
<1> USE ScannerAssumption DEF PartitionInv, LedgersPartitioned, UnseenIsPending, WindowOrdered,
                              OpenHasOwner, OwnedIsOpen, OwnersDisjoint, InWindow
<1>1. ASSUME scan' = scan, base' = base, last' = last, outcome' = outcome, Up' => Up
      PROVE  PartitionInv'
  BY <1>1 DEF Remaining, FirstOpen
<1>2. CASE LedgerCloses
  BY <1>1, <1>2 DEF LedgerCloses, Up
<1>3. CASE Crash
  BY <1>3 DEF Crash, Up
<1>4. CASE Restart
  BY <1>4 DEF Restart, Up
<1>5. ASSUME NEW cur \in Reported, Boot(cur) PROVE PartitionInv'
  <2>1. \A s \in Scan : Remaining(s)' = {}
    BY <1>5 DEF Boot, TypeInv, NoScanWhenDown, Up, Remaining
  <2>2. base' = last' /\ last' \in Ledger /\ \A l \in Ledger : outcome'[l] = "pending"
    BY <1>5 DEF Boot, Reported
  <2> QED BY <2>1, <2>2 DEF Ledger
<1>6. ASSUME NEW cur \in Reported, PollSame(cur) PROVE PartitionInv'
  BY <1>1, <1>6 DEF PollSame, Up
<1>7. ASSUME NEW cur \in Reported, NEW s \in Scan, PollNewer(cur, s) PROVE PartitionInv'
  <2>1. Up /\ Up' /\ cur > last /\ cur \in Ledger /\ last \in Ledger /\ base \in Ledger
    BY <1>7 DEF PollNewer, Up, Reported, TypeInv, TypeOK
  <2>2. base' = base /\ last' = cur /\ outcome' = outcome
    BY <1>7 DEF PollNewer
  <2>3. Remaining(s) = {} /\ Remaining(s)' = {l \in Ledger : last < l /\ l <= cur}
    BY <1>7, <2>1 DEF PollNewer, TypeInv, TypeOK, Remaining, FirstOpen, StartOf, Ledger
  <2>4. \A t \in Scan : t # s => Remaining(t)' = Remaining(t)
    BY <1>7 DEF PollNewer, TypeInv, TypeOK, Remaining, FirstOpen
  <2>5. base <= last /\ WindowOrdered'
    BY <2>1, <2>2 DEF WindowOrdered, Ledger
  <2>11. \A t \in Scan : Remaining(t) \subseteq Remaining(t)'
    BY <2>3, <2>4
  <2>6. OpenHasOwner'
    <3> SUFFICES ASSUME NEW l \in Ledger, base < l, l <= cur, outcome[l] = "pending"
                 PROVE  \E t \in Scan : l \in Remaining(t)'
      BY <2>2
    <3>1. CASE l <= last
      <4>1. PICK t \in Scan : l \in Remaining(t)
        BY <2>1, <3>1
      <4> QED BY <2>11, <4>1
    <3>2. CASE ~(l <= last)
      BY <2>1, <2>3, <3>2 DEF Ledger
    <3> QED BY <3>1, <3>2
  <2>7. OwnedIsOpen'
    <3> SUFFICES ASSUME NEW t \in Scan, NEW l \in Remaining(t)'
                 PROVE  base < l /\ l <= cur /\ outcome[l] = "pending"
      BY <2>2
    <3>1. CASE t = s
      <4>1. l \in Ledger /\ last < l /\ l <= cur
        BY <2>3, <3>1
      <4>2. base < l
        BY <2>1, <2>5, <4>1 DEF Ledger
      <4> QED BY <2>1, <4>1, <4>2 DEF Ledger
    <3>2. CASE t # s
      <4>1. l \in Ledger /\ base < l /\ l <= last /\ outcome[l] = "pending"
        BY <2>1, <2>4, <3>2 DEF Remaining
      <4> QED BY <2>1, <4>1 DEF Ledger
    <3> QED BY <3>1, <3>2
  <2>8. OwnersDisjoint'
    BY <2>1, <2>3, <2>4 DEF Ledger
  <2>9. UnseenIsPending'
    BY <2>1, <2>2 DEF Ledger
  <2> QED BY <2>5, <2>6, <2>7, <2>8, <2>9
<1>8. CASE Recheck \/ PollFails \/ Wake
  BY <1>1, <1>8 DEF Recheck, PollFails, Wake, Up
<1>9. ASSUME NEW s \in Scan,
             \/ FetchPage(s) \/ ParseEffect(s) \/ NextPage(s) \/ Advance(s)
             \/ RateLimited(s) \/ Retry(s)
      PROVE  PartitionInv'
  <2>1. \A t \in Scan : Remaining(t)' = Remaining(t)
    BY <1>9, RemainingKept
  <2>2. base' = base /\ last' = last /\ outcome' = outcome /\ loop' = loop
    BY <1>9 DEF FetchPage, ParseEffect, NextPage, Advance, RateLimited, Retry
  <2> QED BY <2>1, <2>2 DEF Up
<1>10. ASSUME NEW s \in Scan, LedgerDone(s) \/ FetchFails(s) PROVE PartitionInv'
  <2> DEFINE l0 == scan[s].ledger
  <2>1. Up /\ Up'
    BY <1>10 DEF LedgerDone, FetchFails, TypeInv, NoScanWhenDown, Up
  <2>2. base' = base /\ last' = last
    BY <1>10 DEF LedgerDone, FetchFails
  <2>3. /\ l0 \in Remaining(s)
        /\ Remaining(s)' = Remaining(s) \ {l0}
        /\ \A t \in Scan : t # s => Remaining(t)' = Remaining(t)
    BY <1>10, RemainingSettled
  <2>4. l0 \in Ledger /\ InWindow(l0) /\ \A t \in Scan : t # s => l0 \notin Remaining(t)
    BY <2>1, <2>3 DEF Remaining
  <2>5. /\ outcome'[l0] # "pending"
        /\ \A l \in Ledger : l # l0 => outcome'[l] = outcome[l]
    BY <1>10, <2>4 DEF LedgerDone, FetchFails, TypeInv, TypeOK
  <2>6. \A t \in Scan : Remaining(t) \subseteq Ledger
    BY DEF Remaining
  <2> HIDE DEF l0
  <2>7. OpenHasOwner' /\ OwnedIsOpen' /\ OwnersDisjoint' /\ UnseenIsPending'
    BY <2>1, <2>2, <2>3, <2>4, <2>5, <2>6
  <2>8. WindowOrdered'
    BY <2>1, <2>2
  <2> QED BY <2>7, <2>8
<1>11. CASE UNCHANGED vars
  BY <1>1, <1>11 DEF vars, Up
<1> QED
  BY <1>2, <1>3, <1>4, <1>5, <1>6, <1>7, <1>8, <1>9, <1>10, <1>11
  DEF Next, Environment, LoopStep, ScanStep

LEMMA PartitionInvHolds == Spec => []PartitionInv
  BY InitPartition, NextPartition, TypeInvHolds, PTL DEF Spec

\* startLedgerLoop hands out each ledger once: every ledger the loop has noticed is
\* settled or in the range of exactly one of the scans that overlap in time.
THEOREM Partitioned == Spec => []LedgersPartitioned
<1>1. PartitionInv => LedgersPartitioned
  BY DEF PartitionInv
<1> QED BY <1>1, PartitionInvHolds, PTL

-----------------------------------------------------------------------------
(* How often an effect is parsed *)

\* Scan s has parsed effect e in the attempt it is making at e's ledger.
Attempted(s, e) ==
    /\ scan[s].pc \in {"fetch", "parse"}
    /\ scan[s].ledger = e[1]
    /\ e[2] <= scan[s].pos

\* This process has yet to parse e, or will have to start over before it does.
Unread(e) == Up => outcome[e[1]] = "pending" /\ \A s \in Scan : ~Attempted(s, e)

AttemptedIsParsed == \A s \in Scan : \A e \in Effect : Attempted(s, e) => parsed[e] >= 1

UnreadIsPaidFor == \A e \in Effect : Unread(e) => parsed[e] <= rateLimits[e[1]] + crashes

AccountInv == ScannedIsComplete /\ AttemptedIsParsed /\ ReplaysAreBounded /\ UnreadIsPaidFor

LEMMA EffectType ==
  ASSUME NEW e \in Effect
  PROVE  e[1] \in Ledger /\ e[2] \in Nat \ {0} /\ e[2] <= EffectsIn[e[1]] /\ e = <<e[1], e[2]>>
  BY ScannerAssumption DEF Effect

LEMMA InitAccount == Init => AccountInv
  BY EffectType, ScannerAssumption
  DEF Init, AccountInv, ScannedIsComplete, AttemptedIsParsed, ReplaysAreBounded,
      UnreadIsPaidFor, Attempted, Idle

\* Every step keeps the account.
LEMMA NextAccount == TypeInv /\ PartitionInv /\ AccountInv /\ [Next]_vars => AccountInv'
<1> SUFFICES ASSUME TypeInv, PartitionInv, AccountInv, [Next]_vars PROVE AccountInv'
  OBVIOUS
<1> USE ScannerAssumption, EffectType
    DEF AccountInv, ScannedIsComplete, AttemptedIsParsed, ReplaysAreBounded, UnreadIsPaidFor
<1>0. /\ parsed \in [Effect -> Nat] /\ rateLimits \in [Ledger -> Nat] /\ crashes \in Nat
      /\ scan \in [Scan -> ScanCall]
      /\ outcome \in [Ledger -> {"pending", "scanned", "dropped"}]
  BY DEF TypeInv, TypeOK
\* A step that parses nothing, pays nothing and makes nothing unread keeps it.
<1>1. ASSUME parsed' = parsed, rateLimits' = rateLimits, crashes' = crashes,
             \A e \in Effect : outcome'[e[1]] = "scanned" => parsed[e] >= 1,
             \A s \in Scan : \A e \in Effect : Attempted(s, e)' => Attempted(s, e),
             \A e \in Effect : Unread(e)' => Unread(e)
      PROVE  AccountInv'
  BY <1>0, <1>1
<1>2. ASSUME scan' = scan, outcome' = outcome, parsed' = parsed, rateLimits' = rateLimits,
             crashes' = crashes, Up => Up'
      PROVE  AccountInv'
  BY <1>1, <1>2 DEF Attempted, Unread
<1>3. CASE LedgerCloses
  BY <1>2, <1>3 DEF LedgerCloses, Up
<1>4. CASE Crash
  <2>1. \A s \in Scan : \A e \in Effect : ~Attempted(s, e)'
    BY <1>4 DEF Crash, Attempted, Idle
  <2>2. parsed' = parsed /\ rateLimits' = rateLimits /\ crashes' = crashes + 1
        /\ outcome' = outcome
    BY <1>4 DEF Crash
  <2>3. \A e \in Effect : parsed[e] \in Nat /\ rateLimits[e[1]] \in Nat
    BY <1>0
  <2> QED BY <1>0, <2>1, <2>2, <2>3
<1>5. CASE Restart
  BY <1>2, <1>5 DEF Restart, Up
<1>6. ASSUME NEW cur \in Reported, Boot(cur) PROVE AccountInv'
  <2>1. ~Up /\ \A s \in Scan : \A e \in Effect : ~Attempted(s, e)'
    BY <1>6 DEF Boot, TypeInv, NoScanWhenDown, Up, Attempted
  <2> QED BY <1>1, <1>6, <2>1 DEF Boot, Unread
<1>7. ASSUME NEW cur \in Reported, PollSame(cur) PROVE AccountInv'
  BY <1>2, <1>7 DEF PollSame, Up
<1>8. ASSUME NEW cur \in Reported, NEW s \in Scan, PollNewer(cur, s) PROVE AccountInv'
  <2>1. Up /\ Up' /\ \A t \in Scan : \A e \in Effect : Attempted(t, e)' <=> Attempted(t, e)
    BY <1>0, <1>8 DEF PollNewer, Attempted, StartOf, Up
  <2> QED BY <1>1, <1>8, <2>1 DEF PollNewer, Unread
<1>9. CASE Recheck \/ PollFails \/ Wake
  BY <1>2, <1>9 DEF Recheck, PollFails, Wake, Up
<1>10. ASSUME NEW s \in Scan, FetchPage(s) \/ NextPage(s) \/ Advance(s) \/ Retry(s)
       PROVE  AccountInv'
  <2>1. \A t \in Scan : \A e \in Effect : Attempted(t, e)' <=> Attempted(t, e)
    <3>1. \A t \in Scan : t # s => scan'[t] = scan[t]
      BY <1>0, <1>10 DEF FetchPage, NextPage, Advance, Retry
    <3>2. CASE FetchPage(s)
      BY <1>0, <3>1, <3>2 DEF FetchPage, Attempted, ScanCall
    <3>3. CASE NextPage(s)
      BY <1>0, <3>1, <3>3 DEF NextPage, Attempted, ScanCall
    <3>4. CASE Advance(s)
      <4>1. scan[s].pc = "settled" /\ scan'[s] = NextLedgerOf(scan[s])
        BY <1>0, <3>4 DEF Advance
      <4>2. scan'[s].pos = 0
        BY <4>1 DEF NextLedgerOf, StartOf, Idle
      <4> QED BY <3>1, <4>1, <4>2 DEF Attempted
    <3>5. CASE Retry(s)
      BY <1>0, <3>1, <3>5 DEF Retry, Attempted, StartOf
    <3> QED BY <1>10, <3>2, <3>3, <3>4, <3>5
  <2>2. /\ parsed' = parsed /\ rateLimits' = rateLimits /\ crashes' = crashes
        /\ outcome' = outcome /\ loop' = loop
    BY <1>10 DEF FetchPage, NextPage, Advance, Retry
  <2> QED BY <1>1, <2>1, <2>2 DEF Unread, Up
<1>11. ASSUME NEW s \in Scan, ParseEffect(s) PROVE AccountInv'
  <2>1. scan[s] \in ScanCall /\ scan[s].ledger \in Ledger /\ scan[s].pos \in Nat
    BY <1>0 DEF ScanCall
  <2>2. PICK e0 \in Effect : e0 = <<scan[s].ledger, scan[s].pos + 1>>
    BY <1>11, <2>1 DEF ParseEffect, TypeInv, TypeOK, ScanShape, ScanCall, Effect
  <2>3. /\ parsed'[e0] = parsed[e0] + 1
        /\ \A e \in Effect : e # e0 => parsed'[e] = parsed[e]
    BY <1>0, <1>11, <2>2 DEF ParseEffect
  <2>4. /\ outcome' = outcome /\ rateLimits' = rateLimits /\ crashes' = crashes
        /\ loop' = loop
    BY <1>11 DEF ParseEffect
  <2>5. /\ \A t \in Scan : t # s => scan'[t] = scan[t]
        /\ scan'[s].pc = "parse" /\ scan[s].pc = "parse"
        /\ scan'[s].ledger = scan[s].ledger /\ scan'[s].pos = scan[s].pos + 1
    BY <1>0, <1>11, <2>1 DEF ParseEffect, ScanCall
  <2>6. Unread(e0)
    <3>1. Up /\ scan[s].ledger \in Remaining(s)
      <4>1. Up /\ scan[s].ledger <= scan[s].end
        BY <2>5 DEF TypeInv, NoScanWhenDown, ScanShape
      <4>2. scan[s].ledger <= scan[s].ledger
        BY <2>1 DEF Ledger
      <4> QED BY <2>1, <2>5, <4>1, <4>2 DEF Remaining, FirstOpen
    <3>2. outcome[scan[s].ledger] = "pending"
      BY <3>1 DEF PartitionInv, LedgersPartitioned, OwnedIsOpen
    <3>3. ASSUME NEW t \in Scan, t # s PROVE ~Attempted(t, e0)
      <4>1. scan[s].ledger \notin Remaining(t) /\ e0[1] = scan[s].ledger
        BY <2>2, <3>1, <3>3 DEF PartitionInv, LedgersPartitioned, OwnersDisjoint
      <4>2. SUFFICES ASSUME Attempted(t, e0) PROVE FALSE
        OBVIOUS
      <4>3. scan[t].pc \in {"fetch", "parse"} /\ scan[t].ledger = scan[s].ledger
        BY <4>1, <4>2 DEF Attempted
      <4>4. scan[t].ledger <= scan[t].end /\ scan[t].ledger \in Nat
        BY <4>3, <2>1 DEF TypeInv, ScanShape, Ledger
      <4> QED BY <2>1, <4>1, <4>3, <4>4 DEF Remaining, FirstOpen
    <3>4. ~Attempted(s, e0)
      BY <2>1, <2>2 DEF Attempted
    <3> QED BY <2>2, <3>2, <3>3, <3>4 DEF Unread
  <2>7. \A t \in Scan : \A e \in Effect : e # e0 => (Attempted(t, e)' <=> Attempted(t, e))
    <3> SUFFICES ASSUME NEW t \in Scan, NEW e \in Effect, e # e0
                 PROVE  Attempted(t, e)' <=> Attempted(t, e)
      OBVIOUS
    <3>1. CASE t = s
      <4>1. e[1] = scan[s].ledger => e[2] # scan[s].pos + 1
        BY <2>2
      <4>2. e[2] \in Nat
        OBVIOUS
      <4> QED BY <2>1, <2>5, <3>1, <4>1, <4>2 DEF Attempted
    <3>2. CASE t # s
      BY <2>5, <3>2 DEF Attempted
    <3> QED BY <3>1, <3>2
  <2>8. ~Unread(e0)'
    <3>1. Attempted(s, e0)'
      BY <2>1, <2>2, <2>5 DEF Attempted
    <3>2. Up'
      BY <2>4, <2>5 DEF TypeInv, NoScanWhenDown, Up
    <3> QED BY <3>1, <3>2 DEF Unread
  <2>9. \A e \in Effect : e # e0 => (Unread(e)' => Unread(e))
    BY <2>4, <2>7 DEF Unread, Up
  <2>10. \A e \in Effect : /\ parsed[e] \in Nat /\ parsed'[e] \in Nat
                           /\ parsed'[e] >= parsed[e] /\ rateLimits[e[1]] \in Nat
    BY <1>0, <2>3
  <2>11. parsed'[e0] >= 1
    BY <2>2, <2>3, <2>10
  <2>12. rateLimits[e0[1]] \in Nat /\ parsed[e0] <= rateLimits[e0[1]] + crashes
    BY <2>2, <2>6, <2>10
  <2>13. ScannedIsComplete' /\ AttemptedIsParsed'
    BY <2>3, <2>4, <2>7, <2>10, <2>11
  <2>14. ReplaysAreBounded' /\ UnreadIsPaidFor'
    <3>1. parsed'[e0] <= 1 + rateLimits'[e0[1]] + crashes'
      BY <1>0, <2>3, <2>4, <2>10, <2>12
    <3>2. ReplaysAreBounded'
      BY <2>3, <2>4, <3>1
    <3>3. UnreadIsPaidFor'
      BY <2>3, <2>4, <2>8, <2>9
    <3> QED BY <3>2, <3>3
  <2> QED BY <2>13, <2>14
<1>12. ASSUME NEW s \in Scan, LedgerDone(s) PROVE AccountInv'
  <2>1. /\ scan[s] \in ScanCall /\ scan[s].pc = "parse" /\ scan[s].ledger \in Ledger
        /\ scan[s].pos = EffectsIn[scan[s].ledger]
    BY <1>0, <1>12 DEF LedgerDone, TypeInv, ScanShape, ScanCall
  <2>2. Up /\ Up'
    BY <1>12, <2>1 DEF LedgerDone, TypeInv, NoScanWhenDown, Up
  <2>3. \A t \in Scan : \A e \in Effect : Attempted(t, e)' => Attempted(t, e)
    BY <1>0, <1>12 DEF LedgerDone, Attempted, ScanCall
  <2>4. \A e \in Effect : e[1] = scan[s].ledger => Attempted(s, e)
    BY <2>1 DEF Attempted
  <2>5. /\ outcome'[scan[s].ledger] = "scanned"
        /\ \A l \in Ledger : l # scan[s].ledger => outcome'[l] = outcome[l]
    BY <1>0, <1>12, <2>1 DEF LedgerDone
  <2>6. \A e \in Effect : outcome'[e[1]] = "scanned" => parsed[e] >= 1
    BY <2>4, <2>5
  <2>7. \A e \in Effect : Unread(e)' => Unread(e)
    <3> SUFFICES ASSUME NEW e \in Effect, Unread(e)' PROVE Unread(e)
      OBVIOUS
    <3>1. outcome'[e[1]] = "pending" /\ e[1] # scan[s].ledger /\ outcome[e[1]] = "pending"
      BY <2>2, <2>5 DEF Unread
    <3>2. \A t \in Scan : Attempted(t, e) => Attempted(t, e)'
      BY <1>0, <1>12, <3>1 DEF LedgerDone, Attempted, ScanCall
    <3> QED BY <2>2, <3>1, <3>2 DEF Unread
  <2>8. parsed' = parsed /\ rateLimits' = rateLimits /\ crashes' = crashes
    BY <1>12 DEF LedgerDone
  <2> QED BY <1>1, <2>3, <2>6, <2>7, <2>8
<1>13. ASSUME NEW s \in Scan, RateLimited(s) PROVE AccountInv'
  <2>1. /\ scan[s] \in ScanCall /\ scan[s].pc = "fetch" /\ scan[s].ledger \in Ledger
    BY <1>0, <1>13 DEF RateLimited, ScanCall
  <2>2. /\ rateLimits'[scan[s].ledger] = rateLimits[scan[s].ledger] + 1
        /\ \A l \in Ledger : l # scan[s].ledger => rateLimits'[l] = rateLimits[l]
    BY <1>0, <1>13, <2>1 DEF RateLimited
  <2>3. parsed' = parsed /\ crashes' = crashes /\ outcome' = outcome /\ loop' = loop
    BY <1>13 DEF RateLimited
  <2>4. \A t \in Scan : \A e \in Effect :
          /\ Attempted(t, e)' => Attempted(t, e)
          /\ e[1] # scan[s].ledger => (Attempted(t, e) => Attempted(t, e)')
    BY <1>0, <1>13 DEF RateLimited, Attempted, ScanCall
  <2>5. \A e \in Effect : e[1] # scan[s].ledger => (Unread(e)' => Unread(e))
    BY <2>3, <2>4 DEF Unread, Up
  <2>6. \A e \in Effect : /\ e[1] \in Ledger /\ parsed[e] \in Nat
                          /\ rateLimits[e[1]] \in Nat /\ crashes \in Nat
    BY <1>0
  <2>7. ReplaysAreBounded' /\ UnreadIsPaidFor'
    <3>1. ASSUME NEW e \in Effect
          PROVE  /\ parsed'[e] <= 1 + rateLimits'[e[1]] + crashes'
                 /\ Unread(e)' => parsed'[e] <= rateLimits'[e[1]] + crashes'
      <4>1. /\ parsed[e] <= 1 + rateLimits[e[1]] + crashes
            /\ Unread(e) => parsed[e] <= rateLimits[e[1]] + crashes
        OBVIOUS
      <4>2. CASE e[1] = scan[s].ledger
        BY <2>2, <2>3, <2>6, <4>1, <4>2
      <4>3. CASE e[1] # scan[s].ledger
        BY <2>2, <2>3, <2>5, <2>6, <4>1, <4>3
      <4> QED BY <4>2, <4>3
    <3> QED BY <3>1
  <2> QED BY <2>3, <2>4, <2>7
<1>14. ASSUME NEW s \in Scan, FetchFails(s) PROVE AccountInv'
  <2>1. /\ scan[s] \in ScanCall /\ scan[s].pc = "fetch" /\ scan[s].ledger \in Ledger
    BY <1>0, <1>14 DEF FetchFails, ScanCall
  <2>2. Up /\ Up'
    BY <1>14, <2>1 DEF FetchFails, TypeInv, NoScanWhenDown, Up
  <2>3. /\ outcome'[scan[s].ledger] = "dropped"
        /\ \A l \in Ledger : l # scan[s].ledger => outcome'[l] = outcome[l]
    BY <1>0, <1>14, <2>1 DEF FetchFails
  <2>4. /\ \A t \in Scan : t # s => scan'[t] = scan[t]
        /\ scan'[s].pos = 0
    <3>1. scan'[s] = NextLedgerOf(scan[s]) /\ \A t \in Scan : t # s => scan'[t] = scan[t]
      BY <1>0, <1>14 DEF FetchFails
    <3> QED BY <3>1 DEF NextLedgerOf, StartOf, Idle
  <2>5. \A t \in Scan : \A e \in Effect :
          /\ Attempted(t, e)' => Attempted(t, e)
          /\ e[1] # scan[s].ledger => (Attempted(t, e) => Attempted(t, e)')
    BY <2>4 DEF Attempted
  <2>6. \A e \in Effect : Unread(e)' => Unread(e)
    BY <2>2, <2>3, <2>5 DEF Unread
  <2>7. \A e \in Effect : outcome'[e[1]] = "scanned" => parsed[e] >= 1
    BY <2>3
  <2>8. parsed' = parsed /\ rateLimits' = rateLimits /\ crashes' = crashes
    BY <1>14 DEF FetchFails
  <2> QED BY <1>1, <2>5, <2>6, <2>7, <2>8
<1>15. CASE UNCHANGED vars
  BY <1>2, <1>15 DEF vars, Up
<1> QED
  BY <1>3, <1>4, <1>5, <1>6, <1>7, <1>8, <1>9, <1>10, <1>11, <1>12, <1>13, <1>14, <1>15
  DEF Next, Environment, LoopStep, ScanStep

LEMMA AccountInvHolds == Spec => []AccountInv
  BY InitAccount, NextAccount, TypeInvHolds, PartitionInvHolds, PTL DEF Spec

\* fetchLedgerEffects misses nothing: a ledger it returned from had every effect
\* parsed, for every page size, count of effects and number of 429s.
THEOREM CompleteScans == Spec => []ScannedIsComplete
<1>1. AccountInv => ScannedIsComplete
  BY DEF AccountInv
<1> QED BY <1>1, AccountInvHolds, PTL

\* parseStellarEffect runs on an effect once, and once more for each 429 that made
\* its ledger start over and for each restart of the process at most.
THEOREM BoundedReplays == Spec => []ReplaysAreBounded
<1>1. AccountInv => ReplaysAreBounded
  BY DEF AccountInv
<1> QED BY <1>1, AccountInvHolds, PTL

-----------------------------------------------------------------------------
(* The refinement of LedgerWatch *)

\* Every step of the scanner is a step of LedgerWatch or leaves its state alone.
LEMMA StepRefines ==
  TypeInv /\ PartitionInv /\ [Next]_vars => [Watch!Next]_(Watch!watchVars)
<1> SUFFICES ASSUME TypeInv, PartitionInv, [Next]_vars
             PROVE  Watch!Next \/ UNCHANGED <<Up, base, last, outcome>>
  BY DEF Watch!watchVars
<1>1. CASE LedgerCloses \/ Restart \/ Recheck \/ PollFails \/ Wake
  BY <1>1 DEF LedgerCloses, Restart, Recheck, PollFails, Wake, Up
<1>2. CASE Crash
  <2>1. CASE Up
    BY <1>2, <2>1 DEF Crash, Up, Watch!Next, Watch!Stop
  <2>2. CASE ~Up
    BY <1>2, <2>2 DEF Crash, Up
  <2> QED BY <2>1, <2>2
<1>3. ASSUME NEW cur \in Reported, Boot(cur) PROVE Watch!Next
  <2>1. Watch!Start(cur)
    BY <1>3 DEF Boot, Up, Watch!Start, Watch!Ledger, Ledger
  <2>2. cur \in Watch!Ledger
    BY DEF Reported, Ledger, Watch!Ledger
  <2> QED BY <2>1, <2>2 DEF Watch!Next
<1>4. ASSUME NEW cur \in Reported, PollSame(cur) PROVE UNCHANGED <<Up, base, last, outcome>>
  BY <1>4 DEF PollSame, Up
<1>5. ASSUME NEW cur \in Reported, NEW s \in Scan, PollNewer(cur, s) PROVE Watch!Next
  <2>1. Watch!Announce(cur)
    BY <1>5 DEF PollNewer, Up, Watch!Announce
  <2>2. cur \in Watch!Ledger
    BY DEF Reported, Ledger, Watch!Ledger
  <2> QED BY <2>1, <2>2 DEF Watch!Next
<1>6. ASSUME NEW s \in Scan,
             \/ FetchPage(s) \/ ParseEffect(s) \/ NextPage(s) \/ Advance(s)
             \/ RateLimited(s) \/ Retry(s)
      PROVE  UNCHANGED <<Up, base, last, outcome>>
  BY <1>6 DEF FetchPage, ParseEffect, NextPage, Advance, RateLimited, Retry, Up
<1>7. ASSUME NEW s \in Scan, LedgerDone(s) \/ FetchFails(s) PROVE Watch!Next
  <2>1. Up /\ Up'
    BY <1>7 DEF LedgerDone, FetchFails, TypeInv, NoScanWhenDown, Up
  <2>2. scan[s].ledger \in Remaining(s)
    BY <1>7, RemainingSettled
  <2>3. /\ scan[s].ledger \in Watch!Ledger
        /\ base < scan[s].ledger /\ scan[s].ledger <= last
        /\ outcome[scan[s].ledger] = "pending"
    BY <2>1, <2>2
    DEF PartitionInv, LedgersPartitioned, OwnedIsOpen, InWindow, Remaining, Ledger, Watch!Ledger
  <2>4. CASE LedgerDone(s)
    <3>1. Watch!Settle(scan[s].ledger, "scanned")
      BY <2>1, <2>3, <2>4 DEF LedgerDone, Watch!Settle
    <3> QED BY <2>3, <3>1 DEF Watch!Next
  <2>5. CASE FetchFails(s)
    <3>1. Watch!Settle(scan[s].ledger, "dropped")
      BY <2>1, <2>3, <2>5 DEF FetchFails, Watch!Settle
    <3> QED BY <2>3, <3>1 DEF Watch!Next
  <2> QED BY <1>7, <2>4, <2>5
<1>8. CASE UNCHANGED vars
  BY <1>8 DEF vars, Up
<1> QED
  BY <1>1, <1>2, <1>3, <1>4, <1>5, <1>6, <1>7, <1>8 DEF Next, Environment, LoopStep, ScanStep

\* The overlapping scans, retries and crashes implement LedgerWatch: from the ledger
\* the process started at, each ledger is settled once, after it was announced.
THEOREM Refinement == Spec => WatchSpec
<1>1. Init => Watch!Init
  BY DEF Init, Up, Watch!Init, Watch!Ledger, Ledger
<1>2. Spec => []PartitionInv
  BY PartitionInvHolds
<1> QED BY <1>1, <1>2, StepRefines, TypeInvHolds, PTL DEF Spec, WatchSpec, Watch!Spec

-----------------------------------------------------------------------------
(* The loop catches up.  ENABLED is spelled out: LoopStep can be taken       *)
(* wherever the loop is not down, and PollNewer(head, s) for some s just     *)
(* where the loop polls, the head is new and a slot for a scan is free.      *)

AnyIdle == \E s \in Scan : scan[s].pc = "idle"

\* Weak fairness of LoopStep.
LoopTurns == []([](loop # "down") => <><<LoopStep>>_vars)

\* Strong fairness of a poll that sees the head.
HeadIsSeen ==
    []([]<>(loop = "poll" /\ head > last /\ AnyIdle)
           => <><<\E s \in Scan : PollNewer(head, s)>>_vars)

\* The slots bound the model, not the code: there is one for the next scan.
SlotsFree == []<>AnyIdle

DownIsCrash == loop = "down" => crashes > 0

LEMMA DownHolds == Spec => []DownIsCrash
<1>1. Init => DownIsCrash
  BY DEF Init, DownIsCrash
<1>2. TypeOK /\ DownIsCrash /\ [Next]_vars => DownIsCrash'
  <2> SUFFICES ASSUME TypeOK, DownIsCrash, [Next]_vars, loop' = "down" PROVE crashes' > 0
    BY DEF DownIsCrash
  <2>1. crashes \in Nat
    BY ScannerAssumption DEF TypeOK
  <2>2. CASE Crash
    BY <2>1, <2>2 DEF Crash
  <2>3. CASE UNCHANGED <<loop, crashes>>
    BY <2>3 DEF DownIsCrash
  <2> QED
    BY <2>2, <2>3
    DEF Next, Environment, LedgerCloses, Restart, LoopStep, Boot, PollSame, PollNewer, Recheck,
        PollFails, Wake, ScanStep, FetchPage, ParseEffect, NextPage, LedgerDone, Advance,
        RateLimited, Retry, FetchFails, vars
<1> QED BY <1>1, <1>2, TypeCorrect, PTL DEF Spec

\* Where a step of the loop leads, and that nothing else moves it but a death of the process.
LEMMA LoopMoves ==
  ASSUME [Next]_vars, loop # "down", loop' # "down"
  PROVE  /\ loop' = loop \/ LoopStep
         /\ LoopStep =>
               \/ loop = "boot" /\ loop' = "poll"
               \/ loop = "poll" /\ loop' \in {"recheck", "sleep"}
               \/ loop = "recheck" /\ loop' = "sleep"
               \/ loop = "sleep" /\ loop' = "poll"
<1>1. loop' = loop \/ LoopStep
  BY DEF Next, Environment, LedgerCloses, Crash, Restart, ScanStep, FetchPage, ParseEffect,
         NextPage, LedgerDone, Advance, RateLimited, Retry, FetchFails, vars
<1>2. ASSUME LoopStep
      PROVE  \/ loop = "boot" /\ loop' = "poll"
             \/ loop = "poll" /\ loop' \in {"recheck", "sleep"}
             \/ loop = "recheck" /\ loop' = "sleep"
             \/ loop = "sleep" /\ loop' = "poll"
  BY <1>2 DEF LoopStep, Boot, PollSame, PollNewer, Recheck, PollFails, Wake
<1> QED BY <1>1, <1>2

\* Only a poll takes the last free slot.
LEMMA PollTakesSlot ==
  ASSUME TypeOK, [Next]_vars, AnyIdle, ~AnyIdle'
  PROVE  loop = "poll"
<1>1. PICK s \in Scan : scan[s].pc = "idle"
  BY DEF AnyIdle
<1>2. scan'[s].pc # "idle"
  BY DEF AnyIdle
<1>3. ASSUME NEW t \in Scan, ScanStep(t) PROVE scan'[s] = scan[s]
  <2>1. scan[t].pc # "idle"
    BY <1>3 DEF ScanStep, FetchPage, ParseEffect, NextPage, LedgerDone, Advance, RateLimited,
                Retry, FetchFails
  <2>2. t # s
    BY <1>1, <2>1
  <2> QED
    BY <1>3, <2>2 DEF TypeOK, ScanStep, FetchPage, ParseEffect, NextPage, LedgerDone, Advance,
                      RateLimited, Retry, FetchFails
<1>4. CASE Environment
  <2>1. scan' = scan \/ scan' = [t \in Scan |-> Idle]
    BY <1>4 DEF Environment, LedgerCloses, Crash, Restart
  <2> QED BY <1>1, <1>2, <2>1 DEF Idle
<1>5. CASE LoopStep
  BY <1>1, <1>2, <1>5 DEF LoopStep, Boot, PollSame, PollNewer, Recheck, PollFails, Wake
<1> QED BY <1>1, <1>2, <1>3, <1>4, <1>5 DEF Next, vars

\* A ledger that closed stays closed, and a poll that sees the head notices it.
LEMMA HeadAdvances ==
  ASSUME TypeOK, NEW l \in 1..MaxLedger, head >= l, [Next]_vars
  PROVE  /\ head' >= l
         /\ \A s \in Scan : PollNewer(head, s) => last' >= l
<1>1. head \in Int /\ l \in Int
  BY ScannerAssumption DEF TypeOK, Ledger
<1>2. head' = head \/ head' = head + 1
  BY DEF Next, Environment, LedgerCloses, Crash, Restart, LoopStep, Boot, PollSame, PollNewer,
         Recheck, PollFails, Wake, ScanStep, FetchPage, ParseEffect, NextPage, LedgerDone, Advance,
         RateLimited, Retry, FetchFails, vars
<1>3. \A s \in Scan : PollNewer(head, s) => last' = head
  BY DEF PollNewer
<1> QED BY <1>1, <1>2, <1>3

LEMMA LedgerIsNoticed ==
  ASSUME NEW l \in 1..MaxLedger
  PROVE  Spec /\ LoopTurns /\ HeadIsSeen /\ SlotsFree
            => ((head >= l) ~> (last >= l \/ crashes > 0))
<1> DEFINE at(x) == loop = x
           closed == head >= l
           noticed == last >= l \/ crashes > 0
           new == head > last
           seen == \E s \in Scan : PollNewer(head, s)
<1>1. TypeOK => at("boot") \/ at("poll") \/ at("recheck") \/ at("sleep") \/ at("down")
  BY DEF TypeOK
<1>2. DownIsCrash /\ ~noticed => ~at("down")
  BY DEF DownIsCrash
<1>3. [Next]_vars /\ at("boot") => at("boot")' \/ at("poll")' \/ at("down")'
  BY LoopMoves
<1>4. [Next]_vars /\ at("recheck") => at("recheck")' \/ at("sleep")' \/ at("down")'
  BY LoopMoves
<1>5. [Next]_vars /\ at("sleep") => at("sleep")' \/ at("poll")' \/ at("down")'
  BY LoopMoves
<1>6. <<LoopStep>>_vars /\ [Next]_vars /\ at("boot") => at("poll")' \/ at("down")'
  BY LoopMoves
<1>7. <<LoopStep>>_vars /\ [Next]_vars /\ at("recheck") => at("sleep")' \/ at("down")'
  BY LoopMoves
<1>8. <<LoopStep>>_vars /\ [Next]_vars /\ at("sleep") => at("poll")' \/ at("down")'
  BY LoopMoves
<1>9. TypeOK /\ [Next]_vars /\ AnyIdle => AnyIdle' \/ at("poll")
  BY PollTakesSlot
<1>10. TypeOK /\ [Next]_vars /\ closed => closed'
  BY HeadAdvances
<1>11. TypeOK /\ closed /\ ~noticed => new
  BY ScannerAssumption DEF TypeOK, Ledger
<1>12. TypeOK /\ [Next]_vars /\ closed /\ <<seen>>_vars => noticed'
  BY HeadAdvances
<1>13. /\ (loop # "down") <=> ~at("down")
       /\ (loop = "poll") <=> at("poll")
       /\ (head >= l) <=> closed
       /\ (last >= l \/ crashes > 0) <=> noticed
       /\ (head > last) <=> new
  OBVIOUS
<1>14. HeadIsSeen => []([]<>(at("poll") /\ new /\ AnyIdle) => <><<seen>>_vars)
  BY DEF HeadIsSeen
<1> HIDE DEF at, closed, noticed, new, seen
<1> QED
  BY <1>1, <1>2, <1>3, <1>4, <1>5, <1>6, <1>7, <1>8, <1>9, <1>10, <1>11, <1>12, <1>13, <1>14,
     TypeCorrect, DownHolds, PTL
  DEF Spec, LoopTurns, SlotsFree

-----------------------------------------------------------------------------
(* Every ledger is settled.  What a scan has left to do is measured by four  *)
(* natural numbers, of which an earlier one counts for more than all later   *)
(* ones: the ledgers after the one it is at, the 429s this one may still be  *)
(* answered with, the effects this attempt has not parsed, and where it is   *)
(* on its way from page to page.                                             *)

LedgersLeft(s) == scan[s].end - scan[s].ledger

RateLimitsLeft(s) == MaxRateLimits - rateLimits[scan[s].ledger]

EffectsLeft(s) ==
    EffectsIn[scan[s].ledger] - IF scan[s].pc = "backoff" THEN 0 ELSE scan[s].pos

StepsLeft(s) ==
    CASE scan[s].pc = "backoff" -> 5
      [] scan[s].pc = "parse" /\ scan[s].left = 0 /\ scan[s].full -> 4
      [] scan[s].pc = "fetch" -> 3
      [] scan[s].pc = "parse" /\ ~(scan[s].left = 0 /\ scan[s].full) -> 2
      [] OTHER -> 1

Level(s) ==
    UNCHANGED <<LedgersLeft(s), RateLimitsLeft(s), EffectsLeft(s), StepsLeft(s)>>

\* The first of the four that changes goes down.
Lower(s) ==
    \/ LedgersLeft(s)' < LedgersLeft(s)
    \/ /\ LedgersLeft(s)' = LedgersLeft(s)
       /\ RateLimitsLeft(s)' < RateLimitsLeft(s)
    \/ /\ UNCHANGED <<LedgersLeft(s), RateLimitsLeft(s)>>
       /\ EffectsLeft(s)' < EffectsLeft(s)
    \/ /\ UNCHANGED <<LedgersLeft(s), RateLimitsLeft(s), EffectsLeft(s)>>
       /\ StepsLeft(s)' < StepsLeft(s)

LeftTyped ==
    \A s \in Scan : scan[s].pc # "idle" =>
        /\ LedgersLeft(s) \in Nat
        /\ RateLimitsLeft(s) \in Nat
        /\ EffectsLeft(s) \in Nat
        /\ StepsLeft(s) \in Nat

LEMMA LeftIsNat == TypeInv => LeftTyped
<1> SUFFICES ASSUME TypeInv, NEW s \in Scan, scan[s].pc # "idle"
             PROVE  /\ LedgersLeft(s) \in Nat
                    /\ RateLimitsLeft(s) \in Nat
                    /\ EffectsLeft(s) \in Nat
                    /\ StepsLeft(s) \in Nat
  BY DEF LeftTyped
<1>1. scan[s] \in ScanCall
  BY DEF TypeInv, TypeOK
<1>2. /\ scan[s].ledger \in Ledger /\ scan[s].end \in Ledger
      /\ scan[s].pos \in Nat /\ scan[s].left \in Nat
  BY <1>1, ScannerAssumption DEF ScanCall
<1>3. LedgersLeft(s) \in Nat
  BY <1>2, ScannerAssumption DEF TypeInv, ScanShape, Ledger, LedgersLeft
<1>4. RateLimitsLeft(s) \in Nat
  BY <1>2, ScannerAssumption DEF TypeInv, TypeOK, RateLimitsLeft
<1>5. EffectsLeft(s) \in Nat
  <2>1. EffectsIn[scan[s].ledger] \in Nat /\ scan[s].pos <= EffectsIn[scan[s].ledger]
    BY <1>2, ScannerAssumption DEF TypeInv, ScanShape
  <2> QED BY <1>2, <2>1 DEF EffectsLeft
<1> QED BY <1>3, <1>4, <1>5 DEF StepsLeft

\* Each step of a scan that does not end it brings it nearer to its end.
LEMMA ScanStepLowers ==
  ASSUME TypeInv, NEW s \in Scan, ScanStep(s), scan'[s].pc # "idle"
  PROVE  Lower(s)
<1>1. scan[s] \in ScanCall
  BY DEF TypeInv, TypeOK
<1>2. /\ scan[s].ledger \in Ledger /\ scan[s].end \in Ledger
      /\ scan[s].pos \in Nat /\ scan[s].left \in Nat
      /\ EffectsIn[scan[s].ledger] \in Nat
      /\ rateLimits[scan[s].ledger] \in Nat
  BY <1>1, ScannerAssumption DEF ScanCall, TypeInv, TypeOK
<1>3. MaxRateLimits \in Nat /\ PageSize \in Nat \ {0} /\ Ledger \subseteq Nat
  BY ScannerAssumption DEF Ledger
<1>4. scan[s].pos + scan[s].left <= EffectsIn[scan[s].ledger]
  BY DEF TypeInv, ScanShape
<1>5. CASE FetchPage(s)
  <2>1. /\ scan'[s].pc = "parse" /\ scan'[s].ledger = scan[s].ledger
        /\ scan'[s].end = scan[s].end /\ scan'[s].pos = scan[s].pos
        /\ scan[s].pc = "fetch" /\ rateLimits' = rateLimits
    BY <1>1, <1>5 DEF FetchPage, TypeInv, TypeOK, ScanCall
  <2>2. scan'[s].full => scan'[s].left # 0
    BY <1>1, <1>2, <1>3, <1>5 DEF FetchPage, TypeInv, TypeOK, ScanCall
  <2>3. StepsLeft(s)' = 2 /\ StepsLeft(s) = 3
    BY <2>1, <2>2 DEF StepsLeft
  <2> QED BY <2>1, <2>3 DEF Lower, LedgersLeft, RateLimitsLeft, EffectsLeft
<1>6. CASE ParseEffect(s)
  <2>1. /\ scan'[s].pc = "parse" /\ scan'[s].ledger = scan[s].ledger
        /\ scan'[s].end = scan[s].end /\ scan'[s].pos = scan[s].pos + 1
        /\ scan[s].pc = "parse" /\ rateLimits' = rateLimits
    BY <1>1, <1>6 DEF ParseEffect, TypeInv, TypeOK, ScanCall
  <2>2. EffectsLeft(s)' < EffectsLeft(s)
    BY <1>2, <2>1 DEF EffectsLeft
  <2> QED BY <2>1, <2>2 DEF Lower, LedgersLeft, RateLimitsLeft
<1>7. CASE NextPage(s)
  <2>1. /\ scan'[s].pc = "fetch" /\ scan'[s].ledger = scan[s].ledger
        /\ scan'[s].end = scan[s].end /\ scan'[s].pos = scan[s].pos
        /\ scan[s].pc = "parse" /\ scan[s].left = 0 /\ scan[s].full /\ rateLimits' = rateLimits
    BY <1>1, <1>7 DEF NextPage, TypeInv, TypeOK, ScanCall
  <2>2. StepsLeft(s)' = 3 /\ StepsLeft(s) = 4
    BY <2>1 DEF StepsLeft
  <2> QED BY <2>1, <2>2 DEF Lower, LedgersLeft, RateLimitsLeft, EffectsLeft
<1>8. CASE LedgerDone(s)
  <2>1. /\ scan'[s].pc = "settled" /\ scan'[s].ledger = scan[s].ledger
        /\ scan'[s].end = scan[s].end /\ scan'[s].pos = scan[s].pos
        /\ scan[s].pc = "parse" /\ ~scan[s].full /\ rateLimits' = rateLimits
    BY <1>1, <1>8 DEF LedgerDone, TypeInv, TypeOK, ScanCall
  <2>2. StepsLeft(s)' = 1 /\ StepsLeft(s) = 2
    BY <2>1 DEF StepsLeft
  <2> QED BY <2>1, <2>2 DEF Lower, LedgersLeft, RateLimitsLeft, EffectsLeft
<1>9. CASE Advance(s) \/ FetchFails(s)
  <2>1. scan'[s] = NextLedgerOf(scan[s])
    BY <1>9 DEF Advance, FetchFails, TypeInv, TypeOK
  <2>2. scan[s].ledger < scan[s].end
    BY <2>1 DEF NextLedgerOf, Idle
  <2>3. scan'[s].ledger = scan[s].ledger + 1 /\ scan'[s].end = scan[s].end
    BY <2>1, <2>2 DEF NextLedgerOf, StartOf
  <2>4. scan[s].ledger \in Nat /\ scan[s].end \in Nat
    BY <1>2, <1>3
  <2>5. LedgersLeft(s)' < LedgersLeft(s)
    BY <2>3, <2>4 DEF LedgersLeft
  <2> QED BY <2>5 DEF Lower
<1>10. CASE RateLimited(s)
  <2>1. /\ scan'[s].ledger = scan[s].ledger /\ scan'[s].end = scan[s].end
        /\ rateLimits'[scan[s].ledger] = rateLimits[scan[s].ledger] + 1
    BY <1>1, <1>2, <1>10 DEF RateLimited, TypeInv, TypeOK, ScanCall
  <2> QED BY <1>2, <1>3, <2>1 DEF Lower, LedgersLeft, RateLimitsLeft
<1>11. CASE Retry(s)
  <2>1. /\ scan'[s] = StartOf(scan[s].ledger, scan[s].end)
        /\ scan[s].pc = "backoff" /\ rateLimits' = rateLimits
    BY <1>11 DEF Retry, TypeInv, TypeOK
  <2>2. StepsLeft(s)' = 3 /\ StepsLeft(s) = 5 /\ EffectsLeft(s)' = EffectsLeft(s)
    BY <1>2, <2>1 DEF StepsLeft, EffectsLeft, StartOf
  <2> QED BY <2>1, <2>2 DEF Lower, LedgersLeft, RateLimitsLeft, StartOf
<1> QED BY <1>5, <1>6, <1>7, <1>8, <1>9, <1>10, <1>11 DEF ScanStep

\* No other step takes it further from its end.
LEMMA OthersDoNotRaise ==
  ASSUME TypeInv, [Next]_vars, NEW s \in Scan,
         scan[s].pc # "idle", scan'[s].pc # "idle", ~ScanStep(s)
  PROVE  scan'[s] = scan[s] /\ (Level(s) \/ Lower(s))
<1>1. scan'[s] = scan[s]
  <2>1. ASSUME NEW t \in Scan, ScanStep(t) PROVE scan'[s] = scan[s]
    <3>1. t # s
      BY <2>1
    <3> QED
      BY <2>1, <3>1 DEF TypeInv, TypeOK, ScanStep, FetchPage, ParseEffect, NextPage, LedgerDone,
                        Advance, RateLimited, Retry, FetchFails
  <2>2. ASSUME NEW cur \in Reported, NEW t \in Scan, PollNewer(cur, t) PROVE scan'[s] = scan[s]
    BY <2>2 DEF PollNewer, TypeInv, TypeOK
  <2>3. ASSUME Crash PROVE FALSE
    BY <2>3 DEF Crash, Idle
  <2> QED
    BY <2>1, <2>2, <2>3 DEF Next, Environment, LedgerCloses, Restart, LoopStep, Boot, PollSame,
                            Recheck, PollFails, Wake, vars
<1>2. /\ LedgersLeft(s)' = LedgersLeft(s) /\ EffectsLeft(s)' = EffectsLeft(s)
      /\ StepsLeft(s)' = StepsLeft(s)
  BY <1>1 DEF LedgersLeft, EffectsLeft, StepsLeft
<1>3. RateLimitsLeft(s)' = RateLimitsLeft(s) \/ RateLimitsLeft(s)' < RateLimitsLeft(s)
  <2>1. scan[s].ledger \in Ledger /\ rateLimits[scan[s].ledger] \in Nat /\ MaxRateLimits \in Nat
    BY ScannerAssumption DEF TypeInv, TypeOK, ScanCall
  <2>2. ASSUME NEW t \in Scan, RateLimited(t)
        PROVE  rateLimits'[scan[s].ledger] \in
                  {rateLimits[scan[s].ledger], rateLimits[scan[s].ledger] + 1}
    BY <2>1, <2>2 DEF RateLimited, TypeInv, TypeOK
  <2>3. CASE rateLimits' = rateLimits
    BY <1>1, <2>3 DEF RateLimitsLeft
  <2>4. rateLimits' = rateLimits \/ \E t \in Scan : RateLimited(t)
    BY DEF Next, Environment, LedgerCloses, Crash, Restart, LoopStep, Boot, PollSame, PollNewer,
           Recheck, PollFails, Wake, ScanStep, FetchPage, ParseEffect, NextPage, LedgerDone,
           Advance, Retry, FetchFails, vars
  <2> QED BY <1>1, <2>1, <2>2, <2>3, <2>4 DEF RateLimitsLeft
<1> QED BY <1>1, <1>2, <1>3 DEF Level, Lower

\* scanLedgerRange never does what brings it no further: until a scan ends, each of its
\* steps lowers what it has left to do, and no step of the loop, of another scan or of the
\* network raises it.
THEOREM ScansProgress ==
  Spec => [][\A s \in Scan : (scan[s].pc # "idle" /\ scan'[s].pc # "idle") =>
                /\ Level(s) \/ Lower(s)
                /\ ScanStep(s) => Lower(s)]_vars
<1>1. ASSUME TypeInv, [Next]_vars, NEW s \in Scan, scan[s].pc # "idle", scan'[s].pc # "idle"
      PROVE  /\ Level(s) \/ Lower(s)
             /\ ScanStep(s) => Lower(s)
  BY <1>1, ScanStepLowers, OthersDoNotRaise
<1>2. TypeInv /\ [Next]_vars
        => [\A s \in Scan : (scan[s].pc # "idle" /\ scan'[s].pc # "idle") =>
                /\ Level(s) \/ Lower(s)
                /\ ScanStep(s) => Lower(s)]_vars
  BY <1>1
<1> QED BY <1>2, TypeInvHolds, PTL DEF Spec

-----------------------------------------------------------------------------
(* From there to liveness: scans end, so slots are free and ledgers settled. *)
(* ENABLED is spelled out: a scan that is not idle can take a step.          *)

\* Weak fairness of every ScanStep.
ScansMove == \A s \in Scan : []([](scan[s].pc # "idle") => <><<ScanStep(s)>>_vars)

\* True of every behaviour, see Descent.
ScansDescend ==
    \A s \in Scan :
        /\ Rests(LedgersLeft(s))
        /\ Rests(RateLimitsLeft(s))
        /\ Rests(EffectsLeft(s))
        /\ Rests(StepsLeft(s))

LeftInv == TypeInv /\ PartitionInv /\ LeftTyped

LEMMA LeftInvHolds == Spec => []LeftInv
BY TypeInvHolds, PartitionInvHolds, LeftIsNat, PTL DEF LeftInv

LEMMA ScanEnds ==
  ASSUME NEW s \in Scan
  PROVE  Spec /\ ScansMove /\ ScansDescend => []<>(scan[s].pc = "idle")
<1> DEFINE a == LedgersLeft(s)
           b == RateLimitsLeft(s)
           c == EffectsLeft(s)
           d == StepsLeft(s)
           busy == scan[s].pc # "idle"
           step == ScanStep(s)
<1>1. LeftInv /\ busy => a \in Nat /\ b \in Nat /\ c \in Nat /\ d \in Nat
  BY DEF LeftInv, LeftTyped
<1>2. LeftInv /\ LeftInv' /\ [Next]_vars /\ busy /\ busy' =>
         /\ a' <= a
         /\ a' = a => b' <= b
         /\ a' = a /\ b' = b => c' <= c
         /\ a' = a /\ b' = b /\ c' = c => d' <= d
         /\ a' = a /\ b' = b /\ c' = c /\ d' = d => ~step
  <2> SUFFICES ASSUME LeftInv, LeftInv', [Next]_vars, busy, busy'
               PROVE  /\ a' <= a
                      /\ a' = a => b' <= b
                      /\ a' = a /\ b' = b => c' <= c
                      /\ a' = a /\ b' = b /\ c' = c => d' <= d
                      /\ a' = a /\ b' = b /\ c' = c /\ d' = d => ~step
    OBVIOUS
  <2>1. a \in Nat /\ b \in Nat /\ c \in Nat /\ d \in Nat
    BY <1>1
  <2>2. a' \in Nat /\ b' \in Nat /\ c' \in Nat /\ d' \in Nat
    BY DEF LeftInv, LeftTyped
  <2>3. (Level(s) \/ Lower(s)) /\ (step => Lower(s))
    BY ScanStepLowers, OthersDoNotRaise DEF LeftInv
  <2> HIDE DEF a, b, c, d
  <2>4. \/ a' = a /\ b' = b /\ c' = c /\ d' = d /\ ~step
        \/ a' < a
        \/ a' = a /\ b' < b
        \/ a' = a /\ b' = b /\ c' < c
        \/ a' = a /\ b' = b /\ c' = c /\ d' < d
    BY <2>3 DEF Level, Lower, a, b, c, d
  <2> QED BY <2>1, <2>2, <2>4
<1>3. ScansMove => []([]busy => <><<step>>_vars)
  BY DEF ScansMove
<1>4. ScansDescend =>
         /\ []([](a \in Nat) /\ [][a' <= a]_a => <>[][FALSE]_a)
         /\ []([](b \in Nat) /\ [][b' <= b]_b => <>[][FALSE]_b)
         /\ []([](c \in Nat) /\ [][c' <= c]_c => <>[][FALSE]_c)
         /\ []([](d \in Nat) /\ [][d' <= d]_d => <>[][FALSE]_d)
  BY DEF ScansDescend, Rests
<1>5. scan[s].pc = "idle" <=> ~busy
  OBVIOUS
<1> HIDE DEF a, b, c, d, busy, step
<1>6. LeftInv /\ LeftInv' /\ [Next]_vars /\ busy /\ busy' => [a' <= a]_a
  BY <1>2
<1>7. LeftInv /\ LeftInv' /\ [Next]_vars /\ busy /\ busy' /\ [FALSE]_a => [b' <= b]_b
  BY <1>2
<1>8. LeftInv /\ LeftInv' /\ [Next]_vars /\ busy /\ busy' /\ [FALSE]_a /\ [FALSE]_b => [c' <= c]_c
  BY <1>2
<1>9. LeftInv /\ LeftInv' /\ [Next]_vars /\ busy /\ busy' /\ [FALSE]_a /\ [FALSE]_b /\ [FALSE]_c
         => [d' <= d]_d
  BY <1>2
<1>10. LeftInv /\ LeftInv' /\ [Next]_vars /\ busy /\ busy'
         /\ [FALSE]_a /\ [FALSE]_b /\ [FALSE]_c /\ [FALSE]_d => ~<<step>>_vars
  BY <1>2
<1> QED
  BY <1>1, <1>3, <1>4, <1>5, <1>6, <1>7, <1>8, <1>9, <1>10, LeftInvHolds, PTL DEF Spec

\* Every call of scanLedgerRange returns, through any pages, 429s and failures, or dies
\* with the process, if Horizon and the timers answer it.
THEOREM EveryScanEnds ==
  Spec /\ ScansMove /\ ScansDescend => \A s \in Scan : []<>(scan[s].pc = "idle")
BY ScanEnds

LEMMA SlotsAreFree == Spec /\ ScansMove /\ ScansDescend => []<>AnyIdle
<1>1. PICK s \in Scan : TRUE
  BY ScannerAssumption
<1>2. scan[s].pc = "idle" => AnyIdle
  BY DEF AnyIdle
<1> QED BY <1>2, ScanEnds, PTL

\* startLedgerLoop catches up: however its polls fail and lag, a ledger that closed is
\* noticed in the end, or the process dies, if the loop keeps turning and Horizon answers
\* with the head again and again.
THEOREM LoopCatchesUp ==
  Spec /\ LoopTurns /\ HeadIsSeen /\ ScansMove /\ ScansDescend => CatchesUp
BY LedgerIsNoticed, SlotsAreFree DEF CatchesUp, SlotsFree

Open(l) == loop # "down" /\ outcome[l] = "pending"

\* A ledger to settle stays with its scan until it is settled.
LEMMA RemainsOpen ==
  ASSUME TypeInv, [Next]_vars, NEW l \in Ledger, NEW s \in Scan, l \in Remaining(s), Open(l)'
  PROVE  l \in Remaining(s)'
<1>1. scan[s].pc # "idle" /\ Up
  BY DEF Remaining, TypeInv, NoScanWhenDown
<1>2. CASE scan'[s] = scan[s]
  BY <1>2 DEF Remaining, FirstOpen
<1>3. CASE Environment
  BY <1>2, <1>3 DEF Environment, LedgerCloses, Crash, Restart, Open
<1>4. CASE LoopStep
  <2>1. ASSUME NEW cur \in Reported, NEW t \in Scan, PollNewer(cur, t) PROVE scan'[s] = scan[s]
    BY <1>1, <2>1 DEF PollNewer, TypeInv, TypeOK
  <2> QED
    BY <1>1, <1>2, <1>4, <2>1 DEF LoopStep, Boot, PollSame, Recheck, PollFails, Wake
<1>5. ASSUME NEW t \in Scan, ScanStep(t) PROVE l \in Remaining(s)'
  <2>1. CASE \/ FetchPage(t) \/ ParseEffect(t) \/ NextPage(t) \/ Advance(t)
             \/ RateLimited(t) \/ Retry(t)
    BY <2>1, RemainingKept
  <2>2. CASE LedgerDone(t) \/ FetchFails(t)
    <3>1. /\ Remaining(t)' = Remaining(t) \ {scan[t].ledger}
          /\ t # s => Remaining(s)' = Remaining(s)
          /\ outcome' \in { [outcome EXCEPT ![scan[t].ledger] = how] : how \in {"scanned", "dropped"} }
      BY <2>2, RemainingSettled
    <3>2. l # scan[t].ledger
      BY <3>1 DEF Open, TypeInv, TypeOK
    <3> QED BY <3>1, <3>2
  <2> QED BY <1>5, <2>1, <2>2 DEF ScanStep
<1> QED BY <1>2, <1>3, <1>4, <1>5 DEF Next, vars

\* A scan does not end before the ledgers that remain for it are settled.
LEMMA RemainingIsSettled ==
  ASSUME NEW l \in Ledger, NEW s \in Scan
  PROVE  Spec /\ ScansMove /\ ScansDescend => ((l \in Remaining(s)) ~> ~Open(l))
<1>1. TypeInv /\ [Next]_vars /\ l \in Remaining(s) /\ Open(l)' => (l \in Remaining(s))'
  BY RemainsOpen
<1>2. l \in Remaining(s) => ~(scan[s].pc = "idle")
  BY DEF Remaining
<1> QED BY <1>1, <1>2, ScanEnds, TypeInvHolds, PTL DEF Spec

LEMMA LedgerIsSettled ==
  ASSUME NEW l \in 1..MaxLedger
  PROVE  Spec /\ ScansMove /\ ScansDescend
            => ((Up /\ base < l /\ l <= last) ~> (loop = "down" \/ outcome[l] # "pending"))
<1> DEFINE mine(s) == l \in Remaining(s)
           over == ~Open(l)
           hypothesis == Spec /\ ScansMove /\ ScansDescend
<1>0. l \in Ledger
  BY ScannerAssumption DEF Ledger
<1>1. ASSUME NEW s \in Scan PROVE hypothesis => (mine(s) ~> over)
  BY <1>0, RemainingIsSettled
<1>2. LeftInv /\ Up /\ base < l /\ l <= last => over \/ \E s \in Scan : mine(s)
  BY <1>0 DEF LeftInv, PartitionInv, LedgersPartitioned, OpenHasOwner, InWindow, Open
<1>3. over <=> (loop = "down" \/ outcome[l] # "pending")
  BY DEF Open
<1>4. hypothesis => Spec
  OBVIOUS
<1> HIDE DEF mine, over, hypothesis
<1>5. (\A s \in Scan : [](mine(s) => <>over)) => [](\A s \in Scan : (mine(s) => <>over))
  OBVIOUS
<1>6. (\A s \in Scan : (mine(s) => <>over)) => ((\E s \in Scan : mine(s)) => <>over)
  OBVIOUS
<1>7. ASSUME NEW s \in Scan PROVE (mine(s) ~> over) => [](mine(s) => <>over)
  BY PTL
<1>8. hypothesis => \A s \in Scan : [](mine(s) => <>over)
  BY <1>1, <1>7
<1>9. hypothesis => ((Up /\ base < l /\ l <= last) ~> (loop = "down" \/ outcome[l] # "pending"))
  BY <1>2, <1>3, <1>4, <1>5, <1>6, <1>8, LeftInvHolds, PTL
<1> QED BY <1>9 DEF hypothesis

\* No ledger is waited for without end: one that the loop noticed is settled in the end,
\* through any pages, 429s and failures, or the process dies, if its scan keeps moving.
THEOREM LedgersAreSettled ==
  Spec /\ ScansMove /\ ScansDescend => EveryLedgerSettled
BY LedgerIsSettled DEF EveryLedgerSettled

=============================================================================
