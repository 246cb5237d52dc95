--------------------------- MODULE StellarScanner ---------------------------
(***************************************************************************)
(* The ledger loop of StellarService (src/stellar/stellar.service.ts).     *)
(*                                                                         *)
(* startLedgerLoop polls Horizon for the latest ledger and, for every gap  *)
(* it sees, STARTS scanLedgerRange without awaiting it, so several range   *)
(* scans run at once, interleaved at their awaits.  A scan fetches the     *)
(* effects of each ledger page by page and parses them one by one.  A 429  *)
(* makes it start the ledger over; any other failure makes it move on to   *)
(* the next ledger.  Nothing is persisted: a restarted process begins at   *)
(* whatever ledger Horizon reports then.                                   *)
(*                                                                         *)
(* A step of the model is the code between two awaits.                     *)
(***************************************************************************)
EXTENDS Integers

CONSTANTS Scan,          \* slots for scanLedgerRange calls in flight (bounds how many)
          MaxLedger,     \* bound: the last ledger that closes
          MaxEffects,    \* bound: the most effects a ledger holds
          EffectsIn,     \* how many effects each ledger holds
          PageSize,      \* records Horizon returns per page, .limit(200) in the code
          Lag,           \* how far behind the head a Horizon answer may be
          MaxRateLimits, \* bound: 429 answers per ledger
          MaxCrashes     \* bound: times the process dies

Ledger == 0..MaxLedger

ASSUME ScannerAssumption ==
    /\ Scan # {}
    /\ MaxLedger \in Nat
    /\ MaxEffects \in Nat
    /\ EffectsIn \in [Ledger -> 0..MaxEffects]
    /\ PageSize \in Nat \ {0}
    /\ Lag \in Nat
    /\ MaxRateLimits \in Nat
    /\ MaxCrashes \in Nat

\* An effect is identified by its ledger and its position in it.
Effect == {e \in Ledger \X (1..MaxEffects) : e[2] <= EffectsIn[e[1]]}

VARIABLES head,        \* the ledger Horizon closed last
          loop,        \* where startLedgerLoop is
          base,        \* the ledger this process started from
          last,        \* lastLedger
          scan,        \* the scanLedgerRange calls
          outcome,     \* history: what this process did with each ledger
          parsed,      \* history: how often each effect reached parseStellarEffect
          rateLimits,  \* history: 429 answers while fetching each ledger
          crashes      \* history: how often the process died

vars == <<head, loop, base, last, scan, outcome, parsed, rateLimits, crashes>>

-----------------------------------------------------------------------------
(* A scan: the ledger it is at and the last of its range; within the       *)
(* ledger, how many effects this attempt parsed (pos), how many of the     *)
(* page in hand are left, and whether that page was a full one.            *)

Idle == [pc |-> "idle", ledger |-> 0, end |-> 0, pos |-> 0, left |-> 0, full |-> FALSE]

\* fetchLedgerEffects(l) has just asked for the first page of ledger l.
StartOf(l, end) ==
    [pc |-> "fetch", ledger |-> l, end |-> end, pos |-> 0, left |-> 0, full |-> FALSE]

\* Mutant: the loop's test is one off and runs past the end of the range.
NextLedgerOf_PastEnd(c) == IF c.ledger <= c.end THEN StartOf(c.ledger + 1, c.end) ELSE Idle

\* The for loop's increment and test: the next ledger of the range, or the end.
NextLedgerOf(c) == IF c.ledger < c.end THEN StartOf(c.ledger + 1, c.end) ELSE Idle

\* What getCurrentLedger may return: Horizon answers from a replica that may lag.
Reported == {n \in Ledger : head - Lag <= n /\ n <= head}

Up == loop \in {"poll", "recheck", "sleep"}

Init ==
    /\ head = 0
    /\ loop = "boot"
    /\ base = 0
    /\ last = 0
    /\ scan = [s \in Scan |-> Idle]
    /\ outcome = [l \in Ledger |-> "pending"]
    /\ parsed = [e \in Effect |-> 0]
    /\ rateLimits = [l \in Ledger |-> 0]
    /\ crashes = 0

-----------------------------------------------------------------------------
(* The environment: the network closes a ledger, the process dies or is    *)
(* started again.  A first getCurrentLedger that fails is outside any try, *)
(* in a promise nobody awaits: it kills the process, so it is a Crash too. *)

LedgerCloses ==
    /\ head < MaxLedger
    /\ head' = head + 1
    /\ UNCHANGED <<loop, base, last, scan, outcome, parsed, rateLimits, crashes>>

Crash ==
    /\ loop # "down"
    /\ crashes < MaxCrashes
    /\ crashes' = crashes + 1
    /\ loop' = "down"
    /\ scan' = [s \in Scan |-> Idle]
    /\ UNCHANGED <<head, base, last, outcome, parsed, rateLimits>>

Restart ==
    /\ loop = "down"
    /\ loop' = "boot"
    /\ UNCHANGED <<head, base, last, scan, outcome, parsed, rateLimits, crashes>>

-----------------------------------------------------------------------------
(* startLedgerLoop *)

\* The initial ledger is read once, before the loop.
Boot(cur) ==
    /\ loop = "boot"
    /\ loop' = "poll"
    /\ base' = cur
    /\ last' = cur
    /\ outcome' = [l \in Ledger |-> "pending"]
    /\ UNCHANGED <<head, scan, parsed, rateLimits, crashes>>

\* Mutant: the new range begins at lastLedger, not one after it.
PollNewer_Overlaps(cur, s) ==
    /\ loop = "poll"
    /\ cur > last
    /\ scan[s].pc = "idle"
    /\ scan' = [scan EXCEPT ![s] = StartOf(last, cur)]
    /\ last' = cur
    /\ loop' = "sleep"
    /\ UNCHANGED <<head, base, outcome, parsed, rateLimits, crashes>>

\* A newer ledger: a scan of the gap is started, not awaited.
PollNewer(cur, s) ==
    /\ loop = "poll"
    /\ cur > last
    /\ scan[s].pc = "idle"
    /\ scan' = [scan EXCEPT ![s] = StartOf(last + 1, cur)]
    /\ last' = cur
    /\ loop' = "sleep"
    /\ UNCHANGED <<head, base, outcome, parsed, rateLimits, crashes>>

\* No newer ledger (or an older one, from a replica that lags).
PollSame(cur) ==
    /\ loop = "poll"
    /\ cur <= last
    /\ loop' = "recheck"
    /\ UNCHANGED <<head, base, last, scan, outcome, parsed, rateLimits, crashes>>

\* The second poll of the else branch only decides how long to sleep.
Recheck ==
    /\ loop = "recheck"
    /\ loop' = "sleep"
    /\ UNCHANGED <<head, base, last, scan, outcome, parsed, rateLimits, crashes>>

\* Mutant: a failed poll escapes the loop, an unhandled rejection.
PollFails_Uncaught ==
    /\ loop \in {"poll", "recheck"}
    /\ loop' = "down"
    /\ UNCHANGED <<head, base, last, scan, outcome, parsed, rateLimits, crashes>>

\* Either poll fails: the catch logs and sleeps, 429 or not.
PollFails ==
    /\ loop \in {"poll", "recheck"}
    /\ loop' = "sleep"
    /\ UNCHANGED <<head, base, last, scan, outcome, parsed, rateLimits, crashes>>

Wake ==
    /\ loop = "sleep"
    /\ loop' = "poll"
    /\ UNCHANGED <<head, base, last, scan, outcome, parsed, rateLimits, crashes>>

-----------------------------------------------------------------------------
(* scanLedgerRange and fetchLedgerEffects *)

\* A page arrives: the records after the ones already parsed, at most PageSize.
FetchPage(s) ==
    LET rest == EffectsIn[scan[s].ledger] - scan[s].pos
        size == IF rest < PageSize THEN rest ELSE PageSize
    IN  /\ scan[s].pc = "fetch"
        /\ scan' = [scan EXCEPT ![s].pc = "parse", ![s].left = size,
                                ![s].full = (size = PageSize)]
        /\ UNCHANGED <<head, loop, base, last, outcome, parsed, rateLimits, crashes>>

\* One record goes through parseStellarEffect, whose exceptions are caught.
ParseEffect(s) ==
    /\ scan[s].pc = "parse"
    /\ scan[s].left > 0
    /\ parsed' = [parsed EXCEPT ![<<scan[s].ledger, scan[s].pos + 1>>] = @ + 1]
    /\ scan' = [scan EXCEPT ![s].pos = @ + 1, ![s].left = @ - 1]
    /\ UNCHANGED <<head, loop, base, last, outcome, rateLimits, crashes>>

\* After a full page the next one is asked for.
NextPage(s) ==
    /\ scan[s].pc = "parse"
    /\ scan[s].left = 0
    /\ scan[s].full
    /\ scan' = [scan EXCEPT ![s].pc = "fetch"]
    /\ UNCHANGED <<head, loop, base, last, outcome, parsed, rateLimits, crashes>>

\* Mutant: only the first page of a ledger is read.
LedgerDone_FirstPage(s) ==
    /\ scan[s].pc = "parse"
    /\ scan[s].left = 0
    /\ outcome' = [outcome EXCEPT ![scan[s].ledger] = "scanned"]
    /\ scan' = [scan EXCEPT ![s].pc = "settled"]
    /\ UNCHANGED <<head, loop, base, last, parsed, rateLimits, crashes>>

\* A short page ends the ledger; the scan sleeps 200ms before the next.
LedgerDone(s) ==
    /\ scan[s].pc = "parse"
    /\ scan[s].left = 0
    /\ ~scan[s].full
    /\ outcome' = [outcome EXCEPT ![scan[s].ledger] = "scanned"]
    /\ scan' = [scan EXCEPT ![s].pc = "settled"]
    /\ UNCHANGED <<head, loop, base, last, parsed, rateLimits, crashes>>

Advance(s) ==
    /\ scan[s].pc = "settled"
    /\ scan' = [scan EXCEPT ![s] = NextLedgerOf(scan[s])]
    /\ UNCHANGED <<head, loop, base, last, outcome, parsed, rateLimits, crashes>>

\* Mutant: the 429 is logged as a failure of the ledger, which is then retried.
RateLimited_Settles(s) ==
    LET l == scan[s].ledger
    IN  /\ scan[s].pc = "fetch"
        /\ rateLimits[l] < MaxRateLimits
        /\ rateLimits' = [rateLimits EXCEPT ![l] = @ + 1]
        /\ outcome' = [outcome EXCEPT ![l] = "dropped"]
        /\ scan' = [scan EXCEPT ![s].pc = "backoff"]
        /\ UNCHANGED <<head, loop, base, last, parsed, crashes>>

\* Mutant: the 429 is thrown on and ends the whole range.
RateLimited_EndsScan(s) ==
    LET l == scan[s].ledger
    IN  /\ scan[s].pc = "fetch"
        /\ rateLimits[l] < MaxRateLimits
        /\ rateLimits' = [rateLimits EXCEPT ![l] = @ + 1]
        /\ scan' = [scan EXCEPT ![s] = Idle]
        /\ UNCHANGED <<head, loop, base, last, outcome, parsed, crashes>>

\* A page call is answered 429: sleep 5s, then the same ledger from its first page.
RateLimited(s) ==
    LET l == scan[s].ledger
    IN  /\ scan[s].pc = "fetch"
        /\ rateLimits[l] < MaxRateLimits
        /\ rateLimits' = [rateLimits EXCEPT ![l] = @ + 1]
        /\ scan' = [scan EXCEPT ![s].pc = "backoff"]
        /\ UNCHANGED <<head, loop, base, last, outcome, parsed, crashes>>

Retry(s) ==
    /\ scan[s].pc = "backoff"
    /\ scan' = [scan EXCEPT ![s] = StartOf(scan[s].ledger, scan[s].end)]
    /\ UNCHANGED <<head, loop, base, last, outcome, parsed, rateLimits, crashes>>

\* Mutant: every failure is retried from the first page, not only a 429.
FetchFails_Retries(s) ==
    /\ scan[s].pc = "fetch"
    /\ scan' = [scan EXCEPT ![s] = StartOf(scan[s].ledger, scan[s].end)]
    /\ UNCHANGED <<head, loop, base, last, outcome, parsed, rateLimits, crashes>>

\* Any other failure of a page call is logged and the ledger is left behind.
FetchFails(s) ==
    /\ scan[s].pc = "fetch"
    /\ outcome' = [outcome EXCEPT ![scan[s].ledger] = "dropped"]
    /\ scan' = [scan EXCEPT ![s] = NextLedgerOf(scan[s])]
    /\ UNCHANGED <<head, loop, base, last, parsed, rateLimits, crashes>>

-----------------------------------------------------------------------------

Environment == LedgerCloses \/ Crash \/ Restart

LoopStep ==
    \/ \E cur \in Reported : Boot(cur) \/ PollSame(cur) \/ \E s \in Scan : PollNewer(cur, s)
    \/ Recheck \/ PollFails \/ Wake

ScanStep(s) ==
    \/ FetchPage(s) \/ ParseEffect(s) \/ NextPage(s) \/ LedgerDone(s)
    \/ Advance(s) \/ RateLimited(s) \/ Retry(s) \/ FetchFails(s)

Next == Environment \/ LoopStep \/ \E s \in Scan : ScanStep(s)

Spec == Init /\ [][Next]_vars

(* Node runs every pending timer and every settled promise, and each HTTP  *)
(* call ends in an answer or an error, so a scan in flight keeps moving    *)
(* and the loop keeps turning.  Catching up also needs Horizon: a poll     *)
(* that could see the head succeeds again and again.                       *)
FairSpec ==
    /\ Spec
    /\ WF_vars(LoopStep)
    /\ \A s \in Scan : WF_vars(ScanStep(s))
    /\ SF_vars(\E s \in Scan : PollNewer(head, s))

-----------------------------------------------------------------------------
(* Type invariant *)

ScanCall ==
    [pc : {"idle", "fetch", "parse", "settled", "backoff"}, ledger : Ledger, end : Ledger,
     pos : 0..MaxEffects, left : 0..MaxEffects, full : BOOLEAN]

\* Every variable stays in its range.
TypeOK ==
    /\ head \in Ledger
    /\ loop \in {"down", "boot", "poll", "recheck", "sleep"}
    /\ base \in Ledger
    /\ last \in Ledger
    /\ scan \in [Scan -> ScanCall]
    /\ outcome \in [Ledger -> {"pending", "scanned", "dropped"}]
    /\ parsed \in [Effect -> Nat]
    /\ rateLimits \in [Ledger -> 0..MaxRateLimits]
    /\ crashes \in 0..MaxCrashes

-----------------------------------------------------------------------------
(* Safety *)

\* The ledgers a scan still has to settle.
FirstOpen(s) == IF scan[s].pc = "settled" THEN scan[s].ledger + 1 ELSE scan[s].ledger

Remaining(s) ==
    {l \in Ledger : scan[s].pc # "idle" /\ FirstOpen(s) <= l /\ l <= scan[s].end}

InWindow(l) == base < l /\ l <= last

OpenHasOwner ==
    \A l \in Ledger : (InWindow(l) /\ outcome[l] = "pending") => \E s \in Scan : l \in Remaining(s)

OwnedIsOpen ==
    \A s \in Scan : \A l \in Remaining(s) : InWindow(l) /\ outcome[l] = "pending"

OwnersDisjoint ==
    \A s, t \in Scan : s # t => Remaining(s) \cap Remaining(t) = {}

\* startLedgerLoop hands out each ledger once: while the process is up, every
\* ledger it has noticed since it started is settled or in the range of exactly
\* one scan, although the scans overlap in time and polls may go back.
LedgersPartitioned == Up => OpenHasOwner /\ OwnedIsOpen /\ OwnersDisjoint

\* The page loop of fetchLedgerEffects misses nothing: when it returns, every
\* effect of the ledger was parsed, for every count of effects against the page
\* size (none, a short page, exactly full pages) and after any number of 429s.
ScannedIsComplete ==
    \A e \in Effect : outcome[e[1]] = "scanned" => parsed[e] >= 1

\* An effect is parsed (so its owner notified) more than once only because a 429
\* made its ledger start over or the process restarted: once for each at most.
ReplaysAreBounded ==
    \A e \in Effect : parsed[e] <= 1 + rateLimits[e[1]] + crashes

-----------------------------------------------------------------------------
(* Refinement: the overlapping scans, the retries and the crashes implement *)
(* LedgerWatch, in which a ledger is settled once and only after the loop   *)
(* announced it.                                                            *)

Watch == INSTANCE LedgerWatch WITH up <- Up

\* The scanner implements LedgerWatch.
WatchSpec == Watch!Spec

-----------------------------------------------------------------------------
(* Liveness *)

\* Every ledger the loop has noticed is settled in the end, unless the process dies.
EveryLedgerSettled ==
    \A l \in 1..MaxLedger :
        (Up /\ base < l /\ l <= last) ~> (loop = "down" \/ outcome[l] # "pending")

\* The loop catches up with Horizon, however its polls fail: a closed ledger is noticed
\* in the end, unless the process is killed.
CatchesUp == \A l \in 1..MaxLedger : (head >= l) ~> (last >= l \/ crashes > 0)

=============================================================================
