------------------------------ MODULE RateLimit ------------------------------
(***************************************************************************)
(* How often one address of one chain is notified: the first layer of      *)
(* RateLimitService (rate-limit.service.ts) and BanExpiryService           *)
(* (ban-expiry.service.ts), over keys that Redis expires.                  *)
(*                                                                         *)
(* A delivery asks for the ban of the address; if there is none it counts  *)
(* itself in a minute and in an hour counter, gives a TTL to those it      *)
(* created, and bans the address when a limit is exceeded.  When Redis     *)
(* expires the ban, its subscriber deletes both counters and re-adds the   *)
(* address to the Alchemy hook.  The two services share nothing but Redis. *)
(*                                                                         *)
(* handleWebhookEvent has its calls of the service commented out at this   *)
(* commit: who calls, and in which order, is what that comment says.       *)
(* A step is one command of Redis and the code up to the next await.       *)
(***************************************************************************)
EXTENDS Integers

CONSTANTS Call,       \* slots for deliveries in flight (bounds how many)
          Limit,      \* NOTIF_1MIN_LIMIT and NOTIF_1HR_LIMIT
          Life,       \* the TTLs of the keys, in ticks
          MaxCrashes  \* bound: times the process dies

Counter == {"minute", "hour"}

Key == Counter \cup {"ban"}

ASSUME RateLimitAssumption ==
    /\ Limit \in [Counter -> Nat \ {0}]
    /\ Life \in [Counter \cup {"short", "long"} -> Nat \ {0}]
    /\ Life["short"] <= Life["long"]
    /\ MaxCrashes \in Nat

VARIABLES up,          \* is the process running
          configured,  \* does getWebhookConfig know the chain (never changes)
          count,       \* the counters: 0 is no key; Limit + 1 stands for every larger count
          ttl,         \* what is left of the life of each key: 0 is no key or no TTL;
                       \* the ban exists as long as it has some
          call,        \* what each delivery still has to do: count itself, arm a counter
                       \* it created, set a short or a long ban
          lift,        \* the BanExpiry handler: idle, about to reset or about to patch
          passed,      \* history: deliveries let through in this life of each counter
          cutOff,      \* history: counters that a death left without a TTL
          crashes      \* history: how often the process died

vars == <<up, configured, count, ttl, call, lift, passed, cutOff, crashes>>

Init ==
    /\ up = TRUE
    /\ configured \in BOOLEAN
    /\ count = [k \in Counter |-> 0]
    /\ ttl = [k \in Key |-> 0]
    /\ call = [c \in Call |-> {}]
    /\ lift = "idle"
    /\ passed = [k \in Counter |-> 0]
    /\ cutOff = {}
    /\ crashes = 0

-----------------------------------------------------------------------------
(* isToAddressBanned, trackAndCheckToAddress *)

\* Mutant: the ban is not asked for.
Check_Skipped(c) ==
    /\ up
    /\ call[c] = {}
    /\ call' = [call EXCEPT ![c] = {"count"}]
    /\ UNCHANGED <<up, configured, count, ttl, lift, passed, cutOff, crashes>>

\* GET of the ban finds none.  (A delivery that finds one ends and changes nothing.)
Check(c) ==
    /\ up
    /\ call[c] = {}
    /\ ttl["ban"] = 0
    /\ call' = [call EXCEPT ![c] = {"count"}]
    /\ UNCHANGED <<up, configured, count, ttl, lift, passed, cutOff, crashes>>

\* Mutant: the second counter is armed only when the first was not created.
Created_ElseIf == IF count["minute"] = 0 THEN {"minute"}
                  ELSE {k \in {"hour"} : count[k] = 0}

\* The counters that the INCRs of this moment create.
Created == {k \in Counter : count[k] = 0}

Incremented ==
    [k \in Counter |-> IF count[k] > Limit[k] THEN count[k] ELSE count[k] + 1]

\* Mutant: the hour limit is looked at only by who exceeds the minute limit.
Verdict_Nested(n) ==
    IF n["minute"] <= Limit["minute"] THEN {}
    ELSE IF n["hour"] > Limit["hour"] THEN {"long"} ELSE {"short"}

\* The ban for the counts n that the INCRs answered.
Verdict(n) ==
    IF n["hour"] > Limit["hour"] THEN {"long"}
    ELSE IF n["minute"] > Limit["minute"] THEN {"short"} ELSE {}

\* Both INCRs; what they answer settles what is left to do and whether the delivery
\* is let through.
Count(c) ==
    /\ call[c] = {"count"}
    /\ count' = Incremented
    /\ call' = [call EXCEPT ![c] = Created \cup Verdict(Incremented)]
    /\ passed' = [k \in Counter |->
                    IF Verdict(Incremented) = {} THEN passed[k] + 1 ELSE passed[k]]
    /\ UNCHANGED <<up, configured, ttl, lift, cutOff, crashes>>

\* Mutant: both counters get the TTL of the hour.
Expiry_Hour(k) == Life["hour"]

\* The TTL a counter is given.
Expiry(k) == Life[k]

\* EXPIRE of a counter, the minute first; Redis ignores it when the key is gone.
Arm(c, k) ==
    /\ k \in call[c]
    /\ k = "hour" => "minute" \notin call[c]
    /\ call' = [call EXCEPT ![c] = @ \ {k}]
    /\ ttl' = IF count[k] = 0 THEN ttl ELSE [ttl EXCEPT ![k] = Expiry(k)]
    /\ UNCHANGED <<up, configured, count, lift, passed, cutOff, crashes>>

\* SET with EX: a new life, whatever ban there was.
SetBan(c, b) ==
    /\ call[c] = {b}
    /\ call' = [call EXCEPT ![c] = {}]
    /\ ttl' = [ttl EXCEPT !["ban"] = Life[b]]
    /\ UNCHANGED <<up, configured, count, lift, passed, cutOff, crashes>>

\* liftBan: a DEL, which makes no expired event; the counters stay.
LiftBan ==
    /\ up
    /\ ttl["ban"] > 0
    /\ ttl' = [ttl EXCEPT !["ban"] = 0]
    /\ UNCHANGED <<up, configured, count, call, lift, passed, cutOff, crashes>>

-----------------------------------------------------------------------------
(* Redis: time passes, and keys whose life is over are gone.               *)

Dead == {k \in Key : ttl[k] = 1}

\* The handler of the expired event resets first; it returns at once for a chain without
\* a hook, and Redis keeps no event for a process that is not there.  The event of a ban
\* waits for the handler of an earlier one (bound: one handler at a time).
Tick ==
    /\ \E k \in Key : ttl[k] > 0
    /\ "ban" \in Dead => lift = "idle"
    /\ ttl' = [k \in Key |-> IF ttl[k] = 0 THEN 0 ELSE ttl[k] - 1]
    /\ count' = [k \in Counter |-> IF k \in Dead THEN 0 ELSE count[k]]
    /\ passed' = [k \in Counter |-> IF k \in Dead THEN 0 ELSE passed[k]]
    /\ lift' = IF "ban" \in Dead /\ up /\ configured THEN "reset" ELSE lift
    /\ UNCHANGED <<up, configured, call, cutOff, crashes>>

-----------------------------------------------------------------------------
(* BanExpiryService: the handler of the expired event *)

\* DEL of both counters.
Reset ==
    /\ lift = "reset"
    /\ lift' = "patch"
    /\ count' = [k \in Counter |-> 0]
    /\ passed' = [k \in Counter |-> 0]
    /\ ttl' = [k \in Key |-> IF k \in Counter THEN 0 ELSE ttl[k]]
    /\ cutOff' = {}
    /\ UNCHANGED <<up, configured, call, crashes>>

\* updateWebhook: the PATCH is answered, and an answer that is not ok only logged.
Readd ==
    /\ lift = "patch"
    /\ lift' = "idle"
    /\ UNCHANGED <<up, configured, count, ttl, call, passed, cutOff, crashes>>

-----------------------------------------------------------------------------
(* A command of Redis or the PATCH that fails rejects a promise nobody     *)
(* handles, and Node ends the process; Redis lives on.                     *)

Die ==
    /\ up
    /\ crashes < MaxCrashes
    /\ up' = FALSE
    /\ crashes' = crashes + 1
    /\ call' = [c \in Call |-> {}]
    /\ lift' = "idle"
    /\ cutOff' = {k \in Counter : count[k] > 0 /\ ttl[k] = 0}
    /\ UNCHANGED <<configured, count, ttl, passed>>

\* onModuleInit subscribes again before the application takes requests.
Restart ==
    /\ ~up
    /\ up' = TRUE
    /\ UNCHANGED <<configured, count, ttl, call, lift, passed, cutOff, crashes>>

-----------------------------------------------------------------------------

CallStep(c) ==
    \/ Check(c)
    \/ Count(c)
    \/ \E k \in Counter : Arm(c, k)
    \/ \E b \in {"short", "long"} : SetBan(c, b)

LiftStep == Reset \/ Readd

Next ==
    \/ \E c \in Call : CallStep(c)
    \/ LiftBan
    \/ LiftStep
    \/ Tick
    \/ Die
    \/ Restart

Spec == Init /\ [][Next]_vars

(* Redis expires keys on its own, and the commands of the handler are      *)
(* answered or fail.  Nothing is assumed of deliveries.                    *)
FairSpec == Spec /\ WF_vars(Tick) /\ WF_vars(LiftStep)

-----------------------------------------------------------------------------
(* Properties *)

\* Every variable stays in its range: a key has at most the life it was given, and a
\* process that is down has nothing in flight.
TypeOK ==
    /\ up \in BOOLEAN
    /\ configured \in BOOLEAN
    /\ count \in [Counter -> Nat]
    /\ ttl \in [Key -> Nat]
    /\ \A k \in Counter : count[k] <= Limit[k] + 1 /\ ttl[k] <= Life[k]
    /\ ttl["ban"] <= Life["long"]
    /\ call \in [Call -> SUBSET (Counter \cup {"count", "short", "long"})]
    /\ lift \in {"idle", "reset", "patch"}
    /\ ~up => lift = "idle" /\ \A c \in Call : call[c] = {}
    /\ passed \in [Counter -> Nat]
    /\ cutOff \in SUBSET Counter
    /\ crashes \in 0..MaxCrashes

\* However many deliveries run at once, however their EXPIREs, bans, expiries, resets
\* and restarts fall between their commands: no more than the limit are let through
\* in one life of a counter.
LimitHolds == \A k \in Counter : passed[k] <= Limit[k]

\* The EXPIRE may come after the counter was deleted, or created again by another
\* delivery, and still no counter stays without a TTL: one that has none has a delivery
\* that is about to arm it.  The exception is what a death of the process leaves between
\* INCR and EXPIRE: such a counter counts on until the next reset.
ArmedOrArming ==
    \A k \in Counter :
        (count[k] > 0 /\ ttl[k] = 0) => (k \in cutOff \/ \E c \in Call : k \in call[c])

\* A ban ends, although deliveries that were already past the check may renew it.
BanEnds == (ttl["ban"] > 0) ~> (ttl["ban"] = 0)

=============================================================================
