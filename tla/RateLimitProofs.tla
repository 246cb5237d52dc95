--------------------------- MODULE RateLimitProofs ---------------------------
(* Proofs about RateLimit, for any number of deliveries, any limits and any  *)
(* lives of the keys.                                                        *)
EXTENDS RateLimit, Descent, FiniteSetTheorems, TLAPS

\* What the INCRs answer.
LEMMA IncrementedType ==
    ASSUME TypeOK
    PROVE  /\ Incremented \in [Counter -> Nat]
           /\ \A k \in Counter : /\ Incremented[k] <= Limit[k] + 1
                                 /\ Incremented[k] > 0
                                 /\ Incremented[k] <= Limit[k] => Incremented[k] = count[k] + 1
<1>1. \A k \in Counter : Limit[k] \in Nat \ {0} /\ count[k] \in Nat /\ count[k] <= Limit[k] + 1
    BY RateLimitAssumption DEF TypeOK
<1> QED BY <1>1 DEF Incremented

\* A verdict names at most one ban, and none is named only within both limits.
LEMMA VerdictType ==
    ASSUME NEW n \in [Counter -> Nat]
    PROVE  /\ Verdict(n) \in SUBSET {"short", "long"}
           /\ Verdict(n) = {} => \A k \in Counter : n[k] <= Limit[k]
<1>1. \A k \in Counter : Limit[k] \in Nat /\ n[k] \in Nat
    BY RateLimitAssumption
<1>2. Verdict(n) \in SUBSET {"short", "long"}
    BY DEF Verdict
<1>3. ASSUME Verdict(n) = {} PROVE ~(n["hour"] > Limit["hour"]) /\ ~(n["minute"] > Limit["minute"])
    BY <1>3 DEF Verdict
<1> QED BY <1>1, <1>2, <1>3 DEF Counter

-----------------------------------------------------------------------------
(* Type correctness *)

LEMMA InitType == Init => TypeOK
  BY RateLimitAssumption DEF Init, TypeOK, Counter, Key

LEMMA CheckType == \A c \in Call : TypeOK /\ Check(c) => TypeOK'
  BY DEF TypeOK, Check

LEMMA CountType == \A c \in Call : TypeOK /\ Count(c) => TypeOK'
<1> SUFFICES ASSUME NEW c \in Call, TypeOK, Count(c) PROVE TypeOK'
    OBVIOUS
<1>1. /\ count' \in [Counter -> Nat]
      /\ \A k \in Counter : count'[k] <= Limit[k] + 1
    BY IncrementedType DEF Count
<1>2. Verdict(Incremented) \in SUBSET {"short", "long"}
    BY IncrementedType, VerdictType
<1>3. Created \in SUBSET Counter
    BY DEF Created
<1>4. call' \in [Call -> SUBSET (Counter \cup {"count", "short", "long"})]
    BY <1>2, <1>3 DEF Count, TypeOK
<1>5. passed' \in [Counter -> Nat]
    BY DEF Count, TypeOK
<1>6. up
    BY DEF Count, TypeOK
<1> QED BY <1>1, <1>4, <1>5, <1>6 DEF Count, TypeOK

LEMMA ArmType == \A c \in Call, k \in Counter : TypeOK /\ Arm(c, k) => TypeOK'
<1> SUFFICES ASSUME NEW c \in Call, NEW k \in Counter, TypeOK, Arm(c, k) PROVE TypeOK'
    OBVIOUS
<1>1. Life[k] \in Nat /\ k \in Key /\ k # "ban"
    BY RateLimitAssumption DEF Counter, Key
<1>2. /\ ttl' \in [Key -> Nat]
      /\ \A j \in Counter : ttl'[j] <= Life[j]
      /\ ttl'["ban"] <= Life["long"]
    BY <1>1 DEF Arm, Expiry, TypeOK, Counter, Key
<1>3. call' \in [Call -> SUBSET (Counter \cup {"count", "short", "long"})]
    BY DEF Arm, TypeOK
<1>4. up
    BY DEF Arm, TypeOK
<1> QED BY <1>2, <1>3, <1>4 DEF Arm, TypeOK

LEMMA SetBanType ==
    \A c \in Call, b \in {"short", "long"} : TypeOK /\ SetBan(c, b) => TypeOK'
<1> SUFFICES ASSUME NEW c \in Call, NEW b \in {"short", "long"}, TypeOK, SetBan(c, b)
             PROVE  TypeOK'
    OBVIOUS
<1>1. Life[b] \in Nat /\ Life[b] <= Life["long"] /\ "ban" \in Key /\ "ban" \notin Counter
    BY RateLimitAssumption DEF Counter, Key
<1>2. /\ ttl' \in [Key -> Nat]
      /\ \A j \in Counter : ttl'[j] <= Life[j]
      /\ ttl'["ban"] <= Life["long"]
    BY <1>1 DEF SetBan, TypeOK, Counter, Key
<1>3. call' \in [Call -> SUBSET (Counter \cup {"count", "short", "long"})]
    BY DEF SetBan, TypeOK
<1>4. up
    BY DEF SetBan, TypeOK
<1> QED BY <1>2, <1>3, <1>4 DEF SetBan, TypeOK

LEMMA TickType == TypeOK /\ Tick => TypeOK'
<1> SUFFICES ASSUME TypeOK, Tick PROVE TypeOK'
    OBVIOUS
<1>1. /\ \A k \in Counter : Life[k] \in Nat /\ k \in Key /\ Limit[k] \in Nat
      /\ "ban" \in Key /\ Life["long"] \in Nat
    BY RateLimitAssumption DEF Counter, Key
<1>2. \A k \in Key : ttl[k] \in Nat /\ ttl'[k] \in Nat /\ ttl'[k] <= ttl[k]
    BY DEF TypeOK, Tick
<1>3. /\ ttl' \in [Key -> Nat]
      /\ \A j \in Counter : ttl'[j] <= Life[j]
      /\ ttl'["ban"] <= Life["long"]
  <2>1. ttl' \in [Key -> Nat]
      BY DEF TypeOK, Tick
  <2>2. \A j \in Counter : ttl[j] <= Life[j]
      BY DEF TypeOK
  <2>3. ttl["ban"] <= Life["long"]
      BY DEF TypeOK
  <2> QED BY <1>1, <1>2, <2>1, <2>2, <2>3
<1>4. /\ count' \in [Counter -> Nat]
      /\ \A k \in Counter : count'[k] <= Limit[k] + 1
      /\ passed' \in [Counter -> Nat]
    BY <1>1 DEF TypeOK, Tick
<1>5. lift' \in {"idle", "reset", "patch"} /\ (~up => lift' = "idle")
    BY DEF TypeOK, Tick
<1> QED BY <1>3, <1>4, <1>5 DEF TypeOK, Tick

LEMMA ResetType == TypeOK /\ Reset => TypeOK'
<1> SUFFICES ASSUME TypeOK, Reset PROVE TypeOK'
    OBVIOUS
<1>1. \A k \in Counter : Life[k] \in Nat /\ Limit[k] \in Nat /\ k \in Key
    BY RateLimitAssumption DEF Counter, Key
<1>2. /\ ttl' \in [Key -> Nat]
      /\ \A j \in Counter : ttl'[j] <= Life[j]
      /\ ttl'["ban"] <= Life["long"]
    BY <1>1 DEF TypeOK, Reset, Key, Counter
<1> QED BY <1>1, <1>2 DEF TypeOK, Reset

LEMMA QuietType == TypeOK /\ (Readd \/ Die \/ Restart) => TypeOK'
<1> SUFFICES ASSUME TypeOK, Readd \/ Die \/ Restart PROVE TypeOK'
    OBVIOUS
<1>1. CASE Readd
    BY <1>1 DEF TypeOK, Readd
<1>2. CASE Die
  <2>1. MaxCrashes \in Nat /\ crashes' \in 0..MaxCrashes
      BY <1>2, RateLimitAssumption DEF TypeOK, Die
  <2>2. call' \in [Call -> SUBSET (Counter \cup {"count", "short", "long"})]
      BY <1>2 DEF Die
  <2>3. \A c \in Call : call'[c] = {}
      BY <1>2 DEF Die
  <2>4. cutOff' \in SUBSET Counter /\ up' = FALSE /\ lift' = "idle"
      BY <1>2 DEF Die
  <2>5. UNCHANGED <<configured, count, ttl, passed>>
      BY <1>2 DEF Die
  <2> QED BY <2>1, <2>2, <2>3, <2>4, <2>5 DEF TypeOK
<1>3. CASE Restart
    BY <1>3 DEF TypeOK, Restart
<1> QED BY <1>1, <1>2, <1>3

LEMMA LiftBanType == TypeOK /\ LiftBan => TypeOK'
<1> SUFFICES ASSUME TypeOK, LiftBan PROVE TypeOK'
    OBVIOUS
<1>1. "ban" \in Key /\ "ban" \notin Counter /\ Life["long"] \in Nat
    BY RateLimitAssumption DEF Key, Counter
<1>2. /\ ttl' \in [Key -> Nat]
      /\ ttl'["ban"] = 0
      /\ \A k \in Counter : ttl'[k] = ttl[k]
    BY <1>1 DEF TypeOK, LiftBan, Key
<1> QED BY <1>1, <1>2 DEF TypeOK, LiftBan

LEMMA NextType == TypeOK /\ [Next]_vars => TypeOK'
<1> SUFFICES ASSUME TypeOK, [Next]_vars PROVE TypeOK'
    OBVIOUS
<1>1. ASSUME NEW c \in Call, CallStep(c) PROVE TypeOK'
    BY <1>1, CheckType, CountType, ArmType, SetBanType DEF CallStep
<1>2. CASE LiftStep
    BY <1>2, ResetType, QuietType DEF LiftStep
<1>3. CASE Tick
    BY <1>3, TickType
<1>4. CASE Die \/ Restart
    BY <1>4, QuietType
<1>5. CASE UNCHANGED vars
    BY <1>5 DEF TypeOK, vars
<1> QED BY <1>1, <1>2, <1>3, <1>4, <1>5, LiftBanType DEF Next

\* TypeOK is an invariant: a key never outlives the life it was given, and a process
\* that is down has no delivery and no handler in flight.
THEOREM TypeCorrect == Spec => []TypeOK
<1>1. Init => TypeOK
    BY InitType
<1>2. TypeOK /\ [Next]_vars => TypeOK'
    BY NextType
<1> QED BY <1>1, <1>2, PTL DEF Spec

-----------------------------------------------------------------------------
(* The limits hold *)

\* No more are let through than were counted; inductive, and what LimitHolds needs
\* when a counter dies or is reset.
PassedAreCounted ==
    \A k \in Counter : passed[k] <= count[k] /\ passed[k] <= Limit[k]

LEMMA CountPassed ==
    ASSUME NEW c \in Call, TypeOK, PassedAreCounted, Count(c) PROVE PassedAreCounted'
<1>1. \A k \in Counter : /\ passed[k] \in Nat /\ count[k] \in Nat /\ Limit[k] \in Nat
                         /\ passed[k] <= count[k] /\ passed[k] <= Limit[k]
    BY RateLimitAssumption DEF TypeOK, PassedAreCounted
<1>2. CASE Verdict(Incremented) = {}
  <2>1. \A k \in Counter : Incremented[k] <= Limit[k] /\ Incremented[k] = count[k] + 1
      BY <1>2, IncrementedType, VerdictType
  <2>2. \A k \in Counter : count'[k] = count[k] + 1 /\ passed'[k] = passed[k] + 1
      BY <1>2, <2>1 DEF Count
  <2>3. \A k \in Counter : count'[k] <= Limit[k]
      BY <2>1 DEF Count
  <2> QED BY <1>1, <2>2, <2>3 DEF PassedAreCounted
<1>3. CASE Verdict(Incremented) # {}
  <2>1. \A k \in Counter : passed'[k] = passed[k]
      BY <1>3 DEF Count
  <2>2. \A k \in Counter : count'[k] >= count[k] /\ count'[k] \in Nat
      BY <1>1 DEF Count, Incremented
  <2> QED BY <1>1, <2>1, <2>2 DEF PassedAreCounted
<1> QED BY <1>2, <1>3

LEMMA NextPassed ==
    ASSUME TypeOK, PassedAreCounted, [Next]_vars PROVE PassedAreCounted'
<1>1. \A k \in Counter : Limit[k] \in Nat
    BY RateLimitAssumption
<1>2. ASSUME NEW c \in Call, CallStep(c) PROVE PassedAreCounted'
  <2>1. CASE Count(c)
      BY <2>1, CountPassed
  <2>2. CASE UNCHANGED <<count, passed>>
      BY <2>2 DEF PassedAreCounted
  <2> QED BY <1>2, <2>1, <2>2 DEF CallStep, Check, Arm, SetBan
<1>3. CASE Reset
    BY <1>1, <1>3 DEF Reset, PassedAreCounted
<1>4. CASE Tick
    BY <1>1, <1>4 DEF Tick, PassedAreCounted
<1>5. CASE UNCHANGED <<count, passed>>
    BY <1>5 DEF PassedAreCounted
<1> QED BY <1>2, <1>3, <1>4, <1>5 DEF Next, LiftBan, LiftStep, Readd, Die, Restart, vars

\* For every number of deliveries at once and every limit, no more than the limit are
\* let through in one life of a counter.
THEOREM LimitsHold == Spec => []LimitHolds
<1>1. Init => PassedAreCounted
    BY RateLimitAssumption DEF Init, PassedAreCounted
<1>2. TypeOK /\ PassedAreCounted /\ [Next]_vars => PassedAreCounted'
    BY NextPassed
<1>3. PassedAreCounted => LimitHolds
    BY DEF PassedAreCounted, LimitHolds
<1> QED BY <1>1, <1>2, <1>3, TypeCorrect, PTL DEF Spec

-----------------------------------------------------------------------------
(* Counters get a TTL *)

\* A key that is gone has no TTL: what makes EXPIRE on a missing key harmless.
GoneHasNoTTL == \A k \in Counter : count[k] = 0 => ttl[k] = 0

Arming == GoneHasNoTTL /\ ArmedOrArming

LEMMA CountArming ==
    ASSUME NEW c \in Call, TypeOK, Arming, Count(c) PROVE Arming'
<1>1. \A k \in Counter : count'[k] > 0
    BY IncrementedType DEF Count
<1>2. \A k \in Counter : count[k] = 0 => k \in call'[c]
    BY DEF Count, Created, TypeOK
<1>3. ASSUME NEW k \in Counter, NEW d \in Call, k \in call[d] PROVE k \in call'[d]
    BY <1>3 DEF Count, TypeOK, Counter
<1>4. ASSUME NEW k \in Counter, ttl'[k] = 0
      PROVE  k \in cutOff' \/ \E d \in Call : k \in call'[d]
  <2>1. CASE count[k] = 0
      BY <1>2, <2>1
  <2>2. CASE count[k] # 0
    <3>1. count[k] > 0 /\ ttl[k] = 0
        BY <1>4, <2>2 DEF Count, TypeOK
    <3>2. k \in cutOff \/ \E d \in Call : k \in call[d]
        BY <3>1 DEF Arming, ArmedOrArming
    <3> QED BY <3>2, <1>3 DEF Count
  <2> QED BY <2>1, <2>2
<1>5. GoneHasNoTTL'
    BY <1>1, IncrementedType DEF GoneHasNoTTL, Count
<1>6. ArmedOrArming'
    BY <1>4 DEF ArmedOrArming
<1> QED BY <1>5, <1>6 DEF Arming

LEMMA ArmArming ==
    ASSUME NEW c \in Call, NEW k \in Counter, TypeOK, Arming, Arm(c, k) PROVE Arming'
<1>1. Life[k] \in Nat \ {0} /\ k \in Key
    BY RateLimitAssumption DEF Counter, Key
<1>2. count' = count /\ cutOff' = cutOff
    BY DEF Arm
<1>3. \A j \in Counter : j # k => ttl'[j] = ttl[j]
    BY DEF Arm, TypeOK, Key
<1>4. /\ count[k] = 0 => ttl'[k] = ttl[k]
      /\ count[k] # 0 => ttl'[k] = Life[k]
    BY <1>1 DEF Arm, Expiry, TypeOK
<1>5. \A j \in Counter, d \in Call : (j # k /\ j \in call[d]) => j \in call'[d]
    BY DEF Arm, TypeOK
<1>6. GoneHasNoTTL'
    BY <1>2, <1>3, <1>4 DEF Arming, GoneHasNoTTL
<1>7. ASSUME NEW j \in Counter, count'[j] > 0, ttl'[j] = 0
      PROVE  j \in cutOff' \/ \E d \in Call : j \in call'[d]
  <2>1. count[j] \in Nat /\ count[j] # 0
      BY <1>2, <1>7 DEF TypeOK
  <2>2. j # k
      BY <1>1, <1>4, <1>7, <2>1
  <2>3. ttl[j] = 0 /\ count[j] > 0
      BY <1>2, <1>3, <1>7, <2>2
  <2> QED BY <1>2, <1>5, <2>2, <2>3 DEF Arming, ArmedOrArming
<1>8. ArmedOrArming'
    BY <1>7 DEF ArmedOrArming
<1> QED BY <1>6, <1>8 DEF Arming

LEMMA TickArming == ASSUME TypeOK, Arming, Tick PROVE Arming'
<1>1. \A k \in Counter : k \in Key /\ ttl[k] \in Nat /\ count[k] \in Nat
    BY DEF TypeOK, Counter, Key
<1>2. \A k \in Counter : /\ ttl'[k] = IF ttl[k] = 0 THEN 0 ELSE ttl[k] - 1
                         /\ count'[k] = IF ttl[k] = 1 THEN 0 ELSE count[k]
    BY <1>1 DEF Tick, Dead
<1>3. GoneHasNoTTL'
    BY <1>1, <1>2 DEF Arming, GoneHasNoTTL
<1>4. ASSUME NEW k \in Counter, count'[k] > 0, ttl'[k] = 0 PROVE count[k] > 0 /\ ttl[k] = 0
    BY <1>1, <1>2, <1>4
<1>5. ArmedOrArming'
    BY <1>4 DEF Arming, ArmedOrArming, Tick
<1> QED BY <1>3, <1>5 DEF Arming

LEMMA NextArming == ASSUME TypeOK, Arming, [Next]_vars PROVE Arming'
<1>1. ASSUME NEW c \in Call, Check(c) PROVE Arming'
  <2>1. \A k \in Counter, d \in Call : k \in call[d] => k \in call'[d]
      BY <1>1 DEF Check, TypeOK
  <2> QED BY <1>1, <2>1 DEF Check, Arming, GoneHasNoTTL, ArmedOrArming
<1>2. ASSUME NEW c \in Call, NEW b \in {"short", "long"}, SetBan(c, b) PROVE Arming'
  <2>1. \A k \in Counter, d \in Call : k \in call[d] => k \in call'[d]
      BY <1>2 DEF SetBan, TypeOK, Counter
  <2>2. \A k \in Counter : ttl'[k] = ttl[k]
      BY <1>2 DEF SetBan, TypeOK, Counter, Key
  <2> QED BY <1>2, <2>1, <2>2 DEF SetBan, Arming, GoneHasNoTTL, ArmedOrArming
<1>3. CASE Reset
  <2>1. \A k \in Counter : count'[k] = 0 /\ ttl'[k] = 0
      BY <1>3 DEF Reset, Key
  <2> QED BY <2>1 DEF Arming, GoneHasNoTTL, ArmedOrArming
<1>4. CASE Die
    BY <1>4 DEF Die, Arming, GoneHasNoTTL, ArmedOrArming
<1>5. CASE UNCHANGED <<count, ttl, call, cutOff>>
    BY <1>5 DEF Arming, GoneHasNoTTL, ArmedOrArming
<1>6. ASSUME NEW c \in Call, CallStep(c) PROVE Arming'
    BY <1>1, <1>2, <1>6, CountArming, ArmArming DEF CallStep
<1>7. CASE LiftBan
  <2>1. \A k \in Counter : ttl'[k] = ttl[k]
      BY <1>7 DEF LiftBan, TypeOK, Counter, Key
  <2> QED BY <1>7, <2>1 DEF LiftBan, Arming, GoneHasNoTTL, ArmedOrArming
<1> QED BY <1>3, <1>4, <1>5, <1>6, <1>7, TickArming DEF Next, LiftStep, Readd, Restart, vars

\* A counter without a TTL always has a delivery about to arm it, unless a death of the
\* process cut that delivery off.
THEOREM CountersEnd == Spec => []ArmedOrArming
<1>1. Init => Arming
    BY DEF Init, Arming, GoneHasNoTTL, ArmedOrArming, Counter, Key
<1>2. TypeOK /\ Arming /\ [Next]_vars => Arming'
    BY NextArming
<1>3. Arming => ArmedOrArming
    BY DEF Arming
<1> QED BY <1>1, <1>2, <1>3, TypeCorrect, PTL DEF Spec

-----------------------------------------------------------------------------
(* A ban runs out of renewals *)

\* The deliveries that are past the check of the ban.
Underway == {c \in Call : call[c] # {}}

\* What a step may do to a ban that lasts: no delivery starts to count itself, and one
\* that was already past the check renews the ban at most once, since by that it ends.
RenewalStep ==
    (ttl["ban"] > 0 /\ ttl'["ban"] > 0) =>
        /\ Underway' \subseteq Underway
        /\ ttl'["ban"] > ttl["ban"] => Underway' # Underway

LEMMA CallRenewal == ASSUME TypeOK, NEW c \in Call, CallStep(c) PROVE RenewalStep
<1>1. "ban" \in Key /\ "ban" \notin Counter
    BY DEF Key, Counter
<1>2. CASE Check(c)
    BY <1>2 DEF Check, RenewalStep
<1>3. CASE Count(c)
  <2>1. call[c] # {} /\ \A d \in Call : d # c => call'[d] = call[d]
      BY <1>3 DEF Count, TypeOK
  <2>2. ttl' = ttl /\ ttl["ban"] \in Nat
      BY <1>1, <1>3 DEF Count, TypeOK
  <2> QED BY <2>1, <2>2 DEF RenewalStep, Underway
<1>4. ASSUME NEW k \in Counter, Arm(c, k) PROVE RenewalStep
  <2>1. call[c] # {} /\ \A d \in Call : d # c => call'[d] = call[d]
      BY <1>4 DEF Arm, TypeOK
  <2>2. ttl'["ban"] = ttl["ban"] /\ ttl["ban"] \in Nat
      BY <1>1, <1>4 DEF Arm, TypeOK
  <2> QED BY <2>1, <2>2 DEF RenewalStep, Underway
<1>5. ASSUME NEW b \in {"short", "long"}, SetBan(c, b) PROVE RenewalStep
  <2>1. c \in Underway /\ c \notin Underway'
      BY <1>5 DEF SetBan, TypeOK, Underway
  <2>2. \A d \in Call : call'[d] # {} => call[d] # {}
      BY <1>5 DEF SetBan, TypeOK
  <2> QED BY <2>1, <2>2 DEF RenewalStep, Underway
<1> QED BY <1>2, <1>3, <1>4, <1>5 DEF CallStep

LEMMA NextRenewal == ASSUME TypeOK, Next PROVE RenewalStep
<1>1. "ban" \in Key /\ "ban" \notin Counter /\ ttl["ban"] \in Nat
    BY DEF Key, Counter, TypeOK
<1>2. CASE LiftBan
    BY <1>1, <1>2 DEF LiftBan, TypeOK, RenewalStep
<1>3. CASE Tick
  <2>1. ttl'["ban"] = IF ttl["ban"] = 0 THEN 0 ELSE ttl["ban"] - 1
      BY <1>1, <1>3 DEF Tick
  <2>2. Underway' = Underway /\ ~(ttl'["ban"] > ttl["ban"])
      BY <1>1, <1>3, <2>1 DEF Tick, Underway
  <2> QED BY <2>2 DEF RenewalStep
<1>4. CASE LiftStep \/ Restart
  <2>1. ttl'["ban"] = ttl["ban"] /\ Underway' = Underway
      BY <1>1, <1>4 DEF LiftStep, Reset, Readd, Restart, Underway
  <2> QED BY <1>1, <2>1 DEF RenewalStep
<1>5. CASE Die
  <2>1. ttl' = ttl /\ Underway' = {}
      BY <1>5 DEF Die, Underway
  <2> QED BY <1>1, <2>1 DEF RenewalStep
<1> QED BY <1>2, <1>3, <1>4, <1>5, CallRenewal DEF Next

-----------------------------------------------------------------------------
(* Bans end.  ENABLED is spelled out: a tick can be taken while a key has a  *)
(* life and, if the ban is about to end, no handler of an earlier one runs.  *)

CanTick == (\E k \in Key : ttl[k] > 0) /\ ("ban" \in Dead => lift = "idle")

\* Weak fairness of Tick.
TimePasses == []([]CanTick => <><<Tick>>_vars)

\* Weak fairness of LiftStep.
LiftGoesOn == []([](lift # "idle") => <><<LiftStep>>_vars)

\* What bounds a ban: the deliveries that may still renew it, then what is left of it.
RenewalsLeft == Cardinality(Underway)

BanLeft == ttl["ban"]

\* True of every behaviour, see Descent.
BanDescends == Rests(RenewalsLeft) /\ Rests(BanLeft)

\* However many slots there are, only finitely many deliveries are underway.
FiniteUnderway == IsFiniteSet(Underway)

LEMMA NextFinite == ASSUME TypeOK, FiniteUnderway, [Next]_vars PROVE FiniteUnderway'
<1>1. ASSUME NEW c \in Call, CallStep(c) PROVE FiniteUnderway'
  <2>1. \A d \in Call : d # c => call'[d] = call[d]
      BY <1>1 DEF CallStep, Check, Count, Arm, SetBan, TypeOK
  <2>2. Underway' \in SUBSET (Underway \cup {c})
      BY <2>1 DEF Underway
  <2>3. IsFiniteSet(Underway \cup {c})
      BY FS_AddElement DEF FiniteUnderway
  <2> QED BY <2>2, <2>3, FS_Subset DEF FiniteUnderway
<1>2. CASE call' = call
  BY <1>2 DEF FiniteUnderway, Underway
<1>3. CASE Die
  <2>1. Underway' = {}
      BY <1>3 DEF Die, Underway
  <2> QED BY <2>1, FS_EmptySet DEF FiniteUnderway
<1> QED BY <1>1, <1>2, <1>3 DEF Next, LiftBan, LiftStep, Reset, Readd, Tick, Restart, vars

LEMMA UnderwayIsFinite == Spec => []FiniteUnderway
<1>1. Init => FiniteUnderway
  <2>1. Init => Underway = {}
      BY DEF Init, Underway
  <2> QED BY <2>1, FS_EmptySet DEF FiniteUnderway
<1>2. TypeOK /\ FiniteUnderway /\ [Next]_vars => FiniteUnderway'
  BY NextFinite
<1> QED BY <1>1, <1>2, TypeCorrect, PTL DEF Spec

\* While a ban lasts its renewals run out, and then its life does.
LEMMA BanStepLowers ==
    ASSUME TypeOK, FiniteUnderway, FiniteUnderway', [Next]_vars, ttl["ban"] > 0, ttl'["ban"] > 0
    PROVE  /\ RenewalsLeft \in Nat /\ BanLeft \in Nat
           /\ RenewalsLeft' <= RenewalsLeft
           /\ RenewalsLeft' = RenewalsLeft => BanLeft' <= BanLeft
           /\ Tick => BanLeft' < BanLeft
<1>1. RenewalStep
  <2>1. CASE UNCHANGED vars
    <3>1. Underway' = Underway /\ ttl' = ttl /\ ttl["ban"] \in Nat
        BY <2>1 DEF vars, Underway, TypeOK, Key
    <3> QED BY <3>1 DEF RenewalStep
  <2> QED BY <2>1, NextRenewal
<1>2. ttl["ban"] \in Nat /\ ttl'["ban"] \in Nat
  <2>1. TypeOK'
      BY NextType
  <2> QED BY <2>1 DEF TypeOK, Key
<1>3. Underway' \in SUBSET Underway /\ (ttl'["ban"] > ttl["ban"] => Underway' # Underway)
  BY <1>1 DEF RenewalStep
<1>4. /\ Cardinality(Underway) \in Nat /\ Cardinality(Underway') \in Nat
      /\ Cardinality(Underway') <= Cardinality(Underway)
      /\ Cardinality(Underway) = Cardinality(Underway') => Underway = Underway'
  BY <1>3, FS_Subset, FS_CardinalityType DEF FiniteUnderway
<1>5. Tick => ttl'["ban"] < ttl["ban"]
  BY <1>2 DEF Tick, Key
<1> QED BY <1>2, <1>3, <1>4, <1>5 DEF RenewalsLeft, BanLeft

\* The handler of an earlier ban ends, and none begins while this one lasts.
LEMMA LiftMoves ==
    ASSUME TypeOK, [Next]_vars, ttl'["ban"] > 0
    PROVE  /\ lift' \in {lift, "idle"} \/ LiftStep
           /\ LiftStep => \/ lift = "reset" /\ lift' = "patch"
                          \/ lift = "patch" /\ lift' = "idle"
           /\ lift = "idle" => lift' = "idle"
<1>1. ASSUME Tick PROVE lift' = lift
  <2>1. "ban" \notin Dead
      BY <1>1 DEF Tick, Dead, Key
  <2> QED BY <1>1, <2>1 DEF Tick
<1>2. LiftStep => \/ lift = "reset" /\ lift' = "patch"
                  \/ lift = "patch" /\ lift' = "idle"
  BY DEF LiftStep, Reset, Readd
<1>3. ~LiftStep => lift' \in {lift, "idle"}
  BY <1>1 DEF Next, CallStep, Check, Count, Arm, SetBan, LiftBan, Die, Restart, vars
<1> QED BY <1>2, <1>3

\* For any number of deliveries, any limits and any lives: a ban ends, although deliveries
\* that were past the check renew it and the expiry of an earlier one is still at work, if
\* time passes and the handler is answered.
THEOREM BansEnd == Spec /\ TimePasses /\ LiftGoesOn /\ BanDescends => BanEnds
<1> DEFINE a == RenewalsLeft
           b == BanLeft
           banned == ttl["ban"] > 0
           at(x) == lift = x
           typed == TypeOK /\ FiniteUnderway
<1>1. Spec => []typed
  BY TypeCorrect, UnderwayIsFinite, PTL
<1>2. typed => at("idle") \/ at("reset") \/ at("patch")
  BY DEF TypeOK
<1>3. typed /\ typed' /\ [Next]_vars /\ banned /\ banned' =>
         /\ a \in Nat /\ b \in Nat
         /\ a' <= a
         /\ a' = a => b' <= b
         /\ Tick => b' < b
  BY BanStepLowers
<1>4. typed /\ [Next]_vars /\ banned' /\ at("idle") => at("idle")'
  BY LiftMoves
<1>5. typed /\ [Next]_vars /\ banned' /\ at("patch") => at("patch")' \/ at("idle")'
  BY LiftMoves
<1>6. typed /\ [Next]_vars /\ banned' /\ at("patch") /\ <<LiftStep>>_vars => at("idle")'
  BY LiftMoves
<1>7. typed /\ [Next]_vars /\ banned' /\ at("reset") /\ <<LiftStep>>_vars => at("patch")'
  BY LiftMoves
<1>8. typed /\ [Next]_vars /\ banned' /\ at("reset") => at("reset")' \/ at("patch")' \/ at("idle")'
  BY LiftMoves
<1>9. banned /\ at("idle") => CanTick
  BY DEF CanTick, Key
<1>10. /\ (ttl["ban"] > 0) <=> banned
       /\ (lift # "idle") <=> ~at("idle")
  OBVIOUS
<1>11. typed => ((ttl["ban"] = 0) <=> ~banned)
  BY DEF TypeOK, Key
<1>12. BanDescends => /\ []([](a \in Nat) /\ [][a' <= a]_a => <>[][FALSE]_a)
                      /\ []([](b \in Nat) /\ [][b' <= b]_b => <>[][FALSE]_b)
  BY DEF BanDescends, Rests
<1>16. b \in Nat => ~(b < b)
  OBVIOUS
<1> HIDE DEF a, b, banned, at, typed
<1>13. typed /\ typed' /\ [Next]_vars /\ banned /\ banned' => a \in Nat /\ b \in Nat /\ [a' <= a]_a
  BY <1>3
<1>14. typed /\ typed' /\ [Next]_vars /\ banned /\ banned' /\ [FALSE]_a => [b' <= b]_b
  BY <1>3
<1>15. typed /\ typed' /\ [Next]_vars /\ banned /\ banned' /\ [FALSE]_a /\ [FALSE]_b
          => ~<<Tick>>_vars
  BY <1>3, <1>16
<1> QED
  BY <1>1, <1>2, <1>4, <1>5, <1>6, <1>7, <1>8, <1>9, <1>10, <1>11, <1>12, <1>13, <1>14, <1>15, PTL
  DEF Spec, TimePasses, LiftGoesOn, BanEnds

=============================================================================
