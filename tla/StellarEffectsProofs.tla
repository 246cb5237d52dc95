------------------------ MODULE StellarEffectsProofs ------------------------
(* Theorems about StellarEffects.                                          *)
EXTENDS StellarEffects, AddressIndexFollowsProofs

LEMMA OwnersAreDevices ==
    ASSUME NEW a
    PROVE  OwnerOf(a) = NewestOwners(a) /\ NewestOwners(a) \subseteq Device
  BY IndexAssumption DEF OwnerOf, NewestOwners, IndexAssumption

LEMMA RestingType ==
    Resting \in [pc : {"idle", "filter", "lookup", "trust"}, to : Xlm, kind : Kind,
                 device : Device \cup {NoDevice}, sent : Device \cup {NoDevice},
                 calm : BOOLEAN, owners : SUBSET Device]
  BY EffectAssumption DEF EffectAssumption, Resting, Kind

(***************************************************************************)
(* While a parse is under way, its owners are a superset of the devices    *)
(* that are the newest of its address now, and the device it keeps while   *)
(* it asks for the trustline is one of them.                               *)
(***************************************************************************)
OwnersInv ==
    /\ parse.pc # "idle" => NewestOwners(parse.to) \subseteq parse.owners
    /\ parse.pc = "trust" => parse.device \in parse.owners

EffectInv == EffectTypeOK /\ OwnersInv

\* What happens around a parse only adds to its owners.
LEMMA WitnessKeeps ==
    ASSUME EffectInv, Witness, trusted' \in BOOLEAN
    PROVE  /\ EffectInv'
           /\ parse.pc # "idle" => parse'.pc # "idle"
           /\ parse'.pc = "idle" => parse'.sent = NoDevice
  <1>1. CASE parse.pc = "idle"
    BY <1>1, RestingType DEF Witness, EffectInv, EffectTypeOK, OwnersInv, Resting
  <1>2. CASE parse.pc # "idle"
    <2>1. PICK a \in {parse.to} :
            parse' = [parse EXCEPT !.calm = @ /\ InOrder(a)' /\ NewestOwners(a)' = NewestOwners(a),
                                   !.owners = @ \cup NewestOwners(a)']
      BY <1>2 DEF Witness
    <2> DEFINE now == NewestOwners(a)'
               calmly == InOrder(a)' /\ now = NewestOwners(a)
    <2>2. now \subseteq Device
      BY IndexAssumption DEF NewestOwners, IndexAssumption
    <2>3. calmly \in BOOLEAN
      BY DEF InOrder
    <2>4. parse' = [parse EXCEPT !.calm = @ /\ calmly, !.owners = @ \cup now]
      BY <2>1
    <2>5. parse'.to = a => NewestOwners(parse.to)' = now
      OBVIOUS
    <2> HIDE DEF now, calmly
    <2>6. /\ parse' \in [pc : {"idle", "filter", "lookup", "trust"}, to : Xlm, kind : Kind,
                         device : Device \cup {NoDevice}, sent : Device \cup {NoDevice},
                         calm : BOOLEAN, owners : SUBSET Device]
          /\ parse'.pc = parse.pc
          /\ parse'.to = a
          /\ parse'.device = parse.device
          /\ parse'.owners = parse.owners \cup now
      BY <2>2, <2>3, <2>4 DEF EffectInv, EffectTypeOK
    <2> QED BY <1>2, <2>5, <2>6 DEF EffectInv, EffectTypeOK, OwnersInv
  <1> QED BY <1>1, <1>2

\* A parse that returns leaves nothing behind.
LEMMA ReturnKeeps ==
    ASSUME NEW d \in Device \cup {NoDevice}, NEW calm \in BOOLEAN, Return(d, calm)
    PROVE  EffectInv' /\ parse'.sent = d /\ parse'.pc = "idle"
  BY RestingType DEF Return, Resting, EffectInv, EffectTypeOK, OwnersInv

LEMMA RegistryStays ==
    ASSUME UNCHANGED registryVars, NEW CONSTANT a
    PROVE  NewestOwners(a)' = NewestOwners(a)
  BY DEF registryVars, NewestOwners, Registered, Newest

\* Nobody but an owner is notified by a step of the parse.
LEMMA ParseStepKeeps ==
    ASSUME EffectInv, ParseStep
    PROVE  /\ EffectInv'
           /\ (parse'.pc = "idle" /\ parse'.sent # NoDevice) => parse'.sent \in parse.owners
  <1> USE DEF EffectInv
  <1>1. parse.calm \in BOOLEAN /\ parse.device \in Device \cup {NoDevice}
    BY DEF EffectTypeOK
  <1>2. NoDevice \in Device \cup {NoDevice} /\ FALSE \in BOOLEAN
    OBVIOUS
  <1>3. ASSUME NEW pc \in {"lookup", "trust"}, NEW d \in Device \cup {NoDevice},
               parse.pc # "idle", UNCHANGED registryVars,
               pc = "trust" => d \in Device /\ d \in parse.owners,
               Continue(pc, d)
        PROVE  EffectInv' /\ parse'.pc # "idle"
    <2>1. parse' = [parse EXCEPT !.pc = pc, !.device = d] /\ trusted' = trusted
      BY <1>3 DEF Continue
    <2>2. \A a : a = parse.to => NewestOwners(a)' = NewestOwners(a)
      BY <1>3, RegistryStays
    <2>3. parse' \in [pc : {"idle", "filter", "lookup", "trust"}, to : Xlm, kind : Kind,
                      device : Device \cup {NoDevice}, sent : Device \cup {NoDevice},
                      calm : BOOLEAN, owners : SUBSET Device]
          /\ parse'.pc = pc /\ parse'.to = parse.to /\ parse'.device = d
          /\ parse'.owners = parse.owners
      BY <2>1, <1>3 DEF EffectTypeOK
    <2> DEFINE now == NewestOwners(parse.to)'
    <2>4. now = NewestOwners(parse.to)
      BY <2>2, <2>3
    <2> QED BY <1>3, <2>1, <2>3, <2>4, EffectAssumption DEF EffectTypeOK, OwnersInv, EffectAssumption
  <1>4. ASSUME Ignore
        PROVE  EffectInv' /\ parse'.sent = NoDevice
    BY <1>4, <1>1, <1>2, ReturnKeeps DEF Ignore
  <1>5. ASSUME NEW d \in Device \cup {NoDevice}, Notify(d)
        PROVE  EffectInv' /\ parse'.sent = d
    BY <1>5, <1>1, ReturnKeeps DEF Notify
  <1>6. CASE Filter
    BY <1>6, <1>2, <1>3, <1>4 DEF Filter, vars
  <1>7. CASE Lookup
    <2>1. OwnerOf(parse.to) \subseteq Device /\ OwnerOf(parse.to) \subseteq parse.owners
      BY <1>7, OwnersAreDevices DEF Lookup, OwnersInv
    <2>2. UNCHANGED registryVars /\ parse.pc # "idle"
      BY <1>7 DEF Lookup, vars
    <2> QED BY <1>7, <1>3, <1>4, <1>5, <2>1, <2>2 DEF Lookup
  <1>8. CASE Trustline
    <2>1. parse.device \in parse.owners
      BY <1>8 DEF Trustline, OwnersInv
    <2> QED BY <1>8, <1>1, <1>4, <1>5, <2>1 DEF Trustline
  <1>9. CASE EffectFails
    BY <1>9, <1>2, ReturnKeeps DEF EffectFails
  <1> QED BY <1>6, <1>7, <1>8, <1>9 DEF ParseStep

\* Every step keeps the invariant and notifies nobody but an owner.
LEMMA StepKeeps ==
    ASSUME EffectInv, [EffectNext]_allVars
    PROVE  EffectInv' /\ ((Ends /\ parse'.sent # NoDevice) => parse'.sent \in parse.owners)
  <1>1. CASE Around
    <2>1. CASE Witness /\ UNCHANGED trusted
      BY <2>1, WitnessKeeps DEF EffectInv, EffectTypeOK, Ends
    <2>2. CASE trusted' = FALSE /\ parse' = Resting
      BY <2>2, RestingType DEF EffectInv, EffectTypeOK, OwnersInv, Ends, Resting
    <2> QED BY <1>1, <2>1, <2>2 DEF Around
  <1>2. CASE TrustChanges
    BY <1>2, WitnessKeeps DEF TrustChanges, EffectInv, EffectTypeOK, Ends
  <1>3. ASSUME NEW a \in Xlm, NEW k \in Kind, Parse(a, k)
        PROVE  EffectInv' /\ ~Ends
    <2> DEFINE calmly == InOrder(a)'
               owners == NewestOwners(a)
    <2>1. calmly \in BOOLEAN
      BY DEF InOrder
    <2>2. owners \subseteq Device
      BY OwnersAreDevices
    <2>3. parse' = [Resting EXCEPT !.pc = "filter", !.to = a, !.kind = k,
                                   !.calm = calmly, !.owners = owners]
      BY <1>3 DEF Parse
    <2> HIDE DEF calmly
    <2>4. parse' \in [pc : {"idle", "filter", "lookup", "trust"}, to : Xlm, kind : Kind,
                      device : Device \cup {NoDevice}, sent : Device \cup {NoDevice},
                      calm : BOOLEAN, owners : SUBSET Device]
          /\ parse'.pc = "filter" /\ parse'.to = a /\ parse'.owners = owners
      BY <1>3, <2>1, <2>2, <2>3, RestingType
    <2>5. \A b : NewestOwners(b)' = NewestOwners(b)
      BY <1>3, RegistryStays DEF Parse, vars
    <2>6. NewestOwners(parse.to)' \subseteq parse'.owners
      BY <2>4, <2>5
    <2> QED BY <1>3, <2>4, <2>6 DEF Parse, EffectInv, EffectTypeOK, OwnersInv, Ends
  <1>4. CASE ParseStep
    BY <1>4, ParseStepKeeps DEF Ends
  <1>5. CASE UNCHANGED allVars
    <2>1. UNCHANGED registryVars /\ parse' = parse /\ trusted' = trusted
      BY <1>5 DEF allVars, vars, effectVars
    <2>2. \A a : NewestOwners(a)' = NewestOwners(a)
      BY <2>1, RegistryStays
    <2>3. NewestOwners(parse.to)' = NewestOwners(parse.to)
      BY <2>1, <2>2
    <2> QED BY <2>1, <2>3 DEF EffectInv, EffectTypeOK, OwnersInv, Ends
  <1> QED BY <1>1, <1>2, <1>3, <1>4, <1>5 DEF EffectNext

LEMMA StartsTrue == EffectInit => EffectInv
  BY RestingType DEF EffectInit, EffectInv, EffectTypeOK, OwnersInv, Resting

\* Every variable of the effect pipeline stays in its range, and the trustline is asked
\* about only for a device that was found, whatever happens to the hash and the registry.
THEOREM EffectTypeCorrect == EffectSpec => []EffectTypeOK
  <1>1. EffectInv /\ [EffectNext]_allVars => EffectInv'
    BY StepKeeps
  <1> QED BY StartsTrue, <1>1, PTL DEF EffectSpec, EffectInv

\* parseStellarEffect notifies nobody but a device that was the newest of the address at
\* some moment of the parse.
THEOREM OwnersOnly == EffectSpec => OnlyOwnersNotified
  <1>1. EffectInv /\ [EffectNext]_allVars => EffectInv'
    BY StepKeeps
  <1>2. EffectInv /\ [EffectNext]_allVars =>
          [(Ends /\ parse'.sent # NoDevice) => parse'.sent \in parse.owners]_allVars
    BY StepKeeps
  <1> QED BY StartsTrue, <1>1, <1>2, PTL DEF EffectSpec, OnlyOwnersNotified

-----------------------------------------------------------------------------
(***************************************************************************)
(* From the registration to the push.  What the parse reads of the hash    *)
(* and of the registry is what AddressIndexFollowsProofs says of them:     *)
(* the steps of the parse leave them alone.                                *)
(***************************************************************************)

\* Around the parse, the hash and the registry go on as in AddressIndex.
LEMMA IndexGoesOn == EffectSpec => [](TypeOK /\ IndexInv)
  <1>1. EffectInit => TypeOK /\ IndexInv
    BY InitType, InitIndex DEF EffectInit
  <1>2. ASSUME TypeOK, IndexInv, [EffectNext]_allVars
        PROVE  (TypeOK /\ IndexInv)'
    <2>1. CASE Next \/ UNCHANGED vars
      BY <1>2, <2>1, NextType, NextIndex
    <2>2. CASE EffectFails
      <3>1. IndexInv'
        BY <1>2, <2>2, SameIndex DEF EffectFails, registryVars, bootVars
      <3>2. faults' \in 0..MaxFaults
        BY <1>2, <2>2, IndexAssumption DEF EffectFails, Fault, TypeOK
      <3>3. TypeOK'
        BY <1>2, <2>2, <3>2 DEF EffectFails, TypeOK, registryVars, bootVars, hookVars
      <3> QED BY <3>1, <3>3
    <2> QED
      BY <1>2, <2>1, <2>2
         DEF EffectNext, Around, TrustChanges, Parse, ParseStep, Filter, Lookup, Trustline, allVars
  <1> QED BY <1>1, <1>2, PTL DEF EffectSpec

\* An address that can be notified has one newest wallet, and its device has a token.
LEMMA OneOwner ==
    ASSUME TypeOK, Ordered, NEW a, Reach(a)
    PROVE  \E d \in Device : NewestOwners(a) = {d} /\ hasToken[d]
  <1>1. PICK w \in Wallet : /\ Registered(w)
                            /\ XlmOf[w] = a
                            /\ hasToken[DeviceOf[w]]
                            /\ Newest(w, Wallet)
    BY DEF Reach
  <1>2. ASSUME NEW v \in Wallet, Registered(v), XlmOf[v] = a, Newest(v, Wallet)
        PROVE  v = w
    <2>1. created[v] <= created[w] /\ created[w] <= created[v]
      BY <1>1, <1>2 DEF Newest
    <2>2. created[v] \in Nat /\ created[w] \in Nat
      BY DEF TypeOK
    <2> QED BY <1>2, <2>1, <2>2 DEF Ordered
  <1>3. NewestOwners(a) = {DeviceOf[w]}
    BY <1>1, <1>2 DEF NewestOwners
  <1> QED BY <1>1, <1>3, IndexAssumption

(***************************************************************************)
(* A calm parse has an address that is in order now, and keeps the device  *)
(* of its newest wallet while it asks for the trustline.                   *)
(***************************************************************************)
CalmInv ==
    (parse.pc # "idle" /\ parse.calm) =>
        /\ InOrder(parse.to)
        /\ parse.pc = "trust" => NewestOwners(parse.to) = {parse.device}

CalmEnd == (Ends /\ parse'.calm /\ parse.kind # "dust") => NewestOwners(parse.to) = {parse'.sent}

\* A parse whose address is in order finds it in the hash.
LEMMA OrderIsTracked ==
    ASSUME IndexInv, EffectTypeOK, InOrder(parse.to)
    PROVE  Tracked(parse.to)
  BY DEF IndexInv, EffectTypeOK, InOrder, Followed, Agrees

\* What happens around a parse keeps it calm only while its address stays in order.
LEMMA WitnessCalm ==
    ASSUME EffectTypeOK, CalmInv, Witness
    PROVE  CalmInv' /\ ~Ends
  <1>1. CASE parse.pc = "idle"
    BY <1>1 DEF Witness, CalmInv, Resting, Ends
  <1>2. CASE parse.pc # "idle"
    <2>1. PICK a \in {parse.to} :
            parse' = [parse EXCEPT !.calm = @ /\ InOrder(a)' /\ NewestOwners(a)' = NewestOwners(a),
                                   !.owners = @ \cup NewestOwners(a)']
      BY <1>2 DEF Witness
    <2> DEFINE ordered == InOrder(a)'
               now == NewestOwners(a)'
    <2>2. /\ parse'.to = a => InOrder(parse.to)' = ordered
          /\ parse'.to = a => NewestOwners(parse.to)' = now
      OBVIOUS
    <2>3. parse' = [parse EXCEPT !.calm = @ /\ ordered /\ now = NewestOwners(a),
                                 !.owners = @ \cup now]
      BY <2>1
    <2> HIDE DEF ordered, now
    <2>4. /\ parse'.pc = parse.pc /\ parse'.to = a /\ parse'.device = parse.device
          /\ parse'.calm = (parse.calm /\ ordered /\ now = NewestOwners(a))
      BY <2>3 DEF EffectTypeOK
    <2> QED BY <1>2, <2>2, <2>4 DEF CalmInv, Ends
  <1> QED BY <1>1, <1>2

LEMMA OrderStays ==
    ASSUME UNCHANGED vars, UNCHANGED trusted, NEW CONSTANT a
    PROVE  InOrder(a)' = InOrder(a) /\ NewestOwners(a)' = NewestOwners(a)
  BY RegistryStays
     DEF vars, bootVars, registryVars, InOrder, Asking, Loading, Reach, Registered, Newest

\* A calm parse goes on with the device of the newest wallet until it has notified it.
LEMMA ParseStepCalm ==
    ASSUME TypeOK, IndexInv, EffectTypeOK, CalmInv, ParseStep
    PROVE  CalmInv' /\ CalmEnd
  <1>1. ASSUME NEW pc \in {"lookup", "trust"}, NEW d, parse.pc # "idle", UNCHANGED vars,
               (pc = "trust" /\ parse.calm) => NewestOwners(parse.to) = {d},
               Continue(pc, d)
        PROVE  CalmInv' /\ CalmEnd
    <2>1. parse' = [parse EXCEPT !.pc = pc, !.device = d] /\ UNCHANGED trusted
      BY <1>1 DEF Continue
    <2>2. /\ parse'.pc = pc /\ parse'.to = parse.to /\ parse'.device = d
          /\ parse'.calm = parse.calm
      BY <2>1 DEF EffectTypeOK
    <2>3. \A a : InOrder(a)' = InOrder(a) /\ NewestOwners(a)' = NewestOwners(a)
      BY <1>1, <2>1, OrderStays
    <2>4. /\ InOrder(parse.to)' = InOrder(parse.to)
          /\ NewestOwners(parse.to)' = NewestOwners(parse.to)
      BY <2>2, <2>3
    <2> QED BY <1>1, <2>2, <2>4 DEF CalmInv, CalmEnd, Ends
  <1>2. ASSUME NEW d, NEW calm, Return(d, calm)
        PROVE  CalmInv' /\ parse'.sent = d /\ parse'.calm = calm
    BY <1>2 DEF Return, Resting, CalmInv
  <1>3. CASE Filter
    <2>1. parse.calm => Tracked(parse.to)
      BY <1>3, OrderIsTracked DEF Filter, CalmInv
    <2> QED BY <1>1, <1>2, <1>3, <2>1 DEF Filter, Ignore, CalmEnd
  <1>4. CASE Lookup
    <2>1. parse.calm => \E d \in Device : OwnerOf(parse.to) = {d} /\ hasToken[d]
      BY <1>4, OneOwner, OwnersAreDevices DEF Lookup, CalmInv, InOrder, IndexInv
    <2>2. OwnerOf(parse.to) = NewestOwners(parse.to)
      BY OwnersAreDevices
    <2>3. CASE ~(\E d \in OwnerOf(parse.to) : hasToken[d]) /\ Ignore
      BY <1>2, <2>1, <2>3 DEF Ignore, CalmEnd
    <2>4. ASSUME NEW d \in OwnerOf(parse.to),
                 \/ parse.kind = "notice" /\ Notify(d)
                 \/ parse.kind = "dust" /\ Ignore
                 \/ parse.kind = "credit" /\ Continue("trust", d)
          PROVE  CalmInv' /\ CalmEnd
      BY <1>1, <1>2, <1>4, <2>1, <2>2, <2>4 DEF Lookup, Ignore, Notify, CalmEnd
    <2> QED BY <1>4, <2>3, <2>4 DEF Lookup
  <1>5. CASE Trustline
    <2>1. parse.calm => trusted /\ NewestOwners(parse.to) = {parse.device}
      BY <1>5 DEF Trustline, CalmInv, InOrder
    <2> QED BY <1>2, <1>5, <2>1 DEF Trustline, Notify, Ignore, CalmEnd
  <1>6. CASE EffectFails
    BY <1>2, <1>6 DEF EffectFails, CalmEnd
  <1> QED BY <1>3, <1>4, <1>5, <1>6 DEF ParseStep

LEMMA StepCalm ==
    ASSUME TypeOK, IndexInv, EffectTypeOK, CalmInv, [EffectNext]_allVars
    PROVE  CalmInv' /\ CalmEnd
  <1>1. CASE Around
    <2>1. CASE Witness
      BY <2>1, WitnessCalm DEF CalmEnd
    <2>2. CASE parse' = Resting
      BY <2>2 DEF CalmInv, CalmEnd, Resting
    <2> QED BY <1>1, <2>1, <2>2 DEF Around
  <1>2. CASE TrustChanges
    BY <1>2, WitnessCalm DEF TrustChanges, CalmEnd
  <1>3. ASSUME NEW a \in Xlm, NEW k \in Kind, Parse(a, k)
        PROVE  CalmInv' /\ CalmEnd
    <2> DEFINE ordered == InOrder(a)'
    <2>1. ordered \in BOOLEAN
      BY DEF InOrder
    <2>2. parse' = [Resting EXCEPT !.pc = "filter", !.to = a, !.kind = k,
                                   !.calm = ordered, !.owners = NewestOwners(a)]
      BY <1>3 DEF Parse
    <2>3. parse'.to = a => InOrder(parse.to)' = ordered
      OBVIOUS
    <2> HIDE DEF ordered
    <2>4. parse'.pc = "filter" /\ parse'.to = a /\ parse'.calm = ordered
      BY <2>2 DEF Resting
    <2> QED BY <1>3, <2>3, <2>4 DEF Parse, CalmInv, CalmEnd, Ends
  <1>4. CASE ParseStep
    BY <1>4, ParseStepCalm
  <1>5. CASE UNCHANGED allVars
    <2>1. parse' = parse /\ UNCHANGED vars /\ UNCHANGED trusted
      BY <1>5 DEF allVars, effectVars
    <2>2. \A a : InOrder(a)' = InOrder(a) /\ NewestOwners(a)' = NewestOwners(a)
      BY <2>1, OrderStays
    <2>3. /\ InOrder(parse.to)' = InOrder(parse.to)
          /\ NewestOwners(parse.to)' = NewestOwners(parse.to)
      BY <2>1, <2>2
    <2> QED BY <2>1, <2>3 DEF CalmInv, CalmEnd, Ends
  <1> QED BY <1>1, <1>2, <1>3, <1>4, <1>5 DEF EffectNext

\* From the registration of a wallet to the push, for any registry, hash, pages of the
\* loader, failures and crashes: an effect on an address that is in order and stays so
\* during the parse notifies the device of its newest wallet.
THEOREM CalmNotifies == EffectSpec => CalmIsNotified
  <1>1. EffectInit => CalmInv
    BY DEF EffectInit, CalmInv, Resting
  <1>2. TypeOK /\ IndexInv /\ EffectTypeOK /\ CalmInv /\ [EffectNext]_allVars => CalmInv'
    BY StepCalm
  <1>3. TypeOK /\ IndexInv /\ EffectTypeOK /\ CalmInv /\ [EffectNext]_allVars => [CalmEnd]_allVars
    BY StepCalm
  <1>4. CalmIsNotified <=> [][CalmEnd]_allVars
    BY PTL DEF CalmIsNotified, CalmEnd
  <1> QED BY <1>1, <1>2, <1>3, <1>4, IndexGoesOn, EffectTypeCorrect, PTL DEF EffectSpec

-----------------------------------------------------------------------------
(***************************************************************************)
(* A parse comes to an end.  Fairness is stated without ENABLED: in every  *)
(* place it can stand, what a parse awaits is answered or fails, so it is  *)
(* enough to say that a parse that stays under way takes a step.           *)
(***************************************************************************)
ParseAnswered == []([](parse.pc # "idle") => <><<ParseStep>>_allVars)

\* A step of the parse takes it to its next place, or ends it.
LEMMA ParseStepMoves ==
    ASSUME EffectTypeOK, ParseStep
    PROVE  \/ parse'.pc = "idle"
           \/ parse.pc = "filter" /\ parse'.pc = "lookup"
           \/ parse.pc = "lookup" /\ parse'.pc = "trust"
  <1>1. \A d, calm : Return(d, calm) => parse'.pc = "idle"
    BY DEF Return, Resting
  <1>2. \A pc, d : Continue(pc, d) => parse'.pc = pc
    BY DEF Continue, EffectTypeOK
  <1>3. CASE Filter
    BY <1>1, <1>2, <1>3 DEF Filter, Ignore
  <1>4. CASE Lookup
    BY <1>1, <1>2, <1>4 DEF Lookup, Ignore, Notify
  <1>5. CASE Trustline \/ EffectFails
    BY <1>1, <1>5 DEF Trustline, EffectFails, Ignore, Notify
  <1> QED BY <1>3, <1>4, <1>5 DEF ParseStep

\* Nothing else moves a parse that is under way, but for a death of the process.
LEMMA OthersLeaveParse ==
    ASSUME EffectTypeOK, parse.pc # "idle", [EffectNext]_allVars, ~ParseStep
    PROVE  parse'.pc \in {parse.pc, "idle"}
  <1>1. Witness => parse'.pc = parse.pc
    BY DEF Witness, EffectTypeOK
  <1>2. CASE Around \/ TrustChanges
    BY <1>1, <1>2 DEF Around, TrustChanges, Resting
  <1>3. CASE UNCHANGED allVars
    BY <1>3 DEF allVars, effectVars
  <1> QED BY <1>2, <1>3 DEF EffectNext, Parse

\* parseStellarEffect returns, so that the scan of its ledger goes on, as long as what it
\* awaits is answered or fails: whatever it finds in the hash and the registry, whatever
\* changes and fails meanwhile.
THEOREM ParsesReturn == EffectSpec /\ ParseAnswered => ParseReturns
  <1> DEFINE at(pc) == parse.pc = pc
  <1>1. EffectTypeOK => at("filter") \/ at("lookup") \/ at("trust") \/ at("idle")
    BY DEF EffectTypeOK
  <1>2. EffectTypeOK /\ at("filter") /\ [EffectNext]_allVars => (at("filter") \/ at("lookup") \/ at("idle"))'
    BY ParseStepMoves, OthersLeaveParse
  <1>3. EffectTypeOK /\ at("lookup") /\ [EffectNext]_allVars => (at("lookup") \/ at("trust") \/ at("idle"))'
    BY ParseStepMoves, OthersLeaveParse
  <1>4. EffectTypeOK /\ at("trust") /\ [EffectNext]_allVars => (at("trust") \/ at("idle"))'
    BY ParseStepMoves, OthersLeaveParse
  <1>5. EffectTypeOK /\ at("filter") /\ <<ParseStep>>_allVars => (at("lookup") \/ at("idle"))'
    BY ParseStepMoves
  <1>6. EffectTypeOK /\ at("lookup") /\ <<ParseStep>>_allVars => (at("trust") \/ at("idle"))'
    BY ParseStepMoves
  <1>7. EffectTypeOK /\ at("trust") /\ <<ParseStep>>_allVars => at("idle")'
    BY ParseStepMoves
  <1>8. (parse.pc # "idle" <=> ~at("idle")) /\ (parse.pc = "idle" <=> at("idle"))
    OBVIOUS
  <1> HIDE DEF at
  <1> QED
    BY <1>1, <1>2, <1>3, <1>4, <1>5, <1>6, <1>7, <1>8, EffectTypeCorrect, PTL
    DEF EffectSpec, ParseAnswered, ParseReturns

=============================================================================
