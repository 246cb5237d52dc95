------------------------- MODULE AddressIndexProofs -------------------------
(* Proofs about AddressIndex, for any wallets, hooks, page size and bounds. *)
EXTENDS AddressIndex, FiniteSetTheorems, TLAPS

LEMMA AddressType ==
  /\ \A w \in Wallet : XlmOf[w] # NoAddress => XlmOf[w] \in Xlm
  /\ \A w \in Wallet : MultiOf[w] # NoAddress => MultiOf[w] \in Multi
  /\ \A w \in Wallet : {XlmOf[w]} \ {NoAddress} \subseteq Xlm
  /\ \A w \in Wallet : Contested(w) \subseteq Xlm
  /\ \A k : Split(k) \subseteq Xlm
  /\ Halfway \subseteq Xlm
  BY DEF Xlm, Multi, Contested, Split, Halfway

LEMMA PlaceType ==
  /\ \A m \in Multi, op \in {"put", "delete"}, k \in Hook : <<m, op, k>> \in Place
  /\ \A p \in Place : p[1] \in Multi /\ p[2] \in {"put", "delete"} /\ p[3] \in Hook
                       /\ p = <<p[1], p[2], p[3]>>
  /\ 1 \in Hook
  /\ \A k \in Hook : k \in Nat /\ (k # Hooks => k + 1 \in Hook) /\ k..Hooks \subseteq Hook
  BY IndexAssumption DEF Place, Hook

-----------------------------------------------------------------------------
(* Type correctness *)

LEMMA InitType ==
  Init => TypeOK
  BY IndexAssumption DEF Init, TypeOK, NoRequest

LEMMA RegistryType ==
  ASSUME TypeOK
  PROVE  /\ \A w \in Wallet : Register(w) \/ Deregister(w) => TypeOK'
         /\ \A d \in Device : TokenChanges(d) => TypeOK'
<1>. USE IndexAssumption DEF TypeOK, Change, registryVars, bootVars, hookVars
<1>1. ASSUME TypeOK PROVE changes < MaxChanges => changes + 1 \in 0..MaxChanges
  OBVIOUS
<1>2. ASSUME NEW w \in Wallet, Register(w) PROVE TypeOK'
  <2>1. Cardinality({v \in Wallet : Registered(v)}) \in Nat
    BY FS_Subset, FS_CardinalityType
  <2>2. created' \in [Wallet -> Nat]
    BY <1>2, <2>1 DEF Register
  <2>3. request' \in [Wallet -> [pc : {"idle", "put", "store", "delete"}, token : BOOLEAN]]
    BY <1>2 DEF Register, Ask
  <2>4. spoiled' \subseteq Xlm
    BY <1>2, AddressType DEF Register
  <2>. QED
    BY <1>1, <1>2, <2>2, <2>3, <2>4 DEF Register
<1>3. ASSUME NEW w \in Wallet, Deregister(w) PROVE TypeOK'
  <2>1. created' \in [Wallet -> Nat]
    <3>1. \A v \in Wallet : created[v] \in Nat /\ (created[v] > created[w] => created[v] - 1 \in Nat)
      OBVIOUS
    <3>. QED
      BY <1>3, <3>1 DEF Deregister
  <2>2. request' \in [Wallet -> [pc : {"idle", "put", "store", "delete"}, token : BOOLEAN]]
    BY <1>3 DEF Deregister, Ask
  <2>3. spoiled' \subseteq Xlm
    BY <1>3, AddressType DEF Deregister
  <2>. QED
    BY <1>1, <1>3, <2>1, <2>2, <2>3 DEF Deregister
<1>4. ASSUME NEW d \in Device, TokenChanges(d) PROVE TypeOK'
  <2>1. spoiled' \subseteq Xlm
    BY <1>4 DEF TokenChanges, Xlm
  <2>. QED
    BY <1>1, <1>4, <2>1 DEF TokenChanges
<1>. QED
  BY <1>2, <1>3, <1>4

\* A request that is served or dropped; Emit starts a chain at the first hook.
LEMMA RequestType ==
  ASSUME TypeOK, NEW w \in Wallet, Refused(w) \/ Serve(w)
  PROVE  TypeOK'
<1>. USE IndexAssumption DEF TypeOK, registryVars, bootVars, hookVars
<1>1. ASSUME Drop(w)
      PROVE  /\ request' \in [Wallet -> [pc : {"idle", "put", "store", "delete"}, token : BOOLEAN]]
             /\ spoiled' \subseteq Xlm
  BY <1>1, AddressType DEF Drop, NoRequest
<1>2. ASSUME NEW op \in {"put", "delete"}, Emit(w, op)
      PROVE  /\ hook' \in [Hook -> SUBSET Multi]
             /\ chain' \in [Place -> Nat]
             /\ garbled' \subseteq Hook \X Multi
             /\ lastOp' \in [Multi -> {"put", "delete"}]
  <2>1. CASE MultiOf[w] = NoAddress
    BY <1>2, <2>1 DEF Emit
  <2>2. CASE MultiOf[w] # NoAddress
    <3>1. MultiOf[w] \in Multi /\ <<MultiOf[w], op, 1>> \in Place
      BY <2>2, AddressType, PlaceType
    <3>2. chain[<<MultiOf[w], op, 1>>] \in Nat
      BY <3>1
    <3>3. chain' \in [Place -> Nat]
      <4>. DEFINE p == <<MultiOf[w], op, 1>>
      <4>1. chain' = [chain EXCEPT ![p] = @ + 1]
        BY <1>2, <2>2 DEF Emit
      <4>2. p \in Place /\ chain[p] \in Nat
        BY <3>1, <3>2
      <4>. HIDE DEF p
      <4>. QED
        BY <4>1, <4>2
    <3>4. garbled' \subseteq Hook \X Multi
      BY <1>2, <2>2, <3>1 DEF Emit
    <3>5. hook' = hook /\ lastOp' \in [Multi -> {"put", "delete"}]
      BY <1>2, <2>2, <3>1 DEF Emit
    <3>. QED
      BY <3>3, <3>4, <3>5
  <2>. QED
    BY <2>1, <2>2
<1>3. CASE Refused(w)
  BY <1>1, <1>3 DEF Refused
<1>4. CASE RequestFails(w)
  BY <1>1, <1>4 DEF RequestFails, Fault
<1>5. CASE PutFinds(w)
  <2>1. CASE XlmOf[w] = NoAddress
    <3>0. request' = [request EXCEPT ![w] = NoRequest]
      BY <1>5, <2>1 DEF PutFinds
    <3>1. request' \in [Wallet -> [pc : {"idle", "put", "store", "delete"}, token : BOOLEAN]]
      BY <3>0 DEF NoRequest
    <3>. QED
      BY <1>2, <1>5, <2>1, <3>1 DEF PutFinds
  <2>2. CASE XlmOf[w] # NoAddress
    <3>1. hasToken[DeviceOf[w]] \in BOOLEAN
      OBVIOUS
    <3>2. request' \in [Wallet -> [pc : {"idle", "put", "store", "delete"}, token : BOOLEAN]]
      <4>1. request[w] \in [pc : {"idle", "put", "store", "delete"}, token : BOOLEAN]
        OBVIOUS
      <4>2. request' = [request EXCEPT ![w].pc = "store", ![w].token = hasToken[DeviceOf[w]]]
        BY <1>5, <2>2 DEF PutFinds
      <4>3. request'[w] = [pc |-> "store", token |-> hasToken[DeviceOf[w]]]
        BY <4>1, <4>2
      <4>4. DOMAIN request' = Wallet /\ \A v \in Wallet \ {w} : request'[v] = request[v]
        BY <4>2
      <4>5. request' = [v \in Wallet |-> request'[v]]
        BY <4>2
      <4>. QED
        BY <3>1, <4>3, <4>4, <4>5
    <3>. QED
      BY <1>5, <2>2, <3>2 DEF PutFinds
  <2>. QED
    BY <2>1, <2>2
<1>6. CASE PutStores(w)
  <2>1. request' \in [Wallet -> [pc : {"idle", "put", "store", "delete"}, token : BOOLEAN]]
    BY <1>6 DEF PutStores, NoRequest
  <2>2. index' \in [Xlm -> {"none", "blank", "token"}]
    BY <1>6 DEF PutStores, Stored
  <2>. QED
    BY <1>2, <1>6, <2>1, <2>2 DEF PutStores
<1>7. CASE Deletes(w)
  <2>1. request' \in [Wallet -> [pc : {"idle", "put", "store", "delete"}, token : BOOLEAN]]
    BY <1>7 DEF Deletes, NoRequest
  <2>2. index' \in [Xlm -> {"none", "blank", "token"}]
    BY <1>7 DEF Deletes
  <2>. QED
    BY <1>2, <1>7, <2>1, <2>2 DEF Deletes
<1>. QED
  BY <1>3, <1>4, <1>5, <1>6, <1>7 DEF Serve

LEMMA ChainType ==
  ASSUME TypeOK, NEW m \in Multi, NEW op \in {"put", "delete"}, NEW k \in Hook,
         Patch(m, op, k) \/ PatchRejected(m, op, k) \/ PatchThrows(m, op, k)
  PROVE  TypeOK'
<1>. USE IndexAssumption DEF TypeOK, registryVars, bootVars, hookVars
<1>1. <<m, op, k>> \in Place /\ chain[<<m, op, k>>] > 0 /\ chain[<<m, op, k>>] \in Nat
  BY PlaceType DEF Patch, PatchRejected, PatchThrows
<1>2. Ended(m, op, k) \in [Place -> Nat]
  BY <1>1 DEF Ended
<1>3. Onward(m, op, k) => chain' \in [Place -> Nat]
  BY <1>2, PlaceType DEF Onward
<1>4. Patched(m, op, k) \in [Hook -> SUBSET Multi]
  BY DEF Patched
<1>5. CASE Patch(m, op, k)
  BY <1>3, <1>4, <1>5 DEF Patch
<1>6. CASE PatchRejected(m, op, k)
  BY <1>3, <1>6 DEF PatchRejected, Fault
<1>7. CASE PatchThrows(m, op, k)
  <2>1. (k..Hooks) \X {m} \subseteq Hook \X Multi
    BY PlaceType
  <2>2. garbled' \subseteq Hook \X Multi
    BY <1>7, <2>1 DEF PatchThrows
  <2>3. hook' \in [Hook -> SUBSET Multi]
    BY <1>4, <1>7 DEF PatchThrows
  <2>4. faults' \in 0..MaxFaults
    BY <1>7 DEF PatchThrows, Fault
  <2>. QED
    BY <1>2, <1>7, <2>2, <2>3, <2>4 DEF PatchThrows
<1>. QED
  BY <1>5, <1>6, <1>7

LEMMA ProcessType ==
  ASSUME TypeOK, Die \/ (\E load \in BOOLEAN : Restart(load)) \/ Load
  PROVE  TypeOK'
<1>. USE IndexAssumption DEF TypeOK, registryVars, bootVars, hookVars
<1>1. CASE Die
  <2>1. garbled' \subseteq Hook \X Multi
    <3>1. \A p \in InFlight : (p[3]..Hooks) \X {p[1]} \subseteq Hook \X Multi
      BY PlaceType DEF InFlight
    <3>. QED
      BY <1>1, <3>1 DEF Die
  <2>2. spoiled' \subseteq Xlm
    BY <1>1, AddressType DEF Die, Xlm
  <2>3. request' \in [Wallet -> [pc : {"idle", "put", "store", "delete"}, token : BOOLEAN]]
    BY <1>1 DEF Die, NoRequest
  <2>4. DOMAIN page' \subseteq Xlm /\ \A a \in DOMAIN page' : page'[a] \in BOOLEAN
    BY <1>1 DEF Die
  <2>5. crashes' \in 0..MaxCrashes
    BY <1>1 DEF Die
  <2>6. chain' \in [Place -> Nat]
    BY <1>1 DEF Die
  <2>. QED
    BY <1>1, <2>1, <2>2, <2>3, <2>4, <2>5, <2>6 DEF Die
<1>2. ASSUME NEW load \in BOOLEAN, Restart(load) PROVE TypeOK'
  BY <1>2 DEF Restart
<1>3. CASE LoadReads
  <2>1. DOMAIN Entries(Page) \subseteq Xlm
    BY DEF Entries, Page, Stellar, Xlm
  <2>2. \A a \in DOMAIN Entries(Page) : Entries(Page)[a] \in BOOLEAN
    BY DEF Entries
  <2>3. DOMAIN page' \subseteq Xlm /\ \A a \in DOMAIN page' : page'[a] \in BOOLEAN
    BY <1>3, <2>1, <2>2 DEF LoadReads
  <2>4. spoiled' \subseteq Xlm
    BY <1>3 DEF LoadReads, Heal
  <2>. QED
    BY <1>3, <2>3, <2>4 DEF LoadReads
<1>4. CASE LoadStores
  <2>1. index' \in [Xlm -> {"none", "blank", "token"}]
    BY <1>4 DEF LoadStores, Stored
  <2>2. offset' \in Nat
    BY <1>4 DEF LoadStores
  <2>3. DOMAIN page' = {}
    BY <1>4 DEF LoadStores
  <2>. QED
    BY <1>4, <2>1, <2>2, <2>3 DEF LoadStores
<1>. QED
  BY <1>1, <1>2, <1>3, <1>4 DEF Load

LEMMA NextType ==
  TypeOK /\ [Next]_vars => TypeOK'
<1>. SUFFICES ASSUME TypeOK, [Next]_vars PROVE TypeOK'
  OBVIOUS
<1>1. CASE Environment
  BY <1>1, RegistryType, RequestType, ProcessType, IndexAssumption DEF Environment
<1>2. CASE \E w \in Wallet : Serve(w)
  BY <1>2, RequestType
<1>3. CASE Chain
  BY <1>3, ChainType DEF Chain
<1>4. CASE Load
  BY <1>4, ProcessType
<1>5. CASE UNCHANGED vars
  BY <1>5 DEF vars, registryVars, bootVars, hookVars, TypeOK
<1>. QED
  BY <1>1, <1>2, <1>3, <1>4, <1>5 DEF Next

\* Every variable of the index and of the hooks stays in its range.
THEOREM TypeCorrect ==
  Spec => []TypeOK
  BY InitType, NextType, PTL DEF Spec

-----------------------------------------------------------------------------
(* The hooks follow the last event *)

\* The chains of one address.
Of(m) == {p \in InFlight : p[1] = m}

\* An address some hook of which nothing spoiled has at most one chain, of its last event.
OneChain ==
    \A m \in Multi : (\E k \in Hook : <<k, m>> \notin garbled) =>
        \A p, q \in Of(m) : p = q /\ chain[p] = 1 /\ p[2] = lastOp[m]

\* The hooks a chain has passed, and all of them when there is none, are as it wants them.
PassedFollow ==
    \A m \in Multi, k \in Hook :
        (<<k, m>> \notin garbled /\ \A p \in Of(m) : k < p[3]) =>
            (m \in hook[k] <=> lastOp[m] = "put")

HookInv == OneChain /\ PassedFollow

LEMMA HookInvSuffices ==
  HookInv => HooksFollow
  BY DEF HookInv, PassedFollow, HooksFollow, Of

LEMMA HookInit ==
  Init => HookInv
  BY DEF Init, HookInv, OneChain, PassedFollow, Of, InFlight

LEMMA HookUnchanged ==
  HookInv /\ UNCHANGED hookVars => HookInv'
  BY DEF HookInv, OneChain, PassedFollow, Of, InFlight, hookVars

\* A new chain is the only one of its address, or the address is spoiled at every hook.
LEMMA EmitHooks ==
  ASSUME TypeOK, HookInv, NEW w \in Wallet, NEW op \in {"put", "delete"}, Emit(w, op)
  PROVE  HookInv'
<1>. DEFINE m == MultiOf[w]
            p == <<m, op, 1>>
<1>1. CASE m = NoAddress
  BY <1>1, HookUnchanged DEF Emit
<1>2. CASE m # NoAddress
  <2>1. m \in Multi /\ p \in Place /\ p[1] = m /\ p[2] = op /\ p[3] = 1
    BY <1>2, AddressType, PlaceType
  <2>2. /\ chain' = [chain EXCEPT ![p] = @ + 1]
        /\ lastOp' = [lastOp EXCEPT ![m] = op]
        /\ garbled' = garbled \cup IF Of(m) # {} THEN Hook \X {m} ELSE {}
        /\ hook' = hook
    BY <1>2 DEF Emit, Of
  <2>3. chain \in [Place -> Nat] /\ lastOp \in [Multi -> {"put", "delete"}]
    BY DEF TypeOK
  <2>. HIDE DEF m, p
  <2>4. \A n \in Multi \ {m} : /\ Of(n)' = Of(n)
                               /\ \A q \in Of(n) : chain'[q] = chain[q]
                               /\ lastOp'[n] = lastOp[n]
                               /\ \A k \in Hook : <<k, n>> \in garbled' <=> <<k, n>> \in garbled
    BY <2>1, <2>2, <2>3 DEF Of, InFlight
  <2>5. CASE Of(m) # {}
    <3>1. \A k \in Hook : <<k, m>> \in garbled'
      BY <2>2, <2>5
    <3>2. OneChain'
      <4>. SUFFICES ASSUME NEW n \in Multi, NEW k \in Hook, <<k, n>> \notin garbled'
                    PROVE  (\A a, b \in Of(n) : a = b /\ chain[a] = 1 /\ a[2] = lastOp[n])'
        BY DEF OneChain
      <4>1. n # m /\ <<k, n>> \notin garbled
        BY <2>4, <3>1
      <4>2. \A a, b \in Of(n) : a = b /\ chain[a] = 1 /\ a[2] = lastOp[n]
        BY <4>1 DEF HookInv, OneChain
      <4>. QED
        BY <2>4, <4>1, <4>2
    <3>3. PassedFollow'
      BY <2>2, <2>4, <3>1 DEF HookInv, PassedFollow
    <3>. QED
      BY <3>2, <3>3 DEF HookInv
  <2>6. CASE Of(m) = {}
    <3>1. chain[p] = 0
      BY <2>1, <2>3, <2>6 DEF Of, InFlight
    <3>2. Of(m)' = {p} /\ chain'[p] = 1 /\ lastOp'[m] = op
      BY <2>1, <2>2, <2>3, <2>6, <3>1 DEF Of, InFlight
    <3>3. OneChain'
      BY <2>1, <2>4, <3>2 DEF HookInv, OneChain
    <3>4. \A k \in Hook : ~(k < 1)
      BY DEF Hook
    <3>5. PassedFollow'
      BY <2>1, <2>2, <2>4, <3>2, <3>4 DEF HookInv, PassedFollow
    <3>. QED
      BY <3>3, <3>5 DEF HookInv
  <2>. QED
    BY <2>5, <2>6
<1>. QED
  BY <1>1, <1>2

\* What the three outcomes of a PATCH have in common: only hook k is touched, only about
\* m, and the chain leaves it behind.
LEMMA PatchHooks ==
  ASSUME TypeOK, HookInv, NEW m \in Multi, NEW op \in {"put", "delete"}, NEW k \in Hook,
         Patch(m, op, k) \/ PatchRejected(m, op, k) \/ PatchThrows(m, op, k)
  PROVE  HookInv'
<1>. DEFINE here == <<m, op, k>>
            next == <<m, op, k + 1>>
<1>1. /\ here \in Place /\ here[1] = m /\ here[2] = op /\ here[3] = k
      /\ k # Hooks => next \in Place /\ next # here /\ next[1] = m /\ next[2] = op /\ next[3] = k + 1
      /\ k \in Nat /\ Hook \subseteq Nat /\ \A j \in Hook : j <= Hooks
  BY PlaceType, IndexAssumption DEF Hook
<1>2. /\ chain \in [Place -> Nat] /\ hook \in [Hook -> SUBSET Multi]
      /\ chain[here] > 0 /\ lastOp' = lastOp
  BY DEF TypeOK, Patch, PatchRejected, PatchThrows
<1>3. \/ chain' = Ended(m, op, k) /\ (k = Hooks \/ PatchThrows(m, op, k))
      \/ chain' = [Ended(m, op, k) EXCEPT ![next] = @ + 1] /\ k # Hooks
  BY DEF Patch, PatchRejected, PatchThrows, Onward
<1>4. /\ hook' = hook \/ hook' = Patched(m, op, k)
      /\ <<k, m>> \in garbled' \/ hook' = Patched(m, op, k)
      /\ garbled \subseteq garbled' /\ garbled' \subseteq garbled \cup (Hook \X {m})
      /\ PatchThrows(m, op, k) => \A j \in Hook : j >= k => <<j, m>> \in garbled'
  BY <1>1, PlaceType DEF Patch, PatchRejected, PatchThrows
<1>5. Ended(m, op, k) = [chain EXCEPT ![here] = @ - 1]
  BY DEF Ended
<1>. HIDE DEF here, next
<1>6. \A n \in Multi \ {m} :
        /\ Of(n)' = Of(n)
        /\ \A q \in Of(n) : chain'[q] = chain[q]
        /\ \A j \in Hook : /\ n \in hook'[j] <=> n \in hook[j]
                           /\ <<j, n>> \in garbled' <=> <<j, n>> \in garbled
  <2>. TAKE n \in Multi \ {m}
  <2>1. \A q \in Place : q[1] = n => chain'[q] = chain[q]
    BY <1>1, <1>2, <1>3, <1>5
  <2>2. Of(n)' = Of(n) /\ \A q \in Of(n) : chain'[q] = chain[q]
    BY <2>1 DEF Of, InFlight
  <2>3. \A j \in Hook : n \in hook'[j] <=> n \in hook[j]
    BY <1>2, <1>4 DEF Patched
  <2>. QED
    BY <1>4, <2>2, <2>3
<1>7. ASSUME NEW j \in Hook, <<j, m>> \notin garbled'
      PROVE  /\ \A p, q \in Of(m)' : p = q /\ chain'[p] = 1 /\ p[2] = lastOp'[m]
             /\ (\A p \in Of(m)' : j < p[3]) => (m \in hook'[j] <=> lastOp'[m] = "put")
  <2>1. <<j, m>> \notin garbled
    BY <1>4, <1>7
  <2>2. here \in Of(m)
    BY <1>1, <1>2 DEF Of, InFlight
  <2>3. Of(m) = {here} /\ chain[here] = 1 /\ op = lastOp[m]
    BY <1>1, <2>1, <2>2 DEF HookInv, OneChain
  <2>4. \A q \in Place : q[1] = m /\ q # here => chain[q] = 0
    BY <1>2, <2>3 DEF Of, InFlight
  <2>5. CASE chain' = Ended(m, op, k) /\ (k = Hooks \/ PatchThrows(m, op, k))
    <3>0. \A q \in Place : chain'[q] = IF q = here THEN 0 ELSE chain[q]
      <4>1. chain' = [chain EXCEPT ![here] = chain[here] - 1]
        BY <1>5, <2>5
      <4>2. chain[here] - 1 = 0
        BY <2>3
      <4>. QED
        BY <1>1, <1>2, <4>1, <4>2
    <3>1. Of(m)' = {}
      BY <2>4, <3>0 DEF Of, InFlight
    <3>2. j <= k
      <4>1. CASE k = Hooks
        BY <1>1, <4>1
      <4>2. CASE PatchThrows(m, op, k)
        <5>1. ~(j >= k)
          BY <1>4, <1>7, <4>2
        <5>. QED
          BY <1>1, <5>1
      <4>. QED
        BY <2>5, <4>1, <4>2
    <3>3. CASE j = k
      <4>1. hook' = Patched(m, op, k)
        BY <1>4, <1>7, <3>3
      <4>. QED
        BY <1>2, <2>3, <3>1, <3>3, <4>1 DEF Patched
    <3>4. CASE j < k
      <4>1. m \in hook[j] <=> lastOp[m] = "put"
        BY <1>1, <2>1, <2>3, <3>4 DEF HookInv, PassedFollow
      <4>2. hook'[j] = hook[j]
        BY <1>1, <1>2, <1>4, <3>4 DEF Patched
      <4>. QED
        BY <1>2, <3>1, <4>1, <4>2
    <3>5. j = k \/ j < k
      BY <1>1, <3>2
    <3>. QED
      BY <3>3, <3>4, <3>5
  <2>6. CASE chain' = [Ended(m, op, k) EXCEPT ![next] = @ + 1] /\ k # Hooks
    <3>0. \A q \in Place : chain'[q] = IF q = here THEN 0 ELSE IF q = next THEN 1 ELSE chain[q]
      <4>1. next \in Place /\ next # here /\ chain[next] = 0
        BY <1>1, <2>4, <2>6
      <4>2. DOMAIN chain = Place
        BY <1>2
      <4>3. chain' = [[chain EXCEPT ![here] = chain[here] - 1] EXCEPT ![next] = @ + 1]
        BY <1>5, <2>6
      <4>4. chain[here] - 1 = 0
        BY <2>3
      <4>5. [chain EXCEPT ![here] = chain[here] - 1][next] = 0
        BY <4>1, <4>2
      <4>. QED
        BY <1>1, <4>1, <4>2, <4>3, <4>4, <4>5
    <3>1. Of(m)' = {next} /\ chain'[next] = 1
      BY <1>1, <2>4, <2>6, <3>0 DEF Of, InFlight
    <3>2. next[3] = k + 1 /\ next[2] = op
      BY <1>1, <2>6
    <3>3. CASE j = k
      <4>1. hook' = Patched(m, op, k)
        BY <1>4, <1>7, <3>3
      <4>. QED
        BY <1>2, <2>3, <3>1, <3>2, <3>3, <4>1 DEF Patched
    <3>4. CASE j < k
      <4>1. m \in hook[j] <=> lastOp[m] = "put"
        BY <1>1, <2>1, <2>3, <3>4 DEF HookInv, PassedFollow
      <4>2. hook'[j] = hook[j]
        BY <1>1, <1>2, <1>4, <3>4 DEF Patched
      <4>. QED
        BY <1>2, <2>3, <3>1, <3>2, <4>1, <4>2
    <3>5. CASE j > k
      BY <1>1, <1>2, <2>3, <3>1, <3>2, <3>5
    <3>. QED
      BY <1>1, <3>3, <3>4, <3>5
  <2>. QED
    BY <1>3, <2>5, <2>6
<1>8. OneChain'
  <2>. SUFFICES ASSUME NEW n \in Multi, NEW j \in Hook, <<j, n>> \notin garbled'
                PROVE  (\A a, b \in Of(n) : a = b /\ chain[a] = 1 /\ a[2] = lastOp[n])'
    BY DEF OneChain
  <2>1. CASE n = m
    BY <1>7, <2>1
  <2>2. CASE n # m
    <3>1. <<j, n>> \notin garbled
      BY <1>6, <2>2
    <3>2. \A a, b \in Of(n) : a = b /\ chain[a] = 1 /\ a[2] = lastOp[n]
      BY <3>1 DEF HookInv, OneChain
    <3>. QED
      BY <1>2, <1>6, <2>2, <3>2
  <2>. QED
    BY <2>1, <2>2
<1>9. PassedFollow'
  BY <1>2, <1>6, <1>7 DEF HookInv, PassedFollow
<1>. QED
  BY <1>8, <1>9 DEF HookInv

\* A chain that dies leaves the hooks it has not passed spoiled.
LEMMA DieHooks ==
  ASSUME TypeOK, HookInv, Die
  PROVE  HookInv'
<1>1. \A m \in Multi : Of(m)' = {}
  BY DEF Die, Of, InFlight
<1>2. OneChain'
  BY <1>1 DEF OneChain
<1>3. ASSUME NEW m \in Multi, NEW k \in Hook, <<k, m>> \notin garbled'
      PROVE  m \in hook'[k] <=> lastOp'[m] = "put"
  <2>1. <<k, m>> \notin garbled
    BY <1>3 DEF Die
  <2>2. \A p \in Of(m) : k < p[3]
    <3>. TAKE p \in Of(m)
    <3>1. p \in InFlight /\ p[1] = m /\ p[3] \in Nat /\ k \in Nat /\ k <= Hooks /\ Hooks \in Nat
      BY PlaceType, IndexAssumption DEF Of, InFlight, Hook
    <3>2. <<k, m>> \notin (p[3]..Hooks) \X {p[1]}
      BY <1>3, <3>1 DEF Die
    <3>. QED
      BY <3>1, <3>2
  <2>. QED
    BY <2>1, <2>2 DEF HookInv, PassedFollow, Die
<1>4. PassedFollow'
  BY <1>3 DEF PassedFollow
<1>. QED
  BY <1>2, <1>4 DEF HookInv

LEMMA NextHooks ==
  ASSUME TypeOK, HookInv, [Next]_vars
  PROVE  HookInv'
<1>1. CASE Environment
  <2>1. CASE Die
    BY <2>1, DieHooks
  <2>2. CASE UNCHANGED hookVars
    BY <2>2, HookUnchanged
  <2>. QED
    BY <1>1, <2>1, <2>2 DEF Environment, Register, Deregister, Refused, TokenChanges, Restart,
                            hookVars
<1>2. ASSUME NEW w \in Wallet, Serve(w) PROVE HookInv'
  <2>1. UNCHANGED hookVars \/ \E op \in {"put", "delete"} : Emit(w, op)
    BY <1>2 DEF Serve, PutFinds, PutStores, Deletes, RequestFails
  <2>. QED
    BY <2>1, HookUnchanged, EmitHooks
<1>3. CASE Chain
  BY <1>3, PatchHooks DEF Chain
<1>4. CASE Load
  BY <1>4, HookUnchanged DEF Load, LoadReads, LoadStores
<1>5. CASE UNCHANGED vars
  BY <1>5, HookUnchanged DEF vars
<1>. QED
  BY <1>1, <1>2, <1>3, <1>4, <1>5 DEF Next

\* handleWalletUpdateEth, handleWalletRemove: where nothing was lost, rejected or
\* overtaken, every hook watches an address just when the last event about it was an
\* update, for any number of hooks and addresses.
THEOREM HooksStay ==
  Spec => []HooksFollow
<1>1. Spec => [](TypeOK /\ HookInv)
  <2>1. Init => TypeOK /\ HookInv
    BY InitType, HookInit
  <2>2. TypeOK /\ HookInv /\ [Next]_vars => (TypeOK /\ HookInv)'
    BY NextType, NextHooks
  <2>. QED
    BY <2>1, <2>2, PTL DEF Spec
<1>. QED
  BY <1>1, HookInvSuffices, PTL

=============================================================================
