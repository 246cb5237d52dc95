---------------------------- MODULE AddressIndex ----------------------------
(***************************************************************************)
(* Who is listened to: the Redis hash of Stellar addresses (RedisService,  *)
(* src/redis) and the address lists of the Alchemy hooks                   *)
(* (BlockListenerService.handleWalletUpdateEth and handleWalletRemove).    *)
(*                                                                         *)
(* The wallet service changes the registry in MongoDB and then sends this  *)
(* service a PUT or a DELETE.  A PUT reads the device, writes its token    *)
(* under the Stellar address, and starts a chain of PATCH calls, one hook  *)
(* after the other, that nobody awaits; a DELETE removes and starts the    *)
(* opposite chain.  At boot, before any request is accepted, the hash may  *)
(* be filled from the registry, page by page.                              *)
(*                                                                         *)
(* A step of the model is the effect of one awaited call together with the *)
(* code that runs before the next await.  A token is present or blank:     *)
(* HSET stores a missing fcmToken as the empty string, for which           *)
(* isKeyExist answers false.                                               *)
(***************************************************************************)
EXTENDS Integers, FiniteSets

CONSTANTS Wallet,      \* the wallet documents there may be
          Device,      \* the devices they belong to
          DeviceOf,    \* the device of each wallet
          XlmOf,       \* the Stellar address of each wallet
          MultiOf,     \* the EVM address of each wallet
          NoAddress,   \* a wallet without an address of that kind
          Volatile,    \* the devices whose token may change
          Hooks,       \* how many Alchemy hooks are configured
          PageSize,    \* wallets per page of the loader, limit = 200 in the code
          MaxChanges,  \* bound: changes of the registry
          MaxFaults,   \* bound: calls that fail
          MaxCrashes   \* bound: times the process dies

ASSUME IndexAssumption ==
    /\ DeviceOf \in [Wallet -> Device]
    /\ DOMAIN XlmOf = Wallet
    /\ DOMAIN MultiOf = Wallet
    /\ Volatile \subseteq Device
    /\ Hooks \in Nat \ {0}
    /\ PageSize \in Nat \ {0}
    /\ IsFiniteSet(Wallet)
    /\ MaxChanges \in Nat
    /\ MaxFaults \in Nat
    /\ MaxCrashes \in Nat

Xlm == {XlmOf[w] : w \in Wallet} \ {NoAddress}

Multi == {MultiOf[w] : w \in Wallet} \ {NoAddress}

Hook == 1..Hooks

\* Where a chain may stand: its EVM address, what it does, the hook that is next.
Place == Multi \X {"put", "delete"} \X Hook

VARIABLES created,   \* the place of each wallet in the order of createdAt, 0 for one not there
          hasToken,  \* does each device have an FCM token
          index,     \* the Redis hash: "none", "blank" or "token" for each address
          hook,      \* the addresses each Alchemy hook watches
          boot,      \* "down", "load", "store" (a page is in hand) or "up"
          offset,    \* offset of the loader
          page,      \* the page in hand: Stellar address -> has a token
          request,   \* the request about each wallet
          chain,     \* how many PATCH chains stand at each place
          changes,   \* history: changes of the registry
          faults,    \* history: calls that failed
          crashes,   \* history: times the process died
          steady,    \* history: the registry has not changed since the process started
          spoiled,   \* history: Stellar addresses about which something went wrong
          garbled,   \* history: the same for the address lists of the hooks
          lastOp     \* history: the chain started last for each EVM address

registryVars == <<created, hasToken, changes, steady>>
bootVars == <<boot, offset, page>>
hookVars == <<hook, chain, garbled, lastOp>>
vars == <<registryVars, bootVars, hookVars, index, request, faults, crashes, spoiled>>

-----------------------------------------------------------------------------

NoRequest == [pc |-> "idle", token |-> FALSE]

InFlight == {p \in Place : chain[p] > 0}

Registered(w) == created[w] > 0

Newest(w, wallets) == \A v \in wallets : XlmOf[v] = XlmOf[w] => created[v] <= created[w]

\* findOneByXlmWithDevice: the newest wallet with the address decides.  Can its
\* device be notified?
Reach(a) ==
    \E w \in Wallet :
        /\ Registered(w)
        /\ XlmOf[w] = a
        /\ hasToken[DeviceOf[w]]
        /\ Newest(w, Wallet)

\* isKeyExist
Tracked(a) == index[a] = "token"

\* Mutant: a missing token is stored as its text.
Stored_AsText(token) == IF token THEN "token" ELSE "undefined"

Stored(token) == IF token THEN "token" ELSE "blank"

Asking(a) == {w \in Wallet : request[w].pc # "idle" /\ XlmOf[w] = a}

Sharing(w) == {v \in Wallet \ {w} : Registered(v) /\ XlmOf[v] = XlmOf[w]}

Loading == boot \in {"load", "store"}

Stellar == {w \in Wallet : Registered(w) /\ XlmOf[w] # NoAddress}

\* The place of wallet w in the order in which the loader meets the wallets.
Rank(w) == Cardinality({v \in Stellar : created[v] <= created[w]})

\* The addresses some wallets of which are among the first k, and some behind: a loader
\* that has got as far as that may leave them with an older wallet's token.
Split(k) ==
    {a \in Xlm : \E v, w \in Stellar :
        XlmOf[v] = a /\ XlmOf[w] = a /\ Rank(v) <= k /\ k < Rank(w)}

\* The addresses that the wallets behind the loader split, or those and its page in hand.
Halfway == IF boot = "load" THEN Split(offset)
           ELSE IF boot = "store" THEN Split(offset) \cup Split(offset + PageSize) ELSE {}

Init ==
    /\ created = [w \in Wallet |-> 0]
    /\ hasToken \in [Device -> BOOLEAN]
    /\ index = [a \in Xlm |-> "none"]
    /\ hook = [k \in Hook |-> {}]
    /\ boot = "up"
    /\ offset = 0
    /\ page = << >>
    /\ request = [w \in Wallet |-> NoRequest]
    /\ chain = [p \in Place |-> 0]
    /\ changes = 0
    /\ faults = 0
    /\ crashes = 0
    /\ steady = TRUE
    /\ spoiled = {}
    /\ garbled = {}
    /\ lastOp = [m \in Multi |-> "delete"]

-----------------------------------------------------------------------------
(* The environment: the wallet service and its requests, the devices.      *)

Change ==
    /\ changes < MaxChanges
    /\ changes' = changes + 1
    /\ steady' = FALSE

\* Two wallets with one address change at once: which request comes last is open.
Ask(w, pc) ==
    /\ request[w].pc = "idle"
    /\ request' = [request EXCEPT ![w] = [pc |-> pc, token |-> FALSE]]

Contested(w) == IF XlmOf[w] # NoAddress /\ Asking(XlmOf[w]) # {} THEN {XlmOf[w]} ELSE {}

Register(w) ==
    /\ Change
    /\ ~Registered(w)
    /\ created' = [created EXCEPT ![w] = Cardinality({v \in Wallet : Registered(v)}) + 1]
    /\ Ask(w, "put")
    /\ spoiled' = spoiled \cup Contested(w)
    /\ UNCHANGED <<bootVars, hookVars, hasToken, index, faults, crashes>>

\* The DELETE of a wallet that shares its address removes the entry of the others too:
\* SharedStayTracked is about that, here the address only counts as spoiled.
Deregister(w) ==
    /\ Change
    /\ Registered(w)
    /\ created' = [v \in Wallet |-> IF v = w THEN 0
                               ELSE IF created[v] > created[w] THEN created[v] - 1 ELSE created[v]]
    /\ Ask(w, "delete")
    /\ spoiled' = spoiled \cup Contested(w) \cup Halfway
                         \cup (IF Sharing(w) # {} THEN {XlmOf[w]} \ {NoAddress} ELSE {})
    /\ UNCHANGED <<bootVars, hookVars, hasToken, index, faults, crashes>>

\* A device gets or loses its token; no request tells.
TokenChanges(d) ==
    /\ Change
    /\ hasToken' = [hasToken EXCEPT ![d] = ~@]
    /\ spoiled' = spoiled \cup ({XlmOf[w] : w \in {v \in Wallet : DeviceOf[v] = d}} \ {NoAddress})
    /\ UNCHANGED <<bootVars, hookVars, created, index, request, faults, crashes>>

\* Forget the request about w; what it was to do is not done.
Drop(w) ==
    /\ request' = [request EXCEPT ![w] = NoRequest]
    /\ spoiled' = spoiled \cup ({XlmOf[w]} \ {NoAddress})

\* The process does not accept requests before its modules are initialised.
Refused(w) ==
    /\ boot # "up"
    /\ request[w].pc # "idle"
    /\ Drop(w)
    /\ UNCHANGED <<registryVars, bootVars, hookVars, index, faults, crashes>>

-----------------------------------------------------------------------------
(* RedisService.handleUpdateAddressToRedis and handleRemoveAddress         *)

\* The event reaches the handler at once, which begins its chain of PATCH calls.  A
\* chain that overlaps another one of its address may be overtaken at some hook.
Emit(w, op) ==
    LET m == MultiOf[w]
    IN  IF m = NoAddress THEN UNCHANGED hookVars
        ELSE /\ chain' = [chain EXCEPT ![<<m, op, 1>>] = @ + 1]
             /\ lastOp' = [lastOp EXCEPT ![m] = op]
             /\ garbled' = garbled \cup
                  IF \E p \in InFlight : p[1] = m THEN Hook \X {m} ELSE {}
             /\ UNCHANGED hook

\* deviceService.findOne answers.
PutFinds(w) ==
    /\ boot = "up"
    /\ request[w].pc = "put"
    /\ IF XlmOf[w] = NoAddress
       THEN /\ request' = [request EXCEPT ![w] = NoRequest]
            /\ Emit(w, "put")
       ELSE /\ request' = [request EXCEPT ![w].pc = "store", ![w].token = hasToken[DeviceOf[w]]]
            /\ UNCHANGED hookVars
    /\ UNCHANGED <<registryVars, bootVars, index, faults, crashes, spoiled>>

\* HSET of the token that was read.
PutStores(w) ==
    /\ request[w].pc = "store"
    /\ index' = [index EXCEPT ![XlmOf[w]] = Stored(request[w].token)]
    /\ request' = [request EXCEPT ![w] = NoRequest]
    /\ Emit(w, "put")
    /\ UNCHANGED <<registryVars, bootVars, faults, crashes, spoiled>>

\* Mutant: a removal leaves the entry of the hash behind.
Deletes_KeepsEntry(w) ==
    /\ boot = "up"
    /\ request[w].pc = "delete"
    /\ request' = [request EXCEPT ![w] = NoRequest]
    /\ Emit(w, "delete")
    /\ UNCHANGED <<registryVars, bootVars, index, faults, crashes, spoiled>>

\* HDEL, whoever else has the address.
Deletes(w) ==
    /\ boot = "up"
    /\ request[w].pc = "delete"
    /\ index' = IF XlmOf[w] = NoAddress THEN index ELSE [index EXCEPT ![XlmOf[w]] = "none"]
    /\ request' = [request EXCEPT ![w] = NoRequest]
    /\ Emit(w, "delete")
    /\ UNCHANGED <<registryVars, bootVars, faults, crashes, spoiled>>

Fault == faults < MaxFaults /\ faults' = faults + 1

\* MongoDB or Redis fails: the request is answered with an error and nothing follows.
RequestFails(w) ==
    /\ boot = "up"
    /\ request[w].pc # "idle"
    /\ Fault
    /\ Drop(w)
    /\ UNCHANGED <<registryVars, bootVars, hookVars, index, crashes>>

-----------------------------------------------------------------------------
(* BlockListenerService.handleWalletUpdateEth and handleWalletRemove       *)

Patched(m, op, k) == [hook EXCEPT ![k] = IF op = "put" THEN @ \cup {m} ELSE @ \ {m}]

Ended(m, op, k) == [chain EXCEPT ![<<m, op, k>>] = @ - 1]

\* The chain goes on to the next hook, if there is one.
Onward(m, op, k) ==
    chain' = IF k = Hooks THEN Ended(m, op, k)
             ELSE [Ended(m, op, k) EXCEPT ![<<m, op, k + 1>>] = @ + 1]

Patch(m, op, k) ==
    /\ chain[<<m, op, k>>] > 0
    /\ hook' = Patched(m, op, k)
    /\ Onward(m, op, k)
    /\ UNCHANGED <<registryVars, bootVars, index, request, faults, crashes, spoiled,
                   garbled, lastOp>>

\* Mutant: an answer that is not ok ends the chain.
PatchRejected_Ends(m, op, k) ==
    /\ chain[<<m, op, k>>] > 0
    /\ Fault
    /\ garbled' = garbled \cup {<<k, m>>}
    /\ chain' = Ended(m, op, k)
    /\ UNCHANGED <<registryVars, bootVars, index, request, crashes, spoiled, hook, lastOp>>

\* An answer that is not ok is logged; the chain goes on to the next hook.
PatchRejected(m, op, k) ==
    /\ chain[<<m, op, k>>] > 0
    /\ Fault
    /\ garbled' = garbled \cup {<<k, m>>}
    /\ Onward(m, op, k)
    /\ UNCHANGED <<registryVars, bootVars, index, request, crashes, spoiled, hook, lastOp>>

\* The call itself fails, before or after Alchemy applied it: the chain ends there.
PatchThrows(m, op, k) ==
    /\ chain[<<m, op, k>>] > 0
    /\ Fault
    /\ hook' \in {hook, Patched(m, op, k)}
    /\ garbled' = garbled \cup ((k..Hooks) \X {m})
    /\ chain' = Ended(m, op, k)
    /\ UNCHANGED <<registryVars, bootVars, index, request, crashes, spoiled, lastOp>>

-----------------------------------------------------------------------------
(* The process: crashes, and BlockListenerService.onModuleInit with its    *)
(* loader addWalletAddressToRedis.  A loader that fails is a crash too.    *)

Die ==
    /\ boot # "down"
    /\ crashes < MaxCrashes
    /\ crashes' = crashes + 1
    /\ boot' = "down"
    /\ page' = << >>
    /\ request' = [w \in Wallet |-> NoRequest]
    /\ spoiled' = spoiled \cup (IF Loading THEN Split(offset) ELSE {}) \cup
         ({XlmOf[w] : w \in {v \in Wallet : request[v].pc # "idle"}} \ {NoAddress})
    /\ chain' = [p \in Place |-> 0]
    /\ garbled' = garbled \cup UNION {(p[3]..Hooks) \X {p[1]} : p \in InFlight}
    /\ UNCHANGED <<registryVars, offset, index, hook, faults, lastOp>>

\* IS_REDIS_INIT says whether this start fills the hash.
Restart(load) ==
    /\ boot = "down"
    /\ boot' = IF load THEN "load" ELSE "up"
    /\ offset' = 0
    /\ steady' = TRUE
    /\ UNCHANGED <<created, hasToken, changes, page, hookVars, index, request, faults,
                   crashes, spoiled>>

\* findAllXlmWithDevice, with skip and limit: unsorted, which is the order of creation.
Page == {w \in Stellar : offset < Rank(w) /\ Rank(w) <= offset + PageSize}

\* Mutant: the earlier wins.
Entries_FirstWins(wallets) ==
    [a \in {XlmOf[w] : w \in wallets} |->
        \E w \in wallets : /\ XlmOf[w] = a
                           /\ hasToken[DeviceOf[w]]
                           /\ \A v \in wallets : XlmOf[v] = a => created[w] <= created[v]]

\* The wallets of a page as one HSET: of two with the same address, the later wins.
Entries(wallets) ==
    [a \in {XlmOf[w] : w \in wallets} |->
        \E w \in wallets : XlmOf[w] = a /\ hasToken[DeviceOf[w]] /\ Newest(w, wallets)]

\* An address is no longer spoiled once a whole load of a steady registry has met it.
Heal(ends) ==
    spoiled' = IF ends /\ steady
               THEN {a \in spoiled : Asking(a) # {} \/ \A w \in Stellar : XlmOf[w] # a}
               ELSE spoiled

\* Mutant: the loader stops at a page that is not full.
LoadReads_ShortEnds ==
    /\ boot = "load"
    /\ IF Cardinality(Page) < PageSize
       THEN boot' = "up" /\ page' = << >>
       ELSE boot' = "store" /\ page' = Entries(Page)
    /\ Heal(Cardinality(Page) < PageSize)
    /\ UNCHANGED <<registryVars, offset, hookVars, index, request, faults, crashes>>

\* An empty page ends the loader, and the service begins to accept requests.
LoadReads ==
    /\ boot = "load"
    /\ IF Page = {}
       THEN boot' = "up" /\ page' = << >>
       ELSE boot' = "store" /\ page' = Entries(Page)
    /\ Heal(Page = {})
    /\ UNCHANGED <<registryVars, offset, hookVars, index, request, faults, crashes>>

\* Mutant: the offset is not moved.
LoadStores_SamePage ==
    /\ boot = "store"
    /\ index' = [a \in Xlm |-> IF a \in DOMAIN page THEN Stored(page[a]) ELSE index[a]]
    /\ boot' = "load"
    /\ page' = << >>
    /\ UNCHANGED <<registryVars, offset, hookVars, request, faults, crashes, spoiled>>

LoadStores ==
    /\ boot = "store"
    /\ index' = [a \in Xlm |-> IF a \in DOMAIN page THEN Stored(page[a]) ELSE index[a]]
    /\ offset' = offset + PageSize
    /\ boot' = "load"
    /\ page' = << >>
    /\ UNCHANGED <<registryVars, hookVars, request, faults, crashes, spoiled>>

-----------------------------------------------------------------------------

Environment ==
    \/ \E w \in Wallet : Register(w) \/ Deregister(w) \/ Refused(w)
    \/ \E d \in Volatile : TokenChanges(d)
    \/ \E load \in BOOLEAN : Restart(load)
    \/ Die

Serve(w) == PutFinds(w) \/ PutStores(w) \/ Deletes(w) \/ RequestFails(w)

Chain == \E m \in Multi, op \in {"put", "delete"}, k \in Hook :
            Patch(m, op, k) \/ PatchRejected(m, op, k) \/ PatchThrows(m, op, k)

Load == LoadReads \/ LoadStores

Next ==
    \/ Environment
    \/ \E w \in Wallet : Serve(w)
    \/ Chain
    \/ Load

Spec == Init /\ [][Next]_vars

(* MongoDB and Redis answer the loader or fail it, and Node then goes on.  *)
FairSpec == Spec /\ WF_vars(Load)

-----------------------------------------------------------------------------
(* Type invariant *)

\* Every variable stays in its range.
TypeOK ==
    /\ created \in [Wallet -> Nat]
    /\ hasToken \in [Device -> BOOLEAN]
    /\ index \in [Xlm -> {"none", "blank", "token"}]
    /\ hook \in [Hook -> SUBSET Multi]
    /\ boot \in {"down", "load", "store", "up"}
    /\ offset \in Nat
    /\ DOMAIN page \subseteq Xlm /\ \A a \in DOMAIN page : page[a] \in BOOLEAN
    /\ request \in [Wallet -> [pc : {"idle", "put", "store", "delete"}, token : BOOLEAN]]
    /\ chain \in [Place -> Nat]
    /\ changes \in 0..MaxChanges
    /\ faults \in 0..MaxFaults
    /\ crashes \in 0..MaxCrashes
    /\ steady \in BOOLEAN
    /\ spoiled \subseteq Xlm
    /\ garbled \subseteq Hook \X Multi
    /\ lastOp \in [Multi -> {"put", "delete"}]

-----------------------------------------------------------------------------
(* Safety *)

\* The hash follows the registry.  An address no request is in flight about is tracked
\* just when its newest wallet can be notified, unless one of these happened since the
\* last whole load that met it while the registry was steady: a request about it was lost
\* in a crash, failed or was refused; two requests about it were in flight at once; the
\* token of one of its devices changed; one of several wallets with it was removed; the
\* process died, or any wallet was removed, while the loader stood between two of its
\* wallets.  A crash anywhere else in a load, and other changes meanwhile, do no harm.
IndexFollows ==
    ~Loading => \A a \in Xlm \ spoiled : Asking(a) = {} => (Tracked(a) <=> Reach(a))

\* The loader heals: when it is done and the registry did not change meanwhile, every
\* address whose newest wallet can be notified is tracked, whatever was lost before.
BootLoads ==
    [][(boot = "load" /\ boot' = "up" /\ steady) => \A a \in Xlm : Reach(a) => Tracked(a)]_vars

\* A PATCH that Alchemy rejects spoils its own hook only: at every other hook the
\* address is watched just when the last event about it was an update.
HooksFollow ==
    \A m \in Multi, k \in Hook :
        (<<k, m>> \notin garbled /\ \A p \in InFlight : p[1] # m) =>
            (m \in hook[k] <=> lastOp[m] = "put")

\* The README says the index is kept in sync, and the wallet repository that several
\* wallets may share a Stellar address.  While every device has a token and no request
\* is in flight, an address that a registered wallet has is tracked.
SharedStayTracked ==
    (boot = "up" /\ (\A w \in Wallet : request[w].pc = "idle") /\ \A d \in Device : hasToken[d]) =>
        \A a \in Xlm : Reach(a) => Tracked(a)

-----------------------------------------------------------------------------
(* Liveness *)

\* The loader comes to an end: the service does not stay closed to requests.
LoaderEnds == (boot \in {"load", "store"}) ~> (boot \in {"up", "down"})

=============================================================================
