--------------------- MODULE AddressIndexFollowsProofs ---------------------
(* Proofs about the hash of AddressIndex and its loader: the hash follows   *)
(* the registry, for any wallets, pages, requests, failures and crashes.    *)
EXTENDS AddressIndexProofs, Descent

\* The registry numbers its wallets in the order of their creation.
Ordered ==
    /\ \A v, w \in Wallet : (Registered(v) /\ created[v] = created[w]) => v = w
    /\ \A w \in Wallet : created[w] <= Cardinality({v \in Wallet : Registered(v)})

\* A page is in hand, and a token was read for a request, only where the process is so far.
Booted ==
    /\ boot # "store" => page = << >>
    /\ \A w \in Wallet : request[w].pc = "store" => boot = "up" /\ XlmOf[w] # NoAddress

\* What the request about wallet w will do to the hash is what the registry says now.
Justified(w) ==
    /\ request[w].pc \in {"put", "store"} => Registered(w) /\ Newest(w, Wallet)
    /\ request[w].pc = "store" => request[w].token = hasToken[DeviceOf[w]]
    /\ request[w].pc = "delete" =>
          \A v \in Wallet : XlmOf[v] = XlmOf[w] => ~Registered(v)

Agrees(a) == Tracked(a) <=> Reach(a)

PageOf(a) == {w \in Page : XlmOf[w] = a}

\* Every wallet with address a is among the first k.
Met(a, k) == \A w \in Stellar : XlmOf[w] = a => Rank(w) <= k

\* Will address a be tracked when the page in hand is stored?
Promised(a) == IF a \in DOMAIN page THEN page[a] ELSE Tracked(a)

Promises(a) == Promised(a) <=> Reach(a)

\* A loader that has met all the wallets of address a has set its entry right.
InStep(a) ==
    /\ Met(a, offset) => Agrees(a)
    /\ (boot = "store" /\ Met(a, offset + PageSize)) => Promises(a)

\* The entry of address a is right, except while the loader is between its wallets.
Settled(a) ==
    /\ a \notin Split(offset) => Agrees(a)
    /\ (boot = "store" /\ a \notin Split(offset + PageSize)) => Promises(a)

\* What holds of an address nothing went wrong about.
Followed(a) ==
    /\ \A v, w \in Asking(a) : v = w
    /\ \A w \in Asking(a) : Justified(w)
    /\ Asking(a) = {} => IF Loading THEN Settled(a) ELSE Agrees(a)

\* While a loader runs undisturbed, it is in step with every address that is in use.
LoadInv ==
    (Loading /\ steady) =>
        \A a \in Xlm : (\E w \in Stellar : XlmOf[w] = a) => InStep(a)

IndexInv == Ordered /\ Booted /\ LoadInv /\ \A a \in Xlm \ spoiled : Followed(a)

-----------------------------------------------------------------------------
(* Ranks and pages *)

LEMMA StellarFinite ==
  /\ IsFiniteSet(Stellar)
  /\ \A w \in Wallet : IsFiniteSet({v \in Stellar : created[v] <= created[w]})
<1>1. Stellar \in SUBSET Wallet
  BY DEF Stellar
<1>2. \A w \in Wallet : {v \in Stellar : created[v] <= created[w]} \in SUBSET Wallet
  BY <1>1
<1>. QED
  BY <1>1, <1>2, IndexAssumption, FS_Subset

\* Ranks number the Stellar wallets in the order of their creation.
LEMMA RankOrder ==
  ASSUME TypeOK, Ordered
  PROVE  /\ \A w \in Stellar : Rank(w) \in 1..Cardinality(Stellar)
         /\ \A v, w \in Stellar : created[v] <= created[w] => Rank(v) <= Rank(w)
         /\ \A v, w \in Stellar : Rank(v) = Rank(w) => v = w
<1>. DEFINE Upto(w) == {v \in Stellar : created[v] <= created[w]}
<1>1. \A w \in Stellar : w \in Wallet /\ created[w] \in Nat /\ Registered(w)
  BY DEF Stellar, TypeOK
<1>2. \A w \in Stellar : /\ IsFiniteSet(Upto(w))
                         /\ Upto(w) \in SUBSET Stellar
                         /\ w \in Upto(w)
                         /\ Rank(w) = Cardinality(Upto(w))
  BY <1>1, StellarFinite DEF Rank
<1>3. \A v, w \in Stellar : created[v] <= created[w] => Upto(v) \in SUBSET Upto(w)
  BY <1>1
<1>. HIDE DEF Upto
<1>4. \A w \in Stellar : Rank(w) \in Nat /\ Rank(w) # 0
  BY <1>2, FS_CardinalityType, FS_EmptySet
<1>5. \A w \in Stellar : Rank(w) <= Cardinality(Stellar)
  BY <1>2, StellarFinite, FS_Subset
<1>6. Cardinality(Stellar) \in Nat
  BY StellarFinite, FS_CardinalityType
<1>7. ASSUME NEW v \in Stellar, NEW w \in Stellar, created[v] <= created[w]
      PROVE  Rank(v) <= Rank(w) /\ (Rank(v) = Rank(w) => Upto(v) = Upto(w))
  BY <1>2, <1>3, <1>7, FS_Subset
<1>8. ASSUME NEW v \in Stellar, NEW w \in Stellar, Rank(v) = Rank(w)
      PROVE  v = w
  <2>1. Upto(v) = Upto(w)
    BY <1>1, <1>7, <1>8
  <2>2. created[v] <= created[w] /\ created[w] <= created[v]
    BY <1>2, <2>1 DEF Upto
  <2>. QED
    BY <1>1, <2>2 DEF Ordered
<1>. QED
  BY <1>4, <1>5, <1>6, <1>7, <1>8

\* A page is empty only behind the last wallet: ranks have no gaps.
LEMMA PagesCover ==
  ASSUME TypeOK, Ordered, Page = {}
  PROVE  \A w \in Stellar : Rank(w) <= offset
<1>. SUFFICES ASSUME NEW w \in Stellar, ~(Rank(w) <= offset) PROVE FALSE
  OBVIOUS
<1>. DEFINE n == Cardinality(Stellar)
            f == [v \in Stellar |-> Rank(v)]
<1>1. n \in Nat /\ IsFiniteSet(1..n) /\ Cardinality(1..n) = n
  BY StellarFinite, FS_CardinalityType, FS_Interval
<1>2. \A v \in Stellar : Rank(v) \in 1..n
  BY RankOrder
<1>3. f \in Injection(Stellar, 1..n)
  BY <1>2, RankOrder DEF Injection, IsInjective
<1>. HIDE DEF f
<1>4. f \in Surjection(Stellar, 1..n)
  BY <1>1, <1>3, FS_Injection
<1>5. offset \in Nat /\ PageSize \in Nat \ {0}
  BY IndexAssumption DEF TypeOK
<1>6. offset + 1 \in 1..n
  BY <1>1, <1>2, <1>5
<1>7. \E v \in Stellar : f[v] = offset + 1
  BY <1>4, <1>6 DEF Surjection
<1>8. \E v \in Stellar : Rank(v) = offset + 1
  BY <1>7 DEF f
<1>. QED
  BY <1>5, <1>8 DEF Page

\* What a page says of an address.
LEMMA EntryOf ==
  ASSUME NEW a \in Xlm
  PROVE  /\ a \in DOMAIN Entries(Page) <=> PageOf(a) # {}
         /\ a \in DOMAIN Entries(Page) =>
               Entries(Page)[a] = (\E w \in PageOf(a) : /\ hasToken[DeviceOf[w]]
                                                        /\ \A v \in PageOf(a) : created[v] <= created[w])
<1>1. a \in DOMAIN Entries(Page) <=> PageOf(a) # {}
  BY DEF Entries, PageOf
<1>2. ASSUME a \in DOMAIN Entries(Page)
      PROVE  Entries(Page)[a] = (\E w \in Page : XlmOf[w] = a /\ hasToken[DeviceOf[w]] /\ Newest(w, Page))
  BY <1>2 DEF Entries
<1>3. \A w \in Page : XlmOf[w] = a => (Newest(w, Page) <=> \A v \in PageOf(a) : created[v] <= created[w])
  BY DEF Newest, PageOf
<1>. QED
  BY <1>1, <1>2, <1>3 DEF PageOf

-----------------------------------------------------------------------------
(* Who can be reached *)

LEMMA ReachNewest ==
  ASSUME TypeOK, Ordered, NEW w \in Wallet, Registered(w), Newest(w, Wallet)
  PROVE  Reach(XlmOf[w]) <=> hasToken[DeviceOf[w]]
<1>1. \A v \in Wallet : (Registered(v) /\ XlmOf[v] = XlmOf[w] /\ Newest(v, Wallet)) => v = w
  <2>1. \A v \in Wallet : created[v] \in Nat
    BY DEF TypeOK
  <2>. QED
    BY <2>1 DEF Newest, Ordered
<1>. QED
  BY <1>1 DEF Reach

LEMMA NobodyReached ==
  ASSUME NEW a, \A v \in Wallet : XlmOf[v] = a => ~Registered(v)
  PROVE  ~Reach(a)
  BY DEF Reach

\* A step that leaves the wallets of an address alone, in their order, with their tokens;
\* and one that leaves their requests alone.
Kept(a) ==
    \A w \in Wallet : XlmOf[w] = a =>
        /\ created'[w] > 0 <=> created[w] > 0
        /\ hasToken'[DeviceOf[w]] = hasToken[DeviceOf[w]]
        /\ \A v \in Wallet : XlmOf[v] = a => (created'[v] <= created'[w] <=> created[v] <= created[w])

Unasked(a) == \A w \in Wallet : XlmOf[w] = a => request'[w] = request[w]

LEMMA KeptFacts ==
  ASSUME NEW a \in Xlm, Kept(a)
  PROVE  /\ Reach(a)' <=> Reach(a)
         /\ Unasked(a) => /\ Asking(a)' = Asking(a)
                          /\ \A w \in Asking(a) : Justified(w) => Justified(w)'
<1>1. \A w \in Wallet : XlmOf[w] = a => /\ Registered(w)' <=> Registered(w)
                                        /\ Newest(w, Wallet)' <=> Newest(w, Wallet)
  BY DEF Kept, Registered, Newest
<1>2. Reach(a)' <=> Reach(a)
  BY <1>1 DEF Kept, Reach
<1>3. Unasked(a) => Asking(a)' = Asking(a)
  BY DEF Unasked, Asking
<1>4. Unasked(a) => \A w \in Asking(a) : Justified(w) => Justified(w)'
  BY <1>1 DEF Kept, Unasked, Asking, Justified
<1>. QED
  BY <1>2, <1>3, <1>4

\* With the entry kept as well, what holds of it does.
LEMMA KeptAgrees ==
  ASSUME NEW a \in Xlm, Kept(a), index'[a] = index[a]
  PROVE  /\ Agrees(a)' <=> Agrees(a)
         /\ UNCHANGED page => (Promises(a)' <=> Promises(a))
  BY KeptFacts DEF Agrees, Promises, Promised, Tracked

\* With the ranks kept as well, the loader stays in step.
LEMMA KeptInStep ==
  ASSUME NEW a \in Xlm, Kept(a), index'[a] = index[a], UNCHANGED <<boot, offset, page>>,
         \A w \in Wallet : XlmOf[w] = a => Rank(w)' = Rank(w)
  PROVE  /\ InStep(a) => InStep(a)'
         /\ Settled(a) => Settled(a)'
<1>1. \A w : XlmOf[w] = a => (w \in Stellar' <=> w \in Stellar)
  BY DEF Kept, Stellar, Registered
<1>2. \A w \in Stellar : w \in Wallet
  BY DEF Stellar
<1>3. \A w \in Stellar : XlmOf[w] = a => Rank(w)' = Rank(w)
  BY <1>2
<1>4. /\ Met(a, offset)' <=> Met(a, offset)
      /\ Met(a, offset + PageSize)' <=> Met(a, offset + PageSize)
  BY <1>1, <1>3 DEF Met
<1>5. /\ a \in Split(offset)' <=> a \in Split(offset)
      /\ a \in Split(offset + PageSize)' <=> a \in Split(offset + PageSize)
  BY <1>1, <1>3 DEF Split
<1>. QED
  BY <1>4, <1>5, KeptAgrees DEF InStep, Settled

\* An address whose wallets, requests and entry a step leaves alone stays as it is.
LEMMA KeptFollowed ==
  ASSUME NEW a \in Xlm, Followed(a), Kept(a), Unasked(a), index'[a] = index[a],
         UNCHANGED <<boot, offset, page>>,
         Loading /\ Settled(a) => Settled(a)'
  PROVE  Followed(a)'
<1>1. /\ \A v, w \in Asking(a)' : v = w
      /\ \A w \in Asking(a)' : Justified(w)'
  BY KeptFacts DEF Followed
<1>2. Loading' <=> Loading
  BY DEF Loading
<1>. QED
  BY <1>1, <1>2, KeptFacts, KeptAgrees DEF Followed

\* Ranks stay when the registry does.
LEMMA SameRegistry ==
  ASSUME UNCHANGED <<created, hasToken>>
  PROVE  /\ \A a \in Xlm : Kept(a)
         /\ \A w \in Wallet : Rank(w)' = Rank(w)
         /\ Stellar' = Stellar
         /\ Ordered => Ordered'
<1>1. Stellar' = Stellar
  BY DEF Stellar, Registered
<1>2. \A w \in Wallet : Rank(w)' = Rank(w)
  BY <1>1 DEF Rank
<1>3. Ordered => Ordered'
  BY DEF Ordered, Registered
<1>. QED
  BY <1>1, <1>2, <1>3 DEF Kept

\* A loader is disturbed by nothing but a change of the registry.
LEMMA SameLoad ==
  ASSUME LoadInv, UNCHANGED <<created, hasToken, steady, boot, offset, page>>,
         Loading => UNCHANGED index
  PROVE  LoadInv'
<1>1. CASE Loading /\ steady
  <2>1. ASSUME NEW a \in Xlm, \E w \in Stellar : XlmOf[w] = a PROVE InStep(a)'
    BY <1>1, <2>1, SameRegistry, KeptInStep DEF LoadInv
  <2>. QED
    BY <2>1, SameRegistry DEF LoadInv
<1>2. CASE ~(Loading /\ steady)
  BY <1>2 DEF LoadInv, Loading
<1>. QED
  BY <1>1, <1>2

-----------------------------------------------------------------------------
(* The environment *)

LEMMA RegisterIndex ==
  ASSUME TypeOK, IndexInv, NEW x \in Wallet, Register(x)
  PROVE  IndexInv'
<1>. DEFINE R == {v \in Wallet : Registered(v)}
            n == Cardinality(R)
<1>1. /\ \A v \in Wallet : created[v] \in Nat
      /\ created'[x] = n + 1
      /\ \A v \in Wallet \ {x} : created'[v] = created[v]
      /\ created[x] = 0
  BY DEF Register, Registered, TypeOK
<1>2. IsFiniteSet(R) /\ n \in Nat
  BY IndexAssumption, FS_Subset, FS_CardinalityType
<1>3. R' = R \cup {x} /\ x \notin R
  BY <1>1, <1>2 DEF Registered
<1>4. n' = n + 1
  <2>. HIDE DEF R
  <2>1. Cardinality(R \cup {x}) = n + 1
    BY <1>2, <1>3, FS_AddElement
  <2>. QED
    BY <1>3, <2>1
<1>5. \A v \in Wallet : created[v] <= n
  BY DEF IndexInv, Ordered
<1>6. Ordered'
  <2>1. \A v, w \in Wallet : (created'[v] > 0 /\ created'[v] = created'[w]) => v = w
    BY <1>1, <1>2, <1>5 DEF IndexInv, Ordered, Registered
  <2>2. \A w \in Wallet : created'[w] <= n'
    BY <1>1, <1>2, <1>4, <1>5
  <2>. QED
    BY <2>1, <2>2 DEF Ordered, Registered
<1>. HIDE DEF R, n
<1>7. /\ request[x].pc = "idle"
      /\ request'[x].pc = "put"
      /\ \A v \in Wallet \ {x} : request'[v] = request[v]
  BY DEF Register, Ask, TypeOK
<1>8. UNCHANGED <<index, boot, offset, page>> /\ ~steady' /\ spoiled' = spoiled \cup Contested(x)
  BY DEF Register, Change, bootVars
<1>9. Booted'
  BY <1>7, <1>8 DEF IndexInv, Booted
<1>10. ASSUME NEW a \in Xlm \ spoiled' PROVE Followed(a)'
  <2>1. Followed(a)
    BY <1>8 DEF IndexInv
  <2>2. CASE XlmOf[x] = a
    <3>1. Asking(a) = {}
      BY <1>8, <2>2 DEF Contested, Xlm
    <3>2. Asking(a)' = {x}
      BY <1>7, <2>2, <3>1 DEF Asking
    <3>3. Registered(x)' /\ Newest(x, Wallet)'
      BY <1>1, <1>2, <1>5 DEF Registered, Newest
    <3>4. Justified(x)'
      BY <1>7, <3>3 DEF Justified
    <3>. QED
      BY <3>2, <3>4 DEF Followed
  <2>3. CASE XlmOf[x] # a
    <3>1. \A w \in Wallet : XlmOf[w] = a => w # x
      BY <2>3
    <3>2. Kept(a) /\ Unasked(a)
      BY <1>1, <1>7, <3>1 DEF Kept, Unasked, Register
    <3>3. \A w \in Wallet \ {x} : {v \in Stellar' : created'[v] <= created'[w]}
                                    = {v \in Stellar : created[v] <= created[w]}
      BY <1>1, <1>2, <1>5 DEF Stellar, Registered
    <3>4. \A w \in Wallet : XlmOf[w] = a => Rank(w)' = Rank(w)
      BY <3>1, <3>3 DEF Rank
    <3>. QED
      BY <1>8, <2>1, <3>2, <3>4, KeptInStep, KeptFollowed
  <2>. QED
    BY <2>2, <2>3
<1>. QED
  BY <1>6, <1>8, <1>9, <1>10 DEF IndexInv, LoadInv

LEMMA DeregisterIndex ==
  ASSUME TypeOK, IndexInv, NEW x \in Wallet, Deregister(x)
  PROVE  IndexInv'
<1>. DEFINE R == {v \in Wallet : Registered(v)}
            n == Cardinality(R)
<1>1. /\ \A v \in Wallet : created[v] \in Nat
      /\ \A v \in Wallet : created'[v] = IF v = x THEN 0
                                        ELSE IF created[v] > created[x] THEN created[v] - 1 ELSE created[v]
      /\ created[x] > 0
  BY DEF Deregister, Registered, TypeOK
<1>2. IsFiniteSet(R) /\ n \in Nat
  BY IndexAssumption, FS_Subset, FS_CardinalityType
<1>3. R' = R \ {x} /\ x \in R
  BY <1>1 DEF Registered
<1>4. n' = n - 1
  <2>. HIDE DEF R
  <2>1. Cardinality(R \ {x}) = n - 1
    BY <1>2, <1>3, FS_RemoveElement
  <2>. QED
    BY <1>3, <2>1
<1>5. /\ \A v \in Wallet : created[v] <= n
      /\ \A v \in Wallet \ {x} : created[v] # created[x]
  BY DEF IndexInv, Ordered, Registered, Deregister
<1>6. /\ \A v \in Wallet \ {x} : created'[v] > 0 <=> created[v] > 0
      /\ \A v, w \in Wallet \ {x} : created'[v] <= created'[w] <=> created[v] <= created[w]
  <2>1. \A v \in Wallet \ {x} : created[v] > created[x] => created[v] - 1 >= created[x]
    BY <1>1
  <2>. QED
    BY <1>1, <1>5, <2>1
<1>7. Ordered'
  <2>1. \A v, w \in Wallet : (created'[v] > 0 /\ created'[v] = created'[w]) => v = w
    <3>. SUFFICES ASSUME NEW v \in Wallet, NEW w \in Wallet, created'[v] > 0, created'[v] = created'[w]
                  PROVE  v = w
      OBVIOUS
    <3>1. v # x /\ w # x
      BY <1>1
    <3>2. created'[v] <= created'[w] /\ created'[w] <= created'[v]
      BY <1>1
    <3>3. created[v] = created[w] /\ created[v] > 0
      BY <1>1, <1>6, <3>1, <3>2
    <3>. QED
      BY <3>3 DEF IndexInv, Ordered, Registered
  <2>2. \A w \in Wallet : created'[w] <= n'
    BY <1>1, <1>2, <1>4, <1>5
  <2>. QED
    BY <2>1, <2>2 DEF Ordered, Registered
<1>. HIDE DEF R, n
<1>8. /\ request[x].pc = "idle"
      /\ request'[x].pc = "delete"
      /\ \A v \in Wallet \ {x} : request'[v] = request[v]
  BY DEF Deregister, Ask, TypeOK
<1>9. /\ UNCHANGED <<index, boot, offset, page>> /\ ~steady'
      /\ spoiled' = spoiled \cup Contested(x) \cup Halfway
                       \cup (IF Sharing(x) # {} THEN {XlmOf[x]} \ {NoAddress} ELSE {})
  BY DEF Deregister, Change, bootVars
<1>10. Booted'
  BY <1>8, <1>9 DEF IndexInv, Booted
<1>11. ASSUME NEW a \in Xlm \ spoiled' PROVE Followed(a)'
  <2>1. Followed(a) /\ a # NoAddress
    BY <1>9 DEF IndexInv, Xlm
  <2>2. CASE XlmOf[x] = a
    <3>1. Asking(a) = {} /\ Sharing(x) = {}
      BY <1>9, <2>1, <2>2 DEF Contested
    <3>2. Asking(a)' = {x}
      BY <1>8, <2>2, <3>1 DEF Asking
    <3>3. \A v \in Wallet : XlmOf[v] = XlmOf[x] => ~Registered(v)'
      BY <1>1, <1>6, <3>1 DEF Sharing, Registered
    <3>4. Justified(x)'
      BY <1>8, <3>3 DEF Justified
    <3>. QED
      BY <3>2, <3>4 DEF Followed
  <2>3. CASE XlmOf[x] # a
    <3>1. \A w \in Wallet : XlmOf[w] = a => w # x
      BY <2>3
    <3>2. Kept(a) /\ Unasked(a)
      BY <1>6, <1>8, <3>1 DEF Kept, Unasked, Deregister
    <3>3. Loading => a \notin Split(offset)
      BY <1>9 DEF Halfway, Loading
    <3>4. boot = "store" => a \notin Split(offset + PageSize)
      BY <1>9 DEF Halfway
    <3>5. Loading /\ Settled(a) => Settled(a)'
      BY <1>9, <3>2, <3>3, <3>4, KeptAgrees DEF Settled
    <3>. QED
      BY <1>9, <2>1, <3>2, <3>5, KeptFollowed
  <2>. QED
    BY <2>2, <2>3
<1>. QED
  BY <1>7, <1>9, <1>10, <1>11 DEF IndexInv, LoadInv

LEMMA TokenIndex ==
  ASSUME TypeOK, IndexInv, NEW d \in Device, TokenChanges(d)
  PROVE  IndexInv'
<1>1. /\ UNCHANGED <<created, index, boot, offset, page, request>> /\ ~steady'
      /\ hasToken' = [hasToken EXCEPT ![d] = ~@]
      /\ spoiled' = spoiled \cup ({XlmOf[w] : w \in {v \in Wallet : DeviceOf[v] = d}} \ {NoAddress})
  BY DEF TokenChanges, Change, bootVars
<1>2. Ordered' /\ Booted'
  BY <1>1 DEF IndexInv, Ordered, Booted, Registered
<1>3. \A w \in Wallet : Rank(w)' = Rank(w)
  BY <1>1 DEF Rank, Stellar, Registered
<1>4. ASSUME NEW a \in Xlm \ spoiled' PROVE Followed(a)'
  <2>1. Followed(a) /\ a # NoAddress
    BY <1>1 DEF IndexInv, Xlm
  <2>2. \A w \in Wallet : XlmOf[w] = a => DeviceOf[w] # d
    BY <1>1, <2>1
  <2>3. Kept(a) /\ Unasked(a)
    BY <1>1, <2>2, IndexAssumption DEF Kept, Unasked, TypeOK
  <2>. QED
    BY <1>1, <1>3, <2>1, <2>3, KeptInStep, KeptFollowed
<1>. QED
  BY <1>1, <1>2, <1>4 DEF IndexInv, LoadInv

-----------------------------------------------------------------------------
(* Requests *)

\* A request that is forgotten spoils its address and nothing else.
LEMMA DropIndex ==
  ASSUME TypeOK, IndexInv, NEW x \in Wallet, Drop(x),
         UNCHANGED <<created, hasToken, steady, index, boot, offset, page>>
  PROVE  IndexInv'
<1>1. /\ \A v \in Wallet \ {x} : request'[v] = request[v]
      /\ request'[x] = NoRequest
      /\ spoiled' = spoiled \cup ({XlmOf[x]} \ {NoAddress})
  BY DEF Drop, TypeOK
<1>2. Booted'
  BY <1>1 DEF IndexInv, Booted, NoRequest
<1>3. ASSUME NEW a \in Xlm \ spoiled' PROVE Followed(a)'
  <2>1. Followed(a) /\ XlmOf[x] # a
    BY <1>1 DEF IndexInv, Xlm
  <2>2. Unasked(a)
    BY <1>1, <2>1 DEF Unasked
  <2>. QED
    BY <2>1, <2>2, SameRegistry, KeptInStep, KeptFollowed
<1>. QED
  BY <1>2, <1>3, SameRegistry, SameLoad DEF IndexInv

\* A request about wallet x that is served with boot = "up" leaves other addresses alone.
LEMMA ServedOthers ==
  ASSUME TypeOK, IndexInv, NEW x \in Wallet, boot = "up",
         UNCHANGED <<created, hasToken, steady, boot, offset, page, spoiled>>,
         \A v \in Wallet \ {x} : request'[v] = request[v],
         request'[x].pc = "store" => XlmOf[x] # NoAddress,
         \A a \in Xlm : a # XlmOf[x] => index'[a] = index[a],
         (XlmOf[x] \in Xlm /\ XlmOf[x] \notin spoiled) => Followed(XlmOf[x])'
  PROVE  IndexInv'
<1>1. Booted'
  BY DEF IndexInv, Booted
<1>2. LoadInv'
  BY DEF LoadInv, Loading
<1>3. ASSUME NEW a \in Xlm \ spoiled', a # XlmOf[x] PROVE Followed(a)'
  <2>1. Followed(a)
    BY DEF IndexInv
  <2>2. Unasked(a)
    BY <1>3 DEF Unasked
  <2>. QED
    BY <1>3, <2>1, <2>2, SameRegistry, KeptInStep, KeptFollowed
<1>. QED
  BY <1>1, <1>2, <1>3, SameRegistry DEF IndexInv

LEMMA PutFindsIndex ==
  ASSUME TypeOK, IndexInv, NEW x \in Wallet, PutFinds(x)
  PROVE  IndexInv'
<1>1. /\ boot = "up" /\ request[x].pc = "put"
      /\ UNCHANGED <<created, hasToken, steady, boot, offset, page, spoiled, index>>
      /\ \A v \in Wallet \ {x} : request'[v] = request[v]
  BY DEF PutFinds, registryVars, bootVars, TypeOK
<1>2. CASE XlmOf[x] = NoAddress
  <2>1. XlmOf[x] \notin Xlm /\ request'[x].pc = "idle"
    BY <1>2 DEF PutFinds, Xlm, NoRequest, TypeOK
  <2>. QED
    BY <1>1, <2>1, ServedOthers
<1>3. CASE XlmOf[x] # NoAddress
  <2>1. /\ request'[x].pc = "store" /\ request'[x].token = hasToken[DeviceOf[x]]
    BY <1>3 DEF PutFinds, TypeOK
  <2>2. ASSUME XlmOf[x] \in Xlm, XlmOf[x] \notin spoiled PROVE Followed(XlmOf[x])'
    <3>1. Followed(XlmOf[x]) /\ x \in Asking(XlmOf[x])
      BY <1>1, <2>2 DEF IndexInv, Asking
    <3>2. Asking(XlmOf[x])' = Asking(XlmOf[x]) /\ Asking(XlmOf[x]) = {x}
      BY <1>1, <2>1, <3>1 DEF Asking, Followed
    <3>3. Justified(x)
      BY <3>1 DEF Followed
    <3>4. Justified(x)'
      BY <1>1, <2>1, <3>3 DEF Justified, Registered, Newest
    <3>. QED
      BY <3>2, <3>4 DEF Followed
  <2>. QED
    BY <1>1, <1>3, <2>2, ServedOthers
<1>. QED
  BY <1>2, <1>3

LEMMA PutStoresIndex ==
  ASSUME TypeOK, IndexInv, NEW x \in Wallet, PutStores(x)
  PROVE  IndexInv'
<1>1. /\ boot = "up" /\ request[x].pc = "store" /\ XlmOf[x] # NoAddress
      /\ UNCHANGED <<created, hasToken, steady, boot, offset, page, spoiled>>
      /\ \A v \in Wallet \ {x} : request'[v] = request[v]
      /\ request'[x].pc = "idle"
  BY DEF PutStores, registryVars, bootVars, TypeOK, IndexInv, Booted, NoRequest
<1>2. XlmOf[x] \in Xlm
  BY <1>1 DEF Xlm
<1>3. /\ index'[XlmOf[x]] = Stored(request[x].token)
      /\ \A a \in Xlm : a # XlmOf[x] => index'[a] = index[a]
  BY <1>2 DEF PutStores, TypeOK
<1>4. ASSUME XlmOf[x] \notin spoiled PROVE Followed(XlmOf[x])'
  <2>1. Followed(XlmOf[x]) /\ x \in Asking(XlmOf[x])
    BY <1>1, <1>2, <1>4 DEF IndexInv, Asking
  <2>2. Justified(x) /\ Asking(XlmOf[x])' = {}
    BY <1>1, <2>1 DEF Followed, Asking
  <2>3. Tracked(XlmOf[x])' <=> hasToken[DeviceOf[x]]
    BY <1>1, <1>3, <2>2 DEF Justified, Tracked, Stored
  <2>4. Reach(XlmOf[x]) <=> hasToken[DeviceOf[x]]
    BY <1>1, <2>2, ReachNewest DEF Justified, IndexInv
  <2>5. Reach(XlmOf[x])' <=> Reach(XlmOf[x])
    BY <1>1, <1>2, SameRegistry, KeptFacts
  <2>6. ~Loading'
    BY <1>1 DEF Loading
  <2>. QED
    BY <2>2, <2>3, <2>4, <2>5, <2>6 DEF Followed, Agrees
<1>. QED
  BY <1>1, <1>3, <1>4, ServedOthers

LEMMA DeletesIndex ==
  ASSUME TypeOK, IndexInv, NEW x \in Wallet, Deletes(x)
  PROVE  IndexInv'
<1>1. /\ boot = "up" /\ request[x].pc = "delete"
      /\ UNCHANGED <<created, hasToken, steady, boot, offset, page, spoiled>>
      /\ \A v \in Wallet \ {x} : request'[v] = request[v]
      /\ request'[x].pc = "idle"
  BY DEF Deletes, registryVars, bootVars, TypeOK, NoRequest
<1>2. \A a \in Xlm : a # XlmOf[x] => index'[a] = index[a]
  BY DEF Deletes, TypeOK
<1>3. ASSUME XlmOf[x] \in Xlm, XlmOf[x] \notin spoiled PROVE Followed(XlmOf[x])'
  <2>1. Followed(XlmOf[x]) /\ x \in Asking(XlmOf[x])
    BY <1>1, <1>3 DEF IndexInv, Asking
  <2>2. Justified(x) /\ Asking(XlmOf[x])' = {}
    BY <1>1, <2>1 DEF Followed, Asking
  <2>3. ~Tracked(XlmOf[x])'
    BY <1>3 DEF Deletes, TypeOK, Tracked, Xlm
  <2>4. \A v \in Wallet : XlmOf[v] = XlmOf[x] => ~Registered(v)
    BY <1>1, <2>2 DEF Justified
  <2>5. ~Reach(XlmOf[x])'
    BY <1>1, <2>4 DEF Reach, Registered
  <2>6. ~Loading'
    BY <1>1 DEF Loading
  <2>. QED
    BY <2>2, <2>3, <2>5, <2>6 DEF Followed, Agrees
<1>. QED
  BY <1>1, <1>2, <1>3, ServedOthers

-----------------------------------------------------------------------------
(* The process and its loader *)

LEMMA DieIndex ==
  ASSUME TypeOK, IndexInv, Die
  PROVE  IndexInv'
<1>1. /\ UNCHANGED <<created, hasToken, index, offset>> /\ boot' = "down" /\ page' = << >>
      /\ request' = [w \in Wallet |-> NoRequest]
      /\ spoiled' = spoiled \cup (IF Loading THEN Split(offset) ELSE {}) \cup
            ({XlmOf[w] : w \in {v \in Wallet : request[v].pc # "idle"}} \ {NoAddress})
  BY DEF Die, registryVars
<1>2. Booted' /\ LoadInv'
  BY <1>1 DEF Booted, NoRequest, LoadInv, Loading
<1>3. ASSUME NEW a \in Xlm \ spoiled' PROVE Followed(a)'
  <2>1. Followed(a) /\ Asking(a) = {}
    BY <1>1 DEF IndexInv, Asking, Xlm
  <2>2. Agrees(a)
    BY <1>1, <2>1 DEF Followed, Settled
  <2>3. Agrees(a)'
    BY <1>1, <2>2, SameRegistry, KeptFacts DEF Agrees, Tracked
  <2>4. Asking(a)' = {} /\ ~Loading'
    BY <1>1 DEF Asking, NoRequest, Loading
  <2>. QED
    BY <2>3, <2>4 DEF Followed
<1>. QED
  BY <1>1, <1>2, <1>3, SameRegistry DEF IndexInv

\* Nothing was met before the first page.
LEMMA RestartIndex ==
  ASSUME TypeOK, IndexInv, NEW load \in BOOLEAN, Restart(load)
  PROVE  IndexInv'
<1>1. /\ UNCHANGED <<created, hasToken, index, request, spoiled, page>>
      /\ boot = "down" /\ boot' \in {"load", "up"} /\ offset' = 0 /\ page = << >>
  BY DEF Restart, IndexInv, Booted
<1>2. Booted'
  BY <1>1 DEF IndexInv, Booted
<1>3. ASSUME NEW a \in Xlm, NEW w \in Stellar', XlmOf[w] = a PROVE InStep(a)'
  <2>1. w \in Stellar /\ Rank(w)' = Rank(w)
    BY <1>1, SameRegistry DEF Stellar
  <2>2. ~(Rank(w)' <= offset')
    <3>1. Cardinality(Stellar) \in Nat
      BY StellarFinite, FS_CardinalityType
    <3>2. Rank(w) \in 1..Cardinality(Stellar)
      BY <2>1, RankOrder DEF IndexInv
    <3>3. ~(Rank(w) <= 0)
      BY <3>1, <3>2
    <3>. QED
      BY <1>1, <2>1, <3>3
  <2>3. ~Met(a, offset)'
    BY <1>3, <2>2, Zenon DEF Met
  <2>. QED
    BY <1>1, <2>3 DEF InStep
<1>4. ASSUME NEW a \in Xlm \ spoiled' PROVE Followed(a)'
  <2>1. Followed(a) /\ Kept(a) /\ Unasked(a)
    BY <1>1, SameRegistry DEF IndexInv, Unasked
  <2>2. Agrees(a)' <=> Agrees(a)
    BY <1>1, <2>1, KeptFacts DEF Agrees, Tracked
  <2>3. Asking(a) = {} => Agrees(a)
    BY <1>1, <2>1 DEF Followed, Loading
  <2>4. Asking(a) = {} => Settled(a)'
    BY <1>1, <2>2, <2>3 DEF Settled
  <2>. QED
    BY <2>1, <2>2, <2>3, <2>4, KeptFacts DEF Followed
<1>. QED
  BY <1>1, <1>2, <1>3, <1>4, SameRegistry DEF IndexInv, LoadInv

\* What a page says of an address that has no wallet behind it, if the entry is right
\* where it says nothing.
LEMMA PagePromises ==
  ASSUME TypeOK, IndexInv, NEW a \in Xlm, Met(a, offset) => Agrees(a), Met(a, offset + PageSize)
  PROVE  IF a \in DOMAIN Entries(Page) THEN Entries(Page)[a] <=> Reach(a) ELSE Agrees(a)
<1>1. offset \in Nat /\ PageSize \in Nat \ {0}
  BY IndexAssumption DEF TypeOK
<1>2. \A w \in Stellar : Rank(w) \in Int /\ w \in Wallet
  <2>1. Cardinality(Stellar) \in Nat
    BY StellarFinite, FS_CardinalityType
  <2>. QED
    BY <2>1, RankOrder DEF Stellar, IndexInv
<1>3. CASE PageOf(a) = {}
  <2>1. Met(a, offset)
    BY <1>1, <1>2, <1>3 DEF Met, PageOf, Page
  <2>. QED
    BY <1>3, <2>1, EntryOf
<1>4. CASE PageOf(a) # {}
  <2>1. /\ a \in DOMAIN Entries(Page)
        /\ Entries(Page)[a] = (\E w \in PageOf(a) : /\ hasToken[DeviceOf[w]]
                                                    /\ \A v \in PageOf(a) : created[v] <= created[w])
    BY <1>4, EntryOf
  <2>2. \A w \in PageOf(a) : w \in Stellar /\ XlmOf[w] = a /\ offset < Rank(w)
    BY DEF PageOf, Page
  <2>3. \A w \in Stellar : (XlmOf[w] = a /\ offset < Rank(w)) => w \in PageOf(a)
    BY DEF Met, PageOf, Page
  <2>4. ASSUME NEW w \in PageOf(a)
        PROVE  Newest(w, Wallet) <=> \A v \in PageOf(a) : created[v] <= created[w]
    <3>1. ASSUME \A v \in PageOf(a) : created[v] <= created[w], NEW v \in Wallet, XlmOf[v] = a
          PROVE  created[v] <= created[w]
      <4>1. created[v] \in Nat /\ created[w] \in Nat
        BY <1>2, <2>2 DEF TypeOK
      <4>2. CASE v \in PageOf(a)
        BY <3>1, <4>2
      <4>3. CASE v \in Stellar /\ v \notin PageOf(a)
        <5>1. ~(offset < Rank(v))
          BY <2>3, <3>1, <4>3
        <5>2. ~(Rank(w) <= Rank(v))
          BY <1>1, <1>2, <2>2, <4>3, <5>1
        <5>. QED
          BY <2>2, <4>1, <4>3, <5>2, RankOrder DEF IndexInv
      <4>4. CASE v \notin Stellar
        BY <3>1, <4>1, <4>4 DEF Stellar, Registered, Xlm
      <4>. QED
        BY <4>2, <4>3, <4>4
    <3>. QED
      BY <1>2, <2>2, <3>1 DEF Newest
  <2>5. ASSUME Entries(Page)[a] PROVE Reach(a)
    <3>1. PICK w \in PageOf(a) : hasToken[DeviceOf[w]] /\ \A v \in PageOf(a) : created[v] <= created[w]
      BY <2>1, <2>5
    <3>. QED
      BY <1>2, <2>2, <2>4, <3>1 DEF Reach, Stellar
  <2>6. ASSUME Reach(a) PROVE Entries(Page)[a]
    <3>1. PICK w \in Wallet : Registered(w) /\ XlmOf[w] = a /\ hasToken[DeviceOf[w]] /\ Newest(w, Wallet)
      BY <2>6 DEF Reach
    <3>2. w \in Stellar
      BY <3>1 DEF Stellar, Xlm
    <3>3. PICK u \in PageOf(a) : TRUE
      BY <1>4
    <3>4. created[u] <= created[w] /\ u \in Stellar /\ offset < Rank(u)
      BY <1>2, <2>2, <3>1, <3>3 DEF Newest
    <3>5. Rank(u) <= Rank(w)
      BY <3>2, <3>4, RankOrder DEF IndexInv
    <3>6. w \in PageOf(a)
      BY <1>1, <1>2, <2>3, <3>1, <3>2, <3>4, <3>5
    <3>. QED
      BY <2>1, <2>4, <3>1, <3>6
  <2>7. Entries(Page)[a] \in BOOLEAN
    BY <2>1
  <2>. QED
    BY <2>1, <2>5, <2>6, <2>7
<1>. QED
  BY <1>3, <1>4

\* No address is split by a loader that has met all its wallets; one that is not split
\* was met, or none of it was.
LEMMA MetOrNot ==
  ASSUME TypeOK, IndexInv, NEW a \in Xlm, NEW k \in Nat
  PROVE  /\ Met(a, k) => a \notin Split(k)
         /\ a \notin Split(k) => Met(a, k) \/ \A w \in Stellar : XlmOf[w] = a => k < Rank(w)
<1>1. \A w \in Stellar : Rank(w) \in Int
  <2>1. Cardinality(Stellar) \in Nat
    BY StellarFinite, FS_CardinalityType
  <2>. QED
    BY <2>1, RankOrder DEF IndexInv
<1>. QED
  BY <1>1 DEF Met, Split

\* The page that is read sets right what it completes; behind the last one every wallet
\* was met.
LEMMA LoadReadsIndex ==
  ASSUME TypeOK, IndexInv, LoadReads
  PROVE  IndexInv'
<1>1. /\ boot = "load" /\ page = << >>
      /\ UNCHANGED <<created, hasToken, steady, offset, index, request>>
      /\ boot' \in {"up", "store"}
      /\ Page = {} <=> boot' = "up"
      /\ boot' = "up" => page' = << >>
      /\ boot' = "store" => page' = Entries(Page)
  BY DEF LoadReads, IndexInv, Booted, registryVars
<1>2. Booted'
  BY <1>1 DEF IndexInv, Booted
<1>3. \A a \in Xlm : /\ Kept(a) /\ Unasked(a)
                     /\ Agrees(a)' <=> Agrees(a)
                     /\ Reach(a)' <=> Reach(a)
                     /\ Tracked(a)' <=> Tracked(a)
  <2>. TAKE a \in Xlm
  <2>1. Kept(a) /\ Unasked(a)
    BY <1>1, SameRegistry DEF Unasked
  <2>. QED
    BY <1>1, <2>1, KeptFacts, KeptAgrees DEF Tracked
<1>4. offset \in Nat /\ offset + PageSize \in Nat /\ PageSize \in Nat \ {0}
  BY IndexAssumption DEF TypeOK
<1>5. Stellar' = Stellar /\ \A w \in Stellar : Rank(w)' = Rank(w)
  BY <1>1, SameRegistry DEF Stellar
<1>6. ASSUME NEW a \in Xlm
      PROVE  /\ Met(a, offset)' <=> Met(a, offset)
             /\ Met(a, offset + PageSize)' <=> Met(a, offset + PageSize)
             /\ a \in Split(offset)' <=> a \in Split(offset)
             /\ a \in Split(offset + PageSize)' <=> a \in Split(offset + PageSize)
  BY <1>1, <1>5 DEF Met, Split
<1>7. ASSUME NEW a \in Xlm, boot' = "store", Met(a, offset) => Agrees(a), Met(a, offset + PageSize)
      PROVE  Promises(a)'
  BY <1>1, <1>3, <1>7, PagePromises DEF Promises, Promised, Agrees
<1>8. ASSUME NEW a \in Xlm, InStep(a) PROVE InStep(a)'
  BY <1>3, <1>6, <1>7, <1>8 DEF InStep
<1>9. ASSUME NEW a \in Xlm, Settled(a), boot' = "store" PROVE Settled(a)'
  <2>1. Met(a, offset) => Agrees(a)
    BY <1>4, <1>9, MetOrNot DEF Settled
  <2>2. CASE Met(a, offset + PageSize)
    BY <1>3, <1>6, <1>7, <1>9, <2>1, <2>2 DEF Settled
  <2>3. CASE a \notin Split(offset + PageSize) /\ ~Met(a, offset + PageSize)
    <3>1. \A w \in Stellar : XlmOf[w] = a => offset + PageSize < Rank(w) /\ Rank(w) \in Int
      <4>1. Cardinality(Stellar) \in Nat
        BY StellarFinite, FS_CardinalityType
      <4>. QED
        BY <1>4, <2>3, <4>1, MetOrNot, RankOrder DEF IndexInv
    <3>2. \A w \in Stellar : XlmOf[w] = a => ~(Rank(w) <= offset) /\ ~(Rank(w) <= offset + PageSize)
      BY <1>4, <3>1
    <3>3. a \notin Split(offset) /\ PageOf(a) = {}
      BY <3>2 DEF Split, PageOf, Page
    <3>4. Agrees(a) /\ a \notin DOMAIN page'
      BY <1>1, <1>9, <3>3, EntryOf DEF Settled
    <3>5. Promises(a)'
      BY <1>3, <3>4 DEF Promises, Promised, Agrees
    <3>. QED
      BY <1>3, <3>4, <3>5 DEF Settled
  <2>4. CASE a \in Split(offset + PageSize)
    BY <1>3, <1>6, <1>9, <2>4 DEF Settled
  <2>. QED
    BY <2>2, <2>3, <2>4
<1>10. LoadInv'
  <2>1. Loading
    BY <1>1 DEF Loading
  <2>. QED
    BY <1>1, <1>5, <1>8, <2>1 DEF IndexInv, LoadInv
<1>11. ASSUME NEW a \in Xlm, boot' = "up" PROVE Met(a, offset)
  BY <1>1, <1>11, PagesCover DEF Met, IndexInv
<1>12. ASSUME NEW a \in Xlm \ spoiled' PROVE Followed(a)'
  <2>1. CASE a \notin spoiled
    <3>1. Followed(a)
      BY <2>1 DEF IndexInv
    <3>2. ASSUME Asking(a) = {} PROVE (IF Loading THEN Settled(a) ELSE Agrees(a))'
      <4>1. Settled(a)
        BY <1>1, <3>1, <3>2 DEF Followed, Loading
      <4>2. CASE boot' = "store"
        BY <1>9, <4>1, <4>2 DEF Loading
      <4>3. CASE boot' = "up"
        BY <1>3, <1>4, <1>11, <4>1, <4>3, MetOrNot DEF Settled, Loading
      <4>. QED
        BY <1>1, <4>2, <4>3
    <3>. QED
      BY <1>3, <3>1, <3>2, KeptFacts DEF Followed
  <2>2. CASE a \in spoiled
    <3>1. boot' = "up" /\ steady /\ Asking(a) = {} /\ \E w \in Stellar : XlmOf[w] = a
      BY <1>1, <2>2 DEF LoadReads, Heal
    <3>2. Agrees(a)
      BY <1>1, <1>11, <3>1 DEF IndexInv, LoadInv, Loading, InStep
    <3>3. Asking(a)' = {} /\ Agrees(a)' /\ ~Loading'
      BY <1>3, <3>1, <3>2, KeptFacts DEF Loading
    <3>. QED
      BY <3>3 DEF Followed
  <2>. QED
    BY <2>1, <2>2
<1>. QED
  BY <1>1, <1>2, <1>10, <1>12, SameRegistry DEF IndexInv

\* The page in hand is stored, and keeps what it promised.
LEMMA LoadStoresIndex ==
  ASSUME TypeOK, IndexInv, LoadStores
  PROVE  IndexInv'
<1>1. /\ boot = "store" /\ boot' = "load" /\ page' = << >> /\ offset' = offset + PageSize
      /\ UNCHANGED <<created, hasToken, steady, request, spoiled>>
      /\ \A a \in Xlm : index'[a] = IF a \in DOMAIN page THEN Stored(page[a]) ELSE index[a]
  BY DEF LoadStores, registryVars
<1>2. Booted'
  BY <1>1 DEF IndexInv, Booted
<1>3. Loading /\ Loading'
  BY <1>1 DEF Loading
<1>4. Stellar' = Stellar /\ \A w \in Stellar : Rank(w)' = Rank(w)
  BY <1>1, SameRegistry DEF Stellar
<1>5. ASSUME NEW a \in Xlm
      PROVE  /\ Kept(a) /\ Unasked(a)
             /\ Agrees(a)' <=> Promises(a)
             /\ Met(a, offset)' <=> Met(a, offset + PageSize)
             /\ a \in Split(offset)' <=> a \in Split(offset + PageSize)
  <2>1. Kept(a) /\ Unasked(a)
    BY <1>1, SameRegistry DEF Unasked
  <2>2. Tracked(a)' <=> Promised(a)
    BY <1>1 DEF Tracked, Promised, Stored, TypeOK
  <2>3. Met(a, offset)' <=> Met(a, offset + PageSize)
    BY <1>1, <1>4 DEF Met
  <2>4. a \in Split(offset)' <=> a \in Split(offset + PageSize)
    BY <1>1, <1>4 DEF Split
  <2>. QED
    BY <2>1, <2>2, <2>3, <2>4, KeptFacts DEF Agrees, Promises
<1>6. LoadInv'
  BY <1>1, <1>3, <1>4, <1>5 DEF IndexInv, LoadInv, InStep
<1>7. ASSUME NEW a \in Xlm \ spoiled' PROVE Followed(a)'
  <2>1. Followed(a)
    BY <1>1 DEF IndexInv
  <2>2. Settled(a) => Settled(a)'
    BY <1>1, <1>5 DEF Settled
  <2>. QED
    BY <1>3, <1>5, <2>1, <2>2, KeptFacts DEF Followed
<1>. QED
  BY <1>1, <1>2, <1>6, <1>7, SameRegistry DEF IndexInv

-----------------------------------------------------------------------------

LEMMA InitIndex ==
  Init => IndexInv
<1>. SUFFICES ASSUME Init PROVE IndexInv
  OBVIOUS
<1>1. Ordered
  <2>1. Cardinality({v \in Wallet : Registered(v)}) \in Nat
    BY IndexAssumption, FS_Subset, FS_CardinalityType
  <2>2. \A w \in Wallet : created[w] = 0 /\ ~Registered(w)
    BY DEF Init, Registered
  <2>. QED
    BY <2>1, <2>2 DEF Ordered
<1>2. Booted /\ LoadInv
  BY DEF Init, Booted, NoRequest, LoadInv, Loading
<1>3. \A a \in Xlm : Followed(a)
  BY DEF Init, Followed, Asking, NoRequest, Loading, Agrees, Tracked, Reach, Registered
<1>. QED
  BY <1>1, <1>2, <1>3 DEF IndexInv

LEMMA SameIndex ==
  ASSUME IndexInv, UNCHANGED <<created, hasToken, steady, index, boot, offset, page, request, spoiled>>
  PROVE  IndexInv'
<1>1. Booted'
  BY DEF IndexInv, Booted
<1>2. \A a \in Xlm \ spoiled' : Followed(a)'
  BY SameRegistry, KeptInStep, KeptFollowed DEF IndexInv, Unasked
<1>. QED
  BY <1>1, <1>2, SameRegistry, SameLoad DEF IndexInv

LEMMA NextIndex ==
  ASSUME TypeOK, IndexInv, [Next]_vars
  PROVE  IndexInv'
<1>1. ASSUME NEW w \in Wallet, Register(w) \/ Deregister(w) PROVE IndexInv'
  BY <1>1, RegisterIndex, DeregisterIndex
<1>2. ASSUME NEW w \in Wallet, Refused(w) \/ RequestFails(w) PROVE IndexInv'
  BY <1>2, DropIndex DEF Refused, RequestFails, registryVars, bootVars
<1>3. ASSUME NEW d \in Volatile, TokenChanges(d) PROVE IndexInv'
  BY <1>3, TokenIndex, IndexAssumption
<1>4. ASSUME NEW w \in Wallet, PutFinds(w) \/ PutStores(w) \/ Deletes(w) PROVE IndexInv'
  BY <1>4, PutFindsIndex, PutStoresIndex, DeletesIndex
<1>5. CASE Chain
  BY <1>5, SameIndex DEF Chain, Patch, PatchRejected, PatchThrows, registryVars, bootVars
<1>6. CASE UNCHANGED vars
  BY <1>6, SameIndex DEF vars, registryVars, bootVars
<1>7. CASE Die \/ \E load \in BOOLEAN : Restart(load)
  BY <1>7, DieIndex, RestartIndex
<1>8. CASE Load
  BY <1>8, LoadReadsIndex, LoadStoresIndex DEF Load
<1>. QED
  BY <1>1, <1>2, <1>3, <1>4, <1>5, <1>6, <1>7, <1>8 DEF Next, Environment, Serve

LEMMA IndexInvariant ==
  Spec => [](TypeOK /\ IndexInv)
<1>1. Init => TypeOK /\ IndexInv
  BY InitType, InitIndex
<1>2. TypeOK /\ IndexInv /\ [Next]_vars => (TypeOK /\ IndexInv)'
  BY NextType, NextIndex
<1>. QED
  BY <1>1, <1>2, PTL DEF Spec

\* The hash follows the registry, for any number of wallets and pages, whatever changes,
\* fails or dies: an address that no request is in flight about is tracked just when its
\* newest wallet can be notified, outside the cases that IndexFollows names, and again
\* after the next whole load of a steady registry that meets it.
THEOREM IndexStays ==
  Spec => []IndexFollows
<1>1. IndexInv => IndexFollows
  BY DEF IndexInv, Followed, IndexFollows, Agrees
<1>. QED
  BY <1>1, IndexInvariant, PTL

\* A loader that ran undisturbed leaves every address tracked that can be notified,
\* whatever was wrong before it.
THEOREM LoaderHeals ==
  Spec => BootLoads
<1>1. TypeOK /\ IndexInv /\ [Next]_vars =>
         ((boot = "load" /\ boot' = "up" /\ steady) => \A a \in Xlm : Reach(a) => Tracked(a))
  <2>. SUFFICES ASSUME TypeOK, IndexInv, [Next]_vars, boot = "load", boot' = "up", steady,
                       NEW a \in Xlm, Reach(a)
                PROVE  Tracked(a)
    OBVIOUS
  <2>1. LoadReads
    BY DEF Next, Environment, Register, Deregister, Refused, TokenChanges, Restart, Die, Serve,
           PutFinds, PutStores, Deletes, RequestFails, Chain, Patch, PatchRejected, PatchThrows,
           Load, LoadStores, vars, bootVars
  <2>2. Page = {}
    BY <2>1 DEF LoadReads
  <2>3. Met(a, offset)
    BY <2>2, PagesCover DEF Met, IndexInv
  <2>4. \E w \in Stellar : XlmOf[w] = a
    BY DEF Reach, Stellar, Xlm
  <2>5. InStep(a)
    BY <2>4 DEF IndexInv, LoadInv, Loading
  <2>. QED
    BY <2>3, <2>5 DEF InStep, Agrees
<1>. QED
  BY <1>1, IndexInvariant, PTL DEF Spec, BootLoads

-----------------------------------------------------------------------------
(* The loader ends.  ENABLED is spelled out: it can always be answered.     *)

\* Weak fairness of Load.
LoaderGoesOn == []([]Loading => <><<Load>>_vars)

\* What bounds a load, however many wallets come and go meanwhile: a page that is in
\* hand begins before the last of all the wallets there may be.
WalletsLeft == Cardinality(Wallet) + PageSize - offset

OffsetInv ==
    /\ boot = "load" => WalletsLeft >= 0
    /\ boot = "store" => WalletsLeft >= PageSize

\* True of every behaviour, see Descent.
LoadDescends == Rests(WalletsLeft)

LEMMA PageBound ==
  ASSUME TypeOK, Page # {}
  PROVE  offset < Cardinality(Wallet)
<1>1. PICK w \in Stellar : offset < Rank(w)
  BY DEF Page
<1>2. {v \in Stellar : created[v] <= created[w]} \in SUBSET Wallet
  BY DEF Stellar
<1>3. Rank(w) <= Cardinality(Wallet) /\ Rank(w) \in Nat /\ Cardinality(Wallet) \in Nat
  BY <1>2, IndexAssumption, FS_Subset, FS_CardinalityType DEF Rank
<1>. QED
  BY <1>1, <1>3 DEF TypeOK

\* Whatever is not a step of the loader leaves it where it is, or kills or starts it.
LEMMA LoaderUntouched ==
  ASSUME TypeOK, [Next]_vars, ~Load
  PROVE  \/ boot' = boot /\ offset' = offset
         \/ boot' = "down"
         \/ boot = "down" /\ offset' = 0
  BY DEF Next, Environment, Register, Deregister, Refused, TokenChanges, Restart, Die, Serve,
         PutFinds, PutStores, Deletes, RequestFails, Chain, Patch, PatchRejected, PatchThrows,
         vars, bootVars

\* A load reads a page, ends, or stores the page and moves on.
LEMMA LoaderMoves ==
  ASSUME TypeOK, OffsetInv, Load
  PROVE  \/ boot = "load" /\ boot' = "up"
         \/ boot = "load" /\ boot' = "store" /\ offset' = offset /\ WalletsLeft >= PageSize
         \/ /\ boot = "store" /\ boot' = "load"
            /\ WalletsLeft' = WalletsLeft - PageSize /\ WalletsLeft >= PageSize
<1>1. offset \in Nat /\ PageSize \in Nat \ {0} /\ Cardinality(Wallet) \in Nat
  BY IndexAssumption, FS_CardinalityType DEF TypeOK
<1>2. CASE LoadReads
  <2>1. CASE Page = {}
    BY <1>2, <2>1 DEF LoadReads
  <2>2. CASE Page # {}
    <3>1. WalletsLeft >= PageSize
      BY <1>1, <2>2, PageBound DEF WalletsLeft
    <3>. QED
      BY <1>2, <2>2, <3>1 DEF LoadReads
  <2>. QED
    BY <2>1, <2>2
<1>3. CASE LoadStores
  <2>1. offset' = offset + PageSize
    BY <1>3 DEF LoadStores
  <2>2. WalletsLeft' = WalletsLeft - PageSize
    BY <1>1, <2>1 DEF WalletsLeft
  <2>. QED
    BY <1>3, <2>2 DEF LoadStores, OffsetInv
<1>. QED
  BY <1>2, <1>3 DEF Load

LEMMA OffsetHolds == Spec => [](TypeOK /\ OffsetInv)
<1>1. Init => OffsetInv
  BY DEF Init, OffsetInv
<1>2. TypeOK /\ OffsetInv /\ [Next]_vars => OffsetInv'
  <2>. SUFFICES ASSUME TypeOK, OffsetInv, [Next]_vars PROVE OffsetInv'
    OBVIOUS
  <2>1. offset \in Nat /\ PageSize \in Nat \ {0} /\ Cardinality(Wallet) \in Nat
    BY IndexAssumption, FS_CardinalityType DEF TypeOK
  <2>2. CASE Load
    BY <2>1, <2>2, LoaderMoves DEF OffsetInv, WalletsLeft
  <2>3. CASE ~Load
    <3>1. CASE boot' = boot /\ offset' = offset
      BY <3>1 DEF OffsetInv, WalletsLeft
    <3>2. CASE boot' = "down"
      BY <3>2 DEF OffsetInv
    <3>3. CASE boot = "down" /\ offset' = 0
      <4>1. boot' \in {"down", "load", "up"}
        BY <2>3, <3>3 DEF Next, Environment, Register, Deregister, Refused, TokenChanges, Restart,
           Die, Serve, PutFinds, PutStores, Deletes, RequestFails, Chain, Patch, PatchRejected,
           PatchThrows, vars, bootVars
      <4>. QED
        BY <2>1, <3>3, <4>1 DEF OffsetInv, WalletsLeft
    <3>. QED
      BY <2>3, <3>1, <3>2, <3>3, LoaderUntouched
  <2>. QED
    BY <2>2, <2>3
<1>. QED
  BY <1>1, <1>2, TypeCorrect, PTL DEF Spec

\* For any wallets and any page size: the loader ends or dies, however the registry
\* changes while it runs, if it is answered.
THEOREM LoaderComesToEnd ==
  Spec /\ LoaderGoesOn /\ LoadDescends => LoaderEnds
<1>. DEFINE inv == TypeOK /\ OffsetInv
            a == WalletsLeft
            load == boot = "load"
            store == boot = "store"
<1>1. inv /\ [Next]_vars /\ (load \/ store) /\ (load \/ store)' =>
         /\ a \in Nat
         /\ a' <= a
         /\ store /\ Load => a' < a
         /\ load /\ Load => store'
         /\ load /\ ~Load => load'
         /\ store /\ ~Load => store'
  <2>. SUFFICES ASSUME inv, [Next]_vars, load \/ store, (load \/ store)'
                PROVE  /\ a \in Nat
                       /\ a' <= a
                       /\ store /\ Load => a' < a
                       /\ load /\ Load => store'
                       /\ load /\ ~Load => load'
                       /\ store /\ ~Load => store'
    OBVIOUS
  <2>1. offset \in Nat /\ PageSize \in Nat \ {0} /\ Cardinality(Wallet) \in Nat
    BY IndexAssumption, FS_CardinalityType DEF TypeOK
  <2>2. a \in Nat
    BY <2>1 DEF OffsetInv, WalletsLeft
  <2>3. CASE Load
    <3>1. a' = a \/ a' = a - PageSize
      BY <2>3, LoaderMoves DEF WalletsLeft
    <3>. QED
      BY <2>1, <2>2, <2>3, <3>1, LoaderMoves
  <2>4. CASE ~Load
    <3>1. boot' = boot /\ offset' = offset
      BY <2>4, LoaderUntouched
    <3>. QED
      BY <2>2, <2>4, <3>1 DEF WalletsLeft
  <2>. QED
    BY <2>3, <2>4, <2>2
<1>2. Loading <=> load \/ store
  BY DEF Loading
<1>3. (boot \in {"load", "store"}) <=> load \/ store
  OBVIOUS
<1>4. inv => ((boot \in {"up", "down"}) <=> ~(load \/ store))
  BY DEF TypeOK
<1>5. LoadDescends => []([](a \in Nat) /\ [][a' <= a]_a => <>[][FALSE]_a)
  BY DEF LoadDescends, Rests
<1>6. a \in Nat => ~(a < a)
  OBVIOUS
<1>7. Spec => []inv
  BY OffsetHolds
<1>8. store => ~load
  OBVIOUS
<1>. HIDE DEF inv, a, load, store
<1>9. inv /\ [Next]_vars /\ (load \/ store) /\ (load \/ store)' => a \in Nat /\ [a' <= a]_a
  BY <1>1
<1>10. inv /\ [Next]_vars /\ (load \/ store) /\ (load \/ store)' /\ [FALSE]_a
         => ~(store /\ <<Load>>_vars)
  BY <1>1, <1>6
<1>11. inv /\ [Next]_vars /\ load /\ (load \/ store)' /\ <<Load>>_vars => store'
  BY <1>1
<1>12. inv /\ [Next]_vars /\ store /\ (load \/ store)' /\ ~<<Load>>_vars => store'
  <2>. SUFFICES ASSUME inv, [Next]_vars, store, (load \/ store)', ~<<Load>>_vars PROVE store'
    OBVIOUS
  <2>1. CASE UNCHANGED vars
    BY <2>1 DEF store, vars, bootVars
  <2>2. CASE ~Load
    BY <2>2, <1>1
  <2>. QED
    BY <2>1, <2>2
<1>. QED
  BY <1>2, <1>3, <1>4, <1>5, <1>7, <1>8, <1>9, <1>10, <1>11, <1>12, PTL
  DEF Spec, LoaderGoesOn, LoaderEnds

=============================================================================
