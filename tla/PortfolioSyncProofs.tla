------------------------ MODULE PortfolioSyncProofs -------------------------
(***************************************************************************)
(* Proofs about PortfolioSync, for every set of networks, page size, page  *)
(* cap, refresh window and number of overlapping calls, faults and         *)
(* crashes.                                                                *)
(***************************************************************************)
EXTENDS PortfolioSync, Descent, TLAPS

-----------------------------------------------------------------------------
(* Types and the shape of a call *)

\* A call that still fetches is below the cap, one that merges has a known
\* network, and one that has not fetched holds nothing.
CallShape ==
    \A c \in Call :
        /\ call[c].pc = "fetch" => call[c].pages < PageCap
        /\ (call[c].pc \in {"mark", "fetch", "save"} /\ ~call[c].full) => Known(call[c].prefix)
        /\ call[c].pc \in {"find", "mark"} =>
               call[c].rows = {} /\ call[c].seen = {} /\ call[c].pages = 0

TypeInv == TypeOK /\ CallShape

LEMMA IdleType == Idle \in SyncCall
  BY PortfolioAssumption DEF Idle, SyncCall, Row

\* A call that only moves on is still a call, with all the rest as it was.
LEMMA CallMovesOn ==
  ASSUME TypeOK, NEW c \in Call, NEW v \in {"idle", "find", "mark", "fetch", "save", "fail"},
         call' = [call EXCEPT ![c].pc = v]
  PROVE  /\ call' \in [Call -> SyncCall] /\ call'[c].pc = v
         /\ \A d \in Call : d # c => call'[d] = call[d]
         /\ call'[c].prefix = call[c].prefix /\ call'[c].full = call[c].full
         /\ call'[c].snap = call[c].snap /\ call'[c].seen = call[c].seen
         /\ call'[c].rows = call[c].rows /\ call'[c].pages = call[c].pages
         /\ call'[c].since = call[c].since /\ call'[c].cut = call[c].cut
<1> DEFINE moved == [call[c] EXCEPT !.pc = v]
<1>1. call[c] \in SyncCall /\ call \in [Call -> SyncCall]
  BY DEF TypeOK
<1>2. call' = [call EXCEPT ![c] = moved]
  BY <1>1
<1>3. /\ moved \in SyncCall /\ moved.pc = v
      /\ moved.prefix = call[c].prefix /\ moved.full = call[c].full
      /\ moved.snap = call[c].snap /\ moved.seen = call[c].seen
      /\ moved.rows = call[c].rows /\ moved.pages = call[c].pages
      /\ moved.since = call[c].since /\ moved.cut = call[c].cut
  BY <1>1 DEF SyncCall
<1> HIDE DEF moved
<1> QED BY <1>1, <1>2, <1>3

LEMMA AskedType ==
  ASSUME NEW c \in SyncCall, c.full \/ Known(c.prefix)
  PROVE  Asked(c) \subseteq Network
  BY DEF Asked, Known, Network, AllRequestSlugs

LEMMA MapTokensType ==
  ASSUME TypeOK, NEW batch \in SUBSET Entry
  PROVE  MapTokens(batch) \in SUBSET Row
  BY DEF MapTokens, Entry, Row, TypeOK

LEMMA SavedType ==
  ASSUME TypeOK, NEW c \in SyncCall
  PROVE  Saved(c) \in [exists : BOOLEAN, rows : SUBSET Row,
                       status : {"idle", "syncing", "failed"}, lastFull : 0..MaxTime]
<1>1. Merged(c) \in SUBSET Row
  BY DEF Merged, Kept, SyncCall
<1>2. clock \in 0..MaxTime
  BY PortfolioAssumption DEF TypeOK
<1> QED BY <1>1, <1>2 DEF Saved, TypeOK

LEMMA InitTypeInv == Init => TypeInv
<1> SUFFICES ASSUME Init PROVE TypeInv
  OBVIOUS
<1>1. TypeOK
  <2>1. chain \in [Network -> Nat] /\ pending \in [Prefix -> Nat]
    BY DEF Init
  <2>2. call \in [Call -> SyncCall]
    BY IdleType DEF Init
  <2>3. clock \in 1..MaxTime /\ 0 \in 0..MaxTime /\ transfers \in [Prefix -> Nat]
        /\ faults \in 0..MaxFaults /\ crashes \in 0..MaxCrashes
    BY PortfolioAssumption DEF Init
  <2>4. doc \in [exists : BOOLEAN, rows : SUBSET Row, status : {"idle", "syncing", "failed"},
                 lastFull : 0..MaxTime]
    BY <2>3 DEF Init
  <2> QED BY <2>1, <2>2, <2>3, <2>4 DEF Init, TypeOK
<1>2. CallShape
  BY DEF Init, CallShape, Idle
<1> QED BY <1>1, <1>2 DEF TypeInv

\* Every step keeps the types and the shape of the calls.
LEMMA NextTypeInv == TypeInv /\ [Next]_vars => TypeInv'
<1> SUFFICES ASSUME TypeInv, [Next]_vars PROVE TypeInv'
  OBVIOUS
<1> USE PortfolioAssumption DEF TypeInv
<1>1. CASE Tick
  BY <1>1 DEF Tick, TypeOK, CallShape
<1>2. CASE Crash
  <2>1. TypeOK'
    BY <1>2, IdleType DEF Crash, TypeOK
  <2>2. CallShape'
    BY <1>2 DEF Crash, CallShape, Idle
  <2> QED BY <2>1, <2>2
<1>3. ASSUME NEW p \in Prefix, Receive(p) PROVE TypeInv'
  <2>1. chain' \in [Network -> Nat]
    <3>1. CASE Known(p)
      <4>1. NetworkMap[p].response \in Network
        BY <3>1 DEF Known, Network, AllRequestSlugs
      <4> QED BY <1>3, <3>1, <4>1 DEF Receive, TypeOK
    <3>2. CASE ~Known(p)
      BY <1>3, <3>2 DEF Receive, TypeOK
    <3> QED BY <3>1, <3>2
  <2>2. pending' \in [Prefix -> Nat]
    BY <1>3 DEF Receive, TypeOK
  <2>3. transfers' \in [Prefix -> Nat]
    BY <1>3 DEF Receive, TypeOK
  <2>4. CallShape'
    BY <1>3 DEF Receive, CallShape
  <2> QED BY <1>3, <2>1, <2>2, <2>3, <2>4 DEF Receive, TypeOK
<1>4. ASSUME NEW c \in Call, NEW p \in Prefix, Begin(c, p) PROVE TypeInv'
  <2> DEFINE begun == [Idle EXCEPT !.pc = "find", !.prefix = p, !.since = chain]
  <2>1. /\ begun \in SyncCall /\ begun.pc = "find" /\ begun.rows = {}
        /\ begun.seen = {} /\ begun.pages = 0
    BY IdleType DEF Idle, SyncCall, TypeOK
  <2>2. call' = [call EXCEPT ![c] = begun]
    BY <1>4 DEF Begin
  <2> HIDE DEF begun
  <2>3. call' \in [Call -> SyncCall]
    BY <2>1, <2>2 DEF TypeOK
  <2>4. CallShape'
    BY <2>1, <2>2 DEF TypeOK, CallShape
  <2>5. pending' \in [Prefix -> Nat]
    BY <1>4 DEF Begin, TypeOK
  <2> QED BY <1>4, <2>3, <2>4, <2>5 DEF Begin, TypeOK
<1>5. ASSUME NEW c \in Call, Find(c) PROVE TypeInv'
  <2>1. NeedsFull(doc, call[c].prefix) \in BOOLEAN
    BY DEF NeedsFull
  <2>2. ~NeedsFull(doc, call[c].prefix) => Known(call[c].prefix)
    BY DEF NeedsFull
  <2> DEFINE found == [call[c] EXCEPT !.pc = "mark", !.snap = doc.rows,
                                      !.full = NeedsFull(doc, call[c].prefix)]
  <2>3. call' = [call EXCEPT ![c] = found]
    BY <1>5 DEF Find, TypeOK
  <2>4. doc.rows \in SUBSET Row /\ call[c] \in SyncCall /\ call[c].pc = "find"
    BY <1>5 DEF Find, TypeOK
  <2>5. found \in SyncCall
    BY <2>1, <2>4 DEF SyncCall
  <2>6. /\ found.pc = "mark" /\ found.prefix = call[c].prefix /\ found.rows = call[c].rows
        /\ found.seen = call[c].seen /\ found.pages = call[c].pages
        /\ found.full = NeedsFull(doc, call[c].prefix)
    BY <2>4 DEF SyncCall
  <2> HIDE DEF found
  <2>9. call' \in [Call -> SyncCall]
    BY <2>3, <2>5 DEF TypeOK
  <2>10. UNCHANGED <<clock, chain, pending, transfers, doc, faults, crashes, thrown,
                     truncated>>
    BY <1>5 DEF Find
  <2>7. TypeOK'
    BY <2>9, <2>10 DEF TypeOK
  <2>8. CallShape'
    BY <2>2, <2>3, <2>4, <2>6 DEF TypeOK, CallShape
  <2> QED BY <2>7, <2>8
<1>6. ASSUME NEW c \in Call, MarkSyncing(c) PROVE TypeInv'
  <2>3. call' \in [Call -> SyncCall]
    BY <1>6, CallMovesOn DEF MarkSyncing
  <2>4. doc' \in [exists : BOOLEAN, rows : SUBSET Row, status : {"idle", "syncing", "failed"},
                  lastFull : 0..MaxTime]
    BY <1>6 DEF MarkSyncing, MarkedSyncing, TypeOK
  <2>5. UNCHANGED <<clock, chain, pending, transfers, faults, crashes, thrown, truncated>>
    BY <1>6 DEF MarkSyncing
  <2>1. TypeOK'
    BY <2>3, <2>4, <2>5 DEF TypeOK
  <2>2. CallShape'
    <3>1. /\ call'[c].pc = "fetch" /\ call[c].pc = "mark" /\ call'[c].pages = 0
          /\ call'[c].full = call[c].full /\ call'[c].prefix = call[c].prefix
          /\ \A d \in Call : d # c => call'[d] = call[d]
      BY <1>6, CallMovesOn DEF MarkSyncing, CallShape
    <3> QED BY <3>1 DEF CallShape
  <2> QED BY <2>1, <2>2
<1>7. ASSUME NEW c \in Call, FetchPage(c) PROVE TypeInv'
  <2> DEFINE todo == Listed(Asked(call[c])) \ call[c].seen
             atCap == call[c].pages + 1 >= PageCap
  <2>1. PICK batch \in SUBSET todo :
          /\ call' = [call EXCEPT
                        ![c].pc = IF batch = todo \/ atCap THEN "save" ELSE "fetch",
                        ![c].seen = @ \cup batch,
                        ![c].rows = @ \cup MapTokens(batch),
                        ![c].pages = @ + 1,
                        ![c].cut = atCap /\ batch # todo]
          /\ truncated' = (truncated \/ (atCap /\ batch # todo))
    BY <1>7 DEF FetchPage
  <2>2. batch \subseteq Entry
    BY DEF Listed
  <2>3. MapTokens(batch) \in SUBSET Row
    BY <2>2, MapTokensType
  <2>4. /\ call[c] \in SyncCall /\ call[c].pages \in Nat /\ call[c].pages < PageCap
        /\ call[c].pc = "fetch"
    <3>1. call[c] \in SyncCall
      BY DEF TypeOK
    <3>2. call[c].pages \in 0..PageCap
      BY <3>1 DEF SyncCall
    <3>3. call[c].pc = "fetch"
      BY <1>7 DEF FetchPage
    <3>4. call[c].pages < PageCap
      BY <3>3 DEF CallShape
    <3> QED BY <3>1, <3>2, <3>3, <3>4
  <2> DEFINE pc2 == IF batch = todo \/ atCap THEN "save" ELSE "fetch"
             cut2 == atCap /\ batch # todo
  <2>5. cut2 \in BOOLEAN /\ pc2 \in {"save", "fetch"} /\ (pc2 = "fetch" => call[c].pages + 1 < PageCap)
    BY <2>4
  <2>6. call' = [call EXCEPT ![c] = [call[c] EXCEPT !.pc = pc2, !.seen = @ \cup batch,
                                       !.rows = @ \cup MapTokens(batch), !.pages = @ + 1,
                                       !.cut = cut2]]
    BY <2>1 DEF TypeOK
  <2> HIDE DEF todo, atCap, pc2, cut2
  <2>7. [call[c] EXCEPT !.pc = pc2, !.seen = @ \cup batch,
                        !.rows = @ \cup MapTokens(batch), !.pages = @ + 1,
                        !.cut = cut2] \in SyncCall
    <3>1. call[c].pages + 1 \in 0..PageCap
      BY <2>4
    <3>2. /\ call[c].seen \cup batch \in SUBSET Entry
          /\ call[c].rows \cup MapTokens(batch) \in SUBSET Row
      BY <2>2, <2>3, <2>4 DEF SyncCall
    <3> QED BY <2>4, <2>5, <3>1, <3>2 DEF SyncCall
  <2>8. call' \in [Call -> SyncCall]
    BY <2>6, <2>7 DEF TypeOK
  <2>9. truncated' \in BOOLEAN
    BY <2>1 DEF TypeOK
  <2>10. CallShape'
    <3>1. \A d \in Call : d # c => call'[d] = call[d]
      BY <2>6 DEF TypeOK
    <3>2. /\ call'[c].pc = pc2 /\ call'[c].pages = call[c].pages + 1
          /\ call'[c].full = call[c].full /\ call'[c].prefix = call[c].prefix
      BY <2>4, <2>6 DEF TypeOK, SyncCall
    <3> QED BY <2>4, <2>5, <3>1, <3>2 DEF CallShape
  <2> QED BY <1>7, <2>8, <2>9, <2>10 DEF FetchPage, TypeOK
<1>8. ASSUME NEW c \in Call, FetchFails(c) PROVE TypeInv'
  <2>1. TypeOK'
    <3>1. call' \in [Call -> SyncCall]
      BY <1>8, CallMovesOn DEF FetchFails
    <3> QED BY <1>8, <3>1 DEF FetchFails, TypeOK
  <2>2. CallShape'
    <3>1. call'[c].pc = "fail" /\ \A d \in Call : d # c => call'[d] = call[d]
      BY <1>8, CallMovesOn DEF FetchFails
    <3> QED BY <3>1 DEF CallShape
  <2> QED BY <2>1, <2>2
<1>9. ASSUME NEW c \in Call, call' = [call EXCEPT ![c] = Idle] PROVE call' \in [Call -> SyncCall] /\ CallShape'
  <2>1. call' \in [Call -> SyncCall]
    BY <1>9, IdleType DEF TypeOK
  <2>2. CallShape'
    BY <1>9 DEF TypeOK, CallShape, Idle
  <2> QED BY <2>1, <2>2
<1>10. ASSUME NEW c \in Call, SaveResult(c) PROVE TypeInv'
  <2>1. call[c] \in SyncCall
    BY DEF TypeOK
  <2> QED BY <1>9, <1>10, <2>1, SavedType DEF SaveResult, TypeOK
<1>11. ASSUME NEW c \in Call, MarkFailed(c) PROVE TypeInv'
  BY <1>9, <1>11 DEF MarkFailed, MarkedFailed, TypeOK
<1>12. ASSUME NEW c \in Call, SaveFails(c) PROVE TypeInv'
  <2>1. call[c] \in SyncCall
    BY DEF TypeOK
  <2>2. doc' \in [exists : BOOLEAN, rows : SUBSET Row,
                  status : {"idle", "syncing", "failed"}, lastFull : 0..MaxTime]
    BY <1>12, <2>1, SavedType DEF SaveFails, TypeOK
  <2>3. call' \in [Call -> SyncCall]
    BY <1>12, CallMovesOn DEF SaveFails
  <2>4. CallShape'
    <3>1. call'[c].pc = "fail" /\ \A d \in Call : d # c => call'[d] = call[d]
      BY <1>12, CallMovesOn DEF SaveFails
    <3> QED BY <3>1 DEF CallShape
  <2> QED BY <1>12, <2>2, <2>3, <2>4 DEF SaveFails, Fault, TypeOK
<1>13. ASSUME NEW c \in Call, Throws(c) PROVE TypeInv'
  <2>1. doc' \in [exists : BOOLEAN, rows : SUBSET Row,
                  status : {"idle", "syncing", "failed"}, lastFull : 0..MaxTime]
    BY <1>13 DEF Throws, MarkedSyncing, MarkedFailed, TypeOK
  <2>2. call' \in [Call -> SyncCall] /\ CallShape'
    BY <1>9, <1>13 DEF Throws
  <2> QED BY <1>13, <2>1, <2>2 DEF Throws, Fault, TypeOK
<1>14. CASE UNCHANGED vars
  BY <1>14 DEF vars, TypeOK, CallShape
<1> QED
  BY <1>1, <1>2, <1>3, <1>4, <1>5, <1>6, <1>7, <1>8, <1>10, <1>11, <1>12, <1>13, <1>14
  DEF Next, Environment, CallStep

LEMMA TypeInvHolds == Spec => []TypeInv
  BY InitTypeInv, NextTypeInv, PTL DEF Spec

\* Type correctness of syncPortfolio; among others, no fetch passes the page cap.
THEOREM TypeCorrect == Spec => []TypeOK
<1>1. TypeInv => TypeOK
  BY DEF TypeInv
<1> QED BY <1>1, TypeInvHolds, PTL

-----------------------------------------------------------------------------
(* The rows *)

\* What a call read at its start; it may be merged only if the sync is incremental.
SnapInv ==
    \A c \in Call : call[c].pc \in {"mark", "fetch", "save"} =>
        /\ HasOneRowPerNetwork(call[c].snap)
        /\ (~call[c].full /\ ~truncated) => HasEveryHeld(call[c].snap)

\* What a call fetched: a row for each coin entry it has seen, of what it asked for;
\* when it stops before the cap it has seen every network with a balance.
FetchedBy(c) ==
    /\ HasOneRowPerNetwork(call[c].rows)
    /\ \A r \in call[c].rows :
          <<r.network, "coin">> \in call[c].seen /\ r.network \in Asked(call[c])
    /\ \A n \in Network :
          <<n, "coin">> \in call[c].seen => \E r \in call[c].rows : r.network = n
    /\ (call[c].pc = "save" /\ ~truncated) =>
          \A n \in Held \cap Asked(call[c]) : <<n, "coin">> \in call[c].seen

FetchInv == \A c \in Call : call[c].pc \in {"fetch", "save"} => FetchedBy(c)

HeldPositive == \A n \in Held : chain[n] > 0

RowsInv == NoDuplicateRows /\ HeldChainsPresent /\ SnapInv /\ FetchInv /\ HeldPositive

LEMMA InitRows == Init => RowsInv
  BY PortfolioAssumption
  DEF Init, RowsInv, NoDuplicateRows, HeldChainsPresent, SnapInv, FetchInv, FetchedBy, HeldPositive,
      HasOneRowPerNetwork, Idle

\* What saveResult writes has one row per network and, short of the cap, all of them.
LEMMA MergedRows ==
  ASSUME TypeInv, RowsInv, NEW c \in Call, call[c].pc = "save"
  PROVE  /\ HasOneRowPerNetwork(Merged(call[c]))
         /\ ~truncated => HasEveryHeld(Merged(call[c]))
<1>1. /\ HasOneRowPerNetwork(call[c].rows)
      /\ \A r \in call[c].rows : r.network \in Asked(call[c])
      /\ ~truncated => \A n \in Held \cap Asked(call[c]) : \E r \in call[c].rows : r.network = n
  BY PortfolioAssumption DEF RowsInv, FetchInv, FetchedBy
<1>2. CASE call[c].full
  BY <1>1, <1>2, PortfolioAssumption DEF Merged, Asked, HasEveryHeld
<1>3. CASE ~call[c].full
  <2> DEFINE response == NetworkMap[call[c].prefix].response
  <2>1. Asked(call[c]) = {response}
    BY <1>3, PortfolioAssumption DEF Asked, TypeInv, CallShape, Known
  <2>2. /\ HasOneRowPerNetwork(call[c].snap)
        /\ ~truncated => HasEveryHeld(call[c].snap)
    BY <1>3 DEF RowsInv, SnapInv
  <2>3. Merged(call[c]) = {r \in call[c].snap : r.network # response} \cup call[c].rows
    BY <1>3 DEF Merged, Kept
  <2> HIDE DEF response
  <2>4. HasOneRowPerNetwork(Merged(call[c]))
    BY <1>1, <2>1, <2>2, <2>3 DEF HasOneRowPerNetwork
  <2>5. ASSUME ~truncated, NEW n \in Held
        PROVE  \E r \in Merged(call[c]) : r.network = n
    <3>1. CASE n = response
      BY <1>1, <2>1, <2>3, <2>5, <3>1
    <3>2. CASE n # response
      BY <2>2, <2>3, <2>5, <3>2 DEF HasEveryHeld
    <3> QED BY <3>1, <3>2
  <2> QED BY <2>4, <2>5 DEF HasEveryHeld
<1> QED BY <1>2, <1>3

\* What a page leaves alone.
LEMMA FetchPageCall ==
  ASSUME TypeInv, NEW c \in Call, FetchPage(c)
  PROVE  /\ call[c].pc = "fetch" /\ call'[c].pc \in {"fetch", "save"}
         /\ call'[c].snap = call[c].snap /\ call'[c].full = call[c].full
         /\ call'[c].pages = call[c].pages + 1
         /\ \A d \in Call : d # c => call'[d] = call[d]
         /\ truncated => truncated'
<1> DEFINE todo == Listed(Asked(call[c])) \ call[c].seen
           atCap == call[c].pages + 1 >= PageCap
<1>1. PICK batch \in SUBSET todo :
        /\ call' = [call EXCEPT ![c].pc = IF batch = todo \/ atCap THEN "save" ELSE "fetch",
                                ![c].seen = @ \cup batch,
                                ![c].rows = @ \cup MapTokens(batch),
                                ![c].pages = @ + 1,
                                ![c].cut = atCap /\ batch # todo]
        /\ truncated' = (truncated \/ (atCap /\ batch # todo))
  BY DEF FetchPage
<1>2. call[c] \in SyncCall /\ call[c].pc = "fetch"
  BY DEF FetchPage, TypeInv, TypeOK
<1> HIDE DEF todo, atCap
<1>3. /\ call'[c].pc \in {"fetch", "save"}
      /\ call'[c].snap = call[c].snap /\ call'[c].full = call[c].full
      /\ call'[c].pages = call[c].pages + 1
      /\ \A d \in Call : d # c => call'[d] = call[d]
  BY <1>1, <1>2 DEF TypeInv, TypeOK, SyncCall
<1> QED BY <1>1, <1>2, <1>3

\* A page keeps what is known of the fetched rows.
LEMMA FetchPageRows ==
  ASSUME TypeInv, RowsInv, NEW c \in Call, FetchPage(c)
  PROVE  FetchInv'
<1> DEFINE todo == Listed(Asked(call[c])) \ call[c].seen
           atCap == call[c].pages + 1 >= PageCap
           pc2(batch) == IF batch = todo \/ atCap THEN "save" ELSE "fetch"
<1>1. PICK batch \in SUBSET todo :
        /\ call' = [call EXCEPT ![c].pc = pc2(batch),
                                ![c].seen = @ \cup batch,
                                ![c].rows = @ \cup MapTokens(batch),
                                ![c].pages = @ + 1,
                                ![c].cut = atCap /\ batch # todo]
        /\ truncated' = (truncated \/ (atCap /\ batch # todo))
  BY DEF FetchPage
<1>2. call[c] \in SyncCall /\ call[c].pc = "fetch"
  BY DEF FetchPage, TypeInv, TypeOK
<1>3. /\ call'[c].pc = pc2(batch) /\ call'[c].seen = call[c].seen \cup batch
      /\ call'[c].rows = call[c].rows \cup MapTokens(batch)
      /\ call'[c].full = call[c].full /\ call'[c].prefix = call[c].prefix
      /\ \A d \in Call : d # c => call'[d] = call[d]
  BY <1>1, <1>2 DEF TypeInv, TypeOK, SyncCall
<1>4. Asked(call'[c]) = Asked(call[c])
  BY <1>3 DEF Asked
<1>5. /\ HasOneRowPerNetwork(call[c].rows)
      /\ \A r \in call[c].rows :
            <<r.network, "coin">> \in call[c].seen /\ r.network \in Asked(call[c])
      /\ \A n \in Network :
            <<n, "coin">> \in call[c].seen => \E r \in call[c].rows : r.network = n
  BY <1>2 DEF RowsInv, FetchInv, FetchedBy
<1>6. \A r \in MapTokens(batch) :
        /\ <<r.network, "coin">> \in batch
        /\ r.network \in Asked(call[c])
        /\ r = [network |-> r.network, ver |-> chain[r.network]]
  BY DEF MapTokens, Listed, Entry
<1>7. \A n \in Network : <<n, "coin">> \in batch =>
        [network |-> n, ver |-> chain[n]] \in MapTokens(batch)
  BY DEF MapTokens
<1>8. \A e \in batch : e \notin call[c].seen
  OBVIOUS
<1>9. (call'[c].pc = "save" /\ ~truncated') => batch = todo
  <2>1. truncated' = (truncated \/ (atCap /\ batch # todo))
    BY <1>1
  <2>2. call'[c].pc = IF batch = todo \/ atCap THEN "save" ELSE "fetch"
    BY <1>3
  <2> HIDE DEF todo, atCap
  <2> QED BY <2>1, <2>2
<1>10. \A n \in Held \cap Asked(call[c]) : <<n, "coin">> \in call[c].seen \cup todo
  BY PortfolioAssumption DEF Listed, Entry, RowsInv, HeldPositive
<1>11. truncated => truncated'
  BY <1>1
<1> HIDE DEF todo, atCap, pc2
<1>12. HasOneRowPerNetwork(call'[c].rows)
  <2> SUFFICES ASSUME NEW a \in call'[c].rows, NEW b \in call'[c].rows, a.network = b.network
               PROVE  a = b
    BY DEF HasOneRowPerNetwork
  <2>1. CASE a \in call[c].rows /\ b \in call[c].rows
    BY <1>5, <2>1 DEF HasOneRowPerNetwork
  <2>2. CASE a \in MapTokens(batch) /\ b \in MapTokens(batch)
    BY <1>6, <2>2
  <2>3. CASE (a \in call[c].rows /\ b \in MapTokens(batch)) \/ (b \in call[c].rows /\ a \in MapTokens(batch))
    BY <1>5, <1>6, <1>8, <2>3
  <2> QED BY <1>3, <2>1, <2>2, <2>3
<1>13. \A r \in call'[c].rows :
         <<r.network, "coin">> \in call'[c].seen /\ r.network \in Asked(call'[c])
  BY <1>3, <1>4, <1>5, <1>6
<1>14. ASSUME NEW n \in Network, <<n, "coin">> \in call'[c].seen
       PROVE  \E r \in call'[c].rows : r.network = n
  <2>1. CASE <<n, "coin">> \in call[c].seen
    BY <1>3, <1>5, <2>1
  <2>2. CASE <<n, "coin">> \in batch
    <3>1. [network |-> n, ver |-> chain[n]] \in call'[c].rows
      BY <1>3, <1>7, <2>2
    <3> QED BY <3>1
  <2> QED BY <1>3, <1>14, <2>1, <2>2
<1>15. (call'[c].pc = "save" /\ ~truncated') =>
         \A n \in Held \cap Asked(call'[c]) : <<n, "coin">> \in call'[c].seen
  BY <1>3, <1>4, <1>9, <1>10
<1>16. ASSUME NEW d \in Call, d # c, call'[d].pc \in {"fetch", "save"}
       PROVE  /\ HasOneRowPerNetwork(call'[d].rows)
              /\ \A r \in call'[d].rows :
                    <<r.network, "coin">> \in call'[d].seen /\ r.network \in Asked(call'[d])
              /\ \A n \in Network :
                    <<n, "coin">> \in call'[d].seen => \E r \in call'[d].rows : r.network = n
              /\ (call'[d].pc = "save" /\ ~truncated') =>
                    \A n \in Held \cap Asked(call'[d]) : <<n, "coin">> \in call'[d].seen
  <2>1. call'[d] = call[d]
    BY <1>3, <1>16
  <2> QED BY <1>11, <1>16, <2>1 DEF RowsInv, FetchInv, FetchedBy
<1> QED BY <1>12, <1>13, <1>14, <1>15, <1>16 DEF FetchInv, FetchedBy, Asked, HasOneRowPerNetwork

\* Every step keeps what is known of the rows.
LEMMA NextRows == TypeInv /\ RowsInv /\ [Next]_vars => RowsInv'
<1> SUFFICES ASSUME TypeInv, RowsInv, [Next]_vars PROVE RowsInv'
  OBVIOUS
<1> USE DEF RowsInv
\* A step after which every call that works is as it was keeps the calls' parts,
\* and a step that keeps the stored rows and the stamp keeps the document's.
<1>1. ASSUME NEW c \in Call, truncated' = truncated,
             \A d \in Call : d # c => call'[d] = call[d],
             call'[c].pc \in {"idle", "find", "fail"}
      PROVE  SnapInv' /\ FetchInv'
  <2>1. \A d \in Call : call'[d].pc \in {"mark", "fetch", "save"} => call'[d] = call[d]
    BY <1>1
  <2>2. SnapInv'
    BY <1>1, <2>1 DEF SnapInv, HasOneRowPerNetwork, HasEveryHeld
  <2>3. ASSUME NEW d \in Call, call'[d].pc \in {"fetch", "save"}
        PROVE  FetchedBy(d)'
    <3>1. call'[d] = call[d] /\ FetchedBy(d)
      BY <2>1, <2>3 DEF FetchInv
    <3> QED BY <1>1, <3>1 DEF FetchedBy, Asked, HasOneRowPerNetwork
  <2> QED BY <2>2, <2>3 DEF FetchInv
<1>2. ASSUME call' = call, truncated' = truncated
      PROVE  SnapInv' /\ FetchInv'
  <2>1. SnapInv'
    BY <1>2 DEF SnapInv, HasOneRowPerNetwork, HasEveryHeld
  <2>2. FetchInv'
    BY <1>2 DEF FetchInv, FetchedBy, Asked, HasOneRowPerNetwork
  <2> QED BY <2>1, <2>2
<1>3. ASSUME doc'.rows = doc.rows, doc'.lastFull = doc.lastFull, truncated => truncated'
      PROVE  NoDuplicateRows' /\ HeldChainsPresent'
  BY <1>3 DEF NoDuplicateRows, HeldChainsPresent, HasOneRowPerNetwork, HasEveryHeld
<1>4. ASSUME chain' = chain PROVE HeldPositive'
  BY <1>4 DEF HeldPositive
<1>5. doc.rows = MarkedSyncing.rows /\ doc.lastFull = MarkedSyncing.lastFull
      /\ doc.rows = MarkedFailed.rows /\ doc.lastFull = MarkedFailed.lastFull
  BY DEF TypeInv, TypeOK, MarkedSyncing, MarkedFailed
<1>6. ASSUME NEW c \in Call, call' = [call EXCEPT ![c] = Idle]
      PROVE  call'[c].pc \in {"idle", "find", "fail"} /\ \A d \in Call : d # c => call'[d] = call[d]
  BY <1>6 DEF TypeInv, TypeOK, Idle
<1>7. ASSUME NEW c \in Call, call[c].pc = "save", doc' = Saved(call[c]), truncated' = truncated
      PROVE  NoDuplicateRows' /\ HeldChainsPresent'
  <2>1. /\ HasOneRowPerNetwork(Merged(call[c]))
        /\ ~truncated => HasEveryHeld(Merged(call[c]))
    BY <1>7, MergedRows
  <2>2. doc'.rows = Merged(call[c])
    BY <1>7 DEF Saved, TypeInv, TypeOK
  <2> QED BY <1>7, <2>1, <2>2
      DEF NoDuplicateRows, HeldChainsPresent, HasOneRowPerNetwork, HasEveryHeld
<1>8. CASE Tick
  BY <1>2, <1>3, <1>4, <1>8 DEF Tick
<1>9. CASE Crash
  <2>1. SnapInv' /\ FetchInv'
    BY <1>9 DEF Crash, SnapInv, FetchInv, FetchedBy, Idle
  <2> QED BY <1>3, <1>4, <1>9, <2>1 DEF Crash
<1>10. ASSUME NEW p \in Prefix, Receive(p) PROVE RowsInv'
  <2>1. \A n \in Network : chain'[n] >= chain[n] /\ chain[n] \in Nat /\ chain'[n] \in Nat
    BY <1>10 DEF Receive, TypeInv, TypeOK
  <2>2. HeldPositive'
    BY <2>1, PortfolioAssumption DEF HeldPositive
  <2> QED BY <1>2, <1>3, <1>10, <2>2 DEF Receive
<1>11. ASSUME NEW c \in Call, NEW p \in Prefix, Begin(c, p) PROVE RowsInv'
  <2>1. call'[c].pc = "find" /\ \A d \in Call : d # c => call'[d] = call[d]
    BY <1>11 DEF Begin, TypeInv, TypeOK, Idle
  <2> QED BY <1>1, <1>3, <1>4, <1>11, <2>1 DEF Begin
<1>12. ASSUME NEW c \in Call, Find(c) PROVE RowsInv'
  <2>1. /\ call'[c].pc = "mark" /\ call'[c].snap = doc.rows
        /\ call'[c].full = NeedsFull(doc, call[c].prefix)
        /\ \A d \in Call : d # c => call'[d] = call[d]
    BY <1>12 DEF Find, TypeInv, TypeOK, SyncCall
  <2>2. ~NeedsFull(doc, call[c].prefix) => doc.lastFull # 0
    BY DEF NeedsFull
  <2>3. truncated' = truncated /\ doc' = doc /\ chain' = chain
    BY <1>12 DEF Find
  <2>4. SnapInv'
    BY <2>1, <2>2, <2>3
    DEF SnapInv, NoDuplicateRows, HeldChainsPresent, HasOneRowPerNetwork, HasEveryHeld
  <2>5. FetchInv'
    BY <2>1, <2>3 DEF FetchInv, FetchedBy, Asked, HasOneRowPerNetwork
  <2> QED BY <1>3, <1>4, <2>3, <2>4, <2>5
<1>13. ASSUME NEW c \in Call, MarkSyncing(c) PROVE RowsInv'
  <2>1. /\ call'[c].pc = "fetch" /\ call'[c].snap = call[c].snap
        /\ call'[c].full = call[c].full /\ call[c].pc = "mark"
        /\ call'[c].rows = {} /\ call'[c].seen = {}
        /\ \A d \in Call : d # c => call'[d] = call[d]
    BY <1>13 DEF MarkSyncing, TypeInv, TypeOK, SyncCall, CallShape
  <2>2. truncated' = truncated /\ doc' = MarkedSyncing /\ chain' = chain
    BY <1>13 DEF MarkSyncing
  <2>3. SnapInv'
    BY <2>1, <2>2 DEF SnapInv, HasOneRowPerNetwork, HasEveryHeld
  <2>4. FetchInv'
    BY <2>1, <2>2 DEF FetchInv, FetchedBy, Asked, HasOneRowPerNetwork
  <2> QED BY <1>3, <1>4, <1>5, <2>2, <2>3, <2>4
<1>14. ASSUME NEW c \in Call, FetchPage(c) PROVE RowsInv'
  <2>1. /\ call'[c].snap = call[c].snap /\ call'[c].full = call[c].full /\ call[c].pc = "fetch"
        /\ \A d \in Call : d # c => call'[d] = call[d]
        /\ truncated => truncated'
    BY <1>14, FetchPageCall
  <2>2. SnapInv'
    BY <2>1 DEF SnapInv, HasOneRowPerNetwork, HasEveryHeld
  <2>3. doc' = doc /\ chain' = chain
    BY <1>14 DEF FetchPage
  <2> QED BY <1>3, <1>4, <1>14, <2>1, <2>2, <2>3, FetchPageRows
<1>15. ASSUME NEW c \in Call, FetchFails(c) PROVE RowsInv'
  <2>1. call'[c].pc = "fail" /\ \A d \in Call : d # c => call'[d] = call[d]
    BY <1>15 DEF FetchFails, TypeInv, TypeOK, SyncCall
  <2> QED BY <1>1, <1>3, <1>4, <1>15, <2>1 DEF FetchFails
<1>16. ASSUME NEW c \in Call, SaveResult(c) PROVE RowsInv'
  BY <1>1, <1>4, <1>6, <1>7, <1>16 DEF SaveResult
<1>17. ASSUME NEW c \in Call, MarkFailed(c) PROVE RowsInv'
  BY <1>1, <1>3, <1>4, <1>5, <1>6, <1>17 DEF MarkFailed
<1>18. ASSUME NEW c \in Call, SaveFails(c) PROVE RowsInv'
  <2>1. call'[c].pc = "fail" /\ \A d \in Call : d # c => call'[d] = call[d]
    BY <1>18 DEF SaveFails, TypeInv, TypeOK, SyncCall
  <2>2. NoDuplicateRows' /\ HeldChainsPresent'
    BY <1>3, <1>7, <1>18 DEF SaveFails
  <2> QED BY <1>1, <1>4, <1>18, <2>1, <2>2 DEF SaveFails
<1>19. ASSUME NEW c \in Call, Throws(c) PROVE RowsInv'
  <2>1. doc'.rows = doc.rows /\ doc'.lastFull = doc.lastFull
    BY <1>5, <1>19 DEF Throws
  <2> QED BY <1>1, <1>3, <1>4, <1>6, <1>19, <2>1 DEF Throws
<1>20. CASE UNCHANGED vars
  BY <1>2, <1>3, <1>4, <1>20 DEF vars
<1> QED
  BY <1>8, <1>9, <1>10, <1>11, <1>12, <1>13, <1>14, <1>15, <1>16, <1>17, <1>18, <1>19, <1>20
  DEF Next, Environment, CallStep

LEMMA RowsInvHolds == Spec => []RowsInv
  BY InitRows, NextRows, TypeInvHolds, PTL DEF Spec

\* The merge of syncPortfolio never leaves two rows of one network, whatever slug
\* Alchemy answers with and however the calls overlap or fail.
THEOREM NoDuplicates == Spec => []NoDuplicateRows
<1>1. RowsInv => NoDuplicateRows
  BY DEF RowsInv
<1> QED BY <1>1, RowsInvHolds, PTL

\* From the first full sync on, no network that held a balance from the start is ever
\* missing from the document, unless a fetch was cut off at the page cap.
THEOREM ChainsStay == Spec => []HeldChainsPresent
<1>1. RowsInv => HeldChainsPresent
  BY DEF RowsInv
<1> QED BY <1>1, RowsInvHolds, PTL

-----------------------------------------------------------------------------
(* The balances.  A call knows of none older than when it began, the ones  *)
(* it read are no newer than those it fetches, and none is ahead of the    *)
(* chain.  This is why neither the transfer that started it nor a row it   *)
(* has read can be lost from what it saves.                                *)

UpTo(rows) == \A r \in rows : r.ver > 0 /\ r.ver <= chain[r.network]

\* What a call that is past its last page must have seen.
SeesWhatItKnew(c) ==
    (call[c].pc = "save" /\ ~call[c].cut) =>
        \A n \in Asked(call[c]) :
            (call[c].since[n] > 0 \/ \E s \in call[c].snap : s.network = n)
                => <<n, "coin">> \in call[c].seen

CallVers(c) ==
    /\ \A n \in Network : call[c].since[n] <= chain[n]
    /\ UpTo(call[c].snap)
    /\ UpTo(call[c].rows)
    /\ \A r \in call[c].rows : call[c].since[r.network] <= r.ver
    /\ \A r \in call[c].rows, s \in call[c].snap : s.network = r.network => s.ver <= r.ver
    /\ SeesWhatItKnew(c)

VersInv == UpTo(doc.rows) /\ \A c \in Call : CallVers(c)

ChainGrows == \A n \in Network : chain[n] \in Nat /\ chain'[n] \in Nat /\ chain[n] <= chain'[n]

LEMMA InitVers == Init => VersInv
  BY PortfolioAssumption DEF Init, VersInv, CallVers, SeesWhatItKnew, UpTo, Idle

LEMMA UpToGrows ==
  ASSUME ChainGrows, NEW rows \in SUBSET Row, UpTo(rows)
  PROVE  UpTo(rows)'
  BY DEF ChainGrows, UpTo, Row

\* A call that only moves on keeps what it knows.
LEMMA VersKept ==
  ASSUME TypeInv, VersInv, ChainGrows, NEW c \in Call,
         call'[c].since = call[c].since, call'[c].snap = call[c].snap,
         call'[c].rows = call[c].rows,
         call'[c].pc = "save" => call'[c] = call[c]
  PROVE  CallVers(c)'
<1>1. call[c] \in SyncCall /\ CallVers(c)
  BY DEF TypeInv, TypeOK, VersInv
<1>2. call[c].snap \in SUBSET Row /\ call[c].rows \in SUBSET Row /\ call[c].since \in [Network -> Nat]
  BY <1>1 DEF SyncCall
<1>3. UpTo(call[c].snap)' /\ UpTo(call[c].rows)'
  <2>1. UpTo(call[c].snap) /\ UpTo(call[c].rows)
    BY <1>1 DEF CallVers
  <2> QED BY <1>2, <2>1 DEF ChainGrows, UpTo, Row
<1>4. \A n \in Network : call'[c].since[n] <= chain'[n]
  BY <1>1, <1>2 DEF CallVers, ChainGrows
<1>5. SeesWhatItKnew(c)'
  BY <1>1 DEF CallVers, SeesWhatItKnew, Asked
<1> QED BY <1>1, <1>3, <1>4, <1>5 DEF CallVers

\* A call that is not under way knows nothing.
LEMMA IdleVers ==
  ASSUME NEW c \in Call, call'[c] = Idle, chain' \in [Network -> Nat]
  PROVE  CallVers(c)'
  BY DEF CallVers, SeesWhatItKnew, UpTo, Idle

\* What saveResult writes is no newer than the chain.
LEMMA MergedVers ==
  ASSUME VersInv, NEW c \in Call
  PROVE  UpTo(Merged(call[c]))
  BY DEF VersInv, CallVers, UpTo, Merged, Kept

\* A page brings what the chain holds now, and the last page all there was to know.
LEMMA FetchPageVers ==
  ASSUME TypeInv, VersInv, NEW c \in Call, FetchPage(c)
  PROVE  CallVers(c)'
<1> DEFINE todo == Listed(Asked(call[c])) \ call[c].seen
           atCap == call[c].pages + 1 >= PageCap
           pc2(batch) == IF batch = todo \/ atCap THEN "save" ELSE "fetch"
           cut2(batch) == atCap /\ batch # todo
<1>1. PICK batch \in SUBSET todo :
        call' = [call EXCEPT ![c].pc = pc2(batch),
                             ![c].seen = @ \cup batch,
                             ![c].rows = @ \cup MapTokens(batch),
                             ![c].pages = @ + 1,
                             ![c].cut = cut2(batch)]
  BY DEF FetchPage
<1>2. call[c] \in SyncCall /\ chain' = chain /\ chain \in [Network -> Nat]
  BY DEF FetchPage, TypeInv, TypeOK
<1>3. /\ call'[c].pc = pc2(batch) /\ call'[c].seen = call[c].seen \cup batch
      /\ call'[c].rows = call[c].rows \cup MapTokens(batch)
      /\ call'[c].full = call[c].full /\ call'[c].prefix = call[c].prefix
      /\ call'[c].snap = call[c].snap /\ call'[c].since = call[c].since
      /\ call'[c].cut = cut2(batch)
  BY <1>1, <1>2 DEF TypeInv, TypeOK, SyncCall
<1>4. CallVers(c)
  BY DEF VersInv
<1>5. /\ call[c].snap \in SUBSET Row /\ call[c].rows \in SUBSET Row
      /\ call[c].since \in [Network -> Nat]
  BY <1>2 DEF SyncCall
<1>6. \A r \in MapTokens(batch) : r.network \in Network /\ r.ver = chain[r.network] /\ r.ver > 0
  BY DEF MapTokens, Listed, Entry
<1>7. ASSUME call'[c].pc = "save", ~call'[c].cut,
             NEW n \in Asked(call'[c]),
             call[c].since[n] > 0 \/ \E s \in call[c].snap : s.network = n
      PROVE  <<n, "coin">> \in call'[c].seen
  <2>1. batch = todo
    BY <1>3, <1>7
  <2>2. Asked(call'[c]) = Asked(call[c])
    BY <1>3 DEF Asked
  <2>3. call[c].full \/ Known(call[c].prefix)
    <3>1. call[c].pc = "fetch"
      BY DEF FetchPage
    <3> QED BY <3>1 DEF TypeInv, CallShape
  <2>4. n \in Network
    BY <1>2, <1>7, <2>2, <2>3, AskedType
  <2>5. chain[n] > 0
    BY <1>2, <1>4, <1>5, <1>7, <2>4 DEF CallVers, UpTo, Row
  <2>6. <<n, "coin">> \in Listed(Asked(call[c]))
    BY <1>7, <2>2, <2>4, <2>5 DEF Listed, Entry
  <2> QED BY <1>3, <2>1, <2>6
<1> HIDE DEF todo, atCap, pc2, cut2
<1>8. UpTo(call[c].snap)' /\ UpTo(call[c].rows)'
  <2>1. UpTo(call[c].snap) /\ UpTo(call[c].rows)
    BY <1>4 DEF CallVers
  <2> QED BY <1>2, <1>3, <1>6, <2>1 DEF UpTo
<1>9. \A r \in call'[c].rows : call'[c].since[r.network] <= r.ver
  BY <1>3, <1>4, <1>6 DEF CallVers
<1>10. \A r \in call'[c].rows, s \in call'[c].snap : s.network = r.network => s.ver <= r.ver
  <2>1. \A r \in MapTokens(batch), s \in call[c].snap : s.network = r.network => s.ver <= r.ver
    BY <1>4, <1>6 DEF CallVers, UpTo
  <2> QED BY <1>3, <1>4, <2>1 DEF CallVers
<1>11. \A n \in Network : call'[c].since[n] <= chain'[n]
  BY <1>2, <1>3, <1>4 DEF CallVers
<1>12. SeesWhatItKnew(c)'
  BY <1>3, <1>7 DEF SeesWhatItKnew, Asked
<1> QED BY <1>8, <1>9, <1>10, <1>11, <1>12 DEF CallVers

\* Every step keeps what is known of the balances.
LEMMA NextVers == TypeInv /\ VersInv /\ [Next]_vars => VersInv'
<1> SUFFICES ASSUME TypeInv, VersInv, [Next]_vars PROVE VersInv'
  OBVIOUS
<1>1. TypeInv'
  BY NextTypeInv
<1>2. /\ call \in [Call -> SyncCall] /\ doc.rows \in SUBSET Row
      /\ chain \in [Network -> Nat] /\ chain' \in [Network -> Nat] /\ UpTo(doc.rows)
  BY <1>1 DEF TypeInv, TypeOK, VersInv
<1>3. ChainGrows
  <2>1. CASE \E p \in Prefix : Receive(p)
    BY <1>2, <2>1 DEF ChainGrows, Receive
  <2>2. CASE chain' = chain
    BY <1>2, <2>2 DEF ChainGrows
  <2>3. (\E p \in Prefix : Receive(p)) \/ chain' = chain
    BY DEF Next, Environment, CallStep, vars, Tick, Crash, Begin, Find, MarkSyncing, FetchPage,
           FetchFails, SaveResult, MarkFailed, SaveFails, Throws
  <2> QED BY <2>1, <2>2, <2>3
<1>4. ASSUME doc'.rows = doc.rows PROVE UpTo(doc.rows)'
  BY <1>2, <1>3, <1>4 DEF ChainGrows, UpTo, Row
<1>5. ASSUME NEW c \in Call, doc'.rows = Merged(call[c]), chain' = chain PROVE UpTo(doc.rows)'
  BY <1>5, MergedVers DEF UpTo
<1>6. ASSUME call' = call PROVE \A c \in Call : CallVers(c)'
  BY <1>3, <1>6, VersKept
\* A step of one call is one for the others to keep what they know.
<1>7. ASSUME NEW c \in Call, CallVers(c)', \A d \in Call : d # c => call'[d] = call[d]
      PROVE  \A d \in Call : CallVers(d)'
  BY <1>3, <1>7, VersKept
<1>8. ASSUME NEW c \in Call, call' = [call EXCEPT ![c] = Idle]
      PROVE  \A d \in Call : CallVers(d)'
  BY <1>2, <1>7, <1>8, IdleVers
<1>9. ASSUME NEW c \in Call, NEW v \in {"fetch", "fail"}, call' = [call EXCEPT ![c].pc = v]
      PROVE  \A d \in Call : CallVers(d)'
  <2>1. /\ call'[c].since = call[c].since /\ call'[c].snap = call[c].snap
        /\ call'[c].rows = call[c].rows /\ call'[c].pc = v
        /\ \A d \in Call : d # c => call'[d] = call[d]
    BY <1>9, CallMovesOn DEF TypeInv
  <2>2. CallVers(c)'
    BY <1>3, <2>1, VersKept
  <2> QED BY <1>7, <2>1, <2>2
<1>10. /\ MarkedSyncing.rows = doc.rows /\ MarkedFailed.rows = doc.rows
       /\ \A c \in Call : Saved(call[c]).rows = Merged(call[c])
  BY DEF TypeInv, TypeOK, MarkedSyncing, MarkedFailed, Saved
<1>11. CASE Tick \/ UNCHANGED vars \/ \E p \in Prefix : Receive(p)
  BY <1>4, <1>6, <1>11 DEF Tick, vars, Receive, VersInv
<1>12. CASE Crash
  <2>1. \A c \in Call : call'[c] = Idle
    BY <1>12 DEF Crash
  <2> QED BY <1>2, <1>4, <1>12, <2>1, IdleVers DEF Crash, VersInv
<1>13. ASSUME NEW c \in Call, NEW p \in Prefix, Begin(c, p) PROVE VersInv'
  <2> DEFINE begun == [Idle EXCEPT !.pc = "find", !.prefix = p, !.since = chain]
  <2>1. begun.pc = "find" /\ begun.snap = {} /\ begun.rows = {} /\ begun.since = chain
    BY DEF Idle
  <2>2. call' = [call EXCEPT ![c] = begun] /\ chain' = chain /\ doc' = doc
    BY <1>13 DEF Begin
  <2> HIDE DEF begun
  <2>3. call'[c] = begun /\ \A d \in Call : d # c => call'[d] = call[d]
    BY <1>2, <2>2
  <2>4. CallVers(c)'
    BY <1>2, <2>1, <2>2, <2>3 DEF CallVers, SeesWhatItKnew, UpTo
  <2> QED BY <1>4, <1>7, <2>2, <2>3, <2>4 DEF VersInv
<1>14. ASSUME NEW c \in Call, Find(c) PROVE VersInv'
  <2>1. /\ call'[c].pc = "mark" /\ call'[c].snap = doc.rows /\ call'[c].rows = call[c].rows
        /\ call'[c].since = call[c].since
        /\ \A d \in Call : d # c => call'[d] = call[d]
    BY <1>14 DEF Find, TypeInv, TypeOK, SyncCall
  <2>2. call[c].rows = {} /\ chain' = chain /\ doc' = doc
    BY <1>14 DEF Find, TypeInv, CallShape
  <2>3. CallVers(c)
    BY DEF VersInv
  <2>4. CallVers(c)'
    BY <1>2, <2>1, <2>2, <2>3 DEF CallVers, SeesWhatItKnew, UpTo
  <2> QED BY <1>4, <1>7, <2>1, <2>2, <2>4 DEF VersInv
<1>15. ASSUME NEW c \in Call, MarkSyncing(c) \/ FetchFails(c) PROVE VersInv'
  BY <1>4, <1>9, <1>10, <1>15 DEF MarkSyncing, FetchFails, VersInv
<1>16. ASSUME NEW c \in Call, FetchPage(c) PROVE VersInv'
  <2>1. (\A d \in Call : d # c => call'[d] = call[d]) /\ doc' = doc
    BY <1>16, FetchPageCall DEF FetchPage
  <2> QED BY <1>4, <1>7, <1>16, <2>1, FetchPageVers DEF VersInv
<1>17. ASSUME NEW c \in Call, SaveResult(c) PROVE VersInv'
  BY <1>5, <1>8, <1>10, <1>17 DEF SaveResult, VersInv
<1>18. ASSUME NEW c \in Call, SaveFails(c) PROVE VersInv'
  BY <1>4, <1>5, <1>9, <1>10, <1>18 DEF SaveFails, VersInv
<1>19. ASSUME NEW c \in Call, MarkFailed(c) \/ Throws(c) PROVE VersInv'
  BY <1>4, <1>8, <1>10, <1>19 DEF MarkFailed, Throws, VersInv
<1> QED
  BY <1>11, <1>12, <1>13, <1>14, <1>15, <1>16, <1>17, <1>18, <1>19 DEF Next, Environment, CallStep

LEMMA VersInvHolds == Spec => []VersInv
  BY InitVers, NextVers, TypeInvHolds, PTL DEF Spec

\* A network whose entry was seen has its row in what the call saves, no older than
\* when the call began and no older than the row it had read.
LEMMA SavedRows ==
  ASSUME TypeInv, RowsInv, VersInv, NEW c \in Call, SaveResult(c), ~call[c].cut,
         NEW n \in Asked(call[c]),
         call[c].since[n] > 0 \/ \E s \in call[c].snap : s.network = n
  PROVE  \E r \in doc'.rows :
            /\ r.network = n /\ r.ver >= call[c].since[n]
            /\ \A s \in call[c].snap : s.network = n => r.ver >= s.ver
<1>1. call[c].pc = "save" /\ doc'.rows = Merged(call[c])
  BY DEF SaveResult, Saved, TypeInv, TypeOK
<1>2. /\ call[c] \in SyncCall /\ n \in Network /\ call[c].since \in [Network -> Nat]
      /\ call[c].rows \in SUBSET Row /\ call[c].snap \in SUBSET Row
  <2>1. call[c] \in SyncCall /\ (call[c].full \/ Known(call[c].prefix))
    BY <1>1 DEF TypeInv, TypeOK, CallShape
  <2> QED BY <2>1, AskedType DEF SyncCall
<1>3. <<n, "coin">> \in call[c].seen
  BY <1>1 DEF VersInv, CallVers, SeesWhatItKnew
<1>4. PICK r \in call[c].rows : r.network = n
  BY <1>1, <1>2, <1>3 DEF RowsInv, FetchInv, FetchedBy
<1>5. call[c].since[n] <= r.ver /\ \A s \in call[c].snap : s.network = n => s.ver <= r.ver
  BY <1>4 DEF VersInv, CallVers
<1>6. r \in doc'.rows
  BY <1>1, <1>4 DEF Merged
<1> QED BY <1>2, <1>4, <1>5, <1>6 DEF Row

\* The transfer that started a call is in what the call saves, however other calls
\* overlap, fail or die, for any networks, pages and slugs.
THEOREM TransfersAreSaved == Spec => TransferIsSaved
<1>1. TypeInv /\ RowsInv /\ VersInv =>
        \A c \in Call : (SaveResult(c) /\ ~call[c].cut) =>
          \A n \in Asked(call[c]) :
              call[c].since[n] > 0 => HasSince(doc'.rows, n, call[c].since[n])
  BY SavedRows DEF HasSince
<1> QED BY <1>1, TypeInvHolds, RowsInvHolds, VersInvHolds, PTL DEF TransferIsSaved

\* What a call read is in what it saves, the same or newer, of the networks it asked for
\* and of the others, however other calls overlap, fail or die.
THEOREM RowsStayKept == Spec => RowsAreKept
<1>1. ASSUME TypeInv, RowsInv, VersInv, NEW c \in Call, SaveResult(c), ~call[c].cut,
             NEW r \in call[c].snap
      PROVE  HasSince(doc'.rows, r.network, r.ver)
  <2>1. call[c].pc = "save" /\ doc'.rows = Merged(call[c]) /\ r \in Row
    BY <1>1 DEF SaveResult, Saved, TypeInv, TypeOK, SyncCall
  <2>2. CASE r.network \in Asked(call[c])
    BY <1>1, <2>2, SavedRows DEF HasSince
  <2>3. CASE r.network \notin Asked(call[c])
    <3>1. ~call[c].full /\ Known(call[c].prefix)
      <4>1. r.network \in Network
        BY <2>1 DEF Row
      <4>2. ~call[c].full
        BY <2>3, <4>1 DEF Asked
      <4> QED BY <1>1, <2>1, <4>2 DEF TypeInv, CallShape
    <3>2. r.network # NetworkMap[call[c].prefix].response
      BY <2>3, <3>1, PortfolioAssumption DEF Asked, Known
    <3>3. r \in doc'.rows
      BY <1>1, <2>1, <3>1, <3>2 DEF Merged, Kept
    <3> QED BY <2>1, <3>3 DEF HasSince, Row
  <2> QED BY <2>2, <2>3
<1>2. TypeInv /\ RowsInv /\ VersInv =>
        \A c \in Call : (SaveResult(c) /\ ~call[c].cut) =>
          \A r \in call[c].snap : HasSince(doc'.rows, r.network, r.ver)
  BY <1>1
<1> QED BY <1>2, TypeInvHolds, RowsInvHolds, VersInvHolds, PTL DEF RowsAreKept

-----------------------------------------------------------------------------
(* The status *)

\* SyncingHasWorker is inductive on top of the types.
LEMMA NextWorker == TypeInv /\ SyncingHasWorker /\ [Next]_vars => SyncingHasWorker'
<1> SUFFICES ASSUME TypeInv, SyncingHasWorker, [Next]_vars, doc'.status = "syncing"
             PROVE  \/ \E c \in Call : call'[c].pc \in {"fetch", "save", "fail"}
                    \/ crashes' > 0
                    \/ thrown'
  BY DEF SyncingHasWorker
<1> USE DEF TypeInv, TypeOK, SyncingHasWorker
<1>1. CASE Tick \/ UNCHANGED vars \/ \E p \in Prefix : Receive(p)
  BY <1>1 DEF Tick, Receive, vars
<1>2. CASE Crash
  BY <1>2 DEF Crash
<1>3. ASSUME NEW c \in Call,
             Find(c) \/ \E p \in Prefix : Begin(c, p)
      PROVE  \/ \E d \in Call : call'[d].pc \in {"fetch", "save", "fail"}
             \/ crashes' > 0
             \/ thrown'
  <2>1. /\ call[c].pc \in {"idle", "find"} /\ doc' = doc /\ crashes' = crashes
        /\ thrown' = thrown /\ \A d \in Call : d # c => call'[d] = call[d]
    BY <1>3 DEF Find, Begin
  <2> QED BY <2>1
<1>4. ASSUME NEW c \in Call, MarkSyncing(c) \/ FetchPage(c) \/ FetchFails(c) \/ SaveFails(c)
      PROVE  call'[c].pc \in {"fetch", "save", "fail"}
  <2>1. CASE FetchPage(c)
    BY <2>1, FetchPageCall
  <2>2. CASE MarkSyncing(c) \/ FetchFails(c) \/ SaveFails(c)
    BY <2>2 DEF MarkSyncing, FetchFails, SaveFails, SyncCall
  <2> QED BY <1>4, <2>1, <2>2
<1>5. ASSUME NEW c \in Call, SaveResult(c) \/ MarkFailed(c) PROVE FALSE
  BY <1>5 DEF SaveResult, MarkFailed, Saved, MarkedFailed
<1>6. ASSUME NEW c \in Call, Throws(c) PROVE thrown'
  BY <1>6 DEF Throws
<1> QED
  BY <1>1, <1>2, <1>3, <1>4, <1>5, <1>6 DEF Next, Environment, CallStep

\* A document stays "syncing" only while a call that will settle it is at work,
\* short of a crash or a database failure.
THEOREM NoOrphanedSync == Spec => []SyncingHasWorker
<1>1. Init => SyncingHasWorker
  BY DEF Init, SyncingHasWorker
<1> QED BY <1>1, NextWorker, TypeInvHolds, PTL DEF Spec

-----------------------------------------------------------------------------
(* A sync settles.  ENABLED is spelled out: a call can always be answered.  *)

\* Weak fairness of every CallStep.
CallsAnswered == \A c \in Call : []([](call[c].pc # "idle") => <><<CallStep(c)>>_vars)

\* What bounds a fetch.
PagesLeft(c) == PageCap - call[c].pages

\* True of every behaviour, see Descent.
FetchesDescend == \A c \in Call : Rests(PagesLeft(c))

Settled == doc.status # "syncing" \/ crashes > 0 \/ thrown

Fetching(c) == call[c].pc = "fetch"

Saving(c) == call[c].pc = "save"

Failing(c) == call[c].pc = "fail"

\* What the steps of the system are to a call that has marked the document: a page, the
\* end of the fetch, the end of the call, or nothing.
LEMMA WorkerStep ==
  ASSUME TypeInv, [Next]_vars, NEW c \in Call, call[c].pc \in {"fetch", "save", "fail"}, ~Settled'
  PROVE  /\ ~CallStep(c) => call'[c] = call[c]
         /\ CallStep(c) => \/ Fetching(c) /\ Fetching(c)' /\ PagesLeft(c)' < PagesLeft(c)
                           \/ Fetching(c) /\ (Saving(c)' \/ Failing(c)')
                           \/ Saving(c) /\ Failing(c)'
<1> USE DEF TypeInv
<1>1. call \in [Call -> SyncCall] /\ crashes \in Nat
  BY PortfolioAssumption DEF TypeOK
<1>2. call[c].pages \in Nat /\ PageCap \in Nat
  BY <1>1, PortfolioAssumption DEF SyncCall
<1>3. ASSUME CallStep(c)
      PROVE  \/ Fetching(c) /\ Fetching(c)' /\ PagesLeft(c)' < PagesLeft(c)
             \/ Fetching(c) /\ (Saving(c)' \/ Failing(c)')
             \/ Saving(c) /\ Failing(c)'
  <2>1. CASE FetchPage(c)
    <3>1. call'[c].pc \in {"fetch", "save"} /\ call'[c].pages = call[c].pages + 1 /\ Fetching(c)
        BY <2>1, FetchPageCall DEF Fetching
    <3>2. PagesLeft(c)' < PagesLeft(c)
        BY <3>1, <1>2 DEF PagesLeft
    <3> QED BY <3>1, <3>2 DEF Fetching, Saving
  <2>2. CASE FetchFails(c)
    BY <2>2, <1>1 DEF FetchFails, SyncCall, Fetching, Failing
  <2>3. CASE SaveFails(c)
    BY <2>3, <1>1 DEF SaveFails, SyncCall, Saving, Failing
  <2>4. CASE SaveResult(c)
    <3>1. doc'.status = "idle"
        BY <2>4 DEF SaveResult, Saved, TypeOK
    <3> QED BY <3>1 DEF Settled
  <2>5. CASE MarkFailed(c)
    <3>1. doc'.status = "failed"
        BY <2>5 DEF MarkFailed, MarkedFailed, TypeOK
    <3> QED BY <3>1 DEF Settled
  <2>6. CASE Throws(c)
    BY <2>6 DEF Throws, Settled
  <2>7. CASE Find(c) \/ MarkSyncing(c)
    BY <2>7 DEF Find, MarkSyncing
  <2> QED BY <1>3, <2>1, <2>2, <2>3, <2>4, <2>5, <2>6, <2>7 DEF CallStep
<1>4. ASSUME NEW d \in Call, d # c, CallStep(d) PROVE call'[c] = call[c]
  BY <1>4, <1>1 DEF CallStep, Find, MarkSyncing, FetchPage, FetchFails, SaveResult,
                    MarkFailed, SaveFails, Throws
<1>5. ASSUME NEW d \in Call, NEW p \in Prefix, Begin(d, p) PROVE call'[c] = call[c]
  BY <1>5, <1>1 DEF Begin
<1>6. ~Crash
  <2>1. Crash => crashes' > 0
      BY <1>1 DEF Crash
  <2> QED BY <2>1 DEF Settled
<1>7. Environment => call' = call
  BY <1>6 DEF Environment, Tick, Receive
<1> QED BY <1>3, <1>4, <1>5, <1>7 DEF Next, vars

\* A call that has marked the document settles it.
LEMMA WorkerSettles ==
  ASSUME NEW c \in Call
  PROVE  /\ Spec
         /\ []([](call[c].pc # "idle") => <><<CallStep(c)>>_vars)
         /\ Rests(PagesLeft(c))
         => ((call[c].pc \in {"fetch", "save", "fail"}) ~> Settled)
<1> DEFINE a == PagesLeft(c)
           fetch == Fetching(c)
           save == Saving(c)
           fail == Failing(c)
           settled == Settled
<1>1. TypeInv /\ [Next]_vars /\ fetch /\ fetch' /\ ~settled' =>
         /\ a \in Nat
         /\ a' <= a
         /\ CallStep(c) => a' < a
  <2> SUFFICES ASSUME TypeInv, [Next]_vars, fetch, fetch', ~settled'
               PROVE  a \in Nat /\ a' <= a /\ (CallStep(c) => a' < a)
    OBVIOUS
  <2>1. a \in Nat
      BY PortfolioAssumption DEF TypeInv, TypeOK, SyncCall, PagesLeft
  <2>2. CallStep(c) => a' < a
      BY WorkerStep DEF Fetching, Saving, Failing
  <2>3. ~CallStep(c) => a' = a
      BY WorkerStep DEF Fetching, PagesLeft
  <2>4. a' \in Int
      BY NextTypeInv, PortfolioAssumption DEF TypeInv, TypeOK, SyncCall, PagesLeft
  <2> QED BY <2>1, <2>2, <2>3, <2>4
<1>2. TypeInv /\ [Next]_vars /\ ~settled' =>
         /\ fetch => fetch' \/ save' \/ fail'
         /\ save => save' \/ fail'
         /\ fail => fail'
         /\ save /\ <<CallStep(c)>>_vars => fail'
         /\ ~(fail /\ <<CallStep(c)>>_vars)
  BY WorkerStep DEF Fetching, Saving, Failing
<1>3. (call[c].pc \in {"fetch", "save", "fail"}) <=> fetch \/ save \/ fail
  BY DEF Fetching, Saving, Failing
<1>4. fetch \/ save \/ fail => call[c].pc # "idle"
  BY DEF Fetching, Saving, Failing
<1>5. Rests(PagesLeft(c)) => []([](a \in Nat) /\ [][a' <= a]_a => <>[][FALSE]_a)
  BY DEF Rests
<1>6. a \in Nat => ~(a < a)
  OBVIOUS
<1>7. Settled <=> settled
  OBVIOUS
<1> HIDE DEF a, fetch, save, fail, settled
<1>8. TypeInv /\ [Next]_vars /\ fetch /\ fetch' /\ ~settled' => a \in Nat /\ [a' <= a]_a
  BY <1>1
<1>9. TypeInv /\ [Next]_vars /\ fetch /\ fetch' /\ ~settled' /\ [FALSE]_a => ~<<CallStep(c)>>_vars
  BY <1>1, <1>6
<1>10. Spec => []TypeInv
  BY TypeInvHolds
<1> QED
  BY <1>2, <1>3, <1>4, <1>5, <1>7, <1>8, <1>9, <1>10, PTL DEF Spec

\* What some call does in the end is done in the end.
LEMMA SomeWorkerSettles ==
    (\A c \in Call : (call[c].pc \in {"fetch", "save", "fail"}) ~> Settled)
    => ((\E c \in Call : call[c].pc \in {"fetch", "save", "fail"}) ~> Settled)
<1> DEFINE work(c) == call[c].pc \in {"fetch", "save", "fail"}
           settled == Settled
<1> HIDE DEF work, settled
<1>1. (\A c \in Call : [](work(c) => <>settled)) => [](\A c \in Call : (work(c) => <>settled))
  OBVIOUS
<1>2. (\A c \in Call : (work(c) => <>settled)) => ((\E c \in Call : work(c)) => <>settled)
  OBVIOUS
<1>3. ASSUME NEW c \in Call PROVE (work(c) ~> settled) => [](work(c) => <>settled)
  BY PTL
<1>4. (\A c \in Call : (work(c) ~> settled)) => \A c \in Call : [](work(c) => <>settled)
  BY <1>3
<1>5. (\A c \in Call : (work(c) ~> settled)) => ((\E c \in Call : work(c)) ~> settled)
  BY <1>1, <1>2, <1>4, PTL
<1> QED BY <1>5 DEF work, settled

\* For any number of overlapping calls, any page size and cap, faults and crashes: a
\* document marked syncing is settled, if every call is answered.
THEOREM SyncsSettle == Spec /\ CallsAnswered /\ FetchesDescend => SyncSettles
<1>1. ASSUME NEW c \in Call
      PROVE  Spec /\ CallsAnswered /\ FetchesDescend
                => ((call[c].pc \in {"fetch", "save", "fail"}) ~> Settled)
  <2>1. CallsAnswered => []([](call[c].pc # "idle") => <><<CallStep(c)>>_vars)
      BY DEF CallsAnswered
  <2>2. FetchesDescend => Rests(PagesLeft(c))
      BY DEF FetchesDescend
  <2> QED BY <2>1, <2>2, WorkerSettles
<1>2. Spec /\ CallsAnswered /\ FetchesDescend
        => ((\E c \in Call : call[c].pc \in {"fetch", "save", "fail"}) ~> Settled)
  BY <1>1, SomeWorkerSettles
<1>3. TypeInv /\ SyncingHasWorker /\ doc.status = "syncing" =>
        (\E c \in Call : call[c].pc \in {"fetch", "save", "fail"}) \/ Settled
  BY PortfolioAssumption DEF TypeInv, TypeOK, SyncingHasWorker, Settled
<1>4. (doc.status # "syncing" \/ crashes > 0 \/ thrown) <=> Settled
  BY DEF Settled
<1> QED BY <1>2, <1>3, <1>4, TypeInvHolds, NoOrphanedSync, PTL DEF SyncSettles

=============================================================================
