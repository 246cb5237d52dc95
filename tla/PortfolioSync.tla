--------------------------- MODULE PortfolioSync ----------------------------
(***************************************************************************)
(* PortfolioService.syncPortfolio (src/portfolio/portfolio.service.ts) and *)
(* the document it maintains for one address.                              *)
(*                                                                         *)
(* Every received transfer starts a call that nobody awaits and nothing    *)
(* serialises: it reads the document, marks it syncing, fetches the        *)
(* balances page by page, and writes back what it fetched merged into what *)
(* it had read.  Calls of the same address overlap at every await.         *)
(*                                                                         *)
(* A step of the model is the effect of one awaited call together with the *)
(* code that runs before the next await.  The token array is the set of    *)
(* its rows.  Total, logo, symbol, deviceId and lastSyncedAt are data that *)
(* no step reads; they are left out.                                       *)
(***************************************************************************)
EXTENDS Integers, FiniteSets

CONSTANTS Call,          \* slots for syncPortfolio calls in flight (bounds how many)
          Prefix,        \* prefixes of body.event.network a webhook may carry
          NetworkMap,    \* NETWORK_MAP: known prefix -> request and response slug
          Answers,       \* the slug Alchemy labels rows with, for each requested slug
          Held,          \* networks (response slugs) with a balance from the start
          Spammed,       \* networks on which the address was sent a spam token
          PageLen,       \* entries Alchemy returns per page
          PageCap,       \* PORTFOLIO_PAGE_CAP
          Window,        \* PORTFOLIO_FULL_REFRESH_MS
          MaxTime,       \* bound: the clock
          MaxTransfers,  \* bound: transfers received with each prefix
          MaxFaults,     \* bound: database operations that fail
          MaxCrashes     \* bound: times the process dies

AllRequestSlugs == {NetworkMap[p].request : p \in DOMAIN NetworkMap}

Network == {Answers[r] : r \in AllRequestSlugs}

ASSUME PortfolioAssumption ==
    /\ Prefix # {}
    /\ DOMAIN NetworkMap \subseteq Prefix
    /\ \A p \in DOMAIN NetworkMap : Answers[NetworkMap[p].request] = NetworkMap[p].response
    /\ Held \subseteq Network
    /\ Spammed \subseteq Network
    /\ PageLen \in Nat \ {0}
    /\ PageCap \in Nat \ {0}
    /\ Window \in Nat
    /\ MaxTime \in Nat \ {0}
    /\ MaxTransfers \in [Prefix -> Nat]
    /\ MaxFaults \in Nat
    /\ MaxCrashes \in Nat

VARIABLES clock,      \* Date.now(), from 1: 0 stands for a null date
          chain,      \* how many times each network's balance has grown, 0: no balance
          pending,    \* webhooks under way to the service, by prefix
          transfers,  \* history: transfers received, by prefix
          doc,        \* the portfolio document of the address
          call,       \* the syncPortfolio calls
          faults,     \* history: database operations that failed
          crashes,    \* history: how often the process died
          thrown,     \* history: some call rejected
          truncated   \* history: some fetch stopped at the page cap

vars == <<clock, chain, pending, transfers, doc, call, faults, crashes, thrown, truncated>>

-----------------------------------------------------------------------------
(* What Alchemy lists for an address: a coin where there is a balance, and *)
(* spam.  A row is what mapTokens keeps of an entry.                       *)

Entry == Network \X {"coin", "spam"}

Listed(asked) ==
    {e \in Entry : e[1] \in asked /\ IF e[2] = "coin" THEN chain[e[1]] > 0
                                                    ELSE e[1] \in Spammed}

\* mapTokens: spam and what has no balance is dropped, the rest becomes rows.
MapTokens(batch) == {[network |-> e[1], ver |-> chain[e[1]]] : e \in {d \in batch : d[2] = "coin"}}

\* mapNetwork: unknown prefixes have no network.
Known(p) == p \in DOMAIN NetworkMap

\* since is history: the balances when the call began; cut: its fetch stopped at the cap.
Idle ==
    [pc |-> "idle", prefix |-> CHOOSE p \in Prefix : TRUE, full |-> FALSE,
     snap |-> {}, seen |-> {}, rows |-> {}, pages |-> 0,
     since |-> [n \in Network |-> 0], cut |-> FALSE]

\* The response slugs of what the call requests.
Asked(c) == IF c.full THEN Network ELSE {Answers[NetworkMap[c.prefix].request]}

\* Mutant: a document that exists is good enough to merge into.
NeedsFull_NoStamp(d, p) == ~d.exists \/ ~Known(p)

\* The decision between a full and an incremental sync, from the document just read.
NeedsFull(d, p) ==
    \/ ~d.exists
    \/ d.lastFull = 0
    \/ clock - d.lastFull > Window
    \/ ~Known(p)

\* Mutant: the affected chain is matched by the slug it was requested with.
Kept_ByRequest(c) == {r \in c.snap : r.network # NetworkMap[c.prefix].request}

\* Mutant: the rows that were read are not kept.
Kept_None(c) == {}

\* The rows of the other chains, from the document read at the start of the call.
Kept(c) == {r \in c.snap : r.network # NetworkMap[c.prefix].response}

\* Mutant: a row that is there already wins over the one just fetched.
Merged_FirstWins(c) ==
    IF c.full THEN c.rows
    ELSE c.snap \cup {r \in c.rows : \A k \in c.snap : k.network # r.network}

Merged(c) == IF c.full THEN c.rows ELSE Kept(c) \cup c.rows

\* Mutant: the status stays as markSyncing left it.
Saved_KeepsStatus(c) ==
    [doc EXCEPT !.rows = Merged(c), !.lastFull = IF c.full THEN clock ELSE @]

\* saveResult: one update; lastFullSyncAt only moves with a full sync.
Saved(c) ==
    [doc EXCEPT !.rows = Merged(c), !.status = "idle",
                !.lastFull = IF c.full THEN clock ELSE @]

\* markSyncing: upsert, with the schema's defaults when it inserts.
MarkedSyncing == [doc EXCEPT !.exists = TRUE, !.status = "syncing"]

MarkedFailed == [doc EXCEPT !.status = "failed"]

Init ==
    /\ clock = 1
    /\ chain = [n \in Network |-> IF n \in Held THEN 1 ELSE 0]
    /\ pending = [p \in Prefix |-> 0]
    /\ transfers = [p \in Prefix |-> 0]
    /\ doc = [exists |-> FALSE, rows |-> {}, status |-> "idle", lastFull |-> 0]
    /\ call = [c \in Call |-> Idle]
    /\ faults = 0
    /\ crashes = 0
    /\ thrown = FALSE
    /\ truncated = FALSE

-----------------------------------------------------------------------------
(* The environment *)

Tick ==
    /\ clock < MaxTime
    /\ clock' = clock + 1
    /\ UNCHANGED <<chain, pending, transfers, doc, call, faults, crashes, thrown, truncated>>

\* The address receives a transfer, and Alchemy sends the webhook of its network.
Receive(p) ==
    /\ transfers[p] < MaxTransfers[p]
    /\ transfers' = [transfers EXCEPT ![p] = @ + 1]
    /\ chain' = IF Known(p) THEN [chain EXCEPT ![NetworkMap[p].response] = @ + 1] ELSE chain
    /\ pending' = [pending EXCEPT ![p] = @ + 1]
    /\ UNCHANGED <<clock, doc, call, faults, crashes, thrown, truncated>>

\* The process dies with its calls; the document stays as they left it.
Crash ==
    /\ crashes < MaxCrashes
    /\ \E c \in Call : call[c].pc # "idle"
    /\ crashes' = crashes + 1
    /\ call' = [c \in Call |-> Idle]
    /\ UNCHANGED <<clock, chain, pending, transfers, doc, faults, thrown, truncated>>

-----------------------------------------------------------------------------
(* syncPortfolio *)

\* handleWebhookEvent calls it and does not await it.  A slot is only a name: the call
\* takes the first that is free.
Begin(c, p) ==
    /\ call[c].pc = "idle"
    /\ c = CHOOSE d \in Call : call[d].pc = "idle"
    /\ pending[p] > 0
    /\ pending' = [pending EXCEPT ![p] = @ - 1]
    /\ call' = [call EXCEPT ![c] = [Idle EXCEPT !.pc = "find", !.prefix = p, !.since = chain]]
    /\ UNCHANGED <<clock, chain, transfers, doc, faults, crashes, thrown, truncated>>

\* findByAddress answers: the snapshot and the kind of sync are fixed here.
Find(c) ==
    /\ call[c].pc = "find"
    /\ call' = [call EXCEPT ![c].pc = "mark", ![c].snap = doc.rows,
                            ![c].full = NeedsFull(doc, call[c].prefix)]
    /\ UNCHANGED <<clock, chain, pending, transfers, doc, faults, crashes, thrown, truncated>>

MarkSyncing(c) ==
    /\ call[c].pc = "mark"
    /\ doc' = MarkedSyncing
    /\ call' = [call EXCEPT ![c].pc = "fetch"]
    /\ UNCHANGED <<clock, chain, pending, transfers, faults, crashes, thrown, truncated>>

\* Mutant: pages are followed for as long as there is a pageKey.
FetchPage_NoCap(c) ==
    LET todo == Listed(Asked(call[c])) \ call[c].seen
    IN  /\ call[c].pc = "fetch"
        /\ \E batch \in SUBSET todo :
             /\ Cardinality(batch) = PageLen \/ (batch = todo /\ Cardinality(batch) < PageLen)
             /\ call' = [call EXCEPT ![c].pc = IF batch = todo THEN "save" ELSE "fetch",
                                     ![c].seen = @ \cup batch,
                                     ![c].rows = @ \cup MapTokens(batch),
                                     ![c].pages = @ + 1]
        /\ UNCHANGED <<clock, chain, pending, transfers, doc, faults, crashes, thrown, truncated>>

\* A page of the by-address response: full, or all there was left.  The loop ends
\* with the last page (no pageKey) or at the cap; what was fetched is then saved.
FetchPage(c) ==
    LET todo == Listed(Asked(call[c])) \ call[c].seen
    IN  /\ call[c].pc = "fetch"
        /\ \E batch \in SUBSET todo :
             /\ Cardinality(batch) = PageLen \/ (batch = todo /\ Cardinality(batch) < PageLen)
             /\ LET atCap == call[c].pages + 1 >= PageCap
                IN  /\ call' = [call EXCEPT
                                  ![c].pc = IF batch = todo \/ atCap THEN "save" ELSE "fetch",
                                  ![c].seen = @ \cup batch,
                                  ![c].rows = @ \cup MapTokens(batch),
                                  ![c].pages = @ + 1,
                                  ![c].cut = atCap /\ batch # todo]
                    /\ truncated' = (truncated \/ (atCap /\ batch # todo))
        /\ UNCHANGED <<clock, chain, pending, transfers, doc, faults, crashes, thrown>>

\* Mutant: a failed fetch is logged and the call returns.
FetchFails_Quiet(c) ==
    /\ call[c].pc = "fetch"
    /\ call' = [call EXCEPT ![c] = Idle]
    /\ UNCHANGED <<clock, chain, pending, transfers, doc, faults, crashes, thrown, truncated>>

\* A page is not ok or the request fails: what the earlier pages held is dropped.
FetchFails(c) ==
    /\ call[c].pc = "fetch"
    /\ call' = [call EXCEPT ![c].pc = "fail"]
    /\ UNCHANGED <<clock, chain, pending, transfers, doc, faults, crashes, thrown, truncated>>

SaveResult(c) ==
    /\ call[c].pc = "save"
    /\ doc' = Saved(call[c])
    /\ call' = [call EXCEPT ![c] = Idle]
    /\ UNCHANGED <<clock, chain, pending, transfers, faults, crashes, thrown, truncated>>

MarkFailed(c) ==
    /\ call[c].pc = "fail"
    /\ doc' = MarkedFailed
    /\ call' = [call EXCEPT ![c] = Idle]
    /\ UNCHANGED <<clock, chain, pending, transfers, faults, crashes, thrown, truncated>>

-----------------------------------------------------------------------------
(* The database fails, before or after it applied the update. *)

Fault == faults < MaxFaults /\ faults' = faults + 1

\* saveResult is inside the try: the call goes on to markFailed.
SaveFails(c) ==
    /\ call[c].pc = "save"
    /\ Fault
    /\ doc' \in {doc, Saved(call[c])}
    /\ call' = [call EXCEPT ![c].pc = "fail"]
    /\ UNCHANGED <<clock, chain, pending, transfers, crashes, thrown, truncated>>

\* The other three are not: the call rejects.
Throws(c) ==
    /\ Fault
    /\ \/ call[c].pc = "find" /\ UNCHANGED doc
       \/ call[c].pc = "mark" /\ doc' \in {doc, MarkedSyncing}
       \/ call[c].pc = "fail" /\ doc' \in {doc, MarkedFailed}
    /\ call' = [call EXCEPT ![c] = Idle]
    /\ thrown' = TRUE
    /\ UNCHANGED <<clock, chain, pending, transfers, crashes, truncated>>

-----------------------------------------------------------------------------

Environment == Tick \/ Crash \/ \E p \in Prefix : Receive(p)

\* What a call does by itself once it has begun.
CallStep(c) ==
    \/ Find(c) \/ MarkSyncing(c) \/ FetchPage(c) \/ FetchFails(c)
    \/ SaveResult(c) \/ MarkFailed(c) \/ SaveFails(c) \/ Throws(c)

Next ==
    \/ Environment
    \/ \E c \in Call : CallStep(c) \/ \E p \in Prefix : Begin(c, p)

Spec == Init /\ [][Next]_vars

(* Every database and HTTP call is answered or fails, and Node then runs   *)
(* the continuation.                                                       *)
FairSpec == Spec /\ \A c \in Call : WF_vars(CallStep(c))

-----------------------------------------------------------------------------
(* Type invariant *)

Row == [network : Network, ver : Nat]

SyncCall ==
    [pc : {"idle", "find", "mark", "fetch", "save", "fail"}, prefix : Prefix, full : BOOLEAN,
     snap : SUBSET Row, seen : SUBSET Entry, rows : SUBSET Row, pages : 0..PageCap,
     since : [Network -> Nat], cut : BOOLEAN]

\* Every variable stays in its range: no fetch follows more than PageCap pages.
TypeOK ==
    /\ clock \in 1..MaxTime
    /\ chain \in [Network -> Nat]
    /\ pending \in [Prefix -> Nat]
    /\ transfers \in [Prefix -> Nat]
    /\ doc \in [exists : BOOLEAN, rows : SUBSET Row, status : {"idle", "syncing", "failed"},
                lastFull : 0..MaxTime]
    /\ call \in [Call -> SyncCall]
    /\ faults \in 0..MaxFaults
    /\ crashes \in 0..MaxCrashes
    /\ thrown \in BOOLEAN
    /\ truncated \in BOOLEAN

-----------------------------------------------------------------------------
(* Safety *)

HasOneRowPerNetwork(rows) == \A a, b \in rows : a.network = b.network => a = b

HasEveryHeld(rows) == \A n \in Held : \E r \in rows : r.network = n

\* Nothing is counted twice: merging a chain into the stored rows replaces them,
\* also where Alchemy answers with another slug than it was asked for (Polygon).
NoDuplicateRows == HasOneRowPerNetwork(doc.rows)

\* Once a full sync has been saved, every network that held a balance from the start has
\* its row from then on: calls that overlap, fail or die never bring back a document that
\* was not fully synced.  Not so for a network whose balance came later: a call that read
\* the document before its row was stored saves it away (RowsAreKept).  Nor after a fetch
\* that was cut off at the page cap, which is stamped as a full sync all the same.
HeldChainsPresent == (doc.lastFull # 0 /\ ~truncated) => HasEveryHeld(doc.rows)

\* The document says "syncing" only while a call is at work that will settle it,
\* or a call was cut off by a crash or by a failing database.
SyncingHasWorker ==
    doc.status = "syncing" =>
        \/ \E c \in Call : call[c].pc \in {"fetch", "save", "fail"}
        \/ crashes > 0
        \/ thrown

\* An incremental sync replaces only the affected chain and keeps the rest.
OthersOf(rows, c) == {r \in rows : r.network # NetworkMap[c.prefix].response}

OtherChainsUntouched ==
    [][\A c \in Call :
          (SaveResult(c) /\ ~call[c].full) =>
              OthersOf(doc'.rows, call[c]) = OthersOf(doc.rows, call[c])]_vars

\* The rows have a balance of network n that is no older than ver.
HasSince(rows, n, ver) == \E r \in rows : r.network = n /\ r.ver >= ver

\* The transfer that started a call is in what it saves, although calls that began before
\* or after it fetch and save meanwhile: of each network it asked for, a call that got to
\* its last page saves a balance no older than when it began.  (A call that began before
\* and saves after it brings the older balance back: nothing orders the saves.)
TransferIsSaved ==
    [][\A c \in Call :
          (SaveResult(c) /\ ~call[c].cut) =>
              \A n \in Asked(call[c]) :
                  call[c].since[n] > 0 => HasSince(doc'.rows, n, call[c].since[n])]_vars

\* "keep the rest": what a call read in the document, of any network, it saves again, the
\* same or newer, if it got to its last page; whatever other calls do meanwhile.  So a row
\* is lost or grows old only under a call that read the document before it was stored.
RowsAreKept ==
    [][\A c \in Call :
          (SaveResult(c) /\ ~call[c].cut) =>
              \A r \in call[c].snap : HasSince(doc'.rows, r.network, r.ver)]_vars

-----------------------------------------------------------------------------
(* Liveness *)

\* A document marked syncing is settled in the end, as synced or as failed, unless a
\* crash or a failing database cut its call off.
SyncSettles ==
    (doc.status = "syncing") ~> (doc.status # "syncing" \/ crashes > 0 \/ thrown)

=============================================================================
