# SwiftEx Listener: a verification project

TLA+ models of the SwiftEx listener (the NestJS service under `src/src`), the TLC runs that check
them on small instances, and theorems about them that TLAPS proves for every value of their
constants. Paths below are relative to the repository; "line" means a line of `src/src/...`.

## 1. The system

The listener turns blockchain activity into push notifications and keeps three stores in step with
what happens outside: a portfolio document per EVM address (MongoDB), a hash of Stellar addresses
(Redis), and the address lists of seven hooks at Alchemy. It is one Node process; concurrency comes
from promises that are started and not awaited, several of them on purpose. Nothing handles
unhandled rejections, so a promise that rejects with no handler ends the process.

| component | source | state it keeps | operations | interacts with |
|---|---|---|---|---|
| Stellar ledger loop | `stellar/stellar.service.ts` 29-32, 141-181, 206-236 | `lastLedger`, range scans in flight; nothing persisted | poll Horizon, scan a range, page through the effects of a ledger | starts scans it does not await; feeds the effect pipeline |
| Stellar effect pipeline | same, 34-138, 187-204 | none | filter by Redis, newest wallet, dust, trustline, push | Redis hash, wallet registry, Horizon, FCM |
| EVM webhook handling | `block-listener/block-listener.service.ts` 149-256, its controller | handlers in flight | walk a batch, notify the first reachable recipient, start a portfolio sync | called without await; wallet registry, FCM, portfolio |
| Portfolio sync | `portfolio/*` | one document per address: rows, status, time of the last full sync | full or incremental sync, paged fetch, merge | Alchemy Portfolio API; started by the webhook handler, not awaited |
| Redis address index | `redis/redis.service.ts` 75-188 | hash address -> FCM token | PUT and DELETE from the wallet service, filter lookup | device registry; emits events to the hook maintenance |
| Alchemy hook maintenance | `block-listener.service.ts` 60-147, 258-296 | the address lists of the hooks (external), PATCH chains in flight | add or remove an address at each hook in turn; create a hook at boot | events; nobody awaits the handlers |
| Boot loader | `block-listener.service.ts` 298-330 | offset | page through all Stellar wallets, write the hash | wallet registry, Redis; before requests are accepted |
| Bulk notification | `notification/*`, `device/*` | counts of one request | resolve device ids, send chunks of 500 tokens | device registry, FCM |
| Rate limits and bans | `block-listener/rate-limit.service.ts`, `ban-expiry.service.ts` | Redis counters, bans and sender sets, all with a TTL | check, count, ban, lift; reset and re-add when a ban expires | Redis and its expired events, Alchemy; the calls from the webhook handler are commented out at `block-listener.service.ts` 200-202 |
| AML flags | `aml/*` | a MongoDB schema | none | nothing writes it |
| Wallet and device registries | `wallet/*`, `device/*` | MongoDB collections other services write | single queries | everything above |
| Signature guard, JWT guard, spam filter, shell | `alchemy-signature.guard.ts`, `auth/*`, `common/util/*`, `main.ts` | none | stateless checks, wiring | |

What is hard in this code, and what makes each part correct:

* **Ledger loop.** Scans overlap, Horizon's answers go back in time (replicas), a 429 restarts a
  ledger, other failures abandon it, polls fail. Correct: every noticed ledger is scanned by exactly
  one scan and settled; a ledger that counts as scanned lost no effect; replays are bounded; the loop
  never stops by itself.
* **Webhook handling.** One batch brings several transfers, behind spam and internal ones, and is
  posted again when Alchemy sees no answer; the registry changes between two lookups; pushes fail.
  Correct: a delivery notifies a recipient once of a transaction, and its walk never goes past a transfer
  whose recipient is reachable. That everybody is notified, and once, is not so: two violation runs.
* **Portfolio sync.** Two calls merge into one document from snapshots taken before their fetches;
  Polygon is asked for under one slug and answered under another; the fetch is cut at a page cap;
  database calls fail between steps. Correct: no duplicate rows, no chain that was held from the start lost
  after a full sync, a call saves the balance it was started for and what it read, the status does not stay
  "syncing". That other chains stay as they are is not so: a violation run.
* **Address index and hooks.** Requests about one address race, wallets share an address, requests
  are lost while the process is down, seven PATCH calls fail one by one, the loader pages over a
  collection that changes and may be cut off. Correct: what is tracked is what can be notified, outside
  the cases that `IndexFollows` names, which the next whole load ends.
* **Bulk notification.** Chunk boundaries, whole chunks that fail, positions within a chunk. Correct:
  nobody left out without being reported, every token once, counts that add up.
* **Rate limits.** A check, two counters, their TTLs and a ban are separate commands of Redis; deliveries
  run at once, keys expire between any two commands, the process dies between INCR and EXPIRE, and the
  handler of an expired ban runs beside new deliveries. Correct: no more pass than the limit, a counter
  without a TTL has a delivery about to give it one (unless a death cut that delivery off), a ban ends.

The `hazards` in PROJECT.json name each of these at its line, with the properties that cover it, or the
reason why none does.

## 2. The modules

A step of every model is the code between two awaits. A call in flight is a record in a function over
a small set of slots: the set bounds how many overlap. History variables (named so) record what the
properties talk about and are read by no guard. Definitions named `X_Something` under a "Mutant"
comment are plausible bugs of `X`; no specification uses them. Each property must fail when its
mutant takes the place of the definition, which shows that it depends on the code.

| module | what it models |
|---|---|
| `StellarScanner` | `startLedgerLoop`, `scanLedgerRange`, `fetchLedgerEffects`, with crashes and restarts |
| `LedgerWatch` | the abstract promise: newer ledgers are announced in order and each is settled once |
| `WebhookEvents` | `handleWebhookEvent` and its callers, the lookup, the push, redelivery, the registry that changes |
| `PortfolioSync` | `syncPortfolio` with its repository, the paged fetch and the merge, overlapping calls, faults, crashes |
| `AddressIndex` | PUT and DELETE of the Redis hash, the events and PATCH chains, the boot loader, crashes |
| `StellarEffects` | `parseStellarEffect` and `checkTrustline`, composed with `AddressIndex` |
| `BulkSend` | `sendBulk`, `resolveTokens`, `findByIds`, `sendMulticast` |
| `Multicast` | the abstract promise of a bulk send: every token is decided once, and the report counts them |
| `RateLimit` | `isToAddressBanned`, `trackAndCheckToAddress`, `liftBan`, and the `BanExpiryService`, over keys that expire |
| `SenderMonitor` | `trackAndCheckFromAddress`: the sets of wallets one sender pays |
| `Descent` | what the liveness proofs need to know of the natural numbers |
| `MC*` | constants of the runs |
| `*Proofs` | theorems and their proofs, one module per component (two for `AddressIndex`: types and hooks, then the hash) |

How state and actions correspond to the code:

* **StellarScanner.** `loop` is where `startLedgerLoop` stands (boot, poll, recheck, sleep, down),
  `last` is `lastLedger`, `scan[s]` a call of `scanLedgerRange` with its ledger, the end of its range,
  how many effects of the ledger this attempt parsed and how many of the page are left. `PollNewer`
  is lines 210-216, `PollSame` and `Recheck` 217-224, `PollFails` the catch at 226, `FetchPage`,
  `ParseEffect`, `NextPage` and `LedgerDone` the page loop 141-162, `RateLimited` and `FetchFails` the
  two branches of the catch at 174-179. `Reported` is what Horizon may answer: a head at most `Lag`
  behind. An effect is its position in its ledger. `parseStellarEffect` is one step here, whatever
  comes of it: `fetchLedgerEffects` catches and logs its errors effect by effect (150-154) and goes on
  with the next one. What happens inside it is the subject of `StellarEffects`.
* **StellarEffects.** It extends `AddressIndex`: the hash, the registry, the requests and the loader go
  on (`Around`) while a parse stands at one of its three awaits: `Filter` is lines 73-77, `Lookup` 80-106
  and 123-137 with the token of line 83, `Trustline` 107 and 187-204, `EffectFails` the catch at 152 and
  the one at 201. The types of effect collapse to what the code tells apart: notified at once (a
  created account, a trade), a credit, a credit below the dust limit. `trusted` is what Horizon would
  answer. The push is started and not awaited; what becomes of it is `PushSent` and `PushFails` of
  `WebhookEvents`. Parses share nothing, so one at a time stands for all. `owners` and `calm` are history.
* **PortfolioSync.** `doc` is the stored document; a row is a network and the version of its balance;
  `chain` is the balance the networks really have, `pending` the webhooks that will start a call. A
  call goes through `Find` (41), `MarkSyncing` (53), `FetchPage` (100-117), `SaveResult` (76) or
  `MarkFailed` (86). `NeedsFull` is the decision at 44-51, `Kept` and `Merged` the merge at 60-70,
  `Saved` and `MarkedSyncing` the updates of the repository. Prices and decimals are left out, since
  no property tells them apart. A missing API key (36-39) returns before anything happens and is not
  modelled.
* **WebhookEvents.** A batch is a sequence of activities of five kinds, which are what the filters at
  161-174 tell apart. `handler[h]` stands at the lookup it awaits. `Match` is lines 183-228: the push
  and the sync are started, neither is awaited. `LookupFails` is an unhandled rejection, because the
  controller drops the promise. The signature guard is assumed to have let the batch in.
* **AddressIndex.** `created` is the registry (the order of `createdAt`), `index` the hash with a
  field that is absent, blank or a token, `request` the request about each wallet, `chain` counts the
  PATCH chains at each place. Of the history, `spoiled` holds the addresses of which something went wrong
  that `IndexFollows` exempts; a whole load that met an address while the registry stood still takes it off
  again (`Heal`). `PutFinds` and `PutStores` are the two halves of
  `handleUpdateAddressToRedis` around its awaits, `Deletes` is `handleRemoveAddress`; `Patch`,
  `PatchRejected` and `PatchThrows` are the outcomes of one `updateWebhook`; `LoadReads` and
  `LoadStores` are the loader. The wallet service is external: it changes the registry first and then
  sends one request per change, and sends the requests about one wallet in order. That it does so is an
  assumption taken from how the controller is used.
* **BulkSend.** `offset` is `i` of the chunk loop, `Batch` the slice, `SendBatch` an answer for each
  token, `BatchFails` the catch. An id is its text: MongoDB finds a device for more than one spelling,
  and answers with one. Lists without repetitions stand in any order, which nothing depends on.

* **RateLimit.** One address of one chain; the keys of others are other keys. `count` and `ttl` are what
  Redis holds: the two counters and the ban. `call[c]` is what a delivery still has to do: `Check` is
  lines 44-48, `Count` the two INCRs 57-58 with the verdict 63-73, `Arm` 60-61, `SetBan` the SET of
  `setBan` with its TTL, `LiftBan` 78-80. `Tick` is the clock of Redis: a life ends, the key is gone, and
  the end of a ban starts the handler of the expired event if the process is there and the chain has a
  hook. `Reset` and `Readd` are the DEL and the PATCH of `ban-expiry.service.ts` 45-54 and 78-99. The
  order check, count, notify is what the comment at `block-listener.service.ts` 200-202 gives: it names
  the calls that would have to be restored.
* **SenderMonitor.** `hit` and `ttl` are the two sets of one sender, `Track` is lines 84-114 as one step,
  `age` is history: when each wallet was really paid.

Two abstract specifications are implemented by detailed ones. `LedgerWatch` is implemented by
`StellarScanner` (`WatchSpec`, with `up <- Up`): overlap, paging, retries and lagging polls are invisible
at that level. `Multicast` is implemented by `BulkSend` (`PromiseKept`, with `phase <- Phase`,
`todo <- Todo`): chunks, positions, and the two ways in which a chunk can fail are invisible there; what is left is
that the tokens still to be sent only get fewer, each is counted once when it goes, and the report does
not change after the last.

## 3. The runs

`CHECK_DEADLOCK FALSE` stands where the service really rests: when no webhook, request or change is
left to come under the bounds, nothing is to be done. StellarScanner polls for ever and is checked
for deadlock.

| run | states | what it shows |
|---|---|---|
| `stellar` | 113 000 | `LedgersPartitioned`, `ScannedIsComplete`, `ReplaysAreBounded`, the refinement, and under fairness `EveryLedgerSettled` and `CatchesUp` |
| `portfolio_overlap` | 555 000 | two overlapping calls: `NoDuplicateRows`, `HeldChainsPresent`, `SyncingHasWorker`, `TransferIsSaved`, `RowsAreKept`, and under fairness `SyncSettles` |
| `portfolio_lost_update` | violation | two calls of different networks: the later write puts back the rows the earlier one replaced |
| `webhook` | 117 000 | `OncePerRecipient`, `NoSteadyTransferPassed`, and under fairness `HandlersReturn` |
| `webhook_others` | violation | a batch with transfers to two users notifies the first of them only |
| `webhook_twice` | violation | a batch posted again is notified again |
| `index` | 1 283 000 | `IndexFollows`, `HooksFollow`, `BootLoads`, and under fairness `LoaderEnds` |
| `effects` | 272 000 | `CalmIsNotified`, `OnlyOwnersNotified`, and under fairness `ParseReturns` |
| `index_shared` | violation | removing one of two wallets of a Stellar address untracks the other |
| `bulk` | 46 000 | `GapsReported`, `EachTokenOnce`, `CountsAddUp`, `OnlyDeadArePruned`, and the refinement of `Multicast` (`PromiseKept`) |
| `ratelimit` | 163 000 | `LimitHolds`, `ArmedOrArming`, and under fairness `BanEnds` |
| `senders_window` | violation | a sender that pays a new wallet now and then is called suspicious for wallets paid long before the window |

Each passing run checks the type invariant of its module besides.

**What some of the properties leave open**, on purpose:

* `HeldChainsPresent` speaks of the networks that held a balance from the start. A network that came later
  may lose its row to an overlapping call that read the document before the row was stored; `RowsAreKept`
  says that this is the only way to lose one. Both leave out a fetch that was cut off at the page cap.
* `TransferIsSaved` speaks of what a call saves. A call that began before and saves after it brings the older
  balance back.
* `NoSteadyTransferPassed` says where a walk ends, not that everybody is notified: it ends at the first
  transfer to somebody reachable (`EveryOwnerNotified` is the violation run).
* `IndexFollows` exempts an address since: a request about it was lost, failed or was refused; two requests
  about it were in flight at once; the token of one of its devices changed; one of several wallets with it
  was removed; the process died, or any wallet was removed, while the loader stood between two of its
  wallets. A whole load that met it while the registry was steady ends the exemption. `HooksFollow` exempts
  a hook of an address that was rejected, lost or had chains that overlapped.
* `GapsReported` says nothing of the ids reported missing, some of which were found (section 5).
* `ArmedOrArming` exempts a counter that a death left without a TTL: that one counts on until the next reset.
* `CalmIsNotified` exempts an effect one of whose lookups failed: it is lost.

The violation runs each show a disagreement of the code with a sentence of the README, a comment or
the manual test script; the `findings` in PROJECT.json quote it.

**Bounds, and why they are enough.**

* `stellar`: two scans that overlap are the least that can conflict, three ledgers allow a range of
  one and a range of two at the same time, a page of one record with a ledger of two makes a short
  page, an exactly full page and the empty page after it occur; one 429 per ledger, one crash, a lag
  of one.
* `portfolio_*`: two calls, and the two kinds of network (same slug, different slugs), one of which has a
  balance from the start in `portfolio_overlap`, so that the first row of the other is stored by one of
  overlapping calls; a page length and a cap small enough that a fetch is cut off; one fault and one crash at
  any point. Three transfers let a call begin after the other two. A refresh window of zero and a clock that
  moves once let a full sync follow an incremental one and the reverse. A call takes the first free slot:
  which slot it is makes no difference. A prefix that the network map does not know is in no run; the theorems
  are about any prefixes.
* `webhook`: two handlers, three batches (everything the filters skip in front of transfers to
  two recipients, one of them paid twice by one transaction; a single transfer; nothing to notify), each posted
  at most twice, two changes of the registry.
* `index`: three wallets, two of one address with and without an EVM address, two hooks, pages of
  two, four changes, one fault, two crashes. Three changes put the wallets of one address on two pages, a crash
  between these pages is followed by a load that is cut off or not, and a change is left. One device, of two of
  the wallets, may get or lose its token.
* `effects`: two wallets of one address with a device each are the least that can take an address over
  from each other; four changes let one be removed or registered between any two awaits of a parse,
  before and after a crash and a loader run. Addresses do not influence each other in the hash, and no
  wallet has an EVM address, so the hooks stay out of it.
* `bulk`: five ids (two spellings of one device, one unknown), three devices, three tokens in chunks
  of two: a full chunk and a shorter one, or one that is exactly full.
* `ratelimit`: two deliveries at once are the least that can pass a check together or find each other's
  counter without a TTL; limits of two and three are each exceeded while the other is not; lives of one,
  two, three and four ticks keep the order of the code (minute, short ban, hour, long ban), so a short ban
  can fall into an hour that goes on; two deaths, so that one may follow a restart. One handler of an
  expired ban runs at a time.
* `senders_window`: three wallets, one more than the limit of the short window, and a long window of six
  ticks, in which the short one of two passes three times.

**Fairness.** A call that was sent is answered or fails, and Node then runs the continuation: weak
fairness of each call's own next step (`ScanStep(s)`, `CallStep(c)`, `HandlerStep(h)`, `Load`,
`ParseStep`) and of
the loop (`LoopStep`; its sleep is a timer). None of it demands that a call succeed. `StellarScanner`
also assumes, with strong fairness of `PollNewer(head, s)`, that Horizon does not answer every poll
for ever with a lagging head or an error. `RateLimit` assumes that Redis expires its keys by itself
(`Tick`) and that the commands of the expiry handler are answered or fail (`LiftStep`); deliveries may
stop at any command. Nothing is assumed of the environment: no crash, restart,
webhook, transfer, request or change has to happen. The liveness properties therefore excuse what the
code cannot repair by itself: `CatchesUp` a crash, `SyncSettles` a crash or a database call that
throws, `LoaderEnds` a process that is down. `BanEnds` excuses nothing: Redis goes on without the process.

## 4. The proofs

All are proved by `tlapm` (Z3, Zenon, LS4) from the named assumptions on the constants alone, which
fix their types, the finiteness of a few sets and, for slugs and ids, that tables are what the code's
tables are. They hold for any number of scans, calls, handlers, wallets, hooks, ledgers, effects,
pages, failures and crashes.

* **StellarScanner**: `TypeCorrect`, `Partitioned`, `CompleteScans`, `BoundedReplays`, `Refinement`,
  `ScansProgress`, and the liveness results `EveryScanEnds`, `LoopCatchesUp`, `LedgersAreSettled`.
  `TypeInv` adds the shape of a scan (the position never passes the effects of its ledger, a page that
  is not full is the last, no scan without a process). `PartitionInv` adds to `LedgersPartitioned`
  that what was not noticed is pending and that `base <= last`; without it a new range could hit a
  settled ledger. `AccountInv` adds that the attempt in progress parsed every effect in front of its
  position, and that an effect it has yet to read was parsed at most once per 429 and crash. That is
  what makes completeness and the bound on replays inductive. The refinement follows from the
  partition: each settled ledger was pending and in the window.
* **PortfolioSync**: `TypeCorrect`, `NoDuplicates`, `ChainsStay`, `TransfersAreSaved`, `RowsStayKept`,
  `NoOrphanedSync`, `SyncsSettle`, all for calls that overlap in any way. The inductive
  invariant `RowsInv` says of the snapshot of each call what the property says of the document
  (`SnapInv`), and of the rows fetched so far that they cover all listed entries but those still to
  come (`FetchInv`). A call may save long after another one did, so the property of the document alone
  is not inductive. What a call saves needs an order between four versions of a balance (`VersInv`): what it was
  when the call began and what the snapshot holds are no newer than what the call fetches, which is
  not ahead of the chain; and a call past its last page has seen each network it knew of
  (`SeesWhatItKnew`).
* **WebhookEvents**: `TypeCorrect`, `OneNotification`, `OncePerPosting` (a batch posted k times notifies
  at most k times), `SteadyIsNotPassed`, `EveryHandlerReturns`. `DeliveryInv` says that a
  delivery belongs to one handler, which is at work only while it has not notified; `WalkInv` that
  a walk stands before every transfer whose recipient was reachable all along, so that it cannot end without
  a notification at one of these or earlier (`EndOfWalk`).
* **BulkSend**: `TypeCorrect`, `Gaps`, `TokensOnce`, `Counts`, `PrunedAreDead`, `Refinement`: all its
  properties. `LoopInv` states them for the prefix of the list below `offset`; `SortedInv` relates the
  three lists of the answer to what the registry said. The counts need that disjoint sets of positions
  add up (`CountDisjoint`). For the refinement the tokens at the positions from `offset` on are what is
  left to do; that they are as many as the positions needs that no token stands twice (`TokensAtCount`).
* **AddressIndex**: `TypeCorrect`, `HooksStay`. `OneChain` says that an address that is not spoiled at
  every hook has at most one chain in flight, of its last event; `PassedFollow` that the hooks a chain
  has passed are as the chain wants them. `HooksFollow` speaks only of addresses without a chain and
  is not inductive.
* **AddressIndex**, the hash (`AddressIndexFollowsProofs`): `IndexStays`, `LoaderHeals`, `LoaderComesToEnd`. An address that is
  not spoiled has at most one request, which will do what the registry says now (`Justified`), or its
  entry is right. While the loader runs, the entry is right, and the page in hand does not change that, except
  where the loader stands between two wallets of the address (`Settled`, `Split`): there the token of an older
  wallet may have taken the place of the newest's until the loader comes to that one. So a death of the process
  spoils only the addresses the loader is between. `LoadInv` says of every address, spoiled or not, that its entry is
  right once the loader has met all its wallets, while the registry stands still (`InStep`): from it follow
  `BootLoads`, and that an address may be taken off the spoiled ones at the end of such a load. That an
  empty page means that all wallets were met rests on `RankOrder` and `PagesCover`: the ranks of the
  wallets number them without a gap, by counting.
* **StellarEffects**: `EffectTypeCorrect`, `OwnersOnly`, `CalmNotifies`, `ParsesReturn`. `CalmInv` says that a calm parse has
  an address in order, and the newest device in hand at the trustline; that the filter lets it through is
  `IndexInv` of the hash, which the steps of the parse leave alone (`IndexGoesOn`). `OwnersInv` says that the owners of the parse contain
  the newest devices of its address as they are now, and the device in hand. The proof never looks at
  what the hash holds: whatever the index did wrong, nobody else is notified.
* **RateLimit**: `TypeCorrect`, `LimitsHold`, `CountersEnd`, `BansEnd`. `PassedAreCounted` says that who
  passed in this life of a counter was counted in it; the limit alone is not inductive. `Arming` adds to
  `ArmedOrArming` that a counter that is gone has no TTL.

**Liveness.** Every liveness property that a run checks is also a theorem. The prover knows no ENABLED,
so the theorems do not say `FairSpec`: each states as a hypothesis what the WF or SF conjunct of its
module means, with the enabling condition written out.

| theorem | property | fairness (of `FairSpec`) | the enabling condition, written out |
|---|---|---|---|
| `ParsesReturn` | `ParseReturns` | `ParseAnswered`: WF of `ParseStep` | a parse stands at an await |
| `EveryHandlerReturns` | `HandlersReturn` | `LookupsAnswered`: WF of each `HandlerStep(h)` | the handler stands at a lookup |
| `SyncsSettle` | `SyncSettles` | `CallsAnswered`: WF of each `CallStep(c)` | the call is not idle |
| `LoaderComesToEnd` | `LoaderEnds` | `LoaderGoesOn`: WF of `Load` | the loader runs |
| `EveryScanEnds`, `LedgersAreSettled` | `EveryLedgerSettled` | `ScansMove`: WF of each `ScanStep(s)` | the scan is not idle |
| `LoopCatchesUp` | `CatchesUp` | the same, `LoopTurns`: WF of `LoopStep`, `HeadIsSeen`: SF of a poll that sees the head | the loop is not down; it polls, the head is new, a slot is free |
| `BansEnd` | `BanEnds` | `TimePasses`, `LiftGoesOn`: WF of `Tick` and `LiftStep` | a key has a life and, if the ban is about to end, no handler of an earlier one runs; that handler is at work |

Each condition can be read off the guards of its action (every step it allows changes a variable). That
ENABLED is just this is not proved.

Except for `ParsesReturn`, an argument by descent is needed: a natural number that never rises comes to
rest, `Rests(m)` of `Descent`. It is true of every behaviour and every state function `m`, but takes an
induction over a temporal formula, which no installed prover does; so the theorems name the numbers and carry
`Rests` of them as a hypothesis (`WalksDescend`, `FetchesDescend`, `LoadDescends`, `ScansDescend`,
`BanDescends`). What is proved is that these numbers are natural, never rise while the thing goes on, and fall with
its steps:

* a walk: the activities after the one it is at (`WalkLeft`); a fetch: the pages below the cap
  (`PagesLeft`);
* the loader: the wallets there may ever be, and one page, less its offset (`WalletsLeft`). A page in hand
  begins before the last wallet, however the registry changes while it is read;
* a scan: four numbers in lexicographic order (`LedgersLeft`, `RateLimitsLeft`, `EffectsLeft`,
  `StepsLeft`). `ScansProgress` is the safety half of it: each step of a scan lowers them, and no step of
  the loop, another scan or the network raises them. A 429 starts the ledger again and costs one of the 429s
  that are left; here the bound `MaxRateLimits` of the model is needed, since the code retries for as long as
  Horizon answers 429;
* a ban: the deliveries that may still renew it, then what is left of its life: while a ban lasts no
  delivery gets past the check of it, and each renewal uses one of those that had (`RenewalStep`).

That each of several calls does what it should becomes "if some call is at work" by moving a quantifier over a
constant set through a box (`SomeWorkerSettles`, `LedgerIsSettled`). A ledger is followed through the
scan it remains for (`RemainsOpen`), which ends; that slots are free again and again (`SlotsAreFree`) is a consequence too.

Only model-checked: that the fairness of `FairSpec` implies these properties without `Rests` and with ENABLED
itself. Every invariant, action property and liveness property that a passing run checks is stated by a theorem. No
module declares a RECURSIVE operator.

## 5. What is not modelled

* Prices, decimals, texts of notifications.
* The AML flags: `aml` is a schema that nothing writes.
* `createWebhook`: one call at boot, off unless configured. It is given an empty address list,
  because `addWalletAddressToRedis` always returns one: there is no behaviour to explore.
* Wallets without a device: the loader skips them (line 315) and `findOneByXlmWithDevice` does not see them.
* Which error codes of FCM mean a dead token (`DEAD_TOKEN_CODES`, `invalid-argument` among them): the answer
  of `SendBatch` says who is dead.
* The guards, the spam filter and the shell: stateless or wiring. They appear as the kind of an
  activity.
* Differences between the code and its texts, or between the code and what one may expect of it, that have no
  run of their own:
  * `syncPortfolio` may reject at lines 41, 53 and 86 although its comment says it never throws.
  * Two calls of one network may save in the opposite order of their fetches: the older balance stays until
    the next sync. A call that read the document before another one stored the first row of a network drops that
    row. Nothing in the code orders the calls; `TransferIsSaved` and `RowsAreKept` say what holds all the same.
  * A fetch that is cut off at the page cap is stamped as a full sync all the same, and the rows of the pages
    it did not read are lost (the properties about rows except it by `cut` and `truncated`).
  * A page call that fails with anything but a 429 leaves the rest of its ledger behind, although the
    comments of the scanner speak of all effects; the ledger counts as settled by being given up. An error of
    Horizon while the trustline is asked for, a 429 included, loses the effect.
  * Internal transfers are skipped although the README counts them among the events.
  * A device id in another spelling is reported missing, although `device.service.ts` 20-21 says that what is
    reported is which ids were unknown: MongoDB finds its device, and the comparison is by text.
  * A multicast call that fails counts its tokens as failures; FCM may have delivered some of them.
  * Two chains of PATCH calls about one address may overtake each other at a hook, and two requests about one
    address at the hash; the earlier of them may have the last word until a later event or the next load.
  * A process that dies between INCR and EXPIRE leaves a counter that never expires by itself.
  * A ban that ends while the process is down is never lifted at Alchemy, and its counters live on: the
    event is lost. `liftBan` leaves the counters, so the next delivery of the hour bans again.
  * The comment at `ban-expiry.service.ts` 48 says that the address starts fresh. A delivery
    between the end of a ban and the DEL of its counters is judged by the old ones and may ban the address again, and
    is forgotten by the DEL.

## 6. Plan

Done, in this order of importance: `StellarScanner` with `LedgerWatch`, `PortfolioSync`,
`WebhookEvents`, `AddressIndex`, `BulkSend`, `StellarEffects` (composed with `AddressIndex`), `RateLimit`,
`SenderMonitor`, the refinement of `Multicast` by `BulkSend`, and the proofs above: each property that holds
is both checked and proved.

Left, with little to gain:

1. `Listener`: `WebhookEvents` and `PortfolioSync` in one process, where a lookup that throws kills the
   syncs in flight. `Crash` of `PortfolioSync` and `LookupFails` of `WebhookEvents` cover both sides of it
   already.
2. `RateLimit` in front of the walk of `WebhookEvents`, once the source calls it again.
3. `createWebhook` as a step of the boot of `AddressIndex`, once it is given addresses.
