--------------------------- MODULE WebhookEvents ----------------------------
(***************************************************************************)
(* The EVM path: ListenerWebhookController and                             *)
(* BlockListenerService.handleWebhookEvent (src/block-listener).           *)
(*                                                                         *)
(* Alchemy posts batches of activities.  The controller starts the handler *)
(* and answers success without awaiting it.  The handler walks the batch   *)
(* and looks up the recipient of each activity that passes its filters,    *)
(* one awaited lookup at a time; the first recipient with an FCM token is  *)
(* notified, its portfolio sync is started, and the walk ends.  A lookup   *)
(* that fails rejects a promise nobody handles, which ends the process.    *)
(*                                                                         *)
(* A step of the model is the answer of an awaited call together with the  *)
(* code that runs before the next await.  Nothing is awaited between the   *)
(* notification and the start of the sync, so one history variable records *)
(* both.                                                                   *)
(***************************************************************************)
EXTENDS Integers, Sequences, FiniteSets

CONSTANTS Handler,       \* slots for handleWebhookEvent calls in flight (bounds how many)
          Address,       \* recipient addresses
          Device,        \* devices with an FCM token
          NoDevice,      \* stands for no wallet, no device or a device without a token
          Batch,         \* the batches Alchemy posts
          Activities,    \* the activities of each batch
          MaxDeliveries, \* bound: times a batch is posted (Alchemy retries)
          MaxChanges,    \* bound: changes of the wallet registry
          MaxCrashes     \* bound: times the process dies

\* What the filters of the loop tell apart.
Kind == {"transfer", "internal", "worthless", "spam", "no_recipient"}

Activity == [to : Address, kind : Kind, hash : STRING]

ASSUME WebhookAssumption ==
    /\ Batch # {}
    /\ NoDevice \notin Device
    /\ Activities \in [Batch -> Seq(Activity)]
    /\ MaxDeliveries \in Nat
    /\ MaxChanges \in Nat
    /\ MaxCrashes \in Nat

VARIABLES up,         \* is the process running
          owner,      \* the device of the newest wallet with each address
          delivered,  \* how often each batch was posted
          handler,    \* the handleWebhookEvent calls
          inFlight,   \* pushes handed to FCM and not answered
          started,    \* history: the activities (of a batch, of a delivery) whose owner
                      \* was notified and whose portfolio sync was started
          changes,    \* history: changes of the wallet registry
          crashes     \* history: how often the process died

vars == <<up, owner, delivered, handler, inFlight, started, changes, crashes>>

-----------------------------------------------------------------------------

\* Mutant: the spam filter is gone from the loop.
Eligible_SpamToo(a) == a.kind \notin {"no_recipient", "internal", "worthless"}

\* The filters of the loop, in front of the lookup: no recipient, an internal
\* transfer, no value, a spam token.
Eligible(a) == a.kind \notin {"no_recipient", "internal", "worthless", "spam"}

\* Mutant: the walk looks at the same activity again.
Later_Same(b, i) == {j \in DOMAIN Activities[b] : j >= i /\ Eligible(Activities[b][j])}

\* The activities of batch b after position i that pass the filters.
Later(b, i) == {j \in DOMAIN Activities[b] : j > i /\ Eligible(Activities[b][j])}

\* The first of them, if there is one.
NextIn(b, i) == {j \in Later(b, i) : \A k \in Later(b, i) : j <= k}

\* Does the recipient of activity j of batch b have a device with a token now.
Reachable(own, b, j) == own[Activities[b][j].to] \in Device

Transfers(b) == {j \in DOMAIN Activities[b] : Activities[b][j].kind = "transfer"}

\* steady is history: the transfers whose recipient was reachable all along.
Idle == [pc |-> "idle", batch |-> CHOOSE b \in Batch : TRUE, nth |-> 0, at |-> 0, steady |-> {}]

Init ==
    /\ up = TRUE
    /\ owner \in [Address -> Device \cup {NoDevice}]
    /\ delivered = [b \in Batch |-> 0]
    /\ handler = [h \in Handler |-> Idle]
    /\ inFlight = {}
    /\ started = {}
    /\ changes = 0
    /\ crashes = 0

-----------------------------------------------------------------------------
(* The environment: the wallet service registers or removes wallets, the   *)
(* process is started again after it died.                                 *)

Reassign(a, d) ==
    /\ changes < MaxChanges
    /\ owner[a] # d
    /\ changes' = changes + 1
    /\ owner' = [owner EXCEPT ![a] = d]
    /\ handler' = [h \in Handler |->
                     [handler[h] EXCEPT !.steady =
                        {j \in @ : Reachable(owner', handler[h].batch, j)}]]
    /\ UNCHANGED <<up, delivered, inFlight, started, crashes>>

Restart ==
    /\ ~up
    /\ up' = TRUE
    /\ UNCHANGED <<owner, delivered, handler, inFlight, started, changes, crashes>>

Die ==
    /\ up' = FALSE
    /\ crashes' = crashes + 1
    /\ handler' = [h \in Handler |-> Idle]
    /\ inFlight' = {}

-----------------------------------------------------------------------------
(* handleWebhookEvent *)

Lookup(b, n, j) ==
    [pc |-> "lookup", batch |-> b, nth |-> n, at |-> j,
     steady |-> {k \in Transfers(b) : Reachable(owner, b, k)}]

\* Mutant: the handler does not return when nothing passes the filters.
Receive_NoBail(h, b) ==
    /\ up
    /\ handler[h].pc = "idle"
    /\ delivered[b] < MaxDeliveries
    /\ delivered' = [delivered EXCEPT ![b] = @ + 1]
    /\ \E j \in NextIn(b, 0) \cup {1 + Len(Activities[b])} :
          handler' = [handler EXCEPT ![h] = Lookup(b, delivered[b] + 1, j)]
    /\ UNCHANGED <<up, owner, inFlight, started, changes, crashes>>

\* A batch is posted, possibly again: the walk stops at the first lookup, or the
\* handler returns at once when nothing passes the filters.
Receive(h, b) ==
    /\ up
    /\ handler[h].pc = "idle"
    /\ delivered[b] < MaxDeliveries
    /\ delivered' = [delivered EXCEPT ![b] = @ + 1]
    /\ \/ /\ Later(b, 0) = {}
          /\ UNCHANGED handler
       \/ \E j \in NextIn(b, 0) :
             handler' = [handler EXCEPT ![h] = Lookup(b, delivered[b] + 1, j)]
    /\ UNCHANGED <<up, owner, inFlight, started, changes, crashes>>

\* On to the lookup of the next activity, or the end of the walk.
MoveOn(h) ==
    \/ /\ Later(handler[h].batch, handler[h].at) = {}
       /\ handler' = [handler EXCEPT ![h] = Idle]
    \/ \E j \in NextIn(handler[h].batch, handler[h].at) :
          handler' = [handler EXCEPT ![h].at = j]

Notification(h) ==
    [batch |-> handler[h].batch, nth |-> handler[h].nth, at |-> handler[h].at]

\* Mutant: the walk goes on after a match.
Match_GoesOn(h) ==
    /\ handler[h].pc = "lookup"
    /\ Reachable(owner, handler[h].batch, handler[h].at)
    /\ started' = started \cup {Notification(h)}
    /\ inFlight' = inFlight \cup {Notification(h)}
    /\ MoveOn(h)
    /\ UNCHANGED <<up, owner, delivered, changes, crashes>>

\* The lookup finds a device with a token: the push and the sync are started, neither
\* is awaited, and the walk ends.
Match(h) ==
    /\ handler[h].pc = "lookup"
    /\ Reachable(owner, handler[h].batch, handler[h].at)
    /\ started' = started \cup {Notification(h)}
    /\ inFlight' = inFlight \cup {Notification(h)}
    /\ handler' = [handler EXCEPT ![h] = Idle]
    /\ UNCHANGED <<up, owner, delivered, changes, crashes>>

\* No wallet, or a device without a token: on to the next activity, or the end.
NoMatch(h) ==
    /\ handler[h].pc = "lookup"
    /\ ~Reachable(owner, handler[h].batch, handler[h].at)
    /\ MoveOn(h)
    /\ UNCHANGED <<up, owner, delivered, inFlight, started, changes, crashes>>

\* The lookup throws: nobody catches it, and Node ends the process.
LookupFails(h) ==
    /\ handler[h].pc = "lookup"
    /\ crashes < MaxCrashes
    /\ Die
    /\ UNCHANGED <<owner, delivered, started, changes>>

-----------------------------------------------------------------------------
(* FirebaseNotificationService.sendNotification *)

PushSent(n) ==
    /\ n \in inFlight
    /\ inFlight' = inFlight \ {n}
    /\ UNCHANGED <<up, owner, delivered, handler, started, changes, crashes>>

\* FCM rejects the push: caught and logged.
PushFails(n) ==
    /\ n \in inFlight
    /\ inFlight' = inFlight \ {n}
    /\ UNCHANGED <<up, owner, delivered, handler, started, changes, crashes>>

-----------------------------------------------------------------------------

Environment ==
    \/ \E a \in Address, d \in Device \cup {NoDevice} : Reassign(a, d)
    \/ Restart

\* What a handler does once its lookup was answered.
HandlerStep(h) == Match(h) \/ NoMatch(h) \/ LookupFails(h)

Next ==
    \/ Environment
    \/ \E h \in Handler : HandlerStep(h) \/ \E b \in Batch : Receive(h, b)
    \/ \E n \in inFlight : PushSent(n) \/ PushFails(n)

Spec == Init /\ [][Next]_vars

(* Every lookup is answered or fails, and Node then runs the continuation. *)
FairSpec == Spec /\ \A h \in Handler : WF_vars(HandlerStep(h))

-----------------------------------------------------------------------------
(* Type invariant *)

Sent == [batch : Batch, nth : Nat, at : Nat]

HandlerCall ==
    [pc : {"idle", "lookup"}, batch : Batch, nth : Nat, at : Nat, steady : SUBSET Nat]

\* Every variable stays in its range: a lookup is about an activity of the batch.
TypeOK ==
    /\ up \in BOOLEAN
    /\ owner \in [Address -> Device \cup {NoDevice}]
    /\ delivered \in [Batch -> 0..MaxDeliveries]
    /\ handler \in [Handler -> HandlerCall]
    /\ \A h \in Handler : handler[h].pc = "lookup" => handler[h].at \in DOMAIN Activities[handler[h].batch]
    /\ started \in SUBSET Sent
    /\ inFlight \in SUBSET started
    /\ changes \in 0..MaxChanges
    /\ crashes \in 0..MaxCrashes

-----------------------------------------------------------------------------
(* Safety *)

TxOf(n) == Activities[n.batch][n.at].hash

RecipientOf(n) == Activities[n.batch][n.at].to

\* Within one delivery a recipient is never notified twice of one transaction, although a
\* transaction may bring it several transfers and its wallet may change hands while the
\* batch is walked.  A batch that is posted again is another matter, see OnePerTransaction.
OncePerRecipient ==
    \A m, n \in started :
        (/\ m.batch = n.batch /\ m.nth = n.nth
         /\ TxOf(m) = TxOf(n) /\ RecipientOf(m) = RecipientOf(n)) => m = n

\* What ends the walk of handler h.
Ends(h) ==
    /\ Match(h) \/ NoMatch(h)
    /\ handler'[h].pc = "idle"

Notified(h, j) ==
    [batch |-> handler[h].batch, nth |-> handler[h].nth, at |-> j] \in started'

\* Neither spam, nor what the other filters drop, nor a recipient that is not ours stands in
\* the way of a transfer: if recipients were reachable all along, the walk ends at the first
\* of their transfers or, when somebody became reachable meanwhile, at one before it.  The
\* transfers after the one it ends at are not notified, see EveryOwnerNotified.
NoSteadyTransferPassed ==
    [][\A h \in Handler :
          (Ends(h) /\ handler[h].steady # {}) =>
              \E j \in Transfers(handler[h].batch) :
                  Notified(h, j) /\ \A k \in handler[h].steady : j <= k]_vars

DeviceOf(h, j) == owner[Activities[handler[h].batch][j].to]

\* The README: the service "resolves each event to the user's device, and delivers push
\* notifications": when the walk ends, every device that was reachable all along has been
\* notified of one of its transfers.
EveryOwnerNotified ==
    [][\A h \in Handler :
          Ends(h) => \A j \in handler[h].steady :
              \E k \in Transfers(handler[h].batch) :
                  DeviceOf(h, k) = DeviceOf(h, j) /\ Notified(h, k)]_vars

\* The README: notifications come "with per-transaction de-duplication".
OnePerTransaction ==
    \A m, n \in started :
        (Activities[m.batch][m.at] = Activities[n.batch][n.at]) => m = n

-----------------------------------------------------------------------------
(* Liveness *)

\* Every handler returns, or the process dies: a walk does not get stuck.
HandlersReturn == \A h \in Handler : (handler[h].pc = "lookup") ~> (handler[h].pc = "idle")

=============================================================================
