------------------------ MODULE WebhookEventsProofs -------------------------
(* Proofs about WebhookEvents, for any handlers, wallets, batches and bounds. *)
EXTENDS WebhookEvents, Descent, FiniteSetTheorems, TLAPS

Busy(h) == handler[h].pc = "lookup"

SameDelivery(x, y) == x.batch = y.batch /\ x.nth = y.nth

\* Where a walk stands: at an activity that passes the filters, before every transfer
\* whose recipient was reachable all along.
WalkInv ==
    \A h \in Handler : Busy(h) =>
        /\ up
        /\ Eligible(Activities[handler[h].batch][handler[h].at])
        /\ handler[h].nth <= delivered[handler[h].batch]
        /\ \A j \in handler[h].steady :
              /\ j \in Transfers(handler[h].batch)
              /\ Reachable(owner, handler[h].batch, j)
              /\ handler[h].at <= j

\* The walk of a delivery ends with its first notification.
OnePerDelivery == \A m, n \in started : SameDelivery(m, n) => m = n

\* A delivery belongs to one handler, and to it alone until it has notified.
DeliveryInv ==
    /\ \A n \in started : n.nth <= delivered[n.batch]
    /\ \A h \in Handler, n \in started : Busy(h) => ~SameDelivery(n, handler[h])
    /\ \A h, g \in Handler :
          (Busy(h) /\ Busy(g) /\ SameDelivery(handler[h], handler[g])) => h = g
    /\ OnePerDelivery

LEMMA IdleType == Idle \in HandlerCall /\ Idle.pc = "idle"
  BY WebhookAssumption DEF Idle, HandlerCall

LEMMA EligibleIsTransfer ==
  ASSUME NEW b \in Batch, NEW j \in DOMAIN Activities[b]
  PROVE  /\ j \in Nat
         /\ Activities[b][j] \in Activity
         /\ Eligible(Activities[b][j]) <=> j \in Transfers(b)
<1>1. Activities[b] \in Seq(Activity)
  BY WebhookAssumption
<1>2. j \in Nat /\ Activities[b][j] \in Activity
  BY <1>1
<1>3. Activities[b][j].kind \in Kind
  BY <1>2 DEF Activity
<1> QED
  BY <1>2, <1>3 DEF Kind, Eligible, Transfers

\* A lookup that starts is typed.
LEMMA LookupType ==
  ASSUME NEW b \in Batch, NEW n \in Nat, NEW j \in DOMAIN Activities[b]
  PROVE  Lookup(b, n, j) \in HandlerCall
<1>1. Transfers(b) \subseteq Nat /\ j \in Nat
  BY EligibleIsTransfer DEF Transfers
<1> QED
  BY <1>1 DEF Lookup, HandlerCall

-----------------------------------------------------------------------------
(* Type correctness *)

LEMMA InitType == Init => TypeOK
<1> SUFFICES ASSUME Init PROVE TypeOK
  OBVIOUS
<1>1. \A h \in Handler : handler[h] = Idle
  BY DEF Init
<1>2. handler \in [Handler -> HandlerCall]
  BY IdleType DEF Init
<1>3. 0 \in 0..MaxChanges /\ 0 \in 0..MaxCrashes /\ 0 \in 0..MaxDeliveries
  BY WebhookAssumption
<1> QED
  BY <1>1, <1>2, <1>3, IdleType DEF Init, TypeOK

\* What the moves of a walk do to the handlers.
LEMMA MoveOnType ==
  ASSUME TypeOK, NEW h \in Handler, Busy(h), MoveOn(h)
  PROVE  /\ handler' \in [Handler -> HandlerCall]
         /\ \A g \in Handler : handler'[g].pc = "lookup" =>
               handler'[g].at \in DOMAIN Activities[handler'[g].batch]
         /\ \A g \in Handler : g # h => handler'[g] = handler[g]
         /\ \/ /\ handler'[h] = Idle
               /\ Later(handler[h].batch, handler[h].at) = {}
            \/ \E j \in NextIn(handler[h].batch, handler[h].at) :
                  handler'[h] = [handler[h] EXCEPT !.at = j]
<1>1. CASE /\ Later(handler[h].batch, handler[h].at) = {}
           /\ handler' = [handler EXCEPT ![h] = Idle]
  BY <1>1, IdleType DEF TypeOK
<1>2. CASE \E j \in NextIn(handler[h].batch, handler[h].at) :
              handler' = [handler EXCEPT ![h].at = j]
  <2> PICK j \in NextIn(handler[h].batch, handler[h].at) :
              handler' = [handler EXCEPT ![h] = [handler[h] EXCEPT !.at = j]]
    BY <1>2
  <2>1. handler[h] \in HandlerCall /\ handler[h].batch \in Batch
    BY DEF TypeOK, HandlerCall
  <2>2. j \in DOMAIN Activities[handler[h].batch] /\ j \in Nat
    BY <2>1, EligibleIsTransfer DEF NextIn, Later
  <2>3. /\ [handler[h] EXCEPT !.at = j] \in HandlerCall
        /\ [handler[h] EXCEPT !.at = j].at = j
        /\ [handler[h] EXCEPT !.at = j].batch = handler[h].batch
    BY <2>1, <2>2 DEF HandlerCall
  <2>4. handler'[h] = [handler[h] EXCEPT !.at = j]
    BY DEF TypeOK
  <2>5. \A g \in Handler : g # h => handler'[g] = handler[g]
    BY DEF TypeOK
  <2>6. handler' \in [Handler -> HandlerCall]
    BY <2>3 DEF TypeOK
  <2>7. \A g \in Handler : handler'[g].pc = "lookup" =>
               handler'[g].at \in DOMAIN Activities[handler'[g].batch]
    <3> TAKE g \in Handler
    <3>1. CASE g = h
      BY <3>1, <2>2, <2>3, <2>4
    <3>2. CASE g # h
      BY <3>2, <2>5 DEF TypeOK
    <3> QED
      BY <3>1, <3>2
  <2> QED
    BY <2>4, <2>5, <2>6, <2>7
<1> QED
  BY <1>1, <1>2 DEF MoveOn

LEMMA NotificationType ==
  ASSUME TypeOK, NEW h \in Handler
  PROVE  Notification(h) \in Sent
  BY DEF TypeOK, Notification, Sent, HandlerCall

LEMMA StepType == TypeOK /\ [Next]_vars => TypeOK'
<1> SUFFICES ASSUME TypeOK, [Next]_vars PROVE TypeOK'
  OBVIOUS
<1>1. ASSUME NEW a \in Address, NEW d \in Device \cup {NoDevice}, Reassign(a, d)
      PROVE  TypeOK'
  <2>1. owner' \in [Address -> Device \cup {NoDevice}]
    BY <1>1 DEF TypeOK, Reassign
  <2>2. changes' \in 0..MaxChanges
    BY <1>1, WebhookAssumption DEF TypeOK, Reassign
  <2> DEFINE Kept(h) == {j \in handler[h].steady : Reachable(owner', handler[h].batch, j)}
  <2>3. ASSUME NEW h \in Handler
        PROVE  /\ handler'[h] \in HandlerCall
               /\ handler'[h].pc = handler[h].pc
               /\ handler'[h].at = handler[h].at
               /\ handler'[h].batch = handler[h].batch
    <3>1. handler[h] \in HandlerCall
      BY DEF TypeOK
    <3>2. Kept(h) \in SUBSET Nat
      BY <3>1 DEF HandlerCall
    <3>3. handler'[h] = [handler[h] EXCEPT !.steady = Kept(h)]
      BY <1>1 DEF Reassign
    <3> HIDE DEF Kept
    <3> QED
      BY <3>1, <3>2, <3>3 DEF HandlerCall
  <2>4. handler' = [h \in Handler |-> handler'[h]]
    BY <1>1 DEF Reassign
  <2>5. handler' \in [Handler -> HandlerCall]
    BY <2>3, <2>4
  <2>6. UNCHANGED <<up, delivered, inFlight, started, crashes>>
    BY <1>1 DEF Reassign
  <2> QED
    BY <2>1, <2>2, <2>3, <2>5, <2>6 DEF TypeOK
<1>2. CASE Restart
  BY <1>2 DEF TypeOK, Restart
<1>3. ASSUME NEW h \in Handler, NEW b \in Batch, Receive(h, b)
      PROVE  TypeOK'
  <2>1. /\ delivered' \in [Batch -> 0..MaxDeliveries]
        /\ delivered[b] + 1 \in Nat
    BY <1>3, WebhookAssumption DEF TypeOK, Receive
  <2>2. UNCHANGED <<up, owner, inFlight, started, changes, crashes>>
    BY <1>3 DEF Receive
  <2>3. CASE UNCHANGED handler
    BY <2>1, <2>2, <2>3 DEF TypeOK
  <2>4. CASE \E j \in NextIn(b, 0) :
                handler' = [handler EXCEPT ![h] = Lookup(b, delivered[b] + 1, j)]
    <3> PICK j \in NextIn(b, 0) :
                handler' = [handler EXCEPT ![h] = Lookup(b, delivered[b] + 1, j)]
      BY <2>4
    <3>1. j \in DOMAIN Activities[b]
      BY DEF NextIn, Later
    <3>2. Lookup(b, delivered[b] + 1, j) \in HandlerCall
      BY <2>1, <3>1, LookupType
    <3>3. /\ Lookup(b, delivered[b] + 1, j).at = j
          /\ Lookup(b, delivered[b] + 1, j).batch = b
      BY DEF Lookup
    <3> QED
      BY <2>1, <2>2, <3>1, <3>2, <3>3 DEF TypeOK
  <2> QED
    BY <1>3, <2>3, <2>4 DEF Receive
<1>4. ASSUME NEW h \in Handler, Match(h)
      PROVE  TypeOK'
  <2>1. Notification(h) \in Sent
    BY NotificationType
  <2>2. handler' \in [Handler -> HandlerCall]
    BY <1>4, IdleType DEF TypeOK, Match
  <2>3. \A g \in Handler : handler'[g].pc = "lookup" => handler'[g] = handler[g]
    BY <1>4, IdleType DEF TypeOK, Match
  <2> QED
    BY <1>4, <2>1, <2>2, <2>3 DEF TypeOK, Match
<1>5. ASSUME NEW h \in Handler, NoMatch(h)
      PROVE  TypeOK'
  BY <1>5, MoveOnType DEF TypeOK, NoMatch, Busy
<1>6. ASSUME NEW h \in Handler, LookupFails(h)
      PROVE  TypeOK'
  <2>1. /\ handler' \in [Handler -> HandlerCall]
        /\ \A g \in Handler : handler'[g].pc # "lookup"
    BY <1>6, IdleType DEF LookupFails, Die
  <2>2. crashes' \in 0..MaxCrashes
    BY <1>6, WebhookAssumption DEF TypeOK, LookupFails, Die
  <2>3. up' = FALSE /\ inFlight' = {}
    BY <1>6 DEF LookupFails, Die
  <2>4. UNCHANGED <<owner, delivered, started, changes>>
    BY <1>6 DEF LookupFails
  <2> QED
    BY <2>1, <2>2, <2>3, <2>4 DEF TypeOK
<1>7. ASSUME NEW n \in inFlight, PushSent(n) \/ PushFails(n)
      PROVE  TypeOK'
  BY <1>7 DEF TypeOK, PushSent, PushFails
<1>8. CASE UNCHANGED vars
  BY <1>8 DEF TypeOK, vars
<1> QED
  BY <1>1, <1>2, <1>3, <1>4, <1>5, <1>6, <1>7, <1>8
     DEF Next, Environment, HandlerStep

(* Every variable stays in its range: a lookup is always about an activity  *)
(* of the batch its handler was given.                                      *)
THEOREM TypeCorrect == Spec => []TypeOK
  BY InitType, StepType, PTL DEF Spec

-----------------------------------------------------------------------------
(* Where a walk stands *)

LEMMA InitWalk == Init => WalkInv
  BY IdleType DEF Init, WalkInv, Busy

\* A walk that moves on from a recipient that is not ours passes no transfer of steady.
LEMMA MoveOnWalk ==
  ASSUME TypeOK, WalkInv, NEW h \in Handler, Busy(h), MoveOn(h),
         ~Reachable(owner, handler[h].batch, handler[h].at)
  PROVE  \/ /\ handler'[h] = Idle
            /\ handler[h].steady = {}
         \/ /\ handler'[h].pc = "lookup"
            /\ handler'[h].batch = handler[h].batch
            /\ handler'[h].nth = handler[h].nth
            /\ handler'[h].steady = handler[h].steady
            /\ Eligible(Activities[handler[h].batch][handler'[h].at])
            /\ \A j \in handler[h].steady : handler'[h].at <= j
<1> DEFINE b == handler[h].batch
<1> DEFINE i == handler[h].at
<1>1. b \in Batch /\ i \in DOMAIN Activities[b] /\ i \in Nat
  BY DEF TypeOK, HandlerCall, Busy
<1>2. \A j \in handler[h].steady : j \in Later(b, i)
  <2> TAKE j \in handler[h].steady
  <2>1. j \in Transfers(b) /\ Reachable(owner, b, j) /\ i <= j
    BY DEF WalkInv
  <2>2. j # i
    BY <2>1
  <2>3. j \in DOMAIN Activities[b]
    BY <2>1 DEF Transfers
  <2>4. j \in Nat /\ Eligible(Activities[b][j])
    BY <1>1, <2>1, <2>3, EligibleIsTransfer
  <2> QED
    BY <1>1, <2>1, <2>2, <2>3, <2>4 DEF Later
<1>3. CASE handler'[h] = Idle /\ Later(b, i) = {}
  BY <1>2, <1>3
<1>4. CASE \E j \in NextIn(b, i) : handler'[h] = [handler[h] EXCEPT !.at = j]
  <2> PICK j \in NextIn(b, i) : handler'[h] = [handler[h] EXCEPT !.at = j]
    BY <1>4
  <2>1. /\ Eligible(Activities[b][j])
        /\ \A k \in Later(b, i) : j <= k
    BY DEF NextIn, Later
  <2>2. handler[h] \in HandlerCall
    BY DEF TypeOK
  <2>3. /\ handler'[h].pc = "lookup"
        /\ handler'[h].batch = handler[h].batch
        /\ handler'[h].nth = handler[h].nth
        /\ handler'[h].steady = handler[h].steady
        /\ handler'[h].at = j
    BY <2>2 DEF HandlerCall, Busy
  <2> QED
    BY <1>2, <2>1, <2>3
<1> QED
  BY <1>3, <1>4, MoveOnType

LEMMA StepWalk == TypeOK /\ WalkInv /\ [Next]_vars => WalkInv'
<1> SUFFICES ASSUME TypeOK, WalkInv, [Next]_vars PROVE WalkInv'
  OBVIOUS
<1> DEFINE Walk(c) ==
       /\ up
       /\ Eligible(Activities[c.batch][c.at])
       /\ c.nth <= delivered[c.batch]
       /\ \A j \in c.steady :
              /\ j \in Transfers(c.batch)
              /\ Reachable(owner, c.batch, j)
              /\ c.at <= j
<1>1. ASSUME NEW a \in Address, NEW d \in Device \cup {NoDevice}, Reassign(a, d)
      PROVE  WalkInv'
  <2> SUFFICES ASSUME NEW h \in Handler, Busy(h)'
               PROVE  Walk(handler[h])'
    BY DEF WalkInv
  <2>1. handler[h] \in HandlerCall
    BY DEF TypeOK
  <2> DEFINE Kept == {j \in handler[h].steady : Reachable(owner', handler[h].batch, j)}
  <2>2. handler'[h] = [handler[h] EXCEPT !.steady = Kept]
    BY <1>1 DEF Reassign
  <2>3. /\ handler'[h].pc = handler[h].pc
        /\ handler'[h].batch = handler[h].batch
        /\ handler'[h].nth = handler[h].nth
        /\ handler'[h].at = handler[h].at
        /\ handler'[h].steady = Kept
    <3> HIDE DEF Kept
    <3> QED
      BY <2>1, <2>2 DEF HandlerCall
  <2>4. UNCHANGED <<up, delivered>>
    BY <1>1 DEF Reassign
  <2>5. Walk(handler[h])
    BY <2>3 DEF WalkInv, Busy
  <2> QED
    BY <2>3, <2>4, <2>5 DEF Reachable
<1>2. CASE Restart
  BY <1>2 DEF WalkInv, Restart, Busy
<1>3. ASSUME NEW h \in Handler, NEW b \in Batch, Receive(h, b)
      PROVE  WalkInv'
  <2>1. delivered[b] \in Nat /\ delivered'[b] = delivered[b] + 1
    BY <1>3, WebhookAssumption DEF TypeOK, Receive
  <2>2. \A c \in Batch : c # b => delivered'[c] = delivered[c]
    BY <1>3 DEF TypeOK, Receive
  <2>3. UNCHANGED <<up, owner>> /\ up
    BY <1>3 DEF Receive
  <2> SUFFICES ASSUME NEW g \in Handler, Busy(g)'
               PROVE  Walk(handler[g])'
    BY DEF WalkInv
  <2>4. CASE handler'[g] = handler[g]
    <3>1. Walk(handler[g])
      BY <2>4 DEF WalkInv, Busy
    <3>2. handler[g].batch \in Batch /\ handler[g].nth \in Nat
      BY DEF TypeOK, HandlerCall
    <3>3. handler[g].nth <= delivered'[handler[g].batch]
      BY <2>1, <2>2, <3>1, <3>2
    <3> QED
      BY <2>3, <2>4, <3>1, <3>3 DEF Reachable
  <2>5. CASE g = h /\ \E j \in NextIn(b, 0) : handler'[h] = Lookup(b, delivered[b] + 1, j)
    <3> PICK j \in NextIn(b, 0) : handler'[h] = Lookup(b, delivered[b] + 1, j)
      BY <2>5
    <3>1. /\ handler'[g].batch = b
          /\ handler'[g].nth = delivered[b] + 1
          /\ handler'[g].at = j
          /\ handler'[g].steady = {k \in Transfers(b) : Reachable(owner, b, k)}
      BY <2>5 DEF Lookup
    <3>2. Eligible(Activities[b][j]) /\ \A k \in Later(b, 0) : j <= k
      BY DEF NextIn, Later
    <3>3. \A k \in Transfers(b) : k \in Later(b, 0)
      <4> TAKE k \in Transfers(b)
      <4>1. k \in DOMAIN Activities[b] /\ Activities[b] \in Seq(Activity)
        BY WebhookAssumption DEF Transfers
      <4>2. Eligible(Activities[b][k])
        BY <4>1, EligibleIsTransfer
      <4> QED
        BY <4>1, <4>2 DEF Later
    <3> QED
      BY <2>1, <2>3, <3>1, <3>2, <3>3 DEF Reachable
  <2> QED
    BY <1>3, <2>4, <2>5 DEF Receive, TypeOK
<1>4. ASSUME NEW h \in Handler, Match(h)
      PROVE  WalkInv'
  <2>1. \A g \in Handler : Busy(g)' => (Busy(g) /\ handler'[g] = handler[g])
    BY <1>4, IdleType DEF TypeOK, Match, Busy
  <2>2. UNCHANGED <<up, owner, delivered>>
    BY <1>4 DEF Match
  <2> QED
    BY <2>1, <2>2 DEF WalkInv, Reachable, Busy
<1>5. ASSUME NEW h \in Handler, NoMatch(h)
      PROVE  WalkInv'
  <2>1. Busy(h) /\ UNCHANGED <<up, owner, delivered>>
    BY <1>5 DEF NoMatch, Busy
  <2>2. \A g \in Handler : g # h => handler'[g] = handler[g]
    BY <1>5, <2>1, MoveOnType DEF NoMatch
  <2> SUFFICES ASSUME NEW g \in Handler, Busy(g)'
               PROVE  Walk(handler[g])'
    BY DEF WalkInv
  <2>3. CASE g # h
    BY <2>1, <2>2, <2>3 DEF WalkInv, Reachable, Busy
  <2>4. CASE g = h
    <3>1. Walk(handler[h])
      BY <2>1 DEF WalkInv
    <3>2. /\ handler'[h].batch = handler[h].batch
          /\ handler'[h].nth = handler[h].nth
          /\ handler'[h].steady = handler[h].steady
          /\ Eligible(Activities[handler[h].batch][handler'[h].at])
          /\ \A j \in handler[h].steady : handler'[h].at <= j
      BY <1>5, <2>1, <2>4, MoveOnWalk, IdleType DEF NoMatch, Busy
    <3> QED
      BY <2>1, <2>4, <3>1, <3>2 DEF Reachable
  <2> QED
    BY <2>3, <2>4
<1>6. ASSUME NEW h \in Handler, LookupFails(h)
      PROVE  WalkInv'
  BY <1>6, IdleType DEF LookupFails, Die, WalkInv, Busy
<1>7. ASSUME NEW n \in inFlight, PushSent(n) \/ PushFails(n)
      PROVE  WalkInv'
  BY <1>7 DEF PushSent, PushFails, WalkInv, Reachable, Busy
<1>8. CASE UNCHANGED vars
  BY <1>8 DEF vars, WalkInv, Reachable, Busy
<1> QED
  BY <1>1, <1>2, <1>3, <1>4, <1>5, <1>6, <1>7, <1>8
     DEF Next, Environment, HandlerStep

\* The step that ends a walk notifies a transfer, no later than the first of those whose
\* recipient was reachable all along.
LEMMA EndOfWalk ==
  ASSUME TypeOK, WalkInv, NEW h \in Handler, Ends(h), handler[h].steady # {}
  PROVE  \E j \in Transfers(handler[h].batch) :
            Notified(h, j) /\ \A k \in handler[h].steady : j <= k
<1>1. Busy(h)
  BY DEF Ends, Match, NoMatch, Busy
<1>2. CASE Match(h)
  <2>1. handler[h].at \in Transfers(handler[h].batch)
    BY <1>1, EligibleIsTransfer DEF TypeOK, WalkInv, HandlerCall, Busy
  <2>2. Notified(h, handler[h].at)
    BY <1>2 DEF Match, Notified, Notification
  <2>3. \A k \in handler[h].steady : handler[h].at <= k
    BY <1>1 DEF WalkInv
  <2> QED
    BY <2>1, <2>2, <2>3
<1>3. CASE NoMatch(h)
  BY <1>1, <1>3, MoveOnWalk DEF NoMatch, Ends
<1> QED
  BY <1>2, <1>3 DEF Ends

(* Neither spam, nor what the other filters drop, nor the transfer of a      *)
(* stranger stands in the way: the walk never goes past a transfer whose     *)
(* recipient was reachable all along.  (It may stop before it.)              *)
THEOREM SteadyIsNotPassed == Spec => NoSteadyTransferPassed
<1>1. TypeOK /\ WalkInv /\ [Next]_vars =>
         [\A h \in Handler :
            (Ends(h) /\ handler[h].steady # {}) =>
                \E j \in Transfers(handler[h].batch) :
                    Notified(h, j) /\ \A k \in handler[h].steady : j <= k]_vars
  BY EndOfWalk
<1> QED
  BY <1>1, InitType, InitWalk, StepType, StepWalk, PTL DEF Spec, NoSteadyTransferPassed

-----------------------------------------------------------------------------
(* One notification per delivery *)

LEMMA InitDelivery == Init => DeliveryInv
  BY IdleType DEF Init, DeliveryInv, OnePerDelivery, Busy

\* Nothing is disturbed while no delivery and no notification is added and a handler
\* keeps its delivery.
LEMMA DeliveryKept ==
  ASSUME DeliveryInv, UNCHANGED <<delivered, started>>,
         \A g \in Handler : Busy(g)' =>
            Busy(g) /\ SameDelivery(handler'[g], handler[g])
  PROVE  DeliveryInv'
<1>1. (\A n \in started : n.nth <= delivered[n.batch])'
  BY DEF DeliveryInv
<1>2. (\A h \in Handler, n \in started : Busy(h) => ~SameDelivery(n, handler[h]))'
  BY DEF DeliveryInv, SameDelivery
<1>3. (\A h, g \in Handler :
          (Busy(h) /\ Busy(g) /\ SameDelivery(handler[h], handler[g])) => h = g)'
  <2> SUFFICES ASSUME NEW h \in Handler, NEW g \in Handler, Busy(h)', Busy(g)',
                      SameDelivery(handler'[h], handler'[g])
               PROVE  h = g
    OBVIOUS
  <2>1. SameDelivery(handler[h], handler[g])
    BY DEF SameDelivery
  <2> QED
    BY <2>1 DEF DeliveryInv
<1>4. OnePerDelivery'
  BY DEF DeliveryInv, OnePerDelivery, SameDelivery
<1> QED
  BY <1>1, <1>2, <1>3, <1>4 DEF DeliveryInv

LEMMA StepDelivery == TypeOK /\ WalkInv /\ DeliveryInv /\ [Next]_vars => DeliveryInv'
<1> SUFFICES ASSUME TypeOK, WalkInv, DeliveryInv, [Next]_vars PROVE DeliveryInv'
  OBVIOUS
<1>1. ASSUME NEW a \in Address, NEW d \in Device \cup {NoDevice}, Reassign(a, d)
      PROVE  DeliveryInv'
  <2>1. ASSUME NEW g \in Handler
        PROVE  /\ handler'[g].pc = handler[g].pc
               /\ handler'[g].batch = handler[g].batch
               /\ handler'[g].nth = handler[g].nth
    <3> DEFINE Kept == {j \in handler[g].steady : Reachable(owner', handler[g].batch, j)}
    <3>1. handler'[g] = [handler[g] EXCEPT !.steady = Kept]
      BY <1>1 DEF Reassign
    <3>2. handler[g] \in HandlerCall
      BY DEF TypeOK
    <3> HIDE DEF Kept
    <3> QED
      BY <3>1, <3>2 DEF HandlerCall
  <2>2. UNCHANGED <<delivered, started>>
    BY <1>1 DEF Reassign
  <2> QED
    BY <2>1, <2>2, DeliveryKept DEF Busy, SameDelivery
<1>2. CASE Restart
  BY <1>2, DeliveryKept DEF Restart, Busy, SameDelivery
<1>3. ASSUME NEW h \in Handler, NEW b \in Batch, Receive(h, b)
      PROVE  DeliveryInv'
  <2>1. delivered[b] \in Nat /\ delivered'[b] = delivered[b] + 1
    BY <1>3, WebhookAssumption DEF TypeOK, Receive
  <2>2. \A c \in Batch : c # b => delivered'[c] = delivered[c]
    BY <1>3 DEF TypeOK, Receive
  <2>3. started' = started
    BY <1>3 DEF Receive
  <2>4. \A n \in started : n.batch \in Batch /\ n.nth \in Nat
    BY DEF TypeOK, Sent
  <2>5. \A g \in Handler : handler[g].batch \in Batch /\ handler[g].nth \in Nat
    BY DEF TypeOK, HandlerCall
  <2>6. \A g \in Handler :
           \/ handler'[g] = handler[g]
           \/ g = h /\ handler'[g].batch = b /\ handler'[g].nth = delivered[b] + 1
    BY <1>3 DEF Receive, TypeOK, Lookup
  <2>7. (\A n \in started : n.nth <= delivered[n.batch])'
    BY <2>1, <2>2, <2>3, <2>4 DEF DeliveryInv
  <2>8. (\A g \in Handler, n \in started : Busy(g) => ~SameDelivery(n, handler[g]))'
    <3> SUFFICES ASSUME NEW g \in Handler, NEW n \in started, Busy(g)'
                 PROVE  ~SameDelivery(n, handler'[g])
      BY <2>3
    <3>1. CASE handler'[g] = handler[g]
      BY <3>1 DEF DeliveryInv, Busy
    <3>2. CASE handler'[g].batch = b /\ handler'[g].nth = delivered[b] + 1
      <4>1. n.nth <= delivered[n.batch]
        BY DEF DeliveryInv
      <4> QED
        BY <2>1, <2>4, <3>2, <4>1 DEF SameDelivery
    <3> QED
      BY <2>6, <3>1, <3>2
  <2>9. (\A g, k \in Handler :
          (Busy(g) /\ Busy(k) /\ SameDelivery(handler[g], handler[k])) => g = k)'
    <3> SUFFICES ASSUME NEW g \in Handler, NEW k \in Handler, Busy(g)', Busy(k)',
                        SameDelivery(handler'[g], handler'[k]), g # k
                 PROVE  FALSE
      OBVIOUS
    <3>1. ASSUME NEW q \in Handler, handler'[q] = handler[q], Busy(q)',
                 handler'[q].batch = b
          PROVE  handler'[q].nth # delivered[b] + 1
      <4>1. handler[q].nth <= delivered[handler[q].batch] /\ handler[q].nth \in Nat
        BY <2>5, <3>1 DEF WalkInv, Busy
      <4> QED
        BY <2>1, <3>1, <4>1
    <3>2. CASE handler'[g] = handler[g] /\ handler'[k] = handler[k]
      BY <3>2 DEF DeliveryInv, Busy
    <3>3. CASE handler'[g] # handler[g]
      <4>1. handler'[g].batch = b /\ handler'[g].nth = delivered[b] + 1 /\ g = h
        BY <2>6, <3>3
      <4>2. handler'[k] = handler[k]
        BY <2>6, <4>1
      <4> QED
        BY <3>1, <4>1, <4>2 DEF SameDelivery
    <3>4. CASE handler'[k] # handler[k]
      <4>1. handler'[k].batch = b /\ handler'[k].nth = delivered[b] + 1 /\ k = h
        BY <2>6, <3>4
      <4>2. handler'[g] = handler[g]
        BY <2>6, <4>1
      <4> QED
        BY <3>1, <4>1, <4>2 DEF SameDelivery
    <3> QED
      BY <3>2, <3>3, <3>4
  <2>10. OnePerDelivery'
    BY <2>3 DEF DeliveryInv, OnePerDelivery, SameDelivery
  <2> QED
    BY <2>7, <2>8, <2>9, <2>10 DEF DeliveryInv
<1>4. ASSUME NEW h \in Handler, Match(h)
      PROVE  DeliveryInv'
  <2> DEFINE new == Notification(h)
  <2>1. Busy(h) /\ ~Busy(h)' /\ started' = started \cup {new} /\ delivered' = delivered
    BY <1>4, IdleType DEF Match, Busy, TypeOK
  <2>2. \A g \in Handler : g # h => handler'[g] = handler[g]
    BY <1>4 DEF Match, TypeOK
  <2>3. SameDelivery(new, handler[h])
    BY DEF Notification, SameDelivery
  <2>4. new.nth <= delivered[new.batch]
    BY <2>1 DEF Notification, WalkInv
  <2> HIDE DEF new
  <2>5. (\A n \in started : n.nth <= delivered[n.batch])'
    BY <2>1, <2>4 DEF DeliveryInv
  <2>6. \A g \in Handler : Busy(g)' => g # h /\ Busy(g) /\ handler'[g] = handler[g]
    BY <2>1, <2>2 DEF Busy
  <2>7. (\A g \in Handler, n \in started : Busy(g) => ~SameDelivery(n, handler[g]))'
    <3> SUFFICES ASSUME NEW g \in Handler, NEW n \in started', Busy(g)',
                        SameDelivery(n, handler'[g])
                 PROVE  FALSE
      OBVIOUS
    <3>1. CASE n \in started
      BY <2>6, <3>1 DEF DeliveryInv
    <3>2. CASE n = new
      <4>1. SameDelivery(handler[h], handler[g])
        BY <2>3, <2>6, <3>2 DEF SameDelivery
      <4> QED
        BY <2>1, <2>6, <4>1 DEF DeliveryInv
    <3> QED
      BY <2>1, <3>1, <3>2
  <2>8. (\A g, k \in Handler :
          (Busy(g) /\ Busy(k) /\ SameDelivery(handler[g], handler[k])) => g = k)'
    BY <2>6 DEF DeliveryInv
  <2>9. \A n \in started : ~SameDelivery(n, new)
    BY <2>1, <2>3 DEF DeliveryInv, SameDelivery
  <2>10. OnePerDelivery'
    BY <2>1, <2>9 DEF DeliveryInv, OnePerDelivery, SameDelivery
  <2> QED
    BY <2>5, <2>7, <2>8, <2>10 DEF DeliveryInv
<1>5. ASSUME NEW h \in Handler, NoMatch(h)
      PROVE  DeliveryInv'
  <2>1. Busy(h) /\ UNCHANGED <<delivered, started>>
    BY <1>5 DEF NoMatch, Busy
  <2>2. \A g \in Handler : g # h => handler'[g] = handler[g]
    BY <1>5, <2>1, MoveOnType DEF NoMatch
  <2>3. Busy(h)' => SameDelivery(handler'[h], handler[h])
    BY <1>5, <2>1, MoveOnWalk, IdleType DEF NoMatch, Busy, SameDelivery
  <2> QED
    BY <2>1, <2>2, <2>3, DeliveryKept DEF Busy, SameDelivery
<1>6. ASSUME NEW h \in Handler, LookupFails(h)
      PROVE  DeliveryInv'
  BY <1>6, IdleType, DeliveryKept DEF LookupFails, Die, Busy
<1>7. ASSUME NEW n \in inFlight, PushSent(n) \/ PushFails(n)
      PROVE  DeliveryInv'
  BY <1>7, DeliveryKept DEF PushSent, PushFails, Busy, SameDelivery
<1>8. CASE UNCHANGED vars
  BY <1>8, DeliveryKept DEF vars, Busy, SameDelivery
<1> QED
  BY <1>1, <1>2, <1>3, <1>4, <1>5, <1>6, <1>7, <1>8
     DEF Next, Environment, HandlerStep

(* However the handlers of the deliveries of a batch are interleaved, no     *)
(* delivery notifies a recipient twice of one transaction.                   *)
THEOREM OneNotification == Spec => []OncePerRecipient
<1>1. DeliveryInv => OncePerRecipient
  BY DEF DeliveryInv, OnePerDelivery, SameDelivery, OncePerRecipient
<1> QED
  BY <1>1, InitType, InitWalk, InitDelivery, StepType, StepWalk, StepDelivery, PTL DEF Spec

-----------------------------------------------------------------------------
(* As many notifications as deliveries *)

NotifiedOf(b) == {n \in started : n.batch = b}

\* What a batch that is posted again costs: after k postings, by whatever retries, at most
\* k notifications, however its handlers were interleaved, failed or died.
NoMoreThanPosted ==
    \A b \in Batch : IsFiniteSet(NotifiedOf(b)) /\ Cardinality(NotifiedOf(b)) <= delivered[b]

\* Deliveries are counted from one.
Numbered ==
    /\ \A h \in Handler : Busy(h) => handler[h].nth > 0
    /\ \A n \in started : n.nth > 0

LEMMA StepNumbered == TypeOK /\ Numbered /\ [Next]_vars => Numbered'
<1> SUFFICES ASSUME TypeOK, Numbered, [Next]_vars PROVE Numbered'
  OBVIOUS
<1>1. Idle.pc # "lookup"
  BY DEF Idle
<1>2. ASSUME NEW h \in Handler, NEW b \in Batch, Receive(h, b) PROVE Numbered'
  <2>1. CASE handler' = handler
    BY <1>2, <2>1 DEF Receive, Numbered, Busy
  <2>2. ASSUME NEW j, handler' = [handler EXCEPT ![h] = Lookup(b, delivered[b] + 1, j)]
        PROVE  Numbered'
    <3>1. delivered[b] + 1 > 0
      BY WebhookAssumption DEF TypeOK
    <3>2. Lookup(b, delivered[b] + 1, j).nth > 0
      BY <3>1 DEF Lookup
    <3>3. \A g \in Handler : g # h => handler'[g] = handler[g]
      BY <2>2 DEF TypeOK
    <3>4. handler'[h].nth > 0
      BY <2>2, <3>2 DEF TypeOK
    <3> QED
      BY <1>2, <3>3, <3>4 DEF Receive, Numbered, Busy
  <2> QED
    BY <1>2, <2>1, <2>2 DEF Receive
<1>3. ASSUME NEW h \in Handler, Match(h) PROVE Numbered'
  <2>1. \A g \in Handler : handler'[g] = handler[g] \/ handler'[g] = Idle
    BY <1>3 DEF Match, TypeOK
  <2>2. Notification(h).nth > 0
    BY <1>3 DEF Match, Numbered, Busy, Notification
  <2> QED
    BY <1>1, <1>3, <2>1, <2>2 DEF Match, Numbered, Busy
<1>4. ASSUME NEW h \in Handler, NoMatch(h) PROVE Numbered'
  <2>1. Busy(h) /\ MoveOn(h)
    BY <1>4 DEF NoMatch, Busy
  <2>2. \A g \in Handler : handler'[g].nth = handler[g].nth \/ handler'[g] = Idle
    BY <2>1, MoveOnType DEF TypeOK, HandlerCall
  <2>3. \A g \in Handler : Busy(g)' => Busy(g)
    BY <2>1, <1>1, MoveOnType DEF Busy
  <2> QED
    BY <1>1, <1>4, <2>2, <2>3 DEF NoMatch, Numbered, Busy
<1>5. ASSUME NEW a \in Address, NEW d \in Device \cup {NoDevice}, Reassign(a, d)
      PROVE  Numbered'
  <2>1. \A g \in Handler : handler'[g].nth = handler[g].nth /\ handler'[g].pc = handler[g].pc
    BY <1>5 DEF Reassign, TypeOK, HandlerCall
  <2> QED
    BY <1>5, <2>1 DEF Reassign, Numbered, Busy
<1>6. ASSUME NEW h \in Handler, LookupFails(h) PROVE Numbered'
  BY <1>1, <1>6 DEF LookupFails, Die, Numbered, Busy
<1>7. CASE UNCHANGED <<handler, started>>
  BY <1>7 DEF Numbered, Busy
<1> QED
  BY <1>2, <1>3, <1>4, <1>5, <1>6, <1>7
     DEF Next, Environment, Restart, HandlerStep, PushSent, PushFails, vars

\* For any handlers, batches, retries and crashes: no more notifications than deliveries.
THEOREM OncePerPosting == Spec => []NoMoreThanPosted
<1>1. TypeOK /\ DeliveryInv /\ Numbered => NoMoreThanPosted
  <2> SUFFICES ASSUME TypeOK, DeliveryInv, Numbered, NEW b \in Batch
               PROVE  IsFiniteSet(NotifiedOf(b)) /\ Cardinality(NotifiedOf(b)) <= delivered[b]
    BY DEF NoMoreThanPosted
  <2> DEFINE f == [n \in NotifiedOf(b) |-> n.nth]
  <2>1. delivered[b] \in Nat
    BY WebhookAssumption DEF TypeOK
  <2>2. \A n \in NotifiedOf(b) : n.nth \in 1..delivered[b]
    BY <2>1 DEF NotifiedOf, DeliveryInv, Numbered, TypeOK, Sent
  <2>3. \A m, n \in NotifiedOf(b) : m.nth = n.nth => m = n
    BY DEF NotifiedOf, DeliveryInv, OnePerDelivery, SameDelivery
  <2>4. f \in Injection(NotifiedOf(b), 1..delivered[b])
    BY <2>2, <2>3 DEF Injection, IsInjective
  <2>5. IsFiniteSet(1..delivered[b]) /\ Cardinality(1..delivered[b]) = delivered[b]
    BY <2>1, FS_Interval
  <2> HIDE DEF f
  <2> QED
    BY <2>4, <2>5, FS_Injection
<1>2. Init => Numbered
  BY IdleType DEF Init, Numbered, Busy
<1> QED
  BY <1>1, <1>2, InitType, InitWalk, InitDelivery, StepType, StepWalk, StepDelivery,
     StepNumbered, PTL DEF Spec

-----------------------------------------------------------------------------
(* Handlers return.  ENABLED is spelled out: a lookup can always be answered. *)

\* Weak fairness of every HandlerStep.
LookupsAnswered == \A h \in Handler : []([]Busy(h) => <><<HandlerStep(h)>>_vars)

\* What a walk has left: the activities after the one it is at.
WalkLeft(h) == Len(Activities[handler[h].batch]) - handler[h].at

\* True of every behaviour, see Descent.
WalksDescend == \A h \in Handler : Rests(WalkLeft(h))

\* An answer moves a walk ahead or ends it, and nothing moves it back.
LEMMA WalkStepLowers ==
  ASSUME TypeOK, [Next]_vars, NEW h \in Handler, Busy(h), Busy(h)'
  PROVE  /\ WalkLeft(h) \in Nat
         /\ WalkLeft(h)' <= WalkLeft(h)
         /\ HandlerStep(h) => WalkLeft(h)' < WalkLeft(h)
<1> DEFINE b == handler[h].batch
<1>1. /\ b \in Batch
      /\ handler[h].at \in DOMAIN Activities[b]
      /\ Activities[b] \in Seq(Activity)
  BY WebhookAssumption DEF TypeOK, HandlerCall, Busy
<1>2. WalkLeft(h) \in Nat /\ handler[h].at \in Nat
  BY <1>1 DEF WalkLeft
<1>3. Idle.pc # "lookup"
  BY DEF Idle
<1>4. ASSUME NEW g \in Handler, HandlerStep(g)
      PROVE  /\ g = h => WalkLeft(h)' < WalkLeft(h)
             /\ g # h => WalkLeft(h)' = WalkLeft(h)
  <2>1. CASE LookupFails(g)
    <3>1. handler'[h] = Idle
        BY <2>1 DEF LookupFails, Die
    <3> QED BY <3>1, <1>3 DEF Busy
  <2>2. CASE Match(g)
    <3>1. g # h
        BY <2>2, <1>3 DEF Match, Busy, TypeOK
    <3>2. handler'[h] = handler[h]
        BY <2>2, <3>1 DEF Match, TypeOK
    <3> QED BY <3>1, <3>2 DEF WalkLeft
  <2>3. CASE NoMatch(g)
    <3>1. Busy(g) /\ MoveOn(g)
        BY <2>3 DEF NoMatch, Busy
    <3>2. CASE g # h
      <4>1. handler'[h] = handler[h]
          BY <3>1, <3>2, MoveOnType
      <4> QED BY <3>2, <4>1 DEF WalkLeft
    <3>3. CASE g = h
      <4>1. PICK j \in NextIn(b, handler[h].at) : handler'[h] = [handler[h] EXCEPT !.at = j]
          BY <3>1, <3>3, MoveOnType, <1>3 DEF Busy
      <4>2. j \in DOMAIN Activities[b] /\ j > handler[h].at
          BY DEF NextIn, Later
      <4>3. handler'[h].at = j /\ handler'[h].batch = b
          BY <4>1 DEF TypeOK, HandlerCall
      <4>4. Len(Activities[b]) - j < Len(Activities[b]) - handler[h].at
          BY <1>1, <1>2, <4>2
      <4> QED BY <3>3, <4>3, <4>4 DEF WalkLeft
    <3> QED BY <3>2, <3>3
  <2> QED BY <1>4, <2>1, <2>2, <2>3 DEF HandlerStep
<1>5. ASSUME NEW g \in Handler, NEW c \in Batch, Receive(g, c)
      PROVE  WalkLeft(h)' = WalkLeft(h)
  <2>1. g # h
      BY <1>5 DEF Receive, Busy
  <2>2. handler'[h] = handler[h]
      BY <1>5, <2>1 DEF Receive, TypeOK
  <2> QED BY <2>2 DEF WalkLeft
<1>6. ASSUME NEW a \in Address, NEW d \in Device \cup {NoDevice}, Reassign(a, d)
      PROVE  WalkLeft(h)' = WalkLeft(h)
  <2>1. handler'[h].at = handler[h].at /\ handler'[h].batch = handler[h].batch
      BY <1>6 DEF Reassign, TypeOK, HandlerCall
  <2> QED BY <2>1 DEF WalkLeft
<1>7. ASSUME handler' = handler PROVE WalkLeft(h)' = WalkLeft(h)
  BY <1>7 DEF WalkLeft
<1>8. ~HandlerStep(h) => WalkLeft(h)' = WalkLeft(h) \/ WalkLeft(h)' < WalkLeft(h)
  BY <1>4, <1>5, <1>6, <1>7 DEF Next, Environment, Restart, PushSent, PushFails, vars
<1>9. WalkLeft(h)' \in Nat
  <2>1. TypeOK'
      BY StepType
  <2>2. /\ handler'[h].batch \in Batch
        /\ handler'[h].at \in DOMAIN Activities[handler'[h].batch]
      BY <2>1 DEF TypeOK, HandlerCall, Busy
  <2>3. Activities[handler'[h].batch] \in Seq(Activity)
      BY <2>2, WebhookAssumption
  <2> QED BY <2>2, <2>3 DEF WalkLeft
<1> QED BY <1>2, <1>4, <1>8, <1>9

\* A handler that is not answered stays where it is until the process dies.
LEMMA HandlerReturns ==
  ASSUME NEW h \in Handler
  PROVE  /\ Spec
         /\ []([]Busy(h) => <><<HandlerStep(h)>>_vars)
         /\ Rests(WalkLeft(h))
         => ((handler[h].pc = "lookup") ~> (handler[h].pc = "idle"))
<1> DEFINE a == WalkLeft(h)
           busy == Busy(h)
<1>1. Spec => []TypeOK
  BY TypeCorrect
<1>2. TypeOK /\ [Next]_vars /\ busy /\ busy' => /\ a \in Nat
                                                /\ a' <= a
                                                /\ HandlerStep(h) => a' < a
  BY WalkStepLowers
<1>3. (handler[h].pc = "lookup") <=> busy
  BY DEF Busy
<1>4. TypeOK => ((handler[h].pc = "idle") <=> ~busy)
  BY DEF TypeOK, HandlerCall, Busy
<1>5. Rests(WalkLeft(h)) => []([](a \in Nat) /\ [][a' <= a]_a => <>[][FALSE]_a)
  BY DEF Rests
<1>6. []([]Busy(h) => <><<HandlerStep(h)>>_vars) => []([]busy => <><<HandlerStep(h)>>_vars)
  OBVIOUS
<1>7. a \in Nat => ~(a < a)
  OBVIOUS
<1> HIDE DEF a, busy
<1>8. TypeOK /\ [Next]_vars /\ busy /\ busy' => a \in Nat /\ [a' <= a]_a
  BY <1>2
<1>9. TypeOK /\ [Next]_vars /\ busy /\ busy' /\ [FALSE]_a => ~<<HandlerStep(h)>>_vars
  BY <1>2, <1>7
<1> QED
  BY <1>1, <1>3, <1>4, <1>5, <1>6, <1>8, <1>9, PTL DEF Spec

\* For any handlers, batches and crashes: every handler returns or dies with the process,
\* if every lookup is answered or fails.
THEOREM EveryHandlerReturns == Spec /\ LookupsAnswered /\ WalksDescend => HandlersReturn
<1>1. ASSUME NEW h \in Handler
      PROVE  Spec /\ LookupsAnswered /\ WalksDescend =>
                ((handler[h].pc = "lookup") ~> (handler[h].pc = "idle"))
  <2>1. LookupsAnswered => []([]Busy(h) => <><<HandlerStep(h)>>_vars)
      BY DEF LookupsAnswered
  <2>2. WalksDescend => Rests(WalkLeft(h))
      BY DEF WalksDescend
  <2> QED BY <2>1, <2>2, HandlerReturns
<1> QED BY <1>1 DEF HandlersReturn

=============================================================================
