------------------------------ MODULE BulkSend ------------------------------
(***************************************************************************)
(* One bulk notification: BulkNotificationService.sendBulk, which resolves *)
(* device ids to FCM tokens (DeviceService.resolveTokens) and sends one    *)
(* multicast per chunk of tokens (FirebaseNotificationService.             *)
(* sendMulticast), adding up what FCM answers.                             *)
(*                                                                         *)
(* A step is one awaited call and the code up to the next await.  Nothing  *)
(* is shared between two requests, so there is one.  An id is the text the *)
(* caller sends; MongoDB finds a device by more than one spelling of its   *)
(* id, but answers with one.                                               *)
(***************************************************************************)
EXTENDS Integers, FiniteSets, Functions

CONSTANTS Id,        \* the device ids a caller may send
          Device,    \* the devices of the registry
          Names,     \* the device MongoDB finds for an id, or NoDevice
          NoDevice,  \* an id that is malformed or unknown
          SpeltAs,   \* the id MongoDB answers for a device
          Token,     \* FCM tokens
          NoToken,   \* a device without one
          Chunk      \* tokens per multicast, MULTICAST_CHUNK = 500 in the code

ASSUME BulkAssumption ==
    /\ Names \in [Id -> Device \cup {NoDevice}]
    /\ SpeltAs \in [Device -> Id]
    /\ \A d \in Device : Names[SpeltAs[d]] = d
    /\ NoDevice \notin Device
    /\ NoToken \notin Token
    /\ IsFiniteSet(Id)
    /\ Chunk \in Nat \ {0}

\* What FCM says of one token: DEAD_TOKEN_CODES are the "dead" answers.
Verdict == {"ok", "dead", "other"}

VARIABLES fcm,       \* the token of each device
          pc,        \* "idle", "resolve", "send", "done" or "rejected"
          asked,     \* the ids of the request
          missing,   \* missingDeviceIds
          noToken,   \* noTokenDeviceIds
          tokens,    \* the tokens to send to
          offset,    \* i of the chunk loop
          success,   \* successCount
          failure,   \* failureCount
          invalid,   \* invalidTokens
          pushed,    \* history: how often each token was handed to FCM
          verdict    \* history: what FCM said of each token, "none" when it did not

resolution == <<missing, noToken, tokens>>
counts == <<offset, success, failure, invalid, pushed, verdict>>
vars == <<fcm, pc, asked, resolution, counts>>

Init ==
    /\ fcm \in [Device -> Token \cup {NoToken}]
    /\ pc = "idle"
    /\ asked = {}
    /\ missing = {}
    /\ noToken = {}
    /\ tokens = << >>
    /\ offset = 0
    /\ success = 0
    /\ failure = 0
    /\ invalid = {}
    /\ pushed = [t \in Token |-> "never"]
    /\ verdict = [t \in Token |-> "none"]

-----------------------------------------------------------------------------

\* An empty list of ids, a missing title or body is answered with 400.
Request(ids, wellFormed) ==
    /\ pc = "idle"
    /\ asked' = ids
    /\ pc' = IF ids # {} /\ wellFormed THEN "resolve" ELSE "rejected"
    /\ UNCHANGED <<fcm, resolution, counts>>

\* byId.has: the registry answered for the id in the caller's own spelling.
Found(id) == Names[id] # NoDevice /\ SpeltAs[Names[id]] = id

\* The lists without repetitions of a set: the code lists by first mention, which
\* nothing below depends on.
Listings(S) == Bijection(1..Cardinality(S), S)

\* Mutant: an id that is missing is also looked up for its token.
Resolve_NoElse ==
    /\ pc = "resolve"
    /\ missing' = {id \in asked : ~Found(id)}
    /\ noToken' = {id \in asked : Found(id) => fcm[Names[id]] = NoToken}
    /\ tokens' \in Listings({fcm[Names[id]] : id \in {i \in asked : Found(i)}} \ {NoToken})
    /\ pc' = "send"
    /\ UNCHANGED <<fcm, asked, counts>>

Resolve ==
    /\ pc = "resolve"
    /\ missing' = {id \in asked : ~Found(id)}
    /\ noToken' = {id \in asked : Found(id) /\ fcm[Names[id]] = NoToken}
    /\ tokens' \in Listings({fcm[Names[id]] : id \in {i \in asked : Found(i)}} \ {NoToken})
    /\ pc' = "send"
    /\ UNCHANGED <<fcm, asked, counts>>

\* The registry cannot be read: the request fails.
ResolveFails ==
    /\ pc = "resolve"
    /\ pc' = "rejected"
    /\ UNCHANGED <<fcm, asked, resolution, counts>>

-----------------------------------------------------------------------------

Total == Cardinality(DOMAIN tokens)

\* Mutant: the last, shorter chunk is not sent.
More_FullOnly == offset + Chunk <= Total

More == offset < Total

\* Mutant: the slice takes one token too many.
Batch_OneMore == {k \in DOMAIN tokens : offset < k /\ k <= offset + Chunk + 1}

\* The positions of tokens.slice(i, i + MULTICAST_CHUNK).
Batch == {k \in DOMAIN tokens : offset < k /\ k <= offset + Chunk}

Again(times) == IF times = "never" THEN "once" ELSE "again"

HandOver ==
    /\ pc = "send"
    /\ More
    /\ pushed' = [t \in Token |-> IF \E k \in Batch : tokens[k] = t THEN Again(pushed[t])
                                                                   ELSE pushed[t]]
    /\ UNCHANGED <<fcm, pc, asked, resolution>>

\* Mutant: the position of an answer in its batch is taken for one in the whole list.
Rejected_ByBatchPosition(answer) == {tokens[k - offset] : k \in {j \in Batch : answer[j] = "dead"}}

\* batch[idx] of the answers that say the token is dead.
Rejected(answer) == {tokens[k] : k \in {j \in Batch : answer[j] = "dead"}}

\* FCM answers for each token of the batch.
SendBatch ==
    /\ HandOver
    /\ \E answer \in [Batch -> Verdict] :
          LET good == {k \in Batch : answer[k] = "ok"}
          IN  /\ success' = success + Cardinality(good)
              /\ failure' = failure + Cardinality(Batch \ good)
              /\ invalid' = invalid \cup Rejected(answer)
              /\ verdict' = [t \in Token |->
                    IF \E k \in Batch : tokens[k] = t
                    THEN answer[CHOOSE k \in Batch : tokens[k] = t] ELSE verdict[t]]
    /\ offset' = offset + Chunk

\* Mutant: a batch that fails is not counted.
BatchFails_Uncounted ==
    /\ HandOver
    /\ offset' = offset + Chunk
    /\ UNCHANGED <<success, failure, invalid, verdict>>

\* Mutant: a batch that fails is tried again, and counted as failed each time.
BatchFails_Again ==
    /\ HandOver
    /\ failure' = failure + Cardinality(Batch)
    /\ UNCHANGED <<offset, success, invalid, verdict>>

\* The whole call fails: every token of the batch counts as a failure, and on it goes.
BatchFails ==
    /\ HandOver
    /\ failure' = failure + Cardinality(Batch)
    /\ offset' = offset + Chunk
    /\ UNCHANGED <<success, invalid, verdict>>

Answer ==
    /\ pc = "send"
    /\ ~More
    /\ pc' = "done"
    /\ UNCHANGED <<fcm, asked, resolution, counts>>

-----------------------------------------------------------------------------

Next ==
    \/ \E ids \in SUBSET Id, wellFormed \in BOOLEAN : Request(ids, wellFormed)
    \/ Resolve
    \/ ResolveFails
    \/ SendBatch
    \/ BatchFails
    \/ Answer

Spec == Init /\ [][Next]_vars

-----------------------------------------------------------------------------

\* Every variable stays in its range; nobody is pushed to twice.
TypeOK ==
    /\ fcm \in [Device -> Token \cup {NoToken}]
    /\ pc \in {"idle", "resolve", "send", "done", "rejected"}
    /\ asked \subseteq Id
    /\ missing \subseteq asked
    /\ noToken \subseteq asked
    /\ tokens \in Injection(1..Total, Token)
    /\ offset \in Nat
    /\ success \in Nat
    /\ failure \in Nat
    /\ invalid \subseteq Token
    /\ pushed \in [Token -> {"never", "once"}]
    /\ verdict \in [Token -> Verdict \cup {"none"}]

\* The answer shows every gap: an id it reports neither missing nor without a token has
\* its token among those sent to, and an id it reports without a token is of a device
\* that has none, is sent nothing and is not missing as well, whatever ids share a device
\* and whatever devices share a token.  Of a missing id nothing is said: one in another
\* spelling is reported missing although the registry knows its device.
GapsReported ==
    pc \in {"send", "done"} =>
        \A id \in asked :
            LET sent == Names[id] # NoDevice /\ \E k \in DOMAIN tokens : tokens[k] = fcm[Names[id]]
            IN  /\ id \notin missing \cup noToken => sent
                /\ id \in noToken => Names[id] # NoDevice /\ ~sent /\ id \notin missing

\* Chunking neither skips nor repeats: when the request is answered every token was
\* handed to FCM exactly once, although batches failed in between.
EachTokenOnce ==
    pc = "done" => \A k \in DOMAIN tokens : pushed[tokens[k]] = "once"

\* The counts of the answer add up to the tokens sent to, and the successes are those
\* FCM confirmed.
CountsAddUp ==
    pc = "done" =>
        /\ success + failure = Total
        /\ success = Cardinality({k \in DOMAIN tokens : verdict[tokens[k]] = "ok"})

\* The tokens reported as dead, "safe to prune", are those FCM called dead, and no others,
\* in whichever chunk they were.
OnlyDeadArePruned ==
    pc = "done" => invalid = {t \in Token : verdict[t] = "dead"}

-----------------------------------------------------------------------------
(* The abstract specification this one implements                          *)

Phase == CASE pc \in {"idle", "resolve"} -> "open"
           [] pc = "send" -> "sending"
           [] pc = "done" -> "answered"
           [] pc = "rejected" -> "refused"

\* The tokens beyond the offset.
Todo == {tokens[k] : k \in {j \in DOMAIN tokens : j > offset}}

Promise == INSTANCE Multicast WITH phase <- Phase, todo <- Todo

\* Seen without its chunks, a request settles each of its tokens once, as a success or
\* as a failure, a dead one among the failures, and answers when none is left.
PromiseKept == Promise!Spec

=============================================================================
