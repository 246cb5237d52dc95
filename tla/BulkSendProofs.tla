--------------------------- MODULE BulkSendProofs ---------------------------
(* Proofs about BulkSend, for any ids, devices, tokens and chunk size. *)
EXTENDS BulkSend, FiniteSetTheorems, TLAPS

\* The positions that were handed to FCM.
Handed == {k \in DOMAIN tokens : k <= offset}

Good == {k \in DOMAIN tokens : verdict[tokens[k]] = "ok"}

\* What the loop has done when it stands at offset; before the loop that is nothing.
LoopInv ==
    /\ pc \in {"idle", "resolve"} => offset = 0 /\ tokens = << >>
    /\ pc = "done" => ~More
    /\ \A t \in Token : pushed[t] = IF \E k \in Handed : tokens[k] = t THEN "once" ELSE "never"
    /\ \A t \in Token : verdict[t] # "none" => \E k \in Handed : tokens[k] = t
    /\ success = Cardinality(Good)
    /\ success + failure = Cardinality(Handed)
    /\ invalid = {t \in Token : verdict[t] = "dead"}

\* Each id is sorted by what the registry answered for it.
SortedInv ==
    /\ missing = {id \in asked : pc \in {"send", "done"} /\ ~Found(id)}
    /\ noToken = {id \in asked : pc \in {"send", "done"} /\ Found(id) /\ fcm[Names[id]] = NoToken}
    /\ pc \in {"send", "done"} =>
          {tokens[k] : k \in DOMAIN tokens}
              = {fcm[Names[id]] : id \in {i \in asked : Found(i)}} \ {NoToken}

IInv == TypeOK /\ Total \in Nat /\ LoopInv /\ SortedInv

-----------------------------------------------------------------------------

\* A list that is typed has finitely many positions, numbered from one.
LEMMA ListDomain ==
  ASSUME NEW n \in Nat, NEW s \in Injection(1..n, Token)
  PROVE  /\ DOMAIN s = 1..n
         /\ IsFiniteSet(DOMAIN s)
         /\ Cardinality(DOMAIN s) = n
         /\ \A k \in 1..n : s[k] \in Token
         /\ \A j, k \in 1..n : s[j] = s[k] => j = k
<1>1. s \in [1..n -> Token] /\ IsInjective(s)
  BY DEF Injection
<1>2. DOMAIN s = 1..n
  BY <1>1
<1>3. IsFiniteSet(1..n) /\ Cardinality(1..n) = n
  BY FS_Interval
<1>4. \A j, k \in 1..n : s[j] = s[k] => j = k
  BY <1>1, <1>2 DEF IsInjective
<1>. QED
  BY <1>1, <1>2, <1>3, <1>4

\* The same of the list of a state of the specification.
LEMMA TokensDomain ==
  ASSUME TypeOK, Total \in Nat
  PROVE  /\ DOMAIN tokens = 1..Total
         /\ IsFiniteSet(DOMAIN tokens)
         /\ \A k \in DOMAIN tokens : tokens[k] \in Token
         /\ \A j, k \in DOMAIN tokens : tokens[j] = tokens[k] => j = k
  BY ListDomain DEF TypeOK

\* Disjoint finite sets of positions are counted one after the other.
LEMMA CountDisjoint ==
  ASSUME NEW S, NEW T, IsFiniteSet(S), IsFiniteSet(T), S \cap T = {}
  PROVE  Cardinality(S \cup T) = Cardinality(S) + Cardinality(T)
<1>1. Cardinality(S) \in Nat /\ Cardinality(T) \in Nat
  BY FS_CardinalityType
<1>2. Cardinality(S \cap T) = 0
  BY FS_EmptySet
<1>3. Cardinality(S \cup T) = Cardinality(S) + Cardinality(T) - Cardinality(S \cap T)
  BY FS_Union
<1>. QED
  BY <1>1, <1>2, <1>3

\* The tokens resolved for a request are finitely many.
LEMMA ResolvedFinite ==
  ASSUME TypeOK
  PROVE  LET S == {fcm[Names[id]] : id \in {i \in asked : Found(i)}} \ {NoToken}
         IN  Cardinality(S) \in Nat /\ S \subseteq Token
<1>. DEFINE F == {i \in asked : Found(i)}
            R == {fcm[Names[id]] : id \in F}
            f == [id \in F |-> fcm[Names[id]]]
<1>1. IsFiniteSet(F)
  BY BulkAssumption, FS_Subset DEF TypeOK
<1>2. f \in Surjection(F, R)
  BY DEF Surjection
<1>3. IsFiniteSet(R)
  <2>. HIDE DEF F, R, f
  <2>. QED  BY <1>1, <1>2, FS_Surjection
<1>4. IsFiniteSet(R \ {NoToken})
  <2>. HIDE DEF R
  <2>. QED  BY <1>3, FS_Difference
<1>5. Cardinality(R \ {NoToken}) \in Nat
  <2>. HIDE DEF R
  <2>. QED  BY <1>4, FS_CardinalityType
<1>6. \A id \in F : fcm[Names[id]] \in Token \cup {NoToken}
  BY BulkAssumption DEF TypeOK, Found
<1>. QED
  BY <1>5, <1>6

-----------------------------------------------------------------------------

LEMMA InitInv ==
  Init => IInv
<1>. SUFFICES ASSUME Init PROVE IInv
  OBVIOUS
<1>1. << >> \in Injection(1..0, Token) /\ DOMAIN << >> = {} /\ Cardinality({}) = 0
  BY FS_EmptySet DEF Injection, IsInjective
<1>2. Total = 0
  BY <1>1 DEF Init, Total
<1>3. TypeOK
  BY <1>1, <1>2 DEF Init, TypeOK
<1>4. Handed = {} /\ Good = {}
  BY <1>1 DEF Init, Handed, Good
<1>5. LoopInv
  BY <1>1, <1>4 DEF Init, LoopInv
<1>6. SortedInv
  BY DEF Init, SortedInv
<1>. QED
  BY <1>2, <1>3, <1>5, <1>6 DEF IInv

\* Accepting or refusing a request.
LEMMA RequestInv ==
  ASSUME IInv, NEW ids \in SUBSET Id, NEW wellFormed \in BOOLEAN, Request(ids, wellFormed)
  PROVE  IInv'
<1>. USE DEF IInv, Request, resolution, counts
<1>0. missing = {} /\ noToken = {}
  BY DEF SortedInv
<1>1. Total' = Total /\ Handed' = Handed /\ Good' = Good
  BY DEF Total, Handed, Good
<1>2. TypeOK'
  BY <1>0, <1>1 DEF TypeOK
<1>3. LoopInv'
  BY <1>1 DEF LoopInv
<1>4. SortedInv'
  BY <1>0 DEF SortedInv
<1>. QED
  BY <1>1, <1>2, <1>3, <1>4

\* The registry answers: the list of tokens has no repetition, and nothing is sent yet.
LEMMA ResolveInv ==
  ASSUME IInv, Resolve
  PROVE  IInv'
<1>. DEFINE S == {fcm[Names[id]] : id \in {i \in asked : Found(i)}} \ {NoToken}
            n == Cardinality(S)
<1>1. n \in Nat /\ S \subseteq Token
  BY ResolvedFinite DEF IInv
<1>2. tokens' \in Bijection(1..n, S)
  BY DEF Resolve, Listings
<1>3. tokens' \in Injection(1..n, Token)
  BY <1>1, <1>2 DEF Bijection, Injection
<1>4. DOMAIN tokens' = 1..n /\ Cardinality(DOMAIN tokens') = n
  BY <1>1, <1>3, ListDomain
<1>5. Total' = n
  BY <1>4 DEF Total
<1>6. TypeOK'
  BY <1>3, <1>5 DEF IInv, TypeOK, Resolve, counts
<1>7. Handed = {} /\ Handed' = {} /\ offset = 0 /\ offset' = 0
  BY <1>4 DEF IInv, LoopInv, Resolve, counts, Handed
<1>8. \A t \in Token : verdict[t] = "none"
  BY <1>7 DEF IInv, LoopInv
<1>9. Good = {}
  BY <1>7 DEF IInv, LoopInv, Resolve, Good
<1>10. Good' = {}
  BY <1>3, <1>4, <1>8, ListDomain, <1>1 DEF Good, Resolve, counts
<1>11. LoopInv'
  BY <1>7, <1>8, <1>9, <1>10 DEF IInv, LoopInv, Resolve, counts
<1>12. {tokens'[k] : k \in DOMAIN tokens'} = S
  BY <1>2, <1>4 DEF Bijection, Surjection, Injection
<1>13. SortedInv'
  BY <1>12 DEF SortedInv, Resolve, Found
<1>. QED
  BY <1>1, <1>5, <1>6, <1>11, <1>13 DEF IInv

\* The request ends, with or without an answer.
LEMMA EndInv ==
  ASSUME IInv, ResolveFails \/ Answer
  PROVE  IInv'
<1>. USE DEF IInv, resolution, counts
<1>0. Total' = Total /\ Handed' = Handed /\ Good' = Good
  BY DEF ResolveFails, Answer, Total, Handed, Good
<1>1. TypeOK'
  BY <1>0 DEF TypeOK, ResolveFails, Answer
<1>2. LoopInv'
  BY <1>0 DEF LoopInv, ResolveFails, Answer, More, Total
<1>3. SortedInv'
  BY DEF SortedInv, ResolveFails, Answer, Found
<1>. QED
  BY <1>0, <1>1, <1>2, <1>3

-----------------------------------------------------------------------------

\* One batch is handed over: it is not empty, was not handed over before, and is all
\* that is new below the next offset.
LEMMA HandOverFacts ==
  ASSUME IInv, HandOver, offset' = offset + Chunk
  PROVE  /\ Total' = Total
         /\ Batch \subseteq DOMAIN tokens
         /\ IsFiniteSet(Batch) /\ IsFiniteSet(Handed)
         /\ Handed \cap Batch = {}
         /\ Handed' = Handed \cup Batch
         /\ \A t \in Token : pushed'[t] = IF \E k \in Handed' : tokens[k] = t THEN "once" ELSE "never"
         /\ pushed' \in [Token -> {"never", "once"}]
<1>. USE BulkAssumption DEF IInv
<1>1. /\ DOMAIN tokens = 1..Total
      /\ IsFiniteSet(DOMAIN tokens)
      /\ \A j, k \in DOMAIN tokens : tokens[j] = tokens[k] => j = k
  BY TokensDomain
<1>2. tokens' = tokens
  BY DEF HandOver, resolution
<1>3. IsFiniteSet(Batch) /\ IsFiniteSet(Handed)
  BY <1>1, FS_Subset DEF Batch, Handed
<1>4. offset \in Nat
  BY DEF TypeOK
<1>5. Handed \cap Batch = {}
  BY <1>1, <1>4 DEF Batch, Handed
<1>6. Handed' = Handed \cup Batch
  BY <1>1, <1>2, <1>4 DEF Batch, Handed
<1>7. ASSUME NEW t \in Token
      PROVE  pushed'[t] = IF \E k \in Handed' : tokens[k] = t THEN "once" ELSE "never"
  <2>1. pushed'[t] = IF \E k \in Batch : tokens[k] = t THEN Again(pushed[t]) ELSE pushed[t]
    BY DEF HandOver
  <2>2. CASE \E k \in Batch : tokens[k] = t
    <3>1. ~ \E k \in Handed : tokens[k] = t
      BY <1>1, <1>5, <2>2 DEF Batch, Handed
    <3>2. pushed[t] = "never"
      BY <3>1 DEF LoopInv
    <3>. QED
      BY <1>6, <2>1, <2>2, <3>2 DEF Again
  <2>3. CASE ~ \E k \in Batch : tokens[k] = t
    BY <1>6, <2>1, <2>3 DEF LoopInv
  <2>. QED
    BY <2>2, <2>3
<1>8. pushed' \in [Token -> {"never", "once"}]
  BY <1>7 DEF HandOver
<1>. QED
  BY <1>1, <1>2, <1>3, <1>5, <1>6, <1>7, <1>8 DEF Total, Batch

\* FCM answers for a batch: the counts grow by what it says of each of its tokens.
LEMMA SendBatchInv ==
  ASSUME IInv, SendBatch
  PROVE  IInv'
<1>. USE DEF IInv
<1>1. HandOver /\ offset' = offset + Chunk
  BY DEF SendBatch
<1>2. PICK answer \in [Batch -> Verdict] :
        /\ success' = success + Cardinality({k \in Batch : answer[k] = "ok"})
        /\ failure' = failure + Cardinality(Batch \ {k \in Batch : answer[k] = "ok"})
        /\ invalid' = invalid \cup Rejected(answer)
        /\ verdict' = [t \in Token |->
              IF \E k \in Batch : tokens[k] = t
              THEN answer[CHOOSE k \in Batch : tokens[k] = t] ELSE verdict[t]]
  BY DEF SendBatch
<1>. DEFINE good == {k \in Batch : answer[k] = "ok"}
            bad == Batch \ good
<1>3. /\ Total' = Total
      /\ Batch \subseteq DOMAIN tokens
      /\ IsFiniteSet(Batch) /\ IsFiniteSet(Handed)
      /\ Handed \cap Batch = {}
      /\ Handed' = Handed \cup Batch
      /\ \A t \in Token : pushed'[t] = IF \E k \in Handed' : tokens[k] = t THEN "once" ELSE "never"
      /\ pushed' \in [Token -> {"never", "once"}]
  BY <1>1, HandOverFacts
<1>4. /\ DOMAIN tokens = 1..Total
      /\ IsFiniteSet(DOMAIN tokens)
      /\ \A k \in DOMAIN tokens : tokens[k] \in Token
      /\ \A j, k \in DOMAIN tokens : tokens[j] = tokens[k] => j = k
  BY TokensDomain
<1>5. /\ pc = "send" /\ pc' = "send" /\ tokens' = tokens
      /\ UNCHANGED <<fcm, asked, missing, noToken>>
  BY <1>1 DEF HandOver, resolution
<1>6. \A k \in Batch : verdict'[tokens[k]] = answer[k]
  <2>. TAKE k \in Batch
  <2>1. tokens[k] \in Token /\ (CHOOSE j \in Batch : tokens[j] = tokens[k]) = k
    BY <1>3, <1>4
  <2>. QED
    BY <1>2, <2>1
<1>7. \A t \in Token : (~ \E k \in Batch : tokens[k] = t) => verdict'[t] = verdict[t]
  BY <1>2
<1>8. \A k \in DOMAIN tokens \ Batch : verdict'[tokens[k]] = verdict[tokens[k]]
  BY <1>3, <1>4, <1>7
<1>9. verdict' \in [Token -> Verdict \cup {"none"}]
  BY <1>2, <1>3, <1>4, <1>6, <1>7 DEF TypeOK
<1>10. /\ IsFiniteSet(good) /\ IsFiniteSet(bad)
       /\ Cardinality(good) \in Nat /\ Cardinality(bad) \in Nat
  <2>1. good \in SUBSET Batch /\ bad \in SUBSET Batch
    OBVIOUS
  <2>. HIDE DEF good, bad
  <2>. QED
    BY <1>3, <2>1, FS_Subset, FS_CardinalityType
<1>11. TypeOK'
  <2>1. success' \in Nat /\ failure' \in Nat /\ offset' \in Nat
    BY <1>1, <1>2, <1>10, BulkAssumption DEF TypeOK
  <2>2. invalid' \subseteq Token
    BY <1>2, <1>3, <1>4 DEF TypeOK, Rejected
  <2>. QED
    BY <1>3, <1>5, <1>9, <2>1, <2>2 DEF TypeOK
<1>12. success' = Cardinality(Good')
  <2>1. \A k \in Batch : verdict[tokens[k]] = "none"
    BY <1>3, <1>4 DEF LoopInv, Handed
  <2>2. Good \cap good = {}
    BY <2>1 DEF Good
  <2>3. Good' = Good \cup good
    BY <1>3, <1>5, <1>6, <1>8, <2>1 DEF Good
  <2>4. IsFiniteSet(Good)
    BY <1>4, FS_Subset DEF Good
  <2>5. Cardinality(Good \cup good) = Cardinality(Good) + Cardinality(good)
    BY <1>10, <2>2, <2>4, CountDisjoint
  <2>. QED
    BY <1>2, <2>3, <2>5 DEF LoopInv
<1>13. success' + failure' = Cardinality(Handed')
  <2>1. Batch = good \cup bad /\ good \cap bad = {}
    OBVIOUS
  <2>2. Cardinality(Batch) = Cardinality(good) + Cardinality(bad)
    <3>. HIDE DEF good, bad
    <3>. QED
      BY <1>10, <2>1, CountDisjoint
  <2>3. Cardinality(Handed') = Cardinality(Handed) + Cardinality(Batch)
    BY <1>3, CountDisjoint
  <2>. QED
    BY <1>2, <1>10, <2>2, <2>3 DEF LoopInv, TypeOK
<1>14. invalid' = {t \in Token : verdict'[t] = "dead"}
  <2>1. \A t \in Token : verdict'[t] = "dead" <=> (verdict[t] = "dead" \/ t \in Rejected(answer))
    <3>. TAKE t \in Token
    <3>1. CASE \E k \in Batch : tokens[k] = t
      <4>1. PICK k \in Batch : tokens[k] = t
        BY <3>1
      <4>2. verdict[t] = "none"
        BY <1>3, <1>4, <4>1 DEF LoopInv, Handed
      <4>3. t \in Rejected(answer) <=> answer[k] = "dead"
        BY <1>3, <1>4, <4>1 DEF Rejected
      <4>. QED
        BY <1>6, <4>1, <4>2, <4>3
    <3>2. CASE ~ \E k \in Batch : tokens[k] = t
      BY <1>7, <3>2 DEF Rejected
    <3>. QED
      BY <3>1, <3>2
  <2>. QED
    BY <1>2, <1>3, <1>4, <2>1 DEF LoopInv, Rejected
<1>15. \A t \in Token : verdict'[t] # "none" => \E k \in Handed' : tokens[k] = t
  BY <1>3, <1>7 DEF LoopInv
<1>16. LoopInv'
  BY <1>3, <1>5, <1>12, <1>13, <1>14, <1>15 DEF LoopInv
<1>17. SortedInv'
  BY <1>5 DEF SortedInv, Found
<1>. QED
  BY <1>3, <1>11, <1>16, <1>17

\* A batch fails as a whole and counts as failures.
LEMMA BatchFailsInv ==
  ASSUME IInv, BatchFails
  PROVE  IInv'
<1>. USE DEF IInv
<1>1. /\ HandOver /\ offset' = offset + Chunk
      /\ failure' = failure + Cardinality(Batch)
      /\ UNCHANGED <<success, invalid, verdict>>
  BY DEF BatchFails
<1>2. /\ Total' = Total
      /\ IsFiniteSet(Batch) /\ IsFiniteSet(Handed)
      /\ Handed \cap Batch = {}
      /\ Handed' = Handed \cup Batch
      /\ \A t \in Token : pushed'[t] = IF \E k \in Handed' : tokens[k] = t THEN "once" ELSE "never"
      /\ pushed' \in [Token -> {"never", "once"}]
  BY <1>1, HandOverFacts
<1>3. /\ pc = "send" /\ pc' = "send" /\ tokens' = tokens
      /\ UNCHANGED <<fcm, asked, missing, noToken>>
  BY <1>1 DEF HandOver, resolution
<1>4. Cardinality(Batch) \in Nat
  BY <1>2, FS_CardinalityType
<1>5. TypeOK'
  BY <1>1, <1>2, <1>3, <1>4, BulkAssumption DEF TypeOK
<1>6. Good' = Good
  BY <1>1, <1>3 DEF Good
<1>7. success' + failure' = Cardinality(Handed')
  <2>1. Cardinality(Handed') = Cardinality(Handed) + Cardinality(Batch)
    BY <1>2, CountDisjoint
  <2>. QED
    BY <1>1, <1>4, <2>1 DEF LoopInv, TypeOK
<1>8. LoopInv'
  BY <1>1, <1>2, <1>3, <1>6, <1>7 DEF LoopInv
<1>9. SortedInv'
  BY <1>3 DEF SortedInv, Found
<1>. QED
  BY <1>2, <1>5, <1>8, <1>9

-----------------------------------------------------------------------------

LEMMA NextInv ==
  IInv /\ [Next]_vars => IInv'
<1>. SUFFICES ASSUME IInv, [Next]_vars PROVE IInv'
  OBVIOUS
<1>1. ASSUME NEW ids \in SUBSET Id, NEW wellFormed \in BOOLEAN, Request(ids, wellFormed)
      PROVE  IInv'
  BY <1>1, RequestInv
<1>2. CASE Resolve
  BY <1>2, ResolveInv
<1>3. CASE ResolveFails \/ Answer
  BY <1>3, EndInv
<1>4. CASE SendBatch
  BY <1>4, SendBatchInv
<1>5. CASE BatchFails
  BY <1>5, BatchFailsInv
<1>6. CASE UNCHANGED vars
  <2>. USE <1>6 DEF vars, resolution, counts, IInv
  <2>1. Total' = Total /\ Handed' = Handed /\ Good' = Good /\ (More' <=> More)
    BY DEF Total, Handed, Good, More
  <2>2. TypeOK'
    BY <2>1 DEF TypeOK
  <2>3. LoopInv'
    BY <2>1 DEF LoopInv
  <2>4. SortedInv'
    BY DEF SortedInv, Found
  <2>. QED
    BY <2>1, <2>2, <2>3, <2>4
<1>. QED
  BY <1>1, <1>2, <1>3, <1>4, <1>5, <1>6 DEF Next

\* The inductive invariant holds in every state.
THEOREM Invariance ==
  Spec => []IInv
  BY InitInv, NextInv, PTL DEF Spec

\* Every variable stays in its range, and no token is handed to FCM twice.
THEOREM TypeCorrect ==
  Spec => []TypeOK
<1>1. IInv => TypeOK
  BY DEF IInv
<1>. QED
  BY <1>1, Invariance, PTL

\* When the request is answered, every position was handed over.
LEMMA AllHanded ==
  ASSUME IInv, pc = "done"
  PROVE  Handed = DOMAIN tokens
<1>1. DOMAIN tokens = 1..Total /\ Total \in Nat /\ offset \in Nat /\ ~(offset < Total)
  BY TokensDomain DEF IInv, LoopInv, TypeOK, More
<1>. QED
  BY <1>1 DEF Handed

\* sendMulticast: chunking neither skips nor repeats a token, whatever the chunk size.
THEOREM TokensOnce ==
  Spec => []EachTokenOnce
<1>1. ASSUME IInv, pc = "done", NEW k \in DOMAIN tokens
      PROVE  pushed[tokens[k]] = "once"
  <2>1. tokens[k] \in Token
    BY <1>1, TokensDomain DEF IInv
  <2>. QED
    BY <1>1, <2>1, AllHanded DEF IInv, LoopInv
<1>2. IInv => EachTokenOnce
  BY <1>1 DEF EachTokenOnce
<1>. QED
  BY <1>2, Invariance, PTL

\* sendMulticast: successCount and failureCount add up to the tokens resolved.
THEOREM Counts ==
  Spec => []CountsAddUp
<1>1. ASSUME IInv, pc = "done"
      PROVE  success + failure = Total /\ success = Cardinality(Good)
  BY <1>1, AllHanded DEF IInv, LoopInv, Total
<1>2. IInv => CountsAddUp
  BY <1>1 DEF CountsAddUp, Good
<1>. QED
  BY <1>2, Invariance, PTL

\* sendMulticast: invalidTokens lists the tokens FCM called dead, in whichever chunk.
THEOREM PrunedAreDead ==
  Spec => []OnlyDeadArePruned
<1>1. IInv => OnlyDeadArePruned
  BY DEF IInv, LoopInv, OnlyDeadArePruned
<1>. QED
  BY <1>1, Invariance, PTL

\* resolveTokens: an id that is not reported missing or without a token is sent to, and
\* one that is reported without a token is not.
THEOREM Gaps ==
  Spec => []GapsReported
<1>1. ASSUME IInv, pc \in {"send", "done"}, NEW id \in asked
      PROVE  LET sent == Names[id] # NoDevice /\ \E k \in DOMAIN tokens : tokens[k] = fcm[Names[id]]
             IN  /\ id \notin missing \cup noToken => sent
                 /\ id \in noToken => Names[id] # NoDevice /\ ~sent /\ id \notin missing
  BY <1>1 DEF IInv, SortedInv, Found
<1>2. IInv => GapsReported
  BY <1>1 DEF GapsReported
<1>. QED
  BY <1>2, Invariance, PTL

-----------------------------------------------------------------------------
(* The refinement of Multicast *)

\* The tokens at some positions of the list.
TokensAt(S) == {tokens[k] : k \in S}

\* No token stands at two positions, so there are as many tokens as positions.
LEMMA TokensAtCount ==
  ASSUME TypeOK, Total \in Nat, NEW S \in SUBSET DOMAIN tokens
  PROVE  Cardinality(TokensAt(S)) = Cardinality(S)
<1>. DEFINE f == [k \in S |-> tokens[k]]
<1>1. IsFiniteSet(DOMAIN tokens) /\ \A j, k \in DOMAIN tokens : tokens[j] = tokens[k] => j = k
  BY TokensDomain
<1>2. f \in Bijection(S, TokensAt(S))
  BY <1>1 DEF TokensAt, Bijection, Injection, IsInjective, Surjection
<1>3. IsFiniteSet(S)
  BY <1>1, FS_Subset
<1>. QED
  BY <1>2, <1>3, FS_Bijection DEF ExistsBijection

\* Multicast counts as this module does.
LEMMA SameCount == \A S : Promise!Cardinality(S) = Cardinality(S)
  BY DEF Promise!Cardinality, Cardinality

\* What one batch does to the tokens still to do, whatever FCM answers for its positions.
LEMMA BatchSettles ==
  ASSUME IInv, HandOver, offset' = offset + Chunk,
         NEW good \in SUBSET Batch, NEW dead \in SUBSET (Batch \ good)
  PROVE  LET G == TokensAt(good)
             B == TokensAt(Batch \ good)
         IN  /\ G \subseteq Todo
             /\ B \subseteq Todo \ G
             /\ TokensAt(dead) \subseteq B
             /\ G \cup B # {}
             /\ Todo' = Todo \ (G \cup B)
             /\ Cardinality(G) = Cardinality(good)
             /\ Cardinality(B) = Cardinality(Batch \ good)
<1>. USE BulkAssumption DEF IInv
<1>1. /\ DOMAIN tokens = 1..Total
      /\ \A j, k \in DOMAIN tokens : tokens[j] = tokens[k] => j = k
  BY TokensDomain
<1>2. tokens' = tokens /\ offset \in Nat /\ offset < Total /\ Total \in Nat /\ Chunk \in Nat \ {0}
  BY DEF HandOver, resolution, TypeOK, More
<1>3. Batch \subseteq {k \in DOMAIN tokens : k > offset}
  BY <1>1, <1>2 DEF Batch
<1>4. offset + 1 \in Batch
  BY <1>1, <1>2 DEF Batch
<1>5. {k \in DOMAIN tokens' : k > offset'} = {k \in DOMAIN tokens : k > offset} \ Batch
  BY <1>1, <1>2 DEF Batch
<1>6. Todo' = Todo \ TokensAt(Batch)
  BY <1>1, <1>2, <1>3, <1>5 DEF Todo, TokensAt
<1>7. TokensAt(Batch) = TokensAt(good) \cup TokensAt(Batch \ good)
  BY DEF TokensAt
<1>8. TokensAt(Batch) \subseteq Todo /\ TokensAt(Batch) # {}
  BY <1>3, <1>4 DEF Todo, TokensAt
<1>9. TokensAt(good) \cap TokensAt(Batch \ good) = {}
  BY <1>1, <1>3 DEF TokensAt
<1>10. TokensAt(dead) \subseteq TokensAt(Batch \ good)
  BY DEF TokensAt
<1>11. good \in SUBSET DOMAIN tokens /\ Batch \ good \in SUBSET DOMAIN tokens
  BY <1>3
<1>12. /\ Cardinality(TokensAt(good)) = Cardinality(good)
       /\ Cardinality(TokensAt(Batch \ good)) = Cardinality(Batch \ good)
  BY <1>11, TokensAtCount
<1>. QED
  BY <1>6, <1>7, <1>8, <1>9, <1>10, <1>12

LEMMA SendBatchSettles ==
  ASSUME IInv, SendBatch
  PROVE  Promise!Next
<1>1. HandOver /\ offset' = offset + Chunk
  BY DEF SendBatch
<1>2. PICK answer \in [Batch -> Verdict] :
        /\ success' = success + Cardinality({k \in Batch : answer[k] = "ok"})
        /\ failure' = failure + Cardinality(Batch \ {k \in Batch : answer[k] = "ok"})
        /\ invalid' = invalid \cup Rejected(answer)
  BY DEF SendBatch
<1>. DEFINE good == {k \in Batch : answer[k] = "ok"}
            dead == {k \in Batch : answer[k] = "dead"}
            G == TokensAt(good)
            B == TokensAt(Batch \ good)
<1>3. good \in SUBSET Batch /\ dead \in SUBSET (Batch \ good)
  OBVIOUS
<1>4. /\ G \in SUBSET Todo
      /\ B \in SUBSET (Todo \ G)
      /\ TokensAt(dead) \in SUBSET B
      /\ G \cup B # {}
      /\ Todo' = Todo \ (G \cup B)
      /\ Cardinality(G) = Cardinality(good)
      /\ Cardinality(B) = Cardinality(Batch \ good)
  <2>. HIDE DEF good, dead
  <2>. QED
    BY <1>1, <1>3, BatchSettles
<1>5. invalid' = invalid \cup TokensAt(dead)
  BY <1>2 DEF Rejected, TokensAt
<1>6. Phase = "sending" /\ Phase' = Phase
  BY <1>1 DEF HandOver, Phase
<1>7. Promise!Settle(G, B, TokensAt(dead))
  BY <1>2, <1>4, <1>5, <1>6, SameCount DEF Promise!Settle
<1>. HIDE DEF G, B, dead
<1>. QED
  BY <1>4, <1>7 DEF Promise!Next

LEMMA BatchFailsSettles ==
  ASSUME IInv, BatchFails
  PROVE  Promise!Next
<1>1. HandOver /\ offset' = offset + Chunk
  BY DEF BatchFails
<1>. DEFINE B == TokensAt(Batch)
<1>2. /\ {} \in SUBSET Todo
      /\ B \in SUBSET (Todo \ {})
      /\ B # {}
      /\ Todo' = Todo \ B
      /\ Cardinality(B) = Cardinality(Batch)
  <2>1. TokensAt({}) = {} /\ Batch \ {} = Batch /\ {} \in SUBSET Batch
    BY DEF TokensAt
  <2>2. LET G == TokensAt({})
            C == TokensAt(Batch \ {})
        IN  /\ C \subseteq Todo \ G
            /\ G \cup C # {}
            /\ Todo' = Todo \ (G \cup C)
            /\ Cardinality(C) = Cardinality(Batch \ {})
    BY <1>1, <2>1, BatchSettles
  <2>. QED
    BY <2>1, <2>2
<1>3. Cardinality({}) = 0 /\ success \in Nat
  BY FS_EmptySet DEF IInv, TypeOK
<1>4. Phase = "sending" /\ Phase' = Phase
  BY <1>1 DEF HandOver, Phase
<1>5. Promise!Settle({}, B, {})
  BY <1>2, <1>3, <1>4, SameCount DEF Promise!Settle, BatchFails
<1>. QED
  BY <1>2, <1>5 DEF Promise!Next

LEMMA StepRefines ==
  ASSUME IInv, [Next]_vars
  PROVE  Promise!Next \/ UNCHANGED <<Phase, Todo, success, failure, invalid>>
<1>1. ASSUME NEW ids \in SUBSET Id, NEW wellFormed \in BOOLEAN, Request(ids, wellFormed)
      PROVE  Promise!Next \/ UNCHANGED <<Phase, Todo, success, failure, invalid>>
  <2>1. Todo' = Todo /\ UNCHANGED <<success, failure, invalid>>
    BY <1>1 DEF Request, resolution, counts, Todo
  <2>2. Phase = "open" /\ Phase' \in {"open", "refused"}
    BY <1>1 DEF Request, Phase
  <2>. QED
    BY <2>1, <2>2 DEF Promise!Refuse, Promise!Next
<1>2. CASE Resolve
  <2>. DEFINE S == {fcm[Names[id]] : id \in {i \in asked : Found(i)}} \ {NoToken}
              n == Cardinality(S)
  <2>1. n \in Nat /\ S \subseteq Token
    BY ResolvedFinite DEF IInv
  <2>2. tokens' \in Bijection(1..n, S)
    BY <1>2 DEF Resolve, Listings
  <2>3. offset' = 0
    BY <1>2 DEF IInv, LoopInv, Resolve, counts
  <2>4. Todo' = S
    <3>1. DOMAIN tokens' = 1..n /\ \A k \in DOMAIN tokens' : k > offset' /\ tokens'[k] \in S
      BY <2>1, <2>2, <2>3 DEF Bijection, Injection
    <3>2. \A t \in S : \E k \in DOMAIN tokens' : tokens'[k] = t
      BY <2>2, <3>1 DEF Bijection, Surjection
    <3>. HIDE DEF S, n
    <3>. QED
      BY <3>1, <3>2 DEF Todo
  <2>5. Phase = "open" /\ Phase' = "sending" /\ UNCHANGED <<success, failure, invalid>>
    BY <1>2 DEF Resolve, Phase, counts
  <2>6. Promise!Begin(S)
    BY <2>4, <2>5 DEF Promise!Begin
  <2>. HIDE DEF S
  <2>. QED
    BY <2>1, <2>6 DEF Promise!Next
<1>3. CASE ResolveFails
  <2>1. Phase = "open" /\ Phase' = "refused" /\ Todo' = Todo
    BY <1>3 DEF ResolveFails, resolution, counts, Phase, Todo
  <2>. QED
    BY <1>3, <2>1 DEF ResolveFails, counts, Promise!Refuse, Promise!Next
<1>4. CASE Answer
  <2>1. Todo = {}
    BY <1>4, TokensDomain DEF IInv, Answer, More, TypeOK, Todo
  <2>2. Phase = "sending" /\ Phase' = "answered" /\ Todo' = Todo
    BY <1>4 DEF Answer, resolution, counts, Phase, Todo
  <2>. QED
    BY <1>4, <2>1, <2>2 DEF Answer, counts, Promise!Finish, Promise!Next
<1>5. CASE UNCHANGED vars
  BY <1>5 DEF vars, resolution, counts, Phase, Todo
<1>. QED
  BY <1>1, <1>2, <1>3, <1>4, <1>5, SendBatchSettles, BatchFailsSettles DEF Next

\* sendBulk implements Multicast: whatever the chunk size and whichever batches fail, a
\* request settles each of its tokens once and is answered when none is left.
THEOREM Refinement ==
  Spec => PromiseKept
<1>1. ASSUME Init PROVE Promise!Init
  BY <1>1 DEF Init, Phase, Todo, Promise!Init
<1>2. IInv /\ [Next]_vars => [Promise!Next]_<<Phase, Todo, success, failure, invalid>>
  BY StepRefines
<1>3. IInv /\ [Next]_vars => [Promise!Next]_(Promise!multicastVars)
  BY <1>2 DEF Promise!multicastVars
<1>. QED
  BY <1>1, <1>3, Invariance, PTL DEF Spec, PromiseKept, Promise!Spec

=============================================================================
