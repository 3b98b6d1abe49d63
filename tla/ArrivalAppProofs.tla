-------------------------- MODULE ArrivalAppProofs --------------------------
(* Proofs about ArrivalApp, for every roster, request set and history bound,  *)
(* and about the DossierStore that its ids are looked up in: why the order of *)
(* the files keeps every id with its owner, and why no id is given twice.     *)
EXTENDS ServedRoster, SequenceLemmas

------------------------------------------------------------------------------
(* The two ordered structures: the presence dict and the eviction queue      *)

\* The keys of t are keys of s, in the order they have there.
KeepsOrder(s, t) ==
    \A a, b \in DOMAIN t : a <= b =>
        \E x, y \in DOMAIN s : x <= y /\ t[a] = s[x] /\ t[b] = s[y]

\* Taking out the i-th of a sequence moves the later ones up by one.
LEMMA PopPlaces ==
    ASSUME NEW S, NEW s \in Seq(S), NEW i \in 1 .. Len(s)
    PROVE  /\ RemoveAt(s, i) \in Seq(S)
           /\ Len(RemoveAt(s, i)) = Len(s) - 1
           /\ \A k \in 1 .. Len(RemoveAt(s, i)) :
                RemoveAt(s, i)[k] = IF k < i THEN s[k] ELSE s[k + 1]
<1> DEFINE u == SubSeq(s, 1, i - 1)
           v == SubSeq(s, i + 1, Len(s))
<1>1. /\ u \in Seq(S)
      /\ Len(u) = i - 1
      /\ \A k \in 1 .. Len(u) : u[k] = s[k]
  <2>1. \A k \in 1 .. (i - 1) : s[k] \in S
    OBVIOUS
  <2>2. QED
    BY <2>1, SubSeqProperties
<1>2. /\ v \in Seq(S)
      /\ Len(v) = Len(s) - i
      /\ \A k \in 1 .. Len(v) : v[k] = s[k + i]
  <2>1. \A k \in (i + 1) .. Len(s) : s[k] \in S
    OBVIOUS
  <2>2. /\ v \in Seq(S)
        /\ Len(v) = IF i + 1 <= Len(s) THEN Len(s) - (i + 1) + 1 ELSE 0
        /\ \A k \in 1 .. Len(s) - (i + 1) + 1 : v[k] = s[(i + 1) + k - 1]
    BY <2>1, SubSeqProperties
  <2>3. QED
    BY <2>2
<1>3. RemoveAt(s, i) = u \o v
  BY DEF RemoveAt
<1> HIDE DEF u, v
<1>4. /\ u \o v \in Seq(S)
      /\ Len(u \o v) = Len(u) + Len(v)
      /\ \A k \in 1 .. Len(u) + Len(v) :
           (u \o v)[k] = IF k <= Len(u) THEN u[k] ELSE v[k - Len(u)]
  BY <1>1, <1>2, ConcatProperties
<1>5. QED
  BY <1>1, <1>2, <1>3, <1>4

\* Popping a key from an ordered dict leaves a dict without that key, in its order.
LEMMA WithoutKey ==
    ASSUME NEW S, NEW s \in Seq(S), NEW p, NoRepeat(s)
    PROVE  /\ Without(s, p) \in Seq(S)
           /\ NoRepeat(Without(s, p))
           /\ \A k \in DOMAIN Without(s, p) : Without(s, p)[k] # p
           /\ KeepsOrder(s, Without(s, p))
<1>1. CASE p \notin ToSet(s)
  BY <1>1 DEF Without, ToSet, KeepsOrder
<1>2. CASE p \in ToSet(s)
  <2> DEFINE i == CHOOSE k \in DOMAIN s : s[k] = p
             t == Without(s, p)
  <2>1. i \in 1 .. Len(s) /\ s[i] = p
    BY <1>2 DEF ToSet
  <2>2. t = RemoveAt(s, i)
    BY <1>2 DEF Without
  <2> HIDE DEF i, t
  <2>3. /\ t \in Seq(S)
        /\ Len(t) = Len(s) - 1
        /\ \A k \in 1 .. Len(t) : t[k] = IF k < i THEN s[k] ELSE s[k + 1]
    BY <2>1, <2>2, PopPlaces
  <2>4. NoRepeat(t)
    <3> SUFFICES ASSUME NEW a \in 1 .. Len(t), NEW b \in 1 .. Len(t), t[a] = t[b]
                 PROVE  a = b
      BY <2>3 DEF NoRepeat
    <3> DEFINE idx(k) == IF k < i THEN k ELSE k + 1
    <3>1. t[a] = s[idx(a)] /\ t[b] = s[idx(b)]
      BY <2>3
    <3>2. idx(a) \in DOMAIN s /\ idx(b) \in DOMAIN s
      BY <2>1, <2>3
    <3>3. idx(a) = idx(b)
      BY <3>1, <3>2 DEF NoRepeat
    <3>4. QED
      BY <2>1, <3>3
  <2>5. \A k \in DOMAIN t : t[k] # p
    BY <2>1, <2>3 DEF NoRepeat
  <2>6. KeepsOrder(s, t)
    <3> SUFFICES ASSUME NEW a \in DOMAIN t, NEW b \in DOMAIN t, a <= b
                 PROVE  \E x, y \in DOMAIN s : x <= y /\ t[a] = s[x] /\ t[b] = s[y]
      BY DEF KeepsOrder
    <3> DEFINE idx(k) == IF k < i THEN k ELSE k + 1
    <3>1. t[a] = s[idx(a)] /\ t[b] = s[idx(b)]
      BY <2>3
    <3>2. idx(a) \in DOMAIN s /\ idx(b) \in DOMAIN s /\ idx(a) <= idx(b)
      BY <2>1, <2>3
    <3> HIDE DEF idx
    <3>3. QED
      BY <3>1, <3>2
  <2>7. QED
    BY <2>3, <2>4, <2>5, <2>6 DEF t
<1>3. QED
  BY <1>1, <1>2

\* Popping a key takes away no other key.
LEMMA WithoutKeeps ==
    ASSUME NEW S, NEW s \in Seq(S), NEW p, NEW x \in DOMAIN s, s[x] # p
    PROVE  \E k \in DOMAIN Without(s, p) : Without(s, p)[k] = s[x]
<1>1. CASE p \notin ToSet(s)
  BY <1>1 DEF Without
<1>2. CASE p \in ToSet(s)
  <2> DEFINE i == CHOOSE k \in DOMAIN s : s[k] = p
             t == Without(s, p)
  <2>1. i \in 1 .. Len(s) /\ s[i] = p
    BY <1>2 DEF ToSet
  <2>2. t = RemoveAt(s, i)
    BY <1>2 DEF Without
  <2> HIDE DEF i, t
  <2>3. /\ t \in Seq(S)
        /\ Len(t) = Len(s) - 1
        /\ \A k \in 1 .. Len(t) : t[k] = IF k < i THEN s[k] ELSE s[k + 1]
    BY <2>1, <2>2, PopPlaces
  <2>4. x # i /\ x \in 1 .. Len(s)
    BY <2>1
  <2>5. \E k \in DOMAIN t : t[k] = s[x]
    <3> DEFINE k == IF x < i THEN x ELSE x - 1
    <3>1. k \in 1 .. Len(t) /\ t[k] = s[x]
      BY <2>1, <2>3, <2>4
    <3>2. QED
      BY <2>3, <3>1
  <2>6. QED
    BY <2>5 DEF t
<1>3. QED
  BY <1>1, <1>2

\* Re-inserting a key just popped: the keys stay distinct, the key is last.
LEMMA ArrivalKey ==
    ASSUME NEW S, NEW s \in Seq(S), NEW p \in S, NoRepeat(s)
    PROVE  /\ WithArrival(s, p) \in Seq(S)
           /\ NoRepeat(WithArrival(s, p))
<1>1. /\ Without(s, p) \in Seq(S)
      /\ NoRepeat(Without(s, p))
      /\ \A k \in DOMAIN Without(s, p) : Without(s, p)[k] # p
  BY WithoutKey
<1>2. QED
  BY <1>1 DEF WithArrival, NoRepeat

\* What the eviction loop leaves of the queue: its last DIGEST_HISTORY ids.
LEMMA NewestSuffix ==
    ASSUME NEW S, NEW s \in Seq(S)
    PROVE  LET n == IF Len(s) > DIGEST_HISTORY THEN DIGEST_HISTORY ELSE Len(s)
           IN  /\ Newest(s) \in Seq(S)
               /\ Len(Newest(s)) = n
               /\ \A k \in 1 .. n : Newest(s)[k] = s[Len(s) - n + k]
<1> USE AppAssumption
<1>1. CASE Len(s) > DIGEST_HISTORY
  <2> DEFINE m == Len(s) - DIGEST_HISTORY + 1
  <2>1. m \in Int /\ m \in 1 .. Len(s)
    BY <1>1
  <2>2. \A k \in m .. Len(s) : s[k] \in S
    BY <2>1
  <2>3. /\ SubSeq(s, m, Len(s)) \in Seq(S)
        /\ Len(SubSeq(s, m, Len(s))) = IF m <= Len(s) THEN Len(s) - m + 1 ELSE 0
        /\ \A k \in 1 .. Len(s) - m + 1 : SubSeq(s, m, Len(s))[k] = s[m + k - 1]
    <3> HIDE DEF m
    <3>1. QED
      BY <2>1, <2>2, SubSeqProperties
  <2>4. Newest(s) = SubSeq(s, m, Len(s))
    BY <1>1 DEF Newest
  <2>5. QED
    BY <1>1, <2>1, <2>3, <2>4
<1>2. CASE ~(Len(s) > DIGEST_HISTORY)
  BY <1>2 DEF Newest
<1>3. QED
  BY <1>1, <1>2
------------------------------------------------------------------------------
(* Type correctness                                                          *)

\* What a handler has in its locals by the time it resumes: TypeOK alone does
\* not say that a digest is written with a person and a line.
LocalsSet ==
    \A r \in Request :
        /\ pc[r] \in {"asking", "composing"} => arriver[r] \in Person
        /\ pc[r] = "composing" => opener[r] \in {"model", "template"}

\* Every reachable state is well typed, presence holds nobody twice, and a
\* handler that resumes after its await knows whom it serves.
THEOREM TypeCorrect == Spec => [](TypeOK /\ LocalsSet)
<1> USE AppAssumption
<1>1. Init => TypeOK /\ LocalsSet
  <2> SUFFICES ASSUME Init PROVE TypeOK /\ LocalsSet
    OBVIOUS
  <2> USE DEF Init
  <2>1. PresenceTypeOK
    BY DEF PresenceInit, PresenceTypeOK, NoRepeat
  <2>2. room \in [Request -> SUBSET Person]
    OBVIOUS
  <2>3. /\ digest_order \in Seq(Request)
        /\ arrivals \in Seq([req : Request, person : Person])
        /\ answered \in Seq(Request)
    OBVIOUS
  <2>4. digests \in [Request -> Digest \cup {NoDigest}]
    OBVIOUS
  <2>5. LocalsSet
    BY DEF LocalsSet
  <2>6. QED
    BY <2>1, <2>2, <2>3, <2>4, <2>5 DEF TypeOK
<1>2. TypeOK /\ LocalsSet /\ [Next]_vars => TypeOK' /\ LocalsSet'
  <2> SUFFICES ASSUME TypeOK, LocalsSet, [Next]_vars
               PROVE  TypeOK' /\ LocalsSet'
    OBVIOUS
  <2> USE DEF TypeOK, LocalsSet, PresenceTypeOK, local, table, observers
  <2>1. ASSUME NEW r \in Request, NEW t \in Token, ArriveOffRoster(r, t)
        PROVE  TypeOK' /\ LocalsSet'
    BY <2>1 DEF ArriveOffRoster, NoRepeat
  <2>2. ASSUME NEW r \in Request, NEW t \in Token, Arrive(r, t)
        PROVE  TypeOK' /\ LocalsSet'
    <3>1. Resolve[t] \in Person
      BY <2>2 DEF Arrive
    <3>2. PresenceTypeOK'
      BY <2>2, <3>1, ArrivalKey DEF Arrive, PresenceArrive
    <3>3. room' \in [Request -> SUBSET Person]
      BY <2>2 DEF Arrive, MatchRows
    <3>4. arrivals' \in Seq([req : Request, person : Person])
      BY <2>2, <3>1 DEF Arrive
    <3>5. LocalsSet'
      BY <2>2, <3>1 DEF Arrive
    <3>6. QED
      BY <2>2, <3>1, <3>2, <3>3, <3>4, <3>5 DEF Arrive
  <2>3. ASSUME NEW r \in Request, LlmAnswers(r)
        PROVE  TypeOK' /\ LocalsSet'
    BY <2>3 DEF LlmAnswers, NoRepeat
  <2>4. ASSUME NEW r \in Request, LlmFailsOrTimesOut(r)
        PROVE  TypeOK' /\ LocalsSet'
    BY <2>4 DEF LlmFailsOrTimesOut, NoRepeat
  <2>5. ASSUME NEW r \in Request, Answer(r)
        PROVE  TypeOK' /\ LocalsSet'
    <3>1. [person |-> arriver[r],
           meet |-> CappedMeet(arriver[r], room[r]),
           opener |-> opener[r]] \in Digest
      BY <2>5 DEF Answer, Digest, CappedMeet
    <3>2. digests' \in [Request -> Digest \cup {NoDigest}]
      BY <2>5, <3>1 DEF Answer
    <3>3. digest_order' \in Seq(Request)
      <4>1. Append(digest_order, r) \in Seq(Request)
        OBVIOUS
      <4>2. QED
        BY <2>5, <4>1, NewestSuffix DEF Answer
    <3>4. answered' \in Seq(Request)
      BY <2>5 DEF Answer
    <3>5. pc' \in [Request -> {"new", "notfound", "asking", "composing",
                               "answered", "gone"}]
      BY <2>5 DEF Answer
    <3>6. LocalsSet'
      BY <2>5 DEF Answer
    <3>7. QED
      BY <2>5, <3>2, <3>3, <3>4, <3>5, <3>6 DEF Answer, NoRepeat
  <2>6. ASSUME NEW t \in Token, Leave(t)
        PROVE  TypeOK' /\ LocalsSet'
    BY <2>6, WithoutKey DEF Leave, PresenceLeave
  <2>7. CASE Restart
    <3> USE <2>7 DEF Restart
    <3>1. PresenceTypeOK'
      BY DEF NoRepeat
    <3>2. room' \in [Request -> SUBSET Person]
      OBVIOUS
    <3>3. digests' \in [Request -> Digest \cup {NoDigest}]
      OBVIOUS
    <3>4. /\ digest_order' \in Seq(Request)
          /\ arrivals' \in Seq([req : Request, person : Person])
          /\ answered' \in Seq(Request)
      OBVIOUS
    <3>5. pc' \in [Request -> {"new", "gone"}] /\ LocalsSet'
      OBVIOUS
    <3>6. QED
      BY <3>1, <3>2, <3>3, <3>4, <3>5
  <2>8. CASE UNCHANGED vars
    BY <2>8 DEF vars, NoRepeat
  <2>9. QED
    BY <2>1, <2>2, <2>3, <2>4, <2>5, <2>6, <2>7, <2>8 DEF Next
<1>3. QED
  BY <1>1, <1>2, PTL DEF Spec

------------------------------------------------------------------------------
(* The digest table                                                          *)

\* Only an answered request has its digest queued: this is what keeps a digest
\* about to be remembered from being in the queue already.
QueuedAreAnswered == \A i \in DOMAIN digest_order : pc[digest_order[i]] = "answered"

TableInv == DigestTable /\ QueuedAreAnswered

\* The dict of digests and the eviction queue stay in step, and within the
\* history bound, for every bound and any interleaving of the handlers.
THEOREM DigestTableHolds == Spec => []DigestTable
<1> USE AppAssumption
<1>1. Init => TableInv
  BY DEF Init, TableInv, DigestTable, QueuedAreAnswered, NoRepeat, ToSet
<1>2. TypeOK /\ LocalsSet /\ TableInv /\ [Next]_vars => TableInv'
  <2> SUFFICES ASSUME TypeOK, LocalsSet, TableInv, [Next]_vars
               PROVE  TableInv'
    OBVIOUS
  <2> USE DEF TypeOK, TableInv, local, table, observers
  <2>1. ASSUME UNCHANGED table,
               \A d \in Request : pc[d] = "answered" => pc'[d] = "answered"
        PROVE  TableInv'
    BY <2>1 DEF DigestTable, QueuedAreAnswered, NoRepeat, ToSet
  <2>2. ASSUME NEW r \in Request, Answer(r)
        PROVE  TableInv'
    <3> DEFINE s == Append(digest_order, r)
               n == IF Len(s) > DIGEST_HISTORY THEN DIGEST_HISTORY ELSE Len(s)
               o == digest_order'
    <3>1. /\ s \in Seq(Request)
          /\ Len(s) = Len(digest_order) + 1
          /\ \A k \in 1 .. Len(s) : s[k] = IF k = Len(s) THEN r ELSE digest_order[k]
      OBVIOUS
    <3>2. /\ o \in Seq(Request)
          /\ Len(o) = n
          /\ \A k \in 1 .. n : o[k] = s[Len(s) - n + k]
      BY <2>2, <3>1, NewestSuffix DEF Answer
    <3>3. n \in 1 .. Len(s) /\ n <= DIGEST_HISTORY
      BY <3>1
    <3>4. NoRepeat(s)
      BY <2>2, <3>1 DEF Answer, DigestTable, QueuedAreAnswered, NoRepeat
    <3>5. ToSet(s) = ToSet(digest_order) \cup {r}
      <4>1. DOMAIN s = 1 .. Len(s) /\ DOMAIN digest_order = 1 .. Len(digest_order)
        BY <3>1
      <4>2. s[Len(s)] = r /\ Len(s) \in 1 .. Len(s)
        BY <3>1
      <4>3. \A k \in 1 .. Len(digest_order) : k \in 1 .. Len(s) /\ s[k] = digest_order[k]
        BY <3>1
      <4>4. \A k \in 1 .. Len(s) : s[k] = r \/ k \in 1 .. Len(digest_order)
        BY <3>1
      <4> HIDE DEF s
      <4>5. ToSet(s) \subseteq ToSet(digest_order) \cup {r}
        BY <4>1, <4>3, <4>4 DEF ToSet
      <4>6. ToSet(digest_order) \cup {r} \subseteq ToSet(s)
        <5>1. r \in ToSet(s)
          BY <4>1, <4>2 DEF ToSet
        <5>2. ASSUME NEW x \in ToSet(digest_order) PROVE x \in ToSet(s)
          <6>1. PICK k \in 1 .. Len(digest_order) : x = digest_order[k]
            BY <4>1 DEF ToSet
          <6>2. QED
            BY <4>1, <4>3, <6>1 DEF ToSet
        <5>3. QED
          BY <5>1, <5>2
      <4>7. QED
        BY <4>5, <4>6
    <3>6. DOMAIN o = 1 .. n
      BY <3>2, <3>3
    <3>7. digests' = [d \in Request |->
                        IF d \in ToSet(s) \ ToSet(o) THEN NoDigest
                        ELSE IF d = r
                        THEN [person |-> arriver[r],
                              meet |-> CappedMeet(arriver[r], room[r]),
                              opener |-> opener[r]]
                        ELSE digests[d]]
      BY <2>2 DEF Answer
    <3> HIDE DEF s, o, n
    <3>8. NoRepeat(o)
      <4> SUFFICES ASSUME NEW i \in 1 .. n, NEW j \in 1 .. n, o[i] = o[j]
                   PROVE  i = j
        BY <3>6 DEF NoRepeat
      <4> DEFINE k == Len(s) - n
      <4>1. o[i] = s[k + i] /\ o[j] = s[k + j]
        BY <3>2
      <4>2. k + i \in DOMAIN s /\ k + j \in DOMAIN s
        BY <3>1, <3>3
      <4>3. k + i = k + j
        BY <4>1, <4>2, <3>4 DEF NoRepeat
      <4>4. QED
        BY <3>1, <3>3, <4>3
    <3>9. r \in ToSet(o) /\ ToSet(o) \subseteq ToSet(s)
      <4>1. r = o[n]
        BY <3>1, <3>2, <3>3
      <4>2. \A i \in 1 .. n : \E j \in 1 .. Len(s) : o[i] = s[j]
        <5> TAKE i \in 1 .. n
        <5>1. Len(s) - n + i \in 1 .. Len(s)
          BY <3>1, <3>3
        <5>2. QED
          BY <3>2, <5>1
      <4>3. DOMAIN s = 1 .. Len(s) /\ n \in DOMAIN o
        BY <3>1, <3>3, <3>6
      <4>4. r \in ToSet(o)
        BY <4>1, <4>3 DEF ToSet
      <4>5. ASSUME NEW x \in ToSet(o) PROVE x \in ToSet(s)
        <5>1. PICK i \in 1 .. n : x = o[i]
          BY <3>6 DEF ToSet
        <5>2. PICK j \in 1 .. Len(s) : o[i] = s[j]
          BY <4>2
        <5>3. QED
          BY <4>3, <5>1, <5>2 DEF ToSet
      <4>6. QED
        BY <4>4, <4>5
    <3>10. {d \in Request : digests'[d] # NoDigest} = ToSet(o)
      <4>1. [person |-> arriver[r], meet |-> CappedMeet(arriver[r], room[r]),
             opener |-> opener[r]] # NoDigest
        <5>1. arriver[r] \in Person /\ opener[r] \in {"model", "template"}
          BY <2>2 DEF Answer, LocalsSet
        <5>2. CappedMeet(arriver[r], room[r]) \in SUBSET Person
          BY DEF CappedMeet
        <5>3. QED
          BY <5>1, <5>2 DEF Digest
      <4>2. \A d \in Request : d \in ToSet(digest_order) <=> digests[d] # NoDigest
        BY DEF DigestTable
      <4>3. \A d \in Request : digests'[d] # NoDigest <=> d \in ToSet(o)
        BY <3>5, <3>7, <3>9, <4>1, <4>2
      <4>4. ToSet(o) \subseteq Request
        BY <3>2 DEF ToSet
      <4>5. QED
        BY <4>3, <4>4
    <3>11. \A i \in DOMAIN o : pc'[o[i]] = "answered"
      <4>1. \A x \in ToSet(digest_order) : pc[x] = "answered" /\ x \in Request
        BY DEF QueuedAreAnswered, ToSet
      <4>2. pc' = [pc EXCEPT ![r] = "answered"]
        BY <2>2 DEF Answer
      <4>3. \A x \in ToSet(s) : pc'[x] = "answered"
        BY <3>5, <4>1, <4>2
      <4>4. QED
        BY <3>9, <4>3 DEF ToSet
    <3>12. Len(o) <= DIGEST_HISTORY
      BY <3>2, <3>3
    <3>13. QED
      BY <3>8, <3>10, <3>11, <3>12 DEF DigestTable, QueuedAreAnswered, o
  <2>3. CASE Restart
    BY <2>3 DEF Restart, DigestTable, QueuedAreAnswered, NoRepeat, ToSet
  <2>4. ASSUME NEW r \in Request, NEW t \in Token, ArriveOffRoster(r, t) \/ Arrive(r, t)
        PROVE  TableInv'
    BY <2>1, <2>4 DEF ArriveOffRoster, Arrive
  <2>5. ASSUME NEW r \in Request, LlmAnswers(r) \/ LlmFailsOrTimesOut(r)
        PROVE  TableInv'
    BY <2>1, <2>5 DEF LlmAnswers, LlmFailsOrTimesOut
  <2>6. ASSUME NEW t \in Token, Leave(t)
        PROVE  TableInv'
    BY <2>1, <2>6 DEF Leave
  <2>7. CASE UNCHANGED vars
    BY <2>1, <2>7 DEF vars
  <2>8. QED
    BY <2>2, <2>3, <2>4, <2>5, <2>6, <2>7 DEF Next
<1>3. TableInv => DigestTable
  BY DEF TableInv
<1>4. QED
  BY <1>1, <1>2, <1>3, TypeCorrect, PTL DEF Spec
\* Eviction order: what GET /digest/{id} still serves is always the digests of
\* the last DIGEST_HISTORY answers, in answer order, for every history bound.
THEOREM NewestServed == Spec => []NewestDigestsServed
<1> USE AppAssumption
<1>1. Init => NewestDigestsServed
  BY DEF Init, NewestDigestsServed
<1>2. TypeOK /\ NewestDigestsServed /\ [Next]_vars => NewestDigestsServed'
  <2> SUFFICES ASSUME TypeOK, NewestDigestsServed, [Next]_vars
               PROVE  NewestDigestsServed'
    OBVIOUS
  <2> USE DEF TypeOK, table, observers
  <2>1. ASSUME UNCHANGED <<digest_order, answered>>
        PROVE  NewestDigestsServed'
    BY <2>1 DEF NewestDigestsServed
  <2>2. ASSUME NEW r \in Request, Answer(r)
        PROVE  NewestDigestsServed'
    <3> DEFINE s == Append(digest_order, r)
               n == IF Len(s) > DIGEST_HISTORY THEN DIGEST_HISTORY ELSE Len(s)
               o == digest_order'
    <3>1. /\ s \in Seq(Request)
          /\ Len(s) = Len(digest_order) + 1
          /\ \A k \in 1 .. Len(s) : s[k] = IF k = Len(s) THEN r ELSE digest_order[k]
      OBVIOUS
    <3>2. /\ o \in Seq(Request)
          /\ Len(o) = n
          /\ \A k \in 1 .. n : o[k] = s[Len(s) - n + k]
      BY <2>2, <3>1, NewestSuffix DEF Answer
    <3>3. /\ Len(answered') = Len(answered) + 1
          /\ \A k \in 1 .. Len(answered') :
               answered'[k] = IF k = Len(answered') THEN r ELSE answered[k]
      BY <2>2 DEF Answer
    <3>4. n = IF Len(answered') < DIGEST_HISTORY THEN Len(answered') ELSE DIGEST_HISTORY
      BY <3>1, <3>3 DEF NewestDigestsServed
    <3>5. /\ Len(digest_order) <= Len(answered)
          /\ \A i \in 1 .. Len(digest_order) :
               digest_order[i] = answered[Len(answered) - Len(digest_order) + i]
      <4>1. Len(digest_order) \in Nat /\ Len(answered) \in Nat
        OBVIOUS
      <4>2. Len(digest_order) <= Len(answered)
        BY <4>1 DEF NewestDigestsServed
      <4>3. DOMAIN digest_order = 1 .. Len(digest_order)
        OBVIOUS
      <4>4. QED
        BY <4>2, <4>3 DEF NewestDigestsServed
    <3> HIDE DEF s, o
    <3>6. n \in 1 .. Len(s)
      BY <3>1
    <3> HIDE DEF n
    <3>7. ASSUME NEW k \in 1 .. n
          PROVE  o[k] = answered'[Len(answered') - n + k]
      <4>1. CASE k = n
        BY <3>1, <3>2, <3>3, <3>6, <4>1
      <4>2. CASE k # n
        <5> DEFINE m == Len(s) - n + k
        <5>1. m \in 1 .. Len(digest_order) /\ o[k] = digest_order[m]
          BY <3>1, <3>2, <3>6, <4>2
        <5>2. digest_order[m] = answered[Len(answered) - Len(digest_order) + m]
          BY <3>5, <5>1
        <5>3. Len(answered) - Len(digest_order) + m = Len(answered') - n + k
          BY <3>1, <3>3, <3>6
        <5>4. Len(answered') - n + k \in 1 .. Len(answered)
          BY <3>1, <3>3, <3>5, <3>6, <4>2
        <5>5. QED
          BY <3>3, <5>1, <5>2, <5>3, <5>4
      <4>3. QED
        BY <4>1, <4>2
    <3>8. DOMAIN o = 1 .. n
      BY <3>2, <3>6
    <3>9. Len(o) = IF Len(answered') < DIGEST_HISTORY
                   THEN Len(answered') ELSE DIGEST_HISTORY
      BY <3>2, <3>4
    <3>10. \A k \in DOMAIN o : o[k] = answered'[Len(answered') - Len(o) + k]
      BY <3>2, <3>7, <3>8
    <3>11. QED
      BY <3>9, <3>10 DEF NewestDigestsServed, o
  <2>3. CASE Restart
    BY <2>3 DEF Restart, NewestDigestsServed
  <2>4. ASSUME NEW r \in Request, NEW t \in Token, ArriveOffRoster(r, t) \/ Arrive(r, t)
        PROVE  NewestDigestsServed'
    BY <2>1, <2>4 DEF ArriveOffRoster, Arrive
  <2>5. ASSUME NEW r \in Request, LlmAnswers(r) \/ LlmFailsOrTimesOut(r)
        PROVE  NewestDigestsServed'
    BY <2>1, <2>5 DEF LlmAnswers, LlmFailsOrTimesOut
  <2>6. ASSUME NEW t \in Token, Leave(t)
        PROVE  NewestDigestsServed'
    BY <2>1, <2>6 DEF Leave
  <2>7. CASE UNCHANGED vars
    BY <2>1, <2>7 DEF vars
  <2>8. QED
    BY <2>2, <2>3, <2>4, <2>5, <2>6, <2>7 DEF Next
<1>3. QED
  BY <1>1, <1>2, TypeCorrect, PTL DEF Spec

------------------------------------------------------------------------------
(* Presence and arrivals                                                     *)

\* The k-th of some arrivals is p's latest.
LatestOf(s, p, k) ==
    /\ k \in DOMAIN s
    /\ s[k].person = p
    /\ \A m \in DOMAIN s : s[m].person = p => m <= k

Latest(p, k) == LatestOf(arrivals, p, k)

\* Whoever is in the building has arrived, and stands before those who did so later.
InArrivalOrder ==
    /\ \A i \in DOMAIN present : \E k \in DOMAIN arrivals : Latest(present[i], k)
    /\ \A i, j \in DOMAIN present : i < j =>
         \A k, m \in DOMAIN arrivals :
             Latest(present[i], k) /\ Latest(present[j], m) => k < m

\* The latest arrival is one arrival, and the one Visit chooses.
LEMMA VisitIsLatest ==
    ASSUME TypeOK, NEW p, NEW k, Latest(p, k)
    PROVE  Visit(p) = k
<1>1. k \in Nat /\ DOMAIN arrivals = 1 .. Len(arrivals)
  BY DEF Latest, LatestOf, TypeOK
<1>2. \A m \in DOMAIN arrivals :
        /\ arrivals[m].person = p
        /\ \A n \in DOMAIN arrivals : arrivals[n].person = p => n <= m
        => m = k
  BY <1>1 DEF Latest, LatestOf
<1>3. QED
  BY <1>1, <1>2 DEF Latest, LatestOf, Visit

\* Who is left when somebody is taken out of the building was there, in that order.
LEMMA RestKept ==
    ASSUME PresenceTypeOK, NEW q
    PROVE  LET rest == Without(present, q)
           IN  /\ rest \in Seq(Person)
               /\ \A i \in DOMAIN rest : rest[i] # q
               /\ \A i \in DOMAIN rest : \E x \in DOMAIN present : rest[i] = present[x]
               /\ \A i, j \in DOMAIN rest : i < j =>
                    \E x, y \in DOMAIN present :
                        x < y /\ rest[i] = present[x] /\ rest[j] = present[y]
<1> DEFINE rest == Without(present, q)
<1>1. /\ rest \in Seq(Person) /\ NoRepeat(rest) /\ KeepsOrder(present, rest)
      /\ \A i \in DOMAIN rest : rest[i] # q
      /\ present \in Seq(Person)
  BY WithoutKey DEF PresenceTypeOK
<1> HIDE DEF rest
<1>2. \A i \in DOMAIN rest : \E x \in DOMAIN present : rest[i] = present[x]
  BY <1>1 DEF KeepsOrder
<1>3. ASSUME NEW i \in DOMAIN rest, NEW j \in DOMAIN rest, i < j
      PROVE  \E x, y \in DOMAIN present : x < y /\ rest[i] = present[x] /\ rest[j] = present[y]
  <2>1. PICK x \in DOMAIN present, y \in DOMAIN present :
          x <= y /\ rest[i] = present[x] /\ rest[j] = present[y]
    BY <1>1, <1>3 DEF KeepsOrder
  <2>2. rest[i] # rest[j]
    BY <1>1, <1>3 DEF NoRepeat
  <2>3. x < y
    BY <1>1, <2>1, <2>2
  <2>4. QED
    BY <2>1, <2>3
<1>4. QED
  BY <1>1, <1>2, <1>3 DEF rest

\* One more arrival is its person's latest and leaves everybody else's as it was.
LEMMA LatestAppended ==
    ASSUME NEW s \in Seq([req : Request, person : Person]),
           NEW e \in [req : Request, person : Person]
    PROVE  /\ \A k : LatestOf(Append(s, e), e.person, k) <=> k = Len(s) + 1
           /\ \A p, k : p # e.person =>
                (LatestOf(Append(s, e), p, k) <=> LatestOf(s, p, k))
<1> DEFINE t == Append(s, e)
           n == Len(s)
<1>1. /\ n \in Nat /\ DOMAIN s = 1 .. n /\ DOMAIN t = 1 .. (n + 1)
      /\ t[n + 1] = e /\ \A k \in 1 .. n : t[k] = s[k]
  OBVIOUS
<1> HIDE DEF t, n
<1>2. \A k : LatestOf(t, e.person, k) <=> k = n + 1
  BY <1>1 DEF LatestOf
<1>3. ASSUME NEW p, NEW k, p # e.person
      PROVE  LatestOf(t, p, k) <=> LatestOf(s, p, k)
  BY <1>1, <1>3 DEF LatestOf
<1>4. QED
  BY <1>2, <1>3 DEF t, n

\* What Arrive does to the two lists: the arriver goes to the end of the building, and
\* only their latest arrival changes.
LEMMA ArriveStep ==
    ASSUME TypeOK, NEW r \in Request, NEW t \in Token, Arrive(r, t)
    PROVE  LET q == Resolve[t]
               rest == Without(present, q)
               n == Len(arrivals)
               last == Len(rest) + 1
           IN  /\ q \in Person
               /\ \A i \in DOMAIN rest : rest[i] # q
               /\ DOMAIN rest = 1 .. Len(rest) /\ DOMAIN present' = 1 .. last
               /\ Len(rest) \in Nat /\ n \in Nat
               /\ DOMAIN arrivals = 1 .. n /\ DOMAIN arrivals' = 1 .. (n + 1)
               /\ present'[last] = q /\ \A i \in 1 .. Len(rest) : present'[i] = rest[i]
               /\ arrivals'[n + 1] = [req |-> r, person |-> q]
               /\ \A k \in 1 .. n : arrivals'[k] = arrivals[k]
               /\ \A k : LatestOf(arrivals', q, k) <=> k = n + 1
               /\ \A p, k : p # q => (LatestOf(arrivals', p, k) <=> Latest(p, k))
<1> USE AppAssumption
<1> DEFINE q == Resolve[t]
           rest == Without(present, q)
           e == [req |-> r, person |-> q]
<1>1. present' = Append(rest, q) /\ arrivals' = Append(arrivals, e)
  BY DEF Arrive, PresenceArrive, WithArrival
<1>2. /\ q \in Person /\ e.person = q
      /\ e \in [req : Request, person : Person]
      /\ arrivals \in Seq([req : Request, person : Person])
  BY DEF Arrive, TypeOK
<1> HIDE DEF e, q
<1>3. rest \in Seq(Person) /\ \A i \in DOMAIN rest : rest[i] # q
  BY RestKept DEF TypeOK
<1> HIDE DEF rest
<1>4. /\ DOMAIN rest = 1 .. Len(rest) /\ DOMAIN present' = 1 .. (Len(rest) + 1)
      /\ Len(rest) \in Nat
      /\ present'[Len(rest) + 1] = q /\ \A i \in 1 .. Len(rest) : present'[i] = rest[i]
  BY <1>1, <1>2, <1>3
<1>5. /\ Len(arrivals) \in Nat /\ DOMAIN arrivals = 1 .. Len(arrivals)
      /\ DOMAIN arrivals' = 1 .. (Len(arrivals) + 1)
      /\ arrivals'[Len(arrivals) + 1] = e
      /\ \A k \in 1 .. Len(arrivals) : arrivals'[k] = arrivals[k]
  BY <1>1, <1>2
<1>6. /\ \A k : LatestOf(Append(arrivals, e), e.person, k) <=> k = Len(arrivals) + 1
      /\ \A p, k : p # e.person =>
           (LatestOf(Append(arrivals, e), p, k) <=> LatestOf(arrivals, p, k))
  BY <1>2, LatestAppended
<1>7. \A k : LatestOf(arrivals', q, k) <=> k = Len(arrivals) + 1
  BY <1>1, <1>2, <1>6
<1>8. \A p, k : p # q => (LatestOf(arrivals', p, k) <=> Latest(p, k))
  BY <1>1, <1>2, <1>6 DEF Latest
<1>9. QED
  BY <1>2, <1>3, <1>4, <1>5, <1>7, <1>8 DEF e, q, rest

\* Arrivals and departures, and nothing else, rearrange the building.
LEMMA OrderKept == Spec => []InArrivalOrder
<1> USE AppAssumption
<1>1. Init => InArrivalOrder
  BY DEF Init, PresenceInit, InArrivalOrder
<1>2. TypeOK /\ InArrivalOrder /\ [Next]_vars => InArrivalOrder'
  <2> SUFFICES ASSUME TypeOK, InArrivalOrder, [Next]_vars
               PROVE  InArrivalOrder'
    OBVIOUS
  <2>1. ASSUME UNCHANGED <<present, arrivals>>
        PROVE  InArrivalOrder'
    BY <2>1 DEF InArrivalOrder, Latest
  <2>2. \A q : LET rest == Without(present, q)
               IN  /\ rest \in Seq(Person)
                   /\ \A i \in DOMAIN rest : rest[i] # q
                   /\ \A i \in DOMAIN rest : \E x \in DOMAIN present : rest[i] = present[x]
                   /\ \A i, j \in DOMAIN rest : i < j =>
                        \E x, y \in DOMAIN present :
                            x < y /\ rest[i] = present[x] /\ rest[j] = present[y]
    BY RestKept DEF TypeOK
  <2>3. ASSUME NEW q
        PROVE  LET rest == Without(present, q)
               IN  /\ \A i \in DOMAIN rest : \E k \in DOMAIN arrivals : Latest(rest[i], k)
                   /\ \A i, j \in DOMAIN rest : i < j =>
                        \A k, m \in DOMAIN arrivals :
                            Latest(rest[i], k) /\ Latest(rest[j], m) => k < m
    <3> DEFINE rest == Without(present, q)
    <3> HIDE DEF rest
    <3>1. /\ \A i \in DOMAIN rest : \E x \in DOMAIN present : rest[i] = present[x]
          /\ \A i, j \in DOMAIN rest : i < j =>
                \E x, y \in DOMAIN present :
                    x < y /\ rest[i] = present[x] /\ rest[j] = present[y]
      BY <2>2 DEF rest
    <3>2. \A i \in DOMAIN rest : \E k \in DOMAIN arrivals : Latest(rest[i], k)
      BY <3>1 DEF InArrivalOrder
    <3>3. ASSUME NEW i \in DOMAIN rest, NEW j \in DOMAIN rest, i < j,
                 NEW k \in DOMAIN arrivals, NEW m \in DOMAIN arrivals,
                 Latest(rest[i], k), Latest(rest[j], m)
          PROVE  k < m
      <4>1. PICK x \in DOMAIN present, y \in DOMAIN present :
              x < y /\ rest[i] = present[x] /\ rest[j] = present[y]
        BY <3>1, <3>3
      <4>2. QED
        BY <3>3, <4>1 DEF InArrivalOrder
    <3>4. QED
      BY <3>2, <3>3 DEF rest
  <2>4. ASSUME NEW r \in Request, NEW t \in Token, Arrive(r, t)
        PROVE  InArrivalOrder'
    <3> DEFINE q == Resolve[t]
               rest == Without(present, q)
               n == Len(arrivals)
               last == Len(rest) + 1
    <3> HIDE DEF q, rest, n, last
    <3>1. /\ \A i \in DOMAIN rest : \E k \in DOMAIN arrivals : Latest(rest[i], k)
          /\ \A i, j \in DOMAIN rest : i < j =>
                \A k, m \in DOMAIN arrivals :
                    Latest(rest[i], k) /\ Latest(rest[j], m) => k < m
      BY <2>3 DEF rest
    <3>2. \A i \in DOMAIN rest : rest[i] # q
      BY <2>4, ArriveStep DEF q, rest
    <3>3. /\ DOMAIN rest = 1 .. Len(rest) /\ DOMAIN present' = 1 .. last
          /\ Len(rest) \in Nat /\ n \in Nat
          /\ DOMAIN arrivals = 1 .. n /\ DOMAIN arrivals' = 1 .. (n + 1)
          /\ present'[last] = q
      BY <2>4, ArriveStep DEF q, rest, n, last
    <3>4. \A i \in 1 .. Len(rest) : present'[i] = rest[i]
      BY <2>4, ArriveStep DEF q, rest
    <3>5. \A k : LatestOf(arrivals', q, k) <=> k = n + 1
      BY <2>4, ArriveStep DEF q, n
    <3>6. \A p, k : p # q => (LatestOf(arrivals', p, k) <=> Latest(p, k))
      BY <2>4, ArriveStep DEF q
    <3>7. ASSUME NEW i \in DOMAIN present'
          PROVE  \E k \in DOMAIN arrivals' : LatestOf(arrivals', present'[i], k)
      <4>1. CASE i = last
        <5>1. LatestOf(arrivals', present'[i], n + 1)
          BY <3>3, <3>5, <4>1
        <5>2. n + 1 \in DOMAIN arrivals'
          BY <3>3
        <5>3. QED
          BY <5>1, <5>2, Zenon
      <4>2. CASE i # last
        <5>1. i \in DOMAIN rest /\ present'[i] = rest[i] /\ rest[i] # q
          BY <3>2, <3>3, <3>4, <4>2 DEF last
        <5>2. PICK k \in DOMAIN arrivals : Latest(rest[i], k)
          BY <3>1, <5>1
        <5>3. LatestOf(arrivals', present'[i], k) /\ k \in DOMAIN arrivals'
          BY <3>3, <3>6, <5>1, <5>2
        <5>4. QED
          BY <5>3
      <4>3. QED
        BY <4>1, <4>2
    <3>8. ASSUME NEW i \in DOMAIN present', NEW j \in DOMAIN present', i < j,
                 NEW k \in DOMAIN arrivals', NEW m \in DOMAIN arrivals',
                 LatestOf(arrivals', present'[i], k), LatestOf(arrivals', present'[j], m)
          PROVE  k < m
      <4>1. i \in DOMAIN rest /\ present'[i] = rest[i] /\ rest[i] # q
        BY <3>2, <3>3, <3>4, <3>8 DEF last
      <4>2. Latest(rest[i], k)
        BY <3>6, <3>8, <4>1
      <4>3. k \in DOMAIN arrivals
        BY <4>2 DEF Latest, LatestOf
      <4>4. CASE j = last
        BY <3>3, <3>5, <3>8, <4>3, <4>4
      <4>5. CASE j # last
        <5>1. j \in DOMAIN rest /\ present'[j] = rest[j] /\ rest[j] # q
          BY <3>2, <3>3, <3>4, <4>5 DEF last
        <5>2. Latest(rest[j], m)
          BY <3>6, <3>8, <5>1
        <5>3. m \in DOMAIN arrivals
          BY <5>2 DEF Latest, LatestOf
        <5>4. QED
          BY <3>1, <3>8, <4>1, <4>2, <4>3, <5>1, <5>2, <5>3
      <4>6. QED
        BY <4>4, <4>5
    <3>9. QED
      BY <3>7, <3>8 DEF InArrivalOrder, Latest
  <2>5. ASSUME NEW t \in Token, Leave(t)
        PROVE  InArrivalOrder'
    <3>1. present' = Without(present, Resolve[t]) /\ arrivals' = arrivals
      BY <2>5 DEF Leave, PresenceLeave, observers
    <3>2. QED
      BY <2>3, <3>1 DEF InArrivalOrder, Latest
  <2>6. CASE Restart
    BY <2>6 DEF Restart, InArrivalOrder
  <2>7. ASSUME NEW r \in Request,
               \/ \E t \in Token : ArriveOffRoster(r, t)
               \/ LlmAnswers(r) \/ LlmFailsOrTimesOut(r) \/ Answer(r)
        PROVE  InArrivalOrder'
    BY <2>1, <2>7 DEF ArriveOffRoster, LlmAnswers, LlmFailsOrTimesOut, Answer, observers
  <2>8. CASE UNCHANGED vars
    BY <2>1, <2>8 DEF vars
  <2>9. QED
    BY <2>4, <2>5, <2>6, <2>7, <2>8 DEF Next
<1>3. QED
  BY <1>1, <1>2, TypeCorrect, PTL DEF Spec

\* The building is listed by latest arrival through re-arrivals, departures and restarts,
\* for every roster and any interleaving of the handlers.
THEOREM PresenceHolds == Spec => []PresenceFollowsArrivals
<1>1. TypeOK /\ InArrivalOrder => PresenceFollowsArrivals
  <2> SUFFICES ASSUME TypeOK, InArrivalOrder,
                      NEW i \in DOMAIN present, NEW j \in DOMAIN present, i < j
               PROVE  Visit(present[i]) < Visit(present[j])
    BY DEF PresenceFollowsArrivals
  <2>1. PICK k \in DOMAIN arrivals, m \in DOMAIN arrivals :
          Latest(present[i], k) /\ Latest(present[j], m)
    BY DEF InArrivalOrder
  <2>2. Visit(present[i]) = k /\ Visit(present[j]) = m
    BY <2>1, VisitIsLatest
  <2>3. QED
    BY <2>1, <2>2 DEF InArrivalOrder
<1>2. QED
  BY <1>1, OrderKept, TypeCorrect, PTL

------------------------------------------------------------------------------
(* Introductions                                                             *)

\* The rows that come before one of them in a Meet section.
Above(a, rows, x) == {q \in rows : Outranks(a, q, x)}
Rank(a, rows, x) == Cardinality(Above(a, rows, x))

\* Outranking is a total order, and a row's rank counts the rows before it.
LEMMA RanksFollow ==
    ASSUME NEW a \in Person, NEW rows \in SUBSET Person, IsFiniteSet(rows)
    PROVE  /\ \A x \in rows : ~Outranks(a, x, x)
           /\ \A x, y \in rows : x # y => Outranks(a, x, y) \/ Outranks(a, y, x)
           /\ \A x \in rows : IsFiniteSet(Above(a, rows, x)) /\ Rank(a, rows, x) \in Nat
           /\ \A x, y \in rows : Outranks(a, x, y) => Rank(a, rows, x) < Rank(a, rows, y)
           /\ CappedMeet(a, rows) = {x \in rows : Rank(a, rows, x) < MEET_CAP}
<1> USE AppAssumption
<1>1. /\ \A x \in rows : ~Outranks(a, x, x)
      /\ \A x, y, z \in rows : Outranks(a, x, y) /\ Outranks(a, y, z) => Outranks(a, x, z)
      /\ \A x, y \in rows : x # y => Outranks(a, x, y) \/ Outranks(a, y, x)
  <2>1. ASSUME NEW x \in rows
        PROVE  RowScore(a, x) \in Nat /\ x \in Nat
    <3>1. <<a, x>> \in Person \X Person
      OBVIOUS
    <3>2. Raw[a, x] \in Nat
      BY <3>1
    <3>3. QED
      BY <3>2 DEF RowScore
  <2>2. QED
    BY <2>1 DEF Outranks
<1>2. ASSUME NEW x \in rows
      PROVE  IsFiniteSet(Above(a, rows, x)) /\ Rank(a, rows, x) \in Nat
  <2>1. Above(a, rows, x) \in SUBSET rows
    BY DEF Above
  <2>2. IsFiniteSet(Above(a, rows, x))
    BY <2>1, FS_Subset
  <2>3. QED
    BY <2>2, FS_CardinalityType DEF Rank
<1>3. ASSUME NEW x \in rows, NEW y \in rows, Outranks(a, x, y)
      PROVE  Rank(a, rows, x) < Rank(a, rows, y)
  <2> DEFINE S == Above(a, rows, x)
             T == Above(a, rows, y)
  <2>1. S \in SUBSET T /\ x \in T /\ x \notin S
    BY <1>1, <1>3 DEF Above
  <2>2. IsFiniteSet(T) /\ Cardinality(S) \in Nat /\ Cardinality(T) \in Nat
    BY <1>2 DEF Rank
  <2> HIDE DEF S, T
  <2>3. Cardinality(S) <= Cardinality(T) /\ (Cardinality(T) = Cardinality(S) => T = S)
    BY <2>1, <2>2, FS_Subset
  <2>4. Cardinality(S) < Cardinality(T)
    BY <2>1, <2>2, <2>3
  <2>5. QED
    BY <2>4 DEF Rank, S, T
<1>4. CappedMeet(a, rows) = {x \in rows : Rank(a, rows, x) < MEET_CAP}
  BY DEF CappedMeet, Rank, Above
<1>5. QED
  BY <1>1, <1>2, <1>3, <1>4

\* The Meet section respects its cap, and is empty only if nobody was found.
LEMMA MeetIsCapped ==
    ASSUME NEW a \in Person, NEW rows \in SUBSET Person, IsFiniteSet(rows)
    PROVE  /\ IsFiniteSet(CappedMeet(a, rows))
           /\ Cardinality(CappedMeet(a, rows)) <= MEET_CAP
           /\ CappedMeet(a, rows) \in SUBSET rows
           /\ rows # {} => CappedMeet(a, rows) # {}
<1> USE AppAssumption
<1> DEFINE rank(x) == Rank(a, rows, x)
           top == CappedMeet(a, rows)
           seats == 0 .. (MEET_CAP - 1)
           f == [x \in top |-> rank(x)]
<1>1. /\ \A x, y \in rows : x # y => Outranks(a, x, y) \/ Outranks(a, y, x)
      /\ \A x \in rows : rank(x) \in Nat
      /\ \A x, y \in rows : Outranks(a, x, y) => rank(x) < rank(y)
      /\ top = {x \in rows : rank(x) < MEET_CAP}
  BY RanksFollow
<1> HIDE DEF rank, top
<1>2. \A x \in top : x \in rows /\ rank(x) \in seats
  BY <1>1
<1>3. \A x, y \in top : rank(x) = rank(y) => x = y
  <2> SUFFICES ASSUME NEW x \in top, NEW y \in top, rank(x) = rank(y), x # y
               PROVE  FALSE
    OBVIOUS
  <2>1. x \in rows /\ y \in rows /\ rank(x) \in Nat /\ rank(y) \in Nat
    BY <1>1, <1>2
  <2>2. Outranks(a, x, y) \/ Outranks(a, y, x)
    BY <1>1, <2>1
  <2>3. QED
    BY <1>1, <2>1, <2>2
<1>4. f \in Injection(top, seats)
  BY <1>2, <1>3 DEF Injection, IsInjective
<1>5. IsFiniteSet(seats) /\ Cardinality(seats) = MEET_CAP
  BY FS_Interval
<1> HIDE DEF f, seats
<1>6. IsFiniteSet(top) /\ Cardinality(top) <= MEET_CAP
  BY <1>4, <1>5, FS_Injection
<1>7. ASSUME rows # {} PROVE top # {}
  <2> DEFINE ranks == {rank(x) : x \in rows}
  <2>5. PICK x \in rows : TRUE
    BY <1>7
  <2>1. ranks \in SUBSET Nat /\ rank(x) \in ranks
    BY <1>1
  <2>2. PICK n \in ranks : \A k \in ranks : n <= k
    <3> HIDE DEF ranks
    <3>1. QED
      BY <2>1, Least
  <2>3. PICK m \in rows : n = rank(m)
    OBVIOUS
  <2>4. Above(a, rows, m) = {}
    <3> SUFFICES ASSUME NEW q \in Above(a, rows, m) PROVE FALSE
      OBVIOUS
    <3>1. q \in rows /\ Outranks(a, q, m)
      BY DEF Above
    <3>2. rank(q) < rank(m) /\ rank(q) \in Nat /\ rank(m) \in Nat
      BY <1>1, <3>1
    <3>3. rank(m) <= rank(q)
      BY <2>2, <2>3, <3>1
    <3>4. QED
      BY <3>2, <3>3
  <2>6. rank(m) = 0
    BY <2>4, FS_EmptySet DEF rank, Rank
  <2>7. QED
    BY <1>1, <2>6
<1>8. QED
  BY <1>1, <1>6, <1>7 DEF top

\* A row the cap keeps out of the Meet section is outranked by everything in it, and the
\* section is full.
LEMMA OutrankedByAll ==
    ASSUME NEW a \in Person, NEW rows \in SUBSET Person, IsFiniteSet(rows),
           NEW p \in rows, p \notin CappedMeet(a, rows)
    PROVE  Cardinality({q \in CappedMeet(a, rows) : Outranks(a, q, p)}) = MEET_CAP
<1> USE AppAssumption
<1> DEFINE rank(x) == Rank(a, rows, x)
           top == CappedMeet(a, rows)
<1>1. /\ \A x, y \in rows : x # y => Outranks(a, x, y) \/ Outranks(a, y, x)
      /\ \A x \in rows : rank(x) \in Nat
      /\ \A x, y \in rows : Outranks(a, x, y) => rank(x) < rank(y)
      /\ top = {x \in rows : rank(x) < MEET_CAP}
  BY RanksFollow
<1> HIDE DEF rank, top
<1>2. \A x \in rows \ top, q \in top : Outranks(a, q, x)
  <2> SUFFICES ASSUME NEW x \in rows \ top, NEW q \in top PROVE Outranks(a, q, x)
    OBVIOUS
  <2>1. q \in rows /\ rank(q) < MEET_CAP /\ ~(rank(x) < MEET_CAP) /\ q # x
    BY <1>1
  <2>2. rank(q) \in Nat /\ rank(x) \in Nat
    BY <1>1, <2>1
  <2>3. ~Outranks(a, x, q)
    BY <1>1, <2>1, <2>2
  <2>4. QED
    BY <1>1, <2>1, <2>3
<1>3. PICK m \in rows \ top : \A y \in rows \ top : rank(m) <= rank(y)
  <2> DEFINE ranks == {rank(x) : x \in rows \ top}
  <2>1. ranks \in SUBSET Nat /\ rank(p) \in ranks
    BY <1>1 DEF top
  <2>2. PICK n \in ranks : \A k \in ranks : n <= k
    <3> HIDE DEF ranks
    <3>1. QED
      BY <2>1, Least
  <2>3. QED
    BY <2>2
<1>4. Above(a, rows, m) = top
  <2>1. ASSUME NEW q \in Above(a, rows, m) PROVE q \in top
    <3>1. q \in rows /\ Outranks(a, q, m)
      BY DEF Above
    <3>2. rank(q) < rank(m) /\ rank(q) \in Nat /\ rank(m) \in Nat
      BY <1>1, <3>1
    <3>3. QED
      BY <1>3, <3>1, <3>2
  <2>2. QED
    BY <1>1, <1>2, <2>1 DEF Above
<1>5. Cardinality(top) = MEET_CAP
  <2>1. m \in rows /\ ~(rank(m) < MEET_CAP)
    BY <1>1, <1>3
  <2>2. rank(m) = Cardinality(top) /\ rank(m) \in Nat
    BY <1>1, <1>4, <2>1 DEF rank, Rank
  <2>3. Cardinality(top) <= MEET_CAP
    BY MeetIsCapped DEF top
  <2>4. QED
    BY <2>1, <2>2, <2>3
<1>6. {q \in top : Outranks(a, q, p)} = top
  BY <1>2 DEF top
<1>7. QED
  BY <1>5, <1>6 DEF top

\* What a request knows of the building is a finite set of people.
RoomsFinite == \A r \in Request : IsFiniteSet(room[r])

\* An accepted arrival is made by a request that has begun, for the person it names.
ArrivalsOnRecord ==
    \A k \in DOMAIN arrivals :
        LET r == arrivals[k].req IN pc[r] # "new" /\ arriver[r] = arrivals[k].person

\* A digest proposes what the cap leaves of what its request found.
DigestsOfRooms ==
    \A r \in Request : digests[r] # NoDigest =>
        pc[r] = "answered" /\ digests[r].meet = CappedMeet(arriver[r], room[r])

\* Whoever stands later in the building found those before them at their latest arrival.
LaterFoundEarlier ==
    \A i, j \in DOMAIN present, k \in DOMAIN arrivals :
        i < j /\ present[i] \in Matchable /\ Latest(present[j], k) =>
            present[i] \in room[arrivals[k].req]

IntroInv == RoomsFinite /\ ArrivalsOnRecord /\ DigestsOfRooms /\ LaterFoundEarlier

\* The request of every accepted arrival is one of the requests.
LEMMA ArrivalsTyped ==
    ASSUME TypeOK
    PROVE  \A k \in DOMAIN arrivals : arrivals[k].req \in Request
<1> DEFINE Arrival == [req : Request, person : Person]
<1>1. arrivals \in Seq(Arrival)
  BY DEF TypeOK
<1> HIDE DEF Arrival
<1>2. \A k \in DOMAIN arrivals : arrivals[k] \in Arrival
  BY <1>1
<1>3. QED
  BY <1>2 DEF Arrival

\* A step that keeps the two lists and what begun requests know keeps the invariant.
LEMMA IntroKept ==
    ASSUME TypeOK, IntroInv, UNCHANGED <<present, room, arriver, digests, arrivals>>,
           \A r \in Request : pc[r] # "new" => pc'[r] # "new",
           \A r \in Request : pc[r] = "answered" => pc'[r] = "answered"
    PROVE  IntroInv'
<1>1. \A k \in DOMAIN arrivals : arrivals[k].req \in Request
  BY ArrivalsTyped
<1>2. RoomsFinite' /\ DigestsOfRooms' /\ LaterFoundEarlier'
  BY DEF IntroInv, RoomsFinite, DigestsOfRooms, LaterFoundEarlier, Latest, CappedMeet, Outranks
<1>3. ArrivalsOnRecord'
  BY <1>1 DEF IntroInv, ArrivalsOnRecord
<1>4. QED
  BY <1>2, <1>3 DEF IntroInv

\* The arriving request finds everybody in the building but its own person.
LEMMA ArriveIntroduces ==
    ASSUME TypeOK, IntroInv, NEW r \in Request, NEW t \in Token, Arrive(r, t)
    PROVE  IntroInv'
<1> USE AppAssumption
<1> DEFINE q == Resolve[t]
           rest == Without(present, q)
           n == Len(arrivals)
           last == Len(rest) + 1
           found == MatchRows(q, ToSet(present'))
<1>1. /\ pc[r] = "new" /\ pc' = [pc EXCEPT ![r] = "asking"]
      /\ arriver' = [arriver EXCEPT ![r] = q]
      /\ room' = [room EXCEPT ![r] = found]
      /\ digests' = digests
  BY DEF Arrive, table
<1> HIDE DEF q, rest, n, last
<1>2. /\ q \in Person /\ n \in Nat /\ Len(rest) \in Nat
      /\ DOMAIN rest = 1 .. Len(rest) /\ DOMAIN present' = 1 .. last
      /\ DOMAIN arrivals = 1 .. n /\ DOMAIN arrivals' = 1 .. (n + 1)
      /\ arrivals'[n + 1] = [req |-> r, person |-> q]
      /\ \A k \in 1 .. n : arrivals'[k] = arrivals[k]
  BY ArriveStep DEF q, rest, n, last
<1>3. /\ \A i \in DOMAIN rest : rest[i] # q
      /\ present'[last] = q /\ \A i \in 1 .. Len(rest) : present'[i] = rest[i]
  BY ArriveStep DEF q, rest, last
<1>4. /\ \A k : LatestOf(arrivals', q, k) <=> k = n + 1
      /\ \A p, k : p # q => (LatestOf(arrivals', p, k) <=> Latest(p, k))
  BY ArriveStep DEF q, n
<1>5. \A k \in 1 .. n : arrivals[k].req \in Request /\ arrivals[k].req # r
  BY <1>1, <1>2, ArrivalsTyped DEF IntroInv, ArrivalsOnRecord
<1>6. RoomsFinite'
  <2>1. IsFiniteSet(1 .. last)
    <3>1. 1 \in Int /\ last \in Int
      BY <1>2 DEF last
    <3>2. QED
      BY <3>1, FS_Interval
  <2> DEFINE f == [i \in 1 .. last |-> present'[i]]
  <2>2. f \in Surjection(1 .. last, ToSet(present'))
    BY <1>2 DEF ToSet, Surjection
  <2> HIDE DEF f
  <2>3. IsFiniteSet(ToSet(present'))
    BY <2>1, <2>2, FS_Surjection
  <2>4. found \in SUBSET ToSet(present')
    BY DEF MatchRows
  <2>5. IsFiniteSet(found)
    BY <2>3, <2>4, FS_Subset
  <2> HIDE DEF found
  <2>6. QED
    BY <1>1, <2>5 DEF RoomsFinite, IntroInv, TypeOK
<1>7. ArrivalsOnRecord'
  <2> SUFFICES ASSUME NEW k \in 1 .. (n + 1)
               PROVE  /\ pc'[arrivals'[k].req] # "new"
                      /\ arriver'[arrivals'[k].req] = arrivals'[k].person
    BY <1>2 DEF ArrivalsOnRecord
  <2>1. CASE k = n + 1
    BY <1>1, <1>2, <2>1 DEF TypeOK
  <2>2. CASE k # n + 1
    <3>1. k \in 1 .. n
      BY <1>2, <2>2
    <3>2. QED
      BY <1>1, <1>2, <1>5, <3>1 DEF TypeOK, IntroInv, ArrivalsOnRecord
  <2>3. QED
    BY <2>1, <2>2
<1>8. DigestsOfRooms'
  <2> SUFFICES ASSUME NEW d \in Request, digests[d] # NoDigest
               PROVE  /\ pc'[d] = "answered"
                      /\ digests[d].meet = CappedMeet(arriver'[d], room'[d])
    BY <1>1 DEF DigestsOfRooms, CappedMeet, Outranks
  <2>1. d # r
    BY <1>1 DEF IntroInv, DigestsOfRooms
  <2>2. pc'[d] = pc[d] /\ arriver'[d] = arriver[d] /\ room'[d] = room[d]
    BY <1>1, <2>1 DEF TypeOK
  <2>3. QED
    BY <2>2 DEF IntroInv, DigestsOfRooms
<1>9. LaterFoundEarlier'
  <2> SUFFICES ASSUME NEW i \in 1 .. last, NEW j \in 1 .. last, NEW k \in 1 .. (n + 1),
                      i < j, present'[i] \in Matchable, LatestOf(arrivals', present'[j], k)
               PROVE  present'[i] \in room'[arrivals'[k].req]
    BY <1>2 DEF LaterFoundEarlier, Latest
  <2>1. /\ i \in DOMAIN rest /\ present'[i] = rest[i] /\ rest[i] # q
        /\ i \in DOMAIN present'
    BY <1>2, <1>3 DEF last
  <2>2. CASE j = last
    <3>1. k = n + 1 /\ arrivals'[k].req = r
      BY <1>2, <1>3, <1>4, <2>2
    <3>2. present'[i] \in found
      BY <2>1 DEF MatchRows, ToSet
    <3> HIDE DEF found
    <3>3. QED
      BY <1>1, <3>1, <3>2 DEF TypeOK
  <2>3. CASE j # last
    <3>1. j \in DOMAIN rest /\ present'[j] = rest[j] /\ rest[j] # q
      <4>1. Len(rest) \in Nat
        BY <1>2
      <4>2. \A m \in 1 .. last : m # last => m \in 1 .. Len(rest)
        BY ONLY <4>1 DEF last
      <4>3. QED
        BY <1>2, <1>3, <2>3, <4>2
    <3>2. Latest(rest[j], k) /\ k \in 1 .. n
      <4>1. Latest(rest[j], k)
        BY <1>4, <3>1
      <4>2. QED
        BY <1>2, <4>1 DEF Latest, LatestOf
    <3>3. PICK x \in DOMAIN present, y \in DOMAIN present :
            x < y /\ rest[i] = present[x] /\ rest[j] = present[y]
      BY <2>1, <3>1, RestKept DEF TypeOK, rest
    <3>4. rest[i] \in room[arrivals[k].req]
      BY <1>2, <2>1, <3>2, <3>3 DEF IntroInv, LaterFoundEarlier
    <3>5. QED
      BY <1>1, <1>2, <1>5, <2>1, <3>2, <3>4 DEF TypeOK
  <2>4. QED
    BY <2>2, <2>3
<1>10. QED
  BY <1>6, <1>7, <1>8, <1>9 DEF IntroInv

\* No step of the application loses what the requests found.
LEMMA IntroHolds == Spec => []IntroInv
<1> USE AppAssumption
<1>1. Init => IntroInv
  <2> SUFFICES ASSUME Init PROVE IntroInv
    OBVIOUS
  <2>1. \A r \in Request : room[r] = {} /\ digests[r] = NoDigest
    BY DEF Init
  <2>2. RoomsFinite /\ DigestsOfRooms
    BY <2>1, FS_EmptySet DEF RoomsFinite, DigestsOfRooms
  <2>3. ArrivalsOnRecord /\ LaterFoundEarlier
    BY DEF Init, PresenceInit, ArrivalsOnRecord, LaterFoundEarlier
  <2>4. QED
    BY <2>2, <2>3 DEF IntroInv
<1>2. TypeOK /\ IntroInv /\ [Next]_vars => IntroInv'
  <2> SUFFICES ASSUME TypeOK, IntroInv, [Next]_vars
               PROVE  IntroInv'
    OBVIOUS
  <2>1. ASSUME NEW r \in Request, NEW t \in Token, ArriveOffRoster(r, t)
        PROVE  IntroInv'
    <3>1. /\ UNCHANGED <<present, room, arriver, digests, arrivals>>
          /\ \A d \in Request : d # r => pc'[d] = pc[d]
          /\ pc[r] = "new"
      BY <2>1 DEF ArriveOffRoster, table, observers, TypeOK
    <3>2. /\ \A d \in Request : pc[d] # "new" => pc'[d] # "new"
          /\ \A d \in Request : pc[d] = "answered" => pc'[d] = "answered"
      BY <3>1
    <3>3. QED
      BY <3>1, <3>2, IntroKept
  <2>2. ASSUME NEW r \in Request, NEW t \in Token, Arrive(r, t)
        PROVE  IntroInv'
    BY <2>2, ArriveIntroduces
  <2>3. ASSUME NEW r \in Request, LlmAnswers(r) \/ LlmFailsOrTimesOut(r)
        PROVE  IntroInv'
    <3>1. /\ UNCHANGED <<present, room, arriver, digests, arrivals>>
          /\ \A d \in Request : d # r => pc'[d] = pc[d]
          /\ pc[r] = "asking" /\ pc'[r] = "composing"
      BY <2>3 DEF LlmAnswers, LlmFailsOrTimesOut, table, observers, TypeOK
    <3>2. /\ \A d \in Request : pc[d] # "new" => pc'[d] # "new"
          /\ \A d \in Request : pc[d] = "answered" => pc'[d] = "answered"
      BY <3>1
    <3>3. QED
      BY <3>1, <3>2, IntroKept
  <2>4. ASSUME NEW r \in Request, Answer(r)
        PROVE  IntroInv'
    <3> DEFINE gone == ToSet(Append(digest_order, r)) \ ToSet(digest_order')
               written == [person |-> arriver[r],
                           meet |-> CappedMeet(arriver[r], room[r]),
                           opener |-> opener[r]]
    <3>1. /\ UNCHANGED <<present, room, arriver, arrivals>>
          /\ pc' = [pc EXCEPT ![r] = "answered"]
          /\ digests' = [d \in Request |-> IF d \in gone THEN NoDigest
                                           ELSE IF d = r THEN written ELSE digests[d]]
      BY <2>4 DEF Answer
    <3>2. written.meet = CappedMeet(arriver[r], room[r])
      OBVIOUS
    <3> HIDE DEF gone, written
    <3>3. RoomsFinite' /\ LaterFoundEarlier'
      BY <3>1 DEF IntroInv, RoomsFinite, LaterFoundEarlier, Latest
    <3>4. ArrivalsOnRecord'
      BY <3>1, ArrivalsTyped DEF IntroInv, ArrivalsOnRecord, TypeOK
    <3>5. DigestsOfRooms'
      <4> SUFFICES ASSUME NEW d \in Request, digests'[d] # NoDigest
                   PROVE  /\ pc'[d] = "answered"
                          /\ digests'[d].meet = CappedMeet(arriver[d], room[d])
        BY <3>1 DEF DigestsOfRooms, CappedMeet, Outranks
      <4>1. CASE d = r
        <5>1. digests'[d] = written
          BY <3>1, <4>1
        <5>2. QED
          BY <3>1, <3>2, <4>1, <5>1 DEF TypeOK
      <4>2. CASE d # r
        <5>1. digests'[d] = digests[d] /\ pc'[d] = pc[d]
          BY <3>1, <4>2 DEF TypeOK
        <5>2. QED
          BY <5>1 DEF IntroInv, DigestsOfRooms
      <4>3. QED
        BY <4>1, <4>2
    <3>6. QED
      BY <3>3, <3>4, <3>5 DEF IntroInv
  <2>5. ASSUME NEW t \in Token, Leave(t)
        PROVE  IntroInv'
    <3> DEFINE rest == Without(present, Resolve[t])
    <3>1. present' = rest /\ UNCHANGED <<pc, room, arriver, digests, arrivals>>
      BY <2>5 DEF Leave, PresenceLeave, local, table, observers
    <3>2. \A i, j \in DOMAIN rest : i < j =>
            \E x, y \in DOMAIN present :
                x < y /\ rest[i] = present[x] /\ rest[j] = present[y]
      BY RestKept DEF TypeOK
    <3> HIDE DEF rest
    <3>3. RoomsFinite' /\ ArrivalsOnRecord' /\ DigestsOfRooms'
      BY <3>1 DEF IntroInv, RoomsFinite, ArrivalsOnRecord, DigestsOfRooms,
                  CappedMeet, Outranks
    <3>4. LaterFoundEarlier'
      <4> SUFFICES ASSUME NEW i \in DOMAIN rest, NEW j \in DOMAIN rest,
                          NEW k \in DOMAIN arrivals,
                          i < j, rest[i] \in Matchable, Latest(rest[j], k)
                   PROVE  rest[i] \in room[arrivals[k].req]
        BY <3>1 DEF LaterFoundEarlier, Latest
      <4>1. PICK x \in DOMAIN present, y \in DOMAIN present :
              x < y /\ rest[i] = present[x] /\ rest[j] = present[y]
        BY <3>2
      <4>2. QED
        BY <4>1 DEF IntroInv, LaterFoundEarlier
    <3>5. QED
      BY <3>3, <3>4 DEF IntroInv
  <2>6. CASE Restart
    <3>1. \A r \in Request : room'[r] = {} /\ digests'[r] = NoDigest
      BY <2>6 DEF Restart
    <3>2. RoomsFinite' /\ DigestsOfRooms'
      BY <3>1, FS_EmptySet DEF RoomsFinite, DigestsOfRooms
    <3>3. ArrivalsOnRecord' /\ LaterFoundEarlier'
      BY <2>6 DEF Restart, ArrivalsOnRecord, LaterFoundEarlier
    <3>4. QED
      BY <3>2, <3>3 DEF IntroInv
  <2>7. CASE UNCHANGED vars
    BY <2>7, IntroKept DEF vars
  <2>8. QED
    BY <2>1, <2>2, <2>3, <2>4, <2>5, <2>6, <2>7 DEF Next
<1>3. QED
  BY <1>1, <1>2, TypeCorrect, PTL DEF Spec

\* For any two people in the building, the later one's latest arrival found the earlier one
\* and its digest introduces them unless the cap's worth of better matches fills it: for
\* every roster, graph and cap, through departures, returns, evictions and restarts.
THEOREM IntroductionsHold == Spec => []EveryoneIntroduced
<1> USE AppAssumption
<1>1. TypeOK /\ InArrivalOrder /\ IntroInv => EveryoneIntroduced
  <2> SUFFICES ASSUME TypeOK, InArrivalOrder, IntroInv,
                      NEW i \in DOMAIN present, NEW j \in DOMAIN present,
                      i < j, present[i] \in Matchable
               PROVE  LET r == arrivals[Visit(present[j])].req
                          others == digests[r].meet
                      IN  /\ present[i] \in room[r]
                          /\ digests[r] # NoDigest /\ present[i] \notin others =>
                               Cardinality({q \in others :
                                   Outranks(present[j], q, present[i])}) = MEET_CAP
    BY DEF EveryoneIntroduced
  <2>1. PICK k \in DOMAIN arrivals : Latest(present[j], k)
    BY DEF InArrivalOrder
  <2> DEFINE r == arrivals[k].req
             a == present[j]
             p == present[i]
  <2>2. Visit(a) = k
    BY <2>1, VisitIsLatest
  <2>3. r \in Request /\ arriver[r] = a /\ p \in room[r] /\ IsFiniteSet(room[r])
    BY <2>1, ArrivalsTyped DEF IntroInv, LaterFoundEarlier, ArrivalsOnRecord, RoomsFinite,
                               Latest, LatestOf
  <2>4. room[r] \in SUBSET Person /\ a \in Person
    BY <2>3 DEF TypeOK, PresenceTypeOK
  <2> HIDE DEF r, a, p
  <2>5. ASSUME digests[r] # NoDigest, p \notin digests[r].meet
        PROVE  Cardinality({q \in digests[r].meet : Outranks(a, q, p)}) = MEET_CAP
    <3>1. digests[r].meet = CappedMeet(a, room[r])
      BY <2>3, <2>5 DEF IntroInv, DigestsOfRooms
    <3>2. p \notin CappedMeet(a, room[r])
      BY <2>5, <3>1
    <3> DEFINE rows == room[r]
    <3>3. rows \in SUBSET Person /\ IsFiniteSet(rows) /\ p \in rows /\ p \notin CappedMeet(a, rows)
      BY <2>3, <2>4, <3>2
    <3> HIDE DEF rows
    <3>4. Cardinality({q \in CappedMeet(a, rows) : Outranks(a, q, p)}) = MEET_CAP
      BY <2>4, <3>3, OutrankedByAll
    <3>5. QED
      BY <3>1, <3>4 DEF rows
  <2>6. QED
    BY <2>2, <2>3, <2>5 DEF r, a, p
<1>2. QED
  BY <1>1, IntroHolds, OrderKept, TypeCorrect, PTL

------------------------------------------------------------------------------
(* The service Reception describes                                           *)

\* The tables of that service, as Host reads them off the application.
Owed == [r \in Request |-> IF pc[r] \in {"asking", "composing"}
                           THEN [who |-> arriver[r], found |-> room[r]] ELSE NoDigest]
Written == [r \in Request |-> IF digests[r] = NoDigest THEN NoDigest
                              ELSE [who |-> digests[r].person, met |-> digests[r].meet]]

\* A pending arrival is an entry of the table.
LEMMA EntriesStand ==
    ASSUME TypeOK, LocalsSet
    PROVE  \A r \in Request : pc[r] \in {"asking", "composing"} =>
               Owed[r] = [who |-> arriver[r], found |-> room[r]] /\ Owed[r] # NoDigest
<1>1. ASSUME NEW r \in Request, pc[r] \in {"asking", "composing"}
      PROVE  Owed[r] = [who |-> arriver[r], found |-> room[r]] /\ Owed[r] # NoDigest
  <2>1. arriver[r] \in Person /\ room[r] \in SUBSET Person
    BY <1>1 DEF LocalsSet, TypeOK
  <2>2. [who |-> arriver[r], found |-> room[r]] \in [who : Person, found : SUBSET Person]
    BY <2>1
  <2>3. QED
    BY <1>1, <2>2, ReceptionAssumption DEF Owed
<1>2. QED
  BY <1>1

\* Popping a key and inserting it again, as sets of keys.
LEMMA KeySets ==
    ASSUME PresenceTypeOK, NEW q
    PROVE  /\ ToSet(Without(present, q)) = ToSet(present) \ {q}
           /\ ToSet(WithArrival(present, q)) = ToSet(present) \cup {q}
<1> DEFINE rest == Without(present, q)
<1>1. /\ rest \in Seq(Person)
      /\ \A i \in DOMAIN rest : rest[i] # q
      /\ \A i \in DOMAIN rest : \E x \in DOMAIN present : rest[i] = present[x]
  BY RestKept
<1>2. ASSUME NEW x \in DOMAIN present, present[x] # q
      PROVE  \E i \in DOMAIN rest : rest[i] = present[x]
  BY <1>2, WithoutKeeps DEF PresenceTypeOK
<1>3. ToSet(rest) = ToSet(present) \ {q}
  <2> HIDE DEF rest
  <2>1. QED
    BY <1>1, <1>2 DEF ToSet
<1>4. ToSet(Append(rest, q)) = ToSet(rest) \cup {q}
  <2> HIDE DEF rest
  <2> DEFINE t == Append(rest, q)
  <2>1. /\ DOMAIN rest = 1 .. Len(rest) /\ Len(rest) \in Nat
        /\ DOMAIN t = 1 .. (Len(rest) + 1) /\ t[Len(rest) + 1] = q
        /\ \A i \in 1 .. Len(rest) : t[i] = rest[i]
    BY <1>1
  <2> HIDE DEF t
  <2>2. ASSUME NEW x \in ToSet(t) PROVE x \in ToSet(rest) \cup {q}
    <3>1. PICK i \in 1 .. (Len(rest) + 1) : x = t[i]
      BY <2>1 DEF ToSet
    <3>2. i \in 1 .. Len(rest) \/ i = Len(rest) + 1
      BY <2>1
    <3>3. QED
      BY <2>1, <3>1, <3>2 DEF ToSet
  <2>3. ASSUME NEW x \in ToSet(rest) PROVE x \in ToSet(t)
    <3>1. PICK i \in 1 .. Len(rest) : x = rest[i]
      BY <2>1 DEF ToSet
    <3>2. i \in DOMAIN t /\ t[i] = x
      BY <2>1, <3>1
    <3>3. QED
      BY <3>2 DEF ToSet
  <2>4. q \in ToSet(t)
    <3>1. Len(rest) + 1 \in DOMAIN t
      BY <2>1
    <3>2. QED
      BY <2>1, <3>1 DEF ToSet
  <2>5. QED
    BY <2>2, <2>3, <2>4 DEF t
<1>5. ToSet(present) \cup {q} = (ToSet(present) \ {q}) \cup {q}
  OBVIOUS
<1>6. QED
  BY <1>3, <1>4, <1>5 DEF WithArrival

\* The request just answered is not the one evicted.
LEMMA JustRemembered ==
    ASSUME TypeOK, NEW r \in Request, Answer(r)
    PROVE  r \in ToSet(digest_order')
<1> USE AppAssumption
<1> DEFINE s == Append(digest_order, r)
           n == IF Len(s) > DIGEST_HISTORY THEN DIGEST_HISTORY ELSE Len(s)
           o == digest_order'
<1>1. s \in Seq(Request) /\ Len(s) \in Nat \ {0} /\ s[Len(s)] = r
  BY DEF TypeOK
<1>2. o \in Seq(Request) /\ Len(o) = n /\ \A k \in 1 .. n : o[k] = s[Len(s) - n + k]
  BY <1>1, NewestSuffix DEF Answer
<1> HIDE DEF s, o
<1>3. n \in 1 .. n /\ Len(s) - n + n = Len(s)
  BY <1>1
<1> HIDE DEF n
<1>4. n \in DOMAIN o /\ o[n] = r
  <2>1. o[n] = s[Len(s) - n + n]
    BY <1>2, <1>3
  <2>2. DOMAIN o = 1 .. n
    BY <1>2
  <2>3. QED
    BY <1>1, <1>3, <2>1, <2>2
<1>5. QED
  BY <1>4 DEF ToSet, o

\* A step that leaves the building and the tables alone is invisible to the service.
LEMMA UnseenByHost ==
    ASSUME UNCHANGED <<present, arriver, room, digests>>,
           \A r \in Request :
               pc'[r] \in {"asking", "composing"} <=> pc[r] \in {"asking", "composing"}
    PROVE  UNCHANGED Host!vars
<1>1. Owed' = Owed /\ Written' = Written
  BY DEF Owed, Written
<1>2. InBuilding' = InBuilding
  BY DEF InBuilding
<1>3. QED
  BY <1>1, <1>2 DEF Owed, Written, Host!vars

\* An arrival is somebody entering, and owes a digest of those they find inside.
LEMMA ArriveEnters ==
    ASSUME TypeOK, LocalsSet, IntroInv, NEW r \in Request, NEW t \in Token, Arrive(r, t)
    PROVE  Host!Next
<1> USE AppAssumption
<1> DEFINE q == Resolve[t]
           found == (InBuilding \ {q}) \cap Matchable
<1>1. /\ q \in Person /\ pc[r] = "new"
      /\ pc' = [pc EXCEPT ![r] = "asking"]
      /\ arriver' = [arriver EXCEPT ![r] = q]
      /\ room' = [room EXCEPT ![r] = MatchRows(q, ToSet(present'))]
      /\ present' = WithArrival(present, q) /\ digests' = digests
  BY DEF Arrive, PresenceArrive, table
<1> HIDE DEF q
<1>2. InBuilding' = InBuilding \cup {q}
  BY <1>1, KeySets DEF InBuilding, TypeOK
<1>3. MatchRows(q, ToSet(present')) = found
  BY <1>2 DEF MatchRows, InBuilding
<1> HIDE DEF found
<1>4. Owed[r] = NoDigest /\ Written[r] = NoDigest
  BY <1>1 DEF Owed, Written, IntroInv, DigestsOfRooms
<1>5. Owed' = [Owed EXCEPT ![r] = [who |-> q, found |-> found]]
  <2>1. \A d \in Request : d # r => pc'[d] = pc[d] /\ arriver'[d] = arriver[d] /\ room'[d] = room[d]
    BY <1>1 DEF TypeOK
  <2>2. pc'[r] = "asking" /\ arriver'[r] = q /\ room'[r] = found
    BY <1>1, <1>3 DEF TypeOK
  <2>3. QED
    BY <2>1, <2>2 DEF Owed
<1>6. Written' = Written
  BY <1>1 DEF Written
<1>7. Host!Enter(r, q)
  BY <1>2, <1>4, <1>5, <1>6 DEF Host!Enter, Owed, Written, found
<1>8. QED
  BY <1>1, <1>7 DEF Host!Next

\* A digest remembered is the one owed, at the price of forgetting others.
LEMMA AnswerIntroduces ==
    ASSUME TypeOK, LocalsSet, IntroInv, NEW r \in Request, Answer(r)
    PROVE  Host!Next
<1> USE AppAssumption
<1> DEFINE meet == CappedMeet(arriver[r], room[r])
           evicted == ToSet(Append(digest_order, r)) \ ToSet(digest_order')
           written == [person |-> arriver[r], meet |-> meet, opener |-> opener[r]]
<1>1. /\ pc[r] = "composing" /\ pc' = [pc EXCEPT ![r] = "answered"]
      /\ UNCHANGED <<present, arriver, room>>
      /\ digests' = [d \in Request |-> IF d \in evicted THEN NoDigest
                                       ELSE IF d = r THEN written ELSE digests[d]]
  BY DEF Answer
<1>2. r \notin evicted
  BY JustRemembered
<1>3. /\ arriver[r] \in Person /\ opener[r] \in {"model", "template"}
      /\ room[r] \in SUBSET Person /\ IsFiniteSet(room[r])
  BY <1>1 DEF TypeOK, LocalsSet, IntroInv, RoomsFinite
<1>4. /\ meet \in SUBSET room[r] /\ Cardinality(meet) <= MEET_CAP
      /\ room[r] # {} => meet # {}
  BY <1>3, MeetIsCapped
<1>5. written \in Digest /\ written.person = arriver[r] /\ written.meet = meet
  BY <1>3, <1>4 DEF Digest
<1> HIDE DEF meet, evicted, written
<1>6. PICK m \in SUBSET Person : m = meet
  BY <1>3, <1>4
<1>7. /\ Owed[r] = [who |-> arriver[r], found |-> room[r]] /\ Owed[r] # NoDigest
      /\ Owed[r].who = arriver[r] /\ Owed[r].found = room[r]
  BY <1>1, EntriesStand
<1>8. Owed' = [Owed EXCEPT ![r] = NoDigest]
  <2>1. \A d \in Request : d # r => pc'[d] = pc[d]
    BY <1>1 DEF TypeOK
  <2>2. pc'[r] = "answered"
    BY <1>1 DEF TypeOK
  <2>3. QED
    BY <1>1, <2>1, <2>2 DEF Owed
<1>9. Written' = [d \in Request |->
                    IF d = r THEN [who |-> Owed[r].who, met |-> m]
                    ELSE IF d \in evicted \cap (Request \ {r}) THEN NoDigest ELSE Written[d]]
  <2>1. digests'[r] = written /\ written # NoDigest
    BY <1>1, <1>2, <1>5
  <2>2. \A d \in Request : d # r =>
          digests'[d] = IF d \in evicted THEN NoDigest ELSE digests[d]
    BY <1>1
  <2>3. QED
    BY <1>5, <1>7, <1>6, <2>1, <2>2 DEF Written
<1>10. InBuilding' = InBuilding
  BY <1>1 DEF InBuilding
<1>11. \E others \in SUBSET (Request \ {r}) :
         Written' = [d \in Request |->
                       IF d = r THEN [who |-> Owed[r].who, met |-> m]
                       ELSE IF d \in others THEN NoDigest ELSE Written[d]]
  <2>1. evicted \cap (Request \ {r}) \in SUBSET (Request \ {r})
    OBVIOUS
  <2>2. QED
    BY <1>9, <2>1, Zenon
<1>12. /\ Owed[r] # NoDigest /\ m \subseteq Owed[r].found
       /\ Cardinality(m) <= MEET_CAP
       /\ Owed[r].found # {} => m # {}
  BY <1>4, <1>7, <1>6
<1>13. Host!Introduce(r, m)
  <2>1. Host!Cardinality(m) <= MEET_CAP
    <3>1. Host!Cardinality(m) = Cardinality(m)
      BY DEF Host!Cardinality, Cardinality
    <3>2. QED
      BY <1>12, <3>1
  <2>2. QED
    BY <1>8, <1>10, <1>11, <1>12, <2>1, Zenon DEF Host!Introduce, Owed, Written
<1>14. QED
  BY <1>13 DEF Host!Next

\* The application implements the service: whoever walks in is owed one digest that
\* introduces, up to the cap, people found inside at that moment, and a digest stays as
\* written until it is evicted; for every roster, graph, cap and history.
THEOREM ServiceHolds == Spec => ServesReception
<1> USE AppAssumption
<1>1. Init => Host!Init
  <2> SUFFICES ASSUME Init PROVE Host!Init
    OBVIOUS
  <2>1. InBuilding = {}
    BY DEF Init, PresenceInit, InBuilding, ToSet
  <2>2. Owed = [r \in Request |-> NoDigest] /\ Written = [r \in Request |-> NoDigest]
    BY DEF Init, Owed, Written
  <2>3. QED
    BY <2>1, <2>2 DEF Host!Init, Owed, Written
<1>2. TypeOK /\ LocalsSet /\ IntroInv /\ [Next]_vars => [Host!Next]_(Host!vars)
  <2> SUFFICES ASSUME TypeOK, LocalsSet, IntroInv, [Next]_vars
               PROVE  Host!Next \/ UNCHANGED Host!vars
    OBVIOUS
  <2>1. ASSUME NEW r \in Request, NEW t \in Token, ArriveOffRoster(r, t)
        PROVE  UNCHANGED Host!vars
    BY <2>1, UnseenByHost DEF ArriveOffRoster, table, TypeOK
  <2>2. ASSUME NEW r \in Request, NEW t \in Token, Arrive(r, t)
        PROVE  Host!Next
    BY <2>2, ArriveEnters
  <2>3. ASSUME NEW r \in Request, LlmAnswers(r) \/ LlmFailsOrTimesOut(r)
        PROVE  UNCHANGED Host!vars
    BY <2>3, UnseenByHost DEF LlmAnswers, LlmFailsOrTimesOut, table, TypeOK
  <2>4. ASSUME NEW r \in Request, Answer(r)
        PROVE  Host!Next
    BY <2>4, AnswerIntroduces
  <2>5. ASSUME NEW t \in Token, Leave(t)
        PROVE  Host!Next
    <3> DEFINE q == Resolve[t]
    <3>1. /\ q \in Person /\ present' = Without(present, q)
          /\ UNCHANGED <<pc, arriver, room, digests>>
      BY <2>5 DEF Leave, PresenceLeave, local, table
    <3> HIDE DEF q
    <3>2. InBuilding' = InBuilding \ {q}
      BY <3>1, KeySets DEF InBuilding, TypeOK
    <3>3. Owed' = Owed /\ Written' = Written
      BY <3>1 DEF Owed, Written
    <3>4. Host!Depart(q)
      BY <3>2, <3>3 DEF Host!Depart, Owed, Written
    <3>5. QED
      BY <3>1, <3>4 DEF Host!Next
  <2>6. CASE Restart
    <3>1. InBuilding' = {}
      BY <2>6 DEF Restart, InBuilding, ToSet
    <3>2. Owed' = [r \in Request |-> NoDigest] /\ Written' = [r \in Request |-> NoDigest]
      BY <2>6 DEF Restart, Owed, Written
    <3>3. Host!Reset
      BY <3>1, <3>2 DEF Host!Reset, Owed, Written
    <3>4. QED
      BY <3>3 DEF Host!Next
  <2>7. CASE UNCHANGED vars
    BY <2>7, UnseenByHost DEF vars
  <2>8. QED
    BY <2>1, <2>2, <2>3, <2>4, <2>5, <2>6, <2>7 DEF Next
<1>3. QED
  BY <1>1, <1>2, IntroHolds, TypeCorrect, PTL DEF Spec, ServesReception, Host!Spec

------------------------------------------------------------------------------
(* The store behind the service: the ids of a roster                        *)

\* Of an id and one that goes on from it, the longer one's file is the first.
LEMMA LongerIsReadFirst ==
    ASSUME NEW a \in Slug, NEW s \in Slug, s # <<>>
    PROVE  FileBefore(a \o s, a) /\ ~FileBefore(a, a \o s)
<1>1. /\ Len(a) \in Nat /\ Len(s) \in Nat \ {0} /\ Len(a \o s) = Len(a) + Len(s)
      /\ DOMAIN a = 1 .. Len(a) /\ DOMAIN (a \o s) = 1 .. Len(a \o s)
  BY DEF Slug
<1>2. \A i \in 1 .. Len(a) : (a \o s)[i] = a[i] /\ a[i] \in Nat
  BY DEF Slug
<1>3. \A i \in DOMAIN a : i \in DOMAIN (a \o s) /\ ~(a[i] < (a \o s)[i])
  BY <1>1, <1>2
<1>4. Len(a) < Len(a \o s)
  BY <1>1
<1>5. FileBefore(a \o s, a)
  BY <1>1, <1>2, <1>4 DEF FileBefore, Earlier, GoesOn
<1>6. ~FileBefore(a, a \o s)
  BY <1>1, <1>3, <1>4 DEF FileBefore, Earlier, GoesOn
<1>7. QED
  BY <1>5, <1>6

\* Where every id is its owner's name or goes on from it, and none is given twice, the
\* id reaches its owner, whoever else bears that name and however many they are.
THEOREM IdsAreOwn ==
    ASSUME NEW corpus, NEW p \in corpus,
           \A q \in corpus : /\ q.id \in Slug \ {<<>>} /\ q.name \in Slug
                             /\ \E s \in Slug : q.id = q.name \o s,
           \A q, r \in corpus : q.id = r.id => q = r
    PROVE  ResolveToken(corpus, p.id) = p.id
<1> DEFINE C == Claiming(corpus, p.id)
<1>1. p \in C /\ C \subseteq corpus
  BY DEF Claiming
<1>2. ASSUME NEW r \in C, r # p
      PROVE  FileBefore(r.id, p.id) /\ ~FileBefore(p.id, r.id)
  <2>1. r.name = p.id /\ r.id # p.id
    BY <1>1, <1>2 DEF Claiming
  <2>2. PICK s \in Slug : r.id = p.id \o s
    BY <1>1, <2>1
  <2>3. s # <<>>
    BY <2>1, <2>2, ConcatEmptySeq DEF Slug
  <2>4. QED
    BY <2>2, <2>3, LongerIsReadFirst
<1>3. \A r \in C : r = p \/ FileBefore(r.id, p.id)
  BY <1>2
<1>4. \A q \in C : (\A r \in C : r = q \/ FileBefore(r.id, q.id)) => q = p
  BY <1>1, <1>2
<1> HIDE DEF C
<1>5. (CHOOSE q \in C : \A r \in C : r = q \/ FileBefore(r.id, q.id)) = p
  BY <1>1, <1>3, <1>4
<1>6. p.id # <<>> /\ C # {}
  BY <1>1
<1>7. QED
  BY <1>5, <1>6 DEF ResolveToken, C

LEMMA NumbersDiffer ==
    ASSUME NEW slug \in Slug, NEW m \in Nat \ {0}, NEW n \in Nat \ {0},
           Numbered(slug, m) = Numbered(slug, n)
    PROVE  m = n
<1>1. ASSUME NEW k \in Nat
      PROVE  /\ Len(Append(slug, k)) = Len(slug) + 1 /\ Len(slug) \in Nat
             /\ Append(slug, k)[Len(slug) + 1] = k
  BY AppendProperties DEF Slug
<1>2. \A k \in Nat : Append(slug, k) # slug
  BY <1>1
<1>3. QED
  BY <1>1, <1>2 DEF Numbered

LEMMA NumberGoesOn ==
    ASSUME NEW name \in Slug, NEW detail \in Slug, NEW n \in Nat
    PROVE  Append(name \o detail, n) = name \o Append(detail, n)
<1>1. /\ name \o detail \in Seq(Nat) /\ Append(detail, n) \in Seq(Nat)
      /\ Append(name \o detail, n) \in Seq(Nat) /\ name \o Append(detail, n) \in Seq(Nat)
  BY AppendProperties, ConcatProperties DEF Slug
<1>2. Len(Append(name \o detail, n)) = Len(name \o Append(detail, n))
  BY <1>1 DEF Slug
<1>3. \A i \in 1 .. Len(Append(name \o detail, n)) :
          Append(name \o detail, n)[i] = (name \o Append(detail, n))[i]
  BY <1>1 DEF Slug
<1>4. QED
  BY <1>1, <1>2, <1>3, SeqEqual

\* An entry whose id is its name or goes on from it: it declares none, or one like that.
Derived(entry) ==
    entry.declared = <<>> \/ \E s \in Slug : entry.declared = entry.name \o s

\* However many people are on the roster already, the numbers do not run out: the id
\* given next is nobody's, and goes on from the name if the declared id, if any, does.
THEOREM IdIsFresh ==
    ASSUME NEW entry \in Entry, NEW taken, IsFiniteSet(taken),
           Cardinality(taken) <= Len(Entries)
    PROVE  /\ PersonId(entry, taken) \notin taken
           /\ Derived(entry) => \E s \in Slug : PersonId(entry, taken) = entry.name \o s
<1> DEFINE id == IF entry.declared # <<>> THEN entry.declared ELSE entry.name
           Candidate(n) == Numbered(id \o entry.detail, n)
           N == 1 .. Len(Entries) + 1
           free == {n \in N : Candidate(n) \notin taken}
           first == CHOOSE n \in free : \A m \in free : n <= m
<1>1. Len(Entries) \in Nat
  BY StoreAssumption DEF StoreAssumption
<1>2. /\ id \in Slug /\ entry.detail \in Slug /\ entry.name \in Slug
      /\ id \o entry.detail \in Slug
  BY ConcatProperties DEF Entry, Slug
<1>3. free # {}
  <2> SUFFICES ASSUME \A n \in N : Candidate(n) \in taken PROVE FALSE
    OBVIOUS
  <2> DEFINE f == [n \in N |-> Candidate(n)]
  <2>1. f \in [N -> taken]
    OBVIOUS
  <2>2. IsFiniteSet(N) /\ Cardinality(N) = Len(Entries) + 1
    BY <1>1, FS_Interval
  <2>3. Cardinality(taken) \in Nat
    BY FS_CardinalityType
  <2>4. Cardinality(taken) < Cardinality(N)
    BY <1>1, <2>2, <2>3
  <2>5. PICK m \in N, n \in N : m # n /\ f[m] = f[n]
    <3> HIDE DEF f, N
    <3> QED
      BY <2>1, <2>2, <2>4, FS_PigeonHole
  <2>6. Candidate(m) = Candidate(n) /\ m \in Nat \ {0} /\ n \in Nat \ {0}
    BY <1>1, <2>5
  <2> HIDE DEF f, id
  <2>7. QED
    BY <1>2, <2>5, <2>6, NumbersDiffer
<1>4. first \in free
  <2>1. free \subseteq Nat
    BY <1>1
  <2>2. \E n \in free : \A m \in free : n <= m
    BY <1>3, <2>1, Least
  <2> HIDE DEF free
  <2>3. QED
    BY <2>2
<1>5. PersonId(entry, taken) = IF id \notin taken THEN id ELSE Candidate(first)
  BY DEF PersonId
<1>6. PersonId(entry, taken) \notin taken
  BY <1>4, <1>5
<1>7. ASSUME Derived(entry)
      PROVE  \E s \in Slug : PersonId(entry, taken) = entry.name \o s
  <2>1. PICK u \in Slug : id = entry.name \o u
    <3>1. CASE entry.declared = <<>>
      <4>1. id = entry.name \o <<>> /\ <<>> \in Slug
        BY <1>2, <3>1, ConcatEmptySeq DEF Slug
      <4>2. QED
        BY <4>1
    <3>2. CASE entry.declared # <<>>
      BY <1>7, <3>2 DEF Derived
    <3>3. QED
      BY <3>1, <3>2
  <2> DEFINE more == u \o entry.detail
  <2>2. more \in Slug /\ id \o entry.detail = entry.name \o more
    <3> DEFINE name == entry.name
               detail == entry.detail
    <3>1. name \in Seq(Nat) /\ u \in Seq(Nat) /\ detail \in Seq(Nat)
      BY <1>2 DEF Slug, Entry
    <3> HIDE DEF id, name, detail
    <3>2. (name \o u) \o detail = name \o (u \o detail)
      BY <3>1, ConcatAssociative
    <3>3. u \o detail \in Seq(Nat)
      BY <3>1, ConcatProperties
    <3>4. QED
      BY <2>1, <3>2, <3>3 DEF name, detail, Slug
  <2>3. CASE id \notin taken
    <3> HIDE DEF first, id
    <3>1. QED
      BY <1>5, <2>1, <2>3
  <2>4. CASE id \in taken
    <3>1. first \in Nat
      BY <1>1, <1>4
    <3> HIDE DEF first, id, more
    <3>2. PersonId(entry, taken) = Numbered(entry.name \o more, first)
      BY <1>5, <2>2, <2>4
    <3>3. Append(entry.name \o more, first) = entry.name \o Append(more, first)
      BY <1>2, <2>2, <3>1, NumberGoesOn
    <3>4. Append(more, first) \in Slug
      BY <2>2, <3>1 DEF Slug
    <3>5. QED
      BY <2>2, <3>2, <3>3, <3>4 DEF Numbered
  <2>5. QED
    BY <2>3, <2>4
<1>8. QED
  BY <1>6, <1>7

\* The words of an id, and what PersonId would number it with if no number were free: that
\* one is free is only known once the list so far is known to be short.
Word == Nat \cup {CHOOSE n \in {} : \A m \in {} : n <= m}
Enrollee == [id : Seq(Word), name : Slug]

LEMMA IdIsWords ==
    ASSUME NEW entry \in Entry, NEW taken
    PROVE  PersonId(entry, taken) \in Seq(Word)
<1> DEFINE id == IF entry.declared # <<>> THEN entry.declared ELSE entry.name
           base == id \o entry.detail
           free == {n \in 1 .. Len(Entries) + 1 : Numbered(base, n) \notin taken}
           first == CHOOSE n \in free : \A m \in free : n <= m
<1>1. id \in Seq(Nat) /\ base \in Seq(Nat)
  BY ConcatProperties DEF Entry, Slug
<1>2. first \in Word
  <2>1. CASE free = {}
    BY <2>1 DEF Word
  <2>2. CASE free # {}
    <3>1. free \in SUBSET Nat
      BY StoreAssumption
    <3> HIDE DEF free
    <3>2. \E n \in free : \A m \in free : n <= m
      BY <2>2, <3>1, Least
    <3>3. first \in free
      BY <3>2
    <3>4. QED
      BY <3>1, <3>3 DEF Word
  <2>3. QED
    BY <2>1, <2>2
<1>3. PersonId(entry, taken) = IF id \notin taken THEN id ELSE Numbered(base, first)
  BY DEF PersonId
<1> HIDE DEF id, base, first
<1>4. id \in Seq(Word) /\ base \in Seq(Word)
  <2>1. Nat \subseteq Word
    BY DEF Word
  <2>2. QED
    BY <1>1, <2>1
<1>5. Append(base, first) \in Seq(Word)
  BY <1>2, <1>4
<1>6. QED
  BY <1>3, <1>4, <1>5 DEF Numbered

\* What the roster gives, entry by entry.
Enrolls(run) ==
    /\ run[0] = <<>>
    /\ \A i \in 1 .. Len(Entries) : run[i] = Enrolled(run[i - 1], Entries[i])
    /\ LoadRoster = run[Len(Entries)]

LEMMA RosterIsRun == \E run : Enrolls(run)
<1> DEFINE n == Len(Entries)
           A == Seq(Enrollee)
           step == [c \in (1 .. n) \X A |-> Enrolled(c[2], Entries[c[1]])]
           Folds(g) == g = [t \in SUBSET DOMAIN Entries |->
                              IF t = {} THEN <<>>
                              ELSE Enrolled(g[t \ {Max(t)}], Entries[Max(t)])]
           fold == CHOOSE g : Folds(g)
<1>1. n \in Nat /\ DOMAIN Entries = 1 .. n /\ \A i \in 1 .. n : Entries[i] \in Entry
  BY StoreAssumption
<1>2. ASSUME NEW people \in A, NEW entry \in Entry PROVE Enrolled(people, entry) \in A
  <2> DEFINE id == PersonId(entry, {people[i].id : i \in DOMAIN people})
  <2>1. id \in Seq(Word)
    BY IdIsWords
  <2>2. Enrolled(people, entry) = IF id = <<>> THEN people
                                  ELSE Append(people, [id |-> id, name |-> entry.name])
    BY DEF Enrolled
  <2> HIDE DEF id
  <2>3. [id |-> id, name |-> entry.name] \in Enrollee
    BY <2>1 DEF Enrollee, Entry
  <2>4. QED
    BY <2>2, <2>3
<1>3. <<>> \in A
  OBVIOUS
<1>4. LoadRoster = fold[DOMAIN Entries]
  BY DEF LoadRoster, FoldLeft, MapThenFoldSet
<1> HIDE DEF n, A
<1>5. step \in [(1 .. n) \X A -> A]
  BY <1>1, <1>2
<1>6. \A i \in 1 .. n : \A a \in A : step[<<i, a>>] = Enrolled(a, Entries[i])
  OBVIOUS
<1> HIDE DEF step
<1>7. \E g : Folds(g)
  <2>1. PICK g : Solves(g, n, A, <<>>, step)
    BY <1>1, <1>3, <1>5, FoldSolves
  <2>2. Folds(g)
    BY <1>1, <1>6, <2>1 DEF Solves
  <2>3. QED
    BY <2>2
<1>8. Folds(fold)
  BY <1>7
<1> HIDE DEF fold
<1>9. /\ fold[{}] = <<>>
      /\ \A t \in SUBSET (1 .. n) : t # {} =>
           fold[t] = Enrolled(fold[t \ {Max(t)}], Entries[Max(t)])
  BY <1>1, <1>8
<1> HIDE DEF Folds
<1>10. Follows(fold, n, A, <<>>, step)
  <2>1. \A t \in SUBSET (1 .. n) : t # {} => Max(t) \in 1 .. n
    BY <1>1, MaxIsLast DEF IsLast
  <2>2. QED
    BY <1>6, <1>9, <2>1 DEF Follows
<1>11. Steps(fold, n, A, <<>>, step)
  BY <1>1, <1>3, <1>5, <1>10, FoldSteps
<1> DEFINE run == [i \in 0 .. n |-> fold[1 .. i]]
<1>12. run[0] = <<>>
  BY <1>1, <1>11 DEF Steps
<1>13. ASSUME NEW i \in 1 .. n PROVE run[i] = Enrolled(run[i - 1], Entries[i])
  <2>1. i \in 0 .. n /\ i - 1 \in 0 .. n
    BY <1>1
  <2>2. fold[1 .. (i - 1)] \in A /\ fold[1 .. i] = step[<<i, fold[1 .. (i - 1)]>>]
    BY <1>11, <2>1 DEF Steps
  <2>3. QED
    BY <1>6, <2>1, <2>2
<1>14. run[n] = LoadRoster
  <2>1. n \in 0 .. n
    BY <1>1
  <2>2. QED
    BY <1>1, <1>4, <2>1
<1> HIDE DEF run
<1>15. QED
  BY <1>12, <1>13, <1>14 DEF Enrolls, n

\* A roster so far: everybody has an id of their own that goes on from their name.
Distinct(people) ==
    /\ people \in Seq([id : Slug \ {<<>>}, name : Slug])
    /\ \A i \in DOMAIN people : \E s \in Slug : people[i].id = people[i].name \o s
    /\ \A i \in DOMAIN people, j \in DOMAIN people : people[i].id = people[j].id => i = j

LEMMA EnrolledStayDistinct ==
    ASSUME NEW people, Distinct(people), Len(people) <= Len(Entries),
           NEW entry \in Entry, Derived(entry)
    PROVE  Distinct(Enrolled(people, entry)) /\ Len(Enrolled(people, entry)) <= Len(people) + 1
<1> DEFINE taken == {people[i].id : i \in DOMAIN people}
           id == PersonId(entry, taken)
           P == [id : Slug \ {<<>>}, name : Slug]
           e == [id |-> id, name |-> entry.name]
<1>1. people \in Seq(P) /\ Len(people) \in Nat /\ DOMAIN people = 1 .. Len(people)
  BY DEF Distinct
<1>2. IsFiniteSet(taken) /\ Cardinality(taken) <= Len(Entries)
  <2> DEFINE D == 1 .. Len(people)
             f == [i \in D |-> people[i].id]
  <2>1. IsFiniteSet(D) /\ Cardinality(D) = Len(people)
    <3> DEFINE m == Len(people)
    <3>1. m \in Nat /\ m \in Int /\ 1 \in Int /\ m - 1 + 1 = m
      BY <1>1
    <3> HIDE DEF m
    <3>2. IsFiniteSet(1 .. m) /\ Cardinality(1 .. m) = IF 1 > m THEN 0 ELSE m - 1 + 1
      BY <3>1, FS_Interval
    <3>3. Cardinality(1 .. m) = m
      BY <3>1, <3>2
    <3>4. QED
      BY <3>2, <3>3 DEF m
  <2>2. f \in [D -> taken] /\ \A v \in taken : \E i \in D : f[i] = v
    BY <1>1
  <2>3. f \in Surjection(D, taken)
    BY <2>2 DEF Surjection
  <2> HIDE DEF f, D, taken
  <2>4. IsFiniteSet(taken) /\ Cardinality(taken) <= Cardinality(D)
    BY <2>1, <2>3, FS_Surjection
  <2>5. Cardinality(taken) \in Nat /\ Len(Entries) \in Nat
    BY <2>4, FS_CardinalityType, StoreAssumption
  <2>6. QED
    BY <1>1, <2>1, <2>4, <2>5
<1>3. id \notin taken /\ \E s \in Slug : id = entry.name \o s
  <2> HIDE DEF taken
  <2>1. QED
    BY <1>2, IdIsFresh
<1>4. entry.name \in Slug /\ id \in Slug
  <2>1. PICK s \in Slug : id = entry.name \o s
    BY <1>3
  <2> HIDE DEF id
  <2>2. entry.name \in Seq(Nat) /\ s \in Seq(Nat)
    BY DEF Entry, Slug
  <2>3. entry.name \o s \in Seq(Nat)
    BY <2>2, ConcatProperties
  <2>4. QED
    BY <2>1, <2>2, <2>3 DEF Slug
<1>5. Enrolled(people, entry) = IF id = <<>> THEN people ELSE Append(people, e)
  BY DEF Enrolled
<1>6. \A i \in DOMAIN people : people[i].id # id
  BY <1>3
<1>7. e.id = id /\ e.name = entry.name
  OBVIOUS
<1> HIDE DEF id, taken
<1>8. CASE id = <<>>
  BY <1>1, <1>5, <1>8
<1>9. CASE id # <<>>
  <2>1. e \in P
    BY <1>4, <1>9
  <2> HIDE DEF e, P
  <2> DEFINE all == Append(people, e)
  <2>2. /\ all \in Seq(P) /\ Len(all) = Len(people) + 1 /\ DOMAIN all = 1 .. Len(people) + 1
        /\ \A i \in 1 .. Len(people) : all[i] = people[i]
        /\ all[Len(people) + 1] = e
    BY <1>1, <2>1
  <2> HIDE DEF all
  <2>3. \A i \in DOMAIN all : i \in DOMAIN people \/ i = Len(people) + 1
    BY <1>1, <2>2
  <2> HIDE DEF taken
  <2>4. ASSUME NEW i \in DOMAIN all PROVE \E s \in Slug : all[i].id = all[i].name \o s
    <3>1. CASE i \in DOMAIN people
      <4>1. all[i] = people[i]
        BY <1>1, <2>2, <3>1
      <4>2. \E s \in Slug : people[i].id = people[i].name \o s
        BY <3>1 DEF Distinct
      <4>3. QED
        BY <4>1, <4>2
    <3>2. CASE i = Len(people) + 1
      <4>1. all[i] = e
        BY <2>2, <3>2
      <4>2. \E s \in Slug : e.id = e.name \o s
        BY <1>3, <1>7
      <4>3. QED
        BY <4>1, <4>2
    <3>3. QED
      BY <2>3, <3>1, <3>2
  <2>5. ASSUME NEW i \in DOMAIN all, NEW j \in DOMAIN all, all[i].id = all[j].id PROVE i = j
    <3>1. CASE i \in DOMAIN people /\ j \in DOMAIN people
      BY <1>1, <2>2, <2>5, <3>1 DEF Distinct
    <3>2. CASE i = Len(people) + 1 /\ j \in DOMAIN people
      BY <1>1, <1>6, <1>7, <2>2, <2>5, <3>2
    <3>3. CASE i \in DOMAIN people /\ j = Len(people) + 1
      BY <1>1, <1>6, <1>7, <2>2, <2>5, <3>3
    <3>4. QED
      BY <2>3, <3>1, <3>2, <3>3
  <2>6. Distinct(all)
    BY <2>2, <2>4, <2>5 DEF Distinct, P
  <2>7. QED
    BY <1>1, <1>5, <1>9, <2>2, <2>6 DEF all
<1>10. QED
  BY <1>8, <1>9

\* The hypothesis on a roster: no entry declares an id that leaves its own name.
IdsFollowNames == \A i \in DOMAIN Entries : Derived(Entries[i])

\* However many namesakes: a roster gives everybody on it an id of their own, which is
\* their name or goes on from it.
LEMMA RosterIsDistinct ==
    ASSUME IdsFollowNames
    PROVE  Distinct(LoadRoster)
<1> DEFINE n == Len(Entries)
<1>1. n \in Nat /\ DOMAIN Entries = 1 .. n /\ \A i \in 1 .. n : Entries[i] \in Entry
  BY StoreAssumption
<1>2. PICK run : Enrolls(run)
  BY RosterIsRun
<1> DEFINE Good == {k \in 0 .. n : Distinct(run[k]) /\ Len(run[k]) <= k}
<1>3. 0 \in Good
  <2>1. Distinct(<<>>) /\ Len(<<>>) <= 0
    BY DEF Distinct
  <2>2. QED
    BY <1>1, <1>2, <2>1 DEF Enrolls
<1>4. ASSUME NEW k \in 1 .. n, k - 1 \in Good PROVE k \in Good
  <2>1. Distinct(run[k - 1]) /\ Len(run[k - 1]) <= k - 1 /\ Len(run[k - 1]) \in Nat
    <3>1. Distinct(run[k - 1]) /\ Len(run[k - 1]) <= k - 1
      BY <1>4
    <3>2. Len(run[k - 1]) \in Nat
      BY <3>1 DEF Distinct
    <3>3. QED
      BY <3>1, <3>2
  <2>2. Len(run[k - 1]) <= Len(Entries) /\ Entries[k] \in Entry /\ Derived(Entries[k])
    BY <1>1, <2>1 DEF IdsFollowNames
  <2> DEFINE before == run[k - 1]
             after == Enrolled(before, Entries[k])
  <2>3. run[k] = after
    BY <1>2 DEF Enrolls
  <2> HIDE DEF before
  <2>4. Distinct(after) /\ Len(after) <= Len(before) + 1
    BY <2>1, <2>2, EnrolledStayDistinct DEF before
  <2> HIDE DEF after
  <2>5. Len(after) \in Nat /\ Len(before) \in Nat
    BY <2>1, <2>4 DEF Distinct, before
  <2>6. Len(after) <= k
    BY <1>1, <2>1, <2>4, <2>5 DEF before
  <2>7. QED
    BY <1>1, <2>3, <2>4, <2>6
<1> HIDE DEF Good, n
<1>5. \A i \in 0 .. n : i \in Good
  BY <1>1, <1>3, <1>4, Climb
<1>6. n \in 0 .. n
  BY <1>1
<1>7. QED
  BY <1>2, <1>5, <1>6 DEF Good, Enrolls, n

LEMMA OwnIdsResolve ==
    ASSUME IdsFollowNames, NEW id \in DOMAIN Owner
    PROVE  Resolve[id] = Owner[id]
<1>1. PICK q \in Corpus : id = q.id
  BY DEF Owner
<1>2. Distinct(LoadRoster)
  BY RosterIsDistinct
<1>3. \A p \in Corpus : \E i \in DOMAIN LoadRoster : p = LoadRoster[i]
  BY DEF Corpus, ToSet
<1>4. \A p \in Corpus : /\ p.id \in Slug \ {<<>>} /\ p.name \in Slug
                        /\ \E s \in Slug : p.id = p.name \o s
  <2> SUFFICES ASSUME NEW p \in Corpus
               PROVE  /\ p.id \in Slug \ {<<>>} /\ p.name \in Slug
                      /\ \E s \in Slug : p.id = p.name \o s
    OBVIOUS
  <2>1. PICK i \in DOMAIN LoadRoster : p = LoadRoster[i]
    BY <1>3
  <2>2. p \in [id : Slug \ {<<>>}, name : Slug]
    <3> DEFINE P == [id : Slug \ {<<>>}, name : Slug]
    <3>1. LoadRoster \in Seq(P)
      BY <1>2 DEF Distinct
    <3> HIDE DEF P
    <3>2. LoadRoster[i] \in P
      BY <3>1
    <3>3. QED
      BY <2>1, <3>2 DEF P
  <2>3. \E s \in Slug : LoadRoster[i].id = LoadRoster[i].name \o s
    BY <1>2 DEF Distinct
  <2>4. QED
    BY <2>1, <2>2, <2>3
<1>5. \A p, r \in Corpus : p.id = r.id => p = r
  BY <1>2, <1>3 DEF Distinct
<1>6. ResolveToken(Corpus, q.id) = q.id
  BY <1>4, <1>5, IdsAreOwn
<1>7. id \in Token /\ id # <<>>
  BY <1>1, <1>4, ServedAssumption
<1>8. Reached(id) = RankOf(id)
  BY <1>1, <1>6, <1>7 DEF Reached
<1>9. QED
  BY <1>7, <1>8, ServedAssumption DEF Owner

\* On a roster whose ids follow the names, however many namesakes it has: who arrives by
\* their own id is the last to have come in, and who leaves by it goes out alone.
THEOREM OwnersReached ==
    ASSUME IdsFollowNames
    PROVE  Spec => IdsReachTheirOwner
<1>1. ASSUME TypeOK, NEW id \in DOMAIN Owner, NEW r \in Request, Arrive(r, id)
      PROVE  present'[Len(present')] = Owner[id]
  <2> DEFINE q == Resolve[id]
             rest == Without(present, q)
  <2>1. present' = Append(rest, q) /\ q = Owner[id]
    BY <1>1, OwnIdsResolve DEF Arrive, PresenceArrive, WithArrival
  <2> HIDE DEF q
  <2>2. rest \in Seq(Person)
    BY <1>1, WithoutKey DEF TypeOK, PresenceTypeOK
  <2> HIDE DEF rest
  <2>3. QED
    BY <2>1, <2>2
<1>2. ASSUME TypeOK, NEW id \in DOMAIN Owner, Leave(id)
      PROVE  InBuilding' = InBuilding \ {Owner[id]}
  <2> DEFINE q == Resolve[id]
  <2>1. present' = Without(present, q) /\ q = Owner[id]
    BY <1>2, OwnIdsResolve DEF Leave, PresenceLeave
  <2> HIDE DEF q
  <2>2. QED
    BY <1>2, <2>1, KeySets DEF InBuilding, TypeOK
<1>3. TypeOK /\ [Next]_vars =>
        [/\ arrivals' # arrivals =>
              \A id \in DOMAIN Owner, r \in Request :
                  Arrive(r, id) => present'[Len(present')] = Owner[id]
         /\ InBuilding' # InBuilding =>
              \A id \in DOMAIN Owner : Leave(id) => InBuilding' = InBuilding \ {Owner[id]}]_vars
  BY <1>1, <1>2
<1>4. QED
  BY <1>3, TypeCorrect, PTL DEF Spec, IdsReachTheirOwner
=============================================================================
