-------------------------- MODULE HttpFetchProofs --------------------------
(* Proofs about HttpFetch, for every set of fetches and requests, every cache  *)
(* directory and every lifetime of a negative answer.                          *)
EXTENDS HttpFetch, TLAPS

\* The name of a cache file is the request it belongs to: no two requests share one.
LEMMA KeysDiffer ==
    ASSUME NEW r \in Request, NEW s \in Request, RequestKey(r) = RequestKey(s)
    PROVE  r = s
<1> DEFINE Plain(t) == t.verb = "GET" /\ t.headers = NoHeaders /\ t.body = NoBody
<1>1. \A u, v, x, y, z : <<u>> # <<v, x, y, z>>
  OBVIOUS
<1>2. /\ r \in [url : Url, verb : Verb, headers : Headers, body : Body]
      /\ s \in [url : Url, verb : Verb, headers : Headers, body : Body]
  BY FetchAssumption
<1>3. CASE Plain(r)
  <2>1. Plain(s) /\ r.url = s.url
    BY <1>1, <1>3 DEF RequestKey
  <2>2. QED
    BY <1>2, <1>3, <2>1
<1>4. CASE ~Plain(r)
  <2>1. ~Plain(s)
    BY <1>1, <1>4 DEF RequestKey
  <2>2. r.verb = s.verb /\ r.url = s.url /\ r.headers = s.headers /\ r.body = s.body
    BY <1>4, <2>1 DEF RequestKey
  <2>3. QED
    BY <1>2, <2>2
<1>5. QED
  BY <1>3, <1>4

LEMMA KeyOfRequest == \A r \in Request : RequestKey(r) \in Key
BY DEF Key

\* A record that is well formed by now: a negative expires when it should, and what an
\* older version left has no expiry.
Sound(rec) ==
    /\ rec \in HttpRecord /\ rec.fetched_at <= now
    /\ rec.expires_at # Never => rec.expires_at = rec.fetched_at + NEGATIVE_TTL
    /\ rec.kind \in OldKind => rec.expires_at = Never

\* Whose answer a file is: the request's it is named after, or that of a request which an
\* older version named so.
FiledUnder(rec, k) ==
    \/ RequestKey(rec.of) = k
    \/ rec.kind \in OldKind \ {"fixture"} /\ OldKey(rec.of) = k

Filed(k) ==
    cache[k] \notin {Missing, Torn} =>
        Sound(cache[k]) /\ cache[k].kind # "unwritable" /\ FiledUnder(cache[k], k)

\* What a fetch is writing is its own answer.
Pending(f) ==
    pc[f] = "storing" =>
        Sound(temporary) /\ temporary.of = asked[f] /\ temporary.kind \in Kind

Owned(rec, r) ==
    \/ rec.of = r
    \/ rec.kind \in {"legacy", "refused"} /\ OldKey(rec.of) = RequestKey(r)

Answered(f) ==
    got[f] # Nothing => Owned(got[f], asked[f]) /\ answer[f] = Acceptable(got[f])

FetchInv ==
    /\ TypeOK
    /\ cache \in [Key -> {Missing, Torn} \cup HttpRecord]
    /\ \A k \in Key : Filed(k)
    /\ \A f \in Fetch : Pending(f) /\ Answered(f)

\* What the cache serves has a text or is within its lifetime.
LEMMA ReadIsFiled ==
    ASSUME FetchInv, NEW k \in Key, ReadRecord(cache[k]) # Nothing
    PROVE  /\ ReadRecord(cache[k]) = cache[k]
           /\ cache[k] \in HttpRecord /\ FiledUnder(cache[k], k)
           /\ cache[k].kind # "frozen"
           /\ HasText(cache[k]) \/ now < cache[k].fetched_at + NEGATIVE_TTL
<1>1. /\ ReadRecord(cache[k]) = cache[k] /\ cache[k] \notin {Missing, Torn}
      /\ cache[k].expires_at = Never => HasText(cache[k])
      /\ cache[k].expires_at # Never => ~(cache[k].expires_at <= now)
  BY DEF ReadRecord
<1>2. Sound(cache[k]) /\ FiledUnder(cache[k], k)
  BY <1>1 DEF FetchInv, Filed
<1>3. cache[k].fetched_at \in Nat /\ now \in Nat /\ NEGATIVE_TTL \in Nat
  BY <1>2, FetchAssumption DEF FetchInv, TypeOK, HttpRecord, Sound
<1>4. cache[k].kind # "frozen"
  BY <1>1, <1>2 DEF Sound, OldKind, HasText
<1>5. QED
  BY <1>1, <1>2, <1>3, <1>4 DEF Sound

\* A file under a request's name is that request's answer, but for what older versions left.
LEMMA FiledIsOwned ==
    ASSUME NEW r \in Request, NEW rec \in HttpRecord, FiledUnder(rec, RequestKey(r)),
           rec.kind # "frozen"
    PROVE  Owned(rec, r)
<1>1. rec.of \in Request
  BY DEF HttpRecord
<1>2. QED
  BY <1>1, KeysDiffer DEF FiledUnder, Owned, OldKind

LEMMA AcceptableType ==
    ASSUME NEW rec \in HttpRecord
    PROVE  Acceptable(rec) \in HttpRecord \cup {Nothing}
BY DEF Acceptable

\* Every directory a process may start on.
LEMMA LeftIsFiled ==
    ASSUME now = 0, NEW k \in Key, NEW rec \in Left(k)
    PROVE  Sound(rec) /\ rec.kind # "unwritable" /\ FiledUnder(rec, k)
<1>1. PICK kind \in OldKind, r \in Request :
         /\ rec = [kind |-> kind, of |-> r, fetched_at |-> 0, expires_at |-> Never]
         /\ RequestKey(r) = k \/ (kind # "fixture" /\ OldKey(r) = k)
  BY DEF Left, OldKind
<1>2. rec \in HttpRecord
  BY <1>1 DEF HttpRecord
<1>3. rec.kind = kind /\ rec.of = r /\ rec.fetched_at = 0 /\ rec.expires_at = Never
  BY <1>1
<1>4. kind # "unwritable"
  BY DEF OldKind
<1>5. QED
  BY <1>1, <1>2, <1>3, <1>4 DEF Sound, FiledUnder

LEMMA InitFiled == Init => FetchInv
<1> SUFFICES ASSUME Init PROVE FetchInv
  OBVIOUS
<1>1. now = 0 /\ now \in Nat
  BY DEF Init
<1>2. /\ cache \in [Key -> {Missing, Torn} \cup HttpRecord]
      /\ \A k \in Key : cache[k] \in {Missing, Torn} \cup Left(k)
  BY FetchAssumption DEF Init
<1>3. \A k \in Key : Filed(k)
  BY <1>1, <1>2, LeftIsFiled DEF Filed
<1>4. \A f \in Fetch : Pending(f) /\ Answered(f)
  BY DEF Init, Pending, Answered
<1>5. TypeOK
  BY <1>1, <1>2, <1>3 DEF Init, TypeOK, Filed, Sound
<1>6. QED
  BY <1>2, <1>3, <1>4, <1>5 DEF FetchInv

LEMMA HitKeeps ==
    ASSUME FetchInv, NEW f \in Fetch, Hit(f)
    PROVE  FetchInv'
<1> DEFINE k == RequestKey(asked[f])
           rec == ReadRecord(cache[k])
<1>1. /\ rec # Nothing /\ UNCHANGED <<now, cache, temporary, asked>>
      /\ answer' = [answer EXCEPT ![f] = Acceptable(rec)]
      /\ got' = [got EXCEPT ![f] = rec]
      /\ warm' = [warm EXCEPT ![f] = TRUE]
      /\ pc' = [pc EXCEPT ![f] = "done"]
  BY DEF Hit, Cached
<1>2. asked[f] \in Request /\ k \in Key
  BY KeyOfRequest DEF FetchInv, TypeOK
<1>3. rec = cache[k] /\ rec \in HttpRecord /\ FiledUnder(rec, k) /\ rec.kind # "frozen"
  BY <1>1, <1>2, ReadIsFiled
<1>4. Owned(rec, asked[f])
  BY <1>2, <1>3, FiledIsOwned
<1>5. rec \in HttpRecord /\ Acceptable(rec) \in HttpRecord \cup {Nothing}
  BY <1>3, AcceptableType
<1> HIDE DEF rec, k
<1>6. TypeOK'
  BY <1>1, <1>5 DEF FetchInv, TypeOK, Writing
<1>7. \A q \in Key : Filed(q)'
  BY <1>1 DEF FetchInv, Filed, Sound
<1>8. \A g \in Fetch : Pending(g)'
  BY <1>1 DEF FetchInv, TypeOK, Pending, Sound
<1>9. \A g \in Fetch : Answered(g)'
  BY <1>1, <1>4 DEF FetchInv, TypeOK, Answered, Owned, Acceptable, IsNotText
<1>10. QED
  BY <1>1, <1>6, <1>7, <1>8, <1>9 DEF FetchInv

LEMMA RespondKeeps ==
    ASSUME FetchInv, NEW f \in Fetch, NEW kind \in Kind, Respond(f, kind)
    PROVE  FetchInv'
<1> DEFINE rec == Made(f, kind)
<1>1. /\ ~Writing /\ temporary' = rec
      /\ pc' = [pc EXCEPT ![f] = "storing"]
      /\ UNCHANGED <<now, cache, asked, answer, got, warm>>
  BY DEF Respond, result
<1>2. asked[f] \in Request /\ now \in Nat
  BY DEF FetchInv, TypeOK
<1>3. /\ ExpiryFor(kind \in {"document", "unwritable"}) \in Nat \cup {Never}
      /\ ExpiryFor(kind \in {"document", "unwritable"}) # Never =>
            ExpiryFor(kind \in {"document", "unwritable"}) = now + NEGATIVE_TTL
  BY <1>2, FetchAssumption DEF ExpiryFor
<1>4. kind \notin OldKind
  BY DEF Kind, OldKind
<1>5. /\ rec \in HttpRecord /\ rec.of = asked[f] /\ rec.kind = kind
      /\ Sound(rec) /\ rec # Nothing
  BY <1>2, <1>3, <1>4, FetchAssumption DEF Made, HttpRecord, Sound
<1> HIDE DEF rec
<1>6. TypeOK'
  BY <1>1, <1>5 DEF FetchInv, TypeOK, Writing
<1>7. \A q \in Key : Filed(q)'
  BY <1>1 DEF FetchInv, Filed, Sound
<1>8. \A g \in Fetch : Pending(g)'
  <2>1. \A g \in Fetch : pc'[g] = "storing" => g = f
    BY <1>1 DEF FetchInv, TypeOK
  <2>2. Sound(rec)'
    BY <1>1, <1>5 DEF Sound, rec, Made, ExpiryFor
  <2>3. QED
    BY <1>1, <1>5, <2>1, <2>2 DEF Pending, Sound
<1>9. \A g \in Fetch : Answered(g)'
  BY <1>1 DEF FetchInv, Answered, Owned, Acceptable, IsNotText
<1>10. QED
  BY <1>1, <1>6, <1>7, <1>8, <1>9 DEF FetchInv

\* A fetch returns what it made; stored or not, it is its own.
LEMMA ReturnKeeps ==
    ASSUME FetchInv, NEW f \in Fetch, Store(f) \/ StoreFails(f)
    PROVE  FetchInv'
<1> DEFINE k == RequestKey(asked[f])
           rec == temporary
<1>1. /\ pc[f] = "storing"
      /\ answer' = [answer EXCEPT ![f] = Acceptable(rec)]
      /\ got' = [got EXCEPT ![f] = rec]
      /\ temporary' = Nothing
      /\ pc' = [pc EXCEPT ![f] = "done"]
      /\ UNCHANGED <<now, asked, warm>>
      /\ \/ UNCHANGED cache
         \/ rec.kind # "unwritable" /\ cache' = [cache EXCEPT ![k] = rec]
  BY DEF Store, StoreFails, Return, Acceptable
<1>2. /\ Sound(rec) /\ rec.of = asked[f] /\ rec \in HttpRecord
      /\ asked[f] \in Request /\ k \in Key
  BY <1>1, KeyOfRequest DEF FetchInv, TypeOK, Pending, Sound
<1>3. FiledUnder(rec, k) /\ Owned(rec, asked[f])
  BY <1>2 DEF FiledUnder, Owned
<1>4. Acceptable(rec) \in HttpRecord \cup {Nothing}
  BY <1>2, AcceptableType
<1>5. \A q \in Key : cache'[q] = cache[q] \/ (q = k /\ cache'[q] = rec /\ rec.kind # "unwritable")
  BY <1>1 DEF FetchInv
<1>6. /\ cache' \in [Key -> {Missing, Torn} \cup HttpRecord]
      /\ \A q \in Key : Filed(q)'
  <2>1. cache' \in [Key -> {Missing, Torn} \cup HttpRecord]
    BY <1>1, <1>2 DEF FetchInv
  <2>2. ASSUME NEW q \in Key PROVE Filed(q)'
    <3>1. CASE cache'[q] = cache[q]
      BY <1>1, <3>1 DEF FetchInv, Filed, Sound
    <3>2. CASE q = k /\ cache'[q] = rec /\ rec.kind # "unwritable"
      BY <1>1, <1>2, <1>3, <3>2 DEF Filed, Sound
    <3>3. QED
      BY <1>5, <3>1, <3>2
  <2>3. QED
    BY <2>1, <2>2
<1>7. \A g \in Fetch : pc'[g] # "storing"
  BY <1>1 DEF FetchInv, TypeOK
<1>8. TypeOK'
  <2>1. \A q \in Key : cache'[q] \notin {Missing, Torn} =>
           cache'[q] \in HttpRecord /\ cache'[q].kind # "unwritable" /\ cache'[q].fetched_at <= now'
    BY <1>6 DEF Filed, Sound
  <2>2. answer' \in [Fetch -> HttpRecord \cup {Nothing}] /\ got' \in [Fetch -> HttpRecord \cup {Nothing}]
    BY <1>1, <1>2, <1>4 DEF FetchInv, TypeOK
  <2>3. pc' \in [Fetch -> {"new", "asking", "storing", "done", "gone"}]
    BY <1>1 DEF FetchInv, TypeOK
  <2>4. QED
    BY <1>1, <1>7, <2>1, <2>2, <2>3 DEF FetchInv, TypeOK
<1>9. \A g \in Fetch : Pending(g)'
  BY <1>7 DEF Pending
<1>10. \A g \in Fetch : Answered(g)'
  <2>1. ASSUME NEW g \in Fetch, g # f PROVE Answered(g)'
    BY <1>1, <2>1 DEF FetchInv, TypeOK, Answered, Owned, Acceptable, IsNotText
  <2>2. Answered(f)'
    BY <1>1, <1>3 DEF FetchInv, TypeOK, Answered, Owned, Acceptable, IsNotText
  <2>3. QED
    BY <2>1, <2>2
<1>11. QED
  BY <1>6, <1>8, <1>9, <1>10 DEF FetchInv

LEMMA FetchInvHolds == Spec => []FetchInv
<1>1. FetchInv /\ [Next]_vars => FetchInv'
  <2> SUFFICES ASSUME FetchInv, [Next]_vars PROVE FetchInv'
    OBVIOUS
  <2>0. ASSUME UNCHANGED <<cache, asked, result>>,
               now' \in Nat, now <= now',
               pc' \in [Fetch -> {"new", "asking", "storing", "done", "gone"}],
               \/ \A g \in Fetch : pc'[g] # "storing"
               \/ /\ UNCHANGED temporary
                  /\ \A g \in Fetch : pc'[g] = "storing" => pc[g] = "storing",
               temporary' \in HttpRecord \cup {Nothing}
        PROVE  FetchInv'
    <3>1. \A rec : Sound(rec) => rec.fetched_at <= now'
      <4>1. ASSUME NEW rec, Sound(rec) PROVE rec.fetched_at <= now'
        <5>1. rec.fetched_at \in Nat /\ rec.fetched_at <= now /\ now \in Nat
          BY <4>1 DEF Sound, HttpRecord, FetchInv, TypeOK
        <5>2. QED
          BY <5>1, <2>0
      <4>2. QED
        BY <4>1
    <3>2. \A k \in Key : Filed(k)'
      BY <2>0, <3>1 DEF FetchInv, Filed, Sound
    <3>3. \A g \in Fetch : Pending(g)'
      BY <2>0, <3>1 DEF FetchInv, Pending, Sound
    <3>4. \A g \in Fetch : Answered(g)'
      BY <2>0 DEF FetchInv, Answered, Owned, Acceptable, IsNotText, result
    <3>5. TypeOK'
      <4>1. \A k \in Key : cache'[k] \notin {Missing, Torn} =>
              cache'[k] \in HttpRecord /\ cache'[k].kind # "unwritable" /\ cache'[k].fetched_at <= now'
        BY <3>2 DEF Filed, Sound
      <4>2. \A g, h \in Fetch : pc'[g] = "storing" => Writing' /\ (pc'[h] = "storing" => h = g)
        BY <2>0 DEF FetchInv, TypeOK, Writing
      <4>3. QED
        BY <2>0, <4>1, <4>2 DEF FetchInv, TypeOK, result
    <3>6. QED
      BY <2>0, <3>2, <3>3, <3>4, <3>5 DEF FetchInv
  <2> USE DEF Writing
  <2>1. ASSUME NEW f \in Fetch, Ask(f) \/ Fail(f) \/ Raise(f) PROVE FetchInv'
    BY <2>0, <2>1 DEF Ask, Fail, Raise, FetchInv, TypeOK
  <2>2. CASE Kill
    BY <2>0, <2>2 DEF Kill, FetchInv, TypeOK
  <2>3. CASE Tick
    BY <2>0, <2>3 DEF Tick, FetchInv, TypeOK
  <2>4. CASE UNCHANGED vars
    BY <2>0, <2>4 DEF vars, FetchInv, TypeOK
  <2>5. QED
    BY <2>1, <2>2, <2>3, <2>4, HitKeeps, RespondKeeps, ReturnKeeps DEF Next
<1>2. QED
  BY <1>1, InitFiled, PTL DEF Spec

\* Every reachable state is well typed: no file holds what could not be written, none comes
\* from the future, and at most one fetch is writing.
THEOREM TypeCorrect == Spec => []TypeOK
BY FetchInvHolds, PTL DEF FetchInv

\* Whatever interleaves, dies or fails to be stored, and on every directory, a fetch is
\* answered with what an origin said to that very request, or from a document stored by an
\* older version under the name this request has today.
THEOREM OwnRequestHolds == Spec => []AnswersOwnRequest
<1>1. FetchInv => AnswersOwnRequest
  BY DEF FetchInv, Answered, Owned, AnswersOwnRequest
<1>2. QED
  BY <1>1, FetchInvHolds, PTL

\* A cached response is answered as it was when it came.
THEOREM WarmIsCold == Spec => []WarmAnswersAsCold
<1>1. FetchInv => WarmAnswersAsCold
  BY DEF FetchInv, Answered, WarmAnswersAsCold
<1>2. QED
  BY <1>1, FetchInvHolds, PTL

\* Only f's own hit makes its answer a warm one.
LEMMA WarmByHit ==
    ASSUME FetchInv, Next, NEW f \in Fetch, warm'[f], ~warm[f]
    PROVE  Hit(f)
<1>1. ASSUME NEW g \in Fetch, Hit(g), g # f PROVE FALSE
  BY <1>1 DEF Hit, FetchInv, TypeOK
<1>2. ASSUME NEW g \in Fetch, Ask(g) \/ Store(g) \/ StoreFails(g) \/ Fail(g) \/ Raise(g)
      PROVE  FALSE
  BY <1>2 DEF Ask, Store, StoreFails, Return, Fail, Raise, result
<1>3. ASSUME NEW g \in Fetch, NEW kind \in Kind, Respond(g, kind) PROVE FALSE
  BY <1>3 DEF Respond, result
<1>4. ~Kill /\ ~Tick
  BY DEF Kill, Tick, result
<1>5. QED
  BY <1>1, <1>2, <1>3, <1>4 DEF Next

\* A failure that is cached is answered for NEGATIVE_TTL and no longer, whatever its length;
\* refused for ever is only what an older version stored as a document.
THEOREM FailuresHealed == Spec => FailuresHeal
<1>1. FetchInv /\ [Next]_vars =>
        [\A f \in Fetch : warm'[f] /\ ~warm[f] =>
           \/ TextOf(answer'[f]) # Nothing
           \/ now < got'[f].fetched_at + NEGATIVE_TTL
           \/ got'[f].kind = "refused"]_vars
  <2> SUFFICES ASSUME FetchInv, Next, NEW f \in Fetch, warm'[f], ~warm[f]
               PROVE  \/ TextOf(answer'[f]) # Nothing
                      \/ now < got'[f].fetched_at + NEGATIVE_TTL
                      \/ got'[f].kind = "refused"
    OBVIOUS
  <2> DEFINE rec == Cached(f)
  <2>1. Hit(f)
    BY WarmByHit
  <2>2. RequestKey(asked[f]) \in Key
    BY KeyOfRequest DEF FetchInv, TypeOK
  <2>3. rec # Nothing /\ got'[f] = rec /\ answer'[f] = Acceptable(rec)
    BY <2>1 DEF Hit, FetchInv, TypeOK
  <2>4. HasText(rec) \/ now < rec.fetched_at + NEGATIVE_TTL
    BY <2>2, <2>3, ReadIsFiled DEF Cached
  <2> HIDE DEF rec
  <2>5. CASE HasText(rec) /\ rec.kind # "refused"
    <3>1. Acceptable(rec) = rec /\ TextOf(rec) = rec
      BY <2>3, <2>5 DEF Acceptable, TextOf, HasText, IsNotText
    <3>2. QED
      BY <2>3, <3>1
  <2>6. QED
    BY <2>3, <2>4, <2>5
<1>2. QED
  BY <1>1, FetchInvHolds, PTL DEF Spec, FailuresHeal

\* Wherever a process is killed, a cache file is left alone or becomes, in one step and
\* whole, the answer just given to the request it is named after.
THEOREM OnlyAnswersFiled == Spec => OnlyAnswersAreFiled
<1>1. FetchInv /\ [Next]_vars =>
        [\A k \in Key : cache'[k] # cache[k] =>
           \E f \in Fetch :
             /\ RequestKey(asked[f]) = k /\ pc[f] = "storing" /\ pc'[f] = "done"
             /\ cache'[k] = got'[f] /\ got'[f].of = asked[f]]_vars
  <2> SUFFICES ASSUME FetchInv, Next, NEW k \in Key, cache'[k] # cache[k]
               PROVE  \E f \in Fetch :
                        /\ RequestKey(asked[f]) = k /\ pc[f] = "storing" /\ pc'[f] = "done"
                        /\ cache'[k] = got'[f] /\ got'[f].of = asked[f]
    OBVIOUS
  <2>1. PICK f \in Fetch : Store(f)
    BY DEF Next, Hit, Ask, StoreFails, Fail, Raise, Respond, Kill, Tick
  <2>2. /\ cache' = [cache EXCEPT ![RequestKey(asked[f])] = temporary]
        /\ pc[f] = "storing" /\ pc' = [pc EXCEPT ![f] = "done"]
        /\ got' = [got EXCEPT ![f] = temporary]
    BY <2>1 DEF Store, Return
  <2>3. RequestKey(asked[f]) = k /\ cache'[k] = temporary
    BY <2>2 DEF FetchInv
  <2>4. pc'[f] = "done" /\ got'[f] = temporary /\ temporary.of = asked[f]
    BY <2>2 DEF FetchInv, TypeOK, Pending
  <2>5. QED
    BY <2>2, <2>3, <2>4
<1>2. QED
  BY <1>1, FetchInvHolds, PTL DEF Spec, OnlyAnswersAreFiled
=============================================================================
