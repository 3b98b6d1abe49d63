----------------------------- MODULE HttpFetch -----------------------------
(***************************************************************************)
(* arrival.http.client and arrival.http.cache: the one door to the         *)
(* network, and the files behind it.  A fetch is a coroutine with a single *)
(* await (limiter, request and body together).  Before it the cache is     *)
(* read; after it the response is classified, stored and returned without  *)
(* another await.  Nothing joins two fetches of one URL that are in flight *)
(* together, and a response is stored under the key read before the await. *)
(***************************************************************************)
EXTENDS Integers

CONSTANTS
    Fetch,               \* calls of fetch_record, each with one request
    Url, Verb, Headers, Body,
    Request,             \* the requests that are made: records of these four
    NoHeaders, NoBody,   \* headers=None, json_body=None
    NEGATIVE_TTL,        \* NEGATIVE_TTL_SECONDS, in ticks
    MaxNow,              \* bound: the last tick TLC explores
    Directory,           \* the cache directories a process may start on
    Never,               \* no expires_at: durable
    Missing, Torn, Nothing

\* What a response turns out to be: usable text; text that cannot be written
\* (a lone surrogate); a text body with nothing in it; a body that is not text.
Kind == {"document", "unwritable", "empty", "binary"}

\* What else a cache directory holds: text kept by hand without an envelope; and of
\* older versions documents, negatives written before expiries existed, and bodies that
\* are not text stored as documents, before T-026.
OldKind == {"fixture", "legacy", "frozen", "refused"}

\* An HttpRecord and its envelope; `of` is the request that was answered with it.
HttpRecord ==
    [kind : Kind \cup OldKind, of : Request, fetched_at : Nat,
     expires_at : Nat \cup {Never}]

\* Mutant of RequestKey: a request's body left out.
KeyWithoutBody(r) ==
    IF r.verb = "GET" /\ r.headers = NoHeaders THEN <<r.url>>
    ELSE <<r.verb, r.url, r.headers>>

\* _request_key: a plain GET is its URL, anything else names all that can change the
\* answer.
RequestKey(r) ==
    IF r.verb = "GET" /\ r.headers = NoHeaders /\ r.body = NoBody THEN <<r.url>>
    ELSE <<r.verb, r.url, r.body, r.headers>>

\* The key before T-025: no headers, and no method where there is no body.
OldKey(r) ==
    IF r.body = NoBody THEN <<r.url>> ELSE <<r.verb, r.url, r.body, NoHeaders>>

Key == {RequestKey(r) : r \in Request}

\* The files that hands and older versions may have left under a name.
Left(k) ==
    {[kind |-> "fixture", of |-> r, fetched_at |-> 0, expires_at |-> Never] :
        r \in {r \in Request : RequestKey(r) = k}}
    \cup
    {[kind |-> kind, of |-> r, fetched_at |-> 0, expires_at |-> Never] :
        kind \in OldKind \ {"fixture"}, r \in {r \in Request : k \in {OldKey(r), RequestKey(r)}}}

ASSUME FetchAssumption ==
    /\ Request \subseteq [url : Url, verb : Verb, headers : Headers, body : Body]
    /\ NEGATIVE_TTL \in Nat \ {0} /\ MaxNow \in Nat
    /\ Never \notin Nat
    /\ Nothing \notin {Missing, Torn} \cup HttpRecord
    /\ {Missing, Torn} \cap HttpRecord = {}
    /\ Directory \subseteq [Key -> {Missing, Torn} \cup HttpRecord]
    /\ \A dir \in Directory, k \in Key : dir[k] \in {Missing, Torn} \cup Left(k)

VARIABLES
    now,                 \* datetime.now(UTC)
    cache,               \* .cache/http: Missing, Torn or an HttpRecord, per key
    temporary,           \* write_record's .json.tmp: an HttpRecord, or Nothing
    pc,                  \* per fetch: "new", "asking", "storing", "done" or "gone"
    asked,               \* per fetch: the request it makes
    answer,              \* per fetch: the record fetch_record returned, or Nothing
    got,                 \* observer: the record that answer was made from, or Nothing
    warm                 \* observer: was that record read from the cache

result == <<answer, got, warm>>
vars == <<now, cache, temporary, pc, asked, result>>

------------------------------------------------------------------------------
(* The cache file, read and written                                         *)

\* The text stored beside the body is not blank: has_document on the way in, and
\* _extract(record)[0].strip() on the way out.
HasText(rec) == rec.kind \in {"document", "unwritable", "fixture", "legacy", "refused"}

\* _is_not_text
IsNotText(rec) == rec.kind \in {"binary", "refused"}

\* Mutant: an expiry that is written but never compared.
ReadForever(file) ==
    IF file \in {Missing, Torn} \/ (file.expires_at = Never /\ ~HasText(file))
    THEN Nothing ELSE file

\* read_record: unreadable, expired, or a negative without an expiry is a miss.
ReadRecord(file) ==
    IF \/ file \in {Missing, Torn}
       \/ file.expires_at # Never /\ file.expires_at <= now
       \/ file.expires_at = Never /\ ~HasText(file)
    THEN Nothing ELSE file

\* _expiry_for
ExpiryFor(durable) == IF durable THEN Never ELSE now + NEGATIVE_TTL

\* fetch_record's answer for a cached record.
WarmAsStored(rec) == rec                                              \* mutant
Acceptable(rec) == IF IsNotText(rec) THEN Nothing ELSE rec

\* fetch_text's answer for fetch_record's: a document, or None.
TextOf(rec) == IF rec # Nothing /\ HasText(rec) THEN rec ELSE Nothing

------------------------------------------------------------------------------
Init ==
    /\ now = 0
    /\ cache \in Directory
    /\ temporary = Nothing
    /\ pc = [f \in Fetch |-> "new"]
    /\ asked \in [Fetch -> Request]
    /\ answer = [f \in Fetch |-> Nothing]
    /\ got = [f \in Fetch |-> Nothing]
    /\ warm = [f \in Fetch |-> FALSE]

\* There is no await between a response and the return, so no other fetch runs while a
\* record is being written; the process may die there all the same.
Writing == temporary # Nothing

Cached(f) == ReadRecord(cache[RequestKey(asked[f])])

\* Up to the await: a servable cached record is the answer, at no cost to the host.
Hit(f) ==
    /\ pc[f] = "new" /\ ~Writing
    /\ Cached(f) # Nothing
    /\ answer' = [answer EXCEPT ![f] = Acceptable(Cached(f))]
    /\ got' = [got EXCEPT ![f] = Cached(f)]
    /\ warm' = [warm EXCEPT ![f] = TRUE]
    /\ pc' = [pc EXCEPT ![f] = "done"]
    /\ UNCHANGED <<now, cache, temporary, asked>>

Ask(f) ==
    /\ pc[f] = "new" /\ ~Writing
    /\ Cached(f) = Nothing
    /\ pc' = [pc EXCEPT ![f] = "asking"]
    /\ UNCHANGED <<now, cache, temporary, asked, result>>

\* The record made of a response to f.  Of a body that is not text only the refusal is kept.
Made(f, kind) ==
    [kind |-> kind, of |-> asked[f], fetched_at |-> now,
     expires_at |-> ExpiryFor(kind \in {"document", "unwritable"})]

\* Mutant: the cache file itself opened for writing.
RespondInPlace(f, kind) ==
    /\ pc[f] = "asking" /\ ~Writing
    /\ cache' = [cache EXCEPT ![RequestKey(asked[f])] = Torn]
    /\ temporary' = Made(f, kind)
    /\ pc' = [pc EXCEPT ![f] = "storing"]
    /\ UNCHANGED <<now, asked, result>>

\* A body arrived: classified, and written beside the cache file.
Respond(f, kind) ==
    /\ pc[f] = "asking" /\ ~Writing
    /\ temporary' = Made(f, kind)
    /\ pc' = [pc EXCEPT ![f] = "storing"]
    /\ UNCHANGED <<now, cache, asked, result>>

\* The record in hand is returned, stored or not.
Return(f) ==
    /\ pc[f] = "storing"
    /\ answer' = [answer EXCEPT ![f] = IF IsNotText(temporary) THEN Nothing ELSE temporary]
    /\ got' = [got EXCEPT ![f] = temporary]
    /\ temporary' = Nothing
    /\ pc' = [pc EXCEPT ![f] = "done"]
    /\ UNCHANGED <<now, asked, warm>>

\* The rename.
Store(f) ==
    /\ Return(f) /\ temporary.kind # "unwritable"
    /\ cache' = [cache EXCEPT ![RequestKey(asked[f])] = temporary]

\* A full disk, a directory that cannot be written, a text that cannot be encoded: never
\* an error, and the old file stays.
StoreFails(f) == Return(f) /\ UNCHANGED cache

\* HTTP 4xx or 5xx, a timeout, no such host, a body over MAX_RESPONSE_BYTES, one
\* that cannot be decoded: None, and nothing is stored.
Fail(f) ==
    /\ pc[f] = "asking" /\ ~Writing
    /\ pc' = [pc EXCEPT ![f] = "done"]
    /\ UNCHANGED <<now, cache, temporary, asked, result>>

\* sniff_content_type and _extract stand outside the handlers: what they raise leaves the
\* fetch (a RecursionError over deeply nested JSON), before anything is stored.
Raise(f) ==
    /\ pc[f] = "asking" /\ ~Writing
    /\ pc' = [pc EXCEPT ![f] = "gone"]
    /\ UNCHANGED <<now, cache, temporary, asked, result>>

\* The build is killed: the fetches in flight are gone.  A leftover .tmp is never read.
Kill ==
    /\ \E f \in Fetch : pc[f] \in {"asking", "storing"}
    /\ pc' = [f \in Fetch |-> IF pc[f] \in {"asking", "storing"} THEN "gone" ELSE pc[f]]
    /\ temporary' = Nothing
    /\ UNCHANGED <<now, cache, asked, result>>

\* The few instructions of a write take no time.
Tick ==
    /\ now < MaxNow /\ ~Writing
    /\ now' = now + 1
    /\ UNCHANGED <<cache, temporary, pc, asked, result>>

Next ==
    \/ \E f \in Fetch : Hit(f) \/ Ask(f) \/ Store(f) \/ StoreFails(f) \/ Fail(f) \/ Raise(f)
    \/ \E f \in Fetch, kind \in Kind : Respond(f, kind)
    \/ Kill
    \/ Tick

Spec == Init /\ [][Next]_vars

------------------------------------------------------------------------------
\* Stored files hold answers already given; one that cannot be encoded is never among
\* them.  At most one fetch writes, and only then is there a file beside the cache's.
TypeOK ==
    /\ now \in Nat
    /\ \A k \in Key : cache[k] \notin {Missing, Torn} =>
         /\ cache[k] \in HttpRecord
         /\ cache[k].kind # "unwritable"
         /\ cache[k].fetched_at <= now
    /\ temporary \in HttpRecord \cup {Nothing}
    /\ pc \in [Fetch -> {"new", "asking", "storing", "done", "gone"}]
    /\ \A f, g \in Fetch :
         pc[f] = "storing" => Writing /\ (pc[g] = "storing" => g = f)
    /\ asked \in [Fetch -> Request]
    /\ answer \in [Fetch -> HttpRecord \cup {Nothing}]
    /\ got \in [Fetch -> HttpRecord \cup {Nothing}]
    /\ warm \in [Fetch -> BOOLEAN]

\* A fetch is answered only with what an origin said to that very request: same URL, same
\* method, same body, same headers, whatever else was asked and stored.  The one exception
\* is a document stored before T-025 by a request whose key of then is this one's today: it
\* never expires, so what was said to a token goes on being said to anybody.
AnswersOwnRequest ==
    \A f \in Fetch : got[f] # Nothing =>
        \/ got[f].of = asked[f]
        \/ /\ got[f].kind \in {"legacy", "refused"}
           /\ OldKey(got[f].of) = RequestKey(asked[f])

\* The warm answer and the cold answer made from one response are the same, for
\* fetch_record and for fetch_text.
WarmAnswersAsCold ==
    \A f, g \in Fetch :
        warm[f] /\ ~warm[g] /\ got[f] # Nothing /\ got[f] = got[g] =>
            answer[f] = answer[g] /\ TextOf(answer[f]) = TextOf(answer[g])

\* No text is what the cache answers for NEGATIVE_TTL after the response that yielded none,
\* and no longer: a transient failure heals, also one frozen by an older version.  Only a
\* body that is no text and was stored as a document before T-026 is refused for ever.
FailuresHeal ==
    [][\A f \in Fetch : warm'[f] /\ ~warm[f] =>
         \/ TextOf(answer'[f]) # Nothing
         \/ now < got'[f].fetched_at + NEGATIVE_TTL
         \/ got'[f].kind = "refused"]_vars

\* Whatever dies in the middle, a cache file is left alone or becomes, whole and under the
\* name of that very request, the record from which a fetch is answered in the same step.
OnlyAnswersAreFiled ==
    [][\A k \in Key : cache'[k] # cache[k] =>
         \E f \in Fetch :
           /\ RequestKey(asked[f]) = k /\ pc[f] = "storing" /\ pc'[f] = "done"
           /\ cache'[k] = got'[f] /\ got'[f].of = asked[f]]_vars

\* client.py's docstring, "an answer that yielded usable text is durable": no
\* later response takes its place in the cache.
DocumentsAreDurable ==
    [][\A k \in Key :
         cache[k] \notin {Missing, Torn} /\ cache'[k] # cache[k] =>
             ~HasText(cache[k]) \/ HasText(cache'[k])]_vars

=============================================================================
