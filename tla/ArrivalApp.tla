----------------------------- MODULE ArrivalApp -----------------------------
(***************************************************************************)
(* The FastAPI application of arrival.web.app: its process-local state and *)
(* the handlers that change it, as they interleave on one event loop.      *)
(*                                                                         *)
(* POST /arrive is cut at its one await, the say-out-loud LLM call inside  *)
(* make_digest: presence and the match list are settled in the step before *)
(* it, the digest is remembered in the step after it, and any other        *)
(* request may run in between.  Every other handler has no await after the *)
(* body is parsed and is one step.                                         *)
(***************************************************************************)
EXTENDS Integers, FiniteSets, Presence

CONSTANTS
    Request,          \* POST /arrive requests; each makes at most one digest
    Token,            \* what a request body can name
    Nobody,           \* DossierStore.resolve answering None
    Resolve,          \* DossierStore.resolve, tabulated: [Token -> Person or Nobody]
    Matchable,        \* people with a node in the interest graph (resolved dossiers)
    Raw,              \* summed hub contributions of a pair: [Person \X Person -> Nat]
    MEET_CAP,         \* digest.MEET_CAP
    DIGEST_HISTORY,   \* app.DIGEST_HISTORY
    NoDigest          \* dict.get answering None

\* contracts.Digest, as far as the handlers depend on it.
Digest == [person : Person, meet : SUBSET Person, opener : {"model", "template"}]

ASSUME AppAssumption ==
    /\ Person \subseteq Nat           \* ids stand for their rank in string order
    /\ Nobody \notin Person
    /\ Resolve \in [Token -> Person \cup {Nobody}]
    /\ Matchable \subseteq Person
    /\ Raw \in [Person \X Person -> Nat]
    /\ MEET_CAP \in Nat \ {0}
    /\ DIGEST_HISTORY \in Nat \ {0}
    /\ NoDigest \notin Digest

VARIABLES
    pc,               \* where each POST /arrive is
    arriver,          \* its local person_id
    room,             \* its local `matches`: everyone match_present answered for
    opener,           \* its local say_out_loud: whose line it is
    llm,              \* app.state.llm: has a client been built (or injected)
    digests,          \* app.state.digests
    digest_order,     \* app.state.digest_order
    arrivals,         \* observer: accepted arrivals of this process, in order
    answered          \* observer: requests answered with a digest, in order

local == <<pc, arriver, room, opener>>
table == <<digests, digest_order>>
observers == <<arrivals, answered>>
vars == <<present, pc, arriver, room, opener, llm, digests, digest_order,
          arrivals, answered>>

------------------------------------------------------------------------------
(* Matching, and the Meet section                                           *)

\* graph.match: one row per present person other than the arriver, skipping
\* the ids with no person node.
MatchRowsWithSelf(a, people) == {p \in people : p \in Matchable}   \* mutant
MatchRows(a, people) == {p \in people : p # a /\ p \in Matchable}

\* The order of _capped_meet: score falls with raw, so by raw sum and then by id.
\* An arriver with no node in the graph shares no hub with anyone.
RowScore(a, p) == IF a \in Matchable THEN Raw[a, p] ELSE 0
Outranks(a, p, q) ==
    \/ RowScore(a, p) > RowScore(a, q)
    \/ RowScore(a, p) = RowScore(a, q) /\ p < q

\* Mutant: the cap applied before the sort.
FirstRows(a, rows) == {p \in rows : Cardinality({q \in rows : q < p}) < MEET_CAP}

\* _capped_meet: the MEET_CAP rows that fewer than MEET_CAP rows outrank.
CappedMeet(a, rows) ==
    {p \in rows : Cardinality({q \in rows : Outranks(a, q, p)}) < MEET_CAP}

------------------------------------------------------------------------------
(* Initial state and handlers                                               *)

\* create_app: an empty building, no digests, the LLM client built lazily.
Init ==
    /\ PresenceInit
    /\ pc = [r \in Request |-> "new"]
    /\ arriver = [r \in Request |-> Nobody]
    /\ room = [r \in Request |-> {}]
    /\ opener = [r \in Request |-> "none"]
    /\ llm = FALSE
    /\ digests = [r \in Request |-> NoDigest]
    /\ digest_order = <<>>
    /\ arrivals = <<>>
    /\ answered = <<>>

\* POST /arrive naming nobody on the roster: 404 before any work (R4).
ArriveOffRoster(r, t) ==
    /\ pc[r] = "new"
    /\ Resolve[t] = Nobody
    /\ pc' = [pc EXCEPT ![r] = "notfound"]
    /\ UNCHANGED <<present, arriver, room, opener, llm, table, observers>>

\* POST /arrive up to the await: presence first, then the match against
\* everyone present at this moment, then the LLM call is sent.
Arrive(r, t) ==
    /\ pc[r] = "new"
    /\ Resolve[t] # Nobody
    /\ PresenceArrive(Resolve[t])
    /\ arriver' = [arriver EXCEPT ![r] = Resolve[t]]
    /\ room' = [room EXCEPT ![r] = MatchRows(Resolve[t], ToSet(present'))]
    /\ llm' = TRUE
    /\ pc' = [pc EXCEPT ![r] = "asking"]
    /\ arrivals' = Append(arrivals, [req |-> r, person |-> Resolve[t]])
    /\ UNCHANGED <<opener, table, answered>>

\* The structured call returns a line; a line that fails R14 or R18 is
\* replaced by the template.
LlmAnswers(r) ==
    /\ pc[r] = "asking"
    /\ \E valid \in BOOLEAN :
         opener' = [opener EXCEPT ![r] = IF valid THEN "model" ELSE "template"]
    /\ pc' = [pc EXCEPT ![r] = "composing"]
    /\ UNCHANGED <<present, arriver, room, llm, table, observers>>

\* Mutant: no wait_for around a call that may never return.
KeepsWaiting(r) == pc[r] = "asking" /\ UNCHANGED vars

\* The call raises, or asyncio.wait_for gives up after 2.5 s: the template.
LlmFailsOrTimesOut(r) ==
    /\ pc[r] = "asking"
    /\ opener' = [opener EXCEPT ![r] = "template"]
    /\ pc' = [pc EXCEPT ![r] = "composing"]
    /\ UNCHANGED <<present, arriver, room, llm, table, observers>>

\* Mutants of Newest: no eviction; and pop() for pop(0).
Everything(s) == s
Oldest(s) == IF Len(s) > DIGEST_HISTORY THEN SubSeq(s, 1, DIGEST_HISTORY) ELSE s

\* _remember's `while len(digest_order) > DIGEST_HISTORY: pop(0)`.
Newest(s) ==
    IF Len(s) > DIGEST_HISTORY
    THEN SubSeq(s, Len(s) - DIGEST_HISTORY + 1, Len(s))
    ELSE s

\* The handler resumed after the await: the digest is assembled, remembered
\* (evicting the oldest) and its id returned, with no further await.
Answer(r) ==
    /\ pc[r] = "composing"
    /\ digest_order' = Newest(Append(digest_order, r))
    /\ digests' =
         [d \in Request |->
            IF d \in ToSet(Append(digest_order, r)) \ ToSet(digest_order')
            THEN NoDigest
            ELSE IF d = r
            THEN [person |-> arriver[r],
                  meet |-> CappedMeet(arriver[r], room[r]),
                  opener |-> opener[r]]
            ELSE digests[d]]
    /\ pc' = [pc EXCEPT ![r] = "answered"]
    /\ answered' = Append(answered, r)
    /\ UNCHANGED <<present, arriver, room, opener, llm, arrivals>>

\* POST /leave naming somebody on the roster; leaving twice is a no-op.
\* Naming anybody else is a 404 that touches nothing.
Leave(t) ==
    /\ Resolve[t] # Nobody
    /\ PresenceLeave(Resolve[t])
    /\ UNCHANGED <<local, llm, table, observers>>

\* The instance stops and create_app runs again: everything in memory is gone,
\* and the requests in flight get no answer.
Restart ==
    /\ present' = <<>>
    /\ pc' = [r \in Request |-> IF pc[r] = "new" THEN "new" ELSE "gone"]
    /\ arriver' = [r \in Request |-> Nobody]
    /\ room' = [r \in Request |-> {}]
    /\ opener' = [r \in Request |-> "none"]
    /\ llm' = FALSE
    /\ digests' = [r \in Request |-> NoDigest]
    /\ digest_order' = <<>>
    /\ arrivals' = <<>>
    /\ answered' = <<>>

Next ==
    \/ \E r \in Request, t \in Token : ArriveOffRoster(r, t) \/ Arrive(r, t)
    \/ \E r \in Request : LlmAnswers(r) \/ LlmFailsOrTimesOut(r) \/ Answer(r)
    \/ \E t \in Token : Leave(t)
    \/ Restart

\* wait_for's timer always fires, and the event loop always resumes a handler
\* whose awaited future is done.  The LLM, the host and the platform promise
\* nothing.
Fairness ==
    \A r \in Request : WF_vars(LlmFailsOrTimesOut(r)) /\ WF_vars(Answer(r))

Spec == Init /\ [][Next]_vars /\ Fairness

------------------------------------------------------------------------------
(* Properties                                                               *)

TypeOK ==
    /\ PresenceTypeOK
    /\ pc \in [Request -> {"new", "notfound", "asking", "composing",
                           "answered", "gone"}]
    /\ arriver \in [Request -> Person \cup {Nobody}]
    /\ room \in [Request -> SUBSET Person]
    /\ opener \in [Request -> {"none", "model", "template"}]
    /\ llm \in BOOLEAN
    /\ digests \in [Request -> Digest \cup {NoDigest}]
    /\ digest_order \in Seq(Request)
    /\ arrivals \in Seq([req : Request, person : Person])
    /\ answered \in Seq(Request)

\* digests and digest_order are two structures that only _remember keeps in
\* step: the ids addressable at GET /digest/{id} are exactly those queued for
\* eviction, each queued once, and never more than DIGEST_HISTORY.
DigestTable ==
    /\ {d \in Request : digests[d] # NoDigest} = ToSet(digest_order)
    /\ NoRepeat(digest_order)
    /\ Len(digest_order) <= DIGEST_HISTORY

\* However the handlers interleave, the digests still served are those of the
\* last DIGEST_HISTORY requests answered by this process, oldest first: an
\* id just handed out survives until DIGEST_HISTORY later ones are.
NewestDigestsServed ==
    /\ Len(digest_order) = IF Len(answered) < DIGEST_HISTORY
                           THEN Len(answered) ELSE DIGEST_HISTORY
    /\ \A i \in DOMAIN digest_order :
         digest_order[i] = answered[Len(answered) - Len(digest_order) + i]

\* The latest accepted arrival of p, as an index into `arrivals`.
Visit(p) == CHOOSE k \in DOMAIN arrivals :
                /\ arrivals[k].person = p
                /\ \A m \in DOMAIN arrivals : arrivals[m].person = p => m <= k

\* GET /building lists people by their latest arrival, most recent last,
\* through re-arrivals, departures and arrivals still waiting for the LLM.
PresenceFollowsArrivals ==
    \A i, j \in DOMAIN present : i < j => Visit(present[i]) < Visit(present[j])

\* For any two people in the building (the earlier one known to the graph),
\* the later one's latest arrival considered the earlier one, and its digest,
\* while it is served, introduces them unless MEET_CAP better matches fill it.
EveryoneIntroduced ==
    \A i, j \in DOMAIN present :
        i < j /\ present[i] \in Matchable =>
            LET r == arrivals[Visit(present[j])].req
                others == digests[r].meet
            IN  /\ present[i] \in room[r]
                /\ digests[r] # NoDigest /\ present[i] \notin others =>
                     Cardinality({q \in others :
                         Outranks(present[j], q, present[i])}) = MEET_CAP

\* R5 as SPEC.md words it: a digest made after somebody left does not propose
\* them.  (The code matches before its await and remembers after it.)
SubsequentDigestsSkipLeavers ==
    [][\A r \in Request :
         digests[r] = NoDigest /\ digests'[r] # NoDigest =>
             digests'[r].meet \subseteq ToSet(present)]_vars

\* No entry of the service's tables is what stands for a missing one.
ASSUME ReceptionAssumption ==
    /\ NoDigest \notin [who : Person, found : SUBSET Person]
    /\ NoDigest \notin [who : Person, met : SUBSET Person]

\* The application implements the service Reception describes.
Host == INSTANCE Reception WITH
    Known <- Matchable,
    MeetCap <- MEET_CAP,
    None <- NoDigest,
    inside <- InBuilding,
    owed <- [r \in Request |->
               IF pc[r] \in {"asking", "composing"}
               THEN [who |-> arriver[r], found |-> room[r]] ELSE NoDigest],
    shown <- [r \in Request |->
               IF digests[r] = NoDigest THEN NoDigest
               ELSE [who |-> digests[r].person, met |-> digests[r].meet]]

\* Every step of the application is a step of that service or invisible to it.
ServesReception == Host!Spec

\* Every accepted arrival is answered whatever the LLM does, unless the
\* process dies first.
EveryArrivalAnswered ==
    \A r \in Request : pc[r] = "asking" ~> pc[r] \in {"answered", "gone"}
=============================================================================
