--------------------------- MODULE ResolverProofs --------------------------
(* Proofs about LlmBudget and about Resolver, which runs within it: for every    *)
(* roster, every set of documents and sources' answers, every reply of the       *)
(* model, and every budget and gate.                                             *)
EXTENDS Resolver, SequenceLemmas

------------------------------------------------------------------------------
(* The budget                                                               *)

State == {"waiting", "asking", "retrying", "judged", "unsure"}

\* The documents in one of the states Q.
In(f, Q) == {d \in Document : f[d] \in Q}

LEMMA CountType ==
    ASSUME NEW f, NEW Q
    PROVE  /\ IsFiniteSet(In(f, Q))
           /\ Cardinality(In(f, Q)) \in Nat
           /\ Cardinality(In(f, Q)) <= Cardinality(Document)
BY BudgetAssumption, FS_Subset, FS_CardinalityType DEF In

\* One document moves from one state to another: what it does to every count.
LEMMA OneMoves ==
    ASSUME NEW f \in [Document -> State], NEW d \in Document, NEW b \in State, NEW Q
    PROVE  LET old == Cardinality(In(f, Q))
               new == Cardinality(In([f EXCEPT ![d] = b], Q))
           IN  /\ f[d] \notin Q /\ b \in Q => new = old + 1
               /\ f[d] \in Q /\ b \notin Q => new = old - 1
               /\ (f[d] \in Q <=> b \in Q) => new = old
<1> DEFINE g == [f EXCEPT ![d] = b]
<1>1. CASE f[d] \notin Q /\ b \in Q
  <2>1. In(g, Q) = In(f, Q) \cup {d} /\ d \notin In(f, Q)
    BY <1>1 DEF In
  <2>2. QED
    BY <1>1, <2>1, CountType, FS_AddElement
<1>2. CASE f[d] \in Q /\ b \notin Q
  <2>1. In(g, Q) = In(f, Q) \ {d} /\ d \in In(f, Q)
    BY <1>2 DEF In
  <2>2. IsFiniteSet(In(f, Q)) /\ Cardinality(In(f, Q)) \in Nat
    BY CountType
  <2>3. Cardinality(In(f, Q) \ {d}) = Cardinality(In(f, Q)) - 1
    BY <2>1, <2>2, FS_RemoveElement
  <2>4. QED
    BY <1>2, <2>1, <2>3
<1>3. CASE f[d] \in Q <=> b \in Q
  <2>1. In(g, Q) = In(f, Q)
    BY <1>3 DEF In
  <2>2. QED
    BY <1>3, <2>1
<1>4. QED
  BY <1>1, <1>2, <1>3

------------------------------------------------------------------------------
(* The books of one person.  Every call made is in flight, has judged or has   *)
(* failed; a call still at its first request has one more request to spend.    *)

N(Q) == Cardinality(In(pc, Q))

Books ==
    /\ N({"asking", "retrying", "judged", "unsure"}) = used + refused
    /\ errors + N({"judged"}) + N({"asking", "retrying"}) = used
    /\ refused > 0 => used = MAX_LLM_CALLS
    /\ requests + N({"asking"}) <= 2 * used
    /\ N({"asking", "retrying"}) <= MAX_CONCURRENT

Counters ==
    /\ pc \in [Document -> State]
    /\ used \in Nat /\ used <= MAX_LLM_CALLS
    /\ refused \in Nat /\ errors \in Nat /\ requests \in Nat

BudgetInv == Counters /\ Books

\* The counts of the module are the counts of the proof.
LEMMA CountsAre ==
    ASSUME Counters
    PROVE  /\ Made = In(pc, {"asking", "retrying", "judged", "unsure"})
           /\ Judged = In(pc, {"judged"})
           /\ InFlight = In(pc, {"asking", "retrying"})
BY DEF Counters, State, Made, Judged, InFlight, In

LEMMA BudgetStarts == Init => BudgetInv
<1> USE BudgetAssumption
<1> SUFFICES ASSUME Init PROVE BudgetInv
  OBVIOUS
<1>1. \A Q \in SUBSET State : "waiting" \notin Q => In(pc, Q) = {}
  BY DEF Init, In
<1>2. \A Q \in SUBSET State : "waiting" \notin Q => N(Q) = 0
  BY <1>1, FS_EmptySet DEF N
<1>3. /\ N({"asking", "retrying", "judged", "unsure"}) = 0 /\ N({"judged"}) = 0
      /\ N({"asking", "retrying"}) = 0 /\ N({"asking"}) = 0
  BY <1>2 DEF State
<1>4. QED
  BY <1>3 DEF Init, BudgetInv, Counters, Books, State

LEMMA BudgetSteps == BudgetInv /\ [Next]_vars => BudgetInv'
<1> USE BudgetAssumption
<1> SUFFICES ASSUME BudgetInv, [Next]_vars PROVE BudgetInv'
  OBVIOUS
<1> DEFINE made == N({"asking", "retrying", "judged", "unsure"})
           judged == N({"judged"})
           flying == N({"asking", "retrying"})
           first == N({"asking"})
<1>0. made \in Nat /\ judged \in Nat /\ flying \in Nat /\ first \in Nat
  BY CountType DEF N
<1>1. ASSUME NEW d \in Document, NEW b \in State, pc' = [pc EXCEPT ![d] = b]
      PROVE  \A Q : /\ pc[d] \notin Q /\ b \in Q => N(Q)' = N(Q) + 1
                    /\ pc[d] \in Q /\ b \notin Q => N(Q)' = N(Q) - 1
                    /\ (pc[d] \in Q <=> b \in Q) => N(Q)' = N(Q)
  BY <1>1, OneMoves DEF N, BudgetInv, Counters
<1>2. ASSUME NEW d \in Document, Ask(d) PROVE BudgetInv'
  <2>1. pc[d] = "waiting" /\ pc' = [pc EXCEPT ![d] = "asking"] /\ flying < MAX_CONCURRENT
    BY <1>2, CountsAre DEF Ask, Admitted, Holding, N, BudgetInv
  <2>2. made' = made + 1 /\ judged' = judged /\ flying' = flying + 1 /\ first' = first + 1
    BY <1>1, <2>1 DEF State
  <2>3. Counters'
    BY <1>2, <2>1 DEF Ask, BudgetInv, Counters, State
  <2> HIDE DEF made, judged, flying, first
  <2>4. QED
    BY <1>0, <1>2, <2>1, <2>2, <2>3
    DEF Ask, BudgetInv, Counters, Books, made, judged, flying, first
<1>3. ASSUME NEW d \in Document, Refuse(d) PROVE BudgetInv'
  <2>1. pc[d] = "waiting" /\ pc' = [pc EXCEPT ![d] = "unsure"] /\ used >= MAX_LLM_CALLS
    BY <1>3, CountsAre DEF Refuse, Admitted, Holding, N, In, BudgetInv
  <2>2. made' = made + 1 /\ judged' = judged /\ flying' = flying /\ first' = first
    BY <1>1, <2>1 DEF State
  <2>3. Counters'
    BY <1>3, <2>1 DEF Refuse, BudgetInv, Counters, State, counters
  <2> HIDE DEF made, judged, flying, first
  <2>4. QED
    BY <1>0, <1>3, <2>1, <2>2, <2>3
    DEF Refuse, BudgetInv, Counters, Books, counters, made, judged, flying, first
<1>4. ASSUME NEW d \in Document, Answer(d) PROVE BudgetInv'
  <2>1. pc[d] \in {"asking", "retrying"} /\ pc' = [pc EXCEPT ![d] = "judged"]
    BY <1>4 DEF Answer, InFlight
  <2>2. /\ made' = made /\ judged' = judged + 1 /\ flying' = flying - 1
        /\ first' = first \/ first' = first - 1
    BY <1>1, <2>1 DEF State
  <2>3. Counters'
    BY <1>4, <2>1 DEF Answer, BudgetInv, Counters, State, counters
  <2> HIDE DEF made, judged, flying, first
  <2>4. QED
    BY <1>0, <1>4, <2>2, <2>3
    DEF Answer, BudgetInv, Counters, Books, counters, made, judged, flying, first
<1>5. ASSUME NEW d \in Document, Retry(d) PROVE BudgetInv'
  <2>1. pc[d] = "asking" /\ pc' = [pc EXCEPT ![d] = "retrying"]
    BY <1>5 DEF Retry
  <2>2. made' = made /\ judged' = judged /\ flying' = flying /\ first' = first - 1
    BY <1>1, <2>1 DEF State
  <2>3. Counters'
    BY <1>5, <2>1 DEF Retry, BudgetInv, Counters, State, counters
  <2> HIDE DEF made, judged, flying, first
  <2>4. QED
    BY <1>0, <1>5, <2>2, <2>3
    DEF Retry, BudgetInv, Counters, Books, counters, made, judged, flying, first
<1>6. ASSUME NEW d \in Document, Fail(d) PROVE BudgetInv'
  <2>1. pc[d] \in {"asking", "retrying"} /\ pc' = [pc EXCEPT ![d] = "unsure"]
    BY <1>6 DEF Fail, InFlight
  <2>2. /\ made' = made /\ judged' = judged /\ flying' = flying - 1
        /\ first' = first \/ first' = first - 1
    BY <1>1, <2>1 DEF State
  <2>3. Counters'
    BY <1>6, <2>1 DEF Fail, BudgetInv, Counters, State, counters
  <2> HIDE DEF made, judged, flying, first
  <2>4. QED
    BY <1>0, <1>6, <2>2, <2>3
    DEF Fail, BudgetInv, Counters, Books, counters, made, judged, flying, first
<1>7. CASE UNCHANGED vars
  BY <1>7 DEF vars, counters, BudgetInv, Counters, Books, N
<1>8. QED
  BY <1>2, <1>3, <1>4, <1>5, <1>6, <1>7 DEF Next

LEMMA BudgetInvHolds == Spec => []BudgetInv
BY BudgetStarts, BudgetSteps, PTL DEF Spec

LEMMA BudgetTyped == BudgetInv => TypeOK
<1> SUFFICES ASSUME BudgetInv PROVE TypeOK
  OBVIOUS
<1> DEFINE made == Cardinality(In(pc, {"asking", "retrying", "judged", "unsure"}))
           judged == Cardinality(In(pc, {"judged"}))
           flying == Cardinality(In(pc, {"asking", "retrying"}))
           all == Cardinality(Document)
<1>1. /\ made \in Nat /\ made <= all /\ judged \in Nat /\ flying \in Nat
      /\ all \in Nat
  BY CountType, BudgetAssumption, FS_CardinalityType
<1>2. made = used + refused /\ errors + judged + flying = used
  BY DEF BudgetInv, Books, N
<1> HIDE DEF made, judged, flying, all
<1>3. refused \in 0 .. all /\ errors \in 0 .. used /\ used \in 0 .. MAX_LLM_CALLS
  BY <1>1, <1>2, BudgetAssumption DEF BudgetInv, Counters
<1>4. QED
  BY <1>3 DEF all, TypeOK, BudgetInv, Counters, State

LEMMA BudgetSpends == BudgetInv => SpendingBounded
<1> SUFFICES ASSUME BudgetInv PROVE SpendingBounded
  OBVIOUS
<1> DEFINE first == Cardinality(In(pc, {"asking"}))
<1>1. first \in Nat
  BY CountType
<1>2. requests + first <= 2 * used
  BY DEF BudgetInv, Books, N
<1> HIDE DEF first
<1>3. requests <= 2 * used
  BY <1>1, <1>2 DEF BudgetInv, Counters
<1>4. QED
  BY <1>3, CountsAre DEF SpendingBounded, BudgetInv, Counters, Books, N

LEMMA BudgetCounts == BudgetInv => CountersAgree
BY CountsAre DEF CountersAgree, BudgetInv, Books, N

\* Every reachable state is well typed.
THEOREM TypeCorrect == Spec => []TypeOK
BY BudgetTyped, BudgetInvHolds, PTL

\* For every number of documents, budget and gate, and however their coroutines
\* interleave, the calls stay within the budget, the requests within two per call
\* and the calls in flight within the gate.
THEOREM SpendingHolds == Spec => []SpendingBounded
BY BudgetSpends, BudgetInvHolds, PTL

\* The counters build_all decides by are exact: no call is lost or counted twice.
THEOREM CountersHold == Spec => []CountersAgree
BY BudgetCounts, BudgetInvHolds, PTL

------------------------------------------------------------------------------
(* The verdicts and the outcome                                             *)

Verdict == [match : {"yes", "no", "unsure"}, evidence : SUBSET Phrase,
            label : SUBSET STRING, confidence : 0 .. 2]

VerdictsStand ==
    /\ verdict \in [Document -> Verdict]
    /\ \A d \in Document : verdict[d].match = "yes" =>
           pc[d] = "judged" /\ CitesDocument(verdict[d].evidence, docs[d])

\* The verdicts are all in when the answer is drawn from them, and none moves after.
Concluded == resolution # None => Settled /\ resolution = Outcome(person, verdict)

ResolveInv ==
    /\ BudgetInv
    /\ person \in {Read(p) : p \in Roster}
    /\ VerdictsStand
    /\ Concluded

LEMMA StepsOfTheBudget == [ResolveNext]_allVars => [Next]_vars
BY DEF ResolveNext, Conclude, Call, Judge, GiveUp, Next, allVars

LEMMA VerdictFromIsOne ==
    ASSUME NEW reply \in Reply, NEW doc
    PROVE  /\ VerdictFrom(doc, reply) \in Verdict
           /\ VerdictFrom(doc, reply).match = "yes" =>
                  CitesDocument(VerdictFrom(doc, reply).evidence, doc)
<1>1. reply \in [match : STRING, evidence : SUBSET Phrase, label : SUBSET STRING,
                 confidence : Int]
  BY ResolverAssumption DEF ResolverAssumption
<1>2. (CASE reply.confidence < 0 -> 0 [] reply.confidence > 2 -> 2
         [] OTHER -> reply.confidence) \in 0 .. 2
  BY <1>1
<1>3. QED
  BY <1>1, <1>2 DEF VerdictFrom, Verdict

LEMMA ResolveStarts == ResolveInit => ResolveInv
<1> SUFFICES ASSUME ResolveInit PROVE ResolveInv
  OBVIOUS
<1>1. BudgetInv
  BY BudgetStarts DEF ResolveInit
<1>2. VerdictsStand
  BY DEF ResolveInit, VerdictsStand, Unjudged, Verdict
<1>3. QED
  BY <1>1, <1>2 DEF ResolveInit, ResolveInv, Concluded

LEMMA ResolveSteps == ResolveInv /\ [ResolveNext]_allVars => ResolveInv'
<1> SUFFICES ASSUME ResolveInv, [ResolveNext]_allVars PROVE ResolveInv'
  OBVIOUS
<1>1. BudgetInv'
  BY StepsOfTheBudget, BudgetSteps DEF ResolveInv
<1>2. CASE Conclude
  <2>1. VerdictsStand' /\ Concluded'
    BY <1>2 DEF Conclude, ResolveInv, VerdictsStand, Concluded, Settled, vars, given, Outcome,
       AcceptedOf, Keyable, Pages
  <2>2. QED
    BY <1>1, <1>2, <2>1 DEF Conclude, ResolveInv, given
<1>3. ASSUME NEW d \in Document, Call(d) PROVE ResolveInv'
  <2>1. pc[d] \in {"waiting", "asking"} /\ ~Settled
    BY <1>3 DEF Call, Ask, Admitted, Retry, Settled
  <2>2. VerdictsStand'
    BY <1>3, <2>1 DEF Call, Ask, Retry, resolveVars, given, ResolveInv, BudgetInv, Counters,
       VerdictsStand
  <2>3. QED
    BY <1>1, <1>3, <2>1, <2>2 DEF Call, resolveVars, given, ResolveInv, Concluded
<1>4. ASSUME NEW d \in Document, Judge(d) PROVE ResolveInv'
  <2>1. /\ pc[d] \in {"asking", "retrying"} /\ ~Settled
        /\ pc' = [pc EXCEPT ![d] = "judged"]
    BY <1>4 DEF Judge, Answer, InFlight, Settled
  <2>2. PICK reply \in Reply : verdict' = [verdict EXCEPT ![d] = VerdictFrom(docs[d], reply)]
    BY <1>4 DEF Judge
  <2>3. VerdictsStand'
    BY <1>4, <2>1, <2>2, VerdictFromIsOne
    DEF Judge, given, ResolveInv, BudgetInv, Counters, VerdictsStand
  <2>4. QED
    BY <1>1, <1>4, <2>1, <2>3 DEF Judge, given, ResolveInv, Concluded
<1>5. ASSUME NEW d \in Document, GiveUp(d) PROVE ResolveInv'
  <2>1. pc[d] \in {"waiting", "asking", "retrying"} /\ ~Settled
    BY <1>5 DEF GiveUp, Refuse, Admitted, Fail, InFlight, Settled
  <2>2. VerdictsStand'
    BY <1>5, <2>1 DEF GiveUp, Refuse, Fail, resolveVars, given, ResolveInv, BudgetInv,
       Counters, VerdictsStand
  <2>3. QED
    BY <1>1, <1>5, <2>1, <2>2 DEF GiveUp, resolveVars, given, ResolveInv, Concluded
<1>6. CASE UNCHANGED allVars
  BY <1>6, <1>1 DEF allVars, resolveVars, vars, given, ResolveInv, VerdictsStand, Concluded,
     Settled, Outcome, AcceptedOf, Keyable, Pages
<1>7. QED
  BY <1>2, <1>3, <1>4, <1>5, <1>6 DEF ResolveNext

LEMMA ResolveInvHolds == ResolveSpec => []ResolveInv
BY ResolveStarts, ResolveSteps, PTL DEF ResolveSpec

------------------------------------------------------------------------------
(* What the outcome of the verdicts is                                      *)

\* A veto bears on a `no` alone: who accepts is who said yes.
LEMMA AcceptedSaidYes ==
    ASSUME NEW p, NEW V
    PROVE  AcceptedOf(p, V) = {d \in Document : V[d].match = "yes"}
BY DEF AcceptedOf, NegativeEvidenceVeto

LEMMA BestIsACandidate ==
    ASSUME NEW C, Best(C) # None
    PROVE  \E c \in C : c.value = Best(C)
<1> DEFINE top == {c.value : c \in {c \in C : \A b \in C :
                       ~Outranks(Strength(C, b.value), Strength(C, c.value))}}
<1>1. \E v \in top : top = {v}
  BY DEF Best
<1>2. Best(C) \in top
  BY <1>1 DEF Best
<1>3. QED
  BY <1>2

\* A strong key is a value of one of the pages it may stand on.
Stands(k, value, D) ==
    \E d \in D : IF k = "company_domain" THEN value = docs[d].host
                 ELSE value \in {docs[d].lead} \cup docs[d].own

LEMMA CandidatesArePages ==
    ASSUME NEW k, NEW D, NEW C, Best(C) # None,
           \A c \in C : \E g \in Pages(D) :
               IF k = "company_domain" THEN c.value = g.doc.host
               ELSE c.value \in {g.doc.lead} \cup g.doc.own
    PROVE  Stands(k, Best(C), D)
<1>1. PICK c \in C : c.value = Best(C)
  BY BestIsACandidate
<1>2. PICK g \in Pages(D) : IF k = "company_domain" THEN c.value = g.doc.host
                            ELSE c.value \in {g.doc.lead} \cup g.doc.own
  OBVIOUS
<1>3. PICK d \in D : g = [at |-> d, doc |-> docs[d]]
  BY DEF Pages
<1>4. g.doc = docs[d]
  BY <1>3
<1>5. QED
  BY <1>1, <1>2, <1>4 DEF Stands

LEMMA KeysArePages ==
    ASSUME NEW p, NEW D, NEW k \in DOMAIN StrongKeysFor(p, Pages(D)),
           StrongKeysFor(p, Pages(D))[k] # None
    PROVE  Stands(k, StrongKeysFor(p, Pages(D))[k], D)
<1> DEFINE keys == StrongKeysFor(p, Pages(D))
<1>1. k \in {"wikidata_qid", "company_domain", "github", "sec_cik"}
  BY DEF StrongKeysFor
<1>2. CASE k = "wikidata_qid"
  <2> DEFINE C == {Candidate(g, g.doc.lead, DetailsMatched(g.doc.says, p)) :
            g \in {g \in Pages(D) : /\ g.doc.kind = "wikidata" /\ g.doc.names
                                    /\ g.doc.lead # None /\ DetailsMatched(g.doc.says, p) > 0}}
  <2>1. keys[k] = Best(C)
    BY <1>2 DEF StrongKeysFor, WikidataQid
  <2>2. \A c \in C : \E g \in Pages(D) : c.value = g.doc.lead
    BY DEF Candidate
  <2> HIDE DEF C
  <2>3. QED
    BY <1>2, <2>1, <2>2, CandidatesArePages
<1>3. CASE k = "company_domain"
  <2> DEFINE C == {Candidate(g, g.doc.host,
                       DetailsMatched(g.doc.says, p) + (IF g.doc.names THEN 1 ELSE 0)) :
                g \in {g \in Pages(D) : g.doc.host # None /\ g.doc.host[1] = p.employerName}}
  <2>1. keys[k] = Best(C)
    BY <1>3 DEF StrongKeysFor, CompanyDomain
  <2>2. \A c \in C : \E g \in Pages(D) : c.value = g.doc.host
    BY DEF Candidate
  <2> HIDE DEF C
  <2>3. QED
    BY <1>3, <2>1, <2>2, CandidatesArePages
<1>4. CASE k = "github"
  <2> DEFINE C == {Candidate(g, g.doc.lead, IF Mentions(g.doc.location, p, p.city) THEN 2 ELSE 1) :
            g \in {g \in Pages(D) : /\ g.doc.kind = "github" /\ g.doc.names
                                    /\ Mentions(g.doc.company, p, p.employer)
                                    /\ g.doc.lead # None}}
  <2>1. keys[k] = Best(C)
    BY <1>4 DEF StrongKeysFor, GithubHandle
  <2>2. \A c \in C : \E g \in Pages(D) : c.value = g.doc.lead
    BY DEF Candidate
  <2> HIDE DEF C
  <2>3. QED
    BY <1>4, <2>1, <2>2, CandidatesArePages
<1>5. CASE k = "sec_cik"
  <2> DEFINE of(g) == {Candidate(g, cik, DetailsMatched(g.doc.says, p)) : cik \in PersonCiks(g.doc)}
             filings == {g \in Pages(D) : /\ g.doc.kind = "edgar" /\ g.doc.names
                                          /\ Mentions(g.doc.says, p, p.employer)}
             C == UNION {of(g) : g \in filings}
  <2>1. keys[k] = Best(C)
    BY <1>5 DEF StrongKeysFor, SecCik
  <2>2. ASSUME NEW c \in C
        PROVE  \E g \in Pages(D) : c.value \in {g.doc.lead} \cup g.doc.own
    <3>1. PICK g \in filings : c \in of(g)
      OBVIOUS
    <3>2. c.value \in PersonCiks(g.doc)
      BY <3>1 DEF Candidate
    <3>3. QED
      BY <3>1, <3>2 DEF PersonCiks
  <2> HIDE DEF C
  <2>3. QED
    BY <1>5, <2>1, <2>2, CandidatesArePages
<1>6. QED
  BY <1>1, <1>2, <1>3, <1>4, <1>5

\* What a resolution says of the verdicts it is drawn from.
LEMMA ResolvedMeans ==
    ASSUME ResolveInv, Resolved
    PROVE  /\ resolution.accepted = {d \in Document : verdict[d].match = "yes"}
           /\ resolution.keys = StrongKeysFor(person, Pages(Keyable(person, verdict)))
           /\ HasKey(resolution.keys) \/ Independent(person, verdict)
<1>1. resolution = Outcome(person, verdict) /\ resolution.status = "resolved"
  BY DEF Resolved, ResolveInv, Concluded
<1>2. QED
  BY <1>1, AcceptedSaidYes DEF Outcome

LEMMA VouchedForHere == ResolveInv => VouchedFor
<1> SUFFICES ASSUME ResolveInv, Resolved
             PROVE  /\ \A d \in resolution.accepted :
                          /\ pc[d] = "judged" /\ verdict[d].match = "yes"
                          /\ CitesDocument(verdict[d].evidence, docs[d])
                    /\ \A k \in {k \in DOMAIN resolution.keys : resolution.keys[k] # None} :
                          \E d \in resolution.accepted :
                              /\ IF k = "company_domain" THEN resolution.keys[k] = docs[d].host
                                 ELSE resolution.keys[k] \in {docs[d].lead} \cup docs[d].own
                              /\ ~ConflictingIdentityClaim(person, verdict[d])
  BY DEF VouchedFor
<1>1. ASSUME NEW d \in resolution.accepted
      PROVE  /\ pc[d] = "judged" /\ verdict[d].match = "yes"
             /\ CitesDocument(verdict[d].evidence, docs[d])
  BY ResolvedMeans DEF ResolveInv, VerdictsStand
<1>2. ASSUME NEW k \in DOMAIN resolution.keys, resolution.keys[k] # None
      PROVE  \E d \in resolution.accepted :
                 /\ IF k = "company_domain" THEN resolution.keys[k] = docs[d].host
                    ELSE resolution.keys[k] \in {docs[d].lead} \cup docs[d].own
                 /\ ~ConflictingIdentityClaim(person, verdict[d])
  <2>1. PICK d \in Keyable(person, verdict) :
            IF k = "company_domain" THEN resolution.keys[k] = docs[d].host
            ELSE resolution.keys[k] \in {docs[d].lead} \cup docs[d].own
    BY <1>2, ResolvedMeans, KeysArePages DEF Stands
  <2>2. d \in resolution.accepted /\ ~ConflictingIdentityClaim(person, verdict[d])
    BY ResolvedMeans, AcceptedSaidYes DEF Keyable
  <2>3. QED
    BY <2>1, <2>2
<1>3. QED
  BY <1>1, <1>2

\* A person's details are finitely many.
LEMMA DetailsAreFinite ==
    ASSUME ResolveInv
    PROVE  IsFiniteSet(DOMAIN person.groups)
<1>1. PICK p \in Roster : person = Read(p)
  BY DEF ResolveInv
<1>2. p \in Seq(Detail)
  BY <1>1, ResolverAssumption DEF ResolverAssumption
<1>3. DOMAIN person.groups = 1 .. Len(p) /\ Len(p) \in Nat
  BY <1>1, <1>2 DEF Read
<1>4. QED
  BY <1>3, FS_Interval

LEMMA OneFactIsNotEnoughHere == ResolveInv => OneFactIsNotEnough
<1> SUFFICES ASSUME ResolveInv, Resolved, ~HasKey(resolution.keys)
             PROVE  /\ Cardinality(resolution.accepted) >= 2
                    /\ Quoting = resolution.accepted => Cardinality(Quoted) >= 2
  BY DEF OneFactIsNotEnough
<1> DEFINE said == UNION {VerdictAttributes(person, verdict[d]) : d \in AcceptedOf(person, verdict)}
           attribute == [i \in Quoted |-> AttributeOf(person, i)]
           quoted == {attribute[i] : i \in Quoted}
<1>1. /\ Cardinality(AcceptedOf(person, verdict)) >= 2 /\ Cardinality(said) >= 2
      /\ resolution.accepted = AcceptedOf(person, verdict)
  BY ResolvedMeans, AcceptedSaidYes DEF Independent
<1>2. ASSUME Quoting = resolution.accepted
      PROVE  Cardinality(Quoted) >= 2
  <2>1. \A d \in resolution.accepted :
            VerdictAttributes(person, verdict[d]) =
                {AttributeOf(person, i) : i \in {i \in DOMAIN person.groups :
                                                    Mentions(verdict[d].evidence, person, i)}}
    BY <1>2 DEF Quoting, VerdictAttributes, CorroboratedDetails
  <2>2. \A a : a \in said <=> \E i \in Quoted : a = AttributeOf(person, i)
    BY <1>1, <2>1 DEF Quoted
  <2>3. said = quoted
    BY <2>2
  <2>4. IsFiniteSet(Quoted)
    BY DetailsAreFinite, FS_Subset DEF Quoted
  <2>5. attribute \in Surjection(Quoted, quoted)
    BY DEF Surjection
  <2> HIDE DEF attribute
  <2>6. IsFiniteSet(quoted) /\ Cardinality(quoted) <= Cardinality(Quoted)
    BY <2>4, <2>5, FS_Surjection
  <2>7. Cardinality(quoted) \in Nat /\ Cardinality(Quoted) \in Nat
    BY <2>4, <2>6, FS_CardinalityType
  <2>8. Cardinality(quoted) >= 2
    BY <1>1, <2>3
  <2> HIDE DEF quoted
  <2>9. QED
    BY <2>6, <2>7, <2>8
<1>3. QED
  BY <1>1, <1>2

\* Of the verdicts the outcome reads the matches, the evidence, the confidences and the
\* attributes, and of a span that quotes a detail the attributes are its own.
LEMMA OutcomeReads ==
    ASSUME NEW p, NEW V, NEW W,
           \A d \in Document : /\ W[d].match = V[d].match /\ W[d].evidence = V[d].evidence
                               /\ W[d].confidence = V[d].confidence
                               /\ VerdictAttributes(p, W[d]) = VerdictAttributes(p, V[d])
    PROVE  Outcome(p, W) = Outcome(p, V)
<1>1. AcceptedOf(p, W) = AcceptedOf(p, V)
  BY AcceptedSaidYes
<1>2. Keyable(p, W) = Keyable(p, V)
  <2>1. \A d \in Document : ConflictingIdentityClaim(p, W[d]) <=> ConflictingIdentityClaim(p, V[d])
    BY DEF ConflictingIdentityClaim
  <2>2. AcceptedOf(p, V) \subseteq Document
    BY DEF AcceptedOf
  <2>3. QED
    BY <1>1, <2>1, <2>2 DEF Keyable
<1>3. \A d \in AcceptedOf(p, V) : /\ VerdictAttributes(p, W[d]) = VerdictAttributes(p, V[d])
                                  /\ W[d].confidence = V[d].confidence
  BY DEF AcceptedOf
<1>4. {VerdictAttributes(p, W[d]) : d \in AcceptedOf(p, W)}
          = {VerdictAttributes(p, V[d]) : d \in AcceptedOf(p, V)}
  BY <1>1, <1>3
<1>5. {W[d].confidence : d \in AcceptedOf(p, W)} = {V[d].confidence : d \in AcceptedOf(p, V)}
  BY <1>1, <1>3
<1>6. Independent(p, W) <=> Independent(p, V)
  BY <1>1, <1>4, Zenon DEF Independent
<1>7. QED
  BY <1>1, <1>2, <1>5, <1>6, Zenon DEF Outcome

LEMMA LabelsDecideNothingHere == ResolveInv => LabelsDecideNothing
<1> SUFFICES ASSUME ResolveInv, resolution # None, NEW k \in DOMAIN FAMILY_WORDS
             PROVE  resolution = Outcome(person,
                        [d \in Document |->
                            IF CorroboratedDetails(person, verdict[d].evidence) = {} THEN verdict[d]
                            ELSE [verdict[d] EXCEPT !.label = FAMILY_WORDS[k].words]])
  BY DEF LabelsDecideNothing
<1> DEFINE W == [d \in Document |->
                    IF CorroboratedDetails(person, verdict[d].evidence) = {} THEN verdict[d]
                    ELSE [verdict[d] EXCEPT !.label = FAMILY_WORDS[k].words]]
<1>1. ASSUME NEW d \in Document
      PROVE  /\ W[d].match = verdict[d].match /\ W[d].evidence = verdict[d].evidence
             /\ W[d].confidence = verdict[d].confidence
             /\ VerdictAttributes(person, W[d]) = VerdictAttributes(person, verdict[d])
  <2>1. verdict[d] \in Verdict
    BY DEF ResolveInv, VerdictsStand
  <2>2. CASE CorroboratedDetails(person, verdict[d].evidence) = {}
    BY <2>2
  <2>3. CASE CorroboratedDetails(person, verdict[d].evidence) # {}
    <3>1. W[d] = [verdict[d] EXCEPT !.label = FAMILY_WORDS[k].words]
      BY <2>3
    <3>2. /\ W[d].match = verdict[d].match /\ W[d].evidence = verdict[d].evidence
          /\ W[d].confidence = verdict[d].confidence
      BY <2>1, <3>1 DEF Verdict
    <3>3. QED
      BY <2>3, <3>2 DEF VerdictAttributes
  <2>4. QED
    BY <2>2, <2>3
<1> HIDE DEF W
<1>2. Outcome(person, W) = Outcome(person, verdict)
  BY <1>1, OutcomeReads
<1>3. QED
  BY <1>2 DEF W, ResolveInv, Concluded

------------------------------------------------------------------------------
(* The order of the documents                                               *)

\* The place that a document has in the opposite order.
Opposite(d) == Cardinality(Document) + 1 - d

\* What one page offers as a key, and what the same page offers from the opposite place.
Mirrors(c, b) == b.doc = Opposite(c.doc) /\ b.value = c.value /\ b.details = c.details

MirrorImages(C, B) ==
    /\ \A c \in C : c.doc \in Document /\ \E b \in B : Mirrors(c, b)
    /\ \A b \in B : \E c \in C : Mirrors(c, b)

LEMMA StrengthMirrored ==
    ASSUME NEW C, NEW B, MirrorImages(C, B), NEW value
    PROVE  Strength(B, value) = Strength(C, value)
<1> USE BudgetAssumption
<1> DEFINE mine == {c \in C : c.value = value}
           theirs == {b \in B : b.value = value}
           S == {c.doc : c \in mine}
           T == {b.doc : b \in theirs}
           f == [d \in S |-> Opposite(d)]
<1>1. /\ \A c \in mine : \E b \in theirs : Mirrors(c, b)
      /\ \A b \in theirs : \E c \in mine : Mirrors(c, b)
  BY DEF MirrorImages, Mirrors
<1>2. {b.details : b \in theirs} = {c.details : c \in mine}
  <2>1. \A b \in theirs : \E c \in mine : b.details = c.details
    BY <1>1 DEF Mirrors
  <2>2. \A c \in mine : \E b \in theirs : b.details = c.details
    BY <1>1 DEF Mirrors
  <2> HIDE DEF mine, theirs
  <2>3. \A x : x \in {b.details : b \in theirs} <=> x \in {c.details : c \in mine}
    BY <2>1, <2>2
  <2>4. QED
    BY <2>3, Zenon
<1>3. \A n : (\A b \in theirs : b.details <= n) <=> (\A c \in mine : c.details <= n)
  BY <1>1 DEF Mirrors
<1>4. S \subseteq Document /\ IsFiniteSet(S) /\ S \subseteq Int /\ Cardinality(Document) \in Nat
  BY FS_Subset, FS_CardinalityType DEF MirrorImages, BudgetAssumption
<1>5. \A d \in T : \E e \in S : d = Opposite(e)
  BY <1>1 DEF Mirrors
<1>6. \A e \in S : Opposite(e) \in T
  BY <1>1 DEF Mirrors
<1>7. f \in Bijection(S, T)
  <2>1. f \in [S -> T] /\ \A d \in T : \E e \in S : f[e] = d
    BY <1>5, <1>6
  <2> HIDE DEF S, T
  <2>2. ASSUME NEW d \in S, NEW e \in S, f[d] = f[e] PROVE d = e
    <3>1. d \in Int /\ e \in Int /\ Opposite(d) = Opposite(e)
      BY <1>4, <2>2
    <3>2. QED
      BY <1>4, <3>1 DEF Opposite
  <2> HIDE DEF f
  <2>3. QED
    BY <2>1, <2>2 DEF Bijection, Injection, Surjection, IsInjective
<1>8. Cardinality(T) = Cardinality(S)
  <2> HIDE DEF f, S, T
  <2>1. QED
    BY <1>4, <1>7, FS_Bijection DEF ExistsBijection
<1>9. Strength(B, value) =
          [details |-> CHOOSE n \in {b.details : b \in theirs} : \A b \in theirs : b.details <= n,
           supporting |-> Cardinality(T)]
  BY DEF Strength
<1>10. Strength(C, value) =
          [details |-> CHOOSE n \in {c.details : c \in mine} : \A c \in mine : c.details <= n,
           supporting |-> Cardinality(S)]
  BY DEF Strength
<1> HIDE DEF mine, theirs, S, T
<1>11. QED
  BY <1>2, <1>3, <1>8, <1>9, <1>10

LEMMA BestMirrored ==
    ASSUME NEW C, NEW B, MirrorImages(C, B)
    PROVE  Best(B) = Best(C)
<1> DEFINE Top(E) == {c.value : c \in {c \in E : \A b \in E :
                          ~Outranks(Strength(E, b.value), Strength(E, c.value))}}
<1>1. \A value : Strength(B, value) = Strength(C, value)
  BY StrengthMirrored
<1>2. /\ \A c \in C : \E b \in B : b.value = c.value
      /\ \A b \in B : \E c \in C : b.value = c.value
  BY DEF MirrorImages, Mirrors
<1>3. Top(B) = Top(C)
  BY <1>1, <1>2
<1>4. \A E : Best(E) = IF \E v \in Top(E) : Top(E) = {v} THEN CHOOSE v \in Top(E) : TRUE ELSE None
  BY DEF Best
<1> HIDE DEF Top
<1>5. QED
  BY <1>3, <1>4

LEMMA KeysMirrored ==
    ASSUME NEW p, NEW D \in SUBSET Document
    PROVE  StrongKeysFor(p, {[at |-> Opposite(d), doc |-> docs[d]] : d \in D})
               = StrongKeysFor(p, Pages(D))
<1> DEFINE here == Pages(D)
           there == {[at |-> Opposite(d), doc |-> docs[d]] : d \in D}
<1>1. ASSUME NEW g \in here
      PROVE  g.at \in Document /\ \E h \in there : h.at = Opposite(g.at) /\ h.doc = g.doc
  <2>1. PICK d \in D : g = [at |-> d, doc |-> docs[d]]
    BY DEF Pages
  <2>2. [at |-> Opposite(d), doc |-> docs[d]] \in there
    OBVIOUS
  <2>3. QED
    BY <2>1, <2>2
<1>2. ASSUME NEW h \in there
      PROVE  \E g \in here : h.at = Opposite(g.at) /\ h.doc = g.doc
  <2>1. PICK d \in D : h = [at |-> Opposite(d), doc |-> docs[d]]
    OBVIOUS
  <2>2. [at |-> d, doc |-> docs[d]] \in here
    BY DEF Pages
  <2>3. QED
    BY <2>1, <2>2
<1> HIDE DEF here, there
<1>3. WikidataQid(p, there) = WikidataQid(p, here)
  <2> DEFINE Fit(g) == /\ g.doc.kind = "wikidata" /\ g.doc.names
                       /\ g.doc.lead # None /\ DetailsMatched(g.doc.says, p) > 0
             Offer(g) == Candidate(g, g.doc.lead, DetailsMatched(g.doc.says, p))
             C(Q) == {Offer(g) : g \in {g \in Q : Fit(g)}}
  <2>1. \A g, h : h.doc = g.doc => (Fit(h) <=> Fit(g)) /\ (h.at = Opposite(g.at) => Mirrors(Offer(g), Offer(h)))
    BY DEF Candidate, Mirrors
  <2>2. \A g : Offer(g).doc = g.at
    BY DEF Candidate
  <2>3. \A Q : WikidataQid(p, Q) = Best(C(Q))
    BY DEF WikidataQid
  <2> HIDE DEF Fit, Offer
  <2>4. MirrorImages(C(here), C(there))
    <3>1. \A c \in C(here) : c.doc \in Document /\ \E b \in C(there) : Mirrors(c, b)
      BY <1>1, <2>1, <2>2
    <3>2. \A b \in C(there) : \E c \in C(here) : Mirrors(c, b)
      BY <1>2, <2>1
    <3> HIDE DEF C
    <3>3. QED
      BY <3>1, <3>2 DEF MirrorImages
  <2> HIDE DEF C
  <2>5. QED
    BY <2>3, <2>4, BestMirrored
<1>4. GithubHandle(p, there) = GithubHandle(p, here)
  <2> DEFINE Fit(g) == /\ g.doc.kind = "github" /\ g.doc.names
                       /\ Mentions(g.doc.company, p, p.employer) /\ g.doc.lead # None
             Offer(g) == Candidate(g, g.doc.lead, IF Mentions(g.doc.location, p, p.city) THEN 2 ELSE 1)
             C(Q) == {Offer(g) : g \in {g \in Q : Fit(g)}}
  <2>1. \A g, h : h.doc = g.doc => (Fit(h) <=> Fit(g)) /\ (h.at = Opposite(g.at) => Mirrors(Offer(g), Offer(h)))
    BY DEF Candidate, Mirrors
  <2>2. \A g : Offer(g).doc = g.at
    BY DEF Candidate
  <2>3. \A Q : GithubHandle(p, Q) = Best(C(Q))
    BY DEF GithubHandle
  <2> HIDE DEF Fit, Offer
  <2>4. MirrorImages(C(here), C(there))
    <3>1. \A c \in C(here) : c.doc \in Document /\ \E b \in C(there) : Mirrors(c, b)
      BY <1>1, <2>1, <2>2
    <3>2. \A b \in C(there) : \E c \in C(here) : Mirrors(c, b)
      BY <1>2, <2>1
    <3> HIDE DEF C
    <3>3. QED
      BY <3>1, <3>2 DEF MirrorImages
  <2> HIDE DEF C
  <2>5. QED
    BY <2>3, <2>4, BestMirrored
<1>5. SecCik(p, there) = SecCik(p, here)
  <2> DEFINE Fit(g) == /\ g.doc.kind = "edgar" /\ g.doc.names
                       /\ Mentions(g.doc.says, p, p.employer)
             Offer(g, cik) == Candidate(g, cik, DetailsMatched(g.doc.says, p))
             C(Q) == UNION {{Offer(g, cik) : cik \in PersonCiks(g.doc)} : g \in {g \in Q : Fit(g)}}
  <2>1. \A g, h : h.doc = g.doc =>
            /\ Fit(h) <=> Fit(g)
            /\ \A cik : h.at = Opposite(g.at) => Mirrors(Offer(g, cik), Offer(h, cik))
    BY DEF Candidate, Mirrors
  <2>2. \A g, cik : Offer(g, cik).doc = g.at
    BY DEF Candidate
  <2>3. \A Q : SecCik(p, Q) = Best(C(Q))
    BY DEF SecCik
  <2> HIDE DEF Fit, Offer
  <2>4. \A Q, c : c \in C(Q) <=> \E g \in Q : Fit(g) /\ \E cik \in PersonCiks(g.doc) : c = Offer(g, cik)
    OBVIOUS
  <2> HIDE DEF C
  <2>5. MirrorImages(C(here), C(there))
    <3>1. \A c \in C(here) : c.doc \in Document /\ \E b \in C(there) : Mirrors(c, b)
      BY <1>1, <2>1, <2>2, <2>4
    <3>2. \A b \in C(there) : \E c \in C(here) : Mirrors(c, b)
      BY <1>2, <2>1, <2>4
    <3>3. QED
      BY <3>1, <3>2 DEF MirrorImages
  <2>6. QED
    BY <2>3, <2>5, BestMirrored
<1>6. CompanyDomain(p, there) = CompanyDomain(p, here)
  <2> DEFINE Fit(g) == g.doc.host # None /\ g.doc.host[1] = p.employerName
             Offer(g) == Candidate(g, g.doc.host,
                           DetailsMatched(g.doc.says, p) + (IF g.doc.names THEN 1 ELSE 0))
             C(Q) == {Offer(g) : g \in {g \in Q : Fit(g)}}
  <2>1. \A g, h : h.doc = g.doc => (Fit(h) <=> Fit(g)) /\ (h.at = Opposite(g.at) => Mirrors(Offer(g), Offer(h)))
    BY DEF Candidate, Mirrors
  <2>2. \A g : Offer(g).doc = g.at
    BY DEF Candidate
  <2>3. \A Q : CompanyDomain(p, Q) = 
             IF p.employer = 0 \/ p.employerName \in Short THEN None ELSE Best(C(Q))
    BY DEF CompanyDomain
  <2> HIDE DEF Fit, Offer
  <2>4. MirrorImages(C(here), C(there))
    <3>1. \A c \in C(here) : c.doc \in Document /\ \E b \in C(there) : Mirrors(c, b)
      BY <1>1, <2>1, <2>2
    <3>2. \A b \in C(there) : \E c \in C(here) : Mirrors(c, b)
      BY <1>2, <2>1
    <3> HIDE DEF C
    <3>3. QED
      BY <3>1, <3>2 DEF MirrorImages
  <2> HIDE DEF C
  <2>5. QED
    BY <2>3, <2>4, BestMirrored
<1>7. QED
  BY <1>3, <1>4, <1>5, <1>6 DEF StrongKeysFor, here, there

LEMMA OrderEarnsNothingHere == ResolveInv => OrderEarnsNothing
<1> SUFFICES ASSUME ResolveInv, Resolved
             PROVE  StrongKeysFor(person, {[at |-> Cardinality(Document) + 1 - d, doc |-> docs[d]] :
                                              d \in Keyable(person, verdict)}) = resolution.keys
  BY DEF OrderEarnsNothing
<1>1. Keyable(person, verdict) \subseteq Document
  BY DEF Keyable, AcceptedOf
<1>2. StrongKeysFor(person, {[at |-> Opposite(d), doc |-> docs[d]] :
                                d \in Keyable(person, verdict)}) = resolution.keys
  BY <1>1, KeysMirrored, ResolvedMeans
<1>3. QED
  BY <1>2 DEF Opposite

------------------------------------------------------------------------------
(* Who is refused                                                           *)

Answered == {Failed} \cup Seq({Blank} \cup RawDoc)

\* What Unique has kept of the first k documents.
Kept(list, u, k) ==
    /\ Len(u) <= k
    /\ \A i, j \in DOMAIN u : u[i].url = u[j].url => i = j
    /\ \A i \in DOMAIN u : \E j \in 1 .. k : u[i] = list[j]
    /\ \A j \in 1 .. k : list[j] # Blank =>
          \E i \in DOMAIN u : i <= j /\ u[i].url = list[j].url

OneMore(kept, doc) ==
    IF doc = Blank \/ \E i \in DOMAIN kept : kept[i].url = doc.url
    THEN kept ELSE Append(kept, doc)

LEMMA OneMoreIsKept ==
    ASSUME NEW list \in Seq({Blank} \cup RawDoc), NEW k \in DOMAIN list,
           NEW u \in Seq(RawDoc), Kept(list, u, k - 1)
    PROVE  OneMore(u, list[k]) \in Seq(RawDoc) /\ Kept(list, OneMore(u, list[k]), k)
<1>1. k \in Nat \ {0} /\ \A j : j \in 1 .. k <=> j = k \/ j \in 1 .. (k - 1)
  OBVIOUS
<1>2. Len(u) \in Nat /\ DOMAIN u = 1 .. Len(u) /\ Len(u) <= k - 1
  BY DEF Kept
<1>3. CASE OneMore(u, list[k]) = u /\ (list[k] = Blank \/ \E i \in DOMAIN u : u[i].url = list[k].url)
  <2>1. Len(u) <= k /\ \A i \in DOMAIN u : i <= k
    BY <1>1, <1>2
  <2>2. QED
    BY <1>1, <1>3, <2>1 DEF Kept
<1>4. CASE /\ OneMore(u, list[k]) = Append(u, list[k]) /\ list[k] # Blank
           /\ \A i \in DOMAIN u : u[i].url # list[k].url
  <2> DEFINE v == Append(u, list[k])
  <2>1. list[k] \in RawDoc
    BY <1>4
  <2>2. /\ v \in Seq(RawDoc) /\ Len(v) = Len(u) + 1 /\ v[Len(u) + 1] = list[k]
        /\ \A i \in DOMAIN u : i \in DOMAIN v /\ v[i] = u[i]
        /\ Len(u) + 1 \in DOMAIN v
        /\ \A i \in DOMAIN v : i \in DOMAIN u \/ i = Len(u) + 1
    BY <2>1
  <2>8. OneMore(u, list[k]) = v
    BY <1>4
  <2> HIDE DEF v
  <2>3. Len(v) <= k /\ Len(u) + 1 <= k
    BY <1>1, <1>2, <2>2
  <2>4. \A i, j \in DOMAIN v : v[i].url = v[j].url => i = j
    BY <1>4, <2>2 DEF Kept
  <2>5. ASSUME NEW i \in DOMAIN v PROVE \E j \in 1 .. k : v[i] = list[j]
    <3>1. CASE i \in DOMAIN u
      <4>1. PICK j \in 1 .. (k - 1) : u[i] = list[j]
        BY <3>1 DEF Kept
      <4>2. v[i] = list[j] /\ j \in 1 .. k
        BY <1>1, <2>2, <3>1, <4>1
      <4>3. QED
        BY <4>2
    <3>2. CASE i = Len(u) + 1
      BY <1>1, <2>2, <3>2
    <3>3. QED
      BY <2>2, <3>1, <3>2
  <2>6. \A j \in 1 .. k : list[j] # Blank =>
           \E i \in DOMAIN v : i <= j /\ v[i].url = list[j].url
    BY <1>1, <2>2, <2>3 DEF Kept
  <2>7. QED
    BY <2>2, <2>3, <2>4, <2>5, <2>6, <2>8 DEF Kept
<1>5. QED
  BY <1>3, <1>4 DEF OneMore

\* One of each url, where it first stood or before: nothing that came later pushes it back.
LEMMA UniqueIsKept ==
    ASSUME NEW list \in Seq({Blank} \cup RawDoc)
    PROVE  Unique(list) \in Seq(RawDoc) /\ Kept(list, Unique(list), Len(list))
<1> DEFINE n == Len(list)
           A == Seq(RawDoc)
           step == [c \in (1 .. n) \X A |-> OneMore(c[2], list[c[1]])]
           Folds(g) == g = [t \in SUBSET DOMAIN list |->
                              IF t = {} THEN <<>>
                              ELSE OneMore(g[t \ {Max(t)}], list[Max(t)])]
           fold == CHOOSE g : Folds(g)
<1>1. n \in Nat /\ DOMAIN list = 1 .. n /\ \A i \in 1 .. n : list[i] \in {Blank} \cup RawDoc
  OBVIOUS
<1>2. Unique(list) = fold[DOMAIN list]
  BY DEF Unique, FoldLeft, MapThenFoldSet, OneMore
<1>3. \A i \in 1 .. n : \A a \in A : OneMore(a, list[i]) \in A
  BY <1>1 DEF OneMore
<1>4. <<>> \in A
  OBVIOUS
<1> HIDE DEF A, n
<1>5. /\ step \in [(1 .. n) \X A -> A]
      /\ \A i \in 1 .. n : \A a \in A : step[<<i, a>>] = OneMore(a, list[i])
  BY <1>3
<1> HIDE DEF step
<1>6. \E g : Folds(g)
  <2>1. PICK g : Solves(g, n, A, <<>>, step)
    BY <1>1, <1>4, <1>5, FoldSolves
  <2>2. Folds(g)
    BY <1>1, <1>5, <2>1 DEF Solves
  <2>3. QED
    BY <2>2
<1>7. Folds(fold)
  BY <1>6
<1> HIDE DEF fold
<1>8. Follows(fold, n, A, <<>>, step)
  <2>1. \A t \in SUBSET (1 .. n) : t # {} => Max(t) \in 1 .. n
    BY <1>1, MaxIsLast DEF IsLast
  <2>2. QED
    BY <1>1, <1>5, <1>7, <2>1 DEF Follows
<1>9. Steps(fold, n, A, <<>>, step)
  BY <1>1, <1>4, <1>5, <1>8, FoldSteps
<1> DEFINE Good == {k \in 0 .. n : fold[1 .. k] \in A /\ Kept(list, fold[1 .. k], k)}
<1>10. 0 \in Good
  <2>1. fold[1 .. 0] = <<>> /\ 0 \in 0 .. n
    BY <1>1, <1>9 DEF Steps
  <2>2. Kept(list, <<>>, 0)
    BY DEF Kept
  <2>3. QED
    BY <1>4, <2>1, <2>2
<1>11. \A k \in 1 .. n : k - 1 \in Good => k \in Good
  <2> SUFFICES ASSUME NEW k \in 1 .. n, k - 1 \in Good PROVE k \in Good
    OBVIOUS
  <2>1. /\ fold[1 .. (k - 1)] \in A /\ Kept(list, fold[1 .. (k - 1)], k - 1)
        /\ k \in DOMAIN list /\ k \in 0 .. n
    BY <1>1
  <2>2. fold[1 .. k] = OneMore(fold[1 .. (k - 1)], list[k])
    BY <1>5, <1>9, <2>1 DEF Steps
  <2> DEFINE u == fold[1 .. (k - 1)]
  <2> HIDE DEF u
  <2>3. u \in Seq(RawDoc) /\ Kept(list, u, k - 1)
    BY <2>1 DEF A, u
  <2>4. OneMore(u, list[k]) \in Seq(RawDoc) /\ Kept(list, OneMore(u, list[k]), k)
    BY <2>1, <2>3, OneMoreIsKept
  <2>5. QED
    BY <2>1, <2>2, <2>4 DEF A, u
<1> HIDE DEF Good
<1>12. n \in Good
  <2>1. \A i \in 0 .. n : i \in Good
    BY <1>1, <1>10, <1>11, Climb
  <2>2. n \in 0 .. n
    BY <1>1
  <2>3. QED
    BY <2>1, <2>2
<1>13. QED
  BY <1>1, <1>2, <1>12 DEF Good, A, n

LEMMA CappedIs ==
    ASSUME NEW X, NEW s \in Seq(X), NEW cap \in Nat
    PROVE  /\ Capped(s, cap) \in Seq(X)
           /\ \A i \in DOMAIN Capped(s, cap) : i \in DOMAIN s /\ Capped(s, cap)[i] = s[i]
<1> DEFINE last == IF cap < Len(s) THEN cap ELSE Len(s)
<1>1. last \in Nat /\ last <= Len(s) /\ Len(s) \in Nat /\ DOMAIN s = 1 .. Len(s)
  OBVIOUS
<1>2. Capped(s, cap) = SubSeq(s, 1, last)
  BY DEF Capped
<1> HIDE DEF last
<1>3. SubSeq(s, 1, last) = [j \in 1 .. (last - 1 + 1) |-> s[j + 1 - 1]]
  BY <1>1, StretchIs
<1>4. last - 1 + 1 = last /\ \A j \in 1 .. last : j \in 1 .. Len(s) /\ j + 1 - 1 = j
  BY <1>1
<1>5. SubSeq(s, 1, last) = [j \in 1 .. last |-> s[j]]
  BY <1>3, <1>4
<1>6. [j \in 1 .. last |-> s[j]] \in [1 .. last -> X]
  BY <1>1, <1>4
<1>7. QED
  BY <1>1, <1>2, <1>4, <1>5, <1>6

LEMMA SearchedAreDocs ==
    ASSUME NEW answer \in Answered
    PROVE  SearchOne(answer) \in Seq(RawDoc)
<1> DEFINE ask == IF DOCS_PER_CONNECTOR < MAX_DOCS_TOTAL THEN DOCS_PER_CONNECTOR
                                                         ELSE MAX_DOCS_TOTAL
<1>1. ask \in Nat
  BY RetrievalAssumption
<1>2. CASE answer = Failed
  BY <1>2 DEF SearchOne
<1>3. CASE answer # Failed
  <2>1. answer \in Seq({Blank} \cup RawDoc)
    BY <1>3 DEF Answered
  <2>2. Unique(answer) \in Seq(RawDoc)
    BY <2>1, UniqueIsKept
  <2>3. SearchOne(answer) = Capped(Unique(answer), ask)
    BY <1>3 DEF SearchOne
  <2> HIDE DEF ask
  <2>4. QED
    BY <1>1, <2>2, <2>3, CappedIs
<1>4. QED
  BY <1>2, <1>3

\* The nth documents of the sources that have one.
LEMMA ColumnIs ==
    ASSUME NEW batches \in Seq(Seq(RawDoc)), NEW n \in Nat \ {0}
    PROVE  /\ Column(batches, n) \in Seq(RawDoc) /\ Len(Column(batches, n)) <= Len(batches)
           /\ \A s \in DOMAIN batches : Len(batches[s]) >= n =>
                 \E k \in DOMAIN Column(batches, n) : Column(batches, n)[k] = batches[s][n]
           /\ \A k \in DOMAIN Column(batches, n) : \E s \in DOMAIN batches :
                 n \in DOMAIN batches[s] /\ Column(batches, n)[k] = batches[s][n]
<1> DEFINE places == [s \in DOMAIN batches |-> s]
           long == {s \in DOMAIN batches : Len(batches[s]) >= n}
           having == Within(places, long)
<1>1. /\ places \in Seq(DOMAIN batches) /\ Len(places) = Len(batches)
      /\ ToSet(places) = DOMAIN batches
  <2> DEFINE sources == DOMAIN batches
             m == Len(batches)
  <2>1. sources = 1 .. m /\ m \in Nat
    OBVIOUS
  <2>2. places \in [sources -> sources]
    OBVIOUS
  <2>3. ToSet(places) = DOMAIN batches
    BY DEF ToSet
  <2> HIDE DEF places, sources, m
  <2>4. places \in Seq(sources) /\ Len(places) = m
    BY <2>1, <2>2
  <2>5. QED
    BY <2>3, <2>4 DEF sources, m
<1>2. Column(batches, n) = [k \in DOMAIN having |-> batches[having[k]][n]]
  BY DEF Column
<1> HIDE DEF places
<1>3. /\ having \in Seq(DOMAIN batches) /\ Len(having) <= Len(batches)
      /\ ToSet(having) = long
  <2>1. long \subseteq DOMAIN batches
    OBVIOUS
  <2> HIDE DEF long
  <2>2. /\ having \in Seq(DOMAIN batches) /\ ToSet(having) = ToSet(places) \cap long
        /\ Len(having) <= Len(places)
    BY <1>1, WithinIsAll
  <2>3. QED
    BY <1>1, <2>1, <2>2
<1> HIDE DEF having
<1>4. ASSUME NEW s \in long PROVE n \in DOMAIN batches[s] /\ batches[s][n] \in RawDoc
  <2>1. s \in DOMAIN batches /\ batches[s] \in Seq(RawDoc) /\ Len(batches[s]) >= n
    OBVIOUS
  <2>2. QED
    BY <2>1
<1>5. \A k \in DOMAIN having : having[k] \in long
  BY <1>3 DEF ToSet
<1>6. DOMAIN having = 1 .. Len(having) /\ Len(having) \in Nat
  BY <1>3
<1>7. Column(batches, n) \in [1 .. Len(having) -> RawDoc]
  <2>1. \A k \in DOMAIN having : batches[having[k]][n] \in RawDoc
    BY <1>4, <1>5
  <2>2. QED
    BY <1>2, <1>6, <2>1
<1>8. Column(batches, n) \in Seq(RawDoc) /\ Len(Column(batches, n)) <= Len(batches)
  <2>1. Column(batches, n) \in Seq(RawDoc) /\ Len(Column(batches, n)) = Len(having)
    BY <1>6, <1>7
  <2>2. QED
    BY <1>3, <2>1
<1>9. \A s \in long : \E k \in DOMAIN having : having[k] = s
  BY <1>3 DEF ToSet
<1>10. QED
  BY <1>2, <1>4, <1>5, <1>8, <1>9

\* A round of the sources: their first documents come first.
LEMMA RoundRobinIs ==
    ASSUME NEW batches \in Seq(Seq(RawDoc))
    PROVE  /\ RoundRobin(batches) \in Seq(RawDoc)
           /\ ToSet(RoundRobin(batches)) \subseteq ToSet(FlattenSeq(batches))
           /\ \A s \in DOMAIN batches : batches[s] # <<>> =>
                 \E k \in DOMAIN RoundRobin(batches) :
                    k <= Len(batches) /\ RoundRobin(batches)[k] = batches[s][1]
<1> DEFINE D == DOCS_PER_CONNECTOR
           columns == [n \in 1 .. D |-> Column(batches, n)]
<1>1. D \in Nat \ {0}
  BY RetrievalAssumption
<1> HIDE DEF D
<1>2. \A n \in 1 .. D : n \in Nat \ {0} /\ Column(batches, n) \in Seq(RawDoc)
  BY <1>1, ColumnIs
<1>3. /\ columns \in Seq(Seq(RawDoc)) /\ columns # <<>> /\ DOMAIN columns = 1 .. D
      /\ columns[1] = Column(batches, 1)
  <2>1. columns \in [1 .. D -> Seq(RawDoc)] /\ columns[1] = Column(batches, 1)
    BY <1>1, <1>2
  <2> HIDE DEF columns
  <2>2. DOMAIN columns = 1 .. D /\ 1 \in 1 .. D
    BY <1>1, <2>1
  <2>3. QED
    BY <1>1, <2>1, <2>2
<1>4. \A n \in 1 .. D : columns[n] = Column(batches, n)
  OBVIOUS
<1>5. RoundRobin(batches) = FlattenSeq(columns)
  BY DEF RoundRobin, D
<1> HIDE DEF columns
<1>6. /\ FlattenSeq(columns) \in Seq(RawDoc)
      /\ \A x : x \in ToSet(FlattenSeq(columns)) <=> \E n \in 1 .. D : x \in ToSet(columns[n])
      /\ StartsWith(FlattenSeq(columns), columns[1])
  BY <1>3, FlattenIsAll
<1>7. \A x : x \in ToSet(FlattenSeq(batches)) <=> \E s \in DOMAIN batches : x \in ToSet(batches[s])
  BY FlattenIsAll
<1>8. ASSUME NEW n \in 1 .. D, NEW x \in ToSet(columns[n])
      PROVE  x \in ToSet(FlattenSeq(batches))
  <2>1. PICK k \in DOMAIN Column(batches, n) : Column(batches, n)[k] = x
    BY <1>4 DEF ToSet
  <2>2. PICK s \in DOMAIN batches : n \in DOMAIN batches[s] /\ x = batches[s][n]
    BY <1>2, <2>1, ColumnIs
  <2>3. x \in ToSet(batches[s])
    BY <2>2 DEF ToSet
  <2>4. QED
    BY <1>7, <2>3
<1>9. ASSUME NEW s \in DOMAIN batches, batches[s] # <<>>
      PROVE  \E k \in DOMAIN FlattenSeq(columns) :
                k <= Len(batches) /\ FlattenSeq(columns)[k] = batches[s][1]
  <2>1. Len(batches[s]) >= 1
    <3>1. batches[s] \in Seq(RawDoc)
      OBVIOUS
    <3>2. QED
      BY <1>9, <3>1
  <2>2. 1 \in Nat \ {0}
    OBVIOUS
  <2>3. /\ Column(batches, 1) \in Seq(RawDoc) /\ Len(Column(batches, 1)) <= Len(batches)
        /\ \E k \in DOMAIN Column(batches, 1) : Column(batches, 1)[k] = batches[s][1]
    BY <2>1, <2>2, ColumnIs
  <2>4. PICK k \in DOMAIN Column(batches, 1) : Column(batches, 1)[k] = batches[s][1]
    BY <2>3
  <2>5. k <= Len(batches)
    <3>1. k \in 1 .. Len(Column(batches, 1)) /\ Len(Column(batches, 1)) \in Nat /\ Len(batches) \in Nat
      BY <2>3
    <3>2. QED
      BY <2>3, <3>1
  <2>6. QED
    BY <1>3, <1>6, <2>4, <2>5 DEF StartsWith
<1>10. QED
  BY <1>5, <1>6, <1>8, <1>9

\* The copy shown is a copy of that page.
LEMMA WinnerIsACopy ==
    ASSUME NEW batches \in Seq(Seq(RawDoc)), NEW url,
           \E doc \in ToSet(FlattenSeq(batches)) : doc.url = url
    PROVE  Winner(batches, url) \in RawDoc /\ Winner(batches, url).url = url
<1> DEFINE all == FlattenSeq(batches)
           same == {doc \in ToSet(all) : doc.url = url}
           copies == Within(all, same)
           Better(best, doc) == IF DisplayRank(doc.kind) < DisplayRank(best.kind) THEN doc ELSE best
           n == Len(copies)
           A == ToSet(copies)
           step == [c \in (1 .. n) \X A |-> Better(c[2], copies[c[1]])]
           Folds(g) == g = [t \in SUBSET DOMAIN copies |->
                              IF t = {} THEN copies[1]
                              ELSE Better(g[t \ {Max(t)}], copies[Max(t)])]
           fold == CHOOSE g : Folds(g)
<1>1. Winner(batches, url) = fold[DOMAIN copies]
  BY DEF Winner, FoldLeft, MapThenFoldSet
<1>2. copies \in Seq(RawDoc) /\ A = same
  <2>1. all \in Seq(RawDoc)
    BY FlattenIsAll
  <2>2. same \subseteq ToSet(all)
    OBVIOUS
  <2> HIDE DEF all, same
  <2>3. copies \in Seq(RawDoc) /\ ToSet(copies) = ToSet(all) \cap same
    BY <2>1, WithinIsAll
  <2>4. QED
    BY <2>2, <2>3
<1>3. same # {} /\ \A doc \in same : doc.url = url
  OBVIOUS
<1> HIDE DEF copies, same
<1>4. n \in Nat /\ DOMAIN copies = 1 .. n /\ \A i \in 1 .. n : copies[i] \in A
  BY <1>2 DEF ToSet
<1>5. copies[1] \in A
  <2>1. DOMAIN copies # {}
    BY <1>2, <1>3 DEF ToSet
  <2>2. 1 \in 1 .. n
    <3> HIDE DEF n
    <3>1. QED
      BY <1>4, <2>1
  <2>3. QED
    BY <1>4, <2>2
<1>6. A \subseteq RawDoc
  BY <1>2, <1>4 DEF ToSet
<1>7. \A i \in 1 .. n : \A a \in A : Better(a, copies[i]) \in A
  BY <1>4
<1> HIDE DEF A, n, Better
<1>8. /\ step \in [(1 .. n) \X A -> A]
      /\ \A i \in 1 .. n : \A a \in A : step[<<i, a>>] = Better(a, copies[i])
  BY <1>7
<1> HIDE DEF step
<1>9. \E g : Folds(g)
  <2>1. PICK g : Solves(g, n, A, copies[1], step)
    BY <1>4, <1>5, <1>8, FoldSolves
  <2>2. Folds(g)
    BY <1>4, <1>8, <2>1 DEF Solves
  <2>3. QED
    BY <2>2
<1>10. Folds(fold)
  BY <1>9
<1> HIDE DEF fold
<1>11. Follows(fold, n, A, copies[1], step)
  <2>1. \A t \in SUBSET (1 .. n) : t # {} => Max(t) \in 1 .. n
    BY <1>4, MaxIsLast DEF IsLast
  <2>2. QED
    BY <1>4, <1>8, <1>10, <2>1 DEF Follows
<1>12. fold[1 .. n] \in A
  <2>1. Steps(fold, n, A, copies[1], step)
    BY <1>4, <1>5, <1>8, <1>11, FoldSteps
  <2>2. QED
    BY <1>4, <2>1 DEF Steps
<1>13. QED
  BY <1>1, <1>2, <1>3, <1>4, <1>6, <1>12

\* The nth document shown stands for the nth page of the round.
LEMMA InterleavedAreDocs ==
    ASSUME NEW batches \in Seq(Seq(RawDoc))
    PROVE  /\ InterleaveDocs(batches) \in Seq(RawDoc)
           /\ LET places == Unique(RoundRobin(batches))
              IN  \A d \in DOMAIN InterleaveDocs(batches) :
                     d \in DOMAIN places /\ InterleaveDocs(batches)[d].url = places[d].url
<1> DEFINE round == RoundRobin(batches)
           places == Unique(round)
           winners == [i \in DOMAIN places |-> Winner(batches, places[i].url)]
<1>1. InterleaveDocs(batches) = Capped(winners, MAX_DOCS_TOTAL)
  BY DEF InterleaveDocs
<1>2. /\ round \in Seq(RawDoc) /\ ToSet(round) \subseteq ToSet(FlattenSeq(batches))
  BY RoundRobinIs
<1> HIDE DEF round
<1>4. places \in Seq(RawDoc) /\ Kept(round, places, Len(round))
  <2>1. round \in Seq({Blank} \cup RawDoc)
    BY <1>2
  <2>2. QED
    BY <2>1, UniqueIsKept
<1>5. DOMAIN round = 1 .. Len(round) /\ Len(round) \in Nat
  BY <1>2
<1> HIDE DEF places
<1>6. ASSUME NEW i \in DOMAIN places
      PROVE  /\ Winner(batches, places[i].url) \in RawDoc
             /\ Winner(batches, places[i].url).url = places[i].url
  <2>1. PICK j \in 1 .. Len(round) : places[i] = round[j]
    BY <1>4 DEF Kept
  <2>2. places[i] \in ToSet(FlattenSeq(batches))
    BY <1>2, <1>5, <2>1 DEF ToSet
  <2>3. \E doc \in ToSet(FlattenSeq(batches)) : doc.url = places[i].url
    BY <2>2
  <2> DEFINE url == places[i].url
  <2>4. \E doc \in ToSet(FlattenSeq(batches)) : doc.url = url
    BY <2>3
  <2> HIDE DEF url
  <2>5. Winner(batches, url) \in RawDoc /\ Winner(batches, url).url = url
    BY <2>4, WinnerIsACopy
  <2>6. QED
    BY <2>5 DEF url
<1>7. winners \in Seq(RawDoc) /\ DOMAIN winners = DOMAIN places
  <2> DEFINE m == Len(places)
  <2>1. DOMAIN places = 1 .. m /\ m \in Nat
    BY <1>4
  <2> HIDE DEF m
  <2>2. winners \in [1 .. m -> RawDoc] /\ DOMAIN winners = DOMAIN places
    BY <1>6, <2>1
  <2> HIDE DEF winners
  <2>3. QED
    BY <2>1, <2>2
<1>8. \A i \in DOMAIN places : winners[i].url = places[i].url
  BY <1>6
<1> HIDE DEF winners
<1>9. /\ InterleaveDocs(batches) \in Seq(RawDoc)
      /\ \A d \in DOMAIN InterleaveDocs(batches) :
            d \in DOMAIN winners /\ InterleaveDocs(batches)[d] = winners[d]
  <2> DEFINE cap == MAX_DOCS_TOTAL
  <2>1. cap \in Nat
    BY RetrievalAssumption
  <2> HIDE DEF cap
  <2>2. /\ Capped(winners, cap) \in Seq(RawDoc)
        /\ \A d \in DOMAIN Capped(winners, cap) :
              d \in DOMAIN winners /\ Capped(winners, cap)[d] = winners[d]
    BY <1>7, <2>1, CappedIs
  <2>3. QED
    BY <1>1, <2>2 DEF cap
<1>10. QED
  BY <1>7, <1>8, <1>9 DEF places, round

\* After as many documents as there are sources, none is the first of a source.
LEMMA FirstsComeFirst ==
    ASSUME NEW batches \in Seq(Seq(RawDoc)), NEW s \in DOMAIN batches, batches[s] # <<>>
    PROVE  \A d \in DOMAIN InterleaveDocs(batches) :
              Len(batches) < d => InterleaveDocs(batches)[d].url # batches[s][1].url
<1> DEFINE round == RoundRobin(batches)
           places == Unique(round)
<1>1. /\ round \in Seq(RawDoc)
      /\ \E k \in DOMAIN round : k <= Len(batches) /\ round[k] = batches[s][1]
  BY RoundRobinIs
<1>2. \A d \in DOMAIN InterleaveDocs(batches) :
         d \in DOMAIN places /\ InterleaveDocs(batches)[d].url = places[d].url
  BY InterleavedAreDocs
<1> HIDE DEF round
<1>3. PICK k \in DOMAIN round : k <= Len(batches) /\ round[k] = batches[s][1]
  BY <1>1
<1>4. round[k] # Blank /\ DOMAIN round = 1 .. Len(round) /\ Len(round) \in Nat
  BY <1>1, ResolverAssumption
<1>5. places \in Seq(RawDoc) /\ Kept(round, places, Len(round))
  <2>1. round \in Seq({Blank} \cup RawDoc)
    BY <1>1
  <2>2. QED
    BY <2>1, UniqueIsKept
<1> HIDE DEF places
<1>6. PICK i \in DOMAIN places : i <= k /\ places[i].url = round[k].url
  BY <1>4, <1>5 DEF Kept
<1>7. i <= Len(batches)
  <2>1. i \in Nat /\ k \in Nat /\ Len(batches) \in Nat
    BY <1>4, <1>5
  <2>2. QED
    BY <1>3, <1>6, <2>1
<1>8. ASSUME NEW d \in DOMAIN InterleaveDocs(batches), Len(batches) < d
      PROVE  InterleaveDocs(batches)[d].url # batches[s][1].url
  <2>1. d \in DOMAIN places /\ InterleaveDocs(batches)[d].url = places[d].url
    BY <1>2
  <2>2. d # i
    <3>1. d \in Nat /\ i \in Nat /\ Len(batches) \in Nat
      BY <1>5, <2>1
    <3>2. QED
      BY <1>7, <1>8, <3>1
  <2>3. places[d].url # places[i].url
    BY <1>5, <2>1, <2>2 DEF Kept
  <2>4. QED
    BY <1>3, <1>6, <2>1, <2>3
<1>9. QED
  BY <1>8

LEMMA BatchesAreDocs ==
    ASSUME NEW answers \in Found
    PROVE  /\ Batches(answers) \in Seq(Seq(RawDoc)) /\ Len(Batches(answers)) = Len(answers)
           /\ DOMAIN Batches(answers) = DOMAIN answers
           /\ \A s \in DOMAIN answers : Batches(answers)[s] = SearchOne(answers[s])
<1>1. answers \in Seq(Answered)
  BY ResolverAssumption DEF Answered
<1> DEFINE m == Len(answers)
           batches == Batches(answers)
<1>2. m \in Nat /\ DOMAIN answers = 1 .. m
  BY <1>1
<1>3. \A s \in 1 .. m : SearchOne(answers[s]) \in Seq(RawDoc)
  BY <1>1, <1>2, SearchedAreDocs
<1>4. batches = [s \in 1 .. m |-> SearchOne(answers[s])]
  BY <1>2 DEF Batches
<1> HIDE DEF m, batches
<1>5. batches \in [1 .. m -> Seq(RawDoc)]
  BY <1>3, <1>4
<1>6. batches \in Seq(Seq(RawDoc)) /\ Len(batches) = m
  BY <1>2, <1>5
<1>7. QED
  BY <1>2, <1>4, <1>6 DEF m, batches


\* The gate admits the documents in their order, so what has been judged is a beginning
\* of the list.
InTurn == \A d, e \in Document : d < e /\ pc[e] # "waiting" => pc[d] # "waiting"

TurnInv == ResolveInv /\ InTurn /\ found \in Found /\ docs = FanOut(found)

LEMMA TurnStarts == ResolveInit => TurnInv
BY ResolveStarts DEF ResolveInit, Init, TurnInv, InTurn

LEMMA TurnSteps == TurnInv /\ [ResolveNext]_allVars => TurnInv'
<1> SUFFICES ASSUME TurnInv, [ResolveNext]_allVars PROVE TurnInv'
  OBVIOUS
<1>1. ResolveInv'
  BY ResolveSteps DEF TurnInv
<1>2. found' = found /\ docs' = docs
  BY DEF ResolveNext, Conclude, Call, Judge, GiveUp, allVars, resolveVars, given
<1>3. pc \in [Document -> State]
  BY DEF TurnInv, ResolveInv, BudgetInv, Counters
<1>4. CASE UNCHANGED pc
  BY <1>1, <1>2, <1>4 DEF TurnInv, InTurn
<1>5. ASSUME NEW d \in Document, NEW b \in State \ {"waiting"}, pc' = [pc EXCEPT ![d] = b],
             Admitted(d) \/ pc[d] # "waiting"
      PROVE  InTurn'
  <2> SUFFICES ASSUME NEW e \in Document, NEW f \in Document, e < f, pc'[f] # "waiting"
               PROVE  pc'[e] # "waiting"
    BY DEF InTurn
  <2>1. CASE e = d
    BY <1>3, <1>5, <2>1
  <2>2. CASE e # d /\ f # d
    BY <1>3, <1>5, <2>2 DEF TurnInv, InTurn
  <2>3. CASE e # d /\ f = d /\ Admitted(d)
    <3>1. e \in Nat /\ d \in Nat /\ ~(d <= e)
      BY <2>3, BudgetAssumption
    <3>2. QED
      BY <1>3, <1>5, <2>3, <3>1 DEF Admitted
  <2>4. CASE e # d /\ f = d /\ pc[d] # "waiting"
    BY <1>3, <1>5, <2>4 DEF TurnInv, InTurn
  <2>5. QED
    BY <1>5, <2>1, <2>2, <2>3, <2>4
<1>6. ASSUME NEW d \in Document, Call(d) \/ Judge(d) \/ GiveUp(d)
      PROVE  InTurn'
  <2>1. \/ Admitted(d) /\ (pc' = [pc EXCEPT ![d] = "asking"] \/ pc' = [pc EXCEPT ![d] = "unsure"])
        \/ /\ pc[d] # "waiting"
           /\ \/ pc' = [pc EXCEPT ![d] = "judged"]
              \/ pc' = [pc EXCEPT ![d] = "retrying"]
              \/ pc' = [pc EXCEPT ![d] = "unsure"]
    BY <1>6 DEF Call, Judge, GiveUp, Ask, Refuse, Answer, Retry, Fail, InFlight
  <2>2. {"asking", "retrying", "judged", "unsure"} \subseteq State \ {"waiting"}
    BY DEF State
  <2>3. QED
    BY <1>5, <2>1, <2>2
<1>7. InTurn' \/ UNCHANGED pc
  BY <1>6 DEF ResolveNext, Conclude, allVars, vars
<1>8. QED
  BY <1>1, <1>2, <1>4, <1>7 DEF TurnInv

LEMMA TurnInvHolds == ResolveSpec => []TurnInv
BY TurnStarts, TurnSteps, PTL DEF ResolveSpec

\* A document is refused when the budget is spent, and it was spent on those before it:
\* as many as there are sources.
LEMMA RefusedAfterTheSources ==
    ASSUME TurnInv, NEW d \in Document, Refuse(d)
    PROVE  d > Len(found)
<1>1. /\ Cardinality(Made) = used + refused /\ used >= MAX_LLM_CALLS
      /\ used \in Nat /\ refused \in Nat /\ MAX_LLM_CALLS \in Nat
  BY BudgetCounts, BudgetAssumption
  DEF TurnInv, ResolveInv, BudgetInv, Counters, CountersAgree, Refuse
<1>2. Len(found) \in Nat /\ Len(found) <= MAX_LLM_CALLS /\ Document = DOMAIN docs
  BY ResolverAssumption DEF TurnInv
<1>3. Document \subseteq Nat \ {0}
  <2>1. Batches(found) \in Seq(Seq(RawDoc))
    BY BatchesAreDocs DEF TurnInv
  <2>2. docs \in Seq(RawDoc)
    BY <2>1, InterleavedAreDocs DEF TurnInv, FanOut
  <2>3. QED
    BY <1>2, <2>2
<1>4. d \in Nat \ {0}
  BY <1>3
<1>5. Made \subseteq 1 .. (d - 1)
  <2> SUFFICES ASSUME NEW e \in Made PROVE e \in 1 .. (d - 1)
    OBVIOUS
  <2>1. e \in Document /\ pc[e] # "waiting" /\ pc[d] = "waiting"
    BY DEF Made, Refuse, Admitted
  <2>2. ~(d < e) /\ e # d
    BY <2>1 DEF TurnInv, InTurn
  <2>3. QED
    BY <1>3, <1>4, <2>1, <2>2
<1>6. Cardinality(Made) <= d - 1
  <2>1. d - 1 \in Int /\ d - 1 >= 0 /\ 1 \in Int
    BY <1>4
  <2> DEFINE last == d - 1
  <2> HIDE DEF last
  <2>2. IsFiniteSet(1 .. last) /\ Cardinality(1 .. last) = IF 1 > last THEN 0 ELSE last - 1 + 1
    BY <2>1, FS_Interval DEF last
  <2>3. Cardinality(1 .. last) = last
    BY <2>1, <2>2 DEF last
  <2>4. Cardinality(Made) <= Cardinality(1 .. last)
    BY <1>5, <2>2, FS_Subset DEF last
  <2>5. QED
    BY <2>3, <2>4 DEF last
<1>7. QED
  BY <1>1, <1>2, <1>4, <1>6

------------------------------------------------------------------------------
\* The budget of LlmBudget holds while documents are judged, whatever is judged.
THEOREM ResolveSpends == ResolveSpec => [](SpendingBounded /\ CountersAgree)
BY ResolveInvHolds, BudgetSpends, BudgetCounts, PTL DEF ResolveInv

\* Every accepted document was judged by the model with a yes that quotes it, and every
\* strong key stands on one of them that claims no other employer or city.
THEOREM VouchedForHolds == ResolveSpec => []VouchedFor
BY ResolveInvHolds, VouchedForHere, PTL

\* Without a strong key nobody is resolved on one document or on one of their details,
\* however many documents repeat it.
THEOREM OneFactHolds == ResolveSpec => []OneFactIsNotEnough
BY ResolveInvHolds, OneFactIsNotEnoughHere, PTL

\* The words the model chooses for a label change no outcome where the span itself
\* quotes a detail of the person.
THEOREM LabelsHold == ResolveSpec => []LabelsDecideNothing
BY ResolveInvHolds, LabelsDecideNothingHere, PTL

\* Two documents that speak for different keys of one kind cancel, and of one key the
\* evidence is counted, never its place: the opposite order earns the same keys.
THEOREM OrderHolds == ResolveSpec => []OrderEarnsNothing
BY ResolveInvHolds, OrderEarnsNothingHere, PTL

\* Every source that found something is heard: while the budget has a call for every
\* source, no document refused is a source's first.  The documents are in round-robin
\* order and the gate admits them in it.
THEOREM SourcesHeard == ResolveSpec => EverySourceHeard
<1>1. TurnInv =>
        [\A d \in Document : Refuse(d) =>
            \A s \in DOMAIN found :
                SearchOne(found[s]) # <<>> => SearchOne(found[s])[1].url # docs[d].url]_allVars
  <2> SUFFICES ASSUME TurnInv, NEW d \in Document, Refuse(d), NEW s \in DOMAIN found,
                      SearchOne(found[s]) # <<>>
               PROVE  SearchOne(found[s])[1].url # docs[d].url
    OBVIOUS
  <2> DEFINE batches == Batches(found)
  <2>1. /\ batches \in Seq(Seq(RawDoc)) /\ Len(batches) = Len(found)
        /\ s \in DOMAIN batches /\ batches[s] = SearchOne(found[s])
    BY BatchesAreDocs DEF TurnInv
  <2>2. docs = InterleaveDocs(batches) /\ d \in DOMAIN docs
    BY ResolverAssumption DEF TurnInv, FanOut
  <2>3. Len(batches) < d
    <3>1. Len(found) < d
      <4>1. d > Len(found)
        BY RefusedAfterTheSources
      <4>2. QED
        BY <4>1
    <3>2. QED
      BY <2>1, <3>1
  <2> HIDE DEF batches
  <2>4. QED
    BY <2>1, <2>2, <2>3, FirstsComeFirst
<1>2. QED
  BY <1>1, TurnInvHolds, PTL DEF EverySourceHeard
=============================================================================
