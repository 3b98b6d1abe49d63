----------------------------- MODULE Resolver ------------------------------
(***************************************************************************)
(* resolve.resolve: which of the documents found are about this person.    *)
(* Every document is judged by the model within LlmBudget; the answers are *)
(* policed, and once the last is in the person is resolved on a strong key *)
(* or on two verdicts that cite different attributes, or stays unresolved. *)
(*                                                                         *)
(* A text, a span of it or a field is the set of phrases it contains: the  *)
(* phrases of the person's details, OtherEmployer and OtherCity (structured*)
(* claims that name somebody else's) and phrases that say nothing.         *)
(***************************************************************************)
EXTENDS LlmBudget, Retrieval

CONSTANTS
    Found,               \* what the sources may answer: a sequence per source
    Roster,              \* the people: sequences of details
    Reply,               \* what the model may answer about a document
    Phrase, OtherEmployer, OtherCity,
    Common,              \* phrases that _is_distinctive refuses
    Short,               \* names too short to be looked for in a host
    None

FAMILY_WORDS ==
    << [family |-> "employer", words |-> {"employer", "company"}],
       [family |-> "city", words |-> {"city", "location"}],
       [family |-> "role", words |-> {"role", "title"}],
       [family |-> "handle", words |-> {"handle", "username"}],
       [family |-> "school", words |-> {"school", "college"}],
       [family |-> "coauthor", words |-> {"coauthor", "collaborator"}] >>

\* `shape`: a role and an organisation, a separator without a role before it, a role
\* alone, or neither.  `org`: the first clause of what follows the separator.
Detail == [shape : {"role at", "split", "role", "plain"}, denies : BOOLEAN,
           org : Phrase, phrases : SUBSET Phrase]

\* `lead`: the identifier the page leads with; `own`: the CIKs next to the person's name;
\* `host`: <<the company's label, the rest>>; `company`, `location`: a profile's fields.
RawDoc == [url : Nat, kind : STRING, names : BOOLEAN, says : SUBSET Phrase,
           company : SUBSET Phrase, location : SUBSET Phrase, lead : {None} \cup STRING,
           own : SUBSET STRING, host : {None} \cup (Phrase \X STRING)]

ASSUME ResolverAssumption ==
    /\ Found \subseteq Seq({Failed} \cup Seq({Blank} \cup RawDoc))
    /\ Blank \notin RawDoc
    /\ \A answers \in Found : DOMAIN FanOut(answers) = Document
    /\ \A answers \in Found : Len(answers) <= MAX_LLM_CALLS
    /\ Roster \subseteq Seq(Detail)
    /\ {OtherEmployer, OtherCity} \cup Common \cup Short \subseteq Phrase
    /\ Reply \subseteq [match : STRING, evidence : SUBSET Phrase, label : SUBSET STRING,
                       confidence : Int]

VARIABLES
    person, found,       \* the input: the person, and the sources' answers
    docs,                \* the documents to judge
    verdict,             \* per document, once settled
    resolution           \* None until resolve returns
given == <<person, found, docs>>
resolveVars == <<given, verdict, resolution>>

------------------------------------------------------------------------------
(* The person's details                                                     *)

FirstOf(I) == IF I = {} THEN 0 ELSE CHOOSE i \in I : \A j \in I : i <= j

\* _organisation_part: the strict reading, the lenient one only if no detail reads so.
Organised(p, i) ==
    \/ p[i].shape = "role at"
    \/ p[i].shape = "split" /\ \A j \in DOMAIN p : p[j].shape # "role at"

EmployerDetail(p) == FirstOf({i \in DOMAIN p : ~p[i].denies /\ Organised(p, i)})

CityDetail(p) ==
    FirstOf({i \in DOMAIN p : ~p[i].denies /\ ~Organised(p, i) /\ p[i].shape # "role"})

\* _corroborable_attributes: the groups of phrases of which a span quotes one to
\* corroborate the detail.
Groups(p, i) ==
    CASE i = EmployerDetail(p) -> {{p[i].org}}
      [] i = CityDetail(p)     -> {p[i].phrases}
      [] p[i].denies           -> {}
      [] OTHER                 -> {{w} : w \in p[i].phrases \ Common}

\* A person as the resolver reads their details.
Read(p) ==
    [employer |-> EmployerDetail(p), city |-> CityDetail(p),
     employerName |-> IF EmployerDetail(p) = 0 THEN None ELSE p[EmployerDetail(p)].org,
     groups |-> [i \in DOMAIN p |-> Groups(p, i)]]

AttributeOf(p, i) ==
    CASE i = p.employer -> <<"employer", 0>>
      [] i = p.city     -> <<"city", 0>>
      [] OTHER          -> <<"detail", i>>

Mentions(says, p, i) == i # 0 /\ \E g \in p.groups[i] : g \subseteq says

\* Mutant: every phrase of a detail an attribute of its own.
PhraseAttributes(p, says) ==
    UNION {{<<CHOOSE w \in g : TRUE, i>> : g \in {g \in p.groups[i] : g \subseteq says}} :
             i \in DOMAIN p.groups}

\* One detail, one attribute, whatever its punctuation.
CorroboratedDetails(p, says) ==
    {AttributeOf(p, i) : i \in {i \in DOMAIN p.groups : Mentions(says, p, i)}}

\* How many of the employer and the city: the evidence a strong key is ranked on.
DetailsMatched(says, p) ==
    Cardinality({i \in {p.employer, p.city} : Mentions(says, p, i)})

\* attribute_family: the first family with a word in the label; what no family knows is
\* one family.
AttributeFamily(label) ==
    LET k == FirstOf({k \in DOMAIN FAMILY_WORDS : FAMILY_WORDS[k].words \cap label # {}})
    IN  IF k = 0 THEN "other" ELSE FAMILY_WORDS[k].family

\* Mutant: the model's label is asked first.
LabelFirst(p, v) ==
    IF v.label # {} THEN {<<AttributeFamily(v.label), 0>>}
    ELSE CorroboratedDetails(p, v.evidence)

\* The span says which attributes it corroborates; its label only when it names none.
VerdictAttributes(p, v) ==
    LET details == CorroboratedDetails(p, v.evidence)
    IN  IF details # {} \/ v.label = {} THEN details
        ELSE {<<AttributeFamily(v.label), 0>>}

------------------------------------------------------------------------------
(* One verdict                                                              *)

Unjudged == [match |-> "unsure", evidence |-> {}, label |-> {}, confidence |-> 0]

CitesDocument(evidence, doc) == evidence # {} /\ evidence \subseteq doc.says

\* _verdict_from: a word outside the vocabulary is unsure, and so is a yes or a no that
\* quotes nothing of the document.
VerdictFrom(doc, reply) ==
    [match |-> IF reply.match \in {"yes", "no"} /\ CitesDocument(reply.evidence, doc)
               THEN reply.match ELSE "unsure",
     evidence |-> reply.evidence,
     label |-> reply.label,
     confidence |-> CASE reply.confidence < 0 -> 0
                      [] reply.confidence > 2 -> 2
                      [] OTHER -> reply.confidence]

\* A `no` whose evidence asserts another employer or another city.
NegativeEvidenceVeto(p, v) ==
    LET family == AttributeFamily(v.label)
        detail == IF family = "employer" THEN p.employer ELSE p.city
    IN  v.match = "no" /\ family \in {"employer", "city"} /\ ~Mentions(v.evidence, p, detail)

\* Evidence that names, in a field of its own, an employer or a city not the person's.
ConflictingIdentityClaim(p, v) ==
    \/ p.employer # 0 /\ OtherEmployer \in v.evidence
    \/ p.city # 0 /\ OtherCity \in v.evidence

------------------------------------------------------------------------------
(* Strong keys                                                              *)

Strength(C, value) ==
    LET mine == {c \in C : c.value = value}
    IN  [details |-> CHOOSE n \in {c.details : c \in mine} : \A c \in mine : c.details <= n,
         supporting |-> Cardinality({c.doc : c \in mine})]

Outranks(s, t) ==
    s.details > t.details \/ (s.details = t.details /\ s.supporting > t.supporting)

\* Mutant: of equals, the document that came first.
BestOrFirst(C) ==
    LET top == {c.value : c \in {c \in C : \A b \in C :
                    ~Outranks(Strength(C, b.value), Strength(C, c.value))}}
    IN  IF top = {} THEN None
        ELSE (CHOOSE c \in C : c.value \in top /\ \A b \in C : b.value \in top => c.doc <= b.doc).value

\* _best: the value that outranks every other one, and none on a tie.
Best(C) ==
    LET top == {c.value : c \in {c \in C : \A b \in C :
                    ~Outranks(Strength(C, b.value), Strength(C, c.value))}}
    IN  IF \E v \in top : top = {v} THEN CHOOSE v \in top : TRUE ELSE None

Candidate(page, value, details) == [doc |-> page.at, value |-> value, details |-> details]

\* `pages`: the keyable documents, [at, doc].
WikidataQid(p, pages) ==
    Best({Candidate(g, g.doc.lead, DetailsMatched(g.doc.says, p)) :
            g \in {g \in pages : /\ g.doc.kind = "wikidata" /\ g.doc.names
                                 /\ g.doc.lead # None /\ DetailsMatched(g.doc.says, p) > 0}})

\* The name field and the company field both confirm; the location only ranks.
GithubHandle(p, pages) ==
    Best({Candidate(g, g.doc.lead,
                    IF Mentions(g.doc.location, p, p.city) THEN 2 ELSE 1) :
            g \in {g \in pages : /\ g.doc.kind = "github" /\ g.doc.names
                                 /\ Mentions(g.doc.company, p, p.employer)
                                 /\ g.doc.lead # None}})

\* The CIKs of the entries that name the person, else the one the page leads with.
PersonCiks(doc) == IF doc.own # {} THEN doc.own ELSE {doc.lead} \ {None}

SecCik(p, pages) ==
    Best(UNION {{Candidate(g, cik, DetailsMatched(g.doc.says, p)) : cik \in PersonCiks(g.doc)} :
            g \in {g \in pages : /\ g.doc.kind = "edgar" /\ g.doc.names
                                 /\ Mentions(g.doc.says, p, p.employer)}})

\* The host's label is the employer's whole name; a page that says more outranks.
CompanyDomain(p, pages) ==
    IF p.employer = 0 \/ p.employerName \in Short THEN None
    ELSE Best({Candidate(g, g.doc.host,
                   DetailsMatched(g.doc.says, p) + (IF g.doc.names THEN 1 ELSE 0)) :
                g \in {g \in pages : g.doc.host # None /\ g.doc.host[1] = p.employerName}})

StrongKeysFor(p, pages) ==
    [wikidata_qid |-> WikidataQid(p, pages), company_domain |-> CompanyDomain(p, pages),
     github |-> GithubHandle(p, pages), sec_cik |-> SecCik(p, pages)]

HasKey(keys) == \E k \in DOMAIN keys : keys[k] # None
NoKeys == [k \in {"wikidata_qid", "company_domain", "github", "sec_cik"} |-> None]

------------------------------------------------------------------------------
(* resolve                                                                  *)

AcceptedOf(p, V) ==
    {d \in Document : ~NegativeEvidenceVeto(p, V[d]) /\ V[d].match = "yes"}

\* Mutant: every accepted document may carry a key.
AllKeyable(p, V) == AcceptedOf(p, V)

Keyable(p, V) == {d \in AcceptedOf(p, V) : ~ConflictingIdentityClaim(p, V[d])}

Pages(D) == {[at |-> d, doc |-> docs[d]] : d \in D}

Independent(p, V) ==
    /\ Cardinality(AcceptedOf(p, V)) >= 2
    /\ Cardinality(UNION {VerdictAttributes(p, V[d]) : d \in AcceptedOf(p, V)}) >= 2

Outcome(p, V) ==
    LET accepted == AcceptedOf(p, V)
        keys == StrongKeysFor(p, Pages(Keyable(p, V)))
        confidences == {V[d].confidence : d \in accepted}
    IN  IF HasKey(keys) \/ Independent(p, V)
        THEN [status |-> "resolved", keys |-> keys, accepted |-> accepted,
              rejected |-> Document \ accepted,
              confidence |-> CHOOSE n \in confidences : \A m \in confidences : m <= n]
        ELSE [status |-> "unresolved", keys |-> NoKeys, accepted |-> {},
              rejected |-> Document, confidence |-> 0]

ResolveInit ==
    /\ Init
    /\ person \in {Read(p) : p \in Roster} /\ found \in Found
    /\ docs = FanOut(found)
    /\ verdict = [d \in Document |-> Unjudged]
    /\ resolution = None

\* A call made or made again tells nothing yet.
Call(d) == (Ask(d) \/ Retry(d)) /\ UNCHANGED resolveVars

Judge(d) ==
    /\ Answer(d)
    /\ \E reply \in Reply : verdict' = [verdict EXCEPT ![d] = VerdictFrom(docs[d], reply)]
    /\ UNCHANGED <<given, resolution>>

\* Past the budget, or LLMError: the document stays unsure.
GiveUp(d) == (Refuse(d) \/ Fail(d)) /\ UNCHANGED resolveVars

\* The gather is complete.
Conclude ==
    /\ Settled /\ resolution = None
    /\ resolution' = Outcome(person, verdict)
    /\ UNCHANGED <<vars, given, verdict>>

ResolveNext == Conclude \/ \E d \in Document : Call(d) \/ Judge(d) \/ GiveUp(d)

allVars == <<vars, resolveVars>>

ResolveFairness ==
    /\ \A d \in Document : /\ WF_allVars((Ask(d) \/ Refuse(d)) /\ UNCHANGED resolveVars)
                           /\ WF_allVars(Fail(d) /\ UNCHANGED resolveVars)
    /\ WF_allVars(Conclude)

ResolveSpec == ResolveInit /\ [][ResolveNext]_allVars /\ ResolveFairness

------------------------------------------------------------------------------
Resolved == resolution # None /\ resolution.status = "resolved"

\* The spans of the accepted verdicts, and the details of the person they quote.
Quoting == {d \in resolution.accepted : CorroboratedDetails(person, verdict[d].evidence) # {}}
Quoted == {i \in DOMAIN person.groups :
              \E d \in resolution.accepted : Mentions(verdict[d].evidence, person, i)}

\* Nobody is resolved on one fact: without a strong key there are two verdicts, and
\* their spans do not all quote the same one detail of the person, in whatever words.
OneFactIsNotEnough ==
    Resolved /\ ~HasKey(resolution.keys) =>
        /\ Cardinality(resolution.accepted) >= 2
        /\ Quoting = resolution.accepted => Cardinality(Quoted) >= 2

\* The model chooses the words of a label and not the words of a page: had it labelled
\* the spans that quote the person's details otherwise, the outcome would be the same.
LabelsDecideNothing ==
    resolution # None =>
        \A k \in DOMAIN FAMILY_WORDS :
            resolution = Outcome(person,
                [d \in Document |->
                    IF CorroboratedDetails(person, verdict[d].evidence) = {} THEN verdict[d]
                    ELSE [verdict[d] EXCEPT !.label = FAMILY_WORDS[k].words]])

\* A strong key is a function of the set of the documents: the same ones in the opposite
\* order earn the same keys.
OrderEarnsNothing ==
    Resolved =>
        LET keyable == Keyable(person, verdict)
            reversed == {[at |-> Cardinality(Document) + 1 - d, doc |-> docs[d]] : d \in keyable}
        IN  StrongKeysFor(person, reversed) = resolution.keys

\* Whose documents these are: each accepted one was answered by the model with a yes that
\* quotes it, and every key stands on one that claims no other employer or city.
VouchedFor ==
    Resolved =>
        /\ \A d \in resolution.accepted :
              /\ pc[d] = "judged" /\ verdict[d].match = "yes"
              /\ CitesDocument(verdict[d].evidence, docs[d])
        /\ \A k \in {k \in DOMAIN resolution.keys : resolution.keys[k] # None} :
              \E d \in resolution.accepted :
                  /\ IF k = "company_domain" THEN resolution.keys[k] = docs[d].host
                     ELSE resolution.keys[k] \in {docs[d].lead} \cup docs[d].own
                  /\ ~ConflictingIdentityClaim(person, verdict[d])

\* While the budget has a call for every source, no source that found something goes
\* unread: the documents refused are never a source's first.
EverySourceHeard ==
    [][\A d \in Document : Refuse(d) =>
          \A s \in DOMAIN found :
              SearchOne(found[s]) # <<>> => SearchOne(found[s])[1].url # docs[d].url]_allVars

\* The gather completes and every person gets an answer.
AlwaysConcludes == <>(resolution # None)
=============================================================================
