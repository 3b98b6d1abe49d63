---------------------------- MODULE Extraction -----------------------------
(***************************************************************************)
(* extract.py: the accepted documents become cited facts and canonical     *)
(* hubs.  The model is asked about a few documents at a time; nothing of   *)
(* an answer is believed that a document, the roster or the vocabulary     *)
(* does not carry, and an answer that could mean two things means nothing. *)
(*                                                                         *)
(* A text, a quote, a label and a place are sequences of words, up to the  *)
(* typography that cited_span and _mentions forgive.  A fact's id is       *)
(* <<doc_id, n>>.                                                          *)
(***************************************************************************)
EXTENDS Picks

CONSTANTS
    MAX_DOCS_PER_CALL, MAX_FACT_WORDS, MIN_QUOTE_WORDS, MAX_FIELD_HUBS,
    MIN_FIELD_HUB_WORDS,
    STOP_HUB_LABELS, FIELD_HUB_VOCABULARY,      \* sets of labels
    NON_OBVIOUS_ELIGIBLE_KINDS,
    Unspeakable,         \* the words slug leaves nothing of: punctuation, other scripts
    Name,                \* what an answer may call a fact: a word, or a guess at an id
    BlankId, Nothing

\* RawDoc: what a page says, when it was published.
Document ==
    [id : STRING, kind : STRING, title : Seq(STRING), text : Seq(STRING),
     qids : SUBSET Seq(Nat), days : {Nothing} \cup Nat]

HubType == {"company", "investor", "school", "board", "topic", "city", "technology", "event",
            "cause", "person"}

\* What a call is asked for, and an answer has been validated against.
Words == Seq(STRING)
CandidateFact ==
    [doc : STRING, text : Words, quote : Words, category : STRING, natural : STRING,
     id : Name, confidence : Nat]
CandidateHub ==
    [label : Words, type : HubType, doc : STRING, evidence : Seq(Name),
     qid : {Nothing} \cup Seq(Nat), field : BOOLEAN]
ExtractionResult ==
    [facts : Seq(CandidateFact), hubs : Seq(CandidateHub), based_in : {Nothing} \cup Words]

ASSUME ExtractionAssumption ==
    /\ {MAX_DOCS_PER_CALL, MIN_QUOTE_WORDS} \subseteq Nat \ {0}
    /\ {MAX_FACT_WORDS, MAX_FIELD_HUBS, MIN_FIELD_HUB_WORDS} \subseteq Nat
    /\ FIELD_HUB_VOCABULARY \subseteq Words

------------------------------------------------------------------------------
(* Texts                                                                    *)

\* _mentions: as whole words, wherever they stand.
Mentions(text, phrase) ==
    /\ phrase # <<>>
    /\ \E i \in DOMAIN text :
          /\ i + Len(phrase) - 1 <= Len(text)
          /\ SubSeq(text, i, i + Len(phrase) - 1) = phrase

Slug(label) == SelectSeq(label, LAMBDA word : word \notin Unspeakable)

\* cited_span: enough words to identify something, all of them the document's.
IsCited(quote, doc) == Len(quote) >= MIN_QUOTE_WORDS /\ Mentions(doc.text, quote)

\* _states_label: the title counts.
StatesLabel(doc, label) == Mentions(doc.title \o doc.text, label)

\* recency_for, in tenths.
RecencyFor(days) ==
    CASE days = Nothing -> 5
      [] days # Nothing /\ days <= 365 -> 10
      [] days # Nothing /\ days > 365 /\ days <= 1095 -> 6
      [] OTHER -> 3

\* The values that come most often; the lexicographically first of them is a CHOOSE.
Count(values, v) == Cardinality({i \in DOMAIN values : values[i] = v})
Commonest(values) ==
    {v \in Range(values) : \A w \in Range(values) : Count(values, w) <= Count(values, v)}

MostCommon(values) == IF values = <<>> THEN Nothing ELSE CHOOSE v \in Commonest(values) : TRUE

\* An identity is not drawn by lot.
Unambiguous(values) ==
    IF Cardinality(Commonest(values)) = 1 THEN CHOOSE v \in Commonest(values) : TRUE
    ELSE Nothing

------------------------------------------------------------------------------
(* Facts                                                                    *)

\* Mutant: the first document of the batch that carries the quote.
FirstSourceDoc(candidate, batch) ==
    LET carrying == {i \in DOMAIN batch : IsCited(candidate.quote, batch[i])}
    IN  {batch[i] : i \in {i \in carrying : \A j \in carrying : i <= j}}

\* _source_doc: the declared document if it carries the quote, else the only one that does.
SourceDoc(candidate, batch) ==
    LET carrying == {doc \in Range(batch) : IsCited(candidate.quote, doc)}
        declared == {doc \in carrying : doc.id = candidate.doc}
    IN  IF declared # {} THEN declared
        ELSE IF Cardinality(carrying) = 1 THEN carrying ELSE {}

\* _category_for: the flag and the source have to agree.
CategoryFor(candidate, doc) ==
    CASE candidate.category # "non_obvious"              -> candidate.category
      [] doc.kind \in NON_OBVIOUS_ELIGIBLE_KINDS         -> "non_obvious"
      [] candidate.natural # "non_obvious"               -> candidate.natural
      [] OTHER                                           -> "current_work"

Clamped(confidence) == IF confidence > 10 THEN 10 ELSE confidence

\* `claim`: the name the model gave it, kept for the properties.
BuildFact(candidate, doc, n) ==
    [id |-> <<doc.id, n>>, claim |-> candidate.id, doc |-> doc.id, kind |-> doc.kind,
     text |-> candidate.text, quote |-> candidate.quote,
     category |-> CategoryFor(candidate, doc),
     confidence |-> Clamped(candidate.confidence), excluded |-> FALSE, reason |-> "none"]

FactsOf(made, doc_id) == {i \in DOMAIN made : made[i].doc = doc_id}

\* _collect_facts: numbered per document, across batches.
CollectFacts(made, batch, answer) ==
    FoldLeft(LAMBDA sofar, candidate :
                 LET sources == SourceDoc(candidate, batch)
                     doc == CHOOSE d \in sources : TRUE
                 IN  IF \/ candidate.text = <<>> \/ Len(candidate.text) > MAX_FACT_WORDS
                        \/ sources = {}
                     THEN sofar
                     ELSE Append(sofar, BuildFact(candidate, doc,
                                                  Cardinality(FactsOf(sofar, doc.id)))),
             made, answer.facts)

Ids(made) == {made[i].id : i \in DOMAIN made}

\* Mutant: of two facts that claim a name the first one has it.
FirstClaimWins(new, reserved) ==
    LET claimed == {new[i].claim : i \in DOMAIN new} \ ({BlankId} \cup reserved \cup Ids(new))
        First(name) == CHOOSE i \in DOMAIN new :
                          new[i].claim = name /\ \A j \in 1 .. (i - 1) : new[j].claim # name
    IN  [name \in Ids(new) \cup claimed |->
            IF name \in Ids(new) THEN name ELSE new[First(name)].id]

\* _id_map: our ids mean our facts; a name that two facts claim means neither.
IdMap(new, reserved) ==
    LET Claiming(name) == {i \in DOMAIN new : new[i].claim = name}
        claimed == {name \in {new[i].claim : i \in DOMAIN new} :
                       /\ name \notin {BlankId} \cup reserved \cup Ids(new)
                       /\ Cardinality(Claiming(name)) = 1}
    IN  [name \in Ids(new) \cup claimed |->
            IF name \in Ids(new) THEN name
            ELSE new[CHOOSE i \in Claiming(name) : TRUE].id]

------------------------------------------------------------------------------
(* The hubs of one answer                                                   *)

\* _field_label: the vocabulary's longest term that the label names.
FieldLabel(label) ==
    LET terms == {term \in FIELD_HUB_VOCABULARY : Mentions(label, term)}
        longest == {term \in terms : \A other \in terms : Len(other) <= Len(term)}
    IN  IF terms = {} THEN Nothing ELSE CHOOSE term \in longest : TRUE

\* A field is called by its term.
LabelOf(hub) == IF hub.field THEN FieldLabel(hub.label) ELSE hub.label

Refused(hub) ==
    \/ Slug(hub.label) = <<>>
    \/ hub.label \in STOP_HUB_LABELS
    \/ hub.field /\ (FieldLabel(hub.label) = Nothing
                     \/ Len(FieldLabel(hub.label)) < MIN_FIELD_HUB_WORDS)

DocOf(fact, batch) == CHOOSE doc \in Range(batch) : doc.id = fact.doc
FactOf(id, made) == made[CHOOSE i \in DOMAIN made : made[i].id = id]

\* _attested_evidence: of the facts cited for a field, those whose document names it.
Attested(claimed, label, new, batch) ==
    Within(claimed, {id \in Range(claimed) : StatesLabel(DocOf(FactOf(id, new), batch), label)})

\* _source_hub_doc
SourceHubDoc(hub, batch) ==
    LET naming == {doc \in Range(batch) : StatesLabel(doc, LabelOf(hub))}
        declared == {doc \in naming : doc.id = hub.doc}
    IN  IF declared # {} THEN declared
        ELSE IF Cardinality(naming) = 1 THEN naming ELSE {}

\* _corroborated_evidence: of that document, the facts that name the entity themselves.
Corroborated(hub, new, batch) ==
    LET own == Within(new, {fact \in Range(new) :
                   /\ \E doc \in SourceHubDoc(hub, batch) : doc.id = fact.doc
                   /\ Mentions(fact.text \o fact.quote, LabelOf(hub))})
    IN  [i \in DOMAIN own |-> own[i].id]

Evidence(hub, new, batch, names) ==
    LET cited == Within(hub.evidence, DOMAIN names)
        claimed == [i \in DOMAIN cited |-> names[cited[i]]]
        kept == IF hub.field THEN Attested(claimed, LabelOf(hub), new, batch) ELSE claimed
    IN  IF kept # <<>> THEN kept ELSE Corroborated(hub, new, batch)

\* _states_qid and _stated_qids: a QID is its digits, and the first is a substring test.
OfferedQids(doc, qid) ==
    IF doc.kind # "wikidata" THEN {}
    ELSE doc.qids \cup {q \in {qid} : \E stated \in doc.qids : IsPrefix(q, stated)}

\* _hub_qid: the model's QID if the documents that name the label, counted per fact, rank
\* it first and alone; never another one.
HubQid(qid, label, docs) ==
    LET offered == UNION {OfferedQids(docs[i], qid) : i \in DOMAIN docs}
        Score(q) == Cardinality({i \in DOMAIN docs : /\ q \in OfferedQids(docs[i], qid)
                                                     /\ StatesLabel(docs[i], label)})
    IN  IF qid \in offered /\ \A q \in offered \ {qid} : Score(q) < Score(qid)
        THEN qid ELSE Nothing

Greatest(S) == CHOOSE n \in S : \A m \in S : m <= n

\* The group a candidate makes on its own.
GroupOf(hub, evidence, batch, new) ==
    LET docs == [i \in DOMAIN evidence |-> DocOf(FactOf(evidence[i], new), batch)]
        qid == IF hub.qid = Nothing THEN Nothing ELSE HubQid(hub.qid, LabelOf(hub), docs)
    IN  [key |-> Slug(LabelOf(hub)),
         types |-> <<IF hub.field THEN "topic" ELSE hub.type>>,
         labels |-> <<LabelOf(hub)>>,
         qids |-> IF qid = Nothing THEN <<>> ELSE <<qid>>,
         evidence |-> Range(evidence),
         recency |-> Greatest({RecencyFor(docs[i].days) : i \in DOMAIN docs}),
         field |-> hub.field]

\* _HubGroup.absorb: what two groups say is pooled.
Pooled(g, h) ==
    [key |-> g.key, types |-> g.types \o h.types, labels |-> g.labels \o h.labels,
     qids |-> g.qids \o h.qids, evidence |-> g.evidence \cup h.evidence,
     recency |-> Greatest({g.recency, h.recency}), field |-> g.field \/ h.field]

AddGroup(groups, group) ==
    IF \E i \in DOMAIN groups : groups[i].key = group.key
    THEN [i \in DOMAIN groups |->
             IF groups[i].key = group.key THEN Pooled(groups[i], group) ELSE groups[i]]
    ELSE Append(groups, group)

\* _collect_hubs: one group per slug of a label, whatever its type.
CollectHubs(groups, new, batch, answer, reserved) ==
    LET names == IdMap(new, reserved)
    IN  FoldLeft(LAMBDA sofar, hub :
                     LET evidence == Evidence(hub, new, batch, names)
                     IN  IF Refused(hub) \/ evidence = <<>> THEN sofar
                         ELSE AddGroup(sofar, GroupOf(hub, evidence, batch, new)),
                 groups, answer.hubs)

------------------------------------------------------------------------------
(* The hubs of a person                                                     *)

\* Mutant: a hub is what it was first said to be.
FirstIdentity(group) == [type |-> group.types[1], label |-> group.labels[1]]

\* _HubGroup.identity: by vote.
Identity(group) == [type |-> MostCommon(group.types), label |-> MostCommon(group.labels)]

\* canonical_hub_id
HubId(group) ==
    IF Unambiguous(group.qids) # Nothing THEN <<"wd", Unambiguous(group.qids)>>
    ELSE <<Identity(group).type, Slug(Identity(group).label)>>

Merged(groups) ==
    LET ids == {HubId(groups[i]) : i \in DOMAIN groups}
        Pool(id) == LET mine == Within(groups, {g \in Range(groups) : HubId(g) = id})
                    IN  FoldLeft(Pooled, mine[1], Tail(mine))
    IN  [id \in ids |-> Pool(id)]

FirstFound(evidence, made) ==
    CHOOSE i \in DOMAIN made : /\ made[i].id \in evidence
                               /\ \A j \in 1 .. (i - 1) : made[j].id \notin evidence

\* _surplus_field_ids: a field said of more facts outranks another, then the one found
\* first, then the order of the ids.
SurplusFieldIds(merged, made) ==
    LET ids == SetToSeq({id \in DOMAIN merged : merged[id].field})
        Size(k) == Cardinality(merged[ids[k]].evidence)
        Found(k) == FirstFound(merged[ids[k]].evidence, made)
        Outranks(j, k) == \/ Size(j) > Size(k)
                          \/ Size(j) = Size(k) /\ Found(j) < Found(k)
                          \/ Size(j) = Size(k) /\ Found(j) = Found(k) /\ j < k
    IN  {ids[k] : k \in {k \in DOMAIN ids :
            Cardinality({j \in DOMAIN ids : Outranks(j, k)}) >= MAX_FIELD_HUBS}}

Hub(id, group) ==
    [id |-> id, label |-> Identity(group).label, type |-> Identity(group).type,
     recency |-> group.recency, evidence |-> group.evidence]

MergeGroups(groups, made) ==
    LET merged == Merged(groups)
    IN  {Hub(id, merged[id]) : id \in DOMAIN merged \ SurplusFieldIds(merged, made)}

\* _confirmed_place: what the roster's details say, one after the other.
ConfirmedPlace(claimed, details) ==
    IF claimed # Nothing /\ Mentions(FlattenSeq(details), claimed) THEN claimed ELSE Nothing

\* _place_candidates: the leading segment first.
PlaceCandidates(place) ==
    LET commas == {i \in DOMAIN place : place[i] = ","}
        head == IF commas = {} THEN place
                ELSE SubSeq(place, 1, (CHOOSE i \in commas : \A j \in commas : i <= j) - 1)
    IN  IF head \in {place, <<>>} THEN <<place>> ELSE <<head, place>>

\* _roster_city_hub: the first spelling that a fact's document carries; the facts that say
\* it themselves, where there are any.
RosterCityHub(place, made, docs) ==
    LET candidates == PlaceCandidates(place)
        Placed(c) == {i \in DOMAIN made : StatesLabel(DocOf(made[i], docs), candidates[c])}
        Spoken(c) == {i \in Placed(c) :
                         Mentions(made[i].text \o made[i].quote, candidates[c])}
        usable == {c \in DOMAIN candidates : Slug(candidates[c]) # <<>> /\ Placed(c) # {}}
        c == CHOOSE c \in usable : \A d \in usable : c <= d
        evidence == IF Spoken(c) # {} THEN Spoken(c) ELSE Placed(c)
    IN  IF usable = {} THEN {}
        ELSE {[id |-> <<"city", Slug(candidates[c])>>, label |-> candidates[c], type |-> "city",
               recency |-> Greatest({RecencyFor(DocOf(made[i], docs).days) : i \in evidence}),
               evidence |-> {made[i].id : i \in evidence}]}

\* Mutant: the roster's city is added, and the model's stay.
PlaceAdded(hubs, place, made, docs) ==
    IF place = Nothing THEN hubs ELSE hubs \cup RosterCityHub(place, made, docs)

\* _place_hubs: where the roster states a place, its city is the only one.
PlaceHubs(hubs, place, made, docs) ==
    IF place = Nothing THEN hubs
    ELSE {hub \in hubs : hub.type # "city"} \cup RosterCityHub(place, made, docs)

------------------------------------------------------------------------------
(* extract                                                                  *)

Empty == [facts |-> <<>>, groups |-> <<>>, places |-> <<>>]

\* The nth batch of the accepted documents.
BatchOf(docs, n) ==
    SubSeq(docs, (n - 1) * MAX_DOCS_PER_CALL + 1,
           IF n * MAX_DOCS_PER_CALL < Len(docs) THEN n * MAX_DOCS_PER_CALL ELSE Len(docs))

\* One answer, taken in.
Collect(sofar, batch, answer, details) ==
    LET made == CollectFacts(sofar.facts, batch, answer)
        new == SubSeq(made, Len(sofar.facts) + 1, Len(made))
        place == ConfirmedPlace(answer.based_in, details)
    IN  [facts |-> made,
         groups |-> CollectHubs(sofar.groups, new, batch, answer, Ids(sofar.facts)),
         places |-> IF place = Nothing THEN sofar.places ELSE Append(sofar.places, place)]

\* What the person is left with after the last answer.
HubsOf(done, docs) ==
    PlaceHubs(MergeGroups(done.groups, done.facts), MostCommon(done.places), done.facts, docs)
=============================================================================
