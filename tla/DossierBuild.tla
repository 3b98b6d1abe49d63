--------------------------- MODULE DossierBuild ----------------------------
(***************************************************************************)
(* The second half of research.build_dossier: the documents the resolver   *)
(* accepted are read by Extraction, the facts screened by TasteGate, and   *)
(* the hubs left without a fact to stand on are dropped.  Any model call   *)
(* may fail; the budget is one reason.                                     *)
(***************************************************************************)
EXTENDS Extraction, TasteGate

CONSTANTS
    Subject,             \* the people: [docs, details]
    Answer               \* what the model may answer about a batch of documents

\* DossierAssumption: accepted_documents lists a document once.
ASSUME DossierAssumption ==
    /\ Subject \subseteq [docs : Seq(Document), details : Seq(Words)]
    /\ \A person \in Subject : \A i, j \in DOMAIN person.docs :
          person.docs[i].id = person.docs[j].id => i = j
    /\ Answer \subseteq ExtractionResult /\ Failed \notin Answer
    /\ Response \subseteq Seq([fact_id : Name, verdict : TasteVerdict])

VARIABLES
    subject,             \* the input
    stage,               \* "extract", "taste", "done"
    answers,             \* the model's answers, one per batch of documents
    extracted,           \* what extract has taken from them
    dossier              \* Nothing until it is built
pageVars == <<subject, stage, answers, extracted, dossier>>

\* Mutant: the unsupported hubs go, the others keep every id.
DropOnly(hubs, tasted) ==
    LET excluded == {tasted[i].id : i \in {i \in DOMAIN tasted : tasted[i].excluded}}
    IN  {hub \in hubs : ~(hub.evidence \subseteq excluded)}

\* _supported_hubs: a hub goes with the last of its facts, and points at none that went.
SupportedHubs(hubs, tasted) ==
    LET excluded == {tasted[i].id : i \in {i \in DOMAIN tasted : tasted[i].excluded}}
    IN  {[hub EXCEPT !.evidence = @ \ excluded] :
            hub \in {hub \in hubs : ~(hub.evidence \subseteq excluded)}}

BuildInit ==
    /\ TasteInit
    /\ subject \in Subject
    /\ stage = "extract" /\ answers = <<>> /\ extracted = Empty /\ dossier = Nothing

Unread == BatchOf(subject.docs, Len(answers) + 1)

\* One batch of documents; a failed call costs its own documents and no others.
Extract ==
    /\ stage = "extract" /\ Unread # <<>>
    /\ \E answer \in Answer \cup {Failed} :
          /\ answers' = Append(answers, answer)
          /\ extracted' = IF answer = Failed THEN extracted
                          ELSE Collect(extracted, Unread, answer, subject.details)
    /\ UNCHANGED <<tasteVars, subject, stage, dossier>>

StartTaste ==
    /\ stage = "extract" /\ Unread = <<>>
    /\ stage' = "taste"
    /\ Screen(extracted.facts)
    /\ UNCHANGED <<subject, answers, extracted, dossier>>

Classify ==
    /\ stage = "taste"
    /\ \E response \in Response \cup {Failed} : AskBatch(response)
    /\ UNCHANGED pageVars

Assemble ==
    /\ stage = "taste" /\ ~Asking
    /\ stage' = "done"
    /\ dossier' = [facts |-> Tasted,
                   hubs |-> SupportedHubs(HubsOf(extracted, subject.docs), Tasted)]
    /\ UNCHANGED <<tasteVars, subject, answers, extracted>>

BuildNext == Extract \/ StartTaste \/ Classify \/ Assemble

buildVars == <<tasteVars, pageVars>>
BuildSpec == BuildInit /\ [][BuildNext]_buildVars

------------------------------------------------------------------------------
Built == stage = "done"

\* The batch a document was prompted in, and the answer to it.
BatchWith(doc_id) ==
    CHOOSE n \in DOMAIN answers :
        \E i \in DOMAIN BatchOf(subject.docs, n) : BatchOf(subject.docs, n)[i].id = doc_id
Prompted(fact) == BatchOf(subject.docs, BatchWith(fact.doc))
Answered(fact) == answers[BatchWith(fact.doc)]

\* Every fact quotes the document it names, in the document's own words, and the document
\* is nobody's guess: the model declared it, or of the batch no other one carries the
\* quote.  Numbers do not repeat, and a source of the first page is never non-obvious.
CitedVerbatim ==
    \A i \in DOMAIN extracted.facts :
        LET fact == extracted.facts[i]
            doc == DocOf(fact, subject.docs)
        IN  /\ IsCited(fact.quote, doc) /\ doc.kind = fact.kind
            /\ fact.category = "non_obvious" => fact.kind \in NON_OBVIOUS_ELIGIBLE_KINDS
            /\ \A j \in DOMAIN extracted.facts : extracted.facts[j].id = fact.id => j = i
            /\ \E candidate \in Range(Answered(fact).facts) :
                  /\ candidate.text = fact.text /\ candidate.quote = fact.quote
                  /\ candidate.id = fact.claim
                  /\ \/ candidate.doc = fact.doc
                     \/ \A other \in Range(Prompted(fact)) :
                           IsCited(fact.quote, other) => other.id = fact.doc

\* The ids a hub cites are printed as sources.  Each is a fact that the answer to its own
\* batch calls by our id, or by a name that it gives to no other fact and that was nobody's
\* id by then, or else a fact that names the hub itself or, for the member's city, whose
\* document does.
EvidenceIsNoGuess ==
    Built =>
        \A hub \in dossier.hubs : \A id \in hub.evidence :
            LET fact == FactOf(id, extracted.facts)
                known == {f \in Range(extracted.facts) :
                             BatchWith(f.doc) <= BatchWith(fact.doc)}
                siblings == {f \in known : BatchWith(f.doc) = BatchWith(fact.doc)}
            IN  \/ /\ hub.type = "city" /\ extracted.places # <<>>
                   /\ StatesLabel(DocOf(fact, subject.docs), hub.label)
                \/ \E candidate \in Range(Answered(fact).hubs) :
                      /\ hub.id[1] = "wd" \/ Slug(LabelOf(candidate)) = Slug(hub.label)
                      /\ \/ Mentions(fact.text \o fact.quote, LabelOf(candidate))
                         \/ \E name \in Range(candidate.evidence) :
                               \/ name = id
                               \/ /\ name \notin {f.id : f \in known}
                                  /\ {f \in siblings : f.claim = name} = {fact}

Backwards(answer) == [answer EXCEPT !.hubs = Reverse(@)]

\* A hub is a function of the evidence: had the model listed its hubs in the opposite
\* order, the person would be left with the same ones, of the same types and ids.
HubOrderDecidesNothing ==
    stage = "taste" /\ log = <<>> =>
        LET reversed[n \in 0 .. Len(answers)] ==
                IF n = 0 THEN Empty
                ELSE IF answers[n] = Failed THEN reversed[n - 1]
                ELSE Collect(reversed[n - 1], BatchOf(subject.docs, n), Backwards(answers[n]),
                             subject.details)
        IN  HubsOf(reversed[Len(answers)], subject.docs) = HubsOf(extracted, subject.docs)

\* A document that states two QIDs settles neither on its own.
QidsConfirmed(hubs) ==
    \A hub \in hubs : hub.id[1] = "wd" =>
        LET sources == {DocOf(FactOf(id, extracted.facts), subject.docs) : id \in hub.evidence}
        IN  \A doc \in sources : sources = {doc} => OfferedQids(doc, hub.id[2]) = {hub.id[2]}

\* Where the roster states a place, the only city is that one.
CitiesConfirmed(hubs) ==
    \A hub \in hubs :
        hub.type = "city" /\ extracted.places # <<>> =>
            /\ Mentions(FlattenSeq(subject.details), hub.label)
            /\ \A id \in hub.evidence :
                  StatesLabel(DocOf(FactOf(id, extracted.facts), subject.docs), hub.label)

\* An identity that joins people is never the model's alone.
NothingAdopted ==
    stage = "taste" /\ log = <<>> =>
        LET hubs == HubsOf(extracted, subject.docs)
        IN  QidsConfirmed(hubs) /\ CitiesConfirmed(hubs)

\* No hub points at a sentence that was withheld, and none stands on such sentences only.
NoPointerToWithheld ==
    Built =>
        \A hub \in dossier.hubs :
            /\ hub.evidence # {}
            /\ \A i \in DOMAIN dossier.facts :
                  dossier.facts[i].id \in hub.evidence => ~dossier.facts[i].excluded

\* What stands between two stops.
Clauses(text) ==
    {SubSeq(text, r[1], r[2]) : r \in {r \in (DOMAIN text) \X (DOMAIN text) :
        /\ r[1] <= r[2]
        /\ r[1] = 1 \/ text[r[1] - 1] = "."
        /\ r[2] = Len(text) \/ text[r[2] + 1] = "."}}

\* Whatever the tables of the build let pass and whatever the model ruled, no page shows a
\* sentence or a quote of which some clause, read on its own, today's tables exclude: no
\* company in the next clause hides it, and no exemption.
NothingWithheldIsShown ==
    Built =>
        \A i \in DOMAIN dossier.facts :
            IsDisplayable(dossier.facts[i]) =>
                \A clause \in Clauses(dossier.facts[i].text)
                                  \cup Clauses(ScreenQuote(dossier.facts[i])) :
                    RuleVerdict(clause, Today).decision # "exclude"
=============================================================================
