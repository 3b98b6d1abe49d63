----------------------------- MODULE DigestPage -----------------------------
(***************************************************************************)
(* arrival.digest.make_digest: which facts of the arriving person's dossier *)
(* a digest shows, where, and which documents it cites for them.  ArrivalApp *)
(* has the handler and its await; here is the page the await is inside of.  *)
(*                                                                         *)
(* A fact is abstracted to what the selection reads: its category and       *)
(* source, whether taste lets it be displayed, whether it can be read aloud *)
(* and how long it is, when it was published, its document and confidence.  *)
(***************************************************************************)
EXTENDS Picks

CONSTANTS
    FactShape,           \* the descriptions a fact may have
    MaxFacts,            \* bound: facts of a dossier
    MeetRows,            \* what digest.meet may be: rows [other, hubs], a hub [counts, evidence]
    Undated,             \* published_at is None, earlier than any date
    NameWords,           \* words of the person's name in the Who line
    SPOKEN_WORD_CAP, LATELY_CAP,
    NoFact

\* FactCategory; "affiliation" stands for "interest" too.
Category == {"current_work", "recent_activity", "non_obvious", "hook", "affiliation",
             "collaborator"}

HubShape == [counts : BOOLEAN, evidence : Seq(Nat)]

\* DigestAssumption: a line longer than the cap cannot be read aloud.
ASSUME DigestAssumption ==
    /\ \A s \in FactShape :
         /\ s.category \in Category
         /\ {s.rare, s.displayable, s.aloud} \subseteq BOOLEAN
         /\ {s.published, s.confidence, s.words} \subseteq Int
         /\ s.published >= Undated
         /\ s.aloud => s.words <= SPOKEN_WORD_CAP
    /\ \A rows \in MeetRows :
         rows \in Seq(ToSet(rows)) /\ \A row \in ToSet(rows) : row.hubs \in Seq(HubShape)
    /\ {MaxFacts, NameWords, SPOKEN_WORD_CAP, LATELY_CAP} \subseteq Nat
    /\ Undated \in Int /\ NoFact \notin Nat

VARIABLES
    facts,               \* the dossier's facts, by fact_id
    meet,                \* the Meet rows: what the hubs they share lean on
    pc,                  \* "new", "asking", "answered", "failed" or "done"
    who, nonobvious, lately, candidates,     \* make_digest's locals
    quoted,              \* the fact the opener quotes, or NoFact
    opener,              \* the fact whose sentence the opener says, or NoFact
    sources              \* Digest.sources: the fact whose provenance fills each slot
picks == <<who, nonobvious, lately, candidates>>
vars == <<facts, meet, pc, picks, quoted, opener, sources>>

Id == DOMAIN facts

------------------------------------------------------------------------------
(* Orders.  They are total: the fact_id breaks every tie.                   *)

MoreConfident(f, g) ==
    \/ facts[f].confidence > facts[g].confidence
    \/ facts[f].confidence = facts[g].confidence /\ f > g

\* _stronger, and the order of the Who line: a tie goes to the lower id.
Stronger(f, g) ==
    \/ facts[f].confidence > facts[g].confidence
    \/ facts[f].confidence = facts[g].confidence /\ f < g

\* _recency_key, reversed
MoreRecent(f, g) ==
    \/ facts[f].published > facts[g].published
    \/ facts[f].published = facts[g].published /\ MoreConfident(f, g)

FirstOf(s, n) == SubSeq(s, 1, IF Len(s) < n THEN Len(s) ELSE n)

------------------------------------------------------------------------------
(* Sections                                                                 *)

\* _displayable: the facts taste lets a host see.
Displayable == {f \in Id : facts[f].displayable}

\* who_line_for: speakable current work, strongest first, skipping what does not fit.
WhoFacts ==
    LET fits(line, f) ==
            IF line.words + facts[f].words <= SPOKEN_WORD_CAP
            THEN [words |-> line.words + facts[f].words, used |-> Append(line.used, f)]
            ELSE line
        work == {f \in Displayable : facts[f].category = "current_work" /\ facts[f].aloud}
    IN  FoldLeft(fits, [words |-> NameWords, used |-> <<>>], Sorted(work, Stronger)).used

\* pick_non_obvious: the most confident one from a source a first page would not have.
NonObvious ==
    LET eligible == {f \in Displayable : facts[f].category = "non_obvious" /\ facts[f].rare}
    IN  IF eligible = {} THEN NoFact ELSE Sorted(eligible, MoreConfident)[1]

Pool(spoken) == {f \in Displayable \ spoken : facts[f].published # Undated}

\* pick_lately: recent activity; other professional facts only top a short list up.
Lately(spoken) ==
    LET primary == {f \in Pool(spoken) : facts[f].category = "recent_activity"}
        chosen == FirstOf(Sorted(primary, MoreRecent), LATELY_CAP)
        fallback == {f \in Pool(spoken) : facts[f].category \in {"hook", "affiliation"}}
        topUp == FirstOf(Sorted(fallback, MoreRecent), LATELY_CAP - Len(chosen))
    IN  Sorted(ToSet(chosen) \cup ToSet(topUp), MoreRecent)

\* opener_hook_candidates: hooks by confidence, then everything else by recency.
Candidates(spoken) ==
    LET open == Displayable \ spoken
        hooks == {f \in open : facts[f].category = "hook"}
    IN  Sorted(hooks, MoreConfident) \o Sorted(open \ hooks, MoreRecent)

\* _validate_opener of OPENER_TEMPLATE, whose own three words count.
Invites(f) == facts[f].aloud /\ facts[f].words + 3 <= SPOKEN_WORD_CAP

\* _fallback_opener: the first candidate whose sentence makes a speakable line.
Fallback(s) ==
    LET at == SelectInSeq(s, Invites) IN IF at = 0 THEN NoFact ELSE s[at]

\* _opener_prompt: the best candidate and what Lately shows.
Prompted == ToSet(FirstOf(candidates, 1) \o lately)

------------------------------------------------------------------------------
(* Why we know this                                                         *)

One(f) == IF f = NoFact THEN <<>> ELSE <<f>>

\* What resolves in this dossier and may be displayed of what some hubs lean on.
EvidenceOf(hubs) ==
    Within(FlattenSeq([h \in DOMAIN hubs |-> hubs[h].evidence]), Displayable)

\* _hub_evidence: every hub of every row, in row order.
HubEvidence == FlattenSeq([r \in DOMAIN meet |-> EvidenceOf(meet[r].hubs)])

\* Mutant: the opener's quotation left uncited.
CitedWithoutOpener == who \o lately \o One(nonobvious) \o HubEvidence
Cited == who \o lately \o One(nonobvious) \o HubEvidence \o One(quoted)

\* Mutant: whichever fact reached the document first keeps its slot.
SourcesFirstComer(s) ==
    FoldLeft(LAMBDA slots, f :
               IF \E i \in DOMAIN slots : facts[slots[i]].doc = facts[f].doc
               THEN slots ELSE Append(slots, f), <<>>, s)

\* _sources: a slot per document in first-use order, for the strongest fact cited.
Sources(s) ==
    FoldLeft(LAMBDA slots, f :
               IF \E i \in DOMAIN slots : facts[slots[i]].doc = facts[f].doc
               THEN [i \in DOMAIN slots |->
                       IF facts[slots[i]].doc = facts[f].doc /\ Stronger(f, slots[i])
                       THEN f ELSE slots[i]]
               ELSE Append(slots, f), <<>>, s)

------------------------------------------------------------------------------
Init ==
    /\ \E n \in 0 .. MaxFacts : facts \in [1 .. n -> FactShape]
    /\ meet \in MeetRows
    /\ pc = "new"
    /\ who = <<>> /\ nonobvious = NoFact /\ lately = <<>> /\ candidates = <<>>
    /\ quoted = NoFact /\ opener = NoFact /\ sources = <<>>

\* Up to the await: every section but the opener, and what the opener may quote.
Select ==
    /\ pc = "new"
    /\ who' = WhoFacts
    /\ nonobvious' = NonObvious
    /\ lately' = Lately(ToSet(who') \cup ToSet(One(nonobvious')))
    /\ candidates' = Candidates(ToSet(who'))
    /\ pc' = "asking"
    /\ UNCHANGED <<facts, meet, quoted, opener, sources>>

\* A line of the model's own that passes R14 and R18.  It is taken for a paraphrase that
\* quotes nothing, though it may be the template's over a fact of the prompt.
LlmAnswers ==
    /\ pc = "asking"
    /\ pc' = "answered"
    /\ opener' \in {NoFact} \cup {f \in Prompted : Invites(f)}
    /\ UNCHANGED <<facts, meet, picks, quoted, sources>>

\* No line in time, or none that passes: the template quotes a fact.
LlmFails ==
    /\ pc = "asking"
    /\ pc' = "failed"
    /\ quoted' = Fallback(candidates)
    /\ opener' = quoted'
    /\ UNCHANGED <<facts, meet, picks, sources>>

Assemble ==
    /\ pc \in {"answered", "failed"}
    /\ sources' = Sources(Cited)
    /\ pc' = "done"
    /\ UNCHANGED <<facts, meet, picks, quoted, opener>>

Next == Select \/ LlmAnswers \/ LlmFails \/ Assemble

Spec == Init /\ [][Next]_vars

------------------------------------------------------------------------------
\* The facts whose own sentences make_digest puts on the page.
Quoted == ToSet(who \o lately \o One(nonobvious) \o One(quoted))

\* The facts whose sentences the page shows, whoever put them there: a line of the model's
\* own may be the template's, word for word, over a fact of the prompt.
Shown == Quoted \cup ToSet(One(opener))

\* The facts on the page for such a line alone: none it quotes or leans on has their document.
Repeated ==
    {f \in Shown : \A g \in Quoted \cup ToSet(HubEvidence) : facts[g].doc # facts[f].doc}

\* R7, R9 and R12: on a finished page every fact shown can be checked, its document having
\* exactly one numbered source, whatever section or failure of the model put it there.  The
\* one exception is what the code makes: a fact that only a line of the model's own repeats
\* is taken for a paraphrase and has no source, unless its document has one for another
\* fact.  What taste withheld is neither shown nor a source, whatever hub leans on it.
EveryFactCited ==
    pc = "done" =>
        /\ \A f \in Shown :
            Cardinality({i \in DOMAIN sources : facts[sources[i]].doc = facts[f].doc}) =
                IF f \in Repeated THEN 0 ELSE 1
        /\ \A f \in Shown \cup ToSet(sources) : facts[f].displayable

\* The one slot a document has holds the strongest evidence the digest quotes or leans on
\* from it, whichever section reached the document first.
StrongestEvidence ==
    pc = "done" =>
        \A i \in DOMAIN sources : \A f \in Quoted \cup ToSet(HubEvidence) :
            facts[f].doc = facts[sources[i]].doc => ~Stronger(f, sources[i])
=============================================================================
