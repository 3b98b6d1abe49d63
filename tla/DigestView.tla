----------------------------- MODULE DigestView -----------------------------
(***************************************************************************)
(* arrival.web.render.digest_view: what GET /digest/{id} makes of a digest  *)
(* and the dossier behind it.  A Digest holds sentences, not the facts they *)
(* were built from, so the page derives a second time what make_digest had  *)
(* in its hands: who the Who line quotes, what a row leans on, which fact   *)
(* the opener says.  Nothing here is state; it is read off a finished page. *)
(***************************************************************************)
EXTENDS DigestPage

\* Of the sentences only equality is read: facts that read alike have one text.
Text(f) == [aloud |-> facts[f].aloud, words |-> facts[f].words]

\* The number of a fact's document, 0 when make_digest put it on no list.
Number(f) ==
    LET at == {n \in DOMAIN sources : facts[sources[n]].doc = facts[f].doc}
    IN  IF at = {} THEN 0 ELSE CHOOSE n \in at : TRUE

\* _citations, without their order
Citations(shown) == {Number(f) : f \in ToSet(shown)} \ {0}

\* _counted_hubs: those the clamp has not made worth nothing.
CountedHubs(row) == Within(row.hubs, {hub \in ToSet(row.hubs) : hub.counts})

\* _opener_quoted_fact: the first fact the opener could quote whose sentence it says.
OpenerQuotedFact ==
    LET s == Candidates(ToSet(WhoFacts))
        at == SelectInSeq(s, LAMBDA f : opener # NoFact /\ Text(f) = Text(opener))
    IN  IF at = 0 THEN <<>> ELSE <<s[at]>>

Claim(section, detail, shown) == [section |-> section, detail |-> detail, facts |-> ToSet(shown)]

\* Mutant: a row's evidence is what its sentence counts.
ClaimsCounted ==
    {Claim("who", "", WhoFacts), Claim("say-out-loud", "", OpenerQuotedFact),
     Claim("lately", "", lately), Claim("not-on-the-first-page", "", One(nonobvious))}
    \cup {Claim("meet", meet[r].other, EvidenceOf(CountedHubs(meet[r]))) : r \in DOMAIN meet}

\* _page_claims: every claim the page makes and the facts behind it; a Meet row has every
\* hub it shares, those that count for nothing too.
PageClaims ==
    {Claim("who", "", WhoFacts), Claim("say-out-loud", "", OpenerQuotedFact),
     Claim("lately", "", lately), Claim("not-on-the-first-page", "", One(nonobvious))}
    \cup {Claim("meet", meet[r].other, EvidenceOf(meet[r].hubs)) : r \in DOMAIN meet}

\* _source_evidence: the quotes under a source, each once, with the claims it backs.
SourceEvidence(claims) ==
    LET quotable == Displayable \cap UNION {c.facts : c \in claims}
    IN  [n \in DOMAIN sources |->
            {[fact |-> f, backs |-> {<<c.section, c.detail>> : c \in {c \in claims : f \in c.facts}}] :
                f \in {f \in quotable : Number(f) = n}}]

\* digest_view: the numbers beside the sentences.
Markers ==
    {[claim |-> <<"who", "">>, numbers |-> Citations(WhoFacts)],
     [claim |-> <<"lately", "">>, numbers |-> Citations(lately)],
     [claim |-> <<"not-on-the-first-page", "">>, numbers |-> Citations(One(nonobvious))]}
    \cup {[claim |-> <<"meet", meet[r].other>>,
           numbers |-> Citations(EvidenceOf(CountedHubs(meet[r])))] : r \in DOMAIN meet}

------------------------------------------------------------------------------
\* R9: the two derivations agree.  Every source the digest numbered has a quote under it
\* (digest.html calls the other case unreachable), every number beside a sentence leads to
\* a source with a quote that backs this very sentence, and every fact the digest quotes
\* stands under its own document, whichever of several facts reads the same.
EveryMarkerHasItsQuote ==
    pc = "done" =>
        LET quotes == SourceEvidence(PageClaims)
        IN  /\ \A n \in DOMAIN sources : quotes[n] # {}
            /\ \A mark \in Markers : \A n \in mark.numbers :
                  \E quote \in quotes[n] : mark.claim \in quote.backs
            /\ \A f \in Quoted : Number(f) # 0 /\ \E quote \in quotes[Number(f)] : quote.fact = f
=============================================================================
