--------------------------- MODULE DossierProofs ---------------------------
(* Proofs about DossierBuild, for every tables, answers and documents.        *)
EXTENDS DossierBuild, SequenceLemmas

\* The rulings are about the open facts, and the log is the answers they came from.
RulingInv ==
    /\ log \in Seq(Response \cup {Failed})
    /\ NoRulingWanders

\* An answer rules on the facts of its own batch only.
LEMMA AbsorbedFromHere ==
    ASSUME NEW response, NEW asked, NEW p \in DOMAIN rulings,
           Absorb(response, asked)[p] # rulings[p]
    PROVE  /\ p \in Positions(asked)
           /\ VerdictsOn(response, FactId(p)) = {Absorb(response, asked)[p]}
BY DEF Absorb

LEMMA AbsorbKeepsPlaces ==
    ASSUME NEW response, NEW asked
    PROVE  DOMAIN Absorb(response, asked) = DOMAIN rulings
BY DEF Absorb

LEMMA AskBatchKeepsRulings ==
    ASSUME RulingInv, NEW response \in Response \cup {Failed}, AskBatch(response)
    PROVE  RulingInv'
<1>1. log' = Append(log, response) /\ log' \in Seq(Response \cup {Failed})
  BY DEF AskBatch, RulingInv
<1>2. Len(log) \in Nat /\ DOMAIN log = 1 .. Len(log) /\ DOMAIN log' = 1 .. (Len(log) + 1)
  BY <1>1 DEF RulingInv
<1>3. /\ log'[Len(log) + 1] = response
      /\ \A b \in DOMAIN log : b \in DOMAIN log' /\ log'[b] = log[b]
  BY <1>1, <1>2 DEF RulingInv
<1>4. UNCHANGED <<facts, lacked, unsure>>
  BY DEF AskBatch
<1>5. /\ \A n : Positions(n)' = Positions(n)
      /\ \A p : FactId(p)' = FactId(p)
  BY <1>4 DEF Positions, Batch, FactId
<1>6. /\ DOMAIN rulings' = DOMAIN rulings
      /\ response = Failed => rulings' = rulings
      /\ response # Failed => rulings' = Absorb(response, Len(log))
  BY AbsorbKeepsPlaces DEF AskBatch
<1>7. ASSUME NEW p \in DOMAIN rulings, rulings'[p] # "unsure"
      PROVE  \E b \in DOMAIN log' :
                /\ p \in Positions(b - 1)' /\ log'[b] # Failed
                /\ VerdictsOn(log'[b], FactId(p)') = {rulings'[p]}
  <2>1. CASE rulings'[p] = rulings[p]
    <3>1. PICK b \in DOMAIN log : /\ p \in Positions(b - 1) /\ log[b] # Failed
                                  /\ VerdictsOn(log[b], FactId(p)) = {rulings[p]}
      BY <2>1, <1>7 DEF RulingInv, NoRulingWanders
    <3>2. QED
      BY <3>1, <2>1, <1>3, <1>5
  <2>2. CASE rulings'[p] # rulings[p]
    <3>1. response # Failed /\ rulings'[p] = Absorb(response, Len(log))[p]
      BY <2>2, <1>6
    <3>2. /\ p \in Positions(Len(log))
          /\ VerdictsOn(response, FactId(p)) = {rulings'[p]}
      BY <2>2, <3>1, AbsorbedFromHere
    <3>3. Len(log) + 1 \in DOMAIN log' /\ (Len(log) + 1) - 1 = Len(log)
      BY <1>2
    <3>4. QED
      BY <3>1, <3>2, <3>3, <1>3, <1>5
  <2>3. QED
    BY <2>1, <2>2
<1>8. QED
  BY <1>1, <1>6, <1>7 DEF RulingInv, NoRulingWanders, VerdictsOn

\* No ruling wanders: what the classifier says of one batch never clears a fact of
\* another, nor one that shares its id, whatever it answers and however often it fails.
THEOREM RulingsHold == BuildSpec => []NoRulingWanders
<1>1. BuildInit => RulingInv
  BY DEF BuildInit, TasteInit, RulingInv, NoRulingWanders
<1>2. RulingInv /\ [BuildNext]_buildVars => RulingInv'
  <2> SUFFICES ASSUME RulingInv, [BuildNext]_buildVars PROVE RulingInv'
    OBVIOUS
  <2> USE DEF tasteVars, pageVars, buildVars
  <2>1. CASE UNCHANGED tasteVars
    BY <2>1 DEF RulingInv, NoRulingWanders, Positions, Batch, FactId
  <2>2. CASE StartTaste
    <3>1. log' = <<>> /\ rulings' = [p \in DOMAIN unsure' |-> "unsure"]
      BY <2>2 DEF StartTaste, Screen
    <3>2. QED
      BY <3>1 DEF RulingInv, NoRulingWanders
  <2>3. CASE Classify
    BY <2>3, AskBatchKeepsRulings DEF Classify
  <2>4. QED
    BY <2>1, <2>2, <2>3 DEF BuildNext, Extract, Assemble
<1>3. RulingInv => NoRulingWanders
  BY DEF RulingInv
<1>4. QED
  BY <1>1, <1>2, <1>3, PTL DEF BuildSpec

------------------------------------------------------------------------------
\* Whatever was extracted, the hubs are records with their evidence.
LEMMA HubsAreRecords ==
    ASSUME NEW done, NEW documents, NEW hub \in HubsOf(done, documents)
    PROVE  \E id, label, type, recency, evidence :
              hub = [id |-> id, label |-> label, type |-> type, recency |-> recency,
                     evidence |-> evidence]
<1>1. CASE hub \in MergeGroups(done.groups, done.facts)
  BY <1>1 DEF MergeGroups, Hub
<1>2. CASE hub \in RosterCityHub(MostCommon(done.places), done.facts, documents)
  BY <1>2 DEF RosterCityHub
<1>3. QED
  BY <1>1, <1>2 DEF HubsOf, PlaceHubs

\* What is left of a hub has lost the withheld facts and kept another one.
LEMMA SupportedShape ==
    ASSUME NEW done, NEW documents, NEW tasted,
           NEW hub \in SupportedHubs(HubsOf(done, documents), tasted)
    PROVE  /\ hub.evidence # {}
           /\ \A i \in DOMAIN tasted : tasted[i].id \in hub.evidence => ~tasted[i].excluded
<1> DEFINE excluded == {tasted[i].id : i \in {i \in DOMAIN tasted : tasted[i].excluded}}
<1>1. PICK h \in HubsOf(done, documents) :
         /\ ~(h.evidence \subseteq excluded)
         /\ hub = [h EXCEPT !.evidence = h.evidence \ excluded]
  BY DEF SupportedHubs
<1>2. hub.evidence = h.evidence \ excluded
  <2>1. PICK id, label, type, recency, evidence :
           h = [id |-> id, label |-> label, type |-> type, recency |-> recency,
                evidence |-> evidence]
    BY HubsAreRecords
  <2>2. QED
    BY <1>1, <2>1
<1>3. QED
  BY <1>1, <1>2

\* No hub of a dossier points at a withheld sentence or stands on withheld ones only,
\* whatever the model said of the facts and the hubs.
THEOREM NoPointers == BuildSpec => []NoPointerToWithheld
<1>1. BuildInit => NoPointerToWithheld
  BY DEF BuildInit, NoPointerToWithheld, Built
<1>2. NoPointerToWithheld /\ [BuildNext]_buildVars => NoPointerToWithheld'
  <2> SUFFICES ASSUME NoPointerToWithheld, [BuildNext]_buildVars
               PROVE  NoPointerToWithheld'
    OBVIOUS
  <2>1. CASE UNCHANGED <<stage, dossier>>
    BY <2>1 DEF NoPointerToWithheld, Built
  <2>2. CASE StartTaste
    BY <2>2 DEF StartTaste, NoPointerToWithheld, Built
  <2>3. CASE Assemble
    <3>1. dossier' = [facts |-> Tasted,
                      hubs |-> SupportedHubs(HubsOf(extracted, subject.docs), Tasted)]
      BY <2>3 DEF Assemble
    <3>2. QED
      BY <3>1, SupportedShape DEF NoPointerToWithheld
  <2>4. QED
    BY <2>1, <2>2, <2>3 DEF BuildNext, Extract, Classify, pageVars, buildVars
<1>3. QED
  BY <1>1, <1>2, PTL DEF BuildSpec

------------------------------------------------------------------------------
\* A clause and the whole text, place by place.
ClauseAt(text, clause, a, b) ==
    /\ a \in Nat /\ b \in Nat /\ Len(text) \in Nat /\ 1 <= a /\ a <= b /\ b <= Len(text)
    /\ DOMAIN text = 1 .. Len(text) /\ DOMAIN clause = 1 .. (b - a + 1)
    /\ a = 1 \/ text[a - 1] = "."
    /\ b = Len(text) \/ text[b + 1] = "."
    /\ \A i \in 1 .. (b - a + 1) : text[i + a - 1] = clause[i]

LEMMA ClauseShape ==
    ASSUME NEW Token, NEW text \in Seq(Token), NEW clause \in Clauses(text)
    PROVE  \E a, b \in DOMAIN text : ClauseAt(text, clause, a, b)
<1>1. PICK r \in (DOMAIN text) \X (DOMAIN text) :
         /\ clause = SubSeq(text, r[1], r[2]) /\ r[1] <= r[2]
         /\ r[1] = 1 \/ text[r[1] - 1] = "."
         /\ r[2] = Len(text) \/ text[r[2] + 1] = "."
  BY DEF Clauses
<1>2. PICK a \in DOMAIN text, b \in DOMAIN text : a = r[1] /\ b = r[2]
  BY <1>1
<1>3. clause = [i \in 1 .. (b - a + 1) |-> text[i + a - 1]]
  BY <1>1, <1>2
<1>4. a \in 1 .. Len(text) /\ b \in 1 .. Len(text) /\ a <= b /\ Len(text) \in Nat
  BY <1>1, <1>2
<1>5. DOMAIN clause = 1 .. (b - a + 1) /\ DOMAIN text = 1 .. Len(text)
  BY <1>3
<1>6. \A i \in 1 .. (b - a + 1) : text[i + a - 1] = clause[i]
  BY <1>3
<1>7. ClauseAt(text, clause, a, b)
  <2>1. a = 1 \/ text[a - 1] = "."
    BY <1>1, <1>2
  <2>2. b = Len(text) \/ text[b + 1] = "."
    BY <1>1, <1>2
  <2>3. a \in Nat /\ b \in Nat /\ 1 <= a /\ b <= Len(text)
    BY <1>4
  <2>4. QED
    BY <1>4, <1>5, <1>6, <2>1, <2>2, <2>3, Zenon DEF ClauseAt
<1>8. QED
  BY <1>7

\* A stop ends every attributive reading: what explains a cue in the whole text stands in
\* the cue's own clause.
LEMMA NothingBeyondTheStop ==
    ASSUME NEW Token, NEW text \in Seq(Token), NEW clause, NEW a \in Nat, NEW b \in Nat,
           NEW i \in 1 .. (b - a + 1), NEW j \in a .. b, j = i + a - 1,
           ClauseAt(text, clause, a, b), IsAttributive(text, j)
    PROVE  IsAttributive(clause, i)
<1>1. /\ a \in Nat /\ b \in Nat /\ i \in Nat /\ Len(text) \in Nat /\ j \in Nat
      /\ i \in 1 .. (b - a + 1) /\ j \in a .. b /\ j = i + a - 1
      /\ DOMAIN text = 1 .. Len(text) /\ DOMAIN clause = 1 .. (b - a + 1)
      /\ 1 <= a /\ b <= Len(text)
  <2>1. /\ Len(text) \in Nat /\ 1 <= a /\ b <= Len(text)
        /\ DOMAIN text = 1 .. Len(text) /\ DOMAIN clause = 1 .. (b - a + 1)
    BY Zenon DEF ClauseAt
  <2>2. QED
    BY <2>1
<1>2. \A k \in DOMAIN clause : text[k + a - 1] = clause[k]
  BY DEF ClauseAt
<1>3. CASE HeadNounFollows(text, j)
  <2> DEFINE Run(t, at, n) == /\ at + n + 1 \in DOMAIN t /\ t[at + n + 1] = HeadNoun
                              /\ \A k \in (at + 1) .. (at + n) : t[k] \notin NotAWord
  <2>1. ASSUME NEW n \in 0 .. 2, Run(text, j, n)
        PROVE  j + n + 1 <= b
    <3>1. SUFFICES ASSUME j + n + 1 > b PROVE FALSE
      BY <1>1
    <3>a. j + n + 1 \in 1 .. Len(text)
      BY <1>1, <2>1
    <3>b. /\ b + 1 \in (j + 1) .. (j + n + 1)
          /\ b # Len(text)
      <4>1. j + n + 1 <= Len(text)
        BY <1>1, <3>a
      <4>2. b + 1 <= j + n + 1 /\ j + 1 <= b + 1
        BY <1>1, <3>1
      <4>3. b # Len(text)
        <5>1. b < Len(text) /\ b \in Nat /\ Len(text) \in Nat
          BY <1>1, <4>1, <4>2
        <5>2. QED
          BY <5>1
      <4>4. b + 1 \in (j + 1) .. (j + n + 1)
        BY <1>1, <4>2
      <4>5. QED
        BY <4>3, <4>4
    <3>2. b + 1 \in (j + 1) .. (j + n + 1) /\ text[b + 1] = "."
      BY <3>b, Zenon DEF ClauseAt
    <3>3. text[b + 1] \notin NotAWord \/ text[b + 1] = HeadNoun
      BY <1>1, <2>1, <3>2
    <3>4. QED
      BY <3>2, <3>3 DEF NotAWord, HeadNoun
  <2>2. \A n \in 0 .. 2 : Run(text, j, n) <=> Run(clause, i, n)
    <3>1. ASSUME NEW n \in 0 .. 2, Run(text, j, n) PROVE Run(clause, i, n)
      <4>1. j + n + 1 <= b
        BY <2>1, <3>1
      <4>2. \A k \in (i + 1) .. (i + n + 1) :
               k \in DOMAIN clause /\ clause[k] = text[k + a - 1]
        <5>1. \A k \in (i + 1) .. (i + n + 1) : k \in 1 .. (b - a + 1)
          BY <1>1, <4>1
        <5>2. QED
          BY <5>1, <1>1, <1>2
      <4>3. i + n + 1 \in DOMAIN clause /\ clause[i + n + 1] = HeadNoun
        <5>1. i + n + 1 \in (i + 1) .. (i + n + 1) /\ (i + n + 1) + a - 1 = j + n + 1
          BY <1>1, <3>1
        <5>2. QED
          BY <5>1, <4>2, <3>1
      <4>4. ASSUME NEW k \in (i + 1) .. (i + n) PROVE clause[k] \notin NotAWord
        <5>1. k + a - 1 \in (j + 1) .. (j + n) /\ k \in (i + 1) .. (i + n + 1)
          BY <1>1
        <5>2. QED
          BY <5>1, <4>2, <3>1
      <4>5. QED
        BY <4>3, <4>4
    <3>2. ASSUME NEW n \in 0 .. 2, Run(clause, i, n) PROVE Run(text, j, n)
      <4>1. \A k \in (i + 1) .. (i + n + 1) :
               k + a - 1 \in DOMAIN text /\ clause[k] = text[k + a - 1]
        <5>1. i + n + 1 \in 1 .. (b - a + 1)
          BY <1>1, <3>2
        <5>2. \A k \in (i + 1) .. (i + n + 1) :
                 k \in 1 .. (b - a + 1) /\ k + a - 1 \in 1 .. Len(text)
          BY <5>1, <1>1, <3>2
        <5>3. QED
          BY <5>2, <1>1, <1>2
      <4>2. j + n + 1 \in DOMAIN text /\ text[j + n + 1] = HeadNoun
        <5>1. (i + n + 1) + a - 1 = j + n + 1 /\ i + n + 1 \in (i + 1) .. (i + n + 1)
          BY <1>1, <3>2
        <5>2. QED
          BY <5>1, <4>1, <3>2
      <4>3. ASSUME NEW k \in (j + 1) .. (j + n) PROVE text[k] \notin NotAWord
        <5>1. /\ k - a + 1 \in (i + 1) .. (i + n) /\ (k - a + 1) + a - 1 = k
              /\ k - a + 1 \in (i + 1) .. (i + n + 1)
          BY <1>1, <3>2, <4>3
        <5>2. clause[k - a + 1] = text[k]
          BY <5>1, <4>1
        <5>3. QED
          BY <5>1, <5>2, <3>2
      <4>4. QED
        BY <4>2, <4>3
    <3>3. QED
      BY <3>1, <3>2
  <2>3. PICK n \in 0 .. 2 :
           /\ Run(text, j, n)
           /\ \A m \in 0 .. 2 : Run(text, j, m) => m <= n
           /\ \A k \in (j + 1) .. (j + n) : text[k] \notin FUNCTION_WORDS
    BY <1>3 DEF HeadNounFollows
  <2>4. ASSUME NEW k \in (i + 1) .. (i + n) PROVE clause[k] \notin FUNCTION_WORDS
    <3>1. k + a - 1 \in (j + 1) .. (j + n)
      BY <1>1
    <3>2. k \in DOMAIN clause
      <4>1. i + n + 1 \in 1 .. (b - a + 1)
        BY <2>2, <2>3, <1>1
      <4>2. QED
        BY <4>1, <1>1
    <3>3. QED
      BY <3>1, <3>2, <2>3, <1>2
  <2>5. Run(clause, i, n) /\ \A m \in 0 .. 2 : Run(clause, i, m) => m <= n
    BY <2>2, <2>3
  <2>6. HeadNounFollows(clause, i)
    BY <2>4, <2>5 DEF HeadNounFollows
  <2>7. QED
    BY <2>6 DEF IsAttributive
<1>4. CASE ProductVerbPrecedes(text, j)
  <2>1. a = 1 \/ (text[a - 1] # ProductVerb /\ text[a - 1] \notin Linking)
    BY DEF ClauseAt, ProductVerb, Linking
  <2>2. CASE j > 1 /\ text[j - 1] = ProductVerb
    <3>1. i > 1
      BY <1>1, <2>1, <2>2
    <3>2. i - 1 \in DOMAIN clause /\ (i - 1) + a - 1 = j - 1
      BY <1>1, <3>1
    <3>3. clause[i - 1] = ProductVerb
      BY <2>2, <3>2, <1>2
    <3>4. QED
      BY <3>1, <3>3 DEF ProductVerbPrecedes, IsAttributive
  <2>3. CASE j > 2 /\ text[j - 1] \in Linking /\ text[j - 2] = ProductVerb
    <3>1. i > 1
      BY <1>1, <2>1, <2>3
    <3>2. i > 2
      BY <1>1, <2>1, <2>3, <3>1
    <3>3. /\ i - 1 \in DOMAIN clause /\ (i - 1) + a - 1 = j - 1
          /\ i - 2 \in DOMAIN clause /\ (i - 2) + a - 1 = j - 2
      BY <1>1, <3>2
    <3>4. clause[i - 1] \in Linking /\ clause[i - 2] = ProductVerb
      BY <2>3, <3>3, <1>2
    <3>5. QED
      BY <3>2, <3>4 DEF ProductVerbPrecedes, IsAttributive
  <2>4. QED
    BY <1>4, <2>2, <2>3 DEF ProductVerbPrecedes
<1>5. QED
  BY <1>3, <1>4 DEF IsAttributive

\* A named marker of one clause is a named marker of the text.
LEMMA ClauseDecides ==
    ASSUME NEW Token, NEW text \in Seq(Token), NEW clause \in Clauses(text),
           RuleVerdict(clause, Today).decision = "exclude"
    PROVE  RuleVerdict(text, Today).decision = "exclude"
<1>1. PICK a \in DOMAIN text, b \in DOMAIN text : ClauseAt(text, clause, a, b)
  BY ClauseShape
<1>2. PICK c \in DOMAIN R11_CATEGORIES : LiveCue(clause, STRONG[c] \ Today)
  BY DEF RuleVerdict, Unsure, Keep
<1>3. PICK i \in DOMAIN clause :
         clause[i] \in STRONG[c] \ Today /\ ~IsAttributive(clause, i)
  BY <1>2 DEF LiveCue
<1>4. i + a - 1 \in DOMAIN text /\ text[i + a - 1] = clause[i]
  BY <1>1 DEF ClauseAt
<1>5. ~IsAttributive(text, i + a - 1)
  <2>1. a \in Nat /\ b \in Nat
    OBVIOUS
  <2>2. DOMAIN clause = 1 .. (b - a + 1)
    BY <1>1, Zenon DEF ClauseAt
  <2>3. i \in 1 .. (b - a + 1) /\ i + a - 1 \in a .. b
    BY <2>1, <2>2
  <2>4. QED
    BY <1>1, <1>3, <2>1, <2>3, NothingBeyondTheStop
<1>6. LiveCue(text, STRONG[c] \ Today)
  BY <1>3, <1>4, <1>5 DEF LiveCue
<1>7. QED
  BY <1>6 DEF RuleVerdict, Exclude

\* What a page may show of a fact has no clause, in its sentence or in the quote it is
\* printed with, that today's tables exclude on its own: for every sentence and quote.
THEOREM ShownIsClean ==
    ASSUME NEW Token, NEW fact, fact.text \in Seq(Token), fact.quote \in Seq(Token),
           IsDisplayable(fact)
    PROVE  \A clause \in Clauses(fact.text) \cup Clauses(ScreenQuote(fact)) :
              RuleVerdict(clause, Today).decision # "exclude"
<1>1. ASSUME NEW clause \in Clauses(fact.text)
      PROVE  RuleVerdict(clause, Today).decision # "exclude"
  BY <1>1, ClauseDecides DEF IsDisplayable
<1>2. QUOTE_WITHHELD \in Seq({"quote withheld"}) /\ RuleVerdict(QUOTE_WITHHELD, Today).decision # "exclude"
  <2>1. /\ QUOTE_WITHHELD \in Seq({"quote withheld"})
        /\ \A i \in DOMAIN QUOTE_WITHHELD : QUOTE_WITHHELD[i] = "quote withheld"
    <3>1. QUOTE_WITHHELD \in Seq({"quote withheld"})
      <4>1. \A w : <<w>> \in Seq({w})
        OBVIOUS
      <4>2. QED
        BY <4>1, Zenon DEF QUOTE_WITHHELD
    <3>2. DOMAIN QUOTE_WITHHELD = {1}
      BY DEF QUOTE_WITHHELD
    <3>3. QUOTE_WITHHELD[1] = "quote withheld"
      BY DEF QUOTE_WITHHELD
    <3>4. QED
      BY <3>1, <3>2, <3>3
  <2>2. \A c \in DOMAIN R11_CATEGORIES : "quote withheld" \notin STRONG[c]
    <3>1. DOMAIN R11_CATEGORIES = 1 .. 6
      BY DEF R11_CATEGORIES
    <3>2. /\ STRONG[1] = StrongHealth /\ STRONG[2] = StrongFamily /\ STRONG[3] = StrongLegal
          /\ STRONG[4] = StrongHome /\ STRONG[5] = StrongWealth /\ STRONG[6] = StrongPolitical
      BY DEF STRONG
    <3>3. /\ "quote withheld" \notin StrongHealth /\ "quote withheld" \notin StrongFamily
          /\ "quote withheld" \notin StrongLegal /\ "quote withheld" \notin StrongHome
          /\ "quote withheld" \notin StrongWealth /\ "quote withheld" \notin StrongPolitical
      BY DEF StrongHealth, StrongFamily, StrongLegal, StrongHome, StrongWealth,
             StrongPolitical
    <3>4. \A c \in 1 .. 6 : c = 1 \/ c = 2 \/ c = 3 \/ c = 4 \/ c = 5 \/ c = 6
      OBVIOUS
    <3>5. QED
      BY <3>1, <3>2, <3>3, <3>4
  <2>3. \A c \in DOMAIN R11_CATEGORIES : ~LiveCue(QUOTE_WITHHELD, STRONG[c] \ Today)
    BY <2>1, <2>2 DEF LiveCue
  <2>4. QED
    BY <2>1, <2>3 DEF RuleVerdict, Unsure, Keep
<1>3. /\ \E S : ScreenQuote(fact) \in Seq(S)
      /\ RuleVerdict(ScreenQuote(fact), Today).decision # "exclude"
  BY <1>2 DEF ScreenQuote
<1>4. ASSUME NEW clause \in Clauses(ScreenQuote(fact))
      PROVE  RuleVerdict(clause, Today).decision # "exclude"
  BY <1>3, <1>4, ClauseDecides
<1>5. QED
  BY <1>1, <1>4

------------------------------------------------------------------------------
(* Where a fact comes from                                                  *)

Fact ==
    [id : STRING \X Nat, claim : Name, doc : STRING, kind : STRING, text : Words,
     quote : Words, category : STRING \cup {"non_obvious", "current_work"},
     confidence : Nat, excluded : {FALSE}, reason : {"none"}]

\* It is a candidate of one batch's answer, and a document of that batch carries its quote.
RootedIn(fact, batch, answer) ==
    /\ answer # Failed
    /\ \E doc \in Range(batch), candidate \in Range(answer.facts) :
         /\ fact.doc = doc.id /\ fact.kind = doc.kind /\ IsCited(fact.quote, doc)
         /\ fact.category = "non_obvious" => fact.kind \in NON_OBVIOUS_ELIGIBLE_KINDS
         /\ candidate.text = fact.text /\ candidate.quote = fact.quote
         /\ candidate.id = fact.claim
         /\ \/ candidate.doc = fact.doc
            \/ \A other \in Range(batch) : IsCited(fact.quote, other) => other.id = fact.doc

Earlier(made, i) == {j \in 1 .. (i - 1) : made[j].doc = made[i].doc}

Numbered(made) ==
    \A i \in DOMAIN made : made[i].id = <<made[i].doc, Cardinality(Earlier(made, i))>>

\* The facts go on with facts of one batch's documents.
Extends(more, made, batch) ==
    /\ \A i \in DOMAIN made : i \in DOMAIN more /\ more[i] = made[i]
    /\ \A i \in DOMAIN more \ DOMAIN made : \E doc \in Range(batch) : doc.id = more[i].doc

\* A document that carries a candidate's quote is not picked at random.
LEMMA SourceIsNoGuess ==
    ASSUME NEW candidate \in CandidateFact, NEW batch \in Seq(Document),
           SourceDoc(candidate, batch) # {},
           NEW doc, doc = CHOOSE d \in SourceDoc(candidate, batch) : TRUE
    PROVE  /\ doc \in Range(batch) /\ doc \in Document /\ IsCited(candidate.quote, doc)
           /\ \/ candidate.doc = doc.id
              \/ \A other \in Range(batch) :
                    IsCited(candidate.quote, other) => other.id = doc.id
<1> DEFINE carrying == {d \in Range(batch) : IsCited(candidate.quote, d)}
           declared == {d \in carrying : d.id = candidate.doc}
<1>1. SourceDoc(candidate, batch) = IF declared # {} THEN declared
                                    ELSE IF Cardinality(carrying) = 1 THEN carrying ELSE {}
  BY DEF SourceDoc
<1>2. doc \in SourceDoc(candidate, batch)
  OBVIOUS
<1>3. declared \subseteq carrying /\ carrying \subseteq Range(batch)
  OBVIOUS
<1>4. doc \in carrying
  BY <1>1, <1>2, <1>3
<1>5. doc \in Document
  <2>1. \A i \in DOMAIN batch : batch[i] \in Document
    OBVIOUS
  <2>2. QED
    BY <1>3, <1>4, <2>1 DEF Range
<1>6. ASSUME declared = {} PROVE \A other \in carrying : other = doc
  <2>1. Cardinality(carrying) = 1
    BY <1>1, <1>2, <1>6
  <2>2. IsFiniteSet(Range(batch))
    <3> DEFINE places == 1 .. Len(batch)
    <3>1. IsFiniteSet(places)
      BY FS_Interval
    <3>2. DOMAIN batch = places /\ batch \in [places -> Range(batch)]
      BY DEF Range
    <3>3. batch \in Surjection(places, Range(batch))
      BY <3>2 DEF Surjection, Range
    <3> HIDE DEF places
    <3>4. QED
      BY <3>1, <3>3, FS_Surjection
  <2> HIDE DEF carrying, declared
  <2>3. IsFiniteSet(carrying)
    BY <1>3, <2>2, FS_Subset
  <2>4. Cardinality(carrying \ {doc}) = 0 /\ IsFiniteSet(carrying \ {doc})
    <3>1. /\ IsFiniteSet(carrying \ {doc})
          /\ Cardinality(carrying \ {doc}) =
               IF doc \in carrying THEN Cardinality(carrying) - 1 ELSE Cardinality(carrying)
      BY <2>3, FS_RemoveElement
    <3>2. QED
      BY <1>4, <2>1, <3>1
  <2>5. carrying \ {doc} = {}
    BY <2>4, FS_EmptySet
  <2>6. QED
    BY <2>5
<1>7. declared # {} => doc.id = candidate.doc
  BY <1>1, <1>2
<1>8. QED
  BY <1>3, <1>4, <1>5, <1>6, <1>7

\* One candidate more: it is left out, or becomes a fact with the next number of its document.
Taken(sofar, candidate, batch) ==
    LET sources == SourceDoc(candidate, batch)
        doc == CHOOSE d \in sources : TRUE
    IN  IF \/ candidate.text = <<>> \/ Len(candidate.text) > MAX_FACT_WORDS
           \/ sources = {}
        THEN sofar
        ELSE Append(sofar, BuildFact(candidate, doc, Cardinality(FactsOf(sofar, doc.id))))

LEMMA TakenIsRooted ==
    ASSUME NEW answer \in Answer, NEW candidate \in Range(answer.facts),
           NEW batch \in Seq(Document), NEW Good,
           \A fact \in Fact : RootedIn(fact, batch, answer) => fact \in Good,
           NEW sofar \in Seq(Good), Numbered(sofar), Good \subseteq Fact,
           NEW made, Extends(sofar, made, batch)
    PROVE  /\ Taken(sofar, candidate, batch) \in Seq(Good)
           /\ Numbered(Taken(sofar, candidate, batch))
           /\ Extends(Taken(sofar, candidate, batch), made, batch)
<1> DEFINE sources == SourceDoc(candidate, batch)
           doc == CHOOSE d \in sources : TRUE
           n == Cardinality(FactsOf(sofar, doc.id))
           new == BuildFact(candidate, doc, n)
<1>1. CASE Taken(sofar, candidate, batch) = sofar
  BY <1>1
<1>2. CASE Taken(sofar, candidate, batch) # sofar
  <2>1. Taken(sofar, candidate, batch) = Append(sofar, new) /\ sources # {}
    BY <1>2 DEF Taken
  <2>2. answer # Failed /\ candidate \in CandidateFact
    <3>1. answer \in ExtractionResult /\ answer # Failed
      BY DossierAssumption
    <3>2. answer.facts \in Seq(CandidateFact)
      BY <3>1 DEF ExtractionResult
    <3>3. QED
      BY <3>1, <3>2 DEF Range
  <2>3. /\ doc \in Range(batch) /\ doc \in Document /\ IsCited(candidate.quote, doc)
        /\ \/ candidate.doc = doc.id
           \/ \A other \in Range(batch) :
                 IsCited(candidate.quote, other) => other.id = doc.id
    BY <2>1, <2>2, SourceIsNoGuess
  <2>4. n \in Nat
    <3>1. FactsOf(sofar, doc.id) \in SUBSET (1 .. Len(sofar)) /\ IsFiniteSet(1 .. Len(sofar))
      BY FS_Interval DEF FactsOf
    <3> HIDE DEF doc
    <3>2. QED
      BY <3>1, FS_Subset, FS_CardinalityType
  <2> HIDE DEF doc, n, sources
  <2>5. /\ doc.id \in STRING /\ doc.kind \in STRING
        /\ candidate.id \in Name /\ candidate.text \in Words /\ candidate.quote \in Words
        /\ candidate.category \in STRING /\ candidate.natural \in STRING
        /\ candidate.confidence \in Nat
    BY <2>2, <2>3 DEF Document, CandidateFact
  <2>6. /\ CategoryFor(candidate, doc) \in STRING \cup {"non_obvious", "current_work"}
        /\ CategoryFor(candidate, doc) = "non_obvious" => doc.kind \in NON_OBVIOUS_ELIGIBLE_KINDS
    <3>1. \/ /\ CategoryFor(candidate, doc) = candidate.category
             /\ candidate.category # "non_obvious"
          \/ /\ CategoryFor(candidate, doc) = "non_obvious"
             /\ doc.kind \in NON_OBVIOUS_ELIGIBLE_KINDS
          \/ /\ CategoryFor(candidate, doc) = candidate.natural
             /\ candidate.natural # "non_obvious"
          \/ CategoryFor(candidate, doc) = "current_work"
      BY DEF CategoryFor
    <3>2. QED
      BY <2>5, <3>1
  <2>7. Clamped(candidate.confidence) \in Nat
    BY <2>5 DEF Clamped
  <2>8. new \in Fact
    <3>1. <<doc.id, n>> \in STRING \X Nat
      BY <2>4, <2>5
    <3>2. QED
      BY <2>5, <2>6, <2>7, <3>1 DEF BuildFact, Fact
  <2>9. /\ new.doc = doc.id /\ new.kind = doc.kind /\ new.quote = candidate.quote
        /\ new.text = candidate.text /\ new.claim = candidate.id
        /\ new.category = CategoryFor(candidate, doc) /\ new.id = <<doc.id, n>>
    BY DEF BuildFact
  <2> HIDE DEF new
  <2>10. RootedIn(new, batch, answer)
    BY <2>2, <2>3, <2>6, <2>9 DEF RootedIn
  <2>11. /\ Append(sofar, new) \in Seq(Good) /\ Len(sofar) \in Nat
         /\ DOMAIN sofar = 1 .. Len(sofar)
         /\ DOMAIN Append(sofar, new) = 1 .. (Len(sofar) + 1)
         /\ Append(sofar, new)[Len(sofar) + 1] = new
         /\ \A i \in 1 .. Len(sofar) : Append(sofar, new)[i] = sofar[i]
    BY <2>8, <2>10
  <2>12. Numbered(Append(sofar, new))
    <3> DEFINE more == Append(sofar, new)
    <3>1. ASSUME NEW i \in 1 .. Len(sofar) PROVE Earlier(more, i) = Earlier(sofar, i)
      <4>1. \A j \in 1 .. (i - 1) : j \in 1 .. Len(sofar)
        BY <2>11
      <4>2. QED
        BY <2>11, <4>1 DEF Earlier
    <3>2. Earlier(more, Len(sofar) + 1) = FactsOf(sofar, doc.id)
      <4>1. 1 .. ((Len(sofar) + 1) - 1) = DOMAIN sofar
        BY <2>11
      <4>2. QED
        BY <2>9, <2>11, <4>1 DEF Earlier, FactsOf
    <3>3. \A i \in 1 .. (Len(sofar) + 1) : i \in 1 .. Len(sofar) \/ i = Len(sofar) + 1
      BY <2>11
    <3>4. QED
      BY <2>9, <2>11, <3>1, <3>2, <3>3 DEF Numbered, n
  <2>13. Extends(Append(sofar, new), made, batch)
    <3>1. \A i \in 1 .. (Len(sofar) + 1) : i \in 1 .. Len(sofar) \/ i = Len(sofar) + 1
      BY <2>11
    <3>2. \A i \in DOMAIN made : i \in 1 .. Len(sofar) /\ i \in 1 .. (Len(sofar) + 1)
      BY <2>11 DEF Extends
    <3>3. QED
      BY <2>3, <2>9, <2>11, <3>1, <3>2 DEF Extends
  <2>14. QED
    BY <2>1, <2>11, <2>12, <2>13
<1>3. QED
  BY <1>1, <1>2

\* What an answer adds is rooted in it, and the numbers go on.
LEMMA CollectedAreRooted ==
    ASSUME NEW answer \in Answer, NEW batch \in Seq(Document), NEW Good, Good \subseteq Fact,
           \A fact \in Fact : RootedIn(fact, batch, answer) => fact \in Good,
           NEW made \in Seq(Good), Numbered(made)
    PROVE  /\ CollectFacts(made, batch, answer) \in Seq(Good)
           /\ Numbered(CollectFacts(made, batch, answer))
           /\ Extends(CollectFacts(made, batch, answer), made, batch)
<1> DEFINE s == answer.facts
           n == Len(s)
           A == {more \in Seq(Good) : Numbered(more) /\ Extends(more, made, batch)}
           step == [c \in (1 .. n) \X A |-> Taken(c[2], s[c[1]], batch)]
           Folds(g) == g = [t \in SUBSET DOMAIN s |->
                              IF t = {} THEN made
                              ELSE Taken(g[t \ {Max(t)}], s[Max(t)], batch)]
           fold == CHOOSE g : Folds(g)
<1>1. CollectFacts(made, batch, answer) = fold[DOMAIN s]
  BY DEF CollectFacts, FoldLeft, MapThenFoldSet, Taken
<1>2. s \in Seq(CandidateFact) /\ n \in Nat /\ DOMAIN s = 1 .. n
  <2>1. answer \in ExtractionResult
    BY DossierAssumption
  <2>2. s \in Seq(CandidateFact)
    BY <2>1 DEF ExtractionResult
  <2>3. QED
    BY <2>2
<1>3. \A i \in 1 .. n : s[i] \in Range(answer.facts)
  BY <1>2 DEF Range
<1>4. made \in A
  BY DEF Extends
<1>5. \A a \in A, i \in 1 .. n : Taken(a, s[i], batch) \in A
  BY <1>3, TakenIsRooted
<1> HIDE DEF A, n
<1>6. /\ step \in [(1 .. n) \X A -> A]
      /\ \A i \in 1 .. n : \A a \in A : step[<<i, a>>] = Taken(a, s[i], batch)
  BY <1>5
<1> HIDE DEF step
<1>7. \E g : Folds(g)
  <2>1. PICK g : Solves(g, n, A, made, step)
    BY <1>2, <1>4, <1>6, FoldSolves
  <2>2. Folds(g)
    BY <1>2, <1>6, <2>1 DEF Solves
  <2>3. QED
    BY <2>2
<1>8. Folds(fold)
  BY <1>7
<1> HIDE DEF fold
<1>9. Follows(fold, n, A, made, step)
  <2>1. \A t \in SUBSET (1 .. n) : t # {} => Max(t) \in 1 .. n
    BY <1>2, MaxIsLast DEF IsLast
  <2>2. QED
    BY <1>2, <1>6, <1>8, <2>1 DEF Follows
<1>10. fold[1 .. n] \in A
  <2>1. Steps(fold, n, A, made, step)
    BY <1>2, <1>4, <1>6, <1>9, FoldSteps
  <2>2. QED
    BY <1>2, <2>1 DEF Steps
<1>11. QED
  BY <1>1, <1>2, <1>10 DEF A

\* Numbers do not repeat: a later fact of a document has more before it.
LEMMA NumbersDiffer ==
    ASSUME NEW X, NEW made \in Seq(X), Numbered(made),
           NEW i \in DOMAIN made, NEW j \in DOMAIN made, made[i].id = made[j].id
    PROVE  i = j
<1>1. DOMAIN made = 1 .. Len(made) /\ Len(made) \in Nat
  OBVIOUS
<1>2. ASSUME NEW k \in DOMAIN made
      PROVE  /\ IsFiniteSet(Earlier(made, k)) /\ Cardinality(Earlier(made, k)) \in Nat
             /\ k \notin Earlier(made, k)
  <2>1. k - 1 \in Int /\ 1 \in Int /\ k \notin 1 .. (k - 1)
    BY <1>1
  <2>2. IsFiniteSet(1 .. (k - 1))
    BY <2>1, FS_Interval
  <2>3. Earlier(made, k) \subseteq 1 .. (k - 1)
    BY DEF Earlier
  <2>4. QED
    BY <2>1, <2>2, <2>3, FS_Subset, FS_CardinalityType
<1>3. ASSUME NEW k \in DOMAIN made, NEW l \in DOMAIN made, k < l, made[k].doc = made[l].doc
      PROVE  Cardinality(Earlier(made, k)) < Cardinality(Earlier(made, l))
  <2>1. Earlier(made, k) \cup {k} \in SUBSET Earlier(made, l)
    <3>1. k \in 1 .. (l - 1) /\ \A m \in 1 .. (k - 1) : m \in 1 .. (l - 1)
      BY <1>1, <1>3
    <3>2. QED
      BY <1>3, <3>1 DEF Earlier
  <2>2. Cardinality(Earlier(made, k) \cup {k}) = Cardinality(Earlier(made, k)) + 1
    BY <1>2, FS_AddElement
  <2>3. Cardinality(Earlier(made, k) \cup {k}) <= Cardinality(Earlier(made, l))
    BY <1>2, <2>1, FS_Subset
  <2>4. Cardinality(Earlier(made, k)) \in Nat /\ Cardinality(Earlier(made, l)) \in Nat
    BY <1>2
  <2>5. QED
    BY <2>2, <2>3, <2>4
<1>4. /\ made[i].doc = made[j].doc
      /\ Cardinality(Earlier(made, i)) = Cardinality(Earlier(made, j))
  <2>1. <<made[i].doc, Cardinality(Earlier(made, i))>>
          = <<made[j].doc, Cardinality(Earlier(made, j))>>
    BY DEF Numbered
  <2>2. QED
    BY <2>1
<1>5. ~(i < j) /\ ~(j < i)
  <2>1. Cardinality(Earlier(made, i)) \in Int
    BY <1>2
  <2>2. QED
    BY <1>3, <1>4, <2>1
<1>6. QED
  BY <1>1, <1>5

\* A batch is a stretch of the documents, MAX_DOCS_PER_CALL of them at most.
LEMMA BatchIsStretch ==
    ASSUME NEW docs \in Seq(Document), NEW n \in Nat \ {0}
    PROVE  /\ BatchOf(docs, n) \in Seq(Document)
           /\ \A i \in DOMAIN BatchOf(docs, n) :
                 /\ i \in 1 .. MAX_DOCS_PER_CALL
                 /\ (n - 1) * MAX_DOCS_PER_CALL + i \in DOMAIN docs
                 /\ BatchOf(docs, n)[i] = docs[(n - 1) * MAX_DOCS_PER_CALL + i]
<1> DEFINE first == (n - 1) * MAX_DOCS_PER_CALL + 1
           last == IF n * MAX_DOCS_PER_CALL < Len(docs) THEN n * MAX_DOCS_PER_CALL
                   ELSE Len(docs)
<1>1. BatchOf(docs, n) = SubSeq(docs, first, last)
  BY DEF BatchOf
<1>2. /\ first \in Nat \ {0} /\ last \in Nat /\ last <= Len(docs) /\ Len(docs) \in Nat
      /\ last - first + 1 <= MAX_DOCS_PER_CALL
      /\ MAX_DOCS_PER_CALL \in Nat
  <2>1. MAX_DOCS_PER_CALL \in Nat /\ Len(docs) \in Nat
    BY ExtractionAssumption
  <2>2. (n - 1) * MAX_DOCS_PER_CALL \in Nat /\ n * MAX_DOCS_PER_CALL \in Nat
    BY <2>1
  <2>3. n * MAX_DOCS_PER_CALL = (n - 1) * MAX_DOCS_PER_CALL + MAX_DOCS_PER_CALL
    BY <2>1
  <2>4. QED
    BY <2>1, <2>2, <2>3
<1>3. DOMAIN docs = 1 .. Len(docs)
  OBVIOUS
<1>4. first - 1 = (n - 1) * MAX_DOCS_PER_CALL /\ (n - 1) * MAX_DOCS_PER_CALL \in Int
  BY <1>2
<1> DEFINE before == (n - 1) * MAX_DOCS_PER_CALL
<1>5. before \in Int /\ first = before + 1
  BY <1>4
<1> HIDE DEF first, last, before
<1>6. SubSeq(docs, first, last) = [i \in 1 .. (last - first + 1) |-> docs[i + first - 1]]
  BY <1>2
<1>7. ASSUME NEW i \in 1 .. (last - first + 1)
      PROVE  i \in 1 .. MAX_DOCS_PER_CALL /\ before + i \in DOMAIN docs /\ i + first - 1 = before + i
  BY <1>2, <1>3, <1>5
<1>8. SubSeq(docs, first, last) \in Seq(Document)
  <2>1. \A i \in 1 .. (last - first + 1) : docs[i + first - 1] \in Document
    BY <1>7
  <2>2. CASE last - first + 1 \in Nat
    BY <1>6, <2>1, <2>2
  <2>3. CASE last - first + 1 \notin Nat
    <3>1. 1 .. (last - first + 1) = 1 .. 0
      BY <1>2, <2>3
    <3>2. SubSeq(docs, first, last) = [i \in 1 .. 0 |-> docs[i + first - 1]]
      BY <1>6, <3>1
    <3>3. [i \in 1 .. 0 |-> docs[i + first - 1]] = <<>>
      OBVIOUS
    <3>4. QED
      BY <3>2, <3>3
  <2>4. QED
    BY <2>2, <2>3
<1>9. DOMAIN SubSeq(docs, first, last) = 1 .. (last - first + 1)
  BY <1>6
<1>10. \A i \in 1 .. (last - first + 1) :
          /\ i \in 1 .. MAX_DOCS_PER_CALL /\ before + i \in DOMAIN docs
          /\ SubSeq(docs, first, last)[i] = docs[before + i]
  BY <1>6, <1>7
<1>11. QED
  BY <1>1, <1>8, <1>9, <1>10 DEF before

\* The documents of a subject, each listed once.
Listed(docs) ==
    /\ docs \in Seq(Document)
    /\ \A i, j \in DOMAIN docs : docs[i].id = docs[j].id => i = j

LEMMA OneBatchEach ==
    ASSUME NEW docs, Listed(docs), NEW n \in Nat \ {0}, NEW m \in Nat \ {0},
           NEW i \in DOMAIN BatchOf(docs, n), NEW j \in DOMAIN BatchOf(docs, m),
           BatchOf(docs, n)[i].id = BatchOf(docs, m)[j].id
    PROVE  n = m
<1>1. /\ i \in 1 .. MAX_DOCS_PER_CALL /\ j \in 1 .. MAX_DOCS_PER_CALL
      /\ (n - 1) * MAX_DOCS_PER_CALL + i \in DOMAIN docs
      /\ (m - 1) * MAX_DOCS_PER_CALL + j \in DOMAIN docs
      /\ BatchOf(docs, n)[i] = docs[(n - 1) * MAX_DOCS_PER_CALL + i]
      /\ BatchOf(docs, m)[j] = docs[(m - 1) * MAX_DOCS_PER_CALL + j]
  BY BatchIsStretch DEF Listed
<1>2. (n - 1) * MAX_DOCS_PER_CALL + i = (m - 1) * MAX_DOCS_PER_CALL + j
  BY <1>1 DEF Listed
<1>3. MAX_DOCS_PER_CALL \in Nat \ {0}
  BY ExtractionAssumption
<1>4. ASSUME NEW a \in Nat \ {0}, NEW b \in Nat \ {0}, a < b
      PROVE  (a - 1) * MAX_DOCS_PER_CALL + MAX_DOCS_PER_CALL <= (b - 1) * MAX_DOCS_PER_CALL
  <2>1. PICK c \in Nat : b - 1 = (a - 1) + 1 + c
    <3>1. b - a - 1 \in Nat /\ b - 1 = (a - 1) + 1 + (b - a - 1)
      BY <1>4
    <3>2. QED
      BY <3>1
  <2>2. (b - 1) * MAX_DOCS_PER_CALL
          = (a - 1) * MAX_DOCS_PER_CALL + MAX_DOCS_PER_CALL + c * MAX_DOCS_PER_CALL
    BY <1>3, <2>1
  <2>3. c * MAX_DOCS_PER_CALL \in Nat /\ (a - 1) * MAX_DOCS_PER_CALL \in Nat
    BY <1>3
  <2>4. QED
    BY <1>3, <2>2, <2>3
<1>5. (n - 1) * MAX_DOCS_PER_CALL \in Int /\ (m - 1) * MAX_DOCS_PER_CALL \in Int
  BY <1>3
<1>6. ~(n < m)
  BY <1>1, <1>2, <1>3, <1>4, <1>5
<1>7. ~(m < n)
  BY <1>1, <1>2, <1>3, <1>4, <1>5
<1>8. QED
  BY <1>6, <1>7

\* The facts that some answer of `given`, and the batch it was given, account for.
Rooted(docs, given) ==
    {fact \in Fact : \E n \in DOMAIN given : RootedIn(fact, BatchOf(docs, n), given[n])}

\* What the extraction keeps true: every fact is accounted for, and the numbers go on.
CitationInv ==
    /\ subject \in Subject
    /\ answers \in Seq(Answer \cup {Failed})
    /\ extracted.facts \in Seq(Rooted(subject.docs, answers))
    /\ Numbered(extracted.facts)

LEMMA SubjectsAreListed ==
    ASSUME NEW person \in Subject
    PROVE  Listed(person.docs)
<1>1. person \in [docs : Seq(Document), details : Seq(Words)]
  BY DossierAssumption
<1>2. \A i, j \in DOMAIN person.docs : person.docs[i].id = person.docs[j].id => i = j
  BY DossierAssumption
<1>3. QED
  BY <1>1, <1>2 DEF Listed

\* What was accounted for stays so when another answer comes.
LEMMA ExtractKeepsCitations ==
    ASSUME CitationInv, Extract
    PROVE  CitationInv'
<1>1. PICK answer \in Answer \cup {Failed} :
         /\ answers' = Append(answers, answer)
         /\ extracted' = IF answer = Failed THEN extracted
                         ELSE Collect(extracted, Unread, answer, subject.details)
  BY DEF Extract
<1>2. subject' = subject /\ subject \in Subject
  BY DEF Extract, CitationInv
<1> DEFINE docs == subject.docs
           last == Len(answers) + 1
           Good == Rooted(docs, answers')
<1>3. /\ answers' \in Seq(Answer \cup {Failed}) /\ last \in Nat \ {0}
      /\ last \in DOMAIN answers' /\ answers'[last] = answer
      /\ \A n \in DOMAIN answers : n \in DOMAIN answers' /\ answers'[n] = answers[n]
  BY <1>1 DEF CitationInv
<1>4. Listed(docs)
  BY <1>2, SubjectsAreListed
<1>5. BatchOf(docs, last) \in Seq(Document) /\ Unread = BatchOf(docs, last)
  BY <1>3, <1>4, BatchIsStretch DEF Listed, Unread
<1> HIDE DEF docs, last
<1>6. Rooted(docs, answers) \subseteq Good /\ Good \subseteq Fact
  BY <1>3 DEF Rooted
<1>7. \A fact \in Fact : RootedIn(fact, BatchOf(docs, last), answer) => fact \in Good
  BY <1>3 DEF Rooted
<1>8. extracted.facts \in Seq(Good) /\ Numbered(extracted.facts)
  <2>1. extracted.facts \in Seq(Rooted(docs, answers)) /\ Numbered(extracted.facts)
    BY DEF CitationInv, docs
  <2> HIDE DEF Good
  <2>2. QED
    BY <1>6, <2>1
<1> HIDE DEF Good
<1>9. CASE answer = Failed
  <2>1. extracted' = extracted
    BY <1>1, <1>9
  <2>2. QED
    BY <1>2, <1>3, <1>8, <2>1 DEF CitationInv, Good, docs
<1>10. CASE answer # Failed
  <2>1. extracted'.facts = CollectFacts(extracted.facts, BatchOf(docs, last), answer)
    BY <1>1, <1>5, <1>10 DEF Collect
  <2>2. extracted'.facts \in Seq(Good) /\ Numbered(extracted'.facts)
    BY <1>5, <1>6, <1>7, <1>8, <1>10, <2>1, CollectedAreRooted
  <2>3. Numbered(extracted.facts)'
    BY <2>2 DEF Numbered, Earlier
  <2>4. QED
    BY <1>2, <1>3, <2>2, <2>3 DEF CitationInv, Good, docs
<1>11. QED
  BY <1>9, <1>10

LEMMA CitationsHold == BuildSpec => []CitationInv
<1>1. BuildInit => CitationInv
  BY DEF BuildInit, CitationInv, Empty, Numbered
<1>2. CitationInv /\ [BuildNext]_buildVars => CitationInv'
  <2> SUFFICES ASSUME CitationInv, [BuildNext]_buildVars PROVE CitationInv'
    OBVIOUS
  <2>1. CASE Extract
    BY <2>1, ExtractKeepsCitations
  <2>2. CASE UNCHANGED <<subject, answers, extracted>>
    BY <2>2 DEF CitationInv, Numbered, Earlier
  <2>3. QED
    BY <2>1, <2>2 DEF BuildNext, StartTaste, Classify, Assemble, pageVars, buildVars
<1>3. QED
  BY <1>1, <1>2, PTL DEF BuildSpec

\* The batch that accounts for a fact is the one BatchWith finds, and the document is the
\* one its id names.
LEMMA RootIsFound ==
    ASSUME CitationInv, NEW fact \in Fact, NEW n \in DOMAIN answers,
           NEW doc \in Range(BatchOf(subject.docs, n)), fact.doc = doc.id
    PROVE  BatchWith(fact.doc) = n /\ DocOf(fact, subject.docs) = doc
<1> DEFINE docs == subject.docs
<1>1. Listed(docs) /\ DOMAIN answers \subseteq Nat \ {0}
  BY SubjectsAreListed DEF CitationInv
<1>2. PICK i \in DOMAIN BatchOf(docs, n) : BatchOf(docs, n)[i] = doc
  BY DEF Range
<1>3. /\ \E k \in DOMAIN BatchOf(docs, n) : BatchOf(docs, n)[k].id = fact.doc
      /\ \A m \in DOMAIN answers :
           (\E k \in DOMAIN BatchOf(docs, m) : BatchOf(docs, m)[k].id = fact.doc) => m = n
  BY <1>1, <1>2, OneBatchEach
<1>4. BatchWith(fact.doc) = n
  BY <1>3 DEF BatchWith
<1>5. doc \in Range(docs) /\ \A other \in Range(docs) : other.id = fact.doc => other = doc
  <2>1. \E k \in DOMAIN docs : docs[k] = doc
    BY <1>1, <1>2, BatchIsStretch DEF Listed
  <2>2. QED
    BY <1>1, <2>1 DEF Listed, Range
<1>6. DocOf(fact, docs) = doc
  BY <1>5 DEF DocOf
<1>7. QED
  BY <1>4, <1>6

\* Every fact quotes the document it names in the document's own words, the document is
\* nobody's guess, and an id is one fact's: for any documents, batches and answers.
THEOREM QuotesHold == BuildSpec => []CitedVerbatim
<1>1. CitationInv => CitedVerbatim
  <2> SUFFICES ASSUME CitationInv, NEW i \in DOMAIN extracted.facts
               PROVE  LET fact == extracted.facts[i]
                          doc == DocOf(fact, subject.docs)
                      IN  /\ IsCited(fact.quote, doc) /\ doc.kind = fact.kind
                          /\ fact.category = "non_obvious" =>
                                fact.kind \in NON_OBVIOUS_ELIGIBLE_KINDS
                          /\ \A j \in DOMAIN extracted.facts :
                                extracted.facts[j].id = fact.id => j = i
                          /\ \E candidate \in Range(Answered(fact).facts) :
                                /\ candidate.text = fact.text /\ candidate.quote = fact.quote
                                /\ candidate.id = fact.claim
                                /\ \/ candidate.doc = fact.doc
                                   \/ \A other \in Range(Prompted(fact)) :
                                         IsCited(fact.quote, other) => other.id = fact.doc
    BY DEF CitedVerbatim
  <2> DEFINE fact == extracted.facts[i]
  <2>1. fact \in Rooted(subject.docs, answers)
    BY DEF CitationInv
  <2>2. PICK n \in DOMAIN answers : RootedIn(fact, BatchOf(subject.docs, n), answers[n])
    BY <2>1 DEF Rooted
  <2>3. \A j \in DOMAIN extracted.facts : extracted.facts[j].id = fact.id => j = i
    BY NumbersDiffer DEF CitationInv
  <2>4. fact \in Fact
    BY <2>1 DEF Rooted
  <2> HIDE DEF fact
  <2>5. PICK doc \in Range(BatchOf(subject.docs, n)), candidate \in Range(answers[n].facts) :
           /\ fact.doc = doc.id /\ fact.kind = doc.kind /\ IsCited(fact.quote, doc)
           /\ fact.category = "non_obvious" => fact.kind \in NON_OBVIOUS_ELIGIBLE_KINDS
           /\ candidate.text = fact.text /\ candidate.quote = fact.quote
           /\ candidate.id = fact.claim
           /\ \/ candidate.doc = fact.doc
              \/ \A other \in Range(BatchOf(subject.docs, n)) :
                    IsCited(fact.quote, other) => other.id = fact.doc
    BY <2>2 DEF RootedIn
  <2>6. BatchWith(fact.doc) = n /\ DocOf(fact, subject.docs) = doc
    BY <2>4, <2>5, RootIsFound
  <2>7. Answered(fact) = answers[n] /\ Prompted(fact) = BatchOf(subject.docs, n)
    BY <2>6 DEF Answered, Prompted
  <2>8. QED
    BY <2>3, <2>5, <2>6, <2>7 DEF fact
<1>2. QED
  BY <1>1, CitationsHold, PTL

\* What is screened are the extracted facts, and what is built are they again, with a verdict.
ShownInv ==
    /\ facts \in Seq(Fact)
    /\ Built => /\ DOMAIN dossier.facts = DOMAIN facts
                /\ \A i \in DOMAIN facts : /\ dossier.facts[i].text = facts[i].text
                                           /\ dossier.facts[i].quote = facts[i].quote

\* Whatever the build's tables let pass and the model ruled, no page shows a sentence or a
\* quote with a clause that today's tables exclude on its own.
THEOREM WithheldIsHidden == BuildSpec => []NothingWithheldIsShown
<1>1. BuildInit => ShownInv
  BY DEF BuildInit, TasteInit, ShownInv, Built
<1>2. CitationInv /\ ShownInv /\ [BuildNext]_buildVars => ShownInv'
  <2> SUFFICES ASSUME CitationInv, ShownInv, [BuildNext]_buildVars PROVE ShownInv'
    OBVIOUS
  <2>1. CASE StartTaste
    <3>1. facts' = extracted.facts /\ stage' = "taste"
      BY <2>1 DEF StartTaste, Screen
    <3>2. Rooted(subject.docs, answers) \subseteq Fact
      BY DEF Rooted
    <3>3. extracted.facts \in Seq(Fact)
      BY <3>2 DEF CitationInv
    <3>4. QED
      BY <3>1, <3>3 DEF ShownInv, Built
  <2>2. CASE Assemble
    <3>1. facts' = facts /\ dossier'.facts = Tasted
      BY <2>2 DEF Assemble, tasteVars
    <3>2. ASSUME NEW i \in DOMAIN facts
          PROVE  Tasted[i].text = facts[i].text /\ Tasted[i].quote = facts[i].quote
      <4>1. facts[i] \in Fact /\ Tasted[i] = Decide(facts[i], Ruled(i))
        BY DEF ShownInv, Tasted
      <4>2. QED
        BY <4>1 DEF Decide, Fact
    <3>3. DOMAIN Tasted = DOMAIN facts
      BY DEF Tasted
    <3>4. QED
      BY <3>1, <3>2, <3>3 DEF ShownInv
  <2>3. CASE UNCHANGED <<facts, stage, dossier>>
    BY <2>3 DEF ShownInv, Built
  <2>4. CASE Classify
    BY <2>4 DEF Classify, AskBatch, pageVars, ShownInv, Built
  <2>5. QED
    BY <2>1, <2>2, <2>3, <2>4 DEF BuildNext, Extract, tasteVars, pageVars, buildVars
<1>3. ShownInv => NothingWithheldIsShown
  <2> SUFFICES ASSUME ShownInv, Built, NEW i \in DOMAIN dossier.facts,
                      IsDisplayable(dossier.facts[i])
               PROVE  \A clause \in Clauses(dossier.facts[i].text)
                                        \cup Clauses(ScreenQuote(dossier.facts[i])) :
                         RuleVerdict(clause, Today).decision # "exclude"
    BY DEF NothingWithheldIsShown
  <2>1. facts[i] \in Fact /\ dossier.facts[i].text = facts[i].text
        /\ dossier.facts[i].quote = facts[i].quote
    BY DEF ShownInv
  <2>2. dossier.facts[i].text \in Seq(STRING) /\ dossier.facts[i].quote \in Seq(STRING)
    BY <2>1 DEF Fact, Words
  <2>3. QED
    BY <2>2, ShownIsClean
<1>4. QED
  BY <1>1, <1>2, <1>3, CitationsHold, PTL DEF BuildSpec

------------------------------------------------------------------------------
(* Where a hub comes from                                                   *)

\* A name that an answer uses for a fact of its batch: our id, or one that it gives to this
\* fact alone and that is no id of `known`.
Calls(name, fact, siblings, known) ==
    \/ name = fact.id
    \/ /\ name \notin {f.id : f \in known}
       /\ {f \in siblings : f.claim = name} = {fact}

IdsDiffer(made) == \A i, j \in DOMAIN made : made[i].id = made[j].id => i = j

\* The facts known when an answer is taken in: its own, and those whose ids were given before.
Reserves(known, new, reserved) ==
    /\ Range(new) \subseteq known /\ {f.id : f \in known} = reserved \cup Ids(new)
    /\ IdsDiffer(new)

\* IdMap hands out ids of the answer's own facts, and only to names that mean them.
LEMMA NamesMeanFacts ==
    ASSUME NEW new \in Seq(Fact), NEW known, NEW reserved, Reserves(known, new, reserved),
           NEW name \in DOMAIN IdMap(new, reserved)
    PROVE  \E fact \in Range(new) :
              IdMap(new, reserved)[name] = fact.id /\ Calls(name, fact, Range(new), known)
<1> DEFINE Claiming(n) == {i \in DOMAIN new : new[i].claim = n}
           claimed == {n \in {new[i].claim : i \in DOMAIN new} :
                         /\ n \notin {BlankId} \cup reserved \cup Ids(new)
                         /\ Cardinality(Claiming(n)) = 1}
<1>1. /\ name \in Ids(new) \cup claimed
      /\ IdMap(new, reserved)[name] =
           IF name \in Ids(new) THEN name ELSE new[CHOOSE i \in Claiming(name) : TRUE].id
  BY DEF IdMap
<1> USE DEF Reserves
<1>2. CASE name \in Ids(new)
  <2>1. PICK i \in DOMAIN new : new[i].id = name
    BY <1>2 DEF Ids
  <2>2. new[i] \in Range(new)
    BY DEF Range
  <2>3. QED
    BY <1>1, <1>2, <2>1, <2>2 DEF Calls
<1>3. CASE name \notin Ids(new)
  <2>1. name \in claimed
    BY <1>1, <1>3
  <2>2. name \notin reserved \cup Ids(new) /\ Cardinality(Claiming(name)) = 1
    BY <2>1
  <2>3. PICK i : Claiming(name) = {i}
    <3>1. IsFiniteSet(1 .. Len(new)) /\ Claiming(name) \subseteq 1 .. Len(new)
      BY FS_Interval
    <3>2. IsFiniteSet(Claiming(name))
      <4> HIDE DEF Claiming
      <4>1. QED
        BY <3>1, FS_Subset
    <3> HIDE DEF Claiming
    <3>3. QED
      BY <2>2, <3>2, FS_Singleton
  <2>4. i \in DOMAIN new /\ new[i].claim = name
    BY <2>3
  <2>5. (CHOOSE k \in Claiming(name) : TRUE) = i
    BY <2>3
  <2>6. {f \in Range(new) : f.claim = name} = {new[i]}
    <3>1. new[i] \in Range(new)
      BY <2>4 DEF Range
    <3>2. ASSUME NEW f \in Range(new), f.claim = name PROVE f = new[i]
      <4>1. PICK k \in DOMAIN new : new[k] = f
        BY DEF Range
      <4>2. k \in Claiming(name)
        BY <3>2, <4>1
      <4>3. QED
        BY <2>3, <4>1, <4>2
    <3>3. QED
      BY <2>4, <3>1, <3>2
  <2>7. new[i] \in Range(new)
    BY <2>4 DEF Range
  <2>8. IdMap(new, reserved)[name] = new[i].id
    BY <1>1, <1>3, <2>5
  <2>9. name \notin {f.id : f \in known}
    BY <2>2
  <2> HIDE DEF Claiming, claimed
  <2>10. QED
    BY <2>6, <2>7, <2>8, <2>9 DEF Calls
<1>4. QED
  BY <1>2, <1>3

\* A fact stands behind a hub: it says the label, or the hub cites it by a name that means it.
StandsBehind(fact, hub, siblings, known) ==
    \/ Mentions(fact.text \o fact.quote, LabelOf(hub))
    \/ \E name \in Range(hub.evidence) : Calls(name, fact, siblings, known)

StandBehind(evidence, hub, new, known) ==
    /\ evidence \in Seq(Ids(new))
    /\ \A i \in DOMAIN evidence : \E fact \in Range(new) :
          evidence[i] = fact.id /\ StandsBehind(fact, hub, Range(new), known)

LEMMA EvidenceStands ==
    ASSUME NEW new \in Seq(Fact), NEW known, NEW reserved, Reserves(known, new, reserved),
           NEW batch, NEW hub \in CandidateHub
    PROVE  StandBehind(Evidence(hub, new, batch, IdMap(new, reserved)), hub, new, known)
<1> DEFINE names == IdMap(new, reserved)
           cited == Within(hub.evidence, DOMAIN names)
           claimed == [i \in DOMAIN cited |-> names[cited[i]]]
           Good == {id \in Ids(new) : \E fact \in Range(new) :
                      id = fact.id /\ StandsBehind(fact, hub, Range(new), known)}
<1>1. hub.evidence \in Seq(Name)
  BY DEF CandidateHub
<1>2. /\ cited \in Seq(Name) /\ DOMAIN cited = 1 .. Len(cited) /\ Len(cited) \in Nat
      /\ \A i \in DOMAIN cited : cited[i] \in Range(hub.evidence) \cap DOMAIN names
  <2>1. cited \in Seq(Name) /\ ToSet(cited) = ToSet(hub.evidence) \cap DOMAIN names
    <3> HIDE DEF names
    <3>1. QED
      BY <1>1, WithinIsAll
  <2> HIDE DEF cited, names
  <2>2. \A i \in DOMAIN cited : cited[i] \in ToSet(cited)
    BY DEF ToSet
  <2>3. ToSet(hub.evidence) = Range(hub.evidence)
    BY DEF ToSet, Range
  <2>4. QED
    BY <2>1, <2>2, <2>3
<1> HIDE DEF cited
<1>3. claimed \in Seq(Good)
  <2>1. ASSUME NEW i \in DOMAIN cited PROVE names[cited[i]] \in Good
    <3>1. cited[i] \in DOMAIN names /\ cited[i] \in Range(hub.evidence)
      BY <1>2
    <3>2. PICK fact \in Range(new) :
             names[cited[i]] = fact.id /\ Calls(cited[i], fact, Range(new), known)
      BY <3>1, NamesMeanFacts
    <3>3. fact.id \in Ids(new)
      BY DEF Ids, Range
    <3>4. StandsBehind(fact, hub, Range(new), known)
      BY <3>1, <3>2 DEF StandsBehind
    <3>5. QED
      BY <3>2, <3>3, <3>4
  <2> HIDE DEF Good, names
  <2>2. claimed \in [1 .. Len(cited) -> Good]
    BY <1>2, <2>1
  <2>3. QED
    BY <1>2, <2>2
<1> DEFINE kept == IF hub.field THEN Attested(claimed, LabelOf(hub), new, batch) ELSE claimed
<1>4. kept \in Seq(Good)
  <2> HIDE DEF claimed, Good
  <2>1. Attested(claimed, LabelOf(hub), new, batch) \in Seq(Good)
    BY <1>3, WithinIsAll DEF Attested
  <2>2. QED
    BY <1>3, <2>1
<1>5. Corroborated(hub, new, batch) \in Seq(Good)
  <2> DEFINE naming == {fact \in Range(new) :
                          /\ \E doc \in SourceHubDoc(hub, batch) : doc.id = fact.doc
                          /\ Mentions(fact.text \o fact.quote, LabelOf(hub))}
             own == Within(new, naming)
  <2>1. Corroborated(hub, new, batch) = [i \in DOMAIN own |-> own[i].id]
    BY DEF Corroborated
  <2>2. own \in Seq(Fact) /\ ToSet(own) = ToSet(new) \cap naming
    <3> HIDE DEF naming
    <3>1. QED
      BY WithinIsAll
  <2> HIDE DEF own
  <2>3. DOMAIN own = 1 .. Len(own) /\ Len(own) \in Nat
    BY <2>2
  <2>4. ASSUME NEW i \in DOMAIN own PROVE own[i].id \in Good
    <3>1. own[i] \in naming
      BY <2>2 DEF ToSet
    <3>2. own[i] \in Range(new) /\ StandsBehind(own[i], hub, Range(new), known)
      BY <3>1 DEF StandsBehind
    <3>3. own[i].id \in Ids(new)
      BY <3>2 DEF Ids, Range
    <3>4. QED
      BY <3>2, <3>3
  <2> HIDE DEF Good
  <2>5. [i \in DOMAIN own |-> own[i].id] \in [1 .. Len(own) -> Good]
    BY <2>3, <2>4
  <2>6. QED
    BY <2>1, <2>3, <2>5
<1>6. Evidence(hub, new, batch, names) =
         IF kept # <<>> THEN kept ELSE Corroborated(hub, new, batch)
  BY DEF Evidence, cited
<1>7. Evidence(hub, new, batch, names) \in Seq(Good)
  BY <1>4, <1>5, <1>6
<1> HIDE DEF kept, claimed, names
<1>8. Good \subseteq Ids(new)
  OBVIOUS
<1>9. Evidence(hub, new, batch, names) \in Seq(Ids(new))
  <2> HIDE DEF Good
  <2>1. QED
    BY <1>7, <1>8
<1>10. \A i \in DOMAIN Evidence(hub, new, batch, names) :
          Evidence(hub, new, batch, names)[i] \in Good
  <2> HIDE DEF Good
  <2>1. QED
    BY <1>7
<1>11. QED
  BY <1>9, <1>10 DEF names, StandBehind

Recency == {3, 5, 6, 10}

Group ==
    [key : {Slug(label) : label \in Words}, types : Seq(HubType), labels : Seq(Words),
     qids : Seq(Seq(Nat)), evidence : SUBSET (STRING \X Nat), recency : Recency,
     field : BOOLEAN]

LEMMA GreatestIsOne ==
    ASSUME NEW S \in SUBSET Recency, S # {}
    PROVE  Greatest(S) \in S
<1>1. S \in SUBSET (1 .. 10) /\ 10 \in Nat
  BY DEF Recency
<1>2. Max(S) \in S /\ \A k \in S : k <= Max(S)
  BY <1>1, MaxIsLast DEF IsLast
<1>3. QED
  BY <1>2 DEF Greatest

LEMMA RecencyIsOne ==
    ASSUME NEW days \in {Nothing} \cup Nat
    PROVE  RecencyFor(days) \in Recency
<1>1. \/ RecencyFor(days) = 5 \/ RecencyFor(days) = 10 \/ RecencyFor(days) = 6
      \/ RecencyFor(days) = 3
  BY DEF RecencyFor
<1>2. QED
  BY <1>1 DEF Recency

\* A label that is not refused is the model's words or a term of the vocabulary.
LEMMA LabelIsWords ==
    ASSUME NEW hub \in CandidateHub, ~Refused(hub)
    PROVE  LabelOf(hub) \in Words
<1>1. hub.label \in Words
  BY DEF CandidateHub
<1>2. CASE ~hub.field
  BY <1>1, <1>2 DEF LabelOf
<1>3. CASE hub.field
  <2> DEFINE terms == {term \in FIELD_HUB_VOCABULARY : Mentions(hub.label, term)}
             longest == {term \in terms : \A other \in terms : Len(other) <= Len(term)}
             lengths == {Len(term) : term \in terms}
  <2>1. FieldLabel(hub.label) = IF terms = {} THEN Nothing ELSE CHOOSE term \in longest : TRUE
    BY DEF FieldLabel
  <2>2. FieldLabel(hub.label) # Nothing
    BY <1>3 DEF Refused
  <2>3. terms # {}
    BY <2>1, <2>2
  <2>4. ASSUME NEW term \in terms PROVE Len(term) \in 1 .. Len(hub.label)
    <3>1. term \in Seq(STRING) /\ term # <<>> /\ hub.label \in Seq(STRING)
      BY <1>1, ExtractionAssumption DEF Mentions, Words
    <3>2. PICK i \in DOMAIN hub.label : i + Len(term) - 1 <= Len(hub.label)
      BY DEF Mentions
    <3>3. Len(term) \in Nat /\ Len(term) # 0 /\ i \in 1 .. Len(hub.label) /\ Len(hub.label) \in Nat
      BY <3>1, <3>2
    <3>4. QED
      BY <3>2, <3>3
  <2>5. lengths \in SUBSET (1 .. Len(hub.label)) /\ lengths # {} /\ Len(hub.label) \in Nat
    <3>1. Len(hub.label) \in Nat
      BY <1>1 DEF Words
    <3> HIDE DEF terms
    <3>2. QED
      BY <2>3, <2>4, <3>1
  <2>6. Max(lengths) \in lengths /\ \A k \in lengths : k <= Max(lengths)
    <3> HIDE DEF lengths
    <3>1. QED
      BY <2>5, MaxIsLast DEF IsLast
  <2>7. longest # {}
    <3> HIDE DEF terms
    <3>1. PICK term \in terms : Len(term) = Max(lengths)
      BY <2>6
    <3>2. \A other \in terms : Len(other) <= Len(term)
      BY <2>6, <3>1
    <3>3. QED
      BY <3>2
  <2>8. FieldLabel(hub.label) \in longest
    BY <2>1, <2>3, <2>7
  <2>9. FieldLabel(hub.label) \in Words
    BY <2>8, ExtractionAssumption
  <2>10. QED
    BY <1>3, <2>9 DEF LabelOf
<1>4. QED
  BY <1>2, <1>3

\* Documents that are all one document settle a QID only if it states no other.
LEMMA OneDocumentSettles ==
    ASSUME NEW qid, NEW label, NEW docs, NEW n \in Nat \ {0}, DOMAIN docs = 1 .. n,
           HubQid(qid, label, docs) = qid, qid # Nothing,
           NEW doc, \A i \in DOMAIN docs : docs[i] = doc
    PROVE  OfferedQids(doc, qid) = {qid}
<1> DEFINE offered == UNION {OfferedQids(docs[i], qid) : i \in DOMAIN docs}
           Stating(q) == {i \in DOMAIN docs : /\ q \in OfferedQids(docs[i], qid)
                                              /\ StatesLabel(docs[i], label)}
<1>1. qid \in offered /\ \A q \in offered \ {qid} : Cardinality(Stating(q)) < Cardinality(Stating(qid))
  BY DEF HubQid
<1>2. 1 \in DOMAIN docs
  OBVIOUS
<1>3. offered = OfferedQids(doc, qid)
  BY <1>2
<1>4. ASSUME NEW q \in OfferedQids(doc, qid), q # qid PROVE FALSE
  <2>1. Cardinality(Stating(q)) < Cardinality(Stating(qid))
    BY <1>1, <1>3, <1>4
  <2>2. qid \in OfferedQids(doc, qid)
    BY <1>1, <1>3
  <2>3. Stating(q) = Stating(qid)
    BY <1>4, <2>2
  <2>4. Cardinality(Stating(q)) \in Nat
    <3>1. IsFiniteSet(1 .. n) /\ Stating(q) \subseteq 1 .. n
      BY FS_Interval
    <3> HIDE DEF Stating
    <3>2. QED
      BY <3>1, FS_Subset, FS_CardinalityType
  <2> HIDE DEF Stating
  <2>5. QED
    BY <2>1, <2>3, <2>4
<1>5. QED
  BY <1>1, <1>3, <1>4

\* A QID is settled by the facts that stand behind it: if all are of one document, that
\* document states no other.
Settles(evidence, qid, docs) ==
    \A doc \in Range(docs) :
        (\A id \in evidence : id[1] = doc.id) => OfferedQids(doc, qid) = {qid}

\* The group a candidate makes says no more than its facts and their documents do.
LEMMA GroupIsFounded ==
    ASSUME NEW hub \in CandidateHub, ~Refused(hub), NEW new \in Seq(Fact), IdsDiffer(new),
           NEW batch \in Seq(Document),
           \A d, e \in Range(batch) : d.id = e.id => d = e,
           \A fact \in Range(new) :
              fact.id[1] = fact.doc /\ \E doc \in Range(batch) : doc.id = fact.doc,
           NEW evidence \in Seq(Ids(new)), evidence # <<>>
    PROVE  /\ GroupOf(hub, evidence, batch, new) \in Group
           /\ GroupOf(hub, evidence, batch, new).key = Slug(LabelOf(hub))
           /\ GroupOf(hub, evidence, batch, new).types # <<>>
           /\ GroupOf(hub, evidence, batch, new).labels = <<LabelOf(hub)>>
           /\ GroupOf(hub, evidence, batch, new).evidence = Range(evidence)
           /\ \A q \in Range(GroupOf(hub, evidence, batch, new).qids) :
                 Settles(Range(evidence), q, batch)
<1> DEFINE docs == [i \in DOMAIN evidence |-> DocOf(FactOf(evidence[i], new), batch)]
           qid == IF hub.qid = Nothing THEN Nothing ELSE HubQid(hub.qid, LabelOf(hub), docs)
           g == GroupOf(hub, evidence, batch, new)
           type == IF hub.field THEN "topic" ELSE hub.type
           qids == IF qid = Nothing THEN <<>> ELSE <<qid>>
           ages == {RecencyFor(docs[i].days) : i \in DOMAIN docs}
<1>1. g = [key |-> Slug(LabelOf(hub)), types |-> <<type>>, labels |-> <<LabelOf(hub)>>,
           qids |-> qids, evidence |-> Range(evidence), recency |-> Greatest(ages),
           field |-> hub.field]
  BY DEF GroupOf
<1>2. Len(evidence) \in Nat \ {0} /\ DOMAIN evidence = 1 .. Len(evidence)
  OBVIOUS
<1>3. ASSUME NEW i \in DOMAIN evidence
      PROVE  /\ docs[i] \in Range(batch) /\ docs[i].id = evidence[i][1]
             /\ evidence[i] \in STRING \X Nat
  <2>1. evidence[i] \in Ids(new)
    OBVIOUS
  <2>2. PICK k \in DOMAIN new : new[k].id = evidence[i]
    BY <2>1 DEF Ids
  <2>3. FactOf(evidence[i], new) = new[k]
    BY <2>2 DEF FactOf, IdsDiffer
  <2>4. new[k] \in Fact /\ new[k] \in Range(new)
    BY DEF Range
  <2>5. PICK doc \in Range(batch) : doc.id = new[k].doc
    BY <2>4
  <2>6. DocOf(new[k], batch) = doc
    BY <2>5 DEF DocOf
  <2>7. docs[i] = doc
    BY <2>3, <2>6
  <2>8. new[k].id[1] = new[k].doc /\ new[k].id \in STRING \X Nat
    BY <2>4 DEF Fact
  <2>9. QED
    BY <2>2, <2>5, <2>7, <2>8
<1>4. \A i \in DOMAIN evidence : docs[i] \in Document
  <2>1. \A doc \in Range(batch) : doc \in Document
    BY DEF Range
  <2>2. QED
    BY <1>3, <2>1
<1>5. DOMAIN docs = DOMAIN evidence
  OBVIOUS
<1> HIDE DEF docs
<1>6. Greatest(ages) \in Recency
  <2>1. ages # {} /\ \A age \in ages : age \in Recency
    <3>1. \A i \in DOMAIN docs : RecencyFor(docs[i].days) \in Recency
      BY <1>4, <1>5, RecencyIsOne DEF Document
    <3>2. 1 \in DOMAIN docs
      BY <1>2, <1>5
    <3>3. QED
      BY <3>1, <3>2
  <2> HIDE DEF ages
  <2>2. QED
    BY <2>1, GreatestIsOne
<1>7. /\ hub.qid \in {Nothing} \cup Seq(Nat) /\ hub.type \in HubType /\ hub.field \in BOOLEAN
  BY DEF CandidateHub
<1>8. type \in HubType
  BY <1>7 DEF HubType
<1>9. qid = Nothing \/ (qid = hub.qid /\ hub.qid # Nothing)
  BY DEF HubQid
<1>10. qids \in Seq(Seq(Nat)) /\ \A q \in Range(qids) : q = qid /\ qid # Nothing
  <2>1. CASE qid = Nothing
    BY <2>1 DEF Range
  <2>2. CASE qid # Nothing
    <3>1. qid \in Seq(Nat) /\ qids = <<qid>>
      BY <1>7, <1>9, <2>2
    <3> HIDE DEF qid, qids
    <3>2. QED
      BY <2>2, <3>1 DEF Range
  <2>3. QED
    BY <2>1, <2>2
<1>11. Range(evidence) \subseteq STRING \X Nat
  BY <1>3 DEF Range
<1>12. ASSUME NEW q \in Range(qids) PROVE Settles(Range(evidence), q, batch)
  <2>1. /\ q = hub.qid /\ hub.qid # Nothing
        /\ HubQid(hub.qid, LabelOf(hub), docs) = hub.qid
    BY <1>9, <1>10
  <2>2. ASSUME NEW doc \in Range(batch), \A id \in Range(evidence) : id[1] = doc.id
        PROVE  OfferedQids(doc, q) = {q}
    <3>1. ASSUME NEW i \in DOMAIN docs PROVE docs[i] = doc
      <4>1. evidence[i] \in Range(evidence)
        BY <1>5 DEF Range
      <4>2. docs[i].id = doc.id /\ docs[i] \in Range(batch)
        BY <1>3, <1>5, <2>2, <4>1
      <4>3. QED
        BY <4>2
    <3>2. QED
      BY <1>2, <1>5, <2>1, <3>1, OneDocumentSettles
  <2>3. QED
    BY <2>2 DEF Settles
<1>13. LabelOf(hub) \in Words
  BY LabelIsWords
<1> DEFINE label == LabelOf(hub)
           key == Slug(label)
           greatest == Greatest(ages)
<1>14. /\ key \in {Slug(l) : l \in Words} /\ <<type>> \in Seq(HubType) /\ <<label>> \in Seq(Words)
       /\ greatest \in Recency
  <2>1. key \in {Slug(l) : l \in Words} /\ greatest \in Recency /\ label \in Words
    BY <1>6, <1>13
  <2> HIDE DEF type, label, key, greatest
  <2>2. QED
    BY <1>8, <2>1
<1>15. g = [key |-> key, types |-> <<type>>, labels |-> <<label>>, qids |-> qids,
            evidence |-> Range(evidence), recency |-> greatest, field |-> hub.field]
  BY <1>1
<1> HIDE DEF g, key, type, label, greatest, qids, ages, qid
<1>16. g \in Group
  BY <1>7, <1>10, <1>11, <1>14, <1>15 DEF Group
<1>17. QED
  <2>1. <<type>> # <<>>
    OBVIOUS
  <2>2. /\ g.key = key /\ g.types = <<type>> /\ g.labels = <<label>> /\ g.qids = qids
        /\ g.evidence = Range(evidence)
    BY <1>15
  <2>3. QED
    BY <1>12, <1>16, <2>1, <2>2 DEF g, key, label

LEMMA PooledIsGroup ==
    ASSUME NEW g \in Group, NEW h \in Group
    PROVE  /\ Pooled(g, h) \in Group /\ Pooled(g, h).key = g.key
           /\ Range(Pooled(g, h).types) = Range(g.types) \cup Range(h.types)
           /\ Range(Pooled(g, h).labels) = Range(g.labels) \cup Range(h.labels)
           /\ Range(Pooled(g, h).qids) = Range(g.qids) \cup Range(h.qids)
           /\ Pooled(g, h).evidence = g.evidence \cup h.evidence
<1> DEFINE types == g.types \o h.types
           labels == g.labels \o h.labels
           qids == g.qids \o h.qids
           evidence == g.evidence \cup h.evidence
           recency == Greatest({g.recency, h.recency})
           field == g.field \/ h.field
<1>1. Pooled(g, h) = [key |-> g.key, types |-> types, labels |-> labels, qids |-> qids,
                      evidence |-> evidence, recency |-> recency, field |-> field]
  BY DEF Pooled
<1>2. /\ g.key \in {Slug(label) : label \in Words}
      /\ g.types \in Seq(HubType) /\ h.types \in Seq(HubType)
      /\ g.labels \in Seq(Words) /\ h.labels \in Seq(Words)
      /\ g.qids \in Seq(Seq(Nat)) /\ h.qids \in Seq(Seq(Nat))
      /\ g.evidence \subseteq STRING \X Nat /\ h.evidence \subseteq STRING \X Nat
      /\ g.recency \in Recency /\ h.recency \in Recency
      /\ g.field \in BOOLEAN /\ h.field \in BOOLEAN
  BY DEF Group
<1>3. /\ types \in Seq(HubType) /\ ToSet(types) = ToSet(g.types) \cup ToSet(h.types)
      /\ labels \in Seq(Words) /\ ToSet(labels) = ToSet(g.labels) \cup ToSet(h.labels)
      /\ qids \in Seq(Seq(Nat)) /\ ToSet(qids) = ToSet(g.qids) \cup ToSet(h.qids)
  BY <1>2, ConcatIsAll
<1>4. recency \in Recency
  <2>1. {g.recency, h.recency} \in SUBSET Recency /\ {g.recency, h.recency} # {}
    BY <1>2
  <2>2. QED
    BY <2>1, GreatestIsOne
<1>5. evidence \subseteq STRING \X Nat
  BY <1>2
<1>5b. field \in BOOLEAN
  OBVIOUS
<1>6. \A s : Range(s) = ToSet(s)
  BY DEF Range, ToSet
<1> HIDE DEF types, labels, qids, evidence, recency, field
<1>7. Pooled(g, h) \in Group
  BY <1>1, <1>2, <1>3, <1>4, <1>5, <1>5b DEF Group
<1>8. QED
  BY <1>1, <1>3, <1>6, <1>7 DEF evidence

InBatch(doc_id, n, docs) == \E doc \in Range(BatchOf(docs, n)) : doc.id = doc_id
Siblings(n, made, docs) == {fact \in Range(made) : InBatch(fact.doc, n, docs)}
Known(n, made, docs) == {fact \in Range(made) : \E m \in 1 .. n : InBatch(fact.doc, m, docs)}

\* The fact with this id stands behind a hub of this name in the answer to its own batch.
Backed(id, key, docs, given, made) ==
    \E n \in DOMAIN given :
        /\ given[n] # Failed
        /\ \E fact \in Siblings(n, made, docs), hub \in Range(given[n].hubs) :
              /\ fact.id = id /\ Slug(LabelOf(hub)) = key
              /\ StandsBehind(fact, hub, Siblings(n, made, docs), Known(n, made, docs))

\* The groups whose every label, fact and QID the answers and the documents account for.
Sound(docs, given, made) ==
    {g \in Group :
        /\ g.types # <<>> /\ g.labels # <<>>
        /\ \A label \in Range(g.labels) : Slug(label) = g.key
        /\ \A id \in g.evidence : Backed(id, g.key, docs, given, made)
        /\ \A q \in Range(g.qids) : Settles(g.evidence, q, docs)}

LEMMA PooledIsSound ==
    ASSUME NEW docs, NEW given, NEW made,
           NEW g \in Sound(docs, given, made), NEW h \in Sound(docs, given, made), g.key = h.key
    PROVE  Pooled(g, h) \in Sound(docs, given, made)
<1> DEFINE p == Pooled(g, h)
<1>1. g \in Group /\ h \in Group
  BY DEF Sound
<1>2. /\ p \in Group /\ p.key = g.key /\ Range(p.types) = Range(g.types) \cup Range(h.types)
      /\ Range(p.labels) = Range(g.labels) \cup Range(h.labels)
      /\ Range(p.qids) = Range(g.qids) \cup Range(h.qids)
      /\ p.evidence = g.evidence \cup h.evidence
  BY <1>1, PooledIsGroup
<1> HIDE DEF p
<1>3. p.types # <<>> /\ p.labels # <<>>
  <2>1. g.types # <<>> /\ g.labels # <<>> /\ g.types \in Seq(HubType) /\ g.labels \in Seq(Words)
    BY <1>1 DEF Sound, Group
  <2>2. Range(g.types) # {} /\ Range(g.labels) # {}
    <3>1. 1 \in DOMAIN g.types /\ 1 \in DOMAIN g.labels
      BY <2>1
    <3>2. QED
      BY <3>1 DEF Range
  <2>3. Range(<<>>) = {}
    BY DEF Range
  <2>4. QED
    BY <1>2, <2>2, <2>3
<1>4. \A label \in Range(p.labels) : Slug(label) = p.key
  BY <1>2 DEF Sound
<1>5. \A id \in p.evidence : Backed(id, p.key, docs, given, made)
  BY <1>2 DEF Sound
<1>6. \A q \in Range(p.qids) : Settles(p.evidence, q, docs)
  BY <1>2 DEF Sound, Settles
<1>7. QED
  BY <1>2, <1>3, <1>4, <1>5, <1>6 DEF p, Sound

\* One candidate hub more.
HubTaken(sofar, hub, new, batch, names) ==
    LET evidence == Evidence(hub, new, batch, names)
    IN  IF Refused(hub) \/ evidence = <<>> THEN sofar
        ELSE AddGroup(sofar, GroupOf(hub, evidence, batch, new))

LEMMA AddedAreSound ==
    ASSUME NEW docs, NEW given, NEW made, NEW group \in Sound(docs, given, made),
           NEW groups \in Seq(Sound(docs, given, made))
    PROVE  AddGroup(groups, group) \in Seq(Sound(docs, given, made))
<1> DEFINE S == Sound(docs, given, made)
<1>1. CASE \E i \in DOMAIN groups : groups[i].key = group.key
  <2> DEFINE pooled == [i \in DOMAIN groups |->
                          IF groups[i].key = group.key THEN Pooled(groups[i], group)
                          ELSE groups[i]]
  <2>1. AddGroup(groups, group) = pooled
    BY <1>1 DEF AddGroup
  <2>2. DOMAIN groups = 1 .. Len(groups) /\ Len(groups) \in Nat
    OBVIOUS
  <2>3. \A i \in DOMAIN groups : groups[i] \in S
    OBVIOUS
  <2>4. \A i \in DOMAIN groups : pooled[i] \in S
    BY <2>3, PooledIsSound
  <2> HIDE DEF S
  <2>5. pooled \in [1 .. Len(groups) -> S]
    BY <2>2, <2>4
  <2> HIDE DEF pooled
  <2>6. pooled \in Seq(S)
    BY <2>2, <2>5
  <2>7. QED
    BY <2>1, <2>6 DEF S
<1>2. CASE ~(\E i \in DOMAIN groups : groups[i].key = group.key)
  <2>1. AddGroup(groups, group) = Append(groups, group)
    BY <1>2 DEF AddGroup
  <2> HIDE DEF S
  <2>2. \A T : \A s \in Seq(T), t \in T : Append(s, t) \in Seq(T)
    OBVIOUS
  <2>3. QED
    BY <2>1, <2>2
<1>3. QED
  BY <1>1, <1>2

\* Taking a candidate of the list stays within A.
TakesWithin(A, list, new, batch, names) ==
    \A a \in A, hub \in Range(list) : HubTaken(a, hub, new, batch, names) \in A

\* The groups after each candidate of the list.
TakesEach(run, A, groups, list, new, batch, names) ==
    /\ run \in [0 .. Len(list) -> A] /\ run[0] = groups
    /\ \A i \in 1 .. Len(list) : run[i] = HubTaken(run[i - 1], list[i], new, batch, names)

LEMMA HubsAreRun ==
    ASSUME NEW A, NEW groups \in A, NEW new, NEW batch, NEW answer, NEW reserved,
           answer.hubs \in Seq(CandidateHub),
           TakesWithin(A, answer.hubs, new, batch, IdMap(new, reserved))
    PROVE  \E run : /\ TakesEach(run, A, groups, answer.hubs, new, batch, IdMap(new, reserved))
                    /\ run[Len(answer.hubs)] = CollectHubs(groups, new, batch, answer, reserved)
<1> DEFINE names == IdMap(new, reserved)
           s == answer.hubs
           n == Len(s)
           step == [c \in (1 .. n) \X A |-> HubTaken(c[2], s[c[1]], new, batch, names)]
           Folds(g) == g = [t \in SUBSET DOMAIN s |->
                              IF t = {} THEN groups
                              ELSE HubTaken(g[t \ {Max(t)}], s[Max(t)], new, batch, names)]
           fold == CHOOSE g : Folds(g)
<1>1. CollectHubs(groups, new, batch, answer, reserved) = fold[DOMAIN s]
  BY DEF CollectHubs, FoldLeft, MapThenFoldSet, HubTaken
<1>2. n \in Nat /\ DOMAIN s = 1 .. n
  OBVIOUS
<1>3. \A i \in 1 .. n : s[i] \in Range(answer.hubs)
  BY <1>2 DEF Range
<1>5. \A a \in A, i \in 1 .. n : HubTaken(a, s[i], new, batch, names) \in A
  BY <1>3 DEF TakesWithin
<1> HIDE DEF n, names
<1>6. /\ step \in [(1 .. n) \X A -> A]
      /\ \A i \in 1 .. n : \A a \in A :
           step[<<i, a>>] = HubTaken(a, s[i], new, batch, names)
  BY <1>5
<1> HIDE DEF step
<1>7. \E g : Folds(g)
  <2>1. PICK g : Solves(g, n, A, groups, step)
    BY <1>2, <1>6, FoldSolves
  <2>2. Folds(g)
    BY <1>2, <1>6, <2>1 DEF Solves
  <2>3. QED
    BY <2>2
<1>8. Folds(fold)
  BY <1>7
<1> HIDE DEF fold
<1>9. Follows(fold, n, A, groups, step)
  <2>1. \A t \in SUBSET (1 .. n) : t # {} => Max(t) \in 1 .. n
    BY <1>2, MaxIsLast DEF IsLast
  <2>2. QED
    BY <1>2, <1>6, <1>8, <2>1 DEF Follows
<1>10. Steps(fold, n, A, groups, step)
  BY <1>2, <1>6, <1>9, FoldSteps
<1> DEFINE run == [i \in 0 .. n |-> fold[1 .. i]]
<1>11. run \in [0 .. n -> A] /\ run[0] = groups
  BY <1>2, <1>10 DEF Steps
<1>12. ASSUME NEW i \in 1 .. n PROVE run[i] = HubTaken(run[i - 1], s[i], new, batch, names)
  <2>1. i \in 0 .. n /\ i - 1 \in 0 .. n
    BY <1>2
  <2>2. fold[1 .. (i - 1)] \in A /\ fold[1 .. i] = step[<<i, fold[1 .. (i - 1)]>>]
    BY <1>10, <2>1 DEF Steps
  <2>3. QED
    BY <1>6, <2>1, <2>2
<1>13. run[n] = CollectHubs(groups, new, batch, answer, reserved)
  <2>1. n \in 0 .. n
    BY <1>2
  <2>2. QED
    BY <1>1, <1>2, <2>1
<1> HIDE DEF run
<1>14. QED
  BY <1>11, <1>12, <1>13 DEF TakesEach, n, names

\* What a candidate of the answer comes to is founded.
Founds(answer, new, batch, reserved, docs, given, made) ==
    \A hub \in Range(answer.hubs) :
        LET evidence == Evidence(hub, new, batch, IdMap(new, reserved))
        IN  ~Refused(hub) /\ evidence # <<>> =>
              GroupOf(hub, evidence, batch, new) \in Sound(docs, given, made)

LEMMA CollectedHubsAreSound ==
    ASSUME NEW docs, NEW given, NEW made, NEW groups \in Seq(Sound(docs, given, made)),
           NEW new, NEW batch, NEW answer \in Answer, NEW reserved,
           Founds(answer, new, batch, reserved, docs, given, made)
    PROVE  CollectHubs(groups, new, batch, answer, reserved) \in Seq(Sound(docs, given, made))
<1> DEFINE names == IdMap(new, reserved)
           A == Seq(Sound(docs, given, made))
<1>1. answer.hubs \in Seq(CandidateHub)
  BY DossierAssumption DEF ExtractionResult
<1>2. groups \in A /\ TakesWithin(A, answer.hubs, new, batch, names)
  BY AddedAreSound DEF Founds, TakesWithin, HubTaken
<1> HIDE DEF A, names
<1>3. PICK run : /\ TakesEach(run, A, groups, answer.hubs, new, batch, names)
                 /\ run[Len(answer.hubs)] = CollectHubs(groups, new, batch, answer, reserved)
  BY <1>1, <1>2, HubsAreRun DEF names
<1>4. Len(answer.hubs) \in 0 .. Len(answer.hubs)
  BY <1>1
<1>5. QED
  BY <1>3, <1>4 DEF TakesEach, A

\* What the answers account for they go on accounting for, while their batches' facts stay.
LEMMA StaysSound ==
    ASSUME NEW docs, NEW given, NEW later, NEW made, NEW more,
           \A n \in DOMAIN given :
              /\ n \in DOMAIN later /\ later[n] = given[n]
              /\ Siblings(n, more, docs) = Siblings(n, made, docs)
              /\ Known(n, more, docs) = Known(n, made, docs)
    PROVE  Sound(docs, given, made) \subseteq Sound(docs, later, more)
<1>1. ASSUME NEW id, NEW key, Backed(id, key, docs, given, made)
      PROVE  Backed(id, key, docs, later, more)
  BY <1>1 DEF Backed
<1>2. QED
  BY <1>1 DEF Sound

\* The facts of one batch are those its answer was turned into; an answer's candidates are
\* founded on them, and the groups before it stay founded.
LEMMA CandidatesAreSound ==
    ASSUME NEW docs, Listed(docs), NEW given \in Seq(Answer \cup {Failed}),
           NEW answer \in Answer, NEW made \in Seq(Rooted(docs, given)),
           NEW more \in Seq(Rooted(docs, Append(given, answer))), Numbered(more),
           Extends(more, made, BatchOf(docs, Len(given) + 1)),
           NEW groups \in Seq(Sound(docs, given, made))
    PROVE  /\ groups \in Seq(Sound(docs, Append(given, answer), more))
           /\ Founds(answer, SubSeq(more, Len(made) + 1, Len(more)),
                     BatchOf(docs, Len(given) + 1), Ids(made), docs, Append(given, answer), more)
<1> DEFINE later == Append(given, answer)
           last == Len(given) + 1
           batch == BatchOf(docs, last)
           new == SubSeq(more, Len(made) + 1, Len(more))
<1>1. /\ Len(given) \in Nat /\ last \in Nat \ {0} /\ DOMAIN given = 1 .. Len(given)
      /\ DOMAIN later = 1 .. last /\ later[last] = answer
      /\ \A n \in DOMAIN given : n \in DOMAIN later /\ later[n] = given[n]
      /\ \A n \in 1 .. last : n \in DOMAIN given \/ n = last
      /\ last \notin DOMAIN given
  OBVIOUS
<1>2. batch \in Seq(Document) /\ \A n \in Nat \ {0} : \A doc \in Range(BatchOf(docs, n)) : doc \in Range(docs)
  <2>1. ASSUME NEW n \in Nat \ {0}, NEW doc \in Range(BatchOf(docs, n)) PROVE doc \in Range(docs)
    <3>1. PICK i \in DOMAIN BatchOf(docs, n) : BatchOf(docs, n)[i] = doc
      BY DEF Range
    <3>2. PICK k \in DOMAIN docs : docs[k] = doc
      BY <3>1, BatchIsStretch DEF Listed
    <3>3. QED
      BY <3>2 DEF Range
  <2>2. batch \in Seq(Document)
    BY <1>1, BatchIsStretch DEF Listed
  <2>3. QED
    BY <2>1, <2>2
<1>3. \A d, e \in Range(docs) : d.id = e.id => d = e
  BY DEF Listed, Range
<1>4. ASSUME NEW id, NEW n \in Nat \ {0}, NEW m \in Nat \ {0}, InBatch(id, n, docs), InBatch(id, m, docs)
      PROVE  n = m
  <2>1. PICK d \in Range(BatchOf(docs, n)) : d.id = id
    BY <1>4 DEF InBatch
  <2>2. PICK e \in Range(BatchOf(docs, m)) : e.id = id
    BY <1>4 DEF InBatch
  <2>3. PICK i \in DOMAIN BatchOf(docs, n) : BatchOf(docs, n)[i] = d
    BY DEF Range
  <2>4. PICK j \in DOMAIN BatchOf(docs, m) : BatchOf(docs, m)[j] = e
    BY DEF Range
  <2>5. QED
    BY <2>1, <2>2, <2>3, <2>4, OneBatchEach
<1>5. \A fact \in Range(made) : \E n \in DOMAIN given : InBatch(fact.doc, n, docs)
  <2>1. \A fact \in Range(made) : fact \in Rooted(docs, given)
    BY DEF Range
  <2>2. QED
    BY <2>1 DEF Rooted, RootedIn, InBatch
<1>6. /\ \A fact \in Range(made) : fact \in Range(more)
      /\ \A fact \in Range(more) : fact \in Range(made) \/ InBatch(fact.doc, last, docs)
  BY DEF Extends, Range, InBatch
<1>7. /\ Len(made) \in Nat /\ Len(more) \in Nat /\ DOMAIN made = 1 .. Len(made)
      /\ DOMAIN more = 1 .. Len(more) /\ Len(made) <= Len(more)
      /\ \A i \in DOMAIN made : more[i] = made[i]
      /\ \A i \in DOMAIN more \ DOMAIN made : InBatch(more[i].doc, last, docs)
  <2>1. /\ Len(made) \in Nat /\ Len(more) \in Nat /\ DOMAIN made = 1 .. Len(made)
        /\ DOMAIN more = 1 .. Len(more)
    OBVIOUS
  <2>2. Len(made) <= Len(more)
    <3>1. Len(made) = 0 \/ Len(made) \in DOMAIN made
      BY <2>1
    <3>2. Len(made) = 0 \/ Len(made) \in DOMAIN more
      BY <3>1 DEF Extends
    <3>3. QED
      BY <2>1, <3>2
  <2>3. QED
    BY <2>1, <2>2 DEF Extends, InBatch
<1>8. \A fact \in Range(more) : fact \in Fact
  <2>1. \A fact \in Range(more) : fact \in Rooted(docs, later)
    BY DEF Range
  <2>2. QED
    BY <2>1 DEF Rooted
<1>9. new \in Seq(Fact) /\ Range(new) = {more[i] : i \in DOMAIN more \ DOMAIN made}
  <2>1. new = [i \in 1 .. (Len(more) - Len(made)) |-> more[i + Len(made)]]
    BY <1>7
  <2>2. \A i \in DOMAIN more : more[i] \in Fact
    BY <1>8 DEF Range
  <2>3. Len(more) - Len(made) \in Nat
    BY <1>7
  <2>4. \A i \in 1 .. (Len(more) - Len(made)) : i + Len(made) \in DOMAIN more \ DOMAIN made
    BY <1>7
  <2>5. new \in [1 .. (Len(more) - Len(made)) -> Fact]
    BY <2>1, <2>2, <2>4
  <2>6. new \in Seq(Fact)
    <3> DEFINE size == Len(more) - Len(made)
    <3>1. size \in Nat /\ new \in [1 .. size -> Fact]
      BY <2>3, <2>5
    <3> HIDE DEF new, size
    <3>2. QED
      BY <3>1
  <2>7. \A i \in DOMAIN more \ DOMAIN made :
           /\ i - Len(made) \in 1 .. (Len(more) - Len(made)) /\ (i - Len(made)) + Len(made) = i
    BY <1>7
  <2>8. Range(new) = {new[i] : i \in 1 .. (Len(more) - Len(made))}
    BY <2>1 DEF Range
  <2>9. \A i \in 1 .. (Len(more) - Len(made)) : new[i] = more[i + Len(made)]
    BY <2>1
  <2> HIDE DEF new
  <2>10. ASSUME NEW x \in Range(new) PROVE x \in {more[i] : i \in DOMAIN more \ DOMAIN made}
    BY <2>4, <2>8, <2>9
  <2>11. ASSUME NEW i \in DOMAIN more \ DOMAIN made PROVE more[i] \in Range(new)
    BY <2>7, <2>8, <2>9
  <2>12. QED
    BY <2>6, <2>10, <2>11
<1>10. \A fact \in Range(new) : fact \in Range(more) /\ InBatch(fact.doc, last, docs)
  BY <1>7, <1>9 DEF Range
<1>11. \A fact \in Range(more) : InBatch(fact.doc, last, docs) => fact \in Range(new)
  <2> SUFFICES ASSUME NEW i \in DOMAIN more, InBatch(more[i].doc, last, docs)
               PROVE  more[i] \in Range(new)
    BY DEF Range
  <2>1. CASE i \in DOMAIN made
    <3>1. made[i] \in Range(made) /\ more[i] = made[i]
      BY <1>7, <2>1 DEF Range
    <3>2. PICK n \in DOMAIN given : InBatch(made[i].doc, n, docs)
      BY <1>5, <3>1
    <3>3. n = last
      BY <1>1, <1>4, <3>1, <3>2
    <3>4. QED
      BY <1>1, <3>3
  <2>2. CASE i \notin DOMAIN made
    BY <1>9, <2>2
  <2>3. QED
    BY <2>1, <2>2
<1> HIDE DEF new, later, last, batch
<1>12. Siblings(last, more, docs) = Range(new)
  BY <1>10, <1>11 DEF Siblings
<1>13. Known(last, more, docs) = Range(more)
  BY <1>1, <1>5, <1>6 DEF Known
<1>14. ASSUME NEW n \in DOMAIN given
       PROVE  /\ Siblings(n, more, docs) = Siblings(n, made, docs)
              /\ Known(n, more, docs) = Known(n, made, docs)
  <2>1. ASSUME NEW m \in 1 .. n, NEW fact \in Range(more), InBatch(fact.doc, m, docs)
        PROVE  fact \in Range(made)
    <3>1. m \in Nat \ {0} /\ m # last
      BY <1>1
    <3>2. ~InBatch(fact.doc, last, docs)
      BY <1>1, <1>4, <2>1, <3>1
    <3>3. QED
      BY <1>6, <3>2
  <2>2. n \in 1 .. n
    BY <1>1
  <2>3. QED
    BY <1>6, <2>1, <2>2 DEF Siblings, Known
<1>15. groups \in Seq(Sound(docs, later, more))
  <2>1. Sound(docs, given, made) \subseteq Sound(docs, later, more)
    BY <1>1, <1>14, StaysSound
  <2>2. QED
    BY <2>1
<1>16. IdsDiffer(more) /\ IdsDiffer(new)
  <2>1. IdsDiffer(more)
    BY NumbersDiffer DEF IdsDiffer
  <2>2. new = [i \in 1 .. (Len(more) - Len(made)) |-> more[i + Len(made)]]
    BY <1>7 DEF new
  <2>3. \A i \in 1 .. (Len(more) - Len(made)) : i \in Int /\ i + Len(made) \in DOMAIN more
    BY <1>7
  <2>4. \A i, j \in 1 .. (Len(more) - Len(made)) : i + Len(made) = j + Len(made) => i = j
    BY <1>7
  <2>5. QED
    BY <2>1, <2>2, <2>3, <2>4 DEF IdsDiffer
<1>17. /\ {fact.id : fact \in Range(more)} = Ids(made) \cup Ids(new)
       /\ Range(new) \subseteq Range(more)
  <2>1. /\ Ids(made) = {fact.id : fact \in Range(made)}
        /\ Ids(new) = {fact.id : fact \in Range(new)}
    BY DEF Ids, Range
  <2>2. Range(more) = Range(made) \cup Range(new)
    BY <1>6, <1>10, <1>11
  <2>3. QED
    BY <2>1, <2>2
<1>18. \A fact \in Range(more) : fact.id[1] = fact.doc
  BY DEF Numbered, Range
<1>19. ASSUME NEW hub \in Range(answer.hubs), ~Refused(hub),
              Evidence(hub, new, batch, IdMap(new, Ids(made))) # <<>>
       PROVE  GroupOf(hub, Evidence(hub, new, batch, IdMap(new, Ids(made))), batch, new)
                \in Sound(docs, later, more)
  <2> DEFINE evidence == Evidence(hub, new, batch, IdMap(new, Ids(made)))
             g == GroupOf(hub, evidence, batch, new)
  <2>1. hub \in CandidateHub /\ answer # Failed
    <3>1. answer \in ExtractionResult /\ answer # Failed
      BY DossierAssumption
    <3>2. answer.hubs \in Seq(CandidateHub)
      BY <3>1 DEF ExtractionResult
    <3>3. QED
      BY <3>1, <3>2 DEF Range
  <2>2. /\ evidence \in Seq(Ids(new)) /\ evidence # <<>>
        /\ \A i \in DOMAIN evidence : \E fact \in Range(new) :
              evidence[i] = fact.id /\ StandsBehind(fact, hub, Range(new), Range(more))
    <3> DEFINE known == Range(more)
               reserved == Ids(made)
    <3>1. Reserves(known, new, reserved)
      BY <1>16, <1>17 DEF Reserves
    <3> HIDE DEF known, reserved
    <3>2. StandBehind(Evidence(hub, new, batch, IdMap(new, reserved)), hub, new, known)
      BY <1>9, <2>1, <3>1, EvidenceStands
    <3>3. QED
      BY <1>19, <3>2 DEF known, reserved, StandBehind
  <2> HIDE DEF evidence
  <2>3. \A d, e \in Range(batch) : d.id = e.id => d = e
    BY <1>1, <1>2, <1>3 DEF batch
  <2>4. \A fact \in Range(new) :
           fact.id[1] = fact.doc /\ \E doc \in Range(batch) : doc.id = fact.doc
    BY <1>10, <1>18 DEF InBatch, batch
  <2>5. /\ g \in Group /\ g.key = Slug(LabelOf(hub)) /\ g.types # <<>>
        /\ g.labels = <<LabelOf(hub)>> /\ g.evidence = Range(evidence)
        /\ \A q \in Range(g.qids) : Settles(Range(evidence), q, batch)
    BY <1>2, <1>9, <1>16, <1>19, <2>1, <2>2, <2>3, <2>4, GroupIsFounded
  <2> HIDE DEF g
  <2>6. g.labels # <<>> /\ \A label \in Range(g.labels) : Slug(label) = g.key
    BY <2>5 DEF Range
  <2>7. ASSUME NEW id \in g.evidence PROVE Backed(id, g.key, docs, later, more)
    <3>1. PICK fact \in Range(new) :
             id = fact.id /\ StandsBehind(fact, hub, Range(new), Range(more))
      BY <2>2, <2>5 DEF Range
    <3>2. last \in DOMAIN later /\ later[last] = answer
      BY <1>1
    <3>3. QED
      BY <1>12, <1>13, <2>1, <2>5, <3>1, <3>2 DEF Backed
  <2>8. ASSUME NEW q \in Range(g.qids) PROVE Settles(g.evidence, q, docs)
    <3> SUFFICES ASSUME NEW doc \in Range(docs), \A id \in g.evidence : id[1] = doc.id
                 PROVE  OfferedQids(doc, q) = {q}
      BY DEF Settles
    <3>1. 1 \in DOMAIN evidence
      BY <2>2
    <3>2. evidence[1] \in g.evidence
      BY <2>5, <3>1 DEF Range
    <3>3. PICK fact \in Range(new) : evidence[1] = fact.id
      BY <2>2, <3>1
    <3>4. PICK own \in Range(batch) : own.id = fact.doc
      BY <2>4
    <3>5. own.id = doc.id /\ own \in Range(docs)
      BY <1>1, <1>2, <2>4, <3>2, <3>3, <3>4 DEF batch
    <3>6. doc \in Range(batch)
      BY <1>3, <3>4, <3>5
    <3>7. QED
      BY <2>5, <3>6 DEF Settles
  <2>9. QED
    BY <2>5, <2>6, <2>7, <2>8 DEF Sound, g, evidence
<1>20. Founds(answer, new, batch, Ids(made), docs, later, more)
  BY <1>19 DEF Founds
<1>21. QED
  BY <1>15, <1>20 DEF new, batch, last, later

\* What the hubs will be made of: groups the answers account for, places the roster states.
HubInv ==
    /\ CitationInv
    /\ extracted.groups \in Seq(Sound(subject.docs, answers, extracted.facts))
    /\ extracted.places \in Seq(Words)
    /\ \A i \in DOMAIN extracted.places :
          /\ extracted.places[i] # Nothing
          /\ Mentions(FlattenSeq(subject.details), extracted.places[i])

\* The answer that is taken in, and what its candidates are founded on.
Takes(answer) ==
    LET made == extracted.facts
        more == extracted'.facts
        batch == BatchOf(subject.docs, Len(answers) + 1)
    IN  /\ answers' = Append(answers, answer)
        /\ extracted' = IF answer = Failed THEN extracted
                        ELSE Collect(extracted, batch, answer, subject.details)
        /\ answer # Failed =>
              /\ extracted.groups \in Seq(Sound(subject.docs, answers', more))
              /\ Founds(answer, SubSeq(more, Len(made) + 1, Len(more)), batch, Ids(made),
                        subject.docs, answers', more)

LEMMA ExtractTakes ==
    ASSUME HubInv, Extract
    PROVE  /\ \E answer \in Answer \cup {Failed} : Takes(answer)
           /\ CitationInv' /\ subject' = subject
<1>1. PICK answer \in Answer \cup {Failed} :
         /\ answers' = Append(answers, answer)
         /\ extracted' = IF answer = Failed THEN extracted
                         ELSE Collect(extracted, Unread, answer, subject.details)
  BY DEF Extract
<1>2. CitationInv /\ CitationInv' /\ subject' = subject /\ subject \in Subject
  BY ExtractKeepsCitations DEF Extract, HubInv, CitationInv
<1> DEFINE docs == subject.docs
           last == Len(answers) + 1
           batch == BatchOf(docs, last)
           made == extracted.facts
<1>3. Listed(docs) /\ answers \in Seq(Answer \cup {Failed})
  BY <1>2, SubjectsAreListed DEF CitationInv
<1>4. /\ Len(answers) \in Nat /\ last \in Nat \ {0}
      /\ \A n \in DOMAIN answers : n \in DOMAIN answers' /\ answers'[n] = answers[n]
  BY <1>1, <1>3
<1>5. batch \in Seq(Document) /\ Unread = batch
  BY <1>3, <1>4, BatchIsStretch DEF Listed, Unread
<1>6. CASE answer = Failed
  BY <1>1, <1>2, <1>6 DEF Takes
<1>7. CASE answer # Failed
  <2> DEFINE more == CollectFacts(made, batch, answer)
             place == ConfirmedPlace(answer.based_in, subject.details)
  <2>1. /\ extracted'.facts = more
        /\ extracted'.groups = CollectHubs(extracted.groups,
                                 SubSeq(more, Len(made) + 1, Len(more)), batch, answer, Ids(made))
        /\ extracted'.places = IF place = Nothing THEN extracted.places
                               ELSE Append(extracted.places, place)
    BY <1>1, <1>5, <1>7 DEF Collect
  <2>2. answer \in Answer
    BY <1>7
  <2>3. made \in Seq(Rooted(docs, answers)) /\ Numbered(made) /\ made \in Seq(Fact)
    <3>1. made \in Seq(Rooted(docs, answers)) /\ Numbered(made)
      BY <1>2 DEF CitationInv
    <3>2. Rooted(docs, answers) \subseteq Fact
      BY DEF Rooted
    <3> HIDE DEF docs, made
    <3>3. QED
      BY <3>1, <3>2
  <2>4. Extends(more, made, batch)
    BY <1>5, <2>2, <2>3, CollectedAreRooted
  <2>5. more \in Seq(Rooted(docs, answers')) /\ Numbered(more)
    <3>1. extracted'.facts \in Seq(Rooted(docs, answers'))
      BY <1>2 DEF CitationInv
    <3>2. Numbered(more)
      BY <1>5, <2>2, <2>3, CollectedAreRooted
    <3>3. QED
      BY <2>1, <3>1, <3>2
  <2>6. extracted.groups \in Seq(Sound(docs, answers, made))
    BY DEF HubInv
  <2> HIDE DEF more, docs, made, place
  <2>7. /\ extracted.groups \in Seq(Sound(docs, answers', more))
        /\ Founds(answer, SubSeq(more, Len(made) + 1, Len(more)), batch, Ids(made), docs,
                  answers', more)
    <3> DEFINE given == answers
               groups == extracted.groups
    <3>1. /\ Listed(docs) /\ given \in Seq(Answer \cup {Failed}) /\ answer \in Answer
          /\ made \in Seq(Rooted(docs, given)) /\ groups \in Seq(Sound(docs, given, made))
      BY <1>3, <2>2, <2>3, <2>6
    <3>2. more \in Seq(Rooted(docs, Append(given, answer))) /\ Numbered(more)
      BY <1>1, <2>5
    <3>3. Extends(more, made, BatchOf(docs, Len(given) + 1))
      BY <2>4
    <3> HIDE DEF given, groups
    <3>4. /\ groups \in Seq(Sound(docs, Append(given, answer), more))
          /\ Founds(answer, SubSeq(more, Len(made) + 1, Len(more)),
                    BatchOf(docs, Len(given) + 1), Ids(made), docs, Append(given, answer), more)
      BY <3>1, <3>2, <3>3, CandidatesAreSound
    <3>5. QED
      BY <1>1, <3>4 DEF given, groups, batch, last
  <2>8. QED
    BY <1>1, <1>2, <1>5, <2>1, <2>7 DEF Takes, docs, made, batch, last
<1>8. QED
  BY <1>2, <1>6, <1>7

LEMMA ExtractKeepsHubs ==
    ASSUME HubInv, Extract
    PROVE  HubInv'
<1>1. PICK answer \in Answer \cup {Failed} : Takes(answer)
  BY ExtractTakes
<1>2. CitationInv' /\ subject' = subject
  BY ExtractTakes
<1> DEFINE docs == subject.docs
           batch == BatchOf(docs, Len(answers) + 1)
           made == extracted.facts
<1>3. /\ answers' = Append(answers, answer)
      /\ extracted' = IF answer = Failed THEN extracted
                      ELSE Collect(extracted, batch, answer, subject.details)
  BY <1>1 DEF Takes
<1>4. answers \in Seq(Answer \cup {Failed})
  BY DEF HubInv, CitationInv
<1>5. \A n \in DOMAIN answers : n \in DOMAIN answers' /\ answers'[n] = answers[n]
  BY <1>3, <1>4
<1>6. CASE answer = Failed
  <2>1. extracted' = extracted
    BY <1>3, <1>6
  <2>2. Sound(docs, answers, made) \subseteq Sound(docs, answers', made)
    BY <1>5, StaysSound
  <2>3. extracted.groups \in Seq(Sound(docs, answers', made))
    <3>1. extracted.groups \in Seq(Sound(docs, answers, made))
      BY DEF HubInv
    <3> HIDE DEF docs, made
    <3>2. QED
      BY <2>2, <3>1
  <2>4. QED
    BY <1>2, <2>1, <2>3 DEF HubInv
<1>7. CASE answer # Failed
  <2> DEFINE more == CollectFacts(made, batch, answer)
             new == SubSeq(more, Len(made) + 1, Len(more))
             place == ConfirmedPlace(answer.based_in, subject.details)
  <2>1. /\ extracted'.facts = more
        /\ extracted'.groups = CollectHubs(extracted.groups, new, batch, answer, Ids(made))
        /\ extracted'.places = IF place = Nothing THEN extracted.places
                               ELSE Append(extracted.places, place)
    BY <1>3, <1>7 DEF Collect
  <2>2. answer \in Answer
    BY <1>7
  <2>3. /\ extracted.groups \in Seq(Sound(docs, answers', more))
        /\ Founds(answer, new, batch, Ids(made), docs, answers', more)
    BY <1>1, <1>7, <2>1 DEF Takes
  <2> HIDE DEF more, docs, made, batch, new, place
  <2>4. extracted'.groups \in Seq(Sound(docs, answers', more))
    <3> DEFINE groups == extracted.groups
               later == answers'
               reserved == Ids(made)
    <3>1. groups \in Seq(Sound(docs, later, more)) /\ Founds(answer, new, batch, reserved, docs, later, more)
      BY <2>3
    <3> HIDE DEF groups, later, reserved
    <3>2. CollectHubs(groups, new, batch, answer, reserved) \in Seq(Sound(docs, later, more))
      BY <2>2, <3>1, CollectedHubsAreSound
    <3>3. QED
      BY <2>1, <3>2 DEF groups, later, reserved
  <2>5. /\ extracted'.places \in Seq(Words)
        /\ \A i \in DOMAIN extracted'.places :
              /\ extracted'.places[i] # Nothing
              /\ Mentions(FlattenSeq(subject.details), extracted'.places[i])
    <3>1. /\ extracted.places \in Seq(Words)
          /\ \A i \in DOMAIN extracted.places :
                /\ extracted.places[i] # Nothing
                /\ Mentions(FlattenSeq(subject.details), extracted.places[i])
      BY DEF HubInv
    <3>2. CASE place = Nothing
      BY <2>1, <3>1, <3>2
    <3>3. CASE place # Nothing
      <4>1. answer.based_in \in {Nothing} \cup Words
        BY <2>2, DossierAssumption DEF ExtractionResult
      <4>2. place = answer.based_in /\ Mentions(FlattenSeq(subject.details), place)
        BY <3>3 DEF place, ConfirmedPlace
      <4>3. place \in Words
        BY <3>3, <4>1, <4>2
      <4>4. extracted'.places = Append(extracted.places, place)
        BY <2>1, <3>3
      <4> DEFINE places == extracted.places
      <4>5. places \in Seq(Words)
        BY <3>1
      <4>6. /\ Append(places, place) \in Seq(Words)
            /\ \A i \in DOMAIN Append(places, place) :
                  \/ i \in DOMAIN places /\ Append(places, place)[i] = places[i]
                  \/ Append(places, place)[i] = place
        <5> HIDE DEF places
        <5>1. QED
          BY <4>3, <4>5
      <4>7. QED
        BY <3>1, <3>3, <4>2, <4>4, <4>6
    <3>4. QED
      BY <3>2, <3>3
  <2>6. QED
    BY <1>2, <2>1, <2>4, <2>5 DEF HubInv, docs
<1>8. QED
  BY <1>6, <1>7

LEMMA HubsHold == BuildSpec => []HubInv
<1>1. BuildInit => HubInv
  BY DEF BuildInit, HubInv, CitationInv, Empty, Numbered
<1>2. HubInv /\ [BuildNext]_buildVars => HubInv'
  <2> SUFFICES ASSUME HubInv, [BuildNext]_buildVars PROVE HubInv'
    OBVIOUS
  <2>1. CASE Extract
    BY <2>1, ExtractKeepsHubs
  <2>2. CASE UNCHANGED <<subject, answers, extracted>>
    <3>1. CitationInv'
      BY <2>2 DEF HubInv, CitationInv, Numbered, Earlier
    <3>2. QED
      BY <2>2, <3>1 DEF HubInv
  <2>3. QED
    BY <2>1, <2>2 DEF BuildNext, StartTaste, Classify, Assemble, pageVars, buildVars
<1>3. QED
  BY <1>1, <1>2, PTL DEF BuildSpec

\* A vote elects one of the values.
LEMMA MostCommonIsOne ==
    ASSUME NEW X, NEW values \in Seq(X), values # <<>>
    PROVE  MostCommon(values) \in Range(values)
<1> DEFINE n == Len(values)
           Places(v) == {i \in DOMAIN values : values[i] = v}
           counts == {Count(values, v) : v \in Range(values)}
<1>1. n \in Nat \ {0} /\ DOMAIN values = 1 .. n
  OBVIOUS
<1>2. ASSUME NEW v \in Range(values) PROVE Count(values, v) \in 1 .. n
  <2>1. PICK i \in DOMAIN values : values[i] = v
    BY DEF Range
  <2>2. Places(v) \in SUBSET (1 .. n) /\ IsFiniteSet(1 .. n) /\ Cardinality(1 .. n) = n
    <3>1. Places(v) \in SUBSET (1 .. n)
      BY <1>1
    <3> HIDE DEF n
    <3>2. 1 \in Int /\ n \in Int /\ ~(1 > n) /\ n - 1 + 1 = n
      BY <1>1
    <3>3. IsFiniteSet(1 .. n) /\ Cardinality(1 .. n) = n
      BY <3>2, FS_Interval
    <3>4. QED
      BY <3>1, <3>3
  <2>3. i \in Places(v)
    BY <2>1
  <2>4. Count(values, v) = Cardinality(Places(v))
    BY DEF Count
  <2> HIDE DEF Places, n
  <2>5. IsFiniteSet(Places(v)) /\ Cardinality(Places(v)) <= n /\ Cardinality(Places(v)) \in Nat
    BY <2>2, FS_Subset, FS_CardinalityType
  <2>6. Cardinality(Places(v)) # 0
    BY <2>3, <2>5, FS_EmptySet
  <2>7. QED
    BY <1>1, <2>4, <2>5, <2>6
<1>3. counts \in SUBSET (1 .. n) /\ counts # {}
  <2>1. values[1] \in Range(values)
    BY <1>1 DEF Range
  <2> HIDE DEF n
  <2>2. QED
    BY <1>2, <2>1
<1>4. Max(counts) \in counts /\ \A k \in counts : k <= Max(counts)
  <2> HIDE DEF counts, n
  <2>1. QED
    BY <1>1, <1>3, MaxIsLast DEF IsLast
<1>5. Commonest(values) # {}
  <2>1. PICK v \in Range(values) : Count(values, v) = Max(counts)
    BY <1>4
  <2>2. v \in Commonest(values)
    BY <1>4, <2>1 DEF Commonest
  <2>3. QED
    BY <2>2
<1>6. MostCommon(values) \in Commonest(values)
  BY <1>5 DEF MostCommon
<1>7. QED
  BY <1>6 DEF Commonest

LEMMA UnambiguousIsOne ==
    ASSUME NEW values, Unambiguous(values) # Nothing
    PROVE  Unambiguous(values) \in Range(values)
<1>1. Cardinality(Commonest(values)) = 1 /\ Unambiguous(values) = CHOOSE v \in Commonest(values) : TRUE
  BY DEF Unambiguous
<1>2. Commonest(values) # {}
  BY <1>1, FS_EmptySet
<1>3. Unambiguous(values) \in Commonest(values)
  BY <1>1, <1>2
<1>4. QED
  BY <1>3 DEF Commonest

\* What groups pooled together say was said by one of them.
Pools(mine) ==
    {p \in Group :
        /\ p.labels # <<>>
        /\ \A label \in Range(p.labels) : \E g \in mine : label \in Range(g.labels)
        /\ \A id \in p.evidence : \E g \in mine : id \in g.evidence
        /\ \E g \in mine : g.evidence \subseteq p.evidence}

LEMMA PoolIsPool ==
    ASSUME NEW mine, mine \subseteq Group, NEW p \in Pools(mine), NEW g \in mine
    PROVE  Pooled(p, g) \in Pools(mine)
<1> DEFINE q == Pooled(p, g)
<1>1. p \in Group /\ g \in Group
  BY DEF Pools
<1>2. /\ q \in Group /\ Range(q.labels) = Range(p.labels) \cup Range(g.labels)
      /\ q.evidence = p.evidence \cup g.evidence
  BY <1>1, PooledIsGroup
<1> HIDE DEF q
<1>3. q.labels # <<>>
  <2>1. p.labels # <<>> /\ p.labels \in Seq(Words)
    BY <1>1 DEF Pools, Group
  <2>2. Range(p.labels) # {}
    <3>1. 1 \in DOMAIN p.labels
      BY <2>1
    <3>2. QED
      BY <3>1 DEF Range
  <2>3. Range(<<>>) = {}
    BY DEF Range
  <2>4. QED
    BY <1>2, <2>2, <2>3
<1>4. \A label \in Range(q.labels) : \E h \in mine : label \in Range(h.labels)
  BY <1>2 DEF Pools
<1>5. \A id \in q.evidence : \E h \in mine : id \in h.evidence
  BY <1>2 DEF Pools
<1>6. \E h \in mine : h.evidence \subseteq q.evidence
  BY <1>2
<1>7. QED
  BY <1>2, <1>3, <1>4, <1>5, <1>6 DEF Pools, q

LEMMA FoldedIsPool ==
    ASSUME NEW mine, mine \subseteq Group, NEW first \in Pools(mine), NEW s \in Seq(mine)
    PROVE  FoldLeft(Pooled, first, s) \in Pools(mine)
<1> DEFINE n == Len(s)
           A == Pools(mine)
           step == [c \in (1 .. n) \X A |-> Pooled(c[2], s[c[1]])]
           Folds(g) == g = [t \in SUBSET DOMAIN s |->
                              IF t = {} THEN first
                              ELSE Pooled(g[t \ {Max(t)}], s[Max(t)])]
           fold == CHOOSE g : Folds(g)
<1>1. FoldLeft(Pooled, first, s) = fold[DOMAIN s]
  BY DEF FoldLeft, MapThenFoldSet
<1>2. n \in Nat /\ DOMAIN s = 1 .. n /\ \A i \in 1 .. n : s[i] \in mine
  OBVIOUS
<1>3. first \in A
  OBVIOUS
<1>4. \A a \in A, i \in 1 .. n : Pooled(a, s[i]) \in A
  BY <1>2, PoolIsPool
<1> HIDE DEF A, n
<1>5. /\ step \in [(1 .. n) \X A -> A]
      /\ \A i \in 1 .. n : \A a \in A : step[<<i, a>>] = Pooled(a, s[i])
  BY <1>4
<1> HIDE DEF step
<1>6. \E g : Folds(g)
  <2>1. PICK g : Solves(g, n, A, first, step)
    BY <1>2, <1>3, <1>5, FoldSolves
  <2>2. Folds(g)
    BY <1>2, <1>5, <2>1 DEF Solves
  <2>3. QED
    BY <2>2
<1>7. Folds(fold)
  BY <1>6
<1> HIDE DEF fold
<1>8. Follows(fold, n, A, first, step)
  <2>1. \A t \in SUBSET (1 .. n) : t # {} => Max(t) \in 1 .. n
    BY <1>2, MaxIsLast DEF IsLast
  <2>2. QED
    BY <1>2, <1>5, <1>7, <2>1 DEF Follows
<1>9. fold[1 .. n] \in A
  <2>1. Steps(fold, n, A, first, step)
    BY <1>2, <1>3, <1>5, <1>8, FoldSteps
  <2>2. QED
    BY <1>2, <2>1 DEF Steps
<1>10. QED
  BY <1>1, <1>2, <1>9 DEF A

LEMMA MergedIsPool ==
    ASSUME NEW groups \in Seq(Group), NEW id \in DOMAIN Merged(groups),
           \A g \in Range(groups) : g.labels # <<>>
    PROVE  Merged(groups)[id] \in Pools({g \in Range(groups) : HubId(g) = id})
<1> DEFINE M == {g \in Range(groups) : HubId(g) = id}
           mine == Within(groups, M)
<1>1. Merged(groups)[id] = FoldLeft(Pooled, mine[1], Tail(mine)) /\ \E i \in DOMAIN groups : HubId(groups[i]) = id
  BY DEF Merged
<1>2. mine \in Seq(Group) /\ ToSet(mine) = ToSet(groups) \cap M
  <2> HIDE DEF M
  <2>1. QED
    BY WithinIsAll
<1>3. M \subseteq Group /\ M # {} /\ ToSet(groups) = Range(groups)
  BY <1>1 DEF Range, ToSet
<1>4. ToSet(mine) = M
  BY <1>2, <1>3
<1> HIDE DEF mine, M
<1>5. mine \in Seq(M) /\ mine # <<>>
  <2>1. mine \in Seq(M)
    BY <1>2, <1>4, SeqOfItsOwn
  <2>2. ToSet(<<>>) = {}
    BY DEF ToSet
  <2>3. QED
    BY <1>3, <1>4, <2>1, <2>2
<1>6. mine[1] \in M /\ Tail(mine) \in Seq(M)
  BY <1>5
<1>7. mine[1] \in Pools(M)
  BY <1>3, <1>6 DEF Pools, M
<1>8. QED
  BY <1>1, <1>3, <1>6, <1>7, FoldedIsPool DEF M

\* A group that no QID settles goes by its own name, and the others by a QID of theirs.
LEMMA HubIdMeans ==
    ASSUME NEW docs, NEW given, NEW made, NEW g \in Sound(docs, given, made)
    PROVE  /\ HubId(g)[1] = "wd" => Settles(g.evidence, HubId(g)[2], docs)
           /\ HubId(g)[1] # "wd" => HubId(g)[2] = g.key
<1>1. g \in Group /\ g.types # <<>> /\ g.labels # <<>>
  BY DEF Sound
<1>2. g.types \in Seq(HubType) /\ g.labels \in Seq(Words)
  BY <1>1 DEF Group
<1>3. CASE Unambiguous(g.qids) # Nothing
  <2>1. HubId(g) = <<"wd", Unambiguous(g.qids)>>
    BY <1>3 DEF HubId
  <2>2. Unambiguous(g.qids) \in Range(g.qids)
    BY <1>3, UnambiguousIsOne
  <2>3. QED
    BY <2>1, <2>2 DEF Sound
<1>4. CASE Unambiguous(g.qids) = Nothing
  <2>1. HubId(g) = <<MostCommon(g.types), Slug(MostCommon(g.labels))>>
    BY <1>4 DEF HubId, Identity
  <2>2. MostCommon(g.types) \in Range(g.types) /\ MostCommon(g.labels) \in Range(g.labels)
    BY <1>1, <1>2, MostCommonIsOne
  <2>3. MostCommon(g.types) \in HubType
    BY <1>2, <2>2 DEF Range
  <2>4. MostCommon(g.types) # "wd"
    BY <2>3 DEF HubType
  <2>5. Slug(MostCommon(g.labels)) = g.key
    BY <2>2 DEF Sound
  <2>6. QED
    BY <2>1, <2>4, <2>5
<1>5. QED
  BY <1>3, <1>4

\* A hub of the merged groups: a QID is settled by its facts, and each fact is backed under
\* the hub's own name, or a QID joined it.
LEMMA MergedIsFounded ==
    ASSUME NEW docs, NEW given, NEW made, NEW groups \in Seq(Sound(docs, given, made)),
           NEW hub \in MergeGroups(groups, made)
    PROVE  /\ hub.id[1] = "wd" => Settles(hub.evidence, hub.id[2], docs)
           /\ \A id \in hub.evidence : \E key :
                 /\ Backed(id, key, docs, given, made)
                 /\ hub.id[1] = "wd" \/ key = Slug(hub.label)
<1> DEFINE merged == Merged(groups)
<1>1. PICK id \in DOMAIN merged : hub = Hub(id, merged[id])
  BY DEF MergeGroups
<1> DEFINE p == merged[id]
           M == {g \in Range(groups) : HubId(g) = id}
<1>2. /\ hub.id = id /\ hub.label = MostCommon(p.labels) /\ hub.evidence = p.evidence
  BY <1>1 DEF Hub, Identity
<1>3. groups \in Seq(Group) /\ \A g \in Range(groups) : g \in Sound(docs, given, made)
  <2>1. Sound(docs, given, made) \subseteq Group
    BY DEF Sound
  <2>2. \A g \in Range(groups) : g \in Sound(docs, given, made)
    BY DEF Range
  <2>3. QED
    BY <2>1, <2>2
<1>4. p \in Pools(M)
  BY <1>3, MergedIsPool DEF Sound
<1>5. \A g \in M : g \in Sound(docs, given, made) /\ HubId(g) = id
  BY <1>3
<1> HIDE DEF M, p, merged
<1>6. ASSUME hub.id[1] = "wd" PROVE Settles(hub.evidence, hub.id[2], docs)
  <2>1. PICK g \in M : g.evidence \subseteq p.evidence
    BY <1>4 DEF Pools
  <2>2. Settles(g.evidence, id[2], docs)
    BY <1>2, <1>5, <1>6, HubIdMeans
  <2>3. QED
    BY <1>2, <2>1, <2>2 DEF Settles
<1>7. ASSUME hub.id[1] # "wd" PROVE \A g \in M : g.key = Slug(hub.label)
  <2>1. p.labels \in Seq(Words) /\ p.labels # <<>>
    BY <1>4 DEF Pools, Group
  <2>2. hub.label \in Range(p.labels)
    BY <1>2, <2>1, MostCommonIsOne
  <2>3. PICK h \in M : hub.label \in Range(h.labels)
    BY <1>4, <2>2 DEF Pools
  <2>4. Slug(hub.label) = h.key
    BY <1>5, <2>3 DEF Sound
  <2>5. \A g \in M : g.key = id[2]
    BY <1>2, <1>5, <1>7, HubIdMeans
  <2>6. QED
    BY <2>4, <2>5
<1>8. ASSUME NEW e \in hub.evidence
      PROVE  \E key : /\ Backed(e, key, docs, given, made)
                      /\ hub.id[1] = "wd" \/ key = Slug(hub.label)
  <2>1. PICK g \in M : e \in g.evidence
    BY <1>2, <1>4 DEF Pools
  <2>2. Backed(e, g.key, docs, given, made)
    BY <1>5, <2>1 DEF Sound
  <2>3. QED
    BY <1>7, <2>2
<1>9. QED
  BY <1>6, <1>8

------------------------------------------------------------------------------
(* Where the hubs end                                                       *)

\* Who says a place says how it begins.
LEMMA MentionsTheHead ==
    ASSUME NEW text \in Words, NEW place \in Words, Mentions(text, place),
           NEW k \in 1 .. Len(place)
    PROVE  Mentions(text, SubSeq(place, 1, k))
<1>1. PICK i \in DOMAIN text : /\ i + Len(place) - 1 <= Len(text)
                               /\ SubSeq(text, i, i + Len(place) - 1) = place
  BY DEF Mentions
<1>2. /\ Len(place) \in Nat /\ Len(text) \in Nat /\ i \in 1 .. Len(text)
      /\ k \in Nat /\ 1 <= k /\ k <= Len(place) /\ i \in Nat
  BY DEF Words
<1> DEFINE head == SubSeq(place, 1, k)
<1>3. head = [j \in 1 .. k |-> place[j]]
  BY <1>2 DEF Words
<1>4. Len(head) = k /\ head # <<>>
  <2>1. \A j \in 1 .. k : place[j] \in STRING
    BY <1>2 DEF Words
  <2>2. head \in [1 .. k -> STRING]
    BY <1>3, <2>1
  <2> HIDE DEF head
  <2>3. QED
    BY <1>2, <2>2
<1>5. \A j \in 1 .. k : place[j] = text[j + i - 1]
  <2> DEFINE last == i + Len(place) - 1
  <2>1. /\ text \in Seq(STRING) /\ i \in Nat \ {0} /\ last \in Nat
        /\ \A j \in 1 .. k : j \in 1 .. (last - i + 1)
    BY <1>2 DEF Words
  <2>2. SubSeq(text, i, last) = place
    BY <1>1
  <2> HIDE DEF last
  <2>3. SubSeq(text, i, last) = [j \in 1 .. (last - i + 1) |-> text[j + i - 1]]
    BY <2>1, StretchIs
  <2>4. QED
    BY <2>1, <2>2, <2>3
<1>6. SubSeq(text, i, i + k - 1) = [j \in 1 .. k |-> text[j + i - 1]]
  <2> DEFINE last == i + k - 1
  <2>1. last - i + 1 = k /\ last \in Nat /\ i \in Nat \ {0} /\ text \in Seq(STRING)
    BY <1>2 DEF Words
  <2> HIDE DEF last
  <2>2. SubSeq(text, i, last) = [j \in 1 .. (last - i + 1) |-> text[j + i - 1]]
    BY <2>1, StretchIs
  <2>3. SubSeq(text, i, last) = [j \in 1 .. k |-> text[j + i - 1]]
    BY <2>1, <2>2
  <2>4. QED
    BY <2>3 DEF last
<1>7. SubSeq(text, i, i + k - 1) = head
  BY <1>3, <1>5, <1>6
<1>8. i + Len(head) - 1 <= Len(text)
  BY <1>1, <1>2, <1>4
<1> HIDE DEF head
<1>9. Mentions(text, head)
  BY <1>4, <1>7, <1>8 DEF Mentions
<1>10. QED
  BY <1>9 DEF head

LEMMA CandidatesAreSaid ==
    ASSUME NEW text \in Words, NEW place \in Words, Mentions(text, place)
    PROVE  /\ DOMAIN PlaceCandidates(place) \in SUBSET Nat
           /\ \A c \in DOMAIN PlaceCandidates(place) :
                 Mentions(text, PlaceCandidates(place)[c])
<1> DEFINE commas == {i \in DOMAIN place : place[i] = ","}
           comma == CHOOSE i \in commas : \A j \in commas : i <= j
           head == IF commas = {} THEN place ELSE SubSeq(place, 1, comma - 1)
<1>1. PlaceCandidates(place) = IF head \in {place, <<>>} THEN <<place>> ELSE <<head, place>>
  BY DEF PlaceCandidates
<1>2. DOMAIN place = 1 .. Len(place) /\ Len(place) \in Nat
  BY DEF Words
<1>3. head \in {place, <<>>} \/ Mentions(text, head)
  <2>1. CASE commas = {}
    BY <2>1
  <2>2. CASE commas # {}
    <3>1. commas \in SUBSET Nat
      <4>1. \A i \in commas : i \in DOMAIN place
        OBVIOUS
      <4> HIDE DEF commas
      <4>2. \A i \in DOMAIN place : i \in Nat
        BY <1>2
      <4>3. QED
        BY <4>1, <4>2
    <3>2. \E i \in commas : \A j \in commas : i <= j
      <4> HIDE DEF commas
      <4>1. QED
        BY <2>2, <3>1, Least
    <3>3. comma \in commas
      BY <3>2
    <3>4. comma \in 1 .. Len(place)
      BY <1>2, <3>3
    <3> HIDE DEF comma, commas
    <3>5. CASE comma = 1
      <4>1. SubSeq(place, 1, 0) = <<>>
        BY DEF Words
      <4>2. QED
        BY <2>2, <3>5, <4>1
    <3>6. CASE comma # 1
      <4>1. comma - 1 \in 1 .. Len(place)
        BY <1>2, <3>4, <3>6
      <4>2. Mentions(text, SubSeq(place, 1, comma - 1))
        BY <4>1, MentionsTheHead
      <4>3. QED
        BY <2>2, <4>2
    <3>7. QED
      BY <3>5, <3>6
  <2>3. QED
    BY <2>1, <2>2
<1> HIDE DEF head
<1>4. CASE head \in {place, <<>>}
  <2>1. PlaceCandidates(place) = <<place>>
    BY <1>1, <1>4
  <2>2. QED
    BY <2>1
<1>5. CASE head \notin {place, <<>>}
  <2>1. PlaceCandidates(place) = <<head, place>> /\ Mentions(text, head)
    BY <1>1, <1>3, <1>5
  <2>2. QED
    BY <2>1
<1>6. QED
  BY <1>4, <1>5

\* The roster's city stands on facts whose documents name it, by a name the details give.
LEMMA RosterCityIsSaid ==
    ASSUME NEW text \in Words, NEW place \in Words, Mentions(text, place), NEW made, NEW docs,
           NEW hub \in RosterCityHub(place, made, docs)
    PROVE  /\ hub.type = "city" /\ hub.id[1] = "city" /\ Mentions(text, hub.label)
           /\ \A id \in hub.evidence : \E i \in DOMAIN made :
                 made[i].id = id /\ StatesLabel(DocOf(made[i], docs), hub.label)
<1> DEFINE candidates == PlaceCandidates(place)
           Placed(c) == {i \in DOMAIN made : StatesLabel(DocOf(made[i], docs), candidates[c])}
           Spoken(c) == {i \in Placed(c) :
                            Mentions(made[i].text \o made[i].quote, candidates[c])}
           usable == {c \in DOMAIN candidates : Slug(candidates[c]) # <<>> /\ Placed(c) # {}}
           first == CHOOSE c \in usable : \A d \in usable : c <= d
           evidence == IF Spoken(first) # {} THEN Spoken(first) ELSE Placed(first)
           recency == Greatest({RecencyFor(DocOf(made[i], docs).days) : i \in evidence})
<1>1. /\ usable # {}
      /\ hub = [id |-> <<"city", Slug(candidates[first])>>, label |-> candidates[first],
                type |-> "city", recency |-> recency,
                evidence |-> {made[i].id : i \in evidence}]
  BY DEF RosterCityHub
<1>2. usable \in SUBSET Nat
  BY CandidatesAreSaid
<1>3. first \in usable
  <2>1. \E c \in usable : \A d \in usable : c <= d
    <3> HIDE DEF usable
    <3>1. QED
      BY <1>1, <1>2, Least
  <2>2. QED
    BY <2>1
<1>4. first \in DOMAIN candidates
  BY <1>3
<1>5. Mentions(text, candidates[first])
  <2> HIDE DEF first
  <2>1. QED
    BY <1>4, CandidatesAreSaid
<1>6. \A i \in evidence : i \in DOMAIN made /\ StatesLabel(DocOf(made[i], docs), candidates[first])
  <2> HIDE DEF first
  <2>1. QED
    OBVIOUS
<1> HIDE DEF usable, first, candidates, recency, evidence
<1>7. QED
  BY <1>1, <1>5, <1>6

\* A fact is found by its id, and its batch and document by its own.
LEMMA FactIsFound ==
    ASSUME CitationInv, NEW fact \in Range(extracted.facts)
    PROVE  /\ FactOf(fact.id, extracted.facts) = fact
           /\ BatchWith(fact.doc) \in DOMAIN answers
           /\ \A n \in DOMAIN answers :
                 InBatch(fact.doc, n, subject.docs) <=> BatchWith(fact.doc) = n
           /\ DocOf(fact, subject.docs) \in Range(subject.docs)
           /\ DocOf(fact, subject.docs).id = fact.id[1]
<1> DEFINE made == extracted.facts
<1>1. PICK i \in DOMAIN made : made[i] = fact
  BY DEF Range
<1>2. FactOf(fact.id, made) = fact
  <2>1. \A j \in DOMAIN made : made[j].id = fact.id => j = i
    BY <1>1, NumbersDiffer DEF CitationInv
  <2>2. (CHOOSE j \in DOMAIN made : made[j].id = fact.id) = i
    BY <1>1, <2>1
  <2>3. QED
    BY <1>1, <2>2 DEF FactOf
<1>3. fact \in Rooted(subject.docs, answers) /\ fact.id[1] = fact.doc
  <2>1. made[i] \in Rooted(subject.docs, answers)
    BY <1>1 DEF CitationInv
  <2>2. made[i].id = <<made[i].doc, Cardinality(Earlier(made, i))>>
    BY <1>1 DEF CitationInv, Numbered
  <2>3. QED
    BY <1>1, <2>1, <2>2
<1>4. PICK n \in DOMAIN answers : RootedIn(fact, BatchOf(subject.docs, n), answers[n])
  BY <1>3 DEF Rooted
<1>5. PICK doc \in Range(BatchOf(subject.docs, n)) : fact.doc = doc.id
  BY <1>4 DEF RootedIn
<1>6. fact \in Fact
  BY <1>3 DEF Rooted
<1>7. BatchWith(fact.doc) = n /\ DocOf(fact, subject.docs) = doc
  BY <1>5, <1>6, RootIsFound
<1>8. ASSUME NEW m \in DOMAIN answers
      PROVE  InBatch(fact.doc, m, subject.docs) <=> BatchWith(fact.doc) = m
  <2>1. ASSUME InBatch(fact.doc, m, subject.docs) PROVE BatchWith(fact.doc) = m
    <3>1. PICK d \in Range(BatchOf(subject.docs, m)) : d.id = fact.doc
      BY <2>1 DEF InBatch
    <3>2. QED
      BY <1>6, <3>1, RootIsFound
  <2>2. InBatch(fact.doc, n, subject.docs)
    BY <1>5 DEF InBatch
  <2>3. QED
    BY <1>7, <2>1, <2>2
<1>9. doc \in Range(subject.docs)
  <2>1. Listed(subject.docs) /\ n \in Nat \ {0}
    BY SubjectsAreListed DEF CitationInv
  <2>2. PICK k \in DOMAIN BatchOf(subject.docs, n) : BatchOf(subject.docs, n)[k] = doc
    BY <1>5 DEF Range
  <2>3. /\ (n - 1) * MAX_DOCS_PER_CALL + k \in DOMAIN subject.docs
        /\ doc = subject.docs[(n - 1) * MAX_DOCS_PER_CALL + k]
    <3> DEFINE docs == subject.docs
    <3>1. docs \in Seq(Document)
      BY <2>1 DEF Listed
    <3> HIDE DEF docs
    <3>2. \A j \in DOMAIN BatchOf(docs, n) :
             /\ (n - 1) * MAX_DOCS_PER_CALL + j \in DOMAIN docs
             /\ BatchOf(docs, n)[j] = docs[(n - 1) * MAX_DOCS_PER_CALL + j]
      BY <2>1, <3>1, BatchIsStretch
    <3>3. QED
      BY <2>2, <3>2 DEF docs
  <2>4. QED
    BY <2>3 DEF Range
<1>10. QED
  BY <1>2, <1>3, <1>5, <1>7, <1>8, <1>9

\* A hub is one of the merged ones, or the roster's city.
LEMMA HubsComeFrom ==
    ASSUME HubInv, NEW hub \in HubsOf(extracted, subject.docs)
    PROVE  \/ /\ hub \in MergeGroups(extracted.groups, extracted.facts)
              /\ hub.type = "city" => extracted.places = <<>>
           \/ /\ hub.type = "city" /\ hub.id[1] = "city" /\ extracted.places # <<>>
              /\ Mentions(FlattenSeq(subject.details), hub.label)
              /\ \A id \in hub.evidence : \E i \in DOMAIN extracted.facts :
                    /\ extracted.facts[i].id = id
                    /\ StatesLabel(DocOf(extracted.facts[i], subject.docs), hub.label)
<1> DEFINE hubs == MergeGroups(extracted.groups, extracted.facts)
           place == MostCommon(extracted.places)
           city == RosterCityHub(place, extracted.facts, subject.docs)
<1>1. hub \in PlaceHubs(hubs, place, extracted.facts, subject.docs)
  BY DEF HubsOf
<1>2. extracted.places \in Seq(Words)
  BY DEF HubInv
<1>3. CASE extracted.places = <<>>
  <2>1. place = Nothing
    BY <1>3 DEF MostCommon
  <2>2. QED
    BY <1>1, <1>3, <2>1 DEF PlaceHubs
<1>4. CASE extracted.places # <<>>
  <2>1. place \in Range(extracted.places)
    BY <1>2, <1>4, MostCommonIsOne
  <2>2. /\ place # Nothing /\ place \in Words
        /\ Mentions(FlattenSeq(subject.details), place)
    BY <1>2, <2>1 DEF HubInv, Range
  <2>3. FlattenSeq(subject.details) \in Words
    <3>1. subject.details \in Seq(Words)
      BY DossierAssumption DEF HubInv, CitationInv
    <3>2. QED
      BY <3>1, FlattenIsAll DEF Words
  <2> HIDE DEF place, hubs
  <2>4. \/ hub \in hubs /\ hub.type # "city"
        \/ hub \in city
    BY <1>1, <2>2 DEF PlaceHubs
  <2>5. QED
    BY <1>4, <2>2, <2>3, <2>4, RosterCityIsSaid DEF hubs
<1>5. QED
  BY <1>3, <1>4

\* An identity that joins people is never the model's alone: the QID of a hub is the only
\* one its document states, and where the roster states a place the only city is that one.
THEOREM AdoptionHolds == BuildSpec => []NothingAdopted
<1>1. HubInv => NothingAdopted
  <2> SUFFICES ASSUME HubInv, NEW hub \in HubsOf(extracted, subject.docs)
               PROVE  /\ hub.id[1] = "wd" =>
                           LET sources == {DocOf(FactOf(id, extracted.facts), subject.docs) :
                                              id \in hub.evidence}
                           IN  \A doc \in sources :
                                  sources = {doc} => OfferedQids(doc, hub.id[2]) = {hub.id[2]}
                      /\ hub.type = "city" /\ extracted.places # <<>> =>
                           /\ Mentions(FlattenSeq(subject.details), hub.label)
                           /\ \A id \in hub.evidence :
                                 StatesLabel(DocOf(FactOf(id, extracted.facts), subject.docs),
                                             hub.label)
    BY DEF NothingAdopted, QidsConfirmed, CitiesConfirmed
  <2>1. CitationInv
    BY DEF HubInv
  <2> DEFINE made == extracted.facts
             docs == subject.docs
  <2>2. ASSUME hub.type = "city", extracted.places # <<>>
        PROVE  /\ Mentions(FlattenSeq(subject.details), hub.label)
               /\ \A id \in hub.evidence : StatesLabel(DocOf(FactOf(id, made), docs), hub.label)
    <3>1. /\ Mentions(FlattenSeq(subject.details), hub.label)
          /\ \A id \in hub.evidence : \E i \in DOMAIN made :
                made[i].id = id /\ StatesLabel(DocOf(made[i], docs), hub.label)
      BY <2>2, HubsComeFrom
    <3>2. ASSUME NEW id \in hub.evidence
          PROVE  StatesLabel(DocOf(FactOf(id, made), docs), hub.label)
      <4>1. PICK i \in DOMAIN made : made[i].id = id /\ StatesLabel(DocOf(made[i], docs), hub.label)
        BY <3>1
      <4>2. made[i] \in Range(made)
        BY DEF Range
      <4>3. QED
        BY <2>1, <4>1, <4>2, FactIsFound
    <3>3. QED
      BY <3>1, <3>2
  <2>3. ASSUME hub.id[1] = "wd",
               NEW doc, {DocOf(FactOf(id, made), docs) : id \in hub.evidence} = {doc}
        PROVE  OfferedQids(doc, hub.id[2]) = {hub.id[2]}
    <3>1. hub \in MergeGroups(extracted.groups, made)
      BY <2>3, HubsComeFrom
    <3> DEFINE groups == extracted.groups
               given == answers
    <3>2. groups \in Seq(Sound(docs, given, made))
      BY DEF HubInv
    <3> HIDE DEF groups, given
    <3>3. /\ Settles(hub.evidence, hub.id[2], docs)
          /\ \A id \in hub.evidence : \E key : Backed(id, key, docs, given, made)
      BY <2>3, <3>1, <3>2, MergedIsFounded DEF groups
    <3>4. ASSUME NEW id \in hub.evidence PROVE doc \in Range(docs) /\ doc.id = id[1]
      <4>1. PICK fact \in Range(made) : fact.id = id
        BY <3>3 DEF Backed, Siblings
      <4>2. DocOf(FactOf(id, made), docs) = doc
        BY <2>3
      <4>3. QED
        BY <2>1, <4>1, <4>2, FactIsFound
    <3>5. hub.evidence # {}
      BY <2>3
    <3>6. QED
      BY <3>3, <3>4, <3>5 DEF Settles
  <2>4. QED
    BY <2>2, <2>3
<1>2. QED
  BY <1>1, HubsHold, PTL

\* Which answer a fact came with tells whose ids were known by then.
LEMMA BatchmatesAreFound ==
    ASSUME CitationInv, NEW fact \in Range(extracted.facts), NEW n, n = BatchWith(fact.doc)
    PROVE  /\ Known(n, extracted.facts, subject.docs)
                = {f \in Range(extracted.facts) : BatchWith(f.doc) <= n}
           /\ Siblings(n, extracted.facts, subject.docs)
                = {f \in {f \in Range(extracted.facts) : BatchWith(f.doc) <= n} :
                      BatchWith(f.doc) = n}
<1> DEFINE made == extracted.facts
           docs == subject.docs
<1>1. n \in DOMAIN answers
  BY FactIsFound
<1>2. DOMAIN answers = 1 .. Len(answers) /\ Len(answers) \in Nat
  BY DEF CitationInv
<1>3. ASSUME NEW f \in Range(made)
      PROVE  /\ (\E m \in 1 .. n : InBatch(f.doc, m, docs)) <=> BatchWith(f.doc) <= n
             /\ InBatch(f.doc, n, docs) <=> BatchWith(f.doc) = n
             /\ BatchWith(f.doc) = n => BatchWith(f.doc) <= n
  <2>1. /\ BatchWith(f.doc) \in DOMAIN answers
        /\ \A m \in DOMAIN answers : InBatch(f.doc, m, docs) <=> BatchWith(f.doc) = m
    BY FactIsFound
  <2> DEFINE own == BatchWith(f.doc)
  <2> HIDE DEF own
  <2>2. own \in 1 .. Len(answers) /\ \A m \in 1 .. Len(answers) : InBatch(f.doc, m, docs) <=> own = m
    BY <1>2, <2>1 DEF own
  <2>3. n \in 1 .. Len(answers) /\ 1 .. n \subseteq 1 .. Len(answers)
    BY <1>1, <1>2
  <2>4. (\E m \in 1 .. n : InBatch(f.doc, m, docs)) <=> own <= n
    BY <1>2, <2>2, <2>3
  <2>5. QED
    BY <1>2, <2>2, <2>3, <2>4 DEF own
<1>4. QED
  BY <1>3 DEF Known, Siblings

\* What is shown of the hubs is hubs of the extraction, with some of their evidence left.
HubsShown ==
    Built => \A hub \in dossier.hubs : \E h \in HubsOf(extracted, subject.docs) :
                /\ hub.id = h.id /\ hub.label = h.label /\ hub.type = h.type
                /\ hub.evidence \subseteq h.evidence

\* Every id a hub cites is a fact that stands behind it: one that the answer to its own
\* batch means by a name it uses, that names the hub itself, or whose document names the
\* member's city.
THEOREM EvidenceHolds == BuildSpec => []EvidenceIsNoGuess
<1>1. BuildInit => HubsShown
  BY DEF BuildInit, HubsShown, Built
<1>2. HubsShown /\ [BuildNext]_buildVars => HubsShown'
  <2> SUFFICES ASSUME HubsShown, [BuildNext]_buildVars PROVE HubsShown'
    OBVIOUS
  <2>1. CASE Assemble
    <3> DEFINE hubs == HubsOf(extracted, subject.docs)
    <3>1. /\ dossier'.hubs = SupportedHubs(hubs, Tasted)
          /\ extracted' = extracted /\ subject' = subject
      BY <2>1 DEF Assemble
    <3>2. ASSUME NEW hub \in SupportedHubs(hubs, Tasted)
          PROVE  \E h \in hubs : /\ hub.id = h.id /\ hub.label = h.label /\ hub.type = h.type
                                 /\ hub.evidence \subseteq h.evidence
      <4>1. PICK h \in hubs : \E gone : hub = [h EXCEPT !.evidence = h.evidence \ gone]
        BY DEF SupportedHubs
      <4>2. PICK id, label, type, recency, evidence :
               h = [id |-> id, label |-> label, type |-> type, recency |-> recency,
                    evidence |-> evidence]
        BY HubsAreRecords
      <4>3. QED
        BY <4>1, <4>2
    <3>3. HubsOf(extracted, subject.docs)' = hubs
      BY <3>1
    <3>4. QED
      BY <3>1, <3>2, <3>3 DEF HubsShown
  <2>2. CASE UNCHANGED <<subject, stage, extracted, dossier>>
    BY <2>2 DEF HubsShown, Built
  <2>3. CASE Extract \/ StartTaste
    BY <2>3 DEF Extract, StartTaste, HubsShown, Built
  <2>4. QED
    BY <2>1, <2>2, <2>3 DEF BuildNext, Classify, pageVars, buildVars
<1>3. HubInv /\ HubsShown => EvidenceIsNoGuess
  <2> SUFFICES ASSUME HubInv, HubsShown, Built, NEW hub \in dossier.hubs, NEW id \in hub.evidence
               PROVE  LET fact == FactOf(id, extracted.facts)
                          known == {f \in Range(extracted.facts) :
                                       BatchWith(f.doc) <= BatchWith(fact.doc)}
                          siblings == {f \in known : BatchWith(f.doc) = BatchWith(fact.doc)}
                      IN  \/ /\ hub.type = "city" /\ extracted.places # <<>>
                             /\ StatesLabel(DocOf(fact, subject.docs), hub.label)
                          \/ \E candidate \in Range(Answered(fact).hubs) :
                                /\ \/ hub.id[1] = "wd"
                                   \/ Slug(LabelOf(candidate)) = Slug(hub.label)
                                /\ \/ Mentions(fact.text \o fact.quote, LabelOf(candidate))
                                   \/ \E name \in Range(candidate.evidence) :
                                         \/ name = id
                                         \/ /\ name \notin {f.id : f \in known}
                                            /\ {f \in siblings : f.claim = name} = {fact}
    BY DEF EvidenceIsNoGuess
  <2> DEFINE made == extracted.facts
             docs == subject.docs
             groups == extracted.groups
             given == answers
  <2>1. CitationInv /\ groups \in Seq(Sound(docs, given, made))
    BY DEF HubInv
  <2>2. PICK h \in HubsOf(extracted, docs) :
           /\ hub.id = h.id /\ hub.label = h.label /\ hub.type = h.type
           /\ hub.evidence \subseteq h.evidence
    BY DEF HubsShown
  <2>3. CASE h \in MergeGroups(groups, made)
    <3>1. PICK key : Backed(id, key, docs, given, made) /\ (h.id[1] = "wd" \/ key = Slug(h.label))
      <4>1. id \in h.evidence
        BY <2>2
      <4> HIDE DEF groups, given, made, docs
      <4>2. \A e \in h.evidence : \E key :
               /\ Backed(e, key, docs, given, made)
               /\ h.id[1] = "wd" \/ key = Slug(h.label)
        BY <2>1, <2>3, MergedIsFounded
      <4>3. QED
        BY <4>1, <4>2
    <3>2. PICK n \in DOMAIN given :
             \E fact \in Siblings(n, made, docs), candidate \in Range(given[n].hubs) :
                /\ fact.id = id /\ Slug(LabelOf(candidate)) = key
                /\ StandsBehind(fact, candidate, Siblings(n, made, docs), Known(n, made, docs))
      BY <3>1 DEF Backed
    <3>3. PICK fact \in Siblings(n, made, docs), candidate \in Range(given[n].hubs) :
             /\ fact.id = id /\ Slug(LabelOf(candidate)) = key
             /\ StandsBehind(fact, candidate, Siblings(n, made, docs), Known(n, made, docs))
      BY <3>2
    <3>4. fact \in Range(made) /\ InBatch(fact.doc, n, docs)
      BY DEF Siblings
    <3>5. FactOf(id, made) = fact /\ BatchWith(fact.doc) = n
      BY <2>1, <3>3, <3>4, FactIsFound
    <3>6. Answered(fact) = given[n]
      BY <3>5 DEF Answered
    <3> DEFINE known == {f \in Range(made) : BatchWith(f.doc) <= n}
               siblings == {f \in known : BatchWith(f.doc) = n}
    <3>7. Known(n, made, docs) = known /\ Siblings(n, made, docs) = siblings
      BY <2>1, <3>4, <3>5, BatchmatesAreFound
    <3> HIDE DEF known, siblings
    <3>8. \/ Mentions(fact.text \o fact.quote, LabelOf(candidate))
          \/ \E name \in Range(candidate.evidence) :
                \/ name = id
                \/ /\ name \notin {f.id : f \in known}
                   /\ {f \in siblings : f.claim = name} = {fact}
      BY <3>3, <3>7 DEF StandsBehind, Calls
    <3>9. hub.id[1] = "wd" \/ Slug(LabelOf(candidate)) = Slug(hub.label)
      BY <2>2, <3>1, <3>3
    <3>10. candidate \in Range(Answered(FactOf(id, made)).hubs)
      BY <3>5, <3>6
    <3>11. QED
      BY <3>5, <3>8, <3>9, <3>10 DEF known, siblings
  <2>4. CASE h \notin MergeGroups(groups, made)
    <3>1. /\ h.type = "city" /\ extracted.places # <<>>
          /\ \A e \in h.evidence : \E i \in DOMAIN made :
                made[i].id = e /\ StatesLabel(DocOf(made[i], docs), h.label)
      BY <2>4, HubsComeFrom
    <3>2. PICK i \in DOMAIN made : made[i].id = id /\ StatesLabel(DocOf(made[i], docs), h.label)
      BY <2>2, <3>1
    <3>3. made[i] \in Range(made)
      BY DEF Range
    <3>4. FactOf(id, made) = made[i]
      BY <2>1, <3>2, <3>3, FactIsFound
    <3>5. QED
      BY <2>2, <3>1, <3>2, <3>4
  <2>5. QED
    BY <2>3, <2>4
<1>4. QED
  BY <1>1, <1>2, <1>3, HubsHold, PTL DEF BuildSpec

------------------------------------------------------------------------------
(* What a list counts, whatever its order                                   *)

LEMMA CountAppended ==
    ASSUME NEW V, NEW s \in Seq(V), NEW t \in Seq(V), NEW v
    PROVE  /\ Count(s \o t, v) = Count(s, v) + Count(t, v)
           /\ Count(s, v) \in Nat /\ Count(t, v) \in Nat
<1> DEFINE n == Len(s)
           m == Len(t)
           all == s \o t
           P == {i \in DOMAIN s : s[i] = v}
           Q == {j \in DOMAIN t : t[j] = v}
           Q2 == {i \in DOMAIN all : i > n /\ all[i] = v}
           shift == [j \in Q |-> j + n]
<1>1. /\ n \in Nat /\ m \in Nat /\ DOMAIN s = 1 .. n /\ DOMAIN t = 1 .. m
      /\ DOMAIN all = 1 .. (n + m)
      /\ \A i \in 1 .. n : all[i] = s[i]
      /\ \A j \in 1 .. m : all[j + n] = t[j]
  OBVIOUS
<1> HIDE DEF n, m, all
<1>2. IsFiniteSet(P) /\ IsFiniteSet(Q)
  <2>1. P \in SUBSET (1 .. n) /\ Q \in SUBSET (1 .. m)
    BY <1>1
  <2>2. 1 \in Int /\ n \in Int /\ m \in Int
    BY <1>1
  <2>3. IsFiniteSet(1 .. n) /\ IsFiniteSet(1 .. m)
    BY <2>2, FS_Interval
  <2> HIDE DEF P, Q
  <2>4. QED
    BY <2>1, <2>3, FS_Subset
<1>3. IsFiniteSet(Q2) /\ Cardinality(Q2) = Cardinality(Q)
  <2>1. shift \in [Q -> Q2]
    BY <1>1
  <2>2. \A j, k \in Q : shift[j] = shift[k] => j = k
    BY <1>1
  <2>3. \A i \in Q2 : \E j \in Q : shift[j] = i
    <3> SUFFICES ASSUME NEW i \in Q2 PROVE \E j \in Q : shift[j] = i
      OBVIOUS
    <3>1. i - n \in 1 .. m /\ (i - n) + n = i
      BY <1>1
    <3>2. i - n \in Q
      BY <1>1, <3>1
    <3>3. QED
      BY <3>1, <3>2
  <2> HIDE DEF Q, Q2, shift
  <2>4. shift \in Bijection(Q, Q2)
    <3>1. shift \in Injection(Q, Q2)
      BY <2>1, <2>2 DEF Injection, IsInjective
    <3>2. shift \in Surjection(Q, Q2)
      BY <2>1, <2>3 DEF Surjection
    <3>3. QED
      BY <3>1, <3>2 DEF Bijection
  <2>5. ExistsBijection(Q, Q2)
    BY <2>4 DEF ExistsBijection
  <2>6. QED
    BY <1>2, <2>5, FS_Bijection
<1>4. {i \in DOMAIN all : all[i] = v} = P \cup Q2 /\ P \cap Q2 = {}
  BY <1>1
<1>5. /\ Count(all, v) = Cardinality(P \cup Q2) /\ Count(s, v) = Cardinality(P)
      /\ Count(t, v) = Cardinality(Q)
  BY <1>4 DEF Count
<1> HIDE DEF P, Q, Q2
<1>6. Cardinality(P \cup Q2) = Cardinality(P) + Cardinality(Q2) - Cardinality(P \cap Q2)
  BY <1>2, <1>3, FS_Union
<1>7. Cardinality(P \cap Q2) = 0 /\ Cardinality(P) \in Nat /\ Cardinality(Q2) \in Nat
  BY <1>2, <1>3, <1>4, FS_EmptySet, FS_CardinalityType
<1>8. QED
  BY <1>3, <1>5, <1>6, <1>7 DEF all

\* Each value is on the list as often as tokens of S stand for it.
Tallies(values, stands, S) ==
    \A v : Count(values, v) = Cardinality({t \in S : v \in Range(stands[t])})

LEMMA TalliesJoin ==
    ASSUME NEW V, NEW values \in Seq(V), NEW more \in Seq(V), NEW stands, NEW S, NEW R,
           IsFiniteSet(S), IsFiniteSet(R), S \cap R = {},
           Tallies(values, stands, S), Tallies(more, stands, R)
    PROVE  Tallies(values \o more, stands, S \cup R)
<1> SUFFICES ASSUME NEW v
             PROVE  Count(values \o more, v) =
                      Cardinality({t \in S \cup R : v \in Range(stands[t])})
  BY DEF Tallies
<1> DEFINE P == {t \in S : v \in Range(stands[t])}
           Q == {t \in R : v \in Range(stands[t])}
           B == {t \in S \cup R : v \in Range(stands[t])}
<1>1. B = P \cup Q /\ P \cap Q = {}
  OBVIOUS
<1>2. Count(values, v) = Cardinality(P) /\ Count(more, v) = Cardinality(Q)
  BY DEF Tallies
<1>3. P \in SUBSET S /\ Q \in SUBSET R
  OBVIOUS
<1> HIDE DEF P, Q
<1>4. IsFiniteSet(P) /\ IsFiniteSet(Q)
  BY <1>3, FS_Subset
<1>5. Cardinality(P \cup Q) = Cardinality(P) + Cardinality(Q) - Cardinality(P \cap Q)
  BY <1>4, FS_Union
<1>6. Cardinality(P \cap Q) = 0 /\ Cardinality(P) \in Nat /\ Cardinality(Q) \in Nat
  BY <1>1, <1>4, FS_EmptySet, FS_CardinalityType
<1>7. Count(values \o more, v) = Count(values, v) + Count(more, v)
  BY CountAppended
<1>8. Count(values \o more, v) = Cardinality(B)
  <2> HIDE DEF B
  <2>1. QED
    BY <1>1, <1>2, <1>5, <1>6, <1>7
<1>9. QED
  BY <1>8

LEMMA TalliesStay ==
    ASSUME NEW values, NEW stands, NEW others, NEW S, \A t \in S : others[t] = stands[t],
           Tallies(values, stands, S)
    PROVE  Tallies(values, others, S)
<1> SUFFICES ASSUME NEW v
             PROVE  Count(values, v) = Cardinality({t \in S : v \in Range(others[t])})
  BY DEF Tallies
<1>1. {t \in S : v \in Range(others[t])} = {t \in S : v \in Range(stands[t])}
  OBVIOUS
<1>2. QED
  BY <1>1 DEF Tallies

\* The list of one token, of one value or none.
LEMMA OneTallies ==
    ASSUME NEW values, NEW stands, NEW t, stands[t] = values,
           values = <<>> \/ \E a : values = <<a>>
    PROVE  Tallies(values, stands, {t})
<1> SUFFICES ASSUME NEW v
             PROVE  Count(values, v) = Cardinality({u \in {t} : v \in Range(stands[u])})
  BY DEF Tallies
<1>1. {u \in {t} : v \in Range(stands[u])} = IF v \in Range(values) THEN {t} ELSE {}
  OBVIOUS
<1>2. {i \in DOMAIN values : values[i] = v} = IF v \in Range(values) THEN {1} ELSE {}
  <2>1. CASE values = <<>>
    BY <2>1 DEF Range
  <2>2. ASSUME NEW a, values = <<a>>
        PROVE  {i \in DOMAIN values : values[i] = v} = IF v \in Range(values) THEN {1} ELSE {}
    <3>1. DOMAIN values = {1} /\ values[1] = a
      BY <2>2
    <3>2. v \in Range(values) <=> v = a
      BY <3>1 DEF Range
    <3>3. QED
      BY <3>1, <3>2
  <2>3. QED
    BY <2>1, <2>2
<1>3. Cardinality({t}) = 1 /\ Cardinality({1}) = 1 /\ Cardinality({}) = 0
  BY FS_Singleton, FS_EmptySet
<1>4. QED
  BY <1>1, <1>2, <1>3 DEF Count

\* A vote depends on what is counted alone.
LEMMA TalliesElect ==
    ASSUME NEW V, NEW s \in Seq(V), NEW t \in Seq(V), NEW stands, NEW S,
           Tallies(s, stands, S), Tallies(t, stands, S)
    PROVE  MostCommon(s) = MostCommon(t) /\ Unambiguous(s) = Unambiguous(t)
<1>1. \A v : Count(s, v) = Count(t, v)
  BY DEF Tallies
<1>2. ASSUME NEW u \in Seq(V), NEW v PROVE v \in Range(u) <=> Count(u, v) # 0
  <2> DEFINE P == {i \in DOMAIN u : u[i] = v}
             n == Len(u)
  <2>1. DOMAIN u = 1 .. n /\ 1 \in Int /\ n \in Int
    OBVIOUS
  <2>2. P \in SUBSET (1 .. n) /\ Count(u, v) = Cardinality(P)
    BY <2>1 DEF Count
  <2>3. v \in Range(u) <=> P # {}
    BY DEF Range
  <2> HIDE DEF P, n
  <2>4. IsFiniteSet(P)
    BY <2>1, <2>2, FS_Interval, FS_Subset
  <2>5. QED
    BY <2>2, <2>3, <2>4, FS_EmptySet
<1>3. Range(s) = Range(t)
  BY <1>1, <1>2
<1>4. Commonest(s) = Commonest(t)
  BY <1>1, <1>3 DEF Commonest
<1>5. s = <<>> <=> t = <<>>
  <2>1. \A u \in Seq(V) : u = <<>> <=> Range(u) = {}
    <3> SUFFICES ASSUME NEW u \in Seq(V) PROVE u = <<>> <=> Range(u) = {}
      OBVIOUS
    <3>1. u # <<>> => 1 \in DOMAIN u
      OBVIOUS
    <3>2. Range(<<>>) = {}
      BY DEF Range
    <3>3. QED
      BY <3>1, <3>2 DEF Range
  <2>2. QED
    BY <1>3, <2>1
<1>6. QED
  BY <1>4, <1>5 DEF MostCommon, Unambiguous

------------------------------------------------------------------------------
(* A group is made of candidates, in whichever order they came              *)

TypesOf(x) == [t \in DOMAIN x |-> x[t].types]
LabelsOf(x) == [t \in DOMAIN x |-> x[t].labels]
QidsOf(x) == [t \in DOMAIN x |-> x[t].qids]

\* The group g is what pooling the candidates x[t] makes, t in S.
MadeOf(g, x, S) ==
    /\ Tallies(g.types, TypesOf(x), S)
    /\ Tallies(g.labels, LabelsOf(x), S)
    /\ Tallies(g.qids, QidsOf(x), S)
    /\ g.evidence = UNION {x[t].evidence : t \in S}
    /\ \E t \in S : g.recency = x[t].recency
    /\ \A t \in S : x[t].recency <= g.recency
    /\ g.field = TRUE <=> \E t \in S : x[t].field = TRUE

LEMMA PooledIsMade ==
    ASSUME NEW x, x \in [DOMAIN x -> Group], NEW S \in SUBSET DOMAIN x, NEW R \in SUBSET DOMAIN x,
           IsFiniteSet(S), IsFiniteSet(R), S \cap R = {}, NEW g \in Group, NEW h \in Group,
           MadeOf(g, x, S), MadeOf(h, x, R)
    PROVE  MadeOf(Pooled(g, h), x, S \cup R)
<1> DEFINE p == Pooled(g, h)
<1>1. /\ p.types = g.types \o h.types /\ p.labels = g.labels \o h.labels
      /\ p.qids = g.qids \o h.qids /\ p.evidence = g.evidence \cup h.evidence
      /\ p.recency = Greatest({g.recency, h.recency})
      /\ p.field = (g.field \/ h.field)
  BY DEF Pooled
<1>2. /\ g.types \in Seq(HubType) /\ h.types \in Seq(HubType)
      /\ g.labels \in Seq(Words) /\ h.labels \in Seq(Words)
      /\ g.qids \in Seq(Seq(Nat)) /\ h.qids \in Seq(Seq(Nat))
      /\ g.recency \in Recency /\ h.recency \in Recency
      /\ g.field \in BOOLEAN /\ h.field \in BOOLEAN
  BY DEF Group
<1> HIDE DEF p
<1>3. Tallies(p.types, TypesOf(x), S \cup R)
  <2>1. Tallies(g.types, TypesOf(x), S) /\ Tallies(h.types, TypesOf(x), R)
    BY DEF MadeOf
  <2>2. Tallies(g.types \o h.types, TypesOf(x), S \cup R)
    BY <1>2, <2>1, TalliesJoin
  <2>3. QED
    BY <1>1, <2>2
<1>4. Tallies(p.labels, LabelsOf(x), S \cup R)
  <2>1. Tallies(g.labels, LabelsOf(x), S) /\ Tallies(h.labels, LabelsOf(x), R)
    BY DEF MadeOf
  <2>2. Tallies(g.labels \o h.labels, LabelsOf(x), S \cup R)
    BY <1>2, <2>1, TalliesJoin
  <2>3. QED
    BY <1>1, <2>2
<1>5. Tallies(p.qids, QidsOf(x), S \cup R)
  <2>1. Tallies(g.qids, QidsOf(x), S) /\ Tallies(h.qids, QidsOf(x), R)
    BY DEF MadeOf
  <2>2. Tallies(g.qids \o h.qids, QidsOf(x), S \cup R)
    BY <1>2, <2>1, TalliesJoin
  <2>3. QED
    BY <1>1, <2>2
<1>6. p.evidence = UNION {x[t].evidence : t \in S \cup R}
  <2>1. /\ g.evidence = UNION {x[t].evidence : t \in S}
        /\ h.evidence = UNION {x[t].evidence : t \in R}
    BY DEF MadeOf
  <2>2. {x[t].evidence : t \in S \cup R} = {x[t].evidence : t \in S} \cup {x[t].evidence : t \in R}
    OBVIOUS
  <2>3. QED
    BY <1>1, <2>1, <2>2
<1>7. /\ p.recency = g.recency \/ p.recency = h.recency
      /\ g.recency <= p.recency /\ h.recency <= p.recency
      /\ p.recency \in Int /\ g.recency \in Int /\ h.recency \in Int
  <2> DEFINE both == {g.recency, h.recency}
  <2>1. both \in SUBSET Recency /\ both # {} /\ both \subseteq Int
    BY <1>2 DEF Recency
  <2>2. g.recency <= h.recency \/ h.recency <= g.recency
    BY <2>1
  <2>3. \E n \in both : \A m \in both : m <= n
    BY <2>1, <2>2
  <2>4. Greatest(both) \in both /\ \A m \in both : m <= Greatest(both)
    BY <2>3 DEF Greatest
  <2>5. QED
    BY <1>1, <2>1, <2>4
<1>8. \A t \in S \cup R : x[t].recency \in Int
  <2>1. \A t \in S \cup R : x[t] \in Group
    OBVIOUS
  <2>2. \A c \in Group : c.recency \in Int
    BY DEF Group, Recency
  <2>3. QED
    BY <2>1, <2>2
<1>9. \E t \in S \cup R : p.recency = x[t].recency
  BY <1>7 DEF MadeOf
<1>10. \A t \in S \cup R : x[t].recency <= p.recency
  <2>1. \A t \in S : x[t].recency <= g.recency
    BY DEF MadeOf
  <2>2. \A t \in R : x[t].recency <= h.recency
    BY DEF MadeOf
  <2>3. \A a, b, c \in Int : a <= b /\ b <= c => a <= c
    OBVIOUS
  <2>4. QED
    BY <1>7, <1>8, <2>1, <2>2, <2>3
<1>11. p.field = TRUE <=> \E t \in S \cup R : x[t].field = TRUE
  <2>1. p.field = TRUE <=> g.field = TRUE \/ h.field = TRUE
    BY <1>1, <1>2
  <2>2. QED
    BY <2>1 DEF MadeOf
<1>12. QED
  BY <1>3, <1>4, <1>5, <1>6, <1>9, <1>10, <1>11 DEF MadeOf, p

LEMMA MadeStays ==
    ASSUME NEW g, NEW x, NEW y, NEW S, S \subseteq DOMAIN x, S \subseteq DOMAIN y,
           \A t \in S : y[t] = x[t], MadeOf(g, x, S)
    PROVE  MadeOf(g, y, S)
<1>1. /\ \A t \in S : TypesOf(y)[t] = TypesOf(x)[t]
      /\ \A t \in S : LabelsOf(y)[t] = LabelsOf(x)[t]
      /\ \A t \in S : QidsOf(y)[t] = QidsOf(x)[t]
  BY DEF TypesOf, LabelsOf, QidsOf
<1>2. Tallies(g.types, TypesOf(y), S)
  BY <1>1, TalliesStay DEF MadeOf
<1>3. Tallies(g.labels, LabelsOf(y), S)
  BY <1>1, TalliesStay DEF MadeOf
<1>4. Tallies(g.qids, QidsOf(y), S)
  BY <1>1, TalliesStay DEF MadeOf
<1>5. {y[t].evidence : t \in S} = {x[t].evidence : t \in S}
  OBVIOUS
<1>6. /\ \E t \in S : g.recency = y[t].recency
      /\ \A t \in S : y[t].recency <= g.recency
      /\ g.field = TRUE <=> \E t \in S : y[t].field = TRUE
  BY DEF MadeOf
<1>7. QED
  BY <1>2, <1>3, <1>4, <1>5, <1>6 DEF MadeOf

\* What one candidate makes on its own.
Single(g) ==
    /\ g \in Group
    /\ \E type : g.types = <<type>>
    /\ \E label : g.labels = <<label>>
    /\ g.qids = <<>> \/ \E qid : g.qids = <<qid>>

LEMMA SingleIsMade ==
    ASSUME NEW x, NEW t \in DOMAIN x, Single(x[t])
    PROVE  MadeOf(x[t], x, {t})
<1>1. /\ TypesOf(x)[t] = x[t].types /\ LabelsOf(x)[t] = x[t].labels /\ QidsOf(x)[t] = x[t].qids
  BY DEF TypesOf, LabelsOf, QidsOf
<1>2. Tallies(x[t].types, TypesOf(x), {t})
  BY <1>1, OneTallies DEF Single
<1>3. Tallies(x[t].labels, LabelsOf(x), {t})
  BY <1>1, OneTallies DEF Single
<1>4. Tallies(x[t].qids, QidsOf(x), {t})
  BY <1>1, OneTallies DEF Single
<1>5. x[t].recency <= x[t].recency
  BY DEF Single, Group, Recency
<1>6. QED
  BY <1>2, <1>3, <1>4, <1>5 DEF MadeOf

\* Two groups made of the same are one hub.
LEMMA MadeAlike ==
    ASSUME NEW x, NEW S, NEW g \in Group, NEW h \in Group, MadeOf(g, x, S), MadeOf(h, x, S)
    PROVE  /\ Identity(g) = Identity(h) /\ HubId(g) = HubId(h)
           /\ g.evidence = h.evidence /\ g.recency = h.recency /\ g.field = h.field
<1>1. /\ g.types \in Seq(HubType) /\ h.types \in Seq(HubType)
      /\ g.labels \in Seq(Words) /\ h.labels \in Seq(Words)
      /\ g.qids \in Seq(Seq(Nat)) /\ h.qids \in Seq(Seq(Nat))
      /\ g.recency \in Int /\ h.recency \in Int
      /\ g.field \in BOOLEAN /\ h.field \in BOOLEAN
  BY DEF Group, Recency
<1>2. MostCommon(g.types) = MostCommon(h.types)
  BY <1>1, TalliesElect DEF MadeOf
<1>3. MostCommon(g.labels) = MostCommon(h.labels)
  BY <1>1, TalliesElect DEF MadeOf
<1>4. Unambiguous(g.qids) = Unambiguous(h.qids)
  BY <1>1, TalliesElect DEF MadeOf
<1>5. g.evidence = h.evidence
  BY DEF MadeOf
<1>6. g.recency = h.recency
  <2>1. g.recency <= h.recency /\ h.recency <= g.recency
    BY DEF MadeOf
  <2>2. QED
    BY <1>1, <2>1
<1>7. g.field = h.field
  <2>1. g.field = TRUE <=> h.field = TRUE
    BY DEF MadeOf
  <2>2. QED
    BY <1>1, <2>1
<1>8. Identity(g) = Identity(h)
  BY <1>2, <1>3 DEF Identity
<1>9. QED
  BY <1>4, <1>5, <1>6, <1>7, <1>8 DEF HubId

WithKey(x, key) == {t \in DOMAIN x : x[t].key = key}

\* The list has a group per key, each made of the candidates of that key.
Lists(groups, x) ==
    /\ groups \in Seq(Group)
    /\ x \in [DOMAIN x -> Group] /\ IsFiniteSet(DOMAIN x)
    /\ \A i, j \in DOMAIN groups : groups[i].key = groups[j].key => i = j
    /\ \A i \in DOMAIN groups : \E t \in DOMAIN x : x[t].key = groups[i].key
    /\ \A t \in DOMAIN x : \E i \in DOMAIN groups : groups[i].key = x[t].key
    /\ \A i \in DOMAIN groups : MadeOf(groups[i], x, WithKey(x, groups[i].key))

LEMMA AddedAreGroups ==
    ASSUME NEW groups \in Seq(Group), NEW g \in Group
    PROVE  AddGroup(groups, g) \in Seq(Group)
<1>1. CASE \E i \in DOMAIN groups : groups[i].key = g.key
  <2> DEFINE n == Len(groups)
             pooled == [i \in DOMAIN groups |->
                          IF groups[i].key = g.key THEN Pooled(groups[i], g) ELSE groups[i]]
  <2>1. AddGroup(groups, g) = pooled
    BY <1>1 DEF AddGroup
  <2>2. DOMAIN groups = 1 .. n /\ n \in Nat /\ \A i \in DOMAIN groups : groups[i] \in Group
    OBVIOUS
  <2>3. \A i \in DOMAIN groups : Pooled(groups[i], g) \in Group
    BY <2>2, PooledIsGroup
  <2>4. pooled \in [1 .. n -> Group]
    BY <2>2, <2>3
  <2> HIDE DEF pooled, n
  <2>5. pooled \in Seq(Group)
    BY <2>2, <2>4
  <2>6. QED
    BY <2>1, <2>5
<1>2. CASE ~(\E i \in DOMAIN groups : groups[i].key = g.key)
  <2>1. AddGroup(groups, g) = Append(groups, g)
    BY <1>2 DEF AddGroup
  <2>2. \A T : \A s \in Seq(T), e \in T : Append(s, e) \in Seq(T)
    OBVIOUS
  <2>3. QED
    BY <2>1, <2>2
<1>3. QED
  BY <1>1, <1>2

LEMMA AddedIsListed ==
    ASSUME NEW groups, NEW x, Lists(groups, x), NEW t, t \notin DOMAIN x,
           NEW y \in [DOMAIN x \cup {t} -> Group], \A u \in DOMAIN x : y[u] = x[u], Single(y[t])
    PROVE  Lists(AddGroup(groups, y[t]), y)
<1> DEFINE g == y[t]
           made == AddGroup(groups, g)
           n == Len(groups)
<1>1. /\ groups \in Seq(Group) /\ n \in Nat /\ DOMAIN groups = 1 .. n
      /\ \A i \in DOMAIN groups : groups[i] \in Group
  BY DEF Lists
<1>2. /\ DOMAIN y = DOMAIN x \cup {t} /\ y \in [DOMAIN y -> Group] /\ IsFiniteSet(DOMAIN y)
      /\ g \in Group /\ t \in DOMAIN y
  <2>1. IsFiniteSet(DOMAIN x) /\ IsFiniteSet({t})
    BY FS_Singleton DEF Lists
  <2>2. IsFiniteSet(DOMAIN x \cup {t})
    BY <2>1, FS_Union
  <2>3. QED
    BY <2>2
<1>3. made \in Seq(Group)
  BY <1>1, <1>2, AddedAreGroups
<1>4. \A key : WithKey(y, key) = WithKey(x, key) \cup (IF g.key = key THEN {t} ELSE {})
  BY <1>2 DEF WithKey
<1>5. \A key : /\ WithKey(x, key) \subseteq DOMAIN x /\ t \notin WithKey(x, key)
               /\ IsFiniteSet(WithKey(x, key))
  <2>1. \A key : WithKey(x, key) \in SUBSET DOMAIN x
    BY DEF WithKey
  <2>2. IsFiniteSet(DOMAIN x)
    BY DEF Lists
  <2>3. QED
    BY <2>1, <2>2, FS_Subset
<1>6. MadeOf(g, y, {t})
  BY <1>2, SingleIsMade
<1>7. ASSUME NEW i \in DOMAIN groups
      PROVE  MadeOf(groups[i], y, WithKey(x, groups[i].key))
  <2> DEFINE S == WithKey(x, groups[i].key)
  <2>1. MadeOf(groups[i], x, S) /\ S \subseteq DOMAIN x /\ S \subseteq DOMAIN y
    BY <1>2, <1>5 DEF Lists
  <2>2. \A u \in S : y[u] = x[u]
    BY <2>1
  <2> HIDE DEF S
  <2>3. MadeOf(groups[i], y, S)
    BY <2>1, <2>2, MadeStays
  <2>4. QED
    BY <2>3 DEF S
<1> HIDE DEF g, made
<1>8. CASE \E i \in DOMAIN groups : groups[i].key = g.key
  <2>1. made = [i \in DOMAIN groups |->
                  IF groups[i].key = g.key THEN Pooled(groups[i], g) ELSE groups[i]]
    BY <1>8 DEF AddGroup, made
  <2>2. DOMAIN made = DOMAIN groups /\ \A i \in DOMAIN groups : made[i].key = groups[i].key
    BY <1>1, <1>2, <2>1, PooledIsGroup
  <2>3. ASSUME NEW i \in DOMAIN groups PROVE MadeOf(made[i], y, WithKey(y, groups[i].key))
    <3> DEFINE S == WithKey(x, groups[i].key)
    <3>1. MadeOf(groups[i], y, S) /\ groups[i] \in Group
      BY <1>1, <1>7
    <3>2. CASE groups[i].key = g.key
      <4>1. made[i] = Pooled(groups[i], g) /\ WithKey(y, groups[i].key) = S \cup {t}
        BY <1>4, <2>1, <3>2
      <4>2. S \in SUBSET DOMAIN y /\ {t} \in SUBSET DOMAIN y /\ S \cap {t} = {}
        BY <1>2, <1>5
      <4>3. IsFiniteSet(S) /\ IsFiniteSet({t})
        BY <1>5, FS_Singleton
      <4> HIDE DEF S
      <4>4. MadeOf(Pooled(groups[i], g), y, S \cup {t})
        BY <1>2, <1>6, <3>1, <4>2, <4>3, PooledIsMade
      <4>5. QED
        BY <4>1, <4>4
    <3>3. CASE groups[i].key # g.key
      <4>1. made[i] = groups[i] /\ WithKey(y, groups[i].key) = S
        BY <1>4, <2>1, <3>3
      <4>2. QED
        BY <3>1, <4>1
    <3>4. QED
      BY <3>2, <3>3
  <2>4. \A i, j \in DOMAIN made : made[i].key = made[j].key => i = j
    BY <2>2 DEF Lists
  <2>5. \A i \in DOMAIN made : \E u \in DOMAIN y : y[u].key = made[i].key
    BY <1>2, <2>2 DEF Lists
  <2>6. \A u \in DOMAIN y : \E i \in DOMAIN made : made[i].key = y[u].key
    BY <1>2, <1>8, <2>2 DEF Lists, g
  <2>7. \A i \in DOMAIN made : MadeOf(made[i], y, WithKey(y, made[i].key))
    BY <2>2, <2>3
  <2>8. QED
    BY <1>2, <1>3, <2>4, <2>5, <2>6, <2>7 DEF Lists, made, g
<1>9. CASE ~(\E i \in DOMAIN groups : groups[i].key = g.key)
  <2>1. made = Append(groups, g)
    BY <1>9 DEF AddGroup, made
  <2>2. /\ DOMAIN made = 1 .. (n + 1) /\ made[n + 1] = g
        /\ \A i \in DOMAIN groups : made[i] = groups[i]
    BY <1>1, <1>2, <2>1
  <2>3. \A i \in DOMAIN made : i \in DOMAIN groups \/ i = n + 1
    BY <1>1, <2>2
  <2>4. WithKey(x, g.key) = {}
    BY <1>9 DEF Lists, WithKey
  <2>5. ASSUME NEW i \in DOMAIN made PROVE MadeOf(made[i], y, WithKey(y, made[i].key))
    <3>1. CASE i \in DOMAIN groups
      <4>1. made[i] = groups[i] /\ WithKey(y, made[i].key) = WithKey(x, groups[i].key)
        BY <1>4, <1>9, <2>2, <3>1
      <4>2. QED
        BY <1>7, <3>1, <4>1
    <3>2. CASE i = n + 1
      <4>1. made[i] = g /\ WithKey(y, made[i].key) = {t}
        BY <1>4, <2>2, <2>4, <3>2
      <4>2. QED
        BY <1>6, <4>1 DEF g
    <3>3. QED
      BY <2>3, <3>1, <3>2
  <2>6. \A i, j \in DOMAIN made : made[i].key = made[j].key => i = j
    BY <1>9, <2>2, <2>3 DEF Lists
  <2>7. \A i \in DOMAIN made : \E u \in DOMAIN y : y[u].key = made[i].key
    BY <1>2, <2>2, <2>3 DEF Lists, g
  <2>8. \A u \in DOMAIN y : \E i \in DOMAIN made : made[i].key = y[u].key
    <3> SUFFICES ASSUME NEW u \in DOMAIN y PROVE \E i \in DOMAIN made : made[i].key = y[u].key
      OBVIOUS
    <3>1. CASE u = t
      <4>1. n + 1 \in DOMAIN made
        BY <1>1, <2>2
      <4>2. QED
        BY <2>2, <3>1, <4>1 DEF g
    <3>2. CASE u \in DOMAIN x
      <4>1. PICK i \in DOMAIN groups : groups[i].key = x[u].key
        BY <3>2 DEF Lists
      <4>2. i \in DOMAIN made
        BY <1>1, <2>2
      <4>3. QED
        BY <2>2, <3>2, <4>1, <4>2
    <3>3. QED
      BY <1>2, <3>1, <3>2
  <2>9. QED
    BY <1>2, <1>3, <2>5, <2>6, <2>7, <2>8 DEF Lists, made, g
<1>10. QED
  BY <1>8, <1>9

------------------------------------------------------------------------------
(* The candidates of one answer, in either order                            *)

Kept(hub, new, batch, names) == ~Refused(hub) /\ Evidence(hub, new, batch, names) # <<>>
Candidate(hub, new, batch, names) == GroupOf(hub, Evidence(hub, new, batch, names), batch, new)

\* The tokens of x and one per candidate in D, of the nth answer.
Joined(x, c, n, D) ==
    [t \in DOMAIN x \cup {<<n, k>> : k \in D} |-> IF t \in DOMAIN x THEN x[t] ELSE c[t[2]]]

\* What of K stands in the first i places.
SeenBy(i, K, place) == {k \in K : \E j \in 1 .. i : place[j] = k}

\* A rearrangement of m places.
Rearranges(place, m) ==
    /\ place \in [1 .. m -> 1 .. m]
    /\ \A i, j \in 1 .. m : place[i] = place[j] => i = j
    /\ \A k \in 1 .. m : \E i \in 1 .. m : place[i] = k

LEMMA OneMoreSeen ==
    ASSUME NEW m \in Nat, NEW place, Rearranges(place, m), NEW K \in SUBSET (1 .. m),
           NEW i \in 1 .. m
    PROVE  /\ place[i] \in K => /\ SeenBy(i, K, place) = SeenBy(i - 1, K, place) \cup {place[i]}
                                /\ place[i] \notin SeenBy(i - 1, K, place)
           /\ place[i] \notin K => SeenBy(i, K, place) = SeenBy(i - 1, K, place)
<1>1. \A j : j \in 1 .. i <=> j = i \/ j \in 1 .. (i - 1)
  OBVIOUS
<1>2. \A j \in 1 .. (i - 1) : j \in 1 .. m /\ j # i
  OBVIOUS
<1>3. \A j \in 1 .. (i - 1) : place[j] # place[i]
  BY <1>2 DEF Rearranges
<1>4. \A k \in K : k \in SeenBy(i, K, place) <=> k \in SeenBy(i - 1, K, place) \/ k = place[i]
  BY <1>1 DEF SeenBy
<1>5. place[i] \notin SeenBy(i - 1, K, place)
  BY <1>3 DEF SeenBy
<1>6. SeenBy(i, K, place) \subseteq K /\ SeenBy(i - 1, K, place) \subseteq K
  BY DEF SeenBy
<1> DEFINE now == SeenBy(i, K, place)
           last == SeenBy(i - 1, K, place)
           k == place[i]
<1>7. now \subseteq K /\ last \subseteq K /\ \A l \in K : l \in now <=> l \in last \/ l = k
  BY <1>4, <1>6
<1> HIDE DEF now, last, k
<1>8. k \in K => now = last \cup {k}
  BY <1>7
<1>9. k \notin K => now = last
  BY <1>7
<1>10. QED
  BY <1>5, <1>8, <1>9 DEF now, last, k

\* K are the places of the candidates an answer is left with, c what they make.
Leaves(hubs, new, batch, names, K, c) ==
    /\ K \subseteq DOMAIN hubs
    /\ \A k \in DOMAIN hubs : k \in K <=> Kept(hubs[k], new, batch, names)
    /\ \A k \in K : c[k] = Candidate(hubs[k], new, batch, names) /\ Single(c[k])

Reordered(list, hubs, place) ==
    /\ list \in Seq(CandidateHub) /\ hubs \in Seq(CandidateHub) /\ Len(list) = Len(hubs)
    /\ Rearranges(place, Len(hubs))
    /\ \A i \in 1 .. Len(hubs) : list[i] = hubs[place[i]]

IsNew(n, K, x) == \A k \in K : <<n, k>> \notin DOMAIN x

\* In whichever places an answer lists its candidates, they make the same groups.
LEMMA CandidatesAreListed ==
    ASSUME NEW groups, NEW x, Lists(groups, x), NEW new, NEW batch, NEW answer, NEW reserved,
           NEW hubs, NEW place, Reordered(answer.hubs, hubs, place),
           NEW K, NEW c, Leaves(hubs, new, batch, IdMap(new, reserved), K, c),
           NEW n, IsNew(n, K, x)
    PROVE  Lists(CollectHubs(groups, new, batch, answer, reserved), Joined(x, c, n, K))
<1> DEFINE names == IdMap(new, reserved)
           list == answer.hubs
           m == Len(hubs)
<1>1. /\ list \in Seq(CandidateHub) /\ Len(list) = m /\ DOMAIN list = 1 .. m
      /\ m \in Nat /\ DOMAIN hubs = 1 .. m
      /\ \A i \in 1 .. m : list[i] = hubs[place[i]]
  BY DEF Reordered
<1>2. groups \in Seq(Group)
  BY DEF Lists
<1>12. Rearranges(place, m) /\ \A i \in 1 .. m : place[i] \in 1 .. m
  BY DEF Reordered, Rearranges
<1>13. K \in SUBSET (1 .. m) /\ \A k \in K : Single(c[k])
  BY <1>1 DEF Leaves
<1>14. m \in Nat /\ Rearranges(place, m) /\ K \in SUBSET (1 .. m)
  BY <1>1, <1>12, <1>13
<1>3. \A i \in 1 .. m : /\ place[i] \in K <=> Kept(list[i], new, batch, names)
                        /\ place[i] \in K => c[place[i]] = Candidate(list[i], new, batch, names)
  BY <1>1, <1>12 DEF Leaves
<1>4. \A a : \A i \in 1 .. m :
         HubTaken(a, list[i], new, batch, names) =
            IF place[i] \in K THEN AddGroup(a, c[place[i]]) ELSE a
  BY <1>3 DEF HubTaken, Kept, Candidate
<1> HIDE DEF names, list, m
<1>5. \A a \in Seq(Group), hub \in Range(list) :
         HubTaken(a, hub, new, batch, names) \in Seq(Group)
  <2> SUFFICES ASSUME NEW a \in Seq(Group), NEW i \in 1 .. m
               PROVE  HubTaken(a, list[i], new, batch, names) \in Seq(Group)
    BY <1>1 DEF Range
  <2>1. CASE place[i] \in K
    <3>1. c[place[i]] \in Group
      BY <1>13, <2>1 DEF Single
    <3>2. AddGroup(a, c[place[i]]) \in Seq(Group)
      BY <3>1, AddedAreGroups
    <3>3. HubTaken(a, list[i], new, batch, names) = AddGroup(a, c[place[i]])
      BY <1>4, <2>1
    <3>4. QED
      BY <3>2, <3>3
  <2>2. CASE place[i] \notin K
    <3>1. HubTaken(a, list[i], new, batch, names) = a
      BY <1>4, <2>2
    <3>2. QED
      BY <3>1
  <2>3. QED
    BY <2>1, <2>2
<1>6. PICK run : /\ run \in [0 .. m -> Seq(Group)] /\ run[0] = groups
                 /\ \A i \in 1 .. m : run[i] = HubTaken(run[i - 1], list[i], new, batch, names)
                 /\ run[m] = CollectHubs(groups, new, batch, answer, reserved)
  <2> DEFINE A == Seq(Group)
  <2>1. groups \in A /\ TakesWithin(A, list, new, batch, names)
    BY <1>2, <1>5 DEF TakesWithin
  <2> HIDE DEF A
  <2>3. /\ groups \in A /\ answer.hubs \in Seq(CandidateHub)
        /\ TakesWithin(A, answer.hubs, new, batch, IdMap(new, reserved))
    BY <1>1, <2>1 DEF list, names
  <2>4. \E run : /\ TakesEach(run, A, groups, answer.hubs, new, batch, IdMap(new, reserved))
                 /\ run[Len(answer.hubs)] = CollectHubs(groups, new, batch, answer, reserved)
    BY <2>3, HubsAreRun
  <2>2. PICK run : /\ TakesEach(run, A, groups, list, new, batch, names)
                   /\ run[Len(list)] = CollectHubs(groups, new, batch, answer, reserved)
    BY <2>4 DEF list, names
  <2>5. QED
    BY <1>1, <2>2 DEF TakesEach, A
<1> DEFINE Seen(i) == SeenBy(i, K, place)
           Y(i) == Joined(x, c, n, Seen(i))
           Good == {i \in 0 .. m : Lists(run[i], Y(i))}
<1>7. 0 \in Good
  <2>1. Seen(0) = {}
    BY DEF SeenBy
  <2>6. {<<n, k>> : k \in {}} = {}
    OBVIOUS
  <2>2. Y(0) = [t \in DOMAIN x |-> x[t]]
    <3> HIDE DEF Seen
    <3>1. DOMAIN x \cup {<<n, k>> : k \in Seen(0)} = DOMAIN x
      BY <2>1, <2>6
    <3>2. QED
      BY <3>1 DEF Joined
  <2>3. x = [t \in DOMAIN x |-> x[t]]
    BY DEF Lists
  <2>4. Y(0) = x
    BY <2>2, <2>3
  <2> HIDE DEF Y
  <2>5. QED
    BY <1>1, <1>6, <2>4
<1>8. ASSUME NEW i \in 1 .. m, i - 1 \in Good PROVE i \in Good
  <2> DEFINE k == place[i]
             y == Y(i)
             z == Y(i - 1)
             before == run[i - 1]
  <2>1. Lists(before, z) /\ run[i] = HubTaken(before, list[i], new, batch, names) /\ i \in 0 .. m
    BY <1>6, <1>8
  <2>2. /\ place[i] \in K => /\ SeenBy(i, K, place) = SeenBy(i - 1, K, place) \cup {place[i]}
                             /\ place[i] \notin SeenBy(i - 1, K, place)
        /\ place[i] \notin K => SeenBy(i, K, place) = SeenBy(i - 1, K, place)
    BY <1>14, OneMoreSeen
  <2>3. CASE k \in K
    <3>1. Seen(i) = Seen(i - 1) \cup {k} /\ k \notin Seen(i - 1)
      BY <2>2, <2>3
    <3> DEFINE t == <<n, k>>
    <3>2. /\ DOMAIN z = DOMAIN x \cup {<<n, l>> : l \in Seen(i - 1)}
          /\ DOMAIN y = DOMAIN x \cup {<<n, l>> : l \in Seen(i)}
      BY DEF Joined
    <3>3. t \notin DOMAIN z /\ DOMAIN y = DOMAIN z \cup {t}
      <4> HIDE DEF Seen, y, z, k
      <4>1. t \notin DOMAIN x
        BY <2>3 DEF IsNew
      <4>2. t \notin {<<n, l>> : l \in Seen(i - 1)}
        BY <3>1
      <4>3. {<<n, l>> : l \in Seen(i)} = {<<n, l>> : l \in Seen(i - 1)} \cup {t}
        BY <3>1
      <4>4. QED
        BY <3>2, <4>1, <4>2, <4>3
    <3>4. \A u \in DOMAIN z : y[u] = z[u]
      BY <3>2, <3>3 DEF Joined
    <3>5. y[t] = c[k]
      <4>1. t \in DOMAIN y /\ t \notin DOMAIN x
        BY <2>3, <3>3 DEF IsNew
      <4>2. QED
        BY <4>1 DEF Joined
    <3>6. Single(y[t]) /\ c[k] \in Group
      <4>1. Single(c[k])
        BY <1>13, <2>3
      <4> HIDE DEF y, t, k
      <4>2. QED
        BY <3>5, <4>1 DEF Single
    <3>7. y = [u \in DOMAIN y |-> y[u]] /\ z \in [DOMAIN z -> Group]
      BY <2>1 DEF Joined, Lists
    <3> HIDE DEF y, z, t, k, before
    <3>8. y \in [DOMAIN z \cup {t} -> Group]
      <4>1. \A u \in DOMAIN y : y[u] \in Group
        BY <3>3, <3>4, <3>5, <3>6, <3>7
      <4>2. QED
        BY <3>3, <3>7, <4>1
    <3>9. Lists(AddGroup(before, y[t]), y)
      BY <2>1, <3>3, <3>4, <3>6, <3>8, AddedIsListed
    <3>10. run[i] = AddGroup(before, y[t])
      <4>1. HubTaken(before, list[i], new, batch, names) = AddGroup(before, c[k])
        BY <1>4, <2>3 DEF k
      <4>2. QED
        BY <2>1, <3>5, <4>1
    <3>11. QED
      BY <2>1, <3>9, <3>10 DEF y
  <2>4. CASE k \notin K
    <3>1. Seen(i) = Seen(i - 1)
      BY <2>2, <2>4
    <3>2. run[i] = before
      <4>1. place[i] \notin K /\ run[i] = HubTaken(before, list[i], new, batch, names)
        BY <2>1, <2>4
      <4> HIDE DEF before
      <4>2. QED
        BY <1>4, <4>1
    <3> HIDE DEF Seen
    <3>3. y = z
      BY <3>1
    <3> HIDE DEF before
    <3>4. QED
      BY <2>1, <3>2, <3>3
  <2>5. QED
    BY <2>3, <2>4
<1>9. m \in Good
  <2> HIDE DEF Good
  <2>1. \A i \in 0 .. m : i \in Good
    BY <1>1, <1>7, <1>8, Climb
  <2>2. QED
    BY <1>1, <2>1
<1>10. Seen(m) = K
  BY <1>12, <1>13 DEF SeenBy, Rearranges
<1> HIDE DEF Seen
<1>11. QED
  BY <1>6, <1>9, <1>10

------------------------------------------------------------------------------
(* Groups merged, in whichever order they are listed                        *)

\* What is pooled after each group of the list.
PoolsEach(run, first, s) ==
    /\ run \in [0 .. Len(s) -> Group] /\ run[0] = first
    /\ \A i \in 1 .. Len(s) : run[i] = Pooled(run[i - 1], s[i])

LEMMA PoolsAreRun ==
    ASSUME NEW first \in Group, NEW s \in Seq(Group)
    PROVE  \E run : PoolsEach(run, first, s) /\ run[Len(s)] = FoldLeft(Pooled, first, s)
<1> DEFINE n == Len(s)
           A == Group
           step == [c \in (1 .. n) \X A |-> Pooled(c[2], s[c[1]])]
           Folds(g) == g = [t \in SUBSET DOMAIN s |->
                              IF t = {} THEN first
                              ELSE Pooled(g[t \ {Max(t)}], s[Max(t)])]
           fold == CHOOSE g : Folds(g)
           run == [i \in 0 .. n |-> fold[1 .. i]]
<1>1. FoldLeft(Pooled, first, s) = fold[DOMAIN s]
  BY DEF FoldLeft, MapThenFoldSet
<1>2. n \in Nat /\ DOMAIN s = 1 .. n /\ \A i \in 1 .. n : s[i] \in A
  OBVIOUS
<1>3. first \in A
  OBVIOUS
<1>4. \A a \in A, i \in 1 .. n : Pooled(a, s[i]) \in A
  BY <1>2, PooledIsGroup
<1> HIDE DEF A, n
<1>5. /\ step \in [(1 .. n) \X A -> A]
      /\ \A i \in 1 .. n : \A a \in A : step[<<i, a>>] = Pooled(a, s[i])
  BY <1>4
<1> HIDE DEF step
<1>6. \E g : Folds(g)
  <2>1. PICK g : Solves(g, n, A, first, step)
    BY <1>2, <1>3, <1>5, FoldSolves
  <2>2. Folds(g)
    BY <1>2, <1>5, <2>1 DEF Solves
  <2>3. QED
    BY <2>2
<1>7. Folds(fold)
  BY <1>6
<1> HIDE DEF fold
<1>8. Follows(fold, n, A, first, step)
  <2>1. \A t \in SUBSET (1 .. n) : t # {} => Max(t) \in 1 .. n
    BY <1>2, MaxIsLast DEF IsLast
  <2>2. QED
    BY <1>2, <1>5, <1>7, <2>1 DEF Follows
<1>9. Steps(fold, n, A, first, step)
  BY <1>2, <1>3, <1>5, <1>8, FoldSteps
<1>10. run \in [0 .. n -> A] /\ run[0] = first
  BY <1>2, <1>9 DEF Steps
<1>11. ASSUME NEW i \in 1 .. n PROVE run[i] = Pooled(run[i - 1], s[i])
  <2>1. i \in 0 .. n /\ i - 1 \in 0 .. n
    BY <1>2
  <2>2. fold[1 .. (i - 1)] \in A /\ fold[1 .. i] = step[<<i, fold[1 .. (i - 1)]>>]
    BY <1>9, <2>1 DEF Steps
  <2>3. fold[1 .. i] = Pooled(fold[1 .. (i - 1)], s[i])
    BY <1>5, <2>2
  <2>4. QED
    BY <2>1, <2>3
<1>12. run[n] = FoldLeft(Pooled, first, s)
  <2>1. n \in 0 .. n
    BY <1>2
  <2>2. QED
    BY <1>1, <1>2, <2>1
<1> HIDE DEF run
<1>13. QED
  BY <1>10, <1>11, <1>12 DEF n, A, PoolsEach

\* The tokens that the first k groups of the list are made of.
HeardBy(k, mine, x) == {t \in DOMAIN x : \E i \in 1 .. k : x[t].key = mine[i].key}

\* Groups of different keys, each made of the candidates of its key, pooled are made of all.
LEMMA FoldedIsMade ==
    ASSUME NEW x, x \in [DOMAIN x -> Group], IsFiniteSet(DOMAIN x),
           NEW mine \in Seq(Group), mine # <<>>,
           \A i, j \in DOMAIN mine : mine[i].key = mine[j].key => i = j,
           \A i \in DOMAIN mine : MadeOf(mine[i], x, WithKey(x, mine[i].key))
    PROVE  /\ FoldLeft(Pooled, mine[1], Tail(mine)) \in Group
           /\ MadeOf(FoldLeft(Pooled, mine[1], Tail(mine)), x, HeardBy(Len(mine), mine, x))
<1> DEFINE s == Tail(mine)
           n == Len(s)
           first == mine[1]
           pooled == FoldLeft(Pooled, first, s)
<1>1. /\ n \in Nat /\ Len(mine) = n + 1 /\ DOMAIN mine = 1 .. (n + 1) /\ s \in Seq(Group)
      /\ first \in Group /\ \A i \in 1 .. n : s[i] = mine[i + 1] /\ s[i] \in Group
  OBVIOUS
<1> HIDE DEF s, n, first
<1>2. PICK run : PoolsEach(run, first, s) /\ run[Len(s)] = pooled
  BY <1>1, PoolsAreRun
<1>3. /\ run \in [0 .. n -> Group] /\ run[0] = first /\ run[n] = pooled
      /\ \A i \in 1 .. n : run[i] = Pooled(run[i - 1], s[i])
  BY <1>2 DEF PoolsEach, n
<1> HIDE DEF pooled
<1> DEFINE Good == {k \in 0 .. n : MadeOf(run[k], x, HeardBy(k + 1, mine, x))}
<1>4. 0 \in Good
  <2>1. HeardBy(1, mine, x) = WithKey(x, mine[1].key)
    BY DEF HeardBy, WithKey
  <2>2. 1 \in DOMAIN mine /\ 0 \in 0 .. n /\ 0 + 1 = 1
    BY <1>1
  <2>3. MadeOf(first, x, HeardBy(1, mine, x))
    BY <2>1, <2>2 DEF first
  <2>4. QED
    BY <1>3, <2>2, <2>3
<1>5. ASSUME NEW k \in 1 .. n, k - 1 \in Good PROVE k \in Good
  <2> DEFINE old == run[k - 1]
             g == mine[k + 1]
             S == HeardBy(k, mine, x)
             R == WithKey(x, g.key)
  <2>1. /\ k \in 0 .. n /\ k - 1 \in 0 .. n /\ (k - 1) + 1 = k /\ k + 1 \in DOMAIN mine
        /\ old \in Group /\ g \in Group /\ run[k] = Pooled(old, g)
    BY <1>1, <1>3
  <2>2. MadeOf(old, x, S) /\ MadeOf(g, x, R)
    BY <1>5, <2>1
  <2>3. S \in SUBSET DOMAIN x /\ R \in SUBSET DOMAIN x
    BY DEF HeardBy, WithKey
  <2>4. IsFiniteSet(S) /\ IsFiniteSet(R)
    <3> HIDE DEF S, R
    <3>1. QED
      BY <2>3, FS_Subset
  <2>5. \A i \in 1 .. k : i \in DOMAIN mine /\ i # k + 1
    BY <1>1
  <2>6. S \cap R = {}
    BY <2>1, <2>5 DEF HeardBy, WithKey
  <2>7. HeardBy(k + 1, mine, x) = S \cup R
    <3>1. \A i : i \in 1 .. (k + 1) <=> i \in 1 .. k \/ i = k + 1
      BY <1>1
    <3>2. QED
      BY <3>1 DEF HeardBy, WithKey
  <2> HIDE DEF old, g, S, R
  <2>8. MadeOf(Pooled(old, g), x, S \cup R)
    BY <2>1, <2>2, <2>3, <2>4, <2>6, PooledIsMade
  <2>9. QED
    BY <2>1, <2>7, <2>8
<1> HIDE DEF Good
<1>6. \A k \in 0 .. n : k \in Good
  BY <1>1, <1>4, <1>5, Climb
<1>7. n \in Good /\ n \in 0 .. n
  BY <1>1, <1>6
<1>8. pooled \in Group /\ MadeOf(pooled, x, HeardBy(Len(mine), mine, x))
  BY <1>1, <1>3, <1>7 DEF Good
<1>9. QED
  BY <1>8 DEF pooled, first, s

\* The candidates that go by an id: those of the groups that do.
Named(groups, x, id) ==
    {t \in DOMAIN x : \E i \in DOMAIN groups : groups[i].key = x[t].key /\ HubId(groups[i]) = id}

LEMMA MergedIsMade ==
    ASSUME NEW groups, NEW x, Lists(groups, x), NEW id \in DOMAIN Merged(groups)
    PROVE  Merged(groups)[id] \in Group /\ MadeOf(Merged(groups)[id], x, Named(groups, x, id))
<1> DEFINE M == {g \in Range(groups) : HubId(g) = id}
           mine == Within(groups, M)
<1>1. /\ Merged(groups)[id] = FoldLeft(Pooled, mine[1], Tail(mine))
      /\ \E i \in DOMAIN groups : HubId(groups[i]) = id
  BY DEF Merged
<1>2. groups \in Seq(Group) /\ \A i, j \in DOMAIN groups : groups[i].key = groups[j].key => i = j
  BY DEF Lists
<1>3. mine \in Seq(Group) /\ ToSet(mine) = M
  <2>1. mine \in Seq(Group) /\ ToSet(mine) = ToSet(groups) \cap M
    <3> HIDE DEF M
    <3>1. QED
      BY <1>2, WithinIsAll
  <2>2. M \subseteq ToSet(groups)
    BY DEF Range, ToSet
  <2>3. QED
    BY <2>1, <2>2
<1>4. \A i, j \in DOMAIN mine : mine[i] = mine[j] => i = j
  <2>1. \A i, j \in DOMAIN groups : groups[i] = groups[j] => i = j
    BY <1>2
  <2> HIDE DEF M
  <2>2. QED
    BY <1>2, <2>1, WithinIsDistinct
<1>5. \A g : g \in M <=> \E i \in DOMAIN groups : groups[i] = g /\ HubId(groups[i]) = id
  BY DEF Range
<1> HIDE DEF mine, M
<1>6. /\ \A i \in DOMAIN mine : mine[i] \in M
      /\ \A g \in M : \E i \in DOMAIN mine : mine[i] = g
      /\ mine # <<>>
  <2>1. ToSet(mine) = {mine[i] : i \in DOMAIN mine}
    BY DEF ToSet
  <2>2. M # {}
    BY <1>1, <1>5
  <2>3. DOMAIN <<>> = {}
    OBVIOUS
  <2>4. QED
    BY <1>3, <2>1, <2>2, <2>3
<1>7. \A i, j \in DOMAIN mine : mine[i].key = mine[j].key => i = j
  BY <1>2, <1>4, <1>5, <1>6
<1>8. \A i \in DOMAIN mine : MadeOf(mine[i], x, WithKey(x, mine[i].key))
  <2>1. \A i \in DOMAIN groups : MadeOf(groups[i], x, WithKey(x, groups[i].key))
    BY DEF Lists
  <2>2. QED
    BY <1>5, <1>6, <2>1
<1>9. x \in [DOMAIN x -> Group] /\ IsFiniteSet(DOMAIN x)
  BY DEF Lists
<1>10. /\ FoldLeft(Pooled, mine[1], Tail(mine)) \in Group
       /\ MadeOf(FoldLeft(Pooled, mine[1], Tail(mine)), x, HeardBy(Len(mine), mine, x))
  BY <1>3, <1>6, <1>7, <1>8, <1>9, FoldedIsMade
<1>11. HeardBy(Len(mine), mine, x) = Named(groups, x, id)
  <2>1. DOMAIN mine = 1 .. Len(mine)
    BY <1>3
  <2>2. ASSUME NEW t \in DOMAIN x
        PROVE  (\E i \in DOMAIN mine : x[t].key = mine[i].key)
                 <=> \E i \in DOMAIN groups : groups[i].key = x[t].key /\ HubId(groups[i]) = id
    <3>1. ASSUME NEW i \in DOMAIN mine, x[t].key = mine[i].key
          PROVE  \E j \in DOMAIN groups : groups[j].key = x[t].key /\ HubId(groups[j]) = id
      BY <1>5, <1>6, <3>1
    <3>2. ASSUME NEW j \in DOMAIN groups, groups[j].key = x[t].key, HubId(groups[j]) = id
          PROVE  \E i \in DOMAIN mine : x[t].key = mine[i].key
      <4>1. groups[j] \in M
        BY <1>5, <3>2
      <4>2. QED
        BY <1>6, <3>2, <4>1
    <3>3. QED
      BY <3>1, <3>2
  <2>3. QED
    BY <2>1, <2>2 DEF HeardBy, Named
<1>12. QED
  BY <1>1, <1>10, <1>11

\* An enumeration of a finite set is of its elements.
LEMMA SetToSeqIsOf ==
    ASSUME NEW S, IsFiniteSet(S)
    PROVE  \A k \in DOMAIN SetToSeq(S) : SetToSeq(S)[k] \in S
<1> DEFINE n == Cardinality(S)
<1>1. \E f \in [1 .. n -> S] : IsInjective(f)
  <2>1. PICK m \in Nat : ExistsBijection(1 .. m, S)
    BY FS_NatBijection
  <2>2. m = n
    BY <2>1, FS_CountingElements
  <2>3. PICK f : f \in Bijection(1 .. m, S)
    BY <2>1 DEF ExistsBijection
  <2>4. QED
    BY <2>2, <2>3 DEF Bijection, Injection, IsInjective
<1> HIDE DEF n
<1>2. SetToSeq(S) \in [1 .. n -> S]
  BY <1>1 DEF SetToSeq, n
<1>3. QED
  BY <1>2

\* The fields that outrank the kth.
Outranking(merged, ids, made, k) ==
    LET Size(i) == Cardinality(merged[ids[i]].evidence)
        Found(i) == FirstFound(merged[ids[i]].evidence, made)
    IN  {j \in DOMAIN ids : \/ Size(j) > Size(k)
                            \/ Size(j) = Size(k) /\ Found(j) < Found(k)
                            \/ Size(j) = Size(k) /\ Found(j) = Found(k) /\ j < k}

\* Two lists of the same candidates merge to the same hubs.
LEMMA ListsMergeAlike ==
    ASSUME NEW groups, NEW others, NEW x, Lists(groups, x), Lists(others, x), NEW made
    PROVE  MergeGroups(groups, made) = MergeGroups(others, made)
<1> DEFINE m == Merged(groups)
           w == Merged(others)
           D == DOMAIN m
<1>1. ASSUME NEW a, NEW b, Lists(a, x), Lists(b, x), NEW i \in DOMAIN a
      PROVE  \E j \in DOMAIN b : b[j].key = a[i].key /\ HubId(b[j]) = HubId(a[i])
  <2>1. PICK t \in DOMAIN x : x[t].key = a[i].key
    BY <1>1 DEF Lists
  <2>2. PICK j \in DOMAIN b : b[j].key = x[t].key
    BY <1>1 DEF Lists
  <2>3. a \in Seq(Group) /\ b \in Seq(Group)
    BY <1>1 DEF Lists
  <2>4. a[i] \in Group /\ b[j] \in Group
    BY <2>3
  <2> DEFINE S == WithKey(x, a[i].key)
  <2>5. MadeOf(a[i], x, S) /\ MadeOf(b[j], x, S)
    BY <1>1, <2>1, <2>2 DEF Lists
  <2> HIDE DEF S
  <2>6. HubId(b[j]) = HubId(a[i])
    BY <2>4, <2>5, MadeAlike
  <2>7. QED
    BY <2>1, <2>2, <2>6
<1>2. D = {HubId(groups[i]) : i \in DOMAIN groups} /\ DOMAIN w = {HubId(others[i]) : i \in DOMAIN others}
  BY DEF Merged
<1>3. DOMAIN w = D
  <2>1. \A i \in DOMAIN groups : \E j \in DOMAIN others : HubId(others[j]) = HubId(groups[i])
    BY <1>1
  <2>2. \A j \in DOMAIN others : \E i \in DOMAIN groups : HubId(groups[i]) = HubId(others[j])
    BY <1>1
  <2> HIDE DEF D, w
  <2>3. \A id \in D : id \in DOMAIN w
    BY <1>2, <2>1
  <2>4. \A id \in DOMAIN w : id \in D
    BY <1>2, <2>2
  <2>5. QED
    BY <2>3, <2>4
<1>4. \A id : Named(groups, x, id) = Named(others, x, id)
  <2>1. ASSUME NEW a, NEW b, Lists(a, x), Lists(b, x), NEW id
        PROVE  Named(a, x, id) \subseteq Named(b, x, id)
    <3>1. \A i \in DOMAIN a : \E j \in DOMAIN b : b[j].key = a[i].key /\ HubId(b[j]) = HubId(a[i])
      BY <1>1, <2>1
    <3>2. QED
      BY <3>1 DEF Named
  <2>2. QED
    BY <2>1
<1>5. ASSUME NEW id \in D
      PROVE  /\ Hub(id, m[id]) = Hub(id, w[id])
             /\ m[id].evidence = w[id].evidence /\ m[id].field = w[id].field
  <2> DEFINE S == Named(groups, x, id)
             g == m[id]
             h == w[id]
  <2>1. g \in Group /\ MadeOf(g, x, S)
    BY MergedIsMade
  <2>2. h \in Group /\ MadeOf(h, x, S)
    <3>1. id \in DOMAIN Merged(others)
      BY <1>3
    <3>2. Merged(others)[id] \in Group /\ MadeOf(Merged(others)[id], x, Named(others, x, id))
      BY <3>1, MergedIsMade
    <3>3. QED
      BY <1>4, <3>2
  <2> HIDE DEF S, g, h
  <2>3. Identity(g) = Identity(h) /\ g.evidence = h.evidence /\ g.recency = h.recency /\ g.field = h.field
    BY <2>1, <2>2, MadeAlike
  <2>4. Hub(id, g) = Hub(id, h)
    BY <2>3 DEF Hub
  <2>5. QED
    BY <2>3, <2>4 DEF g, h
<1>6. IsFiniteSet(D)
  <2> DEFINE n == Len(groups)
             I == DOMAIN groups
             Id == [i \in I |-> HubId(groups[i])]
  <2>1. groups \in Seq(Group)
    BY DEF Lists
  <2>2. I = 1 .. n /\ 1 \in Int /\ n \in Int
    BY <2>1
  <2> HIDE DEF n, I
  <2>3. IsFiniteSet(I)
    BY <2>2, FS_Interval
  <2>4. Id \in Surjection(I, D)
    BY <1>2 DEF Surjection, I
  <2> HIDE DEF Id, D
  <2>5. QED
    BY <2>3, <2>4, FS_Surjection
<1> HIDE DEF D, m, w
<1>7. SurplusFieldIds(m, made) = SurplusFieldIds(w, made)
  <2> DEFINE F == {id \in D : m[id].field}
             ids == SetToSeq(F)
  <2>1. F = {id \in DOMAIN w : w[id].field} /\ F = {id \in DOMAIN m : m[id].field}
    BY <1>3, <1>5 DEF D
  <2>2. IsFiniteSet(F)
    <3>1. F \in SUBSET D
      OBVIOUS
    <3> HIDE DEF F
    <3>2. QED
      BY <1>6, <3>1, FS_Subset
  <2>3. \A k \in DOMAIN ids : m[ids[k]].evidence = w[ids[k]].evidence
    <3>1. \A k \in DOMAIN ids : ids[k] \in F
      <4> HIDE DEF F
      <4>1. QED
        BY <2>2, SetToSeqIsOf
    <3> HIDE DEF ids
    <3>2. QED
      BY <1>5, <3>1
  <2> DEFINE Of(v) ==
               {ids[k] : k \in {k \in DOMAIN ids :
                                   Cardinality(Outranking(v, ids, made, k)) >= MAX_FIELD_HUBS}}
  <2>4. SurplusFieldIds(m, made) = Of(m)
    BY <2>1 DEF SurplusFieldIds, Outranking
  <2>5. SurplusFieldIds(w, made) = Of(w)
    BY <2>1 DEF SurplusFieldIds, Outranking
  <2> HIDE DEF ids
  <2>6. Of(m) = Of(w)
    <3>1. \A k \in DOMAIN ids : Outranking(m, ids, made, k) = Outranking(w, ids, made, k)
      BY <2>3 DEF Outranking
    <3>2. QED
      BY <3>1
  <2>7. QED
    BY <2>4, <2>5, <2>6
<1>8. QED
  <2> DEFINE surplus == SurplusFieldIds(m, made)
  <2>1. MergeGroups(groups, made) = {Hub(id, m[id]) : id \in D \ surplus}
    BY DEF MergeGroups, m, D
  <2>2. MergeGroups(others, made) = {Hub(id, w[id]) : id \in D \ surplus}
    BY <1>3, <1>7 DEF MergeGroups, w
  <2> HIDE DEF surplus
  <2>3. QED
    BY <1>5, <2>1, <2>2

------------------------------------------------------------------------------
(* What the answers would have made in the opposite order                   *)

LEMMA CandidateIsSingle ==
    ASSUME NEW docs, NEW given, NEW made, NEW hub, NEW new, NEW batch, NEW names,
           Candidate(hub, new, batch, names) \in Sound(docs, given, made)
    PROVE  Single(Candidate(hub, new, batch, names))
<1> DEFINE evidence == Evidence(hub, new, batch, names)
           g == GroupOf(hub, evidence, batch, new)
<1>1. g \in Group
  BY DEF Sound, Candidate
<1>2. /\ \E type : g.types = <<type>>
      /\ \E label : g.labels = <<label>>
      /\ g.qids = <<>> \/ \E qid : g.qids = <<qid>>
  BY DEF GroupOf
<1>3. QED
  BY <1>1, <1>2 DEF Single, Candidate

\* The groups of two lists of the same candidates, after an answer and after its reverse.
LEMMA ListsStayAlike ==
    ASSUME NEW groups, NEW others, NEW x, Lists(groups, x), Lists(others, x),
           NEW answer \in Answer, NEW new, NEW batch, NEW reserved, NEW docs, NEW given, NEW made,
           Founds(answer, new, batch, reserved, docs, given, made),
           NEW n \in Nat, DOMAIN x \subseteq (1 .. n) \X Nat
    PROVE  \E y : /\ Lists(CollectHubs(groups, new, batch, answer, reserved), y)
                  /\ Lists(CollectHubs(others, new, batch, Backwards(answer), reserved), y)
                  /\ DOMAIN y \subseteq (1 .. (n + 1)) \X Nat
<1> DEFINE hubs == answer.hubs
           m == Len(hubs)
           names == IdMap(new, reserved)
           K == {k \in DOMAIN hubs : Kept(hubs[k], new, batch, names)}
           c == [k \in K |-> Candidate(hubs[k], new, batch, names)]
           y == Joined(x, c, n + 1, K)
           back == Backwards(answer)
           same == [i \in 1 .. m |-> i]
           turned == [i \in 1 .. m |-> m + 1 - i]
<1>1. /\ hubs \in Seq(CandidateHub) /\ m \in Nat /\ DOMAIN hubs = 1 .. m
      /\ back.hubs = Reverse(hubs)
  BY DossierAssumption DEF ExtractionResult, Backwards
<1>2. Leaves(hubs, new, batch, names, K, c)
  <2>1. ASSUME NEW k \in K PROVE Single(c[k])
    <3>1. hubs[k] \in Range(answer.hubs) /\ Kept(hubs[k], new, batch, names)
      BY DEF Range
    <3>2. Candidate(hubs[k], new, batch, names) \in Sound(docs, given, made)
      BY <3>1 DEF Founds, Kept, Candidate
    <3>3. QED
      BY <3>2, CandidateIsSingle
  <2>2. QED
    BY <2>1 DEF Leaves
<1>3. IsNew(n + 1, K, x)
  <2>1. ASSUME NEW k, <<n + 1, k>> \in DOMAIN x PROVE FALSE
    <3>1. <<n + 1, k>> \in (1 .. n) \X Nat
      BY <2>1
    <3>2. n + 1 \in 1 .. n
      BY <3>1
    <3>3. QED
      BY <3>2
  <2>2. QED
    BY <2>1 DEF IsNew
<1>4. Reordered(hubs, hubs, same)
  BY <1>1 DEF Reordered, Rearranges
<1>5. Reordered(back.hubs, hubs, turned)
  <2> HIDE DEF hubs, back
  <2>1. Reverse(hubs) = [i \in 1 .. m |-> hubs[m - i + 1]]
    BY DEF Reverse
  <2>2. \A i \in 1 .. m : m - i + 1 \in 1 .. m /\ m + 1 - i = m - i + 1
    BY <1>1
  <2>3. Reverse(hubs) \in [1 .. m -> CandidateHub] /\ \A i \in 1 .. m : Reverse(hubs)[i] = hubs[turned[i]]
    BY <1>1, <2>1, <2>2
  <2>4. Rearranges(turned, m)
    <3>1. turned \in [1 .. m -> 1 .. m]
      BY <2>2
    <3>2. \A i, j \in 1 .. m : turned[i] = turned[j] => i = j
      BY <1>1
    <3>3. \A k \in 1 .. m : m + 1 - k \in 1 .. m /\ turned[m + 1 - k] = k
      BY <1>1
    <3>4. QED
      BY <3>1, <3>2, <3>3 DEF Rearranges
  <2> HIDE DEF m, turned
  <2>5. Reverse(hubs) \in Seq(CandidateHub) /\ Len(Reverse(hubs)) = m
    BY <1>1, <2>3
  <2>6. QED
    BY <1>1, <2>3, <2>4, <2>5 DEF Reordered, m
<1>6. DOMAIN y \subseteq (1 .. (n + 1)) \X Nat
  <2>1. DOMAIN y = DOMAIN x \cup {<<n + 1, k>> : k \in K}
    BY DEF Joined
  <2>2. \A k \in K : k \in Nat
    BY <1>1
  <2>3. n + 1 \in 1 .. (n + 1) /\ \A i \in 1 .. n : i \in 1 .. (n + 1)
    OBVIOUS
  <2> HIDE DEF K, y
  <2>4. QED
    BY <2>1, <2>2, <2>3
<1> DEFINE next == n + 1
<1> HIDE DEF K, c, same, turned, names, back, next
<1>7. Lists(CollectHubs(groups, new, batch, answer, reserved), Joined(x, c, next, K))
  BY <1>2, <1>3, <1>4, CandidatesAreListed DEF names, next
<1>8. Lists(CollectHubs(others, new, batch, back, reserved), Joined(x, c, next, K))
  BY <1>2, <1>3, <1>5, CandidatesAreListed DEF names, next
<1>9. QED
  BY <1>6, <1>7, <1>8 DEF back, next

\* Taking in an answer in the opposite order; its facts and its place are the same.
TakenBack(before, answer, batch, details) ==
    IF answer = Failed THEN before ELSE Collect(before, batch, Backwards(answer), details)

LEMMA BackwardsSaysTheSame ==
    ASSUME NEW answer \in Answer, NEW sofar, NEW batch, NEW made
    PROVE  /\ CollectFacts(made, batch, Backwards(answer)) = CollectFacts(made, batch, answer)
           /\ Backwards(answer).based_in = answer.based_in
<1> DEFINE back == Backwards(answer)
<1>1. back.facts = answer.facts /\ back.based_in = answer.based_in
  BY DossierAssumption DEF ExtractionResult, Backwards
<1> HIDE DEF back
<1>2. CollectFacts(made, batch, back) = CollectFacts(made, batch, answer)
  BY <1>1 DEF CollectFacts, FoldLeft, MapThenFoldSet
<1>3. QED
  BY <1>1, <1>2 DEF back

\* Two accounts of the same: facts, places, and groups of the same candidates.
Alike(done, other, x) ==
    /\ other.facts = done.facts /\ other.places = done.places
    /\ Lists(done.groups, x) /\ Lists(other.groups, x)

\* What each of the answers leaves in the opposite order.
Walks(back, given, person) ==
    /\ back[0] = Empty
    /\ \A i \in 1 .. Len(given) :
          back[i] = TakenBack(back[i - 1], given[i], BatchOf(person.docs, i), person.details)

OrderInv ==
    /\ HubInv
    /\ \E back, x : /\ Walks(back, answers, subject)
                    /\ Alike(extracted, back[Len(answers)], x)
                    /\ DOMAIN x \subseteq (1 .. Len(answers)) \X Nat

LEMMA ExtractKeepsOrder ==
    ASSUME OrderInv, Extract
    PROVE  OrderInv'
<1>1. HubInv /\ HubInv'
  BY ExtractKeepsHubs DEF OrderInv
<1>2. PICK answer \in Answer \cup {Failed} : Takes(answer)
  BY <1>1, ExtractTakes
<1>3. subject' = subject
  BY <1>1, ExtractTakes
<1> DEFINE n == Len(answers)
           next == n + 1
           docs == subject.docs
           batch == BatchOf(docs, next)
<1>4. /\ answers \in Seq(Answer \cup {Failed}) /\ answers' = Append(answers, answer)
      /\ extracted' = IF answer = Failed THEN extracted
                      ELSE Collect(extracted, batch, answer, subject.details)
  BY <1>1, <1>2 DEF HubInv, CitationInv, Takes
<1>5. /\ n \in Nat /\ Len(answers') = next /\ answers'[next] = answer
      /\ \A i \in 1 .. n : answers'[i] = answers[i]
      /\ next \in Nat
  BY <1>4
<1>6. PICK back, x : /\ Walks(back, answers, subject) /\ Alike(extracted, back[n], x)
                     /\ DOMAIN x \subseteq (1 .. n) \X Nat
  BY DEF OrderInv
<1> DEFINE taken == TakenBack(back[n], answer, batch, subject.details)
           longer == [i \in 0 .. next |-> IF i = next THEN taken ELSE back[i]]
<1>7. \E b : Walks(b, answers', subject') /\ b[next] = taken
  <2>1. longer[0] = Empty /\ longer[next] = taken
    BY <1>5, <1>6 DEF Walks
  <2>2. ASSUME NEW i \in 1 .. next
        PROVE  longer[i] = TakenBack(longer[i - 1], answers'[i], BatchOf(docs, i), subject.details)
    <3>1. CASE i = next
      <4>1. i - 1 = n /\ n \in 0 .. next /\ n # next
        BY <1>5, <3>1
      <4>2. longer[i - 1] = back[n]
        BY <4>1
      <4>3. QED
        BY <1>5, <2>1, <3>1, <4>2
    <3>2. CASE i # next
      <4>1. i \in 1 .. n /\ i \in 0 .. next /\ i - 1 \in 0 .. next /\ i - 1 # next
        BY <1>5, <3>2
      <4>2. longer[i] = back[i] /\ longer[i - 1] = back[i - 1]
        BY <3>2, <4>1
      <4>3. QED
        BY <1>5, <1>6, <4>1, <4>2 DEF Walks
    <3>3. QED
      BY <3>1, <3>2
  <2> HIDE DEF longer
  <2>3. Walks(longer, answers', subject')
    BY <1>3, <1>5, <2>1, <2>2 DEF Walks
  <2>4. QED
    BY <2>1, <2>3
<1>8. \E y : Alike(extracted', taken, y) /\ DOMAIN y \subseteq (1 .. next) \X Nat
  <2>1. CASE answer = Failed
    <3>1. extracted' = extracted /\ taken = back[n]
      BY <1>4, <2>1 DEF TakenBack
    <3>2. DOMAIN x \subseteq (1 .. next) \X Nat
      <4>1. \A i \in 1 .. n : i \in 1 .. next
        BY <1>5
      <4>2. QED
        BY <1>6, <4>1
    <3>3. QED
      BY <1>6, <3>1, <3>2
  <2>2. CASE answer # Failed
    <3> DEFINE made == extracted.facts
               more == CollectFacts(made, batch, answer)
               new == SubSeq(more, Len(made) + 1, Len(more))
               reserved == Ids(made)
               place == ConfirmedPlace(answer.based_in, subject.details)
               groups == extracted.groups
               others == back[n].groups
               later == answers'
    <3>1. answer \in Answer
      BY <2>2
    <3>2. /\ extracted'.facts = more
          /\ extracted'.groups = CollectHubs(groups, new, batch, answer, reserved)
          /\ extracted'.places = IF place = Nothing THEN extracted.places
                                 ELSE Append(extracted.places, place)
      BY <1>4, <2>2 DEF Collect
    <3>3. back[n].facts = made /\ back[n].places = extracted.places
      BY <1>6 DEF Alike
    <3>4. /\ taken.facts = more
          /\ taken.groups = CollectHubs(others, new, batch, Backwards(answer), reserved)
          /\ taken.places = IF place = Nothing THEN extracted.places
                            ELSE Append(extracted.places, place)
      <4>1. taken = Collect(back[n], batch, Backwards(answer), subject.details)
        BY <2>2 DEF TakenBack
      <4>2. /\ CollectFacts(made, batch, Backwards(answer)) = more
            /\ Backwards(answer).based_in = answer.based_in
        BY <3>1, BackwardsSaysTheSame
      <4> HIDE DEF taken
      <4>3. QED
        BY <3>3, <4>1, <4>2 DEF Collect
    <3>5. Founds(answer, new, batch, reserved, docs, later, more)
      BY <1>2, <2>2, <3>2 DEF Takes
    <3>6. n \in Nat /\ Lists(groups, x) /\ Lists(others, x) /\ DOMAIN x \subseteq (1 .. n) \X Nat
      BY <1>5, <1>6 DEF Alike
    <3> HIDE DEF made, more, new, reserved, place, groups, others, later, docs, batch, n, taken
    <3>7. PICK y : /\ Lists(CollectHubs(groups, new, batch, answer, reserved), y)
                   /\ Lists(CollectHubs(others, new, batch, Backwards(answer), reserved), y)
                   /\ DOMAIN y \subseteq (1 .. (n + 1)) \X Nat
      BY <3>1, <3>5, <3>6, ListsStayAlike
    <3>8. QED
      BY <3>2, <3>4, <3>7 DEF Alike
  <2>3. QED
    BY <2>1, <2>2
<1>9. QED
  <2>1. PICK y : Alike(extracted', taken, y) /\ DOMAIN y \subseteq (1 .. next) \X Nat
    BY <1>8
  <2>2. PICK b : Walks(b, answers', subject') /\ b[next] = taken
    BY <1>7
  <2> HIDE DEF taken, next
  <2>3. QED
    BY <1>1, <1>5, <2>1, <2>2 DEF OrderInv

\* Hubs the person is left with are those of the groups, merged.
LEMMA AlikeHubs ==
    ASSUME NEW done, NEW other, NEW x, Alike(done, other, x), NEW docs
    PROVE  HubsOf(other, docs) = HubsOf(done, docs)
<1>1. MergeGroups(other.groups, done.facts) = MergeGroups(done.groups, done.facts)
  BY ListsMergeAlike DEF Alike
<1>2. QED
  BY <1>1 DEF HubsOf, Alike

LEMMA OrderIsNothing ==
    ASSUME OrderInv
    PROVE  HubOrderDecidesNothing
<1> DEFINE n == Len(answers)
           After(before, i) == IF answers[i] = Failed THEN before
                               ELSE Collect(before, BatchOf(subject.docs, i),
                                            Backwards(answers[i]), subject.details)
           Reverses(r) == r = [i \in 0 .. n |-> IF i = 0 THEN Empty
                                               ELSE IF answers[i] = Failed THEN r[i - 1]
                                               ELSE Collect(r[i - 1], BatchOf(subject.docs, i),
                                                            Backwards(answers[i]), subject.details)]
           reversed == CHOOSE r : Reverses(r)
<1>1. PICK back, x : Walks(back, answers, subject) /\ Alike(extracted, back[n], x)
  BY DEF OrderInv
<1>2. n \in Nat
  BY DEF OrderInv, HubInv, CitationInv
<1>3. back[0] = Empty /\ \A i \in 1 .. n : back[i] = After(back[i - 1], i)
  BY <1>1 DEF Walks, TakenBack
<1>4. \E r : Reverses(r)
  <2> DEFINE r == [i \in 0 .. n |-> back[i]]
  <2>1. \A i \in 0 .. n : i = 0 \/ (i \in 1 .. n /\ i - 1 \in 0 .. n)
    BY <1>2
  <2>2. \A i \in 0 .. n : r[i] = IF i = 0 THEN Empty
                                 ELSE IF answers[i] = Failed THEN r[i - 1]
                                 ELSE Collect(r[i - 1], BatchOf(subject.docs, i),
                                              Backwards(answers[i]), subject.details)
    BY <1>3, <2>1
  <2>3. r = [i \in 0 .. n |-> r[i]]
    OBVIOUS
  <2> HIDE DEF r
  <2>4. Reverses(r)
    BY <2>2, <2>3
  <2>5. QED
    BY <2>4
<1>5. Reverses(reversed)
  BY <1>4
<1>6. HubOrderDecidesNothing <=>
        (stage = "taste" /\ log = <<>> =>
           HubsOf(reversed[n], subject.docs) = HubsOf(extracted, subject.docs))
  BY DEF HubOrderDecidesNothing
<1> HIDE DEF reversed
<1>7. reversed[n] = back[n]
  <2> DEFINE Same == {i \in 0 .. n : reversed[i] = back[i]}
  <2>1. 0 \in Same
    <3>1. 0 \in 0 .. n
      BY <1>2
    <3>2. QED
      BY <1>3, <1>5, <3>1
  <2>2. ASSUME NEW i \in 1 .. n, i - 1 \in Same PROVE i \in Same
    <3>1. i \in 0 .. n /\ i # 0
      BY <1>2
    <3>2. reversed[i] = After(reversed[i - 1], i)
      BY <1>5, <3>1
    <3>3. reversed[i - 1] = back[i - 1] /\ back[i] = After(back[i - 1], i)
      BY <1>3, <2>2
    <3> HIDE DEF Reverses, After
    <3>4. QED
      BY <3>1, <3>2, <3>3
  <2> HIDE DEF Same
  <2>3. \A i \in 0 .. n : i \in Same
    BY <1>2, <2>1, <2>2, Climb
  <2>4. n \in Same
    BY <1>2, <2>3
  <2>5. QED
    BY <2>4 DEF Same
<1>8. HubsOf(back[n], subject.docs) = HubsOf(extracted, subject.docs)
  BY <1>1, AlikeHubs
<1>9. QED
  BY <1>6, <1>7, <1>8

\* The order in which an answer lists its candidates decides no hub: taken in from the last
\* to the first, the same answers leave the person with the same hubs, ids, labels, types,
\* ages and evidence, from any documents and any answers (_collect_hubs, _merge_groups).
THEOREM HubOrderHolds == BuildSpec => []HubOrderDecidesNothing
<1>1. BuildInit => OrderInv
  <2> SUFFICES ASSUME BuildInit PROVE OrderInv
    OBVIOUS
  <2>1. HubInv
    BY DEF BuildInit, HubInv, CitationInv, Empty, Numbered
  <2> DEFINE back == [i \in {0} |-> Empty]
             x == [t \in {} |-> 0]
  <2>2. answers = <<>> /\ extracted = Empty /\ Len(answers) = 0
    BY DEF BuildInit
  <2>3. Walks(back, answers, subject) /\ back[Len(answers)] = Empty
    BY <2>2 DEF Walks
  <2>4. Lists(<<>>, x)
    <3>1. IsFiniteSet({}) /\ DOMAIN x = {} /\ x \in [{} -> Group]
      BY FS_EmptySet
    <3>2. <<>> \in Seq(Group) /\ DOMAIN <<>> = {}
      OBVIOUS
    <3> HIDE DEF x
    <3>3. QED
      BY <3>1, <3>2 DEF Lists
  <2>5. Alike(extracted, Empty, x)
    BY <2>2, <2>4 DEF Alike, Empty
  <2>6. DOMAIN x \subseteq (1 .. Len(answers)) \X Nat
    OBVIOUS
  <2> HIDE DEF back, x
  <2>7. QED
    BY <2>1, <2>3, <2>5, <2>6 DEF OrderInv
<1>2. OrderInv /\ [BuildNext]_buildVars => OrderInv'
  <2> SUFFICES ASSUME OrderInv, [BuildNext]_buildVars PROVE OrderInv'
    OBVIOUS
  <2>1. CASE Extract
    BY <2>1, ExtractKeepsOrder
  <2>2. CASE UNCHANGED <<subject, answers, extracted>>
    <3>1. HubInv'
      <4>1. CitationInv'
        BY <2>2 DEF OrderInv, HubInv, CitationInv, Numbered, Earlier
      <4>2. QED
        BY <2>2, <4>1 DEF OrderInv, HubInv
    <3>2. QED
      BY <2>2, <3>1 DEF OrderInv
  <2>3. QED
    BY <2>1, <2>2 DEF BuildNext, StartTaste, Classify, Assemble, pageVars, buildVars
<1>3. OrderInv => HubOrderDecidesNothing
  BY OrderIsNothing
<1>4. QED
  BY <1>1, <1>2, <1>3, PTL DEF BuildSpec
=============================================================================
