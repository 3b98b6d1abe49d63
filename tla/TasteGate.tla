----------------------------- MODULE TasteGate -----------------------------
(***************************************************************************)
(* taste.py: what a digest must not say about a member (R11).  A rule      *)
(* layer settles the sentences it can, the model is asked about the rest,  *)
(* a batch at a time, and what nobody clears is withheld.  A page asks the *)
(* rules again: a dossier may be older than they are.                      *)
(*                                                                         *)
(* A text is a sequence of tokens: cues, one for each pattern of the       *)
(* tables, word classes, and other words.                                  *)
(***************************************************************************)
EXTENDS Integers, Sequences, FiniteSets, SequencesExt

CONSTANTS
    BATCH_SIZE,          \* _BATCH_SIZE
    CONFIDENCE_FLOOR, DISPLAYABLE_KINDS,
    Lacking,             \* what the tables of a build may have lacked: sets of cues
    Response,            \* what the classifier may answer: sequences of rulings
    Failed, Blank

R11_CATEGORIES == <<"health", "family", "legal", "home_or_property", "wealth", "political">>
TasteVerdict == {"keep", "unsure"} \cup Range(R11_CATEGORIES)

ASSUME TasteAssumption ==
    /\ BATCH_SIZE \in Nat \ {0}
    /\ Failed \notin Response

------------------------------------------------------------------------------
(* The tables: one cue per pattern                                          *)

StrongHealth ==
    {"diagnosed", "in hospital", "hospitalised", "medication", "cancer", "depression",
     "surgery", "medical leave", "inpatient", "medical records", "a colleague told",
     "their psychiatrist", "ivf", "rehab clinic"}
StrongFamily ==
    {"their son", "husband", "is friends with", "married to", "they married", "marriage to",
     "they have two children", "their life partner", "custody battle"}
StrongLegal ==
    {"defendant", "court records", "divorced", "pleaded guilty", "convicted",
     "charged with fraud", "police questioned", "restraining order", "sued them"}
StrongHome ==
    {"lives at", "property records", "their house", "lives in Place", "owns a house",
     "multiple homes", "they bought a house", "house they bought", "buyer of a house",
     "real estate listing", "home address", "three-bedroom", "12 Halberd Row"}
StrongWealth ==
    {"net worth", "their salary", "their stake", "their own equity",
     "their carried interest", "vested shares", "personally cleared", "millionaire",
     "they are worth", "they earned $"}
StrongPolitical ==
    {"political party", "super pac", "PAC", "registered democrat", "campaign donation",
     "donor lists", "precinct captain", "donated to a campaign"}
STRONG == <<StrongHealth, StrongFamily, StrongLegal, StrongHome, StrongWealth,
            StrongPolitical>>

WEAK ==
    <<{"burnout", "alcohol dependence", "struggled", "recovery", "mental health",
       "health", "full strength", "therapist"},
      {"their partner", "parental leave", "school run", "nursery", "school", "surname",
       "related to", "family"},
      {"arbitration", "settled", "dispute", "lawsuit", "sued", "confidential", "accused",
       "bankruptcy", "charged with"},
      {"escrow", "landlord", "spends time there", "neighbourhood", "moved to",
       "they live in"},
      {"million dollars", "acquired", "salary", "valuation", "wealth",
       "never need to work again", "carried interest"},
      {"candidate", "politics", "city council", "legislation", "senate"}>>

EXEMPT ==
    <<{"children's hospital"},
      {"children's hospital", "business school", "family office"},
      {"amicus brief", "expert witness"},
      {},
      {"a nurse's salary", "keynote", "series b", "growth round", "raised a", "990"},
      {"public domain"}>>

DEFER == {"does not say", "no source says", "declined to say", "never talked about",
          "without saying", "unclear why"}

------------------------------------------------------------------------------
(* The rule layer                                                           *)

HeadNoun == "company"            \* the word classes
ProductVerb == "builds"
FUNCTION_WORDS == {"the", "their"}
Linking == {"the"}               \* the determiners and prepositions a verb may govern across
NotAWord == {".", "'s"}

\* The longest run of at most two words up to a head noun is the one that is read, and no
\* function word may be in it.  A possessive or a stop ends it.
HeadNounFollows(text, i) ==
    LET runs == {n \in 0 .. 2 : /\ i + n + 1 \in DOMAIN text /\ text[i + n + 1] = HeadNoun
                                /\ \A k \in (i + 1) .. (i + n) : text[k] \notin NotAWord}
    IN  \E n \in runs : /\ \A m \in runs : m <= n
                        /\ \A k \in (i + 1) .. (i + n) : text[k] \notin FUNCTION_WORDS

ProductVerbPrecedes(text, i) ==
    \/ i > 1 /\ text[i - 1] = ProductVerb
    \/ i > 2 /\ text[i - 1] \in Linking /\ text[i - 2] = ProductVerb

\* The member's subject matter, not the member.
IsAttributive(text, i) == HeadNounFollows(text, i) \/ ProductVerbPrecedes(text, i)

Says(text, cues) == \E i \in DOMAIN text : text[i] \in cues

\* _first_live_cue: every occurrence counts.
LiveCue(text, cues) == \E i \in DOMAIN text : text[i] \in cues /\ ~IsAttributive(text, i)

Keep == [decision |-> "keep", reason |-> "none"]
Unsure == [decision |-> "unsure", reason |-> "none"]
Exclude(category) == [decision |-> "exclude", reason |-> category]

\* A named marker settles it, in the order of the categories, and no exemption reaches it;
\* then an open question defers, then vocabulary that no exemption explains.
\* `lacking`: the cues the tables in force do not have yet.
RuleVerdict(text, lacking) ==
    LET named == {c \in DOMAIN R11_CATEGORIES : LiveCue(text, STRONG[c] \ lacking)}
        open == {c \in DOMAIN R11_CATEGORIES : /\ ~Says(text, EXEMPT[c])
                                               /\ LiveCue(text, WEAK[c] \ lacking)}
    IN  IF named # {}
        THEN Exclude(R11_CATEGORIES[CHOOSE c \in named : \A d \in named : c <= d])
        ELSE IF Says(text, DEFER) \/ open # {} THEN Unsure ELSE Keep

Today == {}              \* today's tables lack nothing

\* _decide: unsure fails closed.
Decide(fact, verdict) ==
    [fact EXCEPT !.excluded = verdict.decision # "keep",
                 !.reason = CASE verdict.decision = "exclude" -> verdict.reason
                              [] verdict.decision = "unsure"  -> "low_confidence"
                              [] OTHER                        -> "none"]

------------------------------------------------------------------------------
(* The classifier                                                           *)

VARIABLES
    facts,               \* the facts, in order
    lacked,              \* what the tables of the build lacked
    unsure,              \* the places of the facts the rules leave open
    log,                 \* the classifier's answers, one per batch; Failed for LLMError
    rulings              \* per place in `unsure`: the verdict, "unsure" until there is one
tasteVars == <<facts, lacked, unsure, log, rulings>>

\* The places in `unsure` that the batch after `asked` batches is about.
Batch(asked) ==
    {p \in DOMAIN unsure : p > asked * BATCH_SIZE /\ p <= (asked + 1) * BATCH_SIZE}

FactId(p) == facts[unsure[p]].id

\* _positions: those whose id the answer may use: a blank or a shared one is nobody's.
Positions(asked) ==
    {p \in Batch(asked) : /\ FactId(p) # Blank
                          /\ \A q \in Batch(asked) : FactId(q) = FactId(p) => q = p}

VerdictsOn(response, id) ==
    {response[k].verdict : k \in {k \in DOMAIN response : response[k].fact_id = id}}

\* Mutant: an id is an id, whichever batch it was sent with.
AbsorbAnywhere(response, asked) ==
    [p \in DOMAIN rulings |->
        IF \E v \in TasteVerdict : VerdictsOn(response, FactId(p)) = {v}
        THEN CHOOSE v \in VerdictsOn(response, FactId(p)) : TRUE ELSE rulings[p]]

\* _absorb: a ruling about a fact of this batch, unless another one contradicts it.
Absorb(response, asked) ==
    [p \in DOMAIN rulings |->
        IF p \in Positions(asked) /\ \E v \in TasteVerdict : VerdictsOn(response, FactId(p)) = {v}
        THEN CHOOSE v \in VerdictsOn(response, FactId(p)) : TRUE ELSE rulings[p]]

\* apply_taste: the rules run over every fact, and the model sees only what they leave.
Screen(extracted) ==
    /\ facts' = extracted
    /\ unsure' = SelectSeq([i \in DOMAIN extracted |-> i],
                     LAMBDA i : RuleVerdict(extracted[i].text, lacked).decision = "unsure")
    /\ rulings' = [p \in DOMAIN unsure' |-> "unsure"]
    /\ log' = <<>>
    /\ UNCHANGED lacked

Asking == Batch(Len(log)) # {}

\* _classify, one batch: an error is silence.
AskBatch(response) ==
    /\ Asking
    /\ log' = Append(log, response)
    /\ rulings' = IF response = Failed THEN rulings ELSE Absorb(response, Len(log))
    /\ UNCHANGED <<facts, lacked, unsure>>

\* The verdict a fact leaves with.
Ruled(i) ==
    IF \E p \in DOMAIN unsure : unsure[p] = i
    THEN LET answer == rulings[CHOOSE p \in DOMAIN unsure : unsure[p] = i]
         IN  CASE answer = "keep" -> Keep
               [] \E c \in DOMAIN R11_CATEGORIES : R11_CATEGORIES[c] = answer -> Exclude(answer)
               [] OTHER -> Unsure
    ELSE RuleVerdict(facts[i].text, lacked)

Tasted == [i \in DOMAIN facts |-> Decide(facts[i], Ruled(i))]

TasteInit ==
    /\ lacked \in Lacking
    /\ facts = <<>> /\ unsure = <<>> /\ log = <<>> /\ rulings = <<>>

------------------------------------------------------------------------------
(* What a page asks of a committed fact, under today's tables               *)

\* Mutant: the flag of the build is believed.
FlagOnly(fact) ==
    ~fact.excluded /\ fact.confidence >= CONFIDENCE_FLOOR /\ fact.kind \in DISPLAYABLE_KINDS

IsDisplayable(fact) ==
    /\ ~fact.excluded
    /\ RuleVerdict(fact.text, Today).decision # "exclude"
    /\ fact.confidence >= CONFIDENCE_FLOOR
    /\ fact.kind \in DISPLAYABLE_KINDS

QUOTE_WITHHELD == <<"quote withheld">>

ScreenQuote(fact) ==
    IF RuleVerdict(fact.quote, Today).decision = "exclude" THEN QUOTE_WITHHELD ELSE fact.quote

------------------------------------------------------------------------------
\* No ruling wanders: a fact the rules left open got its verdict from the answer to its
\* own batch, which names it by an id nobody else there has, and says nothing else of it.
\* The answer to another batch cannot clear it, nor can the order of the rulings.
NoRulingWanders ==
    \A p \in DOMAIN rulings :
        rulings[p] # "unsure" =>
            \E b \in DOMAIN log :
                /\ p \in Positions(b - 1) /\ log[b] # Failed
                /\ VerdictsOn(log[b], FactId(p)) = {rulings[p]}
=============================================================================
