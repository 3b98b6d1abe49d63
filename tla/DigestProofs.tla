---------------------------- MODULE DigestProofs ----------------------------
(***************************************************************************)
(* What a finished digest page owes to its dossier, and the interest graph  *)
(* to the people in it, for dossiers, Meet rows and hubs of any shape and   *)
(* number.                                                                  *)
(***************************************************************************)
EXTENDS DigestView, CorpusGraph, SequenceLemmas

------------------------------------------------------------------------------
(* Ids and orders                                                           *)

Grounded == \E n \in 0 .. MaxFacts : facts \in [1 .. n -> FactShape]

LEMMA IdsAreNumbers ==
    ASSUME Grounded
    PROVE  /\ IsFiniteSet(Id) /\ Id \subseteq Nat \ {0} /\ NoFact \notin Id
           /\ \A f \in Id : /\ facts[f] \in FactShape
                            /\ facts[f].confidence \in Int /\ facts[f].published \in Int
                            /\ facts[f].words \in Int
<1>1. PICK n \in 0 .. MaxFacts : facts \in [1 .. n -> FactShape]
  BY DEF Grounded
<1>2. Id = 1 .. n /\ n \in Nat
  BY <1>1, DigestAssumption DEF Id
<1>3. IsFiniteSet(Id) /\ Id \subseteq Nat \ {0} /\ NoFact \notin Id
  <2>1. 1 \in Int /\ n \in Int
    BY <1>2
  <2>2. IsFiniteSet(1 .. n)
    BY <2>1, FS_Interval
  <2>3. NoFact \notin Nat
    BY DigestAssumption
  <2>4. QED
    BY <1>2, <2>2, <2>3
<1>4. \A f \in Id : facts[f] \in FactShape
  BY <1>1, <1>2
<1>5. \A s \in FactShape : s.confidence \in Int /\ s.published \in Int /\ s.words \in Int
  BY DigestAssumption
<1>6. QED
  BY <1>3, <1>4, <1>5

\* Sorting by any of the three orders only rearranges.
LEMMA SortedByStrength ==
    ASSUME Grounded, NEW S \in SUBSET Id
    PROVE  /\ Sorted(S, Stronger) \in Seq(S) /\ ToSet(Sorted(S, Stronger)) = S
           /\ Len(Sorted(S, Stronger)) = Cardinality(S) /\ IsFiniteSet(S)
<1> DEFINE R == {p \in S \X S : Stronger(p[1], p[2])}
           s == Sorted(S, Stronger)
<1>1. IsFiniteSet(S)
  BY IdsAreNumbers, FS_Subset
<1>2. Orders(R, S)
  <2>1. \A f \in S : f \in Int /\ facts[f].confidence \in Int
    BY IdsAreNumbers
  <2>2. QED
    BY <2>1 DEF Orders, Stronger
<1>3. \A x \in S : {y \in S : <<y, x>> \in R} = {y \in S : Stronger(y, x)}
  OBVIOUS
<1>4. ASSUME NEW n \in 1 .. Cardinality(S)
      PROVE  s[n] \in S /\ Place(s[n], R, S) = n - 1
  <2>1. PICK x \in S : Place(x, R, S) = n - 1
    BY <1>1, <1>2, PlacesAreTaken
  <2>2. Cardinality({y \in S : Stronger(y, x)}) = n - 1
    BY <1>3, <2>1 DEF Place
  <2>3. s[n] = CHOOSE z \in S : Cardinality({y \in S : Stronger(y, z)}) = n - 1
    BY DEF Sorted
  <2> HIDE DEF R, s
  <2>4. s[n] \in S /\ Cardinality({y \in S : Stronger(y, s[n])}) = n - 1
    BY <2>2, <2>3
  <2>5. QED
    BY <1>3, <2>4 DEF Place
<1>5. s \in [1 .. Cardinality(S) -> S]
  <2>1. s = [n \in 1 .. Cardinality(S) |->
                CHOOSE z \in S : Cardinality({y \in S : Stronger(y, z)}) = n - 1]
    BY DEF Sorted
  <2> HIDE DEF R, s
  <2>2. QED
    BY <1>4, <2>1
<1> HIDE DEF R, s
<1>6. s \in Seq(S) /\ Len(s) = Cardinality(S) /\ ToSet(s) = S
  BY <1>1, <1>2, <1>4, <1>5, InOrder
<1>7. QED
  BY <1>1, <1>6 DEF s

LEMMA SortedByConfidence ==
    ASSUME Grounded, NEW S \in SUBSET Id
    PROVE  /\ Sorted(S, MoreConfident) \in Seq(S) /\ ToSet(Sorted(S, MoreConfident)) = S
           /\ Len(Sorted(S, MoreConfident)) = Cardinality(S) /\ IsFiniteSet(S)
<1> DEFINE R == {p \in S \X S : MoreConfident(p[1], p[2])}
           s == Sorted(S, MoreConfident)
<1>1. IsFiniteSet(S)
  BY IdsAreNumbers, FS_Subset
<1>2. Orders(R, S)
  <2>1. \A f \in S : f \in Int /\ facts[f].confidence \in Int
    BY IdsAreNumbers
  <2>2. QED
    BY <2>1 DEF Orders, MoreConfident
<1>3. \A x \in S : {y \in S : <<y, x>> \in R} = {y \in S : MoreConfident(y, x)}
  OBVIOUS
<1>4. ASSUME NEW n \in 1 .. Cardinality(S)
      PROVE  s[n] \in S /\ Place(s[n], R, S) = n - 1
  <2>1. PICK x \in S : Place(x, R, S) = n - 1
    BY <1>1, <1>2, PlacesAreTaken
  <2>2. Cardinality({y \in S : MoreConfident(y, x)}) = n - 1
    BY <1>3, <2>1 DEF Place
  <2>3. s[n] = CHOOSE z \in S : Cardinality({y \in S : MoreConfident(y, z)}) = n - 1
    BY DEF Sorted
  <2> HIDE DEF R, s
  <2>4. s[n] \in S /\ Cardinality({y \in S : MoreConfident(y, s[n])}) = n - 1
    BY <2>2, <2>3
  <2>5. QED
    BY <1>3, <2>4 DEF Place
<1>5. s \in [1 .. Cardinality(S) -> S]
  <2>1. s = [n \in 1 .. Cardinality(S) |->
                CHOOSE z \in S : Cardinality({y \in S : MoreConfident(y, z)}) = n - 1]
    BY DEF Sorted
  <2> HIDE DEF R, s
  <2>2. QED
    BY <1>4, <2>1
<1> HIDE DEF R, s
<1>6. s \in Seq(S) /\ Len(s) = Cardinality(S) /\ ToSet(s) = S
  BY <1>1, <1>2, <1>4, <1>5, InOrder
<1>7. QED
  BY <1>1, <1>6 DEF s

LEMMA SortedByRecency ==
    ASSUME Grounded, NEW S \in SUBSET Id
    PROVE  /\ Sorted(S, MoreRecent) \in Seq(S) /\ ToSet(Sorted(S, MoreRecent)) = S
           /\ Len(Sorted(S, MoreRecent)) = Cardinality(S) /\ IsFiniteSet(S)
<1> DEFINE R == {p \in S \X S : MoreRecent(p[1], p[2])}
           s == Sorted(S, MoreRecent)
<1>1. IsFiniteSet(S)
  BY IdsAreNumbers, FS_Subset
<1>2. Orders(R, S)
  <2>1. \A f \in S : f \in Int /\ facts[f].confidence \in Int /\ facts[f].published \in Int
    BY IdsAreNumbers
  <2>2. QED
    BY <2>1 DEF Orders, MoreRecent, MoreConfident
<1>3. \A x \in S : {y \in S : <<y, x>> \in R} = {y \in S : MoreRecent(y, x)}
  OBVIOUS
<1>4. ASSUME NEW n \in 1 .. Cardinality(S)
      PROVE  s[n] \in S /\ Place(s[n], R, S) = n - 1
  <2>1. PICK x \in S : Place(x, R, S) = n - 1
    BY <1>1, <1>2, PlacesAreTaken
  <2>2. Cardinality({y \in S : MoreRecent(y, x)}) = n - 1
    BY <1>3, <2>1 DEF Place
  <2>3. s[n] = CHOOSE z \in S : Cardinality({y \in S : MoreRecent(y, z)}) = n - 1
    BY DEF Sorted
  <2> HIDE DEF R, s
  <2>4. s[n] \in S /\ Cardinality({y \in S : MoreRecent(y, s[n])}) = n - 1
    BY <2>2, <2>3
  <2>5. QED
    BY <1>3, <2>4 DEF Place
<1>5. s \in [1 .. Cardinality(S) -> S]
  <2>1. s = [n \in 1 .. Cardinality(S) |->
                CHOOSE z \in S : Cardinality({y \in S : MoreRecent(y, z)}) = n - 1]
    BY DEF Sorted
  <2> HIDE DEF R, s
  <2>2. QED
    BY <1>4, <2>1
<1> HIDE DEF R, s
<1>6. s \in Seq(S) /\ Len(s) = Cardinality(S) /\ ToSet(s) = S
  BY <1>1, <1>2, <1>4, <1>5, InOrder
<1>7. QED
  BY <1>1, <1>6 DEF s

\* The first of a sequence are of it.
LEMMA FirstAreOfIt ==
    ASSUME NEW X, NEW s \in Seq(X), NEW n \in Nat
    PROVE  /\ FirstOf(s, n) \in Seq(X) /\ Len(FirstOf(s, n)) <= n
           /\ ToSet(FirstOf(s, n)) \subseteq ToSet(s)
<1> DEFINE m == IF Len(s) < n THEN Len(s) ELSE n
<1>1. /\ m \in 0 .. Len(s) /\ m <= n /\ FirstOf(s, n) = SubSeq(s, 1, m)
      /\ Len(s) \in Nat /\ DOMAIN s = 1 .. Len(s)
  BY DEF FirstOf
<1> HIDE DEF m
<1>2. SubSeq(s, 1, m) = [i \in 1 .. m |-> s[i]]
  BY <1>1, SubSeqRestrict
<1>3. [i \in 1 .. m |-> s[i]] \in Seq(X) /\ Len([i \in 1 .. m |-> s[i]]) = m
  BY <1>1
<1>4. \A x \in ToSet([i \in 1 .. m |-> s[i]]) : x \in ToSet(s)
  BY <1>1 DEF ToSet
<1>5. QED
  BY <1>1, <1>2, <1>3, <1>4

\* A sequence of some things is one of more things.
LEMMA SeqGrows ==
    ASSUME NEW X, NEW Y, X \subseteq Y, NEW s \in Seq(X)
    PROVE  s \in Seq(Y) /\ ToSet(s) \subseteq X
<1>1. \A i \in DOMAIN s : s[i] \in X
  OBVIOUS
<1>2. QED
  BY <1>1, SeqMonotonic DEF ToSet

------------------------------------------------------------------------------
(* Sections                                                                 *)

LEMMA WhoIsDisplayable ==
    ASSUME Grounded
    PROVE  WhoFacts \in Seq(Displayable)
<1> DEFINE work == {f \in Displayable : facts[f].category = "current_work" /\ facts[f].aloud}
           s == Sorted(work, Stronger)
           n == Len(s)
           A == [words : Int, used : Seq(Displayable)]
           base == [words |-> NameWords, used |-> <<>>]
           fit(line, f) == IF line.words + facts[f].words <= SPOKEN_WORD_CAP
                           THEN [words |-> line.words + facts[f].words,
                                 used |-> Append(line.used, f)]
                           ELSE line
           step == [c \in (1 .. n) \X A |-> fit(c[2], s[c[1]])]
           Folds(g) == g = [t \in SUBSET DOMAIN s |->
                              IF t = {} THEN base
                              ELSE fit(g[t \ {Max(t)}], s[Max(t)])]
           fold == CHOOSE g : Folds(g)
<1>1. WhoFacts = fold[DOMAIN s].used
  BY DEF WhoFacts, FoldLeft, MapThenFoldSet
<1>2. work \subseteq Displayable /\ Displayable \subseteq Id
  BY DEF Displayable
<1> HIDE DEF work
<1>3. s \in Seq(work)
  BY <1>2, SortedByStrength
<1> HIDE DEF s
<1>4. n \in Nat /\ DOMAIN s = 1 .. n /\ \A i \in 1 .. n : s[i] \in Displayable
  BY <1>2, <1>3
<1>5. base \in A
  BY DigestAssumption
<1>6. \A a \in A, f \in Displayable : fit(a, f) \in A
  BY <1>2, IdsAreNumbers
<1> HIDE DEF A, n, base, fit
<1>7. /\ step \in [(1 .. n) \X A -> A]
      /\ \A i \in 1 .. n : \A a \in A : step[<<i, a>>] = fit(a, s[i])
  BY <1>4, <1>6
<1> HIDE DEF step
<1>8. \E g : Folds(g)
  <2>1. PICK g : Solves(g, n, A, base, step)
    BY <1>4, <1>5, <1>7, FoldSolves
  <2>2. Folds(g)
    BY <1>4, <1>7, <2>1 DEF Solves
  <2>3. QED
    BY <2>2
<1>9. Folds(fold)
  BY <1>8
<1> HIDE DEF fold
<1>10. Follows(fold, n, A, base, step)
  <2>1. \A t \in SUBSET (1 .. n) : t # {} => Max(t) \in 1 .. n
    BY <1>4, MaxIsLast DEF IsLast
  <2>2. QED
    BY <1>4, <1>7, <1>9, <2>1 DEF Follows
<1>11. fold[1 .. n] \in A
  <2>1. Steps(fold, n, A, base, step)
    BY <1>4, <1>5, <1>7, <1>10, FoldSteps
  <2>2. QED
    BY <1>4, <2>1 DEF Steps
<1>12. QED
  BY <1>1, <1>4, <1>11 DEF A

LEMMA NonObviousIsDisplayable ==
    ASSUME Grounded
    PROVE  NonObvious \in Displayable \cup {NoFact} /\ NoFact \notin Displayable
<1> DEFINE eligible == {f \in Displayable : facts[f].category = "non_obvious" /\ facts[f].rare}
<1>1. eligible \subseteq Displayable /\ Displayable \subseteq Id /\ NoFact \notin Displayable
  BY IdsAreNumbers DEF Displayable
<1>2. NonObvious = IF eligible = {} THEN NoFact ELSE Sorted(eligible, MoreConfident)[1]
  BY DEF NonObvious
<1> HIDE DEF eligible
<1>3. CASE eligible = {}
  BY <1>1, <1>2, <1>3
<1>4. CASE eligible # {}
  <2>1. /\ Sorted(eligible, MoreConfident) \in Seq(eligible)
        /\ ToSet(Sorted(eligible, MoreConfident)) = eligible
    BY <1>1, SortedByConfidence
  <2>2. 1 \in DOMAIN Sorted(eligible, MoreConfident)
    <3>1. DOMAIN Sorted(eligible, MoreConfident) # {}
      BY <1>4, <2>1 DEF ToSet
    <3>2. QED
      BY <2>1, <3>1
  <2>3. QED
    BY <1>1, <1>2, <1>4, <2>1, <2>2
<1>5. QED
  BY <1>3, <1>4

LEMMA LatelyIsDisplayable ==
    ASSUME Grounded, NEW spoken
    PROVE  Lately(spoken) \in Seq(Displayable)
<1> DEFINE primary == {f \in Pool(spoken) : facts[f].category = "recent_activity"}
           chosen == FirstOf(Sorted(primary, MoreRecent), LATELY_CAP)
           fallback == {f \in Pool(spoken) : facts[f].category \in {"hook", "affiliation"}}
           topUp == FirstOf(Sorted(fallback, MoreRecent), LATELY_CAP - Len(chosen))
           shown == ToSet(chosen) \cup ToSet(topUp)
<1>1. /\ primary \subseteq Displayable /\ fallback \subseteq Displayable
      /\ Displayable \subseteq Id
  BY DEF Displayable, Pool
<1>2. Lately(spoken) = Sorted(shown, MoreRecent)
  BY DEF Lately
<1> HIDE DEF primary, fallback
<1>3. /\ Sorted(primary, MoreRecent) \in Seq(primary)
      /\ Sorted(fallback, MoreRecent) \in Seq(fallback)
  BY <1>1, SortedByRecency
<1>4. /\ chosen \in Seq(primary) /\ ToSet(chosen) \subseteq primary
      /\ LATELY_CAP - Len(chosen) \in Nat
  <2>1. LATELY_CAP \in Nat
    BY DigestAssumption
  <2>2. chosen \in Seq(primary) /\ Len(chosen) <= LATELY_CAP
    BY <1>3, <2>1, FirstAreOfIt
  <2>3. ToSet(chosen) \subseteq primary
    BY <2>2, SeqGrows
  <2> HIDE DEF chosen
  <2>4. QED
    BY <2>1, <2>2, <2>3
<1> HIDE DEF chosen
<1>5. ToSet(topUp) \subseteq fallback
  <2>1. topUp \in Seq(fallback)
    BY <1>3, <1>4, FirstAreOfIt
  <2>2. QED
    BY <2>1, SeqGrows
<1> HIDE DEF topUp
<1>6. shown \subseteq Displayable
  BY <1>1, <1>4, <1>5
<1> HIDE DEF shown
<1>7. Sorted(shown, MoreRecent) \in Seq(shown)
  BY <1>1, <1>6, SortedByRecency
<1>8. QED
  BY <1>2, <1>6, <1>7, SeqGrows

LEMMA CandidatesAreDisplayable ==
    ASSUME Grounded, NEW spoken
    PROVE  Candidates(spoken) \in Seq(Displayable)
<1> DEFINE open == Displayable \ spoken
           hooks == {f \in open : facts[f].category = "hook"}
           rest == open \ hooks
<1>1. /\ hooks \subseteq Displayable /\ rest \subseteq Displayable
      /\ Displayable \subseteq Id
  BY DEF Displayable
<1>2. Candidates(spoken) = Sorted(hooks, MoreConfident) \o Sorted(rest, MoreRecent)
  BY DEF Candidates
<1> HIDE DEF hooks, rest
<1>3. Sorted(hooks, MoreConfident) \in Seq(hooks) /\ Sorted(rest, MoreRecent) \in Seq(rest)
  BY <1>1, SortedByConfidence, SortedByRecency
<1>4. /\ Sorted(hooks, MoreConfident) \in Seq(Displayable)
      /\ Sorted(rest, MoreRecent) \in Seq(Displayable)
  BY <1>1, <1>3, SeqGrows
<1>5. QED
  BY <1>2, <1>4, ConcatIsAll

------------------------------------------------------------------------------
(* Why we know this                                                         *)

LEMMA EvidenceIsDisplayable ==
    ASSUME NEW hubs \in Seq(HubShape)
    PROVE  /\ EvidenceOf(hubs) \in Seq(Displayable)
           /\ \A f : f \in ToSet(EvidenceOf(hubs)) <=>
                 f \in Displayable /\ \E h \in DOMAIN hubs : f \in ToSet(hubs[h].evidence)
<1> DEFINE ss == [h \in DOMAIN hubs |-> hubs[h].evidence]
<1>1. ss \in Seq(Seq(Nat)) /\ DOMAIN ss = DOMAIN hubs
  <2>1. \A h \in DOMAIN hubs : ss[h] \in Seq(Nat)
    <3>1. \A h \in DOMAIN hubs : hubs[h] \in HubShape
      OBVIOUS
    <3>2. \A hub \in HubShape : hub.evidence \in Seq(Nat)
      BY DEF HubShape
    <3>3. QED
      BY <3>1, <3>2
  <2>2. DOMAIN hubs = 1 .. Len(hubs) /\ Len(hubs) \in Nat
    OBVIOUS
  <2>3. ss \in [1 .. Len(hubs) -> Seq(Nat)]
    BY <2>1, <2>2
  <2> HIDE DEF ss
  <2>4. QED
    BY <2>2, <2>3
<1>2. \A h \in DOMAIN hubs : ss[h] = hubs[h].evidence
  OBVIOUS
<1>3. EvidenceOf(hubs) = Within(FlattenSeq(ss), Displayable)
  BY DEF EvidenceOf
<1> HIDE DEF ss
<1>4. /\ FlattenSeq(ss) \in Seq(Nat)
      /\ \A f : f \in ToSet(FlattenSeq(ss)) <=> \E h \in DOMAIN ss : f \in ToSet(ss[h])
  BY <1>1, FlattenIsAll
<1>5. /\ EvidenceOf(hubs) \in Seq(Nat)
      /\ ToSet(EvidenceOf(hubs)) = ToSet(FlattenSeq(ss)) \cap Displayable
  BY <1>3, <1>4, WithinIsAll
<1>6. EvidenceOf(hubs) \in Seq(Displayable)
  BY <1>5, SeqOfItsOwn
<1>7. QED
  BY <1>1, <1>2, <1>4, <1>5, <1>6

LEMMA HubEvidenceIsDisplayable ==
    ASSUME meet \in MeetRows
    PROVE  /\ meet \in Seq(ToSet(meet))
           /\ \A r \in DOMAIN meet : meet[r].hubs \in Seq(HubShape)
           /\ HubEvidence \in Seq(Displayable)
           /\ \A f : f \in ToSet(HubEvidence) <=>
                 \E r \in DOMAIN meet : f \in ToSet(EvidenceOf(meet[r].hubs))
<1> DEFINE ss == [r \in DOMAIN meet |-> EvidenceOf(meet[r].hubs)]
<1>1. meet \in Seq(ToSet(meet)) /\ \A row \in ToSet(meet) : row.hubs \in Seq(HubShape)
  BY DigestAssumption
<1>2. \A r \in DOMAIN meet : meet[r].hubs \in Seq(HubShape)
  BY <1>1 DEF ToSet
<1>3. \A r \in DOMAIN meet : ss[r] \in Seq(Displayable) /\ ss[r] = EvidenceOf(meet[r].hubs)
  BY <1>2, EvidenceIsDisplayable
<1>4. ss \in Seq(Seq(Displayable)) /\ DOMAIN ss = DOMAIN meet
  <2>1. DOMAIN meet = 1 .. Len(meet) /\ Len(meet) \in Nat
    BY <1>1
  <2>2. DOMAIN ss = DOMAIN meet /\ ss \in [DOMAIN meet -> Seq(Displayable)]
    BY <1>3
  <2> HIDE DEF ss
  <2>3. QED
    BY <2>1, <2>2
<1>5. HubEvidence = FlattenSeq(ss)
  BY DEF HubEvidence
<1> HIDE DEF ss
<1>6. /\ FlattenSeq(ss) \in Seq(Displayable)
      /\ \A f : f \in ToSet(FlattenSeq(ss)) <=> \E r \in DOMAIN ss : f \in ToSet(ss[r])
  BY <1>4, FlattenIsAll
<1>7. QED
  BY <1>1, <1>2, <1>3, <1>4, <1>5, <1>6

\* Slots for some facts: from among them, one for a document, with its strongest fact.
Tidy(slots, T) ==
    /\ ToSet(slots) \subseteq T
    /\ \A i \in DOMAIN slots, j \in DOMAIN slots :
         facts[slots[i]].doc = facts[slots[j]].doc => i = j
    /\ \A g \in T : \E i \in DOMAIN slots :
         facts[slots[i]].doc = facts[g].doc /\ ~Stronger(g, slots[i])

Filed(slots, f) ==
    IF \E i \in DOMAIN slots : facts[slots[i]].doc = facts[f].doc
    THEN [i \in DOMAIN slots |->
            IF facts[slots[i]].doc = facts[f].doc /\ Stronger(f, slots[i])
            THEN f ELSE slots[i]]
    ELSE Append(slots, f)

LEMMA NoneIsStrongerThanTheStronger ==
    ASSUME Grounded, NEW f \in Id, NEW g \in Id, NEW h \in Id
    PROVE  /\ ~Stronger(f, f)
           /\ Stronger(f, h) /\ ~Stronger(g, h) => ~Stronger(g, f)
<1>1. \A x \in Id : x \in Int /\ facts[x].confidence \in Int
  BY IdsAreNumbers
<1>2. QED
  BY <1>1 DEF Stronger

LEMMA FilingKeepsTidy ==
    ASSUME Grounded, NEW slots \in Seq(Id), NEW T \in SUBSET Id, Tidy(slots, T), NEW f \in Id
    PROVE  Filed(slots, f) \in Seq(Id) /\ Tidy(Filed(slots, f), T \cup {f})
<1> DEFINE same(i) == facts[slots[i]].doc = facts[f].doc
<1>0. /\ DOMAIN slots = 1 .. Len(slots) /\ Len(slots) \in Nat
      /\ \A i \in DOMAIN slots : slots[i] \in Id
  OBVIOUS
<1>1. CASE \E i \in DOMAIN slots : same(i)
  <2> DEFINE new == [i \in DOMAIN slots |->
                       IF same(i) /\ Stronger(f, slots[i]) THEN f ELSE slots[i]]
  <2>1. Filed(slots, f) = new
    BY <1>1 DEF Filed
  <2>2. /\ DOMAIN new = DOMAIN slots
        /\ \A i \in DOMAIN slots :
             /\ new[i] = f \/ new[i] = slots[i]
             /\ new[i] = slots[i] \/ (new[i] = f /\ Stronger(f, slots[i]))
             /\ facts[new[i]].doc = facts[slots[i]].doc
             /\ same(i) => new[i] = f \/ ~Stronger(f, new[i])
    OBVIOUS
  <2>3. new \in Seq(Id)
    <3>1. new \in [1 .. Len(slots) -> Id]
      BY <1>0
    <3> HIDE DEF new
    <3>2. QED
      BY <1>0, <3>1
  <2> HIDE DEF new
  <2>4. ToSet(new) \subseteq T \cup {f}
    BY <2>2 DEF Tidy, ToSet
  <2>5. \A i \in DOMAIN new, j \in DOMAIN new :
           facts[new[i]].doc = facts[new[j]].doc => i = j
    BY <2>2 DEF Tidy
  <2>6. ASSUME NEW g \in T
        PROVE  \E i \in DOMAIN new : facts[new[i]].doc = facts[g].doc /\ ~Stronger(g, new[i])
    <3>1. PICK i \in DOMAIN slots : facts[slots[i]].doc = facts[g].doc /\ ~Stronger(g, slots[i])
      BY DEF Tidy
    <3>2. slots[i] \in Id /\ g \in Id
      BY <1>0
    <3>3. ~Stronger(g, new[i])
      BY <2>2, <3>1, <3>2, NoneIsStrongerThanTheStronger
    <3>4. QED
      BY <2>2, <3>1, <3>3
  <2>7. \E i \in DOMAIN new : facts[new[i]].doc = facts[f].doc /\ ~Stronger(f, new[i])
    <3>1. PICK i \in DOMAIN slots : same(i)
      BY <1>1
    <3>2. ~Stronger(f, f)
      BY NoneIsStrongerThanTheStronger
    <3>3. QED
      BY <2>2, <3>1, <3>2
  <2>8. QED
    BY <2>1, <2>3, <2>4, <2>5, <2>6, <2>7 DEF Tidy
<1>2. CASE ~\E i \in DOMAIN slots : same(i)
  <2> DEFINE new == Append(slots, f)
  <2>1. Filed(slots, f) = new
    BY <1>2 DEF Filed
  <2>2. /\ new \in Seq(Id) /\ \A x : x \in ToSet(new) <=> x \in ToSet(slots) \/ x = f
        /\ DOMAIN new = 1 .. (Len(slots) + 1) /\ new[Len(slots) + 1] = f
        /\ \A i \in DOMAIN slots : i \in DOMAIN new /\ new[i] = slots[i]
        /\ \A i \in DOMAIN new : i \in DOMAIN slots \/ i = Len(slots) + 1
    <3>1. /\ new \in Seq(Id)
          /\ DOMAIN new = 1 .. (Len(slots) + 1) /\ new[Len(slots) + 1] = f
          /\ \A i \in 1 .. Len(slots) : new[i] = slots[i]
      OBVIOUS
    <3>2. \A x : x \in ToSet(new) <=> x \in ToSet(slots) \/ x = f
      BY AppendIsAll
    <3> HIDE DEF new
    <3>3. QED
      BY <1>0, <3>1, <3>2
  <2> HIDE DEF new
  <2>3. ToSet(new) \subseteq T \cup {f}
    BY <2>2 DEF Tidy
  <2>4. \A i \in DOMAIN new, j \in DOMAIN new :
           facts[new[i]].doc = facts[new[j]].doc => i = j
    BY <1>2, <2>2 DEF Tidy
  <2>5. \A g \in T : \E i \in DOMAIN new :
           facts[new[i]].doc = facts[g].doc /\ ~Stronger(g, new[i])
    BY <2>2 DEF Tidy
  <2>6. \E i \in DOMAIN new : facts[new[i]].doc = facts[f].doc /\ ~Stronger(f, new[i])
    <3>1. Len(slots) + 1 \in DOMAIN new
      BY <1>0, <2>2
    <3>2. QED
      BY <2>2, <3>1, NoneIsStrongerThanTheStronger
  <2>7. QED
    BY <2>1, <2>2, <2>3, <2>4, <2>5, <2>6 DEF Tidy
<1>3. QED
  BY <1>1, <1>2

LEMMA SourcesAreTidy ==
    ASSUME Grounded, NEW s \in Seq(Id)
    PROVE  Sources(s) \in Seq(Id) /\ Tidy(Sources(s), ToSet(s))
<1> DEFINE n == Len(s)
           A == Seq(Id)
           step == [c \in (1 .. n) \X A |-> Filed(c[2], s[c[1]])]
           Folds(g) == g = [t \in SUBSET DOMAIN s |->
                              IF t = {} THEN <<>>
                              ELSE Filed(g[t \ {Max(t)}], s[Max(t)])]
           fold == CHOOSE g : Folds(g)
           upTo(k) == {s[i] : i \in 1 .. k}
<1>1. Sources(s) = fold[DOMAIN s]
  BY DEF Sources, FoldLeft, MapThenFoldSet, Filed
<1>2. n \in Nat /\ DOMAIN s = 1 .. n /\ \A i \in 1 .. n : s[i] \in Id
  OBVIOUS
<1>3. <<>> \in A
  OBVIOUS
<1>4. \A a \in A, f \in Id : Filed(a, f) \in A
  <2> SUFFICES ASSUME NEW a \in A, NEW f \in Id PROVE Filed(a, f) \in A
    OBVIOUS
  <2> DEFINE new == [i \in DOMAIN a |->
                       IF facts[a[i]].doc = facts[f].doc /\ Stronger(f, a[i]) THEN f ELSE a[i]]
  <2>1. DOMAIN a = 1 .. Len(a) /\ Len(a) \in Nat /\ \A i \in DOMAIN a : a[i] \in Id
    OBVIOUS
  <2>2. new \in [1 .. Len(a) -> Id]
    BY <2>1
  <2>3. new \in Seq(Id)
    <3> HIDE DEF new
    <3>1. QED
      BY <2>1, <2>2
  <2>4. Append(a, f) \in Seq(Id)
    OBVIOUS
  <2>5. Filed(a, f) = new \/ Filed(a, f) = Append(a, f)
    BY DEF Filed
  <2>6. QED
    BY <2>3, <2>4, <2>5
<1> HIDE DEF A, n
<1>5. /\ step \in [(1 .. n) \X A -> A]
      /\ \A i \in 1 .. n : \A a \in A : step[<<i, a>>] = Filed(a, s[i])
  BY <1>2, <1>4
<1> HIDE DEF step
<1>6. \E g : Folds(g)
  <2>1. PICK g : Solves(g, n, A, <<>>, step)
    BY <1>2, <1>3, <1>5, FoldSolves
  <2>2. Folds(g)
    BY <1>2, <1>5, <2>1 DEF Solves
  <2>3. QED
    BY <2>2
<1>7. Folds(fold)
  BY <1>6
<1> HIDE DEF fold
<1>8. Follows(fold, n, A, <<>>, step)
  <2>1. \A t \in SUBSET (1 .. n) : t # {} => Max(t) \in 1 .. n
    BY <1>2, MaxIsLast DEF IsLast
  <2>2. QED
    BY <1>2, <1>5, <1>7, <2>1 DEF Follows
<1>9. Steps(fold, n, A, <<>>, step)
  BY <1>2, <1>3, <1>5, <1>8, FoldSteps
<1> HIDE DEF Folds
<1> DEFINE Good == {k \in 0 .. n : Tidy(fold[1 .. k], upTo(k))}
<1>10. 0 \in Good
  <2>1. 0 \in 0 .. n /\ upTo(0) = {} /\ ToSet(<<>>) = {} /\ DOMAIN <<>> = {}
    BY <1>2 DEF ToSet
  <2>2. Tidy(<<>>, upTo(0))
    BY <2>1 DEF Tidy
  <2>3. QED
    BY <1>9, <2>1, <2>2 DEF Steps
<1>11. ASSUME NEW k \in 1 .. n, k - 1 \in Good PROVE k \in Good
  <2>1. /\ k \in 0 .. n /\ k - 1 \in 0 .. n /\ s[k] \in Id
        /\ fold[1 .. (k - 1)] \in Seq(Id) /\ fold[1 .. k] = Filed(fold[1 .. (k - 1)], s[k])
    <3>1. k \in 0 .. n /\ k - 1 \in 0 .. n /\ s[k] \in Id
      BY <1>2
    <3>2. fold[1 .. (k - 1)] \in A
      BY <1>9, <3>1 DEF Steps
    <3>3. fold[1 .. k] = Filed(fold[1 .. (k - 1)], s[k])
      BY <1>5, <1>9, <3>2 DEF Steps
    <3>4. QED
      BY <3>1, <3>2, <3>3 DEF A
  <2>2. upTo(k - 1) \in SUBSET Id
    BY <1>2
  <2>3. upTo(k) = upTo(k - 1) \cup {s[k]}
    <3>1. \A i : i \in 1 .. k <=> i = k \/ i \in 1 .. (k - 1)
      BY <1>2
    <3>2. QED
      BY <3>1
  <2>4. Tidy(fold[1 .. (k - 1)], upTo(k - 1))
    BY <1>11
  <2> HIDE DEF upTo
  <2>5. Tidy(fold[1 .. k], upTo(k - 1) \cup {s[k]})
    BY <2>1, <2>2, <2>4, FilingKeepsTidy
  <2>6. QED
    BY <2>1, <2>3, <2>5
<1>12. n \in Good
  <2>1. \A k \in 1 .. n : k - 1 \in Good => k \in Good
    BY <1>11
  <2> HIDE DEF Good
  <2>2. \A i \in 0 .. n : i \in Good
    BY <1>2, <1>10, <2>1, Climb
  <2>3. n \in 0 .. n
    BY <1>2
  <2>4. QED
    BY <2>2, <2>3
<1>13. upTo(n) = ToSet(s)
  BY <1>2 DEF ToSet
<1>14. fold[1 .. n] \in Seq(Id)
  <2>1. n \in 0 .. n
    BY <1>2
  <2>2. QED
    BY <1>9, <2>1 DEF Steps, A
<1> HIDE DEF upTo
<1>15. QED
  BY <1>1, <1>2, <1>12, <1>13, <1>14

LEMMA OneIsAll ==
    ASSUME NEW X, NEW f \in X \cup {NoFact}, NoFact \notin X
    PROVE  /\ One(f) \in Seq(X)
           /\ \A x : x \in ToSet(One(f)) <=> x = f /\ f # NoFact
<1>1. CASE f = NoFact
  <2>1. One(f) = <<>> /\ ToSet(<<>>) = {}
    BY <1>1 DEF One, ToSet
  <2>2. QED
    BY <1>1, <2>1
<1>2. CASE f # NoFact
  <2>1. One(f) = <<f>> /\ <<f>> \in Seq(X) /\ DOMAIN <<f>> = {1} /\ <<f>>[1] = f
    BY <1>2 DEF One
  <2>2. \A x : x \in ToSet(<<f>>) <=> x = f
    BY <2>1 DEF ToSet
  <2>3. QED
    BY <1>2, <2>1, <2>2
<1>3. QED
  BY <1>1, <1>2

\* The template quotes the first candidate that invites, or none of them does.
LEMMA FallbackIsFirst ==
    ASSUME NEW X, NEW s \in Seq(X)
    PROVE  \/ Fallback(s) = NoFact
           \/ \E n \in DOMAIN s : /\ Fallback(s) = s[n] /\ Invites(s[n])
                                  /\ \A m \in DOMAIN s : m < n => ~Invites(s[m])
<1> DEFINE I == {i \in 1 .. Len(s) : Invites(s[i])}
<1>1. Fallback(s) = IF (IF I # {} THEN Min(I) ELSE 0) = 0 THEN NoFact
                    ELSE s[IF I # {} THEN Min(I) ELSE 0]
  BY DEF Fallback, SelectInSeq
<1>2. DOMAIN s = 1 .. Len(s) /\ I \in SUBSET Nat
  OBVIOUS
<1>3. CASE I = {}
  BY <1>1, <1>3
<1>4. CASE I # {}
  <2>1. Min(I) \in I /\ \A m \in I : Min(I) <= m
    BY <1>2, <1>4, MinIsLeast
  <2>2. /\ Min(I) \in DOMAIN s /\ Min(I) # 0 /\ Min(I) \in Nat /\ Invites(s[Min(I)])
        /\ \A m \in DOMAIN s : Invites(s[m]) => Min(I) <= m
    BY <1>2, <2>1
  <2>3. Fallback(s) = s[Min(I)]
    BY <1>1, <1>4, <2>2
  <2>4. \A m \in DOMAIN s : m < Min(I) => ~Invites(s[m])
    BY <1>2, <2>2
  <2>5. QED
    BY <2>2, <2>3, <2>4
<1>5. QED
  BY <1>3, <1>4

------------------------------------------------------------------------------
(* A run of make_digest                                                     *)

\* What each step leaves behind, said of the dossier alone.
Chosen ==
    /\ who = WhoFacts
    /\ nonobvious = NonObvious
    /\ lately = Lately(ToSet(who) \cup ToSet(One(nonobvious)))
    /\ candidates = Candidates(ToSet(who))

Voiced ==
    \/ quoted = NoFact
    \/ pc \in {"failed", "done"} /\ quoted = Fallback(candidates) /\ opener = quoted

\* Whatever the opener says was among the facts a host may see.
Said == opener \in Displayable \cup {NoFact}

Inv ==
    /\ Grounded /\ meet \in MeetRows
    /\ pc \in {"new", "asking", "answered", "failed", "done"}
    /\ pc # "new" => Chosen
    /\ Voiced /\ Said
    /\ pc = "done" => sources = Sources(Cited)

\* The dossier and the rows stand still, and with them everything said of them.
LEMMA DossierStands ==
    ASSUME facts' = facts
    PROVE  /\ Grounded' <=> Grounded
           /\ WhoFacts' = WhoFacts /\ NonObvious' = NonObvious
           /\ Displayable' = Displayable
<1>1. Displayable' = Displayable
  BY DEF Displayable, Id
<1>2. WhoFacts' = WhoFacts
  BY DEF WhoFacts, Displayable, Id, Sorted, Stronger, FoldLeft, MapThenFoldSet
<1>3. NonObvious' = NonObvious
  BY DEF NonObvious, Displayable, Id, Sorted, MoreConfident
<1>4. Grounded' <=> Grounded
  BY DEF Grounded
<1>5. QED
  BY <1>1, <1>2, <1>3, <1>4

LEMMA LatelyStands ==
    ASSUME facts' = facts
    PROVE  Lately(ToSet(who) \cup ToSet(One(nonobvious)))' =
           Lately(ToSet(who') \cup ToSet(One(nonobvious')))
BY DEF Lately, Pool, Displayable, Id, Sorted, MoreRecent, MoreConfident, FirstOf

LEMMA ChosenStands ==
    ASSUME facts' = facts, who' = WhoFacts, nonobvious' = NonObvious,
           lately' = Lately(ToSet(who') \cup ToSet(One(nonobvious'))),
           candidates' = Candidates(ToSet(who'))
    PROVE  Chosen'
<1>1. who' = WhoFacts' /\ nonobvious' = NonObvious'
  BY DossierStands
<1>2. lately' = Lately(ToSet(who) \cup ToSet(One(nonobvious)))'
  BY LatelyStands
<1>3. candidates' = Candidates(ToSet(who))'
  BY DEF Candidates, Displayable, Id, Sorted, MoreRecent, MoreConfident, ToSet
<1>4. QED
  BY <1>1, <1>2, <1>3 DEF Chosen

LEMMA StillChosen ==
    ASSUME Chosen, facts' = facts, UNCHANGED picks
    PROVE  Chosen'
<1>1. who' = who /\ nonobvious' = nonobvious /\ lately' = lately /\ candidates' = candidates
  BY DEF picks
<1>2. /\ lately' = Lately(ToSet(who') \cup ToSet(One(nonobvious')))
      /\ candidates' = Candidates(ToSet(who'))
  BY <1>1 DEF Chosen
<1>3. QED
  BY <1>1, <1>2, ChosenStands DEF Chosen

LEMMA FallbackStands ==
    ASSUME facts' = facts, candidates' = candidates
    PROVE  Fallback(candidates)' = Fallback(candidates)
BY DEF Fallback, SelectInSeq, Invites, Min

LEMMA SourcesStand ==
    ASSUME facts' = facts, meet' = meet, UNCHANGED picks, quoted' = quoted
    PROVE  Sources(Cited)' = Sources(Cited)
<1>1. HubEvidence' = HubEvidence
  <2>1. Displayable' = Displayable
    BY DossierStands
  <2>2. QED
    BY <2>1 DEF HubEvidence, EvidenceOf
<1>2. Cited' = Cited
  BY <1>1 DEF Cited, picks, One
<1>3. QED
  BY <1>2 DEF Sources, Stronger, FoldLeft, MapThenFoldSet

\* The model is shown, and the template given, nothing a host may not see.
LEMMA PromptIsDisplayable ==
    ASSUME Grounded, Chosen
    PROVE  Prompted \subseteq Displayable
<1>1. candidates \in Seq(Displayable) /\ lately \in Seq(Displayable)
  BY CandidatesAreDisplayable, LatelyIsDisplayable DEF Chosen
<1>2. /\ FirstOf(candidates, 1) \in Seq(Displayable)
      /\ FirstOf(candidates, 1) \o lately \in Seq(Displayable)
  BY <1>1, FirstAreOfIt
<1>3. QED
  BY <1>2, SeqGrows DEF Prompted

LEMMA PickIsDisplayable ==
    ASSUME Grounded, Chosen
    PROVE  Fallback(candidates) \in Displayable \cup {NoFact}
<1>1. candidates \in Seq(Displayable)
  BY CandidatesAreDisplayable DEF Chosen
<1>2. QED
  BY <1>1, FallbackIsFirst

\* The invariant the three properties rest on: until it is done a run holds what the code
\* computes of its dossier, and a line that quotes quotes the template's pick.
THEOREM SelectionHolds == Spec => []Inv
<1>1. Init => Inv
  BY DEF Init, Inv, Grounded, Voiced, Said
<1>2. Inv /\ [Next]_vars => Inv'
  <2> SUFFICES ASSUME Inv, [Next]_vars PROVE Inv'
    OBVIOUS
  <2>1. CASE Select
    <3>1. Chosen'
      BY <2>1, ChosenStands DEF Select
    <3>2. Voiced'
      BY <2>1 DEF Select, Inv, Voiced
    <3>3. Said'
      BY <2>1, DossierStands DEF Select, Inv, Said
    <3>4. QED
      BY <2>1, <3>1, <3>2, <3>3, DossierStands DEF Inv, Select
  <2>2. CASE LlmAnswers
    <3>1. Chosen'
      BY <2>2, StillChosen DEF LlmAnswers, Inv
    <3>2. Voiced'
      BY <2>2 DEF LlmAnswers, Inv, Voiced
    <3>3. Said'
      <4>1. Prompted \subseteq Displayable
        BY <2>2, PromptIsDisplayable DEF LlmAnswers, Inv
      <4>2. QED
        BY <2>2, <4>1, DossierStands DEF LlmAnswers, Said
    <3>4. QED
      BY <2>2, <3>1, <3>2, <3>3, DossierStands DEF Inv, LlmAnswers
  <2>3. CASE LlmFails
    <3>1. Chosen'
      BY <2>3, StillChosen DEF LlmFails, Inv
    <3>2. Voiced'
      <4>1. candidates' = candidates
        BY <2>3 DEF LlmFails, picks
      <4>2. Fallback(candidates)' = Fallback(candidates)
        BY <2>3, <4>1, FallbackStands DEF LlmFails
      <4>3. QED
        BY <2>3, <4>2 DEF LlmFails, Voiced
    <3>3. Said'
      <4>1. Fallback(candidates) \in Displayable \cup {NoFact}
        BY <2>3, PickIsDisplayable DEF LlmFails, Inv
      <4>2. QED
        BY <2>3, <4>1, DossierStands DEF LlmFails, Said
    <3>4. QED
      BY <2>3, <3>1, <3>2, <3>3, DossierStands DEF Inv, LlmFails
  <2>4. CASE Assemble
    <3>1. Chosen'
      BY <2>4, StillChosen DEF Assemble, Inv
    <3>2. Voiced'
      <4>1. candidates' = candidates
        BY <2>4 DEF Assemble, picks
      <4>2. Fallback(candidates)' = Fallback(candidates)
        BY <2>4, <4>1, FallbackStands DEF Assemble
      <4>3. QED
        BY <2>4, <4>2 DEF Assemble, Voiced, Inv
    <3>3. sources' = Sources(Cited)'
      BY <2>4, SourcesStand DEF Assemble
    <3>4. Said'
      BY <2>4, DossierStands DEF Assemble, Inv, Said
    <3>5. QED
      BY <2>4, <3>1, <3>2, <3>3, <3>4, DossierStands DEF Inv, Assemble
  <2>5. CASE UNCHANGED vars
    <3>1. facts' = facts /\ meet' = meet /\ UNCHANGED picks /\ pc' = pc
          /\ quoted' = quoted /\ opener' = opener /\ sources' = sources /\ candidates' = candidates
      BY <2>5 DEF vars, picks
    <3>2. pc' # "new" => Chosen'
      BY <3>1, StillChosen DEF Inv
    <3>3. Voiced'
      BY <3>1, FallbackStands DEF Voiced, Inv
    <3>4. pc' = "done" => sources' = Sources(Cited)'
      BY <3>1, SourcesStand DEF Inv
    <3>5. Said'
      BY <3>1, DossierStands DEF Inv, Said
    <3>6. QED
      BY <3>1, <3>2, <3>3, <3>4, <3>5, DossierStands DEF Inv
  <2>6. QED
    BY <2>1, <2>2, <2>3, <2>4, <2>5 DEF Next
<1>3. QED
  BY <1>1, <1>2, PTL DEF Spec

\* What a finished page shows is displayable, and each list is made of its own parts.
LEMMA PageIsDisplayable ==
    ASSUME Inv, pc = "done"
    PROVE  /\ {who, lately, candidates, One(nonobvious), One(quoted), HubEvidence}
                 \subseteq Seq(Displayable)
           /\ Cited \in Seq(Displayable)
           /\ \A f : f \in Quoted <=> f \in ToSet(who) \cup ToSet(lately)
                                          \cup ToSet(One(nonobvious)) \cup ToSet(One(quoted))
           /\ \A f : f \in ToSet(Cited) <=> f \in Quoted \/ f \in ToSet(HubEvidence)
<1>1. who \in Seq(Displayable)
  BY WhoIsDisplayable DEF Inv, Chosen
<1>2. lately \in Seq(Displayable)
  BY LatelyIsDisplayable DEF Inv, Chosen
<1>3. candidates \in Seq(Displayable)
  BY CandidatesAreDisplayable DEF Inv, Chosen
<1>4. One(nonobvious) \in Seq(Displayable) /\ NoFact \notin Displayable
  BY NonObviousIsDisplayable, OneIsAll DEF Inv, Chosen
<1>5. quoted \in Displayable \cup {NoFact}
  <2>1. \/ quoted = NoFact
        \/ \E n \in DOMAIN candidates : quoted = candidates[n]
    BY <1>3, FallbackIsFirst DEF Inv, Voiced
  <2>2. QED
    BY <1>3, <2>1
<1>6. One(quoted) \in Seq(Displayable)
  BY <1>4, <1>5, OneIsAll
<1>7. HubEvidence \in Seq(Displayable)
  BY HubEvidenceIsDisplayable DEF Inv
<1>8. Quoted = ToSet(who) \cup ToSet(lately) \cup ToSet(One(nonobvious)) \cup ToSet(One(quoted))
  BY <1>1, <1>2, <1>4, <1>6, FourAreAll DEF Quoted
<1> DEFINE page == who \o lately \o One(nonobvious) \o HubEvidence
<1>9. /\ page \in Seq(Displayable)
      /\ ToSet(page) = ToSet(who) \cup ToSet(lately) \cup ToSet(One(nonobvious))
                         \cup ToSet(HubEvidence)
  BY <1>1, <1>2, <1>4, <1>7, FourAreAll
<1>10. Cited = page \o One(quoted)
  BY DEF Cited
<1> HIDE DEF page
<1>11. Cited \in Seq(Displayable) /\ ToSet(Cited) = ToSet(page) \cup ToSet(One(quoted))
  BY <1>6, <1>9, <1>10, ConcatIsAll
<1>12. ToSet(Cited) = Quoted \cup ToSet(HubEvidence)
  BY <1>8, <1>9, <1>11
<1>13. QED
  BY <1>1, <1>2, <1>3, <1>4, <1>6, <1>7, <1>8, <1>11, <1>12

LEMMA SlotsAreTidy ==
    ASSUME Inv, pc = "done"
    PROVE  /\ sources \in Seq(Id) /\ Tidy(sources, ToSet(Cited)) /\ ToSet(Cited) \subseteq Displayable
           /\ Displayable \subseteq Id
<1>1. Displayable \subseteq Id
  BY DEF Displayable
<1>2. Cited \in Seq(Id) /\ ToSet(Cited) \subseteq Displayable
  BY <1>1, PageIsDisplayable, SeqGrows
<1>3. QED
  BY <1>1, <1>2, SourcesAreTidy DEF Inv

\* Every fact a finished page shows has exactly one numbered source, but one that only a line
\* of the model's own repeats, from a document nothing else on the page is from: it has none.
\* What taste withheld is neither shown nor a source.
THEOREM EveryFactIsCited == Spec => []EveryFactCited
<1>1. Inv => EveryFactCited
  <2> DEFINE Slots(f) == {i \in DOMAIN sources : facts[sources[i]].doc = facts[f].doc}
  <2> SUFFICES ASSUME Inv, pc = "done"
               PROVE  /\ \A f \in Shown :
                           Cardinality(Slots(f)) = IF f \in Repeated THEN 0 ELSE 1
                      /\ \A f \in Shown \cup ToSet(sources) : facts[f].displayable
    BY DEF EveryFactCited
  <2>1. /\ Tidy(sources, ToSet(Cited)) /\ ToSet(Cited) \subseteq Displayable
        /\ \A f : f \in ToSet(Cited) <=> f \in Quoted \cup ToSet(HubEvidence)
    BY PageIsDisplayable, SlotsAreTidy
  <2>2. ASSUME NEW f \in Shown, f \notin Repeated
        PROVE  Cardinality(Slots(f)) = 1
    <3>1. PICK g \in ToSet(Cited) : facts[g].doc = facts[f].doc
      BY <2>1, <2>2 DEF Repeated
    <3>2. PICK n \in DOMAIN sources : facts[sources[n]].doc = facts[f].doc
      BY <2>1, <3>1 DEF Tidy
    <3>3. Slots(f) = {n}
      BY <2>1, <3>2 DEF Tidy
    <3>4. QED
      BY <3>3, FS_Singleton
  <2>3. ASSUME NEW f \in Repeated
        PROVE  Cardinality(Slots(f)) = 0
    <3>1. \A i \in DOMAIN sources : sources[i] \in ToSet(Cited)
      BY <2>1 DEF Tidy, ToSet
    <3>2. Slots(f) = {}
      BY <2>1, <3>1 DEF Repeated
    <3>3. QED
      BY <3>2, FS_EmptySet
  <2>4. \A f \in Shown \cup ToSet(sources) : f \in Displayable
    <3>1. \A f \in ToSet(One(opener)) : f \in Displayable
      BY DEF One, ToSet, Inv, Said
    <3>2. QED
      BY <2>1, <3>1 DEF Tidy, Shown
  <2>5. QED
    BY <2>2, <2>3, <2>4 DEF Displayable
<1>2. QED
  BY <1>1, SelectionHolds, PTL

\* A document's slot holds the strongest evidence the page has from it.
THEOREM EvidenceIsStrongest == Spec => []StrongestEvidence
<1>1. Inv => StrongestEvidence
  <2> SUFFICES ASSUME Inv, pc = "done",
                      NEW i \in DOMAIN sources, NEW f \in Quoted \cup ToSet(HubEvidence),
                      facts[f].doc = facts[sources[i]].doc
               PROVE  ~Stronger(f, sources[i])
    BY DEF StrongestEvidence
  <2>1. Tidy(sources, ToSet(Cited)) /\ f \in ToSet(Cited)
    BY PageIsDisplayable, SlotsAreTidy
  <2>2. PICK n \in DOMAIN sources :
           facts[sources[n]].doc = facts[f].doc /\ ~Stronger(f, sources[n])
    BY <2>1 DEF Tidy
  <2>3. n = i
    BY <2>1, <2>2 DEF Tidy
  <2>4. QED
    BY <2>2, <2>3
<1>2. QED
  BY <1>1, SelectionHolds, PTL

------------------------------------------------------------------------------
(* What the page makes of the digest                                        *)

\* Reading the opener back finds the very fact the template quoted.
LEMMA OpenerIsReadBack ==
    ASSUME Inv, pc = "done"
    PROVE  /\ OpenerQuotedFact \in Seq(Displayable)
           /\ quoted # NoFact => quoted \in ToSet(OpenerQuotedFact)
<1> DEFINE I == {i \in 1 .. Len(candidates) :
                   opener # NoFact /\ Text(candidates[i]) = Text(opener)}
           at == IF I # {} THEN Min(I) ELSE 0
<1>1. candidates \in Seq(Displayable) /\ Candidates(ToSet(WhoFacts)) = candidates
  BY PageIsDisplayable DEF Inv, Chosen
<1>2. OpenerQuotedFact = IF at = 0 THEN <<>> ELSE <<candidates[at]>>
  BY <1>1 DEF OpenerQuotedFact, SelectInSeq
<1>3. I \in SUBSET Nat /\ I \subseteq DOMAIN candidates
  BY <1>1
<1>4. I # {} => at \in I /\ at # 0 /\ \A m \in I : at <= m
  <2>1. I # {} => Min(I) \in I /\ \A m \in I : Min(I) <= m
    BY <1>3, MinIsLeast
  <2>2. 0 \notin I
    OBVIOUS
  <2> HIDE DEF I
  <2>3. QED
    BY <2>1, <2>2
<1>5. OpenerQuotedFact \in Seq(Displayable)
  <2> HIDE DEF I
  <2>1. CASE I = {}
    BY <1>2, <2>1
  <2>2. CASE I # {}
    <3>1. candidates[at] \in Displayable
      <4> HIDE DEF at
      <4>1. at \in DOMAIN candidates
        BY <1>3, <1>4, <2>2
      <4>2. QED
        BY <1>1, <4>1
    <3>2. OpenerQuotedFact = <<candidates[at]>>
      BY <1>2, <1>4, <2>2
    <3> HIDE DEF at
    <3>3. QED
      BY <3>1, <3>2
  <2>3. QED
    BY <2>1, <2>2
<1>6. ASSUME quoted # NoFact PROVE quoted \in ToSet(OpenerQuotedFact)
  <2>1. PICK n \in DOMAIN candidates :
           /\ quoted = candidates[n] /\ Invites(candidates[n])
           /\ \A m \in DOMAIN candidates : m < n => ~Invites(candidates[m])
    BY <1>1, <1>6, FallbackIsFirst DEF Inv, Voiced
  <2>2. n \in I
    BY <1>1, <1>6, <2>1 DEF Inv, Voiced
  <2>3. at \in I /\ at # 0 /\ at <= n /\ at \in DOMAIN candidates
    BY <1>3, <1>4, <2>2
  <2>4. Invites(candidates[at])
    <3>1. Text(candidates[at]) = Text(candidates[n])
      <4>1. \A i \in I : Text(candidates[i]) = Text(opener)
        OBVIOUS
      <4> HIDE DEF I, at
      <4>2. QED
        BY <2>2, <2>3, <4>1
    <3>2. /\ facts[candidates[at]].aloud = facts[candidates[n]].aloud
          /\ facts[candidates[at]].words = facts[candidates[n]].words
      BY <3>1 DEF Text
    <3> HIDE DEF at
    <3>3. QED
      BY <2>1, <3>2 DEF Invites
  <2>5. at = n
    <3> HIDE DEF I, at
    <3>1. at \in Nat /\ n \in Nat
      BY <1>1, <2>1, <2>3
    <3>2. QED
      BY <2>1, <2>3, <2>4, <3>1
  <2>6. OpenerQuotedFact = <<quoted>>
    BY <1>2, <2>1, <2>3, <2>5
  <2>7. QED
    BY <2>6 DEF ToSet
<1>7. QED
  BY <1>5, <1>6

LEMMA NumberIsSlot ==
    ASSUME Inv, pc = "done"
    PROVE  /\ \A f : Number(f) # 0 => Number(f) \in DOMAIN sources
           /\ \A f \in ToSet(Cited) : Number(f) \in DOMAIN sources /\ Number(f) # 0
           /\ \A n \in DOMAIN sources : Number(sources[n]) = n /\ sources[n] \in ToSet(Cited)
<1> DEFINE at(f) == {n \in DOMAIN sources : facts[sources[n]].doc = facts[f].doc}
<1>1. \A f : Number(f) = IF at(f) = {} THEN 0 ELSE CHOOSE n \in at(f) : TRUE
  BY DEF Number
<1>2. sources \in Seq(Id) /\ Tidy(sources, ToSet(Cited)) /\ 0 \notin DOMAIN sources
  BY SlotsAreTidy
<1>3. ASSUME NEW f PROVE at(f) # {} => Number(f) \in at(f)
  <2>1. at(f) # {} => (CHOOSE n \in at(f) : TRUE) \in at(f)
    OBVIOUS
  <2> HIDE DEF at
  <2>2. QED
    BY <1>1, <2>1
<1>4. \A f : Number(f) # 0 => Number(f) \in DOMAIN sources
  <2>1. \A f : at(f) \subseteq DOMAIN sources
    OBVIOUS
  <2> HIDE DEF at
  <2>2. QED
    BY <1>1, <1>3, <2>1
<1>5. \A f \in ToSet(Cited) : Number(f) \in DOMAIN sources /\ Number(f) # 0
  <2>1. \A f \in ToSet(Cited) : at(f) # {}
    BY <1>2 DEF Tidy
  <2>2. \A f : at(f) \subseteq DOMAIN sources
    OBVIOUS
  <2> HIDE DEF at
  <2>3. QED
    BY <1>2, <1>3, <2>1, <2>2
<1>6. ASSUME NEW n \in DOMAIN sources PROVE Number(sources[n]) = n
  <2>1. at(sources[n]) = {n}
    BY <1>2 DEF Tidy
  <2>2. QED
    BY <1>3, <2>1
<1>7. \A n \in DOMAIN sources : sources[n] \in ToSet(Cited)
  BY <1>2 DEF Tidy, ToSet
<1>8. QED
  BY <1>4, <1>5, <1>6, <1>7

\* Every claim of the page is made of facts a host may see.
LEMMA ClaimsAreDisplayable ==
    ASSUME Inv, pc = "done"
    PROVE  /\ \A c \in PageClaims : c.facts \subseteq Displayable
           /\ \A f \in ToSet(Cited) : \E c \in PageClaims : f \in c.facts
<1>1. /\ WhoFacts \in Seq(Displayable) /\ lately \in Seq(Displayable)
      /\ One(nonobvious) \in Seq(Displayable) /\ OpenerQuotedFact \in Seq(Displayable)
      /\ who = WhoFacts
  BY PageIsDisplayable, OpenerIsReadBack DEF Inv, Chosen
<1>2. /\ ToSet(WhoFacts) \subseteq Displayable /\ ToSet(lately) \subseteq Displayable
      /\ ToSet(One(nonobvious)) \subseteq Displayable
      /\ ToSet(OpenerQuotedFact) \subseteq Displayable
  BY <1>1, SeqGrows
<1>3. \A r \in DOMAIN meet : ToSet(EvidenceOf(meet[r].hubs)) \subseteq Displayable
  BY HubEvidenceIsDisplayable, EvidenceIsDisplayable DEF Inv
<1>4. \A c \in PageClaims : c.facts \subseteq Displayable
  <2>1. \A section, detail, shown : Claim(section, detail, shown).facts = ToSet(shown)
    BY DEF Claim
  <2>2. ASSUME NEW c \in PageClaims PROVE c.facts \subseteq Displayable
    <3>1. \/ c = Claim("who", "", WhoFacts) \/ c = Claim("say-out-loud", "", OpenerQuotedFact)
          \/ c = Claim("lately", "", lately)
          \/ c = Claim("not-on-the-first-page", "", One(nonobvious))
          \/ \E r \in DOMAIN meet : c = Claim("meet", meet[r].other, EvidenceOf(meet[r].hubs))
      BY Zenon DEF PageClaims
    <3>2. QED
      BY <1>2, <1>3, <2>1, <3>1
  <2>3. QED
    BY <2>2
<1>5. ASSUME NEW f \in ToSet(Cited) PROVE \E c \in PageClaims : f \in c.facts
  <2>1. \/ f \in ToSet(who) \/ f \in ToSet(lately) \/ f \in ToSet(One(nonobvious))
        \/ f \in ToSet(One(quoted)) \/ f \in ToSet(HubEvidence)
    BY PageIsDisplayable
  <2>2. CASE f \in ToSet(who)
    <3>1. Claim("who", "", WhoFacts) \in PageClaims
      BY DEF PageClaims
    <3>2. f \in Claim("who", "", WhoFacts).facts
      BY <1>1, <2>2 DEF Claim
    <3>3. QED
      BY <3>1, <3>2
  <2>3. CASE f \in ToSet(lately)
    <3>1. Claim("lately", "", lately) \in PageClaims
      BY DEF PageClaims
    <3>2. f \in Claim("lately", "", lately).facts
      BY <2>3 DEF Claim
    <3>3. QED
      BY <3>1, <3>2
  <2>4. CASE f \in ToSet(One(nonobvious))
    <3>1. Claim("not-on-the-first-page", "", One(nonobvious)) \in PageClaims
      BY DEF PageClaims
    <3>2. f \in Claim("not-on-the-first-page", "", One(nonobvious)).facts
      BY <2>4 DEF Claim
    <3>3. QED
      BY <3>1, <3>2
  <2>5. CASE f \in ToSet(One(quoted))
    <3>1. Claim("say-out-loud", "", OpenerQuotedFact) \in PageClaims
      BY DEF PageClaims
    <3>2. f = quoted /\ quoted # NoFact
      BY <2>5 DEF One, ToSet
    <3>3. f \in Claim("say-out-loud", "", OpenerQuotedFact).facts
      BY <3>2, OpenerIsReadBack DEF Claim
    <3>4. QED
      BY <3>1, <3>3
  <2>6. CASE f \in ToSet(HubEvidence)
    <3>1. PICK r \in DOMAIN meet : f \in ToSet(EvidenceOf(meet[r].hubs))
      BY <2>6, HubEvidenceIsDisplayable DEF Inv
    <3>2. Claim("meet", meet[r].other, EvidenceOf(meet[r].hubs)) \in PageClaims
      BY DEF PageClaims
    <3>3. f \in Claim("meet", meet[r].other, EvidenceOf(meet[r].hubs)).facts
      BY <3>1 DEF Claim
    <3>4. QED
      BY <3>2, <3>3
  <2>7. QED
    BY <2>1, <2>2, <2>3, <2>4, <2>5, <2>6
<1>6. QED
  BY <1>4, <1>5

\* What a claim rests on is quoted under its document's number, for this claim.
LEMMA QuotedUnderItsNumber ==
    ASSUME Inv, pc = "done", NEW c \in PageClaims, NEW f \in c.facts, Number(f) # 0
    PROVE  \E quote \in SourceEvidence(PageClaims)[Number(f)] :
              quote.fact = f /\ <<c.section, c.detail>> \in quote.backs
<1> DEFINE backs == {<<d.section, d.detail>> : d \in {d \in PageClaims : f \in d.facts}}
           quote == [fact |-> f, backs |-> backs]
<1>1. Number(f) \in DOMAIN sources
  BY NumberIsSlot
<1>2. f \in Displayable \cap UNION {d.facts : d \in PageClaims}
  BY ClaimsAreDisplayable
<1>3. quote \in SourceEvidence(PageClaims)[Number(f)]
  BY <1>1, <1>2 DEF SourceEvidence
<1>4. <<c.section, c.detail>> \in backs
  OBVIOUS
<1>5. QED
  BY <1>3, <1>4

\* Beside each sentence stand numbers of facts behind it.
LEMMA MarkersHaveClaims ==
    ASSUME Inv, pc = "done", NEW mark \in Markers, NEW n \in mark.numbers
    PROVE  \E c \in PageClaims : /\ mark.claim = <<c.section, c.detail>>
                                 /\ \E f \in c.facts : Number(f) = n /\ n # 0
<1>1. CASE mark = [claim |-> <<"who", "">>, numbers |-> Citations(WhoFacts)]
  <2> DEFINE c == Claim("who", "", WhoFacts)
  <2>1. c \in PageClaims
    BY DEF PageClaims
  <2>2. mark.claim = <<c.section, c.detail>> /\ \E f \in c.facts : Number(f) = n /\ n # 0
    BY <1>1 DEF Claim, Citations
  <2>3. QED
    BY <2>1, <2>2
<1>2. CASE mark = [claim |-> <<"lately", "">>, numbers |-> Citations(lately)]
  <2> DEFINE c == Claim("lately", "", lately)
  <2>1. c \in PageClaims
    BY DEF PageClaims
  <2>2. mark.claim = <<c.section, c.detail>> /\ \E f \in c.facts : Number(f) = n /\ n # 0
    BY <1>2 DEF Claim, Citations
  <2>3. QED
    BY <2>1, <2>2
<1>3. CASE mark = [claim |-> <<"not-on-the-first-page", "">>,
                   numbers |-> Citations(One(nonobvious))]
  <2> DEFINE c == Claim("not-on-the-first-page", "", One(nonobvious))
  <2>1. c \in PageClaims
    BY DEF PageClaims
  <2>2. mark.claim = <<c.section, c.detail>> /\ \E f \in c.facts : Number(f) = n /\ n # 0
    BY <1>3 DEF Claim, Citations
  <2>3. QED
    BY <2>1, <2>2
<1>4. ASSUME NEW r \in DOMAIN meet,
             mark = [claim |-> <<"meet", meet[r].other>>,
                     numbers |-> Citations(EvidenceOf(CountedHubs(meet[r])))]
      PROVE  \E c \in PageClaims : /\ mark.claim = <<c.section, c.detail>>
                                   /\ \E f \in c.facts : Number(f) = n /\ n # 0
  <2> DEFINE c == Claim("meet", meet[r].other, EvidenceOf(meet[r].hubs))
             counted == CountedHubs(meet[r])
  <2>1. c \in PageClaims
    BY DEF PageClaims
  <2>2. meet[r].hubs \in Seq(HubShape)
    BY HubEvidenceIsDisplayable DEF Inv
  <2>3. counted \in Seq(HubShape) /\ ToSet(counted) \subseteq ToSet(meet[r].hubs)
    BY <2>2, WithinIsAll DEF CountedHubs
  <2>4. PICK f \in ToSet(EvidenceOf(counted)) : Number(f) = n /\ n # 0
    BY <1>4 DEF Citations
  <2> HIDE DEF counted
  <2>5. f \in Displayable /\ \E h \in DOMAIN counted : f \in ToSet(counted[h].evidence)
    BY <2>3, <2>4, EvidenceIsDisplayable
  <2>6. \E h \in DOMAIN meet[r].hubs : f \in ToSet(meet[r].hubs[h].evidence)
    BY <2>3, <2>5 DEF ToSet
  <2>7. f \in ToSet(EvidenceOf(meet[r].hubs))
    BY <2>2, <2>5, <2>6, EvidenceIsDisplayable
  <2>8. mark.claim = <<c.section, c.detail>> /\ f \in c.facts
    BY <1>4, <2>7 DEF Claim
  <2>9. QED
    BY <2>1, <2>4, <2>8
<1>5. QED
  BY <1>1, <1>2, <1>3, <1>4 DEF Markers

\* A digest's page can be checked: every number leads to a source that quotes what backs the
\* sentence beside it, every source has a quote, and every quotation its own document.
THEOREM EveryMarkerIsQuoted == Spec => []EveryMarkerHasItsQuote
<1>1. Inv => EveryMarkerHasItsQuote
  <2> SUFFICES ASSUME Inv, pc = "done"
               PROVE  /\ \A n \in DOMAIN sources : SourceEvidence(PageClaims)[n] # {}
                      /\ \A mark \in Markers : \A n \in mark.numbers :
                            \E quote \in SourceEvidence(PageClaims)[n] : mark.claim \in quote.backs
                      /\ \A f \in Quoted : /\ Number(f) # 0
                                          /\ \E quote \in SourceEvidence(PageClaims)[Number(f)] :
                                                quote.fact = f
    BY DEF EveryMarkerHasItsQuote
  <2>1. ASSUME NEW f \in ToSet(Cited)
        PROVE  Number(f) # 0 /\ \E quote \in SourceEvidence(PageClaims)[Number(f)] : quote.fact = f
    BY NumberIsSlot, ClaimsAreDisplayable, QuotedUnderItsNumber
  <2>2. \A n \in DOMAIN sources : SourceEvidence(PageClaims)[n] # {}
    BY <2>1, NumberIsSlot
  <2>3. ASSUME NEW mark \in Markers, NEW n \in mark.numbers
        PROVE  \E quote \in SourceEvidence(PageClaims)[n] : mark.claim \in quote.backs
    <3>1. PICK c \in PageClaims : /\ mark.claim = <<c.section, c.detail>>
                                  /\ \E f \in c.facts : Number(f) = n /\ n # 0
      BY MarkersHaveClaims
    <3>2. PICK f \in c.facts : Number(f) = n /\ n # 0
      BY <3>1
    <3>3. \E quote \in SourceEvidence(PageClaims)[Number(f)] :
             quote.fact = f /\ <<c.section, c.detail>> \in quote.backs
      BY <3>2, QuotedUnderItsNumber
    <3>4. QED
      BY <3>1, <3>2, <3>3
  <2>4. \A f \in Quoted : f \in ToSet(Cited)
    BY PageIsDisplayable
  <2>5. QED
    BY <2>1, <2>2, <2>3, <2>4
<1>2. QED
  BY <1>1, SelectionHolds, PTL

------------------------------------------------------------------------------
(* The interest graph                                                       *)

Ranks(R, S) ==
    /\ \A v \in S, w \in S : <<v, w>> \in R \/ <<w, v>> \in R
    /\ \A u \in S, v \in S, w \in S : <<u, v>> \in R /\ <<v, w>> \in R => <<u, w>> \in R

\* Of finitely many things that a total preorder ranks one is first.
LEMMA OneIsFirst ==
    ASSUME NEW S, IsFiniteSet(S), S # {}, NEW R, Ranks(R, S)
    PROVE  \E v \in S : \A w \in S : <<v, w>> \in R
<1> DEFINE Before(v) == {u \in S : <<u, v>> \in R}
           counts == {Cardinality(Before(v)) : v \in S}
<1>1. \A v \in S : IsFiniteSet(Before(v)) /\ Cardinality(Before(v)) \in Nat
  BY FS_Subset, FS_CardinalityType
<1>2. counts \in SUBSET Nat /\ counts # {}
  BY <1>1
<1>3. PICK n \in counts : \A m \in counts : n <= m
  <2> HIDE DEF counts
  <2>1. QED
    BY <1>2, Least
<1>4. PICK v \in S : n = Cardinality(Before(v))
  OBVIOUS
<1>5. ASSUME NEW w \in S PROVE <<v, w>> \in R
  <2> SUFFICES ASSUME <<v, w>> \notin R PROVE FALSE
    OBVIOUS
  <2>1. v \in Before(v) /\ v \notin Before(w) /\ Before(w) \subseteq Before(v)
    BY <1>5 DEF Ranks
  <2> DEFINE a == Before(v)
             b == Before(w)
             rest == a \ {v}
  <2>2. IsFiniteSet(a) /\ v \in a /\ b \subseteq rest
    BY <1>1, <2>1
  <2>3. Cardinality(b) >= n /\ n = Cardinality(a)
    BY <1>3, <1>4
  <2>4. n \in Nat /\ Cardinality(b) \in Nat
    BY <1>1, <1>4
  <2> HIDE DEF a, b
  <2>5. Cardinality(rest) = Cardinality(a) - 1 /\ IsFiniteSet(rest)
    BY <2>2, FS_RemoveElement
  <2> HIDE DEF rest
  <2>6. Cardinality(b) <= Cardinality(rest)
    BY <2>2, <2>5, FS_Subset
  <2>7. QED
    BY <2>3, <2>4, <2>5, <2>6
<1>6. QED
  BY <1>5

\* Some value that was stated is elected.
LEMMA TheStatedIsElected ==
    ASSUME NEW D, IsFiniteSet(D), D # {}, NEW S, NEW said \in [D -> S],
           NEW order, Ranks(order, S)
    PROVE  /\ Elect(Votes(said), order) \in {said[o] : o \in D}
           /\ \A w \in {said[o] : o \in D} :
                LET v == Elect(Votes(said), order)
                IN  Votes(said)[v] > Votes(said)[w] \/ (Votes(said)[v] = Votes(said)[w] /\ <<v, w>> \in order)
<1> DEFINE stated == {said[o] : o \in D}
           votes == Votes(said)
           R == {p \in stated \X stated :
                   votes[p[1]] > votes[p[2]] \/ (votes[p[1]] = votes[p[2]] /\ p \in order)}
<1>1. IsFiniteSet(stated) /\ stated # {} /\ stated \subseteq S
  <2>1. said \in [D -> stated] /\ \A v \in stated : \E o \in D : said[o] = v
    OBVIOUS
  <2>2. said \in Surjection(D, stated)
    BY <2>1 DEF Surjection
  <2>3. stated # {} /\ stated \subseteq S
    OBVIOUS
  <2> HIDE DEF stated
  <2>4. IsFiniteSet(stated)
    BY <2>2, FS_Surjection
  <2>5. QED
    BY <2>3, <2>4
<1>2. DOMAIN votes = stated /\ \A v \in stated : votes[v] \in Nat
  <2>1. \A v : /\ IsFiniteSet({o \in D : said[o] = v})
              /\ Cardinality({o \in D : said[o] = v}) \in Nat
    BY FS_Subset, FS_CardinalityType
  <2>2. DOMAIN said = D /\ Range(said) = stated
    BY DEF Range
  <2>3. QED
    BY <2>1, <2>2 DEF Votes
<1>3. Elect(votes, order) = CHOOSE v \in stated : \A w \in stated :
          votes[v] > votes[w] \/ (votes[v] = votes[w] /\ <<v, w>> \in order)
  BY <1>2 DEF Elect
<1> HIDE DEF votes
<1>4. Ranks(R, stated)
  <2>1. \A v \in stated, w \in stated : <<v, w>> \in order \/ <<w, v>> \in order
    BY <1>1 DEF Ranks
  <2>2. \A u \in stated, v \in stated, w \in stated :
           <<u, v>> \in order /\ <<v, w>> \in order => <<u, w>> \in order
    BY <1>1 DEF Ranks
  <2> HIDE DEF stated
  <2>3. \A v \in stated, w \in stated : <<v, w>> \in R <=>
           votes[v] > votes[w] \/ (votes[v] = votes[w] /\ <<v, w>> \in order)
    OBVIOUS
  <2> HIDE DEF R
  <2>4. \A v \in stated, w \in stated : <<v, w>> \in R \/ <<w, v>> \in R
    <3> SUFFICES ASSUME NEW v \in stated, NEW w \in stated
                 PROVE  <<v, w>> \in R \/ <<w, v>> \in R
      OBVIOUS
    <3>1. votes[v] > votes[w] \/ votes[w] > votes[v] \/ votes[v] = votes[w]
      <4>1. votes[v] \in Nat /\ votes[w] \in Nat
        BY <1>2
      <4>2. QED
        BY <4>1
    <3>2. <<v, w>> \in order \/ <<w, v>> \in order
      BY <2>1
    <3>3. QED
      BY <2>3, <3>1, <3>2
  <2>5. \A u \in stated, v \in stated, w \in stated :
           <<u, v>> \in R /\ <<v, w>> \in R => <<u, w>> \in R
    BY <1>2, <2>2, <2>3
  <2>6. QED
    BY <2>4, <2>5 DEF Ranks
<1> HIDE DEF stated
<1>5. PICK v \in stated : \A w \in stated : <<v, w>> \in R
  <2> HIDE DEF R
  <2>1. QED
    BY <1>1, <1>4, OneIsFirst
<1>6. \A w \in stated : votes[v] > votes[w] \/ (votes[v] = votes[w] /\ <<v, w>> \in order)
  BY <1>5
<1> HIDE DEF R
<1>7. /\ Elect(votes, order) \in stated
      /\ \A w \in stated : \/ votes[Elect(votes, order)] > votes[w]
                           \/ /\ votes[Elect(votes, order)] = votes[w]
                              /\ <<Elect(votes, order), w>> \in order
  BY <1>3, <1>6
<1>8. QED
  BY <1>7 DEF votes, stated

Occ == Person \X HubRecord

DossiersAre == dossiers \in [Person -> {None} \cup SUBSET Hub]

\* The population is built once, of what the dossiers held then.
GraphInv == DossiersAre /\ (graph # None => graph = Graph(Occurrences))

LEMMA GraphStarts == GraphInit => GraphInv
BY DEF GraphInit, GraphInv, DossiersAre

LEMMA GraphSteps == GraphInv /\ [GraphNext]_graphVars => GraphInv'
<1> SUFFICES ASSUME GraphInv, [GraphNext]_graphVars PROVE GraphInv'
  OBVIOUS
<1>1. ASSUME NEW q \in Person, NEW hubs \in SUBSET Hub, Load(q, hubs) PROVE GraphInv'
  BY <1>1 DEF Load, GraphInv, DossiersAre
<1>2. CASE BuildGraph
  <2>1. Occurrences' = Occurrences /\ DossiersAre'
    BY <1>2 DEF BuildGraph, Occurrences, Population, GraphInv, DossiersAre
  <2>2. QED
    BY <1>2, <2>1 DEF BuildGraph, GraphInv
<1>3. CASE UNCHANGED graphVars
  BY <1>3 DEF graphVars, GraphInv, DossiersAre, Occurrences, Population
<1>4. QED
  BY <1>1, <1>2, <1>3 DEF GraphNext

LEMMA GraphInvHolds == GraphSpec => []GraphInv
BY GraphStarts, GraphSteps, PTL DEF GraphSpec

LEMMA OccurrencesAre ==
    ASSUME DossiersAre
    PROVE  /\ Occurrences \in SUBSET Occ /\ IsFiniteSet(Occurrences)
           /\ \A o \in Occurrences : o[1] \in Population
<1>1. \A q \in Population : dossiers[q] \subseteq Hub /\ q \in Person
  BY DEF DossiersAre, Population
<1>2. Occurrences \subseteq Person \X Hub /\ \A o \in Occurrences : o[1] \in Population
  BY <1>1 DEF Occurrences
<1>3. IsFiniteSet(Person \X Hub)
  BY GraphAssumption, FS_Product
<1>4. IsFiniteSet(Occurrences)
  BY <1>2, <1>3, FS_Subset
<1>5. QED
  BY <1>2, <1>4, GraphAssumption DEF Occ

LEMMA OccurrenceIs ==
    ASSUME NEW o \in Occ
    PROVE  /\ o = <<o[1], o[2]>> /\ o[1] \in Person /\ o[2] \in HubRecord
           /\ TypeOf(o) \in HubType /\ LabelOf(o) \in Label /\ IdOf(o) \in HubId
           /\ KeyOf(o) \in {Slug[l] : l \in Label} /\ o[2].recency \in Nat
<1>1. o = <<o[1], o[2]>> /\ o[1] \in Person /\ o[2] \in HubRecord
  BY DEF Occ
<1>2. QED
  BY <1>1 DEF HubRecord, TypeOf, LabelOf, IdOf, KeyOf

LEMMA StringsRank ==
    /\ Ranks(StringOrder, DOMAIN Rank)
    /\ HubType \subseteq DOMAIN Rank /\ Label \subseteq DOMAIN Rank
    /\ \A v \in DOMAIN Rank, w \in DOMAIN Rank :
          <<v, w>> \in StringOrder /\ <<w, v>> \in StringOrder => v = w
<1>1. \A v \in DOMAIN Rank : Rank[v] \in Nat
  BY GraphAssumption
<1>2. \A v \in DOMAIN Rank, w \in DOMAIN Rank :
         <<v, w>> \in StringOrder <=> Rank[v] <= Rank[w]
  BY DEF StringOrder
<1>3. \A v \in DOMAIN Rank, w \in DOMAIN Rank : Rank[v] = Rank[w] => v = w
  BY GraphAssumption DEF IsInjective
<1>4. HubType \subseteq DOMAIN Rank /\ Label \subseteq DOMAIN Rank
  BY GraphAssumption
<1>5. QED
  BY <1>1, <1>2, <1>3, <1>4 DEF Ranks

LEMMA IdsRank ==
    /\ Ranks(IdOrder, HubId)
    /\ \A i \in HubId, j \in HubId : <<i, j>> \in IdOrder /\ <<j, i>> \in IdOrder => i = j
<1>1. \A i \in HubId : /\ i = <<i[1], i[2]>> /\ i[1] \in DOMAIN Rank /\ i[2] \in DOMAIN Rank
                       /\ Rank[i[1]] \in Nat
  <2>1. DOMAIN Rank = HubType \cup {WD} \cup Qid \cup Label \cup {Slug[l] : l \in Label}
    BY GraphAssumption
  <2>2. \A v \in DOMAIN Rank : Rank[v] \in Nat
    BY GraphAssumption
  <2>3. QED
    BY <2>1, <2>2 DEF HubId
<1>2. \A i \in HubId, j \in HubId : <<i, j>> \in IdOrder <=>
         Rank[i[1]] < Rank[j[1]] \/ (i[1] = j[1] /\ <<i[2], j[2]>> \in StringOrder)
  BY DEF IdOrder
<1>3. \A v \in DOMAIN Rank, w \in DOMAIN Rank : Rank[v] = Rank[w] => v = w
  BY GraphAssumption DEF IsInjective
<1>4. \A i \in HubId, j \in HubId : <<i, j>> \in IdOrder \/ <<j, i>> \in IdOrder
  <2> SUFFICES ASSUME NEW i \in HubId, NEW j \in HubId
               PROVE  <<i, j>> \in IdOrder \/ <<j, i>> \in IdOrder
    OBVIOUS
  <2>1. Rank[i[1]] < Rank[j[1]] \/ Rank[j[1]] < Rank[i[1]] \/ i[1] = j[1]
    <3>1. Rank[i[1]] < Rank[j[1]] \/ Rank[j[1]] < Rank[i[1]] \/ Rank[i[1]] = Rank[j[1]]
      BY <1>1
    <3>2. QED
      BY <1>1, <1>3, <3>1
  <2>2. <<i[2], j[2]>> \in StringOrder \/ <<j[2], i[2]>> \in StringOrder
    BY <1>1, StringsRank DEF Ranks
  <2>3. QED
    BY <1>2, <2>1, <2>2
<1>5. \A i \in HubId, j \in HubId, k \in HubId :
         <<i, j>> \in IdOrder /\ <<j, k>> \in IdOrder => <<i, k>> \in IdOrder
  <2> SUFFICES ASSUME NEW i \in HubId, NEW j \in HubId, NEW k \in HubId,
                      <<i, j>> \in IdOrder, <<j, k>> \in IdOrder
               PROVE  <<i, k>> \in IdOrder
    OBVIOUS
  <2>1. Rank[i[1]] < Rank[k[1]] \/ (i[1] = j[1] /\ j[1] = k[1])
    <3>1. (Rank[i[1]] < Rank[j[1]] \/ i[1] = j[1]) /\ (Rank[j[1]] < Rank[k[1]] \/ j[1] = k[1])
      BY <1>2
    <3>2. Rank[i[1]] \in Nat /\ Rank[j[1]] \in Nat /\ Rank[k[1]] \in Nat
      BY <1>1
    <3>3. QED
      BY <3>1, <3>2
  <2>2. i[1] = j[1] /\ j[1] = k[1] =>
           <<i[2], j[2]>> \in StringOrder /\ <<j[2], k[2]>> \in StringOrder
    BY <1>1, <1>2
  <2>3. <<i[2], j[2]>> \in StringOrder /\ <<j[2], k[2]>> \in StringOrder
           => <<i[2], k[2]>> \in StringOrder
    BY <1>1, StringsRank DEF Ranks
  <2>4. QED
    BY <1>2, <2>1, <2>2, <2>3
<1>6. \A i \in HubId, j \in HubId : <<i, j>> \in IdOrder /\ <<j, i>> \in IdOrder => i = j
  <2> SUFFICES ASSUME NEW i \in HubId, NEW j \in HubId,
                      <<i, j>> \in IdOrder, <<j, i>> \in IdOrder
               PROVE  i = j
    OBVIOUS
  <2>1. i[1] = j[1] /\ <<i[2], j[2]>> \in StringOrder /\ <<j[2], i[2]>> \in StringOrder
    BY <1>1, <1>2
  <2>2. i[2] = j[2]
    BY <1>1, <2>1, StringsRank
  <2>3. QED
    BY <1>1, <2>1, <2>2
<1>7. QED
  BY <1>4, <1>5, <1>6 DEF Ranks

\* What some occurrences elect is what one of them states.
LEMMA ElectionsAre ==
    ASSUME NEW O \in SUBSET Occ, IsFiniteSet(O), O # {}
    PROVE  /\ HubIdentity(O).type \in {TypeOf(o) : o \in O}
           /\ HubIdentity(O).label \in {LabelOf(o) : o \in O}
           /\ ElectId(O) \in {IdOf(o) : o \in O}
<1> DEFINE types == [o \in O |-> TypeOf(o)]
           labels == [o \in O |-> LabelOf(o)]
           ids == [o \in O |-> IdOf(o)]
<1>2. types \in [O -> DOMAIN Rank] /\ \A o \in O : types[o] = TypeOf(o)
  BY OccurrenceIs, StringsRank
<1>3. labels \in [O -> DOMAIN Rank] /\ \A o \in O : labels[o] = LabelOf(o)
  BY OccurrenceIs, StringsRank
<1>4. ids \in [O -> HubId] /\ \A o \in O : ids[o] = IdOf(o)
  BY OccurrenceIs
<1>5. /\ HubIdentity(O).type = Elect(Votes(types), StringOrder)
      /\ HubIdentity(O).label = Elect(Votes(labels), StringOrder)
      /\ ElectId(O) = Elect(Votes(ids), IdOrder)
  BY DEF HubIdentity, ElectId
<1> HIDE DEF types, labels, ids
<1>6. Elect(Votes(types), StringOrder) \in {types[o] : o \in O}
  BY <1>2, StringsRank, TheStatedIsElected
<1>7. Elect(Votes(labels), StringOrder) \in {labels[o] : o \in O}
  BY <1>3, StringsRank, TheStatedIsElected
<1>8. Elect(Votes(ids), IdOrder) \in {ids[o] : o \in O}
  BY <1>4, IdsRank, TheStatedIsElected
<1>9. QED
  BY <1>2, <1>3, <1>4, <1>5, <1>6, <1>7, <1>8

LEMMA ElectQidIs ==
    ASSUME NEW O, ElectQid(O) # None
    PROVE  ElectQid(O) \in StatedQids(O)
<1> DEFINE best == {id \in StatedQids(O) : \A other \in StatedQids(O) :
                      Cardinality(Backers(O, id)) >= Cardinality(Backers(O, other))}
<1>1. ElectQid(O) = IF \E id \in best : best = {id} THEN CHOOSE id \in best : TRUE ELSE None
  BY DEF ElectQid
<1>2. ElectQid(O) \in best
  <2> HIDE DEF best
  <2>1. QED
    BY <1>1
<1>3. QED
  BY <1>2

LEMMA CanonicalIdIs ==
    ASSUME NEW O \in SUBSET Occ, IsFiniteSet(O), O # {}
    PROVE  CanonicalId(O) \in HubId
<1> DEFINE slugged == {o \in O : IdOf(o)[1] # WD}
<1>1. CASE ElectQid(O) # None
  <2>1. PICK o \in O : ElectQid(O) = IdOf(o)
    BY <1>1, ElectQidIs DEF StatedQids
  <2>2. QED
    BY <1>1, <2>1, OccurrenceIs DEF CanonicalId
<1>2. CASE ElectQid(O) = None /\ slugged # {}
  <2>1. CanonicalId(O) = ElectId(slugged)
    BY <1>2 DEF CanonicalId
  <2>2. slugged \in SUBSET Occ /\ IsFiniteSet(slugged)
    BY FS_Subset
  <2> HIDE DEF slugged
  <2>3. PICK o \in slugged : ElectId(slugged) = IdOf(o)
    BY <1>2, <2>2, ElectionsAre
  <2>4. QED
    BY <2>1, <2>2, <2>3, OccurrenceIs
<1>3. CASE ElectQid(O) = None /\ slugged = {}
  <2>1. CanonicalId(O) = <<HubIdentity(O).type, Slug[HubIdentity(O).label]>>
    BY <1>3 DEF CanonicalId
  <2>2. HubIdentity(O).type \in HubType /\ HubIdentity(O).label \in Label
    BY ElectionsAre, OccurrenceIs
  <2>3. QED
    BY <2>1, <2>2 DEF HubId
<1>4. QED
  BY <1>1, <1>2, <1>3

\* The occurrences that share an entity with o.
Group(O, o) ==
    LET aliases == AcronymAliases(Described(O))
    IN  {p \in O : Entity(aliases, o) \cap Entity(aliases, p) # {}}

LEMMA PlacedAre ==
    ASSUME NEW O \in SUBSET Occ, IsFiniteSet(O)
    PROVE  /\ CanonicalHubIds(O) = {<<o, CanonicalId(Group(O, o))>> : o \in O}
           /\ \A o \in O : o \in Group(O, o) /\ Group(O, o) \subseteq O
           /\ \A o \in O : CanonicalId(Group(O, o)) \in HubId
<1>1. CanonicalHubIds(O) = {<<o, CanonicalId(Group(O, o))>> : o \in O}
  BY DEF CanonicalHubIds, Group
<1>2. \A o \in O : o \in Group(O, o) /\ Group(O, o) \subseteq O
  BY DEF Group, Entity
<1>3. ASSUME NEW o \in O PROVE CanonicalId(Group(O, o)) \in HubId
  BY <1>2, CanonicalIdIs, FS_Subset
<1>4. QED
  BY <1>1, <1>2, <1>3

\* The occurrences of one node of the graph.
Here(O, id) == {o \in O : CanonicalId(Group(O, o)) = id}

Pairs(P, O, f) == P = {<<o, f[o]>> : o \in O}
Projects(P, O, f) ==
    /\ {p[2] : p \in P} = {f[o] : o \in O}
    /\ \A id : At(P, id) = {o \in O : f[o] = id}

LEMMA PairsProject ==
    ASSUME NEW O, NEW f, NEW P, Pairs(P, O, f)
    PROVE  Projects(P, O, f)
<1>1. \A o \in O : <<o, f[o]>> \in P
  BY DEF Pairs
<1>2. \A p \in P : p[1] \in O /\ p[2] = f[p[1]]
  BY DEF Pairs
<1>3. \A o \in O : \E p \in P : p[1] = o /\ p[2] = f[o]
  <2> SUFFICES ASSUME NEW o \in O PROVE \E p \in P : p[1] = o /\ p[2] = f[o]
    OBVIOUS
  <2>1. <<o, f[o]>>[1] = o /\ <<o, f[o]>>[2] = f[o]
    OBVIOUS
  <2>2. QED
    BY <1>1, <2>1
<1>4. {p[2] : p \in P} = {f[o] : o \in O}
  BY <1>2, <1>3
<1>5. ASSUME NEW id PROVE At(P, id) = {o \in O : f[o] = id}
  BY <1>2, <1>3 DEF At
<1>6. QED
  BY <1>4, <1>5 DEF Projects

LEMMA GraphIs ==
    ASSUME NEW O \in SUBSET Occ, IsFiniteSet(O)
    PROVE  /\ DOMAIN Graph(O) = {CanonicalId(Group(O, o)) : o \in O}
           /\ \A id \in DOMAIN Graph(O) :
                 /\ id \in HubId /\ Here(O, id) # {} /\ Here(O, id) \subseteq O
                 /\ Graph(O)[id] = Node(Here(O, id))
<1> DEFINE placed == CanonicalHubIds(O)
           at == [o \in O |-> CanonicalId(Group(O, o))]
<1>1. Pairs(placed, O, at)
  BY PlacedAre DEF Pairs
<1>2. \A o \in O : at[o] = CanonicalId(Group(O, o))
  OBVIOUS
<1> HIDE DEF placed, at
<1>3. /\ {p[2] : p \in placed} = {at[o] : o \in O}
      /\ \A id : At(placed, id) = {o \in O : at[o] = id}
  BY <1>1, PairsProject DEF Projects
<1>9. /\ {p[2] : p \in placed} = {CanonicalId(Group(O, o)) : o \in O}
      /\ \A id : At(placed, id) = Here(O, id)
  BY <1>2, <1>3 DEF Here
<1>4. Graph(O) = [id \in {CanonicalId(Group(O, o)) : o \in O} |-> Node(Here(O, id))]
  BY <1>9 DEF Graph, placed
<1>5. \A o \in O : CanonicalId(Group(O, o)) \in HubId
  BY PlacedAre
<1>6. QED
  BY <1>4, <1>5 DEF Here

LEMMA FreshestIs ==
    ASSUME NEW O \in SUBSET Occ, IsFiniteSet(O), O # {}
    PROVE  Freshest(O) \in Nat
<1> DEFINE S == {o[2].recency : o \in O}
           R == {p \in S \X S : p[1] >= p[2]}
<1>1. S \subseteq Nat /\ S # {}
  BY OccurrenceIs
<1>2. IsFiniteSet(S)
  <2> DEFINE f == [o \in O |-> o[2].recency]
  <2>1. f \in [O -> S] /\ \A v \in S : \E o \in O : f[o] = v
    OBVIOUS
  <2>2. f \in Surjection(O, S)
    BY <2>1 DEF Surjection
  <2> HIDE DEF f, S
  <2>3. QED
    BY <2>2, FS_Surjection
<1> HIDE DEF S
<1>3. Ranks(R, S)
  BY <1>1 DEF Ranks
<1>4. \E v \in S : \A w \in S : <<v, w>> \in R
  <2> HIDE DEF R
  <2>1. QED
    BY <1>1, <1>2, <1>3, OneIsFirst
<1>5. \E v \in S : \A w \in S : v >= w
  BY <1>4
<1>6. Max(S) \in S
  BY <1>5 DEF Max
<1>7. QED
  BY <1>1, <1>6 DEF Freshest, S

LEMMA NodeIs ==
    ASSUME NEW here \in SUBSET Occ, IsFiniteSet(here), here # {}
    PROVE  /\ Node(here).type \in HubType /\ Node(here).carriers \in Nat
           /\ DOMAIN Node(here).recency = {o[1] : o \in here}
           /\ \A q \in DOMAIN Node(here).recency : Node(here).recency[q] \in Nat
           /\ Node(here).label # WITHHELD_HUB_LABEL => Nameable(here)
           /\ Node(here).carriers = Cardinality(DOMAIN Node(here).recency)
<1>1. Node(here).type \in HubType
  BY ElectionsAre, OccurrenceIs DEF Node
<1> DEFINE those == {o[1] : o \in here}
<1>2. Node(here).carriers = Cardinality(those) /\ DOMAIN Node(here).recency = those
  BY DEF Node, CarrierCount
<1>3. those \subseteq Person
  BY OccurrenceIs
<1>4. Cardinality(those) \in Nat
  <2> HIDE DEF those
  <2>1. QED
    BY <1>3, GraphAssumption, FS_Subset, FS_CardinalityType
<1>5. ASSUME NEW q \in those PROVE Node(here).recency[q] \in Nat
  <2>1. /\ {o \in here : o[1] = q} \in SUBSET Occ /\ {o \in here : o[1] = q} # {}
        /\ IsFiniteSet({o \in here : o[1] = q})
    BY FS_Subset
  <2>2. Freshest({o \in here : o[1] = q}) \in Nat
    BY <2>1, FreshestIs
  <2>3. QED
    BY <2>2 DEF Node
<1>6. Node(here).label # WITHHELD_HUB_LABEL => Nameable(here)
  BY DEF Node
<1>7. QED
  BY <1>1, <1>2, <1>4, <1>5, <1>6

\* Once the graph is built: what its nodes are made of.
LEMMA NodesAre ==
    ASSUME GraphInv, graph # None
    PROVE  /\ DOMAIN graph \subseteq HubId
           /\ \A id \in DOMAIN graph :
                 /\ Here(Occurrences, id) \subseteq Occurrences /\ Here(Occurrences, id) # {}
                 /\ Here(Occurrences, id) \in SUBSET Occ /\ IsFiniteSet(Here(Occurrences, id))
                 /\ graph[id] = Node(Here(Occurrences, id))
<1>1. /\ Occurrences \in SUBSET Occ /\ IsFiniteSet(Occurrences)
      /\ graph = Graph(Occurrences)
  BY OccurrencesAre DEF GraphInv
<1> DEFINE O == Occurrences
<1> HIDE DEF O
<1>2. O \in SUBSET Occ /\ IsFiniteSet(O) /\ graph = Graph(O)
  BY <1>1 DEF O
<1>3. \A id \in DOMAIN Graph(O) : /\ id \in HubId /\ Here(O, id) # {} /\ Here(O, id) \subseteq O
                                  /\ Graph(O)[id] = Node(Here(O, id))
  BY <1>2, GraphIs
<1>4. QED
  BY <1>2, <1>3, FS_Subset DEF O

LEMMA HubIdfIs ==
    ASSUME GraphInv, graph # None, NEW id \in DOMAIN graph
    PROVE  /\ HubIdf(id) \in Nat
           /\ HubIdf(id) # 0 => graph[id].carriers + 1 < Cardinality(Population) + Bystanders
<1> DEFINE n == Cardinality(Population) + Bystanders
           c == graph[id].carriers
<1>1. n \in Nat
  <2>1. Population \subseteq Person
    BY DEF Population
  <2>2. Cardinality(Population) \in Nat
    BY <2>1, GraphAssumption, FS_Subset, FS_CardinalityType
  <2>3. QED
    BY <2>2, GraphAssumption
<1>2. c \in Nat
  BY NodesAre, NodeIs
<1>3. HubIdf(id) = IF 1 + c >= n THEN 0 ELSE n - (1 + c)
  BY DEF HubIdf
<1> HIDE DEF n, c
<1>4. HubIdf(id) \in Nat /\ (HubIdf(id) # 0 => c + 1 < n)
  BY <1>1, <1>2, <1>3
<1>5. QED
  BY <1>4 DEF n, c

LEMMA ContributionIs ==
    ASSUME GraphInv, graph # None, NEW a, NEW b, NEW id \in Shared(a, b)
    PROVE  /\ Contribution(a, b, id) \in Nat
           /\ Contribution(a, b, id) > 0 => HubIdf(id) # 0
<1>1. id \in DOMAIN graph /\ a \in DOMAIN graph[id].recency /\ b \in DOMAIN graph[id].recency
  BY DEF Shared
<1> DEFINE idf == HubIdf(id)
           boost == Boost[graph[id].type]
           x == graph[id].recency[a]
           y == graph[id].recency[b]
<1>2. idf \in Nat
  BY <1>1, HubIdfIs
<1>3. boost \in Nat /\ x \in Nat /\ y \in Nat
  BY <1>1, NodesAre, NodeIs, GraphAssumption
<1>4. Contribution(a, b, id) = idf * boost * (IF x < y THEN x ELSE y)
  BY DEF Contribution
<1> HIDE DEF idf, boost, x, y
<1>5. idf * boost \in Nat /\ (idf = 0 => idf * boost = 0)
  BY <1>2, <1>3
<1> DEFINE weight == idf * boost
           least == IF x < y THEN x ELSE y
<1>6. least \in Nat
  BY <1>3
<1> HIDE DEF weight, least
<1>7. weight * least \in Nat /\ (weight = 0 => weight * least = 0)
  BY <1>5, <1>6 DEF weight
<1>8. Contribution(a, b, id) = weight * least
  BY <1>4 DEF weight, least
<1>9. QED
  BY <1>5, <1>7, <1>8 DEF weight, idf

LEMMA CitedAre ==
    ASSUME GraphInv, graph # None, NEW a, NEW b, NEW id \in ToSet(Why(a, b))
    PROVE  /\ id \in Shared(a, b) /\ Contribution(a, b, id) > 0
           /\ graph[id].label # WITHHELD_HUB_LABEL
<1> DEFINE S == {i \in Shared(a, b) : /\ Contribution(a, b, i) > 0
                                      /\ graph[i].label # WITHHELD_HUB_LABEL}
           Before(i, j) == CitedBefore(a, b, i, j)
           R == {p \in S \X S : Before(p[1], p[2])}
           s == Citable(a, b)
<1>1. S \subseteq HubId /\ \A i \in S : Contribution(a, b, i) \in Nat
  BY NodesAre, ContributionIs DEF Shared
<1>2. IsFiniteSet(S)
  <2>1. /\ Occurrences \in SUBSET Occ /\ IsFiniteSet(Occurrences)
        /\ graph = Graph(Occurrences)
    BY OccurrencesAre DEF GraphInv
  <2> DEFINE O == Occurrences
             f == [o \in O |-> CanonicalId(Group(O, o))]
  <2>2. O \in SUBSET Occ /\ IsFiniteSet(O) /\ graph = Graph(O)
    BY <2>1
  <2> HIDE DEF O
  <2>3. DOMAIN graph = {CanonicalId(Group(O, o)) : o \in O} /\ IsFiniteSet(O)
    BY <2>2, GraphIs
  <2>4. f \in [O -> DOMAIN graph] /\ \A v \in DOMAIN graph : \E o \in O : f[o] = v
    BY <2>3
  <2>5. f \in Surjection(O, DOMAIN graph)
    BY <2>4 DEF Surjection
  <2> HIDE DEF f
  <2>6. IsFiniteSet(DOMAIN graph)
    BY <2>3, <2>5, FS_Surjection
  <2>7. S \subseteq DOMAIN graph
    BY DEF Shared
  <2> HIDE DEF S
  <2>8. QED
    BY <2>6, <2>7, FS_Subset
<1>3. \A i \in S, j \in S : <<i, j>> \in R <=> CitedBefore(a, b, i, j)
  OBVIOUS
<1>4. s = [n \in 1 .. Cardinality(S) |->
             CHOOSE z \in S : Cardinality({y \in S : Before(y, z)}) = n - 1]
  BY DEF Citable, Sorted
<1>5. \A i \in S : i \in Shared(a, b) /\ Contribution(a, b, i) > 0
                   /\ graph[i].label # WITHHELD_HUB_LABEL
  OBVIOUS
<1> HIDE DEF S
<1>6. Orders(R, S)
  <2>1. \A i \in S, j \in S : <<i, j>> \in IdOrder \/ <<j, i>> \in IdOrder
    BY <1>1, IdsRank DEF Ranks
  <2>2. \A i \in S, j \in S : <<i, j>> \in IdOrder /\ <<j, i>> \in IdOrder => i = j
    BY <1>1, IdsRank
  <2>3. \A i \in S, j \in S, k \in S :
           <<i, j>> \in IdOrder /\ <<j, k>> \in IdOrder => <<i, k>> \in IdOrder
    BY <1>1, IdsRank DEF Ranks
  <2> DEFINE C(i) == Contribution(a, b, i)
  <2>4. \A i \in S, j \in S : <<i, j>> \in R <=>
           C(i) > C(j) \/ (C(i) = C(j) /\ i # j /\ <<i, j>> \in IdOrder)
    BY <1>3 DEF CitedBefore
  <2>5. \A i \in S : C(i) \in Nat
    BY <1>1
  <2> HIDE DEF R, C
  <2>6. \A i \in S, j \in S : C(i) > C(j) => ~(C(j) > C(i)) /\ C(i) # C(j)
    BY <2>5
  <2>7. \A i \in S, j \in S : C(i) > C(j) \/ C(j) > C(i) \/ C(i) = C(j)
    BY <2>5
  <2>8. \A i \in S, j \in S, k \in S : C(i) > C(j) /\ C(j) > C(k) => C(i) > C(k)
    BY <2>5
  <2>9. \A i \in S, j \in S : <<i, j>> \in R => <<j, i>> \notin R
    BY <2>2, <2>4, <2>6
  <2>10. \A i \in S, j \in S, k \in S : <<i, j>> \in R /\ <<j, k>> \in R => <<i, k>> \in R
    <3> SUFFICES ASSUME NEW i \in S, NEW j \in S, NEW k \in S, <<i, j>> \in R, <<j, k>> \in R
                 PROVE  <<i, k>> \in R
      OBVIOUS
    <3>1. CASE C(i) > C(j) \/ C(j) > C(k)
      BY <2>4, <2>8, <3>1
    <3>2. CASE ~(C(i) > C(j)) /\ ~(C(j) > C(k))
      BY <2>2, <2>3, <2>4, <3>2
    <3>3. QED
      BY <3>1, <3>2
  <2>11. \A i \in S, j \in S : i # j => <<i, j>> \in R \/ <<j, i>> \in R
    BY <2>1, <2>4, <2>7
  <2>12. QED
    BY <2>9, <2>10, <2>11 DEF Orders
<1>7. \A x \in S : {y \in S : <<y, x>> \in R} = {y \in S : Before(y, x)}
  OBVIOUS
<1> HIDE DEF s, R, Before
<1>8. ASSUME NEW n \in 1 .. Cardinality(S)
      PROVE  s[n] \in S /\ Place(s[n], R, S) = n - 1
  <2>1. PICK x \in S : Place(x, R, S) = n - 1
    BY <1>2, <1>6, PlacesAreTaken
  <2>2. Cardinality({y \in S : Before(y, x)}) = n - 1
    BY <1>7, <2>1 DEF Place
  <2>3. s[n] = CHOOSE z \in S : Cardinality({y \in S : Before(y, z)}) = n - 1
    BY <1>4
  <2>4. s[n] \in S /\ Cardinality({y \in S : Before(y, s[n])}) = n - 1
    BY <2>2, <2>3
  <2>5. QED
    BY <1>7, <2>4 DEF Place
<1>9. s \in [1 .. Cardinality(S) -> S]
  BY <1>4, <1>8
<1>10. s \in Seq(S)
  BY <1>2, <1>6, <1>8, <1>9, InOrder
<1>11. ToSet(Why(a, b)) \subseteq S
  <2> DEFINE last == IF Len(s) < 2 THEN Len(s) ELSE 2
  <2>1. last \in Nat /\ last <= Len(s)
    BY <1>10
  <2>2. Why(a, b) = SubSeq(s, 1, last)
    BY DEF Why, s
  <2> HIDE DEF last
  <2>3. \A k \in DOMAIN SubSeq(s, 1, last) : SubSeq(s, 1, last)[k] \in S
    BY <1>10, <2>1
  <2>4. QED
    BY <2>2, <2>3 DEF ToSet
<1>12. QED
  BY <1>5, <1>11

LEMMA SpokenIsCleanHere == GraphInv => SpokenIsClean
<1> SUFFICES ASSUME GraphInv, graph # None, NEW a \in Population, NEW b \in Population, a # b,
                    NEW id \in ToSet(Why(a, b))
             PROVE  /\ \E at \in CanonicalHubIds(Occurrences) :
                          at[2] = id /\ at[1][2].evidence # "withheld"
                    /\ graph[id].carriers + 1 < Cardinality(Population) + Bystanders
  BY DEF SpokenIsClean
<1>1. /\ id \in Shared(a, b) /\ Contribution(a, b, id) > 0
      /\ graph[id].label # WITHHELD_HUB_LABEL
  BY CitedAre
<1>2. id \in DOMAIN graph
  BY <1>1 DEF Shared
<1>3. graph[id].carriers + 1 < Cardinality(Population) + Bystanders
  BY <1>1, <1>2, ContributionIs, HubIdfIs
<1>4. Nameable(Here(Occurrences, id))
  BY <1>1, <1>2, NodesAre, NodeIs
<1>5. PICK o \in Here(Occurrences, id) : o[2].evidence # "withheld"
  BY <1>4 DEF Nameable
<1>6. o \in Occurrences /\ CanonicalId(Group(Occurrences, o)) = id
  BY DEF Here
<1>7. <<o, id>> \in CanonicalHubIds(Occurrences)
  BY <1>6, OccurrencesAre, PlacedAre DEF GraphInv
<1>8. QED
  BY <1>3, <1>5, <1>7

\* Whatever the dossiers: a sentence names no hub that only withheld facts stand behind,
\* nor one that nearly everybody carries.
THEOREM SpokenHolds == GraphSpec => []SpokenIsClean
BY GraphInvHolds, SpokenIsCleanHere, PTL

------------------------------------------------------------------------------
(* Renaming the QIDs                                                        *)

\* M renames the QIDs that occurrences state, and nothing else of them.
Mirrors(M, swap) ==
    /\ swap \in [HubId -> HubId]
    /\ \A i \in HubId, j \in HubId : swap[i] = swap[j] => i = j
    /\ \A i \in HubId : /\ swap[i][1] = WD <=> i[1] = WD
                        /\ i[1] # WD => swap[i] = i
    /\ M \in [Occ -> Occ]
    /\ \A o \in Occ, p \in Occ : M[o] = M[p] => o = p
    /\ \A o \in Occ : /\ M[o][1] = o[1] /\ IdOf(M[o]) = swap[IdOf(o)]
                      /\ TypeOf(M[o]) = TypeOf(o) /\ LabelOf(M[o]) = LabelOf(o)
                      /\ M[o][2].recency = o[2].recency /\ M[o][2].evidence = o[2].evidence

Image(M, P) == {M[o] : o \in P}

LEMMA ImageIs ==
    ASSUME NEW M, NEW swap, Mirrors(M, swap), NEW P \in SUBSET Occ
    PROVE  /\ Image(M, P) \in SUBSET Occ
           /\ \A o \in Occ : M[o] \in Image(M, P) <=> o \in P
           /\ \A x \in Image(M, P) : \E o \in P : x = M[o]
<1>1. /\ M \in [Occ -> Occ]
      /\ \A o \in Occ, p \in Occ : M[o] = M[p] => o = p
  BY DEF Mirrors
<1>2. \A x \in Image(M, P) : \E o \in P : x = M[o]
  BY DEF Image
<1>3. Image(M, P) \in SUBSET Occ
  BY <1>1 DEF Image
<1>4. \A o \in Occ : M[o] \in Image(M, P) <=> o \in P
  BY <1>1 DEF Image
<1>5. QED
  BY <1>2, <1>3, <1>4

LEMMA ImageOf ==
    ASSUME NEW M, NEW P, NEW T \in SUBSET P, NEW S \in SUBSET Image(M, P),
           \A o \in P : M[o] \in S <=> o \in T
    PROVE  S = Image(M, T)
<1>1. \A x \in Image(M, P) : \E o \in P : x = M[o]
  BY DEF Image
<1>2. QED
  BY <1>1 DEF Image

LEMMA ImageCounts ==
    ASSUME NEW M, NEW swap, Mirrors(M, swap), NEW P \in SUBSET Occ, IsFiniteSet(P)
    PROVE  IsFiniteSet(Image(M, P)) /\ Cardinality(Image(M, P)) = Cardinality(P)
<1> DEFINE f == [o \in P |-> M[o]]
           I == Image(M, P)
<1>1. f \in [P -> I] /\ \A x \in I : \E o \in P : f[o] = x
  BY DEF Image
<1>2. \A o \in P, p \in P : f[o] = f[p] => o = p
  BY DEF Mirrors
<1> HIDE DEF f, I
<1>3. f \in Surjection(P, I) /\ f \in Injection(P, I)
  BY <1>1, <1>2 DEF Injection, Surjection, IsInjective
<1>4. IsFiniteSet(I) /\ Cardinality(I) = Cardinality(P)
  BY <1>3, FS_Surjection
<1>5. QED
  BY <1>4 DEF I

LEMMA VotesMirrored ==
    ASSUME NEW M, NEW swap, Mirrors(M, swap), NEW P \in SUBSET Occ, IsFiniteSet(P),
           NEW said, DOMAIN said = P, NEW told, DOMAIN told = Image(M, P),
           \A o \in P : told[M[o]] = said[o]
    PROVE  Votes(told) = Votes(said)
<1>1. Range(told) = Range(said)
  BY ImageIs DEF Range
<1>2. ASSUME NEW v
      PROVE  Cardinality({x \in DOMAIN told : told[x] = v}) = Cardinality({o \in DOMAIN said : said[o] = v})
  <2> DEFINE T == {o \in P : said[o] = v}
             S == {x \in Image(M, P) : told[x] = v}
  <2>1. \A o \in P : M[o] \in S <=> o \in T
    BY ImageIs
  <2>2. T \in SUBSET P /\ S \in SUBSET Image(M, P)
    OBVIOUS
  <2> HIDE DEF T, S
  <2>3. S = Image(M, T) /\ IsFiniteSet(T) /\ T \in SUBSET Occ
    <3>1. S = Image(M, T)
      BY <2>1, <2>2, ImageOf
    <3>2. IsFiniteSet(T) /\ T \in SUBSET Occ
      BY <2>2, FS_Subset
    <3>3. QED
      BY <3>1, <3>2
  <2>4. Cardinality(S) = Cardinality(T)
    BY <2>3, ImageCounts
  <2>5. QED
    BY <2>4 DEF S, T
<1>3. QED
  BY <1>1, <1>2 DEF Votes

LEMMA ElectionsMirrored ==
    ASSUME NEW M, NEW swap, Mirrors(M, swap), NEW P \in SUBSET Occ, IsFiniteSet(P)
    PROVE  /\ HubIdentity(Image(M, P)) = HubIdentity(P)
           /\ (\A o \in P : IdOf(o)[1] # WD) => ElectId(Image(M, P)) = ElectId(P)
<1> DEFINE I == Image(M, P)
<1>1. \A o \in P : /\ M[o] \in I
                   /\ TypeOf(M[o]) = TypeOf(o) /\ LabelOf(M[o]) = LabelOf(o)
                   /\ IdOf(M[o]) = swap[IdOf(o)] /\ IdOf(o) \in HubId
                   /\ (IdOf(o)[1] # WD => swap[IdOf(o)] = IdOf(o))
  BY OccurrenceIs DEF Mirrors, Image
<1> DEFINE types == [o \in P |-> TypeOf(o)]
           types2 == [o \in I |-> TypeOf(o)]
           labels == [o \in P |-> LabelOf(o)]
           labels2 == [o \in I |-> LabelOf(o)]
           ids == [o \in P |-> IdOf(o)]
           ids2 == [o \in I |-> IdOf(o)]
<1>2. /\ DOMAIN types = P /\ DOMAIN types2 = Image(M, P)
      /\ \A o \in P : types2[M[o]] = types[o]
  BY <1>1
<1>3. /\ DOMAIN labels = P /\ DOMAIN labels2 = Image(M, P)
      /\ \A o \in P : labels2[M[o]] = labels[o]
  BY <1>1
<1>4. /\ DOMAIN ids = P /\ DOMAIN ids2 = Image(M, P)
      /\ (\A o \in P : IdOf(o)[1] # WD) => \A o \in P : ids2[M[o]] = ids[o]
  BY <1>1
<1>5. /\ HubIdentity(P) = [type |-> Elect(Votes(types), StringOrder),
                           label |-> Elect(Votes(labels), StringOrder)]
      /\ HubIdentity(Image(M, P)) = [type |-> Elect(Votes(types2), StringOrder),
                                     label |-> Elect(Votes(labels2), StringOrder)]
      /\ ElectId(P) = Elect(Votes(ids), IdOrder)
      /\ ElectId(Image(M, P)) = Elect(Votes(ids2), IdOrder)
  BY DEF HubIdentity, ElectId
<1> HIDE DEF types, types2, labels, labels2, ids, ids2
<1>6. Votes(types2) = Votes(types)
  BY <1>2, VotesMirrored
<1>7. Votes(labels2) = Votes(labels)
  BY <1>3, VotesMirrored
<1>8. (\A o \in P : IdOf(o)[1] # WD) => Votes(ids2) = Votes(ids)
  BY <1>4, VotesMirrored
<1>9. QED
  BY <1>5, <1>6, <1>7, <1>8

LEMMA StatedMirrored ==
    ASSUME NEW M, NEW swap, Mirrors(M, swap), NEW P \in SUBSET Occ, IsFiniteSet(P)
    PROVE  /\ \A i \in StatedQids(P) : i \in HubId /\ swap[i] \in StatedQids(Image(M, P))
           /\ \A j \in StatedQids(Image(M, P)) : \E i \in StatedQids(P) : j = swap[i]
           /\ \A i \in HubId : Backers(Image(M, P), swap[i]) = Backers(P, i)
<1>1. \A o \in P : /\ M[o] \in Image(M, P) /\ IdOf(M[o]) = swap[IdOf(o)] /\ M[o][1] = o[1]
                   /\ IdOf(o) \in HubId
                   /\ (IdOf(M[o])[1] = WD <=> IdOf(o)[1] = WD)
                   /\ \A i \in HubId : IdOf(M[o]) = swap[i] <=> IdOf(o) = i
  BY OccurrenceIs DEF Mirrors, Image
<1>2. \A x \in Image(M, P) : \E o \in P : x = M[o]
  BY DEF Image
<1>3. \A i \in StatedQids(P) : i \in HubId /\ swap[i] \in StatedQids(Image(M, P))
  BY <1>1 DEF StatedQids
<1>4. \A j \in StatedQids(Image(M, P)) : \E i \in StatedQids(P) : j = swap[i]
  BY <1>1, <1>2 DEF StatedQids
<1>5. \A i \in HubId : Backers(Image(M, P), swap[i]) = Backers(P, i)
  BY <1>1, <1>2 DEF Backers
<1>6. QED
  BY <1>3, <1>4, <1>5

LEMMA QidMirrored ==
    ASSUME NEW M, NEW swap, Mirrors(M, swap), NEW P \in SUBSET Occ, IsFiniteSet(P)
    PROVE  /\ ElectQid(P) = None => ElectQid(Image(M, P)) = None
           /\ ElectQid(P) # None => ElectQid(Image(M, P)) = swap[ElectQid(P)]
<1> DEFINE Best(Q) == {id \in StatedQids(Q) : \A other \in StatedQids(Q) :
                        Cardinality(Backers(Q, id)) >= Cardinality(Backers(Q, other))}
           best == Best(P)
           best2 == Best(Image(M, P))
<1>1. /\ ElectQid(P) = IF \E id \in best : best = {id} THEN CHOOSE id \in best : TRUE ELSE None
      /\ ElectQid(Image(M, P)) =
            IF \E id \in best2 : best2 = {id} THEN CHOOSE id \in best2 : TRUE ELSE None
  BY DEF ElectQid
<1>2. \A i \in HubId : Cardinality(Backers(Image(M, P), swap[i])) = Cardinality(Backers(P, i))
  BY StatedMirrored
<1>3. /\ \A i \in StatedQids(P) : i \in HubId /\ swap[i] \in StatedQids(Image(M, P))
      /\ \A j \in StatedQids(Image(M, P)) : \E i \in StatedQids(P) : j = swap[i]
  BY StatedMirrored
<1>4. \A i \in StatedQids(P) : swap[i] \in best2 <=> i \in best
  BY <1>2, <1>3
<1>5. /\ \A i \in best : swap[i] \in best2 /\ i \in HubId
      /\ \A j \in best2 : \E i \in best : j = swap[i]
  BY <1>3, <1>4
<1>6. \A i \in HubId, j \in HubId : swap[i] = swap[j] => i = j
  BY DEF Mirrors
<1>7. None \notin HubId
  BY GraphAssumption
<1> HIDE DEF best, best2, Best
<1>8. CASE \E id \in best : best = {id}
  <2>1. PICK id \in best : best = {id}
    BY <1>8
  <2>2. best2 = {swap[id]}
    BY <1>5, <2>1
  <2>3. ElectQid(P) = id /\ ElectQid(Image(M, P)) = swap[id]
    BY <1>1, <2>1, <2>2
  <2>4. QED
    BY <1>5, <1>7, <2>3
<1>9. CASE ~ \E id \in best : best = {id}
  <2>1. ~ \E id \in best2 : best2 = {id}
    <3> SUFFICES ASSUME NEW j \in best2, best2 = {j} PROVE FALSE
      OBVIOUS
    <3>1. PICK i \in best : j = swap[i]
      BY <1>5
    <3>2. best = {i}
      BY <1>5, <1>6, <3>1
    <3>3. QED
      BY <1>9, <3>2
  <2>2. QED
    BY <1>1, <1>9, <2>1
<1>10. QED
  BY <1>8, <1>9

LEMMA CanonicalMirrored ==
    ASSUME NEW M, NEW swap, Mirrors(M, swap), NEW P \in SUBSET Occ, IsFiniteSet(P), P # {}
    PROVE  CanonicalId(Image(M, P)) = swap[CanonicalId(P)]
<1> DEFINE T == {o \in P : IdOf(o)[1] # WD}
           I == Image(M, P)
           S == {o \in I : IdOf(o)[1] # WD}
<1>1. \A o \in P : M[o] \in S <=> o \in T
  BY OccurrenceIs DEF Mirrors, Image
<1>2. /\ T \in SUBSET P /\ S \in SUBSET I /\ \A o \in T : o \in Occ /\ IdOf(o)[1] # WD
      /\ T \in SUBSET Occ /\ IsFiniteSet(T)
  BY FS_Subset
<1>3. /\ CanonicalId(P) = IF ElectQid(P) # None THEN ElectQid(P)
                          ELSE IF T # {} THEN ElectId(T)
                          ELSE <<HubIdentity(P).type, Slug[HubIdentity(P).label]>>
      /\ CanonicalId(I) = IF ElectQid(I) # None THEN ElectQid(I)
                          ELSE IF S # {} THEN ElectId(S)
                          ELSE <<HubIdentity(I).type, Slug[HubIdentity(I).label]>>
  BY DEF CanonicalId
<1> HIDE DEF T, S
<1>4. S = Image(M, T)
  BY <1>1, <1>2, ImageOf
<1>5. \A i \in HubId : i[1] # WD => swap[i] = i
  BY DEF Mirrors
<1>6. CASE ElectQid(P) # None
  <2>1. ElectQid(I) = swap[ElectQid(P)]
    BY <1>6, QidMirrored
  <2>2. swap[ElectQid(P)] # None
    <3>1. ElectQid(P) \in HubId
      BY <1>6, ElectQidIs, StatedMirrored
    <3>2. QED
      BY <3>1, GraphAssumption DEF Mirrors
  <2>3. QED
    BY <1>3, <1>6, <2>1, <2>2
<1>7. CASE ElectQid(P) = None /\ T # {}
  <2>1. S # {}
    BY <1>4, <1>7 DEF Image
  <2>2. ElectId(S) = ElectId(T)
    BY <1>2, <1>4, ElectionsMirrored
  <2>3. PICK o \in T : ElectId(T) = IdOf(o)
    BY <1>2, <1>7, ElectionsAre
  <2>4. swap[ElectId(T)] = ElectId(T)
    BY <1>2, <1>5, <2>3, OccurrenceIs
  <2>5. ElectQid(I) = None
    BY <1>7, QidMirrored
  <2>6. QED
    BY <1>3, <1>7, <2>1, <2>2, <2>4, <2>5
<1>8. CASE ElectQid(P) = None /\ T = {}
  <2>1. S = {}
    BY <1>4, <1>8 DEF Image
  <2>2. HubIdentity(I) = HubIdentity(P)
    BY ElectionsMirrored
  <2>3. CanonicalId(P) \in HubId /\ CanonicalId(P)[1] # WD
    <3>1. HubIdentity(P).type \in HubType
      BY ElectionsAre, OccurrenceIs
    <3>2. CanonicalId(P)[1] = HubIdentity(P).type
      BY <1>3, <1>8
    <3>3. QED
      BY <3>1, <3>2, CanonicalIdIs, GraphAssumption
  <2>4. ElectQid(I) = None
    BY <1>8, QidMirrored
  <2>5. CanonicalId(I) = CanonicalId(P)
    BY <1>3, <1>8, <2>1, <2>2, <2>4
  <2>6. QED
    BY <1>5, <2>3, <2>5
<1>9. QED
  BY <1>6, <1>7, <1>8

LEMMA DescribedMirrored ==
    ASSUME NEW M, NEW swap, Mirrors(M, swap), NEW P \in SUBSET Occ, IsFiniteSet(P)
    PROVE  Described(Image(M, P)) = Described(P)
<1> DEFINE I == Image(M, P)
           Named(Q, k) == {o \in Q : KeyOf(o) = k}
           keys == {KeyOf(o) : o \in P}
<1>1. \A o \in P : KeyOf(M[o]) = KeyOf(o) /\ M[o] \in I
  BY DEF Mirrors, KeyOf, Image
<1>2. {KeyOf(o) : o \in I} = keys
  BY <1>1 DEF Image
<1>3. ASSUME NEW k PROVE HubIdentity(Named(I, k)) = HubIdentity(Named(P, k))
  <2> DEFINE T == Named(P, k)
             S == Named(I, k)
  <2>1. \A o \in P : M[o] \in S <=> o \in T
    BY <1>1
  <2>2. T \in SUBSET P /\ S \in SUBSET Image(M, P)
    OBVIOUS
  <2> HIDE DEF S, T
  <2>3. S = Image(M, T)
    BY <2>1, <2>2, ImageOf
  <2>4. IsFiniteSet(T) /\ T \in SUBSET Occ
    BY <2>2, FS_Subset
  <2>5. HubIdentity(S) = HubIdentity(T)
    BY <2>3, <2>4, ElectionsMirrored
  <2>6. QED
    BY <2>5 DEF S, T
<1>4. /\ Described(P) = {<<k, HubIdentity(Named(P, k))>> : k \in keys}
      /\ Described(I) = {<<k, HubIdentity(Named(I, k))>> : k \in keys}
  BY <1>2 DEF Described
<1> DEFINE f == [k \in keys |-> HubIdentity(Named(P, k))]
           f2 == [k \in keys |-> HubIdentity(Named(I, k))]
<1>5. f = f2
  BY <1>3
<1>6. \A k \in keys : f[k] = HubIdentity(Named(P, k)) /\ f2[k] = HubIdentity(Named(I, k))
  OBVIOUS
<1> HIDE DEF f, f2, keys, Named, I
<1>7. Described(P) = {<<k, f[k]>> : k \in keys}
  BY <1>4, <1>6
<1>8. Described(I) = {<<k, f2[k]>> : k \in keys}
  BY <1>4, <1>6
<1>9. QED
  BY <1>5, <1>7, <1>8 DEF I

LEMMA GroupMirrored ==
    ASSUME NEW M, NEW swap, Mirrors(M, swap), NEW P \in SUBSET Occ, IsFiniteSet(P), NEW o \in P
    PROVE  Group(Image(M, P), M[o]) = Image(M, Group(P, o))
<1> DEFINE aliases == AcronymAliases(Described(P))
           I == Image(M, P)
<1>1. AcronymAliases(Described(I)) = aliases
  BY DescribedMirrored
<1>2. \A p \in P : Entity(aliases, M[p]) = Entity(aliases, p) /\ M[p] \in I
  BY DEF Mirrors, KeyOf, Image, Entity
<1>3. /\ Group(P, o) = {p \in P : Entity(aliases, o) \cap Entity(aliases, p) # {}}
      /\ Group(I, M[o]) = {x \in I : Entity(aliases, M[o]) \cap Entity(aliases, x) # {}}
  BY <1>1 DEF Group
<1> HIDE DEF aliases
<1> DEFINE T == Group(P, o)
           S == Group(I, M[o])
<1>4. /\ T \in SUBSET P /\ S \in SUBSET Image(M, P)
      /\ \A p \in P : M[p] \in S <=> p \in T
  BY <1>2, <1>3
<1> HIDE DEF S, T
<1>5. S = Image(M, T)
  BY <1>4, ImageOf
<1>6. QED
  BY <1>5 DEF S, T

LEMMA HereMirrored ==
    ASSUME NEW M, NEW swap, Mirrors(M, swap), NEW P \in SUBSET Occ, IsFiniteSet(P)
    PROVE  /\ \A o \in P : CanonicalId(Group(Image(M, P), M[o])) = swap[CanonicalId(Group(P, o))]
           /\ \A id \in HubId : Here(Image(M, P), swap[id]) = Image(M, Here(P, id))
<1>1. ASSUME NEW o \in P
      PROVE  CanonicalId(Group(Image(M, P), M[o])) = swap[CanonicalId(Group(P, o))]
  <2>1. Group(P, o) \in SUBSET Occ /\ IsFiniteSet(Group(P, o)) /\ Group(P, o) # {}
    BY PlacedAre, FS_Subset
  <2>2. QED
    BY <2>1, GroupMirrored, CanonicalMirrored
<1>2. ASSUME NEW id \in HubId
      PROVE  Here(Image(M, P), swap[id]) = Image(M, Here(P, id))
  <2> DEFINE T == Here(P, id)
             S == Here(Image(M, P), swap[id])
  <2>1. \A o \in P : CanonicalId(Group(P, o)) \in HubId /\ M[o] \in Image(M, P)
    BY PlacedAre DEF Image
  <2>2. \A i \in HubId, j \in HubId : swap[i] = swap[j] => i = j
    BY DEF Mirrors
  <2>3. /\ T \in SUBSET P /\ S \in SUBSET Image(M, P)
        /\ \A o \in P : M[o] \in S <=> o \in T
    BY <1>1, <2>1, <2>2 DEF Here
  <2> HIDE DEF S, T
  <2>4. S = Image(M, T)
    BY <2>3, ImageOf
  <2>5. QED
    BY <2>4 DEF S, T
<1>3. QED
  BY <1>1, <1>2

LEMMA NodeMirrored ==
    ASSUME NEW M, NEW swap, Mirrors(M, swap), NEW P \in SUBSET Occ, IsFiniteSet(P)
    PROVE  Node(Image(M, P)) = Node(P)
<1> DEFINE I == Image(M, P)
           those == {o[1] : o \in P}
<1>1. /\ \A o \in P : /\ M[o] \in I /\ M[o][1] = o[1] /\ M[o][2].evidence = o[2].evidence
                      /\ M[o][2].recency = o[2].recency
      /\ \A x \in I : \E o \in P : x = M[o]
  BY DEF Mirrors, Image
<1>2. {o[1] : o \in I} = those
  BY <1>1
<1>3. Nameable(I) = Nameable(P)
  <2>1. Nameable(I) <=> Nameable(P)
    BY <1>1 DEF Nameable
  <2>2. Nameable(I) \in BOOLEAN /\ Nameable(P) \in BOOLEAN
    BY DEF Nameable
  <2>3. QED
    BY <2>1, <2>2
<1>4. HubIdentity(I) = HubIdentity(P)
  BY ElectionsMirrored
<1>5. \A q : Freshest({o \in I : o[1] = q}) = Freshest({o \in P : o[1] = q})
  <2> SUFFICES ASSUME NEW q
               PROVE  Freshest({o \in I : o[1] = q}) = Freshest({o \in P : o[1] = q})
    OBVIOUS
  <2>1. {o[2].recency : o \in {x \in I : x[1] = q}} = {o[2].recency : o \in {x \in P : x[1] = q}}
    BY <1>1
  <2>2. QED
    BY <2>1 DEF Freshest
<1>6. CarrierCount(I) = CarrierCount(P)
  BY <1>2 DEF CarrierCount
<1>7. [q \in {o[1] : o \in I} |-> Freshest({o \in I : o[1] = q})]
        = [q \in {o[1] : o \in P} |-> Freshest({o \in P : o[1] = q})]
  BY <1>2, <1>5
<1>8. QED
  BY <1>3, <1>4, <1>6, <1>7 DEF Node

Renamed(there, here, swap) ==
    /\ DOMAIN there = {swap[id] : id \in DOMAIN here}
    /\ \A id \in DOMAIN here : there[swap[id]] = here[id]

LEMMA GraphMirrored ==
    ASSUME NEW M, NEW swap, Mirrors(M, swap), NEW P \in SUBSET Occ, IsFiniteSet(P)
    PROVE  Renamed(Graph(Image(M, P)), Graph(P), swap)
<1> DEFINE I == Image(M, P)
<1>1. I \in SUBSET Occ /\ IsFiniteSet(I)
  BY ImageIs, ImageCounts
<1>2. /\ DOMAIN Graph(I) = {CanonicalId(Group(I, x)) : x \in I}
      /\ \A id \in DOMAIN Graph(I) : Graph(I)[id] = Node(Here(I, id))
  BY <1>1, GraphIs
<1>3. /\ DOMAIN Graph(P) = {CanonicalId(Group(P, o)) : o \in P}
      /\ \A id \in DOMAIN Graph(P) : /\ id \in HubId /\ Here(P, id) \subseteq P
                                     /\ Graph(P)[id] = Node(Here(P, id))
  BY GraphIs
<1>4. \A o \in P : M[o] \in I /\ CanonicalId(Group(I, M[o])) = swap[CanonicalId(Group(P, o))]
  BY HereMirrored DEF Image
<1>5. \A x \in I : \E o \in P : x = M[o]
  BY DEF Image
<1> DEFINE at == [o \in P |-> CanonicalId(Group(P, o))]
           at2 == [x \in I |-> CanonicalId(Group(I, x))]
<1>6. /\ DOMAIN Graph(I) = {at2[x] : x \in I} /\ DOMAIN Graph(P) = {at[o] : o \in P}
      /\ \A o \in P : M[o] \in I /\ at2[M[o]] = swap[at[o]]
  BY <1>2, <1>3, <1>4
<1> HIDE DEF at, at2, I
<1>7. DOMAIN Graph(I) = {swap[id] : id \in DOMAIN Graph(P)}
  <2>1. \A o \in P : at[o] \in DOMAIN Graph(P)
    BY <1>6
  <2>2. \A id \in DOMAIN Graph(P) : \E o \in P : id = at[o]
    BY <1>6
  <2>3. \A id \in DOMAIN Graph(P) : swap[id] \in DOMAIN Graph(I)
    BY <1>6, <2>2
  <2>4. \A j \in DOMAIN Graph(I) : \E id \in DOMAIN Graph(P) : j = swap[id]
    BY <1>5, <1>6, <2>1
  <2>5. QED
    BY <2>3, <2>4
<1>8. ASSUME NEW id \in DOMAIN Graph(P)
      PROVE  Graph(I)[swap[id]] = Graph(P)[id]
  <2>1. Graph(I)[swap[id]] = Node(Here(I, swap[id]))
    BY <1>2, <1>7
  <2>2. Here(I, swap[id]) = Image(M, Here(P, id))
    BY <1>3, HereMirrored DEF I
  <2>3. Here(P, id) \in SUBSET Occ /\ IsFiniteSet(Here(P, id))
    BY <1>3, FS_Subset
  <2>4. Node(Image(M, Here(P, id))) = Node(Here(P, id))
    BY <2>3, NodeMirrored
  <2>5. QED
    BY <1>3, <2>1, <2>2, <2>4
<1>9. QED
  BY <1>7, <1>8 DEF I, Renamed

LEMMA QidNamesAreOpaqueHere == GraphInv => QidNamesAreOpaque
<1> SUFFICES ASSUME GraphInv, graph # None, NEW q \in Qid, NEW r \in Qid
             PROVE  LET Swap(id) == IF id = <<WD, q>> THEN <<WD, r>>
                                    ELSE IF id = <<WD, r>> THEN <<WD, q>> ELSE id
                        swapped == {<<o[1], [o[2] EXCEPT !.id = Swap(@)]>> : o \in Occurrences}
                        there == Graph(swapped)
                    IN  /\ DOMAIN there = {Swap(id) : id \in DOMAIN graph}
                        /\ \A id \in DOMAIN graph : there[Swap(id)] = graph[id]
  BY DEF QidNamesAreOpaque
<1> DEFINE Swap(id) == IF id = <<WD, q>> THEN <<WD, r>>
                       ELSE IF id = <<WD, r>> THEN <<WD, q>> ELSE id
           swap == [id \in HubId |-> Swap(id)]
           M == [o \in Occ |-> <<o[1], [o[2] EXCEPT !.id = Swap(@)]>>]
           O == Occurrences
           swapped == {<<o[1], [o[2] EXCEPT !.id = Swap(@)]>> : o \in O}
<1>1. O \in SUBSET Occ /\ IsFiniteSet(O) /\ graph = Graph(O)
  BY OccurrencesAre DEF GraphInv
<1>2. \A id \in HubId : /\ Swap(id) \in HubId /\ Swap(Swap(id)) = id
                        /\ Swap(id)[1] = WD <=> id[1] = WD
                        /\ id[1] # WD => Swap(id) = id
  BY DEF HubId
<1> HIDE DEF O
<1>3. \A o \in Occ : M[o] = <<o[1], [o[2] EXCEPT !.id = Swap(@)]>>
  OBVIOUS
<1>4. swapped = Image(M, O)
  BY <1>1, <1>3 DEF Image
<1> HIDE DEF Swap
<1>5. Mirrors(M, swap)
  <2>1. /\ swap \in [HubId -> HubId]
        /\ \A i \in HubId, j \in HubId : swap[i] = swap[j] => i = j
        /\ \A i \in HubId : /\ swap[i] = Swap(i)
                            /\ swap[i][1] = WD <=> i[1] = WD
                            /\ i[1] # WD => swap[i] = i
    BY <1>2
  <2>2. \A o \in Occ : /\ M[o] \in Occ /\ M[o][1] = o[1] /\ IdOf(M[o]) = Swap(IdOf(o))
                       /\ IdOf(o) \in HubId
                       /\ TypeOf(M[o]) = TypeOf(o) /\ LabelOf(M[o]) = LabelOf(o)
                       /\ M[o][2].recency = o[2].recency /\ M[o][2].evidence = o[2].evidence
    <3> SUFFICES ASSUME NEW o \in Occ
                 PROVE  /\ M[o] \in Occ /\ M[o][1] = o[1] /\ IdOf(M[o]) = Swap(IdOf(o))
                        /\ IdOf(o) \in HubId
                        /\ TypeOf(M[o]) = TypeOf(o) /\ LabelOf(M[o]) = LabelOf(o)
                        /\ M[o][2].recency = o[2].recency /\ M[o][2].evidence = o[2].evidence
      OBVIOUS
    <3>1. o[1] \in Person /\ o[2] \in HubRecord /\ o[2].id \in HubId
      BY OccurrenceIs DEF IdOf
    <3> DEFINE h == [o[2] EXCEPT !.id = Swap(@)]
    <3>2. /\ h \in HubRecord /\ h.id = Swap(o[2].id)
          /\ h.type = o[2].type /\ h.label = o[2].label
          /\ h.recency = o[2].recency /\ h.evidence = o[2].evidence
      BY <1>2, <3>1 DEF HubRecord
    <3> HIDE DEF h
    <3>3. M[o] = <<o[1], h>>
      BY <1>3 DEF h
    <3>4. QED
      BY <3>1, <3>2, <3>3 DEF Occ, IdOf, TypeOf, LabelOf
  <2>3. \A o \in Occ, p \in Occ : M[o] = M[p] => o = p
    <3> SUFFICES ASSUME NEW o \in Occ, NEW p \in Occ, M[o] = M[p] PROVE o = p
      OBVIOUS
    <3>1. /\ o = <<o[1], o[2]>> /\ o[2] \in HubRecord
          /\ p = <<p[1], p[2]>> /\ p[2] \in HubRecord
      BY OccurrenceIs
    <3>2. o[1] = p[1] /\ Swap(IdOf(o)) = Swap(IdOf(p)) /\ IdOf(o) \in HubId /\ IdOf(p) \in HubId
          /\ TypeOf(o) = TypeOf(p) /\ LabelOf(o) = LabelOf(p)
          /\ o[2].recency = p[2].recency /\ o[2].evidence = p[2].evidence
      BY <2>2
    <3>3. o[2].id = p[2].id /\ o[2].type = p[2].type /\ o[2].label = p[2].label
      BY <1>2, <3>2 DEF IdOf, TypeOf, LabelOf
    <3>4. o[2] = p[2]
      BY <3>1, <3>2, <3>3 DEF HubRecord
    <3>5. QED
      BY <3>1, <3>2, <3>4
  <2>4. M \in [Occ -> Occ]
    BY <2>2
  <2> HIDE DEF M, swap
  <2>5. QED
    BY <2>1, <2>2, <2>3, <2>4 DEF Mirrors
<1>6. \A id \in HubId : swap[id] = Swap(id)
  OBVIOUS
<1> HIDE DEF M, swap
<1>7. DOMAIN Graph(O) \subseteq HubId
  BY <1>1, GraphIs
<1>8. /\ DOMAIN Graph(Image(M, O)) = {swap[id] : id \in DOMAIN Graph(O)}
      /\ \A id \in DOMAIN Graph(O) : Graph(Image(M, O))[swap[id]] = Graph(O)[id]
  <2>1. Renamed(Graph(Image(M, O)), Graph(O), swap)
    BY <1>1, <1>5, GraphMirrored
  <2>2. QED
    BY <2>1 DEF Renamed
<1>9. {swap[id] : id \in DOMAIN Graph(O)} = {Swap(id) : id \in DOMAIN Graph(O)}
  BY <1>6, <1>7
<1> HIDE DEF swapped
<1>10. /\ DOMAIN Graph(swapped) = {Swap(id) : id \in DOMAIN graph}
       /\ \A id \in DOMAIN graph : Graph(swapped)[Swap(id)] = graph[id]
  BY <1>1, <1>4, <1>6, <1>7, <1>8, <1>9
<1>11. QED
  BY <1>10 DEF swapped, O, Swap

\* The graph depends on QIDs only as names that are equal or not: exchanging any two of
\* them in every dossier exchanges them in the graph and changes nothing else.
THEOREM QidNamesHold == GraphSpec => []QidNamesAreOpaque
BY GraphInvHolds, QidNamesAreOpaqueHere, PTL

------------------------------------------------------------------------------
(* One thing, one node                                                      *)

\* What extract writes: a hub without a QID is named by its type and its label.
SluggedHubs ==
    \A h \in Hub : h.id[1] # WD => h.id = <<h.type, Slug[h.label]>>

\* A name of several words, shortened to its initials, is not the initials of another.
ExpansionsAreNotAcronyms ==
    \A l \in Label, m \in Label, n \in Label : Acronym[l] = Slug[m] => Acronym[n] # Slug[l]

Named(O, k) == {o \in O : KeyOf(o) = k}

\* The label a larger group elects is the one its own key elects.
LEMMA KeyElects ==
    ASSUME NEW G \in SUBSET Occ, IsFiniteSet(G), NEW P \in SUBSET G,
           NEW k, Slug[HubIdentity(G).label] = k, \A o \in G : KeyOf(o) = k <=> o \in P
    PROVE  HubIdentity(P).label = HubIdentity(G).label
<1> SUFFICES ASSUME G # {} PROVE HubIdentity(P).label = HubIdentity(G).label
  <2>1. G = {} => P = G
    OBVIOUS
  <2>2. QED
    BY <2>1
<1> DEFINE said == [o \in G |-> LabelOf(o)]
           told == [o \in P |-> LabelOf(o)]
           v == HubIdentity(G).label
           u == HubIdentity(P).label
<1>1. /\ said \in [G -> DOMAIN Rank] /\ told \in [P -> DOMAIN Rank]
      /\ \A o \in G : said[o] = LabelOf(o) /\ KeyOf(o) = Slug[said[o]]
      /\ \A o \in P : told[o] = LabelOf(o) /\ o \in G /\ said[o] = told[o]
  BY OccurrenceIs, StringsRank DEF KeyOf
<1>2. v = Elect(Votes(said), StringOrder) /\ u = Elect(Votes(told), StringOrder)
  BY DEF HubIdentity
<1> HIDE DEF said, told, u, v
<1>3. Slug[v] = k
  BY DEF v
<1>4. /\ v \in {said[o] : o \in G}
      /\ \A w \in {said[o] : o \in G} :
            Votes(said)[v] > Votes(said)[w] \/ (Votes(said)[v] = Votes(said)[w] /\ <<v, w>> \in StringOrder)
  BY <1>1, <1>2, StringsRank, TheStatedIsElected
<1>5. PICK o \in G : said[o] = v
  BY <1>4
<1>6. o \in P /\ told[o] = v
  BY <1>1, <1>3, <1>5
<1>7. IsFiniteSet(P) /\ P # {}
  BY <1>6, FS_Subset
<1>8. /\ u \in {told[p] : p \in P}
      /\ \A w \in {told[p] : p \in P} :
            Votes(told)[u] > Votes(told)[w] \/ (Votes(told)[u] = Votes(told)[w] /\ <<u, w>> \in StringOrder)
  BY <1>1, <1>2, <1>7, StringsRank, TheStatedIsElected
<1>9. PICK p \in P : told[p] = u
  BY <1>8
<1>10. ASSUME NEW q \in P
       PROVE  Votes(said)[said[q]] = Votes(told)[said[q]] /\ Votes(told)[said[q]] \in Nat
  <2> DEFINE w == said[q]
             S == {x \in G : said[x] = w}
             T == {x \in P : told[x] = w}
  <2>1. Slug[w] = k /\ w \in Range(said) /\ w \in Range(told) /\ DOMAIN said = G /\ DOMAIN told = P
    BY <1>1 DEF Range
  <2>2. S = T
    BY <1>1, <2>1
  <2>3. Votes(said)[w] = Cardinality(S) /\ Votes(told)[w] = Cardinality(T)
    BY <2>1 DEF Votes
  <2>4. IsFiniteSet(T)
    BY <1>7, FS_Subset
  <2> HIDE DEF S, T, w
  <2>5. QED
    BY <2>2, <2>3, <2>4, FS_CardinalityType DEF w
<1>11. said[p] = u /\ u \in {said[x] : x \in G} /\ v \in {told[x] : x \in P}
  BY <1>1, <1>6, <1>9
<1>12. /\ Votes(said)[u] = Votes(told)[u] /\ Votes(told)[u] \in Nat
       /\ Votes(said)[v] = Votes(told)[v] /\ Votes(told)[v] \in Nat
  BY <1>5, <1>6, <1>10, <1>11
<1>13. <<u, v>> \in StringOrder /\ <<v, u>> \in StringOrder
  BY <1>4, <1>8, <1>11, <1>12
<1>14. u \in DOMAIN Rank /\ v \in DOMAIN Rank
  BY <1>1, <1>5, <1>11
<1>15. QED
  BY <1>13, <1>14, StringsRank DEF u, v

\* A node whose id is not a QID holds somebody who uses the name in its id.
LEMMA SlugIsUsed ==
    ASSUME SluggedHubs, NEW G \in SUBSET (Person \X Hub), IsFiniteSet(G), G # {},
           CanonicalId(G)[1] # WD
    PROVE  \E o \in G : KeyOf(o) = CanonicalId(G)[2]
<1> DEFINE slugged == {o \in G : IdOf(o)[1] # WD}
<1>1. G \in SUBSET Occ
  BY GraphAssumption DEF Occ
<1>2. ElectQid(G) = None
  <2>1. SUFFICES ASSUME ElectQid(G) # None PROVE FALSE
    OBVIOUS
  <2>2. PICK o \in G : ElectQid(G) = IdOf(o) /\ IdOf(o)[1] = WD
    BY <2>1, ElectQidIs DEF StatedQids
  <2>3. QED
    BY <2>1, <2>2 DEF CanonicalId
<1>3. CASE slugged # {}
  <2>1. CanonicalId(G) = ElectId(slugged)
    BY <1>2, <1>3 DEF CanonicalId
  <2>2. slugged \in SUBSET Occ /\ IsFiniteSet(slugged) /\ \A o \in slugged : o \in G /\ IdOf(o)[1] # WD
    BY <1>1, FS_Subset
  <2> HIDE DEF slugged
  <2>3. PICK o \in slugged : ElectId(slugged) = IdOf(o)
    BY <1>3, <2>2, ElectionsAre
  <2>4. IdOf(o) = <<TypeOf(o), KeyOf(o)>>
    BY <2>2 DEF SluggedHubs, IdOf, TypeOf, KeyOf, LabelOf
  <2>5. QED
    BY <2>1, <2>2, <2>3, <2>4
<1>4. CASE slugged = {}
  <2>1. CanonicalId(G)[2] = Slug[HubIdentity(G).label]
    BY <1>2, <1>4 DEF CanonicalId
  <2>2. PICK o \in G : HubIdentity(G).label = LabelOf(o)
    BY <1>1, ElectionsAre
  <2>3. QED
    BY <2>1, <2>2 DEF KeyOf
<1>5. QED
  BY <1>3, <1>4

\* An entity that no fold touches: its node, unless a QID names it, is its own people's.
LEMMA AloneIs ==
    ASSUME SluggedHubs, NEW O \in SUBSET (Person \X Hub), IsFiniteSet(O),
           NEW s \in O, NEW k, KeyOf(s) = k,
           \A f \in AcronymAliases(Described(O)) : f[1] # k /\ f[2] # k,
           NEW id, CanonicalId(Group(O, s)) = id, id[1] # WD
    PROVE  Here(O, id) = Named(O, k)
<1> DEFINE aliases == AcronymAliases(Described(O))
<1>1. \A o \in O : /\ KeyOf(o) = k => Entity(aliases, o) = {k}
                   /\ k \in Entity(aliases, o) => KeyOf(o) = k
  BY DEF Entity
<1>2. \A o \in O : Group(O, o) = {p \in O : Entity(aliases, o) \cap Entity(aliases, p) # {}}
  BY DEF Group
<1> HIDE DEF aliases
<1>3. \A o \in O : KeyOf(o) = k => Group(O, o) = Named(O, k)
  BY <1>1, <1>2 DEF Named
<1>4. O \in SUBSET Occ
  BY GraphAssumption DEF Occ
<1>5. \A o \in O : /\ Group(O, o) \in SUBSET (Person \X Hub) /\ IsFiniteSet(Group(O, o))
                   /\ o \in Group(O, o)
  BY <1>4, PlacedAre, FS_Subset
<1>6. id[2] = k
  <2>1. \E o \in Group(O, s) : KeyOf(o) = CanonicalId(Group(O, s))[2]
    BY <1>5, SlugIsUsed
  <2>2. QED
    BY <1>3, <2>1 DEF Named
<1>7. ASSUME NEW o \in O, CanonicalId(Group(O, o)) = id PROVE KeyOf(o) = k
  <2>1. PICK p \in Group(O, o) : KeyOf(p) = k
    BY <1>5, <1>6, <1>7, SlugIsUsed
  <2>2. k \in Entity(aliases, o)
    BY <1>1, <1>2, <2>1
  <2>3. QED
    BY <1>1, <2>2
<1>8. QED
  BY <1>3, <1>7 DEF Here, Named

\* What a node says of itself.
LEMMA LabelIs ==
    ASSUME NEW P \in SUBSET Occ, IsFiniteSet(P), P # {}, Node(P).label # WITHHELD_HUB_LABEL
    PROVE  /\ Node(P).label = HubIdentity(P).label /\ Node(P).type = HubIdentity(P).type
           /\ \E o \in P : LabelOf(o) = Node(P).label /\ KeyOf(o) = Slug[Node(P).label]
<1>1. Node(P).label = HubIdentity(P).label /\ Node(P).type = HubIdentity(P).type
  BY DEF Node
<1>2. PICK o \in P : LabelOf(o) = HubIdentity(P).label
  BY ElectionsAre
<1>3. QED
  BY <1>1, <1>2 DEF KeyOf

LEMMA DescribedIs ==
    ASSUME NEW O, NEW o \in O, NEW k, KeyOf(o) = k
    PROVE  <<k, HubIdentity(Named(O, k))>> \in Described(O)
BY DEF Described, Named

LEMMA DescribedAre ==
    ASSUME NEW O \in SUBSET Occ, IsFiniteSet(O), NEW p \in Described(O)
    PROVE  /\ p = <<p[1], HubIdentity(Named(O, p[1]))>>
           /\ \E o \in O : LabelOf(o) = p[2].label /\ Slug[LabelOf(o)] = p[1]
<1>1. PICK k \in {KeyOf(o) : o \in O} : p = <<k, HubIdentity(Named(O, k))>>
  BY DEF Described, Named
<1>2. Named(O, k) \in SUBSET Occ /\ IsFiniteSet(Named(O, k)) /\ Named(O, k) # {}
  BY FS_Subset DEF Named
<1>3. PICK o \in Named(O, k) : HubIdentity(Named(O, k)).label = LabelOf(o)
  BY <1>2, ElectionsAre
<1>4. QED
  BY <1>1, <1>3 DEF Named, KeyOf

\* A node's label is the one its name's own people elect, and it holds all of them.
LEMMA NodeLabelIs ==
    ASSUME NEW O \in SUBSET Occ, IsFiniteSet(O), NEW id \in DOMAIN Graph(O),
           Graph(O)[id].label # WITHHELD_HUB_LABEL, NEW k, k = Slug[Graph(O)[id].label]
    PROVE  /\ HubIdentity(Named(O, k)).label = Graph(O)[id].label
           /\ HubIdentity(Here(O, id)).type = Graph(O)[id].type
           /\ \E o \in O : KeyOf(o) = k /\ CanonicalId(Group(O, o)) = id
<1> DEFINE H == Here(O, id)
<1>1. H \in SUBSET Occ /\ IsFiniteSet(H) /\ H # {} /\ H \subseteq O /\ Graph(O)[id] = Node(H)
  BY GraphIs, FS_Subset
<1> HIDE DEF H
<1>2. PICK o \in H : KeyOf(o) = k
  BY <1>1, LabelIs
<1>3. \A p \in O : KeyOf(p) = k => Group(O, p) = Group(O, o)
  BY <1>2 DEF Group, Entity
<1>4. CanonicalId(Group(O, o)) = id /\ o \in O
  BY <1>2 DEF H, Here
<1>5. \A p \in O : KeyOf(p) = k => p \in H
  BY <1>3, <1>4 DEF H, Here
<1>6. Named(O, k) \in SUBSET H /\ \A p \in H : KeyOf(p) = k <=> p \in Named(O, k)
  BY <1>1, <1>5 DEF Named
<1>7. HubIdentity(H).label = Graph(O)[id].label /\ HubIdentity(H).type = Graph(O)[id].type
  BY <1>1, LabelIs
<1>8. HubIdentity(Named(O, k)).label = HubIdentity(H).label
  BY <1>1, <1>6, <1>7, KeyElects
<1>9. QED
  BY <1>2, <1>4, <1>7, <1>8 DEF H

\* Nobody's node is an acronym beside the node of its only expansion.
LEMMA OneNodePerAcronym ==
    ASSUME SluggedHubs, ExpansionsAreNotAcronyms,
           NEW O \in SUBSET (Person \X Hub), IsFiniteSet(O),
           NEW short \in DOMAIN Graph(O), NEW long \in DOMAIN Graph(O),
           short[1] # WD, Graph(O)[short].label \in Capitals,
           long[1] # WD, Graph(O)[long].label # WITHHELD_HUB_LABEL,
           Acronym[Graph(O)[long].label] = Slug[Graph(O)[short].label],
           Graph(O)[long].type = Graph(O)[short].type,
           \A o \in O : Acronym[LabelOf(o)] = Slug[Graph(O)[short].label]
                           => Slug[LabelOf(o)] = Slug[Graph(O)[long].label]
    PROVE  FALSE
<1> DEFINE described == Described(O)
           aliases == AcronymAliases(described)
           k == Slug[Graph(O)[short].label]
           n == Slug[Graph(O)[long].label]
           K == <<k, HubIdentity(Named(O, k))>>
           N == <<n, HubIdentity(Named(O, n))>>
<1>1. O \in SUBSET Occ
  BY GraphAssumption DEF Occ
<1>2. Graph(O)[short].label # WITHHELD_HUB_LABEL
  BY GraphAssumption
<1>3. /\ HubIdentity(Named(O, k)).label = Graph(O)[short].label
      /\ HubIdentity(Here(O, short)).type = Graph(O)[short].type
      /\ \E s \in O : KeyOf(s) = k /\ CanonicalId(Group(O, s)) = short
  BY <1>1, <1>2, NodeLabelIs
<1>4. /\ HubIdentity(Named(O, n)).label = Graph(O)[long].label
      /\ HubIdentity(Here(O, long)).type = Graph(O)[long].type
      /\ \E t \in O : KeyOf(t) = n /\ CanonicalId(Group(O, t)) = long
  BY <1>1, NodeLabelIs
<1>5. PICK s \in O : KeyOf(s) = k /\ CanonicalId(Group(O, s)) = short
  BY <1>3
<1>6. PICK t \in O : KeyOf(t) = n /\ CanonicalId(Group(O, t)) = long
  BY <1>4
<1>7. K \in described /\ N \in described
  BY <1>5, <1>6, DescribedIs
<1>8. \A p \in described : /\ p[2].label \in Label /\ Slug[p[2].label] = p[1]
                           /\ Acronym[p[2].label] = k => p[1] = n
                           /\ p = <<p[1], HubIdentity(Named(O, p[1]))>>
  BY <1>1, DescribedAre, OccurrenceIs
<1>9. /\ K[1] = k /\ K[2].label = Graph(O)[short].label /\ K[2].label \in Capitals
      /\ N[1] = n /\ N[2].label = Graph(O)[long].label /\ Acronym[N[2].label] = k
  BY <1>3, <1>4
<1>10. \A f \in aliases : \E p \in described, q \in described :
          /\ f = <<p[1], q[1]>> /\ p[2].label \in Capitals
          /\ q # p /\ Acronym[q[2].label] = p[1] /\ q[2].type = p[2].type
  BY DEF AcronymAliases, Expansions
<1>11. Expansions(described, K) \subseteq {N}
  BY <1>8 DEF Expansions
<1>12. \A p \in described : p[1] = n => p = N
  BY <1>8
<1> HIDE DEF k, n, K, N
<1>13. N \in Expansions(described, K) => <<k, n>> \in aliases
  <2> SUFFICES ASSUME Expansions(described, K) = {N} PROVE <<k, n>> \in aliases
    BY <1>11
  <2> DEFINE pair == <<K, N>>
  <2>1. /\ pair \in described \X described /\ pair[1] = K /\ pair[2] = N
    BY <1>7
  <2> HIDE DEF pair, described
  <2>2. pair[1][2].label \in Capitals /\ Expansions(described, pair[1]) = {pair[2]}
    BY <1>9, <2>1
  <2>3. <<pair[1][1], pair[2][1]>> \in aliases
    BY <2>1, <2>2 DEF AcronymAliases
  <2>4. QED
    BY <1>9, <2>1, <2>3
<1> HIDE DEF described, aliases
<1>14. \A p \in described, q \in described : Acronym[q[2].label] = p[1] =>
          \A r \in described : Acronym[r[2].label] # q[1]
  BY <1>8 DEF ExpansionsAreNotAcronyms
<1>15. k # n
  BY <1>7, <1>9, <1>14
<1>16. \A f \in aliases : f[2] # k /\ f[1] # n /\ (f[1] = k <=> f[2] = n)
  <2> SUFFICES ASSUME NEW f \in aliases PROVE f[2] # k /\ f[1] # n /\ (f[1] = k <=> f[2] = n)
    OBVIOUS
  <2>1. PICK p \in described, q \in described :
          /\ f = <<p[1], q[1]>> /\ p[2].label \in Capitals
          /\ q # p /\ Acronym[q[2].label] = p[1] /\ q[2].type = p[2].type
    BY <1>10
  <2>2. f[1] = p[1] /\ f[2] = q[1]
    BY <2>1
  <2>3. f[2] # k
    BY <1>7, <1>9, <1>14, <2>1, <2>2
  <2>4. f[1] # n
    BY <1>7, <1>9, <1>14, <2>1, <2>2
  <2>5. f[1] = k => f[2] = n
    BY <1>8, <2>1, <2>2
  <2>6. f[2] = n => f[1] = k
    <3>1. f[2] = n => q = N
      BY <1>12, <2>1, <2>2
    <3>2. QED
      BY <1>9, <2>1, <2>2, <3>1
  <2>7. QED
    BY <2>3, <2>4, <2>5, <2>6
<1>17. CASE \E f \in aliases : f[1] = k
  <2>1. /\ Entity(aliases, s) = {k, n} /\ Entity(aliases, t) = {n}
        /\ \A o \in O : k \in Entity(aliases, o) => n \in Entity(aliases, o)
    BY <1>5, <1>6, <1>15, <1>16, <1>17 DEF Entity
  <2>2. Group(O, s) = Group(O, t)
    BY <2>1 DEF Group, aliases, described
  <2>3. short = long
    BY <1>5, <1>6, <2>2
  <2>4. Acronym[Graph(O)[short].label] = k /\ n = k
    BY <2>3 DEF k, n
  <2>5. QED
    BY <1>15, <2>4
<1>18. CASE ~ \E f \in aliases : f[1] = k
  <2>1. /\ \A f \in aliases : f[1] # k /\ f[2] # k
        /\ \A f \in aliases : f[1] # n /\ f[2] # n
    BY <1>16, <1>18
  <2>2. Here(O, short) = Named(O, k)
    BY <1>5, <2>1, AloneIs DEF aliases, described
  <2>3. Here(O, long) = Named(O, n)
    BY <1>6, <2>1, AloneIs DEF aliases, described
  <2>4. K[2].type = N[2].type
    BY <1>3, <1>4, <2>2, <2>3 DEF K, N
  <2>5. N \in Expansions(described, K)
    <3>1. N # K
      BY <1>9, <1>15
    <3>2. QED
      BY <1>7, <1>9, <2>4, <3>1 DEF Expansions
  <2>6. <<k, n>> \in aliases
    BY <1>13, <2>5
  <2>7. QED
    BY <1>18, <2>6
<1>19. QED
  BY <1>17, <1>18

LEMMA OneThingHere ==
    ASSUME SluggedHubs, ExpansionsAreNotAcronyms, GraphInv
    PROVE  OneThingOneNode
<1> SUFFICES ASSUME graph # None PROVE OneThingOneNode
  BY DEF OneThingOneNode
<1> DEFINE O == Occurrences
<1>1. O \in SUBSET (Person \X Hub) /\ O \in SUBSET Occ /\ IsFiniteSet(O) /\ graph = Graph(O)
  <2>1. \A q \in Population : dossiers[q] \subseteq Hub /\ q \in Person
    BY DEF Population, GraphInv, DossiersAre
  <2>2. Occurrences \subseteq Person \X Hub
    BY <2>1 DEF Occurrences
  <2>3. QED
    BY <2>2, OccurrencesAre DEF GraphInv
<1>2. \A id \in DOMAIN graph : graph[id].carriers = Cardinality(DOMAIN graph[id].recency)
  BY NodesAre, NodeIs
<1> HIDE DEF O
<1>3. ASSUME NEW o1 \in O, NEW o2 \in O, KeyOf(o1) = KeyOf(o2)
      PROVE  Shared(o1[1], o2[1]) # {}
  <2> DEFINE id == CanonicalId(Group(O, o1))
  <2>1. Group(O, o1) = Group(O, o2)
    BY <1>3 DEF Group, Entity
  <2>2. o1 \in Here(O, id) /\ o2 \in Here(O, id)
    BY <2>1 DEF Here
  <2>3. id \in DOMAIN graph /\ graph[id] = Node(Here(O, id))
    BY <1>1, GraphIs
  <2> HIDE DEF id
  <2>4. {o1[1], o2[1]} \subseteq DOMAIN graph[id].recency
    <3>1. DOMAIN Node(Here(O, id)).recency = {o[1] : o \in Here(O, id)}
      BY DEF Node
    <3>2. QED
      BY <2>2, <2>3, <3>1
  <2>5. QED
    BY <2>3, <2>4 DEF Shared
<1>4. ASSUME NEW short \in DOMAIN graph, NEW long \in DOMAIN graph,
             short[1] # WD, graph[short].label \in Capitals,
             long[1] # WD, graph[long].label # WITHHELD_HUB_LABEL,
             Acronym[graph[long].label] = Slug[graph[short].label],
             graph[long].type = graph[short].type
      PROVE  \E other \in {o[2] : o \in O} :
                /\ Acronym[other.label] = Slug[graph[short].label]
                /\ Slug[other.label] # Slug[graph[long].label]
  <2>1. SUFFICES ASSUME \A o \in O : Acronym[LabelOf(o)] = Slug[graph[short].label]
                                      => Slug[LabelOf(o)] = Slug[graph[long].label]
                 PROVE  FALSE
    BY DEF LabelOf
  <2>2. QED
    BY <1>1, <1>4, <2>1, OneNodePerAcronym
<1>5. QED
  BY <1>2, <1>3, <1>4 DEF OneThingOneNode, O

\* Of hubs written as extract writes them: people who name a hub alike share a node, and
\* nobody is joined twice, once by an acronym and once by its only expansion.
THEOREM OneThingHolds ==
    ASSUME SluggedHubs, ExpansionsAreNotAcronyms
    PROVE  GraphSpec => []OneThingOneNode
<1>1. GraphInv => OneThingOneNode
  BY OneThingHere
<1>2. QED
  BY <1>1, GraphInvHolds, PTL
=============================================================================
