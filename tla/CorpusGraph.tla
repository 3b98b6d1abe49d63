---------------------------- MODULE CorpusGraph ----------------------------
(***************************************************************************)
(* arrival.graph: the interest graph of people and the hubs they carry,    *)
(* built once from the dossiers of the resolved people, and what `match`   *)
(* makes of two of them.  Carriers describe one hub differently, so the    *)
(* graph elects an id, a type and a label for each.                        *)
(*                                                                         *)
(* A label is abstracted to what the election reads of it: its slug, the   *)
(* slug of its initials and whether it is written like an acronym; one     *)
(* that slugs to nothing is left out.  A hub id is <<type, slug>>, or      *)
(* <<WD, qid>> when Wikidata resolved it.                                  *)
(***************************************************************************)
EXTENDS Picks

CONSTANTS
    Person,
    HubType, Label, Qid, WD,
    Slug,                \* util.slug of a label
    Acronym,             \* slug(_acronym_of(label)), or None
    Capitals,            \* labels that _reads_as_an_acronym
    Rank,                \* string order of types, WD, slugs, qids and labels
    Boost,               \* TYPE_BOOST, times ten
    Hub,                 \* the hubs a dossier may list
    MaxHubs,             \* bound: hubs of a dossier
    Bystanders,          \* people whose hubs nobody else carries
    WITHHELD_HUB_LABEL, None

HubId == (HubType \X {Slug[l] : l \in Label}) \cup ({WD} \X Qid)

\* `evidence`: what _nameable_hub_ids sees of it: "none" that resolves, some that is
\* "displayable", or only some that is "withheld".
HubRecord == [id : HubId, type : HubType, label : Label, recency : Nat,
              evidence : {"none", "displayable", "withheld"}]

ASSUME GraphAssumption ==
    /\ IsFiniteSet(Person) /\ IsFiniteSet(Hub)
    /\ Hub \subseteq HubRecord
    /\ Capitals \subseteq Label
    /\ DOMAIN Acronym = Label /\ DOMAIN Slug = Label
    /\ Rank \in [HubType \cup {WD} \cup Qid \cup Label \cup {Slug[l] : l \in Label} -> Nat]
    /\ IsInjective(Rank)
    /\ \A t \in HubType : Rank[t] < Rank[WD]
    /\ Boost \in [HubType -> Nat \ {0}]
    /\ {MaxHubs, Bystanders} \subseteq Nat
    /\ WITHHELD_HUB_LABEL \notin Label /\ WD \notin HubType /\ None \notin HubId

VARIABLES
    dossiers,            \* per person: the hubs of a resolved dossier, or None
    graph                \* per hub node: its attributes and edges; None before build_graph
graphVars == <<dossiers, graph>>

Population == {q \in Person : dossiers[q] # None}

\* One person listing one hub.
Occurrences == UNION {{q} \X dossiers[q] : q \in Population}
TypeOf(o) == o[2].type
LabelOf(o) == o[2].label
IdOf(o) == o[2].id
KeyOf(o) == Slug[LabelOf(o)]                     \* _identity_key

------------------------------------------------------------------------------
(* Elections                                                                *)

StringOrder == {p \in (DOMAIN Rank) \X (DOMAIN Rank) : Rank[p[1]] <= Rank[p[2]]}
IdOrder ==
    {p \in HubId \X HubId : \/ Rank[p[1][1]] < Rank[p[2][1]]
                            \/ p[1][1] = p[2][1] /\ <<p[1][2], p[2][2]>> \in StringOrder}

\* How often each value is stated; `said` has what each occurrence states.
Votes(said) ==
    [v \in Range(said) |-> Cardinality({o \in DOMAIN said : said[o] = v})]

\* _elect: the most common, and of those the first in the order.
Elect(votes, order) ==
    CHOOSE v \in DOMAIN votes : \A w \in DOMAIN votes :
        votes[v] > votes[w] \/ (votes[v] = votes[w] /\ <<v, w>> \in order)

\* _hub_identity: two votes, so the pair need not be one that anybody stated.
HubIdentity(O) ==
    [type |-> Elect(Votes([o \in O |-> TypeOf(o)]), StringOrder),
     label |-> Elect(Votes([o \in O |-> LabelOf(o)]), StringOrder)]

ElectId(O) == Elect(Votes([o \in O |-> IdOf(o)]), IdOrder)

StatedQids(O) == {IdOf(o) : o \in {o \in O : IdOf(o)[1] = WD}}
Backers(O, id) == {o[1] : o \in {o \in O : IdOf(o) = id}}

\* Mutant: the tie broken by string order.
ElectAnyQid(O) ==
    IF StatedQids(O) = {} THEN None
    ELSE ElectId({o \in O : IdOf(o)[1] = WD})

\* _elect_qid: the one stated by the most people, and none when two are.
ElectQid(O) ==
    LET best == {id \in StatedQids(O) : \A other \in StatedQids(O) :
                    Cardinality(Backers(O, id)) >= Cardinality(Backers(O, other))}
    IN  IF \E id \in best : best = {id} THEN CHOOSE id \in best : TRUE ELSE None

\* Each key with what its own occurrences elect it to be.
Described(O) ==
    {<<k, HubIdentity({o \in O : KeyOf(o) = k})>> : k \in {KeyOf(o) : o \in O}}

Expansions(described, short) ==
    {long \in described \ {short} : /\ Acronym[long[2].label] = short[1]
                                    /\ long[2].type = short[2].type}

\* Mutant: no fold.
NoAliases(described) == {}

\* _acronym_aliases: an acronym's key, folded onto the one expansion of its own type.
AcronymAliases(described) ==
    {<<p[1][1], p[2][1]>> : p \in {p \in described \X described :
        p[1][2].label \in Capitals /\ Expansions(described, p[1]) = {p[2]}}}

\* The id of one merged group: the corroborated QID, else the most common slug id, else
\* one composed from the elected description.
CanonicalId(O) ==
    LET slugged == {o \in O : IdOf(o)[1] # WD}
    IN  IF ElectQid(O) # None THEN ElectQid(O)
        ELSE IF slugged # {} THEN ElectId(slugged)
        ELSE <<HubIdentity(O).type, Slug[HubIdentity(O).label]>>

\* The keys of one entity, a fold included.
Entity(aliases, o) == {KeyOf(o)} \cup {fold[2] : fold \in {f \in aliases : f[1] = KeyOf(o)}}

\* _canonical_hub_ids: each occurrence with the node it belongs to.
CanonicalHubIds(O) ==
    LET aliases == AcronymAliases(Described(O))
    IN  {<<o, CanonicalId({p \in O : Entity(aliases, o) \cap Entity(aliases, p) # {}})>> :
            o \in O}

------------------------------------------------------------------------------
(* The graph                                                                *)

\* Mutant: a withheld name goes unnoticed.
AlwaysNameable(O) == TRUE

\* _nameable_hub_ids: somebody's evidence may be shown, or there is none to judge.
Nameable(O) == \E o \in O : o[2].evidence # "withheld"

CarrierCount(O) == Cardinality({o[1] : o \in O})

Freshest(O) == Max({o[2].recency : o \in O})

\* One hub node and its edges, a carrier each, from the occurrences that belong there.
Node(here) ==
    [type |-> HubIdentity(here).type,
     label |-> IF Nameable(here) THEN HubIdentity(here).label ELSE WITHHELD_HUB_LABEL,
     carriers |-> CarrierCount(here),
     recency |-> [q \in {o[1] : o \in here} |-> Freshest({o \in here : o[1] = q})]]

At(placed, id) == {at[1] : at \in {at \in placed : at[2] = id}}

\* build_graph's second pass: one node per elected id.
Graph(O) ==
    LET placed == CanonicalHubIds(O)
    IN  [id \in {at[2] : at \in placed} |-> Node(At(placed, id))]

GraphInit ==
    /\ dossiers = [q \in Person |-> None]
    /\ graph = None

\* DossierStore: one more resolved dossier.  extract groups hubs by name and then by
\* id; only the city it takes from the roster may share its name with another hub.
Load(q, hubs) ==
    /\ graph = None /\ dossiers[q] = None
    /\ \A g, h \in hubs : g # h =>
         g.id # h.id /\ (Slug[g.label] = Slug[h.label] => "city" \in {g.type, h.type})
    /\ dossiers' = [dossiers EXCEPT ![q] = hubs]
    /\ UNCHANGED graph

BuildGraph ==
    /\ graph = None
    /\ graph' = Graph(Occurrences)
    /\ UNCHANGED dossiers

GraphNext ==
    \/ \E q \in Person : \E hubs \in {H \in SUBSET Hub : Cardinality(H) <= MaxHubs} : Load(q, hubs)
    \/ BuildGraph

GraphSpec == GraphInit /\ [][GraphNext]_graphVars

------------------------------------------------------------------------------
(* match: what two people share                                             *)

\* hub_idf, its logarithm replaced by a difference: nothing once everybody but one
\* carries the hub, and less the more people do.
HubIdf(id) ==
    LET n == Cardinality(Population) + Bystanders
    IN  IF 1 + graph[id].carriers >= n THEN 0 ELSE n - (1 + graph[id].carriers)

Shared(a, b) == {id \in DOMAIN graph : {a, b} \subseteq DOMAIN graph[id].recency}

\* _contributions
Contribution(a, b, id) ==
    LET r == graph[id].recency
    IN  HubIdf(id) * Boost[graph[id].type] * (IF r[a] < r[b] THEN r[a] ELSE r[b])

\* The largest contribution first, then string order.
CitedBefore(a, b, i, j) ==
    \/ Contribution(a, b, i) > Contribution(a, b, j)
    \/ Contribution(a, b, i) = Contribution(a, b, j) /\ i # j /\ <<i, j>> \in IdOrder

\* _nameable: what a sentence may cite.
Citable(a, b) ==
    Sorted({id \in Shared(a, b) : /\ Contribution(a, b, id) > 0
                                  /\ graph[id].label # WITHHELD_HUB_LABEL},
           LAMBDA i, j : CitedBefore(a, b, i, j))

\* _why: the first two; _path: through the first.
Why(a, b) ==
    LET cited == Citable(a, b) IN SubSeq(cited, 1, IF Len(cited) < 2 THEN Len(cited) ELSE 2)

------------------------------------------------------------------------------
\* A QID is an opaque name: exchanging two of them in every dossier exchanges them in
\* the graph and changes nothing else, no node, edge, type, label or weight.
QidNamesAreOpaque ==
    graph # None =>
        \A q \in Qid : \A r \in {r \in Qid : Rank[q] < Rank[r]} :
            LET Swap(id) == IF id = <<WD, q>> THEN <<WD, r>>
                            ELSE IF id = <<WD, r>> THEN <<WD, q>> ELSE id
                swapped == {<<o[1], [o[2] EXCEPT !.id = Swap(@)]>> : o \in Occurrences}
                there == Graph(swapped)
            IN  /\ DOMAIN there = {Swap(id) : id \in DOMAIN graph}
                /\ \A id \in DOMAIN graph : there[Swap(id)] = graph[id]

\* R11 and T-016, across elections, folds and merges: a sentence never names a hub
\* that only withheld facts stand behind, nor one that nearly everybody carries.
SpokenIsClean ==
    graph # None =>
        LET placed == CanonicalHubIds(Occurrences)
        IN  \A a, b \in Population : a # b =>
              \A id \in ToSet(Why(a, b)) :
                /\ \E at \in placed : at[2] = id /\ at[1][2].evidence # "withheld"
                /\ graph[id].carriers + 1 < Cardinality(Population) + Bystanders

\* One real thing joins two people once, and counts as carried by whom it joins.  People
\* who name a hub alike do share a node, and, where no QID is involved, nobody shares
\* both an acronym and the only expansion of it that is a thing of the same type.
OneThingOneNode ==
    graph # None =>
        /\ \A id \in DOMAIN graph : graph[id].carriers = Cardinality(DOMAIN graph[id].recency)
        /\ \A o1, o2 \in Occurrences :
             KeyOf(o1) = KeyOf(o2) /\ o1[1] # o2[1] => Shared(o1[1], o2[1]) # {}
        /\ \A short, long \in DOMAIN graph :
             LET Expands(id) == /\ id[1] # WD /\ graph[id].label # WITHHELD_HUB_LABEL
                                /\ Acronym[graph[id].label] = Slug[graph[short].label]
                                /\ graph[id].type = graph[short].type
             IN  /\ short[1] # WD /\ graph[short].label \in Capitals
                 /\ Expands(long)
                 => \E other \in {o[2] : o \in Occurrences} :
                        /\ Acronym[other.label] = Slug[graph[short].label]
                        /\ Slug[other.label] # Slug[graph[long].label]
=============================================================================
