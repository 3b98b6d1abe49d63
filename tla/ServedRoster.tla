---------------------------- MODULE ServedRoster ----------------------------
(***************************************************************************)
(* ArrivalApp over the corpus of a roster: everybody on it was built, and  *)
(* what a request names is looked up in the DossierStore.                  *)
(***************************************************************************)
EXTENDS ArrivalApp, DossierStore

Corpus == ToSet(LoadRoster)

\* ArrivalApp's person for an id.
RankOf(id) == 1 + Cardinality({q \in Corpus : StringBefore(q.id, id)})

Reached(t) ==
    IF ResolveToken(Corpus, t) = <<>> THEN Nobody ELSE RankOf(ResolveToken(Corpus, t))

ASSUME ServedAssumption ==
    /\ Person = {RankOf(q.id) : q \in Corpus}
    /\ Token \subseteq Slug
    /\ {q.id : q \in Corpus} \subseteq Token
    /\ Resolve = [t \in Token |-> Reached(t)]

Owner == [id \in {q.id : q \in Corpus} |-> RankOf(id)]

\* Of several people of one name, whoever arrives by their own id is the last to have
\* come in, and whoever leaves by it is out while everybody else stays.
IdsReachTheirOwner ==
    [][/\ arrivals' # arrivals =>
            \A id \in DOMAIN Owner, r \in Request :
                Arrive(r, id) => present'[Len(present')] = Owner[id]
       /\ InBuilding' # InBuilding =>
            \A id \in DOMAIN Owner : Leave(id) => InBuilding' = InBuilding \ {Owner[id]}]_vars
=============================================================================
