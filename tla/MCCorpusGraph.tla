--------------------------- MODULE MCCorpusGraph ---------------------------
(* Three people and a bystander; an acronym with two expansions, and a name   *)
(* that carriers give different types, ids and QIDs.                          *)
EXTENDS CorpusGraph, TLC

CONSTANT NoInitials

MCLabel == {"MIT", "Massachusetts I T", "Manchester I T", "Acme", "Quarry"}
MCSlug == [l \in MCLabel |->
             CASE l = "MIT" -> "mit" [] l = "Massachusetts I T" -> "mass"
               [] l = "Manchester I T" -> "manc" [] l = "Acme" -> "acme"
               [] OTHER -> "quarry"]
MCAcronym == [l \in MCLabel |->
                IF l \in {"Massachusetts I T", "Manchester I T"} THEN "mit" ELSE NoInitials]
Order == <<"city", "company", "school", "wd",
           "acme", "manc", "mass", "mit", "quarry", "Q1", "Q2",
           "Acme", "MIT", "Manchester I T", "Massachusetts I T", "Quarry">>
MCRank == [x \in ToSet(Order) |-> CHOOSE i \in DOMAIN Order : Order[i] = x]
MCBoost == [t \in {"city", "company", "school"} |->
              CASE t = "city" -> 5 [] t = "company" -> 15 [] OTHER -> 8]

Slugged(type, label, recency, evidence) ==
    [id |-> <<type, MCSlug[label]>>, type |-> type, label |-> label,
     recency |-> recency, evidence |-> evidence]
Named(qid, type, label, evidence) ==
    [id |-> <<"wd", qid>>, type |-> type, label |-> label, recency |-> 2,
     evidence |-> evidence]

MCHub ==
    {Slugged("school", "MIT", 2, "displayable"),
     Slugged("company", "MIT", 1, "withheld"),
     Slugged("school", "Massachusetts I T", 1, "none"),
     Slugged("company", "Manchester I T", 1, "displayable"),
     Slugged("school", "Manchester I T", 2, "withheld"),
     Slugged("city", "Acme", 1, "withheld"),
     Named("Q1", "company", "Acme", "withheld"),
     Named("Q2", "company", "Acme", "displayable"),
     Named("Q2", "company", "Quarry", "withheld"),
     Named("Q1", "school", "Quarry", "displayable")}

Symmetry == Permutations(Person)
=============================================================================
