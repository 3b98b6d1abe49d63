---------------------------- MODULE MCDigestPage ----------------------------
(* Dossiers of up to four facts, of the shapes the selection tells apart, from *)
(* two documents; a Who line with room for two short facts or one long one.    *)
EXTENDS DigestView

CONSTANTS d1, d2

Shape(category, published, confidence, doc) ==
    [category |-> category, rare |-> TRUE, displayable |-> TRUE, aloud |-> TRUE,
     words |-> 2, published |-> published, confidence |-> confidence, doc |-> doc]

MCFactShape ==
    {Shape(c, 1, 1, d1) : c \in {"current_work", "recent_activity", "hook", "affiliation"}}
    \cup {Shape(c, 2, 2, d1) : c \in {"recent_activity", "non_obvious", "hook"}}
    \cup {Shape("hook", 0, 1, d2), Shape("collaborator", 2, 1, d1), Shape("recent_activity", 0, 2, d2),
          Shape("current_work", 1, 2, d2),
          [Shape("current_work", 2, 1, d2) EXCEPT !.words = 4],
          [Shape("hook", 2, 2, d2) EXCEPT !.aloud = FALSE],
          [Shape("non_obvious", 1, 2, d2) EXCEPT !.rare = FALSE],
          [Shape("recent_activity", 2, 2, d2) EXCEPT !.displayable = FALSE]}

Hub(counts, evidence) == [counts |-> counts, evidence |-> evidence]
Row(other, hubs) == [other |-> other, hubs |-> hubs]

\* Nobody to meet; namesakes who share a hub that counts for nothing, and one more that
\* counts; an id that resolves to no fact.
MCMeetRows ==
    {<<>>,
     <<Row("Dana", <<Hub(FALSE, <<2>>)>>), Row("Dana", <<Hub(FALSE, <<2>>), Hub(TRUE, <<1>>)>>)>>,
     <<Row("Dana", <<Hub(TRUE, <<9>>), Hub(FALSE, <<3, 9>>)>>)>>}
=============================================================================
