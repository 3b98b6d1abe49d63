----------------------------- MODULE MCResolver ----------------------------
(* Four documents of three sources, a budget of three calls, a gate of two.   *)
EXTENDS Resolver

MCDocument == 1 .. 4
MCKinds == <<"self_page", "wikidata", "github", "edgar", "search">>
MCPhrase == {"acme", "austin", "greylock", "pinterest", "partner", "colorado", "trade",
             "other employer", "other city"}

Role(org, phrases) == [shape |-> "role at", denies |-> FALSE, org |-> org, phrases |-> phrases]
Plain(phrases) == [shape |-> "plain", denies |-> FALSE, org |-> "trade", phrases |-> phrases]

\* Three details, the last one naming two firms; a city that reads like an employer
\* only because nothing else does; one that says who the person is not.
MCRoster ==
    {<<Role("acme", {"acme"}), Plain({"austin"}), Plain({"greylock", "pinterest", "partner"})>>,
     <<[Role("acme", {"acme"}) EXCEPT !.denies = TRUE, !.shape = "plain"],
       [Role("colorado", {"colorado"}) EXCEPT !.shape = "split"],
       [Plain({"partner"}) EXCEPT !.shape = "role"]>>}

Page(url, kind, says) ==
    [url |-> url, kind |-> kind, names |-> TRUE, says |-> says, company |-> {},
     location |-> {}, lead |-> None, own |-> {}, host |-> None]

Item(url, says, qid) == [Page(url, "wikidata", says) EXCEPT !.lead = qid]
Profile(url, says) ==
    [Page(url, "github", says) EXCEPT !.lead = "octo", !.company = says \cap {"acme"},
                                      !.location = says \cap {"austin"}]
Filing(url, own) ==
    [Page(url, "edgar", {"acme", "partner"}) EXCEPT !.lead = "cik0", !.own = own]

\* A filing that search found too, another filer's, an item about them.
Filings ==
    << <<Page(1, "search", {"acme"}), Page(2, "self_page", {"greylock", "pinterest"})>>,
       <<Filing(3, {"cik2"}), Filing(1, {"cik1"})>>,
       <<Item(4, {"austin", "partner"}, "Q1"), Page(2, "search", {"partner"})>> >>
\* The item of somebody else of that name.
Decoys ==
    << <<Item(1, {"acme", "colorado"}, "Q1"),
         Item(2, {"acme", "austin", "colorado", "other employer", "other city"}, "Q2")>>,
       Failed,
       <<[Page(4, "self_page", {"pinterest", "partner"}) EXCEPT !.host = <<"acme", "com">>],
         Page(3, "search", {"acme"})>> >>
\* Two hosts that bear the employer's name, and one that bears a city's.
Hosts ==
    << <<[Page(1, "search", {"acme"}) EXCEPT !.host = <<"acme", "com">>],
         [Page(2, "search", {"colorado"}) EXCEPT !.host = <<"colorado", "io">>],
         Page(3, "search", {"acme", "austin"})>>,
       <<Blank, [Page(4, "self_page", {"acme", "austin"}) EXCEPT !.names = FALSE,
                                                         !.host = <<"acme", "io">>]>> >>
\* A profile, and two pages that quote one detail in different words.
Firms ==
    << <<Page(1, "search", {"greylock", "partner"}), Page(2, "search", {"austin"})>>,
       <<Profile(3, {"acme", "austin", "greylock", "pinterest"})>>,
       <<Page(4, "self_page", {"pinterest"})>> >>
MCFound == {Filings, Decoys, Hosts, Firms}

Says(match, evidence, label, confidence) ==
    [match |-> match, evidence |-> evidence, label |-> label, confidence |-> confidence]
MCReply ==
    {Says("yes", {"acme"}, {"company"}, 2),
     Says("yes", {"acme"}, {"handle"}, 1),
     Says("yes", {"austin"}, {"city"}, 3),
     Says("yes", {"greylock"}, {"title"}, 1),
     Says("yes", {"pinterest"}, {"aura"}, 1),
     Says("yes", {"partner"}, {"role"}, 1),
     Says("yes", {"colorado"}, {}, -1),
     Says("yes", {"acme", "austin", "other employer"}, {"employer"}, 1),
     Says("no", {"other city"}, {"location"}, 2)}
=============================================================================
