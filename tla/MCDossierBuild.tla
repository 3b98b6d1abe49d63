--------------------------- MODULE MCDossierBuild --------------------------
(* Three documents, two to a call; two facts to a classifier call.            *)
EXTENDS DossierBuild

D(id, kind, text, qids, days) ==
    [id |-> id, kind |-> kind, title |-> <<>>, text |-> text, qids |-> qids, days |-> days]

\* The member's own item, which names the employer's too; a page of theirs; a filing.
MCDocs ==
    <<D("d1", "wikidata", <<"Ada", "founded", "Foundry", "in", "Boulder", ".",
                            "Ada", "acquired", "Foundry", ",", "Inc", ".",
                            "school", "of", "Ada", ".", "health", "of", "Ada">>,
        {<<4, 2>>, <<7>>}, 100),
      D("d2", "self_page", <<"Ada", "founded", "Foundry", "in", "Austin", ".",
                             "Ada", "lives in Place", "Boulder", ".",
                             "Ada", "backs", "venture", "capital">>, {}, Nothing),
      D("d3", "wikidata", <<"Foundry", "struggled", "as", "open", "source", ".",
                            "cancer", "company", ".", "Ada", "had", "cancer">>,
        {<<4, 2>>}, 2000)>>

MCSubject ==
    {[docs |-> MCDocs, details |-> <<<<"founder", "Boulder">>, <<",", "Colorado">>>>],
     [docs |-> MCDocs, details |-> <<<<"founder">>, <<"cyrillic">>>>]}

F(doc, id, text, quote, category) ==
    [doc |-> doc, id |-> id, text |-> text, quote |-> quote, category |-> category,
     natural |-> "affiliation", confidence |-> 9]
H(label, type, doc, evidence, qid) ==
    [label |-> label, type |-> type, doc |-> doc, evidence |-> evidence, qid |-> qid,
     field |-> FALSE]
Field(label, doc, evidence) == [H(label, "topic", doc, evidence, Nothing) EXCEPT !.field = TRUE]

Founded == <<"Ada", "founded", "Foundry">>
Acquired == F("d1", <<"a">>, <<"Ada", "acquired", "Foundry">>, <<"Ada", "acquired", "Foundry">>,
              "past_work")
School == F("d1", <<"b">>, <<"school", "of", "Ada">>, <<"school", "of", "Ada">>, "current_work")
Health == F("d1", <<"a">>, <<"health", "of", "Ada">>, <<"health", "of", "Ada">>, "non_obvious")
Lives == F("d2", <<"d1", 0>>, <<"Ada", "lives in Place", "Boulder">>,
           <<"Ada", "lives in Place", "Boulder">>, "non_obvious")
Guess(doc) == F(doc, <<"c">>, <<"Ada", "founded", "Foundry">>, Founded, "current_work")
Sector == F("d3", <<"d1", 0>>, <<"cancer", "company", ".", "Ada", "had", "cancer">>,
            <<"Foundry", "struggled", "as">>, "current_work")
Clean == F("d3", <<"e">>, <<"Foundry", "struggled">>, <<"had", "cancer">>, "current_work")

MCAnswer ==
    {\* a name two facts claim, two types of one thing, a QID of two
     [facts |-> <<Acquired, School, Health>>,
      hubs |-> <<H(<<"Foundry">>, "investor", "d1", <<<<"a">>>>, <<4, 2>>),
                 H(<<"Foundry">>, "company", "d1", <<<<"b">>>>, <<7>>),
                 H(<<"health">>, "cause", "d1", <<<<"a">>>>, Nothing),
                 H(<<"Boulder">>, "city", "d1", <<<<"d1", 0>>, <<"b">>>>, Nothing)>>,
      based_in |-> <<"Boulder", ",", "Colorado">>],
     \* a guess at our ids, a document the batch cannot tell
     [facts |-> <<Lives, Guess("d3"), Acquired, Guess("d2")>>,
      hubs |-> <<H(<<"Austin">>, "city", "d2", <<<<"c">>, <<"d1", 0>>>>, Nothing),
                 H(<<"Foundry", ",">>, "company", "d1", <<<<"a">>>>, Nothing),
                 H(<<"Foundry">>, "investor", "d2", <<>>, <<4, 2>>)>>,
      based_in |-> <<"cyrillic">>],
     \* a clause that hides another, a dirty quote, fields
     [facts |-> <<Sector, Clean, Guess("d1")>>,
      hubs |-> <<H(<<"Foundry">>, "company", "d3", <<<<"e">>, <<"d1", 0>>>>, <<4, 2>>),
                 Field(<<"seed", "venture", "capital">>, "d2", <<<<"c">>>>),
                 Field(<<"open", "source">>, "d3", <<<<"e">>, <<"c">>>>),
                 H(<<"ai">>, "topic", "d3", <<<<"e">>>>, Nothing)>>,
      based_in |-> Nothing],
     \* a guess at an id that a later batch may assign, a blank one
     [facts |-> <<[School EXCEPT !.id = <<"d3", 0>>],
                  F("d2", <<>>, <<"Ada", "backs", "venture", "capital">>,
                    <<"Ada", "backs", "venture">>, "interest"), Health, Acquired>>,
      hubs |-> <<Field(<<"venture", "capital">>, "d2", <<<<"d2", 0>>>>),
                 H(<<"Austin">>, "city", "d1", <<<<"d3", 0>>>>, Nothing),
                 Field(<<"open", "source">>, "d1", <<<<"b">>>>)>>,
      based_in |-> <<"Colorado">>]}

Rule(id, verdict) == [fact_id |-> id, verdict |-> verdict]
MCRuling == {Rule(<<"d1", 0>>, "keep"), Rule(<<"d1", 0>>, "health"), Rule(<<"d1", 1>>, "keep"),
             Rule(<<"d1", 2>>, "keep"), Rule(<<"d3", 1>>, "keep"), Rule(<<"d3", 1>>, "unsure")}
MCResponse == {<<>>} \cup {<<r>> : r \in MCRuling} \cup (MCRuling \X MCRuling)

MCLacking == {{}, {"lives in Place", "cancer"}}
MCVocabulary == {<<"venture", "capital">>, <<"open", "source">>}
MCStop == {<<"ai">>}
MCBlank == <<>>
MCName == {MCBlank} \cup {<<w>> : w \in {"a", "b", "c", "e"}}
                    \cup ({d.id : d \in Range(MCDocs)} \X (0 .. 2))
=============================================================================
