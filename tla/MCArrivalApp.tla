---------------------------- MODULE MCArrivalApp ----------------------------
(* Three people, all in the graph: Dana, another Dana of Acme and a Dana Acme *)
(* by name, who is told apart by a number; and a name nobody answers to.      *)
EXTENDS ServedRoster

CONSTANT NoOne

acme == 11
dana == 12
Named(name, detail) == [declared |-> <<>>, name |-> name, detail |-> detail]
MCEntries ==
    <<Named(<<dana>>, <<>>), Named(<<dana>>, <<acme>>), Named(<<dana, acme>>, <<>>)>>

MCPerson == 1 .. 3
MCToken == {q.id : q \in Corpus} \cup {<<acme>>}
MCResolve == [t \in MCToken |-> Reached(t)]
AllMatchable == MCPerson

\* 2 and 3 share more than 1 and either; 1 ties, so ids break the tie.
MCRaw == [pair \in MCPerson \X MCPerson |->
            IF pair \in {<<2, 3>>, <<3, 2>>} THEN 5 ELSE 1]
=============================================================================
