---------------------------- MODULE MCHttpFetch ----------------------------
(* Two pages, one of them also asked for with a credential and by another     *)
(* method, and a search endpoint whose requests differ in nothing but their   *)
(* body; cache directories that are empty, torn, or hold a file of any kind   *)
(* under the name that three of those requests had before T-025.              *)
EXTENDS HttpFetch, TLC

MCUrl == {"page", "feed", "search"}
MCVerb == {"GET", "POST"}
MCHeaders == {NoHeaders, "token"}
MCBody == {NoBody, "ann", "bob"}

Asks(verb, url, headers, body) ==
    [verb |-> verb, url |-> url, headers |-> headers, body |-> body]

MCRequest ==
    {Asks("GET", "page", NoHeaders, NoBody), Asks("GET", "page", "token", NoBody),
     Asks("GET", "feed", NoHeaders, NoBody), Asks("POST", "page", NoHeaders, NoBody),
     Asks("POST", "search", "token", "ann"), Asks("POST", "search", "token", "bob")}
OnlyThePage == {Asks("GET", "page", NoHeaders, NoBody)}

Empty == [k \in Key |-> Missing]
MCDirectory ==
    {Empty, [k \in Key |-> Torn]}
    \cup {[Empty EXCEPT ![<<"page">>] = file] : file \in Left(<<"page">>)}
OnlyEmpty == {Empty}

Alike == Permutations(Fetch)
=============================================================================
