---------------------------- MODULE DossierStore ----------------------------
(***************************************************************************)
(* Who a typed name or id reaches: research.load_roster gives the people   *)
(* of a roster their ids, the build commits a file per id, and web.store's *)
(* DossierStore reads the files in order of their names and indexes them.  *)
(*                                                                         *)
(* A slug is the sequence of its words, a word its rank in string order:   *)
(* digits come before letters, and 2, 3, .. stand for themselves.          *)
(***************************************************************************)
EXTENDS Naturals, Sequences, SequencesExt

\* The entries of the roster that name somebody: the slugs of the id they declare, of
\* their name and of their first detail, <<>> where there is none.
CONSTANT Entries

Slug == Seq(Nat)
Entry == [declared : Slug, name : Slug, detail : Slug]

ASSUME StoreAssumption == Entries \in Seq(Entry)

------------------------------------------------------------------------------
(* research._person_from                                                    *)

Numbered(slug, n) == IF n = 1 THEN slug ELSE Append(slug, n)

\* The declared id or the name's; taken, it is told apart by the first detail, and then
\* by a number.
PersonId(entry, taken) ==
    LET id == IF entry.declared # <<>> THEN entry.declared ELSE entry.name
        free == {n \in 1 .. Len(Entries) + 1 : Numbered(id \o entry.detail, n) \notin taken}
    IN  IF id \notin taken THEN id
        ELSE Numbered(id \o entry.detail, CHOOSE n \in free : \A m \in free : n <= m)

\* Whoever has no id is skipped.
Enrolled(people, entry) ==
    LET id == PersonId(entry, {people[i].id : i \in DOMAIN people})
    IN  IF id = <<>> THEN people ELSE Append(people, [id |-> id, name |-> entry.name])

LoadRoster == FoldLeft(Enrolled, <<>>, Entries)

------------------------------------------------------------------------------
(* DossierStore                                                             *)

\* The first word in which they differ comes earlier in a.
Earlier(a, b) ==
    \E i \in DOMAIN a \cap DOMAIN b : a[i] < b[i] /\ \A j \in 1 .. i - 1 : a[j] = b[j]

\* a is b and more words.
GoesOn(a, b) == Len(b) < Len(a) /\ \A j \in DOMAIN b : a[j] = b[j]

\* The order of ids as strings; files read in it would be a mutant.
StringBefore(a, b) == Earlier(a, b) \/ GoesOn(b, a)

\* sorted(glob("*.json")): "-" sorts before ".", so of two ids the one that goes on is
\* read first.
FileBefore(a, b) == Earlier(a, b) \/ GoesOn(a, b)

\* The dossiers indexed under a slug, by their id or by their name.
Claiming(corpus, slug) == {q \in corpus : slug \in {q.id, q.name}}

\* DossierStore.resolve: the last of them to be indexed, <<>> when there is none.
ResolveToken(corpus, slug) ==
    IF slug = <<>> \/ Claiming(corpus, slug) = {} THEN <<>>
    ELSE (CHOOSE q \in Claiming(corpus, slug) :
              \A r \in Claiming(corpus, slug) : r = q \/ FileBefore(r.id, q.id)).id
=============================================================================
