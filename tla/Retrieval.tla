----------------------------- MODULE Retrieval -----------------------------
(***************************************************************************)
(* What one person's documents are: BaseConnector.search and               *)
(* research._search_one per source, then research._fan_out.  A source's    *)
(* answer is a sequence of documents, Blank where a connector's own parser *)
(* made none, or Failed when it raised.  doc_id is a hash of the url, so   *)
(* the url stands for it.                                                  *)
(***************************************************************************)
EXTENDS Picks

CONSTANTS
    DISPLAY_PRIORITY,    \* connectors.DISPLAY_PRIORITY: source kinds, best first
    MAX_DOCS_TOTAL, DOCS_PER_CONNECTOR,     \* Budget
    Blank, Failed

ASSUME RetrievalAssumption ==
    /\ IsInjective(DISPLAY_PRIORITY)
    /\ {MAX_DOCS_TOTAL, DOCS_PER_CONNECTOR} \subseteq Nat \ {0}
    /\ Blank # Failed

Capped(docs, cap) == SubSeq(docs, 1, IF cap < Len(docs) THEN cap ELSE Len(docs))

\* One of each url, where it first stood.
Unique(docs) ==
    FoldLeft(LAMBDA kept, doc :
                 IF doc = Blank \/ \E i \in DOMAIN kept : kept[i].url = doc.url
                 THEN kept ELSE Append(kept, doc),
             <<>>, docs)

\* A source never answers with more than it was asked for, and a failure is silence.
SearchOne(answer) ==
    LET ask == IF DOCS_PER_CONNECTOR < MAX_DOCS_TOTAL THEN DOCS_PER_CONNECTOR
                                                      ELSE MAX_DOCS_TOTAL
    IN  IF answer = Failed THEN <<>> ELSE Capped(Unique(answer), ask)

\* _display_rank: a kind without a connector comes last.
DisplayRank(kind) ==
    IF \E r \in DOMAIN DISPLAY_PRIORITY : DISPLAY_PRIORITY[r] = kind
    THEN CHOOSE r \in DOMAIN DISPLAY_PRIORITY : DISPLAY_PRIORITY[r] = kind
    ELSE Len(DISPLAY_PRIORITY) + 1

\* _by_display_priority: of several copies of a page the best-ranked kind's, the first
\* of them on a tie.
Winner(batches, url) ==
    LET all == FlattenSeq(batches)
        copies == Within(all, {doc \in ToSet(all) : doc.url = url})
    IN  FoldLeft(LAMBDA best, doc : IF DisplayRank(doc.kind) < DisplayRank(best.kind)
                                    THEN doc ELSE best,
                 copies[1], copies)

\* The nth document of every source that has one.
Column(batches, n) ==
    LET having == Within([s \in DOMAIN batches |-> s],
                         {s \in DOMAIN batches : Len(batches[s]) >= n})
    IN  [k \in DOMAIN having |-> batches[having[k]][n]]

\* Mutant: one source after the other.
SourceAfterSource(batches) == FlattenSeq(batches)

RoundRobin(batches) ==
    FlattenSeq([n \in 1 .. DOCS_PER_CONNECTOR |-> Column(batches, n)])

\* _interleave: the place is the round-robin's call, the copy is the priority's.
InterleaveDocs(batches) ==
    LET places == Unique(RoundRobin(batches))
    IN  Capped([i \in DOMAIN places |-> Winner(batches, places[i].url)], MAX_DOCS_TOTAL)

Batches(answers) == [s \in DOMAIN answers |-> SearchOne(answers[s])]

FanOut(answers) == InterleaveDocs(Batches(answers))
=============================================================================
