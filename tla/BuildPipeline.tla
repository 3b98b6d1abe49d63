--------------------------- MODULE BuildPipeline ---------------------------
(***************************************************************************)
(* arrival.research: `python -m arrival build`.  One process goes through  *)
(* the roster one person at a time: retrieve, resolve, extract, then the   *)
(* cited documents are written and last of all the dossier.  The process   *)
(* may be killed between any two of those steps and run again, with or     *)
(* without --force, over what the earlier run left on disk.                *)
(*                                                                         *)
(* A document's text is abstracted to the version a fetch saw: the same    *)
(* URL, hence the same doc_id, may read differently for another person or  *)
(* on another day.                                                         *)
(***************************************************************************)
EXTENDS Integers, FiniteSets, Sequences, SequencesExt

CONSTANTS
    Roster,              \* load_roster: a sequence of distinct person ids
    Doc,                 \* document ids
    Unsafe,              \* those that are no file name: _safe_segment refuses them
    Version,             \* what the text of a document may read
    MAX_LLM_CALLS,       \* Budget.max_llm_calls
    MaxRuns,             \* bound: invocations of the command
    Gone, None, Unreadable

Person == ToSet(Roster)

\* Texts read: for some of the documents, what each said.
Texts == UNION {[D -> Version] : D \in SUBSET Doc}

\* What a dossier says of documents: which are accepted (with the text that was
\* read, which its quotes repeat) and which of them its facts quote.
Dossier ==
    [status : {"resolved", "unresolved"},
     cites : Texts,
     facts : SUBSET Doc]

ASSUME PipelineAssumption ==
    /\ Roster \in Seq(Person) /\ IsInjective(Roster)
    /\ IsFiniteSet(Doc) /\ Unsafe \subseteq Doc
    /\ MAX_LLM_CALLS \in Nat /\ MaxRuns \in Nat
    /\ Gone \notin Version
    /\ None \notin Dossier \cup {0, 1, 2} /\ Unreadable \notin Dossier

VARIABLES
    dossiers,            \* out_dir/{person_id}.json
    docs,                \* out_dir/../docs/{doc_id}.json
    pc,                  \* "idle", "picking", "retrieving", "resolving",
                         \* "extracting", "checking" or "committing"
    force, todo,         \* --force, and the selected people not yet done
    found,               \* trace.documents: doc id -> the text read
    used, errors,        \* _BudgetedClient's counters
    dossier,             \* the dossier in hand
    unwritten,           \* accepted documents not yet written
    rows,                \* per person: the report row of this run
    exit,                \* the exit code of the last run to finish
    runs,
    before,              \* observer: the disk when the build of p began, or None
    lost                 \* observer: documents somebody removed
disk == <<dossiers, docs>>
trace == <<found, used, errors>>
run == <<force, runs>>
vars == <<disk, pc, todo, trace, dossier, unwritten, rows, exit, run, before, lost>>

Nobody == [status |-> "unresolved", cites |-> <<>>, facts |-> {}]
p == Head(todo)          \* the person being built

------------------------------------------------------------------------------
(* The command, and skipping what is already built                          *)

Init ==
    /\ dossiers = [q \in Person |-> None]
    /\ docs = [d \in Doc |-> Gone]
    /\ pc = "idle" /\ force = FALSE /\ todo = <<>>
    /\ found = <<>> /\ used = 0 /\ errors = 0
    /\ dossier = Nobody /\ unwritten = {}
    /\ rows = [q \in Person |-> "none"]
    /\ exit = None /\ runs = 0
    /\ before = None /\ lost = {}

\* build [--only person] [--force]: everybody, the people of that name or id, or
\* nobody, in the order of the roster.
Start(forced) ==
    /\ pc = "idle" /\ runs < MaxRuns
    /\ runs' = runs + 1
    /\ pc' = "picking"
    /\ force' = forced
    /\ \E n \in 0 .. Len(Roster) : \E at \in [1 .. n -> 1 .. Len(Roster)] :
         /\ \A i, j \in 1 .. n : i < j => at[i] < at[j]
         /\ todo' = [i \in 1 .. n |-> Roster[at[i]]]
    /\ rows' = [q \in Person |-> "none"]
    /\ exit' = None
    /\ UNCHANGED <<disk, trace, dossier, unwritten, before, lost>>

\* _existing_row: readable, and every accepted document beside it; one whose id is no
\* file name never is.
Readable(q) == dossiers[q] \notin {None, Unreadable}
ExistsIsEnough(q) == Readable(q)                                      \* mutant
AlreadyBuilt(q) ==
    Readable(q) /\ \A d \in DOMAIN dossiers[q].cites : docs[d] # Gone

Skip ==
    /\ pc = "picking" /\ todo # <<>>
    /\ ~force /\ AlreadyBuilt(p)
    /\ rows' = [rows EXCEPT ![p] = "skipped"]
    /\ todo' = Tail(todo)
    /\ UNCHANGED <<disk, pc, trace, dossier, unwritten, exit, run, before, lost>>

Build ==
    /\ pc = "picking" /\ todo # <<>>
    /\ force \/ ~AlreadyBuilt(p)
    /\ pc' = "retrieving"
    /\ before' = [dossiers |-> dossiers, docs |-> docs]
    /\ UNCHANGED <<disk, todo, trace, dossier, unwritten, rows, exit, run, lost>>

------------------------------------------------------------------------------
(* build_dossier                                                            *)

\* _fan_out: each source answers, finds nothing or fails; one copy per doc id.
Retrieve ==
    /\ pc = "retrieving"
    /\ found' \in Texts
    /\ used' = 0 /\ errors' = 0
    /\ pc' = "resolving"
    /\ UNCHANGED <<disk, todo, dossier, unwritten, rows, exit, run, before, lost>>

\* How many of n wanted calls the budget lets through.
Metered(n) == IF n < MAX_LLM_CALLS - used THEN n ELSE MAX_LLM_CALLS - used

\* resolve: one call per document while the budget lasts; a document whose call
\* failed or was refused is `unsure`.  Accepting some may or may not be enough to
\* resolve the person; an unresolved one keeps no document and no fact.
AcceptedIf(status, accepted) == IF status = "resolved" THEN accepted ELSE {}

Resolve ==
    /\ pc = "resolving"
    /\ used' = used + Metered(Cardinality(DOMAIN found))
    /\ \E answered \in SUBSET DOMAIN found, status \in {"resolved", "unresolved"} :
         \E accepted \in SUBSET answered :
           /\ Cardinality(answered) <= used'
           /\ errors' = used' - Cardinality(answered)
           /\ status = "resolved" => accepted # {}
           /\ LET kept == AcceptedIf(status, accepted)
              IN  dossier' = [status |-> status, facts |-> {},
                              cites |-> [d \in kept |-> found[d]]]
    /\ pc' = "extracting"
    /\ UNCHANGED <<disk, todo, found, unwritten, rows, exit, run, before, lost>>

\* extract and apply_taste on the accepted documents, unless there is nobody to
\* write about or nothing left to spend.  Failed calls leave fewer facts.
Extract ==
    /\ pc = "extracting"
    /\ IF dossier.status = "resolved" /\ used < MAX_LLM_CALLS
       THEN \E calls \in 1 .. 2 : \E failed \in 0 .. Metered(calls) :
              /\ used' = used + Metered(calls)
              /\ errors' = errors + failed
              /\ \E facts \in SUBSET DOMAIN dossier.cites :
                   /\ failed = Metered(calls) => facts = {}
                   /\ dossier' = [dossier EXCEPT !.facts = facts]
       ELSE UNCHANGED <<used, errors, dossier>>
    /\ pc' = "checking"
    /\ UNCHANGED <<disk, todo, found, unwritten, rows, exit, run, before, lost>>

------------------------------------------------------------------------------
(* Committing one person                                                    *)

\* This person's locals go out of scope.
NextPerson ==
    /\ pc' = "picking" /\ todo' = Tail(todo)
    /\ found' = <<>> /\ used' = 0 /\ errors' = 0
    /\ dossier' = Nobody /\ unwritten' = {}
    /\ before' = None

EveryCallFailed == used > 0 /\ errors = used

\* An unreachable model: a failed row, and nothing is written.
DeadModel ==
    /\ pc = "checking"
    /\ EveryCallFailed
    /\ rows' = [rows EXCEPT ![p] = "failed"]
    /\ NextPerson
    /\ UNCHANGED <<disk, exit, run, lost>>

\* Mutant: a dossier that says nothing is committed like any other.
CommitAnyway ==
    /\ pc = "checking"
    /\ unwritten' = DOMAIN dossier.cites
    /\ pc' = "committing"
    /\ UNCHANGED <<disk, todo, trace, dossier, rows, exit, run, before, lost>>

Commit ==
    /\ pc = "checking"
    /\ ~EveryCallFailed
    /\ unwritten' = DOMAIN dossier.cites
    /\ pc' = "committing"
    /\ UNCHANGED <<disk, todo, trace, dossier, rows, exit, run, before, lost>>

\* _write_json is write-beside-then-rename: the old file or the new one.
WriteDoc(d) ==
    /\ pc = "committing" /\ d \in unwritten \ Unsafe
    /\ docs' = [docs EXCEPT ![d] = dossier.cites[d]]
    /\ unwritten' = unwritten \ {d}
    /\ UNCHANGED <<dossiers, pc, todo, trace, dossier, rows, exit, run, before, lost>>

\* A document whose id is no file name is passed over; the dossier goes on citing it.
RefuseDoc(d) ==
    /\ pc = "committing" /\ d \in unwritten \cap Unsafe
    /\ unwritten' = unwritten \ {d}
    /\ UNCHANGED <<disk, pc, todo, trace, dossier, rows, exit, run, before, lost>>

\* Mutant: the dossier written as soon as it is known.
WriteDossierFirst ==
    /\ pc = "committing"
    /\ dossiers' = [dossiers EXCEPT ![p] = dossier]
    /\ rows' = [rows EXCEPT ![p] = "built"]
    /\ NextPerson
    /\ UNCHANGED <<docs, exit, run, lost>>

WriteDossier ==
    /\ pc = "committing" /\ unwritten = {}
    /\ dossiers' = [dossiers EXCEPT ![p] = dossier]
    /\ rows' = [rows EXCEPT ![p] = "built"]
    /\ NextPerson
    /\ UNCHANGED <<docs, exit, run, lost>>

\* Mutant: the person is tried again instead of reported.
RetriesForEver ==
    /\ pc \in {"retrieving", "resolving", "extracting", "committing"}
    /\ pc' = "picking"
    /\ UNCHANGED <<disk, todo, trace, dossier, unwritten, rows, exit, run, before, lost>>

\* A bug in a stage or a disk error costs this person and nobody else.
Raise ==
    /\ pc \in {"retrieving", "resolving", "extracting", "committing"}
    /\ rows' = [rows EXCEPT ![p] = "failed"]
    /\ NextPerson
    /\ UNCHANGED <<disk, exit, run, lost>>

\* build_command's exit code: 2 when --only matched nobody, 1 when someone failed.
Finish ==
    /\ pc = "picking" /\ todo = <<>>
    /\ exit' = IF \A q \in Person : rows[q] = "none" THEN 2
               ELSE IF \E q \in Person : rows[q] = "failed" THEN 1 ELSE 0
    /\ pc' = "idle"
    /\ UNCHANGED <<disk, todo, trace, dossier, unwritten, rows, run, before, lost>>

------------------------------------------------------------------------------
(* The world                                                                *)

Kill ==
    /\ pc # "idle"
    /\ pc' = "idle" /\ todo' = <<>>
    /\ found' = <<>> /\ used' = 0 /\ errors' = 0
    /\ dossier' = Nobody /\ unwritten' = {}
    /\ before' = None
    /\ rows' = [q \in Person |-> "none"]
    /\ UNCHANGED <<disk, exit, run, lost>>

\* Between runs a document is deleted, or a dossier is damaged; what the last exit
\* code said of the disk no longer counts.  Bound: one of each.
Lose(d) ==
    /\ pc = "idle" /\ docs[d] # Gone /\ lost = {}
    /\ docs' = [docs EXCEPT ![d] = Gone]
    /\ lost' = {d}
    /\ exit' = None
    /\ UNCHANGED <<dossiers, pc, todo, trace, dossier, unwritten, rows, run, before>>

Damage(q) ==
    /\ pc = "idle" /\ Readable(q) /\ \A r \in Person : dossiers[r] # Unreadable
    /\ dossiers' = [dossiers EXCEPT ![q] = Unreadable]
    /\ exit' = None
    /\ UNCHANGED <<docs, pc, todo, trace, dossier, unwritten, rows, run, before, lost>>

Step ==
    \/ Skip \/ Build \/ Retrieve \/ Resolve \/ Extract \/ DeadModel \/ Commit
    \/ (\E d \in Doc : WriteDoc(d) \/ RefuseDoc(d)) \/ WriteDossier \/ Raise \/ Finish

Next ==
    \/ \E forced \in BOOLEAN : Start(forced)
    \/ Step
    \/ Kill
    \/ \E d \in Doc : Lose(d)
    \/ \E q \in Person : Damage(q)

\* The process keeps running: every connector and every model call it awaits
\* returns or raises within its own timeout.
Spec == Init /\ [][Next]_vars /\ WF_vars(Step)

------------------------------------------------------------------------------
TypeOK ==
    /\ dossiers \in [Person -> Dossier \cup {None, Unreadable}]
    /\ docs \in [Doc -> Version \cup {Gone}]
    /\ pc \in {"idle", "picking", "retrieving", "resolving", "extracting",
              "checking", "committing"}
    /\ force \in BOOLEAN
    /\ todo \in Seq(Person)
    /\ pc \notin {"idle", "picking"} => todo # <<>>
    /\ found \in Texts
    /\ used \in 0 .. MAX_LLM_CALLS /\ errors \in 0 .. used
    /\ dossier \in Dossier
    /\ unwritten \in SUBSET DOMAIN dossier.cites
    /\ rows \in [Person -> {"none", "skipped", "built", "failed"}]
    /\ exit \in {None, 0, 1, 2}
    /\ runs \in 0 .. MaxRuns
    /\ before \in {None} \cup [dossiers : [Person -> Dossier \cup {None, Unreadable}],
                              docs : [Doc -> Version \cup {Gone}]]
    /\ lost \in SUBSET Doc

\* Wherever the build is killed or fails, a readable dossier on disk has every document it
\* cites beside it, unless somebody removed that document or its id is no file name; and
\* under such an id nothing is ever written.
CitedDocsOnDisk ==
    /\ \A q \in Person : Readable(q) =>
         \A d \in DOMAIN dossiers[q].cites : docs[d] # Gone \/ d \in lost \cup Unsafe
    /\ \A d \in Unsafe : docs[d] = Gone

\* R2 and the citation chain: an unresolved person has no document and no fact on
\* disk, and a fact quotes only documents the resolver accepted.
NothingUnaccepted ==
    \A q \in Person : Readable(q) =>
        /\ dossiers[q].status = "unresolved" => DOMAIN dossiers[q].cites = {}
        /\ dossiers[q].facts \subseteq DOMAIN dossiers[q].cites

\* What exit 0 says of the disk: everybody the run selected has a readable dossier there.
\* Whoever was skipped has all its documents; whoever was built has those whose ids are
\* file names, and goes on being built by every run while one of them is not.
CleanExitMeansBuilt ==
    pc = "idle" /\ exit = 0 =>
        \A q \in Person : rows[q] # "none" =>
            /\ rows[q] # "failed" /\ Readable(q)
            /\ \A d \in DOMAIN dossiers[q].cites :
                 docs[d] # Gone \/ (rows[q] = "built" /\ d \in Unsafe)

\* What the build of one person leaves behind.  A failed one leaves every dossier as it
\* found it, a finished one replaces its own only.  Documents are written first, so either
\* may have changed some: those accepted for this person, to the text just read.  Where
\* every model call failed nothing at all has changed, and the person is reported as
\* failed: a dossier committed then would be skipped ever after.
LeftBehind(q) ==
    /\ \A r \in Person : (r = q /\ rows'[q] = "built") \/ dossiers'[r] = before.dossiers[r]
    /\ \A d \in Doc :
         \/ docs'[d] = before.docs[d]
         \/ d \in DOMAIN dossier.cites \ Unsafe /\ docs'[d] = dossier.cites[d]
    /\ EveryCallFailed =>
         rows'[q] = "failed" /\ \A d \in Doc : docs'[d] = before.docs[d]

FailedKeepTheirDossier ==
    [][\A q \in Person :
         rows[q] = "none" /\ rows'[q] \in {"built", "failed"} => LeftBehind(q)]_vars

\* One person's failure never costs the run: it ends, unless it is killed.
EveryRunEnds == pc = "picking" ~> pc = "idle"

\* build_all's docstring, "so a committed dossier's citations can be checked
\* offline months later without re-fetching anything": the text beside a dossier
\* is the text its quotes were taken from.
CitationsCheckable ==
    \A q \in Person : Readable(q) =>
        \A d \in DOMAIN dossiers[q].cites :
            docs[d] \in {dossiers[q].cites[d], Gone}
=============================================================================
