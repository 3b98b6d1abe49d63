------------------------ MODULE BuildPipelineProofs ------------------------
(* Proofs about BuildPipeline, for every roster, set of documents and budget. *)
EXTENDS BuildPipeline, FiniteSetTheorems, TLAPS

\* What membership of Dossier says, field by field.
LEMMA DossierShape ==
    ASSUME NEW x \in Dossier
    PROVE  /\ x.status \in {"resolved", "unresolved"}
           /\ DOMAIN x.cites \subseteq Doc
           /\ x.cites \in [DOMAIN x.cites -> Version]
           /\ x.facts \subseteq Doc
BY DEF Dossier, Texts

\* A map from documents to texts, whichever documents it is defined on.
LEMMA TextsShape ==
    ASSUME NEW f \in Texts
    PROVE  /\ DOMAIN f \subseteq Doc
           /\ f \in [DOMAIN f -> Version]
           /\ Cardinality(DOMAIN f) \in Nat
<1>1. DOMAIN f \subseteq Doc /\ f \in [DOMAIN f -> Version]
  BY DEF Texts
<1>2. IsFiniteSet(DOMAIN f)
  BY <1>1, PipelineAssumption, FS_Subset
<1>3. QED
  BY <1>1, <1>2, FS_CardinalityType

\* No call is let through beyond the budget.
LEMMA MeteredType ==
    ASSUME NEW n \in Nat, MAX_LLM_CALLS \in Nat, used \in 0 .. MAX_LLM_CALLS
    PROVE  /\ Metered(n) \in 0 .. n
           /\ used + Metered(n) \in 0 .. MAX_LLM_CALLS
BY DEF Metered

\* The empty dossier a run starts each person from.
LEMMA NobodyIsADossier ==
    /\ <<>> \in Texts
    /\ Nobody \in Dossier /\ DOMAIN Nobody.cites = {}
<1>1. <<>> \in [{} -> Version] /\ DOMAIN <<>> = {}
  OBVIOUS
<1>2. <<>> \in Texts
  BY <1>1 DEF Texts
<1>3. QED
  BY <1>1, <1>2 DEF Nobody, Dossier

\* The person in hand is on the roster, and the rest of the queue follows.
LEMMA QueueType ==
    ASSUME todo \in Seq(Person), todo # <<>>
    PROVE  /\ p \in Person
           /\ Tail(todo) \in Seq(Person)
BY DEF p

LEMMA NextPersonType ==
    ASSUME TypeOK, NextPerson, todo # <<>>
    PROVE  /\ pc' = "picking" /\ todo' \in Seq(Person)
           /\ found' \in Texts
           /\ used' \in 0 .. MAX_LLM_CALLS /\ errors' \in 0 .. used'
           /\ dossier' \in Dossier
           /\ unwritten' \in SUBSET DOMAIN dossier'.cites
           /\ before' = None
BY NobodyIsADossier, QueueType, PipelineAssumption DEF NextPerson, TypeOK

\* Documents are left to write only while a person is being committed: what keeps
\* `unwritten` inside the dossier in hand when the resolver replaces it.
OnlyWhileCommitting == pc # "committing" => unwritten = {}

Typed == TypeOK /\ OnlyWhileCommitting

\* Every reachable state is well typed, and writes are pending only in a commit.
THEOREM TypeCorrect == Spec => [](TypeOK /\ OnlyWhileCommitting)
<1> USE PipelineAssumption
<1>1. Init => TypeOK /\ OnlyWhileCommitting
  <2> SUFFICES ASSUME Init PROVE TypeOK /\ OnlyWhileCommitting
    OBVIOUS
  <2>1. /\ dossiers \in [Person -> Dossier \cup {None, Unreadable}]
        /\ docs \in [Doc -> Version \cup {Gone}]
        /\ rows \in [Person -> {"none", "skipped", "built", "failed"}]
    BY DEF Init
  <2>2. /\ todo \in Seq(Person) /\ found \in Texts /\ dossier \in Dossier
        /\ unwritten \in SUBSET DOMAIN dossier.cites
    BY NobodyIsADossier DEF Init
  <2>3. used \in 0 .. MAX_LLM_CALLS /\ errors \in 0 .. used /\ runs \in 0 .. MaxRuns
    BY DEF Init
  <2>4. QED
    BY <2>1, <2>2, <2>3 DEF Init, TypeOK, OnlyWhileCommitting
<1>2. TypeOK /\ OnlyWhileCommitting /\ [Next]_vars => (TypeOK /\ OnlyWhileCommitting)'
  <2> SUFFICES ASSUME TypeOK, OnlyWhileCommitting, [Next]_vars
               PROVE  (TypeOK /\ OnlyWhileCommitting)'
    OBVIOUS
  <2> USE DEF TypeOK, OnlyWhileCommitting, disk, trace, run
  <2>1. ASSUME NEW forced \in BOOLEAN, Start(forced)
        PROVE  (TypeOK /\ OnlyWhileCommitting)'
    <3>1. PICK n \in 0 .. Len(Roster) : \E at \in [1 .. n -> 1 .. Len(Roster)] :
             todo' = [i \in 1 .. n |-> Roster[at[i]]]
      BY <2>1 DEF Start
    <3>2. PICK at \in [1 .. n -> 1 .. Len(Roster)] :
             todo' = [i \in 1 .. n |-> Roster[at[i]]]
      BY <3>1
    <3>3. \A i \in 1 .. n : Roster[at[i]] \in Person
      BY <3>2
    <3>4. todo' \in Seq(Person)
      BY <3>2, <3>3
    <3>5. QED
      BY <2>1, <3>4 DEF Start
  <2>2. CASE Skip
    BY <2>2, QueueType DEF Skip
  <2>3. CASE Build
    BY <2>3 DEF Build
  <2>4. CASE Retrieve
    BY <2>4 DEF Retrieve
  <2>5. CASE Resolve
    <3> DEFINE n == Cardinality(DOMAIN found)
    <3>1. n \in Nat /\ DOMAIN found \subseteq Doc /\ found \in [DOMAIN found -> Version]
      BY TextsShape
    <3>2. used' = used + Metered(n)
      BY <2>5 DEF Resolve
    <3> HIDE DEF n
    <3>3. used' \in 0 .. MAX_LLM_CALLS
      BY <3>1, <3>2, MeteredType
    <3>4. PICK answered \in SUBSET DOMAIN found, status \in {"resolved", "unresolved"} :
           \E accepted \in SUBSET answered :
             /\ Cardinality(answered) <= used'
             /\ errors' = used' - Cardinality(answered)
             /\ dossier' = [status |-> status, facts |-> {},
                            cites |-> [d \in AcceptedIf(status, accepted) |-> found[d]]]
      BY <2>5 DEF Resolve
    <3>5. PICK accepted \in SUBSET answered :
             dossier' = [status |-> status, facts |-> {},
                         cites |-> [d \in AcceptedIf(status, accepted) |-> found[d]]]
      BY <3>4
    <3>6. errors' \in 0 .. used'
      <4>1. IsFiniteSet(answered)
        BY <3>1, FS_Subset
      <4>2. Cardinality(answered) \in Nat
        BY <4>1, FS_CardinalityType
      <4>3. QED
        BY <3>3, <3>4, <4>2
    <3>7. dossier' \in Dossier
      <4> DEFINE kept == AcceptedIf(status, accepted)
      <4>1. kept \subseteq DOMAIN found /\ kept \subseteq Doc
        BY <3>1, <3>5 DEF AcceptedIf
      <4> HIDE DEF kept
      <4>2. [d \in kept |-> found[d]] \in [kept -> Version]
        BY <3>1, <4>1
      <4>3. QED
        BY <3>5, <4>1, <4>2 DEF Dossier, Texts, kept
    <3>8. unwritten' = {} /\ pc' = "extracting"
      BY <2>5 DEF Resolve
    <3>9. QED
      BY <2>5, <3>3, <3>6, <3>7, <3>8 DEF Resolve
  <2>6. CASE Extract
    <3>1. CASE dossier.status = "resolved" /\ used < MAX_LLM_CALLS
      <4>1. PICK calls \in 1 .. 2 : \E failed \in 0 .. Metered(calls) :
              /\ used' = used + Metered(calls)
              /\ errors' = errors + failed
              /\ \E facts \in SUBSET DOMAIN dossier.cites :
                   dossier' = [dossier EXCEPT !.facts = facts]
        BY <2>6, <3>1 DEF Extract
      <4>2. PICK failed \in 0 .. Metered(calls) :
              /\ used' = used + Metered(calls)
              /\ errors' = errors + failed
              /\ \E facts \in SUBSET DOMAIN dossier.cites :
                   dossier' = [dossier EXCEPT !.facts = facts]
        BY <4>1
      <4>3. used' \in 0 .. MAX_LLM_CALLS /\ errors' \in 0 .. used'
        BY <4>2, MeteredType
      <4>4. PICK facts \in SUBSET DOMAIN dossier.cites :
              dossier' = [dossier EXCEPT !.facts = facts]
        BY <4>2
      <4>5. dossier' \in Dossier /\ dossier'.cites = dossier.cites
        BY <4>4, DossierShape DEF Dossier
      <4>6. QED
        BY <2>6, <4>3, <4>5 DEF Extract
    <3>2. CASE ~(dossier.status = "resolved" /\ used < MAX_LLM_CALLS)
      BY <2>6, <3>2 DEF Extract
    <3>3. QED
      BY <3>1, <3>2
  <2>7. CASE DeadModel
    <3>1. todo # <<>> /\ NextPerson /\ rows' = [rows EXCEPT ![p] = "failed"]
      BY <2>7 DEF DeadModel
    <3>2. QED
      BY <2>7, <3>1, NextPersonType DEF DeadModel, NextPerson
  <2>8. CASE Commit
    BY <2>8 DEF Commit
  <2>9. ASSUME NEW d \in Doc, WriteDoc(d) \/ RefuseDoc(d)
        PROVE  (TypeOK /\ OnlyWhileCommitting)'
    <3>1. d \in DOMAIN dossier.cites
      BY <2>9 DEF WriteDoc, RefuseDoc
    <3>2. dossier.cites[d] \in Version
      BY <3>1, DossierShape
    <3>3. QED
      BY <2>9, <3>2 DEF WriteDoc, RefuseDoc
  <2>10. CASE WriteDossier
    <3>1. todo # <<>> /\ NextPerson
      BY <2>10 DEF WriteDossier
    <3>2. QED
      BY <2>10, <3>1, NextPersonType DEF WriteDossier, NextPerson
  <2>11. CASE Raise
    <3>1. todo # <<>> /\ NextPerson
      BY <2>11 DEF Raise
    <3>2. QED
      BY <2>11, <3>1, NextPersonType DEF Raise, NextPerson
  <2>12. CASE Finish
    BY <2>12 DEF Finish
  <2>13. CASE Kill
    BY <2>13, NobodyIsADossier DEF Kill
  <2>14. ASSUME NEW d \in Doc, Lose(d)
        PROVE  (TypeOK /\ OnlyWhileCommitting)'
    BY <2>14 DEF Lose
  <2>15. ASSUME NEW q \in Person, Damage(q)
        PROVE  (TypeOK /\ OnlyWhileCommitting)'
    BY <2>15 DEF Damage
  <2>16. CASE UNCHANGED vars
    BY <2>16 DEF vars
  <2>17. QED
    BY <2>1, <2>2, <2>3, <2>4, <2>5, <2>6, <2>7, <2>8, <2>9, <2>10, <2>11, <2>12,
       <2>13, <2>14, <2>15, <2>16 DEF Next, Step
<1>3. QED
  BY <1>1, <1>2, PTL DEF Spec

------------------------------------------------------------------------------
(* Citations on disk.  What a commit has crossed off its list is on disk or   *)
(* was refused for its name, so the dossier that is written when the list is  *)
(* empty finds the rest of it there.                                          *)

WrittenOnDisk ==
    pc = "committing" =>
        \A d \in DOMAIN dossier.cites \ (unwritten \cup Unsafe) : docs[d] # Gone

CitedInv == CitedDocsOnDisk /\ WrittenOnDisk

\* A commit in hand, and what is on disk, agree about every cited document.
LEMMA CitedInvHolds == Spec => []CitedInv
<1> USE PipelineAssumption
<1>1. Init => CitedInv
  BY DEF Init, CitedInv, CitedDocsOnDisk, WrittenOnDisk, Readable
<1>2. Typed /\ CitedInv /\ [Next]_vars => CitedInv'
  <2> SUFFICES ASSUME Typed, CitedInv, [Next]_vars
               PROVE  CitedInv'
    OBVIOUS
  <2> USE DEF CitedInv, CitedDocsOnDisk, WrittenOnDisk, Readable, disk, trace, run
  <2>1. ASSUME NEW forced \in BOOLEAN, Start(forced) PROVE CitedInv'
    BY <2>1 DEF Start
  <2>2. CASE Skip
    BY <2>2 DEF Skip
  <2>3. CASE Build
    BY <2>3 DEF Build
  <2>4. CASE Retrieve
    BY <2>4 DEF Retrieve
  <2>5. CASE Resolve
    BY <2>5 DEF Resolve
  <2>6. CASE Extract
    BY <2>6 DEF Extract
  <2>7. CASE DeadModel
    BY <2>7 DEF DeadModel, NextPerson
  <2>8. CASE Commit
    BY <2>8 DEF Commit
  <2>9. ASSUME NEW d \in Doc, WriteDoc(d) PROVE CitedInv'
    <3>1. dossier.cites[d] # Gone
      BY <2>9, DossierShape DEF WriteDoc, Typed, TypeOK
    <3>2. docs' = [docs EXCEPT ![d] = dossier.cites[d]] /\ docs \in [Doc -> Version \cup {Gone}]
      BY <2>9 DEF WriteDoc, Typed, TypeOK
    <3>3. \A e \in Doc : docs[e] # Gone => docs'[e] # Gone
      BY <3>1, <3>2
    <3>4. docs'[d] # Gone /\ d \notin Unsafe /\ \A e \in Doc : e # d => docs'[e] = docs[e]
      BY <2>9, <3>1, <3>2 DEF WriteDoc
    <3>5. \A q \in Person : Readable(q) => DOMAIN dossiers[q].cites \subseteq Doc
      BY DossierShape DEF Typed, TypeOK
    <3>6. DOMAIN dossier.cites \subseteq Doc
      BY DossierShape DEF Typed, TypeOK
    <3>7. UNCHANGED <<dossiers, lost, dossier, pc>> /\ pc = "committing" /\ unwritten' = unwritten \ {d}
      BY <2>9 DEF WriteDoc
    <3>8. \A e \in Unsafe : docs'[e] = Gone
      BY <3>4
    <3>9. CitedDocsOnDisk'
      BY <3>3, <3>5, <3>7, <3>8
    <3>10. WrittenOnDisk'
      BY <3>3, <3>4, <3>6, <3>7
    <3>11. QED
      BY <3>9, <3>10
  <2>18. ASSUME NEW d \in Doc, RefuseDoc(d) PROVE CitedInv'
    BY <2>18 DEF RefuseDoc
  <2>10. CASE WriteDossier
    <3>1. /\ dossiers' = [dossiers EXCEPT ![p] = dossier]
          /\ UNCHANGED <<docs, lost>> /\ pc' = "picking"
          /\ \A d \in DOMAIN dossier.cites : docs[d] # Gone \/ d \in Unsafe
      BY <2>10 DEF WriteDossier, NextPerson
    <3>2. \A q \in Person : dossiers'[q] = dossier \/ dossiers'[q] = dossiers[q]
      BY <3>1 DEF Typed, TypeOK
    <3>3. CitedDocsOnDisk'
      BY <3>1, <3>2
    <3>4. QED
      BY <3>1, <3>3
  <2>11. CASE Raise
    BY <2>11 DEF Raise, NextPerson
  <2>12. CASE Finish
    BY <2>12 DEF Finish
  <2>13. CASE Kill
    BY <2>13 DEF Kill
  <2>14. ASSUME NEW d \in Doc, Lose(d) PROVE CitedInv'
    <3>1. \A e \in Doc : docs'[e] = docs[e] \/ (e \in lost' /\ docs'[e] = Gone)
      BY <2>14 DEF Lose, Typed, TypeOK
    <3>2. \A q \in Person : Readable(q) => DOMAIN dossiers[q].cites \subseteq Doc
      BY DossierShape DEF Typed, TypeOK
    <3>3. UNCHANGED dossiers /\ pc' = "idle" /\ lost = {}
      BY <2>14 DEF Lose
    <3>4. QED
      BY <3>1, <3>2, <3>3
  <2>15. ASSUME NEW r \in Person, Damage(r) PROVE CitedInv'
    BY <2>15 DEF Damage, Typed, TypeOK
  <2>16. CASE UNCHANGED vars
    BY <2>16 DEF vars
  <2>17. QED
    BY <2>1, <2>2, <2>3, <2>4, <2>5, <2>6, <2>7, <2>8, <2>9, <2>10, <2>11, <2>12,
       <2>13, <2>14, <2>15, <2>16, <2>18 DEF Next, Step
<1>3. QED
  BY <1>1, <1>2, TypeCorrect, PTL DEF Spec, Typed

\* Wherever the build is killed or fails, a readable dossier has every document it cites
\* beside it, but for those somebody removed and those whose id is no file name, under
\* which nothing is ever written.
THEOREM CitedDocsHold == Spec => []CitedDocsOnDisk
BY CitedInvHolds, PTL DEF CitedInv

------------------------------------------------------------------------------
(* Nothing unaccepted is committed: the dossier in hand is already sound.     *)

Sound(x) ==
    /\ x.status = "unresolved" => DOMAIN x.cites = {}
    /\ x.facts \subseteq DOMAIN x.cites

SoundInv == NothingUnaccepted /\ Sound(dossier)

\* An unresolved dossier holds no document and no fact, and every fact quotes a
\* document the resolver accepted.
THEOREM NothingUnacceptedHolds == Spec => []NothingUnaccepted
<1> USE PipelineAssumption
<1>0. Sound(Nobody)
  BY NobodyIsADossier DEF Sound, Nobody
<1>1. Init => SoundInv
  BY <1>0 DEF Init, SoundInv, NothingUnaccepted, Readable
<1>2. Typed /\ SoundInv /\ [Next]_vars => SoundInv'
  <2> SUFFICES ASSUME Typed, SoundInv, [Next]_vars
               PROVE  SoundInv'
    OBVIOUS
  <2>0. ASSUME UNCHANGED dossiers, Sound(dossier') PROVE SoundInv'
    BY <2>0 DEF SoundInv, NothingUnaccepted, Readable, Sound
  <2>1. CASE Resolve
    <3>1. PICK status \in {"resolved", "unresolved"}, accepted \in SUBSET DOMAIN found :
             dossier' = [status |-> status, facts |-> {},
                         cites |-> [d \in AcceptedIf(status, accepted) |-> found[d]]]
      BY <2>1 DEF Resolve
    <3>2. Sound(dossier')
      BY <3>1 DEF Sound, AcceptedIf
    <3>3. QED
      BY <2>0, <2>1, <3>2 DEF Resolve, disk
  <2>2. CASE Extract
    <3>1. dossier' = dossier \/ \E facts \in SUBSET DOMAIN dossier.cites :
                                  dossier' = [dossier EXCEPT !.facts = facts]
      BY <2>2 DEF Extract
    <3>2. ASSUME NEW facts \in SUBSET DOMAIN dossier.cites,
                 dossier' = [dossier EXCEPT !.facts = facts]
          PROVE  Sound(dossier')
      <4>1. dossier = [status |-> dossier.status, cites |-> dossier.cites,
                       facts |-> dossier.facts]
        BY DEF Typed, TypeOK, Dossier
      <4>2. /\ dossier'.status = dossier.status
            /\ dossier'.cites = dossier.cites
            /\ dossier'.facts = facts
        BY <3>2, <4>1
      <4>3. QED
        BY <4>2 DEF Sound, SoundInv
    <3>3. Sound(dossier')
      BY <3>1, <3>2 DEF SoundInv
    <3>4. QED
      BY <2>0, <2>2, <3>3 DEF Extract, disk
  <2>3. CASE WriteDossier
    <3>1. /\ dossiers' = [dossiers EXCEPT ![p] = dossier]
          /\ dossier' = Nobody
      BY <2>3 DEF WriteDossier, NextPerson
    <3>2. \A q \in Person : dossiers'[q] = dossier \/ dossiers'[q] = dossiers[q]
      BY <3>1 DEF Typed, TypeOK
    <3>3. QED
      BY <1>0, <3>1, <3>2 DEF SoundInv, NothingUnaccepted, Readable, Sound
  <2>4. ASSUME NEW r \in Person, Damage(r) PROVE SoundInv'
    <3>1. \A q \in Person : dossiers'[q] = Unreadable \/ dossiers'[q] = dossiers[q]
      BY <2>4 DEF Damage, Typed, TypeOK
    <3>2. QED
      BY <2>4, <3>1 DEF Damage, SoundInv, NothingUnaccepted, Readable, Sound
  <2>5. CASE UNCHANGED <<dossiers, dossier>>
    BY <2>0, <2>5 DEF SoundInv
  <2>6. CASE UNCHANGED dossiers /\ dossier' = Nobody
    BY <1>0, <2>0, <2>6
  <2>7. QED
    BY <2>1, <2>2, <2>3, <2>4, <2>5, <2>6
    DEF Next, Step, Start, Skip, Build, Retrieve, DeadModel, Commit, WriteDoc, RefuseDoc, Raise,
        Finish, Kill, Lose, NextPerson, vars, disk, trace, run
<1>3. QED
  BY <1>1, <1>2, TypeCorrect, PTL DEF Spec, Typed, SoundInv

------------------------------------------------------------------------------
(* The exit code.  While a run lasts no exit code stands, and every row that  *)
(* says "skipped" or "built" is true of the disk.                             *)

Complete(q) ==
    Readable(q) /\ \A d \in DOMAIN dossiers[q].cites : docs[d] # Gone

NoExitYet == pc # "idle" => exit = None

CompleteButForUnsafe(q) ==
    Readable(q) /\ \A d \in DOMAIN dossiers[q].cites : docs[d] # Gone \/ d \in Unsafe

RowsTrue ==
    pc # "idle" => \A q \in Person :
        /\ rows[q] = "skipped" => Complete(q)
        /\ rows[q] = "built" => CompleteButForUnsafe(q)

CleanInv == CleanExitMeansBuilt /\ NoExitYet /\ RowsTrue

\* Exit 0 means that everybody the run selected has a readable dossier on disk: whoever
\* was skipped with all its documents, whoever was built with those whose id is a file
\* name, whatever was killed, damaged or lost before that run.
THEOREM CleanExitHolds == Spec => []CleanExitMeansBuilt
<1> USE PipelineAssumption
<1>1. Init => CleanInv
  BY DEF Init, CleanInv, CleanExitMeansBuilt, NoExitYet, RowsTrue
<1>2. Typed /\ WrittenOnDisk /\ CleanInv /\ [Next]_vars => CleanInv'
  <2> SUFFICES ASSUME Typed, WrittenOnDisk, CleanInv, [Next]_vars
               PROVE  CleanInv'
    OBVIOUS
  <2> USE DEF disk, trace, run
  <2>0. ASSUME pc # "idle", pc' # "idle", UNCHANGED <<docs, dossiers, exit>>,
               NEW r \in Person, rows' = [rows EXCEPT ![r] = "failed"] \/ rows' = rows
        PROVE  CleanInv'
    <3>1. \A q \in Person : rows'[q] = rows[q] \/ rows'[q] = "failed"
      BY <2>0 DEF Typed, TypeOK
    <3>2. QED
      BY <2>0, <3>1 DEF CleanInv, CleanExitMeansBuilt, NoExitYet, RowsTrue, Complete, CompleteButForUnsafe, Readable
  <2>1. ASSUME NEW forced \in BOOLEAN, Start(forced) PROVE CleanInv'
    BY <2>1 DEF Start, CleanInv, CleanExitMeansBuilt, NoExitYet, RowsTrue
  <2>2. CASE Skip
    <3>1. /\ pc = "picking" /\ UNCHANGED <<docs, dossiers, pc, exit>>
          /\ rows' = [rows EXCEPT ![p] = "skipped"]
          /\ Complete(p)
      BY <2>2 DEF Skip, AlreadyBuilt, Complete
    <3>2. \A q \in Person : rows'[q] = rows[q] \/ q = p
      BY <3>1 DEF Typed, TypeOK
    <3>3. QED
      BY <3>1, <3>2 DEF CleanInv, CleanExitMeansBuilt, NoExitYet, RowsTrue, Complete, CompleteButForUnsafe, Readable
  <2>3. CASE /\ pc # "idle" /\ pc' # "idle"
             /\ UNCHANGED <<docs, dossiers, exit, rows>>
    BY <2>3 DEF CleanInv, CleanExitMeansBuilt, NoExitYet, RowsTrue, Complete, CompleteButForUnsafe, Readable
  <2>4. CASE DeadModel \/ Raise
    <3>1. p \in Person
      BY <2>4, QueueType DEF DeadModel, Raise, Typed, TypeOK
    <3>2. QED
      BY <2>0, <2>4, <3>1 DEF DeadModel, Raise, NextPerson
  <2>5. ASSUME NEW d \in Doc, WriteDoc(d) PROVE CleanInv'
    <3>1. dossier.cites[d] # Gone
      BY <2>5, DossierShape DEF WriteDoc, Typed, TypeOK
    <3>2. docs' = [docs EXCEPT ![d] = dossier.cites[d]]
      BY <2>5 DEF WriteDoc
    <3>3. \A e \in Doc : docs[e] # Gone => docs'[e] # Gone
      BY <3>1, <3>2 DEF Typed, TypeOK
    <3>4. \A q \in Person : Readable(q) => DOMAIN dossiers[q].cites \subseteq Doc
      BY DossierShape DEF Typed, TypeOK, Readable
    <3>5. UNCHANGED <<dossiers, pc, exit, rows>> /\ pc = "committing"
      BY <2>5 DEF WriteDoc
    <3>6. QED
      BY <3>3, <3>4, <3>5
      DEF CleanInv, CleanExitMeansBuilt, NoExitYet, RowsTrue, Complete, CompleteButForUnsafe, Readable
  <2>6. CASE WriteDossier
    <3>1. /\ pc = "committing" /\ pc' = "picking"
          /\ dossiers' = [dossiers EXCEPT ![p] = dossier]
          /\ rows' = [rows EXCEPT ![p] = "built"]
          /\ UNCHANGED <<docs, exit>>
          /\ \A d \in DOMAIN dossier.cites : docs[d] # Gone \/ d \in Unsafe
      BY <2>6 DEF WriteDossier, NextPerson, WrittenOnDisk
    <3>2. dossier # None /\ dossier # Unreadable
      BY DEF Typed, TypeOK
    <3>3. \A q \in Person : \/ dossiers'[q] = dossiers[q] /\ rows'[q] = rows[q]
                            \/ dossiers'[q] = dossier /\ rows'[q] = "built"
      BY <3>1 DEF Typed, TypeOK
    <3>4. QED
      BY <3>1, <3>2, <3>3
      DEF CleanInv, CleanExitMeansBuilt, NoExitYet, RowsTrue, Complete, CompleteButForUnsafe, Readable
  <2>7. CASE Finish
    <3>1. /\ pc = "picking" /\ UNCHANGED <<docs, dossiers, rows>> /\ pc' = "idle"
          /\ exit' = 0 => \A q \in Person : rows[q] # "failed"
      BY <2>7 DEF Finish
    <3>2. \A q \in Person : rows[q] \in {"none", "skipped", "built", "failed"}
      BY DEF Typed, TypeOK
    <3>3. QED
      BY <3>1, <3>2 DEF CleanInv, CleanExitMeansBuilt, NoExitYet, RowsTrue, Complete, CompleteButForUnsafe, Readable
  <2>8. CASE pc' = "idle" /\ exit' = None
    BY <2>8, PipelineAssumption DEF CleanInv, CleanExitMeansBuilt, NoExitYet, RowsTrue
  <2>9. CASE Kill
    BY <2>8, <2>9 DEF Kill, CleanInv, NoExitYet
  <2>10. CASE UNCHANGED vars
    BY <2>10 DEF vars, CleanInv, CleanExitMeansBuilt, NoExitYet, RowsTrue, Complete, CompleteButForUnsafe, Readable
  <2>11. QED
    BY <2>1, <2>2, <2>3, <2>4, <2>5, <2>6, <2>7, <2>8, <2>9, <2>10
    DEF Next, Step, Build, Retrieve, Resolve, Extract, Commit, RefuseDoc, Lose, Damage
<1>3. QED
  BY <1>1, <1>2, TypeCorrect, CitedInvHolds, PTL DEF Spec, Typed, CitedInv, CleanInv

------------------------------------------------------------------------------
(* What the build of one person leaves behind.  While somebody is being built *)
(* the dossiers are those the build found, and so are the documents until a   *)
(* commit writes some of those in hand; no commit starts after a dead model.  *)

DossiersAsFound ==
    pc \notin {"idle", "picking"} => dossiers = before.dossiers

DocsAsFound ==
    pc \notin {"idle", "picking"} => \A d \in Doc :
        \/ docs[d] = before.docs[d]
        \/ /\ pc = "committing" /\ d \in DOMAIN dossier.cites \ Unsafe
           /\ docs[d] = dossier.cites[d]

CommitsAnswered == pc = "committing" => ~EveryCallFailed

BuildInv == DossiersAsFound /\ DocsAsFound /\ CommitsAnswered

LEMMA BuildInvHolds == Spec => []BuildInv
<1> USE PipelineAssumption
<1> USE DEF BuildInv, DossiersAsFound, DocsAsFound, CommitsAnswered
<1>1. Init => BuildInv
  BY DEF Init
<1>2. Typed /\ BuildInv /\ [Next]_vars => BuildInv'
  <2> SUFFICES ASSUME Typed, BuildInv, [Next]_vars
               PROVE  BuildInv'
    OBVIOUS
  <2> USE DEF disk, trace, run
  <2>1. CASE Build
    <3>1. /\ before' = [dossiers |-> dossiers, docs |-> docs]
          /\ UNCHANGED disk /\ pc' = "retrieving"
      BY <2>1 DEF Build
    <3>2. QED
      BY <3>1
  <2>2. CASE /\ pc \in {"retrieving", "resolving", "extracting", "checking"}
             /\ pc' \in {"resolving", "extracting", "checking"}
             /\ UNCHANGED <<disk, before>>
    BY <2>2
  <2>3. CASE Commit
    BY <2>3 DEF Commit, EveryCallFailed
  <2>4. ASSUME NEW d \in Doc, WriteDoc(d) PROVE BuildInv'
    <3>1. /\ docs' = [docs EXCEPT ![d] = dossier.cites[d]]
          /\ d \in DOMAIN dossier.cites \ Unsafe
          /\ UNCHANGED <<dossiers, pc, dossier, used, errors, before>>
      BY <2>4 DEF WriteDoc, Typed, TypeOK
    <3>2. \A e \in Doc : docs'[e] = docs[e] \/ (e = d /\ docs'[e] = dossier.cites[e])
      BY <3>1 DEF Typed, TypeOK
    <3>3. QED
      BY <2>4, <3>1, <3>2 DEF EveryCallFailed, WriteDoc
  <2>5. ASSUME NEW d \in Doc, RefuseDoc(d) PROVE BuildInv'
    BY <2>5 DEF RefuseDoc, EveryCallFailed
  <2>6. CASE pc' \in {"idle", "picking"}
    BY <2>6
  <2>7. CASE UNCHANGED vars
    BY <2>7 DEF vars, EveryCallFailed
  <2>8. QED
    BY <2>1, <2>2, <2>3, <2>4, <2>5, <2>6, <2>7
    DEF Next, Step, Start, Skip, Retrieve, Resolve, Extract, DeadModel, WriteDossier,
        Raise, Finish, Kill, Lose, Damage, NextPerson
<1>3. QED
  BY <1>1, <1>2, TypeCorrect, PTL DEF Spec, Typed

\* A failed build leaves every dossier as it found it and a finished one replaces its own
\* only; documents change only to the texts just accepted for that person; and where every
\* model call failed nothing changes and the person is reported as failed.
THEOREM FailedKeepHolds == Spec => FailedKeepTheirDossier
<1>1. ASSUME Typed, BuildInv, [Next]_vars,
             NEW q \in Person, rows[q] = "none", rows'[q] \in {"built", "failed"}
      PROVE  LeftBehind(q)
  <2> USE DEF disk, trace, run, BuildInv, DossiersAsFound, DocsAsFound, CommitsAnswered
  <2>1. rows \in [Person -> {"none", "skipped", "built", "failed"}]
    BY <1>1 DEF Typed, TypeOK
  <2>2. CASE DeadModel
    BY <1>1, <2>2 DEF DeadModel, NextPerson, LeftBehind, EveryCallFailed
  <2>3. CASE WriteDossier
    <3>1. q = p /\ rows'[q] = "built"
      BY <1>1, <2>1, <2>3 DEF WriteDossier
    <3>2. \A r \in Person : r # q => dossiers'[r] = dossiers[r]
      BY <1>1, <2>3, <3>1 DEF WriteDossier, Typed, TypeOK
    <3>3. pc = "committing" /\ UNCHANGED docs
      BY <2>3 DEF WriteDossier
    <3>4. QED
      BY <1>1, <3>1, <3>2, <3>3 DEF LeftBehind
  <2>4. CASE Raise
    <3>1. q = p /\ rows'[q] = "failed" /\ pc # "idle" /\ pc # "picking" /\ UNCHANGED disk
      BY <1>1, <2>1, <2>4 DEF Raise
    <3>2. ASSUME EveryCallFailed PROVE \A d \in Doc : docs'[d] = before.docs[d]
      BY <1>1, <3>1, <3>2
    <3>3. QED
      BY <1>1, <3>1, <3>2 DEF LeftBehind
  <2>5. CASE Skip
    BY <1>1, <2>1, <2>5 DEF Skip
  <2>6. CASE UNCHANGED rows \/ rows' = [r \in Person |-> "none"]
    BY <1>1, <2>6
  <2>7. QED
    BY <1>1, <2>2, <2>3, <2>4, <2>5, <2>6
    DEF Next, Step, Start, Build, Retrieve, Resolve, Extract, Commit, WriteDoc,
        RefuseDoc, Finish, Kill, Lose, Damage, vars
<1>2. Typed /\ BuildInv /\ [Next]_vars =>
        [\A q \in Person :
           rows[q] = "none" /\ rows'[q] \in {"built", "failed"} => LeftBehind(q)]_vars
  BY <1>1
<1>3. QED
  BY <1>2, TypeCorrect, BuildInvHolds, PTL DEF Spec, Typed, FailedKeepTheirDossier
=============================================================================
