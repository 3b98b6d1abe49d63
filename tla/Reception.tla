----------------------------- MODULE Reception -----------------------------
(***************************************************************************)
(* What the arrival service promises a host, without queues, eviction or   *)
(* an event loop: everybody who walks in is owed one digest, which         *)
(* introduces people who were inside, and known to the graph, when they    *)
(* walked in.  A digest once written is shown as written until forgotten.  *)
(***************************************************************************)
EXTENDS Naturals, FiniteSets

CONSTANTS Person, Known, Request, MeetCap, None

VARIABLES
    inside,           \* who is in the building
    owed,             \* per request: None, or who walked in and whom they found
    shown             \* per request: None, or the digest it can be read back as

vars == <<inside, owed, shown>>

Init ==
    /\ inside = {}
    /\ owed = [r \in Request |-> None]
    /\ shown = [r \in Request |-> None]

Enter(r, p) ==
    /\ owed[r] = None /\ shown[r] = None
    /\ inside' = inside \cup {p}
    /\ owed' = [owed EXCEPT ![r] = [who |-> p,
                                    found |-> (inside \ {p}) \cap Known]]
    /\ UNCHANGED shown

\* Writing a digest may make the service forget other ones, never this one.
Introduce(r, rows) ==
    /\ owed[r] # None
    /\ rows \subseteq owed[r].found
    /\ Cardinality(rows) <= MeetCap
    /\ owed[r].found # {} => rows # {}
    /\ owed' = [owed EXCEPT ![r] = None]
    /\ \E forgotten \in SUBSET (Request \ {r}) :
         shown' = [d \in Request |->
                     IF d = r THEN [who |-> owed[r].who, met |-> rows]
                     ELSE IF d \in forgotten THEN None ELSE shown[d]]
    /\ UNCHANGED inside

Depart(p) ==
    /\ inside' = inside \ {p}
    /\ UNCHANGED <<owed, shown>>

Reset ==
    /\ inside' = {}
    /\ owed' = [r \in Request |-> None]
    /\ shown' = [r \in Request |-> None]

Next ==
    \/ \E r \in Request, p \in Person : Enter(r, p)
    \/ \E r \in Request : \E rows \in SUBSET Person : Introduce(r, rows)
    \/ \E p \in Person : Depart(p)
    \/ Reset

Spec == Init /\ [][Next]_vars
=============================================================================
