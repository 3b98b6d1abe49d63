------------------------------ MODULE Presence ------------------------------
(***************************************************************************)
(* arrival.web.presence.Presence: who is in the building, a process-local  *)
(* ordered set of person ids.  The Python dict keeps insertion order, so   *)
(* it is the sequence of its keys; the lock makes each method one step.    *)
(***************************************************************************)
EXTENDS Naturals, Sequences, SequencesExt

CONSTANT Person       \* the person ids of the loaded dossiers

VARIABLE present      \* Presence._present: the keys of the dict, oldest first

\* dict.pop(key, None) and `del` on an ordered dict: the other keys keep
\* their order.
Without(s, p) ==
    IF p \in ToSet(s)
    THEN RemoveAt(s, CHOOSE i \in DOMAIN s : s[i] = p)
    ELSE s

\* Mutant: a dict whose key keeps its old place.
WithArrivalInPlace(s, p) == IF p \in ToSet(s) THEN s ELSE Append(s, p)

\* The dict after arrive(p): pop, then insert, so p moves to the end.
WithArrival(s, p) == Append(Without(s, p), p)

PresenceInit == present = <<>>

PresenceArrive(p) == present' = WithArrival(present, p)

\* leave(p) on somebody who is not here changes nothing and is not an error.
PresenceLeave(p) == present' = Without(present, p)

InBuilding == ToSet(present)

\* A sequence of keys, none of them twice.
NoRepeat(s) == \A i, j \in DOMAIN s : s[i] = s[j] => i = j

PresenceTypeOK ==
    /\ present \in Seq(Person)
    /\ NoRepeat(present)
=============================================================================
