------------------------- MODULE ArchiveRetention --------------------------
(***************************************************************************)
(* What retention promises of an archive of backup sets, each a manifest   *)
(* and its segments: a set is condemned, on the record, before anything of *)
(* it goes; its manifest goes before its segments, so that a set that      *)
(* looks restorable is; and the condemned never include the last points.   *)
(***************************************************************************)
EXTENDS Naturals, FiniteSets

CONSTANTS
    Points,    \* recovery points
    SetOf,     \* the set a point restores from
    Keys,      \* the objects of a set
    Manifest,  \* the key that makes a set readable
    Floor      \* how many points are never condemned

VARIABLES there, condemned

vars == <<there, condemned>>

Sets == {SetOf[p] : p \in Points}

Spared == {p \in Points : there[SetOf[p]] # {} /\ SetOf[p] \notin condemned}

Init ==
    /\ there \in [Sets -> {{}, Keys}]
    /\ condemned = {}

\* A backup completes.
Store(s) ==
    /\ there[s] = {} /\ s \notin condemned
    /\ there' = [there EXCEPT ![s] = Keys]
    /\ UNCHANGED condemned

Condemn(s) ==
    /\ s \notin condemned
    /\ condemned' = condemned \cup {s}
    /\ Cardinality(Spared') >= Floor
    /\ UNCHANGED there

Remove(s, k) ==
    /\ s \in condemned
    /\ k \in there[s]
    /\ k # Manifest => Manifest \notin there[s]
    /\ there' = [there EXCEPT ![s] = @ \ {k}]
    /\ UNCHANGED condemned

Next ==
    \E s \in Sets :
        \/ Store(s)
        \/ Condemn(s)
        \/ \E k \in Keys : Remove(s, k)

Spec == Init /\ [][Next]_vars

=============================================================================
