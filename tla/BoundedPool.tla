---------------------------- MODULE BoundedPool ----------------------------
(***************************************************************************)
(* What the manual-run pool of a workspace promises to everything outside  *)
(* it: a set of runs holds slots, a run takes one only while fewer than    *)
(* Limit are taken, and a run gives its slot back when it likes.  Nothing  *)
(* is said about reservations, watches, writes or restarts; ManualRunPool  *)
(* is shown to implement this.                                             *)
(***************************************************************************)
EXTENDS Naturals, FiniteSets

CONSTANTS
    Run,    \* the runs a workspace may ever see
    Limit   \* the ceiling of the installation policy

VARIABLE holders   \* the runs that hold a slot

Init == holders = {}

Take(r) ==
    /\ r \notin holders
    /\ Cardinality(holders) < Limit
    /\ holders' = holders \cup {r}

Release(r) ==
    /\ r \in holders
    /\ holders' = holders \ {r}

Next == \E r \in Run : Take(r) \/ Release(r)

Spec == Init /\ [][Next]_holders

=============================================================================
