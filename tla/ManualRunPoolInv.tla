-------------------------- MODULE ManualRunPoolInv --------------------------
(***************************************************************************)
(* The inductive invariant of ManualRunPool, stated apart from its proof   *)
(* so that a run can check it too.                                         *)
(***************************************************************************)
EXTENDS ManualRunPool

(***************************************************************************)
(* The inductive invariant.  Every run that holds a slot, or is about to   *)
(* record that it does, is visible to the next decision: in the store, or  *)
(* as a reservation that decision will keep.                               *)
(***************************************************************************)

\* The last undelivered event of a run is the run's status; with none, the
\* store is up to date.
WatchInOrder ==
    /\ \A i \in DOMAIN events :
          \/ \E j \in DOMAIN events : j > i /\ events[j].run = events[i].run
          \/ events[i].status = status[events[i].run]
    /\ synced => \A r \in Run : Unseen(r) = {} => view[r] = status[r]

\* Within the pass of r nobody else writes r, short of deleting it.
PassOwns(r) == pc[r] # "idle" =>
    /\ synced
    /\ copy[r] \notin Gone \cup {"Finished"}
    /\ fresh[r] => status[r] = copy[r]
    /\ pc[r] # "start" => ~job[r]
    /\ pc[r] \in {"start", "admitted", "queued"} /\ fresh[r] => Unseen(r) = {}
    /\ pc[r] = "admitted" => copy[r] \notin Occupying
    /\ pc[r] = "admitted" /\ fresh[r] => held[r] = passAge[r]
    /\ pc[r] = "create" => copy[r] \in Occupying
    /\ pc[r] = "create" => r \in misread \/ status[r] \in Occupying \cup {"Deleted"}
    /\ pc[r] = "create" /\ fresh[r] /\ view[r] \notin Occupying =>
           r \in misread \/ held[r] = passAge[r]

PassOwnsItsRun == \A r \in Run : PassOwns(r)

\* Between two holds a run's events all say it holds a slot.
Steady(r) == status[r] \in Occupying =>
    \A i \in Unseen(r) : events[i].status \in Occupying

OccupyingIsSteady == \A r \in Run : Steady(r)

\* A slot the store does not show is covered by a reservation young enough,
\* unless a pass misread the run and dropped it.
CoveredRun(r) ==
  synced /\ status[r] \in Occupying /\ view[r] \notin Occupying /\ r \notin misread =>
    /\ view[r] \in Waiting \cup {"Pending"}
    /\ \A i \in Unseen(r) : held[r] <= events[i].age + PassDelay

Covered == \A r \in Run : CoveredRun(r)

\* The runs holding a slot, or about to record one, and never misread.
Claimed == Slots \cup {r \in Run \ misread : pc[r] = "admitted" /\ fresh[r]}

ClaimsBounded == Cardinality(Claimed) <= Limit

IInv ==
    /\ TypeOK
    /\ WatchInOrder
    /\ PassOwnsItsRun
    /\ OccupyingIsSteady
    /\ JobsAreCounted
    /\ Covered
    /\ ClaimsBounded

=============================================================================
