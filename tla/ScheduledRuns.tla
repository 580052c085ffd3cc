--------------------------- MODULE ScheduledRuns ---------------------------
(***************************************************************************)
(* What a BackupSchedule promises about the runs it creates: one execution *)
(* per slot and attempt, in order, a retry only of the attempt that has    *)
(* just failed in a way that is retried, and never more at once than a     *)
(* limit that may be raised.  Nothing is said about reservations, passes,  *)
(* stale copies or what the status shows; BackupSchedule is shown to       *)
(* implement this, with its limit raised only under Allow and only by what *)
(* goes wrong.                                                             *)
(***************************************************************************)
EXTENDS Naturals, FiniteSets

CONSTANTS
    Runs,     \* <<slot, attempt>>: the runs a schedule may ever create
    NoRun     \* no run yet; its slot is before every slot

VARIABLES
    limit,      \* how many runs may be under way
    last,       \* the run started last
    going,      \* the runs under way
    retryable   \* the run started last has failed, and is worth a retry

Init ==
    /\ limit \in Nat
    /\ last = NoRun
    /\ going = {}
    /\ retryable = FALSE

Follows(r) ==
    \/ r[2] = 0 /\ r[1] > last[1]
    \/ r[1] = last[1] /\ r[2] = last[2] + 1 /\ retryable

Start(r) ==
    /\ Follows(r)
    /\ Cardinality(going) < limit
    /\ last' = r
    /\ going' = going \cup {r}
    /\ retryable' = FALSE
    /\ UNCHANGED limit

End(r) ==
    /\ r \in going
    /\ going' = going \ {r}
    /\ retryable' \in (IF r = last THEN BOOLEAN ELSE {retryable})
    /\ UNCHANGED <<limit, last>>

Raise ==
    /\ limit' \in Nat /\ limit < limit'
    /\ UNCHANGED <<last, going, retryable>>

Next == Raise \/ \E r \in Runs : Start(r) \/ End(r)

Spec == Init /\ [][Next]_<<limit, last, going, retryable>>

=============================================================================
