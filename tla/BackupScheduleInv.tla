------------------------- MODULE BackupScheduleInv -------------------------
(***************************************************************************)
(* The inductive invariant of BackupSchedule: which copies of the status   *)
(* may be trusted and for what, what may be started next, and how many     *)
(* runs under way the status may miss, which is none under Forbid.         *)
(***************************************************************************)
EXTENDS BackupSchedule

\* Past the reach of an inventory the status does lose runs.
ASSUME ReachAssumption == Cardinality(Runs) <= InventoryReach

\* Reserved, and not created.
Unborn(r) == r # NoRun /\ phase[r] = "None"

\* A copy is what it claims to be: the store's is current unless behind, and a
\* pass whose writes would be accepted holds the object as it is, and wrote
\* none of it before it reserved.
CopiesAreHonest ==
    /\ ~behind => view = [spec |-> spec, st |-> st]
    /\ pc # "idle" /\ pass.fresh => pass.spec = spec /\ pass.st = st
    /\ pc \in {"observe", "decide", "reserve"} /\ pass.fresh => ~behind

\* Nothing is created that the stored status does not reserve, not even by a pass
\* that resumes a reservation it read from a stale copy.
PlanIsReserved == pc = "create" => st.pending = pass.plan

\* A copy that reserves a run nobody created and the status no longer reserves
\* is one the release left behind: no pass that reads it creates the run.
StaleReservationIsDead ==
    /\ Unborn(view.st.pending) => view.st.pending = st.pending \/ view.spec.mode = "badPolicy"
    /\ pc = "observe" /\ Unborn(pass.st.pending) =>
          pass.st.pending = st.pending \/ pass.spec.mode = "badPolicy"

\* A pass decides only once the reservation it read has its run, and gives one
\* up without its run only for an invalid run policy.
ReservationsAreKept ==
    /\ pc \in {"decide", "reserve"} => ~Unborn(pass.st.pending)
    /\ pc \in {"decide", "reserve", "finish"} => pass.next.pending = NoRun
    /\ pc = "finish" /\ pass.fresh /\ Unborn(st.pending) =>
          pass.spec.mode = "badPolicy" /\ ~behind

\* Edits leave the policy alone.
PolicyIsKept ==
    /\ view.spec.policy = spec.policy
    /\ pc # "idle" => pass.spec.policy = spec.policy

\* Whether the run may be started next.
MayFollow(r) ==
    \/ r[2] = 0 /\ r[1] > LastStarted[1]
    \/ r = <<LastStarted[1], LastStarted[2] + 1>> /\ fate = "Retryable"

\* The run started last is the newest there is, and its attempts are all there until
\* the status has its slot as fired.
LastIsNewest ==
    /\ LastStarted # NoRun =>
          /\ LastStarted \in Runs
          /\ phase[LastStarted] \in {"None", IF fate = "None" THEN "Running" ELSE fate}
          /\ LastStarted[1] > st.lastFire => phase[<<LastStarted[1], 0>>] # "None"
    /\ \A r \in Existing : r = LastStarted \/ Before(r, LastStarted)
    /\ \A r, q \in Runs : r \in Existing /\ Before(r, q) /\ q[1] = LastStarted[1]
                             /\ (q = LastStarted \/ Before(q, LastStarted)) /\ r[1] = q[1]
                          => q \in Existing

\* What is reserved or about to be follows the run started last.
PlanFollows ==
    /\ Unborn(st.pending) => MayFollow(st.pending)
    /\ pc = "reserve" /\ pass.fresh => MayFollow(pass.plan)

\* The runs a status names as active were all started.
ListedWereStarted ==
    LET Old(r) == r = LastStarted \/ Before(r, LastStarted) IN
    /\ \A r \in st.active : Old(r)
    /\ pc \in {"decide", "reserve", "create", "finish"} => \A r \in pass.next.active : Old(r)

\* So no status names the run it reserves as active too.
ReservedIsUnlisted ==
    /\ st.pending \notin st.active
    /\ view.st.pending \notin view.st.active
    /\ pc # "idle" => pass.st.pending \notin pass.st.active

\* No slot is fired or reserved before its time, and lastFireTime never goes back.
SlotsInOrder ==
    /\ LastStarted[1] <= now /\ st.lastFire <= now /\ st.pending[1] <= now
    /\ pc # "idle" =>
          /\ pass.at <= now
          /\ LastStarted[1] <= pass.at /\ st.lastFire <= pass.at /\ st.pending[1] <= pass.at
    /\ st.pending # NoRun => st.lastFire <= st.pending[1]
    /\ pc # "idle" /\ pass.fresh =>
          st.lastFire <= pass.next.lastFire /\ pass.next.lastFire <= pass.at
    /\ pc = "reserve" => st.lastFire <= pass.plan[1] /\ pass.plan[1] <= pass.at

-----------------------------------------------------------------------------
(***************************************************************************)
(* How many runs the status misses.  A run is missing only when another    *)
(* was reserved over it, its own final status having been lost before, and *)
(* the pass that reserved then lost its own.                               *)
(***************************************************************************)

\* The final status, if it is taken, makes up for what the reservation hides.
MayMakeUp == pc \in {"create", "finish"} /\ pass.fresh

\* A list of more than MaxActive runs is not read to its end.  What lies beyond
\* is as good as missing.
Surplus(S) == IF Cardinality(S) > MaxActive THEN Cardinality(S) - MaxActive ELSE 0

\* The runs no field of the status names, and those activeRuns does not name.
FewAreMissing ==
    LET unnamed  == Cardinality(Going \ (st.active \cup {st.pending})) + Surplus(st.active)
        unlisted == Cardinality(Going \ st.active) + Surplus(st.active)
    IN  IF MayMakeUp THEN unnamed <= Upsets ELSE unnamed <= Excess /\ unlisted <= Upsets

\* The runs under way once the pass has created its own, and what it lists then.
NextMissesFew ==
    LET born  == IF pc = "create" /\ Unborn(pass.plan) THEN {pass.plan} ELSE {}
        lists == pass.next.active \cup born
    IN  pc \in {"decide", "reserve", "create", "finish"} /\ pass.fresh
          => Cardinality(Going \ pass.next.active) + Surplus(lists) <= Excess

\* Only a run that is resumed makes the list longer than it is read.
ListFits ==
    pc \in {"decide", "reserve", "create"} => Cardinality(pass.next.active) <= MaxActive

\* There is room for a run that is reserved and not created, and a pass reserves
\* one only when it knows of fewer than the limit.
RoomIsKept ==
    /\ Unborn(st.pending) => Cardinality(Going) < Limit(spec) + Excess
    /\ pc = "reserve" => Cardinality(pass.next.active) < Limit(spec)

\* While nothing has come between, a run is created by the pass that reserves it.
Undisturbed ==
    Upsets = 0 =>
        /\ pc = "create" => pass.fresh
                            /\ (Unborn(view.st.pending) => view.st.pending = st.pending)
        /\ pc # "create" => ~Unborn(st.pending) /\ ~Unborn(view.st.pending)
        /\ pc = "observe" => ~Unborn(pass.st.pending)

\* What a pass would write names every run under way.
NextIsComplete ==
    pc \in {"decide", "reserve", "create", "finish"} /\ pass.fresh
        => Going \subseteq pass.next.active

\* Under Forbid a reservation is made only when nothing is under way, and nothing
\* else starts before it is created or given up.
ReservedAlone ==
    /\ \A q, r \in Going : q = r
    /\ Unborn(st.pending) => Going = {}
    /\ pc = "reserve" => pass.next.active = {}

\* Under Forbid no status names two runs.
OneIsListed ==
    /\ \A q, r \in st.active : q = r
    /\ pc \in {"decide", "finish"} /\ pass.fresh => \A q, r \in pass.next.active : q = r
    /\ pc = "create" /\ pass.fresh => pass.next.active \subseteq {pass.plan}

\* Under Forbid no run is missing, from the status or from what a pass would write.
ForbidKnowsAll ==
    spec.policy = "Forbid" => ActiveIsComplete /\ NextIsComplete /\ ReservedAlone /\ OneIsListed

-----------------------------------------------------------------------------
IInv ==
    /\ TypeOK
    /\ CopiesAreHonest
    /\ PlanIsReserved
    /\ StaleReservationIsDead
    /\ ReservationsAreKept
    /\ PolicyIsKept
    /\ LastIsNewest
    /\ PlanFollows
    /\ SlotsInOrder
    /\ ListedWereStarted
    /\ ReservedIsUnlisted
    /\ ForbidKnowsAll
    /\ FewAreMissing
    /\ NextMissesFew
    /\ ListFits
    /\ RoomIsKept
    /\ Undisturbed
    /\ OvershootIsBounded

=============================================================================
