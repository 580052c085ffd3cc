--------------------------- MODULE BackupSchedule ---------------------------
(***************************************************************************)
(* One BackupSchedule and its controller                                   *)
(* (crates/weirkeeper/src/controllers/backup_schedule.rs and               *)
(* schedule_history.rs, with the decisions of cadence.rs): which Backups a *)
(* schedule creates, and what its status records of them.                  *)
(*                                                                         *)
(* A pass reads the store's copy of the schedule, observes the runs the    *)
(* status names, decides about the latest due slot from the Backups that   *)
(* exist, reserves the run in the status, creates it, and writes the       *)
(* status.  Both status writes carry the resourceVersion of what the pass  *)
(* read.  There is one controller process; it keeps nothing in memory, so  *)
(* a crash and a failed call are alike.                                    *)
(*                                                                         *)
(* A run is <<slot, attempt>>, slots being the instants the cadence fires. *)
(* Runs under way are never deleted (docs/kubernetes.md, "Pruning          *)
(* history"), and no other object holds a run's name.                      *)
(***************************************************************************)
EXTENDS Naturals, Sequences, FiniteSets

CONSTANTS
    Period,            \* ticks between two slots
    Horizon,           \* bound: the last instant
    CreatedAt,         \* metadata.creationTimestamp
    Policies,          \* concurrencyPolicy values to consider
    MaxActive,         \* MAX_ACTIVE_RUNS
    MaxAttempt,        \* the hard maximum of attempts (slot.rs, MAX_RETRIES)
    PassTicks,         \* bound: how many ticks a pass may span
    StartingDeadline,  \* spec.startingDeadlineSeconds, in ticks
    RetryDelay,        \* spec.retry.delaySeconds, in ticks
    Modes,             \* what a spec may be: "ok", "suspended", "badPolicy", "badCadence"
    RetryChoices,      \* spec.retry.maxRetries values; 0 stands for no retry
    CatchUpChoices,    \* spec.catchUpPolicy values; TRUE stands for Latest
    InventoryInterval, \* INVENTORY_INTERVAL_SECS, in ticks
    InventoryReach,    \* how many runs an inventory lists before its page bound
    MaxEdits,          \* bound: spec edits
    MaxFaults          \* bound: passes ended by a crash or a failed call

ASSUME TimeAssumption ==
    /\ Period \in Nat \ {0} /\ Horizon \in Nat /\ CreatedAt \in 1 .. Horizon
    /\ StartingDeadline \in Nat /\ RetryDelay \in Nat /\ InventoryInterval \in Nat
ASSUME PolicyAssumption ==
    /\ Policies \subseteq {"Forbid", "Allow"}
    /\ MaxActive \in Nat \ {0} /\ MaxAttempt \in Nat
    /\ RetryChoices \subseteq 0 .. MaxAttempt
    /\ CatchUpChoices \subseteq BOOLEAN
    /\ Modes \subseteq {"ok", "suspended", "badPolicy", "badCadence"}
ASSUME ScheduleBounds ==
    /\ PassTicks \in Nat /\ InventoryReach \in Nat /\ MaxEdits \in Nat /\ MaxFaults \in Nat

VARIABLES
    now,
    spec,     \* the schedule's spec, its generation and when that was written
    st,       \* the schedule's status
    phase,    \* phase[r]: the Backup of run r, "None" when there is none
    ended,    \* ended[r]: when it failed retryably, or 0
    view,     \* the store's copy of spec and status
    behind,   \* the object is newer than that copy
    pc,       \* where the pass is
    pass,     \* what the pass holds
    faults,   \* bound
    (***********************************************************************)
    (* History, read by no action                                          *)
    (***********************************************************************)
    started,  \* the runs that were started, in order
    fate      \* how the run started last ended, even when it is pruned since

vars == <<now, spec, st, phase, ended, view, behind, pc, pass, faults, started, fate>>
history == <<started, fate>>

Slots == {s \in 1 .. Horizon : s % Period = 0}
Runs  == Slots \X (0 .. MaxAttempt)
NoRun == <<0, 0>>

Terminal == {"Succeeded", "Retryable", "Failed"}
Never    == Horizon + 1   \* status.history is absent

Specs == [mode : Modes, retries : RetryChoices, catchUp : CatchUpChoices,
          policy : Policies, gen : 1 .. MaxEdits + 1]

\* lastEval and lastFire are 0 while absent, as is gen.
Statuses == [gen : 0 .. MaxEdits + 1, since : 0 .. Horizon, lastFire : Slots \cup {0},
             pending : Runs \cup {NoRun}, active : SUBSET Runs, listed : 0 .. Never,
             lastEval : Slots \cup {0}, missed : Nat, lastAttempt : 0 .. MaxAttempt]

NewStatus == [gen |-> 0, since |-> 0, lastFire |-> 0, pending |-> NoRun, active |-> {},
              listed |-> Never, lastEval |-> 0, missed |-> 0, lastAttempt |-> 0]

Existing == {r \in Runs : phase[r] # "None"}
Going    == {r \in Runs : phase[r] = "Running"}

Before(q, r) == q[1] < r[1] \/ (q[1] = r[1] /\ q[2] < r[2])

\* The first n of a set of runs, in the order of their names.
First(n, S) == {r \in S : Cardinality({q \in S : Before(q, r)}) < n}

-----------------------------------------------------------------------------
Init ==
    /\ now = CreatedAt
    /\ spec \in [mode : Modes, retries : RetryChoices, catchUp : CatchUpChoices,
                 policy : Policies, gen : {1}]
    /\ st = NewStatus
    /\ phase = [r \in Runs |-> "None"]
    /\ ended = [r \in Runs |-> 0]
    /\ view = [spec |-> spec, st |-> st]
    /\ behind = FALSE
    /\ pc = "idle"
    /\ pass = <<>>
    /\ faults = 0
    /\ started = <<>>
    /\ fate = "None"

(***************************************************************************)
(* The environment                                                         *)
(***************************************************************************)

Tick ==
    /\ now < Horizon
    /\ pc # "idle" => now < pass.at + PassTicks
    /\ now' = now + 1
    /\ UNCHANGED <<spec, st, phase, ended, view, behind, pc, pass, faults, history>>

\* The watch brings the store up to date.
Deliver ==
    /\ behind
    /\ view' = [spec |-> spec, st |-> st]
    /\ behind' = FALSE
    /\ UNCHANGED <<now, spec, st, phase, ended, pc, pass, faults, history>>

\* A user edits the spec: a new generation, and a new resourceVersion.
Edit ==
    /\ spec.gen <= MaxEdits
    /\ \E m \in Modes, n \in RetryChoices, c \in CatchUpChoices :
          /\ <<m, n, c>> # <<spec.mode, spec.retries, spec.catchUp>>
          /\ spec' = [spec EXCEPT !.mode = m, !.retries = n, !.catchUp = c,
                                  !.gen = @ + 1]
    /\ behind' = TRUE
    /\ pass' = IF pc = "idle" THEN pass ELSE [pass EXCEPT !.fresh = FALSE]
    /\ UNCHANGED <<now, st, phase, ended, view, pc, faults, history>>

\* The Backup controller ends a run: succeeded, failed in a way is_retryable
\* retries, or failed for good.
EndRun(r) ==
    /\ phase[r] = "Running"
    /\ \E outcome \in Terminal :
          /\ phase' = [phase EXCEPT ![r] = outcome]
          /\ ended' = [ended EXCEPT ![r] = IF outcome = "Retryable" THEN now ELSE 0]
          /\ fate' = IF r = started[Len(started)] THEN outcome ELSE fate
    /\ UNCHANGED <<now, spec, st, view, behind, pc, pass, faults, started>>

\* Every reservation of r that some copy of the status still shows.
NamedBy(r) ==
    \/ r \in {st.pending, view.st.pending}
    \/ pc # "idle" /\ pass.st.pending = r

\* A user prunes a terminal run.  The recipe keeps the newest runs: it deletes the
\* attempts of a slot in order, once the status has the slot as fired.
Prune(r) ==
    /\ phase[r] \in Terminal
    /\ r[1] <= st.lastFire /\ ~NamedBy(r)
    /\ \A k \in 0 .. MaxAttempt : k < r[2] => phase[<<r[1], k>>] = "None"
    /\ phase' = [phase EXCEPT ![r] = "None"]
    /\ ended' = [ended EXCEPT ![r] = 0]
    /\ UNCHANGED <<now, spec, st, view, behind, pc, pass, faults, history>>

(***************************************************************************)
(* One reconcile pass                                                      *)
(***************************************************************************)

\* The runtime hands the pass the store's copy; it reads its clock once.
Begin ==
    /\ pc = "idle"
    /\ pc' = "observe"
    /\ pass' = [spec |-> view.spec, st |-> view.st, at |-> now, fresh |-> ~behind,
                next |-> view.st, plan |-> NoRun, resumed |-> FALSE]
    /\ UNCHANGED <<now, spec, st, phase, ended, view, behind, faults, history>>

EndPass == pc' = "idle" /\ pass' = <<>>

\* The process dies or a call fails: whatever the pass wrote stays.
Interrupt ==
    /\ faults < MaxFaults
    /\ pc # "idle"
    /\ EndPass
    /\ faults' = faults + 1
    /\ UNCHANGED <<now, spec, st, phase, ended, view, behind, history>>

InventoryDue ==
    \/ pass.st.listed = Never
    \/ pass.at - pass.st.listed >= InventoryInterval

\* The runs step 1 reads: one bounded list when an inventory is due, else the first
\* MaxActive names the status records, and the reserved one if it is not among them.
Seen == IF InventoryDue
          THEN First(InventoryReach, Existing)
          ELSE Existing \cap (First(MaxActive, pass.st.active)
                              \cup ({pass.st.pending} \ pass.st.active))

\* Mutant of Observed: the reserved child does not join the active set.
ObservedAsRecorded ==
    [pass.next EXCEPT !.active = First(MaxActive, Seen \cap Going \cap @),
                      !.listed = IF InventoryDue THEN pass.at ELSE @]

\* Mutant of Observed: a run that has ended stays in the active set.
ObservedForEver == [pass.next EXCEPT !.active = First(MaxActive, Seen),
                                     !.listed = IF InventoryDue THEN pass.at ELSE @]

\* What the final status says so far.
Observed == [pass.next EXCEPT !.active = First(MaxActive, Seen \cap Going),
                              !.listed = IF InventoryDue THEN pass.at ELSE @]

Reserved == pass.st.pending # NoRun

\* Steps 1 and 2, no reservation, or one whose child exists: it did its job.
Observe ==
    /\ pc = "observe"
    /\ Reserved => pass.st.pending \in Seen
    /\ LET p == pass.st.pending
       IN  pass' = [pass EXCEPT !.next =
             IF Reserved /\ phase[p] # "Running"
               THEN [Observed EXCEPT !.pending = NoRun, !.lastFire = p[1]]
               ELSE [Observed EXCEPT !.pending = NoRun]]
    /\ pc' = "decide"
    /\ UNCHANGED <<now, spec, st, phase, ended, view, behind, faults, history>>

\* Mutant of Resume: an invalid run policy only stops the pass.
ResumeUnreleased ==
    /\ pc = "observe"
    /\ Reserved /\ pass.st.pending \notin Seen
    /\ IF pass.spec.mode = "badPolicy"
         THEN pc' = "finish" /\ pass' = [pass EXCEPT !.next = Observed]
         ELSE /\ pc' = "create"
              /\ pass' = [pass EXCEPT !.next = Observed, !.plan = pass.st.pending,
                                      !.resumed = TRUE]
    /\ UNCHANGED <<now, spec, st, phase, ended, view, behind, faults, history>>

\* Step 2, a reservation without a child: work this schedule accepted, resumed
\* even while suspended.  Only an invalid run policy releases it.
Resume ==
    /\ pc = "observe"
    /\ Reserved /\ pass.st.pending \notin Seen
    /\ IF pass.spec.mode = "badPolicy"
         THEN /\ pc' = "finish"
              /\ pass' = [pass EXCEPT !.next = [Observed EXCEPT !.pending = NoRun,
                                        !.lastAttempt = pass.st.pending[2]]]
         ELSE /\ pc' = "create"
              /\ pass' = [pass EXCEPT !.next = Observed, !.plan = pass.st.pending,
                                      !.resumed = TRUE]
    /\ UNCHANGED <<now, spec, st, phase, ended, view, behind, faults, history>>

\* latest_due_slot; 0 is none.
Due == (pass.at \div Period) * Period

\* decide() and bound_by_creation: there is a slot to decide about.
Eligible == pass.spec.mode = "ok" /\ Due >= CreatedAt

\* walk_retries: whether attempts past 0 can exist at all.
WalkRetries ==
    \/ pass.spec.retries > 0
    \/ \E r \in pass.next.active : r[2] > 0
    \/ pass.st.lastAttempt > 0
    \/ pass.st.pending[2] > 0

\* The attempts of the due slot, by name up to the first that is missing.
Chain == {k \in (IF WalkRetries THEN 0 .. MaxAttempt ELSE {0}) :
            \A j \in 0 .. k : phase[<<Due, j>>] # "None"}

Limit(s) == IF s.policy = "Forbid" THEN 1 ELSE MaxActive

Blocked == Cardinality(pass.next.active) >= Limit(pass.spec)

\* account_skipped with a final disposition: the slots nobody decided about
\* since the last one that was, and this one when it is skipped too.
Account(s, slot, skipped) ==
    IF s.lastEval = slot THEN s
    ELSE [s EXCEPT !.lastEval = slot,
                   !.missed = @ + skipped + (IF s.lastEval = 0 THEN 0 ELSE
                      Cardinality({g \in Slots : s.lastEval < g /\ g < slot}))]

Settle(s) == pc' = "finish" /\ pass' = [pass EXCEPT !.next = s]
Admit(r) == pc' = "reserve" /\ pass' = [pass EXCEPT !.plan = r]

\* Steps 3 and 4: suspended, invalid, or nothing due since the creation.
DecideNothing ==
    /\ pc = "decide"
    /\ ~Eligible
    /\ Settle(pass.next)
    /\ UNCHANGED <<now, spec, st, phase, ended, view, behind, faults, history>>

\* Step 6: decide_attempt of the attempts that exist, n being the highest.
DecideAttempt ==
    /\ pc = "decide"
    /\ Eligible
    /\ \E n \in Chain :
         /\ \A j \in Chain : j <= n
         /\ LET outcome == phase[<<Due, n>>]
                fired   == [pass.next EXCEPT !.lastFire = Due]
                over(k) == Account([fired EXCEPT !.lastAttempt = k], Due, 0)
                done    == {k \in Chain : phase[<<Due, k>>] = "Succeeded"}
                cooled  == pass.at >= ended[<<Due, n>>] + RetryDelay
            IN  IF done # {}
                  THEN \E k \in done : (\A j \in done : k <= j) /\ Settle(over(k))
                ELSE IF outcome = "Running" THEN Settle(fired)
                ELSE IF outcome = "Failed" \/ n >= pass.spec.retries THEN Settle(over(n))
                ELSE IF ~cooled \/ Blocked THEN Settle(fired)
                ELSE Admit(<<Due, n + 1>>)
    /\ UNCHANGED <<now, spec, st, phase, ended, view, behind, faults, history>>

\* admit_slot and refine_against_status: whether the due slot is past its
\* deadline, and whether it is caught up then.
Late == pass.at - Due > StartingDeadline
BeforeRevision == pass.st.gen = pass.spec.gen /\ Due < pass.st.since
Missed == Late /\ (~pass.spec.catchUp \/ BeforeRevision)

\* Mutant of DecideSlot: a fired slot whose run was pruned is fired again.
DecideSlotAgain ==
    /\ pc = "decide"
    /\ Eligible /\ Chain = {}
    /\ IF Missed THEN Settle(Account([pass.next EXCEPT !.lastAttempt = 0], Due, 1))
       ELSE IF Blocked THEN Settle([pass.next EXCEPT !.lastAttempt = 0])
       ELSE Admit(<<Due, 0>>)
    /\ UNCHANGED <<now, spec, st, phase, ended, view, behind, faults, history>>

\* Step 7: no attempt of the due slot exists.
DecideSlot ==
    /\ pc = "decide"
    /\ Eligible /\ Chain = {}
    /\ IF Due <= pass.st.lastFire THEN Settle(Account(pass.next, Due, 0))
       ELSE IF Missed THEN Settle(Account([pass.next EXCEPT !.lastAttempt = 0], Due, 1))
       ELSE IF Blocked THEN Settle([pass.next EXCEPT !.lastAttempt = 0])
       ELSE Admit(<<Due, 0>>)
    /\ UNCHANGED <<now, spec, st, phase, ended, view, behind, faults, history>>

\* admit(), first half: the reservation, if nothing was written since the copy.
Reserve ==
    /\ pc = "reserve"
    /\ IF pass.fresh
         THEN /\ st' = [pass.st EXCEPT !.pending = pass.plan]
              /\ behind' = TRUE
              /\ pc' = "create"
              /\ pass' = [pass EXCEPT !.st = st']
         ELSE EndPass /\ UNCHANGED <<st, behind>>
    /\ UNCHANGED <<now, spec, phase, ended, view, faults, history>>

\* create_run, and what admit() records of it.  A name that is taken is this
\* schedule's own run.
Create ==
    /\ pc = "create"
    /\ LET r == pass.plan
           s == [pass.next EXCEPT !.pending = NoRun, !.lastFire = r[1], !.lastAttempt = r[2],
                                  !.active = IF phase[r] \in Terminal THEN @ ELSE @ \cup {r}]
       IN  /\ IF r \in Existing
                THEN UNCHANGED <<phase, history>>
                ELSE /\ phase' = [phase EXCEPT ![r] = "Running"]
                     /\ started' = Append(started, r)
                     /\ fate' = "None"
           /\ Settle(IF pass.resumed THEN s ELSE Account(s, r[1], 0))
    /\ UNCHANGED <<now, spec, st, ended, view, behind, faults>>

\* policy_status: effectiveSince moves only with the generation.
Final == [pass.next EXCEPT !.gen = pass.spec.gen,
                           !.since = IF pass.st.gen = pass.spec.gen THEN @ ELSE pass.at]

\* finish(): the status is written once, and only if it says something new.
Finish ==
    /\ pc = "finish"
    /\ EndPass
    /\ IF Final # pass.st /\ pass.fresh
         THEN st' = Final /\ behind' = TRUE
         ELSE UNCHANGED <<st, behind>>
    /\ UNCHANGED <<now, spec, phase, ended, view, faults, history>>

Step == \/ Begin \/ Observe \/ Resume \/ DecideNothing \/ DecideAttempt
        \/ DecideSlot \/ Reserve \/ Create \/ Finish

Next ==
    \/ Tick \/ Deliver \/ Edit \/ Interrupt \/ Step
    \/ \E r \in Runs : EndRun(r) \/ Prune(r)

Spec == Init /\ [][Next]_vars

\* Every pass ends in a timed requeue (schedule_action, error_action), the watch
\* delivers, runs end (they have a deadline) and time passes.  Nothing is assumed
\* of users.
Fairness ==
    /\ WF_vars(Step) /\ WF_vars(Deliver) /\ WF_vars(Tick)
    /\ WF_vars(\E r \in Runs : EndRun(r))

FairSpec == Spec /\ Fairness

(***************************************************************************)
(* Properties                                                              *)
(***************************************************************************)

PassType == [spec : Specs, st : Statuses, at : CreatedAt .. Horizon, fresh : BOOLEAN,
             next : Statuses, plan : Runs \cup {NoRun}, resumed : BOOLEAN]

TypeOK ==
    /\ now \in CreatedAt .. Horizon
    /\ spec \in Specs
    /\ st \in Statuses
    /\ phase \in [Runs -> Terminal \cup {"None", "Running"}]
    /\ ended \in [Runs -> 0 .. Horizon]
    /\ view \in [spec : Specs, st : Statuses]
    /\ behind \in BOOLEAN
    /\ pc \in {"idle", "observe", "decide", "reserve", "create", "finish"}
    /\ IF pc = "idle" THEN pass = <<>> ELSE pass \in PassType
    /\ pc \in {"reserve", "create"} => pass.plan \in Runs
    /\ faults \in 0 .. MaxFaults
    /\ started \in Seq(Runs)
    /\ fate \in Terminal \cup {"None"}

LastStarted == IF started = <<>> THEN NoRun ELSE started[Len(started)]

\* What can come between a reservation and the final status of its pass.
Upsets == faults + (spec.gen - 1)
Excess == IF Upsets = 0 THEN 0 ELSE Upsets - 1

\* How many runs may be under way at once: Forbid is kept, and under Allow every
\* upset after the first may let one more through.
Ceiling == IF spec.policy = "Forbid" THEN 1 ELSE MaxActive + Excess

\* Seen from outside the schedule starts each slot and attempt once, in order,
\* retries only what just failed retryably, and keeps to the ceiling, whatever pass
\* is stale, refused or cut short.
Outside == INSTANCE ScheduledRuns WITH limit <- Ceiling, last <- LastStarted,
              going <- Going, retryable <- (fate = "Retryable")

ImplementsScheduledRuns == Outside!Spec

\* The status never loses a run that is under way: it is in activeRuns, or
\* reserved (schedule_history.rs, observe: "every schedule-created run is
\* recorded ... before it is created").
ActiveIsComplete == Going \subseteq st.active \cup {st.pending}

\* An accepted reservation does not outlive its purpose, even when the process
\* dies in between, the schedule is suspended or its spec becomes invalid: the
\* run is created, or it is given up, and time and again nothing is reserved.
ReservationResolves == []<>(st.pending = NoRun)

\* Every slot since the creation is at last fired, skipped or superseded, unless
\* the schedule is suspended or invalid: time and again none of those due is left.
EverySlotIsAnswered ==
    []<>(\A s \in {t \in Slots : CreatedAt <= t /\ t <= now} :
            st.lastFire >= s \/ st.lastEval >= s \/ spec.mode # "ok")

\* No more runs are under way than concurrencyPolicy allows
\* (schedule_history.rs: "Correctness does not depend on list freshness: every
\* schedule-created run is recorded in pendingRun/activeRuns ... so admission
\* always sees the latest admitted run").
ConcurrencyKept == Cardinality(Going) <= Limit(spec)

\* One upset never lets a run through, and each after it lets through one run at most:
\* the last run admitted is known from its reservation until another is reserved over it.
OvershootIsBounded == Cardinality(Going) <= Limit(spec) + Excess

=============================================================================
