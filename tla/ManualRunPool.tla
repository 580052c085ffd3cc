--------------------------- MODULE ManualRunPool ---------------------------
(***************************************************************************)
(* The manual-run pool of one workspace (crates/weirkeeper/src/run_pool.rs *)
(* and the gates of controllers/backup.rs and controllers/restore.rs that  *)
(* call it): how many "Back up now" or manual-restore runs may be active   *)
(* at once.                                                                *)
(*                                                                         *)
(* The controller counts from the reflector store, a copy of the API       *)
(* server's objects that lags its own writes.  What closes the gap is a    *)
(* reservation, kept in the process's memory under one lock, and a durable *)
(* Admitted=True condition written before anything is created for the run. *)
(*                                                                         *)
(* Time is kept as ages that Tick advances together, so that the model is  *)
(* finite without a bound on how long it runs.                             *)
(***************************************************************************)
EXTENDS Naturals, Sequences, FiniteSets

CONSTANTS
    Run,            \* UIDs, numbered in QueueKey order (creation time, then UID)
    Kind,           \* PoolKind of this pool: "Backup" or "Restore"
    Limit,          \* the ceiling for this kind in the installation policy
    TTL,            \* RESERVATION_TTL_SECONDS, in ticks
    PassDelay,      \* longest reconcile pass, in ticks
    WatchDelay,     \* longest the watch takes to show a write, in ticks
    MaxFaults       \* bound: restarts, failed API calls, passes that start on an
                    \* out-of-date copy and deletions by a user, together

ASSUME RunAssumption   == Run \subseteq Nat /\ IsFiniteSet(Run)
ASSUME LimitAssumption == Limit \in Nat
ASSUME DelayAssumption == /\ TTL \in Nat /\ PassDelay \in Nat /\ WatchDelay \in Nat
                          /\ PassDelay + WatchDelay <= TTL
ASSUME KindAssumption  == Kind \in {"Backup", "Restore"}
ASSUME BoundAssumption == MaxFaults \in Nat

VARIABLES
    (***********************************************************************)
    (* The API server                                                      *)
    (***********************************************************************)
    status,   \* status[r]: what the object of run r says
    job,      \* job[r]: the runner Job of r exists
    probe,    \* probe[r]: a topic-discovery Job was created for r
    (***********************************************************************)
    (* The watch                                                           *)
    (***********************************************************************)
    events,   \* changes the watch has not delivered, oldest first
    view,     \* view[r]: what the reflector store says of r
    (***********************************************************************)
    (* The controller process                                              *)
    (***********************************************************************)
    held,     \* held[r]: age of the reservation of r, or NoRes
    pc,       \* pc[r]: where the reconcile pass of r is
    copy,     \* copy[r]: the status this pass was handed
    fresh,    \* fresh[r]: no write to r is newer than that copy
    passAge,  \* passAge[r]: how long ago the pass read its clock
    synced,   \* the watch has finished its first list
    (***********************************************************************)
    (* A history, which no step reads                                      *)
    (***********************************************************************)
    misread,  \* the runs a pass took past the gate on a copy that was out of date
    (***********************************************************************)
    (* Bound                                                               *)
    (***********************************************************************)
    faults

apiVars  == <<status, job, probe>>
passVars == <<pc, copy, fresh, passAge>>
vars     == <<status, job, probe, events, view, held, pc, copy, fresh,
              passAge, synced, misread, faults>>

(***************************************************************************)
(* Statuses.  "New" has no phase; "Pending" is a hold on a destination or  *)
(* an approval; "Admitted" is Admitted=True with nothing frozen; "Frozen"  *)
(* has a recorded status.execution; "Running" a jobRef.  "Absent" and      *)
(* "Deleted" objects are in no list.                                       *)
(***************************************************************************)
Waiting   == {"New", "Queued"}
Occupying == {"Admitted", "Frozen", "Running"}
Gone      == {"Absent", "Deleted"}
Status    == Waiting \cup Occupying \cup Gone \cup {"Pending", "Finished"}

Event == [run : Run, status : Status, age : 0 .. WatchDelay]

Listed(r) == view[r] \notin Gone

\* Reservations older than MaxAge are alike: every pass has dropped them.
MaxAge   == TTL + PassDelay + 1
NoRes    == MaxAge + 1
Older(a) == IF a < MaxAge THEN a + 1 ELSE MaxAge

Reserved(h, r) == h[r] # NoRes

\* Changes to r the watch has still to deliver.
Unseen(r) == {i \in DOMAIN events : events[i].run = r}

\* A status write the API server accepts: the object changes and the watch
\* will say so.
Store(r, s) ==
    /\ status' = [status EXCEPT ![r] = s]
    /\ events' = Append(events, [run |-> r, status |-> s, age |-> 0])

Fault == faults < MaxFaults /\ faults' = faults + 1

EndPass(r) ==
    /\ pc' = [pc EXCEPT ![r] = "idle"]
    /\ passAge' = [passAge EXCEPT ![r] = 0]
    /\ copy' = [copy EXCEPT ![r] = "Absent"]
    /\ fresh' = [fresh EXCEPT ![r] = FALSE]

Continue(r, to) ==
    /\ pc' = [pc EXCEPT ![r] = to]
    /\ UNCHANGED <<copy, fresh, passAge>>

-----------------------------------------------------------------------------
Init ==
    /\ status   = [r \in Run |-> "Absent"]
    /\ job      = [r \in Run |-> FALSE]
    /\ probe    = [r \in Run |-> FALSE]
    /\ events   = <<>>
    /\ view     = [r \in Run |-> "Absent"]
    /\ held     = [r \in Run |-> NoRes]
    /\ pc       = [r \in Run |-> "idle"]
    /\ copy     = [r \in Run |-> "Absent"]
    /\ fresh    = [r \in Run |-> FALSE]
    /\ passAge  = [r \in Run |-> 0]
    /\ synced   = TRUE
    /\ misread  = {}
    /\ faults   = 0

(***************************************************************************)
(* The environment                                                         *)
(***************************************************************************)

\* A user, the console or a runbook creates the object of r.
Submit(r) ==
    /\ status[r] = "Absent"
    /\ Store(r, "New")
    /\ UNCHANGED <<job, probe, view, held, passVars, synced, misread, faults>>

\* A user deletes the object; its Jobs go with it.
Delete(r) ==
    /\ Fault
    /\ status[r] \notin Gone
    /\ Store(r, "Deleted")
    /\ fresh' = [fresh EXCEPT ![r] = FALSE]
    /\ job' = [job EXCEPT ![r] = FALSE]
    /\ probe' = [probe EXCEPT ![r] = FALSE]
    /\ UNCHANGED <<view, held, pc, copy, passAge, synced, misread>>

\* The watch delivers its oldest event into the store.
Deliver ==
    /\ synced
    /\ events # <<>>
    /\ view' = [view EXCEPT ![Head(events).run] = Head(events).status]
    /\ events' = Tail(events)
    /\ UNCHANGED <<apiVars, held, passVars, synced, misread, faults>>

\* Time passes, but never past the delays this instance allows a pass or the
\* watch.
Tick ==
    /\ \A i \in DOMAIN events : events[i].age < WatchDelay
    /\ \A r \in Run : pc[r] # "idle" => passAge[r] < PassDelay
    /\ events' = [i \in DOMAIN events |-> [events[i] EXCEPT !.age = @ + 1]]
    /\ held' = [r \in Run |-> IF Reserved(held, r) THEN Older(held[r]) ELSE NoRes]
    /\ passAge' = [r \in Run |-> IF pc[r] = "idle" THEN 0 ELSE passAge[r] + 1]
    /\ UNCHANGED <<apiVars, view, pc, copy, fresh, synced, misread, faults>>

\* The process dies.  Reservations and passes are lost; its successor decides
\* nothing before its watch has finished a first list.
Crash ==
    /\ Fault
    /\ synced' = FALSE
    /\ held' = [r \in Run |-> NoRes]
    /\ pc' = [r \in Run |-> "idle"]
    /\ copy' = [r \in Run |-> "Absent"]
    /\ fresh' = [r \in Run |-> FALSE]
    /\ passAge' = [r \in Run |-> 0]
    /\ UNCHANGED <<apiVars, events, view, misread>>

Relist ==
    /\ ~synced
    /\ synced' = TRUE
    /\ view' = status
    /\ events' = <<>>
    /\ UNCHANGED <<apiVars, held, passVars, misread, faults>>

(***************************************************************************)
(* One reconcile pass of run r                                             *)
(***************************************************************************)

\* The runtime hands the pass the store's copy of the object.
Begin(r) ==
    /\ synced
    /\ pc[r] = "idle"
    /\ Listed(r)
    /\ view[r] # "Finished"
    /\ pc' = [pc EXCEPT ![r] = "start"]
    /\ copy' = [copy EXCEPT ![r] = view[r]]
    /\ fresh' = [fresh EXCEPT ![r] = (Unseen(r) = {})]
    /\ passAge' = [passAge EXCEPT ![r] = 0]
    /\ IF Unseen(r) = {} THEN UNCHANGED faults ELSE Fault
    /\ UNCHANGED <<apiVars, events, view, held, synced, misread>>

\* An API call of the pass fails; the requeue starts another pass later.
Abort(r) ==
    /\ Fault
    /\ pc[r] # "idle"
    /\ EndPass(r)
    /\ UNCHANGED <<apiVars, events, view, held, synced, misread>>

\* A write the pass makes on the version it was handed: accepted, and the pass
\* goes on at `to` over the object it wrote, or refused with a 409 and the pass
\* ends.
WriteStatus(r, s, to) ==
    \/ /\ fresh[r]
       /\ Store(r, s)
       /\ IF to = "idle"
            THEN EndPass(r)
            ELSE /\ pc' = [pc EXCEPT ![r] = to]
                 /\ copy' = [copy EXCEPT ![r] = s]
                 /\ UNCHANGED <<fresh, passAge>>
    \/ /\ ~fresh[r]
       /\ EndPass(r)
       /\ UNCHANGED <<status, events>>

\* The runner Job of r is read from the API server, never from the copy: a run
\* with one is past the gate.
NothingRuns(r) == pc[r] = "start" /\ ~job[r]

\* The destination (or, for a Restore, the approval) is not usable: the run is
\* held.  A Backup that froze its inputs is not asked again.  A hold the status
\* already says is not written again.
Hold(r) ==
    /\ NothingRuns(r)
    /\ copy[r] # "Frozen"
    /\ IF copy[r] = "Pending"
         THEN EndPass(r) /\ UNCHANGED <<status, events>>
         ELSE WriteStatus(r, "Pending", "idle")
    /\ UNCHANGED <<job, probe, view, held, synced, misread, faults>>

\* A refusal, before the gate or on the way to the Job, or a hold that outlived
\* its budget: terminal.
Refuse(r) ==
    /\ NothingRuns(r) \/ pc[r] = "create"
    /\ WriteStatus(r, "Finished", "idle")
    /\ UNCHANGED <<job, probe, view, held, synced, misread, faults>>

\* The gate reads the copy.  The watch may not have shown the write of an
\* earlier pass that gave the run its slot, or took it away: the pass then
\* decides about a run that holds one, or resumes a run that holds none.
Misread(r) == (copy[r] \in Occupying) # (status[r] \in Occupying)

NoteMisread(r) == misread' = IF Misread(r) THEN misread \cup {r} ELSE misread

\* backup_gated / restore_gated.
Gated(r) == NothingRuns(r) /\ copy[r] \notin Occupying

\* Mutant of Keep: a reservation that outlives its run is never dropped.
KeepForever(c, r) ==
    Reserved(held, r) /\ Listed(r) /\ view[r] \notin Occupying \cup {"Finished"}

\* Mutant of Keep: the TTL check is off by one tick.
KeepTooBriefly(c, r) ==
    /\ Reserved(held, r)
    /\ held[r] < TTL + passAge[c]
    /\ Listed(r)
    /\ view[r] \notin Occupying \cup {"Finished"}

\* What decide() keeps of the reservations, for a pass of candidate c: not one
\* past its TTL, and not one the store has caught up with.
Keep(c, r) ==
    /\ Reserved(held, r)
    /\ held[r] <= TTL + passAge[c]
    /\ Listed(r)
    /\ view[r] \notin Occupying \cup {"Finished"}

Pruned(c) == [r \in Run |-> IF Keep(c, r) THEN held[r] ELSE NoRes]

\* Mutant of Active: only the store is counted, not the reservations.
ActiveInStore(c) == {r \in Run \ {c} : view[r] \in Occupying}

Active(c) ==
    {r \in Run \ {c} : /\ Listed(r)
                       /\ \/ view[r] \in Occupying
                          \/ view[r] # "Finished" /\ Keep(c, r)}

Ahead(c) == {r \in Run \ {c} : view[r] \in Waiting /\ ~Keep(c, r) /\ r < c}

\* Mutant of Decide: an admission that reserves nothing.
DecideUnreserved(r) ==
    /\ Gated(r)
    /\ held' = Pruned(r)
    /\ Continue(r, IF Cardinality(Active(r)) + Cardinality(Ahead(r)) < Limit
                      THEN "admitted" ELSE "queued")
    /\ NoteMisread(r)
    /\ UNCHANGED <<apiVars, events, view, synced, faults>>

\* decide(): snapshot, prune, count and reserve under one lock.
Decide(r) ==
    /\ Gated(r)
    /\ LET admit == Cardinality(Active(r)) + Cardinality(Ahead(r)) < Limit
       IN  /\ held' = [Pruned(r) EXCEPT ![r] = IF admit THEN passAge[r] ELSE NoRes]
           /\ Continue(r, IF admit THEN "admitted" ELSE "queued")
    /\ NoteMisread(r)
    /\ UNCHANGED <<apiVars, events, view, synced, faults>>

\* Mutant of RecordAdmission: the reservation is taken for the record.
AdmitInMemory(r) ==
    /\ pc[r] = "admitted"
    /\ Continue(r, "create")
    /\ UNCHANGED <<apiVars, events, view, held, synced, misread, faults>>

\* The durable admission record, before anything is created.
RecordAdmission(r) ==
    /\ pc[r] = "admitted"
    /\ WriteStatus(r, "Admitted", "create")
    /\ UNCHANGED <<job, probe, view, held, synced, misread, faults>>

\* Queued is written once; a run that says so already is left as it is.
RecordQueued(r) ==
    /\ pc[r] = "queued"
    /\ IF copy[r] = "Queued"
         THEN EndPass(r) /\ UNCHANGED <<status, events>>
         ELSE WriteStatus(r, "Queued", "idle")
    /\ UNCHANGED <<job, probe, view, held, synced, misread, faults>>

\* A run that already holds a slot goes on where an earlier pass stopped.
Resume(r) ==
    /\ NothingRuns(r)
    /\ copy[r] \in Occupying
    /\ Continue(r, "create")
    /\ NoteMisread(r)
    /\ UNCHANGED <<apiVars, events, view, held, synced, faults>>

\* A Backup of every user topic first runs a topic-discovery Job; the pass ends
\* until it has answered.
Discover(r) ==
    /\ Kind = "Backup"
    /\ pc[r] = "create" /\ copy[r] = "Admitted"
    /\ ~probe[r]
    /\ probe' = [probe EXCEPT ![r] = TRUE]
    /\ EndPass(r)
    /\ UNCHANGED <<status, job, events, view, held, synced, misread, faults>>

\* A Backup records its frozen inputs in status.execution before its Job.
Freeze(r) ==
    /\ Kind = "Backup"
    /\ pc[r] = "create" /\ copy[r] = "Admitted"
    /\ WriteStatus(r, "Frozen", "create")
    /\ UNCHANGED <<job, probe, view, held, synced, misread, faults>>

\* The runner Job is created and the status says so; a crash or an error after
\* the create leaves the status as it was.
CreateJob(r) ==
    /\ pc[r] = "create"
    /\ Kind = "Backup" => copy[r] = "Frozen"
    /\ status[r] \notin Gone
    /\ job' = [job EXCEPT ![r] = TRUE]
    /\ \/ WriteStatus(r, "Running", "idle")
       \/ EndPass(r) /\ UNCHANGED <<status, events>>
    /\ UNCHANGED <<probe, view, held, synced, misread, faults>>

\* A Restore whose plan or approval bundle could not be materialised is held
\* again, and the hold replaces its conditions, Admitted=True included.
HoldMaterialization(r) ==
    /\ Kind = "Restore"
    /\ pc[r] = "create"
    /\ WriteStatus(r, "Pending", "idle")
    /\ UNCHANGED <<job, probe, view, held, synced, misread, faults>>

\* A pass that finds its Job running says so, once.
ObserveRunning(r) ==
    /\ pc[r] = "start" /\ job[r] /\ copy[r] # "Running"
    /\ WriteStatus(r, "Running", "idle")
    /\ UNCHANGED <<job, probe, view, held, synced, misread, faults>>

\* A pass that finds its Job finished records the outcome.
ObserveFinished(r) ==
    /\ pc[r] = "start" /\ job[r]
    /\ WriteStatus(r, "Finished", "idle")
    /\ UNCHANGED <<job, probe, view, held, synced, misread, faults>>

Pass(r) ==
    \/ Begin(r) \/ Abort(r) \/ Hold(r) \/ Refuse(r) \/ Decide(r)
    \/ RecordAdmission(r) \/ RecordQueued(r) \/ Resume(r) \/ Discover(r)
    \/ Freeze(r) \/ CreateJob(r) \/ HoldMaterialization(r)
    \/ ObserveRunning(r) \/ ObserveFinished(r)

Next ==
    \/ \E r \in Run : Submit(r) \/ Delete(r) \/ Pass(r)
    \/ Deliver \/ Tick \/ Crash \/ Relist

Spec == Init /\ [][Next]_vars

\* What a pass does when nothing fails and its run is not held or refused.
Advance(r) ==
    \/ Begin(r) \/ Decide(r) \/ RecordAdmission(r) \/ RecordQueued(r)
    \/ Resume(r) \/ Discover(r) \/ Freeze(r) \/ CreateJob(r)
    \/ ObserveRunning(r) \/ ObserveFinished(r)

\* Every object is requeued (REQUEUE_SECS), a pass runs to its end, a runner Job
\* ends (it has a deadline), the watch delivers, and time passes: strongly fair,
\* because passes are at least a requeue apart and cannot stop the clock.  Nothing
\* is assumed of users, refusals or holds.
Fairness ==
    /\ WF_vars(Deliver) /\ SF_vars(Tick) /\ WF_vars(Relist)
    /\ \A r \in Run : WF_vars(Advance(r))

FairSpec == Spec /\ Fairness

(***************************************************************************)
(* Properties                                                              *)
(***************************************************************************)

TypeOK ==
    /\ status \in [Run -> Status]
    /\ job \in [Run -> BOOLEAN]
    /\ probe \in [Run -> BOOLEAN]
    /\ events \in Seq(Event)
    /\ view \in [Run -> Status]
    /\ held \in [Run -> 0 .. NoRes]
    /\ pc \in [Run -> {"idle", "start", "admitted", "queued", "create"}]
    /\ copy \in [Run -> Status]
    /\ fresh \in [Run -> BOOLEAN]
    /\ passAge \in [Run -> 0 .. PassDelay]
    /\ synced \in BOOLEAN
    /\ misread \subseteq Run
    /\ faults \in 0 .. MaxFaults

\* The runs whose own object says they hold a slot.
Holders == {r \in Run : status[r] \in Occupying}

\* The slots the pool answers for: those of the runs no pass misread.
Slots == Holders \ misread

\* The ceiling: however the passes of a burst interleave, whatever the store
\* has not shown yet and whenever the process restarts, no more runs hold a
\* slot than the installation policy allows (run_pool.rs, "a burst of any size
\* admits at most the ceiling"), one more at most for each run that was misread:
\* the decision of a pass on a copy older than its run's own admission drops the
\* reservation that covers the run.
Ceiling == Cardinality(Slots) <= Limit

\* Outside the controller the pool is just that bound: the durable statuses
\* implement the abstract pool, each admission record being its Take, and a
\* misread run counting as one that gave its slot back.
Pool == INSTANCE BoundedPool WITH holders <- Slots

ImplementsPool == Pool!Spec

\* Nobody waits for ever: a run with no phase or Queued is at last admitted,
\* held, refused or deleted, whatever reservations earlier passes left behind
\* (run_pool.rs: one that outlives its run "under-admits for at most this
\* long").
EventuallyServed == \A r \in Run : status[r] \in Waiting ~> status[r] \notin Waiting

\* Nothing runs unaccounted for: a runner Job exists only for a run that every
\* process counts, that has finished, or that was misread (a Restore held again
\* while the copy still said it had its slot).
JobsAreCounted ==
    \A r \in Run \ misread : job[r] => status[r] \in Occupying \cup {"Finished"}

=============================================================================
