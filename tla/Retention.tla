----------------------------- MODULE Retention -----------------------------
(***************************************************************************)
(* One RetentionPolicy in mode Enforce: its controller                     *)
(* (crates/weirkeeper/src/controllers/retention_policy.rs and              *)
(* retention_plan.rs), the deletion Jobs it starts (crates/logweir-reaper, *)
(* crates/logweir-retention), the archive they delete from, the catalog    *)
(* view the plan is made from, and the Restores that read the archive.     *)
(*                                                                         *)
(* The controller is the only writer of the policy's status; every write   *)
(* carries the resourceVersion the pass read, and an edit of the spec      *)
(* moves it.  A pass that begins from a stale copy of the policy has its   *)
(* first write refused and every later one too, so it changes nothing:     *)
(* passes here begin from the object as it is, and an edit meets them half *)
(* way (fresh).  A crash and a failed call end a pass alike, since nothing *)
(* is kept in memory.                                                      *)
(*                                                                         *)
(* Points are numbered in the order they were taken.  A plan is its        *)
(* content, which is what its digest stands for, and a run is named by a   *)
(* plan and a slot.                                                        *)
(***************************************************************************)
EXTENDS Integers, FiniteSets, FiniteSetsExt

CONSTANTS
    N,              \* bound: how many points are ever taken
    Initial,        \* how many of them there are at first
    BackupEvery,    \* bound: ticks between two later points
    Shared,         \* points whose receipt names the set of the point before
    Segments,       \* how many segments a set has
    KeepChoices,    \* spec.rules.keepLast values
    KeepFor,        \* spec.rules.keepDays, in ticks
    MinUsable,      \* spec.rules.minUsablePoints
    Holdable,       \* points spec.holds may name
    Restorable,     \* bound: sets that are restored
    AttendedChoices,\* spec.enforcement.requireApprovedPlan values
    MaxDeletions,   \* spec.enforcement.maxDeletionsPerRun
    MaxObjects,     \* spec.enforcement.maxObjectsPerRun
    Period,         \* ticks between two slots of spec.enforcement.schedule
    PlanMaxAge,     \* spec.enforcement.planMaxAgeSeconds, in ticks
    Deadline,       \* spec.enforcement.deadlineSeconds, in ticks
    ViewLife,       \* how long a published catalog view is good for, in ticks
    PartialViews,   \* a walk of the archive may stop before its end
    DeepCheck,      \* the catalog reads manifests (spec.sync.deepCheck is not None)
    DegradedAfter,  \* DEGRADED_AFTER_FAILURES
    ReprobeAfter,   \* REPROBE_AFTER, in ticks
    Versioning,     \* the bucket's versioning may be switched on
    Horizon,        \* bound: the last instant
    MaxEdits,       \* bound: spec edits
    MaxRefusals,    \* bound: points whose Backup's verdict turns to a refusal
    MaxFaults       \* bound: crashes, failed calls and killed pods

Points   == 1 .. N
SetOf    == [p \in Points |-> IF p \in Shared THEN p - 1 ELSE p]
Sets     == {SetOf[p] : p \in Points}
Manifest == 0
Keys     == 0 .. Segments

ASSUME ArchiveAssumption ==
    /\ N \in Nat /\ Initial \in 0 .. N /\ BackupEvery \in Nat \ {0} /\ Segments \in Nat
    /\ Shared \subseteq 2 .. Initial /\ \A p \in Shared : p - 1 \notin Shared
    /\ Holdable \subseteq Points /\ Restorable \subseteq Sets
ASSUME RuleAssumption ==
    /\ KeepChoices \subseteq Nat \ {0} /\ KeepFor \in Nat /\ MinUsable \in Nat
    /\ AttendedChoices \subseteq BOOLEAN /\ DeepCheck \in BOOLEAN /\ PartialViews \in BOOLEAN
    /\ MaxDeletions \in Nat /\ MaxObjects \in Nat \ {0}
    /\ DegradedAfter \in Nat \ {0}
ASSUME RetentionTimes ==
    /\ Period \in Nat \ {0} /\ PlanMaxAge \in Nat /\ Deadline \in Nat
    /\ ViewLife \in Nat /\ ReprobeAfter \in Nat /\ Horizon \in Nat \ {0}
ASSUME RetentionBounds ==
    /\ Versioning \in BOOLEAN /\ MaxEdits \in Nat /\ MaxRefusals \in Nat /\ MaxFaults \in Nat

VARIABLES
    now,
    there,       \* there[s]: the objects that can be read under set s
    marked,      \* marked[s]: those only a delete marker hides
    versioned,   \* when the bucket's versioning was switched on, or 0
    refused,     \* points whose Backup carries a refused verdict
    view,        \* the catalog view: rows, those Available, until when, whether whole
    reading,     \* sets a nonterminal Restore reads
    spec, st,    \* the policy's spec and status
    pc, pass,    \* where the controller's pass is, and the run it would start
    fresh,       \* the pass's resourceVersion is the object's
    job,         \* the deletion Jobs that exist, by the run they are named after
    intents,     \* <<run, point>> whose intent tombstone is written
    completed,   \* <<run, point>> whose completion tombstone says Deleted
    faults,      \* bound
    (***********************************************************************)
    (* History, read by no action                                          *)
    (***********************************************************************)
    late,        \* sets whose Restore began after a run was cleared to start
    astray,      \* Jobs whose run record was withdrawn: their create was answered with an
                 \* error and had happened
    streak       \* failed runs, none of those, since the last success or spec edit

archive == <<there, marked, versioned, intents, completed>>
policy  == <<st, pc, pass, fresh>>
vars == <<now, archive, refused, view, reading, spec, policy, job, faults, late, astray, streak>>

NoPlan == [keep |-> 0, lines |-> {}, old |-> {}]
NoRun  == <<NoPlan, 0>>

Lost == [exit |-> "lost", failed |-> {}]   \* nothing could be read of how it ended

-----------------------------------------------------------------------------
(***************************************************************************)
(* The plan                                                                *)
(***************************************************************************)

Taken(p) == IF p <= Initial THEN 0 ELSE BackupEvery * (p - Initial)
Existing == {p \in Points : Taken(p) <= now}

Usable  == view.ok \ refused
Rank(p) == Cardinality({q \in Usable : q > p})   \* 0 is the newest
TooOld(p) == now > Taken(p) + KeepFor

NeverCandidates == IF MinUsable > 1 THEN MinUsable ELSE 1

Unprotected(p) == SetOf[p] \notin reading /\ p \notin spec.held /\ p \notin st.locked

\* Mutant of Candidate: the rules alone decide.
CandidateByRules(p) ==
    /\ Unprotected(p)
    /\ TooOld(p) \/ Rank(p) >= spec.keep

Candidate(p) ==
    /\ Rank(p) >= NeverCandidates
    /\ Unprotected(p)
    /\ TooOld(p) \/ Rank(p) >= spec.keep

\* Points of one set go together or not at all.
Group(p) == {q \in view.rows : SetOf[q] = SetOf[p]}
Eligible == {p \in Usable : \A q \in Group(p) : q \in Usable /\ Candidate(q)}

\* Newest first, each group whole when it still fits under the ceiling.
Selected ==
    LET upTo[p \in 1 .. N + 1] ==
            IF p = N + 1 THEN {}
            ELSE LET with == upTo[p + 1] \cup (Group(p) \cap Eligible) IN
                 IF p \in Eligible /\ Cardinality(with) <= MaxDeletions
                 THEN with ELSE upTo[p + 1]
    IN  {p \in Eligible : Group(p) \subseteq upTo[1]}

Plan == [keep |-> spec.keep, lines |-> Selected, old |-> {p \in Selected : TooOld(p)}]

-----------------------------------------------------------------------------
(***************************************************************************)
(* The decision                                                            *)
(***************************************************************************)

Due == (now \div Period) * Period   \* the latest due slot, or 0

\* A spec change releases a degraded policy.
BudgetBefore == IF st.gen # spec.gen THEN 0 ELSE st.failures
Adopted == [st EXCEPT !.gen = spec.gen, !.failures = BudgetBefore]

ReprobeDue == st.bucketOnly /\ st.ended # 0 /\ now >= st.ended + ReprobeAfter

WindowOpen(plan) == st.plan = plan /\ now <= st.until
PlanExpired(plan) == st.plan = plan /\ now > st.until

\* Mutant of MayStart: a view that is not whole will do.
MayStartOnPart(plan) ==
    /\ spec.enforce
    /\ view.until > now
    /\ BudgetBefore < DegradedAfter \/ ReprobeDue
    /\ plan.lines # {}
    /\ ~spec.attended

MayStart(plan) ==
    /\ spec.enforce
    /\ view.until > now /\ view.whole
    /\ BudgetBefore < DegradedAfter \/ ReprobeDue
    /\ plan.lines # {}
    /\ spec.attended =>
        /\ Due # 0 /\ now <= Due + PlanMaxAge
        /\ st.run # <<plan, Due>>
        /\ spec.approved = plan
        /\ ~PlanExpired(plan)

RunOf(plan) == <<plan, IF Due = 0 THEN now ELSE Due>>

Tracked == st.run # NoRun /\ st.ended = 0

\* A run has passed the list of Restores and has not ended.
Cleared ==
    \/ pc \in {"record", "create"}
    \/ \E r \in DOMAIN job : job[r].step # "done"

Init ==
    /\ now = 1
    /\ there = [s \in Sets |-> IF s \in Existing THEN Keys ELSE {}]
    /\ marked = [s \in Sets |-> {}]
    /\ versioned = 0
    /\ refused = {}
    /\ view = [rows |-> Existing, ok |-> Existing, until |-> now + ViewLife, whole |-> TRUE]
    /\ reading = {}
    /\ spec \in [approved : {NoPlan}, attended : AttendedChoices, keep : KeepChoices, held : {{}},
               enforce : {TRUE}, gen : {1}]
    /\ st = [plan |-> NoPlan, until |-> 0, run |-> NoRun, ended |-> 0, locked |-> {},
             bucketOnly |-> FALSE, lease |-> NoRun, failures |-> 0, gen |-> 0]
    /\ pc = "idle"
    /\ pass = NoRun
    /\ fresh = TRUE
    /\ job = [r \in {} |-> Lost]
    /\ intents = {}
    /\ completed = {}
    /\ faults = 0
    /\ late = {}
    /\ astray = {}
    /\ streak = 0

(***************************************************************************)
(* The environment                                                         *)
(***************************************************************************)

\* Time passes; backups complete as it does.
Tick ==
    /\ now < Horizon
    /\ now' = now + 1
    /\ there' = [s \in Sets |-> IF Taken(s) = now + 1 THEN Keys ELSE there[s]]
    /\ UNCHANGED <<marked, versioned, intents, completed, refused, view, reading, spec, policy,
                   job, faults, late, astray, streak>>

\* The catalog walks the archive and publishes what it saw, less what it did not reach.
Sync ==
    \E cut \in {{}} \cup (IF PartialViews THEN {{p} : p \in Existing} ELSE {}) :
        LET rows == Existing \ cut IN
        /\ view' = [rows |-> rows,
                    ok |-> {p \in rows : DeepCheck => Manifest \in there[SetOf[p]]},
                    until |-> now + ViewLife, whole |-> cut = {}]
        /\ UNCHANGED <<now, archive, refused, reading, spec, policy, job, faults, late, astray, streak>>

RefuseVerdict(p) ==
    /\ p \in Existing \ refused
    /\ Cardinality(refused) < MaxRefusals
    /\ refused' = refused \cup {p}
    /\ UNCHANGED <<now, archive, view, reading, spec, policy, job, faults, late, astray, streak>>

SwitchOnVersioning ==
    /\ Versioning /\ versioned = 0
    /\ versioned' = now
    /\ UNCHANGED <<now, there, marked, intents, completed, refused, view, reading, spec, policy,
                   job, faults, late, astray, streak>>

BeginRestore(s) ==
    /\ s \in Restorable \ reading /\ Manifest \in there[s]
    /\ reading' = reading \cup {s}
    /\ late' = IF Cleared THEN late \cup {s} ELSE late
    /\ UNCHANGED <<now, archive, refused, view, spec, policy, job, faults, astray, streak>>

EndRestore(s) ==
    /\ s \in reading
    /\ reading' = reading \ {s}
    /\ late' = late \ {s}
    /\ UNCHANGED <<now, archive, refused, view, spec, policy, job, faults, astray, streak>>

\* A user approves the plan on show or withdraws approval, changes the rules or the
\* holds, or turns enforcement off or on.
Edit ==
    /\ spec.gen <= MaxEdits
    /\ \E new \in [approved : {NoPlan, spec.approved, st.plan},
                   attended : {spec.attended}, keep : KeepChoices,
                   held : SUBSET Holdable, enforce : BOOLEAN, gen : {spec.gen + 1}] :
           /\ [new EXCEPT !.gen = spec.gen] # spec
           /\ spec' = new
    /\ fresh' = FALSE
    /\ streak' = 0
    /\ UNCHANGED <<now, archive, refused, view, reading, st, pc, pass, job, faults, late, astray>>

Fault ==
    /\ faults < MaxFaults
    /\ faults' = faults + 1

(***************************************************************************)
(* The controller's pass                                                   *)
(***************************************************************************)

\* What a pass learns of a run: its Job may be gone, and so may its pod.
ReportOf(r) == IF r \in DOMAIN job THEN job[r].report ELSE Lost

Codes(report) == {f[2] : f \in report.failed}
BucketLevel(report) == report.failed # {} /\ Codes(report) \subseteq {"Versioned"}
BoundedOnly(report) == report.failed # {} /\ Codes(report) = {"Budget"}

\* Mutant of FailuresAfter: a run that reports nothing costs nothing.
FailuresReported(report) ==
    IF report.exit = "ok" THEN 0
    ELSE IF BoundedOnly(report) \/ report = Lost THEN BudgetBefore
    ELSE BudgetBefore + 1

FailuresAfter(report) ==
    IF report.exit = "ok" THEN 0
    ELSE IF BoundedOnly(report) THEN BudgetBefore
    ELSE BudgetBefore + 1

Idle == pc' = "idle" /\ pass' = NoRun /\ fresh' = TRUE

\* Mutant of Harvest: the run is given up as soon as its pod is not found.
HarvestAtWork ==
    /\ pc = "idle" /\ Tracked
    /\ st' = [st EXCEPT !.ended = now, !.lease = NoRun, !.failures = FailuresAfter(Lost)]
    /\ Idle
    /\ UNCHANGED <<now, archive, refused, view, reading, spec, job, faults, late, astray, streak>>

\* Mutant of Harvest: a run is harvested from its Job or not at all.
HarvestFromJob ==
    /\ pc = "idle" /\ Tracked
    /\ st.run \in DOMAIN job /\ job[st.run].step = "done"
    /\ st' = [st EXCEPT !.ended = now, !.lease = NoRun,
                        !.failures = FailuresAfter(ReportOf(st.run))]
    /\ job' = [job EXCEPT ![st.run].ttl = TRUE, ![st.run].report = Lost]
    /\ Idle
    /\ UNCHANGED <<now, archive, refused, view, reading, spec, faults, late, astray, streak>>

\* tracked_run, harvest: the status first, the Job's TTL once it is written.
Harvest ==
    /\ pc = "idle" /\ Tracked
    /\ st.run \in DOMAIN job => job[st.run].step = "done"
    /\ LET report == ReportOf(st.run) IN
       st' = [st EXCEPT !.ended = now,
                        !.locked = {f[1] : f \in {g \in report.failed : g[2] = "Locked"}},
                        !.bucketOnly = BucketLevel(report),
                        !.lease = NoRun,
                        !.failures = FailuresAfter(report),
                        !.gen = spec.gen]
    /\ job' = IF st.run \in DOMAIN job THEN [job EXCEPT ![st.run].ttl = TRUE, ![st.run].report = Lost]
              ELSE job
    /\ Idle
    /\ UNCHANGED <<now, archive, refused, view, reading, spec, faults, late, astray, streak>>

ReportRunning ==
    /\ pc = "idle" /\ Tracked
    /\ st.run \in DOMAIN job /\ job[st.run].step # "done"
    /\ st' = Adopted
    /\ Idle
    /\ UNCHANGED <<now, archive, refused, view, reading, spec, job, faults, late, astray, streak>>

\* evaluate, up to start_run: the reads, the decision and its publication.  A run this
\* status records as harvested is not started again.
Evaluate ==
    /\ pc = "idle" /\ ~Tracked
    /\ LET plan == Plan
           starts == MayStart(plan) /\ RunOf(plan) # st.run
       IN  /\ st' = [Adopted EXCEPT
                        !.plan = plan,
                        !.until = IF WindowOpen(plan) THEN @ ELSE now + PlanMaxAge]
           /\ pc' = IF starts THEN "lease" ELSE "idle"
           /\ pass' = IF starts THEN RunOf(plan) ELSE NoRun
    /\ fresh' = TRUE
    /\ UNCHANGED <<now, archive, refused, view, reading, spec, job, faults, late, astray, streak>>

\* start_run (a)
TakeLease ==
    /\ pc = "lease"
    /\ IF fresh
       THEN st' = [st EXCEPT !.lease = pass] /\ pc' = "list" /\ UNCHANGED <<pass, fresh>>
       ELSE Idle /\ UNCHANGED st
    /\ UNCHANGED <<now, archive, refused, view, reading, spec, job, faults, late, astray, streak>>

\* Mutant of ListRestores: what the evaluation saw is thought enough.
ListNothing ==
    /\ pc = "list"
    /\ pc' = "record"
    /\ UNCHANGED <<now, archive, refused, view, reading, spec, st, pass, fresh, job, faults, late, astray, streak>>

\* (b): any nonterminal Restore at the destination stops the run.
ListRestores ==
    /\ pc = "list"
    /\ IF reading = {} THEN pc' = "record" /\ UNCHANGED <<pass, fresh>> ELSE Idle
    /\ UNCHANGED <<now, archive, refused, view, reading, spec, st, job, faults, late, astray, streak>>

\* Mutant of Record: written whatever became of the object.
RecordRegardless ==
    /\ pc = "record"
    /\ IF pass \notin DOMAIN job
       THEN /\ st' = [st EXCEPT !.run = pass, !.ended = 0, !.locked = {}, !.bucketOnly = FALSE]
            /\ pc' = "create"
            /\ UNCHANGED <<pass, fresh>>
       ELSE Idle /\ UNCHANGED st
    /\ UNCHANGED <<now, archive, refused, view, reading, spec, job, faults, late, astray, streak>>

\* (c) and the record of (d)
Record ==
    /\ pc = "record"
    /\ IF pass \notin DOMAIN job /\ fresh
       THEN /\ st' = [st EXCEPT !.run = pass, !.ended = 0, !.locked = {}, !.bucketOnly = FALSE]
            /\ pc' = "create"
            /\ UNCHANGED <<pass, fresh>>
       ELSE Idle /\ UNCHANGED st
    /\ UNCHANGED <<now, archive, refused, view, reading, spec, job, faults, late, astray, streak>>

\* What a worker remembers of the line it is at.
NoLine == [at |-> 0, keys |-> {}, left |-> {}, code |-> "none", gone |-> 0]

NewJob(r) ==
    [step |-> "start", todo |-> {SetOf[p] : p \in r[1].lines}, line |-> NoLine, count |-> 0,
     report |-> Lost, due |-> now + Deadline, ttl |-> FALSE]

DoneJob(report) ==
    [step |-> "done", todo |-> {}, line |-> NoLine, count |-> 0,
     report |-> report, due |-> 0, ttl |-> FALSE]

WithJob(r) == [q \in DOMAIN job \cup {r} |-> IF q = r THEN NewJob(r) ELSE job[q]]

Create ==
    /\ pc = "create"
    /\ job' = WithJob(pass)
    /\ Idle
    /\ UNCHANGED <<now, archive, refused, view, reading, spec, st, faults, late, astray, streak>>

\* The create is answered with an error, whether or not the Job is there: the record is
\* withdrawn, when it still can be.
CreateFails ==
    /\ pc = "create" /\ Fault
    /\ job' \in {job, WithJob(pass)}
    /\ st' = IF fresh THEN [st EXCEPT !.run = NoRun] ELSE st
    /\ astray' = IF fresh /\ job' # job THEN astray \cup {pass} ELSE astray
    /\ Idle
    /\ UNCHANGED <<now, archive, refused, view, reading, spec, late, streak>>

Crash ==
    /\ pc # "idle" /\ Fault
    /\ Idle
    /\ UNCHANGED <<now, archive, refused, view, reading, spec, st, job, late, astray, streak>>

(***************************************************************************)
(* The worker, a run of one Job: the lines of its plan, newest first       *)
(***************************************************************************)

Running(r, step) == r \in DOMAIN job /\ job[r].step = step

Members(r) == {p \in r[1].lines : SetOf[p] = job[r].line.at}

\* The line ends with nothing of the set, or not all of it, gone.
Unfinished(r, code) ==
    [job EXCEPT ![r].step = "next", ![r].line = NoLine,
                ![r].report.failed = @ \cup (Members(r) \X {code})]

\* A run that ends counts as the controller should count it.
Ended(r, report) ==
    /\ job' = [job EXCEPT ![r] = DoneJob(report)]
    /\ streak' = IF report.exit = "ok" THEN 0
                 ELSE IF BoundedOnly(report) \/ BucketLevel(report) \/ r \in astray THEN streak
                 ELSE streak + 1

\* Refused before anything is opened (exit 3), or on to the first line.
Admit(r) ==
    /\ Running(r, "start")
    /\ \/ Ended(r, [exit |-> "refused", failed |-> {}])
       \/ job' = [job EXCEPT ![r].step = "next"] /\ UNCHANGED streak
    /\ UNCHANGED <<now, archive, refused, view, reading, spec, policy, faults, late, astray>>

\* resolve_keys: the worker lists the set it is about to remove.
NextLine(r) ==
    /\ Running(r, "next") /\ job[r].todo # {}
    /\ LET s == Max(job[r].todo) IN
       job' = [job EXCEPT ![r].step = "intent", ![r].todo = @ \ {s},
                          ![r].line = [NoLine EXCEPT !.at = s, !.keys = there[s] \ {Manifest}]]
    /\ UNCHANGED <<now, archive, refused, view, reading, spec, policy, faults, late, astray, streak>>

\* Mutant of Intend: an intent that cannot be written is let go.
IntendOrNot(r) ==
    /\ Running(r, "intent")
    /\ job[r].count < MaxObjects
    /\ intents' \in {intents, intents \cup ({r} \X Members(r))}
    /\ job' = IF versioned # 0 THEN Unfinished(r, "Versioned")
              ELSE [job EXCEPT ![r].step = "manifest"]
    /\ UNCHANGED <<now, there, marked, versioned, completed, refused, view, reading, spec,
                   policy, faults, late, astray, streak>>

\* The intents are create-only: one that is there already refuses the line, as any
\* failure to list or to write does.
Intend(r) ==
    /\ Running(r, "intent")
    /\ \/ /\ job[r].count >= MaxObjects
          /\ job' = Unfinished(r, "Budget")
          /\ UNCHANGED intents
       \/ /\ job[r].count < MaxObjects
          /\ job' = Unfinished(r, "Refused")
          /\ UNCHANGED intents
       \/ /\ job[r].count < MaxObjects
          /\ \A p \in Members(r) : <<r, p>> \notin intents
          /\ intents' = intents \cup ({r} \X Members(r))
          /\ job' = IF versioned # 0 THEN Unfinished(r, "Versioned")
                    ELSE [job EXCEPT ![r].step = "manifest"]
    /\ UNCHANGED <<now, there, marked, versioned, completed, refused, view, reading, spec,
                   policy, faults, late, astray, streak>>

\* A delete by key, of what may be gone already; under versioning it writes a marker.
Delete(s, k) ==
    /\ there' = [there EXCEPT ![s] = @ \ {k}]
    /\ marked' = IF versioned # 0 /\ k \in there[s] THEN [marked EXCEPT ![s] = @ \cup {k}]
                 ELSE marked

\* The HEAD before it sees the versioning of what was stored under it.
HeadSees(s, k) == versioned # 0 /\ Taken(s) >= versioned /\ k \in there[s]

\* What can stop a delete: the versioning it sees, a lock or a grant, or a store that
\* does not answer.
Obstacles(s, k) == IF HeadSees(s, k) THEN {"Versioned"} ELSE {"Locked", "Refused"}

\* Mutant of DeleteManifest: a manifest that cannot be deleted does not stop the line.
DeleteManifestOrGoOn(r) ==
    /\ Running(r, "manifest")
    /\ LET s == job[r].line.at IN
       \/ /\ ~HeadSees(s, Manifest)
          /\ Delete(s, Manifest)
          /\ job' = [job EXCEPT ![r].step = "segments", ![r].count = @ + 1, ![r].line.gone = 1]
       \/ /\ \E code \in Obstacles(s, Manifest) :
                 job' = [job EXCEPT ![r].step = "segments", ![r].line.code = code]
          /\ UNCHANGED <<there, marked>>
    /\ UNCHANGED <<now, versioned, intents, completed, refused, view, reading, spec, policy,
                   faults, late, astray, streak>>

DeleteManifest(r) ==
    /\ Running(r, "manifest")
    /\ LET s == job[r].line.at IN
       \/ /\ ~HeadSees(s, Manifest)
          /\ Delete(s, Manifest)
          /\ job' = [job EXCEPT ![r].step = "segments", ![r].count = @ + 1, ![r].line.gone = 1]
       \/ /\ \E code \in Obstacles(s, Manifest) : job' = Unfinished(r, code)
          /\ UNCHANGED <<there, marked>>
    /\ UNCHANGED <<now, versioned, intents, completed, refused, view, reading, spec, policy,
                   faults, late, astray, streak>>

\* The segment stays; the line keeps the first reason.
Spare(line, k, code) ==
    [line EXCEPT !.keys = @ \ {k}, !.left = @ \cup {k},
                 !.code = IF @ = "none" THEN code ELSE @]

DeleteSegment(r) ==
    /\ Running(r, "segments") /\ job[r].line.keys # {}
    /\ LET s == job[r].line.at
           k == Min(job[r].line.keys)
       IN  \/ /\ \E code \in IF job[r].count >= MaxObjects THEN {"Budget"} ELSE Obstacles(s, k) :
                     job' = [job EXCEPT ![r].line = Spare(@, k, code)]
              /\ UNCHANGED <<there, marked>>
           \/ /\ job[r].count < MaxObjects /\ ~HeadSees(s, k)
              /\ Delete(s, k)
              /\ job' = [job EXCEPT ![r].line.keys = @ \ {k}, ![r].count = @ + 1,
                                    ![r].line.gone = @ + 1]
    /\ UNCHANGED <<now, versioned, intents, completed, refused, view, reading, spec, policy,
                   faults, late, astray, streak>>

\* Mutant of Conclude: the deletes that succeeded are believed.
ConcludeUnchecked(r) ==
    /\ Running(r, "segments") /\ job[r].line.keys = {}
    /\ IF job[r].line.left = {}
       THEN /\ job' = [job EXCEPT ![r].step = "next", ![r].line = NoLine]
            /\ completed' = completed \cup ({r} \X Members(r))
       ELSE /\ job' = Unfinished(r, job[r].line.code)
            /\ UNCHANGED completed
    /\ UNCHANGED <<now, there, marked, versioned, intents, refused, view, reading, spec, policy,
                   faults, late, astray, streak>>

\* The bucket again, after the deletes: one versioned or unwritable check object and
\* none of them is believed.
Conclude(r) ==
    /\ Running(r, "segments") /\ job[r].line.keys = {}
    /\ \/ /\ job' = [Unfinished(r, IF versioned # 0 THEN "Versioned" ELSE "Refused")
                        EXCEPT ![r].count = @ - job[r].line.gone]
          /\ UNCHANGED completed
       \/ /\ versioned = 0 /\ job[r].line.left # {}
          /\ job' = Unfinished(r, job[r].line.code)
          /\ UNCHANGED completed
       \/ /\ versioned = 0 /\ job[r].line.left = {}
          /\ job' = [job EXCEPT ![r].step = "next", ![r].line = NoLine]
          /\ completed' \in {completed, completed \cup ({r} \X Members(r))}
    /\ UNCHANGED <<now, there, marked, versioned, intents, refused, view, reading, spec, policy,
                   faults, late, astray, streak>>

Exit(r) ==
    /\ Running(r, "next") /\ job[r].todo = {}
    /\ Ended(r, [exit |-> IF job[r].report.failed = {} THEN "ok" ELSE "incomplete",
                 failed |-> job[r].report.failed])
    /\ UNCHANGED <<now, archive, refused, view, reading, spec, policy, faults, late, astray>>

\* The pod is killed at the Job's deadline or before, or is gone when it is looked for.
LosePod(r) ==
    /\ r \in DOMAIN job /\ ~job[r].ttl
    /\ \/ job[r].step # "done" /\ now >= job[r].due /\ UNCHANGED faults
       \/ (job[r].step # "done" \/ job[r].report # Lost) /\ Fault
    /\ IF job[r].step # "done" THEN Ended(r, Lost)
       ELSE job' = [job EXCEPT ![r].report = Lost] /\ UNCHANGED streak
    /\ UNCHANGED <<now, archive, refused, view, reading, spec, policy, late, astray>>

\* The Job's TTL fires, or someone deletes it and its pod.
RemoveJob(r) ==
    /\ r \in DOMAIN job
    /\ \/ job[r].ttl /\ UNCHANGED faults
       \/ Fault
    /\ job' = [q \in DOMAIN job \ {r} |-> job[q]]
    /\ streak' = IF job[r].step # "done" /\ r \notin astray THEN streak + 1 ELSE streak
    /\ astray' = astray \ {r}
    /\ UNCHANGED <<now, archive, refused, view, reading, spec, policy, late>>

-----------------------------------------------------------------------------
Pass ==
    \/ Harvest \/ ReportRunning \/ Evaluate
    \/ TakeLease \/ ListRestores \/ Record \/ Create

Work(r) ==
    \/ Admit(r) \/ NextLine(r) \/ Intend(r)
    \/ DeleteManifest(r) \/ DeleteSegment(r) \/ Conclude(r) \/ Exit(r)

Next ==
    \/ Pass \/ CreateFails \/ Crash
    \/ \E r \in DOMAIN job : Work(r) \/ LosePod(r) \/ RemoveJob(r)
    \/ Tick \/ Sync \/ SwitchOnVersioning \/ Edit
    \/ \E p \in Points : RefuseVerdict(p)
    \/ \E s \in Sets : BeginRestore(s) \/ EndRestore(s)

Spec == Init /\ [][Next]_vars

\* The controller reconciles every 15 to 60 seconds, and a worker waits on nothing but
\* store calls that time out.
Fairness == WF_vars(Pass) /\ WF_vars(\E r \in DOMAIN job : Work(r))

FairSpec == Spec /\ Fairness

-----------------------------------------------------------------------------
(***************************************************************************)
(* Properties                                                              *)
(***************************************************************************)

\* A set whose manifest can be read has all its segments: no deletion, however it is
\* interrupted or repeated, leaves one that looks restorable and is not.
NoHollowSet == \A s \in Sets : Manifest \in there[s] => there[s] = Keys

\* Whatever is missing of a set that was stored is attributed: some run wrote the intent
\* of a point of the set before the first delete.
Attributed ==
    \A p \in Existing : there[SetOf[p]] # Keys =>
        \E i \in intents : SetOf[i[2]] = SetOf[p] /\ i[2] \in i[1][1].lines

\* A set goes only under a plan that names every point restored from it, also when the
\* catalog's walk has not reached some of them.
WholeGroups ==
    \A i \in intents : \A q \in Existing : SetOf[q] = SetOf[i[2]] => q \in i[1][1].lines

\* A completion that says Deleted is true of the data: nothing of the set survives behind
\* a delete marker, whenever versioning was switched on.
DeletedIsGone ==
    \A c \in completed : there[SetOf[c[2]]] = {} /\ marked[SetOf[c[2]]] = {}

\* No deletion run is at work that the status does not track, but one: the run whose Job
\* was created by a call that was answered with an error, so that its record was
\* withdrawn.
NoUntrackedJob ==
    \A r \in DOMAIN job : job[r].step # "done" =>
        r \in astray \/ (st.run = r /\ st.ended = 0)

\* Retention stops after DegradedAfter failed runs in a row, however their failures are
\* learned of, until a run succeeds or the spec is edited.  A run whose record was
\* withdrawn is harvested by nobody and is none of them.
BudgetHolds == streak <= DegradedAfter

\* When a run is recorded, the spec in force authorises exactly its plan: enforcement is on,
\* the plan is the approved one and names nothing the spec holds.
RunIsAuthorised ==
    [][st'.run # st.run /\ st'.run # NoRun =>
        LET plan == st'.run[1] IN
        /\ spec.enforce
        /\ spec.attended => spec.approved = plan
        /\ plan.keep = spec.keep /\ plan.lines \cap spec.held = {}]_vars

\* A run never removes anything under a Restore that began before the run was cleared to
\* start and has not ended.
EarlyRestoreKept ==
    [][\A s \in reading \ late : there[s] \subseteq there'[s]]_vars

\* A run is started only when what it spares holds minUsablePoints points that can be
\* restored and that the controller has not refused (retention_plan.rs, evaluate: "ALWAYS
\* the newest minUsablePoints, whatever the rules say").
Restorables == {p \in Existing \ refused : there[SetOf[p]] = Keys}

StartsLeaveFloor ==
    [][pc = "idle" /\ pc' = "lease" =>
        Cardinality(Restorables \ pass'[1].lines) >= NeverCandidates]_vars

\* A run that was recorded is harvested, whatever becomes of its Job.
RunIsHarvested == Tracked ~> ~Tracked

Archive == INSTANCE ArchiveRetention WITH
    Floor <- NeverCandidates,
    condemned <- {SetOf[i[2]] : i \in intents}

\* The controller and its workers implement what retention promises of the archive.
ImplementsArchive == Archive!Spec

=============================================================================
