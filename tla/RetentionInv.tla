---------------------------- MODULE RetentionInv ----------------------------
(***************************************************************************)
(* The type of the state of Retention, and the inductive invariant from    *)
(* which RetentionProofs derives its theorems.                             *)
(***************************************************************************)
EXTENDS Retention

Plans    == [keep : Nat, lines : SUBSET Points, old : SUBSET Points]
Runs     == Plans \X Nat
Causes   == {"none", "Budget", "Refused", "Versioned", "Locked"}
Failures == Points \X Causes
Reports  == [exit : {"ok", "refused", "incomplete", "lost"}, failed : SUBSET Failures]
AtLine   == {"intent", "manifest", "segments"}
Lines    == [at : Sets \cup {0}, keys : SUBSET Keys, left : SUBSET Keys,
             code : Causes, gone : Int]
Jobs     == [step : {"start", "next", "done"} \cup AtLine, todo : SUBSET Sets, line : Lines,
             count : Int, report : Reports, due : Nat, ttl : BOOLEAN]
Specs    == [approved : Plans, attended : BOOLEAN, keep : Nat, held : SUBSET Points,
             enforce : BOOLEAN, gen : Nat]
Statuses == [plan : Plans, until : Nat, run : Runs, ended : Nat, locked : SUBSET Points,
             bucketOnly : BOOLEAN, lease : Runs, failures : Nat, gen : Nat]
Views    == [rows : SUBSET Points, ok : SUBSET Points, until : Nat, whole : BOOLEAN]
Stages   == {"idle", "lease", "list", "record", "create"}

ArchiveOK == there \in [Sets -> SUBSET Keys] /\ marked \in [Sets -> SUBSET Keys]
JobsOK    == DOMAIN job \subseteq Runs /\ job \in [DOMAIN job -> Jobs]

\* Every variable has its type.
TypeOK ==
    /\ now \in Nat \ {0} /\ versioned \in Nat /\ faults \in Nat /\ streak \in Nat
    /\ ArchiveOK
    /\ intents \in SUBSET (Runs \X Points) /\ completed \in SUBSET (Runs \X Points)
    /\ refused \in SUBSET Points /\ view \in Views
    /\ reading \in SUBSET Sets /\ late \in SUBSET Sets
    /\ astray \in SUBSET Runs
    /\ spec \in Specs /\ st \in Statuses
    /\ pc \in Stages /\ pass \in Runs /\ fresh \in BOOLEAN
    /\ JobsOK

-----------------------------------------------------------------------------
\* A plan a run may carry out, E being the points that exist: it names some of them, all
\* that share a set with one of those, and none of the newest.
SoundIn(E, plan) ==
    /\ plan.lines # {}
    /\ plan.lines \subseteq E
    /\ \A p \in plan.lines :
          /\ Cardinality({q \in E : q > p}) >= NeverCandidates
          /\ \A q \in Points : SetOf[q] = SetOf[p] => q \in plan.lines

Sound(plan) == SoundIn(Existing, plan)

\* The view names points that exist; a whole one names all that share a set.
ViewKnown ==
    /\ view.rows \subseteq Existing /\ view.ok \subseteq view.rows
    /\ view.whole => 1 .. Initial \subseteq view.rows

PlansSound ==
    /\ pc # "idle" => Sound(pass[1])
    /\ \A r \in DOMAIN job : Sound(r[1])
    /\ \A i \in intents : Sound(i[1][1]) /\ i[2] \in i[1][1].lines
    /\ \A c \in completed : c[2] \in Existing

\* What a worker knows of the line it is at, or has still to go through.
WorkerKnows(r) ==
    LET j     == job[r]
        named == {SetOf[p] : p \in r[1].lines}
    IN  /\ j.todo \subseteq named
        /\ j.step \in AtLine => j.line.at \in named
        /\ Manifest \notin j.line.keys \cup j.line.left
        /\ j.step \in {"intent", "manifest"} => there[j.line.at] \subseteq j.line.keys \cup {Manifest}
        /\ j.step \in {"manifest", "segments"} => {r} \X Members(r) \subseteq intents
        /\ j.step = "segments" => there[j.line.at] \subseteq j.line.keys \cup j.line.left

WorkersKnow == \A r \in DOMAIN job : WorkerKnows(r)

MarkersNeedVersioning == versioned = 0 => \A s \in Sets : marked[s] = {}

NothingEarly == \A s \in Sets : there[s] # {} => s \in Existing

ArchiveSound == NoHollowSet /\ Attributed /\ DeletedIsGone /\ NothingEarly

NoneAtWork == \A r \in DOMAIN job \ astray : job[r].step = "done"

\* The run at work is the recorded one or has gone astray, and a run gone astray is not
\* recorded again while its Job is there.
Tracking ==
    /\ NoUntrackedJob
    /\ pc # "idle" => NoneAtWork
    /\ pc = "create" => st.run = pass /\ st.ended = 0 /\ pass \notin DOMAIN job
    /\ astray \subseteq DOMAIN job
    /\ Tracked => st.run \notin astray

ClearedKnows == Cleared => reading \subseteq late

\* What the pass decided still holds when the object is as the pass read it.
PassAuthorised ==
    fresh /\ pc \in {"lease", "list", "record"} =>
        LET plan == pass[1] IN
        /\ spec.enforce
        /\ spec.attended => spec.approved = plan
        /\ plan.keep = spec.keep /\ plan.lines \cap spec.held = {}

\* The inductive invariant: what the plans, the view, the workers and the pass know of
\* the archive and of each other (retention_policy.rs, logweir-reaper/src/lib.rs).
IInv ==
    /\ TypeOK
    /\ ViewKnown /\ PlansSound /\ WorkersKnow
    /\ MarkersNeedVersioning /\ ArchiveSound
    /\ ClearedKnows /\ PassAuthorised
    /\ Tracking

\* Why the failure budget holds, on top of IInv: the failures in a row are those the status
\* has counted and, of the run it tracks, one it has not; a run is started below the budget,
\* or to probe again a bucket whose refusals are not counted.
CountedOf(j) ==
    IF j.step # "done" THEN streak <= BudgetBefore /\ streak < DegradedAfter
    ELSE /\ j.report.exit = "ok" => streak = 0
         /\ BoundedOnly(j.report) => streak <= BudgetBefore
         /\ BucketLevel(j.report) => streak < DegradedAfter

Counted ==
    /\ streak <= DegradedAfter
    /\ pc # "idle" => streak <= BudgetBefore /\ streak < DegradedAfter
    /\ ~Tracked => streak <= BudgetBefore /\ (st.bucketOnly => streak < DegradedAfter)
    /\ Tracked => streak <= BudgetBefore + 1
    /\ Tracked /\ st.run \in DOMAIN job => CountedOf(job[st.run])

=============================================================================
