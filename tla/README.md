# A TLA+ verification of Logweir

Logweir backs up Kafka topics, restores them and proves the restores with signed
evidence. Its control plane, `weirkeeper`, is a set of Kubernetes controllers: each
reads objects from a watch, decides, writes statuses and creates Jobs that do the
work. What is hard about it is not the Jobs but the passes: they read copies that lag,
write with compare-and-set, and may stop between any two calls. This directory models
those protocols, checks them with TLC and proves what matters most with TLAPS.

Paths below are relative to the repository; `controllers/` stands for
`crates/weirkeeper/src/controllers/`.

## The system

Every controller follows one scheme. The kube-rs runtime keeps a *store*, a copy of the
API server's objects fed by a watch, and hands a pass the store's copy of one object.
At most one pass of one object is under way. Status writes carry the
`resourceVersion` of what the pass read, so a write on an old copy is refused (409).
Every pass ends in a timed requeue. The chart runs one replica with `Recreate`.

| Component | State | Operations | Correct when |
| --- | --- | --- | --- |
| Manual-run pool (`run_pool.rs`) | reservations in memory, `Admitted=True` on the run | `decide`, called by the gates of the Backup and Restore controllers | no more runs than the ceiling; nobody waits for ever; nothing runs uncounted |
| Backup schedule (`controllers/backup_schedule.rs`, `schedule_history.rs`) | `pendingRun`, `activeRuns`, `lastFireTime`, slot accounting, history | observe, resume, decide, reserve, create, finish | each slot and attempt once; concurrency policy kept; every slot answered |
| Cadence and slots (`cadence.rs`, `slot.rs`) | none | parse, last and next fire, deadlines, retries, skipped slots | equal to the calendar definition, DST included |
| Backup controller (`controllers/backup.rs`, `backup_selection.rs`, `backup_execution.rs`) | phase, `execution`, Jobs, plan ConfigMap | hold, gate, discover, freeze, create, observe, verify | one execution per run; frozen inputs never change |
| Restore controller (`controllers/restore.rs`) | phase, admission, Job, evidence | admit, gate, materialise, create, observe, verify | nothing runs unapproved; the phase says what the run did |
| Interruption (`restore_interruption.rs`), with the reconcile and cleanup Jobs (`drill/reconcile.rs`, `restore_cleanup.rs`) | `status.interruption`, two annotations | cancel, stop, reconcile, clean up | an outcome is never overwritten; an interrupted run writes nothing more; topics are removed only when owned |
| TTL clones (`restore_clone.rs`) | finalizer, expiry, attempts | expire, clean up, retain | as the cleanup |
| Retention (`retention_policy.rs`, `logweir-reaper`, `logweir-retention`) | plan digest, lease, run record; tombstones in the bucket | evaluate, lease, list, record, run, harvest; intent, delete, complete | nothing in use is deleted; every deletion is on record |
| Switchover (`switchover.rs`, `logweir switchover`) | admission marker, Job, per-group results | admit, create, adopt, harvest; classify, read, commit, read back | one run at a time; a group moves only from where the plan expects it |
| Approval and trust (`approval.rs`, `trust*.rs`) | `Verified`, `Consumed` | verify, consume, revoke | an approval binds one subject, once |
| Recovery catalog (`recovery_catalog.rs`, `catalog_view.rs`, `check/kinds/catalog_sync.rs`, `logweir catalog sync`) | record, signature and log entry of each point in the bucket; sync Jobs with their plans and pages; cursor, view and expiry | put, backfill; trigger, start, walk, harvest, publish, expire | a view lists pages that exist, says whole only when it is, never goes back to an older walk |
| Preflight, topic discovery, cluster probe, destination, protection policy | one status each | one check Job, or a projection | advisory; nothing executes on their word |
| Runner (`crates/logweir`): drill phases 0 to 9, backup, verify | local run, signed scorecard | phases in order, teardown | the scorecard says what happened |
| Console API (`crates/logweir-api`) and web console | none of its own; sealed cookies | durable creates, approvals, sessions | one object per idempotency key |
| Stores, Kafka and engine bindings, documents and signatures | external | I/O | left aside |

They interact through objects: the schedule creates Backups, whose phases it reads
back; approvals and destinations hold restores and backups at their gates; the catalog
reads what runs left in the bucket and feeds retention and protection; retention lists
Restores before it deletes; a Switchover names a Restore and waits for its verdict; an
interrupted Restore keeps its recovery point from retention until its cleanup is done.
Scheduled Backups are outside the manual-run pool.

`PROJECT.json` lists each hazard of this code at its line, with the properties that
would catch it or the reason why none does.

## The modules

| Module | Contents |
| --- | --- |
| `BoundedPool` | what the pool promises: slots taken below a limit, released at will |
| `ManualRunPool` | the pool with its gates, watch, passes and restarts |
| `ManualRunPoolInv`, `ManualRunPoolProofs` | its inductive invariant; type correctness, the invariant and the theorems |
| `ScheduledRuns` | what a schedule promises: each slot and attempt once, in order, within a limit that disturbances may raise |
| `BackupSchedule`, `BackupScheduleInv`, `BackupScheduleProofs` | one schedule and its controller; its inductive invariant; theorems |
| `Cadence` | when a schedule fires: the walks of `cadence.rs` and `slot.rs`, as pure functions |
| `ScheduleCadence`, `CadenceProofs` | what a cadence is without a walk, and what the walks promise of it to a schedule; theorems |
| `ArchiveRetention` | what retention promises of an archive: condemned on record, manifest first, never the last points |
| `Retention` | policy controller, deletion Jobs, archive, catalog view and Restores, composed |
| `RetentionInv`, `RetentionProofs` | its inductive invariant; type correctness, the other theorems and the refinement |
| `SwitchoverTurns` | what the reconciler promises: runs of one Restore take turns in order of creation |
| `Switchover`, `SwitchoverInv`, `SwitchoverProofs` | the Switchovers of one Restore with the approval controller; invariant; theorems |
| `GuardedPositions` | what a run promises: one guarded move of each group |
| `SwitchoverRun`, `SwitchoverRunInv`, `SwitchoverRunProofs` | the Switchover's Job against the broker and its consumers; invariant; theorems |
| `HonestRestore` | what a Restore's phase promises: closed once, on a run that is gone, and true |
| `RestoreInterruption`, `RestoreInterruptionInv`, `RestoreInterruptionProofs` | one Restore from its Job to its end, with reconcile and cleanup; invariant; theorems |
| `CatalogArchive` | the objects of recovery points in the bucket: the run that puts them and the backfill |
| `CatalogWindow` | what a catalog promises of its view: one walk, replaced only by a later one |
| `RecoveryCatalog`, `RecoveryCatalogInv`, `RecoveryCatalogProofs` | the controller of one catalog, its sync Jobs and their walks of the archive; invariant; theorems |
| `MC...` | what TLC runs; `MCBackupSchedule` also holds the expressions and zones it asks about |

Operators named `...Unreserved`, `...ForEver` and the like, each commented "Mutant of",
are variants of the definition below them with a plausible bug. No action uses them;
each shows that some property notices the bug.

### ManualRunPool

`status`, `job` and `probe` are the API server; `events` and `view` the watch, with
delivery in order; `held` the reservations; `pc`, `copy`, `fresh` and `passAge` the
pass of each run. A pass is split wherever another pass can come in between, that is at
every call it makes: `Begin`, then `Hold`, `Refuse`, `Decide` or `Resume`, then
`RecordAdmission` or `RecordQueued`, then `Discover`, `Freeze`, `CreateJob` or
`HoldMaterialization`. `Decide` is one action because `decide()` takes its snapshot,
prunes, counts and reserves under one lock. `fresh` stands for the resource version:
a write is accepted only while nothing has written the object since the copy was made.
Time is kept as ages which `Tick` advances together, so the state space is finite
with no bound on time. `Kind` selects what only Backups do (discovery, freezing) or
only Restores (the materialisation hold).

A pass may start on a copy that does not show the last write to its run (`Begin`; one
of the bounded `faults`). `misread` is a history that no step reads: the runs a pass took
past the gate (`Decide`, `Resume`) on a copy that was out of date about whether the run
holds a slot. The code does not keep its ceiling for them (see below), and the properties
say what it keeps: `Slots` are the slots of all other runs.

### BackupSchedule

`spec` and `st` are the object, `phase` and `ended` the Backups, `view` and `behind`
the store, `pc` and `pass` the pass. A pass is `Begin`, then `Observe` or `Resume`
(steps 1 and 2 of `reconcile_schedule_with_archive_at`), then `DecideNothing`, `DecideAttempt`
or `DecideSlot` (steps 3 to 7), then, on an admission, `Reserve` and `Create`, and
`Finish`. `pass.next` is the status that `Finish` will write. The reads of one step of
the code are one action; the two writes and the create are actions of their own. The
controller keeps nothing in memory, so `Interrupt` is both a crash and a failed call.
`Seen` is what step 1 reads: an inventory's list, or the first `MaxActive` names of
`activeRuns`, finished or not, with the reservation if it is not among the names.
Slots are multiples of `Period`. Invalid specs, messages and the migration of old owner
references are abstracted away; so are names held by foreign objects.

`Prune` is a user's: the documented recipe (`docs/kubernetes.md`, "Pruning history")
deletes finished runs, oldest first, and none that a reservation, or a copy of one,
still names, nor any whose slot the status does not show as fired yet: history is kept
for longer than a controller is down.

### Cadence

`FireAtOrBefore`, `FireAfter`, `FiresAfter` and `SkippedSlots` walk local dates from
`EdgeDays` outside their argument and keep the best firing found, until no later date can
hold a better one; without a zone they walk days and minutes in UTC. A walk is written as
the set of what it visits: a date is `reached` when nothing found on the dates before it
ends the walk, and the answer is the best of what the dates reached hold. An instant is a
number of ticks and an expression the dates and the ticks of a day it matches. The zone
database is external: an offset before a change, and one after it.

`ScheduleCadence` says which instants are firings, with no walk: every real instant
whose local time matches, and the end of a gap that swallowed one (`Fires`, `FireOf`). It
promises that each walk finds exactly those (`ExactBack`, `ExactOn`, `ExactList`) and that
a count of skipped slots is right or says that it is not (`Honest`), the latter where dates
and instants come in the same order at the horizon of the walk (`HorizonSettled`) or,
without a zone, where each firing is in reach of the one before (`Followed`).
`DueIsLatestFire` joins it to the schedule: the slot `BackupSchedule` decides about, a
multiple of `Period`, is what the walk finds for an interval expression, through any change
of offset.

### Retention

The spec and status of one policy (`spec`, `st`), the pass (`pc`, `pass`, `fresh`), the
deletion Jobs by the run they are named after (`job`), the catalog's `view`, and the
archive: for each set the objects that can be read (`there`) and those behind a delete
marker (`marked`), with the tombstones (`intents`, `completed`). The pure part,
`retention_plan.rs`, is `Plan`: ranks, rules, protection, groups that share a set, and
the ceiling, computed from the view. A pass is `Harvest` or `ReportRunning` while a run
is tracked; otherwise it evaluates and, when `MayStart`, takes the lease, lists the
Restores, records the run and creates its Job, each an action, with edits, Restores and
failures in between. The worker (`logweir-reaper`) goes through the lines of its plan:
listing, intent tombstone, manifest, segments, completion tombstone, exit. A create may be
answered with an error and have happened (`CreateFails`): the pass withdraws its record all
the same, and the next run may be at work beside that Job. `astray` is the history of the
runs whose Job is there so; nothing but the properties, and `streak`, the failures as they
should be counted, reads it.

### Switchover and SwitchoverRun

`Switchover` is the reconciler over all Switchovers of one Restore beside the approval
controller's judgement of their Approvals: `Admit`, the marker, the Job, adoption after
a conflict, the reference, the harvest, each pass a sequence of calls with the others
between any two. It assumes of the Job only that it ends. `SwitchoverRun` opens that
Job: for each group, classify, read the positions, commit as a non-member, read back,
while consumers join, commit and leave, the broker's answer may be lost and the client
sends again. It assumes what `Switchover` shows (`OneRunAtATime`): one run at work.
The two meet in the phase the harvest reads from the run's exit and log.

### RestoreInterruption

`topic` is the target: who made each topic and how much of the run's data it holds.
`run` is the runner's next step, and `known`, `record` and `score` what it has put in
the evidence store: the topic IDs, the targets record, the scorecard, each put before
its signature. `job`, `pod` and `exit` are what Kubernetes shows of it. `pass` splits
the controller's pass where an order matters: between reading that nothing is cancelled
and creating the Job, between suspending the Job and listing its pods, between creating
a reconcile or cleanup Job and recording it. Reconcile Jobs (`rjob`, `kept`) read the
store and the IDs, then verify; cleanup Jobs (`cjob`, `doomed`) read the IDs again, then
delete by name. A topic may be taken away, or made again by someone else, between any
two of these steps.

`blind` records that a trace of the run was lost before it was read; it is the
condition under which the phase may be wrong:

- the IDs of the new topics could not be read at their creation;
- the run Job was deleted while the Restore was open (the next pass finds no Job, starts
  afresh, or on a cancel says that nothing ran, `restore_interruption.rs:343-348`);
- the log of the run could not be read, or a diagnostic recorded just before still said
  that the runner never started;
- the end was read while the pod still stopped, which a deadline allows before
  Kubernetes 1.31 (`README.md:37` asks for 1.29);
- the log of a reconcile was lost, when an exit code of 0 reads as Succeeded.

### CatalogArchive and RecoveryCatalog

`stored` counts, for each recovery point, which of record, signature and log entry are in
the bucket, put in that order by two writers that may each stop between two puts:
the run that made the backup, and `logweir catalog sync`, which goes through the receipts.
`RecoveryCatalog` extends it. `object` is the RecoveryCatalog as the API server has it,
`cache` the copy the watch delivered last, `pass` the pass under way, `jobs` the sync Jobs
under their names, each with its plan, its pages and where its walk stands. The order of a
pass is that of `run`: the tracked Job first (`Report`, or `HarvestFailed`, or `Harvest` and
`WritePages`), a trigger only after it (`StartSync`, `CreateJob`, `EnsurePlan`), and a
status write last, refused when the copy was old (`WriteStatus`). A pass that makes no
call but its last is one step (`WriteOnly`): on an old copy it would change nothing. An
`Index` walk lists the days of the log from today down, a `Full` one pages through the
record keys from its cursor; either may be cut short at any point. A rescan that was cut
short reports the last key it examined and any other walk none (`Reported`); the status is
merged into, so the key stays until another takes its place (`MergedCursor`), and the
next plan starts there. `walks` keeps what
each walk could have met when it walks, and `nth` which walk a view is from. That the
watch lags is one of the bounded upsets.

## What is checked

Runs that pass:

- `pool_live`: two Backups for one slot, and one fault: a restart, a failed pass, a pass on
  an out-of-date copy or a deletion. The inductive invariant, the refinement of `BoundedPool`, and that every waiting run is at last
  served, whatever reservations earlier passes left.
- `pool_restore`: three Restores for two slots, one fault of any kind. The ceiling, and that
  Jobs belong to counted runs, both but for misread runs, with the hold that frees a slot in the middle of a pass. Watch
  events are delivered late but within the tick (`WatchDelay = 0`); `pool_live` has the
  later ones.
- `schedule_live`: two slots with one retry each, catch-up, an edit between a valid and an
  invalid run policy, two crashes or failed calls, pruning. The invariant, the refinement
  of `ScheduledRuns`, that reservations resolve, and that every slot is answered. At every
  instant, for 24 expressions in 134 zones: the walks find exactly the firings the
  reference has, with their markers, and skipped slots are counted exactly or said not to be.
- `retention_run`: two points and three instants, with two edits, approvals, Restores
  and one fault: a crash, a failed call, a create that errs and happened, a lost pod. No Job
  works that the status does not track, but one gone astray; a recorded run is what the spec in force authorises; a Restore that began before the
  run was cleared keeps its set; a recorded run is harvested.
- `retention_delete`: four points, two of one set, with verdicts that turn, partial
  catalog walks and versioning switched on at any moment. No hollow set, attribution, whole groups, the truth of a completion, the failure budget,
  and the refinement of `ArchiveRetention`.
- `switchover_admission`: two Switchovers of one Restore with their Approvals and one
  upset. Turns and their refinement, no second Job once one
  is recorded, and that an admission in its window and a verified Approval settle.
- `switchover_run`: three runs, each a plan or the rollback of the one before, over two
  groups of three partitions, one upset. Each group moves only from where its plan
  expects it, and record and phase are true.
- `restore_interruption`: one Restore into two topics, one under its original name, two upsets.
  The refinement of `HonestRestore`, that nothing of an
  interrupted run writes again, that Jobs follow one another, that Removed means
  removed, and that a cancel and a cleanup come to an end.
- `catalog_sync`: an index that a backup adds to, synced on request, and an archive at
  rest, rescanned page by page at an interval; one fault (a lagging watch, a cut
  walk, an unread record, a lost Job or call, keys that change). A view is backed by pages until it
  expires, is whole when it says so, comes from a later walk than all before it
  (`CatalogWindow`), and is withdrawn when its pages are gone.

Runs that show a disagreement between the code and what the repository says of it
(`PROJECT.json`, "findings", quotes the lines):

- `schedule_lost_run`: under `Allow`, a reservation overwrites the only record of a run
  whose final status write was lost, and one run more than the limit is started.
- `retention_floor`: a second run from a view that precedes the first counts deleted
  points as usable, and is started on the last point that can be restored.
- `catalog_unindexed`: a point whose record was put and whose log entry was not is reported
  as present by the backfill that should complete it (`catalog/cli.rs:410`), and no `Index`
  walk ever lists it.

Reading the code for the models showed further places where code and text part. Each
is outside the bounds of the runs above, which would otherwise only show it again:

- The first pass after a spec edit may catch up a slot from before the edit: the status
  it compares with is still the old one (`backup_schedule.rs:2309` against
  `crds/backup_schedule.rs:427-429`).
- Above the 10 000 runs an inventory reads, it forgets a run under way, and `Forbid` may start a
  second one (`schedule_history.rs:637`). `InventoryReach` is above every run here.
- A failed retry that a user prunes while the attempt it retried is kept is created a second
  time (`backup_schedule.rs:3006` against `docs/kubernetes.md:757`), and a slot whose final status
  was lost twice is fired again once its run is pruned, since only `lastFireTime` is
  compared (`backup_schedule.rs:2593`).
- Without a zone, skipped slots are a floor that does not say so when the next firing is more
  than ten years off, as it may be for a date and a weekday together: the walk in UTC
  stops without setting `horizon_reached` (`cadence.rs:924-926`), the zoned one sets it
  (`cadence.rs:950-953`).
- In a zone, a clock put back over midnight exactly at the ten-year horizon brings the date after
  the horizon into an instant before it: a firing there is left out of the count with
  `horizon_reached` unset (`cadence.rs:950-953`). `HorizonSettled` excludes it: without
  that hypothesis `SkippedIsHonest` fails with dates `{0, 1}` and a lag of 29 in `MCBackupSchedule`.
- A pass given a copy older than its run's admission drops the run's own reservation when it
  queues it again (`run_pool.rs:457`), and the next decision admits another run: "a burst of any
  size admits at most the ceiling" (`run_pool.rs:37-38`) fails. The write that says Queued is
  refused, as the copy is old, but the reservation is gone. A Restore that was held again while a copy
  still says it has its slot goes on to its Job uncounted. With `Holders` for `Slots`, TLC
  finds `Ceiling` violated in `pool_restore`. What is checked and proved is that the excess is
  no larger than the runs that were misread.
- A deletion Job whose create was answered with an error is taken not to exist, whatever the
  error: the run record is withdrawn (`retention_policy.rs:2172-2185`). "The record landed and no Job
  exists" is true of a 403 or a 422, and not of a request that timed out or whose answer
  was lost. The Job then deletes with nothing tracking it, its failure is counted by nobody,
  and the next pass may start a run beside it; the comment (`2168-2171`) names only the crash
  and says that it "fails safe: retention stops sooner, never later". `NoUntrackedJob` and
  `BudgetHolds` except the runs this happened to (`astray`), and no other. The archive stays
  sound when runs overlap: those theorems have no exception.
- A rescan cursor is never cleared. A rescan that finishes reports none, since "leaving the
  last key on a finished walk would make the next one resume past the whole archive and publish an
  empty view of a full one" (`check/kinds/catalog_sync.rs:2529-2531`). The controller puts the
  report in a merge patch (`recovery_catalog.rs:1135-1139`, `1569-1602`) from which the
  empty field is left out (`crds/recovery_catalog.rs:187-189`), so the old key stays; and the next
  plan takes it, finished walk or not (`recovery_catalog.rs:619`). After one `Full` rescan was cut
  short, no later one starts at the first key again: each walks what follows the last key
  recorded, which may be nothing, and its view is a window (`WholeIsWhole` holds: it is marked
  truncated). `lastSyncJob` is guarded against the same merge in the same file (`758-775`).
- A commit that lands and is sent again after a member joined is recorded as refused, though
  the group was moved (`logweir/src/switchover/apply.rs:348` against
  `docs/to-do/decisions/PROD-04.2-cutover.md:133`).
- A catalog does not own "exactly one" sync at a time (`recovery_catalog.rs:280-283`): a request
  edited between the Job and the status write, or a crash there, starts a second Job beside it. The
  views still come in order, which is `ImplementsWindow`.
- A sync request that goes back to an earlier token finds that token's Job, if it is still there,
  and takes its old walk for the new one; requests here have a token each.
- Keys that change between the pages and the status write of a harvest make the pages conflict
  with the next rendering until the Job's TTL (`catalog_view.rs:2876-2915`).
- The end of a Job that failed after its last line is unknown, so its view expires later than its
  pages are collected; `ListedPagesExist` is about Jobs that completed.
- A run and a backfill that put the same point at once can leave the record of one beside the
  signature of the other (`catalog/writer.rs:344-345`): both times differ in `recordedAt`.
- What is left of a set whose manifest is gone is never planned again
  (`retention_plan.rs:763` against `logweir-reaper/src/lib.rs:454-455,732-733`).
- A Switchover whose Job is deleted before its `jobRef` was written gets another one
  (`switchover.rs:173` against `docs/kubernetes.md:2872-2874`).
- A rollback plan asked for again, after the group moved back to exactly the position it
  expects, is applied again (`logweir-core/src/switchover.rs:753` against
  `docs/kubernetes.md:2900-2902`). `GuardedPositions` allows it.
- A run killed between the creation of its topics and the targets record is Failed and
  leaves empty topics: the reconcile finds no record and says that nothing was created
  (`docs/kubernetes.md`, "Interrupted" promises otherwise). `HonestRestore` therefore
  speaks of data, not of topics.

### Bounds

The pool needs two runs for each race (one holds or is about to hold a slot, one
decides) and three for the order of waiting with a limit above one. `TTL`, `PassDelay` and `WatchDelay` are as
small as `PassDelay + WatchDelay <= TTL` allows while each still separates "in time"
from "late". One fault, a restart, a failed call, an out-of-date copy or a deletion, may happen at any
point; the proofs remove the bound. With three runs TLC goes on only while the watch is at most
two events behind (`ShortLag`): a third run decides beside two admissions that nobody has
seen. With two runs, and in the proofs, it may be any number behind.

The schedule needs two slots for supersession and retries, and two faults: an
interrupted pass leaves at most one write behind, and the next one may too. Under `Allow` it needs
three slots, for the run that is lost, the one reserved over it and the one too many; smaller
instances never exceed the limit. With `BackupScheduleInv` as its module and `IInv` as its
invariant `schedule_lost_run` passes: there the bound of `OvershootIsBounded` is reached and
kept. `PassTicks` keeps a pass from spanning more
than one tick. `Horizon` ends time; the liveness properties are about slots due at or before it.

In the cadence a tick is six hours: 26 hours are 5 ticks, 48 hours 8, and `EdgeDays` comes out as
the 4 of the code. Offsets reach half a day either side of UTC and jump by up to a day, at each
tick from before the instants of the run to after them, so that gaps, repeated times, a day
skipped and a day lived twice all fall on, before and after the argument. `WalkDays` is six:
firings may be further apart than a walk reaches, and the reference asks for those within it.
A lag of 40 reaches past the horizon of a walk, and one zone changes there; one of 9 does not.
The proofs have every expression, offset, instant, lag and cap.

Retention needs one point that is protected and one that is planned, which `retention_run`
has, with nothing in a set but its manifest, as it asks nothing of segments. Refusals and
shared sets take a third point, the floor and the groups a fourth. One fault is enough for each gap of a pass or a
worker, and two edits for an approval and its withdrawal. The runs divide the
features, since together they are out of TLC's reach: edits, Restores and faults in one, refusals,
partial walks and versioning in the other. The proofs have them all at once.

Two Switchovers are enough for turns. In `switchover_run` a group of two partitions
shows a commit that lands in part, the second group the order of groups; three runs
are a plan, its rollback and the rollback of that. `Undisturbed` keeps a member from
joining and leaving within one compare-and-set, which Kafka gives the code no way to
see; the next run is asked for only when the commits of the last have landed
or are lost.

An interrupted Restore takes two topics to tell "all" from "some" and an original name
from a new one; `MaxAttempts` is two (three in the code): one attempt that fails
and one after it. Two upsets combine a lost run with a lost reconcile. Only the mode that
restores into new topics is modelled: the others never remove a topic. An engine that exits 0 without
having been stopped is taken to have written everything, or nothing at all
(`RestoreNoOp`).

In the catalog two points tell a walk that meets a new point from one that does not, and a
view of one point a full window from an empty one; one key to a listing makes two pages of two
records. At `interval` 2 a request and the next slot compete, at 0 the TTL ends within the
clock. One fault is what separates two writes; combinations would need more than one
cut walk or lost pass at a time.

All runs set `CHECK_DEADLOCK FALSE`: runs end, time ends and the system stops.

### Fairness

Passes end (each is a bounded list of API calls, each of which returns or fails) and are requeued (`reconcile`, `error_policy`,
`schedule_action`), so their steps are weakly fair; the watch delivers; runs, runners and Jobs end, since Jobs have
deadlines. In the pool the clock is strongly fair: a pass disables `Tick` only for as
long as it may take, and passes are a requeue apart. `Admit` of a Switchover is strongly fair: a pass
may be held on what the bundle is made of any number of times, but not for ever.
Of a catalog the passes, the watch, Jobs, their collection and the clock are weakly fair; writers
and requests are not.
Nothing is assumed of users, crashes or lost Jobs. `EventuallyServed` asks only that a
run stop waiting, since a user, a hold or a refusal may do that too.

## What is proved

All theorems hold for every value of the constants that satisfies the named assumptions
of the modules: any number of runs, points, topics, Switchovers, faults and edits, all
delays and limits. What they need beyond naturals and finite sets is said below. None of
the main properties is inductive as it stands; each proof goes by an invariant `IInv`,
and its lemmas take one action, or one part of the invariant, at a time.

**Pool** (`ManualRunPoolProofs`). `TypeCorrect`; `InvariantHolds`
and from it `CeilingHolds`, `JobsCounted` and `PoolRefinement` (`Spec => Pool!Spec`).
They assume `PassDelay + WatchDelay <= TTL` (`DelayAssumption`: a reservation outlives
the pass and the watch delay it bridges; the code says two minutes), and nothing of the
copies a pass starts on. The code does not make a pass wait for its run's own writes:
the requeue of a run that was admitted is seconds away and the watch is normally faster,
and the list above says what happens when it is not. The theorems are therefore about the runs
that were not misread, and bound the excess by those that were. `Ceiling` says nothing of
what the next decision will count; the invariant adds that. `Covered`: a run that holds a
slot, was not misread and is not shown so by the store has a reservation no older than its
oldest undelivered event plus a pass, so that the next decision keeps it. `PassOwnsItsRun`: what a
pass holds of its run is the truth, or the run is deleted or misread. `WatchInOrder` and `OccupyingIsSteady`: what undelivered events can
still do to the store. `ClaimsBounded` strengthens the ceiling by the runs admitted and
not recorded yet.

**Schedule** (`BackupScheduleProofs`), with every run within reach of an inventory
(`ReachAssumption`) and under either policy. Where it is `Forbid`: each live run is in
`activeRuns` or is the one reserved (`NoRunIsLost`), and there are never two
(`ForbidIsKept`). Under `Allow` the code breaks its limit (`schedule_lost_run`), and
`OvershootIsKept` says how far: let an upset be an edit, a crash or a call that fails; the first
lets no run through, and each after it one at most. `ScheduleRefinement`: the schedule
implements `ScheduledRuns`, whose limit is one under `Forbid` and `Ceiling` under `Allow`.

The invariant follows a pass through its copies. What a copy
says of the runs was true of the object it was read from (`CopiesAreHonest`), and is true
still while the copy is fresh, at the decision and in the status to be written
(`PlanIsReserved`). The hard case is a pass that resumes a reservation
from an old copy: such a reservation either has its run or was released under an invalid
policy the copy shows too (`StaleReservationIsDead`, `ReservationsAreKept`). Under `Forbid` no
run is missing from what is written, and while a reservation is outstanding nothing else starts
(`ForbidKnowsAll`). Under `Allow` runs go missing, and the invariant counts them: those in
no field of the status (`FewAreMissing`) and those a pass does not know of when it decides
(`NextMissesFew`), which leaves room for the run it reserves (`RoomIsKept`). A list longer than
`MaxActive` is read in part, so both add what is beyond it (`Surplus`); it gets that long only
by the run a pass resumes (`ListFits`), which is newer than all it lists and so the one left
out (`ListedWereStarted`, `ReservedIsUnlisted`). A final
write that is still to come may make up for one more, which is why the first upset is free.
`LastIsNewest`, `PlanFollows` and `SlotsInOrder` tie the runs that exist, pruned or not, to the
one started last.

**Cadence** (`CadenceProofs`). For every expression, every instant and every zone whose offsets are
at most `MaxOffset` and whose clock is put forward by at most a day (`RealZones`): the walks find
the latest firing, the next one and the first so many, each with its marker (`BackIsExact`,
`OnIsExact`, `ListIsExact`, and `WalksFound` of a schedule), a count of skipped slots is honest
(`CountIsHonest`, `SkippedFound`), and an interval keeps its slots where offsets and change are
multiples of it and it divides a day (`IntervalIsKept`, `DueIsFound`). Of the constants they need
that a day is no longer than `MaxOffset`, this no longer than `GapSearch`, and that a walk has
two dates at least (`CalendarAssumption`: 24 h, 26 h, 48 h, 3700 dates). The walks are judged by
firings less than `Reach`, a day short of `WalkDays`, away. The argument has three parts.

- *A date's firings.* A date yields exactly the firings whose local time is on it, and the end of
  a gap over it (`FiresOnDateIs`, `GapEndIs`); only an instant that is both real and a gap's end
  can be marked worse by one date than by the other, and it is on both (`DateOfFire`).
- *Nothing better is left.* A firing lies between the `EarliestPossible` and `LatestPossible` of
  its date, and both grow with the date, so what ends a walk ends it for all dates left
  (`HeldLast`, `HeldFirst`, `ReachedBefore`), and `EdgeDays` is far enough out to miss none
  (`DatesOfNear`).
- *Counting.* `FirstIs` and `FirstReach` say what the first so many of a set are, and
  `NearFound` that none of them is behind the date that ends the list. For the skipped slots,
  `DatesAreReached`: while the cap is not used up, each date up to the horizon that can hold
  a firing of the window is visited, by the least date at which it would not be; and what is
  missed beyond the horizon is told by `horizon_reached` (`LaterDatesAreLater`).

**Retention** (`RetentionProofs`). `Invariance`,
and from it: no set is ever readable and short of a segment (`NoHollowSetEver`), nothing
goes that no intent names (`Attribution`), a completion is true of the data (`Deletion`),
groups go whole (`GroupsGoWhole`), a recorded run is what the spec authorises
(`RunsAreAuthorised`), an early Restore keeps its set (`EarlyRestoresAreKept`), and the
composition implements `ArchiveRetention` (`Refinement`). `FloorIsLeft`: a run spares
`minUsablePoints` points that can be restored, if every set its view shows as usable still has
its manifest, which is what the view in `retention_floor` has outlived. `JobsAreTracked` and
`BudgetIsKept` (no more than `DegradedAfter` failed runs in a row) are about every run but those
whose create was answered with an error and happened, and hold beside them: no more than one
Job is tracked, and nothing else is at work (`Tracking`). Failures are
counted as runs end, and the status learns of them when the run is harvested; `Counted`
says how far the two counts may be apart until then, by what the run left to be read. The invariant
says that every plan about, in a pass, a Job or a tombstone, is sound of the points that
exist (`PlansSound`), what the view may leave out (`ViewKnown`), and what a worker knows
of its line at each step of it (`WorkersKnow`), which is what makes each delete safe
whatever happened between its listing and itself.

**Switchover** (`SwitchoverProofs`). `TypeCorrect`, `InvariantHolds`, `OneAtATime` (two
runs of one Restore are at work together only when created in the same second),
`NoJobAfterRecordedHolds`, and `TurnsRefinement`. `TurnTaken` carries it: whoever was
admitted found everything older over, and none older can come, since creation times do
not go back. `AdmitsUnrecorded` and `RunIsOpen` keep a pass's copy true of its own object.

**Switchover run** (`SwitchoverRunProofs`). `Invariance` and `TypeCorrect`; `PhaseIsTrue` (the phase claims
no more than was done); and, where `Undisturbed`, `RecordIsTrue` (a record says what the
run did) and `GuardedRefinement` (`Spec => GuardedSpec`). `Undisturbed` says that no group
gains and loses a member within one compare-and-set: the commit of a non-member is refused
while there are members, and Kafka has no condition on the positions themselves, so one
that comes and goes unseen is what the protocol cannot exclude. Of the numbers of groups
it is assumed that they are naturals (`RunAssumption`), so that the plan has an order. The
invariant is about one commit on its way: until it is answered the group is as the plan
expects it or wholly where the plan puts it (`WindowHolds`, `PriorExpected`), whichever of
its sends lands; what has landed was written over what was expected (`LandedExpected`);
nothing is written ahead of the run (`AheadUnwritten`), nor by one that has concluded
no group (`FreshUnwritten`), from which the truth of each outcome follows (`OutcomeTrue`).

**Restore** (`RestoreInterruptionProofs`). `IInvHolds`; `WriterGoneHolds` (an interrupted
run writes nothing more), `OneJobAtWorkHolds`, `RemovedIsTrueHolds`, and `HonestHolds`
(`Spec => HonestSpec`): the phase is closed once, on a run that is gone, and tells the
truth of the target unless the controller was blind. Not even the type is inductive
alone: that attempts stay within their bound rests on what a pass read before it created
the Job (`PassHolds`). The rest relates four views of one run: how far it got (`Traces`),
what a controller can learn of it (`Told`), whether anything may still write (`RunOver`),
and what an attempt found, which must stay true until the phase is written (`Settled`).

**Catalog** (`RecoveryCatalogProofs`). `Invariance` and `TypeCorrect`; `PagesOutliveTheirExpiry` (`ListedPagesExist`),
`WholeViewsAreWhole` (`WholeIsWhole`), and `ViewMovesForward` (`Spec => ImplementsWindow`), for every
archive, mode, interval, number of requests and faults, from the assumptions on the
archive alone: days and keys of points are ordered, and there are finitely many. The
three go by different parts of the invariant.

- *Pages.* An expiry is reckoned from the instant the Job's TTL starts at, and a name is
  used again only after the Job under it is collected, so a status that names a finish has
  either a Job that ended no earlier or none (`FinishFits`, `PagesKept`). A harvest
  holds a Job it read some calls ago: it is the one under the name, or its TTL is over
  (`JobHeld`).
- *Whole.* What a walk has not met lies ahead of it, by day or by key (`Ahead`, `WalkSound`);
  a walk that reaches the end of its range has met all. A walk that starts at a cursor
  promises nothing, and its view is marked truncated (`WholeView`), however old the
  cursor is. The theorem does not say that a whole view follows: see the divergences.
- *Forward.* A name may belong to two Jobs in turn, Jobs may run beside each other, and a
  pass may work on an old copy; only the resource version and the names stop an older
  walk from coming back. No copy is ahead of the object (`Copies`), and what a pass
  would write matters only while its copy is current. Of the object: the tracked
  Job's walk is later than all shown until it is read (`Unshown`); the Job of the next request
  walked after all those shown (`Awaits`, `NextInLine`); and a slot whose Job was shown is
  over or answered, so that it is not due again (`SpentSlots`, `SlotJobs`, `WalksInOrder`). The
  TTL, which is at least three intervals, is used here: a Job of a slot is not collected
  before the slot is over. `StartFits`, `PagesFit` and `PatchFits` carry these through the
  calls of a pass.

And of the archive by itself (`ArchiveSpec`), `BackfillMissesOnlyTheStopped`: while no writer
has stopped between two puts, the backfill leaves no point it passed out of the log. The puts
of a point come in order (`PutsInOrder`) and none is given up half-way (`NoneAbandoned`).

Only model-checked: liveness, which is beyond the installed provers: `EventuallyServed`,
`ReservationResolves`, `EverySlotIsAnswered`, the ends of runs, admissions, cancels and cleanups, and that a
view without pages is withdrawn (`DeadViewWithdrawn`). Every invariant and every safety
property of a passing run is a theorem. What the three runs with a disagreement check is
false; for each a theorem says what it takes: at least two upsets (`OvershootIsKept`), a view
that is no longer true (`FloorIsLeft`), a writer that stopped (`BackfillMissesOnlyTheStopped`).

## What is not modelled

Everything `PROJECT.json` marks `not_modelled`, with its reason there: mostly I/O,
encodings and pure projections. Of the parts that are modelled:

- Pool: a second controller process (the chart excludes it and `run_pool.rs` states the
  excess), changes of the ceiling, runner Jobs deleted by hand, several workspaces.
- Schedule: the migration of old owner references, names held by foreign objects, edits of
  `concurrencyPolicy` itself.
- Cadence: the parsing of expressions, zones and presets, object names, previews, and
  several changes of offset within a few days of each other.
- Retention: passes that start from an old copy, the evidence grant, buckets with an
  external lifecycle, two policies for one bucket, a conflict on the plan's ConfigMap, rows
  whose protection is unknown. A catalog sync is atomic.
- Switchover: a verdict of the approval lost after it was valid, pods that outlive their
  Job, the workspace gate and the details of materialisation; group types other than
  consumer. A plant of a foreign Job is one upset, which may also replace the
  Switchover's own.
- Catalog: two catalogs of one destination, how a destination and its trust bundle resolve,
  what a view says of each point, its counts and its signers, pages split by size, a Job,
  plan or page under the same name with another owner.
- Restore: overlapping controllers, a Job controller that lags behind a suspension, pods
  contested by two owners, runs without `--run-id`, the five minutes between attempts, a
  target that answers as another cluster, pods force-deleted on a lost node.

## Plan

Done, in this order: the pool, the schedule, retention, switchover, the end of a
restore, the proof of the schedule, the cadence, the catalog, the proofs of the
switchover run, of the failure budget, of the catalog and of the cadence, the schedule under
`Allow`, and what the disagreements take. Left, most important first:

1. Approvals: the single consumption of an Approval by a Restore, with its revocation and
   its expiry, beside the one of a Switchover.
2. Idempotent creates of the console API: one object per key, a replay told from a conflict,
   two replicas. Abstract specification: a register written once.
3. Drill phases: teardown and scorecard of a run that fails in any phase.
