--------------------------- MODULE RecoveryCatalog ---------------------------
(***************************************************************************)
(* A RecoveryCatalog: its controller, the sync Jobs it starts, and the     *)
(* walk each Job makes of the durable catalog (CatalogArchive) while       *)
(* backups go on writing to it.  The view a walk yields is published as    *)
(* pages that belong to the Job, and the Job is deleted by its TTL.        *)
(*                                                                         *)
(* The controller decides from the copy its watch last delivered, makes    *)
(* its calls one by one and ends with one status write, which the API      *)
(* server takes only if the copy was current.  A pass may end between any  *)
(* two calls.                                                              *)
(***************************************************************************)
EXTENDS CatalogArchive, Sequences, FiniteSetsExt

CONSTANTS
  Today,        \* the day of the walks
  Day,          \* point -> the day of its recovery point, never older for a newer one
  Key,          \* point -> place of its record key in the listing, from 1
  Settings,     \* what the model begins with: [mode, interval, before], spec.sync with
                \* its interval in hours (0: on request only) and the points in the archive
  ViewLimit,    \* points a view can hold
  PageKeys,     \* keys one listing of the record prefix answers
  TtlFloor,     \* least hours a finished Job is kept
  Horizon,      \* last hour of the clock
  MaxRequests   \* sync requests made

ASSUME CatalogAssumption ==
  /\ Today \in Nat \ {0}
  /\ Day \in [Points -> 1..Today]
  /\ \A p, q \in Points : p < q => Day[p] <= Day[q]
  /\ IsFiniteSet(Points)
  /\ Key \in [Points -> 1..Cardinality(Points)]
  /\ \A p, q \in Points : Key[p] = Key[q] => p = q
  /\ Settings \subseteq [mode : {"Index", "Full"}, interval : Nat, before : SUBSET Points]
  /\ {ViewLimit, PageKeys, TtlFloor} \subseteq Nat \ {0}
  /\ {Horizon, MaxRequests} \subseteq Nat

None == -1
Start == 0   \* the cursor of a walk that begins at the first key
NoStem == <<"none", 0>>
Stem == ({"request"} \X (1..MaxRequests)) \cup ({"slot"} \X (0..Horizon))

\* nth and stamped are history: which walk this is, and how its Job ended.
NoView == [stem |-> NoStem, listed |-> {}, truncated |-> FALSE, nth |-> 0, stamped |-> FALSE]
NewWalk == [at |-> None, floor |-> None, seen |-> {}, unread |-> FALSE, stop |-> "no",
            nth |-> 0]
NoJob == [state |-> "gone", made |-> 0, pin |-> None, plan |-> None, walk |-> NewWalk,
          end |-> None, stamped |-> FALSE, relay |-> FALSE, pages |-> None]
NoStatus == [job |-> NoStem, finished |-> None, observed |-> 0, cursor |-> Start,
             complete |-> FALSE, view |-> NoView, expires |-> None]
NoObject == [request |-> 0, status |-> NoStatus]
NoPass == [step |-> "none", copy |-> NoObject, now |-> 0, present |-> FALSE,
           trust |-> 0, job |-> NoJob, write |-> NoStatus]

VARIABLES
  mode, interval,  \* spec.sync, which cannot be changed
  object,          \* the RecoveryCatalog: its sync request and its status
  cache,           \* the copy the controller's watch last delivered
  pass,            \* the reconcile pass under way and the copy it works on
  jobs,            \* stem -> its Job, with the plan and the pages it owns
  trust,           \* generation of the keys points are judged by
  now,
  walks,           \* history: for each walk, what it could have met when it walks
  newest           \* history: the last walk whose result was published

catalogVars == <<mode, interval, object, cache, pass, jobs, trust, now, walks, newest>>
vars == <<archiveVars, faults, catalogVars>>

Ttl == IF 3 * interval > TtlFloor THEN 3 * interval ELSE TtlFloor
Slot(t) == t \div interval

Live(j) == j.state \in {"pending", "walking"}
Ended(j) == j.state = "ended"
Present(s) == s # NoStem /\ jobs[s].state # "gone"

-----------------------------------------------------------------------------
(* The walk.                                                               *)

\* What a walk of this mode lists.
Listable == IF mode = "Index" THEN Indexed ELSE Recorded

\* What the next listing answers: a day's shard, or the next page of keys.  A page with
\* fewer keys than it may have is the last.
IsBatch(w, batch) ==
  IF mode = "Index"
  THEN batch = {p \in Indexed : Day[p] = w.at}
  ELSE LET beyond == {p \in Recorded : Key[p] > w.at} IN
       /\ batch \subseteq beyond
       /\ \A p \in batch, q \in beyond : Key[q] < Key[p] => q \in batch
       /\ Cardinality(batch) <= PageKeys
       /\ Cardinality(batch) < PageKeys => batch = beyond

\* The order in which the points of one listing are examined.
Earlier(p, q) == IF mode = "Index" THEN p > q ELSE Key[p] < Key[q]

\* Nothing is left to list after this batch.
LastBatch(w, batch) ==
  IF mode = "Index" THEN w.at <= w.floor ELSE Cardinality(batch) < PageKeys

\* Where the walk goes on: the day before, or behind the last key.
NextAt(w, batch) ==
  IF mode = "Index" THEN {w.at - 1}
  ELSE {Key[p] : p \in {p \in batch : \A q \in batch : Key[q] <= Key[p]}}

EndedAs(j, w, relay, stamped) ==
  [NoJob EXCEPT !.state = "ended", !.plan = j.plan, !.end = now, !.relay = relay,
                !.stamped = stamped, !.walk = [w EXCEPT !.at = None, !.floor = None]]

\* A rescan starts behind its cursor, an Index walk today, down to the oldest day there is.
FirstWalk(plan) ==
  IF mode = "Full" THEN {[NewWalk EXCEPT !.at = plan]}
  ELSE {[NewWalk EXCEPT !.at = Today, !.floor = d] :
          d \in IF Indexed = {} THEN {Today}
                ELSE {Day[p] : p \in {p \in Indexed : \A q \in Indexed : Day[p] <= Day[q]}}}

\* The pod has its plan: it walks, unless the plan is not the one the Job pins.
BeginWalk(s) ==
  LET j == jobs[s] IN
  /\ j.state = "pending"
  /\ j.plan # None
  /\ \/ /\ j.plan = j.pin
        /\ \E walk \in FirstWalk(j.plan) :
             jobs' = [jobs EXCEPT ![s] = [j EXCEPT !.state = "walking",
                                                   !.walk = [walk EXCEPT !.nth = Len(walks) + 1]]]
        /\ walks' = Append(walks, Listable)
     \/ /\ j.plan # j.pin
        /\ jobs' = [jobs EXCEPT ![s] = EndedAs(j, NewWalk, FALSE, FALSE)]
        /\ UNCHANGED walks
  /\ UNCHANGED <<archiveVars, faults, mode, interval, object, cache, pass, trust, now, newest>>

\* One listing, and the points of it the budget and the clock leave room for.  A listing
\* or a budget that fails cuts the walk short.  A record that does not answer leaves its
\* point listed by its id, and the walk incomplete.  Only a Job that completes carries a
\* completion time; a container that dies after its last line leaves its result readable.
WalkBatch(s) ==
  LET j == jobs[s]
      w == j.walk
  IN
  /\ j.state = "walking"
  /\ \E batch \in SUBSET Listable :
     /\ IsBatch(w, batch)
     /\ \E examined \in SUBSET batch, short, unread, stamped \in BOOLEAN :
       LET walk == [w EXCEPT !.seen = @ \cup examined, !.unread = @ \/ unread] IN
       /\ \A p \in examined, q \in batch : Earlier(q, p) => q \in examined
       /\ short \/ examined = batch
       /\ unread => examined # {}
       /\ IF short \/ unread \/ ~stamped THEN Fault ELSE UNCHANGED faults
       /\ \/ /\ short \/ LastBatch(w, batch)
             /\ jobs' = [jobs EXCEPT ![s] =
                  EndedAs(j, [walk EXCEPT !.stop = IF short THEN "short" ELSE "range"],
                          TRUE, stamped)]
          \/ /\ ~short /\ ~LastBatch(w, batch) /\ stamped
             /\ \E next \in NextAt(w, batch) :
                  jobs' = [jobs EXCEPT ![s] = [j EXCEPT !.walk = [walk EXCEPT !.at = next]]]
  /\ UNCHANGED <<archiveVars, mode, interval, object, cache, pass, trust, now, walks, newest>>

\* The Job ends with no result that can be read: its deadline, a lost pod or log, a first
\* listing that is refused.  A Job without a plan ends like this.
FailJob(s) ==
  LET j == jobs[s] IN
  /\ Live(j)
  /\ \E completed \in BOOLEAN :
       /\ completed => j.state = "walking"
       /\ jobs' = [jobs EXCEPT ![s] = EndedAs(j, NewWalk, FALSE, completed)]
  /\ IF j.plan = None THEN UNCHANGED faults ELSE Fault
  /\ UNCHANGED <<archiveVars, mode, interval, object, cache, pass, trust, now, walks, newest>>

\* The TTL controller deletes the Job; its plan and its pages go with it.
Collect(s) ==
  /\ Ended(jobs[s])
  /\ now >= jobs[s].end + Ttl
  /\ jobs' = [jobs EXCEPT ![s] = NoJob]
  /\ UNCHANGED <<archiveVars, faults, mode, interval, object, cache, pass, trust, now,
                 walks, newest>>

-----------------------------------------------------------------------------
(* The status a pass writes, from the status s of its copy.                *)

HasPages(s) == s.view.listed # {}

\* The pages are past their expiry, or the Job the status tracks is gone.
ViewGone(s, present, t) ==
  \/ s.expires # None /\ t > s.expires
  \/ HasPages(s) /\ ~present

\* Every write stops listing pages that are gone.
Tidy(s, present, t) ==
  IF HasPages(s) /\ ViewGone(s, present, t) THEN [s EXCEPT !.view = NoView] ELSE s

\* When the Job finished: its completion time, or else the time of this pass.
FinishedAt(j, t) == IF j.stamped THEN j.end ELSE t

\* The result of the tracked Job has been read.
Harvested(s, j) == s.finished # None /\ (j.stamped => s.finished = j.end)

\* Mutant of FromStart: a walk is taken to have begun at the first key.
WalkedFromAnywhere(s) == Present(s)

\* An Index walk always starts today; a Full one started where its plan said.
FromStart(s) == Present(s) /\ (mode = "Index" \/ jobs[s].plan = Start)

Newest(points) == {p \in points : Cardinality({q \in points : q > p}) < ViewLimit}

\* What a walk reports: a rescan that was cut short, the last key it examined; any other,
\* no cursor.
Reported(w) ==
  IF mode = "Index" \/ w.stop = "range" \/ w.seen = {} THEN None
  ELSE Max({Key[p] : p \in w.seen})

\* The status is merged into, so that a walk that reports no cursor leaves the old one.
MergedCursor(s, w) == IF Reported(w) = None THEN s.cursor ELSE Reported(w)

\* Mutant of Published: the view expires a TTL after it was read.
PublishedFromNow(s, j, t, fromStart) ==
  [s EXCEPT !.finished = FinishedAt(j, t),
            !.expires = t + Ttl,
            !.cursor = MergedCursor(s, j.walk),
            !.complete = j.walk.stop = "range" /\ ~j.walk.unread,
            !.view = [stem |-> s.job, nth |-> j.walk.nth, stamped |-> j.stamped,
                      listed |-> Newest(j.walk.seen),
                      truncated |-> Cardinality(j.walk.seen) > ViewLimit \/ ~fromStart]]

Published(s, j, t, fromStart) ==
  [s EXCEPT !.finished = FinishedAt(j, t),
            !.expires = FinishedAt(j, t) + Ttl,
            !.cursor = MergedCursor(s, j.walk),
            !.complete = j.walk.stop = "range" /\ ~j.walk.unread,
            !.view = [stem |-> s.job, nth |-> j.walk.nth, stamped |-> j.stamped,
                      listed |-> Newest(j.walk.seen),
                      truncated |-> \/ Cardinality(j.walk.seen) > ViewLimit
                                    \/ ~fromStart]]

-----------------------------------------------------------------------------
(* The trigger.                                                            *)

Requested(c) == c.request # 0 /\ c.request # c.status.observed

\* Mutant of SlotServed: only the Job of the slot itself serves it.
SlotServedByItsJob(s, t) == s.job = <<"slot", Slot(t)>>

\* A sync that finished in this slot has served it, whatever came of it.
SlotServed(s, t) == s.finished # None /\ Slot(s.finished) >= Slot(t)

Triggered(c, t) == Requested(c) \/ (interval > 0 /\ ~SlotServed(c.status, t))

TriggerStem(c, t) == IF Requested(c) THEN <<"request", c.request>> ELSE <<"slot", Slot(t)>>

\* lastSyncJob is replaced as a whole.
Started(s, stem) ==
  [s EXCEPT !.job = stem,
            !.finished = None,
            !.observed = IF stem[1] = "request" THEN stem[2] ELSE @]

-----------------------------------------------------------------------------
(* The reconcile pass.                                                     *)

others == <<archiveVars, mode, interval, trust, now>>
callFrame == <<others, faults, object, cache, newest>>

\* A change of the object, which the watch delivers at once or (an upset) later.
Announce(o) ==
  /\ object' = o
  /\ \/ cache' = o /\ UNCHANGED faults
     \/ UNCHANGED cache /\ Fault

\* The write of a status.  newest follows the views.
PutStatus(status) ==
  /\ Announce([object EXCEPT !.status = status])
  /\ newest' = IF status.view.nth > newest THEN status.view.nth ELSE newest

\* The pass goes on to this step with the Job it has read.
At(step, job) ==
  pass' = [step |-> step, copy |-> cache, now |-> now, present |-> Present(cache.status.job),
           trust |-> trust, job |-> job, write |-> NoStatus]

\* The tracked Job is read first, and decides.
Tracked == IF Present(cache.status.job) THEN jobs[cache.status.job] ELSE NoJob
Unread == Ended(Tracked) /\ ~Harvested(cache.status, Tracked)
Kept == Tidy(cache.status, Present(cache.status.job), now)
Due ==
  /\ Triggered(cache, now)
  /\ TriggerStem(cache, now) # cache.status.job

\* A pass that only writes is one step: on a copy that is not current it changes nothing.
WriteOnly(status) ==
  /\ pass.step = "none"
  /\ cache = object
  /\ PutStatus(status)
  /\ UNCHANGED <<others, pass, jobs, walks>>

\* Mutant of Report: a pass with nothing to do leaves the view alone.
ReportAsIs ==
  /\ Live(Tracked) \/ (~Unread /\ ~Due)
  /\ WriteOnly(cache.status)

\* The Job runs, or there is nothing to read and no trigger that names another Job.
Report ==
  /\ Live(Tracked) \/ (~Unread /\ ~Due)
  /\ WriteOnly(Kept)

\* The finished Job has no result that can be read.
HarvestFailed ==
  /\ Unread
  /\ ~Tracked.relay
  /\ WriteOnly([Kept EXCEPT !.finished = FinishedAt(Tracked, now)])

Harvest ==
  /\ pass.step = "none"
  /\ Unread
  /\ Tracked.relay
  /\ At("pages", Tracked)
  /\ UNCHANGED <<callFrame, jobs, walks>>

\* The pages and the fence pointer, immutable and owned by the Job.  The same bytes may be
\* there already; other bytes under the name, rendered under other keys, are a conflict.
WritePages ==
  LET s == pass.copy.status
      there == Present(s.job)
      conflict == there /\ jobs[s.job].pages \notin {None, pass.trust}
  IN
  /\ pass.step = "pages"
  /\ pass' = [pass EXCEPT !.step = "patch", !.job = NoJob,
                !.write = IF conflict THEN Tidy(s, pass.present, pass.now)
                          ELSE Published(s, pass.job, pass.now, FromStart(s.job))]
  /\ jobs' = IF there /\ ~conflict THEN [jobs EXCEPT ![s.job].pages = pass.trust] ELSE jobs
  /\ UNCHANGED <<callFrame, walks>>

\* Nothing is left to read and the trigger names another Job.
StartSync ==
  /\ pass.step = "none"
  /\ ~Live(Tracked) /\ ~Unread
  /\ Due
  /\ At("create", NoJob)
  /\ UNCHANGED <<callFrame, jobs, walks>>

WantedStem == TriggerStem(pass.copy, pass.now)

\* A Job that is there under the name is adopted.
CreateJob ==
  /\ pass.step = "create"
  /\ jobs' = IF Present(WantedStem) THEN jobs
             ELSE [jobs EXCEPT ![WantedStem] =
                    [NoJob EXCEPT !.state = "pending", !.made = now,
                                  !.pin = pass.copy.status.cursor]]
  /\ pass' = [pass EXCEPT !.step = "plan"]
  /\ UNCHANGED <<callFrame, walks>>

\* The plan is put once, owned by the Job; a different one under the name is a conflict.
EnsurePlan ==
  LET s == pass.copy.status
      kept == Tidy(s, pass.present, pass.now)
      j == jobs[WantedStem]
  IN
  /\ pass.step = "plan"
  /\ pass' = [pass EXCEPT !.step = "patch",
       !.write = IF j.plan \in {None, s.cursor} THEN Started(kept, WantedStem) ELSE kept]
  /\ jobs' = IF Present(WantedStem) /\ j.plan = None
             THEN [jobs EXCEPT ![WantedStem].plan = s.cursor] ELSE jobs
  /\ UNCHANGED <<callFrame, walks>>

\* The last call of a pass: its status is taken only if the copy is current.
WriteStatus ==
  /\ pass.step = "patch"
  /\ IF pass.copy = object THEN PutStatus(pass.write)
     ELSE UNCHANGED <<object, cache, faults, newest>>
  /\ pass' = NoPass
  /\ UNCHANGED <<others, jobs, walks>>

\* A call fails, the destination is refused, or the controller restarts.
StopPass ==
  /\ pass.step # "none"
  /\ Fault
  /\ pass' = NoPass
  /\ UNCHANGED <<others, object, cache, jobs, walks, newest>>

-----------------------------------------------------------------------------
(* Everyone else.                                                          *)

Deliver ==
  /\ cache # object
  /\ cache' = object
  /\ UNCHANGED <<others, faults, object, pass, jobs, walks, newest>>

\* A user asks for a sync, with a token of its own.
Ask ==
  /\ object.request < MaxRequests
  /\ Announce([object EXCEPT !.request = @ + 1])
  /\ UNCHANGED <<others, pass, jobs, walks, newest>>

\* The keys points are judged by change.
ChangeTrust ==
  /\ Fault
  /\ trust' = trust + 1
  /\ UNCHANGED <<archiveVars, mode, interval, object, cache, pass, jobs, now, walks, newest>>

\* A Job's deadline is a quarter of an hour: it lives into the next hour at most.
Tick ==
  /\ now < Horizon
  /\ \A s \in Stem : Live(jobs[s]) => jobs[s].made = now
  /\ now' = now + 1
  /\ UNCHANGED <<archiveVars, faults, mode, interval, object, cache, pass, jobs, trust, walks,
                 newest>>

-----------------------------------------------------------------------------
Init ==
  /\ \E setting \in Settings : /\ ArchiveInit(setting.before)
                              /\ mode = setting.mode
                              /\ interval = setting.interval
  /\ object = NoObject
  /\ cache = NoObject
  /\ pass = NoPass
  /\ jobs = [s \in Stem |-> NoJob]
  /\ trust = 0
  /\ now = 0
  /\ walks = <<>>
  /\ newest = 0

Pass ==
  \/ Report \/ HarvestFailed \/ Harvest \/ WritePages
  \/ StartSync \/ CreateJob \/ EnsurePlan \/ WriteStatus \/ StopPass

RunJob(s) == BeginWalk(s) \/ WalkBatch(s) \/ FailJob(s)

Next ==
  \/ ArchiveNext /\ UNCHANGED catalogVars
  \/ Pass
  \/ \E s \in Stem : RunJob(s) \/ Collect(s)
  \/ Deliver \/ Ask \/ ChangeTrust \/ Tick

(***************************************************************************)
(* Fairness: the controller requeues every pass and its watch delivers;    *)
(* Kubernetes runs a Job or ends it at its deadline and deletes it after   *)
(* its TTL; time passes.  Writers and users owe nothing.                   *)
(***************************************************************************)
Fairness ==
  /\ WF_vars(Pass)
  /\ WF_vars(Deliver)
  /\ WF_vars(\E s \in Stem : RunJob(s))
  /\ WF_vars(\E s \in Stem : Collect(s))
  /\ WF_vars(Tick)

Spec == Init /\ [][Next]_vars /\ Fairness

-----------------------------------------------------------------------------
View == object.status.view
Shown == View.stem # NoStem
PagesThere(s) == Present(s) /\ jobs[s].pages # None

(***************************************************************************)
(* Until the view expires, its pages are there: the expiry is reckoned     *)
(* from the same instant as the Job's TTL, however late the pass that      *)
(* reads the Job.  Of a Job that failed after its last line the controller *)
(* does not know the end: the promise is for Jobs that completed.          *)
(***************************************************************************)
ListedPagesExist ==
  View.listed # {} /\ now < object.status.expires /\ View.stamped
    => PagesThere(View.stem)

(***************************************************************************)
(* A view that says it is whole, complete and not truncated, lists every   *)
(* point that its walk could have met when it walks: no cursor, cut, lost  *)
(* plan or full window is taken for the end of the archive.                *)
(***************************************************************************)
WholeIsWhole ==
  Shown /\ object.status.complete /\ ~View.truncated
    => walks[View.nth] \subseteq View.listed

(***************************************************************************)
(* A view whose pages are gone is withdrawn, whatever arm its passes take. *)
(***************************************************************************)
DeadView == View.listed # {} /\ ~PagesThere(View.stem) /\ object.status.expires < Horizon
DeadViewWithdrawn == []<>~DeadView

(***************************************************************************)
(* The status shows the result of one walk, replaced only by that of a     *)
(* walk that walks later than all those shown before.                      *)
(***************************************************************************)
Window == INSTANCE CatalogWindow
  WITH shown <- View.nth, newest <- newest
ImplementsWindow == Window!WindowSpec
=============================================================================
