------------------------- MODULE RecoveryCatalogInv -------------------------
(***************************************************************************)
(* The inductive invariant of RecoveryCatalog.                             *)
(***************************************************************************)
EXTENDS RecoveryCatalog

Stems == Stem \cup {NoStem}
Instant == Nat \cup {None}

Views == [stem : Stems, listed : SUBSET Points, truncated : BOOLEAN, nth : Nat,
          stamped : BOOLEAN]
Statuses == [job : Stems, finished : Instant, observed : Nat, cursor : Nat,
             complete : BOOLEAN, view : Views, expires : Instant]
Objects == [request : 0..MaxRequests, status : Statuses]
Walks == [at : Int, floor : Int, seen : SUBSET Points, unread : BOOLEAN,
          stop : {"no", "short", "range"}, nth : Nat]
Jobs == [state : {"gone", "pending", "walking", "ended"}, made : Nat, pin : Instant,
         plan : Instant, walk : Walks, end : Instant, stamped : BOOLEAN,
         relay : BOOLEAN, pages : Instant]
Passes == [step : {"none", "pages", "create", "plan", "patch"}, copy : Objects, now : 0..Horizon,
           present : BOOLEAN, trust : Nat, job : Jobs, write : Statuses]

TypeOK ==
  /\ stored \in [Points -> Nat]
  /\ writing \in [Writer -> [point : Nat, next : Nat]]
  /\ mode \in {"Index", "Full"}
  /\ interval \in Nat
  /\ object \in Objects
  /\ cache \in Objects
  /\ pass \in Passes
  /\ jobs \in [Stem -> Jobs]
  /\ trust \in Nat
  /\ now \in 0..Horizon
  /\ walks \in Seq(SUBSET Points)
  /\ newest \in 0..Len(walks)

-----------------------------------------------------------------------------
(* Words of the invariant.                                                 *)

\* The statuses about: the one in force and the copies of it in use.
Known == {object.status, cache.status, pass.copy.status, pass.write}

\* The last that is known of when a Job was at work.
Since(j) == IF Ended(j) THEN j.end ELSE j.made

Job(s) == IF Present(s) THEN jobs[s] ELSE NoJob

Nth(s) == jobs[s].walk.nth

\* The walk of this Job is one of the first n.
Within(s, n) == 1 <= Nth(s) /\ Nth(s) <= n

\* The pass may still write: its copy is the object as it is.
Current == pass.copy = object

Starting ==
  \/ pass.step \in {"create", "plan"}
  \/ pass.step = "patch" /\ pass.write.job # pass.copy.status.job

Publishing == pass.step = "patch" /\ pass.write.view \notin {NoView, pass.copy.status.view}

\* The tracked Job runs, or its result has not been read.
Unfinished(s) == Live(Job(s.job)) \/ (Ended(Job(s.job)) /\ ~Harvested(s, Job(s.job)))

\* The Job of the request that is next to be served.
Asked == <<"request", object.request>>

-----------------------------------------------------------------------------
(* Time and order.                                                         *)

Clock ==
  /\ pass.now <= now
  /\ pass.step = "pages" => pass.job.end <= pass.now
  /\ \A s \in Stem : Since(jobs[s]) <= now
  /\ \A s \in Known : s.finished <= now

\* A Job that ends with a result has walked; a walk begins behind all those before.
WalkKnown(j) ==
  /\ j.walk.nth <= Len(walks)
  /\ j.state = "walking" \/ (Ended(j) /\ j.relay) => j.walk.nth >= 1
  /\ j.state = "gone" => j = NoJob
  /\ j.state = "pending" => j.walk = NewWalk
  /\ Ended(j) => j.end # None
  /\ j.plan = None => j.state # "walking" /\ j.walk.stop = "no"

Ordinals ==
  /\ \A s \in Stem : WalkKnown(jobs[s])
  /\ WalkKnown(pass.job)
  /\ \A s \in Known : s.view.nth <= Len(walks)
  /\ \A s \in {object.status, cache.status, pass.copy.status} : s.view.nth <= newest

\* The Job of a slot is made in that slot or later.
SlotJobs == \A k \in 0..Horizon :
  LET s == <<"slot", k>> IN
  Present(s) => interval > 0 /\ k <= Slot(Since(jobs[s]))

\* A walk that began before another that has ended is not of a later slot.
SlotsBehind(n, t) == \A k \in 0..Horizon : Within(<<"slot", k>>, n) => k <= Slot(t)

WalksInOrder == \A s \in Stem : Ended(jobs[s]) => SlotsBehind(Nth(s), jobs[s].end)

\* What a status says of its Job is of that Job, or of one before it under the same name.
FinishFits(s) ==
  s.finished # None /\ Present(s.job)
    => LET j == jobs[s.job] IN Since(j) >= s.finished \/ (Ended(j) /\ ~j.stamped)

-----------------------------------------------------------------------------
(* Views and their pages.                                                  *)

\* Until it expires a view has its Job, whose TTL ends no earlier, and its pages.
PagesKept(s) ==
  s.view.listed # {} /\ s.view.stamped /\ now < s.expires
    => LET j == jobs[s.view.stem] IN
       /\ PagesThere(s.view.stem)
       /\ Ended(j)
       /\ s.expires <= j.end + Ttl

\* The points a walk has not come to yet lie ahead of it.
Ahead(w, p) ==
  IF mode = "Index" THEN Day[p] <= w.at /\ w.floor <= Day[p] ELSE Key[p] > w.at

WalkSound(j) ==
  mode = "Index" \/ j.plan = Start =>
    /\ j.state = "walking"
         => walks[j.walk.nth] \subseteq {p \in Listable : p \in j.walk.seen \/ Ahead(j.walk, p)}
    /\ Ended(j) /\ j.relay /\ j.walk.stop = "range" => walks[j.walk.nth] \subseteq j.walk.seen

WholeView(s) ==
  s.view.stem # NoStem =>
    /\ s.view.nth >= 1
    /\ s.complete /\ ~s.view.truncated => walks[s.view.nth] \subseteq s.view.listed

\* The Job a harvest has read is the one under the name, or it is collected.
JobHeld ==
  pass.step = "pages" =>
    LET s == pass.copy.status.job IN
    /\ Ended(pass.job) /\ pass.job.relay
    /\ s \in Stem
    /\ Present(s) => jobs[s] = pass.job
    /\ ~Present(s) => now >= pass.job.end + Ttl

-----------------------------------------------------------------------------
(* Copies and requests.                                                    *)

\* No copy is ahead; one that shows the request which is next shows the Job tracked now.
CopyFits(c) ==
  /\ c.request <= object.request
  /\ c.status.observed <= c.request
  /\ c.request = object.request /\ Requested(object) => c.status.job = object.status.job

Copies ==
  /\ CopyFits(object) /\ CopyFits(cache) /\ CopyFits(pass.copy)
  /\ pass.step # "none" => pass.copy.request <= cache.request
  /\ \A r \in 1..MaxRequests :
       Present(<<"request", r>>)
         => r <= cache.request /\ (pass.step # "none" => r <= pass.copy.request)

\* The Job asked for next began none of the first n walks, and is not of an earlier
\* slot than they.
Awaits(n) ==
  Requested(object) /\ Present(Asked)
    => /\ ~Within(Asked, n)
       /\ \A k \in 0..Horizon : Within(<<"slot", k>>, n)
            => k < Slot(now) \/ k <= Slot(Since(jobs[Asked]))

NextInLine ==
  /\ Awaits(newest)
  /\ Ended(Job(object.status.job)) => Awaits(Job(object.status.job).walk.nth)
  /\ Requested(object) /\ Present(Asked) => ~Live(Job(object.status.job))

-----------------------------------------------------------------------------
(* What has been shown is not shown again.                                 *)

\* The tracked Job has a walk later than all those shown, until its result is read.
Unshown ==
  LET s == object.status IN
  s.job # NoStem /\ Within(s.job, newest) => Ended(jobs[s.job]) /\ Harvested(s, jobs[s.job])

\* The slot of a Job whose walk is behind is over, or served, or will be.
Passed(k) ==
  LET s == object.status IN
  \/ k < Slot(now)
  \/ s.finished # None /\ k <= Slot(s.finished)
  \/ s.finished = None /\ Present(s.job) /\ k <= Slot(Since(jobs[s.job]))

SpentSlots == \A k \in 0..Horizon : Within(<<"slot", k>>, newest) => Passed(k)

-----------------------------------------------------------------------------
(* The pass.                                                               *)

\* A pass that starts a sync found nothing left to read; the Job it wants has not been
\* shown.
StartFits ==
  Starting =>
    /\ WantedStem \in Stem
    /\ WantedStem # pass.copy.status.job
    /\ Triggered(pass.copy, pass.now)
    /\ ~Unfinished(pass.copy.status)
    /\ pass.step = "patch" => /\ pass.write.job = WantedStem
                              /\ pass.write.finished = None
                              /\ pass.write.observed = IF Requested(pass.copy) THEN pass.copy.request
                                                       ELSE pass.copy.status.observed
    /\ Current =>
         /\ ~Within(WantedStem, newest)
         /\ pass.step # "create" /\ Requested(pass.copy) /\ ~Present(WantedStem)
              => \A k \in 0..Horizon : Within(<<"slot", k>>, newest) => k < Slot(now)

PagesFit ==
  pass.step = "pages" =>
    /\ SlotsBehind(pass.job.walk.nth, pass.job.end)
    /\ Current => pass.job.walk.nth > newest /\ Awaits(pass.job.walk.nth)

PatchFits ==
  /\ pass.step = "patch" /\ ~Starting =>
       /\ pass.write.job = pass.copy.status.job
       /\ pass.write.observed = pass.copy.status.observed
  /\ pass.step = "patch" /\ ~Starting /\ ~Publishing /\ Current =>
       pass.write.finished = pass.copy.status.finished
  /\ Publishing =>
       /\ ~Starting
       /\ pass.write.finished # None
       /\ Present(pass.write.job) => /\ Ended(jobs[pass.write.job])
                                     /\ Harvested(pass.write, jobs[pass.write.job])
       /\ SlotsBehind(pass.write.view.nth, pass.write.finished)
       /\ Current => pass.write.view.nth > newest /\ Awaits(pass.write.view.nth)

-----------------------------------------------------------------------------
IInv ==
  /\ TypeOK
  /\ Clock
  /\ Ordinals
  /\ SlotJobs
  /\ WalksInOrder
  /\ \A s \in Known : FinishFits(s)
  /\ \A s \in Known : PagesKept(s)
  /\ \A s \in Stem : WalkSound(jobs[s])
  /\ WalkSound(pass.job)
  /\ \A s \in Known : WholeView(s)
  /\ JobHeld
  /\ Copies
  /\ NextInLine
  /\ Unshown
  /\ SpentSlots
  /\ StartFits
  /\ PagesFit
  /\ PatchFits

-----------------------------------------------------------------------------
(* The archive while no writer has stopped.                                *)

ArchiveType ==
  /\ receipts \subseteq Points
  /\ stored \in [Points -> 0..LogEntry]
  /\ writing \in [Writer -> [point : Points \cup {0}, next : Record..Done]]
  /\ faults \in Nat
  /\ \A w \in Writer : Busy(w) => writing[w].point \in Points

\* What a writer has put before is there.
PutsInOrder == \A w \in Writer : Busy(w) => stored[writing[w].point] >= writing[w].next - 1

\* A point that has a record and no entry in the log is in the hands of a writer.
NoneAbandoned ==
  \A p \in Recorded \ Indexed : \E w \in Writer : Busy(w) /\ writing[w].point = p

ArchiveInv ==
  /\ ArchiveType
  /\ faults = 0 => PutsInOrder /\ NoneAbandoned /\ BackfillCompletes
=============================================================================
