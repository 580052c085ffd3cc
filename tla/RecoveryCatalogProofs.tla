------------------------ MODULE RecoveryCatalogProofs ------------------------
(***************************************************************************)
(* Proofs about RecoveryCatalog: its inductive invariant, what it says of  *)
(* the view that is shown, and that the view moves as CatalogWindow says.  *)
(***************************************************************************)
EXTENDS RecoveryCatalogInv, FiniteSetTheorems, TLAPS

-----------------------------------------------------------------------------
(* Slots and the TTL.                                                      *)

LEMMA SlotType ==
  ASSUME interval \in Nat, interval > 0, NEW t \in Nat
  PROVE  Slot(t) \in 0..t
BY DEF Slot

LEMMA SlotMonotone ==
  ASSUME interval \in Nat, interval > 0, NEW t \in Nat, NEW u \in Nat, t <= u
  PROVE  Slot(t) <= Slot(u)
BY DEF Slot

LEMMA SlotLater ==
  ASSUME interval \in Nat, interval > 0, NEW t \in Nat, NEW u \in Nat, t + interval <= u
  PROVE  Slot(t) < Slot(u)
BY DEF Slot

LEMMA TtlType ==
  ASSUME interval \in Nat
  PROVE  Ttl \in Nat /\ Ttl > 0 /\ Ttl >= interval
BY CatalogAssumption DEF Ttl
-----------------------------------------------------------------------------
(* The points of a walk.                                                   *)

LEMMA PointsFinite == ASSUME NEW S \in SUBSET Points PROVE IsFiniteSet(S)
BY CatalogAssumption, FS_Subset

\* A window that is not overrun keeps every point.
LEMMA NewestIsAll ==
  ASSUME NEW seen \in SUBSET Points, Cardinality(seen) <= ViewLimit
  PROVE  Newest(seen) = seen
<1> SUFFICES ASSUME NEW p \in seen
             PROVE  Cardinality({q \in seen : q > p}) < ViewLimit
  BY DEF Newest
<1> DEFINE later == {q \in seen : q > p}
<1>1. IsFiniteSet(seen) /\ IsFiniteSet(seen \ {p})
  BY PointsFinite
<1>2. p \in Nat
  BY ArchiveAssumption
<1>3. later \subseteq seen \ {p}
  BY <1>2
<1>4. Cardinality(later) <= Cardinality(seen \ {p}) /\ IsFiniteSet(later)
  BY <1>1, <1>3, FS_Subset
<1>5. Cardinality(seen \ {p}) = Cardinality(seen) - 1
  BY <1>1, FS_RemoveElement
<1>6. Cardinality(seen) \in Nat /\ Cardinality(later) \in Nat /\ Cardinality(seen \ {p}) \in Nat
  BY <1>1, <1>4, FS_CardinalityType
<1>7. ViewLimit \in Nat
  BY CatalogAssumption
<1>. QED BY <1>4, <1>5, <1>6, <1>7

LEMMA KeyType == ASSUME NEW p \in Points PROVE Key[p] \in Nat /\ Key[p] >= 1 /\ Day[p] \in Nat
BY CatalogAssumption, FS_CardinalityType

\* The last key examined is a key.
LEMMA LastKey ==
  ASSUME NEW S \in SUBSET Points, S # {}
  PROVE  Max({Key[p] : p \in S}) \in Nat
<1> DEFINE keys == {Key[p] : p \in S}
           top == Cardinality(Points)
           gaps == {top - k : k \in keys}
<1>1. top \in Nat
  BY CatalogAssumption, FS_CardinalityType
<1>2. \A k \in keys : k \in 1..top
  BY CatalogAssumption
<1>3. gaps \subseteq Nat /\ gaps # {}
  BY <1>1, <1>2
<1>4. PICK g \in gaps : \A h \in gaps : g <= h
  <2>1. PICK g \in gaps : \A h \in gaps : <<h, g>> \notin OpToRel(<, Nat)
    <3>. HIDE DEF gaps
    <3>. QED BY <1>3, NatLessThanWellFounded, WFMin, Zenon
  <2>2. \A h \in gaps : ~(h < g)
    BY <1>3, <2>1 DEF OpToRel
  <2>. QED BY <1>3, <2>2
<1>5. PICK m \in keys : g = top - m
  OBVIOUS
<1>6. \A k \in keys : m >= k
  <2> SUFFICES ASSUME NEW k \in keys PROVE m >= k
    OBVIOUS
  <2>1. g <= top - k
    BY <1>4
  <2>. QED BY <1>1, <1>2, <1>5, <2>1
<1>7. Max(keys) \in keys
  BY <1>5, <1>6 DEF Max
<1>. QED BY <1>2, <1>7
-----------------------------------------------------------------------------
(* What steps do, in words the invariant is stated in.                     *)

LEMMA Constants ==
  /\ Horizon \in Nat /\ MaxRequests \in Nat /\ Today \in Nat /\ PageKeys \in Nat
  /\ Points \subseteq Nat
  /\ NoView \in Views /\ NoStatus \in Statuses /\ NoObject \in Objects
  /\ NewWalk \in Walks /\ NoJob \in Jobs /\ NoPass \in Passes
  /\ NoStem \notin Stem
<1>1. /\ Horizon \in Nat /\ MaxRequests \in Nat /\ Today \in Nat /\ PageKeys \in Nat
      /\ Points \subseteq Nat
  BY CatalogAssumption, ArchiveAssumption
<1>2. NoStem \notin Stem
  BY DEF NoStem, Stem
<1>3. NoView \in Views
  BY DEF NoView, Views, Stems
<1>4. NoStatus \in Statuses
  BY <1>3 DEF NoStatus, Statuses, Stems, Instant, None, Start
<1>5. NoObject \in Objects
  BY <1>1, <1>4 DEF NoObject, Objects
<1>6. NewWalk \in Walks
  BY DEF NewWalk, Walks, None
<1>7. NoJob \in Jobs
  BY <1>6 DEF NoJob, Jobs, Instant, None
<1>8. NoPass \in Passes
  BY <1>1, <1>4, <1>5, <1>7 DEF NoPass, Passes
<1>. QED BY <1>1, <1>2, <1>3, <1>4, <1>5, <1>6, <1>7, <1>8

\* A Job that ends keeps its plan and, if its walk has a result, its ordinal.
LEMMA EndedType ==
  ASSUME TypeOK, NEW j \in Jobs, NEW w \in Walks, NEW relay \in BOOLEAN, NEW stamped \in BOOLEAN
  PROVE  /\ EndedAs(j, w, relay, stamped) \in Jobs
         /\ EndedAs(j, w, relay, stamped).state = "ended"
         /\ EndedAs(j, w, relay, stamped).end = now
         /\ EndedAs(j, w, relay, stamped).plan = j.plan
         /\ EndedAs(j, w, relay, stamped).relay <=> relay
         /\ EndedAs(j, w, relay, stamped).walk.nth = w.nth
         /\ EndedAs(j, w, relay, stamped).walk.seen = w.seen
         /\ EndedAs(j, w, relay, stamped).walk.stop = w.stop
<1>1. now \in Nat /\ now \in Instant
  BY Constants DEF TypeOK, Instant
<1>2. [w EXCEPT !.at = None, !.floor = None] \in Walks
  <2>1. w \in Walks /\ None \in Int
    BY DEF None
  <2>. QED BY <2>1 DEF Walks
<1>3. NoJob \in Jobs
  BY Constants
<1>. QED BY <1>1, <1>2, <1>3 DEF EndedAs, Jobs, Walks, NoJob

\* What a step of a Job's pod changes: the Job becomes k.
JobMoves(s, k) ==
  /\ Live(jobs[s])
  /\ jobs' = [jobs EXCEPT ![s] = k]
  /\ k.state \in {"walking", "ended"}
  /\ IF Ended(k) THEN k.end = now ELSE k.made = jobs[s].made
  /\ k.state = "walking" \/ k.relay => k.walk.nth >= 1
  /\ k.plan = jobs[s].plan
  /\ k.plan = None => k.state # "walking" /\ k.walk.stop = "no"
  /\ \/ walks' = walks /\ k.walk.nth \in {0, jobs[s].walk.nth}
     \/ walks' = Append(walks, Listable) /\ k.walk.nth = Len(walks) + 1
  /\ UNCHANGED <<stored, writing, mode, interval, object, cache, pass, trust, now, newest>>

JobRuns(s) == \E k \in Jobs : JobMoves(s, k)

LEMMA FirstWalkType ==
  ASSUME TypeOK, NEW plan \in Instant, NEW w \in FirstWalk(plan)
  PROVE  w \in Walks /\ w.seen = {} /\ w.stop = "no" /\ ~w.unread
<1>1. NewWalk \in Walks /\ Today \in Int
  BY Constants
<1>2. CASE mode = "Full"
  <2>1. w = [NewWalk EXCEPT !.at = plan]
    BY <1>2 DEF FirstWalk
  <2>2. plan \in Int
    BY DEF Instant, None
  <2>. QED BY <1>1, <2>1, <2>2 DEF NewWalk, Walks
<1>3. CASE mode # "Full"
  <2>1. PICK d \in IF Indexed = {} THEN {Today}
                   ELSE {Day[p] : p \in {p \in Indexed : \A q \in Indexed : Day[p] <= Day[q]}} :
          w = [NewWalk EXCEPT !.at = Today, !.floor = d]
    BY <1>3 DEF FirstWalk
  <2>2. d \in Int
    BY <1>1, <2>1, KeyType DEF Indexed
  <2>. QED BY <1>1, <2>1, <2>2 DEF NewWalk, Walks
<1>. QED BY <1>2, <1>3

LEMMA WalkOn ==
  ASSUME TypeOK, NEW s \in Stem,
         NEW batch \in SUBSET Listable, NEW next \in NextAt(jobs[s].walk, batch)
  PROVE  next \in Int
<1>1. batch \subseteq Points
  BY DEF Listable, Indexed, Recorded
<1>2. jobs[s].walk.at \in Int
  BY DEF TypeOK, Jobs, Walks
<1>. QED BY <1>1, <1>2, KeyType DEF NextAt

LEMMA BeginWalkRuns ==
  ASSUME TypeOK, NEW s \in Stem, BeginWalk(s)
  PROVE  JobRuns(s)
<1> DEFINE j == jobs[s]
<1>1. /\ j \in Jobs /\ j.state = "pending" /\ j.plan \in Instant /\ j.plan # None
  BY DEF TypeOK, BeginWalk, Jobs
<1>2. /\ Live(j)
      /\ UNCHANGED <<stored, writing, mode, interval, object, cache, pass, trust, now, newest>>
  BY <1>1 DEF BeginWalk, Live, archiveVars
<1>3. Len(walks) \in Nat
  BY DEF TypeOK
<1>4. CASE j.plan = j.pin /\ walks' = Append(walks, Listable)
  <2>1. PICK walk \in FirstWalk(j.plan) :
          jobs' = [jobs EXCEPT ![s] = [j EXCEPT !.state = "walking",
                                               !.walk = [walk EXCEPT !.nth = Len(walks) + 1]]]
    BY <1>1, <1>4, Zenon DEF BeginWalk
  <2>2. walk \in Walks
    BY <1>1, FirstWalkType
  <2> DEFINE w == [walk EXCEPT !.nth = Len(walks) + 1]
             k == [j EXCEPT !.state = "walking", !.walk = w]
  <2>3. w \in Walks /\ w.nth = Len(walks) + 1
    BY <1>3, <2>2 DEF Walks
  <2>4. /\ k \in Jobs /\ k.state = "walking" /\ k.walk = w /\ k.made = j.made
        /\ k.plan = j.plan
    BY <1>1, <2>3 DEF Jobs
  <2>5. jobs' = [jobs EXCEPT ![s] = k]
    BY <2>1
  <2>. HIDE DEF k, w
  <2>6. JobMoves(s, k)
    BY <1>1, <1>2, <1>3, <1>4, <2>3, <2>4, <2>5 DEF JobMoves, Ended
  <2>. QED BY <2>4, <2>6 DEF JobRuns
<1>5. CASE jobs' = [jobs EXCEPT ![s] = EndedAs(j, NewWalk, FALSE, FALSE)] /\ walks' = walks
  <2> DEFINE k == EndedAs(j, NewWalk, FALSE, FALSE)
  <2>1. /\ k \in Jobs /\ k.state = "ended" /\ k.end = now /\ ~k.relay
        /\ k.walk.nth = NewWalk.nth /\ k.plan = j.plan
    BY <1>1, Constants, EndedType
  <2>2. NewWalk.nth = 0
    BY DEF NewWalk
  <2>3. jobs' = [jobs EXCEPT ![s] = k]
    BY <1>5
  <2>. HIDE DEF k
  <2>4. JobMoves(s, k)
    BY <1>1, <1>2, <1>5, <2>1, <2>2, <2>3 DEF JobMoves, Ended
  <2>. QED BY <2>1, <2>4 DEF JobRuns
<1>6. (j.plan = j.pin /\ walks' = Append(walks, Listable))
      \/ (jobs' = [jobs EXCEPT ![s] = EndedAs(j, NewWalk, FALSE, FALSE)] /\ walks' = walks)
  BY DEF BeginWalk
<1>. QED BY <1>4, <1>5, <1>6

\* One batch of a walk: what it examined, and whether the walk goes on.
Examine(w, examined, unread) == [w EXCEPT !.seen = @ \cup examined, !.unread = @ \/ unread]

Stop(w, short) == [w EXCEPT !.stop = IF short THEN "short" ELSE "range"]

BatchStep(s, batch, examined, short, unread, stamped) ==
  LET j == jobs[s]
      w == j.walk
      walk == [w EXCEPT !.seen = @ \cup examined, !.unread = @ \/ unread]
  IN
  /\ \A p \in examined, q \in batch : Earlier(q, p) => q \in examined
  /\ short \/ examined = batch
  /\ unread => examined # {}
  /\ IF short \/ unread \/ ~stamped THEN Fault ELSE UNCHANGED faults
  /\ \/ /\ short \/ LastBatch(w, batch)
        /\ jobs' = [jobs EXCEPT ![s] =
             EndedAs(j, [walk EXCEPT !.stop = IF short THEN "short" ELSE "range"],
                     TRUE, stamped)]
     \/ /\ ~short /\ ~LastBatch(w, batch) /\ stamped
        /\ \E next \in NextAt(w, batch) :
             jobs' = [jobs EXCEPT ![s] = [j EXCEPT !.walk = [walk EXCEPT !.at = next]]]

LEMMA WalkBatchCases ==
  ASSUME NEW s \in Stem, WalkBatch(s)
  PROVE  /\ jobs[s].state = "walking"
         /\ UNCHANGED <<stored, writing, mode, interval, object, cache, pass, trust, now, walks,
                        newest>>
         /\ \E batch \in SUBSET Listable :
              /\ IsBatch(jobs[s].walk, batch)
              /\ \E examined \in SUBSET batch, short, unread, stamped \in BOOLEAN :
                   BatchStep(s, batch, examined, short, unread, stamped)
<1>1. UNCHANGED <<stored, writing, mode, interval, object, cache, pass, trust, now, walks, newest>>
  BY DEF WalkBatch, archiveVars
<1>2. jobs[s].state = "walking"
  BY DEF WalkBatch
<1>3. \E batch \in SUBSET Listable :
        /\ IsBatch(jobs[s].walk, batch)
        /\ \E examined \in SUBSET batch, short, unread, stamped \in BOOLEAN :
             BatchStep(s, batch, examined, short, unread, stamped)
  BY Zenon DEF WalkBatch, BatchStep
<1>. QED BY <1>1, <1>2, <1>3

LEMMA ExamineType ==
  ASSUME NEW w \in Walks, NEW batch \in SUBSET Listable, NEW examined \in SUBSET batch,
         NEW unread \in BOOLEAN
  PROVE  /\ Examine(w, examined, unread) \in Walks
         /\ Examine(w, examined, unread).seen = w.seen \cup examined
         /\ Examine(w, examined, unread).nth = w.nth
<1>1. examined \subseteq Points
  BY DEF Listable, Indexed, Recorded
<1>. QED BY <1>1 DEF Walks, Examine

LEMMA StopType ==
  ASSUME NEW w \in Walks, NEW short \in BOOLEAN
  PROVE  /\ Stop(w, short) \in Walks
         /\ Stop(w, short).seen = w.seen /\ Stop(w, short).nth = w.nth
         /\ Stop(w, short).stop = IF short THEN "short" ELSE "range"
BY DEF Walks, Stop

LEMMA WalkBatchRuns ==
  ASSUME TypeOK, Ordinals, NEW s \in Stem, WalkBatch(s)
  PROVE  JobRuns(s)
<1> DEFINE j == jobs[s]
           w == j.walk
<1>1. PICK batch \in SUBSET Listable :
        /\ IsBatch(w, batch)
        /\ \E examined \in SUBSET batch, short, unread, stamped \in BOOLEAN :
             BatchStep(s, batch, examined, short, unread, stamped)
  BY WalkBatchCases
<1>2. PICK examined \in SUBSET batch, short \in BOOLEAN, unread \in BOOLEAN, stamped \in BOOLEAN :
                 BatchStep(s, batch, examined, short, unread, stamped)
  BY <1>1
<1> DEFINE walk == Examine(w, examined, unread)
<1>3. j \in Jobs /\ w \in Walks /\ j.state = "walking" /\ w.nth >= 1 /\ Live(j) /\ j.plan # None
  BY WalkBatchCases DEF TypeOK, Jobs, Ordinals, WalkKnown, Live
<1>4. walk \in Walks /\ walk.nth = w.nth
  <2>1. /\ w \in Walks /\ batch \in SUBSET Listable
        /\ examined \in SUBSET batch /\ unread \in BOOLEAN
    BY <1>3
  <2>. QED BY ONLY <2>1, ExamineType
<1>5. UNCHANGED <<stored, writing, mode, interval, object, cache, pass, trust, now, walks, newest>>
  BY WalkBatchCases
<1>6. \/ jobs' = [jobs EXCEPT ![s] = EndedAs(j, Stop(walk, short), TRUE, stamped)]
      \/ \E next \in NextAt(w, batch) :
           jobs' = [jobs EXCEPT ![s] = [j EXCEPT !.walk = [walk EXCEPT !.at = next]]]
  BY <1>2 DEF BatchStep, Examine, Stop
<1> HIDE DEF walk
<1>7. CASE jobs' = [jobs EXCEPT ![s] = EndedAs(j, Stop(walk, short), TRUE, stamped)]
  <2> DEFINE k == EndedAs(j, Stop(walk, short), TRUE, stamped)
  <2>1. Stop(walk, short) \in Walks /\ Stop(walk, short).nth = w.nth
    BY <1>4, StopType
  <2>2. k \in Jobs /\ k.state = "ended" /\ k.end = now /\ k.walk.nth = w.nth /\ k.plan = j.plan
    <3>1. \A b \in BOOLEAN : EndedAs(j, Stop(walk, short), TRUE, b) \in Jobs
      BY <1>3, <2>1, EndedType
    <3>2. k \in Jobs
      BY <3>1
    <3>. QED BY <2>1, <3>2 DEF EndedAs, NoJob, Walks
  <2>3. jobs' = [jobs EXCEPT ![s] = k]
    BY <1>7
  <2> HIDE DEF k
  <2>4. JobMoves(s, k)
    BY <1>3, <1>5, <2>2, <2>3 DEF JobMoves, Ended
  <2>. QED BY <2>2, <2>4 DEF JobRuns
<1>8. ASSUME NEW next \in NextAt(w, batch),
             jobs' = [jobs EXCEPT ![s] = [j EXCEPT !.walk = [walk EXCEPT !.at = next]]]
      PROVE  JobRuns(s)
  <2> DEFINE v == [walk EXCEPT !.at = next]
             k == [j EXCEPT !.walk = v]
  <2>1. next \in Int
    BY <1>3, WalkOn
  <2>2. v \in Walks /\ v.nth = w.nth
    BY <1>4, <2>1 DEF Walks
  <2>3. /\ k \in Jobs /\ k.state = "walking" /\ k.made = j.made /\ k.walk.nth = w.nth
        /\ k.plan = j.plan
    BY <1>3, <2>2 DEF Jobs
  <2>4. jobs' = [jobs EXCEPT ![s] = k]
    BY <1>8
  <2> HIDE DEF k, v
  <2>5. JobMoves(s, k)
    BY <1>3, <1>5, <2>3, <2>4 DEF JobMoves, Ended
  <2>. QED BY <2>3, <2>5 DEF JobRuns
<1>. QED BY <1>6, <1>7, <1>8

LEMMA FailJobRuns ==
  ASSUME TypeOK, NEW s \in Stem, FailJob(s)
  PROVE  /\ JobRuns(s)
         /\ walks' = walks
         /\ \E stamped \in BOOLEAN :
              jobs' = [jobs EXCEPT ![s] = EndedAs(jobs[s], NewWalk, FALSE, stamped)]
<1>1. PICK stamped \in BOOLEAN :
        jobs' = [jobs EXCEPT ![s] = EndedAs(jobs[s], NewWalk, FALSE, stamped)]
  BY Zenon DEF FailJob
<1> DEFINE k == EndedAs(jobs[s], NewWalk, FALSE, stamped)
<1>2. jobs[s] \in Jobs
  BY DEF TypeOK
<1>3. /\ k \in Jobs /\ k.state = "ended" /\ k.end = now /\ ~k.relay
      /\ k.walk.nth = NewWalk.nth /\ k.plan = jobs[s].plan /\ k.walk.stop = "no"
  <2>1. \A b \in BOOLEAN : EndedAs(jobs[s], NewWalk, FALSE, b) \in Jobs
    BY <1>2, Constants, EndedType
  <2>2. k \in Jobs
    BY <2>1
  <2>. QED BY <2>2 DEF EndedAs, NoJob, NewWalk
<1>4. NewWalk.nth = 0
  BY DEF NewWalk
<1>5. /\ Live(jobs[s]) /\ walks' = walks
      /\ UNCHANGED <<stored, writing, mode, interval, object, cache, pass, trust, now, newest>>
  BY DEF FailJob, archiveVars
<1>6. jobs' = [jobs EXCEPT ![s] = k]
  BY <1>1
<1> HIDE DEF k
<1>7. JobMoves(s, k)
  BY <1>3, <1>4, <1>5, <1>6 DEF JobMoves, Ended
<1>. QED BY <1>1, <1>3, <1>5, <1>7 DEF JobRuns

LEMMA RunJobRuns ==
  ASSUME TypeOK, Ordinals, NEW s \in Stem, RunJob(s)
  PROVE  JobRuns(s)
BY BeginWalkRuns, WalkBatchRuns, FailJobRuns DEF RunJob

-----------------------------------------------------------------------------
(* The statuses a pass writes.                                             *)

LEMMA TidyType ==
  ASSUME NEW s \in Statuses, NEW present \in BOOLEAN, NEW t \in Nat
  PROVE  LET k == Tidy(s, present, t) IN
         /\ k \in Statuses
         /\ k.view \in {s.view, NoView}
         /\ k.job = s.job /\ k.finished = s.finished /\ k.observed = s.observed
         /\ k.complete = s.complete /\ k.expires = s.expires
<1>1. NoView \in Views
  BY Constants
<1>. QED BY <1>1 DEF Tidy, Statuses

LEMMA JobType ==
  ASSUME TypeOK, NEW s \in Stems
  PROVE  Job(s) \in Jobs
<1>1. CASE Present(s)
  BY <1>1 DEF Job, TypeOK, Present, Stems
<1>2. CASE ~Present(s)
  BY <1>2, Constants DEF Job
<1>. QED BY <1>1, <1>2

LEMMA CursorType ==
  ASSUME NEW s \in Statuses, NEW w \in Walks
  PROVE  MergedCursor(s, w) \in Nat
<1>1. CASE Reported(w) = None
  BY <1>1 DEF MergedCursor, Statuses
<1>2. CASE w.seen # {} /\ Reported(w) = Max({Key[p] : p \in w.seen})
  <2>1. w.seen \in SUBSET Points
    BY DEF Walks
  <2>2. Reported(w) \in Nat
    BY <1>2, <2>1, LastKey
  <2>. QED BY <1>1, <2>2 DEF MergedCursor
<1>. QED BY <1>1, <1>2 DEF Reported

LEMMA PublishedType ==
  ASSUME TypeOK, NEW s \in Statuses, NEW j \in Jobs, j.stamped => j.end # None,
         NEW t \in Nat, NEW b \in BOOLEAN
  PROVE  /\ Published(s, j, t, b) \in Statuses
         /\ FinishedAt(j, t) \in Nat
<1>1. FinishedAt(j, t) \in Nat
  BY DEF FinishedAt, Jobs, Instant
<1>2. Ttl \in Nat
  BY TtlType DEF TypeOK
<1>3. j.walk \in Walks /\ j.walk.seen \in SUBSET Points /\ j.walk.nth \in Nat /\ j.stamped \in BOOLEAN
  BY DEF Jobs, Walks
<1>4. Newest(j.walk.seen) \in SUBSET Points
  BY <1>3 DEF Newest
<1>5. MergedCursor(s, j.walk) \in Nat
  BY <1>3, CursorType
<1> DEFINE v == [stem |-> s.job, nth |-> j.walk.nth, stamped |-> j.stamped,
                 listed |-> Newest(j.walk.seen),
                 truncated |-> \/ Cardinality(j.walk.seen) > ViewLimit
                               \/ ~b]
<1>6. v \in Views
  BY <1>3, <1>4 DEF Views, Statuses
<1>7. (j.walk.stop = "range" /\ ~j.walk.unread) \in BOOLEAN
  OBVIOUS
<1>8. s \in Statuses /\ FinishedAt(j, t) \in Instant /\ FinishedAt(j, t) + Ttl \in Instant
  BY <1>1, <1>2 DEF Instant
<1>9. Published(s, j, t, b) =
        [s EXCEPT !.finished = FinishedAt(j, t),
                  !.expires = FinishedAt(j, t) + Ttl,
                  !.cursor = MergedCursor(s, j.walk),
                  !.complete = j.walk.stop = "range" /\ ~j.walk.unread,
                  !.view = v]
  BY Zenon DEF Published
<1> HIDE DEF v
<1>10. Published(s, j, t, b) \in Statuses
  BY <1>5, <1>6, <1>7, <1>8, <1>9 DEF Statuses
<1>. QED BY <1>1, <1>10

LEMMA PublishedFields ==
  ASSUME NEW s \in Statuses, NEW j, NEW t, NEW b
  PROVE  /\ Published(s, j, t, b).job = s.job
         /\ Published(s, j, t, b).observed = s.observed
         /\ Published(s, j, t, b).finished = FinishedAt(j, t)
         /\ Published(s, j, t, b).expires = FinishedAt(j, t) + Ttl
         /\ Published(s, j, t, b).view.nth = j.walk.nth
         /\ Published(s, j, t, b).view.stem = s.job
         /\ Published(s, j, t, b).view.listed = Newest(j.walk.seen)
         /\ Published(s, j, t, b).view.stamped = j.stamped
         /\ Published(s, j, t, b).complete <=> j.walk.stop = "range" /\ ~j.walk.unread
         /\ Published(s, j, t, b).view.truncated
              <=> Cardinality(j.walk.seen) > ViewLimit \/ ~b
BY DEF Published, Statuses

LEMMA StartedType ==
  ASSUME NEW s \in Statuses, NEW stem \in Stem
  PROVE  /\ Started(s, stem) \in Statuses
         /\ Started(s, stem).job = stem
         /\ Started(s, stem).finished = None
         /\ Started(s, stem).view = s.view
         /\ Started(s, stem).expires = s.expires
         /\ Started(s, stem).complete = s.complete
         /\ Started(s, stem).observed = IF stem[1] = "request" THEN stem[2] ELSE s.observed
<1>1. stem[1] = "request" => stem[2] \in Nat
  BY Constants DEF Stem
<1>2. stem \in Stems /\ None \in Instant /\ s.observed \in Nat
  BY DEF Stems, Instant, Statuses
<1>3. (IF stem[1] = "request" THEN stem[2] ELSE s.observed) \in Nat
  BY <1>1, <1>2
<1> DEFINE o == IF stem[1] = "request" THEN stem[2] ELSE s.observed
<1>4. Started(s, stem) = [s EXCEPT !.job = stem, !.finished = None, !.observed = o]
  BY DEF Started
<1> HIDE DEF o
<1>5. Started(s, stem) \in Statuses /\ Started(s, stem).observed = o
  BY <1>2, <1>3, <1>4 DEF Statuses, o
<1>. QED BY <1>4, <1>5 DEF Statuses, o

\* A trigger names a Job.
LEMMA TriggerType ==
  ASSUME interval \in Nat, NEW c \in Objects, NEW t \in 0..Horizon, Triggered(c, t)
  PROVE  /\ TriggerStem(c, t) \in Stem
         /\ Requested(c) => TriggerStem(c, t) = <<"request", c.request>> /\ c.request \in 1..MaxRequests
         /\ ~Requested(c) => /\ interval > 0
                             /\ TriggerStem(c, t) = <<"slot", Slot(t)>>
                             /\ Slot(t) \in 0..Horizon
                             /\ ~SlotServed(c.status, t)
<1>1. Horizon \in Nat /\ MaxRequests \in Nat
  BY Constants
<1>2. CASE Requested(c)
  <2>1. c.request \in 1..MaxRequests
    BY <1>1, <1>2 DEF Requested, Objects
  <2>. QED BY <1>2, <2>1 DEF TriggerStem, Stem
<1>3. CASE ~Requested(c)
  <2>1. interval > 0 /\ ~SlotServed(c.status, t)
    BY <1>3 DEF Triggered
  <2>2. Slot(t) \in 0..Horizon
    BY <1>1, <2>1, SlotType
  <2>. QED BY <1>3, <2>1, <2>2 DEF TriggerStem, Stem
<1>. QED BY <1>2, <1>3

-----------------------------------------------------------------------------
(* The steps, with the frame of each spelt out.                            *)

\* The archive, the mode, the keys and the clock stand still.
Still == UNCHANGED <<stored, writing, mode, interval, trust, now>>

\* A write of a status.
Writes(status) ==
  /\ object' = [object EXCEPT !.status = status]
  /\ cache' = cache \/ cache' = object'
  /\ newest' = IF status.view.nth > newest THEN status.view.nth ELSE newest

LEMMA PutStatusWrites == ASSUME NEW status, PutStatus(status) PROVE Writes(status)
BY DEF PutStatus, Announce, Writes

LEMMA WriteOnlyShape ==
  ASSUME NEW status, WriteOnly(status)
  PROVE  /\ Still /\ UNCHANGED <<pass, jobs, walks>>
         /\ Writes(status) /\ pass.step = "none" /\ cache = object
BY PutStatusWrites DEF WriteOnly, others, archiveVars, Still

LEMMA HarvestShape ==
  ASSUME Harvest
  PROVE  /\ Still /\ UNCHANGED <<object, cache, newest, jobs, walks>>
         /\ pass.step = "none" /\ Unread /\ Tracked.relay
         /\ At("pages", Tracked)
BY DEF Harvest, callFrame, others, archiveVars, Still

LEMMA WritePagesShape ==
  ASSUME WritePages
  PROVE  /\ Still /\ UNCHANGED <<object, cache, newest, walks>>
         /\ pass.step = "pages"
         /\ LET s == pass.copy.status
                conflict == Present(s.job) /\ jobs[s.job].pages \notin {None, pass.trust}
            IN
            /\ pass' = [pass EXCEPT !.step = "patch", !.job = NoJob,
                          !.write = IF conflict THEN Tidy(s, pass.present, pass.now)
                                    ELSE Published(s, pass.job, pass.now, FromStart(s.job))]
            /\ jobs' = IF Present(s.job) /\ ~conflict
                       THEN [jobs EXCEPT ![s.job].pages = pass.trust] ELSE jobs
BY DEF WritePages, callFrame, others, archiveVars, Still

LEMMA StartSyncShape ==
  ASSUME StartSync
  PROVE  /\ Still /\ UNCHANGED <<object, cache, newest, jobs, walks>>
         /\ pass.step = "none" /\ ~Live(Tracked) /\ ~Unread /\ Due
         /\ At("create", NoJob)
BY DEF StartSync, callFrame, others, archiveVars, Still

NewJob == [NoJob EXCEPT !.state = "pending", !.made = now, !.pin = pass.copy.status.cursor]

LEMMA CreateJobShape ==
  ASSUME CreateJob
  PROVE  /\ Still /\ UNCHANGED <<object, cache, newest, walks>>
         /\ pass.step = "create"
         /\ jobs' = IF Present(WantedStem) THEN jobs ELSE [jobs EXCEPT ![WantedStem] = NewJob]
         /\ pass' = [pass EXCEPT !.step = "plan"]
BY DEF CreateJob, callFrame, others, archiveVars, Still, NewJob

LEMMA EnsurePlanShape ==
  ASSUME EnsurePlan
  PROVE  /\ Still /\ UNCHANGED <<object, cache, newest, walks>>
         /\ pass.step = "plan"
         /\ LET s == pass.copy.status
                kept == Tidy(s, pass.present, pass.now)
            IN
            /\ \/ pass' = [pass EXCEPT !.step = "patch", !.write = Started(kept, WantedStem)]
               \/ pass' = [pass EXCEPT !.step = "patch", !.write = kept]
            /\ \/ jobs' = jobs
               \/ /\ Present(WantedStem) /\ jobs[WantedStem].plan = None
                  /\ jobs' = [jobs EXCEPT ![WantedStem].plan = s.cursor]
BY DEF EnsurePlan, callFrame, others, archiveVars, Still

LEMMA WriteStatusShape ==
  ASSUME WriteStatus
  PROVE  /\ Still /\ UNCHANGED <<jobs, walks>>
         /\ pass.step = "patch" /\ pass' = NoPass
         /\ \/ pass.copy = object /\ Writes(pass.write)
            \/ UNCHANGED <<object, cache, newest>>
BY PutStatusWrites DEF WriteStatus, others, archiveVars, Still

LEMMA StopPassShape ==
  ASSUME StopPass
  PROVE  Still /\ UNCHANGED <<object, cache, newest, jobs, walks>> /\ pass' = NoPass
BY DEF StopPass, others, archiveVars, Still

LEMMA DeliverShape ==
  ASSUME Deliver
  PROVE  Still /\ UNCHANGED <<object, newest, jobs, walks, pass>> /\ cache' = object
BY DEF Deliver, others, archiveVars, Still

LEMMA AskShape ==
  ASSUME Ask
  PROVE  /\ Still /\ UNCHANGED <<newest, jobs, walks, pass>>
         /\ object.request < MaxRequests
         /\ object' = [object EXCEPT !.request = @ + 1]
         /\ cache' = cache \/ cache' = object'
BY DEF Ask, Announce, others, archiveVars, Still

\* Nothing moves but the archive and the keys.
Elsewhere ==
  /\ UNCHANGED <<mode, interval, object, cache, pass, jobs, now, walks, newest>>
  /\ trust' \in {trust, trust + 1}
  /\ writing' \in [Writer -> [point : Nat, next : Nat]]
  /\ stored' \in [Points -> Nat]
  /\ \A p \in Points : stored[p] <= stored'[p]

LEMMA ArchiveShape ==
  ASSUME TypeOK, ArchiveNext, UNCHANGED catalogVars
  PROVE  Elsewhere
<1>1. UNCHANGED <<mode, interval, object, cache, pass, jobs, trust, now, walks, newest>>
  BY DEF catalogVars
<1>2. stored \in [Points -> Nat] /\ writing \in [Writer -> [point : Nat, next : Nat]]
  BY DEF TypeOK
<1>3. AtRest \in [point : Nat, next : Nat] /\ Done \in Nat /\ Record \in Nat
  BY DEF AtRest, Done, LogEntry, Record
<1>4. Points \subseteq Nat /\ "runner" \in Writer /\ "backfill" \in Writer
  BY Constants DEF Writer
<1> SUFFICES /\ writing' \in [Writer -> [point : Nat, next : Nat]]
             /\ stored' \in [Points -> Nat]
             /\ \A p \in Points : stored[p] <= stored'[p]
  BY <1>1 DEF Elsewhere
<1>5. ASSUME NEW p \in Points, BackUp(p)
      PROVE  writing' \in [Writer -> [point : Nat, next : Nat]] /\ stored' = stored
  BY <1>2, <1>3, <1>4, <1>5 DEF BackUp
<1>6. ASSUME NEW p \in Points, Backfill(p)
      PROVE  writing' \in [Writer -> [point : Nat, next : Nat]] /\ stored' = stored
  BY <1>2, <1>3, <1>4, <1>6 DEF Backfill
<1>7. ASSUME NEW w \in Writer, PutObject(w)
      PROVE  /\ writing' \in [Writer -> [point : Nat, next : Nat]]
             /\ stored' \in [Points -> Nat]
             /\ \A p \in Points : stored[p] <= stored'[p]
  <2>1. writing[w] \in [point : Nat, next : Nat]
    BY <1>2
  <2>2. writing[w].next \in Nat
    BY <2>1
  <2> DEFINE k == [writing[w] EXCEPT !.next = writing[w].next + 1]
  <2>3. writing' = [writing EXCEPT ![w] = k]
    BY <1>7 DEF PutObject
  <2>4. k \in [point : Nat, next : Nat]
    BY <2>1, <2>2
  <2>5. stored' = [stored EXCEPT ![writing[w].point] =
                     IF @ < writing[w].next THEN writing[w].next ELSE @]
    BY <1>7 DEF PutObject
  <2> HIDE DEF k
  <2>6. writing' \in [Writer -> [point : Nat, next : Nat]]
    BY <1>2, <2>3, <2>4
  <2>7. stored' \in [Points -> Nat] /\ \A p \in Points : stored[p] <= stored'[p]
    <3> DEFINE q == writing[w].point
               n == writing[w].next
               v == IF stored[q] < n THEN n ELSE stored[q]
    <3>1. CASE q \in Points
      <4>1. v \in Nat /\ stored[q] <= v /\ stored' = [stored EXCEPT ![q] = v]
        BY <1>2, <2>2, <2>5, <3>1
      <4>. HIDE DEF q, v
      <4>. QED BY <1>2, <3>1, <4>1
    <3>2. CASE q \notin Points
      <4>1. stored' = stored
        BY <1>2, <2>5, <3>2
      <4>. QED BY <1>2, <4>1
    <3>. QED BY <3>1, <3>2
  <2>. QED BY <2>6, <2>7
<1>8. ASSUME NEW w \in Writer, StopWriting(w)
      PROVE  writing' \in [Writer -> [point : Nat, next : Nat]] /\ stored' = stored
  BY <1>2, <1>3, <1>8 DEF StopWriting
<1>9. ASSUME EndBackfill
      PROVE  writing' \in [Writer -> [point : Nat, next : Nat]] /\ stored' = stored
  BY <1>2, <1>3, <1>4, <1>9 DEF EndBackfill
<1>. QED BY <1>2, <1>5, <1>6, <1>7, <1>8, <1>9 DEF ArchiveNext

LEMMA TrustShape == ASSUME TypeOK, ChangeTrust PROVE Elsewhere
BY DEF ChangeTrust, archiveVars, Elsewhere, TypeOK

LEMMA CollectShape ==
  ASSUME NEW s \in Stem, Collect(s)
  PROVE  /\ Still /\ UNCHANGED <<object, cache, pass, walks, newest>>
         /\ Ended(jobs[s]) /\ now >= jobs[s].end + Ttl
         /\ jobs' = [jobs EXCEPT ![s] = NoJob]
BY DEF Collect, archiveVars, Still

LEMMA TickShape ==
  ASSUME Tick
  PROVE  /\ UNCHANGED <<stored, writing, mode, interval, trust, object, cache, pass, jobs, walks,
                        newest>>
         /\ now < Horizon /\ now' = now + 1
BY DEF Tick, archiveVars

-----------------------------------------------------------------------------
(* Types.                                                                  *)

\* What a pass works with.
LEMMA PassTypes ==
  ASSUME TypeOK
  PROVE  /\ Tracked = Job(cache.status.job) /\ Tracked \in Jobs
         /\ Kept \in Statuses /\ Kept.view \in {cache.status.view, NoView}
         /\ Kept.job = cache.status.job /\ Kept.finished = cache.status.finished
         /\ Kept.observed = cache.status.observed /\ Kept.complete = cache.status.complete
         /\ Kept.expires = cache.status.expires
<1>1. cache.status \in Statuses /\ cache.status.job \in Stems /\ now \in Nat
  BY Constants DEF TypeOK, Objects, Statuses
<1>2. Tracked = Job(cache.status.job)
  BY DEF Tracked, Job
<1>3. Present(cache.status.job) \in BOOLEAN
  BY DEF Present
<1>. QED BY <1>1, <1>2, <1>3, JobType, TidyType DEF Kept

LEMMA WritesType ==
  ASSUME TypeOK, Ordinals, NEW status \in Statuses, status.view.nth <= Len(walks), Writes(status)
  PROVE  object' \in Objects /\ cache' \in Objects /\ newest' \in 0..Len(walks)
<1>1. object \in Objects /\ cache \in Objects /\ newest \in 0..Len(walks) /\ Len(walks) \in Nat
  BY DEF TypeOK
<1>2. status.view.nth \in Nat
  BY DEF Statuses, Views
<1>. QED BY <1>1, <1>2 DEF Writes, Objects

LEMMA AtType ==
  ASSUME TypeOK, NEW step \in {"pages", "create"}, NEW job \in Jobs, At(step, job)
  PROVE  pass' \in Passes
<1>1. cache \in Objects /\ now \in 0..Horizon /\ trust \in Nat
  BY DEF TypeOK
<1>2. Present(cache.status.job) \in BOOLEAN /\ NoStatus \in Statuses
  BY Constants DEF Present
<1>. QED BY <1>1, <1>2 DEF At, Passes

LEMMA TypeJobs ==
  ASSUME TypeOK, NEW s \in Stem, NEW k \in Jobs, jobs' = [jobs EXCEPT ![s] = k]
  PROVE  jobs' \in [Stem -> Jobs]
BY DEF TypeOK

LEMMA TypeStep == IInv /\ [Next]_vars => TypeOK'
<1> SUFFICES ASSUME IInv, [Next]_vars PROVE TypeOK'
  OBVIOUS
<1>0. TypeOK /\ Ordinals /\ StartFits /\ JobHeld
  BY DEF IInv
<1>1. CASE UNCHANGED vars
  BY <1>0, <1>1 DEF vars, archiveVars, catalogVars, TypeOK
<1>2. CASE Elsewhere
  BY <1>0, <1>2 DEF Elsewhere, TypeOK
<1>3. ASSUME NEW s \in Stem, RunJob(s) PROVE TypeOK'
  <2>1. PICK k \in Jobs : JobMoves(s, k)
    BY <1>0, <1>3, RunJobRuns DEF JobRuns
  <2>2. jobs' \in [Stem -> Jobs]
    BY <1>0, <2>1, TypeJobs DEF JobMoves
  <2>3. Listable \subseteq Points
    BY DEF Listable, Indexed, Recorded
  <2>4. walks' \in Seq(SUBSET Points) /\ Len(walks) \in Nat /\ Len(walks') >= Len(walks)
    <3>1. walks \in Seq(SUBSET Points) /\ Listable \in SUBSET Points
      BY <1>0, <2>3 DEF TypeOK
    <3>2. walks' = walks \/ walks' = Append(walks, Listable)
      BY <2>1 DEF JobMoves
    <3>. QED BY <3>1, <3>2
  <2>. QED BY <1>0, <2>1, <2>2, <2>4 DEF JobMoves, TypeOK
<1>4. ASSUME NEW s \in Stem, Collect(s) PROVE TypeOK'
  <2>1. jobs' \in [Stem -> Jobs]
    BY <1>0, <1>4, CollectShape, Constants, TypeJobs
  <2>. QED BY <1>0, <1>4, <2>1, CollectShape DEF TypeOK, Still
<1>5. CASE Deliver
  BY <1>0, <1>5, DeliverShape DEF TypeOK, Still
<1>6. CASE Ask
  <2>1. object.request + 1 \in 0..MaxRequests
    BY <1>0, <1>6, AskShape, Constants DEF TypeOK, Objects
  <2>2. object' \in Objects
    BY <1>0, <1>6, <2>1, AskShape DEF TypeOK, Objects
  <2>. QED BY <1>0, <1>6, <2>2, AskShape DEF TypeOK, Still
<1>7. CASE Tick
  BY <1>0, <1>7, TickShape, Constants DEF TypeOK
<1>8. ASSUME NEW status \in Statuses, WriteOnly(status), status.view.nth <= Len(walks)
      PROVE  TypeOK'
  BY <1>0, <1>8, WriteOnlyShape, WritesType DEF TypeOK, Still
<1>9. Kept.view.nth <= Len(walks) /\ Kept \in Statuses
  <2>1. cache.status.view.nth <= Len(walks) /\ Len(walks) \in Nat
    BY <1>0 DEF Ordinals, Known, TypeOK
  <2>. QED BY <1>0, <2>1, PassTypes DEF NoView
<1>10. CASE Report
  BY <1>8, <1>9, <1>10 DEF Report
<1>11. CASE HarvestFailed
  <2>1. Tracked \in Jobs /\ (Ended(Tracked) => Tracked.end # None) /\ now \in Nat /\ Ended(Tracked)
    <3>1. Ended(Tracked) /\ Present(cache.status.job)
      BY <1>11 DEF HarvestFailed, Unread, Tracked, Ended, NoJob
    <3>2. cache.status.job \in Stem
      BY <1>0, <3>1 DEF Present, TypeOK, Objects, Statuses, Stems
    <3>. QED BY <1>0, <3>1, <3>2, PassTypes, Constants DEF Ordinals, WalkKnown, Job, TypeOK
  <2>2. FinishedAt(Tracked, now) \in Instant
    BY <2>1 DEF FinishedAt, Jobs, Instant
  <2>3. [Kept EXCEPT !.finished = FinishedAt(Tracked, now)] \in Statuses
    BY <1>9, <2>2 DEF Statuses
  <2>4. [Kept EXCEPT !.finished = FinishedAt(Tracked, now)].view.nth <= Len(walks)
    BY <1>9 DEF Statuses
  <2>. QED BY <1>8, <1>11, <2>3, <2>4 DEF HarvestFailed
<1>12. CASE Harvest
  BY <1>0, <1>12, HarvestShape, AtType, PassTypes DEF TypeOK, Still
<1>13. CASE StartSync
  BY <1>0, <1>13, StartSyncShape, AtType, Constants DEF TypeOK, Still
<1>14. CASE WritePages
  <2> DEFINE s == pass.copy.status
  <2>1. /\ pass \in Passes /\ s \in Statuses /\ pass.job \in Jobs /\ pass.now \in Nat
        /\ pass.trust \in Instant /\ pass.present \in BOOLEAN
    BY <1>0, Constants DEF TypeOK, Passes, Objects, Instant
  <2>2. pass.job.stamped => pass.job.end # None
    BY <1>0, <1>14, WritePagesShape DEF JobHeld, Ordinals, WalkKnown
  <2>3. FromStart(s.job) \in BOOLEAN
    BY DEF FromStart, Present
  <2>4. /\ Tidy(s, pass.present, pass.now) \in Statuses
        /\ Published(s, pass.job, pass.now, FromStart(s.job)) \in Statuses
    BY <1>0, <2>1, <2>2, <2>3, TidyType, PublishedType
  <2>5. PICK write \in Statuses : pass' = [pass EXCEPT !.step = "patch", !.job = NoJob, !.write = write]
    BY <1>14, <2>4, WritePagesShape
  <2>6. pass' \in Passes
    BY <2>1, <2>5, Constants DEF Passes
  <2>7. jobs' \in [Stem -> Jobs]
    <3>1. CASE jobs' = jobs
      BY <1>0, <3>1 DEF TypeOK
    <3>2. CASE jobs' = [jobs EXCEPT ![s.job].pages = pass.trust] /\ Present(s.job)
      <4>1. s.job \in Stem /\ jobs[s.job] \in Jobs
        BY <1>0, <2>1, <3>2 DEF Present, Statuses, Stems, TypeOK
      <4> DEFINE k == [jobs[s.job] EXCEPT !.pages = pass.trust]
      <4>2. k \in Jobs /\ jobs' = [jobs EXCEPT ![s.job] = k]
        BY <2>1, <3>2, <4>1 DEF Jobs
      <4>. HIDE DEF k
      <4>. QED BY <1>0, <4>1, <4>2, TypeJobs
    <3>. QED BY <1>14, <3>1, <3>2, WritePagesShape
  <2>. QED BY <1>0, <1>14, <2>6, <2>7, WritePagesShape DEF TypeOK, Still
<1>15. CASE CreateJob
  <2>1. pass' \in Passes
    BY <1>0, <1>15, CreateJobShape DEF TypeOK, Passes
  <2>2. WantedStem \in Stem
    BY <1>0, <1>15, CreateJobShape DEF StartFits, Starting
  <2>a. now \in Nat /\ pass.copy.status.cursor \in Instant
    BY <1>0, Constants DEF TypeOK, Passes, Objects, Statuses, Instant
  <2>3. NewJob \in Jobs
    BY <2>a, Constants DEF NewJob, Jobs
  <2>4. jobs' \in [Stem -> Jobs]
    BY <1>0, <1>15, <2>2, <2>3, CreateJobShape, TypeJobs DEF TypeOK
  <2>. QED BY <1>0, <1>15, <2>1, <2>4, CreateJobShape DEF TypeOK, Still
<1>16. CASE EnsurePlan
  <2> DEFINE s == pass.copy.status
             kept == Tidy(s, pass.present, pass.now)
  <2>1. /\ pass \in Passes /\ s \in Statuses /\ pass.now \in Nat /\ s.cursor \in Instant
        /\ pass.present \in BOOLEAN
    BY <1>0, Constants DEF TypeOK, Passes, Objects, Instant, Statuses
  <2>2. WantedStem \in Stem
    BY <1>0, <1>16, EnsurePlanShape DEF StartFits, Starting
  <2>3. kept \in Statuses
    BY <2>1, TidyType
  <2>4. Started(kept, WantedStem) \in Statuses
    BY <2>2, <2>3, StartedType
  <2>5. PICK write \in Statuses : pass' = [pass EXCEPT !.step = "patch", !.write = write]
    BY <1>16, <2>3, <2>4, EnsurePlanShape
  <2>6. pass' \in Passes
    BY <2>1, <2>5 DEF Passes
  <2>7. jobs' \in [Stem -> Jobs]
    <3>1. CASE jobs' = jobs
      BY <1>0, <3>1 DEF TypeOK
    <3>2. CASE jobs' = [jobs EXCEPT ![WantedStem].plan = s.cursor]
      <4> DEFINE k == [jobs[WantedStem] EXCEPT !.plan = s.cursor]
      <4>1. jobs[WantedStem] \in Jobs
        BY <1>0, <2>2 DEF TypeOK
      <4>2. k \in Jobs /\ jobs' = [jobs EXCEPT ![WantedStem] = k]
        BY <2>1, <3>2, <4>1 DEF Jobs
      <4>. HIDE DEF k
      <4>. QED BY <1>0, <2>2, <4>2, TypeJobs
    <3>. QED BY <1>16, <3>1, <3>2, EnsurePlanShape
  <2>. QED BY <1>0, <1>16, <2>6, <2>7, EnsurePlanShape DEF TypeOK, Still
<1>17. CASE WriteStatus
  <2>1. pass.write \in Statuses /\ pass.write.view.nth <= Len(walks)
    BY <1>0 DEF TypeOK, Passes, Ordinals, Known
  <2>2. object' \in Objects /\ cache' \in Objects /\ newest' \in 0..Len(walks)
    BY <1>0, <1>17, <2>1, WriteStatusShape, WritesType DEF TypeOK
  <2>. QED BY <1>0, <1>17, <2>2, WriteStatusShape, Constants DEF TypeOK, Still
<1>18. CASE StopPass
  BY <1>0, <1>18, StopPassShape, Constants DEF TypeOK, Still
<1>. QED BY <1>0, <1>1, <1>2, <1>3, <1>4, <1>5, <1>6, <1>7, <1>10, <1>11, <1>12, <1>13, <1>14,
            <1>15, <1>16, <1>17, <1>18, ArchiveShape, TrustShape DEF Next, Pass

-----------------------------------------------------------------------------
(* Where the statuses after a step come from.                              *)

PublishedNow == Published(pass.copy.status, pass.job, pass.now, FromStart(pass.copy.status.job))

\* The status s is b with its view kept or dropped, and with its Job finished or replaced.
Derived(s, b) ==
  /\ s.view \in {b.view, NoView}
  /\ s.complete = b.complete
  /\ s.expires = b.expires
  /\ \/ s.job = b.job /\ s.finished = b.finished
     \/ s.finished = None
     \/ /\ HarvestFailed
        /\ s.job = cache.status.job
        /\ s.finished = FinishedAt(Tracked, now)

Known0 == Known \cup {NoStatus}

LEMMA KnownType == ASSUME TypeOK, NEW s \in Known0 PROVE s \in Statuses
BY Constants DEF TypeOK, Known, Known0, Objects, Passes

LEMMA SameDerived == ASSUME NEW s PROVE Derived(s, s)
BY DEF Derived

LEMMA KnownStep ==
  ASSUME IInv, [Next]_vars, NEW s, s \in Known'
  PROVE  (\E b \in Known0 : Derived(s, b)) \/ (WritePages /\ s = PublishedNow)
<1>0. TypeOK /\ StartFits
  BY DEF IInv
<1> DEFINE Goal == (\E b \in Known0 : Derived(s, b)) \/ (WritePages /\ s = PublishedNow)
<1>a. s \in Known0 => Goal
  BY SameDerived
<1>b. object.status \in Known0 /\ cache.status \in Known0 /\ pass.copy.status \in Known0
      /\ pass.write \in Known0 /\ NoStatus \in Known0
  BY DEF Known0, Known
<1>c. NoPass.copy.status = NoStatus /\ NoPass.write = NoStatus
  BY DEF NoPass, NoObject
<1>d. object \in Objects /\ pass \in Passes /\ now \in Nat
  BY <1>0, Constants DEF TypeOK
<1>1. CASE UNCHANGED <<object, cache, pass>>
  BY <1>1, <1>a, <1>b DEF Known, Known0
<1>2. CASE UNCHANGED <<object, cache>> /\ pass' = NoPass
  BY <1>2, <1>a, <1>b, <1>c DEF Known, Known0
<1>3. CASE Deliver
  BY <1>3, <1>a, <1>b, DeliverShape DEF Known, Known0
<1>4. CASE Ask
  <2>1. object'.status = object.status
    BY <1>4, <1>d, AskShape DEF Objects
  <2>. QED BY <1>4, <1>a, <1>b, <2>1, AskShape DEF Known, Known0
<1>5. ASSUME NEW status \in Statuses, Writes(status), UNCHANGED pass \/ pass' = NoPass
      PROVE  s \in Known0 \/ s = status
  <2>1. object'.status = status /\ (cache'.status = cache.status \/ cache'.status = status)
    BY <1>d, <1>5 DEF Writes, Objects
  <2>. QED BY <1>5, <1>b, <1>c, <2>1 DEF Known, Known0
<1>6. CASE Report
  <2>1. s \in Known0 \/ s = Kept
    BY <1>0, <1>5, <1>6, PassTypes, WriteOnlyShape DEF Report
  <2>2. Derived(Kept, cache.status)
    BY <1>0, PassTypes DEF Derived
  <2>. QED BY <1>a, <1>b, <2>1, <2>2
<1>7. CASE HarvestFailed
  <2> DEFINE k == [Kept EXCEPT !.finished = FinishedAt(Tracked, now)]
  <2>1. Kept \in Statuses
    BY <1>0, PassTypes
  <2>2. k.view = Kept.view /\ k.complete = Kept.complete /\ k.expires = Kept.expires
        /\ k.job = Kept.job /\ k.finished = FinishedAt(Tracked, now)
    BY <2>1 DEF Statuses
  <2>3. WriteOnly(k)
    BY <1>7 DEF HarvestFailed
  <2>4. object'.status = k /\ (cache'.status = cache.status \/ cache'.status = k)
        /\ UNCHANGED pass
    BY <1>d, <2>3, WriteOnlyShape DEF Writes, Objects
  <2> HIDE DEF k
  <2>5. s \in Known0 \/ s = k
    BY <1>b, <2>4 DEF Known, Known0
  <2>6. Derived(k, cache.status)
    BY <1>0, <1>7, <2>2, PassTypes DEF Derived
  <2>. QED BY <1>a, <1>b, <2>5, <2>6
<1>8. ASSUME NEW step, NEW job, At(step, job), UNCHANGED <<object, cache>>
      PROVE  Goal
  <2>1. pass'.copy = cache /\ pass'.write = NoStatus
    BY <1>8 DEF At
  <2>. QED BY <1>8, <1>a, <1>b, <2>1 DEF Known, Known0
<1>9. CASE Harvest
  BY <1>8, <1>9, HarvestShape
<1>10. CASE StartSync
  BY <1>8, <1>10, StartSyncShape
<1>11. CASE CreateJob
  <2>1. pass'.copy = pass.copy /\ pass'.write = pass.write
    BY <1>d, <1>11, CreateJobShape DEF Passes
  <2>. QED BY <1>11, <1>a, <1>b, <2>1, CreateJobShape DEF Known, Known0
<1>12. ASSUME NEW write, pass'.copy = pass.copy, pass'.write = write, UNCHANGED <<object, cache>>
       PROVE  s \in Known0 \/ s = write
  BY <1>12, <1>b DEF Known, Known0
<1> DEFINE kept == Tidy(pass.copy.status, pass.present, pass.now)
<1>13. kept \in Statuses /\ Derived(kept, pass.copy.status)
  <2>1. pass.copy.status \in Statuses /\ pass.present \in BOOLEAN /\ pass.now \in Nat
    BY <1>d, Constants DEF Passes, Objects
  <2>. QED BY <2>1, TidyType DEF Derived
<1>14. CASE WritePages
  <2>1. PICK write : /\ write = kept \/ write = PublishedNow
                     /\ pass' = [pass EXCEPT !.step = "patch", !.job = NoJob, !.write = write]
    BY <1>14, WritePagesShape DEF PublishedNow
  <2>2. pass'.copy = pass.copy /\ pass'.write = write
    BY <1>d, <2>1 DEF Passes
  <2>3. s \in Known0 \/ s = write
    BY <1>12, <1>14, <2>2, WritePagesShape
  <2>. QED BY <1>a, <1>b, <1>13, <1>14, <2>1, <2>3
<1>15. CASE EnsurePlan
  <2>1. WantedStem \in Stem
    BY <1>0, <1>15, EnsurePlanShape DEF StartFits, Starting
  <2>2. Derived(Started(kept, WantedStem), pass.copy.status)
    BY <1>13, <2>1, StartedType DEF Derived
  <2>3. PICK write : /\ write = kept \/ write = Started(kept, WantedStem)
                     /\ pass' = [pass EXCEPT !.step = "patch", !.write = write]
    BY <1>15, EnsurePlanShape
  <2>4. pass'.copy = pass.copy /\ pass'.write = write
    BY <1>d, <2>3 DEF Passes
  <2>5. s \in Known0 \/ s = write
    BY <1>12, <1>15, <2>4, EnsurePlanShape
  <2>. QED BY <1>a, <1>b, <1>13, <2>2, <2>3, <2>5
<1>16. CASE WriteStatus
  <2>1. CASE Writes(pass.write)
    <3>1. pass.write \in Statuses
      BY <1>d DEF Passes
    <3>2. s \in Known0 \/ s = pass.write
      BY <1>5, <1>16, <2>1, <3>1, WriteStatusShape
    <3>. QED BY <1>a, <1>b, <3>2
  <2>. QED BY <1>2, <1>16, <2>1, WriteStatusShape
<1>17. CASE \E t \in Stem : RunJob(t) \/ Collect(t)
  <2>1. UNCHANGED <<object, cache, pass>>
    BY <1>0, <1>17 DEF RunJob, BeginWalk, WalkBatch, FailJob, Collect
  <2>. QED BY SMTT(60), <1>1, <2>1
<1>18. CASE Tick \/ ChangeTrust \/ (ArchiveNext /\ UNCHANGED catalogVars) \/ UNCHANGED vars
  BY <1>1, <1>18 DEF Tick, ChangeTrust, catalogVars, vars
<1>19. CASE StopPass
  BY <1>2, <1>19, StopPassShape
<1>. QED BY <1>3, <1>4, <1>6, <1>7, <1>9, <1>10, <1>11, <1>14, <1>15, <1>16, <1>17, <1>18, <1>19
     DEF Next, Pass

-----------------------------------------------------------------------------
(* What a step does to one Job.                                            *)

\* The Job is the same but for its plan and its pages, and loses neither.
Alike(j, k) ==
  /\ k.state = j.state /\ k.made = j.made /\ k.walk = j.walk /\ k.end = j.end
  /\ k.stamped = j.stamped /\ k.relay = j.relay
  /\ k.plan = j.plan \/ j.plan = None
  /\ j.pages # None => k.pages # None
  /\ j.state = "gone" => k = j

JobChange(t) ==
  \/ Alike(jobs[t], jobs'[t])
  \/ /\ Live(jobs[t]) /\ JobMoves(t, jobs'[t]) /\ RunJob(t)
  \/ /\ Ended(jobs[t]) /\ now >= jobs[t].end + Ttl /\ jobs'[t] = NoJob /\ Collect(t)
  \/ /\ ~Present(t) /\ t = WantedStem /\ jobs'[t] = NewJob /\ CreateJob

LEMMA JobsStep ==
  ASSUME IInv, [Next]_vars, NEW t \in Stem
  PROVE  JobChange(t)
<1>0. TypeOK /\ Ordinals /\ StartFits /\ JobHeld
  BY DEF IInv
<1>a. jobs \in [Stem -> Jobs] /\ Len(walks) \in Nat /\ walks \in Seq(SUBSET Points)
  BY <1>0 DEF TypeOK
<1>b. Alike(jobs[t], jobs[t])
  BY DEF Alike
<1>1. CASE UNCHANGED jobs
  BY <1>a, <1>b, <1>1 DEF JobChange
<1>2. ASSUME NEW s \in Stem, RunJob(s)
      PROVE  JobChange(t)
  <2>1. PICK k \in Jobs : JobMoves(s, k)
    BY <1>0, <1>2, RunJobRuns DEF JobRuns
  <2>3. CASE t = s
    <3>1. jobs'[t] = k
      BY <1>a, <2>1, <2>3 DEF JobMoves
    <3>2. JobMoves(t, jobs'[t]) /\ RunJob(t)
      BY <1>2, <2>1, <2>3, <3>1
    <3>. QED BY <3>2 DEF JobChange, JobMoves
  <2>4. CASE t # s
    <3>1. jobs'[t] = jobs[t]
      BY <1>a, <2>1, <2>4 DEF JobMoves
    <3>. QED BY <1>b, <3>1 DEF JobChange
  <2>. QED BY <2>3, <2>4
<1>3. ASSUME NEW s \in Stem, Collect(s)
      PROVE  JobChange(t)
  BY <1>a, <1>b, <1>3, CollectShape DEF JobChange, Still
<1>4. CASE WritePages
  <2> DEFINE s == pass.copy.status.job
  <2>1. Alike(jobs[t], jobs'[t])
    <3>1. CASE jobs'[t] = jobs[t]
      BY <3>1 DEF Alike
    <3>2. CASE t = s /\ Present(s) /\ jobs' = [jobs EXCEPT ![s].pages = pass.trust]
      <4>1. jobs[t] \in Jobs /\ jobs[t].state # "gone"
        BY <1>a, <3>2 DEF Present
      <4>2. jobs'[t] = [jobs[t] EXCEPT !.pages = pass.trust]
        BY <1>a, <3>2
      <4>3. pass.trust # None
        BY <1>0 DEF TypeOK, Passes, None
      <4>. QED BY <4>1, <4>2, <4>3 DEF Alike, Jobs
    <3>. QED BY <1>a, <1>4, <3>1, <3>2, WritePagesShape
  <2>. QED BY <1>a, <1>4, <2>1, WritePagesShape DEF JobChange, Still
<1>5. CASE EnsurePlan
  <2> DEFINE s == WantedStem
  <2>1. Alike(jobs[t], jobs'[t])
    <3>1. CASE jobs'[t] = jobs[t]
      BY <3>1 DEF Alike
    <3>2. CASE /\ t = s /\ Present(s) /\ jobs[s].plan = None
               /\ jobs' = [jobs EXCEPT ![s].plan = pass.copy.status.cursor]
      <4>1. jobs[t] \in Jobs /\ jobs[t].state # "gone"
        BY <1>a, <3>2 DEF Present
      <4>2. jobs'[t] = [jobs[t] EXCEPT !.plan = pass.copy.status.cursor]
        BY <1>a, <3>2
      <4>. QED BY <3>2, <4>1, <4>2 DEF Alike, Jobs
    <3>. QED BY <1>a, <1>5, <3>1, <3>2, EnsurePlanShape
  <2>. QED BY <1>a, <1>5, <2>1, EnsurePlanShape DEF JobChange, Still
<1>6. CASE CreateJob
  BY <1>a, <1>b, <1>6, CreateJobShape DEF JobChange, Still
<1>7. CASE Report \/ HarvestFailed \/ Harvest \/ StartSync \/ WriteStatus \/ StopPass
  BY <1>1, <1>7, WriteOnlyShape, HarvestShape, StartSyncShape, WriteStatusShape, StopPassShape
     DEF Report, HarvestFailed, Still
<1>8. CASE Deliver \/ Ask
  BY <1>1, <1>8, DeliverShape, AskShape DEF Still
<1>9. CASE Elsewhere \/ Tick \/ UNCHANGED vars
  BY <1>1, <1>9, TickShape DEF Elsewhere, vars, catalogVars
<1>. QED BY <1>0, <1>2, <1>3, <1>4, <1>5, <1>6, <1>7, <1>8, <1>9, ArchiveShape, TrustShape
     DEF Next, Pass

-----------------------------------------------------------------------------
(* Time and order.                                                         *)

\* What no step undoes.
LEMMA TimeStep ==
  ASSUME TypeOK, Ordinals, [Next]_vars
  PROVE  /\ now' = now \/ now' = now + 1
         /\ mode' = mode /\ interval' = interval
         /\ now \in Nat
         /\ walks' = walks \/ walks' = Append(walks, Listable)
<1>0. now \in Nat
  BY Constants DEF TypeOK
<1>1. ASSUME NEW s \in Stem, RunJob(s)
      PROVE  /\ now' = now /\ mode' = mode /\ interval' = interval
             /\ walks' = walks \/ walks' = Append(walks, Listable)
  <2>1. PICK k \in Jobs : JobMoves(s, k)
    BY <1>1, RunJobRuns DEF JobRuns
  <2>. QED BY <2>1 DEF JobMoves
<1>2. ASSUME NEW s \in Stem, Collect(s)
      PROVE  now' = now /\ mode' = mode /\ interval' = interval /\ walks' = walks
  BY <1>2, CollectShape DEF Still
<1>3. CASE Pass
  BY <1>0, <1>3, WriteOnlyShape, HarvestShape, StartSyncShape, WritePagesShape, CreateJobShape,
     EnsurePlanShape, WriteStatusShape, StopPassShape DEF Pass, Report, HarvestFailed, Still
<1>4. CASE Deliver \/ Ask
  BY <1>0, <1>4, DeliverShape, AskShape DEF Still
<1>5. CASE Elsewhere \/ Tick \/ UNCHANGED vars
  BY <1>0, <1>5, TickShape DEF Elsewhere, vars, catalogVars
<1>. QED BY <1>0, <1>1, <1>2, <1>3, <1>4, <1>5, ArchiveShape, TrustShape DEF Next

\* The passes of a step.
LEMMA PassStep ==
  ASSUME TypeOK, [Next]_vars
  PROVE  \/ UNCHANGED pass
         \/ pass' = NoPass
         \/ Harvest \/ StartSync \/ WritePages \/ CreateJob \/ EnsurePlan
<1>1. CASE Report \/ HarvestFailed \/ WriteStatus \/ StopPass
  BY SMTT(60), <1>1, WriteOnlyShape, WriteStatusShape, StopPassShape DEF Report, HarvestFailed
<1>2. CASE \E t \in Stem : RunJob(t) \/ Collect(t)
  BY <1>2 DEF RunJob, BeginWalk, WalkBatch, FailJob, Collect
<1>3. CASE Deliver \/ Ask \/ Tick \/ ChangeTrust \/ (ArchiveNext /\ UNCHANGED catalogVars)
           \/ UNCHANGED vars
  BY <1>3, DeliverShape, AskShape, TickShape DEF ChangeTrust, catalogVars, vars
<1>. QED BY <1>1, <1>2, <1>3 DEF Next, Pass

LEMMA FinishedType ==
  ASSUME TypeOK, Ordinals, Clock
  PROVE  /\ Ended(Tracked) => /\ Tracked.end \in Nat /\ Tracked.end <= now
                              /\ FinishedAt(Tracked, now) \in Nat
                              /\ Tracked.end <= FinishedAt(Tracked, now)
                              /\ FinishedAt(Tracked, now) <= now
                              /\ cache.status.job \in Stem /\ Present(cache.status.job)
                              /\ Tracked = jobs[cache.status.job]
<1> SUFFICES ASSUME Ended(Tracked)
             PROVE  /\ Tracked.end \in Nat /\ Tracked.end <= now
                    /\ FinishedAt(Tracked, now) \in Nat
                    /\ Tracked.end <= FinishedAt(Tracked, now)
                    /\ FinishedAt(Tracked, now) <= now
                    /\ cache.status.job \in Stem /\ Present(cache.status.job)
                    /\ Tracked = jobs[cache.status.job]
  OBVIOUS
<1>1. Present(cache.status.job) /\ Tracked = jobs[cache.status.job]
  BY DEF Tracked, Ended, NoJob
<1>2. cache.status.job \in Stem
  BY <1>1 DEF Present, TypeOK, Objects, Statuses, Stems
<1>3. Tracked.end # None /\ Tracked.end <= now /\ Tracked \in Jobs
  BY <1>1, <1>2 DEF Ordinals, WalkKnown, Clock, TypeOK, Since
<1>4. Tracked.end \in Nat /\ now \in Nat
  BY <1>3, Constants DEF Jobs, Instant, TypeOK
<1>. QED BY <1>1, <1>2, <1>3, <1>4 DEF FinishedAt

LEMMA HeldType ==
  ASSUME TypeOK, Ordinals, Clock, JobHeld, pass.step = "pages"
  PROVE  /\ pass.job.end \in Nat /\ pass.job.end <= pass.now
         /\ FinishedAt(pass.job, pass.now) \in Nat
         /\ pass.job.end <= FinishedAt(pass.job, pass.now)
         /\ FinishedAt(pass.job, pass.now) <= now
         /\ pass.copy.status.job \in Stem
         /\ pass.job.walk.nth >= 1
<1>1. Ended(pass.job) /\ pass.job.relay /\ pass.job \in Jobs /\ pass.now \in Nat /\ pass.now <= now
  BY Constants DEF JobHeld, TypeOK, Passes, Clock
<1>2. pass.job.end \in Nat /\ pass.job.end <= pass.now /\ now \in Nat /\ pass.job.walk.nth >= 1
  BY <1>1, Constants DEF Ordinals, WalkKnown, Clock, Jobs, Instant, TypeOK
<1>. QED BY <1>1, <1>2 DEF FinishedAt, JobHeld

LEMMA ClockStep == IInv /\ [Next]_vars => Clock'
<1> SUFFICES ASSUME IInv, [Next]_vars PROVE Clock'
  OBVIOUS
<1>0. TypeOK /\ Ordinals /\ StartFits /\ JobHeld /\ Clock /\ TypeOK'
  BY TypeStep DEF IInv
<1>1. now \in Nat /\ now' \in Nat /\ now <= now'
  <2>1. now' = now \/ now' = now + 1
    BY <1>0, TimeStep
  <2>. QED BY <1>0, <2>1, Constants DEF TypeOK
<1>2. ASSUME NEW t \in Stem PROVE Since(jobs'[t]) <= now'
  <2>1. jobs[t] \in Jobs /\ jobs'[t] \in Jobs /\ Since(jobs[t]) <= now
    BY <1>0, <1>2 DEF TypeOK, Clock
  <2>2. CASE Alike(jobs[t], jobs'[t])
    <3>1. Since(jobs'[t]) = Since(jobs[t])
      BY <2>2 DEF Alike, Since, Ended
    <3>2. Since(jobs[t]) \in Int
      BY <2>1 DEF Since, Jobs, Instant, None
    <3>. QED BY <1>1, <2>1, <3>1, <3>2
  <2>3. CASE Live(jobs[t]) /\ JobMoves(t, jobs'[t])
    <3>1. Since(jobs'[t]) = now \/ Since(jobs'[t]) = Since(jobs[t])
      BY <2>3 DEF JobMoves, Since, Ended, Live
    <3>2. Since(jobs[t]) \in Int
      BY <2>1 DEF Since, Jobs, Instant, None
    <3>. QED BY <1>1, <2>1, <3>1, <3>2
  <2>4. CASE jobs'[t] = NoJob \/ jobs'[t] = NewJob
    <3>1. Since(NoJob) = 0 /\ Since(NewJob) = now
      BY DEF Since, NoJob, NewJob, Ended
    <3>. QED BY <1>1, <2>4, <3>1
  <2>. QED BY <2>2, <2>3, <2>4, JobsStep DEF JobChange
<1>3. ASSUME NEW s, s \in Known' PROVE s.finished <= now'
  <2>1. CASE \E b \in Known0 : Derived(s, b)
    <3>1. PICK b \in Known0 : Derived(s, b)
      BY <2>1
    <3>2. b.finished <= now /\ b.finished \in Int
      <4>1. b.finished \in Int
        BY <1>0, KnownType DEF Statuses, Instant, None
      <4>2. b \in Known => b.finished <= now
        BY <1>0 DEF Clock
      <4>3. b = NoStatus => b.finished <= now
        BY <1>1 DEF NoStatus, None
      <4>. QED BY <4>1, <4>2, <4>3 DEF Known0
    <3>3. CASE s.finished = b.finished \/ s.finished = None
      BY <1>1, <3>2, <3>3 DEF None
    <3>4. CASE HarvestFailed /\ s.finished = FinishedAt(Tracked, now)
      BY <1>0, <1>1, <3>4, FinishedType DEF HarvestFailed, Unread
    <3>. QED BY <3>1, <3>3, <3>4 DEF Derived
  <2>2. CASE WritePages /\ s = PublishedNow
    <3>1. s.finished = FinishedAt(pass.job, pass.now) /\ pass.step = "pages"
      BY <1>0, <2>2, WritePagesShape, KnownType, PublishedFields DEF PublishedNow, Known, Known0
    <3>. QED BY <1>0, <1>1, <3>1, HeldType
  <2>. QED BY <1>3, <2>1, <2>2, KnownStep
<1>4. pass'.now <= now' /\ (pass'.step = "pages" => pass'.job.end <= pass'.now)
  <2>1. CASE pass' = pass \/ pass' = NoPass
    BY <1>0, <1>1, <2>1, Constants DEF Clock, NoPass, TypeOK, Passes
  <2>2. CASE Harvest
    <3>1. pass'.now = now /\ pass'.job = Tracked
      BY <2>2, HarvestShape DEF At
    <3>. QED BY <1>0, <1>1, <2>2, <3>1, FinishedType, HarvestShape DEF Unread
  <2>3. CASE StartSync
    <3>1. pass'.now = now /\ pass'.step = "create"
      BY <2>3, StartSyncShape DEF At
    <3>. QED BY <1>1, <3>1
  <2>4. CASE WritePages \/ CreateJob \/ EnsurePlan
    <3>1. pass'.now = pass.now /\ pass'.step # "pages"
      BY <1>0, <2>4, WritePagesShape, CreateJobShape, EnsurePlanShape DEF TypeOK, Passes
    <3>. QED BY <1>0, <1>1, <3>1, Constants DEF Clock, TypeOK, Passes
  <2>. QED BY <1>0, <2>1, <2>2, <2>3, <2>4, PassStep
<1>. QED BY <1>2, <1>3, <1>4 DEF Clock

LEMMA JobShape ==
  ASSUME TypeOK, Ordinals, NEW t \in Stem
  PROVE  /\ jobs[t] \in Jobs /\ jobs[t].walk \in Walks /\ Nth(t) \in Nat /\ Nth(t) <= Len(walks)
         /\ ~Present(t) => jobs[t] = NoJob
         /\ Present(t) <=> jobs[t].state # "gone"
         /\ Nth(t) >= 1 => Present(t)
         /\ Since(jobs[t]) \in Int
         /\ Present(t) => Since(jobs[t]) \in Nat
         /\ Len(walks) \in Nat
<1>1. jobs[t] \in Jobs /\ jobs[t].walk \in Walks /\ Nth(t) \in Nat /\ Len(walks) \in Nat
  BY DEF TypeOK, Jobs, Walks, Nth
<1>2. t # NoStem
  BY Constants
<1>3. WalkKnown(jobs[t])
  BY DEF Ordinals
<1>4. NoJob.walk.nth = 0
  BY DEF NoJob, NewWalk
<1>5. Since(jobs[t]) \in Int /\ (Present(t) => Since(jobs[t]) \in Nat)
  BY <1>1, <1>3 DEF Since, Jobs, Instant, None, WalkKnown
<1>6. Present(t) <=> jobs[t].state # "gone"
  BY <1>2 DEF Present
<1>7. ~Present(t) => jobs[t] = NoJob
  BY <1>3, <1>6 DEF WalkKnown
<1>8. Nth(t) <= Len(walks)
  BY <1>3 DEF WalkKnown, Nth
<1>. QED BY <1>1, <1>4, <1>5, <1>6, <1>7, <1>8 DEF Nth

\* A Job's walk becomes one of those already begun in no step.
LEMMA WithinStep ==
  ASSUME IInv, [Next]_vars, NEW t \in Stem, NEW n \in Nat, n <= Len(walks), Within(t, n)'
  PROVE  Within(t, n) /\ Present(t) /\ Present(t)' /\ Nth(t)' = Nth(t)
<1>0. TypeOK /\ Ordinals /\ Len(walks) \in Nat
  BY DEF IInv, TypeOK
<1>1. Nth(t)' = jobs'[t].walk.nth /\ Nth(t)' >= 1 /\ Nth(t)' <= n
  BY DEF Within, Nth
<1>2. Nth(t)' = Nth(t)
  <2>1. CASE Alike(jobs[t], jobs'[t])
    BY <2>1 DEF Alike, Nth
  <2>2. CASE JobMoves(t, jobs'[t])
    BY <1>0, <1>1, <2>2 DEF JobMoves, Nth
  <2>3. CASE jobs'[t] = NoJob \/ jobs'[t] = NewJob
    <3>1. NoJob.walk.nth = 0 /\ NewJob.walk.nth = 0
      BY DEF NoJob, NewJob, NewWalk
    <3>. QED BY <1>1, <2>3, <3>1
  <2>. QED BY <2>1, <2>2, <2>3, JobsStep DEF JobChange
<1>3. Within(t, n) /\ Present(t)
  BY <1>0, <1>1, <1>2, JobShape DEF Within
<1>4. Present(t)'
  <2>1. CASE jobs'[t].state # "gone"
    BY <2>1, Constants DEF Present
  <2>2. CASE jobs'[t].state = "gone"
    <3>1. NoJob.walk.nth = 0
      BY DEF NoJob, NewWalk
    <3>2. jobs'[t] = NoJob
      BY <1>3, <2>2, JobsStep, Constants
         DEF JobChange, Alike, Present, JobMoves, NewJob, NoJob
    <3>. QED BY <1>1, <3>1, <3>2
  <2>. QED BY <2>1, <2>2
<1>. QED BY <1>2, <1>3, <1>4

LEMMA OrdinalsStep == IInv /\ [Next]_vars => Ordinals'
<1> SUFFICES ASSUME IInv, [Next]_vars PROVE Ordinals'
  OBVIOUS
<1>0. TypeOK /\ Ordinals /\ JobHeld /\ Clock /\ TypeOK'
  BY TypeStep DEF IInv
<1>1. Len(walks) \in Nat /\ Len(walks') \in Nat /\ Len(walks) <= Len(walks')
  <2>1. walks \in Seq(SUBSET Points) /\ Listable \in SUBSET Points
    BY <1>0 DEF TypeOK, Listable, Indexed, Recorded
  <2>. QED BY <1>0, <2>1, TimeStep
<1>2. ASSUME NEW j \in Jobs, WalkKnown(j) PROVE WalkKnown(j)'
  <2>1. j.walk.nth \in Nat
    BY DEF Jobs, Walks
  <2>. QED BY <1>1, <1>2, <2>1 DEF WalkKnown
<1>3. WalkKnown(NoJob)
  <2>1. NoJob.walk = NewWalk /\ NoJob.state = "gone" /\ ~NoJob.relay
        /\ NewWalk.nth = 0 /\ NewWalk.stop = "no"
    BY DEF NoJob, NewWalk
  <2>. QED BY <1>1, <2>1 DEF WalkKnown, Ended
<1>4. ASSUME NEW t \in Stem PROVE WalkKnown(jobs[t])'
  <2>1. jobs[t] \in Jobs /\ WalkKnown(jobs[t]) /\ jobs'[t] \in Jobs
    BY <1>0 DEF TypeOK, Ordinals
  <2>2. CASE Alike(jobs[t], jobs'[t])
    <3>1. jobs[t].walk.nth \in Nat
      BY <2>1 DEF Jobs, Walks
    <3>. QED BY <1>1, <2>1, <2>2, <3>1 DEF Alike, WalkKnown, Ended
  <2>3. CASE JobMoves(t, jobs'[t])
    <3>1. jobs[t].walk.nth \in Nat /\ jobs[t].walk.nth <= Len(walks) /\ now \in Nat
      BY <1>0, <2>1, Constants DEF Jobs, Walks, WalkKnown, TypeOK
    <3>2. jobs'[t].walk.nth <= Len(walks')
      <4>1. walks \in Seq(SUBSET Points) /\ Listable \in SUBSET Points
        BY <1>0 DEF TypeOK, Listable, Indexed, Recorded
      <4>. QED BY <1>1, <2>3, <3>1, <4>1 DEF JobMoves
    <3>. QED BY <2>3, <3>1, <3>2 DEF JobMoves, WalkKnown, Ended, None
  <2>4. CASE jobs'[t] = NoJob
    BY <1>1, <1>2, <1>3, <2>4, Constants DEF WalkKnown
  <2>5. CASE jobs'[t] = NewJob
    <3>1. NewJob.walk = NewWalk /\ NewJob.state = "pending" /\ ~NewJob.relay
          /\ NewWalk.nth = 0 /\ NewWalk.stop = "no"
      BY DEF NoJob, NewWalk, NewJob
    <3>. QED BY <1>1, <2>5, <3>1 DEF WalkKnown, Ended
  <2>. QED BY <2>2, <2>3, <2>4, <2>5, JobsStep DEF JobChange
<1>5. WalkKnown(pass.job)'
  <2>1. pass.job \in Jobs /\ WalkKnown(pass.job) /\ pass' \in Passes
    BY <1>0 DEF TypeOK, Passes, Ordinals
  <2>2. CASE pass'.job = pass.job
    BY <1>1, <2>1, <2>2 DEF WalkKnown, Jobs, Walks
  <2>3. CASE pass'.job = NoJob
    BY <1>1, <1>3, <2>3 DEF WalkKnown, NoJob, NewWalk, Ended
  <2>4. CASE Harvest
    <3>1. pass'.job = Tracked
      BY <2>4, HarvestShape DEF At
    <3>2. Tracked \in Jobs /\ WalkKnown(Tracked)
      BY <1>0, <2>4, FinishedType, PassTypes, HarvestShape DEF Unread, Ordinals
    <3>. QED BY <1>1, <3>1, <3>2 DEF WalkKnown, Jobs, Walks
  <2>5. CASE StartSync
    <3>1. pass'.job = NoJob
      BY <2>5, StartSyncShape DEF At
    <3>. QED BY <2>3, <3>1
  <2>6. CASE WritePages
    <3>1. pass'.job = NoJob
      BY <1>0, <2>6, WritePagesShape DEF TypeOK, Passes
    <3>. QED BY <2>3, <3>1
  <2>7. CASE CreateJob \/ EnsurePlan
    <3>1. pass'.job = pass.job
      BY <1>0, <2>7, CreateJobShape, EnsurePlanShape DEF TypeOK, Passes
    <3>. QED BY <2>2, <3>1
  <2>8. CASE pass' = NoPass
    <3>1. pass'.job = NoJob
      BY <2>8 DEF NoPass
    <3>. QED BY <2>3, <3>1
  <2>. QED BY <1>0, <2>2, <2>4, <2>5, <2>6, <2>7, <2>8, PassStep
<1>6. ASSUME NEW s, s \in Known' PROVE s.view.nth <= Len(walks')
  <2>1. ASSUME NEW b \in Known0, Derived(s, b) PROVE s.view.nth <= Len(walks')
    <3>1. b \in Statuses /\ b.view.nth \in Nat
      BY <1>0, KnownType DEF Statuses, Views
    <3>2. b.view.nth <= Len(walks)
      BY <1>0, <1>1 DEF Known0, Ordinals, NoStatus, NoView
    <3>. QED BY <1>1, <2>1, <3>1, <3>2 DEF Derived, NoView
  <2>2. CASE WritePages /\ s = PublishedNow
    <3>1. pass.copy.status \in Statuses /\ pass.job.walk.nth <= Len(walks) /\ pass.job.walk.nth \in Nat
      BY <1>0 DEF TypeOK, Passes, Objects, Ordinals, WalkKnown, Jobs, Walks
    <3>2. s.view.nth = pass.job.walk.nth
      BY <2>2, <3>1, PublishedFields DEF PublishedNow
    <3>. QED BY <1>1, <3>1, <3>2
  <2>. QED BY <1>6, <2>1, <2>2, KnownStep
<1>7. newest \in Nat /\ newest' \in Nat
  BY <1>0, <1>1 DEF TypeOK
<1>8. ASSUME NEW s \in Statuses, s.view.nth <= newest, newest <= newest' PROVE s.view.nth <= newest'
  BY <1>7, <1>8 DEF Statuses, Views
<1>9. /\ newest <= newest'
      /\ object'.status.view.nth <= newest'
      /\ cache'.status.view.nth <= newest'
      /\ pass'.copy.status.view.nth <= newest'
  <2>0. /\ object.status \in Statuses /\ cache.status \in Statuses /\ pass.copy.status \in Statuses
        /\ object.status.view.nth <= newest /\ cache.status.view.nth <= newest
        /\ pass.copy.status.view.nth <= newest
        /\ object \in Objects /\ cache \in Objects /\ pass \in Passes
    BY <1>0 DEF TypeOK, Objects, Passes, Ordinals
  <2>a. NoPass.copy.status.view.nth = 0
    BY DEF NoPass, NoObject, NoStatus, NoView
  <2>1. CASE UNCHANGED <<object, cache, newest>> /\ (UNCHANGED pass \/ pass' = NoPass)
    BY <1>7, <2>0, <2>1, <2>a
  <2>2. CASE Deliver
    BY <1>7, <2>0, <2>2, DeliverShape
  <2>3. CASE Ask
    <3>1. object'.status = object.status
      BY <2>0, <2>3, AskShape DEF Objects
    <3>. QED BY <1>7, <2>0, <2>3, <3>1, AskShape
  <2>4. ASSUME NEW status \in Statuses, Writes(status), UNCHANGED pass \/ pass' = NoPass
        PROVE  /\ newest <= newest'
               /\ object'.status.view.nth <= newest'
               /\ cache'.status.view.nth <= newest'
               /\ pass'.copy.status.view.nth <= newest'
    <3>1. object'.status = status /\ (cache' = cache \/ cache'.status = status)
      BY <2>0, <2>4 DEF Writes, Objects
    <3>2. status.view.nth \in Nat
      BY DEF Statuses, Views
    <3>3. newest <= newest' /\ status.view.nth <= newest'
      BY <1>7, <2>4, <3>2 DEF Writes
    <3>. QED BY <1>8, <2>0, <2>4, <2>a, <3>1, <3>3, <1>7
  <2>5. CASE Report \/ HarvestFailed
    <3>1. Kept \in Statuses /\ (HarvestFailed =>
                                  [Kept EXCEPT !.finished = FinishedAt(Tracked, now)] \in Statuses)
      <4>1. HarvestFailed => FinishedAt(Tracked, now) \in Instant
        BY <1>0, FinishedType DEF HarvestFailed, Unread, Instant
      <4>2. Kept \in Statuses
        BY <1>0, PassTypes
      <4>. QED BY <4>1, <4>2 DEF Statuses
    <3>. QED BY <2>4, <2>5, <3>1, WriteOnlyShape DEF Report, HarvestFailed
  <2>6. CASE Harvest \/ StartSync
    <3>1. pass'.copy = cache /\ UNCHANGED <<object, cache, newest>>
      BY <2>6, HarvestShape, StartSyncShape DEF At
    <3>. QED BY <1>7, <2>0, <3>1
  <2>7. CASE WritePages \/ CreateJob \/ EnsurePlan
    <3>1. pass'.copy = pass.copy /\ UNCHANGED <<object, cache, newest>>
      BY <2>0, <2>7, WritePagesShape, CreateJobShape, EnsurePlanShape DEF Passes
    <3>. QED BY <1>7, <2>0, <3>1
  <2>8. CASE WriteStatus
    <3>1. pass.write \in Statuses
      BY <2>0 DEF Passes
    <3>. QED BY <2>1, <2>4, <2>8, <3>1, WriteStatusShape
  <2>9. CASE StopPass
    BY SMTT(60), <2>1, <2>9, StopPassShape
  <2>10. CASE \E t \in Stem : RunJob(t) \/ Collect(t)
    BY <2>1, <2>10 DEF RunJob, BeginWalk, WalkBatch, FailJob, Collect
  <2>11. CASE Tick \/ ChangeTrust \/ (ArchiveNext /\ UNCHANGED catalogVars) \/ UNCHANGED vars
    BY <2>1, <2>11 DEF Tick, ChangeTrust, catalogVars, vars
  <2>. QED BY <2>2, <2>3, <2>5, <2>6, <2>7, <2>8, <2>9, <2>10, <2>11 DEF Next, Pass
<1>. QED BY <1>4, <1>5, <1>6, <1>9 DEF Ordinals

LEMMA SlotStem ==
  ASSUME NEW k \in 0..Horizon
  PROVE  /\ <<"slot", k>> \in Stem
         /\ \A r : <<"slot", k>> # <<"request", r>>
         /\ \A l : <<"slot", k>> = <<"slot", l>> => k = l
BY DEF Stem

\* The Job a pass makes for a slot is made in that slot or later.
LEMMA WantedSlot ==
  ASSUME TypeOK, Clock, StartFits, Starting, NEW k \in 0..Horizon, WantedStem = <<"slot", k>>
  PROVE  /\ interval > 0 /\ ~Requested(pass.copy)
         /\ k = Slot(pass.now) /\ ~SlotServed(pass.copy.status, pass.now)
         /\ k <= Slot(now)
<1>1. /\ interval \in Nat /\ pass.copy \in Objects /\ pass.now \in 0..Horizon
      /\ Triggered(pass.copy, pass.now) /\ pass.now <= now /\ now \in Nat /\ pass.now \in Nat
  BY Constants DEF TypeOK, Passes, Clock, StartFits
<1>2. ~Requested(pass.copy)
  BY <1>1, TriggerType, SlotStem DEF WantedStem
<1>3. interval > 0 /\ k = Slot(pass.now) /\ ~SlotServed(pass.copy.status, pass.now)
  BY <1>1, <1>2, TriggerType, SlotStem DEF WantedStem
<1>4. Slot(pass.now) <= Slot(now)
  BY <1>1, <1>3, SlotMonotone
<1>. QED BY <1>2, <1>3, <1>4

LEMMA SlotJobsStep == IInv /\ [Next]_vars => SlotJobs'
<1> SUFFICES ASSUME IInv, [Next]_vars, NEW k \in 0..Horizon, Present(<<"slot", k>>)'
             PROVE  interval' > 0 /\ k <= Slot(Since(jobs[<<"slot", k>>]))'
  BY DEF SlotJobs
<1>0. TypeOK /\ Ordinals /\ Clock /\ StartFits /\ SlotJobs /\ interval' = interval /\ now \in Nat
      /\ interval \in Nat
  BY TimeStep DEF IInv, TypeOK
<1> DEFINE t == <<"slot", k>>
<1>1. t \in Stem
  BY SlotStem
<1>2. Slot(Since(jobs[t]))' = Slot(Since(jobs'[t]))
  BY <1>0 DEF Slot, Since, Ended
<1>3. jobs'[t].state # "gone"
  BY DEF Present
<1>4. CASE Present(t) /\ (Since(jobs'[t]) = Since(jobs[t]) \/ Since(jobs'[t]) = now)
  <2>1. interval > 0 /\ k <= Slot(Since(jobs[t])) /\ Since(jobs[t]) \in Nat /\ Since(jobs[t]) <= now
    BY <1>0, <1>1, <1>4, JobShape DEF SlotJobs, Clock
  <2>2. Slot(Since(jobs[t])) <= Slot(now) /\ Slot(Since(jobs[t])) \in Int /\ Slot(now) \in Int
    BY <1>0, <2>1, SlotMonotone, SlotType
  <2>. QED BY <1>0, <1>2, <1>4, <2>1, <2>2
<1>5. CASE t = WantedStem /\ jobs'[t] = NewJob /\ CreateJob
  <2>1. Starting
    BY <1>5, CreateJobShape DEF Starting
  <2>2. Since(NewJob) = now
    BY DEF Since, NewJob, NoJob, Ended
  <2>3. interval > 0 /\ k <= Slot(now)
    BY <1>0, <1>5, <2>1, WantedSlot
  <2>. QED BY <1>0, <1>2, <1>5, <2>2, <2>3
<1>6. CASE Alike(jobs[t], jobs'[t])
  <2>1. Present(t) /\ Since(jobs'[t]) = Since(jobs[t])
    BY <1>0, <1>1, <1>3, <1>6, JobShape DEF Alike, Since, Ended
  <2>. QED BY <1>4, <2>1
<1>7. CASE Live(jobs[t]) /\ JobMoves(t, jobs'[t])
  <2>1. Present(t)
    BY <1>0, <1>1, <1>7, JobShape DEF Live
  <2>2. Since(jobs'[t]) = Since(jobs[t]) \/ Since(jobs'[t]) = now
    BY <1>7 DEF JobMoves, Since, Ended, Live
  <2>. QED BY <1>4, <2>1, <2>2
<1>8. jobs'[t] # NoJob
  BY <1>3 DEF NoJob
<1>. QED BY <1>1, <1>5, <1>6, <1>7, <1>8, JobsStep DEF JobChange

LEMMA SlotsBehindStep ==
  ASSUME IInv, [Next]_vars, NEW n \in Nat, n <= Len(walks), NEW u, SlotsBehind(n, u)
  PROVE  SlotsBehind(n, u)'
<1> SUFFICES ASSUME NEW k \in 0..Horizon, Within(<<"slot", k>>, n)'
             PROVE  k <= Slot(u)'
  BY DEF SlotsBehind
<1>1. interval' = interval
  BY TimeStep DEF IInv
<1>2. Within(<<"slot", k>>, n)
  BY SlotStem, WithinStep
<1>. QED BY <1>1, <1>2 DEF SlotsBehind, Slot

\* The Job of any slot that is there is of a slot that has begun.
LEMMA SlotsBehindNow ==
  TypeOK /\ Ordinals /\ Clock /\ SlotJobs => \A n : SlotsBehind(n, now)
<1> SUFFICES ASSUME TypeOK, Ordinals, Clock, SlotJobs, NEW n, NEW k \in 0..Horizon,
                    Within(<<"slot", k>>, n)
             PROVE  k <= Slot(now)
  BY DEF SlotsBehind
<1> DEFINE t == <<"slot", k>>
<1>1. t \in Stem
  BY SlotStem
<1>2. Present(t) /\ Since(jobs[t]) \in Nat /\ Since(jobs[t]) <= now /\ now \in Nat
  BY <1>1, JobShape, Constants DEF Within, Clock, TypeOK
<1>3. interval > 0 /\ k <= Slot(Since(jobs[t])) /\ interval \in Nat
  BY <1>2 DEF SlotJobs, TypeOK
<1>4. Slot(Since(jobs[t])) <= Slot(now) /\ Slot(Since(jobs[t])) \in Int /\ Slot(now) \in Int
  BY <1>2, <1>3, SlotMonotone, SlotType
<1>. QED BY <1>3, <1>4

LEMMA WalksInOrderStep == IInv /\ [Next]_vars => WalksInOrder'
<1> SUFFICES ASSUME IInv, [Next]_vars, NEW t \in Stem, Ended(jobs'[t])
             PROVE  SlotsBehind(Nth(t), jobs[t].end)'
  BY DEF WalksInOrder, Ended
<1>0. TypeOK /\ Ordinals /\ Clock /\ WalksInOrder /\ TypeOK' /\ Ordinals' /\ Clock' /\ SlotJobs'
  BY TypeStep, OrdinalsStep, ClockStep, SlotJobsStep DEF IInv
<1>1. CASE Alike(jobs[t], jobs'[t])
  <2>1. Ended(jobs[t]) /\ Nth(t)' = Nth(t) /\ jobs'[t].end = jobs[t].end
    BY <1>1 DEF Alike, Ended, Nth
  <2>2. Nth(t) \in Nat /\ Nth(t) <= Len(walks) /\ SlotsBehind(Nth(t), jobs[t].end)
    BY <1>0, <2>1, JobShape DEF WalksInOrder
  <2>3. \A n, u : n = Nth(t) /\ u = jobs[t].end => SlotsBehind(n, u)'
    BY <2>2, SlotsBehindStep
  <2>. QED BY <2>1, <2>3 DEF SlotsBehind, Within, Nth, Slot
<1>2. CASE JobMoves(t, jobs'[t])
  <2>1. jobs'[t].end = now'
    BY <1>2 DEF JobMoves
  <2>2. (\A n : SlotsBehind(n, now))'
    BY <1>0, SlotsBehindNow, PTL
  <2>. QED BY <2>1, <2>2 DEF SlotsBehind, Within, Nth, Slot
<1>3. CASE jobs'[t] = NoJob \/ jobs'[t] = NewJob
  <2>1. ~Ended(NoJob) /\ ~Ended(NewJob)
    BY DEF NoJob, NewJob, Ended
  <2>. QED BY <1>3, <2>1
<1>. QED BY <1>1, <1>2, <1>3, JobsStep DEF JobChange

-----------------------------------------------------------------------------
(* Finishes, held Jobs and pages.                                          *)

LEMMA KnownNow ==
  ASSUME IInv, NEW b \in Known0
  PROVE  /\ b \in Statuses /\ b.job \in Stems /\ b.view.stem \in Stems /\ b.view.nth \in Nat
         /\ b.finished <= now /\ FinishFits(b) /\ PagesKept(b) /\ WholeView(b)
         /\ b.view.nth <= Len(walks)
<1>0. TypeOK
  BY DEF IInv
<1>1. b \in Statuses /\ b.job \in Stems /\ b.view.stem \in Stems /\ b.view.nth \in Nat
  BY <1>0, KnownType DEF Statuses, Views
<1>2. CASE b \in Known
  BY <1>1, <1>2 DEF IInv, Clock, Ordinals
<1>3. CASE b = NoStatus
  <2>1. now \in Nat /\ Len(walks) \in Nat
    BY <1>0, Constants DEF TypeOK
  <2>2. b.finished = None /\ b.view.listed = {} /\ b.view.stem = NoStem /\ b.view.nth = 0
    BY <1>3 DEF NoStatus, NoView
  <2>. QED BY <1>1, <2>1, <2>2 DEF FinishFits, PagesKept, WholeView, None
<1>. QED BY <1>2, <1>3 DEF Known0

LEMMA NowGrows == IInv /\ [Next]_vars => now \in Nat /\ now' \in Nat /\ now <= now'
<1> SUFFICES ASSUME IInv, [Next]_vars PROVE now \in Nat /\ now' \in Nat /\ now <= now'
  OBVIOUS
<1>1. TypeOK /\ Ordinals
  BY DEF IInv
<1>. QED BY <1>1, TimeStep

LEMMA PresentStep == ASSUME NEW t \in Stem PROVE Present(t)' <=> jobs'[t].state # "gone"
BY Constants DEF Present

\* The calls of a pass that write pages or a plan.
LEMMA PagesAlike ==
  ASSUME IInv, [Next]_vars, NEW t \in Stem, WritePages \/ EnsurePlan
  PROVE  Alike(jobs[t], jobs'[t])
<1>1. pass \in Passes /\ pass'.step = "patch" /\ pass.step # "patch"
  BY WritePagesShape, EnsurePlanShape DEF IInv, TypeOK, Passes
<1>2. ~JobMoves(t, jobs'[t]) /\ ~Collect(t)
  BY <1>1, CollectShape DEF JobMoves
<1>3. ~CreateJob
  BY <1>1, CreateJobShape DEF Passes
<1>. QED BY <1>2, <1>3, JobsStep DEF JobChange

\* While the pass rests, only its pod or its TTL changes a Job.
LEMMA RestingJobs ==
  ASSUME IInv, [Next]_vars, NEW t \in Stem, UNCHANGED pass
  PROVE  \/ jobs'[t] = jobs[t]
         \/ Live(jobs[t]) /\ JobMoves(t, jobs'[t])
         \/ Ended(jobs[t]) /\ now >= jobs[t].end + Ttl /\ jobs'[t] = NoJob /\ Collect(t)
<1>1. pass \in Passes /\ TypeOK /\ Ordinals
  BY DEF IInv, TypeOK
<1>2. ~CreateJob /\ ~WritePages /\ ~EnsurePlan
  BY <1>1, CreateJobShape, WritePagesShape, EnsurePlanShape DEF Passes
<1>3. CASE \E s \in Stem : RunJob(s)
  <2>1. PICK s \in Stem, k \in Jobs : JobMoves(s, k)
    BY <1>1, <1>3, RunJobRuns DEF JobRuns
  <2>2. jobs' = [jobs EXCEPT ![s] = k] /\ jobs \in [Stem -> Jobs]
    BY <1>1, <2>1 DEF JobMoves, TypeOK
  <2>3. t # s => jobs'[t] = jobs[t]
    BY <2>2
  <2>4. t = s => Live(jobs[t]) /\ JobMoves(t, jobs'[t])
    BY <2>1, <2>2 DEF JobMoves
  <2>. QED BY <2>3, <2>4
<1>4. CASE \E s \in Stem : Collect(s)
  <2>1. PICK s \in Stem : Collect(s)
    BY <1>4
  <2>. QED BY <1>1, <2>1, CollectShape DEF TypeOK
<1>5. CASE Pass \/ Deliver \/ Ask \/ Tick \/ Elsewhere \/ UNCHANGED vars
  <2>1. jobs' = jobs
    BY <1>2, <1>5, WriteOnlyShape, HarvestShape, StartSyncShape, WriteStatusShape, StopPassShape,
       DeliverShape, AskShape, TickShape
       DEF Pass, Report, HarvestFailed, Elsewhere, vars, catalogVars
  <2>. QED BY <2>1
<1>. QED BY <1>1, <1>3, <1>4, <1>5, ArchiveShape, TrustShape DEF Next

LEMMA FinishStill ==
  ASSUME IInv, [Next]_vars, NEW b \in Known0, Present(b.job)', b.finished # None
  PROVE  Since(jobs'[b.job]) >= b.finished \/ (Ended(jobs'[b.job]) /\ ~jobs'[b.job].stamped)
<1>0. TypeOK /\ Ordinals
  BY DEF IInv
<1> DEFINE t == b.job
<1>1. t \in Stem /\ b.finished <= now /\ FinishFits(b) /\ b.finished \in Nat
  BY KnownNow DEF Present, Stems, Statuses, Instant
<1>2. now \in Nat
  BY NowGrows
<1>3. jobs'[t].state # "gone"
  BY <1>1, PresentStep
<1>4. CASE Alike(jobs[t], jobs'[t])
  <2>1. Present(t) /\ Since(jobs'[t]) = Since(jobs[t])
    BY <1>0, <1>1, <1>3, <1>4, JobShape DEF Alike, Since, Ended
  <2>. QED BY <1>1, <1>4, <2>1 DEF FinishFits, Alike, Ended
<1>5. CASE Live(jobs[t]) /\ JobMoves(t, jobs'[t])
  <2>1. Present(t) /\ Since(jobs[t]) = jobs[t].made /\ ~Ended(jobs[t])
    BY <1>0, <1>1, <1>5, JobShape DEF Live, Since, Ended
  <2>2. Since(jobs[t]) >= b.finished
    BY <1>1, <2>1 DEF FinishFits
  <2>3. Since(jobs'[t]) = now \/ Since(jobs'[t]) = jobs[t].made
    BY <1>5 DEF JobMoves, Since
  <2>. QED BY <1>1, <1>2, <2>1, <2>2, <2>3
<1>6. CASE jobs'[t] = NewJob
  <2>1. Since(jobs'[t]) = now
    BY <1>6 DEF Since, NewJob, NoJob, Ended
  <2>. QED BY <1>1, <1>2, <2>1
<1>7. jobs'[t] # NoJob
  BY <1>3 DEF NoJob
<1>. QED BY <1>1, <1>4, <1>5, <1>6, <1>7, JobsStep DEF JobChange

LEMMA FinishFitsStep == IInv /\ [Next]_vars => (\A s \in Known : FinishFits(s))'
<1> SUFFICES ASSUME IInv, [Next]_vars, NEW s, s \in Known', s.finished # None, Present(s.job)'
             PROVE  Since(jobs'[s.job]) >= s.finished
                    \/ (Ended(jobs'[s.job]) /\ ~jobs'[s.job].stamped)
  BY DEF FinishFits, Since, Ended
<1>0. TypeOK /\ Ordinals /\ Clock /\ JobHeld
  BY DEF IInv
<1>1. ASSUME NEW b \in Known0, Derived(s, b)
      PROVE  Since(jobs'[s.job]) >= s.finished
             \/ (Ended(jobs'[s.job]) /\ ~jobs'[s.job].stamped)
  <2>1. CASE s.job = b.job /\ s.finished = b.finished
    BY <2>1, FinishStill
  <2>2. CASE HarvestFailed /\ s.job = cache.status.job /\ s.finished = FinishedAt(Tracked, now)
    <3>1. jobs' = jobs /\ Ended(Tracked)
      BY <2>2, WriteOnlyShape DEF HarvestFailed, Unread
    <3>2. Tracked = jobs[s.job] /\ Tracked.end \in Nat
      BY <1>0, <2>2, <3>1, FinishedType
    <3>. QED BY <2>2, <3>1, <3>2 DEF FinishedAt, Since
  <2>. QED BY <1>1, <2>1, <2>2 DEF Derived
<1>2. CASE WritePages /\ s = PublishedNow
  <2> DEFINE t == s.job
  <2>1. /\ t = pass.copy.status.job /\ s.finished = FinishedAt(pass.job, pass.now)
        /\ pass.step = "pages"
    BY <1>0, <1>2, WritePagesShape, KnownType, PublishedFields DEF PublishedNow, Known, Known0
  <2>2. t \in Stem /\ pass.job.end \in Nat
    BY <1>0, <2>1, HeldType
  <2>3. jobs'[t].state # "gone"
    BY <2>2, PresentStep
  <2>4. Alike(jobs[t], jobs'[t])
    BY <1>2, <2>2, PagesAlike
  <2>5. Present(t) /\ jobs[t] = pass.job /\ Ended(pass.job)
    BY <1>0, <2>1, <2>2, <2>3, <2>4, JobShape DEF Alike, JobHeld
  <2>6. Ended(jobs'[t]) /\ jobs'[t].end = pass.job.end /\ jobs'[t].stamped = pass.job.stamped
    BY <2>4, <2>5 DEF Alike, Ended
  <2>. QED BY SMTT(60), <2>1, <2>2, <2>6 DEF FinishedAt, Since
<1>. QED BY <1>1, <1>2, KnownStep

LEMMA JobHeldStep == IInv /\ [Next]_vars => JobHeld'
<1> DEFINE s == pass'.copy.status.job
           Goal == /\ Ended(pass'.job) /\ pass'.job.relay
                   /\ s \in Stem
                   /\ jobs'[s].state # "gone" => jobs'[s] = pass'.job
                   /\ jobs'[s].state = "gone" => now' >= pass'.job.end + Ttl'
<1> SUFFICES ASSUME IInv, [Next]_vars, pass'.step = "pages" PROVE Goal
  BY Constants DEF JobHeld, Ended, Present
<1>0. TypeOK /\ Ordinals /\ JobHeld /\ Clock /\ interval' = interval
  BY TimeStep DEF IInv
<1>1. now \in Nat /\ now' \in Nat /\ now <= now' /\ Ttl' = Ttl /\ Ttl \in Nat
  BY <1>0, NowGrows, TtlType DEF Ttl, TypeOK
<1>2. CASE UNCHANGED pass
  <2> DEFINE t == pass.copy.status.job
  <2>1. /\ Ended(pass.job) /\ pass.job.relay /\ t \in Stem
        /\ Present(t) => jobs[t] = pass.job
        /\ ~Present(t) => now >= pass.job.end + Ttl
        /\ pass.job.end \in Nat
    BY <1>0, <1>2, HeldType DEF JobHeld
  <2>2. Present(t) <=> jobs[t].state # "gone"
    BY <1>0, <2>1, JobShape
  <2>3. CASE jobs'[t] = jobs[t]
    BY <1>1, <1>2, <2>1, <2>2, <2>3
  <2>4. ~Live(jobs[t])
    BY <2>1, <2>2 DEF Live, Ended
  <2>5. CASE Ended(jobs[t]) /\ now >= jobs[t].end + Ttl /\ jobs'[t] = NoJob
    <3>1. jobs'[t].state = "gone" /\ jobs[t] = pass.job
      BY <2>1, <2>2, <2>5 DEF NoJob, Ended
    <3>. QED BY <1>1, <1>2, <2>1, <2>5, <3>1
  <2>. QED BY <1>2, <2>1, <2>3, <2>4, <2>5, RestingJobs
<1>3. CASE Harvest
  <2>1. pass'.copy = cache /\ pass'.job = Tracked /\ jobs' = jobs /\ Ended(Tracked) /\ Tracked.relay
    BY <1>3, HarvestShape DEF At, Unread
  <2>2. cache.status.job \in Stem /\ Present(cache.status.job) /\ Tracked = jobs[cache.status.job]
    BY <1>0, <2>1, FinishedType
  <2>3. jobs[cache.status.job].state # "gone"
    BY <2>2 DEF Present
  <2>. QED BY <2>1, <2>2, <2>3
<1>4. ~WritePages /\ ~CreateJob /\ ~EnsurePlan
  BY <1>0, WritePagesShape, CreateJobShape, EnsurePlanShape DEF TypeOK, Passes
<1>5. ~StartSync /\ pass' # NoPass
  BY StartSyncShape DEF At, NoPass
<1>. QED BY <1>0, <1>2, <1>3, <1>4, <1>5, PassStep

LEMMA PagesThereStep == ASSUME NEW t \in Stem, jobs'[t].pages # None, jobs'[t].state # "gone"
                        PROVE  PagesThere(t)'
BY PresentStep DEF PagesThere

LEMMA PagesKeptStep == IInv /\ [Next]_vars => (\A s \in Known : PagesKept(s))'
<1> SUFFICES ASSUME IInv, [Next]_vars, NEW s, s \in Known', s.view.listed # {}, s.view.stamped,
                    now' < s.expires
             PROVE  /\ PagesThere(s.view.stem)'
                    /\ Ended(jobs'[s.view.stem])
                    /\ s.expires <= jobs'[s.view.stem].end + Ttl'
  BY DEF PagesKept, Ended
<1>0. TypeOK /\ Ordinals /\ JobHeld /\ Clock /\ interval' = interval
  BY TimeStep DEF IInv
<1>1. now \in Nat /\ now' \in Nat /\ now <= now' /\ Ttl' = Ttl /\ Ttl \in Nat
  BY <1>0, NowGrows, TtlType DEF Ttl, TypeOK
<1>2. ASSUME NEW b \in Known0, Derived(s, b)
      PROVE  /\ PagesThere(s.view.stem)'
             /\ Ended(jobs'[s.view.stem])
             /\ s.expires <= jobs'[s.view.stem].end + Ttl'
  <2>1. s.view = b.view /\ s.expires = b.expires
    BY <1>2 DEF Derived, NoView
  <2> DEFINE t == b.view.stem
  <2>2. PagesKept(b) /\ t \in Stems /\ b.expires \in Int
    BY KnownNow DEF Statuses, Instant, None
  <2>3. PagesThere(t) /\ Ended(jobs[t]) /\ b.expires <= jobs[t].end + Ttl /\ now < b.expires
    BY <1>1, <2>1, <2>2 DEF PagesKept
  <2>4. t \in Stem
    BY <2>2, <2>3 DEF PagesThere, Present, Stems
  <2>5. jobs[t].end \in Nat
    BY <1>0, <2>3, <2>4, JobShape DEF Since, PagesThere
  <2>6. Alike(jobs[t], jobs'[t])
    BY <1>1, <2>2, <2>3, <2>4, <2>5, JobsStep DEF JobChange, Live, Ended, PagesThere
  <2>7. PagesThere(t)'
    BY <2>3, <2>4, <2>6, PagesThereStep DEF Alike, PagesThere, Ended
  <2>. QED BY <1>1, <2>1, <2>3, <2>6, <2>7 DEF Alike, Ended
<1>3. CASE WritePages /\ s = PublishedNow
  <2> DEFINE t == s.view.stem
  <2>1. /\ t = pass.copy.status.job /\ s.expires = FinishedAt(pass.job, pass.now) + Ttl
        /\ pass.step = "pages" /\ pass.job.stamped
    <3>1. pass.copy.status \in Statuses
      <4>1. pass.copy.status \in Known0
        BY DEF Known, Known0
      <4>2. TypeOK
        BY <1>0
      <4>. QED BY <4>1, <4>2, KnownType
    <3>2. /\ s.view.stem = pass.copy.status.job
          /\ s.expires = FinishedAt(pass.job, pass.now) + Ttl
          /\ s.view.stamped = pass.job.stamped
      <4>1. s = Published(pass.copy.status, pass.job, pass.now, FromStart(pass.copy.status.job))
        BY <1>3 DEF PublishedNow
      <4>. QED BY ONLY <3>1, <4>1, PublishedFields
    <3>3. pass.step = "pages"
      BY <1>3, WritePagesShape
    <3>4. s.view.stamped
      OBVIOUS
    <3>. QED BY <3>2, <3>3, <3>4
  <2>2. t \in Stem /\ pass.job.end \in Nat /\ Ended(pass.job)
    BY <1>0, <2>1, HeldType DEF JobHeld
  <2>3. s.expires = pass.job.end + Ttl
    BY <2>1 DEF FinishedAt
  <2>4. Present(t) /\ jobs[t] = pass.job
    BY <1>1, <2>1, <2>2, <2>3, <1>0 DEF JobHeld
  <2>5. Alike(jobs[t], jobs'[t])
    BY <1>3, <2>2, PagesAlike
  <2>6. jobs'[t].pages # None
    <3>1. pass.trust \in Nat /\ jobs \in [Stem -> Jobs]
      BY <1>0 DEF TypeOK, Passes
    <3>2. CASE jobs[t].pages # None
      BY <2>5, <3>2 DEF Alike
    <3>3. CASE jobs[t].pages = None
      <4>1. jobs' = [jobs EXCEPT ![t].pages = pass.trust]
        BY <1>3, <2>1, <2>4, <3>3, WritePagesShape
      <4>2. jobs[t] \in Jobs /\ jobs'[t] = [jobs[t] EXCEPT !.pages = pass.trust]
        BY <2>2, <3>1, <4>1
      <4>. QED BY <3>1, <4>2 DEF Jobs, None
    <3>. QED BY <3>2, <3>3
  <2>7. PagesThere(t)'
    BY <2>2, <2>4, <2>5, <2>6, PagesThereStep DEF Alike, Ended
  <2>. QED BY <1>1, <2>2, <2>3, <2>4, <2>5, <2>7 DEF Alike, Ended
<1>. QED BY <1>2, <1>3, KnownStep

-----------------------------------------------------------------------------
(* Walks.                                                                  *)

LEMMA WalkKept ==
  ASSUME IInv, [Next]_vars, NEW n \in Nat, n >= 1, n <= Len(walks)
  PROVE  walks'[n] = walks[n]
<1>1. TypeOK /\ Ordinals
  BY DEF IInv
<1>2. walks \in Seq(SUBSET Points) /\ Listable \in SUBSET Points
  BY <1>1 DEF TypeOK, Listable, Indexed, Recorded
<1>3. walks' = walks \/ walks' = Append(walks, Listable)
  BY <1>1, TimeStep
<1>. QED BY <1>2, <1>3

\* No point leaves the archive.
LEMMA ListableGrows == IInv /\ [Next]_vars => Listable \subseteq Listable'
<1> SUFFICES ASSUME IInv, [Next]_vars PROVE Listable \subseteq Listable'
  OBVIOUS
<1>0. TypeOK /\ Ordinals /\ mode' = mode
  BY TimeStep DEF IInv
<1>1. CASE stored' = stored
  BY <1>0, <1>1 DEF Listable, Indexed, Recorded
<1>2. CASE Elsewhere
  <2>1. \A p \in Points : stored[p] \in Nat /\ stored'[p] \in Nat /\ stored[p] <= stored'[p]
    BY <1>0, <1>2 DEF Elsewhere, TypeOK
  <2>. QED BY <1>0, <2>1 DEF Listable, Indexed, Recorded, LogEntry, Record
<1>3. ASSUME NEW t \in Stem, RunJob(t) \/ Collect(t) PROVE stored' = stored
  BY <1>0, <1>3, RunJobRuns, CollectShape DEF JobRuns, JobMoves, Still
<1>4. CASE Pass \/ Deliver \/ Ask \/ Tick \/ UNCHANGED vars
  <2>1. stored' = stored
    BY <1>4, WriteOnlyShape, HarvestShape, StartSyncShape, WritePagesShape, CreateJobShape,
       EnsurePlanShape, WriteStatusShape, StopPassShape, DeliverShape, AskShape, TickShape
       DEF Pass, Report, HarvestFailed, Still, vars, archiveVars
  <2>. QED BY <1>1, <2>1
<1>. QED BY <1>0, <1>1, <1>2, <1>3, <1>4, ArchiveShape, TrustShape DEF Next

LEMMA SoundStill ==
  ASSUME IInv, [Next]_vars, NEW j \in Jobs, WalkKnown(j), WalkSound(j)
  PROVE  WalkSound(j)'
<1>1. mode' = mode /\ Listable \subseteq Listable'
  BY TimeStep, ListableGrows DEF IInv
<1>2. j.walk.nth \in Nat /\ j.walk.nth <= Len(walks)
  BY DEF Jobs, Walks, WalkKnown
<1>3. j.state = "walking" \/ (Ended(j) /\ j.relay) => walks'[j.walk.nth] = walks[j.walk.nth]
  BY <1>2, WalkKept DEF WalkKnown
<1>4. \A p \in Points : Ahead(j.walk, p)' <=> Ahead(j.walk, p)
  BY <1>1 DEF Ahead
<1>5. Listable \subseteq Points
  BY DEF Listable, Indexed, Recorded
<1>. QED BY <1>1, <1>3, <1>4, <1>5 DEF WalkSound, Ended

\* A walk that begins at the first key, or today, has everything ahead of it.
LEMMA FirstWalkCovers ==
  ASSUME TypeOK, NEW plan \in Instant, NEW w \in FirstWalk(plan), NEW p \in Listable,
         mode = "Index" \/ plan = Start
  PROVE  Ahead(w, p)
<1>1. p \in Points /\ Key[p] \in Nat /\ Key[p] >= 1 /\ Day[p] \in 1..Today
  BY KeyType, CatalogAssumption DEF Listable, Indexed, Recorded
<1>2. CASE mode = "Full"
  <2>1. w.at = Start
    BY <1>2 DEF FirstWalk, NewWalk
  <2>. QED BY <1>1, <1>2, <2>1 DEF Ahead, Start
<1>3. CASE mode = "Index"
  <2>1. p \in Indexed
    BY <1>3 DEF Listable
  <2>2. PICK d \in {Day[q] : q \in {q \in Indexed : \A r \in Indexed : Day[q] <= Day[r]}} :
          w = [NewWalk EXCEPT !.at = Today, !.floor = d]
    BY <1>3, <2>1 DEF FirstWalk
  <2>3. w.at = Today /\ w.floor = d /\ d <= Day[p]
    BY <2>1, <2>2 DEF NewWalk
  <2>. QED BY <1>1, <1>3, <2>3 DEF Ahead
<1>. QED BY <1>2, <1>3 DEF TypeOK

\* A batch takes the walk past the points it answers, and past no other.
LEMMA BatchCovers ==
  ASSUME TypeOK, NEW w \in Walks, NEW batch \in SUBSET Listable, IsBatch(w, batch),
         NEW p \in Listable, Ahead(w, p)
  PROVE  /\ LastBatch(w, batch) => p \in batch
         /\ \A v \in Walks : v.at \in NextAt(w, batch) /\ v.floor = w.floor
                               => p \in batch \/ Ahead(v, p)
<1>1. p \in Points /\ Key[p] \in Nat /\ Day[p] \in Nat /\ w.at \in Int /\ w.floor \in Int
  BY KeyType DEF Listable, Indexed, Recorded, Walks
<1>2. CASE mode = "Index"
  <2>1. batch = {q \in Indexed : Day[q] = w.at} /\ p \in Indexed
    BY <1>2 DEF IsBatch, Listable
  <2>2. Day[p] <= w.at /\ w.floor <= Day[p]
    BY <1>2 DEF Ahead
  <2>3. LastBatch(w, batch) => p \in batch
    BY <1>1, <1>2, <2>1, <2>2 DEF LastBatch
  <2>4. ASSUME NEW v \in Walks, v.at \in NextAt(w, batch), v.floor = w.floor, p \notin batch
        PROVE  Ahead(v, p)
    <3>1. v.at = w.at - 1
      BY <1>2, <2>4 DEF NextAt
    <3>. QED BY <1>1, <1>2, <2>1, <2>2, <2>4, <3>1 DEF Ahead
  <2>. QED BY <2>3, <2>4
<1>3. CASE mode # "Index"
  <2> DEFINE beyond == {q \in Recorded : Key[q] > w.at}
  <2>1. p \in beyond
    BY <1>3 DEF Ahead, Listable
  <2>2. /\ batch \subseteq beyond
        /\ \A q \in batch, r \in beyond : Key[r] < Key[q] => r \in batch
        /\ Cardinality(batch) < PageKeys => batch = beyond
    BY <1>3 DEF IsBatch
  <2>3. LastBatch(w, batch) => p \in batch
    BY <1>3, <2>1, <2>2 DEF LastBatch
  <2>4. ASSUME NEW v \in Walks, v.at \in NextAt(w, batch), v.floor = w.floor, p \notin batch
        PROVE  Ahead(v, p)
    <3>1. PICK q \in batch : v.at = Key[q]
      BY <1>3, <2>4 DEF NextAt
    <3>2. q \in Points /\ Key[q] \in Nat
      BY KeyType DEF Listable, Indexed, Recorded
    <3>3. ~(Key[p] < Key[q]) /\ p # q
      BY <2>1, <2>2, <2>4
    <3>4. Key[p] # Key[q]
      BY <1>1, <3>2, <3>3, CatalogAssumption
    <3>. QED BY <1>1, <1>3, <3>1, <3>2, <3>3, <3>4 DEF Ahead
  <2>. QED BY <2>3, <2>4
<1>. QED BY <1>2, <1>3

LEMMA BeginWalkSound ==
  ASSUME IInv, [Next]_vars, NEW t \in Stem, BeginWalk(t), NEW k, k = jobs'[t]
  PROVE  WalkSound(k)'
<1>0. TypeOK /\ Ordinals
  BY DEF IInv
<1> DEFINE j == jobs[t]
<1>1. /\ j \in Jobs /\ j.plan \in Instant /\ jobs \in [Stem -> Jobs]
      /\ walks \in Seq(SUBSET Points) /\ Listable \in SUBSET Points
  BY <1>0 DEF TypeOK, Jobs, Listable, Indexed, Recorded
<1>2. mode' = mode /\ stored' = stored /\ Listable' = Listable
  BY DEF BeginWalk, archiveVars, Listable, Indexed, Recorded
<1>3. CASE jobs' = [jobs EXCEPT ![t] = EndedAs(j, NewWalk, FALSE, FALSE)]
  <2>1. k = EndedAs(j, NewWalk, FALSE, FALSE)
    BY <1>1, <1>3
  <2>2. k.state = "ended" /\ k.relay = FALSE
    BY <2>1 DEF EndedAs, NoJob
  <2>. QED BY <2>2 DEF WalkSound, Ended
<1>4. CASE walks' = Append(walks, Listable) /\ j.plan = j.pin
  <2>1. PICK walk \in FirstWalk(j.plan) :
          jobs' = [jobs EXCEPT ![t] = [j EXCEPT !.state = "walking",
                                               !.walk = [walk EXCEPT !.nth = Len(walks) + 1]]]
    BY <1>1, <1>3, <1>4, Zenon DEF BeginWalk
  <2>2. walk \in Walks
    BY <1>0, <1>1, FirstWalkType
  <2> DEFINE w == [walk EXCEPT !.nth = Len(walks) + 1]
  <2>3. w.nth = Len(walks) + 1 /\ w.at = walk.at /\ w.floor = walk.floor
    BY <2>2 DEF Walks
  <2>. HIDE DEF w
  <2>4. k = [j EXCEPT !.state = "walking", !.walk = w]
    BY <1>1, <2>1 DEF w
  <2>5. k.state = "walking" /\ k.walk = w /\ k.plan = j.plan
    BY <1>1, <2>4 DEF Jobs
  <2>6. walks'[Len(walks) + 1] = Listable
    BY <1>1, <1>4
  <2>7. mode = "Index" \/ j.plan = Start => \A p \in Listable : Ahead(w, p)
    BY <1>0, <1>1, <2>1, <2>3, FirstWalkCovers DEF Ahead
  <2>8. \A p : Ahead(k.walk, p)' <=> Ahead(k.walk, p)
    BY <1>2 DEF Ahead
  <2>. QED BY <1>2, <2>3, <2>5, <2>6, <2>7, <2>8 DEF WalkSound, Ended
<1>. QED BY <1>3, <1>4 DEF BeginWalk

LEMMA WalkBatchSound ==
  ASSUME IInv, [Next]_vars, NEW t \in Stem, WalkBatch(t), NEW k, k = jobs'[t]
  PROVE  WalkSound(k)'
<1>0. TypeOK /\ Ordinals /\ WalkSound(jobs[t])
  BY DEF IInv
<1> DEFINE j == jobs[t]
           w == j.walk
<1>1. PICK batch \in SUBSET Listable :
        /\ IsBatch(w, batch)
        /\ \E examined \in SUBSET batch, short, unread, stamped \in BOOLEAN :
             BatchStep(t, batch, examined, short, unread, stamped)
  BY WalkBatchCases
<1>2. PICK examined \in SUBSET batch, short \in BOOLEAN, unread \in BOOLEAN, stamped \in BOOLEAN :
                 BatchStep(t, batch, examined, short, unread, stamped)
  BY <1>1
<1>3. /\ j \in Jobs /\ w \in Walks /\ j.state = "walking" /\ w.nth \in Nat
      /\ jobs \in [Stem -> Jobs]
  BY <1>0, WalkBatchCases DEF TypeOK, Jobs, Walks
<1>4. mode' = mode /\ stored' = stored /\ walks' = walks /\ Listable' = Listable
  BY WalkBatchCases DEF Listable, Indexed, Recorded
<1>5. mode = "Index" \/ j.plan = Start
        => walks[w.nth] \subseteq {p \in Listable : p \in w.seen \/ Ahead(w, p)}
  BY <1>0, <1>3 DEF WalkSound
<1> DEFINE walk == Examine(w, examined, unread)
<1>6. /\ walk \in Walks /\ walk.nth = w.nth /\ walk.seen = w.seen \cup examined
      /\ walk.floor = w.floor
  <2>1. walk.floor = w.floor
    BY <1>3 DEF Examine, Walks
  <2>. QED BY SMTT(60), <1>3, <2>1, ExamineType
<1>7. /\ short \/ examined = batch
      /\ \/ /\ short \/ LastBatch(w, batch)
            /\ jobs' = [jobs EXCEPT ![t] = EndedAs(j, Stop(walk, short), TRUE, stamped)]
         \/ /\ ~short
            /\ \E next \in NextAt(w, batch) :
                 jobs' = [jobs EXCEPT ![t] = [j EXCEPT !.walk = [walk EXCEPT !.at = next]]]
  BY <1>2 DEF BatchStep, Examine, Stop
<1> HIDE DEF walk
<1>8. CASE /\ short \/ LastBatch(w, batch)
           /\ jobs' = [jobs EXCEPT ![t] = EndedAs(j, Stop(walk, short), TRUE, stamped)]
  <2> DEFINE u == Stop(walk, short)
  <2>1. u \in Walks /\ u.nth = w.nth /\ u.seen = w.seen \cup examined
        /\ u.stop = IF short THEN "short" ELSE "range"
    BY <1>6, StopType
  <2>. HIDE DEF u
  <2>2. k = EndedAs(j, u, TRUE, stamped)
    BY <1>3, <1>8 DEF u
  <2>3. /\ k.state = "ended" /\ k.plan = j.plan /\ k.walk.nth = w.nth
        /\ k.walk.seen = w.seen \cup examined /\ k.walk.stop = u.stop
    <3>1. k.state = "ended" /\ k.plan = j.plan /\ k.walk = [u EXCEPT !.at = None, !.floor = None]
      BY <2>2 DEF EndedAs, NoJob
    <3>. QED BY <2>1, <3>1 DEF Walks
  <2>4. CASE short
    BY <2>1, <2>3, <2>4 DEF WalkSound, Ended
  <2>5. CASE ~short
    <3>1. \A p \in Listable : Ahead(w, p) => p \in examined
      BY <1>0, <1>1, <1>3, <1>7, <1>8, <2>5, BatchCovers
    <3>. QED BY <1>4, <1>5, <2>3, <3>1 DEF WalkSound, Ended
  <2>. QED BY <2>4, <2>5
<1>9. ASSUME ~short, NEW next \in NextAt(w, batch),
             jobs' = [jobs EXCEPT ![t] = [j EXCEPT !.walk = [walk EXCEPT !.at = next]]]
      PROVE  WalkSound(k)'
  <2> DEFINE v == [walk EXCEPT !.at = next]
  <2>1. next \in Int
    BY <1>0, <1>3, WalkOn
  <2>2. v \in Walks /\ v.nth = w.nth /\ v.at = next /\ v.floor = w.floor
        /\ v.seen = w.seen \cup examined
    BY <1>6, <2>1 DEF Walks
  <2>3. k = [j EXCEPT !.walk = v]
    BY <1>3, <1>9
  <2>. HIDE DEF v
  <2>4. k.state = "walking" /\ k.walk = v /\ k.plan = j.plan
    BY <1>3, <2>3 DEF Jobs
  <2>5. \A p \in Listable : Ahead(w, p) => p \in examined \/ Ahead(v, p)
    BY <1>0, <1>1, <1>3, <1>7, <1>9, <2>2, BatchCovers
  <2>6. \A p : Ahead(k.walk, p)' <=> Ahead(k.walk, p)
    BY <1>4 DEF Ahead
  <2>. QED BY <1>4, <1>5, <2>2, <2>4, <2>5, <2>6 DEF WalkSound, Ended
<1>. QED BY <1>7, <1>8, <1>9

\* A Job whose walk has no result says nothing of the archive.
LEMMA SoundOtherwise ==
  ASSUME NEW k, k.state # "walking", ~(Ended(k) /\ k.relay /\ k.walk.stop = "range")
  PROVE  WalkSound(k) /\ WalkSound(k)'
BY DEF WalkSound, Ended

LEMMA SoundNoJob == ASSUME NEW k, k = NoJob PROVE WalkSound(k) /\ WalkSound(k)'
<1>1. k.state = "gone"
  BY DEF NoJob
<1>. QED BY <1>1, SoundOtherwise DEF Ended

LEMMA WalkSoundStep ==
  ASSUME IInv, [Next]_vars, NEW t \in Stem, NEW k, k = jobs'[t]
  PROVE  WalkSound(k)'
<1>0. TypeOK /\ Ordinals /\ WalkSound(jobs[t])
  BY DEF IInv
<1>1. PICK j \in Jobs : j = jobs[t]
  BY <1>0 DEF TypeOK
<1>2. WalkKnown(j) /\ WalkSound(j)
  BY <1>0, <1>1 DEF Ordinals
<1>3. CASE Alike(j, k)
  <2>1. CASE k.plan = j.plan
    <3>1. WalkSound(j)'
      BY <1>2, SoundStill
    <3>. QED BY <1>3, <2>1, <3>1 DEF WalkSound, Alike, Ended
  <2>2. CASE j.plan = None
    BY <1>2, <1>3, <2>2, SoundOtherwise DEF WalkKnown, Alike
  <2>. QED BY <1>3, <2>1, <2>2 DEF Alike
<1>4. CASE RunJob(t)
  <2>1. CASE FailJob(t)
    <3>1. PICK stamped \in BOOLEAN :
            jobs' = [jobs EXCEPT ![t] = EndedAs(jobs[t], NewWalk, FALSE, stamped)]
      BY <1>0, <2>1, FailJobRuns
    <3>2. k = EndedAs(j, NewWalk, FALSE, stamped)
      BY <1>0, <1>1, <3>1 DEF TypeOK
    <3>3. k.state = "ended" /\ k.relay = FALSE
      BY <3>2 DEF EndedAs, NoJob
    <3>. QED BY <3>3, SoundOtherwise
  <2>. QED BY <1>4, <2>1, BeginWalkSound, WalkBatchSound DEF RunJob
<1>5. CASE k = NewJob
  <2>1. NewJob.state = "pending"
    BY DEF NewJob, NoJob
  <2>. QED BY <1>5, <2>1, SoundOtherwise DEF Ended
<1>. QED BY <1>1, <1>3, <1>4, <1>5, SoundNoJob, JobsStep DEF JobChange

LEMMA HeldSoundStep ==
  ASSUME IInv, [Next]_vars, NEW k, k = pass'.job
  PROVE  WalkSound(k)'
<1>0. TypeOK /\ Ordinals /\ Clock /\ WalkSound(pass.job) /\ (\A t \in Stem : WalkSound(jobs[t]))
  BY DEF IInv
<1>1. CASE k = pass.job
  <2>1. k \in Jobs /\ WalkKnown(k) /\ WalkSound(k)
    BY <1>0, <1>1 DEF TypeOK, Passes, Ordinals
  <2>. QED BY <2>1, SoundStill
<1>2. CASE Harvest
  <2>1. k = Tracked /\ Ended(Tracked)
    BY <1>2, HarvestShape DEF At, Unread
  <2>2. PICK t \in Stem : k = jobs[t]
    BY <1>0, <2>1, FinishedType
  <2>3. k \in Jobs /\ WalkKnown(k) /\ WalkSound(k)
    BY <1>0, <2>2 DEF TypeOK, Ordinals
  <2>. QED BY <2>3, SoundStill
<1>3. CASE StartSync \/ WritePages \/ pass' = NoPass
  <2>1. WritePages => k = NoJob
    BY <1>0, WritePagesShape DEF TypeOK, Passes
  <2>2. StartSync => k = NoJob
    BY StartSyncShape DEF At
  <2>3. pass' = NoPass => k = NoJob
    BY DEF NoPass
  <2>. QED BY <1>3, <2>1, <2>2, <2>3, SoundNoJob
<1>4. CASE CreateJob \/ EnsurePlan
  <2>1. k = pass.job
    BY <1>0, <1>4, CreateJobShape, EnsurePlanShape DEF TypeOK, Passes
  <2>. QED BY <1>1, <2>1
<1>. QED BY <1>0, <1>1, <1>2, <1>3, <1>4, PassStep

LEMMA WholeViewStep == IInv /\ [Next]_vars => (\A s \in Known : WholeView(s))'
<1> SUFFICES ASSUME IInv, [Next]_vars, NEW s, s \in Known', s.view.stem # NoStem
             PROVE  /\ s.view.nth >= 1
                    /\ s.complete /\ ~s.view.truncated => walks'[s.view.nth] \subseteq s.view.listed
  BY DEF WholeView
<1>0. TypeOK /\ Ordinals /\ Clock /\ JobHeld /\ WalkSound(pass.job)
  BY DEF IInv
<1>1. ASSUME NEW b \in Known0, Derived(s, b)
      PROVE  /\ s.view.nth >= 1
             /\ s.complete /\ ~s.view.truncated => walks'[s.view.nth] \subseteq s.view.listed
  <2>1. s.view = b.view /\ s.complete = b.complete
    BY <1>1 DEF Derived, NoView
  <2>2. WholeView(b) /\ b.view.nth \in Nat /\ b.view.nth <= Len(walks)
    BY KnownNow
  <2>3. b.view.nth >= 1 => walks'[b.view.nth] = walks[b.view.nth]
    BY <2>2, WalkKept
  <2>. QED BY <2>1, <2>2, <2>3 DEF WholeView
<1>2. CASE WritePages /\ s = PublishedNow
  <2> DEFINE j == pass.job
             t == pass.copy.status.job
  <2>1. /\ s.view.nth = j.walk.nth /\ pass.step = "pages" /\ s.view.listed = Newest(j.walk.seen)
        /\ s.complete => j.walk.stop = "range"
        /\ ~s.view.truncated => ~(Cardinality(j.walk.seen) > ViewLimit) /\ FromStart(t)
    BY <1>0, <1>2, WritePagesShape, KnownType, PublishedFields DEF PublishedNow, Known, Known0
  <2>2. /\ j.walk.nth >= 1 /\ walks' = walks /\ Ended(j) /\ j.relay
        /\ j.walk.seen \in SUBSET Points
    BY <1>0, <1>2, <2>1, HeldType, WritePagesShape DEF JobHeld, TypeOK, Passes, Jobs, Walks
  <2>3. ASSUME s.complete, ~s.view.truncated
        PROVE  walks[j.walk.nth] \subseteq s.view.listed
    <3>1. Cardinality(j.walk.seen) <= ViewLimit
      <4>1. Cardinality(j.walk.seen) \in Nat /\ ViewLimit \in Nat
        BY <2>2, PointsFinite, FS_CardinalityType, CatalogAssumption
      <4>. QED BY <2>1, <2>3, <4>1
    <3>2. Newest(j.walk.seen) = j.walk.seen
      BY <2>2, <3>1, NewestIsAll
    <3>3. mode = "Index" \/ j.plan = Start
      BY <1>0, <2>1, <2>3 DEF FromStart, JobHeld
    <3>. QED BY <1>0, <2>1, <2>2, <2>3, <3>2, <3>3 DEF WalkSound
  <2>. QED BY SMTT(60), <2>1, <2>2, <2>3
<1>. QED BY <1>1, <1>2, KnownStep

-----------------------------------------------------------------------------
(* Writes of the status.                                                   *)

\* The step writes a status.
Rewritten ==
  /\ UNCHANGED <<jobs, walks, now>>
  /\ object'.request = object.request
  /\ cache' = cache \/ cache' = object'
  /\ newest' = IF object'.status.view.nth > newest THEN object'.status.view.nth ELSE newest
  /\ pass' = pass \/ pass' = NoPass
  /\ \/ /\ object'.status = Kept
        /\ cache = object /\ UNCHANGED pass /\ pass.step = "none"
     \/ /\ object'.status = [Kept EXCEPT !.finished = FinishedAt(Tracked, now)]
        /\ cache = object /\ UNCHANGED pass /\ pass.step = "none" /\ Ended(Tracked)
     \/ /\ object'.status = pass.write
        /\ pass.step = "patch" /\ Current /\ pass' = NoPass

LEMMA ObjectStep ==
  ASSUME IInv, [Next]_vars
  PROVE  \/ UNCHANGED <<object, newest>>
         \/ /\ Ask
            /\ object'.request = object.request + 1 /\ object'.status = object.status
            /\ UNCHANGED <<newest, jobs, walks, pass, now>>
         \/ Rewritten
<1>0. TypeOK /\ Ordinals /\ object \in Objects
  BY DEF IInv, TypeOK
<1>1. CASE Ask
  BY <1>0, <1>1, AskShape DEF Objects, Still
<1>2. ASSUME NEW status, Writes(status)
      PROVE  /\ object'.request = object.request
             /\ object'.status = status
             /\ cache' = cache \/ cache' = object'
             /\ newest' = IF status.view.nth > newest THEN status.view.nth ELSE newest
  BY <1>0, <1>2 DEF Writes, Objects
<1>3. CASE Report
  <2>1. WriteOnly(Kept)
    BY <1>3 DEF Report
  <2>. QED BY <1>2, <2>1, WriteOnlyShape DEF Rewritten, Still
<1>4. CASE HarvestFailed
  <2>1. WriteOnly([Kept EXCEPT !.finished = FinishedAt(Tracked, now)]) /\ Ended(Tracked)
    BY <1>4 DEF HarvestFailed, Unread
  <2>. QED BY <1>2, <2>1, WriteOnlyShape DEF Rewritten, Still
<1>5. CASE WriteStatus
  BY <1>2, <1>5, WriteStatusShape DEF Rewritten, Current, Still
<1>6. CASE Harvest \/ StartSync \/ WritePages \/ CreateJob \/ EnsurePlan \/ StopPass
  BY <1>6, HarvestShape, StartSyncShape, WritePagesShape, CreateJobShape, EnsurePlanShape,
     StopPassShape
<1>7. CASE \E t \in Stem : RunJob(t) \/ Collect(t)
  BY <1>0, <1>7, RunJobRuns, CollectShape DEF JobRuns, JobMoves
<1>8. CASE Deliver \/ Tick \/ Elsewhere \/ UNCHANGED vars
  BY <1>8, DeliverShape, TickShape DEF Elsewhere, vars, catalogVars
<1>. QED BY <1>0, <1>1, <1>3, <1>4, <1>5, <1>6, <1>7, <1>8, ArchiveShape, TrustShape DEF Next, Pass

\* A write keeps the Job and what was observed, or starts the Job its trigger names; it keeps
\* or drops the view, or publishes another.
LEMMA RewrittenKeeps ==
  ASSUME IInv, Rewritten
  PROVE  /\ \/ /\ object'.status.job = object.status.job
               /\ object'.status.observed = object.status.observed
               /\ ~Starting
            \/ /\ Starting /\ ~Publishing /\ Current /\ pass.step = "patch"
               /\ object'.status.job = WantedStem
               /\ object'.status.finished = None
               /\ object'.status.observed = IF Requested(object) THEN object.request
                                            ELSE object.status.observed
         /\ \/ /\ object'.status.view \in {object.status.view, NoView}
               /\ newest' = newest
               /\ ~Publishing
            \/ /\ Publishing /\ Current /\ pass.step = "patch" /\ ~Starting
               /\ object'.status = pass.write
               /\ newest' = object'.status.view.nth
<1>0. TypeOK /\ StartFits /\ PatchFits /\ Ordinals
  BY DEF IInv
<1>1. newest \in Nat /\ object.status.view.nth <= newest /\ object.status \in Statuses
      /\ object.status.view.nth \in Nat
  BY <1>0 DEF TypeOK, Ordinals, Objects, Statuses, Views
<1>2. object'.status.view \in {object.status.view, NoView} => newest' = newest
  <2>1. NoView.nth = 0
    BY DEF NoView
  <2>. QED BY <1>1, <2>1 DEF Rewritten
<1>3. CASE /\ \/ object'.status = Kept
              \/ object'.status = [Kept EXCEPT !.finished = FinishedAt(Tracked, now)]
           /\ cache = object /\ pass.step = "none"
  <2>1. Kept \in Statuses /\ Kept.view \in {object.status.view, NoView}
        /\ Kept.job = object.status.job /\ Kept.observed = object.status.observed
    BY <1>0, <1>3, PassTypes
  <2>2. object'.status.view = Kept.view /\ object'.status.job = Kept.job
        /\ object'.status.observed = Kept.observed
    BY <1>3, <2>1 DEF Statuses
  <2>3. ~Starting /\ ~Publishing
    BY <1>3 DEF Starting, Publishing
  <2>. QED BY <1>2, <2>1, <2>2, <2>3
<1>4. CASE object'.status = pass.write /\ pass.step = "patch" /\ Current
  <2>1. pass.copy = object /\ pass.write \in Statuses
    BY <1>0, <1>4 DEF Current, TypeOK, Passes
  <2>2. \/ /\ object'.status.job = object.status.job
           /\ object'.status.observed = object.status.observed
           /\ ~Starting
        \/ /\ Starting /\ ~Publishing
           /\ object'.status.job = WantedStem
           /\ object'.status.finished = None
           /\ object'.status.observed = IF Requested(object) THEN object.request
                                        ELSE object.status.observed
    BY <1>0, <1>4, <2>1 DEF StartFits, PatchFits
  <2>3. CASE Publishing
    <3>1. ~Starting /\ pass.write.view.nth > newest
      BY <1>0, <1>4, <2>3 DEF PatchFits
    <3>. QED BY <1>4, <2>2, <2>3, <3>1 DEF Rewritten
  <2>4. CASE ~Publishing
    <3>1. object'.status.view \in {object.status.view, NoView}
      BY <1>4, <2>1, <2>4 DEF Publishing
    <3>. QED BY <1>2, <1>4, <2>2, <2>4, <3>1
  <2>. QED BY <2>3, <2>4
<1>. QED BY <1>3, <1>4 DEF Rewritten

\* While a pass rests it does not become current.
LEMMA CurrentStep ==
  ASSUME IInv, [Next]_vars, UNCHANGED pass, pass.step # "none", object' = pass.copy
  PROVE  Current /\ UNCHANGED <<object, newest>>
<1>0. TypeOK /\ Copies
  BY DEF IInv
<1>1. pass.copy.request <= object.request /\ object.request \in Nat /\ pass # NoPass
  BY <1>0, Constants DEF Copies, CopyFits, TypeOK, Objects, NoPass
<1>2. ~Rewritten
  BY <1>1 DEF Rewritten
<1>3. object'.request # object.request + 1
  BY <1>1
<1>. QED BY <1>2, <1>3, ObjectStep DEF Current

LEMMA PresentBefore ==
  ASSUME IInv, [Next]_vars, NEW t \in Stem, Present(t)'
  PROVE  Present(t) \/ (CreateJob /\ t = WantedStem /\ jobs'[t] = NewJob)
<1>0. TypeOK /\ Ordinals
  BY DEF IInv
<1>1. jobs'[t].state # "gone"
  BY PresentStep
<1>2. Present(t) <=> jobs[t].state # "gone"
  BY <1>0, JobShape
<1>3. jobs'[t] # NoJob
  BY <1>1 DEF NoJob
<1>. QED BY <1>1, <1>2, <1>3, JobsStep DEF JobChange, Alike, Live

LEMMA RequestStem ==
  ASSUME NEW r \in 1..MaxRequests
  PROVE  /\ <<"request", r>> \in Stem
         /\ \A k : <<"request", r>> # <<"slot", k>>
         /\ \A q : <<"request", r>> = <<"request", q>> => r = q
BY DEF Stem

\* A pass that wants the Job of a request has that request in its copy.
LEMMA WantedRequest ==
  ASSUME TypeOK, StartFits, Starting, NEW r \in 1..MaxRequests, WantedStem = <<"request", r>>
  PROVE  Requested(pass.copy) /\ pass.copy.request = r
<1>1. /\ interval \in Nat /\ pass.copy \in Objects /\ pass.now \in 0..Horizon
      /\ Triggered(pass.copy, pass.now)
  BY DEF TypeOK, Passes, StartFits
<1>2. Requested(pass.copy)
  BY <1>1, TriggerType, RequestStem DEF WantedStem
<1>. QED BY <1>1, <1>2, TriggerType, RequestStem DEF WantedStem

LEMMA CopiesStep == IInv /\ [Next]_vars => Copies'
<1> SUFFICES ASSUME IInv, [Next]_vars PROVE Copies'
  OBVIOUS
<1>0. TypeOK /\ Copies /\ StartFits /\ PatchFits /\ TypeOK'
  BY TypeStep DEF IInv
<1>1. /\ object.request \in Nat /\ cache.request \in Nat /\ pass.copy.request \in Nat
      /\ object'.request \in Nat /\ object.status.observed \in Nat /\ pass \in Passes
  <2>1. object \in Objects /\ cache \in Objects /\ object' \in Objects /\ pass \in Passes
    BY <1>0 DEF TypeOK
  <2>2. pass.copy \in Objects
    BY <2>1 DEF Passes
  <2>3. \A c \in Objects : c.request \in Nat /\ c.status.observed \in Nat
    BY Constants DEF Objects, Statuses
  <2>. QED BY <2>1, <2>2, <2>3
\* The copies in use are those before, or the object as it is or was.
<1> DEFINE Old == {object, cache, pass.copy, NoObject}
<1>2. /\ cache' \in {cache, object, object'}
      /\ pass'.copy \in {pass.copy, cache, NoObject}
      /\ pass'.step # "none" => \/ pass'.copy = cache /\ cache' = cache
                                \/ pass'.copy = pass.copy /\ pass.step # "none"
  <2>0. NoPass.copy = NoObject /\ NoPass.step = "none"
    BY DEF NoPass
  <2>1. CASE UNCHANGED <<cache, pass>> \/ (UNCHANGED cache /\ pass' = NoPass)
    BY <2>0, <2>1
  <2>2. CASE Rewritten
    BY <2>0, <2>2 DEF Rewritten
  <2>3. CASE Ask \/ Deliver
    BY <2>3, AskShape, DeliverShape
  <2>4. CASE Harvest \/ StartSync
    BY <2>4, HarvestShape, StartSyncShape DEF At
  <2>5. CASE WritePages \/ CreateJob \/ EnsurePlan
    BY <1>1, <2>5, WritePagesShape, CreateJobShape, EnsurePlanShape DEF Passes
  <2>6. CASE Report \/ HarvestFailed
    BY <2>6, WriteOnlyShape DEF Report, HarvestFailed, Writes
  <2>7. CASE WriteStatus \/ StopPass
    BY <2>0, <2>7, WriteStatusShape, StopPassShape DEF Writes
  <2>8. CASE \E t \in Stem : RunJob(t) \/ Collect(t)
    BY <2>1, <2>8 DEF RunJob, BeginWalk, WalkBatch, FailJob, Collect
  <2>9. CASE Tick \/ ChangeTrust \/ (ArchiveNext /\ UNCHANGED catalogVars) \/ UNCHANGED vars
    BY <2>1, <2>9 DEF Tick, ChangeTrust, catalogVars, vars
  <2>. QED BY <2>3, <2>4, <2>5, <2>6, <2>7, <2>8, <2>9 DEF Next, Pass
<1>3. \A c \in Old : /\ c.request \in Nat /\ c.request <= object.request
                     /\ c.status.observed <= c.request
                     /\ c.request = object.request /\ Requested(object)
                          => c.status.job = object.status.job
  <2>1. NoObject.request = 0 /\ NoObject.status.observed = 0
    BY DEF NoObject, NoStatus
  <2>. QED BY <1>0, <1>1, <2>1 DEF Copies, CopyFits, Requested
<1>4. /\ object'.request \in {object.request, object.request + 1}
      /\ object'.status.observed <= object'.request
      /\ \/ object'.request = object.request + 1
         \/ /\ Requested(object)' => Requested(object)
            /\ Requested(object)' => object'.status.job = object.status.job
  <2>1. CASE UNCHANGED object
    BY <1>3, <2>1 DEF Requested
  <2>2. CASE object'.request = object.request + 1 /\ object'.status = object.status
    BY <1>1, <1>3, <2>2
  <2>3. CASE Rewritten
    BY <1>1, <1>3, <2>3, RewrittenKeeps DEF Rewritten, Requested
  <2>. QED BY <2>1, <2>2, <2>3, ObjectStep
<1>5. ASSUME NEW c \in Old PROVE CopyFits(c)'
  BY <1>1, <1>3, <1>4, <1>5 DEF CopyFits
<1>6. CopyFits(object)'
  BY <1>1, <1>4 DEF CopyFits
<1>7. CopyFits(cache)' /\ CopyFits(pass.copy)'
  BY <1>2, <1>5, <1>6 DEF CopyFits
<1>8. cache.request <= cache'.request
  BY <1>1, <1>2, <1>3, <1>4
<1>9. cache'.request \in Nat
  BY <1>0, Constants DEF TypeOK, Objects
<1>10. pass'.step # "none" => pass'.copy.request <= cache'.request
  BY <1>0, <1>1, <1>2, <1>8, <1>9 DEF Copies
<1>11. ASSUME NEW r \in 1..MaxRequests, Present(<<"request", r>>)'
       PROVE  r <= cache'.request /\ (pass'.step # "none" => r <= pass'.copy.request)
  <2>0. <<"request", r>> \in Stem /\ r \in Nat
    BY RequestStem, Constants
  <2>1. CASE Present(<<"request", r>>)
    BY <1>0, <1>1, <1>2, <1>8, <1>9, <2>0, <2>1 DEF Copies
  <2>2. CASE CreateJob /\ WantedStem = <<"request", r>>
    <3>1. Starting /\ pass.step # "none" /\ pass'.copy = pass.copy
      BY <1>1, <2>2, CreateJobShape DEF Starting, Passes
    <3>2. r = pass.copy.request
      BY <1>0, <2>2, <3>1, WantedRequest
    <3>. QED BY <1>0, <1>1, <1>8, <1>9, <3>1, <3>2 DEF Copies
  <2>. QED BY <1>11, <2>0, <2>1, <2>2, PresentBefore
<1>. QED BY <1>6, <1>7, <1>10, <1>11 DEF Copies

-----------------------------------------------------------------------------
(* The Job that is next in line.                                           *)

\* A request that is next to be served, with its Job there, was so before the step.
LEMMA AskedBefore ==
  ASSUME IInv, [Next]_vars, Requested(object)', Present(Asked)'
  PROVE  /\ Requested(object) /\ object'.request = object.request
         /\ object'.status.job = object.status.job
         /\ Asked' = Asked /\ Asked \in Stem /\ object.request \in 1..MaxRequests
         /\ Present(Asked)'
<1>0. TypeOK /\ Copies /\ TypeOK' /\ Copies'
  BY TypeStep, CopiesStep DEF IInv
<1>1. /\ object.request \in 0..MaxRequests /\ cache.request \in 0..MaxRequests
      /\ object'.request \in 1..MaxRequests /\ MaxRequests \in Nat
      /\ cache.request <= object.request
  BY <1>0, Constants DEF TypeOK, Objects, Copies, CopyFits, Requested
<1>2. ~Ask
  <2> SUFFICES ASSUME Ask PROVE FALSE
    OBVIOUS
  <2>1. /\ object'.request = object.request + 1 /\ UNCHANGED jobs
    BY <1>1, ObjectStep, AskShape DEF Still, TypeOK, Objects, IInv
  <2>2. PICK r \in 1..MaxRequests : r = object'.request
    BY <1>1
  <2>3. Present(<<"request", r>>)
    BY <2>1, <2>2 DEF Asked, Present
  <2>. QED BY <1>0, <1>1, <2>1, <2>2, <2>3 DEF Copies
<1>3. object'.request = object.request
  BY <1>2, ObjectStep DEF Rewritten
<1>4. Requested(object) /\ object'.status.job = object.status.job
  <2>1. CASE UNCHANGED object
    BY <2>1 DEF Requested
  <2>2. CASE Rewritten
    BY <1>3, <2>2, RewrittenKeeps DEF Requested
  <2>. QED BY <1>2, <2>1, <2>2, ObjectStep
<1>5. Asked' = Asked /\ Asked \in Stem
  BY <1>1, <1>3, RequestStem DEF Asked
<1>. QED BY <1>1, <1>3, <1>4, <1>5

\* A Job that stays is known of until no earlier instant.
LEMMA SinceStep ==
  ASSUME IInv, [Next]_vars, NEW t \in Stem, Present(t), Present(t)'
  PROVE  /\ Since(jobs[t]) \in Nat /\ Since(jobs'[t]) \in Nat
         /\ Since(jobs[t]) <= Since(jobs'[t]) /\ Since(jobs'[t]) <= now'
<1>0. TypeOK /\ Ordinals /\ Clock /\ TypeOK' /\ Ordinals' /\ Clock' /\ now \in Nat
  BY TypeStep, OrdinalsStep, ClockStep, NowGrows DEF IInv
<1>1. Since(jobs[t]) \in Nat /\ Since(jobs[t]) <= now /\ Since(jobs'[t]) <= now'
  BY <1>0, JobShape DEF Clock
<1>2. CASE Alike(jobs[t], jobs'[t])
  <2>1. Since(jobs'[t]) = Since(jobs[t])
    BY <1>2 DEF Alike, Since, Ended
  <2>. QED BY <1>1, <2>1
<1>3. CASE Live(jobs[t]) /\ JobMoves(t, jobs'[t])
  <2>1. Since(jobs'[t]) = Since(jobs[t]) \/ Since(jobs'[t]) = now
    BY <1>3 DEF JobMoves, Since, Ended, Live
  <2>. QED BY <1>0, <1>1, <2>1
<1>4. jobs'[t] # NoJob
  BY PresentStep DEF NoJob
<1>. QED BY <1>1, <1>2, <1>3, <1>4, JobsStep DEF JobChange

\* Slots of later instants are no earlier; no slot is there without an interval.
LEMMA SlotOrder ==
  ASSUME TypeOK, SlotJobs, NEW k \in 0..Horizon, Present(<<"slot", k>>),
         NEW u \in Nat, NEW v \in Nat, u <= v
  PROVE  Slot(u) <= Slot(v) /\ Slot(u) \in Nat /\ Slot(v) \in Nat /\ k \in Nat /\ interval > 0
<1>1. interval > 0 /\ interval \in Nat /\ Horizon \in Nat
  BY Constants DEF SlotJobs, TypeOK
<1>. QED BY <1>1, SlotMonotone, SlotType

LEMMA AwaitsStep ==
  ASSUME IInv, [Next]_vars, NEW n \in Nat, n <= Len(walks), Awaits(n)
  PROVE  Awaits(n)'
<1> SUFFICES ASSUME Requested(object)', Present(Asked)'
             PROVE  /\ ~Within(Asked, n)'
                    /\ \A k \in 0..Horizon : Within(<<"slot", k>>, n)'
                         => k < Slot(now)' \/ k <= Slot(Since(jobs[Asked]))'
  BY DEF Awaits
<1>0. /\ TypeOK /\ Ordinals /\ Clock /\ SlotJobs /\ StartFits /\ interval' = interval
      /\ now \in Nat /\ now' \in Nat /\ now <= now'
  BY TimeStep, NowGrows DEF IInv
<1>1. /\ Requested(object) /\ Asked' = Asked /\ Asked \in Stem
  BY AskedBefore
<1>2. PICK t \in Stem : t = Asked
  BY <1>1
<1>3. Present(t)' /\ Slot(now)' = Slot(now') /\ Slot(Since(jobs[Asked]))' = Slot(Since(jobs'[t]))
  BY <1>0, <1>1, <1>2 DEF Slot, Present, Since, Ended
<1>4. ASSUME NEW k \in 0..Horizon, Within(<<"slot", k>>, n)'
      PROVE  Within(<<"slot", k>>, n) /\ Present(<<"slot", k>>)
  BY <1>4, WithinStep, SlotStem
<1>5. CASE Present(t)
  <2>1. ~Within(t, n)
    BY <1>1, <1>2, <1>5 DEF Awaits
  <2>2. ~Within(t, n)'
    BY <2>1, WithinStep
  <2>3. ASSUME NEW k \in 0..Horizon, Within(<<"slot", k>>, n)'
        PROVE  k < Slot(now') \/ k <= Slot(Since(jobs'[t]))
    <3>1. k < Slot(now) \/ k <= Slot(Since(jobs[t]))
      BY <1>1, <1>2, <1>4, <1>5, <2>3 DEF Awaits
    <3>2. Slot(now) <= Slot(now') /\ Slot(now) \in Nat /\ Slot(now') \in Nat /\ k \in Nat
      BY <1>0, <1>4, <2>3, SlotOrder
    <3>3. /\ Slot(Since(jobs[t])) <= Slot(Since(jobs'[t]))
          /\ Slot(Since(jobs[t])) \in Nat /\ Slot(Since(jobs'[t])) \in Nat
      BY <1>0, <1>3, <1>4, <1>5, <2>3, SlotOrder, SinceStep
    <3>. QED BY <3>1, <3>2, <3>3
  <2>. QED BY <1>1, <1>2, <1>3, <2>2, <2>3 DEF Within, Nth
<1>6. CASE jobs'[t] = NewJob
  <2>1. NewJob.walk.nth = 0 /\ Since(NewJob) = now
    BY DEF NewJob, NoJob, NewWalk, Since, Ended
  <2>2. ~Within(t, n)'
    BY <1>6, <2>1 DEF Within, Nth
  <2>3. ASSUME NEW k \in 0..Horizon, Within(<<"slot", k>>, n)'
        PROVE  k <= Slot(Since(jobs'[t]))
    BY <1>0, <1>4, <1>6, <2>1, <2>3, SlotsBehindNow DEF SlotsBehind
  <2>. QED BY <1>1, <1>2, <1>3, <2>2, <2>3 DEF Within, Nth
<1>. QED BY <1>3, <1>5, <1>6, PresentBefore

LEMMA NewestStep ==
  ASSUME IInv, [Next]_vars
  PROVE  \/ newest' = newest
         \/ /\ Rewritten /\ Publishing /\ Current /\ pass.step = "patch" /\ ~Starting
            /\ object'.status = pass.write
            /\ newest' = pass.write.view.nth
            /\ newest' \in Nat /\ newest < newest' /\ newest' <= Len(walks)
<1>0. TypeOK /\ PatchFits /\ Ordinals
  BY DEF IInv
<1>1. pass.write.view.nth \in Nat /\ pass.write.view.nth <= Len(walks)
  BY <1>0 DEF TypeOK, Passes, Statuses, Views, Ordinals, Known
<1>. QED BY <1>0, <1>1, ObjectStep, RewrittenKeeps DEF PatchFits

LEMMA NextInLineStep == IInv /\ [Next]_vars => NextInLine'
<1> SUFFICES ASSUME IInv, [Next]_vars PROVE NextInLine'
  OBVIOUS
<1>0. /\ TypeOK /\ Ordinals /\ Copies /\ NextInLine /\ StartFits /\ PatchFits
      /\ newest \in Nat /\ newest <= Len(walks) /\ object.status.job \in Stems
  BY DEF IInv, TypeOK, Objects, Statuses
<1>1. Awaits(newest)'
  <2>1. \A n \in Nat : n <= Len(walks) /\ Awaits(n) => Awaits(n)'
    BY AwaitsStep
  <2>2. CASE newest' = newest
    <3>1. \A n : n = newest => Awaits(n)'
      BY <1>0, <2>1 DEF NextInLine
    <3>. QED BY <2>2, <3>1 DEF Awaits, Within, Nth
  <2>3. CASE /\ newest' = pass.write.view.nth /\ newest' \in Nat /\ newest' <= Len(walks)
             /\ Publishing /\ Current
    <3>1. Awaits(pass.write.view.nth)
      BY <1>0, <2>3 DEF PatchFits
    <3>2. \A n : n = pass.write.view.nth => Awaits(n)'
      BY <2>1, <2>3, <3>1
    <3>. QED BY <2>3, <3>2 DEF Awaits, Within, Nth
  <2>. QED BY <2>2, <2>3, NewestStep
<1>2. ASSUME Requested(object)', Present(Asked)'
      PROVE  ~Live(Job(object.status.job))'
  <2>1. /\ Requested(object) /\ object'.status.job = object.status.job
        /\ Asked' = Asked /\ Asked \in Stem /\ object.request \in 1..MaxRequests
    BY <1>2, AskedBefore
  <2>2. PICK s \in Stems : s = object.status.job
    BY <1>0
  <2>3. Live(Job(object.status.job))' => s \in Stem /\ Live(jobs'[s])
    BY <2>1, <2>2 DEF Job, Live, Present, Stems, NoJob
  <2> SUFFICES ASSUME s \in Stem, Live(jobs'[s]) PROVE FALSE
    BY <2>3
  <2>4. CreateJob /\ WantedStem = Asked => Requested(pass.copy) /\ pass.copy.request = object.request
    <3> SUFFICES ASSUME CreateJob, WantedStem = Asked
                 PROVE  Requested(pass.copy) /\ pass.copy.request = object.request
      OBVIOUS
    <3>1. Starting
      BY CreateJobShape DEF Starting
    <3>. QED BY <1>0, <2>1, <3>1, WantedRequest DEF Asked
  <2>5. CreateJob => /\ pass.copy.request = object.request
                     /\ pass.copy.status.job = s
                     /\ s # WantedStem
    <3> SUFFICES ASSUME CreateJob
                 PROVE  /\ pass.copy.request = object.request
                        /\ pass.copy.status.job = s
                        /\ s # WantedStem
      OBVIOUS
    <3>1. Starting /\ pass.step # "none"
      BY CreateJobShape DEF Starting
    <3>2. pass.copy.request = object.request
      <4>1. CASE Present(Asked)
        <5>1. object.request <= pass.copy.request
          BY <1>0, <2>1, <3>1, <4>1 DEF Copies, Asked
        <5>2. pass.copy.request <= object.request /\ pass.copy.request \in Nat /\ object.request \in Nat
          BY <1>0, Constants DEF Copies, CopyFits, TypeOK, Passes, Objects
        <5>. QED BY <5>1, <5>2
      <4>2. CASE ~Present(Asked)
        <5>1. PICK t \in Stem : t = Asked
          BY <2>1
        <5>2. Present(t)' /\ ~Present(t)
          BY <1>2, <2>1, <4>2, <5>1 DEF Present
        <5>. QED BY <2>4, <5>1, <5>2, PresentBefore
      <4>. QED BY <4>1, <4>2
    <3>3. pass.copy.status.job = s
      BY <1>0, <2>1, <2>2, <3>2 DEF Copies, CopyFits
    <3>. QED BY <1>0, <3>1, <3>2, <3>3 DEF StartFits
  <2>6. Present(s) /\ Live(jobs[s])
    <3>1. CASE jobs'[s] = NewJob /\ CreateJob /\ s = WantedStem
      BY <2>5, <3>1
    <3>2. CASE Alike(jobs[s], jobs'[s]) \/ Live(jobs[s])
      <4>1. Live(jobs[s])
        BY <3>2 DEF Alike, Live
      <4>. QED BY <1>0, <4>1, JobShape DEF Live
    <3>3. jobs'[s] # NoJob
      BY DEF NoJob, Live
    <3>. QED BY <3>1, <3>2, <3>3, JobsStep DEF JobChange
  <2>7. CASE Present(Asked)
    BY <1>0, <2>1, <2>2, <2>6, <2>7 DEF NextInLine, Job
  <2>8. CASE ~Present(Asked)
    <3>1. PICK t \in Stem : t = Asked
      BY <2>1
    <3>2. Present(t)' /\ ~Present(t)
      BY <1>2, <2>1, <2>8, <3>1 DEF Present
    <3>3. CreateJob
      BY <3>2, PresentBefore
    <3>4. pass.copy.status.job = s /\ Starting
      BY <2>5, <3>3, CreateJobShape DEF Starting
    <3>. QED BY <1>0, <2>6, <3>4 DEF StartFits, Unfinished, Job
  <2>. QED BY <2>7, <2>8
<1>3. ASSUME Ended(Job(object.status.job))', Requested(object)', Present(Asked)'
      PROVE  Awaits(Job(object.status.job).walk.nth)'
  <2>1. /\ Requested(object) /\ object'.status.job = object.status.job
        /\ Asked' = Asked /\ Asked \in Stem
    BY <1>3, AskedBefore
  <2>2. PICK s \in Stems : s = object.status.job
    BY <1>0
  <2>3. s \in Stem /\ Ended(jobs'[s]) /\ Job(object.status.job)' = jobs'[s]
    BY <1>3, <2>1, <2>2 DEF Job, Ended, Present, Stems, NoJob
  <2>4. CASE Ended(jobs[s]) /\ jobs'[s].walk = jobs[s].walk
    <3>1. Present(s) /\ Job(object.status.job) = jobs[s]
      BY <1>0, <2>2, <2>3, <2>4, JobShape DEF Job, Ended
    <3>2. Awaits(Nth(s)) /\ Nth(s) \in Nat /\ Nth(s) <= Len(walks)
      BY <1>0, <2>3, <2>4, <3>1, JobShape DEF NextInLine, Nth
    <3>3. \A n : n = Nth(s) => Awaits(n)'
      BY <3>2, AwaitsStep
    <3>. QED BY <2>3, <2>4, <3>3 DEF Awaits, Within, Nth
  <2>5. CASE Live(jobs[s]) /\ JobMoves(s, jobs'[s])
    <3>1. Live(Job(object.status.job))
      BY <1>0, <2>2, <2>3, <2>5, JobShape DEF Job, Live
    <3>2. ~Present(Asked)
      BY <1>0, <2>1, <3>1 DEF NextInLine
    <3>3. PICK t \in Stem : t = Asked
      BY <2>1
    <3>4. Present(t)' /\ ~Present(t)
      BY <1>3, <2>1, <3>2, <3>3 DEF Present
    <3>5. CreateJob
      BY <3>4, PresentBefore
    <3>. QED BY <1>0, <2>5, <3>5, CreateJobShape DEF JobMoves, TypeOK, Passes
  <2>6. jobs'[s] # NoJob /\ jobs'[s] # NewJob
    <3>1. ~Ended(NoJob) /\ ~Ended(NewJob)
      BY DEF NoJob, NewJob, Ended
    <3>. QED BY <2>3, <3>1
  <2>7. Alike(jobs[s], jobs'[s]) => Ended(jobs[s]) /\ jobs'[s].walk = jobs[s].walk
    BY <2>3 DEF Alike, Ended
  <2>. QED BY <2>3, <2>4, <2>5, <2>6, <2>7, JobsStep DEF JobChange
<1>4. (Ended(Job(object.status.job)) => Awaits(Job(object.status.job).walk.nth))'
  BY <1>3 DEF Awaits
<1>. QED BY <1>1, <1>2, <1>4 DEF NextInLine

-----------------------------------------------------------------------------
(* What has been shown.                                                    *)

LEMMA UnshownStep == IInv /\ [Next]_vars => Unshown'
<1> DEFINE s == object'.status
<1> SUFFICES ASSUME IInv, [Next]_vars, s.job # NoStem, Within(object.status.job, newest)'
             PROVE  Ended(jobs'[s.job]) /\ Harvested(s, jobs'[s.job])
  BY DEF Unshown, Ended, Harvested
<1>0. /\ TypeOK /\ Ordinals /\ Clock /\ Unshown /\ PatchFits /\ StartFits /\ TypeOK'
      /\ newest \in Nat /\ newest <= Len(walks)
  BY TypeStep DEF IInv, TypeOK
<1>1. PICK t \in Stem : t = s.job
  BY <1>0 DEF TypeOK, Objects, Statuses, Stems
<1>2. ASSUME NEW n, n = newest', n <= Len(walks), n \in Nat
      PROVE  Within(t, n) /\ Present(t)
  <2>1. Within(t, n)'
    BY <1>1, <1>2 DEF Within, Nth
  <2>. QED BY <1>2, <2>1, WithinStep
<1>3. CASE /\ newest' = newest /\ s.job = object.status.job /\ s.finished = object.status.finished
  <2>1. Within(t, newest)
    BY <1>0, <1>2, <1>3
  <2>2. Ended(jobs[t]) /\ Harvested(object.status, jobs[t])
    BY <1>0, <1>1, <1>3, <2>1 DEF Unshown
  <2>3. CASE Alike(jobs[t], jobs'[t])
    BY <1>1, <1>3, <2>2, <2>3 DEF Alike, Ended, Harvested
  <2>4. jobs'[t] # NoJob
    <3>1. NoJob.walk.nth = 0
      BY DEF NoJob, NewWalk
    <3>. QED BY <1>1, <3>1 DEF Within, Nth
  <2>5. ~Live(jobs[t]) /\ Present(t)
    BY <1>0, <2>2, JobShape DEF Live, Ended
  <2>. QED BY <2>3, <2>4, <2>5, JobsStep DEF JobChange
<1>4. CASE Rewritten
  <2>1. jobs' = jobs
    BY <1>4 DEF Rewritten
  <2>2. CASE s = Kept /\ cache = object /\ pass.step = "none"
    <3>1. s.job = object.status.job /\ s.finished = object.status.finished /\ ~Publishing
      BY <1>0, <2>2, PassTypes DEF Publishing
    <3>. QED BY <1>3, <1>4, <3>1, RewrittenKeeps
  <2>3. CASE /\ s = [Kept EXCEPT !.finished = FinishedAt(Tracked, now)]
             /\ cache = object /\ Ended(Tracked)
    <3>1. Kept \in Statuses /\ Kept.job = object.status.job
      BY <1>0, <2>3, PassTypes
    <3>2. s.finished = FinishedAt(Tracked, now) /\ s.job = object.status.job
      BY <2>3, <3>1 DEF Statuses
    <3>3. FinishedAt(Tracked, now) \in Nat /\ Tracked = jobs[t]
      BY <1>0, <1>1, <2>3, <3>2, FinishedType
    <3>. QED BY <1>1, <2>1, <2>3, <3>2, <3>3 DEF Harvested, FinishedAt, None
  <2>4. CASE s = pass.write /\ pass.step = "patch" /\ Current
    <3>1. CASE Publishing
      <4>1. newest' = pass.write.view.nth /\ newest' \in Nat /\ newest' <= Len(walks)
        <5>1. pass.write.view.nth \in Nat /\ pass.write.view.nth <= Len(walks)
          BY <1>0 DEF TypeOK, Passes, Statuses, Views, Ordinals, Known
        <5>. QED BY <1>4, <2>4, <3>1, <5>1, RewrittenKeeps
      <4>2. Present(t)
        BY <1>2, <4>1
      <4>. QED BY <1>0, <1>1, <2>1, <2>4, <3>1, <4>2 DEF PatchFits
    <3>2. CASE ~Publishing /\ ~Starting
      BY <1>0, <1>3, <1>4, <2>4, <3>2, RewrittenKeeps DEF PatchFits, Current
    <3>3. CASE Starting /\ ~Publishing
      <4>1. newest' = newest /\ t = WantedStem
        BY <1>1, <1>4, <3>3, RewrittenKeeps
      <4>2. ~Within(t, newest)
        BY <1>0, <2>4, <3>3, <4>1 DEF StartFits
      <4>. QED BY <1>0, <1>2, <4>1, <4>2
    <3>. QED BY <1>4, <3>1, <3>2, <3>3, RewrittenKeeps
  <2>. QED BY <1>4, <2>2, <2>3, <2>4 DEF Rewritten
<1>. QED BY <1>3, <1>4, ObjectStep

\* What is known of a finish grows with each harvest.
LEMMA FinishGrows ==
  ASSUME TypeOK, Ordinals, Clock, FinishFits(cache.status), Ended(Tracked),
         cache.status.finished # None
  PROVE  /\ cache.status.finished \in Nat
         /\ cache.status.finished <= FinishedAt(Tracked, now)
<1>1. cache.status.finished \in Nat /\ cache.status.finished <= now
  BY DEF TypeOK, Objects, Statuses, Instant, Clock, Known
<1>2. Tracked.end \in Nat /\ Present(cache.status.job) /\ Tracked = jobs[cache.status.job]
  BY FinishedType
<1>3. Since(Tracked) = Tracked.end
  BY DEF Since
<1>4. Tracked.end >= cache.status.finished \/ ~Tracked.stamped
  BY <1>2, <1>3 DEF FinishFits
<1>. QED BY <1>1, <1>2, <1>4 DEF FinishedAt

LEMMA SpentSlotsStep == IInv /\ [Next]_vars => SpentSlots'
<1> DEFINE s == object'.status
<1> SUFFICES ASSUME IInv, [Next]_vars PROVE SpentSlots'
  OBVIOUS
<1>a. interval' = interval
  BY TimeStep DEF IInv
<1> SUFFICES ASSUME NEW k \in 0..Horizon, Within(<<"slot", k>>, newest)'
             PROVE  \/ k < Slot(now')
                    \/ s.finished # None /\ k <= Slot(s.finished)
                    \/ /\ s.finished = None /\ s.job # NoStem /\ jobs'[s.job].state # "gone"
                       /\ k <= Slot(Since(jobs'[s.job]))
  BY <1>a DEF SpentSlots, Passed, Present, Since, Ended, Slot
<1>0. /\ TypeOK /\ Ordinals /\ Clock /\ SlotJobs /\ SpentSlots /\ PatchFits /\ StartFits /\ TypeOK'
      /\ NextInLine /\ interval' = interval
      /\ newest \in Nat /\ newest <= Len(walks) /\ now \in Nat /\ now' \in Nat /\ now <= now'
      /\ object.status \in Statuses /\ object.status.job \in Stems /\ interval \in Nat
  <2>1. /\ TypeOK /\ Ordinals /\ Clock /\ SlotJobs /\ SpentSlots /\ PatchFits /\ StartFits
        /\ NextInLine
    BY DEF IInv
  <2>2. TypeOK' /\ now \in Nat /\ now' \in Nat /\ now <= now'
    BY TypeStep, NowGrows
  <2>3. newest \in Nat /\ newest <= Len(walks) /\ object.status \in Statuses
        /\ object.status.job \in Stems /\ interval \in Nat
    BY <2>1 DEF TypeOK, Objects, Statuses
  <2>. QED BY <1>a, <2>1, <2>2, <2>3
<1> DEFINE x == <<"slot", k>>
<1>1. ASSUME NEW n, n = newest', n <= Len(walks), n \in Nat
      PROVE  Within(x, n) /\ Present(x)
  <2>1. Within(x, n)'
    BY <1>1 DEF Within, Nth
  <2>. QED BY <1>1, <2>1, WithinStep, SlotStem
<1>2. newest' = newest => Within(x, newest) /\ Present(x) /\ Passed(k)
  <2> SUFFICES ASSUME newest' = newest PROVE Within(x, newest) /\ Present(x) /\ Passed(k)
    OBVIOUS
  <2>1. Within(x, newest) /\ Present(x)
    BY <1>0, <1>1
  <2>. QED BY <1>0, <2>1 DEF SpentSlots
<1>3. Present(x) => /\ interval > 0 /\ k \in Nat
                    /\ \A u, v \in Nat : u <= v => Slot(u) <= Slot(v)
                    /\ \A u \in Nat : Slot(u) \in Nat
  <2>1. \A u \in Nat : u <= u
    OBVIOUS
  <2>. QED BY <1>0, <2>1, SlotOrder
<1>4. CASE /\ newest' = newest /\ s.job = object.status.job /\ s.finished = object.status.finished
  <2>0. Present(x) /\ Passed(k)
    BY <1>2, <1>4
  <2>1. CASE k < Slot(now)
    <3>1. Slot(now) <= Slot(now') /\ Slot(now) \in Nat /\ Slot(now') \in Nat /\ k \in Nat
      BY <1>0, <1>3, <2>0
    <3>. QED BY <2>1, <3>1
  <2>2. CASE object.status.finished # None /\ k <= Slot(object.status.finished)
    BY <1>4, <2>2
  <2>3. CASE /\ object.status.finished = None /\ Present(object.status.job)
             /\ k <= Slot(Since(jobs[object.status.job]))
    <3>1. PICK t \in Stem : t = object.status.job
      BY <1>0, <2>3 DEF Present, Stems
    <3>2. CASE Present(t)'
      <4>1. Since(jobs[t]) <= Since(jobs'[t]) /\ Since(jobs[t]) \in Nat /\ Since(jobs'[t]) \in Nat
        BY <2>3, <3>1, <3>2, SinceStep
      <4>2. Slot(Since(jobs[t])) <= Slot(Since(jobs'[t])) /\ Slot(Since(jobs[t])) \in Nat
            /\ Slot(Since(jobs'[t])) \in Nat
        BY <1>3, <2>0, <4>1
      <4>3. s.job # NoStem /\ jobs'[s.job].state # "gone"
        BY <1>4, <3>1, <3>2, PresentStep, Constants
      <4>. QED BY <1>3, <1>4, <2>0, <2>3, <3>1, <4>2, <4>3
    <3>3. CASE ~Present(t)'
      <4>1. jobs'[t].state = "gone" /\ jobs[t].state # "gone"
        BY <1>0, <2>3, <3>1, <3>3, PresentStep, JobShape
      <4>2. Ended(jobs[t]) /\ now >= jobs[t].end + Ttl
        BY <2>3, <3>1, <4>1, JobsStep DEF JobChange, Alike, JobMoves
      <4>3. Since(jobs[t]) = jobs[t].end /\ jobs[t].end \in Nat
        BY <1>0, <2>3, <3>1, <4>2, JobShape DEF Since
      <4>4. jobs[t].end + interval <= now
        BY <1>0, <4>2, <4>3, TtlType
      <4>5. Slot(jobs[t].end) < Slot(now)
        BY <1>0, <1>3, <2>0, <4>3, <4>4, SlotLater
      <4>6. Slot(jobs[t].end) \in Nat /\ Slot(now) <= Slot(now') /\ Slot(now) \in Nat /\ Slot(now') \in Nat
        BY <1>0, <1>3, <2>0, <4>3
      <4>. QED BY <1>3, <2>0, <2>3, <3>1, <4>3, <4>5, <4>6
    <3>. QED BY <3>2, <3>3
  <2>. QED BY <2>0, <2>1, <2>2, <2>3 DEF Passed
<1>5. CASE Rewritten
  <2>1. jobs' = jobs /\ now' = now
    BY <1>5 DEF Rewritten
  <2>2. CASE s = Kept /\ cache = object /\ pass.step = "none"
    <3>1. s.job = object.status.job /\ s.finished = object.status.finished /\ ~Publishing
      BY <1>0, <2>2, PassTypes DEF Publishing
    <3>. QED BY <1>4, <1>5, <3>1, RewrittenKeeps
  <2>3. CASE /\ s = [Kept EXCEPT !.finished = FinishedAt(Tracked, now)]
             /\ cache = object /\ Ended(Tracked) /\ pass.step = "none"
    <3>1. newest' = newest
      BY <1>5, <2>3, RewrittenKeeps DEF Publishing
    <3>2. s.finished = FinishedAt(Tracked, now)
      BY <1>0, <2>3, PassTypes DEF Statuses
    <3>3. /\ FinishedAt(Tracked, now) \in Nat /\ Tracked.end <= FinishedAt(Tracked, now)
          /\ Tracked.end \in Nat /\ Tracked = jobs[object.status.job]
      BY <1>0, <2>3, FinishedType
    <3>4. Since(Tracked) = Tracked.end
      BY <2>3 DEF Since
    <3>5. s.finished # None
      BY <3>2, <3>3 DEF None
    <3>6. Present(x) /\ Passed(k)
      BY <1>2, <3>1
    <3>7. CASE object.status.finished # None /\ k <= Slot(object.status.finished)
      <4>1. object.status.finished \in Nat /\ object.status.finished <= s.finished
        BY <1>0, <2>3, <3>2, <3>7, FinishGrows DEF IInv, Known
      <4>. QED BY <1>3, <3>2, <3>3, <3>5, <3>6, <3>7, <4>1
    <3>8. CASE k <= Slot(Since(jobs[object.status.job]))
      BY <1>3, <3>2, <3>3, <3>4, <3>5, <3>6, <3>8
    <3>. QED BY <2>1, <3>6, <3>7, <3>8 DEF Passed
  <2>4. CASE s = pass.write /\ pass.step = "patch" /\ Current
    <3>1. CASE Publishing
      <4>1. pass.write.view.nth \in Nat /\ pass.write.view.nth <= Len(walks)
        BY <1>0 DEF TypeOK, Passes, Statuses, Views, Ordinals, Known
      <4>2. Within(x, pass.write.view.nth)
        BY <1>1, <1>5, <2>4, <3>1, <4>1, RewrittenKeeps
      <4>. QED BY <1>0, <2>4, <3>1, <4>2 DEF PatchFits, SlotsBehind
    <3>2. CASE ~Publishing /\ ~Starting
      BY <1>0, <1>4, <1>5, <2>4, <3>2, RewrittenKeeps DEF PatchFits, Current
    <3>3. CASE Starting /\ ~Publishing
      <4>0. newest' = newest /\ s.finished = None /\ s.job = WantedStem /\ pass.copy = object
        BY <1>5, <3>3, RewrittenKeeps DEF Current
      <4>1. Within(x, newest) /\ Present(x) /\ Passed(k)
        BY <1>2, <4>0
      <4>2. WantedStem \in Stem /\ WantedStem # NoStem
        BY <1>0, <3>3, Constants DEF StartFits
      <4>3. CASE Requested(object)
        <5>1. WantedStem = Asked
          BY <4>0, <4>3 DEF WantedStem, TriggerStem, Asked
        <5>2. CASE Present(Asked)
          BY <1>0, <2>1, <4>0, <4>1, <4>2, <4>3, <5>1, <5>2 DEF NextInLine, Awaits, Present
        <5>3. CASE ~Present(Asked)
          BY <1>0, <2>1, <2>4, <3>3, <4>0, <4>1, <4>3, <5>1, <5>3 DEF StartFits
        <5>. QED BY <5>2, <5>3
      <4>4. CASE ~Requested(object)
        <5>1. /\ pass.now \in 0..Horizon /\ pass.now \in Nat /\ pass.now <= now
              /\ ~SlotServed(object.status, pass.now)
          BY <1>0, <3>3, <4>0, <4>4, Constants DEF StartFits, Triggered, TypeOK, Passes, Clock
        <5>2. Slot(pass.now) <= Slot(now) /\ Slot(pass.now) \in Nat /\ Slot(now) \in Nat
          BY <1>0, <1>3, <4>1, <5>1
        <5>3. CASE object.status.finished # None /\ k <= Slot(object.status.finished)
          <6>1. object.status.finished \in Nat
            BY <1>0, <5>3 DEF Statuses, Instant
          <6>2. Slot(object.status.finished) < Slot(pass.now) /\ Slot(object.status.finished) \in Nat
            BY <1>3, <4>1, <5>1, <5>2, <5>3, <6>1 DEF SlotServed
          <6>. QED BY <1>3, <2>1, <4>1, <5>2, <5>3, <6>2
        <5>4. CASE object.status.finished = None /\ Present(object.status.job)
          <6>1. ~Live(jobs[object.status.job])
                /\ (Ended(jobs[object.status.job]) => Harvested(object.status, jobs[object.status.job]))
            BY <1>0, <3>3, <4>0, <5>4 DEF StartFits, Unfinished, Job
          <6>2. jobs[object.status.job] \in Jobs
            BY <1>0, <5>4 DEF Present, Stems, TypeOK
          <6>. QED BY <5>4, <6>1, <6>2 DEF Harvested, Live, Ended, Present, Jobs
        <5>. QED BY <2>1, <4>1, <5>3, <5>4 DEF Passed
      <4>. QED BY <4>3, <4>4
    <3>. QED BY <1>5, <3>1, <3>2, <3>3, RewrittenKeeps
  <2>. QED BY <1>5, <2>2, <2>3, <2>4 DEF Rewritten
<1>. QED BY <1>4, <1>5, ObjectStep

-----------------------------------------------------------------------------
(* The pass.                                                               *)

\* A Job there whose result has been read: a sync that is over.
LEMMA SyncOver ==
  ASSUME TypeOK, NEW s \in Statuses, Present(s.job), ~Unfinished(s)
  PROVE  s.finished # None
<1>1. s.job \in Stem /\ jobs[s.job] \in Jobs /\ Job(s.job) = jobs[s.job]
  BY DEF Present, Statuses, Stems, TypeOK, Job
<1>. QED BY <1>1 DEF Unfinished, Harvested, Live, Ended, Present, Jobs

\* The Job of a due trigger has not been shown.
LEMMA DueIsNew ==
  ASSUME IInv, Due, ~Live(Tracked), ~Unread, cache = object
  PROVE  ~Within(TriggerStem(cache, now), newest)
<1> DEFINE w == TriggerStem(cache, now)
<1>0. /\ TypeOK /\ Ordinals /\ SpentSlots /\ NextInLine /\ interval \in Nat /\ cache \in Objects
      /\ now \in 0..Horizon /\ Triggered(cache, now) /\ now \in Nat /\ object.status \in Statuses
  BY Constants DEF IInv, TypeOK, Due, Objects
<1>1. w \in Stem
  BY <1>0, TriggerType
<1>2. CASE Requested(cache)
  <2>1. w = Asked
    BY <1>2 DEF TriggerStem, Asked
  <2>2. Present(w) => ~Within(w, newest)
    BY <1>0, <1>2, <2>1 DEF NextInLine, Awaits
  <2>3. ~Present(w) => ~Within(w, newest)
    BY <1>0, <1>1, JobShape DEF Within
  <2>. QED BY <2>2, <2>3
<1>3. CASE ~Requested(cache)
  <2>1. interval > 0 /\ w = <<"slot", Slot(now)>> /\ Slot(now) \in 0..Horizon
        /\ ~SlotServed(object.status, now)
    BY <1>0, <1>3, TriggerType
  <2> SUFFICES ASSUME Within(w, newest) PROVE FALSE
    OBVIOUS
  <2>2. Passed(Slot(now)) /\ Slot(now) \in Nat
    BY <1>0, <2>1, SlotType DEF SpentSlots
  <2>3. CASE object.status.finished # None /\ Slot(now) <= Slot(object.status.finished)
    <3>1. object.status.finished \in Nat
      BY <1>0, <2>3 DEF Statuses, Instant
    <3>2. Slot(object.status.finished) \in Nat
      BY <1>0, <2>1, <3>1, SlotType
    <3>. QED BY <2>1, <2>2, <2>3, <3>2 DEF SlotServed
  <2>4. CASE object.status.finished = None /\ Present(object.status.job)
    <3>1. ~Unfinished(object.status)
      BY PassTypes, <1>0 DEF Unread, Unfinished
    <3>. QED BY <1>0, <2>4, <3>1, SyncOver
  <2>. QED BY <2>2, <2>3, <2>4 DEF Passed
<1>. QED BY <1>2, <1>3

\* A tracked Job that is over stays so while another Job is made or planned.
LEMMA OverStill ==
  ASSUME IInv, [Next]_vars, NEW s \in Statuses, ~Unfinished(s),
         \/ UNCHANGED pass
         \/ CreateJob /\ s.job # WantedStem
         \/ EnsurePlan
  PROVE  ~Unfinished(s)'
<1>0. TypeOK /\ Ordinals
  BY DEF IInv
<1>1. CASE s.job \in Stem
  <2> DEFINE t == s.job
  <2>1. Present(t)' <=> jobs'[t].state # "gone"
    BY <1>1, PresentStep
  <2>2. Present(t) <=> jobs[t].state # "gone"
    BY <1>0, <1>1, JobShape
  <2>3. ~Live(jobs[t]) /\ (Ended(jobs[t]) => Harvested(s, jobs[t]))
    BY <2>2 DEF Unfinished, Job, Live, Ended
  <2>4. Alike(jobs[t], jobs'[t]) \/ jobs'[t] = NoJob
    <3>1. CASE UNCHANGED pass
      BY <1>1, <2>3, <3>1, RestingJobs DEF Alike
    <3>2. CASE EnsurePlan
      BY <1>1, <3>2, PagesAlike
    <3>3. CASE CreateJob /\ s.job # WantedStem
      <4>1. jobs'[t] = jobs[t]
        BY <1>0, <1>1, <3>3, CreateJobShape DEF TypeOK
      <4>. QED BY <4>1 DEF Alike
    <3>. QED BY <3>1, <3>2, <3>3
  <2>5. ~Live(jobs'[t]) /\ (Ended(jobs'[t]) => Harvested(s, jobs'[t]))
    BY <2>3, <2>4 DEF Alike, Live, Ended, Harvested, NoJob
  <2>6. ~Live(NoJob) /\ ~Ended(NoJob)
    BY DEF Live, Ended, NoJob
  <2>. QED BY <2>5, <2>6 DEF Unfinished, Job, Live, Ended, Harvested
<1>2. CASE s.job = NoStem
  BY <1>2 DEF Unfinished, Job, Present, Live, Ended, NoJob
<1>. QED BY <1>1, <1>2 DEF Statuses, Stems

\* A pass that starts a sync wants a Job that was not shown, through the calls it makes.
LEMMA StartFitsStep == IInv /\ [Next]_vars => StartFits'
<1> SUFFICES ASSUME IInv, [Next]_vars, Starting' PROVE StartFits'
  BY DEF StartFits
<1>0. /\ TypeOK /\ Ordinals /\ Clock /\ SlotJobs /\ StartFits /\ NextInLine /\ TypeOK'
      /\ interval' = interval /\ pass \in Passes /\ pass' \in Passes
      /\ newest \in Nat /\ newest <= Len(walks) /\ interval \in Nat
      /\ pass.copy \in Objects /\ pass.copy.status \in Statuses /\ cache \in Objects
      /\ now \in 0..Horizon /\ cache.status \in Statuses
  <2>1. TypeOK /\ Ordinals /\ Clock /\ SlotJobs /\ StartFits /\ NextInLine /\ interval' = interval
    BY TimeStep DEF IInv
  <2>2. TypeOK'
    BY TypeStep
  <2>3. /\ pass \in Passes /\ cache \in Objects /\ newest \in Nat /\ newest <= Len(walks)
        /\ interval \in Nat /\ now \in 0..Horizon
    BY <2>1 DEF TypeOK
  <2>4. pass' \in Passes
    BY <2>2 DEF TypeOK
  <2>5. pass.copy \in Objects
    BY <2>3 DEF Passes
  <2>6. pass.copy.status \in Statuses /\ cache.status \in Statuses
    BY <2>3, <2>5 DEF Objects
  <2>. QED BY <2>1, <2>2, <2>3, <2>4, <2>5, <2>6
<1>a. now \in Nat /\ now' \in Nat /\ now <= now'
  BY NowGrows
\* A pass that keeps its copy wants the same Job.
<1> DEFINE Kind == /\ pass'.copy = pass.copy /\ pass'.now = pass.now
                   /\ Starting
<1>1. Kind => /\ WantedStem' = WantedStem /\ WantedStem \in Stem
              /\ WantedStem # pass.copy.status.job
              /\ Triggered(pass.copy, pass.now)'
              /\ ~Unfinished(pass.copy.status)
  BY <1>0 DEF StartFits, WantedStem, TriggerStem, Triggered, Requested, SlotServed, Slot
<1>2. ASSUME NEW t \in Stem, NEW n, n = newest, ~Within(t, n)
      PROVE  ~Within(t, n)'
  BY <1>0, <1>2, WithinStep
<1>3. CASE UNCHANGED pass
  <2>1. Starting
    BY <1>3 DEF Starting
  <2>2. Kind
    BY <1>3, <2>1
  <2>3. ~Unfinished(pass.copy.status)'
    <3>1. PICK s \in Statuses : s = pass.copy.status
      BY <1>0
    <3>2. ~Unfinished(s)'
      BY <1>1, <1>3, <2>2, <3>1, OverStill
    <3>. QED BY <1>3, <3>1, <3>2 DEF Unfinished, Harvested, Job, Present
  <2>4. ASSUME Current'
        PROVE  /\ ~Within(WantedStem, newest)'
               /\ pass'.step # "create" /\ Requested(pass.copy)' /\ ~Present(WantedStem)'
                    => \A k \in 0..Horizon : Within(<<"slot", k>>, newest)' => k < Slot(now')
    <3>1. Current /\ newest' = newest /\ pass.copy = object
      BY <1>3, <2>1, <2>4, CurrentStep DEF Current, Starting
    <3>2. PICK t \in Stem : t = WantedStem
      BY <1>1, <2>2
    <3>3. ~Within(t, newest)
      BY <1>0, <2>1, <3>1, <3>2 DEF StartFits
    <3>4. ~Within(WantedStem, newest)'
      <4>1. \A n : n = newest => ~Within(t, n)'
        BY <1>2, <3>3
      <4>. QED BY <1>1, <2>2, <3>1, <3>2, <4>1 DEF Within, Nth
    <3>5. ASSUME pass.step # "create", Requested(pass.copy), ~Present(WantedStem)',
                 NEW k \in 0..Horizon, Within(<<"slot", k>>, newest)'
          PROVE  k < Slot(now')
      <4>1. Within(<<"slot", k>>, newest) /\ Present(<<"slot", k>>)
        <5>1. \A n : n = newest => Within(<<"slot", k>>, n)'
          BY <3>1, <3>5 DEF Within, Nth
        <5>. QED BY <1>0, <5>1, WithinStep, SlotStem
      <4>2. /\ interval > 0 /\ k \in Nat
            /\ Slot(now) <= Slot(now') /\ Slot(now) \in Nat /\ Slot(now') \in Nat
        BY <1>0, <1>a, <4>1, SlotOrder
      <4>3. CASE ~Present(t)
        <5>1. k < Slot(now)
          BY <1>0, <2>1, <3>1, <3>2, <3>5, <4>1, <4>3 DEF StartFits
        <5>. QED BY <4>2, <5>1
      <4>4. CASE Present(t)
        <5>1. ~Present(t)'
          BY <1>1, <2>2, <3>2, <3>5 DEF Present
        <5>2. jobs'[t].state = "gone" /\ jobs[t].state # "gone"
          BY <1>0, <4>4, <5>1, PresentStep, JobShape
        <5>3. Ended(jobs[t]) /\ now >= jobs[t].end + Ttl
          BY <5>2, JobsStep DEF JobChange, Alike, JobMoves, NewJob, NoJob
        <5>4. Since(jobs[t]) = jobs[t].end /\ jobs[t].end \in Nat
          BY <1>0, <4>4, <5>3, JobShape DEF Since
        <5>5. jobs[t].end + interval <= now
          BY <1>0, <1>a, <5>3, <5>4, TtlType
        <5>6. Slot(jobs[t].end) < Slot(now)
          BY <1>0, <1>a, <4>2, <5>4, <5>5, SlotLater
        <5>7. Slot(jobs[t].end) \in Nat
          <6>1. ASSUME NEW u \in Nat PROVE Slot(u) \in Nat
            <7>1. interval \in Nat /\ interval > 0
              BY <1>0, <4>2
            <7>2. Slot(u) \in 0..u
              BY <7>1, SlotType
            <7>. QED BY <7>2
          <6>. QED BY <5>4, <6>1
        <5>8. t = Asked
          BY <3>1, <3>2, <3>5 DEF WantedStem, TriggerStem, Asked
        <5>9. k < Slot(now) \/ k <= Slot(jobs[t].end)
          BY <1>0, <3>1, <3>5, <4>1, <4>4, <5>4, <5>8 DEF NextInLine, Awaits
        <5>. QED BY <4>2, <5>6, <5>7, <5>9
      <4>. QED BY <4>3, <4>4
    <3>. QED BY <1>3, <3>4, <3>5 DEF Requested
  <2>5. pass.step = "patch" => /\ pass.write.job = WantedStem
                               /\ pass.write.finished = None
                               /\ pass.write.observed = IF Requested(pass.copy) THEN pass.copy.request
                                                        ELSE pass.copy.status.observed
    BY <1>0, <2>1 DEF StartFits
  <2>. QED BY <1>0, <1>1, <1>3, <2>2, <2>3, <2>4, <2>5 DEF StartFits, Requested, Slot
<1>4. CASE StartSync
  <2>1. /\ pass'.copy = cache /\ pass'.now = now /\ pass'.step = "create"
        /\ UNCHANGED <<object, newest, jobs, now>> /\ Due /\ ~Live(Tracked) /\ ~Unread
    BY <1>4, StartSyncShape DEF At, Still
  <2>2. WantedStem' = TriggerStem(cache, now)
    BY <1>0, <2>1 DEF WantedStem, TriggerStem, Requested, Slot
  <2>3. TriggerStem(cache, now) \in Stem /\ TriggerStem(cache, now) # cache.status.job
        /\ Triggered(cache, now)
    BY <1>0, <2>1, TriggerType DEF Due
  <2>4. ~Unfinished(cache.status)
    BY <1>0, <2>1, PassTypes DEF Unread, Unfinished
  <2>5. ~Unfinished(pass.copy.status)'
    BY <2>1, <2>4 DEF Unfinished, Job, Present, Live, Ended, Harvested
  <2>6. Triggered(pass.copy, pass.now)'
    BY <1>0, <2>1, <2>3 DEF Triggered, Requested, SlotServed, Slot
  <2>7. Current' => ~Within(WantedStem, newest)'
    <3>1. Current' => cache = object
      BY <2>1 DEF Current
    <3>2. cache = object => ~Within(TriggerStem(cache, now), newest)
      BY <2>1, DueIsNew
    <3>. QED BY <2>1, <2>2, <3>1, <3>2 DEF Within, Nth
  <2>. QED BY <2>1, <2>2, <2>3, <2>5, <2>6, <2>7 DEF StartFits
<1>5. CASE CreateJob
  <2>1. /\ pass'.copy = pass.copy /\ pass'.now = pass.now /\ pass'.step = "plan"
        /\ UNCHANGED <<object, newest>> /\ Starting
        /\ jobs' = IF Present(WantedStem) THEN jobs ELSE [jobs EXCEPT ![WantedStem] = NewJob]
    BY <1>0, <1>5, CreateJobShape DEF Passes, Starting
  <2>2. Kind
    BY <2>1
  <2>3. ~Unfinished(pass.copy.status)'
    <3>1. PICK s \in Statuses : s = pass.copy.status
      BY <1>0
    <3>2. ~Unfinished(s)'
      BY <1>1, <1>5, <2>2, <3>1, OverStill
    <3>. QED BY <2>1, <3>1, <3>2 DEF Unfinished, Harvested, Job, Present
  <2>4. PICK t \in Stem : t = WantedStem
    BY <1>1, <2>2
  <2>5. Current' => ~Within(WantedStem, newest)'
    <3>1. Current' => ~Within(t, newest)
      BY <1>0, <2>1, <2>4 DEF Current, StartFits
    <3>2. Current' => \A n : n = newest => ~Within(t, n)'
      BY <1>2, <3>1
    <3>. QED BY <1>1, <2>1, <2>2, <2>4, <3>2 DEF Within, Nth
  <2>6. Present(WantedStem)'
    <3>1. NewJob.state = "pending" /\ jobs \in [Stem -> Jobs]
      BY <1>0 DEF NewJob, NoJob, TypeOK
    <3>2. jobs'[t].state # "gone"
      BY <2>1, <2>4, <3>1 DEF Present
    <3>3. Present(t)'
      BY <3>2, PresentStep
    <3>. QED BY <1>1, <2>2, <2>4, <3>3 DEF Present
  <2>. QED BY <1>1, <2>1, <2>2, <2>3, <2>5, <2>6 DEF StartFits
<1>6. CASE EnsurePlan
  <2> DEFINE kept == Tidy(pass.copy.status, pass.present, pass.now)
  <2>1. /\ pass'.copy = pass.copy /\ pass'.now = pass.now /\ pass'.step = "patch"
        /\ UNCHANGED <<object, newest, now>> /\ Starting /\ pass.step = "plan"
        /\ pass'.write = kept \/ pass'.write = Started(kept, WantedStem)
    BY <1>0, <1>6, EnsurePlanShape DEF Passes, Starting, Still
  <2>2. Kind
    BY <2>1
  <2>3. kept \in Statuses /\ kept.job = pass.copy.status.job
        /\ kept.observed = pass.copy.status.observed
    <3>1. pass.present \in BOOLEAN /\ pass.now \in Nat
      BY <1>0, Constants DEF Passes
    <3>. QED BY <1>0, <3>1, TidyType
  <2>4. pass'.write = Started(kept, WantedStem)
    BY <2>1, <2>3 DEF Starting
  <2>5. /\ pass'.write.job = WantedStem /\ pass'.write.finished = None
        /\ pass'.write.observed = IF WantedStem[1] = "request" THEN WantedStem[2]
                                  ELSE pass.copy.status.observed
    BY <1>1, <2>2, <2>3, <2>4, StartedType
  <2>6. pass'.write.observed = IF Requested(pass.copy) THEN pass.copy.request
                               ELSE pass.copy.status.observed
    BY <2>5 DEF WantedStem, TriggerStem
  <2>7. ~Unfinished(pass.copy.status)'
    <3>1. PICK s \in Statuses : s = pass.copy.status
      BY <1>0
    <3>2. ~Unfinished(s)'
      BY <1>1, <1>6, <2>2, <3>1, OverStill
    <3>. QED BY <2>1, <3>1, <3>2 DEF Unfinished, Harvested, Job, Present
  <2>8. PICK t \in Stem : t = WantedStem
    BY <1>1, <2>2
  <2>9. ASSUME Current'
        PROVE  /\ ~Within(WantedStem, newest)'
               /\ Requested(pass.copy)' /\ ~Present(WantedStem)'
                    => \A k \in 0..Horizon : Within(<<"slot", k>>, newest)' => k < Slot(now')
    <3>1. Current
      BY <2>1, <2>9 DEF Current
    <3>2. ~Within(WantedStem, newest)'
      <4>1. ~Within(t, newest)
        BY <1>0, <2>1, <2>8, <3>1 DEF StartFits
      <4>2. \A n : n = newest => ~Within(t, n)'
        BY <1>2, <4>1
      <4>. QED BY <1>1, <2>1, <2>2, <2>8, <4>2 DEF Within, Nth
    <3>3. ASSUME Requested(pass.copy), ~Present(WantedStem)',
                 NEW k \in 0..Horizon, Within(<<"slot", k>>, newest)'
          PROVE  k < Slot(now')
      <4>1. Within(<<"slot", k>>, newest)
        <5>1. \A n : n = newest => Within(<<"slot", k>>, n)'
          BY <2>1, <3>3 DEF Within, Nth
        <5>. QED BY <1>0, <5>1, WithinStep, SlotStem
      <4>2. ~Present(t)
        <5>1. ~Present(t)'
          BY <1>1, <2>2, <2>8, <3>3 DEF Present
        <5>2. Alike(jobs[t], jobs'[t])
          BY <1>6, PagesAlike
        <5>. QED BY <1>0, <5>1, <5>2, PresentStep, JobShape DEF Alike
      <4>3. k < Slot(now)
        BY <1>0, <2>1, <2>8, <3>1, <3>3, <4>1, <4>2 DEF StartFits
      <4>. QED BY <2>1, <4>3
    <3>. QED BY <2>1, <3>2, <3>3 DEF Requested
  <2>. QED BY <1>0, <1>1, <2>1, <2>2, <2>5, <2>6, <2>7, <2>9 DEF StartFits, Requested, Slot
<1>7. ~Harvest /\ pass' # NoPass
  <2>1. Harvest => pass'.step = "pages"
    BY HarvestShape DEF At
  <2>2. NoPass.step = "none"
    BY DEF NoPass
  <2>. QED BY <2>1, <2>2 DEF Starting
<1>8. ~WritePages
  <2> SUFFICES ASSUME WritePages PROVE FALSE
    OBVIOUS
  <2>1. /\ pass'.copy = pass.copy /\ pass'.step = "patch"
        /\ pass'.write = Tidy(pass.copy.status, pass.present, pass.now) \/ pass'.write = PublishedNow
    BY <1>0, WritePagesShape DEF Passes, PublishedNow
  <2>2. pass.present \in BOOLEAN /\ pass.now \in Nat
    BY <1>0, Constants DEF Passes
  <2>3. pass'.write.job = pass.copy.status.job
    <3>1. Tidy(pass.copy.status, pass.present, pass.now).job = pass.copy.status.job
      BY <1>0, <2>2, TidyType
    <3>2. PublishedNow.job = pass.copy.status.job
      BY <1>0, PublishedFields DEF PublishedNow
    <3>. QED BY <2>1, <3>1, <3>2
  <2>. QED BY <2>1, <2>3 DEF Starting
<1>. QED BY <1>0, <1>3, <1>4, <1>5, <1>6, <1>7, <1>8, PassStep

LEMMA PagesFitStep == IInv /\ [Next]_vars => PagesFit'
<1> SUFFICES ASSUME IInv, [Next]_vars, pass'.step = "pages" PROVE PagesFit'
  BY DEF PagesFit
<1>0. TypeOK /\ Ordinals /\ Clock /\ JobHeld /\ PagesFit /\ WalksInOrder /\ NextInLine /\ Unshown
      /\ interval' = interval
  BY TimeStep DEF IInv
<1>a. pass \in Passes /\ newest \in Nat /\ newest <= Len(walks)
  BY <1>0 DEF TypeOK
<1>1. CASE UNCHANGED pass
  <2>1. pass.job.walk.nth \in Nat /\ pass.job.walk.nth <= Len(walks)
    BY <1>0, <1>a DEF Ordinals, WalkKnown, Passes, Jobs, Walks
  <2>2. SlotsBehind(pass.job.walk.nth, pass.job.end)'
    <3>1. SlotsBehind(pass.job.walk.nth, pass.job.end)
      BY <1>0, <1>1 DEF PagesFit
    <3>2. \A n, u : n = pass.job.walk.nth /\ u = pass.job.end => SlotsBehind(n, u)'
      BY <2>1, <3>1, SlotsBehindStep
    <3>. QED BY <1>0, <1>1, <3>2 DEF SlotsBehind, Within, Nth, Slot
  <2>3. ASSUME Current'
        PROVE  pass'.job.walk.nth > newest' /\ Awaits(pass.job.walk.nth)'
    <3>1. Current /\ newest' = newest
      BY <1>1, <2>3, CurrentStep DEF Current
    <3>2. pass.job.walk.nth > newest /\ Awaits(pass.job.walk.nth)
      BY <1>0, <1>1, <3>1 DEF PagesFit
    <3>3. \A n : n = pass.job.walk.nth => Awaits(n)'
      BY <2>1, <3>2, AwaitsStep
    <3>. QED BY <1>1, <3>1, <3>2, <3>3 DEF Awaits, Within, Nth
  <2>. QED BY <2>2, <2>3 DEF PagesFit
<1>2. CASE Harvest
  <2>1. /\ pass'.copy = cache /\ pass'.job = Tracked /\ Ended(Tracked) /\ Tracked.relay /\ Unread
        /\ UNCHANGED <<jobs, object, newest, now, interval>>
    BY <1>2, HarvestShape DEF At, Unread, Still
  <2>2. PICK t \in Stem : t = cache.status.job
    BY <1>0, <2>1, FinishedType
  <2>3. Present(t) /\ Tracked = jobs[t] /\ Ended(jobs[t]) /\ Nth(t) \in Nat /\ Nth(t) >= 1
        /\ Nth(t) = Tracked.walk.nth
    BY <1>0, <2>1, <2>2, FinishedType, JobShape DEF Ordinals, WalkKnown, Nth
  <2>4. SlotsBehind(pass.job.walk.nth, pass.job.end)'
    <3>1. SlotsBehind(Tracked.walk.nth, Tracked.end)
      BY <1>0, <2>3 DEF WalksInOrder
    <3>. QED BY <2>1, <3>1 DEF SlotsBehind, Within, Nth, Slot
  <2>5. ASSUME Current'
        PROVE  pass'.job.walk.nth > newest' /\ Awaits(pass.job.walk.nth)'
    <3>1. cache = object
      BY <2>1, <2>5 DEF Current
    <3>2. ~Within(t, newest)
      BY <1>0, <2>1, <2>2, <2>3, <3>1, Constants DEF Unshown, Unread
    <3>3. Tracked.walk.nth > newest
      BY <1>a, <2>3, <3>2 DEF Within
    <3>4. Awaits(Tracked.walk.nth)
      <4>1. Job(object.status.job) = Tracked
        BY <1>0, <3>1, PassTypes
      <4>. QED BY <1>0, <2>1, <4>1 DEF NextInLine
    <3>5. Awaits(pass.job.walk.nth)'
      BY <2>1, <3>4 DEF Awaits, Within, Nth, Requested, Present, Asked, Slot, Since, Ended
    <3>. QED BY <2>1, <3>3, <3>5
  <2>. QED BY <2>4, <2>5 DEF PagesFit
<1>3. ~WritePages /\ ~CreateJob /\ ~EnsurePlan
  BY <1>a, WritePagesShape, CreateJobShape, EnsurePlanShape DEF Passes
<1>4. ~StartSync /\ pass' # NoPass
  BY StartSyncShape DEF At, NoPass
<1>. QED BY <1>0, <1>1, <1>2, <1>3, <1>4, PassStep

\* The slots behind an instant are behind each later one.
LEMMA SlotsBehindLater ==
  ASSUME TypeOK, Ordinals, SlotJobs, NEW n, NEW u \in Nat, NEW v \in Nat, u <= v, SlotsBehind(n, u)
  PROVE  SlotsBehind(n, v)
<1> SUFFICES ASSUME NEW k \in 0..Horizon, Within(<<"slot", k>>, n)
             PROVE  k <= Slot(v)
  BY DEF SlotsBehind
<1>1. Present(<<"slot", k>>)
  BY SlotStem, JobShape DEF Within
<1>2. k <= Slot(u)
  BY DEF SlotsBehind
<1>. QED BY <1>1, <1>2, SlotOrder

LEMMA PatchFitsStep == IInv /\ [Next]_vars => PatchFits'
<1> SUFFICES ASSUME IInv, [Next]_vars, pass'.step = "patch" PROVE PatchFits'
  BY DEF PatchFits, Publishing
<1>0. TypeOK /\ Ordinals /\ Clock /\ SlotJobs /\ JobHeld /\ PagesFit /\ PatchFits /\ interval' = interval
  BY TimeStep DEF IInv
<1>a. /\ pass \in Passes /\ newest \in Nat /\ newest <= Len(walks)
      /\ pass.copy \in Objects /\ pass.copy.status \in Statuses
      /\ pass.present \in BOOLEAN /\ pass.now \in Nat
  <2>1. pass \in Passes /\ newest \in Nat /\ newest <= Len(walks)
    BY <1>0 DEF TypeOK
  <2>2. pass.copy \in Objects /\ pass.present \in BOOLEAN /\ pass.now \in Nat
    BY <2>1, Constants DEF Passes
  <2>. QED BY <2>1, <2>2 DEF Objects
<1>1. CASE UNCHANGED pass
  <2>1. (Starting' <=> Starting) /\ (Publishing' <=> Publishing) /\ (Current' => Current)
    <3>1. Current' => Current
      BY <1>1, CurrentStep DEF Current
    <3>. QED BY <1>1, <3>1 DEF Starting, Publishing
  <2>2. ASSUME Publishing
        PROVE  /\ ~Starting' /\ pass'.write.finished # None
               /\ Present(pass.write.job)' => /\ Ended(jobs'[pass.write.job])
                                              /\ Harvested(pass.write, jobs'[pass.write.job])
               /\ SlotsBehind(pass.write.view.nth, pass.write.finished)'
               /\ Current' => pass'.write.view.nth > newest' /\ Awaits(pass.write.view.nth)'
    <3>0. /\ pass.write.view.nth \in Nat /\ pass.write.view.nth <= Len(walks)
          /\ pass.write.job \in Stems
      BY <1>0, <1>a DEF Passes, Statuses, Views, Ordinals, Known
    <3>1. ~Starting' /\ pass'.write.finished # None
      BY <1>0, <1>1, <2>1, <2>2 DEF PatchFits
    <3>2. ASSUME Present(pass.write.job)'
          PROVE  Ended(jobs'[pass.write.job]) /\ Harvested(pass.write, jobs'[pass.write.job])
      <4>1. PICK t \in Stem : t = pass.write.job
        BY <1>1, <3>0, <3>2 DEF Stems, Present
      <4>2. Present(t)'
        BY <1>1, <3>2, <4>1 DEF Present
      <4>3. ~CreateJob
        BY <1>1, <1>a, CreateJobShape DEF Passes
      <4>4. Ended(jobs[t]) /\ Harvested(pass.write, jobs[t])
        BY <1>0, <2>2, <4>1, <4>2, <4>3, PresentBefore DEF PatchFits
      <4>5. jobs'[t] # NoJob
        BY <4>2, PresentStep DEF NoJob
      <4>6. jobs'[t] = jobs[t]
        BY <1>1, <4>4, <4>5, RestingJobs DEF Live, Ended
      <4>. QED BY <4>1, <4>4, <4>6
    <3>3. SlotsBehind(pass.write.view.nth, pass.write.finished)'
      <4>1. SlotsBehind(pass.write.view.nth, pass.write.finished)
        BY <1>0, <2>2 DEF PatchFits
      <4>2. \A n, u : n = pass.write.view.nth /\ u = pass.write.finished => SlotsBehind(n, u)'
        BY <3>0, <4>1, SlotsBehindStep
      <4>. QED BY <1>0, <1>1, <4>2 DEF SlotsBehind, Within, Nth, Slot
    <3>4. ASSUME Current'
          PROVE  pass'.write.view.nth > newest' /\ Awaits(pass.write.view.nth)'
      <4>1. Current /\ newest' = newest
        BY <1>1, <3>4, CurrentStep DEF Current
      <4>2. pass.write.view.nth > newest /\ Awaits(pass.write.view.nth)
        BY <1>0, <2>2, <4>1 DEF PatchFits
      <4>3. \A n : n = pass.write.view.nth => Awaits(n)'
        BY <3>0, <4>2, AwaitsStep
      <4>. QED BY <1>1, <4>1, <4>2, <4>3 DEF Awaits, Within, Nth
    <3>. QED BY <3>1, <3>2, <3>3, <3>4
  <2>3. /\ ~Starting' => /\ pass'.write.job = pass'.copy.status.job
                         /\ pass'.write.observed = pass'.copy.status.observed
        /\ ~Starting' /\ ~Publishing' /\ Current'
             => pass'.write.finished = pass'.copy.status.finished
    BY <1>0, <1>1, <2>1 DEF PatchFits
  <2>. QED BY <1>1, <2>1, <2>2, <2>3 DEF PatchFits, Ended, Harvested
<1>2. CASE WritePages
  <2> DEFINE kept == Tidy(pass.copy.status, pass.present, pass.now)
             t == pass.copy.status.job
  <2>1. /\ pass'.copy = pass.copy
        /\ pass'.write = kept \/ pass'.write = PublishedNow
        /\ UNCHANGED <<object, newest, now>> /\ pass.step = "pages"
    BY <1>2, <1>a, WritePagesShape DEF Passes, PublishedNow, Still
  <2>2. CASE pass'.write = kept
    <3>1. /\ kept.job = t /\ kept.observed = pass.copy.status.observed
          /\ kept.finished = pass.copy.status.finished /\ kept.view \in {pass.copy.status.view, NoView}
      BY <1>a, TidyType
    <3>2. ~Starting' /\ ~Publishing'
      BY <2>1, <2>2, <3>1 DEF Starting, Publishing
    <3>. QED BY <2>1, <2>2, <3>1, <3>2 DEF PatchFits
  <2>3. CASE pass'.write = PublishedNow
    <3>1. /\ PublishedNow.job = t /\ PublishedNow.observed = pass.copy.status.observed
          /\ PublishedNow.finished = FinishedAt(pass.job, pass.now)
          /\ PublishedNow.view.nth = pass.job.walk.nth
      BY <1>a, PublishedFields DEF PublishedNow
    <3>2. ~Starting'
      BY <2>1, <2>3, <3>1 DEF Starting
    <3>3. /\ pass.job.end \in Nat /\ FinishedAt(pass.job, pass.now) \in Nat
          /\ pass.job.end <= FinishedAt(pass.job, pass.now) /\ t \in Stem /\ Ended(pass.job)
          /\ pass.job.walk.nth \in Nat /\ pass.job.walk.nth <= Len(walks)
          /\ pass.job.walk.nth >= 1
      <4>1. pass.job.walk.nth \in Nat /\ pass.job.walk.nth <= Len(walks)
        BY <1>0, <1>a DEF Passes, Jobs, Walks, Ordinals, WalkKnown
      <4>. QED BY <1>0, <2>1, <4>1, HeldType DEF JobHeld
    <3>4. Current' => Current /\ pass.job.walk.nth > newest /\ Awaits(pass.job.walk.nth)
      BY <1>0, <2>1 DEF Current, PagesFit
    <3>5. Current' => Awaits(pass.write.view.nth)' /\ pass'.write.view.nth > newest'
      <4>1. Current' => \A n : n = pass.job.walk.nth => Awaits(n)'
        BY <3>3, <3>4, AwaitsStep
      <4>. QED BY <2>1, <2>3, <3>1, <3>4, <4>1 DEF Awaits, Within, Nth
    <3>6. SlotsBehind(pass.write.view.nth, pass.write.finished)'
      <4>1. SlotsBehind(pass.job.walk.nth, pass.job.end)
        BY <1>0, <2>1 DEF PagesFit
      <4>2. SlotsBehind(pass.job.walk.nth, FinishedAt(pass.job, pass.now))
        BY <1>0, <3>3, <4>1, SlotsBehindLater
      <4>3. \A n, u : n = pass.job.walk.nth /\ u = FinishedAt(pass.job, pass.now) => SlotsBehind(n, u)'
        BY <3>3, <4>2, SlotsBehindStep
      <4>. QED BY <1>0, <2>3, <3>1, <4>3 DEF SlotsBehind, Within, Nth, Slot
    <3>7. pass'.write.finished # None
      BY <2>3, <3>1, <3>3 DEF None
    <3>8. ASSUME Present(pass.write.job)'
          PROVE  Ended(jobs'[pass'.write.job]) /\ Harvested(pass'.write, jobs'[pass'.write.job])
      <4>1. jobs'[t].state # "gone" /\ Alike(jobs[t], jobs'[t])
        BY <1>2, <2>3, <3>1, <3>3, <3>8, PagesAlike DEF Present
      <4>2. Present(t)
        BY <1>0, <3>3, <4>1, JobShape DEF Alike
      <4>3. jobs[t] = pass.job
        BY <1>0, <2>1, <4>2 DEF JobHeld
      <4>. QED BY <2>3, <3>1, <3>3, <3>7, <4>1, <4>3 DEF Alike, Ended, Harvested, FinishedAt
    <3>9. Current' => (Publishing' \/ pass'.write.finished = pass'.copy.status.finished)
      <4>1. Current' => pass'.write.view # pass'.copy.status.view
        <5>1. pass.copy.status.view.nth <= newest /\ pass.copy.status.view.nth \in Nat
          BY <1>0, <1>a DEF Ordinals, Statuses, Views
        <5>. QED BY <1>a, <2>1, <2>3, <3>1, <3>3, <3>4, <5>1
      <4>2. pass'.write.view # NoView
        BY <2>3, <3>1, <3>3 DEF NoView
      <4>. QED BY <4>1, <4>2 DEF Publishing
    <3>. QED BY <2>1, <2>3, <3>1, <3>2, <3>5, <3>6, <3>7, <3>8, <3>9
         DEF PatchFits, Ended, Harvested, Awaits, Within, Nth
  <2>. QED BY <2>1, <2>2, <2>3
<1>3. CASE EnsurePlan
  <2> DEFINE kept == Tidy(pass.copy.status, pass.present, pass.now)
  <2>1. /\ pass'.copy = pass.copy /\ pass.step = "plan"
        /\ pass'.write = kept \/ pass'.write = Started(kept, WantedStem)
    BY <1>3, <1>a, EnsurePlanShape DEF Passes
  <2>2. WantedStem \in Stem /\ WantedStem # pass.copy.status.job
    BY <2>1 DEF IInv, StartFits, Starting
  <2>3. /\ kept \in Statuses /\ kept.job = pass.copy.status.job
        /\ kept.observed = pass.copy.status.observed
        /\ kept.finished = pass.copy.status.finished /\ kept.view \in {pass.copy.status.view, NoView}
    BY <1>a, TidyType
  <2>4. CASE pass'.write = kept
    <3>1. ~Starting' /\ ~Publishing'
      BY <2>1, <2>3, <2>4 DEF Starting, Publishing
    <3>. QED BY <2>1, <2>3, <2>4, <3>1 DEF PatchFits
  <2>5. CASE pass'.write = Started(kept, WantedStem)
    <3>1. Started(kept, WantedStem).job = WantedStem /\ Started(kept, WantedStem).view = kept.view
      BY <2>2, <2>3, StartedType
    <3>2. Starting' /\ ~Publishing'
      BY <2>1, <2>2, <2>3, <2>5, <3>1 DEF Starting, Publishing
    <3>. QED BY <3>2 DEF PatchFits
  <2>. QED BY <2>1, <2>4, <2>5
<1>4. ~Harvest /\ ~StartSync /\ ~CreateJob /\ pass' # NoPass
  <2>1. Harvest => pass'.step = "pages"
    BY HarvestShape DEF At
  <2>2. StartSync => pass'.step = "create"
    BY StartSyncShape DEF At
  <2>3. CreateJob => pass'.step = "plan"
    BY <1>a, CreateJobShape DEF Passes
  <2>4. NoPass.step = "none"
    BY DEF NoPass
  <2>. QED BY <2>1, <2>2, <2>3, <2>4
<1>. QED BY <1>0, <1>1, <1>2, <1>3, <1>4, PassStep

-----------------------------------------------------------------------------
(* The theorems.                                                           *)

LEMMA InitInv == Init => IInv
<1> SUFFICES ASSUME Init PROVE IInv
  OBVIOUS
<1>1. /\ object = NoObject /\ cache = NoObject /\ pass = NoPass /\ trust = 0 /\ now = 0
      /\ jobs = [s \in Stem |-> NoJob] /\ walks = <<>> /\ newest = 0
  BY DEF Init
<1>2. PICK setting \in Settings : /\ ArchiveInit(setting.before)
                                  /\ mode = setting.mode
                                  /\ interval = setting.interval
  BY DEF Init
<1>3. TypeOK
  <2>1. setting.mode \in {"Index", "Full"} /\ setting.interval \in Nat
    BY CatalogAssumption
  <2>2. AtRest \in [point : Nat, next : Nat] /\ LogEntry \in Nat
    BY DEF AtRest, Done, LogEntry
  <2>3. stored \in [Points -> Nat] /\ writing \in [Writer -> [point : Nat, next : Nat]]
    BY <1>2, <2>2 DEF ArchiveInit
  <2>4. Len(walks) = 0 /\ walks \in Seq(SUBSET Points) /\ 0 \in 0..Horizon /\ 0 \in Nat
    BY <1>1, Constants
  <2>. QED BY <1>1, <1>2, <2>1, <2>3, <2>4, Constants DEF TypeOK
<1>4. /\ NoObject.status = NoStatus /\ NoObject.request = 0
      /\ NoPass.step = "none" /\ NoPass.copy = NoObject /\ NoPass.write = NoStatus
      /\ NoPass.now = 0 /\ NoPass.job = NoJob
  BY DEF NoObject, NoPass
<1>5. /\ NoStatus.job = NoStem /\ NoStatus.finished = None /\ NoStatus.observed = 0
      /\ NoStatus.view = NoView
      /\ NoView.stem = NoStem /\ NoView.listed = {} /\ NoView.nth = 0
  BY DEF NoStatus, NoView
<1>6. /\ NoJob.state = "gone" /\ NoJob.made = 0 /\ NoJob.end = None /\ NoJob.walk = NewWalk
      /\ ~NoJob.relay /\ NewWalk.nth = 0 /\ NewWalk.stop = "no"
  BY DEF NoJob, NewWalk
<1>7. Known = {NoStatus}
  BY <1>1, <1>4 DEF Known
<1>8. \A s \in Stem : jobs[s] = NoJob /\ ~Present(s) /\ Nth(s) = 0
  BY <1>1, <1>6 DEF Present, Nth
<1>9. \A s, n : s \in Stem => ~Within(s, n)
  BY <1>8 DEF Within
<1>10. Clock
  BY <1>1, <1>4, <1>5, <1>6, <1>7, <1>8 DEF Clock, Since, Ended, None
<1>11. WalkKnown(NoJob)
  BY <1>1, <1>6 DEF WalkKnown, Ended
<1>12. Ordinals
  BY <1>1, <1>4, <1>5, <1>7, <1>8, <1>11 DEF Ordinals
<1>13. SlotJobs
  BY <1>8, SlotStem DEF SlotJobs
<1>14. WalksInOrder
  BY <1>6, <1>8 DEF WalksInOrder, Ended
<1>15. \A s \in Known : FinishFits(s) /\ PagesKept(s) /\ WholeView(s)
  BY <1>5, <1>7 DEF FinishFits, PagesKept, WholeView
<1>16. (\A s \in Stem : WalkSound(jobs[s])) /\ WalkSound(pass.job)
  BY <1>1, <1>4, <1>8, SoundNoJob
<1>17. JobHeld /\ StartFits /\ PagesFit /\ PatchFits
  BY <1>1, <1>4 DEF JobHeld, StartFits, PagesFit, PatchFits, Starting, Publishing
<1>18. Copies
  <2>1. CopyFits(NoObject)
    BY <1>1, <1>4, <1>5 DEF CopyFits
  <2>. QED BY <1>1, <1>4, <1>8, <2>1, RequestStem DEF Copies
<1>19. NextInLine /\ Unshown
  BY <1>1, <1>4, <1>5, <1>6 DEF NextInLine, Unshown, Awaits, Requested, Job, Present, Ended
<1>20. SpentSlots
  BY <1>9, SlotStem DEF SpentSlots
<1>. QED BY <1>3, <1>10, <1>12, <1>13, <1>14, <1>15, <1>16, <1>17, <1>18, <1>19, <1>20 DEF IInv

LEMMA InvStep == IInv /\ [Next]_vars => IInv'
<1> SUFFICES ASSUME IInv, [Next]_vars PROVE IInv'
  OBVIOUS
<1>1. (\A s \in Stem : WalkSound(jobs[s]))'
  BY WalkSoundStep
<1>2. WalkSound(pass.job)'
  BY HeldSoundStep
<1>. QED BY <1>1, <1>2, TypeStep, ClockStep, OrdinalsStep, SlotJobsStep, WalksInOrderStep,
            FinishFitsStep, PagesKeptStep, WholeViewStep, JobHeldStep, CopiesStep, NextInLineStep,
            UnshownStep, SpentSlotsStep, StartFitsStep, PagesFitStep, PatchFitsStep DEF IInv

(***************************************************************************)
(* In every state of every behaviour the inductive invariant holds.        *)
(***************************************************************************)
THEOREM Invariance == Spec => []IInv
BY InitInv, InvStep, PTL DEF Spec

(***************************************************************************)
(* The object, its copies, the Jobs and their walks are well typed, time   *)
(* and requests within their bounds (recovery_catalog.rs).                 *)
(***************************************************************************)
THEOREM TypeCorrect == Spec => []TypeOK
<1>1. IInv => TypeOK
  BY DEF IInv
<1>. QED BY <1>1, Invariance, PTL

(***************************************************************************)
(* Until the view of a completed Job expires its pages are there: the TTL  *)
(* of the Job is not over before (catalog_view.rs, recovery_catalog.rs).   *)
(***************************************************************************)
THEOREM PagesOutliveTheirExpiry == Spec => []ListedPagesExist
<1>1. IInv => ListedPagesExist
  BY DEF IInv, Known, PagesKept, ListedPagesExist, View
<1>. QED BY <1>1, Invariance, PTL

(***************************************************************************)
(* A view that says it is whole lists all that its walk could have met     *)
(* when it walks (check/kinds/catalog_sync.rs).                            *)
(***************************************************************************)
THEOREM WholeViewsAreWhole == Spec => []WholeIsWhole
<1>1. IInv => WholeIsWhole
  BY DEF IInv, Known, WholeView, WholeIsWhole, View, Shown
<1>. QED BY <1>1, Invariance, PTL

LEMMA InitWindow == Init => Window!WindowInit
BY DEF Init, NoObject, NoStatus, NoView, View, Window!WindowInit

LEMMA WindowStep ==
  IInv /\ [Next]_vars => [Window!Publish \/ Window!Withdraw]_(Window!windowVars)
<1> SUFFICES ASSUME IInv, [Next]_vars
             PROVE  [Window!Publish \/ Window!Withdraw]_(Window!windowVars)
  OBVIOUS
<1>1. CASE View' = View /\ newest' = newest
  BY <1>1 DEF Window!windowVars
<1>2. CASE View' = NoView /\ newest' = newest
  <2>1. View.nth' = 0
    BY <1>2 DEF NoView
  <2>. QED BY <1>2, <2>1 DEF Window!windowVars, Window!Withdraw
<1>3. CASE newest' = View.nth' /\ newest' > newest
  BY <1>3 DEF Window!Publish
<1>4. CASE UNCHANGED newest /\ object'.status = object.status
  BY <1>1, <1>4 DEF View
<1>5. CASE Rewritten
  <2>1. CASE Publishing
    BY <1>3, <1>5, <2>1, NewestStep, RewrittenKeeps DEF View, IInv, PatchFits
  <2>2. CASE ~Publishing
    BY <1>1, <1>2, <1>5, <2>2, RewrittenKeeps DEF View
  <2>. QED BY <2>1, <2>2
<1>. QED BY <1>4, <1>5, ObjectStep

(***************************************************************************)
(* The view that is shown moves as CatalogWindow says: withdrawn, or       *)
(* replaced by the result of a walk later than all those shown before      *)
(* (recovery_catalog.rs, run).                                             *)
(***************************************************************************)
THEOREM ViewMovesForward == Spec => ImplementsWindow
BY Invariance, InitWindow, WindowStep, PTL DEF Spec, ImplementsWindow, Window!WindowSpec

-----------------------------------------------------------------------------
(* The archive while no writer has stopped.                                *)

LEMMA ArchiveNumbers ==
  Record = 1 /\ Signature = 2 /\ LogEntry = 3 /\ Done = 4 /\ Points \subseteq Nat /\ 0 \notin Points
BY ArchiveAssumption DEF Record, Signature, LogEntry, Done

LEMMA ArchiveInitInv == ArchiveInit({}) => ArchiveInv
<1> SUFFICES ASSUME ArchiveInit({}) PROVE ArchiveInv
  OBVIOUS
<1>1. /\ receipts = {} /\ stored = [p \in Points |-> 0] /\ faults = 0
      /\ writing = [w \in Writer |-> AtRest]
  BY DEF ArchiveInit
<1>2. \A w \in Writer : ~Busy(w) /\ writing[w].point = 0
  BY <1>1 DEF Busy, AtRest
<1>3. ArchiveType
  BY <1>1, <1>2, ArchiveNumbers DEF ArchiveType, AtRest
<1>4. Recorded = {}
  BY <1>1, ArchiveNumbers DEF Recorded
<1>5. BackfillCompletes
  BY <1>2 DEF BackfillCompletes, Writer
<1>. QED BY <1>2, <1>3, <1>4, <1>5 DEF ArchiveInv, PutsInOrder, NoneAbandoned

\* A put leaves nothing it has found, and finishes the point of a writer that is done.
LEMMA PutObjectInv ==
  ASSUME ArchiveInv, NEW v \in Writer, PutObject(v)
  PROVE  ArchiveInv'
<1> DEFINE p == writing[v].point
           n == writing[v].next
<1>1. /\ p \in Points /\ n \in {1, 2, 3}
      /\ stored' = [stored EXCEPT ![p] = IF @ < n THEN n ELSE @]
      /\ writing' = [writing EXCEPT ![v].next = n + 1]
      /\ receipts' = receipts /\ faults' = faults
  BY ArchiveNumbers DEF ArchiveInv, ArchiveType, PutObject, Busy
<1>2. /\ \A w \in Writer : writing'[w].point = writing[w].point
      /\ \A w \in Writer \ {v} : writing'[w] = writing[w]
      /\ writing'[v].next = n + 1
      /\ writing' \in [Writer -> [point : Points \cup {0}, next : Record..Done]]
  BY <1>1, ArchiveNumbers DEF ArchiveInv, ArchiveType
<1>3. /\ stored' \in [Points -> 0..LogEntry]
      /\ \A q \in Points : stored'[q] >= stored[q]
      /\ \A q \in Points \ {p} : stored'[q] = stored[q]
      /\ stored'[p] >= n
  BY <1>1, ArchiveNumbers DEF ArchiveInv, ArchiveType
<1>4. ArchiveType'
  BY <1>1, <1>2, <1>3 DEF ArchiveInv, ArchiveType, Busy
<1>5. \A w \in Writer \ {v} : Busy(w)' <=> Busy(w)
  BY <1>2 DEF Busy
<1>6. Busy(v)' \/ p \in Indexed'
  BY <1>1, <1>2, <1>3, ArchiveNumbers DEF Busy, Indexed
<1>7. ASSUME faults = 0
      PROVE  (PutsInOrder /\ NoneAbandoned /\ BackfillCompletes)'
  <2>0. PutsInOrder /\ NoneAbandoned /\ BackfillCompletes
    BY <1>7 DEF ArchiveInv
  <2>1. PutsInOrder'
    <3> SUFFICES ASSUME NEW w \in Writer, Busy(w)'
                 PROVE  stored'[writing'[w].point] >= writing'[w].next - 1
      BY DEF PutsInOrder
    <3>1. CASE w = v
      BY <1>1, <1>2, <1>3, <3>1
    <3>2. CASE w # v
      <4>1. Busy(w) /\ writing[w].point \in Points /\ writing'[w] = writing[w]
        BY <1>2, <1>5, <3>2 DEF ArchiveInv, ArchiveType
      <4>2. stored[writing[w].point] >= writing[w].next - 1
        BY <2>0, <4>1 DEF PutsInOrder
      <4>3. /\ stored[writing[w].point] \in 0..LogEntry /\ writing[w].next \in Record..Done
            /\ stored'[writing[w].point] \in 0..LogEntry
        BY <1>3, <4>1 DEF ArchiveInv, ArchiveType
      <4>4. stored'[writing[w].point] >= stored[writing[w].point]
        BY <1>3, <4>1
      <4>. QED BY <4>1, <4>2, <4>3, <4>4, ArchiveNumbers
    <3>. QED BY <3>1, <3>2
  <2>2. NoneAbandoned'
    <3> SUFFICES ASSUME NEW q \in Points, q \in Recorded', q \notin Indexed'
                 PROVE  \E w \in Writer : Busy(w)' /\ writing'[w].point = q
      BY DEF NoneAbandoned, Recorded
    <3>1. CASE q = p
      BY <1>2, <1>6, <3>1
    <3>2. CASE q # p
      <4>1. q \in Recorded \ Indexed
        BY <1>3, <3>2 DEF Recorded, Indexed
      <4>2. PICK w \in Writer : Busy(w) /\ writing[w].point = q
        BY <2>0, <4>1 DEF NoneAbandoned
      <4>. QED BY <1>2, <1>5, <3>2, <4>2
    <3>. QED BY <3>1, <3>2
  <2>3. BackfillCompletes'
    <3> DEFINE b == writing["backfill"].point
    <3> SUFFICES ASSUME b # 0, ~Busy("backfill")',
                        ~(Busy("runner") /\ writing["runner"].point = b)'
                 PROVE  b \in Indexed'
      BY <1>2 DEF BackfillCompletes, Writer
    <3>1. CASE v = "backfill"
      BY <1>6, <3>1
    <3>2. CASE v = "runner"
      <4>1. ~Busy("backfill")
        BY <1>5, <3>2 DEF Writer
      <4>2. CASE p = b
        <5>1. writing'["runner"].point = p /\ writing'["backfill"].point = b
          BY <1>2, <3>2 DEF Writer
        <5>2. ~Busy("runner")'
          BY <4>2, <5>1
        <5>. QED BY <1>6, <3>2, <4>2, <5>2
      <4>3. CASE p # b
        <5>1. b \in Indexed
          BY <2>0, <3>2, <4>1, <4>3 DEF BackfillCompletes
        <5>. QED BY <1>3, <4>3, <5>1 DEF Indexed
      <4>. QED BY <4>2, <4>3
    <3>. QED BY <3>1, <3>2 DEF Writer
  <2>. QED BY <2>1, <2>2, <2>3
<1>. QED BY <1>1, <1>4, <1>7 DEF ArchiveInv

\* A writer that was not at work goes to another point or to rest.
LEMMA WriterMoves ==
  ASSUME ArchiveInv, NEW v \in Writer, ~Busy(v),
         NEW point \in Points \cup {0}, NEW next \in {Record, Done},
         next # Done => point \in Points,
         writing' = [writing EXCEPT ![v] = [point |-> point, next |-> next]],
         receipts' \subseteq Points, UNCHANGED <<stored, faults>>,
         faults = 0 => BackfillCompletes'
  PROVE  ArchiveInv'
<1>1. /\ writing'[v].point = point /\ writing'[v].next = next
      /\ \A w \in Writer \ {v} : writing'[w] = writing[w]
      /\ writing' \in [Writer -> [point : Points \cup {0}, next : Record..Done]]
  BY ArchiveNumbers DEF ArchiveInv, ArchiveType
<1>2. /\ \A w \in Writer \ {v} : Busy(w)' <=> Busy(w)
      /\ Busy(v)' <=> next # Done
  BY <1>1 DEF Busy
<1>3. ArchiveType'
  BY <1>1, <1>2 DEF ArchiveInv, ArchiveType
<1>4. ASSUME faults = 0
      PROVE  PutsInOrder' /\ NoneAbandoned'
  <2>1. PutsInOrder'
    <3> SUFFICES ASSUME NEW w \in Writer, Busy(w)'
                 PROVE  stored[writing'[w].point] >= writing'[w].next - 1
      BY DEF PutsInOrder
    <3>1. CASE w = v
      BY <1>1, <1>2, <3>1, ArchiveNumbers DEF ArchiveInv, ArchiveType
    <3>2. CASE w # v
      BY <1>1, <1>2, <1>4, <3>2 DEF ArchiveInv, PutsInOrder
    <3>. QED BY <3>1, <3>2
  <2>2. Recorded' = Recorded /\ Indexed' = Indexed
    BY DEF Recorded, Indexed
  <2>3. NoneAbandoned'
    <3> SUFFICES ASSUME NEW q \in Recorded \ Indexed
                 PROVE  \E w \in Writer : Busy(w)' /\ writing'[w].point = q
      BY <2>2 DEF NoneAbandoned
    <3>1. PICK w \in Writer : Busy(w) /\ writing[w].point = q
      BY <1>4 DEF ArchiveInv, NoneAbandoned
    <3>. QED BY <1>1, <1>2, <3>1
  <2>. QED BY <2>1, <2>3
<1>. QED BY <1>3, <1>4 DEF ArchiveInv

LEMMA ArchiveStep == ArchiveInv /\ [ArchiveNext]_<<archiveVars, faults>> => ArchiveInv'
<1> SUFFICES ASSUME ArchiveInv, [ArchiveNext]_<<archiveVars, faults>> PROVE ArchiveInv'
  OBVIOUS
<1>0. /\ ArchiveType
      /\ faults = 0 => BackfillCompletes /\ NoneAbandoned
      /\ Writer = {"runner", "backfill"} /\ "runner" # "backfill"
  BY DEF ArchiveInv, Writer
<1>1. ASSUME NEW p \in Points, BackUp(p)
      PROVE  ArchiveInv'
  <2>1. /\ ~Busy("runner") /\ receipts' \subseteq Points /\ UNCHANGED <<stored, faults>>
        /\ writing' = [writing EXCEPT !["runner"] = [point |-> p, next |-> Record]]
    BY <1>0, <1>1 DEF BackUp, ArchiveType
  <2>2. ASSUME faults = 0
        PROVE  BackfillCompletes'
    <3>1. writing'["backfill"] = writing["backfill"]
      BY <1>0, <2>1 DEF ArchiveType
    <3>2. (Busy("backfill")' <=> Busy("backfill")) /\ Indexed' = Indexed
      BY <2>1, <3>1 DEF Busy, Indexed
    <3>. QED BY <1>0, <2>1, <2>2, <3>1, <3>2 DEF BackfillCompletes
  <2>. QED BY <1>0, <2>1, <2>2, WriterMoves, ArchiveNumbers
<1>2. ASSUME NEW p \in Points, Backfill(p)
      PROVE  ArchiveInv'
  <2> DEFINE next == IF p \in Recorded THEN Done ELSE Record
  <2>1. /\ ~Busy("backfill") /\ receipts' \subseteq Points /\ UNCHANGED <<stored, faults>>
        /\ writing' = [writing EXCEPT !["backfill"] = [point |-> p, next |-> next]]
    BY <1>0, <1>2 DEF Backfill, ArchiveType
  <2>2. ASSUME faults = 0
        PROVE  BackfillCompletes'
    <3>1. writing'["runner"] = writing["runner"] /\ writing'["backfill"] = [point |-> p, next |-> next]
      BY <1>0, <2>1 DEF ArchiveType
    <3>2. (Busy("runner")' <=> Busy("runner")) /\ Indexed' = Indexed
      BY <2>1, <3>1 DEF Busy, Indexed
    <3>3. ~Busy("backfill")' => p \in Recorded
      BY <3>1, ArchiveNumbers DEF Busy
    <3>4. p \in Recorded \ Indexed => Busy("runner") /\ writing["runner"].point = p
      BY <1>0, <2>1, <2>2 DEF NoneAbandoned
    <3>. QED BY <3>1, <3>2, <3>3, <3>4 DEF BackfillCompletes
  <2>3. next \in {Record, Done}
    OBVIOUS
  <2>. HIDE DEF next
  <2>. QED BY <1>0, <2>1, <2>2, <2>3, WriterMoves, ArchiveNumbers
<1>3. ASSUME NEW w \in Writer, PutObject(w)
      PROVE  ArchiveInv'
  BY <1>3, PutObjectInv
<1>4. ASSUME NEW w \in Writer, StopWriting(w)
      PROVE  ArchiveInv'
  <2>1. /\ writing' = [writing EXCEPT ![w] = AtRest] /\ UNCHANGED <<receipts, stored>>
        /\ faults' = faults + 1
    BY <1>4 DEF StopWriting, Fault
  <2>2. ArchiveType'
    BY <1>0, <2>1, ArchiveNumbers DEF ArchiveType, AtRest, Busy
  <2>3. faults' # 0
    BY <1>0, <2>1 DEF ArchiveType
  <2>. QED BY <2>2, <2>3 DEF ArchiveInv
<1>5. ASSUME EndBackfill
      PROVE  ArchiveInv'
  <2>1. /\ ~Busy("backfill") /\ receipts' \subseteq Points /\ UNCHANGED <<stored, faults>>
        /\ writing' = [writing EXCEPT !["backfill"] = [point |-> 0, next |-> Done]]
    BY <1>0, <1>5 DEF EndBackfill, ArchiveType, AtRest
  <2>2. BackfillCompletes'
    <3>1. writing'["backfill"].point = 0
      BY <1>0, <2>1 DEF ArchiveType
    <3>. QED BY <3>1 DEF BackfillCompletes
  <2>. QED BY <1>0, <2>1, <2>2, WriterMoves
<1>6. CASE UNCHANGED <<archiveVars, faults>>
  BY <1>6 DEF archiveVars, ArchiveInv, ArchiveType, PutsInOrder, NoneAbandoned, BackfillCompletes,
              Busy, Recorded, Indexed
<1>. QED BY <1>1, <1>2, <1>3, <1>4, <1>5, <1>6 DEF ArchiveNext

(***************************************************************************)
(* While no writer has stopped the backfill does make up for every point   *)
(* it passes: only a writer that stops between two puts leaves a point     *)
(* with a record and no log entry for the backfill to report as present    *)
(* (catalog_cmd.rs, catalog.rs).                                           *)
(***************************************************************************)
THEOREM BackfillMissesOnlyTheStopped == ArchiveSpec => [](faults = 0 => BackfillCompletes)
<1>1. ArchiveInv => (faults = 0 => BackfillCompletes)
  BY DEF ArchiveInv
<1>. QED BY <1>1, ArchiveInitInv, ArchiveStep, PTL DEF ArchiveSpec
=============================================================================
