-------------------------- MODULE RetentionProofs ---------------------------
(***************************************************************************)
(* The invariant of RetentionInv is inductive, for every archive, every    *)
(* rule and every number of faults, and what follows from it.              *)
(***************************************************************************)
EXTENDS RetentionInv, FiniteSetTheorems, WellFoundedInduction, TLAPS

(***************************************************************************)
(* Types, and the lemmas about operators the other proofs rest on          *)
(***************************************************************************)

NatLess == {m \in Nat \X Nat : m[1] < m[2]}

\* A nonempty set of naturals has a least element.
LEMMA LeastExists ==
    ASSUME NEW S \in SUBSET Nat, S # {}
    PROVE  \E k \in S : \A l \in S : k <= l
<1>1. OpToRel(<, Nat) = NatLess
  BY DEF OpToRel, NatLess
<1>2. IsWellFoundedOn(NatLess, Nat)
  BY <1>1, NatLessThanWellFounded
<1>3. PICK k \in S : \A l \in S : <<l, k>> \notin NatLess
  BY <1>2, WFMin, Zenon
<1>4. ASSUME NEW l \in S PROVE k <= l
  <2>1. k \in Nat /\ l \in Nat /\ ~(l < k)
    BY <1>3 DEF NatLess
  <2>. QED BY <2>1
<1>. QED BY <1>4

\* A nonempty bounded set of naturals has a greatest one.
LEMMA GreatestExists ==
    ASSUME NEW b \in Nat, NEW S \in SUBSET (0 .. b), S # {}
    PROVE  \E k \in S : \A l \in S : l <= k
<1> DEFINE T == {b - k : k \in S}
<1>1. T \in SUBSET Nat /\ T # {}
  <2>1. ASSUME NEW k \in S PROVE b - k \in Nat
    OBVIOUS
  <2>. QED BY <2>1
<1>2. PICK t \in T : \A u \in T : t <= u
  BY <1>1, LeastExists
<1>3. PICK k \in S : t = b - k
  OBVIOUS
<1>4. ASSUME NEW l \in S PROVE l <= k
  <2>1. b - l \in T /\ b - k <= b - l
    BY <1>2, <1>3
  <2>. QED BY <2>1
<1>. QED BY <1>4

LEMMA SetsArePoints ==
    /\ Sets \subseteq Points
    /\ \A p \in Points : SetOf[p] \in Sets /\ SetOf[p] \in Points
    /\ \A p \in Points : p > Initial => SetOf[p] = p
    /\ \A p, q \in Points : SetOf[p] = SetOf[q] /\ p > Initial => p = q
BY ArchiveAssumption DEF Sets, SetOf, Points

LEMMA DueType == ASSUME TypeOK PROVE Due \in Nat
BY RetentionTimes DEF TypeOK, Due

LEMMA TakenType ==
    ASSUME NEW p \in Points
    PROVE  Taken(p) \in Nat /\ (p <= Initial => Taken(p) = 0)
BY ArchiveAssumption DEF Taken, Points

LEMMA PlanType == ASSUME TypeOK PROVE Plan \in Plans
<1>1. spec.keep \in Nat
  BY DEF TypeOK, Specs
<1>2. Eligible \subseteq Points
  BY DEF Eligible, Usable, TypeOK, Views
<1>3. Selected \subseteq Eligible
  BY DEF Selected
<1>. QED BY <1>1, <1>2, <1>3 DEF Plan, Plans

-----------------------------------------------------------------------------
LEMMA InitTypeOK == Init => TypeOK
<1> SUFFICES ASSUME Init PROVE TypeOK
  OBVIOUS
<1>. USE ArchiveAssumption, RuleAssumption, RetentionTimes DEF Init
<1>1. ArchiveOK
  BY DEF ArchiveOK
<1>2. view \in Views
  BY DEF Views, Existing
<1>3. NoPlan \in Plans /\ NoRun \in Runs
  BY DEF NoPlan, NoRun, Plans, Runs
<1>4. spec \in Specs
  <2>1. PICK a \in AttendedChoices, k \in KeepChoices :
            spec = [approved |-> NoPlan, attended |-> a, keep |-> k, held |-> {},
                    enforce |-> TRUE, gen |-> 1]
    OBVIOUS
  <2>2. a \in BOOLEAN /\ k \in Nat
    OBVIOUS
  <2>. QED BY ONLY <1>3, <2>1, <2>2 DEF Specs
<1>5. st \in Statuses
  BY <1>3 DEF Statuses
<1>6. JobsOK
  BY DEF JobsOK
<1>. QED BY <1>1, <1>2, <1>3, <1>4, <1>5, <1>6 DEF TypeOK, Stages

LEMMA TickType == TypeOK /\ Tick => TypeOK'
BY DEF TypeOK, Tick, ArchiveOK, JobsOK, policy, Keys

LEMMA SyncType == TypeOK /\ Sync => TypeOK'
<1> SUFFICES ASSUME TypeOK, Sync PROVE TypeOK'
  OBVIOUS
<1>1. view' \in Views
  BY RetentionTimes DEF TypeOK, Sync, Views, Existing
<1>. QED BY <1>1 DEF TypeOK, Sync, ArchiveOK, JobsOK, archive, policy

LEMMA OthersType ==
    TypeOK /\ (\/ SwitchOnVersioning
               \/ \E p \in Points : RefuseVerdict(p)
               \/ \E s \in Sets : BeginRestore(s) \/ EndRestore(s)) => TypeOK'
BY DEF TypeOK, SwitchOnVersioning, RefuseVerdict, BeginRestore, EndRestore, ArchiveOK, JobsOK,
       archive, policy, Existing

LEMMA EditType == TypeOK /\ Edit => TypeOK'
<1> SUFFICES ASSUME TypeOK, Edit PROVE TypeOK'
  OBVIOUS
<1>1. NoPlan \in Plans /\ spec.approved \in Plans /\ st.plan \in Plans
  BY DEF TypeOK, NoPlan, Plans, Specs, Statuses
<1>2. spec.gen + 1 \in Nat /\ spec.attended \in BOOLEAN
  BY DEF TypeOK, Specs
<1>3. spec' \in Specs
  BY <1>1, <1>2, RuleAssumption, ArchiveAssumption DEF Edit, Specs
<1>. QED BY <1>3 DEF TypeOK, Edit, ArchiveOK, JobsOK, archive

-----------------------------------------------------------------------------
(***************************************************************************)
(* The pass                                                                *)
(***************************************************************************)

LEMMA NoRunType == NoPlan \in Plans /\ NoRun \in Runs
BY DEF NoPlan, NoRun, Plans, Runs

LEMMA IdleType ==
    ASSUME Idle PROVE pc' \in Stages /\ pass' \in Runs /\ fresh' \in BOOLEAN
BY NoRunType DEF Idle, Stages

LEMMA ReportType ==
    ASSUME TypeOK, NEW r PROVE ReportOf(r) \in Reports
<1>1. Lost \in Reports
  BY DEF Lost, Reports
<1>2. CASE r \in DOMAIN job
  <2>1. job[r] \in Jobs
    BY <1>2 DEF TypeOK, JobsOK
  <2>. QED BY <1>2, <2>1 DEF ReportOf, Jobs
<1>. QED BY <1>1, <1>2 DEF ReportOf

LEMMA BudgetType == ASSUME TypeOK PROVE BudgetBefore \in Nat
BY DEF TypeOK, BudgetBefore, Statuses

LEMMA AdoptedType == ASSUME TypeOK PROVE Adopted \in Statuses
BY BudgetType DEF TypeOK, Adopted, Statuses, Specs

LEMMA HarvestType == TypeOK /\ Harvest => TypeOK'
<1> SUFFICES ASSUME TypeOK, Harvest PROVE TypeOK'
  OBVIOUS
<1> DEFINE report == ReportOf(st.run)
<1>1. report \in Reports
  BY ReportType
<1>2. FailuresAfter(report) \in Nat
  BY BudgetType DEF FailuresAfter
<1>3. {f[1] : f \in {g \in report.failed : g[2] = "Locked"}} \in SUBSET Points
  BY <1>1 DEF Reports, Failures
<1>4. BucketLevel(report) \in BOOLEAN
  BY DEF BucketLevel
<1>5. st' \in Statuses
  <2>1. st \in Statuses /\ now \in Nat /\ spec.gen \in Nat
    BY DEF TypeOK, Specs
  <2>2. st' = [st EXCEPT !.ended = now,
                        !.locked = {f[1] : f \in {g \in report.failed : g[2] = "Locked"}},
                        !.bucketOnly = BucketLevel(report),
                        !.lease = NoRun,
                        !.failures = FailuresAfter(report),
                        !.gen = spec.gen]
    BY DEF Harvest
  <2>. HIDE DEF report
  <2>. QED BY <1>2, <1>3, <1>4, <2>1, <2>2, NoRunType DEF Statuses
<1>6. JobsOK'
  <2>1. CASE st.run \in DOMAIN job
    <3>1. job[st.run] \in Jobs /\ Lost \in Reports
      BY <2>1 DEF TypeOK, JobsOK, Lost, Reports
    <3>2. [job[st.run] EXCEPT !.ttl = TRUE, !.report = Lost] \in Jobs
      BY <3>1 DEF Jobs
    <3>3. job' = [job EXCEPT ![st.run] = [job[st.run] EXCEPT !.ttl = TRUE, !.report = Lost]]
      BY <2>1 DEF Harvest
    <3>. QED BY <2>1, <3>2, <3>3 DEF TypeOK, JobsOK
  <2>. QED BY <2>1 DEF TypeOK, JobsOK, Harvest
<1>. QED BY <1>5, <1>6, IdleType DEF TypeOK, Harvest, ArchiveOK, archive

LEMMA RunningType == TypeOK /\ ReportRunning => TypeOK'
BY AdoptedType, IdleType DEF TypeOK, ReportRunning, ArchiveOK, JobsOK, archive

LEMMA EvaluateType == TypeOK /\ Evaluate => TypeOK'
<1> SUFFICES ASSUME TypeOK, Evaluate PROVE TypeOK'
  OBVIOUS
<1>1. Plan \in Plans /\ Adopted \in Statuses /\ Due \in Nat
  BY PlanType, AdoptedType, DueType
<1>2. RunOf(Plan) \in Runs
  BY <1>1 DEF RunOf, Runs, TypeOK
<1>3. st' \in Statuses
  <2>1. now + PlanMaxAge \in Nat
    BY RetentionTimes DEF TypeOK
  <2>. QED BY <1>1, <2>1 DEF Evaluate, Statuses
<1>4. pc' \in Stages /\ pass' \in Runs
  BY <1>2, NoRunType DEF Evaluate, Stages
<1>. QED BY <1>3, <1>4 DEF TypeOK, Evaluate, ArchiveOK, JobsOK, archive

LEMMA LeaseType == TypeOK /\ TakeLease => TypeOK'
<1> SUFFICES ASSUME TypeOK, TakeLease PROVE TypeOK'
  OBVIOUS
<1>1. st' \in Statuses
  BY DEF TakeLease, TypeOK, Statuses
<1>. QED BY <1>1, IdleType DEF TypeOK, TakeLease, ArchiveOK, JobsOK, archive, Stages

LEMMA ListType == TypeOK /\ ListRestores => TypeOK'
BY IdleType DEF TypeOK, ListRestores, ArchiveOK, JobsOK, archive, Stages

LEMMA RecordType == TypeOK /\ Record => TypeOK'
<1> SUFFICES ASSUME TypeOK, Record PROVE TypeOK'
  OBVIOUS
<1>1. st' \in Statuses
  <2>1. st \in Statuses /\ pass \in Runs
    BY DEF TypeOK
  <2>2. CASE st' = st
    BY <2>1, <2>2
  <2>3. CASE st' = [st EXCEPT !.run = pass, !.ended = 0, !.locked = {}, !.bucketOnly = FALSE]
    BY <2>1, <2>3 DEF Statuses
  <2>. QED BY <2>2, <2>3 DEF Record
<1>. QED BY <1>1, IdleType DEF TypeOK, Record, ArchiveOK, JobsOK, archive, Stages

LEMMA WithJobType ==
    ASSUME TypeOK, NEW r \in Runs
    PROVE  DOMAIN WithJob(r) \subseteq Runs /\ WithJob(r) \in [DOMAIN WithJob(r) -> Jobs]
<1>1. NoLine \in Lines /\ Lost \in Reports
  BY DEF NoLine, Lines, Causes, Lost, Reports
<1>2. {SetOf[p] : p \in r[1].lines} \in SUBSET Sets
  BY SetsArePoints DEF Runs, Plans
<1>3. now + Deadline \in Nat
  BY RetentionTimes DEF TypeOK
<1>4. NewJob(r) \in Jobs
  BY <1>1, <1>2, <1>3 DEF NewJob, Jobs
<1>. QED BY <1>4 DEF WithJob, TypeOK, JobsOK

LEMMA CreateType == TypeOK /\ Create => TypeOK'
BY WithJobType, IdleType DEF TypeOK, Create, ArchiveOK, JobsOK, archive

LEMMA CreateFailsType == TypeOK /\ CreateFails => TypeOK'
<1> SUFFICES ASSUME TypeOK, CreateFails PROVE TypeOK'
  OBVIOUS
<1>1. st' \in Statuses
  <2>1. st \in Statuses /\ (st' = [st EXCEPT !.run = NoRun] \/ st' = st)
    BY DEF TypeOK, CreateFails
  <2>2. CASE st' = st
    BY <2>1, <2>2
  <2>3. CASE st' = [st EXCEPT !.run = NoRun]
    BY <2>1, <2>3, NoRunType DEF Statuses
  <2>. QED BY <2>1, <2>2, <2>3
<1>2. pass \in Runs
  BY DEF TypeOK
<1>3. job' = job \/ job' = WithJob(pass)
  BY DEF CreateFails
<1>4. JobsOK'
  BY <1>2, <1>3, WithJobType DEF TypeOK, JobsOK
<1>. QED BY <1>1, <1>4, IdleType DEF TypeOK, CreateFails, Fault, ArchiveOK, archive

LEMMA CrashType == TypeOK /\ Crash => TypeOK'
BY IdleType DEF TypeOK, Crash, Fault, ArchiveOK, JobsOK, archive

-----------------------------------------------------------------------------
(***************************************************************************)
(* The worker                                                              *)
(***************************************************************************)

LEMMA JobType == ASSUME TypeOK, NEW r \in DOMAIN job PROVE job[r] \in Jobs /\ r \in Runs
BY DEF TypeOK, JobsOK

LEMMA OneJobType ==
    ASSUME TypeOK, NEW r \in DOMAIN job, NEW j \in Jobs, job' = [job EXCEPT ![r] = j]
    PROVE  JobsOK'
BY DEF TypeOK, JobsOK

LEMMA MembersType ==
    ASSUME TypeOK, NEW r \in DOMAIN job PROVE Members(r) \subseteq Points
BY JobType DEF Members, Runs, Plans

LEMMA ReportTypes == Lost \in Reports /\ NoLine \in Lines
BY DEF Lost, Reports, NoLine, Lines, Causes

\* Changes to the record of a Job.
LEMMA LineUpdates ==
    ASSUME NEW l \in Lines, NEW k, NEW code \in Causes
    PROVE  /\ [l EXCEPT !.gone = 1] \in Lines
           /\ [l EXCEPT !.keys = @ \ {k}, !.gone = @ + 1] \in Lines
           /\ k \in Keys => Spare(l, k, code) \in Lines
<1>1. l.gone + 1 \in Int
  BY DEF Lines
<1>2. [l EXCEPT !.gone = 1] \in Lines
  BY DEF Lines
<1>3. [l EXCEPT !.keys = @ \ {k}, !.gone = @ + 1] \in Lines
  BY <1>1 DEF Lines
<1>4. ASSUME k \in Keys
      PROVE  Spare(l, k, code) \in Lines
  BY <1>4 DEF Lines, Spare
<1>. QED BY <1>2, <1>3, <1>4

LEMMA JobUpdates ==
    ASSUME NEW j \in Jobs, NEW l \in Lines
    PROVE  /\ [j EXCEPT !.line = l] \in Jobs
           /\ [j EXCEPT !.count = @ + 1, !.line = l] \in Jobs
           /\ [j EXCEPT !.step = "segments", !.count = @ + 1, !.line = l] \in Jobs
           /\ [j EXCEPT !.step = "manifest"] \in Jobs
           /\ [j EXCEPT !.step = "next", !.line = l] \in Jobs
<1>1. j.count + 1 \in Int
  BY DEF Jobs
<1>2. [j EXCEPT !.line = l] \in Jobs
  BY DEF Jobs
<1>3. [j EXCEPT !.count = @ + 1, !.line = l] \in Jobs
  BY <1>1 DEF Jobs
<1>4. [j EXCEPT !.step = "segments", !.count = @ + 1, !.line = l] \in Jobs
  BY <1>1 DEF Jobs, AtLine
<1>5. [j EXCEPT !.step = "manifest"] \in Jobs
  BY DEF Jobs, AtLine
<1>6. [j EXCEPT !.step = "next", !.line = l] \in Jobs
  BY DEF Jobs
<1>. QED BY <1>2, <1>3, <1>4, <1>5, <1>6

\* Every worker step rewrites one Job.
LEMMA UnfinishedType ==
    ASSUME TypeOK, NEW r \in DOMAIN job, NEW code \in Causes
    PROVE  \E j \in Jobs : Unfinished(r, code) = [job EXCEPT ![r] = j]
<1> DEFINE j == [job[r] EXCEPT !.step = "next", !.line = NoLine,
                               !.report = [job[r].report EXCEPT
                                   !.failed = @ \cup (Members(r) \X {code})]]
<1>1. job[r] \in Jobs /\ NoLine \in Lines
  BY JobType, ReportTypes
<1>2. Members(r) \X {code} \subseteq Failures
  BY MembersType DEF Failures
<1>3. [job[r].report EXCEPT !.failed = @ \cup (Members(r) \X {code})] \in Reports
  BY <1>1, <1>2 DEF Jobs, Reports
<1>4. j \in Jobs
  BY <1>1, <1>3 DEF Jobs
<1>5. Unfinished(r, code) = [job EXCEPT ![r] = j]
  BY DEF Unfinished
<1>. QED BY <1>4, <1>5

LEMMA EndedType ==
    ASSUME TypeOK, NEW r \in DOMAIN job, NEW report \in Reports, Ended(r, report)
    PROVE  JobsOK' /\ streak' \in Nat
<1>1. DoneJob(report) \in Jobs
  BY ReportTypes DEF DoneJob, Jobs
<1>2. JobsOK'
  BY <1>1, OneJobType DEF Ended
<1>3. streak' \in Nat
  BY DEF Ended, TypeOK
<1>. QED BY <1>2, <1>3

LEMMA AdmitType == \A r \in DOMAIN job : TypeOK /\ Admit(r) => TypeOK'
<1> SUFFICES ASSUME TypeOK, NEW r \in DOMAIN job, Admit(r) PROVE TypeOK'
  OBVIOUS
<1>1. CASE Ended(r, [exit |-> "refused", failed |-> {}])
  <2>1. [exit |-> "refused", failed |-> {}] \in Reports
    BY DEF Reports
  <2>. QED BY <1>1, <2>1, EndedType DEF TypeOK, Admit, ArchiveOK, archive, policy
<1>2. CASE job' = [job EXCEPT ![r].step = "next"] /\ UNCHANGED streak
  <2>1. [job[r] EXCEPT !.step = "next"] \in Jobs
    BY JobType DEF Jobs
  <2>2. JobsOK'
    BY <1>2, <2>1, OneJobType
  <2>. QED BY <1>2, <2>2 DEF TypeOK, Admit, ArchiveOK, archive, policy
<1>. QED BY <1>1, <1>2 DEF Admit

\* The greatest set of the list comes first.
LEMMA NextSet ==
    ASSUME TypeOK, NEW r \in DOMAIN job, job[r].todo # {}
    PROVE  Max(job[r].todo) \in job[r].todo
<1>1. job[r].todo \in SUBSET (0 .. N) /\ N \in Nat
  <2>1. job[r].todo \in SUBSET Sets
    BY JobType DEF Jobs
  <2>2. N \in Nat /\ Sets \subseteq 1 .. N
    BY SetsArePoints, ArchiveAssumption DEF Points
  <2>3. 1 .. N \subseteq 0 .. N
    BY <2>2
  <2>. QED BY <2>1, <2>2, <2>3, Zenon
<1>. QED BY <1>1, GreatestExists DEF Max

LEMMA NextSegment ==
    ASSUME TypeOK, NEW r \in DOMAIN job, job[r].line.keys # {}
    PROVE  Min(job[r].line.keys) \in job[r].line.keys
<1>1. job[r].line.keys \in SUBSET Nat
  BY JobType, ArchiveAssumption DEF Jobs, Lines, Keys
<1>. QED BY <1>1, LeastExists DEF Min

LEMMA NextLineType == \A r \in DOMAIN job : TypeOK /\ NextLine(r) => TypeOK'
<1> SUFFICES ASSUME TypeOK, NEW r \in DOMAIN job, NextLine(r) PROVE TypeOK'
  OBVIOUS
<1> DEFINE s == Max(job[r].todo)
           line == [NoLine EXCEPT !.at = s, !.keys = there[s] \ {Manifest}]
<1>1. s \in Sets
  BY NextSet, JobType DEF NextLine, Jobs
<1>2. there[s] \subseteq Keys
  BY <1>1 DEF TypeOK, ArchiveOK
<1>3. line \in Lines
  BY <1>1, <1>2, ReportTypes DEF Lines, NoLine
<1>. DEFINE j == [job[r] EXCEPT !.step = "intent", !.todo = @ \ {s}, !.line = line]
<1>4. j \in Jobs
  BY <1>3, JobType DEF Jobs, AtLine
<1>6. job' = [job EXCEPT ![r] = j]
  BY DEF NextLine
<1>5. JobsOK'
  BY <1>4, <1>6, OneJobType
<1>. QED BY <1>5 DEF TypeOK, NextLine, ArchiveOK, archive, policy

LEMMA UnfinishedJobs ==
    ASSUME TypeOK, NEW r \in DOMAIN job, NEW code \in Causes, job' = Unfinished(r, code)
    PROVE  JobsOK'
<1>1. PICK j \in Jobs : Unfinished(r, code) = [job EXCEPT ![r] = j]
  BY UnfinishedType
<1>. QED BY <1>1, OneJobType

LEMMA IntendType == \A r \in DOMAIN job : TypeOK /\ Intend(r) => TypeOK'
<1> SUFFICES ASSUME TypeOK, NEW r \in DOMAIN job, Intend(r) PROVE TypeOK'
  OBVIOUS
<1>1. intents' \in SUBSET (Runs \X Points)
  BY MembersType, JobType DEF Intend, TypeOK
<1>2. JobsOK'
  <2>1. [job[r] EXCEPT !.step = "manifest"] \in Jobs
    BY JobType DEF Jobs, AtLine
  <2>2. CASE job' = [job EXCEPT ![r].step = "manifest"]
    BY <2>1, <2>2, OneJobType
  <2>3. {"Budget", "Refused", "Versioned"} \subseteq Causes
    BY DEF Causes
  <2>4. CASE job' = Unfinished(r, "Budget")
    BY <2>3, <2>4, UnfinishedJobs
  <2>5. CASE job' = Unfinished(r, "Refused")
    BY <2>3, <2>5, UnfinishedJobs
  <2>6. CASE job' = Unfinished(r, "Versioned")
    BY <2>3, <2>6, UnfinishedJobs
  <2>7. \/ job' = Unfinished(r, "Budget") \/ job' = Unfinished(r, "Refused")
        \/ job' = Unfinished(r, "Versioned") \/ job' = [job EXCEPT ![r].step = "manifest"]
    BY DEF Intend
  <2>. QED BY <2>2, <2>4, <2>5, <2>6, <2>7
<1>. QED BY <1>1, <1>2 DEF TypeOK, Intend, ArchiveOK, archive, policy

LEMMA DeleteType ==
    ASSUME TypeOK, NEW s \in Sets, NEW k, Delete(s, k)
    PROVE  ArchiveOK'
<1>1. there[s] \in SUBSET Keys /\ marked[s] \in SUBSET Keys
  BY DEF TypeOK, ArchiveOK
<1>2. there' \in [Sets -> SUBSET Keys]
  BY <1>1 DEF Delete, TypeOK, ArchiveOK
<1>3. marked' \in [Sets -> SUBSET Keys]
  BY <1>1 DEF Delete, TypeOK, ArchiveOK
<1>. QED BY <1>2, <1>3 DEF ArchiveOK

\* A worker deletes nothing while it has no set at hand.
LEMMA AtType ==
    ASSUME IInv, NEW r \in DOMAIN job, job[r].step \in AtLine
    PROVE  job[r].line.at \in Sets
BY JobType, SetsArePoints DEF IInv, WorkersKnow, WorkerKnows, Runs, Plans

LEMMA ObstaclesType == \A s, k : Obstacles(s, k) \subseteq Causes
BY DEF Obstacles, Causes

LEMMA ManifestType == \A r \in DOMAIN job : IInv /\ DeleteManifest(r) => TypeOK'
<1> SUFFICES ASSUME IInv, NEW r \in DOMAIN job, DeleteManifest(r) PROVE TypeOK'
  OBVIOUS
<1>. USE DEF IInv
<1>1. job[r].line.at \in Sets
  BY AtType DEF DeleteManifest, Running, AtLine
<1>2. CASE /\ Delete(job[r].line.at, Manifest)
           /\ job' = [job EXCEPT ![r].step = "segments", ![r].count = @ + 1, ![r].line.gone = 1]
  <2>. DEFINE line == [job[r].line EXCEPT !.gone = 1]
             j == [job[r] EXCEPT !.step = "segments", !.count = @ + 1, !.line = line]
  <2>1. job[r] \in Jobs /\ job[r].line \in Lines /\ "none" \in Causes
    BY JobType DEF Jobs, Causes
  <2>2. line \in Lines
    BY ONLY ZenonT(60), <2>1, LineUpdates
  <2>6. j \in Jobs
    BY ONLY <2>1, <2>2, JobUpdates
  <2>7. job' = [job EXCEPT ![r] = j]
    BY <1>2
  <2>3. JobsOK'
    BY <2>6, <2>7, OneJobType
  <2>4. ArchiveOK'
    BY <1>1, <1>2, DeleteType
  <2>. QED BY <2>3, <2>4 DEF TypeOK, DeleteManifest, policy
<1>3. CASE /\ \E code \in Obstacles(job[r].line.at, Manifest) : job' = Unfinished(r, code)
           /\ UNCHANGED <<there, marked>>
  <2>1. JobsOK'
    BY <1>3, ObstaclesType, UnfinishedJobs
  <2>. QED BY <1>3, <2>1 DEF TypeOK, ArchiveOK, DeleteManifest, policy
<1>. QED BY <1>2, <1>3 DEF DeleteManifest

LEMMA SegmentType == \A r \in DOMAIN job : IInv /\ DeleteSegment(r) => TypeOK'
<1> SUFFICES ASSUME IInv, NEW r \in DOMAIN job, DeleteSegment(r) PROVE TypeOK'
  OBVIOUS
<1>. USE DEF IInv
<1> DEFINE line == job[r].line
           s == line.at
           k == Min(line.keys)
<1>1. s \in Sets
  BY AtType DEF DeleteSegment, Running, AtLine
<1>2. k \in line.keys /\ line \in Lines /\ k \in Keys
  BY NextSegment, JobType DEF DeleteSegment, Jobs, Lines
<1>3. job[r] \in Jobs
  BY JobType
<1>4. CASE /\ \E code \in IF job[r].count >= MaxObjects THEN {"Budget"} ELSE Obstacles(s, k) :
                 job' = [job EXCEPT ![r].line = Spare(@, k, code)]
           /\ UNCHANGED <<there, marked>>
  <2>1. (IF job[r].count >= MaxObjects THEN {"Budget"} ELSE Obstacles(s, k)) \subseteq Causes
    BY ObstaclesType DEF Causes
  <2>2. PICK code \in Causes :
            job' = [job EXCEPT ![r].line = Spare(@, k, code)]
    BY <1>4, <2>1
  <2>. DEFINE new == Spare(line, k, code)
              j == [job[r] EXCEPT !.line = new]
  <2>3. new \in Lines
    BY ONLY <1>2, <2>2, LineUpdates
  <2>4. j \in Jobs
    BY ONLY <1>3, <2>3, JobUpdates
  <2>5. job' = [job EXCEPT ![r] = j]
    BY <2>2
  <2>6. JobsOK'
    BY <2>4, <2>5, OneJobType
  <2>. QED BY <1>4, <2>6 DEF TypeOK, ArchiveOK, DeleteSegment, policy
<1>5. CASE /\ Delete(s, k)
           /\ job' = [job EXCEPT ![r].line.keys = @ \ {k}, ![r].count = @ + 1,
                                 ![r].line.gone = @ + 1]
  <2>. DEFINE new == [line EXCEPT !.keys = @ \ {k}, !.gone = @ + 1]
              j == [job[r] EXCEPT !.count = @ + 1, !.line = new]
  <2>1. "none" \in Causes
    BY DEF Causes
  <2>2. new \in Lines
    BY ONLY <1>2, <2>1, LineUpdates
  <2>3. j \in Jobs
    BY ONLY <1>3, <2>2, JobUpdates
  <2>4. job' = [job EXCEPT ![r] = j]
    BY <1>5
  <2>5. JobsOK'
    BY <2>3, <2>4, OneJobType
  <2>6. ArchiveOK'
    BY <1>1, <1>5, DeleteType
  <2>. QED BY <2>5, <2>6 DEF TypeOK, DeleteSegment, policy
<1>. QED BY <1>4, <1>5 DEF DeleteSegment

LEMMA ConcludeType == \A r \in DOMAIN job : TypeOK /\ Conclude(r) => TypeOK'
<1> SUFFICES ASSUME TypeOK, NEW r \in DOMAIN job, Conclude(r) PROVE TypeOK'
  OBVIOUS
<1>1. completed' \in SUBSET (Runs \X Points)
  BY MembersType, JobType DEF Conclude, TypeOK
<1>2. job[r] \in Jobs /\ NoLine \in Lines
  BY JobType, ReportTypes
<1>3. JobsOK'
  <2>1. CASE \E code \in Causes :
               job' = [Unfinished(r, code) EXCEPT ![r].count = @ - job[r].line.gone]
    <3>1. PICK code \in Causes :
              job' = [Unfinished(r, code) EXCEPT ![r].count = @ - job[r].line.gone]
      BY <2>1
    <3>2. PICK j \in Jobs : Unfinished(r, code) = [job EXCEPT ![r] = j]
      BY UnfinishedType
    <3>3. [j EXCEPT !.count = @ - job[r].line.gone] \in Jobs
      BY <1>2 DEF Jobs, Lines
    <3>4. job' = [job EXCEPT ![r] = [j EXCEPT !.count = @ - job[r].line.gone]]
      BY <3>1, <3>2
    <3>. QED BY <3>3, <3>4, OneJobType
  <2>2. CASE job' = Unfinished(r, job[r].line.code)
    BY <1>2, <2>2, UnfinishedJobs DEF Jobs, Lines
  <2>3. CASE job' = [job EXCEPT ![r].step = "next", ![r].line = NoLine]
    <3>1. [job[r] EXCEPT !.step = "next", !.line = NoLine] \in Jobs
      BY <1>2 DEF Jobs
    <3>. QED BY <2>3, <3>1, OneJobType
  <2>. QED BY <2>1, <2>2, <2>3 DEF Conclude, Causes
<1>. QED BY <1>1, <1>3 DEF TypeOK, Conclude, ArchiveOK, policy

LEMMA ExitType == \A r \in DOMAIN job : TypeOK /\ Exit(r) => TypeOK'
<1> SUFFICES ASSUME TypeOK, NEW r \in DOMAIN job, Exit(r) PROVE TypeOK'
  OBVIOUS
<1> DEFINE report == [exit |-> IF job[r].report.failed = {} THEN "ok" ELSE "incomplete",
                      failed |-> job[r].report.failed]
<1>1. report \in Reports
  BY JobType DEF Jobs, Reports
<1>2. JobsOK' /\ streak' \in Nat
  BY <1>1, EndedType DEF Exit
<1>. QED BY <1>2 DEF TypeOK, Exit, ArchiveOK, archive, policy

LEMMA LosePodType == \A r \in DOMAIN job : TypeOK /\ LosePod(r) => TypeOK'
<1> SUFFICES ASSUME TypeOK, NEW r \in DOMAIN job, LosePod(r) PROVE TypeOK'
  OBVIOUS
<1>1. faults' \in Nat
  BY DEF TypeOK, LosePod, Fault
<1>2. JobsOK' /\ streak' \in Nat
  <2>1. CASE Ended(r, Lost)
    BY <2>1, EndedType, ReportTypes
  <2>2. CASE job' = [job EXCEPT ![r].report = Lost] /\ UNCHANGED streak
    <3>1. [job[r] EXCEPT !.report = Lost] \in Jobs
      BY JobType, ReportTypes DEF Jobs
    <3>. QED BY <2>2, <3>1, OneJobType DEF TypeOK
  <2>. QED BY <2>1, <2>2 DEF LosePod
<1>. QED BY <1>1, <1>2 DEF TypeOK, LosePod, ArchiveOK, archive, policy

LEMMA RemoveJobType == \A r \in DOMAIN job : TypeOK /\ RemoveJob(r) => TypeOK'
BY DEF TypeOK, RemoveJob, Fault, ArchiveOK, JobsOK, archive, policy

-----------------------------------------------------------------------------
\* Every step keeps the types.
LEMMA NextTypeOK == IInv /\ [Next]_vars => TypeOK'
<1> SUFFICES ASSUME IInv, [Next]_vars PROVE TypeOK'
  OBVIOUS
<1>1. TypeOK
  BY DEF IInv
<1>2. CASE Pass \/ CreateFails \/ Crash
  BY <1>1, <1>2, HarvestType, RunningType, EvaluateType, LeaseType, ListType, RecordType,
     CreateType, CreateFailsType, CrashType DEF Pass
<1>3. CASE \E r \in DOMAIN job : Work(r) \/ LosePod(r) \/ RemoveJob(r)
  BY <1>1, <1>3, AdmitType, NextLineType, IntendType, ManifestType, SegmentType,
     ConcludeType, ExitType, LosePodType, RemoveJobType DEF Work
<1>4. CASE Tick \/ Sync \/ SwitchOnVersioning \/ Edit
  BY <1>1, <1>4, TickType, SyncType, OthersType, EditType
<1>5. CASE \/ \E p \in Points : RefuseVerdict(p)
           \/ \E s \in Sets : BeginRestore(s) \/ EndRestore(s)
  BY <1>1, <1>5, OthersType
<1>6. CASE UNCHANGED vars
  BY <1>1, <1>6 DEF TypeOK, ArchiveOK, JobsOK, vars, archive, policy
<1>. QED BY <1>2, <1>3, <1>4, <1>5, <1>6 DEF Next


(***************************************************************************)
(* Plans                                                                   *)
(***************************************************************************)

LEMMA PointsFinite == ASSUME NEW E \in SUBSET Points
    PROVE IsFiniteSet(E) /\ Cardinality(E) \in Nat
<1>1. IsFiniteSet(Points)
  BY FS_Interval, ArchiveAssumption DEF Points
<1>. QED BY <1>1, FS_Subset, FS_CardinalityType

LEMMA FloorType == NeverCandidates \in Nat /\ NeverCandidates >= 1
BY RuleAssumption DEF NeverCandidates

\* A plan stays sound as points are added.
LEMMA SoundGrows ==
    ASSUME NEW E \in SUBSET Points, NEW F \in SUBSET Points, E \subseteq F,
           NEW plan, SoundIn(E, plan)
    PROVE  SoundIn(F, plan)
<1>1. plan.lines # {} /\ plan.lines \subseteq F
  BY DEF SoundIn
<1>2. ASSUME NEW p \in plan.lines
      PROVE  Cardinality({q \in F : q > p}) >= NeverCandidates
  <2> DEFINE A == {q \in E : q > p}
             B == {q \in F : q > p}
  <2>1. A \in SUBSET B /\ IsFiniteSet(B) /\ Cardinality(A) \in Nat /\ Cardinality(B) \in Nat
    <3>1. A \in SUBSET Points /\ B \in SUBSET Points /\ A \in SUBSET B
      OBVIOUS
    <3>. QED BY <3>1, PointsFinite
  <2>2. Cardinality(A) <= Cardinality(B)
    BY <2>1, FS_Subset
  <2>3. Cardinality(A) >= NeverCandidates
    BY DEF SoundIn
  <2>. QED BY <2>1, <2>2, <2>3, FloorType
<1>3. \A p \in plan.lines : \A q \in Points : SetOf[q] = SetOf[p] => q \in plan.lines
  BY DEF SoundIn
<1>. QED BY <1>1, <1>2, <1>3 DEF SoundIn

LEMMA ExistingPoints == ASSUME TypeOK PROVE Existing \in SUBSET Points /\ 1 .. Initial \subseteq Existing
<1>1. Existing \in SUBSET Points
  BY DEF Existing
<1>2. ASSUME NEW p \in 1 .. Initial PROVE p \in Points /\ Taken(p) <= now
  <2>1. p \in Points
    BY ArchiveAssumption DEF Points
  <2>2. Taken(p) = 0
    BY <2>1, TakenType
  <2>. QED BY <2>1, <2>2 DEF TypeOK
<1>. QED BY <1>1, <1>2 DEF Existing

\* Of one set, a plan takes all or nothing.
LEMMA SelectedWhole ==
    ASSUME NEW p \in Selected, NEW q \in Group(p) PROVE q \in Selected
<1> DEFINE upTo[x \in 1 .. N + 1] ==
            IF x = N + 1 THEN {}
            ELSE LET with == upTo[x + 1] \cup (Group(x) \cap Eligible) IN
                 IF x \in Eligible /\ Cardinality(with) <= MaxDeletions
                 THEN with ELSE upTo[x + 1]
<1>1. Selected = {x \in Eligible : Group(x) \subseteq upTo[1]}
  BY DEF Selected
<1>. HIDE DEF upTo
<1>2. Group(q) = Group(p)
  BY DEF Group
<1>3. p \in Eligible /\ Group(p) \subseteq upTo[1]
  BY <1>1
<1>4. q \in Eligible
  BY <1>2, <1>3 DEF Eligible
<1>. QED BY <1>1, <1>2, <1>3, <1>4

\* A plan that starts a run is sound, and the spec authorises it.
LEMMA PlanSound ==
    ASSUME TypeOK, ViewKnown, MayStart(Plan)
    PROVE  /\ Sound(Plan)
           /\ spec.enforce /\ (spec.attended => spec.approved = Plan)
           /\ Plan.keep = spec.keep /\ Plan.lines \cap spec.held = {}
<1>1. Plan.lines = Selected /\ Plan.keep = spec.keep
  BY DEF Plan
<1>2. Selected \subseteq Eligible /\ Usable \subseteq Existing /\ Eligible \subseteq Usable
  BY DEF Selected, Usable, Eligible, ViewKnown
<1>3. view.rows \in SUBSET Points /\ Existing \in SUBSET Points
  BY ExistingPoints DEF TypeOK, Views
<1>4. ASSUME NEW p \in Selected
      PROVE  Candidate(p) /\ p \in view.rows /\ p \in Points
  <2>1. p \in Usable /\ p \in view.rows
    BY <1>2 DEF Usable, ViewKnown
  <2>2. p \in Group(p)
    BY <2>1 DEF Group
  <2>. QED BY <1>2, <1>3, <2>1, <2>2 DEF Eligible
<1>5. ASSUME NEW p \in Selected
      PROVE  Cardinality({q \in Existing : q > p}) >= NeverCandidates
  <2> DEFINE A == {q \in Usable : q > p}
             B == {q \in Existing : q > p}
  <2>1. A \in SUBSET B /\ IsFiniteSet(B) /\ Cardinality(A) \in Nat /\ Cardinality(B) \in Nat
    <3>1. A \in SUBSET Points /\ B \in SUBSET Points /\ A \in SUBSET B
      BY <1>2, <1>3
    <3>. QED BY <3>1, PointsFinite
  <2>2. Cardinality(A) <= Cardinality(B)
    BY <2>1, FS_Subset
  <2>3. Cardinality(A) >= NeverCandidates
    BY <1>4 DEF Candidate, Rank
  <2>. QED BY <2>1, <2>2, <2>3, FloorType
<1>6. ASSUME NEW p \in Selected, NEW q \in Points, SetOf[q] = SetOf[p]
      PROVE  q \in Selected
  <2>1. CASE q = p
    BY <2>1
  <2>2. CASE q # p
    <3>1. ~(q > Initial) /\ p \in Points
      BY <1>4, <1>6, <2>2, SetsArePoints
    <3>2. q \in 1 .. Initial
      BY <3>1, ArchiveAssumption DEF Points
    <3>3. q \in Group(p)
      BY <1>6, <3>2 DEF MayStart, ViewKnown, Group
    <3>. QED BY <3>3, SelectedWhole
  <2>. QED BY <2>1, <2>2
<1>7. Sound(Plan)
  BY <1>1, <1>2, <1>5, <1>6 DEF Sound, SoundIn, MayStart
<1>8. Plan.lines \cap spec.held = {}
  BY <1>1, <1>4 DEF Candidate, Unprotected
<1>. QED BY <1>1, <1>7, <1>8 DEF MayStart

-----------------------------------------------------------------------------
(***************************************************************************)
(* The archive                                                             *)
(***************************************************************************)

LEMMA PointsOfSets ==
    ASSUME TypeOK, NEW p \in Points
    PROVE  /\ SetOf[p] \in Sets
           /\ p \in Existing => Taken(SetOf[p]) <= now /\ Taken(SetOf[p]) # now + 1
           /\ Taken(p) = now + 1 => SetOf[p] = p /\ p > Initial
<1>1. SetOf[p] \in Sets /\ SetOf[p] \in Points /\ (p > Initial => SetOf[p] = p)
  BY SetsArePoints
<1>2. Initial \in Nat /\ now \in Nat /\ p \in Nat /\ SetOf[p] \in Nat
  BY <1>1, ArchiveAssumption DEF TypeOK, Points
<1>3. ASSUME p \in Existing PROVE Taken(SetOf[p]) <= now /\ Taken(SetOf[p]) # now + 1
  <2>1. Taken(p) <= now /\ Taken(p) \in Nat /\ Taken(SetOf[p]) \in Nat
    BY <1>1, <1>3, TakenType DEF Existing
  <2>2. CASE p > Initial
    BY <1>1, <1>2, <2>1, <2>2
  <2>3. CASE p <= Initial
    <3>1. SetOf[p] <= Initial
      BY <1>2, <2>3, ArchiveAssumption DEF SetOf
    <3>2. Taken(SetOf[p]) = 0
      BY <1>1, <3>1, TakenType
    <3>. QED BY <1>2, <3>2
  <2>. QED BY <1>2, <2>2, <2>3
<1>4. ASSUME Taken(p) = now + 1 PROVE SetOf[p] = p /\ p > Initial
  BY <1>1, <1>2, <1>4, TakenType
<1>. QED BY <1>1, <1>3, <1>4

\* Points are added, one tick at a time, and none is taken away.
LEMMA ExistingGrows ==
    ASSUME TypeOK, [Next]_vars
    PROVE  /\ Existing \subseteq Existing' /\ Existing' \in SUBSET Points
           /\ now' = now \/ Tick
           /\ now' = now => Existing' = Existing
<1>1. now' = now \/ Tick
  BY DEF Next, Pass, Work, Harvest, ReportRunning, Evaluate, TakeLease, ListRestores, Record,
         Create, CreateFails, Crash, Admit, NextLine, Intend, DeleteManifest, DeleteSegment,
         Conclude, Exit, LosePod, RemoveJob, Sync, SwitchOnVersioning, Edit, RefuseVerdict,
         BeginRestore, EndRestore, vars
<1>2. now' \in Nat /\ now <= now' /\ now \in Nat
  BY <1>1 DEF TypeOK, Tick
<1>3. \A p \in Points : Taken(p) \in Nat
  BY TakenType
<1>4. Existing \subseteq Existing' /\ Existing' \in SUBSET Points
  BY <1>2, <1>3 DEF Existing, Taken
<1>5. now' = now => Existing' = Existing
  BY DEF Existing, Taken
<1>. QED BY SMTT(60), <1>1, <1>4, <1>5

\* A worker that deletes is at a set of its plan, with the intent on record.
LEMMA AtWork ==
    ASSUME IInv, NEW r \in DOMAIN job, job[r].step \in {"manifest", "segments"}
    PROVE  /\ job[r].line.at \in Sets
           /\ \E p \in r[1].lines : SetOf[p] = job[r].line.at
           /\ \A p \in r[1].lines : SetOf[p] = job[r].line.at => <<r, p>> \in intents
           /\ Sound(r[1])
<1>1. WorkerKnows(r) /\ Sound(r[1])
  BY DEF IInv, WorkersKnow, PlansSound
<1>2. job[r].line.at \in {SetOf[p] : p \in r[1].lines} /\ {r} \X Members(r) \subseteq intents
  BY <1>1 DEF WorkerKnows, AtLine
<1>3. job[r].line.at \in Sets
  BY AtType DEF AtLine
<1>. QED BY <1>1, <1>2, <1>3 DEF Members

\* The objects of a set that existed only ever go, and only a deletion takes them.
LEMMA ArchiveStep ==
    ASSUME IInv, [Next]_vars
    PROVE  \/ UNCHANGED <<there, marked>>
           \/ /\ Tick /\ UNCHANGED marked
              /\ \A s \in Sets : there'[s] = IF Taken(s) = now + 1 THEN Keys ELSE there[s]
           \/ \E r \in DOMAIN job :
                 /\ job[r].step \in {"manifest", "segments"}
                 /\ \E k \in Keys :
                       /\ Delete(job[r].line.at, k)
                       /\ k = Manifest \/ Manifest \notin there[job[r].line.at]
                 /\ now' = now
                 /\ UNCHANGED <<intents, completed, versioned>>
<1>1. CASE Pass \/ CreateFails \/ Crash \/ Sync \/ SwitchOnVersioning \/ Edit
           \/ (\E p \in Points : RefuseVerdict(p))
           \/ (\E s \in Sets : BeginRestore(s) \/ EndRestore(s)) \/ UNCHANGED vars
  BY <1>1 DEF Pass, Harvest, ReportRunning, Evaluate, TakeLease, ListRestores, Record, Create,
     CreateFails, Crash, Sync, SwitchOnVersioning, Edit, RefuseVerdict, BeginRestore, EndRestore,
     vars, archive
<1>2. CASE Tick
  BY <1>2 DEF Tick
<1>3. ASSUME NEW r \in DOMAIN job, LosePod(r) \/ RemoveJob(r) \/ Admit(r) \/ NextLine(r)
             \/ Intend(r) \/ Conclude(r) \/ Exit(r)
      PROVE  UNCHANGED <<there, marked>>
  BY <1>3 DEF LosePod, RemoveJob, Admit, NextLine, Intend, Conclude, Exit, archive
<1>4. ASSUME NEW r \in DOMAIN job, DeleteManifest(r)
      PROVE  \/ UNCHANGED <<there, marked>>
             \/ /\ job[r].step = "manifest" /\ Delete(job[r].line.at, Manifest) /\ Manifest \in Keys
                /\ now' = now
                /\ UNCHANGED <<intents, completed, versioned>>
  BY <1>4, ArchiveAssumption DEF DeleteManifest, Running, Keys, Manifest
<1>5. ASSUME NEW r \in DOMAIN job, DeleteSegment(r)
      PROVE  \/ UNCHANGED <<there, marked>>
             \/ /\ job[r].step = "segments"
                /\ \E k \in Keys : Delete(job[r].line.at, k) /\ Manifest \notin there[job[r].line.at]
                /\ now' = now
                /\ UNCHANGED <<intents, completed, versioned>>
  <2>1. job[r].step = "segments" /\ job[r].line.keys # {} /\ job[r] \in Jobs
    BY <1>5, JobType DEF DeleteSegment, Running, IInv
  <2>2. Min(job[r].line.keys) \in job[r].line.keys
    BY <2>1, NextSegment DEF IInv
  <2>3. Min(job[r].line.keys) \in Keys
    BY <2>1, <2>2 DEF Jobs, Lines
  <2>4. Manifest \notin there[job[r].line.at]
    BY <2>1 DEF IInv, WorkersKnow, WorkerKnows
  <2>. QED BY <1>5, <2>1, <2>3, <2>4 DEF DeleteSegment
<1>. QED BY <1>1, <1>2, <1>3, <1>4, <1>5 DEF Next, Work

\* What is on record stays there, and what exists loses objects at most.
LEMMA ArchiveShrinks ==
    ASSUME IInv, [Next]_vars
    PROVE  /\ intents \subseteq intents' /\ completed \subseteq completed'
           /\ \A p \in Existing : there'[SetOf[p]] \subseteq there[SetOf[p]]
<1>. USE DEF IInv
<1>1. intents \subseteq intents' /\ completed \subseteq completed'
  BY ZenonT(60) DEF Next, Pass, Work, Harvest, ReportRunning, Evaluate, TakeLease, ListRestores, Record,
         Create, CreateFails, Crash, Admit, NextLine, Intend, DeleteManifest, DeleteSegment,
         Conclude, Exit, LosePod, RemoveJob, Tick, Sync, SwitchOnVersioning, Edit,
         RefuseVerdict, BeginRestore, EndRestore, vars, archive
<1>2. ASSUME NEW p \in Existing PROVE there'[SetOf[p]] \subseteq there[SetOf[p]]
  <2>1. SetOf[p] \in Sets /\ Taken(SetOf[p]) # now + 1
    BY PointsOfSets DEF Existing
  <2>2. CASE UNCHANGED <<there, marked>>
    BY <2>2
  <2>3. CASE \A s \in Sets : there'[s] = IF Taken(s) = now + 1 THEN Keys ELSE there[s]
    BY <2>1, <2>3
  <2>4. CASE \E s, k : Delete(s, k)
    BY <2>1, <2>4 DEF Delete, TypeOK, ArchiveOK
  <2>. QED BY <2>2, <2>3, <2>4, ArchiveStep
<1>. QED BY SMTT(60), <1>1, <1>2

LEMMA NoHollowStep == IInv /\ [Next]_vars => NoHollowSet'
<1> SUFFICES ASSUME IInv, [Next]_vars, NEW s \in Sets, Manifest \in there'[s]
             PROVE  there'[s] = Keys
  BY DEF NoHollowSet
<1>1. Manifest \in there[s] => there[s] = Keys
  BY DEF IInv, ArchiveSound, NoHollowSet
<1>2. CASE UNCHANGED <<there, marked>>
  BY <1>1, <1>2
<1>3. CASE \A t \in Sets : there'[t] = IF Taken(t) = now + 1 THEN Keys ELSE there[t]
  BY <1>1, <1>3
<1>4. ASSUME NEW t, NEW k, Delete(t, k), k = Manifest \/ Manifest \notin there[t]
      PROVE  there'[s] = Keys
  BY <1>1, <1>4 DEF Delete, IInv, TypeOK, ArchiveOK
<1>. QED BY <1>2, <1>3, <1>4, ArchiveStep

LEMMA AttributedStep == IInv /\ [Next]_vars => Attributed'
<1> SUFFICES ASSUME IInv, [Next]_vars, NEW p \in Existing', there'[SetOf[p]] # Keys
             PROVE  \E i \in intents' : SetOf[i[2]] = SetOf[p] /\ i[2] \in i[1][1].lines
  BY DEF Attributed
<1>1. p \in Points /\ SetOf[p] \in Sets /\ TypeOK
  BY ExistingGrows, PointsOfSets DEF IInv
<1>2. CASE p \in Existing /\ there[SetOf[p]] # Keys
  BY <1>2, ArchiveShrinks DEF IInv, ArchiveSound, Attributed
<1>3. CASE p \in Existing /\ there[SetOf[p]] = Keys
  <2>1. there' # there /\ Taken(SetOf[p]) # now + 1
    BY <1>1, <1>3, PointsOfSets
  <2>2. PICK r \in DOMAIN job : /\ job[r].step \in {"manifest", "segments"}
                                /\ \E k \in Keys : Delete(job[r].line.at, k)
                                /\ UNCHANGED intents
    BY <1>1, <1>3, <2>1, ArchiveStep
  <2>3. SetOf[p] = job[r].line.at
    BY <1>1, <1>3, <2>2 DEF Delete, TypeOK, ArchiveOK
  <2>4. PICK q \in r[1].lines : SetOf[q] = job[r].line.at /\ <<r, q>> \in intents
    BY <2>2, AtWork
  <2>. QED BY <2>2, <2>3, <2>4
<1>4. CASE p \notin Existing
  <2>1. now' # now /\ Tick
    BY <1>1, <1>4, ExistingGrows
  <2>2. Taken(p) <= now + 1 /\ ~(Taken(p) <= now) /\ Taken(p) \in Nat /\ now \in Nat
    BY <1>1, <1>4, <2>1, TakenType DEF Existing, Tick, Taken, TypeOK
  <2>3. Taken(p) = now + 1
    BY <2>2
  <2>4. SetOf[p] = p
    BY <1>1, <2>3, PointsOfSets
  <2>5. there'[SetOf[p]] = Keys
    BY <1>1, <2>1, <2>3, <2>4 DEF Tick
  <2>. QED BY <2>5
<1>. QED BY <1>2, <1>3, <1>4

LEMMA EarlyStep == IInv /\ [Next]_vars => NothingEarly'
<1> SUFFICES ASSUME IInv, [Next]_vars, NEW s \in Sets, there'[s] # {} PROVE s \in Existing'
  BY DEF NothingEarly
<1>0. TypeOK /\ Existing \subseteq Existing' /\ s \in Points
  BY ExistingGrows, SetsArePoints DEF IInv
<1>1. there[s] # {} => s \in Existing
  BY DEF IInv, ArchiveSound, NothingEarly
<1>2. CASE UNCHANGED <<there, marked>>
  BY <1>0, <1>1, <1>2
<1>3. CASE Tick /\ \A t \in Sets : there'[t] = IF Taken(t) = now + 1 THEN Keys ELSE there[t]
  <2>1. CASE Taken(s) = now + 1
    <3>1. now' = now + 1 /\ now \in Nat
      BY <1>0, <1>3 DEF Tick, TypeOK
    <3>. QED BY <1>0, <2>1, <3>1 DEF Existing, Taken
  <2>2. CASE Taken(s) # now + 1
    BY <1>0, <1>1, <1>3, <2>2
  <2>. QED BY <2>1, <2>2
<1>4. ASSUME NEW t, NEW k, Delete(t, k) PROVE s \in Existing'
  BY <1>0, <1>1, <1>4 DEF Delete, TypeOK, ArchiveOK
<1>. QED BY <1>2, <1>3, <1>4, ArchiveStep

LEMMA MarkersStep == IInv /\ [Next]_vars => MarkersNeedVersioning'
<1> SUFFICES ASSUME IInv, [Next]_vars, versioned' = 0, NEW s \in Sets PROVE marked'[s] = {}
  BY SMTT(60) DEF MarkersNeedVersioning
<1>1. versioned = 0 /\ TypeOK
  BY ZenonT(60) DEF IInv, TypeOK, Next, Pass, Work, Harvest, ReportRunning, Evaluate, TakeLease,
         ListRestores, Record, Create, CreateFails, Crash, Admit, NextLine, Intend,
         DeleteManifest, DeleteSegment, Conclude, Exit, LosePod, RemoveJob, Tick, Sync,
         SwitchOnVersioning, Edit, RefuseVerdict, BeginRestore, EndRestore, vars, archive
<1>2. marked[s] = {}
  BY <1>1 DEF IInv, MarkersNeedVersioning
<1>3. marked' = marked
  BY <1>1, ArchiveStep DEF Delete
<1>. QED BY <1>2, <1>3

LEMMA DeletedStep == IInv /\ [Next]_vars => DeletedIsGone'
<1> SUFFICES ASSUME IInv, [Next]_vars, NEW c \in completed'
             PROVE  there'[SetOf[c[2]]] = {} /\ marked'[SetOf[c[2]]] = {}
  BY DEF DeletedIsGone
<1>. DEFINE s == SetOf[c[2]]
<1>0. TypeOK
  BY DEF IInv
<1>1. CASE c \in completed
  <2>1. c[2] \in Existing /\ there[s] = {} /\ marked[s] = {}
    BY <1>1 DEF IInv, ArchiveSound, DeletedIsGone, PlansSound
  <2>2. s \in Sets /\ Taken(s) # now + 1 /\ there'[s] = {}
    BY <1>0, <2>1, PointsOfSets, ArchiveShrinks DEF Existing
  <2>3. marked'[s] = {}
    <3>1. CASE UNCHANGED marked
      BY <2>1, <3>1
    <3>2. ASSUME NEW t, NEW k, Delete(t, k) PROVE marked'[s] = {}
      BY <1>0, <2>1, <2>2, <3>2 DEF Delete, TypeOK, ArchiveOK
    <3>. QED BY <3>1, <3>2, ArchiveStep
  <2>. QED BY <2>2, <2>3
<1>2. CASE c \notin completed
  <2>1. PICK r \in DOMAIN job : Conclude(r)
    BY ZenonT(60), <1>2 DEF Next, Pass, Work, Harvest, ReportRunning, Evaluate, TakeLease, ListRestores,
         Record, Create, CreateFails, Crash, Admit, NextLine, Intend, DeleteManifest,
         DeleteSegment, Exit, LosePod, RemoveJob, Tick, Sync, SwitchOnVersioning, Edit,
         RefuseVerdict, BeginRestore, EndRestore, vars, archive
  <2>2. /\ versioned = 0 /\ job[r].line.left = {} /\ job[r].line.keys = {}
        /\ job[r].step = "segments" /\ c \in {r} \X Members(r)
        /\ UNCHANGED <<there, marked>>
    BY <1>2, <2>1 DEF Conclude, Running
  <2>3. s = job[r].line.at
    BY <2>2 DEF Members
  <2>4. there[s] = {}
    BY <2>2, <2>3 DEF IInv, WorkersKnow, WorkerKnows
  <2>5. s \in Sets
    BY <2>2, <2>3, AtWork
  <2>6. marked[s] = {}
    BY <2>2, <2>5 DEF IInv, MarkersNeedVersioning
  <2>. QED BY <2>2, <2>4, <2>6
<1>. QED BY <1>1, <1>2

-----------------------------------------------------------------------------
(***************************************************************************)
(* The view, the plans and the pass                                        *)
(***************************************************************************)

LEMMA ViewStep == IInv /\ [Next]_vars => ViewKnown'
<1> SUFFICES ASSUME IInv, [Next]_vars PROVE ViewKnown'
  OBVIOUS
<1>0. TypeOK /\ ViewKnown /\ Existing \subseteq Existing' /\ (now' = now => Existing' = Existing)
  BY ExistingGrows DEF IInv
<1>1. CASE Sync
  <2>1. PICK cut \in {{}} \cup (IF PartialViews THEN {{p} : p \in Existing} ELSE {}) :
            view' = [rows |-> Existing \ cut,
                     ok |-> {p \in Existing \ cut : DeepCheck => Manifest \in there[SetOf[p]]},
                     until |-> now + ViewLife, whole |-> cut = {}]
    BY <1>1 DEF Sync
  <2>2. Existing' = Existing
    BY <1>0, <1>1 DEF Sync
  <2>3. 1 .. Initial \subseteq Existing
    BY <1>0, ExistingPoints
  <2>. QED BY <2>1, <2>2, <2>3 DEF ViewKnown
<1>2. CASE UNCHANGED view
  BY SMTT(60), <1>0, <1>2 DEF ViewKnown
<1>3. Sync \/ UNCHANGED view
  BY DEF Next, Pass, Work, Harvest, ReportRunning, Evaluate, TakeLease, ListRestores, Record,
         Create, CreateFails, Crash, Admit, NextLine, Intend, DeleteManifest, DeleteSegment,
         Conclude, Exit, LosePod, RemoveJob, Tick, SwitchOnVersioning, Edit, RefuseVerdict,
         BeginRestore, EndRestore, vars
<1>. QED BY <1>1, <1>2, <1>3

\* A pass beyond its decision keeps the run it decided on.
LEMMA PassStep ==
    ASSUME [Next]_vars
    PROVE  \/ Evaluate /\ pc' = "lease" /\ MayStart(Plan) /\ pass' = RunOf(Plan)
           \/ pc' = "idle"
           \/ pass' = pass /\ pc' = pc /\ (fresh' = fresh \/ fresh' = FALSE)
           \/ /\ pass' = pass /\ fresh' = fresh
              /\ <<pc, pc'>> \in {<<"lease", "list">>, <<"list", "record">>, <<"record", "create">>}
<1>1. CASE Evaluate
  BY <1>1 DEF Evaluate
<1>2. CASE Harvest \/ ReportRunning \/ Create \/ CreateFails \/ Crash
  BY <1>2 DEF Harvest, ReportRunning, Create, CreateFails, Crash, Idle
<1>3. CASE TakeLease \/ ListRestores \/ Record
  BY <1>3 DEF TakeLease, ListRestores, Record, Idle
<1>4. CASE Tick \/ Sync \/ SwitchOnVersioning \/ Edit \/ UNCHANGED vars
  BY <1>4 DEF Tick, Sync, SwitchOnVersioning, Edit, vars, policy
<1>5. CASE (\E p \in Points : RefuseVerdict(p)) \/ (\E s \in Sets : BeginRestore(s) \/ EndRestore(s))
  BY <1>5 DEF RefuseVerdict, BeginRestore, EndRestore, policy
<1>6. CASE \E r \in DOMAIN job : Work(r) \/ LosePod(r) \/ RemoveJob(r)
  <2>1. PICK r \in DOMAIN job : Work(r) \/ LosePod(r) \/ RemoveJob(r)
    BY <1>6
  <2>2. CASE Admit(r) \/ NextLine(r) \/ Intend(r)
    BY <2>2 DEF Admit, NextLine, Intend, policy
  <2>3. CASE DeleteManifest(r) \/ DeleteSegment(r)
    BY <2>3 DEF DeleteManifest, DeleteSegment, policy
  <2>4. CASE Conclude(r) \/ Exit(r)
    BY <2>4 DEF Conclude, Exit, policy
  <2>5. CASE LosePod(r)
    BY <2>5 DEF LosePod, policy
  <2>6. CASE RemoveJob(r)
    BY <2>6 DEF RemoveJob, policy
  <2>. QED BY <2>1, <2>2, <2>3, <2>4, <2>5, <2>6 DEF Work
<1>. QED BY <1>1, <1>2, <1>3, <1>4, <1>5, <1>6 DEF Next, Pass

\* A Job's name is a run that was there, or the pass's.
LEMMA JobStep ==
    ASSUME TypeOK, [Next]_vars, NEW r \in DOMAIN job'
    PROVE  \/ r \in DOMAIN job
           \/ r = pass /\ pc = "create" /\ job' = WithJob(pass)
<1>1. CASE Create \/ CreateFails
  BY <1>1 DEF Create, CreateFails, WithJob
<1>4. CASE Harvest
  BY <1>4 DEF Harvest
<1>2. CASE \/ ReportRunning \/ Evaluate \/ TakeLease \/ ListRestores \/ Record \/ Crash
           \/ Tick \/ Sync \/ SwitchOnVersioning \/ Edit \/ UNCHANGED vars
           \/ (\E p \in Points : RefuseVerdict(p))
           \/ (\E s \in Sets : BeginRestore(s) \/ EndRestore(s))
  BY <1>2 DEF ReportRunning, Evaluate, TakeLease, ListRestores, Record, Crash,
     Tick, Sync, SwitchOnVersioning, Edit, RefuseVerdict, BeginRestore, EndRestore, vars
<1>3. ASSUME NEW q \in DOMAIN job, Work(q) \/ LosePod(q) \/ RemoveJob(q)
      PROVE  r \in DOMAIN job
  <2>1. CASE Admit(q) \/ Exit(q) \/ LosePod(q)
    BY <2>1 DEF Admit, Exit, LosePod, Ended
  <2>2. CASE RemoveJob(q)
    BY <2>2 DEF RemoveJob
  <2>3. CASE NextLine(q)
    BY <2>3 DEF NextLine
  <2>4. CASE Intend(q) \/ DeleteManifest(q) \/ Conclude(q)
    BY <2>4 DEF Intend, DeleteManifest, Conclude, Unfinished
  <2>5. CASE DeleteSegment(q)
    BY <2>5 DEF DeleteSegment
  <2>. QED BY <1>3, <2>1, <2>2, <2>3, <2>4, <2>5 DEF Work
<1>. QED BY <1>1, <1>2, <1>3, <1>4 DEF Next, Pass

LEMMA PlansStep == IInv /\ [Next]_vars => PlansSound'
<1> SUFFICES ASSUME IInv, [Next]_vars PROVE PlansSound'
  OBVIOUS
<1>. DEFINE E == Existing
            F == Existing'
<1>0. /\ TypeOK /\ ViewKnown /\ PlansSound
      /\ E \in SUBSET Points /\ F \in SUBSET Points /\ E \subseteq F
  BY ExistingGrows, ExistingPoints DEF IInv
<1>1. \A plan : SoundIn(E, plan) => SoundIn(F, plan)
  BY <1>0, SoundGrows
<1>2. ASSUME pc' # "idle" PROVE SoundIn(F, pass'[1])
  <2>1. CASE MayStart(Plan) /\ pass' = RunOf(Plan)
    <3>1. SoundIn(E, Plan)
      BY <1>0, <2>1, PlanSound DEF Sound
    <3>. QED BY <1>1, <2>1, <3>1 DEF RunOf
  <2>2. CASE pass' = pass /\ pc # "idle"
    <3>1. SoundIn(E, pass[1])
      BY <1>0, <2>2 DEF PlansSound, Sound
    <3>. QED BY <1>1, <2>2, <3>1
  <2>. QED BY <1>2, <2>1, <2>2, PassStep
<1>3. ASSUME NEW r \in DOMAIN job' PROVE SoundIn(F, r[1])
  <2>1. CASE r \in DOMAIN job
    BY <1>0, <1>1, <2>1 DEF PlansSound, Sound
  <2>2. CASE r = pass /\ pc = "create"
    BY <1>0, <1>1, <2>2 DEF PlansSound, Sound
  <2>. QED BY <1>0, <2>1, <2>2, JobStep
<1>4. ASSUME NEW i \in intents' PROVE SoundIn(F, i[1][1]) /\ i[2] \in i[1][1].lines
  <2>1. CASE i \in intents
    BY <1>0, <1>1, <2>1 DEF PlansSound, Sound
  <2>2. ASSUME NEW r \in DOMAIN job, i \in {r} \X Members(r)
        PROVE  SoundIn(F, i[1][1]) /\ i[2] \in i[1][1].lines
    BY SMTT(60), <1>0, <1>1, <2>2 DEF PlansSound, Sound, Members
  <2>3. i \in intents \/ \E r \in DOMAIN job : i \in {r} \X Members(r)
    BY ZenonT(60) DEF Next, Pass, Work, Harvest, ReportRunning, Evaluate, TakeLease, ListRestores, Record,
         Create, CreateFails, Crash, Admit, NextLine, Intend, DeleteManifest, DeleteSegment,
         Conclude, Exit, LosePod, RemoveJob, Tick, Sync, SwitchOnVersioning, Edit,
         RefuseVerdict, BeginRestore, EndRestore, vars, archive
  <2>. QED BY <2>1, <2>2, <2>3
<1>5. ASSUME NEW c \in completed' PROVE c[2] \in F
  <2>1. CASE c \in completed
    BY <1>0, <2>1 DEF PlansSound
  <2>2. ASSUME NEW r \in DOMAIN job, c \in {r} \X Members(r) PROVE c[2] \in F
    BY <1>0, <2>2 DEF PlansSound, Sound, SoundIn, Members
  <2>3. c \in completed \/ \E r \in DOMAIN job : c \in {r} \X Members(r)
    BY ZenonT(60) DEF Next, Pass, Work, Harvest, ReportRunning, Evaluate, TakeLease, ListRestores, Record,
         Create, CreateFails, Crash, Admit, NextLine, Intend, DeleteManifest, DeleteSegment,
         Conclude, Exit, LosePod, RemoveJob, Tick, Sync, SwitchOnVersioning, Edit,
         RefuseVerdict, BeginRestore, EndRestore, vars, archive
  <2>. QED BY <2>1, <2>2, <2>3
<1>. QED BY <1>2, <1>3, <1>4, <1>5 DEF PlansSound, Sound

\* What the decision saw is still so when the object has not been edited since.
LEMMA AuthorisedStep == IInv /\ [Next]_vars => PassAuthorised'
<1> SUFFICES ASSUME IInv, [Next]_vars, fresh', pc' \in {"lease", "list", "record"}
             PROVE  /\ spec'.enforce
                    /\ spec'.attended => spec'.approved = pass'[1]
                    /\ pass'[1].keep = spec'.keep /\ pass'[1].lines \cap spec'.held = {}
  BY SMTT(60) DEF PassAuthorised
<1>1. spec' = spec \/ fresh' = FALSE
  BY DEF Next, Pass, Work, Harvest, ReportRunning, Evaluate, TakeLease, ListRestores, Record,
         Create, CreateFails, Crash, Admit, NextLine, Intend, DeleteManifest, DeleteSegment,
         Conclude, Exit, LosePod, RemoveJob, Tick, Sync, SwitchOnVersioning, Edit,
         RefuseVerdict, BeginRestore, EndRestore, vars
<1>2. CASE MayStart(Plan) /\ pass' = RunOf(Plan)
  <2>1. pass'[1] = Plan
    BY <1>2 DEF RunOf
  <2>. QED BY <1>1, <1>2, <2>1, PlanSound DEF IInv
<1>3. CASE pass' = pass /\ fresh /\ pc \in {"lease", "list", "record"}
  BY <1>1, <1>3 DEF IInv, PassAuthorised
<1>. QED BY <1>2, <1>3, PassStep

LEMMA HarvestKeeps ==
    ASSUME TypeOK, Harvest
    PROVE  \A q \in DOMAIN job' : q \in DOMAIN job /\ job'[q].step = job[q].step
<1>1. CASE st.run \in DOMAIN job
  <2>. DEFINE j == [job[st.run] EXCEPT !.ttl = TRUE, !.report = Lost]
  <2>1. job' = [job EXCEPT ![st.run] = j]
    BY <1>1 DEF Harvest
  <2>2. j.step = job[st.run].step
    BY <1>1, JobType DEF Jobs
  <2>. QED BY <1>1, <2>1, <2>2 DEF TypeOK, JobsOK
<1>2. CASE st.run \notin DOMAIN job
  BY <1>2 DEF Harvest
<1>. QED BY <1>1, <1>2

\* Before a run is cleared to start no Restore is under way; those that begin are late.
LEMMA ClearedStep == IInv /\ [Next]_vars => ClearedKnows'
<1> SUFFICES ASSUME IInv, [Next]_vars, Cleared' PROVE reading' \subseteq late'
  BY DEF ClearedKnows
<1>0. TypeOK /\ (Cleared => reading \subseteq late)
  BY DEF IInv, ClearedKnows
<1>1. CASE ListRestores
  <2>1. reading = {} \/ pc' = "idle"
    BY <1>1 DEF ListRestores, Idle
  <2>2. UNCHANGED <<reading, late, job>>
    BY <1>1 DEF ListRestores
  <2>3. reading = {} \/ Cleared
    BY <2>1, <2>2 DEF Cleared
  <2>. QED BY <1>0, <2>2, <2>3
<1>2. CASE \E s \in Sets : BeginRestore(s) \/ EndRestore(s)
  <2>1. Cleared
    BY <1>2 DEF BeginRestore, EndRestore, Cleared, policy
  <2>. QED BY <1>0, <1>2, <2>1 DEF BeginRestore, EndRestore
<1>3. CASE Harvest \/ ReportRunning \/ Evaluate \/ TakeLease \/ Record \/ Create \/ CreateFails \/ Crash
  <2>1. UNCHANGED <<reading, late>>
    BY <1>3 DEF Harvest, ReportRunning, Evaluate, TakeLease, Record, Create, CreateFails, Crash
  <2>2. Cleared
    <3>1. CASE pc \in {"record", "create"}
      BY <3>1 DEF Cleared
    <3>2. CASE Harvest
      <4>1. \A q \in DOMAIN job' : q \in DOMAIN job /\ job'[q].step = job[q].step
        BY <1>0, <3>2, HarvestKeeps
      <4>2. pc' = "idle"
        BY <3>2 DEF Harvest, Idle
      <4>3. PICK q \in DOMAIN job' : job'[q].step # "done"
        BY <4>2, Zenon DEF Cleared
      <4>4. q \in DOMAIN job /\ job[q].step # "done"
        BY <4>1, <4>3
      <4>. QED BY <4>4 DEF Cleared
    <3>3. CASE ReportRunning \/ Evaluate \/ TakeLease
      BY <3>3 DEF ReportRunning, Evaluate, TakeLease, Cleared, Idle
    <3>4. CASE pc \in {"lease", "list"} /\ Crash
      BY <3>4 DEF Crash, Cleared, Idle
    <3>5. CASE Record \/ Create \/ CreateFails
      BY <3>1, <3>5 DEF Record, Create, CreateFails
    <3>6. CASE Crash
      <4>1. pc \in {"lease", "list", "record", "create"}
        BY <1>0, <3>6 DEF Crash, TypeOK, Stages
      <4>. QED BY <3>1, <3>4, <3>6, <4>1
    <3>. QED BY <1>3, <3>2, <3>3, <3>5, <3>6
  <2>. QED BY <1>0, <2>1, <2>2
<1>4. CASE Tick \/ Sync \/ SwitchOnVersioning \/ Edit \/ UNCHANGED vars
           \/ (\E p \in Points : RefuseVerdict(p))
  <2>1. UNCHANGED <<reading, late, job, pc>>
    BY <1>4 DEF Tick, Sync, SwitchOnVersioning, Edit, RefuseVerdict, vars, policy
  <2>. QED BY <1>0, <2>1 DEF Cleared
<1>5. ASSUME NEW r \in DOMAIN job, Work(r) \/ LosePod(r) \/ RemoveJob(r)
      PROVE  reading' \subseteq late'
  <2>1. UNCHANGED <<reading, late, pc>>
    BY <1>5 DEF Work, Admit, NextLine, Intend, DeleteManifest, DeleteSegment, Conclude, Exit,
       LosePod, RemoveJob, policy
  <2>2. CASE job[r].step # "done"
    BY <1>0, <2>1, <2>2 DEF Cleared
  <2>3. CASE job[r].step = "done"
    <3>1. LosePod(r) \/ RemoveJob(r)
      BY <1>5, <2>3 DEF Work, Admit, NextLine, Intend, DeleteManifest, DeleteSegment, Conclude,
         Exit, Running
    <3>2. \A q \in DOMAIN job' : q \in DOMAIN job /\ job'[q].step = job[q].step
      BY <1>0, <2>3, <3>1 DEF LosePod, RemoveJob, TypeOK, JobsOK, Jobs
    <3>. QED BY <1>0, <2>1, <3>2 DEF Cleared
  <2>. QED BY <2>2, <2>3
<1>. QED BY <1>1, <1>2, <1>3, <1>4, <1>5 DEF Next, Pass

-----------------------------------------------------------------------------
(***************************************************************************)
(* Tracking                                                                *)
(***************************************************************************)

\* Only a create sets a Job to work, and a worker's step is of a Job at work.
LEMMA AtWorkBefore ==
    ASSUME TypeOK, [Next]_vars, NEW r \in DOMAIN job', job'[r].step # "done"
    PROVE  \/ r \in DOMAIN job /\ job[r].step # "done"
           \/ r = pass /\ pc = "create"
<1>1. CASE r \notin DOMAIN job
  BY <1>1, JobStep
<1>2. CASE r \in DOMAIN job
  <2>1. CASE Create \/ CreateFails
    BY <1>2, <2>1 DEF Create, CreateFails, WithJob
  <2>2. CASE Harvest
    BY <2>2, HarvestKeeps
  <2>3. CASE UNCHANGED job
    BY <1>2, <2>3
  <2>4. ASSUME NEW q \in DOMAIN job, Work(q) \/ LosePod(q) \/ RemoveJob(q), job[r].step = "done"
        PROVE  FALSE
    <3>1. CASE RemoveJob(q)
      BY <1>2, <2>4, <3>1 DEF RemoveJob
    <3>2. CASE LosePod(q)
      BY <1>2, <2>4, <3>2 DEF LosePod, Ended, DoneJob, TypeOK, JobsOK, Jobs
    <3>3. CASE q # r /\ Work(q)
      <4>1. job'[r] = job[r]
        BY <1>2, <3>3 DEF Work, Admit, NextLine, Intend, DeleteManifest, DeleteSegment, Conclude,
           Exit, Unfinished, Ended
      <4>. QED BY <2>4, <4>1
    <3>4. CASE q = r /\ Work(q)
      BY <2>4, <3>4 DEF Work, Admit, NextLine, Intend, DeleteManifest, DeleteSegment, Conclude,
         Exit, Running
    <3>. QED BY <2>4, <3>1, <3>2, <3>3, <3>4
  <2>5. CASE \/ ReportRunning \/ Evaluate \/ TakeLease \/ ListRestores \/ Record \/ Crash
             \/ Tick \/ Sync \/ SwitchOnVersioning \/ Edit \/ UNCHANGED vars
             \/ (\E p \in Points : RefuseVerdict(p))
             \/ (\E s \in Sets : BeginRestore(s) \/ EndRestore(s))
    BY <1>2, <2>5 DEF ReportRunning, Evaluate, TakeLease, ListRestores, Record, Crash,
       Tick, Sync, SwitchOnVersioning, Edit, RefuseVerdict, BeginRestore, EndRestore, vars
  <2>. QED BY <1>2, <2>1, <2>2, <2>4, <2>5 DEF Next, Pass
<1>. QED BY <1>1, <1>2

\* What the environment does concerns neither the pass nor the Jobs.
LEMMA EnvironmentFrame ==
    ASSUME \/ Tick \/ Sync \/ SwitchOnVersioning \/ Edit \/ UNCHANGED vars
           \/ (\E p \in Points : RefuseVerdict(p))
           \/ (\E s \in Sets : BeginRestore(s) \/ EndRestore(s))
    PROVE  UNCHANGED <<st, pc, pass, job, astray>>
BY DEF Tick, Sync, SwitchOnVersioning, Edit, RefuseVerdict, BeginRestore, EndRestore, vars, policy

\* Nor does what a worker does concern the pass, and it makes no Job.
LEMMA WorkerFrame ==
    ASSUME NEW r \in DOMAIN job, Work(r) \/ LosePod(r) \/ RemoveJob(r)
    PROVE  /\ UNCHANGED <<st, pc, pass, spec>>
           /\ \/ DOMAIN job' = DOMAIN job /\ astray' = astray
              \/ DOMAIN job' = DOMAIN job \ {r} /\ astray' = astray \ {r}
<1>1. CASE Admit(r) \/ NextLine(r) \/ Exit(r)
  BY <1>1 DEF Admit, NextLine, Exit, Ended, policy
<1>2. CASE Intend(r) \/ DeleteManifest(r)
  BY <1>2 DEF Intend, DeleteManifest, Unfinished, policy
<1>3. CASE DeleteSegment(r) \/ Conclude(r)
  BY <1>3 DEF DeleteSegment, Conclude, Unfinished, policy
<1>4. CASE LosePod(r)
  BY <1>4 DEF LosePod, Ended, policy
<1>5. CASE RemoveJob(r)
  BY <1>5 DEF RemoveJob, policy
<1>. QED BY <1>1, <1>2, <1>3, <1>4, <1>5 DEF Work

LEMMA HarvestFrame ==
    ASSUME Harvest PROVE DOMAIN job' = DOMAIN job /\ astray' = astray
BY DEF Harvest

\* A Job is made by a create and by nothing else, and goes astray in one that failed.
LEMMA JobsFrame ==
    ASSUME [Next]_vars, ~Create, ~CreateFails
    PROVE  \/ DOMAIN job' = DOMAIN job /\ astray' = astray
           \/ \E r \in DOMAIN job : DOMAIN job' = DOMAIN job \ {r} /\ astray' = astray \ {r}
<1>1. CASE ReportRunning \/ Evaluate \/ TakeLease \/ ListRestores \/ Record \/ Crash
  BY <1>1 DEF ReportRunning, Evaluate, TakeLease, ListRestores, Record, Crash
<1>2. CASE \E r \in DOMAIN job : Work(r) \/ LosePod(r) \/ RemoveJob(r)
  BY <1>2, WorkerFrame
<1>3. CASE \/ Tick \/ Sync \/ SwitchOnVersioning \/ Edit \/ UNCHANGED vars
           \/ (\E p \in Points : RefuseVerdict(p))
           \/ (\E s \in Sets : BeginRestore(s) \/ EndRestore(s))
  BY <1>3, EnvironmentFrame
<1>. QED BY <1>1, <1>2, <1>3, HarvestFrame DEF Next, Pass

\* The run of a pass has no Job yet, so a create that happened makes one.
LEMMA CreateMakes ==
    ASSUME Create \/ CreateFails
    PROVE  /\ pc = "create" /\ pc' = "idle"
           /\ \/ job' = job /\ astray' = astray
              \/ DOMAIN job' = DOMAIN job \cup {pass} /\ astray' \in {astray, astray \cup {pass}}
BY DEF Create, CreateFails, WithJob, Idle

LEMMA AstrayStays ==
    ASSUME [Next]_vars, NEW r \in DOMAIN job', r \in astray PROVE r \in astray'
BY JobsFrame, CreateMakes

LEMMA TrackingStep == IInv /\ [Next]_vars => Tracking'
<1> SUFFICES ASSUME IInv, [Next]_vars PROVE Tracking'
  OBVIOUS
<1>0. /\ TypeOK
      /\ NoUntrackedJob /\ (pc # "idle" => NoneAtWork)
      /\ pc = "create" => st.run = pass /\ st.ended = 0 /\ pass \notin DOMAIN job
      /\ astray \subseteq DOMAIN job /\ (Tracked => st.run \notin astray)
  BY DEF IInv, Tracking
<1>1. pc' = "create" => st'.run = pass' /\ st'.ended = 0 /\ pass' \notin DOMAIN job'
  <2>1. CASE Record
    BY <1>0, <2>1 DEF Record, Idle, TypeOK, Statuses
  <2>2. CASE UNCHANGED <<st, pc, pass>> /\ DOMAIN job' \subseteq DOMAIN job
    BY <1>0, <2>2
  <2>3. CASE Harvest \/ ReportRunning \/ Create \/ CreateFails \/ Crash
    BY <2>3 DEF Harvest, ReportRunning, Create, CreateFails, Crash, Idle
  <2>4. CASE Evaluate \/ TakeLease \/ ListRestores
    BY <2>4 DEF Evaluate, TakeLease, ListRestores, Idle
  <2>5. CASE \/ Tick \/ Sync \/ SwitchOnVersioning \/ Edit \/ UNCHANGED vars
             \/ (\E p \in Points : RefuseVerdict(p))
             \/ (\E s \in Sets : BeginRestore(s) \/ EndRestore(s))
    BY <2>2, <2>5, EnvironmentFrame
  <2>6. CASE \E r \in DOMAIN job : Work(r) \/ LosePod(r) \/ RemoveJob(r)
    BY <2>2, <2>6, WorkerFrame
  <2>. QED BY <2>1, <2>3, <2>4, <2>5, <2>6 DEF Next, Pass
<1>2. ASSUME pc' # "idle" PROVE NoneAtWork'
  <2>1. NoneAtWork
    <3>1. CASE pc # "idle"
      BY <1>0, <3>1
    <3>2. CASE pc = "idle"
      <4>1. Evaluate
        BY <1>2, <3>2, PassStep
      <4>2. ~Tracked
        BY <4>1 DEF Evaluate
      <4>3. \A r \in DOMAIN job : r # NoRun
        BY DEF IInv, PlansSound, Sound, SoundIn, NoRun, NoPlan
      <4>. QED BY <1>0, <4>2, <4>3 DEF Tracked, NoUntrackedJob, NoneAtWork
    <3>. QED BY <3>1, <3>2
  <2>2. DOMAIN job' \subseteq DOMAIN job
    BY <1>2, CreateMakes, JobsFrame
  <2>3. ASSUME NEW r \in DOMAIN job', r \notin astray', job'[r].step # "done"
        PROVE  FALSE
    <3>1. r \notin astray
      BY <2>3, AstrayStays
    <3>2. r \in DOMAIN job /\ job[r].step # "done"
      BY <1>0, <2>2, <2>3, AtWorkBefore
    <3>. QED BY <2>1, <3>1, <3>2 DEF NoneAtWork
  <2>. QED BY <2>3 DEF NoneAtWork
<1>3. NoUntrackedJob'
  <2> SUFFICES ASSUME NEW r \in DOMAIN job', job'[r].step # "done", r \notin astray'
               PROVE  st'.run = r /\ st'.ended = 0
    BY DEF NoUntrackedJob
  <2>0. r \notin astray
    BY AstrayStays
  <2>1. CASE r \in DOMAIN job /\ job[r].step # "done"
    <3>1. pc = "idle" /\ st.run = r /\ st.ended = 0
      BY <1>0, <2>0, <2>1 DEF NoUntrackedJob, NoneAtWork
    <3>2. CASE Harvest
      BY <2>1, <3>1, <3>2 DEF Harvest
    <3>3. CASE ReportRunning
      BY <1>0, <3>1, <3>3 DEF ReportRunning, Adopted, TypeOK, Statuses
    <3>4. CASE Evaluate
      <4>1. st.run # NoRun
        BY <2>1, <3>1 DEF IInv, PlansSound, Sound, SoundIn, NoRun, NoPlan
      <4>. QED BY <3>1, <3>4, <4>1 DEF Evaluate, Tracked
    <3>5. CASE \E q \in DOMAIN job : Work(q) \/ LosePod(q) \/ RemoveJob(q)
      BY <3>1, <3>5, WorkerFrame
    <3>6. CASE \/ Tick \/ Sync \/ SwitchOnVersioning \/ Edit \/ UNCHANGED vars
               \/ (\E p \in Points : RefuseVerdict(p))
               \/ (\E s \in Sets : BeginRestore(s) \/ EndRestore(s))
      BY <3>1, <3>6, EnvironmentFrame
    <3>. QED BY <3>1, <3>2, <3>3, <3>4, <3>5, <3>6 DEF Next, Pass, TakeLease, ListRestores,
         Record, Create, CreateFails, Crash
  <2>2. CASE r = pass /\ pc = "create" /\ ~(r \in DOMAIN job /\ job[r].step # "done")
    <3>1. r \notin DOMAIN job /\ job' # job
      BY <1>0, <2>2
    <3>2. Create \/ CreateFails
      BY <3>1, JobsFrame
    <3>3. st' = st
      BY <2>2, <3>1, <3>2 DEF Create, CreateFails
    <3>. QED BY <1>0, <2>2, <3>3
  <2>. QED BY <1>0, <2>1, <2>2, AtWorkBefore
<1>4. astray' \subseteq DOMAIN job'
  BY <1>0, JobsFrame, CreateMakes
<1>5. ASSUME Tracked' PROVE st'.run \notin astray'
  <2>1. CASE Record
    BY <1>0, <1>5, <2>1 DEF Record, Tracked, TypeOK, Statuses
  <2>2. CASE Create
    BY <1>0, <1>5, <2>2 DEF Create, Tracked
  <2>3. CASE CreateFails
    <3>1. CASE fresh
      BY <1>0, <1>5, <2>3, <3>1 DEF CreateFails, Tracked, TypeOK, Statuses
    <3>2. CASE ~fresh
      BY <1>0, <1>5, <2>3, <3>2 DEF CreateFails, Tracked
    <3>. QED BY <3>1, <3>2
  <2>4. CASE Harvest
    BY <1>0, <1>5, <2>4 DEF Harvest, Tracked, TypeOK, Statuses
  <2>5. CASE ReportRunning \/ Evaluate
    <3>1. st'.run = st.run /\ st'.ended = st.ended /\ astray' = astray
      BY <1>0, <2>5 DEF ReportRunning, Evaluate, Adopted, TypeOK, Statuses
    <3>. QED BY <1>0, <1>5, <3>1 DEF Tracked
  <2>6. CASE TakeLease \/ ListRestores \/ Crash
    <3>1. st'.run = st.run /\ st'.ended = st.ended /\ astray' = astray
      BY <1>0, <2>6 DEF TakeLease, ListRestores, Crash, TypeOK, Statuses
    <3>. QED BY <1>0, <1>5, <3>1 DEF Tracked
  <2>7. CASE \E r \in DOMAIN job : Work(r) \/ LosePod(r) \/ RemoveJob(r)
    <3>1. st' = st /\ astray' \subseteq astray
      BY <2>7, WorkerFrame
    <3>. QED BY <1>0, <1>5, <3>1 DEF Tracked
  <2>8. CASE \/ Tick \/ Sync \/ SwitchOnVersioning \/ Edit \/ UNCHANGED vars
             \/ (\E p \in Points : RefuseVerdict(p))
             \/ (\E s \in Sets : BeginRestore(s) \/ EndRestore(s))
    BY <1>0, <1>5, <2>8, EnvironmentFrame DEF Tracked
  <2>. QED BY <2>1, <2>2, <2>3, <2>4, <2>5, <2>6, <2>7, <2>8 DEF Next, Pass
<1>. QED BY <1>1, <1>2, <1>3, <1>4, <1>5 DEF Tracking

-----------------------------------------------------------------------------
(***************************************************************************)
(* What a worker knows                                                     *)
(***************************************************************************)

\* A worker that does not move keeps what it knows, whatever the others do.
LEMMA KnowsKept ==
    ASSUME IInv, [Next]_vars, NEW r \in DOMAIN job, r \in DOMAIN job',
           job'[r].step = job[r].step, job'[r].todo = job[r].todo, job'[r].line = job[r].line
    PROVE  WorkerKnows(r)'
<1>. DEFINE at == job[r].line.at
            named == {SetOf[p] : p \in r[1].lines}
<1>1. WorkerKnows(r) /\ r[1].lines \subseteq Existing
  BY DEF IInv, WorkersKnow, PlansSound, Sound, SoundIn
<1>2. intents \subseteq intents' /\ \A p \in Existing : there'[SetOf[p]] \subseteq there[SetOf[p]]
  BY ArchiveShrinks
<1>3. at \in named => there'[at] \subseteq there[at]
  BY <1>1, <1>2
<1>4. Members(r)' = Members(r)
  BY DEF Members
<1>. QED BY <1>1, <1>2, <1>3, <1>4 DEF WorkerKnows, AtLine

\* Nothing has to be known between two lines.
LEMMA KnowsBetween ==
    ASSUME NEW r \in DOMAIN job', job'[r].step \in {"start", "next", "done"},
           job'[r].todo \subseteq {SetOf[p] : p \in r[1].lines}, job'[r].line = NoLine
    PROVE  WorkerKnows(r)'
BY DEF WorkerKnows, AtLine, NoLine

LEMMA KnowsUnfinished ==
    ASSUME IInv, NEW r \in DOMAIN job, NEW code \in Causes, job' = Unfinished(r, code)
    PROVE  WorkerKnows(r)'
<1>1. job[r] \in Jobs /\ WorkerKnows(r)
  BY JobType DEF IInv, WorkersKnow
<1>2. r \in DOMAIN job' /\ job'[r].step = "next" /\ job'[r].todo = job[r].todo /\ job'[r].line = NoLine
  BY <1>1 DEF Unfinished, Jobs, IInv, TypeOK, JobsOK
<1>3. job[r].todo \subseteq {SetOf[p] : p \in r[1].lines}
  BY <1>1 DEF WorkerKnows
<1>. QED BY <1>2, <1>3, KnowsBetween

LEMMA KnowsEnded ==
    ASSUME IInv, NEW r \in DOMAIN job, NEW report, Ended(r, report)
    PROVE  WorkerKnows(r)'
BY KnowsBetween DEF Ended, DoneJob

\* A worker that moves has every reason to.
LEMMA ActorKnows ==
    ASSUME IInv, [Next]_vars, NEW r \in DOMAIN job, Work(r) \/ LosePod(r), r \in DOMAIN job'
    PROVE  WorkerKnows(r)'
<1>. DEFINE at == job[r].line.at
            named == {SetOf[p] : p \in r[1].lines}
<1>1. /\ job[r] \in Jobs /\ job[r].line \in Lines /\ WorkerKnows(r) /\ TypeOK
      /\ r[1].lines \subseteq Existing
  BY JobType DEF IInv, WorkersKnow, PlansSound, Sound, SoundIn, Jobs
<1>2. {"Budget", "Refused", "Versioned"} \subseteq Causes /\ \A s, k : Obstacles(s, k) \subseteq Causes
  BY ObstaclesType DEF Causes
<1>3. CASE Admit(r)
  <2>1. CASE job' = [job EXCEPT ![r].step = "next"]
    <3>1. job'[r].step = "next" /\ job'[r].todo = job[r].todo /\ job'[r].line = job[r].line
      BY <1>1, <2>1 DEF Jobs
    <3>. QED BY <1>1, <3>1 DEF WorkerKnows, AtLine
  <2>. QED BY <1>3, <2>1, KnowsEnded DEF Admit
<1>4. CASE NextLine(r)
  <2>. DEFINE s == Max(job[r].todo)
  <2>1. s \in job[r].todo
    BY <1>1, <1>4, NextSet DEF NextLine
  <2>2. /\ job'[r].step = "intent" /\ job'[r].todo = job[r].todo \ {s}
        /\ job'[r].line = [NoLine EXCEPT !.at = s, !.keys = there[s] \ {Manifest}]
        /\ there' = there
    BY <1>1, <1>4 DEF NextLine, Jobs, archive
  <2>3. /\ job'[r].line.at = s /\ job'[r].line.keys = there[s] \ {Manifest}
        /\ job'[r].line.left = {}
    BY <2>2 DEF NoLine
  <2>. QED BY <1>1, <2>1, <2>2, <2>3 DEF WorkerKnows, AtLine
<1>5. CASE Intend(r)
  <2>1. CASE /\ job' = [job EXCEPT ![r].step = "manifest"]
             /\ intents' = intents \cup ({r} \X Members(r))
             /\ job[r].step = "intent"
    <3>1. job'[r].step = "manifest" /\ job'[r].todo = job[r].todo /\ job'[r].line = job[r].line
      BY <1>1, <2>1 DEF Jobs
    <3>2. Members(r)' = Members(r) /\ there' = there
      BY <1>5, <3>1 DEF Members, Intend
    <3>. QED BY <1>1, <2>1, <3>1, <3>2 DEF WorkerKnows, AtLine
  <2>2. CASE \E code \in {"Budget", "Refused", "Versioned"} : job' = Unfinished(r, code)
    BY <1>2, <2>2, KnowsUnfinished
  <2>. QED BY <1>5, <2>1, <2>2 DEF Intend, Running
<1>6. CASE DeleteManifest(r)
  <2>1. CASE /\ Delete(at, Manifest)
             /\ job' = [job EXCEPT ![r].step = "segments", ![r].count = @ + 1, ![r].line.gone = 1]
    <3>1. job[r].step = "manifest" /\ at \in Sets /\ intents' = intents
      BY <1>6, AtType DEF DeleteManifest, Running, AtLine
    <3>2. /\ job'[r].step = "segments" /\ job'[r].todo = job[r].todo
          /\ job'[r].line = [job[r].line EXCEPT !.gone = 1]
      BY <1>1, <2>1 DEF Jobs
    <3>3. /\ job'[r].line.at = at /\ job'[r].line.keys = job[r].line.keys
          /\ job'[r].line.left = job[r].line.left
      BY <1>1, <3>2 DEF Lines
    <3>4. there'[at] = there[at] \ {Manifest}
      BY <1>1, <2>1, <3>1 DEF Delete, TypeOK, ArchiveOK
    <3>5. there[at] \subseteq job[r].line.keys \cup {Manifest}
      BY <1>1, <3>1 DEF WorkerKnows
    <3>6. Members(r)' = Members(r)
      BY <3>3 DEF Members
    <3>. QED BY <1>1, <3>1, <3>2, <3>3, <3>4, <3>5, <3>6 DEF WorkerKnows, AtLine
  <2>2. CASE \E code \in Obstacles(at, Manifest) : job' = Unfinished(r, code)
    BY <1>2, <2>2, KnowsUnfinished
  <2>. QED BY <1>6, <2>1, <2>2 DEF DeleteManifest
<1>7. CASE DeleteSegment(r)
  <2>. DEFINE k == Min(job[r].line.keys)
  <2>1. job[r].step = "segments" /\ at \in Sets /\ k \in job[r].line.keys /\ intents' = intents
    BY <1>1, <1>7, AtType, NextSegment DEF DeleteSegment, Running, AtLine
  <2>2. there[at] \subseteq job[r].line.keys \cup job[r].line.left
    BY <1>1, <2>1 DEF WorkerKnows
  <2>3. CASE \E code : job' = [job EXCEPT ![r].line = Spare(@, k, code)] /\ UNCHANGED there
    <3>1. PICK code : job' = [job EXCEPT ![r].line = Spare(@, k, code)]
      BY <2>3
    <3>2. /\ job'[r].step = "segments" /\ job'[r].todo = job[r].todo
          /\ job'[r].line = Spare(job[r].line, k, code)
      BY <1>1, <2>1, <3>1 DEF Jobs
    <3>3. /\ job'[r].line.at = at /\ job'[r].line.keys = job[r].line.keys \ {k}
          /\ job'[r].line.left = job[r].line.left \cup {k}
      BY <1>1, <3>2 DEF Spare, Lines
    <3>4. Members(r)' = Members(r)
      BY <3>3 DEF Members
    <3>. QED BY <1>1, <2>1, <2>2, <2>3, <3>2, <3>3, <3>4 DEF WorkerKnows, AtLine
  <2>4. CASE /\ Delete(at, k)
             /\ job' = [job EXCEPT ![r].line.keys = @ \ {k}, ![r].count = @ + 1,
                                   ![r].line.gone = @ + 1]
    <3>2. /\ job'[r].step = "segments" /\ job'[r].todo = job[r].todo
          /\ job'[r].line = [job[r].line EXCEPT !.keys = @ \ {k}, !.gone = @ + 1]
      BY <1>1, <2>1, <2>4 DEF Jobs
    <3>3. /\ job'[r].line.at = at /\ job'[r].line.keys = job[r].line.keys \ {k}
          /\ job'[r].line.left = job[r].line.left
      BY <1>1, <3>2 DEF Lines
    <3>4. there'[at] = there[at] \ {k}
      BY <1>1, <2>1, <2>4 DEF Delete, TypeOK, ArchiveOK
    <3>5. Members(r)' = Members(r)
      BY <3>3 DEF Members
    <3>. QED BY <1>1, <2>1, <2>2, <3>2, <3>3, <3>4, <3>5 DEF WorkerKnows, AtLine
  <2>. QED BY <1>7, <2>3, <2>4 DEF DeleteSegment
<1>8. CASE Conclude(r)
  <2>1. job[r].todo \subseteq named
    BY <1>1 DEF WorkerKnows
  <2>2. CASE job' = [job EXCEPT ![r].step = "next", ![r].line = NoLine]
    <3>1. job'[r].step = "next" /\ job'[r].todo = job[r].todo /\ job'[r].line = NoLine
      BY <1>1, <2>2 DEF Jobs
    <3>. QED BY <2>1, <3>1, KnowsBetween
  <2>3. CASE job' = Unfinished(r, job[r].line.code)
    BY <1>1, <2>3, KnowsUnfinished DEF Lines
  <2>4. CASE \E code \in {"Versioned", "Refused"} :
               job' = [Unfinished(r, code) EXCEPT ![r].count = @ - job[r].line.gone]
    <3>1. PICK code : job' = [Unfinished(r, code) EXCEPT ![r].count = @ - job[r].line.gone]
      BY <2>4
    <3>2. job'[r].step = "next" /\ job'[r].todo = job[r].todo /\ job'[r].line = NoLine
      BY <1>1, <3>1 DEF Unfinished, Jobs
    <3>. QED BY <2>1, <3>2, KnowsBetween
  <2>. QED BY <1>8, <2>2, <2>3, <2>4 DEF Conclude
<1>9. CASE LosePod(r)
  <2>1. CASE job' = [job EXCEPT ![r].report = Lost]
    BY <1>1, <2>1, KnowsKept DEF Jobs
  <2>. QED BY <1>9, <2>1, KnowsEnded DEF LosePod
<1>10. CASE Exit(r)
  BY <1>10, KnowsEnded DEF Exit
<1>. QED BY <1>3, <1>4, <1>5, <1>6, <1>7, <1>8, <1>9, <1>10 DEF Work

LEMMA WorkersStep == IInv /\ [Next]_vars => WorkersKnow'
<1> SUFFICES ASSUME IInv, [Next]_vars, NEW r \in DOMAIN job' PROVE WorkerKnows(r)'
  BY DEF WorkersKnow
<1>0. TypeOK
  BY DEF IInv
<1>1. CASE Create \/ CreateFails
  <2>1. CASE job' = WithJob(pass) /\ r = pass
    <3>1. job'[r] = NewJob(r)
      BY <2>1 DEF WithJob
    <3>2. /\ job'[r].step = "start" /\ job'[r].line = NoLine
          /\ job'[r].todo = {SetOf[p] : p \in r[1].lines}
      BY <3>1 DEF NewJob
    <3>. QED BY <3>2, KnowsBetween
  <2>2. CASE r \in DOMAIN job /\ job'[r] = job[r]
    BY <2>2, KnowsKept
  <2>. QED BY <1>1, <2>1, <2>2 DEF Create, CreateFails, WithJob
<1>2. CASE Harvest
  <2>1. r \in DOMAIN job
    BY <1>0, <1>2, HarvestKeeps
  <2>2. CASE r = st.run
    <3>1. job'[r] = [job[r] EXCEPT !.ttl = TRUE, !.report = Lost]
      BY <1>2, <2>1, <2>2 DEF Harvest
    <3>2. job'[r].step = job[r].step /\ job'[r].todo = job[r].todo /\ job'[r].line = job[r].line
      BY <1>0, <2>1, <3>1, JobType DEF Jobs
    <3>. QED BY <2>1, <3>2, KnowsKept
  <2>3. CASE r # st.run
    <3>1. job'[r] = job[r]
      BY <1>2, <2>1, <2>3 DEF Harvest
    <3>. QED BY <2>1, <3>1, KnowsKept
  <2>. QED BY <2>2, <2>3
<1>3. CASE UNCHANGED job
  BY <1>3, KnowsKept
<1>4. ASSUME NEW q \in DOMAIN job, Work(q) \/ LosePod(q) \/ RemoveJob(q) PROVE WorkerKnows(r)'
  <2>1. CASE q = r
    <3>1. ~RemoveJob(q)
      BY <2>1 DEF RemoveJob
    <3>. QED BY <1>4, <2>1, <3>1, ActorKnows
  <2>2. CASE q # r
    <3>1. r \in DOMAIN job
      <4>1. CASE RemoveJob(q)
        BY <4>1 DEF RemoveJob
      <4>2. CASE Work(q) \/ LosePod(q)
        BY <4>2 DEF LosePod, Work, Admit, NextLine, Intend, DeleteManifest, DeleteSegment,
           Conclude, Exit, Unfinished, Ended
      <4>. QED BY <1>4, <4>1, <4>2
    <3>2. job'[r] = job[r]
      <4>1. CASE RemoveJob(q)
        BY <2>2, <3>1, <4>1 DEF RemoveJob
      <4>2. CASE Work(q) \/ LosePod(q)
        BY <2>2, <3>1, <4>2 DEF LosePod, Work, Admit, NextLine, Intend, DeleteManifest,
           DeleteSegment, Conclude, Exit, Unfinished, Ended
      <4>. QED BY <1>4, <4>1, <4>2
    <3>. QED BY <3>1, <3>2, KnowsKept
  <2>. QED BY <2>1, <2>2
<1>5. CASE \/ ReportRunning \/ Evaluate \/ TakeLease \/ ListRestores \/ Record \/ Crash
           \/ Tick \/ Sync \/ SwitchOnVersioning \/ Edit \/ UNCHANGED vars
           \/ (\E p \in Points : RefuseVerdict(p))
           \/ (\E s \in Sets : BeginRestore(s) \/ EndRestore(s))
  BY <1>3, <1>5 DEF ReportRunning, Evaluate, TakeLease, ListRestores, Record, Crash,
     Tick, Sync, SwitchOnVersioning, Edit, RefuseVerdict, BeginRestore, EndRestore, vars
<1>. QED BY <1>1, <1>2, <1>4, <1>5 DEF Next, Pass

-----------------------------------------------------------------------------
(***************************************************************************)
(* The invariant and what follows from it                                  *)
(***************************************************************************)

LEMMA InitIInv == Init => IInv
<1> SUFFICES ASSUME Init PROVE IInv
  OBVIOUS
<1>1. TypeOK
  BY InitTypeOK
<1>2. Existing \in SUBSET Points /\ 1 .. Initial \subseteq Existing
  BY <1>1, ExistingPoints
<1>3. ViewKnown
  BY <1>2 DEF Init, ViewKnown
<1>4. PlansSound /\ WorkersKnow /\ MarkersNeedVersioning
  BY DEF Init, PlansSound, WorkersKnow, MarkersNeedVersioning
<1>5. ASSUME NEW p \in Existing PROVE SetOf[p] \in Existing
  <2>1. SetOf[p] \in Points /\ Taken(SetOf[p]) <= now
    BY <1>1, <1>2, <1>5, PointsOfSets, SetsArePoints
  <2>. QED BY <2>1 DEF Existing
<1>6. Attributed
  <2>1. \A p \in Existing : there[SetOf[p]] = Keys
    BY <1>2, <1>5, SetsArePoints DEF Init
  <2>. QED BY <2>1 DEF Attributed
<1>7. NoHollowSet /\ DeletedIsGone /\ NothingEarly
  BY DEF Init, NoHollowSet, DeletedIsGone, NothingEarly
<1>8. ClearedKnows /\ PassAuthorised /\ Tracking
  BY DEF Init, ClearedKnows, PassAuthorised, Tracking, NoUntrackedJob
<1>. QED BY <1>1, <1>3, <1>4, <1>6, <1>7, <1>8 DEF IInv, ArchiveSound

LEMMA NextIInv == IInv /\ [Next]_vars => IInv'
BY NextTypeOK, ViewStep, PlansStep, WorkersStep, MarkersStep, NoHollowStep, AttributedStep,
   EarlyStep, DeletedStep, ClearedStep, AuthorisedStep, TrackingStep DEF IInv, ArchiveSound

\* What the plans, the view, the workers and the pass know of the archive and of each
\* other stays true (retention_policy.rs, logweir-reaper/src/lib.rs).
THEOREM Invariance == Spec => []IInv
BY InitIInv, NextIInv, PTL DEF Spec

\* Every variable keeps its type.
THEOREM TypeCorrectness == Spec => []TypeOK
<1>1. IInv => TypeOK
  BY DEF IInv
<1>. QED BY <1>1, Invariance, PTL

\* The manifest goes first and a line whose manifest stayed stops, so that no set is ever
\* readable and short of a segment (logweir-reaper/src/lib.rs, execute).
THEOREM NoHollowSetEver == Spec => []NoHollowSet
<1>1. IInv => NoHollowSet
  BY DEF IInv, ArchiveSound
<1>. QED BY <1>1, Invariance, PTL

\* Nothing of a stored set goes before the intent of a point of it is on record
\* (logweir-reaper/src/lib.rs, write_tombstone).
THEOREM Attribution == Spec => []Attributed
<1>1. IInv => Attributed
  BY DEF IInv, ArchiveSound
<1>. QED BY <1>1, Invariance, PTL

\* A completion that says Deleted is true of the data, under versioning too
\* (logweir-reaper/src/lib.rs, the check after the deletes).
THEOREM Deletion == Spec => []DeletedIsGone
<1>1. IInv => DeletedIsGone
  BY DEF IInv, ArchiveSound
<1>. QED BY <1>1, Invariance, PTL

\* No set goes under a plan that does not name every point restored from it
\* (retention_plan.rs, Groups).
THEOREM GroupsGoWhole == Spec => []WholeGroups
<1>1. IInv => WholeGroups
  <2> SUFFICES ASSUME IInv, NEW i \in intents, NEW q \in Existing, SetOf[q] = SetOf[i[2]]
               PROVE  q \in i[1][1].lines
    BY DEF WholeGroups
  <2>. QED BY DEF IInv, PlansSound, Sound, SoundIn, Existing
<1>. QED BY <1>1, Invariance, PTL

\* Every Job at work is tracked, but one whose create was answered with an error and had
\* happened, so that its record was withdrawn (retention_policy.rs, start_run).
THEOREM JobsAreTracked == Spec => []NoUntrackedJob
<1>1. IInv => NoUntrackedJob
  BY DEF IInv, Tracking
<1>. QED BY <1>1, Invariance, PTL

\* A run is recorded under the spec that authorises it, however the spec is edited while the
\* pass is under way (retention_policy.rs, start_run, patch_status).
THEOREM RunsAreAuthorised == Spec => RunIsAuthorised
<1>. DEFINE Ok == st'.run # st.run /\ st'.run # NoRun =>
        LET plan == st'.run[1] IN
        /\ spec.enforce
        /\ spec.attended => spec.approved = plan
        /\ plan.keep = spec.keep /\ plan.lines \cap spec.held = {}
<1>1. IInv /\ [Next]_vars => [Ok]_vars
  <2> SUFFICES ASSUME IInv, [Next]_vars, st'.run # st.run, st'.run # NoRun
               PROVE  LET plan == st'.run[1] IN
                      /\ spec.enforce
                      /\ spec.attended => spec.approved = plan
                      /\ plan.keep = spec.keep /\ plan.lines \cap spec.held = {}
    BY Zenon
  <2>1. st \in Statuses
    BY DEF IInv, TypeOK
  <2>2. Record
    <3>1. CASE Harvest \/ ReportRunning \/ Evaluate \/ TakeLease \/ CreateFails
      BY <2>1, <3>1 DEF Harvest, ReportRunning, Evaluate, TakeLease, CreateFails, Adopted, Statuses
    <3>2. ~UNCHANGED st
      OBVIOUS
    <3>. QED BY <3>1, <3>2 DEF Next, Pass, Work, ListRestores, Create, Crash, Admit, NextLine, Intend,
         DeleteManifest, DeleteSegment, Conclude, Exit, LosePod, RemoveJob, Tick, Sync,
         SwitchOnVersioning, Edit, RefuseVerdict, BeginRestore, EndRestore, vars, policy
  <2>3. pc = "record" /\ fresh /\ st'.run = pass
    BY <2>1, <2>2 DEF Record, Statuses
  <2>. QED BY <2>3 DEF IInv, PassAuthorised
<1>. QED BY <1>1, Invariance, PTL DEF Spec, RunIsAuthorised

\* A Restore that began before the run was cleared keeps what it reads
\* (retention_policy.rs, start_run, the list of Restores).
THEOREM EarlyRestoresAreKept == Spec => EarlyRestoreKept
<1>. DEFINE Ok == \A s \in reading \ late : there[s] \subseteq there'[s]
<1>1. IInv /\ [Next]_vars => [Ok]_vars
  <2> SUFFICES ASSUME IInv, [Next]_vars, NEW s \in reading \ late
               PROVE  there[s] \subseteq there'[s]
    BY Zenon
  <2>1. s \in Sets /\ there[s] \subseteq Keys
    BY DEF IInv, TypeOK, ArchiveOK
  <2>2. ~Cleared
    BY DEF IInv, ClearedKnows
  <2>3. \A r \in DOMAIN job : job[r].step = "done"
    BY <2>2 DEF Cleared
  <2>. QED BY <2>1, <2>3, ArchiveStep
<1>. QED BY <1>1, Invariance, PTL DEF Spec, EarlyRestoreKept

-----------------------------------------------------------------------------
(***************************************************************************)
(* The floor, where the view is still true of the archive.                 *)
(***************************************************************************)

\* No set the view shows as usable has lost its manifest since the walk.
ViewIsTrue == \A p \in Usable : Manifest \in there[SetOf[p]]

LEMMA LeavesFloor ==
    ASSUME IInv, ViewIsTrue, MayStart(Plan)
    PROVE  Cardinality(Restorables \ Plan.lines) >= NeverCandidates
<1>0. TypeOK /\ ViewKnown /\ NoHollowSet /\ Existing \in SUBSET Points /\ view.rows \in SUBSET Points
  BY ExistingPoints DEF IInv, ArchiveSound, TypeOK, Views
<1>1. Plan.lines = Selected /\ Selected # {} /\ Selected \subseteq Eligible
  BY DEF Plan, MayStart, Selected
<1>2. Usable \subseteq Existing \ refused /\ Eligible \subseteq Usable /\ Usable \subseteq view.rows
  BY <1>0 DEF Usable, Eligible, ViewKnown
<1>3. Selected \in SUBSET (0 .. N) /\ N \in Nat
  <2>1. N \in Nat /\ Points \subseteq 0 .. N
    BY ArchiveAssumption DEF Points
  <2>. QED BY <1>0, <1>1, <1>2, <2>1
<1>4. PICK g \in Selected : \A x \in Selected : x <= g
  BY <1>1, <1>3, GreatestExists
<1> DEFINE Above == {q \in Usable : q > g}
<1>5. Cardinality(Above) >= NeverCandidates
  <2>1. g \in Group(g) /\ g \in Eligible
    BY <1>1, <1>2 DEF Group
  <2>2. Candidate(g)
    BY <2>1 DEF Eligible
  <2>. QED BY <2>2 DEF Candidate, Rank
<1>6. ASSUME NEW q \in Above PROVE q \in Restorables \ Selected
  <2>1. q \in Existing \ refused /\ q \in Points
    BY <1>0, <1>2
  <2>2. q \notin Selected
    <3>1. q > g /\ q \in Nat /\ g \in Nat
      BY <1>3, <2>1, ArchiveAssumption DEF Points
    <3>. QED BY <1>4, <3>1
  <2>3. SetOf[q] \in Sets /\ Manifest \in there[SetOf[q]]
    BY <2>1, SetsArePoints DEF ViewIsTrue
  <2>. QED BY <1>0, <2>1, <2>2, <2>3 DEF Restorables, NoHollowSet
<1>7. Above \in SUBSET (Restorables \ Selected) /\ Restorables \ Selected \in SUBSET Points
  BY <1>0, <1>6 DEF Restorables
<1>8. /\ IsFiniteSet(Restorables \ Selected) /\ Cardinality(Restorables \ Selected) \in Nat
      /\ Cardinality(Above) \in Nat
  BY <1>7, PointsFinite
<1>9. Cardinality(Above) <= Cardinality(Restorables \ Selected)
  BY <1>7, <1>8, FS_Subset
<1>. QED BY <1>1, <1>5, <1>8, <1>9, FloorType

\* A run that is started from a view that is still true of the archive spares at least
\* minUsablePoints points that can be restored: only a view that has grown old, or was never
\* checked against the manifests, lets a run go below the floor (retention_plan.rs, evaluate).
THEOREM FloorIsLeft ==
    Spec => [][ViewIsTrue /\ pc = "idle" /\ pc' = "lease" =>
                  Cardinality(Restorables \ pass'[1].lines) >= NeverCandidates]_vars
<1>. DEFINE Ok == ViewIsTrue /\ pc = "idle" /\ pc' = "lease" =>
                     Cardinality(Restorables \ pass'[1].lines) >= NeverCandidates
<1>1. IInv /\ [Next]_vars => [Ok]_vars
  <2> SUFFICES ASSUME IInv, [Next]_vars, ViewIsTrue, pc = "idle", pc' = "lease"
               PROVE  Cardinality(Restorables \ pass'[1].lines) >= NeverCandidates
    BY Zenon
  <2>1. Evaluate
    BY DEF Next, Pass, Work, Harvest, ReportRunning, TakeLease, ListRestores, Record,
           Create, CreateFails, Crash, Idle, Admit, NextLine, Intend, DeleteManifest,
           DeleteSegment, Conclude, Exit, LosePod, RemoveJob, Tick, Sync, SwitchOnVersioning,
           Edit, RefuseVerdict, BeginRestore, EndRestore, vars, policy
  <2>2. MayStart(Plan) /\ pass' = RunOf(Plan)
    BY <2>1 DEF Evaluate
  <2>3. pass'[1] = Plan
    BY <2>2 DEF RunOf
  <2>. QED BY <2>2, <2>3, LeavesFloor
<1>. QED BY <1>1, Invariance, PTL DEF Spec

-----------------------------------------------------------------------------
(***************************************************************************)
(* The failure budget: the status counts a failed run when it harvests it, *)
(* after the run has ended.                                                *)
(***************************************************************************)

LEMMA CountTypes ==
    ASSUME TypeOK
    PROVE  BudgetBefore \in Nat /\ streak \in Nat /\ DegradedAfter \in Nat \ {0}
BY BudgetType, RuleAssumption DEF TypeOK

\* What is counted depends on the status, the pass, the Jobs and the generation alone.
LEMMA CountedKept ==
    ASSUME Counted, UNCHANGED <<st, pc, pass, job, streak>>, BudgetBefore' = BudgetBefore
    PROVE  Counted'
BY DEF Counted, CountedOf, Tracked, BoundedOnly, BucketLevel, Codes

\* A run at work that has not gone astray is the tracked one, and no pass is under way.
LEMMA WorkIsTracked ==
    ASSUME IInv, Counted, NEW r \in DOMAIN job \ astray, job[r].step # "done"
    PROVE  st.run = r /\ Tracked /\ pc = "idle" /\ streak <= BudgetBefore /\ streak < DegradedAfter
<1>1. st.run = r /\ st.ended = 0 /\ pc = "idle"
  BY DEF IInv, Tracking, NoUntrackedJob, NoneAtWork
<1>2. r # NoRun
  BY DEF IInv, PlansSound, Sound, SoundIn, NoRun, NoPlan
<1>3. Tracked
  BY <1>1, <1>2 DEF Tracked
<1>. QED BY <1>1, <1>3 DEF Counted, CountedOf

\* A worker that goes on costs nothing.
LEMMA WorkCounted ==
    ASSUME IInv, Counted, NEW r \in DOMAIN job \ astray, job[r].step # "done",
           DOMAIN job' = DOMAIN job, job'[r].step # "done",
           UNCHANGED <<st, pc, pass, spec, streak>>
    PROVE  Counted'
<1>1. TypeOK /\ st.run = r /\ Tracked /\ pc = "idle" /\ streak <= BudgetBefore /\ streak < DegradedAfter
  BY WorkIsTracked DEF IInv
<1>2. BudgetBefore' = BudgetBefore /\ Tracked'
  BY <1>1 DEF BudgetBefore, Tracked
<1>. QED BY <1>1, <1>2, CountTypes DEF Counted, CountedOf

\* A run that ends is in the count, or will be when it is harvested.
LEMMA EndedCounted ==
    ASSUME IInv, Counted, NEW r \in DOMAIN job \ astray, job[r].step # "done",
           NEW report \in Reports, report.exit = "ok" => report.failed = {},
           Ended(r, report), UNCHANGED <<st, pc, pass, spec>>
    PROVE  Counted'
<1>1. TypeOK /\ st.run = r /\ Tracked /\ pc = "idle" /\ streak <= BudgetBefore /\ streak < DegradedAfter
  BY WorkIsTracked DEF IInv
<1>2. BudgetBefore' = BudgetBefore /\ Tracked'
  BY <1>1 DEF BudgetBefore, Tracked
<1>3. job'[r].step = "done" /\ job'[r].report = report /\ DOMAIN job' = DOMAIN job
  BY <1>1 DEF TypeOK, JobsOK, Ended, DoneJob
<1>4. /\ streak' <= BudgetBefore + 1 /\ streak' <= DegradedAfter
      /\ report.exit = "ok" => streak' = 0
      /\ BoundedOnly(report) => streak' <= BudgetBefore
      /\ BucketLevel(report) => streak' < DegradedAfter
  BY <1>1, CountTypes DEF Ended, BoundedOnly, BucketLevel
<1>5. CountedOf(job[r])'
  BY <1>2, <1>3, <1>4 DEF CountedOf
<1>. QED BY <1>1, <1>2, <1>3, <1>4, <1>5, CountTypes DEF Counted

LEMMA HarvestCounted ==
    ASSUME IInv, Counted, Harvest
    PROVE  Counted'
<1>1. TypeOK
  BY DEF IInv
<1>. DEFINE report == ReportOf(st.run)
<1>2. /\ st'.ended = now /\ st'.bucketOnly = BucketLevel(report)
      /\ st'.failures = FailuresAfter(report) /\ st'.gen = spec.gen
  BY <1>1 DEF Harvest, TypeOK, Statuses
<1>3. BudgetBefore' = FailuresAfter(report)
  BY <1>2 DEF Harvest, BudgetBefore
<1>4. ~Tracked' /\ pc' = "idle" /\ streak' = streak
  BY <1>1, <1>2 DEF Harvest, Idle, Tracked, TypeOK
<1>5. CASE st.run \in DOMAIN job
  <2>1. report = job[st.run].report /\ CountedOf(job[st.run]) /\ job[st.run].step = "done"
    BY <1>5 DEF Harvest, ReportOf, Counted
  <2>2. streak <= FailuresAfter(report) /\ (BucketLevel(report) => streak < DegradedAfter)
    BY <1>1, <2>1, CountTypes DEF Harvest, Counted, CountedOf, FailuresAfter
  <2>. QED BY <1>2, <1>3, <1>4, <2>2 DEF Counted
<1>6. CASE st.run \notin DOMAIN job
  <2>1. report = Lost /\ ~BucketLevel(report) /\ ~BoundedOnly(report)
    BY <1>6 DEF ReportOf, BucketLevel, BoundedOnly, Lost
  <2>2. FailuresAfter(report) = BudgetBefore + 1
    BY <2>1 DEF FailuresAfter, Lost
  <2>3. streak <= BudgetBefore + 1
    BY DEF Harvest, Counted
  <2>. QED BY <1>2, <1>3, <1>4, <2>1, <2>2, <2>3 DEF Counted
<1>. QED BY <1>5, <1>6

\* A run starts below the budget, or at it to probe a bucket again.
LEMMA EvaluateCounted ==
    ASSUME IInv, Counted, Evaluate
    PROVE  Counted'
<1>1. TypeOK /\ ~Tracked /\ pc = "idle"
  BY DEF IInv, Evaluate
<1>2. UNCHANGED <<job, spec, streak>> /\ pc' \in {"lease", "idle"}
  BY DEF Evaluate
<1>3. /\ st'.run = st.run /\ st'.ended = st.ended /\ st'.bucketOnly = st.bucketOnly
      /\ st'.gen = spec.gen /\ st'.failures = BudgetBefore
  BY <1>1 DEF Evaluate, Adopted, TypeOK, Statuses
<1>4. BudgetBefore' = BudgetBefore /\ ~Tracked'
  BY <1>1, <1>2, <1>3 DEF BudgetBefore, Tracked
<1>5. pc' = "lease" => BudgetBefore < DegradedAfter \/ st.bucketOnly
  BY DEF Evaluate, MayStart, ReprobeDue
<1>. QED BY <1>1, <1>2, <1>3, <1>4, <1>5, CountTypes DEF Counted

\* The steps of a pass that has started.
LEMMA PassCounted ==
    ASSUME IInv, Counted,
           TakeLease \/ ListRestores \/ Record \/ Create \/ CreateFails \/ Crash
    PROVE  Counted'
<1>1. TypeOK /\ streak <= BudgetBefore /\ streak < DegradedAfter
  BY DEF IInv, Counted, TakeLease, ListRestores, Record, Create, CreateFails, Crash
<1>2. streak' = streak /\ spec' = spec
  BY DEF TakeLease, ListRestores, Record, Create, CreateFails, Crash
<1>3. st'.gen = st.gen /\ st'.failures = st.failures
  BY <1>1 DEF TakeLease, ListRestores, Record, Create, CreateFails, Crash, TypeOK, Statuses
<1>4. BudgetBefore' = BudgetBefore
  BY <1>2, <1>3 DEF BudgetBefore
<1>5. CASE TakeLease \/ ListRestores \/ Crash
  <2>1. job' = job /\ st'.run = st.run /\ st'.ended = st.ended
    BY <1>1, <1>5 DEF TakeLease, ListRestores, Crash, TypeOK, Statuses
  <2>2. pc' # "create"
    BY <1>5 DEF TakeLease, ListRestores, Crash, Idle
  <2>. QED BY <1>1, <1>2, <1>4, <2>1, <2>2, CountTypes
           DEF Counted, CountedOf, Tracked, BoundedOnly, BucketLevel, Codes
<1>6. CASE Record
  <2>1. CASE pass \notin DOMAIN job /\ fresh
    <3>1. st'.run = pass /\ pass' = pass /\ job' = job
      BY <1>1, <1>6, <2>1 DEF Record, TypeOK, Statuses
    <3>2. st'.bucketOnly = FALSE
      BY <1>1, <1>6, <2>1 DEF Record, TypeOK, Statuses
    <3>. QED BY <1>1, <1>2, <1>4, <2>1, <3>1, <3>2, CountTypes DEF Counted
  <2>2. CASE ~(pass \notin DOMAIN job /\ fresh)
    BY <1>1, <1>2, <1>4, <1>6, <2>2, CountTypes
       DEF Record, Idle, Counted, CountedOf, Tracked, BoundedOnly, BucketLevel, Codes
  <2>. QED BY <2>1, <2>2
<1>7. CASE Create
  <2>1. st.run = pass /\ pass \in DOMAIN job' /\ job'[pass].step = "start" /\ st' = st /\ pc' = "idle"
    BY <1>7 DEF IInv, Tracking, Create, Idle, WithJob, NewJob
  <2>. QED BY <1>1, <1>2, <1>4, <2>1, CountTypes DEF Counted, CountedOf
<1>8. CASE CreateFails
  <2>1. pc' = "idle" /\ st.run = pass /\ pass \notin DOMAIN job
    BY <1>8 DEF IInv, Tracking, CreateFails, Idle
  <2>2. CASE st' = st /\ job' = job
    BY <1>1, <1>2, <1>4, <2>1, <2>2, CountTypes
       DEF Counted, CountedOf, Tracked, BoundedOnly, BucketLevel, Codes
  <2>3. CASE st' = st /\ job' = WithJob(pass)
    <3>1. pass \in DOMAIN job' /\ job'[pass].step = "start"
      BY <2>3 DEF WithJob, NewJob
    <3>. QED BY <1>1, <1>2, <1>4, <2>1, <2>3, <3>1, CountTypes DEF Counted, CountedOf
  <2>4. CASE st' = [st EXCEPT !.run = NoRun]
    <3>1. ~Tracked'
      BY <1>1, <2>4 DEF TypeOK, Statuses, Tracked
    <3>. QED BY <1>1, <1>2, <1>4, <2>1, <3>1, CountTypes DEF Counted
  <2>. QED BY <1>8, <2>2, <2>3, <2>4 DEF CreateFails
<1>. QED BY <1>5, <1>6, <1>7, <1>8

LEMMA WorkerCounted ==
    ASSUME IInv, Counted, NEW r \in DOMAIN job \ astray, Work(r)
    PROVE  Counted'
<1>1. TypeOK
  BY DEF IInv
<1>2. job[r].step # "done"
  BY DEF Work, Admit, NextLine, Intend, DeleteManifest, DeleteSegment, Conclude, Exit, Running
<1>3. UNCHANGED <<st, pc, pass, spec>>
  BY DEF Work, Admit, NextLine, Intend, DeleteManifest, DeleteSegment, Conclude, Exit, policy
<1>4. CASE Ended(r, [exit |-> "refused", failed |-> {}])
  <2>1. [exit |-> "refused", failed |-> {}] \in Reports
    BY DEF Reports
  <2>. QED BY <1>2, <1>3, <1>4, <2>1, EndedCounted
<1>5. CASE Exit(r)
  <2>. DEFINE report == [exit |-> IF job[r].report.failed = {} THEN "ok" ELSE "incomplete",
                         failed |-> job[r].report.failed]
  <2>1. report \in Reports
    BY <1>1, JobType DEF Jobs, Reports
  <2>2. Ended(r, report)
    BY <1>5 DEF Exit
  <2>. QED BY <1>2, <1>3, <2>1, <2>2, EndedCounted
<1>6. CASE ~Ended(r, [exit |-> "refused", failed |-> {}]) /\ ~Exit(r)
  <2>1. streak' = streak /\ DOMAIN job' = DOMAIN job
    BY <1>6 DEF Work, Admit, NextLine, Intend, DeleteManifest, DeleteSegment, Conclude, Unfinished
  <2>2. job'[r].step # "done"
    <3>1. job[r] \in Jobs /\ job \in [DOMAIN job -> Jobs]
      BY <1>1 DEF TypeOK, JobsOK
    <3>2. \A code : Unfinished(r, code)[r].step = "next" /\ DOMAIN Unfinished(r, code) = DOMAIN job
      BY <3>1 DEF Unfinished, Jobs
    <3>3. CASE Admit(r) \/ NextLine(r) \/ DeleteSegment(r)
      BY <1>2, <1>6, <3>1, <3>3 DEF Admit, NextLine, DeleteSegment, Jobs
    <3>4. CASE Intend(r) \/ DeleteManifest(r)
      BY <3>1, <3>2, <3>4 DEF Intend, DeleteManifest, Jobs
    <3>5. CASE Conclude(r)
      <4>1. CASE \E code : job' = [Unfinished(r, code) EXCEPT ![r].count = @ - job[r].line.gone]
        BY <3>2, <4>1
      <4>2. CASE \E code : job' = Unfinished(r, code)
        BY <3>2, <4>2
      <4>3. CASE job' = [job EXCEPT ![r].step = "next", ![r].line = NoLine]
        BY <3>1, <4>3 DEF Jobs
      <4>. QED BY <3>5, <4>1, <4>2, <4>3 DEF Conclude
    <3>. QED BY <1>6, <3>3, <3>4, <3>5 DEF Work
  <2>. QED BY <1>2, <1>3, <2>1, <2>2, WorkCounted
<1>. QED BY <1>4, <1>5, <1>6

\* A pod or a Job that is lost at work is a failure; one that is done was counted.
LEMMA LossCounted ==
    ASSUME IInv, Counted, NEW r \in DOMAIN job \ astray, LosePod(r) \/ RemoveJob(r)
    PROVE  Counted'
<1>1. TypeOK
  BY DEF IInv
<1>2. UNCHANGED <<st, pc, pass, spec>> /\ BudgetBefore' = BudgetBefore /\ Tracked' = Tracked
  BY DEF LosePod, RemoveJob, policy, BudgetBefore, Tracked
<1>3. CASE LosePod(r) /\ job[r].step # "done"
  BY <1>2, <1>3, EndedCounted, ReportTypes DEF LosePod, Lost
<1>4. CASE LosePod(r) /\ job[r].step = "done"
  <2>1. job' = [job EXCEPT ![r].report = Lost] /\ streak' = streak
    BY <1>4 DEF LosePod
  <2>2. DOMAIN job' = DOMAIN job /\ job'[r].report = Lost /\ job'[r].step = "done"
        /\ \A q \in DOMAIN job \ {r} : job'[q] = job[q]
    BY <1>1, <1>4, <2>1 DEF TypeOK, JobsOK, Jobs
  <2>3. ~BoundedOnly(Lost) /\ ~BucketLevel(Lost) /\ Lost.exit = "lost"
    BY DEF BoundedOnly, BucketLevel, Lost
  <2>4. ASSUME st.run = r PROVE CountedOf(job[st.run])'
    BY <1>2, <2>2, <2>3, <2>4 DEF CountedOf
  <2>5. ASSUME st.run \in DOMAIN job \ {r}, CountedOf(job[st.run]) PROVE CountedOf(job[st.run])'
    BY <1>2, <2>1, <2>2, <2>5 DEF CountedOf, BoundedOnly, BucketLevel, Codes
  <2>. QED BY <1>2, <2>1, <2>2, <2>4, <2>5 DEF Counted
<1>5. CASE RemoveJob(r) /\ job[r].step # "done"
  <2>1. st.run = r /\ Tracked /\ pc = "idle" /\ streak <= BudgetBefore /\ streak < DegradedAfter
    BY <1>5, WorkIsTracked
  <2>2. r \notin DOMAIN job' /\ streak' = streak + 1
    BY <1>5 DEF RemoveJob
  <2>. QED BY <1>1, <1>2, <2>1, <2>2, CountTypes DEF Counted
<1>6. CASE RemoveJob(r) /\ job[r].step = "done"
  <2>1. job' = [q \in DOMAIN job \ {r} |-> job[q]] /\ streak' = streak
    BY <1>6 DEF RemoveJob
  <2>2. \A q \in DOMAIN job' : q \in DOMAIN job /\ job'[q] = job[q]
    BY <2>1
  <2>3. ASSUME st.run \in DOMAIN job', CountedOf(job[st.run]) PROVE CountedOf(job[st.run])'
    BY <1>2, <2>1, <2>2, <2>3 DEF CountedOf, BoundedOnly, BucketLevel, Codes
  <2>. QED BY <1>2, <2>1, <2>2, <2>3 DEF Counted
<1>. QED BY <1>3, <1>4, <1>5, <1>6

\* What becomes of a run gone astray is in no count, but a success clears it.
LEMMA AstrayCounted ==
    ASSUME IInv, Counted, NEW r \in DOMAIN job \cap astray, Work(r) \/ LosePod(r) \/ RemoveJob(r)
    PROVE  Counted'
<1>1. TypeOK /\ (Tracked => st.run # r)
  BY DEF IInv, Tracking
<1>2. /\ UNCHANGED <<st, pc, pass, spec>>
      /\ DOMAIN job' = DOMAIN job \/ DOMAIN job' = DOMAIN job \ {r}
  BY WorkerFrame
<1>3. BudgetBefore' = BudgetBefore /\ Tracked' = Tracked
  BY <1>2 DEF BudgetBefore, Tracked
<1>4. streak' \in {0, streak}
  BY DEF Work, Admit, NextLine, Intend, DeleteManifest, DeleteSegment, Conclude, Exit, LosePod,
     RemoveJob, Ended
<1>5. \A q \in DOMAIN job' \ {r} : job'[q] = job[q]
  BY <1>1 DEF Work, Admit, NextLine, Intend, DeleteManifest, DeleteSegment, Conclude, Exit,
     LosePod, RemoveJob, Ended, Unfinished, TypeOK, JobsOK
<1>6. 0 <= streak /\ 0 < DegradedAfter /\ 0 <= BudgetBefore
  BY <1>1, CountTypes
<1>7. ASSUME Tracked', st'.run \in DOMAIN job' PROVE CountedOf(job[st.run])'
  <2>1. st.run \in DOMAIN job /\ job'[st.run] = job[st.run] /\ CountedOf(job[st.run])
    BY <1>1, <1>2, <1>3, <1>5, <1>7 DEF Counted
  <2>. QED BY <1>2, <1>3, <1>4, <1>6, <2>1 DEF CountedOf, BoundedOnly, BucketLevel, Codes
<1>. QED BY <1>1, <1>2, <1>3, <1>4, <1>6, <1>7, CountTypes DEF Counted

LEMMA CountedStep == IInv /\ Counted /\ [Next]_vars => Counted'
<1> SUFFICES ASSUME IInv, Counted, [Next]_vars PROVE Counted'
  OBVIOUS
<1>1. TypeOK
  BY DEF IInv
<1>2. CASE Harvest
  BY <1>2, HarvestCounted
<1>3. CASE ReportRunning
  <2>1. UNCHANGED <<job, spec, streak>> /\ pc' = "idle"
    BY <1>3 DEF ReportRunning, Idle
  <2>2. /\ st'.run = st.run /\ st'.ended = st.ended /\ st'.bucketOnly = st.bucketOnly
        /\ st'.gen = spec.gen /\ st'.failures = BudgetBefore
    BY <1>1, <1>3 DEF ReportRunning, Adopted, TypeOK, Statuses
  <2>3. BudgetBefore' = BudgetBefore /\ Tracked' = Tracked
    BY <2>1, <2>2 DEF BudgetBefore, Tracked
  <2>. QED BY <2>1, <2>2, <2>3 DEF Counted, CountedOf, BoundedOnly, BucketLevel, Codes
<1>4. CASE Evaluate
  BY <1>4, EvaluateCounted
<1>5. CASE TakeLease \/ ListRestores \/ Record \/ Create \/ CreateFails \/ Crash
  BY <1>5, PassCounted
<1>6. ASSUME NEW r \in DOMAIN job, Work(r) PROVE Counted'
  BY <1>6, WorkerCounted, AstrayCounted
<1>7. ASSUME NEW r \in DOMAIN job, LosePod(r) \/ RemoveJob(r) PROVE Counted'
  BY <1>7, LossCounted, AstrayCounted
<1>8. CASE \/ Tick \/ Sync \/ SwitchOnVersioning \/ UNCHANGED vars
           \/ (\E p \in Points : RefuseVerdict(p))
           \/ (\E s \in Sets : BeginRestore(s) \/ EndRestore(s))
  <2>1. UNCHANGED <<st, pc, pass, job, streak, spec>>
    BY <1>8 DEF Tick, Sync, SwitchOnVersioning, RefuseVerdict, BeginRestore, EndRestore, vars, policy
  <2>2. BudgetBefore' = BudgetBefore
    BY <2>1 DEF BudgetBefore
  <2>. QED BY <2>1, <2>2, CountedKept
<1>9. CASE Edit
  <2>1. UNCHANGED <<st, pc, pass, job>> /\ streak' = 0
    BY <1>9 DEF Edit
  <2>2. BudgetBefore' \in Nat
    BY NextTypeOK, BudgetType DEF BudgetBefore, TypeOK, Statuses, Specs
  <2>3. streak' < DegradedAfter /\ streak' <= BudgetBefore'
    BY <1>1, <2>1, <2>2, CountTypes
  <2>4. ASSUME CountedOf(job[st.run]) PROVE CountedOf(job[st.run])'
    BY <2>1, <2>3, <2>4 DEF CountedOf
  <2>5. Tracked' <=> Tracked
    BY <1>9, <2>1 DEF Edit, Tracked
  <2>6. streak' <= DegradedAfter
    BY <1>1, <2>1, CountTypes
  <2>7. streak' <= BudgetBefore' + 1
    <3>1. \A b \in Nat : 0 <= b + 1
      OBVIOUS
    <3>. QED BY <2>1, <2>2, <3>1, Zenon
  <2>8. Tracked' /\ st'.run \in DOMAIN job' => CountedOf(job[st.run])'
    BY <2>1, <2>4, <2>5 DEF Counted
  <2>. QED BY <2>3, <2>6, <2>7, <2>8 DEF Counted
<1>. QED BY <1>2, <1>3, <1>4, <1>5, <1>6, <1>7, <1>8, <1>9 DEF Next, Pass

\* The controller stops after DegradedAfter failed runs in a row that it recorded and did
\* not withdraw (retention_policy.rs, harvest, evaluate).
THEOREM BudgetIsKept == Spec => []BudgetHolds
<1>1. Init => Counted
  <2> SUFFICES ASSUME Init PROVE Counted
    OBVIOUS
  <2>1. TypeOK /\ ~Tracked /\ streak = 0 /\ pc = "idle"
    BY InitTypeOK DEF Init, Tracked
  <2>. QED BY <2>1, CountTypes DEF Counted
<1>2. Counted => BudgetHolds
  BY DEF Counted, BudgetHolds
<1>. QED BY <1>1, <1>2, CountedStep, Invariance, PTL DEF Spec

-----------------------------------------------------------------------------
(***************************************************************************)
(* The controller and its workers implement ArchiveRetention, for every    *)
(* archive: each step is a step of it or leaves its variables as they are. *)
(* What takes an argument is that the newest points are never condemned.   *)
(***************************************************************************)

Condemned == {SetOf[i[2]] : i \in intents}
Spared    == {p \in Points : there[SetOf[p]] # {} /\ SetOf[p] \notin Condemned}

\* Two later points are never taken at the same time.
LEMMA TakenApart ==
    ASSUME NEW p \in Points, NEW q \in Points, p > Initial, q > Initial, Taken(p) = Taken(q)
    PROVE  p = q
<1> DEFINE a == p - Initial
           b == q - Initial
<1>1. a \in Nat /\ b \in Nat /\ BackupEvery \in Nat /\ BackupEvery > 0
  BY ArchiveAssumption DEF Points
<1>2. BackupEvery * a = BackupEvery * b
  BY ArchiveAssumption DEF Taken, Points
<1>3. a = b
  BY ONLY <1>1, <1>2
<1>. QED BY <1>3, ArchiveAssumption DEF Points

\* However many points are condemned, at least the floor of them is spared.
LEMMA FloorSpared == IInv /\ Condemned # {} => Cardinality(Spared) >= NeverCandidates
<1> SUFFICES ASSUME IInv, Condemned # {} PROVE Cardinality(Spared) >= NeverCandidates
  OBVIOUS
<1> DEFINE Gone == {p \in Existing : SetOf[p] \in Condemned}
<1>0. TypeOK /\ Existing \in SUBSET Points
  BY ExistingPoints DEF IInv
<1>1. Gone \in SUBSET (0 .. N) /\ N \in Nat /\ Gone # {}
  <2>1. PICK i \in intents : TRUE
    BY DEF Condemned
  <2>2. i[2] \in Existing
    BY DEF IInv, PlansSound, Sound, SoundIn
  <2>3. i[2] \in Gone
    BY <2>2 DEF Condemned
  <2>4. N \in Nat /\ Points \subseteq 0 .. N
    BY ArchiveAssumption DEF Points
  <2>5. Gone \subseteq 0 .. N
    BY <1>0, <2>4
  <2>. QED BY <2>3, <2>4, <2>5
<1>2. PICK g \in Gone : \A x \in Gone : x <= g
  BY <1>1, GreatestExists
<1>3. Cardinality({q \in Existing : q > g}) >= NeverCandidates
  <2>1. PICK i \in intents : SetOf[i[2]] = SetOf[g]
    BY DEF Condemned
  <2>2. Sound(i[1][1]) /\ i[2] \in i[1][1].lines
    BY DEF IInv, PlansSound
  <2>3. g \in i[1][1].lines
    BY <1>0, <2>1, <2>2 DEF Sound, SoundIn
  <2>. QED BY <2>2, <2>3 DEF Sound, SoundIn
<1>4. ASSUME NEW q \in Existing, q > g PROVE q \in Spared
  <2>1. q \notin Gone
    <3>1. q \in Nat /\ g \in Nat
      BY <1>0, ArchiveAssumption DEF Points
    <3>. QED BY <1>2, <1>4, <3>1
  <2>2. there[SetOf[q]] = Keys
    <3>1. ~\E i \in intents : SetOf[i[2]] = SetOf[q]
      BY <2>1 DEF Condemned
    <3>. QED BY <3>1 DEF IInv, ArchiveSound, Attributed
  <2>3. Keys # {}
    <3>1. Segments \in Nat
      BY ArchiveAssumption
    <3>2. 0 \in Keys
      BY <3>1 DEF Keys
    <3>. QED BY <3>2
  <2>. QED BY <1>0, <2>1, <2>2, <2>3 DEF Spared
<1>5. {q \in Existing : q > g} \in SUBSET Spared /\ Spared \in SUBSET Points
  BY <1>4 DEF Spared
<1>6. IsFiniteSet(Spared) /\ Cardinality(Spared) \in Nat
  BY <1>5, PointsFinite
<1>7. Cardinality({q \in Existing : q > g}) <= Cardinality(Spared)
  BY <1>5, <1>6, FS_Subset
<1>8. Cardinality({q \in Existing : q > g}) \in Nat
  BY <1>5, <1>6, FS_Subset, FS_CardinalityType
<1>. QED BY <1>3, <1>6, <1>7, <1>8, FloorType

LEMMA SetsAgree == Archive!Sets = Sets
BY DEF Archive!Sets, Sets

LEMMA CardinalityAgrees == \A S : Archive!Cardinality(S) = Cardinality(S)
BY DEF Archive!Cardinality, Cardinality

LEMMA InitArchive == Init => Archive!Init
BY SMTT(60), SetsAgree DEF Init, Archive!Init

\* The condemned are one more, by an intent, or as they were.
LEMMA CondemnedStep ==
    ASSUME IInv, [Next]_vars
    PROVE  \/ Condemned' = Condemned
           \/ /\ there' = there
              /\ \E s \in Sets : Condemned' = Condemned \cup {s}
<1>1. CASE intents' = intents
  BY <1>1 DEF Condemned
<1>2. CASE \E r \in DOMAIN job : Intend(r)
  <2>1. PICK r \in DOMAIN job : Intend(r)
    BY <1>2
  <2>2. job[r].step = "intent" /\ there' = there
        /\ (intents' = intents \/ intents' = intents \cup ({r} \X Members(r)))
    BY <2>1 DEF Intend, Running
  <2>. DEFINE s == job[r].line.at
  <2>3. PICK c \in r[1].lines : SetOf[c] = s
    BY <2>2 DEF IInv, WorkersKnow, WorkerKnows, AtLine
  <2>4. s \in Sets
    <3>1. r[1].lines \subseteq Existing
      BY DEF IInv, PlansSound, Sound, SoundIn
    <3>. QED BY <2>3, <3>1, SetsArePoints DEF Existing
  <2>5. CASE intents' = intents \cup ({r} \X Members(r))
    <3>1. c \in Members(r) /\ \A p \in Members(r) : SetOf[p] = s
      BY <2>3 DEF Members
    <3>2. \A i \in {r} \X Members(r) : SetOf[i[2]] = s
      BY <3>1
    <3>3. <<r, c>> \in intents' /\ SetOf[<<r, c>>[2]] = s
      BY <2>3, <2>5, <3>1
    <3>4. Condemned' = Condemned \cup {s}
      BY <2>5, <3>2, <3>3 DEF Condemned
    <3>. QED BY <2>2, <2>3, <2>4, <3>4
  <2>. QED BY <1>1, <2>2, <2>5
<1>. QED BY <1>1, <1>2 DEF Next, Pass, Work, Harvest, ReportRunning, Evaluate, TakeLease,
     ListRestores, Record, Create, CreateFails, Crash, Admit, NextLine, DeleteManifest,
     DeleteSegment, Conclude, Exit, LosePod, RemoveJob, Tick, Sync, SwitchOnVersioning, Edit,
     RefuseVerdict, BeginRestore, EndRestore, vars, archive

\* A backup completes at a tick; no other point does at the same one.
LEMMA TickArchive ==
    ASSUME IInv, Tick
    PROVE  \/ UNCHANGED <<there, intents>>
           \/ \E s \in Sets : /\ there[s] = {} /\ s \notin Condemned
                              /\ there' = [there EXCEPT ![s] = Keys]
                              /\ UNCHANGED intents
<1>0. TypeOK /\ there \in [Sets -> SUBSET Keys] /\ Existing \in SUBSET Points
  BY ExistingPoints DEF IInv, TypeOK, ArchiveOK
<1>1. there' = [s \in Sets |-> IF Taken(s) = now + 1 THEN Keys ELSE there[s]] /\ UNCHANGED intents
  BY DEF Tick
<1>2. CASE \E s \in Sets : Taken(s) = now + 1
  <2>1. PICK s \in Sets : Taken(s) = now + 1
    BY <1>2
  <2>2. s \in Points /\ SetOf[s] = s /\ s > Initial
    BY <1>0, <2>1, PointsOfSets, SetsArePoints
  <2>3. \A t \in Sets : Taken(t) = now + 1 => t = s
    BY <1>0, <2>1, <2>2, PointsOfSets, SetsArePoints, TakenApart
  <2>4. there' = [there EXCEPT ![s] = Keys]
    BY <1>0, <1>1, <2>1, <2>3
  <2>5. s \notin Condemned
    <3> SUFFICES ASSUME NEW i \in intents, SetOf[i[2]] = s PROVE FALSE
      BY DEF Condemned
    <3>1. i[2] \in Existing
      BY DEF IInv, PlansSound, Sound, SoundIn
    <3>. QED BY <1>0, <2>1, <3>1, PointsOfSets
  <2>6. there[s] = {}
    <3>1. s \notin Existing
      BY <1>0, <2>1, <2>2, PointsOfSets
    <3>. QED BY <3>1 DEF IInv, ArchiveSound, NothingEarly
  <2>. QED BY <1>1, <2>1, <2>4, <2>5, <2>6
<1>3. CASE ~\E s \in Sets : Taken(s) = now + 1
  BY <1>0, <1>1, <1>3
<1>. QED BY <1>2, <1>3

\* A deletion takes one object of a condemned set, the manifest first.
LEMMA RemoveArchive ==
    ASSUME IInv, NEW r \in DOMAIN job, job[r].step \in {"manifest", "segments"}, NEW k \in Keys,
           Delete(job[r].line.at, k), k = Manifest \/ Manifest \notin there[job[r].line.at]
    PROVE  \/ there' = there
           \/ \E s \in Sets : /\ s \in Condemned /\ k \in there[s]
                              /\ k # Manifest => Manifest \notin there[s]
                              /\ there' = [there EXCEPT ![s] = @ \ {k}]
<1>. DEFINE s == job[r].line.at
<1>1. s \in Sets /\ there \in [Sets -> SUBSET Keys]
  BY AtWork DEF IInv, TypeOK, ArchiveOK
<1>2. PICK p \in r[1].lines : SetOf[p] = s /\ <<r, p>> \in intents
  BY AtWork
<1>3. s \in Condemned
  <2>1. SetOf[<<r, p>>[2]] = s
    BY <1>2
  <2>. QED BY <1>2, <2>1 DEF Condemned
<1>4. there' = [there EXCEPT ![s] = @ \ {k}]
  BY DEF Delete
<1>5. CASE k \in there[s]
  BY <1>1, <1>3, <1>4, <1>5
<1>6. CASE k \notin there[s]
  BY <1>1, <1>4, <1>6
<1>. QED BY <1>5, <1>6

LEMMA NextArchive == IInv /\ IInv' /\ [Next]_vars => [Archive!Next]_(Archive!vars)
<1> SUFFICES ASSUME IInv, IInv', [Next]_vars
             PROVE  Archive!Next \/ (there' = there /\ Condemned' = Condemned)
  BY DEF Archive!vars, Condemned
<1>. USE SetsAgree
<1>1. ASSUME NEW s \in Sets, there' = there, Condemned' = Condemned \cup {s}, s \notin Condemned
      PROVE  Archive!Next
  <2>1. (IInv /\ Condemned # {} => Cardinality(Spared) >= NeverCandidates)'
    BY FloorSpared, PTL
  <2>2. Condemned' # {}
    BY <1>1
  <2>3. Cardinality(Spared') >= NeverCandidates
    BY <2>1, <2>2
  <2>. QED BY <1>1, <2>3, CardinalityAgrees
       DEF Archive!Next, Archive!Condemn, Archive!Spared, Condemned, Spared
<1>2. CASE Tick
  <2>1. CASE UNCHANGED <<there, intents>>
    BY <2>1 DEF Condemned
  <2>2. CASE \E s \in Sets : /\ there[s] = {} /\ s \notin Condemned
                             /\ there' = [there EXCEPT ![s] = Keys]
                             /\ UNCHANGED intents
    BY <2>2 DEF Archive!Next, Archive!Store, Condemned
  <2>. QED BY <1>2, <2>1, <2>2, TickArchive
<1>3. ASSUME NEW r \in DOMAIN job, job[r].step \in {"manifest", "segments"}, NEW k \in Keys,
             Delete(job[r].line.at, k), k = Manifest \/ Manifest \notin there[job[r].line.at],
             UNCHANGED intents
      PROVE  Archive!Next \/ (there' = there /\ Condemned' = Condemned)
  <2>1. Condemned' = Condemned
    BY <1>3 DEF Condemned
  <2>2. ASSUME NEW s \in Sets, s \in Condemned, k \in there[s],
               k # Manifest => Manifest \notin there[s], there' = [there EXCEPT ![s] = @ \ {k}]
        PROVE  Archive!Next
    BY <1>3, <2>1, <2>2 DEF Archive!Next, Archive!Remove, Condemned
  <2>. QED BY <1>3, <2>1, <2>2, RemoveArchive
<1>4. CASE UNCHANGED <<there, marked>> /\ ~Tick
  <2>1. CASE Condemned' = Condemned
    BY <1>4, <2>1
  <2>3. CASE Condemned' # Condemned
    BY <1>1, <1>4, <2>3, CondemnedStep
  <2>. QED BY <2>1, <2>3
<1>. QED BY <1>2, <1>3, <1>4, ArchiveStep

\* The controller and its workers never do more to the archive than ArchiveRetention allows
\* (retention_plan.rs, evaluate; logweir-reaper/src/lib.rs, execute).
THEOREM Refinement == Spec => ImplementsArchive
<1>1. Init => Archive!Init
  BY InitArchive
<1>2. IInv /\ IInv' /\ [Next]_vars => [Archive!Next]_(Archive!vars)
  BY NextArchive
<1>. QED BY <1>1, <1>2, Invariance, PTL DEF Spec, ImplementsArchive, Archive!Spec

=============================================================================
