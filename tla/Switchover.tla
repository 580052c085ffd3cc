----------------------------- MODULE Switchover -----------------------------
(***************************************************************************)
(* The Switchover reconciler of one Restore (controllers/switchover.rs)    *)
(* beside the approval controller's judgement of the Approvals these       *)
(* Switchovers name (controllers/approval.rs).  A pass is a sequence of    *)
(* API calls; users, the Job, the restore's own controller and the         *)
(* approval controller act between any two of them, and the pass may end   *)
(* at any of them by a failed call or a stopped process.                   *)
(*                                                                         *)
(* A pass starts from the Switchover as stored: only this controller       *)
(* writes its status, and its watch is taken to have delivered the last    *)
(* write.                                                                  *)
(***************************************************************************)
EXTENDS Naturals, FiniteSets

CONSTANTS
  Switchover,  \* the Switchovers of one Restore, numbered in name order
  MaxUpsets    \* passes that end early, Jobs a user deletes and Jobs someone
               \* else makes under a Switchover's name, together

ASSUME SwitchoverAssumption ==
  /\ Switchover \subseteq Nat
  /\ IsFiniteSet(Switchover)
  /\ MaxUpsets \in Nat

VARIABLES
  restore,   \* the Restore as its status shows it
  born,      \* creationTimestamp of each Switchover in seconds; 0: not created
  phase,     \* status.phase
  marker,    \* the Admitted condition, and whether its time is in the window
  jobRef,    \* status.jobRef is written
  job,       \* the Job under the Switchover's name
  pass,      \* where the pass over it stands, and the Job that pass read
  approval,  \* the recorded verdict of its Approval; pending: none, or no Approval yet
  open,      \* the approval document has not expired
  created,   \* history: Jobs created for it by this controller
  upsets     \* passes failed, Jobs deleted, Jobs planted

swVars == <<born, phase, marker, jobRef>>
approvalVars == <<approval, open>>
vars == <<restore, swVars, job, pass, approvalVars, created, upsets>>

\* A run that ended is Succeeded, PartiallyApplied or Failed: here "Ended".
TerminalPhases == {"Ended", "Refused"}
Phases == {"Pending", "Running"} \cup TerminalPhases
Jobs == {"none", "foreign", "active", "done"}
PassPoints == {"idle", "decide", "mark", "create", "conflict", "ref"}
Verdicts == {"pending", "verified", "refused", "consumed"}

Exists(s) == born[s] # 0
Terminal(s) == phase[s] \in TerminalPhases
Own(j) == j \in {"active", "done"}
Admitted(s) == marker[s] # "no"
At(s, p) == pass[s].at = p

TypeOK ==
  /\ restore \in {"Running", "Unverified", "Valid", "NotValid"}
  /\ born \in [Switchover -> Nat]
  /\ phase \in [Switchover -> Phases]
  /\ marker \in [Switchover -> {"no", "inTime", "late"}]
  /\ jobRef \in [Switchover -> BOOLEAN]
  /\ job \in [Switchover -> Jobs]
  /\ pass \in [Switchover -> [at : PassPoints, job : Jobs]]
  /\ approval \in [Switchover -> Verdicts]
  /\ open \in [Switchover -> BOOLEAN]
  /\ created \in [Switchover -> Nat]
  /\ upsets \in Nat

Init ==
  /\ restore = "Running"
  /\ born = [s \in Switchover |-> 0]
  /\ phase = [s \in Switchover |-> "Pending"]
  /\ marker = [s \in Switchover |-> "no"]
  /\ jobRef = [s \in Switchover |-> FALSE]
  /\ job = [s \in Switchover |-> "none"]
  /\ pass = [s \in Switchover |-> [at |-> "idle", job |-> "none"]]
  /\ approval = [s \in Switchover |-> "pending"]
  /\ open = [s \in Switchover |-> TRUE]
  /\ created = [s \in Switchover |-> 0]
  /\ upsets = 0

-----------------------------------------------------------------------------
(* Users, the Restore and the Job.                                         *)

\* A Switchover is created, in this second or a later one.
Create(s) ==
  /\ born[s] = 0
  /\ \E t \in 1..(Cardinality(Switchover)) :
       /\ \A o \in Switchover : born[o] <= t
       /\ born' = [born EXCEPT ![s] = t]
  /\ UNCHANGED <<restore, phase, marker, jobRef, job, pass, approvalVars,
                 created, upsets>>

\* The Approval's document expires; one without an expiry never does.
Expire(s) ==
  /\ Exists(s) /\ open[s]
  /\ open' = [open EXCEPT ![s] = FALSE]
  /\ UNCHANGED <<restore, swVars, job, pass, approval, created, upsets>>

\* The Restore ends; its evidence verdict is a second write, which may come
\* much later when a Job has to fetch the evidence.
RestoreEnds ==
  /\ restore = "Running"
  /\ restore' \in {"Unverified", "NotValid"}
  /\ UNCHANGED <<swVars, job, pass, approvalVars, created, upsets>>

VerdictRecorded ==
  /\ restore = "Unverified"
  /\ restore' \in {"Valid", "NotValid"}
  /\ UNCHANGED <<swVars, job, pass, approvalVars, created, upsets>>

\* The run ends, at its deadline at the latest.
JobEnds(s) ==
  /\ job[s] = "active"
  /\ job' = [job EXCEPT ![s] = "done"]
  /\ UNCHANGED <<restore, swVars, pass, approvalVars, created, upsets>>

DeleteJob(s) ==
  /\ Own(job[s])
  /\ upsets < MaxUpsets
  /\ upsets' = upsets + 1
  /\ job' = [job EXCEPT ![s] = "none"]
  /\ UNCHANGED <<restore, swVars, pass, approvalVars, created>>

\* Someone makes a Job under the name, where none is or after deleting the
\* Switchover's own.
PlantJob(s) ==
  /\ Exists(s)
  /\ job[s] # "foreign"
  /\ upsets < MaxUpsets
  /\ upsets' = upsets + 1
  /\ job' = [job EXCEPT ![s] = "foreign"]
  /\ UNCHANGED <<restore, swVars, pass, approvalVars, created>>

RemovePlant(s) ==
  /\ job[s] = "foreign"
  /\ job' = [job EXCEPT ![s] = "none"]
  /\ UNCHANGED <<restore, swVars, pass, approvalVars, created, upsets>>

-----------------------------------------------------------------------------
(* The approval controller.                                                *)

\* Mutant of Judged: an approval is held to its window as of now, admitted or not.
JudgedByTheClock(s, seen) ==
  IF approval[s] = "consumed" THEN "consumed"
  ELSE IF ~open[s] THEN "refused"
  ELSE IF seen # "no" THEN "consumed" ELSE "verified"

\* judge and keep_expired, over the marker the judgement read: a verified
\* approval whose Switchover was admitted is consumed without judging it
\* again; the document is held to its window now, or at the admission; an
\* expired one stays expired, unless its admission was in the window.
Judged(s, seen) ==
  LET admitted == seen # "no"
      inWindow == IF admitted THEN seen = "inTime" ELSE open[s]
  IN  IF approval[s] = "consumed" \/ (approval[s] = "verified" /\ admitted) THEN "consumed"
      ELSE IF ~inWindow THEN "refused"
      ELSE IF approval[s] # "refused" THEN "verified"
      ELSE IF admitted THEN "consumed" ELSE "refused"

\* The Switchover may have been read before the marker landed.
Judge(s) ==
  /\ Exists(s)
  /\ \E seen \in {marker[s], "no"} :
       /\ Judged(s, seen) # approval[s]
       /\ approval' = [approval EXCEPT ![s] = Judged(s, seen)]
  /\ UNCHANGED <<restore, swVars, job, pass, open, created, upsets>>

-----------------------------------------------------------------------------
(* The Switchover controller's pass.                                       *)

\* Mutant of JobStep: a Switchover whose recorded Job is gone is admitted again.
JobStepAgain(s, j) ==
  IF j = "none" THEN "Admit"
  ELSE IF Admitted(s) \/ jobRef[s] THEN "Observe" ELSE "NotAdmitted"

JobStep(s, j) ==
  IF j # "none"
  THEN IF Admitted(s) \/ jobRef[s] THEN "Observe" ELSE "NotAdmitted"
  ELSE IF jobRef[s] THEN "Lost" ELSE "Admit"

\* creationTimestamp, then name.
Before(o, s) == born[o] < born[s] \/ (born[o] = born[s] /\ o < s)

\* Mutant of Blocked: an older Switchover without a Job on record is passed by.
BlockedByRuns(s) == \E o \in Switchover \ {s} : ~Terminal(o) /\ jobRef[o]

\* Another Switchover of this Restore that is still open, and has its Job or
\* is the older one.
Blocked(s) ==
  \E o \in Switchover \ {s} :
    Exists(o) /\ ~Terminal(o) /\ (jobRef[o] \/ Before(o, s))

\* Mutant of Admission: a Restore that failed is waited for.
AdmissionPatient(s) ==
  IF restore # "Valid" THEN "Hold"
  ELSE IF Blocked(s) THEN "Refuse"
  ELSE IF approval[s] \notin {"verified", "consumed"} THEN "Hold" ELSE "Admit"

\* What admit answers, in its order.
Admission(s) ==
  IF restore = "Running" THEN "Hold"
  ELSE IF restore # "Valid" \/ Blocked(s) THEN "Refuse"
  ELSE IF approval[s] \notin {"verified", "consumed"} THEN "Hold" ELSE "Admit"

Goto(s, p) == pass' = [pass EXCEPT ![s].at = p]
SetPhase(s, p) == phase' = [phase EXCEPT ![s] = p]

\* A pass over an open Switchover begins: its Job is read.
Look(s) ==
  /\ Exists(s) /\ ~Terminal(s)
  /\ At(s, "idle")
  /\ pass' = [pass EXCEPT ![s] = [at |-> "decide", job |-> job[s]]]
  /\ UNCHANGED <<restore, swVars, job, approvalVars, created, upsets>>

Deciding(s, step) ==
  /\ At(s, "decide")
  /\ JobStep(s, pass[s].job) = step

NotAdmitted(s) ==
  /\ Deciding(s, "NotAdmitted")
  /\ SetPhase(s, "Pending")
  /\ Goto(s, "idle")
  /\ UNCHANGED <<restore, born, marker, jobRef, job, approvalVars, created, upsets>>

Lost(s) ==
  /\ Deciding(s, "Lost")
  /\ SetPhase(s, "Ended")
  /\ Goto(s, "idle")
  /\ UNCHANGED <<restore, born, marker, jobRef, job, approvalVars, created, upsets>>

NotOwn(s) ==
  /\ Deciding(s, "Observe")
  /\ ~Own(pass[s].job)
  /\ SetPhase(s, "Refused")
  /\ Goto(s, "idle")
  /\ UNCHANGED <<restore, born, marker, jobRef, job, approvalVars, created, upsets>>

\* The run's Job as the pass read it: at work, or ended with the phase its
\* exit code and lines give (SwitchoverRun), or Failed when they are gone.
Observe(s) ==
  /\ Deciding(s, "Observe")
  /\ \/ pass[s].job = "active" /\ SetPhase(s, "Running")
     \/ pass[s].job = "done" /\ \E p \in TerminalPhases : SetPhase(s, p)
  /\ jobRef' = [jobRef EXCEPT ![s] = TRUE]
  /\ Goto(s, "idle")
  /\ UNCHANGED <<restore, born, marker, job, approvalVars, created, upsets>>

\* What the bundle is made of is read after admit: the cluster, the
\* destinations and the trust may hold or refuse what admit let through.
Hold(s) ==
  /\ Deciding(s, "Admit")
  /\ Admission(s) \in {"Hold", "Admit"}
  /\ SetPhase(s, "Pending")
  /\ Goto(s, "idle")
  /\ UNCHANGED <<restore, born, marker, jobRef, job, approvalVars, created, upsets>>

Refuse(s) ==
  /\ Deciding(s, "Admit")
  /\ Admission(s) \in {"Refuse", "Admit"}
  /\ SetPhase(s, "Refused")
  /\ Goto(s, "idle")
  /\ UNCHANGED <<restore, born, marker, jobRef, job, approvalVars, created, upsets>>

\* Admitted: the bundle is made or found, which changes nothing read here.
Admit(s) ==
  /\ Deciding(s, "Admit")
  /\ Admission(s) = "Admit"
  /\ Goto(s, "mark")
  /\ UNCHANGED <<restore, swVars, job, approvalVars, created, upsets>>

\* The marker keeps the time it was first written at.
WriteMarker(s) ==
  /\ At(s, "mark")
  /\ marker' = [marker EXCEPT ![s] =
       IF @ # "no" THEN @ ELSE IF open[s] THEN "inTime" ELSE "late"]
  /\ SetPhase(s, "Running")
  /\ Goto(s, "create")
  /\ UNCHANGED <<restore, born, jobRef, job, approvalVars, created, upsets>>

CreateJob(s) ==
  /\ At(s, "create")
  /\ job[s] = "none"
  /\ job' = [job EXCEPT ![s] = "active"]
  /\ created' = [created EXCEPT ![s] = @ + 1]
  /\ Goto(s, "ref")
  /\ UNCHANGED <<restore, swVars, approvalVars, upsets>>

JobNameTaken(s) ==
  /\ At(s, "create")
  /\ job[s] # "none"
  /\ Goto(s, "conflict")
  /\ UNCHANGED <<restore, swVars, job, approvalVars, created, upsets>>

\* The Job that won is read: gone again, this run's own, or a stranger's.
Conflict(s) ==
  /\ At(s, "conflict")
  /\ Goto(s, IF Own(job[s]) THEN "ref" ELSE "idle")
  /\ SetPhase(s, IF job[s] = "foreign" THEN "Refused" ELSE phase[s])
  /\ UNCHANGED <<restore, born, marker, jobRef, job, approvalVars, created, upsets>>

WriteRef(s) ==
  /\ At(s, "ref")
  /\ SetPhase(s, "Running")
  /\ jobRef' = [jobRef EXCEPT ![s] = TRUE]
  /\ Goto(s, "idle")
  /\ UNCHANGED <<restore, born, marker, job, approvalVars, created, upsets>>

\* A call fails or the process stops: the pass ends where it is.
PassFails(s) ==
  /\ ~At(s, "idle")
  /\ upsets < MaxUpsets
  /\ upsets' = upsets + 1
  /\ Goto(s, "idle")
  /\ UNCHANGED <<restore, swVars, job, approvalVars, created>>

Reconcile(s) ==
  \/ Look(s) \/ NotAdmitted(s) \/ Lost(s) \/ NotOwn(s) \/ Observe(s)
  \/ Hold(s) \/ Refuse(s) \/ Admit(s)
  \/ WriteMarker(s) \/ CreateJob(s) \/ JobNameTaken(s) \/ Conflict(s) \/ WriteRef(s)

Environment(s) ==
  \/ Create(s) \/ Expire(s) \/ JobEnds(s)
  \/ DeleteJob(s) \/ PlantJob(s) \/ RemovePlant(s)

Next ==
  \/ RestoreEnds \/ VerdictRecorded
  \/ \E s \in Switchover :
       Environment(s) \/ Judge(s) \/ Reconcile(s) \/ PassFails(s)

Spec == Init /\ [][Next]_vars

\* Requeues, watches and the Job's deadline.  A pass that admits may be held
\* on what the bundle is made of any number of times, but not for ever.
Fairness ==
  /\ WF_vars(RestoreEnds) /\ WF_vars(VerdictRecorded)
  /\ \A s \in Switchover :
       /\ WF_vars(Reconcile(s)) /\ SF_vars(Admit(s))
       /\ WF_vars(Judge(s)) /\ WF_vars(JobEnds(s))

FairSpec == Spec /\ Fairness

-----------------------------------------------------------------------------
\* One Switchover of a Restore applies at a time (admit, step 3): two runs
\* are at work together only when both were created in the same second, where
\* neither is the older until both can be listed.
OneRunAtATime ==
  \A s, t \in Switchover :
    job[s] = "active" /\ job[t] = "active" => s = t \/ born[s] = born[t]

\* The runs take turns in the order the Switchovers were created, across
\* failed passes, deleted Jobs and Jobs of strangers.
Turns == INSTANCE SwitchoverTurns WITH
  asked <- born,
  running <- {s \in Switchover : job[s] = "active"},
  over <- {s \in Switchover : Terminal(s)}

TurnsSpec == Turns!Spec

\* A run whose Job was recorded never gets another one, whatever becomes of
\* that Job (job_step, "the run is lost").
NoJobAfterRecorded ==
  [][\A s \in Switchover : jobRef[s] => created'[s] = created[s]]_vars

\* An admission in the window of its Approval settles, through failed passes,
\* deleted Jobs and an expiry at any moment: the Switchover ends, so it blocks
\* no other for ever, and the Approval is recorded Consumed for good, so its
\* expiry never turns the record of a run into a refusal.
AdmissionSettles ==
  \A s \in Switchover :
    marker[s] = "inTime" ~> [](Terminal(s) /\ approval[s] = "consumed")

\* A Switchover of a finished Restore whose Approval is verified is admitted
\* or ends, unless its Approval expires first or a stranger holds its name.
ApprovedIsServed ==
  \A s \in Switchover :
    approval[s] = "verified" ~>
      (Admitted(s) \/ Terminal(s) \/ ~open[s] \/ job[s] = "foreign")
=============================================================================
