------------------------- MODULE RestoreInterruption -------------------------
(***************************************************************************)
(* One Restore into new topics, from its run Job to its end: the runner    *)
(* (drill/mod.rs), the controller's reading of how the run ended           *)
(* (controllers/restore.rs), and what becomes of a run that ended without  *)
(* a signed scorecard (controllers/restore_interruption.rs): the reconcile *)
(* Jobs that verify what it left (drill/reconcile.rs) and the cleanup Jobs *)
(* that remove it (restore_cleanup.rs).                                    *)
(*                                                                         *)
(* Queueing and admission are one nondeterministic step.  Once the Job of  *)
(* a run is made, reading its end and writing the status are one step: the *)
(* end does not change, and the write is conditional on the object read.   *)
(***************************************************************************)
EXTENDS Naturals, FiniteSets

CONSTANTS
  Topics,       \* the target topics of the plan
  Originals,    \* those that carry a source topic's own name
  MaxAttempts,  \* Jobs a reconcile or a cleanup may take (three in the code)
  MaxUpsets     \* pods killed or lost, Jobs deleted, passes stopped and topics
                \* taken away, together

ASSUME RestoreAssumption ==
  /\ IsFiniteSet(Topics) /\ Topics # {}
  /\ Originals \subseteq Topics
  /\ MaxAttempts \in Nat \ {0}
  /\ MaxUpsets \in Nat

Attempts == 1..MaxAttempts
Unnamed == MaxAttempts + 1   \* a reconcile whose log named no scorecard

VARIABLES
  phase,         \* status.phase; Open: Pending, Queued, Running, Stopping
  verification,  \* status.interruption.verification
  attempts,      \* status.interruption.attempts, its jobRef the last one's
  signedBy,      \* status.interruption.reconcileRunId: the attempt; 0: none
  cleanup,       \* status.interruption.cleanup: phase and attempts
  asked,         \* the annotations: cancel and cleanup requested
  pass,          \* where the controller's pass stands
  job,           \* the run Job
  pod,           \* its pod; gone: none is left
  run,           \* the runner's next step
  exit,          \* how the runner ended
  topic,         \* who made each target topic, and how much of the run's data is in it
  known,         \* topics whose ID was read at their creation
  record,        \* the targets record; bare: without its signature
  score,         \* the run's scorecard, likewise
  rjob,          \* the reconcile Jobs, by attempt
  kept,          \* the topics each attempt kept, signed in its scorecard
  cjob,          \* the cleanup Jobs, by attempt
  doomed,        \* the topics the cleanup at work will delete
  blind,         \* history: a trace of the run was lost before it was read
  upsets

statusVars == <<phase, verification, attempts, signedBy, cleanup>>
podVars == <<job, pod, exit>>
traceVars == <<known, record, score>>
reconcileVars == <<rjob, kept>>
cleanupVars == <<cjob, doomed>>
vars == <<statusVars, asked, pass, podVars, run, topic, traceVars,
          reconcileVars, cleanupVars, blind, upsets>>
Phases == {"Open", "Interrupted", "Succeeded", "Failed"}
Working == {"reading", "verifying", "deleting"}
ReconcileJobs == {"none", "reading", "verifying", "nothing", "own", "pass",
                  "partial", "refused", "failed"}
CleanupJobs == {"none", "reading", "deleting", "removed", "refused", "failed"}
Runs == {"empty", "partial", "full"}   \* topics the run made, by their data
Lacking == {"empty", "partial"}
Holding == {"partial", "full"}

TypeOK ==
  /\ phase \in Phases
  /\ verification \in {"none", "Running", "Done", "Failed"}
  /\ attempts \in 0..MaxAttempts
  /\ signedBy \in 0..Unnamed
  /\ cleanup \in [phase : {"none", "Removing", "Removed", "Failed"}, attempts : 0..MaxAttempts]
  /\ asked \in SUBSET {"cancel", "cleanup"}
  /\ pass \in {"idle", "admit", "list", "started", "cleaning"}
  /\ job \in {"none", "active", "suspended", "finished"}
  /\ pod \in {"none", "working", "stopping", "exited", "gone"}
  /\ run \in {"preflight", "create", "record", "engine", "verify", "pass", "fail", "report"}
  /\ exit \in {"none", "passed", "failed", "refused", "stopped", "crash"}
  /\ topic \in [Topics -> {"absent", "other"} \cup Runs]
  /\ known \in SUBSET Topics
  /\ record \in {"none", "bare", "signed"}
  /\ score \in {"none", "bare", "pass", "fail"}
  /\ rjob \in [Attempts -> ReconcileJobs]
  /\ kept \in [Attempts -> SUBSET Topics]
  /\ cjob \in [Attempts -> CleanupJobs]
  /\ doomed \in SUBSET Topics
  /\ blind \in BOOLEAN
  /\ upsets \in Nat

Init ==
  /\ phase = "Open" /\ verification = "none" /\ attempts = 0 /\ signedBy = 0
  /\ cleanup = [phase |-> "none", attempts |-> 0]
  /\ asked = {}
  /\ pass = "idle"
  /\ job = "none" /\ pod = "none" /\ exit = "none" /\ run = "preflight"
  /\ topic = [t \in Topics |-> "absent"]
  /\ known = {} /\ record = "none" /\ score = "none"
  /\ rjob = [n \in Attempts |-> "none"]
  /\ kept = [n \in Attempts |-> {}]
  /\ cjob = [n \in Attempts |-> "none"]
  /\ doomed = {}
  /\ blind = FALSE
  /\ upsets = 0

\* What may go wrong only so often.
Upset(b) ==
  /\ b => upsets < MaxUpsets
  /\ upsets' = IF b THEN upsets + 1 ELSE upsets

-----------------------------------------------------------------------------
(* The run Job, its pod, and the runner in it.                             *)

Alive == pod \in {"working", "stopping"}
Stopped == pod = "stopping"   \* SIGTERM was delivered

StartPod ==
  /\ job = "active" /\ pod = "none"
  /\ pod' = "working"
  /\ UNCHANGED <<statusVars, asked, pass, job, exit, run, topic, traceVars,
                 reconcileVars, cleanupVars, blind, upsets>>

\* A suspended Job's pod is deleted: stopped, and gone once it has ended.
ClearPod ==
  /\ job = "suspended"
  /\ \/ pod = "working" /\ pod' = "stopping"
     \/ pod = "exited" /\ pod' = "gone"
  /\ UNCHANGED <<statusVars, asked, pass, job, exit, run, topic, traceVars,
                 reconcileVars, cleanupVars, blind, upsets>>

\* A pod that never starts: fail-fast or the deadline ends its Job.
NeverStarts ==
  /\ job = "active" /\ pod = "none"
  /\ job' = "finished"
  /\ UNCHANGED <<statusVars, asked, pass, pod, exit, run, topic, traceVars,
                 reconcileVars, cleanupVars, blind, upsets>>

\* The pod is deleted or evicted, or its Job's deadline passes, which before
\* Kubernetes 1.31 fails the Job while the pod still stops.
StopPod ==
  /\ job = "active" /\ pod = "working"
  /\ pod' = "stopping"
  /\ job' \in {"active", "finished"}
  /\ Upset(TRUE)
  /\ UNCHANGED <<statusVars, asked, pass, exit, run, topic, traceVars,
                 reconcileVars, cleanupVars, blind>>

\* The runner ends with e.  A pod being deleted may go with its exit code, and
\* a suspended Job may count it or not.
Exit(e) ==
  /\ exit' = e
  /\ pod' \in IF Stopped THEN {"exited", "gone"} ELSE {"exited"}
  /\ job' \in IF job = "active" THEN {"finished"} ELSE {job, "finished"}

\* Killed: out of memory, a panic, a lost node, or the end of its grace.
Crash ==
  /\ Alive
  /\ exit' = "crash"
  /\ pod' \in {"exited", "gone"}
  /\ job' \in IF job = "active" THEN {"finished"} ELSE {job, "finished"}
  /\ Upset(~Stopped)
  /\ UNCHANGED <<statusVars, asked, pass, run, topic, traceVars,
                 reconcileVars, cleanupVars, blind>>

LosePod ==
  /\ pod = "exited" /\ job = "finished"
  /\ pod' = "gone"
  /\ Upset(TRUE)
  /\ UNCHANGED <<statusVars, asked, pass, job, exit, run, topic, traceVars,
                 reconcileVars, cleanupVars, blind>>

\* Someone deletes the run Job once its pod has ended.  While the Restore is
\* open this hides the run: the next pass finds no Job.
DeleteRun ==
  /\ phase \in {"Open", "Interrupted"}
  /\ job # "none" /\ ~Alive
  /\ job' = "none" /\ pod' = "none"
  /\ blind' = (blind \/ phase = "Open")
  /\ Upset(TRUE)
  /\ UNCHANGED <<statusVars, asked, pass, exit, run, topic, traceVars,
                 reconcileVars, cleanupVars>>

runnerSame == <<statusVars, asked, pass, reconcileVars, cleanupVars>>

\* Phases 0 to 5: refused, as when a target topic exists, or failed, or blocked
\* with a scorecard that says so.
Preflight ==
  /\ Alive /\ run = "preflight"
  /\ \/ (\E e \in {"refused", "stopped"} : Exit(e)) /\ UNCHANGED run
     \/ run' = "fail" /\ UNCHANGED podVars
     \/ /\ ~Stopped
        /\ \A t \in Topics : topic[t] = "absent"
        /\ run' = "create"
        /\ UNCHANGED podVars
  /\ UNCHANGED <<runnerSame, topic, traceVars, blind, upsets>>

\* The creation step, which a name taken since the preflight stops; then the
\* IDs of the new topics are read, or not.
CreateTopics ==
  /\ Alive /\ run = "create"
  /\ \E made \in SUBSET {t \in Topics : topic[t] = "absent"} :
       /\ topic' = [t \in Topics |-> IF t \in made THEN "empty" ELSE topic[t]]
       /\ \/ /\ made = Topics
             /\ known' \in {Topics, {}}
             /\ Upset(known' = {})
             /\ blind' = (blind \/ known' = {})
             /\ run' = "record"
             /\ UNCHANGED podVars
          \/ /\ made # Topics
             /\ Exit("stopped")
             /\ UNCHANGED <<known, blind, run, upsets>>
  /\ UNCHANGED <<runnerSame, record, score>>

\* The targets record, then its signature: no engine starts without them.
Record ==
  /\ Alive /\ run = "record"
  /\ \/ record = "none" /\ record' = "bare" /\ UNCHANGED <<run, podVars>>
     \/ record = "bare" /\ record' = "signed" /\ run' = "engine" /\ UNCHANGED podVars
     \/ Exit("stopped") /\ UNCHANGED <<record, run>>
  /\ UNCHANGED <<runnerSame, topic, known, score, blind, upsets>>

Fill(t) ==
  /\ Alive /\ run = "engine"
  /\ \/ topic[t] = "empty" /\ topic' = [topic EXCEPT ![t] = "partial"]
     \/ topic[t] = "partial" /\ topic' = [topic EXCEPT ![t] = "full"]
  /\ UNCHANGED <<runnerSame, podVars, run, traceVars, blind, upsets>>

Written == \A t \in Topics : topic[t] \notin Lacking
HoldsData == \E t \in Topics : topic[t] \in Holding

\* The engine exits.  After a stop that is never completion, whatever its code;
\* one that wrote nothing at all is scored as a failure.
EngineExits ==
  /\ Alive /\ run = "engine"
  /\ \/ Written /\ ~Stopped /\ run' = "verify" /\ UNCHANGED podVars
     \/ ~HoldsData /\ ~Stopped /\ run' = "fail" /\ UNCHANGED podVars
     \/ Exit("stopped") /\ UNCHANGED run
  /\ UNCHANGED <<runnerSame, topic, traceVars, blind, upsets>>

Verify ==
  /\ Alive /\ run = "verify"
  /\ \/ ~Stopped /\ run' \in {"pass", "fail"} /\ UNCHANGED podVars
     \/ Exit("stopped") /\ UNCHANGED run
  /\ UNCHANGED <<runnerSame, topic, traceVars, blind, upsets>>

\* The scorecard, then its signature; a put that fails is exit 4.
Sign ==
  /\ Alive /\ run \in {"pass", "fail"}
  /\ \/ score = "none" /\ score' = "bare" /\ UNCHANGED <<run, podVars>>
     \/ score = "bare" /\ score' = run /\ run' = "report" /\ UNCHANGED podVars
     \/ Exit("stopped") /\ UNCHANGED <<run, score>>
  /\ UNCHANGED <<runnerSame, topic, known, record, blind, upsets>>

Report ==
  /\ Alive /\ run = "report"
  /\ Exit(IF score = "pass" THEN "passed" ELSE "failed")
  /\ UNCHANGED <<runnerSame, run, topic, traceVars, blind, upsets>>

Runner ==
  \/ Preflight \/ CreateTopics \/ Record \/ (\E t \in Topics : Fill(t))
  \/ EngineExits \/ Verify \/ Sign \/ Report

-----------------------------------------------------------------------------
(* Users.                                                                  *)

\* The cleanup is refused by the API unless the verification is Done, but the
\* annotation may be set by hand.
Ask(what) ==
  /\ what = "cleanup" => phase = "Interrupted"
  /\ what \notin asked
  /\ asked' = asked \cup {what}
  /\ UNCHANGED <<statusVars, pass, podVars, run, topic, traceVars,
                 reconcileVars, cleanupVars, blind, upsets>>

\* Someone takes a name of the plan, or deletes a topic of the run, perhaps to
\* make it again.
Meddle(t) ==
  /\ topic[t] # "other"
  /\ topic' \in {[topic EXCEPT ![t] = x] : x \in {"absent", "other"}}
  /\ Upset(TRUE)
  /\ UNCHANGED <<statusVars, asked, pass, podVars, run, traceVars,
                 reconcileVars, cleanupVars, blind>>

-----------------------------------------------------------------------------
(* The controller's pass over the run.                                     *)

passSame == <<asked, run, exit, topic, traceVars, kept, doomed>>

\* No Job, and no cancel in the object this pass read: it goes on to admit.
Look ==
  /\ phase = "Open" /\ pass = "idle"
  /\ job = "none" /\ "cancel" \notin asked
  /\ pass' = "admit"
  /\ UNCHANGED <<passSame, statusVars, job, pod, rjob, cjob, blind, upsets>>

\* Held, refused, or admitted with a new run under a new run id.
Admit ==
  /\ pass = "admit"
  /\ pass' = "idle"
  /\ \/ UNCHANGED <<phase, job, run, exit, known, record, score>>
     \/ phase' = "Failed" /\ UNCHANGED <<job, run, exit, known, record, score>>
     \/ /\ job' = "active"
        /\ run' = "preflight" /\ exit' = "none"
        /\ known' = {} /\ record' = "none" /\ score' = "none"
        /\ UNCHANGED phase
  /\ UNCHANGED <<verification, attempts, signedBy, cleanup, asked, pod, topic,
                 reconcileVars, cleanupVars, blind, upsets>>

CancelUnstarted ==
  /\ phase = "Open" /\ pass = "idle"
  /\ job = "none" /\ "cancel" \in asked
  /\ phase' = "Failed"
  /\ UNCHANGED <<passSame, verification, attempts, signedBy, cleanup, pass,
                 job, pod, rjob, cjob, blind, upsets>>

\* Mutant of Suspend: a run that has no pod yet is not suspended.
SuspendStarted ==
  /\ phase = "Open" /\ pass = "idle"
  /\ "cancel" \in asked /\ job \in {"active", "suspended"}
  /\ job' = IF pod = "none" THEN job ELSE "suspended"
  /\ pass' = "list"
  /\ UNCHANGED <<passSame, statusVars, pod, rjob, cjob, blind, upsets>>

\* A cancel of a run whose Job has not finished suspends it, then lists pods.
Suspend ==
  /\ phase = "Open" /\ pass = "idle"
  /\ "cancel" \in asked /\ job \in {"active", "suspended"}
  /\ job' = "suspended"
  /\ pass' = "list"
  /\ UNCHANGED <<passSame, statusVars, pod, rjob, cjob, blind, upsets>>

Interrupted(p) == verification' = IF p = "Interrupted" THEN "Running" ELSE verification

\* A pod is left and the Restore is Stopping, or none is and it is interrupted.
ListPods ==
  /\ pass = "list"
  /\ pass' = "idle"
  /\ phase' = IF pod \in {"none", "gone"} THEN "Interrupted" ELSE "Open"
  /\ Interrupted(phase')
  /\ UNCHANGED <<passSame, attempts, signedBy, cleanup, job, pod, rjob, cjob, blind, upsets>>

\* Mutant of Ends: an exit that signed nothing is a failure, as before.
EndsPlainly(lost) ==
  IF pod # "exited" \/ exit = "crash" THEN {"Interrupted"}
  ELSE IF exit = "passed" THEN {"Succeeded"} ELSE {"Failed"}

\* The phase a finished run Job gives.  lost: the log cannot be read, or a
\* diagnostic recorded just before still says the runner never started.
Ends(lost) ==
  CASE pod = "none" -> {"Failed", "Interrupted"}
    [] pod \in {"gone", "stopping", "working"} -> {IF lost THEN "Failed" ELSE "Interrupted"}
    [] pod = "exited" /\ exit = "passed" -> {"Succeeded"}
    [] pod = "exited" /\ exit \in {"failed", "refused"} -> {"Failed"}
    [] pod = "exited" /\ exit = "stopped" ->
         {IF record = "signed" /\ ~lost THEN "Interrupted" ELSE "Failed"}
    [] OTHER -> {"Interrupted"}

ReadEnd ==
  /\ phase = "Open" /\ pass = "idle" /\ job = "finished"
  /\ \E lost \in BOOLEAN :
       /\ Upset(lost)
       /\ phase' \in Ends(lost)
       /\ blind' = (blind \/ lost \/ Alive)
  /\ Interrupted(phase')
  /\ UNCHANGED <<passSame, attempts, signedBy, cleanup, pass, job, pod, rjob, cjob>>

-----------------------------------------------------------------------------
(* The reconcile Jobs.                                                     *)

\* What an attempt finds when it reads the store, then the target's IDs.
Finds(still) ==
  CASE score = "bare" -> "refused"
    [] score \in {"pass", "fail"} -> "own"
    [] score = "none" /\ record = "none" -> "nothing"
    [] score = "none" /\ record = "bare" -> "refused"
    [] OTHER -> IF still = {} THEN "nothing" ELSE "verifying"

\* Kept: the recorded topics whose ID is still the recorded one.
Keep(n) ==
  /\ rjob[n] = "reading"
  /\ LET still == {t \in known : topic[t] \in Runs}
     IN  /\ rjob' = [rjob EXCEPT ![n] = Finds(still)]
         /\ kept' = [kept EXCEPT ![n] = IF Finds(still) = "verifying" THEN still ELSE {}]
  /\ UNCHANGED <<statusVars, asked, pass, podVars, run, topic, traceVars,
                 cleanupVars, blind, upsets>>

\* The kept topics are verified complete and the scorecard is signed: a pass
\* only when none was left out.
Judge(n) ==
  /\ rjob[n] = "verifying"
  /\ rjob' = [rjob EXCEPT ![n] =
       IF kept[n] = Topics /\ (\A t \in Topics : topic[t] = "full") THEN "pass" ELSE "partial"]
  /\ UNCHANGED <<statusVars, asked, pass, podVars, run, topic, traceVars, kept,
                 cleanupVars, blind, upsets>>

\* An ID or an object cannot be read, the target still grows, a put fails.
Falter(n) ==
  /\ rjob[n] \in Working
  /\ rjob' = [rjob EXCEPT ![n] = "failed"]
  /\ kept' = [kept EXCEPT ![n] = {}]
  /\ UNCHANGED <<statusVars, asked, pass, podVars, run, topic, traceVars,
                 cleanupVars, blind, upsets>>

\* The Job is deleted, or its pod lost with its exit code.
LoseReconcile(n) ==
  /\ rjob[n] # "none"
  /\ rjob' \in {[rjob EXCEPT ![n] = x] : x \in {"none", "failed"}}
  /\ Upset(TRUE)
  /\ UNCHANGED <<statusVars, asked, pass, podVars, run, topic, traceVars, kept,
                 cleanupVars, blind>>

Reconciling == phase = "Interrupted" /\ verification = "Running" /\ pass = "idle"

\* Mutant of NextAttempt: a Job that is gone is waited for.
NextAttemptFailed == \A n \in Attempts : n = attempts => rjob[n] = "failed"

\* The attempt on record is gone or has failed, or there is none yet.
NextAttempt == \A n \in Attempts : n = attempts => rjob[n] \in {"none", "failed"}

\* Mutant of StartReconcile: an attempt is started beside the one at work.
StartReconcileAnyway ==
  /\ Reconciling /\ attempts < MaxAttempts
  /\ pass' = "started"
  /\ rjob' = [rjob EXCEPT ![attempts + 1] = IF @ = "none" THEN "reading" ELSE @]
  /\ UNCHANGED <<passSame, statusVars, job, pod, cjob, blind, upsets>>

\* A copy of the run Job, or the one an earlier pass made.  An attempt without
\* a run Job to copy is the end of it.
StartReconcile ==
  /\ Reconciling /\ NextAttempt /\ attempts < MaxAttempts
  /\ \/ /\ job # "none"
        /\ pass' = "started"
        /\ rjob' = [rjob EXCEPT ![attempts + 1] = IF @ = "none" THEN "reading" ELSE @]
        /\ UNCHANGED <<verification, attempts>>
     \/ /\ job = "none"
        /\ verification' = "Failed"
        /\ attempts' = attempts + 1
        /\ UNCHANGED <<pass, rjob>>
  /\ UNCHANGED <<passSame, phase, signedBy, cleanup, job, pod, cjob, blind, upsets>>

RecordAttempt ==
  /\ pass = "started"
  /\ pass' = "idle"
  /\ attempts' = attempts + 1
  /\ UNCHANGED <<passSame, phase, verification, signedBy, cleanup, job, pod, rjob, cjob, blind, upsets>>

GiveUp ==
  /\ Reconciling /\ NextAttempt /\ attempts = MaxAttempts
  /\ verification' = "Failed"
  /\ UNCHANGED <<passSame, phase, attempts, signedBy, cleanup, pass, job, pod,
                 rjob, cjob, blind, upsets>>

\* The phase a finished reconcile gives; unread, exit 0 passes for a pass.
PhaseAfter(end, lost) ==
  CASE end = "nothing" -> IF lost THEN "Succeeded" ELSE "Failed"
    [] end = "own" /\ score = "pass" -> "Succeeded"
    [] end = "own" /\ score # "pass" -> IF lost THEN "Interrupted" ELSE "Failed"
    [] end = "pass" -> "Succeeded"
    [] OTHER -> "Interrupted"

ReadReconcile ==
  /\ Reconciling /\ attempts > 0
  /\ rjob[attempts] \in {"nothing", "own", "pass", "partial", "refused"}
  /\ \E lost \in BOOLEAN :
       /\ Upset(lost)
       /\ blind' = (blind \/ lost)
       /\ phase' = PhaseAfter(rjob[attempts], lost)
       /\ signedBy' = CASE lost /\ rjob[attempts] # "refused" -> Unnamed
                        [] ~lost /\ rjob[attempts] \in {"pass", "partial"} -> attempts
                        [] OTHER -> 0
  /\ verification' = IF rjob[attempts] = "refused" THEN "Failed" ELSE "Done"
  /\ UNCHANGED <<passSame, attempts, cleanup, pass, job, pod, rjob, cjob>>

-----------------------------------------------------------------------------
(* The cleanup Jobs.                                                       *)

CleanupEnds(n, end) == cjob' = [cjob EXCEPT ![n] = end]

\* The reconcile's scorecard is read, then the IDs of the topics it kept,
\* some perhaps in vain; an original name is never deleted.
ReadIds(n) ==
  /\ cjob[n] = "reading"
  /\ \/ signedBy = Unnamed /\ CleanupEnds(n, "refused") /\ UNCHANGED doomed
     \/ /\ signedBy \in Attempts
        /\ CleanupEnds(n, "deleting")
        /\ doomed' = {t \in kept[signedBy] \ Originals : topic[t] \in Runs}
     \/ CleanupEnds(n, "failed") /\ UNCHANGED doomed
  /\ UNCHANGED <<statusVars, asked, pass, podVars, run, topic, traceVars,
                 reconcileVars, blind, upsets>>

Deleted(names) == [t \in Topics |-> IF t \in names THEN "absent" ELSE topic[t]]

\* Mutant of DeleteTopics: topics that could not be deleted are not tried again.
DeleteTopicsOnce(n) ==
  /\ cjob[n] = "deleting"
  /\ \E names \in SUBSET doomed : topic' = Deleted(names)
  /\ CleanupEnds(n, "removed")
  /\ doomed' = {}
  /\ UNCHANGED <<statusVars, asked, pass, podVars, run, traceVars,
                 reconcileVars, blind, upsets>>

\* Topics are deleted by name, and what happened is signed; what could not be
\* read or deleted, or an attestation that could not be put, asks for a retry.
DeleteTopics(n) ==
  /\ cjob[n] = "deleting"
  /\ \E names \in SUBSET doomed :
       /\ topic' = Deleted(names)
       /\ \/ CleanupEnds(n, "failed")
          \/ names = doomed /\ CleanupEnds(n, "removed")
  /\ doomed' = {}
  /\ UNCHANGED <<statusVars, asked, pass, podVars, run, traceVars,
                 reconcileVars, blind, upsets>>

LoseCleanup(n) ==
  /\ cjob[n] # "none"
  /\ cjob' \in {[cjob EXCEPT ![n] = x] : x \in {"none", "failed"}}
  /\ Upset(TRUE)
  /\ UNCHANGED <<statusVars, asked, pass, podVars, run, topic, traceVars,
                 reconcileVars, doomed, blind>>

Cleaning ==
  /\ phase = "Interrupted" /\ verification = "Done" /\ pass = "idle"
  /\ "cleanup" \in asked

SetCleanup(p, n) == cleanup' = [phase |-> p, attempts |-> n]

\* The first Job, or the next one after an attempt that failed.  Without a run
\* Job to copy, or the evidence grants, the cleanup has failed.
StartCleanup ==
  /\ Cleaning
  /\ \/ cleanup.phase = "none"
     \/ /\ cleanup.phase = "Removing" /\ cjob[cleanup.attempts] = "failed"
        /\ cleanup.attempts < MaxAttempts
  /\ LET n == cleanup.attempts + 1
     IN  \/ /\ job # "none"
            /\ pass' = "cleaning"
            /\ cjob' = [cjob EXCEPT ![n] = IF @ = "none" THEN "reading" ELSE @]
            /\ UNCHANGED cleanup
         \/ SetCleanup("Failed", n) /\ UNCHANGED <<pass, cjob>>
  /\ UNCHANGED <<passSame, phase, verification, attempts, signedBy, job, pod, rjob, blind, upsets>>

RecordCleanup ==
  /\ pass = "cleaning"
  /\ pass' = "idle"
  /\ SetCleanup("Removing", cleanup.attempts + 1)
  /\ UNCHANGED <<passSame, phase, verification, attempts, signedBy, job, pod,
                 rjob, cjob, blind, upsets>>

\* Mutant of ReadCleanup: a Job that is gone is waited for.
ReadCleanupWaiting ==
  /\ Cleaning /\ cleanup.phase = "Removing"
  /\ LET n == cleanup.attempts
     IN  \/ cjob[n] = "removed" /\ SetCleanup("Removed", n)
         \/ cjob[n] = "refused" /\ SetCleanup("Failed", n)
         \/ cjob[n] = "failed" /\ n = MaxAttempts /\ SetCleanup("Failed", n)
  /\ UNCHANGED <<passSame, phase, verification, attempts, signedBy, pass, job,
                 pod, rjob, cjob, blind, upsets>>

ReadCleanup ==
  /\ Cleaning /\ cleanup.phase = "Removing"
  /\ LET n == cleanup.attempts
     IN  \/ cjob[n] = "removed" /\ SetCleanup("Removed", n)
         \/ cjob[n] \in {"none", "refused"} /\ SetCleanup("Failed", n)
         \/ cjob[n] = "failed" /\ n = MaxAttempts /\ SetCleanup("Failed", n)
  /\ UNCHANGED <<passSame, phase, verification, attempts, signedBy, pass, job,
                 pod, rjob, cjob, blind, upsets>>

PassFails ==
  /\ pass # "idle"
  /\ pass' = "idle"
  /\ Upset(TRUE)
  /\ UNCHANGED <<passSame, statusVars, job, pod, rjob, cjob, blind>>

-----------------------------------------------------------------------------
Controller ==
  \/ Look \/ Admit \/ CancelUnstarted \/ Suspend \/ ListPods \/ ReadEnd
  \/ StartReconcile \/ RecordAttempt \/ GiveUp \/ ReadReconcile
  \/ StartCleanup \/ RecordCleanup \/ ReadCleanup

Kubelet == StartPod \/ ClearPod \/ NeverStarts

ReconcileJob(n) == Keep(n) \/ Judge(n) \/ Falter(n)
CleanupJob(n) == ReadIds(n) \/ DeleteTopics(n)

Next ==
  \/ Controller \/ Kubelet \/ Runner
  \/ StopPod \/ Crash \/ LosePod \/ DeleteRun \/ PassFails
  \/ \E what \in {"cancel", "cleanup"} : Ask(what)
  \/ \E t \in Topics : Meddle(t)
  \/ \E n \in Attempts :
       ReconcileJob(n) \/ CleanupJob(n) \/ LoseReconcile(n) \/ LoseCleanup(n)

Spec == Init /\ [][Next]_vars

\* Requeues and watches; the Job controller and the kubelet, or the deadline;
\* a runner ends, as does every other Job, by its own deadline.
Fairness ==
  /\ WF_vars(Controller) /\ WF_vars(Kubelet) /\ WF_vars(Runner)
  /\ \A n \in Attempts : WF_vars(ReconcileJob(n)) /\ WF_vars(CleanupJob(n))

FairSpec == Spec /\ Fairness

-----------------------------------------------------------------------------
\* The phase is honest and final (HonestRestore): a success has its data, a
\* failure left none or is the run's own verdict, an interruption has no
\* writer, through stops, crashes, cancels, retries and topics taken away,
\* unless a trace of the run was lost before it was read.
Honest == INSTANCE HonestRestore WITH
  outcome <- phase,
  working <- Alive,
  missing <- ~Written,
  written <- HoldsData,
  verdict <- score = "fail",
  blind <- blind

HonestSpec == Honest!Spec

\* Nothing starts the run again once it is Interrupted: the reconcile reads a
\* target no pod of the run can come back to (before, "the writer is gone").
WriterGone ==
  phase = "Interrupted" /\ ~blind => ~Alive /\ ~(job = "active" /\ pod = "none")

\* One reconcile and one cleanup Job at most are at work, and never one of
\* each: a Job is replaced only once it has failed or is gone.
OneJobAtWork ==
  \A m, n \in Attempts :
    /\ rjob[m] \in Working /\ rjob[n] \in Working => m = n
    /\ cjob[m] \in Working /\ cjob[n] \in Working => m = n
    /\ ~(rjob[m] \in Working /\ cjob[n] \in Working)

\* Cleanup Removed, which lets the recovery point go, means that no topic of
\* the run is left but under an original name (holds_point).
RemovedIsTrue ==
  cleanup.phase = "Removed" /\ ~blind => \A t \in Topics \ Originals : topic[t] \notin Runs

\* A cancelled Restore ends, or what it left is verified or given up on.
CancelSettles ==
  "cancel" \in asked ~>
    (phase \in {"Succeeded", "Failed"} \/ verification \in {"Done", "Failed"})

\* A cleanup asked for after a signed reconcile ends.
CleanupSettles ==
  ("cleanup" \in asked /\ phase = "Interrupted" /\ verification = "Done") ~>
    cleanup.phase \in {"Removed", "Failed"}
=============================================================================
