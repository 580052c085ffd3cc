----------------------- MODULE RestoreInterruptionProofs -----------------------
(***************************************************************************)
(* The invariant of RestoreInterruptionInv is inductive, for every set of  *)
(* topics and any number of attempts and upsets, and what follows from it: *)
(* an interrupted run has no writer, one Job at a time is at work on what  *)
(* it left, Removed is true, and the phase is honest.                      *)
(***************************************************************************)
EXTENDS RestoreInterruptionInv, TLAPS

LEMMA TypeInit == Init => TypeOK
<1> SUFFICES ASSUME Init PROVE TypeOK
  OBVIOUS
<1>1. cleanup \in [phase : {"none", "Removing", "Removed", "Failed"}, attempts : 0..MaxAttempts]
  BY RestoreAssumption DEF Init
<1>2. topic \in [Topics -> {"absent", "other"} \cup Runs] /\ known \in SUBSET Topics
  BY DEF Init
<1>3. rjob \in [Attempts -> ReconcileJobs] /\ kept \in [Attempts -> SUBSET Topics]
  BY DEF Init, ReconcileJobs
<1>4. cjob \in [Attempts -> CleanupJobs] /\ doomed \in SUBSET Topics
  BY DEF Init, CleanupJobs
<1>5. attempts \in 0..MaxAttempts /\ signedBy \in 0..Unnamed
  BY RestoreAssumption DEF Init, Unnamed
<1>6. /\ phase \in Phases /\ verification \in {"none", "Running", "Done", "Failed"}
      /\ asked \in SUBSET {"cancel", "cleanup"}
  BY DEF Init, Phases
<1>. QED BY <1>1, <1>2, <1>3, <1>4, <1>5, <1>6 DEF Init, TypeOK

\* Every step keeps every variable in its set.
LEMMA TypeStep == IInv /\ [Next]_vars => TypeOK'
<1> SUFFICES ASSUME TypeOK, PassHolds, CleanupOrdered, [Next]_vars PROVE TypeOK'
  BY DEF IInv
<1> USE RestoreAssumption DEF TypeOK, Attempts, Unnamed, statusVars, podVars, traceVars,
    reconcileVars, cleanupVars, passSame, runnerSame
<1>1. CASE Look
  BY <1>1 DEF Look
<1>2. CASE Admit
  BY <1>2 DEF Admit, Phases
<1>3. CASE CancelUnstarted
  BY <1>3 DEF CancelUnstarted, Phases
<1>4. CASE Suspend
  BY <1>4 DEF Suspend
<1>5. CASE ListPods
  BY <1>5 DEF ListPods, Interrupted, Phases
<1>6. CASE ReadEnd
  BY <1>6 DEF ReadEnd, Upset, Alive, Interrupted, Ends, Stopped, Phases
<1>7. CASE StartReconcile
  BY <1>7 DEF StartReconcile, Reconciling, NextAttempt, ReconcileJobs
<1>8. CASE RecordAttempt
  <2>1. attempts + 1 \in 0..MaxAttempts
    BY <1>8 DEF RecordAttempt, PassHolds
  <2>. QED BY <1>8, <2>1 DEF RecordAttempt
<1>9. CASE GiveUp
  BY <1>9 DEF GiveUp, Reconciling, NextAttempt
<1>10. CASE ReadReconcile
  BY <1>10 DEF ReadReconcile, Upset, Reconciling, PhaseAfter, Phases
<1>11. CASE StartCleanup
  <2>1. cleanup.attempts + 1 \in Attempts
    BY <1>11 DEF StartCleanup, CleanupOrdered
  <2>. QED BY <1>11, <2>1 DEF StartCleanup, SetCleanup, CleanupJobs
<1>12. CASE RecordCleanup
  <2>1. cleanup.attempts + 1 \in 0..MaxAttempts
    BY <1>12 DEF RecordCleanup, PassHolds
  <2>. QED BY <1>12, <2>1 DEF RecordCleanup, SetCleanup
<1>13. CASE ReadCleanup
  BY <1>13 DEF ReadCleanup, Cleaning, SetCleanup
<1>14. CASE StartPod
  BY <1>14 DEF StartPod
<1>15. CASE ClearPod
  BY <1>15 DEF ClearPod
<1>16. CASE NeverStarts
  BY <1>16 DEF NeverStarts
<1>17. CASE Preflight
  BY <1>17 DEF Preflight, Alive, Stopped, Exit
<1>18. CASE CreateTopics
  <2>1. PICK made \in SUBSET Topics :
          topic' = [t \in Topics |-> IF t \in made THEN "empty" ELSE topic[t]]
    BY <1>18 DEF CreateTopics
  <2>2. topic' \in [Topics -> {"absent", "other"} \cup Runs]
    BY <2>1 DEF Runs
  <2>3. known' \in SUBSET Topics /\ run' \in {"create", "record"}
    BY <1>18 DEF CreateTopics
  <2>4. /\ job' \in {"none", "active", "suspended", "finished"}
        /\ pod' \in {"none", "working", "stopping", "exited", "gone"}
        /\ exit' \in {"none", "passed", "failed", "refused", "stopped", "crash"}
    BY <1>18 DEF CreateTopics, Exit
  <2>5. blind' \in BOOLEAN
    BY <1>18, Zenon DEF CreateTopics
  <2>6. upsets' \in Nat
    BY <1>18 DEF CreateTopics, Upset
  <2>. QED BY <1>18, <2>2, <2>3, <2>4, <2>5, <2>6 DEF CreateTopics
<1>19. CASE Record
  BY <1>19 DEF Record, Alive, Exit, Stopped
<1>20. ASSUME NEW t \in Topics, Fill(t) PROVE TypeOK'
  BY <1>20 DEF Fill, Alive, Stopped, Runs
<1>21. CASE EngineExits
  BY <1>21 DEF EngineExits, Alive, Stopped, Exit, Written, HoldsData
<1>22. CASE Verify
  BY <1>22 DEF Verify, Alive, Stopped, Exit
<1>23. CASE Sign
  BY <1>23 DEF Sign, Alive, Exit, Stopped
<1>24. CASE Report
  BY <1>24 DEF Report, Alive, Exit, Stopped
<1>25. CASE StopPod
  BY <1>25 DEF StopPod, Upset
<1>26. CASE Crash
  BY <1>26 DEF Crash, Upset, Alive, Stopped
<1>27. CASE LosePod
  BY <1>27 DEF LosePod, Upset
<1>28. CASE DeleteRun
  BY <1>28 DEF DeleteRun, Upset, Alive, Stopped
<1>29. CASE PassFails
  BY <1>29 DEF PassFails, Upset
<1>30. ASSUME NEW what \in {"cancel", "cleanup"}, Ask(what) PROVE TypeOK'
  BY <1>30 DEF Ask
<1>31. ASSUME NEW t \in Topics, Meddle(t) PROVE TypeOK'
  BY <1>31 DEF Meddle, Upset, Runs
<1>32. ASSUME NEW n \in Attempts, Keep(n) PROVE TypeOK'
  BY <1>32 DEF Keep, Finds, ReconcileJobs
<1>33. ASSUME NEW n \in Attempts, Judge(n) PROVE TypeOK'
  BY <1>33 DEF Judge, ReconcileJobs
<1>34. ASSUME NEW n \in Attempts, Falter(n) PROVE TypeOK'
  BY <1>34 DEF Falter, ReconcileJobs
<1>35. ASSUME NEW n \in Attempts, ReadIds(n) PROVE TypeOK'
  BY <1>35 DEF ReadIds, CleanupEnds, CleanupJobs
<1>36. ASSUME NEW n \in Attempts, DeleteTopics(n) PROVE TypeOK'
  BY <1>36 DEF DeleteTopics, CleanupEnds, Deleted, CleanupJobs, Runs
<1>37. ASSUME NEW n \in Attempts, LoseReconcile(n) PROVE TypeOK'
  <2>1. PICK x \in {"none", "failed"} : rjob' = [rjob EXCEPT ![n] = x]
    BY <1>37 DEF LoseReconcile
  <2>. QED BY <1>37, <2>1 DEF LoseReconcile, Upset, ReconcileJobs
<1>38. ASSUME NEW n \in Attempts, LoseCleanup(n) PROVE TypeOK'
  <2>1. PICK x \in {"none", "failed"} : cjob' = [cjob EXCEPT ![n] = x]
    BY <1>38 DEF LoseCleanup
  <2>. QED BY <1>38, <2>1 DEF LoseCleanup, Upset, CleanupJobs
<1>39. CASE UNCHANGED vars
  BY <1>39 DEF vars
<1>. QED BY <1>1, <1>2, <1>3, <1>4, <1>5, <1>6, <1>7, <1>8, <1>9, <1>10,
     <1>11, <1>12, <1>13, <1>14, <1>15, <1>16, <1>17, <1>18, <1>19, <1>20,
     <1>21, <1>22, <1>23, <1>24, <1>25, <1>26, <1>27, <1>28, <1>29, <1>30,
     <1>31, <1>32, <1>33, <1>34, <1>35, <1>36, <1>37, <1>38, <1>39
      DEF Next, Controller, Kubelet, Runner, ReconcileJob, CleanupJob

\* What a pass read still holds at its next step.
LEMMA PassStep == IInv /\ [Next]_vars => PassHolds'
<1> SUFFICES ASSUME TypeOK, PassHolds, RunOver, Ordered, CleanupOrdered, [Next]_vars PROVE PassHolds'
  BY DEF IInv
<1> USE DEF statusVars, podVars, traceVars, reconcileVars, cleanupVars, passSame, runnerSame
<1>1. CASE StartPod \/ ClearPod \/ (\E t \in Topics : Fill(t)) \/ LosePod
        \/ (\E what \in {"cancel", "cleanup"} : Ask(what))
        \/ (\E t \in Topics : Meddle(t))
     \/ UNCHANGED vars
  <2>1. UNCHANGED <<phase, verification, attempts, cleanup, pass, job, rjob,
       cjob>>
    BY <1>1 DEF vars, StartPod, ClearPod, Fill, LosePod, Ask, Meddle
  <2>. QED BY <2>1 DEF PassHolds, NextAttempt, NextCleanup
<1>2. CASE NeverStarts \/ Preflight \/ CreateTopics \/ Record \/ EngineExits
        \/ Verify \/ Sign \/ Report \/ StopPod \/ Crash \/ DeleteRun
  <2>1. /\ UNCHANGED <<phase, verification, attempts, cleanup, pass, rjob, cjob>>
        /\ job = "none" => job' = "none"
        /\ job' = "active" => job = "active"
    BY <1>2 DEF NeverStarts, Preflight, Alive, Stopped, Exit, CreateTopics,
         Upset, Record, EngineExits, Verify, Sign, Report, StopPod, Crash,
         DeleteRun, RunOver
  <2>. QED BY <2>1 DEF PassHolds, NextAttempt, NextCleanup
<1>3. CASE Look
  BY <1>3 DEF Look, PassHolds, NextAttempt, NextCleanup
<1>4. CASE Admit
  BY <1>4 DEF Admit, PassHolds, NextAttempt, NextCleanup
<1>5. CASE CancelUnstarted
  BY <1>5 DEF CancelUnstarted, PassHolds, NextAttempt, NextCleanup
<1>6. CASE Suspend
  BY <1>6 DEF Suspend, PassHolds, NextAttempt, NextCleanup
<1>7. CASE ListPods
  BY <1>7 DEF ListPods, Interrupted, PassHolds, NextAttempt, NextCleanup
<1>8. CASE ReadEnd
  BY <1>8 DEF ReadEnd, Upset, Alive, Interrupted, Ends, Stopped, PassHolds,
       NextAttempt, NextCleanup
<1>9. CASE StartReconcile
  <2>1. \A n \in Attempts : n # attempts + 1 => rjob'[n] = rjob[n]
    BY <1>9 DEF StartReconcile, TypeOK
  <2>2. attempts # attempts + 1
    BY DEF TypeOK
  <2>3. pass' = "started" => NextAttempt'
    BY <1>9, <2>1, <2>2 DEF StartReconcile, Reconciling, NextAttempt
  <2>. QED BY <1>9, <2>3 DEF StartReconcile, Reconciling, PassHolds
<1>10. CASE RecordAttempt
  BY <1>10 DEF RecordAttempt, PassHolds, NextAttempt, NextCleanup
<1>11. CASE GiveUp
  BY <1>11 DEF GiveUp, Reconciling, NextAttempt, PassHolds, NextCleanup
<1>12. CASE ReadReconcile
  BY <1>12 DEF ReadReconcile, Upset, Reconciling, PhaseAfter, Unnamed,
       PassHolds, NextAttempt, NextCleanup
<1>13. CASE StartCleanup
  <2>1. \A n \in Attempts : n # cleanup.attempts + 1 => cjob'[n] = cjob[n]
    BY <1>13 DEF StartCleanup, TypeOK
  <2>2. cleanup.attempts # cleanup.attempts + 1 /\ cleanup.attempts < MaxAttempts
    BY <1>13, RestoreAssumption DEF StartCleanup, TypeOK, CleanupOrdered
  <2>3. \A n \in Attempts : n = cleanup.attempts => cjob[n] \in {"none", "failed"}
    BY <1>13 DEF StartCleanup, CleanupOrdered, Attempts
  <2>4. pass' = "cleaning" => NextCleanup'
    BY <1>13, <2>1, <2>2, <2>3 DEF StartCleanup, Cleaning, NextCleanup
  <2>. QED BY <1>13, <2>2, <2>4 DEF StartCleanup, Cleaning, SetCleanup, PassHolds
<1>14. CASE RecordCleanup
  BY <1>14 DEF RecordCleanup, SetCleanup, PassHolds, NextAttempt, NextCleanup
<1>15. CASE ReadCleanup
  BY <1>15 DEF ReadCleanup, Cleaning, SetCleanup, PassHolds, NextAttempt,
       NextCleanup
<1>16. CASE PassFails
  BY <1>16 DEF PassFails, Upset, PassHolds, NextAttempt, NextCleanup
<1>17. ASSUME NEW n \in Attempts, Keep(n) PROVE PassHolds'
  BY <1>17 DEF Keep, PassHolds, NextAttempt, NextCleanup, TypeOK
<1>18. ASSUME NEW n \in Attempts, Judge(n) PROVE PassHolds'
  BY <1>18 DEF Judge, PassHolds, NextAttempt, NextCleanup, TypeOK
<1>19. ASSUME NEW n \in Attempts, Falter(n) PROVE PassHolds'
  BY <1>19 DEF Falter, PassHolds, NextAttempt, NextCleanup, TypeOK
<1>20. ASSUME NEW n \in Attempts, ReadIds(n) PROVE PassHolds'
  BY <1>20 DEF ReadIds, CleanupEnds, Unnamed, PassHolds, NextAttempt,
       NextCleanup, TypeOK
<1>21. ASSUME NEW n \in Attempts, DeleteTopics(n) PROVE PassHolds'
  BY <1>21 DEF DeleteTopics, CleanupEnds, Deleted, PassHolds, NextAttempt,
       NextCleanup, TypeOK
<1>22. ASSUME NEW n \in Attempts, LoseReconcile(n) PROVE PassHolds'
  BY <1>22 DEF LoseReconcile, Upset, PassHolds, NextAttempt, NextCleanup,
       TypeOK
<1>23. ASSUME NEW n \in Attempts, LoseCleanup(n) PROVE PassHolds'
  BY <1>23 DEF LoseCleanup, Upset, PassHolds, NextAttempt, NextCleanup, TypeOK
<1>. QED BY <1>1, <1>2, <1>3, <1>4, <1>5, <1>6, <1>7, <1>8, <1>9, <1>10,
     <1>11, <1>12, <1>13, <1>14, <1>15, <1>16, <1>17, <1>18, <1>19, <1>20,
     <1>21, <1>22, <1>23
      DEF Next, Controller, Kubelet, Runner, ReconcileJob, CleanupJob

\* No pod without a Job, and no run once the Restore is over.
LEMMA OverStep == IInv /\ [Next]_vars => RunOver'
<1> SUFFICES ASSUME TypeOK, PassHolds, RunOver, Traces, [Next]_vars PROVE RunOver'
  BY DEF IInv
<1> USE DEF statusVars, podVars, traceVars, reconcileVars, cleanupVars, passSame, runnerSame
<1>1. CASE Look \/ StartReconcile \/ RecordAttempt \/ GiveUp \/ StartCleanup
        \/ RecordCleanup \/ ReadCleanup \/ (\E t \in Topics : Fill(t))
        \/ PassFails \/ (\E what \in {"cancel", "cleanup"} : Ask(what))
        \/ (\E t \in Topics : Meddle(t)) \/ (\E n \in Attempts : Keep(n))
        \/ (\E n \in Attempts : Judge(n)) \/ (\E n \in Attempts : Falter(n))
        \/ (\E n \in Attempts : ReadIds(n))
        \/ (\E n \in Attempts : DeleteTopics(n))
        \/ (\E n \in Attempts : LoseReconcile(n))
        \/ (\E n \in Attempts : LoseCleanup(n))
     \/ UNCHANGED vars
  <2>1. UNCHANGED <<phase, job, pod, run, exit, record, score, blind>>
    BY <1>1 DEF vars, Look, StartReconcile, RecordAttempt, GiveUp,
         StartCleanup, RecordCleanup, ReadCleanup, Fill, PassFails, Ask,
         Meddle, Keep, Judge, Falter, ReadIds, DeleteTopics, LoseReconcile,
         LoseCleanup, SetCleanup, CleanupEnds
  <2>. QED BY <2>1 DEF RunOver, Alive
<1>2. CASE Admit
  BY <1>2 DEF Admit, RunOver, Alive, PassHolds
<1>3. CASE CancelUnstarted
  BY <1>3 DEF CancelUnstarted, RunOver, Alive
<1>4. CASE Suspend
  BY <1>4 DEF Suspend, RunOver, Alive
<1>5. CASE ListPods
  BY <1>5 DEF ListPods, Interrupted, RunOver, Alive, PassHolds
<1>6. CASE ReadEnd
  BY <1>6 DEF ReadEnd, Upset, Alive, Interrupted, Ends, Stopped, RunOver
<1>7. CASE ReadReconcile
  BY <1>7 DEF ReadReconcile, Upset, Reconciling, PhaseAfter, Unnamed, RunOver,
       Alive
<1>8. CASE StartPod
  BY <1>8 DEF StartPod, RunOver, Alive
<1>9. CASE ClearPod
  BY <1>9 DEF ClearPod, RunOver, Alive
<1>10. CASE NeverStarts
  BY <1>10 DEF NeverStarts, RunOver, Alive
<1>11. CASE Preflight
  BY <1>11 DEF Preflight, Alive, Stopped, Exit, RunOver
<1>12. CASE CreateTopics
  BY <1>12 DEF CreateTopics, Upset, Alive, Exit, Stopped, RunOver
<1>13. CASE Record
  BY <1>13 DEF Record, Alive, Exit, Stopped, RunOver
<1>14. CASE EngineExits
  BY <1>14 DEF EngineExits, Alive, Stopped, Exit, Written, HoldsData, RunOver
<1>15. CASE Verify
  BY <1>15 DEF Verify, Alive, Stopped, Exit, RunOver
<1>16. CASE Sign
  BY <1>16 DEF Sign, Alive, Exit, Stopped, RunOver
<1>17. CASE Report
  BY <1>17 DEF Report, Alive, Exit, Stopped, RunOver
<1>18. CASE StopPod
  BY <1>18 DEF StopPod, Upset, RunOver, Alive
<1>19. CASE Crash
  BY <1>19 DEF Crash, Upset, Alive, Stopped, RunOver
<1>20. CASE LosePod
  BY <1>20 DEF LosePod, Upset, RunOver, Alive
<1>21. CASE DeleteRun
  BY <1>21 DEF DeleteRun, Upset, Alive, Stopped, RunOver
<1>. QED BY <1>1, <1>2, <1>3, <1>4, <1>5, <1>6, <1>7, <1>8, <1>9, <1>10,
     <1>11, <1>12, <1>13, <1>14, <1>15, <1>16, <1>17, <1>18, <1>19, <1>20,
     <1>21
      DEF Next, Controller, Kubelet, Runner, ReconcileJob, CleanupJob

\* How far the run got, by what it left behind.
LEMMA TracesStep == IInv /\ [Next]_vars => Traces'
<1> SUFFICES ASSUME TypeOK, RunOver, Traces, [Next]_vars PROVE Traces'
  BY DEF IInv
<1> USE DEF statusVars, podVars, traceVars, reconcileVars, cleanupVars, passSame, runnerSame
<1>1. CASE Look \/ CancelUnstarted \/ Suspend \/ ListPods \/ ReadEnd
        \/ StartReconcile \/ RecordAttempt \/ GiveUp \/ ReadReconcile
        \/ StartCleanup \/ RecordCleanup \/ ReadCleanup \/ StartPod
        \/ ClearPod \/ NeverStarts \/ LosePod \/ DeleteRun \/ PassFails
        \/ (\E what \in {"cancel", "cleanup"} : Ask(what))
        \/ (\E n \in Attempts : Keep(n)) \/ (\E n \in Attempts : Judge(n))
        \/ (\E n \in Attempts : Falter(n))
        \/ (\E n \in Attempts : ReadIds(n))
        \/ (\E n \in Attempts : LoseReconcile(n))
        \/ (\E n \in Attempts : LoseCleanup(n))
     \/ UNCHANGED vars
  <2>1. UNCHANGED <<run, exit, topic, record, score>>
    BY <1>1 DEF vars, Look, CancelUnstarted, Suspend, ListPods, ReadEnd,
         StartReconcile, RecordAttempt, GiveUp, ReadReconcile, StartCleanup,
         RecordCleanup, ReadCleanup, StartPod, ClearPod, NeverStarts, LosePod,
         DeleteRun, PassFails, Ask, Keep, Judge, Falter, ReadIds,
         LoseReconcile, LoseCleanup, SetCleanup, CleanupEnds
  <2>. QED BY <2>1 DEF Traces, Written
<1>2. CASE Admit
  BY <1>2 DEF Admit, Traces, Written
<1>3. CASE Preflight
  BY <1>3 DEF Preflight, Alive, Stopped, Exit, Traces, Written, RunOver
<1>4. CASE CreateTopics
  BY <1>4 DEF CreateTopics, Alive, Exit, Stopped, Traces, Written, RunOver
<1>5. CASE Record
  BY <1>5 DEF Record, Alive, Exit, Stopped, Traces, Written, RunOver
<1>6. ASSUME NEW t \in Topics, Fill(t) PROVE Traces'
  BY <1>6 DEF Fill, Alive, Stopped, Traces, Written, RunOver
<1>7. CASE EngineExits
  BY <1>7 DEF EngineExits, Alive, Stopped, Exit, Written, Traces, RunOver
<1>8. CASE Verify
  BY <1>8 DEF Verify, Alive, Stopped, Exit, Traces, Written, RunOver
<1>9. CASE Sign
  BY <1>9 DEF Sign, Alive, Exit, Stopped, Traces, Written, RunOver
<1>10. CASE Report
  BY <1>10 DEF Report, Alive, Exit, Stopped, Traces, Written, RunOver
<1>11. CASE StopPod
  BY <1>11 DEF StopPod, Upset, Traces, Written
<1>12. CASE Crash
  BY <1>12 DEF Crash, Upset, Alive, Stopped, Traces, Written
<1>13. ASSUME NEW t \in Topics, Meddle(t) PROVE Traces'
  <2>1. PICK x \in {"absent", "other"} : topic' = [topic EXCEPT ![t] = x]
    BY <1>13 DEF Meddle
  <2>2. Written => Written'
    BY <2>1 DEF Written, Lacking, TypeOK
  <2>. QED BY <1>13, <2>2 DEF Meddle, Traces
<1>14. ASSUME NEW n \in Attempts, DeleteTopics(n) PROVE Traces'
  <2>1. Written => Written'
    BY <1>14 DEF DeleteTopics, Deleted, Written, Lacking
  <2>. QED BY <1>14, <2>1 DEF DeleteTopics, Traces
<1>. QED BY <1>1, <1>2, <1>3, <1>4, <1>5, <1>6, <1>7, <1>8, <1>9, <1>10,
     <1>11, <1>12, <1>13, <1>14
      DEF Next, Controller, Kubelet, Runner, ReconcileJob, CleanupJob

\* What the run left says what it did, unless a trace of it was lost.
LEMMA ToldStep == IInv /\ [Next]_vars => Told'
<1> SUFFICES ASSUME TypeOK, PassHolds, RunOver, Traces, Told, [Next]_vars PROVE Told'
  BY DEF IInv
<1> USE DEF statusVars, podVars, traceVars, reconcileVars, cleanupVars, passSame, runnerSame
<1>1. CASE Look \/ Suspend \/ StartReconcile \/ RecordAttempt \/ GiveUp
        \/ StartCleanup \/ RecordCleanup \/ ReadCleanup \/ NeverStarts
        \/ PassFails \/ (\E what \in {"cancel", "cleanup"} : Ask(what))
        \/ (\E n \in Attempts : Keep(n)) \/ (\E n \in Attempts : Judge(n))
        \/ (\E n \in Attempts : Falter(n))
        \/ (\E n \in Attempts : ReadIds(n))
        \/ (\E n \in Attempts : LoseReconcile(n))
        \/ (\E n \in Attempts : LoseCleanup(n))
     \/ UNCHANGED vars
  <2>1. UNCHANGED <<phase, pod, run, topic, known, record, score, blind>>
    BY <1>1 DEF vars, Look, Suspend, StartReconcile, RecordAttempt, GiveUp,
         StartCleanup, RecordCleanup, ReadCleanup, NeverStarts, PassFails,
         Ask, Keep, Judge, Falter, ReadIds, LoseReconcile, LoseCleanup,
         SetCleanup, CleanupEnds
  <2>. QED BY <2>1 DEF Told, HoldsData
<1>2. CASE Admit
  BY <1>2 DEF Admit, Told, HoldsData, PassHolds, RunOver, Traces
<1>3. CASE CancelUnstarted
  BY <1>3 DEF CancelUnstarted, Told, HoldsData
<1>4. CASE ListPods
  BY <1>4 DEF ListPods, Interrupted, Told, HoldsData, PassHolds
<1>5. CASE ReadEnd
  BY <1>5 DEF ReadEnd, Alive, Interrupted, Stopped, Told, HoldsData
<1>6. CASE ReadReconcile
  BY <1>6 DEF ReadReconcile, Upset, Reconciling, PhaseAfter, Unnamed, Told,
       HoldsData
<1>7. CASE StartPod
  BY <1>7 DEF StartPod, Told, HoldsData
<1>8. CASE ClearPod
  BY <1>8 DEF ClearPod, Told, HoldsData
<1>9. CASE Preflight
  BY <1>9 DEF Preflight, Alive, Stopped, Exit, Told, HoldsData
<1>10. CASE CreateTopics
  <2>1. HoldsData' => HoldsData
    BY <1>10 DEF CreateTopics, HoldsData, Holding
  <2>2. ~blind' => ~blind /\ (run' = "record" => known' = Topics)
    BY <1>10, Zenon DEF CreateTopics
  <2>3. pod' # "none" /\ run = "create" /\ UNCHANGED <<record, score, phase>>
    BY <1>10 DEF CreateTopics, Exit, Alive, runnerSame
  <2>4. record = "none"
    BY <2>3 DEF Traces
  <2>. QED BY <2>1, <2>2, <2>3, <2>4 DEF Told
<1>11. CASE Record
  BY <1>11 DEF Record, Alive, Exit, Stopped, Told, HoldsData
<1>12. ASSUME NEW t \in Topics, Fill(t) PROVE Told'
  <2>. QED BY <1>12 DEF Fill, Alive, Traces, Told
<1>13. CASE EngineExits
  BY <1>13 DEF EngineExits, Alive, Stopped, Exit, Written, HoldsData, Told
<1>14. CASE Verify
  BY <1>14 DEF Verify, Alive, Stopped, Exit, Told, HoldsData
<1>15. CASE Sign
  BY <1>15 DEF Sign, Alive, Exit, Stopped, Told, HoldsData
<1>16. CASE Report
  BY <1>16 DEF Report, Alive, Exit, Stopped, Told, HoldsData
<1>17. CASE StopPod
  BY <1>17 DEF StopPod, Upset, Told, HoldsData
<1>18. CASE Crash
  BY <1>18 DEF Crash, Upset, Alive, Stopped, Told, HoldsData
<1>19. CASE LosePod
  BY <1>19 DEF LosePod, Upset, Told, HoldsData
<1>20. CASE DeleteRun
  BY <1>20 DEF DeleteRun, Upset, Alive, Stopped, Told, HoldsData
<1>21. ASSUME NEW t \in Topics, Meddle(t) PROVE Told'
  <2>1. PICK x \in {"absent", "other"} : topic' = [topic EXCEPT ![t] = x]
    BY <1>21 DEF Meddle
  <2>2. HoldsData' => HoldsData
    BY <2>1 DEF HoldsData, Holding, TypeOK
  <2>. QED BY <1>21, <2>2 DEF Meddle, Told
<1>22. ASSUME NEW n \in Attempts, DeleteTopics(n) PROVE Told'
  <2>1. HoldsData' => HoldsData
    BY <1>22 DEF DeleteTopics, Deleted, HoldsData, Holding
  <2>. QED BY <1>22, <2>1 DEF DeleteTopics, Told
<1>. QED BY <1>1, <1>2, <1>3, <1>4, <1>5, <1>6, <1>7, <1>8, <1>9, <1>10,
     <1>11, <1>12, <1>13, <1>14, <1>15, <1>16, <1>17, <1>18, <1>19, <1>20,
     <1>21, <1>22
      DEF Next, Controller, Kubelet, Runner, ReconcileJob, CleanupJob

\* Reconcile attempts follow one another.
LEMMA OrderedStep == IInv /\ [Next]_vars => Ordered'
<1> SUFFICES ASSUME TypeOK, PassHolds, Ordered, [Next]_vars PROVE Ordered'
  BY DEF IInv
<1> USE DEF statusVars, podVars, traceVars, reconcileVars, cleanupVars, passSame, runnerSame
<1>1. CASE Look \/ Suspend \/ StartCleanup \/ RecordCleanup \/ ReadCleanup
        \/ StartPod \/ ClearPod \/ NeverStarts \/ Preflight \/ CreateTopics
        \/ Record \/ (\E t \in Topics : Fill(t)) \/ EngineExits \/ Verify
        \/ Sign \/ Report \/ StopPod \/ Crash \/ LosePod \/ DeleteRun
        \/ PassFails \/ (\E what \in {"cancel", "cleanup"} : Ask(what))
        \/ (\E t \in Topics : Meddle(t)) \/ (\E n \in Attempts : ReadIds(n))
        \/ (\E n \in Attempts : DeleteTopics(n))
        \/ (\E n \in Attempts : LoseCleanup(n))
     \/ UNCHANGED vars
  <2>1. UNCHANGED <<phase, verification, attempts, signedBy, rjob>>
    BY <1>1 DEF vars, Look, Suspend, StartCleanup, RecordCleanup, ReadCleanup,
         StartPod, ClearPod, NeverStarts, Preflight, CreateTopics, Record,
         Fill, EngineExits, Verify, Sign, Report, StopPod, Crash, LosePod,
         DeleteRun, PassFails, Ask, Meddle, ReadIds, DeleteTopics,
         LoseCleanup, SetCleanup, Exit, CleanupEnds
  <2>. QED BY <2>1 DEF Ordered, NextAttempt, Working
<1>2. CASE Admit
  BY <1>2 DEF Admit, Ordered, NextAttempt, Working
<1>3. CASE CancelUnstarted
  BY <1>3 DEF CancelUnstarted, Ordered, NextAttempt, Working
<1>4. CASE ListPods
  BY <1>4 DEF ListPods, Interrupted, Ordered, NextAttempt, Working, PassHolds
<1>5. CASE ReadEnd
  BY <1>5 DEF ReadEnd, Interrupted, Ends, Ordered, NextAttempt, Working
<1>6. CASE StartReconcile
  <2>1. \A n \in Attempts : n # attempts + 1 => rjob'[n] = rjob[n]
    BY <1>6 DEF StartReconcile, TypeOK
  <2>2. attempts # attempts + 1 /\ attempts \in Nat
    BY DEF TypeOK
  <2>3. NextAttempt /\ (attempts' = attempts => NextAttempt')
    BY <1>6, <2>1, <2>2 DEF StartReconcile, NextAttempt
  <2>4. \A n \in Attempts : n = attempts => rjob[n] \notin Working
    BY <2>3 DEF NextAttempt, Working
  <2>5. CASE pass' = "started"
    <3>1. attempts' = attempts /\ verification' = "Running"
      BY <1>6, <2>5 DEF StartReconcile, Reconciling
    <3>. QED BY <1>6, <3>1, <2>1, <2>2, <2>3, <2>4 DEF StartReconcile, Reconciling, Ordered
  <2>6. CASE rjob' = rjob /\ attempts' = attempts + 1 /\ verification' = "Failed"
    BY <1>6, <2>6, <2>2, <2>4 DEF StartReconcile, Reconciling, Ordered
  <2>. QED BY <1>6, <2>5, <2>6 DEF StartReconcile
<1>7. CASE RecordAttempt
  BY <1>7 DEF RecordAttempt, Ordered, NextAttempt, Working, PassHolds, TypeOK
<1>8. CASE GiveUp
  BY <1>8 DEF GiveUp, Reconciling, NextAttempt, Ordered, Working
<1>9. CASE ReadReconcile
  <2>1. attempts \in Attempts /\ phase = "Interrupted"
    BY <1>9 DEF ReadReconcile, Reconciling, TypeOK, Attempts
  <2>2. \A n \in Attempts : rjob[n] \notin Working
    BY <1>9, <2>1 DEF ReadReconcile, Ordered, NextAttempt, Working
  <2>3. phase' # "Open" /\ rjob' = rjob
    BY <1>9 DEF ReadReconcile, PhaseAfter
  <2>4. signedBy' # 0 => verification' = "Done"
    <3>1. CASE rjob[attempts] = "refused"
      BY <1>9, <3>1 DEF ReadReconcile
    <3>2. CASE rjob[attempts] # "refused"
      BY <1>9, <3>2 DEF ReadReconcile
    <3>. QED BY <3>1, <3>2
  <2>. QED BY <2>2, <2>3, <2>4 DEF Ordered
<1>10. ASSUME NEW n \in Attempts, Keep(n) PROVE Ordered'
  <2>1. rjob[n] \in Working /\ \E x : rjob' = [rjob EXCEPT ![n] = x]
    BY <1>10 DEF Keep, Working
  <2>. QED BY <1>10, <2>1 DEF Keep, Ordered, NextAttempt, Working, TypeOK
<1>11. ASSUME NEW n \in Attempts, Judge(n) PROVE Ordered'
  BY <1>11 DEF Judge, Ordered, NextAttempt, Working, TypeOK
<1>12. ASSUME NEW n \in Attempts, Falter(n) PROVE Ordered'
  BY <1>12 DEF Falter, Ordered, NextAttempt, Working, TypeOK
<1>13. ASSUME NEW n \in Attempts, LoseReconcile(n) PROVE Ordered'
  BY <1>13 DEF LoseReconcile, Upset, Ordered, NextAttempt, Working, TypeOK
<1>. QED BY <1>1, <1>2, <1>3, <1>4, <1>5, <1>6, <1>7, <1>8, <1>9, <1>10,
     <1>11, <1>12, <1>13
      DEF Next, Controller, Kubelet, Runner, ReconcileJob, CleanupJob

\* Cleanup attempts follow one another, after the reconcile.
LEMMA CleanupOrderedStep == IInv /\ [Next]_vars => CleanupOrdered'
<1> SUFFICES ASSUME TypeOK, PassHolds, Ordered, CleanupOrdered, [Next]_vars PROVE CleanupOrdered'
  BY DEF IInv
<1> USE DEF statusVars, podVars, traceVars, reconcileVars, cleanupVars, passSame, runnerSame
<1>1. CASE Look \/ Admit \/ CancelUnstarted \/ Suspend \/ RecordAttempt
        \/ StartPod \/ ClearPod \/ NeverStarts \/ Preflight \/ CreateTopics
        \/ Record \/ (\E t \in Topics : Fill(t)) \/ EngineExits \/ Verify
        \/ Sign \/ Report \/ StopPod \/ Crash \/ LosePod \/ DeleteRun
        \/ PassFails \/ (\E what \in {"cancel", "cleanup"} : Ask(what))
        \/ (\E t \in Topics : Meddle(t)) \/ (\E n \in Attempts : Keep(n))
        \/ (\E n \in Attempts : Judge(n)) \/ (\E n \in Attempts : Falter(n))
        \/ (\E n \in Attempts : LoseReconcile(n))
     \/ UNCHANGED vars
  <2>1. UNCHANGED <<verification, cleanup, cjob>>
    BY <1>1 DEF vars, Look, Admit, CancelUnstarted, Suspend, RecordAttempt,
         StartPod, ClearPod, NeverStarts, Preflight, CreateTopics, Record,
         Fill, EngineExits, Verify, Sign, Report, StopPod, Crash, LosePod,
         DeleteRun, PassFails, Ask, Meddle, Keep, Judge, Falter,
         LoseReconcile, Exit
  <2>. QED BY <2>1 DEF CleanupOrdered, NextCleanup, Working
<1>2. CASE ListPods
  BY <1>2 DEF ListPods, Interrupted, CleanupOrdered, NextCleanup, Working,
       PassHolds, Ordered
<1>3. CASE ReadEnd
  BY <1>3 DEF ReadEnd, Interrupted, CleanupOrdered, NextCleanup, Working,
       Ordered
<1>4. CASE StartReconcile
  BY <1>4 DEF StartReconcile, Reconciling, NextAttempt, CleanupOrdered,
       NextCleanup, Working
<1>5. CASE GiveUp
  BY <1>5 DEF GiveUp, Reconciling, NextAttempt, CleanupOrdered, NextCleanup,
       Working
<1>6. CASE ReadReconcile
  BY <1>6 DEF ReadReconcile, Reconciling, PhaseAfter, Unnamed, CleanupOrdered,
       NextCleanup, Working
<1>7. CASE StartCleanup
  <2>1. \A n \in Attempts : n # cleanup.attempts + 1 => cjob'[n] = cjob[n]
    BY <1>7 DEF StartCleanup, TypeOK
  <2>2. cleanup.attempts # cleanup.attempts + 1 /\ cleanup.attempts \in Nat
    BY DEF TypeOK
  <2>3. \A n \in Attempts : n = cleanup.attempts => cjob[n] = "failed"
    BY <1>7 DEF StartCleanup, CleanupOrdered, Attempts
  <2>4. verification = "Done" /\ verification' = "Done"
    BY <1>7 DEF StartCleanup, Cleaning
  <2>5. CASE cleanup' = cleanup
    <3>1. NextCleanup'
      BY <2>1, <2>2, <2>3, <2>5 DEF NextCleanup
    <3>. QED BY <2>1, <2>2, <2>3, <2>4, <2>5, <3>1 DEF CleanupOrdered, Working
  <2>6. CASE SetCleanup("Failed", cleanup.attempts + 1) /\ cjob' = cjob
    BY <2>2, <2>3, <2>4, <2>6 DEF SetCleanup, CleanupOrdered, Working
  <2>. QED BY <1>7, <2>5, <2>6 DEF StartCleanup
<1>8. CASE RecordCleanup
  BY <1>8 DEF RecordCleanup, SetCleanup, CleanupOrdered, NextCleanup, Working,
       PassHolds, TypeOK
<1>9. CASE ReadCleanup
  BY <1>9 DEF ReadCleanup, Cleaning, SetCleanup, CleanupOrdered, NextCleanup,
       Working, TypeOK
<1>10. ASSUME NEW n \in Attempts, ReadIds(n) PROVE CleanupOrdered'
  BY <1>10 DEF ReadIds, CleanupEnds, Unnamed, CleanupOrdered, NextCleanup,
       Working, TypeOK
<1>11. ASSUME NEW n \in Attempts, DeleteTopics(n) PROVE CleanupOrdered'
  BY <1>11 DEF DeleteTopics, CleanupEnds, CleanupOrdered, NextCleanup,
       Working, TypeOK
<1>12. ASSUME NEW n \in Attempts, LoseCleanup(n) PROVE CleanupOrdered'
  BY <1>12 DEF LoseCleanup, Upset, CleanupOrdered, NextCleanup, Working,
       TypeOK
<1>. QED BY <1>1, <1>2, <1>3, <1>4, <1>5, <1>6, <1>7, <1>8, <1>9, <1>10,
     <1>11, <1>12
      DEF Next, Controller, Kubelet, Runner, ReconcileJob, CleanupJob

\* Topics of the run go, and none gets data.
Fewer == /\ Written => Written'
         /\ HoldsData' => HoldsData
         /\ Remaining' \subseteq Remaining

LEMMA MeddleTakes == ASSUME TypeOK, NEW t \in Topics, Meddle(t) PROVE Fewer
<1>1. PICK x \in {"absent", "other"} : topic' = [topic EXCEPT ![t] = x]
  BY DEF Meddle
<1>2. \A u \in Topics : topic'[u] = topic[u] \/ topic'[u] \in {"absent", "other"}
  BY <1>1 DEF TypeOK
<1>. QED BY <1>2 DEF Fewer, Written, HoldsData, Remaining, Lacking, Holding, Runs

LEMMA DeletionTakes == ASSUME TypeOK, NEW n \in Attempts, DeleteTopics(n) PROVE Fewer
<1>1. \A t \in Topics : topic'[t] = topic[t] \/ topic'[t] = "absent"
  BY DEF DeleteTopics, Deleted
<1>. QED BY <1>1 DEF Fewer, Written, HoldsData, Remaining, Lacking, Holding, Runs

LEMMA SameTakes == topic' = topic => Fewer
BY DEF Fewer, Written, HoldsData, Remaining

\* What an attempt found holds as long as its records stand.
LEMMA JudgedStays ==
  ASSUME NEW n \in Attempts, Judged(n), Fewer, score' = score, signedBy' = signedBy,
         rjob'[n] = rjob[n], kept'[n] = kept[n]
  PROVE  Judged(n)'
BY DEF Judged, Fewer

LEMMA RemovesStays ==
  ASSUME NEW n \in Attempts, Removes(n), Fewer, doomed' = doomed, cjob'[n] = cjob[n]
  PROVE  Removes(n)'
BY DEF Removes, Fewer

LEMMA StaysSettled ==
  ASSUME Settled, Fewer, ~blind' => ~blind,
         UNCHANGED <<score, rjob, kept, cjob, doomed, signedBy, cleanup>>
  PROVE  Settled'
<1>1. \A n \in Attempts : Judged(n) => Judged(n)'
  BY JudgedStays
<1>2. \A n \in Attempts : Removes(n) => Removes(n)'
  BY RemovesStays
<1>. QED BY <1>1, <1>2 DEF Settled, Fewer

\* What reconcile and cleanup attempts found and did stays true; while the
\* Restore is open there is none.
LEMMA SettledStep == IInv /\ [Next]_vars => Settled'
<1>0. ASSUME IInv, [Next]_vars, phase' = "Open" PROVE Settled'
  <2>1. /\ signedBy' = 0 /\ (cleanup.phase)' = "none"
        /\ \A n \in Attempts : rjob'[n] = "none" /\ cjob'[n] = "none"
    BY <1>0, OrderedStep, CleanupOrderedStep DEF Ordered, CleanupOrdered
  <2>2. \A n \in Attempts : n # 0
    BY RestoreAssumption DEF Attempts
  <2>. QED BY <2>1, <2>2 DEF Settled, Judged, Removes
<1> SUFFICES ASSUME TypeOK, PassHolds, RunOver, Told, Ordered, CleanupOrdered, Settled,
                    [Next]_vars, phase' # "Open"
             PROVE  Settled'
  BY <1>0 DEF IInv
<1> USE DEF statusVars, podVars, traceVars, reconcileVars, cleanupVars, passSame, runnerSame
<1>1. CASE Look \/ Admit \/ CancelUnstarted \/ Suspend \/ ListPods \/ RecordAttempt
           \/ GiveUp \/ StartPod \/ ClearPod \/ NeverStarts \/ StopPod \/ Crash \/ LosePod
           \/ PassFails \/ (\E what \in {"cancel", "cleanup"} : Ask(what)) \/ UNCHANGED vars
  <2>1. UNCHANGED <<topic, score, rjob, kept, cjob, doomed, signedBy, cleanup, blind>>
    BY <1>1 DEF vars, Look, Admit, CancelUnstarted, Suspend, ListPods, RecordAttempt,
         GiveUp, StartPod, ClearPod, NeverStarts, StopPod, Crash, LosePod, PassFails, Ask,
         Exit, PassHolds
  <2>. QED BY <2>1, SameTakes, StaysSettled
<1>2. CASE Preflight \/ CreateTopics \/ Record \/ (\E t \in Topics : Fill(t))
           \/ EngineExits \/ Verify \/ Sign \/ Report
  <2>1. Alive /\ phase' = phase
    BY <1>2 DEF Preflight, CreateTopics, Record, Fill, EngineExits, Verify, Sign, Report
  <2>2. blind => blind'
    BY <1>2, Zenon DEF Preflight, CreateTopics, Record, Fill, EngineExits, Verify, Sign, Report
  <2>. QED BY <2>1, <2>2 DEF RunOver, Settled
<1>3. CASE ReadEnd \/ DeleteRun
  <2>1. UNCHANGED <<topic, score, rjob, kept, cjob, doomed, signedBy, cleanup>>
    BY <1>3 DEF ReadEnd, DeleteRun
  <2>2. ~blind' => ~blind
    BY <1>3, Zenon DEF ReadEnd, DeleteRun
  <2>. QED BY <2>1, <2>2, SameTakes, StaysSettled
<1>4. ASSUME NEW t \in Topics, Meddle(t) PROVE Settled'
  <2>1. UNCHANGED <<score, rjob, kept, cjob, doomed, signedBy, cleanup, blind>>
    BY <1>4 DEF Meddle
  <2>. QED BY <1>4, <2>1, MeddleTakes, StaysSettled
<1> SUFFICES ASSUME ~blind', ~blind => \A n \in Attempts : Judged(n) /\ Removes(n)
             PROVE  Settled'
  BY DEF Settled
<1>5. CASE StartReconcile
  <2>1. UNCHANGED <<topic, score, kept, cjob, doomed, signedBy, cleanup, blind>>
    BY <1>5 DEF StartReconcile
  <2>2. \A n \in Attempts : rjob'[n] = rjob[n] \/ (rjob'[n] = "reading" /\ rjob[n] = "none")
    BY <1>5 DEF StartReconcile, TypeOK
  <2>3. \A n \in Attempts : Judged(n)'
    BY <2>1, <2>2, SameTakes DEF Judged, Fewer
  <2>. QED BY <2>1, <2>3, SameTakes, RemovesStays DEF Settled, Fewer
<1>6. CASE ReadReconcile
  <2>1. UNCHANGED <<topic, score, rjob, kept, cjob, doomed, cleanup>>
    BY <1>6 DEF ReadReconcile
  <2>2. ~blind
    BY <1>6, Zenon DEF ReadReconcile
  <2>3. \A n \in Attempts : signedBy' = n => rjob[n] \in {"pass", "partial"}
    <3>1. \A n \in Attempts : n # 0 /\ n # Unnamed
      BY RestoreAssumption DEF Attempts, Unnamed
    <3>. QED BY <1>6, <3>1 DEF ReadReconcile
  <2>4. \A n \in Attempts : Judged(n)'
    BY <2>1, <2>2, <2>3, SameTakes DEF Judged, Fewer
  <2>. QED BY <2>1, <2>2, <2>4, SameTakes, RemovesStays DEF Settled, Fewer
<1>7. ASSUME NEW n \in Attempts, Keep(n) \/ Judge(n) \/ Falter(n) \/ LoseReconcile(n)
      PROVE  Settled'
  <2>1. UNCHANGED <<topic, score, cjob, doomed, signedBy, cleanup, blind>>
    BY <1>7 DEF Keep, Judge, Falter, LoseReconcile
  <2>2. \A m \in Attempts \ {n} : rjob'[m] = rjob[m] /\ kept'[m] = kept[m]
    BY <1>7 DEF Keep, Judge, Falter, LoseReconcile, TypeOK
  <2>3. \A m \in Attempts \ {n} : Judged(m)'
    BY <2>1, <2>2, SameTakes, JudgedStays
  <2>4. rjob[n] \in Working => signedBy # n
    BY RestoreAssumption DEF Ordered, Attempts
  <2>5. UNCHANGED <<Written, HoldsData, Remaining>>
    BY <2>1 DEF Written, HoldsData, Remaining
  <2>6. Judged(n)'
    <3>1. CASE Keep(n)
      <4> DEFINE still == {t \in known : topic[t] \in Runs}
      <4>1. /\ rjob'[n] = Finds(still) /\ signedBy # n
            /\ kept'[n] = IF Finds(still) = "verifying" THEN still ELSE {}
        BY <3>1, <2>4 DEF Keep, TypeOK, Working
      <4>2. record # "none" => still = Remaining
        BY <2>1 DEF Told, Remaining
      <4>3. Remaining = {} => ~HoldsData
        BY DEF Remaining, HoldsData, Runs, Holding
      <4>4. Finds(still) = "own" => score \in {"pass", "fail"}
        BY DEF Finds
      <4>5. Finds(still) = "nothing" => record = "none" \/ (record # "none" /\ still = {})
        BY DEF Finds
      <4>6. Finds(still) = "nothing" => ~HoldsData
        BY <2>1, <4>2, <4>3, <4>5 DEF Told
      <4>7. Finds(still) = "verifying" => record # "none"
        BY DEF Finds, TypeOK
      <4>8. Finds(still) \in {"refused", "own", "nothing", "verifying"}
        BY DEF Finds
      <4>. QED BY <2>1, <2>5, <4>1, <4>2, <4>4, <4>6, <4>7, <4>8 DEF Judged
    <3>2. CASE Judge(n)
      <4>1. rjob'[n] \in {"pass", "partial"} /\ kept' = kept /\ rjob[n] = "verifying"
        BY <3>2 DEF Judge, TypeOK
      <4>2. rjob'[n] = "pass" => Written
        BY <3>2 DEF Judge, TypeOK, Written, Lacking
      <4>. QED BY <2>1, <2>5, <4>1, <4>2 DEF Judged
    <3>3. CASE Falter(n)
      <4>1. rjob'[n] = "failed" /\ signedBy # n
        BY <3>3, <2>4 DEF Falter, TypeOK
      <4>. QED BY <2>1, <4>1 DEF Judged
    <3>4. CASE LoseReconcile(n)
      <4>1. rjob'[n] \in {"none", "failed"} /\ kept' = kept
        BY <3>4 DEF LoseReconcile, TypeOK
      <4>. QED BY <2>1, <2>5, <4>1 DEF Judged
    <3>. QED BY <1>7, <3>1, <3>2, <3>3, <3>4
  <2>. QED BY <2>1, <2>3, <2>5, <2>6, SameTakes, RemovesStays DEF Settled
<1>8. CASE StartCleanup \/ RecordCleanup
  <2>1. UNCHANGED <<topic, score, rjob, kept, doomed, signedBy, blind>>
    BY <1>8 DEF StartCleanup, RecordCleanup
  <2>2. \A n \in Attempts : cjob'[n] = cjob[n] \/ cjob'[n] = "reading"
    BY <1>8 DEF StartCleanup, RecordCleanup, TypeOK
  <2>3. cleanup'.phase # "Removed" \/ cleanup' = cleanup
    BY <1>8 DEF StartCleanup, RecordCleanup, SetCleanup
  <2>4. \A n \in Attempts : Removes(n)'
    BY <2>1, <2>2, SameTakes DEF Removes, Fewer
  <2>. QED BY <2>1, <2>3, <2>4, SameTakes, JudgedStays DEF Settled, Fewer
<1>9. CASE ReadCleanup
  <2>1. UNCHANGED <<topic, score, rjob, kept, cjob, doomed, signedBy, blind>>
    BY <1>9 DEF ReadCleanup
  <2>2. cleanup'.phase = "Removed" => \E n \in Attempts : cjob[n] = "removed"
    BY <1>9 DEF ReadCleanup, SetCleanup, CleanupOrdered, TypeOK, Attempts
  <2>3. UNCHANGED Remaining
    BY <2>1 DEF Remaining
  <2>4. cleanup'.phase = "Removed" => Remaining' \subseteq Originals
    BY <2>1, <2>2, <2>3 DEF Removes
  <2>. QED BY <2>1, <2>4, SameTakes, JudgedStays, RemovesStays DEF Settled
<1>10. ASSUME NEW n \in Attempts, ReadIds(n) \/ DeleteTopics(n) \/ LoseCleanup(n)
       PROVE  Settled'
  <2>1. UNCHANGED <<score, rjob, kept, signedBy, cleanup, blind>>
    BY <1>10 DEF ReadIds, DeleteTopics, LoseCleanup
  <2>2. \A m \in Attempts \ {n} : cjob'[m] = cjob[m]
    BY <1>10 DEF ReadIds, DeleteTopics, LoseCleanup, CleanupEnds, TypeOK
  <2>3. Fewer
    BY <1>10, SameTakes, DeletionTakes DEF ReadIds, LoseCleanup
  <2>4. doomed' = doomed \/ cjob[n] \in Working
    BY <1>10 DEF ReadIds, DeleteTopics, LoseCleanup, Working
  <2>5. \A m \in Attempts : cjob[n] \in Working /\ cjob[m] \in Working => m = n
    BY DEF CleanupOrdered, NextCleanup, Working
  <2>6. \A m \in Attempts \ {n} : Removes(m)'
    BY <2>1, <2>2, <2>3, <2>4, <2>5 DEF Removes, Fewer, Working
  <2>7. Removes(n)'
    <3>1. CASE ReadIds(n)
      <4>1. cjob'[n] \in {"refused", "failed", "deleting"}
        BY <3>1 DEF ReadIds, CleanupEnds, TypeOK
      <4>2. cjob'[n] = "deleting" =>
              signedBy \in Attempts /\ doomed' = {t \in kept[signedBy] \ Originals : topic[t] \in Runs}
        BY <3>1 DEF ReadIds, CleanupEnds, TypeOK
      <4>3. cjob'[n] = "deleting" => Remaining \subseteq kept[signedBy]
        BY <2>1, <4>2 DEF Judged
      <4>4. cjob'[n] = "deleting" => Remaining \ Originals \subseteq doomed'
        BY <4>2, <4>3 DEF Remaining
      <4>. QED BY <4>1, <4>4, <2>3 DEF Removes, Fewer
    <3>2. CASE DeleteTopics(n)
      <4>1. cjob[n] = "deleting" /\ cjob'[n] \in {"failed", "removed"}
        BY <3>2 DEF DeleteTopics, CleanupEnds, TypeOK
      <4>2. cjob'[n] = "removed" => topic' = Deleted(doomed)
        BY <3>2 DEF DeleteTopics, CleanupEnds, TypeOK
      <4>3. cjob'[n] = "removed" => Remaining' \cap doomed = {}
        BY <4>2 DEF Deleted, Remaining, Runs
      <4>4. Remaining \ Originals \subseteq doomed
        BY <2>1, <4>1 DEF Removes
      <4>. QED BY <2>3, <4>1, <4>3, <4>4 DEF Removes, Fewer
    <3>3. CASE LoseCleanup(n)
      <4>1. cjob'[n] \in {"none", "failed"}
        BY <3>3 DEF LoseCleanup, TypeOK
      <4>. QED BY <4>1 DEF Removes
    <3>. QED BY <1>10, <3>1, <3>2, <3>3
  <2>8. cleanup.phase = "Removed" => Remaining' \subseteq Originals
    BY <2>1, <2>3 DEF Settled, Fewer
  <2>. QED BY <2>1, <2>3, <2>6, <2>7, <2>8, JudgedStays DEF Settled
<1>. QED BY <1>1, <1>2, <1>3, <1>4, <1>5, <1>6, <1>7, <1>8, <1>9, <1>10
      DEF Next, Controller, Kubelet, Runner, ReconcileJob, CleanupJob

LEMMA IInvInit == Init => IInv
<1> SUFFICES ASSUME Init PROVE IInv
  OBVIOUS
<1>1. \A n \in Attempts : n # 0
  BY RestoreAssumption DEF Attempts
<1>2. PassHolds /\ RunOver /\ Traces /\ Told /\ Ordered /\ CleanupOrdered
  BY DEF Init, PassHolds, RunOver, Alive, Traces, Written, Lacking, Told, HoldsData, Holding,
     Ordered, CleanupOrdered, Working
<1>3. Settled
  BY <1>1 DEF Init, Settled, Judged, Removes
<1>. QED BY <1>2, <1>3, TypeInit DEF IInv

LEMMA IInvStep == IInv /\ [Next]_vars => IInv'
BY TypeStep, PassStep, OverStep, TracesStep, ToldStep, OrderedStep, CleanupOrderedStep, SettledStep
   DEF IInv

\* The inductive invariant: what each pass still holds, how far the run got by
\* what it left, and what every attempt found and did, in every behaviour.
THEOREM IInvHolds == Spec => []IInv
<1>. QED BY IInvInit, IInvStep, PTL DEF Spec

\* An interrupted run has no writer: once the phase is Interrupted, no pod of
\* the run is alive and none can be started, however the run was stopped.
THEOREM WriterGoneHolds == Spec => []WriterGone
<1>1. IInv => WriterGone
  BY DEF IInv, RunOver, WriterGone
<1>. QED BY <1>1, IInvHolds, PTL

\* One reconcile or cleanup Job is at work at a time, whatever Jobs are lost
\* and whatever passes stop between a Job and the count of it.
THEOREM OneJobAtWorkHolds == Spec => []OneJobAtWork
<1>1. IInv => OneJobAtWork
  BY DEF IInv, Ordered, CleanupOrdered, NextAttempt, NextCleanup, OneJobAtWork, Working, TypeOK
<1>. QED BY <1>1, IInvHolds, PTL

\* Removed, which releases the recovery point, is true of the target.
THEOREM RemovedIsTrueHolds == Spec => []RemovedIsTrue
<1>1. IInv => RemovedIsTrue
  BY DEF IInv, Settled, Remaining, RemovedIsTrue
<1>. QED BY <1>1, IInvHolds, PTL

LEMMA HonestInit == Init => Honest!Init
BY DEF Init, Honest!Init, Alive, Written, Lacking, HoldsData, Holding

\* What the phases of the honest Restore range over.
LEMMA Truths == /\ Alive' \in BOOLEAN /\ (~Written)' \in BOOLEAN /\ HoldsData' \in BOOLEAN
                /\ (score = "fail")' \in BOOLEAN
BY DEF Alive, Written, HoldsData

\* A step of the run, while the Restore is open or a trace of it was lost.
LEMMA RunnerWorks ==
  ASSUME TypeOK, Alive, phase' = phase, phase = "Open" \/ blind,
         blind => blind', blind' \in BOOLEAN,
         score = "fail" => score' = "fail"
  PROVE  Honest!Work
BY Truths DEF Honest!Work, TypeOK

\* Every step of the Restore is a step of the honest one, or none: the phase
\* closes once, on a run that is gone, and says what is on the target.
LEMMA HonestStep == IInv /\ IInv' /\ [Next]_vars => [Honest!Next]_(Honest!vars)
<1> SUFFICES ASSUME TypeOK, TypeOK', PassHolds, RunOver, Traces, Told, Ordered, Settled, [Next]_vars
             PROVE  [Honest!Next]_(Honest!vars)
  BY DEF IInv
<1> USE DEF statusVars, podVars, traceVars, reconcileVars, cleanupVars, passSame, runnerSame
<1>a. topic' = topic => UNCHANGED <<Written, HoldsData>>
  BY DEF Written, HoldsData
<1>b. phase = "Open" /\ pod = "none" /\ ~blind => ~HoldsData /\ score = "none"
  BY DEF Told, Traces
<1>1. CASE Look \/ Suspend \/ StartReconcile \/ RecordAttempt \/ GiveUp \/ StartCleanup
           \/ RecordCleanup \/ ReadCleanup \/ ClearPod \/ NeverStarts \/ StopPod \/ LosePod
           \/ PassFails \/ (\E what \in {"cancel", "cleanup"} : Ask(what))
           \/ (\E n \in Attempts : Keep(n) \/ Judge(n) \/ Falter(n) \/ ReadIds(n)
                                   \/ LoseReconcile(n) \/ LoseCleanup(n))
           \/ UNCHANGED vars
  <2>1. UNCHANGED <<phase, topic, score, blind>>
    BY <1>1 DEF vars, Look, Suspend, StartReconcile, RecordAttempt, GiveUp, StartCleanup,
         RecordCleanup, ReadCleanup, ClearPod, NeverStarts, StopPod, LosePod, PassFails, Ask,
         Keep, Judge, Falter, ReadIds, LoseReconcile, LoseCleanup
  <2>2. \/ pod' = pod
        \/ pod \in {"working", "stopping"} /\ pod' = "stopping"
        \/ pod = "exited" /\ pod' = "gone"
    BY <1>1 DEF vars, Look, Suspend, StartReconcile, RecordAttempt, GiveUp, StartCleanup,
         RecordCleanup, ReadCleanup, ClearPod, NeverStarts, StopPod, LosePod, PassFails, Ask,
         Keep, Judge, Falter, ReadIds, LoseReconcile, LoseCleanup
  <2>3. UNCHANGED <<Alive, Written, HoldsData>>
    BY <2>1, <2>2, <1>a DEF Alive
  <2>. QED BY <2>1, <2>3 DEF Honest!vars
<1>2. CASE Preflight \/ CreateTopics \/ Record \/ (\E t \in Topics : Fill(t))
           \/ EngineExits \/ Verify \/ Sign \/ Report \/ Crash
  <2>1. Alive /\ phase' = phase
    BY <1>2 DEF Preflight, CreateTopics, Record, Fill, EngineExits, Verify, Sign, Report, Crash
  <2>2. blind => blind'
    BY <1>2, Zenon DEF Preflight, CreateTopics, Record, Fill, EngineExits, Verify, Sign, Report, Crash
  <2>3. score = "fail" => score' = "fail"
    BY <1>2 DEF Preflight, CreateTopics, Record, Fill, EngineExits, Verify, Sign, Report, Crash, Traces
  <2>4. Honest!Work
    BY <2>1, <2>2, <2>3, RunnerWorks DEF RunOver, TypeOK
  <2>. QED BY <2>4 DEF Honest!Next
<1>3. CASE StartPod
  <2>1. Honest!Work
    BY <1>3, <1>a, Truths DEF StartPod, Honest!Work, RunOver, TypeOK
  <2>. QED BY <2>1 DEF Honest!Next
<1>4. CASE DeleteRun
  <2>1. UNCHANGED <<phase, topic, score>> /\ blind' \in {blind, TRUE}
    BY <1>4 DEF DeleteRun, TypeOK
  <2>2. pod \notin {"working", "stopping"} /\ pod' = "none"
    BY <1>4 DEF DeleteRun, Alive
  <2>3. UNCHANGED <<Alive, Written, HoldsData>>
    <3>1. Alive' = Alive
      BY <2>2 DEF Alive
    <3>. QED BY <2>1, <3>1, <1>a
  <2>4. Honest!Vanish
    BY <2>1, <2>3, Truths DEF Honest!Vanish
  <2>. QED BY <2>4 DEF Honest!Next
<1>5. ASSUME NEW t \in Topics, Meddle(t) PROVE Honest!Next
  <2>1. UNCHANGED <<phase, score, blind, pod>> /\ Fewer
    BY <1>5, MeddleTakes DEF Meddle
  <2>2. Honest!Vanish
    BY <2>1, Truths DEF Honest!Vanish, Fewer, Alive
  <2>. QED BY <2>2 DEF Honest!Next
<1>6. ASSUME NEW n \in Attempts, DeleteTopics(n) PROVE Honest!Next
  <2>1. UNCHANGED <<phase, score, blind, pod>> /\ Fewer
    BY <1>6, DeletionTakes DEF DeleteTopics
  <2>2. Honest!Vanish
    BY <2>1, Truths DEF Honest!Vanish, Fewer, Alive
  <2>. QED BY <2>2 DEF Honest!Next
<1>7. CASE Admit
  <2>1. phase = "Open" /\ pod = "none" /\ UNCHANGED <<topic, pod, blind>>
    BY <1>7 DEF Admit, PassHolds, RunOver
  <2>2. UNCHANGED <<Alive, Written, HoldsData>>
    BY <2>1, <1>a DEF Alive
  <2>3. CASE phase' = "Failed" /\ score' = score
    <3>1. Honest!Fail
      BY <2>1, <2>2, <2>3, <1>b DEF Honest!Fail, Honest!Close
    <3>. QED BY <3>1 DEF Honest!Next
  <2>4. CASE phase' = phase /\ score' = score
    BY <2>1, <2>2, <2>4 DEF Honest!vars
  <2>5. CASE phase' = phase /\ score' = "none" /\ blind
    <3>1. Honest!Again
      BY <2>1, <2>2, <2>5 DEF Honest!Again
    <3>. QED BY <3>1 DEF Honest!Next
  <2>6. CASE phase' = phase /\ score' = "none" /\ ~blind
    BY <2>1, <2>2, <2>6, <1>b DEF Honest!vars
  <2>. QED BY <1>7, <2>3, <2>4, <2>5, <2>6 DEF Admit
<1>8. CASE CancelUnstarted
  <2>1. phase = "Open" /\ phase' = "Failed" /\ pod = "none" /\ UNCHANGED <<topic, score, pod, blind>>
    BY <1>8 DEF CancelUnstarted, RunOver
  <2>2. UNCHANGED <<Alive, Written, HoldsData>>
    BY <2>1, <1>a DEF Alive
  <2>3. Honest!Fail
    BY <2>1, <2>2, <1>b DEF Honest!Fail, Honest!Close
  <2>. QED BY <2>3 DEF Honest!Next
<1>9. CASE ListPods
  <2>1. phase = "Open" /\ UNCHANGED <<topic, score, pod, blind>>
    BY <1>9 DEF ListPods, PassHolds
  <2>2. UNCHANGED <<Alive, Written, HoldsData>>
    BY <2>1, <1>a DEF Alive
  <2>3. phase' = "Open" \/ (phase' = "Interrupted" /\ ~Alive)
    BY <1>9 DEF ListPods, Alive
  <2>4. CASE phase' = "Open"
    BY <2>1, <2>2, <2>4 DEF Honest!vars
  <2>5. CASE phase' = "Interrupted" /\ ~Alive
    <3>1. Honest!Interrupt
      BY <2>1, <2>2, <2>5 DEF Honest!Interrupt, Honest!Close
    <3>. QED BY <3>1 DEF Honest!Next
  <2>. QED BY <2>3, <2>4, <2>5
<1>10. CASE ReadEnd
  <2>1. PICK lost \in BOOLEAN : phase' \in Ends(lost) /\ blind' = (blind \/ lost \/ Alive)
    BY <1>10 DEF ReadEnd
  <2>2. phase = "Open" /\ UNCHANGED <<topic, score, pod>>
    BY <1>10 DEF ReadEnd
  <2>3. UNCHANGED <<Alive, Written, HoldsData>>
    BY <2>2, <1>a DEF Alive
  <2>4. blind' \in {blind, TRUE} /\ (~blind' => ~blind /\ ~lost /\ ~Alive)
    BY <2>1 DEF TypeOK
  <2>5. CASE phase' = "Interrupted"
    <3>1. Honest!Interrupt
      BY <2>2, <2>3, <2>4, <2>5 DEF Honest!Interrupt, Honest!Close
    <3>. QED BY <3>1 DEF Honest!Next
  <2>6. CASE phase' = "Succeeded"
    <3>1. exit = "passed"
      BY <2>1, <2>6 DEF Ends, TypeOK
    <3>2. Written
      BY <3>1 DEF Traces
    <3>3. Honest!Succeed
      BY <2>2, <2>3, <2>4, <2>6, <3>2 DEF Honest!Succeed, Honest!Close
    <3>. QED BY <3>3 DEF Honest!Next
  <2>7. CASE phase' = "Failed"
    <3>1. ~blind' => pod = "none" \/ exit \in {"failed", "refused"} \/ record # "signed"
      BY <2>1, <2>4, <2>7 DEF Ends, TypeOK
    <3>2. ~blind' => ~HoldsData \/ score = "fail"
      BY <2>2, <2>4, <3>1, <1>b DEF Traces, Told
    <3>3. Honest!Fail
      BY <2>2, <2>3, <2>4, <2>7, <3>2 DEF Honest!Fail, Honest!Close
    <3>. QED BY <3>3 DEF Honest!Next
  <2>8. phase' \in {"Interrupted", "Succeeded", "Failed"}
    BY <2>1 DEF Ends, TypeOK
  <2>. QED BY <2>5, <2>6, <2>7, <2>8
<1>11. CASE ReadReconcile
  <2>1. /\ phase = "Interrupted" /\ attempts \in Attempts
        /\ UNCHANGED <<topic, score, pod>>
    BY <1>11 DEF ReadReconcile, Reconciling, TypeOK, Attempts
  <2>2. PICK lost \in BOOLEAN :
          phase' = PhaseAfter(rjob[attempts], lost) /\ blind' = (blind \/ lost)
    BY <1>11 DEF ReadReconcile
  <2>3. UNCHANGED <<Alive, Written, HoldsData>>
    BY <2>1, <1>a DEF Alive
  <2>4. blind' \in {blind, TRUE} /\ (~blind' => ~blind /\ ~lost)
    BY <2>2 DEF TypeOK
  <2>5. ~blind => Judged(attempts)
    BY <2>1 DEF Settled
  <2>6. CASE phase' = "Interrupted"
    <3>1. Honest!Vanish
      BY <2>1, <2>3, <2>4, <2>6, Truths DEF Honest!Vanish
    <3>. QED BY <3>1 DEF Honest!Next
  <2>7. CASE phase' = "Succeeded"
    <3>1. ~blind' => rjob[attempts] = "pass" \/ score = "pass"
      BY <2>2, <2>4, <2>7 DEF PhaseAfter
    <3>2. ~blind' => Written
      BY <2>4, <2>5, <3>1 DEF Judged, Traces
    <3>3. Honest!Succeed
      BY <2>1, <2>3, <2>4, <2>7, <3>2 DEF Honest!Succeed, Honest!Close
    <3>. QED BY <3>3 DEF Honest!Next
  <2>8. CASE phase' = "Failed"
    <3>1. ~blind' => rjob[attempts] = "nothing" \/ (rjob[attempts] = "own" /\ score # "pass")
      BY <2>2, <2>4, <2>8 DEF PhaseAfter
    <3>2. ~blind' => ~HoldsData \/ score = "fail"
      BY <2>4, <2>5, <3>1 DEF Judged
    <3>3. Honest!Fail
      BY <2>1, <2>3, <2>4, <2>8, <3>2 DEF Honest!Fail, Honest!Close
    <3>. QED BY <3>3 DEF Honest!Next
  <2>9. phase' \in {"Interrupted", "Succeeded", "Failed"}
    BY <2>2 DEF PhaseAfter
  <2>. QED BY <2>6, <2>7, <2>8, <2>9
<1>. QED BY <1>1, <1>2, <1>3, <1>4, <1>5, <1>6, <1>7, <1>8, <1>9, <1>10, <1>11
      DEF Next, Controller, Kubelet, Runner, ReconcileJob, CleanupJob

\* The phase is honest and final in every behaviour: RestoreInterruption
\* implements HonestRestore.
THEOREM HonestHolds == Spec => HonestSpec
<1>. QED BY HonestInit, HonestStep, IInvHolds, PTL DEF Spec, HonestSpec, Honest!Spec

=============================================================================
