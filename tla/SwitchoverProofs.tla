-------------------------- MODULE SwitchoverProofs --------------------------
(***************************************************************************)
(* The invariant of SwitchoverInv is inductive, for every set of           *)
(* Switchovers and any number of failed passes, deleted Jobs and Jobs of   *)
(* strangers, and what follows from it.                                    *)
(***************************************************************************)
EXTENDS SwitchoverInv, FiniteSetTheorems, TLAPS

LEMMA SecondType == Cardinality(Switchover) \in Nat
BY SwitchoverAssumption, FS_CardinalityType

LEMMA TypeInit == Init => TypeOK
BY SwitchoverAssumption DEF Init, TypeOK, Phases, Jobs, PassPoints, Verdicts, TerminalPhases

\* Every step keeps every variable in its set.
LEMMA TypeStep == TypeOK /\ [Next]_vars => TypeOK'
<1> SUFFICES ASSUME TypeOK, [Next]_vars PROVE TypeOK'
  OBVIOUS
<1> USE DEF TypeOK
<1>1. CASE RestoreEnds
  BY <1>1 DEF RestoreEnds, swVars, approvalVars
<1>2. CASE VerdictRecorded
  BY <1>2 DEF VerdictRecorded, swVars, approvalVars
<1>3. ASSUME NEW s \in Switchover, Environment(s) PROVE TypeOK'
  <2>1. CASE Create(s)
    BY <2>1, SecondType DEF Create, approvalVars
  <2>2. CASE Expire(s)
    BY <2>2 DEF Expire, swVars
  <2>3. CASE JobEnds(s)
    BY <2>3 DEF JobEnds, swVars, approvalVars, Jobs
  <2>4. CASE DeleteJob(s)
    BY <2>4 DEF DeleteJob, swVars, approvalVars, Jobs
  <2>5. CASE PlantJob(s)
    BY <2>5 DEF PlantJob, swVars, approvalVars, Jobs
  <2>6. CASE RemovePlant(s)
    BY <2>6 DEF RemovePlant, swVars, approvalVars, Jobs
  <2>. QED BY <1>3, <2>1, <2>2, <2>3, <2>4, <2>5, <2>6 DEF Environment
<1>4. ASSUME NEW s \in Switchover, Judge(s) PROVE TypeOK'
  <2>1. \A seen : Judged(s, seen) \in Verdicts
    BY DEF Judged, Verdicts
  <2>. QED BY <1>4, <2>1 DEF Judge, swVars
<1>5. ASSUME NEW s \in Switchover, Reconcile(s) PROVE TypeOK'
  <2>1. \A p \in PassPoints : [pass EXCEPT ![s].at = p] \in [Switchover -> [at : PassPoints, job : Jobs]]
    OBVIOUS
  <2>2. \A p \in Phases : [phase EXCEPT ![s] = p] \in [Switchover -> Phases]
    OBVIOUS
  <2>3. "Pending" \in Phases /\ "Running" \in Phases /\ "Ended" \in Phases
        /\ "Refused" \in Phases /\ TerminalPhases \subseteq Phases
    BY DEF Phases, TerminalPhases
  <2>4. {"idle", "decide", "mark", "create", "conflict", "ref"} = PassPoints
    BY DEF PassPoints
  <2>5. CASE Look(s)
    <3>1. [at |-> "decide", job |-> job[s]] \in [at : PassPoints, job : Jobs]
      BY DEF PassPoints
    <3>. QED BY <2>5, <3>1 DEF Look, swVars, approvalVars
  <2>6. CASE NotAdmitted(s)
    BY <2>6, <2>1, <2>2, <2>3, <2>4 DEF NotAdmitted, SetPhase, Goto, approvalVars
  <2>7. CASE Lost(s)
    BY <2>7, <2>1, <2>2, <2>3, <2>4 DEF Lost, SetPhase, Goto, approvalVars
  <2>8. CASE NotOwn(s)
    BY <2>8, <2>1, <2>2, <2>3, <2>4 DEF NotOwn, SetPhase, Goto, approvalVars
  <2>9. CASE Observe(s)
    BY <2>9, <2>1, <2>2, <2>3, <2>4 DEF Observe, SetPhase, Goto, approvalVars
  <2>10. CASE Hold(s)
    BY <2>10, <2>1, <2>2, <2>3, <2>4 DEF Hold, SetPhase, Goto, approvalVars
  <2>11. CASE Refuse(s)
    BY <2>11, <2>1, <2>2, <2>3, <2>4 DEF Refuse, SetPhase, Goto, approvalVars
  <2>12. CASE Admit(s)
    BY <2>12, <2>1, <2>4 DEF Admit, Goto, swVars, approvalVars
  <2>13. CASE WriteMarker(s)
    BY <2>13, <2>1, <2>2, <2>3, <2>4 DEF WriteMarker, SetPhase, Goto, approvalVars
  <2>14. CASE CreateJob(s)
    <3>1. created' \in [Switchover -> Nat] /\ job' \in [Switchover -> Jobs]
      BY <2>14 DEF CreateJob, Jobs
    <3>. QED BY <2>14, <3>1, <2>1, <2>4 DEF CreateJob, Goto, swVars, approvalVars
  <2>15. CASE JobNameTaken(s)
    BY <2>15, <2>1, <2>4 DEF JobNameTaken, Goto, swVars, approvalVars
  <2>16. CASE Conflict(s)
    <3>1. (IF Own(job[s]) THEN "ref" ELSE "idle") \in PassPoints
      BY <2>4
    <3>2. (IF job[s] = "foreign" THEN "Refused" ELSE phase[s]) \in Phases
      BY <2>3
    <3>. QED BY <2>16, <3>1, <3>2, <2>1, <2>2 DEF Conflict, SetPhase, Goto, approvalVars
  <2>17. CASE WriteRef(s)
    BY <2>17, <2>1, <2>2, <2>3, <2>4 DEF WriteRef, SetPhase, Goto, approvalVars
  <2>. QED BY <1>5, <2>5, <2>6, <2>7, <2>8, <2>9, <2>10, <2>11, <2>12, <2>13,
              <2>14, <2>15, <2>16, <2>17 DEF Reconcile
<1>6. ASSUME NEW s \in Switchover, PassFails(s) PROVE TypeOK'
  <2>1. "idle" \in PassPoints
    BY DEF PassPoints
  <2>. QED BY <1>6, <2>1 DEF PassFails, Goto, swVars, approvalVars
<1>7. CASE UNCHANGED vars
  BY <1>7 DEF vars, swVars, approvalVars
<1>. QED BY <1>1, <1>2, <1>3, <1>4, <1>5, <1>6, <1>7 DEF Next

\* Every variable keeps its type (the status, the Job, the pass, the Approval).
THEOREM TypeCorrect == Spec => []TypeOK
<1>. QED BY TypeInit, TypeStep, PTL DEF Spec

-----------------------------------------------------------------------------
(***************************************************************************)
(* The invariant                                                           *)
(***************************************************************************)

Parts == PassIsOpen /\ TurnTaken /\ MarkedFirst /\ RunIsOpen /\ AdmitsUnrecorded

LEMMA PartsInit == Init => Parts
BY DEF Init, Parts, PassIsOpen, TurnTaken, MarkedFirst, RunIsOpen, AdmitsUnrecorded,
       At, Exists, Admitted, PastAdmission

\* What users, Jobs and the approval controller do leaves every part alone: a
\* new Switchover is not older than any, and no Job starts but by a pass.
LEMMA EnvironmentKeepsParts ==
    ASSUME TypeOK, Parts, NEW s \in Switchover, Environment(s) \/ Judge(s) PROVE Parts'
<1> USE DEF Parts, PassIsOpen, TurnTaken, MarkedFirst, RunIsOpen, AdmitsUnrecorded,
            At, Exists, Admitted, Terminal, PastAdmission
<1>1. CASE Create(s)
  BY <1>1 DEF TypeOK, Create
<1>2. CASE Expire(s)
  BY <1>2 DEF Expire, swVars
<1>3. CASE JobEnds(s)
  BY <1>3 DEF JobEnds, swVars
<1>4. CASE DeleteJob(s)
  BY <1>4 DEF DeleteJob, swVars
<1>5. CASE PlantJob(s)
  BY <1>5 DEF PlantJob, swVars
<1>6. CASE RemovePlant(s)
  BY <1>6 DEF RemovePlant, swVars
<1>7. CASE Judge(s)
  BY <1>7 DEF Judge, swVars
<1>. QED BY <1>1, <1>2, <1>3, <1>4, <1>5, <1>6, <1>7 DEF Environment

\* The pass that decides: it closes only what has no run at work, and admits
\* only what has no older Switchover open and no Job on record.
LEMMA DecisionKeepsParts ==
    ASSUME TypeOK, Parts, NEW s \in Switchover,
           NotAdmitted(s) \/ Lost(s) \/ NotOwn(s) \/ Observe(s) \/ Hold(s) \/ Refuse(s) \/ Admit(s)
    PROVE  Parts'
<1> USE DEF Parts, PassIsOpen, TurnTaken, MarkedFirst, RunIsOpen, AdmitsUnrecorded,
            At, Exists, Admitted, Terminal, PastAdmission, Goto, Deciding
<1>1. CASE NotAdmitted(s)
  BY <1>1 DEF NotAdmitted, SetPhase, TerminalPhases
<1>2. CASE Lost(s)
  BY <1>2 DEF TypeOK, Lost, SetPhase, JobStep
<1>3. CASE NotOwn(s)
  BY <1>3 DEF TypeOK, NotOwn, SetPhase, Own
<1>4. CASE Observe(s)
  <2>1. Admitted(s) /\ Exists(s) /\ At(s, "decide") /\ ~Terminal(s)
    BY <1>4 DEF Observe, JobStep
  <2>2. job' = job /\ born' = born /\ marker' = marker
        /\ pass' = [pass EXCEPT ![s].at = "idle"]
        /\ jobRef' = [jobRef EXCEPT ![s] = TRUE]
    BY <1>4 DEF Observe
  <2>3. \A o \in Switchover \ {s} : phase'[o] = phase[o]
    BY <1>4 DEF TypeOK, Observe, SetPhase
  <2>4. job[s] = "active" => phase'[s] = "Running"
    BY <1>4, <2>1 DEF TypeOK, Observe, SetPhase
  <2>5. \A o \in Switchover \ {s} : pass'[o] = pass[o] /\ jobRef'[o] = jobRef[o]
    BY <2>2 DEF TypeOK
  <2>6. pass'[s].at = "idle"
    BY <2>2 DEF TypeOK
  <2>7. PassIsOpen'
    BY <2>2, <2>3, <2>5, <2>6
  <2>8. TurnTaken'
    BY <2>1, <2>2, <2>3, <2>5, <2>6
  <2>9. MarkedFirst' /\ AdmitsUnrecorded'
    BY <2>1, <2>2, <2>5, <2>6
  <2>10. RunIsOpen'
    BY <2>2, <2>3, <2>4, <2>5, <2>6 DEF TerminalPhases
  <2>. QED BY <2>7, <2>8, <2>9, <2>10
<1>5. CASE Hold(s)
  BY <1>5 DEF Hold, SetPhase, TerminalPhases
<1>6. CASE Refuse(s)
  BY <1>6 DEF TypeOK, Refuse, SetPhase, JobStep
<1>7. CASE Admit(s)
  <2>1. \A o \in Switchover : Exists(o) /\ born[o] < born[s] => Terminal(o)
    BY <1>7 DEF TypeOK, Admit, Admission, Blocked, Before
  <2>2. ~jobRef[s] /\ job[s] # "active"
    BY <1>7 DEF Admit, JobStep
  <2>3. UNCHANGED <<born, phase, marker, jobRef, job>>
        /\ pass' = [pass EXCEPT ![s].at = "mark"]
    BY <1>7 DEF Admit, swVars
  <2>. QED BY <1>7, <2>1, <2>2, <2>3 DEF TypeOK, Admit
<1>. QED BY <1>1, <1>2, <1>3, <1>4, <1>5, <1>6, <1>7

\* The rest of a pass: it begins over what is open, and once it has admitted it
\* writes the marker, the Job and the reference in this order.
LEMMA PassKeepsParts ==
    ASSUME TypeOK, Parts, NEW s \in Switchover,
           \/ Look(s) \/ WriteMarker(s) \/ CreateJob(s) \/ JobNameTaken(s)
           \/ Conflict(s) \/ WriteRef(s) \/ PassFails(s)
    PROVE  Parts'
<1> USE DEF Parts, PassIsOpen, TurnTaken, MarkedFirst, RunIsOpen, AdmitsUnrecorded,
            At, Exists, Admitted, Terminal, PastAdmission, Goto
<1>1. CASE Look(s)
  BY <1>1 DEF Look, swVars
<1>2. CASE WriteMarker(s)
  BY <1>2 DEF TypeOK, WriteMarker, SetPhase, TerminalPhases
<1>3. CASE CreateJob(s)
  BY <1>3 DEF TypeOK, CreateJob, swVars
<1>4. CASE JobNameTaken(s)
  BY <1>4 DEF JobNameTaken, swVars
<1>5. CASE Conflict(s)
  BY <1>5 DEF TypeOK, Conflict, SetPhase, Own
<1>6. CASE WriteRef(s)
  BY <1>6 DEF WriteRef, SetPhase, TerminalPhases
<1>7. CASE PassFails(s)
  BY <1>7 DEF PassFails, swVars
<1>. QED BY <1>1, <1>2, <1>3, <1>4, <1>5, <1>6, <1>7

LEMMA PartsStep == TypeOK /\ Parts /\ [Next]_vars => Parts'
<1> SUFFICES ASSUME TypeOK, Parts, [Next]_vars PROVE Parts'
  OBVIOUS
<1>1. CASE RestoreEnds \/ VerdictRecorded \/ UNCHANGED vars
  BY <1>1 DEF RestoreEnds, VerdictRecorded, vars, swVars, Parts, PassIsOpen, TurnTaken,
              MarkedFirst, RunIsOpen, AdmitsUnrecorded, At, Exists, Admitted, Terminal,
              PastAdmission
<1>2. ASSUME NEW s \in Switchover, Environment(s) \/ Judge(s) PROVE Parts'
  BY <1>2, EnvironmentKeepsParts
<1>3. ASSUME NEW s \in Switchover, Reconcile(s) \/ PassFails(s) PROVE Parts'
  BY <1>3, DecisionKeepsParts, PassKeepsParts DEF Reconcile
<1>. QED BY <1>1, <1>2, <1>3 DEF Next

\* The invariant holds in every reachable state.
THEOREM InvariantHolds == Spec => []IInv
<1>1. IInv <=> TypeOK /\ Parts
  BY DEF IInv, Parts
<1>2. Init => IInv
  BY <1>1, TypeInit, PartsInit
<1>3. IInv /\ [Next]_vars => IInv'
  <2>1. TypeOK /\ Parts /\ [Next]_vars => TypeOK' /\ Parts'
    BY TypeStep, PartsStep
  <2>2. TypeOK' /\ Parts' => IInv'
    BY DEF IInv, Parts
  <2>. QED BY <1>1, <2>1, <2>2
<1>. QED BY <1>2, <1>3, PTL DEF Spec

-----------------------------------------------------------------------------
(***************************************************************************)
(* What follows from it                                                    *)
(***************************************************************************)

LEMMA RunsAreOfOneSecond ==
    ASSUME IInv, NEW s \in Switchover, NEW t \in Switchover,
           job[s] = "active", Admitted(t) \/ PastAdmission(t), ~Terminal(t)
    PROVE  born[s] = born[t]
<1>1. Exists(s) /\ Admitted(s) /\ ~Terminal(s) /\ Exists(t)
  BY DEF IInv, RunIsOpen, TurnTaken
<1>2. ~(born[s] < born[t]) /\ ~(born[t] < born[s])
  BY <1>1 DEF IInv, TurnTaken
<1>3. born[s] \in Nat /\ born[t] \in Nat
  BY DEF IInv, TypeOK
<1>. QED BY <1>2, <1>3

\* Two runs of one Restore are at work together only when their Switchovers
\* were created in the same second (admit, step 3).
THEOREM OneAtATime == Spec => []OneRunAtATime
<1>1. IInv => OneRunAtATime
  <2> SUFFICES ASSUME IInv, NEW s \in Switchover, NEW t \in Switchover,
                      job[s] = "active", job[t] = "active"
               PROVE  born[s] = born[t]
    BY DEF OneRunAtATime
  <2>1. Admitted(t) /\ ~Terminal(t)
    BY DEF IInv, RunIsOpen
  <2>. QED BY <2>1, RunsAreOfOneSecond
<1>. QED BY <1>1, InvariantHolds, PTL

\* A run whose Job was recorded never gets another one: a pass that admits has
\* read that nothing is recorded, and only that pass records.
THEOREM NoJobAfterRecordedHolds == Spec => NoJobAfterRecorded
<1>1. IInv /\ [Next]_vars => [\A s \in Switchover : jobRef[s] => created'[s] = created[s]]_vars
  <2> SUFFICES ASSUME IInv, [Next]_vars, NEW s \in Switchover, jobRef[s]
               PROVE  created'[s] = created[s]
    OBVIOUS
  <2>1. CASE \E t \in Switchover : CreateJob(t)
    <3>1. PICK t \in Switchover : CreateJob(t)
      BY <2>1
    <3>2. t # s
      BY <3>1 DEF IInv, AdmitsUnrecorded, CreateJob, At
    <3>. QED BY <3>1, <3>2 DEF IInv, TypeOK, CreateJob
  <2>2. CASE ~\E t \in Switchover : CreateJob(t)
    <3>1. UNCHANGED created
      BY <2>2 DEF Next, vars, RestoreEnds, VerdictRecorded, Environment, Create, Expire, JobEnds,
                  DeleteJob, PlantJob, RemovePlant, Judge, PassFails, Reconcile, Look, NotAdmitted,
                  Lost, NotOwn, Observe, Hold, Refuse, Admit, WriteMarker, JobNameTaken, Conflict,
                  WriteRef
    <3>. QED BY <3>1
  <2>. QED BY <2>1, <2>2
<1>. QED BY <1>1, InvariantHolds, PTL DEF Spec, NoJobAfterRecorded

-----------------------------------------------------------------------------
(***************************************************************************)
(* Every step is a step of SwitchoverTurns, or changes nothing of it       *)
(***************************************************************************)

Working == {s \in Switchover : job[s] = "active"}
Over    == {s \in Switchover : Terminal(s)}

\* A step that leaves the creation times, the phases and the runs alone.
LEMMA Unseen ==
    ASSUME born' = born, Working' = Working, Over' = Over PROVE UNCHANGED Turns!vars
BY DEF Turns!vars, Working, Over

LEMMA CreateAsks ==
    ASSUME IInv, NEW s \in Switchover, Create(s) PROVE Turns!Next
<1>1. PICK t \in 1..(Cardinality(Switchover)) :
        /\ \A o \in Switchover : born[o] <= t
        /\ born' = [born EXCEPT ![s] = t]
  BY DEF Create
<1>2. t \in Nat /\ t # 0 /\ born'[s] = t
  BY <1>1, SecondType DEF IInv, TypeOK
<1>3. Working' = Working /\ Over' = Over /\ born[s] = 0
  BY DEF Create, Working, Over, Terminal
<1>4. Turns!Ask(s)
  BY <1>1, <1>2, <1>3 DEF Turns!Ask, Working, Over
<1>. QED BY <1>4 DEF Turns!Next

LEMMA CreateJobStarts ==
    ASSUME IInv, NEW s \in Switchover, CreateJob(s) PROVE Turns!Next
<1>1. PastAdmission(s) /\ Exists(s) /\ ~Terminal(s) /\ job[s] = "none"
  BY DEF IInv, PassIsOpen, CreateJob, At, PastAdmission
<1>2. \A o \in Working : born[o] = born[s]
  BY <1>1, RunsAreOfOneSecond DEF Working
<1>3. \A o \in Switchover : born[o] # 0 /\ born[o] < born[s] => o \in Over
  BY <1>1 DEF IInv, TurnTaken, Exists, Over
<1>4. Working' = Working \cup {s} /\ Over' = Over /\ born' = born
  BY DEF IInv, TypeOK, CreateJob, swVars, Working, Over, Terminal
<1>5. Turns!Start(s)
  BY <1>1, <1>2, <1>3, <1>4 DEF Turns!Start, Exists, Working, Over
<1>. QED BY <1>5 DEF Turns!Next

\* A run ends, or its Job is deleted, by a stranger who takes its name or not.
LEMMA RunStops ==
    ASSUME IInv, NEW s \in Switchover, JobEnds(s) \/ DeleteJob(s) \/ PlantJob(s)
    PROVE  Turns!Next \/ UNCHANGED Turns!vars
<1>1. born' = born /\ Over' = Over
  BY DEF JobEnds, DeleteJob, PlantJob, swVars, Over, Terminal
<1>2. Working' = Working \ {s}
  BY DEF IInv, TypeOK, JobEnds, DeleteJob, PlantJob, Working
<1>3. CASE job[s] = "active"
  <2>1. Turns!Stop(s)
    BY <1>1, <1>2, <1>3 DEF Turns!Stop, Working, Over
  <2>. QED BY <2>1 DEF Turns!Next
<1>4. CASE job[s] # "active"
  BY <1>1, <1>2, <1>4, Unseen DEF Working
<1>. QED BY <1>3, <1>4

\* A phase is written: the Switchover is closed, by a pass that saw no run of
\* its at work, or stays open.
LEMMA PhaseCloses ==
    ASSUME IInv, NEW s \in Switchover, ~Terminal(s), born' = born, job' = job,
           \A o \in Switchover \ {s} : phase'[o] = phase[o],
           job[s] = "active" => ~Terminal(s)'
    PROVE  Turns!Next \/ UNCHANGED Turns!vars
<1>1. Working' = Working
  BY DEF Working
<1>2. CASE Terminal(s)'
  <2>1. Over' = Over \cup {s} /\ s \notin Over \cup Working
    BY <1>2 DEF Over, Working, Terminal
  <2>2. Turns!Close(s)
    BY <1>1, <2>1 DEF Turns!Close, Working, Over
  <2>. QED BY <2>2 DEF Turns!Next
<1>3. CASE ~Terminal(s)'
  <2>1. Over' = Over
    BY <1>3 DEF Over, Terminal
  <2>. QED BY <1>1, <2>1, Unseen
<1>. QED BY <1>2, <1>3

\* The steps of a pass that write a phase.
LEMMA PassCloses ==
    ASSUME IInv, NEW s \in Switchover,
           \/ NotAdmitted(s) \/ Lost(s) \/ NotOwn(s) \/ Observe(s) \/ Hold(s) \/ Refuse(s)
           \/ WriteMarker(s) \/ Conflict(s) \/ WriteRef(s)
    PROVE  Turns!Next \/ UNCHANGED Turns!vars
<1>1. ~At(s, "idle") /\ born' = born /\ job' = job
  BY DEF NotAdmitted, Lost, NotOwn, Observe, Hold, Refuse, WriteMarker, Conflict, WriteRef,
         Deciding, At
<1>2. ~Terminal(s)
  BY <1>1 DEF IInv, PassIsOpen
<1>3. \A o \in Switchover \ {s} : phase'[o] = phase[o]
  BY DEF IInv, TypeOK, SetPhase, NotAdmitted, Lost, NotOwn, Observe, Hold, Refuse,
         WriteMarker, Conflict, WriteRef
<1>4. IInv'
  BY TypeStep, PartsStep DEF IInv, Parts, Next, Reconcile
<1>5. job[s] = "active" => ~Terminal(s)'
  BY <1>1, <1>4 DEF IInv, RunIsOpen
<1>. QED BY <1>1, <1>2, <1>3, <1>5, PhaseCloses

LEMMA TurnsStep == IInv /\ [Next]_vars => [Turns!Next]_Turns!vars
<1> SUFFICES ASSUME IInv, [Next]_vars PROVE Turns!Next \/ UNCHANGED Turns!vars
  OBVIOUS
<1>1. CASE RestoreEnds \/ VerdictRecorded \/ UNCHANGED vars
  BY <1>1, Unseen DEF RestoreEnds, VerdictRecorded, vars, swVars, Working, Over, Terminal
<1>2. ASSUME NEW s \in Switchover, Environment(s) PROVE Turns!Next \/ UNCHANGED Turns!vars
  <2>1. CASE Expire(s)
    BY <2>1, Unseen DEF Expire, swVars, Working, Over, Terminal
  <2>2. CASE RemovePlant(s)
    BY <2>2, Unseen DEF IInv, TypeOK, RemovePlant, swVars, Working, Over, Terminal
  <2>. QED BY <1>2, <2>1, <2>2, CreateAsks, RunStops DEF Environment
<1>3. ASSUME NEW s \in Switchover, Judge(s) \/ PassFails(s)
      PROVE  Turns!Next \/ UNCHANGED Turns!vars
  BY <1>3, Unseen DEF Judge, PassFails, swVars, Working, Over, Terminal
<1>4. ASSUME NEW s \in Switchover, Look(s) \/ Admit(s) \/ JobNameTaken(s)
      PROVE  Turns!Next \/ UNCHANGED Turns!vars
  BY <1>4, Unseen DEF Look, Admit, JobNameTaken, swVars, Working, Over, Terminal
<1>. QED BY <1>1, <1>2, <1>3, <1>4, CreateJobStarts, PassCloses DEF Next, Reconcile

\* The reconciler implements SwitchoverTurns.
THEOREM TurnsRefinement == Spec => TurnsSpec
<1>1. Init => Turns!Init
  BY DEF Init, Turns!Init, Terminal, TerminalPhases
<1>. QED BY <1>1, TurnsStep, InvariantHolds, PTL DEF Spec, TurnsSpec, Turns!Spec
=============================================================================
