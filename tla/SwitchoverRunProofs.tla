------------------------- MODULE SwitchoverRunProofs -------------------------
(***************************************************************************)
(* The invariant of SwitchoverRunInv is inductive, for every plan, any     *)
(* number of runs and any number of lost answers and pods, and what        *)
(* follows from it: what a run records is what it did, the phase is true   *)
(* to it, and the calls of a run add up to the guarded steps of            *)
(* GuardedPositions.                                                       *)
(***************************************************************************)
EXTENDS SwitchoverRunInv, WellFoundedInduction, TLAPS

Below == {m \in Nat \X Nat : m[1] < m[2]}

\* The groups are numbered, so a run that has groups left is at one of them.
LEMMA CurrentLeft ==
    ASSUME todo \subseteq Group, todo # {}
    PROVE  Current \in todo
<1>1. todo \in SUBSET Nat
  BY RunAssumption DEF Group
<1>2. OpToRel(<, Nat) = Below
  BY DEF OpToRel, Below
<1>3. IsWellFoundedOn(Below, Nat)
  BY <1>2, NatLessThanWellFounded
<1>4. PICK g \in todo : \A h \in todo : <<h, g>> \notin Below
  BY <1>1, <1>3, WFMin, Zenon
<1>5. ASSUME NEW h \in todo PROVE g <= h
  <2>1. g \in Nat /\ h \in Nat /\ ~(h < g)
    BY <1>1, <1>4 DEF Below
  <2>. QED BY <2>1
<1>. QED BY <1>5 DEF Current, Min

-----------------------------------------------------------------------------
(* Types.                                                                  *)

LEMMA PlanIs == \A p : p \in Plans <=> DOMAIN p \in SUBSET Slot /\ p \in [DOMAIN p -> PlannedMoves]
BY DEF Plans

LEMMA RecordIs ==
  \A r : r \in Records <=>
    DOMAIN r \in SUBSET Slot /\ r \in [DOMAIN r -> [prior : Position, readback : Position]]
BY DEF Records

LEMMA PartialIs ==
  \A f : f \in Partial <=> DOMAIN f \in SUBSET Slot /\ f \in [DOMAIN f -> Position]
BY DEF Partial

LEMMA NothingYet == <<>> \in Records /\ <<>> \in Partial
<1>1. <<>> \in [{} -> Position] /\ <<>> \in [{} -> [prior : Position, readback : Position]]
  OBVIOUS
<1>2. {} \in SUBSET Slot
  OBVIOUS
<1>. QED BY <1>1, <1>2 DEF Records, Partial

LEMMA TypeInit == Init => TypeOK /\ Shapes
<1> SUFFICES ASSUME Init PROVE TypeOK /\ Shapes
  OBVIOUS
<1>1. FirstPlan \in Plans /\ DOMAIN FirstPlan = Slot
  BY RunAssumption DEF Plans, PlannedMoves, Position
<1>2. -1 \in Position
  BY RunAssumption DEF Position, None
<1>3. DOMAIN <<>> = {}
  OBVIOUS
<1>. QED BY <1>1, <1>2, <1>3, NothingYet, RunAssumption
        DEF Init, TypeOK, Shapes, Outcomes, Steps, NoExitCode, None

-----------------------------------------------------------------------------
(* What a step of a run does.                                              *)

\* The run is at a group of its plan.
LEMMA AtCurrent ==
    ASSUME TypeOK, Passes, NEW step, NEW g, AtGroup(step, g)
    PROVE  g \in todo /\ g \in Group /\ g \in PlanGroups /\ g = Current /\ point.step = step
BY CurrentLeft DEF TypeOK, Passes, AtGroup, At

LEMMA ConcludeType ==
    ASSUME TypeOK, NEW g, NEW w \in Outcomes, Conclude(g, w)
    PROVE  /\ outcome' \in [Group -> Outcomes] /\ todo' \subseteq Group
           /\ point' \in [step : Steps, answer : {"none", "ok", "active", "refused", "failed"}]
BY DEF TypeOK, Conclude, Goto, Steps

LEMMA AnswerType ==
    ASSUME TypeOK, NEW g, Unanswered(g)
    PROVE  /\ point' \in [step : Steps, answer : {"none", "ok", "active", "refused", "failed"}]
           /\ flight' \subseteq Group /\ sends' \in 0..Attempts
BY RunAssumption DEF TypeOK, Unanswered, Answer, Steps

LEMMA WriteType ==
    ASSUME TypeOK, Shapes, NEW S \in SUBSET DOMAIN plan, Write(S), Found(S)
    PROVE  at' \in [Slot -> Position] /\ landed' \in Partial
<1>1. DOMAIN plan \in SUBSET Slot /\ \A s \in S : plan[s].offset \in Position
  BY PlanIs, RunAssumption DEF Shapes, PlannedMoves, Position, None
<1>2. at' \in [Slot -> Position]
  BY <1>1 DEF TypeOK, Write
<1>3. DOMAIN landed \in SUBSET Slot /\ \A s \in DOMAIN landed : landed[s] \in Position
  BY PartialIs DEF Shapes
<1>4. landed' \in [DOMAIN landed \cup S -> Position]
  BY <1>1, <1>3 DEF TypeOK, Found
<1>. QED BY <1>1, <1>2, <1>3, <1>4 DEF Partial

LEMMA RollbackType ==
    ASSUME Shapes
    PROVE  RollbackPlan \in Plans
<1>1. Restorable \in SUBSET Slot
  BY RecordIs DEF Shapes, Restorable
<1>2. \A s \in Restorable : record[s].prior \in 0..MaxOffset /\ record[s].readback \in Position
  BY RecordIs, RunAssumption DEF Shapes, Restorable, Position, None
<1>3. RollbackPlan \in [Restorable -> PlannedMoves]
  BY <1>2 DEF RollbackPlan, PlannedMoves
<1>. QED BY <1>1, <1>3 DEF Plans

\* Every step keeps every variable in its set.
LEMMA SubmitType == IInv /\ Submit => TypeOK' /\ Shapes'
<1> SUFFICES ASSUME IInv, Submit PROVE TypeOK' /\ Shapes'
  OBVIOUS
<1>1. TypeOK /\ Shapes
  BY DEF IInv
<1>2. FirstPlan \in Plans
  BY RunAssumption DEF Plans, PlannedMoves, Position
<1>3. plan' \in Plans /\ asked' \subseteq Plans
  BY <1>1, <1>2, RollbackType DEF Submit, Shapes
<1>4. todo' \subseteq Group
  BY <1>3, PlanIs DEF Submit, Group
<1>5. TypeOK'
  BY <1>1, <1>3, <1>4, PlanIs, NothingYet, RecordIs
     DEF Submit, TypeOK, Outcomes, Goto, Steps, brokerVars, commitVars
<1>6. Shapes'
  BY <1>1, <1>3, NothingYet DEF Submit, Shapes
<1>. QED BY <1>5, <1>6

LEMMA ReadType ==
    ASSUME IInv, NEW g \in Group, ReadPriors(g)
    PROVE  TypeOK' /\ Shapes'
<1>1. TypeOK /\ Shapes
  BY DEF IInv
<1>2. Restrict(at, Planned(g)) \in Partial
  <2>1. Planned(g) \in SUBSET Slot
    BY <1>1 DEF TypeOK, Planned, SlotsOf
  <2>2. Restrict(at, Planned(g)) \in [Planned(g) -> Position]
    BY <1>1, <2>1 DEF TypeOK, Restrict
  <2>. QED BY <2>1, <2>2 DEF Partial
<1>3. prior' \in Partial
  BY <1>1, <1>2 DEF ReadPriors, Shapes
<1>4. TypeOK'
  <2>1. CASE \E w \in {"alreadyApplied", "refused"} : Conclude(g, w)
    <3>1. "alreadyApplied" \in Outcomes /\ "refused" \in Outcomes
      BY DEF Outcomes
    <3>. QED BY <1>1, <2>1, <3>1, ConcludeType
            DEF ReadPriors, TypeOK, brokerVars, commitVars, resultVars
  <2>2. CASE Goto("commit") /\ UNCHANGED <<todo, outcome>>
    BY <1>1, <2>2 DEF ReadPriors, TypeOK, brokerVars, commitVars, resultVars, Goto, Steps
  <2>. QED BY <2>1, <2>2 DEF ReadPriors
<1>5. Shapes'
  BY <1>1, <1>3 DEF ReadPriors, Shapes, resultVars, historyVars
<1>. QED BY <1>4, <1>5

LEMMA LandType ==
    ASSUME IInv, NEW g \in Group, Land(g) \/ LandInPart(g)
    PROVE  TypeOK' /\ Shapes'
<1>1. TypeOK /\ Shapes
  BY DEF IInv
<1>2. PICK S \in SUBSET Planned(g) : Write(S) /\ Found(S)
  BY DEF Land, LandInPart
<1>3. at' \in [Slot -> Position] /\ landed' \in Partial
  <2>1. S \in SUBSET DOMAIN plan
    BY <1>2 DEF Planned, SlotsOf
  <2>. QED BY <1>1, <1>2, <2>1, WriteType
<1>4. /\ point' \in [step : Steps, answer : {"none", "ok", "active", "refused", "failed"}]
      /\ flight' \subseteq Group /\ sends' \in 0..Attempts
  <2>1. CASE Unanswered(g)
    BY <1>1, <2>1, AnswerType
  <2>2. CASE \E w \in {"ok", "failed"} :
               Answer(w) /\ flight' = flight \ {g} /\ UNCHANGED sends
    BY <1>1, <2>2 DEF TypeOK, Answer, Steps
  <2>3. CASE flight' = flight \ {g} /\ UNCHANGED <<point, sends>>
    BY <1>1, <2>3 DEF TypeOK
  <2>. QED BY <2>1, <2>2, <2>3 DEF Land, LandInPart
<1>5. TypeOK'
  BY <1>1, <1>3, <1>4 DEF Land, LandInPart, TypeOK, runVarsButPoint, resultVars
<1>6. Shapes'
  BY <1>1, <1>3 DEF Land, LandInPart, Shapes, runVarsButPoint, resultVars
<1>. QED BY <1>5, <1>6

LEMMA ReadBackType ==
    ASSUME IInv, NEW g \in Group, ReadBack(g)
    PROVE  TypeOK' /\ Shapes'
<1>1. TypeOK /\ Shapes
  BY DEF IInv
<1>2. \E w \in Outcomes : Conclude(g, w)
  <2>1. {"applied", "failed", "refused"} \subseteq Outcomes
    BY DEF Outcomes
  <2>. QED BY <2>1 DEF ReadBack
<1>3. taken' \in Records
  <2>1. prior = [s \in Planned(g) |-> plan[s].expected]
    BY DEF IInv, PriorExpected, ReadBack
  <2>2. \A s \in Planned(g) : s \in Slot /\ prior[s] \in Position /\ at[s] \in Position
    BY <1>1, <2>1, PlanIs DEF TypeOK, Shapes, Planned, SlotsOf, PlannedMoves
  <2>3. DOMAIN taken \in SUBSET Slot
        /\ \A s \in DOMAIN taken : taken[s] \in [prior : Position, readback : Position]
    BY <1>1, RecordIs DEF Shapes
  <2>. DEFINE both == [s \in DOMAIN taken \cup Planned(g) |->
         IF s \in Planned(g) THEN [prior |-> prior[s], readback |-> at[s]] ELSE taken[s]]
  <2>4. both \in [DOMAIN taken \cup Planned(g) -> [prior : Position, readback : Position]]
    BY <2>2, <2>3
  <2>5. DOMAIN taken \cup Planned(g) \in SUBSET Slot
    BY <2>2, <2>3
  <2>6. both \in Records
    BY <2>4, <2>5 DEF Records
  <2>7. taken' = both \/ taken' = taken
    BY DEF ReadBack
  <2>. QED BY <1>1, <2>6, <2>7 DEF Shapes
<1>4. TypeOK'
  BY <1>1, <1>2, <1>3, ConcludeType, RecordIs
     DEF ReadBack, TypeOK, brokerVars, commitVars, resultVars
<1>5. Shapes'
  BY <1>1, <1>3, NothingYet DEF ReadBack, Shapes, resultVars, historyVars
<1>. QED BY <1>4, <1>5

LEMMA TypeStep == IInv /\ [Next]_vars => TypeOK' /\ Shapes'
<1> SUFFICES ASSUME IInv, [Next]_vars PROVE TypeOK' /\ Shapes'
  OBVIOUS
<1>1. TypeOK /\ Shapes
  BY DEF IInv
<1> USE DEF brokerVars, runVarsButPoint, runVars, commitVars, resultVars, historyVars
<1>2. CASE Submit
  BY <1>2, SubmitType
<1>3. CASE StopsEarly \/ Harvest \/ PodLost
  BY <1>1, <1>3, NothingYet
     DEF StopsEarly, Harvest, PodLost, StatusFromRun, TypeOK, Shapes, Goto, Steps, NoExitCode
<1>4. CASE WriteRecord
  BY <1>1, <1>4 DEF WriteRecord, TypeOK, Shapes, Goto, Steps
<1>5. ASSUME NEW s \in Slot, Progress(s) PROVE TypeOK' /\ Shapes'
  <2>1. 0 \in Position /\ (at[s] \in Position /\ at[s] < MaxOffset => at[s] + 1 \in Position)
    BY RunAssumption DEF Position, None
  <2>. QED BY <1>1, <1>5, <2>1 DEF Progress, TypeOK, Shapes
<1>6. ASSUME NEW g \in Group, Join(g) \/ Leave(g) PROVE TypeOK' /\ Shapes'
  BY <1>1, <1>6 DEF Join, Leave, TypeOK, Shapes
<1>7. ASSUME NEW g \in Group, Classify(g) \/ PriorsUnread(g) PROVE TypeOK' /\ Shapes'
  <2>1. CASE \E w \in {"refused", "failed"} : Conclude(g, w)
    <3>1. {"refused", "failed"} \subseteq Outcomes
      BY DEF Outcomes
    <3>. QED BY <1>1, <1>7, <2>1, <3>1, ConcludeType DEF Classify, PriorsUnread, TypeOK, Shapes
  <2>2. CASE Goto("priors") /\ UNCHANGED <<todo, outcome>>
    BY <1>1, <1>7, <2>2 DEF Classify, PriorsUnread, TypeOK, Shapes, Goto, Steps
  <2>. QED BY <1>7, <2>1, <2>2 DEF Classify, PriorsUnread
<1>8. ASSUME NEW g \in Group, ReadPriors(g) PROVE TypeOK' /\ Shapes'
  BY <1>8, ReadType
<1>9. ASSUME NEW g \in Group, Send(g) \/ CannotSend(g) PROVE TypeOK' /\ Shapes'
  BY <1>1, <1>9, RunAssumption DEF Send, CannotSend, TypeOK, Shapes, Goto, Answer, Steps
<1>10. ASSUME NEW g \in Group, Land(g) \/ LandInPart(g) PROVE TypeOK' /\ Shapes'
  BY <1>10, LandType
<1>11. ASSUME NEW g \in Group, RefuseCommit(g) \/ GiveUp(g) PROVE TypeOK' /\ Shapes'
  BY <1>1, <1>11 DEF RefuseCommit, GiveUp, TypeOK, Shapes, Answer, Steps
<1>12. ASSUME NEW g \in Group, LoseCommit(g) PROVE TypeOK' /\ Shapes'
  <2>1. CASE Unanswered(g)
    BY <1>1, <1>12, <2>1, AnswerType DEF LoseCommit, TypeOK, Shapes
  <2>2. CASE flight' = flight \ {g} /\ UNCHANGED <<point, sends, upsets>>
    BY <1>1, <1>12, <2>2 DEF LoseCommit, TypeOK, Shapes
  <2>. QED BY <1>12, <2>1, <2>2 DEF LoseCommit
<1>13. ASSUME NEW g \in Group, ReadBack(g) PROVE TypeOK' /\ Shapes'
  BY <1>13, ReadBackType
<1>14. CASE UNCHANGED vars
  BY <1>1, <1>14 DEF vars, TypeOK, Shapes
<1>. QED BY <1>2, <1>3, <1>4, <1>5, <1>6, <1>7, <1>8, <1>9, <1>10, <1>11, <1>12, <1>13, <1>14
        DEF Next

-----------------------------------------------------------------------------
(* What is left of the plan.                                               *)

\* A run concludes the group it is at: applied when its commit was accepted,
\* alreadyApplied before it commits.
Concluding(g) ==
  /\ \E step \in {"groups", "priors", "readback"} : AtGroup(step, g)
  /\ \E w \in Outcomes \ {"untouched"} :
       /\ Conclude(g, w)
       /\ w = "alreadyApplied" => At("priors")
       /\ IF w = "applied"
          THEN /\ At("readback") /\ point.answer = "ok"
               /\ taken' = [s \in DOMAIN taken \cup Planned(g) |->
                    IF s \in Planned(g) THEN [prior |-> prior[s], readback |-> at[s]] ELSE taken[s]]
          ELSE taken' = taken
  /\ UNCHANGED <<brokerVars, plan, commitVars, resultVars, historyVars>>

\* The run has read the positions of its group and goes on to commit.
Reading(g) ==
  /\ AtGroup("priors", g) /\ AsExpected(g)
  /\ prior' = Restrict(at, Planned(g))
  /\ Goto("commit")
  /\ UNCHANGED <<brokerVars, plan, todo, outcome, taken, commitVars, resultVars, historyVars>>

\* A step that neither begins nor ends a run, nor concludes or reads a group.
Between ==
  /\ UNCHANGED <<runVarsButPoint, resultVars, asked, runs>>
  /\ \/ point' = point
     \/ point.step = "groups" /\ point'.step = "priors"
     \/ point.step \in {"commit", "sent"} /\ point'.step \in {"sent", "readback"}

\* Every step begins a run, ends it, concludes or reads a group, or is none
\* of these.
LEMMA Sorted ==
    ASSUME IInv, [Next]_vars
    PROVE  \/ Submit \/ StopsEarly \/ WriteRecord \/ PodLost \/ Harvest
           \/ \E g \in Group : Concluding(g) \/ Reading(g)
           \/ Between
<1> USE DEF brokerVars, runVarsButPoint, runVars, commitVars, resultVars, historyVars
<1>1. \A g : Unanswered(g) => point' = point \/ (point.step = "sent" /\ point'.step = "readback")
  BY DEF Unanswered, Waiting, AtGroup, At, Answer
<1>2. ASSUME NEW g \in Group, Land(g) \/ LandInPart(g) \/ RefuseCommit(g) \/ LoseCommit(g) \/ GiveUp(g)
      PROVE  Between
  BY <1>1, <1>2 DEF Land, LandInPart, RefuseCommit, LoseCommit, GiveUp, Between, Answer, Waiting,
     AtGroup, At
<1>3. ASSUME NEW g \in Group, Send(g) \/ CannotSend(g) PROVE Between
  BY <1>3 DEF Send, CannotSend, Between, Goto, Answer, AtGroup, At
<1>4. {"applied", "alreadyApplied", "refused", "failed"} \subseteq Outcomes \ {"untouched"}
  BY DEF Outcomes
<1>5. ASSUME NEW g \in Group, Classify(g) PROVE Concluding(g) \/ Between
  <2>1. CASE \E w \in {"refused", "failed"} : Conclude(g, w)
    BY <1>4, <1>5, <2>1 DEF Classify, Concluding
  <2>2. CASE Goto("priors") /\ UNCHANGED <<todo, outcome>>
    BY <1>5, <2>2 DEF Classify, Between, Goto, AtGroup, At
  <2>. QED BY <1>5, <2>1, <2>2 DEF Classify
<1>6. ASSUME NEW g \in Group, ReadPriors(g) PROVE Concluding(g) \/ Reading(g)
  <2>1. CASE \E w \in {"alreadyApplied", "refused"} : Conclude(g, w)
    BY <1>4, <1>6, <2>1 DEF ReadPriors, Concluding, AtGroup
  <2>2. CASE AsExpected(g) /\ prior' = Restrict(at, Planned(g)) /\ Goto("commit")
             /\ UNCHANGED <<todo, outcome>>
    BY <1>6, <2>2 DEF ReadPriors, Reading
  <2>. QED BY <1>6, <2>1, <2>2 DEF ReadPriors
<1>7. ASSUME NEW g \in Group, PriorsUnread(g) PROVE Concluding(g)
  BY <1>4, <1>7 DEF PriorsUnread, Concluding
<1>8. ASSUME NEW g \in Group, ReadBack(g) PROVE Concluding(g)
  BY <1>4, <1>8 DEF ReadBack, Concluding, AtGroup
<1>9. ASSUME NEW g \in Group, Join(g) \/ Leave(g) PROVE Between
  BY <1>9 DEF Join, Leave, Between
<1>10. ASSUME NEW s \in Slot, Progress(s) PROVE Between
  BY <1>10 DEF Progress, Between
<1>11. CASE UNCHANGED vars
  BY <1>11 DEF vars, Between
<1>. QED BY <1>2, <1>3, <1>5, <1>6, <1>7, <1>8, <1>9, <1>10, <1>11 DEF Next

LEMMA PassesStep == IInv /\ [Next]_vars => Passes'
<1> SUFFICES ASSUME IInv, [Next]_vars PROVE Passes'
  OBVIOUS
<1>0. TypeOK /\ Passes
  BY DEF IInv
<1>1. CASE Submit
  <2>1. todo' = PlanGroups'
    BY <1>1 DEF Submit, PlanGroups
  <2>2. PlanGroups' \subseteq Group
    BY <2>1, TypeStep DEF TypeOK
  <2>. QED BY <1>1, <2>1, <2>2 DEF Submit, Goto, Passes, At
<1>2. CASE StopsEarly \/ WriteRecord \/ PodLost \/ Harvest
  BY <1>0, <1>2 DEF StopsEarly, WriteRecord, PodLost, Harvest, runVarsButPoint, Goto, Passes,
     PlanGroups, At
<1>3. ASSUME NEW g \in Group, Concluding(g) PROVE Passes'
  <2>1. PICK w \in Outcomes \ {"untouched"} : Conclude(g, w)
    BY <1>3 DEF Concluding
  <2>2. plan' = plan /\ PlanGroups' = PlanGroups /\ ~At("idle")
    BY <1>3 DEF Concluding, PlanGroups, AtGroup, At
  <2>3. \A h \in PlanGroups : outcome'[h] = "untouched" <=> h # g /\ outcome[h] = "untouched"
    <3>1. PlanGroups \subseteq Group
      BY <1>0, PlanIs DEF IInv, Shapes, PlanGroups, Group
    <3>. QED BY <1>0, <2>1, <3>1 DEF TypeOK, Conclude
  <2>. QED BY <1>0, <2>1, <2>2, <2>3 DEF Passes, Conclude, Goto, At
<1>4. CASE Between \/ \E g \in Group : Reading(g)
  BY <1>0, <1>4 DEF Between, Reading, runVarsButPoint, Passes, PlanGroups, Goto, AtGroup, At
<1>. QED BY <1>1, <1>2, <1>3, <1>4, Sorted

\* With no commit in flight, and none about to be sent, none is made.
LEMMA Still ==
    ASSUME IInv, [Next]_vars, ~Submit, flight = {}, ~At("commit")
    PROVE  flight' = {} /\ landed' = landed
<1> USE DEF brokerVars, runVarsButPoint, runVars, commitVars, resultVars, historyVars
<1>1. CASE StopsEarly \/ WriteRecord \/ PodLost \/ Harvest
  BY <1>1 DEF StopsEarly, WriteRecord, PodLost, Harvest
<1>2. CASE \E g \in Group : Concluding(g) \/ Reading(g)
  BY <1>2 DEF Concluding, Reading
<1>3. ASSUME NEW g \in Group, Land(g) \/ LandInPart(g) \/ RefuseCommit(g) \/ LoseCommit(g) \/ GiveUp(g)
      PROVE  flight' = {} /\ landed' = landed
  BY <1>3 DEF Land, LandInPart, RefuseCommit, LoseCommit, GiveUp
<1>4. ASSUME NEW g \in Group, Send(g) PROVE FALSE
  BY <1>4 DEF Send, AtGroup
<1>5. ASSUME NEW g \in Group,
             Classify(g) \/ ReadPriors(g) \/ PriorsUnread(g) \/ CannotSend(g) \/ ReadBack(g)
      PROVE  flight' = {} /\ landed' = landed
  BY <1>5 DEF Classify, ReadPriors, PriorsUnread, CannotSend, ReadBack
<1>6. CASE (\E g \in Group : Join(g) \/ Leave(g)) \/ (\E s \in Slot : Progress(s)) \/ UNCHANGED vars
  BY <1>6 DEF Join, Leave, Progress, vars
<1>. QED BY <1>1, <1>3, <1>4, <1>5, <1>6 DEF Next

LEMMA PlanAskedStep == IInv /\ [Next]_vars => PlanAsked'
<1> SUFFICES ASSUME IInv, [Next]_vars PROVE PlanAsked'
  OBVIOUS
<1>. USE DEF brokerVars, runVarsButPoint, runVars, commitVars, resultVars, historyVars
<1>1. CASE Submit
  BY <1>1 DEF Submit, PlanAsked
<1>2. ASSUME ~Submit PROVE UNCHANGED <<plan, asked>>
  BY <1>2, Sorted DEF StopsEarly, WriteRecord, PodLost, Harvest, Concluding, Reading, Between
<1>3. ASSUME plan \notin asked, ~Submit PROVE At("idle")' /\ flight' = {}
  <2>1. At("idle") /\ flight = {}
    BY <1>3 DEF IInv, PlanAsked
  <2>2. point' = point
    BY <1>3, <2>1, Sorted DEF StopsEarly, WriteRecord, PodLost, Harvest, Concluding, Reading,
       Between, AtGroup, At
  <2>. QED BY <1>3, <2>1, <2>2, Still DEF At
<1>. QED BY <1>1, <1>2, <1>3 DEF PlanAsked

-----------------------------------------------------------------------------
(* What the commits write.                                                 *)

\* A landed commit writes slots of its own group that it has not written yet,
\* and forgets nothing.
LEMMA Lands ==
    ASSUME NEW g \in Group, Land(g) \/ LandInPart(g)
    PROVE  /\ g \in flight /\ g \notin members
           /\ \E S \in SUBSET Planned(g) : Write(S) /\ Found(S)
           /\ flight' \subseteq flight
           /\ UNCHANGED <<members, runVarsButPoint, resultVars, asked, runs>>
BY DEF Land, LandInPart, Unanswered

\* Every other step of a run leaves the positions and what was written.
LEMMA LandsNot ==
    ASSUME IInv, [Next]_vars, ~Submit, \A g \in Group : ~(Land(g) \/ LandInPart(g))
    PROVE  /\ landed' = landed
           /\ \A g \in Group : g \in flight' \ flight => Send(g)
<1> USE DEF brokerVars, runVarsButPoint, runVars, commitVars, resultVars, historyVars
<1>1. CASE StopsEarly \/ WriteRecord \/ PodLost \/ Harvest
  BY <1>1 DEF StopsEarly, WriteRecord, PodLost, Harvest
<1>2. ASSUME NEW g \in Group, RefuseCommit(g) \/ LoseCommit(g) \/ GiveUp(g)
      PROVE  landed' = landed /\ flight' \subseteq flight
  BY <1>2 DEF RefuseCommit, LoseCommit, GiveUp, Unanswered
<1>3. ASSUME NEW g \in Group, Send(g) PROVE landed' = landed /\ flight' = flight \cup {g}
  BY <1>3 DEF Send
<1>4. ASSUME NEW g \in Group,
             Classify(g) \/ ReadPriors(g) \/ PriorsUnread(g) \/ CannotSend(g) \/ ReadBack(g)
      PROVE  landed' = landed /\ flight' = flight
  BY <1>4 DEF Classify, ReadPriors, PriorsUnread, CannotSend, ReadBack
<1>5. CASE (\E g \in Group : Join(g) \/ Leave(g)) \/ (\E s \in Slot : Progress(s)) \/ UNCHANGED vars
  BY <1>5 DEF Join, Leave, Progress, vars
<1>. QED BY <1>1, <1>2, <1>3, <1>4, <1>5 DEF Next

LEMMA PlanKept == ASSUME IInv, [Next]_vars, ~Submit PROVE plan' = plan
BY Sorted DEF StopsEarly, WriteRecord, PodLost, Harvest, Concluding, Reading, Between,
   runVarsButPoint

LEMMA LandedGrows ==
    ASSUME IInv, [Next]_vars, ~Submit
    PROVE  \A s \in DOMAIN landed : s \in DOMAIN landed' /\ landed'[s] = landed[s]
<1>1. ASSUME NEW g \in Group, Land(g) \/ LandInPart(g)
      PROVE  \A s \in DOMAIN landed : s \in DOMAIN landed' /\ landed'[s] = landed[s]
  BY <1>1, Lands DEF Found
<1>. QED BY <1>1, LandsNot

\* A group without a commit in flight stays unwritten unless one is sent.
LEMMA UnwrittenKept ==
    ASSUME IInv, [Next]_vars, ~Submit, NEW h \in Group, Unwritten(h), ~Send(h)
    PROVE  Unwritten(h)'
<1>1. plan' = plan
  BY PlanKept
<1>2. ASSUME NEW g \in Group, Land(g) \/ LandInPart(g) PROVE Unwritten(h)'
  <2>1. g # h
    BY <1>2, Lands DEF Unwritten
  <2>2. PICK S \in SUBSET Planned(g) : Found(S)
    BY <1>2, Lands
  <2>3. S \cap Planned(h) = {}
    BY <2>1 DEF Planned, SlotsOf
  <2>4. DOMAIN landed' = DOMAIN landed \cup S
    BY <2>2 DEF Found
  <2>. QED BY <1>1, <1>2, <2>3, <2>4, Lands DEF Unwritten, Planned, SlotsOf
<1>3. CASE \A g \in Group : ~(Land(g) \/ LandInPart(g))
  <2>1. landed' = landed /\ h \notin flight'
    BY <1>3, LandsNot DEF Unwritten
  <2>. QED BY <1>1, <2>1 DEF Unwritten, Planned, SlotsOf
<1>. QED BY <1>2, <1>3

LEMMA AheadStep == IInv /\ [Next]_vars => AheadUnwritten'
<1> SUFFICES ASSUME IInv, [Next]_vars PROVE AheadUnwritten'
  OBVIOUS
<1>0. TypeOK /\ Passes /\ AheadUnwritten
  BY DEF IInv
<1>1. CASE Submit
  BY <1>1 DEF Submit, AheadUnwritten, Unwritten, commitVars
<1>2. CASE StopsEarly \/ WriteRecord \/ PodLost \/ Harvest
  BY <1>2 DEF StopsEarly, WriteRecord, PodLost, Harvest, Goto, AheadUnwritten, Ahead
<1>3. ASSUME ~Submit, NEW h \in Group, Ahead(h)', Ahead(h) PROVE Unwritten(h)'
  <2>1. ~Send(h)
    <3>1. ASSUME Send(h) PROVE FALSE
      <4>1. h = Current /\ todo' = todo /\ point'.step = "sent"
        BY <3>1 DEF Send, AtGroup, Goto
      <4>2. h = Current'
        BY <4>1 DEF Current
      <4>. QED BY <1>3, <4>1, <4>2 DEF Ahead
    <3>. QED BY <3>1
  <2>. QED BY <1>0, <1>3, <2>1, UnwrittenKept DEF AheadUnwritten
<1>4. ASSUME NEW g \in Group, Concluding(g), NEW h \in Group, Ahead(h)' PROVE Ahead(h)
  <2>1. todo' = todo \ {g} /\ g = Current /\ point.step \in {"groups", "priors", "readback"}
    BY <1>4 DEF Concluding, Conclude, AtGroup, At
  <2>. QED BY <1>4, <2>1 DEF Ahead
<1>5. ASSUME Between \/ \E g \in Group : Reading(g), NEW h \in Group, Ahead(h)' PROVE Ahead(h)
  <2>1. todo' = todo /\ Current' = Current
    BY <1>5 DEF Between, Reading, runVarsButPoint, Current
  <2>2. CASE point' = point
    BY <1>5, <2>1, <2>2 DEF Ahead
  <2>3. CASE point.step \in {"groups", "priors"}
    BY <1>5, <2>1, <2>3 DEF Ahead
  <2>4. CASE point.step \in {"commit", "sent"} /\ point'.step \in {"sent", "readback"}
    BY <1>5, <2>1, <2>4 DEF Ahead
  <2>. QED BY <1>5, <2>2, <2>3, <2>4 DEF Between, Reading, AtGroup, At
<1>. QED BY <1>1, <1>2, <1>3, <1>4, <1>5, Sorted DEF AheadUnwritten

LEMMA FreshStep == IInv /\ [Next]_vars => FreshUnwritten'
<1> SUFFICES ASSUME IInv, [Next]_vars PROVE FreshUnwritten'
  OBVIOUS
<1>0. TypeOK /\ Passes /\ FreshUnwritten
  BY DEF IInv
<1>1. CASE Submit
  BY <1>1 DEF Submit, FreshUnwritten, commitVars
<1>2. CASE StopsEarly
  BY <1>0, <1>2 DEF StopsEarly, FreshUnwritten, PlanGroups, Goto, At, commitVars, historyVars
<1>3. CASE WriteRecord \/ PodLost \/ Harvest
  BY <1>0, <1>3 DEF WriteRecord, PodLost, Harvest, FreshUnwritten, Goto, At, commitVars,
     historyVars, runVarsButPoint, NoExitCode
<1>4. ASSUME NEW g \in Group, Concluding(g) PROVE FreshUnwritten'
  <2>1. g \in PlanGroups /\ todo' = todo \ {g} /\ PlanGroups' = PlanGroups
    BY <1>0, <1>4, AtCurrent DEF Concluding, Conclude, PlanGroups
  <2>2. exit' # 3
    BY <1>0, <1>4 DEF Concluding, FreshUnwritten, resultVars, AtGroup, At
  <2>. QED BY <2>1, <2>2 DEF FreshUnwritten
<1>5. ASSUME NEW g \in Group, Reading(g) PROVE FreshUnwritten'
  BY <1>0, <1>5 DEF Reading, FreshUnwritten, Goto, resultVars, AtGroup, At
<1>6. CASE Between
  <2>1. exit' = exit /\ todo' = todo /\ PlanGroups' = PlanGroups
    BY <1>6 DEF Between, resultVars, runVarsButPoint, PlanGroups
  <2>2. ~Submit
    BY <1>6 DEF Between, Submit, Goto, At
  <2>3. ASSUME At("groups")', todo' = PlanGroups' PROVE flight' = {} /\ landed' = landed /\ landed = <<>>
    <3>1. At("groups") /\ todo = PlanGroups
      BY <1>6, <2>1, <2>3 DEF Between, At
    <3>. QED BY <1>0, <2>2, <3>1, Still DEF FreshUnwritten, At
  <2>4. ASSUME exit' = 3
        PROVE  point' = point /\ point.step \in {"ended", "idle"}
               /\ flight' = {} /\ landed' = landed /\ landed = <<>>
    <3>1. point.step \in {"ended", "idle"} /\ flight = {} /\ landed = <<>>
      BY <1>0, <2>1, <2>4 DEF FreshUnwritten
    <3>. QED BY <1>6, <2>2, <3>1, Still DEF Between, At
  <2>. QED BY <2>3, <2>4 DEF FreshUnwritten
<1>. QED BY <1>1, <1>2, <1>3, <1>4, <1>5, <1>6, Sorted

-----------------------------------------------------------------------------
(* What the run holds, and what it finds.                                  *)

LEMMA PriorStep == IInv /\ [Next]_vars => PriorExpected'
<1> SUFFICES ASSUME IInv, [Next]_vars PROVE PriorExpected'
  OBVIOUS
<1>0. TypeOK /\ Shapes /\ Passes /\ PriorExpected
  BY DEF IInv
<1>1. CASE Submit \/ StopsEarly \/ WriteRecord \/ PodLost \/ Harvest
  BY <1>1 DEF Submit, StopsEarly, WriteRecord, PodLost, Harvest, Goto, PriorExpected, AtGroup, At
<1>2. ASSUME NEW g \in Group, Concluding(g) PROVE PriorExpected'
  BY <1>2 DEF Concluding, Conclude, Goto, PriorExpected, AtGroup, At
<1>3. ASSUME NEW g \in Group, Reading(g) PROVE PriorExpected'
  <2>1. plan' = plan /\ Current' = Current /\ g = Current
    BY <1>3 DEF Reading, AtGroup, Current
  <2>2. Planned(g) \subseteq Slot
    BY <1>0, PlanIs DEF Shapes, Planned, SlotsOf
  <2>3. prior' = [s \in Planned(g) |-> plan[s].expected]
    BY <1>3, <2>2 DEF Reading, AsExpected, Restrict
  <2>. QED BY <2>1, <2>3 DEF PriorExpected, AtGroup, Planned, SlotsOf
<1>4. CASE Between
  <2>1. UNCHANGED <<plan, todo, prior>> /\ Current' = Current
    BY <1>4 DEF Between, runVarsButPoint, Current
  <2>2. ASSUME NEW g \in Group,
               AtGroup("commit", g)' \/ AtGroup("sent", g)' \/ AtGroup("readback", g)'
        PROVE  AtGroup("commit", g) \/ AtGroup("sent", g) \/ AtGroup("readback", g)
    BY <1>4, <2>1, <2>2 DEF Between, AtGroup, At
  <2>. QED BY <1>0, <2>1, <2>2 DEF PriorExpected, Planned, SlotsOf
<1>. QED BY <1>1, <1>2, <1>3, <1>4, Sorted

LEMMA LandedStep == IInv /\ [Next]_vars => LandedExpected'
<1> SUFFICES ASSUME IInv, [Next]_vars PROVE LandedExpected'
  OBVIOUS
<1>0. TypeOK /\ Shapes /\ LandedExpected /\ WindowHolds
  BY DEF IInv
<1>1. CASE Submit
  BY <1>1 DEF Submit, LandedExpected
<1>2. ASSUME NEW g \in Group, Land(g) \/ LandInPart(g) PROVE LandedExpected'
  <2>1. PICK S \in SUBSET Planned(g) : Found(S)
    BY <1>2, Lands
  <2>2. plan' = plan /\ InWindow(g) /\ g \notin members
    BY <1>2, Lands DEF InWindow, runVarsButPoint
  <2>3. S \subseteq DOMAIN plan
    BY <2>1 DEF Planned, SlotsOf
  <2>4. ASSUME Undisturbed, NEW s \in S \ DOMAIN landed PROVE at[s] = plan[s].expected
    <3>1. s \in Planned(g)
      BY <2>1
    <3>. QED BY <1>0, <2>2, <2>4, <3>1 DEF WindowHolds
  <2>. QED BY <1>0, <2>1, <2>2, <2>3, <2>4 DEF Found, LandedExpected
<1>3. CASE ~Submit /\ \A g \in Group : ~(Land(g) \/ LandInPart(g))
  BY <1>0, <1>3, LandsNot, PlanKept DEF LandedExpected
<1>. QED BY <1>1, <1>2, <1>3

\* No commit is in flight for the group a run is about to commit to.
LEMMA NotYetSent ==
    ASSUME IInv, NEW g \in Group, AtGroup("commit", g)
    PROVE  g \notin flight
<1>1. g \in todo
  BY AtCurrent DEF IInv
<1>2. Ahead(g)
  BY <1>1 DEF Ahead, AtGroup, At
<1>. QED BY <1>2 DEF IInv, AheadUnwritten, Unwritten

LEMMA WindowLand ==
    ASSUME IInv, Undisturbed, NEW g \in Group, Land(g) \/ LandInPart(g)
    PROVE  WindowHolds'
<1>0. TypeOK /\ Shapes /\ WindowHolds
  BY DEF IInv
<1>1. PICK S \in SUBSET Planned(g) : Write(S) /\ Found(S)
  BY Lands
<1>2. UNCHANGED <<plan, todo, members>> /\ Current' = Current /\ g \in flight /\ flight' \subseteq flight
  BY Lands DEF runVarsButPoint, Current
<1>3. Planned(g) \subseteq Slot
  BY <1>0, PlanIs DEF Shapes, Planned, SlotsOf
<1>4. \A h \in Group : AtGroup("commit", h)' => AtGroup("commit", h)
  BY <1>2 DEF Land, LandInPart, Unanswered, Answer, Waiting, AtGroup, At
<1>5. ASSUME NEW h \in Group \ {g}, InWindow(h)', h \notin members'
      PROVE  \/ \A s \in Planned(h)' : at'[s] = plan'[s].expected
             \/ \A s \in Planned(h)' : at'[s] = plan'[s].offset /\ s \in DOMAIN landed'
  <2>1. InWindow(h) /\ h \notin members
    BY <1>2, <1>4, <1>5 DEF InWindow
  <2>2. \A s \in Planned(h) : s \notin S /\ s \in Slot
    BY <1>0, <1>1, PlanIs DEF Shapes, Planned, SlotsOf
  <2>3. \A s \in Planned(h) : at'[s] = at[s] /\ (s \in DOMAIN landed => s \in DOMAIN landed')
    BY <1>1, <2>2 DEF Write, Found
  <2>4. Planned(h)' = Planned(h)
    BY <1>2 DEF Planned, SlotsOf
  <2>. QED BY <1>0, <1>2, <2>1, <2>3, <2>4 DEF WindowHolds
<1>6. ASSUME InWindow(g)'
      PROVE  \A s \in Planned(g)' : at'[s] = plan'[s].offset /\ s \in DOMAIN landed'
  <2>1. ~AtGroup("commit", g)'
    BY <1>2, <1>4, NotYetSent
  <2>2. g \in flight'
    BY <1>6, <2>1 DEF InWindow
  <2>3. Land(g)
    BY <2>2 DEF LandInPart
  <2>4. Write(Planned(g)) /\ Found(Planned(g))
    BY <2>3 DEF Land
  <2>5. Planned(g)' = Planned(g)
    BY <1>2 DEF Planned, SlotsOf
  <2>. QED BY <1>2, <1>3, <2>4, <2>5 DEF Write, Found
<1>. QED BY <1>5, <1>6 DEF WindowHolds

LEMMA WindowStep == IInv /\ [Next]_vars => WindowHolds'
<1> SUFFICES ASSUME IInv, [Next]_vars, Undisturbed PROVE WindowHolds'
  BY DEF WindowHolds
<1> USE DEF brokerVars, runVarsButPoint, runVars, commitVars, resultVars, historyVars
<1>0. TypeOK /\ Shapes /\ WindowHolds
  BY DEF IInv
<1>1. ASSUME NEW g \in Group, Land(g) \/ LandInPart(g) PROVE WindowHolds'
  BY <1>1, WindowLand
<1>2. ASSUME UNCHANGED <<at, members, plan, landed>>, \A h \in Group : InWindow(h)' => InWindow(h)
      PROVE  WindowHolds'
  <2>1. \A h : Planned(h)' = Planned(h)
    BY <1>2 DEF Planned, SlotsOf
  <2>. QED BY <1>0, <1>2, <2>1 DEF WindowHolds
<1>3. CASE Submit
  BY <1>3 DEF Submit, WindowHolds, InWindow, AtGroup, At, Goto
<1>4. CASE StopsEarly \/ WriteRecord \/ PodLost \/ Harvest
  BY <1>2, <1>4 DEF StopsEarly, WriteRecord, PodLost, Harvest, InWindow, AtGroup, At, Goto
<1>5. ASSUME NEW g \in Group, Reading(g) PROVE WindowHolds'
  <2>1. Current' = Current /\ \A h : Planned(h)' = Planned(h)
    BY <1>5 DEF Reading, Current, Planned, SlotsOf
  <2>2. \A h \in Group \ {g} : InWindow(h)' => InWindow(h)
    BY <1>5, <2>1 DEF Reading, InWindow, AtGroup
  <2>. QED BY <1>0, <1>5, <2>1, <2>2 DEF Reading, AsExpected, WindowHolds
<1>6. ASSUME NEW g \in Group, Send(g) \/ CannotSend(g) PROVE WindowHolds'
  BY <1>2, <1>6 DEF Send, CannotSend, InWindow, AtGroup, At, Goto, Answer
<1>7. ASSUME NEW g \in Group, RefuseCommit(g) \/ LoseCommit(g) \/ GiveUp(g) PROVE WindowHolds'
  <2>1. Current' = Current
    BY <1>7 DEF RefuseCommit, LoseCommit, GiveUp, Current
  <2>. QED BY <1>2, <1>7, <2>1 DEF RefuseCommit, LoseCommit, GiveUp, Unanswered, Waiting, InWindow,
           AtGroup, At, Answer
<1>8. ASSUME NEW g \in Group, Join(g) \/ Leave(g) PROVE WindowHolds'
  <2>1. UNCHANGED <<at, plan, landed>> /\ \A h : Planned(h)' = Planned(h) /\ InWindow(h)' = InWindow(h)
    BY <1>8 DEF Join, Leave, Planned, SlotsOf, InWindow, AtGroup, At, Current
  <2>2. \A h \in Group : InWindow(h) /\ h \notin members' => h \notin members
    BY <1>8 DEF Join, Leave
  <2>. QED BY <1>0, <2>1, <2>2 DEF WindowHolds
<1>9. ASSUME NEW s \in Slot, Progress(s) PROVE WindowHolds'
  <2>1. /\ UNCHANGED <<members, plan, landed>> /\ s[1] \in members
        /\ \A h : Planned(h)' = Planned(h) /\ InWindow(h)' = InWindow(h)
    BY <1>9 DEF Progress, Planned, SlotsOf, InWindow, AtGroup, At, Current
  <2>2. \A h \in Group \ members : \A p \in Planned(h) : at'[p] = at[p]
    BY <1>0, <1>9, <2>1, PlanIs DEF TypeOK, Shapes, Progress, Planned, SlotsOf
  <2>. QED BY <1>0, <2>1, <2>2 DEF WindowHolds
<1>10. ASSUME NEW g \in Group, Classify(g) PROVE WindowHolds'
  BY <1>2, <1>10 DEF Classify, Conclude, InWindow, AtGroup, At, Goto
<1>11. CASE UNCHANGED vars
  BY <1>2, <1>11 DEF vars, InWindow, AtGroup, At, Current
<1>12. ASSUME NEW g \in Group, ReadPriors(g) PROVE WindowHolds'
  <2>1. CASE \E w \in {"alreadyApplied", "refused"} : Conclude(g, w)
    BY <1>2, <1>12, <2>1 DEF ReadPriors, Conclude, InWindow, AtGroup, At, Goto
  <2>2. CASE AsExpected(g) /\ prior' = Restrict(at, Planned(g)) /\ Goto("commit")
             /\ UNCHANGED <<todo, outcome>>
    BY <1>5, <1>12, <2>2 DEF ReadPriors, Reading
  <2>. QED BY <1>12, <2>1, <2>2 DEF ReadPriors
<1>13. ASSUME NEW g \in Group, PriorsUnread(g) \/ ReadBack(g) PROVE WindowHolds'
  BY <1>2, <1>13 DEF PriorsUnread, ReadBack, Conclude, InWindow, AtGroup, At, Goto
<1>. QED BY <1>1, <1>3, <1>4, <1>6, <1>7, <1>8, <1>9, <1>10, <1>11, <1>12, <1>13 DEF Next

-----------------------------------------------------------------------------
(* What the run concludes.                                                 *)

LEMMA AnswerStep == IInv /\ [Next]_vars => AnswerTrue'
<1> SUFFICES ASSUME IInv, [Next]_vars PROVE AnswerTrue'
  OBVIOUS
<1>0. TypeOK /\ AnswerTrue
  BY DEF IInv
<1>1. CASE Submit \/ StopsEarly \/ WriteRecord \/ PodLost \/ Harvest
  BY <1>1 DEF Submit, StopsEarly, WriteRecord, PodLost, Harvest, Goto, AnswerTrue
<1>2. CASE \E g \in Group : Concluding(g) \/ Reading(g)
  BY <1>2 DEF Concluding, Conclude, Reading, Goto, AnswerTrue
<1>3. ASSUME Between, UNCHANGED point \/ point'.answer # "ok" PROVE AnswerTrue'
  <2>1. UNCHANGED <<plan, todo>> /\ Current' = Current /\ \A g : Planned(g)' = Planned(g)
    BY <1>3 DEF Between, runVarsButPoint, Current, Planned, SlotsOf
  <2>2. ~Submit
    BY <1>3 DEF Between, Submit, Goto, At
  <2>3. DOMAIN landed \subseteq DOMAIN landed'
    BY <2>2, LandedGrows
  <2>. QED BY <1>0, <1>3, <2>1, <2>3 DEF AnswerTrue, AtGroup, At
<1>4. ASSUME Between, ~UNCHANGED point, point'.answer = "ok" PROVE AnswerTrue'
  <2>1. PICK g \in Group : Land(g) /\ Waiting(g)
    <3>1. ~Submit /\ ~Harvest /\ \A g \in Group : ~ReadPriors(g) /\ ~ReadBack(g) /\ ~PriorsUnread(g)
      BY <1>4 DEF Submit, Harvest, ReadPriors, ReadBack, PriorsUnread, Conclude, Goto, At
    <3>. QED BY <1>4, <3>1 DEF Next, vars, StopsEarly, WriteRecord, PodLost, Progress, Join, Leave,
             Classify, Conclude, Send, CannotSend, Land, LandInPart, RefuseCommit, LoseCommit,
             GiveUp, Unanswered, Goto, Answer, runVars
  <2>2. Found(Planned(g)) /\ g = Current
    BY <2>1 DEF Land, Waiting, AtGroup
  <2>3. UNCHANGED <<plan, todo>> /\ Current' = Current /\ Planned(g)' = Planned(g)
    BY <1>4 DEF Between, runVarsButPoint, Current, Planned, SlotsOf
  <2>4. Planned(g) \subseteq DOMAIN landed'
    BY <2>2 DEF Found
  <2>. QED BY <2>2, <2>3, <2>4 DEF AnswerTrue, AtGroup
<1>. QED BY <1>1, <1>2, <1>3, <1>4, Sorted

\* The outcome of a group that is not concluded in a step stays true.
LEMMA OutcomeKept ==
    ASSUME IInv, [Next]_vars, ~Submit, NEW h \in PlanGroups, outcome'[h] = outcome[h],
           \A s \in Planned(h) \cap DOMAIN taken : s \in DOMAIN taken' /\ taken'[s] = taken[s]
    PROVE  /\ outcome'[h] = "applied" => \A s \in Planned(h) :
                s \in DOMAIN landed' /\ s \in DOMAIN taken' /\ taken'[s].prior = plan[s].expected
           /\ outcome'[h] = "alreadyApplied" => Unwritten(h)'
<1>1. h \in Group
  BY PlanIs DEF IInv, Shapes, PlanGroups, Group
<1>2. outcome[h] = "alreadyApplied" => Unwritten(h) /\ ~Send(h)
  <2>1. Send(h) => h \in todo /\ ~At("idle")
    BY AtCurrent DEF IInv, Send, AtGroup, At
  <2>. QED BY <2>1 DEF IInv, OutcomeTrue, Passes
<1>3. outcome[h] = "alreadyApplied" => Unwritten(h)'
  BY <1>1, <1>2, UnwrittenKept
<1>. QED BY <1>3, LandedGrows DEF IInv, OutcomeTrue

LEMMA OutcomeConcluded ==
    ASSUME IInv, [Next]_vars, ~Submit, NEW g \in Group, Concluding(g)
    PROVE  OutcomeTrue'
<1>0. TypeOK /\ Shapes /\ Passes
  BY DEF IInv
<1>1. PICK w \in Outcomes \ {"untouched"} :
        /\ Conclude(g, w)
        /\ w = "alreadyApplied" => At("priors")
        /\ IF w = "applied"
           THEN /\ At("readback") /\ point.answer = "ok"
                /\ taken' = [s \in DOMAIN taken \cup Planned(g) |->
                     IF s \in Planned(g) THEN [prior |-> prior[s], readback |-> at[s]] ELSE taken[s]]
           ELSE taken' = taken
  BY DEF Concluding
<1>2. UNCHANGED <<plan, flight, landed>> /\ PlanGroups' = PlanGroups
      /\ \A h : Planned(h)' = Planned(h) /\ Unwritten(h)' = Unwritten(h)
  BY DEF Concluding, commitVars, historyVars, PlanGroups, Planned, SlotsOf, Unwritten
<1>3. g \in PlanGroups /\ g \in todo /\ \E step \in {"groups", "priors", "readback"} : AtGroup(step, g)
  BY <1>0, AtCurrent DEF Concluding
<1>4. outcome'[g] = w
  BY <1>0, <1>1 DEF TypeOK, Conclude
<1>5. w = "alreadyApplied" => Unwritten(g)
  <2>1. At("priors") => Ahead(g)
    BY <1>3 DEF Ahead, At
  <2>. QED BY <1>1, <2>1 DEF IInv, AheadUnwritten
<1>6. ASSUME w = "applied", NEW s \in Planned(g)
      PROVE  s \in DOMAIN landed /\ s \in DOMAIN taken' /\ taken'[s].prior = plan[s].expected
  <2>1. AtGroup("readback", g) /\ point.answer = "ok"
    BY <1>1, <1>3, <1>6 DEF AtGroup
  <2>2. s \in DOMAIN landed /\ prior[s] = plan[s].expected
    BY <1>6, <2>1 DEF IInv, AnswerTrue, PriorExpected
  <2>. QED BY <1>1, <1>6, <2>2
<1>7. ASSUME NEW h \in PlanGroups \ {g}
      PROVE  /\ outcome'[h] = "applied" => \A s \in Planned(h) :
                  s \in DOMAIN landed' /\ s \in DOMAIN taken' /\ taken'[s].prior = plan[s].expected
             /\ outcome'[h] = "alreadyApplied" => Unwritten(h)'
  <2>1. outcome'[h] = outcome[h]
    BY <1>0, <1>1 DEF TypeOK, Conclude
  <2>2. \A s \in Planned(h) : s \notin Planned(g)
    BY DEF Planned, SlotsOf
  <2>3. \A s \in Planned(h) \cap DOMAIN taken : s \in DOMAIN taken' /\ taken'[s] = taken[s]
    BY <1>1, <2>2
  <2>. QED BY <2>1, <2>3, OutcomeKept
<1>. QED BY <1>2, <1>4, <1>5, <1>6, <1>7 DEF OutcomeTrue

LEMMA OutcomeStep == IInv /\ [Next]_vars => OutcomeTrue'
<1> SUFFICES ASSUME IInv, [Next]_vars PROVE OutcomeTrue'
  OBVIOUS
<1>1. CASE Submit
  <2>1. PlanGroups' \subseteq Group
    BY TypeStep, PlanIs DEF Shapes, PlanGroups, Group
  <2>. QED BY <1>1, <2>1 DEF Submit, OutcomeTrue
<1>2. ASSUME ~Submit, NEW g \in Group, Concluding(g) PROVE OutcomeTrue'
  BY <1>2, OutcomeConcluded
<1>3. ASSUME ~Submit, StopsEarly \/ WriteRecord \/ PodLost \/ Harvest \/ Between
                      \/ \E g \in Group : Reading(g)
      PROVE  OutcomeTrue'
  <2>1. UNCHANGED <<plan, outcome, taken>>
    BY <1>3 DEF StopsEarly, WriteRecord, PodLost, Harvest, Between, Reading, runVarsButPoint
  <2>2. PlanGroups' = PlanGroups /\ \A h : Planned(h)' = Planned(h)
    BY <2>1 DEF PlanGroups, Planned, SlotsOf
  <2>. QED BY <1>3, <2>1, <2>2, OutcomeKept DEF OutcomeTrue
<1>. QED BY <1>1, <1>2, <1>3, Sorted

LEMMA PhaseStep == IInv /\ [Next]_vars => PhaseLast'
<1> SUFFICES ASSUME IInv, [Next]_vars PROVE PhaseLast'
  OBVIOUS
<1>0. TypeOK /\ Passes /\ PhaseLast
  BY DEF IInv
<1>1. CASE Submit
  BY <1>1 DEF Submit, PhaseLast, Goto, At
<1>2. CASE StopsEarly \/ PodLost
  BY <1>0, <1>2 DEF StopsEarly, PodLost, PhaseLast, Goto, At, NoExitCode
<1>3. CASE WriteRecord
  <2>1. PlanGroups' = PlanGroups /\ Done' = Done /\ phase' = "Running"
    BY <1>0, <1>3 DEF WriteRecord, PhaseLast, PlanGroups, Done, At
  <2>2. exit' = 0 => Done = PlanGroups
    BY <1>3 DEF WriteRecord, RunOutcome
  <2>. QED BY <2>1, <2>2 DEF PhaseLast
<1>4. CASE Harvest
  <2>1. PlanGroups' = PlanGroups /\ Done' = Done /\ At("idle")' /\ At("ended")
    BY <1>4 DEF Harvest, runVarsButPoint, PlanGroups, Done, Goto, At
  <2>2. PICK word \in {RunOutcome, "unread"} : phase' = StatusFromRun(exit, word)
    BY <1>4 DEF Harvest
  <2>3. phase' = "Succeeded" => exit = 0
    BY <2>2 DEF StatusFromRun
  <2>4. phase' = "PartiallyApplied" => Done # {} /\ Done # PlanGroups
    BY <2>2 DEF StatusFromRun, RunOutcome
  <2>. QED BY <1>0, <2>1, <2>3, <2>4 DEF PhaseLast, At
<1>5. CASE \E g \in Group : Concluding(g) \/ Reading(g)
  BY <1>0, <1>5 DEF Concluding, Conclude, Reading, Goto, AtGroup, At, resultVars, PhaseLast
<1>6. CASE Between
  <2>1. UNCHANGED <<plan, outcome, exit, phase>> /\ PlanGroups' = PlanGroups /\ Done' = Done
    BY <1>6 DEF Between, runVarsButPoint, resultVars, PlanGroups, Done
  <2>. QED BY <1>0, <1>6, <2>1 DEF Between, PhaseLast, At
<1>. QED BY <1>1, <1>2, <1>3, <1>4, <1>5, <1>6, Sorted

-----------------------------------------------------------------------------
(* The results.                                                            *)

LEMMA InitHolds == Init => IInv
<1> SUFFICES ASSUME Init PROVE IInv
  OBVIOUS
<1>1. TypeOK /\ Shapes
  BY TypeInit
<1>2. DOMAIN landed = {} /\ todo = {} /\ flight = {} /\ At("idle") /\ phase = "Running" /\ exit = 0
  BY DEF Init, At
<1>3. PlanGroups \subseteq Group
  BY <1>1, PlanIs DEF Shapes, PlanGroups, Group
<1>4. Passes /\ PlanAsked /\ AheadUnwritten /\ FreshUnwritten /\ PhaseLast
  BY <1>2 DEF Passes, PlanAsked, AheadUnwritten, Ahead, FreshUnwritten, PhaseLast, At
<1>5. PriorExpected /\ LandedExpected /\ WindowHolds /\ AnswerTrue
  BY <1>2 DEF PriorExpected, LandedExpected, WindowHolds, InWindow, AnswerTrue, AtGroup
<1>6. OutcomeTrue
  BY <1>3 DEF Init, OutcomeTrue
<1>. QED BY <1>1, <1>4, <1>5, <1>6 DEF IInv

LEMMA InvariantStep == IInv /\ [Next]_vars => IInv'
BY TypeStep, PassesStep, PlanAskedStep, AheadStep, FreshStep, PriorStep, LandedStep, WindowStep,
   AnswerStep, OutcomeStep, PhaseStep DEF IInv

\* The invariant holds throughout every behaviour.
THEOREM Invariance == Spec => []IInv
BY InitHolds, InvariantStep, PTL DEF Spec

\* What a run knows of its groups, the broker's positions and the commits on their way are
\* well typed, whatever plan is made of whatever record (switchover/mod.rs).
THEOREM TypeCorrect == Spec => []TypeOK
<1>1. IInv => TypeOK
  BY DEF IInv
<1>. QED BY <1>1, Invariance, PTL

\* What a run is about to record is what it did (switchover/apply.rs, apply_group):
\* a group it calls applied it wrote wholly over the positions it names as prior, one it
\* calls alreadyApplied or untouched it did not write.
THEOREM RecordIsTrue == Undisturbed => (Spec => []RecordTrue)
<1> SUFFICES ASSUME Undisturbed PROVE Spec => []RecordTrue
  OBVIOUS
<1>1. IInv => RecordTrue
  BY DEF IInv, Passes, OutcomeTrue, LandedExpected, Unwritten, RecordTrue, At
<1>. QED BY <1>1, Invariance, PTL

\* The phase that the controller reads from the exit and the log of a run claims no more
\* than was done (controllers/switchover.rs, status_from_run).
THEOREM PhaseIsTrue == Spec => []PhaseTrue
<1>1. IInv => PhaseTrue
  <2> SUFFICES ASSUME IInv PROVE PhaseTrue
    OBVIOUS
  <2>1. ASSUME phase = "Succeeded", NEW s \in DOMAIN plan
        PROVE  s \in DOMAIN landed \/ outcome[s[1]] = "alreadyApplied"
    <3>1. s[1] \in PlanGroups /\ s \in Planned(s[1])
      BY DEF PlanGroups, Planned, SlotsOf
    <3>. QED BY <2>1, <3>1 DEF IInv, PhaseLast, OutcomeTrue, Done
  <2>. QED BY <2>1 DEF IInv, PhaseLast, FreshUnwritten, PhaseTrue
<1>. QED BY <1>1, Invariance, PTL

-----------------------------------------------------------------------------
(* Refinement.                                                             *)

\* A commit that lands is a guarded step of its group, or repeats one.
LEMMA LandGuarded ==
    ASSUME IInv, Undisturbed, NEW g \in Group, Land(g) \/ LandInPart(g)
    PROVE  (\E p \in asked : Guarded!Apply(p, g)) \/ UNCHANGED Guarded!vars
<1>0. TypeOK /\ Shapes /\ WindowHolds
  BY DEF IInv
<1>1. PICK S \in SUBSET Planned(g) : Write(S)
  BY Lands
<1>2. g \in flight /\ g \notin members /\ UNCHANGED <<members, asked>>
  BY Lands DEF resultVars
<1>3. plan \in asked
  BY <1>2 DEF IInv, PlanAsked
<1>4. Planned(g) = Guarded!SlotsOf(DOMAIN plan, g)
  BY DEF Planned, SlotsOf, Guarded!SlotsOf
<1>5. CASE \A s \in Planned(g) : at[s] = plan[s].expected
  BY <1>1, <1>2, <1>3, <1>4, <1>5 DEF Write, Guarded!Apply
<1>6. CASE \A s \in Planned(g) : at[s] = plan[s].offset
  <2>1. at' = [s \in Slot |-> at[s]]
    BY <1>1, <1>6 DEF Write
  <2>2. at' = at
    BY <1>0, <2>1 DEF TypeOK
  <2>. QED BY <1>2, <2>2 DEF Guarded!vars
<1>. QED BY <1>0, <1>2, <1>5, <1>6 DEF WindowHolds, InWindow

LEMMA GuardedStep ==
    ASSUME IInv, Undisturbed, [Next]_vars
    PROVE  Guarded!Next \/ UNCHANGED Guarded!vars
<1> USE DEF brokerVars, runVarsButPoint, runVars, commitVars, resultVars, historyVars
<1>0. Group = Guarded!Group
  BY DEF Group, Guarded!Group
<1>1. CASE Submit
  BY <1>1 DEF Submit, Guarded!Next, Guarded!Ask
<1>2. CASE StopsEarly \/ WriteRecord \/ PodLost \/ Harvest \/ UNCHANGED vars
  BY <1>2 DEF StopsEarly, WriteRecord, PodLost, Harvest, vars, Guarded!vars
<1>3. ASSUME NEW g \in Group, Join(g) \/ Leave(g) PROVE Guarded!Next
  BY <1>0, <1>3 DEF Join, Leave, Guarded!Next, Guarded!Join, Guarded!Leave
<1>4. ASSUME NEW s \in Slot, Progress(s) PROVE Guarded!Next
  <2>1. s[1] \in Group
    BY DEF Group
  <2>2. \A p \in Slot \ Guarded!SlotsOf(Slot, s[1]) : at'[p] = at[p]
    BY <1>4 DEF IInv, TypeOK, Progress, Guarded!SlotsOf
  <2>. QED BY <1>0, <1>4, <2>1, <2>2 DEF Progress, Guarded!Next, Guarded!Progress
<1>5. ASSUME NEW g \in Group, Land(g) \/ LandInPart(g)
      PROVE  Guarded!Next \/ UNCHANGED Guarded!vars
  BY <1>0, <1>5, LandGuarded DEF Guarded!Next
<1>6. ASSUME NEW g \in Group,
             \/ Classify(g) \/ ReadPriors(g) \/ PriorsUnread(g) \/ Send(g) \/ CannotSend(g)
             \/ RefuseCommit(g) \/ LoseCommit(g) \/ GiveUp(g) \/ ReadBack(g)
      PROVE  UNCHANGED Guarded!vars
  BY <1>6 DEF Classify, ReadPriors, PriorsUnread, Send, CannotSend, RefuseCommit, LoseCommit,
     GiveUp, ReadBack, Guarded!vars
<1>. QED BY <1>1, <1>2, <1>3, <1>4, <1>5, <1>6 DEF Next

\* The runs implement GuardedPositions: no plan moves a group that is not
\* where the plan expects it.
THEOREM GuardedRefinement == Undisturbed => (Spec => GuardedSpec)
<1> SUFFICES ASSUME Undisturbed PROVE Spec => GuardedSpec
  OBVIOUS
<1>1. Init => Guarded!Init
  BY DEF Init, Guarded!Init, None, Guarded!None
<1>2. IInv /\ [Next]_vars => [Guarded!Next]_Guarded!vars
  BY GuardedStep
<1>. QED BY <1>1, <1>2, Invariance, PTL DEF Spec, GuardedSpec, Guarded!Spec
=============================================================================
