---------------------------- MODULE SwitchoverRun ----------------------------
(***************************************************************************)
(* The runs of a Switchover's Job (logweir switchover run) on the target's *)
(* consumer groups, beside the consumers themselves.  Kafka has no         *)
(* compare-and-set on positions: a run classifies a group, reads its       *)
(* positions, commits as a non-member and reads back, and consumers join,  *)
(* commit and leave between any two of these calls.                        *)
(*                                                                         *)
(* One run is at work at a time (OneRunAtATime of Switchover); the next is *)
(* asked for when the commits of the last have landed or are lost.         *)
(***************************************************************************)
EXTENDS Integers, FiniteSetsExt, Functions

CONSTANTS
  Slot,        \* pairs <<group, partition>>, groups numbered in plan order
  FirstPlan,   \* slot -> [offset, expected], the plan made from the mapping
  MaxOffset,
  Attempts,    \* sends of one commit: the client sends an unanswered one again
  Undisturbed, \* no group gains and loses a member within one compare-and-set
  MaxRuns,     \* Switchovers asked for
  MaxUpsets    \* answers lost, pods lost and commits that land in part, together

None == -1
NoExitCode == -1

ASSUME RunAssumption ==
  /\ \A s \in Slot : s[1] \in Nat
  /\ MaxOffset \in Nat
  /\ Attempts \in Nat \ {0}
  /\ FirstPlan \in [Slot -> [offset : 0..MaxOffset, expected : None..MaxOffset]]
  /\ Undisturbed \in BOOLEAN
  /\ MaxRuns \in Nat
  /\ MaxUpsets \in Nat

VARIABLES
  at,       \* the broker: committed positions
  members,  \* the broker: groups with members
  plan,     \* the plan of the last run
  point,    \* where the run stands: its step, the group, what the commit answered
  todo,     \* groups the run has not come to
  prior,    \* positions the run read before its commits
  outcome,  \* group -> what the run concluded
  taken,    \* slot -> [prior, readback] of the groups the run calls applied
  flight,   \* groups with a commit that is sent and neither landed nor lost
  sends,    \* how often the last one was sent
  exit,     \* the pod's exit code; NoExitCode: the pod is lost
  record,   \* taken, of the last signed record
  phase,    \* what the Switchover of the last run says
  asked,    \* history: the plans asked for
  landed,   \* history: slots the commits of the last run wrote, with what they found
  runs, upsets

brokerVars == <<at, members>>
runVarsButPoint == <<plan, todo, prior, outcome, taken>>
runVars == <<point, runVarsButPoint>>
commitVars == <<flight, sends>>
resultVars == <<exit, record, phase>>
historyVars == <<asked, landed, runs>>
vars == <<brokerVars, runVars, commitVars, resultVars, historyVars, upsets>>

Group == {s[1] : s \in Slot}
SlotsOf(S, g) == {s \in S : s[1] = g}
Position == None..MaxOffset
Outcomes == {"untouched", "applied", "alreadyApplied", "refused", "failed"}
Steps == {"idle", "groups", "priors", "commit", "sent", "readback", "record", "ended"}

Planned(g) == SlotsOf(DOMAIN plan, g)
\* The group the run is at: the first of those left, in plan order.
Current == Min(todo)
At(step) == point.step = step
AtGroup(step, g) == At(step) /\ todo # {} /\ g = Current

TypeOK ==
  /\ at \in [Slot -> Position]
  /\ members \subseteq Group
  /\ DOMAIN plan \subseteq Slot
  /\ point \in [step : Steps, answer : {"none", "ok", "active", "refused", "failed"}]
  /\ todo \subseteq Group
  /\ outcome \in [Group -> Outcomes]
  /\ DOMAIN taken \subseteq Slot /\ DOMAIN record \subseteq Slot
  /\ flight \subseteq Group
  /\ sends \in 0..Attempts
  /\ exit \in {NoExitCode, 0, 1, 2, 3, 4}
  /\ phase \in {"Running", "Succeeded", "PartiallyApplied", "Failed", "Refused"}

Init ==
  /\ at = [s \in Slot |-> None]
  /\ members = {}
  /\ plan = FirstPlan
  /\ point = [step |-> "idle", answer |-> "none"]
  /\ todo = {}
  /\ prior = <<>>
  /\ outcome = [g \in Group |-> "untouched"]
  /\ taken = <<>> /\ record = <<>>
  /\ flight = {} /\ sends = 0
  /\ exit = 0 /\ phase = "Running"
  /\ asked = {} /\ landed = <<>>
  /\ runs = 0 /\ upsets = 0

Goto(step) == point' = [step |-> step, answer |-> "none"]
Answer(word) == point' = [step |-> "readback", answer |-> word]

\* One outcome for the group the run is at, and on to the next.
Conclude(g, word) ==
  /\ outcome' = [outcome EXCEPT ![g] = word]
  /\ todo' = todo \ {g}
  /\ Goto(IF todo = {g} THEN "record" ELSE "groups")

-----------------------------------------------------------------------------
(* The consumers.                                                          *)

Join(g) ==
  /\ g \notin members
  /\ members' = members \cup {g}
  /\ UNCHANGED <<at, runVars, commitVars, resultVars, historyVars, upsets>>

\* A run has read the group's positions and its commit may still land.
InWindow(g) == g \in flight \/ AtGroup("commit", g)

Leave(g) ==
  /\ g \in members
  /\ Undisturbed => ~InWindow(g)
  /\ members' = members \ {g}
  /\ UNCHANGED <<at, runVars, commitVars, resultVars, historyVars, upsets>>

\* A member commits what it has read: a position only grows.
Progress(s) ==
  /\ s[1] \in members
  /\ at[s] < MaxOffset
  /\ at' = [at EXCEPT ![s] = IF @ = None THEN 0 ELSE @ + 1]
  /\ UNCHANGED <<members, runVars, commitVars, resultVars, historyVars, upsets>>

-----------------------------------------------------------------------------
(* A new Switchover.                                                       *)

\* rollback_plan: the prior positions, expecting what was read back.  What had
\* no position cannot be restored and is left out.
Restorable == {s \in DOMAIN record : record[s].prior # None}
RollbackPlan ==
  [s \in Restorable |-> [offset |-> record[s].prior, expected |-> record[s].readback]]

\* A plan is made from the mapping or from a record, or asked for again.
Submit ==
  /\ At("idle") /\ flight = {}
  /\ runs < MaxRuns
  /\ runs' = runs + 1
  /\ plan' \in asked \cup {FirstPlan} \cup (IF Restorable = {} THEN {} ELSE {RollbackPlan})
  /\ asked' = asked \cup {plan'}
  /\ todo' = {s[1] : s \in DOMAIN plan'}
  /\ outcome' = [g \in Group |-> "untouched"]
  /\ prior' = <<>> /\ taken' = <<>> /\ landed' = <<>>
  /\ Goto("groups")
  /\ exit' = 0 /\ phase' = "Running"
  /\ UNCHANGED <<brokerVars, commitVars, record, upsets>>

-----------------------------------------------------------------------------
(* The run.                                                                *)

\* The inputs do not verify, the target is another one, or a file, the store
\* or the signing key fails: before any group.
StopsEarly ==
  /\ At("groups") /\ todo = {s[1] : s \in DOMAIN plan}
  /\ exit' \in {1, 3, 4}
  /\ Goto("ended")
  /\ UNCHANGED <<brokerVars, plan, todo, prior, outcome, taken, commitVars,
                 record, phase, historyVars, upsets>>

\* A group with members is refused; so is one of another type, one that is
\* hidden, or a plan outside the partition; an answer may also not come.
Classify(g) ==
  /\ AtGroup("groups", g)
  /\ \/ g \notin members /\ Goto("priors") /\ UNCHANGED <<todo, outcome>>
     \/ Conclude(g, "refused")
     \/ g \notin members /\ Conclude(g, "failed")
  /\ UNCHANGED <<brokerVars, plan, prior, taken, commitVars, resultVars, historyVars, upsets>>

AlreadyApplied(g) == \A s \in Planned(g) : at[s] = plan[s].offset
\* Mutant of AsExpected: one partition that is as expected speaks for the group.
AsExpectedSomewhere(g) == \E s \in Planned(g) : at[s] = plan[s].expected

AsExpected(g) == \A s \in Planned(g) : at[s] = plan[s].expected

\* The positions are read and compared with the plan in memory.
ReadPriors(g) ==
  /\ AtGroup("priors", g)
  /\ \/ AlreadyApplied(g) /\ Conclude(g, "alreadyApplied") /\ UNCHANGED prior
     \/ /\ ~AlreadyApplied(g) /\ AsExpected(g)
        /\ prior' = Restrict(at, Planned(g))
        /\ Goto("commit")
        /\ UNCHANGED <<todo, outcome>>
     \/ /\ ~AlreadyApplied(g) /\ ~AsExpected(g)
        /\ Conclude(g, "refused") /\ UNCHANGED prior
  /\ UNCHANGED <<brokerVars, plan, taken, commitVars, resultVars, historyVars, upsets>>

PriorsUnread(g) ==
  /\ AtGroup("priors", g)
  /\ \E word \in {"refused", "failed"} : Conclude(g, word)
  /\ UNCHANGED <<brokerVars, plan, prior, taken, commitVars, resultVars, historyVars, upsets>>

Send(g) ==
  /\ AtGroup("commit", g)
  /\ flight' = flight \cup {g}
  /\ sends' = 1
  /\ Goto("sent")
  /\ UNCHANGED <<brokerVars, plan, todo, prior, outcome, taken, resultVars, historyVars, upsets>>

\* No coordinator, or no right to commit: nothing is sent.
CannotSend(g) ==
  /\ AtGroup("commit", g)
  /\ Answer("refused")
  /\ UNCHANGED <<brokerVars, plan, todo, prior, outcome, taken, commitVars,
                 resultVars, historyVars, upsets>>

Waiting(g) == AtGroup("sent", g)
Write(S) == at' = [s \in Slot |-> IF s \in S THEN plan[s].offset ELSE at[s]]
\* What this run found where it first wrote.
Found(S) == landed' =
  [s \in DOMAIN landed \cup S |-> IF s \in DOMAIN landed THEN landed[s] ELSE at[s]]

\* No answer comes: the client sends the request again, and then gives up.
Unanswered(g) ==
  /\ Waiting(g)
  /\ upsets < MaxUpsets
  /\ upsets' = upsets + 1
  /\ IF sends < Attempts
     THEN sends' = sends + 1 /\ UNCHANGED <<flight, point>>
     ELSE Answer("failed") /\ flight' = flight \ {g} /\ UNCHANGED sends

\* The broker takes a non-member's commit while the group has no member.
Land(g) ==
  /\ g \in flight \ members
  /\ Write(Planned(g)) /\ Found(Planned(g))
  /\ \/ Waiting(g) /\ Answer("ok") /\ flight' = flight \ {g} /\ UNCHANGED <<sends, upsets>>
     \/ Unanswered(g)
     \/ ~Waiting(g) /\ flight' = flight \ {g} /\ UNCHANGED <<point, sends, upsets>>
  /\ UNCHANGED <<members, runVarsButPoint, resultVars, asked, runs>>

\* One partition is refused, or its answer is.
LandInPart(g) ==
  /\ g \in flight \ members
  /\ Waiting(g)
  /\ upsets < MaxUpsets
  /\ \E S \in SUBSET Planned(g) \ {{}, Planned(g)} : Write(S) /\ Found(S)
  /\ Answer("failed") /\ flight' = flight \ {g}
  /\ upsets' = upsets + 1
  /\ UNCHANGED <<members, runVarsButPoint, sends, resultVars, asked, runs>>

\* A group with a member refuses the whole request.
RefuseCommit(g) ==
  /\ g \in flight \cap members
  /\ flight' = flight \ {g}
  /\ IF Waiting(g) THEN Answer("active") ELSE UNCHANGED point
  /\ UNCHANGED <<brokerVars, runVarsButPoint, sends, resultVars, historyVars, upsets>>

LoseCommit(g) ==
  /\ g \in flight
  /\ \/ Unanswered(g)
     \/ ~Waiting(g) /\ flight' = flight \ {g} /\ UNCHANGED <<point, sends, upsets>>
  /\ UNCHANGED <<brokerVars, runVarsButPoint, resultVars, historyVars>>

\* The client gives up on a request that may still land.
GiveUp(g) ==
  /\ Waiting(g)
  /\ upsets < MaxUpsets
  /\ upsets' = upsets + 1
  /\ Answer("failed")
  /\ UNCHANGED <<brokerVars, runVarsButPoint, commitVars, resultVars, historyVars>>

\* Mutant of ReadBack: the positions read say that the commit was applied.
ReadBackTrusted(g) ==
  /\ AtGroup("readback", g)
  /\ IF AlreadyApplied(g)
     THEN /\ Conclude(g, "applied")
          /\ taken' = [s \in DOMAIN taken \cup Planned(g) |->
               IF s \in Planned(g) THEN [prior |-> prior[s], readback |-> at[s]] ELSE taken[s]]
     ELSE Conclude(g, "failed") /\ UNCHANGED taken
  /\ prior' = <<>>
  /\ UNCHANGED <<brokerVars, plan, commitVars, resultVars, historyVars, upsets>>

\* The positions are read back whatever the commit answered; an accepted commit
\* is applied only when every planned position is read.
ReadBack(g) ==
  /\ AtGroup("readback", g)
  /\ \E read \in BOOLEAN :
       IF point.answer = "ok" /\ read /\ AlreadyApplied(g)
       THEN /\ Conclude(g, "applied")
            /\ taken' = [s \in DOMAIN taken \cup Planned(g) |->
                 IF s \in Planned(g) THEN [prior |-> prior[s], readback |-> at[s]] ELSE taken[s]]
       ELSE /\ Conclude(g, IF point.answer \in {"ok", "failed"} THEN "failed" ELSE "refused")
            /\ UNCHANGED taken
  /\ prior' = <<>>
  /\ UNCHANGED <<brokerVars, plan, commitVars, resultVars, historyVars, upsets>>

PlanGroups == {s[1] : s \in DOMAIN plan}
Done == {g \in PlanGroups : outcome[g] \in {"applied", "alreadyApplied"}}

\* Mutant of RunOutcome: a run without a failure succeeded.
RunOutcomeUnlessFailed ==
  IF \E g \in PlanGroups : outcome[g] = "failed"
  THEN IF Done # {} THEN "PartiallyApplied" ELSE "Failed"
  ELSE IF Done # {} THEN "Succeeded" ELSE "Refused"

\* GroupCounts::outcome.
RunOutcome ==
  IF Done = PlanGroups THEN "Succeeded"
  ELSE IF Done # {} THEN "PartiallyApplied"
  ELSE IF \E g \in PlanGroups : outcome[g] = "failed" THEN "Failed" ELSE "Refused"

\* The record is signed and written after the last group, or cannot be.
WriteRecord ==
  /\ At("record")
  /\ \/ /\ exit' = IF RunOutcome = "Succeeded" THEN 0 ELSE 2
        /\ record' = IF taken = <<>> THEN record ELSE taken
     \/ exit' = 4 /\ UNCHANGED record
  /\ Goto("ended")
  /\ UNCHANGED <<brokerVars, plan, todo, prior, outcome, taken, commitVars, phase,
                 historyVars, upsets>>

\* The pod is lost at any point, with what the run knew.
PodLost ==
  /\ point.step \notin {"idle", "ended"}
  /\ upsets < MaxUpsets
  /\ upsets' = upsets + 1
  /\ exit' = NoExitCode
  /\ prior' = <<>>
  /\ Goto("ended")
  /\ UNCHANGED <<brokerVars, plan, todo, outcome, taken, commitVars, record, phase, historyVars>>

\* The controller reads the exit code and, unless its bound cut it, the log.
StatusFromRun(code, word) ==
  CASE code = 0 -> "Succeeded"
    [] code = 2 -> IF word \in {"PartiallyApplied", "Failed"} THEN word ELSE "Refused"
    [] code = 3 -> "Refused"
    [] OTHER -> "Failed"

Harvest ==
  /\ At("ended")
  /\ \E word \in {RunOutcome, "unread"} : phase' = StatusFromRun(exit, word)
  /\ Goto("idle")
  /\ UNCHANGED <<brokerVars, runVarsButPoint, commitVars, exit, record, historyVars, upsets>>

Next ==
  \/ Submit \/ StopsEarly \/ WriteRecord \/ PodLost \/ Harvest
  \/ \E s \in Slot : Progress(s)
  \/ \E g \in Group :
       \/ Join(g) \/ Leave(g)
       \/ Classify(g) \/ ReadPriors(g) \/ PriorsUnread(g) \/ Send(g) \/ CannotSend(g)
       \/ Land(g) \/ LandInPart(g) \/ RefuseCommit(g) \/ LoseCommit(g) \/ GiveUp(g)
       \/ ReadBack(g)

Spec == Init /\ [][Next]_vars

-----------------------------------------------------------------------------
\* The calls of a run add up to one guarded step for each group, in spite of
\* answers that are lost, requests sent twice and pods that die: no position
\* is moved by a plan unless the group is where the plan expects it.
Guarded == INSTANCE GuardedPositions

GuardedSpec == Guarded!Spec

\* What a run is about to record is what it did: a group it calls applied it
\* wrote wholly, over the positions it names as prior, so a rollback plan
\* gives back what the run overwrote; one it calls alreadyApplied or untouched
\* it did not write.
RecordTrue ==
  At("record") => \A g \in PlanGroups :
    /\ outcome[g] = "applied" => \A s \in Planned(g) :
         s \in DOMAIN landed /\ landed[s] = taken[s].prior
    /\ outcome[g] \in {"alreadyApplied", "untouched"} => Planned(g) \cap DOMAIN landed = {}

\* The phase never claims more than was done, and hides a move only behind a
\* log that was not read or a refusal of the broker's.
PhaseTrue ==
  /\ phase = "Succeeded" => \A s \in DOMAIN plan :
       s \in DOMAIN landed \/ outcome[s[1]] = "alreadyApplied"
  /\ phase = "PartiallyApplied" => Done # {} /\ Done # PlanGroups
  /\ phase = "Refused" /\ exit = 3 => landed = <<>>
=============================================================================
