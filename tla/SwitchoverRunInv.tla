--------------------------- MODULE SwitchoverRunInv ---------------------------
(***************************************************************************)
(* The inductive invariant behind what a switchover run records.           *)
(***************************************************************************)
EXTENDS SwitchoverRun

PlannedMoves == [offset : 0..MaxOffset, expected : Position]
Plans == UNION {[S -> PlannedMoves] : S \in SUBSET Slot}
Records == UNION {[S -> [prior : Position, readback : Position]] : S \in SUBSET Slot}
Partial == UNION {[S -> Position] : S \in SUBSET Slot}

Shapes ==
  /\ plan \in Plans /\ asked \subseteq Plans
  /\ taken \in Records /\ record \in Records
  /\ prior \in Partial /\ landed \in Partial

\* What is left of the plan: every other group of it has its outcome.
Passes ==
  /\ todo \subseteq PlanGroups
  /\ At("record") => todo = {}
  /\ At("idle") \/ \A g \in PlanGroups : outcome[g] = "untouched" <=> g \in todo

\* The plan of the last run was asked for, or there was no run.
PlanAsked == plan \in asked \/ (At("idle") /\ flight = {})

\* A group the run has not committed to.
Ahead(g) ==
  /\ g \in todo
  /\ \/ point.step \in {"groups", "priors", "commit"}
     \/ point.step \in {"sent", "readback"} /\ g # Current

Unwritten(g) == g \notin flight /\ Planned(g) \cap DOMAIN landed = {}

\* A run writes no group before it has come to it.
AheadUnwritten == \A g \in Group : Ahead(g) => Unwritten(g)

\* A run that has concluded no group has written nothing at all.
FreshUnwritten ==
  /\ At("groups") /\ todo = PlanGroups => flight = {} /\ landed = <<>>
  /\ exit = 3 => point.step \in {"ended", "idle"} /\ flight = {} /\ landed = <<>>

\* Between its reading and its reading back, the run holds as prior what the
\* plan expects.
PriorExpected ==
  \A g \in Group : AtGroup("commit", g) \/ AtGroup("sent", g) \/ AtGroup("readback", g) =>
    prior = [s \in Planned(g) |-> plan[s].expected]

\* The commits write what is planned; with no group disturbed, over the
\* positions the plan expects.
LandedExpected ==
  \A s \in DOMAIN landed :
    s \in DOMAIN plan /\ (Undisturbed => landed[s] = plan[s].expected)

\* While a commit may land on a group without members, the group is as the
\* plan expects it or wholly where the plan puts it.
WindowHolds ==
  Undisturbed => \A g \in Group : InWindow(g) /\ g \notin members =>
    \/ \A s \in Planned(g) : at[s] = plan[s].expected
    \/ \A s \in Planned(g) : at[s] = plan[s].offset /\ s \in DOMAIN landed

\* Only an accepted commit is answered so.
AnswerTrue ==
  \A g \in Group : AtGroup("readback", g) /\ point.answer = "ok" =>
    Planned(g) \subseteq DOMAIN landed

OutcomeTrue ==
  \A g \in PlanGroups :
    /\ outcome[g] = "applied" => \A s \in Planned(g) :
         s \in DOMAIN landed /\ s \in DOMAIN taken /\ taken[s].prior = plan[s].expected
    /\ outcome[g] = "alreadyApplied" => Unwritten(g)

\* A phase is set when the run is over, and Succeeded when all its groups are.
PhaseLast ==
  /\ phase # "Running" => At("idle")
  /\ At("ended") /\ exit = 0 => Done = PlanGroups
  /\ phase = "Succeeded" => Done = PlanGroups
  /\ phase = "PartiallyApplied" => Done # {} /\ Done # PlanGroups

IInv ==
  /\ TypeOK
  /\ Shapes
  /\ Passes
  /\ PlanAsked
  /\ AheadUnwritten
  /\ FreshUnwritten
  /\ PriorExpected
  /\ LandedExpected
  /\ WindowHolds
  /\ AnswerTrue
  /\ OutcomeTrue
  /\ PhaseLast
=============================================================================
