-------------------------- MODULE GuardedPositions --------------------------
(***************************************************************************)
(* What a switchover promises the consumer groups of a target: a group's   *)
(* positions are moved by its own members, or by an approved plan at an    *)
(* instant at which the group has no member and every position is where    *)
(* the plan expects it.  No progress a consumer made is lost to a plan     *)
(* that did not expect it.                                                 *)
(***************************************************************************)
EXTENDS Integers

CONSTANTS
  Slot,      \* pairs <<group, partition>>
  MaxOffset

VARIABLES
  at,        \* the committed position of each slot; None: there is none
  members,   \* the groups that have members
  asked      \* the plans asked for: slot -> [offset, expected]

vars == <<at, members, asked>>

None == -1
Group == {s[1] : s \in Slot}
SlotsOf(S, g) == {s \in S : s[1] = g}

Init ==
  /\ at = [s \in Slot |-> None]
  /\ members = {}
  /\ asked = {}

Ask ==
  /\ \E plan \in asked' : asked' = asked \cup {plan}
  /\ UNCHANGED <<at, members>>

Join(g) == members' = members \cup {g} /\ UNCHANGED <<at, asked>>
Leave(g) == members' = members \ {g} /\ UNCHANGED <<at, asked>>

Progress(g) ==
  /\ g \in members
  /\ \A s \in Slot \ SlotsOf(Slot, g) : at'[s] = at[s]
  /\ UNCHANGED <<members, asked>>

\* A commit of several positions may land in part.
Apply(plan, g) ==
  /\ g \notin members
  /\ \A s \in SlotsOf(DOMAIN plan, g) : at[s] = plan[s].expected
  /\ \E landed \in SUBSET SlotsOf(DOMAIN plan, g) :
       at' = [s \in Slot |-> IF s \in landed THEN plan[s].offset ELSE at[s]]
  /\ UNCHANGED <<members, asked>>

Next ==
  \/ Ask
  \/ \E g \in Group :
       \/ Join(g) \/ Leave(g) \/ Progress(g)
       \/ \E plan \in asked : Apply(plan, g)

Spec == Init /\ [][Next]_vars
=============================================================================
