---------------------------- MODULE SwitchoverInv ----------------------------
(***************************************************************************)
(* The inductive invariant behind the turns of the Switchovers of one      *)
(* Restore.                                                                *)
(***************************************************************************)
EXTENDS Switchover

\* The pass has admitted its Switchover and has not ended.
PastAdmission(s) == pass[s].at \in {"mark", "create", "conflict", "ref"}

\* Only an open Switchover is passed over, so none is reopened.
PassIsOpen ==
  \A s \in Switchover : ~At(s, "idle") => Exists(s) /\ ~Terminal(s)

\* Whoever was admitted found everything older over, and it stays so, since
\* a Switchover is never created in a second that has passed.
TurnTaken ==
  \A s, o \in Switchover :
    /\ Admitted(s) \/ PastAdmission(s) => Exists(s)
    /\ (Admitted(s) \/ PastAdmission(s)) /\ Exists(o) /\ born[o] < born[s]
         => Terminal(o)

\* The marker lands before the Job, and the Job before its reference.
MarkedFirst ==
  \A s \in Switchover :
    (jobRef[s] \/ pass[s].at \in {"create", "conflict", "ref"}) => Admitted(s)

\* A Switchover with a run at work is admitted and open, and a pass that could
\* close it has read that Job: nothing but the pass itself creates one.
RunIsOpen ==
  \A s \in Switchover : job[s] = "active" =>
    /\ Admitted(s) /\ ~Terminal(s)
    /\ At(s, "decide") => pass[s].job = "active"
    /\ pass[s].at \in {"idle", "decide", "ref"}

\* A pass admits only what has no Job on record.
AdmitsUnrecorded ==
  \A s \in Switchover : pass[s].at \in {"mark", "create", "conflict"} => ~jobRef[s]

IInv ==
  /\ TypeOK
  /\ PassIsOpen
  /\ TurnTaken
  /\ MarkedFirst
  /\ RunIsOpen
  /\ AdmitsUnrecorded
=============================================================================
