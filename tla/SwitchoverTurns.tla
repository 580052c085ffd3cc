-------------------------- MODULE SwitchoverTurns --------------------------
(***************************************************************************)
(* What the Switchovers of one Restore promise each other: their runs take *)
(* turns in the order the Switchovers were asked for.  A run starts only   *)
(* when every Switchover asked for earlier is over, so no two runs move    *)
(* the positions of the same groups at once.  Two that were asked for in   *)
(* the same second are not ordered and may overlap.                        *)
(***************************************************************************)
EXTENDS Naturals

CONSTANT Switchover

VARIABLES
  asked,    \* the second each was asked for in; 0 before
  running,  \* those with a run at work
  over      \* those that have ended, for good

vars == <<asked, running, over>>

Init ==
  /\ asked = [s \in Switchover |-> 0]
  /\ running = {}
  /\ over = {}

Ask(s) ==
  /\ asked[s] = 0
  /\ asked'[s] # 0
  /\ \A o \in Switchover : asked[o] <= asked'[s]
  /\ asked' = [asked EXCEPT ![s] = asked'[s]]
  /\ UNCHANGED <<running, over>>

Start(s) ==
  /\ asked[s] # 0
  /\ s \notin over \cup running
  /\ \A o \in running : asked[o] = asked[s]
  /\ \A o \in Switchover : asked[o] # 0 /\ asked[o] < asked[s] => o \in over
  /\ running' = running \cup {s}
  /\ UNCHANGED <<asked, over>>

Stop(s) ==
  /\ s \in running
  /\ running' = running \ {s}
  /\ UNCHANGED <<asked, over>>

Close(s) ==
  /\ s \notin over \cup running
  /\ over' = over \cup {s}
  /\ UNCHANGED <<asked, running>>

Next == \E s \in Switchover : Ask(s) \/ Start(s) \/ Stop(s) \/ Close(s)

Spec == Init /\ [][Next]_vars
=============================================================================
