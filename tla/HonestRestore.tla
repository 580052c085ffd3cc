---------------------------- MODULE HonestRestore ----------------------------
(***************************************************************************)
(* What the phase of a Restore promises about its target, whatever ends    *)
(* the run.  A Restore is over once.  It is a success only when no topic   *)
(* the run made lacks its data, a failure only when none holds any, or the *)
(* run's own signed verdict says so, and an interruption only once the run *)
(* is gone, which from then on writes nothing.  When a trace of the run    *)
(* was lost the phase may be wrong, but it is still final.                 *)
(***************************************************************************)

VARIABLES
  outcome,  \* Open, Interrupted, Succeeded or Failed
  working,  \* a process of the run is alive
  missing,  \* some topic of the run lacks data
  written,  \* some topic of the run holds data
  verdict,  \* the run signed that it failed
  blind     \* a trace of the run was lost

vars == <<outcome, working, missing, written, verdict, blind>>

Init ==
  /\ outcome = "Open"
  /\ working = FALSE /\ missing = FALSE /\ written = FALSE
  /\ verdict = FALSE
  /\ blind = FALSE

Work ==
  /\ outcome = "Open" \/ blind
  /\ working' \in BOOLEAN /\ missing' \in BOOLEAN /\ written' \in BOOLEAN
  /\ verdict' \in BOOLEAN
  /\ written' => written \/ working
  /\ verdict => verdict'
  /\ verdict' => verdict \/ working
  /\ blind' \in {blind, TRUE}
  /\ UNCHANGED outcome

\* Topics of the run are taken away or replaced, or a trace is lost.
Vanish ==
  /\ missing' \in BOOLEAN /\ missing' => missing
  /\ written' \in BOOLEAN /\ written' => written
  /\ blind' \in {blind, TRUE}
  /\ UNCHANGED <<outcome, working, verdict>>

\* The run is forgotten, and made again: what it left is no longer known.
Again ==
  /\ outcome = "Open"
  /\ blind' = TRUE
  /\ verdict' \in {verdict, FALSE}
  /\ UNCHANGED <<outcome, working, missing, written>>

Close(o) ==
  /\ outcome \in {"Open", "Interrupted"} \ {o}
  /\ outcome' = o
  /\ blind' \in {blind, TRUE}
  /\ UNCHANGED <<working, missing, written, verdict>>

Interrupt == Close("Interrupted") /\ (blind' \/ ~working)
Succeed == Close("Succeeded") /\ (blind' \/ ~missing)
Fail == Close("Failed") /\ (blind' \/ ~written \/ verdict)

Next == Work \/ Vanish \/ Again \/ Interrupt \/ Succeed \/ Fail

Spec == Init /\ [][Next]_vars
=============================================================================
