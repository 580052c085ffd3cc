---------------------------- MODULE CatalogWindow ----------------------------
(***************************************************************************)
(* What a RecoveryCatalog promises of its view: it shows the result of one *)
(* walk of the archive, replaces it by that of a walk that began later     *)
(* than every walk shown so far, and may withdraw it.                      *)
(***************************************************************************)
EXTENDS Integers

VARIABLES
  shown,  \* ordinal of the walk whose result is shown; 0: no view
  newest  \* the last walk that was shown

windowVars == <<shown, newest>>

WindowInit ==
  /\ shown = 0
  /\ newest = 0

Publish ==
  /\ shown' > newest
  /\ newest' = shown'

Withdraw ==
  /\ shown # 0
  /\ shown' = 0
  /\ UNCHANGED newest

WindowSpec == WindowInit /\ [][Publish \/ Withdraw]_windowVars
=============================================================================
