--------------------------- MODULE MCSwitchoverRun ---------------------------
EXTENDS SwitchoverRunInv

TwoGroups == {<<1, 1>>, <<1, 2>>, <<2, 1>>}

\* A plan that names the positions it expects.
ToKnownGroups == [s \in Slot |-> [offset |-> 1, expected |-> 0]]
=============================================================================
