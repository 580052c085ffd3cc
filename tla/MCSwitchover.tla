----------------------------- MODULE MCSwitchover -----------------------------
EXTENDS SwitchoverInv
=============================================================================
