------------------------ MODULE MCRestoreInterruption ------------------------
EXTENDS RestoreInterruptionInv
CONSTANTS orders, payments
=============================================================================
