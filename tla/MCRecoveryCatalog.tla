-------------------------- MODULE MCRecoveryCatalog --------------------------
EXTENDS RecoveryCatalogInv

\* The listing by key is in no order of time.
MCDay == [p \in Points |-> p]
MCKey == [p \in Points |-> 3 - p]

\* On request only, over an index that a backup adds to; and with an interval, over an archive
\* at rest.
MCSettings ==
  { [mode |-> "Index", interval |-> 0, before |-> {1}],
    [mode |-> "Full", interval |-> 2, before |-> {1, 2}] }
=============================================================================
