--------------------------- MODULE MCManualRunPool ---------------------------
EXTENDS ManualRunPoolInv

\* Bound: TLC goes on only from states in which the watch is at most two events behind,
\* which is what a third run needs to decide beside two admissions nobody has seen.
ShortLag == Len(events) <= 2
=============================================================================
