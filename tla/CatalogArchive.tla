--------------------------- MODULE CatalogArchive ---------------------------
(***************************************************************************)
(* The durable catalog in the archive bucket.  A recovery point has three  *)
(* objects under logweir/catalog/v1/: the record, its signature and an     *)
(* entry of the day-sharded log.  They are put create-only in that order,  *)
(* by the run that made the backup and by logweir catalog sync, which      *)
(* walks the receipts and backfills what it finds absent.  Either writer   *)
(* may stop between two puts.                                              *)
(***************************************************************************)
EXTENDS Integers

CONSTANTS
  Points,   \* recovery points, numbered from the oldest
  MaxFaults

ASSUME ArchiveAssumption ==
  /\ Points \subseteq Nat \ {0}
  /\ MaxFaults \in Nat

\* The objects of a point in the order of their puts.
Record == 1
Signature == 2
LogEntry == 3

\* Where a writer stands: its point and the object it puts next.
Done == LogEntry + 1
AtRest == [point |-> 0, next |-> Done]
Writer == {"runner", "backfill"}

VARIABLES
  receipts,  \* points whose signed receipt is in the bucket
  stored,    \* point -> how many of its objects are in the bucket
  writing,   \* writer -> where it stands
  faults     \* history: what has gone wrong so far, bounded by MaxFaults

archiveVars == <<receipts, stored, writing>>

Recorded == {p \in Points : stored[p] >= Record}
Indexed == {p \in Points : stored[p] >= LogEntry}
Busy(w) == writing[w].next # Done

Fault ==
  /\ faults < MaxFaults
  /\ faults' = faults + 1

\* The points before are complete: the archive has been in use.
ArchiveInit(before) ==
  /\ receipts = before
  /\ stored = [p \in Points |-> IF p \in before THEN LogEntry ELSE 0]
  /\ writing = [w \in Writer |-> AtRest]
  /\ faults = 0

\* A backup has put its receipt; its run goes on to the point's objects.
BackUp(p) ==
  /\ ~Busy("runner")
  /\ p \notin receipts
  /\ \A q \in Points : q < p => q \in receipts
  /\ receipts' = receipts \cup {p}
  /\ writing' = [writing EXCEPT !["runner"] = [point |-> p, next |-> Record]]
  /\ UNCHANGED <<stored, faults>>

\* An object that is already there counts as put.
PutObject(w) ==
  LET p == writing[w].point
      n == writing[w].next
  IN /\ Busy(w)
     /\ stored' = [stored EXCEPT ![p] = IF @ < n THEN n ELSE @]
     /\ writing' = [writing EXCEPT ![w].next = n + 1]
     /\ UNCHANGED <<receipts, faults>>

\* The store refuses a put, or the process dies.
StopWriting(w) ==
  /\ Busy(w)
  /\ Fault
  /\ writing' = [writing EXCEPT ![w] = AtRest]
  /\ UNCHANGED <<receipts, stored>>

\* The backfill comes to the next receipt.  If the point has a record it is reported as
\* present and nothing is put.
Backfill(p) ==
  LET last == writing["backfill"].point IN
  /\ ~Busy("backfill")
  /\ p \in receipts
  /\ last < p
  /\ \A q \in receipts : q <= last \/ p <= q
  /\ writing' = [writing EXCEPT !["backfill"] =
                   [point |-> p, next |-> IF p \in Recorded THEN Done ELSE Record]]
  /\ UNCHANGED <<receipts, stored, faults>>

\* The backfill has come to the last receipt; it may be run again.
EndBackfill ==
  /\ ~Busy("backfill")
  /\ writing["backfill"] # AtRest
  /\ \A q \in receipts : q <= writing["backfill"].point
  /\ writing' = [writing EXCEPT !["backfill"] = AtRest]
  /\ UNCHANGED <<receipts, stored, faults>>

ArchiveNext ==
  \/ \E p \in Points : BackUp(p) \/ Backfill(p)
  \/ \E w \in Writer : PutObject(w) \/ StopWriting(w)
  \/ EndBackfill

ArchiveSpec == ArchiveInit({}) /\ [][ArchiveNext]_<<archiveVars, faults>>

(***************************************************************************)
(* What docs/formats/catalog-point.md says of the backfill: it makes up    *)
(* for exactly the catalog write that failed.  A point it has just         *)
(* reported, and that its backup's run no longer puts, is complete.        *)
(***************************************************************************)
BackfillCompletes ==
  LET p == writing["backfill"].point IN
  p # 0 /\ ~Busy("backfill") /\ ~(Busy("runner") /\ writing["runner"].point = p)
    => p \in Indexed
=============================================================================
