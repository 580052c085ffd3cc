----------------------- MODULE RestoreInterruptionInv -----------------------
(***************************************************************************)
(* The inductive invariant behind the honest phase of a Restore.           *)
(***************************************************************************)
EXTENDS RestoreInterruption

\* The topics of the run that are still on the target.
Remaining == {t \in Topics : topic[t] \in Runs}

NextCleanup ==
  \A n \in Attempts : n = cleanup.attempts => cjob[n] \in {"none", "failed"}

\* What a pass read still holds at its next step.
PassHolds ==
  /\ pass = "admit" => phase = "Open" /\ job = "none"
  /\ pass = "list" => phase = "Open" /\ job # "active"
  /\ pass = "started" =>
       phase = "Interrupted" /\ verification = "Running" /\ attempts < MaxAttempts /\ NextAttempt
  /\ pass = "cleaning" =>
       phase = "Interrupted" /\ verification = "Done" /\ cleanup.attempts < MaxAttempts /\ NextCleanup

\* No pod without a Job, and no run once the Restore is no longer open.
RunOver ==
  /\ job = "none" => pod = "none"
  /\ Alive => exit = "none"
  /\ job = "active" /\ pod = "none" =>
       exit = "none" /\ run = "preflight" /\ record = "none" /\ score = "none"
  /\ phase # "Open" /\ ~blind => ~Alive /\ job # "active"

\* How far the run got, by what it left behind.
Traces ==
  /\ run \in {"preflight", "create"} => record = "none"
  /\ run \notin {"pass", "fail", "report"} => score = "none"
  /\ run \in {"pass", "fail"} => score \in {"none", "bare"}
  /\ run = "report" => score \in {"pass", "fail"}
  /\ score = "pass" => run = "report"
  /\ run \in {"verify", "pass"} \/ score = "pass" => Written
  /\ run \in {"engine", "verify", "pass"} => record = "signed"
  /\ exit = "passed" => score = "pass"
  /\ exit = "failed" => score = "fail"
  /\ exit = "refused" => run = "preflight"

\* What a Restore nobody was blind to can be told by them.
Told ==
  ~blind =>
    /\ record # "none" \/ run = "record" => known = Topics
    /\ HoldsData => record = "signed"
    /\ phase = "Open" /\ pod = "none" => run = "preflight" /\ score = "none"

\* Reconcile attempts follow one another.
Ordered ==
  /\ phase = "Open" => signedBy = 0 /\ verification = "none" /\ (\A n \in Attempts : rjob[n] = "none")
  /\ signedBy # 0 => verification = "Done"
  /\ \A n \in Attempts : rjob[n] \in Working =>
       verification # "Done" /\ (n = attempts \/ (n = attempts + 1 /\ NextAttempt))

\* Cleanup attempts follow one another, after the reconcile.
CleanupOrdered ==
  /\ cleanup.phase # "none" => verification = "Done"
  /\ cleanup.phase = "none" => cleanup.attempts = 0
  /\ cleanup.phase = "Removing" => cleanup.attempts # 0
  /\ \A n \in Attempts :
       /\ cjob[n] # "none" => verification = "Done"
       /\ cjob[n] \in Working =>
            n = cleanup.attempts \/ (n = cleanup.attempts + 1 /\ NextCleanup)

\* What an attempt found still holds: it judged a target at rest.
Judged(n) ==
  /\ rjob[n] = "pass" => Written
  /\ rjob[n] = "own" => score \in {"pass", "fail"}
  /\ rjob[n] = "nothing" => ~HoldsData
  /\ rjob[n] \in {"verifying", "pass", "partial"} => Remaining \subseteq kept[n]
  /\ signedBy = n => Remaining \subseteq kept[n]

\* A cleanup ends with nothing left of what it was told to delete.
Removes(n) ==
  /\ cjob[n] = "deleting" => Remaining \ Originals \subseteq doomed
  /\ cjob[n] = "removed" => Remaining \subseteq Originals

Settled ==
  ~blind =>
    /\ \A n \in Attempts : Judged(n) /\ Removes(n)
    /\ cleanup.phase = "Removed" => Remaining \subseteq Originals

IInv ==
  /\ TypeOK
  /\ PassHolds
  /\ RunOver
  /\ Traces
  /\ Told
  /\ Ordered
  /\ CleanupOrdered
  /\ Settled
=============================================================================
