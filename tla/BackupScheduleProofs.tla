------------------------ MODULE BackupScheduleProofs ------------------------
(***************************************************************************)
(* The invariant of BackupScheduleInv is inductive, for every calendar,    *)
(* retry policy and number of edits and failed passes, and what follows    *)
(* from it: under Forbid no run is lost, no two are under way, and the     *)
(* schedule implements ScheduledRuns.                                      *)
(***************************************************************************)
EXTENDS BackupScheduleInv, FiniteSetTheorems, WellFoundedInduction, TLAPS

-----------------------------------------------------------------------------
(* Slots and small sets.                                                   *)

LEMMA SlotsFinite == IsFiniteSet(Slots) /\ (\A S \in SUBSET Slots : Cardinality(S) \in Nat)
<1>1. IsFiniteSet(1 .. Horizon)
  BY FS_Interval, TimeAssumption
<1>2. Slots \in SUBSET (1 .. Horizon)
  BY DEF Slots
<1>3. IsFiniteSet(Slots)
  BY <1>1, <1>2, FS_Subset
<1>. QED BY <1>3, FS_Subset, FS_CardinalityType

LEMMA RunsFinite == IsFiniteSet(Runs)
<1>1. IsFiniteSet(0 .. MaxAttempt)
  BY FS_Interval, PolicyAssumption
<1>. QED BY <1>1, SlotsFinite, FS_Product DEF Runs

\* The latest slot at or before an instant.
LEMMA DueIsLatest ==
  ASSUME NEW at \in Nat
  PROVE  LET due == (at \div Period) * Period IN
         /\ due \in Nat /\ due <= at
         /\ due # 0 /\ at <= Horizon => due \in Slots
         /\ \A s \in Slots \cup {0} : s <= at => s <= due
<1> DEFINE due == (at \div Period) * Period
           q == at \div Period
<1>1. Period \in Nat /\ Period > 0 /\ Horizon \in Nat
  BY TimeAssumption
<1>2. q \in Nat /\ at = Period * q + (at % Period) /\ at % Period \in 0 .. Period - 1
  <2>1. q \in Int /\ at = Period * q + (at % Period) /\ at % Period \in 0 .. Period - 1
    BY <1>1
  <2>2. q <= -1 => Period * q <= -Period
    BY <1>1, <2>1
  <2>. QED BY <1>1, <2>1, <2>2
<1>3. due \in Nat /\ due = Period * q /\ due <= at
  BY <1>1, <1>2
<1>4. \A k \in Nat : (Period * k) % Period = 0
  <2> SUFFICES ASSUME NEW k \in Nat PROVE (Period * k) % Period = 0
    OBVIOUS
  <2> DEFINE m == (Period * k) % Period
             p == (Period * k) \div Period
  <2>1. Period * k \in Nat
    BY <1>1
  <2>2. p \in Int /\ m \in Int /\ Period * k = Period * p + m /\ 0 <= m /\ m < Period
    BY <1>1, <2>1
  <2> HIDE DEF m, p
  <2>3. Period * (k - p) = m
    BY <1>1, <2>2
  <2>4. CASE k - p >= 1
    <3>1. Period * (k - p) >= Period
      BY <1>1, <2>2, <2>4
    <3>. QED BY <3>1, <2>2, <2>3, <1>1
  <2>5. CASE k - p <= -1
    <3>1. Period * (k - p) <= -Period
      BY <1>1, <2>2, <2>5
    <3>. QED BY <3>1, <2>2, <2>3, <1>1
  <2>6. CASE k - p = 0
    BY <1>1, <2>2, <2>3, <2>6
  <2>7. k - p >= 1 \/ k - p <= -1 \/ k - p = 0
    BY <2>2
  <2>. QED BY <2>4, <2>5, <2>6, <2>7
<1>5. due # 0 /\ at <= Horizon => due \in Slots
  BY <1>1, <1>2, <1>3, <1>4 DEF Slots
<1>6. ASSUME NEW s \in Slots \cup {0}, s <= at PROVE s <= due
  <2> DEFINE k == s \div Period
  <2>1. s \in Nat /\ s % Period = 0
    BY <1>1 DEF Slots
  <2>2. k \in Nat /\ s = Period * k
    BY <1>1, <2>1
  <2> HIDE DEF k, q
  <2>3. CASE k <= q
    <3>1. Period * k <= Period * q
      BY <1>1, <1>2, <2>2, <2>3
    <3>. QED BY <3>1, <2>2, <1>3
  <2>4. CASE k >= q + 1
    <3>1. Period * k >= Period * (q + 1)
      BY <1>1, <1>2, <2>2, <2>4
    <3>2. Period * (q + 1) = Period * q + Period
      BY <1>1, <1>2
    <3>. QED BY <3>1, <3>2, <2>2, <1>1, <1>2, <1>6
  <2>. QED BY <2>2, <2>3, <2>4, <1>2
<1>. QED BY <1>3, <1>5, <1>6

LEMMA BeforeIsStrict == \A r, q \in Runs : ~Before(r, r) /\ ~(Before(r, q) /\ Before(q, r))
BY DEF Before, Runs, Slots

\* A bound that no set of runs reaches cuts nothing off, nor does any from one.
LEMMA FirstOfAll ==
  ASSUME NEW n \in Nat, NEW S \in SUBSET Runs,
         Cardinality(Runs) <= n \/ (n # 0 /\ (\A q, r \in S : q = r))
  PROVE  First(n, S) = S
<1> SUFFICES ASSUME NEW r \in S PROVE Cardinality({q \in S : Before(q, r)}) < n
  BY DEF First
<1> DEFINE T == {q \in S : Before(q, r)}
<1>1. r \notin T /\ T \in SUBSET S /\ S \in SUBSET Runs
  BY BeforeIsStrict
<1>2. IsFiniteSet(S) /\ Cardinality(S) <= Cardinality(Runs)
  BY RunsFinite, FS_Subset
<1>3. IsFiniteSet(T) /\ Cardinality(T) <= Cardinality(S) /\ (Cardinality(S) = Cardinality(T) => S = T)
  BY <1>1, <1>2, FS_Subset
<1>4. Cardinality(T) \in Nat /\ Cardinality(S) \in Nat /\ Cardinality(Runs) \in Nat
  BY <1>2, <1>3, RunsFinite, FS_CardinalityType
<1>5. CASE Cardinality(Runs) <= n
  BY <1>1, <1>2, <1>3, <1>4, <1>5
<1>6. CASE n # 0 /\ (\A q, s \in S : q = s)
  <2>1. T = {}
    BY <1>1, <1>6
  <2>. QED BY <2>1, <1>6, FS_EmptySet
<1>. QED BY <1>5, <1>6


-----------------------------------------------------------------------------
(* What each step of a pass does to what it holds.                         *)

LEMMA PassHolds == TypeOK /\ pc # "idle" => pass \in PassType
BY DEF TypeOK

LEMMA RunParts == \A r \in Runs : r[1] \in Slots /\ r[2] \in 0 .. MaxAttempt /\ r = <<r[1], r[2]>> /\ r # NoRun
BY DEF Runs, NoRun, Slots

LEMMA GoingRuns == Existing \in SUBSET Runs /\ Going \in SUBSET Runs /\ Going \subseteq Existing
BY DEF Existing, Going

LEMMA ObservedIs ==
  ASSUME TypeOK, pc # "idle"
  PROVE  /\ Observed \in Statuses
         /\ Observed.active = First(MaxActive, Seen \cap Going)
         /\ Observed.pending = pass.next.pending /\ Observed.lastFire = pass.next.lastFire
<1>1. pass \in PassType /\ pass.next \in Statuses /\ pass.at \in 0 .. Never
  BY PassHolds, TimeAssumption DEF PassType, Never
<1>2. First(MaxActive, Seen \cap Going) \in SUBSET Runs
  BY GoingRuns DEF First
<1>3. (IF InventoryDue THEN pass.at ELSE pass.next.listed) \in 0 .. Never
  BY <1>1 DEF Statuses
<1>. QED BY <1>1, <1>2, <1>3 DEF Observed, Statuses

LEMMA AccountIs ==
  ASSUME NEW s \in Statuses, NEW slot \in Slots \cup {0}, NEW skipped \in Nat
  PROVE  /\ Account(s, slot, skipped) \in Statuses
         /\ Account(s, slot, skipped).active = s.active
         /\ Account(s, slot, skipped).pending = s.pending
         /\ Account(s, slot, skipped).lastFire = s.lastFire
<1>1. Cardinality({g \in Slots : s.lastEval < g /\ g < slot}) \in Nat
  BY SlotsFinite
<1>2. (IF s.lastEval = 0 THEN 0
         ELSE Cardinality({g \in Slots : s.lastEval < g /\ g < slot})) \in Nat
  BY <1>1
<1> DEFINE seen == s.missed + skipped + (IF s.lastEval = 0 THEN 0
                     ELSE Cardinality({g \in Slots : s.lastEval < g /\ g < slot}))
<1>3. seen \in Nat
  BY <1>2 DEF Statuses
<1>4. Account(s, slot, skipped) = IF s.lastEval = slot THEN s
                                  ELSE [s EXCEPT !.lastEval = slot, !.missed = seen]
  BY DEF Account
<1> HIDE DEF seen
<1>. QED BY <1>3, <1>4 DEF Statuses

\* What a pass keeps from its beginning to its end.
Kept == /\ pass'.spec = pass.spec /\ pass'.st = pass.st
        /\ pass'.at = pass.at /\ pass'.fresh = pass.fresh

LEMMA DueIsSlot ==
  ASSUME TypeOK, pc # "idle"
  PROVE  /\ Due \in Nat /\ Due <= pass.at
         /\ Eligible => Due \in Slots
         /\ \A s \in Slots \cup {0} : s <= pass.at => s <= Due
<1>1. pass \in PassType /\ pass.at \in Nat /\ pass.at <= Horizon
  BY PassHolds, TimeAssumption DEF PassType
<1>2. Eligible => Due # 0
  BY TimeAssumption DEF Eligible
<1>. QED BY <1>1, <1>2, DueIsLatest DEF Due

LEMMA BeginIs ==
  ASSUME TypeOK, Begin
  PROVE  /\ pc = "idle" /\ pc' = "observe"
         /\ pass' \in PassType
         /\ pass'.spec = view.spec /\ pass'.st = view.st /\ pass'.next = view.st
         /\ pass'.at = now /\ pass'.fresh = ~behind
         /\ UNCHANGED <<now, spec, st, phase, ended, view, behind, faults, history>>
<1>1. (~behind) \in BOOLEAN
  BY DEF TypeOK
<1>. QED BY <1>1 DEF Begin, TypeOK, PassType

LEMMA ObserveIs ==
  ASSUME TypeOK, Observe
  PROVE  /\ pc = "observe" /\ pc' = "decide"
         /\ pass' \in PassType /\ Kept
         /\ pass.st.pending # NoRun => pass.st.pending \in Existing
         /\ pass'.next.active = First(MaxActive, Seen \cap Going)
         /\ pass'.next.pending = NoRun
         /\ \/ pass'.next.lastFire = pass.next.lastFire
            \/ pass.st.pending # NoRun /\ pass'.next.lastFire = pass.st.pending[1]
         /\ UNCHANGED <<now, spec, st, phase, ended, view, behind, faults, history>>
<1>1. pass \in PassType /\ pass.st.pending \in Runs \cup {NoRun}
  BY PassHolds DEF Observe, PassType, Statuses
<1>2. pass.st.pending # NoRun => pass.st.pending[1] \in Slots \cup {0}
  BY <1>1, RunParts
<1>3. /\ Observed \in Statuses /\ Observed.active = First(MaxActive, Seen \cap Going)
      /\ Observed.lastFire = pass.next.lastFire
  BY ObservedIs DEF Observe
<1>4. NoRun \in Runs \cup {NoRun}
  OBVIOUS
<1>5. Seen \subseteq Existing
  BY DEF Seen, First
<1>6. PICK next \in {[Observed EXCEPT !.pending = NoRun, !.lastFire = pass.st.pending[1]],
                     [Observed EXCEPT !.pending = NoRun]} :
        /\ pass' = [pass EXCEPT !.next = next]
        /\ pass.st.pending = NoRun => next = [Observed EXCEPT !.pending = NoRun]
  BY DEF Observe, Reserved
<1>7. next \in Statuses
  <2>1. CASE next = [Observed EXCEPT !.pending = NoRun]
    BY <2>1, <1>3, <1>4 DEF Statuses
  <2>2. CASE next # [Observed EXCEPT !.pending = NoRun]
    BY <2>2, <1>2, <1>3, <1>4, <1>6 DEF Statuses
  <2>. QED BY <2>1, <2>2
<1>8. pass' \in PassType /\ Kept /\ pass'.next = next
  BY <1>1, <1>6, <1>7 DEF PassType, Kept
<1>9. next.active = Observed.active /\ next.pending = NoRun
      /\ (next.lastFire = Observed.lastFire \/ (pass.st.pending # NoRun /\ next.lastFire = pass.st.pending[1]))
  BY <1>3, <1>6 DEF Statuses
<1>. QED BY <1>3, <1>5, <1>8, <1>9 DEF Observe, Reserved

LEMMA ResumeIs ==
  ASSUME TypeOK, Resume
  PROVE  /\ pc = "observe" /\ pass.st.pending \in Runs /\ pass.st.pending \notin Seen
         /\ pass' \in PassType /\ Kept
         /\ pass'.next.active = First(MaxActive, Seen \cap Going)
         /\ pass'.next.lastFire = pass.next.lastFire
         /\ \/ pass.spec.mode = "badPolicy" /\ pc' = "finish" /\ pass'.next.pending = NoRun
            \/ pass.spec.mode # "badPolicy" /\ pc' = "create" /\ pass'.plan = pass.st.pending
         /\ UNCHANGED <<now, spec, st, phase, ended, view, behind, faults, history>>
<1>1. pass \in PassType /\ pass.st.pending \in Runs
  BY PassHolds DEF Resume, Reserved, PassType, Statuses
<1>2. /\ Observed \in Statuses /\ Observed.active = First(MaxActive, Seen \cap Going)
      /\ Observed.lastFire = pass.next.lastFire
  BY ObservedIs DEF Resume
<1>3. pass.st.pending[2] \in 0 .. MaxAttempt
  BY <1>1, RunParts
<1>4. CASE pass.spec.mode = "badPolicy"
  <2> DEFINE next == [Observed EXCEPT !.pending = NoRun, !.lastAttempt = pass.st.pending[2]]
  <2>1. next \in Statuses /\ next.active = Observed.active /\ next.pending = NoRun
        /\ next.lastFire = Observed.lastFire
    BY <1>2, <1>3 DEF Statuses
  <2>2. pass' = [pass EXCEPT !.next = next] /\ pc' = "finish"
    BY <1>4 DEF Resume
  <2>3. pass' \in PassType /\ Kept /\ pass'.next = next
    BY <1>1, <2>1, <2>2 DEF PassType, Kept
  <2>. QED BY <1>1, <1>2, <1>4, <2>1, <2>2, <2>3 DEF Resume
<1>5. CASE pass.spec.mode # "badPolicy"
  <2>1. /\ pass' = [pass EXCEPT !.next = Observed, !.plan = pass.st.pending, !.resumed = TRUE]
        /\ pc' = "create"
    BY <1>5 DEF Resume
  <2>2. pass' \in PassType /\ Kept /\ pass'.next = Observed /\ pass'.plan = pass.st.pending
    BY <1>1, <1>2, <2>1 DEF PassType, Kept
  <2>. QED BY <1>1, <1>2, <1>5, <2>1, <2>2 DEF Resume
<1>. QED BY <1>4, <1>5


\* A pass that settles writes a status that names the same runs.
LEMMA SettleIs ==
  ASSUME TypeOK, pc = "decide", NEW s \in Statuses, Settle(s)
  PROVE  pc' = "finish" /\ pass' \in PassType /\ Kept /\ pass'.next = s
<1>1. pass \in PassType
  BY PassHolds
<1>. QED BY <1>1 DEF Settle, PassType, Kept

LEMMA AdmitIs ==
  ASSUME TypeOK, pc = "decide", NEW r \in Runs, Admit(r)
  PROVE  /\ pc' = "reserve" /\ pass' \in PassType /\ Kept
         /\ pass'.next = pass.next /\ pass'.plan = r
<1>1. pass \in PassType
  BY PassHolds
<1>. QED BY <1>1 DEF Admit, PassType, Kept

\* Whatever a pass decides, the status it will write names the same runs; and it
\* admits only a run of the due slot, when nothing it knows of is under way.
Decides ==
  /\ pc = "decide" /\ pass' \in PassType /\ Kept
  /\ pass'.next.active = pass.next.active /\ pass'.next.pending = pass.next.pending
  /\ pass'.next.lastFire = pass.next.lastFire \/ (Eligible /\ pass'.next.lastFire = Due)
  /\ \/ pc' = "finish"
     \/ /\ pc' = "reserve" /\ pass'.plan \in Runs /\ ~Blocked /\ Eligible /\ pass'.next = pass.next
        /\ \/ Chain = {} /\ pass'.plan = <<Due, 0>> /\ Due > pass.st.lastFire
           \/ \E n \in Chain : /\ n < pass.spec.retries /\ (\A j \in Chain : j <= n)
                               /\ phase[<<Due, n>>] = "Retryable"
                               /\ pass'.plan = <<Due, n + 1>>
  /\ UNCHANGED <<now, spec, st, phase, ended, view, behind, faults, history>>

LEMMA DecideTypes ==
  ASSUME TypeOK, pc = "decide"
  PROVE  /\ pass \in PassType /\ pass.next \in Statuses /\ pass.st \in Statuses
         /\ pass.spec \in Specs
         /\ [pass.next EXCEPT !.lastAttempt = 0] \in Statuses
         /\ \A k \in Chain : k \in 0 .. MaxAttempt
<1>1. pass \in PassType
  BY PassHolds
<1>2. pass.next \in Statuses /\ pass.st \in Statuses /\ pass.spec \in Specs
  BY <1>1 DEF PassType
<1>3. 0 \in 0 .. MaxAttempt
  BY PolicyAssumption
<1>4. [pass.next EXCEPT !.lastAttempt = 0] \in Statuses
  BY <1>2, <1>3 DEF Statuses
<1>. QED BY <1>1, <1>2, <1>3, <1>4 DEF Chain

LEMMA DecideNothingIs == TypeOK /\ DecideNothing => Decides
<1> SUFFICES ASSUME TypeOK, DecideNothing PROVE Decides
  OBVIOUS
<1>1. pc = "decide" /\ Settle(pass.next)
  BY DEF DecideNothing
<1>2. pc' = "finish" /\ pass' \in PassType /\ Kept /\ pass'.next = pass.next
  BY <1>1, DecideTypes, SettleIs
<1>. QED BY <1>1, <1>2 DEF Decides, DecideNothing

LEMMA DecideSlotIs == TypeOK /\ DecideSlot => Decides
<1> SUFFICES ASSUME TypeOK, DecideSlot PROVE Decides
  OBVIOUS
<1>1. pc = "decide" /\ Eligible /\ Chain = {}
  BY DEF DecideSlot
<1>2. Due \in Slots /\ Due \in Nat
  BY <1>1, DueIsSlot
<1>3. /\ pass.next \in Statuses /\ [pass.next EXCEPT !.lastAttempt = 0] \in Statuses
      /\ pass.st.lastFire \in Slots \cup {0}
  BY <1>1, DecideTypes DEF Statuses
<1> DEFINE none == [pass.next EXCEPT !.lastAttempt = 0]
<1>4. /\ none.active = pass.next.active /\ none.pending = pass.next.pending
      /\ none.lastFire = pass.next.lastFire
  BY <1>3 DEF Statuses
<1>5. <<Due, 0>> \in Runs
  BY <1>2, PolicyAssumption DEF Runs
<1> HIDE DEF none
<1>6. ASSUME NEW s \in {Account(pass.next, Due, 0), Account(none, Due, 1), none}, Settle(s)
      PROVE  Decides
  <2>0. none \in Statuses
    BY <1>3 DEF none
  <2>1. /\ s \in Statuses
        /\ s.active = pass.next.active /\ s.pending = pass.next.pending
        /\ s.lastFire = pass.next.lastFire
    <3>1. CASE s = Account(pass.next, Due, 0)
      BY <1>2, <1>3, <3>1, AccountIs
    <3>2. CASE s = Account(none, Due, 1)
      BY <1>2, <1>4, <2>0, <3>2, AccountIs
    <3>. QED BY <1>4, <2>0, <3>1, <3>2
  <2>2. pc' = "finish" /\ pass' \in PassType /\ Kept /\ pass'.next = s
    BY <1>1, <1>6, <2>1, SettleIs
  <2>. QED BY <1>1, <2>1, <2>2 DEF Decides, DecideSlot
<1>7. ASSUME Admit(<<Due, 0>>), ~(Due <= pass.st.lastFire), ~Blocked PROVE Decides
  <2>1. /\ pc' = "reserve" /\ pass' \in PassType /\ Kept
        /\ pass'.next = pass.next /\ pass'.plan = <<Due, 0>>
    BY <1>1, <1>5, <1>7, AdmitIs
  <2>2. Due > pass.st.lastFire
    BY <1>2, <1>3, <1>7 DEF Slots
  <2>. QED BY <1>1, <1>5, <1>7, <2>1, <2>2 DEF Decides, DecideSlot
<1>. QED BY <1>6, <1>7 DEF DecideSlot, none

LEMMA DecideAttemptIs == TypeOK /\ DecideAttempt => Decides
<1> SUFFICES ASSUME TypeOK, DecideAttempt PROVE Decides
  OBVIOUS
<1> DEFINE fired == [pass.next EXCEPT !.lastFire = Due]
           over(k) == Account([fired EXCEPT !.lastAttempt = k], Due, 0)
           done == {k \in Chain : phase[<<Due, k>>] = "Succeeded"}
<1>1. pc = "decide" /\ Eligible
      /\ UNCHANGED <<now, spec, st, phase, ended, view, behind, faults, history>>
  BY DEF DecideAttempt
<1>2. Due \in Slots /\ Due \in Nat
  BY <1>1, DueIsSlot
<1>3. pass.next \in Statuses /\ (\A k \in Chain : k \in 0 .. MaxAttempt)
      /\ pass.spec.retries \in 0 .. MaxAttempt
  BY <1>1, DecideTypes, PolicyAssumption DEF Specs
<1>4. /\ fired \in Statuses /\ fired.active = pass.next.active
      /\ fired.pending = pass.next.pending /\ fired.lastFire = Due
  BY <1>2, <1>3 DEF Statuses
<1>5. ASSUME NEW k \in Chain
      PROVE  /\ over(k) \in Statuses /\ over(k).active = pass.next.active
             /\ over(k).pending = pass.next.pending /\ over(k).lastFire = Due
  <2> DEFINE s == [fired EXCEPT !.lastAttempt = k]
  <2>1. /\ s \in Statuses /\ s.active = fired.active /\ s.pending = fired.pending
        /\ s.lastFire = fired.lastFire
    BY <1>3, <1>4, <1>5 DEF Statuses
  <2> HIDE DEF s
  <2>2. /\ Account(s, Due, 0) \in Statuses /\ Account(s, Due, 0).active = s.active
        /\ Account(s, Due, 0).pending = s.pending /\ Account(s, Due, 0).lastFire = s.lastFire
    BY <1>2, <2>1, AccountIs
  <2>. QED BY <1>4, <2>1, <2>2 DEF s
<1> HIDE DEF fired, over
<1>6. ASSUME NEW s \in {fired} \cup {over(k) : k \in Chain}, Settle(s) PROVE Decides
  <2>1. /\ s \in Statuses /\ s.active = pass.next.active
        /\ s.pending = pass.next.pending /\ s.lastFire = Due
    BY <1>4, <1>5
  <2>2. pc' = "finish" /\ pass' \in PassType /\ Kept /\ pass'.next = s
    BY <1>1, <1>6, <2>1, SettleIs
  <2>. QED BY <1>1, <2>1, <2>2 DEF Decides
<1>7. PICK n \in Chain :
        /\ \A j \in Chain : j <= n
        /\ IF done # {} THEN \E k \in done : (\A j \in done : k <= j) /\ Settle(over(k))
           ELSE IF phase[<<Due, n>>] = "Running" THEN Settle(fired)
           ELSE IF phase[<<Due, n>>] = "Failed" \/ n >= pass.spec.retries THEN Settle(over(n))
           ELSE IF ~(pass.at >= ended[<<Due, n>>] + RetryDelay) \/ Blocked THEN Settle(fired)
           ELSE Admit(<<Due, n + 1>>)
  BY DEF DecideAttempt, fired, over
<1>8. CASE \E s \in {fired} \cup {over(k) : k \in Chain} : Settle(s)
  BY <1>6, <1>8
<1>9. CASE /\ done = {} /\ phase[<<Due, n>>] \notin {"Running", "Failed"}
           /\ ~(n >= pass.spec.retries) /\ ~Blocked /\ Admit(<<Due, n + 1>>)
  <2>1. n + 1 \in 0 .. MaxAttempt /\ n < pass.spec.retries /\ n \in 0 .. MaxAttempt
    BY <1>3, <1>9, PolicyAssumption
  <2>2. <<Due, n + 1>> \in Runs /\ <<Due, n>> \in Runs
    BY <1>2, <2>1 DEF Runs
  <2>3. /\ pc' = "reserve" /\ pass' \in PassType /\ Kept
        /\ pass'.next = pass.next /\ pass'.plan = <<Due, n + 1>>
    BY <1>1, <1>9, <2>2, AdmitIs
  <2>4. phase[<<Due, n>>] # "None"
    BY <2>1 DEF Chain
  <2>5. phase[<<Due, n>>] = "Retryable"
    BY <1>9, <2>2, <2>4 DEF TypeOK, Terminal
  <2>. QED BY <1>1, <1>7, <1>9, <2>1, <2>2, <2>3, <2>5 DEF Decides
<1>. QED BY <1>7, <1>8, <1>9


LEMMA ReserveIs ==
  ASSUME TypeOK, Reserve
  PROVE  /\ pc = "reserve" /\ pass.plan \in Runs
         /\ \/ /\ ~pass.fresh /\ pc' = "idle" /\ pass' = <<>> /\ UNCHANGED <<st, behind>>
            \/ /\ pass.fresh /\ pc' = "create" /\ behind' = TRUE
               /\ st' \in Statuses /\ st' = [pass.st EXCEPT !.pending = pass.plan]
               /\ pass' \in PassType /\ pass'.st = st'
               /\ pass'.spec = pass.spec /\ pass'.at = pass.at /\ pass'.fresh = pass.fresh
               /\ pass'.next = pass.next /\ pass'.plan = pass.plan
         /\ UNCHANGED <<now, spec, phase, ended, view, faults, history>>
<1>1. pc = "reserve" /\ pass \in PassType /\ pass.plan \in Runs
  BY DEF Reserve, TypeOK
<1>2. CASE pass.fresh
  <2>1. st' = [pass.st EXCEPT !.pending = pass.plan] /\ pass' = [pass EXCEPT !.st = st']
    BY <1>2 DEF Reserve
  <2>2. st' \in Statuses
    BY <1>1, <2>1 DEF PassType, Statuses
  <2>3. /\ pass' \in PassType /\ pass'.st = st'
        /\ pass'.spec = pass.spec /\ pass'.at = pass.at /\ pass'.fresh = pass.fresh
        /\ pass'.next = pass.next /\ pass'.plan = pass.plan
    BY <1>1, <2>1, <2>2 DEF PassType
  <2>. QED BY <1>1, <1>2, <2>1, <2>2, <2>3 DEF Reserve
<1>3. CASE ~pass.fresh
  BY <1>1, <1>3 DEF Reserve, EndPass
<1>. QED BY <1>2, <1>3

LEMMA CreateIs ==
  ASSUME TypeOK, Create
  PROVE  /\ pc = "create" /\ pc' = "finish" /\ pass.plan \in Runs
         /\ pass' \in PassType /\ Kept
         /\ pass'.next.pending = NoRun /\ pass'.next.lastFire = pass.plan[1]
         /\ pass'.next.active = IF phase[pass.plan] \in Terminal THEN pass.next.active
                                ELSE pass.next.active \cup {pass.plan}
         /\ \/ pass.plan \in Existing /\ UNCHANGED <<phase, history>>
            \/ /\ pass.plan \notin Existing
               /\ phase' = [phase EXCEPT ![pass.plan] = "Running"]
               /\ started' = Append(started, pass.plan) /\ fate' = "None"
         /\ UNCHANGED <<now, spec, st, ended, view, behind, faults>>
<1> DEFINE r == pass.plan
           s == [pass.next EXCEPT !.pending = NoRun, !.lastFire = r[1], !.lastAttempt = r[2],
                                  !.active = IF phase[r] \in Terminal THEN @ ELSE @ \cup {r}]
<1>1. pc = "create" /\ pass \in PassType /\ pass.next \in Statuses /\ r \in Runs
  BY DEF Create, TypeOK, PassType
<1>2. r[1] \in Slots /\ r[2] \in 0 .. MaxAttempt
  BY <1>1, RunParts
<1>3. (IF phase[r] \in Terminal THEN pass.next.active ELSE pass.next.active \cup {r}) \in SUBSET Runs
  BY <1>1 DEF Statuses
<1>4. /\ s \in Statuses /\ s.pending = NoRun /\ s.lastFire = r[1]
      /\ s.active = IF phase[r] \in Terminal THEN pass.next.active ELSE pass.next.active \cup {r}
  BY <1>1, <1>2, <1>3 DEF Statuses
<1> HIDE DEF s
<1>5. PICK t \in {s, Account(s, r[1], 0)} : pc' = "finish" /\ pass' = [pass EXCEPT !.next = t]
  BY DEF Create, Settle, s
<1>6. t \in Statuses /\ t.pending = s.pending /\ t.lastFire = s.lastFire /\ t.active = s.active
  BY <1>2, <1>4, <1>5, AccountIs
<1>7. pass' \in PassType /\ Kept /\ pass'.next = t
  BY <1>1, <1>5, <1>6 DEF PassType, Kept
<1>. QED BY <1>1, <1>4, <1>5, <1>6, <1>7 DEF Create

LEMMA FinishIs ==
  ASSUME TypeOK, Finish
  PROVE  /\ pc = "finish" /\ pc' = "idle" /\ pass' = <<>>
         /\ \/ UNCHANGED <<st, behind>>
            \/ /\ pass.fresh /\ behind' = TRUE /\ st' \in Statuses
               /\ st'.active = pass.next.active /\ st'.pending = pass.next.pending
               /\ st'.lastFire = pass.next.lastFire
         /\ UNCHANGED <<now, spec, phase, ended, view, faults, history>>
<1>1. pc = "finish" /\ pass \in PassType
  BY PassHolds DEF Finish
<1>2. /\ pass.spec.gen \in 0 .. MaxEdits + 1
      /\ (IF pass.st.gen = pass.spec.gen THEN pass.next.since ELSE pass.at) \in 0 .. Horizon
  BY <1>1, TimeAssumption, ScheduleBounds DEF PassType, Specs, Statuses
<1>3. /\ Final \in Statuses /\ Final.active = pass.next.active
      /\ Final.pending = pass.next.pending /\ Final.lastFire = pass.next.lastFire
  BY <1>1, <1>2 DEF Final, PassType, Statuses
<1>. QED BY <1>1, <1>3 DEF Finish, EndPass


-----------------------------------------------------------------------------
(* Types.                                                                  *)

LEMMA TypeInit == Init => TypeOK
<1> SUFFICES ASSUME Init PROVE TypeOK
  OBVIOUS
<1>1. CreatedAt \in CreatedAt .. Horizon /\ 0 \in 0 .. Horizon /\ Never \in 0 .. Never
      /\ 0 \in 0 .. MaxAttempt /\ 0 \in 0 .. MaxEdits + 1 /\ 1 \in 1 .. MaxEdits + 1
      /\ 0 \in 0 .. MaxFaults
  BY TimeAssumption, PolicyAssumption, ScheduleBounds DEF Never
<1>2. NewStatus \in Statuses
  BY <1>1 DEF NewStatus, Statuses
<1>3. spec \in Specs /\ now \in CreatedAt .. Horizon
  BY <1>1 DEF Init, Specs
<1>4. started \in Seq(Runs)
  BY DEF Init
<1>. QED BY <1>1, <1>2, <1>3, <1>4 DEF Init, TypeOK

LEMMA TypeStep == TypeOK /\ [Next]_vars => TypeOK'
<1> SUFFICES ASSUME TypeOK, [Next]_vars PROVE TypeOK'
  OBVIOUS
<1> USE DEF TypeOK, history
<1>1. CASE Tick
  <2>1. now + 1 \in CreatedAt .. Horizon
    BY <1>1, TimeAssumption DEF Tick
  <2>. QED BY <1>1, <2>1 DEF Tick
<1>2. CASE Deliver
  BY <1>2 DEF Deliver
<1>3. CASE Edit
  <2>1. PICK m \in Modes, n \in RetryChoices, c \in CatchUpChoices :
          spec' = [spec EXCEPT !.mode = m, !.retries = n, !.catchUp = c, !.gen = @ + 1]
    BY <1>3 DEF Edit
  <2>2. spec.gen + 1 \in 1 .. MaxEdits + 1
    BY <1>3, ScheduleBounds DEF Edit, Specs
  <2>3. spec' \in Specs
    BY <2>1, <2>2 DEF Specs
  <2>4. pc # "idle" => pass' \in PassType /\ pass'.plan = pass.plan
    BY <1>3 DEF Edit, PassType
  <2>. QED BY <1>3, <2>3, <2>4 DEF Edit
<1>4. CASE Interrupt
  BY <1>4, ScheduleBounds DEF Interrupt, EndPass
<1>5. CASE Begin
  BY <1>5, BeginIs
<1>6. CASE Observe
  BY <1>6, ObserveIs
<1>7. CASE Resume
  BY <1>7, ResumeIs
<1>8. CASE DecideNothing \/ DecideAttempt \/ DecideSlot
  <2>1. Decides
    BY <1>8, DecideNothingIs, DecideAttemptIs, DecideSlotIs
  <2>. QED BY <2>1 DEF Decides
<1>9. CASE Reserve
  BY <1>9, ReserveIs
<1>10. CASE Create
  <2>1. started' \in Seq(Runs) /\ fate' \in Terminal \cup {"None"}
    <3>1. Append(started, pass.plan) \in Seq(Runs)
      BY <1>10, CreateIs
    <3>2. UNCHANGED history \/ (started' = Append(started, pass.plan) /\ fate' = "None")
      BY <1>10, CreateIs
    <3>. QED BY <3>1, <3>2
  <2>2. phase' \in [Runs -> Terminal \cup {"None", "Running"}]
    BY <1>10, CreateIs
  <2>. QED BY <1>10, <2>1, <2>2, CreateIs
<1>11. CASE Finish
  BY <1>11, FinishIs
<1>12. ASSUME NEW r \in Runs, EndRun(r) PROVE TypeOK'
  <2>1. PICK outcome \in Terminal :
          /\ phase' = [phase EXCEPT ![r] = outcome]
          /\ ended' = [ended EXCEPT ![r] = IF outcome = "Retryable" THEN now ELSE 0]
          /\ fate' = IF r = started[Len(started)] THEN outcome ELSE fate
    BY <1>12 DEF EndRun
  <2>2. (IF outcome = "Retryable" THEN now ELSE 0) \in 0 .. Horizon
    BY TimeAssumption
  <2>. QED BY <1>12, <2>1, <2>2 DEF EndRun
<1>13. ASSUME NEW r \in Runs, Prune(r) PROVE TypeOK'
  BY <1>13, TimeAssumption DEF Prune
<1>14. CASE UNCHANGED vars
  BY <1>14 DEF vars
<1>. QED BY <1>1, <1>2, <1>3, <1>4, <1>5, <1>6, <1>7, <1>8, <1>9, <1>10, <1>11, <1>12,
         <1>13, <1>14 DEF Next, Step


-----------------------------------------------------------------------------
(* The invariant, action by action.                                        *)

\* What holds under either policy of the copies and of the reservation.
HonestParts ==
  /\ CopiesAreHonest /\ PlanIsReserved /\ StaleReservationIsDead /\ ReservationsAreKept

\* What may be started next, and what is known under Forbid.
TrustParts == LastIsNewest /\ PlanFollows /\ SlotsInOrder /\ ForbidKnowsAll

\* What the list of active runs may name.
ListParts == ListedWereStarted /\ ReservedIsUnlisted

LEMMA LastType == TypeOK => LastStarted \in Runs \cup {NoRun}
BY DEF TypeOK, LastStarted

LEMMA Numbers ==
  ASSUME TypeOK
  PROVE  /\ now \in Nat /\ Horizon \in Nat
         /\ st \in Statuses /\ st.lastFire \in Nat /\ st.pending[1] \in Nat
         /\ view.st \in Statuses /\ view.st.lastFire \in Nat
         /\ LastStarted[1] \in Nat /\ LastStarted[2] \in Nat
         /\ pc # "idle" => /\ pass \in PassType /\ pass.at \in Nat
                           /\ pass.next \in Statuses /\ pass.next.lastFire \in Nat
<1>1. \A r \in Runs \cup {NoRun} : r[1] \in Nat /\ r[2] \in Nat
  BY DEF Runs, NoRun, Slots
<1>2. \A s \in Statuses : s.lastFire \in Nat /\ s.pending \in Runs \cup {NoRun}
  BY DEF Statuses, Slots
<1>. QED BY <1>1, <1>2, LastType, TimeAssumption DEF TypeOK, PassType

\* A pass that holds the object as it is observes every run under way, and the run
\* its own reservation names when there is one.
LEMMA SeesReserved ==
  ASSUME TypeOK, ReservedIsUnlisted, pc = "observe", pass.st.pending \in Existing
  PROVE  pass.st.pending \in Seen
<1>1. First(InventoryReach, Existing) = Existing
  BY FirstOfAll, GoingRuns, ReachAssumption, ScheduleBounds
<1>. QED BY <1>1 DEF Seen, ReservedIsUnlisted

LEMMA SeesAll ==
  ASSUME TypeOK, CopiesAreHonest, ActiveIsComplete, ReservedAlone, OneIsListed,
         pc = "observe", pass.fresh
  PROVE  First(MaxActive, Seen \cap Going) = Going
<1>1. First(InventoryReach, Existing) = Existing
  BY FirstOfAll, GoingRuns, ReachAssumption, ScheduleBounds
<1>2. pass.st = st /\ Going \subseteq st.active \cup {st.pending}
  BY DEF CopiesAreHonest, ActiveIsComplete
<1>3. MaxActive \in Nat /\ MaxActive # 0 /\ (\A q, r \in Going : q = r)
  BY PolicyAssumption DEF ReservedAlone
<1>4. First(MaxActive, st.active) = st.active
  <2>1. st.active \in SUBSET Runs /\ (\A q, r \in st.active : q = r)
    BY DEF TypeOK, Statuses, OneIsListed
  <2>. QED BY <1>3, <2>1, FirstOfAll
<1>5. Seen \cap Going = Going
  BY <1>1, <1>2, <1>4, GoingRuns DEF Seen
<1>. QED BY <1>3, <1>5, FirstOfAll, GoingRuns

\* The runs the copies of the status reserve.
ReservationNames(S) ==
  /\ st.pending \in S /\ view.st.pending \in S
  /\ pc # "idle" => pass.st.pending \in S

LEMMA ReservationTypes == TypeOK => ReservationNames(Runs \cup {NoRun})
BY PassHolds DEF ReservationNames, TypeOK, Statuses, PassType

LEMMA PolicyStep ==
  TypeOK /\ PolicyIsKept /\ [Next]_vars => PolicyIsKept' /\ spec'.policy = spec.policy
<1> SUFFICES ASSUME TypeOK, PolicyIsKept, [Next]_vars
             PROVE  PolicyIsKept' /\ spec'.policy = spec.policy
  OBVIOUS
<1> USE DEF PolicyIsKept
<1>1. CASE Edit
  <2>1. spec'.policy = spec.policy /\ UNCHANGED <<view, pc>>
    BY <1>1 DEF Edit, TypeOK, Specs
  <2>2. pc # "idle" => pass'.spec = pass.spec
    BY <1>1 DEF Edit, TypeOK, PassType
  <2>. QED BY <2>1, <2>2
<1>2. CASE Tick \/ Deliver \/ Interrupt \/ UNCHANGED vars
  BY <1>2 DEF Tick, Deliver, Interrupt, EndPass, vars
<1>3. CASE Begin \/ Observe \/ Resume
  BY <1>3, BeginIs, ObserveIs, ResumeIs DEF Kept
<1>4. CASE DecideNothing \/ DecideAttempt \/ DecideSlot
  BY <1>4, DecideNothingIs, DecideAttemptIs, DecideSlotIs DEF Decides, Kept
<1>5. CASE Reserve \/ Create \/ Finish
  BY <1>5, ReserveIs, CreateIs, FinishIs DEF Kept
<1>6. ASSUME NEW r \in Runs, EndRun(r) \/ Prune(r)
      PROVE  PolicyIsKept' /\ spec'.policy = spec.policy
  BY <1>6 DEF EndRun, Prune
<1>. QED BY <1>1, <1>2, <1>3, <1>4, <1>5, <1>6 DEF Next, Step

\* None of what the copies promise depends on the concurrency policy.
LEMMA HonestStep ==
  TypeOK /\ TypeOK' /\ HonestParts /\ ReservedIsUnlisted /\ [Next]_vars => HonestParts'
<1> SUFFICES ASSUME TypeOK, TypeOK', HonestParts, ReservedIsUnlisted, [Next]_vars
             PROVE  HonestParts'
  OBVIOUS
<1> USE DEF HonestParts, history
<1>1. CASE Tick
  BY <1>1 DEF Tick, CopiesAreHonest, PlanIsReserved, StaleReservationIsDead,
     ReservationsAreKept, Unborn
<1>2. CASE Deliver
  BY <1>2 DEF Deliver, CopiesAreHonest, PlanIsReserved, StaleReservationIsDead,
     ReservationsAreKept, Unborn
<1>3. CASE Edit
  <2>1. /\ UNCHANGED <<st, phase, view, pc>> /\ behind' = TRUE
        /\ pc = "idle" => pass' = pass
    BY <1>3 DEF Edit
  <2>2. pc # "idle" =>
          /\ pass'.spec = pass.spec /\ pass'.st = pass.st
          /\ pass'.next = pass.next /\ pass'.plan = pass.plan /\ pass'.fresh = FALSE
    BY <1>3 DEF Edit, TypeOK, PassType
  <2>. QED BY <2>1, <2>2 DEF CopiesAreHonest, PlanIsReserved, StaleReservationIsDead,
           ReservationsAreKept, Unborn
<1>4. CASE Interrupt
  BY <1>4 DEF Interrupt, EndPass, CopiesAreHonest, PlanIsReserved, StaleReservationIsDead,
     ReservationsAreKept, Unborn
<1>5. CASE Begin
  <2>1. pass'.fresh => ~behind
    BY <1>5, BeginIs
  <2>2. pass'.fresh => view.st = st /\ view.spec = spec
    BY <2>1 DEF CopiesAreHonest
  <2>3. /\ pc = "idle" /\ pc' = "observe" /\ pass'.spec = view.spec /\ pass'.st = view.st
        /\ UNCHANGED <<spec, st, phase, view, behind>>
    BY <1>5, BeginIs
  <2>. QED BY <2>1, <2>2, <2>3 DEF CopiesAreHonest, PlanIsReserved,
           StaleReservationIsDead, ReservationsAreKept, Unborn
<1>6. CASE Observe
  <2>1. ~Unborn(pass.st.pending)
    BY <1>6, ObserveIs DEF Unborn, Existing
  <2>. QED BY <1>6, <2>1, ObserveIs DEF Kept, CopiesAreHonest, PlanIsReserved,
           StaleReservationIsDead, ReservationsAreKept, Unborn
<1>7. CASE Resume
  <2>1. Unborn(pass.st.pending)
    BY <1>7, ResumeIs, SeesReserved, RunParts DEF Unborn, Existing
  <2>2. CopiesAreHonest' /\ PlanIsReserved'
    BY <1>7, <2>1, ResumeIs DEF Kept, CopiesAreHonest, PlanIsReserved, StaleReservationIsDead
  <2>3. StaleReservationIsDead' /\ ReservationsAreKept'
    BY <1>7, <2>1, ResumeIs DEF Kept, CopiesAreHonest, StaleReservationIsDead,
       ReservationsAreKept, Unborn
  <2>. QED BY <2>2, <2>3
<1>8. CASE DecideNothing \/ DecideAttempt \/ DecideSlot
  <2>1. Decides
    BY <1>8, DecideNothingIs, DecideAttemptIs, DecideSlotIs
  <2>2. CopiesAreHonest' /\ PlanIsReserved'
    BY <2>1 DEF Decides, Kept, CopiesAreHonest, PlanIsReserved
  <2>3. StaleReservationIsDead' /\ ReservationsAreKept'
    BY <2>1 DEF Decides, Kept, CopiesAreHonest, StaleReservationIsDead, ReservationsAreKept, Unborn
  <2>. QED BY <2>2, <2>3
<1>9. CASE Reserve
  <2>1. pass.fresh => st = pass.st /\ ~Unborn(view.st.pending)
    BY <1>9, ReserveIs DEF CopiesAreHonest, ReservationsAreKept
  <2>2. pass.fresh => st'.pending = pass.plan
    BY <1>9, ReserveIs DEF TypeOK, PassType, Statuses
  <2>. QED BY <1>9, <2>1, <2>2, ReserveIs DEF CopiesAreHonest, PlanIsReserved,
           StaleReservationIsDead, ReservationsAreKept, Unborn
<1>10. CASE Create
  <2>1. \A r \in Runs : phase'[r] = "None" => phase[r] = "None"
    BY <1>10, CreateIs DEF TypeOK
  <2>2. phase'[pass.plan] # "None" /\ st.pending = pass.plan
    BY <1>10, CreateIs DEF TypeOK, Existing, PlanIsReserved
  <2>3. view.st.pending \in Runs \cup {NoRun}
    BY DEF TypeOK, Statuses
  <2>. QED BY <1>10, <2>1, <2>2, <2>3, CreateIs DEF Kept, CopiesAreHonest, PlanIsReserved,
           StaleReservationIsDead, ReservationsAreKept, Unborn
<1>11. CASE Finish
  <2>1. \/ UNCHANGED <<st, behind>>
        \/ pass.fresh /\ behind' = TRUE /\ st'.pending = NoRun
    BY <1>11, FinishIs DEF ReservationsAreKept
  <2>2. pc = "finish" /\ pc' = "idle" /\ UNCHANGED <<spec, phase, view>>
    BY <1>11, FinishIs
  <2>. QED BY <2>1, <2>2 DEF CopiesAreHonest, PlanIsReserved,
           StaleReservationIsDead, ReservationsAreKept, Unborn
<1>12. ASSUME NEW r \in Runs, EndRun(r) PROVE HonestParts'
  <2>1. \A q \in Runs : phase'[q] = "None" <=> phase[q] = "None"
    BY <1>12 DEF EndRun, TypeOK, Terminal
  <2>2. UNCHANGED <<spec, st, view, behind, pc, pass>>
    BY <1>12 DEF EndRun
  <2>3. ReservationNames(Runs \cup {NoRun})
    BY ReservationTypes
  <2>. QED BY <2>1, <2>2, <2>3 DEF ReservationNames, CopiesAreHonest, PlanIsReserved,
           StaleReservationIsDead, ReservationsAreKept, Unborn
<1>13. ASSUME NEW r \in Runs, Prune(r) PROVE HonestParts'
  <2>1. \A q \in Runs : q # r => phase'[q] = phase[q]
    BY <1>13 DEF Prune, TypeOK
  <2>2. /\ UNCHANGED <<spec, st, view, behind, pc, pass>>
        /\ r # st.pending /\ r # view.st.pending /\ (pc # "idle" => r # pass.st.pending)
    BY <1>13 DEF Prune, NamedBy
  <2>3. ReservationNames(Runs \cup {NoRun})
    BY ReservationTypes
  <2>4. /\ Unborn(st.pending)' <=> Unborn(st.pending)
        /\ Unborn(view.st.pending)' <=> Unborn(view.st.pending)
        /\ pc # "idle" => (Unborn(pass.st.pending)' <=> Unborn(pass.st.pending))
    BY <2>1, <2>2, <2>3 DEF ReservationNames, Unborn
  <2>. QED BY <2>2, <2>4 DEF CopiesAreHonest, PlanIsReserved,
           StaleReservationIsDead, ReservationsAreKept
<1>14. CASE UNCHANGED vars
  BY <1>14 DEF vars, CopiesAreHonest, PlanIsReserved, StaleReservationIsDead,
     ReservationsAreKept, Unborn
<1>. QED BY <1>1, <1>2, <1>3, <1>4, <1>5, <1>6, <1>7, <1>8, <1>9, <1>10, <1>11, <1>12,
         <1>13, <1>14 DEF Next, Step

LEMMA TickKeeps ==
  ASSUME TypeOK, TypeOK', HonestParts, TrustParts, spec'.policy = spec.policy, Tick
  PROVE  TrustParts'
<1> USE DEF HonestParts, TrustParts, ForbidKnowsAll
<1>f. ASSUME spec.policy = "Forbid"
      PROVE  ActiveIsComplete' /\ NextIsComplete' /\ ReservedAlone' /\ OneIsListed'
  <2>1. ActiveIsComplete'
    BY <1>f DEF Tick, history, ActiveIsComplete, Going
  <2>2. NextIsComplete'
    BY <1>f DEF Tick, history, NextIsComplete, Going
  <2>3. ReservedAlone'
    BY <1>f DEF Tick, history, ReservedAlone, Unborn, Going
  <2>4. OneIsListed'
    BY <1>f DEF Tick, history, OneIsListed, Unborn, Going
  <2>. QED BY <2>1, <2>2, <2>3, <2>4
<1>c1. ForbidKnowsAll'
  BY <1>f DEF ForbidKnowsAll
<1>c2. LastIsNewest'
  BY DEF Tick, history, LastIsNewest, Going, Existing, LastStarted
<1>c3. PlanFollows'
  BY DEF Tick, history, PlanFollows, Unborn, MayFollow, LastStarted
<1>c4. SlotsInOrder'
  BY Numbers DEF Tick, history, SlotsInOrder, LastStarted
<1>. QED BY <1>c1, <1>c2, <1>c3, <1>c4

LEMMA DeliverKeeps ==
  ASSUME TypeOK, TypeOK', HonestParts, TrustParts, spec'.policy = spec.policy, Deliver
  PROVE  TrustParts'
<1> USE DEF HonestParts, TrustParts, ForbidKnowsAll
<1>f. ASSUME spec.policy = "Forbid"
      PROVE  ActiveIsComplete' /\ NextIsComplete' /\ ReservedAlone' /\ OneIsListed'
  <2>1. ActiveIsComplete'
    BY <1>f DEF Deliver, history, ActiveIsComplete, Going
  <2>2. NextIsComplete'
    BY <1>f DEF Deliver, history, NextIsComplete, Going
  <2>3. ReservedAlone'
    BY <1>f DEF Deliver, history, ReservedAlone, Unborn, Going
  <2>4. OneIsListed'
    BY <1>f DEF Deliver, history, OneIsListed, Unborn, Going
  <2>. QED BY <2>1, <2>2, <2>3, <2>4
<1>c1. ForbidKnowsAll'
  BY <1>f DEF ForbidKnowsAll
<1>c2. LastIsNewest'
  BY DEF Deliver, history, LastIsNewest, Going, Existing, LastStarted
<1>c3. PlanFollows'
  BY DEF Deliver, history, PlanFollows, Unborn, MayFollow, LastStarted
<1>c4. SlotsInOrder'
  BY DEF Deliver, history, SlotsInOrder, LastStarted
<1>. QED BY <1>c1, <1>c2, <1>c3, <1>c4

LEMMA EditKeeps ==
  ASSUME TypeOK, TypeOK', HonestParts, TrustParts, spec'.policy = spec.policy, Edit
  PROVE  TrustParts'
<1> USE DEF HonestParts, TrustParts, ForbidKnowsAll
<1>1. /\ UNCHANGED <<now, st, phase, view, pc, started, fate>> /\ behind' = TRUE
      /\ pc = "idle" => pass' = pass
  BY DEF Edit, history
<1>2. pc # "idle" =>
        /\ pass'.spec = pass.spec /\ pass'.st = pass.st /\ pass'.at = pass.at
        /\ pass'.next = pass.next /\ pass'.plan = pass.plan /\ pass'.fresh = FALSE
  BY DEF Edit, TypeOK, PassType
<1>f. ASSUME spec.policy = "Forbid"
      PROVE  ActiveIsComplete' /\ NextIsComplete' /\ ReservedAlone' /\ OneIsListed'
  <2>1. ActiveIsComplete'
    BY <1>f, <1>1, <1>2 DEF ActiveIsComplete, Going
  <2>2. NextIsComplete'
    BY <1>f, <1>1, <1>2 DEF NextIsComplete, Going
  <2>3. ReservedAlone'
    BY <1>f, <1>1, <1>2 DEF ReservedAlone, Unborn, Going
  <2>4. OneIsListed'
    BY <1>f, <1>1, <1>2 DEF OneIsListed, Unborn, Going
  <2>. QED BY <2>1, <2>2, <2>3, <2>4
<1>c1. ForbidKnowsAll'
  BY <1>f DEF ForbidKnowsAll
<1>c2. LastIsNewest'
  BY <1>1, <1>2 DEF LastIsNewest, Going, Existing, LastStarted
<1>c3. PlanFollows'
  BY <1>1, <1>2 DEF PlanFollows, Unborn, MayFollow, LastStarted
<1>c4. SlotsInOrder'
  BY <1>1, <1>2 DEF SlotsInOrder, LastStarted
<1>. QED BY <1>c1, <1>c2, <1>c3, <1>c4

LEMMA InterruptKeeps ==
  ASSUME TypeOK, TypeOK', HonestParts, TrustParts, spec'.policy = spec.policy, Interrupt
  PROVE  TrustParts'
<1> USE DEF HonestParts, TrustParts, ForbidKnowsAll
<1>f. ASSUME spec.policy = "Forbid"
      PROVE  ActiveIsComplete' /\ NextIsComplete' /\ ReservedAlone' /\ OneIsListed'
  <2>1. ActiveIsComplete'
    BY <1>f DEF Interrupt, EndPass, history, ActiveIsComplete, Going
  <2>2. NextIsComplete'
    BY <1>f DEF Interrupt, EndPass, history, NextIsComplete, Going
  <2>3. ReservedAlone'
    BY <1>f DEF Interrupt, EndPass, history, ReservedAlone, Unborn, Going
  <2>4. OneIsListed'
    BY <1>f DEF Interrupt, EndPass, history, OneIsListed, Unborn, Going
  <2>. QED BY <2>1, <2>2, <2>3, <2>4
<1>c1. ForbidKnowsAll'
  BY <1>f DEF ForbidKnowsAll
<1>c2. LastIsNewest'
  BY DEF Interrupt, EndPass, history, LastIsNewest, Going, Existing, LastStarted
<1>c3. PlanFollows'
  BY DEF Interrupt, EndPass, history, PlanFollows, Unborn, MayFollow, LastStarted
<1>c4. SlotsInOrder'
  BY DEF Interrupt, EndPass, history, SlotsInOrder, LastStarted
<1>. QED BY <1>c1, <1>c2, <1>c3, <1>c4

LEMMA BeginKeeps ==
  ASSUME TypeOK, TypeOK', HonestParts, TrustParts, spec'.policy = spec.policy, Begin
  PROVE  TrustParts'
<1> USE DEF HonestParts, TrustParts, ForbidKnowsAll
<1>1. /\ pc = "idle" /\ pc' = "observe"
      /\ pass'.spec = view.spec /\ pass'.st = view.st /\ pass'.next = view.st
      /\ pass'.at = now
      /\ UNCHANGED <<now, spec, st, phase, ended, view, behind, faults, started, fate>>
  BY BeginIs DEF history
<1>2. pass'.fresh => ~behind
  BY BeginIs
<1>3. pass'.fresh => view.st = st /\ view.spec = spec
  BY <1>2 DEF CopiesAreHonest
<1>f. ASSUME spec.policy = "Forbid"
      PROVE  ActiveIsComplete' /\ NextIsComplete' /\ ReservedAlone' /\ OneIsListed'
  <2>1. ActiveIsComplete'
    BY <1>f, <1>1, <1>2, <1>3 DEF ActiveIsComplete, Going
  <2>2. NextIsComplete'
    BY <1>f, <1>1, <1>2, <1>3 DEF NextIsComplete, Going
  <2>3. ReservedAlone'
    BY <1>f, <1>1, <1>2, <1>3 DEF ReservedAlone, Unborn, Going
  <2>4. OneIsListed'
    BY <1>f, <1>1, <1>2, <1>3 DEF OneIsListed, Unborn, Going
  <2>. QED BY <2>1, <2>2, <2>3, <2>4
<1>c1. ForbidKnowsAll'
  BY <1>f DEF ForbidKnowsAll
<1>c2. LastIsNewest'
  BY <1>1, <1>2, <1>3 DEF LastIsNewest, Going, Existing, LastStarted
<1>c3. PlanFollows'
  BY <1>1, <1>2, <1>3 DEF PlanFollows, Unborn, MayFollow, LastStarted
<1>c4. SlotsInOrder'
  BY <1>1, <1>2, <1>3, Numbers DEF SlotsInOrder, LastStarted
<1>. QED BY <1>c1, <1>c2, <1>c3, <1>c4

LEMMA ObserveKeeps ==
  ASSUME TypeOK, TypeOK', HonestParts, TrustParts, spec'.policy = spec.policy, Observe
  PROVE  TrustParts'
<1> USE DEF HonestParts, TrustParts, ForbidKnowsAll
<1>1. /\ pc = "observe" /\ UNCHANGED <<now, spec, st, phase, ended, view, behind, faults, started, fate>>
      /\ pass'.spec = pass.spec /\ pass'.st = pass.st
      /\ pass'.at = pass.at /\ pass'.fresh = pass.fresh
  BY ObserveIs DEF history, Kept
<1>2. spec.policy = "Forbid" /\ pass.fresh => First(MaxActive, Seen \cap Going) = Going
  BY <1>1, SeesAll
<1>3. /\ pc' = "decide" /\ pass'.next.pending = NoRun
      /\ pass.st.pending # NoRun => pass.st.pending \in Existing
      /\ pass'.next.active = First(MaxActive, Seen \cap Going)
      /\ \/ pass'.next.lastFire = pass.next.lastFire
         \/ pass.st.pending # NoRun /\ pass'.next.lastFire = pass.st.pending[1]
  BY ObserveIs
<1>f. ASSUME spec.policy = "Forbid"
      PROVE  ActiveIsComplete' /\ NextIsComplete' /\ ReservedAlone' /\ OneIsListed'
  <2>1. ActiveIsComplete'
    BY <1>f, <1>1, <1>2, <1>3 DEF ActiveIsComplete, Going
  <2>2. NextIsComplete'
    BY <1>f, <1>1, <1>2, <1>3 DEF NextIsComplete, Going
  <2>3. ReservedAlone'
    BY <1>f, <1>1, <1>2, <1>3 DEF ReservedAlone, Unborn, Going
  <2>4. OneIsListed'
    BY <1>f, <1>1, <1>3 DEF OneIsListed, ReservedAlone, First
  <2>. QED BY <2>1, <2>2, <2>3, <2>4
<1>c1. ForbidKnowsAll'
  BY <1>f DEF ForbidKnowsAll
<1>c2. LastIsNewest'
  BY <1>1, <1>2, <1>3 DEF LastIsNewest, Going, Existing, LastStarted
<1>c3. PlanFollows'
  BY <1>1, <1>2, <1>3 DEF PlanFollows, Unborn, MayFollow, LastStarted
<1>c4. SlotsInOrder'
  BY <1>1, <1>2, <1>3, Numbers DEF SlotsInOrder, LastStarted, CopiesAreHonest
<1>. QED BY <1>c1, <1>c2, <1>c3, <1>c4

LEMMA ResumeKeeps ==
  ASSUME TypeOK, TypeOK', HonestParts, ReservedIsUnlisted, TrustParts, spec'.policy = spec.policy, Resume
  PROVE  TrustParts'
<1> USE DEF HonestParts, TrustParts, ForbidKnowsAll
<1>1. /\ pc = "observe" /\ UNCHANGED <<now, spec, st, phase, ended, view, behind, faults, started, fate>>
      /\ pass'.spec = pass.spec /\ pass'.st = pass.st
      /\ pass'.at = pass.at /\ pass'.fresh = pass.fresh
  BY ResumeIs DEF history, Kept
<1>2. spec.policy = "Forbid" /\ pass.fresh => First(MaxActive, Seen \cap Going) = Going
  BY <1>1, SeesAll
<1>3. /\ pass'.next.active = First(MaxActive, Seen \cap Going)
      /\ pass'.next.lastFire = pass.next.lastFire
      /\ \/ pass.spec.mode = "badPolicy" /\ pc' = "finish" /\ pass'.next.pending = NoRun
         \/ pass.spec.mode # "badPolicy" /\ pc' = "create" /\ pass'.plan = pass.st.pending
  BY ResumeIs
<1>4. Unborn(pass.st.pending)
  BY ResumeIs, SeesReserved, RunParts DEF Unborn, Existing
<1>f. ASSUME spec.policy = "Forbid"
      PROVE  ActiveIsComplete' /\ NextIsComplete' /\ ReservedAlone' /\ OneIsListed'
  <2>1. ActiveIsComplete'
    BY <1>f, <1>1, <1>2, <1>3, <1>4 DEF ActiveIsComplete, Going
  <2>2. NextIsComplete'
    BY <1>f, <1>1, <1>2, <1>3, <1>4 DEF NextIsComplete, Going
  <2>3. ReservedAlone'
    BY <1>f, <1>1, <1>2, <1>3, <1>4 DEF ReservedAlone, Unborn, Going
  <2>4. OneIsListed'
    <3>1. pass.fresh => Going = {}
      BY <1>f, <1>1, <1>4 DEF ReservedAlone, CopiesAreHonest
    <3>2. pass.fresh => pass'.next.active = {}
      BY <1>3, <3>1 DEF First
    <3>. QED BY <1>f, <1>1, <1>3, <3>2 DEF OneIsListed
  <2>. QED BY <2>1, <2>2, <2>3, <2>4
<1>c1. ForbidKnowsAll'
  BY <1>f DEF ForbidKnowsAll
<1>c2. LastIsNewest'
  BY <1>1, <1>2, <1>3, <1>4 DEF LastIsNewest, Going, Existing, LastStarted
<1>c3. PlanFollows'
  BY <1>1, <1>2, <1>3, <1>4 DEF PlanFollows, Unborn, MayFollow, LastStarted
<1>c4. SlotsInOrder'
  BY <1>1, <1>2, <1>3, <1>4, Numbers DEF SlotsInOrder, LastStarted
<1>. QED BY <1>c1, <1>c2, <1>c3, <1>c4

\* Under Forbid a pass that is not blocked knows of no run under way.
LEMMA NotBlocked ==
  ASSUME spec.policy = "Forbid", TypeOK, PolicyIsKept, pc = "decide", ~Blocked
  PROVE  pass.next.active = {}
<1>1. pass \in PassType /\ pass.spec.policy = "Forbid" /\ pass.next.active \in SUBSET Runs
  BY PassHolds DEF PolicyIsKept, PassType, Statuses
<1>2. ~(Cardinality(pass.next.active) >= 1)
  BY <1>1 DEF Blocked, Limit
<1>3. IsFiniteSet(pass.next.active) /\ Cardinality(pass.next.active) \in Nat
  BY <1>1, RunsFinite, FS_Subset, FS_CardinalityType
<1>. QED BY <1>2, <1>3, FS_EmptySet

\* What a pass admits follows the run started last: a slot of which no attempt is
\* left was not fired, or is newer; and the last attempt there is of a slot is the
\* last that was started.
LEMMA AdmittedFollows ==
  ASSUME TypeOK, CopiesAreHonest, LastIsNewest, SlotsInOrder,
         Decides, pc' = "reserve", pass.fresh
  PROVE  MayFollow(pass'.plan)
<1> DEFINE L == LastStarted
<1>1. /\ pc = "decide" /\ Eligible /\ pass'.plan \in Runs /\ pass.st = st
      /\ \/ Chain = {} /\ pass'.plan = <<Due, 0>> /\ Due > st.lastFire
         \/ \E n \in Chain : /\ n < pass.spec.retries /\ (\A j \in Chain : j <= n)
                             /\ phase[<<Due, n>>] = "Retryable"
                             /\ pass'.plan = <<Due, n + 1>>
  BY DEF Decides, CopiesAreHonest
<1>2. Due \in Nat /\ Due \in Slots /\ (\A s \in Slots \cup {0} : s <= pass.at => s <= Due)
  BY <1>1, DueIsSlot
<1>3. L \in Runs \cup {NoRun} /\ L[1] \in Slots \cup {0} /\ L[1] \in Nat /\ L[2] \in Nat
  BY LastType, RunParts, Numbers DEF NoRun
<1>4. L[1] <= Due
  BY <1>1, <1>2, <1>3 DEF SlotsInOrder
<1>5. pass.spec.retries \in 0 .. MaxAttempt /\ MaxAttempt \in Nat
  BY <1>1, PassHolds, PolicyAssumption DEF PassType, Specs
<1>6. Due # 0
  BY <1>2, TimeAssumption DEF Slots
<1>7. CASE Chain = {} /\ pass'.plan = <<Due, 0>> /\ Due > st.lastFire
  <2>1. phase[<<Due, 0>>] = "None"
    <3>1. phase[<<Due, 0>>] # "None" => 0 \in Chain
      BY <1>5 DEF Chain
    <3>. QED BY <1>7, <3>1
  <2>2. L[1] # Due
    <3>1. L[1] = Due => L # NoRun
      BY <1>6 DEF NoRun
    <3>. QED BY <1>7, <2>1, <3>1 DEF LastIsNewest
  <2>3. Due > L[1]
    BY <1>2, <1>3, <1>4, <2>2
  <2>. QED BY <1>7, <2>3 DEF MayFollow
<1>8. ASSUME NEW n \in Chain, n < pass.spec.retries, \A j \in Chain : j <= n,
             phase[<<Due, n>>] = "Retryable", pass'.plan = <<Due, n + 1>>
      PROVE  MayFollow(pass'.plan)
  <2>1. n \in 0 .. MaxAttempt /\ n + 1 \in 0 .. MaxAttempt /\ WalkRetries
    BY <1>5, <1>8 DEF Chain, WalkRetries
  <2>2. <<Due, n>> \in Runs /\ <<Due, n + 1>> \in Runs /\ <<Due, n>> \in Existing
    BY <1>2, <1>8, <2>1 DEF Runs, Existing
  <2>3. <<Due, n>> = L \/ Before(<<Due, n>>, L)
    BY <2>2 DEF LastIsNewest
  <2>4. L[1] = Due /\ n <= L[2] /\ L # NoRun
    BY <1>2, <1>3, <1>4, <1>6, <2>1, <2>3 DEF Before, NoRun
  <2>5. L \in Runs /\ L = <<L[1], L[2]>>
    BY <1>3, <2>4, RunParts
  <2>6. L[2] = n
    <3> SUFFICES ASSUME n < L[2] PROVE FALSE
      BY <1>3, <2>1, <2>4
    <3>1. <<Due, n + 1>> = L \/ Before(<<Due, n + 1>>, L)
      BY <1>2, <1>3, <2>1, <2>4, <2>5 DEF Before
    <3>2. Before(<<Due, n>>, <<Due, n + 1>>)
      BY <1>2, <2>1 DEF Before
    <3>3. <<Due, n + 1>> \in Existing
      BY <2>2, <2>4, <3>1, <3>2 DEF LastIsNewest
    <3>4. \A j \in 0 .. n + 1 : phase[<<Due, j>>] # "None"
      <4>1. \A j \in 0 .. n : phase[<<Due, j>>] # "None"
        BY <1>8 DEF Chain
      <4>2. phase[<<Due, n + 1>>] # "None"
        BY <3>3 DEF Existing
      <4>3. \A j \in 0 .. n + 1 : j \in 0 .. n \/ j = n + 1
        BY <2>1
      <4>. QED BY <4>1, <4>2, <4>3
    <3>5. n + 1 \in Chain
      BY <2>1, <3>4 DEF Chain
    <3>. QED BY <1>8, <2>1, <3>5
  <2>7. phase[L] = "Retryable"
    BY <1>8, <2>4, <2>5, <2>6
  <2>8. fate = "Retryable"
    BY <2>4, <2>7 DEF LastIsNewest
  <2>. QED BY <1>8, <2>4, <2>6, <2>8 DEF MayFollow
<1>. QED BY <1>1, <1>7, <1>8


\* Within a slot the order of runs is that of their attempts.
LEMMA BeforeParts ==
  /\ \A r, q \in Runs : r[1] = q[1] /\ Before(r, q) => r[2] < q[2]
  /\ \A r \in Runs \cup {NoRun} : r[1] \in Nat /\ r[2] \in Nat
BY DEF Before, Runs, NoRun, Slots

LEMMA FollowsIs ==
  ASSUME TypeOK, NEW p \in Runs, MayFollow(p)
  PROVE  \/ p[2] = 0 /\ p[1] > LastStarted[1]
         \/ p[1] = LastStarted[1] /\ p[2] = LastStarted[2] + 1 /\ LastStarted \in Runs
<1> DEFINE L == LastStarted
<1>1. /\ p[1] \in Slots /\ p[1] \in Nat /\ p = <<p[1], p[2]>>
      /\ L \in Runs \cup {NoRun} /\ L[1] \in Nat /\ L[2] \in Nat
  BY RunParts, BeforeParts, LastType
<1>2. p[1] # 0
  BY <1>1, TimeAssumption DEF Slots
<1>3. p = <<L[1], L[2] + 1>> => p[1] = L[1] /\ p[2] = L[2] + 1 /\ L # NoRun
  BY <1>1, <1>2 DEF NoRun
<1>. QED BY <1>1, <1>3 DEF MayFollow

\* What may be started next is newer than every run started so far.
LEMMA FollowsAll ==
  ASSUME TypeOK, NEW p \in Runs, MayFollow(p),
         NEW r \in Runs, r = LastStarted \/ Before(r, LastStarted)
  PROVE  Before(r, p)
<1>1. \A q \in Runs \cup {NoRun} : q[1] \in Nat /\ q[2] \in Nat
  BY BeforeParts
<1>2. Before(LastStarted, p)
  BY <1>1, LastType, FollowsIs DEF Before
<1>. QED BY <1>1, <1>2, LastType DEF Before

\* What was reserved and follows the run started last is, once created, the newest.
LEMMA NewestIsNext ==
  ASSUME TypeOK, LastIsNewest, PlanFollows,
         NEW p \in Runs, st.pending = p, Unborn(p), fate' = "None",
         phase' = [phase EXCEPT ![p] = "Running"], LastStarted' = p, UNCHANGED st
  PROVE  LastIsNewest'
<1> DEFINE L == LastStarted
<1>1. /\ p[1] \in Slots /\ p[1] \in Nat /\ p[2] \in Nat /\ p = <<p[1], p[2]>> /\ p # NoRun
      /\ L \in Runs \cup {NoRun} /\ L[1] \in Nat /\ L[2] \in Nat
  BY RunParts, BeforeParts, LastType
<1>2. \/ p[2] = 0 /\ p[1] > L[1]
      \/ p[1] = L[1] /\ p[2] = L[2] + 1 /\ L \in Runs
  BY FollowsIs DEF PlanFollows
<1>3. Existing' = Existing \cup {p} /\ phase'[p] = "Running"
  BY DEF Existing, TypeOK, Unborn
<1>4. \A q \in Runs : q # p => phase'[q] = phase[q]
  BY DEF TypeOK
<1>5. ASSUME p[1] > st.lastFire PROVE phase'[<<p[1], 0>>] # "None"
  <2>1. CASE p[2] = 0
    BY <1>1, <1>3, <2>1
  <2>2. CASE p[1] = L[1] /\ p[2] = L[2] + 1 /\ L \in Runs
    <3>1. phase[<<L[1], 0>>] # "None" /\ <<L[1], 0>> \in Runs
      BY <1>1, <1>5, <2>2, RunParts, PolicyAssumption DEF LastIsNewest, Runs
    <3>. QED BY <1>1, <1>4, <2>2, <3>1
  <2>. QED BY <1>2, <2>1, <2>2
<1>6. \A r \in Existing : Before(r, p)
  <2> SUFFICES ASSUME NEW r \in Existing PROVE Before(r, p)
    OBVIOUS
  <2>1. r = L \/ Before(r, L)
    BY DEF LastIsNewest
  <2>2. r[1] \in Nat /\ r[2] \in Nat
    BY BeforeParts DEF Existing
  <2>. QED BY <1>1, <1>2, <2>1, <2>2 DEF Before
<1>7. ASSUME NEW r \in Runs, NEW q \in Runs, r \in Existing', Before(r, q), q[1] = p[1],
             q = p \/ Before(q, p), r[1] = q[1]
      PROVE  q \in Existing'
  <2> SUFFICES ASSUME q # p PROVE q \in Existing
    BY <1>3
  <2>1. q[2] < p[2] /\ r[2] < q[2] /\ q[2] \in Nat /\ r[2] \in Nat /\ q = <<q[1], q[2]>>
    BY <1>7, BeforeParts, RunParts
  <2>2. r \in Existing /\ p[1] = L[1] /\ p[2] = L[2] + 1 /\ L \in Runs
    BY <1>1, <1>2, <1>3, <1>7, <2>1
  <2>3. q = L \/ Before(q, L)
    <3>1. L = <<L[1], L[2]>>
      BY <2>2, RunParts
    <3>. QED BY <1>1, <1>7, <2>1, <2>2, <3>1 DEF Before
  <2>. QED BY <1>7, <2>2, <2>3 DEF LastIsNewest
<1>. QED BY <1>1, <1>3, <1>5, <1>6, <1>7 DEF LastIsNewest

LEMMA DecideKeeps ==
  ASSUME TypeOK, TypeOK', HonestParts, PolicyIsKept, TrustParts, spec'.policy = spec.policy, Decides
  PROVE  TrustParts'
<1> USE DEF HonestParts, TrustParts, ForbidKnowsAll
<1>1. /\ pc = "decide" /\ pc' \in {"finish", "reserve"}
      /\ pass'.spec = pass.spec /\ pass'.st = pass.st
      /\ pass'.at = pass.at /\ pass'.fresh = pass.fresh
      /\ pass'.next.active = pass.next.active /\ pass'.next.pending = pass.next.pending
      /\ UNCHANGED <<now, spec, st, phase, ended, view, behind, faults, started, fate>>
  BY DEF Decides, Kept, history
<1>2. spec.policy = "Forbid" /\ pc' = "reserve" => pass'.next.active = {}
  BY <1>1, NotBlocked DEF Decides
<1>3. pc' = "reserve" /\ pass.fresh => MayFollow(pass'.plan)
  BY AdmittedFollows
<1>4. pass'.next.lastFire = pass.next.lastFire \/ (Eligible /\ pass'.next.lastFire = Due)
  BY DEF Decides
<1>5. Eligible => Due \in Nat /\ Due <= pass.at /\ st.lastFire <= Due
  BY <1>1, DueIsSlot, Numbers DEF SlotsInOrder, Statuses
<1>6. pc' = "reserve" => Eligible /\ pass'.plan[1] = Due
  <2>1. pc' = "reserve" => Eligible /\ (\E k \in Nat : pass'.plan = <<Due, k>>)
    <3>1. \A n \in Chain : n + 1 \in Nat
      BY PolicyAssumption DEF Chain
    <3>. QED BY <3>1 DEF Decides
  <2>. QED BY <2>1
<1>f. ASSUME spec.policy = "Forbid"
      PROVE  ActiveIsComplete' /\ NextIsComplete' /\ ReservedAlone' /\ OneIsListed'
  <2>1. ActiveIsComplete'
    BY <1>f, <1>1 DEF ActiveIsComplete, Going
  <2>2. NextIsComplete'
    BY <1>f, <1>1 DEF NextIsComplete, Going
  <2>3. ReservedAlone'
    BY <1>f, <1>1, <1>2 DEF ReservedAlone, Unborn, Going
  <2>4. OneIsListed'
    BY <1>f, <1>1, <1>2 DEF OneIsListed, Unborn, Going
  <2>. QED BY <2>1, <2>2, <2>3, <2>4
<1>c1. ForbidKnowsAll'
  BY <1>f DEF ForbidKnowsAll
<1>c2. LastIsNewest'
  BY <1>1 DEF LastIsNewest, Going, Existing, LastStarted
<1>c3. PlanFollows'
  BY <1>1, <1>3 DEF PlanFollows, Unborn, MayFollow, LastStarted
<1>c4. SlotsInOrder'
  BY <1>1, <1>4, <1>5, <1>6, Numbers DEF SlotsInOrder, LastStarted
<1>. QED BY <1>c1, <1>c2, <1>c3, <1>c4

\* A pass reserves only when it knows that nothing is under way.
LEMMA ReserveKeeps ==
  ASSUME TypeOK, TypeOK', HonestParts, TrustParts, spec'.policy = spec.policy, Reserve
  PROVE  TrustParts'
<1> USE DEF HonestParts, TrustParts, ForbidKnowsAll
<1>1. /\ pc = "reserve" /\ pass.plan \in Runs
      /\ UNCHANGED <<now, spec, phase, view, started, fate>>
  BY ReserveIs DEF history
<1>2. \/ ~pass.fresh /\ pc' = "idle" /\ UNCHANGED <<st, behind>>
      \/ /\ pass.fresh /\ pc' = "create" /\ behind' = TRUE
         /\ st'.pending = pass.plan /\ st'.lastFire = st.lastFire /\ st'.active = st.active
         /\ pass'.st = st' /\ pass'.spec = pass.spec /\ pass'.at = pass.at
         /\ pass'.fresh = pass.fresh /\ pass'.next = pass.next /\ pass'.plan = pass.plan
  <2>1. pass.fresh => st = pass.st /\ st \in Statuses
    BY <1>1 DEF CopiesAreHonest, TypeOK
  <2>. QED BY ZenonT(60), <2>1, ReserveIs DEF Statuses
<1>3. pass.fresh => ~Unborn(view.st.pending) /\ (spec.policy = "Forbid" => Going = {})
  BY <1>1 DEF CopiesAreHonest, NextIsComplete, ReservedAlone, ReservationsAreKept
<1>f. ASSUME spec.policy = "Forbid"
      PROVE  ActiveIsComplete' /\ NextIsComplete' /\ ReservedAlone' /\ OneIsListed'
  <2>1. ActiveIsComplete'
    BY <1>f, <1>1, <1>2, <1>3 DEF ActiveIsComplete, Going
  <2>2. NextIsComplete'
    BY <1>f, <1>1, <1>2, <1>3 DEF NextIsComplete, Going
  <2>3. ReservedAlone'
    BY <1>f, <1>1, <1>2, <1>3 DEF ReservedAlone, Unborn, Going
  <2>4. OneIsListed'
    BY <1>f, <1>1, <1>2 DEF OneIsListed, ReservedAlone
  <2>. QED BY <2>1, <2>2, <2>3, <2>4
<1>c1. ForbidKnowsAll'
  BY <1>f DEF ForbidKnowsAll
<1>c2. LastIsNewest'
  BY <1>1, <1>2, <1>3 DEF LastIsNewest, Going, Existing, LastStarted
<1>c3. PlanFollows'
  BY <1>1, <1>2, <1>3 DEF PlanFollows, Unborn, MayFollow, LastStarted
<1>c4. SlotsInOrder'
  BY <1>1, <1>2, <1>3, Numbers, BeforeParts DEF SlotsInOrder, LastStarted
<1>. QED BY <1>c1, <1>c2, <1>c3, <1>c4

\* A run that is created was reserved alone, and follows the run started last.
LEMMA CreateKeeps ==
  ASSUME TypeOK, TypeOK', HonestParts, TrustParts, spec'.policy = spec.policy, Create
  PROVE  TrustParts'
<1> USE DEF HonestParts, TrustParts, ForbidKnowsAll
<1>1. /\ pc = "create" /\ pc' = "finish" /\ pass.plan \in Runs /\ st.pending = pass.plan
      /\ pass'.spec = pass.spec /\ pass'.st = pass.st
      /\ pass'.at = pass.at /\ pass'.fresh = pass.fresh
      /\ pass'.next.pending = NoRun /\ pass'.next.lastFire = pass.plan[1]
      /\ UNCHANGED <<now, spec, st, view, behind>>
  BY CreateIs DEF Kept, PlanIsReserved
<1>2. \/ pass.plan \in Existing /\ UNCHANGED <<phase, started, fate>>
      \/ /\ Unborn(pass.plan) /\ fate' = "None"
         /\ phase' = [phase EXCEPT ![pass.plan] = "Running"]
         /\ LastStarted' = pass.plan
  <2>1. started' = Append(started, pass.plan) => LastStarted' = pass.plan
    <3>1. started \in Seq(Runs)
      BY DEF TypeOK
    <3>. QED BY <1>1, <3>1 DEF LastStarted
  <2>. QED BY <1>1, <2>1, CreateIs, RunParts DEF Unborn, Existing, history
<1>3. ~Unborn(st.pending)'
  BY <1>1, <1>2 DEF Unborn, Existing, TypeOK
<1>4. pass'.next.active = IF phase[pass.plan] \in Terminal THEN pass.next.active
                          ELSE pass.next.active \cup {pass.plan}
  BY CreateIs
<1>5. Going' \subseteq Going \cup {pass.plan}
  BY <1>1, <1>2 DEF Going, TypeOK
<1>6. spec.policy = "Forbid" /\ Unborn(pass.plan) => Going = {}
  BY <1>1 DEF ReservedAlone
<1>7. \A r \in Runs : phase'[r] = "None" => phase[r] = "None"
  BY <1>1, <1>2 DEF TypeOK
<1>8. view.st.pending \in Runs \cup {NoRun}
  BY DEF TypeOK, Statuses
<1>f. ASSUME spec.policy = "Forbid"
      PROVE  ActiveIsComplete' /\ NextIsComplete' /\ ReservedAlone' /\ OneIsListed'
  <2>1. ActiveIsComplete'
    BY <1>f, <1>1, <1>5 DEF ActiveIsComplete
  <2>2. NextIsComplete'
    <3>1. Going \subseteq pass.next.active \/ ~pass.fresh
      BY <1>f, <1>1 DEF NextIsComplete
    <3>2. Going' = Going \/ phase[pass.plan] = "None"
      BY <1>f, <1>2 DEF Going, Unborn
    <3>. QED BY <1>f, <1>1, <1>4, <1>5, <3>1, <3>2 DEF NextIsComplete, Terminal
  <2>3. ReservedAlone'
    BY <1>f, <1>1, <1>2, <1>3, <1>5, <1>6 DEF ReservedAlone, Going
  <2>4. OneIsListed'
    <3>1. pass.fresh => pass'.next.active \subseteq {pass.plan}
      BY <1>f, <1>1, <1>4 DEF OneIsListed
    <3>. QED BY <1>f, <1>1, <3>1 DEF OneIsListed
  <2>. QED BY <2>1, <2>2, <2>3, <2>4
<1>c1. ForbidKnowsAll'
  BY <1>f DEF ForbidKnowsAll
<1>c2. LastIsNewest'
  <2>1. CASE UNCHANGED <<phase, started, fate>>
    BY <1>1, <2>1 DEF LastIsNewest, Going, Existing, LastStarted
  <2>2. CASE /\ Unborn(pass.plan) /\ fate' = "None"
             /\ phase' = [phase EXCEPT ![pass.plan] = "Running"]
             /\ LastStarted' = pass.plan
    BY <1>1, <2>2, NewestIsNext
  <2>. QED BY <1>2, <2>1, <2>2
<1>c3. PlanFollows'
  BY <1>1, <1>3 DEF PlanFollows, Unborn
<1>c4. SlotsInOrder'
  <2>1. LastStarted' = pass.plan \/ LastStarted' = LastStarted
    BY <1>2 DEF LastStarted
  <2>. QED BY <1>1, <2>1, Numbers, RunParts DEF SlotsInOrder
<1>. QED BY <1>c1, <1>c2, <1>c3, <1>c4

\* The final status names every run under way, and gives up no reservation that a
\* later pass could create.
LEMMA FinishKeeps ==
  ASSUME TypeOK, TypeOK', HonestParts, TrustParts, spec'.policy = spec.policy, Finish
  PROVE  TrustParts'
<1> USE DEF HonestParts, TrustParts, ForbidKnowsAll
<1>1. pc = "finish" /\ pc' = "idle" /\ UNCHANGED <<now, spec, phase, view, started, fate>>
  BY FinishIs DEF history
<1>2. \/ UNCHANGED <<st, behind>>
      \/ /\ pass.fresh /\ behind' = TRUE
         /\ st'.active = pass.next.active /\ st'.pending = NoRun
         /\ st'.lastFire = pass.next.lastFire
  BY <1>1, FinishIs DEF ReservationsAreKept
<1>f. ASSUME spec.policy = "Forbid"
      PROVE  ActiveIsComplete' /\ NextIsComplete' /\ ReservedAlone' /\ OneIsListed'
  <2>1. ActiveIsComplete'
    BY <1>f, <1>1, <1>2 DEF ActiveIsComplete, Going, NextIsComplete
  <2>2. NextIsComplete'
    BY <1>f, <1>1, <1>2 DEF NextIsComplete, Going
  <2>3. ReservedAlone'
    BY <1>f, <1>1, <1>2 DEF ReservedAlone, Unborn, Going
  <2>4. OneIsListed'
    BY <1>f, <1>1, <1>2 DEF OneIsListed, Unborn, Going
  <2>. QED BY <2>1, <2>2, <2>3, <2>4
<1>c1. ForbidKnowsAll'
  BY <1>f DEF ForbidKnowsAll
<1>c2. LastIsNewest'
  <2>1. st.lastFire <= st'.lastFire /\ st'.lastFire \in Nat
    BY <1>1, <1>2, Numbers DEF SlotsInOrder
  <2>2. LastStarted[1] > st'.lastFire => LastStarted[1] > st.lastFire
    BY <2>1, Numbers
  <2>. QED BY <1>1, <2>2 DEF LastIsNewest, Going, Existing, LastStarted
<1>c3. PlanFollows'
  BY <1>1, <1>2 DEF PlanFollows, Unborn, MayFollow, LastStarted
<1>c4. SlotsInOrder'
  <2>1. st'.lastFire <= now /\ st'.pending[1] <= now /\ (st'.pending # NoRun => st'.lastFire <= st'.pending[1])
    BY <1>1, <1>2, Numbers DEF SlotsInOrder, NoRun
  <2>. QED BY <1>1, <2>1 DEF SlotsInOrder, LastStarted
<1>. QED BY <1>c1, <1>c2, <1>c3, <1>c4

\* While the run started last is under way, no retry of it is reserved or decided on.
LEMMA EndRunKeeps ==
  ASSUME TypeOK, TypeOK', HonestParts, TrustParts, spec'.policy = spec.policy, NEW r \in Runs, EndRun(r)
  PROVE  TrustParts'
<1> USE DEF HonestParts, TrustParts, ForbidKnowsAll
<1>1. PICK outcome \in Terminal :
        /\ phase' = [phase EXCEPT ![r] = outcome]
        /\ fate' = IF r = started[Len(started)] THEN outcome ELSE fate
  BY DEF EndRun
<1>2. phase[r] = "Running" /\ UNCHANGED <<now, spec, st, view, behind, pc, pass, started>>
  BY DEF EndRun
<1>3. r \in Going /\ r \in Existing /\ LastStarted # NoRun /\ LastStarted \in Runs
  <2>1. r \in Going /\ r \in Existing
    BY <1>2 DEF Going, Existing
  <2>2. LastStarted # NoRun
    <3>1. r = LastStarted \/ Before(r, LastStarted)
      BY <2>1 DEF LastIsNewest
    <3>2. ~Before(r, NoRun)
      BY BeforeParts DEF Before, NoRun
    <3>. QED BY <3>1, <3>2, RunParts
  <2>. QED BY <2>1, <2>2 DEF LastIsNewest
<1>4. fate' = IF r = LastStarted THEN outcome ELSE fate
  BY <1>1, <1>3 DEF LastStarted
<1>5. Going' = Going \ {r} /\ Existing' = Existing /\ LastStarted' = LastStarted
  BY <1>1, <1>2, <1>3 DEF Going, Existing, LastStarted, TypeOK, Terminal
<1>6. \A q \in Runs : phase'[q] = "None" <=> phase[q] = "None"
  BY <1>1, <1>2 DEF TypeOK, Terminal
<1>7. ReservationNames(Runs \cup {NoRun})
  BY ReservationTypes
<1>8. /\ Unborn(st.pending)' <=> Unborn(st.pending)
      /\ pc # "idle" => (Unborn(pass.st.pending)' <=> Unborn(pass.st.pending))
  BY <1>2, <1>6, <1>7 DEF ReservationNames, Unborn
<1>9. r = LastStarted => fate = "None"
  BY <1>2, <1>3 DEF LastIsNewest, TypeOK, Terminal
<1>f. ASSUME spec.policy = "Forbid"
      PROVE  ActiveIsComplete' /\ NextIsComplete' /\ ReservedAlone' /\ OneIsListed'
  <2>1. ActiveIsComplete'
    BY <1>f, <1>2, <1>5 DEF ActiveIsComplete
  <2>2. NextIsComplete'
    BY <1>f, <1>2, <1>5 DEF NextIsComplete
  <2>3. ReservedAlone'
    BY <1>f, <1>2, <1>5, <1>8 DEF ReservedAlone
  <2>4. OneIsListed'
    BY <1>f, <1>2, <1>5, <1>8 DEF OneIsListed
  <2>. QED BY <2>1, <2>2, <2>3, <2>4
<1>c1. ForbidKnowsAll'
  BY <1>f DEF ForbidKnowsAll
<1>c2. LastIsNewest'
  <2>1. <<LastStarted[1], 0>> \in Runs
    BY <1>3, RunParts, PolicyAssumption DEF Runs
  <2>2. phase'[LastStarted] \in {"None", IF fate' = "None" THEN "Running" ELSE fate'}
    BY <1>1, <1>3, <1>4 DEF LastIsNewest, Terminal, TypeOK
  <2>. QED BY <1>2, <1>3, <1>5, <1>6, <2>1, <2>2 DEF LastIsNewest
<1>c3. PlanFollows'
  <2>1. \A q : MayFollow(q) => MayFollow(q)'
    BY <1>4, <1>5, <1>9 DEF MayFollow
  <2>. QED BY <1>2, <1>8, <2>1 DEF PlanFollows
<1>c4. SlotsInOrder'
  BY <1>2, <1>5 DEF SlotsInOrder
<1>. QED BY <1>c1, <1>c2, <1>c3, <1>c4

\* A run is pruned when no copy of the status reserves it and its slot has fired.
LEMMA PruneKeeps ==
  ASSUME TypeOK, TypeOK', HonestParts, TrustParts, spec'.policy = spec.policy, NEW r \in Runs, Prune(r)
  PROVE  TrustParts'
<1> USE DEF HonestParts, TrustParts, ForbidKnowsAll
<1>1. /\ phase[r] \in Terminal /\ phase' = [phase EXCEPT ![r] = "None"]
      /\ r[1] <= st.lastFire /\ r \notin {st.pending, view.st.pending}
      /\ pc # "idle" => pass.st.pending # r
      /\ \A k \in 0 .. MaxAttempt : k < r[2] => phase[<<r[1], k>>] = "None"
      /\ UNCHANGED <<now, spec, st, view, behind, pc, pass, started, fate>>
  BY DEF Prune, NamedBy, history
<1>2. Going' = Going /\ Existing' = Existing \ {r} /\ LastStarted' = LastStarted
  BY <1>1 DEF Going, Existing, LastStarted, TypeOK, Terminal
<1>3. \A q \in Runs : q # r => phase'[q] = phase[q]
  BY <1>1 DEF TypeOK
<1>4. /\ st.pending \in Runs \cup {NoRun} /\ view.st.pending \in Runs \cup {NoRun}
      /\ pc # "idle" => pass.st.pending \in Runs \cup {NoRun}
  BY PassHolds DEF TypeOK, Statuses, PassType
<1>5. /\ Unborn(st.pending)' <=> Unborn(st.pending)
      /\ Unborn(view.st.pending)' <=> Unborn(view.st.pending)
      /\ pc # "idle" => (Unborn(pass.st.pending)' <=> Unborn(pass.st.pending))
  BY <1>1, <1>3, <1>4 DEF Unborn
<1>f. ASSUME spec.policy = "Forbid"
      PROVE  ActiveIsComplete' /\ NextIsComplete' /\ ReservedAlone' /\ OneIsListed'
  <2>1. ActiveIsComplete'
    BY <1>f, <1>1, <1>2 DEF ActiveIsComplete
  <2>2. NextIsComplete'
    BY <1>f, <1>1, <1>2 DEF NextIsComplete
  <2>3. ReservedAlone'
    BY <1>f, <1>1, <1>2, <1>5 DEF ReservedAlone
  <2>4. OneIsListed'
    BY <1>f, <1>1, <1>2, <1>5 DEF OneIsListed
  <2>. QED BY <2>1, <2>2, <2>3, <2>4
<1>c1. ForbidKnowsAll'
  BY <1>f DEF ForbidKnowsAll
<1>c2. LastIsNewest'
  <2>1. LastStarted # NoRun =>
          /\ LastStarted \in Runs
          /\ phase'[LastStarted] \in {"None", IF fate = "None" THEN "Running" ELSE fate}
          /\ LastStarted[1] > st.lastFire => phase'[<<LastStarted[1], 0>>] # "None"
    <3> SUFFICES ASSUME LastStarted # NoRun
                 PROVE  /\ LastStarted \in Runs
                        /\ phase'[LastStarted] \in {"None", IF fate = "None" THEN "Running" ELSE fate}
                        /\ LastStarted[1] > st.lastFire => phase'[<<LastStarted[1], 0>>] # "None"
      OBVIOUS
    <3>1. LastStarted \in Runs
      BY DEF LastIsNewest
    <3>2. phase'[LastStarted] = phase[LastStarted] \/ phase'[LastStarted] = "None"
      BY <1>1, <1>3, <3>1 DEF TypeOK
    <3>3. ASSUME LastStarted[1] > st.lastFire PROVE phase'[<<LastStarted[1], 0>>] # "None"
      <4>1. <<LastStarted[1], 0>> \in Runs
        BY <3>1, RunParts, PolicyAssumption DEF Runs
      <4>2. r # <<LastStarted[1], 0>>
        BY <1>1, <3>3, Numbers
      <4>. QED BY <1>3, <3>3, <4>1, <4>2 DEF LastIsNewest
    <3>. QED BY <3>1, <3>2, <3>3 DEF LastIsNewest
  <2>2. ASSUME NEW s \in Runs, NEW q \in Runs, s \in Existing', Before(s, q),
               q[1] = LastStarted[1], q = LastStarted \/ Before(q, LastStarted), s[1] = q[1]
        PROVE  q \in Existing'
    <3>1. q \in Existing
      BY <1>2, <2>2 DEF LastIsNewest
    <3>2. q # r
      <4> SUFFICES ASSUME q = r PROVE FALSE
        OBVIOUS
      <4>1. s[2] \in 0 .. MaxAttempt /\ s[2] < r[2] /\ s = <<r[1], s[2]>>
        BY <2>2, RunParts, BeforeParts
      <4>2. phase[s] = "None"
        BY <1>1, <4>1
      <4>. QED BY <1>2, <2>2, <4>2 DEF Existing
    <3>. QED BY <1>2, <3>1, <3>2
  <2>. QED BY <1>1, <1>2, <2>1, <2>2 DEF LastIsNewest
<1>c3. PlanFollows'
  BY <1>1, <1>2, <1>5 DEF PlanFollows, MayFollow
<1>c4. SlotsInOrder'
  BY <1>1, <1>2 DEF SlotsInOrder
<1>. QED BY <1>c1, <1>c2, <1>c3, <1>c4

LEMMA TrustStep ==
  TypeOK /\ TypeOK' /\ HonestParts /\ ReservedIsUnlisted /\ PolicyIsKept /\ TrustParts
    /\ [Next]_vars => TrustParts'
<1> SUFFICES ASSUME TypeOK, TypeOK', HonestParts, ReservedIsUnlisted, PolicyIsKept, TrustParts,
                    [Next]_vars
             PROVE  TrustParts'
  OBVIOUS
<1>1. spec'.policy = spec.policy
  BY PolicyStep
<1>2. CASE Tick
  BY <1>1, <1>2, TickKeeps
<1>3. CASE Deliver
  BY <1>1, <1>3, DeliverKeeps
<1>4. CASE Edit
  BY <1>1, <1>4, EditKeeps
<1>5. CASE Interrupt
  BY <1>1, <1>5, InterruptKeeps
<1>6. CASE Begin
  BY <1>1, <1>6, BeginKeeps
<1>7. CASE Observe
  BY <1>1, <1>7, ObserveKeeps
<1>8. CASE Resume
  BY <1>1, <1>8, ResumeKeeps
<1>9. CASE DecideNothing \/ DecideAttempt \/ DecideSlot
  <2>1. Decides
    BY <1>9, DecideNothingIs, DecideAttemptIs, DecideSlotIs
  <2>. QED BY <1>1, <2>1, DecideKeeps
<1>10. CASE Reserve
  BY <1>1, <1>10, ReserveKeeps
<1>11. CASE Create
  BY <1>1, <1>11, CreateKeeps
<1>12. CASE Finish
  BY <1>1, <1>12, FinishKeeps
<1>13. ASSUME NEW r \in Runs, EndRun(r) PROVE TrustParts'
  BY <1>1, <1>13, EndRunKeeps
<1>14. ASSUME NEW r \in Runs, Prune(r) PROVE TrustParts'
  BY <1>1, <1>14, PruneKeeps
<1>15. CASE UNCHANGED vars
  <2>1. UNCHANGED <<LastIsNewest, PlanFollows, SlotsInOrder>>
    BY <1>15 DEF vars, LastIsNewest, PlanFollows, SlotsInOrder, Unborn, MayFollow, Going,
       Existing, LastStarted
  <2>2. UNCHANGED ForbidKnowsAll
    BY <1>15 DEF vars, ForbidKnowsAll, ActiveIsComplete, NextIsComplete, ReservedAlone,
       OneIsListed, Unborn, Going
  <2>. QED BY <2>1, <2>2 DEF TrustParts
<1>. QED BY <1>2, <1>3, <1>4, <1>5, <1>6, <1>7, <1>8, <1>9, <1>10, <1>11, <1>12, <1>13,
         <1>14, <1>15 DEF Next, Step

\* What a status lists was started, and what is reserved was not.
LEMMA ListStep ==
  TypeOK /\ TypeOK' /\ HonestParts /\ TrustParts /\ ListParts /\ [Next]_vars => ListParts'
<1> SUFFICES ASSUME TypeOK, TypeOK', HonestParts, TrustParts, ListParts, [Next]_vars
             PROVE  ListParts'
  OBVIOUS
<1> DEFINE Old(r) == r = LastStarted \/ Before(r, LastStarted)
\* A step that starts no run.
<1>s. ASSUME UNCHANGED started PROVE \A r : Old(r)' <=> Old(r)
  BY <1>s DEF LastStarted, Before
<1>1. CASE Tick \/ Deliver \/ Interrupt \/ (\E r \in Runs : EndRun(r) \/ Prune(r)) \/ UNCHANGED vars
  <2>1. /\ UNCHANGED <<st, started>> /\ view'.st \in {st, view.st}
        /\ pc' = "idle" \/ UNCHANGED <<pc, pass>>
    BY <1>1 DEF Tick, Deliver, Interrupt, EndPass, EndRun, Prune, vars, history
  <2>. QED BY <1>s, <2>1 DEF ListParts, ListedWereStarted, ReservedIsUnlisted
<1>2. CASE Edit
  <2>1. /\ UNCHANGED <<st, view, pc, started>>
        /\ pc # "idle" => pass'.st = pass.st /\ pass'.next = pass.next
    BY <1>2 DEF Edit, TypeOK, PassType, history
  <2>. QED BY <1>s, <2>1 DEF ListParts, ListedWereStarted, ReservedIsUnlisted
<1>3. CASE Begin
  <2>1. pc' = "observe" /\ pass'.st = view.st /\ UNCHANGED <<st, view, started>>
    BY <1>3, BeginIs DEF history
  <2>. QED BY <1>s, <2>1 DEF ListParts, ListedWereStarted, ReservedIsUnlisted
<1>4. CASE Observe \/ Resume
  <2>1. /\ pc = "observe" /\ pc' # "idle" /\ pass'.st = pass.st
        /\ pass'.next.active = First(MaxActive, Seen \cap Going)
        /\ UNCHANGED <<st, view, started>>
    BY <1>4, ObserveIs, ResumeIs DEF Kept, history
  <2>2. \A r \in pass'.next.active : Old(r)
    BY <2>1, GoingRuns DEF First, TrustParts, LastIsNewest
  <2>. QED BY <1>s, <2>1, <2>2 DEF ListParts, ListedWereStarted, ReservedIsUnlisted
<1>5. CASE DecideNothing \/ DecideAttempt \/ DecideSlot
  <2>1. Decides
    BY <1>5, DecideNothingIs, DecideAttemptIs, DecideSlotIs
  <2>2. /\ pc = "decide" /\ pass'.st = pass.st /\ pass'.next.active = pass.next.active
        /\ UNCHANGED <<st, view, started>>
    BY <2>1 DEF Decides, Kept, history
  <2>. QED BY <1>s, <2>2 DEF ListParts, ListedWereStarted, ReservedIsUnlisted
<1>6. CASE Reserve
  <2>1. CASE ~pass.fresh
    <3>1. pc' = "idle" /\ UNCHANGED <<st, view, started>>
      BY <1>6, <2>1, ReserveIs DEF history
    <3>. QED BY <1>s, <3>1 DEF ListParts, ListedWereStarted, ReservedIsUnlisted
  <2>2. CASE pass.fresh
    <3>1. /\ pc = "reserve" /\ pc' = "create" /\ pass.plan \in Runs
          /\ st' = [pass.st EXCEPT !.pending = pass.plan] /\ pass'.st = st'
          /\ pass'.next = pass.next /\ UNCHANGED <<view, started>>
      BY <1>6, <2>2, ReserveIs DEF history
    <3>2. st = pass.st /\ st \in Statuses
      BY <2>2, <3>1 DEF HonestParts, CopiesAreHonest, TypeOK
    <3>3. st'.pending = pass.plan /\ st'.active = st.active /\ st.active \in SUBSET Runs
      BY <3>1, <3>2 DEF Statuses
    <3>4. MayFollow(pass.plan)
      BY <2>2, <3>1 DEF TrustParts, PlanFollows
    <3>5. \A r \in st.active : Before(r, pass.plan)
      BY <3>1, <3>3, <3>4, FollowsAll DEF ListParts, ListedWereStarted
    <3>6. pass.plan \notin st.active
      BY <3>1, <3>5, BeforeIsStrict
    <3>. QED BY <1>s, <3>1, <3>3, <3>6 DEF ListParts, ListedWereStarted, ReservedIsUnlisted
  <2>. QED BY <2>1, <2>2
<1>7. CASE Create
  <2>1. /\ pc = "create" /\ pc' = "finish" /\ pass.plan \in Runs /\ st.pending = pass.plan
        /\ pass'.st = pass.st /\ UNCHANGED <<st, view>>
        /\ pass'.next.active \subseteq pass.next.active \cup {pass.plan}
    BY <1>7, CreateIs DEF Kept, HonestParts, PlanIsReserved
  <2>2. st.active \in SUBSET Runs /\ pass.next.active \in SUBSET Runs
    BY <2>1, PassHolds DEF TypeOK, PassType, Statuses
  <2>3. \A r \in Runs : Old(r) => Old(r)'
    <3>1. CASE UNCHANGED started
      BY <1>s, <3>1
    <3>2. CASE pass.plan \notin Existing /\ started' = Append(started, pass.plan)
      <4>1. LastStarted' = pass.plan
        BY <2>1, <3>2 DEF LastStarted, TypeOK
      <4>2. MayFollow(pass.plan)
        BY <2>1, <3>2, RunParts DEF TrustParts, PlanFollows, Unborn, Existing
      <4>3. \A r \in Runs : Old(r) => Before(r, pass.plan)
        BY <2>1, <4>2, FollowsAll
      <4>. QED BY <4>1, <4>3 DEF Before
    <3>. QED BY <1>7, <3>1, <3>2, CreateIs DEF history
  <2>4. \A r \in {pass.plan} : Old(r)'
    <3> SUFFICES ASSUME NEW r \in {pass.plan} PROVE Old(r)'
      OBVIOUS
    <3>1. CASE r \in Existing
      <4>1. Old(r)
        BY <3>1 DEF TrustParts, LastIsNewest
      <4>. QED BY <2>1, <2>3, <4>1
    <3>2. CASE started' = Append(started, r)
      <4>1. LastStarted' = r
        BY <2>1, <3>2 DEF LastStarted, TypeOK
      <4>. QED BY <4>1
    <3>. QED BY <1>7, <3>1, <3>2, CreateIs
  <2>5. /\ \A r \in st'.active : Old(r)'
        /\ \A r \in pass'.next.active : Old(r)'
    BY <2>1, <2>2, <2>3, <2>4 DEF ListParts, ListedWereStarted
  <2>. QED BY <2>1, <2>5 DEF ListParts, ListedWereStarted, ReservedIsUnlisted
<1>8. CASE Finish
  <2>1. pc = "finish" /\ pc' = "idle" /\ UNCHANGED <<view, started>>
    BY <1>8, FinishIs DEF history
  <2>2. CASE UNCHANGED st
    BY <1>s, <2>1, <2>2 DEF ListParts, ListedWereStarted, ReservedIsUnlisted
  <2>3. CASE st'.active = pass.next.active /\ st'.pending = NoRun /\ st' \in Statuses
    BY <1>s, <2>1, <2>3, RunParts DEF ListParts, ListedWereStarted, ReservedIsUnlisted, Statuses
  <2>. QED BY <1>8, <2>2, <2>3, FinishIs DEF HonestParts, ReservationsAreKept
<1>. QED BY <1>1, <1>2, <1>3, <1>4, <1>5, <1>6, <1>7, <1>8 DEF Next, Step

-----------------------------------------------------------------------------
(* How many runs the status may miss, under either policy.                 *)

LEMMA Sizes ==
  ASSUME NEW S \in SUBSET Runs
  PROVE  /\ Cardinality(S) \in Nat
         /\ \A T \in SUBSET S : /\ Cardinality(T) \in Nat /\ Cardinality(T) <= Cardinality(S)
                                /\ Cardinality(S \ T) = Cardinality(S) - Cardinality(T)
         /\ \A r \in Runs : Cardinality(S \cup {r}) <= Cardinality(S) + 1
<1>1. IsFiniteSet(S) /\ Cardinality(S) \in Nat
  BY RunsFinite, FS_Subset, FS_CardinalityType
<1>2. ASSUME NEW T \in SUBSET S
      PROVE  /\ Cardinality(T) \in Nat /\ Cardinality(T) <= Cardinality(S)
             /\ Cardinality(S \ T) = Cardinality(S) - Cardinality(T)
  <2>1. IsFiniteSet(T) /\ Cardinality(T) <= Cardinality(S)
    BY <1>1, FS_Subset
  <2>2. Cardinality(S \ T) = Cardinality(S) - Cardinality(S \cap T) /\ S \cap T = T
    BY <1>1, FS_Difference
  <2>. QED BY <2>1, <2>2, FS_CardinalityType
<1>3. ASSUME NEW r \in Runs PROVE Cardinality(S \cup {r}) <= Cardinality(S) + 1
  <2>1. Cardinality(S \cup {r}) = IF r \in S THEN Cardinality(S) ELSE Cardinality(S) + 1
    BY <1>1, FS_AddElement
  <2>. QED BY <1>1, <2>1
<1>. QED BY <1>1, <1>2, <1>3

NatLess == {m \in Nat \X Nat : m[1] < m[2]}

LEMMA LeastNatural ==
    ASSUME NEW S \in SUBSET Nat, S # {}
    PROVE  \E k \in S : \A l \in S : k <= l
<1>1. OpToRel(<, Nat) = NatLess
  BY DEF OpToRel, NatLess
<1>2. IsWellFoundedOn(NatLess, Nat)
  BY <1>1, NatLessThanWellFounded
<1>3. PICK k \in S : \A l \in S : <<l, k>> \notin NatLess
  BY <1>2, WFMin, Zenon
<1>4. ASSUME NEW l \in S PROVE k <= l
  <2>1. k \in Nat /\ l \in Nat /\ ~(l < k)
    BY <1>3 DEF NatLess
  <2>. QED BY <2>1
<1>. QED BY <1>4

LEMMA GreatestNatural ==
    ASSUME NEW n \in Nat, NEW S \in SUBSET (0 .. n), S # {}
    PROVE  \E k \in S : \A l \in S : l <= k
<1> DEFINE T == {n - k : k \in S}
<1>1. PICK m \in T : \A l \in T : m <= l
  <2>1. \A k \in S : n - k \in Nat
    OBVIOUS
  <2>2. T \in SUBSET Nat /\ T # {}
    BY <2>1
  <2>. QED BY <2>2, LeastNatural
<1>2. PICK k \in S : m = n - k
  BY <1>1
<1>3. ASSUME NEW l \in S PROVE l <= k
  <2>1. n - k <= n - l
    BY <1>1, <1>2
  <2>. QED BY <2>1
<1>. QED BY <1>3

\* Some run of a set comes after every other.
LEMMA LastThereIs ==
  ASSUME NEW S \in SUBSET Runs, S # {}
  PROVE  \E r \in S : \A q \in S : q = r \/ Before(q, r)
<1>1. \A r \in S : r[1] \in 0 .. Horizon /\ r[2] \in 0 .. MaxAttempt /\ r = <<r[1], r[2]>>
  BY RunParts, TimeAssumption DEF Slots
<1>2. PICK k \in {r[1] : r \in S} : \A l \in {r[1] : r \in S} : l <= k
  <2>1. {r[1] : r \in S} \in SUBSET (0 .. Horizon) /\ {r[1] : r \in S} # {} /\ Horizon \in Nat
    BY <1>1, TimeAssumption
  <2>. QED BY <2>1, GreatestNatural
<1> DEFINE T == {r \in S : r[1] = k}
<1>3. PICK m \in {r[2] : r \in T} : \A l \in {r[2] : r \in T} : l <= m
  <2>1. {r[2] : r \in T} \in SUBSET (0 .. MaxAttempt) /\ {r[2] : r \in T} # {} /\ MaxAttempt \in Nat
    BY <1>1, <1>2, PolicyAssumption
  <2>. QED BY <2>1, GreatestNatural
<1>4. PICK r \in S : r[1] = k /\ r[2] = m
  BY <1>3
<1>5. ASSUME NEW q \in S PROVE q = r \/ Before(q, r)
  <2>1. q[1] <= k /\ (q[1] = k => q[2] <= m)
    BY <1>2, <1>3
  <2>. QED BY <1>1, <1>4, <2>1 DEF Before
<1>. QED BY <1>5

\* Some run of a set comes before every other.
LEMMA FirstThereIs ==
  ASSUME NEW S \in SUBSET Runs, S # {}
  PROVE  \E r \in S : \A q \in S : q = r \/ Before(r, q)
<1>1. \A r \in S : r[1] \in Nat /\ r[2] \in Nat /\ r = <<r[1], r[2]>>
  BY RunParts DEF Slots
<1>2. PICK k \in {r[1] : r \in S} : \A l \in {r[1] : r \in S} : k <= l
  <2>1. {r[1] : r \in S} \in SUBSET Nat /\ {r[1] : r \in S} # {}
    BY <1>1
  <2>. QED BY <2>1, LeastNatural
<1> DEFINE T == {r \in S : r[1] = k}
<1>3. PICK m \in {r[2] : r \in T} : \A l \in {r[2] : r \in T} : m <= l
  <2>1. {r[2] : r \in T} \in SUBSET Nat /\ {r[2] : r \in T} # {}
    BY <1>1, <1>2
  <2>. QED BY <2>1, LeastNatural
<1>4. PICK r \in S : r[1] = k /\ r[2] = m
  BY <1>3
<1>5. ASSUME NEW q \in S PROVE q = r \/ Before(r, q)
  <2>1. k <= q[1] /\ (q[1] = k => m <= q[2])
    BY <1>2, <1>3
  <2>. QED BY <1>1, <1>4, <2>1 DEF Before
<1>. QED BY <1>5

\* A list is no longer than it is allowed to be.
LEMMA FirstIsShort ==
  ASSUME NEW n \in Nat, NEW S \in SUBSET Runs
  PROVE  Cardinality(First(n, S)) <= n
<1> DEFINE F == First(n, S)
<1>1. F \in SUBSET Runs /\ F \in SUBSET S
  BY DEF First
<1>2. CASE F = {}
  BY <1>2, FS_EmptySet
<1>3. CASE F # {}
  <2>1. PICK r \in F : \A q \in F : q = r \/ Before(q, r)
    BY <1>1, <1>3, LastThereIs
  <2> DEFINE T == {q \in S : Before(q, r)}
  <2>2. Cardinality(T) < n /\ Cardinality(T) \in Nat /\ r \in Runs /\ T \in SUBSET Runs
    BY <1>1, <2>1, Sizes DEF First
  <2>3. F \in SUBSET (T \cup {r}) /\ T \cup {r} \in SUBSET Runs
    BY <1>1, <2>1, <2>2
  <2>4. /\ Cardinality(T \cup {r}) <= Cardinality(T) + 1 /\ Cardinality(T \cup {r}) \in Nat
        /\ Cardinality(F) <= Cardinality(T \cup {r}) /\ Cardinality(F) \in Nat
    BY <2>2, <2>3, Sizes
  <2> HIDE DEF F, T
  <2>5. Cardinality(F) <= n
    BY <2>2, <2>4
  <2>. QED BY <2>5 DEF F
<1>. QED BY <1>2, <1>3

\* A list that is cut short is full.
LEMMA FirstIsFull ==
  ASSUME NEW n \in Nat, NEW S \in SUBSET Runs, First(n, S) # S
  PROVE  Cardinality(First(n, S)) >= n
<1> DEFINE F == First(n, S)
<1>1. F \in SUBSET S /\ S \ F # {} /\ S \ F \in SUBSET Runs
  BY DEF First
<1>2. PICK r \in S \ F : \A q \in S \ F : q = r \/ Before(r, q)
  BY <1>1, FirstThereIs
<1> DEFINE T == {q \in S : Before(q, r)}
<1>3. T \in SUBSET F
  BY <1>1, <1>2, BeforeIsStrict
<1>4. Cardinality(T) \in Nat /\ ~(Cardinality(T) < n)
  <2>1. ~(Cardinality(T) < n)
    BY <1>2 DEF First
  <2>2. T \in SUBSET Runs
    OBVIOUS
  <2>. QED BY <2>1, <2>2, Sizes
<1>5. Cardinality(F) \in Nat /\ Cardinality(T) <= Cardinality(F)
  <2>1. F \in SUBSET Runs
    BY <1>1
  <2>. QED BY <1>3, <2>1, Sizes
<1>. QED BY <1>4, <1>5

LEMMA Bounds ==
  ASSUME TypeOK
  PROVE  /\ Upsets \in Nat /\ Excess \in Nat /\ Excess <= Upsets
         /\ Upsets # 0 => Upsets = Excess + 1
         /\ Limit(spec) \in Nat /\ Limit(spec) <= MaxActive /\ MaxActive \in Nat
<1>1. faults \in Nat /\ spec.gen - 1 \in Nat
  BY ScheduleBounds DEF TypeOK, Specs
<1>2. Upsets \in Nat
  BY <1>1 DEF Upsets
<1>3. Limit(spec) \in Nat /\ Limit(spec) <= MaxActive /\ MaxActive \in Nat
  BY PolicyAssumption DEF Limit
<1>. QED BY <1>2, <1>3 DEF Excess

LEMMA SurplusIs ==
  ASSUME NEW S \in SUBSET Runs
  PROVE  /\ Surplus(S) \in Nat
         /\ Cardinality(S) <= MaxActive => Surplus(S) = 0
         /\ \A r \in Runs : /\ Surplus(S \cup {r}) <= Surplus(S) + 1
                            /\ Cardinality(S) < MaxActive => Surplus(S \cup {r}) = 0
<1>1. MaxActive \in Nat /\ Cardinality(S) \in Nat
  BY Sizes, PolicyAssumption
<1>2. ASSUME NEW r \in Runs
      PROVE  Cardinality(S \cup {r}) \in Nat /\ Cardinality(S \cup {r}) <= Cardinality(S) + 1
  <2>1. S \cup {r} \in SUBSET Runs
    OBVIOUS
  <2>. QED BY <2>1, Sizes
<1>. QED BY <1>1, <1>2 DEF Surplus

\* What a list read to MaxActive leaves out.
LEMMA LeftOut ==
  ASSUME NEW S \in SUBSET Runs
  PROVE  Cardinality(S \ First(MaxActive, S)) <= Surplus(S)
<1> DEFINE F == First(MaxActive, S)
<1>1. MaxActive \in Nat /\ F \in SUBSET S
  BY PolicyAssumption DEF First
<1>2. /\ Cardinality(S) \in Nat /\ Cardinality(F) \in Nat /\ Cardinality(F) <= Cardinality(S)
      /\ Cardinality(S \ F) = Cardinality(S) - Cardinality(F)
  BY <1>1, Sizes
<1>3. F = S \/ Cardinality(F) >= MaxActive
  BY <1>1, FirstIsFull
<1>4. F = S => Cardinality(F) = Cardinality(S)
  OBVIOUS
<1> HIDE DEF F
<1>5. Cardinality(S \ F) <= Surplus(S)
  BY <1>1, <1>2, <1>3, <1>4 DEF Surplus
<1>. QED BY <1>5 DEF F

\* How many runs may be missing, and what follows from it.
FewParts ==
  /\ FewAreMissing /\ NextMissesFew /\ ListFits
  /\ RoomIsKept /\ Undisturbed /\ OvershootIsBounded

\* The first half of RoomIsKept.
Room == Unborn(st.pending) => Cardinality(Going) < Limit(spec) + Excess

\* A step that starts nothing and leaves the status alone.
LEMMA NoneStarted ==
  ASSUME TypeOK, TypeOK', FewParts, UNCHANGED <<spec, st, faults>>, Going' \subseteq Going,
         Unborn(st.pending)' => Unborn(st.pending), MayMakeUp => MayMakeUp'
  PROVE  FewAreMissing' /\ OvershootIsBounded' /\ Room'
<1> DEFINE un == Cardinality(Going \ (st.active \cup {st.pending}))
           ua == Cardinality(Going \ st.active)
           over == Surplus(st.active)
           un2 == Cardinality(Going' \ (st.active \cup {st.pending}))
           ua2 == Cardinality(Going' \ st.active)
<1>1. un2 \in Nat /\ un \in Nat /\ un2 <= un
  <2>1. /\ Going \ (st.active \cup {st.pending}) \in SUBSET Runs
        /\ Going' \ (st.active \cup {st.pending}) \in SUBSET (Going \ (st.active \cup {st.pending}))
    BY GoingRuns
  <2>. QED BY <2>1, Sizes
<1>2. ua2 \in Nat /\ ua \in Nat /\ ua2 <= ua
  <2>1. Going \ st.active \in SUBSET Runs /\ Going' \ st.active \in SUBSET (Going \ st.active)
    BY GoingRuns
  <2>. QED BY <2>1, Sizes
<1>3. Cardinality(Going)' \in Nat /\ Cardinality(Going) \in Nat
      /\ Cardinality(Going)' <= Cardinality(Going)
  <2>1. Going \in SUBSET Runs /\ Going' \in SUBSET Going
    BY GoingRuns
  <2>. QED BY <2>1, Sizes
<1>4. Upsets' = Upsets /\ Excess' = Excess /\ Limit(spec)' = Limit(spec) /\ UNCHANGED st
  BY DEF Upsets, Excess
<1>5. Upsets \in Nat /\ Excess \in Nat /\ Excess <= Upsets /\ Limit(spec) \in Nat
  BY Bounds
<1>6. FewAreMissing <=> IF MayMakeUp THEN un + over <= Upsets
                        ELSE un + over <= Excess /\ ua + over <= Upsets
  BY DEF FewAreMissing
<1>7. FewAreMissing' <=> IF MayMakeUp' THEN un2 + over <= Upsets
                         ELSE un2 + over <= Excess /\ ua2 + over <= Upsets
  <2>1. Surplus(st.active)' = over
    BY <1>4 DEF Surplus
  <2>. QED BY <1>4, <2>1 DEF FewAreMissing
<1>s. over \in Nat
  BY SurplusIs DEF TypeOK, Statuses
<1> HIDE DEF un, ua, un2, ua2, over
<1>8. FewAreMissing'
  BY <1>s, <1>1, <1>2, <1>5, <1>6, <1>7 DEF FewParts
<1>9. OvershootIsBounded' /\ Room'
  BY <1>3, <1>4, <1>5 DEF FewParts, OvershootIsBounded, RoomIsKept, Room
<1>. QED BY <1>8, <1>9

\* An edit or a pass cut short makes room for one run more.
LEMMA UpsetMakesRoom ==
  ASSUME TypeOK, TypeOK', FewParts, UNCHANGED <<st, phase>>, spec'.policy = spec.policy,
         Upsets' = Upsets + 1, ~MayMakeUp'
  PROVE  FewAreMissing' /\ OvershootIsBounded' /\ Room' /\ Undisturbed'
<1> DEFINE un == Cardinality(Going \ (st.active \cup {st.pending}))
           ua == Cardinality(Going \ st.active)
           over == Surplus(st.active)
<1>1. un \in Nat /\ ua \in Nat /\ ua <= un + 1
  <2>1. /\ Going \ (st.active \cup {st.pending}) \in SUBSET Runs
        /\ Going \ st.active \in SUBSET Runs
    BY GoingRuns
  <2>2. un \in Nat /\ ua \in Nat
    BY <2>1, Sizes
  <2>3. CASE st.pending \in Runs
    <3> DEFINE named == (Going \ (st.active \cup {st.pending})) \cup {st.pending}
    <3>1. named \in SUBSET Runs /\ Going \ st.active \in SUBSET named
      BY <2>1, <2>3
    <3>2. Cardinality(named) <= un + 1 /\ Cardinality(named) \in Nat
      BY <2>1, <2>3, <3>1, Sizes
    <3>3. ua <= Cardinality(named)
      BY <3>1, Sizes
    <3> HIDE DEF named, un, ua
    <3>. QED BY <2>2, <3>2, <3>3
  <2>4. CASE st.pending \notin Runs
    <3>1. Going \ st.active = Going \ (st.active \cup {st.pending})
      BY <2>4, GoingRuns
    <3>2. ua = un
      BY <3>1
    <3>. QED BY <2>2, <3>2
  <2>. QED BY <2>3, <2>4
<1>2. Going' = Going /\ UNCHANGED st /\ Limit(spec)' = Limit(spec)
      /\ (Unborn(st.pending)' <=> Unborn(st.pending))
  BY DEF Going, Limit, Unborn
<1>3. Upsets \in Nat /\ Excess \in Nat /\ Excess <= Upsets /\ Limit(spec) \in Nat
  BY Bounds
<1>4. Upsets' # 0 /\ Excess' = Upsets
  BY <1>3 DEF Excess
<1>5. Cardinality(Going) \in Nat
  BY GoingRuns, Sizes
<1>6. FewAreMissing <=> IF MayMakeUp THEN un + over <= Upsets
                        ELSE un + over <= Excess /\ ua + over <= Upsets
  BY DEF FewAreMissing
<1>7. FewAreMissing' <=> un + over <= Excess' /\ ua + over <= Upsets'
  <2>1. Surplus(st.active)' = over
    BY <1>2 DEF Surplus
  <2>. QED BY <1>2, <2>1 DEF FewAreMissing
<1>s. over \in Nat
  BY SurplusIs DEF TypeOK, Statuses
<1> HIDE DEF un, ua, over
<1>8. FewAreMissing'
  BY <1>s, <1>1, <1>3, <1>4, <1>6, <1>7 DEF FewParts
<1>9. OvershootIsBounded' /\ Room'
  BY <1>2, <1>3, <1>4, <1>5 DEF FewParts, OvershootIsBounded, RoomIsKept, Room
<1>10. Undisturbed'
  BY <1>4 DEF Undisturbed
<1>. QED BY <1>8, <1>9, <1>10

\* A pass that holds the object as it is knows of every run the status names, but for
\* what the list leaves out, or of as many as the status has room for; and when it
\* resumes a run it has room for that one too.
LEMMA KnowsMost ==
  ASSUME TypeOK, HonestParts, FewParts, pc = "observe", pass.fresh
  PROVE  LET F == First(MaxActive, Seen \cap Going)
             born == IF Unborn(st.pending) THEN {st.pending} ELSE {}
         IN  Cardinality(Going \ F) <= Excess /\ Cardinality(Going \ F) + Surplus(F \cup born) <= Excess
<1> DEFINE S == Seen \cap Going
           F == First(MaxActive, S)
           born == IF Unborn(st.pending) THEN {st.pending} ELSE {}
<1>1. S \in SUBSET Runs /\ F \in SUBSET S /\ F \in SUBSET Going /\ Going \in SUBSET Runs
      /\ F \in SUBSET Runs
  BY GoingRuns DEF First
<1>2. Excess \in Nat /\ Limit(spec) \in Nat /\ Limit(spec) <= MaxActive /\ MaxActive \in Nat
  BY Bounds
<1>3. /\ Cardinality(Going) \in Nat /\ Cardinality(F) \in Nat /\ Cardinality(Going \ F) \in Nat
      /\ Cardinality(Going \ F) = Cardinality(Going) - Cardinality(F)
  <2>1. Going \ F \in SUBSET Going
    OBVIOUS
  <2>. QED BY <1>1, <2>1, Sizes
<1>4. Cardinality(F) <= MaxActive
  BY <1>1, <1>2, FirstIsShort
<1>5. Cardinality(Going \ F) <= Excess
  <2>1. CASE F # S
    <3>1. Cardinality(F) >= MaxActive
      BY <1>1, <1>2, <2>1, FirstIsFull
    <3>2. Cardinality(Going) <= Limit(spec) + Excess
      BY DEF FewParts, OvershootIsBounded
    <3> HIDE DEF F, S
    <3>. QED BY <1>2, <1>3, <3>1, <3>2
  <2>2. CASE F = S
    <3>1. First(InventoryReach, Existing) = Existing
      BY FirstOfAll, GoingRuns, ReachAssumption, ScheduleBounds
    <3>2. pass.st = st /\ st.active \in SUBSET Runs
      BY DEF HonestParts, CopiesAreHonest, TypeOK, Statuses
    <3> DEFINE U == Going \ (st.active \cup {st.pending})
               X == st.active \ First(MaxActive, st.active)
    <3>3. Going \ F \in SUBSET (U \cup X)
      BY <2>2, <3>1, <3>2, GoingRuns DEF Seen
    <3>4. U \in SUBSET Runs /\ X \in SUBSET Runs /\ U \cup X \in SUBSET Runs
      BY <3>2, GoingRuns
    <3>5. Cardinality(U) + Surplus(st.active) <= Excess /\ Cardinality(X) <= Surplus(st.active)
      BY <3>2, LeftOut DEF FewParts, FewAreMissing, MayMakeUp
    <3>6. /\ Cardinality(U) \in Nat /\ Cardinality(X) \in Nat /\ Surplus(st.active) \in Nat
          /\ Cardinality(U \cup X) \in Nat /\ Cardinality(Going \ F) <= Cardinality(U \cup X)
      BY <3>2, <3>3, <3>4, Sizes, SurplusIs
    <3>7. Cardinality(U \cup X) <= Cardinality(U) + Cardinality(X)
      <4>1. (U \cup X) \ U \in SUBSET X /\ U \in SUBSET (U \cup X)
        OBVIOUS
      <4>2. /\ Cardinality((U \cup X) \ U) = Cardinality(U \cup X) - Cardinality(U)
            /\ Cardinality((U \cup X) \ U) <= Cardinality(X)
        BY <3>4, <4>1, Sizes
      <4> HIDE DEF U, X
      <4>. QED BY <3>6, <4>2
    <3> HIDE DEF U, X, F
    <3>. QED BY <1>2, <1>3, <3>5, <3>6, <3>7
  <2>. QED BY <2>1, <2>2
<1>6. Cardinality(Going \ F) + Surplus(F \cup born) <= Excess
  <2>1. CASE ~Unborn(st.pending)
    <3>1. F \cup born = F /\ Surplus(F) = 0
      BY <1>1, <1>4, <2>1, SurplusIs
    <3>2. Surplus(F \cup born) = 0
      BY <3>1
    <3> HIDE DEF F, born
    <3>. QED BY <1>2, <1>3, <1>5, <3>2
  <2>2. CASE Unborn(st.pending)
    <3>1. st.pending \in Runs /\ F \cup born = F \cup {st.pending}
      BY <2>2 DEF Unborn, TypeOK, Statuses
    <3>2. Surplus(F) = 0 /\ Surplus(F \cup born) <= Surplus(F) + 1
          /\ (Cardinality(F) < MaxActive => Surplus(F \cup born) = 0)
          /\ Surplus(F \cup born) \in Nat
      <4>1. F \cup {st.pending} \in SUBSET Runs
        BY <1>1, <3>1
      <4>. QED BY <1>1, <1>4, <3>1, <4>1, SurplusIs
    <3>3. Cardinality(Going) < Limit(spec) + Excess
      BY <2>2 DEF FewParts, RoomIsKept
    <3> HIDE DEF F, born
    <3>. QED BY <1>2, <1>3, <1>4, <1>5, <3>2, <3>3
  <2>. QED BY <2>1, <2>2
<1>. QED BY <1>5, <1>6

\* A pass reserves when it knows of fewer runs than the limit, and misses few.
LEMMA ReserveFew ==
  ASSUME TypeOK, TypeOK', HonestParts, FewParts, Reserve
  PROVE  FewParts'
<1>1. /\ pc = "reserve" /\ UNCHANGED <<spec, phase, view, faults>> /\ Going' = Going
      /\ Limit(spec)' = Limit(spec) /\ Upsets' = Upsets /\ Excess' = Excess
  BY ReserveIs DEF Going, Upsets, Excess
<1>2. CASE ~pass.fresh
  <2>1. pc' = "idle" /\ UNCHANGED st
    BY <1>2, ReserveIs
  <2>2. (Unborn(st.pending)' => Unborn(st.pending)) /\ (MayMakeUp => MayMakeUp')
    BY <1>1, <2>1 DEF Unborn, MayMakeUp
  <2>3. FewAreMissing' /\ OvershootIsBounded' /\ Room'
    BY <1>1, <2>1, <2>2, NoneStarted
  <2>4. NextMissesFew' /\ ListFits' /\ Undisturbed'
    BY <1>1, <2>1 DEF FewParts, NextMissesFew, ListFits, Undisturbed, Unborn
  <2>. QED BY <2>1, <2>3, <2>4 DEF FewParts, RoomIsKept, Room
<1>3. CASE pass.fresh
  <2>1. /\ pc' = "create" /\ pass'.spec = pass.spec /\ pass'.fresh = pass.fresh
        /\ pass'.next = pass.next /\ pass'.plan = pass.plan
        /\ st'.active = st.active /\ st'.pending = pass.plan
    <3>1. st = pass.st
      BY <1>1, <1>3 DEF HonestParts, CopiesAreHonest
    <3>2. st \in Statuses
      BY DEF TypeOK
    <3>3. /\ pc' = "create" /\ pass'.spec = pass.spec /\ pass'.fresh = pass.fresh
          /\ pass'.next = pass.next /\ pass'.plan = pass.plan
          /\ st' = [pass.st EXCEPT !.pending = pass.plan]
      BY <1>3, ReserveIs
    <3>. QED BY <3>1, <3>2, <3>3 DEF Statuses
  <2>2. pass \in PassType /\ pass.next.active \in SUBSET Runs /\ Going \in SUBSET Runs
        /\ st.active \in SUBSET Runs /\ pass.plan \in Runs
    BY <1>1, PassHolds, GoingRuns DEF TypeOK, PassType, Statuses
  <2>8. /\ Cardinality(Going \ pass.next.active) <= Excess
        /\ Cardinality(pass.next.active) < Limit(spec)
        /\ Cardinality(pass.next.active) < MaxActive
    <3> DEFINE N == pass.next.active
    <3>1. Cardinality(Going \ N) + Surplus(N \cup {}) <= Excess /\ Cardinality(N) < Limit(spec)
      BY <1>1, <1>3 DEF FewParts, NextMissesFew, RoomIsKept
    <3>2. Surplus(N \cup {}) \in Nat
      <4>1. N \cup {} \in SUBSET Runs
        BY <2>2
      <4>. QED BY <4>1, SurplusIs
    <3>3. Cardinality(Going \ N) \in Nat /\ Cardinality(N) \in Nat
      <4>1. Going \ N \in SUBSET Runs
        BY <2>2
      <4>. QED BY <2>2, <4>1, Sizes
    <3> HIDE DEF N
    <3>4. Cardinality(Going \ N) <= Excess /\ Cardinality(N) < Limit(spec) /\ Cardinality(N) < MaxActive
      BY <3>1, <3>2, <3>3, Bounds
    <3>. QED BY <3>4 DEF N
  <2>3. Cardinality(Going) < Limit(spec) + Excess
    <3> DEFINE N == pass.next.active
    <3>1. Cardinality(Going \ N) <= Excess /\ Cardinality(N) < Limit(spec)
      BY <2>8 DEF N
    <3>2. Cardinality(Going) \in Nat /\ Cardinality(N) \in Nat /\ Cardinality(Going \ N) \in Nat
          /\ Cardinality(Going \cap N) \in Nat
          /\ Cardinality(Going \ (Going \cap N)) = Cardinality(Going) - Cardinality(Going \cap N)
          /\ Cardinality(Going \cap N) <= Cardinality(N)
      <4>1. Going \cap N \in SUBSET Going /\ Going \cap N \in SUBSET N /\ Going \ N \in SUBSET Going
        OBVIOUS
      <4>. QED BY <2>2, <4>1, Sizes
    <3>3. Going \ (Going \cap N) = Going \ N
      OBVIOUS
    <3>4. Limit(spec) \in Nat /\ Excess \in Nat
      BY Bounds
    <3> HIDE DEF N
    <3>5. Cardinality(Going \ N) = Cardinality(Going) - Cardinality(Going \cap N)
      BY <3>2, <3>3
    <3>. QED BY <3>1, <3>2, <3>4, <3>5
  <2>4. FewAreMissing'
    <3> DEFINE V == Going \ (st.active \cup {pass.plan})
               over == Surplus(st.active)
    <3>1. Cardinality(Going \ st.active) + over <= Upsets /\ over \in Nat
      BY <1>1, <2>2, SurplusIs DEF FewParts, FewAreMissing, MayMakeUp
    <3>2. V \in SUBSET (Going \ st.active) /\ Going \ st.active \in SUBSET Runs
      BY <2>2
    <3>3. Cardinality(V) \in Nat /\ Cardinality(V) <= Cardinality(Going \ st.active)
          /\ Cardinality(Going \ st.active) \in Nat /\ Upsets \in Nat
      BY <3>2, Sizes, Bounds
    <3>4. MayMakeUp'
      BY <1>3, <2>1 DEF MayMakeUp
    <3>6. Surplus(st.active)' = over
      BY <2>1 DEF Surplus
    <3> HIDE DEF V, over
    <3>5. Cardinality(V) + over <= Upsets
      BY <3>1, <3>3
    <3>. QED BY <1>1, <2>1, <3>4, <3>5, <3>6 DEF FewAreMissing, V
  <2>5. OvershootIsBounded' /\ RoomIsKept'
    BY <1>1, <2>1, <2>3 DEF FewParts, OvershootIsBounded, RoomIsKept
  <2>6. NextMissesFew' /\ ListFits'
    <3> DEFINE N == pass.next.active
               born == IF Unborn(pass.plan) THEN {pass.plan} ELSE {}
    <3>1. Surplus(N \cup born) = 0
      <4>1. Surplus(N) = 0 /\ Surplus(N \cup {pass.plan}) = 0
        BY <2>2, <2>8, SurplusIs, Sizes, Bounds
      <4>2. N \cup born = N \/ N \cup born = N \cup {pass.plan}
        OBVIOUS
      <4>. QED BY <4>1, <4>2
    <3>2. Cardinality(Going \ N) <= Excess /\ Cardinality(Going \ N) \in Nat /\ Excess \in Nat
      <4>1. Going \ N \in SUBSET Runs
        BY <2>2
      <4>. QED BY <2>8, <4>1, Sizes, Bounds
    <3>3. Cardinality(Going \ N) + Surplus(N \cup born) <= Excess
      <4> HIDE DEF N, born
      <4>. QED BY <3>1, <3>2
    <3>4. (IF pc = "create" /\ Unborn(pass.plan) THEN {pass.plan} ELSE {})' = born
      BY <1>1, <2>1 DEF Unborn
    <3>5. Surplus(pass.next.active \cup (IF pc = "create" /\ Unborn(pass.plan) THEN {pass.plan} ELSE {}))'
            = Surplus(N \cup born)
      BY <2>1, <3>4 DEF Surplus
    <3>6. ListFits'
      BY <1>1, <2>1 DEF FewParts, ListFits
    <3> HIDE DEF born
    <3>. QED BY <1>1, <2>1, <3>3, <3>5, <3>6 DEF NextMissesFew
  <2>7. Undisturbed'
    <3>1. Upsets = 0 => ~Unborn(view.st.pending)
      BY <1>1 DEF FewParts, Undisturbed
    <3>. QED BY <1>1, <1>3, <2>1, <3>1 DEF Undisturbed, Unborn
  <2>. QED BY <2>4, <2>5, <2>6, <2>7 DEF FewParts
<1>. QED BY <1>2, <1>3

\* What a step that ends in "finish" must leave.
LEMMA NextIsFew ==
  ASSUME pc' = "finish",
         pass.fresh => Cardinality(Going' \ pass'.next.active) + Surplus(pass'.next.active) <= Excess'
  PROVE  pass'.fresh = pass.fresh => NextMissesFew'
<1>1. Surplus(pass.next.active)' = Surplus(pass'.next.active)
  BY DEF Surplus
<1>2. pass'.next.active \cup {} = pass'.next.active
  OBVIOUS
<1>. QED BY <1>1, <1>2 DEF NextMissesFew, Surplus

\* A run is created where its reservation left room, and the status names it.
LEMMA CreateFew ==
  ASSUME TypeOK, TypeOK', HonestParts, FewParts, Create
  PROVE  FewParts'
<1> DEFINE r == pass.plan
<1>1. /\ pc = "create" /\ pc' = "finish" /\ r \in Runs /\ st.pending = r
      /\ pass \in PassType /\ pass'.spec = pass.spec /\ pass'.st = pass.st
      /\ pass'.fresh = pass.fresh
      /\ UNCHANGED <<spec, st, view, faults>>
  BY CreateIs, PassHolds DEF Kept, HonestParts, PlanIsReserved
<1>2. \/ r \in Existing /\ UNCHANGED phase
      \/ r \notin Existing /\ phase' = [phase EXCEPT ![r] = "Running"]
  BY CreateIs DEF history
<1>3. pass'.next.active = IF phase[r] \in Terminal THEN pass.next.active
                          ELSE pass.next.active \cup {r}
  BY CreateIs
<1>4. Limit(spec)' = Limit(spec) /\ Upsets' = Upsets /\ Excess' = Excess
  BY <1>1 DEF Upsets, Excess
<1>5. phase'[r] # "None" /\ (\A q \in Runs : phase'[q] = "None" => phase[q] = "None")
  BY <1>1, <1>2 DEF Existing, TypeOK
<1>6. ~Unborn(st.pending)'
  BY <1>1, <1>5 DEF Unborn
<1>7. Undisturbed'
  <2>1. Upsets = 0 => ~Unborn(view.st.pending)'
    <3>1. ReservationNames(Runs \cup {NoRun})
      BY ReservationTypes
    <3>2. Unborn(view.st.pending)' => Unborn(view.st.pending) /\ view.st.pending # r
      BY <1>1, <1>5, <3>1 DEF ReservationNames, Unborn
    <3>. QED BY <1>1, <3>2 DEF FewParts, Undisturbed
  <2>. QED BY <1>1, <1>4, <1>6, <2>1 DEF Undisturbed
<1>8. ListFits' /\ pass.next.active \in SUBSET Runs /\ st.active \in SUBSET Runs
  BY <1>1 DEF ListFits, PassType, TypeOK, Statuses
<1>s. Surplus(st.active)' = Surplus(st.active) /\ Surplus(st.active) \in Nat
  <2>1. Surplus(st.active) \in Nat
    BY <1>8, SurplusIs
  <2>. QED BY <1>1, <2>1 DEF Surplus
<1>9. MayMakeUp' <=> MayMakeUp
  BY <1>1 DEF MayMakeUp
<1>10. Excess \in Nat /\ Upsets \in Nat /\ Limit(spec) \in Nat /\ (Upsets # 0 => Upsets = Excess + 1)
  BY Bounds
<1>11. CASE r \in Existing /\ UNCHANGED phase
  <2>1. Going' = Going
    BY <1>11 DEF Going
  <2>2. Going' \subseteq Going /\ (Unborn(st.pending)' => Unborn(st.pending))
    BY <1>6, <2>1
  <2>3. FewAreMissing' /\ OvershootIsBounded'
    BY <1>1, <1>9, <2>2, NoneStarted
  <2>4. NextMissesFew'
    <3> DEFINE N == pass.next.active
               N2 == pass'.next.active
    <3>1. N2 \in SUBSET Runs /\ Going \in SUBSET Runs /\ Going \ N \in SUBSET Runs
          /\ Going \ N2 \in SUBSET (Going \ N)
      BY <1>1, <1>3, <1>8, GoingRuns
    <3>2. /\ Cardinality(Going \ N2) \in Nat /\ Cardinality(Going \ N) \in Nat
          /\ Surplus(N2) \in Nat /\ Surplus(N) \in Nat
      BY <1>8, <3>1, Sizes, SurplusIs
    <3>3. pass.fresh => Cardinality(Going \ N) + Surplus(N) <= Excess
      <4>1. ~Unborn(r)
        BY <1>11 DEF Existing, Unborn
      <4>2. pass.fresh => Cardinality(Going \ N) + Surplus(N \cup {}) <= Excess
        BY <1>1, <4>1 DEF FewParts, NextMissesFew
      <4>3. N \cup {} = N
        OBVIOUS
      <4>. QED BY <4>2, <4>3
    <3>4. CASE N2 = N
      <4>1. Cardinality(Going \ N2) = Cardinality(Going \ N) /\ Surplus(N2) = Surplus(N)
        BY <3>4
      <4>. QED BY <1>1, <1>4, <2>1, <3>3, <4>1, NextIsFew
    <3>5. CASE N2 # N
      <4>1. r \in Going \ N /\ N2 = N \cup {r}
        <5>1. phase[r] \notin Terminal /\ N2 = N \cup {r}
          BY <1>3, <3>5
        <5>2. phase[r] = "Running"
          BY <1>1, <1>11, <5>1 DEF Existing, TypeOK
        <5>. QED BY <1>1, <3>5, <5>1, <5>2 DEF Going
      <4>2. Going \ N2 = (Going \ N) \ {r} /\ {r} \in SUBSET (Going \ N)
        BY <4>1
      <4>3. Cardinality(Going \ N2) = Cardinality(Going \ N) - 1
        <5>1. IsFiniteSet(Going \ N)
          BY <3>1, RunsFinite, FS_Subset
        <5>2. Cardinality((Going \ N) \ {r}) = Cardinality(Going \ N) - 1
          BY <4>1, <5>1, FS_RemoveElement
        <5>. QED BY <4>2, <5>2
      <4>4. Surplus(N2) <= Surplus(N) + 1
        BY <1>1, <1>8, <4>1, SurplusIs
      <4> HIDE DEF N, N2
      <4>5. pass.fresh => Cardinality(Going \ N2) + Surplus(N2) <= Excess
        BY <1>10, <3>2, <3>3, <4>3, <4>4
      <4>. QED BY <1>1, <1>4, <2>1, <4>5, NextIsFew DEF N2
    <3>. QED BY <3>4, <3>5
  <2>. QED BY <1>1, <1>6, <1>7, <1>8, <2>3, <2>4 DEF FewParts, RoomIsKept
<1>12. CASE r \notin Existing /\ phase' = [phase EXCEPT ![r] = "Running"]
  <2>1. Going' = Going \cup {r} /\ phase[r] = "None" /\ Unborn(st.pending)
    BY <1>1, <1>12, RunParts DEF Going, Existing, TypeOK, Unborn
  <2>2. Going \in SUBSET Runs /\ Cardinality(Going) \in Nat
        /\ Cardinality(Going \cup {r}) <= Cardinality(Going) + 1
        /\ Cardinality(Going \cup {r}) \in Nat
    <3>1. Going \in SUBSET Runs /\ Going \cup {r} \in SUBSET Runs
      BY <1>1, GoingRuns
    <3>. QED BY <1>1, <3>1, Sizes
  <2>3. OvershootIsBounded'
    <3>1. Cardinality(Going) < Limit(spec) + Excess
      BY <2>1 DEF FewParts, RoomIsKept
    <3>2. Cardinality(Going \cup {r}) <= Limit(spec) + Excess
      BY <1>10, <2>2, <3>1
    <3>. QED BY <1>4, <2>1, <3>2 DEF OvershootIsBounded
  <2>4. NextMissesFew'
    <3>1. pass'.next.active = pass.next.active \cup {r}
      BY <1>3, <2>1 DEF Terminal
    <3> DEFINE N == pass.next.active
    <3>2. Going' \ (N \cup {r}) \in SUBSET (Going \ N) /\ Going \ N \in SUBSET Runs
      BY <2>1, <2>2
    <3>3. Cardinality(Going' \ (N \cup {r})) <= Cardinality(Going \ N)
          /\ Cardinality(Going' \ (N \cup {r})) \in Nat /\ Cardinality(Going \ N) \in Nat
      BY <3>2, Sizes
    <3>4. pass.fresh => Cardinality(Going \ N) + Surplus(N \cup {r}) <= Excess
      BY <1>1, <2>1 DEF FewParts, NextMissesFew
    <3>5. Surplus(N \cup {r}) \in Nat
      <4>1. N \cup {r} \in SUBSET Runs
        BY <1>1, <1>8
      <4>. QED BY <4>1, SurplusIs
    <3> HIDE DEF N
    <3>6. pass.fresh => Cardinality(Going' \ (N \cup {r})) + Surplus(N \cup {r}) <= Excess
      BY <1>10, <3>3, <3>4, <3>5
    <3>. QED BY <1>1, <1>4, <3>1, <3>6, NextIsFew DEF N
  <2>5. FewAreMissing'
    <3> DEFINE U == Going \ (st.active \cup {r})
               A == Going' \ st.active
    <3>1. Going' \ (st.active \cup {st.pending}) = U
      BY <1>1, <2>1
    <3>2. U \in SUBSET Runs /\ U \cup {r} \in SUBSET Runs /\ A \in SUBSET (U \cup {r})
      BY <1>1, <2>1, <2>2
    <3>3. Cardinality(U) \in Nat /\ Cardinality(U \cup {r}) \in Nat /\ Cardinality(A) \in Nat
          /\ Cardinality(A) <= Cardinality(U \cup {r})
          /\ Cardinality(U \cup {r}) <= Cardinality(U) + 1
      BY <1>1, <3>2, Sizes
    <3> DEFINE over == Surplus(st.active)
    <3>4. IF MayMakeUp THEN Cardinality(U) + over <= Upsets ELSE Cardinality(U) + over <= Excess
      BY <1>1 DEF FewParts, FewAreMissing
    <3>5. ~MayMakeUp => Upsets # 0
      BY <1>1 DEF FewParts, Undisturbed, MayMakeUp
    <3>7. over \in Nat
      BY <1>s
    <3> HIDE DEF U, A, over
    <3>6. IF MayMakeUp THEN Cardinality(U) + over <= Upsets
          ELSE Cardinality(U) + over <= Excess /\ Cardinality(A) + over <= Upsets
      BY <1>10, <3>3, <3>4, <3>5, <3>7
    <3>. QED BY <1>1, <1>4, <1>9, <1>s, <3>1, <3>6 DEF FewAreMissing, A, over
  <2>. QED BY <1>1, <1>6, <1>7, <1>8, <2>3, <2>4, <2>5 DEF FewParts, RoomIsKept
<1>. QED BY <1>2, <1>11, <1>12

\* The final status makes up for what the reservation hid, whether it is written or
\* the status says it already.
LEMMA FinishFew ==
  ASSUME TypeOK, TypeOK', HonestParts, FewParts, Finish
  PROVE  FewParts'
<1>1. /\ pc = "finish" /\ pc' = "idle" /\ pass \in PassType
      /\ UNCHANGED <<spec, phase, view, faults>> /\ Going' = Going
      /\ Limit(spec)' = Limit(spec) /\ Upsets' = Upsets /\ Excess' = Excess
  BY FinishIs, PassHolds DEF Going, Upsets, Excess
<1>2. NextMissesFew' /\ ListFits' /\ ~MayMakeUp' /\ OvershootIsBounded'
  BY <1>1 DEF FewParts, NextMissesFew, ListFits, MayMakeUp, OvershootIsBounded
<1>3. Excess \in Nat /\ Upsets \in Nat /\ Excess <= Upsets
  BY Bounds
<1>4. Unborn(st.pending)' => Unborn(st.pending)
  BY <1>1, FinishIs DEF HonestParts, ReservationsAreKept, Unborn
<1>5. Room' /\ Undisturbed'
  BY <1>1, <1>4 DEF FewParts, RoomIsKept, Room, Undisturbed, Unborn
<1>6. CASE ~pass.fresh
  <2>1. UNCHANGED st
    BY <1>6, FinishIs
  <2>2. MayMakeUp => MayMakeUp'
    BY <1>6 DEF MayMakeUp
  <2>3. FewAreMissing'
    BY <1>1, <1>4, <2>1, <2>2, NoneStarted
  <2>. QED BY <1>1, <1>2, <1>5, <2>3 DEF FewParts, RoomIsKept, Room
<1>7. CASE pass.fresh
  <2> DEFINE N == pass.next.active
  <2>1. st'.active = N
    <3>1. CASE Final # pass.st
      <4>1. st' = Final
        BY <1>7, <3>1 DEF Finish
      <4>. QED BY <1>1, <4>1 DEF Final, PassType, Statuses
    <3>2. CASE Final = pass.st
      <4>1. st' = pass.st
        BY <1>1, <1>7, <3>2 DEF Finish, HonestParts, CopiesAreHonest
      <4>. QED BY <1>1, <3>2, <4>1 DEF Final, PassType, Statuses
    <3>. QED BY <3>1, <3>2
  <2>2. Cardinality(Going \ N) + Surplus(N) <= Excess /\ Surplus(N) \in Nat
    <3>1. Cardinality(Going \ N) + Surplus(N \cup {}) <= Excess
      BY <1>1, <1>7 DEF FewParts, NextMissesFew
    <3>2. N \in SUBSET Runs /\ N \cup {} = N
      BY <1>1 DEF PassType, Statuses
    <3>3. Surplus(N) \in Nat
      BY <3>2, SurplusIs
    <3> HIDE DEF N
    <3>. QED BY <3>1, <3>2, <3>3
  <2> DEFINE V == Going \ (N \cup {st'.pending})
  <2>3. V \in SUBSET (Going \ N) /\ Going \ N \in SUBSET Runs
    BY GoingRuns
  <2>4. Cardinality(V) \in Nat /\ Cardinality(Going \ N) \in Nat
        /\ Cardinality(V) <= Cardinality(Going \ N)
    BY <2>3, Sizes
  <2>7. Surplus(st.active)' = Surplus(N)
    BY <2>1 DEF Surplus
  <2> HIDE DEF N, V
  <2>5. Cardinality(V) + Surplus(N) <= Excess /\ Cardinality(Going \ N) + Surplus(N) <= Upsets
    BY <1>3, <2>2, <2>4
  <2>6. FewAreMissing'
    BY <1>1, <1>2, <2>1, <2>5, <2>7 DEF FewAreMissing, V
  <2>. QED BY <1>1, <1>2, <1>5, <2>6 DEF FewParts, RoomIsKept, Room
<1>. QED BY <1>6, <1>7

\* A pass that has observed lists no more than is read, so leaves no list too long.
LEMMA Listed ==
  ASSUME TypeOK, pc = "observe", pass'.next.active = First(MaxActive, Seen \cap Going),
         UNCHANGED <<spec, phase, faults>>, pass'.fresh = pass.fresh
  PROVE  /\ Cardinality(pass'.next.active) <= MaxActive
         /\ pc' \in {"decide", "finish"}
            /\ (pass.fresh => Cardinality(Going \ pass'.next.active) <= Excess) => NextMissesFew'
<1> DEFINE F == First(MaxActive, Seen \cap Going)
<1>1. F \in SUBSET Runs /\ Cardinality(F) <= MaxActive /\ Going \ F \in SUBSET Runs
  <2>1. Seen \cap Going \in SUBSET Runs /\ MaxActive \in Nat
    BY GoingRuns, PolicyAssumption
  <2>. QED BY <2>1, FirstIsShort, GoingRuns DEF First
<1>2. Surplus(F) = 0 /\ Cardinality(Going \ F) \in Nat /\ Excess \in Nat
  BY <1>1, SurplusIs, Sizes, Bounds
<1>3. Going' = Going /\ Excess' = Excess
  BY DEF Going, Excess, Upsets
<1>4. Surplus(pass.next.active \cup {})' = Surplus(F)
  BY DEF Surplus
<1> HIDE DEF F
<1>5. ASSUME pc' \in {"decide", "finish"}, pass.fresh => Cardinality(Going \ F) <= Excess
      PROVE  NextMissesFew'
  <2>1. pass.fresh => Cardinality(Going \ F) + Surplus(F) <= Excess
    BY <1>2, <1>5
  <2>. QED BY <1>3, <1>4, <1>5, <2>1 DEF NextMissesFew, F
<1>. QED BY <1>1, <1>5 DEF F

LEMMA FewStep ==
  TypeOK /\ TypeOK' /\ PolicyIsKept /\ HonestParts /\ ReservedIsUnlisted /\ FewParts
    /\ [Next]_vars => FewParts'
<1> SUFFICES ASSUME TypeOK, TypeOK', PolicyIsKept, HonestParts, ReservedIsUnlisted, FewParts,
                    [Next]_vars
             PROVE  FewParts'
  OBVIOUS
<1> USE DEF history
\* A step that touches neither the runs nor the status, nor makes what a pass holds stale.
<1>1. ASSUME UNCHANGED <<spec, st, phase, faults>>, MayMakeUp => MayMakeUp'
      PROVE  FewAreMissing' /\ OvershootIsBounded' /\ Room' /\ Going' = Going
             /\ Upsets' = Upsets /\ Excess' = Excess /\ Limit(spec)' = Limit(spec)
             /\ (Unborn(st.pending)' <=> Unborn(st.pending))
  <2>1. Going' \subseteq Going /\ (Unborn(st.pending)' <=> Unborn(st.pending)) /\ Going' = Going
    BY <1>1 DEF Going, Unborn
  <2>2. FewAreMissing' /\ OvershootIsBounded' /\ Room'
    BY <1>1, <2>1, NoneStarted
  <2>. QED BY <1>1, <2>1, <2>2 DEF Upsets, Excess
<1>2. CASE Tick
  <2>1. UNCHANGED <<spec, st, phase, faults, view, pc, pass>>
    BY <1>2 DEF Tick
  <2>2. MayMakeUp => MayMakeUp'
    BY <2>1 DEF MayMakeUp
  <2>. QED BY <1>1, <2>1, <2>2 DEF FewParts, RoomIsKept, Room, NextMissesFew, ListFits,
           Undisturbed, Unborn
<1>3. CASE Deliver
  <2>1. UNCHANGED <<spec, st, phase, faults, pc, pass>> /\ view' = [spec |-> spec, st |-> st]
    BY <1>3 DEF Deliver
  <2>2. MayMakeUp => MayMakeUp'
    BY <2>1 DEF MayMakeUp
  <2>. QED BY <1>1, <2>1, <2>2 DEF FewParts, RoomIsKept, Room, NextMissesFew, ListFits,
           Undisturbed, Unborn
<1>4. CASE Edit
  <2>1. /\ UNCHANGED <<st, phase, view, pc, faults>>
        /\ spec'.policy = spec.policy /\ spec'.gen = spec.gen + 1
    BY <1>4 DEF Edit, TypeOK, Specs
  <2>2. pc # "idle" => /\ pass'.fresh = FALSE /\ pass'.spec = pass.spec
                       /\ pass'.next = pass.next
    BY <1>4 DEF Edit, TypeOK, PassType
  <2>3. Upsets' = Upsets + 1
    <3>1. faults \in Nat /\ spec.gen \in Nat
      BY ScheduleBounds DEF TypeOK, Specs
    <3>. QED BY <2>1, <3>1 DEF Upsets
  <2>4. ~MayMakeUp'
    BY <2>1, <2>2 DEF MayMakeUp
  <2>5. FewAreMissing' /\ OvershootIsBounded' /\ Room' /\ Undisturbed'
    BY <2>1, <2>3, <2>4, UpsetMakesRoom
  <2>6. NextMissesFew' /\ ListFits'
    BY <2>1, <2>2 DEF FewParts, NextMissesFew, ListFits
  <2>7. (pc = "reserve" => Cardinality(pass.next.active) < Limit(spec))'
    BY <2>1, <2>2 DEF FewParts, RoomIsKept, Limit
  <2>. QED BY <2>5, <2>6, <2>7 DEF FewParts, RoomIsKept, Room
<1>5. CASE Interrupt
  <2>1. UNCHANGED <<spec, st, phase, view>> /\ pc' = "idle" /\ faults' = faults + 1
    BY <1>5 DEF Interrupt, EndPass
  <2>2. Upsets' = Upsets + 1
    <3>1. faults \in Nat /\ spec.gen \in Nat
      BY ScheduleBounds DEF TypeOK, Specs
    <3>. QED BY <2>1, <3>1 DEF Upsets
  <2>3. ~MayMakeUp' /\ spec'.policy = spec.policy
    BY <2>1 DEF MayMakeUp
  <2>4. FewAreMissing' /\ OvershootIsBounded' /\ Room' /\ Undisturbed'
    BY <2>1, <2>2, <2>3, UpsetMakesRoom
  <2>. QED BY <2>1, <2>4 DEF FewParts, RoomIsKept, Room, NextMissesFew, ListFits
<1>6. CASE Begin
  <2>1. /\ pc = "idle" /\ pc' = "observe" /\ pass'.spec = view.spec /\ pass'.st = view.st
        /\ UNCHANGED <<spec, st, phase, view, faults>>
    BY <1>6, BeginIs
  <2>2. MayMakeUp => MayMakeUp'
    BY <2>1 DEF MayMakeUp
  <2>. QED BY <1>1, <2>1, <2>2 DEF FewParts, RoomIsKept, Room, NextMissesFew, ListFits,
           Undisturbed, Unborn
<1>7. CASE Observe
  <2>1. /\ pc = "observe" /\ pc' = "decide" /\ pass'.spec = pass.spec /\ pass'.fresh = pass.fresh
        /\ pass'.next.active = First(MaxActive, Seen \cap Going)
        /\ UNCHANGED <<spec, st, phase, view, faults>>
    BY <1>7, ObserveIs DEF Kept
  <2>2. MayMakeUp => MayMakeUp'
    BY <2>1 DEF MayMakeUp
  <2>3. pass.fresh => Cardinality(Going \ pass'.next.active) <= Excess
    BY <2>1, KnowsMost
  <2>4. NextMissesFew' /\ ListFits'
    BY <1>1, <2>1, <2>3, Listed DEF NextMissesFew, ListFits
  <2>. QED BY <1>1, <2>1, <2>2, <2>4 DEF FewParts, RoomIsKept, Room,
           Undisturbed, Unborn
<1>8. CASE Resume
  <2>1. /\ pc = "observe" /\ pc' \in {"finish", "create"}
        /\ pass'.spec = pass.spec /\ pass'.fresh = pass.fresh
        /\ pass'.next.active = First(MaxActive, Seen \cap Going)
        /\ UNCHANGED <<spec, st, phase, view, faults>>
    BY <1>8, ResumeIs DEF Kept
  <2>2. MayMakeUp => MayMakeUp'
    BY <2>1 DEF MayMakeUp
  <2>4. Upsets # 0 /\ Unborn(pass.st.pending)
    <3>1. Unborn(pass.st.pending)
      BY <1>8, ResumeIs, SeesReserved, RunParts DEF Unborn, Existing
    <3>. QED BY <2>1, <3>1 DEF FewParts, Undisturbed
  <2>3. NextMissesFew' /\ ListFits'
    <3>1. CASE pc' = "finish"
      <4>1. pass.fresh => Cardinality(Going \ pass'.next.active) <= Excess
        BY <2>1, KnowsMost
      <4>. QED BY <1>1, <2>1, <3>1, <4>1, Listed DEF ListFits
    <3>2. CASE pc' = "create" /\ pass'.plan = pass.st.pending
      <4>1. pass.fresh => pass.st.pending = st.pending
        BY <2>1 DEF HonestParts, CopiesAreHonest
      <4>2. pass.fresh => Cardinality(Going \ pass'.next.active)
                           + Surplus(pass'.next.active \cup {pass.st.pending}) <= Excess
        BY <2>1, <2>4, <4>1, KnowsMost
      <4>3. Unborn(pass.plan)' /\ Going' = Going /\ Excess' = Excess
        BY <1>1, <2>1, <2>2, <2>4, <3>2 DEF Unborn
      <4>4. NextMissesFew'
        <5>1. Surplus(pass.next.active \cup {pass.plan})'
                = Surplus(pass'.next.active \cup {pass.st.pending})
          BY <3>2 DEF Surplus
        <5>. QED BY <2>1, <3>2, <4>2, <4>3, <5>1 DEF NextMissesFew
      <4>. QED BY <2>1, <4>4, Listed DEF ListFits
    <3>. QED BY <1>8, <3>1, <3>2, ResumeIs
  <2>5. Undisturbed'
    BY <1>1, <2>1, <2>2, <2>4 DEF Undisturbed
  <2>. QED BY <1>1, <2>1, <2>2, <2>3, <2>5 DEF FewParts, RoomIsKept, Room
<1>9. CASE DecideNothing \/ DecideAttempt \/ DecideSlot
  <2>1. Decides
    BY <1>9, DecideNothingIs, DecideAttemptIs, DecideSlotIs
  <2>2. /\ pc = "decide" /\ pc' \in {"finish", "reserve"}
        /\ pass'.spec = pass.spec /\ pass'.fresh = pass.fresh
        /\ pass'.next.active = pass.next.active
        /\ UNCHANGED <<spec, st, phase, view, faults>>
    BY <2>1 DEF Decides, Kept
  <2>3. MayMakeUp => MayMakeUp'
    BY <2>2 DEF MayMakeUp
  <2>4. pc' = "reserve" => Cardinality(pass'.next.active) < Limit(spec)
    <3>1. pc' = "reserve" => ~Blocked
      BY <2>1 DEF Decides
    <3>2. Limit(pass.spec) = Limit(spec) /\ Limit(spec) \in Nat
      BY <2>2, Bounds DEF PolicyIsKept, Limit
    <3>3. Cardinality(pass.next.active) \in Nat
      BY <2>2, PassHolds, Sizes DEF PassType, Statuses
    <3>. QED BY <2>2, <3>1, <3>2, <3>3 DEF Blocked
  <2>6. NextMissesFew'
    <3>1. pass.fresh => Cardinality(Going \ pass.next.active) + Surplus(pass.next.active \cup {}) <= Excess
      BY <2>2 DEF FewParts, NextMissesFew
    <3>2. Surplus(pass.next.active \cup {})' = Surplus(pass.next.active \cup {})
      BY <2>2 DEF Surplus
    <3>. QED BY <1>1, <2>2, <2>3, <3>1, <3>2 DEF NextMissesFew
  <2>5. ListFits' /\ Undisturbed'
    BY <1>1, <2>2, <2>3 DEF FewParts, ListFits, Undisturbed, Unborn
  <2>. QED BY <1>1, <2>2, <2>3, <2>4, <2>5, <2>6 DEF FewParts, RoomIsKept, Room
<1>10. CASE Reserve
  BY <1>10, ReserveFew
<1>11. CASE Create
  BY <1>11, CreateFew
<1>12. CASE Finish
  BY <1>12, FinishFew
<1>13. ASSUME NEW r \in Runs, EndRun(r) \/ Prune(r) PROVE FewParts'
  <2>1. /\ UNCHANGED <<spec, st, view, pc, pass, faults>> /\ Going' \subseteq Going
        /\ \A q \in Runs : phase'[q] = "None" =>
              phase[q] = "None" \/ (q = r /\ Prune(r))
    BY <1>13 DEF EndRun, Prune, Going, TypeOK, Terminal
  <2>2. ReservationNames(Runs \cup {NoRun})
    BY ReservationTypes
  <2>3. Prune(r) => /\ r # st.pending /\ r # view.st.pending
                    /\ pc # "idle" => r # pass.st.pending
    BY DEF Prune, NamedBy
  <2>4. /\ Unborn(st.pending)' => Unborn(st.pending)
        /\ Unborn(view.st.pending)' => Unborn(view.st.pending)
        /\ pc # "idle" => (Unborn(pass.st.pending)' => Unborn(pass.st.pending))
    BY <2>1, <2>2, <2>3 DEF ReservationNames, Unborn
  <2>5. MayMakeUp => MayMakeUp'
    BY <2>1 DEF MayMakeUp
  <2>6. FewAreMissing' /\ OvershootIsBounded' /\ Room'
    BY <2>1, <2>4, <2>5, NoneStarted
  <2>7. Upsets' = Upsets /\ Excess' = Excess /\ Limit(spec)' = Limit(spec)
    BY <2>1 DEF Upsets, Excess
  <2>8. NextMissesFew' /\ ListFits'
    <3> DEFINE N == pass.next.active
               born == IF pc = "create" /\ Unborn(pass.plan) THEN {pass.plan} ELSE {}
               over == Surplus(N \cup born)
    <3>1. Going' \ N \in SUBSET (Going \ N) /\ Going \ N \in SUBSET Runs
      BY <2>1, GoingRuns
    <3>2. Cardinality(Going' \ N) \in Nat /\ Cardinality(Going \ N) \in Nat
          /\ Cardinality(Going' \ N) <= Cardinality(Going \ N) /\ Excess \in Nat
      BY <3>1, Sizes, Bounds
    <3>3. pc \in {"decide", "reserve", "create", "finish"} /\ pass.fresh
            => Cardinality(Going \ N) + over <= Excess
      BY DEF FewParts, NextMissesFew
    <3>4. pc = "create" => (Unborn(pass.plan)' <=> Unborn(pass.plan))
      <4>1. pc = "create" => st.pending = pass.plan /\ pass.plan \in Runs
        BY DEF HonestParts, PlanIsReserved, TypeOK
      <4>2. \A q \in Runs : phase[q] = "None" => phase'[q] = "None"
        BY <1>13 DEF EndRun, Prune, TypeOK, Terminal
      <4>3. pc = "create" => (phase'[pass.plan] = "None" <=> phase[pass.plan] = "None")
        BY <2>1, <2>3, <4>1, <4>2
      <4>. QED BY <2>1, <4>3 DEF Unborn
    <3>5. Surplus(pass.next.active \cup (IF pc = "create" /\ Unborn(pass.plan) THEN {pass.plan} ELSE {}))' = over
      BY <2>1, <3>4 DEF Surplus
    <3>6. over \in Nat \/ ~(pc \in {"decide", "reserve", "create", "finish"})
      <4>1. pc \in {"decide", "reserve", "create", "finish"} => N \cup born \in SUBSET Runs
        BY PassHolds DEF TypeOK, PassType, Statuses
      <4>. QED BY <4>1, SurplusIs
    <3>7. ListFits'
      BY <2>1 DEF FewParts, ListFits
    <3> HIDE DEF N, over, born
    <3>8. pc \in {"decide", "reserve", "create", "finish"} /\ pass.fresh
            => Cardinality(Going' \ N) + over <= Excess
      BY <3>2, <3>3, <3>6
    <3>. QED BY <2>1, <2>7, <3>5, <3>7, <3>8 DEF NextMissesFew, N
  <2>9. Undisturbed'
    BY <2>1, <2>4, <2>7 DEF FewParts, Undisturbed
  <2>. QED BY <2>1, <2>6, <2>7, <2>8, <2>9 DEF FewParts, RoomIsKept, Room
<1>14. CASE UNCHANGED vars
  <2>1. UNCHANGED <<spec, st, phase, faults, view, pc, pass>>
    BY <1>14 DEF vars
  <2>2. MayMakeUp => MayMakeUp'
    BY <2>1 DEF MayMakeUp
  <2>. QED BY <1>1, <2>1, <2>2 DEF FewParts, RoomIsKept, Room, NextMissesFew, ListFits,
           Undisturbed, Unborn
<1>. QED BY <1>2, <1>3, <1>4, <1>5, <1>6, <1>7, <1>8, <1>9, <1>10, <1>11, <1>12,
         <1>13, <1>14 DEF Next, Step

-----------------------------------------------------------------------------
(* The invariant, and what follows from it.                                *)

LEMMA InvInit == Init => IInv
<1> SUFFICES ASSUME Init PROVE IInv
  OBVIOUS
<1>1. TypeOK
  BY TypeInit
<1>2. Going = {} /\ Existing = {} /\ LastStarted = NoRun /\ ~Unborn(NoRun) /\ Cardinality({}) = 0
  BY FS_EmptySet DEF Init, Going, Existing, LastStarted, Unborn
<1>3. st.pending = NoRun /\ st.lastFire = 0 /\ NoRun[1] = 0 /\ now \in Nat
  BY <1>1, Numbers DEF Init, NewStatus, NoRun
<1>4. pc = "idle" /\ view = [spec |-> spec, st |-> st] /\ view.st.pending = NoRun
  BY <1>3 DEF Init
<1>5. CopiesAreHonest /\ PlanIsReserved /\ NextIsComplete /\ ReservationsAreKept /\ PolicyIsKept
  BY <1>4 DEF CopiesAreHonest, PlanIsReserved, NextIsComplete, ReservationsAreKept, PolicyIsKept
<1>6. ActiveIsComplete /\ ReservedAlone /\ OneIsListed /\ StaleReservationIsDead /\ PlanFollows
  BY <1>2, <1>3, <1>4 DEF NewStatus, Init, ActiveIsComplete, ReservedAlone, OneIsListed, StaleReservationIsDead, PlanFollows
<1>7. LastIsNewest /\ SlotsInOrder /\ ListParts /\ ListFits
  BY <1>2, <1>3, <1>4 DEF LastIsNewest, SlotsInOrder, ListParts, ListedWereStarted,
     ReservedIsUnlisted, ListFits, Init, NewStatus
<1>8. FewAreMissing /\ NextMissesFew
  <2>1. Upsets \in Nat /\ Excess \in Nat
    BY <1>1, Bounds
  <2>2. Going \ (st.active \cup {st.pending}) = {} /\ Going \ st.active = {}
    BY <1>2
  <2>3. st.active = {} /\ Surplus({}) = 0
    BY <1>2, PolicyAssumption DEF Init, NewStatus, Surplus
  <2>. QED BY <1>2, <1>4, <2>1, <2>2, <2>3 DEF FewAreMissing, MayMakeUp, NextMissesFew
<1>9. RoomIsKept /\ Undisturbed /\ OvershootIsBounded
  <2>1. Excess \in Nat /\ Limit(spec) \in Nat
    BY <1>1, Bounds
  <2>. QED BY <1>2, <1>3, <1>4, <2>1 DEF RoomIsKept, Undisturbed, OvershootIsBounded
<1>. QED BY <1>1, <1>5, <1>6, <1>7, <1>8, <1>9 DEF IInv, ForbidKnowsAll, ListParts

LEMMA InvStep == IInv /\ [Next]_vars => IInv'
<1> SUFFICES ASSUME IInv, [Next]_vars PROVE IInv'
  OBVIOUS
<1>1. TypeOK /\ PolicyIsKept /\ HonestParts /\ TrustParts /\ ListParts /\ FewParts
  BY DEF IInv, HonestParts, TrustParts, ListParts, FewParts
<1>2. TypeOK'
  BY <1>1, TypeStep
<1>3. PolicyIsKept' /\ HonestParts' /\ TrustParts' /\ ListParts' /\ FewParts'
  BY <1>1, <1>2, PolicyStep, HonestStep, TrustStep, ListStep, FewStep DEF ListParts
<1>. QED BY <1>2, <1>3 DEF IInv, HonestParts, TrustParts, ListParts, FewParts

\* The invariant holds throughout, whichever copies of the status the passes read
\* and wherever they are cut short.
THEOREM InvariantHolds == Spec => []IInv
BY InvInit, InvStep, PTL DEF Spec

\* Under Forbid the status never loses a run that is under way: activeRuns or the
\* reservation names it (schedule_history.rs, observe).
THEOREM NoRunIsLost == Spec => [](spec.policy = "Forbid" => ActiveIsComplete)
<1>1. IInv => (spec.policy = "Forbid" => ActiveIsComplete)
  BY DEF IInv, ForbidKnowsAll
<1>. QED BY <1>1, InvariantHolds, PTL

\* At most one of the runs is under way under Forbid.
LEMMA OneAtMost == ASSUME \A q, r \in Going : q = r PROVE Cardinality(Going) <= 1
<1>1. CASE Going = {}
  BY <1>1, FS_EmptySet
<1>2. CASE \E r \in Going : Going = {r}
  <2>1. PICK r \in Going : Going = {r}
    BY <1>2
  <2>2. Cardinality(Going) = 1
    BY <2>1, FS_Singleton
  <2>. QED BY <2>2
<1>. QED BY <1>1, <1>2

\* Under Forbid no two runs of a schedule are ever under way, although a pass may
\* create a run it reserved from a copy the object has left behind.
THEOREM ForbidIsKept == Spec => [](spec.policy = "Forbid" => ConcurrencyKept)
<1>1. IInv => (spec.policy = "Forbid" => ConcurrencyKept)
  BY OneAtMost DEF IInv, ForbidKnowsAll, ReservedAlone, ConcurrencyKept, Limit
<1>. QED BY <1>1, InvariantHolds, PTL

\* Under either policy no run is let through above the limit by a single edit or a
\* pass cut short, and by each after it at most one.
THEOREM OvershootIsKept == Spec => []OvershootIsBounded
<1>1. IInv => OvershootIsBounded
  BY DEF IInv
<1>. QED BY <1>1, InvariantHolds, PTL

LEMMA CardinalityAgrees == \A S : Outside!Cardinality(S) = Cardinality(S)
BY DEF Outside!Cardinality, Cardinality

LEMMA CeilingType == TypeOK => Ceiling \in Nat
BY Bounds DEF Ceiling

LEMMA RefineInit == Init => Outside!Init
<1> SUFFICES ASSUME Init PROVE Outside!Init
  OBVIOUS
<1>1. Ceiling \in Nat
  BY TypeInit, CeilingType
<1>2. LastStarted = NoRun /\ Going = {} /\ fate = "None"
  BY DEF Init, LastStarted, Going
<1>. QED BY <1>1, <1>2 DEF Outside!Init

\* A run is created only where the ceiling leaves room for one.
LEMMA CreatedBelow ==
  ASSUME IInv, Unborn(st.pending)
  PROVE  Cardinality(Going) < Ceiling
<1>1. CASE spec.policy = "Forbid"
  <2>1. Going = {}
    BY <1>1 DEF IInv, ForbidKnowsAll, ReservedAlone
  <2>. QED BY <1>1, <2>1, FS_EmptySet DEF Ceiling
<1>2. CASE spec.policy # "Forbid"
  BY <1>2 DEF IInv, RoomIsKept, Ceiling, Limit
<1>. QED BY <1>1, <1>2

\* From outside nothing happens but the start and the end of runs, and that an
\* upset may raise the ceiling.
LEMMA RefineStep ==
  IInv /\ [Next]_vars
    => [Outside!Next]_<<Ceiling, LastStarted, Going, fate = "Retryable">>
<1> SUFFICES ASSUME IInv, [Next]_vars
             PROVE  [Outside!Next]_<<Ceiling, LastStarted, Going, fate = "Retryable">>
  OBVIOUS
<1>1. TypeOK /\ TypeOK' /\ spec'.policy = spec.policy
  BY InvStep, PolicyStep DEF IInv
<1>2. ASSUME UNCHANGED <<spec, faults, phase, started, fate>>
      PROVE  UNCHANGED <<Ceiling, LastStarted, Going, fate = "Retryable">>
  <2>1. Upsets' = Upsets
    BY <1>2 DEF Upsets
  <2>. QED BY <1>2, <2>1 DEF Ceiling, Excess, LastStarted, Going
<1>3. CASE Create
  <2>1. pass.plan \in Runs /\ pc = "create" /\ st.pending = pass.plan /\ UNCHANGED <<spec, faults>>
    BY <1>1, <1>3, CreateIs DEF IInv, PlanIsReserved
  <2>2. CASE UNCHANGED <<phase, history>>
    BY <1>2, <2>1, <2>2 DEF history
  <2>3. CASE /\ pass.plan \notin Existing
             /\ phase' = [phase EXCEPT ![pass.plan] = "Running"]
             /\ started' = Append(started, pass.plan) /\ fate' = "None"
    <3>1. Unborn(st.pending)
      BY <2>1, <2>3, RunParts DEF Unborn, Existing
    <3>2. Cardinality(Going) < Ceiling /\ MayFollow(pass.plan)
      BY <2>1, <3>1, CreatedBelow DEF IInv, PlanFollows
    <3>3. LastStarted' = pass.plan
      <4>1. started \in Seq(Runs)
        BY <1>1 DEF TypeOK
      <4>. QED BY <2>1, <2>3, <4>1 DEF LastStarted
    <3>4. Going' = Going \cup {pass.plan}
      BY <1>1, <2>1, <2>3 DEF Going, TypeOK
    <3>5. Outside!Follows(pass.plan)
      <4>1. LastStarted[1] \in Nat /\ LastStarted[2] \in Nat
        BY <1>1, Numbers
      <4>2. \A a, b : <<a, b>>[1] = a /\ <<a, b>>[2] = b
        OBVIOUS
      <4>. QED BY <3>2, <4>1, <4>2 DEF Outside!Follows, MayFollow
    <3>6. (fate = "Retryable")' = FALSE
      BY <2>3
    <3>7. Ceiling' = Ceiling
      BY <2>1 DEF Ceiling, Excess, Upsets
    <3>8. Outside!Start(pass.plan)
      BY <3>2, <3>3, <3>4, <3>5, <3>6, <3>7, CardinalityAgrees DEF Outside!Start
    <3>. QED BY <2>1, <3>8 DEF Outside!Next
  <2>. QED BY <1>1, <1>3, <2>2, <2>3, CreateIs
<1>4. ASSUME NEW r \in Runs, EndRun(r)
      PROVE  Outside!Next
  <2>1. PICK outcome \in Terminal :
          /\ phase' = [phase EXCEPT ![r] = outcome]
          /\ fate' = IF r = started[Len(started)] THEN outcome ELSE fate
    BY <1>4 DEF EndRun
  <2>2. r \in Going /\ Going' = Going \ {r} /\ r \in Existing
    BY <1>1, <1>4, <2>1 DEF EndRun, Going, Existing, TypeOK, Terminal
  <2>3. LastStarted = started[Len(started)] /\ LastStarted' = LastStarted
    <3>1. r = LastStarted \/ Before(r, LastStarted)
      BY <2>2 DEF IInv, LastIsNewest
    <3>2. ~Before(r, NoRun) /\ r # NoRun
      BY RunParts, BeforeParts DEF Before, NoRun
    <3>. QED BY <1>4, <3>1, <3>2 DEF EndRun, LastStarted
  <2>4. (fate = "Retryable")' \in (IF r = LastStarted THEN BOOLEAN ELSE {fate = "Retryable"})
    BY <2>1, <2>3
  <2>5. Ceiling' = Ceiling
    BY <1>4 DEF EndRun, Ceiling, Excess, Upsets
  <2>6. Outside!End(r)
    BY <2>2, <2>3, <2>4, <2>5 DEF Outside!End
  <2>. QED BY <2>6 DEF Outside!Next
<1>5. ASSUME NEW r \in Runs, Prune(r)
      PROVE  UNCHANGED <<Ceiling, LastStarted, Going, fate = "Retryable">>
  <2>1. Going' = Going
    BY <1>1, <1>5 DEF Prune, Going, TypeOK, Terminal
  <2>2. UNCHANGED <<spec, faults, started, fate>>
    BY <1>5 DEF Prune, history
  <2>. QED BY <2>1, <2>2 DEF LastStarted, Ceiling, Excess, Upsets
<1>6. CASE Edit \/ Interrupt
  <2>1. UNCHANGED <<phase, started, fate>>
    BY <1>6 DEF Edit, Interrupt, history
  <2>2. UNCHANGED <<LastStarted, Going, fate = "Retryable">>
    BY <2>1 DEF LastStarted, Going
  <2>3. Ceiling \in Nat /\ Ceiling' \in Nat /\ Ceiling <= Ceiling'
    <3>1. /\ faults \in Nat /\ faults' \in Nat /\ MaxActive \in Nat
          /\ spec.gen \in Nat /\ spec.gen >= 1 /\ spec'.gen \in Nat /\ spec'.gen >= 1
      BY <1>1, ScheduleBounds, PolicyAssumption DEF TypeOK, Specs
    <3>2. Upsets <= Upsets'
      <4>1. CASE Edit
        <5>1. faults' = faults /\ spec'.gen = spec.gen + 1
          BY <1>1, <4>1 DEF Edit, TypeOK, Specs
        <5>. QED BY <3>1, <5>1 DEF Upsets
      <4>2. CASE Interrupt
        <5>1. faults' = faults + 1 /\ spec' = spec
          BY <4>2 DEF Interrupt
        <5>. QED BY <3>1, <5>1 DEF Upsets
      <4>. QED BY <1>6, <4>1, <4>2
    <3>3. Upsets \in Nat /\ Upsets' \in Nat
      BY <3>1 DEF Upsets
    <3>4. Excess \in Nat /\ Excess' \in Nat /\ Excess <= Excess'
      <4>1. \A u, v \in Nat : u <= v =>
              LET e == IF u = 0 THEN 0 ELSE u - 1
                  f == IF v = 0 THEN 0 ELSE v - 1
              IN  e \in Nat /\ f \in Nat /\ e <= f
        OBVIOUS
      <4>. QED BY <3>2, <3>3, <4>1 DEF Excess
    <3>5. spec'.policy = spec.policy
      BY <1>1
    <3>6. CASE spec.policy = "Forbid"
      <4>1. Ceiling = 1 /\ Ceiling' = 1
        BY <3>5, <3>6 DEF Ceiling
      <4>. QED BY <4>1
    <3>7. CASE spec.policy # "Forbid"
      <4>1. Ceiling = MaxActive + Excess /\ Ceiling' = MaxActive + Excess'
        BY <3>5, <3>7 DEF Ceiling
      <4>2. \A m, e, f \in Nat :
              e <= f => m + e \in Nat /\ m + f \in Nat /\ m + e <= m + f
        OBVIOUS
      <4>. QED BY <3>1, <3>4, <4>1, <4>2
    <3>. QED BY <3>6, <3>7
  <2>4. CASE Ceiling' = Ceiling
    BY <2>2, <2>4
  <2>5. CASE Ceiling' # Ceiling
    BY <2>2, <2>3, <2>5 DEF Outside!Next, Outside!Raise
  <2>. QED BY <2>4, <2>5
<1>7. CASE Tick \/ Deliver \/ UNCHANGED vars
  BY <1>2, <1>7 DEF Tick, Deliver, vars, history
<1>8. CASE Begin \/ Observe \/ Resume \/ Reserve \/ Finish
  BY <1>2, <1>8 DEF Begin, Observe, Resume, Reserve, Finish, history
<1>9. CASE DecideNothing \/ DecideAttempt \/ DecideSlot
  BY <1>2, <1>9 DEF DecideNothing, DecideAttempt, DecideSlot, history
<1>. QED BY <1>3, <1>4, <1>5, <1>6, <1>7, <1>8, <1>9 DEF Next, Step

\* Under either policy the schedule implements ScheduledRuns: whatever pass is stale,
\* refused or cut short, each slot and attempt is started once, in order, a retry
\* only of the run that has just failed in a way that is retried; alone under Forbid,
\* and within the limit and what upsets let through under Allow.
THEOREM ScheduleRefinement == Spec => ImplementsScheduledRuns
BY RefineInit, RefineStep, InvariantHolds, PTL DEF Spec, ImplementsScheduledRuns, Outside!Spec

=============================================================================
