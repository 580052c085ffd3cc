--------------------------- MODULE CadenceProofs ---------------------------
(***************************************************************************)
(* The walks of Cadence find exactly the firings the definition of a       *)
(* cadence gives, for every expression, every zone whose offsets and jump  *)
(* are real, and every instant; and the slot a pass decides about is the   *)
(* one they find.                                                          *)
(***************************************************************************)
EXTENDS ScheduleCadence, BackupScheduleProofs

(***************************************************************************)
(* Sets of integers                                                        *)
(***************************************************************************)

\* A nonempty set of integers that is bounded below has exactly one least element.
LEMMA LeastIs ==
    ASSUME NEW b \in Int, NEW S \in SUBSET Int, \A x \in S : b <= x, S # {}
    PROVE  \E k \in S : Least(S) = {k} /\ \A x \in S : k <= x
<1> DEFINE T == {x - b : x \in S}
<1>1. T \in SUBSET Nat /\ T # {}
  <2>1. ASSUME NEW x \in S PROVE x - b \in Nat
    OBVIOUS
  <2>. QED BY <2>1
<1>2. PICK u \in T : \A v \in T : u <= v
  BY <1>1, LeastNatural
<1>3. PICK k \in S : u = k - b
  OBVIOUS
<1>4. ASSUME NEW x \in S PROVE k <= x
  <2>1. x - b \in T /\ k - b <= x - b
    BY <1>2, <1>3
  <2>. QED BY <2>1
<1>5. Least(S) = {k}
  <2>1. k \in Least(S)
    BY <1>4 DEF Least
  <2>2. ASSUME NEW x \in Least(S) PROVE x = k
    BY <1>4, <2>2 DEF Least
  <2>. QED BY <2>1, <2>2
<1>. QED BY <1>4, <1>5

LEMMA GreatestIs ==
    ASSUME NEW b \in Int, NEW S \in SUBSET Int, \A x \in S : x <= b, S # {}
    PROVE  \E k \in S : Greatest(S) = {k} /\ \A x \in S : x <= k
<1> DEFINE T == {b - x : x \in S}
<1>1. T \in SUBSET Nat /\ T # {}
  <2>1. ASSUME NEW x \in S PROVE b - x \in Nat
    OBVIOUS
  <2>. QED BY <2>1
<1>2. PICK u \in T : \A v \in T : u <= v
  BY <1>1, LeastNatural
<1>3. PICK k \in S : u = b - k
  OBVIOUS
<1>4. ASSUME NEW x \in S PROVE x <= k
  <2>1. b - x \in T /\ b - k <= b - x
    BY <1>2, <1>3
  <2>. QED BY <2>1
<1>5. Greatest(S) = {k}
  <2>1. k \in Greatest(S)
    BY <1>4 DEF Greatest
  <2>2. ASSUME NEW x \in Greatest(S) PROVE x = k
    BY <1>4, <2>2 DEF Greatest
  <2>. QED BY <2>1, <2>2
<1>. QED BY <1>4, <1>5

(***************************************************************************)
(* Dates                                                                   *)
(***************************************************************************)

LEMMA DayIs ==
    /\ Day \in Nat /\ Day >= 1 /\ WalkDays \in Nat /\ WalkDays >= 2
    /\ MaxOffset \in Nat /\ GapSearch \in Nat /\ Day <= MaxOffset /\ MaxOffset <= GapSearch
BY CalendarAssumption

LEMMA DateIs ==
    ASSUME NEW l \in Int
    PROVE  /\ Date(l) \in Int /\ Clock(l) \in 0 .. Day - 1
           /\ Date(l) * Day \in Int /\ l = Date(l) * Day + Clock(l)
BY DayIs DEF Date, Clock

LEMMA DateSteps ==
    ASSUME NEW d \in Int, NEW k \in Int
    PROVE  /\ d * Day \in Int /\ k * Day \in Int
           /\ (d + k) * Day = d * Day + k * Day
           /\ (d - k) * Day = d * Day - k * Day
           /\ d < k => d * Day + Day <= k * Day
           /\ d <= k => d * Day <= k * Day
<1>1. d * Day \in Int /\ k * Day \in Int /\ (d + k) * Day = d * Day + k * Day
      /\ (d - k) * Day = d * Day - k * Day
  BY DayIs
<1>2. ASSUME d < k PROVE d * Day + Day <= k * Day
  <2>1. k - d >= 1 /\ (k - d) * Day = k * Day - d * Day
    BY <1>2, DayIs
  <2>2. (k - d) * Day >= Day
    BY <2>1, DayIs
  <2>. QED BY <1>1, <2>1, <2>2, DayIs
<1>. QED BY <1>1, <1>2, DayIs

\* The date and the clock of a local time are the ones it is made of.
LEMMA DateOf ==
    ASSUME NEW d \in Int, NEW n \in 0 .. Day - 1
    PROVE  d * Day + n \in Int /\ Date(d * Day + n) = d /\ Clock(d * Day + n) = n
<1> DEFINE l == d * Day + n
           e == Date(l)
<1>1. d * Day \in Int /\ l \in Int /\ n \in Int /\ 0 <= n /\ n < Day
  BY DateSteps, DayIs
<1>2. e \in Int /\ Clock(l) \in 0 .. Day - 1 /\ l = e * Day + Clock(l) /\ e * Day \in Int
  BY <1>1, DateIs
<1>3. (e < d => e * Day + Day <= d * Day) /\ (d < e => d * Day + Day <= e * Day)
  BY <1>2, DateSteps
<1> HIDE DEF e
<1>4. e = d
  BY <1>1, <1>2, <1>3, DayIs
<1>5. Clock(l) = n
  BY <1>1, <1>2, <1>4
<1>. QED BY <1>1, <1>4, <1>5 DEF e

\* What is on a later date comes later.
LEMMA DatesGrow ==
    ASSUME NEW l \in Int, NEW m \in Int
    PROVE  /\ Date(l) < Date(m) => l < m
           /\ l <= m => Date(l) <= Date(m)
<1> DEFINE d == Date(l)
           e == Date(m)
<1>1. d \in Int /\ d * Day \in Int /\ Clock(l) \in 0 .. Day - 1 /\ l = d * Day + Clock(l)
  BY DateIs
<1>2. e \in Int /\ e * Day \in Int /\ Clock(m) \in 0 .. Day - 1 /\ m = e * Day + Clock(m)
  BY DateIs
<1>3. (d < e => d * Day + Day <= e * Day) /\ (e < d => e * Day + Day <= d * Day)
  BY <1>1, <1>2, DateSteps
<1> HIDE DEF d, e
<1>4. (d < e => l < m) /\ (e < d => m < l)
  BY <1>1, <1>2, <1>3, DayIs
<1>5. (d < e => l < m) /\ (l <= m => d <= e)
  BY <1>1, <1>2, <1>4
<1>. QED BY <1>5 DEF d, e

\* The edge is wide enough for two offsets, and for the search of a gap.
LEMMA EdgeIs ==
    /\ EdgeDays \in Nat /\ EdgeDays >= 2
    /\ EdgeDays * Day \in Int /\ EdgeDays * Day >= MaxOffset + GapSearch
<1> DEFINE m == MaxOffset + GapSearch + Day - 1
           q == m \div Day
           r == m % Day
<1>1. m \in Nat /\ m >= 3 * Day - 1
  BY DayIs
<1>2. q \in Int /\ r \in 0 .. Day - 1 /\ q * Day \in Int /\ m = q * Day + r
  BY <1>1, DayIs
<1>3. q * Day >= MaxOffset + GapSearch
  BY <1>1, <1>2, DayIs
<1>4. q <= 1 => q * Day <= 1 * Day
  BY <1>2, DateSteps
<1>5. 1 * Day = Day
  BY DayIs
<1>6. EdgeDays = q
  BY DEF EdgeDays
<1> HIDE DEF q
<1>7. q >= 2
  BY <1>2, <1>3, <1>4, <1>5, DayIs
<1>. QED BY <1>2, <1>3, <1>6, <1>7

(***************************************************************************)
(* The local time of a zone                                                *)
(***************************************************************************)

LEMMA ZoneIs ==
    ASSUME NEW zone \in RealZones
    PROVE  /\ zone.before \in Int /\ zone.after \in Int /\ zone.change \in Int
           /\ -MaxOffset <= zone.before /\ zone.before <= MaxOffset
           /\ -MaxOffset <= zone.after /\ zone.after <= MaxOffset
           /\ zone.after - zone.before <= Day
<1>1. CASE zone \in Utc
  BY <1>1, DayIs DEF Utc
<1>2. CASE zone \in Named
  BY <1>2, DayIs DEF Named, Offsets
<1>. QED BY <1>1, <1>2 DEF RealZones

LEMMA UtcOrNamed ==
    ASSUME NEW zone \in RealZones
    PROVE  \/ zone.utc = TRUE /\ zone.before = 0 /\ zone.after = 0
           \/ zone.utc = FALSE
<1>1. CASE zone \in Utc
  BY <1>1 DEF Utc
<1>2. CASE zone \in Named
  BY <1>2 DEF Named
<1>. QED BY <1>1, <1>2 DEF RealZones

LEMMA LocalIs ==
    ASSUME NEW zone \in RealZones, NEW t \in Int
    PROVE  /\ Local(zone, t) \in Int
           /\ t < zone.change => Local(zone, t) = t + zone.before
           /\ t >= zone.change => Local(zone, t) = t + zone.after
           /\ t - MaxOffset <= Local(zone, t) /\ Local(zone, t) <= t + MaxOffset
BY ZoneIs, DayIs DEF Local

\* A local time in the gap: the clock is put forward over it.
InGap(zone, l) == zone.change + zone.before <= l /\ l < zone.change + zone.after

\* The instants of a local time.
LEMMA FromLocalIs ==
    ASSUME NEW zone \in RealZones, NEW l \in Int
    PROVE  /\ FromLocal(zone, l) \subseteq Int
           /\ \A t \in Int : t \in FromLocal(zone, l) <=> Local(zone, t) = l
           /\ FromLocal(zone, l) = {} <=> InGap(zone, l)
<1>1. zone.before \in Int /\ zone.after \in Int /\ zone.change \in Int
  BY ZoneIs
<1>2. \A t \in Int : t \in FromLocal(zone, l) <=> Local(zone, t) = l
  BY <1>1 DEF FromLocal, Local
<1>3. FromLocal(zone, l) \subseteq {l - zone.before, l - zone.after}
  BY DEF FromLocal
<1>4. (l - zone.before \in FromLocal(zone, l)) <=> l - zone.before < zone.change \/ zone.before = zone.after
  BY <1>1, <1>2 DEF Local
<1>5. (l - zone.after \in FromLocal(zone, l)) <=> l - zone.after >= zone.change \/ zone.before = zone.after
  BY <1>1, <1>2 DEF Local
<1>6. FromLocal(zone, l) = {} <=> l - zone.before \notin FromLocal(zone, l) /\ l - zone.after \notin FromLocal(zone, l)
  BY <1>3
<1>7. FromLocal(zone, l) = {} <=> InGap(zone, l)
  BY <1>1, <1>4, <1>5, <1>6 DEF InGap
<1>. QED BY <1>1, <1>2, <1>3, <1>7

\* Every time of a gap is carried to the instant of the change.
LEMMA GapEndIs ==
    ASSUME NEW zone \in RealZones, NEW l \in Int, InGap(zone, l)
    PROVE  GapEnd(zone, l) = {zone.change}
<1> DEFINE n == zone.change + zone.after - l
           Ends == {m \in 1 .. GapSearch : FromLocal(zone, l + m) # {}}
<1>1. zone.before \in Int /\ zone.after \in Int /\ zone.change \in Int /\ n \in Int
      /\ 1 <= n /\ n <= Day /\ n <= GapSearch
  BY ZoneIs, DayIs DEF InGap
<1>2. \A m \in 1 .. n - 1 : l + m \in Int /\ InGap(zone, l + m)
  BY <1>1 DEF InGap
<1>3. \A m \in 1 .. n - 1 : FromLocal(zone, l + m) = {}
  BY <1>2, FromLocalIs
<1>4. FromLocal(zone, l + n) = {zone.change}
  <2>1. l + n = zone.change + zone.after
    BY <1>1
  <2>2. l + n \in Int /\ Local(zone, zone.change) = l + n
    BY <1>1, <2>1 DEF Local
  <2>3. zone.change \in FromLocal(zone, l + n) /\ FromLocal(zone, l + n) \subseteq Int
    BY <1>1, <2>2, FromLocalIs
  <2>4. ASSUME NEW t \in FromLocal(zone, l + n) PROVE t = zone.change
    <3>1. t \in Int /\ Local(zone, t) = l + n
      BY <2>2, <2>3, FromLocalIs
    <3>. QED BY <1>1, <2>1, <3>1 DEF Local, InGap
  <2>. QED BY <2>3, <2>4
<1> HIDE DEF n
<1>5. n \in Ends /\ \A m \in Ends : n <= m
  <2>1. n \in 1 .. GapSearch /\ FromLocal(zone, l + n) # {}
    <3>1. n \in 1 .. GapSearch
      BY <1>1, DayIs
    <3>. QED BY <1>4, <3>1
  <2>2. ASSUME NEW m \in Ends, m < n PROVE FALSE
    <3>1. m \in 1 .. n - 1 /\ FromLocal(zone, l + m) # {}
      BY <1>1, <2>2, DayIs
    <3>. QED BY <1>3, <3>1
  <2>. QED BY <1>1, <2>1, <2>2, DayIs
<1>6. Least(Ends) = {n}
  <2>1. n \in Least(Ends)
    BY <1>5 DEF Least
  <2>2. ASSUME NEW m \in Least(Ends) PROVE m = n
    BY <1>1, <1>5, DayIs DEF Least
  <2>. QED BY <2>1, <2>2
<1>7. GapEnd(zone, l) = Least(FromLocal(zone, l + n))
  BY <1>6 DEF GapEnd
<1>8. Least({zone.change}) = {zone.change}
  BY <1>1 DEF Least
<1>. QED BY <1>4, <1>7, <1>8

(***************************************************************************)
(* The firings of a date                                                   *)
(***************************************************************************)

\* The marker of an instant whose local time is matched.
RealMark(zone, u) ==
    LET twins == FromLocal(zone, Local(zone, u))
    IN  IF twins = {u} THEN "none" ELSE IF \A v \in twins : u <= v THEN "first" ELSE "second"

RealFire(zone, u) == [at |-> u, mark |-> RealMark(zone, u)]
ShiftedFire(zone) == [at |-> zone.change, mark |-> "shifted"]

\* An instant that a date matches, and a date that has times in the gap.
RealOn(cron, zone, d, u) == Date(Local(zone, u)) = d /\ Matches(cron, Local(zone, u))
ShiftedOn(cron, zone, d) == \E l \in Int : Date(l) = d /\ Matches(cron, l) /\ InGap(zone, l)

LEMMA MarkIs ==
    ASSUME NEW cron \in Expressions, NEW zone \in RealZones, NEW u \in Int
    PROVE  /\ Matches(cron, Local(zone, u)) => FireOf(cron, zone, u) = RealFire(zone, u)
           /\ ~Matches(cron, Local(zone, u)) => FireOf(cron, zone, u) = [at |-> u, mark |-> "shifted"]
<1> DEFINE twins == {v \in u - 2 * MaxOffset .. u + 2 * MaxOffset : Local(zone, v) = Local(zone, u)}
<1>1. twins = FromLocal(zone, Local(zone, u))
  <2>1. Local(zone, u) \in Int
    BY LocalIs
  <2>2. ASSUME NEW v \in Int, Local(zone, v) = Local(zone, u)
        PROVE  v \in u - 2 * MaxOffset .. u + 2 * MaxOffset
    <3>1. v - MaxOffset <= Local(zone, u) /\ Local(zone, u) <= v + MaxOffset
          /\ u - MaxOffset <= Local(zone, u) /\ Local(zone, u) <= u + MaxOffset
      BY <2>2, LocalIs
    <3>. QED BY <2>1, <3>1, DayIs
  <2>3. twins \subseteq Int
    BY DayIs
  <2>. QED BY <2>1, <2>2, <2>3, FromLocalIs
<1>2. Mark(cron, zone, u) = IF ~Matches(cron, Local(zone, u)) THEN "shifted"
                            ELSE IF twins = {u} THEN "none"
                            ELSE IF \A v \in twins : u <= v THEN "first" ELSE "second"
  BY DEF Mark
<1> HIDE DEF twins
<1>. QED BY <1>1, <1>2 DEF FireOf, RealFire, RealMark

LEMMA FiresAtIs ==
    ASSUME NEW zone \in RealZones, NEW l \in Int
    PROVE  /\ InGap(zone, l) => FiresAt(zone, l) = {ShiftedFire(zone)}
           /\ ~InGap(zone, l) => FiresAt(zone, l) = {RealFire(zone, u) : u \in FromLocal(zone, l)}
<1> DEFINE real == FromLocal(zone, l)
<1>1. real \subseteq Int /\ (real = {} <=> InGap(zone, l)) /\ \A u \in real : Local(zone, u) = l
  BY FromLocalIs
<1>2. ASSUME InGap(zone, l) PROVE FiresAt(zone, l) = {ShiftedFire(zone)}
  <2>1. GapEnd(zone, l) = {zone.change}
    BY <1>2, GapEndIs
  <2>2. FiresAt(zone, l) = {[at |-> t, mark |-> "shifted"] : t \in GapEnd(zone, l)}
    BY <1>1, <1>2 DEF FiresAt
  <2>. QED BY <2>1, <2>2 DEF ShiftedFire
<1>3. ASSUME ~InGap(zone, l)
      PROVE  FiresAt(zone, l) = {RealFire(zone, u) : u \in real}
  <2>1. ASSUME NEW u \in real
        PROVE  RealFire(zone, u) = [at |-> u, mark |-> IF real = {u} THEN "none"
                                                       ELSE IF u \in Least(real) THEN "first" ELSE "second"]
    <3>1. Local(zone, u) = l
      BY <1>1
    <3>2. u \in Least(real) <=> \A v \in real : u <= v
      BY DEF Least
    <3>. QED BY <3>1, <3>2 DEF RealFire, RealMark
  <2>2. FiresAt(zone, l) = {[at |-> u, mark |-> IF real = {u} THEN "none"
                                                ELSE IF u \in Least(real) THEN "first" ELSE "second"] : u \in real}
    BY <1>1, <1>3 DEF FiresAt
  <2> HIDE DEF real
  <2>. QED BY <2>1, <2>2
<1>. QED BY <1>2, <1>3

\* The local times a date matches.
LEMMA DateMatches ==
    ASSUME NEW cron \in Expressions, NEW d \in Int, NEW l
    PROVE  (l \in Int /\ Date(l) = d /\ Matches(cron, l))
             <=> (d \in cron.dates /\ \E n \in cron.ticks : l = d * Day + n)
<1>1. cron.ticks \subseteq 0 .. Day - 1
  BY DEF Expressions
<1>2. ASSUME l \in Int, Date(l) = d, Matches(cron, l)
      PROVE  d \in cron.dates /\ \E n \in cron.ticks : l = d * Day + n
  <2>1. l = d * Day + Clock(l)
    BY <1>2, DateIs
  <2>. QED BY <1>2, <2>1 DEF Matches
<1>3. ASSUME d \in cron.dates, NEW n \in cron.ticks, l = d * Day + n
      PROVE  l \in Int /\ Date(l) = d /\ Matches(cron, l)
  <2>1. n \in 0 .. Day - 1
    BY <1>1
  <2>2. l \in Int /\ Date(l) = d /\ Clock(l) = n
    BY <1>3, <2>1, DateOf
  <2>. QED BY <1>3, <2>2 DEF Matches
<1>. QED BY <1>2, <1>3

LEMMA RankIs ==
    /\ \A zone, u : RealMark(zone, u) \in {"none", "first", "second"}
    /\ \A zone, u : Rank[RealMark(zone, u)] \in 0 .. 1
    /\ Rank["shifted"] = 2
BY DEF RealMark, Rank

\* A date fires at the instants it matches, and at the change for its times in the gap,
\* unless it matches that instant too.
LEMMA FiresOnDateIs ==
    ASSUME NEW cron \in Expressions, NEW zone \in RealZones, NEW d \in Int, NEW f
    PROVE  f \in FiresOnLocalDate(cron, zone, d) <=>
             \/ \E u \in Int : RealOn(cron, zone, d, u) /\ f = RealFire(zone, u)
             \/ /\ f = ShiftedFire(zone) /\ ShiftedOn(cron, zone, d)
                /\ ~RealOn(cron, zone, d, zone.change)
<1> DEFINE all == UNION {FiresAt(zone, d * Day + n) : n \in cron.ticks}
<1>1. ASSUME d \notin cron.dates
      PROVE  /\ FiresOnLocalDate(cron, zone, d) = {}
             /\ \A u \in Int : ~RealOn(cron, zone, d, u)
             /\ ~ShiftedOn(cron, zone, d)
  BY <1>1 DEF FiresOnLocalDate, RealOn, ShiftedOn, Matches
<1>2. ASSUME d \in cron.dates, NEW g
      PROVE  g \in all <=> \/ \E u \in Int : RealOn(cron, zone, d, u) /\ g = RealFire(zone, u)
                           \/ g = ShiftedFire(zone) /\ ShiftedOn(cron, zone, d)
  <2>1. g \in all <=> \E l \in Int : Date(l) = d /\ Matches(cron, l) /\ g \in FiresAt(zone, l)
    <3>1. g \in all <=> \E n \in cron.ticks : g \in FiresAt(zone, d * Day + n)
      OBVIOUS
    <3>. QED BY <1>2, <3>1, DateMatches
  <2>2. ASSUME NEW l \in Int
        PROVE  g \in FiresAt(zone, l) <=> \/ InGap(zone, l) /\ g = ShiftedFire(zone)
                                          \/ \E u \in Int : Local(zone, u) = l /\ g = RealFire(zone, u)
    <3>1. CASE InGap(zone, l)
      <4>1. \A u \in Int : Local(zone, u) # l
        BY <3>1, FromLocalIs
      <4>. QED BY <3>1, <4>1, FiresAtIs
    <3>2. CASE ~InGap(zone, l)
      <4>1. g \in FiresAt(zone, l) <=> \E u \in FromLocal(zone, l) : g = RealFire(zone, u)
        BY <3>2, FiresAtIs
      <4>. QED BY <3>2, <4>1, FromLocalIs
    <3>. QED BY <3>1, <3>2
  <2>3. (\E u \in Int : RealOn(cron, zone, d, u) /\ g = RealFire(zone, u))
          <=> \E l \in Int : /\ Date(l) = d /\ Matches(cron, l)
                             /\ \E u \in Int : Local(zone, u) = l /\ g = RealFire(zone, u)
    BY LocalIs DEF RealOn
  <2> HIDE DEF all
  <2>. QED BY <2>1, <2>2, <2>3 DEF ShiftedOn
<1>3. ASSUME d \in cron.dates
      PROVE  f \in FiresOnLocalDate(cron, zone, d) <=>
               \/ \E u \in Int : RealOn(cron, zone, d, u) /\ f = RealFire(zone, u)
               \/ /\ f = ShiftedFire(zone) /\ ShiftedOn(cron, zone, d)
                  /\ ~RealOn(cron, zone, d, zone.change)
  <2>1. FiresOnLocalDate(cron, zone, d) = {h \in all : \A g \in all : g.at = h.at => Rank[h.mark] <= Rank[g.mark]}
    BY <1>3 DEF FiresOnLocalDate, Record
  <2>2. zone.change \in Int
    BY ZoneIs
  <2>3. \A u : RealFire(zone, u).at = u /\ RealFire(zone, u).mark = RealMark(zone, u)
    BY DEF RealFire
  <2>4. ShiftedFire(zone).at = zone.change /\ ShiftedFire(zone).mark = "shifted"
    BY DEF ShiftedFire
  <2> HIDE DEF all
  <2>5. ASSUME NEW u \in Int, RealOn(cron, zone, d, u), f = RealFire(zone, u)
        PROVE  f \in FiresOnLocalDate(cron, zone, d)
    <3>1. f \in all
      BY <1>2, <1>3, <2>5
    <3>2. ASSUME NEW g \in all, g.at = f.at PROVE Rank[f.mark] <= Rank[g.mark]
      <4>1. CASE g = ShiftedFire(zone)
        BY <2>3, <2>4, <2>5, <4>1, RankIs
      <4>2. CASE \E v \in Int : g = RealFire(zone, v)
        BY <2>3, <2>5, <3>2, <4>2, RankIs
      <4>. QED BY <1>2, <1>3, <4>1, <4>2
    <3>. QED BY <2>1, <3>1, <3>2
  <2>6. ASSUME f = ShiftedFire(zone), ShiftedOn(cron, zone, d), ~RealOn(cron, zone, d, zone.change)
        PROVE  f \in FiresOnLocalDate(cron, zone, d)
    <3>1. f \in all
      BY <1>2, <1>3, <2>6
    <3>2. ASSUME NEW g \in all, g.at = f.at PROVE g = f
      BY <1>2, <1>3, <2>3, <2>4, <2>6, <3>2
    <3>3. Rank[f.mark] <= Rank[f.mark]
      BY <2>4, <2>6, RankIs
    <3>. QED BY <2>1, <3>1, <3>2, <3>3
  <2>7. ASSUME f \in FiresOnLocalDate(cron, zone, d), RealOn(cron, zone, d, zone.change)
        PROVE  f # ShiftedFire(zone)
    <3>1. RealFire(zone, zone.change) \in all
      BY <1>2, <1>3, <2>2, <2>7
    <3>2. ~(2 <= Rank[RealMark(zone, zone.change)])
      BY RankIs
    <3>. QED BY <2>1, <2>3, <2>4, <2>7, <3>1, <3>2, RankIs
  <2>. QED BY <1>2, <1>3, <2>1, <2>5, <2>6, <2>7
<1>. QED BY <1>1, <1>3

\* A firing of a date is near it, is a firing of the cadence, and is the one to report
\* unless there is a more truthful one at its instant.
LEMMA FireOfDate ==
    ASSUME NEW cron \in Expressions, NEW zone \in RealZones, NEW d \in Int,
           NEW f \in FiresOnLocalDate(cron, zone, d)
    PROVE  /\ f.at \in Int /\ Fires(cron, zone, f.at)
           /\ d * Day - MaxOffset <= f.at /\ f.at <= d * Day + Day - 1 + MaxOffset
           /\ Rank[f.mark] \in 0 .. 2 /\ Rank[FireOf(cron, zone, f.at).mark] \in 0 .. 2
           /\ \/ f = FireOf(cron, zone, f.at)
              \/ /\ Rank[FireOf(cron, zone, f.at).mark] < Rank[f.mark]
                 /\ f = [at |-> f.at, mark |-> "shifted"]
<1>1. CASE \E u \in Int : RealOn(cron, zone, d, u) /\ f = RealFire(zone, u)
  <2>1. PICK u \in Int : RealOn(cron, zone, d, u) /\ f = RealFire(zone, u)
    BY <1>1
  <2> DEFINE l == Local(zone, u)
  <2>2. f.at = u /\ f.mark = RealMark(zone, u) /\ Matches(cron, l) /\ Date(l) = d
    BY <2>1 DEF RealFire, RealOn
  <2>3. l \in Int /\ u - MaxOffset <= l /\ l <= u + MaxOffset
    BY LocalIs
  <2>4. Clock(l) \in 0 .. Day - 1 /\ d * Day \in Int /\ l = d * Day + Clock(l)
    BY <2>2, <2>3, DateIs
  <2>5. d * Day - MaxOffset <= u /\ u <= d * Day + Day - 1 + MaxOffset
    <3> HIDE DEF l
    <3>. QED BY <2>3, <2>4, DayIs
  <2>6. f = FireOf(cron, zone, u)
    BY <2>1, <2>2, MarkIs
  <2>7. Fires(cron, zone, u)
    BY <2>2 DEF Fires
  <2>8. Rank[f.mark] \in 0 .. 2
    BY <2>2, RankIs
  <2>. QED BY <2>2, <2>5, <2>6, <2>7, <2>8
<1>2. CASE f = ShiftedFire(zone) /\ ShiftedOn(cron, zone, d)
  <2>1. PICK l \in Int : Date(l) = d /\ Matches(cron, l) /\ InGap(zone, l)
    BY <1>2 DEF ShiftedOn
  <2> DEFINE u == zone.change
  <2>2. f = [at |-> u, mark |-> "shifted"] /\ f.at = u /\ f.mark = "shifted"
    BY <1>2 DEF ShiftedFire
  <2>3. u \in Int /\ zone.before \in Int /\ zone.after \in Int
        /\ -MaxOffset <= zone.before /\ zone.after <= MaxOffset
        /\ u + zone.before <= l /\ l < u + zone.after
    BY <2>1, ZoneIs DEF InGap
  <2>4. Clock(l) \in 0 .. Day - 1 /\ d * Day \in Int /\ l = d * Day + Clock(l)
    BY <2>1, DateIs
  <2>5. d * Day - MaxOffset <= u /\ u <= d * Day + Day - 1 + MaxOffset
    <3>1. l - MaxOffset < u /\ u <= l + MaxOffset
      BY <2>3, DayIs
    <3>. QED BY <2>3, <2>4, <3>1, DayIs
  <2>6. l \in u + zone.before .. u + zone.after - 1
    BY <2>3
  <2>7. Fires(cron, zone, u)
    BY <2>1, <2>6 DEF Fires, Shifted
  <2>8. \/ FireOf(cron, zone, u) = f
        \/ FireOf(cron, zone, u) = RealFire(zone, u)
    BY <2>2, <2>3, MarkIs
  <2>9. RealFire(zone, u).mark = RealMark(zone, u)
    BY DEF RealFire
  <2>. QED BY <2>2, <2>3, <2>5, <2>7, <2>8, <2>9, RankIs
<1>. QED BY <1>1, <1>2, FiresOnDateIs

\* Every firing of the cadence is reported on a date, no later than its own.
LEMMA DateOfFire ==
    ASSUME NEW cron \in Expressions, NEW zone \in RealZones, NEW u \in Int, Fires(cron, zone, u)
    PROVE  \E d \in Int : /\ FireOf(cron, zone, u) \in FiresOnLocalDate(cron, zone, d)
                          /\ d <= Date(Local(zone, u))
<1>0. Local(zone, u) \in Int /\ Date(Local(zone, u)) \in Int
  BY LocalIs, DateIs
<1>1. CASE Matches(cron, Local(zone, u))
  <2>1. RealOn(cron, zone, Date(Local(zone, u)), u)
    BY <1>1 DEF RealOn
  <2>2. FireOf(cron, zone, u) = RealFire(zone, u)
    BY <1>1, MarkIs
  <2>3. FireOf(cron, zone, u) \in FiresOnLocalDate(cron, zone, Date(Local(zone, u)))
    BY <1>0, <2>1, <2>2, FiresOnDateIs
  <2>. QED BY <1>0, <2>3
<1>2. CASE ~Matches(cron, Local(zone, u))
  <2>1. PICK l \in u + zone.before .. u + zone.after - 1 : Matches(cron, l) /\ u = zone.change
    BY <1>2 DEF Fires, Shifted
  <2>2. l \in Int /\ InGap(zone, l) /\ l < Local(zone, u)
    <3>1. zone.before \in Int /\ zone.after \in Int /\ zone.change \in Int /\ Local(zone, u) = u + zone.after
      BY <2>1, ZoneIs, LocalIs
    <3>. QED BY <2>1, <3>1 DEF InGap
  <2>3. Date(l) \in Int /\ Date(l) <= Date(Local(zone, u))
    BY <1>0, <2>2, DateIs, DatesGrow
  <2>4. FireOf(cron, zone, u) = ShiftedFire(zone)
    BY <1>2, <2>1, MarkIs DEF ShiftedFire
  <2>5. ShiftedOn(cron, zone, Date(l))
    BY <2>1, <2>2 DEF ShiftedOn
  <2>6. ~RealOn(cron, zone, Date(l), zone.change)
    BY <1>2, <2>1 DEF RealOn
  <2>7. FireOf(cron, zone, u) \in FiresOnLocalDate(cron, zone, Date(l))
    BY <2>3, <2>4, <2>5, <2>6, FiresOnDateIs
  <2>. QED BY <2>3, <2>7
<1>. QED BY <1>1, <1>2

LEMMA FireOfAt == \A cron, zone, u : FireOf(cron, zone, u).at = u
BY DEF FireOf

\* What the edge of a walk is for: near firings are on near dates.
LEMMA DatesOfNear ==
    ASSUME NEW cron \in Expressions, NEW zone \in RealZones, NEW t \in Int, NEW d \in Int,
           NEW f \in FiresOnLocalDate(cron, zone, d)
    PROVE  LET date == Date(Local(zone, t))
           IN  /\ f.at <= t => d <= date + EdgeDays
               /\ f.at > t => d >= date - EdgeDays
               /\ f.at > t - Reach => d >= date + EdgeDays - MaxDateSteps + 1
               /\ f.at < t + Reach => d <= date - EdgeDays + MaxDateSteps - 1
<1> DEFINE l == Local(zone, t)
           date == Date(l)
           edge == EdgeDays * Day
           walk == WalkDays * Day
           c == Clock(l)
<1>1. f.at \in Int /\ d * Day \in Int /\ d * Day - MaxOffset <= f.at /\ f.at <= d * Day + Day - 1 + MaxOffset
  BY FireOfDate, DateSteps
<1>2. l \in Int /\ t - MaxOffset <= l /\ l <= t + MaxOffset
  BY LocalIs
<1>3. date \in Int /\ c \in 0 .. Day - 1 /\ date * Day \in Int /\ l = date * Day + c
  BY <1>2, DateIs
<1>4. EdgeDays \in Nat /\ edge \in Int /\ edge >= 2 * MaxOffset /\ walk \in Int
  <2>1. EdgeDays \in Nat /\ edge \in Int /\ edge >= MaxOffset + GapSearch
    BY EdgeIs
  <2> HIDE DEF edge
  <2>2. edge >= 2 * MaxOffset
    BY <2>1, DayIs
  <2>3. walk \in Int
    BY DayIs
  <2>. QED BY <2>1, <2>2, <2>3
<1>5. /\ Reach = walk - Day
      /\ MaxDateSteps = WalkDays + 2 * EdgeDays
  <2>1. 1 \in Int /\ WalkDays \in Int /\ 1 * Day = Day
    BY DayIs
  <2>2. (WalkDays - 1) * Day = walk - 1 * Day
    BY <2>1, DateSteps
  <2>. QED BY <2>1, <2>2 DEF Reach, MaxDateSteps
<1> HIDE DEF edge, walk, c, date, l
<1>6. ASSUME f.at <= t, d > date + EdgeDays PROVE FALSE
  <2> DEFINE e == date + EdgeDays
  <2>1. e \in Int /\ e * Day = date * Day + edge
    BY <1>3, <1>4, DateSteps DEF edge
  <2> HIDE DEF e
  <2>2. e < d => e * Day + Day <= d * Day
    BY <2>1, DateSteps
  <2>3. e < d
    BY <1>6 DEF e
  <2>. QED BY <1>1, <1>2, <1>3, <1>4, <1>6, <2>1, <2>2, <2>3, DayIs
<1>7. ASSUME f.at > t, d < date - EdgeDays PROVE FALSE
  <2> DEFINE e == date - EdgeDays
  <2>1. e \in Int /\ e * Day = date * Day - edge
    BY <1>3, <1>4, DateSteps DEF edge
  <2> HIDE DEF e
  <2>2. d < e => d * Day + Day <= e * Day
    BY <2>1, DateSteps
  <2>3. d < e
    BY <1>7 DEF e
  <2>. QED BY <1>1, <1>2, <1>3, <1>4, <1>7, <2>1, <2>2, <2>3, DayIs
<1>8. ASSUME f.at > t - Reach, d < date - EdgeDays - WalkDays + 1 PROVE FALSE
  <2> DEFINE k == EdgeDays + WalkDays
             e == date - k
  <2>1. k \in Int /\ k * Day = edge + walk
    BY <1>4, DayIs, DateSteps DEF edge, walk
  <2>2. d <= e
    BY <1>3, <1>4, <1>8, DayIs
  <2> HIDE DEF k
  <2>3. e \in Int /\ e * Day = date * Day - k * Day
    BY <1>3, <2>1, DateSteps
  <2> HIDE DEF e
  <2>4. d <= e => d * Day <= e * Day
    BY <2>3, DateSteps
  <2>. QED BY <1>1, <1>2, <1>3, <1>4, <1>5, <1>8, <2>1, <2>2, <2>3, <2>4, DayIs
<1>9. ASSUME f.at < t + Reach, d > date + EdgeDays + WalkDays - 1 PROVE FALSE
  <2> DEFINE k == EdgeDays + WalkDays
             e == date + k
  <2>1. k \in Int /\ k * Day = edge + walk
    BY <1>4, DayIs, DateSteps DEF edge, walk
  <2>2. e <= d
    BY <1>3, <1>4, <1>9, DayIs
  <2> HIDE DEF k
  <2>3. e \in Int /\ e * Day = date * Day + k * Day
    BY <1>3, <2>1, DateSteps
  <2> HIDE DEF e
  <2>4. e <= d => e * Day <= d * Day
    BY <2>3, DateSteps
  <2>. QED BY <1>1, <1>2, <1>3, <1>4, <1>5, <1>9, <2>1, <2>2, <2>3, <2>4, DayIs
<1>10. Reach \in Int
  BY <1>4, <1>5, DayIs
<1>11. /\ f.at <= t => d <= date + EdgeDays
       /\ f.at > t => d >= date - EdgeDays
       /\ f.at > t - Reach => d >= date - EdgeDays - WalkDays + 1
       /\ f.at < t + Reach => d <= date + EdgeDays + WalkDays - 1
  <2>. QED BY <1>1, <1>3, <1>4, <1>6, <1>7, <1>8, <1>9, DayIs
<1>. QED
  <2>1. /\ date + EdgeDays - MaxDateSteps + 1 = date - EdgeDays - WalkDays + 1
        /\ date - EdgeDays + MaxDateSteps - 1 = date + EdgeDays + WalkDays - 1
    BY <1>3, <1>4, <1>5, DayIs
  <2>. QED BY <1>11, <2>1 DEF date, l

LEMMA ReachIs == Reach \in Nat /\ Reach = WalkDays * Day - Day /\ WalkDays * Day \in Int /\ Reach >= Day
<1>1. 1 \in Int /\ WalkDays \in Int /\ 1 * Day = Day
  BY DayIs
<1>2. (WalkDays - 1) * Day = WalkDays * Day - 1 * Day /\ WalkDays * Day \in Int
  BY <1>1, DateSteps
<1>3. WalkDays - 1 \in Nat /\ WalkDays - 1 >= 1
  BY DayIs
<1>4. (WalkDays - 1) * Day >= 1 * Day
  BY <1>1, <1>3, DateSteps
<1>. QED BY <1>1, <1>2, <1>3, <1>4, DayIs DEF Reach

(***************************************************************************)
(* The walk back and the walk on                                           *)
(***************************************************************************)

LEMMA ProbesAre ==
    ASSUME NEW cron, NEW zone, NEW dates, NEW p
    PROVE  p \in Probes(cron, zone, dates) <=>
             \E d \in dates : \E f \in FiresOnLocalDate(cron, zone, d) : p = [date |-> d, fire |-> f]
BY DEF Probes

\* A probe is a firing of the cadence on a date that was asked.
LEMMA ProbeIs ==
    ASSUME NEW cron \in Expressions, NEW zone \in RealZones, NEW dates \in SUBSET Int,
           NEW p \in Probes(cron, zone, dates)
    PROVE  /\ p.date \in dates /\ p.fire \in FiresOnLocalDate(cron, zone, p.date)
           /\ p.fire.at \in Int /\ Fires(cron, zone, p.fire.at)
           /\ Rank[p.fire.mark] \in 0 .. 2 /\ Rank[FireOf(cron, zone, p.fire.at).mark] \in 0 .. 2
           /\ \/ p.fire = FireOf(cron, zone, p.fire.at)
              \/ /\ Rank[FireOf(cron, zone, p.fire.at).mark] < Rank[p.fire.mark]
                 /\ p.fire = [at |-> p.fire.at, mark |-> "shifted"]
           /\ EarliestPossible(p.date) <= p.fire.at /\ p.fire.at <= LatestPossible(p.date)
<1>1. PICK d \in dates : \E f \in FiresOnLocalDate(cron, zone, d) : p = [date |-> d, fire |-> f]
  BY DEF Probes
<1>2. PICK f \in FiresOnLocalDate(cron, zone, d) : p = [date |-> d, fire |-> f]
  BY <1>1
<1>3. d \in Int /\ p.date = d /\ p.fire = f
  BY <1>2
<1>4. /\ f.at \in Int /\ Fires(cron, zone, f.at)
      /\ d * Day - MaxOffset <= f.at /\ f.at <= d * Day + Day - 1 + MaxOffset
      /\ Rank[f.mark] \in 0 .. 2 /\ Rank[FireOf(cron, zone, f.at).mark] \in 0 .. 2
      /\ \/ f = FireOf(cron, zone, f.at)
         \/ /\ Rank[FireOf(cron, zone, f.at).mark] < Rank[f.mark]
            /\ f = [at |-> f.at, mark |-> "shifted"]
  BY <1>3, FireOfDate
<1>5. d * Day \in Int
  BY <1>3, DateSteps
<1>6. EarliestPossible(d) <= f.at /\ f.at <= LatestPossible(d)
  BY <1>4, <1>5, DayIs DEF EarliestPossible, LatestPossible
<1>. QED BY <1>2, <1>3, <1>4, <1>6

\* The latest firing before an instant is the one the walk back holds when it ends,
\* wherever it starts and ends, as long as it probes the date that reports it.
LEMMA HeldLast ==
    ASSUME NEW cron \in Expressions, NEW zone \in RealZones, NEW t \in Int, NEW from \in Int,
           NEW u \in Int, u <= t, Fires(cron, zone, u),
           \A v \in Int : v <= t /\ Fires(cron, zone, v) => v <= u,
           NEW d \in from - MaxDateSteps + 1 .. from,
           FireOf(cron, zone, u) \in FiresOnLocalDate(cron, zone, d)
    PROVE  WalkBack(cron, zone, t, from) = {FireOf(cron, zone, u)}
<1> DEFINE dates == from - MaxDateSteps + 1 .. from
           all == Probes(cron, zone, dates)
           probes == {p \in all : p.fire.at <= t}
           reached(e) == \A p \in probes : p.date > e => p.fire.at <= LatestPossible(e)
           held == {p.fire : p \in {q \in probes : reached(q.date)}}
           best == FireOf(cron, zone, u)
           mine == [date |-> d, fire |-> best]
<1>1. MaxDateSteps \in Int /\ dates \in SUBSET Int /\ d \in dates
  BY DayIs, EdgeIs DEF MaxDateSteps
<1>2. best.at = u /\ mine.date = d /\ mine.fire = best
  BY FireOfAt
<1>3. mine \in all
  BY <1>1, ProbesAre
<1>4. \A p \in probes : p.fire.at \in Int /\ p.fire.at <= u
  BY <1>1, ProbeIs
<1>5. u <= LatestPossible(d)
  BY <1>1, <1>2, <1>3, ProbeIs
<1>6. reached(d)
  <2>1. LatestPossible(d) \in Int
    BY <1>1, DateSteps, DayIs DEF LatestPossible
  <2>. QED BY <1>4, <1>5, <2>1
<1>7. mine \in probes
  BY <1>2, <1>3
<1>8. best \in held
  BY <1>2, <1>6, <1>7
<1>9. ASSUME NEW g \in held PROVE g = best \/ (LaterOrBetter(best, g) /\ ~LaterOrBetter(g, best))
  <2>1. PICK p \in probes : g = p.fire
    OBVIOUS
  <2>2. p \in all
    OBVIOUS
  <2>3. g.at \in Int /\ g.at <= u
    BY <1>4, <2>1
  <2>4. CASE g.at < u
    BY <1>2, <2>3, <2>4 DEF LaterOrBetter
  <2>5. CASE g.at = u
    <3>1. /\ Rank[g.mark] \in 0 .. 2 /\ Rank[best.mark] \in 0 .. 2
          /\ g = best \/ Rank[best.mark] < Rank[g.mark]
      BY <1>1, <2>1, <2>2, <2>5, ProbeIs
    <3> HIDE DEF best
    <3>. QED BY <1>2, <2>3, <2>5, <3>1 DEF LaterOrBetter
  <2>. QED BY <2>3, <2>4, <2>5
<1>10. WalkBack(cron, zone, t, from) = {f \in held : \A g \in held : g = f \/ LaterOrBetter(f, g)}
  BY DEF WalkBack
<1> HIDE DEF held, best
<1>11. \A f \in held : (\A g \in held : g = f \/ LaterOrBetter(f, g)) <=> f = best
  BY <1>8, <1>9
<1>12. WalkBack(cron, zone, t, from) = {best}
  BY <1>8, <1>10, <1>11
<1>. QED BY <1>12 DEF best

LEMMA HeldFirst ==
    ASSUME NEW cron \in Expressions, NEW zone \in RealZones, NEW t \in Int, NEW from \in Int,
           NEW u \in Int, u > t, Fires(cron, zone, u),
           \A v \in Int : v > t /\ Fires(cron, zone, v) => u <= v,
           NEW d \in from .. from + MaxDateSteps - 1,
           FireOf(cron, zone, u) \in FiresOnLocalDate(cron, zone, d)
    PROVE  WalkOn(cron, zone, t, from) = {FireOf(cron, zone, u)}
<1> DEFINE dates == from .. from + MaxDateSteps - 1
           all == Probes(cron, zone, dates)
           probes == {p \in all : p.fire.at > t}
           reached(e) == \A p \in probes : p.date < e => p.fire.at >= EarliestPossible(e)
           held == {p.fire : p \in {q \in probes : reached(q.date)}}
           best == FireOf(cron, zone, u)
           mine == [date |-> d, fire |-> best]
<1>1. MaxDateSteps \in Int /\ dates \in SUBSET Int /\ d \in dates
  BY DayIs, EdgeIs DEF MaxDateSteps
<1>2. best.at = u /\ mine.date = d /\ mine.fire = best
  BY FireOfAt
<1>3. mine \in all
  BY <1>1, ProbesAre
<1>4. \A p \in probes : p.fire.at \in Int /\ u <= p.fire.at
  BY <1>1, ProbeIs
<1>5. EarliestPossible(d) <= u
  <2> HIDE DEF all, mine
  <2>1. mine \in Probes(cron, zone, dates)
    BY <1>3 DEF all
  <2>2. EarliestPossible(mine.date) <= mine.fire.at
    BY <1>1, <2>1, ProbeIs
  <2>. QED BY <1>2, <2>2
<1>6. reached(d)
  <2>1. EarliestPossible(d) \in Int
    BY <1>1, DateSteps, DayIs DEF EarliestPossible
  <2>. QED BY <1>4, <1>5, <2>1
<1>7. mine \in probes
  BY <1>2, <1>3
<1>8. best \in held
  BY <1>2, <1>6, <1>7
<1>9. ASSUME NEW g \in held PROVE g = best \/ (EarlierOrBetter(best, g) /\ ~EarlierOrBetter(g, best))
  <2>1. PICK p \in probes : g = p.fire
    OBVIOUS
  <2>2. p \in all
    OBVIOUS
  <2>3. g.at \in Int /\ u <= g.at
    BY <1>4, <2>1
  <2>4. CASE u < g.at
    BY <1>2, <2>3, <2>4 DEF EarlierOrBetter
  <2>5. CASE g.at = u
    <3>1. /\ Rank[g.mark] \in 0 .. 2 /\ Rank[best.mark] \in 0 .. 2
          /\ g = best \/ Rank[best.mark] < Rank[g.mark]
      BY <1>1, <2>1, <2>2, <2>5, ProbeIs
    <3> HIDE DEF best
    <3>. QED BY <1>2, <2>3, <2>5, <3>1 DEF EarlierOrBetter
  <2>. QED BY <2>3, <2>4, <2>5
<1>10. WalkOn(cron, zone, t, from) = {f \in held : \A g \in held : g = f \/ EarlierOrBetter(f, g)}
  BY DEF WalkOn
<1> HIDE DEF held, best
<1>11. \A f \in held : (\A g \in held : g = f \/ EarlierOrBetter(f, g)) <=> f = best
  BY <1>8, <1>9
<1>12. WalkOn(cron, zone, t, from) = {best}
  BY <1>8, <1>10, <1>11
<1>. QED BY <1>12 DEF best

\* The firings less than the reach away, when there are any.
LEMMA PastLast ==
    ASSUME NEW cron, NEW zone, NEW t \in Int, Past(cron, zone, t) # {}
    PROVE  \E u \in Past(cron, zone, t) :
             /\ u \in Int /\ u <= t /\ u > t - Reach /\ Fires(cron, zone, u)
             /\ Greatest(Past(cron, zone, t)) = {u}
             /\ \A v \in Int : v <= t /\ Fires(cron, zone, v) => v <= u
<1>1. Past(cron, zone, t) \in SUBSET Int /\ \A x \in Past(cron, zone, t) : x <= t
  BY ReachIs DEF Past
<1>2. PICK u \in Past(cron, zone, t) :
        Greatest(Past(cron, zone, t)) = {u} /\ \A x \in Past(cron, zone, t) : x <= u
  BY <1>1, GreatestIs
<1>3. u \in Int /\ u <= t /\ u > t - Reach /\ Fires(cron, zone, u)
  BY <1>2, ReachIs DEF Past
<1>4. ASSUME NEW v \in Int, v <= t, Fires(cron, zone, v), ~(v <= u) PROVE FALSE
  <2>1. v \in t - Reach + 1 .. t
    BY <1>3, <1>4, ReachIs
  <2>2. v \in Past(cron, zone, t)
    BY <1>4, <2>1 DEF Past
  <2>. QED BY <1>2, <1>4, <2>2
<1>. QED BY <1>2, <1>3, <1>4

LEMMA ComingFirst ==
    ASSUME NEW cron, NEW zone, NEW t \in Int, Coming(cron, zone, t) # {}
    PROVE  \E u \in Coming(cron, zone, t) :
             /\ u \in Int /\ u > t /\ u < t + Reach /\ Fires(cron, zone, u)
             /\ Least(Coming(cron, zone, t)) = {u}
             /\ \A v \in Int : v > t /\ Fires(cron, zone, v) => u <= v
<1>1. Coming(cron, zone, t) \in SUBSET Int /\ \A x \in Coming(cron, zone, t) : t <= x
  BY ReachIs DEF Coming
<1>2. PICK u \in Coming(cron, zone, t) :
        Least(Coming(cron, zone, t)) = {u} /\ \A x \in Coming(cron, zone, t) : u <= x
  BY <1>1, LeastIs
<1>3. u \in Int /\ u > t /\ u < t + Reach /\ Fires(cron, zone, u)
  BY <1>2, ReachIs DEF Coming
<1>4. ASSUME NEW v \in Int, v > t, Fires(cron, zone, v), ~(u <= v) PROVE FALSE
  <2>1. v \in t + 1 .. t + Reach - 1
    BY <1>3, <1>4, ReachIs
  <2>2. v \in Coming(cron, zone, t)
    BY <1>4, <2>1 DEF Coming
  <2>. QED BY <1>2, <1>4, <2>2
<1>. QED BY <1>2, <1>3, <1>4

\* In a named zone the walk back answers with a firing at or before its argument, and
\* with the latest one whenever there is one in reach.
THEOREM NamedBackIsExact ==
    ASSUME NEW cron \in Expressions, NEW zone \in RealZones, zone.utc = FALSE, NEW t \in Int
    PROVE  ExactBack(cron, zone, t)
<1> DEFINE from == Date(Local(zone, t)) + EdgeDays
           dates == from - MaxDateSteps + 1 .. from
           answer == FireAtOrBefore(cron, zone, t)
<1>1. answer = WalkBack(cron, zone, t, from)
  BY DEF FireAtOrBefore
<1>2. from \in Int /\ MaxDateSteps \in Int /\ dates \in SUBSET Int
  BY LocalIs, DateIs, EdgeIs, DayIs DEF MaxDateSteps
<1>3. ASSUME NEW f \in answer PROVE f.at <= t /\ Fires(cron, zone, f.at)
  <2>1. \E p \in Probes(cron, zone, dates) : f = p.fire /\ p.fire.at <= t
    BY <1>1, <1>3 DEF WalkBack
  <2>. QED BY <1>2, <2>1, ProbeIs
<1>4. ASSUME Past(cron, zone, t) # {}
      PROVE  answer = {FireOf(cron, zone, u) : u \in Greatest(Past(cron, zone, t))}
  <2>1. PICK u \in Past(cron, zone, t) :
          /\ u \in Int /\ u <= t /\ u > t - Reach /\ Fires(cron, zone, u)
          /\ Greatest(Past(cron, zone, t)) = {u}
          /\ \A v \in Int : v <= t /\ Fires(cron, zone, v) => v <= u
    BY <1>4, PastLast
  <2>2. PICK d \in Int : FireOf(cron, zone, u) \in FiresOnLocalDate(cron, zone, d)
    BY <2>1, DateOfFire
  <2> DEFINE f == FireOf(cron, zone, u)
  <2>3. d <= from /\ d >= from - MaxDateSteps + 1
    <3>1. f \in FiresOnLocalDate(cron, zone, d) /\ f.at <= t /\ f.at > t - Reach
      BY <2>1, <2>2, FireOfAt
    <3> HIDE DEF f
    <3>2. d <= from
      BY <3>1, DatesOfNear
    <3>3. d >= from - MaxDateSteps + 1
      BY SMTT(60), <1>2, <3>1, DatesOfNear, ReachIs, LocalIs, DateIs, EdgeIs
    <3>. QED BY <3>2, <3>3
  <2>4. d \in dates
    BY <1>2, <2>2, <2>3
  <2> HIDE DEF from
  <2>5. WalkBack(cron, zone, t, from) = {FireOf(cron, zone, u)}
    BY <1>2, <2>1, <2>2, <2>4, HeldLast
  <2>. QED BY <1>1, <2>1, <2>5
<1> HIDE DEF answer
<1>. QED BY <1>3, <1>4 DEF ExactBack, answer

\* So does the walk on, with the next firing.
THEOREM NamedOnIsExact ==
    ASSUME NEW cron \in Expressions, NEW zone \in RealZones, zone.utc = FALSE, NEW t \in Int
    PROVE  ExactOn(cron, zone, t)
<1> DEFINE from == Date(Local(zone, t)) - EdgeDays
           dates == from .. from + MaxDateSteps - 1
           answer == FireAfter(cron, zone, t)
<1>1. answer = WalkOn(cron, zone, t, from)
  BY DEF FireAfter
<1>2. from \in Int /\ MaxDateSteps \in Int /\ dates \in SUBSET Int
  BY LocalIs, DateIs, EdgeIs, DayIs DEF MaxDateSteps
<1>3. ASSUME NEW f \in answer PROVE f.at > t /\ Fires(cron, zone, f.at)
  <2>1. \E p \in Probes(cron, zone, dates) : f = p.fire /\ p.fire.at > t
    BY <1>1, <1>3 DEF WalkOn
  <2>. QED BY <1>2, <2>1, ProbeIs
<1>4. ASSUME Coming(cron, zone, t) # {}
      PROVE  answer = {FireOf(cron, zone, u) : u \in Least(Coming(cron, zone, t))}
  <2>1. PICK u \in Coming(cron, zone, t) :
          /\ u \in Int /\ u > t /\ u < t + Reach /\ Fires(cron, zone, u)
          /\ Least(Coming(cron, zone, t)) = {u}
          /\ \A v \in Int : v > t /\ Fires(cron, zone, v) => u <= v
    BY <1>4, ComingFirst
  <2>2. PICK d \in Int : FireOf(cron, zone, u) \in FiresOnLocalDate(cron, zone, d)
    BY <2>1, DateOfFire
  <2>3. d >= from /\ d <= from + MaxDateSteps - 1
    BY <2>1, <2>2, FireOfAt, DatesOfNear
  <2>4. d \in dates
    BY <1>2, <2>2, <2>3
  <2> HIDE DEF from
  <2>5. WalkOn(cron, zone, t, from) = {FireOf(cron, zone, u)}
    BY <1>2, <2>1, <2>2, <2>4, HeldFirst
  <2>. QED BY <1>1, <2>1, <2>5
<1> HIDE DEF answer
<1>. QED BY <1>3, <1>4 DEF ExactOn, answer

(***************************************************************************)
(* Without a zone                                                          *)
(***************************************************************************)

LEMMA UtcIs ==
    ASSUME NEW cron \in Expressions, NEW zone \in RealZones, zone.utc = TRUE, NEW u \in Int
    PROVE  /\ Local(zone, u) = u
           /\ Fires(cron, zone, u) <=> Matches(cron, u)
           /\ Fires(cron, zone, u) => FireOf(cron, zone, u) = At(u)
<1>1. zone.before = 0 /\ zone.after = 0
  BY UtcOrNamed
<1>2. \A v \in Int : Local(zone, v) = v
  BY <1>1 DEF Local
<1>3. ~Shifted(cron, zone, u)
  BY <1>1 DEF Shifted
<1>4. Fires(cron, zone, u) <=> Matches(cron, u)
  BY <1>2, <1>3 DEF Fires
<1>5. FromLocal(zone, Local(zone, u)) = {u}
  BY <1>2, FromLocalIs
<1>6. RealFire(zone, u) = At(u)
  BY <1>5 DEF RealFire, RealMark, At
<1>. QED BY <1>2, <1>4, <1>6, MarkIs

\* Instants compare as dates, and on one date as clocks.
LEMMA DatesCompare ==
    ASSUME NEW l \in Int, NEW m \in Int
    PROVE  l <= m <=> Date(l) < Date(m) \/ (Date(l) = Date(m) /\ Clock(l) <= Clock(m))
<1> DEFINE d == Date(l)
           e == Date(m)
           x == Clock(l)
           y == Clock(m)
<1>1. d \in Int /\ d * Day \in Int /\ x \in Int /\ l = d * Day + x
  BY DateIs
<1>2. e \in Int /\ e * Day \in Int /\ y \in Int /\ m = e * Day + y
  BY DateIs
<1>3. d < e => l < m
  BY DatesGrow
<1>4. l <= m => d <= e
  BY DatesGrow
<1> HIDE DEF d, e, x, y
<1>5. d = e => (l <= m <=> x <= y)
  BY <1>1, <1>2
<1>6. l <= m <=> d < e \/ (d = e /\ x <= y)
  BY <1>1, <1>2, <1>3, <1>4, <1>5
<1>. QED BY <1>6 DEF d, e, x, y

\* The last match at or before an instant, if it is on one of the dates that are walked.
LEMMA UtcLast ==
    ASSUME NEW cron \in Expressions, NEW t \in Int
    PROVE  /\ \A f \in UtcAtOrBefore(cron, t) : f.at \in Int /\ f.at <= t /\ Matches(cron, f.at)
           /\ \A u \in Int : /\ u <= t /\ Matches(cron, u) /\ Date(u) > Date(t) - WalkDays
                             /\ \A v \in Int : v <= t /\ Matches(cron, v) => v <= u
                             => UtcAtOrBefore(cron, t) = {At(u)}
<1> DEFINE due(d) == {n \in cron.ticks : d = Date(t) => n <= Clock(t)}
           dates == {d \in Date(t) - WalkDays + 1 .. Date(t) : d \in cron.dates /\ due(d) # {}}
<1>1. UtcAtOrBefore(cron, t) = UNION {{At(d * Day + n) : n \in Greatest(due(d))} : d \in Greatest(dates)}
  BY DEF UtcAtOrBefore
<1>2. Date(t) \in Int /\ Clock(t) \in 0 .. Day - 1 /\ WalkDays \in Int /\ cron.ticks \subseteq 0 .. Day - 1
  BY DateIs, DayIs DEF Expressions
<1>3. ASSUME NEW d \in dates, NEW n \in due(d)
      PROVE  /\ d \in Int /\ n \in 0 .. Day - 1 /\ d * Day + n \in Int
             /\ Date(d * Day + n) = d /\ Clock(d * Day + n) = n
             /\ d * Day + n <= t /\ Matches(cron, d * Day + n)
  <2>1. d \in Int /\ d <= Date(t) /\ d \in cron.dates /\ n \in cron.ticks /\ n \in 0 .. Day - 1
        /\ (d = Date(t) => n <= Clock(t))
    BY <1>2
  <2>2. d * Day + n \in Int /\ Date(d * Day + n) = d /\ Clock(d * Day + n) = n
    BY <2>1, DateOf
  <2>3. Matches(cron, d * Day + n)
    BY <2>1, <2>2 DEF Matches
  <2>4. d * Day + n <= t
    BY <1>2, <2>1, <2>2, DatesCompare
  <2>. QED BY <2>1, <2>2, <2>3, <2>4
<1>4. ASSUME NEW f \in UtcAtOrBefore(cron, t)
      PROVE  f.at \in Int /\ f.at <= t /\ Matches(cron, f.at)
  <2>1. PICK d \in Greatest(dates) : \E n \in Greatest(due(d)) : f = At(d * Day + n)
    BY <1>1
  <2>2. PICK n \in Greatest(due(d)) : f = At(d * Day + n)
    BY <2>1
  <2>3. d \in dates /\ n \in due(d)
    BY DEF Greatest
  <2>4. f.at = d * Day + n
    BY <2>2 DEF At
  <2> HIDE DEF dates, due
  <2>. QED BY <1>3, <2>3, <2>4
<1>5. ASSUME NEW u \in Int, u <= t, Matches(cron, u), Date(u) > Date(t) - WalkDays,
             \A v \in Int : v <= t /\ Matches(cron, v) => v <= u
      PROVE  UtcAtOrBefore(cron, t) = {At(u)}
  <2> DEFINE e == Date(u)
             m == Clock(u)
  <2>1. e \in Int /\ m \in 0 .. Day - 1 /\ e * Day \in Int /\ u = e * Day + m /\ e \in cron.dates /\ m \in cron.ticks
    BY <1>5, DateIs DEF Matches
  <2>2. e < Date(t) \/ (e = Date(t) /\ m <= Clock(t))
    BY <1>5, DatesCompare
  <2>3. m \in due(e)
    BY <1>2, <2>1, <2>2
  <2>4. e \in dates
    BY <1>2, <1>5, <2>1, <2>2, <2>3
  <2>5. ASSUME NEW d \in dates, NEW n \in due(d) PROVE d < e \/ (d = e /\ n <= m)
    <3>1. d * Day + n <= u /\ Date(d * Day + n) = d /\ Clock(d * Day + n) = n /\ d * Day + n \in Int
      BY <1>3, <1>5
    <3>. QED BY <3>1, DatesCompare
  <2>6. \A d \in dates : d \in Int /\ due(d) # {}
    BY <1>2
  <2> HIDE DEF dates, due, e, m
  <2>7. \A d \in dates : d <= e
    BY <2>1, <2>5, <2>6
  <2>8. Greatest(dates) = {e}
    <3>1. e \in Greatest(dates)
      BY <2>4, <2>7 DEF Greatest
    <3>2. ASSUME NEW d \in Greatest(dates) PROVE d = e
      <4>1. d \in dates /\ e <= d
        BY <2>4 DEF Greatest
      <4>2. d \in Int /\ e \in Int
        BY <2>1, <2>6, <4>1
      <4>. QED BY <2>7, <4>1, <4>2
    <3>. QED BY <3>1, <3>2
  <2>9. \A n \in due(e) : n <= m /\ n \in Int
    <3>1. ASSUME NEW n \in due(e) PROVE n <= m /\ n \in Int
      <4>1. e < e \/ (e = e /\ n <= m)
        BY <2>4, <2>5
      <4>2. n \in 0 .. Day - 1
        BY <1>3, <2>4
      <4>. QED BY <2>1, <4>1, <4>2
    <3>. QED BY <3>1
  <2>10. Greatest(due(e)) = {m}
    <3>1. m \in Greatest(due(e))
      BY <2>3, <2>9 DEF Greatest
    <3>2. ASSUME NEW n \in Greatest(due(e)) PROVE n = m
      <4>1. n \in due(e) /\ m <= n
        BY <2>3 DEF Greatest
      <4>. QED BY <2>1, <2>9, <4>1
    <3>. QED BY <3>1, <3>2
  <2>11. UtcAtOrBefore(cron, t) = {At(e * Day + m)}
    BY <1>1, <2>8, <2>10
  <2>. QED BY <2>1, <2>11
<1>. QED BY <1>4, <1>5

\* The first match after an instant.
LEMMA UtcFirst ==
    ASSUME NEW cron \in Expressions, NEW t \in Int
    PROVE  /\ \A f \in UtcAfter(cron, t) : f.at \in Int /\ f.at > t /\ Matches(cron, f.at)
           /\ \A u \in Int : /\ u > t /\ Matches(cron, u) /\ Date(u) < Date(t) + WalkDays
                             /\ \A v \in Int : v > t /\ Matches(cron, v) => u <= v
                             => UtcAfter(cron, t) = {At(u)}
<1> DEFINE start == Date(t + 1)
           due(d) == {n \in cron.ticks : d = Date(t) => n > Clock(t)}
           dates == {d \in start .. start + WalkDays - 1 : d \in cron.dates /\ due(d) # {}}
<1>1. UtcAfter(cron, t) = UNION {{At(d * Day + n) : n \in Least(due(d))} : d \in Least(dates)}
  BY DEF UtcAfter
<1>2. Date(t) \in Int /\ Clock(t) \in 0 .. Day - 1 /\ WalkDays \in Int /\ cron.ticks \subseteq 0 .. Day - 1
      /\ t + 1 \in Int /\ start \in Int /\ Date(t) <= start
  <2>1. t + 1 \in Int /\ t <= t + 1
    OBVIOUS
  <2>. QED BY <2>1, DateIs, DayIs, DatesGrow DEF Expressions
<1> HIDE DEF start
<1>3. ASSUME NEW d \in dates, NEW n \in due(d)
      PROVE  /\ d \in Int /\ n \in 0 .. Day - 1 /\ d * Day + n \in Int
             /\ Date(d * Day + n) = d /\ Clock(d * Day + n) = n
             /\ d * Day + n > t /\ Matches(cron, d * Day + n)
  <2>1. d \in Int /\ Date(t) <= d /\ d \in cron.dates /\ n \in cron.ticks /\ n \in 0 .. Day - 1
        /\ (d = Date(t) => n > Clock(t))
    BY <1>2
  <2>2. d * Day + n \in Int /\ Date(d * Day + n) = d /\ Clock(d * Day + n) = n
    BY <2>1, DateOf
  <2>3. Matches(cron, d * Day + n)
    BY <2>1, <2>2 DEF Matches
  <2>4. ~(d * Day + n <= t)
    BY <1>2, <2>1, <2>2, DatesCompare
  <2>. QED BY <2>1, <2>2, <2>3, <2>4
<1>4. ASSUME NEW f \in UtcAfter(cron, t)
      PROVE  f.at \in Int /\ f.at > t /\ Matches(cron, f.at)
  <2>1. PICK d \in Least(dates) : \E n \in Least(due(d)) : f = At(d * Day + n)
    BY <1>1
  <2>2. PICK n \in Least(due(d)) : f = At(d * Day + n)
    BY <2>1
  <2>3. d \in dates /\ n \in due(d)
    BY DEF Least
  <2>4. f.at = d * Day + n
    BY <2>2 DEF At
  <2> HIDE DEF dates, due
  <2>. QED BY <1>3, <2>3, <2>4
<1>5. ASSUME NEW u \in Int, u > t, Matches(cron, u), Date(u) < Date(t) + WalkDays,
             \A v \in Int : v > t /\ Matches(cron, v) => u <= v
      PROVE  UtcAfter(cron, t) = {At(u)}
  <2> DEFINE e == Date(u)
             m == Clock(u)
  <2>1. e \in Int /\ m \in 0 .. Day - 1 /\ e * Day \in Int /\ u = e * Day + m /\ e \in cron.dates /\ m \in cron.ticks
    BY <1>5, DateIs DEF Matches
  <2>2. e = Date(t) => m > Clock(t)
    <3>1. ~(u <= t)
      BY <1>5
    <3>. QED BY <1>2, <2>1, <3>1, DatesCompare
  <2>3. m \in due(e)
    BY <1>2, <2>1, <2>2
  <2>4. e \in dates
    <3>1. t + 1 <= u
      BY <1>5
    <3>2. start <= e
      BY <1>2, <3>1, DatesGrow DEF start
    <3>. QED BY <1>2, <1>5, <2>1, <2>3, <3>2
  <2>5. ASSUME NEW d \in dates, NEW n \in due(d) PROVE e < d \/ (d = e /\ m <= n)
    <3>1. u <= d * Day + n /\ Date(d * Day + n) = d /\ Clock(d * Day + n) = n /\ d * Day + n \in Int
      BY <1>3, <1>5
    <3>. QED BY <3>1, DatesCompare
  <2>6. \A d \in dates : d \in Int /\ due(d) # {}
    BY <1>2
  <2> HIDE DEF dates, due, e, m
  <2>7. \A d \in dates : e <= d
    BY <2>1, <2>5, <2>6
  <2>8. Least(dates) = {e}
    <3>1. e \in Least(dates)
      BY <2>4, <2>7 DEF Least
    <3>2. ASSUME NEW d \in Least(dates) PROVE d = e
      <4>1. d \in dates /\ d <= e
        BY <2>4 DEF Least
      <4>2. d \in Int /\ e \in Int
        BY <2>1, <2>6, <4>1
      <4>. QED BY <2>7, <4>1, <4>2
    <3>. QED BY <3>1, <3>2
  <2>9. \A n \in due(e) : m <= n /\ n \in Int
    <3>1. ASSUME NEW n \in due(e) PROVE m <= n /\ n \in Int
      <4>1. e < e \/ (e = e /\ m <= n)
        BY <2>4, <2>5
      <4>2. n \in 0 .. Day - 1
        BY <1>3, <2>4
      <4>. QED BY <2>1, <4>1, <4>2
    <3>. QED BY <3>1
  <2>10. Least(due(e)) = {m}
    <3>1. m \in Least(due(e))
      BY <2>3, <2>9 DEF Least
    <3>2. ASSUME NEW n \in Least(due(e)) PROVE n = m
      <4>1. n \in due(e) /\ n <= m
        BY <2>3 DEF Least
      <4>. QED BY <2>1, <2>9, <4>1
    <3>. QED BY <3>1, <3>2
  <2>11. UtcAfter(cron, t) = {At(e * Day + m)}
    BY <1>1, <2>8, <2>10
  <2>. QED BY <2>1, <2>11
<1>. QED BY <1>4, <1>5

LEMMA UtcReach ==
    ASSUME NEW t \in Int, NEW u \in Int
    PROVE  /\ u > t - Reach => Date(u) > Date(t) - WalkDays
           /\ u < t + Reach => Date(u) < Date(t) + WalkDays
<1> DEFINE d == Date(t)
           e == Date(u)
           walk == WalkDays * Day
           x == Clock(t)
           y == Clock(u)
<1>1. d \in Int /\ d * Day \in Int /\ x \in 0 .. Day - 1 /\ t = d * Day + x
  BY DateIs
<1>2. e \in Int /\ e * Day \in Int /\ y \in 0 .. Day - 1 /\ u = e * Day + y
  BY DateIs
<1>3. WalkDays \in Int /\ walk \in Int /\ Reach = walk - Day
  BY DayIs, ReachIs
<1> HIDE DEF d, e, x, y
<1>4. (d - WalkDays) * Day = d * Day - walk /\ (d + WalkDays) * Day = d * Day + walk
  BY <1>1, <1>3, DateSteps
<1>5. d - WalkDays \in Int /\ d + WalkDays \in Int
  BY <1>1, <1>3
<1>6. e <= d - WalkDays => e * Day <= (d - WalkDays) * Day
  BY <1>2, <1>5, DateSteps
<1>7. d + WalkDays <= e => (d + WalkDays) * Day <= e * Day
  BY <1>2, <1>5, DateSteps
<1> HIDE DEF walk
<1>8. /\ u > t - Reach => e > d - WalkDays
      /\ u < t + Reach => e < d + WalkDays
  BY <1>1, <1>2, <1>3, <1>4, <1>5, <1>6, <1>7, DayIs
<1>. QED BY <1>8 DEF d, e

\* Without a zone the walk back and the walk on are exact in the same sense.
THEOREM UtcBackIsExact ==
    ASSUME NEW cron \in Expressions, NEW zone \in RealZones, zone.utc = TRUE, NEW t \in Int
    PROVE  ExactBack(cron, zone, t)
<1> DEFINE answer == FireAtOrBefore(cron, zone, t)
<1>1. answer = UtcAtOrBefore(cron, t)
  BY DEF FireAtOrBefore
<1>2. ASSUME NEW f \in answer PROVE f.at <= t /\ Fires(cron, zone, f.at)
  BY <1>1, <1>2, UtcLast, UtcIs
<1>3. ASSUME Past(cron, zone, t) # {}
      PROVE  answer = {FireOf(cron, zone, u) : u \in Greatest(Past(cron, zone, t))}
  <2>1. PICK u \in Past(cron, zone, t) :
          /\ u \in Int /\ u <= t /\ u > t - Reach /\ Fires(cron, zone, u)
          /\ Greatest(Past(cron, zone, t)) = {u}
          /\ \A v \in Int : v <= t /\ Fires(cron, zone, v) => v <= u
    BY <1>3, PastLast
  <2>2. Matches(cron, u) /\ FireOf(cron, zone, u) = At(u)
    BY <2>1, UtcIs
  <2>3. \A v \in Int : v <= t /\ Matches(cron, v) => v <= u
    BY <2>1, UtcIs
  <2>4. Date(u) > Date(t) - WalkDays
    BY <2>1, UtcReach
  <2>5. UtcAtOrBefore(cron, t) = {At(u)}
    BY <2>1, <2>2, <2>3, <2>4, UtcLast
  <2>. QED BY <1>1, <2>1, <2>2, <2>5
<1> HIDE DEF answer
<1>. QED BY <1>2, <1>3 DEF ExactBack, answer

THEOREM UtcOnIsExact ==
    ASSUME NEW cron \in Expressions, NEW zone \in RealZones, zone.utc = TRUE, NEW t \in Int
    PROVE  ExactOn(cron, zone, t)
<1> DEFINE answer == FireAfter(cron, zone, t)
<1>1. answer = UtcAfter(cron, t)
  BY DEF FireAfter
<1>2. ASSUME NEW f \in answer PROVE f.at > t /\ Fires(cron, zone, f.at)
  BY <1>1, <1>2, UtcFirst, UtcIs
<1>3. ASSUME Coming(cron, zone, t) # {}
      PROVE  answer = {FireOf(cron, zone, u) : u \in Least(Coming(cron, zone, t))}
  <2>1. PICK u \in Coming(cron, zone, t) :
          /\ u \in Int /\ u > t /\ u < t + Reach /\ Fires(cron, zone, u)
          /\ Least(Coming(cron, zone, t)) = {u}
          /\ \A v \in Int : v > t /\ Fires(cron, zone, v) => u <= v
    BY <1>3, ComingFirst
  <2>2. Matches(cron, u) /\ FireOf(cron, zone, u) = At(u)
    BY <2>1, UtcIs
  <2>3. \A v \in Int : v > t /\ Matches(cron, v) => u <= v
    BY <2>1, UtcIs
  <2>4. Date(u) < Date(t) + WalkDays
    BY <2>1, UtcReach
  <2>5. UtcAfter(cron, t) = {At(u)}
    BY <2>1, <2>2, <2>3, <2>4, UtcFirst
  <2>. QED BY <1>1, <2>1, <2>2, <2>5
<1> HIDE DEF answer
<1>. QED BY <1>2, <1>3 DEF ExactOn, answer

\* The walk back, whatever the zone.
THEOREM BackIsExact ==
    ASSUME NEW cron \in Expressions, NEW zone \in RealZones, NEW t \in Int
    PROVE  ExactBack(cron, zone, t)
BY UtcOrNamed, UtcBackIsExact, NamedBackIsExact

\* The walk on, whatever the zone.
THEOREM OnIsExact ==
    ASSUME NEW cron \in Expressions, NEW zone \in RealZones, NEW t \in Int
    PROVE  ExactOn(cron, zone, t)
BY UtcOrNamed, UtcOnIsExact, NamedOnIsExact

(***************************************************************************)
(* An interval                                                             *)
(***************************************************************************)

LEMMA MultipleIs ==
    ASSUME NEW l \in Int
    PROVE  l % Period = 0 <=> \E k \in Int : l = Period * k
<1>1. Period \in Nat /\ Period > 0
  BY TimeAssumption
<1>2. ASSUME l % Period = 0 PROVE \E k \in Int : l = Period * k
  <2>1. l \div Period \in Int /\ l = Period * (l \div Period) + (l % Period)
    BY <1>1
  <2>. QED BY <1>1, <1>2, <2>1
<1>3. ASSUME NEW k \in Int, l = Period * k PROVE l % Period = 0
  <2> DEFINE m == l % Period
             p == l \div Period
  <2>1. p \in Int /\ m \in Int /\ l = Period * p + m /\ 0 <= m /\ m < Period
    BY <1>1
  <2> HIDE DEF m, p
  <2>2. Period * (k - p) = m
    BY <1>1, <1>3, <2>1
  <2>3. CASE k - p >= 1
    <3>1. Period * (k - p) >= Period
      BY <1>1, <2>1, <2>3
    <3>. QED BY <1>1, <2>1, <2>2, <3>1
  <2>4. CASE k - p <= -1
    <3>1. Period * (k - p) <= -Period
      BY <1>1, <2>1, <2>4
    <3>. QED BY <1>1, <2>1, <2>2, <3>1
  <2>5. CASE k - p = 0
    <3>1. m = 0
      BY <1>1, <2>1, <2>2, <2>5
    <3>. QED BY <3>1 DEF m
  <2>6. k - p >= 1 \/ k - p <= -1 \/ k - p = 0
    BY <2>1
  <2>. QED BY <2>3, <2>4, <2>5, <2>6
<1>. QED BY <1>2, <1>3

LEMMA MultiplesAdd ==
    ASSUME NEW l \in Int, NEW m \in Int, m % Period = 0
    PROVE  (l + m) % Period = 0 <=> l % Period = 0
<1>1. Period \in Nat /\ Period > 0
  BY TimeAssumption
<1>2. PICK j \in Int : m = Period * j
  BY MultipleIs
<1>3. ASSUME l % Period = 0 PROVE (l + m) % Period = 0
  <2>1. PICK k \in Int : l = Period * k
    BY <1>3, MultipleIs
  <2>2. k + j \in Int /\ l + m \in Int /\ l + m = Period * (k + j)
    BY <1>1, <1>2, <2>1
  <2>. QED BY <2>2, MultipleIs
<1>4. ASSUME (l + m) % Period = 0 PROVE l % Period = 0
  <2>1. PICK k \in Int : l + m = Period * k
    BY <1>4, MultipleIs
  <2>2. k - j \in Int /\ l = Period * (k - j)
    BY <1>1, <1>2, <2>1
  <2>. QED BY <2>2, MultipleIs
<1>. QED BY <1>3, <1>4

\* Two multiples are a period apart, or one.
LEMMA MultiplesApart ==
    ASSUME NEW l \in Int, NEW m \in Int, l % Period = 0, m % Period = 0, l < m
    PROVE  l + Period <= m
<1>1. Period \in Nat /\ Period > 0
  BY TimeAssumption
<1>2. PICK j \in Int : l = Period * j
  BY MultipleIs
<1>3. PICK k \in Int : m = Period * k
  BY MultipleIs
<1>4. Period * (k - j) = m - l
  BY <1>1, <1>2, <1>3
<1>5. k - j <= 0 => Period * (k - j) <= 0
  BY <1>1
<1>6. k - j >= 1 => Period * (k - j) >= Period
  BY <1>1
<1>7. k - j \in Int
  OBVIOUS
<1>. QED BY <1>1, <1>4, <1>5, <1>6, <1>7

LEMMA DatesAreMultiples == \A d \in Int : d * Day \in Int /\ (d * Day) % Period = 0
<1> SUFFICES ASSUME NEW d \in Int PROVE d * Day \in Int /\ (d * Day) % Period = 0
  OBVIOUS
<1>1. Period \in Nat /\ Period > 0 /\ Day \in Int
  BY TimeAssumption, DayIs
<1>2. PICK k \in Int : Day = Period * k
  BY <1>1, CadenceAssumption, MultipleIs
<1>3. d * k \in Int /\ d * (Period * k) = Period * (d * k)
  BY <1>1
<1>4. d * Day \in Int /\ d * Day = Period * (d * k)
  BY <1>1, <1>2, <1>3
<1>. QED BY <1>3, <1>4, MultipleIs

\* An interval fires at its multiples in every zone that keeps to it.
LEMMA IntervalFires ==
    ASSUME NEW zone \in Aligned, NEW u \in Int
    PROVE  /\ zone \in RealZones /\ Interval \in Expressions
           /\ Fires(Interval, zone, u) <=> u % Period = 0
<1>1. /\ zone \in RealZones
      /\ zone.before % Period = 0 /\ zone.after % Period = 0 /\ zone.change % Period = 0
  BY CadenceAssumption DEF Aligned
<1>2. Interval \in Expressions
  BY DEF Interval, Expressions
<1>3. \A l \in Int : Matches(Interval, l) <=> l % Period = 0
  <2> SUFFICES ASSUME NEW l \in Int PROVE Matches(Interval, l) <=> l % Period = 0
    OBVIOUS
  <2> DEFINE d == Date(l)
             c == Clock(l)
             m == d * Day
  <2>1. d \in Int /\ c \in 0 .. Day - 1 /\ m \in Int /\ l = m + c /\ c \in Int /\ l = c + m
    BY DateIs, DayIs
  <2>2. m % Period = 0
    BY <2>1, DatesAreMultiples
  <2>3. Matches(Interval, l) <=> c % Period = 0
    BY <2>1 DEF Matches, Interval
  <2> HIDE DEF c, m, d
  <2>4. (c + m) % Period = 0 <=> c % Period = 0
    BY <2>1, <2>2, MultiplesAdd
  <2>. QED BY <2>1, <2>3, <2>4
<1>4. Local(zone, u) \in Int /\ (Local(zone, u) % Period = 0 <=> u % Period = 0)
  <2>1. zone.before \in Int /\ zone.after \in Int /\ zone.change \in Int
    BY <1>1, ZoneIs
  <2>2. (u + zone.before) % Period = 0 <=> u % Period = 0
    BY <1>1, <2>1, MultiplesAdd
  <2>3. (u + zone.after) % Period = 0 <=> u % Period = 0
    BY <1>1, <2>1, MultiplesAdd
  <2>4. Local(zone, u) = u + zone.before \/ Local(zone, u) = u + zone.after
    BY DEF Local
  <2>. QED BY <2>1, <2>2, <2>3, <2>4
<1>5. Shifted(Interval, zone, u) => u % Period = 0
  BY <1>1 DEF Shifted
<1>. QED BY <1>1, <1>2, <1>3, <1>4, <1>5 DEF Fires

\* An interval schedule keeps its cadence: in every such zone the slot at an instant is
\* the latest multiple of its period.
THEOREM IntervalIsKept ==
    ASSUME NEW zone \in Aligned, NEW t \in Nat
    PROVE  Instants(FireAtOrBefore(Interval, zone, t)) = {(t \div Period) * Period}
<1> DEFINE q == t \div Period
           due == q * Period
           past == Past(Interval, zone, t)
<1>1. Period \in Nat /\ Period > 0 /\ Period <= Day /\ t \in Int
  <2>1. Period \in Nat /\ Period > 0 /\ Day \in Int /\ Day % Period = 0 /\ Day >= 1
    BY TimeAssumption, DayIs, CadenceAssumption
  <2>2. 0 \in Int /\ 0 % Period = 0
    <3>1. 0 = Period * 0
      BY <2>1
    <3>. QED BY <3>1, MultipleIs
  <2>3. 0 + Period <= Day
    BY <2>1, <2>2, MultiplesApart
  <2>. QED BY <2>1, <2>3
<1>2. q \in Int /\ due \in Int /\ due = Period * q /\ t % Period \in 0 .. Period - 1 /\ t = due + (t % Period)
  BY <1>1
<1>3. due <= t /\ t < due + Period
  BY <1>1, <1>2
<1> HIDE DEF q, due
<1>4. due % Period = 0
  BY <1>2, MultipleIs DEF due
<1>5. due \in past /\ Fires(Interval, zone, due)
  <2>1. Fires(Interval, zone, due)
    BY <1>2, <1>4, IntervalFires
  <2>2. due \in t - Reach + 1 .. t
    BY <1>1, <1>2, <1>3, ReachIs, DayIs
  <2>. QED BY <2>1, <2>2 DEF Past
<1>6. PICK u \in past : /\ u \in Int /\ u <= t /\ u > t - Reach /\ Fires(Interval, zone, u)
                        /\ Greatest(past) = {u}
                        /\ \A v \in Int : v <= t /\ Fires(Interval, zone, v) => v <= u
  <2>1. past # {}
    BY <1>5
  <2>. QED BY <1>1, <2>1, PastLast
<1>7. u = due
  <2>1. u % Period = 0
    BY <1>6, IntervalFires
  <2>2. due <= u
    BY <1>2, <1>3, <1>5, <1>6
  <2>3. due < u => due + Period <= u
    BY <1>2, <1>4, <1>6, <2>1, MultiplesApart
  <2>. QED BY <1>1, <1>2, <1>3, <1>6, <2>2, <2>3
<1>8. ExactBack(Interval, zone, t)
  <2>1. zone \in RealZones /\ Interval \in Expressions
    BY <1>1, IntervalFires
  <2>. QED BY <1>1, <2>1, BackIsExact
<1>9. FireAtOrBefore(Interval, zone, t) = {FireOf(Interval, zone, v) : v \in Greatest(past)}
  BY <1>5, <1>8 DEF ExactBack
<1> HIDE DEF past
<1>10. FireAtOrBefore(Interval, zone, t) = {FireOf(Interval, zone, due)}
  BY <1>6, <1>7, <1>9
<1>11. Instants(FireAtOrBefore(Interval, zone, t)) = {due}
  BY <1>10, FireOfAt DEF Instants
<1>. QED BY <1>11 DEF due, q

\* The slot a pass decides about is the latest firing of an interval expression, in every
\* zone that keeps to the interval.
THEOREM DueIsFound == Spec => []DueIsLatestFire
<1>1. ASSUME NEW t \in CreatedAt .. Horizon
      PROVE  IntervalDue[t] \subseteq {{(t \div Period) * Period}}
  <2>1. t \in Nat
    BY TimeAssumption
  <2>2. IntervalDue[t] = {Instants(FireAtOrBefore(Interval, zone, t)) : zone \in Aligned}
    BY DEF IntervalDue
  <2>. QED BY <2>1, <2>2, IntervalIsKept
<1>2. TypeOK => DueIsLatestFire
  <2> SUFFICES ASSUME TypeOK, pc = "decide" PROVE IntervalDue[pass.at] \subseteq {{Due}}
    BY DEF DueIsLatestFire
  <2>1. pass.at \in CreatedAt .. Horizon
    BY DEF TypeOK, PassType
  <2>. QED BY <1>1, <2>1 DEF Due
<1>3. IInv => TypeOK
  BY DEF IInv
<1>. QED BY <1>2, <1>3, InvariantHolds, PTL

(***************************************************************************)
(* The first of a set                                                      *)
(***************************************************************************)

Below(S, w) == {x \in S : x < w}
FirstOf(n, S) == {w \in S : Cardinality(Below(S, w)) < n}

LEMMA BelowIs ==
    ASSUME NEW S \in SUBSET Int, IsFiniteSet(S), NEW w \in Int
    PROVE  Below(S, w) \in SUBSET S /\ IsFiniteSet(Below(S, w)) /\ Cardinality(Below(S, w)) \in Nat
<1>1. Below(S, w) \in SUBSET S
  BY DEF Below
<1>. QED BY <1>1, FS_Subset, FS_CardinalityType

LEMMA BelowGrows ==
    ASSUME NEW S \in SUBSET Int, NEW v \in Int, NEW w \in Int, w <= v
    PROVE  Below(S, w) \subseteq Below(S, v)
<1>1. ASSUME NEW x \in Below(S, w) PROVE x \in Below(S, v)
  <2>1. x \in S /\ x \in Int /\ x < w
    BY DEF Below
  <2>2. x < v
    BY <2>1
  <2>. QED BY <2>1, <2>2 DEF Below
<1>. QED BY <1>1

LEMMA SmallerIsFewer ==
    ASSUME NEW S, NEW T, IsFiniteSet(T), S \subseteq T
    PROVE  IsFiniteSet(S) /\ Cardinality(S) \in Nat /\ Cardinality(T) \in Nat /\ Cardinality(S) <= Cardinality(T)
<1>1. S \in SUBSET T
  OBVIOUS
<1>. QED BY <1>1, FS_Subset, FS_CardinalityType

\* Taking one more of a set takes the least of what is left.
LEMMA FirstGrows ==
    ASSUME NEW S \in SUBSET Int, IsFiniteSet(S), NEW b \in Int, \A x \in S : b <= x, NEW n \in Nat,
           Cardinality(FirstOf(n, S)) <= n,
           Cardinality(FirstOf(n, S)) < n => FirstOf(n, S) = S
    PROVE  /\ Cardinality(FirstOf(n + 1, S)) <= n + 1
           /\ Cardinality(FirstOf(n + 1, S)) < n + 1 => FirstOf(n + 1, S) = S
<1> DEFINE F == FirstOf(n, S)
           G == FirstOf(n + 1, S)
           rank(w) == Cardinality(Below(S, w))
<1>1. F \subseteq G /\ G \subseteq S /\ F \subseteq S
  <2>1. ASSUME NEW w \in F PROVE w \in G
    <3>1. w \in S /\ w \in Int /\ rank(w) < n
      BY DEF FirstOf
    <3>2. rank(w) \in Nat
      BY <3>1, BelowIs
    <3>3. rank(w) < n + 1
      <4> HIDE DEF rank
      <4>. QED BY <3>1, <3>2
    <3>. QED BY <3>1, <3>3 DEF FirstOf
  <2>2. F \subseteq S /\ G \subseteq S
    BY DEF FirstOf
  <2>. QED BY <2>1, <2>2
<1>2. IsFiniteSet(F) /\ Cardinality(F) \in Nat /\ Cardinality(F) <= n
  BY <1>1, SmallerIsFewer
<1>3. CASE F = S
  <2>1. G = F
    BY <1>1, <1>3
  <2>. QED BY <1>2, <1>3, <2>1
<1>4. CASE F # S
  <2>1. S \ F \in SUBSET Int /\ S \ F # {} /\ \A x \in S \ F : b <= x
    BY <1>1, <1>4
  <2>2. PICK m \in S \ F : \A x \in S \ F : m <= x
    BY <2>1, LeastIs
  <2>3. m \in S /\ m \in Int /\ rank(m) \in Nat /\ ~(rank(m) < n)
    <3>1. m \in S /\ m \in Int
      BY <2>2
    <3>2. rank(m) \in Nat
      BY <3>1, BelowIs
    <3>3. ~(rank(m) < n)
      BY <2>2, <3>1 DEF FirstOf
    <3>. QED BY <3>1, <3>2, <3>3
  <2>4. ASSUME NEW w \in F PROVE w < m
    <3>1. w \in S /\ w \in Int /\ rank(w) < n
      BY <1>1 DEF FirstOf
    <3>2. CASE m < w
      <4>1. Below(S, m) \subseteq Below(S, w)
        BY <2>3, <3>1, <3>2, BelowGrows
      <4>2. IsFiniteSet(Below(S, w)) /\ rank(w) \in Nat
        BY <3>1, BelowIs
      <4>3. rank(m) <= rank(w)
        BY <4>1, <4>2, SmallerIsFewer
      <4>. QED BY <2>3, <3>1, <4>2, <4>3
    <3>3. w # m
      BY <2>2
    <3>. QED BY <2>3, <3>1, <3>2, <3>3
  <2>5. Below(S, m) = F
    <3>1. ASSUME NEW x \in S, x < m PROVE x \in F
      BY <2>2, <2>3, <3>1
    <3>. QED BY <1>1, <2>4, <3>1 DEF Below
  <2>6. Cardinality(F) = n /\ rank(m) = n
    BY <1>2, <2>3, <2>5
  <2>7. m \in G
    BY <2>3, <2>6 DEF FirstOf
  <2>8. ASSUME NEW w \in G, w \notin F PROVE w = m
    <3>1. w \in S /\ w \in Int /\ rank(w) < n + 1 /\ m <= w
      BY <1>1, <2>2, <2>8 DEF FirstOf
    <3>2. CASE m < w
      <4>1. F \cup {m} \subseteq Below(S, w)
        <5>1. Below(S, m) \subseteq Below(S, w)
          BY <2>3, <3>1, <3>2, BelowGrows
        <5>2. m \in Below(S, w)
          BY <2>3, <3>2 DEF Below
        <5>. QED BY <2>5, <5>1, <5>2
      <4>2. IsFiniteSet(Below(S, w)) /\ rank(w) \in Nat
        BY <3>1, BelowIs
      <4>3. Cardinality(F \cup {m}) = n + 1
        <5>1. m \notin F
          BY <2>2
        <5> HIDE DEF F
        <5>. QED BY <1>2, <2>6, <5>1, FS_AddElement
      <4>4. Cardinality(F \cup {m}) <= rank(w)
        BY <4>1, <4>2, SmallerIsFewer
      <4>. QED BY <3>1, <4>2, <4>3, <4>4
    <3>. QED BY <2>3, <3>1, <3>2
  <2>9. G = F \cup {m}
    BY <1>1, <2>7, <2>8
  <2>10. Cardinality(G) = n + 1
    <3>1. m \notin F
      BY <2>2
    <3> HIDE DEF F, G
    <3>. QED BY <1>2, <2>6, <2>9, <3>1, FS_AddElement
  <2>. QED BY <2>10
<1>. QED BY <1>3, <1>4

\* The first n of a set are n of them, or all.
LEMMA FirstIs ==
    ASSUME NEW S \in SUBSET Int, IsFiniteSet(S), NEW b \in Int, \A x \in S : b <= x, NEW n \in Nat
    PROVE  /\ FirstOf(n, S) \subseteq S /\ IsFiniteSet(FirstOf(n, S)) /\ Cardinality(FirstOf(n, S)) \in Nat
           /\ Cardinality(FirstOf(n, S)) <= n
           /\ Cardinality(FirstOf(n, S)) < n => FirstOf(n, S) = S
<1> DEFINE Good(k) == /\ Cardinality(FirstOf(k, S)) <= k
                      /\ Cardinality(FirstOf(k, S)) < k => FirstOf(k, S) = S
           Bad == {k \in Nat : ~Good(k)}
<1>1. ASSUME Bad # {} PROVE FALSE
  <2>1. PICK k \in Bad : \A j \in Bad : k <= j
    BY <1>1, LeastNatural
  <2>2. CASE k = 0
    <3>1. ASSUME NEW w \in S PROVE ~(Cardinality(Below(S, w)) < 0)
      <4>1. Cardinality(Below(S, w)) \in Nat
        BY BelowIs
      <4>. QED BY <4>1
    <3>2. FirstOf(0, S) = {}
      BY <3>1 DEF FirstOf
    <3>. QED BY <2>1, <2>2, <3>2, FS_EmptySet
  <2>3. CASE k > 0
    <3>1. k - 1 \in Nat /\ k - 1 \notin Bad /\ (k - 1) + 1 = k
      BY <2>1, <2>3
    <3>2. Good(k - 1)
      BY <3>1
    <3>3. Good((k - 1) + 1)
      BY <3>1, <3>2, FirstGrows
    <3>. QED BY <2>1, <3>1, <3>3
  <2>. QED BY <2>1, <2>2, <2>3
<1>2. Good(n)
  BY <1>1
<1>3. FirstOf(n, S) \subseteq S
  BY DEF FirstOf
<1>. QED BY <1>2, <1>3, SmallerIsFewer

\* What comes before an element of the first n is among them, and it is only as many.
LEMMA FirstBelow ==
    ASSUME NEW S \in SUBSET Int, IsFiniteSet(S), NEW n \in Nat, NEW w \in Int, NEW v \in FirstOf(n, S), w <= v
    PROVE  Cardinality(Below(S, w)) < n
<1>1. v \in S /\ v \in Int /\ Cardinality(Below(S, v)) < n
  BY DEF FirstOf
<1>2. Below(S, w) \subseteq Below(S, v)
  BY <1>1, BelowGrows
<1>3. Cardinality(Below(S, w)) <= Cardinality(Below(S, v)) /\ Cardinality(Below(S, w)) \in Nat
      /\ Cardinality(Below(S, v)) \in Nat
  BY <1>1, <1>2, BelowIs, SmallerIsFewer
<1>. QED BY <1>1, <1>3

\* If a set has n elements before an instant, so have its first n.
LEMMA FirstReach ==
    ASSUME NEW S \in SUBSET Int, IsFiniteSet(S), NEW b \in Int, \A x \in S : b <= x, NEW n \in Nat,
           NEW w \in Int
    PROVE  /\ Cardinality(Below(FirstOf(n, S), w)) \in Nat
           /\ n <= Cardinality(Below(S, w)) => Cardinality(Below(FirstOf(n, S), w)) = n
<1> DEFINE T == Below(S, w)
<1>1. T \in SUBSET S /\ IsFiniteSet(T) /\ Cardinality(T) \in Nat /\ T \in SUBSET Int /\ \A x \in T : b <= x
  BY BelowIs
<1>2. FirstOf(n, T) = Below(FirstOf(n, S), w)
  <2>1. ASSUME NEW x \in T PROVE Below(T, x) = Below(S, x)
    <3>1. x \in Int /\ x < w
      BY <1>1 DEF Below
    <3>2. Below(S, x) \subseteq T
      BY <3>1, BelowGrows
    <3>. QED BY <1>1, <3>2 DEF Below
  <2>. QED BY <1>1, <2>1 DEF FirstOf, Below
<1> HIDE DEF T
<1>3. /\ Cardinality(FirstOf(n, T)) \in Nat /\ Cardinality(FirstOf(n, T)) <= n
      /\ Cardinality(FirstOf(n, T)) < n => FirstOf(n, T) = T
  BY <1>1, FirstIs
<1>4. n <= Cardinality(T) => Cardinality(FirstOf(n, T)) = n
  BY <1>1, <1>3
<1>. QED BY <1>2, <1>3, <1>4 DEF T

\* Firings with an instant each are as many as their instants.
LEMMA FiresCount ==
    ASSUME NEW R, IsFiniteSet(Instants(R)), \A f, g \in R : f.at = g.at => f = g
    PROVE  IsFiniteSet(R) /\ Cardinality(R) = Cardinality(Instants(R))
<1> DEFINE h == [f \in R |-> f.at]
           I == Instants(R)
<1>1. h \in [R -> I]
  BY DEF Instants
<1>2. \A f, g \in R : h[f] = h[g] => f = g
  OBVIOUS
<1>3. \A u \in I : \E f \in R : h[f] = u
  BY DEF Instants
<1> HIDE DEF h, I
<1>4. h \in Injection(R, I) /\ h \in Surjection(R, I)
  BY <1>1, <1>2, <1>3 DEF Injection, Surjection, IsInjective
<1>5. IsFiniteSet(I)
  BY DEF I
<1>. QED BY <1>4, <1>5, FS_Injection DEF I

LEMMA TakeIs ==
    ASSUME NEW n, NEW R
    PROVE  /\ \A f : f \in Take(n, R) <=> f \in R /\ f.at \in FirstOf(n, Instants(R))
           /\ Instants(Take(n, R)) = FirstOf(n, Instants(R))
BY DEF Take, FirstOf, Below, Instants

(***************************************************************************)
(* The list of firings in a named zone                                     *)
(***************************************************************************)

\* The walk of WalkList, piece by piece: the dates it may visit, the firings on them, the
\* firings no later date comes before, where it goes on, and what it found.
ListFrom(zone, t) == Date(Local(zone, t)) - EdgeDays
ListLast(zone, t) == HorizonDate(Date(Local(zone, t)))
ListDates(zone, t) == ListFrom(zone, t) .. ListFrom(zone, t) + MaxDateSteps - 1
ListProbes(cron, zone, t) == {p \in Probes(cron, zone, ListDates(zone, t)) : p.fire.at > t}
ListPassed(cron, zone, t, d) ==
    {p.fire.at : p \in {q \in ListProbes(cron, zone, t) : q.date < d /\ q.fire.at < EarliestPossible(d)}}
ListReached(cron, zone, t, count, until, d) ==
    /\ d <= ListLast(zone, t)
    /\ Cardinality(ListPassed(cron, zone, t, d)) < count
    /\ \A u \in until : EarliestPossible(d) < u
ListFound(cron, zone, t, count, until) ==
    Record({p.fire : p \in {q \in ListProbes(cron, zone, t) : ListReached(cron, zone, t, count, until, q.date)}})

LEMMA ListIs ==
    ASSUME NEW cron, NEW zone, zone.utc = FALSE, NEW t, NEW count \in Nat \ {0}, NEW until
    PROVE  /\ FiresAfter(cron, zone, t, count, until).fires = Take(count, ListFound(cron, zone, t, count, until))
           /\ FiresAfter(cron, zone, t, count, until).cut <=>
                ListReached(cron, zone, t, count, until, ListLast(zone, t)) /\ ListLast(zone, t) + 1 \in ListDates(zone, t)
<1> DEFINE cut == ListReached(cron, zone, t, count, until, ListLast(zone, t)) /\ ListLast(zone, t) + 1 \in ListDates(zone, t)
           fires == Take(count, ListFound(cron, zone, t, count, until))
<1>1. FiresAfter(cron, zone, t, count, until) = WalkList(cron, zone, t, count, until, ListFrom(zone, t))
  BY DEF FiresAfter, ListFrom
<1>2. WalkList(cron, zone, t, count, until, ListFrom(zone, t)) = [fires |-> fires, cut |-> cut]
  BY DEF WalkList, ListFound, ListReached, ListPassed, ListProbes, ListDates, ListLast
<1> HIDE DEF fires, cut
<1>3. FiresAfter(cron, zone, t, count, until).fires = fires /\ FiresAfter(cron, zone, t, count, until).cut = cut
  BY <1>1, <1>2
<1>. QED BY <1>3 DEF fires, cut

LEMMA ListDatesAre ==
    ASSUME NEW zone \in RealZones, NEW t \in Int
    PROVE  /\ Date(Local(zone, t)) \in Int /\ ListDates(zone, t) \in SUBSET Int
           /\ ListLast(zone, t) \in Int /\ ListLast(zone, t) = Date(Local(zone, t)) + WalkDays
           /\ ListLast(zone, t) + 1 \in ListDates(zone, t)
           /\ \A d \in Int : d \in ListDates(zone, t) <=>
                d >= Date(Local(zone, t)) - EdgeDays /\ d <= Date(Local(zone, t)) + EdgeDays + WalkDays - 1
<1> DEFINE date == Date(Local(zone, t))
<1>1. date \in Int
  BY LocalIs, DateIs
<1>2. EdgeDays \in Nat /\ EdgeDays >= 2 /\ MaxDateSteps \in Int /\ MaxDateSteps = WalkDays + 2 * EdgeDays
  BY EdgeIs, DayIs DEF MaxDateSteps
<1> HIDE DEF date
<1>3. ListDates(zone, t) = date - EdgeDays .. date - EdgeDays + MaxDateSteps - 1
  BY DEF ListDates, ListFrom, date
<1>4. ListLast(zone, t) = date + WalkDays
  BY DEF ListLast, HorizonDate, date
<1>5. \A d \in Int : d \in ListDates(zone, t) <=> d >= date - EdgeDays /\ d <= date + EdgeDays + WalkDays - 1
  BY <1>1, <1>2, <1>3, DayIs
<1>6. ListLast(zone, t) \in Int /\ ListLast(zone, t) + 1 \in Int
      /\ ListLast(zone, t) + 1 >= date - EdgeDays /\ ListLast(zone, t) + 1 <= date + EdgeDays + WalkDays - 1
  BY <1>1, <1>2, <1>4, DayIs
<1>7. ListDates(zone, t) \in SUBSET Int
  BY <1>1, <1>2, <1>3
<1>. QED BY <1>1, <1>4, <1>5, <1>6, <1>7 DEF date

LEMMA ListProbeIs ==
    ASSUME NEW cron \in Expressions, NEW zone \in RealZones, NEW t \in Int, NEW p \in ListProbes(cron, zone, t)
    PROVE  /\ p.date \in ListDates(zone, t) /\ p.date \in Int /\ p.fire \in FiresOnLocalDate(cron, zone, p.date)
           /\ p.fire.at \in Int /\ Fires(cron, zone, p.fire.at) /\ p.fire.at > t
           /\ Rank[p.fire.mark] \in 0 .. 2 /\ Rank[FireOf(cron, zone, p.fire.at).mark] \in 0 .. 2
           /\ \/ p.fire = FireOf(cron, zone, p.fire.at)
              \/ /\ Rank[FireOf(cron, zone, p.fire.at).mark] < Rank[p.fire.mark]
                 /\ p.fire = [at |-> p.fire.at, mark |-> "shifted"]
           /\ EarliestPossible(p.date) <= p.fire.at /\ p.fire.at <= LatestPossible(p.date)
           /\ EarliestPossible(p.date) \in Int
<1>1. p \in Probes(cron, zone, ListDates(zone, t)) /\ p.fire.at > t /\ ListDates(zone, t) \in SUBSET Int
  BY ListDatesAre DEF ListProbes
<1>2. p.date \in ListDates(zone, t) /\ p.date \in Int
  BY <1>1, ProbeIs
<1>3. EarliestPossible(p.date) \in Int
  BY <1>2, DateSteps, DayIs DEF EarliestPossible
<1>. QED BY <1>1, <1>2, <1>3, ProbeIs

\* A firing on a date that may be visited is a probe.
LEMMA ListProbe ==
    ASSUME NEW cron \in Expressions, NEW zone \in RealZones, NEW t \in Int, NEW d \in ListDates(zone, t),
           NEW f \in FiresOnLocalDate(cron, zone, d), f.at > t
    PROVE  /\ [date |-> d, fire |-> f] \in ListProbes(cron, zone, t)
           /\ EarliestPossible(d) <= f.at
<1> DEFINE p == [date |-> d, fire |-> f]
<1>1. p \in Probes(cron, zone, ListDates(zone, t)) /\ p.date = d /\ p.fire = f
  BY DEF Probes
<1>2. p \in ListProbes(cron, zone, t)
  BY <1>1 DEF ListProbes
<1>. QED BY <1>1, <1>2, ListProbeIs

\* The instants of the list are finitely many.
LEMMA ListFinite ==
    ASSUME NEW cron \in Expressions, NEW zone \in RealZones, NEW t \in Int
    PROVE  \A A : A \subseteq {p.fire.at : p \in ListProbes(cron, zone, t)} =>
             IsFiniteSet(A) /\ Cardinality(A) \in Nat /\ A \in SUBSET Int /\ \A x \in A : t <= x
<1> DEFINE date == Date(Local(zone, t))
           end == date + EdgeDays + WalkDays
           all == {p.fire.at : p \in ListProbes(cron, zone, t)}
<1>1. end \in Int /\ end * Day \in Int
  <2>1. end \in Int
    BY ListDatesAre, EdgeIs, DayIs
  <2> HIDE DEF end
  <2>. QED BY <2>1, DateSteps
<1>2. ASSUME NEW p \in ListProbes(cron, zone, t)
      PROVE  p.fire.at \in t .. end * Day + MaxOffset + GapSearch
  <2>1. p.date \in Int /\ p.date <= end - 1 /\ p.fire.at \in Int /\ p.fire.at > t
        /\ p.fire.at <= LatestPossible(p.date)
    <3>1. p.date \in ListDates(zone, t) /\ p.date \in Int /\ p.fire.at \in Int /\ p.fire.at > t
          /\ p.fire.at <= LatestPossible(p.date)
      BY ListProbeIs
    <3>2. p.date <= date + EdgeDays + WalkDays - 1
      BY <3>1, ListDatesAre
    <3>3. date \in Int
      BY ListDatesAre
    <3> HIDE DEF date
    <3>4. p.date <= end - 1
      BY <3>1, <3>2, <3>3, EdgeIs, DayIs
    <3> HIDE DEF end
    <3>. QED BY <3>1, <3>4
  <2> HIDE DEF end
  <2>2. p.date < end
    BY <1>1, <2>1
  <2>3. p.date * Day \in Int /\ p.date * Day + Day <= end * Day
    BY <1>1, <2>1, <2>2, DateSteps
  <2>. QED BY <1>1, <2>1, <2>3, DayIs DEF LatestPossible
<1> HIDE DEF end
<1>3. IsFiniteSet(t .. end * Day + MaxOffset + GapSearch)
  BY <1>1, DayIs, FS_Interval
<1>4. ASSUME NEW A, A \subseteq all
      PROVE  IsFiniteSet(A) /\ Cardinality(A) \in Nat /\ A \in SUBSET Int /\ \A x \in A : t <= x
  <2>1. ASSUME NEW x \in A PROVE x \in t .. end * Day + MaxOffset + GapSearch
    BY <1>2, <1>4
  <2>2. A \subseteq t .. end * Day + MaxOffset + GapSearch
    BY <2>1
  <2>3. IsFiniteSet(A) /\ Cardinality(A) \in Nat
    BY <1>3, <2>2, SmallerIsFewer
  <2>. QED BY <1>1, <2>1, <2>3, DayIs
<1>. QED BY <1>4

\* A walk that reaches a date has reached the earlier ones.
LEMMA ReachedBefore ==
    ASSUME NEW cron \in Expressions, NEW zone \in RealZones, NEW t \in Int, NEW count \in Nat,
           NEW until \in SUBSET Int, NEW d \in Int, NEW e \in Int, e <= d
    PROVE  /\ EarliestPossible(e) <= EarliestPossible(d)
           /\ ListPassed(cron, zone, t, e) \subseteq ListPassed(cron, zone, t, d)
           /\ ListReached(cron, zone, t, count, until, d) => ListReached(cron, zone, t, count, until, e)
<1>1. EarliestPossible(e) \in Int /\ EarliestPossible(d) \in Int /\ EarliestPossible(e) <= EarliestPossible(d)
  BY DateSteps, DayIs DEF EarliestPossible
<1>2. ASSUME NEW x \in ListPassed(cron, zone, t, e) PROVE x \in ListPassed(cron, zone, t, d)
  <2>1. PICK p \in ListProbes(cron, zone, t) : x = p.fire.at /\ p.date < e /\ p.fire.at < EarliestPossible(e)
    BY DEF ListPassed
  <2>2. p.date < d /\ p.fire.at < EarliestPossible(d)
    <3>1. p.date \in Int /\ p.fire.at \in Int
      BY ListProbeIs
    <3>. QED BY <1>1, <2>1, <3>1
  <2>. QED BY <2>1, <2>2 DEF ListPassed
<1>3. ListPassed(cron, zone, t, d) \subseteq {p.fire.at : p \in ListProbes(cron, zone, t)}
  BY DEF ListPassed
<1>4. /\ Cardinality(ListPassed(cron, zone, t, d)) \in Nat /\ Cardinality(ListPassed(cron, zone, t, e)) \in Nat
      /\ Cardinality(ListPassed(cron, zone, t, e)) <= Cardinality(ListPassed(cron, zone, t, d))
  BY <1>2, <1>3, ListFinite, SmallerIsFewer
<1>5. ListLast(zone, t) \in Int
  BY ListDatesAre
<1>. QED BY <1>1, <1>2, <1>4, <1>5 DEF ListReached

\* What is found has an instant each, and the most truthful of each date that is reached.
LEMMA FoundIs ==
    ASSUME NEW cron \in Expressions, NEW zone \in RealZones, NEW t \in Int, NEW count \in Nat,
           NEW until \in SUBSET Int
    PROVE  LET found == ListFound(cron, zone, t, count, until)
               H     == Instants(found)
           IN  /\ \A f \in found : \E p \in ListProbes(cron, zone, t) :
                     p.fire = f /\ ListReached(cron, zone, t, count, until, p.date)
               /\ \A f, g \in found : f.at = g.at => f = g
               /\ \A p \in ListProbes(cron, zone, t) :
                     ListReached(cron, zone, t, count, until, p.date) =>
                        /\ p.fire.at \in H
                        /\ p.fire = FireOf(cron, zone, p.fire.at) => p.fire \in found
               /\ IsFiniteSet(H) /\ H \in SUBSET Int /\ \A u \in H : t <= u /\ u > t /\ Fires(cron, zone, u)
<1> DEFINE found == ListFound(cron, zone, t, count, until)
           H == Instants(found)
           held == {p.fire : p \in {q \in ListProbes(cron, zone, t) : ListReached(cron, zone, t, count, until, q.date)}}
<1>1. found = {f \in held : \A g \in held : g.at = f.at => Rank[f.mark] <= Rank[g.mark]}
  BY DEF ListFound, Record
<1>2. ASSUME NEW f \in held
      PROVE  /\ f.at \in Int /\ f.at > t /\ Fires(cron, zone, f.at)
             /\ Rank[f.mark] \in 0 .. 2 /\ Rank[FireOf(cron, zone, f.at).mark] \in 0 .. 2
             /\ \/ f = FireOf(cron, zone, f.at)
                \/ /\ Rank[FireOf(cron, zone, f.at).mark] < Rank[f.mark]
                   /\ f = [at |-> f.at, mark |-> "shifted"]
             /\ f.at \in {p.fire.at : p \in ListProbes(cron, zone, t)}
  <2>1. PICK p \in ListProbes(cron, zone, t) : f = p.fire
    OBVIOUS
  <2>. QED BY <2>1, ListProbeIs
<1>3. \A f \in found : \E p \in ListProbes(cron, zone, t) :
         p.fire = f /\ ListReached(cron, zone, t, count, until, p.date)
  BY <1>1
<1>4. \A p \in ListProbes(cron, zone, t) :
         ListReached(cron, zone, t, count, until, p.date) => p.fire \in held
  OBVIOUS
<1> HIDE DEF held, found
<1>5. ASSUME NEW f \in found, NEW g \in found, f.at = g.at PROVE f = g
  <2>1. f \in held /\ g \in held /\ Rank[f.mark] <= Rank[g.mark] /\ Rank[g.mark] <= Rank[f.mark]
    BY <1>1, <1>5
  <2>2. Rank[f.mark] = Rank[g.mark]
    BY <1>2, <2>1
  <2> DEFINE b == FireOf(cron, zone, f.at)
  <2>3. CASE f = b
    <3>1. g = b
      BY <1>2, <1>5, <2>1, <2>2, <2>3
    <3>. QED BY <2>3, <3>1
  <2>4. CASE f # b
    <3>1. f = [at |-> f.at, mark |-> "shifted"]
      BY <1>2, <2>1, <2>4
    <3>2. g # b
      BY <1>2, <2>1, <2>2, <2>4
    <3>3. g = [at |-> g.at, mark |-> "shifted"]
      BY <1>2, <1>5, <2>1, <3>2
    <3>. QED BY <1>5, <3>1, <3>3
  <2>. QED BY <2>3, <2>4
<1>6. ASSUME NEW f \in held
      PROVE  f.at \in H /\ (f = FireOf(cron, zone, f.at) => f \in found)
  <2> DEFINE S == {g \in held : g.at = f.at}
             ranks == {Rank[g.mark] : g \in S}
  <2>1. ranks \in SUBSET Nat /\ ranks # {}
    <3>1. ASSUME NEW g \in S PROVE Rank[g.mark] \in Nat
      BY <1>2
    <3>2. f \in S
      OBVIOUS
    <3>. QED BY <3>1, <3>2
  <2>2. PICK k \in ranks : \A l \in ranks : k <= l
    BY <2>1, LeastNatural
  <2>3. PICK g \in S : k = Rank[g.mark]
    BY <2>2
  <2>4. g \in found /\ g.at = f.at
    <3>1. \A h \in held : h.at = g.at => Rank[g.mark] <= Rank[h.mark]
      BY <2>2, <2>3
    <3>. QED BY <1>1, <2>3, <3>1
  <2>5. f.at \in H
    BY <2>4 DEF Instants
  <2>6. ASSUME f = FireOf(cron, zone, f.at) PROVE f \in found
    <3>1. ASSUME NEW h \in held, h.at = f.at PROVE Rank[f.mark] <= Rank[h.mark]
      BY <1>2, <2>6, <3>1
    <3>. QED BY <1>1, <3>1
  <2>. QED BY <2>5, <2>6
<1>7. \A f \in found : f \in held
  BY <1>1
<1>8. H \subseteq {p.fire.at : p \in ListProbes(cron, zone, t)}
  BY <1>2, <1>7 DEF Instants
<1>9. IsFiniteSet(H) /\ H \in SUBSET Int /\ \A u \in H : t <= u
  BY <1>8, ListFinite
<1>10. \A u \in H : u > t /\ Fires(cron, zone, u)
  BY <1>2, <1>7 DEF Instants
<1> HIDE DEF H
<1>11. \A p \in ListProbes(cron, zone, t) :
         ListReached(cron, zone, t, count, until, p.date) =>
            /\ p.fire.at \in H
            /\ p.fire = FireOf(cron, zone, p.fire.at) => p.fire \in found
  BY <1>4, <1>6
<1>. QED BY <1>3, <1>5, <1>9, <1>10, <1>11 DEF H, found

LEMMA ComingIs ==
    ASSUME NEW cron, NEW zone, NEW t \in Int
    PROVE  /\ Coming(cron, zone, t) \in SUBSET Int /\ IsFiniteSet(Coming(cron, zone, t))
           /\ \A u \in Coming(cron, zone, t) : t <= u
           /\ \A u \in Int : u \in Coming(cron, zone, t) <=> u > t /\ u < t + Reach /\ Fires(cron, zone, u)
<1>1. \A u \in Int : u \in Coming(cron, zone, t) <=> u > t /\ u < t + Reach /\ Fires(cron, zone, u)
  BY ReachIs DEF Coming
<1>2. Coming(cron, zone, t) \subseteq t + 1 .. t + Reach - 1
  BY DEF Coming
<1>3. IsFiniteSet(t + 1 .. t + Reach - 1)
  BY ReachIs, FS_Interval
<1>4. IsFiniteSet(Coming(cron, zone, t))
  BY <1>2, <1>3, SmallerIsFewer
<1>5. Coming(cron, zone, t) \in SUBSET Int /\ \A u \in Coming(cron, zone, t) : t <= u
  BY <1>2, ReachIs
<1>. QED BY <1>1, <1>4, <1>5

\* A clock put forward by no more than a day takes an instant in reach no further than
\* the horizon.
LEMMA ReachIsBeforeLast ==
    ASSUME NEW zone \in RealZones, NEW t \in Int, NEW u \in Int, u > t, u < t + Reach
    PROVE  Date(Local(zone, u)) <= ListLast(zone, t)
<1> DEFINE l == Local(zone, t)
           m == Local(zone, u)
           d == Date(l)
           e == Date(m)
           walk == WalkDays * Day
           last == d + WalkDays
<1>1. l \in Int /\ m \in Int /\ m <= l + (u - t) + Day
  BY ZoneIs, DayIs DEF Local
<1> HIDE DEF l, m
<1>2. d \in Int /\ d * Day \in Int /\ l <= d * Day + Day - 1
  <2>1. d \in Int /\ d * Day \in Int /\ Clock(l) \in 0 .. Day - 1 /\ l = d * Day + Clock(l)
    BY <1>1, DateIs DEF d
  <2> DEFINE c == Clock(l)
             p == d * Day
  <2>2. p \in Int /\ c \in 0 .. Day - 1 /\ l = p + c
    BY <2>1
  <2> HIDE DEF c, p
  <2>3. l <= p + Day - 1
    BY <2>2, DayIs
  <2>. QED BY <2>1, <2>3 DEF p
<1>3. e \in Int /\ e * Day \in Int /\ e * Day <= m
  <2>1. e \in Int /\ e * Day \in Int /\ Clock(m) \in 0 .. Day - 1 /\ m = e * Day + Clock(m)
    BY <1>1, DateIs DEF e
  <2> DEFINE c == Clock(m)
             p == e * Day
  <2>2. p \in Int /\ c \in 0 .. Day - 1 /\ m = p + c
    BY <2>1
  <2> HIDE DEF c, p
  <2>3. p <= m
    BY <2>2, DayIs
  <2>. QED BY <2>1, <2>3 DEF p
<1>4. WalkDays \in Int /\ walk \in Int /\ Reach = walk - Day
  BY DayIs, ReachIs
<1> HIDE DEF d, e
<1>5. last \in Int /\ last * Day = d * Day + walk
  BY <1>2, <1>4, DateSteps
<1> HIDE DEF last
<1>6. last < e => last * Day + Day <= e * Day
  BY <1>3, <1>5, DateSteps
<1> HIDE DEF walk
<1>7. e <= last
  BY <1>1, <1>2, <1>3, <1>4, <1>5, <1>6, DayIs
<1>8. ListLast(zone, t) = last
  BY DEF ListLast, HorizonDate, last, d, l
<1>. QED BY <1>7, <1>8 DEF e, m

\* Each of the first count of the firings in reach is found.
LEMMA NearFound ==
    ASSUME NEW cron \in Expressions, NEW zone \in RealZones, NEW t \in Int, NEW count \in Nat,
           NEW u \in Coming(cron, zone, t), Cardinality(Below(Coming(cron, zone, t), u)) < count
    PROVE  FireOf(cron, zone, u) \in ListFound(cron, zone, t, count, {})
<1> DEFINE f == FireOf(cron, zone, u)
           passed(d) == ListPassed(cron, zone, t, d)
<1>1. u \in Int /\ u > t /\ u < t + Reach /\ Fires(cron, zone, u)
  BY ComingIs
<1>2. PICK d \in Int : f \in FiresOnLocalDate(cron, zone, d) /\ d <= Date(Local(zone, u))
  BY <1>1, DateOfFire
<1>3. f.at = u
  BY FireOfAt
<1> HIDE DEF f
<1>4. d \in ListDates(zone, t)
  <2>1. d >= Date(Local(zone, t)) - EdgeDays
    BY <1>1, <1>2, <1>3, DatesOfNear
  <2>2. d <= Date(Local(zone, t)) - EdgeDays + MaxDateSteps - 1
    BY <1>1, <1>2, <1>3, DatesOfNear, ReachIs, EdgeIs, ListDatesAre
  <2>3. ListFrom(zone, t) = Date(Local(zone, t)) - EdgeDays /\ ListFrom(zone, t) \in Int /\ MaxDateSteps \in Int
    BY ListDatesAre, EdgeIs, DayIs DEF ListFrom, MaxDateSteps
  <2>4. ListFrom(zone, t) <= d /\ d <= ListFrom(zone, t) + MaxDateSteps - 1
    BY <2>1, <2>2, <2>3
  <2>. QED BY <1>2, <2>3, <2>4 DEF ListDates
<1>5. [date |-> d, fire |-> f] \in ListProbes(cron, zone, t) /\ EarliestPossible(d) <= u
  BY <1>1, <1>2, <1>3, <1>4, ListProbe
<1>6. d <= ListLast(zone, t)
  <2>1. Date(Local(zone, u)) <= ListLast(zone, t)
    BY <1>1, ReachIsBeforeLast
  <2>2. Date(Local(zone, u)) \in Int /\ ListLast(zone, t) \in Int
    BY <1>1, LocalIs, DateIs, ListDatesAre
  <2>. QED BY <1>2, <2>1, <2>2
<1>7. Cardinality(passed(d)) < count
  <2>1. ASSUME NEW x \in passed(d) PROVE x \in Below(Coming(cron, zone, t), u)
    <3>1. PICK p \in ListProbes(cron, zone, t) : x = p.fire.at /\ p.fire.at < EarliestPossible(d)
      BY DEF ListPassed
    <3>2. x \in Int /\ x > t /\ Fires(cron, zone, x)
      BY <3>1, ListProbeIs
    <3>3. EarliestPossible(d) \in Int
      BY <1>2, DateSteps, DayIs DEF EarliestPossible
    <3>4. x < u
      BY <1>1, <1>5, <3>1, <3>2, <3>3
    <3>5. x < t + Reach
      BY <1>1, <3>2, <3>4, ReachIs
    <3>. QED BY <3>2, <3>4, <3>5, ComingIs DEF Below
  <2>2. IsFiniteSet(Below(Coming(cron, zone, t), u))
    BY <1>1, ComingIs, BelowIs
  <2>3. passed(d) \subseteq Below(Coming(cron, zone, t), u)
    BY <2>1
  <2> HIDE DEF passed
  <2>4. /\ Cardinality(passed(d)) \in Nat /\ Cardinality(Below(Coming(cron, zone, t), u)) \in Nat
        /\ Cardinality(passed(d)) <= Cardinality(Below(Coming(cron, zone, t), u))
    BY <2>2, <2>3, SmallerIsFewer
  <2>. QED BY <2>4
<1>8. ListReached(cron, zone, t, count, {}, d)
  BY <1>6, <1>7 DEF ListReached
<1> DEFINE p == [date |-> d, fire |-> f]
<1>9. p \in ListProbes(cron, zone, t) /\ p.date = d /\ p.fire = f /\ p.fire = FireOf(cron, zone, p.fire.at)
  BY <1>3, <1>5 DEF f
<1> HIDE DEF p
<1>10. {} \in SUBSET Int
  OBVIOUS
<1>11. p.fire \in ListFound(cron, zone, t, count, {})
  BY <1>8, <1>9, <1>10, FoundIs
<1>. QED BY <1>9, <1>11 DEF f

LEMMA NoneAsked ==
    ASSUME NEW cron, NEW zone, NEW t \in Int
    PROVE  ExactList(cron, zone, t, 0)
<1> DEFINE coming == Coming(cron, zone, t)
<1>1. FiresAfter(cron, zone, t, 0, {}).fires = {}
  BY DEF FiresAfter
<1>2. ASSUME NEW v \in coming PROVE ~(Cardinality({w \in coming : w < v}) < 0)
  <2>1. v \in Int /\ coming \in SUBSET Int /\ IsFiniteSet(coming)
    BY ComingIs
  <2>2. Cardinality(Below(coming, v)) \in Nat
    BY <2>1, BelowIs
  <2>. QED BY <2>2 DEF Below
<1> HIDE DEF coming
<1>3. {v \in coming : Cardinality({w \in coming : w < v}) < 0} = {}
  BY <1>2
<1>4. Cardinality({}) <= 0
  BY FS_EmptySet
<1>. QED BY <1>1, <1>3, <1>4 DEF ExactList, coming

\* Of the firings in reach, the list in a named zone has exactly the first count, each
\* with its marker; it has no more than count, and none that is not one.
THEOREM NamedListIsExact ==
    ASSUME NEW cron \in Expressions, NEW zone \in RealZones, zone.utc = FALSE, NEW t \in Int, NEW count \in Nat
    PROVE  ExactList(cron, zone, t, count)
<1> DEFINE coming == Coming(cron, zone, t)
           found == ListFound(cron, zone, t, count, {})
           H == Instants(found)
           fires == FiresAfter(cron, zone, t, count, {}).fires
<1>1. CASE count = 0
  BY <1>1, NoneAsked
<1>2. CASE count # 0
  <2>1. fires = Take(count, found)
    BY <1>2, ListIs
  <2>2. /\ \A f \in found : \E p \in ListProbes(cron, zone, t) : p.fire = f
        /\ \A f, g \in found : f.at = g.at => f = g
        /\ IsFiniteSet(H) /\ H \in SUBSET Int /\ \A u \in H : t <= u /\ u > t /\ Fires(cron, zone, u)
    <3>1. {} \in SUBSET Int
      OBVIOUS
    <3>. QED BY <3>1, FoundIs
  <2>3. \A u \in coming : Cardinality(Below(coming, u)) < count => FireOf(cron, zone, u) \in found
    BY NearFound
  <2>4. /\ coming \in SUBSET Int /\ IsFiniteSet(coming) /\ \A u \in coming : t <= u
        /\ \A u \in Int : u \in coming <=> u > t /\ u < t + Reach /\ Fires(cron, zone, u)
    BY ComingIs
  <2>5. \A f : f \in fires <=> f \in found /\ f.at \in FirstOf(count, H)
    BY <2>1, TakeIs
  <2>6. \A f \in found : f.at \in H
    BY DEF Instants
  <2> HIDE DEF coming, found, H, fires
  <2>7. FirstOf(count, H) \subseteq H /\ IsFiniteSet(FirstOf(count, H)) /\ Cardinality(FirstOf(count, H)) <= count
    BY <2>2, FirstIs
  <2>8. Cardinality(fires) <= count
    <3>1. Instants(fires) = FirstOf(count, H)
      BY <2>1, TakeIs DEF H
    <3>2. \A f, g \in fires : f.at = g.at => f = g
      BY <2>2, <2>5
    <3>3. Cardinality(fires) = Cardinality(Instants(fires))
      BY <2>7, <3>1, <3>2, FiresCount
    <3>. QED BY <2>7, <3>1, <3>3
  <2>9. \A f \in fires : f.at > t /\ Fires(cron, zone, f.at)
    BY <2>2, <2>5, <2>6
  <2>10. ASSUME NEW u \in coming, Cardinality(Below(coming, u)) < count
         PROVE  FireOf(cron, zone, u) \in fires /\ u < t + Reach
    <3>1. FireOf(cron, zone, u) \in found /\ FireOf(cron, zone, u).at = u /\ u \in H /\ u \in Int
      BY <2>3, <2>4, <2>6, <2>10, FireOfAt
    <3>2. Below(H, u) \subseteq Below(coming, u)
      <4>1. ASSUME NEW x \in Below(H, u) PROVE x \in Below(coming, u)
        <5>1. x \in H /\ x < u /\ x \in Int /\ x > t /\ Fires(cron, zone, x)
          BY <2>2 DEF Below
        <5>2. x < t + Reach
          BY <2>4, <3>1, <5>1, ReachIs
        <5>. QED BY <2>4, <5>1, <5>2 DEF Below
      <4>. QED BY <4>1
    <3>3. /\ Cardinality(Below(H, u)) <= Cardinality(Below(coming, u))
          /\ Cardinality(Below(H, u)) \in Nat /\ Cardinality(Below(coming, u)) \in Nat
      BY <2>4, <3>1, <3>2, BelowIs, SmallerIsFewer
    <3>4. Cardinality(Below(H, u)) < count
      BY <2>10, <3>3
    <3>5. u \in FirstOf(count, H)
      BY <3>1, <3>4 DEF FirstOf
    <3>6. u < t + Reach
      BY <2>4, <3>1
    <3>. QED BY <2>5, <3>1, <3>5, <3>6
  <2>11. ASSUME NEW f \in fires, f.at < t + Reach
         PROVE  f.at \in coming /\ Cardinality(Below(coming, f.at)) < count /\ f = FireOf(cron, zone, f.at)
    <3> DEFINE u == f.at
    <3>1. f \in found /\ u \in H /\ u \in Int /\ u \in FirstOf(count, H) /\ u \in coming
      BY <2>2, <2>4, <2>5, <2>6, <2>11
    <3>2. Cardinality(Below(coming, u)) \in Nat /\ Cardinality(Below(H, u)) \in Nat
          /\ Cardinality(Below(H, u)) < count /\ IsFiniteSet(Below(H, u))
      BY <2>2, <2>4, <3>1, BelowIs DEF FirstOf
    <3>3. ASSUME count <= Cardinality(Below(coming, u)) PROVE FALSE
      <4>1. Cardinality(Below(FirstOf(count, coming), u)) = count
        BY <2>4, <3>1, <3>3, FirstReach
      <4>2. Below(FirstOf(count, coming), u) \subseteq Below(H, u)
        <5>1. ASSUME NEW x \in Below(FirstOf(count, coming), u) PROVE x \in Below(H, u)
          <6>1. x \in coming /\ Cardinality(Below(coming, x)) < count /\ x < u
            BY DEF Below, FirstOf
          <6>2. FireOf(cron, zone, x) \in found /\ FireOf(cron, zone, x).at = x
            BY <2>3, <6>1, FireOfAt
          <6>3. x \in H
            BY <2>6, <6>2
          <6>. QED BY <6>1, <6>3 DEF Below
        <5>. QED BY <5>1
      <4>3. Cardinality(Below(FirstOf(count, coming), u)) <= Cardinality(Below(H, u))
        BY <3>2, <4>2, SmallerIsFewer
      <4>. QED BY <3>2, <4>1, <4>3
    <3>4. Cardinality(Below(coming, u)) < count
      BY <3>2, <3>3
    <3>5. FireOf(cron, zone, u) \in found /\ FireOf(cron, zone, u).at = u
      BY <2>3, <3>1, <3>4, FireOfAt
    <3>6. f = FireOf(cron, zone, u)
      BY <2>2, <3>1, <3>5
    <3>. QED BY <3>1, <3>4, <3>6
  <2>12. {f \in fires : f.at < t + Reach}
           = {FireOf(cron, zone, u) : u \in {v \in coming : Cardinality({w \in coming : w < v}) < count}}
    <3>1. \A v : Below(coming, v) = {w \in coming : w < v}
      BY DEF Below
    <3>2. \A u \in coming : FireOf(cron, zone, u).at = u
      BY FireOfAt
    <3>3. ASSUME NEW g, g \in {f \in fires : f.at < t + Reach}
          PROVE  g \in {FireOf(cron, zone, u) : u \in {v \in coming : Cardinality({w \in coming : w < v}) < count}}
      BY <2>11, <3>1, <3>3
    <3>4. ASSUME NEW u \in coming, Cardinality({w \in coming : w < u}) < count
          PROVE  FireOf(cron, zone, u) \in {f \in fires : f.at < t + Reach}
      BY <2>10, <3>1, <3>2, <3>4
    <3>. QED BY <3>3, <3>4
  <2>. QED BY <2>8, <2>9, <2>12 DEF ExactList, coming, fires
<1>. QED BY <1>1, <1>2

(***************************************************************************)
(* The list of firings without a zone                                      *)
(***************************************************************************)

\* The walk of UtcList, piece by piece: the firings up to the horizon, the one before an
\* instant, whether the walk goes on from it, and the firings it finds.
AheadUntil(t) == HorizonDate(Date(t)) * Day + Day - 1
Ahead(cron, t) == {u \in t + 1 .. AheadUntil(t) : Matches(cron, u)}
FireBefore(cron, t, v) == Greatest({t} \cup Below(Ahead(cron, t), v))
OpenAt(until, t, c) == c = t \/ \A v \in until : c < v
FoundFrom(cron, t, until, v) ==
    \A c \in FireBefore(cron, t, v) : OpenAt(until, t, c) /\ At(v) \in UtcAfter(cron, c)
UtcListed(cron, t, count, until) ==
    {u \in Ahead(cron, t) : /\ \A v \in Ahead(cron, t) : v <= u => FoundFrom(cron, t, until, v)
                            /\ Cardinality(Below(Ahead(cron, t), u)) < count}
CutAfter(cron, t, count, until) ==
    /\ Cardinality(UtcListed(cron, t, count, until)) < count
    /\ \A c \in Greatest({t} \cup UtcListed(cron, t, count, until)) :
          OpenAt(until, t, c) /\ \E f \in UtcAfter(cron, c) : Date(f.at) > HorizonDate(Date(t))

LEMMA UtcListIs ==
    ASSUME NEW cron, NEW zone, zone.utc = TRUE, NEW t, NEW count \in Nat \ {0}, NEW until
    PROVE  /\ FiresAfter(cron, zone, t, count, until).fires = {At(u) : u \in UtcListed(cron, t, count, until)}
           /\ FiresAfter(cron, zone, t, count, until).cut <=> CutAfter(cron, t, count, until)
<1> DEFINE fires == {At(u) : u \in UtcListed(cron, t, count, until)}
           cut == CutAfter(cron, t, count, until)
<1>1. FiresAfter(cron, zone, t, count, until) = UtcList(cron, t, count, until)
  BY DEF FiresAfter
<1>2. UtcList(cron, t, count, until) = [fires |-> fires, cut |-> cut]
  BY DEF UtcList, UtcListed, FoundFrom, FireBefore, OpenAt, Ahead, AheadUntil, Below, CutAfter
<1> HIDE DEF fires, cut
<1>3. FiresAfter(cron, zone, t, count, until).fires = fires /\ FiresAfter(cron, zone, t, count, until).cut = cut
  BY <1>1, <1>2
<1>. QED BY <1>3 DEF fires, cut

LEMMA AheadIs ==
    ASSUME NEW cron \in Expressions, NEW t \in Int
    PROVE  /\ Ahead(cron, t) \in SUBSET Int /\ IsFiniteSet(Ahead(cron, t))
           /\ \A u \in Ahead(cron, t) : t <= u
           /\ \A u \in Int : u \in Ahead(cron, t) <=>
                                u > t /\ Date(u) <= HorizonDate(Date(t)) /\ Matches(cron, u)
<1> DEFINE last == HorizonDate(Date(t))
           w == last * Day
<1>1. last \in Int
  BY DateIs, DayIs DEF HorizonDate
<1> HIDE DEF last
<1>2. w \in Int /\ AheadUntil(t) = w + Day - 1
  BY <1>1, DateSteps DEF AheadUntil, last
<1>3. ASSUME NEW u \in Int PROVE Date(u) <= last <=> u <= w + Day - 1
  <2> DEFINE d == Date(u)
             c == Clock(u)
             e == d * Day
  <2>1. d \in Int /\ e \in Int /\ c \in 0 .. Day - 1 /\ u = e + c
    BY DateIs
  <2>2. (d <= last => e <= w) /\ (last < d => w + Day <= e)
    BY <1>1, <2>1, DateSteps
  <2> HIDE DEF d, c, e, w
  <2>3. d <= last <=> u <= w + Day - 1
    BY <1>1, <1>2, <2>1, <2>2, DayIs
  <2>. QED BY <2>3 DEF d, w
<1> HIDE DEF w
<1>4. \A u \in Int : u \in Ahead(cron, t) <=> u > t /\ Date(u) <= last /\ Matches(cron, u)
  <2>1. ASSUME NEW u \in Int PROVE u \in Ahead(cron, t) <=> u > t /\ u <= w + Day - 1 /\ Matches(cron, u)
    BY <1>2, DayIs DEF Ahead
  <2>. QED BY <1>3, <2>1
<1>5. AheadUntil(t) \in Int /\ Ahead(cron, t) \subseteq t + 1 .. AheadUntil(t)
  BY <1>2, DayIs DEF Ahead
<1>6. IsFiniteSet(Ahead(cron, t))
  <2>1. IsFiniteSet(t + 1 .. AheadUntil(t))
    BY <1>5, FS_Interval
  <2>. QED BY <1>5, <2>1, SmallerIsFewer
<1>7. Ahead(cron, t) \in SUBSET Int /\ \A u \in Ahead(cron, t) : t <= u
  BY <1>5
<1>. QED BY <1>4, <1>6, <1>7 DEF last

\* One instant comes last before another: the walk's own, or a firing.
LEMMA FireBeforeIs ==
    ASSUME NEW cron \in Expressions, NEW t \in Int, NEW v \in Int, v > t
    PROVE  \E c \in Int : /\ FireBefore(cron, t, v) = {c}
                          /\ c = t \/ (c \in Ahead(cron, t) /\ c < v)
                          /\ t <= c /\ c < v
                          /\ \A x \in Ahead(cron, t) : x < v => x <= c
<1> DEFINE S == {t} \cup Below(Ahead(cron, t), v)
<1>1. Ahead(cron, t) \in SUBSET Int /\ \A u \in Ahead(cron, t) : t <= u
  BY AheadIs
<1>2. S \in SUBSET Int /\ S # {} /\ \A x \in S : x <= v
  BY <1>1 DEF Below
<1>3. PICK c \in S : Greatest(S) = {c} /\ \A x \in S : x <= c
  BY ZenonT(60), <1>2, GreatestIs
<1>4. c \in Int /\ (c = t \/ (c \in Ahead(cron, t) /\ c < v)) /\ t <= c /\ c < v
  BY <1>1, <1>3 DEF Below
<1>5. \A x \in Ahead(cron, t) : x < v => x <= c
  BY <1>3 DEF Below
<1>. QED BY <1>3, <1>4, <1>5 DEF FireBefore

\* A firing is found from the one before it, when there is one in its reach.
LEMMA FoundNext ==
    ASSUME NEW cron \in Expressions, NEW zone \in RealZones, zone.utc = TRUE, NEW t \in Int, NEW until,
           NEW v \in Ahead(cron, t),
           \A c \in FireBefore(cron, t, v) : OpenAt(until, t, c) /\ Coming(cron, zone, c) # {}
    PROVE  FoundFrom(cron, t, until, v)
<1>1. v \in Int /\ v > t /\ Date(v) <= HorizonDate(Date(t)) /\ Matches(cron, v)
  BY AheadIs
<1>2. PICK c \in Int : /\ FireBefore(cron, t, v) = {c} /\ t <= c /\ c < v
                       /\ \A x \in Ahead(cron, t) : x < v => x <= c
  BY <1>1, FireBeforeIs
<1>3. OpenAt(until, t, c) /\ Coming(cron, zone, c) # {}
  BY <1>2
<1>4. PICK u \in Coming(cron, zone, c) :
        /\ u \in Int /\ u > c /\ u < c + Reach /\ Fires(cron, zone, u)
        /\ \A x \in Int : x > c /\ Fires(cron, zone, x) => u <= x
  BY <1>3, ComingFirst
<1>5. Matches(cron, u) /\ \A x \in Int : x > c /\ Matches(cron, x) => u <= x
  BY <1>4, UtcIs
<1>6. u <= v
  BY <1>1, <1>2, <1>5
<1>7. Date(u) <= HorizonDate(Date(t))
  <2>1. Date(u) <= Date(v) /\ Date(u) \in Int /\ Date(v) \in Int /\ HorizonDate(Date(t)) \in Int
    BY <1>1, <1>4, <1>6, DatesGrow, DateIs, DayIs DEF HorizonDate
  <2>. QED BY <1>1, <2>1
<1>8. u \in Ahead(cron, t)
  <2>1. u > t
    BY <1>2, <1>4
  <2>. QED BY <1>4, <1>5, <1>7, <2>1, AheadIs
<1>9. u = v
  BY <1>1, <1>2, <1>4, <1>6, <1>8
<1>10. UtcAfter(cron, c) = {At(u)}
  <2>1. Date(u) < Date(c) + WalkDays
    BY <1>4, UtcReach
  <2>. QED BY <1>4, <1>5, <2>1, UtcFirst
<1>. QED BY <1>2, <1>3, <1>9, <1>10 DEF FoundFrom

LEMMA AtIs == \A u : At(u).at = u
BY DEF At

\* Of the firings in reach, the list without a zone has exactly the first count; it has
\* no more than count, and none that is not one.
THEOREM UtcListIsExact ==
    ASSUME NEW cron \in Expressions, NEW zone \in RealZones, zone.utc = TRUE, NEW t \in Int, NEW count \in Nat
    PROVE  ExactList(cron, zone, t, count)
<1> DEFINE coming == Coming(cron, zone, t)
           ahead == Ahead(cron, t)
           listed == UtcListed(cron, t, count, {})
           fires == FiresAfter(cron, zone, t, count, {}).fires
<1>1. CASE count = 0
  BY <1>1, NoneAsked
<1>2. CASE count # 0
  <2>1. fires = {At(u) : u \in listed}
    <3>1. count \in Nat \ {0}
      BY <1>2
    <3> HIDE DEF fires, listed
    <3>2. \A until : FiresAfter(cron, zone, t, count, until).fires
                       = {At(u) : u \in UtcListed(cron, t, count, until)}
      BY <3>1, UtcListIs
    <3>. QED BY <3>2 DEF fires, listed
  <2>2. /\ ahead \in SUBSET Int /\ IsFiniteSet(ahead) /\ \A u \in ahead : t <= u
        /\ \A u \in Int : u \in ahead <=> u > t /\ Date(u) <= HorizonDate(Date(t)) /\ Matches(cron, u)
    BY AheadIs
  <2>3. /\ coming \in SUBSET Int /\ IsFiniteSet(coming) /\ \A u \in coming : t <= u
        /\ \A u \in Int : u \in coming <=> u > t /\ u < t + Reach /\ Fires(cron, zone, u)
    BY ComingIs
  <2>4. listed = {u \in ahead : /\ \A v \in ahead : v <= u => FoundFrom(cron, t, {}, v)
                                /\ Cardinality(Below(ahead, u)) < count}
    BY DEF UtcListed
  <2>5. coming \subseteq ahead
    <3>1. ASSUME NEW u \in coming PROVE u \in ahead
      <4>1. u \in Int /\ u > t /\ u < t + Reach /\ Matches(cron, u)
        BY <2>3, UtcIs
      <4>2. Date(u) < Date(t) + WalkDays /\ Date(u) \in Int /\ Date(t) \in Int
        BY <4>1, UtcReach, DateIs
      <4>3. Date(u) <= HorizonDate(Date(t))
        BY <4>2, DayIs DEF HorizonDate
      <4>. QED BY <2>2, <4>1, <4>3
    <3>. QED BY <3>1
  <2>6. \A u \in ahead : u < t + Reach => u \in coming
    BY <2>2, <2>3, UtcIs
  <2>7. ASSUME NEW v \in ahead, v < t + Reach PROVE FoundFrom(cron, t, {}, v)
    <3>1. v \in Int /\ v > t /\ Matches(cron, v)
      BY <2>2
    <3>2. PICK c \in Int : FireBefore(cron, t, v) = {c} /\ t <= c /\ c < v
      BY <3>1, FireBeforeIs
    <3>3. v \in Coming(cron, zone, c)
      <4>1. v > c /\ v < c + Reach
        BY <2>7, <3>1, <3>2, ReachIs
      <4>. QED BY <3>1, <4>1, UtcIs, ComingIs
    <3>4. OpenAt({}, t, c) /\ Coming(cron, zone, c) # {}
      BY <3>3 DEF OpenAt
    <3> HIDE DEF ahead
    <3>. QED BY <2>7, <3>2, <3>4, FoundNext DEF ahead
  <2> HIDE DEF coming, ahead, listed, fires
  <2>8. FirstOf(count, ahead) \subseteq ahead /\ IsFiniteSet(FirstOf(count, ahead))
        /\ Cardinality(FirstOf(count, ahead)) <= count /\ Cardinality(FirstOf(count, ahead)) \in Nat
    BY <2>2, FirstIs
  <2>9. Cardinality(fires) <= count
    <3>1. listed \subseteq FirstOf(count, ahead)
      BY <2>4 DEF FirstOf
    <3>2. Instants(fires) = listed
      BY <2>1, AtIs DEF Instants
    <3>3. \A f, g \in fires : f.at = g.at => f = g
      BY <2>1, AtIs
    <3>4. IsFiniteSet(listed) /\ Cardinality(listed) \in Nat /\ Cardinality(listed) <= Cardinality(FirstOf(count, ahead))
      BY <2>8, <3>1, SmallerIsFewer
    <3>5. Cardinality(fires) = Cardinality(listed)
      BY <3>2, <3>3, <3>4, FiresCount
    <3>. QED BY <2>8, <3>4, <3>5
  <2>10. \A f \in fires : f.at > t /\ Fires(cron, zone, f.at)
    <3>1. ASSUME NEW f \in fires PROVE f.at > t /\ Fires(cron, zone, f.at)
      <4>1. PICK u \in ahead : f = At(u)
        BY <2>1, <2>4
      <4>2. u \in Int /\ u > t /\ Matches(cron, u) /\ f.at = u
        BY <2>2, <4>1, AtIs
      <4>. QED BY <4>2, UtcIs
    <3>. QED BY <3>1
  <2>11. ASSUME NEW u \in coming
         PROVE  /\ u \in ahead /\ u \in Int /\ u < t + Reach /\ FireOf(cron, zone, u) = At(u)
                /\ Below(coming, u) = Below(ahead, u)
    <3>1. u \in ahead /\ u \in Int /\ u < t + Reach /\ FireOf(cron, zone, u) = At(u)
      BY <2>3, <2>5, UtcIs
    <3>2. ASSUME NEW x \in Below(ahead, u) PROVE x \in coming /\ x < u
      <4>1. x \in ahead /\ x \in Int /\ x < u
        BY <2>2 DEF Below
      <4>2. x < t + Reach
        BY <3>1, <4>1, ReachIs
      <4>. QED BY <2>6, <4>1, <4>2
    <3>3. Below(coming, u) = Below(ahead, u)
      BY <2>5, <3>2 DEF Below
    <3>. QED BY <3>1, <3>3
  <2>12. ASSUME NEW u \in coming, Cardinality(Below(coming, u)) < count
         PROVE  u \in listed
    <3>1. ASSUME NEW v \in ahead, v <= u PROVE FoundFrom(cron, t, {}, v)
      <4>1. v < t + Reach
        BY <2>2, <2>11, <3>1, ReachIs
      <4>. QED BY <2>7, <4>1
    <3>. QED BY <2>4, <2>11, <2>12, <3>1
  <2>13. ASSUME NEW u \in listed, u < t + Reach
         PROVE  u \in coming /\ Cardinality(Below(coming, u)) < count
    BY <2>4, <2>6, <2>11, <2>13
  <2>14. {f \in fires : f.at < t + Reach}
           = {FireOf(cron, zone, u) : u \in {v \in coming : Cardinality({w \in coming : w < v}) < count}}
    <3>1. \A v : Below(coming, v) = {w \in coming : w < v}
      BY DEF Below
    <3>2. ASSUME NEW g \in fires, g.at < t + Reach
          PROVE  g \in {FireOf(cron, zone, u) : u \in {v \in coming : Cardinality({w \in coming : w < v}) < count}}
      <4>1. PICK u \in listed : g = At(u) /\ g.at = u
        BY <2>1, AtIs
      <4>2. u \in coming /\ Cardinality(Below(coming, u)) < count /\ g = FireOf(cron, zone, u)
        BY <2>11, <2>13, <3>2, <4>1
      <4>. QED BY <3>1, <4>2
    <3>3. ASSUME NEW u \in coming, Cardinality({w \in coming : w < u}) < count
          PROVE  FireOf(cron, zone, u) \in {f \in fires : f.at < t + Reach}
      <4>1. u \in listed /\ FireOf(cron, zone, u) = At(u) /\ At(u).at = u /\ u < t + Reach
        BY <2>11, <2>12, <3>1, <3>3, AtIs
      <4>. QED BY <2>1, <4>1
    <3>. QED BY <3>2, <3>3
  <2>. QED BY <2>9, <2>10, <2>14 DEF ExactList, coming, fires
<1>. QED BY <1>1, <1>2

\* The list of firings, whatever the zone.
THEOREM ListIsExact ==
    ASSUME NEW cron \in Expressions, NEW zone \in RealZones, NEW t \in Int, NEW count \in Nat
    PROVE  ExactList(cron, zone, t, count)
BY UtcOrNamed, UtcListIsExact, NamedListIsExact

\* At every instant a schedule lives, and for every expression and zone, the walks find
\* exactly the firings that are wanted (cadence.rs, fire_at_or_before, fire_after and
\* fires_after_bounded).
THEOREM WalksFound == Spec => []WalksAreExact
<1>1. ASSUME NEW t \in CreatedAt .. Horizon PROVE Exact[t]
  <2>1. t \in Int
    BY TimeAssumption
  <2>2. ASSUME NEW cron \in Crons, NEW zone \in Zones
        PROVE  /\ ExactBack(cron, zone, t) /\ ExactOn(cron, zone, t)
               /\ \A count \in Caps : ExactList(cron, zone, t, count)
    <3>1. cron \in Expressions /\ zone \in RealZones /\ Caps \subseteq Nat
      BY CadenceAssumption
    <3>. QED BY <2>1, <3>1, BackIsExact, OnIsExact, ListIsExact
  <2>. QED BY <2>2 DEF Exact
<1>2. TypeOK => WalksAreExact
  BY <1>1 DEF TypeOK, WalksAreExact
<1>3. IInv => TypeOK
  BY DEF IInv
<1>. QED BY <1>2, <1>3, InvariantHolds, PTL

(***************************************************************************)
(* The count of the skipped slots                                          *)
(***************************************************************************)

\* When the firings between two instants can be missed without a word: neither zone may.
Sure(cron, zone, after, before) ==
    IF zone.utc THEN Followed(cron, zone, after, before) ELSE HorizonSettled(zone, after)

\* What is left to show of a walk: unless it is at the cap or at the horizon, it has every
\* firing before the window ends.
LEMMA HonestWhen ==
    ASSUME NEW cron, NEW zone, NEW after \in Int, NEW before \in Int, NEW cap \in Nat,
           NEW fires, NEW cut,
           FiresAfter(cron, zone, after, cap + 1, {before}).fires = fires,
           FiresAfter(cron, zone, after, cap + 1, {before}).cut = cut,
           \A f, g \in fires : f.at = g.at => f = g,
           \A f \in fires : f.at \in Int /\ f.at > after /\ Fires(cron, zone, f.at),
           ( /\ Sure(cron, zone, after, before)
             /\ Cardinality(Below(Instants(fires), before)) <= cap
             /\ ~(cut /\ \A f \in fires : f.at < before) )
             => Between(cron, zone, after, before) \subseteq Instants(fires)
    PROVE  Honest(cron, zone, after, before, cap)
<1> DEFINE skipped == {f \in fires : f.at < before}
           S == Instants(skipped)
           B == Between(cron, zone, after, before)
           n == Cardinality(skipped)
           answer == SkippedSlots(cron, zone, after, before, cap)
<1>1. S = Below(Instants(fires), before)
  BY DEF Below, Instants
<1>2. S \subseteq B
  <2>1. ASSUME NEW f \in fires, f.at < before PROVE f.at \in B
    <3>1. f.at \in after + 1 .. before - 1
      BY <2>1
    <3>. QED BY <3>1, <2>1 DEF Between
  <2>. QED BY <2>1 DEF Instants
<1>3. IsFiniteSet(B) /\ B \subseteq Int
  <2>1. B \subseteq after + 1 .. before - 1
    BY DEF Between
  <2>2. IsFiniteSet(after + 1 .. before - 1)
    BY FS_Interval
  <2>3. IsFiniteSet(B)
    BY <2>1, <2>2, SmallerIsFewer
  <2>. QED BY <2>1, <2>3
<1>4. /\ IsFiniteSet(S) /\ Cardinality(S) \in Nat /\ Cardinality(B) \in Nat
      /\ Cardinality(S) <= Cardinality(B)
  BY <1>2, <1>3, SmallerIsFewer
<1>5. n = Cardinality(S)
  <2>1. \A f, g \in skipped : f.at = g.at => f = g
    OBVIOUS
  <2> HIDE DEF skipped
  <2>. QED BY <1>4, <2>1, FiresCount
<1>6. /\ answer.count = (IF n > cap THEN cap ELSE n)
      /\ answer.capped <=> n > cap
      /\ answer.horizon <=> n <= cap /\ skipped = fires /\ cut
  <2> DEFINE walk == FiresAfter(cron, zone, after, cap + 1, {before})
  <2>1. answer = [count   |-> IF Cardinality({f \in walk.fires : f.at < before}) > cap THEN cap
                              ELSE Cardinality({f \in walk.fires : f.at < before}),
                  capped  |-> Cardinality({f \in walk.fires : f.at < before}) > cap,
                  horizon |-> /\ Cardinality({f \in walk.fires : f.at < before}) <= cap
                              /\ {f \in walk.fires : f.at < before} = walk.fires /\ walk.cut]
    BY DEF SkippedSlots, Skipped
  <2>2. walk.fires = fires /\ walk.cut = cut
    OBVIOUS
  <2> HIDE DEF walk, answer
  <2>3. answer = [count   |-> IF n > cap THEN cap ELSE n,
                  capped  |-> n > cap,
                  horizon |-> n <= cap /\ skipped = fires /\ cut]
    BY <2>1, <2>2
  <2> HIDE DEF skipped, n
  <2>. QED BY <2>3
<1>7. skipped = fires <=> \A f \in fires : f.at < before
  OBVIOUS
<1>8. ASSUME Sure(cron, zone, after, before), n <= cap, ~(skipped = fires /\ cut)
      PROVE  n = Cardinality(B)
  <2>1. B \subseteq Instants(fires)
    <3> HIDE DEF skipped, S, n
    <3>. QED BY <1>1, <1>5, <1>7, <1>8
  <2>2. B \subseteq S
    <3>1. ASSUME NEW b \in B PROVE b \in Below(Instants(fires), before)
      <4>1. b \in Int /\ b < before
        BY DEF Between
      <4>. QED BY <2>1, <4>1 DEF Below
    <3>. QED BY <1>1, <3>1
  <2>3. B = S
    BY <1>2, <2>2
  <2>. QED BY <1>5, <2>3
<1>9. n \in Nat
  BY <1>4, <1>5
<1> HIDE DEF skipped, S, B, n, answer
<1>10. answer.count <= Cardinality(B)
  BY <1>4, <1>5, <1>6
<1>11. answer.capped => answer.count = cap /\ cap < Cardinality(B)
  BY <1>4, <1>5, <1>6
<1>12. Sure(cron, zone, after, before) => answer.capped \/ answer.horizon \/ answer.count = Cardinality(B)
  BY <1>6, <1>8, <1>9
<1>. QED BY <1>10, <1>11, <1>12 DEF Honest, Sure, B, answer

\* Where dates and instants come in the same order at the horizon, no firing on a date
\* after it comes before one on a date before it.
LEMMA LaterDatesAreLater ==
    ASSUME NEW cron \in Expressions, NEW zone \in RealZones, NEW after \in Int,
           HorizonSettled(zone, after), NEW d \in Int, NEW e \in Int,
           e <= ListLast(zone, after), ListLast(zone, after) < d,
           NEW f \in FiresOnLocalDate(cron, zone, d), NEW g \in FiresOnLocalDate(cron, zone, e)
    PROVE  g.at <= f.at
<1> DEFINE last == ListLast(zone, after)
           midnight == (last + 1) * Day
<1>1. last \in Int
  BY ListDatesAre
<1>2. midnight <= zone.change + zone.after \/ zone.change + zone.before <= midnight
  BY DEF HorizonSettled, ListLast
<1> HIDE DEF last
<1>3. midnight \in Int
  BY <1>1, DateSteps
<1> HIDE DEF midnight
<1>4. zone.before \in Int /\ zone.after \in Int /\ zone.change \in Int
  BY ZoneIs
<1>5. ASSUME NEW l \in Int, Date(l) = d PROVE midnight <= l
  <2>1. Date(l) \in Int /\ Date(l) * Day \in Int /\ Clock(l) \in 0 .. Day - 1 /\ l = Date(l) * Day + Clock(l)
    BY DateIs
  <2>2. last + 1 <= d /\ last + 1 \in Int
    BY <1>1 DEF last
  <2>3. midnight <= d * Day
    BY <2>2, DateSteps DEF midnight
  <2> DEFINE w == d * Day
             c == Clock(l)
  <2>4. w \in Int /\ c \in 0 .. Day - 1 /\ l = w + c /\ midnight <= w
    BY <1>5, <2>1, <2>3
  <2> HIDE DEF w, c
  <2>. QED BY <1>3, <2>4, DayIs
<1>6. ASSUME NEW l \in Int, Date(l) = e PROVE l < midnight
  <2>1. Date(l) \in Int /\ Date(l) * Day \in Int /\ Clock(l) \in 0 .. Day - 1 /\ l = Date(l) * Day + Clock(l)
    BY DateIs
  <2>2. e < last + 1 /\ last + 1 \in Int
    BY <1>1 DEF last
  <2>3. e * Day + Day <= midnight
    BY <2>2, DateSteps DEF midnight
  <2> DEFINE w == e * Day
             c == Clock(l)
  <2>4. w \in Int /\ c \in 0 .. Day - 1 /\ l = w + c /\ w + Day <= midnight
    BY <1>6, <2>1, <2>3
  <2> HIDE DEF w, c
  <2>. QED BY <1>3, <2>4, DayIs
<1>7. \/ f.at \in Int /\ midnight <= Local(zone, f.at)
      \/ f.at = zone.change /\ midnight < zone.change + zone.after
  <2>1. CASE \E u \in Int : RealOn(cron, zone, d, u) /\ f = RealFire(zone, u)
    <3>1. PICK u \in Int : Date(Local(zone, u)) = d /\ f.at = u
      BY <2>1 DEF RealOn, RealFire
    <3>. QED BY <1>5, <3>1, LocalIs
  <2>2. CASE f = ShiftedFire(zone) /\ ShiftedOn(cron, zone, d)
    <3>1. PICK l \in Int : Date(l) = d /\ InGap(zone, l)
      BY <2>2 DEF ShiftedOn
    <3>2. midnight <= l /\ l < zone.change + zone.after
      BY <1>5, <3>1 DEF InGap
    <3>3. midnight < zone.change + zone.after
      BY <1>3, <1>4, <3>2
    <3>. QED BY <2>2, <3>3 DEF ShiftedFire
  <2>. QED BY <2>1, <2>2, FiresOnDateIs
<1>8. \/ g.at \in Int /\ Local(zone, g.at) < midnight
      \/ g.at = zone.change /\ zone.change + zone.before < midnight
  <2>1. CASE \E u \in Int : RealOn(cron, zone, e, u) /\ g = RealFire(zone, u)
    <3>1. PICK u \in Int : Date(Local(zone, u)) = e /\ g.at = u
      BY <2>1 DEF RealOn, RealFire
    <3>. QED BY <1>6, <3>1, LocalIs
  <2>2. CASE g = ShiftedFire(zone) /\ ShiftedOn(cron, zone, e)
    <3>1. PICK l \in Int : Date(l) = e /\ InGap(zone, l)
      BY <2>2 DEF ShiftedOn
    <3>2. l < midnight /\ zone.change + zone.before <= l
      BY <1>6, <3>1 DEF InGap
    <3>3. zone.change + zone.before < midnight
      BY <1>3, <1>4, <3>2
    <3>. QED BY <2>2, <3>3 DEF ShiftedFire
  <2>. QED BY <2>1, <2>2, FiresOnDateIs
<1>. QED BY <1>2, <1>3, <1>4, <1>7, <1>8, LocalIs

\* While fewer than count of the firings that are found come before the window ends, the
\* walk reaches every date up to the horizon that can hold one that does.
LEMMA DatesAreReached ==
    ASSUME NEW cron \in Expressions, NEW zone \in RealZones, NEW t \in Int, NEW count \in Nat \ {0},
           NEW before \in Int,
           Cardinality(Below(Instants(ListFound(cron, zone, t, count, {before})), before)) < count,
           NEW e \in Int, e <= ListLast(zone, t), EarliestPossible(e) < before
    PROVE  ListReached(cron, zone, t, count, {before}, e)
<1> DEFINE H == Instants(ListFound(cron, zone, t, count, {before}))
           passed(d) == ListPassed(cron, zone, t, d)
           Full == {d \in ListFrom(zone, t) .. e : ~(Cardinality(passed(d)) < count)}
<1>1. /\ \A p \in ListProbes(cron, zone, t) :
            ListReached(cron, zone, t, count, {before}, p.date) => p.fire.at \in H
      /\ IsFiniteSet(H) /\ H \in SUBSET Int
  <2>1. {before} \in SUBSET Int /\ count \in Nat
    OBVIOUS
  <2>. QED BY <2>1, FoundIs
<1>2. ListFrom(zone, t) \in Int /\ ListLast(zone, t) \in Int
  BY ListDatesAre, EdgeIs DEF ListFrom
<1>3. \A p \in ListProbes(cron, zone, t) :
        p.date \in Int /\ p.date >= ListFrom(zone, t) /\ p.fire.at \in Int /\ EarliestPossible(p.date) \in Int
  <2>1. ASSUME NEW p \in ListProbes(cron, zone, t) PROVE p.date >= ListFrom(zone, t)
    <3>1. p.date \in ListDates(zone, t) /\ p.date \in Int
      BY ListProbeIs
    <3>. QED BY <1>2, <3>1 DEF ListDates
  <2>. QED BY <2>1, ListProbeIs
<1>4. EarliestPossible(e) \in Int
  BY DateSteps, DayIs DEF EarliestPossible
<1>5. Cardinality(Below(H, before)) \in Nat /\ IsFiniteSet(Below(H, before))
      /\ Cardinality(Below(H, before)) < count
  BY <1>1, BelowIs
<1>6. ASSUME NEW d \in Int, d <= e, ~(Cardinality(passed(d)) < count) PROVE FALSE
  <2>1. d \in Full
    <3>1. d >= ListFrom(zone, t)
      <4>1. ASSUME d < ListFrom(zone, t) PROVE FALSE
        <5>1. \A p \in ListProbes(cron, zone, t) : ~(p.date < d)
          BY <1>2, <1>3, <4>1
        <5>2. passed(d) = {}
          BY <5>1 DEF ListPassed
        <5>. QED BY <1>6, <5>2, FS_EmptySet
      <4>. QED BY <1>2, <4>1
    <3>. QED BY <1>2, <1>6, <3>1
  <2>2. Full \in SUBSET Int /\ \A x \in Full : ListFrom(zone, t) <= x
    BY <1>2
  <2>3. PICK m \in Full : \A x \in Full : m <= x
    <3> HIDE DEF Full
    <3>. QED BY <1>2, <2>1, <2>2, LeastIs
  <2>4. m \in Int /\ m <= e /\ ~(Cardinality(passed(m)) < count)
    BY <1>2, <2>3
  <2>5. EarliestPossible(m) \in Int /\ EarliestPossible(m) <= EarliestPossible(e)
    <3>1. {before} \in SUBSET Int /\ count \in Nat
      OBVIOUS
    <3>2. EarliestPossible(m) <= EarliestPossible(e)
      BY <2>4, <3>1, ReachedBefore
    <3>. QED BY <2>4, <3>2, DateSteps, DayIs DEF EarliestPossible
  <2>6. ASSUME NEW p \in ListProbes(cron, zone, t), p.date < m, p.fire.at < EarliestPossible(m)
        PROVE  p.fire.at \in Below(H, before)
    <3>1. p.date \in Int /\ p.date >= ListFrom(zone, t) /\ p.date <= e /\ p.fire.at \in Int
      BY <1>3, <2>4, <2>6
    <3>2. Cardinality(passed(p.date)) < count
      <4>1. p.date \in ListFrom(zone, t) .. e
        BY <1>2, <3>1
      <4>2. p.date \notin Full
        BY <2>2, <2>3, <2>4, <2>6, <3>1
      <4>. QED BY <4>1, <4>2
    <3>3. EarliestPossible(p.date) < before
      <4>1. {before} \in SUBSET Int /\ count \in Nat
        OBVIOUS
      <4>2. EarliestPossible(p.date) <= EarliestPossible(e)
        BY <3>1, <4>1, ReachedBefore
      <4>. QED BY <1>3, <1>4, <4>2
    <3>4. p.date <= ListLast(zone, t)
      BY <1>2, <3>1
    <3>5. ListReached(cron, zone, t, count, {before}, p.date)
      BY <3>2, <3>3, <3>4 DEF ListReached
    <3>6. p.fire.at \in H
      BY <1>1, <3>5
    <3>7. p.fire.at < before
      BY <1>4, <2>5, <2>6, <3>1
    <3>. QED BY <3>6, <3>7 DEF Below
  <2>7. passed(m) \subseteq Below(H, before)
    BY <2>6 DEF ListPassed
  <2> HIDE DEF passed, H
  <2>8. Cardinality(passed(m)) \in Nat /\ Cardinality(passed(m)) <= Cardinality(Below(H, before))
    BY <1>5, <2>7, SmallerIsFewer
  <2>. QED BY <1>5, <2>4, <2>8
<1>7. Cardinality(passed(e)) < count
  BY <1>6
<1>. QED BY <1>7 DEF ListReached

\* In a named zone the count of the skipped slots is exact, or it says that it is not.
THEOREM NamedCountIsHonest ==
    ASSUME NEW cron \in Expressions, NEW zone \in RealZones, zone.utc = FALSE,
           NEW after \in Int, NEW before \in Int, NEW cap \in Nat
    PROVE  Honest(cron, zone, after, before, cap)
<1> DEFINE count == cap + 1
           until == {before}
           found == ListFound(cron, zone, after, count, until)
           H == Instants(found)
           fires == FiresAfter(cron, zone, after, count, until).fires
           cut == FiresAfter(cron, zone, after, count, until).cut
           B == Between(cron, zone, after, before)
           last == ListLast(zone, after)
<1>1. count \in Nat /\ count \in Nat \ {0} /\ until \in SUBSET Int
  OBVIOUS
<1>2. /\ fires = Take(count, found)
      /\ cut <=> ListReached(cron, zone, after, count, until, last) /\ last + 1 \in ListDates(zone, after)
  BY <1>1, ListIs
<1>3. /\ \A f \in found : \E p \in ListProbes(cron, zone, after) :
            p.fire = f /\ ListReached(cron, zone, after, count, until, p.date)
      /\ \A f, g \in found : f.at = g.at => f = g
      /\ \A p \in ListProbes(cron, zone, after) :
            ListReached(cron, zone, after, count, until, p.date) => p.fire.at \in H
      /\ IsFiniteSet(H) /\ H \in SUBSET Int /\ \A u \in H : after <= u /\ u > after /\ Fires(cron, zone, u)
  BY <1>1, FoundIs
<1>4. last \in Int /\ last + 1 \in ListDates(zone, after)
  BY ListDatesAre
<1>5. \A f \in fires : f \in found /\ f.at \in H
  <2>1. \A f : f \in fires <=> f \in found /\ f.at \in FirstOf(count, H)
    BY <1>2, TakeIs
  <2>2. \A f \in found : f.at \in H
    BY DEF Instants
  <2> HIDE DEF fires, found, H
  <2>. QED BY <2>1, <2>2
<1>6. Instants(fires) = FirstOf(count, H)
  BY <1>2, TakeIs
<1>7. /\ \A f, g \in fires : f.at = g.at => f = g
      /\ \A f \in fires : f.at \in Int /\ f.at > after /\ Fires(cron, zone, f.at)
  BY <1>3, <1>5
<1>8. ASSUME HorizonSettled(zone, after), Cardinality(Below(Instants(fires), before)) <= cap,
             ~(cut /\ \A f \in fires : f.at < before), NEW b \in B
      PROVE  b \in Instants(fires)
  <2>1. b \in Int /\ b > after /\ b < before /\ Fires(cron, zone, b)
    BY DEF Between
  <2>2. Cardinality(Below(H, before)) < count
    <3>1. Cardinality(Below(H, before)) \in Nat
      BY <1>3, BelowIs
    <3>2. count <= Cardinality(Below(H, before)) => Cardinality(Below(FirstOf(count, H), before)) = count
      <4> HIDE DEF count, H
      <4>. QED BY <1>1, <1>3, FirstReach
    <3>. QED BY <1>6, <1>8, <3>1, <3>2
  <2>3. ASSUME NEW e \in Int, e <= last, EarliestPossible(e) < before
        PROVE  ListReached(cron, zone, after, count, until, e)
    <3> HIDE DEF count
    <3>. QED BY <1>1, <2>2, <2>3, DatesAreReached
  <2> DEFINE f == FireOf(cron, zone, b)
  <2>4. PICK d \in Int : f \in FiresOnLocalDate(cron, zone, d)
    BY <2>1, DateOfFire
  <2>5. f.at = b
    BY FireOfAt
  <2> HIDE DEF f
  <2>6. EarliestPossible(d) \in Int /\ EarliestPossible(d) <= b
    <3>1. f.at \in Int /\ d * Day - MaxOffset <= f.at
      BY <2>4, FireOfDate
    <3>. QED BY <2>4, <2>5, <3>1, DateSteps, DayIs DEF EarliestPossible
  <2>7. d <= last
    <3>1. ASSUME last < d PROVE FALSE
      <4>1. EarliestPossible(last) < before
        <5>1. EarliestPossible(last) <= EarliestPossible(d)
          <6>1. last <= d /\ last \in Int
            BY <1>4, <2>4, <3>1
          <6> HIDE DEF last
          <6>2. last * Day \in Int /\ d * Day \in Int /\ last * Day <= d * Day
            BY <2>4, <6>1, DateSteps
          <6>. QED BY <6>2, DayIs DEF EarliestPossible
        <5>2. EarliestPossible(last) \in Int
          BY <1>4, DateSteps, DayIs DEF EarliestPossible
        <5>. QED BY <2>1, <2>6, <5>1, <5>2
      <4>2. cut
        BY <1>2, <1>4, <2>3, <4>1
      <4>3. PICK g \in fires : ~(g.at < before)
        BY <1>8, <4>2
      <4>4. PICK p \in ListProbes(cron, zone, after) :
              p.fire = g /\ ListReached(cron, zone, after, count, until, p.date)
        BY <1>3, <1>5
      <4>5. p.date \in Int /\ p.date <= last /\ g \in FiresOnLocalDate(cron, zone, p.date)
        BY <4>4, ListProbeIs DEF ListReached
      <4>6. g.at <= b
        BY <1>8, <2>4, <2>5, <3>1, <4>5, LaterDatesAreLater
      <4>. QED BY <1>7, <2>1, <4>3, <4>6
    <3>. QED BY <1>4, <2>4, <3>1
  <2>8. [date |-> d, fire |-> f] \in ListProbes(cron, zone, after)
    <3>1. d >= Date(Local(zone, after)) - EdgeDays
      BY <2>1, <2>4, <2>5, DatesOfNear
    <3>2. d <= Date(Local(zone, after)) + EdgeDays + WalkDays - 1
      BY <2>4, <2>7, ListDatesAre, EdgeIs, DayIs
    <3>3. d \in ListDates(zone, after)
      BY <2>4, <3>1, <3>2, ListDatesAre
    <3>. QED BY <2>1, <2>4, <2>5, <3>3, ListProbe
  <2>9. b \in H
    <3>1. EarliestPossible(d) < before
      BY <2>1, <2>6
    <3>2. ListReached(cron, zone, after, count, until, d)
      BY <2>3, <2>4, <2>7, <3>1
    <3> DEFINE p == [date |-> d, fire |-> f]
    <3>3. p \in ListProbes(cron, zone, after) /\ p.date = d /\ p.fire.at = b
      BY <2>5, <2>8
    <3> HIDE DEF p
    <3>. QED BY <1>3, <3>2, <3>3
  <2>10. Cardinality(Below(H, b)) < count
    <3> HIDE DEF H
    <3>1. Below(H, b) \subseteq Below(H, before)
      BY <1>3, <2>1, BelowGrows
    <3>2. IsFiniteSet(Below(H, before))
      BY <1>3, BelowIs
    <3>3. /\ Cardinality(Below(H, b)) \in Nat /\ Cardinality(Below(H, before)) \in Nat
          /\ Cardinality(Below(H, b)) <= Cardinality(Below(H, before))
      BY <3>1, <3>2, SmallerIsFewer
    <3>. QED BY <1>1, <2>2, <3>3
  <2>. QED BY <1>6, <2>9, <2>10 DEF FirstOf
<1>9. Sure(cron, zone, after, before) => HorizonSettled(zone, after)
  BY DEF Sure
<1>10. ( /\ Sure(cron, zone, after, before)
         /\ Cardinality(Below(Instants(fires), before)) <= cap
         /\ ~(cut /\ \A f \in fires : f.at < before) )
         => B \subseteq Instants(fires)
  <2> SUFFICES ASSUME Sure(cron, zone, after, before), Cardinality(Below(Instants(fires), before)) <= cap,
                      ~(cut /\ \A f \in fires : f.at < before), NEW b \in B
               PROVE  b \in Instants(fires)
    BY Zenon
  <2>. QED BY <1>8, <1>9
<1> HIDE DEF fires, cut
<1>. QED BY <1>7, <1>10, HonestWhen DEF fires, cut

\* So it is without a zone, when every firing of the window is in reach of the one before.
THEOREM UtcCountIsHonest ==
    ASSUME NEW cron \in Expressions, NEW zone \in RealZones, zone.utc = TRUE,
           NEW after \in Int, NEW before \in Int, NEW cap \in Nat
    PROVE  Honest(cron, zone, after, before, cap)
<1> DEFINE count == cap + 1
           until == {before}
           ahead == Ahead(cron, after)
           listed == UtcListed(cron, after, count, until)
           fires == FiresAfter(cron, zone, after, count, until).fires
           cut == FiresAfter(cron, zone, after, count, until).cut
           B == Between(cron, zone, after, before)
           last == HorizonDate(Date(after))
<1>1. count \in Nat /\ count \in Nat \ {0}
  OBVIOUS
<1>2. fires = {At(u) : u \in listed} /\ (cut <=> CutAfter(cron, after, count, until))
  BY <1>1, UtcListIs
<1>3. listed = {u \in ahead : /\ \A v \in ahead : v <= u => FoundFrom(cron, after, until, v)
                              /\ Cardinality(Below(ahead, u)) < count}
  BY DEF UtcListed
<1>4. /\ ahead \in SUBSET Int /\ IsFiniteSet(ahead) /\ \A u \in ahead : after <= u
      /\ \A u \in Int : u \in ahead <=> u > after /\ Date(u) <= last /\ Matches(cron, u)
  BY AheadIs
<1>5. last \in Int
  BY DateIs, DayIs DEF HorizonDate
<1>6. \A u \in Int : u \in B <=> u > after /\ u < before /\ Matches(cron, u)
  <2>1. \A u \in Int : u \in B <=> u > after /\ u < before /\ Fires(cron, zone, u)
    BY DEF Between
  <2>. QED BY <2>1, UtcIs
<1>7. Instants(fires) = listed
  <2> HIDE DEF fires, listed
  <2>. QED BY <1>2, AtIs DEF Instants
<1>8. /\ \A f, g \in fires : f.at = g.at => f = g
      /\ \A f \in fires : f.at \in listed
  BY SMTT(60), <1>2, AtIs
<1>9. \A f \in fires : f.at \in Int /\ f.at > after /\ Fires(cron, zone, f.at)
  <2>1. ASSUME NEW f \in fires PROVE f.at \in Int /\ f.at > after /\ Fires(cron, zone, f.at)
    <3>1. f.at \in ahead
      BY <1>3, <1>8
    <3>2. f.at \in Int /\ f.at > after /\ Matches(cron, f.at)
      BY <1>4, <3>1
    <3>. QED BY <3>2, UtcIs
  <2>. QED BY <2>1
<1>10. ASSUME Followed(cron, zone, after, before), Cardinality(Below(listed, before)) <= cap,
              ~(cut /\ \A f \in fires : f.at < before), NEW b \in B
       PROVE  b \in listed
  <2>1. b \in Int /\ b > after /\ b < before /\ Matches(cron, b)
    <3>1. b \in Int
      BY DEF Between
    <3>. QED BY <1>6, <3>1
  <2>2. ASSUME NEW c \in Int, c = after \/ c \in B, NEW v \in Int, v > c, v < before, Matches(cron, v)
        PROVE  Coming(cron, zone, c) # {}
    <3>1. v \in Between(cron, zone, c, before)
      <4>1. v \in c + 1 .. before - 1
        BY <2>2
      <4>. QED BY <2>2, <4>1, UtcIs DEF Between
    <3>2. \A u \in {after} \cup B : Between(cron, zone, u, before) # {} => Coming(cron, zone, u) # {}
      BY <1>10 DEF Followed
    <3>. QED BY <2>2, <3>1, <3>2
  <2>3. ASSUME NEW v \in ahead, v < before PROVE FoundFrom(cron, after, until, v)
    <3>1. v \in Int /\ v > after /\ Matches(cron, v)
      BY <1>4
    <3>2. PICK c \in Int : /\ FireBefore(cron, after, v) = {c}
                           /\ c = after \/ (c \in ahead /\ c < v)
                           /\ after <= c /\ c < v
      BY <3>1, FireBeforeIs
    <3>3. c < before
      BY <2>3, <3>1, <3>2
    <3>4. c = after \/ c \in B
      BY <1>4, <1>6, <3>2, <3>3
    <3>5. OpenAt(until, after, c) /\ Coming(cron, zone, c) # {}
      BY <2>2, <2>3, <3>1, <3>2, <3>3, <3>4 DEF OpenAt
    <3> HIDE DEF ahead
    <3>. QED BY <2>3, <3>2, <3>5, FoundNext DEF ahead
  <2> HIDE DEF ahead, listed, fires, cut, count
  <2>4. Cardinality(Below(ahead, before)) < count
    <3>1. ASSUME count <= Cardinality(Below(ahead, before)) PROVE FALSE
      <4>1. Cardinality(Below(FirstOf(count, ahead), before)) = count
        BY <1>1, <1>4, <3>1, FirstReach
      <4>2. Below(FirstOf(count, ahead), before) \subseteq Below(listed, before)
        <5>1. ASSUME NEW x \in Below(FirstOf(count, ahead), before) PROVE x \in listed /\ x < before
          <6>1. x \in ahead /\ x \in Int /\ x < before /\ Cardinality(Below(ahead, x)) < count
            BY <1>4 DEF Below, FirstOf
          <6>2. \A v \in ahead : v <= x => v < before
            BY <1>4, <6>1
          <6>. QED BY <1>3, <2>3, <6>1, <6>2
        <5>. QED BY <5>1 DEF Below
      <4>3. IsFiniteSet(Below(listed, before))
        <5>1. Below(listed, before) \subseteq ahead
          BY <1>3 DEF Below
        <5>. QED BY <1>4, <5>1, SmallerIsFewer
      <4>4. /\ Cardinality(Below(listed, before)) \in Nat
            /\ Cardinality(Below(FirstOf(count, ahead), before)) <= Cardinality(Below(listed, before))
        BY <4>2, <4>3, SmallerIsFewer
      <4>. QED BY <1>10, <4>1, <4>4 DEF count
    <3>2. Cardinality(Below(ahead, before)) \in Nat
      BY <1>4, BelowIs
    <3>. QED BY <1>1, <3>1, <3>2
  <2>5. ASSUME NEW x \in ahead, x < before PROVE x \in listed
    <3>1. x \in Int /\ \A v \in ahead : v <= x => v < before
      BY <1>4, <2>5
    <3>2. Cardinality(Below(ahead, x)) < count
      <4>1. Below(ahead, x) \subseteq Below(ahead, before)
        BY <1>4, <2>5, <3>1, BelowGrows
      <4>2. IsFiniteSet(Below(ahead, before))
        BY <1>4, BelowIs
      <4>3. /\ Cardinality(Below(ahead, x)) \in Nat /\ Cardinality(Below(ahead, before)) \in Nat
            /\ Cardinality(Below(ahead, x)) <= Cardinality(Below(ahead, before))
        BY <4>1, <4>2, SmallerIsFewer
      <4>. QED BY <1>1, <2>4, <4>3
    <3>. QED BY <1>3, <2>3, <3>1, <3>2
  <2>6. b \in ahead
    <3>1. ASSUME b \notin ahead PROVE FALSE
      <4>1. Date(b) > last
        <5>1. Date(b) \in Int
          BY <2>1, DateIs
        <5>. QED BY <1>4, <1>5, <2>1, <3>1, <5>1
      <4>2. ASSUME NEW x \in ahead PROVE x \in Int /\ x < b /\ x < before /\ x \in B /\ x \in listed
        <5>1. x \in Int /\ x > after /\ Date(x) <= last /\ Matches(cron, x)
          BY <1>4
        <5>2. Date(x) < Date(b)
          <6>1. Date(x) \in Int /\ Date(b) \in Int
            BY <2>1, <5>1, DateIs
          <6>. QED BY <1>5, <4>1, <5>1, <6>1
        <5>3. x < b
          BY <2>1, <5>1, <5>2, DatesGrow
        <5>4. x < before
          BY <2>1, <5>1, <5>3
        <5>. QED BY <1>6, <2>5, <5>1, <5>3, <5>4
      <4>3. listed = ahead
        BY <1>3, <4>2
      <4>4. \A f \in fires : f.at < before
        BY <1>8, <4>2, <4>3
      <4>5. Cardinality(listed) < count
        <5>1. Below(listed, before) = listed
          BY <4>2, <4>3 DEF Below
        <5>2. Cardinality(listed) \in Nat
          BY <1>4, <4>3, FS_CardinalityType
        <5>. QED BY <1>10, <5>1, <5>2 DEF count
      <4>6. PICK c \in {after} \cup listed : Greatest({after} \cup listed) = {c} /\ \A x \in {after} \cup listed : x <= c
        <5>1. {after} \cup listed \in SUBSET Int /\ {after} \cup listed # {} /\ \A x \in {after} \cup listed : x <= b
          BY <1>4, <2>1, <4>2, <4>3
        <5>. QED BY <2>1, <5>1, GreatestIs
      <4>7. c \in Int /\ (c = after \/ c \in B) /\ after <= c /\ c < b /\ OpenAt(until, after, c)
        BY <1>4, <2>1, <4>2, <4>3, <4>6 DEF OpenAt
      <4>8. Coming(cron, zone, c) # {}
        BY <2>1, <2>2, <4>7
      <4>9. PICK u \in Coming(cron, zone, c) :
              /\ u \in Int /\ u > c /\ u < c + Reach /\ Fires(cron, zone, u)
              /\ \A x \in Int : x > c /\ Fires(cron, zone, x) => u <= x
        BY <4>7, <4>8, ComingFirst
      <4>10. Matches(cron, u) /\ \A x \in Int : x > c /\ Matches(cron, x) => u <= x
        BY <4>9, UtcIs
      <4>11. UtcAfter(cron, c) = {At(u)}
        <5>1. Date(u) < Date(c) + WalkDays
          BY <4>7, <4>9, UtcReach
        <5>. QED BY <4>7, <4>9, <4>10, <5>1, UtcFirst
      <4>12. Date(u) > last
        <5>1. u \notin ahead
          BY <4>3, <4>6, <4>7, <4>9
        <5>2. Date(u) \in Int /\ u > after
          BY <4>7, <4>9, DateIs
        <5>. QED BY <1>4, <1>5, <4>9, <4>10, <5>1, <5>2
      <4>13. \E f \in UtcAfter(cron, c) : Date(f.at) > last
        BY <4>11, <4>12, AtIs
      <4>14. CutAfter(cron, after, count, until)
        BY <4>5, <4>6, <4>7, <4>13 DEF CutAfter, listed
      <4>. QED BY <1>2, <1>10, <4>4, <4>14
    <3>. QED BY <3>1
  <2>. QED BY <2>1, <2>5, <2>6
<1>11. Sure(cron, zone, after, before) => Followed(cron, zone, after, before)
  BY DEF Sure
<1>12. ( /\ Sure(cron, zone, after, before)
         /\ Cardinality(Below(Instants(fires), before)) <= cap
         /\ ~(cut /\ \A f \in fires : f.at < before) )
         => B \subseteq Instants(fires)
  <2> SUFFICES ASSUME Sure(cron, zone, after, before), Cardinality(Below(Instants(fires), before)) <= cap,
                      ~(cut /\ \A f \in fires : f.at < before), NEW b \in B
               PROVE  b \in Instants(fires)
    BY Zenon
  <2>1. Cardinality(Below(listed, before)) <= cap
    BY <1>7
  <2>2. b \in listed
    BY <1>10, <1>11, <2>1
  <2>. QED BY <1>7, <2>2
<1> HIDE DEF fires, cut
<1>. QED BY <1>8, <1>9, <1>12, HonestWhen DEF fires, cut

\* Whatever the zone, the count of the skipped slots is exact, or a floor that says so.
THEOREM CountIsHonest ==
    ASSUME NEW cron \in Expressions, NEW zone \in RealZones, NEW after \in Int, NEW before \in Int,
           NEW cap \in Nat
    PROVE  Honest(cron, zone, after, before, cap)
BY UtcOrNamed, UtcCountIsHonest, NamedCountIsHonest

\* What a walk back answers with is an instant.
LEMMA AnswerIs ==
    ASSUME NEW cron \in Expressions, NEW zone \in RealZones, NEW t \in Int,
           NEW f \in FireAtOrBefore(cron, zone, t)
    PROVE  f.at \in Int
<1>1. CASE zone.utc = TRUE
  <2>1. f \in UtcAtOrBefore(cron, t)
    BY <1>1 DEF FireAtOrBefore
  <2>. QED BY <2>1, UtcLast
<1>2. CASE zone.utc = FALSE
  <2> DEFINE from == Date(Local(zone, t)) + EdgeDays
             dates == from - MaxDateSteps + 1 .. from
  <2>1. f \in WalkBack(cron, zone, t, from)
    BY <1>2 DEF FireAtOrBefore
  <2>2. PICK p \in Probes(cron, zone, dates) : p.fire = f
    BY <2>1 DEF WalkBack
  <2>3. dates \in SUBSET Int
    OBVIOUS
  <2>. QED BY <2>2, <2>3, ProbeIs
<1>. QED BY <1>1, <1>2, UtcOrNamed

\* At every instant a schedule lives, and however long ago it was evaluated, the slots it
\* skipped are counted exactly, or the count is a floor and says so (cadence.rs,
\* skipped_slots).
THEOREM SkippedFound == Spec => []SkippedIsHonest
<1>1. ASSUME NEW t \in CreatedAt .. Horizon PROVE SkippedExact[t]
  <2>1. t \in Int
    BY TimeAssumption
  <2>2. ASSUME NEW cron \in Crons, NEW zone \in Zones, NEW lag \in Lags, NEW cap \in Caps,
               NEW due \in FireAtOrBefore(cron, zone, t)
        PROVE  Honest(cron, zone, t - lag, due.at, cap)
    <3>1. cron \in Expressions /\ zone \in RealZones /\ lag \in Nat /\ cap \in Nat
      BY CadenceAssumption
    <3>2. due.at \in Int /\ t - lag \in Int
      BY <2>1, <3>1, AnswerIs
    <3>. QED BY <3>1, <3>2, CountIsHonest
  <2>. QED BY <2>2 DEF SkippedExact
<1>2. TypeOK => SkippedIsHonest
  BY <1>1 DEF TypeOK, SkippedIsHonest
<1>3. IInv => TypeOK
  BY DEF IInv
<1>. QED BY <1>2, <1>3, InvariantHolds, PTL

=============================================================================
