--------------------------- MODULE ScheduleCadence ---------------------------
(***************************************************************************)
(* What a cadence is, said without a walk, and what the walks of Cadence   *)
(* promise of it, at the instants a schedule asks.                         *)
(***************************************************************************)
EXTENDS BackupScheduleInv, Cadence

CONSTANTS
    Crons,  \* the expressions asked about
    Zones,  \* the zones they are read in
    Lags,   \* how long ago a schedule was evaluated last
    Caps    \* MAX_SKIPPED_SLOT_ENUMERATION

Expressions == [dates : SUBSET Int, ticks : SUBSET (0 .. Day - 1)]
Offsets == -MaxOffset .. MaxOffset

\* Zone::Utc, and Zone::Named: no clock was ever put forward by more than a day (Apia in
\* 2011 by a whole one).
Utc == [utc : {TRUE}, before : {0}, after : {0}, change : {0}]
Named == {z \in [utc : {FALSE}, before : Offsets, after : Offsets, change : Int] :
            z.after - z.before <= Day}
RealZones == Utc \cup Named

ASSUME CadenceAssumption ==
    /\ Crons \subseteq Expressions /\ Zones \subseteq RealZones
    /\ Lags \subseteq Nat /\ Caps \subseteq Nat
    /\ Day % Period = 0

-----------------------------------------------------------------------------
(* Every real instant whose local time matches fires once, and a matching  *)
(* local time that does not exist fires at the end of the gap              *)
(* (cadence.rs:19-21).                                                     *)

Shifted(cron, zone, t) ==
    t = zone.change /\ \E l \in t + zone.before .. t + zone.after - 1 : Matches(cron, l)

Fires(cron, zone, t) == Matches(cron, Local(zone, t)) \/ Shifted(cron, zone, t)

Mark(cron, zone, t) ==
    LET twins == {u \in t - 2 * MaxOffset .. t + 2 * MaxOffset : Local(zone, u) = Local(zone, t)}
    IN  IF ~Matches(cron, Local(zone, t)) THEN "shifted"
        ELSE IF twins = {t} THEN "none"
        ELSE IF \A u \in twins : t <= u THEN "first" ELSE "second"

FireOf(cron, zone, t) == [at |-> t, mark |-> Mark(cron, zone, t)]

\* What the walks answer for: the firings less than this away.
Reach == (WalkDays - 1) * Day

-----------------------------------------------------------------------------
(* The promises.                                                           *)

Past(cron, zone, t)   == {u \in t - Reach + 1 .. t : Fires(cron, zone, u)}
Coming(cron, zone, t) == {u \in t + 1 .. t + Reach - 1 : Fires(cron, zone, u)}

ExactBack(cron, zone, t) ==
    LET answer == FireAtOrBefore(cron, zone, t)
        past   == Past(cron, zone, t)
    IN  /\ \A f \in answer : f.at <= t /\ Fires(cron, zone, f.at)
        /\ past # {} => answer = {FireOf(cron, zone, u) : u \in Greatest(past)}

ExactOn(cron, zone, t) ==
    LET answer == FireAfter(cron, zone, t)
        coming == Coming(cron, zone, t)
    IN  /\ \A f \in answer : f.at > t /\ Fires(cron, zone, f.at)
        /\ coming # {} => answer = {FireOf(cron, zone, u) : u \in Least(coming)}

ExactList(cron, zone, t, count) ==
    LET fires  == FiresAfter(cron, zone, t, count, {}).fires
        coming == Coming(cron, zone, t)
    IN  /\ Cardinality(fires) <= count
        /\ \A f \in fires : f.at > t /\ Fires(cron, zone, f.at)
        /\ {f \in fires : f.at < t + Reach}
             = {FireOf(cron, zone, u) : u \in {v \in coming : Cardinality({w \in coming : w < v}) < count}}

\* Where the walk ends, dates and instants come in the same order: the clock is not put
\* back from the date after the horizon into one before it.
HorizonSettled(zone, after) ==
    LET midnight == (HorizonDate(Date(Local(zone, after))) + 1) * Day
    IN  midnight <= zone.change + zone.after \/ zone.change + zone.before <= midnight

Between(cron, zone, after, before) == {u \in after + 1 .. before - 1 : Fires(cron, zone, u)}

\* Without a zone a walk that finds nothing in reach does not say that it was cut.
Followed(cron, zone, after, before) ==
    \A u \in {after} \cup Between(cron, zone, after, before) :
        Between(cron, zone, u, before) # {} => Coming(cron, zone, u) # {}

Honest(cron, zone, after, before, cap) ==
    LET skipped == Cardinality(Between(cron, zone, after, before))
        answer  == SkippedSlots(cron, zone, after, before, cap)
    IN  /\ answer.count <= skipped
        /\ answer.capped => answer.count = cap /\ cap < skipped
        /\ (IF zone.utc THEN Followed(cron, zone, after, before) ELSE HorizonSettled(zone, after))
             => answer.capped \/ answer.horizon \/ answer.count = skipped

-----------------------------------------------------------------------------
(* At the instants of a schedule.  Constants are evaluated once.           *)

Exact == [t \in CreatedAt .. Horizon |->
    \A cron \in Crons, zone \in Zones :
        /\ ExactBack(cron, zone, t)
        /\ ExactOn(cron, zone, t)
        /\ \A count \in Caps : ExactList(cron, zone, t, count)]

SkippedExact == [t \in CreatedAt .. Horizon |->
    \A cron \in Crons, zone \in Zones, lag \in Lags, cap \in Caps :
        \A due \in FireAtOrBefore(cron, zone, t) : Honest(cron, zone, t - lag, due.at, cap)]

Interval == [dates |-> Int, ticks |-> {n \in 0 .. Day - 1 : n % Period = 0}]

Aligned == {z \in Zones : \A n \in {z.before, z.after, z.change} : n % Period = 0}

IntervalDue == [t \in CreatedAt .. Horizon |->
    {Instants(FireAtOrBefore(Interval, zone, t)) : zone \in Aligned}]

\* At every instant the schedule lives, the walks find exactly the latest firing, the
\* next one and the ones after it, with their markers, wherever in a gap, a repeated
\* hour or a day lived twice it falls (cadence.rs, fire_at_or_before, fire_after and
\* fires_after_bounded: the firing found first is the one that is wanted).
WalksAreExact == Exact[now]

\* The slots skipped since an evaluation are counted exactly, or the count is a floor
\* and says so (cadence.rs, skipped_slots).
SkippedIsHonest == SkippedExact[now]

\* The slot a pass decides about is the latest firing of an interval expression in
\* every zone whose offsets and changes fall on the interval: such a schedule keeps
\* its cadence through any of them, with no burst and no hole (cadence.rs:25-26).
DueIsLatestFire == pc = "decide" => IntervalDue[pass.at] \subseteq {{Due}}

=============================================================================
