------------------------------- MODULE Cadence -------------------------------
(***************************************************************************)
(* When a schedule fires (crates/weirkeeper/src/cadence.rs, and slot.rs    *)
(* for a schedule without a time zone): a cron expression read in the      *)
(* local time of a zone, by walking local dates.  Pure functions of their  *)
(* arguments.                                                              *)
(*                                                                         *)
(* An instant is a number of ticks, a date a number of days, a day Day     *)
(* ticks; an expression is the dates and the ticks of a day it matches.  A *)
(* zone changes its offset once: far from a change it does not matter      *)
(* which, and no two changes are as close as a walk's slack.               *)
(***************************************************************************)
EXTENDS Integers, FiniteSets

CONSTANTS
    Day,        \* ticks in a day
    WalkDays,   \* WALK_DAYS
    MaxOffset,  \* MAX_OFFSET_HOURS, in ticks
    GapSearch   \* GAP_SEARCH_MINUTES, in ticks

\* An offset slack of more than a day (26 h), a gap searched for two (48 h), and
\* a walk of ten years.
ASSUME CalendarAssumption ==
    /\ Day \in Nat \ {0} /\ WalkDays \in Nat \ {0, 1} /\ MaxOffset \in Nat /\ GapSearch \in Nat
    /\ Day <= MaxOffset /\ MaxOffset <= GapSearch

\* The least and the greatest of a set of integers, as sets: empty where there is none.
Least(S)    == {x \in S : \A y \in S : x <= y}
Greatest(S) == {x \in S : \A y \in S : y <= x}

Date(l) == l \div Day
Clock(l) == l % Day

Matches(cron, l) == Date(l) \in cron.dates /\ Clock(l) \in cron.ticks

\* The zone database: a zone's offset jumps from before to after at the instant change.
Local(zone, t) == t + (IF t < zone.change THEN zone.before ELSE zone.after)

\* from_local_datetime: the instants whose local time is l; none in a gap, two in
\* a repeated hour.
FromLocal(zone, l) == {t \in {l - zone.before, l - zone.after} : Local(zone, t) = l}

-----------------------------------------------------------------------------
(* The firings of one local date.                                          *)

\* Adjustment::rank: the lower, the more truthful.
Rank == [none |-> 0, first |-> 1, second |-> 1, shifted |-> 2]

\* gap_end: the first instant whose local time comes after l, which does not exist.
GapEnd(zone, l) ==
    UNION {Least(FromLocal(zone, l + n)) :
             n \in Least({m \in 1 .. GapSearch : FromLocal(zone, l + m) # {}})}

\* Mutant of FiresAt: a repeated local time fires only the first time.
FiresAtOnce(zone, l) ==
    IF FromLocal(zone, l) = {} THEN {[at |-> t, mark |-> "shifted"] : t \in GapEnd(zone, l)}
    ELSE {[at |-> t, mark |-> IF FromLocal(zone, l) = {t} THEN "none" ELSE "first"] :
             t \in Least(FromLocal(zone, l))}

\* A matched local time fires at every instant it is, or else at the end of the gap.
FiresAt(zone, l) ==
    LET real == FromLocal(zone, l)
    IN  IF real = {} THEN {[at |-> t, mark |-> "shifted"] : t \in GapEnd(zone, l)}
        ELSE {[at |-> t, mark |-> IF real = {t} THEN "none"
                                  ELSE IF t \in Least(real) THEN "first" ELSE "second"] : t \in real}

\* record: of the firings at one instant, the most truthful.
Record(fires) == {f \in fires : \A g \in fires : g.at = f.at => Rank[f.mark] <= Rank[g.mark]}

FiresOnLocalDate(cron, zone, date) ==
    IF date \in cron.dates
      THEN Record(UNION {FiresAt(zone, date * Day + n) : n \in cron.ticks})
      ELSE {}

-----------------------------------------------------------------------------
(* The walks over local dates, in a named zone.                            *)

\* Mutant of EdgeDays: the walk starts at the date of its argument.
EdgeDaysNone == 0

\* How many dates either side of its argument's a walk probes; the code writes out its 4.
EdgeDays == (MaxOffset + GapSearch + Day - 1) \div Day

MaxDateSteps == WalkDays + 2 * EdgeDays

EarliestPossible(date) == date * Day - MaxOffset
LatestPossible(date)   == date * Day + Day - 1 + MaxOffset + GapSearch

LaterOrBetter(f, g) == f.at > g.at \/ (f.at = g.at /\ Rank[f.mark] < Rank[g.mark])
EarlierOrBetter(f, g) == f.at < g.at \/ (f.at = g.at /\ Rank[f.mark] < Rank[g.mark])

\* The firings of a range of dates, each with the date it comes from.
Probes(cron, zone, dates) ==
    UNION {{[date |-> d, fire |-> f] : f \in FiresOnLocalDate(cron, zone, d)} : d \in dates}

\* The walk goes from one date to the next with the best firing it holds, until no
\* date that is left can hold a better one.
WalkBack(cron, zone, t, from) ==
    LET probes     == {p \in Probes(cron, zone, from - MaxDateSteps + 1 .. from) : p.fire.at <= t}
        reached(d) == \A p \in probes : p.date > d => p.fire.at <= LatestPossible(d)
        held       == {p.fire : p \in {q \in probes : reached(q.date)}}
    IN  {f \in held : \A g \in held : g = f \/ LaterOrBetter(f, g)}

WalkOn(cron, zone, t, from) ==
    LET probes     == {p \in Probes(cron, zone, from .. from + MaxDateSteps - 1) : p.fire.at > t}
        reached(d) == \A p \in probes : p.date < d => p.fire.at >= EarliestPossible(d)
        held       == {p.fire : p \in {q \in probes : reached(q.date)}}
    IN  {f \in held : \A g \in held : g = f \/ EarlierOrBetter(f, g)}

HorizonDate(date) == date + WalkDays

Instants(fires) == {f.at : f \in fires}

\* The first count of a set of firings.
Take(count, fires) ==
    {f \in fires : Cardinality({u \in Instants(fires) : u < f.at}) < count}

\* The walk of fires_after_bounded ends at the horizon, or when no date that is left can
\* hold one of the first count, or one before the caller's window ends (until, if any).
WalkList(cron, zone, after, count, until, from) ==
    LET last       == HorizonDate(Date(Local(zone, after)))
        dates      == from .. from + MaxDateSteps - 1
        probes     == {p \in Probes(cron, zone, dates) : p.fire.at > after}
        passed(d)  == {p.fire.at : p \in {q \in probes : q.date < d /\ q.fire.at < EarliestPossible(d)}}
        reached(d) == /\ d <= last
                      /\ Cardinality(passed(d)) < count
                      /\ \A u \in until : EarliestPossible(d) < u
    IN  [fires |-> Take(count, Record({p.fire : p \in {q \in probes : reached(q.date)}})),
         cut   |-> reached(last) /\ last + 1 \in dates]

-----------------------------------------------------------------------------
(* Without a zone: slot.rs, in UTC.                                        *)

At(t) == [at |-> t, mark |-> "none"]

\* Cron::last_fire_at_or_before
UtcAtOrBefore(cron, t) ==
    LET due(d) == {n \in cron.ticks : d = Date(t) => n <= Clock(t)}
        dates  == {d \in Date(t) - WalkDays + 1 .. Date(t) : d \in cron.dates /\ due(d) # {}}
    IN  UNION {{At(d * Day + n) : n \in Greatest(due(d))} : d \in Greatest(dates)}

\* Cron::next_fire_after; from the last tick of a day the walk starts on the next.
UtcAfter(cron, t) ==
    LET start  == Date(t + 1)
        due(d) == {n \in cron.ticks : d = Date(t) => n > Clock(t)}
        dates  == {d \in start .. start + WalkDays - 1 : d \in cron.dates /\ due(d) # {}}
    IN  UNION {{At(d * Day + n) : n \in Least(due(d))} : d \in Least(dates)}

\* Each firing up to the horizon that is found from the one before it, until count of
\* them are, or one is past the caller's window.
UtcList(cron, after, count, until) ==
    LET last      == HorizonDate(Date(after))
        ahead     == {u \in after + 1 .. last * Day + Day - 1 : Matches(cron, u)}
        open(c)   == c = after \/ \A v \in until : c < v
        found(u)  == \A c \in Greatest({after} \cup {v \in ahead : v < u}) :
                        open(c) /\ At(u) \in UtcAfter(cron, c)
        listed    == {u \in ahead : /\ \A v \in ahead : v <= u => found(v)
                                    /\ Cardinality({v \in ahead : v < u}) < count}
    IN  [fires |-> {At(u) : u \in listed},
         cut   |-> /\ Cardinality(listed) < count
                   /\ \A c \in Greatest({after} \cup listed) :
                        open(c) /\ \E f \in UtcAfter(cron, c) : Date(f.at) > last]

-----------------------------------------------------------------------------
(* What the controller asks.                                               *)

\* latest_due_slot: the most recent firing at or before t, or nothing.
FireAtOrBefore(cron, zone, t) ==
    IF zone.utc THEN UtcAtOrBefore(cron, t)
    ELSE WalkBack(cron, zone, t, Date(Local(zone, t)) + EdgeDays)

FireAfter(cron, zone, t) ==
    IF zone.utc THEN UtcAfter(cron, t)
    ELSE WalkOn(cron, zone, t, Date(Local(zone, t)) - EdgeDays)

\* fires_after_bounded, and next_runs without a bound: a list in order of time, as a set.
FiresAfter(cron, zone, after, count, until) ==
    IF count = 0 THEN [fires |-> {}, cut |-> FALSE]
    ELSE IF zone.utc THEN UtcList(cron, after, count, until)
    ELSE WalkList(cron, zone, after, count, until, Date(Local(zone, after)) - EdgeDays)

\* What is made of a walk's firings: those before an instant, counted up to the cap.
Skipped(walk, before, cap) ==
    LET skipped == {f \in walk.fires : f.at < before}
    IN  [count   |-> IF Cardinality(skipped) > cap THEN cap ELSE Cardinality(skipped),
         capped  |-> Cardinality(skipped) > cap,
         horizon |-> Cardinality(skipped) <= cap /\ skipped = walk.fires /\ walk.cut]

\* Mutant of SkippedSlots: no more firings are asked for than are counted.
SkippedSlotsToCap(cron, zone, after, before, cap) ==
    Skipped(FiresAfter(cron, zone, after, cap, {before}), before, cap)

\* How many slots fall strictly between two instants; it says when that is a floor.
SkippedSlots(cron, zone, after, before, cap) ==
    Skipped(FiresAfter(cron, zone, after, cap + 1, {before}), before, cap)

=============================================================================
