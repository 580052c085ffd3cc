-------------------------- MODULE MCBackupSchedule --------------------------
(***************************************************************************)
(* The schedule, and beside it the cadence it asks for its slots, over a   *)
(* family of expressions and zones whose offset changes near every instant *)
(* the schedule lives.                                                     *)
(***************************************************************************)
EXTENDS ScheduleCadence

Dates == -20 .. 24

\* Every date, one date, every third date.
AllCrons == [dates : {Dates, {2}, {-3}} \cup {{d \in Dates : d % 3 = k} : k \in 0 .. 2},
             ticks : {{0}, {3}, {1, 2}, {0, 2}}]

\* Half a day either side of UTC, and jumps of a whole day; one change is near the horizon
\* of the longer lag.
AllZones == [utc : {FALSE}, before : {-2, 0, 1, 2}, after : {-2, 0, 2}, change : 0 .. 10]
            \cup [utc : {FALSE}, before : {2}, after : {-2}, change : {-12}]
            \cup [utc : {TRUE}, before : {0}, after : {0}, change : {0}]

=============================================================================
