--------------------------- MODULE MCScheduleRuns ---------------------------
(* Instances of ScheduleRuns: a schedule the runner may run and one of     *)
(* mode do, and "Run now" requests, one at a time, beside the poll.        *)
EXTENDS ScheduleRuns

CONSTANTS s1, s2, r1

OneSchedule == {s1}
Schedules   == {s1, s2}
Modes       == [i \in Id |-> IF i = s2 THEN "do" ELSE "ask"]
NoRequest   == {}
OneRequest  == {r1}
Nobody      == {}
=============================================================================
