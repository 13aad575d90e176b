--------------------------- MODULE ScheduleRecords ---------------------------
(***************************************************************************)
(* The records of schedules.json and what an operation does to them        *)
(* (core/scheduler.py: ScheduledTask, Scheduler.add .. mark_run).  A record *)
(* is what the writers change of it: whether it is enabled and how many    *)
(* runs it has recorded.                                                   *)
(***************************************************************************)
EXTENDS Integers, Functions

CONSTANT Id   \* record ids; add takes one never used before (uuid4)

Record == [enabled : BOOLEAN, runs : Nat]
IsStore(f) == /\ DOMAIN f \subseteq Id
              /\ \A i \in DOMAIN f : f[i] \in Record
NewRecord == [enabled |-> TRUE, runs |-> 0]
NoRecords == [i \in {} |-> NewRecord]

Without(f, i) == Restrict(f, DOMAIN f \ {i})
With(f, i, rec) == [j \in DOMAIN f \cup {i} |-> IF j = i THEN rec ELSE f[j]]

Kinds == {"add", "remove", "disable", "mark"}

\* add, remove, set_enabled and update, mark_run, of a record that is there (or, for
\* add, is not).
Changed(f, k, i) ==
    CASE k = "add"     -> With(f, i, NewRecord)
      [] k = "remove"  -> Without(f, i)
      [] k = "disable" -> [f EXCEPT ![i].enabled = FALSE]
      [] k = "mark"    -> [f EXCEPT ![i].runs = @ + 1]
=============================================================================
