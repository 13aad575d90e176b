--------------------------- MODULE ScheduleChanges ---------------------------
(***************************************************************************)
(* What schedules.json promises (core/scheduler.py): the stored records go *)
(* from one whole change to the next, as if there were no file and no      *)
(* second writer, for as long as the operations of two processes do not    *)
(* overlap; what the file holds after they did is left open.  ScheduleStore *)
(* implements it.                                                          *)
(***************************************************************************)
EXTENDS ScheduleRecords

VARIABLES
    store,      \* the records
    saves,      \* operations that have reported their change as saved
    overlapped  \* the operations of two processes have overlapped

Init == IsStore(store) /\ saves = 0 /\ ~overlapped

Add(i) == i \notin DOMAIN store /\ store' = Changed(store, "add", i)

Edit(k, i) == i \in DOMAIN store /\ store' = Changed(store, k, i)

\* A saved change is the change made, no more and no less.
Serial ==
    /\ saves' = saves + 1 /\ UNCHANGED overlapped
    /\ \E i \in Id : Add(i) \/ \E k \in Kinds \ {"add"} : Edit(k, i)

Overlap == ~overlapped /\ overlapped' /\ UNCHANGED <<store, saves>>

AfterOverlap ==
    /\ overlapped /\ overlapped'
    /\ IsStore(store') /\ saves' \in {saves, saves + 1}

Next == Serial \/ Overlap \/ AfterOverlap

Spec == Init /\ [][Next]_<<store, saves, overlapped>>
=============================================================================
