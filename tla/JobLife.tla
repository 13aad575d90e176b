------------------------------- MODULE JobLife -------------------------------
(***************************************************************************)
(* The life of a job, as its record shows it to everybody.  Once the files *)
(* of the job are shared with threads and other processes, only this much  *)
(* is promised: the status is one.                                         *)
(***************************************************************************)
EXTENDS Naturals

VARIABLES
    status,    \* of the job, or "no file"
    said,      \* how its source ended
    crashes,   \* deaths of the process that runs it
    shared     \* its files are

vars == <<status, said, crashes, shared>>

Going == {"queued", "running"}
Gone  == "no file"
Ends  == {"complete", "failed", "canceled", "interrupted"}

Init == status = "queued" /\ said = "nothing" /\ crashes = 0 /\ shared \in BOOLEAN

Says ==
    /\ status = "running" /\ said = "nothing"
    /\ said' \in {"complete", "error", "canceled"}
    /\ UNCHANGED <<status, crashes, shared>>

Dies == crashes' = crashes + 1 /\ UNCHANGED <<status, said, shared>>

Runs == status \in Going /\ status' = "running" /\ UNCHANGED <<said, crashes, shared>>

Finishes ==
    /\ status \in Going
    /\ \/ said = "complete" /\ status' = "complete"
       \/ said = "error" /\ status' = "failed"
       \/ status' = "canceled"
       \/ crashes > 0 /\ status' = "interrupted"
    /\ UNCHANGED <<said, crashes, shared>>

Forgets == status \in Ends /\ status' = Gone /\ UNCHANGED <<said, crashes, shared>>

\* What a foreign writer makes of it.
Overwrites ==
    /\ shared
    /\ status' \in Going \cup Ends \cup {Gone} /\ said' \in {"nothing", "complete", "error", "canceled"}
    /\ crashes' = crashes
    /\ UNCHANGED shared

Next == Says \/ Dies \/ Runs \/ Finishes \/ Forgets \/ Overwrites

Spec == Init /\ [][Next]_vars
=============================================================================
