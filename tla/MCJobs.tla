------------------------------- MODULE MCJobs -------------------------------
(* Instances of a job and its watcher: a page on the loop alone, with the  *)
(* run log's worker thread, or with another process.                       *)
EXTENDS JobWatch

CONSTANTS page, runLog, otherProcess

Pages    == {page}
Threads  == {runLog}
Others   == {otherProcess}
Either   == {Pages, Threads, Others}
=============================================================================
