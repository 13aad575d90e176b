-------------------------------- MODULE Jobs --------------------------------
(***************************************************************************)
(* A background job (integrations/services/jobs.py): its record <id>.json, *)
(* its event log <id>.jsonl, the consumer task that drives its source, and *)
(* the clients that list, load and cancel it.                              *)
(*                                                                         *)
(* The consumer and the routes /v1/jobs run on the owner's event loop and  *)
(* exclude each other between two awaits; the run log of a schedule is     *)
(* listed on a worker thread of the owner, and other processes (a CLI, a   *)
(* second server) list and cancel too.  Every read, append, write and      *)
(* rename of a file is a step of its own.                                  *)
(***************************************************************************)
EXTENDS Integers, Sequences

CONSTANTS
    LoopClient,    \* requests handled on the owner's event loop
    ThreadClient,  \* listings on a worker thread of the owner
    OtherClient,   \* clients in other processes
    Company,       \* the sets of clients a job may have
    MaxEvents,     \* bound: progress events of the source
    MaxCancels,    \* bound: requests to cancel the job
    MaxCrashes     \* bound: deaths of the owner

VARIABLES
    rec,        \* <id>.json
    tmp,        \* <id>.json.tmp, shared by every writer of the record
    log,        \* <id>.jsonl: each event's sequence number and kind
    task,       \* _TASKS: whether the job's task is registered and not done
    cancelled,  \* task.cancel() was called and is not delivered yet
    loop,       \* who runs on the owner's event loop
    pc,         \* where the consumer and the clients are
    mem,        \* the record each works on
    event,      \* the event each is appending
    handling,   \* the consumer is in an except clause
    cancels,    \* requests to cancel so far
    said,       \* history: how the source ended
    crashes,    \* history: deaths of the owner
    clients     \* the job's clients

vars == <<rec, tmp, log, task, cancelled, loop, pc, mem, event, handling, cancels, said, crashes, clients>>

Consumer == "consumer"
Free     == "free"
Client   == LoopClient \cup ThreadClient \cup OtherClient
OnLoop   == LoopClient \cup {Consumer}
Actor    == Client \cup {Consumer}
InOwner  == OnLoop \cup ThreadClient

ASSUME JobsAssumption ==
    /\ MaxEvents \in Nat /\ MaxCancels \in Nat /\ MaxCrashes \in Nat
    /\ Company \subseteq SUBSET Client
    /\ Client \cap {Consumer, Free} = {}
    /\ OtherClient \cap (LoopClient \cup ThreadClient) = {}

\* Threads or other processes use the files, too.
shared == ~(clients \subseteq LoopClient)

Running  == {"queued", "running"}
Terminal == {"complete", "failed", "canceled", "interrupted"}
Last     == {"complete", "error", "canceled"}
Kind     == Last \cup {"step", "failed step"}
Record   == [status : Running \cup Terminal, count : Nat, cancel : BOOLEAN]
NoFile    == [status |-> "no file", count |-> 0, cancel |-> FALSE]
NewRecord == [status |-> "queued", count |-> 0, cancel |-> FALSE]

\* create_job, and the creation of the consumer task
Init ==
    /\ rec = NewRecord /\ tmp = NoFile /\ log = <<>>
    /\ task = TRUE /\ cancelled = FALSE
    /\ loop  = Free
    /\ pc    = [a \in Actor |-> IF a = Consumer THEN "start" ELSE "idle"]
    /\ mem   = [a \in Actor |-> NewRecord]
    /\ event = [a \in Actor |-> "step"]
    /\ handling = FALSE
    /\ cancels = 0 /\ said = "nothing"
    /\ crashes = 0 /\ clients \in Company

\* Mutant: the routes run on worker threads.
MayRun_Anytime(a) == TRUE

\* The event loop is there for a: nobody else is between two awaits on it.
MayRun(a) == a \in OnLoop => loop = Free
Hold(a)   == loop' = IF a \in OnLoop THEN a ELSE loop
Leave(a)  == loop' = IF a \in OnLoop THEN Free ELSE loop
At(a, l)  == pc' = [pc EXCEPT ![a] = l]

-----------------------------------------------------------------------------
(* append_event and _write_job                                             *)

\* The status after an event.
StatusAfter(e) == CASE e = "complete" -> "complete"
                    [] e = "error"    -> "failed"
                    [] e = "canceled" -> "canceled"
                    [] e = "step"     -> "running"
                    [] e = "failed step" -> "failed"

\* Mutant: the number is that of the last event.
NextNumber_Same(r) == r.count

NextNumber(r) == r.count + 1

AppendRead(a) ==
    /\ pc[a] = "append" /\ rec # NoFile
    /\ mem' = [mem EXCEPT ![a] = rec]
    /\ At(a, "log")
    /\ UNCHANGED <<rec, tmp, log, task, cancelled, loop, event, handling, cancels, said, crashes, clients>>

AppendLog(a) ==
    /\ pc[a] = "log"
    /\ log' = Append(log, [seq |-> NextNumber(mem[a]), kind |-> event[a]])
    /\ mem' = [mem EXCEPT ![a].count = NextNumber(mem[a]), ![a].status = StatusAfter(event[a])]
    /\ At(a, "write append")
    /\ UNCHANGED <<rec, tmp, task, cancelled, loop, event, handling, cancels, said, crashes, clients>>

\* The record, the file a rename needs or the one a reader needs is gone: a client's
\* request fails; the consumer records the failure, unless it is in an except clause
\* already.
StepFails(a) ==
    /\ IF a = Consumer /\ ~handling
       THEN /\ event' = [event EXCEPT ![a] = "error"] /\ handling' = TRUE
            /\ Hold(a) /\ At(a, "append")
            /\ UNCHANGED task
       ELSE /\ Leave(a)
            /\ At(a, IF a = Consumer THEN "done" ELSE "idle")
            /\ task' = (task /\ a # Consumer)
            /\ UNCHANGED <<event, handling>>
    /\ UNCHANGED <<rec, tmp, log, cancelled, mem, cancels, said, crashes, clients>>

RecordGone(a) == pc[a] = "append" /\ rec = NoFile /\ StepFails(a)

\* The three writers of a record; what each does when it is written.
Writes == {"write append", "write start", "write cancel", "write listed"}

Replacing(l) == CASE l = "write append" -> "replace append"
                  [] l = "write start"  -> "replace start"
                  [] l = "write cancel" -> "replace cancel"
                  [] l = "write listed" -> "replace listed"

WriteTmp(a) ==
    /\ pc[a] \in Writes
    /\ tmp' = mem[a]
    /\ At(a, Replacing(pc[a]))
    /\ UNCHANGED <<rec, log, task, cancelled, loop, mem, event, handling, cancels, said, crashes, clients>>

\* The consumer awaits its source again, or returns and leaves _TASKS; a client answers.
\* After a failed step a source yields its error without an await in between.
Return(a) ==
    /\ IF a = Consumer /\ event[a] = "failed step" THEN UNCHANGED loop ELSE Leave(a)
    /\ At(a, CASE a # Consumer                               -> "idle"
               [] a = Consumer /\ event[a] = "step"        -> "await"
               [] a = Consumer /\ event[a] = "failed step" -> "look"
               [] a = Consumer /\ event[a] \in Last        -> "done")
    /\ task' = IF a = Consumer THEN event[a] \notin Last ELSE task

\* tmp.replace(path), of whoever wrote tmp last.
Replace(a) ==
    /\ pc[a] \in {Replacing(l) : l \in Writes} /\ tmp # NoFile
    /\ rec' = tmp /\ tmp' = NoFile
    /\ IF pc[a] = "replace cancel" THEN /\ At(a, "signal")
                                        /\ UNCHANGED <<loop, task>>
                                   ELSE Return(a)
    /\ UNCHANGED <<log, cancelled, mem, event, handling, cancels, said, crashes, clients>>

\* Another writer has renamed it away: FileNotFoundError.
ReplaceFails(a) == pc[a] \in {Replacing(l) : l \in Writes} /\ tmp = NoFile /\ StepFails(a)

-----------------------------------------------------------------------------
(* _consume_job_events                                                     *)

Start ==
    /\ pc[Consumer] = "start" /\ loop = Free
    /\ Hold(Consumer)
    /\ mem' = [mem EXCEPT ![Consumer] = [rec EXCEPT !.status = "running"]]
    /\ At(Consumer, "write start")
    /\ UNCHANGED <<rec, tmp, log, task, cancelled, event, handling, cancels, said, crashes, clients>>

Wakes == pc[Consumer] = "await" /\ loop = Free /\ Hold(Consumer)

\* The record is read once more: a cancel request makes the payload the last.
Heeded(e) == IF rec.cancel THEN "canceled" ELSE e

\* The source yields a payload; "complete" also stands for a source that ends
\* without one of the last payloads (then the flag is not looked at), "error" for
\* one that raises.
SourceYields(e, looked) ==
    /\ Wakes /\ ~cancelled
    /\ looked => rec # NoFile
    /\ e \notin Last => looked /\ Len(log) < MaxEvents /\ rec.count < MaxEvents
    /\ event' = [event EXCEPT ![Consumer] = IF looked THEN Heeded(e) ELSE e]
    /\ handling' = (e = "error" /\ ~looked)
    /\ said' = CASE e \in Last -> e [] e = "failed step" -> "error" [] e = "step" -> said
    /\ At(Consumer, "append")
    /\ UNCHANGED <<rec, tmp, log, task, cancelled, mem, cancels, crashes, clients>>

\* The error that follows a failed step.
SaysError ==
    /\ pc[Consumer] = "look"
    /\ event' = [event EXCEPT ![Consumer] = Heeded("error")]
    /\ At(Consumer, "append")
    /\ UNCHANGED <<rec, tmp, log, task, cancelled, loop, mem, handling, cancels, said, crashes, clients>>

\* The source yields, and the second look finds no record.
SourceUnread ==
    /\ pc[Consumer] = "await" /\ loop = Free /\ ~cancelled /\ rec = NoFile
    /\ StepFails(Consumer)

\* CancelledError is raised at the await.
CancelArrives ==
    /\ Wakes /\ cancelled
    /\ cancelled' = FALSE /\ handling' = TRUE
    /\ event' = [event EXCEPT ![Consumer] = "canceled"]
    /\ At(Consumer, "append")
    /\ UNCHANGED <<rec, tmp, log, task, mem, cancels, said, crashes, clients>>

\* The server stops: it cancels the task, nobody set the flag.
ServerStops ==
    /\ pc[Consumer] = "await" /\ loop = Free
    /\ cancelled' = TRUE
    /\ UNCHANGED <<rec, tmp, log, task, loop, pc, mem, event, handling, cancels, said, crashes, clients>>

-----------------------------------------------------------------------------
(* list_jobs, load_job and cancel_job                                      *)

\* Nobody knows the job's id before its consumer has started.
MayBegin(c) ==
    /\ pc[c] = "idle" /\ MayRun(c) /\ pc[Consumer] # "start" /\ rec # NoFile
    /\ c \in clients

\* A listing has read the record of a job that is not over ...
ListReads(c) ==
    /\ MayBegin(c) /\ rec.status \in Running
    /\ Hold(c)
    /\ mem' = [mem EXCEPT ![c] = rec]
    /\ At(c, "judge")
    /\ UNCHANGED <<rec, tmp, log, task, cancelled, event, handling, cancels, said, crashes, clients>>

\* Mutant: an entry of _TASKS outlives its task.
HasTask_Stale(c) == c \in InOwner

\* _TASKS is the process's own.
HasTask(c) == c \in InOwner /\ task

\* ... and looks for its task: reconcile_job.
Judge(c) ==
    /\ pc[c] = "judge"
    /\ IF HasTask(c)
       THEN /\ Leave(c) /\ At(c, "idle") /\ UNCHANGED mem
       ELSE /\ mem' = [mem EXCEPT ![c].status = "interrupted"]
            /\ At(c, "write listed") /\ UNCHANGED loop
    /\ UNCHANGED <<rec, tmp, log, task, cancelled, event, handling, cancels, said, crashes, clients>>

\* Mutant: a job that is over can be cancelled.
MayCancel_Always == TRUE

MayCancel == rec.status \notin Terminal

\* Mutant: the flag and the end are one write.
Flagged_AsEnd(r) == [r EXCEPT !.cancel = TRUE, !.status = "canceled"]

Flagged(r) == [r EXCEPT !.cancel = TRUE]

CancelReads(c) ==
    /\ c \notin ThreadClient
    /\ MayBegin(c) /\ MayCancel
    /\ cancels < MaxCancels /\ cancels' = cancels + 1
    /\ Hold(c)
    /\ mem' = [mem EXCEPT ![c] = Flagged(rec)]
    /\ At(c, "write cancel")
    /\ UNCHANGED <<rec, tmp, log, task, cancelled, event, handling, said, crashes, clients>>

\* The flag is set: cancel the task, or, where there is none, append the event.
Signal(c) ==
    /\ pc[c] = "signal"
    /\ IF HasTask(c)
       THEN /\ cancelled' = TRUE
            /\ Leave(c) /\ At(c, "idle") /\ UNCHANGED event
       ELSE /\ event' = [event EXCEPT ![c] = "canceled"]
            /\ At(c, "append") /\ UNCHANGED <<loop, cancelled>>
    /\ UNCHANGED <<rec, tmp, log, task, mem, handling, cancels, said, crashes, clients>>

MayPrune == rec.status \in Terminal

\* A later run of the schedule deletes what is over: the record, then the log.  Other
\* processes run schedules, too.
PruneReads(c) ==
    /\ c \notin ThreadClient
    /\ MayBegin(c) /\ MayPrune
    /\ Hold(c)
    /\ At(c, "prune")
    /\ UNCHANGED <<rec, tmp, log, task, cancelled, mem, event, handling, cancels, said, crashes, clients>>

PruneRecord(c) ==
    /\ pc[c] = "prune"
    /\ rec' = NoFile
    /\ At(c, "prune log")
    /\ UNCHANGED <<tmp, log, task, cancelled, loop, mem, event, handling, cancels, said, crashes, clients>>

PruneLog(c) ==
    /\ pc[c] = "prune log"
    /\ log' = <<>>
    /\ Leave(c) /\ At(c, "idle")
    /\ UNCHANGED <<rec, tmp, task, cancelled, mem, event, handling, cancels, said, crashes, clients>>

\* The owner is killed and started again: no task, no consumer.
Crash ==
    /\ crashes < MaxCrashes /\ crashes' = crashes + 1
    /\ task' = FALSE /\ cancelled' = FALSE /\ loop' = Free /\ handling' = FALSE
    /\ pc' = [a \in Actor |-> CASE a = Consumer         -> "done"
                                 [] a \in InOwner \cap Client -> "idle"
                                 [] a \in OtherClient     -> pc[a]]
    /\ UNCHANGED <<rec, tmp, log, mem, event, cancels, said, clients>>

FileStep(a) ==
    \/ AppendRead(a) \/ AppendLog(a) \/ WriteTmp(a) \/ Replace(a)
    \/ RecordGone(a) \/ ReplaceFails(a)

SourceStep == \E e \in Kind, looked \in BOOLEAN :
    (looked \/ e # "canceled") /\ SourceYields(e, looked)

ConsumerStep == FileStep(Consumer) \/ Start \/ SaysError \/ SourceStep \/ SourceUnread \/ CancelArrives

ClientStep(c) == FileStep(c) \/ Judge(c) \/ Signal(c) \/ PruneRecord(c) \/ PruneLog(c)

Next ==
    \/ ConsumerStep \/ ServerStops \/ Crash
    \/ \E c \in Client : ClientStep(c) \/ ListReads(c) \/ CancelReads(c) \/ PruneReads(c)

Spec == Init /\ [][Next]_vars

\* The loop keeps running, the source goes on yielding and comes to its end (its
\* commands and downloads have deadlines), clients finish what they began.
Fairness ==
    /\ WF_vars(FileStep(Consumer) \/ Start \/ SaysError \/ CancelArrives)
    /\ SF_vars(SourceStep \/ SourceUnread \/ CancelArrives)
    /\ \A c \in Client : WF_vars(ClientStep(c))

\* A page that shows the job or the run log polls it until the job is over.
Watched == \A c \in Client : SF_vars(ListReads(c))

FairSpec == Spec /\ Fairness /\ Watched

-----------------------------------------------------------------------------
(* Properties                                                              *)

Over == rec.status \notin Running

\* Every variable stays in its type; the event loop is held by the one actor on it
\* that is between two awaits.
TypeOK ==
    /\ {rec, tmp} \subseteq Record \cup {NoFile} /\ clients \in Company
    /\ \A i \in 1..Len(log) : log[i] \in [seq : Nat, kind : Kind]
    /\ task \in BOOLEAN /\ cancelled \in BOOLEAN /\ handling \in BOOLEAN
    /\ loop \in OnLoop \cup {Free}
    /\ mem \in [Actor -> Record] /\ event \in [Actor -> Kind]
    /\ said \in Last \cup {"nothing"} /\ cancels \in 0..MaxCancels
    /\ crashes \in 0..MaxCrashes
    /\ \A a \in OnLoop : pc[a] \notin {"idle", "start", "await", "done"} <=> loop = a

\* On the owner's loop alone, whatever is cancelled, stopped, deleted or killed when, the
\* record is a job's life: queued, running, over once and as its source ended or
\* somebody asked, interrupted only after a death of the process ("Mark orphaned
\* running jobs from previous server sessions as interrupted", reconcile_job), and
\* deleted only when it is over.
Life == INSTANCE JobLife WITH status <- rec.status

LivesOnce == Life!Spec

\* On the owner's loop alone: the log of a job that is over ends with the event that
\* finished it.
EndIsLogged ==
    ~shared /\ rec.status \in Terminal \ {"interrupted"}
        => log # <<>> /\ StatusAfter(log[Len(log)].kind) = rec.status

\* With threads and other processes too: a job whose process died, or whose
\* consumer is gone, does not stay running as long as somebody watches it.
OrphansEnd == rec.status \in Running /\ ~task ~> rec.status \notin Running

\* On the owner's loop alone: a job that was asked to stop ends.
CancelEnds == ~shared /\ rec.cancel ~> Over
=============================================================================
