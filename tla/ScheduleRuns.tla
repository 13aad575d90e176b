---------------------------- MODULE ScheduleRuns ----------------------------
(***************************************************************************)
(* The runs one API process starts: its poll (run_loop, run_due_tasks),    *)
(* "Run now" requests (POST /v1/schedules/{id}/run), both through          *)
(* run_schedule_once, the runs themselves, and the edits and cancels the   *)
(* user makes meanwhile (integrations/services/schedule_runner.py,         *)
(* api/routes/schedules.py, jobs.cancel_job).                              *)
(*                                                                         *)
(* Everything runs on one event loop: a step is what the code does between *)
(* two awaits.  Each access to the store is atomic (STORE_LOCK,            *)
(* ScheduleStore); the lock between processes is ScheduleLock's.           *)
(***************************************************************************)
EXTENDS Integers

CONSTANTS
    Id,         \* schedules
    Request,    \* "Run now" requests that may be in progress at once
    MaxRuns,    \* bound: runs started
    ModeOf,     \* [Id -> Mode]
    OnlyModes,  \* only_modes: every mode when it is not given
    AllowDo,    \* allow_do: whether this runner has a terminal
    Attended,   \* the schedules the user runs, disables, enables and removes (bound)
    UserCancels,\* whether the user cancels runs
    CanLose,    \* whether another runner may take the lock over
    MarkMayFail \* whether the store may fail to record the end of a run

Mode == {"ask", "convene", "do"}

ASSUME RunsAssumption ==
    /\ Id # {} /\ MaxRuns \in Nat
    /\ ModeOf \in [Id -> Mode] /\ OnlyModes \subseteq Mode /\ AllowDo \in BOOLEAN
    /\ Attended \subseteq Id /\ UserCancels \in BOOLEAN
    /\ CanLose \in BOOLEAN /\ MarkMayFail \in BOOLEAN

VARIABLES
    rec,       \* the schedules as stored
    inFlight,  \* _IN_FLIGHT: the last job started for a schedule
    job,       \* the runs by number: their schedule, thread and state
    held,      \* ScheduleLock.held: whether the last heartbeat found the lock ours
    poll,      \* the poll loop: where it is, and the run it is about
    due,       \* run_due_tasks: what is left of the snapshot of due records
    req,       \* the requests: where each is, and the run it is about
    threads    \* conversations created so far

vars == <<rec, inFlight, job, held, poll, due, req, threads>>

None   == 0
Job    == 1..MaxRuns
Thread == 1..MaxRuns

\* A stored record, and the copy of one a caller works from.
StoredRecord == [here : BOOLEAN, enabled : BOOLEAN, due : BOOLEAN, thread : Thread \cup {None}]
Copy         == [id : Id, thread : Thread \cup {None}]
AnyId        == CHOOSE i \in Id : TRUE
NoCopy       == [id |-> AnyId, thread |-> None]

NotRun == [of |-> AnyId, thread |-> None, state |-> "none", fresh |-> FALSE]

Init ==
    /\ rec      = [i \in Id |-> [here |-> TRUE, enabled |-> TRUE, due |-> FALSE, thread |-> None]]
    /\ inFlight = [i \in Id |-> None]
    /\ job      = [j \in Job |-> NotRun]
    /\ held     = TRUE
    /\ poll     = [at |-> "sleep", copy |-> NoCopy, job |-> None]
    /\ due      = {}
    /\ req      = [q \in Request |-> [at |-> "idle", copy |-> NoCopy]]
    /\ threads  = 0

Running(j) == j # None /\ job[j].state = "running"

\* Mutants: a run blocks the next one for good; no run blocks another.
InFlightJob_Sticky(i) == inFlight[i] # None
InFlightJob_Never(i)  == FALSE

\* in_flight_job: the entry counts while its task is not done.
InFlightJob(i) == Running(inFlight[i])

Unused(j) == job[j].state = "none" /\ \A k \in Job : k < j => job[k].state # "none"

\* Mutant: the registry names a run whose start failed.
Launch_RegistryOnly(j, c, fresh) ==
    /\ Unused(j)
    /\ inFlight' = [inFlight EXCEPT ![c.id] = j]
    /\ UNCHANGED job

\* jobs.start_job_with_id: the consumer task exists and the registry names it.
Launch(j, c, fresh) ==
    /\ Unused(j)
    /\ job'      = [job EXCEPT ![j] = [of |-> c.id, thread |-> c.thread,
                                       state |-> "running", fresh |-> fresh]]
    /\ inFlight' = [inFlight EXCEPT ![c.id] = j]

-----------------------------------------------------------------------------
(* The poll                                                                *)

\* The modes this runner runs.
MayRun(i) == ModeOf[i] \in OnlyModes /\ (ModeOf[i] = "do" => AllowDo)

\* A heartbeat, of the loop or of its side task, finds another runner's record.
LoseLock ==
    /\ CanLose /\ held /\ poll.at # "ended"
    /\ held' = FALSE
    /\ UNCHANGED <<rec, inFlight, job, poll, due, req, threads>>

\* The top of a pass: the store is loaded once, the due records are kept.
PollWakes ==
    /\ poll.at = "sleep" /\ held
    /\ poll' = [poll EXCEPT !.at = "pass"]
    /\ due'  = {[id |-> i, thread |-> rec[i].thread] :
                    i \in {x \in Id : rec[x].here /\ rec[x].enabled /\ rec[x].due}}
    /\ UNCHANGED <<rec, inFlight, job, held, req, threads>>

\* Before a pass and before each run of it: without the lock the loop stands down.
PollStandsDown ==
    /\ poll.at \in {"sleep", "pass"} /\ ~held
    /\ poll' = [poll EXCEPT !.at = "ended"]
    /\ due'  = {}
    /\ UNCHANGED <<rec, inFlight, job, held, req, threads>>

\* The pass comes to a due record.
Turn(c) == poll.at = "pass" /\ held /\ c \in due

\* Skipped, and left due: another runner's modes, and a schedule whose run goes on.
PollSkips(c) ==
    /\ Turn(c)
    /\ ~MayRun(c.id) \/ InFlightJob(c.id)
    /\ due' = due \ {c}
    /\ UNCHANGED <<rec, inFlight, job, held, poll, req, threads>>

\* A record with a thread is run without any await in between ...
PollRuns(c, j) ==
    /\ Turn(c)
    /\ MayRun(c.id) /\ ~InFlightJob(c.id) /\ c.thread # None
    /\ Launch(j, c, FALSE)
    /\ poll' = [at |-> "wait", copy |-> NoCopy, job |-> j]
    /\ due'  = due \ {c}
    /\ UNCHANGED <<rec, held, req, threads>>

\* ... one without awaits the creation of its conversation first.
PollAwaitsThread(c) ==
    /\ Turn(c)
    /\ MayRun(c.id) /\ ~InFlightJob(c.id) /\ c.thread = None
    /\ poll' = [at |-> "thread", copy |-> c, job |-> None]
    /\ due'  = due \ {c}
    /\ UNCHANGED <<rec, inFlight, job, held, req, threads>>

PollHasThread(j) ==
    /\ poll.at = "thread" /\ threads < MaxRuns
    /\ threads' = threads + 1
    /\ Launch(j, [poll.copy EXCEPT !.thread = threads'], TRUE)
    /\ poll'    = [at |-> "wait", copy |-> NoCopy, job |-> j]
    /\ UNCHANGED <<rec, held, due, req>>

\* wait_for_run returned; when the run was cancelled it raises, which ends the loop.
PollWaited ==
    /\ poll.at = "wait" /\ ~Running(poll.job)
    /\ poll' = [poll EXCEPT !.at  = IF job[poll.job].state = "canceled" THEN "ended" ELSE "pass",
                            !.job = None]
    /\ UNCHANGED <<rec, inFlight, job, held, due, req, threads>>

PollSleeps ==
    /\ poll.at = "pass" /\ held /\ due = {}
    /\ poll' = [poll EXCEPT !.at = "sleep"]
    /\ UNCHANGED <<rec, inFlight, job, held, due, req, threads>>

-----------------------------------------------------------------------------
(* "Run now"                                                               *)

\* The route loads the record in a worker thread and comes back to the loop with a copy.
RunNow(q, i) ==
    /\ req[q].at = "idle" /\ i \in Attended /\ rec[i].here
    /\ req' = [req EXCEPT ![q] = [at |-> "loaded", copy |-> [id |-> i, thread |-> rec[i].thread]]]
    /\ UNCHANGED <<rec, inFlight, job, held, poll, due, threads>>

Answer(q) == req' = [req EXCEPT ![q] = [at |-> "idle", copy |-> NoCopy]]

\* 409
Refuse(q) ==
    /\ req[q].at = "loaded" /\ InFlightJob(req[q].copy.id)
    /\ Answer(q)
    /\ UNCHANGED <<rec, inFlight, job, held, poll, due, threads>>

RequestRuns(q, j) ==
    /\ req[q].at = "loaded" /\ ~InFlightJob(req[q].copy.id) /\ req[q].copy.thread # None
    /\ Launch(j, req[q].copy, FALSE)
    /\ Answer(q)
    /\ UNCHANGED <<rec, held, poll, due, threads>>

RequestAwaitsThread(q) ==
    /\ req[q].at = "loaded" /\ ~InFlightJob(req[q].copy.id) /\ req[q].copy.thread = None
    /\ req' = [req EXCEPT ![q].at = "thread"]
    /\ UNCHANGED <<rec, inFlight, job, held, poll, due, threads>>

RequestHasThread(q, j) ==
    /\ req[q].at = "thread" /\ threads < MaxRuns
    /\ threads' = threads + 1
    /\ Launch(j, [req[q].copy EXCEPT !.thread = threads'], TRUE)
    /\ Answer(q)
    /\ UNCHANGED <<rec, held, poll, due>>

-----------------------------------------------------------------------------
(* The runs, the user, the time                                            *)

\* mark_run: the next due time, and the thread the next run is to append to; an
\* unwritable store is logged, and the schedule stays due.
Marked(j) ==
    \/ rec' = [rec EXCEPT ![job[j].of] =
                  IF @.here THEN [@ EXCEPT !.due = FALSE, !.thread = job[j].thread] ELSE @]
    \/ MarkMayFail /\ UNCHANGED rec

\* A run ends in ok, deferred, skipped or error, all of them marked.
Finish(j) ==
    /\ Running(j)
    /\ job' = [job EXCEPT ![j].state = "done"]
    /\ Marked(j)
    /\ UNCHANGED <<inFlight, held, poll, due, req, threads>>

\* POST /v1/jobs/{id}/cancel: the source marks an error, the consumer re-raises.
CancelRun(j) ==
    /\ UserCancels /\ Running(j)
    /\ job' = [job EXCEPT ![j].state = "canceled"]
    /\ Marked(j)
    /\ UNCHANGED <<inFlight, held, poll, due, req, threads>>

SetEnabled(i, b) ==
    /\ i \in Attended /\ rec[i].here /\ rec[i].enabled # b
    /\ rec' = [rec EXCEPT ![i].enabled = b]
    /\ UNCHANGED <<inFlight, job, held, poll, due, req, threads>>

Remove(i) ==
    /\ i \in Attended /\ rec[i].here
    /\ rec' = [rec EXCEPT ![i] = [@ EXCEPT !.here = FALSE, !.enabled = FALSE, !.due = FALSE]]
    /\ UNCHANGED <<inFlight, job, held, poll, due, req, threads>>

BecomesDue(i) ==
    /\ rec[i].here /\ ~rec[i].due
    /\ rec' = [rec EXCEPT ![i].due = TRUE]
    /\ UNCHANGED <<inFlight, job, held, poll, due, req, threads>>

PollStep ==
    \/ PollWakes \/ PollStandsDown \/ PollWaited \/ PollSleeps
    \/ \E c \in due : PollSkips(c) \/ PollAwaitsThread(c) \/ \E j \in Job : PollRuns(c, j)
    \/ \E j \in Job : PollHasThread(j)

RequestStep(q) ==
    \/ Refuse(q) \/ RequestAwaitsThread(q)
    \/ \E j \in Job : RequestRuns(q, j) \/ RequestHasThread(q, j)

Next ==
    \/ PollStep \/ LoseLock
    \/ \E q \in Request : RequestStep(q) \/ \E i \in Id : RunNow(q, i)
    \/ \E j \in Job : Finish(j) \/ CancelRun(j)
    \/ \E i \in Id : Remove(i) \/ BecomesDue(i) \/ \E b \in BOOLEAN : SetEnabled(i, b)

Spec == Init /\ [][Next]_vars

\* The event loop keeps running; every run comes to an end (its provider calls time out).
Fairness ==
    /\ WF_vars(PollStep)
    /\ \A q \in Request : WF_vars(RequestStep(q))
    /\ \A j \in Job : WF_vars(Finish(j))

FairSpec == Spec /\ Fairness

-----------------------------------------------------------------------------
(* Properties                                                              *)

\* Every variable stays in its type; the poll waits for a run that was started,
\* and the registry names runs of the schedule it is asked about.
TypeOK ==
    /\ rec \in [Id -> StoredRecord]
    /\ inFlight \in [Id -> Job \cup {None}]
    /\ job \in [Job -> [of : Id, thread : Thread \cup {None}, fresh : BOOLEAN,
                        state : {"none", "running", "done", "canceled"}]]
    /\ poll \in [at : {"sleep", "pass", "thread", "wait", "ended"}, copy : Copy,
                 job : Job \cup {None}]
    /\ poll.at = "wait" <=> poll.job # None
    /\ due \subseteq Copy /\ held \in BOOLEAN
    /\ req \in [Request -> [at : {"idle", "loaded", "thread"}, copy : Copy]]
    /\ threads \in 0..MaxRuns
    /\ \A i \in Id : inFlight[i] # None
          => job[inFlight[i]].of = i /\ job[inFlight[i]].state # "none"

\* Two runs of one schedule are in flight at once only when the later of them,
\* or one started in between, came after a wait for a new conversation (the one
\* await between the check of _IN_FLIGHT and its update).
OverlapNeedsNewThread ==
    \A j, k \in Job : j < k /\ Running(j) /\ Running(k) /\ job[j].of = job[k].of
        => \E f \in (j + 1)..k : job[f].of = job[j].of /\ job[f].fresh

\* A due schedule of a mode this runner runs does run, or stops being due otherwise, as
\* long as the poll lives and the runs bound is not reached: a finished run never blocks
\* the next, nor do the schedules a pass leaves due for another runner.
DueRuns ==
    \A i \in Id : MayRun(i) /\ rec[i].here /\ rec[i].enabled /\ rec[i].due
        ~> \/ ~rec[i].due \/ ~rec[i].enabled
           \/ poll.at = "ended"
           \/ \A j \in Job : job[j].state # "none"

\* "the API never ends up without a scheduler until a restart" (api/server.py, _start_scheduler).
PollerLives == poll.at # "ended"
=============================================================================
