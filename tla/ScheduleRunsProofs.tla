------------------------- MODULE ScheduleRunsProofs -------------------------
(***************************************************************************)
(* Proofs about ScheduleRuns, for any schedules, any number of "Run now"   *)
(* requests and of runs: the types, and that two runs of one schedule      *)
(* overlap only across the creation of a conversation.                     *)
(***************************************************************************)
EXTENDS ScheduleRuns, TLAPS

Started(j) == job[j].state # "none"

\* Runs are numbered in the order they start.
InOrder == \A j, k \in Job : k < j /\ Started(j) => Started(k)

\* The registry names the last run started for a schedule.
NamesLast == \A j \in Job : Started(j) => j \leq inFlight[job[j].of]

\* A run of schedule i, after run j and up to run k, started after a wait for a conversation.
FreshOf(i, f)         == job[f].of = i /\ job[f].fresh
FreshBetween(i, j, k) == \E f \in (j + 1)..k : FreshOf(i, f)

\* A run the registry no longer names, and which goes on, was overtaken by such a run:
\* what the next check of the registry cannot see it, this run explains.
Overtaken ==
    \A j \in Job : Running(j) /\ j < inFlight[job[j].of]
        => FreshBetween(job[j].of, j, inFlight[job[j].of])

RunsInv == TypeOK /\ InOrder /\ NamesLast /\ Overtaken /\ OverlapNeedsNewThread

-----------------------------------------------------------------------------
(* Types                                                                   *)

Run   == [of : Id, thread : Thread \cup {None}, fresh : BOOLEAN,
          state : {"none", "running", "done", "canceled"}]
Poll  == [at : {"sleep", "pass", "thread", "wait", "ended"}, copy : Copy, job : Job \cup {None}]
Asked == [at : {"idle", "loaded", "thread"}, copy : Copy]

LEMMA NumbersTyped ==
    /\ None \notin Job /\ None \notin Thread
    /\ \A n \in 0..MaxRuns : n < MaxRuns => n + 1 \in Thread /\ n + 1 \in 0..MaxRuns
    /\ 0 \in 0..MaxRuns
  BY RunsAssumption DEF None, Job, Thread

LEMMA NoCopyTyped == AnyId \in Id /\ NoCopy \in Copy
  BY RunsAssumption DEF AnyId, NoCopy, Copy

\* A copy of a record, and one whose conversation has just been created.
LEMMA CopyTyped ==
    ASSUME NEW c \in Copy, NEW t \in Thread \cup {None}
    PROVE  /\ c.id \in Id /\ c.thread \in Thread \cup {None}
           /\ [c EXCEPT !.thread = t] \in Copy
           /\ [c EXCEPT !.thread = t].id = c.id
  BY DEF Copy

LEMMA InitTyped == Init => TypeOK
  <1> SUFFICES ASSUME Init PROVE TypeOK
    OBVIOUS
  <1> USE NumbersTyped, NoCopyTyped DEF Init
  <1>1. rec \in [Id -> StoredRecord]
    BY DEF StoredRecord
  <1>2. inFlight \in [Id -> Job \cup {None}] /\ \A i \in Id : inFlight[i] = None
    OBVIOUS
  <1>3. NotRun \in Run
    BY DEF NotRun, Run
  <1>4. job \in [Job -> Run]
    BY <1>3
  <1>5. poll \in Poll /\ poll.at = "sleep" /\ poll.job = None
    BY DEF Poll
  <1>6. due \subseteq Copy /\ threads \in 0..MaxRuns
    OBVIOUS
  <1>7. req \in [Request -> Asked]
    BY DEF Asked
  <1> QED BY <1>1, <1>2, <1>4, <1>5, <1>6, <1>7 DEF TypeOK, Run, Poll, Asked

\* Starting a run: the registry and the runs stay in their types and agree.
LEMMA LaunchTyped ==
    ASSUME TypeOK, NEW j \in Job, NEW c \in Copy, NEW fresh \in BOOLEAN, Launch(j, c, fresh)
    PROVE  /\ inFlight' \in [Id -> Job \cup {None}]
           /\ job' \in [Job -> Run]
           /\ \A i \in Id : inFlight'[i] # None
                 => job'[inFlight'[i]].of = i /\ job'[inFlight'[i]].state # "none"
  <1> DEFINE new == [of |-> c.id, thread |-> c.thread, state |-> "running", fresh |-> fresh]
  <1>1. c.id \in Id /\ c.thread \in Thread \cup {None}
    BY DEF Copy
  <1>2. new \in Run /\ new.of = c.id /\ new.state = "running"
    BY <1>1 DEF Run
  <1>3. /\ job' = [job EXCEPT ![j] = new]
        /\ inFlight' = [inFlight EXCEPT ![c.id] = j]
        /\ job[j].state = "none"
    BY DEF Launch, Unused
  <1>4. /\ job \in [Job -> Run] /\ inFlight \in [Id -> Job \cup {None}]
        /\ \A i \in Id : inFlight[i] # None
              => job[inFlight[i]].of = i /\ job[inFlight[i]].state # "none"
    BY DEF TypeOK, Run
  <1> HIDE DEF new
  <1>5. inFlight' \in [Id -> Job \cup {None}] /\ job' \in [Job -> Run]
    BY <1>1, <1>2, <1>3, <1>4
  <1>6. ASSUME NEW i \in Id, inFlight'[i] # None
        PROVE  job'[inFlight'[i]].of = i /\ job'[inFlight'[i]].state # "none"
    <2>1. CASE i = c.id
      <3>1. inFlight'[i] = j /\ job'[j] = new
        BY <1>3, <1>4, <2>1
      <3> QED BY <3>1, <1>2, <2>1
    <2>2. CASE i # c.id
      <3>1. inFlight'[i] = inFlight[i] /\ inFlight[i] \in Job
        BY <1>1, <1>3, <1>4, <1>6, <2>2
      <3>2. inFlight[i] # j
        BY <3>1, <1>3, <1>4, <1>6
      <3>3. job'[inFlight[i]] = job[inFlight[i]]
        BY <3>1, <3>2, <1>3, <1>4
      <3> QED BY <3>1, <3>3, <1>4, <1>6
    <2> QED BY <2>1, <2>2
  <1> QED BY <1>5, <1>6

\* A run comes to an end, and its schedule is marked.
LEMMA EndTyped ==
    ASSUME TypeOK, NEW j \in Job, Running(j), NEW s \in {"done", "canceled"},
           job' = [job EXCEPT ![j].state = s], Marked(j), UNCHANGED inFlight
    PROVE  /\ rec' \in [Id -> StoredRecord]
           /\ job' \in [Job -> Run]
           /\ \A k \in Job : /\ job'[k].of = job[k].of /\ job'[k].fresh = job[k].fresh
                             /\ job'[k].state = IF k = j THEN s ELSE job[k].state
           /\ \A i \in Id : inFlight'[i] # None
                 => job'[inFlight'[i]].of = i /\ job'[inFlight'[i]].state # "none"
  <1>1. job \in [Job -> Run] /\ inFlight \in [Id -> Job \cup {None}] /\ rec \in [Id -> StoredRecord]
    BY DEF TypeOK, Run
  <1>2. job[j] \in Run
    BY <1>1
  <1>3. [job[j] EXCEPT !.state = s] \in Run
    BY <1>2 DEF Run
  <1>4. /\ [job[j] EXCEPT !.state = s].of = job[j].of
        /\ [job[j] EXCEPT !.state = s].fresh = job[j].fresh
        /\ [job[j] EXCEPT !.state = s].state = s
    BY <1>2 DEF Run
  <1>5. \A k \in Job : job'[k] = IF k = j THEN [job[j] EXCEPT !.state = s] ELSE job[k]
    BY <1>1
  <1>6. job' \in [Job -> Run]
    BY <1>1, <1>3
  <1>7. \A k \in Job : /\ job'[k].of = job[k].of /\ job'[k].fresh = job[k].fresh
                       /\ job'[k].state = IF k = j THEN s ELSE job[k].state
    <2> TAKE k \in Job
    <2>1. CASE k = j
      BY <1>4, <1>5, <2>1
    <2>2. CASE k # j
      <3>1. job'[k] = job[k]
        BY <1>5, <2>2
      <3> QED BY <2>2, <3>1
    <2> QED BY <2>1, <2>2
  <1>8. rec' \in [Id -> StoredRecord]
    <2> DEFINE i == job[j].of
               r == rec[i]
    <2>1. i \in Id /\ job[j].thread \in Thread \cup {None} /\ r \in StoredRecord
      BY <1>1, <1>2 DEF Run
    <2>2. [r EXCEPT !.due = FALSE, !.thread = job[j].thread] \in StoredRecord
      BY <2>1 DEF StoredRecord
    <2>3. \/ rec' = [rec EXCEPT ![i] = IF r.here
                                       THEN [r EXCEPT !.due = FALSE, !.thread = job[j].thread]
                                       ELSE r]
          \/ rec' = rec
      BY DEF Marked
    <2> HIDE DEF r, i
    <2> QED BY <1>1, <2>1, <2>2, <2>3
  <1>9. \A i \in Id : inFlight'[i] # None
           => job'[inFlight'[i]].of = i /\ job'[inFlight'[i]].state # "none"
    BY <1>1, <1>7 DEF TypeOK
  <1> QED BY <1>6, <1>7, <1>8, <1>9

\* The lock is held or lost.
LEMMA HeldTyped == TypeOK /\ [Next]_vars => held' \in BOOLEAN
  <1> SUFFICES ASSUME TypeOK, [Next]_vars PROVE held' \in BOOLEAN
    OBVIOUS
  <1>1. held \in BOOLEAN
    BY DEF TypeOK
  <1>2. PollStep => held' = held
    BY DEF PollStep, PollWakes, PollStandsDown, PollWaited, PollSleeps, PollSkips,
           PollAwaitsThread, PollRuns, PollHasThread
  <1>3. \A q \in Request : RequestStep(q) \/ (\E i \in Id : RunNow(q, i)) => held' = held
    BY DEF RequestStep, Refuse, RequestAwaitsThread, RequestRuns, RequestHasThread, RunNow
  <1>4. \A j \in Job : Finish(j) \/ CancelRun(j) => held' = held
    BY DEF Finish, CancelRun
  <1>5. \A i \in Id : Remove(i) \/ BecomesDue(i) \/ (\E b \in BOOLEAN : SetEnabled(i, b))
                        => held' = held
    BY DEF Remove, BecomesDue, SetEnabled
  <1>6. LoseLock => held' = FALSE
    BY DEF LoseLock
  <1>7. UNCHANGED vars => held' = held
    BY DEF vars
  <1> QED BY <1>1, <1>2, <1>3, <1>4, <1>5, <1>6, <1>7 DEF Next

\* A copy is taken of a record.
LEMMA RecordCopied ==
    ASSUME TypeOK, NEW i \in Id
    PROVE  [id |-> i, thread |-> rec[i].thread] \in Copy
  BY DEF TypeOK, StoredRecord, Copy

\* The steps of the poll.
LEMMA PollTyped == TypeOK /\ PollStep => TypeOK'
  <1> SUFFICES ASSUME TypeOK, PollStep PROVE TypeOK'
    OBVIOUS
  <1>1. /\ poll \in Poll /\ (poll.at = "wait" <=> poll.job # None)
        /\ due \subseteq Copy /\ threads \in 0..MaxRuns
        /\ rec \in [Id -> StoredRecord] /\ req \in [Request -> Asked]
        /\ inFlight \in [Id -> Job \cup {None}] /\ job \in [Job -> Run]
        /\ \A i \in Id : inFlight[i] # None
              => job[inFlight[i]].of = i /\ job[inFlight[i]].state # "none"
    BY DEF TypeOK, Poll, Run, Asked
  <1>2. ASSUME NEW at \in {"sleep", "pass", "thread", "ended"}, NEW c \in Copy
        PROVE  /\ [at |-> at, copy |-> c, job |-> None] \in Poll
               /\ [at |-> at, copy |-> c, job |-> None].at # "wait"
               /\ [at |-> at, copy |-> c, job |-> None].job = None
    BY <1>2 DEF Poll
  <1>3. ASSUME NEW at \in {"sleep", "pass", "thread", "ended"}
        PROVE  /\ [poll EXCEPT !.at = at, !.job = None] \in Poll
               /\ [poll EXCEPT !.at = at, !.job = None].at # "wait"
               /\ [poll EXCEPT !.at = at, !.job = None].job = None
               /\ poll.job = None => /\ [poll EXCEPT !.at = at] \in Poll
                                     /\ [poll EXCEPT !.at = at].at # "wait"
                                     /\ [poll EXCEPT !.at = at].job = None
    BY <1>1 DEF Poll
  <1>4. ASSUME NEW j \in Job
        PROVE  /\ [at |-> "wait", copy |-> NoCopy, job |-> j] \in Poll
               /\ [at |-> "wait", copy |-> NoCopy, job |-> j].at = "wait"
               /\ [at |-> "wait", copy |-> NoCopy, job |-> j].job # None
    BY NoCopyTyped, NumbersTyped DEF Poll
  <1> DEFINE PollFine == poll' \in Poll /\ (poll'.at = "wait" <=> poll'.job # None)
             RunsFine == /\ inFlight' \in [Id -> Job \cup {None}] /\ job' \in [Job -> Run]
                         /\ \A i \in Id : inFlight'[i] # None
                               => job'[inFlight'[i]].of = i /\ job'[inFlight'[i]].state # "none"
  <1>5. UNCHANGED <<inFlight, job>> => RunsFine
    BY <1>1
  <1>6. /\ rec' \in [Id -> StoredRecord] /\ req' \in [Request -> Asked]
        /\ due' \subseteq Copy /\ threads' \in 0..MaxRuns /\ PollFine /\ RunsFine
    <2>1. CASE PollWakes
      <3>1. due' \subseteq Copy
        BY <2>1, RecordCopied DEF PollWakes
      <3>2. PollFine
        BY <1>1, <1>3, <2>1 DEF PollWakes
      <3> QED BY <1>1, <1>5, <2>1, <3>1, <3>2 DEF PollWakes
    <2>2. CASE PollWaited
      <3>1. PollFine
        BY <1>3, <2>2 DEF PollWaited
      <3> QED BY <1>1, <1>5, <2>2, <3>1 DEF PollWaited
    <2>3. CASE PollSleeps
      <3>1. PollFine
        BY <1>1, <1>3, <2>3 DEF PollSleeps
      <3> QED BY <1>1, <1>5, <2>3, <3>1 DEF PollSleeps
    <2>8. CASE PollStandsDown
      <3>1. poll.at # "wait"
        BY <2>8 DEF PollStandsDown
      <3>2. PollFine
        BY <1>1, <1>3, <2>8, <3>1 DEF PollStandsDown
      <3> QED BY <1>1, <1>5, <2>8, <3>2 DEF PollStandsDown
    <2>4. ASSUME NEW c \in due, PollSkips(c)
          PROVE  <1>6
      <3>1. poll' = poll
        BY <2>4 DEF PollSkips
      <3>2. PollFine
        BY <1>1, <3>1
      <3> QED BY <1>1, <1>5, <2>4, <3>2 DEF PollSkips
    <2>5. ASSUME NEW c \in due, PollAwaitsThread(c)
          PROVE  <1>6
      <3>1. PollFine
        BY <1>1, <1>2, <2>5 DEF PollAwaitsThread
      <3> QED BY <1>1, <1>5, <2>5, <3>1 DEF PollAwaitsThread
    <2>6. ASSUME NEW c \in due, NEW j \in Job, PollRuns(c, j)
          PROVE  <1>6
      <3>1. PollFine
        BY <1>4, <2>6 DEF PollRuns
      <3>2. RunsFine
        BY <1>1, <2>6, LaunchTyped DEF PollRuns
      <3> QED BY <1>1, <2>6, <3>1, <3>2 DEF PollRuns
    <2>7. ASSUME NEW j \in Job, PollHasThread(j)
          PROVE  <1>6
      <3>1. PollFine
        BY <1>4, <2>7 DEF PollHasThread
      <3>2. threads' \in Thread /\ threads' \in 0..MaxRuns
        BY <1>1, <2>7, NumbersTyped DEF PollHasThread
      <3>3. poll.copy \in Copy
        BY <1>1 DEF Poll
      <3>4. [poll.copy EXCEPT !.thread = threads'] \in Copy
        BY <3>2, <3>3, CopyTyped
      <3>5. Launch(j, [poll.copy EXCEPT !.thread = threads'], TRUE)
        BY <2>7 DEF PollHasThread
      <3>6. RunsFine
        BY <3>4, <3>5, LaunchTyped
      <3> QED BY <1>1, <2>7, <3>1, <3>2, <3>6 DEF PollHasThread
    <2> QED BY <2>1, <2>2, <2>3, <2>4, <2>5, <2>6, <2>7, <2>8 DEF PollStep
  <1>7. held' \in BOOLEAN
    BY HeldTyped DEF Next
  <1> QED BY <1>6, <1>7 DEF TypeOK, Poll, Run, Asked

\* The steps of the requests, and of the users who make them.
LEMMA RequestTyped ==
    ASSUME TypeOK, NEW q \in Request, RequestStep(q) \/ \E i \in Id : RunNow(q, i)
    PROVE  TypeOK'
  <1>1. /\ poll \in Poll /\ (poll.at = "wait" <=> poll.job # None)
        /\ due \subseteq Copy /\ threads \in 0..MaxRuns
        /\ rec \in [Id -> StoredRecord] /\ req \in [Request -> Asked]
        /\ inFlight \in [Id -> Job \cup {None}] /\ job \in [Job -> Run]
        /\ \A i \in Id : inFlight[i] # None
              => job[inFlight[i]].of = i /\ job[inFlight[i]].state # "none"
    BY DEF TypeOK, Poll, Run, Asked
  <1>2. req[q] \in Asked /\ req[q].copy \in Copy
    BY <1>1 DEF Asked
  <1>3. Answer(q) => req' \in [Request -> Asked]
    <2>1. [at |-> "idle", copy |-> NoCopy] \in Asked
      BY NoCopyTyped DEF Asked
    <2> QED BY <1>1, <2>1 DEF Answer
  <1> DEFINE RunsFine == /\ inFlight' \in [Id -> Job \cup {None}] /\ job' \in [Job -> Run]
                         /\ \A i \in Id : inFlight'[i] # None
                               => job'[inFlight'[i]].of = i /\ job'[inFlight'[i]].state # "none"
  <1>4. UNCHANGED <<inFlight, job>> => RunsFine
    BY <1>1
  <1>5. /\ UNCHANGED <<rec, poll, due>>
        /\ req' \in [Request -> Asked] /\ threads' \in 0..MaxRuns /\ RunsFine
    <2>1. CASE Refuse(q)
      BY <1>1, <1>3, <1>4, <2>1 DEF Refuse
    <2>2. CASE RequestAwaitsThread(q)
      <3>1. [req[q] EXCEPT !.at = "thread"] \in Asked
        BY <1>2 DEF Asked
      <3>2. req' \in [Request -> Asked]
        BY <1>1, <2>2, <3>1 DEF RequestAwaitsThread
      <3> QED BY <1>1, <1>4, <2>2, <3>2 DEF RequestAwaitsThread
    <2>3. ASSUME NEW j \in Job, RequestRuns(q, j)
          PROVE  <1>5
      <3>1. RunsFine
        BY <1>2, <2>3, LaunchTyped DEF RequestRuns
      <3> QED BY <1>1, <1>3, <2>3, <3>1 DEF RequestRuns
    <2>4. ASSUME NEW j \in Job, RequestHasThread(q, j)
          PROVE  <1>5
      <3>1. threads' \in Thread /\ threads' \in 0..MaxRuns
        BY <1>1, <2>4, NumbersTyped DEF RequestHasThread
      <3>2. [req[q].copy EXCEPT !.thread = threads'] \in Copy
        BY <1>2, <3>1, CopyTyped
      <3>3. Launch(j, [req[q].copy EXCEPT !.thread = threads'], TRUE)
        BY <2>4 DEF RequestHasThread
      <3>4. RunsFine
        BY <3>2, <3>3, LaunchTyped
      <3> QED BY <1>3, <2>4, <3>1, <3>4 DEF RequestHasThread
    <2>5. ASSUME NEW i \in Id, RunNow(q, i)
          PROVE  <1>5
      <3>1. [at |-> "loaded", copy |-> [id |-> i, thread |-> rec[i].thread]] \in Asked
        BY RecordCopied DEF Asked
      <3>2. req' \in [Request -> Asked]
        BY <1>1, <2>5, <3>1 DEF RunNow
      <3> QED BY <1>1, <1>4, <2>5, <3>2 DEF RunNow
    <2> QED BY <2>1, <2>2, <2>3, <2>4, <2>5 DEF RequestStep
  <1>6. held' \in BOOLEAN
    BY HeldTyped DEF Next
  <1> QED BY <1>1, <1>5, <1>6 DEF TypeOK, Poll, Run, Asked

\* An edit of a record, or the passing of time, leaves a record.
LEMMA EditTyped ==
    ASSUME NEW r \in StoredRecord, NEW b \in BOOLEAN
    PROVE  /\ [r EXCEPT !.enabled = b] \in StoredRecord
           /\ [r EXCEPT !.due = TRUE] \in StoredRecord
           /\ [r EXCEPT !.here = FALSE, !.enabled = FALSE, !.due = FALSE] \in StoredRecord
  BY DEF StoredRecord

LEMMA TypeStep == TypeOK /\ [Next]_vars => TypeOK'
  <1> SUFFICES ASSUME TypeOK, [Next]_vars PROVE TypeOK'
    OBVIOUS
  <1>1. /\ poll \in Poll /\ (poll.at = "wait" <=> poll.job # None)
        /\ due \subseteq Copy /\ threads \in 0..MaxRuns
        /\ rec \in [Id -> StoredRecord] /\ req \in [Request -> Asked]
        /\ inFlight \in [Id -> Job \cup {None}] /\ job \in [Job -> Run]
        /\ \A i \in Id : inFlight[i] # None
              => job[inFlight[i]].of = i /\ job[inFlight[i]].state # "none"
    BY DEF TypeOK, Poll, Run, Asked
  <1>0. held' \in BOOLEAN
    BY HeldTyped
  <1>2. CASE PollStep
    BY <1>2, PollTyped
  <1>3. ASSUME NEW q \in Request, RequestStep(q) \/ \E i \in Id : RunNow(q, i)
        PROVE  TypeOK'
    BY <1>3, RequestTyped
  <1>4. ASSUME NEW j \in Job, Finish(j) \/ CancelRun(j)
        PROVE  TypeOK'
    <2>1. PICK s \in {"done", "canceled"} : job' = [job EXCEPT ![j].state = s]
      BY <1>4 DEF Finish, CancelRun
    <2>2. Running(j) /\ Marked(j) /\ UNCHANGED <<inFlight, poll, due, req, threads>>
      BY <1>4 DEF Finish, CancelRun
    <2>3. /\ rec' \in [Id -> StoredRecord] /\ job' \in [Job -> Run]
          /\ \A i \in Id : inFlight'[i] # None
                => job'[inFlight'[i]].of = i /\ job'[inFlight'[i]].state # "none"
      BY <2>1, <2>2, EndTyped
    <2> QED BY <1>0, <1>1, <2>2, <2>3 DEF TypeOK, Poll, Run, Asked
  <1>5. ASSUME NEW i \in Id,
               Remove(i) \/ BecomesDue(i) \/ \E b \in BOOLEAN : SetEnabled(i, b)
        PROVE  TypeOK'
    <2>1. rec[i] \in StoredRecord
      BY <1>1
    <2>2. PICK r \in StoredRecord : rec' = [rec EXCEPT ![i] = r]
      BY <1>5, <2>1, EditTyped DEF Remove, BecomesDue, SetEnabled
    <2>3. UNCHANGED <<inFlight, job, poll, due, req, threads>>
      BY <1>5 DEF Remove, BecomesDue, SetEnabled
    <2>4. rec' \in [Id -> StoredRecord]
      BY <1>1, <2>2
    <2> QED BY <1>0, <1>1, <2>3, <2>4 DEF TypeOK, Poll, Run, Asked
  <1>6. CASE UNCHANGED vars
    BY <1>0, <1>1, <1>6 DEF vars, TypeOK, Poll, Run, Asked
  <1>7. CASE LoseLock
    BY <1>0, <1>1, <1>7 DEF LoseLock, TypeOK, Poll, Run, Asked
  <1> QED BY <1>7, <1>2, <1>3, <1>4, <1>5, <1>6 DEF Next

\* Every variable stays in its type; the poll waits for a run exactly when it has one to
\* wait for, and _IN_FLIGHT names started runs of the schedule it is asked about.
THEOREM TypeCorrect == Spec => []TypeOK
  BY InitTyped, TypeStep, PTL DEF Spec

-----------------------------------------------------------------------------
(* Overlapping runs                                                        *)

\* A run is started as the registry allows it, or in the same step as its conversation
\* is created.
StartsRun(j, c, fresh) == Launch(j, c, fresh) /\ (~fresh => ~InFlightJob(c.id))

EndsRun(j, s) == Running(j) /\ job' = [job EXCEPT ![j].state = s] /\ Marked(j) /\ UNCHANGED inFlight

\* To the runs a step starts one, ends one, or does nothing.
LEMMA RunSteps ==
    ASSUME TypeOK, [Next]_vars
    PROVE  \/ \E j \in Job, c \in Copy, fresh \in BOOLEAN : StartsRun(j, c, fresh)
           \/ \E j \in Job, s \in {"done", "canceled"} : EndsRun(j, s)
           \/ UNCHANGED <<job, inFlight>>
  <1>1. due \subseteq Copy /\ threads \in 0..MaxRuns /\ poll.copy \in Copy
    BY DEF TypeOK
  <1>2. \A q \in Request : req[q].copy \in Copy
    BY DEF TypeOK
  <1>3. threads < MaxRuns /\ threads' = threads + 1 => threads' \in Thread
    BY <1>1, NumbersTyped
  <1>4. CASE \E c \in due, j \in Job : PollRuns(c, j)
    <2>1. PICK c \in due, j \in Job : PollRuns(c, j)
      BY <1>4
    <2>2. StartsRun(j, c, FALSE)
      BY <2>1 DEF PollRuns, StartsRun
    <2> QED BY <1>1, <2>2
  <1>5. CASE \E j \in Job : PollHasThread(j)
    <2>1. PICK j \in Job : PollHasThread(j)
      BY <1>5
    <2>2. [poll.copy EXCEPT !.thread = threads'] \in Copy
      BY <1>1, <1>3, <2>1, CopyTyped DEF PollHasThread
    <2>3. StartsRun(j, [poll.copy EXCEPT !.thread = threads'], TRUE)
      BY <2>1 DEF PollHasThread, StartsRun
    <2> QED BY <2>2, <2>3
  <1>6. CASE \E q \in Request, j \in Job : RequestRuns(q, j)
    <2>1. PICK q \in Request, j \in Job : RequestRuns(q, j)
      BY <1>6
    <2>2. StartsRun(j, req[q].copy, FALSE)
      BY <2>1 DEF RequestRuns, StartsRun
    <2> QED BY <1>2, <2>2
  <1>7. CASE \E q \in Request, j \in Job : RequestHasThread(q, j)
    <2>1. PICK q \in Request, j \in Job : RequestHasThread(q, j)
      BY <1>7
    <2>2. [req[q].copy EXCEPT !.thread = threads'] \in Copy
      BY <1>2, <1>3, <2>1, CopyTyped DEF RequestHasThread
    <2>3. StartsRun(j, [req[q].copy EXCEPT !.thread = threads'], TRUE)
      BY <2>1 DEF RequestHasThread, StartsRun
    <2> QED BY <2>2, <2>3
  <1>8. CASE \E j \in Job : Finish(j) \/ CancelRun(j)
    <2>1. PICK j \in Job : Finish(j) \/ CancelRun(j)
      BY <1>8
    <2>2. EndsRun(j, "done") \/ EndsRun(j, "canceled")
      BY <2>1 DEF Finish, CancelRun, EndsRun
    <2> QED BY <2>2
  <1>9. CASE \/ PollWakes \/ PollStandsDown \/ PollWaited \/ PollSleeps \/ LoseLock
             \/ \E c \in due : PollSkips(c) \/ PollAwaitsThread(c)
             \/ \E q \in Request : \/ Refuse(q) \/ RequestAwaitsThread(q)
                                   \/ \E i \in Id : RunNow(q, i)
             \/ \E i \in Id : Remove(i) \/ BecomesDue(i) \/ \E b \in BOOLEAN : SetEnabled(i, b)
             \/ UNCHANGED vars
    <2>1. UNCHANGED <<job, inFlight>>
      BY <1>9 DEF PollWakes, PollStandsDown, LoseLock, PollWaited, PollSleeps, PollSkips,
                  PollAwaitsThread, Refuse, RequestAwaitsThread, RunNow, Remove, BecomesDue, SetEnabled, vars
    <2> QED BY <2>1
  <1> QED BY <1>4, <1>5, <1>6, <1>7, <1>8, <1>9 DEF Next, PollStep, RequestStep

\* What the invariant says of the order of the runs, and of their overlaps.
Order == InOrder /\ NamesLast /\ Overtaken /\ OverlapNeedsNewThread

LEMMA InitOrder == Init => Order
  <1> SUFFICES ASSUME Init PROVE Order
    OBVIOUS
  <1>1. \A j \in Job : job[j].state = "none"
    BY DEF Init, NotRun
  <1> QED BY <1>1 DEF Order, InOrder, NamesLast, Overtaken, OverlapNeedsNewThread, Started, Running

\* The new run is the last of all; the others are as they were.
LEMMA StartOrder ==
    ASSUME TypeOK, TypeOK', Order, NEW n \in Job, NEW c \in Copy, NEW fresh \in BOOLEAN,
           StartsRun(n, c, fresh)
    PROVE  Order'
  <1> DEFINE i == c.id
  <1>1. /\ i \in Id
        /\ ~Started(n) /\ \A k \in Job : k < n => Started(k)
        /\ inFlight' = [inFlight EXCEPT ![i] = n]
        /\ ~fresh => ~InFlightJob(i)
    BY DEF StartsRun, Launch, Unused, Started, Copy
  <1>2. /\ \A k \in Job : k # n => job'[k] = job[k]
        /\ job'[n] = [of |-> i, thread |-> c.thread, state |-> "running", fresh |-> fresh]
    BY DEF StartsRun, Launch, TypeOK
  <1>3. /\ \A k \in Job : k \in Nat /\ k # None
        /\ \A k \in Job : job[k].of \in Id
        /\ \A x \in Id : inFlight[x] \in Job \cup {None}
    BY RunsAssumption DEF TypeOK, Job, None
  <1>0. \A x \in Id : inFlight[x] # None => Started(inFlight[x])
    BY DEF TypeOK, Started
  <1>4. inFlight'[i] = n /\ \A x \in Id : x # i => inFlight'[x] = inFlight[x]
    BY <1>1 DEF TypeOK
  <1>5. /\ \A k \in Job : k # n => (Running(k)' <=> Running(k)) /\ (Started(k)' <=> Started(k))
        /\ \A k \in Job, x \in Id : k # n => (FreshOf(x, k)' <=> FreshOf(x, k))
    BY <1>2, <1>3 DEF Running, Started, FreshOf
  <1>6. Running(n)' /\ Started(n)' /\ job'[n].of = i /\ (fresh => FreshOf(i, n)')
    BY <1>2, <1>3 DEF Running, Started, FreshOf
  <1>7. \A k \in Job : Running(k) => Started(k)
    BY DEF Running, Started
  <1>8. \A k \in Job : Started(k) => k < n
    <2> SUFFICES ASSUME NEW k \in Job, Started(k), ~(k < n) PROVE FALSE
      OBVIOUS
    <2>1. k # n
      BY <1>1
    <2>2. n < k
      BY <1>3, <2>1
    <2> QED BY <1>1, <2>2 DEF Order, InOrder
  <1>9. \A x \in Id, j \in Job, k \in Job :
           k # n /\ k < n /\ FreshBetween(x, j, k) => FreshBetween(x, j, k)'
    <2> SUFFICES ASSUME NEW x \in Id, NEW j \in Job, NEW k \in Job, k < n, FreshBetween(x, j, k)
                 PROVE  FreshBetween(x, j, k)'
      OBVIOUS
    <2>1. PICK f \in (j + 1)..k : FreshOf(x, f)
      BY DEF FreshBetween
    <2>2. f \in Job /\ f # n
      BY <2>1, <1>3, RunsAssumption DEF Job
    <2>3. FreshOf(x, f)'
      BY <1>5, <2>1, <2>2
    <2> QED BY <2>1, <2>3 DEF FreshBetween
  \* A run of this schedule that goes on is explained up to the new one.
  <1>10. ASSUME NEW j \in Job, j # n, Running(j), job[j].of = i
         PROVE  FreshBetween(i, j, n)'
    <2>1. Started(j) /\ j < n
      BY <1>7, <1>8, <1>10
    <2>2. CASE fresh
      <3>1. n \in (j + 1)..n
        BY <1>3, <2>1
      <3> QED BY <1>6, <2>2, <3>1 DEF FreshBetween
    <2>3. CASE ~fresh
      <3>1. ~Running(inFlight[i])
        BY <1>1, <2>3 DEF InFlightJob
      <3>2. j \leq inFlight[i] /\ j # inFlight[i]
        BY <1>10, <2>1, <3>1 DEF Order, NamesLast
      <3>3. inFlight[i] \in Job /\ j < inFlight[i] /\ Started(inFlight[i])
        <4>1. inFlight[i] \in Job \cup {None}
          BY <1>1, <1>3
        <4>2. inFlight[i] # None
          BY <1>3, <3>2 DEF None, Job
        <4>3. inFlight[i] \in Job /\ Started(inFlight[i])
          BY <1>0, <1>1, <4>1, <4>2
        <4> QED BY <1>3, <3>2, <4>3
      <3>4. PICK f \in (j + 1)..inFlight[i] : FreshOf(i, f)
        BY <1>10, <3>3 DEF Order, Overtaken, FreshBetween
      <3>5. inFlight[i] < n
        BY <1>8, <3>3
      <3>6. f \in Job /\ f # n /\ f \in (j + 1)..n
        BY <1>3, <3>3, <3>4, <3>5, RunsAssumption DEF Job
      <3>7. FreshOf(i, f)'
        BY <1>1, <1>5, <3>4, <3>6
      <3> QED BY <3>6, <3>7 DEF FreshBetween
    <2> QED BY <2>2, <2>3
  <1>11. InOrder'
    <2> SUFFICES ASSUME NEW j \in Job, NEW k \in Job, k < j, Started(j)' PROVE Started(k)'
      BY DEF InOrder
    <2>1. CASE k = n
      BY <1>6, <2>1
    <2>2. CASE k # n /\ j = n
      BY <1>1, <1>5, <2>2
    <2>3. CASE k # n /\ j # n
      BY <1>5, <2>3 DEF Order, InOrder
    <2> QED BY <2>1, <2>2, <2>3
  <1>12. NamesLast'
    <2> SUFFICES ASSUME NEW j \in Job, Started(j)' PROVE j \leq inFlight'[job'[j].of]
      BY DEF NamesLast
    <2>1. CASE j = n
      BY <1>3, <1>4, <1>6, <2>1
    <2>2. CASE j # n
      <3>1. Started(j) /\ job'[j].of = job[j].of /\ j < n
        BY <1>2, <1>5, <1>8, <2>2
      <3>2. CASE job[j].of = i
        BY <1>3, <1>4, <3>1, <3>2
      <3>3. CASE job[j].of # i
        BY <1>3, <1>4, <3>1, <3>3 DEF Order, NamesLast
      <3> QED BY <3>2, <3>3
    <2> QED BY <2>1, <2>2
  <1>13. Overtaken'
    <2> SUFFICES ASSUME NEW j \in Job, Running(j)', j < inFlight'[job'[j].of]
                 PROVE  FreshBetween(job[j].of, j, inFlight[job[j].of])'
      BY DEF Overtaken
    <2>1. j # n
      BY <1>3, <1>4, <1>6
    <2>2. Running(j) /\ job'[j].of = job[j].of
      BY <1>2, <1>5, <2>1
    <2>3. CASE job[j].of = i
      <3>1. FreshBetween(i, j, n)'
        BY <1>10, <2>1, <2>2, <2>3
      <3> QED BY <1>4, <2>2, <2>3, <3>1 DEF FreshBetween, FreshOf
    <2>4. CASE job[j].of # i
      <3>0. PICK x \in Id, l \in Job \cup {None} : x = job[j].of /\ l = inFlight[x]
        BY <1>3
      <3>1. x \in Id /\ inFlight'[x] = l /\ l \in Job \cup {None} /\ j < l
        BY <1>3, <1>4, <2>2, <2>4, <3>0
      <3>2. l \in Job /\ Started(l)
        <4>1. l # None
          BY <1>3, <3>1 DEF None, Job
        <4> QED BY <1>0, <3>0, <3>1, <4>1
      <3>3. l < n
        BY <1>8, <3>2
      <3>4. FreshBetween(x, j, l)
        BY <2>2, <3>0, <3>1 DEF Order, Overtaken
      <3>5. PICK f \in (j + 1)..l : FreshOf(x, f)
        BY <3>4 DEF FreshBetween
      <3>6. f \in Job /\ f # n
        BY <1>3, <3>2, <3>3, <3>5, RunsAssumption DEF Job
      <3>7. FreshOf(x, f)'
        BY <1>5, <3>1, <3>5, <3>6
      <3> QED BY <2>2, <3>0, <3>1, <3>5, <3>7 DEF FreshBetween, FreshOf
    <2> QED BY <2>3, <2>4
  <1>14. OverlapNeedsNewThread'
    <2> SUFFICES ASSUME NEW j \in Job, NEW k \in Job, j < k, Running(j)', Running(k)',
                        job'[j].of = job'[k].of
                 PROVE  \E f \in (j + 1)..k : job'[f].of = job'[j].of /\ job'[f].fresh
      BY DEF OverlapNeedsNewThread
    <2>1. j # n
      <3> SUFFICES ASSUME j = n PROVE FALSE
        OBVIOUS
      <3>1. k # n /\ Running(k)
        BY <1>3, <1>5
      <3> QED BY <1>3, <1>7, <1>8, <3>1
    <2>2. Running(j) /\ job'[j].of = job[j].of /\ j < n
      BY <1>2, <1>5, <1>7, <1>8, <2>1
    <2>3. CASE k = n
      <3>1. job[j].of = i
        BY <1>6, <2>2, <2>3
      <3>2. FreshBetween(i, j, n)'
        BY <1>10, <2>1, <2>2, <3>1
      <3>3. PICK f \in (j + 1)..n : FreshOf(i, f)'
        BY <3>2 DEF FreshBetween
      <3> QED BY <2>2, <2>3, <3>1, <3>3 DEF FreshOf
    <2>4. CASE k # n
      <3>1. Running(k) /\ job'[k].of = job[k].of /\ k < n
        BY <1>2, <1>5, <1>7, <1>8, <2>4
      <3>2. PICK f \in (j + 1)..k : FreshOf(job[j].of, f)
        BY <2>2, <3>1 DEF Order, OverlapNeedsNewThread, FreshOf
      <3>3. f \in Job /\ f # n
        BY <1>3, <3>1, <3>2, RunsAssumption DEF Job
      <3>4. FreshOf(job[j].of, f) /\ job'[f] = job[f]
        BY <1>2, <3>2, <3>3
      <3> QED BY <2>2, <3>2, <3>4 DEF FreshOf
    <2> QED BY <2>3, <2>4
  <1> QED BY <1>11, <1>12, <1>13, <1>14 DEF Order

\* The runs that go on after an end are among those that went on before it.
LEMMA EndOrder ==
    ASSUME TypeOK, Order, NEW n \in Job, NEW s \in {"done", "canceled"}, EndsRun(n, s)
    PROVE  Order'
  <1>1. /\ inFlight' = inFlight
        /\ \A k \in Job : /\ job'[k].of = job[k].of /\ job'[k].fresh = job[k].fresh
                          /\ job'[k].state = IF k = n THEN s ELSE job[k].state
    BY EndTyped DEF EndsRun
  <1>2. /\ \A k \in Job : k \in Nat
        /\ \A k \in Job : job[k].of \in Id
        /\ \A x \in Id : inFlight[x] \in Job \cup {None}
    BY RunsAssumption DEF TypeOK, Job, None
  <1>3. Running(n) /\ Started(n)
    BY DEF EndsRun, Running, Started
  <1>4. \A k \in Job : /\ Started(k)' <=> Started(k)
                       /\ Running(k)' => Running(k)
    BY <1>1, <1>3 DEF Running, Started
  <1>5. \A k \in Job, x \in Id : FreshOf(x, k)' <=> FreshOf(x, k)
    BY <1>1 DEF FreshOf
  <1>6. ASSUME NEW x \in Id, NEW j \in Job, NEW k \in Job, FreshBetween(x, j, k)
        PROVE  FreshBetween(x, j, k)'
    <2>1. PICK f \in (j + 1)..k : FreshOf(x, f)
      BY <1>6 DEF FreshBetween
    <2>2. f \in Job
      BY <1>2, <2>1, RunsAssumption DEF Job
    <2> QED BY <1>5, <2>1, <2>2 DEF FreshBetween
  <1>7. InOrder'
    BY <1>4 DEF Order, InOrder
  <1>8. NamesLast'
    BY <1>1, <1>4 DEF Order, NamesLast
  <1>9. Overtaken'
    <2> SUFFICES ASSUME NEW j \in Job, Running(j)', j < inFlight'[job'[j].of]
                 PROVE  FreshBetween(job[j].of, j, inFlight[job[j].of])'
      BY DEF Overtaken
    <2>1. PICK x \in Id, l \in Job \cup {None} : x = job[j].of /\ l = inFlight[x]
      BY <1>2
    <2>2. Running(j) /\ job'[j].of = x /\ inFlight'[x] = l /\ j < l
      BY <1>1, <1>4, <2>1
    <2>3. l \in Job
      BY <1>2, <2>2 DEF None, Job
    <2>4. FreshBetween(x, j, l)
      BY <2>1, <2>2 DEF Order, Overtaken
    <2>5. FreshBetween(x, j, l)'
      BY <1>6, <2>3, <2>4
    <2> QED BY <2>2, <2>5 DEF FreshBetween, FreshOf
  <1>10. OverlapNeedsNewThread'
    <2> SUFFICES ASSUME NEW j \in Job, NEW k \in Job, j < k, Running(j)', Running(k)',
                        job'[j].of = job'[k].of
                 PROVE  \E f \in (j + 1)..k : job'[f].of = job'[j].of /\ job'[f].fresh
      BY DEF OverlapNeedsNewThread
    <2>1. PICK f \in (j + 1)..k : job[f].of = job[j].of /\ job[f].fresh
      BY <1>1, <1>4 DEF Order, OverlapNeedsNewThread
    <2>2. f \in Job
      BY <1>2, <2>1, RunsAssumption DEF Job
    <2> QED BY <1>1, <2>1, <2>2
  <1> QED BY <1>7, <1>8, <1>9, <1>10 DEF Order

LEMMA OrderStep == TypeOK /\ TypeOK' /\ Order /\ [Next]_vars => Order'
  <1> SUFFICES ASSUME TypeOK, TypeOK', Order, [Next]_vars PROVE Order'
    OBVIOUS
  <1>1. CASE \E n \in Job, c \in Copy, fresh \in BOOLEAN : StartsRun(n, c, fresh)
    BY <1>1, StartOrder
  <1>2. CASE \E n \in Job, s \in {"done", "canceled"} : EndsRun(n, s)
    BY <1>2, EndOrder
  <1>3. CASE UNCHANGED <<job, inFlight>>
    BY <1>3 DEF Order, InOrder, NamesLast, Overtaken, OverlapNeedsNewThread,
                Started, Running, FreshBetween, FreshOf
  <1> QED BY <1>1, <1>2, <1>3, RunSteps

\* The types and the order of the runs, in every reachable state.
THEOREM RunsAlways == Spec => []RunsInv
  <1>1. Init => TypeOK /\ Order
    BY InitTyped, InitOrder
  <1>2. TypeOK /\ Order /\ [Next]_vars => (TypeOK /\ Order)'
    BY TypeStep, OrderStep
  <1>3. TypeOK /\ Order => RunsInv
    BY DEF Order, RunsInv
  <1> QED BY <1>1, <1>2, <1>3, PTL DEF Spec

\* _IN_FLIGHT keeps the runs of one schedule apart but for one gap: of two that are in
\* flight at once, the later one, or one started in between, awaited a new conversation
\* between the check and the start.
THEOREM OverlapsExplained == Spec => []OverlapNeedsNewThread
  <1>1. RunsInv => OverlapNeedsNewThread
    BY DEF RunsInv
  <1> QED BY <1>1, RunsAlways, PTL

=============================================================================
