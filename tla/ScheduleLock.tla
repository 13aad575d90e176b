---------------------------- MODULE ScheduleLock ----------------------------
(***************************************************************************)
(* The heartbeat lock that elects the one schedule runner of an nvHive     *)
(* home, and the poll loop that lives under it                             *)
(* (integrations/services/schedule_runner.py: ScheduleLock, run_loop).     *)
(*                                                                         *)
(* Runners are processes: the API server's lifespan task waits for the     *)
(* lock, `nvh schedule start` returns at once when it is taken.  A process *)
(* is single-threaded, so its poll loop and its side heartbeat task only   *)
(* interleave at an await; two processes interleave between any two file   *)
(* operations.  Time is counted in ticks; the only clock the code reads is *)
(* the age of the lock's heartbeat.                                        *)
(***************************************************************************)
EXTENDS Integers

CONSTANTS
    Runner,      \* the processes that may run the loop (one pid each)
    Waits,       \* the runners started with wait_for_lock (the API lifespan)
    Poll,        \* poll_s of each runner, in ticks
    StaleBeats,  \* STALE_HEARTBEATS
    MaxMissed,   \* consecutive failed reads or writes of the file by a runner
    CanCrash,    \* the runners that may be killed
    CanStall     \* the runners that may be suspended (sleeping machine, blocked event loop)

ASSUME ConstantsAssumption ==
    /\ "nobody" \notin Runner
    /\ Waits \subseteq Runner
    /\ Poll \in [Runner -> Nat \ {0}]
    /\ StaleBeats \in Nat \ {0}
    /\ MaxMissed \in Nat

VARIABLES
    lockFile,    \* the file: NoFile, or its creator, whether it is filled in, its heartbeat's age
    loop,        \* where the run_loop coroutine is
    op,          \* the file operation a synchronous section is about to do
    held,        \* ScheduleLock.held
    wake,        \* ticks left in the loop's _stopped_within(stop, poll_s)
    beat,        \* ticks left in the side task's sleep
    missed,      \* consecutive file operations of the runner that failed
    stopped,     \* the runners whose stop event is set
    stalled,     \* the runners that are suspended
    beatless,    \* the runners whose side task died of a failed write
    usurped      \* history: ticks a holder was awake while the file was not its own

vars == <<lockFile, loop, op, held, wake, beat, missed, stopped, stalled, beatless, usurped>>

NoFile == [by |-> "nobody", written |-> FALSE, age |-> 0]

Loops == {"idle", "acquire", "waiting", "top", "pass", "run", "sleep",
          "stopping", "ended", "crashed"}
Ops   == {"none", "create", "judge", "replace", "fill", "recreate", "rewrite", "unlink"}

StaleAfter(r) == StaleBeats * Poll[r]

LockFiles == [by : Runner \cup {"nobody"}, written : BOOLEAN, age : Nat]

Record(r) == [by |-> r, written |-> TRUE,  age |-> 0]
Empty(r)  == [by |-> r, written |-> FALSE, age |-> 0]

Owns(r) == lockFile.by = r

\* Mutants of IsStale: stale one tick early; a file without a record is live.
IsStale_Early(f)     == ~f.written \/ f.age >= StaleAfter(f.by)
IsStale_EmptyLive(f) == f.written /\ f.age > StaleAfter(f.by)

\* Stale by the age of the heartbeat against the poll interval the record
\* itself carries; a file with nothing in it (yet) has no age and is stale.
IsStale(f) == \/ ~f.written
              \/ f.age > StaleAfter(f.by)

Awake(r) == r \notin stalled /\ loop[r] \notin {"idle", "ended", "crashed"}

\* The bound on an overlap; usurped counts to one tick beyond it.
Overlap(r) == (MaxMissed + 1) * Poll[r]

CanMiss(r) == missed[r] < MaxMissed

Init ==
    /\ lockFile = NoFile
    /\ loop     = [r \in Runner |-> "idle"]
    /\ op       = [r \in Runner |-> "none"]
    /\ held     = [r \in Runner |-> FALSE]
    /\ wake     = [r \in Runner |-> 0]
    /\ beat     = [r \in Runner |-> 0]
    /\ missed   = [r \in Runner |-> 0]
    /\ stopped  = {}
    /\ stalled  = {}
    /\ beatless = {}
    /\ usurped  = [r \in Runner |-> 0]

-----------------------------------------------------------------------------
(* acquire()                                                               *)

Start(r) ==
    /\ loop[r] = "idle"
    /\ loop' = [loop EXCEPT ![r] = "acquire"]
    /\ op'   = [op EXCEPT ![r] = "create"]
    /\ UNCHANGED <<lockFile, held, wake, beat, missed, stopped, stalled, beatless, usurped>>

\* os.open(O_CREAT | O_EXCL): the file exists, empty, before its payload does.
TryCreate(r) ==
    /\ Awake(r) /\ op[r] = "create"
    /\ \/ /\ lockFile = NoFile
          /\ lockFile' = Empty(r)
          /\ op' = [op EXCEPT ![r] = "fill"]
       \/ /\ lockFile # NoFile
          /\ op' = [op EXCEPT ![r] = "judge"]
          /\ UNCHANGED lockFile
    /\ UNCHANGED <<loop, held, wake, beat, missed, stopped, stalled, beatless, usurped>>

\* An error of O_EXCL other than "exists" is caught nowhere: run_loop ends with it.
CreateFails(r) ==
    /\ Awake(r) /\ op[r] = "create" /\ CanMiss(r)
    /\ op'   = [op EXCEPT ![r] = "none"]
    /\ loop' = [loop EXCEPT ![r] = "ended"]
    /\ UNCHANGED <<lockFile, held, wake, beat, missed, stopped, stalled, beatless, usurped>>

\* acquire() returned False: the API runner retries every poll, the CLI returns.
Refused(r) ==
    /\ op'   = [op EXCEPT ![r] = "none"]
    /\ loop' = [loop EXCEPT ![r] = IF r \in Waits THEN "waiting" ELSE "ended"]
    /\ wake' = [wake EXCEPT ![r] = Poll[r]]

\* The read of an existing lock and the verdict on it.
Judge(r) ==
    /\ Awake(r) /\ op[r] = "judge"
    /\ \/ /\ CanMiss(r)                              \* unreadable: counts as live
          /\ Refused(r)
          /\ missed' = [missed EXCEPT ![r] = @ + 1]
       \/ /\ lockFile = NoFile                       \* vanished: acquire() again
          /\ op' = [op EXCEPT ![r] = "create"]
          /\ UNCHANGED <<loop, wake, missed>>
       \/ /\ lockFile # NoFile /\ IsStale(lockFile)
          /\ op' = [op EXCEPT ![r] = "replace"]
          /\ missed' = [missed EXCEPT ![r] = 0]
          /\ UNCHANGED <<loop, wake>>
       \/ /\ lockFile # NoFile /\ ~IsStale(lockFile)
          /\ Refused(r)
          /\ missed' = [missed EXCEPT ![r] = 0]
    /\ UNCHANGED <<lockFile, held, beat, stopped, stalled, beatless, usurped>>

\* acquire() returned True: the loop starts and the side task begins its sleep.
Acquired(r) ==
    /\ held'    = [held EXCEPT ![r] = TRUE]
    /\ loop'    = [loop EXCEPT ![r] = "top"]
    /\ op'      = [op EXCEPT ![r] = "none"]
    /\ beat'    = [beat EXCEPT ![r] = Poll[r]]
    /\ usurped' = [usurped EXCEPT ![r] = 0]

\* os.replace over whatever is there now; held is set even when it fails.
TakeOver(r) ==
    /\ Awake(r) /\ op[r] = "replace"
    /\ Acquired(r)
    /\ \/ /\ lockFile' = Record(r)
          /\ missed' = [missed EXCEPT ![r] = 0]
       \/ /\ CanMiss(r)
          /\ missed' = [missed EXCEPT ![r] = @ + 1]
          /\ UNCHANGED lockFile
    /\ UNCHANGED <<wake, stopped, stalled, beatless>>

-----------------------------------------------------------------------------
(* heartbeat()                                                             *)

\* A beat that returned True: the loop goes on to its pass, the side task sleeps again.
BeatDone(r) ==
    /\ op'   = [op EXCEPT ![r] = "none"]
    /\ loop' = [loop EXCEPT ![r] = IF @ = "top" THEN "pass" ELSE @]
    /\ beat' = [beat EXCEPT ![r] = IF loop[r] = "top" THEN @ ELSE Poll[r]]

MissedBeat(r) ==
    /\ CanMiss(r)
    /\ BeatDone(r)
    /\ missed' = [missed EXCEPT ![r] = @ + 1]
    /\ UNCHANGED <<lockFile, held, usurped>>

\* _lost_to: another runner's record is in the file, this one stands down.
StandDown(r) ==
    /\ held' = [held EXCEPT ![r] = FALSE]
    /\ op'   = [op EXCEPT ![r] = "none"]
    /\ loop' = [loop EXCEPT ![r] = IF @ = "top" THEN "stopping" ELSE @]
    /\ UNCHANGED <<lockFile, beat, missed, usurped>>

\* Mutant: no side task, so no beat while a run is in flight.
BeatDue_NoSideTask(r) == r \notin beatless /\ held[r] /\ loop[r] = "sleep" /\ beat[r] = 0

\* The side task's sleep is over; it runs whenever the loop is at an await.
BeatDue(r) == r \notin beatless /\ held[r] /\ loop[r] \in {"run", "sleep"} /\ beat[r] = 0

BeatRead(r) ==
    /\ Awake(r) /\ op[r] = "none" /\ held[r]
    /\ (loop[r] = "top" /\ r \notin stopped) \/ BeatDue(r)
    /\ \/ MissedBeat(r)
       \/ /\ lockFile.written /\ ~Owns(r)
          /\ StandDown(r)
       \/ /\ ~(lockFile.written /\ ~Owns(r))
          /\ op' = [op EXCEPT ![r] = IF lockFile = NoFile THEN "recreate" ELSE "rewrite"]
          /\ UNCHANGED <<lockFile, loop, held, beat, missed, usurped>>
    /\ UNCHANGED <<wake, stopped, stalled, beatless>>

Rewrite(r) ==
    /\ Awake(r) /\ op[r] = "rewrite"
    /\ \/ /\ BeatDone(r)
          /\ lockFile' = Record(r)
          /\ missed'   = [missed EXCEPT ![r] = 0]
          /\ usurped'  = [usurped EXCEPT ![r] = 0]
          /\ UNCHANGED held
       \/ MissedBeat(r)
    /\ UNCHANGED <<wake, stopped, stalled, beatless>>

\* The file had vanished: re-create it exclusively or stand down.
Recreate(r) ==
    /\ Awake(r) /\ op[r] = "recreate"
    /\ \/ MissedBeat(r)
       \/ lockFile # NoFile /\ StandDown(r)
       \/ /\ lockFile = NoFile
          /\ lockFile' = Empty(r)
          /\ op'       = [op EXCEPT ![r] = "fill"]
          /\ usurped'  = [usurped EXCEPT ![r] = 0]
          /\ UNCHANGED <<loop, held, beat, missed>>
    /\ UNCHANGED <<wake, stopped, stalled, beatless>>

\* The payload goes into the file this runner created, even when the name
\* meanwhile belongs to a replacement (then the write is lost, unnoticed).
Fill(r) ==
    /\ Awake(r) /\ op[r] = "fill"
    /\ lockFile' = IF Owns(r) THEN Record(r) ELSE lockFile
    /\ missed'   = [missed EXCEPT ![r] = 0]
    /\ IF held[r] THEN BeatDone(r) /\ UNCHANGED <<held, usurped>>
                  ELSE Acquired(r)
    /\ UNCHANGED <<wake, stopped, stalled, beatless>>

\* A failed write of the payload is caught nowhere either and leaves the file
\* empty.  It ends run_loop when acquire() or the beat at the top of the loop
\* was writing (the latter through the loop's finally), and the side task for
\* good when that was writing.
FillFails(r) ==
    /\ Awake(r) /\ op[r] = "fill" /\ CanMiss(r)
    /\ op'       = [op EXCEPT ![r] = "none"]
    /\ loop'     = [loop EXCEPT ![r] = CASE @ = "acquire" -> "ended"
                                         [] @ = "top"     -> "stopping"
                                         [] OTHER         -> @]
    /\ missed'   = [missed EXCEPT ![r] = @ + 1]
    /\ beatless' = IF loop[r] \in {"run", "sleep"} THEN beatless \cup {r} ELSE beatless
    /\ UNCHANGED <<lockFile, held, wake, beat, stopped, stalled, usurped>>

-----------------------------------------------------------------------------
(* run_loop()                                                              *)

Goto(r, where) ==
    /\ loop' = [loop EXCEPT ![r] = where]
    /\ UNCHANGED <<lockFile, op, held, beat, missed, stopped, stalled, beatless, usurped>>

\* The wait for the lock: the stop event ends it, the interval retries acquire().
StopWaiting(r) ==
    /\ Awake(r) /\ loop[r] = "waiting" /\ r \in stopped
    /\ Goto(r, "ended") /\ UNCHANGED wake

Retry(r) ==
    /\ Awake(r) /\ loop[r] = "waiting" /\ r \notin stopped /\ wake[r] = 0
    /\ loop' = [loop EXCEPT ![r] = "acquire"]
    /\ op'   = [op EXCEPT ![r] = "create"]
    /\ UNCHANGED <<lockFile, held, wake, beat, missed, stopped, stalled, beatless, usurped>>

\* The top of the loop ends it when stopped, or when the side task lost the lock.
TopEnds(r) ==
    /\ Awake(r) /\ op[r] = "none" /\ loop[r] = "top"
    /\ r \in stopped \/ ~held[r]
    /\ Goto(r, "stopping") /\ UNCHANGED wake

\* run_due_tasks: each run starts only while the lock is held (keep_going).
StartRun(r) ==
    /\ Awake(r) /\ loop[r] = "pass" /\ held[r]
    /\ Goto(r, "run") /\ UNCHANGED wake

FinishRun(r) ==
    /\ Awake(r) /\ loop[r] = "run" /\ op[r] = "none"
    /\ Goto(r, "pass") /\ UNCHANGED wake

EndPass(r) ==
    /\ Awake(r) /\ loop[r] = "pass"
    /\ wake' = [wake EXCEPT ![r] = Poll[r]]
    /\ Goto(r, IF held[r] /\ r \notin stopped THEN "sleep" ELSE "stopping")

WakeUp(r) ==
    /\ Awake(r) /\ loop[r] = "sleep" /\ op[r] = "none"
    /\ r \in stopped \/ wake[r] = 0
    /\ Goto(r, IF r \in stopped THEN "stopping" ELSE "top") /\ UNCHANGED wake

-----------------------------------------------------------------------------
(* release(), in the loop's finally                                        *)

ReleaseRead(r) ==
    /\ Awake(r) /\ loop[r] = "stopping" /\ op[r] = "none" /\ r \notin beatless
    /\ held' = [held EXCEPT ![r] = FALSE]
    /\ \/ /\ held[r] /\ Owns(r) /\ lockFile.written
          /\ op' = [op EXCEPT ![r] = "unlink"]
          /\ UNCHANGED loop
       \/ /\ ~(held[r] /\ Owns(r) /\ lockFile.written) \/ CanMiss(r)
          /\ loop' = [loop EXCEPT ![r] = "ended"]
          /\ UNCHANGED op
    /\ UNCHANGED <<lockFile, wake, beat, missed, stopped, stalled, beatless, usurped>>

\* `await beats` raises the error the side task died of, and release() is skipped.
ReleaseSkipped(r) ==
    /\ Awake(r) /\ loop[r] = "stopping" /\ op[r] = "none" /\ r \in beatless
    /\ Goto(r, "ended") /\ UNCHANGED wake

\* path.unlink() removes whatever carries the name by now; a failure is only logged.
Unlink(r) ==
    /\ Awake(r) /\ op[r] = "unlink"
    /\ \/ lockFile' = NoFile
       \/ CanMiss(r) /\ UNCHANGED lockFile
    /\ op'   = [op EXCEPT ![r] = "none"]
    /\ loop' = [loop EXCEPT ![r] = "ended"]
    /\ UNCHANGED <<held, wake, beat, missed, stopped, stalled, beatless, usurped>>

-----------------------------------------------------------------------------
(* What happens to a runner                                                *)

\* _stop_scheduler, or Ctrl-C on the CLI, sets the event ...
Stop(r) ==
    /\ loop[r] \notin {"idle", "ended", "crashed"} /\ r \notin stopped
    /\ stopped' = stopped \cup {r}
    /\ UNCHANGED <<lockFile, loop, op, held, wake, beat, missed, stalled, beatless, usurped>>

\* ... and cancels a loop that does not end in time, at one of its awaits.
Cancel(r) ==
    /\ Awake(r) /\ r \in stopped /\ loop[r] \in {"run", "sleep"} /\ op[r] = "none"
    /\ Goto(r, "stopping") /\ UNCHANGED wake

Crash(r) ==
    /\ r \in CanCrash /\ loop[r] \notin {"idle", "ended", "crashed"}
    /\ loop' = [loop EXCEPT ![r] = "crashed"]
    /\ op'   = [op EXCEPT ![r] = "none"]
    /\ held' = [held EXCEPT ![r] = FALSE]
    /\ UNCHANGED <<lockFile, wake, beat, missed, stopped, stalled, beatless, usurped>>

Stall(r) ==
    /\ r \in CanStall /\ Awake(r)
    /\ stalled' = stalled \cup {r}
    /\ UNCHANGED <<lockFile, loop, op, held, wake, beat, missed, stopped, beatless, usurped>>

Resume(r) ==
    /\ r \in stalled
    /\ stalled' = stalled \ {r}
    /\ UNCHANGED <<lockFile, loop, op, held, wake, beat, missed, stopped, beatless, usurped>>

\* A runner that is awake lets time pass only where it awaits a timer or a run.
AtRest(r) ==
    /\ op[r] = "none"
    /\ \/ loop[r] = "waiting" /\ wake[r] > 0 /\ r \notin stopped
       \/ loop[r] = "sleep" /\ wake[r] > 0 /\ r \notin stopped
       \/ loop[r] = "run"
    /\ ~BeatDue(r)

\* Mutant: an overdue timer keeps counting.
Down_Overdue(n) == n - 1
Down(n) == IF n > 0 THEN n - 1 ELSE 0

\* The age saturates once the record is stale: no older age is told apart.
Older(f) == IF f # NoFile /\ f.written /\ ~IsStale(f) THEN [f EXCEPT !.age = @ + 1] ELSE f

Tick ==
    /\ \A r \in Runner : Awake(r) => AtRest(r)
    /\ \E r \in Runner : loop[r] \notin {"idle", "ended", "crashed"}
    /\ lockFile' = Older(lockFile)
    /\ wake'     = [r \in Runner |-> Down(wake[r])]
    /\ beat'     = [r \in Runner |-> Down(beat[r])]
    /\ usurped'  = [r \in Runner |-> IF held[r] /\ ~Owns(r) /\ Awake(r) /\ usurped[r] <= Overlap(r)
                                     THEN usurped[r] + 1 ELSE usurped[r]]
    /\ UNCHANGED <<loop, op, held, missed, stopped, stalled, beatless>>

\* The steps a live process takes by itself.
Step(r) ==
    \/ TryCreate(r) \/ CreateFails(r) \/ Judge(r) \/ TakeOver(r) \/ Fill(r) \/ FillFails(r)
    \/ BeatRead(r) \/ Rewrite(r) \/ Recreate(r)
    \/ StopWaiting(r) \/ Retry(r) \/ TopEnds(r) \/ EndPass(r) \/ WakeUp(r)
    \/ ReleaseRead(r) \/ ReleaseSkipped(r) \/ Unlink(r)

Next ==
    \/ Tick
    \/ \E r \in Runner :
          \/ Step(r) \/ Start(r) \/ StartRun(r) \/ FinishRun(r)
          \/ Stop(r) \/ Cancel(r) \/ Crash(r) \/ Stall(r) \/ Resume(r)

Spec == Init /\ [][Next]_vars

\* Time passes, a suspended process is resumed, and one that is runnable again
\* and again (however often it is suspended in between) gets to run.
Fairness ==
    /\ WF_vars(Tick)
    /\ \A r \in Runner : SF_vars(Step(r)) /\ WF_vars(Resume(r))

FairSpec == Spec /\ Fairness

-----------------------------------------------------------------------------
(* Properties                                                              *)

\* Every variable stays in its type.
TypeOK ==
    /\ lockFile \in LockFiles
    /\ loop     \in [Runner -> Loops]
    /\ op       \in [Runner -> Ops]
    /\ held     \in [Runner -> BOOLEAN]
    /\ wake     \in [Runner -> Nat]
    /\ beat     \in [Runner -> Nat]
    /\ missed   \in [Runner -> 0..MaxMissed]
    /\ stopped  \in SUBSET Runner
    /\ stalled  \in SUBSET Runner
    /\ beatless \in SUBSET Runner
    /\ usurped  \in [Runner -> Nat]

\* A runner that lost the file, by whichever race of acquire, heartbeat and
\* release, keeps believing it holds the lock for no more than the interval to
\* its next successful beat (schedule_runner.py heartbeat, _beat_while_running):
\* the time two runners can work on one store side by side is bounded.  Only one
\* whose side task died of a failed write (heartbeat's re-create) goes on longer.
BoundedOverlap ==
    \A r \in Runner : held[r] /\ r \notin beatless => usurped[r] <= Overlap(r)

Polling(r) == held[r] /\ loop[r] # "ended"

ReadsStale(h) == Polling(h) /\ Owns(h) /\ lockFile.written /\ IsStale(lockFile)

\* The record of a polling runner that is never suspended reads stale to others
\* only after a failed write of a re-created lock killed its side task, even
\* when up to MaxMissed of its beats fail: the heartbeat goes on while a run
\* outlasts the staleness window (_beat_while_running, whose docstring knows no
\* exception).
LiveHolderReadsLive == \A h \in Runner : ReadsStale(h) => h \in CanStall \cup beatless

Seeking(r) == loop[r] \in {"acquire", "waiting"}

\* While a runner waits for the lock, some runner polls or comes to: a holder
\* that died, even between creating the file and filling it in, or that ended
\* without releasing, is replaced.
WaiterTakesOver ==
    (\E r \in Runner : Seeking(r))
        ~> (\E r \in Runner : Polling(r)) \/ (\A r \in Runner : ~Seeking(r))
=============================================================================
