---------------------------- MODULE ScheduleStore ----------------------------
(***************************************************************************)
(* schedules.json and its writers (core/scheduler.py: Scheduler, STORE_LOCK, *)
(* _file_lock, _load, _save).                                              *)
(*                                                                         *)
(* Every writer constructs a Scheduler, which loads the whole store, changes *)
(* one record in memory and saves the whole store.  Inside a process the   *)
(* writers hold STORE_LOCK around the three; between processes only the    *)
(* save is under a lock file, which a save merges the records of others in. *)
(***************************************************************************)
EXTENDS ScheduleRecords

CONSTANTS
    Writer,       \* threads that construct and change a Scheduler
    Process,      \* the processes they live in
    ProcessOf,    \* [Writer -> Process]
    Stored,       \* the ids in the store at the start
    MaxOps,       \* bound: operations begun
    CanCrash,     \* processes that may be killed
    CanStall,     \* processes that may stand still, or wait, beyond the limits of _file_lock
    ReadMayFail,  \* where a read of the file may fail (an OSError): "load", "merge"
    UnlinkMayFail \* whether the removal of a lock file may fail

Free == "free"

ASSUME StoreAssumption ==
    /\ Free \notin Writer
    /\ ProcessOf \in [Writer -> Process]
    /\ Stored \subseteq Id
    /\ MaxOps \in Nat
    /\ ReadMayFail \subseteq {"load", "merge"}
    /\ CanCrash \subseteq Process /\ CanStall \subseteq Process
    /\ UnlinkMayFail \in BOOLEAN

VARIABLES
    disk,       \* schedules.json: a function from ids to records
    fileLock,   \* schedules.json.lock: the writer that created it, or Free
    stale,      \* whether that file is older than _FILE_LOCK_STALE_S
    late,       \* the writers whose wait or whose lock file has outlasted a limit
    storeLock,  \* STORE_LOCK of each process: its holder, or Free
    pc,         \* where a writer is
    op,         \* the operation it is in: its kind and its record
    mem,        \* Scheduler._tasks
    known,      \* Scheduler._known_ids
    locked,     \* _file_lock's held
    used,       \* ids given out by add
    begun,      \* operations begun so far
    landed,     \* history: the changes whose save has replaced the file
    overlapped, \* history: an operation began while another process was in one
    raced       \* history: a save re-read the file while another was about to replace it

vars == <<disk, fileLock, stale, late, storeLock, pc, op, mem, known, locked, used, begun,
          landed, overlapped, raced>>

history == <<landed, overlapped, raced>>

NoOp == [kind |-> "mark", id |-> "none"]

Live(w) == pc[w] # "dead"
Busy(w) == pc[w] \notin {"idle", "dead"}

Init ==
    /\ disk      = [i \in Stored |-> NewRecord]
    /\ fileLock  = Free
    /\ stale     = FALSE
    /\ late      = {}
    /\ storeLock = [p \in Process |-> Free]
    /\ pc        = [w \in Writer |-> "idle"]
    /\ op        = [w \in Writer |-> NoOp]
    /\ mem       = [w \in Writer |-> NoRecords]
    /\ known     = [w \in Writer |-> {}]
    /\ locked    = [w \in Writer |-> FALSE]
    /\ used      = Stored
    /\ begun     = 0
    /\ landed    = [added |-> Stored, removed |-> {}, disabled |-> {},
                    marked |-> [i \in Id |-> 0], saves |-> 0]
    /\ overlapped = FALSE /\ raced = FALSE

-----------------------------------------------------------------------------
(* Construct, change                                                       *)

\* Mutant: the writers of a process do not exclude each other.
StoreLockFree_Never(w) == TRUE

\* with STORE_LOCK: (a CLI process has one writer, so for it this never waits)
StoreLockFree(w) == storeLock[ProcessOf[w]] = Free

Begin(w, k, i) ==
    /\ pc[w] = "idle" /\ StoreLockFree(w)
    /\ begun < MaxOps /\ begun' = begun + 1
    /\ IF k = "add" THEN i \notin used ELSE i \in used
    /\ storeLock' = [storeLock EXCEPT ![ProcessOf[w]] = w]
    /\ op'   = [op EXCEPT ![w] = [kind |-> k, id |-> i]]
    /\ used' = used \cup {i}
    /\ pc'   = [pc EXCEPT ![w] = "load"]
    /\ overlapped' = (overlapped \/ \E v \in Writer : ProcessOf[v] # ProcessOf[w] /\ Busy(v))
    /\ UNCHANGED <<disk, fileLock, stale, late, mem, known, locked, landed, raced>>

\* What a read of the file may return: one that fails reads as an empty store.
Contents(where) == {disk} \cup {f \in {NoRecords} : where \in ReadMayFail}

\* _load
Load(w) ==
    /\ pc[w] = "load"
    /\ \E f \in Contents("load") :
          /\ mem'   = [mem EXCEPT ![w] = f]
          /\ known' = [known EXCEPT ![w] = DOMAIN f]
    /\ pc' = [pc EXCEPT ![w] = "change"]
    /\ UNCHANGED <<disk, fileLock, stale, late, storeLock, op, locked, used, begun, history>>

\* The operation is over: STORE_LOCK is released.
Done(w) ==
    /\ pc'        = [pc EXCEPT ![w] = "idle"]
    /\ storeLock' = [storeLock EXCEPT ![ProcessOf[w]] = Free]
    /\ op'        = [op EXCEPT ![w] = NoOp]
    /\ mem'       = [mem EXCEPT ![w] = NoRecords]
    /\ known'     = [known EXCEPT ![w] = {}]

\* add, remove, set_enabled and update, mark_run, up to the call of _save;
\* an unknown id ends the operation without one.
Change(w) ==
    LET k == op[w].kind
        i == op[w].id
    IN /\ pc[w] = "change"
       /\ \/ /\ k # "add" /\ i \notin DOMAIN mem[w]
             /\ Done(w)
          \/ /\ k = "add" \/ i \in DOMAIN mem[w]
             /\ mem' = [mem EXCEPT ![w] = Changed(@, k, i)]
             /\ pc'  = [pc EXCEPT ![w] = "lock"]
             /\ UNCHANGED <<storeLock, op, known>>
       /\ UNCHANGED <<disk, fileLock, stale, late, locked, used, begun, history>>

-----------------------------------------------------------------------------
(* _file_lock                                                              *)

\* Mutant: the lock file is created without O_EXCL.
NoFileLock_Never == TRUE

NoFileLock == fileLock = Free

TakeFileLock(w) ==
    /\ pc[w] = "lock" /\ NoFileLock
    /\ fileLock' = w /\ stale' = FALSE
    /\ locked'   = [locked EXCEPT ![w] = TRUE]
    /\ pc'       = [pc EXCEPT ![w] = "merge"]
    /\ UNCHANGED <<disk, late, storeLock, op, mem, known, used, begun, history>>

\* A writer waits for, or holds, the lock for longer than the limits allow: its
\* process is suspended, its disk is slow, or others keep taking the lock.
Overstay(w) ==
    /\ ProcessOf[w] \in CanStall
    /\ pc[w] \in {"lock", "break", "merge", "replace", "unlock"} /\ w \notin late
    /\ late' = late \cup {w}
    /\ UNCHANGED <<disk, fileLock, stale, storeLock, pc, op, mem, known, locked,
                   used, begun, history>>

\* Mutant: a lock never gets stale.
LeftBehind_Never == FALSE

\* Nobody is about to remove the lock file: its creator died or is late with it.
LeftBehind == fileLock # Free /\ (~Live(fileLock) \/ fileLock \in late)

GrowsStale ==
    /\ LeftBehind /\ ~stale
    /\ stale' = TRUE
    /\ UNCHANGED <<disk, fileLock, late, storeLock, pc, op, mem, known, locked,
                   used, begun, history>>

\* stat found the lock stale ...
FindStale(w) ==
    /\ pc[w] = "lock" /\ stale
    /\ pc' = [pc EXCEPT ![w] = "break"]
    /\ UNCHANGED <<disk, fileLock, stale, late, storeLock, op, mem, known, locked,
                   used, begun, history>>

\* ... and unlink removes whatever carries the name by then.
BreakLock(w) ==
    /\ pc[w] = "break"
    /\ fileLock' = Free /\ stale' = FALSE
    /\ pc' = [pc EXCEPT ![w] = "lock"]
    /\ UNCHANGED <<disk, late, storeLock, op, mem, known, locked, used, begun, history>>

\* A failing unlink goes on with the loop: no look at the deadline, no sleep.
BreakFails(w) ==
    /\ pc[w] = "break" /\ UnlinkMayFail
    /\ pc' = [pc EXCEPT ![w] = "lock"]
    /\ UNCHANGED <<disk, fileLock, stale, late, storeLock, op, mem, known, locked,
                   used, begun, history>>

\* _FILE_LOCK_TIMEOUT_S passed with a lock there that is not stale (yet): the
\* deadline is the waiter's own, whoever holds the lock by then.
TimedOut(w) == ~stale /\ fileLock # Free /\ (LeftBehind \/ w \in late)

SaveUnlocked(w) ==
    /\ pc[w] = "lock" /\ TimedOut(w)
    /\ pc' = [pc EXCEPT ![w] = "merge"]
    /\ UNCHANGED <<disk, fileLock, stale, late, storeLock, op, mem, known, locked,
                   used, begun, history>>

-----------------------------------------------------------------------------
(* _save                                                                   *)

\* Mutants: nothing is folded in; a record seen at load is folded in again.
Folded_Nothing(f, w)   == {}
Folded_Resurrect(f, w) == DOMAIN f \ DOMAIN mem[w]

\* The records another process saved: neither held here nor seen at load.
Folded(f, w) == DOMAIN f \ (DOMAIN mem[w] \cup known[w])

Merge(w) ==
    /\ pc[w] = "merge"
    /\ \E f \in Contents("merge") :
          mem' = [mem EXCEPT ![w] = [i \in DOMAIN @ \cup Folded(f, w) |->
                                        IF i \in DOMAIN @ THEN @[i] ELSE f[i]]]
    /\ pc'  = [pc EXCEPT ![w] = "replace"]
    /\ raced' = (raced \/ \E v \in Writer : pc[v] = "replace")
    /\ UNCHANGED <<disk, fileLock, stale, late, storeLock, op, known, locked, used,
                   begun, landed, overlapped>>

Land(k, i) ==
    landed' = [landed EXCEPT !.saves    = @ + 1,
                             !.added    = @ \cup {j \in {i} : k = "add"},
                             !.removed  = @ \cup {j \in {i} : k = "remove"},
                             !.disabled = @ \cup {j \in {i} : k = "disable"},
                             !.marked[i] = IF k = "mark" THEN @ + 1 ELSE @]

\* os.replace of the private temp file.
Replace(w) ==
    /\ pc[w] = "replace"
    /\ disk' = mem[w]
    /\ Land(op[w].kind, op[w].id)
    /\ pc' = [pc EXCEPT ![w] = "unlock"]
    /\ UNCHANGED <<fileLock, stale, late, storeLock, op, mem, known, locked,
                   used, begun, overlapped, raced>>

\* The temp file cannot be written or does not get the name within the retries:
\* the error leaves _save, which cleans up and drops the change.
ReplaceFails(w) ==
    /\ pc[w] = "replace"
    /\ pc' = [pc EXCEPT ![w] = "unlock"]
    /\ UNCHANGED <<disk, fileLock, stale, late, storeLock, op, mem, known, locked,
                   used, begun, history>>

\* A writer that took the lock unlinks it, whoever's it is by now; a lock file
\* that cannot be removed stays.
Unlock(w) ==
    /\ pc[w] = "unlock"
    /\ \/ /\ fileLock' = IF locked[w] THEN Free ELSE fileLock
          /\ stale' = (stale /\ ~locked[w])
          /\ UNCHANGED late
       \/ /\ UnlinkMayFail /\ locked[w]
          /\ late' = late \cup {w}
          /\ UNCHANGED <<fileLock, stale>>
    /\ locked'   = [locked EXCEPT ![w] = FALSE]
    /\ Done(w)
    /\ UNCHANGED <<disk, used, begun, history>>

\* The process is killed; its lock file stays.
Crash(p) ==
    /\ p \in CanCrash
    /\ \E w \in Writer : ProcessOf[w] = p /\ Live(w)
    /\ pc' = [w \in Writer |-> IF ProcessOf[w] = p THEN "dead" ELSE pc[w]]
    /\ UNCHANGED <<disk, fileLock, stale, late, storeLock, op, mem, known, locked,
                   used, begun, history>>

Step(w) ==
    \/ Load(w) \/ Change(w) \/ TakeFileLock(w) \/ FindStale(w) \/ BreakLock(w) \/ BreakFails(w)
    \/ SaveUnlocked(w) \/ Merge(w) \/ Replace(w) \/ ReplaceFails(w) \/ Unlock(w)

Next ==
    \/ \E w \in Writer : Step(w) \/ \E k \in Kinds, i \in Id : Begin(w, k, i)
    \/ \E w \in Writer : Overstay(w)
    \/ GrowsStale
    \/ \E p \in Process : Crash(p)

Spec == Init /\ [][Next]_vars

\* A writer that can take a step does; one that keeps finding the lock free
\* between the saves of others gets it in time (it polls every 20 ms).  The
\* removal of a stale lock file, tried again and again, succeeds: without this
\* premise BreakFails and FindStale alternate for ever.
Fairness ==
    /\ \A w \in Writer : WF_vars(Step(w)) /\ SF_vars(TakeFileLock(w)) /\ SF_vars(BreakLock(w))
    /\ WF_vars(GrowsStale)

FairSpec == Spec /\ Fairness

-----------------------------------------------------------------------------
(* Properties                                                              *)

\* Every variable stays in its type, and a writer in an operation holds the
\* STORE_LOCK of its process.
TypeOK ==
    /\ IsStore(disk)
    /\ fileLock \in Writer \cup {Free} /\ stale \in BOOLEAN /\ late \in SUBSET Writer
    /\ storeLock \in [Process -> Writer \cup {Free}]
    /\ pc \in [Writer -> {"idle", "load", "change", "lock", "break", "merge",
                          "replace", "unlock", "dead"}]
    /\ \A w \in Writer : IsStore(mem[w])
    /\ begun \in 0..MaxOps
    /\ known \in [Writer -> SUBSET Id]
    /\ locked \in [Writer -> BOOLEAN]
    /\ used \in SUBSET Id
    /\ \A w \in Writer : Busy(w) => storeLock[ProcessOf[w]] = w
    /\ overlapped \in BOOLEAN /\ raced \in BOOLEAN

\* A record somebody added and nobody removed stays in the file, whoever saves beside,
\* whoever dies and even when the read of a load fails: "a CLI nvh schedule add
\* racing the API runner keeps both records" (scheduler.py, _save), as long as no save
\* re-reads the file while another is about to replace it.
AddsKept == ~raced => landed.added \ landed.removed \subseteq DOMAIN disk

\* Two saves run side by side only after a process has died in one or a limit of
\* _file_lock has run out for one that lives: a wait of 10 s ends in a save without the
\* lock, a lock file of 30 s is broken, perhaps by two waiters one after the other, the
\* second unlinking the lock of the first (scheduler.py, _file_lock).
RaceNeedsDelay == raced => late # {} \/ (\E w \in Writer : ~Live(w))

\* The detailed store implements the abstract one: among the threads of a process, and
\* between processes whose operations do not overlap, the file goes from one whole
\* change to the next, also when loads fail and processes die between two operations.
Changes == INSTANCE ScheduleChanges WITH store <- disk, saves <- landed.saves
WholeChanges == Changes!Spec

\* A removal, a disabling and every recorded run that landed stay in the file:
\* no later save brings back an older version of a record.
EditsKept ==
    /\ landed.removed \cap DOMAIN disk = {}
    /\ \A i \in DOMAIN disk : /\ i \in landed.disabled => ~disk[i].enabled
                              /\ disk[i].runs >= landed.marked[i]

\* Every save comes to an end, whoever died or is late with the lock file in place: it
\* breaks the file or goes on without the lock (scheduler.py:308-310), if only a removal
\* that is tried again and again succeeds.
SaveEnds == \A w \in Writer : pc[w] = "lock" ~> pc[w] \in {"idle", "dead"}
=============================================================================
