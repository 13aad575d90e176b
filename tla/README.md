# nvHive: specifications, model checks and proofs

nvHive is a local-first assistant: a Python engine that routes prompts to cloud
and local model providers, a FastAPI server and a CLI on top of it, and a web UI.
Several processes of one user share a home directory (`NVH_HOME`), and inside
the API server many coroutines and some worker threads share the engine. This
directory models the parts of nvHive whose correctness depends on those
interleavings, on crashes and on time.

All source paths below are relative to `nvh/` unless they say otherwise. "Holds"
means that TLC explored the whole state space of the instance; "proved" means
that TLAPS checked a proof for every value of the constants.

## 1. The system and its parts

| part | state | operations | talks to | hard because of |
|---|---|---|---|---|
| schedule runner lock (`integrations/services/schedule_runner.py`) | the lock file with its heartbeat, `held` per runner | acquire, heartbeat, release, the poll loop, the side heartbeat task | file system; the API lifespan and `nvh schedule start` | two processes, crash, suspension, failing file operations, staleness by time |
| schedule store (`core/scheduler.py`) | `schedules.json`, its `.lock`, `STORE_LOCK`, a copy in each `Scheduler` | add, remove, enable/disable, update, mark_run | routes, runner, CLI | threads and processes, lost updates, crash with the lock file in place |
| schedule runs (`schedule_runner.py`, `api/routes/schedules.py`) | `_IN_FLIGHT`, the snapshot of due records, the thread of a schedule | the poll pass and its modes, run_schedule_once, Run now, cancel | lock, store, jobs, engine | check, await, act; a cancel that reaches the awaiting loop |
| background jobs (`integrations/services/jobs.py`) | `<id>.json`, `<id>.json.tmp`, `<id>.jsonl`, `_TASKS` | create, consume, append, list/reconcile, cancel | install playbooks and schedule runs as sources; pages that poll | loop, threads, processes on the same three files; crash |
| breaker and rate manager (`core/rate_limiter.py`) | a `CircuitBreaker` per provider, `_retry_after` | record_success, record_failure, allow_request, check_available, get_health_score | engine, router | outcomes that arrive after the state they belong to |
| query engine (`core/engine.py`) | queries in progress, the ledger | query: gate, route, fallback chain, log | router, rate manager, providers, SQLite | check-then-act on the budget, partial failure |
| router (`core/router.py`) | learned scores, capability tables | route | rate manager | who is never chosen again |
| council (`core/council.py`, the WebSocket route in `api/server.py`) | member answers, failures, costs, the event stream | fan-out with a time limit, quorum, agreement check, synthesis with its attempts, the ledger entries after it | providers, ledger, the browser | cancellation at the limit, two ends of one session, costs that are entered late |
| Atohi admission (`core/atohi.py`) | a lease, its watch task, the work task | admit, watch, run or stream, drain, release, look again | the resource broker, providers | a revocation against a completion; cancellation at any await |
| Wizard turn (`integrations/wizard/chat.py`) | `_LoopState`: results, cards, deferred calls, meter | completions and tool calls in a bounded loop, questions, cards, fallback | provider, tool registry, ledger, the browser | one completion after another may fail; what is shown when |
| tools and approvals (`core/tools.py`) | spent approval tokens, the signing key of the process | issue, verify and spend | Wizard turn, UI | a bounded memory, restarts |
| webhooks (`core/webhooks.py`) | queue, worker, delivery tasks | emit, dispatch with retries, stop and drain | outside services | overtaking, loss at stop |
| agent loops (`core/agent_loop.py`, `agentic.py`, ...) | the turn history, limits | turn, tool call, verify | engine, tools, sandbox | limits and early returns |
| conversations and storage (`core/context.py`, `storage/`) | SQLite tables | add message, spend | engine | a retried sequence race |
| install playbooks (`integrations/installs/`) | a subprocess per step | run, kill on cancel | jobs | cancel in the middle of a step |
| service bring-up (`cli/services.py`, `integrations/services/`) | pid files, ports | start, probe, stop | processes | stale pid files |
| orchestrator, learning, concierge, workspace, diagnostics, retrieval, providers, configuration, CLI, SDK, web UI, editor extension | see `PROJECT.json` | | | mostly sequential code, data transformation or I/O |

What makes each correct:

* **Lock.** At most one runner works on a home, up to the time a runner that
  lost the lock needs to notice; a live runner is not robbed; a dead one is
  replaced.
* **Store.** No change that was saved is lost or undone by somebody else's save;
  every save ends.
* **Runs.** One run per schedule at a time; a due schedule of a mode the runner runs
  does run; the poll lives as long as its server.
* **Jobs.** A job's record is one life: queued, running, over once, as its source
  ended or somebody asked; its log agrees, a watcher misses no event, and none
  stays running for ever.
* **Breaker.** A closed breaker carries nothing over from the time before it
  closed; a provider that works again is used again.
* **Budget.** What is spent beyond the limit is bounded.
* **Council.** Every member is accounted for, every reported cost is entered or
  known to be refused, and the client sees how the session really ended.
* **Admission.** No work under a lease that was revoked before, no result over a revocation, no
  release before the work has closed its transport.
* **Wizard turn.** A question stops the turn; no call is lost however the turn
  ends, and no cost but of a completion it was cut off at; a ceiling holds; a card acts once.

## 2. Modules

| module | what it is |
|---|---|
| `ScheduleLock` | the lock and `run_loop`, one action per file operation and per await |
| `ScheduleLockProofs` | types, `BoundedOverlap` and `LiveHolderReadsLive` proved |
| `ScheduleRecords` | the records of the store and what an operation does to them |
| `ScheduleChanges` | abstract: a store that goes from one whole change to the next |
| `ScheduleStore` | `schedules.json` with writers in threads and processes; implements `ScheduleChanges` |
| `ScheduleStoreProofs` | types, `RaceNeedsDelay`, `AddsKept` and the refinement `WholeChanges` proved |
| `ScheduleRuns` | the poll, Run now, runs, edits and cancels on one event loop |
| `ScheduleRunsProofs` | types and `OverlapNeedsNewThread` proved |
| `JobLife` | abstract: the life of a job as its record shows it |
| `Jobs` | one job: record, temp file, log, consumer, clients, pruning; implements `JobLife` |
| `JobWatch` | the web page that watches a job (EXTENDS `Jobs`) |
| `JobsProofs` | types, `EndIsLogged`, `WatcherMisses` and the refinement `LivesOnce` proved |
| `RateLimiter` | the circuit breaker as operators on a record |
| `EngineQuery` | `Engine.query` and `query_stream` over the breakers of all providers (EXTENDS `RateLimiter`) |
| `EngineQueryProofs` | types, `ClosedIsFresh` and `OverspendBounded` proved |
| `Council` | a streamed council with its route, its ledger entries and its browser |
| `CouncilProofs` | types and the four safety properties proved |
| `Admission` | one provider call, single or streamed, under a lease |
| `AdmissionProofs` | types and the three safety properties proved |
| `Approvals` | the approvals of privileged cards and the memory of spent ones |
| `WizardTurn` | a turn of the Wizard and the clicks on its cards (EXTENDS `Approvals`) |
| `WizardTurnProofs` | types, the five safety properties of a turn and `ActsOnce` proved |
| `MC*` | the instances TLC checks |

The schedule modules compose by assumption and guarantee. `ScheduleRuns` is what
happens inside the one process that `ScheduleLock` lets poll, and takes each
access of the store as atomic, which is what `ScheduleStore` is shown to give
the threads of one process (`WholeChanges`). A run of `ScheduleRuns` is a job of
`Jobs`, whose source is nondeterministic; a scheduled question is a `WizardTurn` of
kind "scheduled". A provider call of `EngineQuery`, `Council` or `WizardTurn`
is what `Admission` looks into: to them a pause is one more way for it to end.

### ScheduleLock

`lockFile` is the file: nobody's, or its creator, whether the payload is in it,
and the age of its heartbeat. `op[r]` is the file operation a synchronous section
of runner `r` is about to do, `loop[r]` the await its `run_loop` is at. The code
never yields inside acquire, heartbeat or release, so time cannot pass for an
awake runner with `op[r] # "none"` (`AtRest`), but other processes step between
any two file operations. `beat` and `wake` are the two timers of the process.
Each operation on the file may fail (`CanMiss`), in a row at most `MaxMissed` times. `_read_lock`
and `_write_payload` answer an `OSError`; the exclusive create of `acquire` and the write of the
payload into a file just created do not (`CreateFails`, `FillFails`): the error ends
`run_loop`, or, when the side task was re-creating a vanished file, that task alone. Such a
runner is in `beatless`: it beats only at the top of its loop from then on, and the error comes up
again at the loop's end, where it skips `release` (`ReleaseSkipped`). `Crash` kills
a runner anywhere; `Stall`/`Resume` is a machine that sleeps or an event loop
that is blocked. `usurped` counts the ticks a holder was awake while the file
was not its own: it is history and no guard reads it.

### ScheduleStore and ScheduleChanges

A writer constructs a `Scheduler` (`Load`), changes one record in memory
(`Change`) and saves the store (`TakeFileLock` .. `Unlock`). A record is reduced
to its enabled flag and the number of runs recorded in it, which are what two
kinds of writer change. `landed` remembers what was saved successfully.
`_file_lock` looks at two clocks and at nobody's life: a lock file older than 30 s is broken,
and a waiter that has waited for 10 s saves without the lock. A save takes milliseconds, so
either limit is passed only when something is wrong: the creator died, or a writer waits for
the lock or holds it beyond the limit, since its process is suspended, its disk slow, or others keep taking
the lock. The latter is `Overstay`, for the processes in `CanStall`: it puts a writer into `late`, where it
stays. A lock file that nobody is about to remove (`LeftBehind`) may grow stale (`GrowsStale`); before it has, a
waiter may run out of time (`TimedOut`), and a late waiter does so whoever holds the lock. Breaking the lock is
two steps (the look, then the unlink), so that two waiters may break it one after the other; the
unlink may fail (`BreakFails`), which leads back to the loop without a look at the deadline, and so
may the one at the end of a save (`Unlock`). A load whose read fails starts from an empty store,
as `_load` does; a temp file that cannot be written or renamed drops the change (`ReplaceFails`).

`ScheduleChanges` is the promise: the file goes from one whole change to the next.
`overlapped` says that operations of two processes have overlapped; from then on
the abstract store promises nothing but well-formed records, which is as much as is true
(`store_edits`). The refinement maps `store` to the file and `saves` to the saves reported.

### ScheduleRuns

A step is the code between two awaits. A pass goes over its snapshot one record at a time and
takes the code's three guards in their order: without the lock the loop stands down (`held`,
`LoseLock`, `PollStandsDown`), a mode that is not this runner's is left due (`MayRun`: `only_modes`, and
`do` without `allow_do`), and so is a schedule whose run goes on. A caller works from a copy of the record
(`due`, `req[q].copy`), as the code does. The await that matters is the creation
of a conversation between the check of `_IN_FLIGHT` and its update
(`PollAwaitsThread`, `RequestAwaitsThread`). All four outcomes of a run end in
`mark_run`, which may fail and then leaves the schedule due, so `Finish` is one action; `CancelRun` differs by what it does to the
poll that waits for the run.

### Jobs, JobLife and JobWatch

Every read, append, write and rename is a step. `loop` is the owner's event loop:
the consumer and the async routes hold it between two awaits, worker threads and
other processes do not need it. `SourceStep` is the source's next payload, its
end, or its exception, with the second look at the cancel flag in it. A step that finds a
file gone or renamed by another fails the request, or the consumer, as the code's exception does;
pruning deletes the record and then the log of a job that is over. `Company` lists the sets
of clients a job may have; a behaviour has one of them for good, and `shared` holds when
it is not the loop alone.

`JobLife` is the life of a record. Once its files are shared with a worker
thread or another process, it promises only that the status is one.

`JobWatch` adds `watchInstallJob` of `web/lib/api.ts`: a poll sends its two requests at once,
either is answered first, and a record that is over stops it. `WatcherMisses` compares what was
shown with how far down the log its last page went.

### RateLimiter and EngineQuery

The timestamps of the code are kept as ages that saturate where no comparison
can tell them apart (a failure that has left the window, an opening older than
the longest cooldown), which makes the state finite without losing a behaviour.
`Try` is `check_available`, which half-opens a breaker even when the retry-after
then refuses the call. `Succeeds`, `Fails` and `Limited` are the answers of the
provider. They come any time after `Try`, so the breaker may have changed
in between. `Breaks` is every end without an answer: the chain is exhausted, the caller
gone, another exception. `Streams` .. `StreamFails` are `query_stream`, which goes along the same chain and
records nothing with the breaker when a provider fails; `TriesAgain` and
`KeepsFirst` are the orchestrator's second answer and its return to the first. The router's
score is abstracted to a choice among the candidates its health filter leaves
(`Candidates`), or the provider a caller, a rule or the local-first broker names. One
budget period is modelled, with `hard_stop`.

### Council

A step lies between two awaits of a task. A member streams, then its task ends with an
answer or a failure and its last event; at the time limit the pending ones are cancelled,
and a partial cost that a broken stream had reported is kept. Two members may be the
same provider and share a label, as `member_responses` is keyed by it. After the
members come the quorum, the agreement check (a call of its own), the budget check, the
synthesis of the strategy with up to three attempts, the terminal event, and only then
the ledger, one entry at a time. `screen` is what the browser took for the end:
it stops at the first error. Every reported cost counts one.

### Admission

`pc` is the await the caller is at, `watch` and `work` are the two tasks it
starts. `Settled` is the `sleep(0)` that lets a revocation that was already signalled be seen
before the provider is called. Whatever leaves the scope (a result, an
exception, a cancellation, a pause) is `carry`; `drain` is `_cancel_and_drain`, `exit`
the end of the lease's scope, `look again` the last look for a revocation. `CallerCancelled`
may strike at every await, also in a drain. `owed` remembers that the lease was revoked or
expired when it was given back.

### Approvals and WizardTurn

A call of the model is its name and arguments, reduced to the class of its tool. Every
completion brings a sequence of calls; `batch` are those still to be dealt with, and each ends up
in `results`, in `cards` or in `deferred`. `made` and `told` are history: what completions
brought, and what the caller was told at the end. `cards` remembers the iteration of each card. The
blocking turn awaits the ledger entry of each completion when it is back (`Returns`, `Entered`) and counts it only
then, the stream enters all of them once before its last event; `spent` is history, what came back has cost. `scheduled` is a blocking turn with `unattended=True`. The cards of a
stream can be clicked while it still writes its ledger entry, those of a turn before a restart
after it. An approval is its token, as it is bound to one card; `consumed` keeps the order of the
dict it stands for as the set of tokens spent after each; `since` is history: for each
approval that ran something, how many others were spent after it.

## 3. What TLC checks

| run | instance | properties |
|---|---|---|
| `lock_pair` | API server and CLI, poll 1 and 2 ticks, staleness 2 beats, one failed file operation in a row, both may crash, the API may stall and polls while it waits | `TypeOK`, `BoundedOverlap`, `LiveHolderReadsLive`, `WaiterTakesOver` |
| `store_save` | route and runner of one process, which may die, and the CLI, which may be late; loads, unlinks and the replacing may fail; two operations, two ids | `TypeOK`, `AddsKept`, `RaceNeedsDelay`, `WholeChanges` (refinement), `SaveEnds` |
| `store_edits` | runner and CLI, two operations | `EditsKept` is violated |
| `runs_poll` | a schedule of mode ask, run by hand, edited and cancelled, and one of mode do, which this runner leaves alone; one request at a time, three runs, the lock lost, ends not recorded | `TypeOK`, `OverlapNeedsNewThread`, `DueRuns` |
| `runs_cancel` | one schedule, no requests, cancels | `PollerLives` is violated |
| `jobs` | a page on the loop, or the run log on a worker thread, or another process; two events, one cancel, one crash, pages of one event | `WatchTypeOK`, `EndIsLogged`, `WatcherMisses`, `LivesOnce` (refinement), `OrphansEnd`, `CancelEnds` |
| `engine_chain` | a provider that comes and goes and a fallback, two queries, one streamed and one judged, threshold 2, cooldown 1 doubling to 2 | `TypeOK`, `ClosedIsFresh`, `OverspendBounded`, `Recovers` |
| `council_stream` | three members of two labels, all strategies, three attempts, one foreign entry in the ledger | `TypeOK`, `EachMemberOnce`, `SilenceIsTimeout`, `CostsAccounted`, `ScreenIsTrue`, `ClientTold` |
| `council_budget` | two members, limit 2 | `SynthesisKeepsCap` is violated |
| `admission_lease` | a single call and a stream, owned or not, two cancellations | `TypeOK`, `ReleasedWhenClosed`, `DeliveredIsOwned`, `StartsAdmitted`, `RevocationStops` |
| `wizard_turn` | blocking, streamed and scheduled turns, seven calls of all classes, replies of up to two calls, three completions, one restart | `TypeOK`, `QuestionIsLast`, `NothingLost`, `LedgerCovers`, `CeilingHolds`, `UnattendedAsksNobody`, `ActsOnce` |
| `wizard_ask` | the same | `NeverAskAndAct` is violated |

What the passing runs show, and what they do not:

* **`BoundedOverlap`** does not say that two runners never hold the lock
  together: they can, through the empty file between create and write, a rewrite
  over a takeover, a suspended holder that comes back, or a release that unlinks a
  successor's file. It says that the one whose file is gone finds out within
  (`MaxMissed` + 1) of its own intervals of being awake, if its side task lives: one in
  `beatless` notices only after the run it is in.
* **`LiveHolderReadsLive`** needs `MaxMissed < StaleBeats`, here 1 < 2. The
  unequal poll intervals are the point: staleness is measured by the holder's
  interval, which stands in the record. Its exception, the runner in `beatless`, is real
  (section 4).
* **`WaiterTakesOver`** is about polling as such: some runner comes to hold
  the lock, or nobody waits any more.
* **`WholeChanges`** is the refinement: among threads, and between processes that do not
  overlap, no save loses or adds anything, failing loads and deaths between
  operations included. **`AddsKept`** holds beyond that, between processes that overlap,
  up to the first race of two saves, and **`RaceNeedsDelay`** says that only a
  death, or a writer that waits or holds the lock beyond the limits, brings one about. `AddsKept` and
  `WholeChanges` are checked with failing loads but not with a failing re-read at
  the merge (`ReadMayFail = {"load"}`): with `"merge"` in it they are false, `_disk_tasks`
  answering an empty list.
* **`SaveEnds`** holds where the unlink of a stale lock, tried again and again, succeeds at
  last (`Fairness`); without that premise it is false (section 4).
* **`OverlapNeedsNewThread`** gives the exact exception to "one run per schedule at
  a time": only a first run, which has to create its conversation, lets another in.
* **`DueRuns`** is about schedules of a mode the runner runs; the others it leaves due, for a
  runner with a terminal, and the run has one of them beside. It excuses a poll that has ended, which is
  what `runs_cancel` shows can happen (or that stood down), and the bound on the number of runs.
* **`LivesOnce`** is the refinement of a job on one event loop, with crashes and
  pruning. With the shared temp file in play, or a listing by another process, which marks a
  healthy job interrupted (its `_TASKS` does not know it), the record may contradict itself; what still
  holds there is `OrphansEnd`. **`WatcherMisses`** allows one event per death of the
  server: the one that was appended and not counted, whose number the next event takes. It measures as
  far as the last page went: a page that sees the record over beside an older list of events stops
  without the last ones, which the model allows too and nothing in the code rules out.
* **`OverspendBounded`** holds up to the first answer that is not entered (a second
  answer that replaced it, a stream that failed) or ledger that is not read (`lost`), since
  from then on the gate does not know.
* **`Recovers`** says: a provider that is up for good and gets its turn in some
  chain again and again ends up closed, in spite of late failures that re-stamp
  its opening and of streamed probes that end without an outcome. The premise is not for free
  (section 4).
* **`CostsAccounted`** excuses the cost of a member whose label another one answered
  under: `member_responses` has room for one. **`ScreenIsTrue`** holds although two
  errors are sent after a budget refusal, because the browser stops at the first.
* **`ReleasedWhenClosed`** has one exception, `torn`: a caller cancelled while it waits in
  `_cancel_and_drain` makes the gather inside cancel the transport's cleanup, so the work is over
  but cut short. The comment there speaks of waiting it out, and the lease is indeed
  not released earlier.
* **`QuestionIsLast`** is what the loop guarantees: no completion follows a question and no action
  asked for together with it gets a card. It says nothing of the cards of *earlier* completions: that a
  turn with a question has none of them is `NeverAskAndAct`, which `wizard_ask` refutes.
* **`LedgerCovers`** allows a turn that is not streamed, and is cancelled or ends with its process,
  the one completion whose entry it was awaiting. It promises nothing for a stream that is left or paused in
  the middle: its one entry is written at the end, so none of its completions is entered.
* **`CeilingHolds`** counts what was spent, entered or not.
* **`ActsOnce`** is an action property over clicks, expiry and a restart: the same card
  runs twice only if `ConsumedMax` other approvals were spent in between, which is what the
  bound on the memory gives up.

Each property of a passing run is accompanied by a mutated definition (named
`<definition>_<what is wrong>`, next to the definition) under which TLC finds it violated.

### Bounds

Two runners are enough for the lock: every race is between the holder and one
other, and the proofs cover any number. Ages and timers saturate, so the lock run needs no
bound on time. One failed operation in a row is enough for a re-created file to stay empty. Two ids and two operations of three writers put any two operations side by
side, with a death, a delay or a failure anywhere in them; the proofs cover any number, and only `SaveEnds` depends
on the bound, where one operation leaves the lock file there and the other meets it. Three runs of a schedule are needed for an overlap of two with one in between; a request that was answered can be made again, so one
beside the poll is enough.
Two events, one cancel and one crash put a cancel and a death before, between and after
events; a page of one event makes the watcher come back for the rest. Two queries
are what it takes for one to record an outcome the other has made obsolete; threshold 2
and window 2 let one failure expire before the next. Three members are two that share a
label and one that does not, with a quorum of two; one foreign entry uses up a limit of one. Two cancellations
of a caller are one that starts a drain and one that strikes in it. Three completions of a turn
are one before, one with and one after a question or a failure; two calls are a question
with a sibling on either side; a memory of one spent approval and one other card is the
smallest in which the memory overflows. The ceilings 2 and 9 are one that stops the loop and one
that never does. The bounds are `MaxMissed`, `MaxOps`, `MaxRuns`, `MaxEvents`,
`MaxCancels`, `MaxCrashes`, `MaxOthers`, `MaxRestarts`, `Costs` and the sizes of the constant sets.
The runs switch the deadlock check off where everything may have come to its end: all runners stopped,
all operations used up, the job, the session, the call or the turn over.

### Fairness

* `ScheduleLock`: time passes, a suspended process is resumed, and a process that
  is runnable again and again takes its steps (strong, because suspensions
  may interrupt it). Starts, runs, stops and crashes need not happen.
* `ScheduleStore`: a writer that can step does; it gets a lock that is free again
  and again, since it polls every 20 ms while a save holds it for the time of two file operations;
  a lock file left behind grows old; the unlink of a stale lock succeeds if it is tried again and again, which is
  a premise about the file system (section 4 says what happens otherwise). Nobody is forced to die or to be late.
* `ScheduleRuns`: the event loop runs; a run ends, as every provider call has a timeout.
* `Jobs`: the loop runs; the source yields and ends, its commands and downloads
  having deadlines (strong, because other handlers hold the loop in between);
  clients finish what they began; a page that shows a job keeps polling it (`Watched`).
  Nobody is forced to cancel or to crash.
* `EngineQuery`: time passes; of the turns a flaky provider gets, not every one is
  broken off. Nobody is forced to ask, and no provider to be up.
* `Council`: the session's task runs, a cancelled member's task ends and a sent event is
  sent. No provider has to answer: the time limit of the members and of each synthesis attempt ends
  every wait.
* `Admission`: the caller's task, the watch once it was signalled, the monitor and the
  cleanup of a transport run. The broker need not revoke, the provider need not answer,
  nobody need pull the stream.
* `WizardTurn`: none; its properties are all about safety.

## 4. What the code does differently from what it says

These have a run that expects the violation; `PROJECT.json` quotes the lines.

1. `store_edits`: `Scheduler` loads when it is constructed, outside the file lock, so
   a CLI edit beside the API runner writes back old versions of records. The docstring of
   `_save` says that this pair is serialised.
2. `runs_cancel`: cancelling a scheduled run from the job page ends the poll
   loop of the API server, which is not restarted.
3. `council_budget`: the budget check before the synthesis reads a ledger into which the
   members' costs are entered only after the session, so it never sees what it is there to see.
4. `wizard_ask`: `_hold_for_question` looks at the calls that come with the question, so a card
   of an earlier completion of the turn stays beside it. `docs/CONFIGURATION.md:645` says that a confirm or
   privileged call made in the same turn as a question is deferred.

The next four are in the models as well, as behaviours that the passing properties name as their
exception or premise:

5. When the payload of a re-created lock file cannot be written, the error ends the side heartbeat task for
   good, with `held` still set (`FillFails`). The next run that outlasts the staleness window sends no beat, and
   the record of a live runner reads stale, which the docstrings of `heartbeat` (a failed write is retried at the next beat) and
   `_beat_while_running` (a long run never lets the lock read stale) rule out. `BoundedOverlap` and
   `LiveHolderReadsLive` except such a runner (`beatless`).
6. Two waiters find the lock of a dead process stale, the first breaks it and takes the
   lock, and the second unlinks that fresh one (`FindStale`, `BreakLock`). The docstring of `_file_lock` speaks of old
   lock files only. `RaceNeedsDelay` allows it after the death.
7. A stale lock file that cannot be removed keeps a save in its loop, which goes on
   without looking at the deadline (`BreakFails`). The docstring says that the write proceeds after the timeout.
   `SaveEnds` has the premise that a removal succeeds at last.
8. The router skips a provider whose breaker is open, also after its cooldown, and only a call half-opens it
   (`Candidates`, `Try`), so nothing retries it automatically, as the message of `check_available` says, as long as somebody
   else answers. `Recovers` has the premise that its turn comes.

Met on the way: a listing by another process marks a healthy
job interrupted; a cancellation during a drain cuts the transport's cleanup short
(`core/atohi.py:177`, against the comment above it); a
stream that is left enters no cost; a page may stop before the last events of a job; the browser keys the status of a card by the name of its tool
(`src/web/lib/privileged.ts`), so that two cards of one tool share one status, while the
server tells them apart by their arguments; a due schedule that is disabled while an earlier run of
the pass takes its time runs once more; two first runs of a schedule create two conversations.

## 5. What is proved

**`ScheduleLockProofs`**, from `ConstantsAssumption` (the runners are not
called "nobody", intervals are positive, `StaleBeats` positive, `MaxMissed` a natural number):

* `TypeCorrect == Spec => []TypeOK`.
* `OverlapIsBounded == Spec => []BoundedOverlap`.
* `LiveHolderKeepsLock`: `Spec => []LiveHolderReadsLive`, from the
  additional assumption `MaxMissed < StaleBeats`.

The properties speak of what happens after several missed beats and are not
inductive. `LockInv` is: besides types it says where a synchronous section can be
while a runner holds the lock (`HeldShape`), that a runner that is still acquiring
has no file (`NoFileYet`), and, the core of it, that time since the last own file plus
time to the next beat fits into an allowance of one interval per missed beat and one
more (`UsurpedInTime`), and the same for the age of the heartbeat of a holder that is
never suspended (`BeatInTime`), both for a runner whose side task lives. A tick moves one unit from `beat` to `usurped` or
to the age and leaves the sum; a missed beat adds an interval to both sides. From `UsurpedInTime`
and `missed <= MaxMissed` the first theorem follows, from `BeatInTime` and
`MaxMissed < StaleBeats` the second. A step of one runner keeps the parts of all others (`Frame`,
`OthersKept`), so the case analysis is made once, for the runner that moves (`OwnKept`),
and once for time (`TickKept`).

**`ScheduleStoreProofs`**, from `StoreAssumption` (no writer is called "nobody"), for any writers,
processes, ids, deaths, delays and failing unlinks:

* `TypeCorrect == Spec => []TypeOK`, `RacesNeedDelay == Spec => []RaceNeedsDelay`.
* `AdditionsStay`: `Spec => []AddsKept`, and `StoreImplementsChanges`: `Spec => WholeChanges`, both
  from the hypothesis `"merge" \notin ReadMayFail`.

`Guarded` is the mutual exclusion: as long as everybody lives and nobody is late, a writer that saves has the
lock file, which is not stale, and nobody breaks one. `Holds` says what a writer has in memory between its load and
its save, and `Kept` that, up to the first race, whoever is about to replace the file has every wanted
record in memory (but the one it removes): the merge made it so, and as no other save can come in between,
it stays so. For the refinement, `Alone` says that before the first overlap only one operation is in progress, and
`Whole` what it is going to make of the file: a change of all of it, or, after a load
that failed, a record that the merge adds to all of it. The hypothesis is the one failure that the code turns
into a lost record: `_disk_tasks` answers an empty list when the re-read fails, and both properties are then
false. Loads may fail at will.

**`ScheduleRunsProofs`**, from `RunsAssumption` (there is a schedule), for any schedules, modes, requests and
numbers of runs:

* `TypeCorrect == Spec => []TypeOK`, `OverlapsExplained == Spec => []OverlapNeedsNewThread`.

`_IN_FLIGHT` sees only the last run of a schedule, so the look at it says nothing of earlier ones that go on. The
invariant says what can have become of those: runs are numbered as they start (`InOrder`), the registry
names the last one (`NamesLast`), and a run it no longer names, and which goes on, was overtaken by one that
had awaited its conversation (`Overtaken`). The next run that finds the registry free is then explained by
the same one.

**`JobsProofs`**, from `JobsAssumption` (clients are not the consumer, other processes are not the
owner's), for any clients, events, cancels, crashes and page lengths:

* `TypeCorrect == Spec => []TypeOK`, `EndsAreLogged == Spec => []EndIsLogged`.
* `OneLife == Spec => LivesOnce`, the refinement of `JobLife`.
* `WatchTypeCorrect == WatchSpec => []WatchTypeOK`, `WatcherMissesFew == WatchSpec => []WatcherMisses`.

`AloneInv` is about a job whose files only the owner's loop uses. It relates the place of the
consumer and the source's last word to the status on disk (`ConsumerFine`), says that a client is between two
awaits only with a record it may change (`ClientFine`), and, the core of it, that what an actor holds in memory
between two awaits is what the file says (`CopyFine`), so no write undoes another. Every action then
is a step of the job's life or none. `NumInv` adds the numbers: the log's do not fall, and the record's count is
the last of them or one behind (`NumbersFine`). `WatchInv` says that there is a set of places of the
log, one at most for each death, such that every other event is shown or still ahead of the page to be asked for
(`Missing`); an event that repeats the number of the one before it is where a death puts a place into the set.
The two statements about a log's end and its watcher are about a job on the owner's loop alone, as the properties are.

**`EngineQueryProofs`**, from `RateAssumption` and `QueryAssumption`:

* `TypeCorrect == Spec => []TypeOK`.
* `ClosedStaysFresh == Spec => []ClosedIsFresh`.
* `OverspendStaysBounded == Spec => []OverspendBounded`.

The invariant `IInv` is the conjunction of the types of the breakers with their freshness, the queries and
the rest. Each breaker operation keeps a breaker typed and fresh (`SuccessFresh`,
`FailureFresh`, `AskedFresh`, `AgedFresh`): these are facts about the record alone, for
any threshold, window and cooldowns. The step lemmas then only say which breaker
and which query an action replaces. The bound on the spending adds up what the queries past the gate may still
cost. Instead of a sum over a set, a recursion, `SpendInv` says that there is a function that gives
each set of queries its sum (`Sums`); a step that changes what one query may cost gives the next such function.

**`CouncilProofs`**, from `CouncilAssumption`, for any members, labels, quorum, attempts and limit:

* `TypeCorrect == Spec => []TypeOK`, `NoneForgotten == Spec => []EachMemberOnce`,
  `SilenceMeansTimeout == Spec => []SilenceIsTimeout`, `NoCostLost == Spec => []CostsAccounted`,
  `ScreenTells == Spec => []ScreenIsTrue`.

`Counted` follows each member from its task to its answer or failure and to what is left of it when the
session goes on; `OwnLabel` says that a member with a label of its own has one of the two. `Attempted` and `Seen` say for
each phase what the synthesis has come to and what the browser shows. The costs need a set of members as a witness:
those whose cost was kept without an answer (`KeptAre`), so that what was charged is what is in the
answers, in that set, in the synthesis and in the attempts (`Charges`). `BooksInv` carries the total through the log.

**`AdmissionProofs`**, from `AdmissionAssumption`, for any number of cancellations:

* `TypeCorrect == Spec => []TypeOK`, `LeaseOutlivesWork == Spec => []ReleasedWhenClosed`,
  `ResultsAreOwned == Spec => []DeliveredIsOwned`, `CallsAreAdmitted == Spec => StartsAdmitted`.

Beside the types, the invariant says where the caller is when the lease is held and
watch and work have begun (`Places`), that the work is over once the caller is past its drain
(`Closed`), and that a result past the last look was owned at it (`Looked`). `Places` is what makes
`Closed` inductive: the only way past the drain is through it.

**`WizardTurnProofs`**, from `TurnAssumption`, for replies of any length, any calls, whitelists, costs
and numbers of completions:

* `OneQuestionThenStop == Spec => []QuestionIsLast`, `CallsAreTold == Spec => []NothingLost`,
  `LedgerIsMeter == Spec => []LedgerCovers`, `CeilingIsKept == Spec => []CeilingHolds`,
  `NobodyIsAsked == Spec => []UnattendedAsksNobody`.
* `TypeCorrect == Spec => []TypeOK`, `CardActsOnce == Spec => ActsOnce`, which also need `ApprovalAssumption`:
  any size of the memory of spent approvals, any number of other cards and restarts.

The properties speak of the end of a turn or of its cards alone; the invariant follows the loop.
Each card is from an earlier completion than the one in hand (`Cards`), what the model made and is
in no list yet is still in `batch` or `held` (`Calls`), the meter is below the ceiling
wherever another completion may follow and behind what was spent only while an entry is awaited (`Meter`),
the ledger has what is in the meter (`Entries`), and a scheduled turn holds no question (`Nobody`). The
one fact about sequences that matters, that a reply with a question has a first one, comes from
the well-founded order of its positions (`FirstQuestion`); what `_hold_for_question` leaves for
the user follows (`ForUserShape`), and what a card set looks like after it (`SurfaceKeeps`).

For the approvals, `Approved` says that one that ran something and is still signed has at most as many newer
ones in the memory as were spent since (`Remembered`): pruning drops what has expired, which is
signed no more, and what has too many newer ones. A memory in which no token has `ConsumedMax` newer ones has no
more than `ConsumedMax` in all (`MemorySize`), as its oldest has all others after it.

Where a proof needs the first or the last number with some property (the first question of a reply, the oldest
token, the last event of a job), it takes it from the well-founded order of the naturals as a fact about a
set (`Least` and `Greatest` in `JobsProofs`, `FirstQuestion`, `MemorySize`), since
the induction theorems with an operator parameter cannot be used. The inductive invariants were checked with TLC on the
instances of section 3, except where they speak of a function over all sets of queries or members.

Every invariant, action property and refinement of a passing run is proved. Model-checked only: all liveness
(`WaiterTakesOver`, `SaveEnds`, `DueRuns`, `CancelEnds`, `OrphansEnd`, `Recovers`, `ClientTold`,
`RevocationStops`), which needs fairness and ENABLED, and the four violations of section 4.

## 6. What is not modelled, and the plan

Not modelled, because there is no protocol in it: prompts, scores, capability
tables, formatting, probes of the machine, vector search,
HTTP adapters, the web UI's rendering. This is most of the code: the command line alone is a
fifth of it. `PROJECT.json` lists every part with its reason, and
every known hazard with the properties that cover it or why none does yet.

Left of the plan, in this order:

1. **Webhooks**: the queue, its retries and the drain at stop; **response cache** as an extension of
   `EngineQuery`; the retried sequence race of **storage**; the subprocess of a **playbook** and its kill.
2. **Service bring-up**: pid files and ports of the processes.
