------------------------------ MODULE JobWatch ------------------------------
(***************************************************************************)
(* The web client that watches a job (web/lib/api.ts, watchInstallJob) on  *)
(* top of Jobs: at every poll it asks for the record and for a page of the *)
(* events after the last it has seen, both at once, and stops at a record  *)
(* that is over.  The server answers each request in one go on its loop; a *)
(* request for a job nobody runs marks it first, which is a listing of     *)
(* Jobs.                                                                   *)
(***************************************************************************)
EXTENDS Jobs, FiniteSets

CONSTANT PageLimit   \* events on a page

ASSUME PageAssumption == PageLimit \in Nat \ {0}

VARIABLES
    poll,    \* "waits", "asks", "over" or "gave up"
    open,    \* the requests of this poll that are not answered
    job,     \* the status in the record that came back
    batch,   \* the places in the log of the events that came back
    after,   \* the highest number seen
    shown,   \* the places of the events that were shown
    heard    \* history: how far down the log the last page went

watch == <<poll, open, job, batch, after, shown, heard>>

WatchInit ==
    /\ Init
    /\ poll = "waits" /\ open = {} /\ job = "queued" /\ batch = {} /\ after = 0
    /\ shown = {} /\ heard = 0

Asks ==
    /\ ~shared /\ poll = "waits" /\ pc[Consumer] # "start"
    /\ poll' = "asks" /\ open' = {"record", "events"}
    /\ UNCHANGED <<vars, job, batch, after, shown, heard>>

\* The loop answers, and the record needs no mark.
Answers(what) ==
    /\ what \in open /\ open' = open \ {what}
    /\ loop = Free /\ rec # NoFile /\ (rec.status \in Running => task)

RecordComes ==
    /\ Answers("record")
    /\ job' = rec.status
    /\ UNCHANGED <<vars, poll, batch, after, shown, heard>>

\* read_events goes down the log and stops at a full page.
NewEvents == {i \in 1..Len(log) : log[i].seq > after}
Page == {i \in NewEvents : Cardinality({j \in NewEvents : j <= i}) <= PageLimit}

EventsCome ==
    /\ Answers("events")
    /\ batch' = Page
    /\ heard' = IF Page = NewEvents THEN Len(log) ELSE CHOOSE i \in Page : \A j \in Page : j <= i
    /\ UNCHANGED <<vars, poll, job, after, shown>>

\* One of the two fails, or its answer is lost: ask again, or give up.
PollFails(again) ==
    /\ poll = "asks" /\ open # {}
    /\ open' = {}
    /\ poll' = IF again THEN "waits" ELSE "gave up"
    /\ UNCHANGED <<vars, job, batch, after, shown, heard>>

Highest(b) == IF b = {} THEN after
              ELSE CHOOSE n \in {log[i].seq : i \in b} : \A i \in b : log[i].seq <= n

Digests ==
    /\ poll = "asks" /\ open = {} /\ batch \subseteq DOMAIN log
    /\ shown' = shown \cup batch
    /\ after' = Highest(batch)
    /\ poll' = IF job \in Running THEN "waits" ELSE "over"
    /\ batch' = {}
    /\ UNCHANGED <<vars, open, job, heard>>

WatchStep == Asks \/ RecordComes \/ EventsCome \/ (\E again \in BOOLEAN : PollFails(again)) \/ Digests

WatchNext == (Next /\ UNCHANGED watch) \/ WatchStep

WatchSpec == WatchInit /\ [][WatchNext]_<<vars, watch>> /\ Fairness /\ Watched

-----------------------------------------------------------------------------
(* Properties                                                              *)

\* The type invariant of the job and of its watcher.
WatchTypeOK ==
    /\ TypeOK
    /\ poll \in {"waits", "asks", "over", "gave up"} /\ open \subseteq {"record", "events"}
    /\ job \in Running \cup Terminal /\ {after, heard} \subseteq Nat
    /\ batch \cup shown \subseteq 1..(MaxEvents + MaxCancels + 2)

\* Whatever cancels, stops, deaths and deletions fall between its requests, a watcher
\* that has seen the job's record over has shown every event down to the end of its
\* last page, except one that a killed server numbered and did not count for each
\* death: the "after" it sends never makes it skip an event (watchInstallJob,
\* read_events).
WatcherMisses == poll = "over" => Cardinality((1..heard) \ shown) <= crashes
=============================================================================
