------------------------------ MODULE Admission ------------------------------
(***************************************************************************)
(* One provider call under a resource lease (core/atohi.py): the broker    *)
(* that admits and revokes, the task that watches the lease, the work, and *)
(* its caller.  "run" awaits one result; "stream" pumps chunks through a   *)
(* queue of one and holds the final one back until the lease is given back *)
(* (AdmittedProvider.stream).  An owned call uses the transport bound to   *)
(* the lease, which expires.                                               *)
(*                                                                         *)
(* A step lies between two awaits of a task.  sleep(0) lets everything run *)
(* that was ready before: the watch sees what was signalled by then.       *)
(***************************************************************************)
EXTENDS Naturals

CONSTANTS
    Kinds,       \* the calls to look at: "run", "stream"
    MaxCancels   \* bound: how often the caller is cancelled

ASSUME AdmissionAssumption == Kinds \subseteq {"run", "stream"} /\ MaxCancels \in Nat

VARIABLES
    kind, owned, \* what call it is
    pc,       \* the await the caller is at
    carry,    \* what it leaves its scope with
    lease,    \* "none", "held" or "released"
    signal,   \* the broker has signalled the revocation
    expired,  \* the deadline of the bound session has passed
    watch,    \* the task that awaits the revocation
    work,     \* the task that makes the call
    queue,    \* what is in the queue
    owed,     \* history: what the last sleep(0) of the caller has to show
    cancels,  \* cancellations of the caller so far
    torn      \* history: the caller was cancelled while it drained the work

vars == <<kind, owned, pc, carry, lease, signal, expired, watch, work, queue, owed, cancels, torn>>
call == <<kind, owned>>

WorkOver == {"returned", "raised", "pause", "cancelled", "interrupted"}
Chunk    == {"chunk", "final"}

Init ==
    /\ kind \in Kinds /\ owned \in BOOLEAN
    /\ pc = "admit" /\ carry = "nothing" /\ lease = "none"
    /\ signal = FALSE /\ expired = FALSE
    /\ watch = "none" /\ work = "none" /\ queue = "empty"
    /\ owed = FALSE /\ cancels = 0 /\ torn = FALSE

\* _revocation, and for a bound session the look at the clock.
Stopped == watch \in {"revoked", "lost"} \/ (owned /\ expired)

\* Mutant: the caller looks without letting the watch run first.
Settled_Always == TRUE

Settled == owed => Stopped

Owes == owed' = (signal \/ (owned /\ expired))

\* A task is cancelled once: it closes its transport before it ends.
Cancelled == IF work = "calling" THEN "cleaning" ELSE work

\* The finally clause around the work.
ToDrain(c) == pc' = "drain" /\ carry' = c /\ work' = Cancelled

-----------------------------------------------------------------------------
(* The broker, the watch and the clock                                     *)

Revoke ==
    /\ ~signal /\ pc # "end"
    /\ signal' = TRUE
    /\ UNCHANGED <<call, pc, carry, lease, expired, watch, work, queue, owed, cancels, torn>>

\* The watch returns after a revocation; it raises when the broker fails.
WatchEnds(how) ==
    /\ watch = "watching" /\ (how = "revoked" => signal)
    /\ watch' = how
    /\ UNCHANGED <<call, pc, carry, lease, signal, expired, work, queue, owed, cancels, torn>>

Expire ==
    /\ owned /\ ~expired /\ lease # "none" /\ pc # "end"
    /\ expired' = TRUE
    /\ UNCHANGED <<call, pc, carry, lease, signal, watch, work, queue, owed, cancels, torn>>

-----------------------------------------------------------------------------
(* The work                                                                *)

\* Each result and each chunk is followed by a look at the bound session.
Unexpired == owned => ~expired

Returns ==
    /\ work = "calling" /\ (kind = "run" => Unexpired)
    /\ work' = "returned"
    /\ UNCHANGED <<call, pc, carry, lease, signal, expired, watch, queue, owed, cancels, torn>>

\* A provider's own error stays one; a bound transport that fails, or a bound session
\* that is no longer the one admitted, pauses.
Failed == IF owned THEN "pause" ELSE "raised"

Raises ==
    /\ work = "calling"
    /\ work' = Failed
    /\ UNCHANGED <<call, pc, carry, lease, signal, expired, watch, queue, owed, cancels, torn>>

Puts(c) ==
    /\ kind = "stream" /\ work = "calling" /\ queue = "empty" /\ Unexpired
    /\ queue' = c
    /\ UNCHANGED <<call, pc, carry, lease, signal, expired, watch, work, owed, cancels, torn>>

\* Cancelled, the work awaits the close of its transport, which may fail.
CleansUp(how) ==
    /\ work = "cleaning" /\ how \in {"cancelled", Failed}
    /\ work' = how
    /\ UNCHANGED <<call, pc, carry, lease, signal, expired, watch, queue, owed, cancels, torn>>

\* Mutant: nobody looks after a stream whose consumer does not pull.
Monitored_Never == FALSE

Monitored == kind = "stream" /\ Stopped

\* monitor: a revocation stops the pump, whether or not the consumer pulls; not any
\* more when the caller is closing.
MonitorCancels ==
    /\ Monitored /\ pc \in {"wait", "yielded"} /\ work = "calling"
    /\ work' = Cancelled
    /\ UNCHANGED <<call, pc, carry, lease, signal, expired, watch, queue, owed, cancels, torn>>

-----------------------------------------------------------------------------
(* The caller                                                              *)

\* _lease: admitted, the watch is started and let run; or the session it is bound to
\* is not valid.
Admit(valid) ==
    /\ pc = "admit" /\ (valid \/ owned)
    /\ lease' = "held"
    /\ IF valid
       THEN /\ watch' = "watching" /\ pc' = "look" /\ Owes
            /\ UNCHANGED carry
       ELSE /\ carry' = "paused" /\ pc' = "exit"
            /\ UNCHANGED <<watch, owed>>
    /\ UNCHANGED <<call, signal, expired, work, queue, cancels, torn>>

\* No broker, or it refuses or fails.
NotAdmitted ==
    /\ pc = "admit"
    /\ carry' = "paused" /\ pc' = "end"
    /\ UNCHANGED <<call, lease, signal, expired, watch, work, queue, owed, cancels, torn>>

StartWork ==
    /\ pc = "look" /\ Settled
    /\ IF Stopped THEN ToDrain("paused")
                  ELSE work' = "calling" /\ pc' = "wait" /\ UNCHANGED carry
    /\ UNCHANGED <<call, lease, signal, expired, watch, queue, owed, cancels, torn>>

Outcome == CASE work = "returned" -> "result"
             [] work = "raised"   -> "failure"
             [] work = "pause"    -> "paused"
             [] OTHER             -> "cancelled"

\* One of the tasks awaited is done: the revocation counts first.
RunWakes ==
    /\ kind = "run" /\ pc = "wait"
    /\ Stopped \/ work \in WorkOver
    /\ ToDrain(IF Stopped THEN "paused" ELSE Outcome)
    /\ UNCHANGED <<call, lease, signal, expired, watch, queue, owed, cancels, torn>>

\* A chunk goes to the consumer, the final one only to AdmittedProvider.stream, which
\* closes the generator at once.
Yield ==
    /\ queue' = "empty"
    /\ IF queue = "final" THEN ToDrain("final")
                          ELSE pc' = "yielded" /\ UNCHANGED <<carry, work>>

StreamWakes ==
    /\ kind = "stream" /\ pc = "wait"
    /\ \/ Stopped /\ ToDrain("paused") /\ UNCHANGED queue
       \/ ~Stopped /\ queue # "empty" /\ Yield
       \/ ~Stopped /\ queue = "empty" /\ work \in WorkOver /\ ToDrain(Outcome) /\ UNCHANGED queue
    /\ UNCHANGED <<call, lease, signal, expired, watch, owed, cancels, torn>>

\* The consumer asks for the next chunk.  A pump that has failed fails the stream,
\* whatever is still in the queue.
Pull ==
    /\ pc = "yielded"
    /\ \/ Stopped /\ ToDrain("paused") /\ UNCHANGED queue
       \/ ~Stopped /\ work = "returned" /\ queue # "empty" /\ Yield
       \/ /\ ~Stopped /\ work \in WorkOver /\ (work = "returned" => queue = "empty")
          /\ ToDrain(Outcome) /\ UNCHANGED queue
       \/ ~Stopped /\ work \notin WorkOver /\ pc' = "wait" /\ UNCHANGED <<carry, work, queue>>
    /\ UNCHANGED <<call, lease, signal, expired, watch, owed, cancels, torn>>

\* The consumer closes the stream or is cancelled between two chunks.
Leave ==
    /\ pc = "yielded"
    /\ ToDrain("closed")
    /\ UNCHANGED <<call, lease, signal, expired, watch, queue, owed, cancels, torn>>

\* A pump that paused while it was drained pauses the stream, and so does one that
\* failed to close what its consumer had left.
Drained(c) ==
    IF kind = "run" \/ torn THEN c
    ELSE IF work = "pause" \/ (work = "raised" /\ c \in {"closed", "final", "result"}) THEN "paused"
    ELSE c

\* Mutant: the lease is given back without waiting for the work.
WorkDrained_AtOnce == TRUE

WorkDrained == work \in WorkOver \cup {"none"}

DrainEnds ==
    /\ pc = "drain" /\ WorkDrained
    /\ carry' = Drained(carry) /\ pc' = "exit"
    /\ UNCHANGED <<call, lease, signal, expired, watch, work, queue, owed, cancels, torn>>

\* Mutant: what the broker signals while the lease is given back is not looked at.
AfterExit_NoLook == "drop"

AfterExit == IF watch = "none" THEN "end" ELSE "look again"

\* The broker's __aexit__; if it fails, nobody knows who owns the resource.
Exit(ok) ==
    /\ pc = "exit"
    /\ lease' = "released"
    /\ carry' = IF ok THEN carry ELSE "paused"
    /\ pc' = AfterExit /\ Owes
    /\ UNCHANGED <<call, signal, expired, watch, work, queue, cancels, torn>>

\* Mutant: a call that was cancelled or failed leaves its watch behind.
AfterLook_Return == IF carry \in {"cancelled", "failure"} THEN "end" ELSE "drop"

AfterLook == "drop"

LookAgain ==
    /\ pc = "look again" /\ Settled
    /\ carry' = IF Stopped THEN "paused" ELSE carry
    /\ pc' = AfterLook
    /\ UNCHANGED <<call, lease, signal, expired, watch, work, queue, owed, cancels, torn>>

DropWatch ==
    /\ pc = "drop"
    /\ watch' = IF watch = "watching" THEN "dropped" ELSE watch
    /\ pc' = "end"
    /\ UNCHANGED <<call, carry, lease, signal, expired, work, queue, owed, cancels, torn>>

\* The caller is cancelled.  While it drains, it awaits a gather, which hands the
\* cancellation on to the work.
CallerCancelled ==
    /\ cancels < MaxCancels /\ cancels' = cancels + 1
    /\ \/ /\ pc = "admit"
          /\ carry' = "cancelled" /\ pc' = "end"
          /\ UNCHANGED <<lease, work, owed, torn>>
       \/ /\ pc \in {"look", "wait"}
          /\ ToDrain("cancelled")
          /\ UNCHANGED <<lease, owed, torn>>
       \/ /\ pc = "drain" /\ ~WorkDrained
          /\ work' = "interrupted" /\ carry' = "cancelled" /\ torn' = TRUE
          /\ UNCHANGED <<pc, lease, owed>>
       \/ /\ pc = "exit"
          /\ lease' = "released" /\ carry' = "cancelled" /\ pc' = AfterExit /\ Owes
          /\ UNCHANGED <<work, torn>>
       \/ /\ pc \in {"look again", "drop"}
          /\ carry' = "cancelled" /\ pc' = "drop"
          /\ UNCHANGED <<lease, work, owed, torn>>
    /\ UNCHANGED <<call, signal, expired, watch, queue>>

CallerStep ==
    \/ \E b \in BOOLEAN : Admit(b) \/ Exit(b)
    \/ NotAdmitted \/ StartWork \/ RunWakes \/ StreamWakes
    \/ DrainEnds \/ LookAgain \/ DropWatch

WorkStep == Returns \/ Raises \/ (\E c \in Chunk : Puts(c))

Next ==
    \/ Revoke \/ Expire \/ (\E how \in {"revoked", "lost"} : WatchEnds(how))
    \/ WorkStep \/ (\E how \in {"cancelled", "raised", "pause"} : CleansUp(how)) \/ MonitorCancels
    \/ CallerStep \/ Pull \/ Leave \/ CallerCancelled

Spec == Init /\ [][Next]_vars

\* The loop runs its tasks; the broker and a transport that is closing come to an end.
\* The provider need not answer and the consumer need not pull.
Fairness ==
    /\ WF_vars(CallerStep) /\ WF_vars(WatchEnds("revoked")) /\ WF_vars(MonitorCancels)
    /\ WF_vars(\E how \in {"cancelled", "raised", "pause"} : CleansUp(how))

FairSpec == Spec /\ Fairness

-----------------------------------------------------------------------------
(* Properties                                                              *)

\* Every variable stays in its type; work and watch begin under a lease, and none is
\* left behind when the call is over.
TypeOK ==
    /\ kind \in Kinds /\ owned \in BOOLEAN
    /\ pc \in {"admit", "look", "wait", "yielded", "drain", "exit", "look again", "drop", "end"}
    /\ carry \in {"nothing", "result", "final", "closed", "failure", "paused", "cancelled"}
    /\ lease \in {"none", "held", "released"} /\ signal \in BOOLEAN /\ expired \in BOOLEAN
    /\ watch \in {"none", "watching", "revoked", "lost", "dropped"}
    /\ work \in {"none", "calling", "cleaning"} \cup WorkOver
    /\ queue \in Chunk \cup {"empty"} /\ owed \in BOOLEAN
    /\ cancels \in 0..MaxCancels /\ torn \in BOOLEAN
    /\ lease = "none" => watch = "none" /\ work = "none"
    /\ pc = "end" => watch # "watching" /\ work \notin {"calling", "cleaning"}

\* The lease is given back only when the work is through with its transport, unless the
\* caller was cancelled while it waited for that (_cancel_and_drain before the exit of
\* the lease's scope, whatever was revoked, cancelled or closed when).
ReleasedWhenClosed ==
    lease = "released" => /\ work \notin {"calling", "cleaning"}
                          /\ work = "interrupted" => torn

\* A result, or the final chunk of a stream, reaches the caller only if the lease had not
\* been revoked, nor the session expired, when the lease was given back -- also when
\* the revocation comes with the completion or during the cleanup (run, stream).
DeliveredIsOwned == pc = "end" /\ carry \in {"result", "final"} => ~owed

\* A provider is not called under an admission that was already revoked ("Do not invoke
\* a provider when admission is already revoked", run and stream).
StartsAdmitted == [][work = "none" /\ work' = "calling" => ~owed]_vars

\* A revocation ends the work for good, also when the provider hangs and nobody pulls the stream.
RevocationStops == signal ~> [](work \notin {"calling", "cleaning"})
=============================================================================
