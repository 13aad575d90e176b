--------------------------- MODULE AdmissionProofs ---------------------------
(***************************************************************************)
(* Proofs about Admission: the types, what is delivered and when the lease *)
(* is given back, for any number of cancellations of the caller.           *)
(*                                                                         *)
(* The parts of the invariant, beside the types (Names, Flags, Count):     *)
(* where the caller is says whether the lease is held and whether watch    *)
(* and work have begun (Places), the work is over once the caller is past  *)
(* its drain (Closed), and a result that is past the last look was owned   *)
(* at it (Looked).                                                         *)
(***************************************************************************)
EXTENDS Admission, TLAPS

Past == {"exit", "look again", "drop", "end"}

Names ==
    /\ kind \in Kinds
    /\ pc \in {"admit", "look", "wait", "yielded", "drain"} \cup Past
    /\ carry \in {"nothing", "result", "final", "closed", "failure", "paused", "cancelled"}
    /\ lease \in {"none", "held", "released"}
    /\ watch \in {"none", "watching", "revoked", "lost", "dropped"}
    /\ work \in {"none", "calling", "cleaning"} \cup WorkOver
    /\ queue \in Chunk \cup {"empty"}

Flags ==
    /\ owned \in BOOLEAN /\ signal \in BOOLEAN /\ expired \in BOOLEAN
    /\ owed \in BOOLEAN /\ torn \in BOOLEAN

Count == cancels \in 0..MaxCancels

Places ==
    /\ pc = "admit" => lease = "none"
    /\ lease = "none" => pc \in {"admit", "end"} /\ watch = "none" /\ work = "none"
    /\ lease = "released" => pc \in Past \ {"exit"}
    /\ pc = "end" => watch # "watching"
    /\ watch = "none" => pc \in {"admit", "exit", "end"}

Closed ==
    /\ pc \in Past => work \notin {"calling", "cleaning"}
    /\ work = "interrupted" => torn

Looked ==
    /\ watch = "none" => carry \notin {"result", "final"}
    /\ pc \in {"drop", "end"} /\ carry \in {"result", "final"} => ~owed

IInv == Names /\ Flags /\ Count /\ Places /\ Closed /\ Looked

USE DEF call, Past, WorkOver, Chunk

\* Before anything has happened, nothing is held and nothing has begun.
LEMMA InitOK == Init => IInv
  <1>1. Init => Names
    BY DEF Init, Names
  <1>2. Init => Flags
    BY DEF Init, Flags
  <1>3. Init => Count
    BY AdmissionAssumption DEF Init, Count
  <1>4. Init => Places /\ Closed /\ Looked
    BY DEF Init, Places, Closed, Looked
  <1> QED BY <1>1, <1>2, <1>3, <1>4 DEF IInv

\* What leaves the names alone keeps them.
LEMMA SameNames ==
    ASSUME Names, UNCHANGED <<kind, pc, carry, lease, watch, work, queue>>
    PROVE  Names'
  <1>1. kind' = kind /\ pc' = pc /\ carry' = carry /\ lease' = lease
    OBVIOUS
  <1>2. watch' = watch /\ work' = work /\ queue' = queue
    OBVIOUS
  <1> QED BY <1>1, <1>2 DEF Names

\* The steps of the broker and of the clock.
LEMMA BrokerOK ==
    ASSUME IInv, Revoke \/ Expire \/ \E how \in {"revoked", "lost"} : WatchEnds(how)
    PROVE  IInv'
  <1>1. CASE Revoke
    <2>1. Names'
      BY <1>1, SameNames DEF IInv, Revoke
    <2>2. Flags'
      BY <1>1 DEF IInv, Flags, Revoke
    <2>3. Count'
      BY <1>1 DEF IInv, Count, Revoke
    <2>4. Places' /\ Closed' /\ Looked'
      BY <1>1 DEF IInv, Names, Places, Closed, Looked, Revoke
    <2> QED BY <2>1, <2>2, <2>3, <2>4 DEF IInv
  <1>2. CASE Expire
    <2>1. Names'
      BY <1>2, SameNames DEF IInv, Expire
    <2>2. Flags'
      BY <1>2 DEF IInv, Flags, Expire
    <2>3. Count'
      BY <1>2 DEF IInv, Count, Expire
    <2>4. Places' /\ Closed' /\ Looked'
      BY <1>2 DEF IInv, Names, Places, Closed, Looked, Expire
    <2> QED BY <2>1, <2>2, <2>3, <2>4 DEF IInv
  <1>3. CASE \E how \in {"revoked", "lost"} : WatchEnds(how)
    <2>1. Names'
      BY <1>3 DEF IInv, Names, WatchEnds
    <2>2. Flags'
      BY <1>3 DEF IInv, Flags, WatchEnds
    <2>3. Count'
      BY <1>3 DEF IInv, Count, WatchEnds
    <2>4. /\ watch = "watching" /\ watch' \in {"revoked", "lost"}
          /\ UNCHANGED <<pc, carry, lease, work, owed, torn>>
      BY <1>3 DEF WatchEnds
    <2>5. Places' /\ Closed'
      BY <2>4 DEF IInv, Places, Closed
    <2>6. Looked'
      BY <2>4 DEF IInv, Looked
    <2> QED BY <2>1, <2>2, <2>3, <2>5, <2>6 DEF IInv
  <1> QED BY <1>1, <1>2, <1>3

\* A step of the work, which goes on only while the caller is not past its drain.
LEMMA WorkOK ==
    ASSUME IInv,
           WorkStep \/ MonitorCancels \/ \E how \in {"cancelled", "raised", "pause"} : CleansUp(how)
    PROVE  IInv'
  <1>1. CASE Returns
    <2>1. Names'
      BY <1>1 DEF IInv, Names, Returns
    <2>2. Flags'
      BY <1>1 DEF IInv, Flags, Returns
    <2>3. Count'
      BY <1>1 DEF IInv, Count, Returns
    <2>4. Places' /\ Closed' /\ Looked'
      BY <1>1 DEF IInv, Names, Places, Closed, Looked, Returns
    <2> QED BY <2>1, <2>2, <2>3, <2>4 DEF IInv
  <1>2. CASE Raises
    <2>1. Names'
      BY <1>2 DEF IInv, Names, Raises, Failed
    <2>2. Flags'
      BY <1>2 DEF IInv, Flags, Raises, Failed
    <2>3. Count'
      BY <1>2 DEF IInv, Count, Raises
    <2>4. Places' /\ Closed' /\ Looked'
      BY <1>2 DEF IInv, Names, Places, Closed, Looked, Raises, Failed
    <2> QED BY <2>1, <2>2, <2>3, <2>4 DEF IInv
  <1>3. CASE \E c \in Chunk : Puts(c)
    <2>1. Names'
      BY <1>3 DEF IInv, Names, Puts
    <2>2. Flags'
      BY <1>3 DEF IInv, Flags, Puts
    <2>3. Count'
      BY <1>3 DEF IInv, Count, Puts
    <2>4. Places' /\ Closed' /\ Looked'
      BY <1>3 DEF IInv, Names, Places, Closed, Looked, Puts
    <2> QED BY <2>1, <2>2, <2>3, <2>4 DEF IInv
  <1>4. CASE MonitorCancels
    <2>1. Names'
      BY <1>4 DEF IInv, Names, MonitorCancels, Cancelled
    <2>2. Flags'
      BY <1>4 DEF IInv, Flags, MonitorCancels, Cancelled
    <2>3. Count'
      BY <1>4 DEF IInv, Count, MonitorCancels
    <2>4. Places' /\ Closed' /\ Looked'
      BY <1>4 DEF IInv, Names, Places, Closed, Looked, MonitorCancels, Cancelled
    <2> QED BY <2>1, <2>2, <2>3, <2>4 DEF IInv
  <1>5. CASE \E how \in {"cancelled", "raised", "pause"} : CleansUp(how)
    <2>1. Names'
      BY <1>5 DEF IInv, Names, CleansUp
    <2>2. Flags'
      BY <1>5 DEF IInv, Flags, CleansUp
    <2>3. Count'
      BY <1>5 DEF IInv, Count, CleansUp
    <2>4. Places' /\ Closed' /\ Looked'
      BY <1>5 DEF IInv, Names, Places, Closed, Looked, CleansUp
    <2> QED BY <2>1, <2>2, <2>3, <2>4 DEF IInv
  <1> QED BY <1>1, <1>2, <1>3, <1>4, <1>5 DEF WorkStep

\* Whatever the caller takes to its drain, it is not past the work yet.
LEMMA ToDrainOK ==
    ASSUME IInv, watch # "none", pc \notin {"admit"} \cup Past,
           NEW c \in {"result", "final", "closed", "failure", "paused", "cancelled"}, ToDrain(c),
           UNCHANGED <<call, lease, signal, expired, watch, owed, torn>>,
           queue' \in Chunk \cup {"empty"}, Count'
    PROVE  IInv'
  <1>1. Names'
    BY DEF IInv, Names, ToDrain, Cancelled
  <1>2. Flags'
    BY DEF IInv, Flags
  <1>3. Places' /\ Closed' /\ Looked'
    BY DEF IInv, Names, Places, Closed, Looked, ToDrain, Cancelled
  <1> QED BY <1>1, <1>2, <1>3 DEF IInv

\* What the work has come to.
LEMMA OutcomeTyped == Outcome \in {"result", "failure", "paused", "cancelled"}
  BY DEF Outcome

\* A chunk that is yielded.
LEMMA YieldOK ==
    ASSUME IInv, pc \in {"wait", "yielded"}, Yield,
           UNCHANGED <<call, lease, signal, expired, watch, owed, cancels, torn>>
    PROVE  IInv'
  <1>1. watch # "none" /\ queue' \in Chunk \cup {"empty"}
    BY DEF Yield, IInv, Places
  <1>2. Count'
    BY DEF IInv, Count
  <1>3. CASE queue = "final"
    BY <1>1, <1>2, <1>3, ToDrainOK DEF Yield
  <1>4. CASE queue # "final"
    <2>1. Names'
      BY <1>4 DEF IInv, Names, Yield
    <2>2. Flags'
      BY <1>4 DEF IInv, Flags, Yield
    <2>3. Count'
      BY <1>4 DEF IInv, Count, Yield
    <2>4. Places' /\ Closed' /\ Looked'
      BY <1>4 DEF IInv, Names, Places, Closed, Looked, Yield
    <2> QED BY <2>1, <2>2, <2>3, <2>4 DEF IInv
  <1> QED BY <1>3, <1>4

\* The caller on its way in: admission and the start of the work.
LEMMA EntryOK ==
    ASSUME IInv, NotAdmitted \/ StartWork \/ \E valid \in BOOLEAN : Admit(valid)
    PROVE  IInv'
  <1>1. CASE NotAdmitted
    <2>1. Names'
      BY <1>1 DEF IInv, Names, NotAdmitted
    <2>2. Flags'
      BY <1>1 DEF IInv, Flags, NotAdmitted
    <2>3. Count'
      BY <1>1 DEF IInv, Count, NotAdmitted
    <2>4. Places' /\ Closed' /\ Looked'
      BY <1>1 DEF IInv, Names, Places, Closed, Looked, NotAdmitted
    <2> QED BY <2>1, <2>2, <2>3, <2>4 DEF IInv
  <1>2. CASE StartWork
    <2>1. watch # "none" /\ queue' \in Chunk \cup {"empty"}
      BY <1>2 DEF StartWork, IInv, Names, Places
    <2>2. Count'
      BY <1>2 DEF StartWork, IInv, Count
    <2>3. CASE Stopped
      BY <1>2, <2>1, <2>2, <2>3, ToDrainOK DEF StartWork
    <2>4. CASE ~Stopped
      <3>1. Names'
        BY <2>4, <1>2, <2>1 DEF IInv, Names, StartWork
      <3>2. Flags'
        BY <2>4, <1>2, <2>1 DEF IInv, Flags, StartWork
      <3>3. Count'
        BY <2>4, <1>2, <2>1 DEF IInv, Count, StartWork
      <3>4. Places' /\ Closed' /\ Looked'
        BY <2>4, <1>2, <2>1 DEF IInv, Names, Places, Closed, Looked, StartWork
      <3> QED BY <3>1, <3>2, <3>3, <3>4 DEF IInv
    <2> QED BY <2>3, <2>4
  <1>3. CASE \E valid \in BOOLEAN : Admit(valid)
    <2>1. Names'
      BY <1>3 DEF IInv, Names, Admit, Owes
    <2>2. Flags'
      BY <1>3 DEF IInv, Flags, Admit, Owes
    <2>3. Count'
      BY <1>3 DEF IInv, Count, Admit
    <2>4. Places' /\ Closed' /\ Looked'
      BY <1>3 DEF IInv, Names, Places, Closed, Looked, Admit, Owes
    <2> QED BY <2>1, <2>2, <2>3, <2>4 DEF IInv
  <1> QED BY <1>1, <1>2, <1>3

\* The caller awaits the work or its consumer.
LEMMA WaitOK ==
    ASSUME IInv, RunWakes \/ StreamWakes \/ Pull \/ Leave
    PROVE  IInv'
  <1>1. /\ pc \in {"wait", "yielded"} /\ UNCHANGED <<call, lease, signal, expired, watch, owed, cancels, torn>>
    BY DEF RunWakes, StreamWakes, Pull, Leave
  <1>2. watch # "none" /\ queue \in Chunk \cup {"empty"} /\ pc \notin {"admit"} \cup Past
    BY <1>1 DEF IInv, Names, Places
  <1>3. Count'
    BY <1>1 DEF IInv, Count
  <1>4. CASE (\E c \in {"paused", "closed", Outcome} : ToDrain(c)) /\ queue' = queue
    BY <1>1, <1>2, <1>3, <1>4, OutcomeTyped, ToDrainOK
  <1>5. CASE Yield
    BY <1>1, <1>5, YieldOK
  <1>6. CASE pc' = "wait" /\ UNCHANGED <<carry, work, queue>>
    <2>1. Names'
      BY <1>6, <1>1, <1>2 DEF IInv, Names
    <2>2. Flags'
      BY <1>6, <1>1, <1>2 DEF IInv, Flags
    <2>3. Count'
      BY <1>6, <1>1, <1>2 DEF IInv, Count
    <2>4. Places' /\ Closed' /\ Looked'
      BY <1>6, <1>1, <1>2 DEF IInv, Names, Places, Closed, Looked
    <2> QED BY <2>1, <2>2, <2>3, <2>4 DEF IInv
  <1>7. \/ (\E c \in {"paused", "closed", Outcome} : ToDrain(c)) /\ queue' = queue
        \/ Yield
        \/ pc' = "wait" /\ UNCHANGED <<carry, work, queue>>
    <2>1. CASE RunWakes
      BY <2>1 DEF RunWakes
    <2>2. CASE StreamWakes
      BY <2>2 DEF StreamWakes
    <2>3. CASE Pull \/ Leave
      BY <2>3 DEF Pull, Leave
    <2> QED BY <2>1, <2>2, <2>3
  <1> QED BY <1>4, <1>5, <1>6, <1>7

\* Where the caller is when it has given the lease back.
LEMMA ExitPlaces ==
    ASSUME IInv, pc = "exit", pc' = AfterExit, lease' = "released",
           carry' \in {carry, "paused", "cancelled"}, UNCHANGED <<watch, work, torn>>
    PROVE  Places' /\ Closed' /\ Looked'
  <1>1. Places' /\ Closed'
    BY DEF IInv, Places, Closed, AfterExit
  <1>2. Looked'
    BY DEF IInv, Looked, AfterExit
  <1> QED BY <1>1, <1>2

\* The caller on its way out: drain, exit, the last look.
LEMMA ExitOK ==
    ASSUME IInv, DrainEnds \/ LookAgain \/ DropWatch \/ \E ok \in BOOLEAN : Exit(ok)
    PROVE  IInv'
  <1>1. CASE DrainEnds
    <2>1. Names'
      BY <1>1 DEF IInv, Names, DrainEnds, Drained, WorkDrained
    <2>2. Flags'
      BY <1>1 DEF IInv, Flags, DrainEnds, Drained, WorkDrained
    <2>3. Count'
      BY <1>1 DEF IInv, Count, DrainEnds
    <2>4. Places' /\ Closed' /\ Looked'
      BY <1>1 DEF IInv, Names, Places, Closed, Looked, DrainEnds, Drained, WorkDrained
    <2> QED BY <2>1, <2>2, <2>3, <2>4 DEF IInv
  <1>2. CASE LookAgain
    <2>1. ~Stopped => ~owed
      BY <1>2 DEF LookAgain, Settled
    <2>2. Names'
      BY <1>2 DEF IInv, Names, LookAgain, AfterLook
    <2>3. Flags'
      BY <1>2 DEF IInv, Flags, LookAgain
    <2>4. Count'
      BY <1>2 DEF IInv, Count, LookAgain
    <2>5. Places' /\ Closed' /\ Looked'
      BY <1>2, <2>1 DEF IInv, Names, Places, Closed, Looked, LookAgain, AfterLook
    <2> QED BY <2>2, <2>3, <2>4, <2>5 DEF IInv
  <1>3. CASE DropWatch
    <2>1. Names'
      BY <1>3 DEF IInv, Names, DropWatch
    <2>2. Flags'
      BY <1>3 DEF IInv, Flags, DropWatch
    <2>3. Count'
      BY <1>3 DEF IInv, Count, DropWatch
    <2>4. Places' /\ Closed' /\ Looked'
      BY <1>3 DEF IInv, Names, Places, Closed, Looked, DropWatch
    <2> QED BY <2>1, <2>2, <2>3, <2>4 DEF IInv
  <1>4. CASE \E ok \in BOOLEAN : Exit(ok)
    <2>1. Names'
      BY <1>4 DEF IInv, Names, Exit, AfterExit, Owes
    <2>2. Flags'
      BY <1>4 DEF IInv, Flags, Exit, AfterExit, Owes
    <2>3. Count'
      BY <1>4 DEF IInv, Count, Exit, AfterExit
    <2>4. /\ pc = "exit" /\ pc' = AfterExit /\ lease' = "released"
          /\ carry' \in {carry, "paused"} /\ UNCHANGED <<watch, work, torn>>
      BY <1>4 DEF Exit
    <2>5. Places' /\ Closed' /\ Looked'
      BY <2>4, ExitPlaces
    <2> QED BY <2>1, <2>2, <2>3, <2>5 DEF IInv
  <1> QED BY <1>1, <1>2, <1>3, <1>4

\* A cancellation of the caller, at whatever await it is.
LEMMA CancelOK ==
    ASSUME IInv, CallerCancelled
    PROVE  IInv'
  <1>1. Count'
    <2>1. cancels < MaxCancels /\ cancels' = cancels + 1
      BY DEF CallerCancelled
    <2> QED BY <2>1, AdmissionAssumption DEF IInv, Count
  <1>2. CASE pc \in {"look", "wait"}
    <2>1. watch # "none" /\ queue' \in Chunk \cup {"empty"} /\ ToDrain("cancelled")
          /\ UNCHANGED <<call, lease, signal, expired, watch, owed, torn>>
      BY <1>2 DEF CallerCancelled, IInv, Names, Places
    <2> QED BY <1>1, <1>2, <2>1, ToDrainOK
  <1>3. CASE pc = "admit"
    <2>1. Names'
      BY <1>3 DEF CallerCancelled, AfterExit, IInv, Names
    <2>2. Flags'
      BY <1>3 DEF CallerCancelled, Owes, IInv, Flags
    <2>3. Places' /\ Closed' /\ Looked'
      BY <1>3 DEF CallerCancelled, AfterExit, IInv, Names, Places, Closed, Looked
    <2> QED BY <1>1, <2>1, <2>2, <2>3 DEF IInv
  <1>4. CASE pc = "drain"
    <2>1. Names'
      BY <1>4 DEF CallerCancelled, AfterExit, IInv, Names
    <2>2. Flags'
      BY <1>4 DEF CallerCancelled, Owes, IInv, Flags
    <2>3. Places' /\ Closed' /\ Looked'
      BY <1>4 DEF CallerCancelled, AfterExit, IInv, Names, Places, Closed, Looked
    <2> QED BY <1>1, <2>1, <2>2, <2>3 DEF IInv
  <1>5. CASE pc = "exit"
    <2>1. Names'
      BY <1>5 DEF CallerCancelled, AfterExit, IInv, Names
    <2>2. Flags'
      BY <1>5 DEF CallerCancelled, Owes, IInv, Flags
    <2>3. Places' /\ Closed' /\ Looked'
      BY <1>5, ExitPlaces DEF CallerCancelled
    <2> QED BY <1>1, <2>1, <2>2, <2>3 DEF IInv
  <1>6. CASE pc \in {"look again", "drop"}
    <2>1. Names'
      BY <1>6 DEF CallerCancelled, AfterExit, IInv, Names
    <2>2. Flags'
      BY <1>6 DEF CallerCancelled, Owes, IInv, Flags
    <2>3. pc' = "drop" /\ carry' = "cancelled" /\ UNCHANGED <<lease, watch, work, torn>>
      BY <1>6 DEF CallerCancelled
    <2>4. Places' /\ Closed' /\ Looked'
      BY <1>6, <2>3 DEF IInv, Places, Closed, Looked
    <2> QED BY <1>1, <2>1, <2>2, <2>4 DEF IInv
  <1> QED BY <1>2, <1>3, <1>4, <1>5, <1>6 DEF CallerCancelled

\* Every step keeps the invariant.
LEMMA StepOK == IInv /\ [Next]_vars => IInv'
  <1> SUFFICES ASSUME IInv, [Next]_vars PROVE IInv'
    OBVIOUS
  <1>1. CASE UNCHANGED vars
    <2>1. Names'
      BY <1>1, SameNames DEF vars, IInv
    <2>2. Flags'
      BY <1>1 DEF vars, IInv, Flags
    <2>3. Count'
      BY <1>1 DEF vars, IInv, Count
    <2>4. Places' /\ Closed'
      BY <1>1 DEF vars, IInv, Places, Closed
    <2>5. Looked'
      BY <1>1 DEF vars, IInv, Looked
    <2> QED BY <2>1, <2>2, <2>3, <2>4, <2>5 DEF IInv
  <1> QED
    BY <1>1, BrokerOK, WorkOK, EntryOK, WaitOK, ExitOK, CancelOK DEF Next, CallerStep

\* The invariant of Admission.
THEOREM Invariant == Spec => []IInv
  BY InitOK, StepOK, PTL DEF Spec

\* Every variable stays in its type, and nothing is left behind when a call is over.
THEOREM TypeCorrect == Spec => []TypeOK
  <1>1. IInv => TypeOK
    BY DEF IInv, Names, Flags, Count, Places, Closed, TypeOK
  <1> QED BY Invariant, <1>1, PTL

\* The lease outlives the transport, however often the caller is cancelled; only a
\* cancellation during the drain can cut its cleanup short.
THEOREM LeaseOutlivesWork == Spec => []ReleasedWhenClosed
  <1>1. IInv => ReleasedWhenClosed
    BY DEF IInv, Places, Closed, ReleasedWhenClosed
  <1> QED BY Invariant, <1>1, PTL

\* No result crosses a revocation that came before the lease was given back.
THEOREM ResultsAreOwned == Spec => []DeliveredIsOwned
  <1>1. IInv => DeliveredIsOwned
    BY DEF IInv, Looked, DeliveredIsOwned
  <1> QED BY Invariant, <1>1, PTL

\* No provider is called under an admission that was revoked before.
THEOREM CallsAreAdmitted == Spec => StartsAdmitted
  <1>1. [Next]_vars => [work = "none" /\ work' = "calling" => ~owed]_vars
    <2> SUFFICES ASSUME [Next]_vars, work = "none", work' = "calling" PROVE ~owed
      OBVIOUS
    <2>1. CASE StartWork
      BY <2>1 DEF StartWork, Settled, ToDrain, Cancelled
    <2>2. CASE ~StartWork
      BY <2>2 DEF Next, vars, Revoke, Expire, WatchEnds, WorkStep, Returns, Raises, Puts, CleansUp,
        MonitorCancels, CallerStep, Admit, NotAdmitted, RunWakes, StreamWakes, Pull, Leave, Yield,
        ToDrain, Cancelled, DrainEnds, Exit, LookAgain, DropWatch, CallerCancelled
    <2> QED BY <2>1, <2>2
  <1> QED BY <1>1, PTL DEF Spec, StartsAdmitted
=============================================================================
