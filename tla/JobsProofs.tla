----------------------------- MODULE JobsProofs -----------------------------
(***************************************************************************)
(* Proofs about Jobs and JobWatch, for any clients and bounds: the types,   *)
(* and, for a job whose files only the owner's event loop uses, that its    *)
(* record is a job's life and its log ends with what the record says.       *)
(***************************************************************************)
EXTENDS JobWatch, SequenceTheorems, FiniteSetTheorems, TLAPS

Rest      == {"idle", "start", "await", "done"}
Appending == {"append", "log", "write append", "replace append"}
OfConsumer == Appending \cup {"start", "write start", "replace start", "await", "look", "done"}
OfClient   == Appending \cup {"idle", "judge", "write cancel", "replace cancel", "write listed",
                              "replace listed", "signal", "prune", "prune log"}
Event == [seq : Nat, kind : Kind]

FilesTyped ==
    /\ rec \in Record \cup {NoFile} /\ tmp \in Record \cup {NoFile}
    /\ log \in Seq(Event)
    /\ mem \in [Actor -> Record] /\ event \in [Actor -> Kind]
    /\ said \in Last \cup {"nothing"}

FlagsTyped == task \in BOOLEAN /\ cancelled \in BOOLEAN /\ handling \in BOOLEAN

CountsTyped == cancels \in 0..MaxCancels /\ crashes \in 0..MaxCrashes /\ clients \in Company

\* Who is where; those between two awaits on the loop hold it; no stranger does anything.
Placed ==
    /\ pc \in [Actor -> OfConsumer \cup OfClient]
    /\ pc[Consumer] \in OfConsumer /\ \A c \in Client : pc[c] \in OfClient
    /\ loop \in OnLoop \cup {Free}
    /\ \A a \in OnLoop : pc[a] \notin Rest <=> loop = a
    /\ \A c \in Client \ clients : pc[c] = "idle"

JobTyped == FilesTyped /\ FlagsTyped /\ CountsTyped /\ Placed

-----------------------------------------------------------------------------
(* The types                                                               *)

LEMMA Actors ==
    /\ Consumer \in Actor /\ Client \subseteq Actor /\ OnLoop \subseteq Actor
    /\ Consumer \in OnLoop /\ Consumer \notin Client /\ Free \notin Actor
    /\ LoopClient \subseteq Client /\ \A a \in Actor : a # Consumer => a \in Client
  <1>1. Free # Consumer
    BY DEF Free, Consumer
  <1> QED BY <1>1, JobsAssumption DEF Actor, OnLoop, Client

LEMMA RecordsTyped ==
    /\ NewRecord \in Record
    /\ \A r \in Record \cup {NoFile} : \A s \in Running \cup Terminal :
          [r EXCEPT !.status = s] \in Record
    /\ \A r \in Record : [r EXCEPT !.cancel = TRUE] \in Record
    /\ \A r \in Record : \A n \in Nat : \A s \in Running \cup Terminal :
          [r EXCEPT !.count = n, !.status = s] \in Record
    /\ \A r \in Record : r # NoFile /\ r.count \in Nat
  <1>1. NewRecord \in Record
    BY DEF Record, NewRecord, Running
  <1>2. ASSUME NEW s \in Running \cup Terminal
        PROVE  [NoFile EXCEPT !.status = s] \in Record
    BY DEF Record, NoFile
  <1>3. ASSUME NEW r \in Record, NEW s \in Running \cup Terminal
        PROVE  [r EXCEPT !.status = s] \in Record
    BY DEF Record
  <1>4. ASSUME NEW r \in Record
        PROVE  [r EXCEPT !.cancel = TRUE] \in Record
    BY DEF Record
  <1>5. ASSUME NEW r \in Record, NEW n \in Nat, NEW s \in Running \cup Terminal
        PROVE  [r EXCEPT !.count = n, !.status = s] \in Record
    BY DEF Record
  <1>6. ASSUME NEW r \in Record
        PROVE  r.count \in Nat /\ r # NoFile
    <2>1. r.status \in Running \cup Terminal /\ r.count \in Nat
      BY DEF Record
    <2>2. NoFile.status \notin Running \cup Terminal
      BY DEF NoFile, Running, Terminal
    <2> QED BY <2>1, <2>2
  <1> QED BY <1>1, <1>2, <1>3, <1>4, <1>5, <1>6

LEMMA StatusTyped == \A e \in Kind : StatusAfter(e) \in Running \cup Terminal
  BY DEF Kind, Last, StatusAfter, Running, Terminal

LEMMA TypedInit == Init => JobTyped
  <1> SUFFICES ASSUME Init PROVE JobTyped
    OBVIOUS
  <1>1. FilesTyped
    <2>1. rec \in Record /\ tmp = NoFile
      BY RecordsTyped DEF Init
    <2>2. log \in Seq(Event)
      BY DEF Init
    <2>3. mem \in [Actor -> Record]
      BY RecordsTyped DEF Init
    <2>4. event \in [Actor -> Kind] /\ said = "nothing"
      BY DEF Init, Kind
    <2> QED BY <2>1, <2>2, <2>3, <2>4 DEF FilesTyped
  <1>2. FlagsTyped
    BY DEF Init, FlagsTyped
  <1>3. CountsTyped
    BY JobsAssumption DEF Init, CountsTyped
  <1>4. \A a \in Actor : pc[a] = IF a = Consumer THEN "start" ELSE "idle"
    BY DEF Init
  <1>5. Placed
    BY <1>4, Actors DEF Init, Placed, OfConsumer, OfClient, Rest
  <1> QED BY <1>1, <1>2, <1>3, <1>5 DEF JobTyped

\* A step that moves one actor.
LEMMA OneMoves ==
    ASSUME Placed, NEW a \in Actor, NEW l, At(a, l), UNCHANGED clients,
           IF a = Consumer THEN l \in OfConsumer ELSE l \in OfClient,
           a \in Client => a \in clients \/ l = "idle",
           loop' = IF a \in OnLoop THEN (IF l \in Rest THEN Free ELSE a) ELSE loop,
           a \in OnLoop => loop = a \/ loop = Free
    PROVE  Placed'
  <1>1. pc'[a] = l /\ \A b \in Actor \ {a} : pc'[b] = pc[b]
    BY DEF At, Placed
  <1>2. pc' \in [Actor -> OfConsumer \cup OfClient]
    BY DEF At, Placed
  <1>3. pc'[Consumer] \in OfConsumer /\ \A c \in Client : pc'[c] \in OfClient
    BY <1>1, Actors DEF Placed
  <1>4. loop' \in OnLoop \cup {Free}
    BY DEF Placed
  <1>5. \A b \in OnLoop : pc'[b] \notin Rest <=> loop' = b
    BY <1>1, Actors DEF Placed
  <1>6. \A c \in Client \ clients' : pc'[c] = "idle"
    BY <1>1, Actors DEF Placed
  <1> QED BY <1>2, <1>3, <1>4, <1>5, <1>6 DEF Placed

Typical(a, l) == IF a = Consumer THEN l \in OfConsumer ELSE l \in OfClient

\* ... goes on between two awaits, comes to the next one, or begins.
LEMMA Stays ==
    ASSUME Placed, NEW a \in Actor, NEW l, At(a, l), UNCHANGED <<loop, clients>>,
           Typical(a, l), pc[a] \notin Rest, l \notin Rest
    PROVE  Placed'
  <1>1. a \in OnLoop => loop = a
    BY DEF Placed
  <1>2. a \in Client => a \in clients
    BY DEF Placed, Rest
  <1> QED BY <1>1, <1>2, OneMoves DEF Typical

LEMMA Leaves ==
    ASSUME Placed, NEW a \in Actor, NEW l, At(a, l), Leave(a), UNCHANGED clients,
           Typical(a, l), pc[a] \notin Rest, l \in Rest
    PROVE  Placed'
  <1>1. a \in OnLoop => loop = a
    BY DEF Placed
  <1>2. a \in Client => a \in clients
    BY DEF Placed, Rest
  <1> QED BY <1>1, <1>2, OneMoves DEF Typical, Leave

LEMMA Enters ==
    ASSUME Placed, NEW a \in Actor, NEW l, At(a, l), Hold(a), UNCHANGED clients,
           Typical(a, l), MayRun(a), a \in Client => a \in clients, l \notin Rest
    PROVE  Placed'
  BY OneMoves DEF Typical, Hold, MayRun

\* A step that fails.
LEMMA FailsPlaced ==
    ASSUME Placed, NEW a \in Actor, StepFails(a),
           pc[a] \notin Rest \/ (a = Consumer /\ loop = Free)
    PROVE  Placed'
  <1>1. CASE a = Consumer /\ ~handling
    <2>1. loop' = Consumer /\ At(a, "append") /\ UNCHANGED clients
      BY <1>1, Actors DEF StepFails, Hold
    <2>2. loop = a \/ loop = Free
      BY <1>1, Actors DEF Placed
    <2> QED BY <1>1, <2>1, <2>2, OneMoves, Actors DEF OfConsumer, Appending, Rest
  <1>2. CASE ~(a = Consumer /\ ~handling)
    <2>1. Leave(a) /\ At(a, IF a = Consumer THEN "done" ELSE "idle") /\ UNCHANGED clients
      BY <1>2 DEF StepFails
    <2>2. CASE a = Consumer
      <3>1. loop' = Free /\ At(a, "done")
        BY <2>1, <2>2, Actors DEF Leave
      <3>2. loop = a \/ loop = Free
        BY <2>2, Actors DEF Placed
      <3> QED BY <2>1, <2>2, <3>1, <3>2, OneMoves, Actors DEF OfConsumer, Rest
    <2>3. CASE a # Consumer
      BY <2>1, <2>3, Leaves, Actors DEF Typical, OfClient, Rest
    <2> QED BY <2>2, <2>3
  <1> QED BY <1>1, <1>2

LEMMA EventOver == \A a \in Actor : FilesTyped => event[a] \in {"step", "failed step"} \cup Last
  BY DEF FilesTyped, Kind

\* The steps at the files.
LEMMA FilesPlaced ==
    ASSUME FilesTyped, Placed, NEW a \in Actor, FileStep(a)
    PROVE  Placed'
  <1> USE DEF Appending, Rest
  <1>0. Typical(a, pc[a])
    BY Actors DEF Typical, Placed
  <1>1. CASE AppendRead(a)
    BY <1>1, Stays DEF AppendRead, Typical, OfConsumer, OfClient
  <1>2. CASE AppendLog(a)
    BY <1>2, Stays DEF AppendLog, Typical, OfConsumer, OfClient
  <1>3. CASE WriteTmp(a)
    <2>1. Typical(a, Replacing(pc[a])) /\ Replacing(pc[a]) \notin Rest /\ pc[a] \notin Rest
      BY <1>0, <1>3 DEF WriteTmp, Writes, Replacing, Typical, OfConsumer, OfClient
    <2> QED BY <1>3, <2>1, Stays DEF WriteTmp
  <1>4. CASE RecordGone(a)
    BY <1>4, FailsPlaced DEF RecordGone
  <1>5. pc[a] \in {Replacing(l) : l \in Writes} =>
           pc[a] \in {"replace append", "replace start", "replace cancel", "replace listed"}
    BY DEF Writes, Replacing
  <1>6. CASE ReplaceFails(a)
    BY <1>5, <1>6, FailsPlaced DEF ReplaceFails
  <1>7. CASE Replace(a)
    <2>1. /\ pc[a] \in {"replace append", "replace start", "replace cancel", "replace listed"}
          /\ UNCHANGED <<clients, event>>
      BY <1>5, <1>7 DEF Replace
    <2>2. CASE pc[a] = "replace cancel"
      <3>1. At(a, "signal") /\ loop' = loop
        BY <1>7, <2>2 DEF Replace
      <3>2. Typical(a, "signal")
        BY <1>0, <2>2 DEF Typical, OfConsumer, OfClient
      <3> QED BY <2>1, <2>2, <3>1, <3>2, Stays
    <2>3. CASE pc[a] # "replace cancel"
      <3>1. Return(a)
        BY <1>7, <2>3 DEF Replace
      <3>2. CASE a # Consumer
        <4>1. Leave(a) /\ At(a, "idle")
          BY <3>1, <3>2 DEF Return
        <4> QED BY <2>1, <3>2, <4>1, Leaves DEF Typical, OfClient
      <3>3. CASE a = Consumer /\ event[a] = "failed step"
        <4>1. loop' = loop /\ At(a, "look")
          BY <3>1, <3>3 DEF Return, Last
        <4> QED BY <2>1, <3>3, <4>1, Stays DEF Typical, OfConsumer
      <3>4. CASE a = Consumer /\ event[a] = "step"
        <4>1. Leave(a) /\ At(a, "await")
          BY <3>1, <3>4 DEF Return, Last
        <4> QED BY <2>1, <3>4, <4>1, Leaves DEF Typical, OfConsumer
      <3>5. CASE a = Consumer /\ event[a] \in Last
        <4>1. Leave(a) /\ At(a, "done")
          BY <3>1, <3>5 DEF Return, Last
        <4> QED BY <2>1, <3>5, <4>1, Leaves DEF Typical, OfConsumer
      <3> QED BY <3>2, <3>3, <3>4, <3>5, EventOver
    <2> QED BY <2>2, <2>3
  <1> QED BY <1>1, <1>2, <1>3, <1>4, <1>6, <1>7 DEF FileStep

\* The consumer's own steps.
LEMMA ConsumerPlaced ==
    ASSUME Placed, Start \/ SaysError \/ SourceStep \/ SourceUnread \/ CancelArrives
    PROVE  Placed'
  <1> USE Actors DEF Typical, OfConsumer, Appending, Rest
  <1>1. CASE Start
    BY <1>1, Enters DEF Start, MayRun
  <1>2. CASE SaysError
    BY <1>2, Stays DEF SaysError
  <1>3. CASE SourceStep
    <2>1. PICK e \in Kind, looked \in BOOLEAN : SourceYields(e, looked)
      BY <1>3 DEF SourceStep
    <2> QED BY <2>1, Enters DEF SourceYields, Wakes, MayRun
  <1>4. CASE SourceUnread
    BY <1>4, FailsPlaced DEF SourceUnread
  <1>5. CASE CancelArrives
    BY <1>5, Enters DEF CancelArrives, Wakes, MayRun
  <1> QED BY <1>1, <1>2, <1>3, <1>4, <1>5

\* The clients' own steps.
LEMMA ClientPlaced ==
    ASSUME Placed, NEW c \in Client,
           \/ Judge(c) \/ Signal(c) \/ PruneRecord(c) \/ PruneLog(c)
           \/ ListReads(c) \/ CancelReads(c) \/ PruneReads(c)
    PROVE  Placed'
  <1> USE Actors DEF Typical, OfClient, Appending, Rest
  <1>1. CASE Judge(c)
    <2>1. \/ Leave(c) /\ At(c, "idle")
          \/ loop' = loop /\ At(c, "write listed")
      BY <1>1 DEF Judge
    <2> QED BY <1>1, <2>1, Stays, Leaves DEF Judge
  <1>2. CASE Signal(c)
    <2>1. \/ Leave(c) /\ At(c, "idle")
          \/ loop' = loop /\ At(c, "append")
      BY <1>2 DEF Signal
    <2> QED BY <1>2, <2>1, Stays, Leaves DEF Signal
  <1>3. CASE PruneRecord(c)
    BY <1>3, Stays DEF PruneRecord
  <1>4. CASE PruneLog(c)
    BY <1>4, Leaves DEF PruneLog
  <1>5. CASE ListReads(c)
    BY <1>5, Enters DEF ListReads, MayBegin
  <1>6. CASE CancelReads(c)
    BY <1>6, Enters DEF CancelReads, MayBegin
  <1>7. CASE PruneReads(c)
    BY <1>7, Enters DEF PruneReads, MayBegin
  <1> QED BY <1>1, <1>2, <1>3, <1>4, <1>5, <1>6, <1>7

LEMMA CrashPlaced ==
    ASSUME Placed, Crash
    PROVE  Placed'
  <1> DEFINE next(a) == CASE a = Consumer              -> "done"
                           [] a \in InOwner \cap Client -> "idle"
                           [] a \in OtherClient         -> pc[a]
  <1>0. pc' = [a \in Actor |-> next(a)] /\ loop' = Free /\ UNCHANGED clients
    BY DEF Crash
  <1>1. next(Consumer) = "done"
    BY Actors DEF Client
  <1>2. \A c \in Client : c \in OtherClient => next(c) = pc[c]
    BY Actors, JobsAssumption DEF InOwner, OnLoop
  <1>3. \A c \in Client : c \notin OtherClient => next(c) = "idle"
    BY Actors DEF InOwner, OnLoop, Client
  <1> HIDE DEF next
  <1>4. pc'[Consumer] = "done" /\ \A c \in Client : pc'[c] = next(c)
    BY <1>0, <1>1, Actors
  <1>5. \A c \in Client : pc'[c] \in OfClient /\ (c \notin clients' => pc'[c] = "idle")
    BY <1>0, <1>2, <1>3, <1>4 DEF Placed, OfClient
  <1>6. \A a \in OnLoop : pc'[a] \in Rest
    BY <1>3, <1>4, Actors, JobsAssumption DEF Rest, OnLoop
  <1>7. loop' = Free /\ \A a \in OnLoop : a # Free
    BY <1>0, Actors
  <1>8. pc' \in [Actor -> OfConsumer \cup OfClient]
    <2>1. \A a \in Actor : next(a) \in OfConsumer \cup OfClient
      BY <1>1, <1>4, <1>5, Actors DEF OfConsumer
    <2> QED BY <1>0, <2>1
  <1> QED BY <1>4, <1>5, <1>6, <1>7, <1>8 DEF Placed, OfConsumer

LEMMA NextSplits ==
    Next => \/ \E a \in Actor : FileStep(a)
            \/ Start \/ SaysError \/ SourceStep \/ SourceUnread \/ CancelArrives
            \/ \E c \in Client : \/ Judge(c) \/ Signal(c) \/ PruneRecord(c) \/ PruneLog(c)
                                 \/ ListReads(c) \/ CancelReads(c) \/ PruneReads(c)
            \/ ServerStops \/ Crash
  BY Actors DEF Next, ConsumerStep, ClientStep

LEMMA PlacedStep == FilesTyped /\ Placed /\ [Next]_vars => Placed'
  <1> SUFFICES ASSUME FilesTyped, Placed, [Next]_vars PROVE Placed'
    OBVIOUS
  <1>1. CASE UNCHANGED <<pc, loop, clients>>
    BY <1>1 DEF Placed
  <1>2. (ServerStops \/ UNCHANGED vars) => UNCHANGED <<pc, loop, clients>>
    BY DEF ServerStops, vars
  <1> QED BY <1>1, <1>2, NextSplits, FilesPlaced, ConsumerPlaced, ClientPlaced, CrashPlaced

\* The step of an actor at the files, by what it does to them.
LEMMA FilesStep == FilesTyped /\ Placed /\ [Next]_vars => FilesTyped'
  <1> SUFFICES ASSUME FilesTyped, Placed, [Next]_vars PROVE FilesTyped'
    OBVIOUS
  <1> USE DEF FilesTyped
  <1>1. ASSUME NEW a \in Actor, FileStep(a)
        PROVE  FilesTyped'
    <2>1. CASE AppendRead(a)
      <3>1. rec \in Record
        BY <2>1 DEF AppendRead
      <3> QED BY <2>1, <3>1 DEF AppendRead
    <2>2. CASE AppendLog(a)
      <3> DEFINE n == NextNumber(mem[a])
                 r == [mem[a] EXCEPT !.count = n, !.status = StatusAfter(event[a])]
      <3>0. mem[a] \in Record /\ event[a] \in Kind
        OBVIOUS
      <3>1. n \in Nat /\ event[a] \in Kind
        BY <3>0 DEF NextNumber, Record
      <3>2. r \in Record
        BY <3>1, RecordsTyped, StatusTyped
      <3>3. log' = Append(log, [seq |-> n, kind |-> event[a]]) /\ mem' = [mem EXCEPT ![a] = r]
        BY <2>2 DEF AppendLog
      <3>4. UNCHANGED <<rec, tmp, event, said>>
        BY <2>2 DEF AppendLog
      <3>5. [seq |-> n, kind |-> event[a]] \in Event
        BY <3>1 DEF Event
      <3> HIDE DEF n, r
      <3>6. log' \in Seq(Event)
        BY <3>3, <3>5
      <3>7. mem' \in [Actor -> Record]
        BY <3>2, <3>3
      <3> QED BY <3>4, <3>6, <3>7
    <2>3. CASE WriteTmp(a)
      BY <2>3 DEF WriteTmp
    <2>4. CASE Replace(a)
      BY <2>4 DEF Replace
    <2>5. ASSUME StepFails(a)
          PROVE  FilesTyped'
      BY <2>5 DEF StepFails, Kind, Last
    <2> QED BY <1>1, <2>1, <2>2, <2>3, <2>4, <2>5 DEF FileStep, RecordGone, ReplaceFails
  <1>2. CASE Start
    <2>1. [rec EXCEPT !.status = "running"] \in Record
      BY RecordsTyped DEF Running
    <2> QED BY <1>2, <2>1, Actors DEF Start
  <1>3. CASE SaysError
    BY <1>3 DEF SaysError, Heeded, Kind, Last
  <1>4. CASE SourceStep
    <2>1. PICK e \in Kind, looked \in BOOLEAN : SourceYields(e, looked)
      BY <1>4 DEF SourceStep
    <2>2. said' \in Last \cup {"nothing"}
      BY <2>1 DEF SourceYields, Kind, Last
    <2> QED BY <2>1, <2>2 DEF SourceYields, Heeded, Kind, Last
  <1>5. CASE SourceUnread
    BY <1>5 DEF SourceUnread, StepFails, Kind, Last
  <1>6. CASE CancelArrives
    BY <1>6 DEF CancelArrives, Kind, Last
  <1>7. ASSUME NEW c \in Client, ListReads(c) \/ CancelReads(c)
        PROVE  FilesTyped'
    <2>1. rec \in Record /\ Flagged(rec) \in Record
      BY <1>7, RecordsTyped DEF ListReads, CancelReads, MayBegin, Flagged
    <2> QED BY <1>7, <2>1 DEF ListReads, CancelReads
  <1>8. ASSUME NEW c \in Client, Judge(c)
        PROVE  FilesTyped'
    <2>1. [mem[c] EXCEPT !.status = "interrupted"] \in Record
      BY RecordsTyped, Actors DEF Terminal
    <2> QED BY <1>8, <2>1 DEF Judge
  <1>9. ASSUME NEW c \in Client, Signal(c)
        PROVE  FilesTyped'
    BY <1>9 DEF Signal, Kind, Last
  <1>10. ASSUME NEW c \in Client, PruneRecord(c) \/ PruneLog(c) \/ PruneReads(c)
         PROVE  FilesTyped'
    <2>1. \/ rec' = NoFile /\ log' = log
          \/ rec' = rec /\ log' = <<>>
          \/ UNCHANGED <<rec, log>>
      BY <1>10 DEF PruneRecord, PruneLog, PruneReads
    <2>2. UNCHANGED <<tmp, mem, event, said>>
      BY <1>10 DEF PruneRecord, PruneLog, PruneReads
    <2>3. log' \in Seq(Event)
      BY <2>1, EmptySeq
    <2>4. rec' \in Record \cup {NoFile}
      BY <2>1
    <2> QED BY <2>2, <2>3, <2>4
  <1>11. CASE ServerStops \/ Crash \/ UNCHANGED vars
    BY <1>11 DEF ServerStops, Crash, vars
  <1> QED BY <1>1, <1>2, <1>3, <1>4, <1>5, <1>6, <1>7, <1>8, <1>9, <1>10, <1>11, NextSplits

LEMMA FlagsStep == FlagsTyped /\ [Next]_vars => FlagsTyped'
  <1> SUFFICES ASSUME FlagsTyped, [Next]_vars PROVE FlagsTyped'
    OBVIOUS
  <1> USE DEF FlagsTyped
  <1>1. ASSUME NEW a \in Actor, StepFails(a)
        PROVE  FlagsTyped'
    BY <1>1, Zenon DEF StepFails
  <1>2. ASSUME NEW a \in Actor, Replace(a)
        PROVE  FlagsTyped'
    <2>1. UNCHANGED <<cancelled, handling>>
      BY <1>2 DEF Replace
    <2>2. task' = task \/ task' = (IF a = Consumer THEN event[a] \notin Last ELSE task)
      BY <1>2 DEF Replace, Return
    <2>3. task' \in BOOLEAN
      BY <2>2, Zenon
    <2> QED BY <2>1, <2>3, Zenon
  <1>3. ASSUME NEW a \in Actor, FileStep(a)
        PROVE  FlagsTyped'
    <2>1. StepFails(a) \/ Replace(a) \/ UNCHANGED <<task, cancelled, handling>>
      BY <1>3 DEF FileStep, AppendRead, AppendLog, WriteTmp, RecordGone, ReplaceFails
    <2> QED BY <1>1, <1>2, <2>1, Zenon
  <1>4. CASE SourceStep
    <2>1. PICK e \in Kind, looked \in BOOLEAN : SourceYields(e, looked)
      BY <1>4 DEF SourceStep
    <2>2. UNCHANGED <<task, cancelled>> /\ handling' = (e = "error" /\ ~looked)
      BY <2>1 DEF SourceYields
    <2>3. handling' \in BOOLEAN
      BY <2>2, Zenon
    <2> QED BY <2>2, <2>3, Zenon
  <1>5. CASE Start \/ SaysError \/ UNCHANGED vars
    <2>1. UNCHANGED <<task, cancelled, handling>>
      BY <1>5 DEF Start, SaysError, vars
    <2> QED BY <2>1, Zenon
  <1>6. CASE SourceUnread
    BY <1>6, <1>1, Actors DEF SourceUnread
  <1>7. CASE CancelArrives \/ ServerStops \/ Crash
    <2>1. /\ task' = task \/ task' = FALSE
          /\ cancelled' = TRUE \/ cancelled' = FALSE
          /\ handling' = handling \/ handling' = TRUE \/ handling' = FALSE
      BY <1>7, Zenon DEF CancelArrives, ServerStops, Crash
    <2> QED BY <2>1, Zenon
  <1>8. ASSUME NEW c \in Client,
               \/ Judge(c) \/ Signal(c) \/ PruneRecord(c) \/ PruneLog(c)
               \/ ListReads(c) \/ CancelReads(c) \/ PruneReads(c)
        PROVE  FlagsTyped'
    <2>1. UNCHANGED <<task, handling>> /\ (cancelled' = TRUE \/ cancelled' = cancelled)
      BY <1>8, Zenon DEF Judge, Signal, PruneRecord, PruneLog, ListReads, CancelReads, PruneReads
    <2> QED BY <2>1, Zenon
  <1> QED BY <1>3, <1>4, <1>5, <1>6, <1>7, <1>8, NextSplits

LEMMA CountsStep == CountsTyped /\ [Next]_vars => CountsTyped'
  <1> SUFFICES ASSUME CountsTyped, [Next]_vars PROVE CountsTyped'
    OBVIOUS
  <1>1. ASSUME NEW a \in Actor, FileStep(a)
        PROVE  UNCHANGED <<cancels, crashes, clients>>
    BY <1>1 DEF FileStep, AppendRead, AppendLog, WriteTmp, Replace, RecordGone, ReplaceFails, StepFails
  <1>2. ASSUME Start \/ SaysError \/ SourceStep \/ SourceUnread \/ CancelArrives \/ ServerStops
        PROVE  UNCHANGED <<cancels, crashes, clients>>
    BY <1>2 DEF Start, SaysError, SourceStep, SourceYields, SourceUnread, StepFails,
                CancelArrives, ServerStops
  <1>3. ASSUME NEW c \in Client,
               \/ Judge(c) \/ Signal(c) \/ PruneRecord(c) \/ PruneLog(c)
               \/ ListReads(c) \/ PruneReads(c)
        PROVE  UNCHANGED <<cancels, crashes, clients>>
    BY <1>3 DEF Judge, Signal, PruneRecord, PruneLog, ListReads, PruneReads
  <1>4. ASSUME NEW c \in Client, CancelReads(c)
        PROVE  CountsTyped'
    <2>1. cancels < MaxCancels /\ cancels' = cancels + 1 /\ UNCHANGED <<crashes, clients>>
      BY <1>4 DEF CancelReads
    <2> QED BY <2>1, JobsAssumption DEF CountsTyped
  <1>5. CASE Crash
    BY <1>5, JobsAssumption DEF Crash, CountsTyped
  <1>6. CASE UNCHANGED <<cancels, crashes, clients>>
    BY <1>6 DEF CountsTyped
  <1>7. UNCHANGED vars => UNCHANGED <<cancels, crashes, clients>>
    BY DEF vars
  <1> QED BY <1>1, <1>2, <1>3, <1>4, <1>5, <1>6, <1>7, NextSplits

LEMMA TypedStep == JobTyped /\ [Next]_vars => JobTyped'
  BY FilesStep, FlagsStep, CountsStep, PlacedStep DEF JobTyped

\* The types of files, flags, counts and places, whoever uses the files.
THEOREM TypedAlways == Spec => []JobTyped
  BY TypedInit, TypedStep, PTL DEF Spec

LEMMA TypedIsTypeOK == JobTyped => TypeOK
  <1> SUFFICES ASSUME JobTyped PROVE TypeOK
    OBVIOUS
  <1>1. {rec, tmp} \subseteq Record \cup {NoFile} /\ clients \in Company
    BY DEF JobTyped, FilesTyped, CountsTyped
  <1>2. \A i \in 1..Len(log) : log[i] \in [seq : Nat, kind : Kind]
    <2>1. log \in Seq(Event)
      BY DEF JobTyped, FilesTyped
    <2>2. \A i \in 1..Len(log) : log[i] \in Event
      BY <2>1
    <2> QED BY <2>2 DEF Event
  <1>3. task \in BOOLEAN /\ cancelled \in BOOLEAN /\ handling \in BOOLEAN
    BY Zenon DEF JobTyped, FlagsTyped
  <1>4. loop \in OnLoop \cup {Free}
    BY DEF JobTyped, Placed
  <1>5. mem \in [Actor -> Record] /\ event \in [Actor -> Kind] /\ said \in Last \cup {"nothing"}
    BY DEF JobTyped, FilesTyped
  <1>6. cancels \in 0..MaxCancels /\ crashes \in 0..MaxCrashes
    BY DEF JobTyped, CountsTyped
  <1>7. \A a \in OnLoop : pc[a] \notin {"idle", "start", "await", "done"} <=> loop = a
    BY DEF JobTyped, Placed, Rest
  <1> QED BY <1>1, <1>2, <1>3, <1>4, <1>5, <1>6, <1>7, Zenon DEF TypeOK

\* Whoever uses the files, every variable stays in its type, and of the consumer and the
\* requests on the owner's event loop only the one that holds it is between two awaits.
THEOREM TypeCorrect == Spec => []TypeOK
  BY TypedAlways, TypedIsTypeOK, PTL

-----------------------------------------------------------------------------
(* The owner's loop alone: the inductive invariant                         *)

\* What the source said is what the consumer appends.
Meant(e) ==
    /\ e = "step" => said = "nothing"
    /\ e = "complete" => said = "complete"
    /\ e = "error" => said = "error"
    /\ e = "failed step" => said = "error" /\ ~rec.cancel

\* The consumer: the job is queued until it starts and running until it ends; a failed
\* step's error follows a record that failed already.
ConsumerFine ==
    /\ pc[Consumer] = "start" => loop = Free
    /\ pc[Consumer] \in {"start", "write start", "replace start"} =>
          rec.status = "queued" /\ said = "nothing" /\ event[Consumer] = "step"
    /\ pc[Consumer] \in {"write start", "replace start"} => mem[Consumer].status = "running"
    /\ pc[Consumer] = "await" => rec.status = "running" /\ said = "nothing"
    /\ pc[Consumer] \in Appending =>
          \/ rec.status = "running" /\ Meant(event[Consumer])
          \/ rec.status = "failed" /\ event[Consumer] = "error" /\ said = "error"
    /\ pc[Consumer] = "look" => rec.status = "failed" /\ said = "error" /\ ~rec.cancel

\* A request touches a job that is not over, a deletion one that is; who marks or ends it
\* has seen that no task does.
ClientFine(c) ==
    /\ pc[c] \notin {"idle", "prune", "prune log"} => rec.status \in Running
    /\ pc[c] \in {"write listed", "replace listed"} =>
          pc[Consumer] = "done" /\ mem[c].status = "interrupted"
    /\ pc[c] \in {"write cancel", "replace cancel"} => mem[c].status = rec.status
    /\ pc[c] \in Appending => pc[Consumer] = "done" /\ event[c] = "canceled"
    /\ pc[c] = "prune" => rec.status \in Terminal
    /\ pc[c] = "prune log" => rec = NoFile

\* What an actor is about to write goes with what it logged.
CopyFine(a) ==
    /\ pc[a] = "log" => mem[a] = rec
    /\ pc[a] \in {"write append", "replace append"} =>
          /\ mem[a].status = StatusAfter(event[a]) /\ mem[a].cancel = rec.cancel
          /\ log # <<>> /\ log[Len(log)].kind = event[a]
    /\ pc[a] \in {"replace append", "replace start", "replace cancel", "replace listed"} =>
          tmp = mem[a]

\* Only a death leaves a job without a task that is not over.
TaskFine ==
    /\ task <=> pc[Consumer] # "done"
    /\ pc[Consumer] = "done" /\ rec.status \in Running => crashes > 0

LogFine ==
    rec.status \in Terminal \ {"interrupted"} =>
        log # <<>> /\ StatusAfter(log[Len(log)].kind) = rec.status

AloneInv ==
    ~shared => /\ ConsumerFine /\ TaskFine /\ LogFine
               /\ \A c \in LoopClient : ClientFine(c)
               /\ \A a \in OnLoop : CopyFine(a)

AloneParts ==
    /\ ConsumerFine /\ TaskFine /\ LogFine
    /\ \A c \in LoopClient : ClientFine(c)
    /\ \A a \in OnLoop : CopyFine(a)

LEMMA AloneInit == Init => AloneParts
  <1> SUFFICES ASSUME Init PROVE AloneParts
    OBVIOUS
  <1>1. \A a \in Actor : pc[a] = IF a = Consumer THEN "start" ELSE "idle"
    BY DEF Init
  <1>2. pc[Consumer] = "start" /\ \A c \in LoopClient : pc[c] = "idle"
    BY <1>1, Actors
  <1>3. rec.status = "queued" /\ said = "nothing" /\ loop = Free /\ task = TRUE
    BY DEF Init, NewRecord
  <1>4. ConsumerFine
    <2>1. event[Consumer] = "step"
      BY Actors DEF Init
    <2> QED BY <1>2, <1>3, <2>1 DEF ConsumerFine, Appending
  <1>5. TaskFine /\ LogFine
    BY <1>2, <1>3 DEF TaskFine, LogFine, Terminal
  <1>6. \A c \in LoopClient : ClientFine(c)
    BY <1>2 DEF ClientFine, Appending
  <1>7. \A a \in OnLoop : CopyFine(a)
    BY <1>2 DEF CopyFine, OnLoop
  <1> QED BY <1>4, <1>5, <1>6, <1>7 DEF AloneParts

\* Whoever is between two awaits is alone there.
LEMMA Alone ==
    ASSUME Placed, ~shared, NEW a \in Actor, pc[a] \notin Rest
    PROVE  /\ a \in OnLoop /\ loop = a /\ loop # Free
           /\ \A b \in OnLoop \ {a} : pc[b] \in Rest
           /\ a # Consumer => a \in LoopClient
  <1>1. a \in OnLoop
    BY Actors DEF Placed, shared, Rest, OnLoop
  <1>2. loop = a
    BY <1>1 DEF Placed
  <1> QED BY <1>1, <1>2, Actors DEF Placed, OnLoop

\* A step of one actor leaves the others as they are ...
LEMMA OthersFine ==
    ASSUME Placed, NEW a \in OnLoop, NEW l, At(a, l), \A b \in OnLoop \ {a} : pc[b] \in Rest,
           CopyFine(a)', a \in LoopClient => ClientFine(a)'
    PROVE  (\A c \in LoopClient : ClientFine(c))' /\ (\A b \in OnLoop : CopyFine(b))'
  <1>1. \A b \in Actor \ {a} : pc'[b] = pc[b]
    BY DEF At, Placed
  <1>2. \A b \in OnLoop \ {a} : pc'[b] \in Rest
    BY <1>1, Actors
  <1>3. \A c \in LoopClient \ {a} : pc'[c] = "idle"
    BY <1>1, <1>2, Actors DEF Placed, OfClient, Appending, Rest, OnLoop
  <1>4. \A b \in OnLoop \ {a} : CopyFine(b)'
    BY <1>2 DEF CopyFine, Rest
  <1>5. \A c \in LoopClient \ {a} : ClientFine(c)'
    BY <1>3 DEF ClientFine, Appending
  <1> QED BY <1>4, <1>5

\* ... and a request leaves the consumer as it is.
LEMMA ConsumerKept ==
    ASSUME Placed, ConsumerFine, TaskFine, NEW c \in LoopClient, NEW l, At(c, l),
           pc[Consumer] \in Rest \ {"start"}, UNCHANGED <<said, task, crashes>>,
           \/ rec'.status = rec.status
           \/ pc[Consumer] = "done" /\ rec'.status \notin Running
    PROVE  ConsumerFine' /\ TaskFine'
  <1>1. pc'[Consumer] = pc[Consumer]
    BY Actors DEF At, Placed
  <1>2. ConsumerFine'
    BY <1>1 DEF ConsumerFine, Rest, Appending
  <1>3. TaskFine'
    BY <1>1 DEF TaskFine
  <1> QED BY <1>2, <1>3

\* When a request is at it, the consumer is not.
LEMMA RequestAlone ==
    ASSUME Placed, ~shared, ConsumerFine, NEW c \in Client, pc[c] \notin Rest
    PROVE  c \in LoopClient /\ pc[Consumer] \in Rest \ {"start"}
  BY Alone, Actors DEF ConsumerFine

LEMMA EventTyped == FilesTyped => \A a \in Actor : event[a] \in Kind /\ mem[a] \in Record
  BY DEF FilesTyped

LEMMA AppendReadAlone ==
    ASSUME JobTyped, ~shared, AloneParts, NEW a \in Actor, AppendRead(a)
    PROVE  AloneParts'
  <1> USE DEF JobTyped
  <1>1. /\ pc[a] = "append" /\ rec # NoFile /\ At(a, "log")
        /\ UNCHANGED <<rec, tmp, log, task, loop, event, said, crashes>>
        /\ mem' = [mem EXCEPT ![a] = rec]
    BY DEF AppendRead
  <1>2. a \in OnLoop /\ \A b \in OnLoop \ {a} : pc[b] \in Rest
    BY <1>1, Alone DEF Rest
  <1>3. pc'[a] = "log" /\ mem'[a] = rec
    BY <1>1 DEF At, Placed, FilesTyped
  <1>4. CopyFine(a)'
    BY <1>1, <1>3 DEF CopyFine
  <1>5. a \in LoopClient => ClientFine(a)'
    <2> SUFFICES ASSUME a \in LoopClient PROVE ClientFine(a)'
      OBVIOUS
    <2>1. ClientFine(a) /\ pc'[Consumer] = pc[Consumer]
      BY <1>1, Actors DEF AloneParts, At, Placed
    <2> QED BY <1>1, <1>3, <2>1 DEF ClientFine, Appending
  <1>6. ConsumerFine' /\ TaskFine'
    <2>1. CASE a = Consumer
      <3>1. ConsumerFine'
        BY <1>1, <1>3, <2>1 DEF ConsumerFine, Appending, Meant, AloneParts
      <3> QED BY <1>1, <1>3, <2>1, <3>1 DEF TaskFine, AloneParts
    <2>2. CASE a # Consumer
      BY <1>1, <2>2, Actors, RequestAlone, ConsumerKept DEF AloneParts, Rest
    <2> QED BY <2>1, <2>2
  <1>7. LogFine'
    BY <1>1 DEF LogFine, AloneParts
  <1> QED BY <1>1, <1>2, <1>4, <1>5, <1>6, <1>7, OthersFine DEF AloneParts

LEMMA AppendLogAlone ==
    ASSUME JobTyped, ~shared, AloneParts, NEW a \in Actor, AppendLog(a)
    PROVE  AloneParts'
  <1> USE DEF JobTyped
  <1> DEFINE ev == [seq |-> NextNumber(mem[a]), kind |-> event[a]]
  <1>1. /\ pc[a] = "log" /\ At(a, "write append")
        /\ UNCHANGED <<rec, tmp, task, loop, event, said, crashes>>
        /\ log' = Append(log, ev)
        /\ mem' = [mem EXCEPT ![a] = [mem[a] EXCEPT !.count = NextNumber(mem[a]),
                                                    !.status = StatusAfter(event[a])]]
    BY DEF AppendLog
  <1>2. a \in OnLoop /\ \A b \in OnLoop \ {a} : pc[b] \in Rest
    BY <1>1, Alone DEF Rest
  <1>3. pc'[a] = "write append" /\ mem[a] = rec
    BY <1>1, <1>2 DEF At, Placed, AloneParts, CopyFine
  <1>4. log' # <<>> /\ log'[Len(log')].kind = event[a]
    <2>0. ev \in Event
      BY EventTyped DEF NextNumber, Record, Event
    <2>1. log' # <<>> /\ log'[Len(log')] = ev
      <3> HIDE DEF ev
      <3>1. log \in Seq(Event)
        BY DEF FilesTyped
      <3>2. /\ Append(log, ev) \in Seq(Event) /\ Len(Append(log, ev)) = Len(log) + 1
            /\ Append(log, ev)[Len(log) + 1] = ev /\ Append(log, ev) # <<>>
        BY <2>0, <3>1, AppendProperties
      <3> QED BY <1>1, <3>2
    <2> QED BY <2>1
  <1>5. mem'[a].status = StatusAfter(event[a]) /\ mem'[a].cancel = mem[a].cancel
    <2>1. mem[a] \in Record /\ mem \in [Actor -> Record]
      BY DEF FilesTyped
    <2>2. mem'[a] = [mem[a] EXCEPT !.count = NextNumber(mem[a]), !.status = StatusAfter(event[a])]
      BY <1>1, <2>1
    <2> QED BY <2>1, <2>2 DEF Record
  <1>6. CopyFine(a)'
    BY <1>1, <1>3, <1>4, <1>5 DEF CopyFine
  <1>7. a \in LoopClient => ClientFine(a)'
    <2> SUFFICES ASSUME a \in LoopClient PROVE ClientFine(a)'
      OBVIOUS
    <2>1. ClientFine(a) /\ pc'[Consumer] = pc[Consumer]
      BY <1>1, Actors DEF AloneParts, At, Placed
    <2> QED BY <1>1, <1>3, <2>1 DEF ClientFine, Appending
  <1>8. ConsumerFine' /\ TaskFine'
    <2>1. CASE a = Consumer
      <3>1. ConsumerFine'
        BY <1>1, <1>3, <2>1 DEF ConsumerFine, Appending, Meant, AloneParts
      <3> QED BY <1>1, <1>3, <2>1, <3>1 DEF TaskFine, AloneParts
    <2>2. CASE a # Consumer
      BY <1>1, <2>2, Actors, RequestAlone, ConsumerKept DEF AloneParts, Rest
    <2> QED BY <2>1, <2>2
  <1>9. LogFine'
    <2>1. CASE a = Consumer
      <3>1. rec.status = "running" \/ (rec.status = "failed" /\ event[a] = "error")
        BY <1>1, <2>1 DEF AloneParts, ConsumerFine, Appending
      <3> QED BY <1>1, <1>4, <3>1 DEF LogFine, StatusAfter, Terminal
    <2>2. CASE a # Consumer
      <3>1. rec.status \in Running
        BY <1>1, <2>2, Actors, RequestAlone DEF AloneParts, ClientFine, Rest
      <3> QED BY <1>1, <3>1 DEF LogFine, Running, Terminal
    <2> QED BY <2>1, <2>2
  <1> QED BY <1>1, <1>2, <1>6, <1>7, <1>8, <1>9, OthersFine DEF AloneParts

LEMMA ReplacingWrites ==
    \A l \in Writes :
        /\ l = "write append" => Replacing(l) = "replace append"
        /\ l = "write start" => Replacing(l) = "replace start"
        /\ l = "write cancel" => Replacing(l) = "replace cancel"
        /\ l = "write listed" => Replacing(l) = "replace listed"
        /\ l \in {"write append", "write start", "write cancel", "write listed"}
  BY DEF Writes, Replacing

LEMMA WriteTmpAlone ==
    ASSUME JobTyped, ~shared, AloneParts, NEW a \in Actor, WriteTmp(a)
    PROVE  AloneParts'
  <1> USE DEF JobTyped
  <1> DEFINE l == Replacing(pc[a])
  <1>1. /\ At(a, l) /\ tmp' = mem[a]
        /\ UNCHANGED <<rec, log, task, loop, mem, event, said, crashes>>
    BY DEF WriteTmp
  <1>2. /\ pc[a] = "write append" => l = "replace append"
        /\ pc[a] = "write start" => l = "replace start"
        /\ pc[a] = "write cancel" => l = "replace cancel"
        /\ pc[a] = "write listed" => l = "replace listed"
        /\ pc[a] \in {"write append", "write start", "write cancel", "write listed"}
    BY ReplacingWrites DEF WriteTmp
  <1> HIDE DEF l
  <1>3. a \in OnLoop /\ (\A b \in OnLoop \ {a} : pc[b] \in Rest) /\ pc'[a] = l
    BY <1>1, <1>2, Alone DEF Rest, At, Placed
  <1>4. CopyFine(a)'
    BY <1>1, <1>2, <1>3 DEF CopyFine, AloneParts
  <1>5. a \in LoopClient => ClientFine(a)'
    <2> SUFFICES ASSUME a \in LoopClient PROVE ClientFine(a)'
      OBVIOUS
    <2>1. ClientFine(a) /\ pc'[Consumer] = pc[Consumer]
      BY <1>1, Actors DEF AloneParts, At, Placed
    <2> QED BY <1>1, <1>2, <1>3, <2>1 DEF ClientFine, Appending
  <1>6. ConsumerFine' /\ TaskFine'
    <2>1. CASE a = Consumer
      <3>1. pc[Consumer] \in {"write append", "write start"}
        BY <1>2, <2>1 DEF Placed, OfConsumer, Appending
      <3>2. ConsumerFine'
        BY <1>1, <1>2, <1>3, <2>1, <3>1 DEF ConsumerFine, Appending, Meant, AloneParts
      <3> QED BY <1>1, <1>2, <1>3, <2>1, <3>1, <3>2 DEF TaskFine, AloneParts
    <2>2. CASE a # Consumer
      BY <1>1, <1>2, <2>2, Actors, RequestAlone, ConsumerKept DEF AloneParts, Rest
    <2> QED BY <2>1, <2>2
  <1>7. LogFine'
    BY <1>1 DEF LogFine, AloneParts
  <1> QED BY <1>1, <1>3, <1>4, <1>5, <1>6, <1>7, OthersFine DEF AloneParts

\* What the consumer renames into place.
LEMMA ConsumerReplaces ==
    ASSUME JobTyped, ~shared, AloneParts, Replace(Consumer)
    PROVE  /\ pc[Consumer] \in {"replace append", "replace start"}
           /\ Return(Consumer) /\ UNCHANGED <<log, mem, event, said, crashes>>
           /\ pc[Consumer] = "replace append" =>
                 /\ rec'.status = StatusAfter(event[Consumer]) /\ rec'.cancel = rec.cancel
                 /\ log # <<>> /\ log[Len(log)].kind = event[Consumer]
                 /\ \/ rec.status = "running" /\ Meant(event[Consumer])
                    \/ rec.status = "failed" /\ event[Consumer] = "error" /\ said = "error"
           /\ pc[Consumer] = "replace start" =>
                 /\ rec.status = "queued" /\ rec'.status = "running"
                 /\ said = "nothing" /\ event[Consumer] = "step"
  <1> USE DEF JobTyped
  <1>1. pc[Consumer] \in {"replace append", "replace start"}
    <2>1. pc[Consumer] \in {"replace append", "replace start", "replace cancel", "replace listed"}
      BY DEF Replace, Writes, Replacing
    <2> QED BY <2>1 DEF Placed, OfConsumer, Appending
  <1>2. /\ rec' = mem[Consumer] /\ Return(Consumer)
        /\ UNCHANGED <<log, mem, event, said, crashes>>
    BY <1>1, Actors DEF Replace, AloneParts, CopyFine
  <1>3. pc[Consumer] = "replace append" =>
           /\ rec'.status = StatusAfter(event[Consumer]) /\ rec'.cancel = rec.cancel
           /\ log # <<>> /\ log[Len(log)].kind = event[Consumer]
           /\ \/ rec.status = "running" /\ Meant(event[Consumer])
              \/ rec.status = "failed" /\ event[Consumer] = "error" /\ said = "error"
    BY <1>2, Actors DEF AloneParts, CopyFine, ConsumerFine, Appending
  <1>4. pc[Consumer] = "replace start" =>
           /\ rec.status = "queued" /\ rec'.status = "running"
           /\ said = "nothing" /\ event[Consumer] = "step"
    BY <1>2 DEF AloneParts, ConsumerFine
  <1> QED BY <1>1, <1>2, <1>3, <1>4

LEMMA ReplaceByConsumer ==
    ASSUME JobTyped, ~shared, AloneParts, Replace(Consumer)
    PROVE  AloneParts'
  <1> USE DEF JobTyped
  <1> DEFINE e == event[Consumer]
  <1>1. pc[Consumer] \in {"replace append", "replace start"}
    BY ConsumerReplaces
  <1>2. Return(Consumer) /\ UNCHANGED <<log, mem, event, said, crashes>>
    BY ConsumerReplaces
  <1>3. \A b \in OnLoop \ {Consumer} : pc[b] \in Rest
    BY <1>1, Alone, Actors DEF Rest
  <1>4. pc[Consumer] = "replace append" =>
           /\ rec'.status = StatusAfter(e) /\ rec'.cancel = rec.cancel
           /\ log # <<>> /\ log[Len(log)].kind = e
           /\ \/ rec.status = "running" /\ Meant(e)
              \/ rec.status = "failed" /\ e = "error" /\ said = "error"
    BY ConsumerReplaces
  <1>5. pc[Consumer] = "replace start" =>
           rec'.status = "running" /\ said = "nothing" /\ e = "step"
    BY ConsumerReplaces
  <1>6. task = TRUE
    <2>1. pc[Consumer] # "done"
      BY <1>1
    <2>2. task
      BY <2>1 DEF AloneParts, TaskFine
    <2> QED BY <2>2, Zenon DEF FlagsTyped
  <1>7. ASSUME NEW l, At(Consumer, l), l \in {"await", "look", "done"},
               ConsumerFine', TaskFine', LogFine'
        PROVE  AloneParts'
    <2>1. pc'[Consumer] = l
      BY <1>7, Actors DEF At, Placed
    <2>2. CopyFine(Consumer)'
      BY <1>7, <2>1 DEF CopyFine
    <2> QED BY <1>3, <1>7, <2>2, OthersFine, Actors DEF AloneParts
  <1>8. ASSUME e = "step"
        PROVE  AloneParts'
    <2>1. At(Consumer, "await") /\ task' = TRUE
      BY <1>2, <1>8 DEF Return, Last
    <2>2. pc'[Consumer] = "await"
      BY <2>1, Actors DEF At, Placed
    <2>3. rec'.status = "running" /\ said = "nothing"
      BY <1>1, <1>4, <1>5, <1>8 DEF StatusAfter, Meant
    <2>4. ConsumerFine'
      BY <1>2, <2>2, <2>3 DEF ConsumerFine, Appending
    <2>5. TaskFine' /\ LogFine'
      BY <2>1, <2>2, <2>3 DEF TaskFine, LogFine, Terminal
    <2> QED BY <1>7, <2>1, <2>4, <2>5
  <1>9. ASSUME e = "failed step"
        PROVE  AloneParts'
    <2>1. At(Consumer, "look") /\ task' = TRUE
      BY <1>2, <1>9 DEF Return, Last
    <2>2. pc'[Consumer] = "look"
      BY <2>1, Actors DEF At, Placed
    <2>3. rec'.status = "failed" /\ said = "error" /\ ~rec'.cancel
      BY <1>1, <1>4, <1>5, <1>9 DEF StatusAfter, Meant
    <2>4. log # <<>> /\ log[Len(log)].kind = "failed step"
      BY <1>1, <1>4, <1>5, <1>9
    <2>5. ConsumerFine'
      BY <1>2, <2>2, <2>3 DEF ConsumerFine, Appending
    <2>6. TaskFine' /\ LogFine'
      BY <1>2, <2>1, <2>2, <2>3, <2>4 DEF TaskFine, LogFine, StatusAfter
    <2> QED BY <1>7, <2>1, <2>5, <2>6
  <1>10. ASSUME e \in Last
         PROVE  AloneParts'
    <2>1. At(Consumer, "done") /\ task' = FALSE
      BY <1>2, <1>10 DEF Return, Last
    <2>2. pc'[Consumer] = "done"
      BY <2>1, Actors DEF At, Placed
    <2>3. rec'.status = StatusAfter(e) /\ log # <<>> /\ log[Len(log)].kind = e
      BY <1>1, <1>4, <1>5, <1>10 DEF Last
    <2>4. rec'.status \notin Running
      BY <1>10, <2>3 DEF StatusAfter, Last, Running
    <2>5. ConsumerFine'
      BY <2>2 DEF ConsumerFine, Appending
    <2>6. TaskFine' /\ LogFine'
      BY <1>2, <2>1, <2>2, <2>3, <2>4 DEF TaskFine, LogFine
    <2> QED BY <1>7, <2>1, <2>5, <2>6
  <1> QED BY <1>8, <1>9, <1>10, EventOver, Actors

\* What a client renames into place.
LEMMA ClientReplaces ==
    ASSUME JobTyped, ~shared, AloneParts, NEW c \in Client, Replace(c)
    PROVE  /\ pc[c] \in {"replace append", "replace cancel", "replace listed"}
           /\ c \in LoopClient /\ c \in OnLoop /\ pc[Consumer] \in Rest \ {"start"}
           /\ \A b \in OnLoop \ {c} : pc[b] \in Rest
           /\ UNCHANGED <<log, mem, event, said, crashes>> /\ rec.status \in Running
           /\ pc[c] = "replace append" =>
                 /\ rec'.status = "canceled" /\ pc[Consumer] = "done"
                 /\ log # <<>> /\ log[Len(log)].kind = "canceled"
           /\ pc[c] = "replace listed" => rec'.status = "interrupted" /\ pc[Consumer] = "done"
           /\ pc[c] = "replace cancel" => rec'.status = rec.status
  <1> USE DEF JobTyped
  <1>1. pc[c] \in {"replace append", "replace cancel", "replace listed"}
    <2>1. pc[c] \in {"replace append", "replace start", "replace cancel", "replace listed"}
      BY DEF Replace, Writes, Replacing
    <2> QED BY <2>1 DEF Placed, OfClient, Appending
  <1>2. /\ c \in LoopClient /\ c \in OnLoop /\ pc[Consumer] \in Rest \ {"start"}
        /\ \A b \in OnLoop \ {c} : pc[b] \in Rest
    BY <1>1, Actors, Alone, RequestAlone DEF AloneParts, Rest
  <1>3. rec' = mem[c] /\ UNCHANGED <<log, mem, event, said, crashes>>
    BY <1>1, <1>2 DEF Replace, AloneParts, CopyFine
  <1>4. ClientFine(c) /\ CopyFine(c)
    BY <1>2 DEF AloneParts
  <1>5. pc[c] = "replace append" =>
           /\ rec'.status = "canceled" /\ pc[Consumer] = "done"
           /\ log # <<>> /\ log[Len(log)].kind = "canceled"
    BY <1>3, <1>4 DEF ClientFine, CopyFine, Appending, StatusAfter
  <1>6. /\ pc[c] = "replace listed" => rec'.status = "interrupted" /\ pc[Consumer] = "done"
        /\ pc[c] = "replace cancel" => rec'.status = rec.status
        /\ rec.status \in Running
    BY <1>1, <1>3, <1>4 DEF ClientFine
  <1> QED BY <1>1, <1>2, <1>3, <1>5, <1>6

LEMMA ReplaceByClient ==
    ASSUME JobTyped, ~shared, AloneParts, NEW c \in Client, Replace(c)
    PROVE  AloneParts'
  <1> USE DEF JobTyped
  <1>1. pc[c] \in {"replace append", "replace cancel", "replace listed"}
    BY ClientReplaces
  <1>2. /\ c \in LoopClient /\ c \in OnLoop /\ c # Consumer /\ pc[Consumer] \in Rest \ {"start"}
        /\ \A b \in OnLoop \ {c} : pc[b] \in Rest
    BY ClientReplaces, Actors
  <1>3. UNCHANGED <<log, mem, event, said, crashes>>
    BY ClientReplaces
  <1>4. task' = task
    BY <1>2 DEF Replace, Return
  <1>5. \/ pc[c] = "replace cancel" /\ At(c, "signal")
        \/ pc[c] # "replace cancel" /\ At(c, "idle")
    BY <1>2 DEF Replace, Return
  <1>6. \/ pc'[c] = "signal" /\ pc[c] = "replace cancel"
        \/ pc'[c] = "idle"
    BY <1>5, Actors DEF At, Placed
  <1>7. CopyFine(c)'
    BY <1>6 DEF CopyFine
  <1>8. pc[c] = "replace append" =>
           rec'.status = "canceled" /\ pc[Consumer] = "done" /\ log # <<>> /\ log[Len(log)].kind = "canceled"
    BY ClientReplaces
  <1>9. pc[c] = "replace listed" => rec'.status = "interrupted" /\ pc[Consumer] = "done"
    BY ClientReplaces
  <1>10. pc[c] = "replace cancel" => rec'.status = rec.status /\ rec.status \in Running
    BY ClientReplaces
  <1>11. ClientFine(c)'
    BY <1>6, <1>10 DEF ClientFine, Appending
  <1>12. ConsumerFine' /\ TaskFine'
    <2>1. rec'.status = rec.status \/ (pc[Consumer] = "done" /\ rec'.status \notin Running)
      BY <1>1, <1>8, <1>9, <1>10 DEF Running
    <2>2. PICK l : At(c, l)
      BY <1>5
    <2> QED BY <1>2, <1>3, <1>4, <2>1, <2>2, ConsumerKept DEF AloneParts
  <1>13. LogFine'
    BY <1>1, <1>3, <1>8, <1>9, <1>10 DEF LogFine, StatusAfter, Running, Terminal
  <1> QED BY <1>2, <1>5, <1>7, <1>11, <1>12, <1>13, OthersFine DEF AloneParts

\* Nobody finds a file gone.
LEMMA NothingFails ==
    ASSUME JobTyped, ~shared, AloneParts
    PROVE  /\ \A a \in Actor : ~RecordGone(a) /\ ~ReplaceFails(a)
           /\ ~SourceUnread
  <1> USE DEF JobTyped
  <1>0. NoFile.status \notin Running \cup {"failed"}
    BY DEF NoFile, Running
  <1>1. rec.status \in Running \cup {"failed"} => rec # NoFile
    BY <1>0
  <1>2. ASSUME NEW a \in Actor, RecordGone(a)
        PROVE  FALSE
    <2>1. pc[a] = "append" /\ rec = NoFile
      BY <1>2 DEF RecordGone
    <2>2. CASE a = Consumer
      BY <1>1, <2>1, <2>2 DEF AloneParts, ConsumerFine, Appending, Running
    <2>3. CASE a # Consumer
      BY <1>1, <2>1, <2>3, Actors, RequestAlone DEF AloneParts, ClientFine, Rest
    <2> QED BY <2>2, <2>3
  <1>3. ASSUME NEW a \in Actor, ReplaceFails(a)
        PROVE  FALSE
    <2>1. /\ tmp = NoFile
          /\ pc[a] \in {"replace append", "replace start", "replace cancel", "replace listed"}
      BY <1>3 DEF ReplaceFails, Writes, Replacing
    <2>2. a \in OnLoop
      BY <2>1, Alone DEF Rest
    <2>3. tmp = mem[a] /\ mem[a] \in Record
      BY <2>1, <2>2, EventTyped DEF AloneParts, CopyFine
    <2> QED BY <2>1, <2>3, RecordsTyped
  <1>4. ~SourceUnread
    BY <1>1 DEF SourceUnread, AloneParts, ConsumerFine, Running
  <1> QED BY <1>2, <1>3, <1>4

\* The consumer starts, hears from its source or is told to stop.
LEMMA ConsumerAlone ==
    ASSUME JobTyped, ~shared, AloneParts, Start \/ SaysError \/ SourceStep \/ CancelArrives
    PROVE  AloneParts'
  <1> USE DEF JobTyped
  <1> USE Actors
  <1>1. ASSUME NEW l, At(Consumer, l), l \in {"append", "write start"}, UNCHANGED <<rec, log, task, crashes>>,
               pc[Consumer] \in {"start", "look", "await"}, loop = Free \/ pc[Consumer] = "look",
               ConsumerFine'
        PROVE  AloneParts'
    <2>1. pc'[Consumer] = l
      BY <1>1 DEF At, Placed
    <2>2. CopyFine(Consumer)'
      BY <1>1, <2>1 DEF CopyFine
    <2>3. TaskFine' /\ LogFine'
      BY <1>1, <2>1 DEF TaskFine, LogFine, AloneParts
    <2>4. \A b \in OnLoop \ {Consumer} : pc[b] \in Rest
      BY <1>1 DEF Placed, Rest
    <2> QED BY <1>1, <2>2, <2>3, <2>4, OthersFine DEF AloneParts
  <1>2. CASE Start
    <2>1. /\ pc[Consumer] = "start" /\ loop = Free /\ At(Consumer, "write start")
          /\ mem' = [mem EXCEPT ![Consumer] = [rec EXCEPT !.status = "running"]]
          /\ UNCHANGED <<rec, log, task, event, said, crashes>>
      BY <1>2 DEF Start
    <2>2. pc'[Consumer] = "write start"
      BY <2>1 DEF At, Placed
    <2>3. mem'[Consumer] = [rec EXCEPT !.status = "running"]
      BY <2>1 DEF FilesTyped
    <2>4. rec \in Record
      <3>1. NoFile.status # "queued"
        BY DEF NoFile
      <3>2. rec.status = "queued"
        BY <2>1 DEF AloneParts, ConsumerFine
      <3> QED BY <3>1, <3>2 DEF FilesTyped
    <2>5. mem'[Consumer].status = "running"
      BY <2>3, <2>4 DEF Record
    <2>6. ConsumerFine'
      BY <2>1, <2>2, <2>5 DEF AloneParts, ConsumerFine, Appending
    <2> QED BY <1>1, <2>1, <2>6
  <1>3. CASE SaysError
    <2>1. /\ pc[Consumer] = "look" /\ At(Consumer, "append")
          /\ event' = [event EXCEPT ![Consumer] = Heeded("error")]
          /\ UNCHANGED <<rec, log, task, said, crashes>>
      BY <1>3 DEF SaysError
    <2>2. rec.status = "failed" /\ said = "error" /\ ~rec.cancel
      BY <2>1 DEF AloneParts, ConsumerFine
    <2>3. event'[Consumer] = "error" /\ pc'[Consumer] = "append"
      BY <2>1, <2>2 DEF Heeded, FilesTyped, At, Placed
    <2>4. ConsumerFine'
      BY <2>1, <2>2, <2>3 DEF ConsumerFine, Appending
    <2> QED BY <1>1, <2>1, <2>4
  <1>4. CASE SourceStep
    <2>1. PICK e \in Kind, looked \in BOOLEAN :
             (looked \/ e # "canceled") /\ SourceYields(e, looked)
      BY <1>4 DEF SourceStep
    <2>2. /\ pc[Consumer] = "await" /\ loop = Free /\ At(Consumer, "append")
          /\ event' = [event EXCEPT ![Consumer] = IF looked THEN Heeded(e) ELSE e]
          /\ said' = CASE e \in Last -> e [] e = "failed step" -> "error" [] e = "step" -> said
          /\ e \notin Last => looked
          /\ UNCHANGED <<rec, log, task, crashes>>
      BY <2>1 DEF SourceYields, Wakes
    <2>3. rec.status = "running" /\ said = "nothing"
      BY <2>2 DEF AloneParts, ConsumerFine
    <2>4. /\ event'[Consumer] = IF looked THEN Heeded(e) ELSE e
          /\ pc'[Consumer] = "append"
      BY <2>2 DEF FilesTyped, At, Placed
    <2>5. \/ event'[Consumer] = "canceled"
          \/ event'[Consumer] = e /\ (e = "failed step" => ~rec.cancel)
      BY <2>2, <2>4 DEF Heeded, Last
    <2>6. /\ e = "step" => said' = "nothing"
          /\ e = "complete" => said' = "complete"
          /\ e \in {"error", "failed step"} => said' = "error"
      BY <2>2, <2>3 DEF Last
    <2>7. Meant(event[Consumer])'
      BY <2>2, <2>5, <2>6 DEF Meant
    <2>8. ConsumerFine'
      BY <2>2, <2>3, <2>4, <2>7 DEF ConsumerFine, Appending
    <2> QED BY <1>1, <2>2, <2>8
  <1>5. CASE CancelArrives
    <2>1. /\ pc[Consumer] = "await" /\ loop = Free /\ At(Consumer, "append")
          /\ event' = [event EXCEPT ![Consumer] = "canceled"]
          /\ UNCHANGED <<rec, log, task, said, crashes>>
      BY <1>5 DEF CancelArrives, Wakes
    <2>2. event'[Consumer] = "canceled" /\ pc'[Consumer] = "append"
      BY <2>1 DEF FilesTyped, At, Placed
    <2>3. ConsumerFine'
      BY <2>1, <2>2 DEF AloneParts, ConsumerFine, Appending, Meant
    <2> QED BY <1>1, <2>1, <2>3
  <1> QED BY <1>2, <1>3, <1>4, <1>5

\* A request, by what it finds and does.
LEMMA RequestFine ==
    ASSUME JobTyped, ~shared, AloneParts, NEW c \in LoopClient, NEW l, At(c, l),
           pc[Consumer] \in Rest \ {"start"}, \A b \in OnLoop \ {c} : pc[b] \in Rest,
           UNCHANGED <<said, task, crashes>>, CopyFine(c)', ClientFine(c)',
           \/ UNCHANGED <<rec, log>>
           \/ pc[Consumer] = "done" /\ rec'.status \notin Running \cup Terminal
    PROVE  AloneParts'
  <1>1. ConsumerFine' /\ TaskFine'
    BY ConsumerKept DEF AloneParts, JobTyped
  <1>2. LogFine'
    BY DEF AloneParts, LogFine
  <1>3. c \in OnLoop /\ Placed
    BY DEF OnLoop, JobTyped
  <1> QED BY <1>1, <1>2, <1>3, OthersFine DEF AloneParts

LEMMA JudgeAlone ==
    ASSUME JobTyped, ~shared, AloneParts, NEW c \in Client, Judge(c)
    PROVE  AloneParts'
  <1> USE DEF JobTyped
  <1>1. /\ pc[c] = "judge" /\ UNCHANGED <<rec, log, said, task, crashes>>
        /\ \/ At(c, "idle")
           \/ /\ ~HasTask(c) /\ At(c, "write listed")
              /\ mem' = [mem EXCEPT ![c].status = "interrupted"]
    BY DEF Judge
  <1>2. /\ c \in LoopClient /\ pc[Consumer] \in Rest \ {"start"}
        /\ \A b \in OnLoop \ {c} : pc[b] \in Rest
    BY <1>1, Actors, Alone, RequestAlone DEF AloneParts, Rest
  <1>3. /\ pc'[Consumer] = pc[Consumer]
        /\ pc'[c] = "idle" \/ (pc'[c] = "write listed" /\ ~HasTask(c))
    BY <1>1, <1>2, Actors DEF At, Placed
  <1>4. pc'[c] = "write listed" => pc[Consumer] = "done"
    BY <1>2, <1>3 DEF HasTask, InOwner, OnLoop, AloneParts, TaskFine
  <1>5. pc'[c] = "write listed" => mem'[c].status = "interrupted"
    <2>1. mem[c] \in Record /\ mem \in [Actor -> Record]
      BY Actors DEF FilesTyped
    <2>2. pc'[c] = "write listed" => mem'[c] = [mem[c] EXCEPT !.status = "interrupted"]
      BY <1>1, <2>1, Actors DEF At, Placed
    <2> QED BY <2>1, <2>2 DEF Record
  <1>6. rec.status \in Running
    BY <1>1, <1>2 DEF AloneParts, ClientFine
  <1>7. CopyFine(c)'
    BY <1>3 DEF CopyFine
  <1>8. ClientFine(c)'
    BY <1>1, <1>3, <1>4, <1>5, <1>6 DEF ClientFine, Appending
  <1>9. PICK l : At(c, l)
    BY <1>1
  <1> QED BY <1>1, <1>2, <1>7, <1>8, <1>9, RequestFine

LEMMA SignalAlone ==
    ASSUME JobTyped, ~shared, AloneParts, NEW c \in Client, Signal(c)
    PROVE  AloneParts'
  <1> USE DEF JobTyped
  <1>1. /\ pc[c] = "signal" /\ UNCHANGED <<rec, log, said, task, crashes>>
        /\ \/ At(c, "idle")
           \/ ~HasTask(c) /\ At(c, "append") /\ event' = [event EXCEPT ![c] = "canceled"]
    BY DEF Signal
  <1>2. /\ c \in LoopClient /\ pc[Consumer] \in Rest \ {"start"}
        /\ \A b \in OnLoop \ {c} : pc[b] \in Rest
    BY <1>1, Actors, Alone, RequestAlone DEF AloneParts, Rest
  <1>3. /\ pc'[Consumer] = pc[Consumer]
        /\ \/ pc'[c] = "idle"
           \/ pc'[c] = "append" /\ ~HasTask(c) /\ event'[c] = "canceled"
    BY <1>1, <1>2, Actors DEF At, Placed, FilesTyped
  <1>4. pc'[c] = "append" => pc[Consumer] = "done"
    BY <1>2, <1>3 DEF HasTask, InOwner, OnLoop, AloneParts, TaskFine
  <1>5. rec.status \in Running
    BY <1>1, <1>2 DEF AloneParts, ClientFine
  <1>6. CopyFine(c)'
    BY <1>3 DEF CopyFine
  <1>7. ClientFine(c)'
    BY <1>1, <1>3, <1>4, <1>5 DEF ClientFine, Appending
  <1>8. PICK l : At(c, l)
    BY <1>1
  <1> QED BY <1>1, <1>2, <1>6, <1>7, <1>8, RequestFine

LEMMA PruneAlone ==
    ASSUME JobTyped, ~shared, AloneParts, NEW c \in Client, PruneRecord(c) \/ PruneLog(c)
    PROVE  AloneParts'
  <1> USE DEF JobTyped
  <1>1. UNCHANGED <<said, task, crashes>> /\ pc[c] \in {"prune", "prune log"}
    BY DEF PruneRecord, PruneLog
  <1>2. /\ c \in LoopClient /\ pc[Consumer] \in Rest \ {"start"}
        /\ \A b \in OnLoop \ {c} : pc[b] \in Rest
    BY <1>1, Actors, Alone, RequestAlone DEF AloneParts, Rest
  <1>3. NoFile.status \notin Running \cup Terminal
    BY DEF NoFile, Running, Terminal
  <1>4. CASE PruneRecord(c)
    <2>1. rec.status \in Terminal /\ rec' = NoFile /\ At(c, "prune log")
      BY <1>2, <1>4 DEF PruneRecord, AloneParts, ClientFine
    <2>2. pc[Consumer] = "done"
      BY <1>2, <2>1 DEF Placed, OfConsumer, Appending, Rest, AloneParts, ConsumerFine, Terminal
    <2>3. pc'[c] = "prune log"
      BY <2>1, Actors DEF At, Placed
    <2>4. CopyFine(c)' /\ ClientFine(c)'
      BY <2>1, <2>3 DEF CopyFine, ClientFine, Appending
    <2> QED BY <1>1, <1>2, <1>3, <2>1, <2>2, <2>4, RequestFine
  <1>5. CASE PruneLog(c)
    <2>1. rec = NoFile /\ rec' = rec /\ At(c, "idle")
      BY <1>2, <1>5 DEF PruneLog, AloneParts, ClientFine
    <2>2. pc[Consumer] = "done"
      BY <1>2, <1>3, <2>1 DEF Placed, OfConsumer, Appending, Rest, AloneParts, ConsumerFine, Running
    <2>3. pc'[c] = "idle"
      BY <2>1, Actors DEF At, Placed
    <2>4. CopyFine(c)' /\ ClientFine(c)'
      BY <2>3 DEF CopyFine, ClientFine, Appending
    <2> QED BY <1>1, <1>2, <1>3, <2>1, <2>2, <2>4, RequestFine
  <1> QED BY <1>4, <1>5

LEMMA RequestBegins ==
    ASSUME JobTyped, ~shared, AloneParts, NEW c \in Client,
           ListReads(c) \/ CancelReads(c) \/ PruneReads(c)
    PROVE  AloneParts'
  <1> USE DEF JobTyped
  <1>1. MayBegin(c) /\ UNCHANGED <<rec, log, said, task, crashes>>
    BY DEF ListReads, CancelReads, PruneReads
  <1>2. c \in LoopClient /\ c \in OnLoop /\ loop = Free
    BY <1>1 DEF MayBegin, MayRun, shared, OnLoop
  <1>3. (\A b \in OnLoop : pc[b] \in Rest) /\ pc[Consumer] \in Rest \ {"start"}
    BY <1>1, <1>2, Actors DEF Placed, MayBegin
  <1>4. rec \in Record
    BY <1>1 DEF MayBegin, FilesTyped
  <1>5. CASE ListReads(c)
    <2>1. At(c, "judge") /\ rec.status \in Running
      BY <1>5 DEF ListReads
    <2>2. pc'[c] = "judge"
      BY <2>1, Actors DEF At, Placed
    <2>3. CopyFine(c)' /\ ClientFine(c)'
      BY <1>1, <2>1, <2>2 DEF CopyFine, ClientFine, Appending
    <2> QED BY <1>1, <1>2, <1>3, <2>1, <2>3, RequestFine
  <1>6. CASE CancelReads(c)
    <2>1. At(c, "write cancel") /\ rec.status \notin Terminal /\ mem' = [mem EXCEPT ![c] = Flagged(rec)]
      BY <1>6 DEF CancelReads, MayCancel
    <2>2. pc'[c] = "write cancel" /\ mem'[c] = Flagged(rec)
      BY <2>1, Actors DEF At, Placed, FilesTyped
    <2>3. mem'[c].status = rec.status /\ rec.status \in Running
      BY <1>4, <2>1, <2>2 DEF Flagged, Record
    <2>4. CopyFine(c)' /\ ClientFine(c)'
      BY <1>1, <2>2, <2>3 DEF CopyFine, ClientFine, Appending
    <2> QED BY <1>1, <1>2, <1>3, <2>1, <2>4, RequestFine
  <1>7. CASE PruneReads(c)
    <2>1. At(c, "prune") /\ rec.status \in Terminal
      BY <1>7 DEF PruneReads, MayPrune
    <2>2. pc'[c] = "prune"
      BY <2>1, Actors DEF At, Placed
    <2>3. CopyFine(c)' /\ ClientFine(c)'
      BY <1>1, <2>1, <2>2 DEF CopyFine, ClientFine, Appending
    <2> QED BY <1>1, <1>2, <1>3, <2>1, <2>3, RequestFine
  <1> QED BY <1>5, <1>6, <1>7

LEMMA CrashAlone ==
    ASSUME JobTyped, ~shared, AloneParts, Crash
    PROVE  AloneParts'
  <1> USE DEF JobTyped
  <1>1. Placed' /\ task' = FALSE /\ loop' = Free /\ crashes' = crashes + 1 /\ UNCHANGED <<rec, log>>
    BY CrashPlaced DEF Crash
  <1>2. pc'[Consumer] = "done"
    <2>1. pc' = [a \in Actor |-> CASE a = Consumer              -> "done"
                                   [] a \in InOwner \cap Client -> "idle"
                                   [] a \in OtherClient         -> pc[a]]
      BY DEF Crash
    <2> QED BY <2>1, Actors DEF Client
  <1>3. \A c \in LoopClient : pc'[c] = "idle"
    BY <1>1, Actors DEF Placed, Rest, OfClient, Appending, OnLoop
  <1>4. ConsumerFine'
    BY <1>2 DEF ConsumerFine, Appending
  <1>5. TaskFine'
    BY <1>1, <1>2 DEF TaskFine, CountsTyped
  <1>6. LogFine'
    BY <1>1 DEF LogFine, AloneParts
  <1>7. \A c \in LoopClient : ClientFine(c)'
    BY <1>3 DEF ClientFine, Appending
  <1>8. \A a \in OnLoop : CopyFine(a)'
    BY <1>2, <1>3 DEF CopyFine, OnLoop
  <1> QED BY <1>4, <1>5, <1>6, <1>7, <1>8 DEF AloneParts

LEMMA AloneStep ==
    ASSUME JobTyped, ~shared, AloneParts, [Next]_vars
    PROVE  AloneParts'
  <1>1. ASSUME NEW a \in Actor, FileStep(a)
        PROVE  AloneParts'
    <2>1. ~RecordGone(a) /\ ~ReplaceFails(a)
      BY NothingFails
    <2>2. Replace(a) => AloneParts'
      BY ReplaceByConsumer, ReplaceByClient, Actors
    <2> QED BY <1>1, <2>1, <2>2, AppendReadAlone, AppendLogAlone, WriteTmpAlone DEF FileStep
  <1>2. CASE ServerStops \/ UNCHANGED vars
    <2>1. UNCHANGED <<rec, tmp, log, task, loop, pc, mem, event, said, crashes>>
      BY <1>2 DEF ServerStops, vars
    <2> QED BY <2>1 DEF AloneParts, ConsumerFine, TaskFine, LogFine, ClientFine, CopyFine, Meant
  <1>3. ASSUME NEW c \in Client,
               \/ Judge(c) \/ Signal(c) \/ PruneRecord(c) \/ PruneLog(c)
               \/ ListReads(c) \/ CancelReads(c) \/ PruneReads(c)
        PROVE  AloneParts'
    BY <1>3, JudgeAlone, SignalAlone, PruneAlone, RequestBegins
  <1> QED BY <1>1, <1>2, <1>3, NextSplits, NothingFails, ConsumerAlone, CrashAlone

LEMMA CompanyKept == [Next]_vars => clients' = clients
  <1> SUFFICES ASSUME [Next]_vars PROVE clients' = clients
    OBVIOUS
  <1>1. ASSUME NEW a \in Actor, FileStep(a)
        PROVE  clients' = clients
    BY <1>1 DEF FileStep, AppendRead, AppendLog, WriteTmp, Replace, RecordGone, ReplaceFails, StepFails
  <1>2. ASSUME Start \/ SaysError \/ SourceStep \/ SourceUnread \/ CancelArrives \/ ServerStops \/ Crash
        PROVE  clients' = clients
    BY <1>2 DEF Start, SaysError, SourceStep, SourceYields, SourceUnread, StepFails,
                CancelArrives, ServerStops, Crash
  <1>3. ASSUME NEW c \in Client,
               \/ Judge(c) \/ Signal(c) \/ PruneRecord(c) \/ PruneLog(c)
               \/ ListReads(c) \/ CancelReads(c) \/ PruneReads(c)
        PROVE  clients' = clients
    BY <1>3 DEF Judge, Signal, PruneRecord, PruneLog, ListReads, CancelReads, PruneReads
  <1> QED BY <1>1, <1>2, <1>3, NextSplits DEF vars

\* The types, and, while only the owner's event loop uses the files, what the consumer, its
\* task, the log and each client's copy have to do with the record.
THEOREM AloneAlways == Spec => [](JobTyped /\ AloneInv)
  <1>1. Init => JobTyped /\ AloneInv
    BY TypedInit, AloneInit DEF AloneInv, AloneParts
  <1>2. JobTyped /\ AloneInv /\ [Next]_vars => JobTyped' /\ AloneInv'
    <2> SUFFICES ASSUME JobTyped, AloneInv, [Next]_vars PROVE JobTyped' /\ AloneInv'
      OBVIOUS
    <2>1. JobTyped'
      BY TypedStep
    <2>2. shared' <=> shared
      BY CompanyKept DEF shared
    <2>3. ~shared => AloneParts'
      BY AloneStep DEF AloneInv, AloneParts
    <2> QED BY <2>1, <2>2, <2>3 DEF AloneInv, AloneParts
  <1> QED BY <1>1, <1>2, PTL DEF Spec

\* Of a job whose files only the owner's event loop uses, and whose record is over, the
\* log is not empty and ends with the event that finished it, whatever crashed, was
\* cancelled or deleted before.
THEOREM EndsAreLogged == Spec => []EndIsLogged
  <1>1. AloneInv => EndIsLogged
    BY DEF AloneInv, LogFine, EndIsLogged
  <1> QED BY <1>1, AloneAlways, PTL

-----------------------------------------------------------------------------
(* The record is a job's life                                              *)

LEMMA LifeInit == Init => Life!Init
  <1> SUFFICES ASSUME Init PROVE Life!Init
    OBVIOUS
  <1>1. rec.status = "queued" /\ said = "nothing" /\ crashes = 0
    BY DEF Init, NewRecord
  <1>2. shared \in BOOLEAN
    BY Zenon DEF shared
  <1> QED BY <1>1, <1>2, Zenon DEF Life!Init

\* The life goes on as a record is renamed into place ...
LEMMA ReplaceLives ==
    ASSUME JobTyped, ~shared, AloneParts, NEW a \in Actor, Replace(a)
    PROVE  /\ UNCHANGED <<said, crashes>>
           /\ \/ rec'.status = rec.status
              \/ rec.status \in {"queued", "running"} /\ rec'.status = "running"
              \/ /\ rec.status \in {"queued", "running"}
                 /\ \/ said = "complete" /\ rec'.status = "complete"
                    \/ said = "error" /\ rec'.status = "failed"
                    \/ rec'.status = "canceled"
                    \/ crashes > 0 /\ rec'.status = "interrupted"
  <1>1. CASE a = Consumer
    <2>1. event[Consumer] \in {"step", "failed step", "complete", "error", "canceled"}
      BY EventOver, Actors DEF JobTyped, Last
    <2> QED BY <1>1, <2>1, ConsumerReplaces DEF StatusAfter, Meant
  <1>2. CASE a # Consumer
    <2>1. rec.status \in Running /\ (pc[Consumer] = "done" => crashes > 0)
      BY <1>2, Actors, ClientReplaces DEF AloneParts, TaskFine
    <2> QED BY <1>2, <2>1, Actors, ClientReplaces DEF Running
  <1> QED BY <1>1, <1>2

\* ... as its source says how it ends ...
LEMMA SourceLives ==
    ASSUME AloneParts, SourceStep
    PROVE  /\ UNCHANGED <<rec, crashes>>
           /\ \/ said' = said
              \/ /\ rec.status = "running" /\ said = "nothing"
                 /\ said' \in {"complete", "error", "canceled"}
  <1>1. PICK e \in Kind, looked \in BOOLEAN : SourceYields(e, looked)
    BY DEF SourceStep
  <1>2. /\ pc[Consumer] = "await" /\ UNCHANGED <<rec, crashes>>
        /\ said' = CASE e \in Last -> e [] e = "failed step" -> "error" [] e = "step" -> said
    BY <1>1 DEF SourceYields, Wakes
  <1>3. rec.status = "running" /\ said = "nothing"
    BY <1>2 DEF AloneParts, ConsumerFine
  <1>4. said' = said \/ said' \in {"complete", "error", "canceled"}
    BY <1>2 DEF Kind, Last
  <1> QED BY <1>2, <1>3, <1>4

\* ... and as anything else happens on the loop.
LEMMA OthersLive ==
    ASSUME JobTyped, ~shared, AloneParts, [Next]_vars
    PROVE  \/ \E a \in Actor : Replace(a)
           \/ SourceStep
           \/ UNCHANGED <<rec, said, crashes>>
           \/ rec.status \in Terminal /\ rec' = NoFile /\ UNCHANGED <<said, crashes>>
           \/ crashes' = crashes + 1 /\ UNCHANGED <<rec, said>>
  <1>1. ASSUME NEW a \in Actor, FileStep(a)
        PROVE  Replace(a) \/ UNCHANGED <<rec, said, crashes>>
    BY <1>1 DEF FileStep, AppendRead, AppendLog, WriteTmp, RecordGone, ReplaceFails, StepFails
  <1>2. ASSUME Start \/ SaysError \/ CancelArrives \/ ServerStops \/ UNCHANGED vars
        PROVE  UNCHANGED <<rec, said, crashes>>
    BY <1>2 DEF Start, SaysError, CancelArrives, ServerStops, vars
  <1>3. ASSUME NEW c \in Client,
               \/ Judge(c) \/ Signal(c) \/ PruneLog(c)
               \/ ListReads(c) \/ CancelReads(c) \/ PruneReads(c)
        PROVE  UNCHANGED <<rec, said, crashes>>
    BY <1>3 DEF Judge, Signal, PruneLog, ListReads, CancelReads, PruneReads
  <1>4. ASSUME NEW c \in Client, PruneRecord(c)
        PROVE  rec.status \in Terminal /\ rec' = NoFile /\ UNCHANGED <<said, crashes>>
    <2>1. pc[c] = "prune" /\ rec' = NoFile /\ UNCHANGED <<said, crashes>>
      BY <1>4 DEF PruneRecord
    <2>2. c \in LoopClient
      BY <2>1, Actors, Alone DEF JobTyped, Rest
    <2> QED BY <2>1, <2>2 DEF AloneParts, ClientFine
  <1>5. Crash => crashes' = crashes + 1 /\ UNCHANGED <<rec, said>>
    BY DEF Crash
  <1> QED BY <1>1, <1>2, <1>3, <1>4, <1>5, NextSplits, NothingFails

LEMMA DeathsCount == [Next]_vars => crashes' = crashes \/ Crash
  <1> SUFFICES ASSUME [Next]_vars PROVE crashes' = crashes \/ Crash
    OBVIOUS
  <1>1. ASSUME NEW a \in Actor, FileStep(a)
        PROVE  crashes' = crashes
    BY <1>1 DEF FileStep, AppendRead, AppendLog, WriteTmp, Replace, RecordGone, ReplaceFails, StepFails
  <1>2. ASSUME Start \/ SaysError \/ SourceStep \/ SourceUnread \/ CancelArrives \/ ServerStops
        PROVE  crashes' = crashes
    BY <1>2 DEF Start, SaysError, SourceStep, SourceYields, SourceUnread, StepFails,
                CancelArrives, ServerStops
  <1>3. ASSUME NEW c \in Client,
               \/ Judge(c) \/ Signal(c) \/ PruneRecord(c) \/ PruneLog(c)
               \/ ListReads(c) \/ CancelReads(c) \/ PruneReads(c)
        PROVE  crashes' = crashes
    BY <1>3 DEF Judge, Signal, PruneRecord, PruneLog, ListReads, CancelReads, PruneReads
  <1> QED BY <1>1, <1>2, <1>3, NextSplits DEF vars

LEMMA LifeStep == JobTyped /\ JobTyped' /\ AloneInv /\ [Next]_vars => [Life!Next]_(Life!vars)
  <1> SUFFICES ASSUME JobTyped, JobTyped', AloneInv, [Next]_vars
               PROVE  [Life!Next]_(Life!vars)
    OBVIOUS
  <1>1. shared' = shared
    BY CompanyKept DEF shared
  <1>2. CASE shared
    <2>1. CASE Crash
      <3>1. crashes' = crashes + 1 /\ UNCHANGED <<rec, said>>
        BY <2>1 DEF Crash
      <3> QED BY <1>1, <3>1 DEF Life!Next, Life!Dies
    <2>2. CASE crashes' = crashes
      <3>1. rec' \in Record \cup {NoFile} /\ said' \in Last \cup {"nothing"}
        BY DEF JobTyped, FilesTyped
      <3>2. rec'.status \in Running \cup Terminal \cup {"no file"}
        <4>1. \A r \in Record : r.status \in Running \cup Terminal
          BY DEF Record
        <4>2. NoFile.status = "no file"
          BY DEF NoFile
        <4> QED BY <3>1, <4>1, <4>2
      <3>3. /\ rec'.status \in Life!Going \cup Life!Ends \cup {Life!Gone}
            /\ said' \in {"nothing", "complete", "error", "canceled"}
        BY <3>1, <3>2 DEF Life!Going, Life!Ends, Life!Gone, Running, Terminal, Last
      <3> QED BY <1>1, <1>2, <2>2, <3>3 DEF Life!Next, Life!Overwrites
    <2> QED BY <2>1, <2>2, DeathsCount
  <1>3. CASE ~shared
    <2>0. AloneParts
      BY <1>3 DEF AloneInv, AloneParts
    <2>1. ASSUME NEW a \in Actor, Replace(a)
          PROVE  [Life!Next]_(Life!vars)
      <3>1. UNCHANGED <<said, crashes, shared>>
        BY <1>1, <1>3, <2>0, <2>1, ReplaceLives
      <3>2. CASE rec'.status = rec.status
        BY <3>1, <3>2 DEF Life!vars
      <3>3. CASE rec.status \in {"queued", "running"} /\ rec'.status = "running"
        BY <3>1, <3>3 DEF Life!Next, Life!Runs, Life!Going
      <3>4. CASE /\ rec.status \in {"queued", "running"}
                 /\ \/ said = "complete" /\ rec'.status = "complete"
                    \/ said = "error" /\ rec'.status = "failed"
                    \/ rec'.status = "canceled"
                    \/ crashes > 0 /\ rec'.status = "interrupted"
        BY <3>1, <3>4 DEF Life!Next, Life!Finishes, Life!Going
      <3> QED BY <1>3, <2>0, <2>1, <3>2, <3>3, <3>4, ReplaceLives
    <2>2. CASE SourceStep
      <3>1. UNCHANGED <<rec, crashes, shared>>
        BY <1>1, <2>0, <2>2, SourceLives
      <3>2. CASE said' = said
        BY <3>1, <3>2 DEF Life!vars
      <3>3. CASE /\ rec.status = "running" /\ said = "nothing"
                 /\ said' \in {"complete", "error", "canceled"}
        BY <3>1, <3>3 DEF Life!Next, Life!Says
      <3> QED BY <2>0, <2>2, <3>2, <3>3, SourceLives
    <2>3. CASE UNCHANGED <<rec, said, crashes>>
      BY <1>1, <2>3 DEF Life!vars
    <2>4. CASE rec.status \in Terminal /\ rec' = NoFile /\ UNCHANGED <<said, crashes>>
      <3>1. rec.status \in Life!Ends /\ rec'.status = Life!Gone
        BY <2>4 DEF Terminal, Life!Ends, NoFile, Life!Gone
      <3> QED BY <1>1, <2>4, <3>1 DEF Life!Next, Life!Forgets
    <2>5. CASE crashes' = crashes + 1 /\ UNCHANGED <<rec, said>>
      BY <1>1, <2>5 DEF Life!Next, Life!Dies
    <2> QED BY <1>3, <2>0, <2>1, <2>2, <2>3, <2>4, <2>5, OthersLive
  <1> QED BY <1>2, <1>3

\* What the record shows is a job's life: on the owner's loop alone it is queued, then
\* running, over once, as its source ended or as somebody asked, interrupted only after a
\* death, and deleted only when it is over; with others at the files a status is one.
THEOREM OneLife == Spec => LivesOnce
  BY LifeInit, LifeStep, AloneAlways, TypedAlways, PTL DEF Spec, LivesOnce, Life!Spec

-----------------------------------------------------------------------------
(* The numbers of the events, on the owner's loop alone                    *)

LastSeq == IF log = <<>> THEN 0 ELSE log[Len(log)].seq

AtCount == {"write append", "replace append"}
AtKept  == {"judge", "write start", "replace start", "write cancel", "replace cancel",
            "write listed", "replace listed"}

\* The record counts every event but, at most, the last one.
NumbersFine ==
    /\ \A i, j \in 1..Len(log) : i <= j => log[i].seq <= log[j].seq
    /\ rec # NoFile => rec.count <= LastSeq /\ LastSeq <= rec.count + 1
    /\ \A a \in OnLoop :
          /\ pc[a] \in AtCount => mem[a].count = LastSeq /\ LastSeq = rec.count + 1
          /\ pc[a] \in AtKept => mem[a].count = rec.count

\* The source may go on for MaxEvents events, then there is its end and one for each
\* cancel request.
Asking == {"write cancel", "replace cancel", "signal", "append", "log"}
LengthFine ==
    /\ pc[Consumer] \in {"start", "write start", "replace start", "await", "look"} =>
          Len(log) <= MaxEvents
    /\ pc[Consumer] \in {"append", "log"} =>
          Len(log) <= MaxEvents /\ (event[Consumer] \notin Last => Len(log) < MaxEvents)
    /\ pc[Consumer] \in {"write append", "replace append"} =>
          Len(log) <= MaxEvents + 1 /\ (event[Consumer] \notin Last => Len(log) <= MaxEvents)
    /\ \A c \in LoopClient : pc[c] \in Asking => Len(log) <= MaxEvents + cancels
    /\ Len(log) <= MaxEvents + 1 + cancels

\* An event is in the log that the record does not count, and nobody is about to.
Lost == rec # NoFile /\ LastSeq = rec.count + 1 /\ \A a \in OnLoop : pc[a] \notin AtCount

\* The places of the events that have the number of the one before.
Repeated == {i \in 2..Len(log) : log[i].seq = log[i - 1].seq}

NumInv == ~shared => NumbersFine /\ LengthFine

LEMMA LastTyped == FilesTyped => LastSeq \in Nat /\ Len(log) \in Nat /\ \A i \in 1..Len(log) : log[i].seq \in Nat
  <1> SUFFICES ASSUME FilesTyped
               PROVE  LastSeq \in Nat /\ Len(log) \in Nat /\ \A i \in 1..Len(log) : log[i].seq \in Nat
    OBVIOUS
  <1>1. log \in Seq(Event)
    BY DEF FilesTyped
  <1>2. Len(log) \in Nat /\ (log # <<>> => Len(log) \in 1..Len(log)) /\ \A i \in 1..Len(log) : log[i] \in Event
    BY <1>1
  <1>3. \A i \in 1..Len(log) : log[i].seq \in Nat
    BY <1>2 DEF Event
  <1> QED BY <1>2, <1>3 DEF LastSeq

LEMMA CountTyped == FilesTyped => rec.count \in Nat /\ \A a \in Actor : mem[a].count \in Nat
  <1>1. (\A r \in Record : r.count \in Nat) /\ NoFile.count \in Nat
    BY DEF Record, NoFile
  <1> QED BY <1>1 DEF FilesTyped

\* A step that leaves the log alone.
LEMMA NumbersKept ==
    ASSUME Placed, NumbersFine, NEW a \in OnLoop, NEW l, At(a, l), \A b \in OnLoop \ {a} : pc[b] \in Rest,
           log' = log,
           rec' # NoFile => \/ rec # NoFile /\ rec'.count = rec.count
                            \/ rec'.count = LastSeq /\ LastSeq \in Nat,
           l \in AtCount => mem'[a].count = LastSeq /\ LastSeq = rec'.count + 1,
           l \in AtKept => mem'[a].count = rec'.count
    PROVE  NumbersFine'
  <1>1. LastSeq' = LastSeq
    BY DEF LastSeq
  <1>2. pc'[a] = l /\ \A b \in OnLoop \ {a} : pc'[b] \in Rest
    BY Actors DEF At, Placed
  <1>3. \A b \in OnLoop \ {a} : pc'[b] \notin AtCount /\ pc'[b] \notin AtKept
    BY <1>2 DEF Rest, AtCount, AtKept
  <1>4. rec' # NoFile => rec'.count <= LastSeq /\ LastSeq <= rec'.count + 1
    BY DEF NumbersFine
  <1> QED BY <1>1, <1>2, <1>3, <1>4 DEF NumbersFine

LEMMA LengthKept ==
    ASSUME Placed, FilesTyped, CountsTyped, LengthFine, NEW a \in OnLoop, NEW l, At(a, l),
           \A b \in OnLoop \ {a} : pc[b] \in Rest, log' = log, UNCHANGED cancels,
           a = Consumer =>
              /\ l \in {"write start", "replace start", "await", "look"} => Len(log) <= MaxEvents
              /\ l \in {"append", "log"} =>
                    Len(log) <= MaxEvents /\ (event'[Consumer] \notin Last => Len(log) < MaxEvents)
              /\ l \in {"write append", "replace append"} =>
                    Len(log) <= MaxEvents + 1 /\ (event'[Consumer] \notin Last => Len(log) <= MaxEvents),
           a # Consumer => (l \in Asking => Len(log) <= MaxEvents + cancels),
           l # "start"
    PROVE  LengthFine'
  <1>1. pc'[a] = l /\ \A b \in OnLoop \ {a} : pc'[b] = pc[b] /\ pc[b] \in Rest
    BY Actors DEF At, Placed
  <1>2. \A c \in LoopClient \ {a} : pc'[c] \notin Asking
    BY <1>1 DEF Rest, Asking, OnLoop
  <1>3. CASE a = Consumer
    BY <1>1, <1>2, <1>3, Actors DEF LengthFine
  <1>4. CASE a # Consumer
    BY <1>1, <1>2, <1>4, Actors DEF LengthFine, Rest
  <1> QED BY <1>3, <1>4

\* Induction over the numbers, as a fact about sets of them.
LEMMA Least ==
    ASSUME NEW T \in SUBSET Nat, T # {}
    PROVE  \E n \in T : \A m \in T : n <= m
  <1> DEFINE R == {ss \in Nat \X Nat : ss[1] < ss[2]}
  <1>1. IsWellFoundedOn(R, Nat)
    BY NatLessThanWellFounded DEF OpToRel
  <1>2. PICK x \in T : \A y \in T : ~(<<y, x>> \in R)
    <2> HIDE DEF R
    <2> QED BY <1>1, WFMin
  <1>3. \A y \in T : y < x => <<y, x>> \in R
    OBVIOUS
  <1>4. \A y \in T : ~(y < x)
    BY <1>2, <1>3
  <1>5. \A y \in T : x <= y
    BY <1>4
  <1> QED BY <1>5

LEMMA Greatest ==
    ASSUME NEW T \in SUBSET Nat, T # {}, NEW b \in Nat, \A m \in T : m <= b
    PROVE  \E n \in T : \A m \in T : m <= n
  <1> DEFINE Above == {u \in Nat : \A m \in T : m <= u}
  <1>1. PICK u \in Above : \A v \in Above : u <= v
    BY Least
  <1>2. u \in T
    <2> SUFFICES ASSUME u \notin T PROVE FALSE
      OBVIOUS
    <2>1. \A m \in T : m <= u - 1
      BY <1>1
    <2>2. PICK m \in T : TRUE
      OBVIOUS
    <2>3. m \in Nat /\ m <= u - 1 /\ u \in Nat
      BY <2>1, <2>2
    <2>4. u - 1 \in Above
      BY <2>1, <2>3
    <2> QED BY <1>1, <2>4
  <1> QED BY <1>1, <1>2

NumsFine == NumbersFine /\ LengthFine

LEMMA AppendReadNums ==
    ASSUME JobTyped, ~shared, AloneParts, NumsFine, NEW a \in Actor, AppendRead(a)
    PROVE  NumsFine'
  <1> USE DEF JobTyped
  <1>1. /\ pc[a] = "append" /\ rec # NoFile /\ At(a, "log")
        /\ UNCHANGED <<rec, log, event, cancels>>
    BY DEF AppendRead
  <1>2. a \in OnLoop /\ \A b \in OnLoop \ {a} : pc[b] \in Rest
    BY <1>1, Alone DEF Rest
  <1>3. NumbersFine'
    BY <1>1, <1>2, NumbersKept DEF NumsFine, AtCount, AtKept
  <1>4. a = Consumer => Len(log) <= MaxEvents /\ (event[Consumer] \notin Last => Len(log) < MaxEvents)
    BY <1>1 DEF NumsFine, LengthFine
  <1>5. a # Consumer => Len(log) <= MaxEvents + cancels
    BY <1>1, <1>2, Actors DEF NumsFine, LengthFine, Asking, OnLoop
  <1>6. LengthFine'
    BY <1>1, <1>2, <1>4, <1>5, LengthKept DEF NumsFine
  <1> QED BY <1>3, <1>6 DEF NumsFine

\* What an event's number does to the numbers of the log.
LEMMA LogGrows ==
    ASSUME FilesTyped, NEW a \in Actor, AppendLog(a)
    PROVE  /\ log' # <<>> /\ Len(log') = Len(log) + 1 /\ Len(log) \in Nat
           /\ \A i \in 1..Len(log) : log'[i] = log[i]
           /\ log'[Len(log) + 1].seq = mem[a].count + 1
           /\ LastSeq' = mem[a].count + 1 /\ mem'[a].count = mem[a].count + 1
           /\ mem[a].count \in Nat
  <1> DEFINE ev == [seq |-> NextNumber(mem[a]), kind |-> event[a]]
  <1>0. mem[a] \in Record /\ event[a] \in Kind /\ mem[a].count \in Nat /\ log \in Seq(Event)
    BY EventTyped, CountTyped DEF FilesTyped
  <1>1. ev \in Event /\ ev.seq = mem[a].count + 1
    BY <1>0 DEF NextNumber, Event
  <1>2. log' = Append(log, ev)
    BY DEF AppendLog
  <1> HIDE DEF ev
  <1>3. /\ Append(log, ev) # <<>> /\ Len(Append(log, ev)) = Len(log) + 1
        /\ \A i \in 1..Len(log) : Append(log, ev)[i] = log[i]
        /\ Append(log, ev)[Len(log) + 1] = ev /\ Len(log) \in Nat
    BY <1>0, <1>1, AppendProperties
  <1>4. mem'[a].count = mem[a].count + 1
    <2>1. mem' = [mem EXCEPT ![a] = [mem[a] EXCEPT !.count = NextNumber(mem[a]),
                                                   !.status = StatusAfter(event[a])]]
      BY DEF AppendLog
    <2>2. mem'[a] = [mem[a] EXCEPT !.count = NextNumber(mem[a]), !.status = StatusAfter(event[a])]
      BY <2>1 DEF FilesTyped
    <2>3. mem'[a].count = NextNumber(mem[a])
      BY <1>0, <2>2 DEF Record
    <2> QED BY <2>3 DEF NextNumber
  <1>5. LastSeq' = mem[a].count + 1
    BY <1>1, <1>2, <1>3 DEF LastSeq
  <1> QED BY <1>0, <1>1, <1>2, <1>3, <1>4, <1>5

LEMMA AppendLogNumbers ==
    ASSUME JobTyped, ~shared, AloneParts, NumsFine, NEW a \in Actor, AppendLog(a)
    PROVE  NumbersFine' /\ rec # NoFile /\ mem[a] = rec
  <1> USE DEF JobTyped
  <1>1. pc[a] = "log" /\ At(a, "write append") /\ rec' = rec
    BY DEF AppendLog
  <1>2. a \in OnLoop /\ \A b \in OnLoop \ {a} : pc[b] \in Rest
    BY <1>1, Alone DEF Rest
  <1>3. mem[a] = rec
    BY <1>1, <1>2 DEF AloneParts, CopyFine
  <1>4. rec # NoFile
    BY <1>3, EventTyped, RecordsTyped
  <1>5. pc'[a] = "write append" /\ \A b \in OnLoop \ {a} : pc'[b] \notin AtCount /\ pc'[b] \notin AtKept
    BY <1>1, <1>2, Actors DEF At, Placed, Rest, AtCount, AtKept
  <1>6. LastSeq \in Nat /\ LastSeq <= rec.count + 1 /\ rec.count \in Nat
    BY <1>4, LastTyped, CountTyped DEF NumsFine, NumbersFine
  <1>7. \A i \in 1..Len(log) : log[i].seq <= LastSeq
    <2>1. log \in Seq(Event)
      BY DEF FilesTyped
    <2>2. ASSUME NEW i \in 1..Len(log)
          PROVE  log[i].seq <= log[Len(log)].seq /\ log # <<>>
      <3>1. Len(log) \in Nat
        BY <2>1
      <3>2. Len(log) \in 1..Len(log) /\ i <= Len(log)
        BY <2>2, <3>1
      <3>3. log # <<>>
        BY <2>1, <2>2
      <3> QED BY <2>2, <3>2, <3>3 DEF NumsFine, NumbersFine
    <2> QED BY <2>2 DEF LastSeq
  <1>8. \A i, j \in 1..Len(log)' : i <= j => log'[i].seq <= log'[j].seq
    <2> SUFFICES ASSUME NEW i \in 1..Len(log'), NEW j \in 1..Len(log'), i <= j
                 PROVE  log'[i].seq <= log'[j].seq
      OBVIOUS
    <2>1. /\ Len(log') = Len(log) + 1 /\ Len(log) \in Nat
          /\ \A k \in 1..Len(log) : log'[k] = log[k] /\ log[k].seq \in Nat
          /\ log'[Len(log) + 1].seq = rec.count + 1
      BY <1>3, LogGrows, LastTyped
    <2>2. CASE j = Len(log) + 1
      <3>1. CASE i = Len(log) + 1
        BY <1>6, <2>1, <2>2, <3>1
      <3>2. CASE i # Len(log) + 1
        <4>1. i \in 1..Len(log)
          BY <2>1, <3>2
        <4>2. log'[i].seq <= LastSeq /\ log'[i].seq \in Nat
          BY <1>7, <2>1, <4>1
        <4> QED BY <1>6, <2>1, <2>2, <4>2
      <3> QED BY <3>1, <3>2
    <2>3. CASE j # Len(log) + 1
      <3>1. i \in 1..Len(log) /\ j \in 1..Len(log)
        BY <2>1, <2>3
      <3> QED BY <2>1, <3>1 DEF NumsFine, NumbersFine
    <2> QED BY <2>2, <2>3
  <1>9. LastSeq' = rec.count + 1 /\ mem'[a].count = rec.count + 1
    BY <1>3, LogGrows
  <1>10. NumbersFine'
    <2>1. rec' # NoFile => rec'.count <= LastSeq' /\ LastSeq' <= rec'.count + 1
      <3>1. rec.count <= rec.count + 1 /\ rec.count + 1 <= rec.count + 1
        BY <1>6
      <3>2. rec' = rec /\ LastSeq' = rec.count + 1
        BY <1>1, <1>9
      <3> QED BY <3>1, <3>2
    <2>2. ASSUME NEW b \in OnLoop
          PROVE  /\ pc'[b] \in AtCount => mem'[b].count = LastSeq' /\ LastSeq' = rec'.count + 1
                 /\ pc'[b] \in AtKept => mem'[b].count = rec'.count
      BY <1>1, <1>5, <1>9 DEF AtKept
    <2> QED BY <1>8, <2>1, <2>2 DEF NumbersFine
  <1> QED BY <1>3, <1>4, <1>10

LEMMA AppendLogLength ==
    ASSUME JobTyped, ~shared, AloneParts, NumsFine, NEW a \in Actor, AppendLog(a)
    PROVE  LengthFine'
  <1> USE DEF JobTyped
  <1>1. pc[a] = "log" /\ At(a, "write append") /\ UNCHANGED <<event, cancels>>
    BY DEF AppendLog
  <1>2. a \in OnLoop /\ \A b \in OnLoop \ {a} : pc[b] \in Rest
    BY <1>1, Alone DEF Rest
  <1>3. pc'[a] = "write append" /\ \A b \in OnLoop \ {a} : pc'[b] = pc[b] /\ pc[b] \in Rest
    BY <1>1, <1>2, Actors DEF At, Placed
  <1>4. \A c \in LoopClient : pc'[c] \notin Asking
    BY <1>3 DEF Rest, Asking, OnLoop
  <1>5. Len(log') = Len(log) + 1 /\ Len(log) \in Nat
    BY LogGrows
  <1>6. MaxEvents \in Nat /\ cancels \in Nat
    BY JobsAssumption DEF CountsTyped
  <1>7. CASE a = Consumer
    <2>1. Len(log) <= MaxEvents /\ (event[Consumer] \notin Last => Len(log) < MaxEvents)
      BY <1>1, <1>7 DEF NumsFine, LengthFine
    <2>2. Len(log') <= MaxEvents + 1 /\ (event'[Consumer] \notin Last => Len(log') <= MaxEvents)
      <3>1. /\ Len(log) + 1 <= MaxEvents + 1
            /\ Len(log) < MaxEvents => Len(log) + 1 <= MaxEvents
        BY <1>5, <1>6, <2>1
      <3> QED BY <1>1, <1>5, <2>1, <3>1
    <2>3. Len(log') <= MaxEvents + 1 + cancels'
      <3>1. Len(log) + 1 <= MaxEvents + 1 + cancels
        BY <1>5, <1>6, <2>1
      <3> QED BY <1>1, <1>5, <3>1
    <2> QED BY <1>3, <1>4, <1>7, <2>2, <2>3 DEF LengthFine
  <1>8. CASE a # Consumer
    <2>1. a \in LoopClient
      BY <1>2, <1>8 DEF OnLoop
    <2>2. Len(log) <= MaxEvents + cancels
      BY <1>1, <2>1 DEF NumsFine, LengthFine, Asking
    <2>3. Len(log') <= MaxEvents + 1 + cancels'
      <3>1. Len(log) + 1 <= MaxEvents + 1 + cancels
        BY <1>5, <1>6, <2>2
      <3> QED BY <1>1, <1>5, <3>1
    <2>4. pc'[Consumer] = "done"
      BY <1>1, <1>3, <1>8, <2>1, Actors DEF AloneParts, ClientFine, Appending
    <2> QED BY <1>4, <2>3, <2>4 DEF LengthFine
  <1> QED BY <1>7, <1>8

LEMMA WriteTmpNums ==
    ASSUME JobTyped, ~shared, AloneParts, NumsFine, NEW a \in Actor, WriteTmp(a)
    PROVE  NumsFine'
  <1> USE DEF JobTyped
  <1> DEFINE l == Replacing(pc[a])
  <1>1. At(a, l) /\ UNCHANGED <<rec, log, mem, event, cancels>>
    BY DEF WriteTmp
  <1>2. /\ pc[a] = "write append" => l = "replace append"
        /\ pc[a] = "write start" => l = "replace start"
        /\ pc[a] = "write cancel" => l = "replace cancel"
        /\ pc[a] = "write listed" => l = "replace listed"
        /\ pc[a] \in {"write append", "write start", "write cancel", "write listed"}
    BY ReplacingWrites DEF WriteTmp
  <1> HIDE DEF l
  <1>3. a \in OnLoop /\ \A b \in OnLoop \ {a} : pc[b] \in Rest
    BY <1>1, <1>2, Alone DEF Rest
  <1>4. l \in AtCount => mem[a].count = LastSeq /\ LastSeq = rec.count + 1
    BY <1>2, <1>3 DEF AtCount, NumsFine, NumbersFine
  <1>5. l \in AtKept => mem[a].count = rec.count
    BY <1>2, <1>3 DEF AtKept, NumsFine, NumbersFine
  <1>6. NumbersFine'
    BY <1>1, <1>3, <1>4, <1>5, NumbersKept DEF NumsFine
  <1>7. a = Consumer =>
           /\ l \in {"write start", "replace start", "await", "look"} => Len(log) <= MaxEvents
           /\ l \in {"write append", "replace append"} =>
                 Len(log) <= MaxEvents + 1 /\ (event[Consumer] \notin Last => Len(log) <= MaxEvents)
    BY <1>2 DEF NumsFine, LengthFine
  <1>8. a # Consumer => (l \in Asking => Len(log) <= MaxEvents + cancels)
    BY <1>2, <1>3 DEF NumsFine, LengthFine, Asking, OnLoop
  <1>9. l # "start" /\ l \notin {"append", "log"}
    BY <1>2
  <1>10. LengthFine'
    BY <1>1, <1>3, <1>7, <1>8, <1>9, LengthKept DEF NumsFine
  <1> QED BY <1>6, <1>10 DEF NumsFine

LEMMA ReplaceNums ==
    ASSUME JobTyped, ~shared, AloneParts, NumsFine, NEW a \in Actor, Replace(a)
    PROVE  NumsFine'
  <1> USE DEF JobTyped
  <1>1. /\ pc[a] \in {"replace append", "replace start", "replace cancel", "replace listed"}
        /\ rec' = tmp /\ UNCHANGED <<log, mem, event, cancels>>
    BY DEF Replace, Writes, Replacing
  <1>2. a \in OnLoop /\ \A b \in OnLoop \ {a} : pc[b] \in Rest
    BY <1>1, Alone DEF Rest
  <1>3. rec' = mem[a]
    BY <1>1, <1>2 DEF AloneParts, CopyFine
  <1>4. \/ rec'.count = LastSeq /\ LastSeq \in Nat
        \/ rec'.count = rec.count /\ rec # NoFile
    <2>1. CASE pc[a] = "replace append"
      BY <1>2, <1>3, <2>1, LastTyped DEF NumsFine, NumbersFine, AtCount
    <2>2. CASE pc[a] # "replace append"
      <3>1. rec'.count = rec.count
        BY <1>1, <1>2, <1>3, <2>2 DEF NumsFine, NumbersFine, AtKept
      <3>2. rec.status \in Running
        <4>1. CASE a = Consumer
          BY <1>1, <2>2, <4>1, ConsumerReplaces DEF Running
        <4>2. CASE a # Consumer
          BY <4>2, Actors, ClientReplaces
        <4> QED BY <4>1, <4>2
      <3>3. NoFile.status \notin Running
        BY DEF NoFile, Running
      <3> QED BY <3>1, <3>2, <3>3
    <2> QED BY <2>1, <2>2
  <1>5. ASSUME NEW l, At(a, l), l \in {"idle", "done", "await", "look", "signal"},
               a = Consumer /\ l \in {"await", "look"} => Len(log) <= MaxEvents,
               l = "signal" => a # Consumer /\ pc[a] = "replace cancel"
        PROVE  NumsFine'
    <2>1. NumbersFine'
      BY <1>1, <1>2, <1>4, <1>5, NumbersKept DEF NumsFine, AtCount, AtKept
    <2>2. l \notin {"write start", "replace start", "append", "log", "write append", "replace append"}
      BY <1>5
    <2>3. a # Consumer => (l \in Asking => Len(log) <= MaxEvents + cancels)
      BY <1>2, <1>5 DEF Asking, NumsFine, LengthFine, OnLoop
    <2>4. LengthFine'
      BY <1>1, <1>2, <1>5, <2>2, <2>3, LengthKept DEF NumsFine
    <2> QED BY <2>1, <2>4 DEF NumsFine
  <1>6. CASE a = Consumer
    <2>1. Return(Consumer) /\ event[Consumer] \in {"step", "failed step"} \cup Last
      BY <1>6, ConsumerReplaces, EventOver, Actors
    <2>2. event[Consumer] \notin Last => Len(log) <= MaxEvents
      BY <1>6, ConsumerReplaces DEF NumsFine, LengthFine
    <2>3. \/ At(Consumer, "await") /\ event[Consumer] = "step"
          \/ At(Consumer, "look") /\ event[Consumer] = "failed step"
          \/ At(Consumer, "done")
      BY <2>1 DEF Return, Last
    <2> QED BY <1>5, <1>6, <2>2, <2>3 DEF Last
  <1>7. CASE a # Consumer
    <2>1. \/ At(a, "signal") /\ pc[a] = "replace cancel"
          \/ At(a, "idle")
      BY <1>7 DEF Replace, Return
    <2> QED BY <1>5, <1>7, <2>1
  <1> QED BY <1>6, <1>7

LEMMA ConsumerNums ==
    ASSUME JobTyped, ~shared, AloneParts, NumsFine, Start \/ SaysError \/ SourceStep \/ CancelArrives
    PROVE  NumsFine'
  <1> USE DEF JobTyped
  <1> USE Actors
  <1>1. /\ pc[Consumer] \in {"start", "look", "await"} /\ Len(log) <= MaxEvents
        /\ UNCHANGED <<rec, log, cancels>>
    BY DEF Start, SaysError, SourceStep, SourceYields, CancelArrives, Wakes, NumsFine, LengthFine
  <1>2. \A b \in OnLoop \ {Consumer} : pc[b] \in Rest
    <2>1. pc[Consumer] = "look" \/ loop = Free
      BY DEF Start, SaysError, SourceStep, SourceYields, CancelArrives, Wakes
    <2> QED BY <2>1 DEF Placed, Rest
  <1>3. rec # NoFile
    <2>1. rec.status \in {"queued", "running", "failed"}
      BY <1>1 DEF AloneParts, ConsumerFine
    <2>2. NoFile.status \notin {"queued", "running", "failed"}
      BY DEF NoFile
    <2> QED BY <2>1, <2>2
  <1>4. CASE Start
    <2>1. At(Consumer, "write start") /\ mem' = [mem EXCEPT ![Consumer] = [rec EXCEPT !.status = "running"]]
      BY <1>4 DEF Start
    <2>2. mem'[Consumer] = [rec EXCEPT !.status = "running"] /\ rec \in Record
      BY <1>3, <2>1 DEF FilesTyped
    <2>3. mem'[Consumer].count = rec.count
      BY <2>2 DEF Record
    <2>4. NumbersFine'
      BY <1>1, <1>2, <1>3, <2>1, <2>3, NumbersKept DEF NumsFine, AtCount, AtKept
    <2>5. LengthFine'
      BY <1>1, <1>2, <2>1, LengthKept DEF NumsFine
    <2> QED BY <2>4, <2>5 DEF NumsFine
  <1>5. CASE SaysError \/ SourceStep \/ CancelArrives
    <2>1. At(Consumer, "append")
      BY <1>5 DEF SaysError, SourceStep, SourceYields, CancelArrives
    <2>2. event'[Consumer] \notin Last => Len(log) < MaxEvents
      <3>1. CASE SaysError
        BY <3>1 DEF SaysError, Heeded, Last, FilesTyped
      <3>2. CASE CancelArrives
        BY <3>2 DEF CancelArrives, Last, FilesTyped
      <3>3. CASE SourceStep
        <4>1. PICK e \in Kind, looked \in BOOLEAN : SourceYields(e, looked)
          BY <3>3 DEF SourceStep
        <4>2. event'[Consumer] \in Last \/ event'[Consumer] = e
          BY <4>1 DEF SourceYields, Heeded, Last, FilesTyped
        <4>3. e \in Last \/ Len(log) < MaxEvents
          BY <4>1 DEF SourceYields
        <4> QED BY <4>2, <4>3
      <3> QED BY <1>5, <3>1, <3>2, <3>3
    <2>3. NumbersFine'
      BY <1>1, <1>2, <1>3, <2>1, NumbersKept DEF NumsFine, AtCount, AtKept
    <2>4. LengthFine'
      BY <1>1, <1>2, <2>1, <2>2, LengthKept DEF NumsFine
    <2> QED BY <2>3, <2>4 DEF NumsFine
  <1> QED BY <1>4, <1>5

LEMMA ClientNums ==
    ASSUME JobTyped, ~shared, AloneParts, NumsFine, NEW c \in Client,
           \/ Judge(c) \/ Signal(c) \/ PruneRecord(c)
           \/ ListReads(c) \/ PruneReads(c)
    PROVE  NumsFine'
  <1> USE DEF JobTyped
  <1>1. \/ pc[c] \in {"judge", "signal", "prune"}
        \/ MayBegin(c)
    BY DEF Judge, Signal, PruneRecord, ListReads, PruneReads
  <1>2. c \in OnLoop /\ \A b \in OnLoop \ {c} : pc[b] \in Rest
    <2>1. CASE pc[c] \in {"judge", "signal", "prune"}
      BY <2>1, Alone, Actors DEF Rest
    <2>2. CASE MayBegin(c)
      <3>1. c \in OnLoop /\ loop = Free
        BY <2>2 DEF MayBegin, MayRun, shared, OnLoop
      <3> QED BY <3>1, Actors DEF Placed
    <2> QED BY <1>1, <2>1, <2>2
  <1>3. UNCHANGED <<log, cancels>>
    BY DEF Judge, Signal, PruneRecord, ListReads, PruneReads
  <1>4. c # Consumer /\ c \in Actor
    BY Actors
  <1>5. ASSUME NEW l, At(c, l), l \in {"idle", "write listed", "append", "prune log", "judge", "prune"},
               rec' = NoFile \/ (rec' = rec /\ rec # NoFile), l \in {"append"} => Len(log) <= MaxEvents + cancels,
               l \in {"write listed", "judge"} => mem'[c].count = rec'.count
        PROVE  NumsFine'
    <2>1. NumbersFine'
      BY <1>2, <1>3, <1>5, NumbersKept DEF NumsFine, AtCount, AtKept
    <2>2. l # "start" /\ (l \in Asking => Len(log) <= MaxEvents + cancels)
      BY <1>5 DEF Asking
    <2>3. LengthFine'
      BY <1>2, <1>3, <1>4, <1>5, <2>2, LengthKept DEF NumsFine
    <2> QED BY <2>1, <2>3 DEF NumsFine
  <1>6. rec.status \in Running => rec # NoFile
    <2>1. NoFile.status \notin Running
      BY DEF NoFile, Running
    <2> QED BY <2>1
  <1>7. CASE Judge(c)
    <2>1. /\ rec' = rec /\ pc[c] = "judge" /\ (mem'[c] = mem[c] \/ mem'[c] = [mem[c] EXCEPT !.status = "interrupted"])
          /\ At(c, "idle") \/ At(c, "write listed")
      BY <1>4, <1>7 DEF Judge, FilesTyped
    <2>2. mem[c] \in Record /\ mem[c].count = rec.count /\ rec.status \in Running
      BY <1>2, <1>4, <2>1, EventTyped DEF NumsFine, NumbersFine, AtKept, AloneParts, ClientFine, OnLoop
    <2>3. mem'[c].count = rec.count
      BY <2>1, <2>2 DEF Record
    <2> QED BY <1>5, <1>6, <2>1, <2>2, <2>3
  <1>8. CASE Signal(c)
    <2>1. rec' = rec /\ pc[c] = "signal" /\ (At(c, "idle") \/ At(c, "append"))
      BY <1>8 DEF Signal
    <2>2. Len(log) <= MaxEvents + cancels /\ rec.status \in Running
      BY <1>2, <1>4, <2>1 DEF NumsFine, LengthFine, Asking, AloneParts, ClientFine, OnLoop
    <2> QED BY <1>5, <1>6, <2>1, <2>2
  <1>9. CASE PruneRecord(c)
    BY <1>5, <1>9 DEF PruneRecord
  <1>10. CASE ListReads(c)
    <2>1. At(c, "judge") /\ rec' = rec /\ rec # NoFile /\ mem'[c] = rec
      BY <1>4, <1>10 DEF ListReads, MayBegin, FilesTyped
    <2> QED BY <1>5, <2>1
  <1>11. CASE PruneReads(c)
    BY <1>5, <1>11 DEF PruneReads, MayBegin
  <1> QED BY <1>7, <1>8, <1>9, <1>10, <1>11

LEMMA CancelNums ==
    ASSUME JobTyped, ~shared, AloneParts, NumsFine, NEW c \in Client, CancelReads(c)
    PROVE  NumsFine'
  <1> USE DEF JobTyped
  <1>1. /\ MayBegin(c) /\ At(c, "write cancel") /\ UNCHANGED <<rec, log, event>>
        /\ mem' = [mem EXCEPT ![c] = Flagged(rec)] /\ cancels' = cancels + 1
    BY DEF CancelReads
  <1>2. c \in OnLoop /\ c # Consumer /\ c \in Actor /\ \A b \in OnLoop : pc[b] \in Rest
    <2>1. c \in OnLoop /\ loop = Free
      BY <1>1 DEF MayBegin, MayRun, shared, OnLoop
    <2> QED BY <2>1, Actors DEF Placed
  <1>3. rec # NoFile /\ mem'[c].count = rec.count
    <2>1. rec # NoFile /\ rec \in Record
      BY <1>1 DEF MayBegin, FilesTyped
    <2>2. mem'[c] = Flagged(rec)
      BY <1>1, <1>2 DEF FilesTyped
    <2> QED BY <2>1, <2>2 DEF Flagged, Record
  <1>4. NumbersFine'
    BY <1>1, <1>2, <1>3, NumbersKept DEF NumsFine, AtCount, AtKept
  <1>5. pc'[c] = "write cancel" /\ \A b \in OnLoop \ {c} : pc'[b] = pc[b]
    BY <1>1, <1>2, Actors DEF At, Placed
  <1>6. Len(log) <= MaxEvents + 1 + cancels /\ Len(log) \in Nat /\ MaxEvents \in Nat /\ cancels \in Nat
    <2>1. Len(log) \in Nat /\ Len(log) <= MaxEvents + 1 + cancels
      BY LastTyped DEF NumsFine, LengthFine
    <2>2. MaxEvents \in Nat /\ cancels \in Nat
      BY JobsAssumption DEF CountsTyped
    <2> QED BY <2>1, <2>2
  <1>7. Len(log) <= MaxEvents + (cancels + 1) /\ Len(log) <= MaxEvents + 1 + (cancels + 1)
    BY <1>6
  <1>8. \A b \in LoopClient : pc'[b] \in Asking => Len(log) <= MaxEvents + (cancels + 1)
    BY <1>7
  <1>9. /\ pc'[Consumer] \in {"start", "write start", "replace start", "await", "look"} =>
              Len(log) <= MaxEvents
        /\ pc'[Consumer] \notin {"append", "log", "write append", "replace append"}
    BY <1>2, <1>5, Actors DEF NumsFine, LengthFine, Rest
  <1>10. LengthFine'
    BY <1>1, <1>7, <1>8, <1>9 DEF LengthFine
  <1> QED BY <1>4, <1>10 DEF NumsFine

LEMMA PruneLogNums ==
    ASSUME JobTyped, ~shared, AloneParts, NumsFine, NEW c \in Client, PruneLog(c)
    PROVE  NumsFine'
  <1> USE DEF JobTyped
  <1>1. pc[c] = "prune log" /\ At(c, "idle") /\ log' = <<>> /\ UNCHANGED <<rec, cancels>>
    BY DEF PruneLog
  <1>2. c \in OnLoop /\ c \in LoopClient /\ \A b \in OnLoop \ {c} : pc[b] \in Rest
    BY <1>1, Alone, Actors DEF Rest
  <1>3. rec' = NoFile
    BY <1>1, <1>2 DEF AloneParts, ClientFine
  <1>4. \A b \in OnLoop : pc'[b] \in Rest
    BY <1>1, <1>2, Actors DEF At, Placed, Rest
  <1>5. Len(log') = 0 /\ MaxEvents \in Nat /\ cancels \in Nat
    <2>1. Len(log') = 0
      BY <1>1
    <2>2. MaxEvents \in Nat /\ cancels \in Nat
      BY JobsAssumption DEF CountsTyped
    <2> QED BY <2>1, <2>2
  <1>6. NumbersFine'
    <2>1. 1..Len(log') = {}
      BY <1>5
    <2> QED BY <1>3, <1>4, <2>1 DEF NumbersFine, Rest, AtCount, AtKept
  <1>7. 0 <= MaxEvents /\ 0 <= MaxEvents + 1 + cancels
    BY <1>5
  <1>8. LengthFine'
    BY <1>1, <1>4, <1>5, <1>7, Actors DEF LengthFine, Rest, Asking, OnLoop
  <1> QED BY <1>6, <1>8 DEF NumsFine

LEMMA CrashNums ==
    ASSUME JobTyped, ~shared, AloneParts, NumsFine, Crash
    PROVE  NumsFine' /\ (\A b \in OnLoop : pc'[b] \in Rest) /\ crashes' = crashes + 1
           /\ UNCHANGED <<rec, log>>
  <1> USE DEF JobTyped
  <1>1. UNCHANGED <<rec, log, cancels>> /\ crashes' = crashes + 1
    BY DEF Crash
  <1>2. \A b \in OnLoop : pc'[b] \in Rest /\ pc'[b] \notin {"start", "await"}
    <2>1. pc' = [a \in Actor |-> CASE a = Consumer              -> "done"
                                   [] a \in InOwner \cap Client -> "idle"
                                   [] a \in OtherClient         -> pc[a]]
      BY DEF Crash
    <2>2. pc'[Consumer] = "done"
      BY <2>1, Actors DEF Client
    <2>3. \A c \in LoopClient : pc'[c] = "idle"
      <3>1. Placed' /\ loop' = Free
        BY CrashPlaced DEF Crash
      <3> QED BY <3>1, Actors DEF Placed, Rest, OfClient, Appending, OnLoop
    <2> QED BY <2>2, <2>3 DEF OnLoop, Rest
  <1>3. LastSeq' = LastSeq
    BY <1>1 DEF LastSeq
  <1>4. NumbersFine'
    BY <1>1, <1>2, <1>3 DEF NumsFine, NumbersFine, Rest, AtCount, AtKept
  <1>5. LengthFine'
    BY <1>1, <1>2, Actors DEF NumsFine, LengthFine, Rest, Asking, OnLoop
  <1> QED BY <1>1, <1>2, <1>4, <1>5 DEF NumsFine

LEMMA NumsStep ==
    ASSUME JobTyped, ~shared, AloneParts, NumsFine, [Next]_vars
    PROVE  NumsFine'
  <1>1. ASSUME NEW a \in Actor, FileStep(a)
        PROVE  NumsFine'
    <2>1. ~RecordGone(a) /\ ~ReplaceFails(a)
      BY NothingFails
    <2>2. AppendLog(a) => NumsFine'
      BY AppendLogNumbers, AppendLogLength DEF NumsFine
    <2> QED BY <1>1, <2>1, <2>2, AppendReadNums, WriteTmpNums, ReplaceNums DEF FileStep
  <1>2. CASE ServerStops \/ UNCHANGED vars
    <2>1. UNCHANGED <<rec, log, pc, mem, event, cancels>>
      BY <1>2 DEF ServerStops, vars
    <2>2. LastSeq' = LastSeq
      BY <2>1 DEF LastSeq
    <2> QED BY <2>1, <2>2 DEF NumsFine, NumbersFine, LengthFine
  <1>3. ASSUME NEW c \in Client,
               \/ Judge(c) \/ Signal(c) \/ PruneRecord(c) \/ PruneLog(c)
               \/ ListReads(c) \/ CancelReads(c) \/ PruneReads(c)
        PROVE  NumsFine'
    BY <1>3, ClientNums, CancelNums, PruneLogNums
  <1> QED BY <1>1, <1>2, <1>3, NextSplits, NothingFails, ConsumerNums, CrashNums

LEMMA NumsInit == Init => NumsFine
  <1> SUFFICES ASSUME Init PROVE NumsFine
    OBVIOUS
  <1>1. \A a \in Actor : pc[a] = IF a = Consumer THEN "start" ELSE "idle"
    BY DEF Init
  <1>2. \A a \in OnLoop : pc[a] \in {"start", "idle"}
    BY <1>1, Actors
  <1>3. log = <<>> /\ Len(log) = 0 /\ rec.count = 0 /\ cancels = 0
    BY EmptySeq DEF Init, NewRecord
  <1>4. LastSeq = 0
    BY <1>3 DEF LastSeq
  <1>5. NumbersFine
    <2>1. 1..Len(log) = {}
      BY <1>3
    <2>2. rec.count <= LastSeq /\ LastSeq <= rec.count + 1
      BY <1>3, <1>4
    <2> QED BY <1>2, <2>1, <2>2 DEF NumbersFine, AtCount, AtKept
  <1>6. 0 <= MaxEvents /\ 0 <= MaxEvents + 1 + 0
    BY JobsAssumption
  <1>7. LengthFine
    BY <1>2, <1>3, <1>6, Actors DEF LengthFine, Asking, OnLoop
  <1> QED BY <1>5, <1>7 DEF NumsFine

LEMMA NumAlways == Spec => [](JobTyped /\ AloneInv /\ NumInv)
  <1>1. Init => NumInv
    BY NumsInit DEF NumInv, NumsFine
  <1>2. JobTyped /\ AloneInv /\ NumInv /\ [Next]_vars => NumInv'
    <2> SUFFICES ASSUME JobTyped, AloneInv, NumInv, [Next]_vars PROVE NumInv'
      OBVIOUS
    <2>1. shared' <=> shared
      BY CompanyKept DEF shared
    <2>2. ~shared => NumsFine'
      BY NumsStep DEF AloneInv, AloneParts, NumInv, NumsFine
    <2> QED BY <2>1, <2>2 DEF NumInv, NumsFine
  <1> QED BY <1>1, <1>2, AloneAlways, PTL DEF Spec

\* No step but a crash makes an event lost.
LEMMA LostKept ==
    ASSUME Placed, NEW a \in Actor, NEW l, At(a, l), UNCHANGED <<rec, log>>,
           pc[a] \in AtCount => l \in AtCount
    PROVE  Lost' => Lost
  <1>1. pc'[a] = l /\ \A b \in Actor \ {a} : pc'[b] = pc[b]
    BY DEF At, Placed
  <1>2. \A b \in OnLoop : pc[b] \in AtCount => pc'[b] \in AtCount
    BY <1>1, Actors
  <1>3. LastSeq' = LastSeq
    BY DEF LastSeq
  <1> QED BY <1>2, <1>3 DEF Lost

LEMMA ReplaceKeeps ==
    ASSUME JobTyped, ~shared, AloneParts, NumsFine, NEW a \in Actor, Replace(a)
    PROVE  rec # NoFile /\ log' = log /\ (Lost' => Lost)
  <1> USE DEF JobTyped
  <1>1. /\ pc[a] \in {"replace append", "replace start", "replace cancel", "replace listed"}
        /\ rec' = tmp /\ log' = log
    BY DEF Replace, Writes, Replacing
  <1>2. a \in OnLoop /\ \A b \in OnLoop \ {a} : pc[b] \in Rest
    BY <1>1, Alone DEF Rest
  <1>3. rec' = mem[a] /\ rec \in Record \cup {NoFile} /\ rec.count \in Nat
    BY <1>1, <1>2, CountTyped DEF AloneParts, CopyFine, FilesTyped
  <1>4. rec # NoFile
    <2>1. rec.status \in {"queued", "running", "failed"}
      <3>1. CASE a = Consumer
        BY <3>1, ConsumerReplaces
      <3>2. CASE a # Consumer
        BY <3>2, Actors, ClientReplaces DEF Running
      <3> QED BY <3>1, <3>2
    <2>2. NoFile.status \notin {"queued", "running", "failed"}
      BY DEF NoFile
    <2> QED BY <2>1, <2>2
  <1>5. LastSeq' = LastSeq /\ LastSeq \in Nat
    BY <1>1, LastTyped DEF LastSeq
  <1>6. CASE pc[a] \in AtCount
    <2>1. rec'.count = LastSeq
      BY <1>2, <1>3, <1>6 DEF NumsFine, NumbersFine
    <2>2. LastSeq # LastSeq + 1
      BY <1>5
    <2> QED BY <1>1, <1>4, <1>5, <2>1, <2>2 DEF Lost
  <1>7. CASE pc[a] \notin AtCount
    <2>1. rec'.count = rec.count
      BY <1>1, <1>2, <1>3, <1>7 DEF NumsFine, NumbersFine, AtCount, AtKept
    <2>2. \A b \in OnLoop : pc[b] \notin AtCount
      BY <1>2, <1>7 DEF Rest, AtCount
    <2> QED BY <1>1, <1>4, <1>5, <2>1, <2>2 DEF Lost
  <1> QED BY <1>1, <1>4, <1>6, <1>7

\* What a step of the job is to its watcher.
LEMMA StepKinds ==
    ASSUME JobTyped, ~shared, AloneParts, NumsFine, [Next]_vars
    PROVE  \/ \E a \in Actor : AppendLog(a)
           \/ Crash
           \/ /\ crashes' = crashes /\ (Lost' => Lost) /\ (rec' # NoFile => rec # NoFile)
              /\ \/ log' = log
                 \/ log' = <<>> /\ rec' = NoFile
  <1> DEFINE Quiet == /\ crashes' = crashes /\ (Lost' => Lost) /\ (rec' # NoFile => rec # NoFile)
                      /\ log' = log \/ (log' = <<>> /\ rec' = NoFile)
  <1> USE DEF JobTyped
  <1>1. ASSUME NEW a \in Actor, NEW l, At(a, l), UNCHANGED <<rec, log, crashes>>,
               pc[a] \in AtCount => l \in AtCount
        PROVE  Quiet
    BY <1>1, LostKept
  <1>2. ASSUME NEW a \in Actor, FileStep(a)
        PROVE  AppendLog(a) \/ Quiet
    <2>1. CASE AppendRead(a)
      BY <1>1, <2>1 DEF AppendRead, AtCount
    <2>2. CASE WriteTmp(a)
      <3>1. At(a, Replacing(pc[a])) /\ UNCHANGED <<rec, log, crashes>>
        BY <2>2 DEF WriteTmp
      <3>2. pc[a] \in AtCount => Replacing(pc[a]) \in AtCount
        BY <2>2, ReplacingWrites DEF WriteTmp, AtCount
      <3> QED BY <1>1, <3>1, <3>2
    <2>3. CASE Replace(a)
      BY <2>3, ReplaceKeeps DEF Replace
    <2> QED BY <1>2, <2>1, <2>2, <2>3, NothingFails DEF FileStep
  <1>3. CASE Start \/ SaysError \/ SourceStep \/ CancelArrives
    <2>1. UNCHANGED <<rec, log, crashes>> /\ pc[Consumer] \notin AtCount /\ \E l \in OfConsumer : At(Consumer, l)
      BY <1>3 DEF Start, SaysError, SourceStep, SourceYields, CancelArrives, Wakes, AtCount,
                  OfConsumer, Appending
    <2> QED BY <1>1, <2>1, Actors
  <1>4. CASE ServerStops \/ UNCHANGED vars
    <2>1. UNCHANGED <<rec, log, pc, crashes>>
      BY <1>4 DEF ServerStops, vars
    <2>2. Lost' <=> Lost
      BY <2>1 DEF Lost, LastSeq
    <2> QED BY <2>1, <2>2
  <1>5. ASSUME NEW c \in Client, Judge(c) \/ Signal(c) \/ ListReads(c) \/ CancelReads(c) \/ PruneReads(c)
        PROVE  Quiet
    <2>1. UNCHANGED <<rec, log, crashes>> /\ pc[c] \notin AtCount /\ \E l \in OfClient : At(c, l)
      BY <1>5 DEF Judge, Signal, ListReads, CancelReads, PruneReads, MayBegin, AtCount,
                  OfClient, Appending
    <2> QED BY <1>1, <2>1, Actors
  <1>6. ASSUME NEW c \in Client, PruneRecord(c)
        PROVE  Quiet
    BY <1>6 DEF PruneRecord, Lost
  <1>7. ASSUME NEW c \in Client, PruneLog(c)
        PROVE  Quiet
    <2>1. pc[c] = "prune log" /\ log' = <<>> /\ rec' = rec /\ crashes' = crashes
      BY <1>7 DEF PruneLog
    <2>2. rec = NoFile
      BY <2>1, Alone, Actors DEF AloneParts, ClientFine, Rest
    <2> QED BY <2>1, <2>2 DEF Lost
  <1> QED BY <1>2, <1>3, <1>4, <1>5, <1>6, <1>7, NextSplits, NothingFails

-----------------------------------------------------------------------------
(* The watcher                                                             *)

Places == 1..(MaxEvents + MaxCancels + 2)

WatchTyped ==
    /\ poll \in {"waits", "asks", "over", "gave up"} /\ open \subseteq {"record", "events"}
    /\ open # {} => poll = "asks"
    /\ job \in Running \cup Terminal /\ after \in Nat /\ heard \in Nat
    /\ batch \subseteq Places /\ shown \subseteq Places

\* The events at D, one for each death, are lost to the watcher.
MayMiss(D) ==
    /\ Repeated \subseteq D
    /\ Cardinality(D) + (IF Lost THEN 1 ELSE 0) <= crashes

\* All others are shown or still ahead; a page leaves out none before its last.
ShownOrAhead(D) ==
    /\ \A i \in 1..Len(log) : log[i].seq > after \/ i \in shown \cup D
    /\ rec # NoFile => after <= LastSeq

PageFine(D) ==
    poll = "asks" /\ "events" \notin open =>
        /\ 1..heard \subseteq shown \cup batch \cup D
        /\ \A i \in 1..Len(log) : i \in batch \cup shown \cup D \/ \A j \in batch : j < i
        /\ rec # NoFile => batch \subseteq 1..Len(log)

OverFine(D) == poll = "over" => 1..heard \subseteq shown \cup D

Missing(D) == MayMiss(D) /\ ShownOrAhead(D) /\ PageFine(D) /\ OverFine(D)

WatchInv ==
    /\ WatchTyped
    /\ IF shared THEN poll = "waits" /\ open = {}
                 ELSE \E D \in SUBSET Places : Missing(D)

LEMMA PlacesFinite == \A D \in SUBSET Places : IsFiniteSet(D) /\ Cardinality(D) \in Nat
  <1>1. IsFiniteSet(Places)
    BY FS_Interval, JobsAssumption DEF Places
  <1> QED BY <1>1, FS_Subset, FS_CardinalityType

\* The log keeps to its places.
LEMMA LogPlaces ==
    ASSUME JobTyped, ~shared, NumInv
    PROVE  Len(log) \in Nat /\ 1..Len(log) \subseteq Places /\ Len(log) + 1 \in Places
  <1>1. Len(log) \in Nat /\ Len(log) <= MaxEvents + 1 + cancels
    BY LastTyped DEF JobTyped, NumInv, LengthFine
  <1>2. MaxEvents \in Nat /\ MaxCancels \in Nat /\ cancels \in Nat /\ cancels <= MaxCancels
    BY JobsAssumption DEF JobTyped, CountsTyped
  <1> QED BY <1>1, <1>2 DEF Places

LEMMA WatchInits == WatchInit => WatchInv
  <1> SUFFICES ASSUME WatchInit PROVE WatchInv
    OBVIOUS
  <1>1. WatchTyped
    BY DEF WatchInit, WatchTyped, Running
  <1>2. log = <<>> /\ Len(log) = 0 /\ rec.count = 0 /\ crashes = 0
    BY DEF WatchInit, Init, NewRecord
  <1>3. 1..Len(log) = {} /\ Repeated = {}
    BY <1>2 DEF Repeated
  <1>4. ~Lost /\ LastSeq = 0
    BY <1>2 DEF Lost, LastSeq
  <1>5. MayMiss({})
    BY <1>2, <1>3, <1>4, FS_EmptySet DEF MayMiss
  <1>6. ShownOrAhead({}) /\ PageFine({}) /\ OverFine({})
    BY <1>3, <1>4 DEF WatchInit, ShownOrAhead, PageFine, OverFine
  <1>7. {} \in SUBSET Places
    OBVIOUS
  <1> QED BY <1>1, <1>5, <1>6, <1>7 DEF WatchInv, WatchInit, Missing

\* The log grows by an event.
LEMMA GrowthMisses ==
    ASSUME JobTyped, ~shared, AloneParts, NumInv, UNCHANGED watch, WatchTyped,
           NEW D \in SUBSET Places, Missing(D), NEW a \in Actor, AppendLog(a)
    PROVE  \E E \in SUBSET Places : Missing(E)'
  <1> DEFINE n == Len(log) + 1
             r == rec.count + 1
  <1>1. NumbersFine /\ LengthFine /\ NumsFine
    BY DEF NumInv, NumsFine
  <1>2. rec # NoFile /\ mem[a] = rec
    BY <1>1, AppendLogNumbers
  <1>3. UNCHANGED <<rec, crashes>> /\ pc[a] = "log" /\ At(a, "write append")
    BY DEF AppendLog
  <1>4. a \in OnLoop /\ \A b \in OnLoop : pc[b] \notin AtCount
    BY <1>3, Alone DEF JobTyped, Rest, AtCount
  <1>5. ~Lost'
    BY <1>3, <1>4, Actors DEF Lost, At, JobTyped, Placed, AtCount
  <1>6. /\ Len(log') = n /\ Len(log) \in Nat /\ \A i \in 1..Len(log) : log'[i] = log[i]
        /\ log'[n].seq = r /\ LastSeq' = r
    BY <1>2, LogGrows DEF JobTyped
  <1>7. rec.count \in Nat /\ LastSeq \in Nat /\ (LastSeq = rec.count \/ LastSeq = r) /\ after \in Nat /\ after <= LastSeq
    <2>1. rec.count \in Nat /\ LastSeq \in Nat
      BY CountTyped, LastTyped DEF JobTyped
    <2>2. LastSeq = rec.count \/ LastSeq = r
      BY <1>1, <1>2, <2>1 DEF NumbersFine
    <2>3. after \in Nat /\ after <= LastSeq
      BY <1>2 DEF WatchTyped, Missing, ShownOrAhead
    <2> QED BY <2>1, <2>2, <2>3
  <1>8. n \in Places /\ IsFiniteSet(D) /\ Cardinality(D) \in Nat /\ crashes \in Nat
    BY LogPlaces, PlacesFinite, JobsAssumption DEF JobTyped, CountsTyped
  <1>9. Repeated' \subseteq Repeated \cup {n}
    BY <1>6 DEF Repeated
  <1>10. LastSeq # r => n \notin Repeated'
    <2> SUFFICES ASSUME LastSeq # r, n \in Repeated' PROVE FALSE
      OBVIOUS
    <2>1. n \in 2..n /\ log'[n].seq = log'[n - 1].seq
      BY <1>6 DEF Repeated
    <2>2. n - 1 = Len(log) /\ Len(log) \in 1..Len(log)
      BY <1>6, <2>1
    <2>3. log # <<>>
      BY <2>2
    <2>4. log'[n - 1].seq = LastSeq
      BY <1>6, <2>2, <2>3 DEF LastSeq
    <2> QED BY <1>6, <2>1, <2>4
  <1>11. PICK E \in SUBSET Places :
            /\ D \subseteq E /\ Repeated' \subseteq E /\ Cardinality(E) <= crashes
            /\ LastSeq = r => n \in E
    <2>1. CASE LastSeq = r
      <3> DEFINE F == D \cup {n}
      <3>1. Lost
        BY <1>2, <1>4, <2>1 DEF Lost
      <3>2. Cardinality(D) + 1 <= crashes
        BY <3>1 DEF Missing, MayMiss
      <3>3. Cardinality(F) = IF n \in D THEN Cardinality(D) ELSE Cardinality(D) + 1
        BY <1>8, FS_AddElement
      <3>4. F \in SUBSET Places /\ Repeated' \subseteq F /\ D \subseteq F /\ n \in F
        BY <1>8, <1>9 DEF Missing, MayMiss
      <3>5. Cardinality(F) = Cardinality(D) \/ Cardinality(F) = Cardinality(D) + 1
        BY <3>3
      <3> HIDE DEF F
      <3>6. Cardinality(F) <= crashes
        BY <1>8, <3>2, <3>5
      <3> QED BY <3>4, <3>6
    <2>2. CASE LastSeq # r
      <3>1. Cardinality(D) <= crashes
        BY <1>8 DEF Missing, MayMiss
      <3>2. Repeated' \subseteq D
        BY <1>9, <1>10, <2>2 DEF Missing, MayMiss
      <3> QED BY <2>2, <3>1, <3>2
    <2> QED BY <2>1, <2>2
  <1>12. MayMiss(E)'
    <2>1. Cardinality(E) \in Nat
      BY PlacesFinite
    <2>2. Cardinality(E) + 0 <= crashes
      BY <1>11, <2>1
    <2> QED BY <1>3, <1>5, <1>11, <2>2 DEF MayMiss
  <1>13. \A i \in 1..Len(log') : i \in 1..Len(log) \/ i = n
    BY <1>6
  <1>14. ShownOrAhead(E)'
    <2>1. \A i \in 1..Len(log) : log'[i].seq > after \/ i \in shown \cup E
      BY <1>6, <1>11 DEF Missing, ShownOrAhead
    <2>2. LastSeq # r => after < r
      BY <1>7
    <2>3. log'[n].seq > after \/ n \in E
      BY <1>6, <1>7, <1>11, <2>2
    <2>4. after <= r
      BY <1>7
    <2> QED BY <1>6, <1>13, <2>1, <2>3, <2>4 DEF watch, ShownOrAhead
  <1>15. PageFine(E)'
    <2> SUFFICES ASSUME poll = "asks", "events" \notin open
                 PROVE  /\ 1..heard \subseteq shown \cup batch \cup E
                        /\ \A i \in 1..Len(log') : i \in batch \cup shown \cup E \/ \A j \in batch : j < i
                        /\ batch \subseteq 1..Len(log')
      BY DEF watch, PageFine
    <2>1. /\ 1..heard \subseteq shown \cup batch \cup D
          /\ \A i \in 1..Len(log) : i \in batch \cup shown \cup D \/ \A j \in batch : j < i
          /\ batch \subseteq 1..Len(log)
      BY <1>2 DEF Missing, PageFine
    <2>2. \A j \in batch : j < n
      BY <1>6, <2>1
    <2>3. batch \subseteq 1..Len(log')
      BY <1>6, <2>1
    <2> QED BY <1>11, <1>13, <2>1, <2>2, <2>3
  <1>16. OverFine(E)'
    BY <1>11 DEF watch, OverFine, Missing
  <1> QED BY <1>12, <1>14, <1>15, <1>16 DEF Missing


LEMMA JobStepMisses ==
    ASSUME JobTyped, ~shared, AloneParts, NumInv, UNCHANGED watch, [Next]_vars, WatchTyped,
           NEW D \in SUBSET Places, Missing(D)
    PROVE  \E E \in SUBSET Places : Missing(E)'
  <1>0. Cardinality(D) \in Nat /\ crashes \in Nat /\ NumsFine
    BY PlacesFinite, JobsAssumption DEF JobTyped, CountsTyped, NumInv, NumsFine
  <1>1. CASE \E a \in Actor : AppendLog(a)
    BY <1>1, GrowthMisses
  <1>2. ASSUME log' = log, rec' # NoFile => rec # NoFile, MayMiss(D)'
        PROVE  Missing(D)'
    <2>1. LastSeq' = LastSeq
      BY <1>2 DEF LastSeq
    <2> QED BY <1>2, <2>1 DEF watch, Missing, ShownOrAhead, PageFine, OverFine
  <1>3. CASE Crash
    <2>1. log' = log /\ rec' = rec /\ crashes' = crashes + 1
      BY <1>3 DEF Crash
    <2>2. Repeated' = Repeated
      BY <2>1 DEF Repeated
    <2>3. Cardinality(D) <= crashes
      BY <1>0 DEF Missing, MayMiss
    <2>4. Cardinality(D) + 1 <= crashes + 1 /\ Cardinality(D) + 0 <= crashes + 1
      BY <1>0, <2>3
    <2>5. MayMiss(D)'
      BY <2>1, <2>2, <2>4 DEF Missing, MayMiss
    <2> QED BY <1>2, <2>1, <2>5
  <1>4. CASE crashes' = crashes /\ (Lost' => Lost) /\ (rec' # NoFile => rec # NoFile) /\ log' = log
    <2>1. Repeated' = Repeated
      BY <1>4 DEF Repeated
    <2>2. Cardinality(D) + 0 <= crashes
      BY <1>0 DEF Missing, MayMiss
    <2>3. MayMiss(D)'
      BY <1>4, <2>1, <2>2 DEF Missing, MayMiss
    <2> QED BY <1>2, <1>4, <2>3
  <1>5. CASE crashes' = crashes /\ log' = <<>> /\ rec' = NoFile
    <2>1. 1..Len(log') = {} /\ Repeated' = {}
      BY <1>5 DEF Repeated
    <2>2. ~Lost'
      BY <1>5 DEF Lost
    <2>3. Cardinality(D) + 0 <= crashes
      BY <1>0 DEF Missing, MayMiss
    <2>4. MayMiss(D)'
      BY <1>5, <2>1, <2>2, <2>3 DEF MayMiss
    <2>5. ShownOrAhead(D)' /\ OverFine(D)'
      BY <1>5, <2>1 DEF watch, Missing, ShownOrAhead, OverFine
    <2>6. PageFine(D)'
      BY <1>5, <2>1 DEF watch, Missing, PageFine
    <2> QED BY <2>4, <2>5, <2>6 DEF Missing
  <1> QED BY <1>0, <1>1, <1>3, <1>4, <1>5, StepKinds

\* A page: the first of the new events, up to its last place.
LEMMA Pages ==
    ASSUME JobTyped, ~shared, NumInv, WatchTyped
    PROVE  /\ Page \subseteq NewEvents /\ NewEvents \subseteq 1..Len(log)
           /\ \A i \in NewEvents \ Page : \A j \in Page : j < i
           /\ Page # NewEvents => \E i \in Page : \A j \in Page : j <= i
  <1> DEFINE upTo(i) == {j \in NewEvents : j <= i}
  <1>1. Page \subseteq NewEvents /\ NewEvents \subseteq 1..Len(log) /\ Len(log) \in Nat
    BY LogPlaces DEF Page, NewEvents
  <1>0. NewEvents \in SUBSET Nat /\ Page \in SUBSET Nat
    <2>1. \A i \in 1..Len(log) : i \in Nat
      BY <1>1
    <2> QED BY <1>1, <2>1
  <1>2. ASSUME NEW i \in NewEvents
        PROVE  IsFiniteSet(upTo(i)) /\ Cardinality(upTo(i)) \in Nat /\ i \in Nat
    <2>1. upTo(i) \in SUBSET Places
      BY <1>1, LogPlaces
    <2> QED BY <1>1, <2>1, PlacesFinite
  <1>3. \A i \in NewEvents : i \in Page <=> Cardinality(upTo(i)) <= PageLimit
    BY DEF Page
  <1>4. ASSUME NEW i \in NewEvents \ Page, NEW j \in Page
        PROVE  j < i
    <2> SUFFICES ASSUME i <= j PROVE FALSE
      BY <1>0, <1>1
    <2>0. i \in Nat /\ j \in Nat /\ i \in NewEvents /\ j \in NewEvents
      BY <1>0, <1>1
    <2>1. upTo(i) \in SUBSET upTo(j)
      <3>1. ASSUME NEW k \in upTo(i)
            PROVE  k \in upTo(j)
        <4>1. k \in NewEvents /\ k \in Nat /\ k <= i
          BY <1>0
        <4>2. k <= j
          BY <2>0, <4>1
        <4> QED BY <4>1, <4>2
      <3> QED BY <3>1
    <2>2. Cardinality(upTo(i)) <= Cardinality(upTo(j))
      BY <1>2, <2>0, <2>1, FS_Subset
    <2>3. Cardinality(upTo(j)) <= PageLimit /\ ~(Cardinality(upTo(i)) <= PageLimit)
      BY <1>3, <2>0
    <2>4. Cardinality(upTo(i)) \in Nat /\ Cardinality(upTo(j)) \in Nat
      BY <1>2, <2>0
    <2> HIDE DEF upTo
    <2> QED BY <2>2, <2>3, <2>4, PageAssumption
  <1>5. ASSUME Page # NewEvents
        PROVE  \E i \in Page : \A j \in Page : j <= i
    <2>1. NewEvents \in SUBSET Nat /\ NewEvents # {}
      BY <1>0, <1>1, <1>5
    <2>2. PICK i \in NewEvents : \A j \in NewEvents : i <= j
      BY <2>1, Least
    <2>3. upTo(i) = {i}
      <3>1. \A j \in NewEvents : j \in Nat /\ i <= j
        BY <2>1, <2>2
      <3>2. \A j \in NewEvents : j <= i => j = i
        BY <2>1, <3>1
      <3>3. i \in NewEvents /\ i <= i
        BY <2>1
      <3> QED BY <3>2, <3>3
    <2>4. Cardinality(upTo(i)) = 1
      BY <2>3, FS_Singleton
    <2>5. i \in Page
      BY <1>3, <2>4, PageAssumption
    <2>6. Page \in SUBSET Nat /\ Page # {} /\ \A j \in Page : j <= Len(log)
      BY <1>1, <2>5
    <2> QED BY <1>1, <2>6, Greatest
  <1> QED BY <1>1, <1>4, <1>5

\* The events come.
LEMMA EventsMissed ==
    ASSUME JobTyped, ~shared, AloneParts, NumInv, WatchTyped, EventsCome,
           NEW D \in SUBSET Places, Missing(D)
    PROVE  WatchTyped' /\ Missing(D)'
  <1>1. /\ "events" \in open /\ open' = open \ {"events"} /\ rec # NoFile
        /\ batch' = Page
        /\ heard' = IF Page = NewEvents THEN Len(log)
                    ELSE CHOOSE i \in Page : \A j \in Page : j <= i
        /\ UNCHANGED <<poll, job, after, shown>> /\ UNCHANGED <<rec, log, loop, pc, crashes>>
    BY DEF EventsCome, Answers, vars
  <1>2. /\ Page \subseteq NewEvents /\ NewEvents \subseteq 1..Len(log)
        /\ \A i \in NewEvents \ Page : \A j \in Page : j < i
        /\ Page # NewEvents => \E i \in Page : \A j \in Page : j <= i
        /\ 1..Len(log) \subseteq Places /\ Len(log) \in Nat
    BY Pages, LogPlaces
  <1>3. heard' \in Nat /\ heard' <= Len(log)
        /\ \A i \in NewEvents \ Page : heard' < i
    <2>1. CASE Page = NewEvents
      BY <1>1, <1>2, <2>1
    <2>2. CASE Page # NewEvents
      <3>1. heard' \in Page
        BY <1>1, <1>2, <2>2
      <3> QED BY <1>2, <3>1
    <2> QED BY <2>1, <2>2
  <1>4. WatchTyped'
    BY <1>1, <1>2, <1>3 DEF WatchTyped
  <1>5. LastSeq' = LastSeq /\ Repeated' = Repeated /\ (Lost' <=> Lost)
    BY <1>1 DEF LastSeq, Repeated, Lost
  <1>6. MayMiss(D)' /\ ShownOrAhead(D)' /\ OverFine(D)'
    <2>1. MayMiss(D)'
      BY <1>1, <1>5 DEF Missing, MayMiss
    <2>2. ShownOrAhead(D)'
      BY <1>1, <1>5 DEF Missing, ShownOrAhead
    <2>3. OverFine(D)'
      BY <1>1 DEF Missing, OverFine, WatchTyped
    <2> QED BY <2>1, <2>2, <2>3
  <1>7. \A i \in 1..Len(log) : i \in NewEvents \/ i \in shown \cup D
    BY DEF Missing, ShownOrAhead, NewEvents
  <1>8. 1..heard' \subseteq shown \cup Page \cup D
    <2> SUFFICES ASSUME NEW i \in 1..heard', i \notin shown \cup D PROVE i \in Page
      OBVIOUS
    <2>1. i \in 1..Len(log) /\ ~(heard' < i)
      BY <1>2, <1>3
    <2> QED BY <1>3, <1>7, <2>1
  <1>9. \A i \in 1..Len(log) : i \in Page \cup shown \cup D \/ \A j \in Page : j < i
    BY <1>2, <1>7
  <1>10. PageFine(D)'
    BY <1>1, <1>2, <1>8, <1>9 DEF PageFine
  <1> QED BY <1>4, <1>6, <1>10 DEF Missing

\* The page is shown.
LEMMA DigestMisses ==
    ASSUME JobTyped, ~shared, AloneParts, NumInv, WatchTyped, Digests,
           NEW D \in SUBSET Places, Missing(D)
    PROVE  WatchTyped' /\ Missing(D)'
  <1>1. /\ poll = "asks" /\ open = {} /\ batch \subseteq DOMAIN log
        /\ shown' = shown \cup batch /\ after' = Highest(batch) /\ batch' = {}
        /\ poll' = IF job \in Running THEN "waits" ELSE "over"
        /\ UNCHANGED <<open, job, heard>> /\ UNCHANGED <<rec, log, loop, pc, crashes>>
    BY DEF Digests, vars
  <1>2. log \in Seq(Event) /\ Len(log) \in Nat /\ \A i \in 1..Len(log) : log[i].seq \in Nat
    BY LastTyped DEF JobTyped, FilesTyped
  <1>3. batch \subseteq 1..Len(log)
    BY <1>1, <1>2
  <1>4. \A i, j \in 1..Len(log) : i <= j => log[i].seq <= log[j].seq
    BY DEF NumInv, NumbersFine
  \* The last place of the page has its highest number.
  <1>5. ASSUME batch # {}
        PROVE  \E k \in batch : after' = log[k].seq /\ \A j \in batch : j <= k
    <2>1. batch \in SUBSET Nat /\ \A j \in batch : j <= Len(log)
      BY <1>2, <1>3
    <2>2. PICK k \in batch : \A j \in batch : j <= k
      BY <1>2, <1>5, <2>1, Greatest
    <2>3. \A j \in batch : log[j].seq <= log[k].seq
      BY <1>3, <1>4, <2>2
    <2>4. \E n \in {log[i].seq : i \in batch} : \A i \in batch : log[i].seq <= n
      BY <2>3
    <2> DEFINE n == CHOOSE n \in {log[i].seq : i \in batch} : \A i \in batch : log[i].seq <= n
    <2>5. n \in {log[i].seq : i \in batch} /\ \A i \in batch : log[i].seq <= n
      BY <2>4
    <2>6. after' = n
      BY <1>1, <1>5 DEF Highest
    <2> HIDE DEF n
    <2>7. PICK i \in batch : n = log[i].seq
      BY <2>5
    <2>8. n <= log[k].seq /\ log[k].seq <= n /\ n \in Nat /\ log[k].seq \in Nat
      BY <1>2, <1>3, <2>3, <2>5, <2>7
    <2>9. n = log[k].seq
      BY <2>8
    <2> QED BY <2>2, <2>6, <2>9
  <1>6. batch = {} => after' = after
    BY <1>1 DEF Highest
  <1>7. after' \in Nat
    BY <1>2, <1>3, <1>5, <1>6 DEF WatchTyped
  <1>8. WatchTyped'
    BY <1>1, <1>7 DEF WatchTyped
  <1>9. LastSeq' = LastSeq /\ Repeated' = Repeated /\ (Lost' <=> Lost)
    BY <1>1 DEF LastSeq, Repeated, Lost
  <1>10. MayMiss(D)'
    BY <1>1, <1>9 DEF Missing, MayMiss
  <1>11. /\ 1..heard \subseteq shown \cup batch \cup D
         /\ \A i \in 1..Len(log) : i \in batch \cup shown \cup D \/ \A j \in batch : j < i
    BY <1>1 DEF Missing, PageFine
  <1>12. OverFine(D)' /\ PageFine(D)'
    BY <1>1, <1>11 DEF OverFine, PageFine
  <1>13. ASSUME NEW i \in 1..Len(log), ~(log[i].seq > after'), i \notin shown \cup batch \cup D
         PROVE  FALSE
    <2>1. log[i].seq > after
      BY <1>13 DEF Missing, ShownOrAhead
    <2>2. batch # {}
      BY <1>6, <1>13, <2>1
    <2>3. PICK k \in batch : after' = log[k].seq /\ \A j \in batch : j <= k
      BY <1>5, <2>2
    <2>4. k < i /\ k \in 1..Len(log)
      BY <1>3, <1>11, <1>13
    <2>5. i \in 2..Len(log) /\ i - 1 \in 1..Len(log) /\ k <= i - 1 /\ i - 1 <= i
      BY <1>2, <2>4
    <2>6. log[k].seq <= log[i - 1].seq /\ log[i - 1].seq <= log[i].seq /\ ~(log[i].seq > log[k].seq)
      BY <1>4, <1>13, <2>3, <2>4, <2>5
    <2>7. log[k].seq \in Nat /\ log[i - 1].seq \in Nat /\ log[i].seq \in Nat
      BY <1>2, <2>4, <2>5
    <2>8. log[i].seq = log[i - 1].seq
      BY <2>6, <2>7
    <2> QED BY <1>13, <2>5, <2>8 DEF Missing, MayMiss, Repeated
  <1>14. rec # NoFile => after' <= LastSeq
    <2>1. CASE batch = {}
      BY <1>6, <2>1 DEF Missing, ShownOrAhead
    <2>2. CASE batch # {}
      <3>1. PICK k \in batch : after' = log[k].seq
        BY <1>5, <2>2
      <3>2. k \in 1..Len(log) /\ Len(log) \in 1..Len(log) /\ k <= Len(log) /\ log # <<>>
        BY <1>2, <1>3
      <3> QED BY <1>4, <3>1, <3>2 DEF LastSeq
    <2> QED BY <2>1, <2>2
  <1>15. ShownOrAhead(D)'
    BY <1>1, <1>9, <1>13, <1>14 DEF ShownOrAhead
  <1> QED BY <1>8, <1>10, <1>12, <1>15 DEF Missing

\* The watcher asks, hears the record's status, or fails.
LEMMA AskingMisses ==
    ASSUME JobTyped, WatchTyped, Asks \/ RecordComes \/ \E again \in BOOLEAN : PollFails(again),
           NEW D \in SUBSET Places, Missing(D)
    PROVE  WatchTyped' /\ Missing(D)'
  <1>1. UNCHANGED <<rec, log, loop, pc, crashes, batch, after, shown, heard>>
    BY DEF Asks, RecordComes, PollFails, Answers, vars
  <1>2. LastSeq' = LastSeq /\ Repeated' = Repeated /\ (Lost' <=> Lost)
    BY <1>1 DEF LastSeq, Repeated, Lost
  <1>3. MayMiss(D)' /\ ShownOrAhead(D)'
    BY <1>1, <1>2 DEF Missing, MayMiss, ShownOrAhead
  <1>4. ASSUME poll' # "over" \/ poll' = poll,
               \/ poll' # "asks" \/ "events" \in open'
               \/ poll' = poll /\ ("events" \in open' <=> "events" \in open)
        PROVE  Missing(D)'
    BY <1>1, <1>3, <1>4 DEF Missing, PageFine, OverFine
  <1>5. CASE Asks
    <2>1. poll' = "asks" /\ open' = {"record", "events"} /\ job' = job
      BY <1>5 DEF Asks
    <2>2. WatchTyped'
      BY <1>1, <2>1 DEF WatchTyped
    <2> QED BY <1>4, <2>1, <2>2
  <1>6. CASE RecordComes
    <2>1. poll' = poll /\ open' = open \ {"record"} /\ job' = rec.status /\ rec \in Record /\ "record" \in open
      BY <1>6 DEF RecordComes, Answers, JobTyped, FilesTyped
    <2>2. rec.status \in Running \cup Terminal
      BY <2>1 DEF Record
    <2>3. WatchTyped'
      BY <1>1, <2>1, <2>2 DEF WatchTyped
    <2> QED BY <1>4, <2>1, <2>3
  <1>7. CASE \E again \in BOOLEAN : PollFails(again)
    <2>1. open' = {} /\ poll' \in {"waits", "gave up"} /\ job' = job
      BY <1>7 DEF PollFails
    <2>2. WatchTyped'
      BY <1>1, <2>1 DEF WatchTyped
    <2> QED BY <1>4, <2>1, <2>2
  <1> QED BY <1>5, <1>6, <1>7

LEMMA WatchSteps ==
    ASSUME JobTyped, AloneInv, NumInv, WatchInv, [WatchNext]_<<vars, watch>>
    PROVE  WatchInv'
  <1>1. [Next]_vars
    BY DEF WatchNext, WatchStep, Asks, RecordComes, EventsCome, PollFails, Digests
  <1>2. shared' <=> shared
    BY <1>1, CompanyKept DEF shared
  <1>3. CASE UNCHANGED watch
    <2>1. WatchTyped'
      BY <1>3 DEF watch, WatchTyped, WatchInv
    <2>2. CASE shared
      BY <1>2, <1>3, <2>1, <2>2 DEF watch, WatchInv
    <2>3. CASE ~shared
      <3>1. PICK D \in SUBSET Places : Missing(D)
        BY <2>3 DEF WatchInv
      <3>2. AloneParts /\ WatchTyped
        BY <2>3 DEF AloneInv, AloneParts, WatchInv
      <3>3. \E E \in SUBSET Places : Missing(E)'
        BY <1>1, <1>3, <2>3, <3>1, <3>2, JobStepMisses
      <3> QED BY <1>2, <2>1, <2>3, <3>3 DEF WatchInv
    <2> QED BY <2>2, <2>3
  <1>4. CASE WatchStep
    <2>1. ~shared
      BY <1>4 DEF WatchInv, WatchStep, Asks, RecordComes, EventsCome, Answers, PollFails, Digests
    <2>2. PICK D \in SUBSET Places : Missing(D)
      BY <2>1 DEF WatchInv
    <2>3. AloneParts /\ WatchTyped
      BY <2>1 DEF AloneInv, AloneParts, WatchInv
    <2>4. WatchTyped' /\ Missing(D)'
      BY <1>4, <2>1, <2>2, <2>3, AskingMisses, EventsMissed, DigestMisses DEF WatchStep
    <2> QED BY <1>2, <2>1, <2>4 DEF WatchInv
  <1> QED BY <1>3, <1>4 DEF WatchNext

LEMMA WatchIsJob == WatchSpec => Spec
  <1>1. WatchInit => Init
    BY DEF WatchInit
  <1>2. [WatchNext]_<<vars, watch>> => [Next]_vars
    BY DEF WatchNext, WatchStep, Asks, RecordComes, EventsCome, PollFails, Digests
  <1> QED BY <1>1, <1>2, PTL DEF WatchSpec, Spec

\* All that holds of the job, and what a watcher may have missed of its log.
THEOREM WatchAlways == WatchSpec => [](JobTyped /\ AloneInv /\ NumInv /\ WatchInv)
  <1> DEFINE I == JobTyped /\ AloneInv /\ NumInv
  <1>1. WatchSpec => []I
    BY WatchIsJob, NumAlways, PTL
  <1>2. WatchInit => WatchInv
    BY WatchInits
  <1>3. I /\ WatchInv /\ [WatchNext]_<<vars, watch>> => WatchInv'
    BY WatchSteps
  <1> HIDE DEF I
  <1>4. WatchSpec => [](I /\ WatchInv)
    BY <1>1, <1>2, <1>3, PTL DEF WatchSpec
  <1> QED BY <1>4, PTL DEF I

\* Every variable of the job and of its watcher stays in its type; the places a page or the
\* screen speaks of are within the events a job can log.
THEOREM WatchTypeCorrect == WatchSpec => []WatchTypeOK
  <1>1. JobTyped /\ WatchInv => WatchTypeOK
    <2> SUFFICES ASSUME JobTyped, WatchInv PROVE WatchTypeOK
      OBVIOUS
    <2>1. TypeOK
      BY TypedIsTypeOK
    <2>2. /\ poll \in {"waits", "asks", "over", "gave up"} /\ open \subseteq {"record", "events"}
          /\ job \in Running \cup Terminal /\ {after, heard} \subseteq Nat
          /\ batch \cup shown \subseteq 1..(MaxEvents + MaxCancels + 2)
      BY DEF WatchInv, WatchTyped, Places
    <2> QED BY <2>1, <2>2, Zenon DEF WatchTypeOK
  <1> QED BY <1>1, WatchAlways, PTL

\* Whatever cancels, stops, deaths and deletions fall between its requests, a watcher that
\* has seen the record over has shown every event down to the end of its last page, but
\* for one at each death of the server.
THEOREM WatcherMissesFew == WatchSpec => []WatcherMisses
  <1>1. JobTyped /\ WatchInv => WatcherMisses
    <2> SUFFICES ASSUME JobTyped, WatchInv, poll = "over"
                 PROVE  Cardinality((1..heard) \ shown) <= crashes
      BY DEF WatcherMisses
    <2>1. PICK D \in SUBSET Places : Missing(D)
      BY DEF WatchInv
    <2>2. (1..heard) \ shown \in SUBSET D
      BY <2>1 DEF Missing, OverFine
    <2>3. IsFiniteSet(D) /\ Cardinality(D) \in Nat /\ crashes \in Nat
      BY PlacesFinite, JobsAssumption DEF JobTyped, CountsTyped
    <2>4. Cardinality(D) <= crashes
      BY <2>1, <2>3 DEF Missing, MayMiss
    <2>5. /\ Cardinality((1..heard) \ shown) <= Cardinality(D)
          /\ IsFiniteSet((1..heard) \ shown)
      BY <2>2, <2>3, FS_Subset
    <2>6. Cardinality((1..heard) \ shown) \in Nat
      BY <2>5, FS_CardinalityType
    <2> QED BY <2>3, <2>4, <2>5, <2>6
  <1> QED BY <1>1, WatchAlways, PTL
=============================================================================
