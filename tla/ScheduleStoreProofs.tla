------------------------ MODULE ScheduleStoreProofs ------------------------
(***************************************************************************)
(* Proofs about ScheduleStore, for any writers, processes, ids, deaths and *)
(* numbers of operations: the types, that saves race only after a death or *)
(* a delay beyond the limits, that no addition is lost before they do, and *)
(* that the file implements ScheduleChanges.                               *)
(***************************************************************************)
EXTENDS ScheduleStore, TLAPS

IsFcn(f) == f = [i \in DOMAIN f |-> f[i]]

Landed == [added : SUBSET Id, removed : SUBSET Id, disabled : SUBSET Id,
           marked : [Id -> Nat], saves : Nat]

\* What TypeOK leaves open: the operations, and that no record has an id never given out.
Typed ==
    /\ TypeOK
    /\ landed \in Landed
    /\ op  = [w \in Writer |-> op[w]]
    /\ mem = [w \in Writer |-> mem[w]]
    /\ IsFcn(disk) /\ \A w \in Writer : IsFcn(mem[w])
    /\ DOMAIN disk \subseteq used
    /\ \A w \in Writer : DOMAIN mem[w] \subseteq used
    /\ \A w \in Writer : Busy(w) => op[w] \in [kind : Kinds, id : Id] /\ op[w].id \in used

Saving(w) == pc[w] \in {"merge", "replace", "unlock"}

\* As long as everybody lives and nobody is late, the lock file is its holder's.
Guarded ==
    late = {} /\ (\A w \in Writer : Live(w)) =>
        /\ ~raced /\ ~stale
        /\ \A w \in Writer : pc[w] # "break" /\ (Saving(w) => fileLock = w)

\* The record the operation of w takes out.
Removing(w) == {j \in {op[w].id} : op[w].kind = "remove"}

\* What a writer has in memory: all it saw when it loaded but for the record it removes,
\* and the one it adds.
Holds(w) ==
    /\ pc[w] = "change" => known[w] = DOMAIN mem[w]
    /\ pc[w] \in {"lock", "break", "merge"} => known[w] \subseteq DOMAIN mem[w] \cup Removing(w)
    /\ pc[w] \in {"lock", "break", "merge", "replace"} /\ op[w].kind = "add"
          => op[w].id \in DOMAIN mem[w]

Base == Typed /\ Guarded /\ \A w \in Writer : Holds(w)

Wanted == landed.added \ landed.removed

\* Up to the first race: a writer about to replace the file has everything that is in it.
Kept ==
    ~raced =>
        /\ Wanted \subseteq DOMAIN disk
        /\ \A v, w \in Writer : pc[v] = "replace" /\ pc[w] = "replace" => v = w
        /\ \A w \in Writer : pc[w] = "replace" => Wanted \subseteq DOMAIN mem[w] \cup Removing(w)

\* What the only operation in progress is about to make of the file: a change of all of
\* it, or, after a load that failed, a record of its own that the merge adds to the rest.
Whole(w) ==
    LET k == op[w].kind
        i == op[w].id
    IN  /\ pc[w] # "unlock" /\ k = "add" => i \notin DOMAIN disk
        /\ pc[w] = "change" => \/ mem[w] = disk /\ known[w] = DOMAIN disk
                               \/ mem[w] = NoRecords /\ known[w] = {}
        /\ pc[w] \in {"lock", "break", "merge"} =>
              \/ /\ k # "add" => i \in DOMAIN disk
                 /\ mem[w] = Changed(disk, k, i) /\ known[w] = DOMAIN disk
              \/ k = "add" /\ mem[w] = Changed(NoRecords, k, i) /\ known[w] = {}
        /\ pc[w] = "replace" => /\ k # "add" => i \in DOMAIN disk
                                /\ mem[w] = Changed(disk, k, i)

\* As long as no operations of two processes have overlapped, there is one at a time.
Alone ==
    ~overlapped =>
        /\ \A v, w \in Writer : Busy(v) /\ Busy(w) => v = w
        /\ \A w \in Writer : Busy(w) => Whole(w)

-----------------------------------------------------------------------------
(* Records                                                                 *)

\* The operations on the records give records again, of the ids one expects.
LEMMA ChangedTyped ==
    ASSUME NEW f, IsStore(f), IsFcn(f), NEW k \in Kinds, NEW i \in Id,
           k # "add" => i \in DOMAIN f
    PROVE  /\ IsStore(Changed(f, k, i)) /\ IsFcn(Changed(f, k, i))
           /\ k = "add" => DOMAIN Changed(f, k, i) = DOMAIN f \cup {i}
           /\ k = "remove" => DOMAIN Changed(f, k, i) = DOMAIN f \ {i}
           /\ k \in {"disable", "mark"} => DOMAIN Changed(f, k, i) = DOMAIN f
  <1> USE DEF IsStore, IsFcn, Record
  <1>1. CASE k = "add"
    BY <1>1 DEF Changed, With, NewRecord
  <1>2. CASE k = "remove"
    BY <1>2 DEF Changed, Without, Restrict
  <1>3. CASE k = "disable"
    BY <1>3 DEF Changed
  <1>4. CASE k = "mark"
    BY <1>4 DEF Changed
  <1> QED BY <1>1, <1>2, <1>3, <1>4 DEF Kinds

LEMMA NoRecordsTyped == IsStore(NoRecords) /\ IsFcn(NoRecords) /\ DOMAIN NoRecords = {}
  BY DEF IsStore, IsFcn, NoRecords

\* What a merge makes of the records in memory.
Merged(m, f, w) == [i \in DOMAIN m \cup Folded(f, w) |-> IF i \in DOMAIN m THEN m[i] ELSE f[i]]

LEMMA MergedTyped ==
    ASSUME NEW w \in Writer, IsStore(mem[w]), NEW f, IsStore(f)
    PROVE  /\ IsStore(Merged(mem[w], f, w)) /\ IsFcn(Merged(mem[w], f, w))
           /\ DOMAIN Merged(mem[w], f, w) = DOMAIN mem[w] \cup Folded(f, w)
  BY DEF Merged, IsStore, IsFcn, Folded

-----------------------------------------------------------------------------
(* Types and the locks                                                     *)

LEMMA InitTyped == Init => Base
  <1> SUFFICES ASSUME Init PROVE Base
    OBVIOUS
  <1> USE StoreAssumption DEF Init
  <1>1. IsStore(disk) /\ IsFcn(disk) /\ DOMAIN disk = Stored
    BY DEF IsStore, IsFcn, Record, NewRecord
  <1>2. \A w \in Writer : pc[w] = "idle" /\ mem[w] = NoRecords
    OBVIOUS
  <1>3. landed \in Landed
    BY DEF Landed
  <1>6. stale \in BOOLEAN /\ late \in SUBSET Writer
    OBVIOUS
  <1>4. Typed
    <2>1. TypeOK
      <3>1. known \in [Writer -> SUBSET Id] /\ locked \in [Writer -> BOOLEAN] /\ used \in SUBSET Id
        OBVIOUS
      <3>2. storeLock \in [Process -> Writer \cup {Free}] /\ begun \in 0..MaxOps
        OBVIOUS
      <3>3. pc \in [Writer -> {"idle", "load", "change", "lock", "break", "merge",
                          "replace", "unlock", "dead"}]
        OBVIOUS
      <3>4. \A w \in Writer : IsStore(mem[w]) /\ ~Busy(w)
        BY <1>2, NoRecordsTyped DEF Busy
      <3> QED BY <1>1, <1>6, <3>1, <3>2, <3>3, <3>4 DEF TypeOK
    <2>2. \A w \in Writer : IsFcn(mem[w]) /\ DOMAIN mem[w] \subseteq used
      BY <1>2, NoRecordsTyped
    <2>3. op = [w \in Writer |-> op[w]] /\ mem = [w \in Writer |-> mem[w]]
      OBVIOUS
    <2>4. \A w \in Writer : ~Busy(w)
      BY <1>2 DEF Busy
    <2> QED BY <1>1, <1>3, <2>1, <2>2, <2>3, <2>4 DEF Typed
  <1>5. Guarded /\ \A w \in Writer : Holds(w)
    BY <1>2 DEF Guarded, Saving, Holds
  <1> QED BY <1>4, <1>5 DEF Base

Places == {"idle", "load", "change", "lock", "break", "merge", "replace", "unlock", "dead"}

\* A step of w changes what is w's at most, and what is everybody's.
OnlyOf(w) ==
    /\ pc' = [pc EXCEPT ![w] = pc'[w]] /\ op' = [op EXCEPT ![w] = op'[w]]
    /\ mem' = [mem EXCEPT ![w] = mem'[w]] /\ known' = [known EXCEPT ![w] = known'[w]]
    /\ locked' = [locked EXCEPT ![w] = locked'[w]]

\* The types after a step of w follow from those of what is w's and everybody's.
LEMMA OwnTyped ==
    ASSUME Typed, NEW w \in Writer, OnlyOf(w),
           pc'[w] \in Places, locked'[w] \in BOOLEAN, known'[w] \in SUBSET Id,
           IsStore(mem'[w]), IsFcn(mem'[w]), DOMAIN mem'[w] \subseteq used',
           IsStore(disk'), IsFcn(disk'), DOMAIN disk' \subseteq used',
           fileLock' \in Writer \cup {Free}, stale' \in BOOLEAN, late' \in SUBSET Writer,
           landed' \in Landed,
           begun' \in 0..MaxOps, used' \in SUBSET Id, used \subseteq used',
           raced' \in BOOLEAN, overlapped' \in BOOLEAN,
           storeLock' \in [Process -> Writer \cup {Free}],
           Busy(w)' => /\ op'[w] \in [kind : Kinds, id : Id] /\ op'[w].id \in used'
                       /\ storeLock'[ProcessOf[w]] = w,
           \A v \in Writer \ {w} : Busy(v) => storeLock'[ProcessOf[v]] = v
    PROVE  Typed'
  <1> USE DEF Typed, OnlyOf
  <1>1. \A v \in Writer \ {w} : /\ pc'[v] = pc[v] /\ op'[v] = op[v] /\ mem'[v] = mem[v]
                               /\ Busy(v)' = Busy(v)
    BY DEF TypeOK, Busy
  <1>2. op' = [v \in Writer |-> op'[v]] /\ mem' = [v \in Writer |-> mem'[v]]
    OBVIOUS
  <1>3. \A v \in Writer : /\ IsStore(mem'[v]) /\ IsFcn(mem'[v]) /\ DOMAIN mem'[v] \subseteq used'
    BY <1>1 DEF TypeOK
  <1>4. \A v \in Writer : Busy(v)' =>
            /\ op'[v] \in [kind : Kinds, id : Id] /\ op'[v].id \in used'
            /\ storeLock'[ProcessOf[v]] = v
    BY <1>1
  <1>5. /\ pc' \in [Writer -> Places] /\ locked' \in [Writer -> BOOLEAN]
        /\ known' \in [Writer -> SUBSET Id]
    BY DEF TypeOK, Places
  <1>6. TypeOK'
    BY <1>3, <1>4, <1>5 DEF TypeOK, Places
  <1> QED BY <1>2, <1>3, <1>4, <1>6

\* What the others hold they go on to hold.
LEMMA OwnHeld ==
    ASSUME Base, NEW w \in Writer, OnlyOf(w), Holds(w)'
    PROVE  \A v \in Writer : Holds(v)'
  <1>1. \A v \in Writer \ {w} : /\ pc'[v] = pc[v] /\ op'[v] = op[v] /\ mem'[v] = mem[v]
                               /\ known'[v] = known[v]
    BY DEF Base, Typed, TypeOK, OnlyOf
  <1> QED BY <1>1 DEF Base, Holds, Removing

\* Among the living, a step that does not touch the lock keeps it guarded.
LEMMA OwnGuarded ==
    ASSUME Base, NEW w \in Writer, OnlyOf(w), UNCHANGED <<fileLock, stale, late>>, pc[w] # "dead",
           raced' = raced, pc'[w] # "break", Saving(w)' => Saving(w)
    PROVE  Guarded'
  <1>1. \A v \in Writer \ {w} : pc'[v] = pc[v]
    BY DEF Base, Typed, TypeOK, OnlyOf
  <1> QED BY <1>1 DEF Base, Guarded, Saving, Live

LEMMA BeginOK ==
    ASSUME Base, NEW w \in Writer, NEW k \in Kinds, NEW i \in Id, Begin(w, k, i)
    PROVE  Base'
  <1> USE DEF Begin, history
  <1>1. OnlyOf(w) /\ pc[w] = "idle" /\ pc'[w] = "load"
    BY DEF Base, Typed, TypeOK, OnlyOf
  <1>2. /\ op'[w] = [kind |-> k, id |-> i] /\ used' = used \cup {i}
        /\ storeLock[ProcessOf[w]] = Free
        /\ storeLock' = [storeLock EXCEPT ![ProcessOf[w]] = w] /\ ProcessOf[w] \in Process
    BY StoreAssumption DEF Base, Typed, StoreLockFree
  <1>3. \A v \in Writer \ {w} : Busy(v) => storeLock'[ProcessOf[v]] = v
    BY <1>2, StoreAssumption DEF Base, Typed, TypeOK
  <1>4. storeLock' \in [Process -> Writer \cup {Free}] /\ storeLock'[ProcessOf[w]] = w
    BY <1>2 DEF Base, Typed, TypeOK
  <1>5. begun' \in 0..MaxOps
    BY StoreAssumption DEF Base, Typed, TypeOK
  <1>6. Typed'
    <2>1. /\ IsStore(mem'[w]) /\ IsFcn(mem'[w]) /\ DOMAIN mem'[w] \subseteq used'
          /\ IsStore(disk') /\ IsFcn(disk') /\ DOMAIN disk' \subseteq used'
          /\ locked'[w] \in BOOLEAN /\ known'[w] \in SUBSET Id /\ landed' \in Landed
          /\ fileLock' \in Writer \cup {Free} /\ used' \in SUBSET Id /\ raced' \in BOOLEAN
          /\ stale' \in BOOLEAN /\ late' \in SUBSET Writer
      BY <1>2 DEF Base, Typed, TypeOK
    <2>2. overlapped' \in BOOLEAN
      BY DEF Base, Typed, TypeOK
    <2> QED BY <1>1, <1>2, <1>3, <1>4, <1>5, <2>1, <2>2, OwnTyped DEF Base, Places
  <1>7. Guarded'
    BY <1>1, OwnGuarded DEF Saving
  <1>8. Holds(w)'
    BY <1>1 DEF Holds
  <1> QED BY <1>1, <1>6, <1>7, <1>8, OwnHeld DEF Base

LEMMA LoadOK ==
    ASSUME Base, NEW w \in Writer, Load(w)
    PROVE  Base'
  <1> USE DEF Load, history
  <1> PICK f \in Contents("load") : /\ mem' = [mem EXCEPT ![w] = f]
                                   /\ known' = [known EXCEPT ![w] = DOMAIN f]
    OBVIOUS
  <1>1. OnlyOf(w) /\ pc[w] = "load" /\ pc'[w] = "change" /\ mem'[w] = f /\ known'[w] = DOMAIN f
    BY DEF Base, Typed, TypeOK, OnlyOf
  <1>2. IsStore(f) /\ IsFcn(f) /\ DOMAIN f \subseteq used /\ DOMAIN f \in SUBSET Id
    <2>1. f = disk \/ f = NoRecords
      BY DEF Contents
    <2> QED BY <2>1, NoRecordsTyped DEF Base, Typed, TypeOK, IsStore
  <1>3. Typed'
    <2>1. Busy(w) /\ \A v \in Writer : Busy(v) => storeLock'[ProcessOf[v]] = v
      BY <1>1 DEF Base, Typed, TypeOK, Busy
    <2> QED BY <1>1, <1>2, <2>1, OwnTyped DEF Base, Typed, TypeOK, Places
  <1>4. Guarded'
    BY <1>1, OwnGuarded DEF Saving
  <1>5. Holds(w)'
    BY <1>1 DEF Holds
  <1> QED BY <1>1, <1>3, <1>4, <1>5, OwnHeld DEF Base

\* The end of an operation gives the STORE_LOCK back.
LEMMA DoneTyped ==
    ASSUME Base, NEW w \in Writer, Done(w), Busy(w), locked' = [locked EXCEPT ![w] = locked'[w]],
           locked'[w] \in BOOLEAN, fileLock' \in Writer \cup {Free},
           stale' \in BOOLEAN, late' \in SUBSET Writer,
           UNCHANGED <<disk, used, begun, history>>
    PROVE  Typed' /\ OnlyOf(w) /\ pc'[w] = "idle"
  <1> USE DEF Done, history
  <1>1. OnlyOf(w) /\ pc'[w] = "idle" /\ mem'[w] = NoRecords /\ known'[w] = {}
    BY DEF Base, Typed, TypeOK, OnlyOf
  <1>2. ProcessOf[w] \in Process /\ storeLock[ProcessOf[w]] = w
    BY StoreAssumption DEF Base, Typed, TypeOK
  <1>3. storeLock' \in [Process -> Writer \cup {Free}]
    BY <1>2 DEF Base, Typed, TypeOK
  <1>4. \A v \in Writer \ {w} : Busy(v) => storeLock'[ProcessOf[v]] = v
    BY <1>2, StoreAssumption DEF Base, Typed, TypeOK
  <1>5. ~Busy(w)'
    BY <1>1 DEF Busy
  <1>6. /\ IsStore(mem'[w]) /\ IsFcn(mem'[w]) /\ DOMAIN mem'[w] \subseteq used'
    BY <1>1, NoRecordsTyped
  <1>7. Typed'
    BY <1>1, <1>3, <1>4, <1>5, <1>6, OwnTyped DEF Base, Typed, TypeOK, Places
  <1> QED BY <1>1, <1>7

LEMMA ChangeOK ==
    ASSUME Base, NEW w \in Writer, Change(w)
    PROVE  Base'
  <1> DEFINE k == op[w].kind
             i == op[w].id
  <1>1. /\ pc[w] = "change" /\ Busy(w) /\ op[w] \in [kind : Kinds, id : Id] /\ i \in used
        /\ UNCHANGED <<disk, fileLock, stale, late, locked, used, begun, history>>
    BY DEF Base, Typed, Busy, Change
  <1>2. CASE Done(w)
    <2>1. locked' = [locked EXCEPT ![w] = locked'[w]] /\ locked'[w] \in BOOLEAN
      BY <1>1 DEF Base, Typed, TypeOK
    <2>2. Typed' /\ OnlyOf(w) /\ pc'[w] = "idle"
      BY <1>1, <1>2, <2>1, DoneTyped DEF Base, Typed, TypeOK
    <2>3. Guarded'
      BY <1>1, <2>2, OwnGuarded DEF Saving, history
    <2>4. Holds(w)'
      BY <2>2 DEF Holds
    <2> QED BY <2>2, <2>3, <2>4, OwnHeld DEF Base
  <1>3. CASE /\ k = "add" \/ i \in DOMAIN mem[w]
             /\ mem' = [mem EXCEPT ![w] = Changed(@, k, i)]
             /\ pc'  = [pc EXCEPT ![w] = "lock"]
             /\ UNCHANGED <<storeLock, op, known>>
    <2>1. OnlyOf(w) /\ pc'[w] = "lock" /\ mem'[w] = Changed(mem[w], k, i)
      BY <1>1, <1>3 DEF Base, Typed, TypeOK, OnlyOf
    <2>2. /\ IsStore(mem'[w]) /\ IsFcn(mem'[w])
          /\ k = "add" => DOMAIN mem'[w] = DOMAIN mem[w] \cup {i}
          /\ k = "remove" => DOMAIN mem'[w] = DOMAIN mem[w] \ {i}
          /\ k \in {"disable", "mark"} => DOMAIN mem'[w] = DOMAIN mem[w]
      <3>1. IsStore(mem[w]) /\ IsFcn(mem[w]) /\ k \in Kinds /\ i \in Id
        BY <1>1 DEF Base, Typed, TypeOK
      <3>2. k # "add" => i \in DOMAIN mem[w]
        BY <1>3
      <3> HIDE DEF k, i
      <3> QED BY <2>1, <3>1, <3>2, ChangedTyped
    <2>3. DOMAIN mem'[w] \subseteq used'
      BY <1>1, <2>2 DEF Base, Typed, Kinds
    <2>4. \A v \in Writer : Busy(v) => storeLock'[ProcessOf[v]] = v
      BY <1>3 DEF Base, Typed, TypeOK
    <2>5. Typed'
      BY <1>1, <1>3, <2>1, <2>2, <2>3, <2>4, OwnTyped DEF Base, Typed, TypeOK, Places, history
    <2>6. Guarded'
      BY <1>1, <1>3, <2>1, OwnGuarded DEF Saving, history
    <2>7. Holds(w)'
      <3>1. known[w] = DOMAIN mem[w] /\ known'[w] = known[w] /\ op'[w] = op[w]
        BY <1>1, <1>3 DEF Base, Holds
      <3>2. k \in Kinds
        BY <1>1
      <3> QED BY <2>1, <2>2, <3>1, <3>2 DEF Holds, Removing, Kinds
    <2> QED BY <2>1, <2>5, <2>6, <2>7, OwnHeld DEF Base
  <1> QED BY <1>2, <1>3 DEF Change

\* A step that moves w along, and changes its memory or the file, keeps the types.
LEMMA MovesTyped ==
    ASSUME Base, NEW w \in Writer, Busy(w), OnlyOf(w), pc'[w] \in Places,
           UNCHANGED <<storeLock, op, known, used, begun, overlapped>>,
           locked'[w] \in BOOLEAN, fileLock' \in Writer \cup {Free}, raced' \in BOOLEAN,
           stale' \in BOOLEAN, late' \in SUBSET Writer,
           IsStore(mem'[w]), IsFcn(mem'[w]), DOMAIN mem'[w] \subseteq used,
           IsStore(disk'), IsFcn(disk'), DOMAIN disk' \subseteq used, landed' \in Landed
    PROVE  Typed'
  <1>1. \A v \in Writer : Busy(v) => storeLock'[ProcessOf[v]] = v
    BY DEF Base, Typed, TypeOK
  <1>2. op'[w] \in [kind : Kinds, id : Id] /\ op'[w].id \in used'
    BY DEF Base, Typed
  <1>3. /\ known'[w] \in SUBSET Id /\ begun' \in 0..MaxOps /\ used' \in SUBSET Id
        /\ overlapped' \in BOOLEAN /\ storeLock' \in [Process -> Writer \cup {Free}]
    BY DEF Base, Typed, TypeOK
  <1> QED BY <1>1, <1>2, <1>3, OwnTyped DEF Base

LEMMA LockStepsOK ==
    ASSUME Base, NEW w \in Writer,
           TakeFileLock(w) \/ FindStale(w) \/ BreakLock(w) \/ BreakFails(w) \/ SaveUnlocked(w)
    PROVE  Base'
  <1> USE DEF TakeFileLock, FindStale, BreakLock, BreakFails, SaveUnlocked, history
  <1>1. /\ OnlyOf(w) /\ pc[w] \in {"lock", "break"} /\ pc'[w] \in {"merge", "break", "lock"}
        /\ UNCHANGED <<disk, storeLock, op, mem, known, used, begun, history>>
        /\ locked'[w] \in BOOLEAN /\ fileLock' \in Writer \cup {Free}
        /\ stale' \in BOOLEAN /\ late' = late
    BY DEF Base, Typed, TypeOK, OnlyOf
  <1>2. Typed'
    <2>1. Busy(w) /\ pc'[w] \in Places
      BY <1>1 DEF Busy, Places
    <2> QED BY <1>1, <2>1, MovesTyped DEF Base, Typed, TypeOK
  <1>3. Guarded'
    <2>1. SUFFICES ASSUME late' = {}, \A v \in Writer : Live(v)' PROVE Guarded'
      BY DEF Guarded
    <2>2. \A v \in Writer \ {w} : pc'[v] = pc[v]
      BY <1>1 DEF Base, Typed, TypeOK, OnlyOf
    <2>3. \A v \in Writer : Live(v)
      BY <1>1, <2>1, <2>2 DEF Live
    <2>4. ~raced /\ ~stale /\ \A v \in Writer : pc[v] # "break" /\ (Saving(v) => fileLock = v)
      BY <1>1, <2>1, <2>3 DEF Base, Guarded
    <2>5. ~TimedOut(w)
      BY <1>1, <2>1, <2>3 DEF TimedOut, LeftBehind, Base, Typed, TypeOK
    <2>6. TakeFileLock(w)
      BY <2>4, <2>5
    <2>9. stale' = FALSE
      BY <2>6
    <2>7. \A v \in Writer : ~Saving(v)
      BY <2>4, <2>6, StoreAssumption DEF NoFileLock
    <2>8. \A v \in Writer : pc'[v] # "break" /\ (Saving(v)' => fileLock' = v)
      BY <2>2, <2>4, <2>6, <2>7 DEF Saving, Base, Typed, TypeOK
    <2> QED BY <1>1, <2>4, <2>8, <2>9 DEF Guarded
  <1>4. Holds(w)'
    BY <1>1 DEF Base, Holds, Removing
  <1> QED BY <1>1, <1>2, <1>3, <1>4, OwnHeld DEF Base

LEMMA MergeOK ==
    ASSUME Base, NEW w \in Writer, Merge(w)
    PROVE  Base'
  <1> USE DEF Merge
  <1>1. PICK f \in Contents("merge") : mem' = [mem EXCEPT ![w] = Merged(@, f, w)]
    BY DEF Merged
  <1>2. OnlyOf(w) /\ pc[w] = "merge" /\ pc'[w] = "replace" /\ mem'[w] = Merged(mem[w], f, w)
    BY <1>1 DEF Base, Typed, TypeOK, OnlyOf
  <1>3. IsStore(f) /\ DOMAIN f \subseteq used
    <2>1. f = disk \/ f = NoRecords
      BY DEF Contents
    <2> QED BY <2>1, NoRecordsTyped DEF Base, Typed, TypeOK
  <1>4. /\ IsStore(mem'[w]) /\ IsFcn(mem'[w])
        /\ DOMAIN mem'[w] = DOMAIN mem[w] \cup Folded(f, w)
    <2>1. IsStore(mem[w])
      BY DEF Base, Typed, TypeOK
    <2> QED BY <1>2, <1>3, <2>1, MergedTyped
  <1>5. Typed'
    <2>1. Busy(w) /\ pc'[w] \in Places /\ DOMAIN mem'[w] \subseteq used
      BY <1>2, <1>3, <1>4 DEF Busy, Places, Base, Typed, Folded
    <2>2. raced' \in BOOLEAN
      BY DEF Base, Typed, TypeOK
    <2> QED BY <1>2, <1>4, <2>1, <2>2, MovesTyped DEF Base, Typed, TypeOK
  <1>6. Guarded'
    <2>1. SUFFICES ASSUME late' = {}, \A v \in Writer : Live(v)' PROVE Guarded'
      BY DEF Guarded
    <2>2. \A v \in Writer \ {w} : pc'[v] = pc[v]
      BY <1>2 DEF Base, Typed, TypeOK, OnlyOf
    <2>3. ~raced /\ ~stale /\ \A v \in Writer : pc[v] # "break" /\ (Saving(v) => fileLock = v)
      BY <1>2, <2>1, <2>2 DEF Live, Base, Guarded
    <2>4. ~raced' /\ ~stale'
      BY <1>2, <2>3 DEF Saving
    <2>5. \A v \in Writer : pc'[v] # "break" /\ (Saving(v)' => fileLock' = v)
      BY <1>2, <2>2, <2>3 DEF Saving
    <2> QED BY <2>4, <2>5 DEF Guarded
  <1>7. Holds(w)'
    BY <1>2, <1>4 DEF Base, Holds
  <1> QED BY <1>2, <1>5, <1>6, <1>7, OwnHeld DEF Base

LEMMA LandTyped ==
    ASSUME landed \in Landed, NEW k, NEW i \in Id, Land(k, i)
    PROVE  landed' \in Landed
  <1> DEFINE added    == landed.added \cup {j \in {i} : k = "add"}
             removed  == landed.removed \cup {j \in {i} : k = "remove"}
             disabled == landed.disabled \cup {j \in {i} : k = "disable"}
             marked   == [landed.marked EXCEPT ![i] = IF k = "mark" THEN @ + 1 ELSE @]
  <1>1. /\ added \in SUBSET Id /\ removed \in SUBSET Id /\ disabled \in SUBSET Id
        /\ marked \in [Id -> Nat] /\ landed.saves + 1 \in Nat
    BY DEF Landed
  <1>2. landed' = [added |-> added, removed |-> removed, disabled |-> disabled,
                   marked |-> marked, saves |-> landed.saves + 1]
    BY DEF Land, Landed
  <1> HIDE DEF added, removed, disabled, marked
  <1> QED BY <1>1, <1>2 DEF Landed

LEMMA ReplaceOK ==
    ASSUME Base, NEW w \in Writer, Replace(w)
    PROVE  Base'
  <1> USE DEF Replace
  <1>1. /\ OnlyOf(w) /\ pc[w] = "replace" /\ pc'[w] = "unlock" /\ mem'[w] = mem[w]
        /\ locked'[w] \in BOOLEAN
    BY DEF Base, Typed, TypeOK, OnlyOf
  <1>2. Busy(w) /\ pc'[w] \in Places /\ op[w].id \in Id
    BY <1>1 DEF Busy, Places, Base, Typed
  <1>3. landed' \in Landed
    BY <1>2, LandTyped DEF Base, Typed
  <1>4. Typed'
    BY <1>1, <1>2, <1>3, MovesTyped DEF Base, Typed, TypeOK
  <1>5. Guarded'
    BY <1>1, OwnGuarded DEF Saving
  <1>6. Holds(w)'
    BY <1>1 DEF Holds
  <1> QED BY <1>1, <1>4, <1>5, <1>6, OwnHeld DEF Base

LEMMA ReplaceFailsOK ==
    ASSUME Base, NEW w \in Writer, ReplaceFails(w)
    PROVE  Base'
  <1> USE DEF ReplaceFails, history
  <1>1. /\ OnlyOf(w) /\ pc[w] = "replace" /\ pc'[w] = "unlock" /\ mem'[w] = mem[w]
        /\ locked'[w] \in BOOLEAN
    BY DEF Base, Typed, TypeOK, OnlyOf
  <1>2. Typed'
    <2>1. Busy(w) /\ pc'[w] \in Places
      BY <1>1 DEF Busy, Places
    <2> QED BY <1>1, <2>1, MovesTyped DEF Base, Typed, TypeOK
  <1>3. Guarded'
    BY <1>1, OwnGuarded DEF Saving
  <1>4. Holds(w)'
    BY <1>1 DEF Holds
  <1> QED BY <1>1, <1>2, <1>3, <1>4, OwnHeld DEF Base

\* What passes while nobody steps: a writer gets late, or a file left behind stale.
LEMMA TimeOK ==
    ASSUME Base, GrowsStale \/ \E w \in Writer : Overstay(w)
    PROVE  Base'
  <1> USE DEF GrowsStale, Overstay, history
  <1>1. UNCHANGED <<disk, fileLock, storeLock, pc, op, mem, known, locked, used, begun, history>>
    OBVIOUS
  <1>2. stale' \in BOOLEAN /\ late' \in SUBSET Writer /\ late \subseteq late'
    BY DEF Base, Typed, TypeOK
  <1>3. Typed'
    BY <1>1, <1>2 DEF Base, Typed, TypeOK, Busy, IsFcn, history
  <1>4. Guarded'
    <2>1. SUFFICES ASSUME late' = {}, \A v \in Writer : Live(v)' PROVE FALSE
      BY DEF Guarded
    <2>2. LeftBehind /\ late = {} /\ \A v \in Writer : Live(v)
      BY <1>1, <1>2, <2>1 DEF Live
    <2> QED BY <2>2 DEF LeftBehind, Base, Typed, TypeOK
  <1>5. \A w \in Writer : Holds(w)'
    BY <1>1 DEF Base, Holds, Removing
  <1> QED BY <1>3, <1>4, <1>5 DEF Base

LEMMA UnlockOK ==
    ASSUME Base, NEW w \in Writer, Unlock(w)
    PROVE  Base'
  <1>1. Busy(w) /\ pc[w] = "unlock" /\ locked'[w] \in BOOLEAN
        /\ locked' = [locked EXCEPT ![w] = locked'[w]]
        /\ fileLock' \in Writer \cup {Free} /\ stale' \in BOOLEAN /\ late' \in SUBSET Writer
    BY DEF Unlock, Busy, Base, Typed, TypeOK
  <1>2. Typed' /\ OnlyOf(w) /\ pc'[w] = "idle"
    BY <1>1, DoneTyped DEF Unlock
  <1>3. Guarded'
    <2>1. SUFFICES ASSUME late' = {}, \A v \in Writer : Live(v)' PROVE Guarded'
      BY DEF Guarded
    <2>2. \A v \in Writer \ {w} : pc'[v] = pc[v]
      BY <1>2 DEF Base, Typed, TypeOK, OnlyOf
    <2>5. late = {} /\ (stale => stale')
      <3>1. \/ late = {} /\ stale' = (stale /\ ~locked[w])
            \/ late' = late \cup {w}
        BY <2>1 DEF Unlock
      <3>2. late' # late \cup {w}
        BY <2>1
      <3>3. stale = FALSE
        BY <1>1, <2>1, <2>2, <3>1, <3>2 DEF Live, Base, Guarded, Typed, TypeOK
      <3> QED BY <3>1, <3>2, <3>3
    <2>3. ~raced /\ ~stale /\ \A v \in Writer : pc[v] # "break" /\ (Saving(v) => fileLock = v)
      BY <1>1, <2>1, <2>2, <2>5 DEF Live, Base, Guarded
    <2>6. ~stale'
      BY <2>1, <2>3 DEF Unlock
    <2>4. \A v \in Writer : ~Saving(v)'
      BY <1>1, <1>2, <2>2, <2>3 DEF Saving
    <2> QED BY <1>2, <2>2, <2>3, <2>4, <2>6 DEF Guarded, Unlock, history
  <1>4. Holds(w)'
    BY <1>2 DEF Holds
  <1> QED BY <1>2, <1>3, <1>4, OwnHeld DEF Base

LEMMA CrashOK ==
    ASSUME Base, NEW p \in Process, Crash(p)
    PROVE  Base'
  <1> USE DEF Crash, history
  <1>1. \A w \in Writer : pc'[w] = pc[w] \/ pc'[w] = "dead"
    OBVIOUS
  <1>2. pc' \in [Writer -> Places]
    BY DEF Base, Typed, TypeOK, Places
  <1>3. \A w \in Writer : Busy(w)' => Busy(w)
    BY <1>1 DEF Busy
  <1>4. TypeOK'
    BY <1>2, <1>3 DEF Base, Typed, TypeOK, Places
  <1>5. Typed'
    BY <1>3, <1>4 DEF Base, Typed
  <1>6. Guarded'
    BY DEF Guarded, Live
  <1>7. \A w \in Writer : Holds(w)'
    BY <1>1 DEF Base, Holds, Removing
  <1> QED BY <1>5, <1>6, <1>7 DEF Base

LEMMA BaseStep == Base /\ [Next]_vars => Base'
  <1> SUFFICES ASSUME Base, [Next]_vars PROVE Base'
    OBVIOUS
  <1>1. ASSUME NEW w \in Writer, Step(w)
        PROVE  Base'
    BY <1>1, LoadOK, ChangeOK, LockStepsOK, MergeOK, ReplaceOK, ReplaceFailsOK, UnlockOK DEF Step
  <1>2. CASE UNCHANGED vars
    BY <1>2 DEF vars, Base, Typed, TypeOK, Busy, Guarded, Live, Saving, Holds, Removing, IsFcn
  <1> QED BY <1>1, <1>2, BeginOK, CrashOK, TimeOK DEF Next

\* The types, and the lock file among the living.
THEOREM BaseAlways == Spec => []Base
  BY InitTyped, BaseStep, PTL DEF Spec

\* Every variable stays in its type, and each operation holds the STORE_LOCK of its
\* process to its end.
THEOREM TypeCorrect == Spec => []TypeOK
  BY BaseAlways, PTL DEF Base, Typed

\* Whatever the writers do, and whichever loads, replacements and removals fail: two
\* saves meet only after a death, or after a limit has run out for a writer that lives.
THEOREM RacesNeedDelay == Spec => []RaceNeedsDelay
  <1>1. Base => RaceNeedsDelay
    BY DEF Base, Guarded, RaceNeedsDelay
  <1> QED BY BaseAlways, <1>1, PTL

-----------------------------------------------------------------------------
(* No addition is lost                                                     *)

\* A step that neither touches the file nor brings anybody to its replacing.
LEMMA KeptBeside ==
    ASSUME Kept, UNCHANGED <<disk, landed, raced>>,
           \A v \in Writer : pc'[v] = "replace" =>
               pc[v] = "replace" /\ mem'[v] = mem[v] /\ op'[v] = op[v]
    PROVE  Kept'
  BY DEF Kept, Wanted, Removing

LEMMA KeptMerge ==
    ASSUME "merge" \notin ReadMayFail, Base, Kept, NEW w \in Writer, Merge(w)
    PROVE  Kept'
  <1> USE DEF Merge
  <1>1. mem' = [mem EXCEPT ![w] = Merged(@, disk, w)]
    BY DEF Merged, Contents
  <1>2. /\ pc[w] = "merge" /\ op' = op /\ mem'[w] = Merged(mem[w], disk, w)
        /\ DOMAIN mem'[w] = DOMAIN mem[w] \cup Folded(disk, w)
        /\ \A v \in Writer \ {w} : pc'[v] = pc[v]
    BY <1>1 DEF Base, Typed, TypeOK, Merged
  <1>3. DOMAIN disk \subseteq DOMAIN mem'[w] \cup Removing(w)
    BY <1>2 DEF Base, Holds, Folded
  <1>4. SUFFICES ASSUME ~raced' PROVE Kept'
    BY DEF Kept
  <1>5. ~raced /\ \A v \in Writer : pc'[v] = "replace" => v = w
    BY <1>2, <1>4
  <1> QED BY <1>2, <1>3, <1>5 DEF Kept, Wanted, Removing

LEMMA KeptReplace ==
    ASSUME Base, Kept, NEW w \in Writer, Replace(w)
    PROVE  Kept'
  <1> USE DEF Replace
  <1>1. /\ pc[w] = "replace" /\ pc'[w] = "unlock" /\ disk' = mem[w] /\ op' = op /\ mem' = mem
        /\ \A v \in Writer \ {w} : pc'[v] = pc[v]
    BY DEF Base, Typed, TypeOK
  <1>2. /\ landed'.added = landed.added \cup {j \in {op[w].id} : op[w].kind = "add"}
        /\ landed'.removed = landed.removed \cup Removing(w)
    BY DEF Land, Landed, Base, Typed, Removing
  <1>3. SUFFICES ASSUME ~raced' PROVE Kept'
    BY DEF Kept
  <1>4. ~raced /\ \A v \in Writer : pc'[v] # "replace"
    BY <1>1, <1>3 DEF Kept
  <1>5. Wanted \subseteq DOMAIN mem[w] \cup Removing(w)
    BY <1>1, <1>4 DEF Kept
  <1>6. op[w].kind = "add" => op[w].id \in DOMAIN mem[w]
    BY <1>1 DEF Base, Holds
  <1>7. Wanted' \subseteq DOMAIN disk'
    BY <1>1, <1>2, <1>5, <1>6 DEF Wanted
  <1> QED BY <1>4, <1>7 DEF Kept

LEMMA KeptStep ==
    ASSUME "merge" \notin ReadMayFail
    PROVE  Base /\ Kept /\ [Next]_vars => Kept'
  <1> SUFFICES ASSUME Base, Kept, [Next]_vars PROVE Kept'
    OBVIOUS
  <1> USE DEF Base, Typed, TypeOK, history
  <1>1. ASSUME NEW w \in Writer, NEW k \in Kinds, NEW i \in Id, Begin(w, k, i)
        PROVE  Kept'
    BY <1>1, KeptBeside DEF Begin
  <1>2. ASSUME NEW w \in Writer, Load(w)
        PROVE  Kept'
    <2> PICK f \in Contents("load") : mem' = [mem EXCEPT ![w] = f]
      BY <1>2 DEF Load
    <2> QED BY <1>2, KeptBeside DEF Load
  <1>3. ASSUME NEW w \in Writer, Change(w)
        PROVE  Kept'
    BY <1>3, KeptBeside DEF Change, Done
  <1>4. ASSUME NEW w \in Writer,
               TakeFileLock(w) \/ FindStale(w) \/ BreakLock(w) \/ BreakFails(w) \/ SaveUnlocked(w)
        PROVE  Kept'
    BY <1>4, KeptBeside DEF TakeFileLock, FindStale, BreakLock, BreakFails, SaveUnlocked
  <1>5. ASSUME NEW w \in Writer, Unlock(w)
        PROVE  Kept'
    BY <1>5, KeptBeside DEF Unlock, Done
  <1>6. ASSUME NEW p \in Process, Crash(p)
        PROVE  Kept'
    BY <1>6, KeptBeside DEF Crash
  <1>7. CASE UNCHANGED vars
    BY <1>7, KeptBeside DEF vars
  <1>8. ASSUME NEW w \in Writer, ReplaceFails(w)
        PROVE  Kept'
    BY <1>8, KeptBeside DEF ReplaceFails
  <1>9. CASE GrowsStale \/ \E w \in Writer : Overstay(w)
    BY <1>9, KeptBeside DEF GrowsStale, Overstay
  <1> QED BY <1>1, <1>2, <1>3, <1>4, <1>5, <1>6, <1>7, <1>8, <1>9, KeptMerge, KeptReplace DEF Next, Step

\* Where the re-read before a save does not fail, an added record stays in the file until
\* somebody removes it or two saves have raced: whoever saves beside, whichever loads
\* fail, and whoever dies (_save).
THEOREM AdditionsStay ==
    ASSUME "merge" \notin ReadMayFail
    PROVE  Spec => []AddsKept
  <1>1. Init => Kept
    BY DEF Init, Kept, Wanted
  <1>2. Base /\ Kept /\ [Next]_vars => Kept'
    BY KeptStep
  <1>3. Kept => AddsKept
    BY DEF Kept, AddsKept, Wanted
  <1> QED BY <1>1, <1>2, <1>3, BaseAlways, PTL DEF Spec

-----------------------------------------------------------------------------
(* The refinement of ScheduleChanges                                       *)

\* What nobody else is in the middle of stays true when one steps and the others stay out.
LEMMA AloneBeside ==
    ASSUME Base, Alone, NEW w \in Writer, Busy(w), OnlyOf(w), overlapped' = overlapped,
           ~overlapped /\ Whole(w) => (Busy(w)' => Whole(w)')
    PROVE  Alone'
  <1>1. SUFFICES ASSUME ~overlapped' PROVE Alone'
    BY DEF Alone
  <1>2. \A v \in Writer : Busy(v)' => v = w
    BY <1>1 DEF Alone, Busy, OnlyOf, Base, Typed, TypeOK
  <1>3. Busy(w)' => Whole(w)'
    BY <1>1 DEF Alone
  <1> QED BY <1>2, <1>3 DEF Alone

LEMMA AloneBegin ==
    ASSUME Base, Alone, NEW w \in Writer, NEW k \in Kinds, NEW i \in Id, Begin(w, k, i)
    PROVE  Alone'
  <1> USE DEF Begin
  <1>1. SUFFICES ASSUME ~overlapped' PROVE Alone'
    BY DEF Alone
  <1>2. /\ ~overlapped /\ pc'[w] = "load" /\ op'[w] = [kind |-> k, id |-> i]
        /\ \A v \in Writer \ {w} : pc'[v] = pc[v]
    BY <1>1 DEF Base, Typed, TypeOK
  <1>3. \A v \in Writer \ {w} : ~Busy(v)
    BY <1>1, StoreAssumption DEF Base, Typed, TypeOK, StoreLockFree
  <1>4. \A v \in Writer : Busy(v)' => v = w
    BY <1>2, <1>3 DEF Busy
  <1>5. Whole(w)'
    BY <1>2 DEF Whole, Base, Typed
  <1> QED BY <1>4, <1>5 DEF Alone

LEMMA AloneLoad ==
    ASSUME Base, Alone, NEW w \in Writer, Load(w)
    PROVE  Alone'
  <1> PICK f \in Contents("load") : /\ mem' = [mem EXCEPT ![w] = f]
                                   /\ known' = [known EXCEPT ![w] = DOMAIN f]
    BY DEF Load
  <1>1. /\ OnlyOf(w) /\ pc[w] = "load" /\ pc'[w] = "change" /\ mem'[w] = f /\ known'[w] = DOMAIN f
        /\ disk' = disk /\ op' = op /\ Busy(w) /\ overlapped' = overlapped
    BY DEF Base, Typed, TypeOK, OnlyOf, Load, history, Busy
  <1>2. f = disk \/ (f = NoRecords /\ DOMAIN f = {})
    BY NoRecordsTyped DEF Contents
  <1>3. Whole(w) => Whole(w)'
    BY <1>1, <1>2 DEF Whole
  <1> QED BY <1>1, <1>3, AloneBeside

LEMMA AloneChange ==
    ASSUME Base, Alone, NEW w \in Writer, Change(w)
    PROVE  Alone'
  <1>1. /\ pc[w] = "change" /\ Busy(w) /\ op[w] \in [kind : Kinds, id : Id]
        /\ UNCHANGED <<disk, fileLock, stale, late, locked, used, begun, history>>
    BY DEF Base, Typed, Busy, Change
  <1>2. CASE Done(w)
    <2>1. OnlyOf(w) /\ ~Busy(w)'
      BY <1>1, <1>2 DEF Base, Typed, TypeOK, OnlyOf, Done, Busy
    <2> QED BY <1>1, <2>1, AloneBeside DEF history
  <1>3. CASE ~Done(w)
    <2> DEFINE k == op[w].kind
               i == op[w].id
    <2>1. /\ k # "add" => i \in DOMAIN mem[w]
          /\ mem' = [mem EXCEPT ![w] = Changed(@, k, i)]
          /\ pc'  = [pc EXCEPT ![w] = "lock"] /\ UNCHANGED <<op, known>>
      BY <1>3 DEF Change
    <2>2. OnlyOf(w) /\ pc'[w] = "lock" /\ mem'[w] = Changed(mem[w], k, i) /\ known'[w] = known[w]
          /\ op'[w] = op[w]
      BY <1>1, <2>1 DEF Base, Typed, TypeOK, OnlyOf
    <2>3. k \in Kinds
      BY <1>1
    <2>4. ASSUME Whole(w)
          PROVE  Whole(w)'
      <3>1. k = "add" => i \notin DOMAIN disk
        BY <1>1, <2>4 DEF Whole
      <3>2. CASE mem[w] = disk /\ known[w] = DOMAIN disk
        BY <1>1, <2>1, <2>2, <3>1, <3>2 DEF Whole
      <3>3. CASE mem[w] = NoRecords /\ known[w] = {}
        BY <1>1, <2>1, <2>2, <3>1, <3>3, NoRecordsTyped DEF Whole
      <3> QED BY <1>1, <2>4, <3>2, <3>3 DEF Whole
    <2> QED BY <1>1, <2>2, <2>4, AloneBeside DEF history
  <1> QED BY <1>2, <1>3

\* A merge makes a whole change of what is in memory.
LEMMA MergedWhole ==
    ASSUME Base, NEW w \in Writer, pc[w] = "merge", Whole(w)
    PROVE  /\ Merged(mem[w], disk, w) = Changed(disk, op[w].kind, op[w].id)
           /\ op[w].kind # "add" => op[w].id \in DOMAIN disk
  <1> DEFINE k == op[w].kind
             i == op[w].id
  <1>1. IsFcn(mem[w]) /\ IsFcn(disk)
    BY DEF Base, Typed
  <1>2. k = "add" => i \notin DOMAIN disk
    BY DEF Whole
  <1>3. CASE /\ k # "add" => i \in DOMAIN disk
             /\ mem[w] = Changed(disk, k, i) /\ known[w] = DOMAIN disk
    <2>1. Folded(disk, w) = {}
      BY <1>3 DEF Folded
    <2>2. Merged(mem[w], disk, w) = mem[w]
      BY <1>1, <2>1 DEF Merged, IsFcn
    <2> QED BY <1>3, <2>2
  <1>4. CASE k = "add" /\ mem[w] = Changed(NoRecords, k, i) /\ known[w] = {}
    <2>1. DOMAIN mem[w] = {i} /\ mem[w][i] = NewRecord
      BY <1>4 DEF Changed, With, NoRecords
    <2>2. Folded(disk, w) = DOMAIN disk
      BY <1>2, <1>4, <2>1 DEF Folded
    <2>3. Merged(mem[w], disk, w)
            = [j \in DOMAIN disk \cup {i} |-> IF j = i THEN NewRecord ELSE disk[j]]
      BY <2>1, <2>2 DEF Merged
    <2> QED BY <1>4, <2>3 DEF Changed, With
  <1> QED BY <1>3, <1>4 DEF Whole

LEMMA AloneStep ==
    ASSUME "merge" \notin ReadMayFail
    PROVE  Base /\ Alone /\ [Next]_vars => Alone'
  <1> SUFFICES ASSUME Base, Alone, [Next]_vars PROVE Alone'
    OBVIOUS
  <1> USE DEF history
  <1>1. ASSUME NEW w \in Writer,
               TakeFileLock(w) \/ FindStale(w) \/ BreakLock(w) \/ BreakFails(w) \/ SaveUnlocked(w)
        PROVE  Alone'
    <2> USE <1>1 DEF TakeFileLock, FindStale, BreakLock, BreakFails, SaveUnlocked
    <2>1. /\ OnlyOf(w) /\ pc[w] \in {"lock", "break"} /\ pc'[w] \in {"merge", "break", "lock"}
          /\ UNCHANGED <<disk, op, mem, known, overlapped>>
      BY DEF Base, Typed, TypeOK, OnlyOf
    <2>2. Whole(w) => Whole(w)'
      BY <2>1 DEF Whole
    <2> QED BY <2>1, <2>2, AloneBeside DEF Busy
  <1>2. ASSUME NEW w \in Writer, Merge(w)
        PROVE  Alone'
    <2>1. mem' = [mem EXCEPT ![w] = Merged(@, disk, w)]
      BY <1>2 DEF Merge, Merged, Contents
    <2>2. /\ OnlyOf(w) /\ pc[w] = "merge" /\ pc'[w] = "replace"
          /\ mem'[w] = Merged(mem[w], disk, w)
          /\ UNCHANGED <<disk, op, known, overlapped>>
      BY <1>2, <2>1 DEF Base, Typed, TypeOK, OnlyOf, Merge
    <2>3. Whole(w) => Whole(w)'
      BY <2>2, MergedWhole DEF Whole
    <2> QED BY <2>2, <2>3, AloneBeside DEF Busy
  <1>3. ASSUME NEW w \in Writer, Replace(w)
        PROVE  Alone'
    <2>1. OnlyOf(w) /\ pc[w] = "replace" /\ pc'[w] = "unlock" /\ overlapped' = overlapped
      BY <1>3 DEF Base, Typed, TypeOK, OnlyOf, Replace
    <2>2. Whole(w)'
      BY <2>1 DEF Whole
    <2> QED BY <2>1, <2>2, AloneBeside DEF Busy
  <1>4. ASSUME NEW w \in Writer, Unlock(w)
        PROVE  Alone'
    <2>1. OnlyOf(w) /\ Busy(w) /\ ~Busy(w)' /\ overlapped' = overlapped
      BY <1>4 DEF Base, Typed, TypeOK, OnlyOf, Unlock, Done, Busy
    <2> QED BY <2>1, AloneBeside
  <1>5. ASSUME NEW p \in Process, Crash(p)
        PROVE  Alone'
    <2>1. \A w \in Writer : Busy(w)' => Busy(w) /\ pc'[w] = pc[w]
      BY <1>5 DEF Crash, Busy, Base, Typed, TypeOK
    <2>2. UNCHANGED <<disk, op, mem, known, overlapped>>
      BY <1>5 DEF Crash
    <2> QED BY <2>1, <2>2 DEF Alone, Whole
  <1>6. CASE UNCHANGED vars
    BY <1>6 DEF vars, Alone, Whole, Busy
  <1>7. ASSUME NEW w \in Writer, ReplaceFails(w)
        PROVE  Alone'
    <2>1. OnlyOf(w) /\ pc[w] = "replace" /\ pc'[w] = "unlock" /\ overlapped' = overlapped
      BY <1>7 DEF Base, Typed, TypeOK, OnlyOf, ReplaceFails
    <2>2. Whole(w)'
      BY <2>1 DEF Whole
    <2> QED BY <2>1, <2>2, AloneBeside DEF Busy
  <1>8. CASE GrowsStale \/ \E w \in Writer : Overstay(w)
    BY <1>8 DEF GrowsStale, Overstay, Alone, Whole, Busy
  <1> QED BY <1>1, <1>2, <1>3, <1>4, <1>5, <1>6, <1>7, <1>8, AloneBegin, AloneLoad, AloneChange DEF Next, Step

\* A replacing is a change of the abstract store, or comes after an overlap.
LEMMA ReplaceChanges ==
    ASSUME Base, Base', Alone, NEW w \in Writer, Replace(w)
    PROVE  Changes!Next
  <1> DEFINE k == op[w].kind
             i == op[w].id
  <1>1. /\ pc[w] = "replace" /\ disk' = mem[w] /\ overlapped' = overlapped
        /\ landed'.saves = landed.saves + 1 /\ Busy(w) /\ k \in Kinds /\ i \in Id
    BY DEF Replace, Land, Landed, Base, Typed, Busy
  <1>2. CASE overlapped
    <2>1. Changes!IsStore(disk')
      BY DEF Base, Typed, TypeOK, IsStore, Record, Changes!IsStore, Changes!Record
    <2> QED BY <1>1, <1>2, <2>1 DEF Changes!Next, Changes!AfterOverlap
  <1>3. CASE ~overlapped
    <2>1. Whole(w)
      BY <1>1, <1>3 DEF Alone
    <2>2. /\ k = "add" => i \notin DOMAIN disk
          /\ k # "add" => i \in DOMAIN disk
          /\ disk' = Changes!Changed(disk, k, i)
      BY <1>1, <2>1 DEF Whole, Changed, With, Without, Restrict, NewRecord,
            Changes!Changed, Changes!With, Changes!Without, Changes!Restrict, Changes!NewRecord
    <2>3. k = "add" => Changes!Add(i)
      BY <2>2 DEF Changes!Add
    <2>4. k # "add" => k \in Changes!Kinds \ {"add"} /\ Changes!Edit(k, i)
      BY <1>1, <2>2 DEF Changes!Edit, Kinds, Changes!Kinds
    <2> HIDE DEF k, i
    <2> QED BY <1>1, <2>3, <2>4 DEF Changes!Next, Changes!Serial
  <1> QED BY <1>2, <1>3

\* A step that does not touch the file changes nothing or begins the first overlap.
LEMMA OtherChanges ==
    ASSUME Base, UNCHANGED <<disk, landed>>, overlapped => overlapped', overlapped' \in BOOLEAN
    PROVE  Changes!Next \/ UNCHANGED <<disk, landed.saves, overlapped>>
  BY DEF Changes!Next, Changes!Overlap, Base, Typed, TypeOK

LEMMA StepChanges ==
    Base /\ Base' /\ Alone /\ [Next]_vars => [Changes!Next]_<<disk, landed.saves, overlapped>>
  <1> SUFFICES ASSUME Base, Base', Alone, [Next]_vars
               PROVE  Changes!Next \/ UNCHANGED <<disk, landed.saves, overlapped>>
    OBVIOUS
  <1>1. overlapped' \in BOOLEAN
    BY DEF Base, Typed, TypeOK
  <1>2. ASSUME NEW w \in Writer, Step(w), ~Replace(w)
        PROVE  UNCHANGED <<disk, landed, overlapped>>
    BY <1>2 DEF Step, Load, Change, TakeFileLock, FindStale, BreakLock, BreakFails, SaveUnlocked, Merge,
                ReplaceFails, Unlock, history
  <1>3. ASSUME NEW w \in Writer, NEW k \in Kinds, NEW i \in Id, Begin(w, k, i)
        PROVE  UNCHANGED <<disk, landed>> /\ (overlapped => overlapped')
    BY <1>3 DEF Begin
  <1>4. ASSUME NEW p \in Process, Crash(p)
        PROVE  UNCHANGED <<disk, landed, overlapped>>
    BY <1>4 DEF Crash, history
  <1>5. CASE UNCHANGED vars
    BY <1>5 DEF vars
  <1>6. CASE GrowsStale \/ \E w \in Writer : Overstay(w)
    BY <1>6 DEF GrowsStale, Overstay, history
  <1> QED BY <1>1, <1>2, <1>3, <1>4, <1>5, <1>6, ReplaceChanges, OtherChanges DEF Next

\* Where the re-read before a save does not fail, the file of the detailed store is the
\* store of ScheduleChanges: until operations of two processes overlap, every save that
\* replaces it is one whole change, whichever loads fail and whoever dies.
THEOREM StoreImplementsChanges ==
    ASSUME "merge" \notin ReadMayFail
    PROVE  Spec => WholeChanges
  <1>1. Init => Alone
    BY DEF Init, Alone, Busy
  <1>2. Base /\ Alone /\ [Next]_vars => Alone'
    BY AloneStep
  <1>3. Init => Changes!Init
    <2>1. Init => IsStore(disk)
      BY InitTyped DEF Base, Typed, TypeOK
    <2> QED BY <2>1 DEF Init, Changes!Init, IsStore, Record, Changes!IsStore, Changes!Record
  <1> QED BY <1>1, <1>2, <1>3, BaseAlways, StepChanges, PTL DEF Spec, WholeChanges, Changes!Spec
=============================================================================
