------------------------ MODULE ScheduleLockProofs ------------------------
(***************************************************************************)
(* TLAPS proofs about ScheduleLock, for any set of runners, any poll       *)
(* intervals, any staleness factor and any number of missed beats.         *)
(***************************************************************************)
EXTENDS ScheduleLock, TLAPS

\* What a runner puts into the lock file, and no file, are lock files.
LEMMA FilesTyped ==
    /\ NoFile \in LockFiles
    /\ \A r \in Runner : Empty(r) \in LockFiles /\ Record(r) \in LockFiles
BY DEF NoFile, LockFiles, Empty, Record

\* What a finished beat, a missed one and a stand-down leave behind is typed.
LEMMA BeatsTyped ==
    ASSUME NEW r \in Runner, TypeOK
    PROVE  /\ BeatDone(r) => /\ op'   \in [Runner -> Ops]
                             /\ loop' \in [Runner -> Loops]
                             /\ beat' \in [Runner -> Nat]
           /\ MissedBeat(r) => /\ missed' \in [Runner -> 0..MaxMissed]
                               /\ UNCHANGED <<lockFile, held, usurped>>
                               /\ BeatDone(r)
           /\ StandDown(r) => /\ op'   \in [Runner -> Ops]
                              /\ loop' \in [Runner -> Loops]
                              /\ held' \in [Runner -> BOOLEAN]
                              /\ UNCHANGED <<lockFile, beat, missed, usurped>>
<1>1. BeatDone(r) => op' \in [Runner -> Ops] /\ loop' \in [Runner -> Loops]
  BY DEF TypeOK, BeatDone, Ops, Loops
<1>2. BeatDone(r) => beat' \in [Runner -> Nat]
  BY ConstantsAssumption DEF TypeOK, BeatDone
<1>3. MissedBeat(r) => missed' \in [Runner -> 0..MaxMissed]
  BY ConstantsAssumption DEF TypeOK, MissedBeat, CanMiss
<1>4. StandDown(r) => op' \in [Runner -> Ops] /\ loop' \in [Runner -> Loops]
  BY DEF TypeOK, StandDown, Ops, Loops
<1> QED
  BY <1>1, <1>2, <1>3, <1>4 DEF MissedBeat, StandDown, TypeOK

\* Every step keeps the variables in their types (ScheduleLock, run_loop).
LEMMA TypeStep == TypeOK /\ [Next]_vars => TypeOK'
<1> USE ConstantsAssumption, FilesTyped DEF TypeOK, Loops, Ops
<1> SUFFICES ASSUME TypeOK, [Next]_vars PROVE TypeOK'
  OBVIOUS
<1>1. CASE Tick
  <2>1. lockFile' \in LockFiles
    BY <1>1 DEF Tick, Older, LockFiles
  <2> QED
    BY <1>1, <2>1 DEF Tick, Down
<1>2. CASE UNCHANGED vars
  BY <1>2 DEF vars
<1>3. ASSUME NEW r \in Runner,
             Step(r) \/ Start(r) \/ StartRun(r) \/ FinishRun(r)
             \/ Stop(r) \/ Cancel(r) \/ Crash(r) \/ Stall(r) \/ Resume(r)
      PROVE TypeOK'
  <2>1. CASE TryCreate(r)
    BY <2>1 DEF TryCreate
  <2>2. CASE Judge(r)
    BY <2>2 DEF Judge, Refused, CanMiss
  <2>3. CASE TakeOver(r)
    BY <2>3 DEF TakeOver, Acquired, CanMiss
  <2>4. CASE Fill(r)
    <3>1. lockFile' \in LockFiles /\ missed' \in [Runner -> 0..MaxMissed]
      BY <2>4 DEF Fill
    <3>2. CASE held[r]
      BY <2>4, <3>1, <3>2, BeatsTyped DEF Fill
    <3>3. CASE ~held[r]
      <4>1. Acquired(r) /\ UNCHANGED <<wake, stopped, stalled, beatless>>
        BY <2>4, <3>3 DEF Fill
      <4> QED
        BY <4>1, <3>1 DEF Acquired
    <3> QED
      BY <3>2, <3>3
  <2>5. CASE BeatRead(r)
    BY <2>5, BeatsTyped DEF BeatRead
  <2>6. CASE Rewrite(r)
    BY <2>6, BeatsTyped DEF Rewrite
  <2>7. CASE Recreate(r)
    BY <2>7, BeatsTyped DEF Recreate
  <2>8. CASE StopWaiting(r)
    BY <2>8 DEF StopWaiting, Goto
  <2>9. CASE Retry(r)
    BY <2>9 DEF Retry
  <2>10. CASE TopEnds(r)
    BY <2>10 DEF TopEnds, Goto
  <2>11. CASE EndPass(r)
    BY <2>11 DEF EndPass, Goto
  <2>12. CASE WakeUp(r)
    BY <2>12 DEF WakeUp, Goto
  <2>13. CASE ReleaseRead(r)
    BY <2>13 DEF ReleaseRead, CanMiss
  <2>14. CASE Unlink(r)
    BY <2>14 DEF Unlink, CanMiss
  <2>15. CASE Start(r)
    BY <2>15 DEF Start
  <2>16. CASE StartRun(r)
    BY <2>16 DEF StartRun, Goto
  <2>17. CASE FinishRun(r)
    BY <2>17 DEF FinishRun, Goto
  <2>18. CASE Stop(r)
    BY <2>18 DEF Stop
  <2>19. CASE Cancel(r)
    BY <2>19 DEF Cancel, Goto
  <2>20. CASE Crash(r)
    BY <2>20 DEF Crash
  <2>21. CASE Stall(r)
    BY <2>21 DEF Stall
  <2>22. CASE Resume(r)
    BY <2>22 DEF Resume
  <2>23. CASE CreateFails(r)
    BY <2>23 DEF CreateFails
  <2>24. CASE FillFails(r)
    BY <2>24 DEF FillFails, CanMiss
  <2>25. CASE ReleaseSkipped(r)
    BY <2>25 DEF ReleaseSkipped, Goto
  <2> QED
    BY <1>3, <2>1, <2>2, <2>3, <2>4, <2>5, <2>6, <2>7, <2>8, <2>9, <2>10, <2>11, <2>12, <2>13, <2>14, <2>15, <2>16, <2>17, <2>18, <2>19, <2>20, <2>21, <2>22, <2>23, <2>24, <2>25 DEF Step
<1> QED
  BY <1>1, <1>2, <1>3 DEF Next

\* The type invariant holds of every execution.
THEOREM TypeCorrect == Spec => []TypeOK
<1>1. Init => TypeOK
  BY ConstantsAssumption, FilesTyped DEF Init, TypeOK, Loops, Ops
<1> QED
  BY <1>1, TypeStep, PTL DEF Spec

-----------------------------------------------------------------------------
(* The inductive invariant behind BoundedOverlap and LiveHolderReadsLive.  *)

\* The time a runner that has missed n beats may go without a successful one:
\* an interval for each of them, and the one it is in.
Span(n, r) == (n + 1) * Poll[r]

Allowance(r) == Span(missed[r], r)

\* Where a runner's synchronous sections can be while it holds the lock.
HeldShape(r) ==
    /\ held[r] => \/ loop[r] \in {"top", "pass", "run", "sleep", "stopping"}
                  \/ loop[r] = "ended" /\ r \in beatless
    /\ op[r] \in {"create", "judge", "replace"} => loop[r] = "acquire"
    /\ op[r] \in {"rewrite", "recreate"} => held[r] /\ loop[r] \in {"top", "run", "sleep"}
    /\ op[r] = "fill" => IF held[r] THEN loop[r] \in {"top", "run", "sleep"} /\ usurped[r] = 0
                                    ELSE loop[r] = "acquire"
    /\ op[r] = "unlink" => loop[r] = "stopping" /\ ~held[r]
    /\ loop[r] = "pass" => op[r] = "none"
    /\ beat[r] <= Poll[r]
    /\ op[r] \in {"rewrite", "recreate", "fill"} /\ held[r] /\ loop[r] # "top" => beat[r] = 0

\* A runner that has not come past create or replace has no file of its own.
NoFileYet(r) ==
    loop[r] \in {"idle", "waiting"} \/ op[r] \in {"create", "judge", "replace"} => ~Owns(r)

\* The time since the file was this runner's fits into the allowance, unless a
\* failed write killed its side task.
UsurpedInTime(r) == held[r] /\ r \notin beatless => usurped[r] + beat[r] <= Allowance(r)

\* The age of a never suspended holder's record fits into the allowance.
BeatInTime(r) ==
    held[r] /\ Owns(r) /\ lockFile.written /\ r \notin CanStall \cup beatless
        => lockFile.age + beat[r] <= Allowance(r)

LockInv ==
    /\ TypeOK
    /\ stalled \subseteq CanStall
    /\ \A r \in Runner : HeldShape(r) /\ NoFileYet(r) /\ UsurpedInTime(r) /\ BeatInTime(r)

Parts(r) == HeldShape(r) /\ NoFileYet(r) /\ UsurpedInTime(r) /\ BeatInTime(r)

\* A step of one runner, as opposed to the passing of time.
Move(r) ==
    \/ Step(r) \/ Start(r) \/ StartRun(r) \/ FinishRun(r)
    \/ Stop(r) \/ Cancel(r) \/ Crash(r) \/ Stall(r) \/ Resume(r)

\* The arithmetic of the allowance.
LEMMA SpanFacts ==
    ASSUME NEW r \in Runner, NEW n \in Nat
    PROVE  /\ Span(n, r) \in Nat
           /\ Poll[r] \in Nat /\ Poll[r] > 0
           /\ Span(0, r) = Poll[r]
           /\ Span(n + 1, r) = Span(n, r) + Poll[r]
           /\ Poll[r] <= Span(n, r)
           /\ \A m \in Nat : m <= n => Span(m, r) <= Span(n, r)
<1> DEFINE P == Poll[r]
<1>1. P \in Nat /\ P > 0
  BY ConstantsAssumption
<1>2. ASSUME NEW m \in Nat, NEW p \in Nat, m <= n
      PROVE  /\ (n + 1) * p \in Nat
             /\ (0 + 1) * p = p
             /\ (n + 1 + 1) * p = (n + 1) * p + p
             /\ p <= (n + 1) * p
             /\ (m + 1) * p <= (n + 1) * p
  BY <1>2, SMTT(20)
<1> QED
  BY <1>1, <1>2 DEF Span

\* What a step of one runner leaves alone of another.
Unmoved(q) ==
    /\ loop'[q] = loop[q] /\ op'[q] = op[q] /\ held'[q] = held[q]
    /\ beat'[q] = beat[q] /\ missed'[q] = missed[q] /\ usurped'[q] = usurped[q]
    /\ q \in beatless' <=> q \in beatless
    /\ lockFile' = lockFile \/ lockFile'.by # q

LEMMA Frame ==
    ASSUME TypeOK, NEW r \in Runner, Move(r), NEW q \in Runner, q # r
    PROVE  Unmoved(q)
<1> USE ConstantsAssumption DEF Unmoved, TypeOK
<1>1. CASE TryCreate(r)
  BY <1>1 DEF TryCreate, Empty
<1>2. CASE Judge(r)
  BY <1>2 DEF Judge, Refused
<1>3. CASE TakeOver(r)
  BY <1>3 DEF TakeOver, Acquired, Record
<1>4. CASE Fill(r)
  BY <1>4 DEF Fill, BeatDone, Acquired, Record
<1>5. CASE BeatRead(r)
  BY <1>5 DEF BeatRead, MissedBeat, BeatDone, StandDown
<1>6. CASE Rewrite(r)
  BY <1>6 DEF Rewrite, MissedBeat, BeatDone, Record
<1>7. CASE Recreate(r)
  BY <1>7 DEF Recreate, MissedBeat, BeatDone, StandDown, Empty
<1>8. CASE StopWaiting(r)
  BY <1>8 DEF StopWaiting, Goto
<1>9. CASE Retry(r)
  BY <1>9 DEF Retry
<1>10. CASE TopEnds(r)
  BY <1>10 DEF TopEnds, Goto
<1>11. CASE EndPass(r)
  BY <1>11 DEF EndPass, Goto
<1>12. CASE WakeUp(r)
  BY <1>12 DEF WakeUp, Goto
<1>13. CASE ReleaseRead(r)
  BY <1>13 DEF ReleaseRead
<1>14. CASE Unlink(r)
  BY <1>14 DEF Unlink, NoFile
<1>15. CASE Start(r)
  BY <1>15 DEF Start
<1>16. CASE StartRun(r)
  BY <1>16 DEF StartRun, Goto
<1>17. CASE FinishRun(r)
  BY <1>17 DEF FinishRun, Goto
<1>18. CASE Stop(r)
  BY <1>18 DEF Stop
<1>19. CASE Cancel(r)
  BY <1>19 DEF Cancel, Goto
<1>20. CASE Crash(r)
  BY <1>20 DEF Crash
<1>21. CASE Stall(r)
  BY <1>21 DEF Stall
<1>22. CASE Resume(r)
  BY <1>22 DEF Resume
<1>23. CASE CreateFails(r)
  BY <1>23 DEF CreateFails
<1>24. CASE FillFails(r)
  BY <1>24 DEF FillFails
<1>25. CASE ReleaseSkipped(r)
  BY <1>25 DEF ReleaseSkipped, Goto
<1> QED
  BY <1>1, <1>2, <1>3, <1>4, <1>5, <1>6, <1>7, <1>8, <1>9, <1>10, <1>11, <1>12, <1>13, <1>14, <1>15, <1>16, <1>17, <1>18, <1>19, <1>20, <1>21, <1>22, <1>23, <1>24, <1>25 DEF Move, Step

\* So the other runners' parts of the invariant are kept.
LEMMA OthersKept ==
    ASSUME NEW q \in Runner, Parts(q), Unmoved(q)
    PROVE  Parts(q)'
BY DEF Unmoved, Parts, HeldShape, NoFileYet, UsurpedInTime, BeatInTime, Allowance, Owns

\* A missed beat widens the allowance by as much as the side task's next sleep.
LEMMA MissedKept ==
    ASSUME TypeOK, NEW r \in Runner, Parts(r), MissedBeat(r), beatless' = beatless, TypeOK',
           held[r], loop[r] \in {"top", "run", "sleep"},
           loop[r] # "top" => beat[r] = 0
    PROVE  Parts(r)'
<1> USE ConstantsAssumption DEF TypeOK
<1>1. /\ held'[r] /\ op'[r] = "none" /\ missed'[r] = missed[r] + 1 /\ missed[r] \in Nat
      /\ loop'[r] \in {"pass", "run", "sleep"}
      /\ usurped'[r] = usurped[r] /\ lockFile' = lockFile
      /\ beat'[r] = IF loop[r] = "top" THEN beat[r] ELSE Poll[r]
  BY DEF MissedBeat, BeatDone
<1>2. Allowance(r)' = Allowance(r) + Poll[r] /\ Allowance(r) \in Nat /\ Poll[r] \in Nat
  BY <1>1, SpanFacts DEF Allowance
<1>3. beat'[r] <= beat[r] + Poll[r] /\ beat'[r] <= Poll[r]
  BY <1>1, <1>2 DEF Parts, HeldShape
<1>4. HeldShape(r)' /\ NoFileYet(r)'
  BY <1>1, <1>3 DEF HeldShape, NoFileYet
<1>5. UsurpedInTime(r)'
  BY <1>1, <1>2, <1>3 DEF Parts, UsurpedInTime
<1>6. BeatInTime(r)'
  <2> SUFFICES ASSUME Owns(r), lockFile.written, r \notin CanStall \cup beatless
               PROVE  lockFile.age + beat'[r] <= Allowance(r)'
    BY <1>1 DEF BeatInTime, Owns
  <2>1. lockFile.age + beat[r] <= Allowance(r) /\ lockFile.age \in Nat
    BY DEF Parts, BeatInTime, LockFiles
  <2> QED
    BY <2>1, <1>1, <1>2, <1>3
<1> QED
  BY <1>4, <1>5, <1>6 DEF Parts

\* A runner that stands down has nothing left to keep in time.
LEMMA StandDownKept ==
    ASSUME TypeOK, NEW r \in Runner, Parts(r), StandDown(r), beatless' = beatless,
           loop[r] \in {"top", "run", "sleep"}
    PROVE  Parts(r)'
BY DEF TypeOK, StandDown, Parts, HeldShape, NoFileYet, UsurpedInTime, BeatInTime

\* A runner's own step keeps its part of the invariant.
LEMMA OwnKept ==
    ASSUME LockInv, NEW r \in Runner, Move(r), TypeOK'
    PROVE  Parts(r)'
<1>0. missed[r] \in Nat /\ Parts(r)
  BY ConstantsAssumption DEF LockInv, TypeOK, Parts
<1>00. /\ Span(missed[r], r) \in Nat /\ Span(missed[r] + 1, r) \in Nat
       /\ Poll[r] \in Nat /\ Poll[r] > 0
       /\ Span(0, r) = Poll[r] /\ Span(missed[r] + 1, r) = Span(missed[r], r) + Poll[r]
       /\ Poll[r] <= Span(missed[r], r) /\ Poll[r] <= Span(missed[r] + 1, r)
  <2>1. missed[r] + 1 \in Nat
    BY <1>0
  <2>2. Span(missed[r] + 1, r) \in Nat /\ Poll[r] <= Span(missed[r] + 1, r)
    BY <2>1, SpanFacts
  <2> QED
    BY <1>0, <2>2, SpanFacts
<1> USE <1>0, <1>00 DEF LockInv, TypeOK, Parts, HeldShape, NoFileYet, UsurpedInTime, BeatInTime,
        Allowance, Owns
<1>1. CASE TryCreate(r)
  BY <1>1 DEF TryCreate, Empty, NoFile, Awake
<1>2. CASE Judge(r)
  BY <1>2 DEF Judge, Refused, Awake, NoFile
<1>3. CASE TakeOver(r)
  BY <1>3 DEF TakeOver, Acquired, Record
<1>4. CASE Fill(r)
  BY <1>4 DEF Fill, BeatDone, Acquired, Record
<1>5. CASE BeatRead(r)
  <2>1. held[r] /\ loop[r] \in {"top", "run", "sleep"} /\ (loop[r] # "top" => beat[r] = 0)
    BY <1>5 DEF BeatRead, BeatDue
  <2>2. CASE MissedBeat(r) \/ StandDown(r)
    BY <1>5, <2>1, <2>2, MissedKept, StandDownKept DEF BeatRead
  <2>3. CASE ~MissedBeat(r) /\ ~StandDown(r)
    BY <1>5, <2>1, <2>3 DEF BeatRead, NoFile
  <2> QED
    BY <2>2, <2>3
<1>6. CASE Rewrite(r)
  <2>1. CASE MissedBeat(r)
    BY <1>6, <2>1, MissedKept DEF Rewrite
  <2>2. CASE ~MissedBeat(r)
    BY <1>6, <2>2 DEF Rewrite, BeatDone, Record
  <2> QED
    BY <2>1, <2>2
<1>7. CASE Recreate(r)
  <2>1. CASE MissedBeat(r) \/ StandDown(r)
    BY <1>7, <2>1, MissedKept, StandDownKept DEF Recreate
  <2>2. CASE ~MissedBeat(r) /\ ~StandDown(r)
    BY <1>7, <2>2 DEF Recreate, Empty
  <2> QED
    BY <2>1, <2>2
<1>8. CASE StopWaiting(r)
  BY <1>8 DEF StopWaiting, Goto
<1>9. CASE Retry(r)
  BY <1>9 DEF Retry
<1>10. CASE TopEnds(r)
  BY <1>10 DEF TopEnds, Goto
<1>11. CASE EndPass(r)
  BY <1>11 DEF EndPass, Goto
<1>12. CASE WakeUp(r)
  BY <1>12 DEF WakeUp, Goto
<1>13. CASE ReleaseRead(r)
  BY <1>13 DEF ReleaseRead
<1>14. CASE Unlink(r)
  BY <1>14 DEF Unlink, NoFile
<1>15. CASE Start(r)
  BY <1>15 DEF Start
<1>16. CASE StartRun(r)
  BY <1>16 DEF StartRun, Goto
<1>17. CASE FinishRun(r)
  BY <1>17 DEF FinishRun, Goto
<1>18. CASE Stop(r)
  BY <1>18 DEF Stop
<1>19. CASE Cancel(r)
  BY <1>19 DEF Cancel, Goto
<1>20. CASE Crash(r)
  BY <1>20 DEF Crash
<1>21. CASE Stall(r)
  BY <1>21 DEF Stall
<1>22. CASE Resume(r)
  BY <1>22 DEF Resume
<1>23. CASE CreateFails(r)
  BY <1>23 DEF CreateFails
<1>24. CASE FillFails(r)
  <2>1. /\ op[r] = "fill" /\ op'[r] = "none" /\ held' = held /\ lockFile' = lockFile
        /\ beat' = beat /\ usurped' = usurped /\ missed'[r] = missed[r] + 1
        /\ r \in beatless => r \in beatless'
    BY <1>24 DEF FillFails
  <2>2. CASE loop[r] = "acquire"
    BY <1>24, <2>1, <2>2 DEF FillFails
  <2>3. CASE loop[r] = "top"
    <3>1. loop'[r] = "stopping" /\ held[r] /\ beatless' = beatless
      BY <1>24, <2>1, <2>3 DEF FillFails
    <3>2. HeldShape(r)' /\ NoFileYet(r)'
      BY <2>1, <3>1
    <3>3. beat[r] \in Nat /\ beat'[r] = beat[r] /\ usurped[r] = 0 /\ usurped'[r] = 0
      BY <2>1, <3>1
    <3>4. Span(missed'[r], r) = Span(missed[r], r) + Poll[r]
      BY <2>1
    <3>5. UsurpedInTime(r)'
      BY <3>3, <3>4
    <3>6. BeatInTime(r)'
      <4> SUFFICES ASSUME Owns(r), lockFile.written, r \notin CanStall \cup beatless
                   PROVE  lockFile.age + beat'[r] <= Span(missed'[r], r)
        BY <2>1, <3>1
      <4>1. lockFile.age + beat[r] <= Span(missed[r], r) /\ lockFile.age \in Nat
        BY <3>1 DEF LockFiles
      <4> QED
        BY <3>3, <3>4, <4>1
    <3> QED
      BY <3>2, <3>5, <3>6
  <2>4. CASE loop[r] \in {"run", "sleep"}
    BY <1>24, <2>1, <2>4 DEF FillFails
  <2> QED
    BY <2>1, <2>2, <2>3, <2>4
<1>25. CASE ReleaseSkipped(r)
  BY <1>25 DEF ReleaseSkipped, Goto
<1> QED
  BY <1>1, <1>2, <1>3, <1>4, <1>5, <1>6, <1>7, <1>8, <1>9, <1>10, <1>11, <1>12, <1>13, <1>14, <1>15, <1>16, <1>17, <1>18, <1>19, <1>20, <1>21, <1>22, <1>23, <1>24, <1>25 DEF Move, Step

\* Time passes only while no beat is due, so what it adds to an age or to the
\* time of a usurpation it takes from the sleep of the side task.
LEMMA TickKept ==
    ASSUME LockInv, Tick, NEW r \in Runner
    PROVE  Parts(r)'
<1> USE ConstantsAssumption DEF TypeOK
<1>1. TypeOK /\ Parts(r) /\ stalled \subseteq CanStall
  BY DEF LockInv, Parts
<1>2. /\ loop' = loop /\ op' = op /\ held' = held /\ missed' = missed /\ beatless' = beatless
      /\ beat'[r] = Down(beat[r])
      /\ usurped'[r] = IF held[r] /\ ~Owns(r) /\ Awake(r) /\ usurped[r] <= Overlap(r)
                       THEN usurped[r] + 1 ELSE usurped[r]
      /\ lockFile'.by = lockFile.by /\ lockFile'.written = lockFile.written
      /\ lockFile'.age \in {lockFile.age, lockFile.age + 1}
  BY <1>1 DEF Tick, Older, LockFiles
<1>3. beat'[r] <= beat[r] /\ beat'[r] \in Nat
  BY <1>1, <1>2 DEF Down
<1>4. held[r] /\ r \notin beatless /\ Awake(r) => op[r] = "none" /\ beat'[r] = beat[r] - 1
  BY <1>1, <1>2 DEF Tick, AtRest, BeatDue, Down, Parts, HeldShape
<1>5. Allowance(r) \in Nat /\ Allowance(r)' = Allowance(r)
  <2>1. missed[r] \in Nat
    BY <1>1
  <2> QED
    BY <2>1, <1>2, SpanFacts DEF Allowance
<1>6. HeldShape(r)'
  <2>1. beat'[r] <= Poll[r] /\ (beat[r] = 0 => beat'[r] = 0)
    BY <1>1, <1>2, <1>3 DEF Parts, HeldShape, Down
  <2>2. op[r] = "fill" /\ held[r] => usurped'[r] = usurped[r]
    BY <1>1, <1>2 DEF Tick, AtRest
  <2> QED
    BY <1>1, <1>2, <2>1, <2>2 DEF Parts, HeldShape
<1>7. NoFileYet(r)'
  BY <1>1, <1>2 DEF Parts, NoFileYet, Owns
<1>8. UsurpedInTime(r)'
  BY <1>1, <1>2, <1>3, <1>4, <1>5 DEF Parts, UsurpedInTime
<1>9. BeatInTime(r)'
  <2> SUFFICES ASSUME held[r], Owns(r), lockFile.written, r \notin CanStall \cup beatless
               PROVE  lockFile'.age + beat'[r] <= Allowance(r)
    BY <1>2, <1>5 DEF BeatInTime, Owns
  <2>1. Awake(r)
    BY <1>1 DEF Awake, Parts, HeldShape
  <2>2. lockFile.age + beat[r] <= Allowance(r) /\ lockFile.age \in Nat
    BY <1>1 DEF Parts, BeatInTime, LockFiles
  <2> QED
    BY <2>1, <2>2, <1>1, <1>2, <1>4, <1>5
<1> QED
  BY <1>6, <1>7, <1>8, <1>9 DEF Parts

LEMMA LockInvInit == Init => LockInv
<1> SUFFICES ASSUME Init PROVE LockInv
  OBVIOUS
<1>1. TypeOK
  BY ConstantsAssumption, FilesTyped DEF Init, TypeOK, Loops, Ops
<1>2. ASSUME NEW r \in Runner PROVE Parts(r)
  BY ConstantsAssumption, <1>2
  DEF Init, Parts, HeldShape, NoFileYet, UsurpedInTime, BeatInTime, Owns, NoFile
<1> QED
  BY <1>1, <1>2 DEF LockInv, Parts, Init

LEMMA LockInvStep == LockInv /\ [Next]_vars => LockInv'
<1> SUFFICES ASSUME LockInv, [Next]_vars PROVE LockInv'
  OBVIOUS
<1>1. TypeOK'
  BY TypeStep DEF LockInv
<1>2. CASE Tick
  BY <1>1, <1>2, TickKept DEF LockInv, Parts, Tick
<1>3. CASE UNCHANGED vars
  BY <1>1, <1>3
  DEF vars, LockInv, HeldShape, NoFileYet, UsurpedInTime, BeatInTime, Allowance, Owns
<1>4. ASSUME NEW r \in Runner, Move(r) PROVE LockInv'
  <2>1. ASSUME NEW q \in Runner PROVE Parts(q)'
    <3>1. CASE q = r
      BY <1>1, <1>4, <3>1, OwnKept
    <3>2. CASE q # r
      BY <1>4, <3>2, Frame, OthersKept DEF LockInv, Parts
    <3> QED
      BY <3>1, <3>2
  <2>2. stalled' \subseteq CanStall
    BY <1>4 DEF Move, Step, TryCreate, CreateFails, Judge, TakeOver, Fill, FillFails, BeatRead, Rewrite, Recreate,
       StopWaiting, Retry, TopEnds, EndPass, WakeUp, ReleaseRead, ReleaseSkipped, Unlink, Start,
       StartRun, FinishRun, Stop, Cancel, Crash, Stall, Resume, Goto, LockInv
  <2> QED
    BY <1>1, <2>1, <2>2 DEF LockInv, Parts
<1> QED
  BY <1>2, <1>3, <1>4 DEF Next, Move

\* The inductive invariant holds of every execution.
LEMMA LockInvAlways == Spec => []LockInv
BY LockInvInit, LockInvStep, PTL DEF Spec

\* However runners crash, stall, miss beats and take over from each other: one
\* that lost the file, and whose side task no failed write killed, is awake for
\* no more than MaxMissed + 1 of its own poll intervals before it stops
\* believing it holds the lock.
THEOREM OverlapIsBounded == Spec => []BoundedOverlap
<1>1. LockInv => BoundedOverlap
  <2> SUFFICES ASSUME LockInv, NEW r \in Runner, held[r], r \notin beatless
               PROVE  usurped[r] <= Span(MaxMissed, r)
    BY DEF BoundedOverlap, Overlap, Span
  <2>1. /\ usurped[r] + beat[r] <= Span(missed[r], r)
        /\ missed[r] \in Nat /\ missed[r] <= MaxMissed /\ MaxMissed \in Nat
        /\ usurped[r] \in Nat /\ beat[r] \in Nat
    BY ConstantsAssumption DEF LockInv, TypeOK, UsurpedInTime, Allowance
  <2>2. Span(missed[r], r) <= Span(MaxMissed, r) /\ Span(missed[r], r) \in Nat
        /\ Span(MaxMissed, r) \in Nat
    BY <2>1, SpanFacts
  <2> QED
    BY <2>1, <2>2
<1> QED
  BY <1>1, LockInvAlways, PTL

\* As long as a runner misses fewer beats in a row than the staleness factor,
\* the record of a live, never suspended holder whose side task no failed write
\* killed reads live to every other runner: a long run alone never costs a
\* runner the lock.
THEOREM LiveHolderKeepsLock ==
    ASSUME MaxMissed < StaleBeats
    PROVE  Spec => []LiveHolderReadsLive
<1>1. LockInv => LiveHolderReadsLive
  <2> SUFFICES ASSUME LockInv, NEW h \in Runner, ReadsStale(h), h \notin CanStall \cup beatless
               PROVE  FALSE
    BY DEF LiveHolderReadsLive
  <2>1. lockFile.age <= Span(MaxMissed, h)
    <3>1. /\ lockFile.age + beat[h] <= Span(missed[h], h)
          /\ missed[h] \in Nat /\ missed[h] <= MaxMissed /\ MaxMissed \in Nat
          /\ lockFile.age \in Nat /\ beat[h] \in Nat
      BY ConstantsAssumption
      DEF LockInv, TypeOK, LockFiles, BeatInTime, Allowance, ReadsStale, Polling
    <3>2. Span(missed[h], h) <= Span(MaxMissed, h) /\ Span(missed[h], h) \in Nat
          /\ Span(MaxMissed, h) \in Nat
      BY <3>1, SpanFacts
    <3> QED
      BY <3>1, <3>2
  <2>2. Span(MaxMissed, h) <= StaleAfter(h)
    <3>1. \A n, b, p \in Nat : n < b => (n + 1) * p <= b * p
      BY SMTT(20)
    <3> QED
      BY <3>1, ConstantsAssumption DEF Span, StaleAfter
  <2>3. lockFile.age > StaleAfter(h)
    BY DEF ReadsStale, IsStale, Owns
  <2> QED
    BY <2>1, <2>2, <2>3, ConstantsAssumption, SpanFacts DEF LockInv, TypeOK, LockFiles, StaleAfter
<1> QED
  BY <1>1, LockInvAlways, PTL
=============================================================================
