--------------------------- MODULE CouncilProofs ---------------------------
(***************************************************************************)
(* Proofs about Council, for any members, labels, quorum, numbers of        *)
(* attempts and limits: the types, that every label is accounted for, that *)
(* silence is a timeout, that every cost is, and that the screen is true.   *)
(***************************************************************************)
EXTENDS Council, FiniteSetTheorems, TLAPS

Ended(m) == task[m] \in {"over", "paused"}
Paused   == \E m \in Member : task[m] = "paused"
Cut      == timedOut \/ Paused

Collecting == phase \in {"members", "draining"}
Settled    == phase \notin {"members", "draining", "paused", "paused, closed"}

Phases == {"members", "draining", "agreement", "vote", "budget", "no candidates", "synthesis",
           "complete", "log", "closed", "paused", "paused, closed"}

MembersTyped ==
    /\ phase \in Phases /\ strategy \in Strategies /\ synthesize \in BOOLEAN
    /\ task \in [Member -> {"streaming", "answered", "failed", "over", "paused"}]
    /\ reported \in [Member -> BOOLEAN]
    /\ told \in [Member -> {"nothing", "complete", "failed"}]
    /\ answers \in [Labels -> {"none", "unpriced", "priced"}]
    /\ failed \subseteq Labels /\ timedOut \in BOOLEAN

\* How far a member is, its answer or failure, and what is left of it.
Counted ==
    /\ \A m \in Member : task[m] = "answered" => Label[m] \in Answered
    /\ \A m \in Member : task[m] = "failed" => Label[m] \in failed
    /\ \A m \in Member : task[m] = "over" => Label[m] \in Answered \cup failed \/ Cut
    /\ \A m \in Member : task[m] = "over" /\ told[m] = "nothing" => Cut
    /\ phase = "draining" => Cut
    /\ ~Collecting => \A m \in Member : Ended(m)
    /\ Settled => ~Paused /\ Labels = Answered \cup failed

\* A member with a label of its own has one of the two at most, and the answer is its own.
OwnLabel ==
    \A m \in Member : ~Sharing(m) =>
        /\ Label[m] \notin Answered \cap failed
        /\ task[m] = "streaming" => Label[m] \notin Answered \cup failed
        /\ Label[m] \in Answered => answers[Label[m]] = PriceIf(reported[m])

MembersInv == MembersTyped /\ Counted /\ OwnLabel

FlagsTyped == partial \in BOOLEAN /\ refused \in BOOLEAN

SynthTyped ==
    /\ synthesis \in {"none", "unpriced", "priced"}
    /\ tries \in Nat /\ tries <= Attempts

\* Where the synthesis is.
Attempted ==
    /\ refused => tries = 0
    /\ partial => strategy = "weighted" /\ (phase = "synthesis" \/ synthesis # "none")
    /\ phase \in {"members", "draining", "agreement", "vote", "budget"} =>
          ~refused /\ tries = 0 /\ synthesis = "none"
    /\ phase \in {"synthesis", "paused"} => ~refused /\ tries # Attempts /\ synthesis = "none"
    /\ phase = "no candidates" => refused /\ synthesis = "none"
    /\ phase = "paused, closed" => tries # Attempts

Shown(e) == screen = e \/ screen = "gone"

\* What the client has seen of it.
Seen ==
    /\ phase \in {"members", "draining", "agreement", "vote", "budget", "synthesis", "paused"} =>
          Shown("nothing")
    /\ phase = "no candidates" => Shown("budget")
    /\ phase \in {"complete", "log", "closed"} =>
          /\ refused => Shown("budget")
          /\ tries = Attempts => Shown("synthesis")
          /\ ~refused /\ tries # Attempts =>
                Shown(IF phase = "complete" THEN "nothing" ELSE "complete")
    /\ phase = "paused, closed" => Shown("paused")

SynthInv == SynthTyped /\ Attempted /\ Seen

\* The attempt in progress has cost something that no answer has yet.
Pending  == IF partial /\ synthesis = "none" THEN 1 ELSE 0
Owed     == Price(synthesis) + Pending
Reported == {m \in Member : reported[m]}

\* At most what the agreement check, the attempts and one that was paused have cost.
Checked == IF phase \in {"members", "draining", "agreement"} THEN 0 ELSE 1
Stopped == IF phase \in {"paused", "paused, closed"} THEN 1 ELSE 0
MaxAux  == Checked + tries + Stopped

\* K are the members whose cost was kept without an answer: all others that reported one
\* and ended have an answer under their label, and each priced answer is of one of these.
KeptAre(K) ==
    /\ \A m \in K : Ended(m) /\ reported[m]
    /\ \A m \in Member \ K : Ended(m) /\ reported[m] => Label[m] \in Answered
    /\ \A l \in Labels : answers[l] = "priced" =>
          \E m \in Member \ K : reported[m] /\ Label[m] = l /\ task[m] \in {"answered", "over"}

\* What has been charged is kept, or will be the price of an answer or of the synthesis.
Charges(K) ==
    /\ charged + Cardinality(K) = aux + Cardinality(Reported) + Owed
    /\ Cardinality(K) <= aux /\ aux <= Cardinality(K) + MaxAux

CostsInv ==
    /\ aux \in Nat /\ charged \in Nat
    /\ \E K \in SUBSET Member : KeptAre(K) /\ Charges(K)

BooksInv ==
    /\ left \in Nat /\ ledger \in Nat /\ others \in 0..MaxOthers /\ dropped \in Nat
    /\ others <= ledger
    /\ phase \notin {"log", "closed"} => left = 0 /\ dropped = 0 /\ ledger = others
    /\ phase \in {"log", "closed"} => (ledger - others) + dropped + left = Total
    /\ phase = "closed" => left = 0

IInv == MembersInv /\ FlagsTyped /\ SynthInv /\ CostsInv /\ BooksInv

-----------------------------------------------------------------------------
(* The members                                                             *)

LEMMA MembersInit == Init => MembersInv
  <1> SUFFICES ASSUME Init PROVE MembersInv
    OBVIOUS
  <1> USE DEF Init
  <1>1. \A m \in Member : task[m] = "streaming"
    OBVIOUS
  <1>2. \A l \in Labels : answers[l] = "none"
    OBVIOUS
  <1>3. MembersTyped
    BY DEF MembersTyped, Phases
  <1>4. Answered = {} /\ failed = {}
    BY <1>2 DEF Answered
  <1>5. Counted /\ OwnLabel
    BY <1>1, <1>4 DEF Counted, OwnLabel, Collecting, Settled
  <1> QED BY <1>3, <1>5 DEF MembersInv

\* What comes after the members, and what goes on beside them, leaves them alone.
LEMMA MembersLeft ==
    ASSUME MembersInv, UNCHANGED <<request, members>>,
           \/ phase' = phase
           \/ ~Collecting /\ phase' \in Phases \ {"members", "draining"} /\ (Settled' => Settled)
    PROVE  MembersInv'
  <1> USE DEF MembersInv, request, members
  <1>1. Answered' = Answered /\ Paused' = Paused /\ Cut' = Cut /\ \A m \in Member : Ended(m)' = Ended(m)
    BY DEF Answered, Paused, Cut, Ended
  <1>2. MembersTyped'
    BY DEF MembersTyped
  <1>3. Counted'
    BY <1>1 DEF Counted, Collecting, Settled
  <1>4. OwnLabel'
    BY <1>1 DEF OwnLabel
  <1> QED BY <1>2, <1>3, <1>4

LEMMA LabelTyped == \A m \in Member : Label[m] \in Labels
  BY DEF Labels

LEMMA ReportsMembers ==
    ASSUME MembersInv, NEW m \in Member, Reports(m)
    PROVE  MembersInv'
  <1> USE DEF MembersInv, Reports, request
  <1>1. Answered' = Answered /\ Paused' = Paused /\ Cut' = Cut /\ \A n \in Member : Ended(n)' = Ended(n)
    BY DEF Answered, Paused, Cut, Ended
  <1>2. MembersTyped'
    BY DEF MembersTyped
  <1>3. Counted'
    BY <1>1 DEF Counted, Collecting, Settled
  <1>4. \A n \in Member \ {m} : reported'[n] = reported[n]
    BY DEF MembersTyped
  <1>5. \A n \in Member : ~Sharing(n) /\ Label[n] \in Answered => n # m
    BY DEF OwnLabel
  <1>6. OwnLabel'
    BY <1>1, <1>4, <1>5 DEF OwnLabel
  <1> QED BY <1>2, <1>3, <1>6

LEMMA AnswersMembers ==
    ASSUME MembersInv, NEW m \in Member, Answers(m)
    PROVE  MembersInv'
  <1> USE LabelTyped DEF MembersInv, Answers, request
  <1>1. PriceIf(reported[m]) \in {"unpriced", "priced"}
    BY DEF PriceIf
  <1>2. /\ task'[m] = "answered" /\ \A n \in Member \ {m} : task'[n] = task[n]
        /\ answers'[Label[m]] = PriceIf(reported[m])
        /\ \A l \in Labels \ {Label[m]} : answers'[l] = answers[l]
    BY DEF MembersTyped
  <1>3. Answered' = Answered \cup {Label[m]}
    BY <1>1, <1>2 DEF Answered
  <1>4. MembersTyped'
    BY <1>1 DEF MembersTyped
  <1>5. Paused' = Paused /\ Cut' = Cut
    BY <1>2 DEF Paused, Cut
  <1>6. Counted'
    BY <1>2, <1>3, <1>5 DEF Counted, Collecting, Settled
  <1>7. OwnLabel'
    <2>1. ASSUME NEW n \in Member \ {m}, ~Sharing(n)
          PROVE  Label[n] # Label[m]
      BY <2>1 DEF Sharing
    <2> QED BY <1>2, <1>3, <2>1 DEF OwnLabel
  <1> QED BY <1>4, <1>6, <1>7

LEMMA FailsMembers ==
    ASSUME MembersInv, NEW m \in Member, Fails(m)
    PROVE  MembersInv'
  <1> USE LabelTyped DEF MembersInv, Fails, request
  <1>1. task'[m] = "failed" /\ \A n \in Member \ {m} : task'[n] = task[n]
    BY DEF MembersTyped
  <1>2. Answered' = Answered
    BY DEF Answered
  <1>3. MembersTyped'
    BY DEF MembersTyped
  <1>4. Paused' = Paused /\ Cut' = Cut
    BY <1>1 DEF Paused, Cut
  <1>5. Counted'
    BY <1>1, <1>2, <1>4 DEF Counted, Collecting, Settled
  <1>6. OwnLabel'
    <2>1. ASSUME NEW n \in Member \ {m}, ~Sharing(n)
          PROVE  Label[n] # Label[m]
      BY <2>1 DEF Sharing
    <2> QED BY <1>1, <1>2, <2>1 DEF OwnLabel
  <1> QED BY <1>3, <1>5, <1>6

\* A member's end: its event sent, a pause, or a cancellation.
LEMMA EndsMembers ==
    ASSUME MembersInv, NEW m \in Member, Sent(m) \/ Pauses(m) \/ Cancelled(m)
    PROVE  MembersInv'
  <1> USE DEF MembersInv, Sent, Swallowed, Pauses, Cancelled, request
  <1>1. /\ UNCHANGED <<request, phase, reported, answers, failed, timedOut>>
        /\ Collecting /\ task[m] # "paused" /\ task[m] # "over"
        /\ task'[m] \in {"over", "paused"} /\ \A n \in Member \ {m} : task'[n] = task[n]
        /\ task' \in [Member -> {"streaming", "answered", "failed", "over", "paused"}]
    BY DEF MembersTyped, Collecting
  <1>2. /\ \A n \in Member \ {m} : told'[n] = told[n]
        /\ told' \in [Member -> {"nothing", "complete", "failed"}]
    BY DEF MembersTyped, LastEvent
  <1>3. Answered' = Answered
    BY <1>1 DEF Answered
  <1>4. MembersTyped'
    BY <1>1, <1>2 DEF MembersTyped
  <1>5. (Cut => Cut') /\ (Paused => Paused')
    BY <1>1 DEF Paused, Cut
  <1>6. task'[m] = "over" => \/ task[m] \in {"answered", "failed"} /\ told'[m] # "nothing"
                             \/ phase = "draining"
    BY <1>1 DEF MembersTyped, LastEvent
  <1>7. phase = "draining" => Cut
    BY DEF Counted
  <1>8. Counted'
    BY <1>1, <1>2, <1>3, <1>5, <1>6, <1>7 DEF Counted, Collecting, Settled
  <1>9. OwnLabel'
    BY <1>1, <1>3 DEF OwnLabel
  <1> QED BY <1>4, <1>8, <1>9

LEMMA SettlesMembers ==
    ASSUME MembersInv, StopSiblings \/ TimeUp \/ Drained
    PROVE  MembersInv'
  <1> USE DEF MembersInv, request, members
  <1>1. CASE StopSiblings \/ TimeUp
    <2> USE <1>1 DEF StopSiblings, TimeUp
    <2>1. /\ phase = "members" /\ phase' = "draining"
          /\ UNCHANGED <<request, task, reported, told, answers, failed>>
      OBVIOUS
    <2>2. Cut' /\ Paused' = Paused /\ Answered' = Answered
      BY DEF Cut, Paused, Answered
    <2>3. MembersTyped'
      BY DEF MembersTyped, Phases
    <2>4. Counted'
      BY <2>1, <2>2 DEF Counted, Collecting, Settled
    <2>5. OwnLabel'
      BY <2>1, <2>2 DEF OwnLabel
    <2> QED BY <2>3, <2>4, <2>5
  <1>2. CASE Drained
    <2> USE DEF Drained
    <2>1. /\ \A m \in Member : task[m] \in {"over", "paused"}
          /\ UNCHANGED <<request, task, reported, told, answers, timedOut>>
          /\ phase' = IF Paused THEN "paused" ELSE "agreement"
          /\ failed' = IF ~Paused /\ timedOut THEN failed \cup Missing ELSE failed
      BY <1>2 DEF Paused
    <2>2. Cut' = Cut /\ Paused' = Paused /\ Answered' = Answered
      BY <2>1 DEF Cut, Paused, Answered
    <2>3. Missing \subseteq Labels \ (Answered \cup failed)
      BY DEF Missing, Answered
    <2>4. MembersTyped'
      BY <2>1, <2>3 DEF MembersTyped, Phases
    <2>5. ~Paused => Labels = Answered \cup failed'
      <3>1. SUFFICES ASSUME ~Paused PROVE Labels = Answered \cup failed'
        OBVIOUS
      <3>2. \A m \in Member : Label[m] \in Answered \cup failed \/ timedOut
        BY <2>1, <3>1 DEF Counted, Cut, Paused
      <3>3. \A l \in Labels : l \in Answered \cup failed \/ timedOut
        BY <3>2 DEF Labels
      <3>4. timedOut => \A l \in Labels : l \in Answered \cup failed'
        BY <2>1, <3>1 DEF Missing, Answered
      <3>5. Answered \subseteq Labels /\ failed' \subseteq Labels
        BY <2>4 DEF Answered, MembersTyped
      <3> QED BY <2>1, <3>3, <3>4, <3>5
    <2>6. Counted'
      BY <2>1, <2>2, <2>5 DEF Counted, Collecting, Settled, Ended, Paused
    <2>7. OwnLabel'
      BY <2>1, <2>2, <2>3 DEF OwnLabel
    <2> QED BY <2>4, <2>6, <2>7
  <1> QED BY <1>1, <1>2

\* The steps that leave the members alone.
Later ==
    \/ \E cost \in {0, 1} : Agreement(cost)
    \/ Vote \/ Admitted \/ Refused \/ NoCandidates
    \/ SynthAnswers \/ SynthFails \/ CallPauses \/ SynthReports
    \/ Complete \/ \E entered \in BOOLEAN : LogOne(entered)
    \/ Logged \/ ReportsPause \/ ClientLeaves \/ OthersSpend

LEMMA NextSplits ==
    Next => Later \/ StopSiblings \/ TimeUp \/ Drained \/ \E m \in Member : MemberStep(m)
  BY DEF Next, SessionStep, Later

LEMMA LaterMembers ==
    ASSUME MembersInv, Later
    PROVE  MembersInv'
  <1> USE DEF Later, Agreement, Vote, Admitted, Refused, NoCandidates, SynthAnswers, SynthFails,
          CallPauses, SynthReports, Complete, LogOne, Logged, ReportsPause, ClientLeaves, OthersSpend
  <1>1. UNCHANGED <<request, members>>
    OBVIOUS
  <1>2. \/ phase' = phase
        \/ ~Collecting /\ phase' \in Phases \ {"members", "draining"} /\ (Settled' => Settled)
    BY DEF Collecting, Settled, Phases, AfterAgreement
  <1> QED BY <1>1, <1>2, MembersLeft

LEMMA MembersStep == MembersInv /\ [Next]_vars => MembersInv'
  <1> SUFFICES ASSUME MembersInv, [Next]_vars PROVE MembersInv'
    OBVIOUS
  <1>1. CASE UNCHANGED vars
    BY <1>1, MembersLeft DEF vars
  <1>2. ASSUME NEW m \in Member, MemberStep(m)
        PROVE  MembersInv'
    BY <1>2, ReportsMembers, AnswersMembers, FailsMembers, EndsMembers DEF MemberStep
  <1> QED BY <1>1, <1>2, NextSplits, LaterMembers, SettlesMembers

-----------------------------------------------------------------------------
(* The synthesis and the screen                                            *)

LEMMA SomeAttempts == Attempts # 0
  BY CouncilAssumption

LEMMA SynthInit == Init => SynthInv
  <1> SUFFICES ASSUME Init PROVE SynthInv
    OBVIOUS
  <1>1. SynthTyped
    BY CouncilAssumption DEF Init, SynthTyped
  <1>2. Attempted
    BY DEF Init, Attempted
  <1>3. Seen
    BY DEF Init, Seen, Shown
  <1> QED BY <1>1, <1>2, <1>3 DEF SynthInv

LEMMA FlagsInit == Init => FlagsTyped
  BY DEF Init, FlagsTyped

LEMMA FlagsStep == FlagsTyped /\ [Next]_vars => FlagsTyped'
  <1> SUFFICES ASSUME FlagsTyped, [Next]_vars PROVE FlagsTyped'
    OBVIOUS
  <1>1. CASE UNCHANGED vars
    BY <1>1 DEF vars, synth, FlagsTyped
  <1>2. ASSUME NEW m \in Member, MemberStep(m)
        PROVE  UNCHANGED synth
    BY <1>2 DEF MemberStep, Reports, Answers, Fails, Sent, Pauses, Cancelled
  <1>3. StopSiblings \/ TimeUp \/ Drained => UNCHANGED synth
    BY DEF StopSiblings, TimeUp, Drained
  <1>4. CASE Later
    <2>1. UNCHANGED synth \/ partial' = partial \/ partial' = FALSE \/ partial' = TRUE
      BY <1>4, Zenon DEF Later, Agreement, Vote, Admitted, Refused, NoCandidates, SynthAnswers,
            SynthFails, CallPauses, SynthReports, Complete, LogOne, Logged, ReportsPause,
            ClientLeaves, OthersSpend
    <2>2. UNCHANGED synth \/ refused' = refused \/ refused' = TRUE
      BY <1>4, Zenon DEF Later, Agreement, Vote, Admitted, Refused, NoCandidates, SynthAnswers,
            SynthFails, CallPauses, SynthReports, Complete, LogOne, Logged, ReportsPause,
            ClientLeaves, OthersSpend
    <2> QED BY <2>1, <2>2, Zenon DEF synth, FlagsTyped
  <1> QED BY <1>1, <1>2, <1>3, <1>4, NextSplits DEF synth, FlagsTyped

\* Until the session has the agreement, the synthesis stays as it is at first.
LEMMA SynthLeft ==
    ASSUME SynthInv, UNCHANGED <<strategy, synth, screen>>,
           \/ phase' = phase
           \/ /\ phase \in {"members", "draining", "agreement"}
              /\ phase' \in {"draining", "agreement", "paused", "vote", "budget", "complete"}
    PROVE  SynthInv'
  <1> USE SomeAttempts DEF SynthInv, synth
  <1>1. SynthTyped'
    BY DEF SynthTyped
  <1>2. Attempted'
    BY DEF Attempted
  <1>3. \/ phase' = phase
        \/ Shown("nothing")' /\ (phase = "complete" => ~refused /\ tries # Attempts)'
    BY DEF Attempted, Seen, Shown
  <1>4. Seen'
    <2>1. CASE phase' = phase
      BY <2>1 DEF Seen, Shown
    <2>2. CASE phase' # phase
      BY <1>3, <2>2 DEF Seen
    <2> QED BY <2>1, <2>2
  <1> QED BY <1>1, <1>2, <1>4

LEMMA SynthStep == MembersInv /\ SynthInv /\ [Next]_vars => SynthInv'
  <1> SUFFICES ASSUME MembersInv, SynthInv, [Next]_vars PROVE SynthInv'
    OBVIOUS
  <1> USE SomeAttempts DEF SynthInv, SynthTyped, request
  <1>0. SynthTyped /\ Attempted /\ Seen
    OBVIOUS
  <1>1. CASE UNCHANGED vars
    BY <1>1, SynthLeft DEF vars
  <1>2. ASSUME NEW m \in Member, MemberStep(m)
        PROVE  SynthInv'
    <2>1. UNCHANGED <<strategy, synth, screen, phase>>
      BY <1>2 DEF MemberStep, Reports, Answers, Fails, Sent, Pauses, Cancelled
    <2> QED BY <2>1, SynthLeft
  <1>3. CASE StopSiblings \/ TimeUp \/ Drained
    <2>1. /\ UNCHANGED <<strategy, synth, screen>>
          /\ phase \in {"members", "draining"} /\ phase' \in {"draining", "agreement", "paused"}
      BY <1>3 DEF StopSiblings, TimeUp, Drained
    <2> QED BY <2>1, SynthLeft
  <1>4. ASSUME NEW cost \in {0, 1}, Agreement(cost)
        PROVE  SynthInv'
    <2>1. /\ UNCHANGED <<strategy, synth, screen>>
          /\ phase = "agreement" /\ phase' \in {"vote", "budget", "complete"}
      BY <1>4 DEF Agreement, AfterAgreement
    <2> QED BY <2>1, SynthLeft
  <1>5. CASE Vote \/ Admitted
    <2>0. phase \in {"vote", "budget"} /\ UNCHANGED <<tries, refused, partial, screen>>
      BY <1>5 DEF Vote, Admitted, synth
    <2>1. /\ ~refused /\ tries = 0 /\ ~partial /\ synthesis = "none" /\ Shown("nothing")
          /\ UNCHANGED <<tries, refused, partial, screen>>
      BY <1>0, <2>0 DEF Attempted, Seen
    <2>6. phase' = "complete" \/ (phase' = "synthesis" /\ synthesis' = synthesis)
      BY <1>5 DEF Vote, Admitted, synth
    <2>2. synthesis' \in {"none", "unpriced"}
      BY <1>0, <1>5 DEF Vote, Admitted, synth, Attempted
    <2>3. SynthTyped'
      BY <1>0, <2>1, <2>2
    <2>4. Attempted'
      BY <2>1, <2>6 DEF Attempted
    <2>5. Seen'
      BY <2>1, <2>6 DEF Seen, Shown
    <2> QED BY <2>3, <2>4, <2>5
  <1>6. CASE Refused
    <2>1. /\ UNCHANGED <<synthesis, tries, partial>> /\ tries = 0 /\ ~partial /\ synthesis = "none"
          /\ refused' /\ phase' \in {"complete", "no candidates"}
      BY <1>0, <1>6 DEF Refused, Attempted
    <2>2. Shown("budget")'
      BY <1>0, <1>6 DEF Refused, TellRefusal, Show, Seen, Shown
    <2>3. Attempted'
      BY <2>1 DEF Attempted
    <2>4. Seen'
      BY <2>1, <2>2 DEF Seen
    <2> QED BY <1>0, <2>1, <2>3, <2>4
  <1>7. CASE NoCandidates
    <2>1. UNCHANGED synth /\ refused /\ tries = 0 /\ synthesis = "none" /\ phase' = "complete"
      BY <1>0, <1>7 DEF NoCandidates, Attempted
    <2>2. Shown("budget")' /\ ~partial
      BY <1>0, <1>7 DEF NoCandidates, Show, Seen, Shown, Attempted
    <2>3. Attempted'
      BY <2>1, <2>2 DEF Attempted, synth
    <2>4. Seen'
      BY <2>1, <2>2 DEF Seen, synth
    <2> QED BY <1>0, <2>1, <2>3, <2>4 DEF synth
  <1>8. CASE SynthReports
    BY <1>0, <1>8 DEF SynthReports, Attempted, Seen, Shown
  <1>9. CASE SynthAnswers
    BY <1>0, <1>9 DEF SynthAnswers, PriceIf, Attempted, Seen, Shown
  <1>10. CASE SynthFails
    <2>1. /\ phase = "synthesis" /\ tries # Attempts /\ synthesis = "none" /\ ~refused
          /\ Shown("nothing") /\ synthesis' = synthesis /\ refused' = refused
          /\ partial' = FALSE /\ tries' = tries + 1
      BY <1>0, <1>10 DEF SynthFails, Attempted, Seen
    <2>2. \/ tries' = Attempts /\ phase' = "complete" /\ Shown("synthesis")'
          \/ tries' # Attempts /\ phase' = "synthesis" /\ Shown("nothing")'
      BY <1>10, <2>1 DEF SynthFails, LastAttempt, Show, Shown
    <2>3. SynthTyped'
      BY <1>0, <2>1, CouncilAssumption
    <2>4. Attempted'
      BY <2>1, <2>2 DEF Attempted
    <2>5. Seen'
      BY <2>1, <2>2 DEF Seen
    <2> QED BY <2>3, <2>4, <2>5
  <1>11. CASE CallPauses
    <2>1. /\ phase' = "paused" /\ partial' = FALSE /\ UNCHANGED <<synthesis, tries, refused, screen>>
          /\ phase \in {"agreement", "synthesis"}
      BY <1>11 DEF CallPauses
    <2>2. Attempted'
      BY <1>0, <2>1 DEF Attempted
    <2>3. Seen'
      BY <1>0, <2>1 DEF Seen, Shown
    <2> QED BY <2>1, <2>2, <2>3
  <1>12. CASE Complete
    BY <1>0, <1>12 DEF Complete, Show, synth, Attempted, Seen, Shown
  <1>13. ASSUME NEW entered \in BOOLEAN, LogOne(entered)
         PROVE  SynthInv'
    BY <1>13, SynthLeft DEF LogOne
  <1>14. CASE Logged
    BY <1>0, <1>14 DEF Logged, synth, Attempted, Seen, Shown
  <1>15. CASE ReportsPause
    BY <1>0, <1>15 DEF ReportsPause, Show, synth, Attempted, Seen, Shown
  <1>16. CASE ClientLeaves
    <2>1. UNCHANGED <<strategy, synth, phase>> /\ screen' = "gone"
      BY <1>16 DEF ClientLeaves
    <2>2. Attempted' /\ SynthTyped'
      BY <1>0, <2>1 DEF Attempted, synth
    <2>3. Seen'
      BY <2>1 DEF Seen, Shown
    <2> QED BY <2>2, <2>3
  <1>17. CASE OthersSpend
    BY <1>17, SynthLeft DEF OthersSpend
  <1> QED BY <1>1, <1>2, <1>3, <1>4, <1>5, <1>6, <1>7, <1>8, <1>9, <1>10, <1>11, <1>12,
             <1>13, <1>14, <1>15, <1>16, <1>17, NextSplits DEF Later

-----------------------------------------------------------------------------
(* The ledger                                                              *)

LEMMA CountsTyped ==
    /\ IsFiniteSet(Labels) /\ IsFiniteSet(Member)
    /\ \A S \in SUBSET Member : IsFiniteSet(S) /\ Cardinality(S) \in Nat
    /\ MemberCost \in Nat
    /\ \A p : Price(p) \in {0, 1}
  <1>1. IsFiniteSet(Member)
    BY CouncilAssumption
  <1>2. IsFiniteSet(Labels)
    <2>1. [m \in Member |-> Label[m]] \in Surjection(Member, Labels)
      BY DEF Surjection, Labels
    <2> HIDE DEF Labels
    <2> QED BY <1>1, <2>1, FS_Surjection
  <1>3. IsFiniteSet({l \in Labels : answers[l] = "priced"})
    BY <1>2, FS_Subset
  <1>4. MemberCost \in Nat
    BY <1>3, FS_CardinalityType DEF MemberCost
  <1>5. \A S \in SUBSET Member : IsFiniteSet(S) /\ Cardinality(S) \in Nat
    BY <1>1, FS_Subset, FS_CardinalityType
  <1> QED BY <1>1, <1>2, <1>4, <1>5 DEF Price

LEMMA TotalTyped == aux \in Nat => Total \in Nat
  <1>1. Price(synthesis) \in Nat
    BY DEF Price
  <1> QED BY <1>1, CountsTyped DEF Total

LEMMA BooksInit == Init => BooksInv
  BY CouncilAssumption DEF Init, BooksInv

Logging == phase \in {"log", "closed"}

\* Steps before the log.
LEMMA BooksLeft ==
    ASSUME BooksInv, UNCHANGED books, ~Logging, ~Logging'
    PROVE  BooksInv'
  BY DEF BooksInv, books, Logging

LEMMA TotalLeft == UNCHANGED <<answers, aux, synthesis>> => Total' = Total
  BY DEF Total, MemberCost

LEMMA BooksStep == aux \in Nat /\ BooksInv /\ [Next]_vars => BooksInv'
  <1> SUFFICES ASSUME aux \in Nat, BooksInv, [Next]_vars PROVE BooksInv'
    OBVIOUS
  <1>0. Total \in Nat
    BY TotalTyped
  <1>1. ASSUME NEW m \in Member, MemberStep(m)
        PROVE  BooksInv'
    <2>1. UNCHANGED <<books, phase>> /\ phase \in {"members", "draining"}
      BY <1>1 DEF MemberStep, Reports, Answers, Fails, Sent, Pauses, Cancelled
    <2> QED BY <2>1, BooksLeft DEF Logging
  <1>2. CASE StopSiblings \/ TimeUp \/ Drained
    BY <1>2, BooksLeft DEF StopSiblings, TimeUp, Drained, Logging
  <1>3. ASSUME NEW cost \in {0, 1}, Agreement(cost)
        PROVE  BooksInv'
    BY <1>3, BooksLeft DEF Agreement, AfterAgreement, Logging
  <1>4. CASE Vote \/ Admitted \/ Refused \/ NoCandidates
    BY <1>4, BooksLeft DEF Vote, Admitted, Refused, NoCandidates, Logging
  <1>5. CASE SynthReports \/ SynthAnswers \/ SynthFails \/ CallPauses
    BY <1>5, BooksLeft DEF SynthReports, SynthAnswers, SynthFails, CallPauses, Logging
  <1>6. CASE ReportsPause
    BY <1>6, BooksLeft DEF ReportsPause, Logging
  <1>7. CASE Complete
    <2>1. /\ phase = "complete" /\ phase' = "log" /\ left' = Total
          /\ UNCHANGED <<ledger, others, dropped, answers, aux, synthesis>>
      BY <1>7 DEF Complete, members, synth
    <2>2. Total' = Total
      BY <2>1, TotalLeft
    <2> QED BY <1>0, <2>1, <2>2 DEF BooksInv
  <1>8. ASSUME NEW entered \in BOOLEAN, LogOne(entered)
        PROVE  BooksInv'
    <2>1. /\ phase = "log" /\ phase' = phase /\ left > 0 /\ left' = left - 1
          /\ UNCHANGED <<others, answers, aux, synthesis>>
      BY <1>8 DEF LogOne, members, synth
    <2>2. \/ ledger' = ledger + 1 /\ dropped' = dropped
          \/ ledger' = ledger /\ dropped' = dropped + 1
      BY <1>8 DEF LogOne
    <2>3. Total' = Total
      BY <2>1, TotalLeft
    <2> QED BY <1>0, <2>1, <2>2, <2>3 DEF BooksInv
  <1>9. CASE Logged
    <2>1. /\ phase = "log" /\ phase' = "closed" /\ left = 0
          /\ UNCHANGED <<left, ledger, others, dropped, answers, aux, synthesis>>
      BY <1>9 DEF Logged, members, synth, books
    <2>2. Total' = Total
      BY <2>1, TotalLeft
    <2> QED BY <1>0, <2>1, <2>2 DEF BooksInv
  <1>10. CASE ClientLeaves \/ UNCHANGED vars
    <2>1. UNCHANGED <<phase, left, ledger, others, dropped, answers, aux, synthesis>>
      BY <1>10 DEF ClientLeaves, vars, members, synth, books
    <2>2. Total' = Total
      BY <2>1, TotalLeft
    <2> QED BY <2>1, <2>2 DEF BooksInv
  <1>11. CASE OthersSpend
    <2>1. /\ others < MaxOthers /\ others' = others + 1 /\ ledger' = ledger + 1
          /\ UNCHANGED <<phase, left, dropped, answers, aux, synthesis>>
      BY <1>11 DEF OthersSpend, members, synth
    <2>2. Total' = Total
      BY <2>1, TotalLeft
    <2> QED BY <1>0, <2>1, <2>2, CouncilAssumption DEF BooksInv
  <1> QED BY <1>1, <1>2, <1>3, <1>4, <1>5, <1>6, <1>7, <1>8, <1>9, <1>10, <1>11, NextSplits DEF Later

-----------------------------------------------------------------------------
(* The costs                                                               *)

LEMMA AuxTyped == tries \in Nat => MaxAux \in Nat
  <1>1. Checked \in {0, 1} /\ Stopped \in {0, 1}
    BY DEF Checked, Stopped
  <1> QED BY <1>1 DEF MaxAux

LEMMA OwedTyped == Owed \in Nat
  <1>1. Price(synthesis) \in {0, 1} /\ Pending \in {0, 1}
    BY DEF Price, Pending
  <1> QED BY <1>1 DEF Owed

LEMMA CostsInit == Init => CostsInv
  <1> SUFFICES ASSUME Init PROVE CostsInv
    OBVIOUS
  <1>1. Reported = {} /\ Answered = {}
    BY DEF Init, Reported, Answered
  <1>2. Cardinality({}) = 0
    BY FS_EmptySet
  <1>3. KeptAre({})
    BY <1>1 DEF Init, KeptAre, Ended
  <1>4. Owed = 0 /\ MaxAux = 0
    BY DEF Init, Owed, Price, Pending, MaxAux, Checked, Stopped
  <1>5. Charges({})
    BY <1>1, <1>2, <1>4 DEF Init, Charges
  <1> QED BY <1>3, <1>5 DEF Init, CostsInv

\* What leaves the members' answers alone and moves a cost from one place to another.
LEMMA CostsMoved ==
    ASSUME CostsInv, UNCHANGED <<task, reported, answers>>, tries \in Nat,
           NEW d \in Nat, NEW e \in Nat,
           aux' = aux + d, charged' = charged + e, Owed' = Owed + e - d,
           MaxAux' \in Int, MaxAux + d <= MaxAux'
    PROVE  CostsInv'
  <1>1. PICK K \in SUBSET Member : KeptAre(K) /\ Charges(K)
    BY DEF CostsInv
  <1>2. KeptAre(K)'
    BY <1>1 DEF KeptAre, Ended, Answered
  <1>3. Reported' = Reported /\ Reported \in SUBSET Member
    BY DEF Reported
  <1>4. Cardinality(K) \in Nat /\ Cardinality(Reported) \in Nat /\ Cardinality(Reported') = Cardinality(Reported)
    BY <1>3, CountsTyped
  <1>5. MaxAux \in Nat /\ Owed \in Nat
    BY AuxTyped, OwedTyped
  <1>6. aux \in Nat /\ charged \in Nat
    BY DEF CostsInv
  <1>7. Charges(K)'
    BY <1>1, <1>4, <1>5, <1>6 DEF Charges
  <1>8. aux' \in Nat /\ charged' \in Nat
    BY <1>6
  <1> QED BY <1>2, <1>7, <1>8 DEF CostsInv

\* A member's report, and its answer or failure.
LEMMA RunsCosts ==
    ASSUME MembersInv, CostsInv, tries \in Nat,
           NEW m \in Member, Reports(m) \/ Answers(m) \/ Fails(m)
    PROVE  CostsInv'
  <1> USE DEF MembersInv, CostsInv
  <1>1. PICK K \in SUBSET Member : KeptAre(K) /\ Charges(K)
    OBVIOUS
  <1>2. /\ phase' = phase /\ aux' = aux /\ tries' = tries
        /\ synthesis' = synthesis /\ partial' = partial /\ task[m] = "streaming"
    BY DEF Reports, Answers, Fails, synth
  <1>3. MaxAux' = MaxAux /\ Owed' = Owed
    BY <1>2 DEF MaxAux, Checked, Stopped, Owed, Price, Pending
  <1>4. m \notin K
    BY <1>1, <1>2 DEF KeptAre, Ended
  <1>5. /\ Reported \in SUBSET Member
        /\ Cardinality(K) \in Nat /\ Cardinality(Reported) \in Nat
        /\ IsFiniteSet(Reported)
    BY CountsTyped DEF Reported
  <1>6. MaxAux \in Nat /\ Owed \in Nat
    BY AuxTyped, OwedTyped
  <1>7. CASE Reports(m)
    <2>1. /\ task' = task /\ answers' = answers /\ charged' = charged + 1
          /\ ~reported[m] /\ reported' = [reported EXCEPT ![m] = TRUE]
      BY <1>7 DEF Reports
    <2>2. Reported' = Reported \cup {m} /\ m \notin Reported
      BY <2>1 DEF Reported, MembersTyped
    <2>3. Cardinality(Reported') = Cardinality(Reported) + 1
      BY <1>5, <2>2, FS_AddElement
    <2>4. \A n \in Member : reported[n] => reported'[n]
      BY <2>1 DEF MembersTyped
    <2>5. \A n \in Member \ {m} : reported'[n] = reported[n]
      BY <2>1 DEF MembersTyped
    <2>6. KeptAre(K)'
      BY <1>1, <1>2, <2>1, <2>4, <2>5 DEF KeptAre, Ended, Answered
    <2>7. Charges(K)'
      <3> DEFINE r == Cardinality(Reported)
                 k == Cardinality(K)
      <3>1. charged + k = aux + r + Owed /\ k <= aux /\ aux <= k + MaxAux
        BY <1>1 DEF Charges
      <3>2. k \in Nat /\ r \in Nat /\ aux \in Nat /\ charged \in Nat
        BY <1>5
      <3> HIDE DEF r, k
      <3>3. (charged + 1) + k = aux + (r + 1) + Owed
        BY <1>6, <3>1, <3>2
      <3> QED BY <1>2, <1>3, <2>1, <2>3, <3>1, <3>3 DEF Charges, r, k
    <2> QED BY <1>2, <2>1, <2>6, <2>7
  <1>8. CASE Answers(m) \/ Fails(m)
    <2>1. /\ charged' = charged /\ reported' = reported
          /\ task'[m] \in {"answered", "failed"} /\ \A n \in Member \ {m} : task'[n] = task[n]
      BY <1>8 DEF Answers, Fails, MembersTyped
    <2>2. \/ answers' = answers
          \/ /\ task'[m] = "answered" /\ answers'[Label[m]] = PriceIf(reported[m])
             /\ \A l \in Labels \ {Label[m]} : answers'[l] = answers[l]
      BY <1>8, LabelTyped DEF Answers, Fails, MembersTyped
    <2>3. \A l \in Answered : l \in Answered'
      BY <2>2 DEF Answered, PriceIf
    <2>4. \A n \in K : Ended(n)' /\ reported'[n]
      BY <1>1, <1>4, <2>1 DEF KeptAre, Ended
    <2>5. \A n \in Member \ K : Ended(n)' /\ reported'[n] => Label[n] \in Answered'
      BY <1>1, <2>1, <2>3 DEF KeptAre, Ended
    <2>6. ASSUME NEW l \in Labels, answers'[l] = "priced"
          PROVE  \E n \in Member \ K : reported'[n] /\ Label[n] = l /\ task'[n] \in {"answered", "over"}
      <3>1. CASE answers[l] = "priced"
        <4>1. PICK n \in Member \ K : reported[n] /\ Label[n] = l /\ task[n] \in {"answered", "over"}
          BY <1>1, <3>1 DEF KeptAre
        <4>2. n # m
          BY <1>2, <4>1
        <4> QED BY <2>1, <4>1, <4>2
      <3>2. CASE answers[l] # "priced"
        <4>1. l = Label[m] /\ task'[m] = "answered" /\ PriceIf(reported[m]) = "priced"
          BY <2>2, <2>6, <3>2
        <4>2. reported[m]
          BY <4>1 DEF PriceIf
        <4> QED BY <1>4, <2>1, <4>1, <4>2
      <3> QED BY <3>1, <3>2
    <2>7. KeptAre(K)'
      BY <2>4, <2>5, <2>6 DEF KeptAre
    <2>8. Reported' = Reported
      BY <2>1 DEF Reported
    <2>9. Charges(K)'
      BY <1>1, <1>2, <1>3, <2>1, <2>8 DEF Charges
    <2> QED BY <1>2, <2>1, <2>7, <2>9
  <1> QED BY <1>7, <1>8

\* A member's end: a cost that no answer under its label carries is kept.
LEMMA EndsCosts ==
    ASSUME MembersInv, CostsInv, tries \in Nat,
           NEW m \in Member, Sent(m) \/ Pauses(m) \/ Cancelled(m)
    PROVE  CostsInv'
  <1> USE DEF MembersInv
  <1>1. PICK K \in SUBSET Member : KeptAre(K) /\ Charges(K)
    BY DEF CostsInv
  <1>2. /\ UNCHANGED <<phase, reported, answers, charged>>
        /\ synthesis' = synthesis /\ partial' = partial /\ tries' = tries
        /\ task[m] \notin {"over", "paused"} /\ task'[m] \in {"over", "paused"}
        /\ task[m] \in {"answered", "over"} => task'[m] = "over"
        /\ \A n \in Member \ {m} : task'[n] = task[n]
    BY DEF Sent, Pauses, Cancelled, synth, MembersTyped
  <1>3. KeepPartial(m)
    BY DEF Sent, Pauses, Cancelled
  <1>4. MaxAux' = MaxAux /\ Owed' = Owed /\ Reported' = Reported
    BY <1>2 DEF MaxAux, Checked, Stopped, Owed, Price, Pending, Reported
  <1>5. m \notin K
    BY <1>1, <1>2 DEF KeptAre, Ended
  <1>6. /\ Reported \in SUBSET Member /\ IsFiniteSet(K)
        /\ Cardinality(K) \in Nat /\ Cardinality(Reported) \in Nat
    BY CountsTyped DEF Reported
  <1>7. MaxAux \in Nat /\ Owed \in Nat /\ aux \in Nat /\ charged \in Nat
    BY AuxTyped, OwedTyped DEF CostsInv
  <1>8. Answered' = Answered
    BY <1>2 DEF Answered
  <1>9. CASE reported[m] /\ answers[Label[m]] = "none"
    <2>1. aux' = aux + 1
      BY <1>3, <1>9 DEF KeepPartial
    <2>2. \A n \in K \cup {m} : Ended(n)' /\ reported'[n]
      BY <1>1, <1>2, <1>5, <1>9 DEF KeptAre, Ended
    <2>3. \A n \in Member \ (K \cup {m}) : Ended(n)' /\ reported'[n] => Label[n] \in Answered'
      BY <1>1, <1>2, <1>8 DEF KeptAre, Ended
    <2>4. ASSUME NEW l \in Labels, answers'[l] = "priced"
          PROVE  \E n \in Member \ (K \cup {m}) :
                    reported'[n] /\ Label[n] = l /\ task'[n] \in {"answered", "over"}
      <3>1. PICK n \in Member \ K : reported[n] /\ Label[n] = l /\ task[n] \in {"answered", "over"}
        BY <1>1, <1>2, <2>4 DEF KeptAre
      <3>2. n # m
        BY <1>2, <1>9, <2>4, <3>1
      <3> QED BY <1>2, <3>1, <3>2
    <2>5. KeptAre(K \cup {m})'
      BY <2>2, <2>3, <2>4 DEF KeptAre
    <2>6. Cardinality(K \cup {m}) = Cardinality(K) + 1
      BY <1>5, <1>6, FS_AddElement
    <2>7. Charges(K \cup {m})'
      <3> DEFINE k == Cardinality(K)
                 r == Cardinality(Reported)
      <3>1. charged + k = aux + r + Owed /\ k <= aux /\ aux <= k + MaxAux
        BY <1>1 DEF Charges
      <3>2. k \in Nat /\ r \in Nat
        BY <1>6
      <3> HIDE DEF k, r
      <3>3. charged + (k + 1) = (aux + 1) + r + Owed /\ k + 1 <= aux + 1 /\ aux + 1 <= (k + 1) + MaxAux
        BY <1>7, <3>1, <3>2
      <3> QED BY <1>2, <1>4, <2>1, <2>6, <3>3 DEF Charges, k, r
    <2>8. aux' \in Nat /\ charged' \in Nat
      BY <1>2, <1>7, <2>1
    <2> QED BY <2>5, <2>7, <2>8 DEF CostsInv
  <1>10. CASE ~(reported[m] /\ answers[Label[m]] = "none")
    <2>1. aux' = aux
      BY <1>3, <1>10 DEF KeepPartial
    <2>2. \A n \in K : Ended(n)' /\ reported'[n]
      BY <1>1, <1>2, <1>5 DEF KeptAre, Ended
    <2>3. \A n \in Member \ K : Ended(n)' /\ reported'[n] => Label[n] \in Answered'
      <3>1. reported[m] => Label[m] \in Answered
        BY <1>10, LabelTyped DEF Answered
      <3> QED BY <1>1, <1>2, <1>8, <3>1 DEF KeptAre, Ended
    <2>4. ASSUME NEW l \in Labels, answers'[l] = "priced"
          PROVE  \E n \in Member \ K : reported'[n] /\ Label[n] = l /\ task'[n] \in {"answered", "over"}
      <3>1. PICK n \in Member \ K : reported[n] /\ Label[n] = l /\ task[n] \in {"answered", "over"}
        BY <1>1, <1>2, <2>4 DEF KeptAre
      <3> QED BY <1>2, <3>1
    <2>5. KeptAre(K)'
      BY <2>2, <2>3, <2>4 DEF KeptAre
    <2>6. Charges(K)'
      BY <1>1, <1>2, <1>4, <2>1 DEF Charges
    <2>7. aux' \in Nat /\ charged' \in Nat
      BY <1>2, <1>7, <2>1
    <2> QED BY <2>5, <2>6, <2>7 DEF CostsInv
  <1> QED BY <1>9, <1>10

LEMMA CostsStep == MembersInv /\ SynthInv /\ CostsInv /\ [Next]_vars => CostsInv'
  <1> SUFFICES ASSUME MembersInv, SynthInv, CostsInv, [Next]_vars PROVE CostsInv'
    OBVIOUS
  <1> DEFINE Kept3 == UNCHANGED <<task, reported, answers>>
  <1>0. /\ tries \in Nat /\ aux \in Nat /\ charged \in Nat /\ MaxAux \in Nat /\ Owed \in Nat
        /\ 0 \in Nat /\ 1 \in Nat
    BY AuxTyped, OwedTyped DEF SynthInv, SynthTyped, CostsInv
  \* Steps that cost nothing.
  <1>1. ASSUME Kept3, UNCHANGED <<aux, charged, synthesis, partial, tries>>,
               \/ phase' = phase
               \/ phase \in {"members", "draining"} /\ phase' \in {"draining", "agreement", "paused"}
               \/ /\ phase \in {"vote", "budget", "no candidates", "complete", "log"}
                  /\ phase' \in {"synthesis", "no candidates", "complete", "log", "closed"}
               \/ phase = "paused" /\ phase' = "paused, closed"
        PROVE  CostsInv'
    <2>1. Owed' = Owed /\ aux' = aux /\ charged' = charged /\ tries' = tries
      BY <1>1 DEF Owed, Price, Pending
    <2>2. /\ Checked' = Checked \/ (Checked = 0 /\ Checked' = 1)
          /\ Stopped' = Stopped \/ (Stopped = 0 /\ Stopped' = 1)
      BY <1>1 DEF Checked, Stopped
    <2>3. Checked \in {0, 1} /\ Stopped \in {0, 1}
      BY DEF Checked, Stopped
    <2>4. MaxAux' = Checked' + tries + Stopped'
      BY <2>1 DEF MaxAux
    <2>5. MaxAux' \in Int /\ MaxAux + 0 <= MaxAux'
      BY <1>0, <2>2, <2>3, <2>4 DEF MaxAux
    <2>6. aux' = aux + 0 /\ charged' = charged + 0 /\ Owed' = Owed + 0 - 0
      BY <1>0, <2>1
    <2> QED BY <1>0, <1>1, <2>5, <2>6, CostsMoved
  <1>2. ASSUME NEW cost \in {0, 1}, Agreement(cost)
        PROVE  CostsInv'
    <2>1. /\ Kept3 /\ phase = "agreement" /\ phase' \in {"vote", "budget", "complete"}
          /\ aux' = aux + cost /\ charged' = charged + cost
          /\ synthesis' = synthesis /\ partial' = partial /\ tries' = tries
      BY <1>2 DEF Agreement, AfterAgreement, members, synth
    <2>2. Owed' = Owed
      BY <2>1 DEF Owed, Price, Pending
    <2>3. Checked = 0 /\ Checked' = 1 /\ Stopped = 0 /\ Stopped' = 0
      BY <2>1 DEF Checked, Stopped
    <2>4. MaxAux' \in Int /\ MaxAux + cost <= MaxAux' /\ Owed' = Owed + cost - cost
      BY <1>0, <2>1, <2>2, <2>3 DEF MaxAux
    <2> QED BY <1>0, <2>1, <2>4, CostsMoved
  <1>3. CASE Vote
    <2>1. /\ Kept3 /\ phase = "vote" /\ phase' = "complete" /\ synthesis' = "unpriced"
          /\ aux' = aux /\ charged' = charged /\ partial' = partial /\ tries' = tries
      BY <1>3 DEF Vote, members
    <2>2. ~partial /\ synthesis = "none"
      BY <2>1 DEF SynthInv, Attempted
    <2>3. Owed' = 0 /\ Owed = 0
      BY <2>1, <2>2 DEF Owed, Price, Pending
    <2>4. Checked' = Checked /\ Stopped' = Stopped
      BY <2>1 DEF Checked, Stopped
    <2>5. MaxAux' = MaxAux
      BY <2>1, <2>4 DEF MaxAux
    <2>6. /\ aux' = aux + 0 /\ charged' = charged + 0 /\ Owed' = Owed + 0 - 0
          /\ MaxAux' \in Int /\ MaxAux + 0 <= MaxAux'
      BY <1>0, <2>1, <2>3, <2>5
    <2> QED BY <1>0, <2>1, <2>6, CostsMoved
  \* The synthesis: what an attempt has cost is pending until it is an answer or is kept.
  <1>4. CASE SynthReports
    <2>1. /\ Kept3 /\ phase = "synthesis" /\ phase' = phase /\ synthesis' = synthesis /\ synthesis = "none"
          /\ ~partial /\ partial' /\ aux' = aux /\ charged' = charged + 1 /\ tries' = tries
      BY <1>4 DEF SynthReports, members, SynthInv, Attempted
    <2>2. Owed = 0 /\ Owed' = 1
      BY <2>1 DEF Owed, Price, Pending
    <2>3. Checked' = Checked /\ Stopped' = Stopped
      BY <2>1 DEF Checked, Stopped
    <2>4. MaxAux' = MaxAux
      BY <2>1, <2>3 DEF MaxAux
    <2>5. /\ aux' = aux + 0 /\ charged' = charged + 1 /\ Owed' = Owed + 1 - 0
          /\ MaxAux' \in Int /\ MaxAux + 0 <= MaxAux'
      BY <1>0, <2>1, <2>2, <2>4
    <2> QED BY <1>0, <2>1, <2>5, CostsMoved
  <1>5. CASE SynthAnswers
    <2>1. /\ Kept3 /\ phase = "synthesis" /\ phase' = "complete" /\ synthesis = "none"
          /\ partial' = partial /\ aux' = aux /\ tries' = tries
          /\ synthesis' = PriceIf(partial \/ strategy = "best_of")
          /\ partial => strategy = "weighted"
      BY <1>5 DEF SynthAnswers, members, SynthInv, Attempted
    <2>2. PICK e \in {0, 1} : charged' = charged + e /\ (e = 1 <=> strategy = "best_of")
      BY <1>0, <1>5 DEF SynthAnswers
    <2>3. /\ Owed = Pending /\ Pending = (IF partial THEN 1 ELSE 0)
          /\ Owed' = (IF partial \/ strategy = "best_of" THEN 1 ELSE 0)
      BY <2>1 DEF Owed, Price, Pending, PriceIf
    <2>4. Owed' = Owed + e - 0
      BY <2>1, <2>2, <2>3
    <2>5. Checked' = Checked /\ Stopped' = Stopped
      BY <2>1 DEF Checked, Stopped
    <2>6. MaxAux' = MaxAux
      BY <2>1, <2>5 DEF MaxAux
    <2>7. aux' = aux + 0 /\ MaxAux' \in Int /\ MaxAux + 0 <= MaxAux' /\ e \in Nat
      BY <1>0, <2>1, <2>2, <2>6
    <2> QED BY <1>0, <2>1, <2>2, <2>4, <2>7, CostsMoved
  <1>6. CASE SynthFails \/ CallPauses
    <2>1. /\ Kept3 /\ phase \in {"synthesis", "agreement"} /\ synthesis = "none" /\ synthesis' = synthesis
          /\ charged' = charged /\ ~partial' /\ (phase = "agreement" => ~partial)
      BY <1>6 DEF SynthFails, CallPauses, members, SynthInv, Attempted
    <2>2. PICK d \in {0, 1} : aux' = aux + d /\ (d = 1 <=> partial)
      BY <1>0, <1>6 DEF SynthFails, CallPauses
    <2>3. Owed = d /\ Owed' = 0
      BY <2>1, <2>2 DEF Owed, Price, Pending
    <2>4. /\ Checked' = 1 /\ Stopped = 0
          /\ Checked = (IF phase = "agreement" THEN 0 ELSE 1)
          /\ \/ tries' = tries + 1 /\ Stopped' = 0 /\ phase = "synthesis"
             \/ tries' = tries /\ Stopped' = 1
      BY <1>6, <2>1 DEF SynthFails, CallPauses, Checked, Stopped
    <2>5. Checked \in {0, 1}
      BY <2>4
    <2>6. MaxAux' \in Int /\ MaxAux + d <= MaxAux'
      BY <1>0, <2>2, <2>4, <2>5 DEF MaxAux
    <2>7. charged' = charged + 0 /\ Owed' = Owed + 0 - d /\ d \in Nat
      BY <1>0, <2>1, <2>2, <2>3
    <2> QED BY <1>0, <2>1, <2>2, <2>6, <2>7, CostsMoved
  <1>7. CASE UNCHANGED vars
    BY <1>1, <1>7 DEF vars, members, synth
  <1>8. CASE StopSiblings \/ TimeUp \/ Drained
    <2>1. /\ Kept3 /\ UNCHANGED <<aux, charged, synthesis, partial, tries>>
          /\ phase \in {"members", "draining"} /\ phase' \in {"draining", "agreement", "paused"}
      BY <1>8 DEF StopSiblings, TimeUp, Drained, members, synth
    <2> QED BY <1>1, <2>1
  <1>9. CASE Admitted \/ Refused \/ NoCandidates
    <2>1. /\ Kept3 /\ UNCHANGED <<aux, charged, synthesis, partial, tries>>
          /\ phase \in {"vote", "budget", "no candidates", "complete", "log"}
          /\ phase' \in {"synthesis", "no candidates", "complete", "log", "closed"}
      BY <1>9 DEF Admitted, Refused, NoCandidates, members, synth
    <2> QED BY <1>1, <2>1
  <1>10. CASE Complete \/ Logged \/ ReportsPause
    <2>1. /\ Kept3 /\ UNCHANGED <<aux, charged, synthesis, partial, tries>>
          /\ \/ /\ phase \in {"vote", "budget", "no candidates", "complete", "log"}
                /\ phase' \in {"synthesis", "no candidates", "complete", "log", "closed"}
             \/ phase = "paused" /\ phase' = "paused, closed"
      BY <1>10 DEF Complete, Logged, ReportsPause, members, synth
    <2> QED BY <1>1, <2>1
  <1>11. ASSUME ClientLeaves \/ OthersSpend \/ \E entered \in BOOLEAN : LogOne(entered)
         PROVE  CostsInv'
    <2>1. Kept3 /\ UNCHANGED <<aux, charged, synthesis, partial, tries>> /\ phase' = phase
      BY <1>11 DEF ClientLeaves, OthersSpend, LogOne, members, synth
    <2> QED BY <1>1, <2>1
  <1>12. ASSUME NEW m \in Member, MemberStep(m)
         PROVE  CostsInv'
    BY <1>0, <1>12, RunsCosts, EndsCosts DEF MemberStep
  <1> QED BY <1>2, <1>3, <1>4, <1>5, <1>6, <1>7, <1>8, <1>9, <1>10, <1>11, <1>12, NextSplits DEF Later

-----------------------------------------------------------------------------
(* The properties                                                          *)

LEMMA InvStep == IInv /\ [Next]_vars => IInv'
  <1> SUFFICES ASSUME IInv, [Next]_vars PROVE IInv'
    OBVIOUS
  <1>1. aux \in Nat
    BY DEF IInv, CostsInv
  <1> QED BY <1>1, MembersStep, FlagsStep, SynthStep, CostsStep, BooksStep DEF IInv

\* Invariant: IInv, of which the properties below are consequences.
THEOREM InvAlways == Spec => []IInv
  <1>1. Init => IInv
    BY MembersInit, FlagsInit, SynthInit, CostsInit, BooksInit DEF IInv
  <1> QED BY <1>1, InvStep, PTL DEF Spec

\* However many members, attempts and limits there are: every variable keeps its type,
\* what is kept without an answer is one cost of each member, the agreement check's and
\* one of each attempt at most, and no more is left to log than the result has.
THEOREM TypeCorrect == Spec => []TypeOK
  <1>1. ASSUME IInv PROVE TypeOK
    <2> USE <1>1 DEF IInv
    <2>1. /\ strategy \in Strategies /\ synthesize \in BOOLEAN
          /\ task \in [Member -> {"streaming", "answered", "failed", "over", "paused"}]
          /\ reported \in [Member -> BOOLEAN]
          /\ told \in [Member -> {"nothing", "complete", "failed"}]
          /\ answers \in [Labels -> {"none", "unpriced", "priced"}]
          /\ failed \subseteq Labels /\ timedOut \in BOOLEAN
      BY DEF MembersInv, MembersTyped
    <2>2. partial \in BOOLEAN /\ refused \in BOOLEAN
      BY DEF FlagsTyped
    <2>3. synthesis \in {"none", "unpriced", "priced"}
      BY DEF SynthInv, SynthTyped
    <2>4. tries \in Nat /\ tries <= Attempts
      BY DEF SynthInv, SynthTyped
    <2>5. tries \in 0..Attempts
      BY <2>4, CouncilAssumption
    <2>6. aux \in 0..(Cardinality(Member) + 1 + Attempts)
      <3>1. PICK K \in SUBSET Member : Charges(K)
        BY DEF CostsInv
      <3>2. /\ Cardinality(K) \in Nat /\ Cardinality(Member) \in Nat
            /\ Cardinality(K) <= Cardinality(Member)
        BY CountsTyped, FS_Subset, FS_CardinalityType
      <3>7. phase \in {"paused", "paused, closed"} => tries # Attempts
        BY DEF SynthInv, Attempted
      <3>8. phase \notin {"paused", "paused, closed"} => Stopped = 0
        BY DEF Stopped
      <3>3. Stopped = 0 \/ tries # Attempts
        BY <3>7, <3>8
      <3>4. Checked \in {0, 1} /\ Stopped \in {0, 1}
        BY DEF Checked, Stopped
      <3>5. MaxAux \in Nat /\ MaxAux <= 1 + Attempts
        BY <2>4, <3>3, <3>4, CouncilAssumption DEF MaxAux
      <3>6. aux \in Nat /\ aux <= Cardinality(K) + MaxAux
        BY <3>1 DEF CostsInv, Charges
      <3> QED BY <3>2, <3>5, <3>6, CouncilAssumption
    <2>7. /\ left \in 0..Total /\ ledger \in Nat /\ others \in 0..MaxOthers
          /\ dropped \in 0..Total
      <3>1. Total \in Nat
        BY TotalTyped DEF CostsInv
      <3> QED BY <3>1 DEF BooksInv
    <2> QED BY <2>1, <2>2, <2>3, <2>5, <2>6, <2>7 DEF TypeOK
  <1> QED BY <1>1, InvAlways, PTL

\* However the members' answers, failures, the time limit and a pause fall together:
\* when the members are through, each label has an answer or a failure, and one of them
\* only, but where two members share it.
THEOREM NoneForgotten == Spec => []EachMemberOnce
  <1>1. IInv => EachMemberOnce
    BY DEF IInv, MembersInv, Counted, OwnLabel, Settled, EachMemberOnce
  <1> QED BY <1>1, InvAlways, PTL

\* A session in which no time limit struck has told the end of every member.
THEOREM SilenceMeansTimeout == Spec => []SilenceIsTimeout
  <1>1. ASSUME IInv, phase = "closed" PROVE timedOut \/ \A m \in Member : told[m] # "nothing"
    <2>1. ~Paused /\ \A m \in Member : Ended(m)
      BY <1>1 DEF IInv, MembersInv, Counted, Settled, Collecting
    <2>2. \A m \in Member : task[m] = "over"
      BY <2>1 DEF Ended, Paused
    <2> QED BY <1>1, <2>1, <2>2 DEF IInv, MembersInv, Counted, Cut
  <1> QED BY <1>1, InvAlways, PTL DEF SilenceIsTimeout

\* Which costs a session lacks when it has closed: as many as members reported one
\* without their answer counting, less the answers that are priced.
LEMMA ClosedBooks ==
    ASSUME IInv, phase = "closed"
    PROVE  \E K \in SUBSET Reported :
              /\ KeptAre(K)
              /\ charged - (ledger - others) - dropped = Cardinality(Reported \ K) - MemberCost
  <1> USE DEF IInv
  <1>1. PICK K \in SUBSET Member : KeptAre(K) /\ Charges(K)
    BY DEF CostsInv
  <1>2. K \subseteq Reported /\ Reported \in SUBSET Member
    BY <1>1 DEF KeptAre, Reported
  <1>3. K = Reported \cap K
    BY <1>2
  <1>4. Cardinality(Reported \ K) = Cardinality(Reported) - Cardinality(K)
    BY <1>2, <1>3, CountsTyped, FS_Difference
  <1>5. Cardinality(Reported) \in Nat /\ Cardinality(K) \in Nat /\ MemberCost \in Nat
    BY <1>2, CountsTyped
  <1>6. Pending = 0
    BY DEF Pending, SynthInv, Attempted
  <1>7. Price(synthesis) \in {0, 1}
    BY DEF Price
  <1>8. charged + Cardinality(K) = aux + Cardinality(Reported) + Price(synthesis)
    BY <1>1, <1>6, <1>7 DEF Charges, Owed
  <1>9. (ledger - others) + dropped = MemberCost + aux + Price(synthesis)
    BY DEF BooksInv, Total
  <1>10. ledger \in Nat /\ others \in Nat /\ dropped \in Nat /\ aux \in Nat /\ charged \in Nat
    BY DEF BooksInv, CostsInv
  <1>11. charged - (ledger - others) - dropped = Cardinality(Reported) - Cardinality(K) - MemberCost
    BY <1>5, <1>7, <1>8, <1>9, <1>10
  <1> QED BY <1>1, <1>2, <1>4, <1>11

\* However many members share labels, and whatever breaks off, times out or is paused: a
\* session that has closed has entered or been refused every cost, but at most one of
\* each member whose label another one answered under.
THEOREM NoCostLost == Spec => []CostsAccounted
  <1>1. ASSUME IInv, phase = "closed" PROVE CostsAccounted
    <2> DEFINE missing == charged - (ledger - others) - dropped
               twins   == {m \in Member : reported[m] /\ Sharing(m) /\ Label[m] \in Answered}
               priced  == {l \in Labels : answers[l] = "priced"}
    <2>1. PICK K \in SUBSET Reported :
              KeptAre(K) /\ missing = Cardinality(Reported \ K) - MemberCost
      BY <1>1, ClosedBooks
    <2> DEFINE D  == Reported \ K
               Dp == {m \in D : answers[Label[m]] = "priced"}
    <2>2. /\ \A m \in D : m \in Member /\ reported[m] /\ Label[m] \in Answered
          /\ \A m \in Member : Ended(m)
      BY <1>1, <2>1 DEF KeptAre, Reported, IInv, MembersInv, Counted, Collecting
    <2>3. D \in SUBSET Member /\ twins \in SUBSET Member /\ IsFiniteSet(priced)
      BY CountsTyped, FS_Subset DEF Reported
    <2>4. IsFiniteSet(D) /\ IsFiniteSet(twins) /\ Cardinality(D) \in Nat /\ Cardinality(twins) \in Nat
      BY <2>3, CountsTyped
    <2>5. MemberCost = Cardinality(priced) /\ MemberCost \in Nat
      BY CountsTyped DEF MemberCost
    <2>6. MemberCost <= Cardinality(D)
      <3> DEFINE f == [m \in Dp |-> Label[m]]
      <3>1. \A m \in Dp : Label[m] \in priced
        BY <2>2, LabelTyped
      <3>2. ASSUME NEW l \in priced PROVE \E m \in Dp : Label[m] = l
        <4>1. PICK m \in Member \ K : reported[m] /\ Label[m] = l
          BY <2>1 DEF KeptAre
        <4> QED BY <4>1 DEF Reported
      <3>3. f \in Surjection(Dp, priced)
        BY <3>1, <3>2 DEF Surjection
      <3>4. Dp \in SUBSET D
        OBVIOUS
      <3>5. IsFiniteSet(Dp) /\ Cardinality(Dp) <= Cardinality(D)
        BY <2>4, <3>4, FS_Subset
      <3>6. Cardinality(priced) <= Cardinality(Dp)
        BY <3>3, <3>5, FS_Surjection
      <3>7. Cardinality(Dp) \in Nat
        BY <3>5, FS_CardinalityType
      <3> HIDE DEF Dp, D, priced
      <3> QED BY <2>4, <2>5, <3>5, <3>6, <3>7
    <2>7. Cardinality(D) <= MemberCost + Cardinality(twins)
      <3> DEFINE own == D \ twins
                 g   == [m \in own |-> Label[m]]
      <3>1. \A m \in own : ~Sharing(m) /\ Label[m] \in priced
        <4>1. SUFFICES ASSUME NEW m \in own PROVE ~Sharing(m) /\ Label[m] \in priced
          OBVIOUS
        <4>2. m \in Member /\ ~Sharing(m) /\ reported[m] /\ Label[m] \in Answered
          BY <2>2
        <4>3. answers[Label[m]] = PriceIf(reported[m])
          BY <1>1, <4>2 DEF IInv, MembersInv, OwnLabel
        <4> QED BY <4>2, <4>3, LabelTyped DEF PriceIf
      <3>2. \A m, n \in own : Label[m] = Label[n] => m = n
        BY <2>3, <3>1 DEF Sharing
      <3>3. g \in Injection(own, priced)
        BY <3>1, <3>2 DEF Injection, IsInjective
      <3>4. Cardinality(own) <= Cardinality(priced)
        BY <2>3, <3>3, FS_Injection
      <3>5. /\ Cardinality(own) = Cardinality(D) - Cardinality(D \cap twins)
            /\ IsFiniteSet(own)
        BY <2>4, FS_Difference
      <3>6. Cardinality(D \cap twins) <= Cardinality(twins) /\ IsFiniteSet(D \cap twins)
        BY <2>4, FS_Intersection
      <3>7. Cardinality(own) \in Nat /\ Cardinality(D \cap twins) \in Nat
        BY <3>5, <3>6, FS_CardinalityType
      <3> HIDE DEF own, D, twins, priced
      <3> QED BY <2>4, <2>5, <3>4, <3>5, <3>6, <3>7
    <2>8. missing \in 0..Cardinality(twins)
      <3> HIDE DEF missing, D, twins
      <3> QED BY <2>1, <2>4, <2>5, <2>6, <2>7 DEF D
    <2> QED BY <2>8 DEF CostsAccounted
  <1>2. IInv => CostsAccounted
    BY <1>1 DEF CostsAccounted
  <1> QED BY <1>2, InvAlways, PTL

\* Whatever fails, is refused or is paused: the client that is still there has been shown
\* how the session ended, with the first reason and not a later one.
THEOREM ScreenTells == Spec => []ScreenIsTrue
  <1>1. IInv => ScreenIsTrue
    BY SomeAttempts DEF IInv, SynthInv, Seen, Attempted, Shown, ScreenIsTrue, Over
  <1> QED BY <1>1, InvAlways, PTL
=============================================================================
