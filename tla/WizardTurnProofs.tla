-------------------------- MODULE WizardTurnProofs --------------------------
(***************************************************************************)
(* Proofs about WizardTurn: the question that comes last, the calls and    *)
(* the costs that are not lost, the ceiling, the turn nobody attends, and  *)
(* the card that acts once, for replies of any length and any number of    *)
(* completions.                                                            *)
(*                                                                         *)
(* Types apart, the invariant says that each card is from an earlier       *)
(* completion than the one in hand (Cards), that what the model made and   *)
(* is in no list yet is still in hand (Calls), how the meter, the ceiling  *)
(* and the ledger stand at each place (Money), and that a scheduled turn   *)
(* holds nothing to ask (Nobody).  Of the approvals it says that one that  *)
(* ran something is still remembered, with no more after it in the memory  *)
(* than were spent since (Remembered).                                     *)
(***************************************************************************)
EXTENDS WizardTurn, TLAPS, WellFoundedInduction, FiniteSetTheorems

Busy == {"calling", "entering", "execute", "defer"}

Cards ==
    /\ pc \in {"start", "iterate"} \cup Busy => ~Asked
    /\ \A c \in DOMAIN cards :
          cards[c] \in Nat /\ cards[c] <= iteration /\ (pc \in Busy => cards[c] < iteration)
    /\ AskedThenStops /\ HeldForQuestion

InHand ==
    CASE pc = "execute"                -> Elements(batch) \cup Elements(held)
      [] pc \in {"entering", "defer"} -> Elements(batch)
      [] OTHER                         -> {}

Calls ==
    /\ pc # "gone" => made \subseteq results \cup DOMAIN cards \cup deferred \cup InHand
    /\ pc \in {"log", "over"} => made \subseteq told /\ (~Unattended => shown = DOMAIN cards)

Meter ==
    /\ spent < ceiling + MaxCost
    /\ pc \in {"start", "iterate", "calling", "entering", "execute"} => total < ceiling
    /\ total <= spent /\ spent <= total + MaxCost
    /\ pc \notin {"entering", "gone"} => spent = total

Entries ==
    /\ ~lost /\ (kind # "stream" \/ pc = "over") => ledger = total
    /\ kind = "stream" /\ pc \notin Over => ledger = 0 /\ ~lost

Money == Meter /\ Entries

Nobody ==
    Unattended => /\ ~Asked /\ issued \cap Call = {}
                  /\ pc \in {"entering", "execute"} => \A c \in Elements(held) : ~Question(c)

Places ==
    /\ pc = "start" => iteration = 0
    /\ pc = "log" => kind = "stream"
    /\ pc = "entering" => kind # "stream"
Room   == pc = "iterate" => iteration < cap
Worked == pc \in Busy => iteration > 0

IInv == TurnTypeOK /\ Places /\ Room /\ Worked /\ Cards /\ Calls /\ Money /\ Nobody

-----------------------------------------------------------------------------
\* The dearest completion is one of them.
LEMMA MaxCostBounds == MaxCost \in Costs /\ \A c \in Costs : c <= MaxCost
  BY TurnAssumption DEF MaxCost

\* A question among asks has a first one in the reply.
LEMMA FirstQuestion ==
  ASSUME NEW calls \in Seq(Call), NEW asks \in SUBSET Elements(calls), ~Asked,
         \E c \in asks : Question(c)
  PROVE  \E q \in asks : Question(q) /\ TheQuestion(calls, asks) = {q}
  <1> DEFINE At == {i \in 1..Len(calls) : calls[i] \in asks /\ Question(calls[i])}
  <1>1. At # {} /\ At \subseteq Nat
    BY DEF Elements
  <1>2. PICK n \in At : \A m \in At : <<m, n>> \notin OpToRel(<, Nat)
    BY <1>1, WFMin, NatLessThanWellFounded, Zenon
  <1>3. \A m \in At : ~(m < n)
    BY <1>1, <1>2 DEF OpToRel
  <1> QED BY <1>1, <1>3 DEF TheQuestion

\* What is for the user: the first question alone, or all of asks if there is none.
LEMMA ForUserShape ==
  ASSUME NEW calls \in Seq(Call), NEW asks \in SUBSET Elements(calls), ~Asked
  PROVE  /\ ForUser(calls, asks) \subseteq asks
         /\ (\E c \in asks : Question(c)) =>
               /\ TheQuestion(calls, asks) # {}
               /\ \E q \in asks : Question(q) /\ ForUser(calls, asks) = {q}
         /\ (\A c \in asks : ~Question(c)) =>
               TheQuestion(calls, asks) = {} /\ ForUser(calls, asks) = asks
  <1>1. CASE \E c \in asks : Question(c)
    <2>1. PICK q \in asks : Question(q) /\ TheQuestion(calls, asks) = {q}
      BY <1>1, FirstQuestion
    <2>2. TheQuestion(calls, asks) # {} /\ ForUser(calls, asks) = {q}
      BY <2>1 DEF ForUser
    <2> QED BY <1>1, <2>1, <2>2
  <1>2. CASE \A c \in asks : ~Question(c)
    <2>1. TheQuestion(calls, asks) = {}
      BY <1>2 DEF TheQuestion
    <2> QED BY <1>2, <2>1 DEF ForUser
  <1> QED BY <1>1, <1>2

\* A sequence's elements are among those it may have, and its head and tail have them all.
LEMMA ElementsOf ==
  ASSUME NEW s \in Seq(Call)
  PROVE  /\ Elements(s) \subseteq Call
         /\ s = <<>> => Elements(s) = {}
         /\ s # <<>> => /\ Head(s) \in Call /\ Tail(s) \in Seq(Call)
                        /\ Elements(s) = {Head(s)} \cup Elements(Tail(s))
         /\ \A c \in Call : /\ Append(s, c) \in Seq(Call)
                            /\ Elements(Append(s, c)) = Elements(s) \cup {c}
  <1>1. Elements(s) \subseteq Call /\ (s = <<>> => Elements(s) = {})
    BY DEF Elements
  <1>2. ASSUME s # <<>>
        PROVE  /\ Head(s) \in Call /\ Tail(s) \in Seq(Call)
               /\ Elements(s) = {Head(s)} \cup Elements(Tail(s))
    <2>1. Len(s) \in Nat \ {0} /\ Head(s) = s[1] /\ Tail(s) \in Seq(Call) /\ Len(Tail(s)) = Len(s) - 1
      BY <1>2
    <2>2. \A i \in 1..Len(Tail(s)) : Tail(s)[i] = s[i + 1]
      BY <1>2
    <2>3. ASSUME NEW c \in Elements(s) PROVE c = s[1] \/ c \in Elements(Tail(s))
      <3>1. PICK i \in 1..Len(s) : c = s[i]
        BY DEF Elements
      <3>2. CASE i = 1 BY <3>1, <3>2
      <3>3. CASE i # 1
        <4>1. i - 1 \in 1..Len(Tail(s)) /\ Tail(s)[i - 1] = s[i]
          BY <2>1, <2>2, <3>1, <3>3
        <4> QED BY <3>1, <4>1 DEF Elements
      <3> QED BY <3>2, <3>3
    <2>4. ASSUME NEW c \in Elements(Tail(s)) PROVE c \in Elements(s)
      <3>1. PICK i \in 1..Len(Tail(s)) : c = Tail(s)[i]
        BY DEF Elements
      <3>2. i + 1 \in 1..Len(s) /\ c = s[i + 1]
        BY <2>1, <2>2, <3>1
      <3> QED BY <3>2 DEF Elements
    <2>5. s[1] \in Elements(s) /\ s[1] \in Call
      BY <2>1 DEF Elements
    <2> QED BY <2>1, <2>3, <2>4, <2>5
  <1>3. ASSUME NEW c \in Call
        PROVE  Append(s, c) \in Seq(Call) /\ Elements(Append(s, c)) = Elements(s) \cup {c}
    <2>1. /\ Append(s, c) \in Seq(Call) /\ Len(Append(s, c)) = Len(s) + 1 /\ Len(s) \in Nat
          /\ Append(s, c)[Len(s) + 1] = c
          /\ \A i \in 1..Len(s) : Append(s, c)[i] = s[i]
      OBVIOUS
    <2> QED BY <2>1 DEF Elements
  <1> QED BY <1>1, <1>2, <1>3

\* The cards after a reply was dealt with: a question is alone with those of earlier ones.
LEMMA SurfaceKeeps ==
  ASSUME NEW calls \in Seq(Call), NEW asks \in SUBSET Elements(calls),
         Cards, pc \in {"execute", "defer"}, iteration \in Nat, Surface(calls, asks)
  PROVE  /\ DOMAIN cards' = DOMAIN cards \cup ForUser(calls, asks)
         /\ \A c \in DOMAIN cards' : cards'[c] = IF c \in DOMAIN cards THEN cards[c] ELSE iteration
         /\ Asked' <=> \E c \in asks : Question(c)
         /\ \A c, d \in DOMAIN cards' : Question(c) /\ Question(d) => c = d
         /\ HeldForQuestion'
  <1> DEFINE F == ForUser(calls, asks)
  <1>1. ~Asked /\ \A c \in DOMAIN cards : ~Question(c) /\ cards[c] \in Nat /\ cards[c] < iteration
    BY DEF Cards, Busy, Asked
  <1>2. /\ F \subseteq asks
        /\ (\E c \in asks : Question(c)) => \E q \in asks : Question(q) /\ F = {q}
        /\ (\A c \in asks : ~Question(c)) => F = asks
    BY <1>1, ForUserShape
  <1> HIDE DEF F
  <1>3. cards' = [c \in DOMAIN cards \cup (F \ DOMAIN cards) |->
                    IF c \in F \ DOMAIN cards THEN iteration ELSE cards[c]]
    BY DEF Surface, F
  <1>4. /\ DOMAIN cards' = DOMAIN cards \cup F
        /\ \A c \in DOMAIN cards' : cards'[c] = IF c \in DOMAIN cards THEN cards[c] ELSE iteration
    BY <1>3
  <1>5. Asked' <=> \E c \in asks : Question(c)
    BY <1>1, <1>2, <1>4 DEF Asked, Question
  <1>6. \A c, d \in DOMAIN cards' : Question(c) /\ Question(d) => c = d
    BY <1>1, <1>2, <1>4
  <1>7. HeldForQuestion'
    <2> SUFFICES ASSUME NEW c \in DOMAIN cards', NEW d \in DOMAIN cards', Question(c), ~Question(d)
                 PROVE  cards'[d] < cards'[c]
      BY DEF HeldForQuestion, Question
    <2>1. c \in F /\ c \notin DOMAIN cards /\ F = {c}
      BY <1>1, <1>2, <1>4
    <2>2. d \in DOMAIN cards
      BY <1>4, <2>1
    <2> QED BY <1>1, <1>4, <2>1, <2>2
  <1> QED BY <1>4, <1>5, <1>6, <1>7 DEF F

-----------------------------------------------------------------------------
\* Nothing has been asked for, and nothing made.
LEMMA InitOK == Init => IInv
  <1> SUFFICES ASSUME Init PROVE IInv
    OBVIOUS
  <1>1. TurnTypeOK
    <2>1. iteration \in 0..cap /\ batch \in Seq(Call) /\ held \in Seq(Call) /\ restarts \in 0..MaxRestarts
      BY TurnAssumption DEF Init, Caps
    <2>2. ran \in BOOLEAN /\ lost \in BOOLEAN
      BY DEF Init
    <2>3. DOMAIN cards = {} /\ shown = {} /\ total = 0 /\ ledger = 0 /\ spent = 0
      BY DEF Init
    <2>4. results = {} /\ deferred = {} /\ made = {} /\ told = {}
      BY DEF Init
    <2>5. kind \in {"blocking", "stream", "scheduled"} /\ cap \in Caps /\ ceiling \in Ceilings /\ pc = "start"
      BY DEF Init
    <2> QED BY <2>1, <2>2, <2>3, <2>4, <2>5 DEF TurnTypeOK
  <1>2. Places /\ Room /\ Worked
    BY DEF Init, Places, Room, Worked, Busy
  <1>3. Cards
    BY DEF Init, Cards, Asked, AskedThenStops, HeldForQuestion
  <1>4. Calls
    BY DEF Init, Calls
  <1>5. Money
    <2>1. MaxCost \in Nat /\ ceiling \in Nat \ {0}
      BY MaxCostBounds, TurnAssumption DEF Init
    <2> QED BY <2>1 DEF Init, Money, Meter, Entries, Over
  <1>6. Nobody
    BY DEF Init, Nobody, Asked, ApprovalInit
  <1> QED BY <1>1, <1>2, <1>3, <1>4, <1>5, <1>6 DEF IInv

\* A step that leaves cards and calls alone keeps what is said of them in its new place.
LEMMA PrepareOK == IInv /\ Prepare => IInv'
  <1> SUFFICES ASSUME IInv, Prepare PROVE IInv'
    OBVIOUS
  <1> USE DEF IInv, Prepare
  <1>1. TurnTypeOK'
    BY DEF TurnTypeOK, Caps, Over
  <1>2. Places' /\ Room' /\ Worked'
    BY TurnAssumption DEF Places, Room, Worked, Busy, TurnTypeOK, Caps
  <1>3. Cards'
    BY DEF Cards, Asked, AskedThenStops, HeldForQuestion, Busy, Question
  <1>4. Calls'
    BY DEF Calls, InHand
  <1>5. Money'
    BY DEF Money, Meter, Entries, Over
  <1>6. Nobody'
    BY DEF Nobody, Asked, Unattended, Question, approvalVars
  <1> QED BY <1>1, <1>2, <1>3, <1>4, <1>5, <1>6

LEMMA CompleteOK == IInv /\ Complete => IInv'
  <1> SUFFICES ASSUME IInv, Complete PROVE IInv'
    OBVIOUS
  <1> USE DEF IInv, Complete
  <1>1. TurnTypeOK'
    BY DEF TurnTypeOK, Caps, Over, Counted, Room
  <1>2. Places' /\ Room' /\ Worked'
    BY DEF Places, Room, Worked, Busy, Counted, TurnTypeOK, Caps
  <1>3. Cards'
    BY DEF Cards, Asked, AskedThenStops, HeldForQuestion, Busy, Question, Counted, TurnTypeOK, Caps
  <1>4. Calls'
    BY DEF Calls, InHand
  <1>5. Money'
    BY DEF Money, Meter, Entries, Over
  <1>6. Nobody'
    BY DEF Nobody, Asked, Unattended, Question, approvalVars
  <1> QED BY <1>1, <1>2, <1>3, <1>4, <1>5, <1>6

LEMMA FailsOK == IInv /\ Fails => IInv'
  <1> SUFFICES ASSUME IInv, Fails PROVE IInv'
    OBVIOUS
  <1> USE DEF IInv, Fails
  <1>1. TurnTypeOK'
    BY DEF TurnTypeOK, Caps, Over
  <1>2. Places' /\ Room' /\ Worked'
    BY DEF Places, Room, Worked, Busy, Counted, TurnTypeOK, Caps
  <1>3. Cards'
    BY DEF Cards, Asked, AskedThenStops, HeldForQuestion, Busy, Question
  <1>4. Calls'
    BY DEF Calls, InHand
  <1>5. Money'
    BY DEF Money, Meter, Entries, Over
  <1>6. Nobody'
    BY DEF Nobody, Asked, Unattended, Question, approvalVars
  <1> QED BY <1>1, <1>2, <1>3, <1>4, <1>5, <1>6

\* The ceiling decides before anything is run.
LEMMA PlaceBelow ==
  ASSUME NEW cost \in Nat, NEW reply
  PROVE  /\ NextPlace(cost, reply) \in {"execute", "defer"}
         /\ ceiling \in Nat /\ NextPlace(cost, reply) = "execute" => cost < ceiling
  <1>1. NextPlace(cost, reply) \in {"execute", "defer"}
    BY DEF NextPlace
  <1>2. NextPlace(cost, reply) = "execute" => ~CeilingReached(cost)
    BY DEF NextPlace
  <1>3. ceiling \in Nat /\ ~CeilingReached(cost) => cost < ceiling
    BY DEF CeilingReached
  <1> QED BY <1>1, <1>2, <1>3

\* What a completion brings is in hand, and its cost is not in the ledger yet.
LEMMA ReturnsOK ==
  ASSUME IInv, NEW reply \in Reply, NEW cost \in Costs, Returns(reply, cost)
  PROVE  IInv'
  <1> USE DEF IInv
  <1>1. /\ reply \in Seq(Call) /\ Elements(reply) \subseteq Call
        /\ <<>> \in Seq(Call) /\ Elements(<<>>) = {}
    <2>1. reply \in Seq(Call) /\ <<>> \in Seq(Call)
      BY TurnAssumption
    <2>2. Elements(<<>>) = {}
      BY DEF Elements
    <2> QED BY <2>1, <2>2, ElementsOf
  <1>2. /\ cost \in Nat /\ cost <= MaxCost /\ MaxCost \in Nat /\ ceiling \in Nat \ {0}
        /\ total \in Nat /\ ledger \in Nat /\ spent \in Nat
    BY MaxCostBounds, TurnAssumption DEF TurnTypeOK
  <1>3. /\ pc = "calling" /\ batch' = reply /\ held' = <<>> /\ ran' = FALSE
        /\ made' = made \cup Elements(reply) /\ spent' = spent + cost
        /\ UNCHANGED <<kind, cap, ceiling, iteration, results, cards, deferred, ledger, lost,
                       told, shown, restarts, approvalVars>>
    BY DEF Returns
  <1>4. \/ kind = "stream" /\ total' = total + cost /\ pc' = NextPlace(total + cost, reply)
        \/ kind # "stream" /\ total' = total /\ pc' = "entering"
    BY DEF Returns
  <1>5. total + cost \in Nat
    BY <1>2
  <1>6. /\ pc' \in {"entering", "execute", "defer"}
        /\ pc' = "entering" => kind # "stream"
        /\ kind = "stream" => pc' # "entering"
        /\ kind = "stream" /\ pc' = "execute" => total + cost < ceiling
    BY <1>2, <1>4, <1>5, PlaceBelow
  <1>7. total' \in Nat /\ spent' \in Nat
    BY <1>2, <1>3, <1>4
  <1>8. TurnTypeOK'
    <2>1. made' \subseteq Call /\ batch' \in Seq(Call) /\ held' \in Seq(Call)
      BY <1>1, <1>3 DEF TurnTypeOK
    <2>2. ran' \in BOOLEAN
      BY <1>3
    <2> QED BY <1>3, <1>6, <1>7, <2>1, <2>2 DEF TurnTypeOK
  <1>9. Places' /\ Room' /\ Worked'
    BY <1>3, <1>6 DEF Places, Room, Worked, Busy
  <1>10. Cards'
    BY <1>3, <1>6 DEF Cards, Asked, AskedThenStops, HeldForQuestion, Busy, Question
  <1>11. Calls'
    <2>1. Elements(held') = {} /\ Elements(batch') = Elements(reply)
      BY <1>1, <1>3
    <2>2. InHand = {} /\ InHand' = Elements(reply)
      BY <1>3, <1>6, <2>1 DEF InHand
    <2> QED BY <1>3, <1>6, <2>2 DEF Calls
  <1>12. Money'
    <2>1. total < ceiling /\ spent = total
      BY <1>3 DEF Money, Meter
    <2>2. /\ spent' < ceiling' + MaxCost
          /\ total' <= spent' /\ spent' <= total' + MaxCost
          /\ kind = "stream" => spent' = total'
          /\ pc' \in {"entering", "execute"} => total' < ceiling'
      BY <1>2, <1>3, <1>4, <1>6, <2>1
    <2>3. Meter'
      BY <1>3, <1>4, <1>6, <2>2 DEF Meter
    <2>4. Entries'
      BY <1>3, <1>4, <1>6 DEF Money, Entries, Over
    <2> QED BY <2>3, <2>4 DEF Money
  <1>13. Nobody'
    <2>1. held' = <<>> /\ Elements(held') = {}
      BY <1>1, <1>3
    <2> QED BY <1>3, <2>1 DEF Nobody, Asked, Unattended, Question, approvalVars
  <1> QED BY <1>8, <1>9, <1>10, <1>11, <1>12, <1>13

\* With the entry over the completion is in the meter, and in the ledger if it did not fail.
LEMMA EnteredOK == IInv /\ Entered => IInv'
  <1> SUFFICES ASSUME IInv, Entered PROVE IInv'
    OBVIOUS
  <1> USE DEF IInv
  <1>1. /\ pc = "entering" /\ total' = spent /\ pc' = NextPlace(spent, batch)
        /\ \/ ledger' = ledger + (spent - total) /\ lost' = lost
           \/ lost' = TRUE /\ ledger' = ledger
        /\ UNCHANGED <<kind, cap, ceiling, iteration, batch, held, ran, results, cards, deferred,
                       spent, made, told, shown, restarts, approvalVars>>
    BY DEF Entered, Enter, Fee
  <1>2. /\ total \in Nat /\ ledger \in Nat /\ spent \in Nat /\ ceiling \in Nat /\ MaxCost \in Nat
        /\ total <= spent
    BY MaxCostBounds, TurnAssumption DEF TurnTypeOK, Money, Meter
  <1>3. pc' \in {"execute", "defer"} /\ (pc' = "execute" => spent < ceiling)
    BY <1>1, <1>2, PlaceBelow
  <1>4. ledger' \in Nat
    BY <1>1, <1>2
  <1>5. lost' \in BOOLEAN
    BY <1>1 DEF TurnTypeOK
  <1>6. TurnTypeOK'
    BY <1>1, <1>2, <1>3, <1>4, <1>5 DEF TurnTypeOK
  <1>7. Places' /\ Room' /\ Worked'
    BY <1>1, <1>3 DEF Places, Room, Worked, Busy
  <1>8. Cards'
    BY <1>1, <1>3 DEF Cards, Asked, AskedThenStops, HeldForQuestion, Busy, Question
  <1>9. Calls'
    <2>1. InHand = Elements(batch) /\ InHand \subseteq InHand'
      BY <1>1, <1>3 DEF InHand
    <2> QED BY <1>1, <1>3, <2>1 DEF Calls
  <1>10. Money'
    <2>1. kind # "stream"
      BY <1>1 DEF Places
    <2>2. Meter'
      BY <1>1, <1>2, <1>3 DEF Money, Meter
    <2>3. ~lost' => ledger' = total'
      <3>1. ~lost => ledger = total
        BY <2>1 DEF Money, Entries
      <3>2. ~lost' => ~lost /\ ledger' = ledger + (spent - total)
        BY <1>1
      <3>3. ledger = total /\ ledger' = ledger + (spent - total) => ledger' = spent
        BY <1>2
      <3> QED BY <1>1, <3>1, <3>2, <3>3
    <2>4. Entries'
      BY <1>1, <2>1, <2>3 DEF Entries
    <2> QED BY <2>2, <2>4 DEF Money
  <1>11. Nobody'
    <2>1. Unattended => ~Asked /\ issued \cap Call = {}
      BY DEF Nobody
    <2>2. Unattended => \A c \in Elements(held') : ~Question(c)
      BY <1>1 DEF Nobody
    <2> QED BY <1>1, <2>1, <2>2 DEF Nobody, Asked, Unattended, Question, approvalVars
  <1> QED BY <1>6, <1>7, <1>8, <1>9, <1>10, <1>11

\* Each call goes from the batch into the results or among those held.
LEMMA ExecuteOK == IInv /\ Execute => IInv'
  <1> SUFFICES ASSUME IInv, Execute PROVE IInv'
    OBVIOUS
  <1> USE DEF IInv
  <1> DEFINE c == Head(batch)
  <1>1. /\ c \in Call /\ Tail(batch) \in Seq(Call) /\ Elements(batch) = {c} \cup Elements(Tail(batch))
        /\ Append(held, c) \in Seq(Call) /\ Elements(Append(held, c)) = Elements(held) \cup {c}
    BY ElementsOf DEF Execute, TurnTypeOK
  <1>2. /\ pc = "execute" /\ pc' = "execute" /\ batch' = Tail(batch)
        /\ \/ NotRunHere(c) /\ held' = Append(held, c) /\ results' = results /\ ran' = ran
           \/ ~NotRunHere(c) /\ results' = results \cup {c} /\ held' = held /\ ran' \in BOOLEAN
    BY DEF Execute, TurnTypeOK
  <1>3. UNCHANGED <<kind, cap, ceiling, iteration, cards, deferred, total, ledger, lost, spent, made, told,
                    shown, restarts, approvalVars>>
    BY DEF Execute
  <1> HIDE DEF c
  <1>4. TurnTypeOK'
    <2>1. batch' \in Seq(Call) /\ held' \in Seq(Call) /\ results' \subseteq Call
      BY <1>1, <1>2 DEF TurnTypeOK
    <2>2. ran' \in BOOLEAN
      BY <1>2 DEF TurnTypeOK
    <2> QED BY <1>2, <1>3, <2>1, <2>2 DEF TurnTypeOK
  <1>5. Places' /\ Room' /\ Worked'
    BY <1>2, <1>3 DEF Places, Room, Worked, Busy
  <1>6. Cards'
    BY <1>2, <1>3 DEF Cards, Asked, AskedThenStops, HeldForQuestion, Busy, Question
  <1>7. Calls'
    <2>1. results \cup InHand = results' \cup InHand'
      <3>1. InHand = Elements(batch) \cup Elements(held) /\ InHand' = Elements(batch') \cup Elements(held')
        BY <1>2 DEF InHand
      <3> QED BY <1>1, <1>2, <3>1
    <2> QED BY <1>2, <1>3, <2>1 DEF Calls
  <1>8. Money'
    BY <1>2, <1>3 DEF Money, Meter, Entries, Over
  <1>9. Nobody'
    <2> SUFFICES ASSUME Unattended
                 PROVE  ~Asked' /\ issued' \cap Call = {} /\ \A d \in Elements(held') : ~Question(d)
      BY <1>3 DEF Nobody, Unattended, Question
    <2>1. NotRunHere(c) => ~Question(c)
      BY TurnAssumption DEF NotRunHere, Recorded, Allowed, Question
    <2>2. Asked' = Asked /\ issued' = issued
      BY <1>3 DEF Asked, approvalVars, Question
    <2>3. ~Asked' /\ issued' \cap Call = {} /\ \A d \in Elements(held) : ~Question(d)
      BY <1>2, <2>2 DEF Nobody
    <2>4. held' = held \/ (NotRunHere(c) /\ Elements(held') = Elements(held) \cup {c})
      BY <1>1, <1>2
    <2> QED BY <2>1, <2>3, <2>4
  <1> QED BY <1>4, <1>5, <1>6, <1>7, <1>8, <1>9

\* Approvals for this turn's cards are minted only if somebody attends it.
LEMMA MintedFor ==
  ASSUME NEW calls, NEW asks, Surface(calls, asks), Unattended
  PROVE  issued' = issued
  <1> DEFINE red == {c \in ForUser(calls, asks) \ DOMAIN cards : Class[c] = "privileged"}
  <1>1. \E minted \in {{}, IF Unattended THEN {} ELSE red} : issued' = issued \cup minted
    BY Zenon DEF Surface
  <1> HIDE DEF red
  <1>2. PICK minted \in {{}, IF Unattended THEN {} ELSE red} : issued' = issued \cup minted
    BY <1>1
  <1>3. minted = {}
    BY <1>2
  <1> QED BY <1>2, <1>3

\* The held calls become cards, or are deferred beside a question.
LEMMA ExecutedOK == IInv /\ Executed => IInv'
  <1> SUFFICES ASSUME IInv, Executed PROVE IInv'
    OBVIOUS
  <1> USE DEF IInv
  <1> DEFINE E == Elements(held)
             F == ForUser(held, E)
  <1>1. held \in Seq(Call) /\ iteration \in Nat /\ E \subseteq Call /\ Elements(batch) = {}
    <2>1. held \in Seq(Call) /\ batch \in Seq(Call) /\ iteration \in Nat
      BY DEF TurnTypeOK, Caps
    <2>2. batch = <<>>
      BY DEF Executed
    <2> QED BY <2>1, <2>2, ElementsOf
  <1>2. /\ pc = "execute" /\ Surface(held, E) /\ deferred' = deferred \cup (E \ F)
        /\ pc' = IF GoesOn /\ iteration < cap THEN "iterate" ELSE "report"
        /\ UNCHANGED <<kind, cap, ceiling, iteration, batch, held, ran, results, total, ledger, lost, spent,
                       made, told, shown, restarts>>
    BY DEF Executed
  <1>3. ~Asked
    BY <1>2 DEF Cards, Busy
  <1>4. /\ F \subseteq E
        /\ (\E c \in E : Question(c)) => TheQuestion(held, E) # {}
    BY <1>1, <1>3, ForUserShape
  <1>5. /\ DOMAIN cards' = DOMAIN cards \cup F
        /\ \A c \in DOMAIN cards' : cards'[c] = IF c \in DOMAIN cards THEN cards[c] ELSE iteration
        /\ Asked' <=> \E c \in E : Question(c)
        /\ \A c, d \in DOMAIN cards' : Question(c) /\ Question(d) => c = d
        /\ HeldForQuestion'
    BY <1>1, <1>2, SurfaceKeeps
  <1>6. pc' \in {"iterate", "report"} /\ (pc' = "iterate" => iteration < cap /\ TheQuestion(held, E) = {})
    BY <1>2 DEF GoesOn
  <1> HIDE DEF E, F
  <1>7. TurnTypeOK'
    <2>1. DOMAIN cards' \subseteq Call /\ \A c \in DOMAIN cards' : cards'[c] \in 1..cap
      <3>1. iteration \in 1..cap \/ F = {}
        <4>1. CASE F # {}
          <5>1. iteration # 0
            BY <1>2 DEF TurnTypeOK, Caps, Worked, Busy
          <5> QED BY <5>1 DEF TurnTypeOK, Caps
        <4> QED BY <4>1
      <3> QED BY <1>1, <1>4, <1>5, <3>1 DEF TurnTypeOK, Caps
    <2>2. deferred' \subseteq Call /\ shown' \subseteq DOMAIN cards'
      BY <1>1, <1>2, <1>5 DEF TurnTypeOK
    <2> QED BY <1>2, <1>6, <2>1, <2>2 DEF TurnTypeOK, Over
  <1>8. Places' /\ Room' /\ Worked'
    BY <1>2, <1>6 DEF Places, Room, Worked, Busy
  <1>9. Cards'
    <2>1. \A c \in DOMAIN cards' : cards'[c] \in Nat /\ cards'[c] <= iteration'
      BY <1>1, <1>2, <1>5 DEF Cards
    <2>2. pc' = "iterate" => ~Asked'
      BY <1>4, <1>5, <1>6
    <2> QED BY <1>5, <1>6, <2>1, <2>2 DEF Cards, Busy, AskedThenStops
  <1>10. Calls'
    <2>1. InHand = E /\ InHand' = {}
      BY <1>1, <1>2, <1>6 DEF InHand, E
    <2> QED BY <1>2, <1>4, <1>5, <1>6, <2>1 DEF Calls
  <1>11. Money'
    BY <1>2, <1>6 DEF Money, Meter, Entries, Over
  <1>12. Nobody'
    <2> SUFFICES ASSUME Unattended PROVE ~Asked' /\ issued' \cap Call = {}
      BY <1>2, <1>6 DEF Nobody, Unattended
    <2>1. issued' = issued
      BY <1>2, MintedFor
    <2>2. ~Asked'
      BY <1>2, <1>5 DEF Nobody, E
    <2> QED BY <2>1, <2>2 DEF Nobody
  <1> QED BY <1>7, <1>8, <1>9, <1>10, <1>11, <1>12

\* The calls that are not run any more: refused, for the user, or deferred.
LEMMA DeferOK == IInv /\ Defer => IInv'
  <1> SUFFICES ASSUME IInv, Defer PROVE IInv'
    OBVIOUS
  <1> USE DEF IInv
  <1> DEFINE B       == Elements(batch)
             refused == {c \in B : Refused(c)}
             autos   == {c \in B \ refused : ForTheLoop(c)}
             asks    == B \ (refused \cup autos)
             F       == ForUser(batch, asks)
  <1>1. batch \in Seq(Call) /\ iteration \in Nat /\ B \subseteq Call /\ asks \subseteq B
    BY ElementsOf DEF TurnTypeOK, Caps
  <1>2. /\ pc = "defer" /\ Surface(batch, asks) /\ results' = results \cup refused
        /\ deferred' = deferred \cup autos \cup (asks \ F) /\ pc' = "report" /\ batch' = <<>>
        /\ UNCHANGED <<kind, cap, ceiling, iteration, held, ran, total, ledger, lost, spent,
                       made, told, shown, restarts>>
    BY DEF Defer
  <1>3. ~Asked
    BY <1>2 DEF Cards, Busy
  <1>4. F \subseteq asks
    BY <1>1, <1>3, ForUserShape
  <1>5. /\ DOMAIN cards' = DOMAIN cards \cup F
        /\ \A c \in DOMAIN cards' : cards'[c] = IF c \in DOMAIN cards THEN cards[c] ELSE iteration
        /\ Asked' <=> \E c \in asks : Question(c)
        /\ \A c, d \in DOMAIN cards' : Question(c) /\ Question(d) => c = d
        /\ HeldForQuestion'
    BY <1>1, <1>2, SurfaceKeeps
  <1>6. Unattended => \A c \in asks : ~Question(c)
    BY <1>1, TurnAssumption DEF Refused, ForTheLoop, Recorded, Allowed, Question
  <1>7. B = refused \cup autos \cup asks /\ refused \subseteq B /\ autos \subseteq B
    OBVIOUS
  <1> HIDE DEF B, refused, autos, asks, F
  <1>8. TurnTypeOK'
    <2>1. DOMAIN cards' \subseteq Call /\ \A c \in DOMAIN cards' : cards'[c] \in 1..cap
      <3>1. iteration \in 1..cap
        BY <1>2 DEF TurnTypeOK, Caps, Worked, Busy
      <3> QED BY <1>1, <1>4, <1>5, <3>1 DEF TurnTypeOK
    <2>2. deferred' \subseteq Call /\ results' \subseteq Call /\ shown' \subseteq DOMAIN cards'
      BY <1>1, <1>2, <1>5, <1>7 DEF TurnTypeOK
    <2>3. batch' \in Seq(Call)
      BY <1>2
    <2> QED BY <1>2, <2>1, <2>2, <2>3 DEF TurnTypeOK
  <1>9. Places' /\ Room' /\ Worked'
    BY <1>2 DEF Places, Room, Worked, Busy
  <1>10. Cards'
    <2>1. \A c \in DOMAIN cards' : cards'[c] \in Nat /\ cards'[c] <= iteration'
      BY <1>1, <1>2, <1>5 DEF Cards
    <2> QED BY <1>2, <1>5, <2>1 DEF Cards, Busy, AskedThenStops
  <1>11. Calls'
    <2>1. InHand = B /\ InHand' = {}
      BY <1>2 DEF InHand, B
    <2> QED BY <1>2, <1>4, <1>5, <1>7, <2>1 DEF Calls
  <1>12. Money'
    BY <1>2 DEF Money, Meter, Entries, Over
  <1>13. Nobody'
    <2> SUFFICES ASSUME Unattended PROVE ~Asked' /\ issued' \cap Call = {}
      BY <1>2 DEF Nobody, Unattended
    <2>1. issued' = issued
      BY <1>2, MintedFor
    <2> QED BY <1>5, <1>6, <2>1 DEF Nobody
  <1> QED BY <1>8, <1>9, <1>10, <1>11, <1>12, <1>13

\* What is told is what is in the lists, and nothing is in hand any more.
LEMMA TellOK == IInv /\ Tell => IInv'
  <1> SUFFICES ASSUME IInv, Tell PROVE IInv'
    OBVIOUS
  <1> USE DEF IInv
  <1>1. /\ pc \in {"report", "fallback"} /\ told' = results \cup DOMAIN cards \cup deferred
        /\ shown' = IF Unattended THEN {} ELSE DOMAIN cards
        /\ pc' = IF kind = "stream" THEN "log" ELSE "over"
        /\ UNCHANGED <<kind, cap, ceiling, iteration, batch, held, ran, results, cards, deferred,
                       total, ledger, lost, spent, made, restarts, approvalVars>>
    BY DEF Tell, Known
  <1>2. TurnTypeOK'
    <2>1. told' \subseteq Call /\ shown' \subseteq DOMAIN cards'
      BY <1>1 DEF TurnTypeOK
    <2> QED BY <1>1, <2>1 DEF TurnTypeOK, Over
  <1>3. Places' /\ Room' /\ Worked'
    BY <1>1 DEF Places, Room, Worked, Busy
  <1>4. Cards'
    BY <1>1 DEF Cards, Asked, AskedThenStops, HeldForQuestion, Busy, Question
  <1>5. Calls'
    <2>1. InHand = {} /\ InHand' = {}
      BY <1>1 DEF InHand
    <2> QED BY <1>1, <2>1 DEF Calls, Unattended
  <1>6. Money'
    BY <1>1 DEF Money, Meter, Entries, Over
  <1>7. Nobody'
    BY <1>1 DEF Nobody, Asked, Unattended, Question, approvalVars
  <1> QED BY <1>2, <1>3, <1>4, <1>5, <1>6, <1>7

\* The one entry of a stream.
LEMMA LogOK == IInv /\ Log => IInv'
  <1> SUFFICES ASSUME IInv, Log PROVE IInv'
    OBVIOUS
  <1> USE DEF IInv
  <1>1. /\ pc = "log" /\ pc' = "over"
        /\ \/ ledger' = ledger + total /\ lost' = lost
           \/ lost' = TRUE /\ ledger' = ledger
        /\ UNCHANGED <<kind, cap, ceiling, iteration, batch, held, ran, results, cards, deferred,
                       total, spent, made, told, shown, restarts, approvalVars>>
    BY DEF Log, Metered, Enter
  <1>2. total \in Nat /\ ledger \in Nat /\ lost \in BOOLEAN
    BY DEF TurnTypeOK
  <1>3. ledger' \in Nat
    BY <1>1, <1>2
  <1>4. lost' \in BOOLEAN
    BY <1>1, <1>2
  <1>5. TurnTypeOK'
    BY <1>1, <1>3, <1>4 DEF TurnTypeOK, Over
  <1>6. Places' /\ Room' /\ Worked'
    BY <1>1 DEF Places, Room, Worked, Busy
  <1>7. Cards'
    BY <1>1 DEF Cards, Asked, AskedThenStops, HeldForQuestion, Busy, Question
  <1>8. Calls'
    BY <1>1 DEF Calls, InHand, Unattended
  <1>9. Money'
    <2>1. ~lost' => ledger' = total'
      <3>1. CASE kind = "stream"
        BY <1>1, <1>2, <3>1 DEF Money, Entries, Over
      <3>2. CASE kind # "stream"
        BY <1>1, <3>2 DEF Places
      <3> QED BY <3>1, <3>2
    <2> QED BY <1>1, <2>1 DEF Money, Meter, Entries, Over
  <1>10. Nobody'
    BY <1>1 DEF Nobody, Asked, Unattended, Question, approvalVars
  <1> QED BY <1>5, <1>6, <1>7, <1>8, <1>9, <1>10

\* A turn that is gone tells nothing and enters nothing.
LEMMA LeaveOK == IInv /\ Leave => IInv'
  <1> SUFFICES ASSUME IInv, Leave PROVE IInv'
    OBVIOUS
  <1> USE DEF IInv, Leave
  <1>1. TurnTypeOK'
    BY DEF TurnTypeOK, Over
  <1>2. Places' /\ Room' /\ Worked'
    BY DEF Places, Room, Worked, Busy
  <1>3. Cards'
    BY DEF Cards, Asked, AskedThenStops, HeldForQuestion, Busy, Question
  <1>4. Calls'
    BY DEF Calls
  <1>5. Money'
    BY DEF Money, Meter, Entries, Over
  <1>6. Nobody'
    BY DEF Nobody, Asked, Unattended, Question, approvalVars
  <1> QED BY <1>1, <1>2, <1>3, <1>4, <1>5, <1>6

\* A restart leaves the turn as it ended, or without an end, and no approval.
LEMMA RestartOK == IInv /\ Restart => IInv'
  <1> SUFFICES ASSUME IInv, Restart PROVE IInv'
    OBVIOUS
  <1> USE DEF IInv
  <1>1. /\ restarts < MaxRestarts /\ restarts' = restarts + 1 /\ issued' = {}
        /\ pc' = IF pc = "over" THEN "over" ELSE "gone"
        /\ UNCHANGED <<kind, cap, ceiling, iteration, batch, held, ran, results, cards, deferred,
                       total, ledger, lost, spent, made, told, shown>>
    BY DEF Restart, NewProcess
  <1>2. TurnTypeOK'
    <2>1. restarts' \in 0..MaxRestarts
      BY <1>1, TurnAssumption DEF TurnTypeOK
    <2> QED BY <1>1, <2>1 DEF TurnTypeOK, Over
  <1>3. Places' /\ Room' /\ Worked'
    BY <1>1 DEF Places, Room, Worked, Busy
  <1>4. Cards'
    BY <1>1 DEF Cards, Asked, AskedThenStops, HeldForQuestion, Busy, Question
  <1>5. Calls'
    BY <1>1 DEF Calls, InHand, Unattended
  <1>6. Money'
    BY <1>1 DEF Money, Meter, Entries, Over
  <1>7. Nobody'
    BY <1>1 DEF Nobody, Asked, Unattended, Question
  <1> QED BY <1>2, <1>3, <1>4, <1>5, <1>6, <1>7

\* What happens to approvals elsewhere is nothing to the turn, as long as no approval for a
\* call of the turn comes from there.
LEMMA ApprovalsOK ==
  ASSUME IInv, UNCHANGED <<turnVars, restarts>>, issued' \cap Call \subseteq issued
  PROVE  IInv'
  <1> USE DEF IInv, turnVars
  <1>1. TurnTypeOK'
    BY DEF TurnTypeOK
  <1>2. Places' /\ Room' /\ Worked'
    BY DEF Places, Room, Worked
  <1>3. Cards'
    BY DEF Cards, Asked, AskedThenStops, HeldForQuestion, Question
  <1>4. Calls'
    BY DEF Calls, InHand, Unattended
  <1>5. Money'
    BY DEF Money, Meter, Entries
  <1>6. Nobody'
    <2>1. Unattended => issued' \cap Call = {}
      BY DEF Nobody
    <2> QED BY <2>1 DEF Nobody, Asked, Unattended, Question
  <1> QED BY <1>1, <1>2, <1>3, <1>4, <1>5, <1>6

LEMMA StepOK == IInv /\ [Next]_vars => IInv'
  <1> SUFFICES ASSUME IInv, [Next]_vars PROVE IInv'
    OBVIOUS
  <1>1. CASE TurnStep
    BY <1>1, PrepareOK, CompleteOK, FailsOK, EnteredOK, ExecuteOK, ExecutedOK, DeferOK, TellOK, LogOK, ReturnsOK
       DEF TurnStep
  <1>2. CASE Leave
    BY <1>2, LeaveOK
  <1>3. CASE Restart
    BY <1>3, RestartOK
  <1>4. ASSUME NEW t \in Token, IssueElsewhere(t) \/ UserClicks(t) \/ TokenExpires(t)
        PROVE  IInv'
    <2>1. UNCHANGED <<turnVars, restarts>>
      BY <1>4 DEF IssueElsewhere, UserClicks, TokenExpires
    <2>2. issued' \cap Call \subseteq issued
      BY <1>4 DEF IssueElsewhere, UserClicks, TokenExpires, Click, Accept, Refuse, Expire
    <2> QED BY <2>1, <2>2, ApprovalsOK
  <1>5. CASE UNCHANGED vars
    BY <1>5, ApprovalsOK DEF vars, approvalVars
  <1> QED BY <1>1, <1>2, <1>3, <1>4, <1>5 DEF Next

\* The invariant of WizardTurn.
THEOREM Invariant == Spec => []IInv
  BY InitOK, StepOK, PTL DEF Spec

\* A question is the only one, the last card, and the end of the turn, whatever the replies
\* of the model.
THEOREM OneQuestionThenStop == Spec => []QuestionIsLast
  <1>1. IInv => QuestionIsLast
    BY DEF IInv, Cards, QuestionIsLast
  <1> QED BY Invariant, <1>1, PTL

\* No call the model made is missing from what the turn tells at its end, and every card
\* can be clicked.
THEOREM CallsAreTold == Spec => []NothingLost
  <1>1. IInv => NothingLost
    BY DEF IInv, Calls, NothingLost
  <1> QED BY Invariant, <1>1, PTL

\* The ledger has the whole cost of a turn that ends, unless an entry failed; one that is cut
\* short leaves out no more than the completion whose entry was awaited.
THEOREM LedgerIsMeter == Spec => []LedgerCovers
  <1>1. IInv => LedgerCovers
    <2> SUFFICES ASSUME IInv, ~lost PROVE LedgerCovers
      BY DEF LedgerCovers
    <2>1. /\ total \in Nat /\ spent \in Nat /\ total <= spent /\ spent <= total + MaxCost
          /\ pc \notin {"entering", "gone"} => spent = total
          /\ kind # "stream" \/ pc = "over" => ledger = total
      BY DEF IInv, Money, Meter, Entries, TurnTypeOK
    <2> QED BY <2>1 DEF LedgerCovers
  <1> QED BY Invariant, <1>1, PTL

\* A ceiling is passed by less than one completion.
THEOREM CeilingIsKept == Spec => []CeilingHolds
  <1>1. IInv => CeilingHolds
    BY DEF IInv, Money, Meter, CeilingHolds
  <1> QED BY Invariant, <1>1, PTL

\* A turn nobody attends asks nothing and has no approval.
THEOREM NobodyIsAsked == Spec => []UnattendedAsksNobody
  <1>1. IInv => UnattendedAsksNobody
    BY DEF IInv, Nobody, TurnTypeOK, UnattendedAsksNobody
  <1> QED BY Invariant, <1>1, PTL
-----------------------------------------------------------------------------
(* The memory of spent approvals                                           *)

\* A memory: finitely many tokens in the order they were spent, f[t] those after t.
Ordered(f) ==
    /\ IsFiniteSet(DOMAIN f)
    /\ \A t \in DOMAIN f : f[t] \subseteq DOMAIN f /\ t \notin f[t]
    /\ \A t, u \in DOMAIN f : t = u \/ t \in f[u] \/ u \in f[t]
    /\ \A t, u \in DOMAIN f : u \in f[t] => f[u] \subseteq f[t]

\* A memory in which no token has more than n newer ones has at most n + 1 tokens.
LEMMA MemorySize ==
  ASSUME NEW f, Ordered(f), NEW n \in Nat, \A t \in DOMAIN f : Cardinality(f[t]) < n
  PROVE  Cardinality(DOMAIN f) <= n
  <1> DEFINE D == DOMAIN f
  <1>1. IsFiniteSet(D) /\ Cardinality(D) \in Nat
    BY FS_CardinalityType DEF Ordered
  <1>2. \A t \in D : IsFiniteSet(f[t]) /\ Cardinality(f[t]) \in Nat /\ Cardinality(f[t]) <= Cardinality(D)
    BY <1>1, FS_Subset, FS_CardinalityType DEF Ordered
  <1>3. CASE D = {}
    BY <1>3, FS_EmptySet
  <1>4. CASE D # {}
    <2> DEFINE Left == {Cardinality(D) - Cardinality(f[t]) : t \in D}
    <2>1. Left # {} /\ Left \subseteq Nat
      BY <1>1, <1>2, <1>4
    <2>2. PICK m \in Left : \A k \in Left : <<k, m>> \notin OpToRel(<, Nat)
      BY <2>1, WFMin, NatLessThanWellFounded, Zenon
    <2>3. \A k \in Left : ~(k < m)
      BY <2>1, <2>2 DEF OpToRel
    <2>4. PICK o \in D : m = Cardinality(D) - Cardinality(f[o])
      OBVIOUS
    <2>5. ASSUME NEW u \in D PROVE Cardinality(f[u]) <= Cardinality(f[o])
      <3>1. ~(Cardinality(D) - Cardinality(f[u]) < m)
        BY <2>3
      <3> HIDE DEF D
      <3> QED BY <1>1, <1>2, <2>4, <3>1
    <2>6. ASSUME NEW u \in D, u # o PROVE u \in f[o]
      <3> SUFFICES ASSUME u \notin f[o] PROVE FALSE
        OBVIOUS
      <3>1. o \in f[u] /\ f[o] \subseteq f[u] /\ o \notin f[o]
        BY <2>6 DEF Ordered
      <3>2. Cardinality(f[o] \cup {o}) = Cardinality(f[o]) + 1
        BY <1>2, <3>1, FS_AddElement
      <3>3. Cardinality(f[o] \cup {o}) <= Cardinality(f[u])
        BY <1>2, <3>1, FS_Subset
      <3> QED BY <1>2, <2>5, <3>2, <3>3
    <2>7. D = f[o] \cup {o} /\ o \notin f[o]
      BY <2>6 DEF Ordered
    <2>8. Cardinality(D) = Cardinality(f[o]) + 1
      BY <1>2, <2>7, FS_AddElement
    <2>9. Cardinality(f[o]) < n /\ Cardinality(f[o]) \in Nat
      BY <1>2
    <2> HIDE DEF D
    <2> QED BY <2>8, <2>9 DEF D
  <1> QED BY <1>3, <1>4

\* What _prune_consumed leaves is a memory again, and not too large; a token that is not
\* expired and has room is in it, with no more after it than before.
LEMMA PrunedOrdered ==
  ASSUME Ordered(consumed)
  PROVE  /\ Ordered(Pruned) /\ Cardinality(DOMAIN Pruned) <= ConsumedMax
         /\ DOMAIN Pruned \subseteq DOMAIN consumed
         /\ \A t \in DOMAIN consumed \ expired :
               Cardinality(consumed[t]) < ConsumedMax
               => t \in DOMAIN Pruned /\ Cardinality(Pruned[t]) <= Cardinality(consumed[t])
  <1> DEFINE live == DOMAIN consumed \ expired
             newer(t) == consumed[t] \cap live
             K == {u \in live : Cardinality(newer(u)) < ConsumedMax}
  <1>1. IsFiniteSet(DOMAIN consumed) /\ IsFiniteSet(live)
    BY FS_Subset DEF Ordered
  <1>2. \A t \in live : /\ IsFiniteSet(consumed[t]) /\ Cardinality(consumed[t]) \in Nat
                        /\ IsFiniteSet(newer(t)) /\ Cardinality(newer(t)) \in Nat
                        /\ Cardinality(newer(t)) <= Cardinality(consumed[t])
    <2> TAKE t \in live
    <2>1. IsFiniteSet(consumed[t])
      BY <1>1, FS_Subset DEF Ordered
    <2>2. newer(t) \subseteq consumed[t]
      OBVIOUS
    <2> HIDE DEF newer
    <2> QED BY <2>1, <2>2, FS_Subset, FS_CardinalityType
  <1>3. Pruned = [t \in K |-> newer(t)]
    BY DEF Pruned, Fits
  <1>4. ASSUME NEW t \in K, NEW u \in newer(t)
        PROVE  u \in K /\ newer(u) \subseteq newer(t)
    <2>1. u \in live /\ consumed[u] \subseteq consumed[t]
      BY DEF Ordered
    <2>2. newer(u) \subseteq newer(t)
      BY <2>1
    <2>3. t \in live /\ Cardinality(newer(t)) < ConsumedMax
      OBVIOUS
    <2>4. Cardinality(newer(u)) <= Cardinality(newer(t))
      <3> HIDE DEF newer
      <3> QED BY <1>2, <2>2, <2>3, FS_Subset
    <2>5. Cardinality(newer(u)) < ConsumedMax
      <3> HIDE DEF newer
      <3> QED BY <1>2, <2>1, <2>3, <2>4, ApprovalAssumption
    <2> QED BY <2>1, <2>2, <2>5
  <1>5. Ordered(Pruned)
    <2>1. IsFiniteSet(K)
      BY <1>1, FS_Subset
    <2>2. \A t \in K : newer(t) \subseteq K /\ t \notin newer(t)
      BY <1>4 DEF Ordered
    <2>3. \A t, u \in K : t = u \/ t \in newer(u) \/ u \in newer(t)
      BY DEF Ordered
    <2>4. \A t, u \in K : u \in newer(t) => newer(u) \subseteq newer(t)
      BY <1>4
    <2> HIDE DEF newer, K
    <2> QED BY <1>3, <2>1, <2>2, <2>3, <2>4 DEF Ordered
  <1>6. Cardinality(DOMAIN Pruned) <= ConsumedMax
    <2>1. DOMAIN Pruned = K /\ \A t \in K : Pruned[t] = newer(t)
      BY <1>3
    <2>2. \A t \in K : Cardinality(newer(t)) < ConsumedMax
      OBVIOUS
    <2> HIDE DEF newer, K
    <2> QED BY <1>5, <2>1, <2>2, MemorySize, ApprovalAssumption
  <1>7. ASSUME NEW t \in live, Cardinality(consumed[t]) < ConsumedMax
        PROVE  t \in DOMAIN Pruned /\ Cardinality(Pruned[t]) <= Cardinality(consumed[t])
    <2>1. Cardinality(newer(t)) < ConsumedMax
      <3> HIDE DEF newer
      <3> QED BY <1>2, <1>7, ApprovalAssumption
    <2>2. t \in K
      BY <2>1
    <2>3. DOMAIN Pruned = K /\ Pruned[t] = newer(t)
      BY <1>3, <2>2
    <2> HIDE DEF newer, K
    <2> QED BY <1>2, <2>2, <2>3
  <1>8. DOMAIN Pruned \subseteq DOMAIN consumed
    BY <1>3
  <1> QED BY <1>5, <1>6, <1>7, <1>8

\* An approval that ran something and is still signed is in the memory, until as many others
\* were spent as the memory holds, with no more after it than were spent since.
Remembered ==
    \A t \in DOMAIN since : Signed(t) /\ since[t] < ConsumedMax
        => t \in DOMAIN consumed /\ Cardinality(consumed[t]) <= since[t]

MemoryTyped ==
    /\ Ordered(consumed) /\ DOMAIN consumed \subseteq Token
    /\ Cardinality(DOMAIN consumed) <= ConsumedMax + 1
    /\ DOMAIN since \subseteq Token /\ \A t \in DOMAIN since : since[t] \in 0..ConsumedMax

\* The approvals: one of this turn that ran something came with a card, so it is minted no more.
Approved ==
    /\ issued \subseteq Token /\ expired \subseteq Token
    /\ DOMAIN since \cap Call \subseteq DOMAIN cards
    /\ MemoryTyped /\ Remembered

LEMMA EmptyMemory == Ordered(NoneSpent) /\ DOMAIN NoneSpent = {} /\ Cardinality(DOMAIN NoneSpent) = 0
  <1>1. DOMAIN NoneSpent = {}
    BY DEF NoneSpent
  <1> QED BY <1>1, FS_EmptySet DEF Ordered

LEMMA ApprovedAtStart == Init => Approved
  <1> SUFFICES ASSUME Init PROVE Approved
    OBVIOUS
  <1>1. /\ issued = {} /\ expired = {} /\ consumed = NoneSpent /\ since = <<>>
    BY DEF Init, ApprovalInit
  <1>2. DOMAIN since = {}
    BY <1>1
  <1>3. MemoryTyped
    BY <1>1, <1>2, EmptyMemory, ApprovalAssumption DEF MemoryTyped
  <1> QED BY <1>1, <1>2, <1>3 DEF Approved, Remembered

\* A click that runs something puts its approval last.
LEMMA AcceptKeeps ==
  ASSUME MemoryTyped, Remembered, NEW x \in Token, Accept(x)
  PROVE  MemoryTyped' /\ Remembered'
  <1> DEFINE K == DOMAIN Pruned
             n == [u \in K \cup {x} |-> IF u = x THEN {} ELSE Pruned[u] \cup {x}]
  <1>1. /\ x \notin K /\ consumed' = n /\ issued' = issued /\ expired' = expired
        /\ since' = [u \in DOMAIN since \cup {x} |->
                        IF u = x THEN 0 ELSE Lesser(since[u] + 1, ConsumedMax)]
    BY DEF Accept
  <1>2. /\ Ordered(Pruned) /\ Cardinality(K) <= ConsumedMax /\ K \subseteq Token
        /\ \A t \in DOMAIN consumed \ expired :
              Cardinality(consumed[t]) < ConsumedMax
              => t \in K /\ Cardinality(Pruned[t]) <= Cardinality(consumed[t])
    BY PrunedOrdered DEF MemoryTyped
  <1>3. IsFiniteSet(K) /\ Cardinality(K) \in Nat
    BY <1>2, FS_CardinalityType DEF Ordered
  <1>4. IsFiniteSet(K \cup {x}) /\ Cardinality(K \cup {x}) = Cardinality(K) + 1
    BY <1>1, <1>3, FS_AddElement
  <1>5. DOMAIN n = K \cup {x} /\ n[x] = {} /\ \A u \in K : n[u] = Pruned[u] \cup {x}
    BY <1>1
  <1> HIDE DEF n
  <1>6. Ordered(n)
    <2>1. \A t \in DOMAIN n : n[t] \subseteq DOMAIN n /\ t \notin n[t]
      BY <1>1, <1>2, <1>5 DEF Ordered
    <2>2. \A t, u \in DOMAIN n : t = u \/ t \in n[u] \/ u \in n[t]
      BY <1>1, <1>2, <1>5 DEF Ordered
    <2>3. \A t, u \in DOMAIN n : u \in n[t] => n[u] \subseteq n[t]
      BY <1>1, <1>2, <1>5 DEF Ordered
    <2> QED BY <1>4, <1>5, <2>1, <2>2, <2>3 DEF Ordered
  <1>7. \A t \in DOMAIN since : since[t] \in 0..ConsumedMax
    BY DEF MemoryTyped
  <1>8. /\ DOMAIN since' \subseteq Token /\ \A t \in DOMAIN since' : since'[t] \in 0..ConsumedMax
    BY <1>1, <1>7, ApprovalAssumption DEF MemoryTyped, Lesser
  <1>9. MemoryTyped'
    <2>1. Cardinality(DOMAIN n) <= ConsumedMax + 1
      BY <1>2, <1>3, <1>4, <1>5, ApprovalAssumption
    <2>2. DOMAIN n \subseteq Token
      BY <1>2, <1>5
    <2> QED BY <1>1, <1>6, <1>8, <2>1, <2>2 DEF MemoryTyped, Ordered
  <1>10. ASSUME NEW t \in DOMAIN since', Signed(t), since'[t] < ConsumedMax
         PROVE  t \in DOMAIN n /\ Cardinality(n[t]) <= since'[t]
    <2>1. CASE t = x
      <3>1. since'[t] = 0
        BY <1>1, <2>1
      <3> QED BY <1>5, <2>1, <3>1, FS_EmptySet
    <2>2. CASE t # x
      <3>1. t \in DOMAIN since /\ since'[t] = Lesser(since[t] + 1, ConsumedMax)
        BY <1>1, <2>2
      <3>2. since[t] + 1 < ConsumedMax /\ since'[t] = since[t] + 1 /\ since[t] \in Nat
        BY <1>7, <1>10, <3>1, ApprovalAssumption DEF Lesser
      <3>3. t \in DOMAIN consumed \ expired /\ Cardinality(consumed[t]) <= since[t]
        BY <1>10, <3>1, <3>2, ApprovalAssumption DEF Remembered, Signed
      <3>4. IsFiniteSet(consumed[t]) /\ Cardinality(consumed[t]) \in Nat
        BY <3>3, FS_Subset, FS_CardinalityType DEF MemoryTyped, Ordered
      <3>5. t \in K /\ Cardinality(Pruned[t]) <= Cardinality(consumed[t])
        BY <1>2, <3>2, <3>3, <3>4, ApprovalAssumption
      <3>6. IsFiniteSet(Pruned[t]) /\ x \notin Pruned[t]
        BY <1>1, <1>2, <1>3, <3>5, FS_Subset DEF Ordered
      <3>7. /\ Cardinality(Pruned[t]) \in Nat
            /\ Cardinality(Pruned[t] \cup {x}) = Cardinality(Pruned[t]) + 1
        BY <3>6, FS_AddElement, FS_CardinalityType
      <3>8. n[t] = Pruned[t] \cup {x} /\ t \in DOMAIN n
        BY <1>5, <3>5
      <3> QED BY <3>2, <3>3, <3>4, <3>5, <3>7, <3>8
    <2> QED BY <2>1, <2>2
  <1>11. Remembered'
    BY <1>1, <1>10 DEF Remembered, Signed
  <1> QED BY <1>9, <1>11

\* A click that is refused only prunes.
LEMMA RefuseKeeps ==
  ASSUME MemoryTyped, Remembered, NEW x \in Token, Refuse(x)
  PROVE  MemoryTyped' /\ Remembered'
  <1>1. consumed' = Pruned /\ issued' = issued /\ expired' = expired /\ since' = since
    BY DEF Refuse
  <1>2. /\ Ordered(Pruned) /\ Cardinality(DOMAIN Pruned) <= ConsumedMax
        /\ DOMAIN Pruned \subseteq Token
        /\ \A t \in DOMAIN consumed \ expired :
              Cardinality(consumed[t]) < ConsumedMax
              => t \in DOMAIN Pruned /\ Cardinality(Pruned[t]) <= Cardinality(consumed[t])
    BY PrunedOrdered DEF MemoryTyped
  <1>3. Cardinality(DOMAIN Pruned) \in Nat
    BY <1>2, FS_CardinalityType DEF Ordered
  <1>4. Cardinality(DOMAIN Pruned) <= ConsumedMax + 1
    BY <1>2, <1>3, ApprovalAssumption
  <1>5. MemoryTyped'
    BY <1>1, <1>2, <1>4 DEF MemoryTyped, Ordered
  <1>6. ASSUME NEW t \in DOMAIN since, Signed(t), since[t] < ConsumedMax
        PROVE  t \in DOMAIN Pruned /\ Cardinality(Pruned[t]) <= since[t]
    <2>1. t \in DOMAIN consumed \ expired /\ Cardinality(consumed[t]) <= since[t] /\ since[t] \in Nat
      BY <1>6 DEF Remembered, Signed, MemoryTyped
    <2>2. IsFiniteSet(consumed[t]) /\ Cardinality(consumed[t]) \in Nat
      BY <2>1, FS_Subset, FS_CardinalityType DEF MemoryTyped, Ordered
    <2>3. t \in DOMAIN Pruned /\ Cardinality(Pruned[t]) <= Cardinality(consumed[t])
      BY <1>2, <1>6, <2>1, <2>2, ApprovalAssumption
    <2>4. Cardinality(Pruned[t]) \in Nat
      BY <1>2, <2>3, FS_Subset, FS_CardinalityType DEF Ordered
    <2> QED BY <2>1, <2>2, <2>3, <2>4
  <1>7. Remembered'
    BY <1>1, <1>6 DEF Remembered, Signed
  <1> QED BY <1>5, <1>7

\* An approval of a card of another turn, an expiry, a restart, and a card of this turn that
\* is minted sign no approval that ran something before.
LEMMA SignsNoneAgain ==
  ASSUME MemoryTyped, Remembered,
         since' = since, \/ consumed' = consumed
                         \/ consumed' = NoneSpent /\ issued' = {},
         \A t \in DOMAIN since : Signed(t)' => Signed(t)
  PROVE  MemoryTyped' /\ Remembered'
  <1>1. CASE consumed' = consumed
    BY <1>1 DEF MemoryTyped, Remembered, Ordered
  <1>2. CASE consumed' = NoneSpent /\ issued' = {}
    <2>1. Cardinality(DOMAIN consumed') <= ConsumedMax + 1 /\ DOMAIN consumed' = {}
      BY <1>2, EmptyMemory, ApprovalAssumption
    <2>2. Ordered(consumed')
      BY <1>2, EmptyMemory
    <2> QED BY <1>2, <2>1, <2>2 DEF MemoryTyped, Remembered, Signed, Ordered
  <1> QED BY <1>1, <1>2

\* What is minted with the cards is for new cards.
LEMMA SurfaceApproved ==
  ASSUME Approved, Cards, pc \in {"execute", "defer"}, iteration \in Nat, ~Asked,
         NEW calls \in Seq(Call), NEW asks \in SUBSET Elements(calls), Surface(calls, asks)
  PROVE  Approved'
  <1> DEFINE new == ForUser(calls, asks) \ DOMAIN cards
             red == {c \in new : Class[c] = "privileged"}
  <1>1. DOMAIN cards' = DOMAIN cards \cup ForUser(calls, asks)
    BY SurfaceKeeps
  <1>2. new \subseteq Call
    BY ForUserShape, ElementsOf
  <1>3. expired' = expired /\ consumed' = consumed /\ since' = since
    BY DEF Surface
  <1>4. \E minted \in {{}, IF Unattended THEN {} ELSE red} : issued' = issued \cup minted
    BY Zenon DEF Surface
  <1>5. red \subseteq Token /\ red \subseteq Call /\ red \cap DOMAIN cards = {}
    BY <1>2, TurnAssumption
  <1> HIDE DEF red, new
  <1>6. PICK minted \in SUBSET red : issued' = issued \cup minted
    BY <1>4
  <1>7. ASSUME NEW t \in DOMAIN since, Signed(t)' PROVE Signed(t)
    BY <1>3, <1>5, <1>6, <1>7 DEF Signed, Approved
  <1>8. MemoryTyped' /\ Remembered'
    BY <1>3, <1>7, SignsNoneAgain DEF Approved
  <1> QED BY <1>1, <1>3, <1>5, <1>6, <1>8 DEF Approved

LEMMA ApprovedStep == IInv /\ Approved /\ [Next]_vars => Approved'
  <1> SUFFICES ASSUME IInv, Approved, [Next]_vars PROVE Approved'
    OBVIOUS
  <1>1. CASE UNCHANGED approvalVars /\ UNCHANGED cards
    BY <1>1 DEF approvalVars, Approved, MemoryTyped, Remembered, Ordered, Signed
  <1>2. CASE Executed
    <2>1. held \in Seq(Call) /\ iteration \in Nat /\ pc = "execute" /\ ~Asked
      BY <1>2 DEF Executed, IInv, TurnTypeOK, Cards, Busy
    <2> QED BY <1>2, <2>1, SurfaceApproved DEF Executed, IInv
  <1>3. CASE Defer
    <2>1. batch \in Seq(Call) /\ iteration \in Nat /\ pc = "defer" /\ ~Asked
      BY <1>3 DEF Defer, IInv, TurnTypeOK, Cards, Busy
    <2>2. PICK asks \in SUBSET Elements(batch) : Surface(batch, asks)
      BY <1>3 DEF Defer
    <2> QED BY <2>1, <2>2, SurfaceApproved DEF IInv
  <1>4. CASE Restart
    <2>1. issued' = {} /\ consumed' = NoneSpent /\ expired' = expired /\ since' = since /\ cards' = cards
      BY <1>4 DEF Restart, NewProcess
    <2>2. MemoryTyped' /\ Remembered'
      BY <2>1, SignsNoneAgain DEF Approved, Signed
    <2> QED BY <2>1, <2>2 DEF Approved
  <1>5. ASSUME NEW t \in Token, IssueElsewhere(t) PROVE Approved'
    <2>1. /\ t \notin DOMAIN since /\ issued' = issued \cup {t} /\ expired' = expired
          /\ consumed' = consumed /\ since' = since /\ cards' = cards
      BY <1>5 DEF IssueElsewhere, turnVars
    <2>2. MemoryTyped' /\ Remembered'
      BY <2>1, SignsNoneAgain DEF Approved, Signed
    <2> QED BY <2>1, <2>2 DEF Approved
  <1>6. ASSUME NEW t \in Token, UserClicks(t) PROVE Approved'
    <2>1. /\ t \in shown \cup (Token \ Call) /\ issued' = issued /\ expired' = expired
          /\ cards' = cards /\ (Accept(t) \/ Refuse(t))
      BY <1>6 DEF UserClicks, turnVars, Click, Accept, Refuse
    <2>2. MemoryTyped' /\ Remembered'
      BY <2>1, AcceptKeeps, RefuseKeeps DEF Approved
    <2>3. DOMAIN since' \subseteq DOMAIN since \cup {t}
      BY <2>1 DEF Accept, Refuse
    <2>4. t \in Call => t \in DOMAIN cards
      BY <2>1 DEF IInv, TurnTypeOK
    <2> QED BY <2>1, <2>2, <2>3, <2>4 DEF Approved
  <1>7. ASSUME NEW t \in Token, TokenExpires(t) PROVE Approved'
    <2>1. /\ expired' = expired \cup {t} /\ issued' = issued /\ consumed' = consumed
          /\ since' = since /\ cards' = cards
      BY <1>7 DEF TokenExpires, Expire, turnVars
    <2>2. MemoryTyped' /\ Remembered'
      BY <2>1, SignsNoneAgain DEF Approved, Signed
    <2> QED BY <2>1, <2>2 DEF Approved
  <1>8. CASE \/ Prepare \/ Complete \/ Fails \/ Entered \/ Execute \/ Tell \/ Log \/ Leave \/ UNCHANGED vars
             \/ \E reply \in Reply, cost \in Costs : Returns(reply, cost)
    <2>1. UNCHANGED approvalVars /\ UNCHANGED cards
      BY <1>8 DEF Prepare, Complete, Fails, Entered, Execute, Tell, Log, Leave, Returns, vars,
                  turnVars
    <2> QED BY <1>1, <2>1
  <1> QED BY <1>2, <1>3, <1>4, <1>5, <1>6, <1>7, <1>8 DEF Next, TurnStep

\* The invariant of the turn together with that of the approvals.
THEOREM ApprovedAlways == Spec => [](IInv /\ Approved)
  BY InitOK, ApprovedAtStart, StepOK, ApprovedStep, PTL DEF Spec

\* Every variable of the turn and of the approvals stays in its type, the memory of spent
\* approvals in its bound.
THEOREM TypeCorrect == Spec => []TypeOK
  <1>1. IInv /\ Approved => TypeOK
    BY DEF IInv, Approved, MemoryTyped, Ordered, TypeOK, ApprovalTypeOK
  <1> QED BY <1>1, ApprovedAlways, PTL

\* A card acts once, after however many clicks, expiries and restarts, unless as many other
\* approvals as the memory holds were spent meanwhile.
THEOREM CardActsOnce == Spec => ActsOnce
  <1>1. IInv /\ Approved /\ [Next]_vars
        => [\A t \in DOMAIN since : Accept(t) => since[t] >= ConsumedMax]_vars
    <2> SUFFICES ASSUME Approved, NEW t \in DOMAIN since, Accept(t), ~(since[t] >= ConsumedMax)
                 PROVE  FALSE
      OBVIOUS
    <2>1. since[t] \in Nat /\ since[t] < ConsumedMax
      BY ApprovalAssumption DEF Approved, MemoryTyped
    <2>2. Signed(t) /\ t \notin DOMAIN Pruned
      BY DEF Accept
    <2>3. t \in DOMAIN consumed \ expired /\ Cardinality(consumed[t]) <= since[t]
      BY <2>1, <2>2 DEF Approved, Remembered, Signed
    <2>4. Cardinality(consumed[t]) \in Nat
      BY <2>3, FS_Subset, FS_CardinalityType DEF Approved, MemoryTyped, Ordered
    <2>5. Cardinality(consumed[t]) < ConsumedMax
      BY <2>1, <2>3, <2>4, ApprovalAssumption
    <2> QED BY <2>2, <2>3, <2>5, PrunedOrdered DEF Approved, MemoryTyped
  <1> QED BY <1>1, ApprovedAlways, PTL DEF Spec, ActsOnce

=============================================================================
