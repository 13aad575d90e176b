-------------------------- MODULE EngineQueryProofs --------------------------
(***************************************************************************)
(* Proofs about EngineQuery: the types, that a closed breaker is as good as *)
(* new whatever calls were under way when it opened, and the bound on what  *)
(* queries overspend.                                                      *)
(*                                                                         *)
(* The first part is about the breaker alone: each of its operations       *)
(* returns a breaker, and a fresh one if it was given a fresh one.  The     *)
(* steps of a query then only apply these operations to one provider.      *)
(*                                                                         *)
(* The last part adds up what the queries in progress may still cost.  A    *)
(* sum over a set would need an induction; instead the invariant says that *)
(* there is a function with the sum of every set of queries, and a step    *)
(* that changes what one query may cost gives the next one.                *)
(***************************************************************************)
EXTENDS EngineQuery, SequenceTheorems, FiniteSetTheorems, TLAPS

USE DEF Least

\* The vector of ages stays one when a failure is pushed or a tick passes.
LEMMA AgesTyped ==
    ASSUME NEW recent \in Ages
    PROVE  /\ NoFailures \in Ages /\ Pushed(recent) \in Ages
           /\ [i \in 1..Threshold |-> Least(recent[i] + 1, Window)] \in Ages
  BY RateAssumption DEF Ages, NoFailures, Pushed

\* A breaker with some of its fields replaced is a breaker.
LEMMA BreakerUpdated ==
    ASSUME NEW b \in Breaker, NEW s \in {"closed", "open", "half"}, NEW r \in Ages,
           NEW o \in 0..MaxCooldown, NEW c \in Cooldown..MaxCooldown
    PROVE  /\ [b EXCEPT !.recent = r] \in Breaker /\ [b EXCEPT !.cooldown = c] \in Breaker
           /\ [b EXCEPT !.state = s, !.cooldown = c, !.recent = r] \in Breaker
           /\ [b EXCEPT !.recent = r, !.opened = o] \in Breaker
  BY DEF Breaker

\* A breaker that changes its state is a breaker.
LEMMA BreakerMoved ==
    ASSUME NEW b \in Breaker, NEW s \in {"closed", "open", "half"}, NEW o \in 0..MaxCooldown
    PROVE  [b EXCEPT !.state = s, !.opened = o] \in Breaker
  BY DEF Breaker

\* The ends of the two ranges of a breaker.
LEMMA Bounds == 0 \in 0..MaxCooldown /\ Cooldown \in Cooldown..MaxCooldown
  BY RateAssumption

\* A breaker that has just been made is fresh.
LEMMA NewBreakerFresh == NewBreaker \in Breaker /\ Fresh(NewBreaker)
  <1>1. NoFailures \in Ages
    BY RateAssumption DEF Ages, NoFailures
  <1>2. NewBreaker \in Breaker
    BY <1>1, RateAssumption DEF NewBreaker, Breaker
  <1>3. NoFailures[Threshold] = Window
    BY RateAssumption DEF NoFailures
  <1> QED
    BY <1>2, <1>3, RateAssumption DEF NewBreaker, Fresh, TooMany

\* A success closes a half-open breaker with nothing held against it.
LEMMA SuccessFresh ==
    ASSUME NEW b \in Breaker
    PROVE  RecordSuccess(b) \in Breaker /\ (Fresh(b) => Fresh(RecordSuccess(b)))
  <1>1. NoFailures \in Ages /\ NoFailures[Threshold] = Window
    BY RateAssumption DEF Ages, NoFailures
  <1>2. CASE b.state = "half"
    <2> DEFINE r == [b EXCEPT !.state = "closed", !.cooldown = Cooldown, !.recent = NoFailures]
    <2>1. RecordSuccess(b) = r
      BY <1>2 DEF RecordSuccess
    <2>2. r \in Breaker
      BY <1>1, Bounds, BreakerUpdated
    <2>3. r.recent = NoFailures /\ r.cooldown = Cooldown
      BY DEF Breaker
    <2>4. ~TooMany(r.recent)
      BY <1>1, <2>3, RateAssumption DEF TooMany
    <2> QED BY <2>1, <2>2, <2>3, <2>4 DEF Fresh
  <1>3. CASE b.state # "half"
    BY <1>3 DEF RecordSuccess
  <1> QED BY <1>2, <1>3

\* A failure leaves a breaker closed only while there are too few of them.
LEMMA FailureFresh ==
    ASSUME NEW b \in Breaker
    PROVE  RecordFailure(b) \in Breaker /\ (Fresh(b) => Fresh(RecordFailure(b)))
  <1> DEFINE c == [b EXCEPT !.recent = Pushed(@)]
  <1>1. /\ c \in Breaker /\ c.state = b.state /\ c.cooldown = b.cooldown
        /\ c.recent = Pushed(b.recent)
    BY AgesTyped DEF Breaker
  <1>2. Opened(c) \in Breaker /\ Opened(c).state = "open" /\ Opened(c).cooldown = c.cooldown
    <2>1. c \in Breaker
      BY <1>1
    <2> HIDE DEF c
    <2>2. [c EXCEPT !.state = "open", !.opened = 0] \in Breaker
      BY <2>1, Bounds, BreakerMoved, "open" \in {"closed", "open", "half"}
    <2>3. Opened(c).state = "open" /\ Opened(c).cooldown = c.cooldown
      BY <2>1 DEF Breaker, Opened
    <2> QED BY <2>2, <2>3 DEF Opened
  <1>3. /\ RecordFailure(b) = IF c.state = "half"
                              THEN [Opened(c) EXCEPT !.cooldown = Least(2 * @, MaxCooldown)]
                              ELSE IF TooMany(c.recent) THEN Opened(c) ELSE c
    BY DEF RecordFailure
  <1> HIDE DEF c
  <1>4. CASE c.state = "half"
    <2>1. Least(2 * c.cooldown, MaxCooldown) \in Cooldown..MaxCooldown
      BY <1>1, RateAssumption DEF Breaker
    <2>2. RecordFailure(b) = [Opened(c) EXCEPT !.cooldown = Least(2 * c.cooldown, MaxCooldown)]
      BY <1>2, <1>3, <1>4
    <2> QED BY <1>2, <2>1, <2>2 DEF Breaker, Fresh
  <1>5. CASE c.state # "half" /\ TooMany(c.recent)
    BY <1>2, <1>3, <1>5 DEF Fresh
  <1>6. CASE c.state # "half" /\ ~TooMany(c.recent)
    BY <1>1, <1>3, <1>6 DEF Fresh
  <1> QED BY <1>4, <1>5, <1>6

\* Asking whether a request is allowed at most half-opens the breaker.
LEMMA AskedFresh ==
    ASSUME NEW b \in Breaker
    PROVE  Asked(b) \in Breaker /\ (Fresh(b) => Fresh(Asked(b)))
  <1>1. CASE b.state = "open" /\ Cooled(b)
    <2>1. Asked(b) = [b EXCEPT !.state = "half", !.opened = 0]
      BY <1>1 DEF Asked
    <2>2. [b EXCEPT !.state = "half", !.opened = 0] \in Breaker
      BY Bounds, BreakerMoved, "half" \in {"closed", "open", "half"}
    <2>3. [b EXCEPT !.state = "half", !.opened = 0].state = "half"
      BY DEF Breaker
    <2> QED BY <2>1, <2>2, <2>3 DEF Fresh
  <1>2. CASE ~(b.state = "open" /\ Cooled(b))
    BY <1>2 DEF Asked
  <1> QED BY <1>1, <1>2

\* Time makes no failure younger.
LEMMA AgedFresh ==
    ASSUME NEW b \in Breaker
    PROVE  Aged(b) \in Breaker /\ (Fresh(b) => Fresh(Aged(b)))
  <1> DEFINE a == [i \in 1..Threshold |-> Least(b.recent[i] + 1, Window)]
             o == IF b.state = "open" THEN Least(b.opened + 1, MaxCooldown) ELSE 0
  <1>1. Aged(b) = [b EXCEPT !.recent = a, !.opened = o]
    BY DEF Aged, Breaker
  <1>2. a \in Ages
    BY AgesTyped DEF Breaker
  <1>3. o \in 0..MaxCooldown
    BY RateAssumption DEF Breaker
  <1>4. b.recent[Threshold] \in 0..Window /\ a[Threshold] = Least(b.recent[Threshold] + 1, Window)
    BY RateAssumption DEF Breaker, Ages
  <1>5. ~TooMany(b.recent) => ~TooMany(a)
    BY <1>4, RateAssumption DEF TooMany
  <1> HIDE DEF a, o
  <1> QED BY <1>1, <1>2, <1>3, <1>5 DEF Breaker, Fresh

-----------------------------------------------------------------------------
(* The steps.                                                              *)

\* A chain starts with the primary and has providers only.
LEMMA ChainTyped ==
    ASSUME NEW p \in Provider
    PROVE  ChainFrom(p) \in Seq(Provider) /\ ChainFrom(p) # <<>>
  <1> DEFINE i == CHOOSE n \in 1..Len(Order) : Order[n] = p
  <1>1. i \in 1..Len(Order)
    <2>1. \E n \in 1..Len(Order) : Order[n] = p
      BY DEF Provider
    <2> QED BY <2>1
  <1>2. Order \in Seq(Provider)
    BY QueryAssumption
  <1>3. SubSeq(Order, 1, i - 1) \in Seq(Provider) /\ SubSeq(Order, i + 1, Len(Order)) \in Seq(Provider)
    <2>1. Len(Order) \in Nat
      BY <1>2
    <2>2. \A n \in 1..(i - 1) : n \in 1..Len(Order)
      BY <1>1, <2>1
    <2>3. \A n \in (i + 1)..Len(Order) : n \in 1..Len(Order)
      BY <1>1, <2>1
    <2>4. i - 1 \in Int /\ i + 1 \in Int
      BY <1>1, <2>1
    <2> HIDE DEF i
    <2>5. SubSeq(Order, 1, i - 1) \in Seq(Provider)
      BY <1>2, <2>1, <2>2, <2>4, SubSeqProperties
    <2>6. SubSeq(Order, i + 1, Len(Order)) \in Seq(Provider)
      BY <1>2, <2>1, <2>3, <2>4, SubSeqProperties
    <2> QED BY <2>5, <2>6
  <1> HIDE DEF i
  <1>4. ChainFrom(p) = <<p>> \o SubSeq(Order, 1, i - 1) \o SubSeq(Order, i + 1, Len(Order))
    BY DEF ChainFrom, i
  <1> QED BY <1>3, <1>4

\* What a query becomes is a Progress, and has a provider to call while it calls.
LEMMA QueryGoes ==
    ASSUME NEW r \in Progress, NEW l \in {"idle", "route", "trying", "calling", "log"}
    PROVE  [r EXCEPT !.at = l] \in Progress /\ [r EXCEPT !.at = l].chain = r.chain
  BY DEF Progress

\* A query that moves on to the next provider of its chain.
LEMMA QueryAdvances ==
    ASSUME NEW r \in Progress, r.chain # <<>>
    PROVE  /\ Head(r.chain) \in Provider
           /\ [r EXCEPT !.chain = Tail(@), !.at = "trying"] \in Progress
           /\ [r EXCEPT !.chain = Tail(@), !.at = "trying"].at = "trying"
  <1>1. r.chain \in Seq(Provider)
    BY DEF Progress
  <1>2. Head(r.chain) \in Provider /\ Tail(r.chain) \in Seq(Provider)
    BY <1>1
  <1> QED BY <1>2 DEF Progress

\* A query that is asked once more.
LEMMA QueryAsked ==
    ASSUME NEW r \in Progress, NEW s \in Seq(Provider)
    PROVE  /\ [r EXCEPT !.chain = s, !.at = "trying", !.kind = "second"] \in Progress
           /\ [r EXCEPT !.chain = s, !.at = "trying", !.kind = "second"].at = "trying"
  BY DEF Progress

\* A query that has passed the gate.
LEMMA QueryAdmitted ==
    ASSUME NEW r \in Progress, NEW k \in {"simple", "stream"}
    PROVE  /\ [r EXCEPT !.at = "route", !.kind = k] \in Progress
           /\ [r EXCEPT !.at = "route", !.kind = k].at = "route"
  BY DEF Progress

\* A query that has been given its chain.
LEMMA QueryRouted ==
    ASSUME NEW r \in Progress, NEW s \in Seq(Provider)
    PROVE  /\ [r EXCEPT !.chain = s, !.at = "trying"] \in Progress
           /\ [r EXCEPT !.chain = s, !.at = "trying"].at = "trying"
  BY DEF Progress

\* A query that has its answer.
LEMMA QueryBilled ==
    ASSUME NEW r \in Progress, NEW c \in Costs
    PROVE  /\ [r EXCEPT !.at = "log", !.cost = c] \in Progress
           /\ [r EXCEPT !.at = "log", !.cost = c].at = "log"
  BY DEF Progress

\* A query that is not in progress.
LEMMA IdleTyped == Idle \in Progress /\ Idle.at = "idle"
  BY DEF Idle, Progress

\* The parts of the invariant that a step can disturb: the breakers, and the queries.
BreakersOK == breaker \in [Provider -> Breaker] /\ ClosedIsFresh
QueriesOK ==
    /\ query \in [Query -> Progress]
    /\ \A q \in Query : Calling(q) => query[q].chain # <<>>
RestOK ==
    /\ retry \in [Provider -> 0..RetryFor]
    /\ mode \in [Provider -> {"up", "down", "limiting"}]
    /\ spend \in 0..(Limit + 1) /\ billed \in Nat /\ lost \in BOOLEAN

IInv == BreakersOK /\ QueriesOK /\ RestOK

\* A step that replaces one breaker by a fresh one keeps all of them in order.
LEMMA OneBreaker ==
    ASSUME BreakersOK, NEW p \in Provider, NEW b \in Breaker, Fresh(b),
           breaker' = [breaker EXCEPT ![p] = b]
    PROVE  BreakersOK'
  BY DEF BreakersOK, ClosedIsFresh

\* A step that moves one query keeps all of them in order.
LEMMA OneQuery ==
    ASSUME QueriesOK, NEW q \in Query, NEW r \in Progress, r.at = "calling" => r.chain # <<>>,
           query' = [query EXCEPT ![q] = r]
    PROVE  QueriesOK'
  BY DEF QueriesOK, Calling

\* A step that leaves the breakers alone.
LEMMA SameBreakers ==
    ASSUME BreakersOK, UNCHANGED breaker PROVE BreakersOK'
  BY DEF BreakersOK, ClosedIsFresh

\* A step that leaves the queries alone.
LEMMA SameQueries ==
    ASSUME QueriesOK, UNCHANGED query PROVE QueriesOK'
  BY DEF QueriesOK, Calling

\* A step that leaves everything else alone.
LEMMA SameRest ==
    ASSUME RestOK, UNCHANGED <<retry, mode, spend, billed, lost>> PROVE RestOK'
  BY DEF RestOK

\* The numbers among the constants.
LEMMA Costly == Costs \subseteq Nat /\ Limit \in Nat /\ RetryFor \in Nat
  BY QueryAssumption

\* The shared moves of a query.
LEMMA GoesOK ==
    ASSUME QueriesOK, NEW q \in Query, NEW l \in {"route", "log"}, Goes(q, l)
    PROVE  QueriesOK'
  <1> DEFINE r == [query[q] EXCEPT !.at = l]
  <1>1. r \in Progress /\ r.at = l
    BY DEF QueriesOK, Progress
  <1>2. query' = [query EXCEPT ![q] = r]
    BY DEF Goes, QueriesOK
  <1> HIDE DEF r
  <1> QED BY <1>1, <1>2, OneQuery

\* A query that ends.
LEMMA EndsOK ==
    ASSUME QueriesOK, NEW q \in Query, Ends(q)
    PROVE  QueriesOK'
  BY IdleTyped, OneQuery DEF Ends

\* A query that is refused or fails and moves on in its chain.
LEMMA NextInChainOK ==
    ASSUME QueriesOK, NEW q \in Query, NextInChain(q), query[q].chain # <<>>
    PROVE  QueriesOK'
  <1> DEFINE r == [query[q] EXCEPT !.chain = Tail(@), !.at = "trying"]
  <1>1. query[q] \in Progress
    BY DEF QueriesOK
  <1>2. r \in Progress /\ r.at = "trying"
    BY <1>1, QueryAdvances
  <1>3. query' = [query EXCEPT ![q] = r]
    BY <1>1 DEF NextInChain, QueriesOK
  <1> HIDE DEF r
  <1> QED BY <1>2, <1>3, OneQuery

\* The provider whose turn it is.
LEMMA FirstTyped ==
    ASSUME QueriesOK, NEW q \in Query, query[q].chain # <<>>
    PROVE  First(q) \in Provider
  BY QueryAdvances DEF QueriesOK, First

\* The initial state satisfies the invariant.
LEMMA InitOK == Init => IInv
  <1> SUFFICES ASSUME Init PROVE IInv
    OBVIOUS
  <1>1. BreakersOK
    BY NewBreakerFresh DEF Init, BreakersOK, ClosedIsFresh
  <1>2. QueriesOK
    BY IdleTyped DEF Init, QueriesOK, Calling
  <1>3. RestOK
    <2>1. retry \in [Provider -> 0..RetryFor]
      BY Costly DEF Init
    <2>2. mode \in [Provider -> {"up", "down", "limiting"}]
      BY DEF Init
    <2>3. spend \in 0..(Limit + 1) /\ billed \in Nat
      BY Costly DEF Init
    <2>4. lost \in BOOLEAN
      BY DEF Init
    <2> QED BY <2>1, <2>2, <2>3, <2>4 DEF RestOK
  <1> QED BY <1>1, <1>2, <1>3 DEF IInv

\* Every step keeps it: one case per action.
LEMMA StepOK == IInv /\ [Next]_vars => IInv'
  <1> SUFFICES ASSUME IInv, [Next]_vars PROVE IInv'
    OBVIOUS
  <1>0. BreakersOK /\ QueriesOK /\ RestOK
    BY DEF IInv
  <1> SUFFICES BreakersOK' /\ QueriesOK' /\ RestOK'
    BY DEF IInv
  <1>1. ASSUME NEW q \in Query, CheckBudget(q) PROVE BreakersOK' /\ QueriesOK' /\ RestOK'
    <2>1. BreakersOK'
      BY <1>0, <1>1, SameBreakers DEF CheckBudget
    <2>2. QueriesOK'
      <3>1. PICK k \in {"simple", "stream"} :
               query' = [query EXCEPT ![q].at = "route", ![q].kind = k]
        BY <1>1 DEF CheckBudget
      <3> DEFINE r == [query[q] EXCEPT !.at = "route", !.kind = k]
      <3>2. r \in Progress /\ r.at = "route"
        BY <1>0, QueryAdmitted DEF QueriesOK
      <3>3. query' = [query EXCEPT ![q] = r]
        BY <1>0, <3>1 DEF QueriesOK
      <3> HIDE DEF r
      <3> QED BY <1>0, <3>2, <3>3, OneQuery
    <2>3. RestOK'
      BY <1>0, <1>1 DEF CheckBudget, RestOK
    <2> QED BY <2>1, <2>2, <2>3
  <1>2. ASSUME NEW q \in Query, Route(q) PROVE BreakersOK' /\ QueriesOK' /\ RestOK'
    <2>1. BreakersOK' /\ RestOK'
      BY <1>0, <1>2, SameBreakers, SameRest DEF Route
    <2>2. QueriesOK'
      <3>1. PICK p \in Provider :
               query' = [query EXCEPT ![q].chain = ChainFrom(p), ![q].at = "trying"]
        BY <1>2, QueryAssumption DEF Route, Candidates
      <3> DEFINE r == [query[q] EXCEPT !.chain = ChainFrom(p), !.at = "trying"]
      <3>2. query[q] \in Progress
        BY <1>0 DEF QueriesOK
      <3>3. r \in Progress /\ r.at = "trying"
        BY <3>2, ChainTyped, QueryRouted
      <3>4. query' = [query EXCEPT ![q] = r]
        BY <1>0, <3>1 DEF QueriesOK
      <3> HIDE DEF r
      <3> QED BY <1>0, <3>3, <3>4, OneQuery
    <2> QED BY <2>1, <2>2
  <1>3. ASSUME NEW q \in Query, Try(q) PROVE BreakersOK' /\ QueriesOK' /\ RestOK'
    <2>1. First(q) \in Provider /\ query[q].chain # <<>>
      BY <1>0, <1>3, FirstTyped DEF Try
    <2>2. BreakersOK'
      <3>1. breaker[First(q)] \in Breaker /\ Fresh(breaker[First(q)])
        BY <1>0, <2>1 DEF BreakersOK, ClosedIsFresh
      <3>2. breaker' = [breaker EXCEPT ![First(q)] = Asked(breaker[First(q)])]
        BY <1>0, <1>3 DEF Try, BreakersOK
      <3> QED BY <1>0, <2>1, <3>1, <3>2, AskedFresh, OneBreaker
    <2>3. QueriesOK'
      <3>1. CASE NextInChain(q)
        BY <1>0, <2>1, <3>1, NextInChainOK
      <3>2. CASE Goes(q, "calling")
        <4> DEFINE r == [query[q] EXCEPT !.at = "calling"]
        <4>1. r \in Progress /\ r.chain = query[q].chain
          BY <1>0, QueryGoes DEF QueriesOK
        <4>2. query' = [query EXCEPT ![q] = r]
          BY <1>0, <3>2 DEF Goes, QueriesOK
        <4> HIDE DEF r
        <4> QED BY <1>0, <2>1, <4>1, <4>2, OneQuery
      <3> QED BY <1>3, <3>1, <3>2 DEF Try
    <2>4. RestOK'
      BY <1>0, <1>3, SameRest DEF Try
    <2> QED BY <2>2, <2>3, <2>4
  <1>5. ASSUME NEW q \in Query, Succeeds(q) PROVE BreakersOK' /\ QueriesOK' /\ RestOK'
    <2>1. First(q) \in Provider
      BY <1>0, <1>5, FirstTyped DEF Succeeds, QueriesOK
    <2>2. BreakersOK'
      <3>1. breaker[First(q)] \in Breaker /\ Fresh(breaker[First(q)])
        BY <1>0, <2>1 DEF BreakersOK, ClosedIsFresh
      <3>2. breaker' = [breaker EXCEPT ![First(q)] = RecordSuccess(breaker[First(q)])]
        BY <1>0, <1>5 DEF Succeeds, BreakersOK
      <3> QED BY <1>0, <2>1, <3>1, <3>2, SuccessFresh, OneBreaker
    <2>3. PICK c \in Costs : /\ query' = [query EXCEPT ![q].at = "log", ![q].cost = c]
                             /\ billed' = IF lost THEN billed ELSE billed + c
      BY <1>5 DEF Succeeds
    <2>4. QueriesOK'
      <3> DEFINE r == [query[q] EXCEPT !.at = "log", !.cost = c]
      <3>1. query[q] \in Progress
        BY <1>0 DEF QueriesOK
      <3>2. r \in Progress /\ r.at = "log"
        BY <3>1, QueryBilled
      <3>3. query' = [query EXCEPT ![q] = r]
        BY <1>0, <2>3 DEF QueriesOK
      <3> HIDE DEF r
      <3> QED BY <1>0, <3>2, <3>3, OneQuery
    <2>5. RestOK'
      <3>1. billed' \in Nat
        BY <1>0, <2>3, Costly DEF RestOK
      <3>2. lost' \in BOOLEAN
        BY <1>5 DEF Succeeds
      <3> QED BY <1>0, <1>5, <3>1, <3>2 DEF Succeeds, RestOK
    <2> QED BY <2>2, <2>4, <2>5
  <1>13. ASSUME NEW q \in Query, StreamSucceeds(q) PROVE BreakersOK' /\ QueriesOK' /\ RestOK'
    <2>1. First(q) \in Provider
      BY <1>0, <1>13, FirstTyped DEF StreamSucceeds, QueriesOK
    <2>2. BreakersOK'
      <3>1. breaker[First(q)] \in Breaker /\ Fresh(breaker[First(q)])
        BY <1>0, <2>1 DEF BreakersOK, ClosedIsFresh
      <3>2. breaker' = [breaker EXCEPT ![First(q)] = RecordSuccess(breaker[First(q)])]
        BY <1>0, <1>13 DEF StreamSucceeds, BreakersOK
      <3> QED BY <1>0, <2>1, <3>1, <3>2, SuccessFresh, OneBreaker
    <2>3. QueriesOK'
      BY <1>0, <1>13, EndsOK DEF StreamSucceeds
    <2>4. RestOK'
      BY <1>0, <1>13 DEF StreamSucceeds, RestOK
    <2> QED BY <2>2, <2>3, <2>4
  <1>14. ASSUME NEW q \in Query, StreamFails(q) PROVE BreakersOK' /\ QueriesOK' /\ RestOK'
    <2>1. BreakersOK' /\ RestOK'
      BY <1>0, <1>14, SameBreakers, SameRest DEF StreamFails
    <2>2. QueriesOK'
      BY <1>0, <1>14, NextInChainOK DEF StreamFails, QueriesOK
    <2> QED BY <2>1, <2>2
  <1>15. ASSUME NEW q \in Query, TriesAgain(q) PROVE BreakersOK' /\ QueriesOK' /\ RestOK'
    <2>1. BreakersOK' /\ RestOK'
      BY <1>0, <1>15, SameBreakers, SameRest DEF TriesAgain
    <2>2. QueriesOK'
      <3>1. PICK p \in Provider :
               query' = [query EXCEPT ![q].chain = ChainFrom(p), ![q].at = "trying", ![q].kind = "second"]
        BY <1>15 DEF TriesAgain
      <3> DEFINE r == [query[q] EXCEPT !.chain = ChainFrom(p), !.at = "trying", !.kind = "second"]
      <3>2. query[q] \in Progress
        BY <1>0 DEF QueriesOK
      <3>3. r \in Progress /\ r.at = "trying"
        BY <3>2, ChainTyped, QueryAsked
      <3>4. query' = [query EXCEPT ![q] = r]
        BY <1>0, <3>1 DEF QueriesOK
      <3> HIDE DEF r
      <3> QED BY <1>0, <3>3, <3>4, OneQuery
    <2> QED BY <2>1, <2>2
  <1>16. ASSUME NEW q \in Query, KeepsFirst(q) PROVE BreakersOK' /\ QueriesOK' /\ RestOK'
    BY <1>0, <1>16, SameBreakers, SameRest, GoesOK DEF KeepsFirst
  <1>6. ASSUME NEW q \in Query, Fails(q) PROVE BreakersOK' /\ QueriesOK' /\ RestOK'
    <2>1. First(q) \in Provider /\ query[q].chain # <<>>
      BY <1>0, <1>6, FirstTyped DEF Fails, QueriesOK
    <2>2. BreakersOK'
      <3>1. breaker[First(q)] \in Breaker /\ Fresh(breaker[First(q)])
        BY <1>0, <2>1 DEF BreakersOK, ClosedIsFresh
      <3>2. breaker' = [breaker EXCEPT ![First(q)] = RecordFailure(breaker[First(q)])]
        BY <1>0, <1>6 DEF Fails, BreakersOK
      <3> QED BY <1>0, <2>1, <3>1, <3>2, FailureFresh, OneBreaker
    <2>3. QueriesOK'
      BY <1>0, <1>6, <2>1, NextInChainOK DEF Fails
    <2>4. RestOK'
      BY <1>0, <1>6, SameRest DEF Fails
    <2> QED BY <2>2, <2>3, <2>4
  <1>7. ASSUME NEW q \in Query, Limited(q) PROVE BreakersOK' /\ QueriesOK' /\ RestOK'
    <2>1. First(q) \in Provider /\ query[q].chain # <<>>
      BY <1>0, <1>7, FirstTyped DEF Limited, QueriesOK
    <2>2. BreakersOK' /\ QueriesOK'
      BY <1>0, <1>7, <2>1, SameBreakers, NextInChainOK DEF Limited
    <2>3. RestOK'
      BY <1>0, <1>7, <2>1, Costly DEF Limited, RestOK
    <2> QED BY <2>2, <2>3
  <1>8. ASSUME NEW q \in Query, Breaks(q) PROVE BreakersOK' /\ QueriesOK' /\ RestOK'
    <2>1. BreakersOK' /\ QueriesOK'
      BY <1>0, <1>8, SameBreakers, EndsOK DEF Breaks
    <2>2. RestOK'
      BY <1>0, <1>8 DEF Breaks, RestOK
    <2> QED BY <2>1, <2>2
  <1>9. ASSUME NEW q \in Query, Log(q) PROVE BreakersOK' /\ QueriesOK' /\ RestOK'
    <2>1. BreakersOK' /\ QueriesOK'
      BY <1>0, <1>9, SameBreakers, EndsOK DEF Log
    <2>2. query[q].cost \in Nat
      <3>1. query[q] \in Progress
        BY <1>0 DEF QueriesOK
      <3>2. query[q].cost \in Costs \cup {0}
        BY <3>1 DEF Progress
      <3>3. \A c \in Costs \cup {0} : c \in Nat
        BY Costly
      <3> QED BY <3>2, <3>3
    <2>3. spend' \in 0..(Limit + 1)
      BY <1>0, <1>9, <2>2, Costly DEF Log, RestOK
    <2>4. lost' \in BOOLEAN
      BY <1>0, <1>9 DEF Log, RestOK
    <2>5. RestOK'
      BY <1>0, <1>9, <2>3, <2>4 DEF Log, RestOK
    <2> QED BY <2>1, <2>5
  <1>10. ASSUME NEW p \in Flaky, NEW m \in {"up", "down", "limiting"}, Becomes(p, m)
         PROVE BreakersOK' /\ QueriesOK' /\ RestOK'
    <2>1. BreakersOK' /\ QueriesOK'
      BY <1>0, <1>10, SameBreakers, SameQueries DEF Becomes
    <2>2. RestOK'
      BY <1>0, <1>10, QueryAssumption DEF Becomes, RestOK
    <2> QED BY <2>1, <2>2
  <1>11. CASE Tick
    <2>1. BreakersOK'
      BY <1>0, <1>11, AgedFresh DEF Tick, BreakersOK, ClosedIsFresh
    <2>2. QueriesOK'
      BY <1>0, <1>11, SameQueries DEF Tick
    <2>3. RestOK'
      BY <1>0, <1>11, Costly DEF Tick, RestOK
    <2> QED BY <2>1, <2>2, <2>3
  <1>12. CASE UNCHANGED vars
    BY <1>0, <1>12, SameBreakers, SameQueries, SameRest DEF vars
  <1> QED
    BY <1>1, <1>2, <1>3, <1>5, <1>6, <1>7, <1>8, <1>9, <1>10, <1>11, <1>12, <1>13, <1>14,
       <1>15, <1>16
    DEF Next, QueryStep, Answers

\* The invariant of EngineQuery, for any providers, queries, thresholds and windows.
THEOREM Invariant == Spec => []IInv
  BY InitOK, StepOK, PTL DEF Spec

\* Every variable stays in its type.
THEOREM TypeCorrect == Spec => []TypeOK
  <1>1. IInv => TypeOK
    BY DEF IInv, BreakersOK, QueriesOK, RestOK, TypeOK
  <1> QED BY Invariant, <1>1, PTL

\* A closed breaker holds fewer failures within the window than open it, and its
\* initial cooldown, whichever calls were under way when it opened and closed again.
THEOREM ClosedStaysFresh == Spec => []ClosedIsFresh
  <1>1. IInv => ClosedIsFresh
    BY DEF IInv, BreakersOK
  <1> QED BY Invariant, <1>1, PTL

-----------------------------------------------------------------------------
(* The budget                                                              *)

\* A query past the gate whose first answer is still to come may cost as much as any;
\* one that has its answer costs that.
MayCost(r) == r.at \in {"route", "trying", "calling"} /\ r.kind # "second"
Charge(r)  == IF MayCost(r) THEN MaxCost ELSE 0
Weight(r)  == IF MayCost(r) THEN MaxCost ELSE r.cost
Open       == {q \in Query : MayCost(query[q])}
Weights    == [q \in Query |-> Weight(query[q])]

\* A query with a cost has an answer, which the second try may still replace.
Paid(r) == r.cost = 0 \/ r.at = "log" \/ (r.kind = "second" /\ r.at # "idle")

\* p[T] is the sum of the weights of T.
Sums(p, W) ==
    /\ p \in [SUBSET Query -> Nat] /\ p[{}] = 0
    /\ \A T \in SUBSET Query : \A q \in Query \ T : p[T \cup {q}] = p[T] + W[q]
    /\ \A T \in SUBSET Query : p[T] <= MaxCost * Cardinality(T)

\* What has been entered, u, and what may still be add up to less than the limit and one
\* answer each; the ledger shows u up to just above the limit.
Spent(p, u) ==
    /\ Sums(p, Weights)
    /\ spend = Least(u, Limit + 1)
    /\ billed + MaxCost * Cardinality(Open) = u + p[Query]
    /\ u + p[Query] < Limit + MaxCost * Cardinality(Query)

SpendInv ==
    /\ \A q \in Query : Paid(query[q])
    /\ ~lost => \E p \in [SUBSET Query -> Nat], u \in Nat : Spent(p, u)

LEMMA Prices == MaxCost \in Nat /\ (\A c \in Costs : c \in Nat /\ c <= MaxCost) /\ Limit \in Nat \ {0}
  BY QueryAssumption DEF MaxCost

LEMMA Multiples == \A n \in Nat : MaxCost * n \in Nat /\ MaxCost * (n + 1) = MaxCost * n + MaxCost
  BY Prices

LEMMA QueriesCounted ==
    \A T \in SUBSET Query : IsFiniteSet(T) /\ Cardinality(T) \in Nat
  BY QueryAssumption, FS_Subset, FS_CardinalityType

LEMMA WeightTyped ==
    ASSUME NEW r \in Progress
    PROVE  /\ Weight(r) \in 0..MaxCost /\ Charge(r) \in 0..MaxCost /\ r.cost \in 0..MaxCost
           /\ MayCost(r) \in BOOLEAN
  <1>1. r.cost \in 0..MaxCost
    BY Prices DEF Progress
  <1> QED BY <1>1, Prices DEF Weight, Charge, MayCost

\* The sums follow when one weight changes.
LEMMA OneWeight ==
    ASSUME NEW W \in [Query -> 0..MaxCost], NEW p, Sums(p, W),
           NEW q \in Query, NEW w \in 0..MaxCost
    PROVE  \E s \in [SUBSET Query -> Nat] :
              Sums(s, [W EXCEPT ![q] = w]) /\ s[Query] + W[q] = p[Query] + w
  <1> DEFINE V == [W EXCEPT ![q] = w]
             s == [T \in SUBSET Query |-> IF q \in T THEN p[T \ {q}] + w ELSE p[T]]
  <1>1. p \in [SUBSET Query -> Nat] /\ MaxCost \in Nat /\ w \in Nat /\ w <= MaxCost
    BY Prices DEF Sums
  <1>2. s \in [SUBSET Query -> Nat]
    BY <1>1
  <1>3. s[{}] = 0
    BY DEF Sums
  <1>4. ASSUME NEW T \in SUBSET Query, NEW r \in Query \ T
        PROVE  s[T \cup {r}] = s[T] + V[r]
    <2>1. CASE r = q
      <3>1. (T \cup {q}) \ {q} = T
        BY <2>1
      <3> QED BY <2>1, <3>1
    <2>2. CASE r # q /\ q \in T
      <3>1. (T \cup {r}) \ {q} = (T \ {q}) \cup {r} /\ T \ {q} \in SUBSET Query
        BY <2>2
      <3>2. p[(T \ {q}) \cup {r}] = p[T \ {q}] + W[r]
        BY <3>1 DEF Sums
      <3>3. s[T \cup {r}] = p[T \ {q}] + W[r] + w /\ s[T] = p[T \ {q}] + w /\ V[r] = W[r]
        BY <2>2, <3>1, <3>2
      <3>4. p[T \ {q}] \in Nat /\ W[r] \in Nat
        BY <1>1, Prices, <3>1
      <3> HIDE DEF s, V
      <3> QED BY <1>1, <3>3, <3>4
    <2>3. CASE r # q /\ q \notin T
      BY <2>3 DEF Sums
    <2> QED BY <2>1, <2>2, <2>3
  <1>5. ASSUME NEW T \in SUBSET Query
        PROVE  s[T] <= MaxCost * Cardinality(T)
    <2>1. CASE q \in T
      <3>1. T \ {q} \in SUBSET Query
        OBVIOUS
      <3>2. Cardinality(T) = Cardinality(T \ {q}) + 1 /\ Cardinality(T \ {q}) \in Nat
        BY <2>1, QueriesCounted, FS_RemoveElement
      <3>3. MaxCost * Cardinality(T) = MaxCost * Cardinality(T \ {q}) + MaxCost
        BY <3>2, Multiples
      <3>4. p[T \ {q}] <= MaxCost * Cardinality(T \ {q}) /\ p[T \ {q}] \in Nat
        BY <1>1, <3>1 DEF Sums
      <3>5. s[T] = p[T \ {q}] + w
        BY <2>1
      <3>6. MaxCost * Cardinality(T \ {q}) \in Nat
        BY <3>2, Multiples
      <3> HIDE DEF s
      <3> QED BY <1>1, <3>3, <3>4, <3>5, <3>6
    <2>2. CASE q \notin T
      BY <2>2 DEF Sums
    <2> QED BY <2>1, <2>2
  <1>6. s[Query] + W[q] = p[Query] + w
    <2>1. (Query \ {q}) \cup {q} = Query /\ Query \ {q} \in SUBSET Query /\ Query \in SUBSET Query
      OBVIOUS
    <2>2. p[Query] = p[Query \ {q}] + W[q]
      BY <2>1 DEF Sums
    <2>3. s[Query] = p[Query \ {q}] + w
      BY <2>1
    <2>4. p[Query \ {q}] \in Nat /\ W[q] \in Nat
      BY <1>1, <2>1, Prices
    <2> HIDE DEF s
    <2> QED BY <1>1, <2>2, <2>3, <2>4
  <1>7. Sums(s, V)
    BY <1>2, <1>3, <1>4, <1>5 DEF Sums
  <1> QED BY <1>2, <1>6, <1>7

\* A step of one query, seen by the sums and by the count of the open ones.
LEMMA OneMove ==
    ASSUME QueriesOK, NEW q \in Query, NEW r \in Progress, query' = [query EXCEPT ![q] = r],
           NEW p, Sums(p, Weights)
    PROVE  /\ \E s \in [SUBSET Query -> Nat] :
                 Sums(s, Weights') /\ s[Query] + Weight(query[q]) = p[Query] + Weight(r)
           /\ MaxCost * Cardinality(Open') + Charge(query[q]) = MaxCost * Cardinality(Open) + Charge(r)
  <1>1. query[q] \in Progress /\ query'[q] = r /\ \A n \in Query \ {q} : query'[n] = query[n]
    BY DEF QueriesOK
  <1>2. Weights \in [Query -> 0..MaxCost] /\ Weight(r) \in 0..MaxCost
    BY WeightTyped DEF Weights, QueriesOK
  <1>3. Weights' = [Weights EXCEPT ![q] = Weight(r)] /\ Weights[q] = Weight(query[q])
    BY <1>1 DEF Weights
  <1>4. \E s \in [SUBSET Query -> Nat] :
           Sums(s, Weights') /\ s[Query] + Weight(query[q]) = p[Query] + Weight(r)
    <2>1. \E s \in [SUBSET Query -> Nat] :
             /\ Sums(s, [Weights EXCEPT ![q] = Weight(r)])
             /\ s[Query] + Weights[q] = p[Query] + Weight(r)
      BY <1>2, OneWeight
    <2> QED BY <1>3, <2>1
  <1>5. Open \in SUBSET Query
    BY DEF Open
  <1>6. IsFiniteSet(Open) /\ Cardinality(Open) \in Nat /\ MaxCost * Cardinality(Open) \in Nat
    BY <1>5, QueriesCounted, Multiples
  <1>7. CASE MayCost(r) /\ MayCost(query[q])
    <2>1. Open' = Open
      BY <1>1, <1>7 DEF Open
    <2> QED BY <1>4, <1>7, <2>1 DEF Charge
  <1>8. CASE ~MayCost(r) /\ ~MayCost(query[q])
    <2>1. Open' = Open
      BY <1>1, <1>8 DEF Open
    <2> QED BY <1>4, <1>8, <2>1 DEF Charge
  <1>9. CASE MayCost(r) /\ ~MayCost(query[q])
    <2>1. Open' = Open \cup {q} /\ q \notin Open
      BY <1>1, <1>9 DEF Open
    <2>2. Cardinality(Open') = Cardinality(Open) + 1
      BY <1>6, <2>1, FS_AddElement
    <2>3. MaxCost * Cardinality(Open') = MaxCost * Cardinality(Open) + MaxCost
      BY <1>6, <2>2, Multiples
    <2>4. Charge(query[q]) = 0 /\ Charge(r) = MaxCost
      BY <1>9 DEF Charge
    <2>5. MaxCost * Cardinality(Open') + Charge(query[q]) = MaxCost * Cardinality(Open) + Charge(r)
      BY <1>6, <2>3, <2>4, Prices
    <2> QED BY <1>4, <2>5
  <1>10. CASE ~MayCost(r) /\ MayCost(query[q])
    <2>1. Open' = Open \ {q} /\ q \in Open
      BY <1>1, <1>10 DEF Open
    <2>6. /\ Cardinality(Open \ {q}) = Cardinality(Open) - 1
          /\ Cardinality(Open \ {q}) \in Nat
      BY <1>6, <2>1, FS_RemoveElement, FS_CardinalityType
    <2>2. Cardinality(Open) = Cardinality(Open \ {q}) + 1 /\ Cardinality(Open \ {q}) \in Nat
      BY <1>6, <2>6
    <2>3. MaxCost * Cardinality(Open) = MaxCost * Cardinality(Open \ {q}) + MaxCost
      BY <2>2, Multiples
    <2>4. Charge(query[q]) = MaxCost /\ Charge(r) = 0 /\ MaxCost * Cardinality(Open \ {q}) \in Nat
      BY <1>10, <2>2, Multiples DEF Charge
    <2>5. MaxCost * Cardinality(Open') + Charge(query[q]) = MaxCost * Cardinality(Open) + Charge(r)
      BY <2>1, <2>3, <2>4, Prices
    <2> QED BY <1>4, <2>5
  <1> QED BY <1>7, <1>8, <1>9, <1>10

\* A step that bills c and enters e, and takes no weight up: what is spent keeps its bound.
LEMMA OneSpend ==
    ASSUME QueriesOK, RestOK, SpendInv, ~lost, NEW q \in Query,
           NEW r \in Progress, Paid(r), query' = [query EXCEPT ![q] = r],
           NEW c \in Nat, NEW e \in Nat,
           billed' = billed + c, spend' = Least(spend + e, Limit + 1),
           c + Charge(r) + Weight(query[q]) = e + Weight(r) + Charge(query[q]),
           e + Weight(r) <= Weight(query[q])
    PROVE  SpendInv'
  <1>1. PICK p \in [SUBSET Query -> Nat], u \in Nat : Spent(p, u)
    BY DEF SpendInv
  <1>2. Sums(p, Weights)
    BY <1>1 DEF Spent
  <1>3. PICK s \in [SUBSET Query -> Nat] :
           Sums(s, Weights') /\ s[Query] + Weight(query[q]) = p[Query] + Weight(r)
    BY <1>2, OneMove
  <1>4. MaxCost * Cardinality(Open') + Charge(query[q]) = MaxCost * Cardinality(Open) + Charge(r)
    BY <1>2, OneMove
  <1> DEFINE wq == Weight(query[q])  wr == Weight(r)  cq == Charge(query[q])  cr == Charge(r)
             P  == p[Query]          S  == s[Query]
             o  == MaxCost * Cardinality(Open)  n == MaxCost * Cardinality(Open')
             b  == MaxCost * Cardinality(Query)
  <1>5. query[q] \in Progress
    BY DEF QueriesOK
  <1>6. wq \in Nat /\ wr \in Nat /\ cq \in Nat /\ cr \in Nat /\ P \in Nat /\ S \in Nat
    <2>1. \A x \in 0..MaxCost : x \in Nat
      BY Prices
    <2> QED BY <1>5, <2>1, WeightTyped
  <1>7. Open \in SUBSET Query /\ Open' \in SUBSET Query /\ Query \in SUBSET Query
    BY DEF Open
  <1>8. o \in Nat /\ n \in Nat /\ b \in Nat
    BY <1>7, QueriesCounted, Multiples
  <1>9. /\ spend = Least(u, Limit + 1) /\ billed + o = u + P /\ u + P < Limit + b
    BY <1>1 DEF Spent
  <1>10. billed \in Nat /\ Limit \in Nat
    BY Prices DEF RestOK
  <1>11. S + wq = P + wr /\ n + cq = o + cr /\ c + cr + wq = e + wr + cq /\ e + wr <= wq
    BY <1>3, <1>4
  <1> HIDE DEF wq, wr, cq, cr, P, S, o, n, b
  <1>12. (billed + c) + n = (u + e) + S /\ (u + e) + S < Limit + b /\ u + e \in Nat
    BY <1>6, <1>8, <1>9, <1>10, <1>11
  <1>13. spend' = Least(u + e, Limit + 1)
    BY <1>9, <1>10
  <1>14. Spent(s, u + e)'
    BY <1>3, <1>12, <1>13 DEF Spent, n, S, b
  <1>15. \A m \in Query : Paid(query'[m])
    BY DEF SpendInv, QueriesOK
  <1> QED BY <1>12, <1>14, <1>15 DEF SpendInv

\* A step after which an answer is lost.
LEMMA OneLost ==
    ASSUME QueriesOK, SpendInv, NEW q \in Query, NEW r \in Progress, Paid(r),
           query' = [query EXCEPT ![q] = r], lost'
    PROVE  SpendInv'
  BY DEF SpendInv, QueriesOK

\* A step that neither bills nor enters, and keeps what the query may cost.
LEMMA OneKept ==
    ASSUME QueriesOK, RestOK, SpendInv, NEW q \in Query, NEW r \in Progress, Paid(r),
           query' = [query EXCEPT ![q] = r], UNCHANGED <<spend, billed, lost>>,
           r.cost = query[q].cost, MayCost(r) <=> MayCost(query[q])
    PROVE  SpendInv'
  <1>1. CASE lost
    BY <1>1, OneLost
  <1>2. CASE ~lost
    <2>1. Weight(r) = Weight(query[q]) /\ Charge(r) = Charge(query[q])
      BY DEF Weight, Charge
    <2>2. Weight(r) \in 0..MaxCost /\ Charge(r) \in 0..MaxCost
      BY WeightTyped
    <2>3. /\ billed' = billed + 0 /\ spend' = Least(spend + 0, Limit + 1)
          /\ 0 + Charge(r) + Weight(query[q]) = 0 + Weight(r) + Charge(query[q])
          /\ 0 + Weight(r) <= Weight(query[q])
      BY <2>1, <2>2, Prices DEF RestOK
    <2> QED BY <1>2, <2>3, OneSpend
  <1> QED BY <1>1, <1>2

\* The gate: the ledger still shows what has been entered.
LEMMA OneAdmitted ==
    ASSUME QueriesOK, RestOK, SpendInv, ~lost, WithinBudget, NEW q \in Query,
           NEW r \in Progress, Paid(r), query' = [query EXCEPT ![q] = r],
           UNCHANGED <<spend, billed>>,
           Weight(query[q]) = 0, Charge(query[q]) = 0, Weight(r) = Charge(r)
    PROVE  SpendInv'
  <1>1. PICK p \in [SUBSET Query -> Nat], u \in Nat : Spent(p, u)
    BY DEF SpendInv
  <1>2. Sums(p, Weights)
    BY <1>1 DEF Spent
  <1>3. PICK s \in [SUBSET Query -> Nat] :
           Sums(s, Weights') /\ s[Query] + Weight(query[q]) = p[Query] + Weight(r)
    BY <1>2, OneMove
  <1>4. MaxCost * Cardinality(Open') + Charge(query[q]) = MaxCost * Cardinality(Open) + Charge(r)
    BY <1>2, OneMove
  <1> DEFINE wr == Weight(r)  P  == p[Query]  S  == s[Query]
             o  == MaxCost * Cardinality(Open)  n == MaxCost * Cardinality(Open')
             b  == MaxCost * Cardinality(Query)
  <1>5. wr \in Nat /\ P \in Nat /\ S \in Nat
    <2>1. \A x \in 0..MaxCost : x \in Nat
      BY Prices
    <2> QED BY <2>1, WeightTyped
  <1>6. Open \in SUBSET Query /\ Open' \in SUBSET Query /\ Query \in SUBSET Query
    BY DEF Open
  <1>7. o \in Nat /\ n \in Nat /\ b \in Nat
    BY <1>6, QueriesCounted, Multiples
  <1>8. spend = Least(u, Limit + 1) /\ billed + o = u + P
    BY <1>1 DEF Spent
  <1>9. S <= b
    BY <1>3, <1>6 DEF Sums
  <1>10. billed \in Nat /\ Limit \in Nat /\ spend < Limit
    BY Prices DEF RestOK, WithinBudget
  <1>11. S + 0 = P + wr /\ n + 0 = o + wr
    BY <1>3, <1>4
  <1> HIDE DEF wr, P, S, o, n, b
  <1>12. u < Limit
    BY <1>8, <1>10
  <1>13. billed + n = u + S /\ u + S < Limit + b
    BY <1>5, <1>7, <1>8, <1>9, <1>10, <1>11, <1>12
  <1>14. Spent(s, u)'
    BY <1>3, <1>8, <1>13 DEF Spent, n, S, b
  <1>15. \A m \in Query : Paid(query'[m])
    BY DEF SpendInv, QueriesOK
  <1> QED BY <1>14, <1>15 DEF SpendInv

\* A query that moves along its chain.
LEMMA OneAdvanced ==
    ASSUME QueriesOK, RestOK, SpendInv, NEW q \in Query, query[q].at \in {"trying", "calling"},
           query[q].chain # <<>>, NextInChain(q), UNCHANGED <<spend, billed, lost>>
    PROVE  SpendInv'
  <1> DEFINE r == [query[q] EXCEPT !.chain = Tail(@), !.at = "trying"]
  <1>1. query[q] \in Progress /\ Paid(query[q])
    BY DEF QueriesOK, SpendInv
  <1>2. r \in Progress
    BY <1>1, QueryAdvances
  <1>3. r.at = "trying" /\ r.kind = query[q].kind /\ r.cost = query[q].cost
    BY <1>1 DEF Progress
  <1>4. query' = [query EXCEPT ![q] = r]
    BY DEF NextInChain, QueriesOK
  <1> HIDE DEF r
  <1>5. Paid(r) /\ (MayCost(r) <=> MayCost(query[q]))
    BY <1>1, <1>3 DEF Paid, MayCost
  <1> QED BY <1>2, <1>3, <1>4, <1>5, OneKept

\* A query that goes to another place of the same kind.
LEMMA OneGone ==
    ASSUME QueriesOK, RestOK, SpendInv, NEW q \in Query, UNCHANGED <<spend, billed, lost>>,
           NEW l \in {"trying", "calling", "log"}, Goes(q, l),
           query[q].at \in {"trying", "calling"}, l = "log" => query[q].kind = "second"
    PROVE  SpendInv'
  <1> DEFINE r == [query[q] EXCEPT !.at = l]
  <1>1. query[q] \in Progress /\ Paid(query[q])
    BY DEF QueriesOK, SpendInv
  <1>2. r \in Progress
    BY <1>1, QueryGoes
  <1>3. r.at = l /\ r.kind = query[q].kind /\ r.cost = query[q].cost
    BY <1>1 DEF Progress
  <1>4. query' = [query EXCEPT ![q] = r]
    BY DEF Goes, QueriesOK
  <1> HIDE DEF r
  <1>5. Paid(r) /\ (MayCost(r) <=> MayCost(query[q]))
    BY <1>1, <1>3 DEF Paid, MayCost
  <1> QED BY <1>2, <1>3, <1>4, <1>5, OneKept

LEMMA IdlePaid == Paid(Idle) /\ Weight(Idle) = 0 /\ Charge(Idle) = 0
  BY DEF Paid, Weight, Charge, MayCost, Idle

LEMMA SpendInit == Init => SpendInv
  <1> SUFFICES ASSUME Init PROVE SpendInv
    OBVIOUS
  <1>1. \A q \in Query : query[q] = Idle
    BY DEF Init
  <1>2. \A q \in Query : Paid(query[q])
    BY <1>1, IdlePaid
  <1> DEFINE p == [T \in SUBSET Query |-> 0]
  <1>3. Weights = [q \in Query |-> 0]
    BY <1>1, IdlePaid DEF Weights
  <1>4. \A T \in SUBSET Query : MaxCost * Cardinality(T) \in Nat
    BY QueriesCounted, Multiples
  <1>5. Sums(p, Weights)
    BY <1>3, <1>4 DEF Sums
  <1>6. Open = {}
    BY <1>1 DEF Open, Idle, MayCost
  <1>7. MaxCost * Cardinality(Open) = 0
    BY <1>6, FS_EmptySet, Prices
  <1>8. p[Query] = 0 /\ MaxCost * Cardinality(Query) \in Nat
    BY <1>4
  <1>9. Spent(p, 0)
    BY <1>5, <1>7, <1>8, Prices DEF Init, Spent
  <1> QED BY <1>2, <1>9 DEF SpendInv

LEMMA SpendStep == IInv /\ SpendInv /\ [Next]_vars => SpendInv'
  <1> SUFFICES ASSUME IInv, SpendInv, [Next]_vars PROVE SpendInv'
    OBVIOUS
  <1>0. QueriesOK /\ RestOK
    BY DEF IInv
  <1>q. ASSUME NEW q \in Query PROVE query[q] \in Progress /\ Paid(query[q])
    BY <1>0 DEF QueriesOK, SpendInv
  <1>1. ASSUME NEW q \in Query, CheckBudget(q) PROVE SpendInv'
    <2>1. PICK k \in {"simple", "stream"} :
             query' = [query EXCEPT ![q].at = "route", ![q].kind = k]
      BY <1>1 DEF CheckBudget
    <2> DEFINE r == [query[q] EXCEPT !.at = "route", !.kind = k]
    <2>2. r \in Progress
      BY <1>q, QueryAdmitted
    <2>3. query' = [query EXCEPT ![q] = r]
      BY <1>0, <2>1 DEF QueriesOK
    <2>4. r.at = "route" /\ r.kind = k /\ r.cost = query[q].cost /\ query[q].at = "idle"
      BY <1>1, <1>q DEF CheckBudget, Progress
    <2> HIDE DEF r
    <2>5. query[q].cost = 0
      BY <1>q, <2>4 DEF Paid
    <2>6. Paid(r)
      BY <2>4, <2>5 DEF Paid
    <2>7. /\ Weight(query[q]) = 0 /\ Charge(query[q]) = 0 /\ Weight(r) = Charge(r)
      BY <2>4, <2>5 DEF Weight, Charge, MayCost
    <2>8. UNCHANGED <<spend, billed>> /\ (lost' \/ (WithinBudget /\ UNCHANGED lost))
      BY <1>1 DEF CheckBudget
    <2>9. CASE lost'
      BY <1>0, <2>2, <2>3, <2>6, <2>9, OneLost
    <2>10. CASE ~lost'
      <3>1. ~lost /\ WithinBudget
        BY <2>8, <2>10
      <3> QED BY <1>0, <2>2, <2>3, <2>6, <2>7, <2>8, <3>1, OneAdmitted
    <2> QED BY <2>9, <2>10
  <1>2. ASSUME NEW q \in Query, Route(q) PROVE SpendInv'
    <2>1. PICK p \in Provider :
             query' = [query EXCEPT ![q].chain = ChainFrom(p), ![q].at = "trying"]
      BY <1>2, QueryAssumption DEF Route, Candidates
    <2> DEFINE r == [query[q] EXCEPT !.chain = ChainFrom(p), !.at = "trying"]
    <2>2. r \in Progress
      BY <1>q, ChainTyped, QueryRouted
    <2>3. query' = [query EXCEPT ![q] = r]
      BY <1>0, <2>1 DEF QueriesOK
    <2>4. r.at = "trying" /\ r.kind = query[q].kind /\ r.cost = query[q].cost /\ query[q].at = "route"
      BY <1>2, <1>q DEF Route, Progress
    <2> HIDE DEF r
    <2>5. Paid(r) /\ (MayCost(r) <=> MayCost(query[q]))
      BY <1>q, <2>4 DEF Paid, MayCost
    <2> QED BY <1>0, <1>2, <2>2, <2>3, <2>4, <2>5, OneKept DEF Route
  <1>3. ASSUME NEW q \in Query, Try(q) PROVE SpendInv'
    <2>1. /\ query[q].at = "trying" /\ query[q].chain # <<>> /\ UNCHANGED <<spend, billed, lost>>
          /\ Goes(q, "calling") \/ NextInChain(q)
      BY <1>3 DEF Try
    <2> QED BY <1>0, <2>1, OneAdvanced, OneGone
  <1>4. ASSUME NEW q \in Query, Fails(q) \/ Limited(q) \/ StreamFails(q) PROVE SpendInv'
    <2>1. /\ query[q].at = "calling" /\ NextInChain(q) /\ UNCHANGED <<spend, billed, lost>>
      BY <1>4 DEF Fails, Limited, StreamFails, Calling
    <2>2. query[q].chain # <<>>
      BY <1>0, <2>1 DEF QueriesOK, Calling
    <2> QED BY <1>0, <2>1, <2>2, OneAdvanced
  <1>5. ASSUME NEW q \in Query, Succeeds(q) PROVE SpendInv'
    <2>1. PICK c \in Costs : /\ query' = [query EXCEPT ![q].at = "log", ![q].cost = c]
                             /\ billed' = IF lost THEN billed ELSE billed + c
      BY <1>5 DEF Succeeds
    <2> DEFINE r == [query[q] EXCEPT !.at = "log", !.cost = c]
    <2>2. r \in Progress
      BY <1>q, QueryBilled
    <2>3. query' = [query EXCEPT ![q] = r]
      BY <1>0, <2>1 DEF QueriesOK
    <2>4. r.at = "log" /\ r.cost = c /\ query[q].at = "calling"
      BY <1>5, <1>q DEF Succeeds, Calling, Progress
    <2> HIDE DEF r
    <2>5. Paid(r)
      BY <2>4 DEF Paid
    <2>6. lost' = (lost \/ query[q].kind = "second") /\ spend' = spend
      BY <1>5 DEF Succeeds
    <2>7. CASE lost'
      BY <1>0, <2>2, <2>3, <2>5, <2>7, OneLost
    <2>8. CASE ~lost'
      <3>1. ~lost /\ query[q].kind # "second"
        BY <2>6, <2>8
      <3>2. Weight(query[q]) = MaxCost /\ Charge(query[q]) = MaxCost /\ Weight(r) = c /\ Charge(r) = 0
        BY <2>4, <3>1 DEF Weight, Charge, MayCost
      <3>3. c \in Nat /\ c <= MaxCost /\ MaxCost \in Nat /\ spend \in 0..(Limit + 1) /\ Limit \in Nat
        BY <1>0, Prices DEF RestOK
      <3>4. /\ billed' = billed + c /\ spend' = Least(spend + 0, Limit + 1)
            /\ c + Charge(r) + Weight(query[q]) = 0 + Weight(r) + Charge(query[q])
            /\ 0 + Weight(r) <= Weight(query[q])
        BY <2>1, <2>6, <3>1, <3>2, <3>3
      <3> QED BY <1>0, <2>2, <2>3, <2>5, <3>1, <3>3, <3>4, OneSpend
    <2> QED BY <2>7, <2>8
  <1>6. ASSUME NEW q \in Query, StreamSucceeds(q) PROVE SpendInv'
    <2>1. query' = [query EXCEPT ![q] = Idle] /\ lost'
      BY <1>6 DEF StreamSucceeds, Ends
    <2> QED BY <1>0, <2>1, IdleTyped, IdlePaid, OneLost
  <1>7. ASSUME NEW q \in Query, TriesAgain(q) PROVE SpendInv'
    <2>1. PICK p \in Provider :
             query' = [query EXCEPT ![q].chain = ChainFrom(p), ![q].at = "trying", ![q].kind = "second"]
      BY <1>7 DEF TriesAgain
    <2> DEFINE r == [query[q] EXCEPT !.chain = ChainFrom(p), !.at = "trying", !.kind = "second"]
    <2>2. r \in Progress
      BY <1>q, ChainTyped, QueryAsked
    <2>3. query' = [query EXCEPT ![q] = r]
      BY <1>0, <2>1 DEF QueriesOK
    <2>4. r.at = "trying" /\ r.kind = "second" /\ r.cost = query[q].cost /\ query[q].at = "log"
      BY <1>7, <1>q DEF TriesAgain, Progress
    <2> HIDE DEF r
    <2>5. Paid(r) /\ (MayCost(r) <=> MayCost(query[q]))
      BY <2>4 DEF Paid, MayCost
    <2> QED BY <1>0, <1>7, <2>2, <2>3, <2>4, <2>5, OneKept DEF TriesAgain
  <1>8. ASSUME NEW q \in Query, KeepsFirst(q) PROVE SpendInv'
    BY <1>0, <1>8, OneGone DEF KeepsFirst
  <1>9. ASSUME NEW q \in Query, Breaks(q) PROVE SpendInv'
    <2>1. /\ query' = [query EXCEPT ![q] = Idle] /\ query[q].at # "idle"
          /\ lost' = (lost \/ query[q].at = "log" \/ query[q].kind = "second")
          /\ UNCHANGED <<spend, billed>>
      BY <1>9 DEF Breaks, Ends
    <2>2. CASE lost'
      BY <1>0, <2>1, <2>2, IdleTyped, IdlePaid, OneLost
    <2>3. CASE ~lost'
      <3>1. ~lost /\ MayCost(query[q])
        BY <1>q, <2>1, <2>3 DEF MayCost, Progress
      <3>2. Weight(query[q]) = MaxCost /\ Charge(query[q]) = MaxCost
        BY <3>1 DEF Weight, Charge
      <3>3. /\ billed' = billed + 0 /\ spend' = Least(spend + 0, Limit + 1) /\ 0 \in Nat
            /\ 0 + Charge(Idle) + Weight(query[q]) = 0 + Weight(Idle) + Charge(query[q])
            /\ 0 + Weight(Idle) <= Weight(query[q])
        BY <1>0, <2>1, <3>2, IdlePaid, Prices DEF RestOK
      <3> QED BY <1>0, <2>1, <3>1, <3>3, IdleTyped, IdlePaid, OneSpend
    <2> QED BY <2>2, <2>3
  <1>10. ASSUME NEW q \in Query, Log(q) PROVE SpendInv'
    <2>1. /\ query' = [query EXCEPT ![q] = Idle] /\ query[q].at = "log" /\ billed' = billed
          /\ lost' \/ (spend' = Least(spend + query[q].cost, Limit + 1) /\ UNCHANGED lost)
      BY <1>10, Zenon DEF Log, Ends
    <2>2. CASE lost'
      BY <1>0, <2>1, <2>2, IdleTyped, IdlePaid, OneLost
    <2>3. CASE ~lost'
      <3>1. ~lost /\ spend' = Least(spend + query[q].cost, Limit + 1)
        BY <2>1, <2>3
      <3>2. Weight(query[q]) = query[q].cost /\ Charge(query[q]) = 0
        BY <2>1 DEF Weight, Charge, MayCost
      <3>3. query[q].cost \in Nat
        BY <1>q, WeightTyped, Prices
      <3>4. /\ billed' = billed + 0 /\ 0 \in Nat
            /\ 0 + Charge(Idle) + Weight(query[q]) = query[q].cost + Weight(Idle) + Charge(query[q])
            /\ query[q].cost + Weight(Idle) <= Weight(query[q])
        BY <1>0, <2>1, <3>2, <3>3, IdlePaid DEF RestOK
      <3> QED BY <1>0, <2>1, <3>1, <3>3, <3>4, IdleTyped, IdlePaid, OneSpend
    <2> QED BY <2>2, <2>3
  <1>11. ASSUME UNCHANGED <<query, spend, billed, lost>> PROVE SpendInv'
    <2>1. Weights' = Weights /\ Open' = Open
      BY <1>11 DEF Weights, Open
    <2> QED BY <1>11, <2>1 DEF SpendInv, Spent
  <1>12. CASE Tick \/ UNCHANGED vars \/ \E p \in Flaky, m \in {"up", "down", "limiting"} : Becomes(p, m)
    BY <1>11, <1>12 DEF Tick, Becomes, vars
  <1> QED BY <1>1, <1>2, <1>3, <1>4, <1>5, <1>6, <1>7, <1>8, <1>9, <1>10, <1>12
       DEF Next, QueryStep, Answers

\* For any queries side by side, limit and costs, however they are routed, fall back, are
\* tried again and break off: as long as every answer is entered and the ledger can be
\* read, what they cost stays below the limit and one answer of each query.
THEOREM OverspendStaysBounded == Spec => []OverspendBounded
  <1>1. IInv /\ SpendInv => OverspendBounded
    <2> SUFFICES ASSUME IInv, SpendInv, ~lost
                 PROVE  billed < Limit + Cardinality(Query) * MaxCost
      BY DEF OverspendBounded
    <2>1. PICK p \in [SUBSET Query -> Nat], u \in Nat : Spent(p, u)
      BY DEF SpendInv
    <2> DEFINE o == MaxCost * Cardinality(Open)  b == MaxCost * Cardinality(Query)
    <2>2. billed + o = u + p[Query] /\ u + p[Query] < Limit + b
      BY <2>1 DEF Spent
    <2>3. Open \in SUBSET Query /\ Query \in SUBSET Query
      BY DEF Open
    <2>4. o \in Nat /\ b \in Nat /\ b = Cardinality(Query) * MaxCost
      BY <2>3, QueriesCounted, Multiples, Prices
    <2>5. billed \in Nat /\ Limit \in Nat /\ p[Query] \in Nat
      BY <2>3, Prices DEF IInv, RestOK
    <2> HIDE DEF o, b
    <2>6. billed < Limit + b
      BY <2>2, <2>4, <2>5
    <2> QED BY <2>4, <2>6
  <1>2. IInv /\ SpendInv /\ [Next]_vars => (IInv /\ SpendInv)'
    BY StepOK, SpendStep
  <1> QED BY <1>1, <1>2, InitOK, SpendInit, PTL DEF Spec
=============================================================================
