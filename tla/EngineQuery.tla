----------------------------- MODULE EngineQuery -----------------------------
(***************************************************************************)
(* Engine.query and query_stream (core/engine.py): the budget gate, the    *)
(* route, the fallback chain under the providers' breakers, the            *)
(* orchestrator's second try, and the entry in the ledger, for queries     *)
(* that run side by side on the event loop.                                *)
(*                                                                         *)
(* A step is what happens between two awaits, except that the entries of a *)
(* chain are tried in steps of their own (no await lies between a refused  *)
(* entry and the next one; letting others in only adds behaviours).  One   *)
(* budget period with hard_stop, as by default.                            *)
(***************************************************************************)
EXTENDS RateLimiter, Sequences, FiniteSets

CONSTANTS
    Order,      \* the enabled providers, in fallback order
    Flaky,      \* (bound) the providers that may fail
    Query,      \* queries that may be in progress at once
    Limit,      \* daily_limit_usd
    Costs,      \* what an answer may cost
    RetryFor,   \* the retry-after of a 429
    Default,    \* defaults.provider
    Streamers,  \* the queries that may be streamed
    Judged,     \* the queries whose answer the orchestrator judges (its FULL mode)
    Named       \* whether a caller, a routing rule or the local-first broker may
                \* name the provider

Provider == {Order[i] : i \in 1..Len(Order)}
MaxCost  == CHOOSE c \in Costs : \A d \in Costs : d <= c

ASSUME QueryAssumption ==
    /\ Order \in Seq(Provider) /\ Order # <<>>
    /\ \A m, n \in 1..Len(Order) : Order[m] = Order[n] => m = n
    /\ Flaky \subseteq Provider
    /\ IsFiniteSet(Query)
    /\ Limit \in Nat \ {0} /\ RetryFor \in Nat
    /\ Costs \subseteq Nat /\ \E c \in Costs : \A d \in Costs : d <= c
    /\ Default \in Provider /\ Named \in BOOLEAN
    /\ Streamers \subseteq Query /\ Judged \subseteq Query

VARIABLES
    breaker,   \* ProviderRateManager._breakers
    retry,     \* _retry_after, as the ticks left
    mode,      \* the providers themselves: "up", "down" or "limiting"
    query,     \* what each query is ("second": the orchestrator tries again), where
               \* it is, the providers left in its chain, its answer's cost
    spend,     \* the ledger: what the logged answers cost, counted to just above the limit
    billed,    \* history: what all answers cost, until one was lost
    lost       \* history: an answer was not entered, or the ledger could not be read

vars == <<breaker, retry, mode, query, spend, billed, lost>>

Progress == [at : {"idle", "route", "trying", "calling", "log"},
             kind : {"simple", "stream", "second"},
             chain : Seq(Provider), cost : Costs \cup {0}]

Idle == [at |-> "idle", kind |-> "simple", chain |-> <<>>, cost |-> 0]

Init ==
    /\ breaker = [p \in Provider |-> NewBreaker]
    /\ retry   = [p \in Provider |-> 0]
    /\ mode    = [p \in Provider |-> "up"]
    /\ query   = [q \in Query |-> Idle]
    /\ spend = 0 /\ billed = 0 /\ lost = FALSE

Goes(q, l) == query' = [query EXCEPT ![q].at = l]
Ends(q)    == query' = [query EXCEPT ![q] = Idle]
NextInChain(q) == query' = [query EXCEPT ![q].chain = Tail(@), ![q].at = "trying"]
First(q)   == Head(query[q].chain)

\* Mutant: the limit itself may still be spent.
WithinBudget_Inclusive == spend <= Limit

WithinBudget == spend < Limit

\* _check_budget; a query over the limit is refused, and a ledger that cannot be
\* read stands at zero.
CheckBudget(q) ==
    /\ query[q].at = "idle"
    /\ \/ WithinBudget /\ UNCHANGED lost
       \/ lost' = TRUE
    /\ \E k \in {"simple"} \cup IF q \in Streamers THEN {"stream"} ELSE {} :
          query' = [query EXCEPT ![q].at = "route", ![q].kind = k]
    /\ UNCHANGED <<breaker, retry, mode, spend, billed>>

\* RoutingEngine.route: a named provider is taken as it is; otherwise the best score
\* among the healthy wins, or the default when each is skipped for one reason or another.
Candidates == {p \in Provider : Healthy(breaker[p])} \cup {Default}

\* _get_fallback_chain: the primary, then the others in their order.
ChainFrom(p) ==
    LET i == CHOOSE n \in 1..Len(Order) : Order[n] = p
    IN  <<p>> \o SubSeq(Order, 1, i - 1) \o SubSeq(Order, i + 1, Len(Order))

Route(q) ==
    /\ query[q].at = "route"
    /\ \E p \in Candidates \cup IF Named THEN Provider ELSE {} :
          query' = [query EXCEPT ![q].chain = ChainFrom(p), ![q].at = "trying"]
    /\ UNCHANGED <<breaker, retry, mode, spend, billed, lost>>

\* check_available of the first provider left, which may half-open its breaker even
\* when the retry-after then refuses the call.
Try(q) ==
    /\ query[q].at = "trying" /\ query[q].chain # <<>>
    /\ LET p == First(q)
       IN /\ breaker' = [breaker EXCEPT ![p] = Asked(@)]
          /\ IF Allowed(breaker[p]) /\ retry[p] = 0
             THEN Goes(q, "calling")
             ELSE NextInChain(q)
    /\ UNCHANGED <<retry, mode, spend, billed, lost>>

Calling(q) == query[q].at = "calling"
Streams(q) == query[q].kind = "stream"

\* A second answer takes the place of the first, which is then never entered.
Succeeds(q) ==
    /\ Calling(q) /\ ~Streams(q) /\ mode[First(q)] = "up"
    /\ breaker' = [breaker EXCEPT ![First(q)] = RecordSuccess(@)]
    /\ \E c \in Costs :
          /\ query' = [query EXCEPT ![q].at = "log", ![q].cost = c]
          /\ billed' = IF lost THEN billed ELSE billed + c
    /\ lost' = (lost \/ query[q].kind = "second")
    /\ UNCHANGED <<retry, mode, spend>>

\* query_stream enters no cost ...
StreamSucceeds(q) ==
    /\ Calling(q) /\ Streams(q) /\ mode[First(q)] = "up"
    /\ breaker' = [breaker EXCEPT ![First(q)] = RecordSuccess(@)]
    /\ lost' = TRUE
    /\ Ends(q)
    /\ UNCHANGED <<retry, mode, spend, billed>>

\* ... and tells nobody of a failure.
StreamFails(q) ==
    /\ Calling(q) /\ Streams(q) /\ mode[First(q)] # "up"
    /\ NextInChain(q)
    /\ UNCHANGED <<breaker, retry, mode, spend, billed, lost>>

\* A ProviderError: the next in the chain.
Fails(q) ==
    /\ Calling(q) /\ ~Streams(q) /\ mode[First(q)] = "down"
    /\ breaker' = [breaker EXCEPT ![First(q)] = RecordFailure(@)]
    /\ NextInChain(q)
    /\ UNCHANGED <<retry, mode, spend, billed, lost>>

\* A RateLimitError with its retry_after: not the breaker's business.
Limited(q) ==
    /\ Calling(q) /\ ~Streams(q) /\ mode[First(q)] = "limiting"
    /\ retry' = [retry EXCEPT ![First(q)] = RetryFor]
    /\ NextInChain(q)
    /\ UNCHANGED <<breaker, mode, spend, billed, lost>>

\* The orchestrator does not like an answer that is no fallback's: another provider is
\* asked, with a chain of its own.
TriesAgain(q) ==
    /\ q \in Judged
    /\ query[q].at = "log" /\ query[q].kind = "simple"
    /\ Len(query[q].chain) = Len(Order)
    /\ \E p \in Provider \ {First(q)} :
          query' = [query EXCEPT ![q].chain = ChainFrom(p), ![q].at = "trying", ![q].kind = "second"]
    /\ UNCHANGED <<breaker, retry, mode, spend, billed, lost>>

\* All of them have failed, or one has raised something else than a ProviderError: the
\* first answer is kept.
KeepsFirst(q) ==
    /\ query[q].at \in {"trying", "calling"} /\ query[q].kind = "second"
    /\ query[q].at = "trying" => query[q].chain = <<>>
    /\ Goes(q, "log")
    /\ UNCHANGED <<breaker, retry, mode, spend, billed, lost>>

\* All providers of the chain have failed, the caller is cancelled, or something else
\* than a ProviderError is raised: nothing is recorded, also of an answer that has been
\* paid for.
Breaks(q) ==
    /\ query[q].at # "idle"
    /\ lost' = (lost \/ query[q].at = "log" \/ query[q].kind = "second")
    /\ Ends(q)
    /\ UNCHANGED <<breaker, retry, mode, spend, billed>>

\* _log_query.  In privacy mode nothing is entered, and an entry that cannot be written
\* is only warned about.
Log(q) ==
    /\ query[q].at = "log"
    /\ \/ spend' = Least(spend + query[q].cost, Limit + 1) /\ UNCHANGED lost
       \/ lost' = TRUE /\ UNCHANGED spend
    /\ Ends(q)
    /\ UNCHANGED <<breaker, retry, mode, billed>>

\* The provider comes and goes.
Becomes(p, m) ==
    /\ mode[p] # m
    /\ mode' = [mode EXCEPT ![p] = m]
    /\ UNCHANGED <<breaker, retry, query, spend, billed, lost>>

Tick ==
    /\ breaker' = [p \in Provider |-> Aged(breaker[p])]
    /\ retry'   = [p \in Provider |-> IF retry[p] = 0 THEN 0 ELSE retry[p] - 1]
    /\ UNCHANGED <<mode, query, spend, billed, lost>>

Answers(q) == Succeeds(q) \/ Fails(q) \/ Limited(q) \/ StreamSucceeds(q) \/ StreamFails(q)

QueryStep(q) ==
    \/ CheckBudget(q) \/ Route(q) \/ Try(q) \/ Answers(q)
    \/ TriesAgain(q) \/ KeepsFirst(q) \/ Breaks(q) \/ Log(q)

Next ==
    \/ Tick
    \/ \E q \in Query : QueryStep(q)
    \/ \E p \in Flaky, m \in {"up", "down", "limiting"} : Becomes(p, m)

Spec == Init /\ [][Next]_vars

\* p is the provider q tries or calls.
Turn(q, p) == query[q].chain # <<>> /\ First(q) = p

\* Time passes, and of the turns a provider of the set gets, not every one is broken off
\* before the provider is tried, or before its answer.
Fairness(providers) ==
    /\ WF_vars(Tick)
    /\ \A p \in providers :
          /\ SF_vars(\E q \in Query : Turn(q, p) /\ Try(q))
          /\ SF_vars(\E q \in Query : Turn(q, p) /\ Answers(q))

\* Fair to the flaky alone, which is enough for them to recover.
FairSpec == Spec /\ Fairness(Flaky)

-----------------------------------------------------------------------------
(* Properties                                                              *)

\* Every variable stays in its type.
TypeOK ==
    /\ breaker \in [Provider -> Breaker]
    /\ retry \in [Provider -> 0..RetryFor]
    /\ mode \in [Provider -> {"up", "down", "limiting"}]
    /\ query \in [Query -> Progress]
    /\ \A q \in Query : Calling(q) => query[q].chain # <<>>
    /\ spend \in 0..(Limit + 1) /\ billed \in Nat /\ lost \in BOOLEAN

\* A closed breaker is as good as new: fewer failures within the window than the
\* threshold and the initial cooldown, however many calls were under way when it
\* opened, half-opened and closed.
ClosedIsFresh == \A p \in Provider : Fresh(breaker[p])

\* The gate is checked before the call and the cost entered after it, so queries that
\* run side by side overspend; by less than one answer each.
OverspendBounded == ~lost => billed < Limit + Cardinality(Query) * MaxCost

Tried(p) == \E q \in Query : query[q].at = "trying" /\ Turn(q, p)

\* A provider that is up again for good, and whose turn comes in some chain again and
\* again, ends up with a closed breaker.
Recovers ==
    \A p \in Flaky :
        <>[](mode[p] = "up") /\ []<>Tried(p) => <>[](breaker[p].state = "closed")
=============================================================================
