----------------------------- MODULE WizardTurn -----------------------------
(***************************************************************************)
(* A turn of the AI Wizard (integrations/wizard/chat.py): completions and  *)
(* tool calls in a bounded loop, the three places a call the model made    *)
(* may end up in (a result, a card, the list of calls not run), the meter  *)
(* and the ledger, and the clicks on the cards while the turn still runs   *)
(* or after it.                                                            *)
(*                                                                         *)
(* wizard_chat and wizard_chat_stream differ in when they tell of the      *)
(* cards and in when they enter the cost.  A call stands for its name and  *)
(* the arguments the model gave (_same_call); the calls of one reply are   *)
(* distinct.  Left out: prompts, attachments, the choice of the provider   *)
(* and of the tool channel, a turn that could build no tool registry.      *)
(***************************************************************************)
EXTENDS Approvals

CONSTANTS
    Call,           \* the calls a model may make
    Class,          \* the class of each call's tool; ask_user is "question"
    Whitelist,      \* the calls whose tool the profile allows (Call if it has no whitelist)
    Roster,         \* the calls whose tool SCHEDULE_AUTO_TOOLS names
    Reply,          \* the sequences of calls one completion may bring
    Costs,          \* what a completion may cost
    Ceilings,       \* max_cost_usd_per_turn of the profiles
    MaxIterations,  \* WIZARD_FOLLOWUP_MAX_ITER
    MaxRestarts     \* (bound)

MaxCost == CHOOSE c \in Costs : \A d \in Costs : d <= c

ASSUME TurnAssumption ==
    /\ Class \in [Call -> {"auto", "confirm", "privileged", "question", "unknown"}]
    /\ Whitelist \subseteq Call /\ Roster \subseteq Call
    /\ \A c \in Roster : Class[c] = "auto"
    /\ Reply \subseteq Seq(Call)
    /\ Costs \subseteq Nat /\ \E c \in Costs : \A d \in Costs : d <= c
    /\ Ceilings \subseteq Nat \ {0}
    /\ MaxIterations \in Nat \ {0} /\ MaxRestarts \in Nat
    /\ {c \in Call : Class[c] = "privileged"} \subseteq Token

VARIABLES
    kind,        \* "blocking", "stream" or "scheduled" (blocking, and nobody is there)
    cap,         \* the completions it may take; 1 also if it may not follow up
    ceiling,     \* the profile's cost ceiling
    pc,          \* where it stands
    iteration,   \* state.iterations
    batch,       \* the calls of this completion still to be dealt with
    held,        \* those of them that are not run here (deferred)
    ran,         \* state.ran_any_auto
    results,     \* the calls in state.tool_results
    cards,       \* state.pending_confirm, and the iteration each came from
    deferred,    \* the calls in state.deferred_auto
    total,       \* total_cost_usd
    ledger,      \* what was entered for the turn
    lost,        \* history: an entry failed
    spent,       \* history: what the completions that came back cost
    made,        \* history: the calls the completions brought
    told,        \* the calls of the envelope, the last event, the stored row
    shown,       \* the cards somebody can click
    restarts

turnVars == <<kind, cap, ceiling, pc, iteration, batch, held, ran, results, cards, deferred,
              total, ledger, lost, spent, made, told, shown>>
vars == <<turnVars, restarts, approvalVars>>

Over == {"over", "gone"}

\* _clamp_max_iterations
Caps == 1..MaxIterations

Init ==
    /\ kind \in {"blocking", "stream", "scheduled"}
    /\ cap \in Caps /\ ceiling \in Ceilings
    /\ pc = "start" /\ iteration = 0 /\ batch = <<>> /\ held = <<>> /\ ran = FALSE
    /\ results = {} /\ cards = <<>> /\ deferred = {}
    /\ total = 0 /\ ledger = 0 /\ lost = FALSE /\ spent = 0
    /\ made = {} /\ told = {} /\ shown = {} /\ restarts = 0
    /\ ApprovalInit

Unattended   == kind = "scheduled"
Question(c)  == Class[c] = "question"
Elements(s)  == {s[i] : i \in 1..Len(s)}
Asked        == \E c \in DOMAIN cards : Question(c)

\* _effective_whitelist: a question is always allowed, and never when nobody is there.
Allowed(c) ==
    IF Unattended THEN c \in Whitelist \cap Roster ELSE c \in Whitelist \/ Question(c)

\* _records_unattended
Recorded(c) == Unattended /\ c \in Whitelist /\ Class[c] \in {"confirm", "privileged"}

\* _split_by_whitelist, of the calls that are not recorded.
Refused(c) == ~Recorded(c) /\ ~Allowed(c)

\* _split_by_safety_class: a tool nobody knows is for the user.
ForTheLoop(c) == Class[c] = "auto"

\* What the turn does before its first completion; the daily budget is looked at here
\* and not again.
Prepare ==
    /\ pc = "start"
    /\ pc' \in {"iterate", "fallback"}
    /\ UNCHANGED <<kind, cap, ceiling, iteration, batch, held, ran, results, cards, deferred,
                   total, ledger, lost, spent, made, told, shown, restarts, approvalVars>>

\* Mutant: only a completion that brought calls counts.
Counted_NotThese == iteration

Counted == iteration + 1

Complete ==
    /\ pc = "iterate"
    /\ iteration' = Counted
    /\ pc' = "calling"
    /\ UNCHANGED <<kind, cap, ceiling, batch, held, ran, results, cards, deferred,
                   total, ledger, lost, spent, made, told, shown, restarts, approvalVars>>

\* Mutant: the ceiling itself may still be spent.
CeilingReached_Beyond(cost) == cost > ceiling

CeilingReached(cost) == cost >= ceiling

\* An entry of cost, which may fail without anybody being told.
Enter(cost) ==
    \/ ledger' = ledger + cost /\ UNCHANGED lost
    \/ lost' = TRUE /\ UNCHANGED ledger

\* Where a reply is dealt with: the ceiling, a reply without calls and a turn of one
\* completion leave what it asks for to the user.
NextPlace(cost, reply) ==
    IF CeilingReached(cost) \/ reply = <<>> \/ cap = 1 THEN "defer" ELSE "execute"

\* A completion comes back.  wizard_chat awaits its entry before anything else; the
\* stream has metered it and goes on.
Returns(reply, cost) ==
    /\ pc = "calling"
    /\ batch' = reply /\ held' = <<>> /\ ran' = FALSE
    /\ made' = made \cup Elements(reply)
    /\ spent' = spent + cost
    /\ IF kind = "stream"
       THEN total' = total + cost /\ pc' = NextPlace(total + cost, reply)
       ELSE UNCHANGED total /\ pc' = "entering"
    /\ UNCHANGED <<kind, cap, ceiling, iteration, results, cards, deferred, ledger, lost,
                   told, shown, restarts, approvalVars>>

\* Mutant: the running total is entered instead of the completion.
Fee_Total == spent

\* The cost of the completion that came back last: not in the total yet.
Fee == spent - total

\* The entry is over, one way or the other; now the completion is in the total.
Entered ==
    /\ pc = "entering"
    /\ Enter(Fee)
    /\ total' = spent
    /\ pc' = NextPlace(spent, batch)
    /\ UNCHANGED <<kind, cap, ceiling, iteration, batch, held, ran, results, cards, deferred,
                   spent, made, told, shown, restarts, approvalVars>>

\* The provider raises: the deterministic answer.
Fails ==
    /\ pc = "calling"
    /\ pc' = "fallback"
    /\ UNCHANGED <<kind, cap, ceiling, iteration, batch, held, ran, results, cards, deferred,
                   total, ledger, lost, spent, made, told, shown, restarts, approvalVars>>

\* Mutant: a scheduled turn's question waits for somebody, too.
NotRunHere_Questions(c) ==
    \/ Recorded(c)
    \/ Class[c] # "unknown" /\ (Allowed(c) \/ Question(c)) /\ Class[c] # "auto"

\* Recorded, or allowed and not of the auto class.
NotRunHere(c) ==
    \/ Recorded(c)
    \/ Class[c] # "unknown" /\ Allowed(c) /\ Class[c] # "auto"

\* _run_auto_tool for the next call: it is held, or run; or its result is an error if it is unknown
\* and a refusal if it is not allowed.  A refusal alone is nothing for the model to react to.
Execute ==
    /\ pc = "execute" /\ batch # <<>>
    /\ LET c == Head(batch)
       IN  IF NotRunHere(c)
           THEN held' = Append(held, c) /\ UNCHANGED <<results, ran>>
           ELSE /\ results' = results \cup {c}
                /\ ran' = (ran \/ Class[c] = "unknown" \/ Allowed(c))
                /\ UNCHANGED held
    /\ batch' = Tail(batch)
    /\ UNCHANGED <<kind, cap, ceiling, pc, iteration, cards, deferred,
                   total, ledger, lost, spent, made, told, shown, restarts, approvalVars>>

\* _one_question_only: the first question among asks, unless one is pending.
TheQuestion(calls, asks) ==
    {calls[i] : i \in {j \in 1..Len(calls) :
        /\ ~Asked
        /\ calls[j] \in asks /\ Question(calls[j])
        /\ \A k \in 1..(j - 1) : ~(calls[k] \in asks /\ Question(calls[k]))}}

\* Mutant: only what comes after the question is held.
ForUser_After(calls, asks) ==
    TheQuestion(calls, asks) \cup
        {calls[i] : i \in {j \in 1..Len(calls) :
            calls[j] \in asks /\ \A k \in 1..j : ~Question(calls[k])}}

\* _hold_for_question: beside a question, nothing else is for the user to decide.
ForUser(calls, asks) ==
    IF Asked \/ TheQuestion(calls, asks) # {} THEN TheQuestion(calls, asks) ELSE asks

\* _surface_confirm_calls: one card a call.  A privileged one gets its approval, unless
\* the tier is switched off or its plan fails; nothing is minted when nobody is there.
Surface(calls, asks) ==
    LET new == ForUser(calls, asks) \ DOMAIN cards
    IN  /\ cards' = [c \in DOMAIN cards \cup new |-> IF c \in new THEN iteration ELSE cards[c]]
        /\ \E minted \in {{}, IF Unattended THEN {} ELSE {c \in new : Class[c] = "privileged"}} :
              issued' = issued \cup minted
        /\ UNCHANGED <<expired, consumed, since>>

GoesOn == ran /\ TheQuestion(held, Elements(held)) = {}

\* The end of _execute_tool_calls and of the loop's body.
Executed ==
    /\ pc = "execute" /\ batch = <<>>
    /\ Surface(held, Elements(held))
    /\ deferred' = deferred \cup (Elements(held) \ ForUser(held, Elements(held)))
    /\ pc' = IF GoesOn /\ iteration < cap THEN "iterate" ELSE "report"
    /\ UNCHANGED <<kind, cap, ceiling, iteration, batch, held, ran, results,
                   total, ledger, lost, spent, made, told, shown, restarts>>

\* _defer_calls_to_ui, when the loop may not go on.
Defer ==
    /\ pc = "defer"
    /\ LET refused == {c \in Elements(batch) : Refused(c)}
           autos   == {c \in Elements(batch) \ refused : ForTheLoop(c)}
           asks    == Elements(batch) \ (refused \cup autos)
       IN  /\ results' = results \cup refused
           /\ Surface(batch, asks)
           /\ deferred' = deferred \cup autos \cup (asks \ ForUser(batch, asks))
    /\ batch' = <<>> /\ pc' = "report"
    /\ UNCHANGED <<kind, cap, ceiling, iteration, held, ran,
                   total, ledger, lost, spent, made, told, shown, restarts>>

\* Mutant: the fallback answers from a fresh state.
Known_Fresh == IF pc = "fallback" THEN {} ELSE results \cup DOMAIN cards \cup deferred

Known == results \cup DOMAIN cards \cup deferred

\* The stream tells of the cards and goes on to enter its cost; the blocking turn returns.
Tell ==
    /\ pc \in {"report", "fallback"}
    /\ told' = Known
    /\ shown' = IF Unattended THEN {} ELSE DOMAIN cards
    /\ pc' = IF kind = "stream" THEN "log" ELSE "over"
    /\ UNCHANGED <<kind, cap, ceiling, iteration, batch, held, ran, results, cards, deferred,
                   total, ledger, lost, spent, made, restarts, approvalVars>>

\* Mutant: the cost of the last completion alone.
Metered_Last == IF total = 0 THEN 0 ELSE 1

Metered == total

\* _log_streamed_turn: one entry, before the last event.
Log ==
    /\ pc = "log"
    /\ Enter(Metered)
    /\ pc' = "over"
    /\ UNCHANGED <<kind, cap, ceiling, iteration, batch, held, ran, results, cards, deferred,
                   total, spent, made, told, shown, restarts, approvalVars>>

\* The client of a stream goes, a scheduled run is cancelled, resources are paused: none
\* of it is an Exception, so nothing more is told or entered.
Leave ==
    /\ pc \notin Over
    /\ pc' = "gone"
    /\ UNCHANGED <<kind, cap, ceiling, iteration, batch, held, ran, results, cards, deferred,
                   total, ledger, lost, spent, made, told, shown, restarts, approvalVars>>

Restart ==
    /\ restarts < MaxRestarts /\ restarts' = restarts + 1
    /\ NewProcess
    /\ pc' = IF pc = "over" THEN "over" ELSE "gone"
    /\ UNCHANGED <<kind, cap, ceiling, iteration, batch, held, ran, results, cards, deferred,
                   total, ledger, lost, spent, made, told, shown>>

\* A card of another turn gets its approval.
IssueElsewhere(t) ==
    /\ t \in Token \ (Call \cup issued \cup expired \cup DOMAIN since)
    /\ issued' = issued \cup {t}
    /\ UNCHANGED <<turnVars, restarts, expired, consumed, since>>

\* The user clicks a card, maybe more than once (a second tab, an answer that was lost).
UserClicks(t) ==
    /\ t \in shown \cup (Token \ Call)
    /\ Click(t)
    /\ UNCHANGED <<turnVars, restarts>>

TokenExpires(t) == Expire(t) /\ UNCHANGED <<turnVars, restarts>>

TurnStep ==
    \/ Prepare \/ Complete \/ Fails \/ Entered \/ Execute \/ Executed \/ Defer \/ Tell \/ Log
    \/ \E reply \in Reply, cost \in Costs : Returns(reply, cost)

Next ==
    \/ TurnStep \/ Leave \/ Restart
    \/ \E t \in Token : IssueElsewhere(t) \/ UserClicks(t) \/ TokenExpires(t)

Spec == Init /\ [][Next]_vars

-----------------------------------------------------------------------------
(* Properties                                                              *)

TurnTypeOK ==
    /\ kind \in {"blocking", "stream", "scheduled"}
    /\ cap \in Caps /\ ceiling \in Ceilings
    /\ pc \in {"start", "iterate", "calling", "entering", "execute", "defer", "report",
              "fallback", "log"} \cup Over
    /\ iteration \in 0..cap
    /\ batch \in Seq(Call) /\ held \in Seq(Call) /\ ran \in BOOLEAN
    /\ results \subseteq Call /\ deferred \subseteq Call
    /\ DOMAIN cards \subseteq Call /\ \A c \in DOMAIN cards : cards[c] \in 1..cap
    /\ total \in Nat /\ ledger \in Nat /\ lost \in BOOLEAN /\ spent \in Nat
    /\ made \subseteq Call /\ told \subseteq Call /\ shown \subseteq DOMAIN cards
    /\ restarts \in 0..MaxRestarts

\* Every variable stays in its type.
TypeOK == TurnTypeOK /\ ApprovalTypeOK

\* No completion is asked for while a question is pending, and there is never a second one.
AskedThenStops ==
    /\ Asked => pc \notin {"start", "iterate", "calling", "entering", "execute", "defer"}
    /\ \A c, d \in DOMAIN cards : Question(c) /\ Question(d) => c = d

\* No card for an action the model asked for together with a question, whichever came
\* first in its reply.
HeldForQuestion ==
    \A c, d \in DOMAIN cards : Question(c) /\ ~Question(d) => cards[d] < cards[c]

\* "One question, then stop": a question is the last thing a turn makes a card of, whichever
\* order its reply had (_one_question_only, _hold_for_question, the break of the loop).
QuestionIsLast == AskedThenStops /\ HeldForQuestion

\* "any confirm or privileged call made in the same turn as a question" is deferred
\* (docs/CONFIGURATION.md, deferred_tool_calls): no card for an action beside a question.
NeverAskAndAct ==
    Asked => \A c \in DOMAIN cards : Class[c] \notin {"confirm", "privileged"}

\* However the turn ends, also in a fallback after tools have run, every call the model
\* made is in what it tells, and every card can be clicked.
NothingLost ==
    pc = "over" => /\ made \subseteq told
                   /\ ~Unattended => shown = DOMAIN cards

\* The ledger has what the completions cost, whether the last one failed or not: a stream
\* by the time it ends, any other turn after each.  A turn that is cancelled, or whose
\* process ends, leaves out no more than the one completion whose entry it was awaiting.
LedgerCovers ==
    ~lost => /\ pc = "over" \/ (kind # "stream" /\ pc \notin {"entering", "gone"})
                => ledger = spent
             /\ kind # "stream" => ledger <= spent /\ spent <= ledger + MaxCost

\* The ceiling ends a turn: it is passed by less than one completion.
CeilingHolds == spent < ceiling + MaxCost

\* Nobody is there: no question, no approval that anything could run with.
UnattendedAsksNobody ==
    Unattended => ~Asked /\ issued \cap DOMAIN cards = {}

\* A card acts once -- after however many clicks, expiries and a restart of the server --
\* unless ConsumedMax other approvals were spent meanwhile.
ActsOnce ==
    [][\A t \in DOMAIN since : Accept(t) => since[t] >= ConsumedMax]_vars
=============================================================================
