------------------------------- MODULE Council -------------------------------
(***************************************************************************)
(* A streamed council (core/council.py, run_council_streaming) as the      *)
(* route /v1/ws/council runs it for the web client: the members' tasks and *)
(* their time limit, the agreement check, the budget gate before the       *)
(* synthesis, its attempts, the entries in the ledger, and what the client *)
(* is shown.                                                               *)
(*                                                                         *)
(* A step lies between two awaits of a task.  Every reported cost counts   *)
(* one.  The route swallows what a send raises, so that no event ever      *)
(* fails a member.                                                         *)
(***************************************************************************)
EXTENDS Integers, FiniteSets

CONSTANTS
    Member,     \* the members asked for
    Label,      \* the label of each; one provider asked for twice has one label
    Quorum,     \* council.quorum
    Strategies, \* the strategies a request may name
    Attempts,   \* the synthesis providers tried at most, min(3, candidates)
    Limit,      \* the limit of the ledger
    MaxOthers   \* bound: costs that other queries enter meanwhile

ASSUME CouncilAssumption ==
    /\ IsFiniteSet(Member) /\ Member # {}
    /\ Quorum \in Nat /\ Attempts \in Nat \ {0}
    /\ Limit \in Nat \ {0} /\ MaxOthers \in Nat
    /\ Strategies \subseteq {"weighted", "best_of", "majority_vote"}

VARIABLES
    strategy, synthesize, \* of the request
    phase,      \* where the session is
    task,       \* each member's task
    reported,   \* its provider has reported a cost
    told,       \* the last event of each member that was sent
    answers,    \* member_responses: what the answer under each label cost
    failed,     \* failed_members, without the synthesis
    timedOut,   \* members were pending when the time was up
    aux,        \* what auxiliary_responses cost
    synthesis,  \* the synthesis, and what it cost
    partial,    \* the attempt in progress has reported a cost
    tries,      \* attempts that failed
    refused,    \* the budget check before the synthesis refused
    left,       \* costs of the result that are not logged yet
    ledger,     \* what the logged answers cost, this session's and others'
    screen,     \* how the session ended as the client saw it
    charged,    \* history: every cost a provider has reported
    others,     \* history: what other queries entered
    dropped     \* history: costs that could not be entered

request == <<strategy, synthesize>>
members == <<task, reported, told, answers, failed, timedOut>>
synth   == <<synthesis, partial, tries, refused>>
books   == <<left, ledger, others, dropped>>
vars    == <<request, phase, members, aux, synth, books, screen, charged>>

Labels    == {Label[m] : m \in Member}
Sharing(m) == \E n \in Member \ {m} : Label[n] = Label[m]
Answered  == {l \in Labels : answers[l] # "none"}
QuorumMet == Cardinality(Answered) >= Quorum
Price(p)  == IF p = "priced" THEN 1 ELSE 0
PriceIf(b) == IF b THEN "priced" ELSE "unpriced"
MemberCost == Cardinality({l \in Labels : answers[l] = "priced"})
Total      == MemberCost + aux + Price(synthesis)

WithinLimit == ledger < Limit

\* The request passed the budget check and the members' tasks are created.
Init ==
    /\ strategy \in Strategies /\ synthesize \in BOOLEAN
    /\ phase = "members"
    /\ task     = [m \in Member |-> "streaming"]
    /\ reported = [m \in Member |-> FALSE]
    /\ told     = [m \in Member |-> "nothing"]
    /\ answers  = [l \in Labels |-> "none"]
    /\ failed = {} /\ timedOut = FALSE
    /\ aux = 0 /\ charged = 0
    /\ synthesis = "none" /\ partial = FALSE /\ tries = 0 /\ refused = FALSE
    /\ left = 0 /\ ledger = 0 /\ others = 0 /\ dropped = 0
    /\ screen = "nothing"

-----------------------------------------------------------------------------
(* The members                                                             *)

\* The client closes its socket at the first error or at council_complete.
Show(e) == screen' = IF screen = "nothing" THEN e ELSE screen

\* A chunk with a cost arrives.
Reports(m) ==
    /\ phase = "members" /\ task[m] = "streaming" /\ ~reported[m]
    /\ reported' = [reported EXCEPT ![m] = TRUE]
    /\ charged' = charged + 1
    /\ UNCHANGED <<request, phase, task, told, answers, failed, timedOut, aux, synth, books, screen>>

\* The stream ended: the answer is kept, the event not sent yet.
Answers(m) ==
    /\ phase = "members" /\ task[m] = "streaming"
    /\ task' = [task EXCEPT ![m] = "answered"]
    /\ answers' = [answers EXCEPT ![Label[m]] = PriceIf(reported[m])]
    /\ UNCHANGED <<request, phase, reported, told, failed, timedOut, aux, synth, books, screen, charged>>

\* The stream raised.
Fails(m) ==
    /\ phase = "members" /\ task[m] = "streaming"
    /\ task' = [task EXCEPT ![m] = "failed"]
    /\ failed' = failed \cup {Label[m]}
    /\ UNCHANGED <<request, phase, reported, told, answers, timedOut, aux, synth, books, screen, charged>>

\* Mutant: the reported cost of a member that gave no answer is forgotten.
KeepPartial_Never(m) == aux' = aux

\* The finally clause: a cost without an answer under the member's label is kept.
KeepPartial(m) ==
    aux' = IF reported[m] /\ answers[Label[m]] = "none" THEN aux + 1 ELSE aux

\* Mutant: a member fails without an event.
LastEvent_OnlyComplete(m) == IF task[m] = "answered" THEN "complete" ELSE told[m]

LastEvent(m) == IF task[m] = "answered" THEN "complete" ELSE "failed"

\* Mutant: what the socket raises fails the member that had answered.
Swallowed_Never(m) ==
    failed' = IF task[m] = "answered" /\ screen = "gone" THEN failed \cup {Label[m]} ELSE failed

\* _send
Swallowed(m) == failed' = failed

Sent(m) ==
    /\ phase = "members" /\ task[m] \in {"answered", "failed"}
    /\ told' = [told EXCEPT ![m] = LastEvent(m)]
    /\ task' = [task EXCEPT ![m] = "over"]
    /\ Swallowed(m)
    /\ KeepPartial(m)
    /\ UNCHANGED <<request, phase, reported, answers, timedOut, synth, books, screen, charged>>

\* ResourcePaused leaves the stream; while it is being cancelled, too.
Pauses(m) ==
    /\ phase \in {"members", "draining"} /\ task[m] = "streaming"
    /\ task' = [task EXCEPT ![m] = "paused"]
    /\ KeepPartial(m)
    /\ UNCHANGED <<request, phase, reported, told, answers, failed, timedOut, synth, books, screen, charged>>

\* wait_resource_tasks: a pause stops the siblings, and so does the end of the time.
StopSiblings ==
    /\ phase = "members" /\ \E m \in Member : task[m] = "paused"
    /\ phase' = "draining"
    /\ UNCHANGED <<request, members, aux, synth, books, screen, charged>>

\* Mutant: members may take as long as they like.
MayTimeOut_Never == FALSE

MayTimeOut == \E m \in Member : task[m] \notin {"over", "paused"}

TimeUp ==
    /\ phase = "members" /\ MayTimeOut
    /\ phase' = "draining" /\ timedOut' = TRUE
    /\ UNCHANGED <<request, task, reported, told, answers, failed, aux, synth, books, screen, charged>>

Cancelled(m) ==
    /\ phase = "draining" /\ task[m] \notin {"over", "paused"}
    /\ task' = [task EXCEPT ![m] = "over"]
    /\ KeepPartial(m)
    /\ UNCHANGED <<request, phase, reported, told, answers, failed, timedOut, synth, books, screen, charged>>

\* The labels that are left over when the time was up.
Missing == {l \in Labels : answers[l] = "none" /\ l \notin failed}

Drained ==
    /\ phase \in {"members", "draining"}
    /\ \A m \in Member : task[m] \in {"over", "paused"}
    /\ IF \E m \in Member : task[m] = "paused"
       THEN phase' = "paused" /\ UNCHANGED failed
       ELSE phase' = "agreement" /\ failed' = IF timedOut THEN failed \cup Missing ELSE failed
    /\ UNCHANGED <<request, task, reported, told, answers, timedOut, aux, synth, books, screen, charged>>

-----------------------------------------------------------------------------
(* The agreement check and the synthesis                                   *)

Wanted == synthesize /\ QuorumMet /\ Cardinality(Answered) > 1

\* A vote asks nobody; the others ask the budget first.
AfterAgreement == IF ~Wanted THEN "complete"
                  ELSE IF strategy = "majority_vote" THEN "vote" ELSE "budget"

\* The check asks a model, within 15 seconds, and keeps what that cost; when this
\* fails it guesses.
Agreement(cost) ==
    /\ phase = "agreement" /\ (cost = 1 => Wanted)
    /\ aux' = aux + cost /\ charged' = charged + cost
    /\ phase' = AfterAgreement
    /\ UNCHANGED <<request, members, synth, books, screen>>

Vote ==
    /\ phase = "vote"
    /\ synthesis' = "unpriced" /\ phase' = "complete"
    /\ UNCHANGED <<request, members, aux, partial, tries, refused, books, screen, charged>>

\* budget_check reads the ledger, where nothing of this session is yet.
Admitted ==
    /\ phase = "budget" /\ WithinLimit
    /\ phase' = "synthesis"
    /\ UNCHANGED <<request, members, aux, synth, books, screen, charged>>

\* Mutant: the weighted synthesis says only that it has no provider.
TellRefusal_Late == IF strategy = "best_of" THEN Show("budget") ELSE screen' = screen

TellRefusal == Show("budget")

\* The list of candidates is emptied to skip the loop of the attempts ...
Refused ==
    /\ phase = "budget" /\ ~WithinLimit
    /\ refused' = TRUE
    /\ TellRefusal
    /\ phase' = IF strategy = "best_of" THEN "complete" ELSE "no candidates"
    /\ UNCHANGED <<request, members, aux, synthesis, partial, tries, books, charged>>

\* ... and an empty list is reported once more, as a provider that is missing.
NoCandidates ==
    /\ phase = "no candidates"
    /\ Show("no provider")
    /\ phase' = "complete"
    /\ UNCHANGED <<request, members, aux, synth, books, charged>>

\* The weighted synthesis is streamed; the judge of best_of answers at once.
SynthReports ==
    /\ phase = "synthesis" /\ strategy = "weighted" /\ ~partial
    /\ partial' = TRUE /\ charged' = charged + 1
    /\ UNCHANGED <<request, phase, members, aux, synthesis, tries, refused, books, screen>>

SynthAnswers ==
    /\ phase = "synthesis"
    /\ synthesis' = PriceIf(partial \/ strategy = "best_of")
    /\ charged' = IF strategy = "best_of" THEN charged + 1 ELSE charged
    /\ phase' = "complete"
    /\ UNCHANGED <<request, members, aux, partial, tries, refused, books, screen>>

\* Mutant: one attempt too many.
LastAttempt_Next == tries = Attempts

LastAttempt == tries + 1 = Attempts

\* An attempt raises or takes more than a minute, which its breaker hears of
\* (RateLimiter has what it does with it): the next candidate, unless it was
\* the last one.
SynthFails ==
    /\ phase = "synthesis"
    /\ aux' = IF partial THEN aux + 1 ELSE aux
    /\ partial' = FALSE /\ tries' = tries + 1
    /\ IF LastAttempt
       THEN Show("synthesis") /\ phase' = "complete"
       ELSE UNCHANGED <<screen, phase>>
    /\ UNCHANGED <<request, members, synthesis, refused, books, charged>>

\* ResourcePaused leaves the agreement check or an attempt.
CallPauses ==
    /\ (phase = "agreement" /\ Wanted) \/ phase = "synthesis"
    /\ aux' = IF partial THEN aux + 1 ELSE aux
    /\ partial' = FALSE
    /\ phase' = "paused"
    /\ UNCHANGED <<request, members, synthesis, tries, refused, books, screen, charged>>

-----------------------------------------------------------------------------
(* The end, and the route                                                  *)

Complete ==
    /\ phase = "complete"
    /\ Show("complete")
    /\ left' = Total
    /\ phase' = "log"
    /\ UNCHANGED <<request, members, aux, synth, ledger, others, dropped, charged>>

\* One answer is entered; an entry that raises is passed over.
LogOne(entered) ==
    /\ phase = "log" /\ left > 0
    /\ left' = left - 1
    /\ ledger'  = IF entered THEN ledger + 1 ELSE ledger
    /\ dropped' = IF entered THEN dropped ELSE dropped + 1
    /\ UNCHANGED <<request, phase, members, aux, synth, others, screen, charged>>

Logged ==
    /\ phase = "log" /\ left = 0
    /\ phase' = "closed"
    /\ UNCHANGED <<request, members, aux, synth, books, screen, charged>>

\* The route is left by a pause: an error event, and the socket is closed.
ReportsPause ==
    /\ phase = "paused"
    /\ Show("paused") /\ phase' = "paused, closed"
    /\ UNCHANGED <<request, members, aux, synth, books, charged>>

\* The client goes away; the session goes on.
ClientLeaves ==
    /\ screen = "nothing"
    /\ screen' = "gone"
    /\ UNCHANGED <<request, phase, members, aux, synth, books, charged>>

OthersSpend ==
    /\ others < MaxOthers
    /\ others' = others + 1 /\ ledger' = ledger + 1
    /\ UNCHANGED <<request, phase, members, aux, synth, left, dropped, screen, charged>>

MemberStep(m) == Reports(m) \/ Answers(m) \/ Fails(m) \/ Pauses(m) \/ Sent(m) \/ Cancelled(m)

\* What the session itself does next: the members' ends are not its own.
SessionStep ==
    \/ StopSiblings \/ TimeUp \/ Drained
    \/ \E cost \in {0, 1} : Agreement(cost)
    \/ Vote \/ Admitted \/ Refused \/ NoCandidates
    \/ SynthAnswers \/ SynthFails \/ CallPauses
    \/ Complete \/ \E entered \in BOOLEAN : LogOne(entered)
    \/ Logged \/ ReportsPause

Next ==
    \/ \E m \in Member : MemberStep(m)
    \/ SessionStep \/ SynthReports
    \/ ClientLeaves \/ OthersSpend

Spec == Init /\ [][Next]_vars

\* No provider has to answer: the limits on the members, on the agreement check and
\* on each attempt end every wait.  Tasks that are cancelled end, sends return.
Fairness ==
    /\ WF_vars(SessionStep)
    /\ \A m \in Member : WF_vars(Sent(m) \/ Cancelled(m))

FairSpec == Spec /\ Fairness

-----------------------------------------------------------------------------
(* Properties                                                              *)

Over == phase \in {"closed", "paused, closed"}

\* Every variable stays in its type; what is left to log is what the result has.
TypeOK ==
    /\ strategy \in Strategies /\ synthesize \in BOOLEAN
    /\ task \in [Member -> {"streaming", "answered", "failed", "over", "paused"}]
    /\ reported \in [Member -> BOOLEAN]
    /\ told \in [Member -> {"nothing", "complete", "failed"}]
    /\ answers \in [Labels -> {"none", "unpriced", "priced"}]
    /\ failed \subseteq Labels /\ timedOut \in BOOLEAN
    /\ aux \in 0..(Cardinality(Member) + 1 + Attempts)
    /\ synthesis \in {"none", "unpriced", "priced"} /\ partial \in BOOLEAN
    /\ tries \in 0..Attempts /\ refused \in BOOLEAN
    /\ left \in 0..Total /\ ledger \in Nat /\ others \in 0..MaxOthers /\ dropped \in 0..Total

\* When the members are through, each label has an answer or a failure, and both only
\* where two members share it: no answer is lost to the event that should tell of it,
\* no member is forgotten at the time limit (run_council_streaming, quorum and
\* failed_members).
EachMemberOnce ==
    phase \notin {"members", "draining", "paused", "paused, closed"} =>
        /\ Labels = Answered \cup failed
        /\ \A m \in Member : Label[m] \in Answered \cap failed => Sharing(m)

\* A member of whose end no event told was cut off by the time limit: a client may
\* count the others off (member_complete, member_failed).
SilenceIsTimeout ==
    phase = "closed" => timedOut \/ \A m \in Member : told[m] # "nothing"

\* Unless the session was paused, every cost that any provider reported to it -- of
\* answers, of streams that broke off or were cut off, of the agreement check, of
\* attempts that failed -- has been entered in the ledger or was refused by it; only
\* that of a member whose label another one answered under can be missing
\* (auxiliary_responses, the loop in ws_council).
CostsAccounted ==
    phase = "closed" =>
        LET missing == charged - (ledger - others) - dropped
            twins   == {m \in Member : reported[m] /\ Sharing(m) /\ Label[m] \in Answered}
        IN  missing \in 0..Cardinality(twins)

\* What the client is shown is how the session ended: it stops listening at the first
\* error, and that one names the reason ("surface a terminal error so the UI stops
\* spinning", run_council_streaming).
ScreenIsTrue ==
    Over /\ screen # "gone" =>
        screen = CASE phase = "paused, closed"            -> "paused"
                   [] phase = "closed" /\ refused            -> "budget"
                   [] phase = "closed" /\ tries = Attempts   -> "synthesis"
                   [] OTHER                                  -> "complete"

\* Whatever providers do or do not do, the client sees the session end, or is gone.
ClientTold == <>(screen # "nothing")

\* As the comment before the second budget check has it: members that together blew
\* through the limit keep the synthesis from being called.
SynthesisKeepsCap == phase = "synthesis" => ledger + MemberCost < Limit
=============================================================================
