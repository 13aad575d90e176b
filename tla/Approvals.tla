----------------------------- MODULE Approvals -----------------------------
(***************************************************************************)
(* The approvals of privileged cards (core/tools.py): a token is minted    *)
(* with the card, and a confirmed call must bring it and spends it.  The   *)
(* memory of spent tokens is bounded and, like the key that signs them,    *)
(* as long-lived as the process.                                           *)
(*                                                                         *)
(* A token is bound to the one card it came with, so the name and the      *)
(* arguments it signs are the token itself here.  The clock never reads    *)
(* the very instant a token expires at: it is past for issue and for       *)
(* memory at once.                                                         *)
(***************************************************************************)
EXTENDS Naturals, Sequences, FiniteSets

CONSTANTS
    Token,         \* the approvals that may be minted
    ConsumedMax    \* _CONSUMED_MAX

ASSUME ApprovalAssumption == ConsumedMax \in Nat \ {0}

VARIABLES
    issued,     \* the tokens signed with this process's _APPROVAL_SECRET
    expired,    \* those older than APPROVAL_TTL_S
    consumed,   \* _CONSUMED_APPROVALS, whose order is that of spending: for each token in
                \* it, those in it that were spent after it
    since       \* history: the approvals that ran something, and how many others were
                \* spent since, counted to ConsumedMax

approvalVars == <<issued, expired, consumed, since>>

Lesser(m, n) == IF m < n THEN m ELSE n
NoneSpent    == [t \in {} |-> {}]

ApprovalInit == issued = {} /\ expired = {} /\ consumed = NoneSpent /\ since = <<>>

\* Mutant: the oldest goes when the memory is full, not when it is more than full.
Fits_Early(newer) == newer + 1 < ConsumedMax

\* There is room for a token after so many newer ones.
Fits(newer) == newer < ConsumedMax

\* _prune_consumed: those that have expired, then the oldest while there are too many.
Pruned ==
    LET live == DOMAIN consumed \ expired
    IN  [t \in {u \in live : Fits(Cardinality(consumed[u] \cap live))} |-> consumed[t] \cap live]

Signed(t) == t \in issued \ expired

\* verify_approval of a token nobody spent, as far as it is remembered; the handler runs.
Accept(t) ==
    /\ Signed(t) /\ t \notin DOMAIN Pruned
    /\ consumed' = [u \in DOMAIN Pruned \cup {t} |-> IF u = t THEN {} ELSE Pruned[u] \cup {t}]
    /\ since' = [u \in DOMAIN since \cup {t} |->
                    IF u = t THEN 0 ELSE Lesser(since[u] + 1, ConsumedMax)]
    /\ UNCHANGED <<issued, expired>>

\* A token that is spent: refused, and nothing runs.  (One without a valid signature is
\* refused before the memory is looked at.)
Refuse(t) ==
    /\ Signed(t) /\ t \in DOMAIN Pruned
    /\ consumed' = Pruned
    /\ UNCHANGED <<issued, expired, since>>

Click(t) == Accept(t) \/ Refuse(t)

Expire(t) ==
    /\ t \in issued \ expired
    /\ expired' = expired \cup {t}
    /\ UNCHANGED <<issued, consumed, since>>

\* The server restarts: another key, an empty memory.
NewProcess ==
    /\ issued' = {} /\ consumed' = NoneSpent
    /\ UNCHANGED <<expired, since>>

ApprovalTypeOK ==
    /\ issued \subseteq Token /\ expired \subseteq Token
    /\ DOMAIN consumed \subseteq Token /\ \A t \in DOMAIN consumed : consumed[t] \subseteq DOMAIN consumed
    /\ Cardinality(DOMAIN consumed) <= ConsumedMax + 1
    /\ DOMAIN since \subseteq Token
    /\ \A t \in DOMAIN since : since[t] \in 0..ConsumedMax
=============================================================================
