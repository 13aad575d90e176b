---------------------------- MODULE MCWizardTurn ----------------------------
(* An instance of WizardTurn: a tool of each class, two questions, and a   *)
(* card of another turn.                                                   *)
EXTENDS WizardTurn

CONSTANTS look, repair, save, install, which, why, odd, other

Calls   == {look, repair, save, install, which, why, odd}
Classes == [c \in Calls |->
    CASE c \in {look, repair} -> "auto"
      [] c = save -> "confirm"
      [] c = install -> "privileged"
      [] c = odd -> "unknown"
      [] OTHER -> "question"]
Tokens  == {install, other}
LookOnly == {look}
NoRepair == Calls \ {repair}
Replies == {<<>>} \cup {<<c>> : c \in Calls} \cup
           {s \in Calls \X Calls : s[1] # s[2]}
NoOrLow == {2, 9}
=============================================================================
