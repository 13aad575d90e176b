------------------------------ MODULE MCCouncil ------------------------------
(* Instances of Council: three members, two of which may be one provider   *)
(* asked twice.                                                            *)
EXTENDS Council

CONSTANTS groq, groqAgain, openai

Three      == {groq, groqAgain, openai}
Two        == {groq, openai}
TwinLabels == [m \in Three |-> IF m = openai THEN "openai" ELSE "groq"]
OwnLabels  == [m \in Two |-> IF m = openai THEN "openai" ELSE "groq"]
All        == {"weighted", "best_of", "majority_vote"}
=============================================================================
