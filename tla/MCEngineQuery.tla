---------------------------- MODULE MCEngineQuery ----------------------------
(* Instances of EngineQuery: a provider and its fallback, two queries at  *)
(* a time.                                                                 *)
EXTENDS EngineQuery

CONSTANTS groq, ollama, q1, q2

Chain    == <<groq, ollama>>
TwoQueries == {q1, q2}
=============================================================================
