--------------------------- MODULE MCScheduleLock ---------------------------
(* Instances of ScheduleLock: an API server and the CLI runner.            *)
EXTENDS ScheduleLock

CONSTANTS api, cli

ApiAndCli == {api, cli}
OnlyApi   == {api}

\* The CLI polls half as often as the API servers.
MixedPoll == [r \in Runner |-> IF r = cli THEN 2 ELSE 1]
=============================================================================
