--------------------------- MODULE MCScheduleStore ---------------------------
(* Instances of ScheduleStore: two threads of the API server (a route and  *)
(* the runner) and the CLI.                                                *)
EXTENDS ScheduleStore

CONSTANTS route, runner, cli, apiProcess, cliProcess, old, new

RunnerCli == {runner, cli}
Everyone  == {route, runner, cli}
Cli       == {cliProcess}
Api       == {apiProcess}
Both      == {apiProcess, cliProcess}
OldOnly   == {old}
Ids       == {old, new}
None      == {}
Places    == [w \in Writer |-> IF w = cli THEN cliProcess ELSE apiProcess]
=============================================================================
