--------------------------- MODULE MCInputPrograms ---------------------------
(* TLC instance of InputPrograms: a keyboard with one letter, a shell that *)
(* knows two programs, and five slots in the table.                        *)
EXTENDS InputPrograms

MCWaitAll == MaxTasks + 1
MCNotBlocked == MaxTasks + 2
MCEntry == [at |-> "fork", k |-> 1]

MCBuilds == {RandomProcessSpawn("collatz"), InputPriority}
MCSpawn == {RandomProcessSpawn("collatz")}

(* Two commands; and a line that is corrected, also at its start.          *)
MCTyping == {<<"c", "NL", "c", "c", "NL">>, <<"BS", "c", "BS">>}

MCProgramOf ==
  [line \in {<<"c">>, <<"c", "c">>} |->
     IF Len(line) = 1 THEN "collatz" ELSE "long_running_task"]

(* Memory that nothing has used is zero.                                   *)
MCJunk == {<<>>}
=============================================================================
