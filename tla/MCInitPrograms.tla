--------------------------- MODULE MCInitPrograms ----------------------------
(* TLC instances of InitPrograms.                                          *)
EXTENDS InitPrograms

MCWaitAll == MaxTasks + 1
MCNotBlocked == MaxTasks + 2
MCEntry == [at |-> "fork", k |-> 1]

(* All five: those on the round-robin scheduler with fewer rounds and      *)
(* children than the code (two of three rounds, three of ten children),    *)
(* and the two that need a preemptive scheduler, complete.                 *)
MCPrograms == {"binary_search", "linear_search"}
MCStrategies ==
  {PartA(2), Third, DynamicPriority}
    \cup FirstStrategy(3, MCPrograms) \cup SecondStrategy(1, MCPrograms)

(* Part A cut down to one round, for the shortest counterexample.          *)
MCOneRound == {PartA(1)}
MCDynamic == {DynamicPriority}
=============================================================================
