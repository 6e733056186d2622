--------------------------- MODULE MCTimerHistory ----------------------------
(* The dynamic strategy with a history of the timer's interrupts, to       *)
(* compare what timerInterruptCounter counts with what its name says.      *)
EXTENDS MCInitPrograms

(* Timer interrupts handled since boot, up to BoostPeriod of them.         *)
VARIABLE ticks

TickedInit == InitInit /\ ticks = 0

Tick ==
  /\ Timer
  /\ ticks' = IF ticks < BoostPeriod THEN ticks + 1 ELSE ticks

NoTick ==
  /\ Boot \/ \E i \in Slots : Step(i)
  /\ UNCHANGED ticks

TickedSpec == TickedInit /\ [][Tick \/ NoTick]_<<allVars, ticks>>

(* "For every timer interrupt ... (let's say after every 5th interrupt)":  *)
(* the kernel raises the Collatz program's priority after five timer       *)
(* interrupts, not before.                                                 *)
RaisedAfterFiveInterrupts ==
  \A i \in Live \ {0} :
    taskWithDynamicPriority = i /\ priority[i] = 0 => ticks = BoostPeriod
=============================================================================
