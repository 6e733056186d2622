----------------------------- MODULE ProcessTree -----------------------------
(***************************************************************************)
(* What the process table promises to programs, with no table in it: a     *)
(* tree of processes, a set of those that have finished, and for each      *)
(* process the children it still waits for.  A process can run when it     *)
(* has not finished and waits for nobody, and the one CPU always belongs   *)
(* to such a process: whoever gives it up (by spawning, finishing, waiting *)
(* or being preempted) hands it to a process that can run.  Nobody is ever *)
(* woken by an explicit step: a wait is over exactly when the last child   *)
(* waited for has finished.                                                *)
(***************************************************************************)
EXTENDS Integers

CONSTANTS
  Proc,
  None   \* no process

VARIABLES
  created,   \* processes spawned so far
  parent,    \* the process that spawned each, None for the first
  finished,  \* processes that have exited
  awaiting,  \* the unfinished children each process waits for
  owner      \* the process on the CPU, None before the first one runs

vars == <<created, parent, finished, awaiting, owner>>

Init ==
  /\ created = {} /\ finished = {}
  /\ parent = [p \in Proc |-> None]
  /\ awaiting = [p \in Proc |-> {}]
  /\ owner = None

Unfinished(p) == p \in created /\ p \notin finished
Runnable == {p \in created : p \notin finished /\ awaiting[p] = {}}

(* The CPU goes to a process that can run after the step.                  *)
HandOver == owner' \in Runnable'

Boot(p) ==
  /\ created = {}
  /\ created' = {p}
  /\ UNCHANGED <<parent, finished, awaiting, owner>>

Preempt ==
  /\ HandOver
  /\ UNCHANGED <<created, parent, finished, awaiting>>

Spawn(child) ==
  /\ owner # None /\ child \notin created
  /\ created' = created \cup {child}
  /\ parent' = [parent EXCEPT ![child] = owner]
  /\ UNCHANGED <<finished, awaiting>>
  /\ HandOver

(* The first process stays, so that there is always one that can run.      *)
Finish ==
  /\ owner # None /\ parent[owner] # None
  /\ finished' = finished \cup {owner}
  /\ awaiting' = [p \in Proc |-> awaiting[p] \ {owner}]
  /\ UNCHANGED <<created, parent>>
  /\ HandOver

UnfinishedChildren(p) == {c \in created : parent[c] = p /\ c \notin finished}

(* Wait for one unfinished child, or for all there are.                    *)
Await ==
  /\ owner # None
  /\ \E children \in {UnfinishedChildren(owner)}
                      \cup {{c} : c \in UnfinishedChildren(owner)} :
       /\ children # {}
       /\ awaiting' = [awaiting EXCEPT ![owner] = children]
  /\ UNCHANGED <<created, parent, finished>>
  /\ HandOver

Next ==
  \/ \E p \in Proc : Boot(p) \/ Spawn(p)
  \/ Preempt
  \/ Finish
  \/ Await

Spec == Init /\ [][Next]_vars
=============================================================================
