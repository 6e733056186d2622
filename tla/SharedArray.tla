----------------------------- MODULE SharedArray ------------------------------
(***************************************************************************)
(* binary_search and linear_search (src/src/program.cpp) on one array.     *)
(* The init programs pass every child the address of the same array on     *)
(* init's stack, and binary_search first sorts it where it is: a bubble    *)
(* sort whose comparison is two steps and whose swap three, preempted      *)
(* anywhere, while others read or sort the very same elements.             *)
(*                                                                         *)
(* An access outside the array reads whatever is there.                    *)
(*                                                                         *)
(* The children of the first and the second strategy also write init's     *)
(* values into the array again before they search it (microkernel.cpp:82,  *)
(* 91, 137, 142).  That is not modelled: several of them sort then, and of *)
(* several sorters no more is claimed than that all values are init's.     *)
(***************************************************************************)
EXTENDS Integers, FiniteSets, Functions

CONSTANTS
  Tasks,
  Casts,              \* which tasks may run [sorters, readers]: binary_search
                      \* and linear_search
  Arrays,             \* the arrays init may have: functions on 0 .. n - 1
  Keys,               \* what they search for
  WordRange           \* a uint32_t holds 0 .. WordRange - 1

Values == UNION {Range(a) : a \in Arrays}

ASSUME ArrayAssumption ==
  /\ WordRange \in Nat \ {0}
  /\ \A a \in Arrays : \E n \in 1 .. WordRange - 1 : a \in [0 .. n - 1 -> Nat]
  /\ Keys \subseteq Nat
  /\ IsFiniteSet(Tasks)
  /\ Casts \subseteq [sorters : (SUBSET Tasks) \ {{}}, readers : SUBSET Tasks]

VARIABLES
  arr,
  original,   \* history: arr as init made it
  key,
  cast,
  step,       \* where each task is
  local       \* its locals, and the element it has just read

arrayVars == <<arr, original, key, cast, step, local>>

n == Cardinality(DOMAIN original)

Answers == {"found", "missing"}

ArrayInit ==
  /\ original \in Arrays /\ arr = original
  /\ key \in Keys
  /\ cast \in Casts
  /\ step = [t \in cast.sorters \cup cast.readers |->
               IF t \in cast.sorters THEN "pass" ELSE "scan"]
  /\ local = [t \in DOMAIN step |->
                [i |-> 0, swapped |-> FALSE, read |-> 0, temp |-> 0, low |-> 0,
                 high |-> 0]]

-----------------------------------------------------------------------------
Word(number) == number % WordRange

(* Task t goes on to a step, with its locals and the array changed.        *)
Continue(t, to, locals, array) ==
  /\ step' = [step EXCEPT ![t] = to]
  /\ local' = [local EXCEPT ![t] = locals]
  /\ arr' = array
  /\ UNCHANGED <<original, key, cast>>

Pass(t) ==
  /\ step[t] = "pass"
  /\ Continue(t, "compare", [local[t] EXCEPT !.i = 0, !.swapped = FALSE], arr)

(* if(arr[i] > arr[i + 1])                                                 *)
Compare(t) ==
  LET l == local[t]
  IN  /\ step[t] = "compare"
      /\ \/ /\ l.i < n - 1
            /\ Continue(t, "against", [l EXCEPT !.read = arr[l.i]], arr)
         \/ /\ l.i >= n - 1 /\ l.swapped
            /\ Continue(t, "pass", l, arr)

Against(t) ==
  LET l == local[t]
  IN  /\ step[t] = "against"
      /\ \/ /\ l.read > arr[l.i + 1]
            /\ Continue(t, "take", l, arr)
         \/ /\ l.read <= arr[l.i + 1]
            /\ Continue(t, "compare", [l EXCEPT !.i = @ + 1], arr)

SortedFromAbove(t) ==                            \* mutant: high = n
  LET l == local[t]
  IN  /\ step[t] = "compare" /\ l.i >= n - 1 /\ ~l.swapped
      /\ Continue(t, "probe", [l EXCEPT !.low = 0, !.high = n], arr)
Sorted(t) ==
  LET l == local[t]
  IN  /\ step[t] = "compare" /\ l.i >= n - 1 /\ ~l.swapped
      /\ Continue(t, "probe", [l EXCEPT !.low = 0, !.high = n - 1], arr)

(* temp = arr[i]; arr[i] = arr[i + 1]; arr[i + 1] = temp;                  *)
Take(t) ==
  LET l == local[t]
  IN  /\ step[t] = "take"
      /\ Continue(t, "move", [l EXCEPT !.temp = arr[l.i]], arr)
Move(t) ==
  LET l == local[t]
  IN  /\ step[t] = "move"
      /\ Continue(t, "put", l, [arr EXCEPT ![l.i] = arr[l.i + 1]])
Put(t) ==
  LET l == local[t]
  IN  /\ step[t] = "put"
      /\ Continue(t, "compare", [l EXCEPT !.i = @ + 1, !.swapped = TRUE],
                  [arr EXCEPT ![l.i + 1] = l.temp])

(* mid = low + (high - low) / 2                                            *)
Mid(l) == Word(l.low + Word(l.high - l.low) \div 2)

ReadAt(index) == IF index < n THEN {arr[index]} ELSE Values

(* One round of while(low <= high) reads arr[mid] twice.                   *)
Probe(t) ==
  LET l == local[t]
  IN  /\ step[t] = "probe"
      /\ \/ /\ l.low > l.high
            /\ Continue(t, "missing", l, arr)
         \/ /\ l.low <= l.high
            /\ \E value \in ReadAt(Mid(l)) :
                 Continue(t, IF value = key THEN "found" ELSE "aside", l, arr)

AsideInside(t) ==                                \* mutant: high = mid
  LET l == local[t]
  IN  /\ step[t] = "aside"
      /\ \E value \in ReadAt(Mid(l)) :
           \/ /\ value < key
              /\ Continue(t, "probe", [l EXCEPT !.low = Word(Mid(l) + 1)], arr)
           \/ /\ value >= key
              /\ Continue(t, "probe", [l EXCEPT !.high = Mid(l)], arr)
Aside(t) ==
  LET l == local[t]
  IN  /\ step[t] = "aside"
      /\ \E value \in ReadAt(Mid(l)) :
           \/ /\ value < key
              /\ Continue(t, "probe", [l EXCEPT !.low = Word(Mid(l) + 1)], arr)
           \/ /\ value >= key
              /\ Continue(t, "probe", [l EXCEPT !.high = Word(Mid(l) - 1)], arr)

BinarySearch(t) ==
  \/ Pass(t) \/ Compare(t) \/ Against(t) \/ Take(t) \/ Move(t) \/ Put(t)
  \/ Sorted(t) \/ Probe(t) \/ Aside(t)

LinearSearch(t) ==
  LET l == local[t]
  IN  /\ step[t] = "scan"
      /\ \/ /\ l.i < n /\ arr[l.i] = key
            /\ Continue(t, "found", l, arr)
         \/ /\ l.i < n /\ arr[l.i] # key
            /\ Continue(t, "scan", [l EXCEPT !.i = @ + 1], arr)
         \/ /\ l.i >= n
            /\ Continue(t, "missing", l, arr)

ArrayNext ==
  \/ \E t \in cast.sorters : BinarySearch(t)
  \/ \E t \in cast.readers : LinearSearch(t)

ArraySpec ==
  /\ ArrayInit /\ [][ArrayNext]_arrayVars
  /\ \A t \in Tasks : WF_arrayVars(t \in cast.sorters /\ BinarySearch(t))

-----------------------------------------------------------------------------
(* Properties                                                              *)

OneSorter == Cardinality(cast.sorters) = 1
KeyIsNotBelow == \E i \in DOMAIN original : original[i] <= key

Occurs(array, v) == Cardinality({i \in DOMAIN array : array[i] = v})

(* Two sorters can lose elements and double others in each other's swaps,  *)
(* but no value turns up that init had not put there; and a sorter that    *)
(* only shares the array with readers loses none.                          *)
ValuesSurvive ==
  /\ Range(arr) \subseteq Range(original)
  /\ OneSorter =>
       \A t \in cast.sorters : step[t] # "put" =>
         \A v \in Values : Occurs(arr, v) = Occurs(original, v)

(* The search never leaves the array, in spite of the unsigned mid - 1,    *)
(* unless the key is smaller than all elements or another sorter removes   *)
(* what is not.                                                            *)
SearchStaysInside ==
  OneSorter /\ KeyIsNotBelow =>
    \A t \in cast.sorters :
      step[t] \in {"probe", "aside"} /\ local[t].low <= local[t].high =>
        Mid(local[t]) < n

(* A linear search that finds the key is right, whoever sorts beside it.   *)
(* A binary search that shares the array with linear searches alone is     *)
(* right about a key that is missing, and right to have found one, unless  *)
(* that is smaller than all elements.                                      *)
AnswersAreRight ==
  /\ \A t \in cast.readers \ cast.sorters : step[t] = "found" => key \in Range(original)
  /\ OneSorter =>
       \A t \in cast.sorters :
         /\ step[t] = "found" /\ KeyIsNotBelow => key \in Range(original)
         /\ step[t] = "missing" => key \notin Range(original)

(* What a program may rely on although others work on its array.           *)
SearchIsRight == ValuesSurvive /\ SearchStaysInside /\ AnswersAreRight

(* A sorter that only shares the array with readers comes to an end.  Two  *)
(* can undo each other's swaps for ever, and a key below all elements can  *)
(* send the search round and round: at mid = 0, high wraps.                *)
SearchEnds ==
  OneSorter /\ KeyIsNotBelow =>
    \A t \in Tasks : <>(t \in cast.sorters => step[t] \in Answers)
=============================================================================
