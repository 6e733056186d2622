---------------------------- MODULE MCKernelParts ----------------------------
(* TLC instance of six parts of the kernel that have no variable in        *)
(* common: the heap, the console's cursor, the array that programs share,  *)
(* the segment descriptors, the printing of numbers and the disk.  One of  *)
(* them moves, the others stay where they start, so that the run's states  *)
(* are the sum of theirs.                                                  *)
EXTENDS MemoryManager, Console, SharedArray, GlobalDescriptorTable, PrintNumber,
  AdvancedTechnologyAttachment

CONSTANTS s1, s2, r

VARIABLE part

(* A heap too small for a header, one that is nothing but a header, and    *)
(* two with room for several blocks.                                       *)
MCHeapSizes == {1, 2, 9, 15}

(* A sorter and a reader, as the third and the dynamic strategy start      *)
(* them, and two sorters.                                                  *)
MCTasks == {s1, s2, r}
MCCasts == {[sorters |-> {s1}, readers |-> {r}],
            [sorters |-> {s1, s2}, readers |-> {}]}

(* One to three elements; the last is the smallest and has the longest way *)
(* to go, 0 is a key below all of them, and 2 may be missing.              *)
MCArrays ==
  UNION {{a \in [0 .. last -> 1 .. 3] : a[last] = 1} : last \in 0 .. 2}

MCLimits == 0 .. WordSize - 1

(* The largest integer TLC has is the last.                                *)
MCNumbers == 0 .. 120 \cup {1000000000, 2000000010, 2147483647}

(* Two sectors that differ in the lowest byte only, one that differs in    *)
(* another one, and one whose number is too large.                         *)
Number(top, b1, b0) == [top |-> top, b2 |-> 0, b1 |-> b1, b0 |-> b0]
MCSectors == {Number(0, 0, 0), Number(0, 0, 1), Number(0, 1, 0), Number(16, 0, 0)}

(* To read: less than nothing, nothing, an odd and an even part of a       *)
(* sector, and a word more than that.                                      *)
MCCounts == {-1, 0, 3, 4, 8}

(* To write: nothing, an odd part, a whole sector, and a byte more.        *)
MCData ==
  {<<>>, <<1, 2, 3>>, <<6, 7, 8, 9, 10, 11>>, <<1, 2, 3, 4, 5, 6, 7>>}

MCNoise == {<<7, 7>>}

Init ==
  /\ part \in {"heap", "console", "array", "segment", "number", "disk"}
  /\ MemoryInit  /\ (part # "heap" => heapSize = 1)
  /\ ConsoleInit
  /\ ArrayInit   /\ (part # "array" => /\ original = [i \in {0} |-> 1]
                                       /\ key = 1
                                       /\ cast.readers = {})
  /\ SegmentInit /\ (part # "segment" => given = [base |-> 0, limit |-> 0])
  /\ PrintInit   /\ (part # "number" => argument = 0)
  /\ DiskInit

(* Once the drive has ignored something, nothing is claimed of the disk.   *)
UsingDisk == part = "disk" /\ ~ignored /\ DiskNext

Next ==
  /\ UNCHANGED part
  /\ \/ /\ part = "heap" /\ MemoryNext
        /\ UNCHANGED <<consoleVars, arrayVars, segmentVars, printVars, diskVars>>
     \/ /\ part = "console" /\ ConsoleNext
        /\ UNCHANGED <<memoryVars, arrayVars, segmentVars, printVars, diskVars>>
     \/ /\ part = "array" /\ ArrayNext
        /\ UNCHANGED <<memoryVars, consoleVars, segmentVars, printVars, diskVars>>
     \/ /\ part = "segment" /\ Construct
        /\ UNCHANGED <<memoryVars, consoleVars, arrayVars, printVars, diskVars>>
     \/ /\ part = "number" /\ PrintNext
        /\ UNCHANGED <<memoryVars, consoleVars, arrayVars, segmentVars, diskVars>>
     \/ /\ UsingDisk
        /\ UNCHANGED <<memoryVars, consoleVars, arrayVars, segmentVars, printVars>>

partVars == <<part, memoryVars, consoleVars, arrayVars, segmentVars, printVars, diskVars>>

PartsSpec ==
  /\ Init /\ [][Next]_partVars
  /\ \A t \in Tasks :
       WF_partVars(/\ part = "array" /\ t \in cast.sorters /\ BinarySearch(t)
                   /\ UNCHANGED <<part, memoryVars, consoleVars, segmentVars, printVars,
                                  diskVars>>)

PartSearchEnds == part = "array" => SearchEnds
=============================================================================
