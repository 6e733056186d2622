---------------------------- MODULE MemoryManager ----------------------------
(***************************************************************************)
(* The kernel heap (class MemoryManager, src/src/memorymanagement.cpp): a  *)
(* doubly linked list of chunks, each a header followed by its bytes.      *)
(* malloc takes the first free chunk that is large enough and splits off   *)
(* what it does not need; free merges with free neighbours.                *)
(*                                                                         *)
(* One action is one whole call.  That is how the system calls use it (a   *)
(* handler is not interrupted); new in a program can be preempted, which   *)
(* is not modelled here.                                                   *)
(*                                                                         *)
(* heap maps the address of every header in use to the header; a header    *)
(* that has been merged away is ordinary bytes again and leaves the map.   *)
(***************************************************************************)
EXTENDS Integers, FiniteSets

CONSTANTS
  HeapSizes,     \* what the constructor may be given
  HeaderSize,    \* sizeof(MemoryChunk), 16 in the code
  Requests       \* sizes that programs ask for

ASSUME HeapAssumption ==
  /\ HeapSizes \subseteq Nat
  /\ HeaderSize \in Nat \ {0}
  /\ Requests \subseteq Nat

VARIABLES
  heapSize,
  heap,     \* [next, prev, allocated, size] of each chunk
  first,
  held      \* the blocks programs hold: what they asked for and were given

memoryVars == <<heapSize, heap, first, held>>

Null  == 0
Start == 1   \* the address the constructor is given

Chunks == DOMAIN heap

(* The constructor: the whole heap is one free chunk; a heap that is too   *)
(* small for a header has none.                                            *)
MemoryInit ==
  /\ heapSize \in HeapSizes
  /\ held = {}
  /\ \/ /\ heapSize < HeaderSize
        /\ first = Null /\ heap = <<>>
     \/ /\ heapSize >= HeaderSize
        /\ first = Start
        /\ heap = [c \in {Start} |-> [next |-> Null, prev |-> Null,
                                      allocated |-> FALSE,
                                      size |-> heapSize - HeaderSize]]

-----------------------------------------------------------------------------
(* A chunk of exactly the size asked for does not do.                      *)
Fits(c, n) == heap[c].size > n /\ ~heap[c].allocated

(* Where the scan of the list stops, if it does: its chunks are in order   *)
(* of their addresses (Linked).                                            *)
AnyFit(n) == {c \in Chunks : heap[c].size > n}  \* mutant: allocated or not
FirstFit(n) == {c \in Chunks : Fits(c, n) /\ \A d \in Chunks : Fits(d, n) => c <= d}

(* The chunk keeps n bytes, the rest becomes a free chunk behind it.       *)
SplitForgetsPrev(c, n) ==                       \* mutant: next->prev not set
  LET rest == c + HeaderSize + n
  IN  [a \in Chunks \cup {rest} |->
         CASE a = c    -> [heap[c] EXCEPT !.size = n, !.next = rest, !.allocated = TRUE]
           [] a = rest -> [next |-> heap[c].next, prev |-> c, allocated |-> FALSE,
                           size |-> heap[c].size - n - HeaderSize]
           [] OTHER    -> heap[a]]
SplitWithoutHeader(c, n) ==                     \* mutant: header not counted
  LET rest == c + HeaderSize + n
  IN  [a \in Chunks \cup {rest} |->
         CASE a = c    -> [heap[c] EXCEPT !.size = n, !.next = rest, !.allocated = TRUE]
           [] a = rest -> [next |-> heap[c].next, prev |-> c, allocated |-> FALSE,
                           size |-> heap[c].size - n]
           [] a = heap[c].next -> [heap[a] EXCEPT !.prev = rest]
           [] OTHER    -> heap[a]]
Split(c, n) ==
  LET rest == c + HeaderSize + n
  IN  [a \in Chunks \cup {rest} |->
         CASE a = c    -> [heap[c] EXCEPT !.size = n, !.next = rest, !.allocated = TRUE]
           [] a = rest -> [next |-> heap[c].next, prev |-> c, allocated |-> FALSE,
                           size |-> heap[c].size - n - HeaderSize]
           [] a = heap[c].next -> [heap[a] EXCEPT !.prev = rest]
           [] OTHER    -> heap[a]]

(* MemoryManager::malloc, by way of operator new.  With no fitting chunk   *)
(* it returns 0 and changes nothing.                                       *)
Malloc(n) ==
  \E c \in FirstFit(n) :
    /\ heap' = IF heap[c].size >= n + HeaderSize + 1
               THEN Split(c, n)
               ELSE [heap EXCEPT ![c].allocated = TRUE]
    /\ held' = held \cup {[ptr |-> c + HeaderSize, size |-> n]}
    /\ UNCHANGED <<heapSize, first>>

(* Chunk gone, the one after c in h, becomes part of c.                    *)
Merge(h, c, gone) ==
  [a \in DOMAIN h \ {gone} |->
     CASE a = c -> [h[c] EXCEPT !.next = h[gone].next,
                                !.size = @ + h[gone].size + HeaderSize]
       [] a = h[gone].next -> [h[a] EXCEPT !.prev = c]
       [] OTHER -> h[a]]

FreeIn(h, c) == c # Null /\ ~h[c].allocated

MergeWithPrevOrNext(h, c) ==                    \* mutant: else if
  CASE FreeIn(h, h[c].prev) -> Merge(h, h[c].prev, c)
    [] ~FreeIn(h, h[c].prev) /\ FreeIn(h, h[c].next) -> Merge(h, c, h[c].next)
    [] OTHER -> h
MergeNeighbours(h, c) ==
  LET front  == IF FreeIn(h, h[c].prev) THEN h[c].prev ELSE c
      merged == IF front = c THEN h ELSE Merge(h, front, c)
  IN  IF FreeIn(merged, merged[front].next)
      THEN Merge(merged, front, merged[front].next)
      ELSE merged

(* MemoryManager::free, by way of operator delete.                         *)
Free(b) ==
  LET c == b.ptr - HeaderSize
  IN  /\ heap' = MergeNeighbours([heap EXCEPT ![c].allocated = FALSE], c)
      /\ held' = held \ {b}
      /\ UNCHANGED <<heapSize, first>>

MemoryNext ==
  \/ \E n \in Requests : Malloc(n)
  \/ \E b \in held : Free(b)

MemorySpec == MemoryInit /\ [][MemoryNext]_memoryVars

-----------------------------------------------------------------------------
(* Properties                                                              *)

(* The first byte behind chunk c.                                          *)
End(c) == c + HeaderSize + heap[c].size

(* The list covers the heap without gaps or overlaps, from first to the    *)
(* last byte, and its links agree in both directions.                      *)
Linked ==
  /\ first # Null => first \in Chunks /\ heap[first].prev = Null
  /\ \A c \in Chunks :
       /\ IF heap[c].next = Null
          THEN End(c) = Start + heapSize
          ELSE /\ heap[c].next = End(c) /\ heap[c].next \in Chunks
               /\ heap[heap[c].next].prev = c
       /\ c # first => heap[c].prev \in Chunks /\ heap[heap[c].prev].next = c

(* No chunk is lost and none belongs to two: the allocated chunks are      *)
(* those of the blocks in use, each large enough for its block.            *)
AllocatedIsHeld ==
  /\ {c \in Chunks : heap[c].allocated} = {b.ptr - HeaderSize : b \in held}
  /\ \A b \in held : b.size <= heap[b.ptr - HeaderSize].size

(* free always merges: no two neighbours are free, so that whatever the    *)
(* order of the calls, memory that is free in one piece can be had in one  *)
(* piece.                                                                  *)
FreeIsMerged ==
  \A c \in Chunks :
    heap[c].next # Null => heap[c].allocated \/ heap[heap[c].next].allocated

(* However many calls come, in whatever order: the list stays one list,    *)
(* nothing is lost, and nothing stays in pieces.                           *)
HeapIsSound == Linked /\ AllocatedIsHeld /\ FreeIsMerged

(* Blocks in use never overlap: the heap implements the abstract allocator.*)
Abstract == INSTANCE Allocator
ImplementsAllocator == Abstract!Spec
=============================================================================
