------------------------------ MODULE Allocator ------------------------------
(* What new and delete promise: a block handed out lies inside the heap,   *)
(* overlaps no other block in use, and stays where it is until it is       *)
(* deleted.                                                                *)
EXTENDS Integers

VARIABLES
  heapSize,   \* the heap's bytes are 1 .. heapSize
  held        \* blocks in use: [ptr, size]

Bytes(b) == b.ptr .. b.ptr + b.size - 1

Init == heapSize \in Nat /\ held = {}

Allocate(b) ==
  /\ Bytes(b) \subseteq 1 .. heapSize
  /\ \A other \in held : other.ptr # b.ptr /\ Bytes(other) \cap Bytes(b) = {}
  /\ held' = held \cup {b}

Release(b) == held' = held \ {b}

(* A block of no bytes may be given the address behind the heap's last.    *)
Block == [ptr : 1 .. heapSize + 1, size : 0 .. heapSize]

Next ==
  /\ \/ \E b \in Block : Allocate(b)
     \/ \E b \in held : Release(b)
  /\ UNCHANGED heapSize

Spec == Init /\ [][Next]_<<heapSize, held>>
=============================================================================
