------------------------- MODULE MemoryManagerProofs --------------------------
(***************************************************************************)
(* The heap, for every size of the heap, of the header and of the blocks   *)
(* asked for: the list always covers the heap, what is allocated is held,  *)
(* what is free is merged, and blocks in use never overlap.                *)
(*                                                                         *)
(* free changes the list in up to three steps, so that what holds of the   *)
(* list between them is said of any list h of chunks, not of heap.         *)
(***************************************************************************)
EXTENDS MemoryManager, TLAPS

Chunk == [next : Nat, prev : Nat, allocated : BOOLEAN, size : Nat]

EndIn(h, c) == c + HeaderSize + h[c].size

(* Headers, and chunks that lie behind each other up to the limit.         *)
Typed(h) == \A c \in DOMAIN h : c \in Nat \ {0} /\ h[c] \in Chunk

Ordered(h, limit) ==
  \A c \in DOMAIN h :
    /\ EndIn(h, c) <= limit
    /\ \A d \in DOMAIN h : c < d => EndIn(h, c) <= d

(* Both links of each chunk.                                               *)
NextIn(h, c, limit) ==
  IF h[c].next = Null
  THEN EndIn(h, c) = limit
  ELSE h[c].next = EndIn(h, c) /\ h[c].next \in DOMAIN h /\ h[h[c].next].prev = c

PrevIn(h, c, f) ==
  IF c = f THEN h[c].prev = Null
           ELSE h[c].prev \in DOMAIN h /\ h[h[c].prev].next = c

List(h, limit, f) ==
  /\ limit \in Nat /\ Typed(h) /\ Ordered(h, limit)
  /\ \A c \in DOMAIN h : NextIn(h, c, limit) /\ PrevIn(h, c, f)
  /\ f # Null => f \in DOMAIN h

(* No two neighbours are free but those that begin in X.                   *)
MergedBut(h, X) ==
  \A c \in DOMAIN h \ X : h[c].next # Null => h[c].allocated \/ h[h[c].next].allocated

(* What is allocated in h is what is held.                                 *)
Holds(h, blocks) ==
  /\ \A c \in DOMAIN h : h[c].allocated => \E b \in blocks : b.ptr = c + HeaderSize
  /\ \A b \in blocks : \E c \in DOMAIN h :
       b.ptr = c + HeaderSize /\ h[c].allocated /\ b.size <= h[c].size

Blocks(blocks) ==
  /\ blocks \subseteq [ptr : Nat, size : Nat]
  /\ \A b, other \in blocks : b.ptr = other.ptr => b = other

HeapInv ==
  /\ heapSize \in Nat /\ first \in {Null, Start}
  /\ List(heap, Start + heapSize, first)
  /\ MergedBut(heap, {})
  /\ Holds(heap, held)
  /\ Blocks(held)

-----------------------------------------------------------------------------
(* Merging a chunk with its next neighbour.                                *)
LEMMA MergeValue ==
  ASSUME NEW limit, NEW f, NEW h, List(h, limit, f), NEW c \in DOMAIN h,
         NEW gone \in DOMAIN h, h[c].next = gone
  PROVE  LET m == Merge(h, c, gone)
         IN  /\ DOMAIN m = DOMAIN h \ {gone}
             /\ c < gone /\ c \in DOMAIN m /\ gone = EndIn(h, c) /\ h[gone].prev = c
             /\ m[c] = [next |-> h[gone].next, prev |-> h[c].prev, allocated |-> h[c].allocated,
                        size |-> h[c].size + h[gone].size + HeaderSize]
             /\ \A a \in DOMAIN m \ {c} :
                  m[a] = IF a = h[gone].next THEN [h[a] EXCEPT !.prev = c] ELSE h[a]
<1>1. h[c] \in Chunk /\ h[gone] \in Chunk /\ c \in Nat \ {0} /\ gone \in Nat \ {0}
  BY DEF List, Typed
<1>2. gone = EndIn(h, c) /\ h[gone].prev = c
  BY <1>1 DEF List, NextIn, Null
<1>3. c < gone
  BY <1>1, <1>2, HeapAssumption DEF EndIn, Chunk
<1> DEFINE m == Merge(h, c, gone)
<1>4. DOMAIN m = DOMAIN h \ {gone} /\ c \in DOMAIN m
  BY <1>1, <1>3 DEF Merge
<1>5. m[c] = [h[c] EXCEPT !.next = h[gone].next, !.size = @ + h[gone].size + HeaderSize]
  <2>1. h[gone].next # Null => h[gone].next = EndIn(h, gone)
    BY DEF List, NextIn
  <2>2. h[gone].next # c
    BY <1>1, <1>3, <2>1, HeapAssumption DEF EndIn, Chunk, Null
  <2> QED
    BY <1>4, <2>2 DEF Merge
<1>6. m[c] = [next |-> h[gone].next, prev |-> h[c].prev, allocated |-> h[c].allocated,
              size |-> h[c].size + h[gone].size + HeaderSize]
  BY <1>1, <1>5 DEF Chunk
<1>7. \A a \in DOMAIN m \ {c} :
        m[a] = IF a = h[gone].next THEN [h[a] EXCEPT !.prev = c] ELSE h[a]
  BY <1>4 DEF Merge
<1> QED
  BY <1>2, <1>3, <1>4, <1>6, <1>7

(* The list is one again, and nothing that is allocated is touched.        *)
LEMMA MergeKeepsList ==
  ASSUME NEW limit, NEW f, NEW h, List(h, limit, f), NEW c \in DOMAIN h,
         NEW gone \in DOMAIN h, h[c].next = gone
  PROVE  List(Merge(h, c, gone), limit, f)
<1> DEFINE m == Merge(h, c, gone)
           after == h[gone].next
<1>1. /\ DOMAIN m = DOMAIN h \ {gone}
      /\ c < gone /\ c \in DOMAIN m /\ gone = EndIn(h, c) /\ h[gone].prev = c
      /\ m[c] = [next |-> after, prev |-> h[c].prev, allocated |-> h[c].allocated,
                 size |-> h[c].size + h[gone].size + HeaderSize]
      /\ \A a \in DOMAIN m \ {c} : m[a] = IF a = after THEN [h[a] EXCEPT !.prev = c] ELSE h[a]
  BY MergeValue
<1>2. /\ \A a \in DOMAIN h : a \in Nat \ {0} /\ h[a] \in Chunk /\ EndIn(h, a) \in Nat
      /\ limit \in Nat /\ HeaderSize \in Nat \ {0}
  BY HeapAssumption DEF List, Typed, Chunk, EndIn
<1> HIDE DEF m
<1>3. /\ m[c].next = after /\ m[c].prev = h[c].prev /\ m[c].allocated = h[c].allocated
      /\ m[c].size = h[c].size + h[gone].size + HeaderSize
      /\ EndIn(m, c) = EndIn(h, gone)
      /\ m[c] \in Chunk
  BY <1>1, <1>2 DEF EndIn, Chunk
<1>4. \A a \in DOMAIN m \ {c} :
        /\ m[a].next = h[a].next /\ m[a].size = h[a].size /\ m[a].allocated = h[a].allocated
        /\ m[a].prev = IF a = after THEN c ELSE h[a].prev
        /\ EndIn(m, a) = EndIn(h, a)
        /\ m[a] \in Chunk
  BY <1>1, <1>2 DEF EndIn, Chunk
<1>5. Typed(m)
  BY <1>1, <1>2, <1>3, <1>4 DEF Typed
<1>6. Ordered(m, limit)
  <2>1. \A a, d \in DOMAIN h : EndIn(h, a) <= limit /\ (a < d => EndIn(h, a) <= d)
    BY DEF List, Ordered
  <2>2. ASSUME NEW d \in DOMAIN m, c < d
        PROVE  EndIn(m, c) <= d
    <3>1. d \in DOMAIN h /\ d # gone /\ EndIn(h, c) <= d
      BY <1>1, <2>1, <2>2
    <3>2. gone < d
      BY <1>1, <1>2, <3>1
    <3> QED
      BY <1>3, <2>1, <3>1, <3>2
  <2> QED
    BY <1>1, <1>3, <1>4, <2>1, <2>2 DEF Ordered
<1>7. after # Null => after \in DOMAIN h /\ after = EndIn(h, gone) /\ h[after].prev = gone
                      /\ gone < after
  BY <1>2 DEF List, NextIn, EndIn, Chunk
<1>8. \A a \in DOMAIN h : h[a].next # Null => h[h[a].next].prev = a
  BY DEF List, NextIn
<1>9. ASSUME NEW a \in DOMAIN m
      PROVE  NextIn(m, a, limit)
  <2>1. CASE a = c
    <3>1. CASE after = Null
      BY <1>3, <2>1, <3>1 DEF NextIn, List
    <3>2. CASE after # Null
      <4>1. after \in DOMAIN m \ {c}
        BY <1>1, <1>2, <1>7, <3>2
      <4>2. m[after].prev = c
        BY <1>4, <4>1
      <4> QED
        BY <1>3, <1>7, <2>1, <3>2, <4>1, <4>2 DEF NextIn
    <3> QED
      BY <3>1, <3>2
  <2>2. CASE a # c
    <3>1. a \in DOMAIN h /\ a # gone /\ NextIn(h, a, limit) /\ m[a].next = h[a].next
          /\ EndIn(m, a) = EndIn(h, a)
      BY <1>1, <1>4, <2>2 DEF List
    <3>2. CASE h[a].next = Null
      BY <3>1, <3>2 DEF NextIn
    <3>3. CASE h[a].next # Null
      <4> DEFINE b == h[a].next
      <4>1. b \in DOMAIN h /\ h[b].prev = a /\ b = EndIn(h, a)
        BY <3>1, <3>3 DEF NextIn
      <4>2. b # gone
        BY <1>1, <2>2, <4>1
      <4>3. m[b].prev = a
        <5>1. CASE b = c
          BY <1>3, <4>1, <5>1
        <5>2. CASE b # c
          <6>1. b # after
            BY <1>7, <3>1, <3>3, <4>1
          <6> QED
            BY <1>1, <1>4, <4>1, <4>2, <5>2, <6>1
        <5> QED
          BY <5>1, <5>2
      <4> QED
        BY <1>1, <3>1, <3>3, <4>1, <4>2, <4>3 DEF NextIn
    <3> QED
      BY <3>2, <3>3
  <2> QED
    BY <2>1, <2>2
<1>10. ASSUME NEW a \in DOMAIN m
       PROVE  PrevIn(m, a, f)
  <2>1. a \in DOMAIN h /\ PrevIn(h, a, f)
    BY <1>1 DEF List
  <2>2. CASE a = f
    <3>1. h[a].prev = Null
      BY <2>1, <2>2 DEF PrevIn
    <3>2. a # after
      BY <1>2, <1>7, <2>1, <3>1 DEF Null
    <3>3. m[a].prev = Null
      BY <1>3, <1>4, <3>1, <3>2
    <3> QED
      BY <2>2, <3>3 DEF PrevIn
  <2>3. CASE a # f
    <3> DEFINE b == h[a].prev
    <3>1. b \in DOMAIN h /\ h[b].next = a
      BY <2>1, <2>3 DEF PrevIn
    <3>2. CASE b = gone
      <4>1. a = after /\ a \in DOMAIN m \ {c}
        BY <1>1, <1>2, <1>7, <2>1, <3>1, <3>2 DEF Null
      <4>2. m[a].prev = c /\ m[c].next = a
        BY <1>3, <1>4, <4>1
      <4> QED
        BY <1>1, <2>3, <4>2 DEF PrevIn
    <3>3. CASE b # gone
      <4>1. a # after
        BY <1>2, <1>7, <2>1, <3>3 DEF Null
      <4>2. m[a].prev = b
        BY <1>3, <1>4, <4>1
      <4>3. b # c
        BY <1>1, <3>1
      <4>4. b \in DOMAIN m \ {c} /\ m[b].next = a
        BY <1>1, <1>4, <3>1, <3>3, <4>3
      <4> QED
        BY <2>3, <4>2, <4>4 DEF PrevIn
    <3> QED
      BY <3>2, <3>3
  <2> QED
    BY <2>2, <2>3
<1>11. f # Null => f \in DOMAIN m
  <2>1. f # gone
    BY <1>1, <1>2 DEF List, PrevIn, Null
  <2> QED
    BY <1>1, <2>1 DEF List
<1> QED
  BY <1>2, <1>5, <1>6, <1>9, <1>10, <1>11 DEF List, m

(* The fields of what has been merged.                                     *)
LEMMA MergeFields ==
  ASSUME NEW limit, NEW f, NEW h, List(h, limit, f), NEW c \in DOMAIN h,
         NEW gone \in DOMAIN h, h[c].next = gone
  PROVE  LET m == Merge(h, c, gone)
         IN  /\ DOMAIN m = DOMAIN h \ {gone} /\ c \in DOMAIN m /\ c # gone
             /\ m[c].next = h[gone].next /\ m[c].allocated = h[c].allocated
             /\ \A a \in DOMAIN m \ {c} :
                  /\ m[a].allocated = h[a].allocated /\ m[a].size = h[a].size
                  /\ m[a].next = h[a].next
<1> DEFINE m == Merge(h, c, gone)
           after == h[gone].next
<1>1. /\ DOMAIN m = DOMAIN h \ {gone} /\ c < gone /\ c \in DOMAIN m
      /\ m[c] = [next |-> after, prev |-> h[c].prev, allocated |-> h[c].allocated,
                 size |-> h[c].size + h[gone].size + HeaderSize]
      /\ \A a \in DOMAIN m \ {c} : m[a] = IF a = after THEN [h[a] EXCEPT !.prev = c] ELSE h[a]
  BY MergeValue
<1>2. \A a \in DOMAIN h : a \in Nat /\ h[a] \in Chunk
  BY DEF List, Typed
<1> HIDE DEF m
<1>3. m[c].next = after /\ m[c].allocated = h[c].allocated
  BY <1>1
<1>4. \A a \in DOMAIN m \ {c} :
        m[a].allocated = h[a].allocated /\ m[a].size = h[a].size /\ m[a].next = h[a].next
  BY <1>1, <1>2 DEF Chunk
<1>5. c # gone
  BY <1>1, <1>2
<1> QED
  BY <1>1, <1>3, <1>4, <1>5 DEF m

(* Merging two free chunks touches nothing that is allocated.              *)
LEMMA MergeKeepsBlocks ==
  ASSUME NEW limit, NEW f, NEW h, List(h, limit, f), NEW c \in DOMAIN h,
         NEW gone \in DOMAIN h, h[c].next = gone, ~h[c].allocated, ~h[gone].allocated,
         NEW blocks, Holds(h, blocks)
  PROVE  Holds(Merge(h, c, gone), blocks)
<1> DEFINE m == Merge(h, c, gone)
<1>1. /\ DOMAIN m = DOMAIN h \ {gone} /\ c \in DOMAIN m
      /\ ~m[c].allocated
      /\ \A a \in DOMAIN m \ {c} : m[a].allocated = h[a].allocated /\ m[a].size = h[a].size
  BY MergeFields
<1> HIDE DEF m
<1>2. ASSUME NEW a \in DOMAIN m, m[a].allocated
      PROVE  \E b \in blocks : b.ptr = a + HeaderSize
  BY <1>1, <1>2 DEF Holds
<1>3. ASSUME NEW b \in blocks
      PROVE  \E a \in DOMAIN m :
               b.ptr = a + HeaderSize /\ m[a].allocated /\ b.size <= m[a].size
  <2>1. PICK a \in DOMAIN h :
          b.ptr = a + HeaderSize /\ h[a].allocated /\ b.size <= h[a].size
    BY DEF Holds
  <2>2. a \in DOMAIN m \ {c}
    BY <1>1, <2>1
  <2> QED
    BY <1>1, <2>1, <2>2
<1>4. Holds(m, blocks)
  BY <1>2, <1>3 DEF Holds
<1> QED
  BY <1>4 DEF m

(* If neighbours are free only from X on, and the merged chunk's other     *)
(* neighbours do not matter, they are so afterwards.                       *)
LEMMA MergeIsMerged ==
  ASSUME NEW limit, NEW f, NEW h, List(h, limit, f), NEW c \in DOMAIN h,
         NEW gone \in DOMAIN h, h[c].next = gone, ~h[c].allocated, ~h[gone].allocated,
         NEW X, MergedBut(h, X)
  PROVE  MergedBut(Merge(h, c, gone), (X \ {c, gone}) \cup (IF gone \in X THEN {c} ELSE {}))
<1> DEFINE m == Merge(h, c, gone)
           Y == (X \ {c, gone}) \cup (IF gone \in X THEN {c} ELSE {})
<1>1. /\ DOMAIN m = DOMAIN h \ {gone} /\ c \in DOMAIN m
      /\ m[c].next = h[gone].next
      /\ m[c].allocated = h[c].allocated
      /\ \A a \in DOMAIN m \ {c} : m[a].allocated = h[a].allocated /\ m[a].next = h[a].next
  BY MergeFields
<1> HIDE DEF m
<1>2. \A a \in DOMAIN h : h[a].next # Null => h[a].next \in DOMAIN h /\ h[h[a].next].prev = a
  BY DEF List, NextIn
<1>3. ASSUME NEW a \in DOMAIN m \ Y, m[a].next # Null
      PROVE  m[a].allocated \/ m[m[a].next].allocated
  <2>1. CASE a = c
    <3>1. h[gone].next # Null /\ gone \notin X
      BY <1>1, <1>3, <2>1
    <3>2. h[h[gone].next].allocated /\ h[gone].next \in DOMAIN h
      BY <1>2, <3>1 DEF MergedBut
    <3>3. h[gone].next \in DOMAIN m \ {c}
      BY <1>1, <3>2
    <3> QED
      BY <1>1, <2>1, <3>2, <3>3
  <2>2. CASE a # c
    <3>1. a \in DOMAIN h \ X /\ a # gone
      BY <1>1, <1>3, <2>2
    <3>2. h[a].next # Null /\ m[a].next = h[a].next
      BY <1>1, <1>3, <2>2
    <3>3. h[a].allocated \/ h[h[a].next].allocated
      BY <3>1, <3>2 DEF MergedBut
    <3>4. h[a].next # gone
      BY <1>2, <2>2, <3>1, <3>2
    <3>5. h[a].next \in DOMAIN m
      BY <1>1, <1>2, <3>1, <3>2, <3>4
    <3> QED
      BY <1>1, <2>2, <3>2, <3>3, <3>5, <1>3
  <2> QED
    BY <2>1, <2>2
<1>4. MergedBut(m, Y)
  BY <1>3 DEF MergedBut
<1> QED
  BY <1>4 DEF m

-----------------------------------------------------------------------------
(* free merges whatever can be merged.                                     *)
LEMMA MergeNeighboursWorks ==
  ASSUME NEW limit, NEW f, NEW h, List(h, limit, f), NEW c \in DOMAIN h, ~h[c].allocated,
         NEW blocks, Holds(h, blocks), MergedBut(h, {c, h[c].prev})
  PROVE  LET m == MergeNeighbours(h, c)
         IN  List(m, limit, f) /\ Holds(m, blocks) /\ MergedBut(m, {})
<1> DEFINE front  == IF FreeIn(h, h[c].prev) THEN h[c].prev ELSE c
           merged == IF front = c THEN h ELSE Merge(h, front, c)
           prev   == h[c].prev
           after  == merged[front].next
           m      == MergeNeighbours(h, c)
<1>1. \A a \in DOMAIN h : a \in Nat \ {0} /\ h[a] \in Chunk /\ NextIn(h, a, limit) /\ PrevIn(h, a, f)
  BY DEF List, Typed
<1>2. /\ List(merged, limit, f) /\ Holds(merged, blocks) /\ MergedBut(merged, {front})
      /\ front \in DOMAIN merged /\ ~merged[front].allocated
  <2>1. CASE FreeIn(h, prev)
    <3>1. prev \in DOMAIN h /\ h[prev].next = c /\ ~h[prev].allocated
      BY <1>1, <2>1 DEF FreeIn, PrevIn
    <3>2. prev # c
      BY <3>1, MergeFields
    <3>3. front = prev /\ merged = Merge(h, prev, c)
      BY <2>1, <3>2
    <3>4. List(merged, limit, f)
      BY <3>1, <3>3, MergeKeepsList
    <3>5. Holds(merged, blocks)
      BY <3>1, <3>3, MergeKeepsBlocks
    <3>6. MergedBut(merged, ({c, prev} \ {prev, c}) \cup (IF c \in {c, prev} THEN {prev} ELSE {}))
      BY <3>1, <3>3, MergeIsMerged
    <3>7. ({c, prev} \ {prev, c}) \cup (IF c \in {c, prev} THEN {prev} ELSE {}) = {prev}
      OBVIOUS
    <3>8. prev \in DOMAIN merged /\ ~merged[prev].allocated
      <4> DEFINE both == Merge(h, prev, c)
      <4>1. prev \in DOMAIN both /\ both[prev].allocated = h[prev].allocated
        BY <3>1, MergeFields
      <4>2. merged = both
        BY <3>3
      <4> HIDE DEF both, merged, prev
      <4> QED
        BY <3>1, <4>1, <4>2
    <3> QED
      BY <3>3, <3>4, <3>5, <3>6, <3>7, <3>8
  <2>2. CASE ~FreeIn(h, prev)
    <3>1. front = c /\ merged = h
      BY <2>2
    <3>2. prev \in DOMAIN h => h[prev].allocated
      BY <1>1, <2>2 DEF FreeIn, Null
    <3>3. MergedBut(h, {c})
      BY <3>2 DEF MergedBut
    <3> QED
      BY <3>1, <3>3
  <2> QED
    BY <2>1, <2>2
<1>3. m = IF FreeIn(merged, after) THEN Merge(merged, front, after) ELSE merged
  BY DEF MergeNeighbours
<1> HIDE DEF front, merged, m
<1>4. CASE FreeIn(merged, after)
  <2>1. after \in DOMAIN merged /\ ~merged[after].allocated
    BY <1>2, <1>4 DEF List, NextIn, FreeIn
  <2>2. m = Merge(merged, front, after)
    BY <1>3, <1>4
  <2>3. after # front
    BY <1>2, <2>1, MergeFields
  <2>4. List(m, limit, f)
    BY <1>2, <2>1, <2>2, MergeKeepsList
  <2>5. Holds(m, blocks)
    BY <1>2, <2>1, <2>2, MergeKeepsBlocks
  <2>6. MergedBut(m, ({front} \ {front, after}) \cup (IF after \in {front} THEN {front} ELSE {}))
    BY <1>2, <2>1, <2>2, MergeIsMerged
  <2>7. ({front} \ {front, after}) \cup (IF after \in {front} THEN {front} ELSE {}) = {}
    BY <2>3
  <2> QED
    BY <2>4, <2>5, <2>6, <2>7 DEF m
<1>5. CASE ~FreeIn(merged, after)
  <2>1. m = merged
    BY <1>3, <1>5
  <2>2. MergedBut(merged, {})
    BY <1>2, <1>5 DEF FreeIn, MergedBut
  <2> QED
    BY <1>2, <2>1, <2>2 DEF m
<1> QED
  BY <1>4, <1>5

-----------------------------------------------------------------------------
LEMMA HeapStarts ==
  ASSUME MemoryInit
  PROVE  HeapInv
<1>1. CASE heapSize < HeaderSize
  <2>1. heap = <<>> /\ first = Null /\ held = {} /\ heapSize \in Nat /\ DOMAIN heap = {}
    BY <1>1, HeapAssumption DEF MemoryInit
  <2> QED
    BY <2>1, HeapAssumption DEF HeapInv, List, Typed, Ordered, MergedBut, Holds, Blocks, Start, Null
<1>2. CASE heapSize >= HeaderSize
  <2> DEFINE chunk == [next |-> Null, prev |-> Null, allocated |-> FALSE,
                       size |-> heapSize - HeaderSize]
  <2>1. /\ heap = [c \in {Start} |-> chunk]
        /\ first = Start /\ held = {} /\ heapSize \in Nat
    BY <1>2, HeapAssumption DEF MemoryInit
  <2>2. /\ DOMAIN heap = {Start} /\ heap[Start] = chunk /\ chunk \in Chunk
        /\ EndIn(heap, Start) = Start + heapSize
    BY <1>2, <2>1, HeapAssumption DEF Chunk, EndIn, Start, Null
  <2>3. Typed(heap) /\ Ordered(heap, Start + heapSize) /\ Start + heapSize \in Nat
    BY <2>1, <2>2 DEF Typed, Ordered, Start
  <2>4. NextIn(heap, Start, Start + heapSize) /\ PrevIn(heap, Start, first)
    BY <2>1, <2>2 DEF NextIn, PrevIn
  <2>5. List(heap, Start + heapSize, first)
    BY <2>1, <2>2, <2>3, <2>4 DEF List
  <2> QED
    BY <2>1, <2>2, <2>5 DEF HeapInv, MergedBut, Holds, Blocks
<1> QED
  BY <1>1, <1>2, HeapAssumption DEF MemoryInit

LEMMA FreeKeeps ==
  ASSUME HeapInv, NEW b \in held, Free(b)
  PROVE  HeapInv'
<1> DEFINE c == b.ptr - HeaderSize
           limit == Start + heapSize
           h == [heap EXCEPT ![c].allocated = FALSE]
<1>1. /\ List(heap, limit, first) /\ MergedBut(heap, {}) /\ Holds(heap, held) /\ Blocks(held)
      /\ heapSize \in Nat /\ first \in {Null, Start}
  BY DEF HeapInv
<1>2. PICK k \in DOMAIN heap : b.ptr = k + HeaderSize /\ heap[k].allocated
  BY <1>1 DEF Holds
<1>3. \A a \in DOMAIN heap : a \in Nat \ {0} /\ heap[a] \in Chunk
  BY <1>1 DEF List, Typed
<1>4. c = k /\ c \in DOMAIN heap
  BY <1>2, <1>3, HeapAssumption
<1>5. /\ DOMAIN h = DOMAIN heap
      /\ \A a \in DOMAIN h : /\ h[a] \in Chunk /\ h[a].next = heap[a].next
                             /\ h[a].prev = heap[a].prev /\ h[a].size = heap[a].size
                             /\ h[a].allocated = IF a = c THEN FALSE ELSE heap[a].allocated
  BY <1>3, <1>4 DEF Chunk
<1>6. heap' = MergeNeighbours(h, c) /\ held' = held \ {b} /\ UNCHANGED <<heapSize, first>>
  BY DEF Free
<1> HIDE DEF h, c
<1>7. List(h, limit, first)
  <2>1. \A a \in DOMAIN h : EndIn(h, a) = EndIn(heap, a)
    BY <1>5 DEF EndIn
  <2>2. Ordered(h, limit) /\ Typed(h)
    BY <1>1, <1>3, <1>5, <2>1 DEF List, Ordered, Typed
  <2>3. ASSUME NEW a \in DOMAIN h
        PROVE  NextIn(h, a, limit) /\ PrevIn(h, a, first)
    <3>1. NextIn(heap, a, limit) /\ PrevIn(heap, a, first)
      BY <1>1, <1>5 DEF List
    <3>2. NextIn(h, a, limit)
      BY <1>5, <2>1, <3>1, ZenonT(40) DEF NextIn
    <3>3. PrevIn(h, a, first)
      BY <1>5, <3>1, ZenonT(40) DEF PrevIn
    <3> QED
      BY <3>2, <3>3
  <2> QED
    BY <1>1, <1>5, <2>2, <2>3 DEF List
<1>8. Holds(h, held \ {b})
  <2>1. ASSUME NEW a \in DOMAIN h, h[a].allocated
        PROVE  \E other \in held \ {b} : other.ptr = a + HeaderSize
    <3>1. a # c /\ heap[a].allocated /\ a \in Nat /\ c \in Nat
      BY <1>3, <1>4, <1>5, <2>1
    <3>2. PICK other \in held : other.ptr = a + HeaderSize
      BY <1>1, <1>5, <3>1 DEF Holds
    <3>3. other # b
      BY <1>2, <1>4, <3>1, <3>2, HeapAssumption
    <3> QED
      BY <3>2, <3>3
  <2>2. ASSUME NEW other \in held \ {b}
        PROVE  \E a \in DOMAIN h :
                 other.ptr = a + HeaderSize /\ h[a].allocated /\ other.size <= h[a].size
    <3>1. PICK a \in DOMAIN heap :
            other.ptr = a + HeaderSize /\ heap[a].allocated /\ other.size <= heap[a].size
      BY <1>1 DEF Holds
    <3>2. a # c
      BY <1>1, <1>2, <1>4, <3>1 DEF Blocks
    <3> QED
      BY <1>5, <3>1, <3>2
  <2> QED
    BY <2>1, <2>2 DEF Holds
<1>9. MergedBut(h, {c, h[c].prev})
  <2>1. ASSUME NEW a \in DOMAIN h \ {c, h[c].prev}, h[a].next # Null
        PROVE  h[a].allocated \/ h[h[a].next].allocated
    <3>1. h[a].next \in DOMAIN h /\ h[h[a].next].prev = a
      BY <1>7, <2>1 DEF List, NextIn
    <3>2. h[a].next # c
      BY <2>1, <3>1
    <3>3. heap[a].allocated \/ heap[heap[a].next].allocated
      BY <1>1, <1>5, <2>1 DEF MergedBut
    <3> QED
      BY <1>5, <2>1, <3>1, <3>2, <3>3
  <2> QED
    BY <2>1 DEF MergedBut
<1>10. List(heap', limit, first) /\ Holds(heap', held') /\ MergedBut(heap', {})
  BY <1>4, <1>5, <1>6, <1>7, <1>8, <1>9, MergeNeighboursWorks
<1>11. Blocks(held')
  BY <1>1, <1>6 DEF Blocks
<1> QED
  BY <1>1, <1>6, <1>10, <1>11 DEF HeapInv

-----------------------------------------------------------------------------
(* A chunk c split where its block of n bytes ends.                        *)
SplitAt(m, c, rest, n) ==
  /\ DOMAIN m = DOMAIN heap \cup {rest} /\ rest \notin DOMAIN heap /\ c < rest
  /\ rest < EndIn(heap, c)
  /\ m[c] = [next |-> rest, prev |-> heap[c].prev, allocated |-> TRUE, size |-> n]
  /\ m[rest] = [next |-> heap[c].next, prev |-> c, allocated |-> FALSE,
                size |-> heap[c].size - n - HeaderSize]
  /\ \A a \in DOMAIN heap \ {c} :
       m[a] = IF a = heap[c].next THEN [heap[a] EXCEPT !.prev = rest] ELSE heap[a]

LEMMA SplitFields ==
  ASSUME NEW limit, NEW f, List(heap, limit, f), NEW c \in Chunks, NEW n \in Nat,
         heap[c].size >= n + HeaderSize + 1
  PROVE  SplitAt(Split(c, n), c, c + HeaderSize + n, n)
<1> DEFINE m    == Split(c, n)
           rest == c + HeaderSize + n
<1>1. /\ \A a \in DOMAIN heap : a \in Nat \ {0} /\ heap[a] \in Chunk
      /\ c \in DOMAIN heap
  BY DEF List, Typed, Chunks
<1>2. rest \in Nat /\ c < rest /\ rest < EndIn(heap, c)
  BY <1>1, HeapAssumption DEF EndIn, Chunk
<1>3. rest \notin DOMAIN heap
  <2>1. rest \in DOMAIN heap => EndIn(heap, c) <= rest
    BY <1>1, <1>2 DEF List, Ordered
  <2>2. EndIn(heap, c) \in Nat
    BY <1>1, HeapAssumption DEF EndIn, Chunk
  <2> QED
    BY <1>2, <2>1, <2>2
<1>4. heap[c].next # c /\ heap[c].next # rest
  <2>1. \/ heap[c].next = Null
        \/ heap[c].next = EndIn(heap, c) /\ heap[c].next \in DOMAIN heap
    BY <1>1 DEF List, NextIn
  <2> QED
    BY <1>1, <1>2, <1>3, <2>1, HeapAssumption DEF EndIn, Chunk, Null
<1>5. DOMAIN m = DOMAIN heap \cup {rest}
  BY DEF Split, Chunks
<1>6. m[c] = [heap[c] EXCEPT !.size = n, !.next = rest, !.allocated = TRUE]
  BY <1>1, <1>2, <1>4 DEF Split, Chunks
<1>7. m[c] = [next |-> rest, prev |-> heap[c].prev, allocated |-> TRUE, size |-> n]
  BY <1>1, <1>6 DEF Chunk
<1>8. m[rest] = [next |-> heap[c].next, prev |-> c, allocated |-> FALSE,
                 size |-> heap[c].size - n - HeaderSize]
  BY <1>1, <1>2, <1>4 DEF Split, Chunks
<1>9. \A a \in DOMAIN heap \ {c} :
        m[a] = IF a = heap[c].next THEN [heap[a] EXCEPT !.prev = rest] ELSE heap[a]
  BY <1>3 DEF Split, Chunks
<1> QED
  BY <1>2, <1>3, <1>5, <1>7, <1>8, <1>9 DEF SplitAt

LEMMA SplitKeepsList ==
  ASSUME NEW limit, NEW f, List(heap, limit, f), NEW c \in Chunks, NEW n \in Nat,
         heap[c].size >= n + HeaderSize + 1
  PROVE  List(Split(c, n), limit, f)
<1> DEFINE m     == Split(c, n)
           rest  == c + HeaderSize + n
           after == heap[c].next
<1>1. /\ DOMAIN m = DOMAIN heap \cup {rest} /\ rest \notin DOMAIN heap /\ c < rest
      /\ rest < EndIn(heap, c)
      /\ m[c] = [next |-> rest, prev |-> heap[c].prev, allocated |-> TRUE, size |-> n]
      /\ m[rest] = [next |-> after, prev |-> c, allocated |-> FALSE,
                    size |-> heap[c].size - n - HeaderSize]
      /\ \A a \in DOMAIN heap \ {c} :
           m[a] = IF a = after THEN [heap[a] EXCEPT !.prev = rest] ELSE heap[a]
  <2>1. SplitAt(m, c, rest, n)
    BY SplitFields
  <2> QED
    BY <2>1 DEF SplitAt
<1>2. /\ \A a \in DOMAIN heap : a \in Nat \ {0} /\ heap[a] \in Chunk /\ EndIn(heap, a) \in Nat
      /\ limit \in Nat /\ HeaderSize \in Nat \ {0} /\ c \in DOMAIN heap
  BY HeapAssumption DEF List, Typed, Chunk, EndIn, Chunks
<1> HIDE DEF m
<1>3. rest \in Nat \ {0} /\ c \in Nat \ {0}
  BY <1>2
<1>4. /\ m[c].next = rest /\ m[c].prev = heap[c].prev /\ m[c] \in Chunk /\ EndIn(m, c) = rest
      /\ m[rest].next = after /\ m[rest].prev = c /\ m[rest] \in Chunk
      /\ EndIn(m, rest) = EndIn(heap, c)
  BY <1>1, <1>2, <1>3 DEF EndIn, Chunk
<1>5. \A a \in DOMAIN heap \ {c} :
        /\ m[a].next = heap[a].next /\ m[a].prev = IF a = after THEN rest ELSE heap[a].prev
        /\ m[a] \in Chunk /\ EndIn(m, a) = EndIn(heap, a)
  BY <1>1, <1>2, <1>3 DEF EndIn, Chunk
<1> HIDE DEF rest
<1>6. Typed(m)
  BY <1>1, <1>2, <1>3, <1>4, <1>5 DEF Typed
<1>7. Ordered(m, limit)
  <2>1. \A a, d \in DOMAIN heap : EndIn(heap, a) <= limit /\ (a < d => EndIn(heap, a) <= d)
    BY DEF List, Ordered
  <2>2. ASSUME NEW d \in DOMAIN heap \ {c}, rest < d
        PROVE  EndIn(heap, c) <= d
    BY <1>1, <1>2, <1>3, <2>1, <2>2
  <2>3. ASSUME NEW a \in DOMAIN heap \ {c}, a < rest
        PROVE  EndIn(heap, a) <= rest
    <3>1. a < EndIn(heap, c)
      BY <1>1, <1>2, <1>3, <2>3
    <3>2. a < c
      BY <1>2, <2>1, <2>3, <3>1
    <3>3. EndIn(heap, a) <= c
      BY <1>2, <2>1, <3>2
    <3> QED
      BY <1>1, <1>2, <1>3, <3>3
  <2>4. ASSUME NEW d \in DOMAIN m, c < d
        PROVE  EndIn(m, c) <= d
    <3>1. CASE d = rest
      BY <1>3, <1>4, <3>1
    <3>2. CASE d # rest
      <4>1. d \in DOMAIN heap /\ EndIn(heap, c) <= d
        BY <1>1, <1>2, <2>1, <2>4, <3>2
      <4> QED
        BY <1>1, <1>2, <1>3, <1>4, <4>1
    <3> QED
      BY <3>1, <3>2
  <2>5. ASSUME NEW a \in DOMAIN m, NEW d \in DOMAIN m, a < d
        PROVE  EndIn(m, a) <= d
    <3>1. CASE a = c
      BY <2>4, <2>5, <3>1
    <3>2. CASE a = rest
      <4>1. d \in DOMAIN heap \ {c}
        BY <1>1, <1>3, <2>5, <3>2
      <4> QED
        BY <1>4, <2>2, <2>5, <3>2, <4>1
    <3>3. CASE a \in DOMAIN heap \ {c} /\ d = rest
      BY <1>5, <2>3, <2>5, <3>3
    <3>4. CASE a \in DOMAIN heap \ {c} /\ d # rest
      <4>1. d \in DOMAIN heap
        BY <1>1, <3>4
      <4> QED
        BY <1>5, <2>1, <2>5, <3>4, <4>1
    <3> QED
      BY <1>1, <3>1, <3>2, <3>3, <3>4
  <2>6. ASSUME NEW a \in DOMAIN m
        PROVE  EndIn(m, a) <= limit
    <3>1. CASE a = c
      BY <1>1, <1>2, <1>3, <1>4, <2>1, <3>1
    <3>2. CASE a # c
      BY <1>1, <1>2, <1>4, <1>5, <2>1, <3>2
    <3> QED
      BY <3>1, <3>2
  <2> QED
    BY <2>5, <2>6 DEF Ordered
<1>8. \A a \in DOMAIN heap :
        /\ NextIn(heap, a, limit) /\ PrevIn(heap, a, f)
        /\ heap[a].next # Null => heap[a].next \in DOMAIN heap /\ heap[heap[a].next].prev = a
  BY DEF List, NextIn
<1>9. after # Null => after \in DOMAIN heap \ {c} /\ after = EndIn(heap, c)
  BY <1>2, <1>8, HeapAssumption DEF NextIn, EndIn, Chunk
<1>10. ASSUME NEW a \in DOMAIN m
       PROVE  NextIn(m, a, limit)
  <2>1. CASE a = c
    BY <1>1, <1>3, <1>4, <2>1, ZenonT(40) DEF NextIn, Null
  <2>2. CASE a = rest
    <3>1. CASE after = Null
      <4>1. EndIn(heap, c) = limit
        BY <1>2, <1>8, <3>1 DEF NextIn
      <4> QED
        BY <1>4, <2>2, <3>1, <4>1 DEF NextIn
    <3>2. CASE after # Null
      <4>1. m[after].prev = rest /\ after \in DOMAIN m
        BY <1>1, <1>5, <1>9, <3>2
      <4> QED
        BY <1>4, <1>9, <2>2, <3>2, <4>1 DEF NextIn
    <3> QED
      BY <3>1, <3>2
  <2>3. CASE a \in DOMAIN heap \ {c}
    <3>1. CASE heap[a].next = Null
      <4>1. EndIn(heap, a) = limit
        BY <1>8, <2>3, <3>1 DEF NextIn
      <4> QED
        BY <1>5, <2>3, <3>1, <4>1 DEF NextIn
    <3>2. CASE heap[a].next # Null
      <4> DEFINE b == heap[a].next
      <4>1. b \in DOMAIN heap /\ heap[b].prev = a /\ b = EndIn(heap, a)
        BY <1>8, <2>3, <3>2 DEF NextIn
      <4>2. b # after
        BY <1>2, <1>8, <2>3, <3>2, <4>1
      <4>3. m[b].prev = a /\ b \in DOMAIN m
        BY <1>1, <1>4, <1>5, <4>1, <4>2
      <4> QED
        BY <1>5, <2>3, <3>2, <4>1, <4>3 DEF NextIn
    <3> QED
      BY <3>1, <3>2
  <2> QED
    BY <1>1, <2>1, <2>2, <2>3
<1>11. f # Null => f \in DOMAIN heap
  BY DEF List
<1>12. ASSUME NEW a \in DOMAIN m
       PROVE  PrevIn(m, a, f)
  <2>1. CASE a = rest
    <3>1. a # f
      BY <1>1, <1>3, <1>11, <2>1 DEF Null
    <3>2. c \in DOMAIN m
      BY <1>1, <1>2
    <3> QED
      BY <1>4, <2>1, <3>1, <3>2 DEF PrevIn
  <2>2. CASE a = f /\ a # rest
    <3>1. a \in DOMAIN heap /\ heap[a].prev = Null
      BY <1>1, <1>8, <2>2 DEF PrevIn
    <3>2. a # after
      BY <1>2, <1>8, <1>9, <3>1 DEF Null
    <3> QED
      BY <1>4, <1>5, <2>2, <3>1, <3>2 DEF PrevIn
  <2>3. CASE a # f /\ a # rest
    <3> DEFINE b == heap[a].prev
    <3>1. a \in DOMAIN heap /\ b \in DOMAIN heap /\ heap[b].next = a
      BY <1>1, <1>8, <2>3 DEF PrevIn
    <3>2. CASE a = after
      <4>1. a \in DOMAIN heap \ {c} /\ m[a].prev = rest
        BY <1>2, <1>5, <1>9, <3>1, <3>2 DEF Null
      <4> QED
        BY <1>1, <1>4, <2>3, <3>2, <4>1 DEF PrevIn
    <3>3. CASE a # after
      <4>1. b # c /\ m[a].prev = b
        BY <1>4, <1>5, <3>1, <3>3
      <4>2. b \in DOMAIN m /\ m[b].next = a
        BY <1>1, <1>5, <3>1, <4>1
      <4> QED
        BY <2>3, <4>1, <4>2 DEF PrevIn
    <3> QED
      BY <3>2, <3>3
  <2> QED
    BY <2>1, <2>2, <2>3
<1>13. List(m, limit, f)
  BY <1>1, <1>2, <1>6, <1>7, <1>10, <1>11, <1>12 DEF List
<1> QED
  BY <1>13 DEF m

-----------------------------------------------------------------------------
(* What malloc does to the chunks: one that was free is given out, what it *)
(* splits off is free.                                                     *)
GivenOut(m, c, n) ==
  /\ c \in DOMAIN m /\ m[c].allocated /\ n <= m[c].size
  /\ \A a \in DOMAIN heap \ {c} :
       a \in DOMAIN m /\ m[a].allocated = heap[a].allocated /\ m[a].size = heap[a].size
  /\ \A a \in DOMAIN m \ DOMAIN heap : ~m[a].allocated

LEMMA SplitKeeps ==
  ASSUME NEW limit, NEW f, List(heap, limit, f), NEW c \in Chunks, NEW n \in Nat,
         heap[c].size >= n + HeaderSize + 1, ~heap[c].allocated, MergedBut(heap, {})
  PROVE  GivenOut(Split(c, n), c, n) /\ MergedBut(Split(c, n), {})
<1> DEFINE m     == Split(c, n)
           rest  == c + HeaderSize + n
           after == heap[c].next
<1>1. SplitAt(m, c, rest, n)
  BY SplitFields
<1>2. /\ \A a \in DOMAIN heap : a \in Nat /\ heap[a] \in Chunk
      /\ c \in DOMAIN heap
      /\ \A a \in DOMAIN heap : heap[a].next # Null => heap[a].next \in DOMAIN heap
  BY DEF List, Typed, NextIn, Chunks
<1> HIDE DEF m, rest
<1>3. /\ DOMAIN m = DOMAIN heap \cup {rest} /\ rest \notin DOMAIN heap
      /\ m[c].allocated /\ m[c].size = n
      /\ m[rest].next = after /\ ~m[rest].allocated
  BY <1>1 DEF SplitAt
<1>4. \A a \in DOMAIN heap \ {c} :
        m[a].next = heap[a].next /\ m[a].allocated = heap[a].allocated /\ m[a].size = heap[a].size
  BY <1>1, <1>2 DEF SplitAt, Chunk
<1>5. GivenOut(m, c, n)
  BY <1>2, <1>3, <1>4 DEF GivenOut
<1>6. ASSUME NEW a \in DOMAIN m, m[a].next # Null
      PROVE  m[a].allocated \/ m[m[a].next].allocated
  <2>1. CASE a = c
    BY <1>3, <2>1
  <2>2. CASE a = rest
    <3>1. after \in DOMAIN heap /\ heap[after].allocated
      BY <1>2, <1>3, <1>6, <2>2 DEF MergedBut
    <3>2. after # c
      BY <3>1
    <3> QED
      BY <1>3, <1>4, <2>2, <3>1, <3>2
  <2>3. CASE a \in DOMAIN heap \ {c}
    <3>1. m[a].next = heap[a].next /\ heap[a].next \in DOMAIN heap
      BY <1>2, <1>4, <1>6, <2>3
    <3>2. heap[a].allocated \/ heap[heap[a].next].allocated
      BY <1>6, <2>3, <3>1 DEF MergedBut
    <3>3. CASE heap[a].next = c
      BY <1>3, <3>1, <3>3
    <3>4. CASE heap[a].next # c
      BY <1>4, <2>3, <3>1, <3>2, <3>4
    <3> QED
      BY <3>3, <3>4
  <2> QED
    BY <1>3, <2>1, <2>2, <2>3
<1>7. MergedBut(m, {})
  BY <1>6 DEF MergedBut
<1> QED
  BY <1>5, <1>7 DEF m

(* The whole chunk is given out.                                           *)
LEMMA TakeKeeps ==
  ASSUME NEW limit, NEW f, List(heap, limit, f), NEW c \in Chunks, NEW n \in Nat,
         heap[c].size > n, MergedBut(heap, {})
  PROVE  LET m == [heap EXCEPT ![c].allocated = TRUE]
         IN  List(m, limit, f) /\ GivenOut(m, c, n) /\ MergedBut(m, {})
<1> DEFINE m == [heap EXCEPT ![c].allocated = TRUE]
<1>1. \A a \in DOMAIN heap : a \in Nat \ {0} /\ heap[a] \in Chunk
  BY DEF List, Typed
<1>2. /\ DOMAIN m = DOMAIN heap /\ c \in DOMAIN heap
      /\ \A a \in DOMAIN m : /\ m[a] \in Chunk /\ m[a].next = heap[a].next
                             /\ m[a].prev = heap[a].prev /\ m[a].size = heap[a].size
                             /\ m[a].allocated = IF a = c THEN TRUE ELSE heap[a].allocated
  BY <1>1 DEF Chunk, Chunks
<1> HIDE DEF m
<1>3. \A a \in DOMAIN m : EndIn(m, a) = EndIn(heap, a)
  BY <1>2 DEF EndIn
<1>4. Ordered(m, limit) /\ Typed(m)
  BY <1>1, <1>2, <1>3 DEF List, Ordered, Typed
<1>5. ASSUME NEW a \in DOMAIN m
      PROVE  NextIn(m, a, limit) /\ PrevIn(m, a, f)
  <2>1. NextIn(heap, a, limit) /\ PrevIn(heap, a, f)
    BY <1>2 DEF List
  <2>2. m[a].next = heap[a].next /\ m[a].prev = heap[a].prev /\ EndIn(m, a) = EndIn(heap, a)
    BY <1>2, <1>3
  <2>3. NextIn(m, a, limit)
    <3>1. CASE heap[a].next = Null
      BY <2>1, <2>2, <3>1 DEF NextIn
    <3>2. CASE heap[a].next # Null
      <4> DEFINE b == heap[a].next
      <4>1. b \in DOMAIN m /\ b = EndIn(heap, a) /\ m[b].prev = a
        BY <1>2, <2>1, <3>2 DEF NextIn
      <4> QED
        BY <2>2, <3>2, <4>1 DEF NextIn
    <3> QED
      BY <3>1, <3>2
  <2>4. PrevIn(m, a, f)
    BY <1>2, <2>1, <2>2, ZenonT(40) DEF PrevIn
  <2> QED
    BY <2>3, <2>4
<1>6. List(m, limit, f)
  BY <1>2, <1>4, <1>5 DEF List
<1>7. GivenOut(m, c, n)
  <2>1. m[c].allocated /\ m[c].size = heap[c].size /\ heap[c].size \in Nat
    BY <1>1, <1>2 DEF Chunk
  <2>2. n <= m[c].size
    BY <2>1
  <2> QED
    BY <1>2, <2>1, <2>2, Zenon DEF GivenOut
<1>8. \A a \in DOMAIN heap : heap[a].next # Null => heap[a].next \in DOMAIN heap
  BY DEF List, NextIn
<1>9. MergedBut(m, {})
  BY <1>2, <1>8 DEF MergedBut
<1> QED
  BY <1>6, <1>7, <1>9 DEF m

LEMMA MallocKeeps ==
  ASSUME HeapInv, NEW n \in Requests, Malloc(n)
  PROVE  HeapInv' /\ \E b \in Abstract!Block : Abstract!Allocate(b) /\ UNCHANGED heapSize
<1>1. PICK c \in FirstFit(n) :
        /\ heap' = IF heap[c].size >= n + HeaderSize + 1
                   THEN Split(c, n)
                   ELSE [heap EXCEPT ![c].allocated = TRUE]
        /\ held' = held \cup {[ptr |-> c + HeaderSize, size |-> n]}
        /\ UNCHANGED <<heapSize, first>>
  BY DEF Malloc
<1> DEFINE limit == Start + heapSize
           b     == [ptr |-> c + HeaderSize, size |-> n]
<1>2. /\ List(heap, limit, first) /\ MergedBut(heap, {}) /\ Holds(heap, held) /\ Blocks(held)
      /\ heapSize \in Nat /\ first \in {Null, Start} /\ n \in Nat
  BY HeapAssumption DEF HeapInv
<1>3. c \in Chunks /\ heap[c].size > n /\ ~heap[c].allocated
  BY DEF FirstFit, Fits
<1>4. \A a \in DOMAIN heap : a \in Nat \ {0} /\ heap[a] \in Chunk /\ EndIn(heap, a) \in Nat
  BY <1>2, HeapAssumption DEF List, Typed, Chunk, EndIn
<1>5. c \in Nat \ {0} /\ c \in DOMAIN heap /\ b \in [ptr : Nat, size : Nat]
      /\ b.ptr = c + HeaderSize /\ b.size = n
  BY <1>2, <1>3, <1>4, HeapAssumption DEF Chunks
<1>6. List(heap', limit, first) /\ GivenOut(heap', c, n) /\ MergedBut(heap', {})
  <2>1. CASE heap[c].size >= n + HeaderSize + 1
    <3>1. heap' = Split(c, n)
      BY <1>1, <2>1
    <3>2. List(Split(c, n), limit, first)
      BY <1>2, <1>3, <2>1, SplitKeepsList
    <3>3. GivenOut(Split(c, n), c, n) /\ MergedBut(Split(c, n), {})
      BY <1>2, <1>3, <2>1, SplitKeeps
    <3> QED
      BY <3>1, <3>2, <3>3
  <2>2. CASE ~(heap[c].size >= n + HeaderSize + 1)
    <3>1. heap' = [heap EXCEPT ![c].allocated = TRUE]
      BY <1>1, <2>2
    <3> QED
      BY <1>2, <1>3, <3>1, TakeKeeps
  <2> QED
    BY <2>1, <2>2
<1> HIDE DEF b
<1>7. held' = held \cup {b}
  BY <1>1 DEF b
<1>8. ASSUME NEW other \in held
      PROVE  \E a \in DOMAIN heap \ {c} :
               /\ other.ptr = a + HeaderSize /\ heap[a].allocated /\ other.size <= heap[a].size
               /\ other.ptr \in Nat /\ other.size \in Nat
  BY <1>2, <1>3, <1>8 DEF Holds, Blocks
<1>9. \A other \in held : other.ptr # b.ptr
  BY <1>4, <1>5, <1>8, HeapAssumption
<1>10. Holds(heap', held')
  <2>1. ASSUME NEW a \in DOMAIN heap', heap'[a].allocated
        PROVE  \E other \in held' : other.ptr = a + HeaderSize
    <3>1. CASE a = c
      BY <1>5, <1>7, <3>1
    <3>2. CASE a # c
      <4>1. a \in DOMAIN heap /\ heap[a].allocated
        BY <1>6, <2>1, <3>2 DEF GivenOut
      <4> QED
        BY <1>2, <1>7, <4>1 DEF Holds
    <3> QED
      BY <3>1, <3>2
  <2>2. ASSUME NEW other \in held'
        PROVE  \E a \in DOMAIN heap' :
                 other.ptr = a + HeaderSize /\ heap'[a].allocated /\ other.size <= heap'[a].size
    <3>1. CASE other = b
      BY <1>5, <1>6, <3>1 DEF GivenOut
    <3>2. CASE other \in held
      BY <1>6, <1>8, <3>2 DEF GivenOut
    <3> QED
      BY <1>7, <2>2, <3>1, <3>2
  <2> QED
    BY <2>1, <2>2 DEF Holds
<1>11. Blocks(held')
  BY <1>2, <1>5, <1>7, <1>9 DEF Blocks
<1>12. HeapInv'
  BY <1>1, <1>2, <1>6, <1>10, <1>11 DEF HeapInv
<1>13. EndIn(heap, c) <= limit /\ c + HeaderSize + n < EndIn(heap, c)
  BY <1>2, <1>3, <1>4, <1>5, HeapAssumption DEF List, Ordered, EndIn, Chunk
<1>14. b.ptr \in 1 .. heapSize + 1 /\ b.size \in 0 .. heapSize
       /\ Abstract!Bytes(b) \subseteq 1 .. heapSize
  BY <1>2, <1>4, <1>5, <1>13, HeapAssumption DEF Abstract!Bytes, Start
<1>15. ASSUME NEW other \in held
       PROVE  Abstract!Bytes(other) \cap Abstract!Bytes(b) = {}
  <2>1. PICK a \in DOMAIN heap \ {c} :
          /\ other.ptr = a + HeaderSize /\ other.size <= heap[a].size
          /\ other.ptr \in Nat /\ other.size \in Nat
    BY <1>8
  <2>2. a \in Nat /\ c \in Nat /\ HeaderSize \in Nat \ {0} /\ heap[a].size \in Nat
        /\ EndIn(heap, a) = a + HeaderSize + heap[a].size
    BY <1>4, <1>5, HeapAssumption DEF EndIn, Chunk
  <2>3. CASE a < c
    <3>1. EndIn(heap, a) <= c
      BY <1>2, <1>5, <2>3 DEF List, Ordered
    <3>2. other.ptr + other.size <= c
      BY <2>1, <2>2, <3>1
    <3> QED
      BY <1>2, <1>5, <2>1, <2>2, <3>2 DEF Abstract!Bytes
  <2>4. CASE c < a
    <3>1. EndIn(heap, c) <= a
      BY <1>2, <1>5, <2>4 DEF List, Ordered
    <3>2. b.ptr + b.size <= a
      BY <1>2, <1>4, <1>5, <1>13, <2>2, <3>1
    <3> QED
      BY <1>2, <1>5, <2>1, <2>2, <3>2 DEF Abstract!Bytes
  <2> QED
    BY <2>2, <2>3, <2>4
<1>16. b \in Abstract!Block /\ Abstract!Allocate(b) /\ UNCHANGED heapSize
  <2>1. b \in Abstract!Block
    BY <1>14 DEF Abstract!Block, b
  <2> QED
    BY <1>1, <1>7, <1>9, <1>14, <1>15, <2>1 DEF Abstract!Allocate
<1> QED
  BY <1>12, <1>16

-----------------------------------------------------------------------------
LEMMA HeapStays ==
  ASSUME HeapInv, [MemoryNext]_memoryVars
  PROVE  HeapInv'
<1>1. CASE UNCHANGED memoryVars
  BY <1>1 DEF memoryVars, HeapInv
<1> QED
  BY <1>1, MallocKeeps, FreeKeeps DEF MemoryNext

LEMMA HeapInvariant == MemorySpec => []HeapInv
BY HeapStarts, HeapStays, PTL DEF MemorySpec

(* After any malloc and free calls the list covers the heap from its first *)
(* byte to its last, without gaps, and can be walked in both directions.   *)
THEOREM HeapIsAlwaysLinked == MemorySpec => []Linked
<1>1. HeapInv => Linked
  <2> SUFFICES ASSUME HeapInv PROVE Linked
    OBVIOUS
  <2>1. List(heap, Start + heapSize, first)
    BY DEF HeapInv
  <2>2. first # Null => first \in Chunks /\ heap[first].prev = Null
    BY <2>1 DEF List, PrevIn, Chunks
  <2>3. ASSUME NEW c \in Chunks
        PROVE  /\ IF heap[c].next = Null
                  THEN End(c) = Start + heapSize
                  ELSE /\ heap[c].next = End(c) /\ heap[c].next \in Chunks
                       /\ heap[heap[c].next].prev = c
               /\ c # first => heap[c].prev \in Chunks /\ heap[heap[c].prev].next = c
    <3>1. NextIn(heap, c, Start + heapSize) /\ PrevIn(heap, c, first)
      BY <2>1 DEF List, Chunks
    <3> QED
      BY <3>1 DEF NextIn, PrevIn, Chunks, End, EndIn
  <2> QED
    BY <2>2, <2>3, Zenon DEF Linked
<1> QED
  BY <1>1, HeapInvariant, PTL

(* No block is lost by free or malloc, and none is given out twice.        *)
THEOREM AllocatedIsAlwaysHeld == MemorySpec => []AllocatedIsHeld
<1>1. HeapInv => AllocatedIsHeld
  <2> SUFFICES ASSUME HeapInv PROVE AllocatedIsHeld
    OBVIOUS
  <2>1. Holds(heap, held) /\ \A c \in Chunks : c \in Nat
    BY DEF HeapInv, List, Typed, Chunks
  <2>2. ASSUME NEW c \in Chunks, heap[c].allocated
        PROVE  c \in {b.ptr - HeaderSize : b \in held}
    BY <2>1, <2>2, HeapAssumption DEF Holds, Chunks
  <2>3. ASSUME NEW b \in held
        PROVE  /\ b.ptr - HeaderSize \in {c \in Chunks : heap[c].allocated}
               /\ b.size <= heap[b.ptr - HeaderSize].size
    <3>1. PICK c \in Chunks :
            b.ptr = c + HeaderSize /\ heap[c].allocated /\ b.size <= heap[c].size
      BY <2>1 DEF Holds, Chunks
    <3>2. b.ptr - HeaderSize = c
      BY <2>1, <3>1, HeapAssumption
    <3> QED
      BY <3>1, <3>2
  <2> QED
    BY <2>2, <2>3 DEF AllocatedIsHeld
<1> QED
  BY <1>1, HeapInvariant, PTL

(* Whatever the order of the calls, no two neighbours are both free.       *)
THEOREM FreeIsAlwaysMerged == MemorySpec => []FreeIsMerged
<1>1. HeapInv => FreeIsMerged
  BY DEF HeapInv, MergedBut, FreeIsMerged, Chunks
<1> QED
  BY <1>1, HeapInvariant, PTL

(* So the heap stays sound, whatever is asked for and given back.          *)
THEOREM HeapIsAlwaysSound == MemorySpec => []HeapIsSound
BY HeapIsAlwaysLinked, AllocatedIsAlwaysHeld, FreeIsAlwaysMerged, PTL DEF HeapIsSound

(* The list of chunks does what new and delete promise: blocks lie in the  *)
(* heap, do not overlap, and stay until they are deleted.                  *)
THEOREM HeapIsAllocator == MemorySpec => ImplementsAllocator
<1>1. MemoryInit => Abstract!Init
  BY HeapAssumption DEF MemoryInit, Abstract!Init
<1>2. HeapInv /\ [MemoryNext]_memoryVars => [Abstract!Next]_<<heapSize, held>>
  <2> SUFFICES ASSUME HeapInv, MemoryNext
               PROVE  Abstract!Next
    BY DEF memoryVars
  <2>1. CASE \E n \in Requests : Malloc(n)
    BY <2>1, MallocKeeps DEF Abstract!Next
  <2>2. CASE \E b \in held : Free(b)
    BY <2>2 DEF Free, Abstract!Next, Abstract!Release
  <2> QED
    BY <2>1, <2>2 DEF MemoryNext
<1> QED
  BY <1>1, <1>2, HeapInvariant, PTL DEF MemorySpec, ImplementsAllocator, Abstract!Spec
=============================================================================
