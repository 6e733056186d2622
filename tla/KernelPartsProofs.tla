------------------------- MODULE KernelPartsProofs --------------------------
(***************************************************************************)
(* Results about four parts of the kernel, each for every value of the     *)
(* constants.                                                              *)
(*                                                                         *)
(* However many printers overtake each other in printf, the cursor is back *)
(* on the screen when all have left it.                                    *)
(*                                                                         *)
(* With the widths of the processor (Nibble = 16) a segment descriptor is  *)
(* exact, for every base and every limit of 32 bits.                       *)
(*                                                                         *)
(* Searches in an array that others read or sort at the same time answer   *)
(* as far as SearchIsRight says.                                           *)
(*                                                                         *)
(* printDec32 prints what it is given.                                     *)
(***************************************************************************)
EXTENDS Console, GlobalDescriptorTable, SharedArray, PrintNumber, FiniteSetTheorems,
        WellFoundedInduction, TLAPS

(* A set of numbers has a least one.                                       *)
LEMMA NatSetHasMin ==
  ASSUME NEW S \in SUBSET Nat, S # {}
  PROVE  \E m \in S : \A e \in S : m <= e
  <1>1. PICK m \in S : \A e \in S : <<e, m>> \notin OpToRel(<, Nat)
        BY NatLessThanWellFounded, WFMin
  <1>2. \A e \in S : ~ (e < m)  BY <1>1 DEF OpToRel
  <1> QED  BY <1>2

-----------------------------------------------------------------------------
(* The console                                                             *)

Places ==
  {"outside", "next", "advance", "newline", "newline store", "backspace",
   "backspace store", "right edge", "wrap", "wrap row", "wrap store", "bottom edge",
   "clear", "home"}

ConsoleType ==
  /\ column \in 0 .. ByteRange - 1
  /\ row \in 0 .. ByteRange - 1
  /\ at \in [Printers -> Places]
  /\ loaded \in [Printers -> 0 .. ByteRange - 1]

(* A byte stays a byte, also when it wraps.                                *)
LEMMA BytesWrap ==
  ASSUME ByteRange \in Nat \ {0}, NEW b \in Int
  PROVE  b % ByteRange \in 0 .. ByteRange - 1
  OBVIOUS

(* Every step of a printer keeps the bytes within their width.             *)
LEMMA PrintfKeepsType ==
  ASSUME ConsoleType, NEW p \in Printers, Printf(p)
  PROVE  ConsoleType'
<1>1. ByteRange \in Nat \ {0} /\ Columns \in Nat /\ Rows \in Nat
  BY ConsoleAssumption
<1>2. Plus1(p) \in 0 .. ByteRange - 1 /\ Minus1(p) \in 0 .. ByteRange - 1
  BY <1>1, BytesWrap DEF Plus1, Minus1, ConsoleType
<1>3. 0 \in 0 .. ByteRange - 1
  BY <1>1
<1>4. CASE Call(p) \/ Return(p) \/ Backspace(p) \/ RightEdge(p) \/ BottomEdge(p)
  BY <1>4 DEF Call, Return, Backspace, RightEdge, BottomEdge, Branch, Go, ConsoleType, Places
<1>5. CASE Character(p) \/ NewlineLoad(p) \/ BackspaceLoad(p) \/ WrapLoad(p)
  BY <1>5 DEF Character, NewlineLoad, BackspaceLoad, WrapLoad, Load, Go, ConsoleType, Places
<1>6. CASE Advance(p) \/ Newline(p) \/ BackspaceStore(p) \/ Wrap(p) \/ ClearScreen(p)
  BY <1>2, <1>3, <1>6
     DEF Advance, Newline, BackspaceStore, Wrap, ClearScreen, StoreColumn, Go, ConsoleType, Places
<1>7. CASE NewlineStore(p) \/ WrapStore(p) \/ Home(p)
  BY <1>2, <1>3, <1>7 DEF NewlineStore, WrapStore, Home, StoreRow, Go, ConsoleType, Places
<1> QED
  BY <1>4, <1>5, <1>6, <1>7 DEF Printf

(* Only the printer that moves changes its place.                          *)
LEMMA OthersStay ==
  ASSUME ConsoleType, NEW p \in Printers, NEW q \in Printers, q # p, Printf(p)
  PROVE  at'[q] = at[q]
BY DEF ConsoleType, Printf, Call, Return, Character, Advance, Newline, NewlineLoad,
       NewlineStore, Backspace, BackspaceLoad, BackspaceStore, RightEdge, Wrap, WrapLoad,
       WrapStore, BottomEdge, ClearScreen, Home, Branch, Load, StoreColumn, StoreRow, Go

(* A printer that leaves the test of the right edge behind leaves a column *)
(* that is on the screen, and so does one that stores a column elsewhere.  *)
LEMMA ColumnIsMinded ==
  ASSUME ConsoleType, NEW p \in Printers, Printf(p),
         column >= Columns => \E q \in Printers : Correcting(q),
         column' >= Columns
  PROVE  \E q \in Printers : Correcting(q)'
<1>1. Columns \in Nat /\ 0 < Columns
  BY ConsoleAssumption
<1>2. CASE Advance(p) \/ BackspaceStore(p)
  BY <1>2 DEF Advance, BackspaceStore, StoreColumn, Go, Correcting, ConsoleType
<1>3. CASE Newline(p) \/ Wrap(p) \/ ClearScreen(p)
  <2>1. column' = 0
    BY <1>3 DEF Newline, Wrap, ClearScreen, StoreColumn
  <2> QED
    BY <1>1, <2>1
<1>4. ASSUME column' = column, Correcting(p) => Correcting(p)'
      PROVE  \E q \in Printers : Correcting(q)'
  BY <1>4, OthersStay DEF Correcting
<1>5. CASE RightEdge(p)
  BY <1>4, <1>5 DEF RightEdge, Branch, Go, Correcting, ConsoleType
<1>6. CASE Call(p) \/ Return(p) \/ Backspace(p) \/ BottomEdge(p)
  BY <1>4, <1>6 DEF Call, Return, Backspace, BottomEdge, Branch, Go, Correcting, ConsoleType
<1>7. CASE Character(p) \/ NewlineLoad(p) \/ BackspaceLoad(p) \/ WrapLoad(p)
  BY <1>4, <1>7
     DEF Character, NewlineLoad, BackspaceLoad, WrapLoad, Load, Go, Correcting, ConsoleType
<1>8. CASE NewlineStore(p) \/ WrapStore(p) \/ Home(p)
  BY <1>4, <1>8 DEF NewlineStore, WrapStore, Home, StoreRow, Go, Correcting, ConsoleType
<1> QED
  BY <1>2, <1>3, <1>5, <1>6, <1>7, <1>8 DEF Printf

(* The same of the row and the test of the bottom edge.                    *)
LEMMA RowIsMinded ==
  ASSUME ConsoleType, NEW p \in Printers, Printf(p),
         row >= Rows => \E q \in Printers : Scrolling(q),
         row' >= Rows
  PROVE  \E q \in Printers : Scrolling(q)'
<1>1. Rows \in Nat /\ 0 < Rows
  BY ConsoleAssumption
<1>2. CASE NewlineStore(p) \/ WrapStore(p)
  BY <1>2 DEF NewlineStore, WrapStore, StoreRow, Go, Scrolling, ConsoleType
<1>3. CASE Home(p)
  BY <1>1, <1>3 DEF Home, StoreRow
<1>4. ASSUME row' = row, Scrolling(p) => Scrolling(p)'
      PROVE  \E q \in Printers : Scrolling(q)'
  BY <1>4, OthersStay DEF Scrolling
<1>5. CASE RightEdge(p) \/ BottomEdge(p)
  BY <1>4, <1>5 DEF RightEdge, BottomEdge, Branch, Go, Scrolling, ConsoleType
<1>6. CASE Call(p) \/ Return(p) \/ Backspace(p)
  BY <1>4, <1>6 DEF Call, Return, Backspace, Branch, Go, Scrolling, ConsoleType
<1>7. CASE Character(p) \/ NewlineLoad(p) \/ BackspaceLoad(p) \/ WrapLoad(p)
  BY <1>4, <1>7
     DEF Character, NewlineLoad, BackspaceLoad, WrapLoad, Load, Go, Scrolling, ConsoleType
<1>8. CASE Advance(p) \/ Newline(p) \/ BackspaceStore(p) \/ Wrap(p) \/ ClearScreen(p)
  BY <1>4, <1>8
     DEF Advance, Newline, BackspaceStore, Wrap, ClearScreen, StoreColumn, Go, Scrolling,
         ConsoleType
<1> QED
  BY <1>2, <1>3, <1>5, <1>6, <1>7, <1>8 DEF Printf

-----------------------------------------------------------------------------
(* A byte off the screen always has somebody in printf who still has the   *)
(* test of it before it (kernel.cpp, the two tests at the loop's end).     *)
THEOREM CursorIsAlwaysMinded == ConsoleSpec => [](ConsoleType /\ CursorIsMinded)
<1>1. ConsoleInit => ConsoleType /\ CursorIsMinded
  <2>1. ByteRange \in Nat /\ 0 < ByteRange /\ Columns \in Nat /\ 0 < Columns
        /\ Rows \in Nat /\ 0 < Rows
    BY ConsoleAssumption
  <2>2. ConsoleInit => ConsoleType
    BY <2>1 DEF ConsoleInit, ConsoleType, Places
  <2>3. ConsoleInit => ~(column >= Columns) /\ ~(row >= Rows)
    BY <2>1 DEF ConsoleInit
  <2> QED
    BY <2>2, <2>3 DEF CursorIsMinded
<1>2. ASSUME ConsoleType, CursorIsMinded, [ConsoleNext]_consoleVars
      PROVE  ConsoleType' /\ CursorIsMinded'
  <2>1. CASE UNCHANGED consoleVars
    BY <1>2, <2>1 DEF consoleVars, ConsoleType, CursorIsMinded, Correcting, Scrolling
  <2>2. ASSUME NEW p \in Printers, Printf(p)
        PROVE  ConsoleType' /\ CursorIsMinded'
    BY <1>2, <2>2, PrintfKeepsType, ColumnIsMinded, RowIsMinded DEF CursorIsMinded
  <2> QED
    BY <1>2, <2>1, <2>2 DEF ConsoleNext
<1> QED
  BY <1>1, <1>2, PTL DEF ConsoleSpec

(* So it always settles on the screen, whatever the printers lost or       *)
(* counted twice.                                                          *)
THEOREM CursorAlwaysSettles == ConsoleSpec => []CursorSettles
<1>1. ASSUME ConsoleType, CursorIsMinded
      PROVE  CursorSettles
  <2>1. Columns \in Nat /\ Rows \in Nat /\ column \in Int /\ row \in Int
    BY <1>1, ConsoleAssumption DEF ConsoleType
  <2>2. Outside => ~(column >= Columns) /\ ~(row >= Rows)
    BY <1>1 DEF CursorIsMinded, Outside, Correcting, Scrolling
  <2> QED
    BY <2>1, <2>2 DEF CursorSettles
<1> QED
  BY <1>1, CursorIsAlwaysMinded, PTL

-----------------------------------------------------------------------------
(* The segment descriptors                                                 *)

(* What Encode has taken apart into bytes, Base puts together again.       *)
LEMMA BaseIsRead ==
  ASSUME NEW base \in Nat, base < 256 * 256 * 256 * 256
  PROVE  ((((base \div (256 * 256 * 256)) % 256) * 256
              + ((base \div (256 * 256)) % 256)) * 256
                + ((base \div 256) % 256)) * 256 + (base % 256) = base
BY SMTT(60)

(* The same of a limit of twenty bits.                                     *)
LEMMA CountIsRead ==
  ASSUME NEW count \in Nat, count < 16 * 256 * 256
  PROVE  (((count \div (256 * 256)) % 16) * 256 + ((count \div 256) % 256)) * 256
           + (count % 256) = count
BY SMT

(* A limit fits into twenty bits once it is squeezed, and is rounded down  *)
(* to the last whole page.                                                 *)
LEMMA SqueezedFits ==
  ASSUME Nibble = 16, NEW limit \in Nat, limit < 256 * 256 * 256 * 256
  PROVE  /\ Squeeze(limit) \in Nat /\ Squeeze(limit) < 16 * 256 * 256
         /\ Small(limit) => Squeeze(limit) = limit
         /\ ~Small(limit) =>
              /\ Squeeze(limit) * (256 * 16) + (256 * 16) - 1 <= limit
              /\ limit - (Squeeze(limit) * (256 * 16) + (256 * 16) - 1) < 256 * 16
<1>1. CASE Small(limit)
  BY SMT, <1>1 DEF Small, Squeeze, Byte
<1>2. CASE ~Small(limit) /\ limit % (256 * 16) = 256 * 16 - 1
  <2>1. Squeeze(limit) = limit \div (256 * 16)
    BY SMT, <1>2 DEF Squeeze, Byte, Page
  <2> QED
    BY SMT, <1>2, <2>1
<1>3. CASE ~Small(limit) /\ limit % (256 * 16) # 256 * 16 - 1
  <2>1. Squeeze(limit) = (limit \div (256 * 16)) - 1
    BY SMT, <1>3 DEF Squeeze, Byte, Page
  <2>2. limit > 256 * 256
    BY SMT, <1>3 DEF Small, Byte
  <2> QED
    BY SMT, <1>3, <2>1, <2>2
<1> QED
  BY SMT, <1>1, <1>2, <1>3

(* The eight bytes say what the constructor was told.                      *)
LEMMA EncodeIsExact ==
  ASSUME Nibble = 16,
         NEW base \in Nat, base < 256 * 256 * 256 * 256,
         NEW limit \in Nat, limit < 256 * 256 * 256 * 256
  PROVE  /\ Base(Encode(base, limit)) = base
         /\ Limit(Encode(base, limit)) <= limit
         /\ limit - Limit(Encode(base, limit)) < Page
<1> DEFINE d == Encode(base, limit)
           count == Squeeze(limit)
<1>1. Base(d) = base
  <2>1. /\ d.base3 = (base \div (256 * 256 * 256)) % 256
        /\ d.base2 = (base \div (256 * 256)) % 256
        /\ d.base1 = (base \div 256) % 256
        /\ d.base0 = base % 256
    BY SMT DEF Encode, Byte
  <2> HIDE DEF d
  <2> QED
    BY SMT, <2>1, BaseIsRead DEF Base, Byte
<1>2. (d.limit2 * Byte + d.limit1) * Byte + d.limit0 = count
  <2>1. /\ d.limit2 = (count \div (256 * 256)) % 16
        /\ d.limit1 = (count \div 256) % 256
        /\ d.limit0 = count % 256
    BY SMT DEF Encode, Byte
  <2>2. count \in Nat /\ count < 16 * 256 * 256
    BY SMT, SqueezedFits
  <2> HIDE DEF d, count
  <2> QED
    BY SMT, <2>1, <2>2, CountIsRead DEF Byte
<1>3. Limit(d) = IF Small(limit) THEN count ELSE count * Page + Page - 1
  <2>1. Small(limit) => ~d.pages
    BY DEF Encode
  <2>2. ~Small(limit) => d.pages
    BY DEF Encode
  <2> HIDE DEF d, count
  <2>3. Limit(d) = IF d.pages THEN count * Page + Page - 1 ELSE count
    BY <1>2 DEF Limit
  <2> QED
    BY <2>1, <2>2, <2>3
<1>4. Page = 256 * 16
  BY SMT DEF Page, Byte
<1> HIDE DEF d, count
<1>5. Limit(d) <= limit /\ limit - Limit(d) < Page
  <2>1. CASE Small(limit)
    BY SMT, <1>3, <1>4, <2>1, SqueezedFits DEF count
  <2>2. CASE ~Small(limit)
    BY SMT, <1>3, <1>4, <2>2, SqueezedFits DEF count
  <2> QED
    BY <2>1, <2>2
<1> QED
  BY <1>1, <1>5 DEF d

-----------------------------------------------------------------------------
(* Every descriptor of the table is exact (gdt.cpp, the constructor, Base  *)
(* and Limit).                                                             *)
THEOREM SegmentIsAlwaysExact ==
  ASSUME Nibble = 16
  PROVE  SegmentSpec => []SegmentIsExact
<1> DEFINE Given == /\ given.base \in Nat /\ given.base < 256 * 256 * 256 * 256
                    /\ given.limit \in Nat /\ given.limit < 256 * 256 * 256 * 256
<1>1. WordSize = 256 * 256 * 256 * 256
  BY SMT DEF WordSize, Byte
<1>2. SegmentInit => Given /\ SegmentIsExact
  <2>1. WordSize \in Nat
    BY SMT, <1>1
  <2>2. SegmentInit => /\ given.base \in Nat /\ given.base < WordSize
                       /\ given.limit \in Nat /\ given.limit < WordSize
    <3>1. SegmentInit => /\ given.base \in 0 .. WordSize - 1
                         /\ given.limit \in 0 .. WordSize - 1
      BY SegmentAssumption DEF SegmentInit
    <3> QED
      BY SMT, <2>1, <3>1
  <2>3. SegmentInit => SegmentIsExact
    BY SMT DEF SegmentInit, SegmentIsExact
  <2> QED
    BY SMT, <1>1, <2>2, <2>3
<1>3. ASSUME Given, SegmentIsExact, [Construct]_segmentVars
      PROVE  Given' /\ SegmentIsExact'
  <2>1. CASE UNCHANGED segmentVars
    BY SMT, <1>3, <2>1 DEF segmentVars, SegmentIsExact
  <2>2. CASE Construct
    BY SMT, <1>3, <2>2, EncodeIsExact DEF Construct, SegmentIsExact
  <2> QED
    BY <1>3, <2>1, <2>2
<1> QED
  BY <1>2, <1>3, PTL DEF SegmentSpec

-----------------------------------------------------------------------------
(* The shared array: the invariant                                         *)

Locals ==
  [i : Nat, swapped : BOOLEAN, read : Nat, temp : Nat, low : Nat, high : Nat]

Positions ==
  {"pass", "compare", "against", "take", "move", "put", "probe", "aside", "scan"}
    \cup Answers

ArrayTypes ==
  /\ original \in Arrays /\ key \in Keys /\ cast \in Casts
  /\ arr \in [0 .. n - 1 -> Range(original)]
  /\ step \in [cast.sorters \cup cast.readers -> Positions]
  /\ local \in [cast.sorters \cup cast.readers -> Locals]

(* A sorter looks at two elements of the array and has one of its values   *)
(* in hand.                                                                *)
SorterInPlace(t) ==
  /\ step[t] # "scan"
  /\ step[t] \in {"compare", "against", "take", "move", "put"} => local[t].i <= n - 1
  /\ step[t] \in {"against", "take", "move", "put"} => local[t].i < n - 1
  /\ step[t] = "aside" => local[t].low <= local[t].high
  /\ step[t] \in {"move", "put"} => local[t].temp \in Range(original)

ReaderInPlace(t) ==
  /\ step[t] \in {"scan"} \cup Answers
  /\ step[t] = "found" => key \in Range(original)

(* The array, with the element that a sorter has in hand put where it      *)
(* belongs.                                                                *)
Whole(t) ==
  IF step[t] = "put" THEN [arr EXCEPT ![local[t].i + 1] = local[t].temp] ELSE arr

SameValues(array) == \A v \in Values : Occurs(array, v) = Occurs(original, v)

SortedUpTo(last) == \A j, k \in 0 .. last : j <= k => arr[j] <= arr[k]

(* What is left of the key's place.                                        *)
Narrowed(l) ==
  /\ l.low <= n /\ l.high <= n - 1
  /\ \A j \in 0 .. n - 1 : j < l.low => arr[j] < key
  /\ \A j \in 0 .. n - 1 : j > l.high => arr[j] > key

(* What the only sorter relies on.                                         *)
SorterKnows(t) ==
  /\ step[t] = "against" => local[t].read = arr[local[t].i]
  /\ step[t] = "move" => local[t].temp = arr[local[t].i]
  /\ SameValues(Whole(t))
  /\ step[t] \in {"compare", "against"} /\ ~local[t].swapped => SortedUpTo(local[t].i)
  /\ step[t] \in {"probe", "aside"} /\ KeyIsNotBelow =>
       SortedUpTo(n - 1) /\ Narrowed(local[t])
  /\ step[t] = "aside" /\ KeyIsNotBelow => arr[Mid(local[t])] # key
  /\ step[t] = "found" /\ KeyIsNotBelow => key \in Range(original)
  /\ step[t] = "missing" => key \notin Range(original)

ArrayInv ==
  /\ ArrayTypes
  /\ \A t \in cast.sorters : SorterInPlace(t)
  /\ \A t \in cast.readers \ cast.sorters : ReaderInPlace(t)
  /\ OneSorter => \A t \in cast.sorters : SorterKnows(t)
-----------------------------------------------------------------------------
(* Arrays and their values                                                 *)

(* An array that init may have begins at 0, and an index and one more than *)
(* it fit into a word.                                                     *)
LEMMA ArraysBeginAtZero ==
  ASSUME original \in Arrays
  PROVE  /\ n \in 1 .. WordRange - 1
         /\ DOMAIN original = 0 .. n - 1
         /\ original \in [0 .. n - 1 -> Nat]
         /\ Range(original) \subseteq Nat /\ Range(original) \subseteq Values
  <1>1. PICK m \in 1 .. WordRange - 1 : original \in [0 .. m - 1 -> Nat]
        BY ArrayAssumption
  <1>2. WordRange \in Nat  BY ArrayAssumption
  <1>3. m \in Nat /\ m >= 1  BY <1>2
  <1>4. DOMAIN original = 0 .. m - 1  BY <1>1
  <1>5. Cardinality(0 .. m - 1) = m
        BY <1>3, FS_Interval
  <1>6. n = m  BY <1>4, <1>5 DEF n
  <1>7. Range(original) \subseteq Nat  BY <1>1, <1>4 DEF Range
  <1>8. Range(original) \subseteq Values  BY DEF Values
  <1> QED  BY <1>1, <1>4, <1>6, <1>7, <1>8

(* A value occurs as often as never only where it is not.                  *)
LEMMA OccursWhereItIs ==
  ASSUME NEW m \in Nat, NEW array, DOMAIN array = 0 .. m - 1, NEW v
  PROVE  /\ IsFiniteSet({i \in DOMAIN array : array[i] = v})
         /\ Occurs(array, v) = 0 <=> v \notin Range(array)
  <1> DEFINE places == {i \in DOMAIN array : array[i] = v}
  <1>1. IsFiniteSet(0 .. m - 1)  BY FS_Interval
  <1>2. places \in SUBSET (0 .. m - 1)  OBVIOUS
  <1>3. IsFiniteSet(places)  BY <1>1, <1>2, FS_Subset
  <1>4. Cardinality(places) = 0 <=> places = {}  BY <1>3, FS_EmptySet
  <1>5. places = {} <=> v \notin Range(array)  BY DEF Range
  <1> QED  BY <1>3, <1>4, <1>5 DEF Occurs

(* Two elements of an array of m have changed places.                      *)
ElementsSwapped(m, array, swapped, i, j) ==
  /\ m \in Nat /\ DOMAIN array = 0 .. m - 1 /\ DOMAIN swapped = 0 .. m - 1
  /\ i \in 0 .. m - 1 /\ j \in 0 .. m - 1 /\ i # j
  /\ swapped[i] = array[j] /\ swapped[j] = array[i]
  /\ \A k \in (0 .. m - 1) \ {i, j} : swapped[k] = array[k]

(* Then every value is there as often as before.                           *)
LEMMA SwapKeepsValues ==
  ASSUME NEW m, NEW array, NEW swapped, NEW i, NEW j,
         ElementsSwapped(m, array, swapped, i, j), NEW v
  PROVE  Occurs(swapped, v) = Occurs(array, v)
  <1> USE DEF ElementsSwapped
  <1> DEFINE before == {k \in DOMAIN array : array[k] = v}
             after == {k \in DOMAIN swapped : swapped[k] = v}
             other(k) == IF k = i THEN j ELSE IF k = j THEN i ELSE k
             f == [k \in before |-> other(k)]
  <1>1. IsFiniteSet(before)  BY OccursWhereItIs
  <1>2. DOMAIN swapped = 0 .. m - 1  OBVIOUS
  <1>3. \A k \in 0 .. m - 1 : other(k) \in 0 .. m - 1 /\ other(other(k)) = k
        OBVIOUS
  <1>4. \A k \in 0 .. m - 1 : swapped[other(k)] = array[k]  BY <1>2
  <1>5. \A k \in before : other(k) \in after  BY <1>2, <1>3, <1>4
  <1>6. f \in [before -> after]  BY <1>5
  <1>7. \A k, l \in before : f[k] = f[l] => k = l
        <2> SUFFICES ASSUME NEW k \in before, NEW l \in before, f[k] = f[l]
                     PROVE  k = l
            OBVIOUS
        <2>1. other(k) = other(l)  OBVIOUS
        <2>2. k \in 0 .. m - 1 /\ l \in 0 .. m - 1  OBVIOUS
        <2> HIDE DEF other, before, f
        <2> QED  BY <2>1, <2>2, <1>3
  <1>8. \A l \in after : \E k \in before : f[k] = l
        <2> SUFFICES ASSUME NEW l \in after PROVE \E k \in before : f[k] = l
            OBVIOUS
        <2>1. l \in 0 .. m - 1 /\ swapped[l] = v  BY <1>2
        <2>2. other(l) \in 0 .. m - 1 /\ other(other(l)) = l  BY <2>1, <1>3
        <2>3. array[other(l)] = v  BY <2>1, <2>2, <1>4
        <2>4. other(l) \in before  BY <2>2, <2>3
        <2>5. f[other(l)] = other(other(l))  BY <2>4
        <2> QED  BY <2>2, <2>4, <2>5
  <1>9. f \in Bijection(before, after)
        <2> HIDE DEF f, before, after
        <2>1. f \in Injection(before, after)
              BY <1>6, <1>7 DEF Injection, IsInjective
        <2>2. f \in Surjection(before, after)
              BY <1>6, <1>8 DEF Surjection
        <2> QED  BY <2>1, <2>2 DEF Bijection
  <1>10. Cardinality(after) = Cardinality(before)
         <2> HIDE DEF f, before, after
         <2>1. ExistsBijection(before, after)  BY <1>9 DEF ExistsBijection
         <2> QED  BY <1>1, <2>1, FS_Bijection
  <1> QED  BY <1>10 DEF Occurs

(* An array of the same values has the same range.                         *)
LEMMA SameValuesSameRange ==
  ASSUME original \in Arrays, NEW array, array \in [0 .. n - 1 -> Range(original)],
         SameValues(array)
  PROVE  Range(array) = Range(original)
  <1>1. n \in Nat /\ DOMAIN original = 0 .. n - 1 /\ Range(original) \subseteq Values
        BY ArraysBeginAtZero, ArrayAssumption
  <1>2. DOMAIN array = 0 .. n - 1  OBVIOUS
  <1>3. Range(array) \subseteq Range(original)  BY DEF Range
  <1>4. ASSUME NEW v \in Range(original) PROVE v \in Range(array)
        <2>1. Occurs(original, v) # 0  BY <1>1, OccursWhereItIs
        <2>2. Occurs(array, v) = Occurs(original, v)  BY <1>1 DEF SameValues
        <2> QED  BY <2>1, <2>2, <1>1, <1>2, OccursWhereItIs
  <1> QED  BY <1>3, <1>4

-----------------------------------------------------------------------------
(* One step of a sorter                                                    *)

(* A step of one task leaves the others where they are.                    *)
Elsewhere(t) ==
  /\ UNCHANGED <<original, key, cast>>
  /\ \A u \in DOMAIN step : u # t => step'[u] = step[u] /\ local'[u] = local[u]

LEMMA Continues ==
  ASSUME ArrayTypes, NEW t \in cast.sorters \cup cast.readers,
         NEW to \in Positions, NEW l \in Locals,
         NEW array \in [0 .. n - 1 -> Range(original)],
         Continue(t, to, l, array)
  PROVE  /\ ArrayTypes' /\ Elsewhere(t) /\ n' = n
         /\ step'[t] = to /\ local'[t] = l /\ arr' = array
  <1>1. UNCHANGED <<original, key, cast>> /\ arr' = array  BY DEF Continue
  <1>2. n' = n  BY <1>1 DEF n
  <1>3. /\ step' = [step EXCEPT ![t] = to]
        /\ local' = [local EXCEPT ![t] = l]
        BY DEF Continue
  <1>4. /\ step' \in [cast.sorters \cup cast.readers -> Positions]
        /\ local' \in [cast.sorters \cup cast.readers -> Locals]
        /\ step'[t] = to /\ local'[t] = l
        /\ \A u \in DOMAIN step : u # t => step'[u] = step[u] /\ local'[u] = local[u]
        <2> HIDE DEF Positions, Locals
        <2> QED  BY <1>3 DEF ArrayTypes
  <1>5. Elsewhere(t)  BY <1>1, <1>4 DEF Elsewhere
  <1>6. ArrayTypes'
        <2> HIDE DEF Positions, Locals, n
        <2> QED  BY <1>1, <1>2, <1>4 DEF ArrayTypes
  <1> QED  BY <1>1, <1>2, <1>4, <1>5, <1>6

(* What the step of a sorter keeps.                                        *)
SorterStep(t) ==
  /\ ArrayTypes' /\ Elsewhere(t)
  /\ SorterInPlace(t)'
  /\ SorterKnows(t) => SorterKnows(t)'

LEMMA InNumbers ==
  ASSUME ArrayTypes
  PROVE  /\ n \in Nat \ {0} /\ n < WordRange /\ WordRange \in Nat \ {0}
         /\ key \in Nat /\ Range(original) \subseteq Nat
         /\ \A k \in 0 .. n - 1 : arr[k] \in Range(original) /\ arr[k] \in Nat
  <1>1. /\ original \in Arrays /\ key \in Keys
        /\ arr \in [0 .. n - 1 -> Range(original)]
        BY DEF ArrayTypes
  <1>2. /\ n \in 1 .. WordRange - 1 /\ Range(original) \subseteq Nat
        BY <1>1, ArraysBeginAtZero
  <1>3. WordRange \in Nat \ {0} /\ key \in Nat  BY <1>1, ArrayAssumption
  <1> QED  BY <1>1, <1>2, <1>3

LEMMA PassStep ==
  ASSUME ArrayTypes, NEW t \in cast.sorters, SorterInPlace(t), Pass(t)
  PROVE  SorterStep(t)
  <1> DEFINE l == [local[t] EXCEPT !.i = 0, !.swapped = FALSE]
  <1>1. step[t] = "pass" /\ Continue(t, "compare", l, arr)  BY DEF Pass
  <1>2. l \in Locals /\ l.i = 0 /\ l.swapped = FALSE
        BY DEF ArrayTypes, Locals
  <1>3. "compare" \in Positions  BY DEF Positions
  <1>4. arr \in [0 .. n - 1 -> Range(original)]  BY DEF ArrayTypes
  <1> HIDE DEF l
  <1>5. /\ ArrayTypes' /\ Elsewhere(t) /\ n' = n
        /\ step'[t] = "compare" /\ local'[t] = l /\ arr' = arr
        BY <1>1, <1>2, <1>3, <1>4, Continues
  <1>6. SorterInPlace(t)'
        <2>1. 0 <= n - 1  BY InNumbers
        <2> QED  BY <1>2, <1>5, <2>1 DEF SorterInPlace
  <1>7. ASSUME SorterKnows(t) PROVE SorterKnows(t)'
        <2>1. Whole(t) = arr /\ Whole(t)' = arr  BY <1>1, <1>5 DEF Whole
        <2>2. SameValues(arr)  BY <1>7, <2>1 DEF SorterKnows
        <2>3. UNCHANGED <<original, key>>  BY <1>5 DEF Elsewhere
        <2>4. SameValues(Whole(t))'
              BY <2>1, <2>2, <2>3 DEF SameValues, Values, Occurs
        <2>5. arr[0] \in Nat  BY InNumbers
        <2>6. SortedUpTo(0)  BY <2>5 DEF SortedUpTo
        <2>7. SortedUpTo(local[t].i)'  BY <1>2, <1>5, <2>6 DEF SortedUpTo
        <2> QED  BY <1>5, <2>4, <2>7 DEF SorterKnows
  <1> QED  BY <1>5, <1>6, <1>7 DEF SorterStep

(* A step of the comparison changes nothing but where the sorter is.       *)
LEMMA LooksOn ==
  ASSUME ArrayTypes, NEW t \in cast.sorters, Whole(t) = arr,
         NEW to \in {"against", "take", "compare", "pass", "probe"}, NEW m \in Locals,
         Continue(t, to, m, arr), m.i \in Nat,
         to \in {"against", "take", "compare"} => m.i <= n - 1,
         to \in {"against", "take"} => m.i < n - 1,
         SorterKnows(t) /\ to = "against" => m.read = arr[m.i],
         SorterKnows(t) /\ to \in {"compare", "against"} /\ ~m.swapped => SortedUpTo(m.i),
         SorterKnows(t) /\ to = "probe" => SortedUpTo(n - 1) /\ Narrowed(m)
  PROVE  SorterStep(t)
  <1>1. to \in Positions  BY DEF Positions
  <1>2. arr \in [0 .. n - 1 -> Range(original)]  BY DEF ArrayTypes
  <1>3. /\ ArrayTypes' /\ Elsewhere(t) /\ n' = n
        /\ step'[t] = to /\ local'[t] = m /\ arr' = arr
        BY <1>1, <1>2, Continues
  <1>4. SorterInPlace(t)'  BY <1>3 DEF SorterInPlace
  <1>5. ASSUME SorterKnows(t) PROVE SorterKnows(t)'
        <2>1. Whole(t)' = arr  BY <1>3 DEF Whole
        <2>2. SameValues(arr)  BY <1>5 DEF SorterKnows
        <2>3. UNCHANGED <<original, key>>  BY <1>3 DEF Elsewhere
        <2>4. SameValues(Whole(t))'
              BY <2>1, <2>2, <2>3 DEF SameValues, Values, Occurs
        <2>5. step'[t] \in {"compare", "against"} /\ ~local'[t].swapped
                => SortedUpTo(local[t].i)'
              BY <1>3, <1>5 DEF SortedUpTo
        <2>6. step'[t] = "probe" => SortedUpTo(n - 1)' /\ Narrowed(local[t])'
              BY <1>3, <1>5, <2>3 DEF SortedUpTo, Narrowed
        <2>7. step'[t] = "against" => local'[t].read = arr'[local'[t].i]
              BY <1>3, <1>5
        <2> QED  BY <1>3, <2>4, <2>5, <2>6, <2>7 DEF SorterKnows
  <1> QED  BY <1>3, <1>4, <1>5 DEF SorterStep

LEMMA CompareStep ==
  ASSUME ArrayTypes, NEW t \in cast.sorters, SorterInPlace(t), Compare(t)
  PROVE  SorterStep(t)
  <1> DEFINE l == local[t]
  <1>1. /\ step[t] = "compare" /\ l \in Locals /\ l.i \in Nat /\ l.i <= n - 1
        /\ Whole(t) = arr
        BY DEF Compare, SorterInPlace, ArrayTypes, Locals, Whole
  <1>2. CASE l.i < n - 1 /\ Continue(t, "against", [l EXCEPT !.read = arr[l.i]], arr)
        <2> DEFINE m == [l EXCEPT !.read = arr[l.i]]
        <2>1. arr[l.i] \in Nat  BY <1>1, <1>2, InNumbers
        <2>2. /\ m \in Locals /\ m.i = l.i /\ m.swapped = l.swapped
              /\ m.read = arr[l.i]
              BY <1>1, <2>1 DEF Locals
        <2>3. SorterKnows(t) /\ ~l.swapped => SortedUpTo(l.i)  BY <1>1 DEF SorterKnows
        <2>4. Continue(t, "against", m, arr)  BY <1>2
        <2> HIDE DEF m, l
        <2> QED  BY <1>1, <1>2, <2>2, <2>3, <2>4, LooksOn
  <1>3. CASE l.i >= n - 1 /\ l.swapped /\ Continue(t, "pass", l, arr)
        BY <1>1, <1>3, LooksOn
  <1> QED  BY <1>2, <1>3 DEF Compare

LEMMA AgainstStep ==
  ASSUME ArrayTypes, NEW t \in cast.sorters, SorterInPlace(t), Against(t)
  PROVE  SorterStep(t)
  <1> DEFINE l == local[t]
  <1>1. /\ step[t] = "against" /\ l \in Locals /\ l.i \in Nat /\ l.i < n - 1
        /\ l.i <= n - 1 /\ Whole(t) = arr
        BY DEF Against, SorterInPlace, ArrayTypes, Locals, Whole
  <1>2. /\ n \in Nat \ {0} /\ \A k \in 0 .. n - 1 : arr[k] \in Nat
        BY InNumbers
  <1>3. CASE Continue(t, "take", l, arr)
        BY <1>1, <1>3, LooksOn
  <1>4. CASE l.read <= arr[l.i + 1] /\ Continue(t, "compare", [l EXCEPT !.i = @ + 1], arr)
        <2> DEFINE m == [l EXCEPT !.i = @ + 1]
        <2>1. m \in Locals /\ m.i = l.i + 1 /\ m.swapped = l.swapped
              BY <1>1 DEF Locals
        <2>2. ASSUME SorterKnows(t), ~m.swapped PROVE SortedUpTo(m.i)
              <3>1. SortedUpTo(l.i) /\ l.read = arr[l.i]
                    BY <1>1, <2>1, <2>2 DEF SorterKnows
              <3> SUFFICES ASSUME NEW j \in 0 .. l.i + 1, NEW k \in 0 .. l.i + 1, j <= k
                           PROVE  arr[j] <= arr[k]
                    BY <2>1 DEF SortedUpTo
              <3>3. arr[j] \in Nat /\ arr[k] \in Nat /\ arr[l.i] \in Nat
                    BY <1>1, <1>2
              <3>4. CASE k <= l.i
                    <4>1. j \in 0 .. l.i /\ k \in 0 .. l.i  BY <1>1, <3>4
                    <4> QED  BY <4>1, <3>1 DEF SortedUpTo
              <3>5. CASE k = l.i + 1 /\ j = k  BY <3>3, <3>5
              <3>6. CASE k = l.i + 1 /\ j <= l.i
                    <4>1. arr[j] <= arr[l.i]  BY <1>1, <3>1, <3>6 DEF SortedUpTo
                    <4> QED  BY <4>1, <1>4, <3>1, <3>3, <3>6
              <3> QED  BY <1>1, <3>4, <3>5, <3>6
        <2> HIDE DEF m
        <2>3. Continue(t, "compare", m, arr)  BY <1>4 DEF m
        <2>4. m.i \in Nat /\ m.i <= n - 1  BY <1>1, <1>2, <2>1
        <2> QED  BY <2>1, <2>2, <2>3, <2>4, <1>1, LooksOn
  <1> QED  BY <1>3, <1>4 DEF Against

LEMMA SortedStep ==
  ASSUME ArrayTypes, NEW t \in cast.sorters, SorterInPlace(t), Sorted(t)
  PROVE  SorterStep(t)
  <1> DEFINE l == local[t]
             m == [l EXCEPT !.low = 0, !.high = n - 1]
  <1>1. /\ step[t] = "compare" /\ l \in Locals /\ l.i \in Nat /\ l.i <= n - 1
        /\ l.i >= n - 1 /\ ~l.swapped /\ Whole(t) = arr
        /\ Continue(t, "probe", m, arr)
        BY DEF Sorted, SorterInPlace, ArrayTypes, Locals, Whole
  <1>2. n \in Nat \ {0} /\ n - 1 \in Nat  BY InNumbers
  <1>3. m \in Locals /\ m.low = 0 /\ m.high = n - 1 /\ m.i \in Nat
        BY <1>1, <1>2 DEF Locals
  <1>4. ASSUME SorterKnows(t) PROVE SortedUpTo(n - 1)
        <2>1. l.i = n - 1  BY <1>1, <1>2
        <2> QED  BY <2>1, <1>1, <1>4 DEF SorterKnows
  <1>5. Narrowed(m)  BY <1>3, <1>2 DEF Narrowed
  <1> HIDE DEF m
  <1> QED  BY <1>1, <1>3, <1>4, <1>5, LooksOn

LEMMA TakeStep ==
  ASSUME ArrayTypes, NEW t \in cast.sorters, SorterInPlace(t), Take(t)
  PROVE  SorterStep(t)
  <1> DEFINE m == [local[t] EXCEPT !.temp = arr[local[t].i]]
  <1>1. /\ step[t] = "take" /\ Continue(t, "move", m, arr)
        /\ local[t] \in Locals /\ local[t].i \in Nat /\ local[t].i < n - 1
        BY DEF Take, SorterInPlace, ArrayTypes, Locals
  <1>2. arr[local[t].i] \in Range(original) /\ arr[local[t].i] \in Nat
        BY <1>1, InNumbers
  <1>3. m \in Locals /\ m.i = local[t].i /\ m.temp = arr[local[t].i]
        BY <1>1, <1>2 DEF Locals
  <1>4. "move" \in Positions  BY DEF Positions
  <1>5. arr \in [0 .. n - 1 -> Range(original)]  BY DEF ArrayTypes
  <1> HIDE DEF m
  <1>6. /\ ArrayTypes' /\ Elsewhere(t) /\ n' = n
        /\ step'[t] = "move" /\ local'[t] = m /\ arr' = arr
        BY <1>1, <1>3, <1>4, <1>5, Continues
  <1>7. UNCHANGED <<original, key>>  BY <1>6 DEF Elsewhere
  <1>8. SorterInPlace(t)'
        <2>1. m.i <= n - 1  BY <1>1, <1>3, InNumbers
        <2> QED  BY <1>1, <1>2, <1>3, <1>6, <1>7, <2>1 DEF SorterInPlace, Range
  <1>9. ASSUME SorterKnows(t) PROVE SorterKnows(t)'
        <2>1. Whole(t) = arr /\ Whole(t)' = arr  BY <1>1, <1>6 DEF Whole
        <2>2. SameValues(arr)  BY <1>9, <2>1 DEF SorterKnows
        <2>3. SameValues(Whole(t))'
              BY <2>1, <2>2, <1>7 DEF SameValues, Values, Occurs
        <2>4. local'[t].temp = arr'[local'[t].i]  BY <1>3, <1>6
        <2> QED  BY <1>6, <2>3, <2>4 DEF SorterKnows
  <1> QED  BY <1>6, <1>8, <1>9 DEF SorterStep

LEMMA MoveStep ==
  ASSUME ArrayTypes, NEW t \in cast.sorters, SorterInPlace(t), Move(t)
  PROVE  SorterStep(t)
  <1> DEFINE l == local[t]
             moved == [arr EXCEPT ![l.i] = arr[l.i + 1]]
  <1>1. /\ step[t] = "move" /\ Continue(t, "put", l, moved)
        /\ l \in Locals /\ l.i \in Nat /\ l.i < n - 1 /\ l.temp \in Range(original)
        BY DEF Move, SorterInPlace, ArrayTypes, Locals
  <1>2. /\ l.i \in 0 .. n - 1 /\ l.i + 1 \in 0 .. n - 1 /\ l.i # l.i + 1
        /\ n \in Nat
        BY <1>1, InNumbers
  <1>3. arr \in [0 .. n - 1 -> Range(original)]  BY DEF ArrayTypes
  <1>4. moved \in [0 .. n - 1 -> Range(original)]  BY <1>2, <1>3
  <1>5. "put" \in Positions  BY DEF Positions
  <1> HIDE DEF moved, l
  <1>6. /\ ArrayTypes' /\ Elsewhere(t) /\ n' = n
        /\ step'[t] = "put" /\ local'[t] = l /\ arr' = moved
        BY <1>1, <1>4, <1>5, Continues
  <1>7. UNCHANGED <<original, key>>  BY <1>6 DEF Elsewhere
  <1>8. SorterInPlace(t)'
        <2>1. l.i <= n - 1  BY <1>2
        <2> QED  BY <1>1, <1>6, <1>7, <2>1 DEF SorterInPlace, Range
  <1>9. ASSUME SorterKnows(t) PROVE SorterKnows(t)'
        <2>1. l.temp = arr[l.i]  BY <1>1, <1>9 DEF SorterKnows, l
        <2>2. Whole(t) = arr  BY <1>1 DEF Whole
        <2>3. SameValues(arr)  BY <1>9, <2>2 DEF SorterKnows
        <2> DEFINE swapped == [arr EXCEPT ![l.i] = arr[l.i + 1], ![l.i + 1] = arr[l.i]]
        <2>4. Whole(t)' = swapped
              <3>1. Whole(t)' = [moved EXCEPT ![l.i + 1] = l.temp]
                    BY <1>6 DEF Whole
              <3>2. [moved EXCEPT ![l.i + 1] = l.temp] = swapped
                    BY <1>2, <1>3, <2>1 DEF moved
              <3> QED  BY <3>1, <3>2
        <2>5. \A v : Occurs(swapped, v) = Occurs(arr, v)
              <3>1. DOMAIN arr = 0 .. n - 1  BY <1>3
              <3> DEFINE i == l.i
                         j == l.i + 1
              <3>2. i \in 0 .. n - 1 /\ j \in 0 .. n - 1 /\ i # j /\ n \in Nat
                    BY <1>2
              <3>3. ElementsSwapped(n, arr, swapped, i, j)
                    BY <3>1, <3>2 DEF ElementsSwapped
              <3> HIDE DEF i, j, swapped
              <3> QED  BY <3>3, SwapKeepsValues
        <2> HIDE DEF swapped
        <2>6. SameValues(swapped)  BY <2>3, <2>5 DEF SameValues
        <2>7. SameValues(Whole(t))'
              BY <2>4, <2>6, <1>7 DEF SameValues, Values, Occurs
        <2> QED  BY <1>6, <2>7 DEF SorterKnows
  <1> QED  BY <1>6, <1>8, <1>9 DEF SorterStep

LEMMA PutStep ==
  ASSUME ArrayTypes, NEW t \in cast.sorters, SorterInPlace(t), Put(t)
  PROVE  SorterStep(t)
  <1> DEFINE l == local[t]
             m == [l EXCEPT !.i = @ + 1, !.swapped = TRUE]
             whole == [arr EXCEPT ![l.i + 1] = l.temp]
  <1>1. /\ step[t] = "put" /\ Continue(t, "compare", m, whole)
        /\ l \in Locals /\ l.i \in Nat /\ l.i < n - 1 /\ l.temp \in Range(original)
        BY DEF Put, SorterInPlace, ArrayTypes, Locals
  <1>2. l.i + 1 \in 0 .. n - 1 /\ l.i + 1 <= n - 1  BY <1>1, InNumbers
  <1>3. arr \in [0 .. n - 1 -> Range(original)]  BY DEF ArrayTypes
  <1>4. whole \in [0 .. n - 1 -> Range(original)]  BY <1>1, <1>2, <1>3
  <1>5. "compare" \in Positions  BY DEF Positions
  <1>6. m \in Locals /\ m.i = l.i + 1 /\ m.swapped = TRUE
        <2>1. l \in Locals /\ l.i \in Nat  BY <1>1
        <2> DEFINE next == l.i + 1
        <2>2. next \in Nat  BY <2>1
        <2>3. m = [l EXCEPT !.i = next, !.swapped = TRUE]  OBVIOUS
        <2> HIDE DEF l, m, next
        <2>4. m \in Locals /\ m.i = next /\ m.swapped = TRUE
              BY <2>1, <2>2, <2>3 DEF Locals
        <2> QED  BY <2>4 DEF next
  <1>7. Whole(t) = whole  BY <1>1 DEF Whole
  <1> HIDE DEF l, m, whole
  <1>8. /\ ArrayTypes' /\ Elsewhere(t) /\ n' = n
        /\ step'[t] = "compare" /\ local'[t] = m /\ arr' = whole
        BY <1>1, <1>4, <1>5, <1>6, Continues
  <1>9. UNCHANGED <<original, key>>  BY <1>8 DEF Elsewhere
  <1>10. SorterInPlace(t)'  BY <1>2, <1>6, <1>8 DEF SorterInPlace
  <1>11. ASSUME SorterKnows(t) PROVE SorterKnows(t)'
         <2>1. SameValues(whole)  BY <1>7, <1>11 DEF SorterKnows
         <2>2. Whole(t)' = whole  BY <1>8 DEF Whole
         <2>3. SameValues(Whole(t))'
               BY <2>1, <2>2, <1>9 DEF SameValues, Values, Occurs
         <2> QED  BY <1>6, <1>8, <2>3 DEF SorterKnows
  <1> QED  BY <1>8, <1>10, <1>11 DEF SorterStep

(* A number that fits into a word is its word.                             *)
LEMMA WordIsNat ==
  ASSUME NEW x \in Int
  PROVE  /\ Word(x) \in Nat
         /\ 0 <= x /\ x < WordRange => Word(x) = x
  <1>1. WordRange \in Nat \ {0}  BY ArrayAssumption
  <1>2. x % WordRange \in Nat  BY <1>1
  <1>3. 0 <= x /\ x < WordRange => x % WordRange = x  BY <1>1
  <1> QED  BY <1>2, <1>3 DEF Word

(* The middle of a part of the array is in that part.                      *)
LEMMA MidIsBetween ==
  ASSUME NEW l \in Locals, l.low <= l.high
  PROVE  /\ Mid(l) \in Nat
         /\ l.high < WordRange => l.low <= Mid(l) /\ Mid(l) <= l.high
  <1> DEFINE d == l.high - l.low
             h == d \div 2
  <1>1. l.low \in Nat /\ l.high \in Nat  BY DEF Locals
  <1>2. d \in Nat  BY <1>1
  <1>3. Word(d) \in Nat /\ Word(d) \div 2 \in Nat /\ Word(d) \div 2 <= Word(d)
        <2>1. d \in Int  BY <1>2
        <2>2. Word(d) \in Nat  BY <2>1, WordIsNat
        <2> QED  BY <2>2
  <1>4. l.low + Word(d) \div 2 \in Int  BY <1>1, <1>3
  <1>5. Mid(l) = Word(l.low + Word(d) \div 2)  BY DEF Mid
  <1>6. Mid(l) \in Nat  BY <1>4, <1>5, WordIsNat
  <1>7. ASSUME l.high < WordRange PROVE l.low <= Mid(l) /\ Mid(l) <= l.high
        <2>0. WordRange \in Nat  BY ArrayAssumption
        <2>1. d < WordRange  BY <1>1, <1>7, <2>0
        <2>2. Word(d) = d  BY <1>2, <2>1, WordIsNat
        <2>3. h \in Nat /\ h <= d  BY <1>2
        <2>4. l.low + h <= l.high  BY <1>1, <2>3
        <2>5. l.low + h \in Nat /\ l.low + h < WordRange
              BY <1>1, <2>0, <2>3, <2>4, <1>7
        <2>6. Mid(l) = l.low + h
              <3> HIDE DEF d, h
              <3>1. Mid(l) = Word(l.low + h)  BY <1>5, <2>2 DEF h
              <3> QED  BY <2>5, <3>1, WordIsNat
        <2> HIDE DEF h
        <2> QED  BY <1>1, <2>3, <2>4, <2>6
  <1> QED  BY <1>6, <1>7

(* What the only sorter may conclude from the element in the middle.       *)
LEMMA MiddleSplits ==
  ASSUME ArrayTypes, NEW t \in cast.sorters, SorterKnows(t), KeyIsNotBelow,
         step[t] \in {"probe", "aside"}, local[t].low <= local[t].high
  PROVE  LET mid == Mid(local[t])
         IN  /\ mid \in 0 .. n - 1
             /\ arr[mid] < key =>
                  \A j \in 0 .. n - 1 : j < mid + 1 => arr[j] < key
             /\ arr[mid] > key =>
                  mid > 0 /\ \A j \in 0 .. n - 1 : j > mid - 1 => arr[j] > key
  <1> DEFINE l == local[t]
             mid == Mid(l)
  <1>1. l \in Locals /\ l.low \in Nat /\ l.high \in Nat /\ l.low <= l.high
        BY DEF ArrayTypes, Locals
  <1>2. SortedUpTo(n - 1) /\ Narrowed(l)  BY DEF SorterKnows
  <1>3. l.high <= n - 1  BY <1>2 DEF Narrowed
  <1>4. /\ n \in Nat \ {0} /\ n < WordRange /\ WordRange \in Nat /\ key \in Nat
        /\ \A k \in 0 .. n - 1 : arr[k] \in Nat
        BY InNumbers
  <1>5. l.high < WordRange  BY <1>1, <1>3, <1>4
  <1>6. mid \in Nat /\ l.low <= mid /\ mid <= l.high
        <2> HIDE DEF l
        <2> QED  BY <1>1, <1>5, MidIsBetween
  <1> HIDE DEF l, mid
  <1>7. mid \in 0 .. n - 1  BY <1>1, <1>3, <1>4, <1>6
  <1>8. ASSUME arr[mid] < key, NEW j \in 0 .. n - 1, j < mid + 1
        PROVE  arr[j] < key
        <2>1. j <= mid  BY <1>7, <1>8
        <2>2. arr[j] <= arr[mid]  BY <1>2, <1>7, <2>1 DEF SortedUpTo
        <2> QED  BY <2>2, <1>4, <1>7, <1>8
  <1>9. ASSUME arr[mid] > key PROVE mid > 0
        <2>1. DOMAIN original = 0 .. n - 1 /\ original \in [0 .. n - 1 -> Nat]
              BY ArraysBeginAtZero DEF ArrayTypes
        <2>2. PICK i \in 0 .. n - 1 : original[i] <= key
              BY <2>1 DEF KeyIsNotBelow
        <2>3. original[i] \in Range(original)  BY <2>1 DEF Range
        <2>4. Whole(t) = arr  BY DEF Whole
        <2>5. SameValues(arr)  BY <2>4 DEF SorterKnows
        <2>6. Range(arr) = Range(original)
              BY <2>5, SameValuesSameRange DEF ArrayTypes
        <2>7. PICK k \in 0 .. n - 1 : arr[k] = original[i]
              BY <2>3, <2>6 DEF Range, ArrayTypes
        <2>8. 0 \in 0 .. n - 1 /\ 0 <= k  BY <1>4
        <2>9. arr[0] <= arr[k]  BY <1>2, <2>8 DEF SortedUpTo
        <2>10. arr[0] <= key  BY <2>2, <2>7, <2>8, <2>9, <1>4
        <2>11. mid # 0  BY <1>4, <1>9, <2>8, <2>10
        <2> QED  BY <1>7, <2>11
  <1>10. ASSUME arr[mid] > key, NEW j \in 0 .. n - 1, j > mid - 1
         PROVE  arr[j] > key
         <2>1. mid <= j  BY <1>7, <1>10
         <2>2. arr[mid] <= arr[j]  BY <1>2, <1>7, <2>1 DEF SortedUpTo
         <2> QED  BY <2>2, <1>4, <1>7, <1>10
  <1> QED  BY <1>7, <1>8, <1>9, <1>10 DEF l, mid

(* The key is in none of the places that the search has left out.          *)
LEMMA NothingLeft ==
  ASSUME ArrayTypes, NEW t \in cast.sorters, SorterKnows(t),
         step[t] = "probe", local[t].low > local[t].high
  PROVE  key \notin Range(original)
  <1>1. /\ n \in Nat \ {0} /\ key \in Nat
        /\ \A k \in 0 .. n - 1 : arr[k] \in Nat
        BY InNumbers
  <1>2. local[t].low \in Nat /\ local[t].high \in Nat  BY DEF ArrayTypes, Locals
  <1>3. DOMAIN original = 0 .. n - 1 /\ original \in [0 .. n - 1 -> Nat]
        BY ArraysBeginAtZero DEF ArrayTypes
  <1>4. CASE ~KeyIsNotBelow
        BY <1>1, <1>3, <1>4 DEF KeyIsNotBelow, Range
  <1>5. CASE KeyIsNotBelow
        <2>1. Narrowed(local[t])  BY <1>5 DEF SorterKnows
        <2>2. Whole(t) = arr  BY DEF Whole
        <2>3. SameValues(arr)  BY <2>2 DEF SorterKnows
        <2>4. Range(arr) = Range(original)
              BY <2>3, SameValuesSameRange DEF ArrayTypes
        <2>5. ASSUME NEW j \in 0 .. n - 1 PROVE arr[j] # key
              <3>1. j < local[t].low \/ j > local[t].high  BY <1>2
              <3>2. arr[j] < key \/ arr[j] > key  BY <3>1, <2>1 DEF Narrowed
              <3> QED  BY <3>2, <1>1
        <2>6. DOMAIN arr = 0 .. n - 1  BY DEF ArrayTypes
        <2> QED  BY <2>4, <2>5, <2>6 DEF Range
  <1> QED  BY <1>4, <1>5

(* A step of the search changes nothing but where the sorter is.           *)
LEMMA SearchesOn ==
  ASSUME ArrayTypes, NEW t \in cast.sorters, step[t] \in {"probe", "aside"},
         NEW to \in {"probe", "aside", "found", "missing"}, NEW m \in Locals,
         Continue(t, to, m, arr),
         to = "aside" => m.low <= m.high,
         SorterKnows(t) /\ to \in {"probe", "aside"} /\ KeyIsNotBelow => Narrowed(m),
         SorterKnows(t) /\ to = "aside" /\ KeyIsNotBelow => arr[Mid(m)] # key,
         SorterKnows(t) /\ to = "found" /\ KeyIsNotBelow => key \in Range(original),
         SorterKnows(t) /\ to = "missing" => key \notin Range(original)
  PROVE  SorterStep(t)
  <1>1. to \in Positions /\ to \in {"probe", "aside"} \cup Answers
        BY DEF Positions, Answers
  <1>2. arr \in [0 .. n - 1 -> Range(original)]  BY DEF ArrayTypes
  <1>3. /\ ArrayTypes' /\ Elsewhere(t) /\ n' = n
        /\ step'[t] = to /\ local'[t] = m /\ arr' = arr
        BY <1>1, <1>2, Continues
  <1>4. SorterInPlace(t)'  BY <1>3 DEF SorterInPlace
  <1>5. UNCHANGED <<original, key>>  BY <1>3 DEF Elsewhere
  <1>6. KeyIsNotBelow' = KeyIsNotBelow  BY <1>5 DEF KeyIsNotBelow
  <1>7. ASSUME SorterKnows(t) PROVE SorterKnows(t)'
        <2>1. Whole(t) = arr /\ Whole(t)' = arr  BY <1>3 DEF Whole
        <2>2. SameValues(arr)  BY <1>7, <2>1 DEF SorterKnows
        <2>3. SameValues(Whole(t))'
              BY <2>1, <2>2, <1>5 DEF SameValues, Values, Occurs
        <2>4. KeyIsNotBelow' => SortedUpTo(n - 1)'
              <3>1. KeyIsNotBelow => SortedUpTo(n - 1)  BY <1>7 DEF SorterKnows
              <3> QED  BY <3>1, <1>3, <1>6 DEF SortedUpTo
        <2>5. step'[t] \in {"probe", "aside"} /\ KeyIsNotBelow' => Narrowed(local[t])'
              BY <1>3, <1>5, <1>6, <1>7 DEF Narrowed
        <2>6. /\ step'[t] = "found" /\ KeyIsNotBelow' => key' \in Range(original')
              /\ step'[t] = "missing" => key' \notin Range(original')
              BY <1>3, <1>5, <1>6, <1>7
        <2>7. step'[t] = "aside" /\ KeyIsNotBelow' => arr'[Mid(local'[t])] # key'
              BY <1>3, <1>5, <1>6, <1>7
        <2> QED  BY <1>3, <2>3, <2>4, <2>5, <2>6, <2>7 DEF SorterKnows
  <1> QED  BY <1>3, <1>4, <1>7 DEF SorterStep

(* What the search reads in the middle.                                    *)
LEMMA ReadsInside ==
  ASSUME ArrayTypes, NEW t \in cast.sorters, NEW l, l = local[t], l.low <= l.high,
         step[t] \in {"probe", "aside"}, NEW value \in ReadAt(Mid(l))
  PROVE  /\ Mid(l) \in Nat /\ value \in Nat
         /\ SorterKnows(t) /\ KeyIsNotBelow =>
              /\ Mid(l) \in 0 .. n - 1 /\ value = arr[Mid(l)]
              /\ (value < key => \A j \in 0 .. n - 1 : j < Mid(l) + 1 => arr[j] < key)
              /\ (value > key => /\ Mid(l) > 0
                                 /\ \A j \in 0 .. n - 1 : j > Mid(l) - 1 => arr[j] > key)
  <1> DEFINE mid == Mid(l)
  <1>1. l \in Locals  BY DEF ArrayTypes
  <1>2. /\ n \in Nat \ {0} /\ \A k \in 0 .. n - 1 : arr[k] \in Nat
        BY InNumbers
  <1>3. mid \in Nat  BY <1>1, MidIsBetween
  <1>4. value \in Nat /\ (mid < n => value = arr[mid])
        <2>1. Values \subseteq Nat  BY ArrayAssumption DEF Values, Range
        <2>2. value \in IF mid < n THEN {arr[mid]} ELSE Values
              BY DEF ReadAt
        <2> HIDE DEF mid
        <2>3. CASE mid < n
              <3>1. mid \in 0 .. n - 1  BY <1>2, <1>3, <2>3
              <3> QED  BY <1>2, <2>2, <2>3, <3>1
        <2>4. CASE ~(mid < n)
              BY <2>1, <2>2, <2>4
        <2> QED  BY <2>3, <2>4
  <1>5. ASSUME SorterKnows(t), KeyIsNotBelow
        PROVE  /\ mid \in 0 .. n - 1 /\ value = arr[mid]
               /\ (value < key => \A j \in 0 .. n - 1 : j < mid + 1 => arr[j] < key)
               /\ (value > key => /\ mid > 0
                                  /\ \A j \in 0 .. n - 1 : j > mid - 1 => arr[j] > key)
        <2>1. mid \in 0 .. n - 1  BY <1>5, MiddleSplits
        <2>2. value = arr[mid]  BY <1>2, <1>4, <2>1
        <2> QED  BY <1>5, <2>1, <2>2, MiddleSplits
  <1> QED  BY <1>3, <1>4, <1>5

LEMMA ProbeStep ==
  ASSUME ArrayTypes, NEW t \in cast.sorters, SorterInPlace(t), Probe(t)
  PROVE  SorterStep(t)
  <1> DEFINE l == local[t]
  <1>1. step[t] = "probe" /\ l \in Locals /\ l.low \in Nat /\ l.high \in Nat
        BY DEF Probe, ArrayTypes, Locals
  <1>2. n \in Nat \ {0} /\ \A k \in 0 .. n - 1 : arr[k] \in Range(original)
        BY InNumbers
  <1>3. CASE l.low > l.high /\ Continue(t, "missing", l, arr)
        BY <1>1, <1>3, NothingLeft, SearchesOn
  <1>4. ASSUME l.low <= l.high, NEW value \in ReadAt(Mid(l)),
               Continue(t, IF value = key THEN "found" ELSE "aside", l, arr)
        PROVE  SorterStep(t)
        <2>1. SorterKnows(t) /\ KeyIsNotBelow =>
                /\ Mid(l) \in 0 .. n - 1 /\ value = arr[Mid(l)] /\ Narrowed(l)
              BY <1>1, <1>4, ReadsInside DEF SorterKnows
        <2>2. CASE value = key
              <3>1. Continue(t, "found", l, arr)  BY <1>4, <2>2
              <3>2. SorterKnows(t) /\ KeyIsNotBelow => key \in Range(original)
                    BY <2>1, <2>2, <1>2
              <3> HIDE DEF l
              <3> QED  BY <1>1, <3>1, <3>2, SearchesOn
        <2>3. CASE value # key
              <3>1. Continue(t, "aside", l, arr)  BY <1>4, <2>3
              <3>2. SorterKnows(t) /\ KeyIsNotBelow => arr[Mid(l)] # key /\ Narrowed(l)
                    BY <2>1, <2>3
              <3> HIDE DEF l
              <3> QED  BY <1>1, <1>4, <3>1, <3>2, SearchesOn
        <2> QED  BY <2>2, <2>3
  <1> QED  BY <1>3, <1>4 DEF Probe

LEMMA AsideStep ==
  ASSUME ArrayTypes, NEW t \in cast.sorters, SorterInPlace(t), Aside(t)
  PROVE  SorterStep(t)
  <1> DEFINE l == local[t]
             mid == Mid(l)
  <1>1. /\ step[t] = "aside" /\ l \in Locals /\ l.low \in Nat /\ l.high \in Nat
        /\ l.low <= l.high
        BY DEF Aside, ArrayTypes, Locals, SorterInPlace
  <1>2. n \in Nat \ {0} /\ n < WordRange /\ key \in Nat
        BY InNumbers
  <1>3. PICK value \in ReadAt(mid) :
          \/ /\ value < key
             /\ Continue(t, "probe", [l EXCEPT !.low = Word(mid + 1)], arr)
          \/ /\ value >= key
             /\ Continue(t, "probe", [l EXCEPT !.high = Word(mid - 1)], arr)
        BY DEF Aside
  <1>4. mid \in Nat /\ value \in Nat
        BY <1>1, <1>3, ReadsInside
  <1>5. ASSUME SorterKnows(t), KeyIsNotBelow
        PROVE  /\ Narrowed(l) /\ mid \in 0 .. n - 1 /\ value # key
               /\ (value < key => \A j \in 0 .. n - 1 : j < mid + 1 => arr[j] < key)
               /\ (value > key => /\ mid > 0
                                  /\ \A j \in 0 .. n - 1 : j > mid - 1 => arr[j] > key)
        <2>1. Narrowed(l) /\ arr[mid] # key  BY <1>1, <1>5 DEF SorterKnows
        <2>2. /\ mid \in 0 .. n - 1 /\ value = arr[mid]
              /\ (value < key => \A j \in 0 .. n - 1 : j < mid + 1 => arr[j] < key)
              /\ (value > key => /\ mid > 0
                                 /\ \A j \in 0 .. n - 1 : j > mid - 1 => arr[j] > key)
              BY <1>1, <1>5, ReadsInside
        <2> QED  BY <2>1, <2>2
  <1> HIDE DEF mid
  <1>6. ASSUME value < key, Continue(t, "probe", [l EXCEPT !.low = Word(mid + 1)], arr)
        PROVE  SorterStep(t)
        <2> DEFINE w == Word(mid + 1)
                   m == [l EXCEPT !.low = w]
        <2>1. Continue(t, "probe", m, arr)  BY <1>6
        <2>2. w \in Nat  BY <1>4, WordIsNat
        <2> HIDE DEF w, l
        <2>3. m \in Locals /\ m.low = w /\ m.high = l.high
              BY <1>1, <2>2 DEF Locals
        <2>4. ASSUME SorterKnows(t), KeyIsNotBelow PROVE Narrowed(m)
              <3>1. mid \in 0 .. n - 1 /\ Narrowed(l)  BY <1>5, <2>4
              <3>2. w = mid + 1
                    <4>1. mid + 1 \in Int /\ 0 <= mid + 1 /\ mid + 1 < WordRange
                          BY <3>1, <1>2, ArrayAssumption
                    <4> QED  BY <4>1, WordIsNat DEF w
              <3>3. m.low <= n  BY <2>3, <3>1, <3>2, <1>2
              <3>4. \A j \in 0 .. n - 1 : j < m.low => arr[j] < key
                    BY <1>5, <1>6, <2>3, <2>4, <3>2
              <3> HIDE DEF m
              <3> QED  BY <2>3, <3>1, <3>3, <3>4 DEF Narrowed
        <2> HIDE DEF m
        <2> QED  BY <1>1, <2>1, <2>3, <2>4, SearchesOn
  <1>7. ASSUME value >= key, Continue(t, "probe", [l EXCEPT !.high = Word(mid - 1)], arr)
        PROVE  SorterStep(t)
        <2> DEFINE w == Word(mid - 1)
                   m == [l EXCEPT !.high = w]
        <2>1. Continue(t, "probe", m, arr)  BY <1>7
        <2>2. w \in Nat  BY <1>4, WordIsNat
        <2> HIDE DEF w, l
        <2>3. m \in Locals /\ m.high = w /\ m.low = l.low
              BY <1>1, <2>2 DEF Locals
        <2>4. ASSUME SorterKnows(t), KeyIsNotBelow PROVE Narrowed(m)
              <3>0. value > key  BY <1>2, <1>4, <1>5, <1>7, <2>4
              <3>1. mid \in 0 .. n - 1 /\ mid > 0 /\ Narrowed(l)  BY <1>5, <2>4, <3>0
              <3>2. w = mid - 1
                    <4>1. mid - 1 \in Int /\ 0 <= mid - 1 /\ mid - 1 < WordRange
                          BY <3>1, <1>2, ArrayAssumption
                    <4> QED  BY <4>1, WordIsNat DEF w
              <3>3. m.high <= n - 1  BY <2>3, <3>1, <3>2, <1>2
              <3>4. \A j \in 0 .. n - 1 : j > m.high => arr[j] > key
                    BY <1>5, <2>3, <2>4, <3>0, <3>2
              <3> HIDE DEF m
              <3> QED  BY <2>3, <3>1, <3>3, <3>4 DEF Narrowed
        <2> HIDE DEF m
        <2> QED  BY <1>1, <2>1, <2>3, <2>4, SearchesOn
  <1> QED  BY <1>3, <1>6, <1>7

(* Every step of binary_search keeps what holds of its task.               *)
LEMMA SorterSteps ==
  ASSUME ArrayTypes, NEW t \in cast.sorters, SorterInPlace(t), BinarySearch(t)
  PROVE  SorterStep(t)
  BY PassStep, CompareStep, AgainstStep, TakeStep, MoveStep, PutStep, SortedStep,
     ProbeStep, AsideStep DEF BinarySearch

-----------------------------------------------------------------------------
(* One step of a reader, and the induction                                 *)

LEMMA ReaderStep ==
  ASSUME ArrayTypes, NEW t \in cast.readers \ cast.sorters, ReaderInPlace(t),
         LinearSearch(t)
  PROVE  ArrayTypes' /\ Elsewhere(t) /\ ReaderInPlace(t)' /\ arr' = arr
  <1> DEFINE l == local[t]
  <1>1. step[t] = "scan" /\ l \in Locals /\ l.i \in Nat
        BY DEF LinearSearch, ArrayTypes, Locals
  <1>2. \A to \in {"scan", "found", "missing"} : to \in Positions /\ to \in {"scan"} \cup Answers
        BY DEF Positions, Answers
  <1>3. arr \in [0 .. n - 1 -> Range(original)]  BY DEF ArrayTypes
  <1>4. ASSUME NEW to \in {"scan", "found", "missing"}, NEW m \in Locals,
               Continue(t, to, m, arr), to = "found" => key \in Range(original)
        PROVE  ArrayTypes' /\ Elsewhere(t) /\ ReaderInPlace(t)' /\ arr' = arr
        <2>1. /\ ArrayTypes' /\ Elsewhere(t)
              /\ step'[t] = to /\ arr' = arr
              BY <1>2, <1>3, <1>4, Continues
        <2>2. UNCHANGED <<original, key>>  BY <2>1 DEF Elsewhere
        <2>3. ReaderInPlace(t)'
              BY <1>2, <1>4, <2>1, <2>2 DEF ReaderInPlace, Range, Answers
        <2> QED  BY <2>1, <2>3
  <1>5. CASE l.i < n /\ arr[l.i] = key /\ Continue(t, "found", l, arr)
        <2>1. key \in Range(original)  BY <1>1, <1>5, InNumbers
        <2> QED  BY <1>1, <1>4, <1>5, <2>1
  <1>6. CASE Continue(t, "scan", [l EXCEPT !.i = @ + 1], arr)
        <2> DEFINE i == l.i + 1
                   m == [l EXCEPT !.i = i]
        <2>1. i \in Nat /\ Continue(t, "scan", m, arr)  BY <1>1, <1>6
        <2> HIDE DEF i, l
        <2>2. m \in Locals  BY <1>1, <2>1 DEF Locals
        <2> HIDE DEF m
        <2> QED  BY <1>4, <2>1, <2>2
  <1>7. CASE Continue(t, "missing", l, arr)
        BY <1>1, <1>4, <1>7
  <1> QED  BY <1>5, <1>6, <1>7 DEF LinearSearch

LEMMA InvAtInit == ArrayInit => ArrayInv
  <1> SUFFICES ASSUME ArrayInit PROVE ArrayInv
      OBVIOUS
  <1>1. /\ original \in Arrays /\ arr = original /\ key \in Keys /\ cast \in Casts
        /\ step = [t \in cast.sorters \cup cast.readers |->
                     IF t \in cast.sorters THEN "pass" ELSE "scan"]
        /\ local = [t \in DOMAIN step |->
                      [i |-> 0, swapped |-> FALSE, read |-> 0, temp |-> 0, low |-> 0,
                       high |-> 0]]
        BY DEF ArrayInit
  <1>2. arr \in [0 .. n - 1 -> Range(original)]
        BY <1>1, ArraysBeginAtZero DEF Range
  <1>3. step \in [cast.sorters \cup cast.readers -> Positions]
        BY <1>1 DEF Positions
  <1>4. [i |-> 0, swapped |-> FALSE, read |-> 0, temp |-> 0, low |-> 0,
                       high |-> 0] \in Locals
        BY DEF Locals
  <1>5. local \in [cast.sorters \cup cast.readers -> Locals]
        <2> HIDE DEF Locals
        <2> QED  BY <1>1, <1>4
  <1>6. ArrayTypes  BY <1>1, <1>2, <1>3, <1>5 DEF ArrayTypes
  <1>7. \A t \in cast.sorters : step[t] = "pass"  BY <1>1
  <1>8. \A t \in cast.readers \ cast.sorters : step[t] = "scan"  BY <1>1
  <1>9. ASSUME NEW t \in cast.sorters PROVE SorterInPlace(t) /\ SorterKnows(t)
        <2>1. step[t] = "pass"  BY <1>7
        <2>2. SorterInPlace(t)  BY <2>1 DEF SorterInPlace
        <2>3. SameValues(Whole(t))  BY <1>1, <2>1 DEF SameValues, Whole
        <2> QED  BY <2>1, <2>2, <2>3 DEF SorterKnows
  <1>10. \A t \in cast.readers \ cast.sorters : ReaderInPlace(t)
         BY <1>8 DEF ReaderInPlace
  <1> QED  BY <1>6, <1>9, <1>10 DEF ArrayInv

(* What holds of a task holds as long as the others leave it alone.        *)
LEMMA OthersInPlace ==
  ASSUME ArrayTypes, NEW t, Elsewhere(t),
         NEW u \in cast.sorters \cup cast.readers, u # t
  PROVE  /\ SorterInPlace(u) => SorterInPlace(u)'
         /\ ReaderInPlace(u) => ReaderInPlace(u)'
         /\ arr' = arr /\ SorterKnows(u) => SorterKnows(u)'
  <1>1. /\ step'[u] = step[u] /\ local'[u] = local[u]
        /\ UNCHANGED <<original, key>>
        BY DEF Elsewhere, ArrayTypes
  <1>2. n' = n /\ KeyIsNotBelow' = KeyIsNotBelow  BY <1>1 DEF n, KeyIsNotBelow
  <1>3. SorterInPlace(u) => SorterInPlace(u)'
        BY <1>1, <1>2 DEF SorterInPlace
  <1>4. ReaderInPlace(u) => ReaderInPlace(u)'
        BY <1>1 DEF ReaderInPlace
  <1>5. ASSUME arr' = arr, SorterKnows(u) PROVE SorterKnows(u)'
        <2>1. Whole(u)' = Whole(u)  BY <1>1, <1>5 DEF Whole
        <2>2. SameValues(Whole(u)) => SameValues(Whole(u))'
              BY <1>1, <2>1 DEF SameValues, Values, Occurs
        <2>3. /\ SortedUpTo(local[u].i)' <=> SortedUpTo(local[u].i)
              /\ SortedUpTo(n - 1)' <=> SortedUpTo(n - 1)
              BY <1>1, <1>2, <1>5 DEF SortedUpTo
        <2>4. Narrowed(local[u])' <=> Narrowed(local[u])
              BY <1>1, <1>2, <1>5 DEF Narrowed
        <2>5. /\ local'[u].temp = arr'[local'[u].i] <=> local[u].temp = arr[local[u].i]
              /\ local'[u].read = arr'[local'[u].i] <=> local[u].read = arr[local[u].i]
              /\ arr'[Mid(local'[u])] # key' <=> arr[Mid(local[u])] # key
              BY <1>1, <1>5
        <2> QED  BY <1>1, <1>2, <1>5, <2>2, <2>3, <2>4, <2>5 DEF SorterKnows
  <1> QED  BY <1>3, <1>4, <1>5

LEMMA NextKeepsInv == ArrayInv /\ [ArrayNext]_arrayVars => ArrayInv'
  <1> SUFFICES ASSUME ArrayInv, [ArrayNext]_arrayVars PROVE ArrayInv'
      OBVIOUS
  <1>1. /\ ArrayTypes
        /\ \A t \in cast.sorters : SorterInPlace(t)
        /\ \A t \in cast.readers \ cast.sorters : ReaderInPlace(t)
        /\ OneSorter => \A t \in cast.sorters : SorterKnows(t)
        BY DEF ArrayInv
  <1>2. ASSUME NEW t \in cast.sorters, BinarySearch(t) PROVE ArrayInv'
        <2>1. SorterStep(t)  BY <1>1, <1>2, SorterSteps
        <2>2. ArrayTypes' /\ Elsewhere(t) /\ SorterInPlace(t)'  BY <2>1 DEF SorterStep
        <2>3. cast' = cast  BY <2>2 DEF Elsewhere
        <2>4. \A u \in cast.sorters : SorterInPlace(u)'
              BY <1>1, <2>2, OthersInPlace
        <2>5. \A u \in cast.readers \ cast.sorters : ReaderInPlace(u)'
              BY <1>1, <2>2, OthersInPlace
        <2>6. ASSUME OneSorter PROVE \A u \in cast.sorters : SorterKnows(u)'
              <3>1. cast.sorters \subseteq Tasks /\ IsFiniteSet(Tasks)
                    BY <1>1, ArrayAssumption DEF ArrayTypes
              <3>2. IsFiniteSet(cast.sorters)  BY <3>1, FS_Subset
              <3>3. cast.sorters = {t}  BY <2>6, <3>2, FS_Singleton DEF OneSorter
              <3>4. SorterKnows(t)'  BY <1>1, <2>1, <2>6 DEF SorterStep
              <3> QED  BY <3>3, <3>4
        <2>7. OneSorter' => OneSorter  BY <2>3 DEF OneSorter
        <2> QED  BY <2>2, <2>3, <2>4, <2>5, <2>6, <2>7 DEF ArrayInv
  <1>3. ASSUME NEW t \in cast.readers, LinearSearch(t) PROVE ArrayInv'
        <2>1. t \notin cast.sorters
              BY <1>1, <1>3 DEF LinearSearch, SorterInPlace
        <2>2. ArrayTypes' /\ Elsewhere(t) /\ ReaderInPlace(t)' /\ arr' = arr
              BY <1>1, <1>3, <2>1, ReaderStep
        <2>3. cast' = cast  BY <2>2 DEF Elsewhere
        <2>4. \A u \in cast.sorters : SorterInPlace(u)'
              BY <1>1, <2>1, <2>2, OthersInPlace
        <2>5. \A u \in cast.readers \ cast.sorters : ReaderInPlace(u)'
              BY <1>1, <2>2, OthersInPlace
        <2>6. OneSorter => \A u \in cast.sorters : SorterKnows(u)'
              BY <1>1, <2>1, <2>2, OthersInPlace
        <2>7. OneSorter' => OneSorter  BY <2>3 DEF OneSorter
        <2> QED  BY <2>2, <2>3, <2>4, <2>5, <2>6, <2>7 DEF ArrayInv
  <1>4. CASE UNCHANGED arrayVars
        <2>1. UNCHANGED <<arr, original, key, cast, step, local>>
              BY <1>4 DEF arrayVars
        <2>2. n' = n /\ KeyIsNotBelow' = KeyIsNotBelow /\ OneSorter' = OneSorter
              BY <2>1 DEF n, KeyIsNotBelow, OneSorter
        <2>3. ArrayTypes'  BY <1>1, <2>1, <2>2 DEF ArrayTypes
        <2>4. \E t : t \notin cast.sorters \cup cast.readers
              BY NoSetContainsEverything
        <2>5. PICK t : t \notin cast.sorters \cup cast.readers  BY <2>4
        <2>6. Elsewhere(t)  BY <2>1 DEF Elsewhere
        <2> QED  BY <1>1, <2>1, <2>2, <2>3, <2>5, <2>6, OthersInPlace DEF ArrayInv
  <1> QED  BY <1>2, <1>3, <1>4 DEF ArrayNext

(* The answers of the searches are what SearchIsRight says: the part of    *)
(* the induction invariant that whoever called them sees.                  *)
LEMMA InvImpliesRight == ArrayInv => SearchIsRight
  <1> SUFFICES ASSUME ArrayInv PROVE SearchIsRight
      OBVIOUS
  <1>1. /\ ArrayTypes
        /\ \A t \in cast.sorters : SorterInPlace(t)
        /\ \A t \in cast.readers \ cast.sorters : ReaderInPlace(t)
        /\ OneSorter => \A t \in cast.sorters : SorterKnows(t)
        BY DEF ArrayInv
  <1>2. ValuesSurvive
        <2>1. Range(arr) \subseteq Range(original)  BY <1>1 DEF ArrayTypes, Range
        <2>2. ASSUME OneSorter, NEW t \in cast.sorters, step[t] # "put"
              PROVE  \A v \in Values : Occurs(arr, v) = Occurs(original, v)
              <3>1. Whole(t) = arr  BY <2>2 DEF Whole
              <3>2. SameValues(Whole(t))  BY <1>1, <2>2 DEF SorterKnows
              <3> QED  BY <3>1, <3>2 DEF SameValues
        <2> QED  BY <2>1, <2>2 DEF ValuesSurvive
  <1>3. SearchStaysInside
        <2> SUFFICES ASSUME OneSorter, KeyIsNotBelow, NEW t \in cast.sorters,
                            step[t] \in {"probe", "aside"},
                            local[t].low <= local[t].high
                     PROVE  Mid(local[t]) < n
            BY DEF SearchStaysInside
        <2>1. SorterKnows(t)  BY <1>1
        <2>2. Mid(local[t]) \in 0 .. n - 1  BY <1>1, <2>1, MiddleSplits
        <2>3. n \in Nat  BY <1>1, InNumbers
        <2> QED  BY <2>2, <2>3
  <1>4. AnswersAreRight
        <2>1. \A t \in cast.readers \ cast.sorters :
                step[t] = "found" => key \in Range(original)
              BY <1>1 DEF ReaderInPlace
        <2>2. ASSUME OneSorter, NEW t \in cast.sorters
              PROVE  /\ step[t] = "found" /\ KeyIsNotBelow => key \in Range(original)
                     /\ step[t] = "missing" => key \notin Range(original)
              BY <1>1, <2>2 DEF SorterKnows
        <2> QED  BY <2>1, <2>2 DEF AnswersAreRight
  <1> QED  BY <1>2, <1>3, <1>4 DEF SearchIsRight

(* However the programs are preempted in the middle of a swap or a search, *)
(* no value gets into the array that init has not put there; and a sorter  *)
(* that shares the array with readers alone loses none, searches inside    *)
(* the array (unless the key is below everything in it) and answers        *)
(* correctly.  For every array, key and number of tasks.                   *)
THEOREM SearchesAreRight == ArraySpec => []SearchIsRight
  <1>1. ArrayInit => ArrayInv  BY InvAtInit
  <1>2. ArrayInv /\ [ArrayNext]_arrayVars => ArrayInv'  BY NextKeepsInv
  <1>3. ArrayInv => SearchIsRight  BY InvImpliesRight
  <1> QED  BY <1>1, <1>2, <1>3, PTL DEF ArraySpec

-----------------------------------------------------------------------------
(* Numbers: the invariant                                                  *)

Power == <<1, 10, 100, 1000, 10000, 100000, 1000000, 10000000, 100000000, 1000000000>>

(* The argument without its last digits.                                   *)
Rest(count) == IF count = 10 THEN 0 ELSE argument \div Power[count + 1]

(* Its digits, ten of them, from the left.                                 *)
Digit(k) == Rest(9 - k) % 10

(* The first digit that is kept: there are zeros in front of it, and it is *)
(* not one unless it is the last.                                          *)
ZerosBefore(i) == \A k \in 0 .. 9 : k < i => Digit(k) = 0
Leading(i) == ZerosBefore(i) /\ (Digit(i) # 0 \/ i = 9)

PrintTypes ==
  /\ argument \in Numbers
  /\ foo \in [0 .. 10 -> -1 .. 9]
  /\ printing \in [step : {"digits", "zeros", "move", "print"}, key : Nat,
                   i : 0 .. 10, j : 0 .. 10]

DigitsMade ==
  printing.step = "digits" =>
    /\ printing.i <= 9 /\ printing.key = Rest(9 - printing.i)
    /\ \A k \in 0 .. 9 : k > printing.i => foo[k] = Digit(k)
    /\ foo[10] = Terminator

ZerosCounted ==
  printing.step = "zeros" =>
    /\ \A k \in 0 .. 9 : foo[k] = Digit(k)
    /\ foo[10] = Terminator
    /\ ZerosBefore(printing.i)

PartMoved ==
  printing.step = "move" =>
    /\ printing.i <= 9 /\ Leading(printing.i) /\ printing.i <= printing.j
    /\ \A k \in 0 .. 9 : printing.i <= k /\ k < printing.j
                           => foo[k - printing.i] = Digit(k)
    /\ \A k \in 0 .. 9 : k >= printing.j => foo[k] = Digit(k)

AllMoved ==
  printing.step = "print" =>
    /\ printing.i <= 9 /\ Leading(printing.i)
    /\ \A k \in 0 .. 9 : printing.i <= k => foo[k - printing.i] = Digit(k)
    /\ foo[10 - printing.i] = Terminator

PrintInv == PrintTypes /\ DigitsMade /\ ZerosCounted /\ PartMoved /\ AllMoved
-----------------------------------------------------------------------------
(* Division                                                                *)

LEMMA ArgumentHasTenDigits ==
  ASSUME argument \in Numbers
  PROVE  argument \in Nat /\ argument \div 1000000000 < 10
  BY NumbersAssumption

(* The argument without its last count digits, by the power of ten.        *)
LEMMA RestIs ==
  /\ Rest(0) = argument \div 1            /\ Rest(1) = argument \div 10
  /\ Rest(2) = argument \div 100          /\ Rest(3) = argument \div 1000
  /\ Rest(4) = argument \div 10000        /\ Rest(5) = argument \div 100000
  /\ Rest(6) = argument \div 1000000      /\ Rest(7) = argument \div 10000000
  /\ Rest(8) = argument \div 100000000    /\ Rest(9) = argument \div 1000000000
  /\ Rest(10) = 0
  BY DEF Rest, Power

(* Each digit less is a division by ten.                                   *)
LEMMA RestIsDivided ==
  ASSUME argument \in Numbers, NEW count \in 0 .. 9
  PROVE  /\ Rest(0) = argument /\ Rest(count) \in Nat
         /\ Rest(count + 1) = Rest(count) \div 10
  <1> USE ArgumentHasTenDigits, RestIs
  <1>1. Rest(0) = argument  OBVIOUS
  <1>2. CASE count = 0  BY <1>2
  <1>3. CASE count = 1  BY <1>3
  <1>4. CASE count = 2  BY <1>4
  <1>5. CASE count = 3  BY <1>5
  <1>6. CASE count = 4  BY <1>6
  <1>7. CASE count = 5  BY <1>7
  <1>8. CASE count = 6  BY <1>8
  <1>9. CASE count = 7  BY <1>9
  <1>10. CASE count = 8  BY <1>10
  <1>11. CASE count = 9  BY <1>11
  <1> QED
      BY <1>1, <1>2, <1>3, <1>4, <1>5, <1>6, <1>7, <1>8, <1>9, <1>10, <1>11

(* A number is its digits and the last one of them.                        *)
LEMMA DigitIsRest ==
  ASSUME argument \in Numbers, NEW k \in 0 .. 9
  PROVE  /\ Digit(k) \in 0 .. 9
         /\ Rest(9 - k) = 10 * Rest(10 - k) + Digit(k)
  <1>1. 9 - k \in 0 .. 9 /\ (9 - k) + 1 = 10 - k  OBVIOUS
  <1>2. Rest(9 - k) \in Nat /\ Rest((9 - k) + 1) = Rest(9 - k) \div 10
        BY <1>1, RestIsDivided
  <1>3. Rest(10 - k) = Rest(9 - k) \div 10  BY <1>1, <1>2
  <1>4. \A q \in Nat : q % 10 \in 0 .. 9 /\ q = 10 * (q \div 10) + (q % 10)
        OBVIOUS
  <1>5. Digit(k) \in 0 .. 9  BY <1>2, <1>4 DEF Digit
  <1>6. Rest(9 - k) = 10 * (Rest(9 - k) \div 10) + (Rest(9 - k) % 10)  BY <1>2, <1>4
  <1> QED  BY <1>3, <1>5, <1>6 DEF Digit

(* With zeros in front of it, a digit is the first of the number.          *)
LEMMA ZerosAreNothing ==
  ASSUME argument \in Numbers, NEW i \in 0 .. 10, ZerosBefore(i)
  PROVE  Rest(10 - i) = 0
  <1> DEFINE wrong == {m \in Nat : m <= i /\ Rest(10 - m) # 0}
  <1>1. wrong = {}
        <2> SUFFICES ASSUME wrong # {} PROVE FALSE
            OBVIOUS
        <2>1. PICK m \in wrong : \A x \in wrong : m <= x
              BY NatSetHasMin
        <2>2. m \in Nat /\ m <= i /\ Rest(10 - m) # 0  BY <2>1
        <2>3. m # 0
              <3>1. 10 - 0 = 10 /\ Rest(10) = 0  BY RestIs
              <3> QED  BY <3>1, <2>2
        <2> DEFINE k == m - 1
        <2>4. k \in 0 .. 9 /\ k < i /\ k \in Nat /\ k < m
              BY <2>2, <2>3
        <2>5. Rest(10 - k) = 0  BY <2>1, <2>2, <2>4
        <2>6. Digit(k) = 0  BY <2>4 DEF ZerosBefore
        <2>7. Rest(9 - k) = 10 * Rest(10 - k) + Digit(k)  BY <2>4, DigitIsRest
        <2>8. 9 - k = 10 - m  BY <2>2
        <2>9. Rest(9 - k) = 0
              <3> HIDE DEF k
              <3> QED  BY <2>5, <2>6, <2>7
        <2> QED  BY <2>2, <2>8, <2>9
  <1>2. i \notin wrong  BY <1>1
  <1> QED  BY <1>2

-----------------------------------------------------------------------------
(* The steps                                                               *)

LEMMA PrintInvAtInit == PrintInit => PrintInv
  <1> SUFFICES ASSUME PrintInit PROVE PrintInv
      OBVIOUS
  <1>1. /\ argument \in Numbers /\ argument \in Nat
        /\ foo = [k \in 0 .. 10 |-> IF k = 10 THEN Terminator ELSE 0]
        /\ printing = [step |-> "digits", key |-> argument, i |-> 9, j |-> 0]
        BY NumbersAssumption DEF PrintInit
  <1>2. PrintTypes  BY <1>1 DEF PrintTypes, Terminator
  <1>3. DigitsMade
        <2>1. Rest(0) = argument  BY <1>1, RestIsDivided
        <2>2. 9 - 9 = 0  OBVIOUS
        <2>3. \A k \in 0 .. 9 : ~(k > 9)  OBVIOUS
        <2>4. foo[10] = Terminator  BY <1>1
        <2> QED  BY <1>1, <2>1, <2>2, <2>3, <2>4 DEF DigitsMade
  <1> QED  BY <1>1, <1>2, <1>3 DEF PrintInv, ZerosCounted, PartMoved, AllMoved

LEMMA DigitsStep ==
  ASSUME PrintInv, Digits
  PROVE  PrintInv'
  <1> DEFINE i == printing.i
  <1>1. /\ argument \in Numbers /\ argument' = argument
        /\ printing.step = "digits" /\ i \in 0 .. 9 /\ printing.key = Rest(9 - i)
        /\ printing \in [step : {"digits", "zeros", "move", "print"}, key : Nat,
                         i : 0 .. 10, j : 0 .. 10]
        /\ foo \in [0 .. 10 -> -1 .. 9]
        /\ foo' = [foo EXCEPT ![i] = printing.key % 10]
        BY DEF PrintInv, PrintTypes, DigitsMade, Digits
  <1>2. Digit(i) = printing.key % 10
        <2>1. 9 - i \in 0 .. 9  BY <1>1
        <2> QED  BY <1>1 DEF Digit
  <1>3. Digit(i) \in 0 .. 9  BY <1>1, DigitIsRest
  <1>4. /\ foo' \in [0 .. 10 -> -1 .. 9]
        /\ foo'[i] = Digit(i)
        /\ \A k \in 0 .. 10 : k # i => foo'[k] = foo[k]
        BY <1>1, <1>2, <1>3
  <1>5. /\ \A k \in 0 .. 9 : k > i => foo[k] = Digit(k)
        /\ foo[10] = Terminator
        BY <1>1 DEF PrintInv, DigitsMade
  <1>6. /\ \A k \in 0 .. 9 : k >= i => foo'[k] = Digit(k)
        /\ foo'[10] = Terminator
        BY <1>1, <1>4, <1>5
  <1>7. \A k : Digit(k)' = Digit(k)  BY <1>1 DEF Digit, Rest
  <1>8. CASE i = 0
        <2>1. printing' = [printing EXCEPT !.step = "zeros"]
              BY <1>8 DEF Digits
        <2>2. /\ printing'.step = "zeros" /\ printing'.i = 0
              /\ printing' \in [step : {"digits", "zeros", "move", "print"}, key : Nat,
                                i : 0 .. 10, j : 0 .. 10]
              BY <1>1, <1>8, <2>1
        <2>3. \A k \in 0 .. 9 : foo'[k] = Digit(k)'
              BY <1>6, <1>7, <1>8
        <2>4. ZerosBefore(printing.i)'  BY <2>2 DEF ZerosBefore
        <2>5. PrintTypes'  BY <1>1, <1>4, <2>2 DEF PrintTypes
        <2> HIDE DEF i
        <2> QED  BY <1>6, <2>2, <2>3, <2>4, <2>5
                 DEF PrintInv, DigitsMade, ZerosCounted, PartMoved, AllMoved, Terminator
  <1>9. CASE i # 0
        <2>1. printing' = [printing EXCEPT !.i = @ - 1, !.key = @ \div 10]
              BY <1>9 DEF Digits
        <2> DEFINE less == i - 1
                   shorter == printing.key \div 10
        <2>2. less \in 0 .. 9 /\ less \in 0 .. 10 /\ less < i  BY <1>1, <1>9
        <2>3. shorter \in Nat  BY <1>1
        <2>4. printing' = [printing EXCEPT !.i = less, !.key = shorter]  BY <2>1
        <2>5. shorter = Rest(9 - less)
              <3>1. 9 - i \in 0 .. 9 /\ (9 - i) + 1 = 9 - less  BY <1>1, <1>9
              <3> QED  BY <1>1, <3>1, RestIsDivided
        <2> HIDE DEF less, shorter
        <2>6. /\ printing'.step = "digits" /\ printing'.i = less
              /\ printing'.key = shorter
              /\ printing' \in [step : {"digits", "zeros", "move", "print"}, key : Nat,
                                i : 0 .. 10, j : 0 .. 10]
              BY <1>1, <2>2, <2>3, <2>4
        <2>7. \A k \in 0 .. 9 : k > less => foo'[k] = Digit(k)'
              BY <1>1, <1>6, <1>7, <2>2 DEF less
        <2>8. \A c : Rest(c)' = Rest(c)  BY <1>1 DEF Rest
        <2>9. PrintTypes'  BY <1>1, <1>4, <2>6 DEF PrintTypes
        <2> HIDE DEF i
        <2> QED  BY <1>6, <2>2, <2>5, <2>6, <2>7, <2>8, <2>9
                 DEF PrintInv, DigitsMade, ZerosCounted, PartMoved, AllMoved, Terminator
  <1> QED  BY <1>8, <1>9

LEMMA ZerosStep ==
  ASSUME PrintInv, Zeros
  PROVE  PrintInv'
  <1> DEFINE i == printing.i
  <1>1. /\ argument \in Numbers /\ UNCHANGED <<argument, foo>>
        /\ printing.step = "zeros" /\ i \in 0 .. 10
        /\ printing \in [step : {"digits", "zeros", "move", "print"}, key : Nat,
                         i : 0 .. 10, j : 0 .. 10]
        /\ foo \in [0 .. 10 -> -1 .. 9]
        BY DEF PrintInv, PrintTypes, Zeros
  <1>2. /\ \A k \in 0 .. 9 : foo[k] = Digit(k)
        /\ foo[10] = Terminator
        /\ ZerosBefore(i)
        BY <1>1 DEF PrintInv, ZerosCounted
  <1>3. \A k : Digit(k)' = Digit(k)  BY <1>1 DEF Digit, Rest
  <1>4. CASE foo[i] = 0
        <2> DEFINE next == i + 1
        <2>1. i \in 0 .. 9  BY <1>1, <1>2, <1>4 DEF Terminator
        <2>2. next \in 0 .. 10  BY <2>1
        <2>3. printing' = [printing EXCEPT !.i = next]  BY <1>4 DEF Zeros
        <2>4. ZerosBefore(next)
              <3>1. Digit(i) = 0  BY <1>2, <1>4, <2>1
              <3>2. \A k \in 0 .. 9 : k < next => k < i \/ k = i  BY <2>1
              <3> QED  BY <1>2, <3>1, <3>2 DEF ZerosBefore
        <2> HIDE DEF next, i
        <2>5. /\ printing'.step = "zeros" /\ printing'.i = next
              /\ printing' \in [step : {"digits", "zeros", "move", "print"}, key : Nat,
                                i : 0 .. 10, j : 0 .. 10]
              BY <1>1, <2>2, <2>3
        <2>6. ZerosBefore(printing.i)'  BY <1>3, <2>4, <2>5 DEF ZerosBefore
        <2>7. PrintTypes'  BY <1>1, <2>5 DEF PrintTypes
        <2>8. ZerosCounted'  BY <1>1, <1>2, <1>3, <2>6 DEF ZerosCounted, Terminator
        <2> QED  BY <2>5, <2>7, <2>8 DEF PrintInv, DigitsMade, PartMoved, AllMoved
  <1>5. CASE foo[i] # 0
        <2> DEFINE first == FirstKept(i)
        <2>1. first \in 0 .. 9 /\ first \in 0 .. 10 /\ first <= i
              BY <1>1 DEF FirstKept
        <2>2. printing' = [printing EXCEPT !.step = "move", !.i = first, !.j = first]
              BY <1>5 DEF Zeros
        <2>3. Leading(first)
              <3>1. ZerosBefore(first)  BY <1>1, <1>2, <2>1 DEF ZerosBefore
              <3>2. CASE i = 10  BY <3>1, <3>2 DEF Leading, FirstKept
              <3>3. CASE i # 10
                    <4>1. i \in 0 .. 9 /\ first = i  BY <1>1, <3>3 DEF FirstKept
                    <4>2. Digit(first) # 0  BY <1>2, <1>5, <4>1
                    <4> QED  BY <3>1, <4>2 DEF Leading
              <3> QED  BY <3>2, <3>3
        <2> HIDE DEF first, i
        <2>4. /\ printing'.step = "move" /\ printing'.i = first /\ printing'.j = first
              /\ printing' \in [step : {"digits", "zeros", "move", "print"}, key : Nat,
                                i : 0 .. 10, j : 0 .. 10]
              BY <1>1, <2>1, <2>2
        <2>5. Leading(printing.i)'  BY <1>3, <2>3, <2>4 DEF Leading, ZerosBefore
        <2>6. PrintTypes'  BY <1>1, <2>4 DEF PrintTypes
        <2>7. \A k \in 0 .. 9 : ~(first <= k /\ k < first)  BY <2>1
        <2>8. \A k \in 0 .. 9 : foo'[k] = Digit(k)'  BY <1>1, <1>2, <1>3
        <2>9. first <= 9 /\ first <= first  BY <2>1
        <2>10. PartMoved'  BY <2>4, <2>5, <2>7, <2>8, <2>9 DEF PartMoved
        <2> QED  BY <2>4, <2>6, <2>10 DEF PrintInv, DigitsMade, ZerosCounted, AllMoved
  <1> QED  BY <1>4, <1>5

LEMMA MoveLeftStep ==
  ASSUME PrintInv, MoveLeft
  PROVE  PrintInv'
  <1> DEFINE i == printing.i
             j == printing.j
  <1>1. /\ argument \in Numbers /\ argument' = argument
        /\ printing.step = "move" /\ i \in 0 .. 9 /\ j \in 0 .. 10 /\ i <= j
        /\ printing \in [step : {"digits", "zeros", "move", "print"}, key : Nat,
                         i : 0 .. 10, j : 0 .. 10]
        /\ foo \in [0 .. 10 -> -1 .. 9]
        BY DEF PrintInv, PrintTypes, PartMoved, MoveLeft
  <1>2. /\ Leading(i)
        /\ \A k \in 0 .. 9 : i <= k /\ k < j => foo[k - i] = Digit(k)
        /\ \A k \in 0 .. 9 : k >= j => foo[k] = Digit(k)
        BY <1>1 DEF PrintInv, PartMoved
  <1>3. \A k : Digit(k)' = Digit(k)  BY <1>1 DEF Digit, Rest
  <1>4. CASE j < 10
        <2> DEFINE next == j + 1
                   to == j - i
        <2>1. /\ next \in 0 .. 10 /\ i <= next /\ to \in 0 .. 9 /\ to \in 0 .. 10
              /\ j \in 0 .. 9
              BY <1>1, <1>4
        <2>2. /\ foo' = [foo EXCEPT ![to] = foo[j]]
              /\ printing' = [printing EXCEPT !.j = next]
              BY <1>1, <1>4 DEF MoveLeft
        <2>3. foo[j] = Digit(j) /\ foo[j] \in -1 .. 9  BY <1>1, <1>2, <2>1
        <2>4. \A k \in 0 .. 9 : i <= k /\ k < next => foo'[k - i] = Digit(k)
              <3> SUFFICES ASSUME NEW k \in 0 .. 9, i <= k, k < next
                           PROVE  foo'[k - i] = Digit(k)
                  OBVIOUS
              <3>1. k - i \in 0 .. 10  BY <1>1
              <3>2. CASE k = j  BY <1>1, <2>1, <2>2, <2>3, <3>2
              <3>3. CASE k # j
                    <4>1. k < j /\ k - i # to  BY <1>1, <3>3
                    <4> HIDE DEF to
                    <4>2. foo'[k - i] = foo[k - i]  BY <1>1, <2>1, <2>2, <3>1, <4>1
                    <4> QED  BY <1>2, <4>1, <4>2
              <3> QED  BY <3>2, <3>3
        <2>5. \A k \in 0 .. 9 : k >= next => foo'[k] = Digit(k)
              <3> SUFFICES ASSUME NEW k \in 0 .. 9, k >= next
                           PROVE  foo'[k] = Digit(k)
                  OBVIOUS
              <3>1. k # to /\ k >= j  BY <1>1
              <3> HIDE DEF to
              <3> QED  BY <1>1, <1>2, <2>1, <2>2, <3>1
        <2>6. foo' \in [0 .. 10 -> -1 .. 9]  BY <1>1, <2>1, <2>2, <2>3
        <2> HIDE DEF next, to, i, j
        <2>7. /\ printing'.step = "move" /\ printing'.i = i /\ printing'.j = next
              /\ printing' \in [step : {"digits", "zeros", "move", "print"}, key : Nat,
                                i : 0 .. 10, j : 0 .. 10]
              BY <1>1, <2>1, <2>2 DEF i
        <2>8. Leading(printing.i)'  BY <1>2, <1>3, <2>7 DEF Leading, ZerosBefore
        <2>9. PrintTypes'  BY <1>1, <2>6, <2>7 DEF PrintTypes
        <2>10. PartMoved'
               BY <1>1, <1>3, <2>1, <2>4, <2>5, <2>7, <2>8 DEF PartMoved
        <2> QED  BY <2>7, <2>9, <2>10 DEF PrintInv, DigitsMade, ZerosCounted, AllMoved
  <1>5. CASE j = 10
        <2> DEFINE end == 10 - i
        <2>1. end \in 0 .. 10 /\ -1 \in -1 .. 9  BY <1>1
        <2>2. /\ foo' = [foo EXCEPT ![end] = Terminator]
              /\ printing' = [printing EXCEPT !.step = "print"]
              BY <1>1, <1>5 DEF MoveLeft
        <2>3. \A k \in 0 .. 9 : i <= k => foo'[k - i] = Digit(k)
              <3> SUFFICES ASSUME NEW k \in 0 .. 9, i <= k
                           PROVE  foo'[k - i] = Digit(k)
                  OBVIOUS
              <3>1. k - i \in 0 .. 10 /\ k - i # end /\ k < j  BY <1>1, <1>5
              <3> HIDE DEF end
              <3>2. foo'[k - i] = foo[k - i]  BY <1>1, <2>1, <2>2, <3>1
              <3> QED  BY <1>2, <3>1, <3>2
        <2>4. foo' \in [0 .. 10 -> -1 .. 9] /\ foo'[end] = Terminator
              BY <1>1, <2>1, <2>2 DEF Terminator
        <2> HIDE DEF i, j
        <2>5. /\ printing'.step = "print" /\ printing'.i = i
              /\ printing' \in [step : {"digits", "zeros", "move", "print"}, key : Nat,
                                i : 0 .. 10, j : 0 .. 10]
              BY <1>1, <2>2 DEF i
        <2>6. Leading(printing.i)'  BY <1>2, <1>3, <2>5 DEF Leading, ZerosBefore
        <2>7. PrintTypes'  BY <1>1, <2>4, <2>5 DEF PrintTypes
        <2>8. AllMoved'
              BY <1>1, <1>3, <2>3, <2>4, <2>5, <2>6 DEF AllMoved, Terminator
        <2> QED  BY <2>5, <2>7, <2>8 DEF PrintInv, DigitsMade, ZerosCounted, PartMoved
  <1> QED  BY <1>4, <1>5, <1>1

LEMMA PrintNextKeepsInv == PrintInv /\ [PrintNext]_printVars => PrintInv'
  <1>1. CASE UNCHANGED printVars
        <2>1. ASSUME PrintInv, UNCHANGED <<argument, foo, printing>> PROVE PrintInv'
              <3>1. /\ \A k : Digit(k)' = Digit(k)
                    /\ \A k : Rest(k)' = Rest(k)
                    BY <2>1 DEF Digit, Rest
              <3>2. /\ PrintTypes' = PrintTypes
                    /\ \A k : ZerosBefore(k)' = ZerosBefore(k)
                    BY <2>1, <3>1 DEF PrintTypes, ZerosBefore
              <3>3. \A k : Leading(k)' = Leading(k)  BY <3>1, <3>2 DEF Leading
              <3>4. DigitsMade => DigitsMade'  BY <2>1, <3>1 DEF DigitsMade, Terminator
              <3>5. ZerosCounted => ZerosCounted'
                    BY <2>1, <3>1, <3>2 DEF ZerosCounted, Terminator
              <3>6. PartMoved => PartMoved'  BY <2>1, <3>1, <3>3 DEF PartMoved
              <3>7. AllMoved => AllMoved'
                    BY <2>1, <3>1, <3>3 DEF AllMoved, Terminator
              <3> QED  BY <2>1, <3>2, <3>4, <3>5, <3>6, <3>7 DEF PrintInv
        <2> QED  BY <1>1, <2>1 DEF printVars
  <1> QED  BY <1>1, DigitsStep, ZerosStep, MoveLeftStep DEF PrintNext

-----------------------------------------------------------------------------
(* What is printed                                                         *)

(* The recursion by which NumberIn reads a text.                           *)
ReadsUpTo(text, f) ==
  f = [k \in 0 .. Len(text) |-> IF k = 0 THEN 0 ELSE 10 * f[k - 1] + text[k]]

(* What is printed once the digits from i on have been moved to the left.  *)
LEMMA TextIsTheRest ==
  ASSUME PrintInv, printing.step = "print"
  PROVE  Text = [k \in 1 .. 10 - printing.i |-> foo[k - 1]]
  <1> DEFINE i == printing.i
             size == 10 - i
             Cut(m) == [k \in 1 .. m |-> foo[k - 1]]
             Ends(text) == /\ Terminator \notin {text[k] : k \in DOMAIN text}
                           /\ foo[Len(text)] = Terminator
  <1>1. /\ i \in 0 .. 9 /\ argument \in Numbers
        /\ \A k \in 0 .. 9 : i <= k => foo[k - i] = Digit(k)
        /\ foo[size] = Terminator
        BY DEF PrintInv, PrintTypes, AllMoved
  <1>2. size \in 1 .. 10 /\ size \in 0 .. 10  BY <1>1
  <1>3. \A k \in 0 .. size - 1 : foo[k] # Terminator
        <2> SUFFICES ASSUME NEW k \in 0 .. size - 1 PROVE foo[k] # Terminator
            OBVIOUS
        <2>1. k + i \in 0 .. 9 /\ i <= k + i /\ (k + i) - i = k  BY <1>1, <1>2
        <2>2. foo[k] = Digit(k + i)  BY <1>1, <2>1
        <2>3. Digit(k + i) \in 0 .. 9  BY <1>1, <2>1, DigitIsRest
        <2> QED  BY <2>2, <2>3 DEF Terminator
  <1>4. \A m \in 0 .. 10 : Len(Cut(m)) = m /\ DOMAIN Cut(m) = 1 .. m
        OBVIOUS
  <1>5. Ends(Cut(size))
        <2>1. \A k \in 1 .. size : Cut(size)[k] = foo[k - 1] /\ k - 1 \in 0 .. size - 1
              BY <1>2
        <2> QED  BY <1>1, <1>2, <1>3, <1>4, <2>1
  <1>6. ASSUME NEW m \in 0 .. 10, Ends(Cut(m)) PROVE m = size
        <2>1. foo[m] = Terminator  BY <1>4, <1>6
        <2>2. ~(m < size)
              <3>1. ASSUME m < size PROVE FALSE
                    <4>1. m \in 0 .. size - 1  BY <1>2, <3>1
                    <4> QED  BY <1>3, <2>1, <4>1
              <3> QED  BY <3>1
        <2>3. ~(m > size)
              <3>1. ASSUME m > size PROVE FALSE
                    <4>1. size + 1 \in 1 .. m /\ (size + 1) - 1 = size  BY <1>2, <3>1
                    <4>2. Cut(m)[size + 1] = foo[size]  BY <4>1
                    <4>3. size + 1 \in DOMAIN Cut(m)  BY <1>4, <4>1
                    <4> QED  BY <1>1, <1>6, <4>2, <4>3
              <3> QED  BY <3>1
        <2> QED  BY <1>2, <2>2, <2>3
  <1> DEFINE texts == {[k \in 1 .. m |-> foo[k - 1]] : m \in 0 .. 10}
  <1>7. texts = {Cut(m) : m \in 0 .. 10}  OBVIOUS
  <1>8. Text = CHOOSE text \in texts : Ends(text)  BY DEF Text
  <1>9. Cut(size) \in texts  BY <1>2
  <1>10. \A text \in texts : Ends(text) => text = Cut(size)
         <2> HIDE DEF Cut, Ends, texts, size
         <2> QED  BY <1>6, <1>7
  <1> HIDE DEF texts, Ends
  <1>11. Text = Cut(size)  BY <1>5, <1>8, <1>9, <1>10
  <1> QED  BY <1>11

(* The digits from the first that is kept on make up the argument.         *)
LEMMA DigitsMakeTheNumber ==
  ASSUME argument \in Numbers, NEW i \in 0 .. 9, ZerosBefore(i),
         NEW text \in Seq(Nat), Len(text) = 10 - i,
         \A k \in 1 .. 10 - i : text[k] = Digit(k + i - 1)
  PROVE  NumberIn(text) = argument
  <1> DEFINE size == 10 - i
             read == [k \in 0 .. size |-> IF k = 0 THEN 0 ELSE Rest(size - k)]
  <1>1. size \in 1 .. 10 /\ size \in Nat  OBVIOUS
  <1>2. Rest(size) = 0
        <2>1. i \in 0 .. 10  OBVIOUS
        <2> QED  BY <2>1, ZerosAreNothing
  <1>3. ASSUME NEW k \in 1 .. size
        PROVE  Rest(size - k) = 10 * Rest(size - (k - 1)) + text[k]
        <2> DEFINE d == k + i - 1
        <2>1. d \in 0 .. 9 /\ 9 - d = size - k /\ 10 - d = size - (k - 1)
              BY <1>1
        <2>2. Rest(9 - d) = 10 * Rest(10 - d) + Digit(d)  BY <2>1, DigitIsRest
        <2>3. text[k] = Digit(d)  OBVIOUS
        <2> HIDE DEF d, size
        <2> QED  BY <2>1, <2>2, <2>3
  <1>4. ASSUME NEW k \in 0 .. size
        PROVE  read[k] = IF k = 0 THEN 0 ELSE 10 * read[k - 1] + text[k]
        <2>1. CASE k = 0  BY <2>1
        <2>2. CASE k = 1
              <3>1. 1 \in 1 .. size /\ size - (1 - 1) = size  BY <1>1
              <3>2. Rest(size - 1) = 10 * Rest(size) + text[1]  BY <1>3, <3>1
              <3>3. read[1] = Rest(size - 1) /\ read[0] = 0 /\ 1 - 1 = 0
                    BY <1>1
              <3>4. text[1] \in Nat  BY <1>1, <3>1
              <3> HIDE DEF read, size
              <3> QED  BY <1>2, <2>2, <3>2, <3>3, <3>4
        <2>3. CASE k > 1
              <3>1. k \in 1 .. size /\ k - 1 \in 1 .. size /\ k - 1 # 0 /\ k # 0
                    BY <1>1, <2>3
              <3>2. Rest(size - k) = 10 * Rest(size - (k - 1)) + text[k]
                    BY <1>3, <3>1
              <3>3. read[k] = Rest(size - k) /\ read[k - 1] = Rest(size - (k - 1))
                    BY <3>1
              <3> HIDE DEF read, size
              <3> QED  BY <3>1, <3>2, <3>3
        <2> QED  BY <2>1, <2>2, <2>3
  <1>5. ReadsUpTo(text, read)
        <2>1. read = [k \in 0 .. size |-> read[k]]  OBVIOUS
        <2> HIDE DEF read
        <2>2. read = [k \in 0 .. size |-> IF k = 0 THEN 0 ELSE 10 * read[k - 1] + text[k]]
              BY <1>4, <2>1
        <2> QED  BY <2>2 DEF ReadsUpTo
  <1>6. ASSUME NEW f, ReadsUpTo(text, f) PROVE f[size] = argument
        <2>1. \A k \in 0 .. size :
                f[k] = IF k = 0 THEN 0 ELSE 10 * f[k - 1] + text[k]
              BY <1>1, <1>6 DEF ReadsUpTo
        <2> HIDE DEF read
        <2> DEFINE wrong == {k \in Nat : k <= size /\ f[k] # read[k]}
        <2>2. wrong = {}
              <3> SUFFICES ASSUME wrong # {} PROVE FALSE
                  OBVIOUS
              <3>1. PICK k \in wrong : \A x \in wrong : k <= x
                    BY NatSetHasMin
              <3>2. k \in Nat /\ k <= size /\ f[k] # read[k] /\ k \in 0 .. size
                    BY <1>1, <3>1
              <3>3. k # 0  BY <2>1, <1>4, <3>2
              <3>4. k - 1 \in Nat /\ k - 1 < k /\ k - 1 <= size  BY <1>1, <3>2, <3>3
              <3>5. f[k - 1] = read[k - 1]  BY <3>1, <3>2, <3>4
              <3>6. f[k] = 10 * f[k - 1] + text[k] /\ read[k] = 10 * read[k - 1] + text[k]
                    BY <2>1, <1>4, <3>2, <3>3
              <3> QED  BY <3>2, <3>5, <3>6
        <2>3. size \notin wrong  BY <2>2
        <2>4. f[size] = read[size]  BY <1>1, <2>3
        <2>5. read[size] = Rest(0)
              <3>1. size \in 0 .. size /\ size # 0 /\ size - size = 0  BY <1>1
              <3> HIDE DEF size
              <3> QED  BY <3>1 DEF read
        <2>6. Rest(0) = argument
              <3>1. 0 \in 0 .. 9  OBVIOUS
              <3> QED  BY <3>1, RestIsDivided
        <2> QED  BY <2>4, <2>5, <2>6
  <1>7. NumberIn(text) = (CHOOSE f : ReadsUpTo(text, f))[size]
        BY DEF NumberIn, ReadsUpTo
  <1>8. ReadsUpTo(text, CHOOSE f : ReadsUpTo(text, f))
        <2> HIDE DEF read
        <2> QED  BY <1>5
  <1> QED  BY <1>6, <1>7, <1>8

LEMMA InvImpliesNumbers == PrintInv => NumbersAreRight
  <1> SUFFICES ASSUME PrintInv, printing.step = "print"
               PROVE  /\ Text # <<>> /\ NumberIn(Text) = argument
                      /\ Text[1] = 0 => argument = 0 /\ Len(Text) = 1
      BY DEF NumbersAreRight
  <1> DEFINE i == printing.i
             size == 10 - i
             text == [k \in 1 .. size |-> foo[k - 1]]
  <1>1. /\ i \in 0 .. 9 /\ argument \in Numbers /\ Leading(i)
        /\ \A k \in 0 .. 9 : i <= k => foo[k - i] = Digit(k)
        BY DEF PrintInv, PrintTypes, AllMoved
  <1>2. size \in 1 .. 10 /\ size \in Nat  BY <1>1
  <1>3. Text = text  BY TextIsTheRest
  <1>4. ASSUME NEW k \in 1 .. size
        PROVE  text[k] = Digit(k + i - 1) /\ text[k] \in Nat
        <2>1. k + i - 1 \in 0 .. 9 /\ i <= k + i - 1 /\ (k + i - 1) - i = k - 1
              BY <1>1
        <2>2. foo[k - 1] = Digit(k + i - 1)  BY <1>1, <2>1
        <2>3. Digit(k + i - 1) \in 0 .. 9  BY <1>1, <2>1, DigitIsRest
        <2>4. text[k] = foo[k - 1]  OBVIOUS
        <2> QED  BY <2>2, <2>3, <2>4
  <1>5. text \in Seq(Nat) /\ Len(text) = size
        <2>1. text = [k \in 1 .. size |-> text[k]] /\ Len(text) = size
              BY <1>2
        <2> HIDE DEF text, size
        <2>2. text \in [1 .. size -> Nat]  BY <1>4, <2>1
        <2> QED  BY <1>2, <2>1, <2>2
  <1> HIDE DEF text
  <1>6. NumberIn(text) = argument
        BY <1>1, <1>4, <1>5, DigitsMakeTheNumber DEF Leading
  <1>7. text # <<>>  BY <1>2, <1>5
  <1>8. ASSUME text[1] = 0 PROVE argument = 0 /\ Len(text) = 1
        <2>1. Digit(i) = 0
              <3>1. 1 \in 1 .. size /\ 1 + i - 1 = i  BY <1>1, <1>2
              <3> QED  BY <1>4, <1>8, <3>1
        <2>2. i = 9  BY <1>1, <2>1 DEF Leading
        <2>3. Rest(1) = 0
              <3>1. 9 \in 0 .. 10 /\ 10 - 9 = 1  OBVIOUS
              <3> QED  BY <1>1, <2>2, <3>1, ZerosAreNothing DEF Leading
        <2>4. Rest(0) = 10 * Rest(1) + Digit(9)
              <3>1. 9 \in 0 .. 9 /\ 9 - 9 = 0 /\ 10 - 9 = 1  OBVIOUS
              <3> QED  BY <1>1, <3>1, DigitIsRest
        <2>5. Rest(0) = argument
              <3>1. 0 \in 0 .. 9  OBVIOUS
              <3> QED  BY <1>1, <3>1, RestIsDivided
        <2>6. Rest(0) = 0
              <3>1. Digit(9) = 0  BY <2>1, <2>2
              <3> QED  BY <2>3, <2>4, <3>1
        <2> QED  BY <1>5, <2>2, <2>5, <2>6
  <1> QED  BY <1>3, <1>6, <1>7, <1>8

(* printDec32 prints what it is given: the characters up to the terminator *)
(* are the number's digits, all of them, without a zero in front unless    *)
(* the number is 0.  For every number that ten digits can hold.            *)
THEOREM NumbersAreAlwaysRight == PrintSpec => []NumbersAreRight
  <1> QED  BY PrintInvAtInit, PrintNextKeepsInv, InvImpliesNumbers, PTL DEF PrintSpec

=============================================================================
