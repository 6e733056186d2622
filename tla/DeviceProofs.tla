---------------------------- MODULE DeviceProofs ----------------------------
(***************************************************************************)
(* Results about three devices and their drivers, each for every value of  *)
(* the constants.                                                          *)
(*                                                                         *)
(* The mouse: the cursor stays on the screen, also when all bytes are read *)
(* one off, and a driver that is not one off handles reports as            *)
(* PointingDevice does, whole and in order.                                *)
(*                                                                         *)
(* The desktop: a window that is dragged follows the mouse, and a click    *)
(* reaches the window that is seen there.                                  *)
(*                                                                         *)
(* The disk: what is read from a sector is what was last written to it.    *)
(***************************************************************************)
EXTENDS MouseDriver, Desktop, AdvancedTechnologyAttachment, SequenceTheorems,
        WellFoundedInduction, TLAPS

(* A set of numbers has a least one.                                       *)
LEMMA NatSetHasMin ==
  ASSUME NEW S \in SUBSET Nat, S # {}
  PROVE  \E m \in S : \A e \in S : m <= e
  <1>1. PICK m \in S : \A e \in S : <<e, m>> \notin OpToRel(<, Nat)
        BY NatLessThanWellFounded, WFMin
  <1>2. \A e \in S : ~ (e < m)  BY <1>1 DEF OpToRel
  <1> QED  BY <1>2

-----------------------------------------------------------------------------
(* The mouse                                                               *)

Byte == 0 .. 255

MouseType ==
  /\ wire \in Seq(Byte)
  /\ buffer \in [0 .. 2 -> Byte]
  /\ offset \in 0 .. 2
  /\ late \in BOOLEAN
  /\ sent \in Seq(Reports)

(* How far a report has come: its first bytes are in the buffer, the       *)
(* others and those of the reports after it on the wire.                   *)
ByteOf(k) == sent[(k \div 3) + 1][(k % 3) + 1]

Assembled ==
  ~late =>
    /\ Len(wire) = 3 * Len(sent) - offset
    /\ \A i \in 1 .. Len(wire) : wire[i] = ByteOf(offset + i - 1)
    /\ \A k \in 0 .. offset - 1 : buffer[k] = ByteOf(k)

MouseInv == MouseType /\ CursorOnScreen /\ Assembled

-----------------------------------------------------------------------------
LEMMA Int8IsInt == ASSUME NEW n \in Int PROVE Int8(n) \in -128 .. 127
BY DEF Int8

LEMMA Int8IsExact == ASSUME NEW n \in -128 .. 127 PROVE Int8(n) = n
BY DEF Int8

(* However far a move reaches and however it wraps, it ends on the screen, *)
LEMMA MovedStays ==
  ASSUME NEW p \in Int, NEW d \in Int, NEW size \in Nat \ {0}
  PROVE  Moved(p, d, size) \in 0 .. size - 1
<1> DEFINE sum == Int8(p + d)
<1>1. sum \in Int
  BY Int8IsInt
<1> HIDE DEF sum
<1> QED
  BY <1>1 DEF Moved, sum

(* and where a pointing device says that it ends.                          *)
LEMMA MovedEnds ==
  ASSUME NEW p \in Int, NEW d \in Int, NEW size \in Nat \ {0}
  PROVE  Moved(p, d, size) \in Device!Ends(p, d, size)
<1>1. Moved(p, d, size) \in 0 .. size - 1
  BY MovedStays
<1>2. ASSUME p + d \in -127 - 1 .. 127
      PROVE  \/ Moved(p, d, size) = p + d
             \/ Moved(p, d, size) = 0 /\ p + d < 0
             \/ Moved(p, d, size) = size - 1 /\ p + d >= size
  <2>1. Int8(p + d) = p + d
    BY <1>2, Int8IsExact
  <2> QED
    BY <2>1 DEF Moved
<1> QED
  BY <1>1, <1>2 DEF Device!Ends

-----------------------------------------------------------------------------
(* The bytes of a report that is on its way to the driver.                 *)
LEMMA ReportsAreBytes ==
  ASSUME NEW report \in Reports
  PROVE  /\ report \in Seq(Byte) /\ Len(report) = 3
         /\ \A k \in 1 .. 3 : report[k] \in Byte
<1>1. report \in [1 .. 3 -> Byte]
  BY ReportsAssumption DEF Byte
<1>2. [1 .. 3 -> Byte] \in {[1 .. k -> Byte] : k \in Nat}
  OBVIOUS
<1>3. report \in Seq(Byte)
  BY <1>1, <1>2, SeqDef
<1> QED
  BY <1>1, <1>3

(* The next byte completes a report exactly if it is the third one.        *)
LEMMA ThirdByte ==
  ASSUME MouseInv, ~late, wire # <<>>
  PROVE  /\ sent # <<>>
         /\ Len(wire) % 3 = 1 <=> offset = 2
<1>1. /\ Len(wire) \in Nat /\ Len(wire) # 0 /\ Len(sent) \in Nat
      /\ Len(wire) = 3 * Len(sent) - offset
  BY DEF MouseInv, MouseType, Assembled
<1>2. sent # <<>>
  BY <1>1 DEF MouseInv, MouseType
<1>3. CASE offset = 0
  BY <1>1, <1>2, <1>3
<1>4. CASE offset = 1
  BY <1>1, <1>2, <1>4
<1>5. CASE offset = 2
  BY <1>1, <1>2, <1>5
<1> QED
  BY <1>3, <1>4, <1>5 DEF MouseInv, MouseType

LEMMA HandleKeepsType ==
  ASSUME MouseInv, HandleInterrupt
  PROVE  MouseType'
<1>1. /\ Head(wire) \in Byte /\ Tail(wire) \in Seq(Byte)
  BY DEF MouseInv, MouseType, HandleInterrupt
<1>2. sent' \in Seq(Reports)
  BY DEF MouseInv, MouseType, HandleInterrupt
<1> QED
  BY <1>1, <1>2 DEF MouseInv, MouseType, HandleInterrupt

LEMMA HandleKeepsCursor ==
  ASSUME MouseInv, HandleInterrupt
  PROVE  CursorOnScreen'
<1>1. MouseType'
  BY HandleKeepsType
<1>2. CASE offset' = 0
  <2>1. /\ x' = Moved(x, Int8(buffer'[1]), Columns)
        /\ y' = Moved(y, -Int8(buffer'[2]), Rows)
    BY <1>2 DEF HandleInterrupt, Dispatch
  <2>2. buffer'[1] \in Int /\ buffer'[2] \in Int
    <3>1. buffer' \in [0 .. 2 -> Byte]
      BY <1>1 DEF MouseType
    <3> QED
      BY <3>1 DEF Byte
  <2>3. Int8(buffer'[1]) \in Int /\ -Int8(buffer'[2]) \in Int
    <3>1. Int8(buffer'[1]) \in -128 .. 127
      BY <2>2, Int8IsInt
    <3>2. Int8(buffer'[2]) \in -128 .. 127
      BY <2>2, Int8IsInt
    <3>3. \A n \in -128 .. 127 : n \in Int /\ -n \in Int
      OBVIOUS
    <3> QED
      BY ONLY <3>1, <3>2, <3>3, Zenon
  <2>4. x \in Int /\ y \in Int /\ Columns \in Nat \ {0} /\ Rows \in Nat \ {0}
    BY DEF MouseInv, CursorOnScreen, Columns, Rows
  <2> QED
    BY <2>1, <2>3, <2>4, MovedStays DEF CursorOnScreen
<1>3. CASE offset' # 0
  BY <1>3 DEF HandleInterrupt, MouseInv, CursorOnScreen
<1> QED
  BY <1>2, <1>3

(* Handling a byte moves it from the wire to the buffer; with the third    *)
(* one, the first report is done.                                          *)
LEMMA HandleKeepsAssembly ==
  ASSUME MouseInv, ~late, HandleInterrupt
  PROVE  Assembled'
<1>1. wire \in Seq(Byte) /\ wire # <<>> /\ sent \in Seq(Reports) /\ offset \in 0 .. 2
  BY DEF MouseInv, MouseType, HandleInterrupt
<1>2. /\ sent # <<>> /\ Len(wire) \in Nat \ {0} /\ Len(sent) \in Nat \ {0}
      /\ Len(wire) % 3 = 1 <=> offset = 2
      /\ Len(wire) = 3 * Len(sent) - offset
  BY <1>1, ThirdByte DEF MouseInv, Assembled
<1>3. /\ Len(wire') = Len(wire) - 1
      /\ \A i \in 1 .. Len(wire') : i + 1 \in 1 .. Len(wire) /\ wire'[i] = wire[i + 1]
      /\ Head(wire) = wire[1]
  BY <1>1, <1>2 DEF HandleInterrupt
<1>4. /\ \A i \in 1 .. Len(wire) : wire[i] = ByteOf(offset + i - 1)
      /\ \A k \in 0 .. offset - 1 : buffer[k] = ByteOf(k)
  BY DEF MouseInv, Assembled
<1>5. CASE offset # 2
  <2>1. offset' = offset + 1 /\ sent' = sent
    <3>1. /\ offset' = (offset + 1) % 3
          /\ ~(Len(wire) % 3 = 1) => sent' = sent
      BY DEF HandleInterrupt
    <3>2. (offset + 1) % 3 = offset + 1
      BY <1>1, <1>5
    <3> QED
      BY <1>2, <1>5, <3>1, <3>2
  <2>2. \A i \in 1 .. Len(wire') : wire'[i] = ByteOf(offset + i)
    BY <1>1, <1>2, <1>3, <1>4
  <2>3. \A k \in 0 .. offset : buffer'[k] = ByteOf(k)
    <3>1. buffer \in [0 .. 2 -> Byte] /\ buffer' = [buffer EXCEPT ![offset] = wire[1]]
      BY <1>3 DEF MouseInv, MouseType, HandleInterrupt
    <3>2. wire[1] = ByteOf(offset)
      BY <1>1, <1>2, <1>4
    <3> QED
      BY <1>1, <1>4, <3>1, <3>2
  <2> QED
    BY <1>1, <1>2, <1>3, <2>1, <2>2, <2>3 DEF Assembled, ByteOf
<1>6. CASE offset = 2
  <2>1. offset' = 0 /\ sent' = Tail(sent)
    BY <1>1, <1>2, <1>6 DEF HandleInterrupt
  <2>2. /\ Len(sent') = Len(sent) - 1
        /\ \A j \in 1 .. Len(sent') : sent'[j] = sent[j + 1]
    BY <1>1, <1>2, <2>1
  <2>3. ASSUME NEW i \in 1 .. Len(wire')
        PROVE  wire'[i] = sent'[((i - 1) \div 3) + 1][((i - 1) % 3) + 1]
    <3>1. wire'[i] = sent[((i + 2) \div 3) + 1][((i + 2) % 3) + 1]
      BY <1>1, <1>2, <1>3, <1>4, <1>6 DEF ByteOf
    <3>2. /\ (i + 2) \div 3 = ((i - 1) \div 3) + 1
          /\ (i + 2) % 3 = (i - 1) % 3
          /\ ((i - 1) \div 3) + 1 \in 1 .. Len(sent')
      BY <1>1, <1>2, <1>3, <1>6, <2>2
    <3> QED
      BY <2>2, <3>1, <3>2
  <2> QED
    BY <1>1, <1>2, <1>3, <1>6, <2>1, <2>2, <2>3 DEF Assembled, ByteOf
<1> QED
  BY <1>5, <1>6

(* A new report goes behind the others.                                    *)
LEMMA SendKeepsAssembly ==
  ASSUME MouseInv, ~late, NEW report \in Reports, Send(report)
  PROVE  Assembled'
<1> DEFINE length == Len(wire)
           count  == Len(sent)
<1>1. /\ wire \in Seq(Byte) /\ sent \in Seq(Reports)
      /\ report \in Seq(Byte) /\ Len(report) = 3
  BY ReportsAreBytes DEF MouseInv, MouseType
<1>2. /\ wire' = wire \o report /\ sent' = Append(sent, report)
      /\ UNCHANGED <<offset, buffer>>
  BY DEF Send, driverVars
<1>3. /\ count \in Nat /\ Len(sent') = count + 1
      /\ \A j \in 1 .. count : sent'[j] = sent[j]
      /\ sent'[count + 1] = report
  BY <1>1, <1>2
<1>4. /\ length \in Nat /\ Len(wire') = length + 3
      /\ \A i \in 1 .. length : wire'[i] = wire[i]
      /\ \A j \in 1 .. 3 : wire'[length + j] = report[j]
  <2>1. length \in Nat
    BY <1>1
  <2>2. /\ Len(wire \o report) = length + 3
        /\ \A i \in 1 .. length + 3 :
             (wire \o report)[i] = IF i <= length THEN wire[i] ELSE report[i - length]
    <3>1. /\ Len(wire \o report) = Len(wire) + Len(report)
          /\ \A i \in 1 .. Len(wire) + Len(report) :
               (wire \o report)[i] = IF i <= Len(wire) THEN wire[i]
                                     ELSE report[i - Len(wire)]
      BY ONLY <1>1, ConcatProperties, Zenon
    <3> QED
      BY <1>1, <3>1
  <2>3. \A j \in 1 .. 3 : /\ length + j \in 1 .. length + 3
                          /\ ~(length + j <= length)
                          /\ (length + j) - length = j
    BY <2>1
  <2> HIDE DEF length
  <2>4. wire' = wire \o report
    BY <1>2
  <2>5. \A i \in 1 .. length : (wire \o report)[i] = wire[i]
    BY ONLY <2>1, <2>2, SMT
  <2>6. ASSUME NEW j \in 1 .. 3 PROVE (wire \o report)[length + j] = report[j]
    <3>1. (wire \o report)[length + j]
            = IF length + j <= length THEN wire[length + j] ELSE report[(length + j) - length]
      BY ONLY <2>2, <2>3, Zenon
    <3> QED
      BY ONLY <2>3, <3>1, Zenon
  <2> QED
    BY ONLY <2>1, <2>2, <2>4, <2>5, <2>6, Zenon
<1>5. length = 3 * count - offset /\ offset \in 0 .. 2
  BY DEF MouseInv, MouseType, Assembled
<1>6. /\ \A i \in 1 .. length :
           wire[i] = sent[((offset + i - 1) \div 3) + 1][((offset + i - 1) % 3) + 1]
      /\ \A k \in 0 .. offset - 1 : buffer[k] = sent[(k \div 3) + 1][(k % 3) + 1]
  BY DEF MouseInv, Assembled, ByteOf
<1> HIDE DEF length, count
<1>7. ASSUME NEW i \in 1 .. length + 3
      PROVE  wire'[i] = sent'[((offset + i - 1) \div 3) + 1][((offset + i - 1) % 3) + 1]
  <2>1. CASE i <= length
    <3>1. i \in 1 .. length
      BY <1>4, <2>1
    <3>2. ((offset + i - 1) \div 3) + 1 \in 1 .. count
      BY <1>3, <1>5, <3>1
    <3> QED
      BY <1>3, <1>4, <1>6, <3>1, <3>2
  <2>2. CASE i > length
    <3>1. PICK j \in 1 .. 3 : i = length + j
      <4>1. i - length \in 1 .. 3 /\ i = length + (i - length)
        BY <1>4, <2>2
      <4> QED
        BY <4>1
    <3>2. offset + i - 1 = 3 * count + (j - 1)
      BY <1>3, <1>5, <3>1
    <3>3. /\ (3 * count + (j - 1)) \div 3 = count
          /\ (3 * count + (j - 1)) % 3 = j - 1
      <4>1. count \in Nat /\ j - 1 \in 0 .. 2
        BY <1>3
      <4>2. \A c \in Nat, d \in 0 .. 2 : (3 * c + d) \div 3 = c /\ (3 * c + d) % 3 = d
        OBVIOUS
      <4> QED
        BY ONLY <4>1, <4>2, Zenon
    <3>4. wire'[i] = report[j]
      BY ONLY <1>4, <3>1, j \in 1 .. 3, Zenon
    <3>5. /\ (offset + i - 1) \div 3 = count
          /\ ((offset + i - 1) % 3) + 1 = j
      BY ONLY <3>2, <3>3, j \in 1 .. 3, SMT
    <3> QED
      BY ONLY <1>3, <3>4, <3>5, Zenon
  <2> QED
    BY <1>4, <2>1, <2>2
<1>8. ASSUME NEW k \in 0 .. offset - 1
      PROVE  buffer[k] = sent'[(k \div 3) + 1][(k % 3) + 1]
  <2>1. (k \div 3) + 1 = 1 /\ 1 \in 1 .. count
    BY <1>3, <1>4, <1>5
  <2> QED
    BY <1>3, <1>6, <2>1
<1>9. Len(wire') = 3 * Len(sent') - offset
  BY <1>3, <1>4, <1>5
<1> QED
  BY <1>2, <1>4, <1>7, <1>8, <1>9 DEF Assembled, ByteOf

-----------------------------------------------------------------------------
LEMMA MouseInitially == MouseInit => MouseInv
<1> SUFFICES ASSUME MouseInit PROVE MouseInv
  OBVIOUS
<1>1. <<>> \in Seq(Byte) /\ <<Answer>> \in Seq(Byte)
  BY DEF Byte, Answer
<1>2. MouseType
  <2>1. wire \in Seq(Byte) /\ sent \in Seq(Reports) /\ late \in BOOLEAN
    BY <1>1 DEF MouseInit
  <2>2. buffer \in [0 .. 2 -> Byte] /\ offset \in 0 .. 2
    BY DEF MouseInit, Byte
  <2> QED
    BY <2>1, <2>2 DEF MouseType
<1>3. CursorOnScreen
  BY DEF MouseInit, CursorOnScreen, Columns, Rows
<1>4. Assembled
  BY DEF MouseInit, Assembled
<1> QED
  BY <1>2, <1>3, <1>4 DEF MouseInv

LEMMA MouseStep == MouseInv /\ [MouseNext]_mouseVars => MouseInv'
<1> SUFFICES ASSUME MouseInv, [MouseNext]_mouseVars PROVE MouseInv'
  OBVIOUS
<1>1. ASSUME NEW report \in Reports, Send(report) PROVE MouseInv'
  <2>1. MouseType' /\ CursorOnScreen'
    BY <1>1, ReportsAreBytes DEF Send, driverVars, MouseInv, MouseType, CursorOnScreen
  <2>2. CASE late
    BY <1>1, <2>1, <2>2 DEF Send, MouseInv, Assembled
  <2>3. CASE ~late
    BY <1>1, <2>1, <2>3, SendKeepsAssembly DEF MouseInv
  <2> QED
    BY <2>2, <2>3
<1>2. CASE HandleInterrupt
  <2>1. MouseType' /\ CursorOnScreen'
    BY <1>2, HandleKeepsType, HandleKeepsCursor
  <2>2. CASE late
    BY <1>2, <2>1, <2>2 DEF HandleInterrupt, MouseInv, Assembled
  <2>3. CASE ~late
    BY <1>2, <2>1, <2>3, HandleKeepsAssembly DEF MouseInv
  <2> QED
    BY <2>2, <2>3
<1>3. CASE IsMouseClicked \/ UNCHANGED mouseVars
  BY <1>3 DEF IsMouseClicked, mouseVars, driverVars, MouseInv, MouseType, CursorOnScreen,
              Assembled, ByteOf
<1> QED
  BY <1>1, <1>2, <1>3 DEF MouseNext

(* The cursor is always on the screen, so that OnMouseMove of              *)
(* MouseToConsole writes to video memory only (kernel.cpp:147-163).        *)
THEOREM CursorStaysOnScreen == MouseSpec => []CursorOnScreen
BY MouseInitially, MouseStep, PTL DEF MouseSpec, MouseInv

-----------------------------------------------------------------------------
(* Functions on 1 .. n are sequences, with their lengths.                  *)
LEMMA FunctionsAreSeqs ==
  ASSUME NEW S, NEW n \in Nat, NEW f \in [1 .. n -> S]
  PROVE  f \in Seq(S) /\ Len(f) = n
<1>1. [1 .. n -> S] \in {[1 .. k -> S] : k \in Nat}
  OBVIOUS
<1>2. f \in Seq(S)
  BY <1>1, SeqDef
<1> QED
  BY <1>2

LEMMA PrefixIsSubSeq ==
  ASSUME NEW S, NEW s \in Seq(S), NEW t \in Seq(S), Len(t) = Len(s) + 1,
         \A i \in 1 .. Len(s) : t[i] = s[i]
  PROVE  SubSeq(t, 1, Len(s)) = s
OBVIOUS

LEMMA RestIsTail ==
  ASSUME NEW S, NEW s \in Seq(S), NEW t \in Seq(S), s # <<>>, Len(t) = Len(s) - 1,
         \A i \in 1 .. Len(t) : t[i] = s[i + 1]
  PROVE  t = Tail(s)
OBVIOUS

(* A report as the pointing device sees it, and those on their way.        *)
Whole(b) == [buttons |-> Down(b[1]), dx |-> Int8(b[2]), dy |-> Int8(b[3])]

Wholes(s) == [k \in DOMAIN s |-> Whole(s[k])]

LEMMA WholesAreSeqs ==
  ASSUME NEW s \in Seq(Reports)
  PROVE  /\ Wholes(s) \in Seq({Whole(b) : b \in Reports})
         /\ Len(Wholes(s)) = Len(s)
         /\ \A k \in 1 .. Len(s) : Wholes(s)[k] = Whole(s[k])
<1>1. Len(s) \in Nat /\ DOMAIN s = 1 .. Len(s)
  OBVIOUS
<1>2. Wholes(s) \in [1 .. Len(s) -> {Whole(b) : b \in Reports}]
  BY <1>1 DEF Wholes
<1> QED
  BY <1>1, <1>2, FunctionsAreSeqs DEF Wholes

LEMMA SendImplements ==
  ASSUME MouseInv, MouseInv', ~late, NEW report \in Reports, Send(report)
  PROVE  Device!Send
<1>1. /\ sent \in Seq(Reports) /\ sent' \in Seq(Reports)
      /\ sent' = Append(sent, report)
  BY DEF MouseInv, MouseType, Send
<1>2. /\ Len(sent') = Len(sent) + 1
      /\ \A k \in 1 .. Len(sent) : sent'[k] = sent[k]
  BY <1>1
<1>3. /\ Wholes(sent) \in Seq({Whole(b) : b \in Reports})
      /\ Wholes(sent') \in Seq({Whole(b) : b \in Reports})
      /\ Len(Wholes(sent')) = Len(Wholes(sent)) + 1
      /\ \A k \in 1 .. Len(Wholes(sent)) : Wholes(sent')[k] = Wholes(sent)[k]
  <2>1. /\ Wholes(sent) \in Seq({Whole(b) : b \in Reports})
        /\ Len(Wholes(sent)) = Len(sent)
        /\ \A k \in 1 .. Len(sent) : Wholes(sent)[k] = Whole(sent[k])
    BY ONLY <1>1, WholesAreSeqs
  <2>2. /\ Wholes(sent') \in Seq({Whole(b) : b \in Reports})
        /\ Len(Wholes(sent')) = Len(sent')
        /\ \A k \in 1 .. Len(sent') : Wholes(sent')[k] = Whole(sent'[k])
    BY ONLY <1>1, WholesAreSeqs
  <2>3. Len(sent) \in Nat
    BY <1>1
  <2> QED
    BY ONLY <1>2, <2>1, <2>2, <2>3
<1>4. SubSeq(Wholes(sent'), 1, Len(Wholes(sent))) = Wholes(sent)
  BY <1>3, PrefixIsSubSeq
<1>5. UNCHANGED <<buttons, x, y, mouseClicked, late>>
  BY DEF Send, driverVars
<1> QED
  BY <1>3, <1>4, <1>5 DEF Device!Send, Unless, Wholes, Whole

LEMMA HandleImplements ==
  ASSUME MouseInv, MouseInv', ~late, HandleInterrupt
  PROVE  Device!Handle \/ UNCHANGED Device!deviceVars
<1>1. /\ sent \in Seq(Reports) /\ sent' \in Seq(Reports)
      /\ late' = late /\ offset \in 0 .. 2 /\ sent # <<>>
      /\ Len(wire) % 3 = 1 <=> offset = 2
  BY ThirdByte DEF MouseInv, MouseType, HandleInterrupt
<1>2. CASE offset # 2
  <2>1. sent' = sent /\ offset' # 0
    BY <1>1, <1>2 DEF HandleInterrupt
  <2>2. UNCHANGED <<sent, buttons, x, y, mouseClicked, late>>
    BY <1>1, <2>1 DEF HandleInterrupt
  <2> QED
    BY <2>2 DEF Device!deviceVars
<1>3. CASE offset = 2
  <2>1. sent' = Tail(sent) /\ offset' = 0
    BY <1>1, <1>3 DEF HandleInterrupt
  <2>2. /\ x' = Moved(x, Int8(buffer'[1]), Columns)
        /\ y' = Moved(y, -Int8(buffer'[2]), Rows)
        /\ mouseClicked' = (mouseClicked \/ Down(buffer'[0]) \ Down(buttons) # {})
        /\ buttons' = buffer'[0]
    BY <2>1 DEF HandleInterrupt, Dispatch
  <2>3. buffer'[0] = sent[1][1] /\ buffer'[1] = sent[1][2] /\ buffer'[2] = sent[1][3]
    <3>1. /\ buffer \in [0 .. 2 -> Byte]
          /\ buffer' = [buffer EXCEPT ![2] = wire[1]]
          /\ Len(wire) \in Nat /\ Len(wire) # 0
      BY <1>3 DEF MouseInv, MouseType, HandleInterrupt
    <3>2. /\ wire[1] = sent[(2 \div 3) + 1][(2 % 3) + 1]
          /\ buffer[0] = sent[(0 \div 3) + 1][(0 % 3) + 1]
          /\ buffer[1] = sent[(1 \div 3) + 1][(1 % 3) + 1]
      BY <1>3, <3>1 DEF MouseInv, Assembled, ByteOf
    <3> QED
      BY <3>1, <3>2
  <2>4. /\ sent[1] \in Reports /\ Wholes(sent) # <<>>
        /\ Head(Wholes(sent)) = Whole(sent[1])
        /\ Wholes(sent') = Tail(Wholes(sent))
    <3>1. /\ Len(sent) \in Nat \ {0} /\ Len(sent') = Len(sent) - 1
          /\ \A k \in 1 .. Len(sent') : sent'[k] = sent[k + 1]
          /\ sent[1] \in Reports
      BY <1>1, <2>1
    <3>2. /\ Wholes(sent) \in Seq({Whole(b) : b \in Reports})
          /\ Wholes(sent') \in Seq({Whole(b) : b \in Reports})
          /\ Len(Wholes(sent')) = Len(Wholes(sent)) - 1
          /\ Len(Wholes(sent)) \in Nat \ {0}
          /\ \A k \in 1 .. Len(Wholes(sent')) : Wholes(sent')[k] = Wholes(sent)[k + 1]
          /\ Wholes(sent)[1] = Whole(sent[1])
      <4>1. /\ Wholes(sent) \in Seq({Whole(b) : b \in Reports})
            /\ Len(Wholes(sent)) = Len(sent)
            /\ \A k \in 1 .. Len(sent) : Wholes(sent)[k] = Whole(sent[k])
        BY ONLY <1>1, WholesAreSeqs
      <4>2. /\ Wholes(sent') \in Seq({Whole(b) : b \in Reports})
            /\ Len(Wholes(sent')) = Len(sent')
            /\ \A k \in 1 .. Len(sent') : Wholes(sent')[k] = Whole(sent'[k])
        BY ONLY <1>1, WholesAreSeqs
      <4> QED
        BY ONLY <3>1, <4>1, <4>2
    <3>3. Wholes(sent) # <<>> /\ Head(Wholes(sent)) = Wholes(sent)[1]
      BY <3>2
    <3> QED
      BY <3>1, <3>2, <3>3, RestIsTail
  <2>5. /\ x \in Int /\ y \in Int /\ Columns \in Nat \ {0} /\ Rows \in Nat \ {0}
        /\ Int8(sent[1][2]) \in Int /\ Int8(sent[1][3]) \in Int
    <3>1. sent[1][2] \in Byte /\ sent[1][3] \in Byte
      BY <2>4, ReportsAreBytes
    <3>2. sent[1][2] \in Int /\ sent[1][3] \in Int
      BY <3>1 DEF Byte
    <3> QED
      BY <3>2, Int8IsInt DEF MouseInv, CursorOnScreen, Columns, Rows
  <2>6. /\ x' \in Device!Ends(x, Int8(sent[1][2]), Columns)
        /\ y' \in Device!Ends(y, -Int8(sent[1][3]), Rows)
    BY <2>2, <2>3, <2>5, MovedEnds
  <2>7. Device!Handle
    <3> DEFINE reports(s) == [k \in DOMAIN s |-> [buttons |-> Down(s[k][1]),
                                dx |-> Int8(s[k][2]), dy |-> Int8(s[k][3])]]
    <3>1. /\ reports(sent) # <<>> /\ reports(sent') = Tail(reports(sent))
          /\ Head(reports(sent)).buttons = Down(sent[1][1])
          /\ Head(reports(sent)).dx = Int8(sent[1][2])
          /\ Head(reports(sent)).dy = Int8(sent[1][3])
      BY <2>4 DEF Wholes, Whole
    <3>2. /\ x' \in Device!Ends(x, Head(reports(sent)).dx, Columns)
          /\ y' \in Device!Ends(y, -Head(reports(sent)).dy, Rows)
          /\ Down(buttons') = Head(reports(sent)).buttons
          /\ mouseClicked' =
               (mouseClicked \/ Head(reports(sent)).buttons \ Down(buttons) # {})
      BY <2>2, <2>3, <2>6, <3>1
    <3>3. late = FALSE /\ late' = FALSE
      BY <1>1 DEF MouseInv, MouseType
    <3> QED
      BY <3>1, <3>2, <3>3 DEF Device!Handle, Unless
  <2> QED
    BY <2>7
<1> QED
  BY <1>2, <1>3

(* Byte by byte, the driver does what a pointing device does report by     *)
(* report (mouse.cpp, HandleInterrupt, with OnMouseMove of kernel.cpp):    *)
(* ImplementsPointingDevice without its fairness.                          *)
THEOREM DriverIsPointingDevice ==
  MouseSpec => Device!Init /\ [][Device!Next]_(Device!deviceVars)
<1>1. MouseInit => Device!Init
  <2> SUFFICES ASSUME MouseInit PROVE Device!Init
    OBVIOUS
  <2>1. Unless(late, [k \in DOMAIN sent |->
                        [buttons |-> Down(sent[k][1]),
                         dx |-> Int8(sent[k][2]), dy |-> Int8(sent[k][3])]], <<>>) = <<>>
    <3>1. Len(Wholes(sent)) = 0 /\ Wholes(sent) \in Seq({Whole(b) : b \in Reports})
      <4>1. sent \in Seq(Reports) /\ Len(sent) = 0
        BY DEF MouseInit
      <4> QED
        BY <4>1, WholesAreSeqs
    <3> QED
      BY <3>1 DEF Wholes, Whole, Unless
  <2>2. Unless(late, Down(buttons), {}) = {}
    BY DEF MouseInit, Unless, Down
  <2>3. /\ Unless(late, x, 0) \in 0 .. Columns - 1
        /\ Unless(late, y, 0) \in 0 .. Rows - 1
        /\ Unless(late, mouseClicked, FALSE) = FALSE
    BY DEF MouseInit, Unless, Columns, Rows
  <2> QED
    BY <2>1, <2>2, <2>3 DEF Device!Init
<1>2. MouseInv /\ MouseInv' /\ [MouseNext]_mouseVars
        => [Device!Next]_(Device!deviceVars)
  <2> SUFFICES ASSUME MouseInv, MouseInv', [MouseNext]_mouseVars
               PROVE  Device!Next \/ UNCHANGED Device!deviceVars
    OBVIOUS
  <2>1. CASE late
    <3>1. late' = late
      BY <2>1 DEF MouseNext, Send, HandleInterrupt, IsMouseClicked, mouseVars
    <3> QED
      BY <2>1, <3>1 DEF Device!deviceVars, Unless
  <2>2. CASE ~late
    <3>1. ASSUME NEW report \in Reports, Send(report) PROVE Device!Next
      BY <2>2, <3>1, SendImplements DEF Device!Next
    <3>2. CASE HandleInterrupt
      BY <2>2, <3>2, HandleImplements DEF Device!Next
    <3>3. CASE IsMouseClicked
      BY <2>2, <3>3 DEF IsMouseClicked, driverVars, Device!Next, Device!Ask, Unless
    <3>4. CASE UNCHANGED mouseVars
      BY <3>4 DEF mouseVars, driverVars, Device!deviceVars
    <3> QED
      BY <3>1, <3>2, <3>3, <3>4 DEF MouseNext
  <2> QED
    BY <2>1, <2>2
<1> QED
  BY <1>1, <1>2, MouseInitially, MouseStep, PTL DEF MouseSpec

-----------------------------------------------------------------------------
(* The desktop                                                             *)

Window == [x : Int, y : Int, w : Nat, h : Nat, Dragging : BOOLEAN]

DesktopType ==
  /\ MouseX \in Int /\ MouseY \in Int
  /\ windows \in [1 .. Len(Windows) -> Window]

(* FirstWindowFollows, of the window itself.                               *)
Follows ==
  1 \in DOMAIN windows /\ windows[1].Dragging =>
    /\ 1 \in pressed
    /\ grip = <<MouseX - windows[1].x, MouseY - windows[1].y>>
    /\ ContainsCoordinate(windows[1], MouseX, MouseY)

DesktopInv == DesktopType /\ Follows

-----------------------------------------------------------------------------
LEMMA WindowCount == Len(Windows) \in Nat /\ DOMAIN Windows = 1 .. Len(Windows)
BY DesktopAssumption

(* The first window is the first under every point in it.                  *)
LEMMA FirstIsFirst ==
  ASSUME NEW children, 1 \in DOMAIN children, NEW px, NEW py
  PROVE  1 \in FirstAt(children, px, py) <=> ContainsCoordinate(children[1], px, py)
BY DEF FirstAt

LEMMA PlacesAreNumbers ==
  /\ \A d \in Int : Quarter(d) \in Int
  /\ \A p \in Int : Clamp(p, Width) \in Int /\ Clamp(p, Height) \in Int
<1>1. \A d \in Int : Quarter(d) \in Int
  BY DEF Quarter
<1>2. \A p \in Int : Clamp(p, Width) \in Int /\ Clamp(p, Height) \in Int
  BY DesktopAssumption DEF Clamp
<1> QED
  BY <1>1, <1>2

(* A window that is moved and dragged is shifted, another one stays.       *)
LEMMA DragShifts ==
  ASSUME NEW children, \A i \in DOMAIN children : children[i] \in Window,
         NEW which, NEW dx \in Int, NEW dy \in Int
  PROVE  LET moved == Drag(children, which, dx, dy)
         IN  /\ DOMAIN moved = DOMAIN children
             /\ moved \in [DOMAIN children -> Window]
             /\ \A i \in DOMAIN children :
                  /\ moved[i] \in Window
                  /\ moved[i].Dragging = children[i].Dragging
                  /\ moved[i].w = children[i].w /\ moved[i].h = children[i].h
                  /\ IF i \in which /\ children[i].Dragging
                     THEN moved[i].x = children[i].x + dx /\ moved[i].y = children[i].y + dy
                     ELSE moved[i].x = children[i].x /\ moved[i].y = children[i].y
<1> DEFINE moved == Drag(children, which, dx, dy)
<1>1. DOMAIN moved = DOMAIN children
  BY DEF Drag
<1>2. ASSUME NEW i \in DOMAIN children
      PROVE  /\ moved[i] \in Window
             /\ moved[i].Dragging = children[i].Dragging
             /\ moved[i].w = children[i].w /\ moved[i].h = children[i].h
             /\ IF i \in which /\ children[i].Dragging
                THEN moved[i].x = children[i].x + dx /\ moved[i].y = children[i].y + dy
                ELSE moved[i].x = children[i].x /\ moved[i].y = children[i].y
  <2>1. children[i] \in Window
    OBVIOUS
  <2>2. CASE i \in which /\ children[i].Dragging
    <3>1. moved[i] = [children[i] EXCEPT !.x = @ + dx, !.y = @ + dy]
      BY <2>2 DEF Drag
    <3>2. children[i].x + dx \in Int /\ children[i].y + dy \in Int
      BY <2>1 DEF Window
    <3> HIDE DEF moved
    <3>3. /\ moved[i] \in Window
          /\ moved[i].x = children[i].x + dx /\ moved[i].y = children[i].y + dy
          /\ moved[i].w = children[i].w /\ moved[i].h = children[i].h
          /\ moved[i].Dragging = children[i].Dragging
      BY <2>1, <3>1, <3>2 DEF Window
    <3> QED
      BY <2>2, <3>3
  <2>3. CASE ~(i \in which /\ children[i].Dragging)
    <3>1. moved[i] = children[i]
      BY <2>3 DEF Drag
    <3> HIDE DEF moved
    <3> QED
      BY <2>1, <2>3, <3>1
  <2> QED
    BY <2>2, <2>3
<1>3. moved = [i \in DOMAIN children |-> moved[i]]
  BY DEF Drag
<1> HIDE DEF moved
<1>4. moved \in [DOMAIN children -> Window]
  BY <1>2, <1>3
<1> QED
  BY <1>1, <1>2, <1>4 DEF moved

LEMMA MoveKeeps ==
  ASSUME DesktopInv, NEW dX \in Int, NEW dY \in Int, OnMouseMove(dX, dY)
  PROVE  DesktopInv'
<1> DEFINE dx    == MouseX' - MouseX
           dy    == MouseY' - MouseY
           under == FirstAt(windows, MouseX, MouseY)
           moved == Drag(windows, under, dx, dy)
           next  == FirstAt(moved, MouseX', MouseY') \ under
<1>1. MouseX' \in Int /\ MouseY' \in Int
  <2>1. Quarter(dX) \in Int /\ Quarter(dY) \in Int /\ MouseX \in Int /\ MouseY \in Int
    BY PlacesAreNumbers DEF DesktopInv, DesktopType
  <2>2. MouseX + Quarter(dX) \in Int /\ MouseY + Quarter(dY) \in Int
    BY <2>1
  <2> QED
    BY <2>2, PlacesAreNumbers DEF OnMouseMove
<1>2. dx \in Int /\ dy \in Int
  BY <1>1 DEF DesktopInv, DesktopType
<1>3. windows' = Drag(moved, next, dx, dy) /\ UNCHANGED <<pressed, grip>>
  BY DEF OnMouseMove, MoveTo
<1> HIDE DEF dx, dy, under, next
<1>4. /\ DOMAIN moved = DOMAIN windows
      /\ moved \in [DOMAIN windows -> Window]
      /\ \A i \in DOMAIN windows :
           /\ moved[i] \in Window
           /\ moved[i].Dragging = windows[i].Dragging
           /\ moved[i].w = windows[i].w /\ moved[i].h = windows[i].h
           /\ IF i \in under /\ windows[i].Dragging
              THEN moved[i].x = windows[i].x + dx /\ moved[i].y = windows[i].y + dy
              ELSE moved[i].x = windows[i].x /\ moved[i].y = windows[i].y
  BY <1>2, DragShifts DEF DesktopInv, DesktopType
<1> HIDE DEF moved
<1>5. /\ DOMAIN windows' = DOMAIN moved
      /\ windows' \in [DOMAIN moved -> Window]
      /\ \A i \in DOMAIN moved :
           /\ windows'[i] \in Window
           /\ windows'[i].Dragging = moved[i].Dragging
           /\ windows'[i].w = moved[i].w /\ windows'[i].h = moved[i].h
           /\ IF i \in next /\ moved[i].Dragging
              THEN windows'[i].x = moved[i].x + dx /\ windows'[i].y = moved[i].y + dy
              ELSE windows'[i].x = moved[i].x /\ windows'[i].y = moved[i].y
  BY <1>2, <1>3, <1>4, DragShifts
<1>6. ASSUME 1 \in DOMAIN windows', windows'[1].Dragging
      PROVE  /\ 1 \in pressed'
             /\ grip' = <<MouseX' - windows'[1].x, MouseY' - windows'[1].y>>
             /\ ContainsCoordinate(windows'[1], MouseX', MouseY')
  <2>1. 1 \in DOMAIN windows /\ windows[1].Dragging /\ windows[1] \in Window
    BY <1>4, <1>5, <1>6 DEF DesktopInv, DesktopType
  <2>2. /\ 1 \in pressed
        /\ grip = <<MouseX - windows[1].x, MouseY - windows[1].y>>
        /\ ContainsCoordinate(windows[1], MouseX, MouseY)
    BY <2>1 DEF DesktopInv, Follows
  <2>3. 1 \in under /\ 1 \notin next
    BY <2>1, <2>2, FirstIsFirst DEF under, next
  <2>4. /\ windows'[1].x = windows[1].x + dx /\ windows'[1].y = windows[1].y + dy
        /\ windows'[1].w = windows[1].w /\ windows'[1].h = windows[1].h
    BY <1>4, <1>5, <2>1, <2>3
  <2>5. MouseX' = MouseX + dx /\ MouseY' = MouseY + dy /\ MouseX \in Int /\ MouseY \in Int
    <3>1. MouseX \in Int /\ MouseY \in Int
      BY DEF DesktopInv, DesktopType
    <3>2. \A a, b \in Int : b = a + (b - a)
      OBVIOUS
    <3> QED
      BY <1>1, <3>1, <3>2 DEF dx, dy
  <2>6. /\ MouseX' - windows'[1].x = MouseX - windows[1].x
        /\ MouseY' - windows'[1].y = MouseY - windows[1].y
    BY <1>2, <2>1, <2>4, <2>5 DEF Window
  <2>7. ContainsCoordinate(windows'[1], MouseX', MouseY')
    BY <1>2, <2>1, <2>2, <2>4, <2>5 DEF Window, ContainsCoordinate
  <2> QED
    BY <1>3, <2>2, <2>6, <2>7
<1>7. DesktopType'
  BY <1>1, <1>4, <1>5 DEF DesktopInv, DesktopType
<1> QED
  BY <1>6, <1>7 DEF DesktopInv, Follows

(* Setting Dragging moves nothing.                                         *)
LEMMA SetDraggingKeeps ==
  ASSUME DesktopType, NEW which, NEW value \in BOOLEAN, SetDragging(which, value)
  PROVE  /\ DOMAIN windows' = DOMAIN windows
         /\ windows' \in [DOMAIN windows -> Window]
         /\ \A i \in DOMAIN windows :
              /\ windows'[i] \in Window
              /\ windows'[i].x = windows[i].x /\ windows'[i].y = windows[i].y
              /\ windows'[i].w = windows[i].w /\ windows'[i].h = windows[i].h
              /\ windows'[i].Dragging = IF i \in which THEN value ELSE windows[i].Dragging
<1>1. DOMAIN windows' = DOMAIN windows
  BY DEF SetDragging
<1>2. ASSUME NEW i \in DOMAIN windows
      PROVE  /\ windows'[i] \in Window
             /\ windows'[i].x = windows[i].x /\ windows'[i].y = windows[i].y
             /\ windows'[i].w = windows[i].w /\ windows'[i].h = windows[i].h
             /\ windows'[i].Dragging = IF i \in which THEN value ELSE windows[i].Dragging
  <2>1. windows[i] \in Window
    BY DEF DesktopType
  <2>2. windows'[i] = IF i \in which THEN [windows[i] EXCEPT !.Dragging = value] ELSE windows[i]
    BY DEF SetDragging
  <2> QED
    BY <2>1, <2>2 DEF Window
<1>3. windows' \in [DOMAIN windows -> Window]
  <2>1. windows' = [i \in DOMAIN windows |-> windows'[i]]
    BY DEF SetDragging
  <2> QED
    BY <1>2, <2>1
<1> QED
  BY <1>1, <1>2, <1>3

LEMMA DownKeeps ==
  ASSUME DesktopInv, NEW button \in Buttons, OnMouseDown(button)
  PROVE  DesktopInv'
<1> DEFINE under == FirstAt(windows, MouseX, MouseY)
<1>0. PICK value \in BOOLEAN : (value <=> button = 1) /\ SetDragging(under, value)
  <2>1. SetDragging(under, button = 1)
    BY DEF OnMouseDown
  <2> HIDE DEF under
  <2>2. CASE button = 1
    <3>1. SetDragging(under, TRUE)
      BY <2>1, <2>2, Zenon
    <3> QED
      BY <2>2, <3>1
  <2>3. CASE button # 1
    <3>1. SetDragging(under, FALSE)
      BY <2>1, <2>3, Zenon
    <3> QED
      BY <2>3, <3>1
  <2> QED
    BY <2>2, <2>3
<1>1. /\ DOMAIN windows' = DOMAIN windows
      /\ windows' \in [DOMAIN windows -> Window]
      /\ \A i \in DOMAIN windows :
           /\ windows'[i] \in Window
           /\ windows'[i].x = windows[i].x /\ windows'[i].y = windows[i].y
           /\ windows'[i].w = windows[i].w /\ windows'[i].h = windows[i].h
           /\ windows'[i].Dragging = IF i \in under THEN value ELSE windows[i].Dragging
  BY <1>0, SetDraggingKeeps DEF DesktopInv
<1>2. /\ UNCHANGED <<MouseX, MouseY>> /\ pressed' = pressed \cup {button}
      /\ grip' = IF 1 \in under /\ button = 1
                 THEN <<MouseX - windows[1].x, MouseY - windows[1].y>> ELSE grip
  BY DEF OnMouseDown
<1> HIDE DEF under
<1>3. ASSUME 1 \in DOMAIN windows', windows'[1].Dragging
      PROVE  /\ 1 \in pressed'
             /\ grip' = <<MouseX' - windows'[1].x, MouseY' - windows'[1].y>>
             /\ ContainsCoordinate(windows'[1], MouseX', MouseY')
  <2>1. 1 \in DOMAIN windows
    BY <1>1, <1>3
  <2>2. 1 \in under <=> ContainsCoordinate(windows[1], MouseX, MouseY)
    BY <2>1, FirstIsFirst DEF under
  <2>3. 1 \in under /\ button = 1
    <3>1. CASE 1 \in under
      BY <1>0, <1>1, <1>3, <2>1, <3>1
    <3>2. CASE 1 \notin under
      BY <1>1, <1>3, <2>1, <2>2, <3>2 DEF DesktopInv, Follows
    <3> QED
      BY <3>1, <3>2
  <2>4. ContainsCoordinate(windows'[1], MouseX', MouseY')
    BY <1>1, <1>2, <2>1, <2>2, <2>3 DEF ContainsCoordinate
  <2> QED
    BY <1>1, <1>2, <2>1, <2>3, <2>4
<1>4. DesktopType'
  BY <1>1, <1>2 DEF DesktopInv, DesktopType
<1> QED
  BY <1>3, <1>4 DEF DesktopInv, Follows

LEMMA UpKeeps ==
  ASSUME DesktopInv, NEW button \in Buttons, OnMouseUp(button)
  PROVE  DesktopInv'
<1> DEFINE under == FirstAt(windows, MouseX, MouseY)
<1>1. /\ DOMAIN windows' = DOMAIN windows
      /\ windows' \in [DOMAIN windows -> Window]
      /\ \A i \in DOMAIN windows :
           /\ windows'[i] \in Window
           /\ windows'[i].Dragging = IF i \in under THEN FALSE ELSE windows[i].Dragging
  BY SetDraggingKeeps DEF OnMouseUp, DesktopInv
<1> HIDE DEF under
<1>2. ~(1 \in DOMAIN windows' /\ windows'[1].Dragging)
  <2> SUFFICES ASSUME 1 \in DOMAIN windows, windows'[1].Dragging
               PROVE  FALSE
    BY <1>1
  <2>1. 1 \notin under /\ windows[1].Dragging
    BY <1>1
  <2>2. ContainsCoordinate(windows[1], MouseX, MouseY)
    BY <2>1 DEF DesktopInv, Follows
  <2> QED
    BY <2>1, <2>2, FirstIsFirst DEF under
<1>3. DesktopType'
  BY <1>1 DEF DesktopInv, DesktopType, OnMouseUp
<1> QED
  BY <1>2, <1>3 DEF DesktopInv, Follows

LEMMA DesktopStarts ==
  ASSUME DesktopInit
  PROVE  DesktopInv
<1>1. MouseX \in Int /\ MouseY \in Int
  BY DesktopAssumption DEF DesktopInit
<1>2. DOMAIN windows = 1 .. Len(Windows)
  BY WindowCount DEF DesktopInit
<1>3. ASSUME NEW i \in 1 .. Len(Windows)
      PROVE  windows[i] \in Window /\ ~windows[i].Dragging
  <2>1. Windows[i] \in [x : Nat, y : Nat, w : Nat, h : Nat]
    BY DesktopAssumption, ElementOfSeq
  <2>2. windows[i] = [x |-> Windows[i].x, y |-> Windows[i].y,
                      w |-> Windows[i].w, h |-> Windows[i].h, Dragging |-> FALSE]
    BY WindowCount DEF DesktopInit
  <2> QED
    BY <2>1, <2>2 DEF Window
<1>4. windows \in [1 .. Len(Windows) -> Window]
  <2>1. windows = [i \in DOMAIN windows |-> windows[i]]
    BY DEF DesktopInit
  <2> QED
    BY <1>2, <1>3, <2>1
<1> QED
  BY <1>1, <1>3, <1>4 DEF DesktopInv, DesktopType, Follows

LEMMA DesktopStays ==
  ASSUME DesktopInv, [DesktopNext]_desktopVars
  PROVE  DesktopInv'
<1>1. CASE UNCHANGED desktopVars
  BY <1>1 DEF desktopVars, DesktopInv, DesktopType, Follows, ContainsCoordinate
<1>2. ASSUME NEW move \in Moves, OnMouseMove(move[1], move[2])
      PROVE  DesktopInv'
  <2>1. move[1] \in Int /\ move[2] \in Int
    BY DesktopAssumption
  <2> QED
    BY <1>2, <2>1, MoveKeeps
<1> QED
  BY <1>1, <1>2, DownKeeps, UpKeeps DEF DesktopNext

(* However the mouse moves, also against the edges of the screen, whatever *)
(* buttons are pressed on the way and whatever windows there are: a first  *)
(* window that is dragged stays where it was gripped, under the mouse, and *)
(* is let go with the button (desktop.cpp 46-91, window.cpp).              *)
THEOREM FirstWindowAlwaysFollows == DesktopSpec => []FirstWindowFollows
<1>1. DesktopInv => FirstWindowFollows
  BY DEF DesktopInv, Follows, FirstWindowFollows
<1>2. DesktopSpec => []DesktopInv
  BY DesktopStarts, DesktopStays, PTL DEF DesktopSpec
<1> QED
  BY <1>1, <1>2, PTL

-----------------------------------------------------------------------------
(* Drawing.  The picture is defined by recursion over the windows; what it *)
(* is follows from a picture that solves the recursion, and from the least *)
(* window whose pixel would be another one's.                              *)

(* What the recursion says of a picture drawn from the last window to the  *)
(* first.                                                                  *)
Drawing(picture) ==
  picture = [i \in 1 .. Len(windows) + 1 |->
               [p \in Pixels |->
                  IF i > Len(windows) THEN 0
                  ELSE IF p \in FillRectangle(windows[i]) THEN i
                  ELSE picture[i + 1][p]]]

(* The first of the windows from i on that fills p.                        *)
FirstFilling(i, p) ==
  {j \in i .. Len(windows) :
     /\ p \in FillRectangle(windows[j])
     /\ \A k \in i .. j - 1 : p \notin FillRectangle(windows[k])}

Picture ==
  [i \in 1 .. Len(windows) + 1 |->
     [p \in Pixels |->
        IF \E j \in i .. Len(windows) : j \in FirstFilling(i, p)
        THEN CHOOSE j \in i .. Len(windows) : j \in FirstFilling(i, p) ELSE 0]]

(* The recursion has a solution.                                           *)
LEMMA PictureIsDrawing ==
  ASSUME Len(windows) \in Nat
  PROVE  Drawing(Picture)
<1> DEFINE last == Len(windows)
<1>1. ASSUME NEW i \in 1 .. last + 1, NEW p \in Pixels
      PROVE  Picture[i][p] = IF i > last THEN 0
                             ELSE IF p \in FillRectangle(windows[i]) THEN i
                             ELSE Picture[i + 1][p]
  <2>1. Picture[i][p] = IF \E j \in i .. last : j \in FirstFilling(i, p)
                        THEN CHOOSE j \in i .. last : j \in FirstFilling(i, p) ELSE 0
    BY DEF Picture
  <2>2. CASE i > last
    <3>1. ~ \E j \in i .. last : j \in FirstFilling(i, p)
      BY <2>2
    <3> QED
      BY <2>1, <2>2, <3>1
  <2>3. CASE i <= last /\ p \in FillRectangle(windows[i])
    <3>1. i \in FirstFilling(i, p) /\ i \in i .. last
      BY <2>3 DEF FirstFilling
    <3>2. \A j \in i .. last : j \in FirstFilling(i, p) => j = i
      <4>1. ASSUME NEW j \in i .. last, j \in FirstFilling(i, p), j # i
            PROVE  FALSE
        <5>1. i \in i .. j - 1
          BY <4>1
        <5> QED
          BY <5>1, <4>1, <2>3 DEF FirstFilling
      <4> QED
        BY <4>1
    <3> QED
      BY <2>1, <2>3, <3>1, <3>2
  <2>4. CASE i <= last /\ p \notin FillRectangle(windows[i])
    <3>1. Picture[i + 1][p] =
            IF \E j \in i + 1 .. last : j \in FirstFilling(i + 1, p)
            THEN CHOOSE j \in i + 1 .. last : j \in FirstFilling(i + 1, p) ELSE 0
      <4>1. i + 1 \in 1 .. last + 1
        BY <2>4
      <4> QED
        BY <4>1 DEF Picture
    <3>2. \A j : j \in i .. last /\ j \in FirstFilling(i, p)
                   <=> j \in i + 1 .. last /\ j \in FirstFilling(i + 1, p)
      <4> TAKE j
      <4>1. ASSUME j \in i .. last, j \in FirstFilling(i, p)
            PROVE  j \in i + 1 .. last /\ j \in FirstFilling(i + 1, p)
        <5>1. j # i
          BY <4>1, <2>4 DEF FirstFilling
        <5>2. j \in i + 1 .. last
          BY <4>1, <5>1
        <5>3. \A k \in i + 1 .. j - 1 : k \in i .. j - 1
          BY <5>2
        <5> QED
          BY <4>1, <5>2, <5>3 DEF FirstFilling
      <4>2. ASSUME j \in i + 1 .. last, j \in FirstFilling(i + 1, p)
            PROVE  j \in i .. last /\ j \in FirstFilling(i, p)
        <5>1. j \in i .. last
          BY <4>2
        <5>2. \A k \in i .. j - 1 : k = i \/ k \in i + 1 .. j - 1
          BY <4>2
        <5>3. \A k \in i .. j - 1 : p \notin FillRectangle(windows[k])
          BY <4>2, <5>2, <2>4 DEF FirstFilling
        <5> QED
          BY <4>2, <5>1, <5>3 DEF FirstFilling
      <4> QED
        BY <4>1, <4>2
    <3>3. (CHOOSE j \in i .. last : j \in FirstFilling(i, p))
            = CHOOSE j \in i + 1 .. last : j \in FirstFilling(i + 1, p)
      BY <3>2
    <3>4. (\E j \in i .. last : j \in FirstFilling(i, p))
            <=> \E j \in i + 1 .. last : j \in FirstFilling(i + 1, p)
      BY <3>2
    <3>5. ~(i > last) /\ p \notin FillRectangle(windows[i])
      BY <2>4
    <3> HIDE DEF Picture, FirstFilling
    <3> QED
      BY <2>1, <3>1, <3>3, <3>4, <3>5, Zenon
  <2> QED
    BY <2>2, <2>3, <2>4
<1> DEFINE Right(i) == [p \in Pixels |->
                          IF i > last THEN 0
                          ELSE IF p \in FillRectangle(windows[i]) THEN i
                          ELSE Picture[i + 1][p]]
<1>2. ASSUME NEW i \in 1 .. last + 1 PROVE Picture[i] = Right(i)
  <2>1. Picture[i] = [p \in Pixels |-> Picture[i][p]]
    BY DEF Picture
  <2> QED
    BY <2>1, <1>1
<1>3. Picture = [i \in 1 .. last + 1 |-> Picture[i]]
  BY DEF Picture
<1> HIDE DEF Right
<1>4. Picture = [i \in 1 .. last + 1 |-> Right(i)]
  BY <1>2, <1>3
<1> QED
  BY <1>4 DEF Right, Drawing

(* So the screen is the first layer of one.                                *)
LEMMA ScreenIsDrawn ==
  ASSUME Len(windows) \in Nat
  PROVE  \E picture : Drawing(picture) /\ Screen = picture[1]
<1>1. Screen = (CHOOSE picture : Drawing(picture))[1]
  BY DEF Screen, Drawing
<1>2. Drawing(CHOOSE picture : Drawing(picture))
  BY PictureIsDrawing
<1> QED
  BY <1>1, <1>2

(* The first window that fills a pixel is the one that is seen there.      *)
LEMMA FirstFillingIsSeen ==
  ASSUME Len(windows) \in Nat, NEW picture, Drawing(picture), NEW p \in Pixels,
         NEW i \in 1 .. Len(windows), i \in FirstFilling(1, p)
  PROVE  picture[1][p] = i
<1> DEFINE last == Len(windows)
<1>1. ASSUME NEW k \in 1 .. last
      PROVE  picture[k][p] = IF p \in FillRectangle(windows[k]) THEN k
                             ELSE picture[k + 1][p]
  <2>1. k \in 1 .. last + 1 /\ ~(k > last)
    OBVIOUS
  <2>2. picture[k] = [q \in Pixels |->
                        IF k > last THEN 0
                        ELSE IF q \in FillRectangle(windows[k]) THEN k
                        ELSE picture[k + 1][q]]
    BY <2>1 DEF Drawing
  <2> QED
    BY <2>1, <2>2
<1>2. /\ p \in FillRectangle(windows[i])
      /\ \A k \in 1 .. i - 1 : p \notin FillRectangle(windows[k])
  BY DEF FirstFilling
<1> DEFINE wrong == {d \in Nat : d < i /\ picture[i - d][p] # i}
<1>3. wrong = {}
  <2> SUFFICES ASSUME wrong # {} PROVE FALSE
    OBVIOUS
  <2>1. wrong \in SUBSET Nat
    OBVIOUS
  <2>2. PICK d \in wrong : \A e \in wrong : d <= e
    BY <2>1, NatSetHasMin
  <2>3. d \in Nat /\ d < i /\ picture[i - d][p] # i
    BY <2>2
  <2>4. d # 0
    <3>1. picture[i][p] = i
      BY <1>1, <1>2
    <3>2. i - 0 = i
      OBVIOUS
    <3> QED
      BY <2>3, <3>1, <3>2
  <2>5. d - 1 \in Nat /\ d - 1 < i /\ d - 1 \notin wrong
    BY <2>2, <2>3, <2>4
  <2>6. picture[i - (d - 1)][p] = i
    BY <2>5
  <2>7. i - d \in 1 .. i - 1 /\ i - d \in 1 .. last /\ (i - d) + 1 = i - (d - 1)
    BY <2>3, <2>4
  <2>8. picture[i - d][p] = picture[(i - d) + 1][p]
    BY <1>1, <1>2, <2>7
  <2> QED
    BY <2>3, <2>6, <2>7, <2>8
<1>4. i - 1 \in Nat /\ i - 1 < i /\ i - (i - 1) = 1
  OBVIOUS
<1>5. i - 1 \notin wrong
  BY <1>3
<1> QED
  BY <1>4, <1>5

LEMMA WindowsAreSeq ==
  ASSUME DesktopType
  PROVE  Len(windows) \in Nat /\ DOMAIN windows = 1 .. Len(windows)
<1>1. Len(Windows) \in Nat
  BY WindowCount
<1>2. windows \in Seq(Window)
  BY <1>1, FunctionsAreSeqs DEF DesktopType
<1> QED
  BY <1>2, LenProperties

LEMMA ClickIsSeen == DesktopType => ClickGoesWhereSeen
<1> SUFFICES ASSUME DesktopType, NEW p \in Pixels, NEW i \in FirstAt(windows, p[1], p[2]),
                    windows[i].x >= 0, windows[i].y >= 0
             PROVE  Screen[p] = i
  BY DEF ClickGoesWhereSeen
<1>1. Len(windows) \in Nat /\ DOMAIN windows = 1 .. Len(windows)
  BY WindowsAreSeq
<1>2. /\ i \in 1 .. Len(windows)
      /\ ContainsCoordinate(windows[i], p[1], p[2])
      /\ \A j \in 1 .. i - 1 : ~ContainsCoordinate(windows[j], p[1], p[2])
  BY <1>1 DEF FirstAt
<1>3. windows[i].x \in Int /\ windows[i].y \in Int
  BY <1>1, <1>2 DEF DesktopType, Window
<1>4. p \in FillRectangle(windows[i])
  BY <1>2, <1>3 DEF FillRectangle
<1>5. \A j \in 1 .. i - 1 : p \notin FillRectangle(windows[j])
  BY <1>2 DEF FillRectangle
<1>6. i \in FirstFilling(1, p)
  BY <1>2, <1>4, <1>5 DEF FirstFilling
<1>7. PICK picture : Drawing(picture) /\ Screen = picture[1]
  BY <1>1, ScreenIsDrawn
<1> QED
  BY <1>1, <1>2, <1>6, <1>7, FirstFillingIsSeen

(* Wherever the windows have been dragged, a click on a pixel reaches the  *)
(* window that is seen there, unless that window has been dragged over the *)
(* left or the upper edge.  For every screen and every number of windows.  *)
THEOREM ClicksAlwaysGoWhereSeen == DesktopSpec => []ClickGoesWhereSeen
<1>1. DesktopInv => ClickGoesWhereSeen
  BY ClickIsSeen DEF DesktopInv
<1> QED
  BY <1>1, DesktopStarts, DesktopStays, PTL DEF DesktopSpec

-----------------------------------------------------------------------------
(* The disk: the words of a sector that holds some bytes, then zeros.      *)

ByteAt(bytes, i) == IF i < Len(bytes) THEN bytes[i + 1] ELSE 0
WordAt(bytes, i) == <<ByteAt(bytes, i), ByteAt(bytes, i + 1)>>
Image(bytes) == [k \in 1 .. Words |-> WordAt(bytes, 2 * (k - 1))]

Bytes == Seq(0 .. 255)
WordPairs == (0 .. 255) \X (0 .. 255)

Transfer == [step : {"poll", "read", "got", "write"}, sector : Reachable,
             count : Int, i : Int, words : Bytes]

Drives ==
  [mode : {"idle", "reading", "give", "preparing", "take", "writing", "flushing"},
   left : 0 .. Words, words : Seq(WordPairs), error : BOOLEAN]

DiskTypes ==
  /\ drive \in Drives
  /\ call \in [step : {"idle", "flush"}] \cup Transfer
  /\ disk \in [Addresses -> [1 .. Words -> WordPairs]]
  /\ written \in [Addresses -> [by : SUBSET Reachable, bytes : Bytes]]

(* How many words of the sector have passed.                               *)
Passed == Words - drive.left

OnSector == Address(registers) = Key(call.sector)

(* The driver's counter is this many words on its way.                     *)
Further(m) == m \in Nat /\ call.i = FirstI(call.count) + 2 * m

(* How many bytes the driver keeps until its counter is at i.              *)
Kept(i, count) == IF count <= 0 THEN 0 ELSE IF i < count THEN i ELSE count

(* The driver has the first bytes of the sector.                           *)
HasRead(n) ==
  /\ Len(call.words) = n
  /\ Key(call.sector) \notin failed =>
       \A k \in 1 .. n : k <= 2 * Words =>
         call.words[k] = ByteAt(written[Key(call.sector)].bytes, k - 1)

(* Where the drive is when the driver waits, reads or writes; when it has  *)
(* nothing more to give, the driver's counter is past the sector.          *)
Waits ==
  /\ \/ drive.mode \in {"reading", "give"} /\ drive.left = Words /\ ~drive.error /\ OnSector
     \/ drive.mode = "idle" /\ drive.error
  /\ Further(0) /\ call.words = <<>>

Reads ==
  /\ \/ drive.mode = "give" /\ drive.left > 0 /\ OnSector /\ Further(Passed)
     \/ drive.mode = "idle" /\ \E m \in Nat : m >= Words /\ Further(m)
  /\ HasRead(Kept(call.i, call.count))

Writes ==
  \/ /\ drive.mode \in {"preparing", "take"} /\ drive.left > 0 /\ OnSector
     /\ Further(Passed)
     /\ call.count = Len(call.words) /\ call.count <= 2 * Words
     /\ Len(drive.words) = Passed
     /\ \A k \in 1 .. Passed : drive.words[k] = WordAt(call.words, 2 * (k - 1))
  \/ drive.mode = "idle"

InStep ==
  /\ call.step = "idle" => drive.mode \in {"idle", "writing"}
  /\ call.step = "flush" => drive.mode \in {"idle", "flushing"}
  /\ call.step = "poll" => Waits
  /\ call.step = "read" => Reads
  /\ call.step = "got" => drive.mode = "idle" /\ HasRead(Kept(call.count, call.count))
  /\ call.step = "write" => Writes

(* Every sector holds what was last written there, unless that has failed, *)
(* or the drive is about to write that.                                    *)
SectorsHold ==
  /\ drive.mode = "give" => drive.words = disk[Address(registers)]
  /\ drive.mode = "writing" =>
       /\ Address(registers) \in Addresses
       /\ drive.words = Image(written[Address(registers)].bytes)
  /\ \A a \in Addresses :
       \/ disk[a] = Image(written[a].bytes)
       \/ a \in failed
       \/ drive.mode = "writing" /\ a = Address(registers)

Sound == DiskTypes /\ InStep /\ SectorsHold

(* As long as nothing was written to a drive that was not ready for it.    *)
DiskInv == ignored \/ Sound

LEMMA ByteTypes ==
  ASSUME NEW bytes \in Bytes
  PROVE  /\ \A i \in Nat : ByteAt(bytes, i) \in 0 .. 255 /\ WordAt(bytes, i) \in WordPairs
         /\ Image(bytes) \in [1 .. Words -> WordPairs]
<1>1. ASSUME NEW i \in Nat PROVE ByteAt(bytes, i) \in 0 .. 255
  <2>1. Len(bytes) \in Nat /\ 0 \in 0 .. 255
    BY DEF Bytes
  <2>2. CASE i < Len(bytes)
    <3>1. i + 1 \in 1 .. Len(bytes)
      BY <2>1, <2>2
    <3>2. bytes[i + 1] \in 0 .. 255
      BY <3>1, ElementOfSeq DEF Bytes
    <3>. QED BY <2>2, <3>2 DEF ByteAt
  <2>3. CASE ~(i < Len(bytes))
    BY <2>1, <2>3 DEF ByteAt
  <2>. QED BY <2>2, <2>3
<1>2. ASSUME NEW i \in Nat PROVE WordAt(bytes, i) \in WordPairs
  BY <1>1 DEF WordAt, WordPairs
<1>3. ASSUME NEW k \in 1 .. Words PROVE WordAt(bytes, 2 * (k - 1)) \in WordPairs
  BY <1>2, DiskAssumption
<1>. QED BY <1>1, <1>2, <1>3 DEF Image

(* The loops' counter starts at zero, or below if the count is negative.   *)
LEMMA FirstIs ==
  ASSUME NEW count \in Int
  PROVE  /\ FirstI(count) \in Int /\ FirstI(count) <= 0
         /\ count >= 0 => FirstI(count) = 0
<1>1. CASE count > 0
  BY <1>1 DEF FirstI
<1>2. CASE count = 0
  BY <1>2 DEF FirstI, Even, Remainder
<1>3. CASE count < 0
  <2>1. -count \in Nat /\ -count % 2 \in 0 .. 1
    BY <1>3
  <2>2. FirstI(count) = count - (-count % 2)
    BY <1>3, <2>1 DEF FirstI, Even, Remainder
  <2>. QED BY <1>3, <2>1, <2>2
<1>. QED BY <1>1, <1>2, <1>3

(* The second loop goes on where the first one ends, one word further,     *)
(* whatever the count.                                                     *)
LEMMA NextIsTwoFurther ==
  ASSUME NEW m, Further(m), call.count \in Int
  PROVE  /\ NextI = call.i + 2 /\ call.i \in Int /\ NextI = FirstI(call.count) + 2 * (m + 1)
         /\ InFirstLoop => call.count > 0 /\ call.i = 2 * m
         /\ call.i <= 2 * m
<1>1. /\ FirstI(call.count) \in Int /\ m \in Nat /\ call.i = FirstI(call.count) + 2 * m
      /\ FirstI(call.count) <= 0
  BY FirstIs DEF Further
<1>2. InFirstLoop => call.count > 0 /\ call.i = 2 * m
  BY <1>1, FirstIs DEF InFirstLoop
<1>3. ASSUME InFirstLoop, call.i + 2 >= call.count
      PROVE  Even(call.count) = call.i + 2
  <2>1. call.count > 0 /\ call.i < call.count /\ call.i = 2 * m
    BY <1>2, <1>3 DEF InFirstLoop
  <2>2. CASE call.count = 2 * m + 1
    BY <1>1, <2>1, <2>2 DEF Even, Remainder
  <2>3. CASE call.count = 2 * m + 2
    BY <1>1, <2>1, <2>3 DEF Even, Remainder
  <2>4. call.count = 2 * m + 1 \/ call.count = 2 * m + 2
    BY <1>1, <1>3, <2>1
  <2>. QED BY <2>2, <2>3, <2>4
<1>4. NextI = call.i + 2
  BY <1>3 DEF NextI
<1>5. FirstI(call.count) + 2 * m + 2 = FirstI(call.count) + 2 * (m + 1)
  BY <1>1
<1>. QED BY <1>1, <1>2, <1>4, <1>5

(* As long as the drive has words, the loops go on to the next one.        *)
LEMMA OneWordFurther ==
  ASSUME DiskTypes, call \in Transfer, drive.left > 0, Further(Passed)
  PROVE  /\ Words \in Nat /\ drive.left \in 1 .. Words
         /\ Passed \in Nat /\ Passed < Words
         /\ drive.left - 1 \in 0 .. Words /\ Words - (drive.left - 1) = Passed + 1
         /\ drive.left > 1 => GoesOn
         /\ Words - drive.left + 1 = Passed + 1 /\ Passed + 1 \in 1 .. Words
<1>1. Words \in Nat /\ drive.left \in 1 .. Words
  BY DiskAssumption DEF DiskTypes, Drives
<1>2. Passed \in Nat /\ Passed < Words
  BY <1>1 DEF Passed
<1>3. NextI = call.i + 2 /\ call.i <= 2 * Passed /\ call.i \in Int
  BY NextIsTwoFurther DEF Transfer
<1>4. drive.left > 1 => GoesOn
  BY <1>1, <1>2, <1>3 DEF GoesOn, Passed
<1>. QED BY <1>1, <1>2, <1>4 DEF Passed

LEMMA DiskInitSound == DiskInit => Sound
<1>. SUFFICES ASSUME DiskInit PROVE Sound
  OBVIOUS
<1>1. <<>> \in Bytes /\ <<>> \in Seq(WordPairs) /\ Words \in Nat
  BY DiskAssumption DEF Bytes
<1>2. Image(<<>>) = EmptySector
  <2>1. \A i \in Nat : ByteAt(<<>>, i) = 0
    BY DEF ByteAt
  <2>2. \A k \in 1 .. Words : WordAt(<<>>, 2 * (k - 1)) = <<0, 0>>
    <3>. SUFFICES ASSUME NEW k \in 1 .. Words PROVE WordAt(<<>>, 2 * (k - 1)) = <<0, 0>>
      OBVIOUS
    <3>1. 2 * (k - 1) \in Nat /\ 2 * (k - 1) + 1 \in Nat
      BY <1>1
    <3>. QED BY <2>1, <3>1 DEF WordAt
  <2>. QED BY <2>2 DEF Image, EmptySector
<1>3. EmptySector \in [1 .. Words -> WordPairs]
  BY <1>1, <1>2, ByteTypes
<1>4. DiskTypes
  BY <1>1, <1>3 DEF DiskInit, DiskTypes, Idle, Drives
<1>5. InStep
  BY DEF DiskInit, InStep, Idle
<1>6. SectorsHold
  BY <1>2 DEF DiskInit, SectorsHold, Idle
<1>. QED BY <1>4, <1>5, <1>6 DEF Sound

LEMMA Read28Sound ==
  ASSUME Sound, NEW s \in Reachable, NEW count \in Counts, Read28(s, count), ~ignored'
  PROVE  Sound'
<1>1. call.step = "idle" /\ drive.mode = "idle"
  BY DEF Sound, InStep, Read28, Command, Busy
<1>2. /\ registers' = Registers(s)
      /\ drive' = [mode |-> "reading", left |-> Words, words |-> <<>>, error |-> FALSE]
      /\ call' = [step |-> "poll", sector |-> s, count |-> count, i |-> FirstI(count),
                  words |-> <<>>]
      /\ UNCHANGED <<disk, failed, written>>
  BY <1>1 DEF Read28, Command, Busy
<1>3. /\ <<>> \in Bytes /\ <<>> \in Seq(WordPairs) /\ Words \in 0 .. Words
      /\ count \in Int /\ FirstI(count) \in Int
  BY DiskAssumption, FirstIs DEF Bytes
<1>4. DiskTypes'
  BY <1>2, <1>3 DEF Sound, DiskTypes, Transfer, Drives
<1>5. InStep'
  <2>1. OnSector'
    BY <1>2 DEF OnSector, Address, Registers, Key
  <2>2. Further(0)'
    BY <1>2, <1>3 DEF Further, FirstI, Even, Remainder
  <2>3. Waits'
    BY <1>2, <2>1, <2>2 DEF Waits
  <2>. QED BY <1>2, <2>3 DEF InStep
<1>6. SectorsHold'
  BY <1>1, <1>2 DEF Sound, SectorsHold
<1>. QED BY <1>4, <1>5, <1>6 DEF Sound

LEMMA Write28Sound ==
  ASSUME Sound, NEW s \in Reachable, NEW bytes \in Data, Write28(s, bytes), ~ignored'
  PROVE  Sound'
<1>1. call.step = "idle" /\ drive.mode = "idle"
  BY DEF Sound, InStep, Write28, Command, Busy
<1>2. /\ registers' = Registers(s)
      /\ drive' = [mode |-> "preparing", left |-> Words, words |-> <<>>, error |-> FALSE]
      /\ call' = [step |-> "write", sector |-> s, count |-> Len(bytes),
                  i |-> FirstI(Len(bytes)), words |-> bytes]
      /\ Len(bytes) <= 2 * Words
      /\ UNCHANGED <<disk, failed, written>>
  BY <1>1 DEF Write28, Command, Busy
<1>3. /\ bytes \in Bytes /\ <<>> \in Seq(WordPairs) /\ Words \in 0 .. Words
      /\ Words - Words = 0 /\ Len(bytes) \in Int /\ Words > 0
      /\ FirstI(Len(bytes)) \in Int
  BY DiskAssumption, FirstIs DEF Bytes
<1>4. DiskTypes'
  BY <1>2, <1>3 DEF Sound, DiskTypes, Transfer, Drives
<1>5. InStep'
  <2>1. OnSector'
    BY <1>2 DEF OnSector, Address, Registers, Key
  <2>2. Passed' = 0
    BY <1>2, <1>3 DEF Passed
  <2>3. Further(0)'
    BY <1>2, <1>3 DEF Further, FirstI, Even, Remainder
  <2>4. Further(Passed)'
    BY <2>2, <2>3 DEF Further
  <2>5. Len(drive.words)' = 0
    BY <1>2
  <2>6. Writes'
    BY <1>2, <1>3, <2>1, <2>2, <2>4, <2>5 DEF Writes
  <2>. QED BY <1>2, <2>6 DEF InStep
<1>6. SectorsHold'
  BY <1>1, <1>2 DEF Sound, SectorsHold
<1>. QED BY <1>4, <1>5, <1>6 DEF Sound

LEMMA FlushSound ==
  ASSUME Sound, Flush, ~ignored'
  PROVE  Sound'
<1>1. call.step = "idle" /\ drive.mode = "idle"
  BY DEF Sound, InStep, Flush, Command, Busy
<1>2. /\ drive' = [mode |-> "flushing", left |-> Words, words |-> <<>>, error |-> FALSE]
      /\ call' = [step |-> "flush"]
      /\ UNCHANGED <<disk, failed, written>>
  BY <1>1 DEF Flush, Command, Busy
<1>3. <<>> \in Seq(WordPairs) /\ Words \in 0 .. Words
  BY DiskAssumption
<1>4. DiskTypes'
  BY <1>2, <1>3 DEF Sound, DiskTypes, Drives
<1>5. InStep'
  BY <1>2 DEF InStep
<1>6. SectorsHold'
  BY <1>1, <1>2 DEF Sound, SectorsHold
<1>. QED BY <1>4, <1>5, <1>6 DEF Sound

(* Steps of the driver that leave the drive as it is.                      *)
LEMMA QuietSound ==
  ASSUME Sound, Poll \/ ShowWord
  PROVE  Sound'
<1>1. UNCHANGED <<registers, drive, disk, failed, written>>
  BY DEF Poll, ShowWord, historyOfDisk
<1>2. UNCHANGED <<Passed, Address(registers)>>
  BY <1>1 DEF Passed, Address
<1>3. SectorsHold'
  BY <1>1 DEF Sound, SectorsHold
<1>4. CASE call' = [step |-> "idle"] /\ drive.mode = "idle"
  <2>1. DiskTypes'
    BY <1>1, <1>4 DEF Sound, DiskTypes
  <2>2. InStep'
    BY <1>1, <1>4 DEF InStep
  <2>. QED BY <1>3, <2>1, <2>2 DEF Sound
<1>5. CASE call.step = "poll" /\ ~Busy /\ ~drive.error /\ call' = [call EXCEPT !.step = "read"]
  <2>1. call \in Transfer /\ drive.mode = "give" /\ drive.left = Words /\ Waits
    BY <1>5 DEF Sound, DiskTypes, InStep, Busy, Waits
  <2>2. /\ call' \in Transfer /\ call'.step = "read"
        /\ call'.i = call.i /\ call'.words = call.words /\ call'.sector = call.sector
        /\ call'.count = call.count
    BY <1>5, <2>1 DEF Transfer
  <2>3. DiskTypes'
    BY <1>1, <2>2 DEF Sound, DiskTypes
  <2>4. /\ Words \in Nat \ {0} /\ Passed = 0 /\ call.count \in Int
        /\ call.i = FirstI(call.count)
    BY <2>1, DiskAssumption, FirstIs DEF Passed, Waits, Further, Transfer
  <2>5. Kept(call'.i, call'.count) = 0
    BY <2>2, <2>4, FirstIs DEF Kept
  <2>6. HasRead(Kept(call.i, call.count))'
    BY <2>1, <2>2, <2>5 DEF HasRead, Waits
  <2>7. OnSector' /\ Further(Passed)'
    <3>1. OnSector /\ Further(Passed)
      BY <2>1, <2>4 DEF Waits
    <3>. QED BY <1>2, <2>2, <3>1 DEF OnSector, Further, Key
  <2>8. InStep'
    BY <1>1, <2>1, <2>2, <2>4, <2>6, <2>7 DEF InStep, Reads
  <2>. QED BY <1>3, <2>3, <2>8 DEF Sound
<1>6. CASE Poll
  BY <1>4, <1>5, <1>6 DEF Poll, Done, Sound, InStep, Busy, Waits
<1>7. CASE ShowWord
  BY <1>4, <1>7 DEF ShowWord, Done, Sound, InStep
<1>. QED BY <1>6, <1>7

LEMMA DriveReadsSound ==
  ASSUME Sound, DriveReads
  PROVE  Sound'
<1>1. /\ drive.mode = "reading" /\ drive' = [drive EXCEPT !.mode = "give",
                                               !.words = disk[Address(registers)]]
      /\ UNCHANGED <<registers, disk, call, failed, written>>
  BY DEF DriveReads, historyOfDisk
<1>2. call.step = "poll" /\ call \in Transfer /\ Waits
  BY <1>1 DEF Sound, DiskTypes, InStep, Transfer, Reads, Writes
<1>3. Address(registers) \in Addresses
  BY <1>1, <1>2 DEF Waits, OnSector, Transfer, Addresses
<1>4. disk[Address(registers)] \in [1 .. Words -> WordPairs] /\ Words \in Nat
  BY <1>3, DiskAssumption DEF Sound, DiskTypes
<1>5. disk[Address(registers)] \in Seq(WordPairs)
  BY <1>4
<1>6. /\ drive' \in Drives
      /\ drive'.mode = "give" /\ drive'.left = drive.left /\ drive'.error = drive.error
      /\ drive'.words = disk[Address(registers)]
  <2>. DEFINE words == disk[Address(registers)]
  <2>1. drive \in Drives /\ words \in Seq(WordPairs)
    BY <1>5 DEF Sound, DiskTypes
  <2>2. drive' = [mode |-> "give", left |-> drive.left, words |-> words, error |-> drive.error]
    BY <1>1, <2>1 DEF Drives
  <2>. HIDE DEF words
  <2>3. drive' \in Drives
    BY <2>1, <2>2, Zenon DEF Drives
  <2>. QED BY <2>2, <2>3 DEF words
<1>7. DiskTypes'
  BY <1>1, <1>6 DEF Sound, DiskTypes
<1>8. InStep'
  <2>1. OnSector' /\ Further(0)'
    BY <1>1, <1>2 DEF Waits, OnSector, Address, Key, Further
  <2>2. Waits'
    BY <1>1, <1>2, <1>6, <2>1 DEF Waits
  <2>. QED BY <1>1, <1>2, <2>2 DEF InStep
<1>9. SectorsHold'
  <2>1. Address(registers)' = Address(registers)
    BY <1>1 DEF Address
  <2>. QED BY <1>1, <1>6, <2>1 DEF Sound, SectorsHold
<1>. QED BY <1>7, <1>8, <1>9 DEF Sound

LEMMA DriveAsksSound ==
  ASSUME Sound, DriveAsks
  PROVE  Sound'
<1>1. /\ drive.mode = "preparing" /\ drive' = [drive EXCEPT !.mode = "take"]
      /\ UNCHANGED <<registers, disk, call, failed, written>>
  BY DEF DriveAsks, historyOfDisk
<1>2. call.step = "write" /\ Writes
  BY <1>1 DEF Sound, DiskTypes, InStep, Transfer, Waits, Reads
<1>3. /\ drive' \in Drives
      /\ drive'.mode = "take" /\ drive'.left = drive.left /\ drive'.words = drive.words
  BY <1>1 DEF Sound, DiskTypes, Drives
<1>4. DiskTypes'
  BY <1>1, <1>3 DEF Sound, DiskTypes
<1>5. InStep'
  <2>1. Passed' = Passed /\ (OnSector => OnSector')
    BY <1>1, <1>3 DEF Passed, OnSector, Address, Key
  <2>2. Further(Passed) => Further(Passed)'
    BY <1>1, <2>1 DEF Further
  <2>3. Writes'
    BY <1>1, <1>2, <1>3, <2>1, <2>2 DEF Writes
  <2>. QED BY <1>1, <1>2, <2>3 DEF InStep
<1>6. SectorsHold'
  <2>1. Address(registers)' = Address(registers)
    BY <1>1 DEF Address
  <2>. QED BY <1>1, <1>3, <2>1 DEF Sound, SectorsHold
<1>. QED BY <1>4, <1>5, <1>6 DEF Sound

LEMMA DriveWritesSound ==
  ASSUME Sound, DriveWrites
  PROVE  Sound'
<1>1. PICK a : a = Address(registers)
  OBVIOUS
<1>2. /\ drive.mode = "writing" /\ drive' = Idle
      /\ disk' = [disk EXCEPT ![a] = drive.words] /\ failed' = failed \ {a}
      /\ UNCHANGED <<registers, call, written>>
  BY <1>1 DEF DriveWrites
<1>3. call.step = "idle"
  BY <1>2 DEF Sound, DiskTypes, InStep, Transfer, Waits, Reads, Writes
<1>4. a \in Addresses /\ drive.words = Image(written[a].bytes)
  BY <1>1, <1>2 DEF Sound, SectorsHold
<1>5. Image(written[a].bytes) \in [1 .. Words -> WordPairs]
  BY <1>4, ByteTypes DEF Sound, DiskTypes
<1>6. DiskTypes'
  <2>1. <<>> \in Seq(WordPairs) /\ 0 \in 0 .. Words
    BY DiskAssumption
  <2>2. drive' \in Drives
    BY <1>2, <2>1 DEF Idle, Drives
  <2>3. disk' \in [Addresses -> [1 .. Words -> WordPairs]]
    BY <1>2, <1>4, <1>5 DEF Sound, DiskTypes
  <2>. QED BY <1>2, <2>2, <2>3 DEF Sound, DiskTypes
<1>7. InStep'
  BY <1>2, <1>3 DEF InStep, Idle
<1>8. SectorsHold'
  <2>1. /\ disk'[a] = Image(written[a].bytes)
        /\ \A b \in Addresses : b # a => disk'[b] = disk[b]
    BY <1>2, <1>4 DEF Sound, DiskTypes
  <2>2. \A b \in Addresses : disk'[b] = Image(written[b].bytes) \/ b \in failed'
    BY <1>1, <1>2, <2>1 DEF Sound, SectorsHold
  <2>3. \A b \in Addresses : Image(written[b].bytes)' = Image(written[b].bytes)
    BY <1>2 DEF Image, WordAt, ByteAt
  <2>. QED BY <1>2, <2>2, <2>3 DEF SectorsHold, Idle
<1>. QED BY <1>6, <1>7, <1>8 DEF Sound

LEMMA DriveStopsSound ==
  ASSUME Sound, DriveFlushes \/ DriveFails
  PROVE  Sound'
<1>1. PICK a : a = Address(registers)
  OBVIOUS
<1>2. /\ drive.mode \in {"reading", "preparing", "writing", "flushing"}
      /\ drive'.mode = "idle" /\ drive' \in Drives
      /\ drive.mode # "flushing" => drive'.error
      /\ failed' = IF drive.mode = "writing" THEN failed \cup {a} ELSE failed
      /\ UNCHANGED <<registers, disk, call, written>>
  <2>1. <<>> \in Seq(WordPairs) /\ 0 \in 0 .. Words
    BY DiskAssumption
  <2>. DEFINE stopped == [Idle EXCEPT !.error = TRUE]
  <2>2. Idle \in Drives /\ stopped \in Drives
    BY <2>1 DEF Idle, Drives
  <2>3. Idle.mode = "idle" /\ stopped.mode = "idle" /\ stopped.error
    BY DEF Idle
  <2>4. \/ drive.mode = "flushing" /\ drive' = Idle /\ UNCHANGED failed
        \/ /\ drive.mode \in {"reading", "preparing", "writing", "flushing"}
           /\ drive' = stopped
           /\ failed' = IF drive.mode = "writing" THEN failed \cup {a} ELSE failed
    BY <1>1 DEF DriveFlushes, DriveFails, Busy, historyOfDisk
  <2>5. UNCHANGED <<registers, disk, call, written>>
    BY DEF DriveFlushes, DriveFails, historyOfDisk
  <2>. HIDE DEF stopped
  <2>. QED BY <2>2, <2>3, <2>4, <2>5
<1>3. DiskTypes'
  BY <1>2 DEF Sound, DiskTypes
<1>4. call.step \notin {"read", "got"}
  BY <1>2 DEF Sound, InStep, Reads
<1>5. InStep'
  <2>1. CASE call.step = "poll"
    <3>1. drive.mode # "flushing" /\ Waits
      BY <2>1 DEF Sound, InStep, Waits
    <3>2. Further(0)'
      BY <1>2, <3>1 DEF Waits, Further
    <3>3. Waits'
      BY <1>2, <3>1, <3>2 DEF Waits
    <3>. QED BY <1>2, <2>1, <3>3 DEF InStep
  <2>2. CASE call.step = "write"
    <3>1. Writes'
      BY <1>2 DEF Writes
    <3>. QED BY <1>2, <2>2, <3>1 DEF InStep
  <2>3. CASE call.step \notin {"poll", "write"}
    BY <1>2, <1>4, <2>3 DEF InStep
  <2>. QED BY <2>1, <2>2, <2>3
<1>6. SectorsHold'
  BY <1>1, <1>2 DEF Sound, SectorsHold
<1>. QED BY <1>3, <1>5, <1>6 DEF Sound

(* A word is a sequence of two bytes.                                      *)
LEMMA WordIsBytes ==
  ASSUME NEW word \in WordPairs
  PROVE  /\ word[1] \in 0 .. 255 /\ word[2] \in 0 .. 255
         /\ word \in Seq(0 .. 255) /\ Len(word) = 2
         /\ <<word[1]>> \in Seq(0 .. 255) /\ Len(<<word[1]>>) = 1
<1>1. PICK w : w = word
  OBVIOUS
<1>2. word[1] \in 0 .. 255 /\ word[2] \in 0 .. 255
  BY DEF WordPairs
<1>3. word = <<word[1], word[2]>>
  BY DEF WordPairs
<1>4. ASSUME NEW a \in 0 .. 255, NEW b \in 0 .. 255
      PROVE  /\ <<a, b>> \in Seq(0 .. 255) /\ Len(<<a, b>>) = 2
             /\ <<a>> \in Seq(0 .. 255) /\ Len(<<a>>) = 1
  OBVIOUS
<1>5. w[1] \in 0 .. 255 /\ w[2] \in 0 .. 255 /\ w = <<w[1], w[2]>>
  BY <1>1, <1>2, <1>3
<1>. QED BY <1>1, <1>4, <1>5, Zenon

(* What a sequence of bytes is with more bytes after it.                   *)
LEMMA JoinedIs ==
  ASSUME NEW words \in Seq(0 .. 255), NEW given \in Seq(0 .. 255)
  PROVE  /\ words \o given \in Seq(0 .. 255)
         /\ Len(words \o given) = Len(words) + Len(given)
         /\ \A k \in 1 .. Len(words) : (words \o given)[k] = words[k]
         /\ \A k \in 1 .. Len(given) : (words \o given)[Len(words) + k] = given[k]
<1>. DEFINE all == words \o given  m == Len(words)  n == Len(given)
<1>1. /\ all \in Seq(0 .. 255) /\ Len(all) = m + n /\ m \in Nat /\ n \in Nat
      /\ \A k \in 1 .. m + n : all[k] = IF k <= m THEN words[k] ELSE given[k - m]
  BY ConcatProperties
<1>. HIDE DEF all, m, n
<1>2. ASSUME NEW k \in 1 .. m PROVE all[k] = words[k]
  BY <1>1
<1>3. ASSUME NEW k \in 1 .. n PROVE all[m + k] = given[k]
  <2>1. m + k \in 1 .. m + n /\ ~(m + k <= m) /\ (m + k) - m = k
    BY <1>1
  <2>. QED BY <1>1, <2>1
<1>. QED BY <1>1, <1>2, <1>3 DEF all, m, n

(* The bytes of one more word, of which the count may want only the first. *)
LEMMA WordIsKept ==
  ASSUME NEW words \in Bytes, NEW count \in Int, Len(words) < count, NEW word \in WordPairs,
         NEW given,
         \/ Len(words) + 1 < count /\ given = word
         \/ ~(Len(words) + 1 < count) /\ given = <<word[1]>>
  PROVE  /\ words \o given \in Bytes
         /\ Len(words \o given) = Kept(Len(words) + 2, count)
         /\ \A k \in 1 .. Len(words) : (words \o given)[k] = words[k]
         /\ (words \o given)[Len(words) + 1] = word[1]
         /\ Len(words \o given) = Len(words) + 2 => (words \o given)[Len(words) + 2] = word[2]
<1>1. given \in Seq(0 .. 255) /\ words \in Seq(0 .. 255) /\ given[1] = word[1]
  <2>1. /\ word \in Seq(0 .. 255) /\ <<word[1]>> \in Seq(0 .. 255)
        /\ <<word[1]>>[1] = word[1]
    BY WordIsBytes
  <2>2. given = word \/ given = <<word[1]>>
    OBVIOUS
  <2>3. words \in Seq(0 .. 255)
    BY DEF Bytes
  <2>. QED BY <2>1, <2>2, <2>3, Zenon
<1>2. \/ Len(words) + 1 < count /\ Len(given) = 2 /\ given = word
      \/ ~(Len(words) + 1 < count) /\ Len(given) = 1
  BY WordIsBytes
<1>. DEFINE all == words \o given  m == Len(words)  n == Len(given)
<1>3. /\ all \in Seq(0 .. 255) /\ Len(all) = m + n
      /\ \A k \in 1 .. m : all[k] = words[k]
      /\ \A k \in 1 .. n : all[m + k] = given[k]
  BY <1>1, JoinedIs
<1>4. m \in Nat /\ m < count
  BY <1>1
<1>5. \/ m + 1 < count /\ n = 2 /\ given = word
      \/ ~(m + 1 < count) /\ n = 1
  BY <1>2
<1>. HIDE DEF all, m, n
<1>6. m + n = Kept(m + 2, count)
  BY <1>4, <1>5 DEF Kept
<1>7. all[m + 1] = word[1] /\ (m + n = m + 2 => all[m + 2] = word[2])
  BY <1>1, <1>3, <1>4, <1>5
<1>. QED BY <1>3, <1>6, <1>7 DEF all, m, n, Bytes

(* The next word, of the sector or of nothing.                             *)
LEMMA ReadWordSound ==
  ASSUME Sound, ReadWord
  PROVE  Sound'
<1>. DEFINE bytes == written[Key(call.sector)].bytes
<1>1. /\ call.step = "read" /\ call \in Transfer /\ Reads
      /\ call.count \in Int /\ call.words \in Bytes
      /\ written[Key(call.sector)].bytes \in Bytes
  BY DEF ReadWord, Sound, DiskTypes, InStep, Transfer, Addresses
<1>2. PICK word \in Offered : call' = AfterWord(word)
  BY Zenon DEF ReadWord
<1>3. UNCHANGED <<registers, disk, failed, written>>
  BY DEF ReadWord, historyOfDisk
<1>4. PICK read : read = With(word)
  OBVIOUS
<1>5. call' = IF GoesOn THEN [call EXCEPT !.i = NextI, !.words = read]
              ELSE [call EXCEPT !.step = "got", !.words = read]
  BY <1>2, <1>4, Zenon DEF AfterWord
<1>6. Words \in Nat \ {0} /\ drive \in Drives
  BY DiskAssumption DEF Sound, DiskTypes
(* How many words have passed, from the drive or not.                      *)
<1>7. PICK m \in Nat : /\ Further(m)
                       /\ drive.mode = "give" => m = Passed
                       /\ drive.mode # "give" => m >= Words /\ drive.mode = "idle"
  <2>1. CASE drive.mode = "give"
    <3>1. Further(Passed) /\ Passed \in Nat
      BY <1>1, <2>1 DEF Reads, Further
    <3>. QED BY <2>1, <3>1
  <2>2. CASE drive.mode # "give"
    BY <1>1, <2>2 DEF Reads
  <2>. QED BY <2>1, <2>2
<1>8. /\ NextI = call.i + 2 /\ call.i \in Int /\ NextI = FirstI(call.count) + 2 * (m + 1)
      /\ InFirstLoop => call.count > 0 /\ call.i = 2 * m
      /\ call.i <= 2 * m /\ FirstI(call.count) \in Int
  BY <1>1, <1>7, NextIsTwoFurther, FirstIs
<1>9. drive.mode = "give" =>
        /\ drive.left > 0 /\ drive.left \in 1 .. Words
        /\ m < Words /\ Words - (drive.left - 1) = m + 1
        /\ (drive.left > 1 => GoesOn) /\ Words - drive.left + 1 = m + 1 /\ m + 1 \in 1 .. Words
        /\ drive.left - 1 \in 0 .. Words
  <2>. SUFFICES ASSUME drive.mode = "give"
                PROVE  /\ drive.left > 0 /\ drive.left \in 1 .. Words
                       /\ m < Words /\ Words - (drive.left - 1) = m + 1
                       /\ (drive.left > 1 => GoesOn) /\ Words - drive.left + 1 = m + 1
                       /\ m + 1 \in 1 .. Words /\ drive.left - 1 \in 0 .. Words
    OBVIOUS
  <2>1. m = Passed /\ drive.left > 0 /\ DiskTypes
    BY <1>1, <1>7 DEF Reads, Sound
  <2>. QED BY <1>1, <1>7, <2>1, OneWordFurther
<1>10. /\ word \in WordPairs
       /\ drive.mode = "give" /\ Key(call.sector) \notin failed => word = WordAt(bytes, 2 * m)
  <2>1. CASE drive.mode = "give"
    <3>1. word = drive.words[m + 1]
      BY <1>2, <1>9, <2>1 DEF Offered
    <3>2. /\ drive.words = disk[Address(registers)]
          /\ Address(registers) = Key(call.sector) /\ Key(call.sector) \in Addresses
      BY <1>1, <2>1 DEF Sound, SectorsHold, Reads, OnSector, Transfer, Addresses
    <3>3. word \in WordPairs
      BY <1>9, <2>1, <3>1, <3>2 DEF Sound, DiskTypes
    <3>4. ASSUME Key(call.sector) \notin failed PROVE word = WordAt(bytes, 2 * m)
      <4>1. disk[Key(call.sector)] = Image(bytes)
        BY <2>1, <3>2, <3>4 DEF Sound, SectorsHold
      <4>2. (m + 1) - 1 = m
        OBVIOUS
      <4>3. Image(bytes)[m + 1] = WordAt(bytes, 2 * m)
        BY <1>9, <2>1, <4>2 DEF Image
      <4>. QED BY <3>1, <3>2, <4>1, <4>3
    <3>. QED BY <3>3, <3>4
  <2>2. CASE drive.mode # "give"
    BY <1>2, <2>2, DiskAssumption DEF WordPairs, Offered
  <2>. QED BY <2>1, <2>2
<1>11. /\ read \in Bytes /\ Len(read) = Kept(NextI, call.count)
       /\ Key(call.sector) \notin failed =>
            \A k \in 1 .. Len(read) : k <= 2 * Words => read[k] = ByteAt(bytes, k - 1)
  <2>1. HasRead(Kept(call.i, call.count))
    BY <1>1 DEF Reads
  <2>2. CASE ~InFirstLoop
    <3>1. Kept(NextI, call.count) = Kept(call.i, call.count)
      <4>1. call.count > 0 => call.i >= 0
        BY <1>1, <1>7, <1>8, FirstIs DEF Further
      <4>. QED BY <1>1, <1>8, <2>2, <4>1 DEF Kept, InFirstLoop
    <3>. QED BY <1>1, <1>4, <2>1, <2>2, <3>1 DEF HasRead, With
  <2>3. CASE InFirstLoop
    <3>1. /\ call.i \in Nat /\ call.i < call.count /\ call.i = 2 * m
          /\ Kept(call.i, call.count) = call.i
      BY <1>1, <1>8, <2>3 DEF InFirstLoop, Kept
    <3>2. PICK given : given = Given(word)
      OBVIOUS
    <3>3. read = call.words \o given /\ Len(call.words) = call.i
      BY <1>4, <2>1, <2>3, <3>1, <3>2 DEF HasRead, With
    <3>4. \/ call.i + 1 < call.count /\ given = word
          \/ ~(call.i + 1 < call.count) /\ given = <<word[1]>>
      BY <3>2 DEF Given
    <3>5. /\ read \in Bytes /\ Len(read) = Kept(call.i + 2, call.count)
          /\ \A k \in 1 .. call.i : read[k] = call.words[k]
          /\ read[call.i + 1] = word[1]
          /\ Len(read) = call.i + 2 => read[call.i + 2] = word[2]
      <4>1. PICK words : words = call.words
        OBVIOUS
      <4>2. PICK i : i = call.i
        OBVIOUS
      <4>3. PICK count : count = call.count
        OBVIOUS
      <4>4. /\ words \in Bytes /\ count \in Int /\ Len(words) = i /\ i < count
            /\ read = words \o given
            /\ \/ i + 1 < count /\ given = word
               \/ ~(i + 1 < count) /\ given = <<word[1]>>
        BY <1>1, <3>1, <3>3, <3>4, <4>1, <4>2, <4>3
      <4>5. /\ read \in Bytes /\ Len(read) = Kept(i + 2, count)
            /\ \A k \in 1 .. i : read[k] = words[k]
            /\ read[i + 1] = word[1]
            /\ Len(read) = i + 2 => read[i + 2] = word[2]
        <5>1. word \in WordPairs /\ Len(words) = i
          BY <1>10, <4>4
        <5>2. /\ Len(words) < count
              /\ \/ Len(words) + 1 < count /\ given = word
                 \/ ~(Len(words) + 1 < count) /\ given = <<word[1]>>
          BY <4>4, <5>1, Zenon
        <5>3. /\ words \o given \in Bytes
              /\ Len(words \o given) = Kept(Len(words) + 2, count)
              /\ \A k \in 1 .. Len(words) : (words \o given)[k] = words[k]
              /\ (words \o given)[Len(words) + 1] = word[1]
              /\ (Len(words \o given) = Len(words) + 2
                   => (words \o given)[Len(words) + 2] = word[2])
          BY <4>4, <5>1, <5>2, WordIsKept, ZenonT(60)
        <5>. QED BY <4>4, <5>1, <5>3, Zenon
      <4>. QED BY <4>1, <4>2, <4>3, <4>5
    <3>6. ASSUME Key(call.sector) \notin failed, NEW k \in 1 .. Len(read), k <= 2 * Words
          PROVE  read[k] = ByteAt(bytes, k - 1)
      <4>0. Len(read) <= call.i + 2 /\ Len(read) \in Nat
        BY <1>1, <3>1, <3>5 DEF Kept
      <4>1. CASE k <= call.i
        <5>1. k \in 1 .. call.i
          BY <3>1, <4>1
        <5>. QED BY <2>1, <3>1, <3>5, <3>6, <5>1 DEF HasRead
      <4>2. CASE k > call.i
        <5>1. drive.mode = "give"
          BY <1>6, <1>7, <3>1, <3>6, <4>2
        <5>2. word[1] = ByteAt(bytes, call.i) /\ word[2] = ByteAt(bytes, call.i + 1)
          <6>. HIDE DEF bytes
          <6>. QED BY <1>10, <3>1, <3>6, <5>1 DEF WordAt
        <5>3. \/ k = call.i + 1 /\ k - 1 = call.i
              \/ k = call.i + 2 /\ k - 1 = call.i + 1 /\ Len(read) = call.i + 2
          BY <3>1, <4>0, <4>2
        <5>. HIDE DEF bytes
        <5>. QED BY <3>5, <5>2, <5>3
      <4>. QED BY <3>1, <4>0, <4>1, <4>2
    <3>. QED BY <1>8, <3>5, <3>6
  <2>. QED BY <2>2, <2>3
<1>12. /\ call' \in Transfer
       /\ call'.sector = call.sector /\ call'.count = call.count /\ call'.words = read
       /\ call'.step = IF GoesOn THEN "read" ELSE "got"
       /\ GoesOn => call'.i = NextI
  <2>1. NextI \in Int
    BY <1>8
  <2>. QED BY <1>1, <1>5, <1>11, <2>1 DEF Transfer
<1>13. /\ drive' \in Drives
       /\ drive.mode = "give" /\ drive.left > 1 =>
            drive'.mode = "give" /\ drive'.words = drive.words /\ drive'.left = drive.left - 1
       /\ ~(drive.mode = "give" /\ drive.left > 1) => drive'.mode = "idle"
  <2>1. <<>> \in Seq(WordPairs) /\ 0 \in 0 .. Words
    BY <1>6
  <2>2. Idle \in Drives /\ Idle.mode = "idle"
    BY <2>1 DEF Idle, Drives
  <2>3. CASE drive.mode = "give" /\ drive.left > 1
    <3>1. drive' = [drive EXCEPT !.left = @ - 1]
      BY <1>9, <2>3 DEF ReadWord, AfterGiving
    <3>. QED BY <1>6, <1>9, <2>3, <3>1 DEF Drives
  <2>4. CASE drive.mode = "give" /\ ~(drive.left > 1)
    <3>1. drive.left = 1
      BY <1>9, <2>4
    <3>2. drive' = Idle
      BY <2>4, <3>1 DEF ReadWord, AfterGiving
    <3>. QED BY <2>2, <2>4, <3>2
  <2>5. CASE drive.mode # "give"
    <3>1. drive' = drive
      BY <2>5 DEF ReadWord, AfterGiving
    <3>. QED BY <1>6, <1>7, <2>5, <3>1
  <2>. QED BY <2>3, <2>4, <2>5
<1>. HIDE DEF bytes
<1>14. DiskTypes'
  BY <1>3, <1>12, <1>13 DEF Sound, DiskTypes
<1>15. Address(registers)' = Address(registers) /\ Key(call.sector)' = Key(call.sector)
  BY <1>3, <1>12 DEF Address, Key
<1>16. HasRead(Len(read))'
  <2>1. written'[Key(call'.sector)].bytes = bytes
    BY <1>3, <1>12 DEF bytes
  <2>. QED BY <1>3, <1>11, <1>12, <1>15, <2>1 DEF HasRead
<1>17. InStep'
  <2>1. CASE GoesOn
    <3>1. Further(m + 1)'
      BY <1>8, <1>12, <2>1 DEF Further, FirstI, Even, Remainder
    <3>2. HasRead(Kept(call.i, call.count))'
      <4>1. Kept(call'.i, call'.count) = Len(read)
        BY <1>11, <1>12, <2>1 DEF Kept
      <4>. QED BY <1>16, <4>1
    <3>3. CASE drive.mode = "give" /\ drive.left > 1
      <4>1. Passed' = m + 1 /\ drive'.left > 0
        BY <1>9, <1>13, <3>3 DEF Passed
      <4>2. OnSector'
        BY <1>1, <1>15, <3>3 DEF Reads, OnSector
      <4>3. Further(Passed)'
        BY <3>1, <4>1 DEF Further
      <4>4. Reads'
        BY <1>13, <3>2, <3>3, <4>1, <4>2, <4>3 DEF Reads
      <4>. QED BY <1>12, <2>1, <4>4 DEF InStep
    <3>4. CASE ~(drive.mode = "give" /\ drive.left > 1)
      <4>1. m + 1 >= Words /\ m + 1 \in Nat
        BY <1>6, <1>7, <1>9, <3>4
      <4>2. Reads'
        BY <1>13, <3>1, <3>2, <3>4, <4>1 DEF Reads
      <4>. QED BY <1>12, <2>1, <4>2 DEF InStep
    <3>. QED BY <3>3, <3>4
  <2>2. CASE ~GoesOn
    <3>1. drive'.mode = "idle"
      BY <1>9, <1>13, <2>2
    <3>2. Kept(call'.count, call'.count) = Len(read)
      BY <1>1, <1>8, <1>11, <1>12, <2>2 DEF GoesOn, Kept
    <3>3. HasRead(Kept(call.count, call.count))'
      BY <1>16, <3>2
    <3>. QED BY <1>12, <2>2, <3>1, <3>3 DEF InStep
  <2>. QED BY <2>1, <2>2
<1>18. SectorsHold'
  BY <1>3, <1>7, <1>13, <1>15 DEF Sound, SectorsHold
<1>. QED BY <1>14, <1>17, <1>18 DEF Sound

(* The next word of the sector; after the last one, the drive is about to  *)
(* write what was to be written.                                           *)
LEMMA WriteWordSound ==
  ASSUME Sound, WriteWord, ~ignored'
  PROVE  Sound'
<1>. DEFINE s    == Key(call.sector)
            word == WordAt(call.words, 2 * Passed)
<1>1. /\ call.step = "write" /\ call \in Transfer /\ drive.mode = "take" /\ drive.left > 0
      /\ OnSector /\ Further(Passed) /\ call.count = Len(call.words)
      /\ call.count <= 2 * Words /\ Len(drive.words) = Passed
      /\ \A k \in 1 .. Passed : drive.words[k] = WordAt(call.words, 2 * (k - 1))
  BY DEF Sound, DiskTypes, InStep, WriteWord, Writes
<1>2. /\ Words \in Nat /\ drive.left \in 1 .. Words
      /\ Passed \in Nat /\ Passed < Words
      /\ drive.left - 1 \in 0 .. Words /\ Words - (drive.left - 1) = Passed + 1
      /\ (drive.left > 1 => GoesOn)
  BY <1>1, OneWordFurther DEF Sound
<1>3. /\ call.i = 2 * Passed /\ NextI = call.i + 2 /\ NextI = FirstI(call.count) + 2 * (Passed + 1)
      /\ call.count \in Nat /\ call.words \in Bytes
  <2>1. call.count \in Nat /\ call.words \in Bytes
    BY <1>1 DEF Transfer, Bytes
  <2>2. call.i = FirstI(call.count) + 2 * Passed /\ FirstI(call.count) = 0
    BY <1>1, <2>1, FirstIs DEF Further
  <2>. QED BY <1>1, <1>2, <2>1, <2>2, NextIsTwoFurther
<1>4. GoesOn <=> drive.left > 1
  <2>1. ASSUME ~(drive.left > 1) PROVE ~GoesOn
    <3>1. Passed + 1 = Words
      BY <1>2, <2>1
    <3>2. NextI = 2 * Words
      BY <1>2, <1>3, <3>1
    <3>. QED BY <1>1, <1>2, <1>3, <3>2 DEF GoesOn
  <2>. QED BY <1>2, <2>1
<1>5. s \in Addresses /\ s = Address(registers) /\ word \in WordPairs /\ call.sector \in Reachable
  <2>1. 2 * Passed \in Nat
    BY <1>2
  <2>. QED BY <1>1, <1>3, <2>1, ByteTypes DEF Transfer, Addresses, OnSector
<1>6. /\ drive' = [drive EXCEPT !.left = @ - 1, !.words = Append(@, word),
                                !.mode = IF drive.left = 1 THEN "writing" ELSE @]
      /\ call' = IF GoesOn THEN [call EXCEPT !.i = NextI] ELSE [step |-> "idle"]
      /\ written' = IF GoesOn THEN written
                    ELSE [written EXCEPT ![s] = [by |-> {call.sector}, bytes |-> call.words]]
      /\ UNCHANGED <<registers, disk, failed>>
  <2>1. word = << IF call.i < call.count THEN call.words[call.i + 1] ELSE 0,
                  IF call.i + 1 < call.count THEN call.words[call.i + 1 + 1] ELSE 0 >>
    BY <1>1, <1>3 DEF WordAt, ByteAt
  <2>. HIDE DEF word
  <2>. QED BY <1>1, <2>1 DEF WriteWord, Done
<1>. HIDE DEF s, word
<1>7. /\ drive' \in Drives
      /\ drive'.mode = IF drive.left = 1 THEN "writing" ELSE "take"
      /\ drive'.left = drive.left - 1
      /\ drive'.words = Append(drive.words, word)
  <2>. DEFINE mode == IF drive.left = 1 THEN "writing" ELSE "take"
              more == Append(drive.words, word)
              left == drive.left - 1
  <2>1. drive.words \in Seq(WordPairs) /\ drive \in Drives /\ drive.error \in BOOLEAN
    BY DEF Sound, DiskTypes, Drives
  <2>2. more \in Seq(WordPairs)
    BY <1>5, <2>1
  <2>3. left \in 0 .. Words
    BY <1>2
  <2>4. mode \in {"idle", "reading", "give", "preparing", "take", "writing", "flushing"}
    OBVIOUS
  <2>5. drive' = [mode |-> mode, left |-> left, words |-> more, error |-> drive.error]
    BY <1>1, <1>6, <2>1 DEF Drives
  <2>. HIDE DEF mode, more, left
  <2>6. drive' \in Drives
    BY <2>1, <2>2, <2>3, <2>4, <2>5, Zenon DEF Drives
  <2>7. drive'.mode = mode /\ drive'.left = left /\ drive'.words = more
    BY <2>5
  <2>. QED BY <2>6, <2>7 DEF mode, more, left
<1>8. /\ Len(drive'.words) = Passed + 1
      /\ \A k \in 1 .. Passed + 1 : drive'.words[k] = WordAt(call.words, 2 * (k - 1))
  <2>1. drive.words \in Seq(WordPairs)
    BY DEF Sound, DiskTypes, Drives
  <2>2. /\ Len(drive'.words) = Passed + 1
        /\ \A k \in 1 .. Passed : drive'.words[k] = drive.words[k]
        /\ drive'.words[Passed + 1] = word
    <3>1. /\ Len(Append(drive.words, word)) = Len(drive.words) + 1
          /\ \A k \in 1 .. Len(drive.words) : Append(drive.words, word)[k] = drive.words[k]
          /\ Append(drive.words, word)[Len(drive.words) + 1] = word
      BY <1>5, <2>1, AppendProperties
    <3>. QED BY <1>1, <1>7, <3>1
  <2>3. word = WordAt(call.words, 2 * ((Passed + 1) - 1))
    <3>1. 2 * ((Passed + 1) - 1) = 2 * Passed
      BY <1>2
    <3>. QED BY <3>1 DEF word
  <2>4. ASSUME NEW k \in 1 .. Passed + 1
        PROVE  drive'.words[k] = WordAt(call.words, 2 * (k - 1))
    <3>1. k \in 1 .. Passed \/ k = Passed + 1
      BY <1>2
    <3>. QED BY <1>1, <2>2, <2>3, <3>1
  <2>. QED BY <2>2, <2>4
<1>9. Passed' = Passed + 1 /\ Address(registers)' = Address(registers)
  BY <1>2, <1>6, <1>7 DEF Passed, Address
<1>10. CASE drive.left > 1
  <2>1. /\ call' \in Transfer /\ call'.i = NextI /\ call'.step = "write"
        /\ call'.sector = call.sector /\ call'.count = call.count
        /\ call'.words = call.words
    <3>1. NextI \in Int
      BY <1>2, <1>3
    <3>. QED BY <1>1, <1>4, <1>6, <1>10, <3>1 DEF Transfer
  <2>2. written' = written /\ drive'.mode = "take" /\ drive'.left > 0
    <3>1. drive.left # 1 /\ drive.left - 1 > 0
      BY <1>2, <1>10
    <3>. QED BY <1>4, <1>6, <1>7, <1>10, <3>1
  <2>3. DiskTypes'
    BY <1>6, <1>7, <2>1, <2>2 DEF Sound, DiskTypes
  <2>4. InStep'
    <3>1. OnSector'
      BY <1>1, <1>9, <2>1 DEF OnSector, Key
    <3>2. Further(Passed)'
      <4>1. Passed + 1 \in Nat
        BY <1>2
      <4>. QED BY <1>3, <1>9, <2>1, <4>1 DEF Further, FirstI, Even, Remainder
    <3>3. Writes'
      BY <1>1, <1>8, <1>9, <2>1, <2>2, <3>1, <3>2 DEF Writes
    <3>. QED BY <2>1, <3>3 DEF InStep
  <2>5. SectorsHold'
    BY <1>1, <1>6, <2>2 DEF Sound, SectorsHold
  <2>. QED BY <2>3, <2>4, <2>5 DEF Sound
<1>11. CASE ~(drive.left > 1)
  <2>1. drive.left = 1 /\ Passed + 1 = Words
    BY <1>2, <1>11
  <2>. DEFINE last == [by |-> {call.sector}, bytes |-> call.words]
  <2>2. /\ call' = [step |-> "idle"] /\ drive'.mode = "writing"
        /\ written' = [written EXCEPT ![s] = last]
    BY <1>4, <1>6, <1>7, <1>11, <2>1
  <2>3. last \in [by : SUBSET Reachable, bytes : Bytes] /\ last.bytes = call.words
    BY <1>3, <1>5
  <2>. HIDE DEF last
  <2>4. DiskTypes'
    BY <1>5, <1>6, <1>7, <2>2, <2>3 DEF Sound, DiskTypes
  <2>5. InStep'
    BY <2>2 DEF InStep
  <2>6. written'[s] = last /\ \A a \in Addresses : a # s => written'[a] = written[a]
    BY <1>5, <2>2 DEF Sound, DiskTypes
  <2>7. drive'.words = Image(call.words)
    <3>1. drive'.words \in [1 .. Words -> WordPairs]
      <4>1. drive'.words \in Seq(WordPairs) /\ Len(drive'.words) = Words
        BY <1>7, <1>8, <2>1 DEF Drives
      <4>. QED BY <4>1, LenProperties
    <3>2. \A k \in 1 .. Words : drive'.words[k] = WordAt(call.words, 2 * (k - 1))
      BY <1>8, <2>1
    <3>. QED BY <3>1, <3>2 DEF Image
  <2>8. SectorsHold'
    <3>1. Address(registers)' = s
      BY <1>5, <1>9
    <3>2. \A a \in Addresses : disk[a] = Image(written[a].bytes) \/ a \in failed
      BY <1>1 DEF Sound, SectorsHold
    <3>3. \A a \in Addresses : a # s => disk'[a] = Image(written'[a].bytes) \/ a \in failed'
      BY <1>6, <2>6, <3>2
    <3>4. drive'.words = Image(written'[s].bytes)
      BY <2>3, <2>6, <2>7
    <3>. QED BY <1>5, <2>2, <3>1, <3>3, <3>4 DEF SectorsHold, Image
  <2>. QED BY <2>4, <2>5, <2>8 DEF Sound
<1>. QED BY <1>10, <1>11

LEMMA DiskNextKeeps ==
  ASSUME DiskInv, [DiskNext]_diskVars
  PROVE  DiskInv'
<1>. SUFFICES ASSUME ~ignored' PROVE Sound'
  BY DEF DiskInv
<1>1. ASSUME NEW s \in Reachable, NEW count \in Counts, Read28(s, count)
      PROVE  Sound'
  <2>1. ~ignored
    BY <1>1 DEF Read28, Command
  <2>. QED BY <1>1, <2>1, Read28Sound DEF DiskInv
<1>2. ASSUME NEW s \in Reachable, NEW bytes \in Data, Write28(s, bytes)
      PROVE  Sound'
  <2>1. ~ignored
    BY <1>2 DEF Write28, Command
  <2>. QED BY <1>2, <2>1, Write28Sound DEF DiskInv
<1>3. CASE Flush
  <2>1. ~ignored
    BY <1>3 DEF Flush, Command
  <2>. QED BY <1>3, <2>1, FlushSound DEF DiskInv
<1>4. CASE WriteWord
  <2>1. ~ignored
    BY <1>4 DEF WriteWord
  <2>. QED BY <1>4, <2>1, WriteWordSound DEF DiskInv
<1>5. CASE Poll \/ ReadWord \/ ShowWord
  <2>1. ~ignored
    BY <1>5 DEF Poll, ReadWord, ShowWord, historyOfDisk
  <2>. QED BY <1>5, <2>1, QuietSound, ReadWordSound DEF DiskInv
<1>6. CASE Drive
  <2>1. ~ignored
    BY <1>6 DEF Drive, DriveReads, DriveAsks, DriveWrites, DriveFlushes, DriveFails,
                historyOfDisk
  <2>. QED BY <1>6, <2>1, DriveReadsSound, DriveAsksSound, DriveWritesSound, DriveStopsSound
           DEF DiskInv, Drive
<1>7. CASE UNCHANGED diskVars
  <2>1. UNCHANGED <<registers, drive, disk, call, ignored, failed, written>>
    BY <1>7 DEF diskVars, historyOfDisk
  <2>2. Sound
    BY <2>1 DEF DiskInv
  <2>3. DiskTypes'
    BY <2>1, <2>2 DEF Sound, DiskTypes
  <2>4. InStep'
    <3>1. UNCHANGED <<Passed, OnSector>> /\ \A m : Further(m)' = Further(m)
      BY <2>1 DEF Passed, OnSector, Address, Key, Further, FirstI, Even, Remainder
    <3>2. \A n : HasRead(n)' = HasRead(n)
      BY <2>1 DEF HasRead, ByteAt, Key
    <3>3. Waits' = Waits /\ Reads' = Reads /\ Writes' = Writes
      BY <2>1, <3>1, <3>2 DEF Waits, Reads, Writes, WordAt, ByteAt, Kept
    <3>4. HasRead(Kept(call.count, call.count))' = HasRead(Kept(call.count, call.count))
      BY <2>1, <3>2 DEF Kept
    <3>. QED BY <2>1, <2>2, <3>3, <3>4 DEF Sound, InStep
  <2>5. SectorsHold'
    BY <2>1, <2>2 DEF Sound, SectorsHold, Image, WordAt, ByteAt, Address
  <2>. QED BY <2>3, <2>4, <2>5 DEF Sound
<1>. QED BY <1>1, <1>2, <1>3, <1>4, <1>5, <1>6, <1>7 DEF DiskNext

LEMMA DiskInvKeepsSectors == DiskInv => SectorsAreKept
<1>. SUFFICES ASSUME DiskInv, ~ignored
              PROVE  /\ call.step = "idle" => drive.mode \in {"idle", "writing"}
                     /\ call.step = "got" => ReadsWhatWasWritten
  BY DEF SectorsAreKept, TransfersAreWhole, ReadsWhatWasWritten
<1>1. DiskTypes /\ InStep
  BY DEF DiskInv, Sound
<1>2. ASSUME call.step = "got" PROVE ReadsWhatWasWritten
  <2>. DEFINE last == written[Key(call.sector)]
  <2>1. call \in Transfer /\ HasRead(Kept(call.count, call.count)) /\ call.count \in Int
    BY <1>1, <1>2 DEF DiskTypes, InStep, Transfer
  <2>2. last.bytes \in Bytes
    BY <1>1, <2>1 DEF DiskTypes, Transfer, Addresses
  <2>3. Kept(call.count, call.count) = IF call.count < 0 THEN 0 ELSE call.count
    BY <2>1 DEF Kept
  <2>. HIDE DEF last
  <2>4. /\ Len(call.words) = (IF call.count < 0 THEN 0 ELSE call.count)
        /\ Len(call.words) \in Nat
        /\ Key(call.sector) \notin failed =>
             \A k \in 1 .. Len(call.words) : k <= 2 * Words =>
               call.words[k] = ByteAt(last.bytes, k - 1)
    BY <2>1, <2>3 DEF HasRead, last, Transfer, Bytes
  <2>5. ASSUME NEW k \in 1 .. Len(call.words)
        PROVE  ByteAt(last.bytes, k - 1) = IF k <= Len(last.bytes) THEN last.bytes[k] ELSE 0
    <3>1. k \in Nat /\ Len(last.bytes) \in Nat
      BY <2>2, <2>4 DEF Bytes
    <3>2. (k - 1) + 1 = k /\ (k - 1 < Len(last.bytes) <=> k <= Len(last.bytes))
      BY <3>1
    <3>. QED BY <3>2 DEF ByteAt
  <2>. QED BY <2>4, <2>5 DEF ReadsWhatWasWritten, last
<1>. QED BY <1>1, <1>2 DEF InStep

(* What is read from a sector is what was last written there, and driver   *)
(* and drive agree about how many words there are, for every size of a     *)
(* sector, every count to read, negative or beyond the sector, and a drive *)
(* that takes its time for each command or gives it up: as long as         *)
(* Write28 and Flush, which do not wait, found the drive ready each time.  *)
THEOREM SectorsAreAlwaysKept == DiskSpec => []SectorsAreKept
<1>1. DiskInit => DiskInv
  BY DiskInitSound DEF DiskInv
<1>2. DiskInv /\ [DiskNext]_diskVars => DiskInv'
  BY DiskNextKeeps
<1>3. DiskInv => SectorsAreKept
  BY DiskInvKeepsSectors
<1>. QED BY <1>1, <1>2, <1>3, PTL DEF DiskSpec

=============================================================================
