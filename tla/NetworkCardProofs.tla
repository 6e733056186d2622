-------------------------- MODULE NetworkCardProofs ---------------------------
(***************************************************************************)
(* Theorems about NetworkCard, for every number of descriptors, every set  *)
(* of frames of any size and every number of programs in Send: the receive *)
(* ring is a queue, and Send is faithful as long as no call runs into a    *)
(* descriptor that is not free.                                            *)
(***************************************************************************)
EXTENDS NetworkCard, TLAPS, FiniteSetTheorems

-----------------------------------------------------------------------------
(* A ring as a queue: the n buffers from first on are the owner's.         *)

Place(first, k) == (first + k) % NumBuffers

Holds(ring, first, n, owner) ==
  /\ n \in 0 .. NumBuffers /\ first \in Ring
  /\ DOMAIN ring = Ring
  /\ Owned(ring, owner) = {Place(first, k) : k \in 0 .. n-1}
  /\ IsFiniteSet(Owned(ring, owner)) /\ Cardinality(Owned(ring, owner)) = n

OneIsNew(ring, new, i) ==
  DOMAIN new = Ring /\ \A j \in Ring : j # i => new[j] = ring[j]

(* Counting on from a place of the ring is adding, less a round.           *)
LEMMA PlaceWraps ==
  ASSUME NEW i \in Ring, NEW k \in 0 .. NumBuffers
  PROVE  /\ Place(i, k) = IF i + k < NumBuffers THEN i + k ELSE i + k - NumBuffers
         /\ Place(i, k) \in Ring
<1>1. NumBuffers \in Nat \ {0} /\ i \in Nat /\ k \in Nat /\ i < NumBuffers
  BY CardAssumption DEF Ring
<1>2. CASE i + k < NumBuffers
  <2>1. (i + k) % NumBuffers = i + k
    BY <1>1, <1>2
  <2>. QED BY <1>1, <1>2, <2>1 DEF Place, Ring
<1>3. CASE i + k >= NumBuffers
  <2>1. (i + k) % NumBuffers = i + k - NumBuffers
    BY <1>1, <1>3
  <2>. QED BY <1>1, <1>3, <2>1 DEF Place, Ring
<1>. QED BY <1>1, <1>2, <1>3

LEMMA AfterIsPlace ==
  ASSUME NEW i \in Ring
  PROVE  /\ After(i) = Place(i, 1) /\ After(i) \in Ring
         /\ \A k \in 0 .. NumBuffers - 1 : Place(After(i), k) = Place(i, k + 1)
         /\ \A k \in 0 .. NumBuffers - 1 : After(Place(i, k)) = Place(i, k + 1)
<1>1. NumBuffers \in Nat \ {0} /\ i \in 0 .. NumBuffers - 1 /\ 1 \in 0 .. NumBuffers
  BY CardAssumption DEF Ring
<1>2. After(i) = Place(i, 1) /\ After(i) \in Ring
  BY <1>1, PlaceWraps DEF After, Place
<1>3. After(i) = IF i + 1 < NumBuffers THEN i + 1 ELSE i + 1 - NumBuffers
  BY <1>1, <1>2, PlaceWraps
<1>4. ASSUME NEW k \in 0 .. NumBuffers - 1
      PROVE  /\ Place(After(i), k) = Place(i, k + 1)
             /\ After(Place(i, k)) = Place(i, k + 1)
  <2>1. k \in 0 .. NumBuffers /\ k + 1 \in 0 .. NumBuffers /\ k \in Nat
    BY <1>1
  <2>2. Place(i, k + 1) = IF i + (k+1) < NumBuffers THEN i + (k+1) ELSE i + (k+1) - NumBuffers
    BY <2>1, PlaceWraps
  <2>3. Place(After(i), k) = IF After(i) + k < NumBuffers THEN After(i) + k
                             ELSE After(i) + k - NumBuffers
    BY <1>2, <2>1, PlaceWraps
  <2>4. Place(i, k) = (IF i + k < NumBuffers THEN i + k ELSE i + k - NumBuffers)
        /\ Place(i, k) \in Ring
    BY <2>1, PlaceWraps
  <2>5. After(Place(i, k)) = IF Place(i, k) + 1 < NumBuffers THEN Place(i, k) + 1
                             ELSE Place(i, k) + 1 - NumBuffers
    BY <1>1, <2>4, PlaceWraps DEF After, Place
  <2>6. Place(After(i), k) = Place(i, k + 1)
    BY <1>1, <1>3, <2>1, <2>2, <2>3
  <2>7. After(Place(i, k)) = Place(i, k + 1)
    BY <1>1, <2>1, <2>2, <2>4, <2>5
  <2>. QED BY <2>6, <2>7
<1>. QED BY <1>2, <1>4

(* Giving the owner the next buffer appends its frame to the queue; a full *)
(* ring has no next buffer that is not the owner's.                        *)
LEMMA GiveAppends ==
  ASSUME NEW ring, NEW first, NEW n, NEW owner, Holds(ring, first, n, owner),
         NEW i, i = Place(first, n), i \notin Owned(ring, owner),
         NEW more, OneIsNew(ring, more, i), more[i].owner = owner
  PROVE  /\ n < NumBuffers /\ i \in Ring
         /\ Holds(more, first, n + 1, owner)
         /\ FramesFrom(more, first, owner) = Append(FramesFrom(ring, first, owner), more[i].frame)
<1>1. NumBuffers \in Nat \ {0} /\ n \in 0 .. NumBuffers /\ first \in Ring /\ DOMAIN ring = Ring
  BY CardAssumption DEF Holds
<1>2. Owned(ring, owner) = {Place(first, k) : k \in 0 .. n-1}
  BY DEF Holds
<1>3. i \in Ring
  BY <1>1, PlaceWraps
<1>4. n < NumBuffers
  <2>. SUFFICES ASSUME n = NumBuffers PROVE FALSE
    BY <1>1
  <2>1. 0 \in 0 .. n-1 /\ 0 \in 0 .. NumBuffers /\ n \in 0 .. NumBuffers
    BY <1>1
  <2>2. Place(first, 0) = first /\ Place(first, n) = first
    BY <1>1, <2>1, PlaceWraps DEF Ring
  <2>. QED BY <1>2, <2>1, <2>2
<1>5. /\ DOMAIN more = Ring
      /\ more[i].owner = owner /\ \A j \in Ring : j # i => more[j] = ring[j]
  BY <1>1, <1>3 DEF OneIsNew
<1>6. Owned(more, owner) = Owned(ring, owner) \cup {i}
  BY <1>1, <1>3, <1>5 DEF Owned
<1>7. 0 .. (n+1)-1 = (0 .. n-1) \cup {n}
  BY <1>1
<1>8. Owned(more, owner) = {Place(first, k) : k \in 0 .. (n+1)-1}
  BY <1>2, <1>6, <1>7
<1>9. IsFiniteSet(Owned(more, owner)) /\ Cardinality(Owned(more, owner)) = n + 1
  <2>. DEFINE owned == Owned(ring, owner)
  <2>1. IsFiniteSet(owned) /\ Cardinality(owned) = n /\ i \notin owned
    BY DEF Holds
  <2>2. Owned(more, owner) = owned \cup {i}
    BY <1>6
  <2>. HIDE DEF owned
  <2>3. IsFiniteSet(owned \cup {i}) /\ Cardinality(owned \cup {i}) = Cardinality(owned) + 1
    BY <2>1, FS_AddElement
  <2>. QED BY <2>1, <2>2, <2>3
<1>10. n + 1 \in 0 .. NumBuffers
  BY <1>1, <1>4
<1>11. Holds(more, first, n + 1, owner)
  BY <1>1, <1>5, <1>8, <1>9, <1>10 DEF Holds
<1>12. FramesFrom(more, first, owner) = Append(FramesFrom(ring, first, owner), more[i].frame)
  <2>. DEFINE old == [k \in 1 .. n |-> ring[(first + k - 1) % NumBuffers].frame]
              new == [k \in 1 .. n+1 |-> more[(first + k - 1) % NumBuffers].frame]
  <2>1. FramesFrom(ring, first, owner) = old /\ FramesFrom(more, first, owner) = new
    BY <1>9 DEF FramesFrom, Holds
  <2>2. ASSUME NEW k \in 1 .. n+1
        PROVE  (first + k - 1) % NumBuffers = Place(first, k - 1)
    <3>1. first + k - 1 = first + (k - 1)
      BY <1>1 DEF Ring
    <3>. QED BY <3>1 DEF Place
  <2>3. \A k \in 1 .. n : new[k] = old[k]
    <3>. SUFFICES ASSUME NEW k \in 1 .. n PROVE new[k] = old[k]
      OBVIOUS
    <3>1. k - 1 \in 0 .. n-1 /\ k \in 1 .. n+1 /\ k - 1 \in 0 .. NumBuffers
      BY <1>1
    <3>2. Place(first, k - 1) \in Ring /\ Place(first, k - 1) # i
      BY <1>1, <1>2, <3>1, PlaceWraps
    <3>. QED BY <1>5, <2>2, <3>1, <3>2
  <2>4. new[n+1] = more[i].frame
    <3>1. n + 1 \in 1 .. n+1 /\ (n+1) - 1 = n
      BY <1>1
    <3>. QED BY <1>5, <2>2, <3>1
  <2>5. old \in [1 .. n -> {old[k] : k \in 1 .. n}] /\ Len(old) = n /\ n \in Nat
    BY <1>1
  <2>6. Append(old, more[i].frame) = [k \in 1 .. n+1 |-> IF k = n+1 THEN more[i].frame ELSE old[k]]
    <3>. HIDE DEF old
    <3>. QED BY <2>5
  <2>7. new = [k \in 1 .. n+1 |-> new[k]]
    OBVIOUS
  <2>. HIDE DEF old, new
  <2>8. \A k \in 1 .. n+1 : new[k] = IF k = n+1 THEN more[i].frame ELSE old[k]
    BY <1>1, <2>3, <2>4
  <2>. QED BY <2>1, <2>6, <2>7, <2>8
<1>. QED BY <1>3, <1>4, <1>11, <1>12

(* Taking the first buffer from the owner takes the head of the queue.     *)
LEMMA TakeTails ==
  ASSUME NEW ring, NEW first, NEW n, NEW owner, Holds(ring, first, n, owner),
         first \in Owned(ring, owner),
         NEW less, OneIsNew(ring, less, first), less[first].owner # owner
  PROVE  /\ n > 0
         /\ Holds(less, After(first), n - 1, owner)
         /\ FramesFrom(ring, first, owner) # <<>>
         /\ FramesFrom(less, After(first), owner) = Tail(FramesFrom(ring, first, owner))
         /\ Place(After(first), n - 1) = Place(first, n)
<1>1. NumBuffers \in Nat \ {0} /\ n \in 0 .. NumBuffers /\ first \in Ring /\ DOMAIN ring = Ring
  BY CardAssumption DEF Holds
<1>2. Owned(ring, owner) = {Place(first, k) : k \in 0 .. n-1}
  BY DEF Holds
<1>3. n > 0 /\ n - 1 \in 0 .. NumBuffers /\ n - 1 \in 0 .. NumBuffers - 1
  <2>1. 0 .. n-1 # {}
    BY <1>2
  <2>. QED BY <1>1, <2>1
<1>4. /\ DOMAIN less = Ring
      /\ less[first].owner # owner /\ \A j \in Ring : j # first => less[j] = ring[j]
  BY <1>1 DEF OneIsNew
<1>5. Owned(less, owner) = Owned(ring, owner) \ {first}
  BY <1>1, <1>4 DEF Owned
<1>6. \A k \in 0 .. n-1 :
        Place(first, k) \in Ring /\ (Place(first, k) = first <=> k = 0)
  <2>. SUFFICES ASSUME NEW k \in 0 .. n-1
                PROVE  Place(first, k) \in Ring /\ (Place(first, k) = first <=> k = 0)
    OBVIOUS
  <2>1. k \in 0 .. NumBuffers /\ k \in Nat /\ k < NumBuffers
    BY <1>1
  <2>2. /\ Place(first, k) = IF first + k < NumBuffers THEN first + k
                             ELSE first + k - NumBuffers
        /\ Place(first, k) \in Ring
    BY <1>1, <2>1, PlaceWraps
  <2>3. first \in Nat /\ first < NumBuffers
    BY <1>1 DEF Ring
  <2>4. Place(first, k) = first <=> k = 0
    BY <1>1, <2>1, <2>2, <2>3
  <2>. QED BY <2>2, <2>4
<1>7. \A k \in 0 .. n-2 : Place(After(first), k) = Place(first, k + 1)
  <2>1. \A k \in 0 .. n-2 : k \in 0 .. NumBuffers - 1
    BY <1>1
  <2>. QED BY <1>1, <2>1, AfterIsPlace
<1>8. Owned(less, owner) = {Place(After(first), k) : k \in 0 .. (n-1)-1}
  <2>1. ASSUME NEW i \in Owned(less, owner)
        PROVE  \E k \in 0 .. (n-1)-1 : i = Place(After(first), k)
    <3>1. PICK k \in 0 .. n-1 : i = Place(first, k)
      BY <1>2, <1>5
    <3>2. k # 0
      BY <1>5, <1>6, <3>1
    <3>3. k - 1 \in 0 .. n-2 /\ (k - 1) + 1 = k /\ k - 1 \in 0 .. (n-1)-1
      BY <1>1, <3>2
    <3>. QED BY <1>7, <3>1, <3>3
  <2>2. ASSUME NEW k \in 0 .. (n-1)-1
        PROVE  Place(After(first), k) \in Owned(less, owner)
    <3>1. PICK next \in 0 .. n-1 : next = k + 1 /\ next # 0 /\ k \in 0 .. n-2
      BY <1>1
    <3>2. Place(After(first), k) = Place(first, next)
      BY <1>7, <3>1
    <3>3. Place(first, next) # first
      BY <1>6, <3>1
    <3>4. Place(first, next) \in Owned(ring, owner)
      BY <1>2
    <3>. QED BY <1>5, <3>2, <3>3, <3>4
  <2>. QED BY <2>1, <2>2
<1>9. IsFiniteSet(Owned(less, owner)) /\ Cardinality(Owned(less, owner)) = n - 1
  <2>. DEFINE owned == Owned(ring, owner)
  <2>1. IsFiniteSet(owned) /\ Cardinality(owned) = n /\ first \in owned
    BY DEF Holds
  <2>2. Owned(less, owner) = owned \ {first}
    BY <1>5
  <2>. HIDE DEF owned
  <2>3. IsFiniteSet(owned \ {first}) /\ Cardinality(owned \ {first}) = Cardinality(owned) - 1
    BY <2>1, FS_RemoveElement
  <2>. QED BY <2>1, <2>2, <2>3
<1>10. After(first) \in Ring
  BY <1>1, AfterIsPlace
<1>11. Holds(less, After(first), n - 1, owner)
  BY <1>3, <1>4, <1>8, <1>9, <1>10 DEF Holds
<1>. DEFINE old == [k \in 1 .. n |-> ring[(first + k - 1) % NumBuffers].frame]
            new == [k \in 1 .. n-1 |-> less[(After(first) + k - 1) % NumBuffers].frame]
<1>12. FramesFrom(ring, first, owner) = old /\ FramesFrom(less, After(first), owner) = new
  BY <1>9 DEF FramesFrom, Holds
<1>13. \A k \in 1 .. n-1 : new[k] = old[k + 1]
  <2>. SUFFICES ASSUME NEW k \in 1 .. n-1 PROVE new[k] = old[k + 1]
    OBVIOUS
  <2>1. /\ After(first) + k - 1 = After(first) + (k - 1) /\ first + (k + 1) - 1 = first + k
        /\ k + 1 \in 1 .. n /\ k - 1 \in 0 .. n-2 /\ (k - 1) + 1 = k /\ k \in 0 .. n-1
        /\ k # 0
    BY <1>1, <1>10 DEF Ring
  <2>2. /\ (After(first) + k - 1) % NumBuffers = Place(first, k)
        /\ (first + (k + 1) - 1) % NumBuffers = Place(first, k)
    BY <1>7, <2>1 DEF Place
  <2>3. less[Place(first, k)] = ring[Place(first, k)]
    BY <1>4, <1>6, <2>1
  <2>. QED BY <2>1, <2>2, <2>3
<1>14. /\ old # <<>> /\ Tail(old) = [k \in 1 .. n-1 |-> old[k + 1]]
  <2>1. old \in [1 .. n -> {old[k] : k \in 1 .. n}] /\ Len(old) = n /\ n \in Nat
    BY <1>1
  <2>2. old = [k \in 1 .. n |-> old[k]]
    OBVIOUS
  <2>. HIDE DEF old
  <2>3. old # <<>>
    BY <1>3, <2>1
  <2>4. Tail(old) = [k \in 1 .. n-1 |-> old[k + 1]]
    BY <1>3, <2>1, <2>2
  <2>. QED BY <2>3, <2>4
<1>15. new = [k \in 1 .. n-1 |-> new[k]]
  OBVIOUS
<1>16. Place(After(first), n - 1) = Place(first, n)
  <2>1. (n - 1) + 1 = n
    BY <1>1
  <2>. QED BY <1>1, <1>3, <2>1, AfterIsPlace
<1>. HIDE DEF old, new
<1>17. new = Tail(old)
  BY <1>13, <1>14, <1>15
<1>. QED BY <1>3, <1>11, <1>12, <1>14, <1>16, <1>17

-----------------------------------------------------------------------------
(* Types                                                                   *)

Descriptor == [owner : {"card", "host"}, frame : SUBSET Frames]

Sender ==
  [step : {"outside", "chosen", "advanced", "stored", "copying"}, frame : SUBSET Frames,
   descriptor : Ring, next : Ring, left : Nat]

CardTypes ==
  /\ recvBufferDescr \in [Ring -> Descriptor] /\ sendBufferDescr \in [Ring -> Descriptor]
  /\ currentRecvBuffer \in Ring /\ currentSendBuffer \in Ring /\ nextRecv \in Ring
  /\ nextSend \in Ring
  /\ incoming \in SUBSET Frames
  /\ DOMAIN recvBuffers = 0 .. NumBuffers + MaxCells
  /\ DOMAIN sendBuffers = 0 .. NumBuffers + MaxCells
  /\ senders \in [Senders -> Sender]

LEMMA RingFacts ==
  /\ NumBuffers \in Nat \ {0} /\ 0 \in Ring
  /\ \A i \in Ring : After(i) \in Ring
<1>1. NumBuffers \in Nat \ {0} /\ 0 \in Ring
  BY CardAssumption DEF Ring
<1>. QED BY <1>1, AfterIsPlace

(* The buffers overlap, but all lie within their array.                    *)
LEMMA CellsAreInside ==
  ASSUME NEW base \in 0 .. 15, NEW i \in Ring, NEW frame \in Frames
  PROVE  /\ FirstCell(base, i) \in Nat /\ Length(frame) \in Nat
         /\ \A k \in 0 .. Length(frame) - 1 :
              FirstCell(base, i) + k \in 0 .. NumBuffers + MaxCells
<1>1. NumBuffers \in Nat \ {0} /\ i \in Nat /\ i < NumBuffers /\ MaxCells \in Nat
  BY CardAssumption DEF Ring
<1>2. Length(frame) \in Nat /\ Length(frame) <= MaxCells
  BY <1>1, CardAssumption DEF Length
<1>3. FirstCell(base, i) \in Nat /\ FirstCell(base, i) <= NumBuffers
  BY <1>1 DEF FirstCell
<1>. QED BY <1>1, <1>2, <1>3

LEMMA CardInitTypes == CardInit => CardTypes
<1>. SUFFICES ASSUME CardInit PROVE CardTypes
  OBVIOUS
<1>1. /\ [owner |-> "card", frame |-> {}] \in Descriptor
      /\ [owner |-> "host", frame |-> {}] \in Descriptor
  BY DEF Descriptor
<1>2. recvBufferDescr \in [Ring -> Descriptor] /\ sendBufferDescr \in [Ring -> Descriptor]
  BY <1>1 DEF CardInit
<1>3. Outside \in Sender
  BY RingFacts DEF Outside, Sender
<1>4. senders \in [Senders -> Sender]
  BY <1>3 DEF CardInit
<1>5. /\ DOMAIN sendBuffers = 0 .. NumBuffers + MaxCells
      /\ DOMAIN recvBuffers = 0 .. NumBuffers + MaxCells
  BY DEF CardInit
<1>. QED BY <1>2, <1>4, <1>5, RingFacts DEF CardInit, CardTypes

(* All that Send writes keeps its type.                                    *)
LEMMA SendTypes ==
  ASSUME CardTypes, NEW p \in Senders,
         \/ SendStep(p)
         \/ \E frame \in Frames : BeginSend(p, frame)
  PROVE  CardTypes'
<1>. DEFINE s == senders[p]
<1>1. /\ s \in Sender /\ senders \in [Senders -> Sender] /\ currentSendBuffer \in Ring
      /\ sendBufferDescr \in [Ring -> Descriptor]
  BY DEF CardTypes
<1>2. CASE \E frame \in Frames : BeginSend(p, frame)
  <2>1. PICK frame \in Frames : BeginSend(p, frame)
    BY <1>2
  <2>. DEFINE new == [step |-> "chosen", frame |-> {frame}, next |-> 0,
                      descriptor |-> currentSendBuffer, left |-> Length(frame)]
  <2>2. new \in Sender
    BY <1>1, RingFacts, CellsAreInside DEF Sender
  <2>3. senders' = [senders EXCEPT ![p] = new]
    BY <2>1 DEF BeginSend
  <2>. HIDE DEF new
  <2>4. senders' \in [Senders -> Sender]
    BY <1>1, <2>2, <2>3
  <2>. QED BY <2>1, <2>4 DEF BeginSend, CardTypes, otherVars, receiveVars
<1>3. CASE LoadCurrent(p) \/ StoreCurrent(p) \/ BeginCopy(p)
  <2>1. /\ After(currentSendBuffer) \in Ring /\ 0 \in Ring /\ s.next \in Ring
        /\ currentSendBuffer' \in Ring
    BY <1>1, <1>3, RingFacts DEF LoadCurrent, StoreCurrent, BeginCopy, Sender
  <2>2. senders' \in [Senders -> Sender]
    BY <1>1, <1>3, <2>1 DEF LoadCurrent, StoreCurrent, BeginCopy, Sender
  <2>. QED BY <1>3, <2>1, <2>2
           DEF LoadCurrent, StoreCurrent, BeginCopy, CardTypes, otherVars, receiveVars,
               historyVars
<1>4. CASE Copy(p)
  <2>1. s.left - 1 \in Nat
    BY <1>1, <1>4 DEF Copy, Copied, Sender
  <2>2. senders' \in [Senders -> Sender]
    BY <1>1, <1>4, <2>1 DEF Copy, Sender
  <2>3. DOMAIN sendBuffers' = DOMAIN sendBuffers
    BY <1>4 DEF Copy
  <2>. QED BY <1>4, <2>2, <2>3 DEF Copy, CardTypes, otherVars, receiveVars
<1>5. CASE HandOver(p)
  <2>1. [owner |-> "card", frame |-> s.frame] \in Descriptor /\ s.descriptor \in Ring
    BY <1>1 DEF Sender, Descriptor
  <2>2. sendBufferDescr' \in [Ring -> Descriptor]
    BY <1>1, <1>5, <2>1 DEF HandOver
  <2>3. Outside \in Sender
    BY RingFacts DEF Outside, Sender
  <2>4. senders' \in [Senders -> Sender]
    BY <1>1, <1>5, <2>3 DEF HandOver
  <2>. QED BY <1>5, <2>2, <2>4 DEF HandOver, CardTypes, otherVars, receiveVars
<1>. QED BY <1>2, <1>3, <1>4, <1>5 DEF SendStep

LEMMA CardTypesKept ==
  ASSUME CardTypes, [CardNext]_cardVars
  PROVE  CardTypes'
<1>. USE RingFacts
<1>1. CASE ActivateCard \/ ReadCauses \/ Acknowledge
  BY <1>1 DEF ActivateCard, ReadCauses, Acknowledge, CardTypes, receiveVars, sendVars
<1>2. CASE \E p \in Senders : SendStep(p) \/ \E frame \in Frames : BeginSend(p, frame)
  BY <1>2, SendTypes
<1>3. CASE Receive
  <2>1. [owner |-> "card", frame |-> {}] \in Descriptor
    BY DEF Descriptor
  <2>2. recvBufferDescr' \in [Ring -> Descriptor] /\ currentRecvBuffer' \in Ring
    BY <1>3, <2>1 DEF Receive, ReturnBuffer, CardTypes
  <2>. QED BY <1>3, <2>2 DEF Receive, CardTypes, sendVars
<1>4. CASE Transmit
  <2>1. [owner |-> "host", frame |-> {}] \in Descriptor
    BY DEF Descriptor
  <2>2. sendBufferDescr' \in [Ring -> Descriptor]
    BY <1>4, <2>1 DEF Transmit, CardTypes
  <2>. QED BY <1>4, <2>2 DEF Transmit, CardTypes, receiveVars
<1>5. CASE \E frame \in Frames : Arrive(frame)
  <2>1. PICK frame \in Frames : Arrive(frame)
    BY <1>5
  <2>2. incoming' \in SUBSET Frames /\ DOMAIN recvBuffers' = DOMAIN recvBuffers
    BY <2>1 DEF Arrive, CardTypes
  <2>. QED BY <2>1, <2>2 DEF Arrive, CardTypes, sendVars
<1>6. CASE Announce
  <2>1. [owner |-> "host", frame |-> incoming] \in Descriptor
    BY DEF Descriptor, CardTypes
  <2>2. recvBufferDescr' \in [Ring -> Descriptor] /\ nextRecv' \in Ring
    BY <1>6, <2>1 DEF Announce, CardTypes
  <2>. QED BY <1>6, <2>2 DEF Announce, CardTypes, sendVars
<1>7. CASE UNCHANGED cardVars
  BY <1>7 DEF cardVars, otherVars, CardTypes, receiveVars, sendVars
<1>. QED BY <1>1, <1>2, <1>3, <1>4, <1>5, <1>6, <1>7
        DEF CardNext, CardSends, CardReceives, CardInterrupt

-----------------------------------------------------------------------------
(* Receiving                                                               *)

(* The frames that wait are those between the driver's place and the       *)
(* card's; the one being stored is in the buffer that the card has next.   *)
Waiting == Cardinality(Owned(recvBufferDescr, "host"))

ReceiveInv ==
  /\ Holds(recvBufferDescr, currentRecvBuffer, Waiting, "host")
  /\ nextRecv = Place(currentRecvBuffer, Waiting)
  /\ incoming # {} => recvBufferDescr[nextRecv].owner = "card"
  /\ \A frame \in incoming : Whole(recvBuffers, RecvBase, nextRecv, frame)

ReceiveQueue == FramesFrom(recvBufferDescr, currentRecvBuffer, "host")

(* The queue, with what is left of each frame.                             *)
IsWhole(buffers, i, frames) == \A frame \in frames : Whole(buffers, RecvBase, i, frame)

Entries(frames, buffers, first) ==
  [k \in 1 .. Len(frames) |->
     [frame |-> frames[k],
      whole |-> IsWhole(buffers, (first + k - 1) % NumBuffers, frames[k])]]

LEMMA QueueFacts ==
  ASSUME CardTypes, ReceiveInv
  PROVE  /\ Waiting \in 0 .. NumBuffers
         /\ ReceiveQueue \in Seq(SUBSET Frames) /\ Len(ReceiveQueue) = Waiting
         /\ Announced = Entries(ReceiveQueue, recvBuffers, currentRecvBuffer)
<1>1. /\ Waiting \in 0 .. NumBuffers /\ currentRecvBuffer \in Ring
      /\ recvBufferDescr \in [Ring -> Descriptor] /\ NumBuffers \in Nat \ {0}
  BY RingFacts DEF ReceiveInv, Holds, CardTypes
<1>2. ASSUME NEW k \in 1 .. Waiting
      PROVE  recvBufferDescr[(currentRecvBuffer + k - 1) % NumBuffers].frame \in SUBSET Frames
  <2>1. currentRecvBuffer + k - 1 = currentRecvBuffer + (k - 1) /\ k - 1 \in 0 .. NumBuffers
    BY <1>1 DEF Ring
  <2>2. Place(currentRecvBuffer, k - 1) \in Ring
    BY <1>1, <2>1, PlaceWraps
  <2>3. recvBufferDescr[Place(currentRecvBuffer, k - 1)] \in Descriptor
    BY <1>1, <2>2
  <2>. QED BY <2>1, <2>3 DEF Place, Descriptor
<1>3. ReceiveQueue \in [1 .. Waiting -> SUBSET Frames]
  BY <1>2 DEF ReceiveQueue, FramesFrom, Waiting
<1>4. ReceiveQueue \in Seq(SUBSET Frames) /\ Len(ReceiveQueue) = Waiting
  BY <1>1, <1>3
<1>5. DOMAIN ReceiveQueue = 1 .. Len(ReceiveQueue)
  BY <1>4
<1>6. Announced = Entries(ReceiveQueue, recvBuffers, currentRecvBuffer)
  BY <1>5 DEF Announced, Entries, ReceiveQueue, IsWhole
<1>. QED BY <1>1, <1>4, <1>6

LEMMA QueueFactsNext ==
  CardTypes' /\ ReceiveInv' =>
    (Announced = Entries(ReceiveQueue, recvBuffers, currentRecvBuffer))'
<1>1. CardTypes /\ ReceiveInv => Announced = Entries(ReceiveQueue, recvBuffers, currentRecvBuffer)
  BY QueueFacts
<1>. QED BY <1>1, PTL

LEMMA AppendExtends ==
  ASSUME NEW n \in Nat, NEW S, NEW old \in [1 .. n -> S], NEW last,
         NEW new \in [1 .. n+1 -> S], last = new[n+1], \A k \in 1 .. n : new[k] = old[k]
  PROVE  new = Append(old, last)
<1>. DEFINE more == Append(old, last)
<1>1. old \in Seq(S) /\ Len(old) = n /\ last \in S
  OBVIOUS
<1>2. more \in Seq(S) /\ Len(more) = n + 1
  BY <1>1
<1>3. \A k \in 1 .. n+1 : more[k] = IF k = n+1 THEN last ELSE old[k]
  BY <1>1
<1>. HIDE DEF more
<1>4. more \in [1 .. n+1 -> S]
  BY <1>2
<1>5. \A k \in 1 .. n+1 : more[k] = new[k]
  BY <1>3
<1>6. new = more
  BY <1>4, <1>5
<1>. QED BY <1>6 DEF more

LEMMA EntriesAppend ==
  ASSUME NEW frames \in Seq(SUBSET Frames), NEW frame \in SUBSET Frames, NEW buffers,
         NEW first \in Ring, IsWhole(buffers, Place(first, Len(frames)), frame)
  PROVE  Entries(Append(frames, frame), buffers, first)
           = Append(Entries(frames, buffers, first), [frame |-> frame, whole |-> TRUE])
<1>. DEFINE n == Len(frames)
            old == Entries(frames, buffers, first)
            new == Entries(Append(frames, frame), buffers, first)
            last == [frame |-> frame, whole |-> TRUE]
<1>1. n \in Nat /\ first \in Nat /\ Len(Append(frames, frame)) = n + 1
  BY DEF Ring
<1>2. \A k \in 1 .. n : Append(frames, frame)[k] = frames[k]
  OBVIOUS
<1>3. Append(frames, frame)[n+1] = frame
  OBVIOUS
<1>4. \A k \in 1 .. n : new[k] = old[k]
  BY <1>1, <1>2 DEF Entries
<1>5. new[n+1] = last
  <2>1. first + (n+1) - 1 = first + n /\ n+1 \in 1 .. n+1
    BY <1>1
  <2>2. IsWhole(buffers, (first + (n+1) - 1) % NumBuffers, frame) = TRUE
    BY <2>1 DEF Place, IsWhole
  <2>3. new[n+1] = [frame |-> frame,
                    whole |-> IsWhole(buffers, (first + (n+1) - 1) % NumBuffers, frame)]
    BY <1>1, <1>3, <2>1 DEF Entries
  <2>. QED BY <2>2, <2>3
<1>6. old = [k \in 1 .. n |-> old[k]] /\ new = [k \in 1 .. n+1 |-> new[k]]
  BY <1>1 DEF Entries
<1>. HIDE DEF old, new, n, last
<1>7. old \in [1 .. n -> {old[k] : k \in 1 .. n}] /\ Len(old) = n
  BY <1>1, <1>6
<1>8. new \in [1 .. n+1 -> {new[k] : k \in 1 .. n+1}]
  BY <1>6
<1>9. {old[k] : k \in 1 .. n} \subseteq {new[k] : k \in 1 .. n+1}
  <2>1. \A k \in 1 .. n : k \in 1 .. n+1
    BY <1>1
  <2>. QED BY <1>4, <2>1
<1>10. old \in [1 .. n -> {new[k] : k \in 1 .. n+1}]
  BY <1>7, <1>9
<1>11. new = Append(old, last)
  BY <1>1, <1>4, <1>5, <1>8, <1>10, AppendExtends
<1>. QED BY <1>11 DEF old, new, last

LEMMA EntriesTail ==
  ASSUME NEW frames \in Seq(SUBSET Frames), frames # <<>>, NEW buffers, NEW first \in Ring,
         Len(frames) <= NumBuffers
  PROVE  /\ Entries(frames, buffers, first) # <<>>
         /\ Entries(Tail(frames), buffers, After(first)) = Tail(Entries(frames, buffers, first))
<1>. DEFINE n == Len(frames)
            old == Entries(frames, buffers, first)
            new == Entries(Tail(frames), buffers, After(first))
<1>1. /\ n \in Nat \ {0} /\ n <= NumBuffers /\ NumBuffers \in Nat /\ Len(Tail(frames)) = n - 1
      /\ first \in Nat /\ After(first) \in Nat
  BY RingFacts DEF Ring
<1>2. ASSUME NEW k \in 1 .. n-1 PROVE new[k] = old[k+1]
  <2>1. /\ After(first) + k - 1 = After(first) + (k - 1) /\ first + (k+1) - 1 = first + k
        /\ k - 1 \in 0 .. NumBuffers - 1 /\ (k - 1) + 1 = k /\ k+1 \in 1 .. n
    <3>. HIDE DEF n
    <3>. QED BY <1>1
  <2>2. Place(After(first), k - 1) = Place(first, k)
    BY <2>1, AfterIsPlace
  <2>3. (After(first) + k - 1) % NumBuffers = (first + (k+1) - 1) % NumBuffers
    BY <2>1, <2>2 DEF Place
  <2>4. Tail(frames)[k] = frames[k+1]
    BY <1>1
  <2>. QED BY <1>1, <2>1, <2>3, <2>4 DEF Entries
<1>3. old = [k \in 1 .. n |-> old[k]] /\ new = [k \in 1 .. n-1 |-> new[k]]
  BY <1>1 DEF Entries
<1>. HIDE DEF old, new, n
<1>4. old \in [1 .. n -> {old[k] : k \in 1 .. n}] /\ Len(old) = n
  BY <1>1, <1>3
<1>5. old # <<>>
  BY <1>1, <1>4
<1>6. Tail(old) = [k \in 1 .. n-1 |-> old[k+1]]
  BY <1>1, <1>3, <1>4
<1>7. new = Tail(old)
  BY <1>2, <1>3, <1>6
<1>. QED BY <1>5, <1>7 DEF old, new

(* No buffer is a side's at first.                                         *)
LEMMA NobodyHolds ==
  ASSUME NEW ring, NEW owner, DOMAIN ring = Ring, Owned(ring, owner) = {}
  PROVE  /\ Cardinality(Owned(ring, owner)) = 0
         /\ Holds(ring, 0, 0, owner) /\ FramesFrom(ring, 0, owner) = <<>>
         /\ Place(0, 0) = 0
<1>1. Cardinality(Owned(ring, owner)) = 0 /\ IsFiniteSet(Owned(ring, owner))
  BY FS_EmptySet
<1>2. 0 .. 0-1 = {} /\ 1 .. 0 = {} /\ 0 \in 0 .. NumBuffers
  BY RingFacts
<1>3. Holds(ring, 0, 0, owner)
  BY <1>1, <1>2, RingFacts DEF Holds
<1>4. FramesFrom(ring, 0, owner) = <<>>
  BY <1>1, <1>2 DEF FramesFrom
<1>5. Place(0, 0) = 0
  BY <1>2, RingFacts, PlaceWraps
<1>. QED BY <1>1, <1>3, <1>4, <1>5

LEMMA InitReceives ==
  ASSUME CardInit
  PROVE  ReceiveInv /\ Announced = <<>> /\ incoming = {}
<1>1. DOMAIN recvBufferDescr = Ring /\ Owned(recvBufferDescr, "host") = {}
  BY DEF CardInit, Owned
<1>2. ReceiveInv /\ ReceiveQueue = <<>> /\ incoming = {}
  BY <1>1, NobodyHolds DEF CardInit, ReceiveInv, ReceiveQueue, Waiting
<1>3. Announced = <<>>
  BY <1>2, CardInitTypes, QueueFacts DEF Entries
<1>. QED BY <1>2, <1>3

(* A frame is taken.                                                       *)
LEMMA ReturnGets ==
  ASSUME CardTypes, ReceiveInv, Receive, recvBufferDescr[currentRecvBuffer].owner = "host"
  PROVE  ReceiveInv' /\ Received!Get
<1>. DEFINE d == [owner |-> "card", frame |-> {}]
<1>1. /\ recvBufferDescr' = [recvBufferDescr EXCEPT ![currentRecvBuffer] = d]
      /\ currentRecvBuffer' = After(currentRecvBuffer)
      /\ UNCHANGED <<recvBuffers, nextRecv, incoming>>
  BY DEF Receive, ReturnBuffer
<1>2. /\ recvBufferDescr \in [Ring -> Descriptor] /\ currentRecvBuffer \in Ring
      /\ nextRecv \in Ring
  BY DEF CardTypes
<1>3. /\ currentRecvBuffer \in Owned(recvBufferDescr, "host")
      /\ OneIsNew(recvBufferDescr, recvBufferDescr', currentRecvBuffer)
      /\ recvBufferDescr'[currentRecvBuffer].owner = "card"
  BY <1>1, <1>2 DEF Owned, OneIsNew
<1>4. /\ Holds(recvBufferDescr, currentRecvBuffer, Waiting, "host")
      /\ nextRecv = Place(currentRecvBuffer, Waiting)
  BY DEF ReceiveInv
<1>5. /\ Waiting > 0
      /\ Holds(recvBufferDescr', After(currentRecvBuffer), Waiting - 1, "host")
      /\ ReceiveQueue # <<>>
      /\ FramesFrom(recvBufferDescr', After(currentRecvBuffer), "host") = Tail(ReceiveQueue)
      /\ Place(After(currentRecvBuffer), Waiting - 1) = Place(currentRecvBuffer, Waiting)
  BY <1>3, <1>4, TakeTails DEF ReceiveQueue
<1>6. Waiting' = Waiting - 1
  BY <1>5 DEF Holds, Waiting
<1>7. recvBufferDescr[nextRecv].owner = "card" => recvBufferDescr'[nextRecv].owner = "card"
  BY <1>2, <1>3 DEF OneIsNew
<1>8. ReceiveInv'
  BY <1>1, <1>4, <1>5, <1>6, <1>7 DEF ReceiveInv
<1>9. ReceiveQueue' = Tail(ReceiveQueue)
  BY <1>1, <1>5 DEF ReceiveQueue
<1>10. Announced # <<>> /\ Announced' = Tail(Announced)
  <2>1. Announced' = Entries(ReceiveQueue', recvBuffers, After(currentRecvBuffer))
    <3>1. CardTypes'
      BY CardTypesKept DEF CardNext, CardSends, CardInterrupt
    <3>. QED BY <1>1, <1>8, <3>1, QueueFactsNext
  <2>2. /\ Announced = Entries(ReceiveQueue, recvBuffers, currentRecvBuffer)
        /\ ReceiveQueue \in Seq(SUBSET Frames) /\ Len(ReceiveQueue) <= NumBuffers
    BY QueueFacts, RingFacts
  <2>. QED BY <1>2, <1>5, <1>9, <2>1, <2>2, EntriesTail
<1>. QED BY <1>1, <1>8, <1>10 DEF Received!Get

(* A frame begins to be stored, over what is left of others.               *)
LEMMA ArriveBegins ==
  ASSUME CardTypes, ReceiveInv, NEW frame \in Frames, Arrive(frame),
         recvBufferDescr[nextRecv].owner = "card"
  PROVE  ReceiveInv' /\ Received!BeginPut(frame)
<1>1. /\ incoming = {} /\ incoming' = {frame}
      /\ recvBuffers' = [c \in DOMAIN recvBuffers |->
           LET k == c - FirstCell(RecvBase, nextRecv)
           IN  IF k \in 0 .. Length(frame) - 1 THEN <<frame, k>> ELSE recvBuffers[c]]
      /\ UNCHANGED <<recvBufferDescr, nextRecv, currentRecvBuffer>>
  BY DEF Arrive
<1>2. /\ nextRecv \in Ring /\ currentRecvBuffer \in Ring
      /\ DOMAIN recvBuffers = 0 .. NumBuffers + MaxCells
      /\ recvBufferDescr \in [Ring -> Descriptor]
  BY DEF CardTypes
<1>3. UNCHANGED <<Waiting, ReceiveQueue>>
  BY <1>1 DEF Waiting, ReceiveQueue
<1>4. Whole(recvBuffers', RecvBase, nextRecv, frame)
  <2>. SUFFICES ASSUME NEW k \in 0 .. Length(frame) - 1
                PROVE  recvBuffers'[FirstCell(RecvBase, nextRecv) + k] = <<frame, k>>
    BY DEF Whole
  <2>1. /\ FirstCell(RecvBase, nextRecv) \in Nat /\ Length(frame) \in Nat
        /\ FirstCell(RecvBase, nextRecv) + k \in 0 .. NumBuffers + MaxCells
    BY <1>2, CardAssumption, CellsAreInside
  <2>2. (FirstCell(RecvBase, nextRecv) + k) - FirstCell(RecvBase, nextRecv) = k
    BY <2>1
  <2>. QED BY <1>1, <1>2, <2>1, <2>2
<1>5. ReceiveInv'
  BY <1>1, <1>3, <1>4 DEF ReceiveInv
<1>6. Len(ReceiveQueue) < NumBuffers
  <2>1. nextRecv \notin Owned(recvBufferDescr, "host")
    BY DEF Owned
  <2>2. Waiting # NumBuffers
    <3>. SUFFICES ASSUME Waiting = NumBuffers PROVE FALSE
      OBVIOUS
    <3>1. 0 \in 0 .. Waiting - 1 /\ 0 \in 0 .. NumBuffers /\ NumBuffers \in 0 .. NumBuffers
      BY RingFacts
    <3>2. Place(currentRecvBuffer, 0) = Place(currentRecvBuffer, NumBuffers)
      BY <1>2, <3>1, RingFacts, PlaceWraps DEF Ring
    <3>3. nextRecv = Place(currentRecvBuffer, 0)
      BY <3>2 DEF ReceiveInv
    <3>. QED BY <2>1, <3>1, <3>3 DEF ReceiveInv, Holds
  <2>. QED BY <2>2, QueueFacts, RingFacts
<1>7. Announced' = [k \in DOMAIN Announced |-> [frame |-> Announced[k].frame,
                                              whole |-> Announced'[k].whole]]
  <2>1. /\ Announced = Entries(ReceiveQueue, recvBuffers, currentRecvBuffer)
        /\ Announced' = Entries(ReceiveQueue, recvBuffers', currentRecvBuffer)
    <3>1. CardTypes'
      BY CardTypesKept DEF CardNext, CardReceives
    <3>. QED BY <1>1, <1>3, <1>5, <3>1, QueueFacts, QueueFactsNext
  <2>. QED BY <2>1 DEF Entries
<1>8. PICK whole : /\ whole = [k \in DOMAIN Announced |-> Announced'[k].whole]
                  /\ whole \in [DOMAIN Announced -> BOOLEAN]
  <2>1. \A k \in DOMAIN Announced : Announced'[k].whole \in BOOLEAN
    <3>1. DOMAIN Announced' = DOMAIN Announced
      BY <1>7
    <3>. QED BY <3>1 DEF Announced
  <2>. DEFINE left == [k \in DOMAIN Announced |-> Announced'[k].whole]
  <2>2. left \in [DOMAIN Announced -> BOOLEAN]
    BY <2>1, Zenon
  <2>. QED BY <2>2, Zenon
<1>9. Received!BeginPut(frame)
  <2>1. Len(Announced) < NumBuffers
    BY <1>6, QueueFacts DEF Entries
  <2>2. Announced' = [k \in DOMAIN Announced |-> [frame |-> Announced[k].frame, whole |-> whole[k]]]
    BY <1>7, <1>8
  <2>. QED BY <1>1, <1>8, <2>1, <2>2 DEF Received!BeginPut
<1>. QED BY <1>5, <1>9

(* The frame that is stored is announced, and is whole.                    *)
LEMMA AnnouncePuts ==
  ASSUME CardTypes, ReceiveInv, Announce
  PROVE  ReceiveInv' /\ Received!EndPut
<1>. DEFINE d == [owner |-> "host", frame |-> incoming]
<1>1. /\ incoming # {} /\ incoming' = {}
      /\ recvBufferDescr' = [recvBufferDescr EXCEPT ![nextRecv] = d]
      /\ nextRecv' = After(nextRecv)
      /\ UNCHANGED <<currentRecvBuffer, recvBuffers>>
  BY DEF Announce
<1>2. /\ nextRecv \in Ring /\ currentRecvBuffer \in Ring /\ incoming \in SUBSET Frames
      /\ recvBufferDescr \in [Ring -> Descriptor]
  BY DEF CardTypes
<1>3. /\ Holds(recvBufferDescr, currentRecvBuffer, Waiting, "host")
      /\ nextRecv = Place(currentRecvBuffer, Waiting)
      /\ nextRecv \notin Owned(recvBufferDescr, "host")
  BY <1>1 DEF ReceiveInv, Owned
<1>4. /\ OneIsNew(recvBufferDescr, recvBufferDescr', nextRecv)
      /\ recvBufferDescr'[nextRecv].owner = "host"
      /\ recvBufferDescr'[nextRecv].frame = incoming
  BY <1>1, <1>2 DEF OneIsNew
<1>5. /\ Waiting < NumBuffers
      /\ Holds(recvBufferDescr', currentRecvBuffer, Waiting + 1, "host")
      /\ FramesFrom(recvBufferDescr', currentRecvBuffer, "host")
           = Append(ReceiveQueue, recvBufferDescr'[nextRecv].frame)
  BY <1>3, <1>4, GiveAppends DEF ReceiveQueue
<1>6. Waiting' = Waiting + 1 /\ Waiting \in 0 .. NumBuffers - 1
  BY <1>3, <1>5, RingFacts DEF Holds, Waiting
<1>7. After(nextRecv) = Place(currentRecvBuffer, Waiting + 1)
  BY <1>2, <1>3, <1>6, AfterIsPlace
<1>8. ReceiveInv'
  BY <1>1, <1>5, <1>6, <1>7 DEF ReceiveInv
<1>9. ReceiveQueue' = Append(ReceiveQueue, incoming)
  BY <1>1, <1>4, <1>5 DEF ReceiveQueue
<1>10. Announced' = Append(Announced, [frame |-> incoming, whole |-> TRUE])
  <2>1. /\ Announced = Entries(ReceiveQueue, recvBuffers, currentRecvBuffer)
        /\ ReceiveQueue \in Seq(SUBSET Frames) /\ Len(ReceiveQueue) = Waiting
    BY QueueFacts
  <2>2. Announced' = Entries(Append(ReceiveQueue, incoming), recvBuffers, currentRecvBuffer)
    <3>1. CardTypes'
      BY CardTypesKept DEF CardNext, CardReceives
    <3>. QED BY <1>1, <1>8, <1>9, <3>1, QueueFactsNext
  <2>3. IsWhole(recvBuffers, Place(currentRecvBuffer, Len(ReceiveQueue)), incoming)
    BY <1>3, <2>1 DEF ReceiveInv, IsWhole
  <2>. QED BY <1>2, <2>1, <2>2, <2>3, EntriesAppend
<1>. QED BY <1>1, <1>8, <1>10 DEF Received!EndPut

LEMMA NextReceives ==
  ASSUME CardTypes, ReceiveInv, [CardNext]_cardVars
  PROVE  ReceiveInv' /\ (Received!Next \/ UNCHANGED <<Announced, incoming>>)
<1>1. ASSUME UNCHANGED receiveVars
      PROVE  ReceiveInv' /\ UNCHANGED <<Announced, incoming>>
  BY <1>1 DEF receiveVars, ReceiveInv, Waiting, Announced
<1>2. CASE UNCHANGED receiveVars
  BY <1>1, <1>2
<1>3. CASE Receive
  <2>1. CASE recvBufferDescr[currentRecvBuffer].owner = "card"
    <3>1. UNCHANGED receiveVars
      BY <1>3, <2>1 DEF Receive, receiveVars
    <3>. QED BY <1>1, <3>1
  <2>2. CASE recvBufferDescr[currentRecvBuffer].owner = "host"
    BY <1>3, <2>2, ReturnGets DEF Received!Next
  <2>. QED BY <1>3, <2>1, <2>2 DEF Receive
<1>4. CASE \E frame \in Frames : Arrive(frame)
  <2>1. PICK frame \in Frames : Arrive(frame)
    BY <1>4
  <2>2. CASE recvBufferDescr[nextRecv].owner = "host"
    <3>1. UNCHANGED receiveVars
      BY <2>1, <2>2 DEF Arrive, receiveVars
    <3>. QED BY <1>1, <3>1
  <2>3. CASE recvBufferDescr[nextRecv].owner = "card"
    BY <2>1, <2>3, ArriveBegins DEF Received!Next
  <2>. QED BY <2>1, <2>2, <2>3 DEF Arrive
<1>5. CASE Announce
  BY <1>5, AnnouncePuts DEF Received!Next
<1>6. CASE \E p \in Senders : SendStep(p) \/ \E frame \in Frames : BeginSend(p, frame)
  <2>1. UNCHANGED receiveVars
    BY <1>6 DEF SendStep, BeginSend, LoadCurrent, StoreCurrent, BeginCopy, Copy, HandOver, otherVars
  <2>. QED BY <1>1, <2>1
<1>. QED BY <1>2, <1>3, <1>4, <1>5, <1>6
        DEF CardNext, CardSends, CardReceives, CardInterrupt, ActivateCard,
            ReadCauses, Acknowledge, Transmit, cardVars, otherVars

(* The receive ring is a queue of as many frames as it has descriptors:    *)
(* the driver is given each frame that has found a buffer once, in the     *)
(* order they came and whole, however the card and the interrupt handler   *)
(* alternate; it may be damaged only by frames that are stored before the  *)
(* driver takes it.                                                        *)
THEOREM ReceiveRingIsFifo == CardSpec => ReceiveIsFifo
<1>1. CardInit => CardTypes /\ ReceiveInv /\ Announced = <<>> /\ incoming = {}
  BY CardInitTypes, InitReceives
<1>2. CardTypes /\ ReceiveInv /\ [CardNext]_cardVars =>
        CardTypes' /\ ReceiveInv' /\ [Received!Next]_<<Announced, incoming>>
  BY CardTypesKept, NextReceives
<1>. QED BY <1>1, <1>2, PTL DEF CardSpec, ReceiveIsFifo, Received!Spec

-----------------------------------------------------------------------------
(* Sending                                                                 *)

Queued == Cardinality(Owned(Claimed, "card"))

SendQueue == FramesFrom(Claimed, nextSend, "card")

(* A program that has taken a descriptor and not yet stored the next one   *)
(* keeps the others from taking any: they would take the same.             *)
Advancing(p) == senders[p].step \in {"chosen", "advanced"}

Upcoming ==
  IF \E p \in Senders : Advancing(p) THEN After(currentSendBuffer) ELSE currentSendBuffer

(* What a program in Send has: one frame, all of it still to be copied if  *)
(* it has not begun; its descriptor is the driver's and nobody else's.     *)
Loaded(p) ==
  senders[p].step # "outside" =>
    /\ \E frame \in Frames :
         /\ senders[p].frame = {frame} /\ senders[p].left <= Length(frame)
         /\ senders[p].step # "copying" => senders[p].left = Length(frame)
    /\ sendBufferDescr[senders[p].descriptor].owner = "host"
    /\ SendersOf(senders[p].descriptor) = {p}
    /\ Advancing(p) => senders[p].descriptor = currentSendBuffer
    /\ senders[p].step = "advanced" => senders[p].next = After(currentSendBuffer)

(* From this cell on the frame is in its buffer.                           *)
HasFrom(i, frame, first) ==
  \A k \in first .. Length(frame) - 1 :
    sendBuffers[FirstCell(SendBase, i) + k] = <<frame, k>>

(* If nobody else was copying when the last copy was begun, that copy is   *)
(* the only one, and what it has done so far is there.                     *)
LastCopy ==
  latest.alone =>
    /\ \A p \in Senders : Copying(p) => senders[p].descriptor = latest.descriptor
    /\ \A p \in Senders :
         senders[p].step = "copying" /\ senders[p].descriptor = latest.descriptor =>
           \A frame \in senders[p].frame : HasFrom(latest.descriptor, frame, senders[p].left)
    /\ sendBufferDescr[latest.descriptor].owner = "card" =>
         \A frame \in sendBufferDescr[latest.descriptor].frame :
           HasFrom(latest.descriptor, frame, 0)

RingsAgree ==
  /\ Holds(Claimed, nextSend, Queued, "card")
  /\ Upcoming = Place(nextSend, Queued)
  /\ order = SendQueue
  /\ \A p \in Senders : Loaded(p)
  /\ LastCopy

SendInv == overrun \/ RingsAgree

(* Only one program at a time is before the store of the next descriptor.  *)
LEMMA OneAdvances ==
  ASSUME RingsAgree, NEW p \in Senders, Advancing(p), NEW q \in Senders, Advancing(q)
  PROVE  p = q
<1>1. /\ SendersOf(senders[p].descriptor) = {p} /\ SendersOf(senders[q].descriptor) = {q}
      /\ senders[p].descriptor = senders[q].descriptor
  BY DEF RingsAgree, Loaded, Advancing
<1>. QED BY <1>1

(* Nobody is in Send with it: what is claimed is what is there.            *)
LEMMA FreeIsClaimed ==
  ASSUME CardTypes, NEW i \in Ring, SendersOf(i) = {}
  PROVE  Claimed[i] = sendBufferDescr[i]
BY DEF Claimed

LEMMA BusyIsClaimed ==
  ASSUME CardTypes, RingsAgree, NEW p \in Senders, senders[p].step # "outside"
  PROVE  /\ senders[p].descriptor \in Ring
         /\ Claimed[senders[p].descriptor] = [owner |-> "card", frame |-> senders[p].frame]
<1>1. senders[p].descriptor \in Ring
  BY DEF CardTypes, Sender
<1>2. SendersOf(senders[p].descriptor) = {p}
  BY DEF RingsAgree, Loaded
<1>3. UNION {senders[q].frame : q \in {p}} = senders[p].frame
  OBVIOUS
<1>. QED BY <1>1, <1>2, <1>3 DEF Claimed

LEMMA InitSends == CardInit => SendInv
<1>. SUFFICES ASSUME CardInit PROVE RingsAgree
  BY DEF SendInv
<1>1. \A p \in Senders : senders[p].step = "outside" /\ senders[p].left = 0
  BY DEF CardInit, Outside
<1>2. \A i \in Ring : SendersOf(i) = {}
  BY <1>1 DEF SendersOf
<1>3. DOMAIN Claimed = Ring /\ \A i \in Ring : Claimed[i] = sendBufferDescr[i]
  BY <1>2, CardInitTypes, FreeIsClaimed DEF Claimed
<1>4. Owned(Claimed, "card") = {}
  BY <1>3 DEF CardInit, Owned
<1>5. Upcoming = currentSendBuffer
  BY <1>1 DEF Upcoming, Advancing
<1>6. /\ Holds(Claimed, nextSend, Queued, "card") /\ order = SendQueue
      /\ Upcoming = Place(nextSend, Queued)
  BY <1>3, <1>4, <1>5, NobodyHolds DEF CardInit, SendQueue, Queued
<1>7. \A p \in Senders : Loaded(p)
  BY <1>1 DEF Loaded
<1>8. LastCopy
  BY DEF LastCopy, CardInit
<1>. QED BY <1>6, <1>7, <1>8 DEF RingsAgree

(* A step of Send that leaves who has which descriptor and the ring alone  *)
(* leaves the queue alone.                                                 *)
LEMMA SameClaims ==
  ASSUME \A q \in Senders : /\ senders'[q].step = "outside" <=> senders[q].step = "outside"
                            /\ senders'[q].descriptor = senders[q].descriptor
                            /\ senders'[q].frame = senders[q].frame,
         UNCHANGED <<sendBufferDescr, nextSend>>
  PROVE  /\ UNCHANGED <<Claimed, Queued, SendQueue>>
         /\ \A i : SendersOf(i)' = SendersOf(i)
<1>1. \A i : SendersOf(i)' = SendersOf(i)
  BY DEF SendersOf
<1>2. ASSUME NEW i \in Ring
      PROVE  Claimed'[i] = Claimed[i]
  <2>1. PICK holders : holders = SendersOf(i)
    OBVIOUS
  <2>2. SendersOf(i)' = holders
    BY <1>1, <2>1
  <2>3. holders \subseteq Senders
    BY <2>1 DEF SendersOf
  <2>4. {senders'[p].frame : p \in holders} = {senders[p].frame : p \in holders}
    BY <2>3
  <2>. QED BY <2>1, <2>2, <2>4 DEF Claimed
<1>3. UNCHANGED Claimed
  BY <1>2 DEF Claimed
<1>. QED BY <1>1, <1>3 DEF Queued, SendQueue

LEMMA SendKeeps ==
  ASSUME CardTypes, SendInv, NEW p \in Senders, NEW frame \in Frames, BeginSend(p, frame)
  PROVE  SendInv'
<1>. SUFFICES ASSUME ~overrun' PROVE RingsAgree'
  BY DEF SendInv
<1>. DEFINE new == [step |-> "chosen", frame |-> {frame}, next |-> 0,
                    descriptor |-> currentSendBuffer, left |-> Length(frame)]
<1>1. PICK i : i = currentSendBuffer
  OBVIOUS
<1>2. /\ i \in Ring /\ sendBufferDescr \in [Ring -> Descriptor]
      /\ senders \in [Senders -> Sender] /\ nextSend \in Ring
  BY <1>1 DEF CardTypes
<1>3. /\ senders[p].step = "outside" /\ ~overrun /\ i \notin Owned(Claimed, "card")
      /\ senders' = [senders EXCEPT ![p] = new] /\ order' = Append(order, {frame})
      /\ UNCHANGED <<sendBufferDescr, currentSendBuffer, sendBuffers, nextSend, latest>>
  BY <1>1 DEF BeginSend
<1>4. /\ senders'[p].step = "chosen" /\ senders'[p].frame = {frame}
      /\ senders'[p].descriptor = i /\ senders'[p].left = Length(frame)
      /\ \A q \in Senders : q # p => senders'[q] = senders[q]
  BY <1>1, <1>2, <1>3
<1>5. RingsAgree
  BY <1>3 DEF SendInv
<1>6. SendersOf(i) = {}
  <2>. SUFFICES ASSUME NEW q \in SendersOf(i) PROVE FALSE
    OBVIOUS
  <2>1. q \in Senders /\ senders[q].step # "outside" /\ senders[q].descriptor = i
    BY DEF SendersOf
  <2>2. Claimed[senders[q].descriptor] = [owner |-> "card", frame |-> senders[q].frame]
    BY <1>5, <2>1, BusyIsClaimed
  <2>3. Claimed[i].owner = "card" /\ DOMAIN Claimed = Ring
    BY <2>1, <2>2 DEF Claimed
  <2>. QED BY <1>2, <1>3, <2>3 DEF Owned
<1>7. \A q \in Senders : ~Advancing(q)
  <2>. SUFFICES ASSUME NEW q \in Senders, Advancing(q) PROVE FALSE
    OBVIOUS
  <2>1. senders[q].step # "outside" /\ senders[q].descriptor = i
    BY <1>1, <1>5 DEF RingsAgree, Loaded, Advancing
  <2>. QED BY <1>6, <2>1 DEF SendersOf
<1>8. SendersOf(i)' = {p} /\ \A j : j # i => SendersOf(j)' = SendersOf(j)
  BY <1>3, <1>4, <1>6 DEF SendersOf
<1>9. Claimed'[i] = [owner |-> "card", frame |-> {frame}]
  <2>1. UNION {senders'[q].frame : q \in {p}} = {frame}
    BY <1>4
  <2>. QED BY <1>2, <1>8, <2>1 DEF Claimed
<1>10. ASSUME NEW j \in Ring, j # i PROVE Claimed'[j] = Claimed[j]
  <2>1. PICK holders : holders = SendersOf(j)
    OBVIOUS
  <2>2. SendersOf(j)' = holders
    BY <1>8, <1>10, <2>1
  <2>3. holders \subseteq Senders \ {p}
    BY <1>3, <2>1 DEF SendersOf
  <2>4. {senders'[q].frame : q \in holders} = {senders[q].frame : q \in holders}
    BY <1>4, <2>3
  <2>. QED BY <1>3, <2>1, <2>2, <2>4 DEF Claimed
<1>11. /\ OneIsNew(Claimed, Claimed', i) /\ Claimed'[i].owner = "card"
       /\ Claimed'[i].frame = {frame}
  <2>1. DOMAIN Claimed' = Ring
    BY DEF Claimed
  <2>. QED BY <1>9, <1>10, <2>1 DEF OneIsNew
<1>12. /\ Holds(Claimed, nextSend, Queued, "card") /\ order = SendQueue
       /\ i = Place(nextSend, Queued)
  BY <1>1, <1>5, <1>7 DEF RingsAgree, Upcoming
<1>13. /\ Queued < NumBuffers
       /\ Holds(Claimed', nextSend, Queued + 1, "card")
       /\ FramesFrom(Claimed', nextSend, "card") = Append(SendQueue, Claimed'[i].frame)
  BY <1>3, <1>11, <1>12, GiveAppends DEF SendQueue
<1>14. Queued' = Queued + 1 /\ Queued \in 0 .. NumBuffers - 1
  BY <1>12, <1>13, RingFacts DEF Holds, Queued
<1>15. Holds(Claimed, nextSend, Queued, "card")'
  BY <1>3, <1>13, <1>14
<1>16. (order = SendQueue)'
  BY <1>3, <1>11, <1>12, <1>13 DEF SendQueue
<1>17. (Upcoming = Place(nextSend, Queued))'
  <2>1. Upcoming' = After(i)
    BY <1>1, <1>3, <1>4 DEF Upcoming, Advancing
  <2>2. After(i) = Place(nextSend, Queued + 1)
    BY <1>2, <1>12, <1>14, AfterIsPlace
  <2>. QED BY <1>3, <1>14, <2>1, <2>2
<1>18. ASSUME NEW q \in Senders PROVE Loaded(q)'
  <2>1. CASE q = p
    <3>1. sendBufferDescr[i].owner = "host"
      <4>1. Claimed[i] = sendBufferDescr[i]
        BY <1>2, <1>6, FreeIsClaimed
      <4>. QED BY <1>2, <1>3, <4>1 DEF Owned, Claimed, Descriptor
    <3>2. Length(frame) <= Length(frame)
      BY <1>2, CardAssumption, CellsAreInside
    <3>. QED BY <1>1, <1>3, <1>4, <1>8, <2>1, <3>1, <3>2 DEF Loaded
  <2>2. CASE q # p /\ senders[q].step # "outside"
    <3>1. senders[q].descriptor # i
      BY <1>6, <2>2 DEF SendersOf
    <3>2. Loaded(q) /\ ~Advancing(q)
      BY <1>5, <1>7 DEF RingsAgree
    <3>. QED BY <1>3, <1>4, <1>8, <2>2, <3>1, <3>2 DEF Loaded, Advancing
  <2>3. CASE q # p /\ senders[q].step = "outside"
    BY <1>4, <2>3 DEF Loaded
  <2>. QED BY <2>1, <2>2, <2>3
<1>19. LastCopy'
  <2>1. \A q \in Senders : senders'[q].step = "copying" => senders'[q] = senders[q]
    BY <1>4
  <2>. QED BY <1>3, <1>5, <2>1 DEF RingsAgree, LastCopy, Copying, HasFrom
<1>. QED BY <1>15, <1>16, <1>17, <1>18, <1>19 DEF RingsAgree

(* Reading the index and storing the next one.                             *)
LEMMA AdvanceKeeps ==
  ASSUME CardTypes, RingsAgree, NEW p \in Senders, LoadCurrent(p) \/ StoreCurrent(p)
  PROVE  RingsAgree'
<1>1. /\ Advancing(p) /\ UNCHANGED <<sendBufferDescr, nextSend, order, sendBuffers, latest>>
      /\ senders \in [Senders -> Sender]
  BY DEF LoadCurrent, StoreCurrent, Advancing, historyVars, CardTypes
<1>2. /\ senders'[p].step \in {"advanced", "stored"}
      /\ senders'[p].descriptor = senders[p].descriptor
      /\ senders'[p].frame = senders[p].frame /\ senders'[p].left = senders[p].left
      /\ senders[p].step \in {"chosen", "advanced"}
      /\ \A q \in Senders : q # p => senders'[q] = senders[q]
  BY <1>1 DEF LoadCurrent, StoreCurrent, Sender
<1>3. /\ UNCHANGED <<Claimed, Queued, SendQueue>> /\ \A i : SendersOf(i)' = SendersOf(i)
  <2>1. \A q \in Senders : /\ senders'[q].step = "outside" <=> senders[q].step = "outside"
                           /\ senders'[q].descriptor = senders[q].descriptor
                           /\ senders'[q].frame = senders[q].frame
    BY <1>2
  <2>. QED BY <1>1, <2>1, SameClaims
<1>4. \A q \in Senders : q # p => ~Advancing(q)
  BY <1>1, OneAdvances
<1>5. Loaded(p) /\ Upcoming = After(currentSendBuffer)
  BY <1>1 DEF RingsAgree, Upcoming
<1>6. (Upcoming = Place(nextSend, Queued))'
  <2>1. CASE LoadCurrent(p)
    <3>1. Upcoming' = After(currentSendBuffer)
      BY <1>1, <2>1 DEF LoadCurrent, Upcoming, Advancing
    <3>. QED BY <1>1, <1>3, <1>5, <3>1 DEF RingsAgree
  <2>2. CASE StoreCurrent(p)
    <3>1. \A q \in Senders : ~Advancing(q)'
      BY <1>1, <1>2, <1>4, <2>2 DEF StoreCurrent, Advancing
    <3>2. currentSendBuffer' = After(currentSendBuffer)
      BY <1>5, <2>2 DEF StoreCurrent, Loaded
    <3>. QED BY <1>1, <1>3, <1>5, <3>1, <3>2 DEF RingsAgree, Upcoming
  <2>. QED BY <2>1, <2>2
<1>7. ASSUME NEW q \in Senders PROVE Loaded(q)'
  <2>0. Loaded(q)
    BY DEF RingsAgree
  <2>1. CASE q # p
    BY <1>1, <1>2, <1>3, <1>4, <2>0, <2>1 DEF Loaded, Advancing
  <2>2. CASE q = p /\ LoadCurrent(p)
    <3>1. /\ senders'[p].step = "advanced" /\ senders'[p].next = After(currentSendBuffer)
          /\ currentSendBuffer' = currentSendBuffer
      BY <1>1, <2>2 DEF LoadCurrent, Sender
    <3>. QED BY <1>1, <1>2, <1>3, <2>0, <2>2, <3>1 DEF Loaded, Advancing
  <2>3. CASE q = p /\ StoreCurrent(p)
    <3>1. senders'[p].step = "stored"
      BY <1>1, <2>3 DEF StoreCurrent, Sender
    <3>. QED BY <1>1, <1>2, <1>3, <2>0, <2>3, <3>1 DEF Loaded, Advancing
  <2>. QED BY <2>1, <2>2, <2>3
<1>8. LastCopy'
  <2>1. \A q \in Senders : senders'[q].step = "copying" => senders'[q] = senders[q]
    BY <1>2
  <2>. QED BY <1>1, <2>1 DEF RingsAgree, LastCopy, Copying, HasFrom
<1>. QED BY <1>1, <1>3, <1>6, <1>7, <1>8 DEF RingsAgree

(* The copy begins and goes on.                                            *)
LEMMA CopyKeeps ==
  ASSUME CardTypes, RingsAgree, NEW p \in Senders, BeginCopy(p) \/ Copy(p)
  PROVE  RingsAgree'
<1>. DEFINE s == senders[p]
<1>1. /\ s.step \in {"stored", "copying"} /\ senders \in [Senders -> Sender] /\ s \in Sender
      /\ UNCHANGED <<sendBufferDescr, currentSendBuffer, nextSend, order>>
  BY DEF BeginCopy, Copy, historyVars, CardTypes
<1>2. /\ senders'[p].step = "copying" /\ senders'[p].descriptor = s.descriptor
      /\ senders'[p].frame = s.frame
      /\ \A q \in Senders : q # p => senders'[q] = senders[q]
  BY <1>1 DEF BeginCopy, Copy, Sender
<1>3. /\ BeginCopy(p) => senders'[p].left = s.left
      /\ Copy(p) => senders'[p].left = s.left - 1 /\ s.left > 0
  BY <1>1 DEF BeginCopy, Copy, Copied, Sender
<1>4. /\ UNCHANGED <<Claimed, Queued, SendQueue>> /\ \A i : SendersOf(i)' = SendersOf(i)
  <2>1. \A q \in Senders : /\ senders'[q].step = "outside" <=> senders[q].step = "outside"
                           /\ senders'[q].descriptor = senders[q].descriptor
                           /\ senders'[q].frame = senders[q].frame
    BY <1>1, <1>2
  <2>. QED BY <1>1, <2>1, SameClaims
<1>5. (Upcoming = Place(nextSend, Queued))'
  <2>1. \A q \in Senders : Advancing(q)' <=> Advancing(q)
    BY <1>1, <1>2 DEF Advancing
  <2>. QED BY <1>1, <1>4, <2>1 DEF RingsAgree, Upcoming
<1>6. PICK frame \in Frames : s.frame = {frame} /\ s.left <= Length(frame)
                             /\ (s.step = "stored" => s.left = Length(frame))
  BY <1>1 DEF RingsAgree, Loaded
<1>7. s.left \in Nat /\ Length(frame) \in Nat /\ s.descriptor \in Ring
  BY <1>1, <1>6, CardAssumption, CellsAreInside DEF Sender
<1>8. /\ sendBufferDescr[s.descriptor].owner = "host"
      /\ \A q \in Senders : q # p /\ senders[q].step # "outside" =>
           senders[q].descriptor # s.descriptor
  BY <1>1 DEF RingsAgree, Loaded, SendersOf
<1>9. ASSUME NEW q \in Senders PROVE Loaded(q)'
  <2>1. Loaded(q)
    BY DEF RingsAgree
  <2>2. CASE q # p
    BY <1>1, <1>2, <1>4, <2>1, <2>2 DEF Loaded, Advancing
  <2>3. CASE q = p
    <3>1. senders'[p].left <= Length(frame)
      BY <1>3, <1>6, <1>7
    <3>2. \E f \in Frames : /\ senders'[p].frame = {f} /\ senders'[p].left <= Length(f)
                           /\ (senders'[p].step # "copying" => senders'[p].left = Length(f))
      BY <1>2, <1>6, <3>1
    <3>. QED BY <1>1, <1>2, <1>4, <2>1, <2>3, <3>2 DEF Loaded, Advancing
  <2>. QED BY <2>2, <2>3
<1>10. CASE BeginCopy(p)
  <2>1. /\ latest' = [descriptor |-> s.descriptor, alone |-> \A q \in Senders : ~Copying(q)]
        /\ sendBuffers' = sendBuffers /\ s.step = "stored"
    BY <1>10 DEF BeginCopy
  <2>2. LastCopy'
    <3>. SUFFICES ASSUME latest'.alone PROVE LastCopy'
      BY DEF LastCopy
    <3>1. latest'.descriptor = s.descriptor /\ \A q \in Senders : ~Copying(q)
      BY <2>1
    <3>2. \A q \in Senders : Copying(q)' => senders'[q].descriptor = latest'.descriptor
      BY <1>2, <3>1 DEF Copying
    <3>3. ASSUME NEW q \in Senders,
                 senders'[q].step = "copying", senders'[q].descriptor = latest'.descriptor,
                 NEW f \in senders'[q].frame
          PROVE  HasFrom(latest.descriptor, f, senders[q].left)'
      <4>1. q = p
        BY <1>2, <1>8, <3>1, <3>3
      <4>2. f = frame /\ senders'[p].left = Length(frame)
        BY <1>2, <1>3, <1>6, <1>10, <2>1, <3>3, <4>1
      <4>3. senders'[p].left .. Length(frame) - 1 = {}
        BY <1>7, <4>2
      <4>. QED BY <4>1, <4>2, <4>3 DEF HasFrom
    <3>. QED BY <1>1, <1>8, <3>1, <3>2, <3>3 DEF LastCopy
  <2>. QED BY <1>1, <1>4, <1>5, <1>9, <2>2 DEF RingsAgree
<1>11. CASE Copy(p)
  <2>. DEFINE left == s.left - 1
              cell == FirstCell(SendBase, s.descriptor) + left
  <2>1. /\ latest' = latest /\ s.step = "copying" /\ s.left > 0
        /\ sendBuffers' = [sendBuffers EXCEPT ![cell] = <<frame, left>>]
    BY <1>3, <1>6, <1>11 DEF Copy, historyVars
  <2>2. cell \in 0 .. NumBuffers + MaxCells /\ DOMAIN sendBuffers = 0 .. NumBuffers + MaxCells
        /\ FirstCell(SendBase, s.descriptor) \in Nat
    <3>1. left \in 0 .. Length(frame) - 1
      BY <1>6, <1>7, <2>1
    <3>. QED BY <1>7, <3>1, CardAssumption, CellsAreInside DEF CardTypes
  <2>3. LastCopy'
    <3>. SUFFICES ASSUME latest.alone PROVE LastCopy'
      BY <2>1 DEF LastCopy
    <3>1. LastCopy /\ s.descriptor = latest.descriptor
      BY <2>1 DEF RingsAgree, LastCopy, Copying
    <3>2. \A q \in Senders : Copying(q)' => senders'[q].descriptor = latest'.descriptor
      BY <1>2, <2>1, <3>1 DEF LastCopy, Copying
    <3>3. ASSUME NEW q \in Senders,
                 senders'[q].step = "copying", senders'[q].descriptor = latest'.descriptor,
                 NEW f \in senders'[q].frame
          PROVE  HasFrom(latest.descriptor, f, senders[q].left)'
      <4>1. q = p
        BY <1>2, <1>8, <2>1, <3>1, <3>3
      <4>2. f = frame /\ senders'[p].left = left
        BY <1>2, <1>3, <1>6, <1>11, <3>3, <4>1
      <4>3. ASSUME NEW k \in left .. Length(frame) - 1
            PROVE  sendBuffers'[FirstCell(SendBase, latest.descriptor) + k] = <<frame, k>>
        <5>1. CASE k = left
          BY <2>1, <2>2, <3>1, <5>1
        <5>2. CASE k # left
          <6>1. k \in s.left .. Length(frame) - 1
            BY <1>7, <5>2
          <6>2. HasFrom(latest.descriptor, frame, s.left)
            BY <1>6, <2>1, <3>1 DEF LastCopy
          <6>3. FirstCell(SendBase, latest.descriptor) + k # cell
            BY <1>7, <2>2, <3>1, <5>2
          <6>4. sendBuffers[FirstCell(SendBase, latest.descriptor) + k] = <<frame, k>>
            BY <6>1, <6>2 DEF HasFrom
          <6>5. sendBuffers'[FirstCell(SendBase, latest.descriptor) + k]
                  = sendBuffers[FirstCell(SendBase, latest.descriptor) + k]
            <7>1. FirstCell(SendBase, latest.descriptor) + k \in DOMAIN sendBuffers
              <8>1. k \in 0 .. Length(frame) - 1
                BY <1>7, <2>1, <6>1
              <8>. QED BY <1>7, <2>2, <3>1, <8>1, CardAssumption, CellsAreInside
            <7>. QED BY <2>1, <6>3, <7>1
          <6>. QED BY <6>4, <6>5
        <5>. QED BY <5>1, <5>2
      <4>. QED BY <2>1, <4>1, <4>2, <4>3 DEF HasFrom
    <3>. QED BY <1>1, <1>8, <2>1, <3>1, <3>2, <3>3 DEF LastCopy
  <2>. QED BY <1>1, <1>4, <1>5, <1>9, <2>3 DEF RingsAgree
<1>. QED BY <1>10, <1>11

(* What is handed over was claimed before.                                 *)
LEMMA HandOverKeeps ==
  ASSUME CardTypes, RingsAgree, NEW p \in Senders, HandOver(p)
  PROVE  RingsAgree'
<1>. DEFINE s == senders[p]
<1>1. PICK i : i = s.descriptor
  OBVIOUS
<1>2. /\ s.step = "copying" /\ s.left = 0 /\ senders' = [senders EXCEPT ![p] = Outside]
      /\ sendBufferDescr' = [sendBufferDescr EXCEPT ![i] = [owner |-> "card", frame |-> s.frame]]
      /\ UNCHANGED <<currentSendBuffer, sendBuffers, nextSend, order, latest>>
  BY <1>1 DEF HandOver, Copied, historyVars
<1>3. /\ senders \in [Senders -> Sender] /\ sendBufferDescr \in [Ring -> Descriptor]
      /\ i \in Ring
  BY <1>1 DEF CardTypes, Sender
<1>4. /\ senders'[p].step = "outside"
      /\ \A q \in Senders : q # p => senders'[q] = senders[q]
  BY <1>2, <1>3 DEF Outside
<1>5. /\ sendBufferDescr'[i] = [owner |-> "card", frame |-> s.frame]
      /\ \A j : j # i => sendBufferDescr'[j] = sendBufferDescr[j]
  BY <1>2, <1>3
<1>6. /\ SendersOf(i) = {p} /\ sendBufferDescr[i].owner = "host"
      /\ \A q \in Senders : q # p /\ senders[q].step # "outside" =>
           senders[q].descriptor # i
  BY <1>1, <1>2 DEF RingsAgree, Loaded, SendersOf
<1>7. SendersOf(i)' = {} /\ \A j : j # i => SendersOf(j)' = SendersOf(j)
  BY <1>1, <1>4, <1>6 DEF SendersOf
<1>8. UNCHANGED Claimed
  <2>1. Claimed'[i] = Claimed[i]
    <3>1. Claimed'[i] = [owner |-> "card", frame |-> s.frame]
      BY <1>3, <1>5, <1>7 DEF Claimed
    <3>. QED BY <1>1, <1>2, <3>1, BusyIsClaimed
  <2>2. ASSUME NEW j \in Ring, j # i PROVE Claimed'[j] = Claimed[j]
    <3>1. PICK holders : holders = SendersOf(j)
      OBVIOUS
    <3>2. SendersOf(j)' = holders
      BY <1>7, <2>2, <3>1
    <3>3. holders \subseteq Senders \ {p}
      BY <1>1, <2>2, <3>1 DEF SendersOf
    <3>4. {senders'[q].frame : q \in holders} = {senders[q].frame : q \in holders}
      BY <1>4, <3>3
    <3>. QED BY <1>5, <2>2, <3>1, <3>2, <3>4 DEF Claimed
  <2>3. \A j \in Ring : Claimed'[j] = Claimed[j]
    BY <2>1, <2>2
  <2>. QED BY <2>3 DEF Claimed
<1>9. UNCHANGED <<Queued, SendQueue>>
  BY <1>2, <1>8 DEF Queued, SendQueue
<1>10. (Upcoming = Place(nextSend, Queued))'
  <2>1. \A q \in Senders : Advancing(q)' <=> Advancing(q)
    BY <1>2, <1>4 DEF Advancing
  <2>. QED BY <1>2, <1>9, <2>1 DEF RingsAgree, Upcoming
<1>11. ASSUME NEW q \in Senders PROVE Loaded(q)'
  <2>1. CASE q = p \/ senders[q].step = "outside"
    BY <1>4, <2>1 DEF Loaded
  <2>2. CASE q # p /\ senders[q].step # "outside"
    <3>1. Loaded(q) /\ senders[q].descriptor # i /\ senders'[q] = senders[q]
      BY <1>4, <1>6, <2>2 DEF RingsAgree
    <3>. QED BY <1>2, <1>5, <1>7, <2>2, <3>1 DEF Loaded, Advancing
  <2>. QED BY <2>1, <2>2
<1>12. LastCopy'
  <2>. SUFFICES ASSUME latest.alone PROVE LastCopy'
    BY <1>2 DEF LastCopy
  <2>1. LastCopy
    BY DEF RingsAgree
  <2>2. \A q \in Senders : senders'[q].step = "copying" => senders'[q] = senders[q]
    BY <1>4
  <2>3. CASE latest.descriptor = i
    <3>1. \A frame \in s.frame : HasFrom(i, frame, 0)
      BY <1>1, <1>2, <2>1, <2>3 DEF LastCopy
    <3>2. \A frame \in sendBufferDescr'[i].frame : HasFrom(i, frame, 0)'
      BY <1>2, <1>5, <3>1 DEF HasFrom
    <3>. QED BY <1>2, <2>1, <2>2, <2>3, <3>2 DEF LastCopy, Copying, HasFrom
  <2>4. CASE latest.descriptor # i
    BY <1>2, <1>5, <2>1, <2>2, <2>4 DEF LastCopy, Copying, HasFrom
  <2>. QED BY <2>3, <2>4
<1>. QED BY <1>2, <1>8, <1>9, <1>10, <1>11, <1>12 DEF RingsAgree

LEMMA TransmitKeeps ==
  ASSUME CardTypes, SendInv, Transmit
  PROVE  SendInv'
<1>. SUFFICES ASSUME ~overrun' PROVE RingsAgree'
  BY DEF SendInv
<1>. DEFINE d == [owner |-> "host", frame |-> {}]
<1>1. PICK first : first = nextSend
  OBVIOUS
<1>2. /\ sendBufferDescr[first].owner = "card" /\ ~overrun
      /\ sendBufferDescr' = [sendBufferDescr EXCEPT ![first] = d]
      /\ nextSend' = After(first) /\ order' = Tail(order)
      /\ UNCHANGED <<currentSendBuffer, sendBuffers, senders, latest>>
  BY <1>1 DEF Transmit
<1>3. first \in Ring /\ sendBufferDescr \in [Ring -> Descriptor]
  BY <1>1 DEF CardTypes
<1>4. RingsAgree
  BY <1>2 DEF SendInv
<1>5. /\ sendBufferDescr'[first].owner = "host"
      /\ \A j : j # first => sendBufferDescr'[j] = sendBufferDescr[j]
  BY <1>2, <1>3
<1>6. \A q \in Senders : senders[q].step # "outside" => senders[q].descriptor # first
  BY <1>2, <1>4 DEF RingsAgree, Loaded
<1>7. SendersOf(first) = {} /\ \A j : SendersOf(j)' = SendersOf(j)
  BY <1>2, <1>6 DEF SendersOf
<1>8. /\ OneIsNew(Claimed, Claimed', first) /\ Claimed'[first].owner # "card"
      /\ first \in Owned(Claimed, "card")
  <2>1. Claimed[first] = sendBufferDescr[first] /\ Claimed'[first] = sendBufferDescr'[first]
    BY <1>3, <1>7 DEF Claimed
  <2>2. \A j \in Ring : j # first => Claimed'[j] = Claimed[j]
    <3>. SUFFICES ASSUME NEW j \in Ring, j # first PROVE Claimed'[j] = Claimed[j]
      OBVIOUS
    <3>1. SendersOf(j)' = SendersOf(j) /\ sendBufferDescr'[j] = sendBufferDescr[j]
      BY <1>5, <1>7
    <3>. QED BY <1>2, <3>1 DEF Claimed
  <2>3. DOMAIN Claimed = Ring /\ DOMAIN Claimed' = Ring
    BY DEF Claimed
  <2>. QED BY <1>2, <1>3, <1>5, <2>1, <2>2, <2>3 DEF OneIsNew, Owned
<1>9. /\ Queued > 0
      /\ Holds(Claimed', After(first), Queued - 1, "card")
      /\ FramesFrom(Claimed', After(first), "card") = Tail(SendQueue)
      /\ Place(After(first), Queued - 1) = Place(first, Queued)
  BY <1>1, <1>4, <1>8, TakeTails DEF RingsAgree, SendQueue
<1>10. Queued' = Queued - 1
  BY <1>9 DEF Holds, Queued
<1>11. Holds(Claimed, nextSend, Queued, "card")'
  BY <1>2, <1>9, <1>10
<1>12. (order = SendQueue)'
  BY <1>2, <1>4, <1>9 DEF SendQueue, RingsAgree
<1>13. (Upcoming = Place(nextSend, Queued))'
  BY <1>1, <1>2, <1>4, <1>9, <1>10 DEF Upcoming, Advancing, RingsAgree
<1>14. ASSUME NEW q \in Senders PROVE Loaded(q)'
  <2>1. Loaded(q)
    BY <1>4 DEF RingsAgree
  <2>. QED BY <1>2, <1>5, <1>6, <1>7, <2>1 DEF Loaded, Advancing
<1>15. LastCopy'
  BY <1>2, <1>4, <1>5 DEF RingsAgree, LastCopy, Copying, HasFrom
<1>. QED BY <1>11, <1>12, <1>13, <1>14, <1>15 DEF RingsAgree

LEMMA NextSends ==
  ASSUME CardTypes, SendInv, [CardNext]_cardVars
  PROVE  SendInv'
<1>1. CASE UNCHANGED sendVars
  <2>1. \A i : SendersOf(i)' = SendersOf(i)
    BY <1>1 DEF sendVars, SendersOf
  <2>2. UNCHANGED <<Claimed, Queued, SendQueue>>
    BY <1>1, SameClaims DEF sendVars
  <2>3. \A p \in Senders : Loaded(p)' <=> Loaded(p)
    BY <1>1, <2>1 DEF sendVars, Loaded, Advancing
  <2>4. LastCopy' <=> LastCopy
    BY <1>1 DEF sendVars, historyVars, LastCopy, Copying, HasFrom
  <2>5. UNCHANGED Upcoming
    BY <1>1 DEF sendVars, Upcoming, Advancing
  <2>. QED BY <1>1, <2>2, <2>3, <2>4, <2>5
           DEF sendVars, historyVars, SendInv, RingsAgree
<1>2. CASE \E p \in Senders : SendStep(p)
  <2>1. PICK p \in Senders : SendStep(p)
    BY <1>2
  <2>2. UNCHANGED overrun
    BY <2>1 DEF SendStep, LoadCurrent, StoreCurrent, BeginCopy, Copy, HandOver, historyVars
  <2>. QED BY <2>1, <2>2, AdvanceKeeps, CopyKeeps, HandOverKeeps DEF SendInv, SendStep
<1>3. CASE \E p \in Senders : \E frame \in Frames : BeginSend(p, frame)
  BY <1>3, SendKeeps
<1>4. CASE Transmit
  BY <1>4, TransmitKeeps
<1>. QED BY <1>1, <1>2, <1>3, <1>4
        DEF CardNext, CardSends, CardReceives, CardInterrupt, ActivateCard, ReadCauses,
            Receive, Acknowledge, Arrive, Announce, cardVars

(* As long as no call of Send has taken a descriptor that the card or      *)
(* another call still had, the frames leave in the order in which the      *)
(* calls took their descriptors, however many programs are in Send and     *)
(* wherever each is preempted; and if nobody else was copying when the     *)
(* last copy was begun, that frame is whole.                               *)
THEOREM SendIsAlwaysFaithful == CardSpec => []SendIsFaithful
<1>1. CardInit => CardTypes /\ SendInv
  BY CardInitTypes, InitSends
<1>2. CardTypes /\ SendInv /\ [CardNext]_cardVars => CardTypes' /\ SendInv'
  BY CardTypesKept, NextSends
<1>3. SendInv => SendIsFaithful
  BY DEF SendInv, RingsAgree, SendIsFaithful, SendsInOrder, SendQueue, LastIsIntact,
         LastCopy, HasFrom, Whole
<1>. QED BY <1>1, <1>2, <1>3, PTL DEF CardSpec
=============================================================================
