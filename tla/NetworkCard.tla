----------------------------- MODULE NetworkCard ------------------------------
(***************************************************************************)
(* The driver of the network card, amd_am79c973                            *)
(* (src/src/drivers/amd_am79c973.cpp).  Driver and card share two rings of *)
(* descriptors; a bit in each says whose it is.  The card runs beside the  *)
(* driver: frames arrive and leave between any two steps of Send and of    *)
(* HandleInterrupt, which itself is not interrupted.  Send is an ordinary  *)
(* function without a lock: several programs may be in it.                 *)
(*                                                                         *)
(* The card is external: it is modelled from the bits the driver sets and  *)
(* tests, and keeps its interrupt up while a cause of it is set.           *)
(***************************************************************************)
EXTENDS Integers, Sequences, FiniteSets

CONSTANTS
  NumBuffers,          \* descriptors in each ring, 8
  Frames,
  Cells,               \* 16 bytes are a cell: the cells of each frame
  MaxCells,            \* a frame of more (1518 bytes) is cut
  Senders,             \* programs that call Send
  SendBase, RecvBase   \* the arrays' addresses, modulo 16

ASSUME CardAssumption ==
  /\ NumBuffers \in Nat \ {0}
  /\ Cells \in [Frames -> Nat \ {0}]
  /\ MaxCells \in Nat \ {0}
  /\ SendBase \in 0 .. 15 /\ RecvBase \in 0 .. 15

VARIABLES
  recvBufferDescr, currentRecvBuffer,   \* the receive ring
  sendBufferDescr, currentSendBuffer,   \* the send ring
  recvBuffers, sendBuffers,             \* what each cell holds
  senders,                              \* where each program is in Send
  handler,                              \* where HandleInterrupt is
  started, csr0,                        \* the card: causes of an interrupt,
  nextRecv, nextSend,                   \* its places in the rings,
  incoming,                             \* the frame that it is storing
  order, overrun, latest                \* history of Send, see there

receiveVars == <<recvBufferDescr, currentRecvBuffer, recvBuffers, nextRecv, incoming>>
historyVars == <<order, overrun, latest>>
sendVars == <<sendBufferDescr, currentSendBuffer, sendBuffers, senders, nextSend,
              historyVars>>
otherVars == <<receiveVars, handler, started, csr0>>   \* all that Send leaves alone
cardVars == <<sendVars, otherVars>>

Ring == 0 .. NumBuffers - 1

After(i) == (i + 1) % NumBuffers

Outside == [step |-> "outside", frame |-> {}, descriptor |-> 0, next |-> 0, left |-> 0]

(* The constructor has set up the rings: all buffers to receive are the    *)
(* card's, all to send the driver's.                                       *)
CardInit ==
  /\ recvBufferDescr = [i \in Ring |-> [owner |-> "card", frame |-> {}]]
  /\ sendBufferDescr = [i \in Ring |-> [owner |-> "host", frame |-> {}]]
  /\ currentRecvBuffer = 0 /\ currentSendBuffer = 0
  /\ nextRecv = 0 /\ nextSend = 0
  /\ recvBuffers = [c \in 0 .. NumBuffers + MaxCells |-> <<>>]
  /\ sendBuffers = [c \in 0 .. NumBuffers + MaxCells |-> <<>>]
  /\ senders = [p \in Senders |-> Outside]
  /\ handler = [step |-> "idle"]
  /\ started = FALSE /\ csr0 = {} /\ incoming = {}
  /\ order = <<>> /\ overrun = FALSE
  /\ latest = [descriptor |-> 0, alone |-> FALSE]

Owned(ring, owner) == {i \in DOMAIN ring : ring[i].owner = owner}

(* sendBuffers and recvBuffers are declared [2*1024+15][8]: the buffers    *)
(* are not 2 KB but 8 bytes apart, and each is rounded up to the next      *)
(* multiple of 16, so that they overlap.                                   *)
FirstCell(base, i) == (base + 8 * i + 15) \div 16

Length(frame) == IF Cells[frame] > MaxCells THEN MaxCells ELSE Cells[frame]

(* Buffer i of an array holds this frame from end to end.                  *)
Whole(buffers, base, i, frame) ==
  \A k \in 0 .. Length(frame) - 1 : buffers[FirstCell(base, i) + k] = <<frame, k>>

-----------------------------------------------------------------------------
(* The driver                                                              *)

ActivateCard ==
  /\ ~started
  /\ started' = TRUE
  /\ csr0' = {"IDON"}
  /\ UNCHANGED <<receiveVars, sendVars, handler>>

FirstByteLeftOut(left) == left = 1               \* mutant: src > buffer
Copied(left) == left = 0

(* The send ring as it is when all calls of Send have come to their end.   *)
SendersOf(i) == {p \in Senders : senders[p].step # "outside" /\ senders[p].descriptor = i}

Claimed ==
  [i \in Ring |->
     IF SendersOf(i) = {} THEN sendBufferDescr[i]
     ELSE [owner |-> "card", frame |-> UNION {senders[p].frame : p \in SendersOf(i)}]]

(* Send takes the next descriptor, whoever owns it; history has the frames *)
(* in the order of these steps, and notes when the descriptor was not      *)
(* free: the card still had it, or another call.                           *)
BeginSend(p, frame) ==
  /\ started /\ senders[p].step = "outside"
  /\ senders' = [senders EXCEPT ![p] =
                   [step |-> "chosen", frame |-> {frame}, next |-> 0,
                    descriptor |-> currentSendBuffer, left |-> Length(frame)]]
  /\ overrun' = (overrun \/ currentSendBuffer \in Owned(Claimed, "card"))
  /\ order' = IF overrun' THEN <<>> ELSE Append(order, {frame})
  /\ UNCHANGED <<otherVars, sendBufferDescr, currentSendBuffer, sendBuffers, nextSend,
                 latest>>

(* currentSendBuffer = (currentSendBuffer + 1) % 8, *)
LoadCurrent(p) ==
  /\ senders[p].step = "chosen"
  /\ senders' = [senders EXCEPT ![p].step = "advanced",
                                ![p].next = After(currentSendBuffer)]
  /\ UNCHANGED <<otherVars, sendBufferDescr, currentSendBuffer, sendBuffers, nextSend,
                 historyVars>>

StoreCurrent(p) ==
  /\ senders[p].step = "advanced"
  /\ senders' = [senders EXCEPT ![p].step = "stored", ![p].next = 0]
  /\ currentSendBuffer' = senders[p].next
  /\ UNCHANGED <<otherVars, sendBufferDescr, sendBuffers, nextSend, historyVars>>

(* the copy from the last byte to the first; history has the descriptor    *)
(* whose copy was begun last, and whether others were being made,          *)
Copying(p) == senders[p].step = "copying" /\ senders[p].left > 0

BeginCopy(p) ==
  /\ senders[p].step = "stored"
  /\ senders' = [senders EXCEPT ![p].step = "copying"]
  /\ latest' = [descriptor |-> senders[p].descriptor,
                alone |-> \A q \in Senders : ~Copying(q)]
  /\ UNCHANGED <<otherVars, sendBufferDescr, currentSendBuffer, sendBuffers, nextSend,
                 order, overrun>>

Copy(p) ==
  LET left == senders[p].left - 1
  IN  /\ senders[p].step = "copying" /\ ~Copied(senders[p].left)
      /\ senders' = [senders EXCEPT ![p].left = left]
      /\ \E frame \in senders[p].frame :
           sendBuffers' = [sendBuffers EXCEPT
             ![FirstCell(SendBase, senders[p].descriptor) + left] = <<frame, left>>]
      /\ UNCHANGED <<otherVars, sendBufferDescr, currentSendBuffer, nextSend, historyVars>>

(* and the descriptor is given to the card.                                *)
HandOver(p) ==
  /\ senders[p].step = "copying" /\ Copied(senders[p].left)
  /\ senders' = [senders EXCEPT ![p] = Outside]
  /\ sendBufferDescr' = [sendBufferDescr EXCEPT ![senders[p].descriptor] =
                           [owner |-> "card", frame |-> senders[p].frame]]
  /\ UNCHANGED <<otherVars, currentSendBuffer, sendBuffers, nextSend, historyVars>>

SendStep(p) ==
  LoadCurrent(p) \/ StoreCurrent(p) \/ BeginCopy(p) \/ Copy(p) \/ HandOver(p)

(* HandleInterrupt reads the causes, *)
ReadCauses ==
  /\ handler.step = "idle" /\ csr0 # {}
  /\ handler' = [step |-> IF "RINT" \in csr0 THEN "receive" ELSE "acknowledge",
                 temp |-> csr0]
  /\ UNCHANGED <<receiveVars, sendVars, started, csr0>>

(* returns every buffer that has a frame, *)
ReturnOnlyOne ==                                 \* mutant: if instead of for
  /\ recvBufferDescr' = [recvBufferDescr EXCEPT ![currentRecvBuffer] =
                           [owner |-> "card", frame |-> {}]]
  /\ currentRecvBuffer' = After(currentRecvBuffer)
  /\ handler' = [handler EXCEPT !.step = "acknowledge"]
ReturnAndStay ==                                 \* mutant: no step to the next
  /\ recvBufferDescr' = [recvBufferDescr EXCEPT ![currentRecvBuffer] =
                           [owner |-> "card", frame |-> {}]]
  /\ UNCHANGED <<currentRecvBuffer, handler>>
ReturnBuffer ==
  /\ recvBufferDescr' = [recvBufferDescr EXCEPT ![currentRecvBuffer] =
                           [owner |-> "card", frame |-> {}]]
  /\ currentRecvBuffer' = After(currentRecvBuffer)
  /\ UNCHANGED handler

Receive ==
  /\ handler.step = "receive"
  /\ \/ recvBufferDescr[currentRecvBuffer].owner = "host" /\ ReturnBuffer
     \/ /\ recvBufferDescr[currentRecvBuffer].owner = "card"
        /\ handler' = [handler EXCEPT !.step = "acknowledge"]
        /\ UNCHANGED <<recvBufferDescr, currentRecvBuffer>>
  /\ UNCHANGED <<recvBuffers, nextRecv, incoming, sendVars, started, csr0>>

(* and clears the causes it has read, of which there may be new ones.      *)
Acknowledge ==
  /\ handler.step = "acknowledge"
  /\ handler' = [step |-> "idle"]
  /\ csr0' = csr0 \ handler.temp
  /\ UNCHANGED <<receiveVars, sendVars, started>>

CardInterrupt == ReadCauses \/ Receive \/ Acknowledge

-----------------------------------------------------------------------------
(* The card                                                                *)

(* A frame arrives and is stored; without a buffer it is missed.           *)
Arrive(frame) ==
  /\ started /\ incoming = {}
  /\ \/ /\ recvBufferDescr[nextRecv].owner = "card"
        /\ incoming' = {frame}
        /\ recvBuffers' = [c \in DOMAIN recvBuffers |->
             LET k == c - FirstCell(RecvBase, nextRecv)
             IN  IF k \in 0 .. Length(frame) - 1 THEN <<frame, k>> ELSE recvBuffers[c]]
        /\ UNCHANGED csr0
     \/ /\ recvBufferDescr[nextRecv].owner = "host"
        /\ csr0' = csr0 \cup {"MISS"}
        /\ UNCHANGED <<incoming, recvBuffers>>
  /\ UNCHANGED <<recvBufferDescr, nextRecv, currentRecvBuffer, sendVars, handler, started>>

(* The card passes the buffer to the driver.                               *)
Announce ==
  /\ incoming # {}
  /\ recvBufferDescr' = [recvBufferDescr EXCEPT ![nextRecv] =
                           [owner |-> "host", frame |-> incoming]]
  /\ nextRecv' = After(nextRecv)
  /\ csr0' = csr0 \cup {"RINT"}
  /\ incoming' = {}
  /\ UNCHANGED <<currentRecvBuffer, recvBuffers, sendVars, handler, started>>

Transmit ==
  /\ sendBufferDescr[nextSend].owner = "card"
  /\ sendBufferDescr' = [sendBufferDescr EXCEPT ![nextSend] =
                           [owner |-> "host", frame |-> {}]]
  /\ nextSend' = After(nextSend)
  /\ csr0' = csr0 \cup {"TINT"}
  /\ order' = IF overrun THEN <<>> ELSE Tail(order)
  /\ UNCHANGED <<receiveVars, currentSendBuffer, sendBuffers, senders, overrun, latest,
                 handler, started>>

CardSends ==
  \/ ActivateCard
  \/ \E p \in Senders : SendStep(p) \/ \E frame \in Frames : BeginSend(p, frame)
  \/ CardInterrupt
  \/ Transmit

CardReceives == Announce \/ \E frame \in Frames : Arrive(frame)

CardNext == CardSends \/ CardReceives

(* The interrupt stays requested, the card looks for work, and a program   *)
(* in Send gets on.                                                        *)
CardSpec ==
  /\ CardInit /\ [][CardNext]_cardVars
  /\ WF_cardVars(CardInterrupt) /\ WF_cardVars(Transmit)
  /\ \A p \in Senders : WF_cardVars(SendStep(p))

-----------------------------------------------------------------------------
(* Properties                                                              *)

(* What is in a ring, from a place on: for each buffer the set of its one  *)
(* frame.                                                                  *)
FramesFrom(ring, first, owner) ==
  [k \in 1 .. Cardinality(Owned(ring, owner)) |->
     ring[(first + k - 1) % NumBuffers].frame]

(* Driver and card go round the receive ring without ever losing each      *)
(* other, also when the ring is full or the handler has started before the *)
(* frame was there: each frame that found a buffer is announced to the     *)
(* driver once and in order.  What it finds in that buffer may be another  *)
(* frame's, since they overlap, but only if that frame began to be stored  *)
(* before this one was taken.                                              *)
Announced ==
  LET frames == FramesFrom(recvBufferDescr, currentRecvBuffer, "host")
  IN  [k \in DOMAIN frames |->
         [frame |-> frames[k],
          whole |-> \A frame \in frames[k] :
                      Whole(recvBuffers, RecvBase,
                            (currentRecvBuffer + k - 1) % NumBuffers, frame)]]

Received == INSTANCE Fifo WITH
  Capacity <- NumBuffers,
  Frames <- Frames,
  queue <- Announced

ReceiveIsFifo == Received!Spec

(* A frame is taken while its interrupt is requested, without waiting for  *)
(* another frame.  The exception is a frame that comes when the handler    *)
(* has looked for frames for the last time and not yet acknowledged: its   *)
(* interrupt is cleared with the others.                                   *)
TooLate == handler.step = "acknowledge" /\ "RINT" \in handler.temp

FramesAreTaken ==
  \A i \in Ring :
    recvBufferDescr[i].owner = "host" /\ "RINT" \in csr0 /\ ~TooLate
      ~> recvBufferDescr[i].owner = "card"

(* As long as no call of Send has taken a descriptor that the card or      *)
(* another call still had, frames leave in the order in which the calls    *)
(* took their descriptors, however many programs are in Send and wherever  *)
(* they are preempted, and the card finds them all.                        *)
SendsInOrder ==
  ~overrun => order = FramesFrom(Claimed, nextSend, "card")

FramesAreSent ==
  \A i \in Ring :
    sendBufferDescr[i].owner = "card" /\ ~overrun
      ~> sendBufferDescr[i].owner = "host" \/ overrun

(* The buffers overlap, and a frame that waits is damaged by the next one; *)
(* the one copied last is whole, unless programs copied at the same time.  *)
LastIsIntact ==
  LET d == sendBufferDescr[latest.descriptor]
  IN  d.owner = "card" /\ latest.alone /\ ~overrun =>
        \A frame \in d.frame : Whole(sendBuffers, SendBase, latest.descriptor, frame)

(* What Send is given reaches the card in its turn, and whole at least     *)
(* until the next frame is copied.                                         *)
SendIsFaithful == SendsInOrder /\ LastIsIntact

(* Both directions go on: what is received is taken, what waits is sent.   *)
FramesGetOn == FramesAreTaken /\ FramesAreSent
=============================================================================
