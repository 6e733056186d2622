-------------------------------- MODULE Fifo ---------------------------------
(* What a ring of buffers that overlap promises: what is put in comes out  *)
(* again, once and in the order it was put in.  It is whole when it is put *)
(* in; what is still there when the next frame begins to be stored may be  *)
(* damaged.                                                                *)
EXTENDS Naturals, Sequences

CONSTANTS Frames, Capacity

VARIABLES
  queue,      \* of [frame, whole]
  incoming    \* the frame being stored, if any

BeginPut(frame) ==
  /\ incoming = {} /\ Len(queue) < Capacity
  /\ incoming' = {frame}
  /\ \E whole \in [DOMAIN queue -> BOOLEAN] :
       queue' = [k \in DOMAIN queue |-> [frame |-> queue[k].frame, whole |-> whole[k]]]

EndPut ==
  /\ incoming # {} /\ incoming' = {}
  /\ queue' = Append(queue, [frame |-> incoming, whole |-> TRUE])

Get ==
  /\ queue # <<>>
  /\ queue' = Tail(queue)
  /\ UNCHANGED incoming

Next == EndPut \/ Get \/ \E frame \in Frames : BeginPut(frame)

Spec == queue = <<>> /\ incoming = {} /\ [][Next]_<<queue, incoming>>
=============================================================================
