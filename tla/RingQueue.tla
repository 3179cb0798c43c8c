----------------------------- MODULE RingQueue -----------------------------
(***************************************************************************)
(* A ring buffer in use: ring_write, ring_read and ring_clear called in    *)
(* any order by its one owner.                                             *)
(***************************************************************************)
EXTENDS RingBuffer

CONSTANTS
  MaxWrite,   \* bound: bytes offered to one ring_write
  Oversize    \* TRUE: the owner may offer more bytes than are free

ASSUME WriteAssumption == MaxWrite \in Nat /\ Oversize \in BOOLEAN

VARIABLES ring,
          out,     \* the bytes the last call gave back
          count,   \* the number it returned
          told     \* what its owner was told the buffer holds

vars == <<ring, out, count, told>>

Offers == UNION {[1 .. n -> Byte] : n \in 0 .. MaxWrite}

ring_initialize ==
  /\ ring \in Ring /\ ring = Cleared(ring)

ring_write(data) ==
  /\ Len(data) > Free(ring) => Oversize
  /\ ring' = Written(ring, data)
  /\ count' = PushSize(ring, data)
  /\ out' = <<>>
  /\ told' = told \o SubSeq(data, 1, count')

ring_read(n) ==
  /\ ring' = Read(ring, n)
  /\ out' = Popped(ring, n)
  /\ count' = PopSize(ring, n)
  /\ told' = SubSeq(told, count' + 1, Len(told))

ring_clear ==
  /\ ring' = Cleared(ring)
  /\ out' = <<>> /\ count' = 0
  /\ told' = <<>>

Init == ring_initialize /\ out = <<>> /\ count = 0 /\ told = <<>>

Next == \/ \E data \in Offers : ring_write(data)
        \/ \E n \in 0 .. Size : ring_read(n)
        \/ ring_clear

Spec == Init /\ [][Next]_vars

\* The indices stay inside the array and the returned number inside the capacity.
TypeOK == ring \in Ring /\ out \in Seq(Byte) /\ count \in 0 .. ring_capacity

\* The buffer holds what its owner was told it holds, in order (urg_ring_buffer.h:
\* "The number of elements written to the ring buffer").
Intact == Contents(ring) = told

\* An owner that offers no more than is free cannot tell the ring from a bounded
\* queue: across the wrap no byte is lost, repeated or out of order.
Fifo == INSTANCE BoundedFifo WITH queue <- Contents(ring), Capacity <- ring_capacity
ImplementsFifo == Fifo!Spec
=============================================================================
