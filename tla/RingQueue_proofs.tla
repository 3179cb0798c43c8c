-------------------------- MODULE RingQueue_proofs --------------------------
(***************************************************************************)
(* A ring buffer whose owner never offers more than is free implements a   *)
(* bounded queue.  The inductive invariant adds to the types that the      *)
(* contents are what the owner was told; each call of the ring is then one *)
(* call of the queue by the lemmas of RingBuffer_proofs.                   *)
(***************************************************************************)
EXTENDS RingQueue, RingBuffer_proofs

Inv == TypeOK /\ Intact

\* The data offered are sequences of bytes.
LEMMA OffersType == \A d \in Offers : d \in Seq(Byte)
BY WriteAssumption DEF Offers

\* ring_write, when the data fit, is Put.
LEMMA WriteIsPut ==
  ASSUME Inv, Oversize = FALSE, NEW d \in Offers, ring_write(d)
  PROVE  Inv' /\ Fifo!Put(d)
<1>1. d \in Seq(Byte) /\ Len(d) \in Nat BY OffersType
<1>2. Len(d) <= Free(ring) /\ ring \in Ring
  <2>1. ring \in Ring BY DEF Inv, TypeOK
  <2>2. Free(ring) \in Int BY <2>1, SizeBounds, SizeAssumption
  <2>3. ~(Len(d) > Free(ring)) BY WriteAssumption DEF ring_write
  <2> QED BY <1>1, <2>1, <2>2, <2>3
<1>3. PushSize(ring, d) = Len(d) BY <1>1, <1>2, SizeBounds DEF PushSize, AtMost
<1>4. SubSeq(d, 1, Len(d)) = d BY <1>1
<1>5. count' = Len(d) /\ out' = <<>> /\ told' = told \o d /\ ring' = Written(ring, d)
  BY <1>3, <1>4 DEF ring_write
<1>6. ring' \in Ring /\ Contents(ring') = Contents(ring) \o d
  BY <1>1, <1>2, <1>5, WriteAppends
<1>7. Len(d) \in 0 .. ring_capacity /\ Len(d) <= ring_capacity - Len(Contents(ring))
  BY <1>1, <1>2, SizeBounds, ContentsType, SizeAssumption DEF ring_capacity
<1>8. Inv' BY <1>5, <1>6, <1>7 DEF Inv, TypeOK, Intact
<1>9. Fifo!Least(Len(d), ring_capacity - Len(Contents(ring))) = Len(d)
  <2>1. ring_capacity - Len(Contents(ring)) \in Int
    BY <1>2, ContentsType, SizeBounds, SizeAssumption DEF ring_capacity
  <2> QED BY <1>1, <1>7, <2>1 DEF Fifo!Least
<1> QED BY <1>4, <1>5, <1>6, <1>8, <1>9 DEF Fifo!Put

\* ring_read is Get.
LEMMA ReadIsGet ==
  ASSUME Inv, NEW n \in 0 .. Size, ring_read(n)
  PROVE  Inv' /\ Fifo!Get(n)
<1> DEFINE c == Contents(ring)
<1>1. ring \in Ring /\ n \in Nat BY SizeAssumption DEF Inv, TypeOK
<1>2. c \in Seq(Byte) /\ Len(c) = ring_size(ring) /\ Len(c) \in 0 .. Size - 1
  BY <1>1, ContentsType, SizeBounds
<1>3. ring' = Read(ring, n) /\ out' = Popped(ring, n) /\ count' = PopSize(ring, n)
      /\ told' = SubSeq(told, count' + 1, Len(told)) /\ told = c
  BY DEF ring_read, Inv, Intact
<1>4. count' \in 0 .. Len(c) /\ ring' \in Ring /\ out' = SubSeq(c, 1, count')
      /\ Contents(ring') = SubSeq(c, count' + 1, Len(c))
  BY <1>1, <1>2, <1>3, ReadTakes
<1> HIDE DEF c
<1>5. SubSeq(c, 1, count') \in Seq(Byte) BY <1>2, <1>4
<1>6. count' \in 0 .. ring_capacity
  BY <1>2, <1>4, SizeAssumption DEF ring_capacity
<1>7. Inv' BY <1>3, <1>4, <1>5, <1>6 DEF Inv, TypeOK, Intact
<1>8. count' = Fifo!Least(n, Len(c))
  BY <1>1, <1>2, <1>3 DEF PopSize, AtMost, Fifo!Least
<1> QED BY <1>4, <1>7, <1>8 DEF Fifo!Get, c

\* ring_clear is Clear.
LEMMA ClearIsClear ==
  ASSUME Inv, ring_clear PROVE Inv' /\ Fifo!Clear
<1>1. ring' \in Ring /\ Contents(ring') = <<>>
  BY ClearedEmpty DEF Inv, TypeOK, ring_clear
<1>2. 0 \in 0 .. ring_capacity BY SizeAssumption DEF ring_capacity
<1> QED BY <1>1, <1>2 DEF ring_clear, Inv, TypeOK, Intact, Fifo!Clear

\* A new ring is well typed and empty.
LEMMA RingInit == Init => Inv /\ Fifo!Init
<1> SUFFICES ASSUME Init PROVE Inv /\ Fifo!Init OBVIOUS
<1>1. ring \in Ring /\ Contents(ring) = <<>>
  BY ClearedEmpty DEF Init, ring_initialize
<1>2. 0 \in 0 .. ring_capacity BY SizeAssumption DEF ring_capacity
<1> QED BY <1>1, <1>2 DEF Init, Inv, TypeOK, Intact, Fifo!Init

\* Every step of the ring is a step of the queue or changes nothing it shows.
LEMMA RingStep ==
  ASSUME Inv, Oversize = FALSE, [Next]_vars
  PROVE  Inv' /\ [Fifo!Next]_<<Contents(ring), out, count>>
<1>1. ASSUME NEW d \in Offers, ring_write(d)
      PROVE  Inv' /\ [Fifo!Next]_<<Contents(ring), out, count>>
  <2>1. Inv' /\ Fifo!Put(d) BY <1>1, WriteIsPut
  <2>2. d \in Fifo!Offers BY DEF Offers, Fifo!Offers
  <2> QED BY <2>1, <2>2 DEF Fifo!Next
<1>2. ASSUME NEW n \in 0 .. Size, ring_read(n)
      PROVE  Inv' /\ [Fifo!Next]_<<Contents(ring), out, count>>
  <2>1. Inv' /\ Fifo!Get(n) BY <1>2, ReadIsGet
  <2>2. n \in 0 .. ring_capacity + 1 BY SizeAssumption DEF ring_capacity
  <2> QED BY <2>1, <2>2 DEF Fifo!Next
<1>3. ASSUME ring_clear
      PROVE  Inv' /\ [Fifo!Next]_<<Contents(ring), out, count>>
  BY <1>3, ClearIsClear DEF Fifo!Next
<1>4. ASSUME UNCHANGED vars
      PROVE  Inv' /\ [Fifo!Next]_<<Contents(ring), out, count>>
  <2>1. ring' = ring /\ out' = out /\ count' = count /\ told' = told
    BY <1>4 DEF vars
  <2> QED BY <2>1 DEF Inv, TypeOK, Intact
<1> QED BY <1>1, <1>2, <1>3, <1>4 DEF Next

\* The indices stay inside the array, and the buffer holds exactly the bytes its
\* owner was told it holds, if it never offers more than is free.
THEOREM RingStaysIntact ==
  ASSUME Oversize = FALSE PROVE Spec => [](TypeOK /\ Intact)
<1>1. Init => Inv BY RingInit
<1>2. Inv /\ [Next]_vars => Inv' BY RingStep
<1> QED BY <1>1, <1>2, PTL DEF Spec, Inv

\* Such an owner sees a bounded first-in first-out queue: across the wrap of the
\* indices no byte is lost, repeated or reordered, for every size of the array.
THEOREM RingImplementsFifo ==
  ASSUME Oversize = FALSE PROVE Spec => ImplementsFifo
<1>1. Init => Inv /\ Fifo!Init BY RingInit
<1>2. Inv /\ [Next]_vars => Inv' /\ [Fifo!Next]_<<Contents(ring), out, count>>
  BY RingStep
<1> QED BY <1>1, <1>2, PTL DEF Spec, ImplementsFifo, Fifo!Spec
=============================================================================
