---------------------------- MODULE BoundedFifo ----------------------------
(***************************************************************************)
(* What a byte buffer promises its callers: bytes come out in the order in *)
(* which they went in, none twice; as many go in as fit, and the calls say *)
(* how many they moved.                                                    *)
(***************************************************************************)
EXTENDS Naturals, Sequences

CONSTANTS Capacity, Byte,
          MaxWrite   \* the most bytes ever offered to one Put

VARIABLES queue,   \* the bytes stored
          out,     \* the bytes the last call gave back
          count    \* the number it returned

Offers == UNION {[1 .. n -> Byte] : n \in 0 .. MaxWrite}

Least(a, b) == IF a < b THEN a ELSE b

Put(data) ==
  /\ count' = Least(Len(data), Capacity - Len(queue))
  /\ queue' = queue \o SubSeq(data, 1, count')
  /\ out' = <<>>

Get(n) ==
  /\ count' = Least(n, Len(queue))
  /\ out' = SubSeq(queue, 1, count')
  /\ queue' = SubSeq(queue, count' + 1, Len(queue))

Clear == queue' = <<>> /\ out' = <<>> /\ count' = 0

Init == queue = <<>> /\ out = <<>> /\ count = 0

\* To ask for more than Capacity + 1 bytes is to ask for Capacity + 1.
Next == \/ \E data \in Offers : Put(data)
        \/ \E n \in 0 .. Capacity + 1 : Get(n)
        \/ Clear

Spec == Init /\ [][Next]_<<queue, out, count>>
=============================================================================
