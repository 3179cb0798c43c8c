----------------------------- MODULE RingBuffer -----------------------------
(***************************************************************************)
(* The ring buffer of src/current/src/urg_ring_buffer.c as operators on    *)
(* its structure: an array of a power of two of bytes, the index of the    *)
(* first byte stored and the index one past the last.  One place always    *)
(* stays free, so equal indices mean an empty buffer.                      *)
(***************************************************************************)
EXTENDS Naturals, Sequences

CONSTANTS Size,   \* buffer_size, 1 << shift_length
          Byte    \* the values a char may have

ASSUME SizeAssumption == /\ Size \in Nat /\ Size > 1
                         /\ \E shift_length \in 1 .. 30 : Size = 2 ^ shift_length

\* A wrong form of the next definition: the mask forgotten
Unmasked(x) == x

\* x & (buffer_size - 1), for a power of two
Masked(x) == x % Size

AtMost(n, bound) == IF n > bound THEN bound ELSE n

Ring == [buffer : [0 .. Size - 1 -> Byte], first : 0 .. Size - 1, last : 0 .. Size - 1]

Cleared(r) == [r EXCEPT !.first = 0, !.last = 0]

ring_capacity == Size - 1

ring_size(r) == IF r.last >= r.first THEN r.last - r.first
                                     ELSE Size - (r.first - r.last)

Free(r) == ring_capacity - ring_size(r)

\* byte_move(&buffer[at], data, Len(data)); what goes past the end of the array
\* lands in memory that is not the ring's
Moved(buffer, at, data) ==
  [i \in 0 .. Size - 1 |-> IF i >= at /\ i < at + Len(data)
                           THEN data[i - at + 1] ELSE buffer[i]]

\* A wrong form of the next definition: the bytes that wrap are moved, last is not
WrittenNoWrap(r, data) ==
  LET push == AtMost(Len(data), Free(r))
      move == AtMost(push, Size - r.last)
  IN IF r.first <= r.last
     THEN [r EXCEPT !.buffer = Moved(Moved(@, r.last, SubSeq(data, 1, move)),
                                     0, SubSeq(data, move + 1, push)),
                    !.last   = Masked(r.last + move)]
     ELSE [r EXCEPT !.buffer = Moved(@, r.last, data), !.last = r.last + push]

\* ring_write: what the buffer becomes, and the number returned.  The last
\* branch moves all the data, as the code does, not the push_size bytes that fit.
Written(r, data) ==
  LET push == AtMost(Len(data), Free(r))
      move == AtMost(push, Size - r.last)
  IN IF r.first <= r.last
     THEN [r EXCEPT !.buffer = Moved(Moved(@, r.last, SubSeq(data, 1, move)),
                                     0, SubSeq(data, move + 1, push)),
                    !.last   = IF push > move THEN push - move
                                              ELSE Masked(r.last + move)]
     ELSE [r EXCEPT !.buffer = Moved(@, r.last, data), !.last = r.last + push]

PushSize(r, data) == AtMost(Len(data), Free(r))

\* ring_read of up to n bytes: the bytes copied out, and what the buffer becomes
Slice(r, from, n) == [i \in 1 .. n |-> r.buffer[from + i - 1]]

PopSize(r, n) == AtMost(n, ring_size(r))

Popped(r, n) ==
  LET pop  == PopSize(r, n)
      move == AtMost(pop, Size - r.first)
  IN IF r.first <= r.last THEN Slice(r, r.first, pop)
     ELSE Slice(r, r.first, move) \o Slice(r, 0, pop - move)

Read(r, n) ==
  LET pop  == PopSize(r, n)
      move == AtMost(pop, Size - r.first)
  IN IF r.first <= r.last THEN [r EXCEPT !.first = r.first + pop]
     ELSE [r EXCEPT !.first = IF pop > move THEN pop - move
                                            ELSE Masked(r.first + move)]

\* The bytes stored, oldest first
Place(k) == IF k < Size THEN k ELSE k - Size

Contents(r) == [i \in 1 .. ring_size(r) |-> r.buffer[Place(r.first + i - 1)]]
=============================================================================
