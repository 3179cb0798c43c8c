------------------------- MODULE RingBuffer_proofs -------------------------
(***************************************************************************)
(* What ring_write and ring_read do to the contents of a ring buffer, for  *)
(* every size of the array and every set of byte values: a write of data   *)
(* that fit appends them, a read takes the front, across the wrap of the   *)
(* indices too.  The lemmas about sequences come first.                    *)
(***************************************************************************)
EXTENDS RingBuffer, SequenceTheorems, TLAPS

(***************************************************************************)
(* Sequences.                                                              *)
(***************************************************************************)
\* A concatenation cut where its parts meet gives them back.
LEMMA CutWhole ==
  ASSUME NEW S, NEW s \in Seq(S), NEW t \in Seq(S)
  PROVE  /\ SubSeq(s \o t, 1, Len(s)) = s
         /\ SubSeq(s \o t, Len(s) + 1, Len(s \o t)) = t
<1> DEFINE u == s \o t
<1>1. /\ u \in Seq(S) /\ Len(u) = Len(s) + Len(t)
      /\ \A i \in 1 .. Len(s) + Len(t) :
           u[i] = IF i <= Len(s) THEN s[i] ELSE t[i - Len(s)]
  BY ConcatProperties
<1>2. Len(s) \in Nat /\ Len(t) \in Nat OBVIOUS
<1> HIDE DEF u
<1>3. SubSeq(u, 1, Len(s)) = s
  <2>1. /\ SubSeq(u, 1, Len(s)) \in Seq(S) /\ Len(SubSeq(u, 1, Len(s))) = Len(s)
        /\ \A i \in 1 .. Len(s) : SubSeq(u, 1, Len(s))[i] = u[i]
    BY <1>1, <1>2
  <2>2. \A i \in 1 .. Len(s) : SubSeq(u, 1, Len(s))[i] = s[i] BY <1>1, <1>2, <2>1
  <2> QED BY <2>1, <2>2, SeqEqual
<1>4. SubSeq(u, Len(s) + 1, Len(u)) = t
  <2>1. /\ SubSeq(u, Len(s) + 1, Len(u)) \in Seq(S)
        /\ Len(SubSeq(u, Len(s) + 1, Len(u))) = Len(t)
        /\ \A i \in 1 .. Len(t) : SubSeq(u, Len(s) + 1, Len(u))[i] = u[Len(s) + i]
    BY <1>1, <1>2
  <2>2. \A i \in 1 .. Len(t) : u[Len(s) + i] = t[i] BY <1>1, <1>2
  <2>3. \A i \in 1 .. Len(t) : SubSeq(u, Len(s) + 1, Len(u))[i] = t[i] BY <2>1, <2>2
  <2> HIDE DEF u
  <2> QED BY <2>1, <2>3, SeqEqual
<1> QED BY <1>3, <1>4 DEF u

\* A sequence of at most one element that is not empty has one.
LEMMA OneByte ==
  ASSUME NEW S, NEW s \in Seq(S), Len(s) <= 1, s # <<>>
  PROVE  Len(s) = 1 /\ s[1] \in S /\ s = <<s[1]>>
<1>1. Len(s) # 0 /\ Len(s) \in Nat /\ Len(s) <= 1 BY EmptySeq
<1>2. Len(s) = 1 BY ONLY <1>1, SMTT(30)
<1> QED BY <1>2

\* A sequence is its front and its rest.
LEMMA CutJoin ==
  ASSUME NEW S, NEW s \in Seq(S), NEW n \in 0 .. Len(s)
  PROVE  /\ SubSeq(s, 1, n) \in Seq(S) /\ SubSeq(s, n + 1, Len(s)) \in Seq(S)
         /\ Len(SubSeq(s, 1, n)) = n /\ Len(SubSeq(s, n + 1, Len(s))) = Len(s) - n
         /\ \A i \in 1 .. n : SubSeq(s, 1, n)[i] = s[i]
         /\ SubSeq(s, 1, n) \o SubSeq(s, n + 1, Len(s)) = s
<1> DEFINE a == SubSeq(s, 1, n)
           b == SubSeq(s, n + 1, Len(s))
<1>1. Len(s) \in Nat /\ n \in Nat /\ n <= Len(s) OBVIOUS
<1>2. a \in Seq(S) /\ Len(a) = n /\ \A i \in 1 .. n : a[i] = s[i] BY <1>1
<1>3. b \in Seq(S) /\ Len(b) = Len(s) - n /\ \A i \in 1 .. Len(s) - n : b[i] = s[n + i]
  BY <1>1
<1> HIDE DEF a, b
<1>4. /\ a \o b \in Seq(S) /\ Len(a \o b) = Len(a) + Len(b)
      /\ \A i \in 1 .. Len(a) + Len(b) :
           (a \o b)[i] = IF i <= Len(a) THEN a[i] ELSE b[i - Len(a)]
  BY <1>2, <1>3, ConcatProperties
<1>5. \A i \in 1 .. Len(s) : (a \o b)[i] = s[i]
  <2> TAKE i \in 1 .. Len(s)
  <2>1. CASE i <= n
    <3>1. i \in 1 .. n /\ i \in 1 .. Len(a) + Len(b) /\ i <= Len(a)
      BY <1>1, <1>2, <1>3, <2>1
    <3> QED BY <1>2, <1>4, <3>1
  <2>2. CASE ~(i <= n)
    <3>1. i - n \in 1 .. Len(s) - n /\ n + (i - n) = i BY <1>1, <2>2
    <3> QED BY <1>1, <1>2, <1>3, <1>4, <2>2, <3>1
  <2> QED BY <2>1, <2>2
<1>6. a \o b = s
  <2>1. a \o b \in Seq(S) /\ s \in Seq(S) /\ Len(a \o b) = Len(s) BY <1>1, <1>2, <1>3, <1>4
  <2> QED BY ONLY <2>1, <1>5, SeqEqual
<1> QED BY <1>2, <1>3, <1>6 DEF a, b

(***************************************************************************)
(* The array and its indices.                                              *)
(***************************************************************************)
\* The mask only acts on the index one past the end of the array.
LEMMA MaskedIndex ==
  /\ Masked(Size) = 0
  /\ \A x \in 0 .. Size - 1 : Masked(x) = x
BY SizeAssumption DEF Masked

\* The number of bytes stored lies between nothing and the capacity.
LEMMA SizeBounds ==
  ASSUME NEW r \in Ring
  PROVE  /\ ring_size(r) \in 0 .. Size - 1
         /\ Free(r) \in 0 .. Size - 1
         /\ Free(r) = Size - 1 - ring_size(r)
BY SizeAssumption DEF Ring, ring_size, Free, ring_capacity

\* Moving bytes into the array leaves an array of bytes.
LEMMA MovedType ==
  ASSUME NEW b \in [0 .. Size - 1 -> Byte], NEW at \in 0 .. Size, NEW d \in Seq(Byte)
  PROVE  Moved(b, at, d) \in [0 .. Size - 1 -> Byte]
<1>1. \A i \in 0 .. Size - 1 :
        (IF i >= at /\ i < at + Len(d) THEN d[i - at + 1] ELSE b[i]) \in Byte
  <2> TAKE i \in 0 .. Size - 1
  <2>1. CASE i >= at /\ i < at + Len(d)
    <3>1. i - at + 1 \in 1 .. Len(d) BY <2>1, SizeAssumption
    <3> QED BY <2>1, <3>1
  <2>2. CASE ~(i >= at /\ i < at + Len(d)) BY <2>2
  <2> QED BY <2>1, <2>2
<1> QED BY <1>1 DEF Moved

\* ring_write of data that fits: where the indices go and where each byte lands.
LEMMA WrittenShape ==
  ASSUME NEW r \in Ring, NEW d \in Seq(Byte), Len(d) <= Free(r)
  PROVE  LET w == Written(r, d) IN
         /\ w \in Ring
         /\ w.first = r.first
         /\ w.last = IF r.last + Len(d) < Size THEN r.last + Len(d)
                                               ELSE r.last + Len(d) - Size
         /\ \A i \in 0 .. Size - 1 :
              w.buffer[i] = IF i >= r.last /\ i < r.last + Len(d) THEN d[i - r.last + 1]
                            ELSE IF i + Size < r.last + Len(d) THEN d[i + Size - r.last + 1]
                            ELSE r.buffer[i]
<1> DEFINE n == Len(d)
           F == r.first
           L == r.last
           move == AtMost(n, Size - L)
           b1 == Moved(r.buffer, L, SubSeq(d, 1, move))
           b2 == Moved(b1, 0, SubSeq(d, move + 1, n))
           w == Written(r, d)
<1>1. n \in Nat /\ F \in 0 .. Size - 1 /\ L \in 0 .. Size - 1 /\ Size \in Nat
  BY SizeAssumption DEF Ring
<1>2. AtMost(n, Free(r)) = n BY <1>1, SizeBounds DEF AtMost
<1>3. move \in 0 .. n /\ move = IF n > Size - L THEN Size - L ELSE n
  BY <1>1 DEF AtMost
<1>4. CASE F <= L
  <2>1. w = [r EXCEPT !.buffer = b2, !.last = IF n > move THEN n - move ELSE Masked(L + move)]
    BY <1>2, <1>4 DEF Written
  <2>2. SubSeq(d, 1, move) \in Seq(Byte) /\ Len(SubSeq(d, 1, move)) = move
        /\ \A j \in 1 .. move : SubSeq(d, 1, move)[j] = d[j]
    BY <1>1, <1>3
  <2>3. SubSeq(d, move + 1, n) \in Seq(Byte) /\ Len(SubSeq(d, move + 1, n)) = n - move
        /\ \A j \in 1 .. n - move : SubSeq(d, move + 1, n)[j] = d[move + j]
    BY SMTT(30), <1>1, <1>3
  <2>4. b1 \in [0 .. Size - 1 -> Byte] /\ b2 \in [0 .. Size - 1 -> Byte]
    <3>1. L \in 0 .. Size /\ 0 \in 0 .. Size BY <1>1
    <3>2. r.buffer \in [0 .. Size - 1 -> Byte] BY DEF Ring
    <3>3. b1 \in [0 .. Size - 1 -> Byte] BY <2>2, <3>1, <3>2, MovedType
    <3> HIDE DEF b1
    <3> QED BY <3>1, <3>3, <2>3, MovedType
  <2>5. (IF n > move THEN n - move ELSE Masked(L + move))
          = IF L + n < Size THEN L + n ELSE L + n - Size
    <3>1. CASE n > move BY <1>1, <1>3, <3>1
    <3>2. CASE n = move /\ L + n < Size
      <4>1. L + n \in 0 .. Size - 1 BY <1>1, <3>2
      <4> QED BY <1>1, <4>1, <3>2, MaskedIndex
    <3>3. CASE n = move /\ L + n = Size BY <1>1, <3>3, MaskedIndex
    <3> QED BY <1>1, <1>3, <3>1, <3>2, <3>3
  <2>6. \A i \in 0 .. Size - 1 : b1[i] = IF i >= L /\ i < L + move THEN d[i - L + 1]
                                                                 ELSE r.buffer[i]
    <3> TAKE i \in 0 .. Size - 1
    <3>1. b1[i] = IF i >= L /\ i < L + move THEN SubSeq(d, 1, move)[i - L + 1]
                                            ELSE r.buffer[i]
      BY <2>2 DEF Moved
    <3>2. CASE i >= L /\ i < L + move
      <4>1. i - L + 1 \in 1 .. move BY SMTT(30), <1>1, <1>3, <3>2
      <4> QED BY <3>1, <3>2, <4>1, <2>2
    <3> QED BY <3>1, <3>2
  <2>7. \A i \in 0 .. Size - 1 : b2[i] = IF i < n - move THEN d[move + i + 1] ELSE b1[i]
    <3> HIDE DEF b1
    <3> TAKE i \in 0 .. Size - 1
    <3>1. b2[i] = IF i >= 0 /\ i < 0 + (n - move) THEN SubSeq(d, move + 1, n)[i - 0 + 1]
                                                 ELSE b1[i]
      BY <2>3 DEF Moved
    <3>2. CASE i < n - move
      <4>1. i + 1 \in 1 .. n - move /\ i - 0 + 1 = i + 1 /\ move + (i + 1) = move + i + 1
        BY <1>1, <1>3, <3>2
      <4> QED BY <1>1, <1>3, <3>1, <3>2, <4>1, <2>3
    <3>3. CASE ~(i < n - move) BY <1>1, <1>3, <3>1, <3>3
    <3> QED BY <3>2, <3>3
  <2>8. n <= Size - 1 - (L - F)
    BY <1>1, <1>4, SizeBounds DEF ring_size
  <2> HIDE DEF b2, b1, move, w
  <2>9. w.buffer = b2 /\ w.first = F /\ w.last = IF L + n < Size THEN L + n ELSE L + n - Size
    BY <2>1, <2>5 DEF Ring
  <2>10. w \in Ring
    <3>1. (IF L + n < Size THEN L + n ELSE L + n - Size) \in 0 .. Size - 1
      BY SMTT(30), <1>1, <2>8
    <3> QED BY <2>1, <2>4, <2>5, <3>1 DEF Ring
  <2>11. \A i \in 0 .. Size - 1 :
           b2[i] = IF i >= L /\ i < L + n THEN d[i - L + 1]
                   ELSE IF i + Size < L + n THEN d[i + Size - L + 1]
                   ELSE r.buffer[i]
    <3> TAKE i \in 0 .. Size - 1
    <3>1. CASE n > Size - L
      <4>1. move = Size - L BY <1>3, <3>1
      <4>2. CASE i < n - move
        <5>1. b2[i] = d[move + i + 1] /\ move + i + 1 = i + Size - L + 1
          BY <1>1, <4>1, <4>2, <2>7
        <5>2. i + Size < L + n BY <1>1, <4>1, <4>2
        <5>3. L + n < Size + F BY <1>1, <2>8
        <5>4. ~(i >= L) BY <1>1, <1>4, <5>2, <5>3
        <5> QED BY <5>1, <5>2, <5>4
      <4>3. CASE ~(i < n - move)
        <5>1. ~(i + Size < L + n) /\ i < L + move /\ i < L + n BY <1>1, <4>1, <4>3, <3>1
        <5> QED BY <5>1, <4>3, <2>6, <2>7
      <4> QED BY <4>2, <4>3
    <3>2. CASE n <= Size - L
      <4>1. move = n BY <1>1, <1>3, <3>2
      <4>2. ~(i < n - move) /\ ~(i + Size < L + n) BY <1>1, <3>2, <4>1
      <4> QED BY <4>1, <4>2, <2>6, <2>7
    <3> QED BY <1>1, <3>1, <3>2
  <2> QED BY <2>9, <2>10, <2>11 DEF w
<1>5. CASE F > L
  <2>1. w = [r EXCEPT !.buffer = Moved(r.buffer, L, d), !.last = L + n]
    BY <1>1, <1>2, <1>5 DEF Written
  <2>2. L + n < F BY <1>1, <1>5, SizeBounds DEF ring_size
  <2>3. Moved(r.buffer, L, d) \in [0 .. Size - 1 -> Byte] BY <1>1, MovedType DEF Ring
  <2>4. L + n < Size /\ L + n \in 0 .. Size - 1 BY <1>1, <2>2
  <2>5. w \in Ring /\ w.first = F /\ w.last = L + n /\ w.buffer = Moved(r.buffer, L, d)
    BY <2>1, <2>3, <2>4 DEF Ring
  <2>6. \A i \in 0 .. Size - 1 : ~(i + Size < L + n) BY <1>1, <2>4
  <2> QED BY <2>4, <2>5, <2>6 DEF Moved
<1> QED BY <1>1, <1>4, <1>5

\* The contents are a sequence of bytes, as long as ring_size says.
LEMMA ContentsType ==
  ASSUME NEW r \in Ring
  PROVE  /\ Contents(r) \in Seq(Byte)
         /\ Len(Contents(r)) = ring_size(r)
         /\ \A i \in 1 .. ring_size(r) :
              Contents(r)[i] = r.buffer[Place(r.first + i - 1)]
<1>1. ring_size(r) \in Nat BY SizeBounds, SizeAssumption
<1>2. \A i \in 1 .. ring_size(r) :
        r.buffer[Place(r.first + i - 1)] \in Byte
  <2> TAKE i \in 1 .. ring_size(r)
  <2>1. Place(r.first + i - 1) \in 0 .. Size - 1
    BY SizeBounds, SizeAssumption DEF Ring, Place
  <2> QED BY <2>1 DEF Ring
<1> QED BY <1>1, <1>2 DEF Contents

\* ring_write of data that fits appends them.
LEMMA WriteAppends ==
  ASSUME NEW r \in Ring, NEW d \in Seq(Byte), Len(d) <= Free(r)
  PROVE  /\ Written(r, d) \in Ring
         /\ Contents(Written(r, d)) = Contents(r) \o d
<1> DEFINE w == Written(r, d)
           n == Len(d)
           F == r.first
           L == r.last
<1>1. n \in Nat /\ F \in 0 .. Size - 1 /\ L \in 0 .. Size - 1 /\ Size \in Nat
  BY SizeAssumption DEF Ring
<1>2. /\ w \in Ring
      /\ w.first = F
      /\ w.last = IF L + n < Size THEN L + n ELSE L + n - Size
      /\ \A i \in 0 .. Size - 1 :
           w.buffer[i] = IF i >= L /\ i < L + n THEN d[i - L + 1]
                         ELSE IF i + Size < L + n THEN d[i + Size - L + 1]
                         ELSE r.buffer[i]
  BY WrittenShape
<1> HIDE DEF w
<1>3. n <= Size - 1 - ring_size(r) BY SizeBounds
<1>4. ring_size(w) = ring_size(r) + n
  BY SMTT(30), <1>1, <1>2, <1>3 DEF ring_size
<1>5. /\ Contents(r) \o d \in Seq(Byte)
      /\ Len(Contents(r) \o d) = ring_size(w)
      /\ \A i \in 1 .. ring_size(w) :
           (Contents(r) \o d)[i] = IF i <= ring_size(r) THEN Contents(r)[i]
                                                       ELSE d[i - ring_size(r)]
  <2> DEFINE c == Contents(r)
  <2>1. c \in Seq(Byte) /\ Len(c) = ring_size(r) BY ContentsType
  <2> HIDE DEF c
  <2>2. /\ c \o d \in Seq(Byte) /\ Len(c \o d) = Len(c) + Len(d)
        /\ \A i \in 1 .. Len(c) + Len(d) :
             (c \o d)[i] = IF i <= Len(c) THEN c[i] ELSE d[i - Len(c)]
    BY <2>1, ConcatProperties
  <2> QED BY <1>4, <2>1, <2>2 DEF c
<1>6. \A i \in 1 .. ring_size(w) : Contents(w)[i] = (Contents(r) \o d)[i]
  <2> TAKE i \in 1 .. ring_size(w)
  <2> DEFINE k == Place(F + i - 1)
  <2>1. Contents(w)[i] = w.buffer[k] BY <1>2, ContentsType
  <2>2. ring_size(r) \in Nat /\ i \in Nat /\ i >= 1 /\ i <= ring_size(r) + n
    BY <1>2, <1>4, SizeBounds, SizeAssumption
  <2>3. k \in 0 .. Size - 1 BY SMTT(30), <1>1, <1>3, <2>2 DEF Place
  <2>4. /\ Contents(w)[i] = IF k >= L /\ k < L + n THEN d[k - L + 1]
                            ELSE IF k + Size < L + n THEN d[k + Size - L + 1]
                            ELSE r.buffer[k]
        /\ i <= ring_size(r) => Contents(r)[i] = r.buffer[k]
    BY <1>2, <2>1, <2>2, <2>3, ContentsType
  <2>5. \/ F + i - 1 < Size /\ k = F + i - 1
        \/ F + i - 1 >= Size /\ k = F + i - 1 - Size
    BY <1>1, <2>2 DEF Place
  <2>6. \/ L >= F /\ ring_size(r) = L - F
        \/ L < F /\ ring_size(r) = Size + L - F
    BY <1>1 DEF ring_size
  <2> HIDE DEF k, F, L, n
  <2>7. CASE i <= ring_size(r)
    <3>1. ~(k >= L /\ k < L + n) BY SMTT(30), <1>1, <1>3, <2>2, <2>5, <2>6, <2>7
    <3>2. ~(k + Size < L + n) BY SMTT(30), <1>1, <1>3, <2>2, <2>5, <2>6, <2>7
    <3> QED BY <1>5, <2>4, <2>7, <3>1, <3>2
  <2>8. CASE ~(i <= ring_size(r))
    <3>1. CASE k >= L /\ k < L + n
      <4>1. k - L + 1 = i - ring_size(r) BY SMTT(30), <1>1, <1>3, <2>2, <2>5, <2>6, <2>8, <3>1
      <4> QED BY <1>5, <2>4, <2>8, <3>1, <4>1
    <3>2. CASE ~(k >= L /\ k < L + n)
      <4>1. L >= F /\ ring_size(r) = L - F /\ F + i - 1 >= Size /\ k = F + i - 1 - Size
        <5>1. CASE L >= F /\ ring_size(r) = L - F /\ k = F + i - 1
          BY <1>1, <2>2, <2>8, <3>2, <5>1
        <5>2. CASE L < F /\ ring_size(r) = Size + L - F /\ k = F + i - 1
          BY <1>1, <2>2, <2>3, <2>8, <5>2
        <5>3. CASE L < F /\ ring_size(r) = Size + L - F /\ k = F + i - 1 - Size
          BY <1>1, <2>2, <2>8, <3>2, <5>3
        <5> QED BY <2>5, <2>6, <5>1, <5>2, <5>3
      <4>2. k + Size < L + n /\ k + Size - L + 1 = i - ring_size(r)
        BY <1>1, <2>2, <4>1
      <4> QED BY <1>5, <2>4, <2>8, <3>2, <4>2
    <3> QED BY <3>1, <3>2
  <2> QED BY <2>7, <2>8
<1>7. Contents(w) \in Seq(Byte) /\ Len(Contents(w)) = ring_size(w)
  BY <1>2, ContentsType
<1>8. Contents(w) = Contents(r) \o d BY <1>5, <1>6, <1>7, SeqEqual
<1> QED BY <1>2, <1>8 DEF w

\* ring_read: what comes out is the front of the contents, what stays the rest.
LEMMA ReadTakes ==
  ASSUME NEW r \in Ring, NEW n \in Nat
  PROVE  /\ PopSize(r, n) \in 0 .. ring_size(r)
         /\ Read(r, n) \in Ring
         /\ Popped(r, n) = SubSeq(Contents(r), 1, PopSize(r, n))
         /\ Contents(Read(r, n))
              = SubSeq(Contents(r), PopSize(r, n) + 1, Len(Contents(r)))
<1> DEFINE F == r.first
           L == r.last
           z == ring_size(r)
           c == Contents(r)
           p == PopSize(r, n)
           move == AtMost(p, Size - F)
           w == Read(r, n)
<1>1. F \in 0 .. Size - 1 /\ L \in 0 .. Size - 1 /\ Size \in Nat /\ z \in 0 .. Size - 1
  BY SizeAssumption, SizeBounds DEF Ring
<1>2. p \in 0 .. z BY <1>1 DEF PopSize, AtMost
<1>3. move \in 0 .. p /\ move = IF p > Size - F THEN Size - F ELSE p
  BY <1>1, <1>2 DEF AtMost
<1>4. \/ L >= F /\ z = L - F
      \/ L < F /\ z = Size + L - F
  BY <1>1 DEF ring_size
<1>5. /\ c \in Seq(Byte) /\ Len(c) = z
      /\ \A i \in 1 .. z : c[i] = r.buffer[Place(F + i - 1)]
  <2> HIDE DEF c, z
  <2> QED BY ContentsType DEF c, z
<1>6. w \in Ring /\ w.buffer = r.buffer /\ w.last = L /\ w.first = Place(F + p)
      /\ ring_size(w) = z - p
  <2>1. CASE F <= L
    <3>1. w = [r EXCEPT !.first = F + p] BY <2>1 DEF Read
    <3>2. F + p <= L /\ F + p \in 0 .. Size - 1 BY <1>1, <1>2, <1>4, <2>1
    <3> HIDE DEF p, w
    <3>3. w \in Ring /\ w.buffer = r.buffer /\ w.last = L /\ w.first = F + p
      BY <3>1, <3>2 DEF Ring
    <3>4. Place(F + p) = F + p BY <3>2, <1>1 DEF Place
    <3>5. ring_size(w) = L - (F + p) BY <3>2, <3>3, <1>1 DEF ring_size
    <3>6. L - (F + p) = z - p BY <1>1, <1>2, <1>4, <2>1
    <3> QED BY <3>3, <3>4, <3>5, <3>6
  <2>2. CASE F > L
    <3>1. w = [r EXCEPT !.first = IF p > move THEN p - move ELSE Masked(F + move)]
      BY <1>1, <2>2 DEF Read
    <3>2. (IF p > move THEN p - move ELSE Masked(F + move)) = Place(F + p)
      <4>1. p > move => p - move = Place(F + p)
        BY <1>1, <1>2, <1>3 DEF Place
      <4>2. p = move /\ F + p < Size => Masked(F + move) = Place(F + p)
        <5>1. F + p < Size => F + p \in 0 .. Size - 1 BY <1>1, <1>2
        <5> QED BY <5>1, MaskedIndex DEF Place
      <4>3. p = move /\ F + p = Size => Masked(F + move) = Place(F + p)
        BY <1>1, MaskedIndex DEF Place
      <4>4. \/ p > move
            \/ ~(p > move) /\ p = move /\ F + p < Size
            \/ ~(p > move) /\ p = move /\ F + p = Size
        BY <1>1, <1>2, <1>3
      <4> HIDE DEF p, move, F
      <4> QED BY <4>1, <4>2, <4>3, <4>4
    <3>3. Place(F + p) \in 0 .. Size - 1 BY <1>1, <1>2 DEF Place
    <3> HIDE DEF p, w, move
    <3>4. w \in Ring /\ w.buffer = r.buffer /\ w.last = L /\ w.first = Place(F + p)
      BY <3>1, <3>2, <3>3 DEF Ring
    <3>5. z = Size + L - F BY <1>1, <1>4, <2>2
    <3>6. CASE F + p < Size
      <4>1. w.first = F + p BY <3>4, <3>6 DEF Place
      <4> QED BY <1>1, <1>2, <2>2, <3>4, <3>5, <4>1 DEF ring_size
    <3>7. CASE ~(F + p < Size)
      <4>1. w.first = F + p - Size
        BY <1>1, <1>2, <3>4, <3>7 DEF Place
      <4> QED BY <1>1, <1>2, <2>2, <3>4, <3>5, <3>7, <4>1 DEF ring_size
    <3> QED BY <3>4, <3>6, <3>7
  <2> QED BY <1>1, <2>1, <2>2
<1>7. /\ SubSeq(c, 1, p) \in Seq(Byte) /\ Len(SubSeq(c, 1, p)) = p
      /\ \A i \in 1 .. p : SubSeq(c, 1, p)[i] = c[i]
  <2> HIDE DEF c, p, z
  <2> QED BY <1>1, <1>2, <1>5
<1>8. /\ SubSeq(c, p + 1, z) \in Seq(Byte) /\ Len(SubSeq(c, p + 1, z)) = z - p
      /\ \A i \in 1 .. z - p : SubSeq(c, p + 1, z)[i] = c[p + i]
  <2> HIDE DEF c, p, z
  <2> QED BY <1>1, <1>2, <1>5
<1>9. \A k, m \in Nat : k + m <= Size =>
        /\ Slice(r, k, m) \in Seq(Byte) /\ Len(Slice(r, k, m)) = m
        /\ \A i \in 1 .. m : Slice(r, k, m)[i] = r.buffer[k + i - 1]
  <2> TAKE k, m \in Nat
  <2> HAVE k + m <= Size
  <2>1. \A i \in 1 .. m : k + i - 1 \in 0 .. Size - 1 BY <1>1
  <2>2. \A i \in 1 .. m : r.buffer[k + i - 1] \in Byte BY <2>1 DEF Ring
  <2> QED BY <2>2 DEF Slice
<1>10. Popped(r, n) = SubSeq(c, 1, p)
  <2>1. CASE F <= L
    <3>1. Popped(r, n) = Slice(r, F, p) BY <2>1 DEF Popped
    <3>2. p \in Nat /\ F \in Nat /\ F + p <= Size BY <1>1, <1>2, <1>4, <2>1
    <3>3. Slice(r, F, p) \in Seq(Byte) /\ Len(Slice(r, F, p)) = p
          /\ \A i \in 1 .. p : Slice(r, F, p)[i] = r.buffer[F + i - 1]
      BY <3>2, <1>9
    <3>4. \A i \in 1 .. p : i \in 1 .. z /\ Place(F + i - 1) = F + i - 1
      BY <1>1, <1>2, <1>4, <2>1 DEF Place
    <3> HIDE DEF c, p, z
    <3>5. \A i \in 1 .. p : Slice(r, F, p)[i] = SubSeq(c, 1, p)[i]
      BY <1>5, <1>7, <3>3, <3>4
    <3> QED BY <1>7, <3>1, <3>3, <3>5, SeqEqual
  <2>2. CASE F > L
    <3> DEFINE s1 == Slice(r, F, move)
               s2 == Slice(r, 0, p - move)
    <3>1. Popped(r, n) = s1 \o s2 BY <1>1, <2>2 DEF Popped
    <3>2. /\ p - move \in Nat /\ move \in Nat /\ 0 + (p - move) <= Size
          /\ F + move <= Size /\ F \in Nat
      <4> HIDE DEF p, move, z
      <4> QED BY <1>1, <1>2, <1>3
    <3>3. /\ s1 \in Seq(Byte) /\ Len(s1) = move
          /\ \A i \in 1 .. move : s1[i] = r.buffer[F + i - 1]
      <4> HIDE DEF move, p
      <4> QED BY <3>2, <1>9
    <3>4. /\ s2 \in Seq(Byte) /\ Len(s2) = p - move
          /\ \A i \in 1 .. p - move : s2[i] = r.buffer[0 + i - 1]
      <4> HIDE DEF move, p
      <4> QED BY <3>2, <1>9
    <3> HIDE DEF c, p, z, move, s1, s2
    <3>5. /\ s1 \o s2 \in Seq(Byte) /\ Len(s1 \o s2) = p
          /\ \A i \in 1 .. p : (s1 \o s2)[i] = IF i <= move THEN s1[i] ELSE s2[i - move]
      <4>1. Len(s1) + Len(s2) = p /\ p \in Nat BY <1>1, <1>2, <3>2, <3>3, <3>4
      <4>2. /\ s1 \o s2 \in Seq(Byte) /\ Len(s1 \o s2) = Len(s1) + Len(s2)
            /\ \A i \in 1 .. Len(s1) + Len(s2) :
                 (s1 \o s2)[i] = IF i <= Len(s1) THEN s1[i] ELSE s2[i - Len(s1)]
        BY <3>3, <3>4, ConcatProperties
      <4> QED BY <3>3, <4>1, <4>2
    <3>6. ASSUME NEW i \in 1 .. p PROVE (s1 \o s2)[i] = c[i]
      <4>1. i \in 1 .. z /\ c[i] = r.buffer[Place(F + i - 1)] BY <1>1, <1>2, <1>5
      <4>2. CASE i <= move
        <5>1. Place(F + i - 1) = F + i - 1 BY <1>1, <1>2, <3>2, <4>2 DEF Place
        <5>2. i \in 1 .. move BY <1>2, <3>2, <4>2
        <5> QED BY <3>3, <3>5, <4>1, <4>2, <5>1, <5>2
      <4>3. CASE ~(i <= move)
        <5>1. move = Size - F BY <1>1, <1>2, <1>3, <4>3
        <5>2. Place(F + i - 1) = 0 + (i - move) - 1 BY <1>1, <4>3, <5>1 DEF Place
        <5>3. i - move \in 1 .. p - move BY <1>2, <3>2, <4>3
        <5> QED BY <3>4, <3>5, <4>1, <4>3, <5>2, <5>3
      <4> QED BY <4>2, <4>3
    <3> QED BY <1>7, <3>1, <3>5, <3>6, SeqEqual
  <2> QED BY <1>1, <2>1, <2>2
<1>11. Contents(w) = SubSeq(c, p + 1, z)
  <2> HIDE DEF w, p, c, z
  <2>1. /\ Contents(w) \in Seq(Byte) /\ Len(Contents(w)) = z - p
        /\ \A i \in 1 .. z - p : Contents(w)[i] = r.buffer[Place(Place(F + p) + i - 1)]
    <3> DEFINE q == Place(F + p)
    <3>1. ring_size(w) = z - p /\ w \in Ring /\ w.buffer = r.buffer /\ w.first = q
      BY <1>6
    <3> HIDE DEF q
    <3>2. /\ Contents(w) \in Seq(Byte) /\ Len(Contents(w)) = ring_size(w)
          /\ \A i \in 1 .. ring_size(w) : Contents(w)[i] = w.buffer[Place(w.first + i - 1)]
      BY <3>1, ContentsType
    <3> QED BY <3>1, <3>2 DEF q
  <2>2. ASSUME NEW i \in 1 .. z - p PROVE Contents(w)[i] = SubSeq(c, p + 1, z)[i]
    <3>1. Place(Place(F + p) + i - 1) = Place(F + (p + i) - 1) /\ p + i \in 1 .. z
      BY <1>1, <1>2 DEF Place
    <3> QED BY <1>5, <1>8, <2>1, <3>1
  <2> QED BY <1>8, <2>1, <2>2, SeqEqual
<1> QED BY <1>2, <1>5, <1>6, <1>10, <1>11

\* A cleared ring is a ring that holds nothing.
LEMMA ClearedEmpty ==
  ASSUME NEW r \in Ring PROVE Cleared(r) \in Ring /\ Contents(Cleared(r)) = <<>>
<1>1. Cleared(r) \in Ring /\ Cleared(r).first = 0 /\ Cleared(r).last = 0
  <2>1. 0 \in 0 .. Size - 1 BY SizeAssumption
  <2> QED BY <2>1 DEF Ring, Cleared
<1> HIDE DEF Cleared
<1>2. ring_size(Cleared(r)) = 0 BY <1>1 DEF ring_size
<1> QED BY <1>1, <1>2, ContentsType

\* Bytes read off a ring buffer, fewer than wanted only when it is empty then.
LEMMA ReadFront ==
  ASSUME NEW r \in Ring, NEW want \in Nat
  PROVE  /\ Read(r, want) \in Ring
         /\ Popped(r, want) \in Seq(Byte) /\ Len(Popped(r, want)) <= want
         /\ Contents(Read(r, want)) \in Seq(Byte)
         /\ Contents(r) = Popped(r, want) \o Contents(Read(r, want))
         /\ Len(Popped(r, want)) < want => Contents(Read(r, want)) = <<>>
<1> DEFINE c == Contents(r)
           p == PopSize(r, want)
<1>1. c \in Seq(Byte) /\ Len(c) = ring_size(r) BY ContentsType
<1>2. ring_size(r) \in Nat BY SizeBounds, SizeAssumption
<1>3. p = IF want > Len(c) THEN Len(c) ELSE want BY <1>1 DEF PopSize, AtMost
<1>4. Read(r, want) \in Ring /\ Popped(r, want) = SubSeq(c, 1, p)
      /\ Contents(Read(r, want)) = SubSeq(c, p + 1, Len(c))
  BY ReadTakes
<1> HIDE DEF c, p
<1>5. p \in 0 .. Len(c) /\ p <= want /\ (p < want => p = Len(c)) BY <1>1, <1>2, <1>3
<1>6. /\ SubSeq(c, 1, p) \in Seq(Byte) /\ SubSeq(c, p + 1, Len(c)) \in Seq(Byte)
      /\ Len(SubSeq(c, 1, p)) = p /\ Len(SubSeq(c, p + 1, Len(c))) = Len(c) - p
      /\ SubSeq(c, 1, p) \o SubSeq(c, p + 1, Len(c)) = c
  BY <1>1, <1>5, CutJoin
<1>7. Len(Popped(r, want)) < want => Contents(Read(r, want)) = <<>>
  <2> SUFFICES ASSUME Len(Popped(r, want)) < want PROVE Contents(Read(r, want)) = <<>>
    OBVIOUS
  <2>1. p = Len(c) BY <1>4, <1>5, <1>6
  <2>2. Len(SubSeq(c, p + 1, Len(c))) = 0 BY <1>1, <1>2, <1>6, <2>1
  <2> QED BY <1>4, <1>6, <2>2, EmptySeq
<1> QED BY <1>4, <1>5, <1>6, <1>7 DEF c
=============================================================================
