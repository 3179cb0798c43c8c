--------------------------- MODULE ScanData_proofs ---------------------------
(***************************************************************************)
(* What receive_length_data makes of a scan, proved for every sensor,      *)
(* area, grouping, measurement and length of line.                         *)
(*                                                                         *)
(* A scan is sent as one text, reading behind reading, and cut into lines  *)
(* anywhere.  The invariant says where in that text the program is: behind *)
(* the readings it has decoded the buffer goes on with the text, up to the *)
(* end of a line, and the lines ahead hold the rest.  So each turn of the  *)
(* inner loop takes exactly the next reading, and at the empty line nothing*)
(* is left but what was lost.  What the text is at a place follows from    *)
(* the recursive function Joined, by induction over its parts.             *)
(***************************************************************************)
EXTENDS ScanData, SequenceTheorems, WellFoundedInduction, TLAPS

(***************************************************************************)
(* Induction over the natural numbers, for sets.                           *)
(***************************************************************************)
\* A set that holds 0 and with each natural number the next one holds them all.
LEMMA Induct ==
  ASSUME NEW T, 0 \in T, \A n \in Nat : n \in T => n + 1 \in T
  PROVE  Nat \subseteq T
<1> SUFFICES ASSUME Nat \ T # {} PROVE FALSE OBVIOUS
<1> DEFINE R == OpToRel(<, Nat)
           M == Nat \ T
<1>1. IsWellFoundedOn(R, Nat) BY NatLessThanWellFounded
<1>2. M \subseteq Nat /\ M # {} OBVIOUS
<1>3. PICK n \in M : \A m \in M : ~(<<m, n>> \in R) BY <1>1, <1>2, WFMin
<1>4. \A m \in M : ~(m < n) BY <1>3 DEF OpToRel
<1>5. n \in Nat /\ n # 0 OBVIOUS
<1>6. n - 1 \in Nat BY <1>5
<1>7. n - 1 \in T BY <1>4, <1>5, <1>6
<1>8. n - 1 + 1 = n BY <1>5
<1> QED BY <1>3, <1>6, <1>7, <1>8

(***************************************************************************)
(* Texts behind each other.                                                *)
(***************************************************************************)
\* What the definition of Joined says once it is known that such a function exists.
Joins(parts, f) ==
  f = [n \in 0 .. Len(parts) |-> IF n = 0 THEN <<>> ELSE f[n - 1] \o parts[n]]

LEMMA JoinExists ==
  ASSUME NEW parts \in Seq(Seq(Int))
  PROVE  \E f : Joins(parts, f) /\ f \in [0 .. Len(parts) -> Seq(Int)]
<1> DEFINE Upto(n, f) == /\ f \in [0 .. n -> Seq(Int)]
                         /\ \A i \in 0 .. n : f[i] = IF i = 0 THEN <<>> ELSE f[i - 1] \o parts[i]
           T == {n \in Nat : n <= Len(parts) => \E f : Upto(n, f)}
<1>0. Len(parts) \in Nat OBVIOUS
<1>1. 0 \in T
  <2> DEFINE f == [i \in 0 .. 0 |-> <<>>]
  <2>1. f \in [0 .. 0 -> Seq(Int)] OBVIOUS
  <2>2. \A i \in 0 .. 0 : f[i] = IF i = 0 THEN <<>> ELSE f[i - 1] \o parts[i] OBVIOUS
  <2>3. Upto(0, f) BY <2>1, <2>2
  <2> QED BY <2>3
<1>2. ASSUME NEW n \in Nat, n \in T PROVE n + 1 \in T
  <2> SUFFICES ASSUME n + 1 <= Len(parts) PROVE \E f : Upto(n + 1, f)
    <3> HIDE DEF Upto
    <3> QED OBVIOUS
  <2>1. n <= Len(parts) BY <1>0
  <2>2. PICK f : Upto(n, f) BY <1>2, <2>1
  <2> DEFINE g == [i \in 0 .. n + 1 |-> IF i <= n THEN f[i] ELSE f[n] \o parts[n + 1]]
  <2>3. n + 1 \in 1 .. Len(parts) BY <1>0
  <2>4. parts[n + 1] \in Seq(Int)
    <3> HIDE DEF T, Upto, g
    <3> QED BY <2>3, ElementOfSeq
  <2>5. f[n] \in Seq(Int) BY <2>2
  <2>6. f[n] \o parts[n + 1] \in Seq(Int) BY <2>4, <2>5
  <2>7. g \in [0 .. n + 1 -> Seq(Int)]
    <3>1. \A i \in 0 .. n + 1 : i <= n => i \in 0 .. n OBVIOUS
    <3>2. \A i \in 0 .. n : f[i] \in Seq(Int) BY <2>2
    <3> QED BY <2>6, <3>1, <3>2
  <2>8. ASSUME NEW i \in 0 .. n + 1
        PROVE  g[i] = IF i = 0 THEN <<>> ELSE g[i - 1] \o parts[i]
    <3>1. CASE i <= n
      <4>1. i \in 0 .. n BY <3>1
      <4>2. g[i] = f[i] BY <3>1
      <4>3. i # 0 => g[i - 1] = f[i - 1] BY <3>1
      <4> QED BY <2>2, <4>1, <4>2, <4>3
    <3>2. CASE i = n + 1
      <4>1. g[i] = f[n] \o parts[n + 1]
        <5>1. ~(n + 1 <= n) OBVIOUS
        <5>2. g[n + 1] = IF n + 1 <= n THEN f[n + 1] ELSE f[n] \o parts[n + 1]
          <6> HIDE DEF T, Upto
          <6> QED BY <3>2, Zenon
        <5> QED BY <3>2, <5>1, <5>2, Zenon
      <4>2. i - 1 = n /\ g[n] = f[n] /\ i # 0 BY <3>2
      <4> QED BY <3>2, <4>1, <4>2
    <3> QED BY <3>1, <3>2
  <2>9. Upto(n + 1, g) BY <2>7, <2>8
  <2> HIDE DEF Upto
  <2> QED BY <2>9
<1> HIDE DEF T
<1>3. Nat \subseteq T BY <1>1, <1>2, Induct
<1>4. Len(parts) \in T BY <1>0, <1>3
<1>5. PICK f : Upto(Len(parts), f) BY <1>0, <1>4 DEF T
<1>6. Joins(parts, f) BY <1>5 DEF Joins
<1> QED BY <1>5, <1>6

LEMMA JoinedIs ==
  ASSUME NEW parts \in Seq(Seq(Int))
  PROVE  Joins(parts, Joined(parts))
<1>1. \E f : Joins(parts, f) BY JoinExists
<1>2. Joined(parts) = CHOOSE f : Joins(parts, f) BY Zenon DEF Joined, Joins
<1> QED BY <1>1, <1>2, Zenon

LEMMA JoinedParts ==
  ASSUME NEW parts \in Seq(Seq(Int))
  PROVE  /\ Joined(parts) \in [0 .. Len(parts) -> Seq(Int)]
         /\ Joined(parts)[0] = <<>>
         /\ \A n \in 1 .. Len(parts) :
              /\ Joined(parts)[n] = Joined(parts)[n - 1] \o parts[n]
              /\ Joined(parts)[n - 1] \in Seq(Int) /\ parts[n] \in Seq(Int)
              /\ Len(Joined(parts)[n]) = Len(Joined(parts)[n - 1]) + Len(parts[n])
<1> DEFINE J == Joined(parts)
           T == {n \in Nat : n <= Len(parts) => J[n] \in Seq(Int)}
<1>0. Len(parts) \in Nat OBVIOUS
<1>1. J = [n \in 0 .. Len(parts) |-> IF n = 0 THEN <<>> ELSE J[n - 1] \o parts[n]]
  BY JoinedIs DEF Joins
<1> HIDE DEF J
<1>2. J[0] = <<>> BY <1>0, <1>1
<1>3. \A n \in 1 .. Len(parts) : J[n] = J[n - 1] \o parts[n]
  <2> TAKE n \in 1 .. Len(parts)
  <2>1. n \in 0 .. Len(parts) /\ n # 0 OBVIOUS
  <2> QED BY <1>1, <2>1
<1>4. \A n \in 1 .. Len(parts) : parts[n] \in Seq(Int) BY ElementOfSeq
<1>5. 0 \in T
  <2>1. <<>> \in Seq(Int) OBVIOUS
  <2> QED BY <1>2, <2>1
<1>6. ASSUME NEW n \in Nat, n \in T PROVE n + 1 \in T
  <2> SUFFICES ASSUME n + 1 <= Len(parts) PROVE J[n + 1] \in Seq(Int) OBVIOUS
  <2>1. n <= Len(parts) /\ n + 1 \in 1 .. Len(parts) /\ n + 1 - 1 = n BY <1>0
  <2>2. J[n] \in Seq(Int) BY <1>6, <2>1
  <2>3. J[n + 1] = J[n] \o parts[n + 1]
    <3> DEFINE m == n + 1
    <3>1. m \in 1 .. Len(parts) /\ m - 1 = n BY <2>1
    <3> HIDE DEF m
    <3>2. J[m] = J[m - 1] \o parts[m] BY <1>3, <3>1
    <3>3. J[m] = J[n] \o parts[m] BY <3>1, <3>2
    <3> QED BY <3>3 DEF m
  <2> QED BY <1>4, <2>1, <2>2, <2>3
<1> HIDE DEF T
<1>7. Nat \subseteq T BY <1>5, <1>6, Induct
<1>8. \A n \in 0 .. Len(parts) : J[n] \in Seq(Int) BY <1>0, <1>7 DEF T
<1>9. J \in [0 .. Len(parts) -> Seq(Int)]
  <2>1. DOMAIN J = 0 .. Len(parts) /\ J = [n \in DOMAIN J |-> J[n]] BY <1>1
  <2> QED BY <1>8, <2>1
<1>10. ASSUME NEW n \in 1 .. Len(parts)
       PROVE  J[n - 1] \in Seq(Int) /\ Len(J[n]) = Len(J[n - 1]) + Len(parts[n])
  <2>1. n - 1 \in 0 .. Len(parts) BY <1>0
  <2>2. J[n - 1] \in Seq(Int) BY <1>8, <2>1
  <2>3. Len(J[n - 1] \o parts[n]) = Len(J[n - 1]) + Len(parts[n])
    BY <1>4, <2>2, ConcatProperties
  <2> QED BY <1>3, <2>2, <2>3
<1> QED BY <1>2, <1>3, <1>4, <1>9, <1>10 DEF J

\* What stands in front stays where it is.
LEMMA JoinedPrefix ==
  ASSUME NEW parts \in Seq(Seq(Int)), NEW n \in 0 .. Len(parts), NEW k \in n .. Len(parts)
  PROVE  /\ Len(Joined(parts)[n]) \in 0 .. Len(Joined(parts)[k])
         /\ Len(Joined(parts)[k]) \in Nat
         /\ \A i \in 1 .. Len(Joined(parts)[n]) : Joined(parts)[k][i] = Joined(parts)[n][i]
<1> DEFINE J == Joined(parts)
           Kept(j) == /\ Len(J[n]) <= Len(J[j])
                      /\ \A i \in 1 .. Len(J[n]) : J[j][i] = J[n][i]
           T == {d \in Nat : n + d <= Len(parts) => Kept(n + d)}
<1>0. Len(parts) \in Nat /\ n \in Nat /\ k \in Nat OBVIOUS
<1>1. \A j \in 0 .. Len(parts) : J[j] \in Seq(Int) /\ Len(J[j]) \in Nat
  <2> TAKE j \in 0 .. Len(parts)
  <2>1. J[j] \in Seq(Int) BY JoinedParts
  <2> HIDE DEF J
  <2> QED BY <2>1
<1>2. \A j \in 1 .. Len(parts) : /\ J[j] = J[j - 1] \o parts[j]
                                 /\ parts[j] \in Seq(Int)
  BY JoinedParts
<1> HIDE DEF J
<1>3. 0 \in T BY <1>0, <1>1
<1>4. ASSUME NEW d \in Nat, d \in T PROVE d + 1 \in T
  <2> SUFFICES ASSUME n + (d + 1) <= Len(parts) PROVE Kept(n + (d + 1)) OBVIOUS
  <2> DEFINE j == n + d
  <2>1. /\ j \in 0 .. Len(parts) /\ j + 1 \in 1 .. Len(parts) /\ j + 1 - 1 = j
        /\ n + (d + 1) = j + 1 /\ j <= Len(parts)
    BY <1>0
  <2>2. Kept(j) BY <1>4, <2>1
  <2> HIDE DEF j
  <2>3. J[j + 1] = J[j] \o parts[j + 1] /\ parts[j + 1] \in Seq(Int)
    <3> DEFINE m == j + 1
    <3>1. m \in 1 .. Len(parts) /\ m - 1 = j BY <2>1
    <3> HIDE DEF m
    <3>2. J[m] = J[m - 1] \o parts[m] /\ parts[m] \in Seq(Int) BY <1>2, <3>1
    <3>3. J[m] = J[j] \o parts[m] BY <3>1, <3>2
    <3> QED BY <3>2, <3>3 DEF m
  <2>4. J[j] \in Seq(Int) /\ J[n] \in Seq(Int) /\ Len(J[j]) \in Nat /\ Len(J[n]) \in Nat
    BY <1>1, <2>1
  <2>5. /\ Len(J[j + 1]) = Len(J[j]) + Len(parts[j + 1])
        /\ \A i \in 1 .. Len(J[j]) : J[j + 1][i] = J[j][i]
    <3> DEFINE a == J[j]  b == parts[j + 1]
    <3>1. a \in Seq(Int) /\ b \in Seq(Int) /\ J[j + 1] = a \o b BY <2>3, <2>4
    <3>2. Len(a) \in Nat /\ Len(b) \in Nat BY <3>1
    <3> HIDE DEF a, b
    <3>3. /\ Len(a \o b) = Len(a) + Len(b)
          /\ \A i \in 1 .. Len(a) + Len(b) : (a \o b)[i] = IF i <= Len(a) THEN a[i] ELSE b[i - Len(a)]
      BY <3>1, ConcatProperties
    <3>4. \A i \in 1 .. Len(a) : (a \o b)[i] = a[i] BY <3>2, <3>3
    <3>5. /\ Len(J[j + 1]) = Len(a) + Len(b)
          /\ \A i \in 1 .. Len(a) : J[j + 1][i] = a[i]
      BY <3>1, <3>3, <3>4
    <3> QED BY <3>5 DEF a, b
  <2>6. Len(parts[j + 1]) \in Nat BY <2>3
  <2>7. Kept(j + 1)
    <3>1. \A i \in 1 .. Len(J[n]) : i \in 1 .. Len(J[j]) BY <2>2, <2>4
    <3>2. \A i \in 1 .. Len(J[n]) : J[j + 1][i] = J[n][i] BY <2>2, <2>5, <3>1
    <3>3. Len(J[n]) <= Len(J[j + 1])
      <4> DEFINE a == Len(J[n])  b == Len(J[j])  c == Len(parts[j + 1])  e == Len(J[j + 1])
      <4>1. a \in Nat /\ b \in Nat /\ c \in Nat /\ e = b + c /\ a <= b
        BY <2>2, <2>4, <2>5, <2>6
      <4> HIDE DEF a, b, c, e
      <4>2. a <= e BY <4>1
      <4> QED BY <4>2 DEF a, e
    <3> QED BY <3>2, <3>3
  <2> QED BY <2>1, <2>7
<1> HIDE DEF T
<1>5. Nat \subseteq T BY <1>3, <1>4, Induct
<1>6. k - n \in Nat /\ n + (k - n) = k /\ n + (k - n) <= Len(parts) BY <1>0
<1>7. Kept(n + (k - n)) BY <1>5, <1>6 DEF T
<1>8. Kept(k) BY <1>6, <1>7
<1>9. Len(J[n]) \in Nat /\ Len(J[k]) \in Nat BY <1>0, <1>1
<1> QED BY <1>8, <1>9 DEF J

\* Where part n is among the first k.
LEMMA JoinedPart ==
  ASSUME NEW parts \in Seq(Seq(Int)), NEW k \in 1 .. Len(parts), NEW n \in 1 .. k
  PROVE  /\ Len(Joined(parts)[n - 1]) \in Nat /\ Len(parts[n]) \in Nat
         /\ Len(Joined(parts)[k]) \in Nat
         /\ Len(Joined(parts)[n - 1]) + Len(parts[n]) = Len(Joined(parts)[n])
         /\ Len(Joined(parts)[n]) <= Len(Joined(parts)[k])
         /\ \A i \in 1 .. Len(parts[n]) :
              Joined(parts)[k][Len(Joined(parts)[n - 1]) + i] = parts[n][i]
<1> DEFINE J == Joined(parts)
<1>0. Len(parts) \in Nat /\ n \in 1 .. Len(parts) /\ n \in 0 .. Len(parts)
      /\ k \in n .. Len(parts) /\ n - 1 \in 0 .. Len(parts)
  OBVIOUS
<1>1. /\ J[n] = J[n - 1] \o parts[n] /\ J[n - 1] \in Seq(Int) /\ parts[n] \in Seq(Int)
      /\ Len(J[n]) = Len(J[n - 1]) + Len(parts[n])
  BY <1>0, JoinedParts
<1>2. /\ Len(J[n]) \in 0 .. Len(J[k]) /\ Len(J[k]) \in Nat
      /\ \A i \in 1 .. Len(J[n]) : J[k][i] = J[n][i]
  BY <1>0, JoinedPrefix
<1> HIDE DEF J
<1>3. Len(J[n - 1]) \in Nat /\ Len(parts[n]) \in Nat BY <1>1
<1>4. \A i \in 1 .. Len(parts[n]) : (J[n - 1] \o parts[n])[Len(J[n - 1]) + i] = parts[n][i]
  <2> DEFINE a == J[n - 1]  b == parts[n]
  <2>1. a \in Seq(Int) /\ b \in Seq(Int) /\ Len(a) \in Nat /\ Len(b) \in Nat BY <1>1, <1>3
  <2> HIDE DEF a, b
  <2>2. \A i \in 1 .. Len(a) + Len(b) : (a \o b)[i] = IF i <= Len(a) THEN a[i] ELSE b[i - Len(a)]
    BY <2>1, ConcatProperties
  <2>3. \A i \in 1 .. Len(b) : (a \o b)[Len(a) + i] = b[i] BY <2>1, <2>2
  <2> QED BY <2>3 DEF a, b
<1>5. \A i \in 1 .. Len(parts[n]) : Len(J[n - 1]) + i \in 1 .. Len(J[n])
  <2> DEFINE a == Len(J[n - 1])  b == Len(parts[n])  c == Len(J[n])
  <2>1. a \in Nat /\ b \in Nat /\ c = a + b BY <1>1, <1>3
  <2> HIDE DEF a, b, c
  <2>2. \A i \in 1 .. b : a + i \in 1 .. c BY <2>1
  <2> QED BY <2>2 DEF a, b, c
<1>6. ASSUME NEW i \in 1 .. Len(parts[n])
      PROVE  J[k][Len(J[n - 1]) + i] = parts[n][i]
  <2> DEFINE x == Len(J[n - 1]) + i
  <2>1. x \in 1 .. Len(J[n]) /\ (J[n - 1] \o parts[n])[x] = parts[n][i] BY <1>4, <1>5
  <2> HIDE DEF x
  <2>2. J[k][x] = J[n][x] BY <1>2, <2>1
  <2> QED BY <1>1, <2>1, <2>2 DEF x
<1>7. Len(J[n]) <= Len(J[k]) BY <1>2
<1> QED BY <1>1, <1>2, <1>3, <1>6, <1>7 DEF J

(***************************************************************************)
(* The text of a scan.                                                     *)
(***************************************************************************)
\* Commands for an area the sensor has, the echoes it may find, and the characters
\* of a reading without its mark.
Sound     == {c \in Command : /\ 0 <= c.first /\ c.first <= c.last
                              /\ c.last <= last_data_index /\ c.skip \in 0 .. 99}
MaxEcho(c) == IF c.type \in Multiechoes THEN URG_MAX_ECHO ELSE 1
Echoes(c)  == [0 .. LastPoint(c) -> 1 .. MaxEcho(c)]
Width(c)   == IF c.type \in Intensities THEN 2 * c.byte ELSE c.byte
Mark(e)    == IF e > 0 THEN 1 ELSE 0

LEMMA CommandIs ==
  ASSUME NEW c \in Command
  PROVE  /\ c.byte \in {2, 3} /\ c.first \in Int /\ c.last \in Int /\ c.skip \in Int
         /\ c.type \in Types /\ Width(c) \in c.byte .. 6 /\ MaxEcho(c) \in {1, 3}
         /\ Width(c) \in 2 .. 6
  BY DEF Command, Width, MaxEcho, URG_MAX_ECHO

LEMMA Quotient ==
  ASSUME NEW a \in Nat, NEW b \in Nat \ {0}
  PROVE  a \div b \in 0 .. a
  OBVIOUS

LEMMA LastPointIs ==
  ASSUME NEW c \in Sound
  PROVE  LastPoint(c) \in 0 .. c.last - c.first
<1>1. c \in Command /\ c.last - c.first \in Nat /\ c.skip \in Nat
  BY CommandIs DEF Sound
<1>2. Max2(1, c.skip) \in Nat \ {0} BY <1>1 DEF Max2
<1> QED BY <1>1, <1>2, Quotient DEF LastPoint

LEMMA DigitsAre ==
  ASSUME NEW c \in Command, NEW p \in Nat, NEW e \in 0 .. 2, NEW kind \in {0, 1}
  PROVE  /\ Digits(c, p, e, kind) \in Seq(Int) /\ Len(Digits(c, p, e, kind)) = c.byte
         /\ \A i \in 1 .. c.byte : Digits(c, p, e, kind)[i] >= 0
<1>1. c.byte \in Nat BY CommandIs
<1>2. \A i \in 1 .. c.byte : (8 * p + 2 * e + kind + 21 * i) % 64 \in 0 .. 63 OBVIOUS
<1>3. \A i \in 1 .. c.byte : (8 * p + 2 * e + kind + 21 * i) % 64 \in Int BY <1>2
<1> DEFINE d == [i \in 1 .. c.byte |-> (8 * p + 2 * e + kind + 21 * i) % 64]
<1>4. d \in Seq(Int) /\ Len(d) = c.byte BY <1>1, <1>3
<1>5. \A i \in 1 .. c.byte : d[i] >= 0 BY <1>2
<1> QED BY <1>4, <1>5 DEF Digits

\* A reading: its mark, if it is a further echo, the digits of its distance, those of
\* its intensity.
LEMMA ReadingIs ==
  ASSUME NEW c \in Command, NEW p \in Nat, NEW e \in 0 .. 2
  PROVE  /\ Reading(c, p, e) \in Seq(Int)
         /\ Len(Reading(c, p, e)) = Width(c) + Mark(e)
         /\ e > 0 => Reading(c, p, e)[1] = AMPERSAND
         /\ e = 0 => \A i \in 1 .. Width(c) : Reading(c, p, e)[i] >= 0
         /\ \A i \in 1 .. c.byte : Reading(c, p, e)[Mark(e) + i] = Digits(c, p, e, 0)[i]
         /\ c.type \in Intensities =>
              \A i \in 1 .. c.byte :
                Reading(c, p, e)[Mark(e) + c.byte + i] = Digits(c, p, e, 1)[i]
<1> DEFINE a == IF e > 0 THEN <<AMPERSAND>> ELSE <<>>
           b == Digits(c, p, e, 0)
           d == IF c.type \in Intensities THEN Digits(c, p, e, 1) ELSE <<>>
           w == IF c.type \in Intensities THEN c.byte ELSE 0
           n == c.byte
           m == Mark(e)
<1>1. /\ a \in Seq(Int) /\ Len(a) = m /\ m \in {0, 1} /\ (e > 0 <=> m = 1)
      /\ (m = 1 => a[1] = AMPERSAND)
  BY DEF Mark, AMPERSAND
<1>2. /\ b \in Seq(Int) /\ Len(b) = n /\ n \in {2, 3}
      /\ \A i \in 1 .. n : b[i] >= 0
  BY CommandIs, DigitsAre
<1>3. /\ d \in Seq(Int) /\ Len(d) = w /\ w \in Nat
      /\ \A i \in 1 .. w : d[i] >= 0
  <2>1. CASE c.type \in Intensities
    <3>1. d = Digits(c, p, e, 1) /\ w = c.byte BY <2>1
    <3> HIDE DEF d, w
    <3>2. /\ Digits(c, p, e, 1) \in Seq(Int) /\ Len(Digits(c, p, e, 1)) = c.byte
          /\ \A i \in 1 .. c.byte : Digits(c, p, e, 1)[i] >= 0
      BY DigitsAre
    <3>3. c.byte \in Nat BY CommandIs
    <3> QED BY <3>1, <3>2, <3>3
  <2>2. CASE c.type \notin Intensities
    <3>1. d = <<>> /\ w = 0 BY <2>2
    <3>2. <<>> \in Seq(Int) /\ Len(<<>>) = 0 /\ 0 \in Nat OBVIOUS
    <3> HIDE DEF d, w
    <3>3. d \in Seq(Int) /\ Len(d) = w /\ w \in Nat BY <3>1, <3>2
    <3>4. \A i \in 1 .. w : d[i] >= 0 BY <3>1
    <3> QED BY <3>3, <3>4
  <2> QED BY <2>1, <2>2
<1>4. Reading(c, p, e) = a \o b \o d /\ Width(c) = n + w
  BY CommandIs DEF Reading, Width
<1>5. (c.type \in Intensities) => w = n /\ d = Digits(c, p, e, 1) OBVIOUS
<1> HIDE DEF a, b, d, w, m, n
<1> DEFINE ab == a \o b  all == ab \o d
<1>6. /\ ab \in Seq(Int) /\ Len(ab) = m + n
      /\ \A i \in 1 .. m + n : ab[i] = IF i <= m THEN a[i] ELSE b[i - m]
  BY <1>1, <1>2, ConcatProperties
<1> HIDE DEF ab
<1>7. /\ all \in Seq(Int) /\ Len(all) = m + n + w
      /\ \A i \in 1 .. m + n + w : all[i] = IF i <= m + n THEN ab[i] ELSE d[i - (m + n)]
  BY <1>3, <1>6, ConcatProperties
<1> HIDE DEF all
<1>8. all = Reading(c, p, e) BY <1>4 DEF all, ab
<1>9. m = 1 => all[1] = AMPERSAND BY <1>1, <1>2, <1>3, <1>6, <1>7
<1>10. m = 0 => \A i \in 1 .. n + w : all[i] >= 0 BY <1>1, <1>2, <1>3, <1>6, <1>7
<1>11. \A i \in 1 .. n : all[m + i] = b[i] BY <1>1, <1>2, <1>3, <1>6, <1>7
<1>12. \A i \in 1 .. w : all[m + n + i] = d[i] BY <1>1, <1>2, <1>3, <1>6, <1>7
<1>13. Len(all) = Width(c) + m BY <1>1, <1>2, <1>3, <1>4, <1>7
<1>14. e = 0 => m = 0 BY <1>1
<1>15. /\ all \in Seq(Int) /\ (e > 0 => all[1] = AMPERSAND)
       /\ (e = 0 => \A i \in 1 .. Width(c) : all[i] >= 0)
  BY <1>1, <1>4, <1>7, <1>9, <1>10, <1>14
<1> QED BY <1>5, <1>8, <1>11, <1>12, <1>13, <1>15 DEF b, m, n

LEMMA PointParts ==
  ASSUME NEW c \in Command, NEW p \in Nat
  PROVE  /\ [e \in 1 .. URG_MAX_ECHO |-> Reading(c, p, e - 1)] \in Seq(Seq(Int))
         /\ Len([e \in 1 .. URG_MAX_ECHO |-> Reading(c, p, e - 1)]) = 3
<1>1. \A e \in 1 .. 3 : e - 1 \in 0 .. 2 OBVIOUS
<1>2. \A e \in 1 .. 3 : Reading(c, p, e - 1) \in Seq(Int) BY <1>1, ReadingIs
<1> QED BY <1>2 DEF URG_MAX_ECHO

\* The echoes of one point.
LEMMA PointTextIs ==
  ASSUME NEW c \in Command, NEW p \in Nat, NEW k \in 1 .. 3, NEW e \in 0 .. k - 1
  PROVE  /\ PointText(c, p)[k] \in Seq(Int) /\ Len(PointText(c, p)[0]) = 0
         /\ Len(PointText(c, p)[e]) \in Nat /\ Len(Reading(c, p, e)) \in Nat
         /\ Len(PointText(c, p)[e]) + Len(Reading(c, p, e)) = Len(PointText(c, p)[e + 1])
         /\ Len(PointText(c, p)[e + 1]) <= Len(PointText(c, p)[k])
         /\ \A i \in 1 .. Len(Reading(c, p, e)) :
              PointText(c, p)[k][Len(PointText(c, p)[e]) + i] = Reading(c, p, e)[i]
<1> DEFINE rs == [x \in 1 .. URG_MAX_ECHO |-> Reading(c, p, x - 1)]
<1>1. rs \in Seq(Seq(Int)) /\ Len(rs) = 3 BY PointParts
<1>2. e + 1 \in 1 .. k /\ e + 1 \in 1 .. URG_MAX_ECHO /\ e + 1 - 1 = e BY DEF URG_MAX_ECHO
<1>3. rs[e + 1] = Reading(c, p, e) BY <1>2
<1>4. PointText(c, p) = Joined(rs) BY DEF PointText
<1> HIDE DEF rs
<1> DEFINE n == e + 1
<1>5. k \in 1 .. Len(rs) /\ n \in 1 .. k /\ n - 1 = e BY <1>1, <1>2
<1> HIDE DEF n
<1>6. /\ Len(Joined(rs)[n - 1]) \in Nat /\ Len(rs[n]) \in Nat
      /\ Len(Joined(rs)[n - 1]) + Len(rs[n]) = Len(Joined(rs)[n])
      /\ Len(Joined(rs)[n]) <= Len(Joined(rs)[k])
      /\ \A i \in 1 .. Len(rs[n]) : Joined(rs)[k][Len(Joined(rs)[n - 1]) + i] = rs[n][i]
  BY <1>1, <1>5, JoinedPart
<1>7. Joined(rs)[k] \in Seq(Int) /\ Joined(rs)[0] = <<>>
  <2>1. Joined(rs) \in [0 .. Len(rs) -> Seq(Int)] /\ Joined(rs)[0] = <<>>
    BY <1>1, JoinedParts
  <2>2. k \in 0 .. Len(rs) BY <1>1
  <2> QED BY <2>1, <2>2
<1>8. rs[n] = Reading(c, p, e) BY <1>3 DEF n
<1>9. Len(Joined(rs)[0]) = 0 BY <1>7
<1> QED BY <1>4, <1>5, <1>6, <1>7, <1>8, <1>9 DEF n

LEMMA PointsParts ==
  ASSUME NEW c \in Sound, NEW ec \in Echoes(c)
  PROVE  /\ [p \in 1 .. LastPoint(c) + 1 |-> PointText(c, p - 1)[ec[p - 1]]] \in Seq(Seq(Int))
         /\ Len([p \in 1 .. LastPoint(c) + 1 |-> PointText(c, p - 1)[ec[p - 1]]])
              = LastPoint(c) + 1
         /\ \A q \in 0 .. LastPoint(c) : ec[q] \in 1 .. MaxEcho(c) /\ ec[q] \in 1 .. 3
<1>1. c \in Command /\ LastPoint(c) \in Nat BY LastPointIs, CommandIs DEF Sound
<1>2. \A q \in 0 .. LastPoint(c) : ec[q] \in 1 .. MaxEcho(c) /\ ec[q] \in 1 .. 3
  BY CommandIs, <1>1 DEF Echoes
<1>3. ASSUME NEW p \in 1 .. LastPoint(c) + 1 PROVE PointText(c, p - 1)[ec[p - 1]] \in Seq(Int)
  <2> DEFINE q == p - 1
  <2>1. q \in 0 .. LastPoint(c) /\ q \in Nat BY <1>1
  <2> HIDE DEF q
  <2>2. ec[q] \in 1 .. 3 /\ 0 \in 0 .. ec[q] - 1 BY <1>2, <2>1
  <2>3. PointText(c, q)[ec[q]] \in Seq(Int) BY <1>1, <2>1, <2>2, PointTextIs
  <2> QED BY <2>3 DEF q
<1> DEFINE n == LastPoint(c) + 1
           parts == [p \in 1 .. n |-> PointText(c, p - 1)[ec[p - 1]]]
<1>4. n \in Nat BY <1>1
<1>5. parts \in Seq(Seq(Int)) /\ Len(parts) = n
  <2> HIDE DEF n
  <2>1. \A p \in 1 .. n : PointText(c, p - 1)[ec[p - 1]] \in Seq(Int) BY <1>3 DEF n
  <2> QED BY <1>4, <2>1
<1> QED BY <1>2, <1>5

\* Where in the text the reading of an echo stands.
LEMMA ReadingAt ==
  ASSUME NEW c \in Sound, NEW ec \in Echoes(c), NEW q \in 0 .. LastPoint(c),
         NEW e \in 0 .. ec[q] - 1
  PROVE  LET o == Len(Points(c, ec)[q]) + Len(PointText(c, q)[e])
             l == Len(Reading(c, q, e))
         IN  /\ o \in Nat /\ l \in Nat
             /\ o + l = Len(Points(c, ec)[q]) + Len(PointText(c, q)[e + 1])
             /\ o + l <= Len(Text(c, ec))
             /\ \A i \in 1 .. l : Text(c, ec)[o + i] = Reading(c, q, e)[i]
<1> DEFINE parts == [p \in 1 .. LastPoint(c) + 1 |-> PointText(c, p - 1)[ec[p - 1]]]
           k == LastPoint(c) + 1
           n == q + 1
           P == PointText(c, q)
           J == Joined(parts)
           r == Reading(c, q, e)
           m == ec[q]
<1>1. LastPoint(c) \in Nat /\ c \in Command BY LastPointIs, CommandIs DEF Sound
<1>2. /\ parts \in Seq(Seq(Int)) /\ Len(parts) = k /\ m \in 1 .. 3 BY PointsParts
<1>3. n \in 1 .. k /\ k \in 1 .. k /\ n - 1 = q /\ q \in Nat BY <1>1
<1>4. parts[n] = P[m] BY <1>3
<1>5. Points(c, ec) = J /\ Text(c, ec) = J[k] BY DEF Points, Text
<1>6. /\ Len(P[e]) \in Nat /\ Len(r) \in Nat
      /\ Len(P[e]) + Len(r) = Len(P[e + 1])
      /\ Len(P[e + 1]) <= Len(P[m])
      /\ \A i \in 1 .. Len(r) : P[m][Len(P[e]) + i] = r[i]
  BY <1>1, <1>2, <1>3, PointTextIs
<1> HIDE DEF parts, k, n, P, r
<1>7. /\ Len(J[n - 1]) \in Nat /\ Len(parts[n]) \in Nat /\ Len(J[k]) \in Nat
      /\ Len(J[n - 1]) + Len(parts[n]) = Len(J[n])
      /\ Len(J[n]) <= Len(J[k])
      /\ \A i \in 1 .. Len(parts[n]) : J[k][Len(J[n - 1]) + i] = parts[n][i]
  BY <1>2, <1>3, JoinedPart
<1> HIDE DEF J, m
<1> DEFINE a == Len(J[q])  b == Len(P[e])  l == Len(r)  d == Len(P[m])  z == Len(J[k])
<1>8. /\ a \in Nat /\ b \in Nat /\ l \in Nat /\ d \in Nat /\ z \in Nat
      /\ b + l = Len(P[e + 1]) /\ b + l <= d /\ a + d <= z
  BY <1>3, <1>4, <1>6, <1>7
<1>9. \A j \in 1 .. d : J[k][a + j] = P[m][j] BY <1>3, <1>4, <1>7
<1>10. \A i \in 1 .. l : P[m][b + i] = r[i] BY <1>6
<1> HIDE DEF a, b, l, d, z
<1>11. a + b \in Nat /\ a + b + l = a + Len(P[e + 1]) /\ a + b + l <= z BY <1>8
<1>12. ASSUME NEW i \in 1 .. l PROVE J[k][a + b + i] = r[i]
  <2>1. b + i \in 1 .. d /\ a + (b + i) = a + b + i BY <1>8
  <2>2. J[k][a + (b + i)] = P[m][b + i] BY <1>9, <2>1
  <2> QED BY <1>10, <2>1, <2>2
<1> QED BY <1>5, <1>8, <1>11, <1>12 DEF a, b, l, P, r, z

\* The place in the text behind the readings that have been decoded: p points, of
\* the last of which m + 1 echoes.
Place(c, ec, p, m) ==
  IF p = 0 THEN 0 ELSE Len(Points(c, ec)[p - 1]) + Len(PointText(c, p - 1)[m + 1])

LEMMA PointsJoin ==
  ASSUME NEW c \in Sound, NEW ec \in Echoes(c)
  PROVE  /\ Len(Points(c, ec)[0]) = 0 /\ Text(c, ec) \in Seq(Int)
         /\ \A q \in 0 .. LastPoint(c) :
              Len(Points(c, ec)[q + 1])
                = Len(Points(c, ec)[q]) + Len(PointText(c, q)[ec[q]])
<1> DEFINE k == LastPoint(c) + 1
           parts == [p \in 1 .. k |-> PointText(c, p - 1)[ec[p - 1]]]
           J == Joined(parts)
<1>1. parts \in Seq(Seq(Int)) /\ Len(parts) = k /\ k \in Nat \ {0}
  BY PointsParts, LastPointIs, CommandIs DEF Sound
<1>2. Points(c, ec) = J /\ Text(c, ec) = J[k] BY DEF Points, Text
<1>3. \A n \in 1 .. k : parts[n] = PointText(c, n - 1)[ec[n - 1]] OBVIOUS
<1> HIDE DEF parts
<1>4. /\ J \in [0 .. k -> Seq(Int)] /\ J[0] = <<>>
      /\ \A n \in 1 .. k : Len(J[n]) = Len(J[n - 1]) + Len(parts[n])
  BY <1>1, JoinedParts
<1> HIDE DEF J
<1>5. ASSUME NEW q \in 0 .. LastPoint(c)
      PROVE  Len(J[q + 1]) = Len(J[q]) + Len(PointText(c, q)[ec[q]])
  <2> DEFINE n == q + 1
  <2>1. n \in 1 .. k /\ n - 1 = q BY LastPointIs, CommandIs DEF Sound
  <2> HIDE DEF n, k
  <2>2. Len(J[n]) = Len(J[n - 1]) + Len(parts[n]) /\ parts[n] = PointText(c, n - 1)[ec[n - 1]]
    BY <1>3, <1>4, <2>1
  <2> QED BY <2>1, <2>2 DEF n
<1>6. k \in 0 .. k BY <1>1
<1> HIDE DEF k
<1>7. Len(J[0]) = 0 /\ J[k] \in Seq(Int) BY <1>4, <1>6
<1> QED BY <1>2, <1>5, <1>7

\* What comes next: a further echo of the point before, the next point, or the end.
LEMMA NextReading ==
  ASSUME NEW c \in Sound, NEW ec \in Echoes(c), NEW p \in 0 .. LastPoint(c) + 1,
         NEW m \in 0 .. 2, p > 0 => m + 1 <= ec[p - 1]
  PROVE  LET text == Text(c, ec)
             at   == Place(c, ec, p, m)
         IN
         /\ text \in Seq(Int) /\ at \in 0 .. Len(text) /\ Len(text) \in Nat
         /\ (p > 0 /\ m + 1 < ec[p - 1])
            =>     /\ Place(c, ec, p, m + 1) = at + Width(c) + 1
                   /\ at + Width(c) + 1 <= Len(text)
                   /\ \A i \in 1 .. Width(c) + 1 : text[at + i] = Reading(c, p - 1, m + 1)[i]
         /\ ((p > 0 => m + 1 = ec[p - 1]) /\ p <= LastPoint(c))
            =>     /\ Place(c, ec, p + 1, 0) = at + Width(c)
                   /\ at + Width(c) <= Len(text)
                   /\ \A i \in 1 .. Width(c) : text[at + i] = Reading(c, p, 0)[i]
         /\ ((p > 0 => m + 1 = ec[p - 1]) /\ p = LastPoint(c) + 1) => at = Len(text)
<1> DEFINE text == Text(c, ec)  at == Place(c, ec, p, m)
<1>1. LastPoint(c) \in Nat /\ c \in Command BY LastPointIs, CommandIs DEF Sound
<1>2. text \in Seq(Int) /\ Len(text) \in Nat
  <2>1. text \in Seq(Int) BY PointsJoin
  <2> HIDE DEF text
  <2> QED BY <2>1
<1>3. Width(c) \in Nat BY <1>1, CommandIs
<1>4. \A q \in 0 .. LastPoint(c) : ec[q] \in 1 .. 3 BY PointsParts
<1>5. at \in 0 .. Len(text)
  <2>1. CASE p = 0 BY <1>2, <2>1 DEF Place
  <2>2. CASE p > 0
    <3> DEFINE q == p - 1
    <3>1. q \in 0 .. LastPoint(c) BY <1>1, <2>2
    <3>2. m \in 0 .. ec[q] - 1 BY <1>4, <3>1, <2>2
    <3> DEFINE o == Len(Points(c, ec)[q]) + Len(PointText(c, q)[m])
               l == Len(Reading(c, q, m))
    <3>3. /\ o \in Nat /\ l \in Nat /\ o + l <= Len(text)
          /\ o + l = Len(Points(c, ec)[q]) + Len(PointText(c, q)[m + 1])
      BY <3>1, <3>2, ReadingAt
    <3>4. at = o + l
      <4>1. p # 0 BY <1>1, <2>2
      <4>2. at = Len(Points(c, ec)[q]) + Len(PointText(c, q)[m + 1]) BY <4>1, Zenon DEF Place
      <4>3. o + l = Len(Points(c, ec)[q]) + Len(PointText(c, q)[m + 1]) BY <3>3, Zenon
      <4> QED BY <4>2, <4>3, Zenon
    <3> HIDE DEF o, l, text, at
    <3> QED BY <1>2, <3>3, <3>4
  <2> QED BY <2>1, <2>2
<1>6. ASSUME p > 0, m + 1 < ec[p - 1]
      PROVE  /\ Place(c, ec, p, m + 1) = at + Width(c) + 1
             /\ at + Width(c) + 1 <= Len(text)
             /\ \A i \in 1 .. Width(c) + 1 : text[at + i] = Reading(c, p - 1, m + 1)[i]
  <2> DEFINE q == p - 1  e == m + 1
  <2>1. q \in 0 .. LastPoint(c) /\ q \in Nat BY <1>1, <1>6
  <2>2. e \in 0 .. ec[q] - 1 /\ e \in 0 .. 2 /\ e > 0 BY <1>4, <1>6, <2>1
  <2>3. /\ Place(c, ec, p, m + 1) = Len(Points(c, ec)[q]) + Len(PointText(c, q)[e + 1])
        /\ at = Len(Points(c, ec)[q]) + Len(PointText(c, q)[e])
    <3>1. p # 0 BY <1>1, <1>6
    <3> QED BY <3>1, Zenon DEF Place
  <2> DEFINE o == Len(Points(c, ec)[q]) + Len(PointText(c, q)[e])
             l == Len(Reading(c, q, e))
  <2> HIDE DEF q, e
  <2>4. /\ o \in Nat /\ l \in Nat
        /\ o + l = Len(Points(c, ec)[q]) + Len(PointText(c, q)[e + 1])
        /\ o + l <= Len(text)
        /\ \A i \in 1 .. l : text[o + i] = Reading(c, q, e)[i]
    BY <2>1, <2>2, ReadingAt
  <2>5. l = Width(c) + 1 BY <1>1, <2>1, <2>2, ReadingIs DEF Mark
  <2> HIDE DEF l
  <2>6. /\ Place(c, ec, p, m + 1) = o + l /\ at = o
    BY <2>3, <2>4
  <2> HIDE DEF o, at, text
  <2>7. /\ Place(c, ec, p, m + 1) = at + Width(c) + 1
        /\ at + Width(c) + 1 <= Len(text)
    <3>1. o \in Nat /\ l \in Nat /\ o + l <= Len(text) BY <2>4
    <3>2. o + l = at + Width(c) + 1 BY <1>3, <2>5, <2>6, <3>1
    <3>3. Place(c, ec, p, m + 1) = o + l BY <2>6
    <3> HIDE DEF Place
    <3> QED BY <3>1, <3>2, <3>3
  <2>8. \A i \in 1 .. Width(c) + 1 : text[at + i] = Reading(c, q, e)[i]
    BY <2>4, <2>5, <2>6
  <2> QED BY <2>7, <2>8 DEF q, e
<1>7. ASSUME p > 0 => m + 1 = ec[p - 1] PROVE at = Len(Points(c, ec)[p])
  <2>1. CASE p = 0 BY <2>1, PointsJoin DEF Place
  <2>2. CASE p > 0
    <3> DEFINE q == p - 1
    <3>1. q \in 0 .. LastPoint(c) /\ q + 1 = p /\ m + 1 = ec[q] BY <1>1, <1>7, <2>2
    <3>2. at = Len(Points(c, ec)[q]) + Len(PointText(c, q)[m + 1])
      <4>1. p # 0 BY <1>1, <2>2
      <4> QED BY <4>1, Zenon DEF Place
    <3> HIDE DEF q
    <3>3. Len(Points(c, ec)[q + 1]) = Len(Points(c, ec)[q]) + Len(PointText(c, q)[ec[q]])
      BY <3>1, PointsJoin
    <3> QED BY <3>1, <3>2, <3>3
  <2> QED BY <2>1, <2>2
<1>8. ASSUME p > 0 => m + 1 = ec[p - 1], p <= LastPoint(c)
      PROVE  /\ Place(c, ec, p + 1, 0) = at + Width(c)
             /\ at + Width(c) <= Len(text)
             /\ \A i \in 1 .. Width(c) : text[at + i] = Reading(c, p, 0)[i]
  <2>1. p \in 0 .. LastPoint(c) /\ p \in Nat /\ p + 1 # 0 /\ p + 1 - 1 = p BY <1>1, <1>8
  <2>2. 0 \in 0 .. ec[p] - 1 /\ 0 \in 0 .. 2 BY <1>4, <2>1
  <2>3. Place(c, ec, p + 1, 0) = Len(Points(c, ec)[p]) + Len(PointText(c, p)[0 + 1])
    BY <2>1 DEF Place
  <2> DEFINE o == Len(Points(c, ec)[p]) + Len(PointText(c, p)[0])
             l == Len(Reading(c, p, 0))
  <2>4. /\ o \in Nat /\ l \in Nat
        /\ o + l = Len(Points(c, ec)[p]) + Len(PointText(c, p)[0 + 1])
        /\ o + l <= Len(text)
        /\ \A i \in 1 .. l : text[o + i] = Reading(c, p, 0)[i]
    BY <2>1, <2>2, ReadingAt
  <2>5. l = Width(c) + Mark(0) BY <1>1, <2>1, <2>2, ReadingIs
  <2>6. l = Width(c) BY <1>3, <2>5 DEF Mark
  <2>7. o = at
    <3>1. Len(PointText(c, p)[0]) = 0
      <4>1. 1 \in 1 .. 3 /\ 0 \in 0 .. 1 - 1 OBVIOUS
      <4> QED BY <1>1, <2>1, <4>1, PointTextIs
    <3>2. at = Len(Points(c, ec)[p]) BY <1>7, <1>8
    <3> HIDE DEF at
    <3> QED BY <1>2, <1>5, <3>1, <3>2
  <2>8. Place(c, ec, p + 1, 0) = o + l BY <2>3, <2>4
  <2> HIDE DEF o, l, at, text
  <2> QED BY <2>4, <2>6, <2>7, <2>8
<1>9. ASSUME p > 0 => m + 1 = ec[p - 1], p = LastPoint(c) + 1 PROVE at = Len(text)
  BY <1>7, <1>9 DEF Text
<1> HIDE DEF text, at
<1>10. /\ text \in Seq(Int) /\ at \in 0 .. Len(text) /\ Len(text) \in Nat
       /\ (p > 0 /\ m + 1 < ec[p - 1])
          => /\ Place(c, ec, p, m + 1) = at + Width(c) + 1
             /\ at + Width(c) + 1 <= Len(text)
             /\ \A i \in 1 .. Width(c) + 1 : text[at + i] = Reading(c, p - 1, m + 1)[i]
       /\ ((p > 0 => m + 1 = ec[p - 1]) /\ p <= LastPoint(c))
          => /\ Place(c, ec, p + 1, 0) = at + Width(c)
             /\ at + Width(c) <= Len(text)
             /\ \A i \in 1 .. Width(c) : text[at + i] = Reading(c, p, 0)[i]
       /\ ((p > 0 => m + 1 = ec[p - 1]) /\ p = LastPoint(c) + 1) => at = Len(text)
  BY <1>2, <1>5, <1>6, <1>8, <1>9
<1> QED BY <1>10 DEF text, at

(***************************************************************************)
(* The lines of a scan.                                                    *)
(***************************************************************************)
\* The last character of the text that the first k lines hold.
End(text, k) == Min2(k * LineChars, Len(text))

LEMMA QuotientIs ==
  ASSUME NEW a \in Nat, NEW b \in Nat \ {0}
  PROVE  a \div b \in Nat /\ (a \div b) * b <= a /\ a < (a \div b) * b + b
OBVIOUS

LEMMA Multiple ==
  ASSUME NEW a \in Nat, NEW b \in Nat, NEW d \in Nat, a <= b
  PROVE  a * d <= b * d /\ a * d \in Nat /\ b * d \in Nat
OBVIOUS

LEMMA LineCountIs ==
  ASSUME NEW text \in Seq(Int)
  PROVE  /\ LineCount(text) \in Nat /\ Len(text) \in Nat
         /\ Len(text) <= LineCount(text) * LineChars
         /\ \A i \in 1 .. LineCount(text) :
              /\ (i - 1) * LineChars \in Nat /\ i * LineChars = (i - 1) * LineChars + LineChars
              /\ (i - 1) * LineChars < Len(text)
<1> DEFINE t == Len(text)  d == LineChars  n == LineCount(text)
<1>1. t \in Nat /\ d \in Nat \ {0} BY LineAssumption
<1>2. n = (t + d - 1) \div d BY DEF LineCount
<1> HIDE DEF t, d, n
<1>3. t + d - 1 \in Nat BY <1>1
<1>4. n \in Nat /\ n * d <= t + d - 1 /\ t + d - 1 < n * d + d BY <1>1, <1>2, <1>3, QuotientIs
<1>5. n * d \in Nat BY <1>1, <1>4, Multiple
<1>6. t <= n * d BY <1>1, <1>4, <1>5
<1>7. ASSUME NEW i \in 1 .. n
      PROVE  (i - 1) * d \in Nat /\ i * d = (i - 1) * d + d /\ (i - 1) * d < t
  <2>1. i - 1 \in Nat /\ i \in Nat /\ i <= n BY <1>4
  <2>2. (i - 1) * d \in Nat BY <1>1, <2>1, Multiple
  <2>3. i * d = (i - 1) * d + d BY <1>1, <2>1
  <2>4. i * d <= n * d BY <1>1, <1>4, <2>1, Multiple
  <2>5. i * d \in Nat BY <1>1, <2>1, Multiple
  <2> QED BY <1>1, <1>4, <1>5, <2>2, <2>3, <2>4, <2>5
<1> QED BY <1>1, <1>4, <1>6, <1>7 DEF t, d, n

LEMMA SubSeqIs ==
  ASSUME NEW s \in Seq(Int), NEW a \in Nat, NEW b \in Nat, a <= b, b <= Len(s)
  PROVE  /\ SubSeq(s, a + 1, b) \in Seq(Int) /\ Len(SubSeq(s, a + 1, b)) = b - a
         /\ \A j \in 1 .. b - a : SubSeq(s, a + 1, b)[j] = s[a + j]
<1>1. Len(s) \in Nat /\ a + 1 \in 1 .. Len(s) + 1 /\ b \in a .. Len(s) OBVIOUS
<1> DEFINE r == SubSeq(s, a + 1, b)
<1>2. r = [j \in 1 .. b - a |-> s[a + j]]
  <2>1. r = [j \in 1 .. (1 + b) - (a + 1) |-> s[(j - 1) + (a + 1)]] OBVIOUS
  <2>2. (1 + b) - (a + 1) = b - a OBVIOUS
  <2>3. \A j \in 1 .. b - a : (j - 1) + (a + 1) = a + j OBVIOUS
  <2> HIDE DEF r
  <2> QED BY <2>1, <2>2, <2>3
<1>3. \A j \in 1 .. b - a : a + j \in 1 .. Len(s) BY <1>1
<1>4. \A j \in 1 .. b - a : s[a + j] \in Int BY <1>3, ElementOfSeq
<1>5. b - a \in Nat OBVIOUS
<1> HIDE DEF r
<1>6. r \in Seq(Int) /\ Len(r) = b - a BY <1>2, <1>4, <1>5
<1>7. \A j \in 1 .. b - a : r[j] = s[a + j] BY <1>2
<1> QED BY <1>6, <1>7 DEF r

\* Line i holds the text from the end of the line before to its own end.
LEMMA LinesAre ==
  ASSUME NEW text \in Seq(Int)
  PROVE  /\ InLines(text) \in Seq(Line) /\ Len(InLines(text)) = LineCount(text) + 1
         /\ InLines(text)[LineCount(text) + 1] = EndLine
         /\ LineCount(text) \in Nat /\ Len(text) \in Nat
         /\ End(text, 0) = 0 /\ End(text, LineCount(text)) = Len(text)
         /\ \A k \in 0 .. LineCount(text) : End(text, k) \in 0 .. Len(text)
         /\ \A i \in 1 .. LineCount(text) :
              LET line == InLines(text)[i] IN
              /\ line \in Line /\ line.sum = TRUE /\ line.chars \in Seq(Int)
              /\ Len(line.chars) \in 1 .. LineChars
              /\ End(text, i - 1) + Len(line.chars) = End(text, i)
              /\ \A j \in 1 .. Len(line.chars) : line.chars[j] = text[End(text, i - 1) + j]
<1> DEFINE t == Len(text)  d == LineChars  n == LineCount(text)  E(k) == End(text, k)
<1>1. /\ t \in Nat /\ d \in Nat \ {0} /\ n \in Nat /\ t <= n * d
      /\ \A i \in 1 .. n : (i - 1) * d \in Nat /\ i * d = (i - 1) * d + d /\ (i - 1) * d < t
  BY LineCountIs, LineAssumption
<1>2. \A k : E(k) = Min2(k * d, t) BY DEF End
<1>3. E(0) = 0
  <2>1. 0 * d = 0 BY <1>1
  <2> QED BY <1>1, <1>2, <2>1 DEF Min2
<1>4. E(n) = t
  <2>1. n * d \in Nat BY <1>1, Multiple
  <2> QED BY <1>1, <1>2, <2>1 DEF Min2
<1>5. \A k \in 0 .. n : E(k) \in 0 .. t
  <2> TAKE k \in 0 .. n
  <2>1. k \in Nat BY <1>1
  <2>2. k * d \in Nat BY <1>1, <2>1, Multiple
  <2> HIDE DEF t, d, n, E
  <2> QED BY <1>1, <1>2, <2>2 DEF Min2
<1> DEFINE L(i) == [chars |-> SubSeq(text, (i - 1) * d + 1, Min2(i * d, t)), sum |-> TRUE]
           B == [i \in 1 .. n |-> L(i)]
<1>6. ASSUME NEW i \in 1 .. n
      PROVE  /\ L(i) \in Line /\ L(i).sum = TRUE /\ L(i).chars \in Seq(Int)
             /\ Len(L(i).chars) \in 1 .. d
             /\ E(i - 1) + Len(L(i).chars) = E(i)
             /\ \A j \in 1 .. Len(L(i).chars) : L(i).chars[j] = text[E(i - 1) + j]
  <2> DEFINE a == (i - 1) * d  b == Min2(i * d, t)
  <2>1. a \in Nat /\ i * d = a + d /\ a < t BY <1>1
  <2>2. E(i - 1) = a /\ E(i) = b
    <3>1. E(i - 1) = Min2(a, t) BY <1>2
    <3>2. E(i) = b BY <1>2
    <3> HIDE DEF a, b, t, E
    <3> QED BY <1>1, <2>1, <3>1, <3>2 DEF Min2
  <2>3. b \in Nat /\ a < b /\ b <= t /\ b <= a + d
    <3> HIDE DEF a, t, d
    <3> QED BY <1>1, <2>1 DEF Min2
  <2> DEFINE r == SubSeq(text, a + 1, b)
  <2>4. L(i).chars = r /\ L(i).sum = TRUE OBVIOUS
  <2> HIDE DEF a, b, E
  <2>5. r \in Seq(Int) /\ Len(r) = b - a /\ \A j \in 1 .. b - a : r[j] = text[a + j]
    BY <2>1, <2>3, SubSeqIs
  <2>6. L(i) \in Line BY <2>5 DEF Line, a, b
  <2> HIDE DEF L, r, t, d
  <2>7. b - a \in 1 .. d /\ a + (b - a) = b BY <1>1, <2>1, <2>3
  <2> QED BY <2>2, <2>4, <2>5, <2>6, <2>7
<1>7. B \in Seq(Line) /\ Len(B) = n
  <2>1. \A i \in 1 .. n : L(i) \in Line BY <1>6
  <2> HIDE DEF L, n
  <2> QED BY <1>1, <2>1
<1>8. \A i \in 1 .. n : B[i] = L(i) OBVIOUS
<1>9. InLines(text) = B \o <<EndLine>> BY DEF InLines
<1>10. <<EndLine>> \in Seq(Line) /\ Len(<<EndLine>>) = 1 /\ <<EndLine>>[1] = EndLine
  BY DEF EndLine, Line
<1> HIDE DEF B, L, E, t, d, n
<1> DEFINE A == InLines(text)
<1>11. /\ A \in Seq(Line) /\ Len(A) = n + 1
       /\ \A i \in 1 .. n + 1 : A[i] = IF i <= n THEN B[i] ELSE <<EndLine>>[i - n]
  BY <1>7, <1>9, <1>10, ConcatProperties
<1> HIDE DEF A
<1>12. \A i \in 1 .. n : A[i] = L(i) BY <1>1, <1>8, <1>11
<1>13. A[n + 1] = EndLine
  <2> DEFINE m == n + 1
  <2>1. m \in 1 .. n + 1 /\ ~(m <= n) /\ m - n = 1 BY <1>1
  <2> HIDE DEF m
  <2>2. A[m] = <<EndLine>>[m - n] BY <1>11, <2>1
  <2>3. A[m] = EndLine BY <1>10, <2>1, <2>2
  <2> QED BY <2>3 DEF m
<1>14. \A i \in 1 .. n :
         /\ A[i] \in Line /\ A[i].sum = TRUE /\ A[i].chars \in Seq(Int)
         /\ Len(A[i].chars) \in 1 .. d
         /\ E(i - 1) + Len(A[i].chars) = E(i)
         /\ \A j \in 1 .. Len(A[i].chars) : A[i].chars[j] = text[E(i - 1) + j]
  <2> TAKE i \in 1 .. n
  <2> QED BY <1>6, <1>12
<1> QED BY <1>1, <1>3, <1>4, <1>5, <1>11, <1>13, <1>14 DEF A, E, t, d, n

\* As long as no echoes are measured no character of the text is a mark.
LEMMA JoinedUnmarked ==
  ASSUME NEW parts \in Seq(Seq(Int)),
         \A n \in 1 .. Len(parts) : \A i \in 1 .. Len(parts[n]) : parts[n][i] >= 0
  PROVE  \A i \in 1 .. Len(Joined(parts)[Len(parts)]) : Joined(parts)[Len(parts)][i] >= 0
<1> DEFINE J == Joined(parts)
           Good(s) == \A i \in 1 .. Len(s) : s[i] >= 0
           T == {n \in Nat : n <= Len(parts) => Good(J[n])}
<1>0. Len(parts) \in Nat OBVIOUS
<1>1. /\ J[0] = <<>>
      /\ \A n \in 1 .. Len(parts) : /\ J[n] = J[n - 1] \o parts[n]
                                    /\ J[n - 1] \in Seq(Int) /\ parts[n] \in Seq(Int)
  BY JoinedParts
<1> HIDE DEF J
<1>2. 0 \in T BY <1>1
<1>3. ASSUME NEW n \in Nat, n \in T PROVE n + 1 \in T
  <2> SUFFICES ASSUME n + 1 <= Len(parts) PROVE Good(J[n + 1]) OBVIOUS
  <2> DEFINE m == n + 1  a == J[n]  b == parts[m]
  <2>1. m \in 1 .. Len(parts) /\ m - 1 = n /\ n <= Len(parts) BY <1>0
  <2>2. Good(a) BY <1>3, <2>1
  <2>3. Good(b) BY <2>1
  <2> HIDE DEF m
  <2>4. J[m] = a \o b /\ a \in Seq(Int) /\ b \in Seq(Int) BY <1>1, <2>1
  <2> HIDE DEF a, b
  <2>5. Len(a) \in Nat /\ Len(b) \in Nat BY <2>4
  <2>6. /\ Len(a \o b) = Len(a) + Len(b)
        /\ \A i \in 1 .. Len(a) + Len(b) : (a \o b)[i] = IF i <= Len(a) THEN a[i] ELSE b[i - Len(a)]
    BY <2>4, ConcatProperties
  <2>7. Good(a \o b)
    <3> SUFFICES ASSUME NEW i \in 1 .. Len(a) + Len(b) PROVE (a \o b)[i] >= 0 BY <2>6
    <3>1. CASE i <= Len(a)
      <4>1. i \in 1 .. Len(a) BY <2>5, <3>1
      <4> QED BY <2>2, <2>6, <3>1, <4>1
    <3>2. CASE ~(i <= Len(a))
      <4>1. i - Len(a) \in 1 .. Len(b) BY <2>5, <3>2
      <4> QED BY <2>3, <2>6, <3>2, <4>1
    <3> QED BY <3>1, <3>2
  <2> QED BY <2>4, <2>7 DEF m
<1> HIDE DEF T
<1>4. Nat \subseteq T BY <1>2, <1>3, Induct
<1> QED BY <1>0, <1>4 DEF T, J

LEMMA TextUnmarked ==
  ASSUME NEW c \in Sound, NEW ec \in Echoes(c), c.type \notin Multiechoes
  PROVE  \A i \in 1 .. Len(Text(c, ec)) : Text(c, ec)[i] >= 0
<1> DEFINE k == LastPoint(c) + 1
           parts == [p \in 1 .. k |-> PointText(c, p - 1)[ec[p - 1]]]
<1>1. /\ parts \in Seq(Seq(Int)) /\ Len(parts) = k
      /\ \A q \in 0 .. LastPoint(c) : ec[q] \in 1 .. MaxEcho(c)
  BY PointsParts
<1>2. Text(c, ec) = Joined(parts)[k] BY DEF Text, Points
<1>3. \A n \in 1 .. k : parts[n] = PointText(c, n - 1)[ec[n - 1]] OBVIOUS
<1>4. c \in Command /\ k \in Nat BY LastPointIs, CommandIs DEF Sound
<1> HIDE DEF parts
<1>5. ASSUME NEW n \in 1 .. k, NEW i \in 1 .. Len(parts[n]) PROVE parts[n][i] >= 0
  <2> DEFINE q == n - 1
  <2>1. q \in 0 .. LastPoint(c) /\ q \in Nat BY LastPointIs
  <2> HIDE DEF q, k
  <2>2. ec[q] = 1
    <3>1. ec[q] \in 1 .. 1 BY <1>1, <2>1 DEF MaxEcho
    <3> QED BY <3>1
  <2> DEFINE P == PointText(c, q)  r == Reading(c, q, 0)
  <2>3. parts[n] = P[1] BY <1>3, <2>2 DEF q
  <2>4. /\ Len(P[0]) = 0 /\ Len(r) \in Nat /\ Len(P[0]) + Len(r) = Len(P[0 + 1])
        /\ \A j \in 1 .. Len(r) : P[1][Len(P[0]) + j] = r[j]
    <3>1. 1 \in 1 .. 3 /\ 0 \in 0 .. 1 - 1 OBVIOUS
    <3> QED BY <1>4, <2>1, <3>1, PointTextIs
  <2>5. Len(r) = Width(c) + Mark(0) /\ \A j \in 1 .. Width(c) : r[j] >= 0
    BY <1>4, <2>1, ReadingIs
  <2>6. Len(r) = Width(c)
    <3>1. Width(c) \in Nat /\ Mark(0) = 0 BY <1>4, CommandIs DEF Mark
    <3> HIDE DEF r
    <3> QED BY <2>5, <3>1
  <2> HIDE DEF P, r
  <2>7. Len(P[1]) = Len(r) /\ \A j \in 1 .. Len(r) : P[1][j] = r[j] BY <2>4
  <2> QED BY <2>3, <2>5, <2>6, <2>7
<1>6. \A i \in 1 .. Len(Joined(parts)[Len(parts)]) : Joined(parts)[Len(parts)][i] >= 0
  BY <1>1, <1>5, JoinedUnmarked
<1> QED BY <1>1, <1>2, <1>6

(***************************************************************************)
(* The inductive invariant.                                                *)
(***************************************************************************)
\* The application can only ask for an area of the sensor, and commands of such areas
\* are all that is on its way.
ParametersSound ==
  /\ scanning_first_step \in Int /\ scanning_last_step \in Int /\ scanning_skip_step \in Int
  /\ ~OutOfRange(scanning_first_step, scanning_last_step, scanning_skip_step)
  /\ range_data_byte \in {2, 3} /\ ignore_checkSumError \in {0, 1}
  /\ coming \in Seq(Sound)

\* The received parameters are those of the scan read last.
ScanSound ==
  /\ scan = [cmd |-> scan.cmd, echoes |-> scan.echoes, checked |-> scan.checked]
  /\ scan.cmd \in Sound
  /\ received \in [first : Int, last : Int, skip : Int, byte : {2, 3}]
  /\ (pc # "ready" \/ got # -1)
     => received = [first |-> scan.cmd.first, last |-> scan.cmd.last,
                    skip |-> scan.cmd.skip, byte |-> scan.cmd.byte]
  /\ pc # "ready" => /\ scan.checked = (ignore_checkSumError = 0)
                     /\ scan.echoes \in Echoes(scan.cmd)

\* The lines that have not been read end with the empty one and only with it.
LinesSound ==
  /\ pc \in {"ready", "line", "decode", "returned"}
  /\ lines \in Seq(Line)
  /\ pc \in {"ready", "returned"} => lines = <<>>
  /\ pc \in {"line", "decode"}
     => /\ lines # <<>> /\ lines[Len(lines)] = EndLine
        /\ \A i \in 1 .. Len(lines) : Len(lines[i].chars) <= LineChars
        /\ \A i \in 1 .. Len(lines) : lines[i].chars = <<>> => i = Len(lines)

\* No more points are filled than there are steps between first and last, and before
\* a line is read no whole value is left in the buffer.
FilledSound ==
  /\ buffer \in Seq(Int) /\ step_filled \in Nat /\ multiecho_index \in Nat
  /\ got \in Int /\ lost \in Nat /\ garbled \in Nat
  /\ pc = "line" => ~Complete
  /\ pc # "ready" => step_filled <= scan.cmd.last - scan.cmd.first + 1
  /\ got <= scan.cmd.last - scan.cmd.first + 1
  /\ pc = "ready" => length = <<>> /\ intensity = <<>>

\* As long as no echoes are measured and no character is garbled there is no mark, and
\* one value is written for each point.
Unmarked ==
  (pc # "ready" /\ garbled = 0 /\ ~is_multiecho)
  => /\ \A j \in 1 .. Len(buffer) : buffer[j] >= 0
     /\ \A i \in 1 .. Len(lines) : \A j \in 1 .. Len(lines[i].chars) : lines[i].chars[j] >= 0
     /\ DOMAIN length \subseteq 0 .. step_filled - 1
     /\ DOMAIN intensity \subseteq 0 .. step_filled - 1

\* No line is missing, and a garbled one will be noticed.
Exact == lost = 0 /\ (garbled > 0 => scan.checked)

\* How many of the lines have been read.
ReadLines == LineCount(Text(scan.cmd, scan.echoes)) + 1 - Len(lines)

\* The lines ahead are those of the scan that have not been read, or garbled.
LinesAhead ==
  LET text == Text(scan.cmd, scan.echoes) IN
  /\ ReadLines \in 0 .. LineCount(text)
  /\ \A i \in 1 .. Len(lines) :
       \/ lines[i] = InLines(text)[ReadLines + i]
       \/ garbled > 0 /\ ~lines[i].sum /\ lines[i].chars # <<>>

\* The buffer holds the text from the readings that have been decoded to the last line
\* that has been read.
BufferBehind ==
  LET text == Text(scan.cmd, scan.echoes)
      at   == Place(scan.cmd, scan.echoes, step_filled, multiecho_index)
  IN /\ at + Len(buffer) = End(text, ReadLines)
     /\ \A j \in 1 .. Len(buffer) : buffer[j] = text[at + j]

\* An array holds the echoes that have been decoded, and nothing behind them.
Filled(array, kind) ==
  /\ DOMAIN array = 0 .. step_filled * multiecho_max_size - 1
  /\ \A q \in 0 .. step_filled - 1, e \in 0 .. multiecho_max_size - 1 :
       array[q * multiecho_max_size + e] =
         IF e < scan.echoes[q] /\ (q = step_filled - 1 => e <= multiecho_index)
         THEN Measured(kind, q, e) ELSE 0

Reached ==
  /\ step_filled <= LastPoint(scan.cmd) + 1
  /\ multiecho_index \in 0 .. 2
  /\ step_filled > 0 => multiecho_index + 1 <= scan.echoes[step_filled - 1]
  /\ Filled(length, 0)
  /\ IF scan.cmd.type \in Intensities THEN Filled(intensity, 1) ELSE intensity = <<>>

\* What is decoded of such a scan is what was sent; it is reported when all of it has
\* been decoded, and if nothing was garbled it is reported.
AsSent ==
  /\ (pc \in {"line", "decode"} /\ Exact) => Reached /\ LinesAhead /\ BufferBehind
  /\ (pc = "returned" /\ Exact /\ garbled = 0) => got >= 0
  /\ (pc = "returned" /\ Exact /\ got >= 0)
     => /\ Reached
        /\ got = step_filled /\ step_filled = LastPoint(scan.cmd) + 1
        /\ multiecho_index + 1 = scan.echoes[LastPoint(scan.cmd)]

IInv == ParametersSound /\ ScanSound /\ LinesSound /\ FilledSound /\ Unmarked /\ AsSent

LEMMA InitInv == Init => IInv
<1> SUFFICES ASSUME Init PROVE IInv OBVIOUS
<1> USE DEF Init
<1>1. ParametersSound
  <2>1. coming \in Seq(Sound) OBVIOUS
  <2> QED BY <2>1, IndexAssumption DEF ParametersSound, OutOfRange
<1>2. ScanSound
  <2>1. scan.cmd \in Sound BY IndexAssumption DEF Sound, Command, Types
  <2>2. received \in [first : Int, last : Int, skip : Int, byte : {2, 3}]
    BY IndexAssumption
  <2> QED BY <2>1, <2>2 DEF ScanSound
<1>3. LinesSound BY DEF LinesSound
<1>4. FilledSound BY DEF FilledSound
<1>5. Unmarked BY DEF Unmarked
<1>6. AsSent BY DEF AsSent
<1> QED BY <1>1, <1>2, <1>3, <1>4, <1>5, <1>6 DEF IInv

(***************************************************************************)
(* The invariant implies what the runs check.                              *)
(***************************************************************************)
LEMMA Shapes ==
  ASSUME IInv
  PROVE  /\ scan.cmd \in Command /\ scan.cmd \in Sound
         /\ multiecho_max_size = MaxEcho(scan.cmd) /\ multiecho_max_size \in {1, 3}
         /\ data_size \in 2 .. 6
         /\ pc # "ready" => data_size = Width(scan.cmd) /\ each_size = scan.cmd.byte
         /\ scan.cmd.last - scan.cmd.first \in 0 .. last_data_index
         /\ LastPoint(scan.cmd) \in 0 .. scan.cmd.last - scan.cmd.first
<1>1. scan.cmd \in Command /\ scan.cmd \in Sound BY DEF IInv, ScanSound, Sound
<1>2. multiecho_max_size = MaxEcho(scan.cmd) /\ multiecho_max_size \in {1, 3}
  BY DEF multiecho_max_size, is_multiecho, MaxEcho, URG_MAX_ECHO
<1>3. data_size \in 2 .. 6 BY DEF IInv, ScanSound, data_size, each_size
<1>4. pc # "ready" => data_size = Width(scan.cmd) /\ each_size = scan.cmd.byte
  BY DEF IInv, ScanSound, data_size, each_size, Width
<1>5. scan.cmd.last - scan.cmd.first \in 0 .. last_data_index
  BY <1>1, CommandIs, IndexAssumption DEF Sound
<1>6. LastPoint(scan.cmd) \in 0 .. scan.cmd.last - scan.cmd.first BY <1>1, LastPointIs
<1> QED BY <1>1, <1>2, <1>3, <1>4, <1>5, <1>6

LEMMA InvTypeOK == IInv => TypeOK
<1> SUFFICES ASSUME IInv PROVE TypeOK OBVIOUS
<1>1. scanning_skip_step \in 0 .. 99 BY DEF IInv, ParametersSound, OutOfRange
<1>2. coming \in Seq(Command)
  <2>1. Sound \subseteq Command BY DEF Sound
  <2>2. coming \in Seq(Sound) BY DEF IInv, ParametersSound
  <2>3. \A i \in 1 .. Len(coming) : coming[i] \in Command BY <2>1, <2>2, ElementOfSeq
  <2>4. Len(coming) \in Nat /\ coming = [i \in 1 .. Len(coming) |-> coming[i]] BY <2>2
  <2> QED BY <2>3, <2>4
<1>3. scan.cmd \in Command BY Shapes
<1> QED BY <1>1, <1>2, <1>3 DEF TypeOK, IInv, ParametersSound, ScanSound, LinesSound, FilledSound

LEMMA InvLinesFit == IInv => LinesFit
<1> SUFFICES ASSUME IInv, pc = "line" PROVE Len(buffer) + LineChars + 2 <= BUFFER_SIZE
  BY DEF LinesFit
<1>1. ~Complete /\ Len(buffer) \in Nat BY DEF IInv, FilledSound
<1>2. data_size \in 2 .. 6 BY Shapes
<1>3. Len(buffer) <= 6
  <2> HIDE DEF Complete
  <2> QED BY <1>1, <1>2 DEF Complete
<1> QED BY <1>1, <1>3, LineAssumption DEF BUFFER_SIZE

LEMMA InvInBounds == IInv => InBounds
<1> SUFFICES ASSUME IInv, Unharmed \/ (garbled = 0 /\ ~is_multiecho)
             PROVE  DOMAIN length \subseteq Places /\ DOMAIN intensity \subseteq Places
  BY DEF InBounds
<1> DEFINE n == last_data_index  x == multiecho_max_size  s == step_filled
<1>1. n \in Nat /\ x \in {1, 3} /\ s \in Nat /\ Places = 0 .. (n + 1) * x - 1
  BY Shapes, IndexAssumption DEF IInv, FilledSound, Places, urg_max_data_size
<1>2. pc # "ready" => s <= n + 1
  <2>1. pc # "ready" => s <= scan.cmd.last - scan.cmd.first + 1 BY DEF IInv, FilledSound
  <2>2. scan.cmd.last - scan.cmd.first \in 0 .. n BY Shapes
  <2> HIDE DEF n, s
  <2> QED BY <1>1, <2>1, <2>2
<1>3. pc \in {"ready", "line", "decode", "returned"} BY DEF IInv, LinesSound
<1>4. CASE pc = "ready"
  <2>1. length = <<>> /\ intensity = <<>> BY <1>4 DEF IInv, FilledSound
  <2>2. DOMAIN << >> = {} OBVIOUS
  <2> QED BY <2>1, <2>2
<1>5. CASE pc # "ready" /\ garbled = 0 /\ ~is_multiecho
  <2>1. DOMAIN length \subseteq 0 .. s - 1 /\ DOMAIN intensity \subseteq 0 .. s - 1
    BY <1>5 DEF IInv, Unmarked
  <2>2. x = 1 BY <1>5 DEF multiecho_max_size
  <2> HIDE DEF n, s, x
  <2>3. 0 .. s - 1 \subseteq Places BY <1>1, <1>2, <1>5, <2>2
  <2> QED BY <2>1, <2>3
<1>6. CASE pc # "ready" /\ Unharmed
  <2>1. Exact /\ garbled = 0 BY <1>6 DEF Unharmed, Exact
  <2>2. Reached BY <1>3, <1>6, <2>1 DEF IInv, AsSent
  <2>3. /\ DOMAIN length = 0 .. s * x - 1
        /\ DOMAIN intensity = 0 .. s * x - 1 \/ intensity = <<>>
    BY <2>2 DEF Reached, Filled
  <2>4. DOMAIN << >> = {} OBVIOUS
  <2> HIDE DEF n, s, x
  <2>5. 0 .. s * x - 1 \subseteq Places BY <1>1, <1>2, <1>6
  <2> QED BY <2>3, <2>4, <2>5
<1> QED BY <1>4, <1>5, <1>6

LEMMA InvPointsInPlace == IInv => PointsInPlace
<1> SUFFICES ASSUME IInv, pc = "returned", got >= 0, lost = 0, garbled > 0 => scan.checked
             PROVE  /\ got = LastPoint(scan.cmd) + 1
                    /\ Held(length, 0)
                    /\ scan.cmd.type \in Intensities => Held(intensity, 1)
  BY DEF PointsInPlace
<1> DEFINE k == LastPoint(scan.cmd)
<1>1. /\ Reached /\ got = step_filled /\ step_filled = k + 1
      /\ multiecho_index + 1 = scan.echoes[k]
  BY DEF IInv, AsSent, Exact
<1>2. k \in Nat /\ multiecho_max_size \in {1, 3} BY Shapes
<1>3. scan.echoes[k] \in 1 .. 3
  <2>1. scan.echoes \in Echoes(scan.cmd) /\ scan.cmd \in Sound BY Shapes DEF IInv, ScanSound
  <2>2. \A q \in 0 .. k : scan.echoes[q] \in 1 .. 3 BY <2>1, PointsParts
  <2> HIDE DEF k
  <2> QED BY <1>2, <2>2
<1>4. multiecho_index \in Nat BY DEF IInv, FilledSound
<1> HIDE DEF k
<1>5. ASSUME NEW array, NEW kind, Filled(array, kind) PROVE Held(array, kind)
  <2> SUFFICES ASSUME NEW p \in 0 .. k, NEW e \in 0 .. multiecho_max_size - 1
               PROVE  array[p * multiecho_max_size + e] =
                        IF e < scan.echoes[p] THEN Measured(kind, p, e) ELSE 0
    BY DEF Held, k
  <2>1. p \in 0 .. step_filled - 1 BY <1>1, <1>2
  <2>2. array[p * multiecho_max_size + e] =
          IF e < scan.echoes[p] /\ (p = step_filled - 1 => e <= multiecho_index)
          THEN Measured(kind, p, e) ELSE 0
    BY <1>5, <2>1 DEF Filled
  <2>3. (p = step_filled - 1 /\ e < scan.echoes[p]) => e <= multiecho_index
    BY <1>1, <1>2, <1>3, <1>4
  <2> QED BY <2>2, <2>3, Zenon
<1> QED BY <1>1, <1>5 DEF Reached, k

\* Of a scan that was read the received parameters are known.
LEMMA ReadScan ==
  ASSUME IInv, pc = "ready", got > 0
  PROVE  /\ received.first = scan.cmd.first /\ received.skip = scan.cmd.skip
         /\ \A i \in 0 .. got - 1 : i \in 0 .. last_data_index /\ i \in Nat /\ Clamped(i) = i
<1>1. got \in Int /\ got # -1 BY DEF IInv, FilledSound
<1>2. received.first = scan.cmd.first /\ received.skip = scan.cmd.skip
  BY <1>1 DEF IInv, ScanSound
<1>3. got <= scan.cmd.last - scan.cmd.first + 1 BY DEF IInv, FilledSound
<1>4. scan.cmd.last - scan.cmd.first \in 0 .. last_data_index BY Shapes
<1>5. \A i \in 0 .. got - 1 : i \in 0 .. last_data_index
  <2> DEFINE d == scan.cmd.last - scan.cmd.first
  <2>1. d \in 0 .. last_data_index /\ got <= d + 1 BY <1>3, <1>4
  <2> HIDE DEF d
  <2> QED BY <1>1, <2>1, IndexAssumption
<1>6. \A i \in 0 .. last_data_index : Clamped(i) = i
  BY IndexAssumption DEF Clamped, Min2, Max2
<1> QED BY <1>2, <1>5, <1>6

LEMMA InvIndexWithoutRegrouping == IInv => IndexWithoutRegrouping
<1> SUFFICES ASSUME IInv, scanning_skip_step = scan.cmd.skip, pc = "ready", got > 0,
                    NEW i \in 0 .. got - 1
             PROVE  urg_index2rad(i) = StepOf(i)
  BY DEF IndexWithoutRegrouping, IndexIsLastScan
<1> DEFINE s == Max2(1, scan.cmd.skip)  f == scan.cmd.first  a == i * s
<1>1. received.first = f /\ i \in Nat /\ Clamped(i) = i BY ReadScan
<1>2. /\ scan.cmd.skip \in Nat /\ f \in Int /\ front_data_index \in Nat
  BY Shapes, CommandIs, IndexAssumption DEF Sound
<1>3. s \in Nat BY <1>2 DEF Max2
<1>4. a \in Nat BY <1>1, <1>3, Multiple
<1>5. urg_index2rad(i) = a - front_data_index + f BY <1>1 DEF urg_index2rad
<1>6. StepOf(i) = f + a - front_data_index BY DEF StepOf
<1> HIDE DEF a, f
<1> QED BY <1>2, <1>4, <1>5, <1>6

LEMMA InvStepsFindPoints == IInv => StepsFindPoints
<1> SUFFICES ASSUME IInv, pc = "ready", got > 0, received.skip <= 1, NEW i \in 0 .. got - 1
             PROVE  urg_step2index(StepOf(i)) = i
  BY DEF StepsFindPoints
<1> DEFINE f == scan.cmd.first  x == front_data_index
<1>1. received.first = f /\ received.skip = scan.cmd.skip /\ i \in Nat /\ Clamped(i) = i
  BY ReadScan
<1>2. scan.cmd.skip \in Nat /\ f \in Int /\ x \in Nat
  BY Shapes, CommandIs, IndexAssumption DEF Sound
<1>3. Max2(1, scan.cmd.skip) = 1 BY <1>1, <1>2 DEF Max2
<1>4. StepOf(i) = f + i - x
  <2>1. StepOf(i) = f + i * 1 - x BY <1>3 DEF StepOf
  <2> HIDE DEF f, x
  <2> QED BY <1>1, <1>2, <2>1
<1>5. urg_step2index(StepOf(i)) = Clamped(StepOf(i) - f + x) BY <1>1 DEF urg_step2index
<1> HIDE DEF f, x
<1>6. StepOf(i) - f + x = i BY <1>1, <1>2, <1>4
<1> QED BY <1>1, <1>5, <1>6

(***************************************************************************)
(* The steps.                                                              *)
(***************************************************************************)
\* Parts of the invariant that only depend on a few variables.
LEMMA ReachedSame ==
  ASSUME UNCHANGED <<scan, step_filled, multiecho_index, length, intensity>>
  PROVE  Reached' = Reached
<1>1. multiecho_max_size' = multiecho_max_size BY DEF multiecho_max_size, is_multiecho
<1>2. \A kind, q, e : Measured(kind, q, e)' = Measured(kind, q, e) BY DEF Measured
<1>3. Filled(length, 0)' = Filled(length, 0) BY <1>1, <1>2 DEF Filled
<1>4. Filled(intensity, 1)' = Filled(intensity, 1) BY <1>1, <1>2 DEF Filled
<1> QED BY <1>3, <1>4 DEF Reached

LEMMA BehindSame ==
  ASSUME UNCHANGED <<scan, step_filled, multiecho_index, buffer>>, Len(lines') = Len(lines)
  PROVE  ReadLines' = ReadLines /\ BufferBehind' = BufferBehind
<1>1. ReadLines' = ReadLines BY DEF ReadLines
<1> QED BY <1>1 DEF BufferBehind

LEMMA StutterStep == IInv /\ UNCHANGED vars => IInv'
<1> SUFFICES ASSUME IInv, UNCHANGED vars PROVE IInv' OBVIOUS
<1> USE DEF vars, parameters, locals
<1>1. ParametersSound' BY DEF IInv, ParametersSound, OutOfRange
<1>2. ScanSound' BY DEF IInv, ScanSound
<1>3. LinesSound' BY DEF IInv, LinesSound
<1>4. data_size' = data_size /\ multiecho_max_size' = multiecho_max_size
      /\ is_multiecho' = is_multiecho
  BY DEF data_size, each_size, multiecho_max_size, is_multiecho
<1>5. FilledSound'
  <2>1. Complete' = Complete BY <1>4, Zenon DEF Complete, Marked
  <2> QED BY <2>1 DEF IInv, FilledSound
<1>6. Unmarked' BY <1>4 DEF IInv, Unmarked
<1>7. AsSent'
  <2>1. Exact' = Exact BY DEF Exact
  <2>2. ReadLines' = ReadLines /\ BufferBehind' = BufferBehind BY BehindSame
  <2>3. LinesAhead' = LinesAhead BY <2>2 DEF LinesAhead
  <2>4. Reached' = Reached BY ReachedSame
  <2> QED BY <2>1, <2>2, <2>3, <2>4 DEF IInv, AsSent
<1> QED BY <1>1, <1>2, <1>3, <1>5, <1>6, <1>7 DEF IInv

LEMMA SoundIs ==
  ASSUME IInv
  PROVE  /\ scanning_first_step \in Int /\ scanning_last_step \in Int
         /\ scanning_skip_step \in 0 .. 99
         /\ 0 <= scanning_first_step + front_data_index
         /\ scanning_first_step <= scanning_last_step
         /\ scanning_last_step + front_data_index <= last_data_index
BY IndexAssumption DEF IInv, ParametersSound, OutOfRange

LEMMA ParametersStep == IInv /\ Next => ParametersSound'
<1> SUFFICES ASSUME IInv, Next PROVE ParametersSound' OBVIOUS
<1>0. ParametersSound /\ coming \in Seq(Sound) BY DEF IInv, ParametersSound
<1>1. CASE urg_set_scanning_parameter
  <2>1. PICK a \in Areas : /\ ~OutOfRange(a[1], a[2], a[3])
                           /\ scanning_first_step' = a[1] /\ scanning_last_step' = a[2]
                           /\ scanning_skip_step' = a[3]
    BY <1>1 DEF urg_set_scanning_parameter
  <2>2. a[1] \in Int /\ a[2] \in Int /\ a[3] \in Int
    <3>1. a \in Int \X Int \X Int BY ChoiceAssumption
    <3> QED BY <3>1
  <2>3. ~OutOfRange(scanning_first_step, scanning_last_step, scanning_skip_step)'
    BY <2>1 DEF OutOfRange
  <2> QED BY <1>0, <1>1, <2>1, <2>2, <2>3 DEF urg_set_scanning_parameter, ParametersSound
<1>2. CASE urg_set_measurement_data_size
  BY <1>0, <1>2 DEF urg_set_measurement_data_size, ParametersSound, OutOfRange
<1>3. CASE urg_start_measurement
  <2> DEFINE cmd(t) == [type  |-> t,
                        first |-> scanning_first_step + front_data_index,
                        last  |-> scanning_last_step + front_data_index,
                        skip  |-> scanning_skip_step,
                        byte  |-> IF t = "distance" THEN range_data_byte ELSE 3]
  <2>1. PICK t \in MeasuredTypes, ic \in {0, 1} :
          ignore_checkSumError' = ic /\ coming' = Append(coming, cmd(t))
    BY <1>3 DEF urg_start_measurement
  <2>2. cmd(t) \in Sound
    <3>1. t \in Types BY ChoiceAssumption
    <3>2. range_data_byte \in {2, 3} BY <1>0 DEF ParametersSound
    <3> QED BY <3>1, <3>2, SoundIs, IndexAssumption DEF Sound, Command
  <2>3. coming' \in Seq(Sound)
    <3> HIDE DEF cmd
    <3> QED BY <1>0, <2>1, <2>2
  <2> QED BY <1>0, <1>3, <2>1, <2>3 DEF urg_start_measurement, ParametersSound, OutOfRange
<1>4. CASE urg_stop_measurement
  <2>1. coming' \in Seq(Sound) BY <1>4 DEF urg_stop_measurement
  <2> QED BY <1>0, <1>4, <2>1 DEF urg_stop_measurement, ParametersSound, OutOfRange, parameters
<1>5. CASE Overtaken
  <2>1. coming' = Tail(coming) /\ coming # <<>> BY <1>5 DEF Overtaken
  <2>2. coming' \in Seq(Sound) BY <1>0, <2>1
  <2> QED BY <1>0, <1>5, <2>2 DEF Overtaken, ParametersSound, OutOfRange, parameters
<1>6. CASE receive_data
  BY <1>0, <1>6 DEF receive_data, ParametersSound, OutOfRange, parameters
<1>7. CASE ReadLine \/ Decode
  <2>1. UNCHANGED parameters BY <1>7 DEF ReadLine, Decode
  <2>2. coming' = coming \/ coming' = <<>> BY <1>7, Zenon DEF ReadLine, Decode, Aborts
  <2>3. <<>> \in Seq(Sound) OBVIOUS
  <2>4. coming' \in Seq(Sound) BY <1>0, <2>2, <2>3
  <2> QED BY <1>0, <2>1, <2>4 DEF ParametersSound, OutOfRange, parameters
<1>8. CASE Carry \/ Used \/ Lose \/ Garble
  BY <1>0, <1>8 DEF Carry, Used, Lose, Garble, Fault, ParametersSound, OutOfRange, parameters
<1> QED BY <1>1, <1>2, <1>3, <1>4, <1>5, <1>6, <1>7, <1>8 DEF Next

\* The steps of the application between two calls leave a scan alone.
LEMMA IdleIs ==
  ASSUME IInv, Next, pc = "ready", ~receive_data
  PROVE  UNCHANGED <<pc, lines, scan, got, buffer, step_filled, multiecho_index,
                     length, intensity, lost, garbled, received>>
BY DEF Next, urg_set_scanning_parameter, urg_set_measurement_data_size,
       urg_start_measurement, urg_stop_measurement, Overtaken, Idle, ReadLine, Decode,
       Carry, Used, Lose, Garble, Fault, locals

LEMMA ActionIs ==
  ASSUME Next, pc # "ready"
  PROVE  ReadLine \/ Decode \/ Carry \/ Used \/ Lose \/ Garble
BY DEF Next, urg_set_scanning_parameter, urg_set_measurement_data_size,
       urg_start_measurement, urg_stop_measurement, Overtaken, Idle, receive_data

LEMMA ReceiveIs ==
  ASSUME IInv, receive_data
  PROVE  LET c == Head(coming)  ec == scan'.echoes IN
         /\ c \in Sound /\ c \in Command /\ ec \in Echoes(c)
         /\ scan' = [cmd |-> c, echoes |-> ec, checked |-> ignore_checkSumError' = 0]
         /\ scan'.cmd = c /\ scan'.checked = (ignore_checkSumError' = 0)
         /\ lines' = InLines(Text(c, ec)) /\ Text(c, ec) \in Seq(Int)
<1> DEFINE c == Head(coming)
<1>1. coming # <<>> /\ coming \in Seq(Sound) BY DEF receive_data, IInv, ParametersSound
<1>2. c \in Sound /\ c \in Command
  <2>1. c \in Sound BY <1>1
  <2> QED BY <2>1 DEF Sound
<1>3. PICK ec \in Echoes(c) :
        /\ scan' = [cmd |-> c, echoes |-> ec, checked |-> ignore_checkSumError = 0]
        /\ lines' = InLines(Text(c, ec))
  BY Zenon DEF receive_data, Echoes, MaxEcho
<1>4. ignore_checkSumError' = ignore_checkSumError BY DEF receive_data, parameters
<1>5. Text(c, ec) \in Seq(Int) BY <1>2, PointsJoin
<1> QED BY <1>2, <1>3, <1>4, <1>5

LEMMA ScanStep == IInv /\ Next => ScanSound'
<1> SUFFICES ASSUME IInv, Next PROVE ScanSound' OBVIOUS
<1>0. ScanSound BY DEF IInv
<1>1. CASE receive_data
  <2> DEFINE c == Head(coming)
  <2>1. /\ c \in Sound /\ c \in Command
        /\ scan' = [cmd |-> c, echoes |-> scan'.echoes, checked |-> ignore_checkSumError' = 0]
        /\ scan'.cmd = c /\ scan'.echoes \in Echoes(c)
        /\ scan'.checked = (ignore_checkSumError' = 0)
    BY <1>1, ReceiveIs
  <2>2. received' = [first |-> c.first, last |-> c.last, skip |-> c.skip, byte |-> c.byte]
    BY <1>1 DEF receive_data
  <2>3. received' \in [first : Int, last : Int, skip : Int, byte : {2, 3}]
    BY <2>1, <2>2, CommandIs
  <2> HIDE DEF c
  <2>4. scan' = [cmd |-> scan'.cmd, echoes |-> scan'.echoes, checked |-> scan'.checked]
    BY <2>1, Zenon
  <2> QED BY <2>1, <2>2, <2>3, <2>4 DEF ScanSound
<1>2. CASE pc = "ready" /\ ~receive_data
  BY <1>0, <1>2, IdleIs DEF ScanSound
<1>3. CASE Used
  <2>1. scan' = [cmd |-> scan.cmd, echoes |-> <<>>, checked |-> scan.checked]
    BY <1>0, <1>3 DEF ScanSound, Used
  <2> QED BY <1>0, <1>3, <2>1 DEF ScanSound, Used
<1>4. CASE pc # "ready" /\ ~Used
  <2>1. UNCHANGED <<scan, received, ignore_checkSumError>>
    BY <1>4, ActionIs DEF ReadLine, Decode, Carry, Lose, Garble, Fault, parameters
  <2> QED BY <1>0, <1>4, <2>1 DEF ScanSound
<1> QED BY <1>1, <1>2, <1>3, <1>4

\* In front of a line there is always room for all of it.
LEMMA LineFits ==
  ASSUME IInv, ReadLine
  PROVE  LET line == Head(lines) IN
         /\ lines # <<>> /\ line \in Line /\ line = lines[1] /\ Len(line.chars) \in Nat
         /\ line.chars \in Seq(Int)
         /\ line.chars # <<>> =>
              /\ (~line.sum /\ ignore_checkSumError = 0) => Aborts /\ UNCHANGED buffer
              /\ ~(~line.sum /\ ignore_checkSumError = 0) =>
                   /\ buffer' = buffer \o line.chars /\ lines' = Tail(lines)
                   /\ pc' = "decode" /\ UNCHANGED <<coming, got>>
         /\ line.chars = <<>> => /\ Returns(step_filled) /\ lines' = <<>>
                                 /\ UNCHANGED <<coming, buffer>>
<1> DEFINE line == Head(lines)
           room == BUFFER_SIZE - Len(buffer)
           fits == Len(line.chars) + 1 < room
           n    == IF line.chars = <<>> THEN 0
                   ELSE IF fits THEN Len(line.chars) + 1 ELSE room - 1
<1>1. /\ pc = "line"
      /\ IF n > 0 /\ ~(line.sum /\ fits) /\ ignore_checkSumError = 0
         THEN Aborts /\ UNCHANGED buffer
         ELSE IF n = 0
         THEN Returns(step_filled) /\ lines' = <<>> /\ UNCHANGED <<coming, buffer>>
         ELSE /\ buffer' = buffer \o SubSeq(line.chars, 1, n - 1)
              /\ lines' = IF fits THEN Tail(lines)
                          ELSE [lines EXCEPT ![1].chars = SubSeq(@, n + 1, Len(@))]
              /\ pc' = "decode" /\ UNCHANGED <<coming, got>>
  BY Zenon DEF ReadLine
<1>2. /\ lines \in Seq(Line) /\ lines # <<>>
      /\ \A i \in 1 .. Len(lines) : Len(lines[i].chars) <= LineChars
  BY <1>1 DEF IInv, LinesSound
<1>3. line \in Line /\ line = lines[1] /\ 1 \in 1 .. Len(lines) BY <1>2
<1>4. line.chars \in Seq(Int) /\ line.sum \in BOOLEAN BY <1>3 DEF Line
<1>5. Len(line.chars) \in Nat /\ Len(line.chars) <= LineChars BY <1>2, <1>3, <1>4
<1>6. fits
  <2>1. Len(buffer) + LineChars + 2 <= BUFFER_SIZE BY <1>1, InvLinesFit DEF LinesFit
  <2>2. Len(buffer) \in Nat BY DEF IInv, FilledSound
  <2>3. BUFFER_SIZE \in Nat BY LineAssumption DEF BUFFER_SIZE
  <2> HIDE DEF line
  <2> QED BY <1>5, <2>1, <2>2, <2>3, LineAssumption
<1> HIDE DEF line, fits
<1>7. CASE line.chars # <<>>
  <2>1. n = Len(line.chars) + 1 BY <1>6, <1>7
  <2> HIDE DEF n
  <2>2. n > 0 /\ n # 0 /\ n - 1 = Len(line.chars) BY <1>5, <2>1
  <2>3. SubSeq(line.chars, 1, n - 1) = line.chars
    <3>1. \A s \in Seq(Int) : SubSeq(s, 1, Len(s)) = s OBVIOUS
    <3> QED BY <1>4, <2>2, <3>1
  <2> QED BY <1>1, <1>2, <1>3, <1>4, <1>5, <1>6, <1>7, <2>2, <2>3 DEF line
<1>8. CASE line.chars = <<>>
  <2>1. n = 0 BY <1>8
  <2> HIDE DEF n
  <2> QED BY <1>1, <1>2, <1>3, <1>4, <1>5, <1>8, <2>1 DEF line
<1> QED BY <1>7, <1>8

LEMMA TailIs ==
  ASSUME NEW S, NEW s \in Seq(S), s # <<>>
  PROVE  /\ Tail(s) \in Seq(S) /\ Len(Tail(s)) = Len(s) - 1 /\ Len(s) \in Nat \ {0}
         /\ \A i \in 1 .. Len(s) - 1 : Tail(s)[i] = s[i + 1] /\ i + 1 \in 1 .. Len(s)
  OBVIOUS

\* A character of the line that comes next has become another one.
LEMMA GarbleIs ==
  ASSUME IInv, Garble
  PROVE  /\ lines # <<>> /\ pc = "line" /\ lines' \in Seq(Line) /\ Len(lines') = Len(lines)
         /\ Len(lines) \in Nat \ {0} /\ ~lines'[1].sum /\ Len(lines) # 1
         /\ lines'[1].chars # <<>> /\ Len(lines'[1].chars) = Len(lines[1].chars)
         /\ \A i \in 1 .. Len(lines) : i # 1 => lines'[i] = lines[i]
         /\ garbled' = garbled + 1 /\ garbled \in Nat
         /\ UNCHANGED <<parameters, received, coming, pc, scan, got, locals, lost>>
<1>1. /\ pc = "line" /\ garbled' = garbled + 1
      /\ UNCHANGED <<parameters, received, coming, pc, scan, got, locals, lost>>
  BY DEF Garble, Fault
<1>2. lines \in Seq(Line) /\ lines # <<>> /\ lines[Len(lines)] = EndLine /\ garbled \in Nat
  BY <1>1 DEF IInv, LinesSound, FilledSound
<1>3. PICK i \in DOMAIN Head(lines).chars, ch \in {0, AMPERSAND} :
        lines' = [lines EXCEPT ![1].sum = FALSE, ![1].chars[i] = ch]
  BY DEF Garble
<1>4. Len(lines) \in Nat \ {0} /\ 1 \in DOMAIN lines /\ Head(lines) = lines[1] BY <1>2
<1> DEFINE l == lines[1]
           g == [l EXCEPT !.sum = FALSE, !.chars[i] = ch]
<1>5. l \in Line /\ l = [chars |-> l.chars, sum |-> l.sum] /\ l.chars \in Seq(Int)
  <2>1. l \in Line BY <1>2, <1>4, ElementOfSeq
  <2> QED BY <2>1 DEF Line
<1>6. i \in 1 .. Len(l.chars) BY <1>3, <1>4, <1>5
<1>7. lines' = [lines EXCEPT ![1] = g] BY <1>3, <1>4
<1>8. g.sum = FALSE /\ g.chars = [l.chars EXCEPT ![i] = ch] BY <1>5
<1> HIDE DEF l
<1>9. [l.chars EXCEPT ![i] = ch] \in Seq(Int)
      /\ Len([l.chars EXCEPT ![i] = ch]) = Len(l.chars)
  <2>1. ch \in Int BY DEF AMPERSAND
  <2>2. \A s \in Seq(Int) : \A x \in Int : \A j \in 1 .. Len(s) :
          [s EXCEPT ![j] = x] \in Seq(Int) /\ Len([s EXCEPT ![j] = x]) = Len(s)
    OBVIOUS
  <2> QED BY <1>5, <1>6, <2>1, <2>2
<1>10. g \in Line BY <1>5, <1>9 DEF Line
<1> HIDE DEF g
<1>11. lines' \in Seq(Line) /\ Len(lines') = Len(lines) /\ lines'[1] = g
       /\ \A j \in 1 .. Len(lines) : j # 1 => lines'[j] = lines[j]
  BY <1>2, <1>4, <1>7, <1>10
<1>12. Len(l.chars) \in Nat /\ Len(l.chars) # 0 /\ g.chars # <<>> BY <1>5, <1>6, <1>8, <1>9
<1>13. Len(lines) # 1
  <2>1. ASSUME Len(lines) = 1 PROVE FALSE
    <3>1. l = EndLine BY <1>2, <2>1 DEF l
    <3> QED BY <1>12, <3>1 DEF EndLine
  <2> QED BY <2>1
<1> QED BY <1>1, <1>2, <1>4, <1>8, <1>9, <1>11, <1>12, <1>13 DEF l

LEMMA LinesStep == IInv /\ Next => LinesSound'
<1> SUFFICES ASSUME IInv, Next PROVE LinesSound' OBVIOUS
<1>0. LinesSound BY DEF IInv
<1>e. <<>> \in Seq(Line) OBVIOUS
<1>1. CASE receive_data
  <2> DEFINE text == Text(Head(coming), scan'.echoes)
  <2>1. lines' = InLines(text) /\ text \in Seq(Int) BY <1>1, ReceiveIs
  <2> HIDE DEF text
  <2> DEFINE n == LineCount(text)
  <2>2. /\ lines' \in Seq(Line) /\ Len(lines') = n + 1 /\ lines'[n + 1] = EndLine /\ n \in Nat
        /\ \A i \in 1 .. n : /\ lines'[i].chars \in Seq(Int)
                             /\ Len(lines'[i].chars) \in 1 .. LineChars
    BY <2>1, LinesAre
  <2> HIDE DEF n
  <2>3. EndLine.chars = <<>> /\ Len(<<>>) = 0 BY DEF EndLine
  <2>4. \A i \in 1 .. Len(lines') : i \in 1 .. n \/ i = n + 1 BY <2>2
  <2>5. \A i \in 1 .. n : lines'[i].chars # <<>> BY <2>2, <2>3
  <2>6. \A i \in 1 .. Len(lines') : Len(lines'[i].chars) <= LineChars
    BY <2>2, <2>3, <2>4, LineAssumption
  <2>7. \A i \in 1 .. Len(lines') : lines'[i].chars = <<>> => i = Len(lines')
    BY <2>2, <2>4, <2>5
  <2>8. lines' # <<>> BY <2>2
  <2>9. pc' = "line" BY <1>1 DEF receive_data
  <2> QED BY <2>2, <2>6, <2>7, <2>8, <2>9 DEF LinesSound
<1>2. CASE pc = "ready" /\ ~receive_data
  BY <1>0, <1>2, IdleIs DEF LinesSound
<1>3. ASSUME pc \in {"line", "decode"}, Head(lines) # EndLine \/ Head(lines).chars # <<>>,
             lines' = Tail(lines), pc' \in {"line", "decode"}
      PROVE  LinesSound'
  <2>1. /\ lines \in Seq(Line) /\ lines # <<>> /\ lines[Len(lines)] = EndLine
        /\ \A i \in 1 .. Len(lines) : Len(lines[i].chars) <= LineChars
        /\ \A i \in 1 .. Len(lines) : lines[i].chars = <<>> => i = Len(lines)
    BY <1>0, <1>3 DEF LinesSound
  <2>2. /\ lines' \in Seq(Line) /\ Len(lines') = Len(lines) - 1 /\ Len(lines) \in Nat \ {0}
        /\ \A i \in 1 .. Len(lines) - 1 : lines'[i] = lines[i + 1] /\ i + 1 \in 1 .. Len(lines)
    BY <1>3, <2>1, TailIs
  <2>3. Head(lines) = lines[1] BY <2>1
  <2>4. EndLine.chars = <<>> BY DEF EndLine
  <2>5. Len(lines) # 1 BY <1>3, <2>1, <2>3, <2>4
  <2> DEFINE n == Len(lines) - 1
  <2>6. n \in Nat \ {0} /\ Len(lines) = n + 1 BY <2>2, <2>5
  <2> HIDE DEF n
  <2>7. n \in 1 .. n /\ \A i \in 1 .. n : lines'[i] = lines[i + 1] /\ i + 1 \in 1 .. Len(lines)
    BY <2>2, <2>6 DEF n
  <2>8. lines'[n] = EndLine BY <2>1, <2>6, <2>7
  <2>9. \A i \in 1 .. n : Len(lines'[i].chars) <= LineChars BY <2>1, <2>7
  <2>10. \A i \in 1 .. n : lines'[i].chars = <<>> => i = n BY <2>1, <2>6, <2>7
  <2>11. lines' # <<>> /\ Len(lines') = n BY <2>2, <2>6 DEF n
  <2>12. lines' \in Seq(Line) BY <2>2
  <2> QED BY <1>3, <2>8, <2>9, <2>10, <2>11, <2>12 DEF LinesSound
<1>4. CASE ReadLine
  <2> DEFINE line == Head(lines)
  <2>1. pc = "line" BY <1>4 DEF ReadLine
  <2>2. CASE line.chars = <<>> \/ (~line.sum /\ ignore_checkSumError = 0)
    <3>1. lines' = <<>> /\ pc' = "returned" BY <1>4, <2>2, LineFits DEF Returns, Aborts
    <3> QED BY <1>e, <3>1 DEF LinesSound
  <2>3. CASE line.chars # <<>> /\ ~(~line.sum /\ ignore_checkSumError = 0)
    <3>1. lines' = Tail(lines) /\ pc' = "decode" BY <1>4, <2>3, LineFits
    <3> QED BY <1>3, <2>1, <2>3, <3>1
  <2> QED BY <2>2, <2>3
<1>5. CASE Decode
  <2>1. (lines' = <<>> /\ pc' = "returned") \/ UNCHANGED <<lines, pc>>
    BY <1>5, Zenon DEF Decode, Aborts, Returns
  <2> QED BY <1>0, <1>e, <2>1 DEF LinesSound
<1>6. CASE Carry \/ Used
  BY <1>0, <1>6 DEF Carry, Used, LinesSound
<1>7. CASE Lose
  BY <1>3, <1>7 DEF Lose, Fault
<1>8. CASE Garble
  <2>1. /\ pc = "line" /\ pc' = pc /\ lines' \in Seq(Line) /\ Len(lines') = Len(lines)
        /\ Len(lines) \in Nat \ {0} /\ Len(lines) # 1
        /\ lines'[1].chars # <<>> /\ Len(lines'[1].chars) = Len(lines[1].chars)
        /\ \A i \in 1 .. Len(lines) : i # 1 => lines'[i] = lines[i]
    BY <1>8, GarbleIs
  <2>2. /\ lines[Len(lines)] = EndLine
        /\ \A i \in 1 .. Len(lines) : Len(lines[i].chars) <= LineChars
        /\ \A i \in 1 .. Len(lines) : lines[i].chars = <<>> => i = Len(lines)
    BY <1>0, <2>1 DEF LinesSound
  <2> DEFINE n == Len(lines)
  <2>3. n \in Nat \ {0} /\ n \in 1 .. n /\ n # 1 BY <2>1
  <2>4. lines'[n] = EndLine BY <2>1, <2>2, <2>3
  <2> HIDE DEF n
  <2>5. \A i \in 1 .. n : Len(lines'[i].chars) <= LineChars
    BY <2>1, <2>2 DEF n
  <2>6. \A i \in 1 .. n : lines'[i].chars = <<>> => i = n BY <2>1, <2>2 DEF n
  <2>7. lines' # <<>> BY <2>1
  <2> QED BY <2>1, <2>4, <2>5, <2>6, <2>7 DEF LinesSound, n
<1> QED BY <1>1, <1>2, <1>4, <1>5, <1>6, <1>7, <1>8, ActionIs

\* What one turn of the inner loop takes from the buffer, and where it puts it.
DecodeText  == IF Marked THEN Tail(buffer) ELSE buffer
DecodeStep  == IF Marked THEN step_filled - 1 ELSE step_filled
DecodeEcho  == IF Marked THEN multiecho_index + 1 ELSE 0
DecodeIndex == DecodeStep * multiecho_max_size + DecodeEcho

LEMMA DecodeIs ==
  ASSUME IInv, Decode
  PROVE  /\ pc = "decode" /\ Complete /\ multiecho_index' = DecodeEcho
         /\ DecodeEcho \in Nat /\ DecodeStep \in -1 .. step_filled
         /\ Len(buffer) \in Nat /\ Len(buffer) >= data_size
         /\ Marked => Len(buffer) - 1 >= data_size /\ Len(buffer) >= 1 /\ buffer[1] = AMPERSAND
         /\ ~Marked => buffer[1] # AMPERSAND
         /\ DecodeText \in Seq(Int)
         /\ Len(DecodeText) = IF Marked THEN Len(buffer) - 1 ELSE Len(buffer)
         /\ \A j \in 1 .. Len(DecodeText) :
              DecodeText[j] = IF Marked THEN buffer[j + 1] ELSE buffer[j]
         /\ UNCHANGED <<parameters, received, scan, lost, garbled>>
         /\ DecodeStep > received.last - received.first
            => Aborts /\ UNCHANGED <<buffer, step_filled, length, intensity>>
         /\ ~(DecodeStep > received.last - received.first)
            => /\ buffer' \in Seq(Int) /\ Len(buffer') = Len(DecodeText) - data_size
               /\ \A j \in 1 .. Len(buffer') : buffer'[j] = DecodeText[data_size + j]
               /\ step_filled' = DecodeStep + 1
               /\ length' = Stored(length, Cells(DecodeIndex, DecodeEcho,
                              Decoded(SubSeq(DecodeText, 1, each_size))))
               /\ intensity' = IF scan.cmd.type \notin Intensities THEN intensity
                    ELSE Stored(intensity, Cells(DecodeIndex, DecodeEcho,
                           UShort(Decoded(SubSeq(DecodeText, each_size + 1, data_size)))))
               /\ UNCHANGED <<pc, got, coming, lines>>
<1>1. /\ pc = "decode" /\ Complete /\ multiecho_index' = DecodeEcho
      /\ IF DecodeStep > received.last - received.first
         THEN Aborts /\ UNCHANGED <<buffer, step_filled, length, intensity>>
         ELSE /\ buffer' = SubSeq(DecodeText, data_size + 1, Len(DecodeText))
              /\ step_filled' = DecodeStep + 1
              /\ length' = Stored(length, Cells(DecodeIndex, DecodeEcho,
                             Decoded(SubSeq(DecodeText, 1, each_size))))
              /\ intensity' = IF scan.cmd.type \notin Intensities THEN intensity
                   ELSE Stored(intensity, Cells(DecodeIndex, DecodeEcho,
                          UShort(Decoded(SubSeq(DecodeText, each_size + 1, data_size)))))
              /\ UNCHANGED <<pc, got, coming, lines>>
      /\ UNCHANGED <<parameters, received, scan, lost, garbled>>
  BY Zenon DEF Decode, DecodeText, DecodeStep, DecodeEcho, DecodeIndex
<1>2. buffer \in Seq(Int) /\ step_filled \in Nat /\ multiecho_index \in Nat
  BY DEF IInv, FilledSound
<1>3. data_size \in 2 .. 6 BY Shapes
<1>4. Len(buffer) \in Nat /\ Len(buffer) >= data_size /\ (Marked => Len(buffer) - 1 >= data_size)
  BY <1>1, <1>2 DEF Complete
<1>5. buffer # <<>> /\ Len(buffer) >= 1
  <2>1. Len(buffer) >= 1 BY <1>3, <1>4
  <2> QED BY <1>2, <2>1
<1>6. Marked <=> buffer[1] = AMPERSAND BY <1>2, <1>5 DEF Marked
<1>7. DecodeEcho \in Nat /\ DecodeStep \in -1 .. step_filled
  BY <1>2 DEF DecodeEcho, DecodeStep
<1>8. /\ DecodeText \in Seq(Int)
      /\ Len(DecodeText) = IF Marked THEN Len(buffer) - 1 ELSE Len(buffer)
      /\ \A j \in 1 .. Len(DecodeText) :
              DecodeText[j] = IF Marked THEN buffer[j + 1] ELSE buffer[j]
  <2>1. CASE Marked
    <3>1. DecodeText = Tail(buffer) BY <2>1 DEF DecodeText
    <3> QED BY <1>2, <1>5, <2>1, <3>1, TailIs
  <2>2. CASE ~Marked
    <3>1. DecodeText = buffer BY <2>2 DEF DecodeText
    <3> QED BY <1>2, <2>2, <3>1
  <2> QED BY <2>1, <2>2
<1>9. Len(DecodeText) \in Nat /\ data_size \in Nat /\ data_size <= Len(DecodeText)
  BY <1>3, <1>4, <1>8
<1> DEFINE rest == SubSeq(DecodeText, data_size + 1, Len(DecodeText))
<1>10. /\ rest \in Seq(Int) /\ Len(rest) = Len(DecodeText) - data_size
       /\ \A j \in 1 .. Len(rest) : rest[j] = DecodeText[data_size + j]
  BY <1>8, <1>9, SubSeqIs
<1>11. ~(DecodeStep > received.last - received.first) =>
         /\ buffer' = rest /\ step_filled' = DecodeStep + 1
         /\ length' = Stored(length, Cells(DecodeIndex, DecodeEcho,
                             Decoded(SubSeq(DecodeText, 1, each_size))))
         /\ intensity' = IF scan.cmd.type \notin Intensities THEN intensity
                   ELSE Stored(intensity, Cells(DecodeIndex, DecodeEcho,
                          UShort(Decoded(SubSeq(DecodeText, each_size + 1, data_size)))))
         /\ UNCHANGED <<pc, got, coming, lines>>
  BY <1>1, Zenon
<1> HIDE DEF rest
<1> QED BY <1>1, <1>4, <1>5, <1>6, <1>7, <1>8, <1>10, <1>11, Zenon

LEMMA FilledStep == IInv /\ Next => FilledSound'
<1> SUFFICES ASSUME IInv, Next PROVE FilledSound' OBVIOUS
<1>0. FilledSound BY DEF IInv
<1> DEFINE d == scan.cmd.last - scan.cmd.first
<1>d. d \in Nat
  <2>1. d \in 0 .. last_data_index BY Shapes
  <2> HIDE DEF d
  <2> QED BY <2>1
<1>1. CASE receive_data
  <2> DEFINE c == Head(coming)
  <2>1. c \in Sound /\ c \in Command /\ scan'.cmd = c BY <1>1, ReceiveIs
  <2>2. /\ received' = [first |-> c.first, last |-> c.last, skip |-> c.skip, byte |-> c.byte]
        /\ pc' = "line" /\ got' = 0 /\ buffer' = <<>> /\ step_filled' = 0
        /\ multiecho_index' = 0 /\ lost' = 0 /\ garbled' = 0
    BY <1>1 DEF receive_data
  <2>3. c.last - c.first \in Nat /\ c.byte \in {2, 3} BY <2>1, CommandIs DEF Sound
  <2> HIDE DEF c
  <2>4. data_size' >= 2 BY <2>1, <2>2, <2>3 DEF data_size, each_size
  <2>5. data_size' \in Nat BY <2>1, <2>2, <2>3 DEF data_size, each_size
  <2>6. ~Complete'
    <3>1. Len(buffer') = 0 BY <2>2
    <3>2. Complete' => Len(buffer') >= data_size' BY DEF Complete
    <3> QED BY <2>4, <2>5, <3>1, <3>2
  <2> DEFINE x == c.last - c.first
  <2>7. x \in Nat /\ (scan'.cmd).last - (scan'.cmd).first = x BY <2>1, <2>3
  <2> HIDE DEF x
  <2>8. 0 <= x + 1 BY <2>7
  <2>9. buffer' \in Seq(Int) BY <2>2
  <2> QED BY <2>2, <2>6, <2>7, <2>8, <2>9 DEF FilledSound
<1>2. CASE pc = "ready" /\ ~receive_data
  BY <1>0, <1>2, IdleIs DEF FilledSound
<1>3. CASE ReadLine
  <2>1. /\ pc = "line"
        /\ UNCHANGED <<parameters, received, scan, step_filled, multiecho_index,
                       length, intensity, lost, garbled>>
    BY <1>3 DEF ReadLine
  <2>2. step_filled <= d + 1 /\ step_filled \in Nat /\ got <= d + 1 /\ got \in Int
    BY <1>0, <2>1 DEF FilledSound
  <2>3. /\ pc' \in {"decode", "returned"}
        /\ got' = -1 \/ got' = got \/ got' = step_filled
        /\ buffer' = buffer \/ buffer' = buffer \o Head(lines).chars
        /\ Head(lines).chars \in Seq(Int)
    BY <1>3, LineFits DEF Returns, Aborts
  <2>4. buffer' \in Seq(Int)
    <3>1. \A s, t \in Seq(Int) : s \o t \in Seq(Int) OBVIOUS
    <3>2. buffer \in Seq(Int) BY <1>0 DEF FilledSound
    <3> QED BY <2>3, <3>1, <3>2, Zenon
  <2>5. got' \in Int /\ got' <= d + 1
    <3> HIDE DEF d
    <3> QED BY <1>d, <2>2, <2>3
  <2> QED BY <1>0, <2>1, <2>2, <2>3, <2>4, <2>5 DEF FilledSound
<1>4. CASE Decode
  <2>1. /\ pc = "decode" /\ multiecho_index' = DecodeEcho /\ DecodeEcho \in Nat
        /\ DecodeStep \in -1 .. step_filled
        /\ UNCHANGED <<scan, lost, garbled>>
        /\ DecodeStep > received.last - received.first
            => Aborts /\ UNCHANGED <<buffer, step_filled>>
        /\ ~(DecodeStep > received.last - received.first)
            => buffer' \in Seq(Int) /\ step_filled' = DecodeStep + 1 /\ UNCHANGED <<pc, got>>
    BY <1>4, DecodeIs
  <2>2. step_filled <= d + 1 /\ step_filled \in Nat /\ got <= d + 1 /\ got \in Int
    BY <1>0, <2>1 DEF FilledSound
  <2>3. received.last - received.first = d BY <2>1 DEF IInv, ScanSound
  <2>4. CASE DecodeStep > d
    <3>1. Returns(-1) /\ UNCHANGED <<buffer, step_filled>> BY <2>1, <2>3, <2>4 DEF Aborts
    <3>2. -1 <= d + 1
      <4> HIDE DEF d
      <4> QED BY <1>d
    <3> QED BY <1>0, <2>1, <2>2, <3>1, <3>2 DEF FilledSound, Returns
  <2>5. CASE ~(DecodeStep > d)
    <3>1. buffer' \in Seq(Int) /\ step_filled' = DecodeStep + 1 /\ UNCHANGED <<pc, got>>
      BY <2>1, <2>3, <2>5
    <3>2. DecodeStep + 1 \in Nat /\ DecodeStep + 1 <= d + 1
      <4> HIDE DEF d
      <4> QED BY <1>d, <2>1, <2>2, <2>5
    <3> QED BY <1>0, <2>1, <2>2, <3>1, <3>2 DEF FilledSound
  <2> QED BY <2>4, <2>5
<1>5. CASE Carry \/ Lose \/ Garble
  <2>1. /\ pc \in {"line", "decode"} /\ pc' = "line" /\ ~Complete
        /\ UNCHANGED <<received, scan, got, buffer, step_filled, multiecho_index,
                       length, intensity>>
    BY <1>0, <1>5 DEF Carry, Lose, Garble, Fault, FilledSound, locals
  <2>2. lost' \in Nat /\ garbled' \in Nat
    BY <1>0, <1>5 DEF Carry, Lose, Garble, Fault, FilledSound
  <2>3. Complete' = Complete BY <2>1 DEF Complete, Marked, data_size, each_size
  <2> QED BY <1>0, <2>1, <2>2, <2>3 DEF FilledSound
<1>6. CASE Used
  <2>1. /\ pc' = "ready" /\ got' = got /\ scan'.cmd = scan.cmd /\ buffer' = <<>>
        /\ step_filled' = 0 /\ multiecho_index' = 0 /\ length' = <<>> /\ intensity' = <<>>
        /\ garbled' = 0 /\ lost' = lost
    BY <1>6 DEF Used, IInv, ScanSound
  <2> QED BY <1>0, <2>1 DEF FilledSound
<1> QED BY <1>1, <1>2, <1>3, <1>4, <1>5, <1>6, ActionIs

LEMMA ConcatUnmarked ==
  ASSUME NEW s \in Seq(Int), NEW t \in Seq(Int),
         \A i \in 1 .. Len(s) : s[i] >= 0, \A i \in 1 .. Len(t) : t[i] >= 0
  PROVE  \A i \in 1 .. Len(s \o t) : (s \o t)[i] >= 0
<1>1. Len(s) \in Nat /\ Len(t) \in Nat OBVIOUS
<1>2. /\ Len(s \o t) = Len(s) + Len(t)
      /\ \A i \in 1 .. Len(s) + Len(t) : (s \o t)[i] = IF i <= Len(s) THEN s[i] ELSE t[i - Len(s)]
  BY ConcatProperties
<1> SUFFICES ASSUME NEW i \in 1 .. Len(s) + Len(t) PROVE (s \o t)[i] >= 0 BY <1>2
<1>3. CASE i <= Len(s)
  <2>1. i \in 1 .. Len(s) BY <1>1, <1>3
  <2> QED BY <1>2, <1>3, <2>1
<1>4. CASE ~(i <= Len(s))
  <2>1. i - Len(s) \in 1 .. Len(t) BY <1>1, <1>4
  <2> QED BY <1>2, <1>4, <2>1
<1> QED BY <1>3, <1>4

LEMMA UnmarkedStep == IInv /\ Next => Unmarked'
<1> SUFFICES ASSUME IInv, Next, pc' # "ready", garbled' = 0, ~is_multiecho'
             PROVE  /\ \A j \in 1 .. Len(buffer') : buffer'[j] >= 0
                    /\ \A i \in 1 .. Len(lines') :
                         \A j \in 1 .. Len(lines'[i].chars) : lines'[i].chars[j] >= 0
                    /\ DOMAIN length' \subseteq 0 .. step_filled' - 1
                    /\ DOMAIN intensity' \subseteq 0 .. step_filled' - 1
  BY DEF Unmarked
<1>e. Len(<<>>) = 0 /\ DOMAIN <<>> = {} OBVIOUS
<1>1. CASE receive_data
  <2> DEFINE c == Head(coming)  ec == scan'.echoes  text == Text(c, ec)
  <2>1. c \in Sound /\ scan'.cmd = c /\ ec \in Echoes(c) /\ lines' = InLines(text)
        /\ text \in Seq(Int)
    BY <1>1, ReceiveIs
  <2>2. buffer' = <<>> /\ length' = <<>> /\ intensity' = <<>> BY <1>1 DEF receive_data
  <2>3. c.type \notin Multiechoes BY <2>1 DEF is_multiecho
  <2>4. \A i \in 1 .. Len(text) : text[i] >= 0 BY <2>1, <2>3, TextUnmarked
  <2> HIDE DEF text
  <2> DEFINE n == LineCount(text)
  <2>5. /\ Len(lines') = n + 1 /\ lines'[n + 1] = EndLine /\ n \in Nat /\ Len(text) \in Nat
        /\ \A k \in 0 .. n : End(text, k) \in 0 .. Len(text)
        /\ \A i \in 1 .. n : LET line == lines'[i] IN
             /\ line.chars \in Seq(Int)
             /\ End(text, i - 1) + Len(line.chars) = End(text, i)
             /\ \A j \in 1 .. Len(line.chars) : line.chars[j] = text[End(text, i - 1) + j]
    BY <2>1, LinesAre
  <2> HIDE DEF n
  <2>6. ASSUME NEW i \in 1 .. n, NEW j \in 1 .. Len(lines'[i].chars)
        PROVE  lines'[i].chars[j] >= 0
    <3> DEFINE a == End(text, i - 1)  b == End(text, i)  l == Len(lines'[i].chars)
    <3>1. i - 1 \in 0 .. n /\ i \in 0 .. n BY <2>5
    <3>2. /\ a \in 0 .. Len(text) /\ b \in 0 .. Len(text) /\ a + l = b
          /\ lines'[i].chars[j] = text[a + j] /\ lines'[i].chars \in Seq(Int)
      BY <2>5, <3>1
    <3>3. l \in Nat BY <3>2
    <3> HIDE DEF a, b, l
    <3>4. j \in 1 .. l BY DEF l
    <3>5. a + j \in 1 .. Len(text) BY <2>5, <3>2, <3>3, <3>4
    <3> QED BY <2>4, <3>2, <3>5
  <2>7. \A i \in 1 .. Len(lines') : i \in 1 .. n \/ i = n + 1 BY <2>5
  <2>8. Len(lines'[n + 1].chars) = 0 BY <1>e, <2>5 DEF EndLine
  <2>9. \A i \in 1 .. Len(lines') :
          \A j \in 1 .. Len(lines'[i].chars) : lines'[i].chars[j] >= 0
    BY <2>6, <2>7, <2>8
  <2> QED BY <1>e, <2>2, <2>9
<1>2. CASE pc = "ready" /\ ~receive_data
  BY <1>2, IdleIs
<1> DEFINE Was == /\ garbled = 0 /\ ~is_multiecho
                  /\ \A j \in 1 .. Len(buffer) : buffer[j] >= 0
                  /\ \A i \in 1 .. Len(lines) :
                       \A j \in 1 .. Len(lines[i].chars) : lines[i].chars[j] >= 0
                  /\ DOMAIN length \subseteq 0 .. step_filled - 1
                  /\ DOMAIN intensity \subseteq 0 .. step_filled - 1
<1>3. ASSUME pc # "ready", scan' = scan, garbled' = garbled PROVE Was
  <2>1. garbled = 0 /\ ~is_multiecho BY <1>3 DEF is_multiecho
  <2> QED BY <1>3, <2>1 DEF IInv, Unmarked
<1>4. lines \in Seq(Line) /\ buffer \in Seq(Int) /\ step_filled \in Nat
  BY DEF IInv, LinesSound, FilledSound
<1>5. ASSUME lines # <<>>, lines' = Tail(lines), Was
      PROVE  \A i \in 1 .. Len(lines') :
               \A j \in 1 .. Len(lines'[i].chars) : lines'[i].chars[j] >= 0
  <2>1. /\ Len(lines') = Len(lines) - 1
        /\ \A i \in 1 .. Len(lines) - 1 : lines'[i] = lines[i + 1] /\ i + 1 \in 1 .. Len(lines)
    BY <1>4, <1>5, TailIs
  <2> QED BY <1>5, <2>1
<1>6. CASE ReadLine
  <2> DEFINE line == Head(lines)
  <2>1. /\ pc = "line"
        /\ UNCHANGED <<scan, step_filled, length, intensity, garbled>>
    BY <1>6 DEF ReadLine
  <2>2. Was BY <1>3, <2>1
  <2>3. CASE lines' = <<>> /\ buffer' = buffer
    BY <1>e, <2>1, <2>2, <2>3
  <2>4. CASE lines' = Tail(lines) /\ buffer' = buffer \o line.chars
    <3>1. lines # <<>> /\ line = lines[1] /\ line.chars \in Seq(Int) BY <1>6, LineFits
    <3>2. 1 \in 1 .. Len(lines) BY <1>4, <3>1
    <3>3. \A j \in 1 .. Len(line.chars) : line.chars[j] >= 0 BY <2>2, <3>1, <3>2
    <3> HIDE DEF line
    <3>4. \A j \in 1 .. Len(buffer') : buffer'[j] >= 0
      BY <1>4, <2>2, <2>4, <3>1, <3>3, ConcatUnmarked
    <3> QED BY <1>5, <2>1, <2>2, <2>4, <3>1, <3>4
  <2>5. \/ lines' = <<>> /\ buffer' = buffer
        \/ lines' = Tail(lines) /\ buffer' = buffer \o line.chars
    BY <1>6, LineFits DEF Aborts
  <2> QED BY <2>3, <2>4, <2>5
<1>7. CASE Decode
  <2>1. /\ pc = "decode" /\ multiecho_index' = DecodeEcho
        /\ Len(buffer) \in Nat /\ Len(buffer) >= data_size
        /\ Marked => Len(buffer) >= 1 /\ buffer[1] = AMPERSAND
        /\ Len(DecodeText) = IF Marked THEN Len(buffer) - 1 ELSE Len(buffer)
        /\ \A j \in 1 .. Len(DecodeText) :
             DecodeText[j] = IF Marked THEN buffer[j + 1] ELSE buffer[j]
        /\ UNCHANGED <<scan, garbled>>
        /\ DecodeStep > received.last - received.first
            => Aborts /\ UNCHANGED <<buffer, step_filled, length, intensity>>
        /\ ~(DecodeStep > received.last - received.first)
            => /\ Len(buffer') = Len(DecodeText) - data_size
               /\ \A j \in 1 .. Len(buffer') : buffer'[j] = DecodeText[data_size + j]
               /\ step_filled' = DecodeStep + 1
               /\ length' = Stored(length, Cells(DecodeIndex, DecodeEcho,
                              Decoded(SubSeq(DecodeText, 1, each_size))))
               /\ intensity' = IF scan.cmd.type \notin Intensities THEN intensity
                    ELSE Stored(intensity, Cells(DecodeIndex, DecodeEcho,
                           UShort(Decoded(SubSeq(DecodeText, each_size + 1, data_size)))))
               /\ UNCHANGED lines
    BY <1>7, DecodeIs, Zenon
  <2>2. Was BY <1>3, <2>1
  <2>3. ~Marked
    <3>1. ASSUME Marked PROVE FALSE
      <4>1. 1 \in 1 .. Len(buffer) /\ buffer[1] = AMPERSAND BY <2>1, <3>1
      <4>2. buffer[1] >= 0 BY <2>2, <4>1
      <4> QED BY <4>1, <4>2 DEF AMPERSAND
    <3> QED BY <3>1
  <2>4. DecodeStep = step_filled /\ DecodeEcho = 0 /\ multiecho_max_size = 1
    BY <2>2, <2>3 DEF DecodeStep, DecodeEcho, multiecho_max_size
  <2>5. DecodeIndex = step_filled BY <1>4, <2>4 DEF DecodeIndex
  <2>6. CASE DecodeStep > received.last - received.first
    BY <1>e, <2>1, <2>2, <2>6 DEF Aborts
  <2>7. CASE ~(DecodeStep > received.last - received.first)
    <3>1. data_size \in 2 .. 6 BY Shapes
    <3>2. \A j \in 1 .. Len(buffer') :
            data_size + j \in 1 .. Len(buffer) /\ buffer'[j] = buffer[data_size + j]
      BY <2>1, <2>3, <2>7, <3>1
    <3>3. \A j \in 1 .. Len(buffer') : buffer'[j] >= 0 BY <2>2, <3>2
    <3>4. \A x : DOMAIN Cells(DecodeIndex, DecodeEcho, x) = {step_filled}
      BY <2>2, <2>5 DEF Cells
    <3>5. \A a, x : DOMAIN Stored(a, Cells(DecodeIndex, DecodeEcho, x))
                      = DOMAIN a \cup {step_filled}
      BY <3>4 DEF Stored
    <3>6. /\ DOMAIN length' = DOMAIN length \cup {step_filled}
          /\ \/ DOMAIN intensity' = DOMAIN intensity
             \/ DOMAIN intensity' = DOMAIN intensity \cup {step_filled}
      BY <2>1, <2>7, <3>5
    <3>7. step_filled' = step_filled + 1 BY <2>1, <2>4, <2>7
    <3>8. /\ 0 .. step_filled - 1 \subseteq 0 .. step_filled' - 1
          /\ step_filled \in 0 .. step_filled' - 1
      BY <1>4, <3>7
    <3>9. UNCHANGED lines BY <2>1, <2>7
    <3> QED BY <2>2, <3>3, <3>6, <3>8, <3>9
  <2> QED BY <2>6, <2>7
<1>8. CASE Carry
  <2>1. /\ pc = "decode"
        /\ UNCHANGED <<scan, lines, buffer, step_filled, length, intensity, garbled>>
    BY <1>8 DEF Carry, locals
  <2> QED BY <1>3, <2>1
<1>9. CASE Used
  BY <1>9 DEF Used
<1>10. CASE Lose
  <2>1. /\ pc = "line" /\ lines' = Tail(lines) /\ lines # <<>>
        /\ UNCHANGED <<scan, buffer, step_filled, length, intensity, garbled>>
    BY <1>10 DEF Lose, Fault, locals, IInv, LinesSound
  <2> QED BY <1>3, <1>5, <2>1
<1>11. CASE Garble
  <2>1. garbled' = garbled + 1 /\ garbled \in Nat BY <1>11, GarbleIs
  <2> QED BY <2>1
<1> QED BY <1>1, <1>2, <1>6, <1>7, <1>8, <1>9, <1>10, <1>11, ActionIs

\* What is known of a scan as it was sent.
LEMMA ExactIs ==
  ASSUME IInv, pc \in {"line", "decode"}, Exact
  PROVE  LET c == scan.cmd  ec == scan.echoes  text == Text(c, ec)
             p == step_filled  m == multiecho_index  at == Place(c, ec, p, m)
         IN
         /\ c \in Sound /\ c \in Command /\ ec \in Echoes(c)
         /\ text \in Seq(Int) /\ at \in 0 .. Len(text) /\ Len(text) \in Nat
         /\ p \in 0 .. LastPoint(c) + 1 /\ p \in Nat /\ m \in 0 .. 2 /\ LastPoint(c) \in Nat
         /\ p > 0 => m + 1 <= ec[p - 1] /\ p - 1 \in 0 .. LastPoint(c)
         /\ \A q \in 0 .. LastPoint(c) : ec[q] \in 1 .. MaxEcho(c) /\ ec[q] \in 1 .. 3
         /\ Reached /\ LinesAhead /\ BufferBehind
         /\ at + Len(buffer) \in 0 .. Len(text) /\ Len(buffer) \in Nat
<1> DEFINE c == scan.cmd  ec == scan.echoes  text == Text(c, ec)
           p == step_filled  m == multiecho_index  at == Place(c, ec, p, m)
<1>1. c \in Sound /\ c \in Command /\ ec \in Echoes(c) BY Shapes DEF IInv, ScanSound
<1>2. Reached /\ LinesAhead /\ BufferBehind BY DEF IInv, AsSent
<1>3. LastPoint(c) \in Nat BY <1>1, CommandIs, LastPointIs DEF Sound
<1>4. p \in Nat /\ Len(buffer) \in Nat BY DEF IInv, FilledSound
<1>5. p <= LastPoint(c) + 1 /\ m \in 0 .. 2 /\ (p > 0 => m + 1 <= ec[p - 1])
  BY <1>2 DEF Reached
<1>6. p \in 0 .. LastPoint(c) + 1 /\ (p > 0 => p - 1 \in 0 .. LastPoint(c))
  BY <1>3, <1>4, <1>5
<1>7. \A q \in 0 .. LastPoint(c) : ec[q] \in 1 .. MaxEcho(c) /\ ec[q] \in 1 .. 3
  BY <1>1, PointsParts
<1>8. text \in Seq(Int) /\ at \in 0 .. Len(text) /\ Len(text) \in Nat
  BY <1>1, <1>5, <1>6, NextReading
<1>9. at + Len(buffer) \in 0 .. Len(text)
  <2>1. at + Len(buffer) = End(text, ReadLines) /\ ReadLines \in 0 .. LineCount(text)
    BY <1>2 DEF BufferBehind, LinesAhead
  <2> HIDE DEF text, at
  <2>2. End(text, ReadLines) \in 0 .. Len(text) BY <1>8, <2>1, LinesAre
  <2> QED BY <2>1, <2>2
<1> QED BY <1>1, <1>2, <1>3, <1>4, <1>5, <1>6, <1>7, <1>8, <1>9

\* A whole value in the buffer is the next reading of the text; nothing is left over at
\* the end of the text.
LEMMA WholeReading ==
  ASSUME IInv, pc \in {"line", "decode"}, Exact
  PROVE  LET c == scan.cmd  ec == scan.echoes  text == Text(c, ec)
             p == step_filled  m == multiecho_index  at == Place(c, ec, p, m)
         IN
         /\ (p > 0 /\ m + 1 < ec[p - 1] /\ Len(buffer) >= 1) => Marked
         /\ ((p > 0 => m + 1 = ec[p - 1]) /\ p <= LastPoint(c) /\ Len(buffer) >= 1) => ~Marked
         /\ ((p > 0 => m + 1 = ec[p - 1]) /\ p = LastPoint(c) + 1)
            => at = Len(text) /\ Len(buffer) = 0
<1> DEFINE c == scan.cmd  ec == scan.echoes  text == Text(c, ec)
           p == step_filled  m == multiecho_index  at == Place(c, ec, p, m)
<1>1. /\ c \in Sound /\ c \in Command /\ ec \in Echoes(c)
      /\ text \in Seq(Int) /\ at \in 0 .. Len(text) /\ Len(text) \in Nat
      /\ p \in 0 .. LastPoint(c) + 1 /\ p \in Nat /\ m \in 0 .. 2 /\ LastPoint(c) \in Nat
      /\ p > 0 => m + 1 <= ec[p - 1] /\ p - 1 \in 0 .. LastPoint(c)
      /\ \A q \in 0 .. LastPoint(c) : ec[q] \in 1 .. 3
      /\ BufferBehind /\ at + Len(buffer) \in 0 .. Len(text) /\ Len(buffer) \in Nat
  BY ExactIs
<1>2. /\ (p > 0 /\ m + 1 < ec[p - 1])
         => \A i \in 1 .. Width(c) + 1 : text[at + i] = Reading(c, p - 1, m + 1)[i]
      /\ ((p > 0 => m + 1 = ec[p - 1]) /\ p <= LastPoint(c))
         => \A i \in 1 .. Width(c) : text[at + i] = Reading(c, p, 0)[i]
      /\ ((p > 0 => m + 1 = ec[p - 1]) /\ p = LastPoint(c) + 1) => at = Len(text)
  BY <1>1, NextReading
<1>3. \A j \in 1 .. Len(buffer) : buffer[j] = text[at + j] BY <1>1 DEF BufferBehind
<1>4. Width(c) \in Nat /\ Width(c) >= 2 BY <1>1, CommandIs
<1>5. Len(buffer) >= 1 => (Marked <=> buffer[1] = AMPERSAND) /\ 1 \in 1 .. Len(buffer)
  <2>1. buffer \in Seq(Int) BY DEF IInv, FilledSound
  <2> QED BY <1>1, <2>1 DEF Marked
<1> HIDE DEF c, ec, text, p, m, at
<1>6. ASSUME p > 0, m + 1 < ec[p - 1], Len(buffer) >= 1 PROVE Marked
  <2> DEFINE q == p - 1  e == m + 1
  <2>1. q \in Nat /\ q \in 0 .. LastPoint(c) BY <1>1, <1>6
  <2>2. e \in 0 .. 2 /\ e > 0
    <3> DEFINE n == ec[q]
    <3>1. n \in 1 .. 3 BY <1>1, <2>1
    <3>2. m + 1 < n BY <1>6
    <3> HIDE DEF n
    <3> QED BY <1>1, <3>1, <3>2
  <2>3. 1 \in 1 .. Width(c) + 1 BY <1>4
  <2>4. text[at + 1] = Reading(c, q, e)[1] BY <1>2, <1>6, <2>3
  <2> HIDE DEF q, e
  <2>5. Reading(c, q, e)[1] = AMPERSAND BY <1>1, <2>1, <2>2, ReadingIs
  <2> QED BY <1>3, <1>5, <1>6, <2>4, <2>5
<1>7. ASSUME p > 0 => m + 1 = ec[p - 1], p <= LastPoint(c), Len(buffer) >= 1 PROVE ~Marked
  <2>1. 1 \in 1 .. Width(c) /\ 0 \in 0 .. 2 BY <1>4
  <2>2. text[at + 1] = Reading(c, p, 0)[1] BY <1>2, <1>7, <2>1
  <2>3. Reading(c, p, 0)[1] >= 0 BY <1>1, <2>1, ReadingIs
  <2>4. ~(AMPERSAND >= 0) BY DEF AMPERSAND
  <2> QED BY <1>3, <1>5, <1>7, <2>2, <2>3, <2>4
<1>8. ASSUME p > 0 => m + 1 = ec[p - 1], p = LastPoint(c) + 1
      PROVE  at = Len(text) /\ Len(buffer) = 0
  <2>1. at = Len(text) BY <1>2, <1>8
  <2> QED BY <1>1, <2>1
<1> QED BY <1>6, <1>7, <1>8 DEF c, ec, text, p, m, at

\* A line is read: what was behind the buffer is now at its end.
LEMMA ReadSent == IInv /\ ReadLine => AsSent'
<1> SUFFICES ASSUME IInv, ReadLine PROVE AsSent' OBVIOUS
<1> DEFINE line == Head(lines)
<1>1. /\ pc = "line"
      /\ UNCHANGED <<parameters, received, scan, step_filled, multiecho_index,
                     length, intensity, lost, garbled>>
  BY DEF ReadLine
<1>2. Exact' = Exact /\ Reached' = Reached /\ garbled' = garbled
  BY <1>1, ReachedSame DEF Exact
<1>3. /\ lines # <<>> /\ line \in Line /\ line = lines[1] /\ line.chars \in Seq(Int)
      /\ line.chars # <<>> =>
           /\ (~line.sum /\ ignore_checkSumError = 0) => Aborts
           /\ ~(~line.sum /\ ignore_checkSumError = 0) =>
                /\ buffer' = buffer \o line.chars /\ lines' = Tail(lines) /\ pc' = "decode"
      /\ line.chars = <<>> => Returns(step_filled)
  BY LineFits
<1>4. CASE ~Exact
  BY <1>2, <1>4 DEF AsSent
<1>5. CASE Exact
  <2> DEFINE c == scan.cmd  ec == scan.echoes  text == Text(c, ec)
             p == step_filled  m == multiecho_index  at == Place(c, ec, p, m)
             k == ReadLines  n == LineCount(text)
  <2>1. /\ text \in Seq(Int) /\ at \in 0 .. Len(text) /\ Len(text) \in Nat
        /\ p \in 0 .. LastPoint(c) + 1 /\ p \in Nat /\ m \in 0 .. 2 /\ LastPoint(c) \in Nat
        /\ p > 0 => m + 1 <= ec[p - 1] /\ p - 1 \in 0 .. LastPoint(c)
        /\ \A q \in 0 .. LastPoint(c) : ec[q] \in 1 .. MaxEcho(c) /\ ec[q] \in 1 .. 3
        /\ Reached /\ LinesAhead /\ BufferBehind
        /\ Len(buffer) \in Nat /\ at + Len(buffer) \in 0 .. Len(text)
    BY <1>1, <1>5, ExactIs
  <2>2. /\ k \in 0 .. n
        /\ \A i \in 1 .. Len(lines) : \/ lines[i] = InLines(text)[k + i]
                                      \/ garbled > 0 /\ ~lines[i].sum /\ lines[i].chars # <<>>
        /\ k = n + 1 - Len(lines)
    BY <2>1 DEF LinesAhead, ReadLines
  <2>3. /\ at + Len(buffer) = End(text, k)
        /\ \A j \in 1 .. Len(buffer) : buffer[j] = text[at + j]
    BY <2>1 DEF BufferBehind
  <2>4. /\ n \in Nat /\ End(text, n) = Len(text)
        /\ \A x \in 0 .. n : End(text, x) \in 0 .. Len(text)
        /\ \A i \in 1 .. n : LET l == InLines(text)[i] IN
             /\ l.sum = TRUE /\ l.chars \in Seq(Int) /\ Len(l.chars) \in 1 .. LineChars
             /\ End(text, i - 1) + Len(l.chars) = End(text, i)
             /\ \A j \in 1 .. Len(l.chars) : l.chars[j] = text[End(text, i - 1) + j]
    BY <2>1, LinesAre
  <2>5. /\ lines \in Seq(Line) /\ Len(lines) \in Nat \ {0} /\ lines[Len(lines)] = EndLine
        /\ \A i \in 1 .. Len(lines) : lines[i].chars = <<>> => i = Len(lines)
    BY <1>1, <1>3 DEF IInv, LinesSound
  <2>6. EndLine.chars = <<>> BY DEF EndLine
  <2>7. 1 \in 1 .. Len(lines) BY <2>5
  <2>8. buffer \in Seq(Int) /\ p \in Nat /\ garbled \in Nat BY DEF IInv, FilledSound
  <2>9. scan.checked = (ignore_checkSumError = 0) BY <1>1 DEF IInv, ScanSound
  <2> HIDE DEF c, ec, text, p, m, at, k, n, line
  <2>10. CASE line.chars = <<>>
    <3>1. pc' = "returned" /\ got' = p BY <1>3, <2>10 DEF Returns, p
    <3>2. Len(lines) = 1 BY <1>3, <2>5, <2>7, <2>10
    <3>3. at + Len(buffer) = Len(text) BY <2>2, <2>3, <2>4, <3>2
    <3>4. ~Complete BY <1>1 DEF IInv, FilledSound
    <3>5. data_size = Width(c) BY <1>1, Shapes DEF c
    <3>6. Width(c) \in 2 .. 6 BY Shapes, CommandIs DEF c
    <3> DEFINE q == p - 1
    <3>7. CASE p > 0 /\ m + 1 < ec[q]
      <4>1. at + Width(c) + 1 <= Len(text)
        BY <1>5, <1>1, <2>1, <3>7, NextReading, ExactIs DEF c, ec, text, p, m, at
      <4> HIDE DEF q
      <4>2. Len(buffer) >= Width(c) /\ Len(buffer) - 1 >= Width(c)
        <5> DEFINE b == Len(buffer)  t == Len(text)  w == Width(c)
        <5>1. b \in Nat /\ t \in Nat /\ at \in 0 .. t /\ w \in 2 .. 6 /\ at + b = t
          BY <2>1, <3>3, <3>6
        <5>2. at + w + 1 <= t BY <4>1
        <5> HIDE DEF b, t, w
        <5>3. b >= w /\ b - 1 >= w BY <5>1, <5>2
        <5> QED BY <5>3 DEF b, w
      <4> QED BY <3>4, <3>5, <4>2 DEF Complete
    <3>8. CASE (p > 0 => m + 1 = ec[q]) /\ p <= LastPoint(c)
      <4>1. at + Width(c) <= Len(text)
        BY <1>5, <1>1, <2>1, <3>8, NextReading, ExactIs DEF c, ec, text, p, m, at
      <4> HIDE DEF q
      <4>2. Len(buffer) >= Width(c)
        <5> DEFINE b == Len(buffer)  t == Len(text)  w == Width(c)
        <5>1. b \in Nat /\ t \in Nat /\ at \in 0 .. t /\ w \in 2 .. 6 /\ at + b = t
          BY <2>1, <3>3, <3>6
        <5>2. at + w <= t BY <4>1
        <5> HIDE DEF b, t, w
        <5>3. b >= w BY <5>1, <5>2
        <5> QED BY <5>3 DEF b, w
      <4>3. Len(buffer) >= 1 BY <2>1, <3>6, <4>2
      <4>4. ~Marked BY <1>1, <1>5, <3>8, <4>3, WholeReading DEF c, ec, p, m, q
      <4> QED BY <3>4, <3>5, <4>2, <4>4 DEF Complete
    <3>9. CASE (p > 0 => m + 1 = ec[q]) /\ p = LastPoint(c) + 1
      <4>1. p > 0 /\ q = LastPoint(c) BY <2>1, <3>9
      <4>2. m + 1 = ec[LastPoint(c)] BY <3>9, <4>1
      <4>3. got' >= 0 /\ got' = p BY <2>1, <3>1
      <4> QED BY <1>1, <1>2, <2>1, <3>1, <3>9, <4>2, <4>3 DEF AsSent, c, ec, p, m
    <3>10. p > 0 => (m + 1 < ec[q] \/ m + 1 = ec[q])
      <4>1. p > 0 => m + 1 <= ec[q] /\ ec[q] \in 1 .. 3 BY <2>1
      <4> HIDE DEF q
      <4> QED BY <2>1, <4>1
    <3>11. p <= LastPoint(c) \/ p = LastPoint(c) + 1 BY <2>1
    <3> QED BY <3>7, <3>8, <3>9, <3>10, <3>11
  <2>11. CASE line.chars # <<>>
    <3>1. Len(lines) # 1 BY <1>3, <2>5, <2>6, <2>11
    <3>2. k + 1 \in 1 .. n /\ k + 1 \in Nat
      <4> DEFINE l == Len(lines)
      <4>1. l \in Nat \ {0} /\ l # 1 /\ k = n + 1 - l /\ n \in Nat /\ k \in 0 .. n
        BY <2>2, <2>4, <2>5, <3>1
      <4> HIDE DEF l
      <4> QED BY <4>1
    <3>3. line = InLines(text)[k + 1] \/ (garbled > 0 /\ ~line.sum)
      BY <1>3, <2>2, <2>7
    <3>4. (InLines(text)[k + 1]).sum = TRUE BY <2>4, <3>2
    <3>5. CASE ~line.sum /\ ignore_checkSumError = 0
      <4>1. Aborts BY <1>3, <2>11, <3>5
      <4>2. pc' = "returned" /\ got' = -1 BY <4>1 DEF Aborts, Returns
      <4>3. garbled > 0 BY <3>3, <3>4, <3>5
      <4> QED BY <1>1, <2>8, <4>2, <4>3 DEF AsSent
    <3>6. CASE ~(~line.sum /\ ignore_checkSumError = 0)
      <4>1. buffer' = buffer \o line.chars /\ lines' = Tail(lines) /\ pc' = "decode"
        BY <1>3, <2>11, <3>6
      <4>2. line = InLines(text)[k + 1] BY <1>5, <2>9, <3>3, <3>6 DEF Exact
      <4> DEFINE b == Len(buffer)  l == Len(line.chars)
      <4>3. /\ l \in Nat /\ End(text, k) + l = End(text, k + 1)
            /\ \A j \in 1 .. l : line.chars[j] = text[End(text, k) + j]
        <5> DEFINE i == k + 1
        <5>1. i \in 1 .. n /\ i - 1 = k BY <2>2, <2>4, <3>2
        <5> HIDE DEF i
        <5>2. /\ (InLines(text)[i]).chars \in Seq(Int)
              /\ End(text, i - 1) + Len((InLines(text)[i]).chars) = End(text, i)
              /\ \A j \in 1 .. Len((InLines(text)[i]).chars) :
                   (InLines(text)[i]).chars[j] = text[End(text, i - 1) + j]
          BY <2>4, <5>1
        <5>3. line = InLines(text)[i] BY <4>2 DEF i
        <5> QED BY <5>1, <5>2, <5>3 DEF i
      <4>4. /\ Len(lines') = Len(lines) - 1 /\ Len(lines) \in Nat
            /\ \A i \in 1 .. Len(lines) - 1 :
                 lines'[i] = lines[i + 1] /\ i + 1 \in 1 .. Len(lines)
        BY <1>3, <2>5, <4>1, TailIs
      <4>5. ReadLines' = k + 1
        <5>1. ReadLines' = n + 1 - Len(lines')
          BY <1>1 DEF ReadLines, n, text, c, ec
        <5> QED BY <2>2, <2>4, <4>4, <5>1
      <4>6. LinesAhead'
        <5>1. /\ text = Text(scan'.cmd, scan'.echoes) /\ n = LineCount(text)
              /\ garbled' = garbled
          BY <1>1 DEF text, c, ec, n
        <5>2. ASSUME NEW i \in 1 .. Len(lines')
              PROVE  \/ lines'[i] = InLines(text)[k + 1 + i]
                     \/ garbled > 0 /\ ~lines'[i].sum /\ lines'[i].chars # <<>>
          <6> DEFINE j == i + 1
          <6>1. lines'[i] = lines[j] /\ j \in 1 .. Len(lines) BY <4>4
          <6>2. k + 1 + i = k + j BY <2>2, <2>4
          <6> HIDE DEF j
          <6> QED BY <2>2, <6>1, <6>2
        <5> QED BY <3>2, <4>5, <5>1, <5>2 DEF LinesAhead
      <4>7. BufferBehind'
        <5>1. text = Text(scan'.cmd, scan'.echoes)
              /\ at = Place(scan'.cmd, scan'.echoes, step_filled', multiecho_index')
          BY <1>1 DEF text, c, ec, at, p, m
        <5>2. /\ Len(buffer') = b + l
              /\ \A j \in 1 .. b + l : buffer'[j] = IF j <= b THEN buffer[j] ELSE line.chars[j - b]
          BY <1>3, <2>8, <4>1, ConcatProperties
        <5>3. b \in Nat /\ at \in Nat /\ at + b = End(text, k) BY <2>1, <2>3
        <5>4. \A j \in 1 .. b : buffer[j] = text[at + j] BY <2>3
        <5> HIDE DEF b, l
        <5>5. at + (b + l) = End(text, k + 1) BY <4>3, <5>3
        <5>6. ASSUME NEW j \in 1 .. b + l PROVE buffer'[j] = text[at + j]
          <6>1. CASE j <= b
            <7>1. j \in 1 .. b BY <5>3, <6>1
            <7> QED BY <5>2, <5>4, <6>1, <7>1
          <6>2. CASE ~(j <= b)
            <7>1. j - b \in 1 .. l /\ (at + b) + (j - b) = at + j BY <4>3, <5>3, <6>2
            <7>2. line.chars[j - b] = text[(at + b) + (j - b)] BY <4>3, <5>3, <7>1
            <7> QED BY <5>2, <6>2, <7>1, <7>2
          <6> QED BY <6>1, <6>2
        <5> QED BY <4>5, <5>1, <5>2, <5>5, <5>6 DEF BufferBehind
      <4> QED BY <1>2, <2>1, <4>1, <4>6, <4>7 DEF AsSent
    <3> QED BY <3>5, <3>6
  <2> QED BY <2>10, <2>11
<1> QED BY <1>4, <1>5

\* One turn of the inner loop takes the next reading of the text.
LEMMA DecodedIs ==
  ASSUME IInv, Decode, Exact
  PROVE  LET c == scan.cmd  ec == scan.echoes  text == Text(c, ec)
             p == step_filled  m == multiecho_index  at == Place(c, ec, p, m)
             s == DecodeStep  e == DecodeEcho
         IN
         /\ s \in 0 .. LastPoint(c) /\ e \in 0 .. 2 /\ e + 1 <= ec[s] /\ s \in Nat
         /\ e = 0 => s = p /\ (p > 0 => m + 1 = ec[p - 1])
         /\ e > 0 => s = p - 1 /\ e = m + 1
         /\ Place(c, ec, s + 1, e) = at + Mark(e) + Width(c)
         /\ Len(DecodeText) = Len(buffer) - Mark(e)
         /\ \A i \in 1 .. Len(DecodeText) : DecodeText[i] = text[at + Mark(e) + i]
         /\ \A i \in 1 .. Width(c) :
              text[at + Mark(e) + i] = Reading(c, s, e)[Mark(e) + i]
<1> DEFINE c == scan.cmd  ec == scan.echoes  text == Text(c, ec)
           p == step_filled  m == multiecho_index  at == Place(c, ec, p, m)
           s == DecodeStep  e == DecodeEcho  w == Width(c)
<1>1. /\ pc = "decode" /\ Len(buffer) \in Nat /\ Len(buffer) >= data_size
      /\ Len(DecodeText) = IF Marked THEN Len(buffer) - 1 ELSE Len(buffer)
      /\ \A j \in 1 .. Len(DecodeText) :
           DecodeText[j] = IF Marked THEN buffer[j + 1] ELSE buffer[j]
  BY DecodeIs
<1>2. /\ c \in Sound /\ c \in Command /\ ec \in Echoes(c)
      /\ text \in Seq(Int) /\ at \in 0 .. Len(text) /\ Len(text) \in Nat
      /\ p \in 0 .. LastPoint(c) + 1 /\ p \in Nat /\ m \in 0 .. 2 /\ LastPoint(c) \in Nat
      /\ p > 0 => m + 1 <= ec[p - 1] /\ p - 1 \in 0 .. LastPoint(c)
      /\ \A q \in 0 .. LastPoint(c) : ec[q] \in 1 .. 3
      /\ BufferBehind
  BY <1>1, ExactIs
<1>3. /\ (p > 0 /\ m + 1 < ec[p - 1])
            =>     /\ Place(c, ec, p, m + 1) = at + w + 1
                   /\ \A i \in 1 .. w + 1 : text[at + i] = Reading(c, p - 1, m + 1)[i]
      /\ ((p > 0 => m + 1 = ec[p - 1]) /\ p <= LastPoint(c))
            =>     /\ Place(c, ec, p + 1, 0) = at + w
                   /\ \A i \in 1 .. w : text[at + i] = Reading(c, p, 0)[i]
  BY <1>2, NextReading
<1>4. Len(buffer) >= 1
  <2>1. data_size \in 2 .. 6 BY Shapes
  <2> QED BY <1>1, <2>1
<1>5. /\ (p > 0 /\ m + 1 < ec[p - 1]) => Marked
      /\ ((p > 0 => m + 1 = ec[p - 1]) /\ p <= LastPoint(c)) => ~Marked
      /\ ~((p > 0 => m + 1 = ec[p - 1]) /\ p = LastPoint(c) + 1)
  BY <1>1, <1>4, WholeReading
<1>6. w \in 2 .. 6 BY <1>2, CommandIs
<1>7. \A j \in 1 .. Len(buffer) : buffer[j] = text[at + j] BY <1>2 DEF BufferBehind
<1>8. /\ Marked => s = p - 1 /\ e = m + 1
      /\ ~Marked => s = p /\ e = 0
  BY DEF DecodeStep, DecodeEcho
<1> HIDE DEF c, ec, text, p, m, at, s, e, w
<1>9. CASE p > 0 /\ m + 1 < ec[p - 1]
  <2>1. s = p - 1 /\ e = m + 1 /\ s + 1 = p /\ Marked BY <1>2, <1>5, <1>8, <1>9
  <2>2. s \in 0 .. LastPoint(c) /\ s \in Nat BY <1>2, <1>9, <2>1
  <2>3. ec[s] \in 1 .. 3 /\ e < ec[s] BY <1>2, <1>9, <2>1, <2>2
  <2>4. e \in 0 .. 2 /\ e > 0 /\ e + 1 <= ec[s] BY <1>2, <2>1, <2>3
  <2>5. Mark(e) = 1 BY <2>4 DEF Mark
  <2>6. Place(c, ec, s + 1, e) = at + 1 + w
    <3>1. at + w + 1 = at + 1 + w BY <1>2, <1>6
    <3>2. Place(c, ec, p, m + 1) = at + w + 1 BY <1>3, <1>9
    <3> QED BY <2>1, <3>1, <3>2
  <2>7. \A i \in 1 .. w : i + 1 \in 1 .. w + 1 /\ at + 1 + i = at + (i + 1) /\ 1 + i = i + 1
    BY <1>2, <1>6
  <2>8. \A i \in 1 .. w : text[at + 1 + i] = Reading(c, s, e)[1 + i]
    <3> TAKE i \in 1 .. w
    <3> DEFINE j == i + 1
    <3>1. j \in 1 .. w + 1 /\ at + 1 + i = at + j /\ 1 + i = j BY <2>7
    <3> HIDE DEF j
    <3>2. text[at + j] = Reading(c, s, e)[j] BY <1>3, <1>9, <2>1, <3>1
    <3> QED BY <3>1, <3>2
  <2>9. Len(DecodeText) = Len(buffer) - 1 BY <1>1, <2>1
  <2>10. \A i \in 1 .. Len(DecodeText) : DecodeText[i] = text[at + 1 + i]
    <3> TAKE i \in 1 .. Len(DecodeText)
    <3> DEFINE j == i + 1
    <3>1. j \in 1 .. Len(buffer) /\ at + 1 + i = at + j BY <1>1, <1>2, <2>9
    <3>2. DecodeText[i] = buffer[j] BY <1>1, <2>1
    <3> HIDE DEF j
    <3> QED BY <1>7, <3>1, <3>2
  <2>11. ~(e = 0) BY <2>4
  <2> QED BY <2>1, <2>2, <2>4, <2>5, <2>6, <2>8, <2>9, <2>10, <2>11
       DEF c, ec, text, p, m, at, s, e, w
<1>10. CASE (p > 0 => m + 1 = ec[p - 1]) /\ p <= LastPoint(c)
  <2>1. s = p /\ e = 0 /\ ~Marked BY <1>5, <1>8, <1>10
  <2>2. s \in 0 .. LastPoint(c) /\ s \in Nat BY <1>2, <1>10, <2>1
  <2>3. ec[s] \in 1 .. 3 BY <1>2, <2>2
  <2>4. e \in 0 .. 2 /\ e + 1 <= ec[s] BY <2>1, <2>3
  <2>5. Mark(e) = 0 BY <2>1 DEF Mark
  <2>6. Place(c, ec, s + 1, e) = at + 0 + w BY <1>2, <1>3, <1>10, <2>1
  <2>8. \A i \in 1 .. w : text[at + 0 + i] = Reading(c, s, e)[0 + i]
    <3> TAKE i \in 1 .. w
    <3>1. at + 0 + i = at + i /\ 0 + i = i BY <1>2, <1>6
    <3> QED BY <1>3, <1>10, <2>1, <3>1
  <2>9. Len(DecodeText) = Len(buffer) - 0 /\ Len(DecodeText) = Len(buffer) BY <1>1, <2>1
  <2>10. \A i \in 1 .. Len(DecodeText) : DecodeText[i] = text[at + 0 + i]
    <3> TAKE i \in 1 .. Len(DecodeText)
    <3>1. i \in 1 .. Len(buffer) /\ at + 0 + i = at + i BY <1>1, <1>2, <2>9
    <3>2. DecodeText[i] = buffer[i] BY <1>1, <2>1
    <3> QED BY <1>7, <3>1, <3>2
  <2> QED BY <1>10, <2>1, <2>2, <2>4, <2>5, <2>6, <2>8, <2>9, <2>10
       DEF c, ec, text, p, m, at, s, e, w
<1>11. p > 0 => (m + 1 < ec[p - 1] \/ m + 1 = ec[p - 1])
  <2> DEFINE q == p - 1
  <2>1. p > 0 => m + 1 <= ec[q] /\ ec[q] \in 1 .. 3 BY <1>2
  <2> HIDE DEF q
  <2>2. p > 0 => (m + 1 < ec[q] \/ m + 1 = ec[q]) BY <1>2, <2>1
  <2> QED BY <2>2 DEF q
<1>12. p <= LastPoint(c) \/ p = LastPoint(c) + 1 BY <1>2
<1> QED BY <1>5, <1>9, <1>10, <1>11, <1>12 DEF c, ec, p, m

\* The values that are decoded are those that were measured.
LEMMA ValuesAre ==
  ASSUME IInv, Decode, Exact
  PROVE  /\ Decoded(SubSeq(DecodeText, 1, each_size))
              = Decoded(Digits(scan.cmd, DecodeStep, DecodeEcho, 0))
         /\ scan.cmd.type \in Intensities =>
              Decoded(SubSeq(DecodeText, each_size + 1, data_size))
                = Decoded(Digits(scan.cmd, DecodeStep, DecodeEcho, 1))
<1> DEFINE c == scan.cmd  s == DecodeStep  e == DecodeEcho  t == DecodeText
           n == c.byte  r == Reading(c, s, e)  k == Mark(e)
           d(kind) == Digits(c, s, e, kind)
<1>1. /\ s \in Nat /\ e \in 0 .. 2 /\ Len(t) = Len(buffer) - k
      /\ \A i \in 1 .. Len(t) : t[i] = Text(c, scan.echoes)[Place(c, scan.echoes,
                                         step_filled, multiecho_index) + k + i]
      /\ \A i \in 1 .. Width(c) : Text(c, scan.echoes)[Place(c, scan.echoes,
                                         step_filled, multiecho_index) + k + i] = r[k + i]
  BY DecodedIs
<1>2. c \in Command /\ pc = "decode" BY Shapes DEF Decode
<1>3. data_size = Width(c) /\ each_size = n BY <1>2, Shapes
<1>4. t \in Seq(Int) /\ Width(c) <= Len(t)
  <2>1. /\ DecodeText \in Seq(Int) /\ Len(buffer) \in Nat /\ Len(buffer) >= data_size
        /\ Marked => Len(buffer) - 1 >= data_size
        /\ Len(DecodeText) = IF Marked THEN Len(buffer) - 1 ELSE Len(buffer)
    BY DecodeIs
  <2> QED BY <1>3, <2>1
<1>5. n \in {2, 3} /\ Width(c) \in 2 .. 6 /\ Width(c) >= n
      /\ Width(c) = IF c.type \in Intensities THEN 2 * n ELSE n
  BY <1>2, CommandIs DEF Width
<1>6. /\ d(0) \in Seq(Int) /\ Len(d(0)) = n /\ d(1) \in Seq(Int) /\ Len(d(1)) = n
      /\ \A i \in 1 .. n : r[k + i] = d(0)[i]
      /\ c.type \in Intensities => \A i \in 1 .. n : r[k + n + i] = d(1)[i]
  <2>1. 0 \in {0, 1} /\ 1 \in {0, 1} OBVIOUS
  <2> QED BY <1>1, <1>2, <2>1, DigitsAre, ReadingIs
<1>7. Len(t) \in Nat /\ k \in {0, 1} BY <1>4 DEF Mark
<1>8. \A i \in 1 .. Width(c) : t[i] = r[k + i] BY <1>1, <1>4, <1>5, <1>7
<1> HIDE DEF c, s, e, t, n, r, k, d
<1>9. SubSeq(t, 1, n) = d(0)
  <2> DEFINE a == SubSeq(t, 0 + 1, n)
  <2>1. n \in Nat /\ 0 <= n /\ n <= Len(t) /\ n - 0 = n BY <1>4, <1>5, <1>7
  <2>2. a \in Seq(Int) /\ Len(a) = n /\ \A j \in 1 .. n : a[j] = t[0 + j]
    BY <1>4, <2>1, SubSeqIs
  <2>3. \A j \in 1 .. n : 0 + j = j /\ j \in 1 .. Width(c) BY <1>5
  <2>4. \A j \in 1 .. n : a[j] = d(0)[j] BY <1>6, <1>8, <2>2, <2>3
  <2>5. a = SubSeq(t, 1, n) OBVIOUS
  <2> HIDE DEF a
  <2>6. a = d(0) BY <1>6, <2>2, <2>4
  <2> QED BY <2>5, <2>6
<1>10. ASSUME c.type \in Intensities PROVE SubSeq(t, n + 1, Width(c)) = d(1)
  <2> DEFINE w == Width(c)
  <2>1. w \in Nat /\ n \in Nat /\ n <= w /\ w <= Len(t) /\ w - n = n /\ t \in Seq(Int)
    BY <1>4, <1>5, <1>10
  <2> HIDE DEF w
  <2> DEFINE a == SubSeq(t, n + 1, w)
  <2>2. a \in Seq(Int) /\ Len(a) = n /\ \A j \in 1 .. n : a[j] = t[n + j]
    <3>1. /\ a \in Seq(Int) /\ Len(a) = w - n
          /\ \A j \in 1 .. w - n : a[j] = t[n + j]
      BY <2>1, SubSeqIs
    <3> QED BY <2>1, <3>1
  <2>3. \A j \in 1 .. n : n + j \in 1 .. w /\ k + (n + j) = k + n + j BY <1>7, <2>1
  <2>4. \A j \in 1 .. n : t[n + j] = r[k + (n + j)] BY <1>8, <2>3 DEF w
  <2>5. \A j \in 1 .. n : a[j] = d(1)[j] BY <1>6, <1>10, <2>2, <2>3, <2>4
  <2> HIDE DEF a
  <2>6. a = d(1)
    <3>1. Len(a) = Len(d(1)) /\ \A j \in 1 .. Len(a) : a[j] = d(1)[j] BY <1>6, <2>2, <2>5
    <3> QED BY <1>6, <2>2, <3>1, SeqEqual
  <2> QED BY <2>6 DEF a, w
<1> QED BY <1>3, <1>9, <1>10 DEF c, s, e, t, d

\* What Filled says after the turn of the inner loop.
LEMMA FilledMore ==
  ASSUME IInv, Decode, Exact, NEW array, NEW kind, Filled(array, kind)
  PROVE  LET ec == scan.echoes  x == multiecho_max_size
             after == Stored(array, Cells(DecodeIndex, DecodeEcho,
                                          Measured(kind, DecodeStep, DecodeEcho)))
         IN  /\ DOMAIN after = 0 .. (DecodeStep + 1) * x - 1
             /\ \A q \in 0 .. DecodeStep, e \in 0 .. x - 1 :
                  after[q * x + e] = IF e < ec[q] /\ (q = DecodeStep => e <= DecodeEcho)
                                     THEN Measured(kind, q, e) ELSE 0
<1> DEFINE c == scan.cmd  ec == scan.echoes  x == multiecho_max_size
           p == step_filled  m == multiecho_index  s == DecodeStep  o == DecodeEcho
           V(q, e) == Measured(kind, q, e)
           after == Stored(array, Cells(DecodeIndex, DecodeEcho, V(s, o)))
<1>1. /\ s \in 0 .. LastPoint(c) /\ o \in 0 .. 2 /\ o + 1 <= ec[s] /\ s \in Nat
      /\ o = 0 => s = p /\ (p > 0 => m + 1 = ec[p - 1])
      /\ o > 0 => s = p - 1 /\ o = m + 1
  BY DecodedIs
<1>2. /\ DOMAIN array = 0 .. p * x - 1
      /\ \A q \in 0 .. p - 1, e \in 0 .. x - 1 :
           array[q * x + e] = IF e < ec[q] /\ (q = p - 1 => e <= m) THEN V(q, e) ELSE 0
  BY DEF Filled
<1>3. /\ \A q \in 0 .. LastPoint(c) : ec[q] \in 1 .. x /\ ec[q] \in 1 .. 3
      /\ p \in 0 .. LastPoint(c) + 1 /\ m \in 0 .. 2 /\ LastPoint(c) \in Nat /\ p \in Nat
  <2>1. pc = "decode" BY DEF Decode
  <2>2. x = MaxEcho(c) BY Shapes
  <2> QED BY <2>1, <2>2, ExactIs
<1>4. x \in {1, 3} /\ (is_multiecho <=> x = 3)
  BY DEF multiecho_max_size, URG_MAX_ECHO
<1> DEFINE index == DecodeIndex
           cells == {index} \cup (IF is_multiecho /\ o = 0 THEN index + 1 .. index + x - 1 ELSE {})
<1>5. index = s * x + o BY DEF DecodeIndex
<1>6. /\ DOMAIN after = DOMAIN array \cup cells
      /\ after[index] = V(s, o)
      /\ \A i \in cells : i # index => after[i] = 0
      /\ \A i \in DOMAIN array : i \notin cells => after[i] = array[i]
  <2> DEFINE values == Cells(index, o, V(s, o))
  <2>1. values = [i \in cells |-> IF i = index THEN V(s, o) ELSE 0] BY DEF Cells
  <2>2. index \in cells OBVIOUS
  <2>3. after = [i \in DOMAIN array \cup DOMAIN values |->
                   IF i \in DOMAIN values THEN values[i] ELSE array[i]]
    BY DEF Stored
  <2> HIDE DEF values, cells, after, index, V
  <2>4. DOMAIN values = cells
        /\ \A i \in cells : values[i] = IF i = index THEN V(s, o) ELSE 0
    BY <2>1
  <2> QED BY <2>2, <2>3, <2>4
<1>7. o + 1 <= x
  <2> DEFINE n == ec[s]
  <2>1. n \in 1 .. x /\ o + 1 <= n BY <1>1, <1>3
  <2> HIDE DEF n, o, x
  <2> QED BY <1>1, <1>4, <2>1
<1> HIDE DEF c, x, p, m, s, o, V, after, index, cells, ec
<1>8. CASE x = 1
  <2>1. o = 0 /\ s = p /\ index = p BY <1>1, <1>3, <1>5, <1>7, <1>8
  <2>2. cells = {p} BY <1>4, <1>8, <2>1 DEF cells
  <2>3. DOMAIN after = 0 .. (s + 1) * x - 1
    <3>1. DOMAIN array = 0 .. p - 1 BY <1>2, <1>3, <1>8
    <3>2. (s + 1) * x - 1 = p BY <1>3, <1>8, <2>1
    <3>3. 0 .. p = (0 .. p - 1) \cup {p} BY <1>3
    <3> QED BY <1>6, <2>2, <3>1, <3>2, <3>3
  <2>4. ASSUME NEW q \in 0 .. s, NEW e \in 0 .. x - 1
        PROVE  after[q * x + e] = IF e < ec[q] /\ (q = s => e <= o) THEN V(q, e) ELSE 0
    <3>1. e = 0 /\ q * x + e = q BY <1>1, <1>8
    <3>2. q \in 0 .. LastPoint(c) BY <1>1, <1>3
    <3>3. ec[q] \in 1 .. 3 BY <1>3, <3>2
    <3>4. e < ec[q] /\ e <= o BY <2>1, <3>1, <3>3
    <3>5. CASE q = s BY <1>6, <2>1, <3>1, <3>4, <3>5
    <3>6. CASE q # s
      <4>1. q \in 0 .. p - 1 /\ q # p /\ e <= m BY <1>3, <2>1, <3>1, <3>6
      <4>2. q \in DOMAIN array BY <1>2, <1>3, <1>8, <4>1
      <4>3. array[q] = V(q, e) BY <1>2, <3>1, <3>4, <4>1
      <4> QED BY <1>6, <2>2, <3>1, <3>4, <3>6, <4>1, <4>2, <4>3
    <3> QED BY <3>5, <3>6
  <2> QED BY <2>3, <2>4 DEF ec, x, s, o, V, after
<1>9. CASE x = 3 /\ o = 0
  <2>1. s = p /\ (p > 0 => m + 1 = ec[p - 1]) /\ index = 3 * p BY <1>1, <1>3, <1>5, <1>9
  <2>2. cells = {3 * p, 3 * p + 1, 3 * p + 2} /\ is_multiecho
    <3>1. cells = {3 * p} \cup (3 * p + 1 .. 3 * p + 3 - 1) BY <1>4, <1>9, <2>1 DEF cells
    <3> QED BY <1>3, <1>4, <1>9, <3>1
  <2>3. DOMAIN after = 0 .. (s + 1) * x - 1
    <3>1. DOMAIN array = 0 .. 3 * p - 1
      <4>1. p * x - 1 = 3 * p - 1 BY <1>3, <1>9
      <4> QED BY <1>2, <4>1
    <3>2. (s + 1) * x - 1 = 3 * p + 2 BY <1>3, <1>9, <2>1
    <3>3. 0 .. 3 * p + 2 = (0 .. 3 * p - 1) \cup {3 * p, 3 * p + 1, 3 * p + 2} BY <1>3
    <3> QED BY <1>6, <2>2, <3>1, <3>2, <3>3
  <2>4. ASSUME NEW q \in 0 .. s, NEW e \in 0 .. x - 1
        PROVE  after[q * x + e] = IF e < ec[q] /\ (q = s => e <= o) THEN V(q, e) ELSE 0
    <3>1. e \in 0 .. 2 /\ q * x + e = 3 * q + e /\ q \in Nat BY <1>1, <1>9
    <3>2. q \in 0 .. LastPoint(c) BY <1>1, <1>3
    <3>3. ec[q] \in 1 .. 3 BY <1>3, <3>2
    <3>4. CASE q = s /\ e = 0
      <4>1. q * x + e = index BY <1>3, <2>1, <3>1, <3>4
      <4>2. e < ec[q] /\ e <= o BY <1>9, <3>3, <3>4
      <4>3. V(q, e) = V(s, o) BY <1>9, <3>4
      <4> QED BY <1>6, <4>1, <4>2, <4>3, Zenon
    <3>5. CASE q = s /\ e # 0
      <4>1. 3 * q + e \in cells /\ 3 * q + e # index BY <1>3, <2>1, <2>2, <3>1, <3>5
      <4>2. ~(e <= o) BY <1>9, <3>1, <3>5
      <4> QED BY <1>6, <3>1, <3>5, <4>1, <4>2
    <3>6. CASE q # s
      <4>1. q \in 0 .. p - 1 BY <1>3, <2>1, <3>1, <3>6
      <4>2. 3 * q + e \in 0 .. 3 * p - 1 BY <1>3, <3>1, <4>1
      <4>3. 3 * q + e \in DOMAIN array
        <5>1. p * x - 1 = 3 * p - 1 BY <1>3, <1>9
        <5> QED BY <1>2, <4>2, <5>1
      <4>4. 3 * q + e \notin cells BY <1>3, <2>2, <4>2
      <4>5. after[q * x + e] = array[q * x + e] BY <1>6, <3>1, <4>3, <4>4
      <4>6. (q = p - 1 /\ e < ec[q]) => e <= m
        <5>1. q = p - 1 => ec[q] = m + 1 BY <1>3, <2>1, <4>1
        <5> QED BY <1>3, <3>1, <5>1
      <4>7. array[q * x + e] = IF e < ec[q] /\ (q = p - 1 => e <= m) THEN V(q, e) ELSE 0
        BY <1>2, <4>1
      <4> QED BY <3>6, <4>5, <4>6, <4>7, Zenon
    <3> QED BY <3>4, <3>5, <3>6
  <2> QED BY <2>3, <2>4 DEF ec, x, s, o, V, after
<1>10. CASE x = 3 /\ o > 0
  <2>1. s = p - 1 /\ o = m + 1 /\ p > 0 /\ p = s + 1 /\ index = 3 * s + o
    BY <1>1, <1>3, <1>5, <1>10
  <2>2. cells = {index}
    <3>1. ~(o = 0) BY <1>1, <1>10
    <3> QED BY <3>1 DEF cells
  <2>3. DOMAIN array = 0 .. 3 * s + 2 /\ index \in 0 .. 3 * s + 2
    <3>1. p * x - 1 = 3 * s + 2 BY <1>1, <1>10, <2>1
    <3> QED BY <1>1, <1>2, <2>1, <3>1
  <2>4. DOMAIN after = 0 .. (s + 1) * x - 1
    <3>1. (s + 1) * x - 1 = 3 * s + 2 BY <1>1, <1>10
    <3> QED BY <1>6, <2>2, <2>3, <3>1
  <2>5. ASSUME NEW q \in 0 .. s, NEW e \in 0 .. x - 1
        PROVE  after[q * x + e] = IF e < ec[q] /\ (q = s => e <= o) THEN V(q, e) ELSE 0
    <3>1. e \in 0 .. 2 /\ q * x + e = 3 * q + e /\ q \in Nat BY <1>1, <1>10
    <3>2. q \in 0 .. p - 1 /\ (q = p - 1 <=> q = s) BY <1>1, <2>1
    <3>3. array[q * x + e] = IF e < ec[q] /\ (q = s => e <= m) THEN V(q, e) ELSE 0
      BY <1>2, <3>2
    <3>4. CASE q = s /\ e = o
      <4>1. q * x + e = index BY <2>1, <3>1, <3>4
      <4>2. e < ec[q] /\ e <= o
        <5> DEFINE n == ec[s]
        <5>1. n \in 1 .. 3 /\ o + 1 <= n BY <1>1, <1>3
        <5> HIDE DEF n
        <5>2. o < n BY <1>1, <5>1
        <5> QED BY <1>1, <3>4, <5>2 DEF n
      <4> QED BY <1>6, <3>4, <4>1, <4>2
    <3>5. CASE ~(q = s /\ e = o)
      <4>1. 3 * q + e # index BY <1>1, <2>1, <3>1, <3>5
      <4>2. 3 * q + e \in 0 .. 3 * s + 2 BY <1>1, <3>1
      <4>3. after[q * x + e] = array[q * x + e] BY <1>6, <2>2, <2>3, <3>1, <4>1, <4>2
      <4>4. q = s => (e <= m <=> e <= o) BY <1>1, <1>3, <2>1, <3>1, <3>5
      <4> QED BY <3>3, <4>3, <4>4, Zenon
    <3> QED BY <3>4, <3>5
  <2> QED BY <2>4, <2>5 DEF ec, x, s, o, V, after
<1>11. o = 0 \/ o > 0 BY <1>1
<1> QED BY <1>4, <1>8, <1>9, <1>10, <1>11 DEF ec, x, s, o, V, after

LEMMA DecodeSent == IInv /\ Decode => AsSent'
<1> SUFFICES ASSUME IInv, Decode PROVE AsSent' OBVIOUS
<1>1. UNCHANGED <<scan, lost, garbled, received>> /\ pc = "decode" BY DecodeIs
<1>2. Exact' = Exact BY <1>1 DEF Exact
<1>3. CASE ~Exact
  BY <1>2, <1>3 DEF AsSent
<1>4. CASE Exact
  <2> DEFINE c == scan.cmd  ec == scan.echoes  text == Text(c, ec)
             p == step_filled  m == multiecho_index  at == Place(c, ec, p, m)
             s == DecodeStep  e == DecodeEcho  w == Width(c)
  <2>1. /\ s \in 0 .. LastPoint(c) /\ e \in 0 .. 2 /\ e + 1 <= ec[s] /\ s \in Nat
        /\ Place(c, ec, s + 1, e) = at + Mark(e) + w
        /\ Len(DecodeText) = Len(buffer) - Mark(e)
        /\ \A i \in 1 .. Len(DecodeText) : DecodeText[i] = text[at + Mark(e) + i]
    BY <1>4, DecodedIs
  <2>2. /\ Reached /\ LinesAhead /\ BufferBehind /\ at \in 0 .. Len(text) /\ Len(text) \in Nat
        /\ Len(buffer) \in Nat
    BY <1>1, <1>4, ExactIs
  <2>3. ~(s > received.last - received.first)
    <3> DEFINE d == c.last - c.first  l == LastPoint(c)
    <3>1. received.last - received.first = d BY <1>1 DEF IInv, ScanSound
    <3>2. d \in 0 .. last_data_index /\ l \in 0 .. d BY Shapes
    <3> HIDE DEF d, l
    <3>3. s \in 0 .. l BY <2>1 DEF l
    <3> QED BY <3>1, <3>2, <3>3, IndexAssumption
  <2>4. /\ Len(buffer') = Len(DecodeText) - data_size
        /\ \A j \in 1 .. Len(buffer') : buffer'[j] = DecodeText[data_size + j]
        /\ step_filled' = s + 1 /\ multiecho_index' = e
        /\ length' = Stored(length, Cells(DecodeIndex, DecodeEcho,
                              Decoded(SubSeq(DecodeText, 1, each_size))))
        /\ intensity' = IF scan.cmd.type \notin Intensities THEN intensity
                    ELSE Stored(intensity, Cells(DecodeIndex, DecodeEcho,
                           UShort(Decoded(SubSeq(DecodeText, each_size + 1, data_size)))))
        /\ UNCHANGED <<pc, got, coming, lines>>
    BY <2>3, DecodeIs
  <2>5. Decoded(SubSeq(DecodeText, 1, each_size)) = Measured(0, s, e)
    BY <1>4, ValuesAre DEF Measured
  <2>6. c.type \in Intensities =>
          UShort(Decoded(SubSeq(DecodeText, each_size + 1, data_size))) = Measured(1, s, e)
    BY <1>4, ValuesAre DEF Measured
  <2>7. length' = Stored(length, Cells(DecodeIndex, DecodeEcho, Measured(0, s, e)))
    BY <2>4, <2>5
  <2>8. c.type \in Intensities =>
          intensity' = Stored(intensity, Cells(DecodeIndex, DecodeEcho, Measured(1, s, e)))
    BY <2>4, <2>6
  <2>9. multiecho_max_size' = multiecho_max_size
        /\ \A kind, q, x : Measured(kind, q, x)' = Measured(kind, q, x)
    BY <1>1 DEF multiecho_max_size, is_multiecho, Measured
  <2>10. step_filled' - 1 = s /\ step_filled' > 0
    <3>1. s \in Nat BY <2>1
    <3>2. step_filled' = s + 1 BY <2>4
    <3> HIDE DEF s
    <3> QED BY <3>1, <3>2
  <2>11. Filled(length, 0)'
    <3>1. Filled(length, 0) BY <2>2 DEF Reached
    <3>2. /\ DOMAIN length' = 0 .. (s + 1) * multiecho_max_size - 1
          /\ \A q \in 0 .. s, x \in 0 .. multiecho_max_size - 1 :
               length'[q * multiecho_max_size + x] =
                 IF x < ec[q] /\ (q = s => x <= e) THEN Measured(0, q, x) ELSE 0
      BY <1>4, <2>7, <3>1, FilledMore
    <3> HIDE DEF s, e
    <3> QED BY <1>1, <2>4, <2>9, <2>10, <3>2 DEF Filled
  <2>12. IF c.type \in Intensities THEN Filled(intensity, 1)' ELSE intensity' = <<>>
    <3>1. CASE c.type \in Intensities
      <4>1. Filled(intensity, 1) BY <2>2, <3>1 DEF Reached
      <4>2. /\ DOMAIN intensity' = 0 .. (s + 1) * multiecho_max_size - 1
            /\ \A q \in 0 .. s, x \in 0 .. multiecho_max_size - 1 :
                 intensity'[q * multiecho_max_size + x] =
                   IF x < ec[q] /\ (q = s => x <= e) THEN Measured(1, q, x) ELSE 0
        BY <1>4, <2>8, <3>1, <4>1, FilledMore
      <4>3. Filled(intensity, 1)'
        <5> HIDE DEF s, e
        <5> QED BY <1>1, <2>4, <2>9, <2>10, <4>2 DEF Filled
      <4> QED BY <3>1, <4>3
    <3>2. CASE c.type \notin Intensities
      <4>1. intensity' = intensity /\ intensity = <<>> BY <2>2, <2>4, <3>2 DEF Reached
      <4> QED BY <3>2, <4>1
    <3> QED BY <3>1, <3>2
  <2>13. Reached'
    <3>1. s + 1 <= LastPoint(c) + 1
      <4>1. LastPoint(c) \in Nat BY <1>1, <1>4, ExactIs
      <4> HIDE DEF c, s
      <4> QED BY <2>1, <4>1
    <3> HIDE DEF s, e
    <3> QED BY <1>1, <2>1, <2>4, <2>10, <2>11, <2>12, <3>1 DEF Reached
  <2>14. LinesAhead' BY <1>1, <2>2, <2>4 DEF LinesAhead, ReadLines
  <2>15. BufferBehind'
    <3>1. ReadLines' = ReadLines BY <1>1, <2>4 DEF ReadLines
    <3>2. data_size = w /\ w \in 2 .. 6 BY <1>1, Shapes, CommandIs
    <3>3. Mark(e) \in {0, 1} BY DEF Mark
    <3>5. Len(buffer') \in Nat
      <4>1. buffer' \in Seq(Int) BY <2>3, DecodeIs
      <4> QED BY <4>1
    <3>4. /\ Len(buffer') + w + Mark(e) = Len(buffer)
          /\ \A j \in 1 .. Len(buffer') : w + j \in 1 .. Len(DecodeText)
      <4> DEFINE a == Len(buffer)  b == Len(buffer')  d == Len(DecodeText)  k == Mark(e)
      <4>1. d = a - k /\ b = d - w /\ a \in Nat /\ b \in Nat /\ k \in {0, 1} /\ w \in 2 .. 6
        BY <2>1, <2>2, <2>4, <3>2, <3>3, <3>5
      <4> HIDE DEF a, b, d, k, w
      <4>2. b + w + k = a /\ \A j \in 1 .. b : w + j \in 1 .. d BY <4>1
      <4> QED BY <4>2 DEF a, b, d, k
    <3> DEFINE after == at + Mark(e) + w
    <3>6. at + Len(buffer) = End(text, ReadLines) BY <2>2 DEF BufferBehind
    <3>7. after = Place(c, ec, step_filled', multiecho_index') BY <2>1, <2>4
    <3>8. after + Len(buffer') = End(text, ReadLines)
      <4> DEFINE a == at  b == Len(buffer')  k == Mark(e)  t == Len(text)
      <4>1. a \in 0 .. t /\ t \in Nat /\ b \in Nat /\ k \in {0, 1} /\ w \in 2 .. 6
        BY <2>2, <3>2, <3>3, <3>5
      <4>2. Len(buffer) = b + w + k BY <3>4
      <4> HIDE DEF a, b, k, t, w
      <4>3. a + k + w + b = a + (b + w + k) BY <4>1
      <4> QED BY <3>6, <4>2, <4>3 DEF a, b, k
    <3>9. ASSUME NEW j \in 1 .. Len(buffer') PROVE buffer'[j] = text[after + j]
      <4> DEFINE i == w + j
      <4>1. i \in 1 .. Len(DecodeText) BY <3>4
      <4>2. at + Mark(e) + i = after + j
        <5> DEFINE a == at  k == Mark(e)  t == Len(text)  b == Len(buffer')
        <5>1. a \in 0 .. t /\ t \in Nat /\ k \in {0, 1} /\ w \in 2 .. 6 /\ b \in Nat
              /\ j \in 1 .. b
          BY <2>2, <3>2, <3>3, <3>5
        <5> HIDE DEF a, k, t, w, b
        <5>2. a + k + (w + j) = a + k + w + j BY <5>1
        <5> QED BY <5>2 DEF a, k
      <4>3. buffer'[j] = DecodeText[i] BY <2>4, <3>2
      <4> HIDE DEF i, after
      <4> QED BY <2>1, <4>1, <4>2, <4>3
    <3>10. text = Text(scan'.cmd, scan'.echoes) /\ c = scan'.cmd /\ ec = scan'.echoes BY <1>1
    <3> HIDE DEF after, text, w, e, s, at
    <3>11. at = Place(c, ec, p, m) BY DEF at
    <3> HIDE DEF c, ec
    <3> QED BY <3>1, <3>7, <3>8, <3>9, <3>10 DEF BufferBehind
  <2>16. pc' = "decode" BY <1>1, <2>4
  <2> QED BY <2>13, <2>14, <2>15, <2>16 DEF AsSent
<1> QED BY <1>3, <1>4

LEMMA AsSentStep == IInv /\ Next => AsSent'
<1> SUFFICES ASSUME IInv, Next PROVE AsSent' OBVIOUS
<1>1. CASE receive_data
  <2> DEFINE c == Head(coming)  ec == scan'.echoes  text == Text(c, ec)  n == LineCount(text)
  <2>1. /\ c \in Sound /\ ec \in Echoes(c) /\ scan'.cmd = c
        /\ lines' = InLines(text) /\ text \in Seq(Int)
    BY <1>1, ReceiveIs
  <2>2. /\ pc' = "line" /\ buffer' = <<>> /\ step_filled' = 0 /\ multiecho_index' = 0
        /\ length' = <<>> /\ intensity' = <<>>
    BY <1>1 DEF receive_data
  <2> HIDE DEF c, ec
  <2>3. /\ Len(lines') = n + 1 /\ n \in Nat /\ End(text, 0) = 0
    BY <2>1, LinesAre
  <2>4. ReadLines' = 0
    <3>1. ReadLines' = n + 1 - Len(lines') BY <2>1 DEF ReadLines, ec
    <3> HIDE DEF n
    <3> QED BY <2>3, <3>1
  <2>5. LinesAhead'
    <3> HIDE DEF text, n
    <3>1. text = Text(scan'.cmd, scan'.echoes) /\ n = LineCount(text) BY <2>1 DEF text, ec, n
    <3>2. \A i \in 1 .. Len(lines') : 0 + i = i BY <2>3
    <3>3. \A i \in 1 .. Len(lines') : lines'[i] = InLines(text)[0 + i] BY <2>1, <3>2
    <3>4. 0 \in 0 .. n BY <2>3
    <3> QED BY <2>4, <3>1, <3>3, <3>4 DEF LinesAhead
  <2>6. BufferBehind'
    <3>1. Len(<<>>) = 0 /\ Place(c, ec, 0, 0) = 0 BY DEF Place
    <3>2. text = Text(scan'.cmd, scan'.echoes)
          /\ Place(scan'.cmd, scan'.echoes, step_filled', multiecho_index') = 0
      BY <2>1, <2>2, <3>1 DEF ec
    <3> HIDE DEF text
    <3> QED BY <2>2, <2>3, <2>4, <3>1, <3>2 DEF BufferBehind
  <2>7. Reached'
    <3>1. multiecho_max_size' \in {1, 3}
      BY DEF multiecho_max_size, URG_MAX_ECHO
    <3>2. 0 * multiecho_max_size' - 1 = -1
      <4>1. \A x \in {1, 3} : 0 * x - 1 = -1 OBVIOUS
      <4> QED BY <3>1, <4>1, Zenon
    <3>3. 0 .. -1 = {} /\ 0 .. 0 - 1 = {} /\ DOMAIN <<>> = {} OBVIOUS
    <3>4. LastPoint(c) \in Nat BY <2>1, LastPointIs, CommandIs DEF Sound
    <3>5. Filled(length, 0)' /\ Filled(intensity, 1)' BY <2>2, <3>2, <3>3 DEF Filled
    <3> QED BY <2>1, <2>2, <3>4, <3>5 DEF Reached
  <2> QED BY <2>2, <2>5, <2>6, <2>7 DEF AsSent
<1>2. CASE pc = "ready" /\ ~receive_data
  BY <1>2, IdleIs DEF AsSent
<1>3. CASE ReadLine
  BY <1>3, ReadSent
<1>4. CASE Decode
  BY <1>4, DecodeSent
<1>5. CASE Carry
  <2>1. /\ pc = "decode" /\ pc' = "line"
        /\ UNCHANGED <<scan, lines, buffer, step_filled, multiecho_index, length,
                       intensity, lost, garbled>>
    BY <1>5 DEF Carry, locals
  <2>2. Exact' = Exact BY <2>1 DEF Exact
  <2>3. ReadLines' = ReadLines /\ BufferBehind' = BufferBehind BY <2>1, BehindSame
  <2>4. LinesAhead' = LinesAhead BY <2>1, <2>3 DEF LinesAhead
  <2>5. Reached' = Reached BY <2>1, ReachedSame
  <2> QED BY <2>1, <2>2, <2>3, <2>4, <2>5 DEF IInv, AsSent
<1>6. CASE Used
  BY <1>6 DEF Used, AsSent
<1>7. CASE Lose
  <2>1. pc' = "line" /\ lost' = lost + 1 /\ lost \in Nat
    BY <1>7 DEF Lose, Fault, IInv, FilledSound
  <2>2. ~Exact' BY <2>1 DEF Exact
  <2> QED BY <2>1, <2>2 DEF AsSent
<1>8. CASE Garble
  <2>1. /\ pc = "line" /\ Len(lines') = Len(lines) /\ Len(lines) \in Nat \ {0}
        /\ ~lines'[1].sum /\ lines'[1].chars # <<>>
        /\ \A i \in 1 .. Len(lines) : i # 1 => lines'[i] = lines[i]
        /\ garbled' = garbled + 1 /\ garbled \in Nat
        /\ UNCHANGED <<pc, scan, buffer, step_filled, multiecho_index, length, intensity,
                       lost>>
    BY <1>8, GarbleIs DEF locals
  <2>2. CASE Exact'
    <3>1. Exact BY <2>1, <2>2 DEF Exact
    <3>2. Reached /\ LinesAhead /\ BufferBehind BY <2>1, <3>1 DEF IInv, AsSent
    <3>3. ReadLines' = ReadLines /\ BufferBehind' = BufferBehind BY <2>1, BehindSame
    <3>4. Reached' = Reached BY <2>1, ReachedSame
    <3>5. garbled' > 0 BY <2>1
    <3>6. LinesAhead' BY <2>1, <3>2, <3>3, <3>5 DEF LinesAhead
    <3> QED BY <2>1, <3>2, <3>3, <3>4, <3>6 DEF AsSent
  <2>3. CASE ~Exact'
    BY <2>3 DEF AsSent
  <2> QED BY <2>2, <2>3
<1> QED BY <1>1, <1>2, <1>3, <1>4, <1>5, <1>6, <1>7, <1>8, ActionIs

(***************************************************************************)
(* The theorems.                                                           *)
(***************************************************************************)
LEMMA Invariance == Spec => []IInv
<1>1. IInv /\ [Next]_vars => IInv'
  <2>1. IInv /\ Next => IInv'
    BY ParametersStep, ScanStep, LinesStep, FilledStep, UnmarkedStep, AsSentStep DEF IInv
  <2> QED BY <2>1, StutterStep
<1> QED BY <1>1, InitInv, PTL DEF Spec

\* The variables keep their types; every command that is sent is one for an area that
\* the sensor has.
THEOREM TypeCorrect == Spec => []TypeOK
BY Invariance, InvTypeOK, PTL

\* For every length of line: the buffer of receive_length_data has room for the next
\* line behind the characters carried over, however lines are lost or garbled.
THEOREM LinesAlwaysFit == Spec => []LinesFit
BY Invariance, InvLinesFit, PTL

\* For every sensor, area, grouping and length of line: receive_length_data writes
\* inside the arrays of the size the headers ask for.
THEOREM ArraysAreEnough == Spec => []InBounds
BY Invariance, InvInBounds, PTL

\* A scan that is reported holds every distance and intensity of every echo of every
\* point at its place, wherever its lines were cut, and no garbled scan is reported when
\* the checksums count.
THEOREM ReportedAsMeasured == Spec => []PointsInPlace
BY Invariance, InvPointsInPlace, PTL

\* urg_index2rad tells the direction of each point of the scan read last as long as the
\* grouping has not been changed.
THEOREM DirectionsWithoutRegrouping == Spec => []IndexWithoutRegrouping
BY Invariance, InvIndexWithoutRegrouping, PTL

\* urg_step2index finds each point of an ungrouped scan, whatever was asked for since.
THEOREM PointsAreFound == Spec => []StepsFindPoints
BY Invariance, InvStepsFindPoints, PTL
=============================================================================
