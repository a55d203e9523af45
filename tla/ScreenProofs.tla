----------------------------- MODULE ScreenProofs -----------------------------
(***************************************************************************)
(* Theorems about Screen, for every picture and all sizes: the decoder and *)
(* the buffers around it show what the compressed picture means.           *)
(*                                                                         *)
(* Meaning reads the bits of a picture token by token; the decoder reads   *)
(* the same bits byte by byte, through an input buffer that is filled in   *)
(* between, and copies out of a window that holds the last bytes only.     *)
(* Decodes says which token the decoder is in and what it has shown of it. *)
(*                                                                         *)
(* What the recursive functions of the model compute is proved from        *)
(* induction over sets of numbers: NatInduct follows from the theorem that *)
(* < is well-founded, PrimRec from NatInduct.                              *)
(***************************************************************************)
EXTENDS Screen, SequenceTheorems, WellFoundedInduction, TLAPS

-----------------------------------------------------------------------------
(* Induction and recursion over the numbers.                               *)

(* A set of numbers has a least element.                                   *)
LEMMA LeastElement ==
  ASSUME NEW T \in SUBSET Nat, T # {}
  PROVE  \E n \in T : \A m \in T : n <= m
<1> DEFINE R == OpToRel(<, Nat)
<1>1. IsWellFoundedOn(R, Nat)
  BY NatLessThanWellFounded
<1>2. \A x, y \in Nat : x < y => <<x, y>> \in R
  BY DEF OpToRel
<1> HIDE DEF R
<1>3. PICK n \in T : \A m \in T : <<m, n>> \notin R
  BY <1>1, WFMin
<1>4. ASSUME NEW m \in T PROVE n <= m
  <2>1. n \in Nat /\ m \in Nat
    OBVIOUS
  <2>2. ~ (m < n)
    BY <1>2, <1>3, <2>1
  <2> QED
    BY <2>1, <2>2
<1> QED
  BY <1>4

(* Induction over the numbers, for a set.                                  *)
LEMMA NatInduct ==
  ASSUME NEW S, 0 \in S, \A n \in Nat : n \in S => n + 1 \in S
  PROVE  Nat \subseteq S
<1> SUFFICES ASSUME ~(Nat \subseteq S) PROVE FALSE
  OBVIOUS
<1> DEFINE T == Nat \ S
<1>1. PICK n \in T : \A m \in T : n <= m
  BY LeastElement
<1>2. n # 0 /\ n \in Nat
  OBVIOUS
<1>3. n - 1 \in Nat /\ n - 1 \notin T
  BY <1>1, <1>2
<1>4. n - 1 + 1 \in S
  BY <1>3
<1> QED
  BY <1>2, <1>4

(* f is defined by recursion over the numbers: a at 0, h of the value      *)
(* before at every other.                                                  *)
ByRecursion(f, S, a, h) ==
  f \in [Nat -> S] /\ f[0] = a /\ \A n \in Nat : f[n + 1] = h[n][f[n]]

(* There is such a function: the recursive functions of the model have the *)
(* values their bodies say.                                                *)
LEMMA PrimRec ==
  ASSUME NEW S, NEW a \in S, NEW h \in [Nat -> [S -> S]]
  PROVE  \E f : ByRecursion(f, S, a, h)
<1> DEFINE Up(n) == {f \in [0 .. n -> S] :
                       f[0] = a /\ \A k \in 0 .. n : k < n => f[k + 1] = h[k][f[k]]}
<1>1. ASSUME NEW n \in Nat, NEW m \in Nat, NEW f \in Up(n), NEW g \in Up(m)
      PROVE  \A k \in Nat : k <= n /\ k <= m => f[k] = g[k]
  <2> DEFINE T == {k \in Nat : k <= n /\ k <= m => f[k] = g[k]}
  <2>1. 0 \in T
    OBVIOUS
  <2>2. ASSUME NEW k \in Nat, k \in T PROVE k + 1 \in T
    <3> SUFFICES ASSUME k + 1 <= n, k + 1 <= m PROVE f[k + 1] = g[k + 1]
      OBVIOUS
    <3>1. f[k] = g[k] /\ k \in 0 .. n /\ k \in 0 .. m /\ k < n /\ k < m
      BY <2>2
    <3> QED
      BY <3>1
  <2> HIDE DEF T
  <2>3. Nat \subseteq T
    BY <2>1, <2>2, NatInduct
  <2> QED
    BY <2>3 DEF T
<1>2. \A n \in Nat : Up(n) # {}
  <2> DEFINE T == {n \in Nat : Up(n) # {}}
  <2>1. 0 \in T
    <3>1. [k \in 0 .. 0 |-> a] \in Up(0)
      OBVIOUS
    <3> QED BY <3>1
  <2>2. ASSUME NEW n \in Nat, n \in T PROVE n + 1 \in T
    <3>1. PICK f : f \in Up(n)
      BY <2>2
    <3> DEFINE g == [k \in 0 .. n + 1 |-> IF k <= n THEN f[k] ELSE h[n][f[n]]]
    <3>2. h[n][f[n]] \in S
      BY <3>1
    <3>3. g \in [0 .. n + 1 -> S] /\ g[0] = a
      BY <3>1, <3>2
    <3>4. ASSUME NEW k \in 0 .. n + 1, k < n + 1 PROVE g[k + 1] = h[k][g[k]]
      BY <3>1, <3>4
    <3>5. g \in Up(n + 1)
      BY <3>3, <3>4
    <3>6. Up(n + 1) # {}
      <4> HIDE DEF Up, g
      <4> QED
        BY <3>5
    <3> HIDE DEF Up
    <3> QED
      BY <3>6
  <2> HIDE DEF T
  <2>3. Nat \subseteq T
    BY <2>1, <2>2, NatInduct
  <2> QED
    BY <2>3 DEF T
<1> DEFINE c == [n \in Nat |-> CHOOSE f : f \in Up(n)]
           F == [n \in Nat |-> c[n][n]]
<1>3. \A n \in Nat : c[n] \in Up(n)
  <2> HIDE DEF Up
  <2> QED
    BY <1>2
<1> HIDE DEF c
<1>4. F \in [Nat -> S] /\ F[0] = a
  BY <1>3
<1>5. ASSUME NEW n \in Nat PROVE F[n + 1] = h[n][F[n]]
  <2>1. c[n] \in Up(n) /\ c[n + 1] \in Up(n + 1)
    BY <1>3
  <2>2. F[n] = c[n][n] /\ F[n + 1] = c[n + 1][n + 1]
    OBVIOUS
  <2>3. c[n][n] = c[n + 1][n]
    <3> HIDE DEF Up
    <3> QED
      BY <1>1, <2>1
  <2>4. c[n + 1][n + 1] = h[n][c[n + 1][n]]
    BY <2>1
  <2> HIDE DEF F
  <2> QED
    BY <2>2, <2>3, <2>4
<1>6. ByRecursion(F, S, a, h)
  <2> HIDE DEF F
  <2> QED
    BY <1>4, <1>5 DEF ByRecursion
<1> QED
  BY <1>6


(* The recursive function PowerOf2.                                        *)
LEMMA Powers ==
  /\ PowerOf2 \in [Nat -> Nat \ {0}]
  /\ PowerOf2[0] = 1
  /\ \A n \in Nat : PowerOf2[n + 1] = 2 * PowerOf2[n]
<1> DEFINE P == Nat \ {0}
           one == 1
           h == [n \in Nat |-> [v \in P |-> 2 * v]]
<1>1. one \in P /\ h \in [Nat -> [P -> P]] /\ \A n \in Nat, v \in P : h[n][v] = 2 * v
  OBVIOUS
<1> HIDE DEF h
<1>2. PICK f : ByRecursion(f, P, one, h)
  <2> HIDE DEF P, one
  <2> QED
    BY <1>1, PrimRec
<1>3. f = [n \in Nat |-> IF n = 0 THEN 1 ELSE 2 * f[n - 1]]
  <2>1. ASSUME NEW n \in Nat PROVE f[n] = IF n = 0 THEN 1 ELSE 2 * f[n - 1]
    <3>1. CASE n = 0
      BY <1>2, <3>1 DEF ByRecursion
    <3>2. CASE n # 0
      <4>1. n - 1 \in Nat /\ n - 1 + 1 = n
        BY <3>2
      <4> QED
        BY <1>1, <1>2, <3>2, <4>1 DEF ByRecursion
    <3> QED
      BY <3>1, <3>2
  <2> QED
    BY <1>2, <2>1 DEF ByRecursion
<1>4. PowerOf2 = [n \in Nat |-> IF n = 0 THEN 1 ELSE 2 * PowerOf2[n - 1]]
  BY <1>3 DEF PowerOf2
<1>5. \A n \in Nat : PowerOf2[n] = IF n = 0 THEN 1 ELSE 2 * PowerOf2[n - 1]
  BY <1>4
<1> DEFINE T == {n \in Nat : PowerOf2[n] \in P}
<1>6. 0 \in T
  BY <1>5
<1>7. ASSUME NEW n \in Nat, n \in T PROVE n + 1 \in T
  BY <1>5, <1>7
<1>8. Nat \subseteq T
  <2> HIDE DEF T
  <2> QED BY <1>6, <1>7, NatInduct
<1> QED
  BY <1>4, <1>5, <1>8

-----------------------------------------------------------------------------
(* Quotients and remainders.                                               *)

(* Quotient and remainder of a number given by both.                       *)
LEMMA DivMod ==
  ASSUME NEW d \in Nat \ {0}, NEW q \in Int, NEW r \in 0 .. d - 1
  PROVE  (d * q + r) \div d = q /\ (d * q + r) % d = r
  OBVIOUS

(* Every number is given by a quotient and a remainder.                    *)
LEMMA Quotient ==
  ASSUME NEW d \in Nat \ {0}, NEW x \in Nat
  PROVE  \E q \in Nat, r \in 0 .. d - 1 : x = d * q + r
<1> DEFINE T == {n \in Nat : \E q \in Nat, r \in 0 .. d - 1 : n = d * q + r}
<1>1. 0 \in T
  <2>1. 0 = d * 0 + 0 /\ 0 \in 0 .. d - 1
    OBVIOUS
  <2> QED
    BY <2>1
<1>2. ASSUME NEW n \in Nat, n \in T PROVE n + 1 \in T
  <2>1. PICK q \in Nat, r \in 0 .. d - 1 : n = d * q + r
    BY <1>2
  <2>2. CASE r + 1 < d
    <3>1. n + 1 = d * q + (r + 1) /\ r + 1 \in 0 .. d - 1
      BY <2>1, <2>2
    <3> QED
      BY <3>1
  <2>3. CASE r + 1 = d
    <3> DEFINE k == q + 1
    <3>1. n + 1 = d * k + 0 /\ 0 \in 0 .. d - 1 /\ k \in Nat /\ n + 1 \in Nat
      BY <2>1, <2>3
    <3> HIDE DEF k
    <3> QED
      BY <3>1, Zenon
  <2> QED
    BY <2>2, <2>3
<1> HIDE DEF T
<1>3. Nat \subseteq T
  BY <1>1, <1>2, NatInduct
<1> QED
  BY <1>3 DEF T

(* A whole turn leaves the remainder.                                      *)
LEMMA ModSub ==
  ASSUME NEW d \in Nat \ {0}, NEW k \in Nat
  PROVE  (k + d) % d = k % d
<1>1. PICK q \in Nat, r \in 0 .. d - 1 : k = d * q + r
  BY Quotient
<1>2. k + d = d * (q + 1) + r /\ q + 1 \in Int
  BY <1>1
<1> QED
  BY <1>1, <1>2, DivMod

(* Back from a place in the window of the decoder.                         *)
LEMMA ModBack ==
  ASSUME NEW w \in Nat \ {0}, NEW h \in 0 .. w - 1, NEW k \in 1 .. w
  PROVE  (h - k) % w = IF k <= h THEN h - k ELSE h - k + w
  OBVIOUS

(* The place that follows in the window.                                   *)
LEMMA ModNext ==
  ASSUME NEW w \in Nat \ {0}, NEW h \in 0 .. w - 1
  PROVE  (h + 1) % w = IF h + 1 = w THEN 0 ELSE h + 1
  OBVIOUS

-----------------------------------------------------------------------------
(* Bytes and their bits.                                                   *)

(* A byte is a sequence of ByteBits bits.                                  *)
LEMMA ByteIsBits ==
  /\ ByteBits \in Nat \ {0}
  /\ \A b \in Bytes : b \in Seq(Bit) /\ Len(b) = ByteBits /\ \A i \in 1 .. ByteBits : b[i] \in Bit
<1>1. ByteBits \in Nat \ {0}
  BY HeatshrinkAssumption
<1>2. ASSUME NEW b \in Bytes PROVE b \in Seq(Bit) /\ Len(b) = ByteBits
  BY <1>1, <1>2 DEF Bytes
<1> QED
  BY <1>1, <1>2 DEF Bytes

(* Every bit of n bytes is bit i of byte j.                                *)
LEMMA Place ==
  ASSUME NEW n \in Nat, NEW k \in 1 .. ByteBits * n
  PROVE  \E j \in 1 .. n, i \in 1 .. ByteBits :
            /\ k = ByteBits * (j - 1) + i
            /\ j = 1 + (k - 1) \div ByteBits /\ i = 1 + ((k - 1) % ByteBits)
<1>1. ByteBits \in Nat \ {0} /\ k - 1 \in Nat
  BY HeatshrinkAssumption
<1>2. PICK q \in Nat, r \in 0 .. ByteBits - 1 : k - 1 = ByteBits * q + r
  BY <1>1, Quotient
<1>3. (k - 1) \div ByteBits = q /\ (k - 1) % ByteBits = r
  BY <1>1, <1>2, DivMod
<1>4. q + 1 <= n
  <2> SUFFICES ASSUME q >= n PROVE FALSE
    BY <1>2
  <2>1. ByteBits * q >= ByteBits * n
    BY <1>1
  <2> QED
    BY <1>1, <1>2, <2>1
<1>5. q + 1 \in 1 .. n /\ r + 1 \in 1 .. ByteBits /\ k = ByteBits * (q + 1 - 1) + (r + 1)
  BY <1>1, <1>2, <1>4
<1> QED
  BY <1>3, <1>5

(* Bit r of byte q is among the bits of n bytes.                           *)
LEMMA PlaceIn ==
  ASSUME NEW n \in Nat, NEW q \in 0 .. n - 1, NEW r \in 0 .. ByteBits - 1
  PROVE  /\ ByteBits * q + r + 1 \in 1 .. ByteBits * n
         /\ (ByteBits * q + r) \div ByteBits = q
         /\ (ByteBits * q + r) % ByteBits = r
<1>1. ByteBits \in Nat \ {0}
  BY HeatshrinkAssumption
<1>2. ByteBits * q <= ByteBits * (n - 1)
  BY <1>1
<1>3. ByteBits * (n - 1) + ByteBits = ByteBits * n /\ ByteBits * q \in Nat
  BY <1>1
<1>4. ByteBits * q + r + 1 \in 1 .. ByteBits * n
  BY <1>1, <1>2, <1>3
<1> QED
  BY <1>1, <1>4, DivMod

(* What BitsOf gives: bit i of byte j at its place.                        *)
LEMMA BitsOfIs ==
  ASSUME NEW s \in Seq(Bytes)
  PROVE  /\ BitsOf(s) \in Seq(Bit) /\ Len(BitsOf(s)) = ByteBits * Len(s)
         /\ ByteBits * Len(s) \in Nat
         /\ \A j \in 1 .. Len(s), i \in 1 .. ByteBits :
               BitsOf(s)[ByteBits * (j - 1) + i] = s[j][i]
<1> DEFINE n == ByteBits * Len(s)
           e(k) == s[1 + (k - 1) \div ByteBits][1 + ((k - 1) % ByteBits)]
<1>1. n \in Nat
  BY ByteIsBits
<1>2. ASSUME NEW k \in 1 .. n PROVE e(k) \in Bit
  <2>1. PICK j \in 1 .. Len(s), i \in 1 .. ByteBits :
              j = 1 + (k - 1) \div ByteBits /\ i = 1 + ((k - 1) % ByteBits)
    <3> DEFINE l == Len(s)
    <3>1. l \in Nat /\ k \in 1 .. ByteBits * l
      BY <1>2
    <3> HIDE DEF l
    <3>2. \E j \in 1 .. l, i \in 1 .. ByteBits :
             /\ k = ByteBits * (j - 1) + i
             /\ j = 1 + (k - 1) \div ByteBits /\ i = 1 + ((k - 1) % ByteBits)
      BY <3>1, Place
    <3> QED
      BY <3>2 DEF l
  <2>2. s[j] \in Bytes
    OBVIOUS
  <2> QED
    BY <2>1, <2>2, ByteIsBits
<1>3. BitsOf(s) = [k \in 1 .. n |-> e(k)]
  BY DEF BitsOf
<1>4. BitsOf(s) \in [1 .. n -> Bit]
  BY <1>2, <1>3
<1>5. BitsOf(s) \in Seq(Bit) /\ Len(BitsOf(s)) = n
  BY <1>1, <1>4
<1>6. ASSUME NEW j \in 1 .. Len(s), NEW i \in 1 .. ByteBits
      PROVE  BitsOf(s)[ByteBits * (j - 1) + i] = s[j][i]
  <2> DEFINE q == j - 1
             r == i - 1
             k == ByteBits * q + r + 1
  <2>1. q \in 0 .. Len(s) - 1 /\ r \in 0 .. ByteBits - 1 /\ Len(s) \in Nat
    BY ByteIsBits
  <2>2. 1 + q = j /\ 1 + r = i /\ k = ByteBits * (j - 1) + i /\ k - 1 = ByteBits * q + r
    BY ByteIsBits
  <2> HIDE DEF q, r
  <2>3. k \in 1 .. n /\ (k - 1) \div ByteBits = q /\ (k - 1) % ByteBits = r
    BY <2>1, <2>2, PlaceIn
  <2> HIDE DEF k
  <2>4. BitsOf(s)[k] = e(k)
    BY <1>3, <2>3
  <2>5. e(k) = s[1 + q][1 + r]
    BY <2>3
  <2> QED
    BY <2>2, <2>4, <2>5
<1> QED
  BY <1>1, <1>5, <1>6

(* Bit i of byte j is among the bits of n bytes.                           *)
LEMMA InRange ==
  ASSUME NEW n \in Nat, NEW j \in 1 .. n, NEW i \in 1 .. ByteBits
  PROVE  ByteBits * (j - 1) + i \in 1 .. ByteBits * n
<1>1. j - 1 \in 0 .. n - 1 /\ i - 1 \in 0 .. ByteBits - 1
  BY ByteIsBits
<1>2. ByteBits * (j - 1) + (i - 1) + 1 \in 1 .. ByteBits * n
  BY <1>1, PlaceIn
<1> QED
  BY <1>2, ByteIsBits

(* The bits of bytes are the only sequence with those values.              *)
LEMMA SameBits ==
  ASSUME NEW s \in Seq(Bytes), NEW t \in Seq(Bit), Len(t) = ByteBits * Len(s),
         \A j \in 1 .. Len(s), i \in 1 .. ByteBits : t[ByteBits * (j - 1) + i] = s[j][i]
  PROVE  t = BitsOf(s)
<1>1. ASSUME NEW k \in 1 .. Len(t) PROVE t[k] = BitsOf(s)[k]
  <2>1. Len(s) \in Nat /\ k \in 1 .. ByteBits * Len(s)
    OBVIOUS
  <2>2. PICK j \in 1 .. Len(s), i \in 1 .. ByteBits : k = ByteBits * (j - 1) + i
    BY <2>1, Place
  <2> QED
    BY <2>2, BitsOfIs
<1> QED
  BY <1>1, BitsOfIs, SeqEqual

(* The bits of bytes one after the other are their bits one after the      *)
(* other.                                                                  *)
LEMMA BitsOfConcat ==
  ASSUME NEW s \in Seq(Bytes), NEW t \in Seq(Bytes)
  PROVE  BitsOf(s \o t) = BitsOf(s) \o BitsOf(t)
<1> DEFINE u == BitsOf(s) \o BitsOf(t)
           m == Len(s)
           n == Len(t)
<1>1. m \in Nat /\ n \in Nat /\ s \o t \in Seq(Bytes) /\ Len(s \o t) = m + n
  OBVIOUS
<1>2. /\ BitsOf(s) \in Seq(Bit) /\ Len(BitsOf(s)) = ByteBits * m /\ ByteBits * m \in Nat
      /\ BitsOf(t) \in Seq(Bit) /\ Len(BitsOf(t)) = ByteBits * n /\ ByteBits * n \in Nat
  BY BitsOfIs
<1>3. ByteBits * m + ByteBits * n = ByteBits * (m + n)
  BY <1>1, ByteIsBits
<1>4. u \in Seq(Bit) /\ Len(u) = ByteBits * Len(s \o t)
  <2>1. u \in Seq(Bit) /\ Len(u) = Len(BitsOf(s)) + Len(BitsOf(t))
    BY <1>2, ConcatProperties
  <2> HIDE DEF u
  <2> QED
    BY <1>1, <1>2, <1>3, <2>1
<1>5. ASSUME NEW j \in 1 .. Len(s \o t), NEW i \in 1 .. ByteBits
      PROVE  u[ByteBits * (j - 1) + i] = (s \o t)[j][i]
  <2> DEFINE k == ByteBits * (j - 1) + i
  <2>1. CASE j <= m
    <3>1. j \in 1 .. m
      BY <1>1, <2>1
    <3>2. k \in 1 .. ByteBits * m
      BY <1>1, <3>1, InRange
    <3>3. BitsOf(s)[k] = s[j][i]
      BY <3>1, BitsOfIs
    <3>4. u[k] = BitsOf(s)[k]
      <4> HIDE DEF k
      <4> QED
        BY <1>2, <3>2
    <3>5. (s \o t)[j] = s[j]
      BY <1>1, <3>1
    <3> QED
      BY <3>3, <3>4, <3>5
  <2>2. CASE j > m
    <3> DEFINE jj == j - m
    <3>1. jj \in 1 .. n
      BY <1>1, <2>2
    <3>2. k = ByteBits * m + (ByteBits * (jj - 1) + i)
      BY <1>1, <3>1, ByteIsBits
    <3>3. ByteBits * (jj - 1) + i \in 1 .. ByteBits * n
      <4> HIDE DEF jj
      <4> QED
        BY <1>1, <3>1, InRange
    <3>4. BitsOf(t)[ByteBits * (jj - 1) + i] = t[jj][i]
      <4> HIDE DEF jj
      <4> QED
        BY <3>1, BitsOfIs
    <3> DEFINE kk == ByteBits * (jj - 1) + i
               z == ByteBits * m
    <3>5. (BitsOf(s) \o BitsOf(t))[z + kk] = BitsOf(t)[kk]
      <4>1. z \in Nat /\ kk \in 1 .. ByteBits * n /\ Len(BitsOf(s)) = z
        BY <1>2, <3>3
      <4> HIDE DEF kk, z
      <4> QED
        BY <1>2, <4>1
    <3>6. (s \o t)[j] = t[jj]
      BY <1>1, <3>1
    <3> QED
      BY <3>2, <3>4, <3>5, <3>6
  <2>3. j <= m \/ j > m
    BY <1>1
  <2> HIDE DEF k, u, m
  <2> QED
    BY <2>1, <2>2, <2>3
<1> HIDE DEF u
<1>6. u = BitsOf(s \o t)
  BY <1>1, <1>4, <1>5, SameBits
<1> QED
  BY <1>6 DEF u

(* The bits of no byte, and of one.                                        *)
LEMMA BitsOfOne ==
  /\ BitsOf(<<>>) = <<>>
  /\ \A b \in Bytes : BitsOf(<<b>>) = b
<1>1. BitsOf(<<>>) = <<>>
  <2> DEFINE none == <<>>
  <2>1. none \in Seq(Bytes) /\ Len(none) = 0
    OBVIOUS
  <2>2. BitsOf(none) \in Seq(Bit) /\ Len(BitsOf(none)) = 0
    <3> HIDE DEF none
    <3>1. BitsOf(none) \in Seq(Bit) /\ Len(BitsOf(none)) = ByteBits * Len(none)
      BY <2>1, BitsOfIs
    <3>2. ByteBits * 0 = 0
      BY ByteIsBits
    <3> QED
      BY <2>1, <3>1, <3>2
  <2> HIDE DEF none
  <2>3. BitsOf(none) = <<>>
    BY <2>2, EmptySeq
  <2> QED
    BY <2>3 DEF none
<1>2. ASSUME NEW b \in Bytes PROVE BitsOf(<<b>>) = b
  <2>1. <<b>> \in Seq(Bytes) /\ Len(<<b>>) = 1 /\ b \in Seq(Bit) /\ Len(b) = ByteBits * 1
    BY ByteIsBits
  <2>2. ASSUME NEW j \in 1 .. 1, NEW i \in 1 .. ByteBits
        PROVE  b[ByteBits * (j - 1) + i] = <<b>>[j][i]
    <3>1. j = 1 /\ ByteBits * (j - 1) + i = i
      BY ByteIsBits
    <3> QED
      BY <3>1
  <2> QED
    BY <2>1, <2>2, SameBits
<1> QED
  BY <1>1, <1>2

(* A byte more is its bits more.                                           *)
LEMMA BitsOfAppend ==
  ASSUME NEW s \in Seq(Bytes), NEW b \in Bytes
  PROVE  BitsOf(Append(s, b)) = BitsOf(s) \o b
<1>1. Append(s, b) = s \o <<b>> /\ <<b>> \in Seq(Bytes)
  BY AppendIsConcat
<1> QED
  BY <1>1, BitsOfConcat, BitsOfOne

(* Bytes cut in two are bits cut in two.                                   *)
LEMMA BitsOfSplit ==
  ASSUME NEW s \in Seq(Bytes), NEW n \in 0 .. Len(s)
  PROVE  /\ SubSeq(s, 1, n) \in Seq(Bytes) /\ SubSeq(s, n + 1, Len(s)) \in Seq(Bytes)
         /\ Len(SubSeq(s, 1, n)) = n /\ Len(SubSeq(s, n + 1, Len(s))) = Len(s) - n
         /\ BitsOf(s) = BitsOf(SubSeq(s, 1, n)) \o BitsOf(SubSeq(s, n + 1, Len(s)))
<1>1. /\ SubSeq(s, 1, n) \in Seq(Bytes) /\ SubSeq(s, n + 1, Len(s)) \in Seq(Bytes)
      /\ Len(SubSeq(s, 1, n)) = n /\ Len(SubSeq(s, n + 1, Len(s))) = Len(s) - n
  OBVIOUS
<1>2. SubSeq(s, 1, n) \o SubSeq(s, n + 1, Len(s)) = s
  <2>1. /\ Len(s) \in Nat /\ 1 \in 1 .. Len(s) + 1
        /\ n \in 1 - 1 .. Len(s) /\ Len(s) \in n .. Len(s)
    OBVIOUS
  <2>2. SubSeq(s, 1, n) \o SubSeq(s, n + 1, Len(s)) = SubSeq(s, 1, Len(s))
    BY <2>1, ConcatAdjacentSubSeq
  <2> QED
    BY <2>2, SubSeqFull
<1> QED
  BY <1>1, <1>2, BitsOfConcat

(* A field of n bits stands for a number below the n-th power of 2: what   *)
(* get_bits returns fits its field.                                        *)
LEMMA ValueRange ==
  ASSUME NEW bits \in Seq(Bit)
  PROVE  Value(bits) \in 0 .. PowerOf2[Len(bits)] - 1
<1> DEFINE L == Len(bits)
           zero == 0
           h == [n \in Nat |-> [v \in Nat |-> IF n < L THEN 2 * v + bits[n + 1] ELSE v]]
<1>1. L \in Nat /\ \A n \in 1 .. L : bits[n] \in {0, 1}
  BY DEF Bit
<1>2. zero \in Nat /\ h \in [Nat -> [Nat -> Nat]]
  BY <1>1
<1>3. \A n \in Nat, v \in Nat : n < L => h[n][v] = 2 * v + bits[n + 1]
  OBVIOUS
<1> HIDE DEF h
<1>4. PICK f : ByRecursion(f, Nat, zero, h)
  <2> HIDE DEF zero
  <2> QED
    BY <1>2, PrimRec
<1> DEFINE g == [n \in 0 .. L |-> f[n]]
           E(w) == [n \in 0 .. L |-> IF n = 0 THEN 0 ELSE 2 * w[n - 1] + bits[n]]
           First == CHOOSE w : w = E(w)
<1>5. g = E(g)
  <2>1. ASSUME NEW n \in 0 .. L
        PROVE  g[n] = IF n = 0 THEN 0 ELSE 2 * g[n - 1] + bits[n]
    <3>1. CASE n = 0
      BY <1>1, <1>4, <3>1 DEF ByRecursion
    <3>2. CASE n # 0
      <4>1. n - 1 \in Nat /\ n - 1 < L /\ n - 1 + 1 = n /\ n - 1 \in 0 .. L
        BY <1>1, <3>2
      <4>2. f[n] = h[n - 1][f[n - 1]] /\ f[n - 1] \in Nat
        BY <1>4, <4>1 DEF ByRecursion
      <4>3. f[n] = 2 * f[n - 1] + bits[n]
        BY <1>3, <4>1, <4>2
      <4>4. g[n] = f[n] /\ g[n - 1] = f[n - 1]
        BY <4>1
      <4> QED
        BY <3>2, <4>3, <4>4
    <3> QED
      BY <3>1, <3>2
  <2> HIDE DEF L
  <2> QED
    BY <2>1
<1>6. First = E(First)
  <2> HIDE DEF g, E
  <2> QED
    BY <1>5
<1>7. Value(bits) = First[L]
  BY DEF Value
<1> HIDE DEF First
<1>8. /\ First[0] = 0
      /\ \A n \in Nat : n + 1 \in 0 .. L => First[n + 1] = 2 * First[n] + bits[n + 1]
  <2>1. \A n \in 0 .. L : First[n] = IF n = 0 THEN 0 ELSE 2 * First[n - 1] + bits[n]
    BY <1>6, Zenon
  <2> QED
    BY <1>1, <2>1
<1> DEFINE T == {n \in Nat : n <= L => First[n] \in 0 .. PowerOf2[n] - 1}
<1>9. 0 \in T
  <2>1. First[0] \in 0 .. PowerOf2[0] - 1
    BY <1>8, Powers
  <2> QED
    BY <2>1
<1>10. ASSUME NEW n \in Nat, n \in T PROVE n + 1 \in T
  <2> SUFFICES ASSUME n + 1 <= L PROVE First[n + 1] \in 0 .. PowerOf2[n + 1] - 1
    OBVIOUS
  <2>1. First[n] \in 0 .. PowerOf2[n] - 1 /\ n <= L /\ n + 1 \in 1 .. L
    BY <1>1, <1>10
  <2>2. First[n + 1] = 2 * First[n] + bits[n + 1] /\ bits[n + 1] \in {0, 1}
    BY <1>1, <1>8, <2>1
  <2>3. PowerOf2[n + 1] = 2 * PowerOf2[n] /\ PowerOf2[n] \in Nat
    BY Powers
  <2> QED
    BY <2>1, <2>2, <2>3
<1>11. Nat \subseteq T
  <2> HIDE DEF T
  <2> QED
    BY <1>9, <1>10, NatInduct
<1>12. L \in T
  BY <1>1, <1>11
<1> QED
  BY <1>1, <1>7, <1>12

-----------------------------------------------------------------------------
(* What a token shows.                                                     *)

(* t begins with s.                                                        *)
Begins(s, t) == Len(s) <= Len(t) /\ \A i \in 1 .. Len(s) : s[i] = t[i]

(* The bytes of the cleared window.                                        *)
LEMMA NoByteIsByte == NoByte \in Bytes
  BY DEF NoByte, Bytes, Bit

(* The byte j of a repetition.                                             *)
RepeatedAt(out, index, j) ==
  LET k == Len(out) - index + 1 + ((j - 1) % index)
  IN IF k < 1 THEN NoByte ELSE out[k]

(* What Repeat gives: what was shown, and the repetition behind it.        *)
LEMMA RepeatIs ==
  ASSUME NEW out \in Seq(Bytes), NEW index \in Nat \ {0}, NEW count \in Nat
  PROVE  /\ Repeat(out, index, count) \in Seq(Bytes)
         /\ Len(Repeat(out, index, count)) = Len(out) + count
         /\ \A i \in 1 .. Len(out) : Repeat(out, index, count)[i] = out[i]
         /\ \A j \in 1 .. count :
              Repeat(out, index, count)[Len(out) + j] = RepeatedAt(out, index, j)
<1> DEFINE e(j) == RepeatedAt(out, index, j)
           more == [j \in 1 .. count |-> e(j)]
<1>1. ASSUME NEW j \in 1 .. count PROVE e(j) \in Bytes
  <2> DEFINE k == Len(out) - index + 1 + ((j - 1) % index)
  <2>1. (j - 1) % index \in 0 .. index - 1
    OBVIOUS
  <2>2. k \in Int /\ k <= Len(out)
    BY <2>1
  <2> HIDE DEF k
  <2>3. k >= 1 => out[k] \in Bytes
    BY <2>2
  <2>4. e(j) = IF k < 1 THEN NoByte ELSE out[k]
    BY DEF k, RepeatedAt
  <2> QED
    BY <2>2, <2>3, <2>4, NoByteIsByte
<1>2. more \in [1 .. count -> Bytes]
  BY <1>1
<1>3. more \in Seq(Bytes) /\ Len(more) = count /\ \A j \in 1 .. count : more[j] = e(j)
  BY <1>2
<1>4. Repeat(out, index, count) = out \o more
  BY DEF Repeat, RepeatedAt
<1> HIDE DEF more
<1>5. /\ out \o more \in Seq(Bytes) /\ Len(out \o more) = Len(out) + count
      /\ \A i \in 1 .. Len(out) : (out \o more)[i] = out[i]
  BY <1>3
<1>6. ASSUME NEW j \in 1 .. count PROVE (out \o more)[Len(out) + j] = e(j)
  BY <1>3
<1> QED
  BY <1>4, <1>5, <1>6

(* A repetition that is not complete begins the complete one.              *)
LEMMA RepeatBegins ==
  ASSUME NEW out \in Seq(Bytes), NEW index \in Nat \ {0}, NEW few \in Nat, NEW count \in Nat,
         few <= count
  PROVE  /\ Begins(Repeat(out, index, few), Repeat(out, index, count))
         /\ Repeat(out, index, count) \in Seq(Bytes)
<1> DEFINE s == Repeat(out, index, few)
           t == Repeat(out, index, count)
           n == Len(out)
<1>1. /\ Len(s) = n + few /\ \A i \in 1 .. n : s[i] = out[i]
      /\ \A j \in 1 .. few : s[n + j] = RepeatedAt(out, index, j)
  BY RepeatIs
<1>2. /\ Len(t) = n + count /\ \A i \in 1 .. n : t[i] = out[i]
      /\ \A j \in 1 .. count : t[n + j] = RepeatedAt(out, index, j)
      /\ t \in Seq(Bytes)
  BY RepeatIs
<1>3. n \in Nat
  OBVIOUS
<1> HIDE DEF s, t, n
<1>4. ASSUME NEW i \in 1 .. n + few PROVE s[i] = t[i]
  <2>1. CASE i <= n
    BY <1>1, <1>2, <1>3, <2>1
  <2>2. CASE i > n
    <3> DEFINE j == i - n
    <3>1. j \in 1 .. few /\ j \in 1 .. count /\ n + j = i
      BY <1>3, <2>2
    <3> HIDE DEF j
    <3> QED
      BY <1>1, <1>2, <3>1
  <2> QED
    BY <1>3, <2>1, <2>2
<1> QED
  BY <1>1, <1>2, <1>3, <1>4 DEF Begins, s, t

(* Nothing repeated yet.                                                   *)
LEMMA RepeatNone ==
  ASSUME NEW out \in Seq(Bytes), NEW index \in Nat \ {0}
  PROVE  Repeat(out, index, 0) = out
<1> DEFINE none == 0
<1>1. none \in Nat /\ Len(out) + none = Len(out)
  OBVIOUS
<1> HIDE DEF none
<1>2. /\ Repeat(out, index, none) \in Seq(Bytes) /\ Len(Repeat(out, index, none)) = Len(out)
      /\ \A i \in 1 .. Len(out) : Repeat(out, index, none)[i] = out[i]
  BY <1>1, RepeatIs
<1>3. Repeat(out, index, none) = out
  BY <1>2, SeqEqual
<1> QED
  BY <1>3 DEF none

(* A repetition is one byte longer when the byte index before its end is   *)
(* appended, one that it has added itself as well: Repeat, which copies    *)
(* out of what was shown before, agrees with the decoder, which copies     *)
(* byte after byte.                                                        *)
LEMMA RepeatMore ==
  ASSUME NEW out \in Seq(Bytes), NEW index \in Nat \ {0}, NEW count \in Nat, NEW byte,
         LET so == Repeat(out, index, count)
             k  == Len(so) + 1 - index
         IN byte = IF k < 1 THEN NoByte ELSE so[k]
  PROVE  Repeat(out, index, count + 1) = Append(Repeat(out, index, count), byte)
<1> DEFINE so   == Repeat(out, index, count)
           more == Repeat(out, index, count + 1)
           n    == Len(out)
           k    == n + count + 1 - index
           at1(j) == n - index + 1 + ((j - 1) % index)
           c1   == count + 1
<1>1. /\ n \in Nat /\ so \in Seq(Bytes) /\ Len(so) = n + count
      /\ \A i \in 1 .. n : so[i] = out[i]
      /\ \A j \in 1 .. count : so[n + j] = RepeatedAt(out, index, j)
  <2>1. n \in Nat
    OBVIOUS
  <2>2. /\ so \in Seq(Bytes) /\ Len(so) = n + count
        /\ \A i \in 1 .. n : so[i] = out[i]
        /\ \A j \in 1 .. count : so[n + j] = RepeatedAt(out, index, j)
    BY RepeatIs, Zenon
  <2> QED
    BY <2>1, <2>2
<1>2. /\ more \in Seq(Bytes) /\ Len(more) = n + count + 1
      /\ \A i \in 1 .. n : more[i] = out[i]
      /\ \A j \in 1 .. count + 1 : more[n + j] = RepeatedAt(out, index, j)
  <2>1. c1 \in Nat
    OBVIOUS
  <2>2. /\ Repeat(out, index, c1) \in Seq(Bytes)
        /\ Len(Repeat(out, index, c1)) = n + c1
        /\ \A i \in 1 .. n : Repeat(out, index, c1)[i] = out[i]
        /\ \A j \in 1 .. c1 : Repeat(out, index, c1)[n + j] = RepeatedAt(out, index, j)
    <3> HIDE DEF c1
    <3> QED
      BY <2>1, RepeatIs
  <2> QED
    BY <1>1, <2>2
<1>3. byte = IF k < 1 THEN NoByte ELSE so[k]
  BY <1>1
<1>0. \A j : RepeatedAt(out, index, j) = IF at1(j) < 1 THEN NoByte ELSE out[at1(j)]
  BY DEF RepeatedAt
<1> HIDE DEF so, more, at1
<1>4. more[n + count + 1] = IF at1(count + 1) < 1 THEN NoByte ELSE out[at1(count + 1)]
  <2>1. more[n + (count + 1)] = RepeatedAt(out, index, count + 1)
    BY <1>2
  <2>2. n + (count + 1) = n + count + 1
    BY <1>1
  <2> QED
    BY <1>0, <2>1, <2>2
<1>5. byte = more[n + count + 1]
  <2>1. CASE count < index
    <3>1. count % index = count
      BY <2>1
    <3>2. at1(count + 1) = k /\ k \in Int /\ k <= n
      BY <1>1, <2>1, <3>1 DEF at1
    <3>3. k >= 1 => so[k] = out[k]
      BY <1>1, <3>2
    <3> QED
      BY <1>3, <1>4, <3>2, <3>3
  <2>2. CASE count >= index
    <3> DEFINE j == count + 1 - index
    <3>1. j \in 1 .. count /\ k = n + j /\ k >= 1 /\ j - 1 \in Nat /\ j - 1 + index = count
      BY <1>1, <2>2
    <3>2. count % index = (j - 1) % index
      <4> HIDE DEF j
      <4> QED
        BY <3>1, ModSub
    <3>3. at1(count + 1) = at1(j)
      BY <3>2 DEF at1
    <3>4. so[k] = IF at1(j) < 1 THEN NoByte ELSE out[at1(j)]
      <4> HIDE DEF j
      <4>1. so[n + j] = RepeatedAt(out, index, j)
        BY <1>1, <3>1
      <4>2. so[k] = so[n + j]
        BY <3>1
      <4> QED
        BY <1>0, <4>1, <4>2
    <3>5. byte = so[k]
      <4>1. ~ (k < 1)
        BY <1>1, <3>1
      <4> HIDE DEF k
      <4> QED
        BY <1>3, <4>1
    <3>6. more[n + count + 1] = IF at1(j) < 1 THEN NoByte ELSE out[at1(j)]
      BY <1>4, <3>3, Zenon
    <3> HIDE DEF j, k
    <3> QED
      BY <3>4, <3>5, <3>6
  <2> QED
    BY <2>1, <2>2
<1>6. byte \in Bytes
  BY <1>2, <1>5
<1>7. ASSUME NEW i \in 1 .. n + count PROVE more[i] = so[i]
  <2>1. CASE i <= n
    BY <1>1, <1>2, <2>1
  <2>2. CASE i > n
    <3> DEFINE j == i - n
    <3>1. j \in 1 .. count /\ j \in 1 .. count + 1 /\ i = n + j
      BY <1>1, <2>2
    <3> HIDE DEF j
    <3> QED
      BY <1>1, <1>2, <3>1
  <2> QED
    BY <1>1, <2>1, <2>2
<1>8. Append(so, byte) \in Seq(Bytes) /\ Len(Append(so, byte)) = n + count + 1
  BY <1>1, <1>6
<1>9. ASSUME NEW i \in 1 .. n + count + 1 PROVE more[i] = Append(so, byte)[i]
  BY <1>1, <1>5, <1>6, <1>7
<1>10. more = Append(so, byte)
  BY <1>1, <1>2, <1>8, <1>9, SeqEqual
<1> QED
  BY <1>10 DEF so, more

(* The byte shown index bytes before the end, or a blank one.              *)
ShownBefore(so, index) ==
  IF Len(so) + 1 - index < 1 THEN NoByte ELSE so[Len(so) + 1 - index]

(* The same, in the form that is used below.                               *)
LEMMA RepeatAgain ==
  ASSUME NEW out \in Seq(Bytes), NEW index \in Nat \ {0}, NEW count \in Nat
  PROVE  Repeat(out, index, count + 1) =
           Append(Repeat(out, index, count), ShownBefore(Repeat(out, index, count), index))
BY RepeatMore DEF ShownBefore

-----------------------------------------------------------------------------
(* The tokens of a picture.                                                *)

(* What After may give.                                                    *)
TokenStates(bits) == [read : 0 .. Len(bits), shown : Seq(Bytes)]

(* The constants of the decoder.                                           *)
LEMMA Widths ==
  /\ ByteBits \in Nat \ {0} /\ WindowBits \in 1 .. ByteBits /\ LookaheadBits \in 1 .. ByteBits
  /\ WindowSize \in Nat \ {0} /\ WindowSize = PowerOf2[WindowBits]
  /\ PowerOf2[LookaheadBits] \in Nat \ {0}
<1>1. /\ ByteBits \in Nat \ {0} /\ WindowBits \in 1 .. ByteBits
      /\ LookaheadBits \in 1 .. ByteBits
  BY HeatshrinkAssumption
<1>2. WindowBits \in Nat /\ LookaheadBits \in Nat
  BY <1>1
<1> QED
  BY <1>1, <1>2, Powers DEF WindowSize

(* What Field gives within the bits.                                       *)
LEMMA FieldIs ==
  ASSUME NEW bits \in Seq(Bit), NEW c \in Nat, NEW n \in Nat, c + n <= Len(bits)
  PROVE  /\ Field(bits, c, n) \in Seq(Bit) /\ Len(Field(bits, c, n)) = n
         /\ Field(bits, c, n) \in [1 .. n -> Bit]
         /\ \A i \in 1 .. n : Field(bits, c, n)[i] = bits[c + i]
<1>1. \A i \in c + 1 .. c + n : bits[i] \in Bit
  OBVIOUS
<1>2. /\ Field(bits, c, n) \in Seq(Bit)
      /\ Len(Field(bits, c, n)) = IF c + 1 <= c + n THEN c + n - (c + 1) + 1 ELSE 0
      /\ \A i \in 1 .. c + n - (c + 1) + 1 : Field(bits, c, n)[i] = bits[c + 1 + i - 1]
  <2>1. c + 1 \in Int /\ c + n \in Int
    OBVIOUS
  <2> QED
    BY <1>1, <2>1, SubSeqProperties DEF Field
<1>3. /\ Field(bits, c, n) \in Seq(Bit) /\ Len(Field(bits, c, n)) = n
      /\ \A i \in 1 .. n : Field(bits, c, n)[i] = bits[c + i]
  BY <1>2
<1> QED
  BY <1>3

(* A field as wide as a byte is one.                                       *)
LEMMA FieldIsByte ==
  ASSUME NEW bits \in Seq(Bit), NEW c \in Nat, c + ByteBits <= Len(bits)
  PROVE  Field(bits, c, ByteBits) \in Bytes
  BY FieldIs, ByteIsBits DEF Bytes

(* An index never reaches beyond the window, a count never beyond its      *)
(* field.                                                                  *)
LEMMA FieldValues ==
  ASSUME NEW bits \in Seq(Bit), NEW m \in TokenStates(bits),
         m.read + BackrefLen <= Len(bits)
  PROVE  IndexAt(bits, m) \in 1 .. WindowSize /\ CountAt(bits, m) \in 1 .. PowerOf2[LookaheadBits]
<1>1. /\ m.read \in Nat /\ WindowBits \in Nat /\ LookaheadBits \in Nat /\ ByteBits \in Nat
      /\ m.read + 1 \in Nat /\ m.read + 1 + WindowBits \in Nat
      /\ m.read + 1 + WindowBits + LookaheadBits <= Len(bits)
  BY Widths DEF TokenStates, BackrefLen
<1>2. /\ Field(bits, m.read + 1, WindowBits) \in Seq(Bit)
      /\ Len(Field(bits, m.read + 1, WindowBits)) = WindowBits
  <2>1. m.read + 1 + WindowBits <= Len(bits)
    BY <1>1
  <2> QED
    BY <1>1, <2>1, FieldIs
<1>3. /\ Field(bits, m.read + 1 + WindowBits, LookaheadBits) \in Seq(Bit)
      /\ Len(Field(bits, m.read + 1 + WindowBits, LookaheadBits)) = LookaheadBits
  BY <1>1, FieldIs
<1>4. /\ Value(Field(bits, m.read + 1, WindowBits)) \in 0 .. PowerOf2[WindowBits] - 1
      /\ Value(Field(bits, m.read + 1 + WindowBits, LookaheadBits))
           \in 0 .. PowerOf2[LookaheadBits] - 1
  <2> DEFINE f == Field(bits, m.read + 1, WindowBits)
             g == Field(bits, m.read + 1 + WindowBits, LookaheadBits)
  <2> HIDE DEF f, g
  <2>1. Value(f) \in 0 .. PowerOf2[WindowBits] - 1
    BY <1>2, ValueRange DEF f
  <2>2. Value(g) \in 0 .. PowerOf2[LookaheadBits] - 1
    BY <1>3, ValueRange DEF g
  <2> QED
    BY <2>1, <2>2 DEF f, g
<1> DEFINE v == Value(Field(bits, m.read + 1, WindowBits))
           w == Value(Field(bits, m.read + 1 + WindowBits, LookaheadBits))
           x == PowerOf2[WindowBits]
           y == PowerOf2[LookaheadBits]
<1>5. IndexAt(bits, m) = 1 + v /\ CountAt(bits, m) = 1 + w /\ WindowSize = x
  BY Widths DEF IndexAt, CountAt
<1>6. v \in 0 .. x - 1 /\ w \in 0 .. y - 1 /\ x \in Nat /\ y \in Nat
  BY <1>4, Widths
<1> HIDE DEF v, w, x, y
<1>7. 1 + v \in 1 .. x /\ 1 + w \in 1 .. y
  BY <1>6
<1> QED
  BY <1>5, <1>7 DEF y

(* The three cases of NextToken.                                           *)
LEMMA TokenCases ==
  ASSUME NEW bits \in Seq(Bit), NEW m \in TokenStates(bits)
  PROVE  /\ IsLiteral(bits, m) =>
              NextToken(bits, m) = [read |-> m.read + LiteralLen,
                                    shown |-> Append(m.shown, Field(bits, m.read + 1, ByteBits))]
         /\ IsBackref(bits, m) =>
              NextToken(bits, m) = [read |-> m.read + BackrefLen,
                                    shown |-> Repeat(m.shown, IndexAt(bits, m), CountAt(bits, m))]
         /\ ~ IsLiteral(bits, m) /\ ~ IsBackref(bits, m) => NextToken(bits, m) = m
<1>1. ~ (IsLiteral(bits, m) /\ IsBackref(bits, m))
  BY DEF IsLiteral, IsBackref
<1> QED
  BY <1>1 DEF NextToken

(* A token shows more, and reads more unless it is not complete.           *)
LEMMA NextTyped ==
  ASSUME NEW bits \in Seq(Bit), NEW m \in TokenStates(bits)
  PROVE  /\ NextToken(bits, m) \in TokenStates(bits)
         /\ NextToken(bits, m) = m \/ NextToken(bits, m).read > m.read
         /\ Begins(m.shown, NextToken(bits, m).shown)
<1>1. /\ m.read \in 0 .. Len(bits) /\ m.shown \in Seq(Bytes) /\ Len(bits) \in Nat
      /\ LiteralLen \in Nat \ {0} /\ BackrefLen \in Nat \ {0}
  BY Widths DEF TokenStates, LiteralLen, BackrefLen
<1>2. CASE IsLiteral(bits, m)
  <2>1. m.read + LiteralLen \in 0 .. Len(bits) /\ m.read + 1 + ByteBits <= Len(bits)
    BY <1>1, <1>2, Widths DEF IsLiteral, LiteralLen
  <2>2. Field(bits, m.read + 1, ByteBits) \in Bytes
    <3>1. m.read + 1 \in Nat
      BY <1>1
    <3> QED
      BY <2>1, <3>1, FieldIsByte
  <2> DEFINE b == Field(bits, m.read + 1, ByteBits)
  <2>3. NextToken(bits, m) = [read |-> m.read + LiteralLen, shown |-> Append(m.shown, b)]
    BY <1>2, TokenCases
  <2> HIDE DEF b
  <2>4. Append(m.shown, b) \in Seq(Bytes) /\ Begins(m.shown, Append(m.shown, b))
    BY <1>1, <2>2 DEF Begins, b
  <2> QED
    BY <1>1, <2>1, <2>3, <2>4 DEF TokenStates
<1>3. CASE IsBackref(bits, m)
  <2>1. m.read + BackrefLen \in 0 .. Len(bits)
    BY <1>1, <1>3 DEF IsBackref
  <2>2. IndexAt(bits, m) \in Nat \ {0} /\ CountAt(bits, m) \in Nat
    BY <1>3, FieldValues, Widths DEF IsBackref
  <2> DEFINE more == Repeat(m.shown, IndexAt(bits, m), CountAt(bits, m))
  <2>3. more \in Seq(Bytes) /\ Begins(m.shown, more)
    <3> DEFINE index == IndexAt(bits, m)
               count == CountAt(bits, m)
               s == m.shown
    <3>1. index \in Nat \ {0} /\ count \in Nat /\ s \in Seq(Bytes)
      BY <1>1, <2>2
    <3> HIDE DEF index, count, s
    <3>2. Repeat(s, index, count) \in Seq(Bytes) /\ Begins(s, Repeat(s, index, count))
      <4>1. /\ Repeat(s, index, count) \in Seq(Bytes)
            /\ Len(Repeat(s, index, count)) = Len(s) + count
            /\ \A i \in 1 .. Len(s) : Repeat(s, index, count)[i] = s[i]
        BY <3>1, RepeatIs
      <4>2. Len(s) \in Nat /\ count \in Nat
        BY <3>1
      <4> QED
        BY <4>1, <4>2 DEF Begins
    <3> QED
      BY <3>2 DEF index, count, s
  <2>4. NextToken(bits, m) = [read |-> m.read + BackrefLen, shown |-> more]
    BY <1>3, TokenCases
  <2> HIDE DEF more
  <2> QED
    BY <1>1, <2>1, <2>3, <2>4 DEF TokenStates
<1>4. CASE ~ IsLiteral(bits, m) /\ ~ IsBackref(bits, m)
  <2>1. NextToken(bits, m) = m
    BY <1>4, TokenCases
  <2> QED
    BY <1>1, <2>1 DEF Begins
<1> QED
  BY <1>2, <1>3, <1>4

(* The recursive function After.                                           *)
LEMMA AfterIs ==
  ASSUME NEW bits \in Seq(Bit)
  PROVE  /\ After(bits) \in [Nat -> TokenStates(bits)]
         /\ After(bits)[0] = [read |-> 0, shown |-> <<>>]
         /\ \A n \in Nat : After(bits)[n + 1] = NextToken(bits, After(bits)[n])
<1> DEFINE S == TokenStates(bits)
           first == [read |-> 0, shown |-> <<>>]
           h == [n \in Nat |-> [m \in S |-> NextToken(bits, m)]]
           E(w) == [n \in Nat |-> IF n = 0 THEN first ELSE NextToken(bits, w[n - 1])]
           Tokens == CHOOSE w : w = E(w)
<1>1. first \in S
  BY DEF TokenStates
<1> HIDE DEF first, S
<1>2. h \in [Nat -> [S -> S]] /\ \A n \in Nat, m \in S : h[n][m] = NextToken(bits, m)
  BY NextTyped DEF S
<1> HIDE DEF h
<1>3. PICK f : ByRecursion(f, S, first, h)
  BY <1>1, <1>2, PrimRec
<1>4. f = E(f)
  <2>1. ASSUME NEW n \in Nat PROVE f[n] = IF n = 0 THEN first ELSE NextToken(bits, f[n - 1])
    <3>1. CASE n = 0
      BY <1>3, <3>1 DEF ByRecursion
    <3>2. CASE n # 0
      <4>1. n - 1 \in Nat /\ n - 1 + 1 = n
        BY <3>2
      <4>2. f[n - 1 + 1] = h[n - 1][f[n - 1]] /\ f[n - 1] \in S
        BY <1>3, <4>1 DEF ByRecursion
      <4> QED
        BY <1>2, <3>2, <4>1, <4>2
    <3> QED
      BY <3>1, <3>2
  <2> QED
    BY <1>3, <2>1 DEF ByRecursion
<1>5. Tokens = E(Tokens)
  <2> HIDE DEF E
  <2> QED
    BY <1>4
<1>6. After(bits) = Tokens
  BY DEF After, first
<1> HIDE DEF Tokens
<1>7. \A n \in Nat : Tokens[n] = IF n = 0 THEN first ELSE NextToken(bits, Tokens[n - 1])
  BY <1>5, Zenon
<1>8. Tokens[0] = first /\ \A n \in Nat : Tokens[n + 1] = NextToken(bits, Tokens[n])
  <2>1. ASSUME NEW n \in Nat PROVE Tokens[n + 1] = NextToken(bits, Tokens[n])
    <3>1. n + 1 \in Nat /\ n + 1 # 0 /\ n + 1 - 1 = n
      OBVIOUS
    <3> QED
      BY <1>7, <3>1
  <2> QED
    BY <1>7, <2>1
<1> DEFINE T == {n \in Nat : Tokens[n] \in S}
<1>9. 0 \in T
  BY <1>1, <1>8
<1>10. ASSUME NEW n \in Nat, n \in T PROVE n + 1 \in T
  <2>1. Tokens[n] \in S /\ Tokens[n + 1] = NextToken(bits, Tokens[n])
    BY <1>8, <1>10
  <2>2. NextToken(bits, Tokens[n]) \in S
    BY <2>1, NextTyped DEF S
  <2> QED
    BY <2>1, <2>2
<1>11. Nat \subseteq T
  <2> HIDE DEF T
  <2> QED
    BY <1>9, <1>10, NatInduct
<1>12. Tokens \in [Nat -> S]
  <2>1. \A n \in Nat : Tokens[n] \in S
    BY <1>11
  <2>2. Tokens = [n \in Nat |-> Tokens[n]]
    BY <1>5
  <2> QED
    BY <2>1, <2>2
<1> QED
  BY <1>6, <1>8, <1>12 DEF S, first

(* What begins a beginning.                                                *)
LEMMA BeginsTransitive ==
  ASSUME NEW s \in Seq(Bytes), NEW t \in Seq(Bytes), NEW u \in Seq(Bytes),
         Begins(s, t), Begins(t, u)
  PROVE  Begins(s, u)
  BY DEF Begins

(* More tokens show what fewer show, and more.                             *)
LEMMA AfterGrows ==
  ASSUME NEW bits \in Seq(Bit), NEW n \in Nat, NEW k \in Nat
  PROVE  Begins(After(bits)[n].shown, After(bits)[n + k].shown)
<1> DEFINE a == After(bits)
           T == {j \in Nat : Begins(a[n].shown, a[n + j].shown)}
<1>1. \A j \in Nat : a[j] \in TokenStates(bits) /\ a[j].shown \in Seq(Bytes)
  BY AfterIs DEF TokenStates
<1>2. 0 \in T
  BY <1>1 DEF Begins
<1>3. ASSUME NEW j \in Nat, j \in T PROVE j + 1 \in T
  <2>1. n + j \in Nat /\ n + (j + 1) = n + j + 1 /\ n + j + 1 \in Nat
    OBVIOUS
  <2>2. a[n + j + 1] = NextToken(bits, a[n + j])
    BY <2>1, AfterIs
  <2>3. Begins(a[n + j].shown, a[n + j + 1].shown)
    BY <1>1, <2>1, <2>2, NextTyped
  <2>4. Begins(a[n].shown, a[n + j + 1].shown)
    BY <1>1, <1>3, <2>1, <2>3, BeginsTransitive
  <2> QED
    BY <2>1, <2>4
<1> HIDE DEF T
<1>4. Nat \subseteq T
  BY <1>2, <1>3, NatInduct
<1> QED
  BY <1>4 DEF T

(* Behind a token that is not complete nothing follows.                    *)
LEMMA AfterStays ==
  ASSUME NEW bits \in Seq(Bit), NEW n \in Nat, NEW k \in Nat,
         NextToken(bits, After(bits)[n]) = After(bits)[n]
  PROVE  After(bits)[n + k] = After(bits)[n]
<1> DEFINE a == After(bits)
           T == {j \in Nat : a[n + j] = a[n]}
<1>1. 0 \in T
  OBVIOUS
<1>2. ASSUME NEW j \in Nat, j \in T PROVE j + 1 \in T
  <2>1. n + j \in Nat /\ n + (j + 1) = n + j + 1
    OBVIOUS
  <2>2. a[n + j + 1] = NextToken(bits, a[n + j])
    BY <2>1, AfterIs
  <2> QED
    BY <1>2, <2>1, <2>2
<1> HIDE DEF T
<1>3. Nat \subseteq T
  BY <1>1, <1>2, NatInduct
<1> QED
  BY <1>3 DEF T

(* As many tokens as there are bits are all there are.                     *)
LEMMA AfterEnds ==
  ASSUME NEW bits \in Seq(Bit)
  PROVE  NextToken(bits, After(bits)[Len(bits)]) = After(bits)[Len(bits)]
<1> DEFINE a == After(bits)
           T == {n \in Nat : a[n].read >= n \/ NextToken(bits, a[n]) = a[n]}
<1>1. \A n \in Nat : a[n] \in TokenStates(bits) /\ a[n].read \in 0 .. Len(bits)
  BY AfterIs DEF TokenStates
<1>2. 0 \in T
  BY <1>1
<1>3. ASSUME NEW n \in Nat, n \in T PROVE n + 1 \in T
  <2>1. a[n + 1] = NextToken(bits, a[n])
    BY AfterIs
  <2>2. CASE NextToken(bits, a[n]) = a[n]
    BY <2>1, <2>2
  <2>3. CASE NextToken(bits, a[n]) # a[n]
    <3>1. a[n].read >= n
      BY <1>3, <2>3
    <3>2. a[n + 1].read > a[n].read
      BY <1>1, <2>1, <2>3, NextTyped
    <3>3. a[n + 1].read \in Nat /\ a[n].read \in Nat
      BY <1>1
    <3> QED
      BY <3>1, <3>2, <3>3
  <2> QED
    BY <2>2, <2>3
<1> HIDE DEF T
<1>4. Len(bits) \in Nat /\ Len(bits) \in T
  BY <1>2, <1>3, NatInduct
<1> DEFINE m == a[Len(bits)]
<1>5. m \in TokenStates(bits) /\ m.read \in 0 .. Len(bits)
  BY <1>1, <1>4
<1>6. CASE m.read >= Len(bits)
  <2>1. m.read = Len(bits) /\ LiteralLen \in Nat \ {0} /\ BackrefLen \in Nat \ {0}
    BY <1>4, <1>5, <1>6, Widths DEF LiteralLen, BackrefLen
  <2>2. ~ IsLiteral(bits, m) /\ ~ IsBackref(bits, m)
    BY <1>4, <2>1 DEF IsLiteral, IsBackref
  <2> QED
    BY <1>5, <2>2, TokenCases
<1> QED
  BY <1>4, <1>6 DEF T

(* The meaning begins with what its first tokens show, and is that when no *)
(* complete token follows.                                                 *)
LEMMA MeaningIs ==
  ASSUME NEW data \in Seq(Bytes), NEW n \in Nat
  PROVE  LET bits == BitsOf(data)
             m    == After(bits)[n]
         IN /\ Meaning(data) \in Seq(Bytes)
            /\ Begins(m.shown, Meaning(data))
            /\ NextToken(bits, m) = m => Meaning(data) = m.shown
<1> DEFINE bits == BitsOf(data)
           a == After(bits)
           L == Len(bits)
<1>1. bits \in Seq(Bit) /\ L \in Nat
  BY BitsOfIs
<1>2. Meaning(data) = a[L].shown
  BY DEF Meaning
<1> HIDE DEF bits
<1>3. \A j \in Nat : a[j] \in TokenStates(bits) /\ a[j].shown \in Seq(Bytes)
  BY <1>1, AfterIs DEF TokenStates
<1>4. NextToken(bits, a[L]) = a[L]
  BY <1>1, AfterEnds
<1>5. CASE n <= L
  <2>1. L - n \in Nat /\ n + (L - n) = L
    BY <1>1, <1>5
  <2>2. Begins(a[n].shown, a[n + (L - n)].shown)
    BY <1>1, <2>1, AfterGrows
  <2>3. NextToken(bits, a[n]) = a[n] => a[n + (L - n)] = a[n]
    BY <1>1, <2>1, AfterStays
  <2> QED
    BY <1>1, <1>2, <1>3, <2>1, <2>2, <2>3 DEF bits
<1>6. CASE n > L
  <2>1. n - L \in Nat /\ L + (n - L) = n
    BY <1>1, <1>6
  <2>2. a[L + (n - L)] = a[L]
    BY <1>1, <1>4, <2>1, AfterStays
  <2>3. a[n] = a[L] /\ Begins(a[L].shown, a[L].shown)
    BY <1>1, <1>3, <2>1, <2>2 DEF Begins
  <2> QED
    BY <1>1, <1>2, <1>3, <2>3 DEF bits
<1> QED
  BY <1>1, <1>5, <1>6

-----------------------------------------------------------------------------
(* How the decoder takes its input.                                        *)

(* The bits that the decoder has taken, of the q bytes that were sunk.     *)
Consumed(d, q) == ByteBits * (q - Len(d.input) + d.input_index) - Len(d.bits)

(* s is what the bits B have behind the first c, as far as they go.        *)
Matches(B, c, s) == \A i \in 1 .. Len(s) : c + i <= Len(B) => s[i] = B[c + i]

(* The decoder holds the part of the data that it was given and has not    *)
(* consumed: the rest of a byte in bits, the bytes after it in its input   *)
(* buffer. What lies behind the data may be anything.                      *)
Reads(d, q, data) ==
  /\ d.input \in Seq(Bytes) /\ Len(d.input) <= InputSize /\ d.input_index \in Nat
  /\ d.input_index = 0 \/ d.input_index < Len(d.input)
  /\ d.bits \in Seq(Bit) /\ Len(d.bits) < ByteBits
  /\ q \in Nat /\ Len(d.input) <= q /\ Consumed(d, q) \in Nat
  /\ \A i \in 1 .. Len(d.input) :
       q - Len(d.input) + i <= Len(data) => d.input[i] = data[q - Len(d.input) + i]
  /\ Matches(BitsOf(data), Consumed(d, q), d.bits)

(* Products are ordered as their factors.                                  *)
LEMMA TimesMonotonic ==
  ASSUME NEW d \in Nat \ {0}, NEW a \in Nat, NEW b \in Nat
  PROVE  a >= b => d * a >= d * b
  OBVIOUS

(* A byte of the data is what its bits have at its place.                  *)
LEMMA ByteBitsAt ==
  ASSUME NEW data \in Seq(Bytes), NEW byte \in Bytes, NEW q \in Nat,
         q + 1 <= Len(data) => byte = data[q + 1]
  PROVE  ByteBits * q \in Nat /\ Matches(BitsOf(data), ByteBits * q, byte)
<1> DEFINE D == Len(data)
           y == ByteBits * D
           z == ByteBits * q
<1>1. D \in Nat /\ y \in Nat /\ Len(BitsOf(data)) = y /\ ByteBits \in Nat \ {0}
  BY ByteIsBits, BitsOfIs
<1>2. z \in Nat /\ Len(byte) = ByteBits
  BY <1>1, ByteIsBits
<1>3. q >= D => z >= y
  BY <1>1, TimesMonotonic
<1>4. ASSUME NEW i \in 1 .. ByteBits, q + 1 <= D
      PROVE  BitsOf(data)[z + i] = data[q + 1][i]
  <2> DEFINE j == q + 1
  <2>1. j \in 1 .. Len(data) /\ j - 1 = q
    BY <1>1, <1>4
  <2>2. BitsOf(data)[ByteBits * (j - 1) + i] = data[j][i]
    <3> HIDE DEF j
    <3> QED
      BY <2>1, BitsOfIs
  <2> QED
    BY <2>1, <2>2
<1> HIDE DEF y, z
<1>5. ASSUME NEW i \in 1 .. ByteBits, z + i <= y PROVE q + 1 <= D
  <2>1. ~ (z >= y)
    BY <1>1, <1>2, <1>5
  <2>2. ~ (q >= D)
    BY <1>3, <2>1
  <2> QED
    BY <1>1, <2>2
<1>6. ASSUME NEW i \in 1 .. ByteBits, z + i <= y PROVE byte[i] = BitsOf(data)[z + i]
  <2>1. q + 1 <= D
    BY <1>5, <1>6
  <2> QED
    BY <1>4, <2>1
<1>7. Matches(BitsOf(data), z, byte)
  BY <1>1, <1>2, <1>6 DEF Matches
<1> QED
  BY <1>2, <1>7 DEF z

(* A byte behind the bits that are left of the one before.                 *)
LEMMA JoinedBits ==
  ASSUME NEW B \in Seq(Bit), NEW bits \in Seq(Bit), NEW byte \in Bytes, NEW c \in Nat,
         Matches(B, c, bits), Matches(B, c + Len(bits), byte)
  PROVE  /\ bits \o byte \in Seq(Bit) /\ Len(bits \o byte) = Len(bits) + ByteBits
         /\ Matches(B, c, bits \o byte)
<1>1. /\ byte \in Seq(Bit) /\ Len(byte) = ByteBits /\ ByteBits \in Nat \ {0}
      /\ Len(bits) \in Nat /\ Len(B) \in Nat
  BY ByteIsBits
<1>2. /\ bits \o byte \in Seq(Bit) /\ Len(bits \o byte) = Len(bits) + ByteBits
      /\ \A k \in 1 .. Len(bits) + ByteBits :
           (bits \o byte)[k] = IF k <= Len(bits) THEN bits[k] ELSE byte[k - Len(bits)]
  BY <1>1, ConcatProperties
<1>3. ASSUME NEW k \in 1 .. Len(bits) + ByteBits, c + k <= Len(B)
      PROVE  (bits \o byte)[k] = B[c + k]
  <2>1. CASE k <= Len(bits)
    <3>1. k \in 1 .. Len(bits)
      BY <1>1, <2>1
    <3> QED
      BY <1>2, <1>3, <2>1, <3>1 DEF Matches
  <2>2. CASE k > Len(bits)
    <3>1. k - Len(bits) \in 1 .. ByteBits /\ c + k = c + Len(bits) + (k - Len(bits))
      BY <1>1, <2>2
    <3>2. (bits \o byte)[k] = byte[k - Len(bits)]
      BY <1>1, <1>2, <2>2
    <3>3. B[c + Len(bits) + (k - Len(bits))] = byte[k - Len(bits)]
      BY <1>1, <1>3, <3>1 DEF Matches
    <3> QED
      BY <3>1, <3>2, <3>3
  <2> QED
    BY <1>1, <2>1, <2>2
<1> QED
  BY <1>2, <1>3 DEF Matches

(* What get_bits looks at is what the data has next, wherever a field      *)
(* spans two bytes or two input buffers.                                   *)
LEMMA ReadsGot ==
  ASSUME NEW data \in Seq(Bytes), NEW n \in 1 .. ByteBits, Reads(hsd, p, data), CanGet(n)
  PROVE  /\ Got(n) \in Seq(Bit) /\ Len(Got(n)) \in Nat
         /\ Len(Got(n)) = IF Len(hsd.bits) >= n THEN Len(hsd.bits)
                                                ELSE Len(hsd.bits) + ByteBits
         /\ Matches(BitsOf(data), Consumed(hsd, p), Got(n))
<1> DEFINE c == Consumed(hsd, p)
           bits == hsd.bits
           input == hsd.input
           B == BitsOf(data)
           index == hsd.input_index
           byte  == hsd.input[index + 1]
           q     == p - Len(input) + index
           z     == ByteBits * q
<1>1. /\ bits \in Seq(Bit) /\ Len(bits) \in Nat /\ Len(bits) < ByteBits /\ c \in Nat
      /\ input \in Seq(Bytes) /\ Len(input) \in Nat /\ Len(input) <= p
      /\ index \in Nat /\ p \in Nat /\ ByteBits \in Nat \ {0}
      /\ index = 0 \/ index < Len(input)
      /\ Matches(B, c, bits)
  BY ByteIsBits DEF Reads
<1>2. c = z - Len(bits) /\ B \in Seq(Bit)
  BY BitsOfIs DEF Consumed
<1>3. \A i \in 1 .. Len(input) :
        p - Len(input) + i <= Len(data) => input[i] = data[p - Len(input) + i]
  BY DEF Reads
<1>4. Len(bits) >= n => Got(n) = bits
  BY DEF Got
<1>5. ~ (Len(bits) >= n) => Got(n) = bits \o byte /\ input # <<>>
  BY DEF Got, CanGet
<1>6. byte = input[index + 1]
  OBVIOUS
<1> HIDE DEF byte, index, c, bits, input, B
<1>7. q \in Nat
  BY <1>1
<1>8. CASE Len(bits) >= n
  BY <1>1, <1>4, <1>8 DEF bits, c, B
<1>9. CASE ~ (Len(bits) >= n)
  <2>1. index + 1 \in 1 .. Len(input) /\ byte \in Bytes
    <3>1. Len(input) > 0
      BY <1>1, <1>5, <1>9, EmptySeq
    <3>2. index + 1 \in 1 .. Len(input)
      BY <1>1, <3>1
    <3> QED
      BY <1>1, <1>6, <3>2
  <2>2. q + 1 <= Len(data) => byte = data[q + 1]
    <3>1. p - Len(input) + (index + 1) = q + 1
      BY <1>1
    <3> HIDE DEF q
    <3> QED
      BY <1>3, <1>6, <2>1, <3>1
  <2>3. z \in Nat /\ Matches(B, z, byte)
    <3> HIDE DEF q
    <3> QED
      BY <1>7, <2>1, <2>2, ByteBitsAt, Zenon DEF B
  <2> HIDE DEF z
  <2>4. c + Len(bits) = z
    BY <1>1, <1>2, <2>3
  <2>5. Matches(B, c + Len(bits), byte)
    BY <2>3, <2>4
  <2>6. /\ bits \o byte \in Seq(Bit) /\ Len(bits \o byte) = Len(bits) + ByteBits
        /\ Matches(B, c, bits \o byte)
    BY <1>1, <1>2, <2>1, <2>5, JoinedBits
  <2>7. Got(n) = bits \o byte
    BY <1>5, <1>9
  <2>8. Len(bits) + ByteBits \in Nat
    BY <1>1
  <2> QED
    BY <1>9, <2>6, <2>7, <2>8 DEF bits, c, B
<1> QED
  BY <1>8, <1>9

(* get_bits returns the next field of the data, unless it reaches beyond   *)
(* it.                                                                     *)
LEMMA TakesBits ==
  ASSUME NEW data \in Seq(Bytes), NEW n \in 1 .. ByteBits, Reads(hsd, p, data), CanGet(n)
  PROVE  /\ GetBits(n) \in Seq(Bit) /\ Len(GetBits(n)) = n
         /\ Consumed(hsd, p) + n <= Len(BitsOf(data)) =>
              GetBits(n) = Field(BitsOf(data), Consumed(hsd, p), n)
<1> DEFINE c == Consumed(hsd, p)
           got == Got(n)
           B == BitsOf(data)
<1>1. /\ got \in Seq(Bit) /\ Len(got) \in Nat /\ Len(got) >= n
      /\ Matches(B, c, got)
  <2>1. Len(hsd.bits) \in Nat /\ ByteBits \in Nat \ {0}
    BY ByteIsBits DEF Reads
  <2> QED
    BY <2>1, ReadsGot
<1>2. c \in Nat /\ n \in Nat /\ B \in Seq(Bit)
  BY ByteIsBits, BitsOfIs DEF Reads
<1>3. GetBits(n) = SubSeq(got, 1, n)
  BY DEF GetBits
<1> HIDE DEF got, c, B
<1>4. /\ SubSeq(got, 1, n) \in Seq(Bit) /\ Len(SubSeq(got, 1, n)) = n
      /\ \A i \in 1 .. n : SubSeq(got, 1, n)[i] = got[i]
  BY <1>1, <1>2
<1>5. ASSUME c + n <= Len(B) PROVE SubSeq(got, 1, n) = Field(B, c, n)
  <2>1. /\ Field(B, c, n) \in Seq(Bit) /\ Len(Field(B, c, n)) = n
        /\ \A i \in 1 .. n : Field(B, c, n)[i] = B[c + i]
    BY <1>2, <1>5, FieldIs
  <2>2. Len(B) \in Nat
    BY <1>2
  <2>3. \A i \in 1 .. n : got[i] = B[c + i]
    BY <1>1, <1>2, <1>5, <2>2 DEF Matches
  <2> QED
    BY <1>2, <1>4, <2>1, <2>3, SeqEqual
<1> QED
  BY <1>3, <1>4, <1>5 DEF c, B

(* The states of the decoder.                                              *)
DecoderStates ==
  [state : HsdStates, input : Seq(Bytes), input_index : Nat, bits : Seq(Bit),
   output_count : Nat, output_index : Nat, head_index : 0 .. WindowSize - 1,
   window : [0 .. WindowSize - 1 -> Bytes]]

(* One more.                                                               *)
LEMMA TimesNext ==
  ASSUME NEW d \in Nat, NEW a \in Nat
  PROVE  d * (a + 1) = d * a + d /\ d * a \in Nat
  OBVIOUS

(* After get_bits the decoder has consumed the field and nothing more, and *)
(* the rest of it is as it was.                                            *)
LEMMA TakenBits ==
  ASSUME NEW data \in Seq(Bytes), NEW n \in 1 .. ByteBits, Reads(hsd, p, data), CanGet(n),
         hsd \in DecoderStates
  PROVE  LET d == TakeBits(n)
         IN /\ Reads(d, p, data) /\ Consumed(d, p) = Consumed(hsd, p) + n
            /\ d \in DecoderStates
            /\ d.state = hsd.state /\ d.output_count = hsd.output_count
            /\ d.output_index = hsd.output_index /\ d.head_index = hsd.head_index
            /\ d.window = hsd.window
<1> DEFINE got == Got(n)
           bits == hsd.bits
           input == hsd.input
           index == hsd.input_index
           pulls == Len(bits) < n
           last == index + 1 = Len(input)
           c == Consumed(hsd, p)
           q == p - Len(input) + index
           B == BitsOf(data)
           X == SubSeq(got, n + 1, Len(got))
           Y == IF pulls /\ last THEN <<>> ELSE input
           Z == IF ~pulls THEN index ELSE IF last THEN 0 ELSE index + 1
           d == TakeBits(n)
<1>1. d = [hsd EXCEPT !.bits = X, !.input = Y, !.input_index = Z]
  BY DEF TakeBits, DecoderStates
<1>2. /\ bits \in Seq(Bit) /\ Len(bits) \in Nat /\ Len(bits) < ByteBits /\ c \in Nat
      /\ input \in Seq(Bytes) /\ Len(input) \in Nat /\ Len(input) <= p /\ Len(input) <= InputSize
      /\ index \in Nat /\ p \in Nat /\ ByteBits \in Nat \ {0} /\ n \in 1 .. ByteBits
      /\ index = 0 \/ index < Len(input)
      /\ InputSize \in Nat
  BY ByteIsBits, HeatshrinkAssumption DEF Reads
<1>0. c = ByteBits * q - Len(bits)
  BY DEF Consumed
<1>3. \A i \in 1 .. Len(input) :
        p - Len(input) + i <= Len(data) => input[i] = data[p - Len(input) + i]
  BY DEF Reads
<1>4. pulls => input # <<>>
  BY <1>2 DEF CanGet
<1>5. /\ got \in Seq(Bit) /\ Len(got) \in Nat /\ Matches(B, c, got)
      /\ Len(got) = IF pulls THEN Len(bits) + ByteBits ELSE Len(bits)
  <2>1. pulls <=> ~ (Len(bits) >= n)
    BY <1>2
  <2> HIDE DEF pulls
  <2> QED
    BY <2>1, ReadsGot
<1>6. B \in Seq(Bit) /\ Len(B) \in Nat
  BY BitsOfIs
<1> HIDE DEF got, bits, input, index, c, B
<1>7. q \in Nat
  BY <1>2
<1>8. /\ X \in Seq(Bit) /\ Len(X) = Len(got) - n /\ Len(X) < ByteBits
      /\ Matches(B, c + n, X)
  <2>1. Len(got) >= n /\ Len(got) - n < ByteBits
    BY <1>2, <1>5
  <2>2. X \in Seq(Bit) /\ Len(X) = Len(got) - n /\ \A i \in 1 .. Len(got) - n : X[i] = got[n + i]
    BY <1>2, <1>5, <2>1
  <2>3. ASSUME NEW i \in 1 .. Len(got) - n, c + n + i <= Len(B) PROVE X[i] = B[c + n + i]
    <3>1. n + i \in 1 .. Len(got) /\ c + (n + i) = c + n + i
      BY <1>2, <1>5, <2>1
    <3>2. got[n + i] = B[c + (n + i)]
      BY <1>5, <2>3, <3>1 DEF Matches
    <3> QED
      BY <2>2, <3>1, <3>2
  <2> HIDE DEF X
  <2> QED
    BY <2>1, <2>2, <2>3 DEF Matches
<1>9. /\ Y \in Seq(Bytes) /\ Len(Y) <= Len(input) /\ Z \in Nat
      /\ Z = 0 \/ Z < Len(Y)
      /\ \A i \in 1 .. Len(Y) : p - Len(Y) + i <= Len(data) => Y[i] = data[p - Len(Y) + i]
  <2>1. CASE pulls /\ last
    <3>1. Y = <<>> /\ Z = 0
      BY <2>1
    <3> HIDE DEF Y, Z
    <3>2. Y \in Seq(Bytes) /\ Len(Y) = 0
      BY <3>1
    <3>3. Len(Y) <= Len(input) /\ Z \in Nat
      BY <1>2, <3>1, <3>2
    <3>4. 1 .. Len(Y) = {}
      BY <3>2
    <3> QED
      BY <3>1, <3>2, <3>3, <3>4
  <2>2. CASE ~ (pulls /\ last)
    <3>1. Y = input
      BY <2>2
    <3>2. Z \in Nat /\ (Z = 0 \/ Z < Len(input))
      <4>1. CASE ~ pulls
        BY <1>2, <4>1
      <4>2. CASE pulls
        <5>1. Len(input) > 0
          BY <1>2, <1>4, <4>2, EmptySeq
        <5>2. index < Len(input) /\ index + 1 # Len(input)
          BY <1>2, <2>2, <4>2, <5>1
        <5> QED
          BY <1>2, <4>2, <5>2
      <4> QED
        BY <4>1, <4>2
    <3> HIDE DEF Y, Z
    <3> QED
      BY <1>2, <1>3, <3>1, <3>2
  <2> QED
    BY <2>1, <2>2
<1>10. p - Len(Y) + Z = IF pulls THEN q + 1 ELSE q
  <2>1. CASE pulls /\ last
    <3>1. Len(Y) = 0 /\ Z = 0
      BY <2>1
    <3>2. q + 1 = p
      BY <1>2, <2>1
    <3> QED
      BY <1>2, <2>1, <3>1, <3>2
  <2>2. CASE pulls /\ ~ last
    <3>1. Y = input /\ Z = index + 1
      BY <2>2
    <3> QED
      BY <1>2, <2>2, <3>1
  <2>3. CASE ~ pulls
    <3>1. Y = input /\ Z = index
      BY <2>3
    <3> QED
      BY <1>2, <2>3, <3>1
  <2> QED
    BY <2>1, <2>2, <2>3
<1>11. ByteBits * (p - Len(Y) + Z) - Len(X) = c + n
  <2> HIDE DEF X, Y, Z, q
  <2>1. ByteBits * (q + 1) = ByteBits * q + ByteBits /\ ByteBits * q \in Nat
    BY <1>2, <1>7, TimesNext
  <2>2. CASE pulls
    <3>1. p - Len(Y) + Z = q + 1 /\ Len(X) = Len(bits) + ByteBits - n
      BY <1>2, <1>5, <1>8, <1>10, <2>2
    <3>2. ByteBits * (p - Len(Y) + Z) = ByteBits * q + ByteBits
      BY <2>1, <3>1
    <3> QED
      BY <1>0, <1>2, <2>1, <3>1, <3>2
  <2>3. CASE ~ pulls
    <3>1. p - Len(Y) + Z = q /\ Len(X) = Len(bits) - n
      BY <1>2, <1>5, <1>8, <1>10, <2>3
    <3>2. ByteBits * (p - Len(Y) + Z) = ByteBits * q
      BY <3>1
    <3> QED
      BY <1>0, <1>2, <2>1, <3>1, <3>2
  <2> QED
    BY <2>2, <2>3
<1>12. c + n \in Nat /\ Len(Y) <= InputSize /\ Len(Y) <= p
  <2> HIDE DEF Y
  <2>1. Len(Y) \in Nat
    BY <1>9
  <2> QED
    BY <1>2, <1>9, <2>1
<1> HIDE DEF X, Y, Z
<1>13. /\ d.bits = X /\ d.input = Y /\ d.input_index = Z
       /\ d \in DecoderStates
       /\ d.state = hsd.state /\ d.output_count = hsd.output_count
       /\ d.output_index = hsd.output_index /\ d.head_index = hsd.head_index
       /\ d.window = hsd.window
  BY <1>1, <1>8, <1>9 DEF DecoderStates
<1> HIDE DEF d
<1>14. Consumed(d, p) = c + n
  BY <1>11, <1>13 DEF Consumed
<1>15. Reads(d, p, data)
  BY <1>2, <1>8, <1>9, <1>12, <1>13, <1>14 DEF Reads, B
<1> QED
  BY <1>13, <1>14, <1>15 DEF d, c

-----------------------------------------------------------------------------
(* The decoder at its tokens, and its steps.                               *)

(* The window holds the last bytes of what was decoded, and blank ones     *)
(* where less was.                                                         *)
WindowShows(d, out) ==
  \A k \in 1 .. WindowSize :
    d.window[(d.head_index - k) % WindowSize] =
      IF k <= Len(out) THEN out[Len(out) + 1 - k] ELSE NoByte

(* Types, with what the fields are in each state: a repetition has an      *)
(* index, and a count until it is done.                                    *)
DecoderTyped(d) ==
  /\ d \in DecoderStates
  /\ d.output_index <= WindowSize /\ d.output_count <= PowerOf2[LookaheadBits]
  /\ d.state = "BACKREF_INDEX" => d.output_index = 0
  /\ d.state = "BACKREF_COUNT" => d.output_index # 0 /\ d.output_count = 0
  /\ d.state = "YIELD_BACKREF" => d.output_index # 0 /\ d.output_count # 0

(* Where the decoder is within the token that follows m: which of its      *)
(* fields it has consumed, and what of it is in out.                       *)
AtToken(d, c, bits, m, out) ==
  \/ /\ d.state = "TAG_BIT" /\ c = m.read /\ out = m.shown
  \/ /\ d.state = "YIELD_LITERAL" /\ c = m.read + 1 /\ out = m.shown
     /\ bits[m.read + 1] = 1
  \/ /\ d.state = "BACKREF_INDEX" /\ c = m.read + 1 /\ out = m.shown
     /\ bits[m.read + 1] = 0
  \/ /\ d.state = "BACKREF_COUNT" /\ c = m.read + 1 + WindowBits /\ out = m.shown
     /\ bits[m.read + 1] = 0 /\ d.output_index = IndexAt(bits, m)
  \/ /\ d.state = "YIELD_BACKREF" /\ c = m.read + BackrefLen /\ IsBackref(bits, m)
     /\ d.output_index = IndexAt(bits, m) /\ d.output_count <= CountAt(bits, m)
     /\ out = Repeat(m.shown, IndexAt(bits, m), CountAt(bits, m) - d.output_count)

(* The decoder, c bits of the data consumed, has decoded out. Within the   *)
(* data it is at one of its tokens; beyond, whatever it does now, out has  *)
(* the whole meaning.                                                      *)
Decodes(d, c, data, out) ==
  \/ /\ c > Len(BitsOf(data))
     /\ Begins(Meaning(data), out)
  \/ /\ c <= Len(BitsOf(data))
     /\ \E n \in Nat : AtToken(d, c, BitsOf(data), After(BitsOf(data))[n], out)

(* All that ties the decoder to the data it is given.                      *)
Follows(d, q, data, out) ==
  /\ DecoderTyped(d) /\ Reads(d, q, data)
  /\ WindowShows(d, out) /\ Decodes(d, Consumed(d, q), data, out)

(* A step of the decoder goes on with out, or with out and one byte for    *)
(* which there is room.                                                    *)
StepsTo(data, out, room) ==
  \/ decomp' = decomp /\ Follows(hsd', p, data, out)
  \/ \E byte \in Bytes : /\ HasRoom(room) /\ decomp' = Append(decomp, byte)
                         /\ Follows(hsd', p, data, Append(out, byte))

(* The bits of the field that a state takes.                               *)
Needs(state) == CASE state = "TAG_BIT"       -> 1
                  [] state = "YIELD_LITERAL" -> ByteBits
                  [] state = "BACKREF_INDEX" -> WindowBits
                  [] state = "BACKREF_COUNT" -> LookaheadBits

(* Reads is about the input of the decoder only.                           *)
LEMMA ReadsSame ==
  ASSUME NEW d, NEW e, NEW q, NEW data,
         d.input = e.input, d.input_index = e.input_index, d.bits = e.bits
  PROVE  Consumed(e, q) = Consumed(d, q) /\ Reads(e, q, data) = Reads(d, q, data)
<1>1. Consumed(e, q) = Consumed(d, q)
  BY DEF Consumed
<1> QED
  BY <1>1 DEF Reads

(* A byte that is pushed is the last one of the window.                    *)
LEMMA PushedShows ==
  ASSUME NEW d \in DecoderStates, NEW out \in Seq(Bytes), NEW byte \in Bytes,
         WindowShows(d, out)
  PROVE  LET e == Pushed(d, byte)
         IN /\ e \in DecoderStates
            /\ e.state = d.state /\ e.output_index = d.output_index
            /\ e.output_count = d.output_count /\ e.input = d.input
            /\ e.input_index = d.input_index /\ e.bits = d.bits
            /\ WindowShows(e, Append(out, byte))
<1> DEFINE W == WindowSize
           h == d.head_index
           g == (h + 1) % W
           v == [d.window EXCEPT ![h] = byte]
           e == Pushed(d, byte)
           more == Append(out, byte)
<1>1. W \in Nat \ {0} /\ h \in 0 .. W - 1
  BY Widths DEF DecoderStates
<1>2. g = IF h + 1 = W THEN 0 ELSE h + 1
  BY <1>1, ModNext
<1>3. g \in 0 .. W - 1 /\ v \in [0 .. W - 1 -> Bytes]
  <2> HIDE DEF g
  <2> QED
    BY <1>1, <1>2 DEF DecoderStates
<1>4. e = [d EXCEPT !.window = v, !.head_index = g]
  BY DEF Pushed, DecoderStates
<1>5. /\ e.window = v /\ e.head_index = g
      /\ e \in DecoderStates
      /\ e.state = d.state /\ e.output_index = d.output_index
      /\ e.output_count = d.output_count /\ e.input = d.input
      /\ e.input_index = d.input_index /\ e.bits = d.bits
  <2> HIDE DEF v, g
  <2> QED
    BY <1>3, <1>4 DEF DecoderStates
<1>6. /\ more \in Seq(Bytes) /\ Len(out) \in Nat /\ Len(more) = Len(out) + 1
      /\ \A i \in 1 .. Len(out) : more[i] = out[i]
      /\ more[Len(out) + 1] = byte
  BY AppendProperties
<1>7. \A k \in 1 .. W : d.window[(h - k) % W] =
                          IF k <= Len(out) THEN out[Len(out) + 1 - k] ELSE NoByte
  BY DEF WindowShows
<1>8. ASSUME NEW k \in 1 .. W
      PROVE  v[(g - k) % W] = IF k <= Len(more) THEN more[Len(more) + 1 - k] ELSE NoByte
  <2>1. (g - k) % W = IF k <= g THEN g - k ELSE g - k + W
    <3> HIDE DEF g
    <3> QED
      BY <1>1, <1>3, ModBack
  <2>2. CASE k = 1
    <3>1. (g - k) % W = h
      <4> HIDE DEF g
      <4> QED
        BY <1>1, <1>2, <2>1, <2>2
    <3>2. v[h] = byte
      BY <1>1 DEF DecoderStates
    <3>3. k <= Len(more) /\ Len(more) + 1 - k = Len(out) + 1
      BY <1>6, <2>2
    <3> HIDE DEF more, v
    <3> QED
      BY <1>6, <3>1, <3>2, <3>3
  <2>3. CASE k # 1
    <3> DEFINE j == k - 1
    <3>1. j \in 1 .. W /\ j < W
      BY <1>1, <2>3
    <3>2. (h - j) % W = IF j <= h THEN h - j ELSE h - j + W
      <4> HIDE DEF j
      <4> QED
        BY <1>1, <3>1, ModBack
    <3>3. (g - k) % W = (h - j) % W /\ (h - j) % W # h /\ (h - j) % W \in 0 .. W - 1
      <4> DEFINE x == (g - k) % W
                 y == (h - j) % W
      <4>1. x = IF k <= g THEN g - k ELSE g - k + W
        BY <2>1
      <4>2. y = IF j <= h THEN h - j ELSE h - j + W
        BY <3>2
      <4>3. j \in Int /\ k = j + 1 /\ 1 <= j /\ j < W
        BY <1>1, <3>1
      <4> HIDE DEF x, y, g, j
      <4>4. x = y /\ y # h /\ y \in 0 .. W - 1
        <5>1. CASE h + 1 = W
          BY <1>1, <1>2, <4>1, <4>2, <4>3, <5>1
        <5>2. CASE h + 1 # W
          <6>1. g = h + 1
            BY <1>2, <5>2
          <6>2. /\ h \in Int /\ W \in Int /\ j \in Int /\ k = j + 1
                /\ h >= 0 /\ h < W /\ 1 <= j /\ j < W
            BY <1>1, <4>3
          <6> HIDE DEF h, W
          <6>3. CASE j <= h
            BY <6>1, <6>2, <4>1, <4>2, <6>3
          <6>4. CASE ~ (j <= h)
            BY <6>1, <6>2, <4>1, <4>2, <6>4
          <6> QED
            BY <6>3, <6>4
        <5> QED
          BY <5>1, <5>2
      <4> QED
        BY <4>4 DEF x, y
    <3>4. v[(h - j) % W] = d.window[(h - j) % W]
      BY <1>1, <3>3 DEF DecoderStates
    <3>5. d.window[(h - j) % W] = IF j <= Len(out) THEN out[Len(out) + 1 - j] ELSE NoByte
      BY <1>7, <3>1
    <3>6. j <= Len(out) <=> k <= Len(more)
      BY <1>6
    <3>7. j <= Len(out) => out[Len(out) + 1 - j] = more[Len(more) + 1 - k]
      <4> SUFFICES ASSUME j <= Len(out) PROVE out[Len(out) + 1 - j] = more[Len(more) + 1 - k]
        OBVIOUS
      <4>1. Len(out) + 1 - j \in 1 .. Len(out) /\ Len(more) + 1 - k = Len(out) + 1 - j
        BY <1>6, <3>1
      <4> HIDE DEF more
      <4> QED
        BY <1>6, <4>1
    <3> HIDE DEF more, v, j, g
    <3> QED
      BY <3>3, <3>4, <3>5, <3>6, <3>7
  <2> QED
    BY <2>2, <2>3
<1>9. WindowShows(e, more)
  <2> HIDE DEF e, v, g, more
  <2> QED
    BY <1>5, <1>8 DEF WindowShows
<1> QED
  BY <1>5, <1>9

(* Where the data ends within a token, all of its meaning was decoded.     *)
LEMMA CutOff ==
  ASSUME NEW d, NEW c \in Nat, NEW data \in Seq(Bytes), NEW n \in Nat, NEW out,
         AtToken(d, c, BitsOf(data), After(BitsOf(data))[n], out),
         d.state # "YIELD_BACKREF", c + Needs(d.state) > Len(BitsOf(data))
  PROVE  Meaning(data) = out
<1> DEFINE bits == BitsOf(data)
           m == After(bits)[n]
<1>1. bits \in Seq(Bit) /\ Len(bits) \in Nat
  BY BitsOfIs
<1>2. /\ AtToken(d, c, bits, m, out) /\ c + Needs(d.state) > Len(bits)
      /\ NextToken(bits, m) = m => Meaning(data) = m.shown
  BY MeaningIs
<1> HIDE DEF bits
<1>3. m \in TokenStates(bits)
  BY <1>1, AfterIs
<1> HIDE DEF m
<1>4. m.read \in Nat /\ ByteBits \in Nat /\ WindowBits \in Nat /\ LookaheadBits \in Nat
  BY <1>1, <1>3, Widths DEF TokenStates
<1>5. CASE d.state = "TAG_BIT"
  <2>1. c = m.read /\ out = m.shown /\ Needs(d.state) = 1
    BY <1>2, <1>5 DEF AtToken, Needs
  <2>2. m.read + 1 > Len(bits)
    BY <1>2, <2>1
  <2>3. ~ IsLiteral(bits, m) /\ ~ IsBackref(bits, m)
    BY <1>1, <1>4, <2>2 DEF IsLiteral, IsBackref, LiteralLen, BackrefLen
  <2> QED
    BY <1>1, <1>2, <1>3, <2>1, <2>3, TokenCases
<1>6. CASE d.state = "YIELD_LITERAL"
  <2>1. /\ c = m.read + 1 /\ out = m.shown /\ bits[m.read + 1] = 1
        /\ Needs(d.state) = ByteBits
    BY <1>2, <1>6 DEF AtToken, Needs
  <2>2. m.read + 1 + ByteBits > Len(bits)
    BY <1>2, <2>1
  <2>3. ~ IsLiteral(bits, m) /\ ~ IsBackref(bits, m)
    BY <1>1, <1>4, <2>1, <2>2 DEF IsLiteral, IsBackref, LiteralLen
  <2> QED
    BY <1>1, <1>2, <1>3, <2>1, <2>3, TokenCases
<1>7. CASE d.state = "BACKREF_INDEX"
  <2>1. /\ c = m.read + 1 /\ out = m.shown /\ bits[m.read + 1] = 0
        /\ Needs(d.state) = WindowBits
    BY <1>2, <1>7 DEF AtToken, Needs
  <2>2. m.read + 1 + WindowBits > Len(bits)
    BY <1>2, <2>1
  <2>3. ~ IsLiteral(bits, m) /\ ~ IsBackref(bits, m)
    BY <1>1, <1>4, <2>1, <2>2 DEF IsLiteral, IsBackref, BackrefLen
  <2> QED
    BY <1>1, <1>2, <1>3, <2>1, <2>3, TokenCases
<1>8. CASE d.state = "BACKREF_COUNT"
  <2>1. /\ c = m.read + 1 + WindowBits /\ out = m.shown /\ bits[m.read + 1] = 0
        /\ Needs(d.state) = LookaheadBits
    BY <1>2, <1>8 DEF AtToken, Needs
  <2>2. m.read + 1 + WindowBits + LookaheadBits > Len(bits)
    BY <1>2, <2>1
  <2>3. ~ IsLiteral(bits, m) /\ ~ IsBackref(bits, m)
    BY <1>1, <1>4, <2>1, <2>2 DEF IsLiteral, IsBackref, BackrefLen
  <2> QED
    BY <1>1, <1>2, <1>3, <2>1, <2>3, TokenCases
<1> QED
  BY <1>2, <1>5, <1>6, <1>7, <1>8 DEF AtToken

(* What was decoded and the meaning are one the beginning of the other.    *)
LEMMA Agrees ==
  ASSUME NEW d \in DecoderStates, DecoderTyped(d), NEW c \in Nat, NEW data \in Seq(Bytes),
         NEW out \in Seq(Bytes), Decodes(d, c, data, out)
  PROVE  /\ Meaning(data) \in Seq(Bytes)
         /\ Begins(out, Meaning(data)) \/ Begins(Meaning(data), out)
<1> DEFINE bits == BitsOf(data)
<1>1. bits \in Seq(Bit) /\ Len(bits) \in Nat /\ Meaning(data) \in Seq(Bytes)
  BY BitsOfIs, MeaningIs
<1>2. CASE Begins(Meaning(data), out)
  BY <1>1, <1>2
<1>3. CASE \E n \in Nat : AtToken(d, c, bits, After(bits)[n], out)
  <2>1. PICK n \in Nat : AtToken(d, c, bits, After(bits)[n], out)
    BY <1>3
  <2> DEFINE m == After(bits)[n]
             next == After(bits)[n + 1]
  <2>2. /\ Begins(m.shown, Meaning(data)) /\ Begins(next.shown, Meaning(data))
    BY MeaningIs
  <2> HIDE DEF bits
  <2>3. m \in TokenStates(bits) /\ next = NextToken(bits, m) /\ AtToken(d, c, bits, m, out)
    BY <1>1, <2>1, AfterIs
  <2> HIDE DEF m, next
  <2>4. CASE d.state # "YIELD_BACKREF"
    <3>1. out = m.shown
      BY <2>3, <2>4 DEF AtToken
    <3> QED
      BY <1>1, <2>2, <3>1
  <2>5. CASE d.state = "YIELD_BACKREF"
    <3> DEFINE index == IndexAt(bits, m)
               count == CountAt(bits, m)
               left == d.output_count
    <3>1. /\ IsBackref(bits, m) /\ left <= count /\ out = Repeat(m.shown, index, count - left)
      BY <2>3, <2>5 DEF AtToken
    <3>2. index \in Nat \ {0} /\ count \in Nat /\ left \in Nat /\ m.shown \in Seq(Bytes)
      <4>1. index \in 1 .. WindowSize /\ count \in 1 .. PowerOf2[LookaheadBits]
        BY <1>1, <2>3, <3>1, FieldValues DEF IsBackref
      <4>2. left \in Nat /\ m.shown \in Seq(Bytes)
        BY <2>3 DEF DecoderStates, TokenStates
      <4> HIDE DEF index, count, left
      <4> QED
        BY <4>1, <4>2, Widths
    <3>3. next.shown = Repeat(m.shown, index, count)
      BY <1>1, <2>3, <3>1, TokenCases
    <3> HIDE DEF index, count, left
    <3>4. count - left \in Nat /\ count - left <= count
      BY <3>1, <3>2
    <3>5. /\ Begins(Repeat(m.shown, index, count - left), Repeat(m.shown, index, count))
          /\ Repeat(m.shown, index, count) \in Seq(Bytes)
      BY <3>2, <3>4, RepeatBegins, Zenon
    <3>6. Begins(out, next.shown) /\ next.shown \in Seq(Bytes)
      BY <3>1, <3>3, <3>5
    <3>7. Begins(out, Meaning(data))
      BY <1>1, <2>2, <3>6, BeginsTransitive
    <3> QED
      BY <1>1, <3>7
  <2> QED
    BY <2>4, <2>5
<1> QED
  BY <1>2, <1>3 DEF Decodes

(* The field that the data does not have any more, or a field behind it.   *)
LEMMA Crosses ==
  ASSUME NEW d, NEW e, NEW c \in Nat, NEW data \in Seq(Bytes),
         NEW out \in Seq(Bytes), NEW more \in Seq(Bytes),
         Decodes(d, c, data, out), d.state # "YIELD_BACKREF", Begins(out, more),
         NEW after \in Nat, after = c + Needs(d.state), after > Len(BitsOf(data))
  PROVE  Decodes(e, after, data, more)
<1>1. Meaning(data) \in Seq(Bytes)
  BY MeaningIs
<1>2. CASE Begins(Meaning(data), out)
  BY <1>1, <1>2, BeginsTransitive DEF Decodes
<1>3. CASE \E n \in Nat : AtToken(d, c, BitsOf(data), After(BitsOf(data))[n], out)
  <2>1. Meaning(data) = out
    BY <1>3, CutOff
  <2> QED
    BY <2>1 DEF Decodes
<1> QED
  BY <1>2, <1>3 DEF Decodes

(* WindowShows is about the window only.                                   *)
LEMMA WindowSame ==
  ASSUME NEW d, NEW e, NEW out, WindowShows(d, out),
         e.window = d.window, e.head_index = d.head_index
  PROVE  WindowShows(e, out)
BY DEF WindowShows

(* A byte more.                                                            *)
LEMMA BeginsMore ==
  ASSUME NEW out \in Seq(Bytes), NEW byte \in Bytes
  PROVE  Begins(out, out) /\ Append(out, byte) \in Seq(Bytes) /\ Begins(out, Append(out, byte))
BY AppendProperties DEF Begins

(* The first bit of a token.                                               *)
LEMMA TagBitFollows ==
  ASSUME NEW data \in Seq(Bytes), NEW out \in Seq(Bytes), NEW room,
         Follows(hsd, p, data, out), TagBit
  PROVE  StepsTo(data, out, room)
<1> DEFINE c == Consumed(hsd, p)
           B == BitsOf(data)
           e == TakeBits(1)
<1>1. B \in Seq(Bit) /\ Len(B) \in Nat /\ c \in Nat /\ 1 \in 1 .. ByteBits /\ CanGet(1)
  BY BitsOfIs, Widths DEF Follows, Reads, TagBit
<1>2. /\ Reads(e, p, data) /\ Consumed(e, p) = c + 1 /\ e \in DecoderStates
      /\ e.output_count = hsd.output_count /\ e.output_index = hsd.output_index
      /\ e.head_index = hsd.head_index /\ e.window = hsd.window
  BY <1>1, TakenBits DEF Follows, DecoderTyped
<1>3. /\ Len(GetBits(1)) = 1 /\ GetBits(1) \in Seq(Bit)
      /\ c + 1 <= Len(B) => GetBits(1) = Field(B, c, 1)
  BY <1>1, TakesBits DEF Follows
<1>4. /\ hsd.state = "TAG_BIT" /\ Needs(hsd.state) = 1
      /\ hsd' = IF GetBits(1) = <<1>> THEN [e EXCEPT !.state = "YIELD_LITERAL"]
                ELSE [e EXCEPT !.state = "BACKREF_INDEX", !.output_index = 0]
      /\ decomp' = decomp
  BY DEF TagBit, Needs
<1> DEFINE tag == GetBits(1)
<1> HIDE DEF e, c, tag
<1>5. DecoderTyped(hsd')
  <2>1. /\ hsd.output_index <= WindowSize /\ hsd.output_count <= PowerOf2[LookaheadBits]
    BY DEF Follows, DecoderTyped
  <2>2. 0 <= WindowSize /\ {"YIELD_LITERAL", "BACKREF_INDEX"} \subseteq HsdStates
    BY Widths DEF HsdStates
  <2>3. CASE tag = <<1>>
    BY <1>2, <1>4, <2>1, <2>2, <2>3 DEF DecoderTyped, DecoderStates, tag
  <2>4. CASE tag # <<1>>
    BY <1>2, <1>4, <2>1, <2>2, <2>4 DEF DecoderTyped, DecoderStates, tag
  <2> QED
    BY <2>3, <2>4
<1>6. /\ hsd'.input = e.input /\ hsd'.input_index = e.input_index /\ hsd'.bits = e.bits
      /\ hsd'.head_index = e.head_index /\ hsd'.window = e.window
      /\ hsd'.state = IF tag = <<1>> THEN "YIELD_LITERAL" ELSE "BACKREF_INDEX"
  BY <1>2, <1>4 DEF DecoderStates, tag
<1>7. Reads(hsd', p, data) /\ Consumed(hsd', p) = c + 1
  BY <1>2, <1>6, ReadsSame
<1>8. WindowShows(hsd', out)
  BY <1>2, <1>6, WindowSame DEF Follows
<1>9. Decodes(hsd', c + 1, data, out)
  <2>1. Decodes(hsd, c, data, out)
    BY DEF Follows, c
  <2>2. CASE c + 1 > Len(B)
    <3>1. Begins(out, out)
      BY DEF Begins
    <3>2. c + 1 \in Nat /\ c + 1 = c + Needs(hsd.state) /\ hsd.state # "YIELD_BACKREF"
      BY <1>1, <1>4
    <3> QED
      BY <1>1, <2>1, <2>2, <3>1, <3>2, Crosses
  <2>3. CASE c + 1 <= Len(B)
    <3>1. PICK n \in Nat : AtToken(hsd, c, B, After(B)[n], out)
      BY <1>1, <2>1, <2>3 DEF Decodes
    <3> DEFINE m == After(B)[n]
    <3>2. c = m.read /\ out = m.shown
      BY <1>4, <3>1 DEF AtToken
    <3>3. tag = Field(B, c, 1) /\ Field(B, c, 1)[1] = B[c + 1] /\ Len(tag) = 1
      BY <1>1, <1>3, <2>3, FieldIs DEF tag
    <3>4. tag = <<1>> <=> B[c + 1] = 1
      BY <1>3, <3>3 DEF tag
    <3>5. B[c + 1] \in {0, 1}
      BY <1>1, <2>3 DEF Bit
    <3>6. AtToken(hsd', c + 1, B, m, out)
      BY <1>6, <3>2, <3>4, <3>5 DEF AtToken
    <3> QED
      BY <2>3, <3>6 DEF Decodes
  <2> QED
    BY <1>1, <2>2, <2>3
<1> QED
  BY <1>4, <1>5, <1>7, <1>8, <1>9 DEF StepsTo, Follows

(* A literal, which completes its token.                                   *)
LEMMA YieldLiteralFollows ==
  ASSUME NEW data \in Seq(Bytes), NEW out \in Seq(Bytes), NEW room,
         Follows(hsd, p, data, out), YieldLiteral(room)
  PROVE  StepsTo(data, out, room)
<1> DEFINE c == Consumed(hsd, p)
           B == BitsOf(data)
           e == TakeBits(ByteBits)
           byte == GetBits(ByteBits)
           f == Pushed(e, byte)
           more == Append(out, byte)
<1>1. /\ B \in Seq(Bit) /\ Len(B) \in Nat /\ c \in Nat
      /\ ByteBits \in 1 .. ByteBits /\ CanGet(ByteBits)
  <2>1. B \in Seq(Bit) /\ Len(B) \in Nat
    BY BitsOfIs
  <2>2. c \in Nat
    BY DEF Follows, Reads
  <2>3. ByteBits \in 1 .. ByteBits
    BY Widths
  <2>4. CanGet(ByteBits)
    BY DEF YieldLiteral
  <2> QED
    BY <2>1, <2>2, <2>3, <2>4
<1>2. /\ Reads(e, p, data) /\ Consumed(e, p) = c + ByteBits /\ e \in DecoderStates
      /\ e.output_count = hsd.output_count /\ e.output_index = hsd.output_index
      /\ e.head_index = hsd.head_index /\ e.window = hsd.window
  BY <1>1, TakenBits DEF Follows, DecoderTyped
<1>3. /\ byte \in Bytes
      /\ c + ByteBits <= Len(B) => byte = Field(B, c, ByteBits)
  <2>1. /\ byte \in Seq(Bit) /\ Len(byte) = ByteBits
        /\ c + ByteBits <= Len(B) => byte = Field(B, c, ByteBits)
    BY <1>1, TakesBits DEF Follows
  <2> HIDE DEF byte
  <2>2. byte \in [1 .. ByteBits -> Bit]
    BY <2>1
  <2> QED
    BY <2>1, <2>2 DEF Bytes
<1>4. /\ hsd.state = "YIELD_LITERAL" /\ Needs(hsd.state) = ByteBits /\ HasRoom(room)
      /\ hsd' = [f EXCEPT !.state = "TAG_BIT"]
      /\ decomp' = Append(decomp, byte)
  BY DEF YieldLiteral, Needs
<1> HIDE DEF e, c, byte
<1>5. more \in Seq(Bytes) /\ Begins(out, more)
  BY <1>3, BeginsMore
<1>6. WindowShows(e, out)
  BY <1>2, WindowSame DEF Follows
<1>7. /\ f \in DecoderStates /\ f.output_index = e.output_index
      /\ f.output_count = e.output_count /\ f.input = e.input
      /\ f.input_index = e.input_index /\ f.bits = e.bits
      /\ WindowShows(f, more)
  BY <1>2, <1>3, <1>6, PushedShows
<1> HIDE DEF f, more
<1>8. /\ hsd'.input = e.input /\ hsd'.input_index = e.input_index /\ hsd'.bits = e.bits
      /\ hsd'.head_index = f.head_index /\ hsd'.window = f.window
      /\ hsd'.output_index = hsd.output_index /\ hsd'.output_count = hsd.output_count
      /\ hsd'.state = "TAG_BIT" /\ hsd' \in DecoderStates
  BY <1>2, <1>4, <1>7 DEF DecoderStates, HsdStates
<1>9. DecoderTyped(hsd')
  BY <1>8 DEF Follows, DecoderTyped
<1>10. Reads(hsd', p, data) /\ Consumed(hsd', p) = c + ByteBits
  BY <1>2, <1>8, ReadsSame
<1>11. WindowShows(hsd', more)
  BY <1>7, <1>8, WindowSame
<1>12. Decodes(hsd', c + ByteBits, data, more)
  <2>1. Decodes(hsd, c, data, out)
    BY DEF Follows, c
  <2>2. CASE c + ByteBits > Len(B)
    <3>1. /\ c + ByteBits \in Nat /\ c + ByteBits = c + Needs(hsd.state)
          /\ hsd.state # "YIELD_BACKREF"
      BY <1>1, <1>4
    <3> QED
      BY <1>1, <1>5, <2>1, <2>2, <3>1, Crosses
  <2>3. CASE c + ByteBits <= Len(B)
    <3>1. c <= Len(B)
      BY <1>1, <2>3
    <3>2. PICK n \in Nat : AtToken(hsd, c, B, After(B)[n], out)
      BY <1>1, <2>1, <3>1 DEF Decodes
    <3> DEFINE m == After(B)[n]
               next == After(B)[n + 1]
    <3>3. m \in TokenStates(B) /\ next = NextToken(B, m)
      BY <1>1, AfterIs
    <3>4. c = m.read + 1 /\ out = m.shown /\ B[m.read + 1] = 1
      BY <1>4, <3>2 DEF AtToken
    <3> HIDE DEF m, next, B
    <3>5. m.read \in Nat /\ m.read + LiteralLen = c + ByteBits
      BY <1>1, <3>3, <3>4 DEF TokenStates, LiteralLen
    <3>6. IsLiteral(B, m)
      BY <2>3, <3>4, <3>5 DEF IsLiteral
    <3>7. next.read = c + ByteBits /\ next.shown = more
      <4>1. next = [read |-> m.read + LiteralLen,
                    shown |-> Append(m.shown, Field(B, m.read + 1, ByteBits))]
        BY <1>1, <3>3, <3>6, TokenCases
      <4>2. Field(B, m.read + 1, ByteBits) = byte
        BY <1>3, <2>3, <3>4 DEF B
      <4> QED
        BY <3>4, <3>5, <4>1, <4>2 DEF more
    <3>8. AtToken(hsd', c + ByteBits, B, next, more)
      BY <1>8, <3>7 DEF AtToken
    <3> QED
      BY <2>3, <3>8 DEF Decodes, next, B
  <2> QED
    BY <1>1, <2>2, <2>3
<1> QED
  BY <1>3, <1>4, <1>9, <1>10, <1>11, <1>12 DEF StepsTo, Follows, more

(* What an index or a count is computed to, from its field.                *)
LEMMA NextValue ==
  ASSUME NEW bits \in Seq(Bit), NEW n \in Nat, Len(bits) = n
  PROVE  Value(bits) + 1 \in 1 .. PowerOf2[n]
<1>1. Value(bits) \in 0 .. PowerOf2[n] - 1
  BY ValueRange
<1>2. PowerOf2[n] \in Nat \ {0}
  BY Powers
<1> DEFINE v == Value(bits)
           w == PowerOf2[n]
<1> HIDE DEF v, w
<1>3. v \in 0 .. w - 1 /\ w \in Nat \ {0} => v + 1 \in 1 .. w
  OBVIOUS
<1> QED
  BY <1>1, <1>2, <1>3 DEF v, w

(* The index of a repetition.                                              *)
LEMMA BackrefIndexFollows ==
  ASSUME NEW data \in Seq(Bytes), NEW out \in Seq(Bytes), NEW room,
         Follows(hsd, p, data, out), BackrefIndex
  PROVE  StepsTo(data, out, room)
<1> DEFINE c == Consumed(hsd, p)
           B == BitsOf(data)
           e == TakeBits(WindowBits)
           field == GetBits(WindowBits)
           index == Value(field) + 1
<1>1. /\ B \in Seq(Bit) /\ Len(B) \in Nat /\ c \in Nat
      /\ WindowBits \in 1 .. ByteBits /\ WindowBits \in Nat /\ CanGet(WindowBits)
  BY BitsOfIs, Widths DEF Follows, Reads, BackrefIndex
<1>2. /\ Reads(e, p, data) /\ Consumed(e, p) = c + WindowBits /\ e \in DecoderStates
      /\ e.output_count = hsd.output_count /\ e.output_index = hsd.output_index
      /\ e.head_index = hsd.head_index /\ e.window = hsd.window
  BY <1>1, TakenBits DEF Follows, DecoderTyped
<1>3. /\ field \in Seq(Bit) /\ Len(field) = WindowBits
      /\ c + WindowBits <= Len(B) => field = Field(B, c, WindowBits)
  BY <1>1, TakesBits DEF Follows
<1>4. /\ hsd.state = "BACKREF_INDEX" /\ Needs(hsd.state) = WindowBits
      /\ hsd' = [e EXCEPT !.state = "BACKREF_COUNT", !.output_count = 0,
                          !.output_index = @ + Value(field) + 1]
      /\ decomp' = decomp
  BY DEF BackrefIndex, Needs
<1>5. Value(field) \in Nat /\ index \in 1 .. WindowSize
  <2> HIDE DEF field
  <2>1. index \in 1 .. PowerOf2[WindowBits]
    BY <1>1, <1>3, NextValue
  <2>2. Value(field) \in 0 .. PowerOf2[WindowBits] - 1 /\ PowerOf2[WindowBits] \in Nat
    BY <1>1, <1>3, ValueRange, Powers
  <2> QED
    BY <2>1, <2>2 DEF WindowSize
<1>6. e.output_index = 0
  BY <1>2, <1>4 DEF Follows, DecoderTyped
<1> HIDE DEF e, c, field
<1>7. 0 + Value(field) + 1 = index
  BY <1>5
<1> HIDE DEF index
<1>8. /\ hsd'.input = e.input /\ hsd'.input_index = e.input_index /\ hsd'.bits = e.bits
      /\ hsd'.head_index = e.head_index /\ hsd'.window = e.window
      /\ hsd'.output_index = index /\ hsd'.output_count = 0
      /\ hsd'.state = "BACKREF_COUNT" /\ hsd' \in DecoderStates
  <2>1. hsd' = [e EXCEPT !.state = "BACKREF_COUNT", !.output_count = 0,
                         !.output_index = index]
    BY <1>2, <1>4, <1>6, <1>7 DEF DecoderStates
  <2>2. index \in Nat
    BY <1>5, Widths
  <2> QED
    BY <1>2, <2>1, <2>2 DEF DecoderStates, HsdStates
<1>9. DecoderTyped(hsd')
  <2>1. index <= WindowSize /\ index # 0 /\ 0 <= PowerOf2[LookaheadBits]
    BY <1>5, Widths
  <2> QED
    BY <1>8, <2>1 DEF DecoderTyped
<1>10. Reads(hsd', p, data) /\ Consumed(hsd', p) = c + WindowBits
  BY <1>2, <1>8, ReadsSame
<1>11. WindowShows(hsd', out)
  BY <1>2, <1>8, WindowSame DEF Follows
<1>12. Decodes(hsd', c + WindowBits, data, out)
  <2>1. Decodes(hsd, c, data, out)
    BY DEF Follows, c
  <2>2. CASE c + WindowBits > Len(B)
    <3>1. /\ c + WindowBits \in Nat /\ c + WindowBits = c + Needs(hsd.state)
          /\ hsd.state # "YIELD_BACKREF" /\ Begins(out, out)
      BY <1>1, <1>4 DEF Begins
    <3> QED
      BY <1>1, <2>1, <2>2, <3>1, Crosses
  <2>3. CASE c + WindowBits <= Len(B)
    <3>1. c <= Len(B)
      BY <1>1, <2>3
    <3>2. PICK n \in Nat : AtToken(hsd, c, B, After(B)[n], out)
      BY <1>1, <2>1, <3>1 DEF Decodes
    <3> DEFINE m == After(B)[n]
    <3>3. c = m.read + 1 /\ out = m.shown /\ B[m.read + 1] = 0
      BY <1>4, <3>2 DEF AtToken
    <3>4. index = IndexAt(B, m)
      <4>1. IndexAt(B, m) = 1 + Value(field)
        BY <1>3, <2>3, <3>3 DEF IndexAt
      <4> QED
        BY <1>5, <4>1 DEF index
    <3> HIDE DEF m, B
    <3>5. AtToken(hsd', c + WindowBits, B, m, out)
      BY <1>8, <3>3, <3>4 DEF AtToken
    <3> QED
      BY <2>3, <3>5 DEF Decodes, m, B
  <2> QED
    BY <1>1, <2>2, <2>3
<1> QED
  BY <1>4, <1>9, <1>10, <1>11, <1>12 DEF StepsTo, Follows

(* The count of a repetition, nothing repeated yet.                        *)
LEMMA BackrefCountFollows ==
  ASSUME NEW data \in Seq(Bytes), NEW out \in Seq(Bytes), NEW room,
         Follows(hsd, p, data, out), BackrefCount
  PROVE  StepsTo(data, out, room)
<1> DEFINE c == Consumed(hsd, p)
           B == BitsOf(data)
           e == TakeBits(LookaheadBits)
           field == GetBits(LookaheadBits)
           count == Value(field) + 1
<1>1. /\ B \in Seq(Bit) /\ Len(B) \in Nat /\ c \in Nat
      /\ LookaheadBits \in 1 .. ByteBits /\ LookaheadBits \in Nat /\ CanGet(LookaheadBits)
  BY BitsOfIs, Widths DEF Follows, Reads, BackrefCount
<1>2. /\ Reads(e, p, data) /\ Consumed(e, p) = c + LookaheadBits /\ e \in DecoderStates
      /\ e.output_count = hsd.output_count /\ e.output_index = hsd.output_index
      /\ e.head_index = hsd.head_index /\ e.window = hsd.window
  BY <1>1, TakenBits DEF Follows, DecoderTyped
<1>3. /\ field \in Seq(Bit) /\ Len(field) = LookaheadBits
      /\ c + LookaheadBits <= Len(B) => field = Field(B, c, LookaheadBits)
  BY <1>1, TakesBits DEF Follows
<1>4. /\ hsd.state = "BACKREF_COUNT" /\ Needs(hsd.state) = LookaheadBits
      /\ hsd' = [e EXCEPT !.state = "YIELD_BACKREF",
                          !.output_count = @ + Value(field) + 1]
      /\ decomp' = decomp
  BY DEF BackrefCount, Needs
<1>5. Value(field) \in Nat /\ count \in 1 .. PowerOf2[LookaheadBits]
  <2> HIDE DEF field
  <2>1. count \in 1 .. PowerOf2[LookaheadBits]
    BY <1>1, <1>3, NextValue
  <2>2. Value(field) \in 0 .. PowerOf2[LookaheadBits] - 1 /\ PowerOf2[LookaheadBits] \in Nat
    BY <1>1, <1>3, ValueRange, Powers
  <2> QED
    BY <2>1, <2>2
<1>6. /\ e.output_count = 0 /\ hsd.output_index # 0 /\ hsd.output_index <= WindowSize
      /\ hsd.output_index \in Nat
  BY <1>2, <1>4 DEF Follows, DecoderTyped, DecoderStates
<1> HIDE DEF e, c, field
<1>7. 0 + Value(field) + 1 = count
  BY <1>5
<1> HIDE DEF count
<1>8. /\ hsd'.input = e.input /\ hsd'.input_index = e.input_index /\ hsd'.bits = e.bits
      /\ hsd'.head_index = e.head_index /\ hsd'.window = e.window
      /\ hsd'.output_index = hsd.output_index /\ hsd'.output_count = count
      /\ hsd'.state = "YIELD_BACKREF" /\ hsd' \in DecoderStates
  <2>1. hsd' = [e EXCEPT !.state = "YIELD_BACKREF", !.output_count = count]
    BY <1>2, <1>4, <1>6, <1>7 DEF DecoderStates
  <2>2. count \in Nat
    BY <1>5, Widths
  <2> QED
    BY <1>2, <2>1, <2>2 DEF DecoderStates, HsdStates
<1>9. DecoderTyped(hsd')
  <2>1. count <= PowerOf2[LookaheadBits] /\ count # 0
    BY <1>5, Widths
  <2> QED
    BY <1>6, <1>8, <2>1 DEF DecoderTyped
<1>10. Reads(hsd', p, data) /\ Consumed(hsd', p) = c + LookaheadBits
  BY <1>2, <1>8, ReadsSame
<1>11. WindowShows(hsd', out)
  BY <1>2, <1>8, WindowSame DEF Follows
<1>12. Decodes(hsd', c + LookaheadBits, data, out)
  <2>1. Decodes(hsd, c, data, out)
    BY DEF Follows, c
  <2>2. CASE c + LookaheadBits > Len(B)
    <3>1. /\ c + LookaheadBits \in Nat /\ c + LookaheadBits = c + Needs(hsd.state)
          /\ hsd.state # "YIELD_BACKREF" /\ Begins(out, out)
      BY <1>1, <1>4 DEF Begins
    <3> QED
      BY <1>1, <2>1, <2>2, <3>1, Crosses
  <2>3. CASE c + LookaheadBits <= Len(B)
    <3>1. c <= Len(B)
      BY <1>1, <2>3
    <3>2. PICK n \in Nat : AtToken(hsd, c, B, After(B)[n], out)
      BY <1>1, <2>1, <3>1 DEF Decodes
    <3> DEFINE m == After(B)[n]
               index == IndexAt(B, m)
    <3>3. /\ c = m.read + 1 + WindowBits /\ out = m.shown /\ B[m.read + 1] = 0
          /\ hsd.output_index = index
      BY <1>4, <3>2 DEF AtToken
    <3>4. count = CountAt(B, m)
      <4>1. CountAt(B, m) = 1 + Value(field)
        BY <1>3, <2>3, <3>3 DEF CountAt
      <4> QED
        BY <1>5, <4>1 DEF count
    <3>5. m \in TokenStates(B)
      BY <1>1, AfterIs
    <3>6. Repeat(m.shown, index, 0) = m.shown
      <4>1. index \in Nat \ {0} /\ m.shown \in Seq(Bytes)
        BY <1>6, <3>3, <3>5 DEF TokenStates
      <4> QED
        BY <4>1, RepeatNone
    <3> HIDE DEF m, B
    <3>7. m.read + BackrefLen = c + LookaheadBits
      BY <1>1, <3>3, <3>5, Widths DEF TokenStates, BackrefLen
    <3>8. IsBackref(B, m)
      BY <2>3, <3>3, <3>7 DEF IsBackref
    <3>9. count \in Nat /\ count - count = 0 /\ count <= count
      BY <1>5
    <3> HIDE DEF index
    <3>10. out = Repeat(m.shown, index, count - count)
      BY <3>3, <3>6, <3>9
    <3>11. AtToken(hsd', c + LookaheadBits, B, m, out)
      BY <1>8, <3>3, <3>4, <3>7, <3>8, <3>9, <3>10 DEF AtToken, index
    <3> QED
      BY <2>3, <3>11 DEF Decodes, m, B
  <2> QED
    BY <1>1, <2>2, <2>3
<1> QED
  BY <1>4, <1>9, <1>10, <1>11, <1>12 DEF StepsTo, Follows

(* One byte of a repetition; the last one completes its token.             *)
LEMMA YieldBackrefFollows ==
  ASSUME NEW data \in Seq(Bytes), NEW out \in Seq(Bytes), NEW room,
         Follows(hsd, p, data, out), YieldBackref(room)
  PROVE  StepsTo(data, out, room)
<1> DEFINE c == Consumed(hsd, p)
           B == BitsOf(data)
           index == hsd.output_index
           left == hsd.output_count
           k == Len(out) + 1 - index
           byte == hsd.window[(hsd.head_index - index) % WindowSize]
           f == Pushed(hsd, byte)
           more == Append(out, byte)
<1>1. B \in Seq(Bit) /\ Len(B) \in Nat /\ c \in Nat
  BY BitsOfIs DEF Follows, Reads
<1>2. /\ hsd.state = "YIELD_BACKREF" /\ HasRoom(room)
      /\ hsd' = [f EXCEPT !.output_count = @ - 1,
                          !.state = IF left = 1 THEN "TAG_BIT" ELSE @]
      /\ decomp' = Append(decomp, byte)
  BY DEF YieldBackref
<1>3. /\ index \in Nat \ {0} /\ index <= WindowSize /\ hsd \in DecoderStates
      /\ left \in Nat \ {0} /\ left <= PowerOf2[LookaheadBits]
      /\ WindowShows(hsd, out) /\ DecoderTyped(hsd) /\ Reads(hsd, p, data)
      /\ Decodes(hsd, c, data, out)
  BY <1>2 DEF Follows, DecoderTyped, DecoderStates
<1>4. byte = IF k < 1 THEN NoByte ELSE out[k]
  <2>1. index \in 1 .. WindowSize
    BY <1>3, Widths
  <2>2. byte = IF index <= Len(out) THEN out[Len(out) + 1 - index] ELSE NoByte
    BY <1>3, <2>1 DEF WindowShows
  <2>3. Len(out) \in Nat /\ index \in Nat
    BY <1>3
  <2> HIDE DEF byte, index
  <2> QED
    BY <2>2, <2>3
<1> HIDE DEF c, byte
<1>5. byte \in Bytes /\ more \in Seq(Bytes) /\ Begins(out, more)
  <2>1. byte \in Bytes
    <3>1. CASE k < 1
      BY <1>4, <3>1, NoByteIsByte
    <3>2. CASE ~ (k < 1)
      <4>1. k \in 1 .. Len(out)
        BY <1>3, <3>2
      <4> HIDE DEF k
      <4> QED
        BY <1>4, <3>2, <4>1
    <3> QED
      BY <3>1, <3>2
  <2> QED
    BY <2>1, BeginsMore
<1>6. /\ f \in DecoderStates /\ f.state = hsd.state /\ f.output_index = index
      /\ f.output_count = left /\ f.input = hsd.input
      /\ f.input_index = hsd.input_index /\ f.bits = hsd.bits
      /\ WindowShows(f, more)
  BY <1>3, <1>5, PushedShows
<1> HIDE DEF f, more, index, left
<1>7. /\ hsd'.input = hsd.input /\ hsd'.input_index = hsd.input_index
      /\ hsd'.bits = hsd.bits
      /\ hsd'.head_index = f.head_index /\ hsd'.window = f.window
      /\ hsd'.output_index = index /\ hsd'.output_count = left - 1
      /\ hsd'.state = IF left = 1 THEN "TAG_BIT" ELSE "YIELD_BACKREF"
      /\ hsd' \in DecoderStates
  <2>1. left - 1 \in Nat
    BY <1>3
  <2>2. hsd' = [f EXCEPT !.output_count = left - 1,
                         !.state = IF left = 1 THEN "TAG_BIT" ELSE "YIELD_BACKREF"]
    BY <1>2, <1>6 DEF DecoderStates
  <2> QED
    BY <1>6, <2>1, <2>2 DEF DecoderStates, HsdStates
<1>8. DecoderTyped(hsd')
  <2>1. left - 1 <= PowerOf2[LookaheadBits] /\ (left # 1 => left - 1 # 0)
    BY <1>3, Widths
  <2> QED
    BY <1>3, <1>7, <2>1 DEF DecoderTyped
<1>9. Reads(hsd', p, data) /\ Consumed(hsd', p) = c
  BY <1>3, <1>7, ReadsSame DEF c
<1>10. WindowShows(hsd', more)
  BY <1>6, <1>7, WindowSame
<1>11. Decodes(hsd', c, data, more)
  <2>1. CASE Begins(Meaning(data), out) /\ c > Len(B)
    <3>1. Meaning(data) \in Seq(Bytes)
      BY MeaningIs
    <3> QED
      BY <1>5, <2>1, <3>1, BeginsTransitive DEF Decodes
  <2>2. CASE c <= Len(B) /\ \E n \in Nat : AtToken(hsd, c, B, After(B)[n], out)
    <3>1. PICK n \in Nat : AtToken(hsd, c, B, After(B)[n], out)
      BY <2>2
    <3> DEFINE m == After(B)[n]
               next == After(B)[n + 1]
               count == CountAt(B, m)
               shown == m.shown
    <3>2. m \in TokenStates(B) /\ next = NextToken(B, m)
      BY <1>1, AfterIs
    <3>3. /\ c = m.read + BackrefLen /\ IsBackref(B, m)
          /\ index = IndexAt(B, m) /\ left <= count
          /\ out = Repeat(shown, index, count - left)
      BY <1>2, <3>1 DEF AtToken, index, left
    <3> HIDE DEF m, next, B
    <3>4. next.read = c /\ next.shown = Repeat(shown, index, count)
      BY <1>1, <3>2, <3>3, TokenCases
    <3>5. count \in Nat /\ shown \in Seq(Bytes)
      <4>1. count \in 1 .. PowerOf2[LookaheadBits] /\ PowerOf2[LookaheadBits] \in Nat
        BY <1>1, <3>2, <3>3, FieldValues, Widths DEF IsBackref
      <4> HIDE DEF count
      <4> QED
        BY <3>2, <4>1 DEF TokenStates
    <3> HIDE DEF count, shown
    <3> DEFINE done == count - left
    <3>6. done \in Nat /\ done + 1 = count - (left - 1) /\ left - 1 <= count
      BY <1>3, <3>3, <3>5
    <3>7. out = Repeat(shown, index, done)
      BY <3>3
    <3> HIDE DEF done
    <3>8. Repeat(shown, index, done + 1) = Append(out, byte)
      <4>1. Repeat(shown, index, done + 1) =
              Append(Repeat(shown, index, done), ShownBefore(Repeat(shown, index, done), index))
        BY <1>3, <3>5, <3>6, RepeatAgain, Zenon
      <4>2. byte = ShownBefore(out, index)
        BY <1>4 DEF ShownBefore
      <4> QED
        BY <3>7, <4>1, <4>2
    <3>9. more = Repeat(shown, index, count - (left - 1))
      BY <3>6, <3>7, <3>8 DEF more
    <3>10. CASE left = 1
      <4>1. count - (left - 1) = count
        BY <3>5, <3>10
      <4>2. next.shown = more
        BY <3>4, <3>9, <4>1
      <4>3. AtToken(hsd', c, B, next, more)
        BY <1>7, <3>4, <3>10, <4>2 DEF AtToken
      <4> QED
        BY <2>2, <4>3 DEF Decodes, next, B
    <3>11. CASE left # 1
      <4>1. AtToken(hsd', c, B, m, more)
        BY <1>7, <3>3, <3>6, <3>9, <3>11 DEF AtToken, count, shown
      <4> QED
        BY <2>2, <4>1 DEF Decodes, m, B
    <3> QED
      BY <3>10, <3>11
  <2> QED
    BY <1>3, <2>1, <2>2 DEF Decodes
<1> QED
  BY <1>2, <1>5, <1>8, <1>9, <1>10, <1>11 DEF StepsTo, Follows, more

(* Every turn of the loop of heatshrink_decoder_poll follows the data.     *)
LEMMA AdvancesFollows ==
  ASSUME NEW data \in Seq(Bytes), NEW out \in Seq(Bytes), NEW room,
         Follows(hsd, p, data, out), Advances(room)
  PROVE  StepsTo(data, out, room)
BY TagBitFollows, YieldLiteralFollows, BackrefIndexFollows, BackrefCountFollows,
   YieldBackrefFollows DEF Advances

(* So does the decoder that was reset, with a cleared window.              *)
LEMMA FreshFollows ==
  ASSUME NEW data \in Seq(Bytes)
  PROVE  Follows(Fresh, 0, data, <<>>)
<1> DEFINE W == WindowSize
           B == BitsOf(data)
           d == Fresh
           none == <<>>
<1>1. W \in Nat \ {0} /\ B \in Seq(Bit) /\ Len(B) \in Nat /\ ByteBits \in Nat \ {0}
  BY Widths, BitsOfIs
<1>2. none \in Seq(Bytes) /\ Len(none) = 0 /\ none \in Seq(Bit)
  OBVIOUS
<1>3. /\ d.state = "TAG_BIT" /\ d.input = none /\ d.input_index = 0 /\ d.bits = none
      /\ d.output_count = 0 /\ d.output_index = 0 /\ d.head_index = 0
      /\ d.window = [i \in 0 .. W - 1 |-> NoByte]
  BY DEF Fresh
<1>4. d.window \in [0 .. W - 1 -> Bytes] /\ 0 \in 0 .. W - 1
  BY <1>1, <1>3, NoByteIsByte
<1>5. d \in DecoderStates
  BY <1>2, <1>4 DEF Fresh, DecoderStates, HsdStates
<1> HIDE DEF d, none, W
<1>6. DecoderTyped(d)
  BY <1>1, <1>3, <1>5, Widths DEF DecoderTyped, W
<1>7. Consumed(d, 0) = 0
  BY <1>1, <1>2, <1>3 DEF Consumed
<1>8. Reads(d, 0, data)
  BY <1>1, <1>2, <1>3, <1>7, HeatshrinkAssumption DEF Reads, Matches
<1>9. WindowShows(d, none)
  <2>1. ASSUME NEW k \in 1 .. W
        PROVE  d.window[(0 - k) % W] = NoByte /\ ~ (k <= Len(none))
    <3>1. (0 - k) % W = IF k <= 0 THEN 0 - k ELSE 0 - k + W
      BY <1>1, <1>4, ModBack
    <3>2. (0 - k) % W \in 0 .. W - 1
      BY <1>1, <3>1
    <3> QED
      BY <1>2, <1>3, <3>2
  <2> QED
    BY <1>3, <2>1 DEF WindowShows, W
<1>10. Decodes(d, 0, data, none)
  <2>1. After(B)[0] = [read |-> 0, shown |-> none]
    BY <1>1, AfterIs DEF none
  <2>2. AtToken(d, 0, B, After(B)[0], none)
    BY <1>3, <2>1 DEF AtToken
  <2>3. 0 \in Nat /\ 0 <= Len(B)
    BY <1>1
  <2> QED
    BY <2>2, <2>3 DEF Decodes
<1> QED
  BY <1>6, <1>7, <1>8, <1>9, <1>10 DEF Follows, d, none

(* heatshrink_decoder_sink, whatever lies behind the data.                 *)
LEMMA SinkFollows ==
  ASSUME NEW data \in Seq(Bytes), NEW out \in Seq(Bytes), Follows(hsd, p, data, out),
         NEW b \in Bytes,
         hsd' = Sunk([i \in 1 .. SinkCount |-> IF p + i <= Len(data) THEN data[p + i] ELSE b])
  PROVE  SinkCount \in Nat /\ Follows(hsd', p + SinkCount, data, out)
<1> DEFINE count == SinkCount
           more == [i \in 1 .. count |-> IF p + i <= Len(data) THEN data[p + i] ELSE b]
           input == hsd.input
           joined == input \o more
           q == p + count
<1>1. /\ input \in Seq(Bytes) /\ Len(input) \in Nat /\ Len(input) <= InputSize
      /\ hsd.input_index \in Nat
      /\ hsd.input_index = 0 \/ hsd.input_index < Len(input)
      /\ p \in Nat /\ Len(input) <= p /\ InputSize \in Nat /\ Len(data) \in Nat
      /\ count = InputSize - Len(input)
  BY HeatshrinkAssumption DEF Follows, Reads, SinkCount
<1>2. /\ hsd.bits \in Seq(Bit) /\ Len(hsd.bits) < ByteBits /\ Consumed(hsd, p) \in Nat
      /\ Matches(BitsOf(data), Consumed(hsd, p), hsd.bits)
  BY DEF Follows, Reads
<1>3. \A i \in 1 .. Len(input) :
        p - Len(input) + i <= Len(data) => input[i] = data[p - Len(input) + i]
  BY DEF Follows, Reads
<1>4. hsd \in DecoderStates /\ DecoderTyped(hsd)
  BY DEF Follows, DecoderTyped
<1>5. hsd' = [hsd EXCEPT !.input = joined]
  BY <1>4 DEF Sunk, DecoderStates
<1> HIDE DEF count, input
<1>6. count \in Nat /\ Len(input) + count = InputSize
  BY <1>1
<1>7. /\ more \in Seq(Bytes) /\ Len(more) = count
      /\ \A i \in 1 .. count : p + i <= Len(data) => more[i] = data[p + i]
  <2>1. ASSUME NEW i \in 1 .. count
        PROVE  (IF p + i <= Len(data) THEN data[p + i] ELSE b) \in Bytes
    BY <1>1, <1>6
  <2> QED
    BY <1>6, <2>1
<1> HIDE DEF more
<1>8. /\ joined \in Seq(Bytes) /\ Len(joined) = InputSize
      /\ \A i \in 1 .. InputSize :
           joined[i] = IF i <= Len(input) THEN input[i] ELSE more[i - Len(input)]
  BY <1>1, <1>6, <1>7, ConcatProperties
<1> HIDE DEF joined
<1>9. q - InputSize = p - Len(input) /\ q \in Nat /\ InputSize <= q
  BY <1>1, <1>6
<1>10. ASSUME NEW i \in 1 .. InputSize, q - InputSize + i <= Len(data)
       PROVE  joined[i] = data[q - InputSize + i]
  <2>1. CASE i <= Len(input)
    <3>1. i \in 1 .. Len(input) /\ q - InputSize + i = p - Len(input) + i
      BY <1>1, <1>9, <2>1
    <3> QED
      BY <1>3, <1>8, <1>10, <2>1, <3>1
  <2>2. CASE ~ (i <= Len(input))
    <3> DEFINE j == i - Len(input)
    <3>1. j \in 1 .. count /\ p + j = q - InputSize + i
      BY <1>1, <1>6, <1>9, <2>2
    <3>2. joined[i] = more[j]
      BY <1>8, <2>2
    <3> HIDE DEF j
    <3> QED
      BY <1>7, <1>10, <3>1, <3>2
  <2> QED
    BY <2>1, <2>2
<1>11. /\ hsd'.input = joined /\ hsd'.input_index = hsd.input_index
       /\ hsd'.bits = hsd.bits /\ hsd'.state = hsd.state
       /\ hsd'.output_index = hsd.output_index /\ hsd'.output_count = hsd.output_count
       /\ hsd'.head_index = hsd.head_index /\ hsd'.window = hsd.window
       /\ hsd' \in DecoderStates
  BY <1>4, <1>5, <1>8 DEF DecoderStates
<1>12. Consumed(hsd', q) = Consumed(hsd, p)
  <2>1. q - Len(joined) + hsd.input_index = p - Len(input) + hsd.input_index
    BY <1>8, <1>9
  <2> HIDE DEF q
  <2> QED
    BY <1>11, <2>1 DEF Consumed, input
<1>13. Reads(hsd', q, data)
  <2>1. hsd.input_index = 0 \/ hsd.input_index < Len(joined)
    BY <1>1, <1>8
  <2>2. \A i \in 1 .. Len(joined) :
          q - Len(joined) + i <= Len(data) => joined[i] = data[q - Len(joined) + i]
    BY <1>8, <1>10
  <2>3. Len(joined) <= InputSize /\ Len(joined) <= q
    BY <1>1, <1>8, <1>9
  <2>4. Consumed(hsd', q) \in Nat /\ Matches(BitsOf(data), Consumed(hsd', q), hsd'.bits)
    BY <1>2, <1>11, <1>12
  <2> HIDE DEF q
  <2> QED
    BY <1>1, <1>2, <1>8, <1>9, <1>11, <2>1, <2>2, <2>3, <2>4 DEF Reads
<1>14. DecoderTyped(hsd')
  BY <1>4, <1>11 DEF DecoderTyped
<1>15. WindowShows(hsd', out)
  BY <1>11, WindowSame DEF Follows
<1>16. Decodes(hsd', Consumed(hsd, p), data, out)
  BY <1>11 DEF Follows, Decodes, AtToken
<1> QED
  BY <1>6, <1>12, <1>13, <1>14, <1>15, <1>16 DEF Follows, count

(* A decoder that was given all of the data and still wants more has       *)
(* decoded its whole meaning.                                              *)
LEMMA NothingLeft ==
  ASSUME NEW data \in Seq(Bytes), NEW out \in Seq(Bytes), Follows(hsd, p, data, out),
         NEW room, HasRoom(room), Suspended(room), p >= Len(data)
  PROVE  Begins(Meaning(data), out)
<1> DEFINE c == Consumed(hsd, p)
           B == BitsOf(data)
           n == Needs(hsd.state)
           bits == hsd.bits
<1>1. /\ hsd.input \in Seq(Bytes) /\ hsd.input_index \in Nat
      /\ hsd.input_index = 0 \/ hsd.input_index < Len(hsd.input)
      /\ bits \in Seq(Bit) /\ Len(bits) \in Nat /\ p \in Nat /\ c \in Nat
      /\ Decodes(hsd, c, data, out) /\ hsd.state \in HsdStates
  BY DEF Follows, Reads, DecoderTyped, DecoderStates
<1>2. hsd.state # "YIELD_BACKREF" /\ n \in Nat /\ ~ CanGet(n)
  <2>1. ByteBits \in Nat /\ WindowBits \in Nat /\ LookaheadBits \in Nat
    BY Widths
  <2>2. CASE hsd.state = "TAG_BIT"
    BY <2>2 DEF Suspended, Needs
  <2>3. CASE hsd.state = "YIELD_LITERAL"
    BY <2>1, <2>3 DEF Suspended, Needs
  <2>4. CASE hsd.state = "BACKREF_INDEX"
    BY <2>1, <2>4 DEF Suspended, Needs
  <2>5. CASE hsd.state = "BACKREF_COUNT"
    BY <2>1, <2>5 DEF Suspended, Needs
  <2>6. CASE hsd.state = "YIELD_BACKREF"
    BY <2>6 DEF Suspended
  <2> QED
    BY <1>1, <2>2, <2>3, <2>4, <2>5, <2>6 DEF HsdStates
<1> HIDE DEF n
<1>3. hsd.input = <<>> /\ ~ (Len(bits) >= n)
  BY <1>2 DEF CanGet
<1>4. Len(hsd.input) = 0 /\ hsd.input_index = 0
  BY <1>1, <1>3
<1>5. c = ByteBits * p - Len(bits)
  <2>1. p - 0 + 0 = p
    BY <1>1
  <2> QED
    BY <1>4, <2>1 DEF Consumed
<1>6. B \in Seq(Bit) /\ Len(B) = ByteBits * Len(data) /\ Len(data) \in Nat /\ Len(B) \in Nat
  BY BitsOfIs
<1>7. ByteBits * p >= ByteBits * Len(data) /\ ByteBits * p \in Nat
  <2> DEFINE l == Len(data)
  <2>1. l \in Nat /\ p \in Nat /\ ByteBits \in Nat \ {0} /\ p >= l
    BY <1>1, <1>6, Widths
  <2> HIDE DEF l
  <2>2. ByteBits * p >= ByteBits * l
    BY <2>1, TimesMonotonic
  <2>3. ByteBits * p \in Nat
    BY <2>1, TimesNext
  <2> QED
    BY <2>2, <2>3 DEF l
<1> DEFINE read == ByteBits * p
<1> HIDE DEF read, c, bits, B
<1>8. c + n \in Nat /\ c + n > Len(B)
  <2>1. c = read - Len(bits) /\ read >= Len(B) /\ read \in Nat
    BY <1>5, <1>6, <1>7 DEF read
  <2> QED
    BY <1>1, <1>2, <1>3, <1>6, <2>1
<1>9. Decodes(hsd, c + n, data, out)
  <2>1. Begins(out, out)
    BY DEF Begins
  <2> QED
    BY <1>1, <1>2, <1>8, <2>1, Crosses DEF n, B
<1> QED
  BY <1>6, <1>8, <1>9 DEF Decodes, B

-----------------------------------------------------------------------------
(* Pixels.                                                                 *)

(* Pixels are sent as whole bytes: with room for one pixel there is room   *)
(* for a byte of them, and the bytes decoded are fewer than those to show. *)
LEMMA WholeBytes ==
  ASSUME NEW d \in Nat \ {0}, NEW r \in Nat, NEW o \in Nat, NEW n \in Nat, NEW l \in Nat,
         l + d * r = d * o, l < d * n
  PROVE  l + d <= d * n /\ (r = 0 => o < n)
<1> DEFINE k == o - r
           x == d * r
           y == d * o
           z == d * n
<1>1. /\ x \in Nat /\ y \in Nat /\ z \in Nat
      /\ d * (o + 1) = y + d /\ d \in Nat
  BY TimesNext
<1>2. o >= r
  <2>1. CASE o + 1 <= r
    <3>1. d * r >= d * (o + 1)
      <4>1. o + 1 \in Nat /\ r >= o + 1
        BY <2>1
      <4> QED
        BY <4>1, TimesMonotonic
    <3>2. x >= y + d /\ l + x = y
      BY <1>1, <3>1
    <3> HIDE DEF x, y
    <3> QED
      BY <1>1, <3>2
  <2> QED
    BY <2>1
<1>3. k \in Nat /\ o = r + k
  BY <1>2
<1> HIDE DEF k
<1>4. d * k = l
  <2>1. d * (r + k) = d * r + d * k
    BY <1>3
  <2>2. y = x + d * k /\ d * k \in Nat
    BY <1>3, <2>1
  <2>3. l + x = y
    OBVIOUS
  <2> DEFINE w == d * k
  <2> HIDE DEF x, y, w
  <2>4. w = l
    BY <1>1, <2>2, <2>3 DEF w
  <2> QED
    BY <2>4 DEF w
<1>5. k < n
  <2>1. CASE k >= n
    <3>1. d * k >= d * n
      BY <1>3, <2>1, TimesMonotonic
    <3>2. l >= z /\ l < z
      BY <1>4, <3>1
    <3> HIDE DEF z
    <3> QED
      BY <1>1, <3>2
  <2> QED
    BY <1>3, <2>1
<1>6. d * n >= d * (k + 1) /\ d * (k + 1) = d * k + d
  <2>1. k + 1 \in Nat /\ n >= k + 1
    BY <1>3, <1>5
  <2>2. d * n >= d * (k + 1)
    BY <2>1, TimesMonotonic
  <2>3. d * (k + 1) = d * k + d
    BY <1>1, <1>3, TimesNext
  <2> QED
    BY <2>2, <2>3
<1>7. l + d <= d * n
  BY <1>1, <1>4, <1>6
<1>8. r = 0 => o < n
  BY <1>3, <1>5
<1> QED
  BY <1>7, <1>8

(* The bits of a beginning.                                                *)
LEMMA BitsAgree ==
  ASSUME NEW s \in Seq(Bytes), NEW t \in Seq(Bytes), Begins(s, t)
  PROVE  \A k \in 1 .. Len(BitsOf(s)) : BitsOf(s)[k] = BitsOf(t)[k]
<1> SUFFICES ASSUME NEW k \in 1 .. Len(BitsOf(s)) PROVE BitsOf(s)[k] = BitsOf(t)[k]
  OBVIOUS
<1>1. Len(s) \in Nat /\ k \in 1 .. ByteBits * Len(s)
  BY BitsOfIs
<1>2. PICK j \in 1 .. Len(s), i \in 1 .. ByteBits : k = ByteBits * (j - 1) + i
  BY <1>1, Place
<1>3. BitsOf(s)[ByteBits * (j - 1) + i] = s[j][i]
  BY BitsOfIs
<1>4. j \in 1 .. Len(t) /\ s[j] = t[j]
  <2>1. Len(s) <= Len(t) /\ Len(t) \in Nat
    BY DEF Begins
  <2>2. s[j] = t[j]
    BY DEF Begins
  <2> QED
    BY <1>1, <2>1, <2>2
<1>5. BitsOf(t)[ByteBits * (j - 1) + i] = t[j][i]
  BY <1>4, BitsOfIs
<1> QED
  BY <1>2, <1>3, <1>4, <1>5

(* Sequences of bits one after the other.                                  *)
LEMMA Joined ==
  ASSUME NEW s \in Seq(Bit), NEW t \in Seq(Bit)
  PROVE  s \o t \in Seq(Bit) /\ Len(s \o t) = Len(s) + Len(t) /\ s \o <<>> = s
BY ConcatProperties, ConcatEmptySeq

(* The same, of three.                                                     *)
LEMMA Associates ==
  ASSUME NEW s \in Seq(Bit), NEW t \in Seq(Bit), NEW u \in Seq(Bit)
  PROVE  (s \o t) \o u = s \o (t \o u)
BY ConcatAssociative

-----------------------------------------------------------------------------
(* The invariant, and the steps of drawing.                                *)

(* The bytes in decompBuffer that were not drawn.                          *)
Rest == IF at \in {"poll", "sink"} THEN decomp ELSE SubSeq(decomp, head + 1, Len(decomp))

(* What was sent, waits to be sent and was not drawn yet is what the       *)
(* decoder has decoded.                                                    *)
Draws(out) == /\ Follows(hsd, p, picture.data, out)
              /\ (sent \o temp) \o BitsOf(Rest) = BitsOf(out)

(* Types.                                                                  *)
Shape ==
  /\ at \in {"draw", "drawn", "poll", "sink", "shown"}
  /\ picture \in WholePictures /\ p \in Nat /\ step \in 0 .. Len(Frames) - 1
  /\ decomp \in Seq(Bytes) /\ temp \in Seq(Bit) /\ sent \in Seq(Bit)
  /\ Len(decomp) <= OutputSize /\ head \in 0 .. OutputSize

(* How far the buffers are filled, and the picture is drawn, at each place *)
(* in the code. The input ends only for a decoder that has not decoded the *)
(* bytes to show.                                                          *)
Counts ==
  /\ at \in {"draw", "drawn", "shown"} => head <= Len(decomp)
  /\ at = "drawn" => Len(temp) <= BufferWords
  /\ at # "drawn" => Len(temp) <= BufferWords - Margin
  /\ Pixel <= NbPixel
  /\ at \in {"poll", "sink"} => Pixel < NbPixel
  /\ at = "shown" => Pixel = NbPixel /\ temp = <<>>
  /\ at = "sink" => decomp = <<>> /\ p < Len(picture.data)

(* The inductive invariant.                                                *)
ScreenInv == Shape /\ Counts /\ \E out \in Seq(Bytes) : Draws(out)

(* The constants of the display.                                           *)
LEMMA Sizes ==
  /\ OutputSize \in Nat \ {0} /\ BufferWords \in Nat /\ Margin \in Nat
  /\ ByteBits \in Nat \ {0} /\ ByteBits <= Margin /\ Margin < BufferWords
  /\ Frames \in Seq(WholePictures) /\ Len(Frames) \in Nat \ {0}
  /\ \A t \in WholePictures : /\ t.data \in Seq(Bytes) /\ t.bytes \in Nat
                              /\ t.bytes <= Len(Meaning(t.data))
<1>1. /\ OutputSize \in Nat \ {0} /\ BufferWords \in Nat /\ Margin \in ByteBits .. BufferWords - 1
      /\ Frames \in Seq(WholePictures) /\ Frames # <<>>
  BY ScreenAssumption
<1>2. ByteBits \in Nat \ {0}
  BY Widths
<1>3. Len(Frames) \in Nat \ {0}
  BY <1>1, EmptySeq
<1>4. \A t \in WholePictures : /\ t.data \in Seq(Bytes) /\ t.bytes \in Nat
                               /\ t.bytes <= Len(Meaning(t.data))
  BY DEF WholePictures
<1> QED
  BY <1>1, <1>2, <1>3, <1>4

(* What holds when a picture is begun.                                     *)
LEMMA Starts ==
  ASSUME NEW pict \in WholePictures
  PROVE  /\ Follows(Fresh, 0, pict.data, <<>>)
         /\ <<>> \in Seq(Bytes) /\ <<>> \in Seq(Bit) /\ Len(<<>>) = 0
         /\ SubSeq(<<>>, 1, 0) = <<>> /\ BitsOf(<<>>) = <<>> /\ <<>> \o <<>> = <<>>
         /\ ByteBits * pict.bytes \in Nat
<1>1. pict.data \in Seq(Bytes) /\ pict.bytes \in Nat /\ ByteBits \in Nat
  BY Sizes
<1>2. ByteBits * pict.bytes \in Nat
  BY <1>1, TimesNext
<1>3. SubSeq(<<>>, 1, 0) = <<>> /\ <<>> \o <<>> = <<>>
  OBVIOUS
<1> QED
  BY <1>1, <1>2, <1>3, FreshFollows, BitsOfOne

(* A picture was begun, by runLcd or by animate.                           *)
Begun ==
  /\ at = "draw" /\ picture \in WholePictures /\ step \in 0 .. Len(Frames) - 1
  /\ p = 0 /\ head = 0 /\ temp = <<>> /\ sent = <<>> /\ hsd = Fresh /\ decomp = <<>>

(* The invariant holds then.                                               *)
LEMMA BegunInv == Begun => ScreenInv
<1> SUFFICES ASSUME Begun PROVE ScreenInv
  OBVIOUS
<1> DEFINE none == <<>>
<1>1. /\ Follows(hsd, p, picture.data, none)
      /\ none \in Seq(Bytes) /\ none \in Seq(Bit) /\ Len(none) = 0
      /\ SubSeq(none, 1, 0) = none /\ BitsOf(none) = none /\ none \o none = none
      /\ NbPixel \in Nat
  BY Starts DEF Begun, NbPixel
<1>2. /\ at = "draw" /\ decomp = none /\ temp = none /\ sent = none /\ head = 0 /\ p = 0
      /\ picture \in WholePictures /\ step \in 0 .. Len(Frames) - 1
  BY DEF Begun
<1> HIDE DEF none
<1>3. Shape
  BY <1>1, <1>2, Sizes DEF Shape
<1>4. Counts
  <2>1. Pixel = 0
    BY <1>1, <1>2 DEF Pixel
  <2> QED
    BY <1>1, <1>2, <2>1, Sizes DEF Counts
<1>5. Rest = none
  BY <1>1, <1>2 DEF Rest
<1>6. Draws(none)
  BY <1>1, <1>2, <1>5 DEF Draws
<1> QED
  BY <1>1, <1>3, <1>4, <1>6 DEF ScreenInv

(* runLcd begins the title.                                                *)
LEMMA InitInv == ScreenInit => ScreenInv
<1>1. ScreenInit => Begun
  BY Sizes, ScreenAssumption DEF ScreenInit, Begun
<1> QED
  BY <1>1, BegunInv

(* animate begins a frame, whatever picture was shown before.              *)
LEMMA AnimateInv ==
  ASSUME ScreenInv, Animate
  PROVE  Begun'
<1>1. step \in 0 .. Len(Frames) - 1 /\ Len(Frames) \in Nat \ {0}
  BY Sizes DEF ScreenInv, Shape
<1>2. Frames[step + 1] \in WholePictures
  <2>1. step + 1 \in 1 .. Len(Frames)
    BY <1>1
  <2> QED
    BY <2>1, Sizes
<1>3. (step + 1) % Len(Frames) \in 0 .. Len(Frames) - 1
  <2> DEFINE l == Len(Frames)
  <2>1. l \in Nat \ {0} /\ step \in 0 .. l - 1
    BY <1>1
  <2> HIDE DEF l
  <2>2. (step + 1) % l = IF step + 1 = l THEN 0 ELSE step + 1
    BY <2>1, ModNext
  <2>3. (step + 1) % l \in 0 .. l - 1
    BY <2>1, <2>2
  <2> QED
    BY <2>3 DEF l
<1> QED
  BY <1>2, <1>3 DEF Animate, StartDrawing, ResetOf, Begun

(* The type of what was not drawn.                                         *)
LEMMA RestTyped ==
  ASSUME decomp \in Seq(Bytes), head \in Nat
  PROVE  Rest \in Seq(Bytes)
<1>1. SubSeq(decomp, head + 1, Len(decomp)) \in Seq(Bytes)
  BY SubSeqProperties
<1> QED
  BY <1>1 DEF Rest

(* There is a whole byte to draw, if there is a pixel.                     *)
LEMMA PixelsLeft ==
  ASSUME ScreenInv, Pixel < NbPixel
  PROVE  Pixel + ByteBits <= NbPixel
<1>1. PICK out \in Seq(Bytes) : Draws(out)
  BY DEF ScreenInv
<1>2. /\ temp \in Seq(Bit) /\ sent \in Seq(Bit) /\ decomp \in Seq(Bytes)
      /\ picture.bytes \in Nat /\ ByteBits \in Nat \ {0}
  BY Sizes DEF ScreenInv, Shape
<1>0. head \in Nat
  BY Sizes DEF ScreenInv, Shape
<1>3. Rest \in Seq(Bytes)
  BY <1>0, <1>2, RestTyped
<1>4. /\ BitsOf(Rest) \in Seq(Bit) /\ Len(BitsOf(Rest)) = ByteBits * Len(Rest)
      /\ Len(BitsOf(out)) = ByteBits * Len(out) /\ Len(Rest) \in Nat /\ Len(out) \in Nat
  BY <1>3, BitsOfIs
<1>5. /\ sent \o temp \in Seq(Bit) /\ Len(sent \o temp) = Pixel /\ Pixel \in Nat
  BY <1>2, Joined DEF Pixel
<1>6. Len((sent \o temp) \o BitsOf(Rest)) = Pixel + Len(BitsOf(Rest))
  BY <1>4, <1>5, Joined
<1>7. Pixel + ByteBits * Len(Rest) = ByteBits * Len(out)
  BY <1>1, <1>4, <1>6 DEF Draws
<1> DEFINE r == Len(Rest)
           o == Len(out)
           n == picture.bytes
           l == Pixel
<1>8. /\ r \in Nat /\ o \in Nat /\ n \in Nat /\ l \in Nat
      /\ l + ByteBits * r = ByteBits * o /\ l < ByteBits * n
  BY <1>2, <1>4, <1>5, <1>7 DEF NbPixel
<1> HIDE DEF r, o, n, l
<1>9. l + ByteBits <= ByteBits * n
  BY <1>2, <1>8, WholeBytes, Zenon
<1> QED
  BY <1>9 DEF l, n, NbPixel

(* A byte moves from decompBuffer to the words.                            *)
LEMMA DrawByteInv ==
  ASSUME ScreenInv, DrawByte
  PROVE  ScreenInv'
<1> DEFINE byte == decomp[head + 1]
           tail == SubSeq(decomp, head + 2, Len(decomp))
<1>1. PICK out \in Seq(Bytes) : Draws(out)
  BY DEF ScreenInv
<1>2. /\ temp \in Seq(Bit) /\ sent \in Seq(Bit) /\ decomp \in Seq(Bytes) /\ head \in Nat
      /\ Len(decomp) \in Nat /\ Len(decomp) <= OutputSize /\ head <= OutputSize
      /\ Shape /\ Counts
  BY Sizes DEF ScreenInv, Shape
<1>3. /\ at = "draw" /\ Pixel < NbPixel /\ head < Len(decomp)
      /\ temp' = temp \o byte /\ head' = head + 1 /\ at' = "drawn"
      /\ UNCHANGED <<hsd, decomp, picture, p, sent, step>>
  BY DEF DrawByte, decoder
<1>4. byte \in Bytes /\ byte \in Seq(Bit) /\ Len(byte) = ByteBits /\ ByteBits \in Nat
  BY <1>2, <1>3, ByteIsBits
<1> HIDE DEF byte
<1>5. /\ temp' \in Seq(Bit) /\ Len(temp') = Len(temp) + ByteBits
      /\ sent \o temp \in Seq(Bit) /\ (sent \o temp) \o byte = sent \o (temp \o byte)
  <2>1. temp' \in Seq(Bit) /\ Len(temp') = Len(temp) + ByteBits
    BY <1>2, <1>3, <1>4, Joined
  <2>2. sent \o temp \in Seq(Bit)
    BY <1>2, Joined
  <2>3. (sent \o temp) \o byte = sent \o (temp \o byte)
    BY <1>2, <1>4, Associates
  <2> QED
    BY <2>1, <2>2, <2>3
<1>6. Shape'
  <2>1. head' \in 0 .. OutputSize
    BY <1>2, <1>3, Sizes
  <2> QED
    BY <1>2, <1>3, <1>5, <2>1 DEF Shape
<1>7. Counts'
  <2>1. Len(temp) <= BufferWords - Margin /\ Len(temp) \in Nat /\ Len(sent) \in Nat
    BY <1>2, <1>3 DEF Counts
  <2>2. Len(temp') <= BufferWords
    BY <1>4, <1>5, <2>1, Sizes
  <2>3. Pixel' = Pixel + ByteBits /\ NbPixel' = NbPixel
    BY <1>3, <1>4, <1>5, <2>1 DEF Pixel, NbPixel
  <2>4. Pixel' <= NbPixel'
    BY <1>3, <2>3, PixelsLeft
  <2>5. head' <= Len(decomp')
    BY <1>2, <1>3
  <2> QED
    BY <1>3, <2>2, <2>4, <2>5 DEF Counts
<1>8. Draws(out)'
  <2>1. Rest = SubSeq(decomp, head + 1, Len(decomp)) /\ Rest' = tail
    <3>1. head' + 1 = head + 2
      BY <1>2, <1>3
    <3> QED
      BY <1>3, <3>1 DEF Rest
  <2>2. tail \in Seq(Bytes) /\ Rest = <<byte>> \o tail
    <3>1. Rest \in Seq(Bytes)
      BY <1>2, RestTyped
    <3>2. /\ Len(Rest) = Len(decomp) - head
          /\ \A i \in 1 .. Len(decomp) - head : Rest[i] = decomp[head + i]
      BY <1>2, <1>3, <2>1
    <3>3. /\ tail \in Seq(Bytes) /\ Len(tail) = Len(decomp) - head - 1
          /\ \A i \in 1 .. Len(decomp) - head - 1 : tail[i] = decomp[head + 1 + i]
      BY <1>2, <1>3
    <3>4. <<byte>> \in Seq(Bytes) /\ Len(<<byte>>) = 1 /\ <<byte>>[1] = byte
      BY <1>4
    <3> DEFINE one == <<byte>>
    <3> HIDE DEF one, tail
    <3>5. /\ one \o tail \in Seq(Bytes) /\ Len(one \o tail) = Len(decomp) - head
          /\ \A i \in 1 .. Len(decomp) - head :
               (one \o tail)[i] = IF i <= 1 THEN one[i] ELSE tail[i - 1]
      <4>1. one \in Seq(Bytes) /\ Len(one) = 1
        BY <3>4 DEF one
      <4>2. 1 + Len(tail) = Len(decomp) - head
        BY <1>2, <3>3
      <4>3. /\ one \o tail \in Seq(Bytes) /\ Len(one \o tail) = Len(one) + Len(tail)
            /\ \A i \in 1 .. Len(one) + Len(tail) :
                 (one \o tail)[i] = IF i <= Len(one) THEN one[i] ELSE tail[i - Len(one)]
        BY <3>3, <4>1, ConcatProperties
      <4> QED
        BY <4>1, <4>2, <4>3
    <3>6. ASSUME NEW i \in 1 .. Len(decomp) - head PROVE Rest[i] = (one \o tail)[i]
      <4>1. CASE i = 1
        <5>1. (one \o tail)[i] = byte
          BY <3>4, <3>5, <4>1 DEF one
        <5> QED
          BY <3>2, <4>1, <5>1 DEF byte
      <4>2. CASE i # 1
        <5>1. i - 1 \in 1 .. Len(decomp) - head - 1 /\ head + 1 + (i - 1) = head + i /\ ~ (i <= 1)
          BY <1>2, <4>2
        <5>2. tail[i - 1] = decomp[head + i]
          BY <3>3, <5>1
        <5> QED
          BY <3>2, <3>5, <5>1, <5>2
      <4> QED
        BY <4>1, <4>2
    <3>7. Rest = one \o tail
      BY <3>1, <3>2, <3>5, <3>6, SeqEqual
    <3> QED
      BY <3>3, <3>7 DEF one
  <2> HIDE DEF tail
  <2>3. BitsOf(Rest) = byte \o BitsOf(tail)
    <3> DEFINE one == <<byte>>
    <3>1. one \in Seq(Bytes) /\ BitsOf(one) = byte
      BY <1>4, BitsOfOne
    <3> HIDE DEF one
    <3>2. BitsOf(one \o tail) = BitsOf(one) \o BitsOf(tail)
      BY <2>2, <3>1, BitsOfConcat
    <3> QED
      BY <2>2, <3>1, <3>2 DEF one
  <2>4. BitsOf(tail) \in Seq(Bit)
    BY <2>2, BitsOfIs
  <2>5. (sent \o temp) \o (byte \o BitsOf(tail)) = ((sent \o temp) \o byte) \o BitsOf(tail)
    BY <1>4, <1>5, <2>4, Associates
  <2>6. (sent' \o temp') \o BitsOf(Rest') = BitsOf(out)
    BY <1>1, <1>3, <1>5, <2>1, <2>3, <2>5 DEF Draws
  <2> QED
    BY <1>1, <1>3, <2>6 DEF Draws
<1> QED
  BY <1>6, <1>7, <1>8 DEF ScreenInv

(* The words are sent, or there is room for a byte more.                   *)
LEMMA SendFullInv ==
  ASSUME ScreenInv, SendFull
  PROVE  ScreenInv'
<1>1. PICK out \in Seq(Bytes) : Draws(out)
  BY DEF ScreenInv
<1>2. /\ temp \in Seq(Bit) /\ sent \in Seq(Bit) /\ Len(temp) \in Nat /\ Len(sent) \in Nat
      /\ Shape /\ Counts
  BY DEF ScreenInv, Shape
<1>3. /\ at = "drawn" /\ at' = "draw"
      /\ UNCHANGED <<hsd, decomp, picture, p, head, step>>
  BY DEF SendFull, decoder
<1> DEFINE none == <<>>
<1>4. /\ temp' \in Seq(Bit) /\ sent' \in Seq(Bit) /\ sent' \o temp' = sent \o temp
      /\ Len(sent') + Len(temp') = Len(sent) + Len(temp)
      /\ Len(temp') <= BufferWords - Margin
  <2>1. CASE Len(temp) > BufferWords - Margin
    <3>1. sent' = sent \o temp /\ temp' = none
      BY <2>1 DEF SendFull, MustFlush
    <3>2. none \in Seq(Bit) /\ Len(none) = 0
      OBVIOUS
    <3>3. sent \o temp \in Seq(Bit) /\ Len(sent \o temp) = Len(sent) + Len(temp)
      BY <1>2, Joined
    <3>4. (sent \o temp) \o none = sent \o temp
      BY <3>3, ConcatEmptySeq
    <3> HIDE DEF none
    <3> QED
      BY <1>2, <3>1, <3>2, <3>3, <3>4, Sizes
  <2>2. CASE ~ (Len(temp) > BufferWords - Margin)
    <3>1. sent' = sent /\ temp' = temp
      BY <2>2 DEF SendFull, MustFlush
    <3> QED
      BY <1>2, <2>2, <3>1, Sizes
  <2> QED
    BY <2>1, <2>2
<1>5. Shape'
  BY <1>2, <1>3, <1>4 DEF Shape
<1>6. Counts'
  <2>1. Pixel' = Pixel /\ NbPixel' = NbPixel
    BY <1>3, <1>4 DEF Pixel, NbPixel
  <2> QED
    BY <1>2, <1>3, <1>4, <2>1 DEF Counts
<1>7. Draws(out)'
  <2>1. Rest' = Rest
    BY <1>3 DEF Rest
  <2> QED
    BY <1>1, <1>3, <1>4, <2>1 DEF Draws
<1> QED
  BY <1>5, <1>6, <1>7 DEF ScreenInv

(* decompBuffer is empty when it is filled again.                          *)
LEMMA RefillInv ==
  ASSUME ScreenInv, Refill
  PROVE  ScreenInv'
<1>1. PICK out \in Seq(Bytes) : Draws(out)
  BY DEF ScreenInv
<1>2. Shape /\ Counts /\ decomp \in Seq(Bytes) /\ Len(decomp) \in Nat
  BY DEF ScreenInv, Shape
<1> DEFINE none == <<>>
<1>3. /\ at = "draw" /\ at' = "poll" /\ Pixel < NbPixel /\ head = Len(decomp) /\ decomp' = none
      /\ UNCHANGED <<hsd, picture, p, head, temp, sent, step>>
  BY DEF Refill, drawing
<1>4. none \in Seq(Bytes) /\ Len(none) = 0
  OBVIOUS
<1>5. Rest = none /\ Rest' = none
  <2>1. SubSeq(decomp, Len(decomp) + 1, Len(decomp)) = none
    BY <1>2, SubSeqEmpty
  <2> QED
    BY <1>3, <2>1 DEF Rest
<1> HIDE DEF none
<1>6. Shape'
  BY <1>2, <1>3, <1>4, Sizes DEF Shape
<1>7. Counts'
  <2>1. Pixel' = Pixel /\ NbPixel' = NbPixel
    BY <1>3 DEF Pixel, NbPixel
  <2> QED
    BY <1>2, <1>3, <2>1 DEF Counts
<1>8. Draws(out)'
  BY <1>1, <1>3, <1>5 DEF Draws
<1> QED
  BY <1>6, <1>7, <1>8 DEF ScreenInv

(* A turn of the loop of the decoder.                                      *)
LEMMA PollingInv ==
  ASSUME ScreenInv, Polling
  PROVE  ScreenInv'
<1>1. PICK out \in Seq(Bytes) : Draws(out)
  BY DEF ScreenInv
<1>2. /\ Shape /\ Counts /\ decomp \in Seq(Bytes) /\ Len(decomp) \in Nat
      /\ picture.data \in Seq(Bytes) /\ temp \in Seq(Bit) /\ sent \in Seq(Bit)
  BY Sizes DEF ScreenInv, Shape
<1>3. /\ at = "poll" /\ at' = "poll" /\ Advances(Room)
      /\ UNCHANGED <<picture, p, head, temp, sent, step>>
  BY DEF Polling, drawing
<1>4. StepsTo(picture.data, out, Room)
  BY <1>1, <1>2, <1>3, AdvancesFollows DEF Draws
<1>5. Rest = decomp /\ Rest' = decomp'
  BY <1>3 DEF Rest
<1>6. /\ decomp' \in Seq(Bytes) /\ Len(decomp') <= OutputSize
      /\ \E more \in Seq(Bytes) : Draws(more)'
  <2>1. CASE decomp' = decomp /\ Follows(hsd', p, picture.data, out)
    <3>1. Draws(out)'
      BY <1>1, <1>3, <1>5, <2>1 DEF Draws
    <3> QED
      BY <1>2, <2>1, <3>1 DEF Shape
  <2>2. ASSUME NEW byte \in Bytes, HasRoom(Room), decomp' = Append(decomp, byte),
               Follows(hsd', p, picture.data, Append(out, byte))
        PROVE  /\ decomp' \in Seq(Bytes) /\ Len(decomp') <= OutputSize
               /\ \E more \in Seq(Bytes) : Draws(more)'
    <3> DEFINE more == Append(out, byte)
    <3>1. more \in Seq(Bytes) /\ BitsOf(more) = BitsOf(out) \o byte
      BY BitsOfAppend
    <3>2. /\ decomp' \in Seq(Bytes) /\ Len(decomp') = Len(decomp) + 1
          /\ BitsOf(decomp') = BitsOf(decomp) \o byte
      BY <1>2, <2>2, BitsOfAppend
    <3>3. Len(decomp') <= OutputSize
      BY <1>2, <2>2, <3>2, Sizes DEF HasRoom, Room
    <3>4. sent \o temp \in Seq(Bit) /\ BitsOf(decomp) \in Seq(Bit) /\ byte \in Seq(Bit)
      BY <1>2, Joined, BitsOfIs, ByteIsBits
    <3>5. ((sent \o temp) \o BitsOf(decomp)) \o byte = (sent \o temp) \o (BitsOf(decomp) \o byte)
      BY <3>4, Associates
    <3> HIDE DEF more
    <3>6. (sent \o temp) \o BitsOf(decomp') = BitsOf(more)
      BY <1>1, <1>5, <3>1, <3>2, <3>5 DEF Draws
    <3>7. Draws(more)'
      BY <1>3, <1>5, <2>2, <3>6 DEF Draws, more
    <3> QED
      BY <3>1, <3>2, <3>3, <3>7
  <2> QED
    BY <1>4, <2>1, <2>2 DEF StepsTo
<1>7. Shape'
  BY <1>2, <1>3, <1>6 DEF Shape
<1>8. Counts'
  <2>1. Pixel' = Pixel /\ NbPixel' = NbPixel
    BY <1>3 DEF Pixel, NbPixel
  <2> QED
    BY <1>2, <1>3, <2>1 DEF Counts
<1> QED
  BY <1>6, <1>7, <1>8 DEF ScreenInv

(* While there are pixels to draw, fewer bytes than the picture has are    *)
(* decoded.                                                                *)
LEMMA FewerBytes ==
  ASSUME ScreenInv, at = "poll", decomp = <<>>, NEW out \in Seq(Bytes), Draws(out)
  PROVE  Len(out) < picture.bytes
<1>1. /\ temp \in Seq(Bit) /\ sent \in Seq(Bit) /\ Pixel < NbPixel
      /\ picture.bytes \in Nat /\ ByteBits \in Nat \ {0} /\ Len(out) \in Nat
  BY Sizes DEF ScreenInv, Shape, Counts
<1>2. sent \o temp \in Seq(Bit) /\ Len(sent \o temp) = Pixel /\ Pixel \in Nat
  BY <1>1, Joined DEF Pixel
<1>3. Rest = <<>> /\ BitsOf(Rest) = <<>>
  BY BitsOfOne DEF Rest
<1>4. sent \o temp = BitsOf(out)
  <2>1. (sent \o temp) \o <<>> = sent \o temp
    BY <1>2, Joined
  <2> QED
    BY <1>3, <2>1 DEF Draws
<1>5. Pixel = ByteBits * Len(out)
  BY <1>2, <1>4, BitsOfIs
<1> DEFINE o == Len(out)
           n == picture.bytes
           l == Pixel
<1>6. ByteBits * 0 = 0 /\ ByteBits * o \in Nat
  BY <1>1, TimesNext
<1>7. /\ o \in Nat /\ n \in Nat /\ l \in Nat
      /\ l + ByteBits * 0 = ByteBits * o /\ l < ByteBits * n
  BY <1>1, <1>2, <1>5, <1>6 DEF NbPixel
<1> DEFINE zero == 0
<1>8. zero \in Nat /\ zero = 0 /\ l + ByteBits * zero = ByteBits * o
  BY <1>7
<1> HIDE DEF o, n, l, zero
<1>9. zero = 0 => o < n
  BY <1>1, <1>7, <1>8, WholeBytes, Zenon
<1> QED
  BY <1>8, <1>9 DEF o, n

(* The decoder returns; when it is to be given input there is some left.   *)
LEMMA PollReturnsInv ==
  ASSUME ScreenInv, PollReturns
  PROVE  ScreenInv'
<1>1. PICK out \in Seq(Bytes) : Draws(out)
  BY DEF ScreenInv
<1>2. /\ Shape /\ Counts /\ decomp \in Seq(Bytes) /\ Len(decomp) \in Nat
      /\ picture.data \in Seq(Bytes) /\ p \in Nat
  BY Sizes DEF ScreenInv, Shape
<1>3. /\ at = "poll" /\ Suspended(Room)
      /\ UNCHANGED <<hsd, decomp, picture, p, temp, sent, step>>
  BY DEF PollReturns, decoder
<1>4. Pixel' = Pixel /\ NbPixel' = NbPixel /\ Pixel < NbPixel
  BY <1>2, <1>3 DEF Counts, Pixel, NbPixel
<1>5. CASE NeedsInput
  <2>1. at' = "sink" /\ head' = head
    BY <1>5 DEF PollReturns
  <2>2. HasRoom(Room) /\ decomp = <<>>
    BY <1>5 DEF NeedsInput, HasRoom
  <2>3. p < Len(picture.data)
    <3>1. CASE p >= Len(picture.data)
      <4>1. Begins(Meaning(picture.data), out)
        BY <1>1, <1>2, <1>3, <2>2, <3>1, NothingLeft DEF Draws
      <4>2. Len(out) < picture.bytes
        BY <1>1, <1>3, <2>2, FewerBytes
      <4>3. picture.bytes <= Len(Meaning(picture.data)) /\ picture.bytes \in Nat
        BY <1>2, Sizes DEF Shape
      <4>4. Meaning(picture.data) \in Seq(Bytes)
        BY <1>2, MeaningIs
      <4> QED
        BY <4>1, <4>2, <4>3, <4>4 DEF Begins
    <3> QED
      BY <1>2, <3>1
  <2>4. Rest' = Rest
    BY <1>3, <2>1 DEF Rest
  <2>5. Draws(out)'
    BY <1>1, <1>3, <2>4 DEF Draws
  <2>6. Shape'
    BY <1>2, <1>3, <2>1 DEF Shape
  <2>7. Counts'
    BY <1>2, <1>3, <1>4, <2>1, <2>2, <2>3 DEF Counts
  <2> QED
    BY <2>5, <2>6, <2>7 DEF ScreenInv
<1>6. CASE ~ NeedsInput
  <2>1. at' = "draw" /\ head' = 0
    BY <1>6 DEF PollReturns
  <2>2. SubSeq(decomp, 1, Len(decomp)) = decomp
    BY <1>2, SubSeqFull
  <2>3. Rest' = Rest
    BY <1>3, <2>1, <2>2 DEF Rest
  <2>4. Draws(out)'
    BY <1>1, <1>3, <2>3 DEF Draws
  <2>5. Shape'
    BY <1>2, <1>3, <2>1, Sizes DEF Shape
  <2>6. Counts'
    BY <1>2, <1>3, <1>4, <2>1 DEF Counts
  <2> QED
    BY <2>4, <2>5, <2>6 DEF ScreenInv
<1> QED
  BY <1>5, <1>6

(* The decoder is given input.                                             *)
LEMMA SinkInv ==
  ASSUME ScreenInv, Sink
  PROVE  ScreenInv'
<1>1. PICK out \in Seq(Bytes) : Draws(out)
  BY DEF ScreenInv
<1>2. /\ Shape /\ Counts /\ p \in Nat /\ picture.data \in Seq(Bytes)
  BY Sizes DEF ScreenInv, Shape
<1>3. /\ at = "sink" /\ at' = "poll" /\ p' = p + SinkCount /\ decomp' = <<>>
      /\ UNCHANGED <<picture, head, temp, sent, step>>
  BY DEF Sink
<1>4. PICK b \in Behind :
        hsd' = Sunk([i \in 1 .. SinkCount |->
                      IF p + i <= Len(picture.data) THEN picture.data[p + i] ELSE b])
  BY DEF Sink
<1>5. b \in Bytes
  BY ScreenAssumption
<1>6. SinkCount \in Nat /\ Follows(hsd', p + SinkCount, picture.data, out)
  BY <1>1, <1>2, <1>4, <1>5, SinkFollows DEF Draws
<1>7. decomp = <<>>
  BY <1>2, <1>3 DEF Counts
<1>8. Draws(out)'
  <2>1. Rest' = Rest
    BY <1>3, <1>7 DEF Rest
  <2> QED
    BY <1>1, <1>3, <1>6, <2>1 DEF Draws
<1>9. Shape'
  BY <1>2, <1>3, <1>6, <1>7 DEF Shape
<1>10. Counts'
  <2>1. Pixel' = Pixel /\ NbPixel' = NbPixel
    BY <1>3 DEF Pixel, NbPixel
  <2> QED
    BY <1>2, <1>3, <2>1 DEF Counts
<1> QED
  BY <1>8, <1>9, <1>10 DEF ScreenInv

(* The last words are sent.                                                *)
LEMMA FinishInv ==
  ASSUME ScreenInv, Finish
  PROVE  ScreenInv'
<1>1. PICK out \in Seq(Bytes) : Draws(out)
  BY DEF ScreenInv
<1>2. /\ temp \in Seq(Bit) /\ sent \in Seq(Bit) /\ Shape /\ Counts
      /\ Len(temp) \in Nat /\ Len(sent) \in Nat
      /\ picture.bytes \in Nat /\ ByteBits \in Nat
  BY Sizes DEF ScreenInv, Shape
<1> DEFINE none == <<>>
<1>3. /\ at = "draw" /\ at' = "shown" /\ Pixel >= NbPixel
      /\ sent' = sent \o temp /\ temp' = none
      /\ UNCHANGED <<hsd, decomp, picture, p, head, step>>
  BY DEF Finish, decoder
<1>4. /\ none \in Seq(Bit) /\ Len(none) = 0
      /\ sent \o temp \in Seq(Bit) /\ Len(sent \o temp) = Len(sent) + Len(temp)
      /\ (sent \o temp) \o none = sent \o temp
  BY <1>2, Joined
<1> HIDE DEF none
<1>5. Shape'
  BY <1>2, <1>3, <1>4 DEF Shape
<1>6. Counts'
  <2>1. Pixel' = Pixel /\ NbPixel' = NbPixel /\ Pixel \in Nat
    BY <1>2, <1>3, <1>4 DEF Pixel, NbPixel
  <2>2. NbPixel \in Nat
    BY <1>2, TimesNext DEF NbPixel
  <2>3. Pixel = NbPixel
    BY <1>2, <1>3, <2>1, <2>2 DEF Counts
  <2> QED
    BY <1>2, <1>3, <1>4, <2>1, <2>2, <2>3, Sizes DEF Counts, none
<1>7. Draws(out)'
  <2>1. Rest' = Rest
    BY <1>3 DEF Rest
  <2> QED
    BY <1>1, <1>3, <1>4, <2>1 DEF Draws
<1> QED
  BY <1>5, <1>6, <1>7 DEF ScreenInv

-----------------------------------------------------------------------------
(* The theorems.                                                           *)

(* Every state of a picture being drawn satisfies the invariant.           *)
THEOREM ScreenInductive == ScreenSpec => []ScreenInv
<1>1. ScreenInit => ScreenInv
  BY InitInv
<1>2. ScreenInv /\ [ScreenNext]_svars => ScreenInv'
  <2>1. Begun' => ScreenInv'
    BY BegunInv, PTL
  <2>2. ASSUME ScreenInv, Animate PROVE ScreenInv'
    BY <2>1, <2>2, AnimateInv
  <2>3. ASSUME ScreenInv, UNCHANGED svars PROVE ScreenInv'
    <3>1. PICK out \in Seq(Bytes) : Draws(out)
      BY <2>3 DEF ScreenInv
    <3>2. /\ hsd' = hsd /\ decomp' = decomp /\ at' = at /\ picture' = picture /\ p' = p
          /\ head' = head /\ temp' = temp /\ sent' = sent /\ step' = step
      BY <2>3 DEF svars
    <3>3. Shape'
      BY <2>3, <3>2 DEF ScreenInv, Shape
    <3>4. Counts'
      BY <2>3, <3>2 DEF ScreenInv, Counts, Pixel, NbPixel
    <3>5. Draws(out)'
      BY <3>1, <3>2 DEF Draws, Rest
    <3> QED
      BY <3>3, <3>4, <3>5 DEF ScreenInv
  <2> QED
    BY <2>2, <2>3, DrawByteInv, SendFullInv, RefillInv, PollingInv, PollReturnsInv, SinkInv,
       FinishInv DEF ScreenNext, Drawing
<1> QED
  BY <1>1, <1>2, PTL DEF ScreenSpec

(* Types, and no buffer of the decoder (heatshrink_decoder.c) or of iliHS  *)
(* (ili_hs.h) runs over, for every size of the buffers and of the fields.  *)
THEOREM ScreenTyped == ScreenSpec => []ScreenTypeOK
<1>1. ScreenInv => ScreenTypeOK
  <2> SUFFICES ASSUME ScreenInv PROVE ScreenTypeOK
    OBVIOUS
  <2>1. PICK out \in Seq(Bytes) : Draws(out)
    BY DEF ScreenInv
  <2>2. DecoderTyped(hsd) /\ hsd \in DecoderStates /\ Reads(hsd, p, picture.data)
    BY <2>1 DEF Draws, Follows, DecoderTyped
  <2>3. /\ Len(hsd.input) <= InputSize /\ Len(hsd.bits) < ByteBits
        /\ hsd.input_index \in Nat /\ Len(hsd.input) \in Nat
        /\ hsd.input_index = 0 \/ hsd.input_index < Len(hsd.input)
    BY <2>2 DEF Reads
  <2>4. hsd.input_index \in 0 .. InputSize - 1
    BY <2>3, HeatshrinkAssumption
  <2>5. hsd.output_index \in 0 .. WindowSize /\ hsd.output_count \in 0 .. PowerOf2[LookaheadBits]
    BY <2>2, Widths DEF DecoderTyped, DecoderStates
  <2>6. HsdTypeOK
    BY <2>2, <2>3, <2>4, <2>5 DEF HsdTypeOK, DecoderStates
  <2> QED
    BY <2>6 DEF ScreenInv, Shape, Counts, ScreenTypeOK
<1> QED
  BY <1>1, ScreenInductive, PTL

(* The words of drawHSBitmap stay in its array on the stack, whenever the  *)
(* margin is at least a byte.                                              *)
THEOREM PixelsFit == ScreenSpec => []BufferFits
<1>1. ScreenInv => BufferFits
  <2> SUFFICES ASSUME ScreenInv PROVE BufferFits
    OBVIOUS
  <2>1. Len(temp) \in Nat /\ (Len(temp) <= BufferWords \/ Len(temp) <= BufferWords - Margin)
    BY DEF ScreenInv, Shape, Counts
  <2> QED
    BY <2>1, Sizes DEF BufferFits
<1> QED
  BY <1>1, ScreenInductive, PTL

(* Input is asked for only while there are bytes of the picture left: the  *)
(* decoder reads less than an input buffer behind it.                      *)
THEOREM SunkEnough == ScreenSpec => []ReadsPicture
<1>1. ScreenInv => ReadsPicture
  BY DEF ScreenInv, Counts, ReadsPicture
<1> QED
  BY <1>1, ScreenInductive, PTL

(* The decoder is correct: for every picture and all sizes of buffers,     *)
(* fields and window, what is sent is the beginning of what the picture    *)
(* means, and all of it when drawHSBitmap returns, whatever was drawn      *)
(* before and lies behind the picture.                                     *)
THEOREM PictureIsShown == ScreenSpec => []PictureShown
<1>1. ScreenInv => PictureShown
  <2> SUFFICES ASSUME ScreenInv PROVE PictureShown
    OBVIOUS
  <2> DEFINE M == Meaning(picture.data)
             n == picture.bytes
             W == SubSeq(M, 1, n)
             s == sent \o temp
             L == Pixel
             X == BitsOf(Rest)
  <2>1. PICK out \in Seq(Bytes) : Draws(out)
    BY DEF ScreenInv
  <2>2. /\ temp \in Seq(Bit) /\ sent \in Seq(Bit) /\ decomp \in Seq(Bytes) /\ head \in Nat
        /\ n \in Nat /\ n <= Len(M) /\ M \in Seq(Bytes) /\ L <= NbPixel
        /\ at = "shown" => L = NbPixel /\ temp = <<>>
    BY Sizes, MeaningIs DEF ScreenInv, Shape, Counts
  <2>3. Begins(out, M) \/ Begins(M, out)
    <3>1. /\ picture.data \in Seq(Bytes) /\ hsd \in DecoderStates /\ DecoderTyped(hsd)
          /\ Consumed(hsd, p) \in Nat /\ Decodes(hsd, Consumed(hsd, p), picture.data, out)
      BY <2>1, Sizes DEF ScreenInv, Shape, Draws, Follows, Reads, DecoderTyped
    <3> QED
      BY <3>1, Agrees
  <2>4. X \in Seq(Bit) /\ s \o X = BitsOf(out)
    <3>1. Rest \in Seq(Bytes)
      BY <2>2, RestTyped
    <3> QED
      BY <2>1, <3>1, BitsOfIs DEF Draws
  <2>5. s \in Seq(Bit) /\ Len(s) = L /\ L \in Nat
    BY <2>2, Joined DEF Pixel
  <2>6. /\ W \in Seq(Bytes) /\ Len(W) = n /\ Begins(W, M)
        /\ Wanted = BitsOf(W)
    <3>1. Len(M) \in Nat
      BY <2>2
    <3>2. W \in Seq(Bytes) /\ Len(W) = n /\ \A i \in 1 .. n : W[i] = M[i]
      <4> HIDE DEF M, n
      <4> QED
        BY <2>2, <3>1
    <3> HIDE DEF W
    <3>3. Begins(W, M)
      BY <2>2, <3>2 DEF Begins
    <3> QED
      BY <3>2, <3>3 DEF Wanted, W
  <2>7. BitsOf(W) \in Seq(Bit) /\ Len(BitsOf(W)) = NbPixel /\ NbPixel \in Nat
    <3> HIDE DEF W, n
    <3>1. BitsOf(W) \in Seq(Bit) /\ Len(BitsOf(W)) = ByteBits * n /\ ByteBits * n \in Nat
      BY <2>6, BitsOfIs
    <3> QED
      BY <3>1 DEF NbPixel, n
  <2>8. \A k \in 1 .. NbPixel : BitsOf(W)[k] = BitsOf(M)[k]
    <3> HIDE DEF W, M
    <3> QED
      BY <2>2, <2>6, <2>7, BitsAgree
  <2>9. /\ BitsOf(out) \in Seq(Bit) /\ Len(BitsOf(out)) \in Nat /\ L <= Len(BitsOf(out))
        /\ \A k \in 1 .. L : s[k] = BitsOf(out)[k]
    <3> HIDE DEF X, s, L
    <3>1. /\ s \o X \in Seq(Bit) /\ Len(s \o X) = L + Len(X) /\ Len(X) \in Nat
          /\ \A k \in 1 .. L + Len(X) : (s \o X)[k] = IF k <= L THEN s[k] ELSE X[k - L]
      <4>1. X \in Seq(Bit) /\ s \in Seq(Bit) /\ Len(X) \in Nat
        BY <2>4, <2>5
      <4>2. /\ s \o X \in Seq(Bit) /\ Len(s \o X) = Len(s) + Len(X)
            /\ \A k \in 1 .. Len(s) + Len(X) :
                 (s \o X)[k] = IF k <= Len(s) THEN s[k] ELSE X[k - Len(s)]
        BY <4>1, ConcatProperties
      <4>3. Len(s) = L
        BY <2>5
      <4> QED
        BY <4>1, <4>2, <4>3
    <3> DEFINE x == Len(X)
               w == BitsOf(out)
    <3>2. x \in Nat /\ w \in Seq(Bit) /\ Len(w) = L + x /\ w = s \o X
      BY <2>4, <3>1
    <3>3. \A k \in 1 .. L + x : w[k] = IF k <= L THEN s[k] ELSE X[k - L]
      BY <2>4, <3>1
    <3> HIDE DEF x, w
    <3>4. ASSUME NEW k \in 1 .. L PROVE s[k] = w[k]
      <4>1. k \in 1 .. L + x /\ k <= L
        BY <2>5, <3>2
      <4> QED
        BY <3>3, <4>1
    <3>5. Len(w) \in Nat /\ L <= Len(w)
      BY <2>5, <3>2
    <3> QED
      BY <3>2, <3>4, <3>5 DEF w
  <2>10. BitsOf(M) \in Seq(Bit) /\ NbPixel <= Len(BitsOf(M))
    <3> HIDE DEF M, n
    <3>1. BitsOf(M) \in Seq(Bit) /\ Len(BitsOf(M)) = ByteBits * Len(M) /\ Len(M) \in Nat
      BY <2>2, BitsOfIs
    <3>2. ByteBits * Len(M) >= ByteBits * n
      <4> DEFINE l == Len(M)
      <4>1. l \in Nat /\ n \in Nat /\ l >= n /\ ByteBits \in Nat \ {0}
        BY <2>2, <3>1, Widths
      <4> HIDE DEF l
      <4>2. ByteBits * l >= ByteBits * n
        BY <4>1, TimesMonotonic
      <4> QED
        BY <4>2 DEF l
    <3>3. NbPixel = ByteBits * n
      BY DEF NbPixel, n
    <3> QED
      BY <3>1, <3>2, <3>3
  <2> HIDE DEF M, n, W, s, L, X
  <2>11. \A k \in 1 .. L : s[k] = BitsOf(W)[k]
    <3> SUFFICES ASSUME NEW k \in 1 .. L PROVE s[k] = BitsOf(W)[k]
      OBVIOUS
    <3>1. k \in 1 .. NbPixel /\ k \in 1 .. Len(BitsOf(out)) /\ k \in 1 .. Len(BitsOf(M))
      <4>1. Len(BitsOf(M)) \in Nat
        BY <2>10
      <4> QED
        BY <2>2, <2>5, <2>7, <2>9, <2>10, <4>1
    <3>2. BitsOf(out)[k] = BitsOf(M)[k]
      <4>1. CASE Begins(out, M)
        BY <2>2, <3>1, <4>1, BitsAgree
      <4>2. CASE Begins(M, out)
        BY <2>2, <3>1, <4>2, BitsAgree
      <4> QED
        BY <2>3, <4>1, <4>2
    <3> QED
      BY <2>8, <2>9, <3>1, <3>2
  <2>12. IsPrefix(s, BitsOf(W))
    <3> DEFINE u == SubSeq(s, 1, L)
               v == SubSeq(BitsOf(W), 1, L)
    <3>1. u \in Seq(Bit) /\ Len(u) = L /\ \A k \in 1 .. L : u[k] = s[k]
      BY <2>5
    <3>2. v \in Seq(Bit) /\ Len(v) = L /\ \A k \in 1 .. L : v[k] = BitsOf(W)[k]
      BY <2>2, <2>5, <2>7
    <3> HIDE DEF u, v
    <3>3. u = v
      BY <2>11, <3>1, <3>2, SeqEqual
    <3> QED
      BY <2>2, <2>5, <2>7, <3>3 DEF IsPrefix, u, v
  <2>13. ASSUME at = "shown" PROVE sent = BitsOf(W)
    <3>1. L = NbPixel /\ temp = <<>>
      BY <2>2, <2>13
    <3>2. s = sent
      BY <2>2, <3>1, Joined DEF s
    <3>3. s = BitsOf(W)
      BY <2>5, <2>7, <2>11, <3>1, SeqEqual
    <3> QED
      BY <3>2, <3>3
  <2> QED
    BY <2>6, <2>12, <2>13 DEF PictureShown, s
<1> QED
  BY <1>1, ScreenInductive, PTL
===============================================================================
