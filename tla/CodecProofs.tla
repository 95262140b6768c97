----------------------------- MODULE CodecProofs ----------------------------
(***************************************************************************)
(* The framing for every base, length field, cap and set of frames: the    *)
(* length of a frame survives its digits (RoundTrip), the header and the   *)
(* payload are found again in any stream of frames (HeaderFound,           *)
(* PayloadFound), and from these the invariant CodecInv and the steps of   *)
(* the channel that the codec implements.                                  *)
(***************************************************************************)
EXTENDS FrameCodec, SequenceTheorems, WellFoundedInduction, TLAPS

\* Induction, for a set instead of an operator.
LEMMA Induction ==
  ASSUME NEW T, 0 \in T, \A n \in Nat : n \in T => n + 1 \in T
  PROVE  Nat \subseteq T
<1> DEFINE Bad == Nat \ T
<1> SUFFICES ASSUME Bad # {}
             PROVE  FALSE
  OBVIOUS
<1>1. PICK x \in Bad : \A y \in Bad : ~(<<y, x>> \in OpToRel(<, Nat))
  BY NatLessThanWellFounded, WFMin
<1>2. x \in Nat /\ x # 0 /\ x \notin T
  BY <1>1, Zenon
<1>3. x - 1 \in Nat /\ x - 1 < x /\ (x - 1) + 1 = x
  BY <1>2
<1>4. x - 1 \notin Bad
  BY <1>1, <1>2, <1>3 DEF OpToRel
<1> QED
  BY <1>2, <1>3, <1>4

-----------------------------------------------------------------------------
(* The digits of a length.                                                 *)

\* f begins with a and goes from f[i] to f[i + 1] by the i-th step of G.
Iterates(f, a, G, n) ==
  /\ f \in [1..(n + 1) -> Nat]
  /\ f[1] = a
  /\ \A i \in 1..n : f[i + 1] = G[i][f[i]]

Steps(n) == [1..n -> [Nat -> Nat]]

\* What a loop of steps computes exists.
LEMMA IterationExists ==
  ASSUME NEW N \in Nat, NEW a \in Nat, NEW G \in Steps(N)
  PROVE  \E f : Iterates(f, a, G, N)
<1> DEFINE T == {n \in Nat : n <= N => \E f : Iterates(f, a, G, n)}
<1>1. 0 \in T
  <2> DEFINE f == [i \in 1..1 |-> a]
  <2>1. f \in [1..(0 + 1) -> Nat] /\ f[1] = a
    OBVIOUS
  <2>2. Iterates(f, a, G, 0)
    BY <2>1 DEF Iterates
  <2> QED
    BY <2>2
<1>2. ASSUME NEW n \in Nat, n \in T
      PROVE  n + 1 \in T
  <2> SUFFICES ASSUME n + 1 <= N
               PROVE  \E f : Iterates(f, a, G, n + 1)
    OBVIOUS
  <2>1. PICK f : Iterates(f, a, G, n)
    BY <1>2
  <2> DEFINE h == [i \in 1..((n + 1) + 1) |-> IF i = n + 2 THEN G[n + 1][f[n + 1]] ELSE f[i]]
  <2>2. f \in [1..(n + 1) -> Nat] /\ f[n + 1] \in Nat /\ n + 1 \in 1..N
    BY <2>1 DEF Iterates
  <2>3. G[n + 1] \in [Nat -> Nat]
    BY <2>2 DEF Steps
  <2>4. G[n + 1][f[n + 1]] \in Nat
    BY <2>2, <2>3
  <2>5. h \in [1..((n + 1) + 1) -> Nat]
    BY <2>2, <2>4
  <2>6. h[1] = a
    BY <2>1 DEF Iterates
  <2>7. ASSUME NEW i \in 1..(n + 1)
        PROVE  h[i + 1] = G[i][h[i]]
    <3>1. CASE i = n + 1
      BY <3>1
    <3>2. CASE i # n + 1
      <4>1. i \in 1..n /\ i + 1 # n + 2 /\ i # n + 2
            /\ i \in 1..((n + 1) + 1) /\ i + 1 \in 1..((n + 1) + 1)
        BY <3>2
      <4>2. h[i] = f[i] /\ h[i + 1] = f[i + 1]
        BY <4>1
      <4> QED
        BY <2>1, <4>1, <4>2 DEF Iterates
    <3> QED
      BY <3>1, <3>2
  <2>8. Iterates(h, a, G, n + 1)
    BY <2>5, <2>6, <2>7 DEF Iterates
  <2> QED
    BY <2>8
<1>3. Nat \subseteq T
  BY <1>1, <1>2, Induction
<1> QED
  BY <1>3

LEMMA HeaderLenIs == HeaderLen \in Nat /\ HeaderLen = LenDigits + 1
BY CodecAssumption DEF HeaderLen

\* Division by the base.
LEMMA Division ==
  ASSUME NEW n \in Nat
  PROVE  /\ n \div Base \in Nat
         /\ n % Base \in 0..(Base - 1)
         /\ n = (n \div Base) * Base + (n % Base)
BY CodecAssumption

\* The functions that Quotients and Decode define.
QuotientEquation(q, n) ==
  q = [i \in 1..HeaderLen |-> IF i = 1 THEN n ELSE q[i - 1] \div Base]

ValueEquation(v, h) ==
  v = [i \in 1..HeaderLen |-> IF i = 1 THEN 0 ELSE v[i - 1] * Base + h[i]]

\* What Quotients computes.
Divided(q, n) ==
  /\ q[1] = n
  /\ \A i \in 1..HeaderLen : q[i] \in Nat
  /\ \A i \in 1..LenDigits : q[i + 1] = q[i] \div Base

LEMMA QuotientsDivide ==
  ASSUME NEW n \in Nat
  PROVE  Divided(Quotients(n), n)
<1> DEFINE G == [i \in 1..LenDigits |-> [x \in Nat |-> x \div Base]]
           q == CHOOSE f : QuotientEquation(f, n)
<1> USE CodecAssumption, HeaderLenIs
<1>1. G \in Steps(LenDigits)
  BY Division DEF Steps
<1>2. PICK f : Iterates(f, n, G, LenDigits)
  BY <1>1, IterationExists
<1>3. QuotientEquation(f, n)
  <2>1. DOMAIN f = 1..HeaderLen /\ f = [i \in 1..HeaderLen |-> f[i]]
    BY <1>2 DEF Iterates
  <2>2. ASSUME NEW i \in 1..HeaderLen
        PROVE  f[i] = IF i = 1 THEN n ELSE f[i - 1] \div Base
    <3>1. CASE i = 1
      BY <1>2, <3>1 DEF Iterates
    <3>2. CASE i # 1
      <4>1. i - 1 \in 1..LenDigits /\ (i - 1) + 1 = i /\ i - 1 \in 1..(LenDigits + 1)
        BY <3>2
      <4>2. f[i] = G[i - 1][f[i - 1]] /\ f[i - 1] \in Nat
        BY <1>2, <4>1 DEF Iterates
      <4> QED
        BY <3>2, <4>1, <4>2
    <3> QED
      BY <3>1, <3>2
  <2> QED
    BY <2>1, <2>2 DEF QuotientEquation
<1>4. QuotientEquation(q, n)
  BY <1>3, Zenon
<1>5. Quotients(n) = q
  BY Zenon DEF Quotients, QuotientEquation
<1> HIDE DEF q
<1>6. q[1] = n /\ \A i \in 1..LenDigits : q[i + 1] = q[i] \div Base
  <2>1. ASSUME NEW i \in 1..HeaderLen
        PROVE  q[i] = IF i = 1 THEN n ELSE q[i - 1] \div Base
    BY <1>4, Zenon DEF QuotientEquation
  <2>2. 1 \in 1..HeaderLen /\ \A i \in 1..LenDigits : i + 1 \in 1..HeaderLen /\ i + 1 # 1 /\ (i + 1) - 1 = i
    OBVIOUS
  <2> QED
    BY <2>1, <2>2
<1> DEFINE T == {k \in Nat : k < HeaderLen => q[k + 1] \in Nat}
<1>7. 0 \in T
  BY <1>6
<1>8. ASSUME NEW k \in Nat, k \in T
      PROVE  k + 1 \in T
  <2> SUFFICES ASSUME k + 1 < HeaderLen
               PROVE  q[(k + 1) + 1] \in Nat
    OBVIOUS
  <2>1. q[k + 1] \in Nat /\ q[(k + 1) + 1] = q[k + 1] \div Base
    BY <1>6, <1>8
  <2> QED
    BY <2>1, Division
<1>9. Nat \subseteq T
  BY <1>7, <1>8, Induction
<1>10. ASSUME NEW i \in 1..HeaderLen
       PROVE  q[i] \in Nat
  <2>1. i - 1 \in Nat /\ i - 1 < HeaderLen /\ (i - 1) + 1 = i
    OBVIOUS
  <2>2. i - 1 \in T
    BY <1>9, <2>1
  <2> QED
    BY <2>1, <2>2
<1> QED
  BY <1>5, <1>6, <1>10 DEF Divided

\* What Decode computes from a header of digits.
Horner(v, h) ==
  /\ v[1] = 0
  /\ \A i \in 1..HeaderLen : v[i] \in Nat
  /\ \A i \in 1..LenDigits : v[i + 1] = v[i] * Base + h[i + 1]

LEMMA DecodeIsHorner ==
  ASSUME NEW h, \A i \in 1..LenDigits : h[i + 1] \in Nat
  PROVE  \E v : Horner(v, h) /\ Decode(h) = v[HeaderLen]
<1> DEFINE G == [i \in 1..LenDigits |-> [x \in Nat |-> x * Base + h[i + 1]]]
           v == CHOOSE f : ValueEquation(f, h)
<1> USE CodecAssumption, HeaderLenIs
<1>1. G \in Steps(LenDigits)
  <2>1. \A x \in Nat : \A i \in 1..LenDigits : x * Base + h[i + 1] \in Nat
    OBVIOUS
  <2> QED
    BY <2>1 DEF Steps
<1>2. PICK f : Iterates(f, 0, G, LenDigits)
  BY <1>1, IterationExists
<1>3. ValueEquation(f, h)
  <2>1. DOMAIN f = 1..HeaderLen /\ f = [i \in 1..HeaderLen |-> f[i]]
    BY <1>2 DEF Iterates
  <2>2. ASSUME NEW i \in 1..HeaderLen
        PROVE  f[i] = IF i = 1 THEN 0 ELSE f[i - 1] * Base + h[i]
    <3>1. CASE i = 1
      BY <1>2, <3>1 DEF Iterates
    <3>2. CASE i # 1
      <4>1. i - 1 \in 1..LenDigits /\ (i - 1) + 1 = i /\ i - 1 \in 1..(LenDigits + 1)
        BY <3>2
      <4>2. f[i] = G[i - 1][f[i - 1]] /\ f[i - 1] \in Nat
        BY <1>2, <4>1 DEF Iterates
      <4> QED
        BY <3>2, <4>1, <4>2
    <3> QED
      BY <3>1, <3>2
  <2> QED
    BY <2>1, <2>2 DEF ValueEquation
<1>4. ValueEquation(v, h)
  BY <1>3, Zenon
<1>5. Decode(h) = v[HeaderLen]
  BY Zenon DEF Decode, ValueEquation
<1> HIDE DEF v
<1>6. v[1] = 0 /\ \A i \in 1..LenDigits : v[i + 1] = v[i] * Base + h[i + 1]
  <2>1. ASSUME NEW i \in 1..HeaderLen
        PROVE  v[i] = IF i = 1 THEN 0 ELSE v[i - 1] * Base + h[i]
    BY <1>4, Zenon DEF ValueEquation
  <2>2. 1 \in 1..HeaderLen /\ \A i \in 1..LenDigits : i + 1 \in 1..HeaderLen /\ i + 1 # 1 /\ (i + 1) - 1 = i
    OBVIOUS
  <2> QED
    BY <2>1, <2>2
<1> DEFINE T == {k \in Nat : k < HeaderLen => v[k + 1] \in Nat}
<1>7. 0 \in T
  BY <1>6
<1>8. ASSUME NEW k \in Nat, k \in T
      PROVE  k + 1 \in T
  <2> SUFFICES ASSUME k + 1 < HeaderLen
               PROVE  v[(k + 1) + 1] \in Nat
    OBVIOUS
  <2>1. v[k + 1] \in Nat /\ v[(k + 1) + 1] = v[k + 1] * Base + h[(k + 1) + 1]
    BY <1>6, <1>8
  <2>2. h[(k + 1) + 1] \in Nat
    OBVIOUS
  <2>3. \A x, y \in Nat : x * Base + y \in Nat
    OBVIOUS
  <2> QED
    BY <2>1, <2>2, <2>3
<1>9. Nat \subseteq T
  BY <1>7, <1>8, Induction
<1>10. ASSUME NEW i \in 1..HeaderLen
       PROVE  v[i] \in Nat
  <2>1. i - 1 \in Nat /\ i - 1 < HeaderLen /\ (i - 1) + 1 = i
    OBVIOUS
  <2>2. i - 1 \in T
    BY <1>9, <2>1
  <2> QED
    BY <2>1, <2>2
<1> QED
  BY <1>5, <1>6, <1>10 DEF Horner

LEMMA DecodeType ==
  ASSUME NEW h, \A i \in 1..LenDigits : h[i + 1] \in Nat
  PROVE  Decode(h) \in Nat
<1>1. PICK v : Horner(v, h) /\ Decode(h) = v[HeaderLen]
  BY DecodeIsHorner
<1> QED
  BY <1>1, HeaderLenIs, CodecAssumption DEF Horner

\* The digits of a length that fits, read back, are the length.
LEMMA RoundTrip ==
  ASSUME NEW n \in Nat, Fits(n),
         NEW h, \A i \in 1..LenDigits : h[i + 1] = Digits(n)[i]
  PROVE  Decode(h) = n
<1> DEFINE q == Quotients(n)
<1> USE CodecAssumption, HeaderLenIs
<1>1. Divided(q, n) /\ q[HeaderLen] = 0
  BY QuotientsDivide DEF Fits
<1> HIDE DEF q
<1>2. \A i \in 1..LenDigits : h[i + 1] = q[HeaderLen - i] % Base
  BY DEF Digits, q
<1>3. \A i \in 1..LenDigits : q[HeaderLen - i] \in Nat
  BY <1>1 DEF Divided
<1>4. \A i \in 1..LenDigits : h[i + 1] \in Nat
  <2>1. \A x \in Nat : x % Base \in Nat
    BY Division
  <2> QED
    BY <1>2, <1>3, <2>1
<1>5. PICK v : Horner(v, h) /\ Decode(h) = v[HeaderLen]
  BY <1>4, DecodeIsHorner
<1> DEFINE T == {k \in Nat : k < HeaderLen => v[k + 1] = q[HeaderLen - k]}
<1>6. 0 \in T
  BY <1>1, <1>5 DEF Horner
<1>7. ASSUME NEW k \in Nat, k \in T
      PROVE  k + 1 \in T
  <2> SUFFICES ASSUME k + 1 < HeaderLen
               PROVE  v[(k + 1) + 1] = q[HeaderLen - (k + 1)]
    OBVIOUS
  <2> DEFINE j == HeaderLen - (k + 1)
  <2>1. k + 1 \in 1..LenDigits /\ j \in 1..LenDigits /\ j + 1 = HeaderLen - k
    OBVIOUS
  <2>2. v[k + 1] = q[j + 1]
    BY <1>7, <2>1
  <2>3. v[(k + 1) + 1] = v[k + 1] * Base + h[(k + 1) + 1]
    BY <1>5, <2>1 DEF Horner
  <2>4. h[(k + 1) + 1] = q[j] % Base /\ q[j] \in Nat
    BY <1>2, <1>3, <2>1
  <2>5. q[j + 1] = q[j] \div Base
    BY <1>1, <2>1 DEF Divided
  <2>6. q[j] = (q[j] \div Base) * Base + (q[j] % Base)
    BY <2>4, Division
  <2> QED
    BY <2>2, <2>3, <2>4, <2>5, <2>6
<1>8. Nat \subseteq T
  BY <1>6, <1>7, Induction
<1>9. LenDigits \in T /\ LenDigits < HeaderLen /\ HeaderLen - LenDigits = 1
  BY <1>8
<1>10. v[LenDigits + 1] = q[1]
  BY <1>9
<1> QED
  BY <1>1, <1>5, <1>10 DEF Divided

\* A length below one that fits does.
LEMMA FitsBelow ==
  ASSUME NEW n \in Nat, Fits(n), NEW m \in 0..n
  PROVE  Fits(m)
<1> DEFINE q == Quotients(n)
           r == Quotients(m)
           T == {k \in Nat : k < HeaderLen => r[k + 1] <= q[k + 1]}
<1> USE CodecAssumption, HeaderLenIs
<1>1. Divided(q, n) /\ q[HeaderLen] = 0 /\ Divided(r, m)
  BY QuotientsDivide DEF Fits
<1> HIDE DEF q, r
<1>2. 0 \in T
  BY <1>1 DEF Divided
<1>3. ASSUME NEW k \in Nat, k \in T
      PROVE  k + 1 \in T
  <2> SUFFICES ASSUME k + 1 < HeaderLen
               PROVE  r[(k + 1) + 1] <= q[(k + 1) + 1]
    OBVIOUS
  <2>1. k + 1 \in 1..LenDigits /\ k + 1 \in 1..HeaderLen
    OBVIOUS
  <2>2. /\ r[k + 1] <= q[k + 1] /\ r[k + 1] \in Nat /\ q[k + 1] \in Nat
        /\ r[(k + 1) + 1] = r[k + 1] \div Base /\ q[(k + 1) + 1] = q[k + 1] \div Base
    BY <1>1, <1>3, <2>1 DEF Divided
  <2>3. \A x, y \in Nat : x <= y => x \div Base <= y \div Base
    <3>0. \A x \in Nat : x \div Base \in Nat
      BY Division
    <3> SUFFICES ASSUME NEW x \in Nat, NEW y \in Nat, x <= y, x \div Base > y \div Base
                 PROVE  FALSE
      BY <3>0
    <3> DEFINE a == x \div Base
               b == y \div Base
               c == y % Base
               e == x % Base
    <3>1. x = a * Base + e /\ y = b * Base + c /\ a \in Nat /\ b \in Nat
          /\ c \in 0..(Base - 1) /\ e \in 0..(Base - 1)
      BY Division
    <3>2. a >= b + 1
      BY <3>1
    <3> HIDE DEF a, b, c, e
    <3>3. a * Base >= (b + 1) * Base
      BY <3>1, <3>2
    <3>4. (b + 1) * Base = b * Base + Base
      BY <3>1
    <3> QED
      BY <3>1, <3>3, <3>4
  <2> QED
    BY <2>2, <2>3
<1>4. Nat \subseteq T
  BY <1>2, <1>3, Induction
<1>5. LenDigits \in T
  BY <1>4
<1>6. r[HeaderLen] <= 0 /\ r[HeaderLen] \in Nat
  BY <1>1, <1>5 DEF Divided
<1> QED
  BY <1>6 DEF Fits, r

-----------------------------------------------------------------------------
(* Frames in a stream.                                                     *)

Bytes == 0..(Base - 1)

LEMMA ConcatCancel ==
  ASSUME NEW S, NEW a \in Seq(S), NEW b \in Seq(S), NEW c \in Seq(S), NEW e \in Seq(S),
         a \o b = c \o e, Len(a) = Len(c)
  PROVE  a = c /\ b = e
<1>1. /\ Len(a \o b) = Len(a) + Len(b) /\ Len(c \o e) = Len(c) + Len(e)
      /\ Len(a) \in Nat /\ Len(b) \in Nat /\ Len(c) \in Nat /\ Len(e) \in Nat
  BY ConcatProperties, LenProperties
<1>2. ASSUME NEW i \in 1..Len(a)
      PROVE  a[i] = c[i]
  <2>1. (a \o b)[i] = a[i] /\ (c \o e)[i] = c[i]
    BY <1>1, ConcatProperties
  <2> QED
    BY <2>1
<1>3. a = c
  BY <1>2, SeqEqual
<1> QED
  BY <1>3, ConcatSimplifications

\* Sequences of bytes.
LEMMA Joining ==
  \A a, b \in Seq(Bytes) :
    a \o b \in Seq(Bytes) /\ Len(a \o b) = Len(a) + Len(b) /\ Len(a) \in Nat /\ Len(b) \in Nat
BY ConcatProperties, LenProperties

LEMMA Associative == \A a, b, c \in Seq(Bytes) : (a \o b) \o c = a \o (b \o c)
BY ConcatAssociative

LEMMA Empty ==
  /\ <<>> \in Seq(Bytes) /\ Len(<<>>) = 0
  /\ \A a \in Seq(Bytes) : <<>> \o a = a /\ a \o <<>> = a /\ (a # <<>> <=> Len(a) > 0)
BY EmptySeq, ConcatEmptySeq

HeaderOf(f) == <<f.type>> \o Digits(Len(f.payload))

LEMMA DigitsType ==
  ASSUME NEW n \in Nat
  PROVE  Digits(n) \in Seq(Bytes) /\ Len(Digits(n)) = LenDigits
<1> USE CodecAssumption, HeaderLenIs
<1>1. ASSUME NEW i \in 1..LenDigits
      PROVE  Quotients(n)[HeaderLen - i] % Base \in Bytes
  <2>1. HeaderLen - i \in 1..HeaderLen
    OBVIOUS
  <2>2. Quotients(n)[HeaderLen - i] \in Nat
    BY <2>1, QuotientsDivide DEF Divided
  <2> QED
    BY <2>2, Division DEF Bytes
<1>2. Digits(n) \in [1..LenDigits -> Bytes]
  BY <1>1 DEF Digits
<1> QED
  BY <1>2

LEMMA FrameShape ==
  ASSUME NEW f \in Frames
  PROVE  /\ f.type \in Bytes /\ f.payload \in Seq(Bytes) /\ Len(f.payload) \in Nat
         /\ f = [type |-> f.type, payload |-> f.payload]
<1>1. PICK t \in Types, n \in Lengths : f = [type |-> t, payload |-> [i \in 1..n |-> Fill]]
  BY DEF Frames
<1>2. t \in Bytes /\ n \in Nat /\ Fill \in Bytes
  BY CodecAssumption DEF Bytes
<1>3. [i \in 1..n |-> Fill] \in Seq(Bytes)
  BY <1>2
<1>4. f.type = t /\ f.payload = [i \in 1..n |-> Fill]
  BY <1>1
<1>5. f.payload \in Seq(Bytes)
  BY <1>3, <1>4
<1> QED
  BY <1>1, <1>2, <1>4, <1>5, LenProperties

LEMMA HeaderShape ==
  ASSUME NEW f \in Frames
  PROVE  /\ HeaderOf(f) \in Seq(Bytes) /\ Len(HeaderOf(f)) = HeaderLen
         /\ HeaderOf(f)[1] = f.type
         /\ \A i \in 1..LenDigits : HeaderOf(f)[i + 1] = Digits(Len(f.payload))[i]
<1> DEFINE ds == Digits(Len(f.payload))
<1>1. f.type \in Bytes /\ ds \in Seq(Bytes) /\ Len(ds) = LenDigits
  BY FrameShape, DigitsType
<1> HIDE DEF ds
<1>2. /\ <<f.type>> \in Seq(Bytes) /\ Len(<<f.type>>) = 1 /\ <<f.type>>[1] = f.type
  BY <1>1
<1>3. LenDigits \in Nat /\ 1 + LenDigits = HeaderLen
  BY CodecAssumption, HeaderLenIs
<1>4. <<f.type>> \o ds \in Seq(Bytes) /\ Len(<<f.type>> \o ds) = 1 + LenDigits
  BY <1>1, <1>2, ConcatProperties
<1>5. (<<f.type>> \o ds)[1] = f.type
  BY <1>1, <1>2, <1>3
<1>6. \A i \in 1..LenDigits : (<<f.type>> \o ds)[i + 1] = ds[i]
  BY <1>1, <1>2, <1>3
<1> QED
  BY <1>3, <1>4, <1>5, <1>6 DEF HeaderOf, ds

LEMMA EncodeShape ==
  ASSUME NEW f \in Frames
  PROVE  /\ Encode(f) = HeaderOf(f) \o f.payload
         /\ Encode(f) \in Seq(Bytes)
         /\ Len(Encode(f)) = HeaderLen + Len(f.payload)
<1>1. Encode(f) = HeaderOf(f) \o f.payload
  BY DEF Encode, HeaderOf
<1>2. HeaderOf(f) \in Seq(Bytes) /\ f.payload \in Seq(Bytes) /\ Len(HeaderOf(f)) = HeaderLen
  BY FrameShape, HeaderShape
<1> QED
  BY <1>1, <1>2, Joining, Zenon

\* The first HeaderLen bytes of a stream that begins with a frame are its
\* header, and tell its type and its length.
LEMMA HeaderFound ==
  ASSUME NEW f \in Frames, Fits(Len(f.payload)), NEW r \in Seq(Bytes),
         NEW g \in Seq(Bytes), NEW x \in Seq(Bytes), g \o x = Encode(f) \o r, Len(g) = HeaderLen
  PROVE  g[1] = f.type /\ Decode(g) = Len(f.payload) /\ x = f.payload \o r
<1>1. /\ HeaderOf(f) \in Seq(Bytes) /\ Len(HeaderOf(f)) = HeaderLen
      /\ f.payload \in Seq(Bytes) /\ Len(f.payload) \in Nat
  BY HeaderShape, FrameShape
<1>2. Encode(f) \o r = HeaderOf(f) \o (f.payload \o r) /\ f.payload \o r \in Seq(Bytes)
  <2>1. Encode(f) = HeaderOf(f) \o f.payload
    BY EncodeShape
  <2>2. (HeaderOf(f) \o f.payload) \o r = HeaderOf(f) \o (f.payload \o r)
    BY <1>1, Associative
  <2>3. f.payload \o r \in Seq(Bytes)
    BY <1>1, Joining
  <2> QED
    BY <2>1, <2>2, <2>3
<1>3. g = HeaderOf(f) /\ x = f.payload \o r
  BY <1>1, <1>2, ConcatCancel
<1>4. Decode(g) = Len(f.payload)
  BY <1>1, <1>3, HeaderShape, RoundTrip
<1> QED
  BY <1>3, <1>4, HeaderShape

\* After it comes its payload, and then the rest of the stream.
LEMMA PayloadFound ==
  ASSUME NEW f \in Frames, Fits(Len(f.payload)), NEW r \in Seq(Bytes),
         NEW g \in Seq(Bytes), NEW p \in Seq(Bytes), NEW x \in Seq(Bytes),
         g \o (p \o x) = Encode(f) \o r, Len(g) = HeaderLen, Len(p) = Decode(g)
  PROVE  g[1] = f.type /\ p = f.payload /\ x = r
<1> DEFINE y == p \o x
<1>1. y \in Seq(Bytes) /\ g \o y = Encode(f) \o r
  BY Joining
<1> HIDE DEF y
<1>2. g[1] = f.type /\ Decode(g) = Len(f.payload) /\ y = f.payload \o r
  BY <1>1, HeaderFound
<1>3. f.payload \in Seq(Bytes)
  BY FrameShape
<1>4. p = f.payload /\ x = r
  BY <1>2, <1>3, ConcatCancel DEF y
<1> QED
  BY <1>2, <1>3, <1>4

-----------------------------------------------------------------------------
(* The invariant.                                                          *)

\* The frames that were begun, the one being written included.
Begun == sent \o cur

CodecTypeOK ==
  /\ cap \in MIN_INBOUND_FRAME_LEN..MAX_FRAME_LEN /\ up \in {"open", "eof", "reset"}
  /\ sent \in Seq(Frames) /\ cur \in Seq(Frames) /\ rcvd \in Seq(Frames)
  /\ left \in Seq(Bytes) /\ pipe \in Seq(Bytes) /\ hdr \in Seq(Bytes) /\ buf \in Seq(Bytes)
  /\ alloc \in Nat

\* Nothing was begun whose length the digits do not hold.
BegunFit == \A i \in 1..Len(Begun) : Fits(Len(Begun[i].payload))

\* There are bytes left to write exactly of a frame that is being written.
LeftOfCur ==
  \/ cur = <<>> /\ left = <<>>
  \/ Len(cur) = 1 /\ left # <<>>

RcvdIsPrefix == Len(rcvd) <= Len(sent) /\ \A i \in 1..Len(rcvd) : rcvd[i] = sent[i]

\* Where read_exact stands: it has less than what it needs.
ReadPosition ==
  \/ hdr = <<>> /\ Len(buf) < HeaderLen
  \/ Len(hdr) = HeaderLen /\ Len(buf) < Decode(hdr)

\* d[i] is the stream of the frames of q from the i-th on.
Streams(d, q) ==
  /\ d \in [1..(Len(q) + 1) -> Seq(Bytes)]
  /\ d[Len(q) + 1] = <<>>
  /\ \A i \in 1..Len(q) : d[i] = Encode(q[i]) \o d[i + 1]

\* What the reader holds, what is on the transport and what is still to be
\* written are together the stream of the frames that were not read yet.
Aligned(d) ==
  /\ Streams(d, Begun)
  /\ (hdr \o buf) \o (pipe \o left) = d[Len(rcvd) + 1]
  /\ \A i \in 1..(Len(sent) + 1) : Len(left) <= Len(d[i])

InStep ==
  /\ end = "reading" /\ up # "reset" => \E d : Aligned(d)
  /\ up = "reset" => pipe = <<>>

CodecInv ==
  /\ CodecTypeOK /\ BegunFit /\ LeftOfCur /\ RcvdIsPrefix
  /\ end = "reading" => ReadPosition
  /\ InStep
  /\ alloc <= Limit /\ ErrJustified /\ CutNoticed

LEMMA CodecInit == Init => CodecInv
<1> SUFFICES ASSUME Init
             PROVE  CodecInv
  OBVIOUS
<1>1. /\ sent = <<>> /\ cur = <<>> /\ left = <<>> /\ pipe = <<>> /\ up = "open"
      /\ hdr = <<>> /\ buf = <<>> /\ alloc = 0 /\ rcvd = <<>> /\ end = "reading"
  BY DEF Init
<1>2. cap \in MIN_INBOUND_FRAME_LEN..MAX_FRAME_LEN
  <2>1. ASSUME NEW v \in RequestedCaps
        PROVE  clamp_inbound(v) \in MIN_INBOUND_FRAME_LEN..MAX_FRAME_LEN
    BY CodecAssumption DEF clamp_inbound
  <2>2. cap = DEFAULT_MAX_INBOUND_FRAME_LEN \/ \E v \in RequestedCaps : cap = clamp_inbound(v)
    BY DEF Init
  <2> QED
    BY <2>1, <2>2, CodecAssumption
<1>3. <<>> \in Seq(Frames)
  BY EmptySeq
<1>4. CodecTypeOK
  BY <1>1, <1>2, <1>3, Empty DEF CodecTypeOK
<1>5. Len(<<>>) = 0 /\ 1..0 = {} /\ Begun = <<>>
  <2>1. <<>> \o <<>> = <<>> /\ Len(<<>>) = 0
    BY Empty
  <2>2. 1..0 = {}
    OBVIOUS
  <2> QED
    BY <1>1, <2>1, <2>2, Zenon DEF Begun
<1>6. BegunFit /\ LeftOfCur /\ RcvdIsPrefix
  <2>1. BegunFit
    BY <1>5, Zenon DEF BegunFit
  <2>2. \A i \in 1..Len(rcvd) : rcvd[i] = sent[i]
    BY <1>1, <1>5, Zenon
  <2>3. LeftOfCur
    BY <1>1, Zenon DEF LeftOfCur
  <2>4. 0 <= 0
    OBVIOUS
  <2>5. RcvdIsPrefix
    BY <1>1, <1>5, <2>2, <2>4, Zenon DEF RcvdIsPrefix
  <2> QED
    BY <2>1, <2>3, <2>5
<1>7. ReadPosition
  <2>1. 0 < HeaderLen
    BY HeaderLenIs, CodecAssumption
  <2> QED
    BY <1>1, <1>5, <2>1, Zenon DEF ReadPosition
<1>8. InStep
  <2> DEFINE d == [i \in 1..(0 + 1) |-> <<>>]
  <2>1. d \in [1..(0 + 1) -> Seq(Bytes)] /\ d[1] = <<>> /\ 0 + 1 = 1
    BY Empty
  <2> HIDE DEF d
  <2>2. Streams(d, <<>>)
    BY <1>5, <2>1, Zenon DEF Streams
  <2>3. (hdr \o buf) \o (pipe \o left) = <<>>
    BY <1>1, Empty, Zenon
  <2>4. \A i \in 1..(Len(sent) + 1) : Len(left) <= Len(d[i])
    <3>1. \A i \in 1..(0 + 1) : i = 1
      OBVIOUS
    <3>2. Len(d[1]) = 0 /\ Len(left) = 0
      BY <1>1, <1>5, <2>1
    <3>3. 0 <= 0
      OBVIOUS
    <3> QED
      BY <1>1, <1>5, <3>1, <3>2, <3>3, Zenon
  <2>5. Aligned(d)
    BY <1>1, <1>5, <2>1, <2>2, <2>3, <2>4, Zenon DEF Aligned
  <2> QED
    BY <1>1, <2>5 DEF InStep
<1>9. alloc <= Limit
  <2>1. 0 <= cap /\ 0 <= MAX_FRAME_LEN
    BY <1>2, CodecAssumption
  <2> QED
    BY <1>1, <2>1, Zenon DEF Limit
<1>10. ErrJustified /\ CutNoticed
  BY <1>1 DEF ErrJustified, CutNoticed
<1> QED
  BY <1>1, <1>4, <1>6, <1>7, <1>8, <1>9, <1>10, Zenon DEF CodecInv

-----------------------------------------------------------------------------
(* The steps of the writing end.                                           *)

\* One more frame makes every stream longer by its bytes.
LEMMA StreamsGrow ==
  ASSUME NEW q \in Seq(Frames), NEW f \in Frames, NEW d, Streams(d, q)
  PROVE  \E e : /\ Streams(e, Append(q, f))
                /\ \A i \in 1..(Len(q) + 1) : e[i] = d[i] \o Encode(f)
<1> DEFINE n == Len(q)
           r == Append(q, f)
<1>1. /\ n \in Nat /\ Len(r) = n + 1 /\ r[n + 1] = f
      /\ \A i \in 1..n : r[i] = q[i] /\ q[i] \in Frames
  BY LenProperties, AppendProperties, ElementOfSeq
<1>2. Encode(f) \in Seq(Bytes)
  BY EncodeShape
<1>3. /\ d \in [1..(n + 1) -> Seq(Bytes)] /\ d[n + 1] = <<>>
      /\ \A i \in 1..n : d[i] = Encode(q[i]) \o d[i + 1]
  BY DEF Streams
<1> HIDE DEF n, r
<1> DEFINE e == [i \in 1..((n + 1) + 1) |-> IF i = n + 2 THEN <<>> ELSE d[i] \o Encode(f)]
<1>4. ASSUME NEW i \in 1..(n + 1)
      PROVE  e[i] = d[i] \o Encode(f) /\ d[i] \in Seq(Bytes)
  <2>1. i \in 1..((n + 1) + 1) /\ i # n + 2
    BY <1>1
  <2> QED
    BY <1>3, <2>1, Zenon
<1>5. e[n + 2] = <<>> /\ (n + 1) + 1 = n + 2
  BY <1>1
<1>6. e \in [1..((n + 1) + 1) -> Seq(Bytes)]
  <2>1. ASSUME NEW i \in 1..((n + 1) + 1)
        PROVE  (IF i = n + 2 THEN <<>> ELSE d[i] \o Encode(f)) \in Seq(Bytes)
    <3>1. CASE i = n + 2
      BY <3>1, Empty
    <3>2. CASE i # n + 2
      <4>1. d[i] \in Seq(Bytes)
        BY <1>1, <1>3, <3>2
      <4> QED
        BY <1>2, <3>2, <4>1, Joining, Zenon
    <3> QED
      BY <3>1, <3>2
  <2> QED
    BY <2>1
<1> HIDE DEF e
<1>7. ASSUME NEW i \in 1..(n + 1)
      PROVE  e[i] = Encode(r[i]) \o e[i + 1]
  <2>1. CASE i = n + 1
    <3>1. e[i] = <<>> \o Encode(f) /\ e[i + 1] = <<>> /\ r[i] = f
      BY <1>1, <1>3, <1>4, <1>5, <2>1
    <3> QED
      BY <1>2, <3>1, Empty, Zenon
  <2>2. CASE i # n + 1
    <3>1. i \in 1..n /\ i + 1 \in 1..(n + 1)
      BY <1>1, <2>2
    <3>2. /\ e[i] = (Encode(q[i]) \o d[i + 1]) \o Encode(f) /\ e[i + 1] = d[i + 1] \o Encode(f)
          /\ r[i] = q[i] /\ q[i] \in Frames /\ d[i + 1] \in Seq(Bytes)
      BY <1>1, <1>3, <1>4, <3>1
    <3>3. Encode(q[i]) \in Seq(Bytes)
      BY <3>2, EncodeShape
    <3>4. (Encode(q[i]) \o d[i + 1]) \o Encode(f) = Encode(q[i]) \o (d[i + 1] \o Encode(f))
      BY <1>2, <3>2, <3>3, Associative
    <3> QED
      BY <3>2, <3>4, Zenon
  <2> QED
    BY <2>1, <2>2
<1>8. Streams(e, r)
  BY <1>1, <1>5, <1>6, <1>7 DEF Streams
<1> QED
  BY <1>4, <1>8 DEF n, r

\* What the writing end leaves alone keeps its part of the invariant.
LEMMA WriterKeeps ==
  ASSUME CodecInv, end = "reading", UNCHANGED <<writer, reader, cap, readVars>>
  PROVE  /\ end' = "reading" /\ (end = "reading" => ReadPosition)'
         /\ (alloc <= Limit)' /\ ErrJustified' /\ CutNoticed'
<1>1. /\ reader' = reader /\ cap' = cap /\ hdr' = hdr /\ buf' = buf
      /\ alloc' = alloc /\ rcvd' = rcvd /\ end' = "reading"
  BY DEF readVars
<1>2. ReadPosition /\ alloc <= Limit
  BY DEF CodecInv
<1>3. ReadPosition'
  BY <1>1, <1>2 DEF ReadPosition
<1>4. (alloc <= Limit)'
  BY <1>1, <1>2 DEF Limit
<1>5. ErrJustified' /\ CutNoticed'
  BY <1>1 DEF ErrJustified, CutNoticed
<1> QED
  BY <1>1, <1>3, <1>4, <1>5

\* The frames begun, and the one that is the next to be read among them.
LEMMA BegunShape ==
  ASSUME CodecTypeOK
  PROVE  /\ Begun \in Seq(Frames) /\ Len(Begun) = Len(sent) + Len(cur)
         /\ Len(sent) \in Nat /\ Len(cur) \in Nat
         /\ \A i \in 1..Len(sent) : Begun[i] = sent[i]
         /\ cur = <<>> => Begun = sent
         /\ Len(cur) = 1 => Begun[Len(sent) + 1] = cur[1]
<1>1. sent \in Seq(Frames) /\ cur \in Seq(Frames)
  BY DEF CodecTypeOK
<1>2. cur = <<>> => Begun = sent
  BY <1>1, ConcatEmptySeq DEF Begun
<1>3. Len(sent) \in Nat /\ Len(cur) \in Nat
  BY <1>1, LenProperties
<1>4. /\ Begun \in Seq(Frames) /\ Len(Begun) = Len(sent) + Len(cur)
      /\ \A i \in 1..(Len(sent) + Len(cur)) :
           Begun[i] = IF i <= Len(sent) THEN sent[i] ELSE cur[i - Len(sent)]
  BY <1>1, ConcatProperties DEF Begun
<1>5. \A i \in 1..Len(sent) : i \in 1..(Len(sent) + Len(cur)) /\ i <= Len(sent)
  BY <1>3
<1>6. ASSUME Len(cur) = 1
      PROVE  Begun[Len(sent) + 1] = cur[1]
  <2> DEFINE s == Len(sent)
  <2>1. s \in Nat
    BY <1>3
  <2> HIDE DEF s
  <2>2. s + 1 \in 1..(s + 1) /\ ~(s + 1 <= s) /\ (s + 1) - s = 1
    BY <2>1
  <2> QED
    BY <1>4, <1>6, <2>2, Zenon DEF s
<1> QED
  BY <1>2, <1>3, <1>4, <1>5, <1>6, Zenon

LEMMA EncodeLength ==
  ASSUME NEW f \in Frames
  PROVE  Len(Encode(f)) \in Nat /\ Len(Encode(f)) > 0 /\ Len(Encode(f)) >= HeaderLen
<1> DEFINE n == Len(f.payload)
           m == Len(Encode(f))
<1>1. n \in Nat /\ m = HeaderLen + n
  BY FrameShape, EncodeShape
<1> HIDE DEF n, m
<1>2. m \in Nat /\ m > 0 /\ m >= HeaderLen
  BY <1>1, HeaderLenIs, CodecAssumption
<1> QED
  BY <1>2 DEF m

LEMMA StepWriteFrame ==
  ASSUME CodecInv, end = "reading", WriteFrame, UNCHANGED <<writer, reader, cap, readVars>>
  PROVE  CodecInv'
<1>1. CodecTypeOK /\ RcvdIsPrefix /\ BegunFit /\ LeftOfCur /\ InStep
  BY DEF CodecInv
<1>2. PICK f \in Frames : /\ Accepts(Len(f.payload)) /\ cur' = <<f>> /\ left' = Encode(f)
                          /\ sent' = sent /\ pipe' = pipe /\ up' = "open"
                          /\ up = "open" /\ cur = <<>>
  BY DEF WriteFrame
<1>3. /\ hdr' = hdr /\ buf' = buf /\ alloc' = alloc /\ rcvd' = rcvd /\ end' = "reading" /\ cap' = cap
  BY DEF readVars
<1>4. left = <<>> /\ Begun = sent /\ sent \in Seq(Frames) /\ Len(sent) \in Nat
  <2>1. Len(<<>>) = 0 /\ 0 # 1
    BY Empty
  <2>2. left = <<>>
    BY <1>1, <1>2, <2>1, Zenon DEF LeftOfCur
  <2> QED
    BY <1>1, <1>2, <2>2, BegunShape DEF CodecTypeOK
<1>5. /\ Encode(f) \in Seq(Bytes) /\ Len(Encode(f)) \in Nat /\ Len(Encode(f)) > 0
  BY EncodeLength, EncodeShape
<1>6. Fits(Len(f.payload))
  <2>1. Len(f.payload) \in Nat
    BY FrameShape
  <2>2. CASE writer = "guest_cmd"
    BY <1>2, <2>2 DEF Accepts
  <2>3. CASE writer # "guest_cmd"
    <3>1. Len(f.payload) \in 0..MAX_FRAME_LEN /\ MAX_FRAME_LEN \in Nat /\ Fits(MAX_FRAME_LEN)
      <4> DEFINE n == Len(f.payload)
      <4>1. n \in Nat /\ n <= MAX_FRAME_LEN
        BY <1>2, <2>1, <2>3 DEF Accepts
      <4> HIDE DEF n
      <4>2. n \in 0..MAX_FRAME_LEN /\ MAX_FRAME_LEN \in Nat /\ Fits(MAX_FRAME_LEN)
        BY <4>1, CodecAssumption
      <4> QED
        BY <4>2 DEF n
    <3> QED
      BY <3>1, FitsBelow
  <2> QED
    BY <2>2, <2>3
<1>7. Begun' = Append(sent, f)
  BY <1>2, <1>4, AppendIsConcat DEF Begun
<1>8. CodecTypeOK'
  <2>1. <<f>> \in Seq(Frames)
    OBVIOUS
  <2> QED
    BY <1>1, <1>2, <1>3, <1>5, <2>1 DEF CodecTypeOK
<1>9. BegunFit'
  <2>1. /\ Len(Append(sent, f)) = Len(sent) + 1 /\ Append(sent, f)[Len(sent) + 1] = f
        /\ \A i \in 1..Len(sent) : Append(sent, f)[i] = sent[i]
    BY <1>4, AppendProperties
  <2>2. \A i \in 1..Len(sent) : Fits(Len(sent[i].payload))
    BY <1>1, <1>4, Zenon DEF BegunFit
  <2>3. \A i \in 1..(Len(sent) + 1) : i \in 1..Len(sent) \/ i = Len(sent) + 1
    BY <1>4
  <2> QED
    BY <1>6, <1>7, <2>1, <2>2, <2>3, Zenon DEF BegunFit
<1>10. LeftOfCur'
  <2>1. Len(<<f>>) = 1 /\ Encode(f) # <<>>
    BY <1>5, Empty
  <2> QED
    BY <1>2, <2>1, Zenon DEF LeftOfCur
<1>11. RcvdIsPrefix'
  BY <1>1, <1>2, <1>3, Zenon DEF RcvdIsPrefix
<1>12. InStep'
  <2>1. PICK d : Aligned(d)
    BY <1>1, <1>2 DEF InStep
  <2>2. Streams(d, sent) /\ (hdr \o buf) \o (pipe \o left) = d[Len(rcvd) + 1]
    BY <1>4, <2>1, Zenon DEF Aligned
  <2>3. PICK e : /\ Streams(e, Append(sent, f))
                 /\ \A i \in 1..(Len(sent) + 1) : e[i] = d[i] \o Encode(f)
    BY <1>4, <2>2, StreamsGrow
  <2>4. Len(rcvd) + 1 \in 1..(Len(sent) + 1)
    <3>1. Len(rcvd) \in Nat /\ Len(rcvd) <= Len(sent)
      BY <1>1, LenProperties DEF CodecTypeOK, RcvdIsPrefix
    <3> QED
      BY <1>4, <3>1
  <2>5. (hdr \o buf) \o (pipe \o Encode(f)) = e[Len(rcvd) + 1]
    <3>1. hdr \o buf \in Seq(Bytes) /\ pipe \in Seq(Bytes)
      BY <1>1, Joining DEF CodecTypeOK
    <3>2. pipe \o left = pipe
      BY <1>4, <3>1, Empty
    <3>3. ((hdr \o buf) \o pipe) \o Encode(f) = (hdr \o buf) \o (pipe \o Encode(f))
      BY <1>5, <3>1, Associative
    <3> QED
      BY <2>2, <2>3, <2>4, <3>2, <3>3, Zenon
  <2>6. ASSUME NEW i \in 1..(Len(sent) + 1)
        PROVE  Len(Encode(f)) <= Len(e[i])
    <3>1. d[i] \in Seq(Bytes)
      BY <2>2, Zenon DEF Streams
    <3>2. Len(d[i] \o Encode(f)) = Len(d[i]) + Len(Encode(f)) /\ Len(d[i]) \in Nat
      BY <1>5, <3>1, Joining
    <3>3. e[i] = d[i] \o Encode(f)
      BY <2>3
    <3> QED
      BY <1>5, <3>2, <3>3
  <2>7. Aligned(e)'
    BY <1>2, <1>3, <1>7, <2>3, <2>5, <2>6, Zenon DEF Aligned
  <2> QED
    BY <1>2, <2>7 DEF InStep
<1> QED
  BY <1>3, <1>8, <1>9, <1>10, <1>11, <1>12, WriterKeeps, Zenon DEF CodecInv

LEMMA StepWriteByte ==
  ASSUME CodecInv, end = "reading", WriteByte, UNCHANGED <<writer, reader, cap, readVars>>
  PROVE  CodecInv' /\ Begun' = Begun /\ (sent' = sent \/ sent' = Begun)
<1>1. CodecTypeOK /\ RcvdIsPrefix /\ BegunFit /\ LeftOfCur /\ InStep
  BY DEF CodecInv
<1>2. /\ up = "open" /\ up' = "open" /\ left # <<>>
      /\ pipe' = Append(pipe, Head(left)) /\ left' = Tail(left)
  BY DEF WriteByte
<1>3. /\ hdr' = hdr /\ buf' = buf /\ alloc' = alloc /\ rcvd' = rcvd /\ end' = "reading" /\ cap' = cap
  BY DEF readVars
<1>4. /\ sent \in Seq(Frames) /\ cur \in Seq(Frames) /\ rcvd \in Seq(Frames)
      /\ left \in Seq(Bytes) /\ pipe \in Seq(Bytes)
  BY <1>1 DEF CodecTypeOK
<1>5. /\ Head(left) \in Bytes /\ Tail(left) \in Seq(Bytes) /\ left = <<Head(left)>> \o Tail(left)
      /\ Len(Tail(left)) = Len(left) - 1
  BY <1>2, <1>4
<1>6. Append(pipe, Head(left)) \in Seq(Bytes)
      /\ Append(pipe, Head(left)) \o Tail(left) = pipe \o left
  <2>1. /\ Append(pipe, Head(left)) = pipe \o <<Head(left)>> /\ <<Head(left)>> \in Seq(Bytes)
        /\ Append(pipe, Head(left)) \in Seq(Bytes)
    BY <1>4, <1>5, AppendIsConcat, AppendProperties
  <2>2. (pipe \o <<Head(left)>>) \o Tail(left) = pipe \o (<<Head(left)>> \o Tail(left))
    BY <1>4, <1>5, <2>1, Associative
  <2> QED
    BY <1>5, <2>1, <2>2, Zenon
<1>7. Len(left) \in Nat /\ Len(left) > 0
  BY <1>2, <1>4, Empty
<1>8. Len(cur) = 1
  BY <1>1, <1>2 DEF LeftOfCur
<1>9. Begun \in Seq(Frames) /\ Len(Begun) = Len(sent) + 1 /\ Len(sent) \in Nat
  BY <1>1, <1>8, BegunShape
<1>10. \/ Len(left) = 1 /\ sent' = Begun /\ cur' = <<>>
       \/ Len(left) # 1 /\ sent' = sent /\ cur' = cur
  BY DEF WriteByte, Begun
<1>11. Begun' = Begun /\ sent' \in Seq(Frames) /\ cur' \in Seq(Frames)
  <2>1. Begun \o <<>> = Begun /\ <<>> \in Seq(Frames)
    BY <1>9, ConcatEmptySeq, EmptySeq
  <2> QED
    BY <1>4, <1>9, <1>10, <2>1, Zenon DEF Begun
<1>12. CodecTypeOK' /\ BegunFit'
  <2>1. CodecTypeOK'
    BY <1>1, <1>2, <1>3, <1>5, <1>6, <1>11 DEF CodecTypeOK
  <2>2. BegunFit'
    BY <1>1, <1>11, Zenon DEF BegunFit
  <2> QED
    BY <2>1, <2>2
<1>13. LeftOfCur'
  <2>1. CASE Len(left) = 1 /\ cur' = <<>>
    <3>1. Len(left) - 1 = 0
      BY <2>1
    <3>2. Tail(left) = <<>>
      BY <1>5, <3>1, Empty
    <3> QED
      BY <1>2, <2>1, <3>2, Zenon DEF LeftOfCur
  <2>2. CASE Len(left) # 1 /\ cur' = cur
    <3>1. Len(left) - 1 > 0
      <4> DEFINE l == Len(left)
      <4>1. l \in Nat /\ l > 0 /\ l # 1
        BY <1>7, <2>2
      <4> HIDE DEF l
      <4>2. l - 1 > 0
        BY <4>1
      <4> QED
        BY <4>2 DEF l
    <3>2. Tail(left) # <<>>
      BY <1>5, <3>1, Empty
    <3> QED
      BY <1>2, <1>8, <2>2, <3>2, Zenon DEF LeftOfCur
  <2> QED
    BY <1>10, <2>1, <2>2
<1>14. RcvdIsPrefix' /\ Len(sent') <= Len(Begun) /\ Len(sent') \in Nat
  <2> DEFINE r == Len(rcvd)
             s == Len(sent)
  <2>1. r \in Nat /\ s \in Nat /\ r <= s /\ Len(Begun) = s + 1
    BY <1>1, <1>4, <1>9, LenProperties DEF RcvdIsPrefix
  <2>2. \A i \in 1..s : Begun[i] = sent[i]
    BY <1>1, BegunShape
  <2>3. \A i \in 1..r : rcvd[i] = sent[i]
    BY <1>1 DEF RcvdIsPrefix
  <2>4. CASE sent' = sent
    <3>1. s <= s + 1
      BY <2>1
    <3> QED
      BY <1>1, <1>3, <2>1, <2>4, <3>1, Zenon DEF RcvdIsPrefix
  <2>5. CASE sent' = Begun
    <3> HIDE DEF r, s
    <3>1. r <= s + 1 /\ s + 1 <= s + 1 /\ s + 1 \in Nat /\ \A i \in 1..r : i \in 1..s
      BY <2>1
    <3>2. \A i \in 1..r : rcvd[i] = Begun[i]
      BY <2>2, <2>3, <3>1, Zenon
    <3> QED
      BY <1>3, <2>1, <2>5, <3>1, <3>2, Zenon DEF RcvdIsPrefix, r
  <2> QED
    BY <1>10, <2>4, <2>5
<1>15. InStep'
  <2>1. PICK d : Aligned(d)
    BY <1>1, <1>2 DEF InStep
  <2>2. /\ Streams(d, Begun) /\ (hdr \o buf) \o (pipe \o left) = d[Len(rcvd) + 1]
        /\ \A i \in 1..(Len(sent) + 1) : Len(left) <= Len(d[i])
    BY <2>1 DEF Aligned
  <2>3. ASSUME NEW i \in 1..(Len(sent') + 1)
        PROVE  Len(Tail(left)) <= Len(d[i])
    <3> DEFINE s == Len(sent)
               l == Len(left)
               t == Len(Tail(left))
               u == Len(sent')
               k == Len(d[i])
    <3>1. s \in Nat /\ l \in Nat /\ t = l - 1 /\ u \in Nat /\ u <= s + 1 /\ i \in 1..(u + 1)
      BY <1>5, <1>7, <1>9, <1>14
    <3>2. i \in 1..(s + 1) => l <= k
      BY <2>2
    <3>3. d[i] \in Seq(Bytes)
      <4>1. i \in 1..(Len(Begun) + 1)
        <5> HIDE DEF s, l, t, u, k
        <5>1. i \in 1..((s + 1) + 1)
          BY <3>1
        <5> QED
          BY <1>9, <5>1, Zenon DEF s
      <4> QED
        BY <2>2, <4>1, Zenon DEF Streams
    <3>4. k \in Nat
      BY <3>3, LenProperties
    <3>5. l = 1 \/ u = s
      BY <1>10, Zenon
    <3> HIDE DEF s, l, t, u, k
    <3>6. t <= k
      BY <3>1, <3>2, <3>4, <3>5
    <3> QED
      BY <3>6 DEF t, k
  <2>4. Aligned(d)'
    BY <1>2, <1>3, <1>6, <1>11, <2>2, <2>3, Zenon DEF Aligned
  <2> QED
    BY <1>2, <2>4 DEF InStep
<1> QED
  BY <1>3, <1>10, <1>11, <1>12, <1>13, <1>14, <1>15, WriterKeeps, Zenon DEF CodecInv

LEMMA StepWriterEnds ==
  ASSUME CodecInv, end = "reading", WriterStops \/ TransportReset,
         UNCHANGED <<writer, reader, cap, readVars>>
  PROVE  CodecInv' /\ sent' = sent
<1>1. CodecTypeOK /\ RcvdIsPrefix /\ BegunFit /\ LeftOfCur /\ InStep
  BY DEF CodecInv
<1>2. /\ sent' = sent /\ cur' = cur /\ left' = left
      /\ \/ up = "open" /\ up' = "eof" /\ pipe' = pipe
         \/ up' = "reset" /\ pipe' = <<>>
  BY DEF WriterStops, TransportReset, writeVars
<1>3. /\ hdr' = hdr /\ buf' = buf /\ alloc' = alloc /\ rcvd' = rcvd /\ end' = "reading" /\ cap' = cap
  BY DEF readVars
<1>4. CodecTypeOK'
  BY <1>1, <1>2, <1>3, Empty DEF CodecTypeOK
<1>5. BegunFit' /\ LeftOfCur' /\ RcvdIsPrefix'
  <2>1. Begun' = Begun
    BY <1>2 DEF Begun
  <2> QED
    BY <1>1, <1>2, <1>3, <2>1, Zenon DEF BegunFit, LeftOfCur, RcvdIsPrefix
<1>6. InStep'
  <2>1. CASE up' = "reset" /\ pipe' = <<>>
    BY <2>1 DEF InStep
  <2>2. CASE up = "open" /\ up' = "eof" /\ pipe' = pipe
    <3>1. PICK d : Aligned(d)
      BY <1>1, <2>2 DEF InStep
    <3>2. Aligned(d)'
      BY <1>2, <1>3, <2>2, <3>1, Zenon DEF Aligned, Begun
    <3> QED
      BY <2>2, <3>2 DEF InStep
  <2> QED
    BY <1>2, <2>1, <2>2
<1> QED
  BY <1>2, <1>4, <1>5, <1>6, WriterKeeps, Zenon DEF CodecInv

-----------------------------------------------------------------------------
(* The steps of the reading end.                                           *)

\* What one read leaves on the transport.
Rest == SubSeq(pipe, Taken + 1, Len(pipe))

\* A read takes no more than is there and no more than it needs, and loses
\* nothing.
LEMMA ReadTakes ==
  ASSUME CodecInv, end = "reading"
  PROVE  /\ Needed \in Nat /\ Got \in Seq(Bytes) /\ Rest \in Seq(Bytes)
         /\ (hdr \o buf) \o (pipe \o left) = hdr \o (Got \o (Rest \o left))
<1>1. /\ hdr \in Seq(Bytes) /\ buf \in Seq(Bytes) /\ pipe \in Seq(Bytes) /\ left \in Seq(Bytes)
  BY DEF CodecInv, CodecTypeOK
<1>2. ReadPosition
  BY DEF CodecInv
<1>3. Needed \in Nat /\ Len(buf) < Needed
  <2>1. CASE hdr = <<>> /\ Len(buf) < HeaderLen
    BY <2>1, HeaderLenIs DEF Needed
  <2>2. CASE Len(hdr) = HeaderLen /\ Len(buf) < Decode(hdr)
    <3>1. HeaderLen > 0
      BY HeaderLenIs, CodecAssumption
    <3>2. hdr # <<>>
      BY <1>1, <2>2, <3>1, Empty, Zenon
    <3>3. \A i \in 1..LenDigits : i + 1 \in 1..HeaderLen
      BY HeaderLenIs, CodecAssumption
    <3>4. \A i \in 1..LenDigits : hdr[i + 1] \in Bytes
      BY <1>1, <2>2, <3>3, ElementOfSeq, Zenon
    <3>5. \A i \in 1..LenDigits : hdr[i + 1] \in Nat
      BY <3>4, CodecAssumption DEF Bytes
    <3>6. Decode(hdr) \in Nat
      BY <3>5, DecodeType
    <3> QED
      BY <2>2, <3>2, <3>6, Zenon DEF Needed
  <2> QED
    BY <1>2, <2>1, <2>2 DEF ReadPosition
<1> DEFINE b == Len(buf)
           p == Len(pipe)
           t == Taken
<1>4. b \in Nat /\ p \in Nat /\ Needed \in Nat /\ b < Needed /\ t = IF p < Needed - b THEN p ELSE Needed - b
  BY <1>1, <1>3, LenProperties DEF Taken
<1> HIDE DEF b, p, t
<1>5. t \in 0..p /\ t \in Nat
  BY <1>4
<1>6. /\ SubSeq(pipe, 1, t) \in Seq(Bytes) /\ SubSeq(pipe, t + 1, p) \in Seq(Bytes)
      /\ pipe = SubSeq(pipe, 1, t) \o SubSeq(pipe, t + 1, p)
  <2>1. /\ 1 \in 1..(p + 1) /\ t \in (1 - 1)..p /\ p \in t..p
    BY <1>4, <1>5
  <2>2. SubSeq(pipe, 1, t) \o SubSeq(pipe, t + 1, p) = SubSeq(pipe, 1, p)
    BY <1>1, <2>1, ConcatAdjacentSubSeq, Zenon DEF p
  <2>3. SubSeq(pipe, 1, p) = pipe
    BY <1>1, SubSeqFull DEF p
  <2>4. \A i \in 1..p : pipe[i] \in Bytes
    BY <1>1, ElementOfSeq DEF p
  <2>5. SubSeq(pipe, 1, t) \in Seq(Bytes)
    <3>1. \A i \in 1..t : pipe[i] \in Bytes
      BY <1>4, <1>5, <2>4
    <3> QED
      BY <1>5, <3>1, SubSeqProperties
  <2>6. SubSeq(pipe, t + 1, p) \in Seq(Bytes)
    <3>1. \A i \in (t + 1)..p : pipe[i] \in Bytes
      BY <1>4, <1>5, <2>4
    <3>2. t + 1 \in Int /\ p \in Int
      BY <1>4, <1>5
    <3> QED
      BY <3>1, <3>2, SubSeqProperties
  <2> QED
    BY <2>2, <2>3, <2>5, <2>6, Zenon
<1> DEFINE x == SubSeq(pipe, 1, t)
           y == SubSeq(pipe, t + 1, p)
<1>7. x \in Seq(Bytes) /\ y \in Seq(Bytes) /\ pipe = x \o y
  BY <1>6
<1>8. Got = buf \o x /\ Rest = y
  BY DEF Got, Rest, t, p
<1> HIDE DEF x, y
<1>9. Got \in Seq(Bytes) /\ Rest \in Seq(Bytes)
  BY <1>1, <1>7, <1>8, Joining
<1>10. (hdr \o buf) \o (pipe \o left) = hdr \o (Got \o (Rest \o left))
  <2> DEFINE z == y \o left
  <2>1. (x \o y) \o left = x \o z /\ z \in Seq(Bytes)
    BY <1>1, <1>7, Associative, Joining
  <2>2. Got \o (Rest \o left) = (buf \o x) \o z /\ pipe \o left = (x \o y) \o left
    BY <1>7, <1>8, Zenon
  <2> HIDE DEF z
  <2>3. x \o z \in Seq(Bytes)
    BY <1>7, <2>1, Joining
  <2>4. (hdr \o buf) \o (x \o z) = hdr \o (buf \o (x \o z))
    BY <1>1, <2>3, Associative
  <2>5. (buf \o x) \o z = buf \o (x \o z)
    <3>1. buf \in Seq(Bytes) /\ x \in Seq(Bytes) /\ z \in Seq(Bytes)
      BY <1>1, <1>7, <2>1
    <3> QED
      BY <3>1, Associative
  <2> QED
    BY <2>1, <2>2, <2>4, <2>5, Zenon
<1> QED
  BY <1>3, <1>9, <1>10

\* As long as the stream is not empty, it begins with the frame to be read;
\* and once the reader has all bytes of that frame, it was written completely.
LEMMA NextFrame ==
  ASSUME CodecInv, NEW d, Aligned(d), d[Len(rcvd) + 1] # <<>>, NEW k, k = Len(rcvd) + 1
  PROVE  /\ k \in 1..Len(Begun) /\ Begun[k] \in Frames /\ Fits(Len(Begun[k].payload))
         /\ d[k] = Encode(Begun[k]) \o d[k + 1] /\ d[k + 1] \in Seq(Bytes)
         /\ \A x \in Seq(Bytes) :
              x \o left = d[k + 1] => k \in 1..Len(sent) /\ Begun[k] = sent[k]
<1>1. CodecTypeOK /\ RcvdIsPrefix /\ BegunFit /\ LeftOfCur
  BY DEF CodecInv
<1>2. Streams(d, Begun)
  BY DEF Aligned
<1> DEFINE r == Len(rcvd)
           s == Len(sent)
           c == Len(cur)
           n == Len(Begun)
<1>3. r \in Nat /\ s \in Nat /\ c \in Nat /\ r <= s /\ n = s + c /\ Begun \in Seq(Frames)
  BY <1>1, BegunShape, LenProperties DEF CodecTypeOK, RcvdIsPrefix
<1>4. /\ d \in [1..(n + 1) -> Seq(Bytes)] /\ d[n + 1] = <<>>
      /\ \A i \in 1..n : d[i] = Encode(Begun[i]) \o d[i + 1]
  BY <1>2 DEF Streams
<1>5. k = r + 1 /\ d[k] # <<>>
  OBVIOUS
<1>6. \A i \in 1..n : Begun[i] \in Frames /\ Fits(Len(Begun[i].payload))
  BY <1>1, <1>3, ElementOfSeq DEF BegunFit
<1>7. \A i \in 1..s : Begun[i] = sent[i]
  BY <1>1, BegunShape
<1>8. left \in Seq(Bytes)
  BY <1>1 DEF CodecTypeOK
<1>9. c = 0 \/ (c = 1 /\ left # <<>>)
  BY <1>1, Empty, Zenon DEF LeftOfCur
<1> HIDE DEF r, s, c, n
<1>10. k \in 1..n /\ k + 1 \in 1..(n + 1)
  <2>1. k # n + 1
    BY <1>4, <1>5
  <2> QED
    BY <1>3, <1>5, <2>1
<1>11. ASSUME NEW x \in Seq(Bytes), x \o left = d[k + 1]
       PROVE  k \in 1..s
  <2>1. CASE k = s + 1
    <3>1. c = 1 /\ n = k
      BY <1>3, <1>9, <1>10, <2>1
    <3>2. x \o left = <<>> /\ left # <<>>
      BY <1>4, <1>9, <1>11, <3>1
    <3> QED
      BY <1>8, <3>2, ConcatSimplifications
  <2>2. CASE k # s + 1
    BY <1>3, <1>5, <2>2
  <2> QED
    BY <2>1, <2>2
<1> QED
  BY <1>4, <1>6, <1>7, <1>10, <1>11 DEF n, s

\* What a read does to the two ends: it waits for more of a frame, or delivers
\* the next one, or refuses it because it is longer than the reader takes.
Waits(d) == Aligned(d)' /\ ReadPosition' /\ UNCHANGED <<rcvd, end>>

Delivers(d) ==
  /\ Aligned(d)' /\ ReadPosition' /\ UNCHANGED end
  /\ Len(rcvd) + 1 \in 1..Len(sent) /\ rcvd' = Append(rcvd, sent[Len(rcvd) + 1])

Refuses ==
  /\ end' = "err" /\ UNCHANGED rcvd
  /\ Len(Begun[Len(rcvd) + 1].payload) > Limit

\* The stream is the one before once the frame at its head is read.
LEMMA DeliveryAligns ==
  ASSUME CodecInv, NEW d, Aligned(d), NEW f, rcvd' = Append(rcvd, f), f \in Frames,
         hdr' = <<>>, buf' = <<>>, pipe' = Rest, Rest \in Seq(Bytes),
         UNCHANGED <<writeVars, up, reader, cap>>,
         Rest \o left = d[(Len(rcvd) + 1) + 1]
  PROVE  Aligned(d)' /\ ReadPosition'
<1>1. sent' = sent /\ cur' = cur /\ left' = left
  BY DEF writeVars
<1>2. rcvd \in Seq(Frames) /\ left \in Seq(Bytes)
  BY DEF CodecInv, CodecTypeOK
<1>3. Len(rcvd') = Len(rcvd) + 1
  BY <1>2, AppendProperties
<1>4. (<<>> \o <<>>) \o (Rest \o left) = Rest \o left
  <2>1. Rest \o left \in Seq(Bytes)
    BY <1>2, Joining
  <2> QED
    BY <2>1, Empty, Zenon
<1>5. Begun' = Begun
  BY <1>1 DEF Begun
<1>6. Aligned(d)'
  BY <1>1, <1>3, <1>4, <1>5, Zenon DEF Aligned
<1>7. Len(<<>>) = 0 /\ 0 < HeaderLen
  BY Empty, HeaderLenIs, CodecAssumption
<1> QED
  BY <1>6, <1>7, Zenon DEF ReadPosition

LEMMA ReadPartly ==
  ASSUME CodecInv, end = "reading", NEW d, Aligned(d), UNCHANGED <<writeVars, up, reader, cap>>,
         pipe' = Rest, Len(Got) < Needed, buf' = Got, UNCHANGED <<hdr, alloc, rcvd, end>>
  PROVE  Waits(d)
<1>1. sent' = sent /\ cur' = cur /\ left' = left
  BY DEF writeVars
<1>2. /\ Got \in Seq(Bytes) /\ Rest \in Seq(Bytes)
      /\ (hdr \o buf) \o (pipe \o left) = hdr \o (Got \o (Rest \o left))
  BY ReadTakes
<1>3. hdr \in Seq(Bytes) /\ left \in Seq(Bytes)
  BY DEF CodecInv, CodecTypeOK
<1>4. (hdr \o Got) \o (Rest \o left) = hdr \o (Got \o (Rest \o left))
  <2> DEFINE z == Rest \o left
  <2>1. z \in Seq(Bytes)
    BY <1>2, <1>3, Joining
  <2> HIDE DEF z
  <2>2. (hdr \o Got) \o z = hdr \o (Got \o z)
    BY <1>2, <1>3, <2>1, Associative
  <2> QED
    BY <2>2 DEF z
<1>5. Begun' = Begun
  BY <1>1 DEF Begun
<1>6. Aligned(d)'
  BY <1>1, <1>2, <1>4, <1>5, Zenon DEF Aligned
<1>7. ReadPosition'
  <2>1. ReadPosition
    BY DEF CodecInv
  <2>2. CASE hdr = <<>>
    BY <2>2, Zenon DEF ReadPosition, Needed
  <2>3. CASE hdr # <<>>
    BY <2>1, <2>3, Zenon DEF ReadPosition, Needed
  <2> QED
    BY <2>2, <2>3
<1> QED
  BY <1>6, <1>7 DEF Waits

LEMMA ReadHeader ==
  ASSUME CodecInv, end = "reading", NEW d, Aligned(d), UNCHANGED <<writeVars, up, reader, cap>>,
         pipe' = Rest, Len(Got) = Needed, hdr = <<>>, HeaderRead
  PROVE  Waits(d) \/ Delivers(d) \/ Refuses
<1> DEFINE k == Len(rcvd) + 1
           f == Begun[k]
           z == Rest \o left
<1>1. sent' = sent /\ cur' = cur /\ left' = left
  BY DEF writeVars
<1>2. /\ Got \in Seq(Bytes) /\ Rest \in Seq(Bytes) /\ left \in Seq(Bytes) /\ hdr \in Seq(Bytes)
      /\ (hdr \o buf) \o (pipe \o left) = hdr \o (Got \o z)
  BY ReadTakes DEF CodecInv, CodecTypeOK
<1>3. z \in Seq(Bytes) /\ Got \o z \in Seq(Bytes)
  BY <1>2, Joining
<1>4. Got \o z = d[k]
  <2>1. hdr \o (Got \o z) = Got \o z
    BY <1>3, Empty
  <2> QED
    BY <1>2, <2>1, Zenon DEF Aligned
<1>5. Len(Got) = HeaderLen /\ Got # <<>>
  <2>1. Len(Got) = HeaderLen
    BY DEF Needed
  <2>2. HeaderLen > 0
    BY HeaderLenIs, CodecAssumption
  <2> QED
    BY <1>2, <2>1, <2>2, Empty, Zenon
<1>6. d[k] # <<>>
  BY <1>2, <1>3, <1>4, <1>5, ConcatSimplifications
<1>7. /\ f \in Frames /\ Fits(Len(f.payload)) /\ d[k] = Encode(f) \o d[k + 1]
      /\ d[k + 1] \in Seq(Bytes)
      /\ \A x \in Seq(Bytes) : x \o left = d[k + 1] => k \in 1..Len(sent) /\ f = sent[k]
  BY <1>6, NextFrame, Zenon
<1> HIDE DEF z, k, f
<1>8. Got[1] = f.type /\ Decode(Got) = Len(f.payload) /\ z = f.payload \o d[k + 1]
  <2> DEFINE r == d[k + 1]
  <2>1. /\ f \in Frames /\ Fits(Len(f.payload)) /\ r \in Seq(Bytes)
        /\ Got \in Seq(Bytes) /\ z \in Seq(Bytes)
        /\ Got \o z = Encode(f) \o r /\ Len(Got) = HeaderLen
    BY <1>2, <1>3, <1>4, <1>5, <1>7, Zenon
  <2> HIDE DEF r
  <2>2. Got[1] = f.type /\ Decode(Got) = Len(f.payload) /\ z = f.payload \o r
    BY <2>1, HeaderFound
  <2> QED
    BY <2>2 DEF r
<1>9. f.payload \in Seq(Bytes) /\ Len(f.payload) \in Nat
      /\ f = [type |-> f.type, payload |-> f.payload]
  BY <1>7, FrameShape
<1>10. CASE Decode(Got) > Limit /\ end' = "err" /\ rcvd' = rcvd
  BY <1>8, <1>10, Zenon DEF Refuses, f, k
<1>11. CASE /\ buf' = <<>> /\ Decode(Got) <= Limit /\ Decode(Got) = 0
            /\ rcvd' = Append(rcvd, [type |-> Got[1], payload |-> <<>>])
            /\ end' = end /\ hdr' = hdr
  <2>1. f.payload = <<>>
    BY <1>8, <1>9, <1>11, Empty
  <2>2. [type |-> Got[1], payload |-> <<>>] = f
    BY <1>8, <1>9, <2>1, Zenon
  <2>3. z = d[k + 1]
    BY <1>7, <1>8, <2>1, Empty
  <2>4. k \in 1..Len(sent) /\ f = sent[k]
    BY <1>2, <1>7, <2>3 DEF z
  <2>5. rcvd' = Append(rcvd, f) /\ hdr' = <<>> /\ buf' = <<>>
    BY <1>11, <2>2, Zenon
  <2>6. Rest \o left = d[(Len(rcvd) + 1) + 1]
    BY <2>3 DEF z, k
  <2>7. Aligned(d)' /\ ReadPosition'
    BY <1>2, <1>7, <2>5, <2>6, DeliveryAligns
  <2> QED
    BY <1>11, <2>4, <2>5, <2>7, Zenon DEF Delivers, k
<1>12. CASE /\ buf' = <<>> /\ Decode(Got) <= Limit /\ Decode(Got) # 0
            /\ hdr' = Got /\ rcvd' = rcvd /\ end' = end
  <2>1. 0 < Decode(Got)
    <3> DEFINE n == Len(f.payload)
    <3>1. n \in Nat /\ n # 0 /\ n = Decode(Got)
      BY <1>8, <1>9, <1>12
    <3> HIDE DEF n
    <3> QED
      BY <3>1
  <2>2. Len(<<>>) = 0 /\ Got \o <<>> = Got
    BY <1>2, Empty
  <2>3. ReadPosition'
    BY <1>5, <1>12, <2>1, <2>2, Zenon DEF ReadPosition
  <2>4. (Got \o <<>>) \o (Rest \o left) = d[Len(rcvd) + 1]
    BY <1>4, <2>2, Zenon DEF z, k
  <2>5. Begun' = Begun
    BY <1>1 DEF Begun
  <2>6. Aligned(d)'
    BY <1>1, <1>12, <2>4, <2>5, Zenon DEF Aligned
  <2> QED
    BY <1>12, <2>3, <2>6 DEF Waits
<1> QED
  BY <1>10, <1>11, <1>12 DEF HeaderRead, Deliver

LEMMA ReadPayload ==
  ASSUME CodecInv, end = "reading", NEW d, Aligned(d), UNCHANGED <<writeVars, up, reader, cap>>,
         pipe' = Rest, Len(Got) = Needed, hdr # <<>>, Deliver(hdr[1], Got),
         hdr' = <<>>, buf' = <<>>
  PROVE  Delivers(d)
<1> DEFINE k == Len(rcvd) + 1
           f == Begun[k]
           z == Rest \o left
<1>1. /\ Got \in Seq(Bytes) /\ Rest \in Seq(Bytes) /\ left \in Seq(Bytes) /\ hdr \in Seq(Bytes)
      /\ (hdr \o buf) \o (pipe \o left) = hdr \o (Got \o z)
  BY ReadTakes DEF CodecInv, CodecTypeOK
<1>2. z \in Seq(Bytes) /\ Got \o z \in Seq(Bytes)
  BY <1>1, Joining
<1>3. hdr \o (Got \o z) = d[k]
  BY <1>1, Zenon DEF Aligned
<1>4. d[k] # <<>>
  BY <1>1, <1>2, <1>3, ConcatSimplifications
<1>5. /\ f \in Frames /\ Fits(Len(f.payload)) /\ d[k] = Encode(f) \o d[k + 1]
      /\ d[k + 1] \in Seq(Bytes)
      /\ \A x \in Seq(Bytes) : x \o left = d[k + 1] => k \in 1..Len(sent) /\ f = sent[k]
  BY <1>4, NextFrame, Zenon
<1>6. Len(hdr) = HeaderLen /\ Len(Got) = Decode(hdr)
  <2>1. ReadPosition
    BY DEF CodecInv
  <2> QED
    BY <2>1, Zenon DEF ReadPosition, Needed
<1> HIDE DEF z, k, f
<1>7. [type |-> hdr[1], payload |-> Got] = f /\ z = d[k + 1]
  <2> DEFINE r == d[k + 1]
  <2>1. /\ f \in Frames /\ Fits(Len(f.payload)) /\ r \in Seq(Bytes)
        /\ hdr \in Seq(Bytes) /\ Got \in Seq(Bytes) /\ z \in Seq(Bytes)
        /\ hdr \o (Got \o z) = Encode(f) \o r
        /\ Len(hdr) = HeaderLen /\ Len(Got) = Decode(hdr)
    BY <1>1, <1>2, <1>3, <1>5, <1>6, Zenon
  <2> HIDE DEF r
  <2>2. hdr[1] = f.type /\ Got = f.payload /\ z = r
    BY <2>1, PayloadFound
  <2>3. f = [type |-> f.type, payload |-> f.payload]
    BY <2>1, FrameShape
  <2> QED
    BY <2>2, <2>3, Zenon DEF r
<1>8. k \in 1..Len(sent) /\ f = sent[k]
  BY <1>1, <1>5, <1>7 DEF z
<1>9. rcvd' = Append(rcvd, f) /\ end' = end
  BY <1>7, Zenon DEF Deliver
<1>10. Rest \o left = d[(Len(rcvd) + 1) + 1]
  BY <1>7 DEF z, k
<1>11. Aligned(d)' /\ ReadPosition'
  BY <1>1, <1>5, <1>9, <1>10, DeliveryAligns
<1> QED
  BY <1>8, <1>9, <1>11, Zenon DEF Delivers, k

LEMMA ReadOutcome ==
  ASSUME CodecInv, end = "reading", ReadBytes, UNCHANGED <<writer, reader, cap, writeVars, up>>
  PROVE  up # "reset" /\ \E d : Aligned(d) /\ (Waits(d) \/ Delivers(d) \/ Refuses)
<1>1. /\ pipe # <<>> /\ pipe' = Rest
      /\ \/ Len(Got) < Needed /\ buf' = Got /\ UNCHANGED <<hdr, alloc, rcvd, end>>
         \/ Len(Got) = Needed /\ hdr = <<>> /\ HeaderRead
         \/ /\ Len(Got) = Needed /\ hdr # <<>>
            /\ Deliver(hdr[1], Got) /\ hdr' = <<>> /\ buf' = <<>> /\ UNCHANGED alloc
  BY Zenon DEF ReadBytes, Rest
<1>2. InStep
  BY DEF CodecInv
<1>3. up # "reset"
  BY <1>1, <1>2, Zenon DEF InStep
<1>4. PICK d : Aligned(d)
  BY <1>2, <1>3, Zenon DEF InStep
<1>5. Waits(d) \/ Delivers(d) \/ Refuses
  BY <1>1, <1>4, ReadPartly, ReadHeader, ReadPayload, Zenon
<1> QED
  BY <1>3, <1>4, <1>5

\* The buffers of the reader, and the payload it allocates for.
LEMMA ReadBuffers ==
  ASSUME CodecInv, end = "reading", ReadBytes, UNCHANGED <<writer, reader, cap, writeVars, up>>
  PROVE  /\ pipe' \in Seq(Bytes) /\ hdr' \in Seq(Bytes) /\ buf' \in Seq(Bytes)
         /\ alloc' \in Nat /\ (alloc <= Limit)'
<1>1. /\ Got \in Seq(Bytes) /\ Rest \in Seq(Bytes) /\ <<>> \in Seq(Bytes)
  BY ReadTakes, Empty
<1>2. hdr \in Seq(Bytes) /\ buf \in Seq(Bytes) /\ alloc \in Nat /\ alloc <= Limit
  BY DEF CodecInv, CodecTypeOK
<1>3. Limit' = Limit /\ pipe' = Rest
  BY DEF Limit, ReadBytes, Rest
<1>4. CASE buf' = Got /\ UNCHANGED <<hdr, alloc, rcvd, end>>
  BY <1>1, <1>2, <1>3, <1>4
<1>5. CASE Len(Got) = Needed /\ hdr = <<>> /\ HeaderRead
  <2>1. Decode(Got) \in Nat
    <3>1. Len(Got) = HeaderLen
      BY <1>5 DEF Needed
    <3>2. \A i \in 1..LenDigits : i + 1 \in 1..HeaderLen
      BY HeaderLenIs, CodecAssumption
    <3>3. \A i \in 1..LenDigits : Got[i + 1] \in Bytes
      BY <1>1, <3>1, <3>2, ElementOfSeq, Zenon
    <3>4. \A i \in 1..LenDigits : Got[i + 1] \in Nat
      BY <3>3, CodecAssumption DEF Bytes
    <3> QED
      BY <3>4, DecodeType
  <2>2. /\ buf' = <<>> /\ (hdr' = hdr \/ hdr' = Got)
        /\ \/ alloc' = alloc
           \/ Decode(Got) <= Limit /\ alloc' = IF Decode(Got) > alloc THEN Decode(Got) ELSE alloc
    BY <1>5, Zenon DEF HeaderRead
  <2>3. alloc' \in Nat /\ alloc' <= Limit
    <3>1. CASE alloc' = alloc
      BY <1>2, <3>1
    <3>2. CASE Decode(Got) <= Limit /\ alloc' = Decode(Got)
      BY <2>1, <3>2
    <3> QED
      BY <2>2, <3>1, <3>2
  <2> QED
    BY <1>1, <1>2, <1>3, <2>2, <2>3, Zenon
<1>6. CASE hdr' = <<>> /\ buf' = <<>> /\ UNCHANGED alloc
  BY <1>1, <1>2, <1>3, <1>6
<1> QED
  BY <1>4, <1>5, <1>6 DEF ReadBytes

LEMMA StepReadBytes ==
  ASSUME CodecInv, end = "reading", ReadBytes, UNCHANGED <<writer, reader, cap, writeVars, up>>
  PROVE  CodecInv'
<1>1. PICK d : Waits(d) \/ Delivers(d) \/ Refuses
  BY ReadOutcome
<1>2. CodecTypeOK /\ RcvdIsPrefix /\ BegunFit /\ LeftOfCur
  BY DEF CodecInv
<1>3. sent' = sent /\ cur' = cur /\ left' = left /\ up' = up /\ reader' = reader /\ cap' = cap
  BY DEF writeVars
<1>4. Begun' = Begun /\ Limit' = Limit /\ up # "reset"
  BY <1>3, ReadOutcome DEF Begun, Limit
<1>5. rcvd' \in Seq(Frames) /\ RcvdIsPrefix'
  <2>1. rcvd \in Seq(Frames) /\ sent \in Seq(Frames)
    BY <1>2 DEF CodecTypeOK
  <2>2. CASE rcvd' = rcvd
    BY <1>2, <1>3, <2>1, <2>2, Zenon DEF RcvdIsPrefix
  <2>3. CASE Delivers(d)
    <3> DEFINE r == Len(rcvd)
               s == Len(sent)
               f == sent[r + 1]
    <3>1. r \in Nat /\ s \in Nat /\ r + 1 \in 1..s /\ rcvd' = Append(rcvd, f)
      BY <2>1, <2>3, LenProperties DEF Delivers
    <3>2. f \in Frames
      BY <2>1, <3>1, ElementOfSeq
    <3>3. /\ rcvd' \in Seq(Frames) /\ Len(rcvd') = r + 1 /\ rcvd'[r + 1] = f
          /\ \A i \in 1..r : rcvd'[i] = rcvd[i]
      BY <2>1, <3>1, <3>2, AppendProperties
    <3>4. \A i \in 1..r : rcvd[i] = sent[i]
      BY <1>2 DEF RcvdIsPrefix
    <3>5. r + 1 <= s /\ \A i \in 1..(r + 1) : i \in 1..r \/ i = r + 1
      <4> HIDE DEF r, s, f
      <4> QED
        BY <3>1
    <3> QED
      BY <1>3, <3>3, <3>4, <3>5, Zenon DEF RcvdIsPrefix
  <2> QED
    BY <1>1, <2>2, <2>3 DEF Waits, Refuses
<1>6. CodecTypeOK' /\ BegunFit' /\ LeftOfCur'
  <2>1. CodecTypeOK'
    BY <1>2, <1>3, <1>5, ReadBuffers DEF CodecTypeOK
  <2>2. BegunFit' /\ LeftOfCur'
    BY <1>2, <1>3, <1>4, Zenon DEF BegunFit, LeftOfCur
  <2> QED
    BY <2>1, <2>2
<1>7. \/ end' = "reading" /\ Aligned(d)' /\ ReadPosition'
      \/ end' = "err" /\ Len(Begun[Len(rcvd) + 1].payload) > Limit /\ rcvd' = rcvd
  BY <1>1, Zenon DEF Waits, Delivers, Refuses
<1>8. (end = "reading" => ReadPosition)' /\ InStep'
  BY <1>3, <1>4, <1>7 DEF InStep
<1>9. ErrJustified' /\ CutNoticed'
  <2>1. CutNoticed'
    BY <1>7 DEF CutNoticed
  <2>2. ErrJustified'
    BY <1>3, <1>4, <1>7 DEF ErrJustified, Begun
  <2> QED
    BY <2>1, <2>2
<1> QED
  BY <1>5, <1>6, <1>8, <1>9, ReadBuffers, Zenon DEF CodecInv

\* When nothing is on the transport any more: whatever the reader holds is of a
\* frame that is being written; and a reader between frames or inside a header
\* has read all that was sent, and holds what was written of the next one.
LEMMA AtEnd ==
  ASSUME CodecInv, end = "reading", pipe = <<>>, up # "reset"
  PROVE  /\ hdr # <<>> \/ buf # <<>> => cur # <<>>
         /\ hdr = <<>> =>
              /\ rcvd = sent /\ Len(buf) \in Nat /\ Len(buf) < HeaderLen
              /\ Len(cur) = 1 => Len(buf) + Len(left) = Len(Encode(cur[1]))
<1> DEFINE k == Len(rcvd) + 1
           f == Begun[k]
           B == Len(buf)
           L == Len(left)
<1>1. CodecTypeOK /\ RcvdIsPrefix /\ LeftOfCur /\ ReadPosition
  BY DEF CodecInv
<1>2. PICK d : Aligned(d)
  BY DEF CodecInv, InStep
<1>3. hdr \in Seq(Bytes) /\ buf \in Seq(Bytes) /\ left \in Seq(Bytes) /\ hdr \o buf \in Seq(Bytes)
  BY <1>1, Joining DEF CodecTypeOK
<1>4. (hdr \o buf) \o left = d[k] /\ B \in Nat /\ L \in Nat
  <2>1. pipe \o left = left
    BY <1>3, Empty
  <2> QED
    BY <1>2, <1>3, <2>1, Joining DEF Aligned
<1>5. ASSUME hdr # <<>> \/ buf # <<>>, cur = <<>>
      PROVE  FALSE
  <2> DEFINE r == d[k + 1]
  <2>1. left = <<>>
    <3>1. Len(<<>>) = 0 /\ 0 # 1
      BY Empty
    <3> QED
      BY <1>1, <1>5, <3>1, Zenon DEF LeftOfCur
  <2>2. hdr \o buf = d[k]
    BY <1>3, <1>4, <2>1, Empty
  <2>3. d[k] # <<>>
    BY <1>3, <1>5, <2>2, ConcatSimplifications
  <2>4. f \in Frames /\ Fits(Len(f.payload)) /\ d[k] = Encode(f) \o r /\ r \in Seq(Bytes)
    BY <1>2, <2>3, NextFrame, Zenon
  <2> HIDE DEF k, f, r
  <2>5. hdr \o buf = Encode(f) \o r
    BY <2>2, <2>4, Zenon
  <2>6. CASE hdr = <<>> /\ B < HeaderLen
    <3> DEFINE E == Len(Encode(f))
               R == Len(r)
    <3>1. buf = Encode(f) \o r
      BY <1>3, <2>5, <2>6, Empty
    <3>2. Encode(f) \in Seq(Bytes) /\ E \in Nat /\ E >= HeaderLen
      BY <2>4, EncodeShape, EncodeLength
    <3>3. B = E + R /\ R \in Nat
      BY <2>4, <3>1, <3>2, Joining
    <3> HIDE DEF B, E, R
    <3> QED
      BY <2>6, <3>2, <3>3, HeaderLenIs
  <2>7. CASE Len(hdr) = HeaderLen /\ B < Decode(hdr)
    <3> DEFINE P == Len(f.payload)
               R == Len(r)
    <3>1. Decode(hdr) = P /\ buf = f.payload \o r
      BY <1>3, <2>4, <2>5, <2>7, HeaderFound
    <3>2. f.payload \in Seq(Bytes) /\ P \in Nat
      BY <2>4, FrameShape
    <3>3. B = P + R /\ R \in Nat
      BY <2>4, <3>1, <3>2, Joining
    <3>4. B < P
      BY <2>7, <3>1
    <3> HIDE DEF B, P, R
    <3> QED
      BY <3>2, <3>3, <3>4
  <2> QED
    BY <1>1, <2>6, <2>7 DEF ReadPosition
<1>6. ASSUME hdr = <<>>
      PROVE  /\ rcvd = sent /\ B < HeaderLen
             /\ Len(cur) = 1 => B + L = Len(Encode(cur[1]))
  <2> DEFINE s == Len(sent)
             n == Len(Begun)
  <2>1. B < HeaderLen
    <3>1. Len(<<>>) = 0 /\ HeaderLen # 0
      BY Empty, HeaderLenIs, CodecAssumption
    <3> QED
      BY <1>1, <1>6, <3>1, Zenon DEF ReadPosition
  <2>2. buf \o left = d[k]
    BY <1>3, <1>4, <1>6, Empty
  <2>3. /\ Streams(d, Begun) /\ \A i \in 1..(s + 1) : L <= Len(d[i])
    BY <1>2 DEF Aligned
  <2>4. /\ Begun \in Seq(Frames) /\ n = s + Len(cur) /\ s \in Nat /\ Len(cur) \in Nat
        /\ Len(cur) = 1 => Begun[s + 1] = cur[1]
    BY <1>1, BegunShape
  <2>5. k \in Nat /\ 1 <= k /\ k <= s + 1
    <3> DEFINE r == Len(rcvd)
    <3>1. r \in Nat /\ r <= s /\ k = r + 1
      BY <1>1, LenProperties DEF CodecTypeOK, RcvdIsPrefix
    <3> HIDE DEF r, k, s
    <3> QED
      BY <2>4, <3>1
  <2>6. Len(d[k]) = B + L
    BY <1>3, <2>2, Joining
  <2>7. ASSUME k <= s
        PROVE  FALSE
    <3> DEFINE r == d[k + 1]
               E == Len(Encode(f))
               R == Len(r)
    <3>1. k \in 1..n /\ k + 1 \in 1..(n + 1) /\ k + 1 \in 1..(s + 1)
      <4> DEFINE c == Len(cur)
      <4>1. n = s + c /\ c \in Nat /\ s \in Nat
        BY <2>4
      <4> HIDE DEF n, s, c, k
      <4> QED
        BY <2>5, <2>7, <4>1
    <3>2. f \in Frames /\ r \in Seq(Bytes) /\ d[k] = Encode(f) \o r
      <4>1. f \in Frames
        BY <2>4, <3>1, ElementOfSeq
      <4> QED
        BY <2>3, <3>1, <4>1, Zenon DEF Streams
    <3>3. Encode(f) \in Seq(Bytes) /\ E \in Nat /\ E >= HeaderLen
      BY <3>2, EncodeShape, EncodeLength
    <3>4. Len(d[k]) = E + R /\ R \in Nat
      BY <3>2, <3>3, Joining
    <3>5. L <= R
      BY <2>3, <3>1
    <3>6. B + L = E + R
      BY <2>6, <3>4
    <3> HIDE DEF B, L, E, R
    <3> QED
      BY <1>4, <2>1, <3>3, <3>4, <3>5, <3>6, HeaderLenIs
  <2>8. k = s + 1
    <3> HIDE DEF k, s
    <3> QED
      BY <2>4, <2>5, <2>7
  <2>9. rcvd = sent
    <3>1. Len(rcvd) = Len(sent) /\ rcvd \in Seq(Frames) /\ sent \in Seq(Frames)
      <4> DEFINE r == Len(rcvd)
      <4>1. r \in Nat /\ r + 1 = s + 1 /\ rcvd \in Seq(Frames) /\ sent \in Seq(Frames)
        BY <1>1, <2>8, LenProperties DEF CodecTypeOK
      <4> HIDE DEF r, s
      <4>2. r = s
        BY <2>4, <4>1
      <4> QED
        BY <4>1, <4>2 DEF r, s
    <3>2. \A i \in 1..Len(rcvd) : rcvd[i] = sent[i]
      BY <1>1 DEF RcvdIsPrefix
    <3> QED
      BY <3>1, <3>2, SeqEqual
  <2>10. ASSUME Len(cur) = 1
         PROVE  B + L = Len(Encode(cur[1]))
    <3>1. n = k /\ k \in 1..n
      <4>1. n = s + 1
        BY <2>4, <2>10
      <4> HIDE DEF n, s, k
      <4> QED
        BY <2>4, <2>8, <4>1
    <3>2. f = cur[1] /\ f \in Frames
      <4>1. f \in Frames
        BY <2>4, <3>1, ElementOfSeq
      <4> QED
        BY <2>4, <2>8, <2>10, <4>1, Zenon
    <3>3. d[k] = Encode(f) \o <<>>
      BY <2>3, <3>1, Zenon DEF Streams
    <3>4. d[k] = Encode(f)
      BY <3>2, <3>3, EncodeShape, Empty
    <3> QED
      BY <2>6, <3>2, <3>4, Zenon
  <2> QED
    BY <2>1, <2>9, <2>10
<1> QED
  BY <1>4, <1>5, <1>6

LEMMA StepReadEnds ==
  ASSUME CodecInv, end = "reading", ReadEnds, UNCHANGED <<writer, reader, cap, writeVars, up>>
  PROVE  /\ CodecInv' /\ UNCHANGED <<sent, rcvd>>
         /\ end' = "err" \/ (end' = "none" /\ rcvd = sent)
<1>1. CodecTypeOK /\ RcvdIsPrefix /\ BegunFit /\ LeftOfCur /\ InStep /\ alloc <= Limit
  BY DEF CodecInv
<1>2. /\ sent' = sent /\ cur' = cur /\ left' = left /\ up' = up /\ reader' = reader /\ cap' = cap
      /\ hdr' = hdr /\ buf' = buf /\ alloc' = alloc /\ rcvd' = rcvd /\ pipe' = pipe
      /\ pipe = <<>> /\ up # "open"
  BY DEF ReadEnds, writeVars
<1>3. \/ up = "reset" /\ end' = "err"
      \/ up # "reset" /\ end' = "err" /\ (hdr # <<>> \/ buf # <<>>)
      \/ /\ up # "reset" /\ end' = "none" /\ hdr = <<>>
         /\ buf = <<>> \/ reader # "guest_cmd"
  BY DEF ReadEnds, EofResult
<1>4. up \in {"eof", "reset"}
  BY <1>1, <1>2 DEF CodecTypeOK
<1>5. /\ up # "reset" /\ (hdr # <<>> \/ buf # <<>>) => cur # <<>>
      /\ up # "reset" /\ hdr = <<>> =>
           /\ rcvd = sent /\ Len(buf) \in Nat /\ Len(buf) < HeaderLen
           /\ Len(cur) = 1 => Len(buf) + Len(left) = Len(Encode(cur[1]))
  BY <1>2, AtEnd, Zenon
<1>6. CodecTypeOK' /\ BegunFit' /\ LeftOfCur' /\ RcvdIsPrefix' /\ (alloc <= Limit)'
  <2>1. CodecTypeOK'
    BY <1>1, <1>2 DEF CodecTypeOK
  <2>2. Begun' = Begun /\ Limit' = Limit
    BY <1>2 DEF Begun, Limit
  <2> QED
    BY <1>1, <1>2, <2>1, <2>2, Zenon DEF BegunFit, LeftOfCur, RcvdIsPrefix
<1>7. end' # "reading"
  BY <1>3
<1>8. InStep'
  BY <1>1, <1>2, <1>7 DEF InStep
<1>9. ErrJustified'
  BY <1>2, <1>3, <1>4, <1>5 DEF ErrJustified
<1>10. CutNoticed'
  <2> SUFFICES ASSUME end' = "none", NEW i \in 1..Len(cur)
               PROVE  Len(Encode(cur[i])) - Len(left)
                        <= IF reader = "guest_cmd" THEN 0 ELSE LenDigits
    BY <1>2, Zenon DEF CutNoticed, Encode
  <2> DEFINE B == Len(buf)
             L == Len(left)
             E == Len(Encode(cur[1]))
  <2>1. up # "reset" /\ hdr = <<>> /\ (buf = <<>> \/ reader # "guest_cmd")
    BY <1>3
  <2>2. Len(cur) = 1 /\ i = 1
    <3>1. CASE cur = <<>>
      BY <3>1, Empty
    <3>2. CASE Len(cur) = 1
      BY <3>2
    <3> QED
      BY <1>1, <3>1, <3>2 DEF LeftOfCur
  <2>3. B \in Nat /\ B < HeaderLen /\ B + L = E
    BY <1>5, <2>1, <2>2, Zenon
  <2>4. L \in Nat
    BY <1>1, LenProperties DEF CodecTypeOK
  <2>5. buf = <<>> => B = 0
    BY Empty
  <2> HIDE DEF B, L, E
  <2>6. E - L <= LenDigits /\ (B = 0 => E - L <= 0)
    BY <2>3, <2>4, HeaderLenIs, CodecAssumption
  <2> QED
    BY <2>1, <2>2, <2>5, <2>6, Zenon DEF E, L
<1>11. end' = "err" \/ (end' = "none" /\ rcvd = sent)
  BY <1>3, <1>5
<1> QED
  BY <1>2, <1>6, <1>7, <1>8, <1>9, <1>10, <1>11, Zenon DEF CodecInv

LEMMA CodecStep == CodecInv /\ [Next]_vars => CodecInv'
<1> SUFFICES ASSUME CodecInv, [Next]_vars
             PROVE  CodecInv'
  OBVIOUS
<1>1. CASE Writer
  BY <1>1, StepWriteFrame, StepWriteByte, StepWriterEnds, Zenon DEF Writer
<1>2. CASE Reader
  BY <1>2, StepReadBytes, StepReadEnds, Zenon DEF Reader
<1>3. CASE UNCHANGED vars
  <2>1. /\ writer' = writer /\ reader' = reader /\ cap' = cap /\ sent' = sent /\ cur' = cur
        /\ left' = left /\ pipe' = pipe /\ up' = up /\ hdr' = hdr /\ buf' = buf
        /\ alloc' = alloc /\ rcvd' = rcvd /\ end' = end
    BY <1>3 DEF vars, writeVars, readVars
  <2> QED
    BY <2>1, Zenon
    DEF CodecInv, CodecTypeOK, BegunFit, LeftOfCur, RcvdIsPrefix, ReadPosition, InStep, Aligned,
        Begun, ErrJustified, CutNoticed, Limit
<1> QED
  BY <1>1, <1>2, <1>3 DEF Next, Done

LEMMA CodecInvariant == Spec => []CodecInv
BY CodecInit, CodecStep, PTL DEF Spec

-----------------------------------------------------------------------------
(* The theorems.                                                           *)

\* For every length a peer can announce and every value of
\* GUESTHOPPER_MAX_FRAME_LEN: read_frame allocates no more than its cap, which
\* is between its floor and the ceiling (clamp_inbound, the check of len).
THEOREM AllocIsBounded == Spec => []AllocBounded
<1>1. CodecInv => AllocBounded
  BY DEF CodecInv, CodecTypeOK, AllocBounded
<1> QED
  BY CodecInvariant, <1>1, PTL

\* read_frame fails only for a reset, a frame that was cut off or one that is
\* longer than the reader takes, for frames of any length that the writer
\* accepts and for any base and number of length digits.
THEOREM ErrIsJustified == Spec => []ErrJustified
<1>1. CodecInv => ErrJustified
  BY DEF CodecInv
<1> QED
  BY CodecInvariant, <1>1, PTL

\* No end of stream hides a frame that was cut off behind its header, nor, from
\* guest_cmd.py, one that was cut off at all (read_frame of the three ends).
THEOREM CutIsNoticed == Spec => []CutNoticed
<1>1. CodecInv => CutNoticed
  BY DEF CodecInv
<1> QED
  BY CodecInvariant, <1>1, PTL

\* Each step of the codec is a step of the channel or hidden from it.
LEMMA ChannelStep == CodecInv /\ [Next]_vars => [Channel!Next]_(Channel!vars)
<1> SUFFICES ASSUME CodecInv, [Next]_vars
             PROVE  Channel!Next \/ UNCHANGED <<sent, rcvd, end>>
  BY DEF Channel!vars
<1>1. ASSUME WriteFrame \/ WriterStops \/ TransportReset, UNCHANGED readVars
      PROVE  UNCHANGED <<sent, rcvd, end>>
  BY <1>1 DEF WriteFrame, WriterStops, TransportReset, writeVars, readVars
<1>2. ASSUME WriteByte, end = "reading", UNCHANGED <<writer, reader, cap, readVars>>
      PROVE  Channel!Write \/ UNCHANGED <<sent, rcvd, end>>
  <2>1. rcvd' = rcvd /\ end' = end
    BY <1>2 DEF readVars
  <2>2. CASE Len(left) = 1
    <3>1. sent' = sent \o cur /\ left # <<>>
      BY <1>2, <2>2 DEF WriteByte
    <3>2. sent \in Seq(Frames) /\ cur \in Seq(Frames) /\ Len(cur) = 1
      BY <3>1 DEF CodecInv, CodecTypeOK, LeftOfCur
    <3>3. cur[1] \in Frames /\ cur = <<cur[1]>>
      BY <3>2
    <3>4. sent' = Append(sent, cur[1])
      BY <3>1, <3>2, <3>3, AppendIsConcat
    <3> QED
      BY <2>1, <3>3, <3>4, Zenon DEF Channel!Write
  <2>3. CASE Len(left) # 1
    BY <1>2, <2>1, <2>3 DEF WriteByte
  <2> QED
    BY <2>2, <2>3
<1>3. ASSUME ReadBytes, end = "reading", UNCHANGED <<writer, reader, cap, writeVars, up>>
      PROVE  Channel!Read \/ Channel!Fail \/ UNCHANGED <<sent, rcvd, end>>
  <2>1. PICK d : Waits(d) \/ Delivers(d) \/ Refuses
    BY <1>3, ReadOutcome
  <2>2. sent' = sent
    BY <1>3 DEF writeVars
  <2>3. CASE Waits(d)
    BY <2>2, <2>3 DEF Waits
  <2>4. CASE Delivers(d)
    <3>1. Len(rcvd) < Len(sent)
      <4> DEFINE r == Len(rcvd)
                 s == Len(sent)
      <4>1. r \in Nat /\ s \in Nat /\ r + 1 \in 1..s
        BY <2>4, LenProperties DEF Delivers, CodecInv, CodecTypeOK
      <4> HIDE DEF r, s
      <4>2. r < s
        BY <4>1
      <4> QED
        BY <4>2 DEF r, s
    <3> QED
      BY <1>3, <2>2, <2>4, <3>1, Zenon DEF Delivers, Channel!Read
  <2>5. CASE Refuses
    BY <1>3, <2>2, <2>5, Zenon DEF Refuses, Channel!Fail
  <2> QED
    BY <2>1, <2>3, <2>4, <2>5
<1>4. ASSUME ReadEnds, end = "reading", UNCHANGED <<writer, reader, cap, writeVars, up>>
      PROVE  Channel!Finish \/ Channel!Fail
  <2>1. /\ sent' = sent /\ rcvd' = rcvd
        /\ end' = "err" \/ (end' = "none" /\ rcvd = sent)
    BY <1>4, StepReadEnds
  <2> QED
    BY <1>4, <2>1, Zenon DEF Channel!Finish, Channel!Fail
<1>5. CASE UNCHANGED vars
  BY <1>5 DEF vars, writeVars, readVars
<1> QED
  BY <1>1, <1>2, <1>3, <1>4, <1>5, Zenon DEF Next, Writer, Reader, Done, Channel!Next

\* The safety part of ImplementsFrameChannel, for every base, number of length
\* digits, cap and set of frames: any of the writers and any of the readers
\* together deliver the frames that were written completely, in order, once
\* and unchanged, and report the end of the stream only behind the last.
THEOREM CodecIsAChannel == Spec => Channel!Safety
<1>1. Init => Channel!Init
  BY DEF Init, Channel!Init
<1> QED
  BY CodecInvariant, ChannelStep, <1>1, PTL DEF Spec, Channel!Safety
=============================================================================
