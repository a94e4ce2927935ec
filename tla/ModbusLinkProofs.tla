-------------------------- MODULE ModbusLinkProofs --------------------------
(***************************************************************************)
(* What the links carry and what the client makes of it, for every request *)
(* and every answer: the CRC of an RTU frame, with the table it goes by;   *)
(* frames and headers that come apart as they were put together; requests  *)
(* the server understands; answers whole, damaged, with two zero bytes too *)
(* many, or cut off. Induction goes by the least element of a set of       *)
(* naturals (the lemma Upwards).                                           *)
(***************************************************************************)
EXTENDS ModbusLink, ModbusPduProofs

(* Exclusive or.                                                           *)

LEMMA UpTo == ASSUME NEW n \in Nat, NEW a \in Int, 0 <= a, a <= n PROVE a \in 0..n
OBVIOUS

LEMMA WordRange == ASSUME NEW a \in Int, 0 <= a, a <= 65535 PROVE a \in Word
<1> DEFINE n == 65535
<1>1. n \in Nat /\ a <= n /\ Word = 0..n
  BY DEF Word
<1> HIDE DEF n
<1>2. a \in 0..n
  BY <1>1, UpTo
<1> QED
  BY <1>1, <1>2

LEMMA WordBounds == ASSUME NEW a \in Word PROVE a \in Int /\ 0 <= a /\ a <= 65535
BY DEF Word

LEMMA ZeroWord == 0 \in Word
BY DEF Word

Nibble == 0..15
LocalBits(a) == a = ((a \div 1) % 2) + 2 * ((a \div 2) % 2) + 4 * ((a \div 4) % 2) + 8 * ((a \div 8) % 2)

(* Exclusive or of nibbles is undone by itself and loses nothing.          *)
LEMMA NibbleXor ==
  ASSUME NEW a \in Nibble, NEW b \in Nibble
  PROVE  /\ XorNibbles[a][b] \in Nibble
         /\ XorNibbles[a][a] = 0
         /\ XorNibbles[a][0] = a
         /\ XorNibbles[a][b] = XorNibbles[b][a]
         /\ \A c \in Nibble : XorNibbles[a][b] = XorNibbles[c][b] => a = c
<1> DEFINE bit(x, y, k) == (x \div k + y \div k) % 2
<1>1. ASSUME NEW x \in Nibble, NEW y \in Nibble
      PROVE  XorNibbles[x][y] = bit(x, y, 1) + 2 * bit(x, y, 2) + 4 * bit(x, y, 4) + 8 * bit(x, y, 8)
  BY DEF XorNibbles, Nibble
<1>2. ASSUME NEW x \in Nibble, NEW y \in Nibble, NEW k \in {1, 2, 4, 8}
      PROVE  bit(x, y, k) \in {0, 1} /\ bit(x, y, k) = bit(y, x, k) /\ bit(x, x, k) = 0
             /\ bit(x, 0, k) = (x \div k) % 2
  <2>1. x \div k \in Nat /\ y \div k \in Nat /\ 0 \div k = 0
    BY DEF Nibble
  <2> QED
    BY <2>1
<1>3. \A x \in Nibble : LocalBits(x)
  BY DEF Nibble, LocalBits
<1>4. 0 \in Nibble
  BY DEF Nibble
<1>5. ASSUME NEW c \in Nibble, XorNibbles[a][b] = XorNibbles[c][b] PROVE a = c
  <2>1. \A k \in {1, 2, 4, 8} : bit(a, b, k) = bit(c, b, k)
    <3> DEFINE p == bit(a, b, 1) q == bit(a, b, 2) r == bit(a, b, 4) s == bit(a, b, 8)
               t == bit(c, b, 1) u == bit(c, b, 2) v == bit(c, b, 4) w == bit(c, b, 8)
    <3>1. /\ p \in {0, 1} /\ q \in {0, 1} /\ r \in {0, 1} /\ s \in {0, 1}
          /\ t \in {0, 1} /\ u \in {0, 1} /\ v \in {0, 1} /\ w \in {0, 1}
      <4> HIDE DEF bit
      <4> QED
        BY <1>2
    <3>2. p + 2 * q + 4 * r + 8 * s = t + 2 * u + 4 * v + 8 * w
      BY <1>1, <1>5
    <3> HIDE DEF p, q, r, s, t, u, v, w
    <3>3. p = t /\ q = u /\ r = v /\ s = w
      BY <3>1, <3>2
    <3> QED
      BY <3>3 DEF p, q, r, s, t, u, v, w
  <2>2. \A k \in {1, 2, 4, 8} : (a \div k) % 2 = (c \div k) % 2
    <3> TAKE k \in {1, 2, 4, 8}
    <3> DEFINE x == a \div k y == b \div k z == c \div k
    <3>1. x \in Nat /\ y \in Nat /\ z \in Nat /\ (x + y) % 2 = (z + y) % 2
      BY <2>1 DEF Nibble
    <3> HIDE DEF x, y, z
    <3>2. x % 2 = z % 2
      BY <3>1
    <3> QED
      BY <3>2 DEF x, z
  <2> QED
    BY <1>3, <2>2 DEF LocalBits
<1>6. XorNibbles[a][b] \in Nibble /\ XorNibbles[a][b] = XorNibbles[b][a]
  <2> HIDE DEF bit
  <2> QED
    BY <1>1, <1>2 DEF Nibble
<1>7. XorNibbles[a][a] = 0 /\ XorNibbles[a][0] = a
  <2>1. XorNibbles[a][a] = 0
    <3> HIDE DEF bit
    <3> QED
      BY <1>1, <1>2
  <2>2. XorNibbles[a][0] = a
    <3> HIDE DEF bit
    <3> QED
      BY <1>1, <1>2, <1>3, <1>4 DEF LocalBits
  <2> QED
    BY <2>1, <2>2
<1> QED
  BY <1>5, <1>6, <1>7

WordOf(p, q, r, s) == p + 16 * q + 256 * r + 4096 * s

LEMMA NibblesWord ==
  ASSUME NEW p \in Nibble, NEW q \in Nibble, NEW r \in Nibble, NEW s \in Nibble
  PROVE  /\ WordOf(p, q, r, s) \in Word
         /\ (WordOf(p, q, r, s) \div 1) % 16 = p 
         /\ (WordOf(p, q, r, s) \div 16) % 16 = q
         /\ (WordOf(p, q, r, s) \div 256) % 16 = r 
         /\ (WordOf(p, q, r, s) \div 4096) % 16 = s
<1> DEFINE a == WordOf(p, q, r, s)
<1>1. /\ p \in Int /\ 0 <= p /\ p <= 15 /\ q \in Int /\ 0 <= q /\ q <= 15
      /\ r \in Int /\ 0 <= r /\ r <= 15 /\ s \in Int /\ 0 <= s /\ s <= 15
  BY DEF Nibble
<1>2. a = p + 16 * q + 256 * r + 4096 * s
  BY DEF WordOf
<1> HIDE DEF a
<1>3. a \in Int /\ 0 <= a /\ a <= 65535
  BY <1>1, <1>2
<1>4. a \in Word
  BY <1>3, WordRange
<1>5. (a \div 1) % 16 = p
  BY <1>1, <1>2
<1>6. (a \div 16) % 16 = q
  <2>1. a \div 16 = q + 16 * r + 256 * s
    BY <1>1, <1>2
  <2> QED
    BY <1>1, <2>1
<1>7. (a \div 256) % 16 = r
  <2>1. a \div 256 = r + 16 * s
    BY <1>1, <1>2
  <2> QED
    BY <1>1, <2>1
<1>8. (a \div 4096) % 16 = s
  <2>1. a \div 4096 = s
    BY <1>1, <1>2
  <2> QED
    BY <1>1, <2>1
<1> QED
  BY <1>4, <1>5, <1>6, <1>7, <1>8 DEF a

LEMMA WordNibbles ==
  ASSUME NEW a \in Word
  PROVE  /\ (a \div 1) % 16 \in Nibble /\ (a \div 16) % 16 \in Nibble
         /\ (a \div 256) % 16 \in Nibble /\ (a \div 4096) % 16 \in Nibble
         /\ a = WordOf((a \div 1) % 16, (a \div 16) % 16, (a \div 256) % 16, (a \div 4096) % 16)
<1>1. a \in Int /\ 0 <= a /\ a <= 65535
  BY WordBounds
<1> DEFINE b == a \div 16
           c == a \div 256
           d == a \div 4096
<1>2. b \in Int /\ a = 16 * b + (a % 16) /\ a % 16 \in 0..15 /\ b >= 0 /\ b <= 4095
  BY <1>1
<1>3. c \in Int /\ b = 16 * c + (b % 16) /\ b % 16 \in 0..15 /\ c >= 0 /\ c <= 255
  BY <1>1
<1>4. d \in Int /\ c = 16 * d + (c % 16) /\ c % 16 \in 0..15 /\ d >= 0 /\ d <= 15
  BY <1>1
<1>5. a \div 1 = a
  BY <1>1
<1> HIDE DEF b, c, d
<1>6. d % 16 = d /\ d \in 0..15
  BY <1>4
<1>7. a = (a % 16) + 16 * (b % 16) + 256 * (c % 16) + 4096 * (d % 16)
  BY <1>1, <1>2, <1>3, <1>4, <1>6
<1>8. /\ a % 16 \in Nibble /\ b % 16 \in Nibble /\ c % 16 \in Nibble /\ d % 16 \in Nibble
  BY <1>2, <1>3, <1>4, <1>6 DEF Nibble
<1>9. a = WordOf(a % 16, b % 16, c % 16, d % 16)
  BY <1>7 DEF WordOf
<1> QED
  BY <1>5, <1>8, <1>9 DEF b, c, d

(* The same of words.                                                      *)
LEMMA XorWord ==
  ASSUME NEW a \in Word, NEW b \in Word
  PROVE  /\ Xor16(a, b) \in Word
         /\ \A k \in {1, 16, 256, 4096} :
              (Xor16(a, b) \div k) % 16 = XorNibbles[(a \div k) % 16][(b \div k) % 16]
         /\ Xor16(a, b) = Xor16(b, a)
         /\ Xor16(a, a) = 0
         /\ Xor16(a, 0) = a
         /\ \A c \in Word : Xor16(a, b) = Xor16(c, b) => a = c
<1> DEFINE x(u, v, k) == XorNibbles[(u \div k) % 16][(v \div k) % 16]
<1>0. 0 \in Word
  BY ZeroWord
<1>1. \A u, v : Xor16(u, v) = 1 * x(u, v, 1) + 16 * x(u, v, 16) + 256 * x(u, v, 256) + 4096 * x(u, v, 4096)
  BY DEF Xor16
<1>2. \A u \in Word, k \in {1, 16, 256, 4096} : (u \div k) % 16 \in Nibble
  BY WordNibbles
<1>3. ASSUME NEW u \in Word, NEW v \in Word, NEW k \in {1, 16, 256, 4096}
      PROVE  /\ x(u, v, k) \in Nibble /\ x(u, v, k) = x(v, u, k) /\ x(u, u, k) = 0
             /\ x(u, 0, k) = (u \div k) % 16
             /\ \A w \in Word : x(u, v, k) = x(w, v, k) => (u \div k) % 16 = (w \div k) % 16
  <2>1. (0 \div k) % 16 = 0
    OBVIOUS
  <2>2. (u \div k) % 16 \in Nibble /\ (v \div k) % 16 \in Nibble
        /\ \A w \in Word : (w \div k) % 16 \in Nibble
    BY <1>2
  <2> QED
    BY <2>1, <2>2, NibbleXor
<1>4. ASSUME NEW u \in Word, NEW v \in Word
      PROVE  /\ Xor16(u, v) = WordOf(x(u, v, 1), x(u, v, 16), x(u, v, 256), x(u, v, 4096))
             /\ Xor16(u, v) \in Word
             /\ \A k \in {1, 16, 256, 4096} : (Xor16(u, v) \div k) % 16 = x(u, v, k)
  <2> DEFINE p == x(u, v, 1) q == x(u, v, 16) r == x(u, v, 256) s == x(u, v, 4096)
  <2>1. p \in Nibble /\ q \in Nibble /\ r \in Nibble /\ s \in Nibble
    <3> HIDE DEF x
    <3> QED
      BY <1>3
  <2>2. Xor16(u, v) = 1 * p + 16 * q + 256 * r + 4096 * s
    BY <1>1
  <2> HIDE DEF p, q, r, s
  <2>3. Xor16(u, v) = WordOf(p, q, r, s)
    BY <2>1, <2>2 DEF WordOf, Nibble
  <2>4. Xor16(u, v) \in Word /\ (Xor16(u, v) \div 1) % 16 = p /\ (Xor16(u, v) \div 16) % 16 = q
        /\ (Xor16(u, v) \div 256) % 16 = r /\ (Xor16(u, v) \div 4096) % 16 = s
    BY <2>1, <2>3, NibblesWord
  <2>5. x(u, v, 1) = p /\ x(u, v, 16) = q /\ x(u, v, 256) = r /\ x(u, v, 4096) = s
    BY DEF p, q, r, s
  <2> HIDE DEF x
  <2>6. Xor16(u, v) = WordOf(x(u, v, 1), x(u, v, 16), x(u, v, 256), x(u, v, 4096))
    BY <2>3, <2>5
  <2>7. ASSUME NEW k \in {1, 16, 256, 4096}
        PROVE  (Xor16(u, v) \div k) % 16 = x(u, v, k)
    <3>1. k = 1 \/ k = 16 \/ k = 256 \/ k = 4096
      OBVIOUS
    <3>2. CASE k = 1
      BY <2>4, <2>5, <3>2
    <3>3. CASE k = 16
      BY <2>4, <2>5, <3>3
    <3>4. CASE k = 256
      BY <2>4, <2>5, <3>4
    <3>5. CASE k = 4096
      BY <2>4, <2>5, <3>5
    <3> QED
      BY <3>1, <3>2, <3>3, <3>4, <3>5
  <2> QED
    BY <2>4, <2>6, <2>7
<1>5. Xor16(a, b) = Xor16(b, a)
  <2> HIDE DEF x
  <2> QED
    BY <1>1, <1>3
<1>6. Xor16(a, a) = 0
  <2> HIDE DEF x
  <2> QED
    BY <1>1, <1>3
<1>7. Xor16(a, 0) = a
  <2>1. \A k \in {1, 16, 256, 4096} : x(a, 0, k) = (a \div k) % 16
    BY <1>0, <1>3
  <2>2. Xor16(a, 0) = WordOf(x(a, 0, 1), x(a, 0, 16), x(a, 0, 256), x(a, 0, 4096))
    BY <1>0, <1>4
  <2> HIDE DEF x
  <2>3. Xor16(a, 0) = WordOf((a \div 1) % 16, (a \div 16) % 16, (a \div 256) % 16, (a \div 4096) % 16)
    BY <2>1, <2>2
  <2> QED
    BY <2>3, WordNibbles
<1>8. ASSUME NEW c \in Word, Xor16(a, b) = Xor16(c, b) PROVE a = c
  <2>1. \A k \in {1, 16, 256, 4096} : x(a, b, k) = x(c, b, k)
    <3> HIDE DEF x
    <3> QED
      BY <1>4, <1>8
  <2>2. \A k \in {1, 16, 256, 4096} : (a \div k) % 16 = (c \div k) % 16
    BY <1>3, <2>1
  <2>3. /\ a = WordOf((a \div 1) % 16, (a \div 16) % 16, (a \div 256) % 16, (a \div 4096) % 16)
        /\ c = WordOf((c \div 1) % 16, (c \div 16) % 16, (c \div 256) % 16, (c \div 4096) % 16)
    BY WordNibbles
  <2> QED
    BY <2>2, <2>3
<1> QED
  BY <1>4, <1>5, <1>6, <1>7, <1>8

----------------------------------------------------------------------------
(* The table.                                                              *)

LEMMA SmallNibbles == \A n \in {0, 1, 10} : n \in Nibble
BY DEF Nibble

LEMMA HighByteOfWord ==
  ASSUME NEW p \in Nibble, NEW q \in Nibble, NEW r \in Nibble, NEW s \in Nibble
  PROVE  WordOf(p, q, r, s) \div 256 = r + 16 * s
<1>1. p + 16 * q + 256 * r + 4096 * s = 256 * (r + 16 * s) + (p + 16 * q)
      /\ p + 16 * q \in Int /\ p + 16 * q >= 0 /\ p + 16 * q < 256 /\ r + 16 * s \in Int
  BY DEF Nibble
<1> DEFINE u == r + 16 * s v == p + 16 * q
<1>2. (256 * u + v) \div 256 = u
  <2>1. u \in Int /\ v \in Int /\ v >= 0 /\ v < 256
    BY <1>1
  <2> HIDE DEF u, v
  <2> QED
    BY <2>1
<1> QED
  BY <1>1, <1>2 DEF WordOf

LEMMA LowHalf ==
  ASSUME NEW p \in Nibble, NEW q \in Nibble, NEW r \in Nibble, NEW s \in Nibble,
         WordOf(p, q, r, s) <= 32767
  PROVE  s \in 0..7 /\ WordOf(p, q, r, s) \div 8192 = s \div 2
<1>1. s \in 0..7
  BY DEF WordOf, Nibble
<1>2. PICK h \in 0..3, t \in {0, 1} : s = 2 * h + t
  BY <1>1
<1> DEFINE v == p + 16 * q + 256 * r + 4096 * t
<1>3. v \in Int /\ v >= 0 /\ v < 8192 /\ WordOf(p, q, r, s) = 8192 * h + v
  BY <1>2 DEF WordOf, Nibble
<1> HIDE DEF v
<1>4. (8192 * h + v) \div 8192 = h
  BY <1>3
<1>5. s \div 2 = h
  BY <1>2
<1> QED
  BY <1>1, <1>3, <1>4, <1>5

LEMMA TopNibble ==
  ASSUME NEW s \in 0..7
  PROVE  XorNibbles[s][10] = (IF (s \div 2) % 2 = 0 THEN s + 10 ELSE s + 6)
BY DEF XorNibbles

LEMMA NibblesOf ==
  ASSUME NEW a \in Word
  PROVE  \E p \in Nibble, q \in Nibble, r \in Nibble, s \in Nibble : a = WordOf(p, q, r, s)
<1> DEFINE p == (a \div 1) % 16
           q == (a \div 16) % 16
           r == (a \div 256) % 16
           s == (a \div 4096) % 16
<1>1. /\ p \in Nibble /\ q \in Nibble /\ r \in Nibble /\ s \in Nibble /\ a = WordOf(p, q, r, s)
  BY WordNibbles
<1> HIDE DEF p, q, r, s
<1> QED
  BY <1>1

LEMMA PolynomialNibbles ==
  /\ (Polynomial \div 1) % 16 = 1 /\ (Polynomial \div 16) % 16 = 0
  /\ (Polynomial \div 256) % 16 = 0 /\ (Polynomial \div 4096) % 16 = 10
BY DEF Polynomial

LEMMA PolynomialXor ==
  ASSUME NEW p \in Nibble, NEW q \in Nibble, NEW r \in Nibble, NEW s \in Nibble
  PROVE  Xor16(WordOf(p, q, r, s), Polynomial)
           = WordOf(XorNibbles[p][1], q, r, XorNibbles[s][10])
<1> DEFINE a == WordOf(p, q, r, s)
           b == Polynomial
           x(k) == XorNibbles[(a \div k) % 16][(b \div k) % 16]
<1>1. Xor16(a, b) = 1 * x(1) + 16 * x(16) + 256 * x(256) + 4096 * x(4096)
  BY DEF Xor16
<1>2. /\ (a \div 1) % 16 = p /\ (a \div 16) % 16 = q /\ (a \div 256) % 16 = r /\ (a \div 4096) % 16 = s
  BY NibblesWord
<1>3. /\ (b \div 1) % 16 = 1 /\ (b \div 16) % 16 = 0 /\ (b \div 256) % 16 = 0 /\ (b \div 4096) % 16 = 10
  BY PolynomialNibbles
<1> HIDE DEF a, b
<1>4. /\ x(1) = XorNibbles[p][1] /\ x(16) = XorNibbles[q][0]
      /\ x(256) = XorNibbles[r][0] /\ x(4096) = XorNibbles[s][10]
  BY <1>2, <1>3
<1>5. XorNibbles[q][0] = q /\ XorNibbles[r][0] = r /\ XorNibbles[p][1] \in Nibble
  BY SmallNibbles, NibbleXor
<1> HIDE DEF x
<1>6. 1 * XorNibbles[p][1] = XorNibbles[p][1]
  BY <1>5 DEF Nibble
<1>7. Xor16(a, b) = WordOf(XorNibbles[p][1], q, r, XorNibbles[s][10])
  BY <1>1, <1>4, <1>5, <1>6 DEF WordOf
<1> QED
  BY <1>7 DEF a, b

Half == {x \in Int : 0 <= x /\ x <= 32767}
(* The polynomial in a register whose highest bit is clear: the highest    *)
(* bit is set, bits 13 and 0 flip.                                         *)
HighXored(x) == IF (x \div 8192) % 2 = 0 THEN x \div 256 + 160 ELSE x \div 256 + 96

LEMMA HalfRange == ASSUME NEW x \in Int, 0 <= x, x <= 32767 PROVE x \in Half
BY DEF Half

LEMMA HalfWord == ASSUME NEW x \in Half PROVE x \in Word /\ x \in Int /\ 0 <= x /\ x <= 32767
<1>1. x \in Int /\ 0 <= x /\ x <= 32767
  BY DEF Half
<1>2. x <= 65535
  BY <1>1
<1> QED
  BY <1>1, <1>2, WordRange

LEMMA PolyXor ==
  ASSUME NEW x \in Half
  PROVE  /\ Xor16(x, Polynomial) \in Word
         /\ Xor16(x, Polynomial) \div 256 = HighXored(x)
<1>1. x \in Word
  BY HalfWord
<1>2. PICK p \in Nibble, q \in Nibble, r \in Nibble, s \in Nibble : x = WordOf(p, q, r, s)
  BY <1>1, NibblesOf
<1>3. Xor16(x, Polynomial) = WordOf(XorNibbles[p][1], q, r, XorNibbles[s][10])
  BY <1>2, PolynomialXor
<1>4. XorNibbles[p][1] \in Nibble /\ XorNibbles[s][10] \in Nibble
  BY NibbleXor, SmallNibbles
<1>5. Xor16(x, Polynomial) \in Word
  BY <1>3, <1>4, NibblesWord
<1>6. Xor16(x, Polynomial) \div 256 = r + 16 * XorNibbles[s][10] /\ x \div 256 = r + 16 * s
  BY <1>2, <1>3, <1>4, HighByteOfWord
<1>7. s \in 0..7 /\ x \div 8192 = s \div 2
  <2>1. x <= 32767
    BY HalfWord
  <2> QED
    BY <1>2, <2>1, LowHalf
<1>8. r \in Int
  BY DEF Nibble
<1>9. 16 * (s + 10) = 16 * s + 160 /\ 16 * (s + 6) = 16 * s + 96
  BY <1>7
<1>10. CASE (s \div 2) % 2 = 0
  <2>1. XorNibbles[s][10] = s + 10
    BY <1>7, <1>10, TopNibble
  <2> QED
    BY <1>5, <1>6, <1>7, <1>8, <1>9, <1>10, <2>1 DEF HighXored
<1>11. CASE (s \div 2) % 2 # 0
  <2>1. XorNibbles[s][10] = s + 6
    BY <1>7, <1>11, TopNibble
  <2> QED
    BY <1>5, <1>6, <1>7, <1>8, <1>9, <1>11, <2>1 DEF HighXored
<1> QED
  BY <1>10, <1>11

(* One round on the remainder, and what it does to its high byte.          *)
Shifted(crc, flag) == IF flag = 1 THEN Xor16(crc \div 2, Polynomial) ELSE crc \div 2
ShiftedHigh(h, flag) ==
  IF flag = 0 THEN h \div 2
  ELSE IF (h \div 64) % 2 = 0 THEN h \div 2 + 160 ELSE h \div 2 + 96

LEMMA HalfHigh ==
  ASSUME NEW a \in Int, 0 <= a, a <= 65535
  PROVE  /\ a \div 2 \in Int /\ 0 <= a \div 2 /\ a \div 2 <= 32767
         /\ (a \div 2) \div 256 = (a \div 256) \div 2
         /\ (a \div 2) \div 8192 = (a \div 256) \div 64
<1>1. PICK q \in Int, r \in Int : a = 16384 * q + r /\ r >= 0 /\ r < 16384
  BY a = 16384 * (a \div 16384) + (a % 16384)
<1>2. PICK s \in Int, t \in Int : r = 512 * s + t /\ t >= 0 /\ t < 512 /\ s >= 0 /\ s < 32
  BY <1>1, r = 512 * (r \div 512) + (r % 512)
<1>3. PICK u \in Int, v \in Int : t = 2 * u + v /\ v >= 0 /\ v < 2 /\ u >= 0 /\ u < 256
  BY <1>2, t = 2 * (t \div 2) + (t % 2)
<1>4. a \div 2 = 8192 * q + 256 * s + u
  BY <1>1, <1>2, <1>3
<1>5. (8192 * q + 256 * s + u) \div 256 = 32 * q + s
  BY <1>1, <1>2, <1>3
<1>6. (8192 * q + 256 * s + u) \div 8192 = q
  BY <1>1, <1>2, <1>3
<1>7. a \div 256 = 64 * q + 2 * s + (t \div 256) /\ t \div 256 \in {0, 1}
  BY <1>1, <1>2
<1>8. (a \div 256) \div 2 = 32 * q + s /\ (a \div 256) \div 64 = q
  BY <1>1, <1>2, <1>7
<1>9. 0 <= a \div 2 /\ a \div 2 <= 32767
  OBVIOUS
<1> QED
  BY <1>4, <1>5, <1>6, <1>8, <1>9

LEMMA HalfOf ==
  ASSUME NEW a \in Word
  PROVE  a \div 2 \in Half /\ a \div 2 \in Word
<1> DEFINE b == a \div 2
<1>1. a \in Int /\ 0 <= a /\ a <= 65535
  BY WordBounds
<1>2. b \in Int /\ 0 <= b /\ b <= 32767
  BY <1>1
<1> HIDE DEF b
<1>3. b \in Half
  BY <1>2, HalfRange
<1>4. b \in Word
  BY <1>3, HalfWord
<1> QED
  BY <1>3, <1>4 DEF b

LEMMA ShiftedHighByte ==
  ASSUME NEW a \in Word, NEW flag \in {0, 1}
  PROVE  Shifted(a, flag) \in Word /\ Shifted(a, flag) \div 256 = ShiftedHigh(a \div 256, flag)
<1> DEFINE b == a \div 2
           h == a \div 256
<1>1. b \in Half /\ b \in Word
  BY HalfOf
<1>2. b \div 256 = h \div 2 /\ b \div 8192 = h \div 64
  <2>1. a \in Int /\ 0 <= a /\ a <= 65535
    BY WordBounds
  <2> QED
    BY <2>1, HalfHigh
<1>3. Shifted(a, flag) = IF flag = 1 THEN Xor16(b, Polynomial) ELSE b
  BY DEF Shifted
<1> HIDE DEF b, h
<1>4. Xor16(b, Polynomial) \in Word /\ Xor16(b, Polynomial) \div 256 = HighXored(b)
  BY <1>1, PolyXor
<1>7. ShiftedHigh(h, flag) = IF flag = 0 THEN b \div 256 ELSE HighXored(b)
  BY <1>2 DEF ShiftedHigh, HighXored
<1>8. CASE flag = 0
  BY <1>1, <1>3, <1>7, <1>8 DEF h
<1>9. CASE flag = 1
  BY <1>4, <1>3, <1>7, <1>9 DEF h
<1> QED
  BY <1>8, <1>9

(* The bits of the high byte that a round leaves say which of its two      *)
(* branches it took and what they were before.                             *)
LEMMA HighByteBits ==
  ASSUME NEW h \in Byte
  PROVE  \E a \in {0, 1}, b \in {0, 1}, c \in 0..63 :
           /\ h = 128 * a + 64 * b + c
           /\ ShiftedHigh(h, 0) = 64 * a + 32 * b + (c \div 2)
           /\ ShiftedHigh(h, 1) = 128 + 64 * a + 32 * (1 - b) + (c \div 2)
<1>1. PICK a \in {0, 1}, b \in {0, 1}, c \in 0..63 : h = 128 * a + 64 * b + c
  <2>1. PICK a \in {0, 1}, r \in 0..127 : h = 128 * a + r
    BY DEF Byte
  <2>2. PICK b \in {0, 1}, c \in 0..63 : r = 64 * b + c
    BY <2>1
  <2> QED
    BY <2>1, <2>2
<1>2. h \div 2 = 64 * a + 32 * b + (c \div 2)
  BY <1>1
<1>3. (h \div 64) % 2 = b
  <2>1. h \div 64 = 2 * a + b
    BY <1>1
  <2> QED
    BY <2>1
<1>4. ShiftedHigh(h, 1) = 128 + 64 * a + 32 * (1 - b) + (c \div 2)
  BY <1>2, <1>3 DEF ShiftedHigh
<1> QED
  BY <1>1, <1>2, <1>4 DEF ShiftedHigh

Powers == {1, 2, 4, 8, 16, 32, 64, 128}

LEMMA HalfThenDiv ==
  ASSUME NEW h \in Byte, NEW p \in Powers
  PROVE  (h \div 2) \div p = h \div (2 * p)
<1>1. h \in Int /\ 0 <= h /\ h <= 255
  BY DEF Byte
<1>2. CASE p = 1
  BY <1>1, <1>2
<1>3. CASE p = 2
  BY <1>1, <1>3
<1>4. CASE p = 4
  BY <1>1, <1>4
<1>5. CASE p = 8
  BY <1>1, <1>5
<1>6. CASE p = 16
  BY <1>1, <1>6
<1>7. CASE p = 32
  BY <1>1, <1>7
<1>8. CASE p = 64
  BY <1>1, <1>8
<1>9. CASE p = 128
  BY <1>1, <1>9
<1> QED
  BY <1>2, <1>3, <1>4, <1>5, <1>6, <1>7, <1>8, <1>9 DEF Powers

Lows == 0..127
Highs == 128..255

LEMMA LowHighApart ==
  ASSUME NEW x \in Lows, NEW y \in Highs, NEW p \in Powers
  PROVE  x \div p # y \div p
BY DEF Powers, Lows, Highs

LEMMA HighBytesRange ==
  ASSUME NEW a \in {0, 1}, NEW b \in {0, 1}, NEW c \in 0..63
  PROVE  /\ 64 * a + 32 * b + (c \div 2) \in Lows
         /\ 128 + 64 * a + 32 * (1 - b) + (c \div 2) \in Highs
<1>1. c \div 2 \in 0..31
  OBVIOUS
<1> QED
  BY <1>1 DEF Lows, Highs

(* A round can be undone from the high byte it leaves.                     *)
LEMMA RoundBack ==
  ASSUME NEW h \in Byte, NEW k \in Byte, NEW f \in {0, 1}, NEW g \in {0, 1},
         NEW p \in Powers,
         ShiftedHigh(h, f) \div p = ShiftedHigh(k, g) \div p
  PROVE  f = g /\ h \div (2 * p) = k \div (2 * p)
<1>1. PICK a \in {0, 1}, b \in {0, 1}, c \in 0..63 :
           /\ h = 128 * a + 64 * b + c
           /\ ShiftedHigh(h, 0) = 64 * a + 32 * b + (c \div 2)
           /\ ShiftedHigh(h, 1) = 128 + 64 * a + 32 * (1 - b) + (c \div 2)
  BY HighByteBits
<1>2. PICK d \in {0, 1}, e \in {0, 1}, i \in 0..63 :
           /\ k = 128 * d + 64 * e + i
           /\ ShiftedHigh(k, 0) = 64 * d + 32 * e + (i \div 2)
           /\ ShiftedHigh(k, 1) = 128 + 64 * d + 32 * (1 - e) + (i \div 2)
  BY HighByteBits
<1>3. f = g
  <2>1. /\ ShiftedHigh(h, 0) \in Lows /\ ShiftedHigh(h, 1) \in Highs
        /\ ShiftedHigh(k, 0) \in Lows /\ ShiftedHigh(k, 1) \in Highs
    BY <1>1, <1>2, HighBytesRange
  <2>2. CASE f = 0 /\ g = 1
    <3>1. ShiftedHigh(h, 0) \div p = ShiftedHigh(k, 1) \div p
      BY <2>2
    <3>2. ShiftedHigh(h, 0) \div p # ShiftedHigh(k, 1) \div p
      BY <2>1, LowHighApart
    <3> QED
      BY <3>1, <3>2
  <2>3. CASE f = 1 /\ g = 0
    <3>1. ShiftedHigh(h, 1) \div p = ShiftedHigh(k, 0) \div p
      BY <2>3
    <3>2. ShiftedHigh(k, 0) \div p # ShiftedHigh(h, 1) \div p
      BY <2>1, LowHighApart
    <3> QED
      BY <3>1, <3>2
  <2> QED
    BY <2>2, <2>3
<1>4. h \div (2 * p) = k \div (2 * p)
  <2> DEFINE u == c \div 2 v == i \div 2
  <2>1. u \in 0..31 /\ v \in 0..31
    OBVIOUS
  <2>2. h \div 2 = 64 * a + 32 * b + u /\ k \div 2 = 64 * d + 32 * e + v
    BY <1>1, <1>2
  <2>3. CASE f = 0
    <3>1. (h \div 2) \div p = (k \div 2) \div p
      BY <1>1, <1>2, <1>3, <2>2, <2>3
    <3> QED
      BY <3>1, HalfThenDiv
  <2>4. CASE f = 1
    <3> DEFINE x == 64 * a + 32 * b + u y == 64 * d + 32 * e + v
    <3>1. (128 + 64 * a + 32 * (1 - b) + u) \div p = (128 + 64 * d + 32 * (1 - e) + v) \div p
      BY <1>1, <1>2, <1>3, <2>4
    <3> HIDE DEF u, v
    <3>2. x \div p = y \div p
      BY <2>1, <3>1 DEF Powers
    <3>3. (h \div 2) \div p = (k \div 2) \div p
      BY <2>2, <3>2 
    <3> QED
      BY <3>3, HalfThenDiv
  <2> QED
    BY <2>3, <2>4
<1> QED
  BY <1>3, <1>4

LEMMA RoundsAre ==
  ASSUME NEW index
  PROVE  /\ Rounds(index)[0] = [data |-> index, crc |-> 0]
         /\ \A k \in 1..8 : Rounds(index)[k] = TableRound(Rounds(index)[k - 1])
<1> DEFINE start == [data |-> index, crc |-> 0]
           Is(f, n) == f = [k \in 0..n |-> IF k = 0 THEN start ELSE TableRound(f[k - 1])]
           S == {n \in Nat : \E f : Is(f, n)}
<1>1. 0 \in S
  <2> DEFINE f == [k \in 0..0 |-> start]
  <2>1. f = [k \in 0..0 |-> IF k = 0 THEN start ELSE TableRound(f[k - 1])]
    OBVIOUS
  <2> QED
    BY <2>1
<1>2. ASSUME NEW n \in Nat, n \in S PROVE n + 1 \in S
  <2>1. PICK f : Is(f, n)
    BY <1>2
  <2> DEFINE g == [k \in 0..n + 1 |-> IF k = n + 1 THEN TableRound(f[n]) ELSE f[k]]
             h == [k \in 0..n + 1 |-> IF k = 0 THEN start ELSE TableRound(g[k - 1])]
  <2>2. ASSUME NEW k \in 0..n + 1 PROVE g[k] = IF k = 0 THEN start ELSE TableRound(g[k - 1])
    <3>1. CASE k = n + 1
      BY <3>1
    <3>2. CASE k = 0
      BY <3>2, <2>1
    <3>3. CASE k \in 1..n
      <4>1. k # n + 1 /\ k - 1 # n + 1 /\ k - 1 \in 0..n + 1 /\ k \in 0..n /\ k # 0
        BY <3>3
      <4>2. f[k] = TableRound(f[k - 1])
        BY <2>1, <4>1
      <4> QED
        BY <4>1, <4>2
    <3> QED
      BY <3>1, <3>2, <3>3
  <2>3. g = h
    <3>1. \A k \in 0..n + 1 : g[k] = h[k]
      <4> HIDE DEF g
      <4> QED
        BY <2>2
    <3> QED
      BY <3>1
  <2>4. Is(g, n + 1)
    BY <2>3
  <2> HIDE DEF g
  <2> QED
    BY <2>4
<1>3. 8 \in S
  <2> HIDE DEF S
  <2>1. \A n \in Nat : n \in S
    BY <1>1, <1>2, Upwards
  <2> QED
    BY <2>1
<1>4. Is(Rounds(index), 8)
  <2> DEFINE F == CHOOSE f : Is(f, 8)
  <2>1. Rounds(index) = F
    BY DEF Rounds
  <2>2. \E f : Is(f, 8)
    BY <1>3
  <2> HIDE DEF Is
  <2>3. Is(F, 8)
    BY <2>2
  <2> QED
    BY <2>1, <2>3
<1> DEFINE r == Rounds(index)
<1> HIDE DEF r
<1>5. r = [k \in 0..8 |-> IF k = 0 THEN start ELSE TableRound(r[k - 1])]
  BY <1>4 DEF r
<1>6. r[0] = start /\ \A k \in 1..8 : r[k] = TableRound(r[k - 1])
  BY <1>5
<1> QED
  BY <1>6 DEF r

(* Round k of an entry: bit k of the index, plus bit 0 of the remainder,   *)
(* decides it.                                                             *)
Flag(state) == (state.data + state.crc) % 2

LEMMA RoundIs ==
  ASSUME NEW data \in Nat, NEW crc \in Word
  PROVE  LET state == [data |-> data, crc |-> crc]
         IN  /\ Flag(state) \in {0, 1}
             /\ TableRound(state) = [data |-> data \div 2, crc |-> Shifted(crc, Flag(state))]
             /\ data \div 2 \in Nat
             /\ Shifted(crc, Flag(state)) \in Word
<1> DEFINE state == [data |-> data, crc |-> crc]
<1>1. crc \in Int /\ 0 <= crc
  BY WordBounds
<1>2. Flag(state) \in {0, 1}
  BY <1>1 DEF Flag
<1>3. TableRound(state) = [data |-> data \div 2, crc |-> Shifted(crc, Flag(state))]
  BY DEF Flag, TableRound, Shifted
<1>4. Shifted(crc, Flag(state)) \in Word
  BY <1>2, ShiftedHighByte
<1> QED
  BY <1>2, <1>3, <1>4

DataAfter(index, k) ==
  CASE k = 0 -> index [] k = 1 -> index \div 2 [] k = 2 -> index \div 4 [] k = 3 -> index \div 8
    [] k = 4 -> index \div 16 [] k = 5 -> index \div 32 [] k = 6 -> index \div 64
    [] k = 7 -> index \div 128 [] k = 8 -> index \div 256

LEMMA DataHalved ==
  ASSUME NEW index \in Byte, NEW k \in 0..7
  PROVE  /\ DataAfter(index, k) \in Nat
         /\ DataAfter(index, k + 1) = DataAfter(index, k) \div 2
<1>1. index \in Nat /\ index <= 255
  BY DEF Byte
<1>2. CASE k = 0
  BY <1>1, <1>2 DEF DataAfter
<1>3. CASE k = 1
  BY <1>1, <1>3 DEF DataAfter
<1>4. CASE k = 2
  BY <1>1, <1>4 DEF DataAfter
<1>5. CASE k = 3
  BY <1>1, <1>5 DEF DataAfter
<1>6. CASE k = 4
  BY <1>1, <1>6 DEF DataAfter
<1>7. CASE k = 5
  BY <1>1, <1>7 DEF DataAfter
<1>8. CASE k = 6
  BY <1>1, <1>8 DEF DataAfter
<1>9. CASE k = 7
  BY <1>1, <1>9 DEF DataAfter
<1> QED
  BY <1>2, <1>3, <1>4, <1>5, <1>6, <1>7, <1>8, <1>9


LEMMA RoundStates ==
  ASSUME NEW index \in Byte
  PROVE  /\ \A k \in 0..8 : /\ Rounds(index)[k] = [data |-> DataAfter(index, k), crc |-> Rounds(index)[k].crc]
                            /\ Rounds(index)[k].crc \in Word
         /\ \A k \in 0..7 : /\ Flag(Rounds(index)[k]) \in {0, 1}
                            /\ Rounds(index)[k + 1].crc = Shifted(Rounds(index)[k].crc, Flag(Rounds(index)[k]))
<1> DEFINE r == Rounds(index)
           Typed(k) == r[k] = [data |-> DataAfter(index, k), crc |-> r[k].crc] /\ r[k].crc \in Word
           Follows(k) == Flag(r[k]) \in {0, 1} /\ r[k + 1].crc = Shifted(r[k].crc, Flag(r[k]))
           S == {n \in Nat : n <= 8 => Typed(n)}
<1>1. r[0] = [data |-> index, crc |-> 0] /\ \A k \in 1..8 : r[k] = TableRound(r[k - 1])
  BY RoundsAre
<1> HIDE DEF r
<1>2. 0 \in S
  <2>1. DataAfter(index, 0) = index
    BY DEF DataAfter
  <2> QED
    BY <1>1, <2>1, ZeroWord
<1>3. ASSUME NEW n \in 0..7, Typed(n) PROVE Typed(n + 1) /\ Follows(n)
  <2> DEFINE d == DataAfter(index, n)
             c == r[n].crc
  <2>1. d \in Nat /\ DataAfter(index, n + 1) = d \div 2
    BY DataHalved
  <2>2. r[n] = [data |-> d, crc |-> c] /\ c \in Word
    BY <1>3
  <2>3. r[n + 1] = TableRound(r[n])
    BY <1>1
  <2> HIDE DEF c, d
  <2>4. /\ Flag(r[n]) \in {0, 1}
        /\ TableRound(r[n]) = [data |-> d \div 2, crc |-> Shifted(c, Flag(r[n]))]
        /\ Shifted(c, Flag(r[n])) \in Word
    BY <2>1, <2>2, RoundIs
  <2> QED
    BY <2>1, <2>3, <2>4 DEF c
<1>4. \A n \in Nat : n \in S
  <2>1. ASSUME NEW n \in Nat, n \in S PROVE n + 1 \in S
    <3>1. CASE n + 1 <= 8
      <4>1. n \in 0..7 /\ Typed(n)
        BY <2>1, <3>1
      <4> HIDE DEF Typed
      <4> QED
        BY <1>3, <4>1
    <3> QED
      BY <3>1
  <2> HIDE DEF S
  <2> QED
    BY <1>2, <2>1, Upwards
<1>5. \A k \in 0..8 : Typed(k)
  <2> HIDE DEF Typed
  <2> QED
    BY <1>4
<1>6. \A k \in 0..7 : Follows(k)
  <2> TAKE k \in 0..7
  <2>1. k \in 0..8
    OBVIOUS
  <2> HIDE DEF Typed, Follows
  <2> QED
    BY <1>3, <1>5, <2>1
<1> QED
  BY <1>5, <1>6 DEF r

CrcAfter(index, k) == Rounds(index)[k].crc
FlagAt(index, k) == Flag(Rounds(index)[k])

LEMMA RoundFacts ==
  ASSUME NEW index \in Byte
  PROVE  /\ \A k \in 0..8 : CrcAfter(index, k) \in Word
         /\ CrcAfter(index, 0) = 0
         /\ look_up_table[index] = CrcAfter(index, 8)
         /\ \A k \in 0..7 : /\ FlagAt(index, k) = (DataAfter(index, k) + CrcAfter(index, k)) % 2
                            /\ FlagAt(index, k) \in {0, 1}
                            /\ CrcAfter(index, k + 1) = Shifted(CrcAfter(index, k), FlagAt(index, k))
<1>1. Rounds(index)[0].crc = 0
  <2>1. Rounds(index)[0] = [data |-> index, crc |-> 0]
    BY RoundsAre
  <2> QED
    BY <2>1
<1>2. look_up_table[index] = Rounds(index)[8].crc
  BY DEF look_up_table
<1>3. ASSUME NEW k \in 0..7
      PROVE  FlagAt(index, k) = (DataAfter(index, k) + CrcAfter(index, k)) % 2
  <2>1. k \in 0..8
    OBVIOUS
  <2>2. Rounds(index)[k] = [data |-> DataAfter(index, k), crc |-> Rounds(index)[k].crc]
    BY <2>1, RoundStates
  <2>3. Rounds(index)[k].data = DataAfter(index, k)
    BY <2>2
  <2> QED
    BY <2>3 DEF FlagAt, Flag, CrcAfter
<1> QED
  BY <1>1, <1>2, <1>3, RoundStates DEF CrcAfter, FlagAt

(* Entries with the same high byte have the same index.                    *)
LEMMA TableStep ==
  ASSUME NEW a \in Byte, NEW b \in Byte, NEW k \in 0..7, NEW p \in Powers,
         (CrcAfter(a, k + 1) \div 256) \div p = (CrcAfter(b, k + 1) \div 256) \div p
  PROVE  /\ FlagAt(a, k) = FlagAt(b, k)
         /\ (CrcAfter(a, k) \div 256) \div (2 * p) = (CrcAfter(b, k) \div 256) \div (2 * p)
<1> DEFINE c == CrcAfter(a, k)
           d == CrcAfter(b, k)
           f == FlagAt(a, k)
           g == FlagAt(b, k)
<1>1. /\ c \in Word /\ d \in Word /\ f \in {0, 1} /\ g \in {0, 1}
      /\ CrcAfter(a, k + 1) = Shifted(c, f) /\ CrcAfter(b, k + 1) = Shifted(d, g)
  <2>1. k \in 0..8
    OBVIOUS
  <2> QED
    BY <2>1, RoundFacts
<1> HIDE DEF c, d, f, g
<1>2. ShiftedHigh(c \div 256, f) \div p = ShiftedHigh(d \div 256, g) \div p
  BY <1>1, ShiftedHighByte
<1>3. c \div 256 \in Byte /\ d \div 256 \in Byte
  BY <1>1, HiLo DEF Hi
<1> DEFINE u == c \div 256 v == d \div 256
<1> HIDE DEF u, v
<1>4. f = g /\ u \div (2 * p) = v \div (2 * p)
  BY <1>1, <1>2, <1>3, RoundBack DEF u, v
<1> QED
  BY <1>4 DEF c, d, f, g, u, v


LEMMA PowersAre ==
  /\ 1 \in Powers /\ 2 \in Powers /\ 4 \in Powers /\ 8 \in Powers /\ 16 \in Powers
  /\ 32 \in Powers /\ 64 \in Powers /\ 128 \in Powers
  /\ 2 * 1 = 2 /\ 2 * 2 = 4 /\ 2 * 4 = 8 /\ 2 * 8 = 16 /\ 2 * 16 = 32 /\ 2 * 32 = 64 /\ 2 * 64 = 128
  /\ 7 + 1 = 8 /\ 6 + 1 = 7 /\ 5 + 1 = 6 /\ 4 + 1 = 5 /\ 3 + 1 = 4 /\ 2 + 1 = 3 /\ 1 + 1 = 2 /\ 0 + 1 = 1
BY DEF Powers

LEMMA TableFlags ==
  ASSUME NEW a \in Byte, NEW b \in Byte,
         Hi(look_up_table[a]) = Hi(look_up_table[b])
  PROVE  \A k \in 0..7 : FlagAt(a, k) = FlagAt(b, k)
<1> DEFINE Same(k, p) == (CrcAfter(a, k) \div 256) \div p = (CrcAfter(b, k) \div 256) \div p
           Flags(k) == FlagAt(a, k) = FlagAt(b, k)
<1>0. \A k \in 0..7, p \in Powers : Same(k + 1, p) => Flags(k) /\ Same(k, 2 * p)
  BY TableStep
<1>1. Same(8, 1)
  <2>1. CrcAfter(a, 8) \div 256 = CrcAfter(b, 8) \div 256
    BY RoundFacts DEF Hi
  <2> QED
    BY <2>1
<1> HIDE DEF Same, Flags
<1>2. Flags(7) /\ Same(7, 2)
  <2>1. Same(7 + 1, 1)
    BY <1>1, PowersAre
  <2> QED
    BY <2>1, <1>0, PowersAre
<1>3. Flags(6) /\ Same(6, 4)
  <2>1. Same(6 + 1, 2)
    BY <1>2, PowersAre
  <2> QED
    BY <2>1, <1>0, PowersAre
<1>4. Flags(5) /\ Same(5, 8)
  <2>1. Same(5 + 1, 4)
    BY <1>3, PowersAre
  <2> QED
    BY <2>1, <1>0, PowersAre
<1>5. Flags(4) /\ Same(4, 16)
  <2>1. Same(4 + 1, 8)
    BY <1>4, PowersAre
  <2> QED
    BY <2>1, <1>0, PowersAre
<1>6. Flags(3) /\ Same(3, 32)
  <2>1. Same(3 + 1, 16)
    BY <1>5, PowersAre
  <2> QED
    BY <2>1, <1>0, PowersAre
<1>7. Flags(2) /\ Same(2, 64)
  <2>1. Same(2 + 1, 32)
    BY <1>6, PowersAre
  <2> QED
    BY <2>1, <1>0, PowersAre
<1>8. Flags(1) /\ Same(1, 128)
  <2>1. Same(1 + 1, 64)
    BY <1>7, PowersAre
  <2> QED
    BY <2>1, <1>0, PowersAre
<1>9. Flags(0)
  <2>1. Same(0 + 1, 128)
    BY <1>8, PowersAre
  <2> QED
    BY <2>1, <1>0, PowersAre
<1>10. ASSUME NEW k \in 0..7 PROVE Flags(k)
  BY <1>2, <1>3, <1>4, <1>5, <1>6, <1>7, <1>8, <1>9
<1> QED
  BY <1>10 DEF Flags

LEMMA SameParity ==
  ASSUME NEW a \in Nat, NEW b \in Nat, NEW c \in Nat, (a + c) % 2 = (b + c) % 2
  PROVE  a % 2 = b % 2
OBVIOUS

LEMMA ByteFromBits ==
  ASSUME NEW a \in Byte, NEW b \in Byte,
         \A k \in 0..7 : DataAfter(a, k) % 2 = DataAfter(b, k) % 2
  PROVE  a = b
<1>1. ASSUME NEW x \in Byte
      PROVE  x = (x % 2) + 2 * ((x \div 2) % 2) + 4 * ((x \div 4) % 2) + 8 * ((x \div 8) % 2)
                 + 16 * ((x \div 16) % 2) + 32 * ((x \div 32) % 2) + 64 * ((x \div 64) % 2)
                 + 128 * ((x \div 128) % 2)
  <2>1. x \in Int /\ 0 <= x /\ x <= 255
    BY DEF Byte
  <2> DEFINE b1 == x \div 2 b2 == x \div 4 b3 == x \div 8 b4 == x \div 16 b5 == x \div 32
             b6 == x \div 64 b7 == x \div 128
  <2>2. x = 2 * b1 + (x % 2) /\ b1 \in Int
    BY <2>1
  <2>3. b1 = 2 * b2 + (b1 % 2) /\ b2 \in Int
    BY <2>1
  <2>4. b2 = 2 * b3 + (b2 % 2) /\ b3 \in Int
    BY <2>1
  <2>5. b3 = 2 * b4 + (b3 % 2) /\ b4 \in Int
    BY <2>1
  <2>6. b4 = 2 * b5 + (b4 % 2) /\ b5 \in Int
    BY <2>1
  <2>7. b5 = 2 * b6 + (b5 % 2) /\ b6 \in Int
    BY <2>1
  <2>8. b6 = 2 * b7 + (b6 % 2) /\ b7 \in Int
    BY <2>1
  <2>9. b7 = b7 % 2
    BY <2>1
  <2> HIDE DEF b1, b2, b3, b4, b5, b6, b7
  <2>10. x = (x % 2) + 2 * (b1 % 2) + 4 * (b2 % 2) + 8 * (b3 % 2) + 16 * (b4 % 2) + 32 * (b5 % 2)
               + 64 * (b6 % 2) + 128 * (b7 % 2)
    BY <2>1, <2>2, <2>3, <2>4, <2>5, <2>6, <2>7, <2>8, <2>9
  <2> QED
    BY <2>10 DEF b1, b2, b3, b4, b5, b6, b7
<1>2. /\ a % 2 = b % 2
      /\ (a \div 2) % 2 = (b \div 2) % 2 /\ (a \div 4) % 2 = (b \div 4) % 2
      /\ (a \div 8) % 2 = (b \div 8) % 2 /\ (a \div 16) % 2 = (b \div 16) % 2
      /\ (a \div 32) % 2 = (b \div 32) % 2 /\ (a \div 64) % 2 = (b \div 64) % 2
      /\ (a \div 128) % 2 = (b \div 128) % 2
  BY DEF DataAfter
<1>3. a = (a % 2) + 2 * ((a \div 2) % 2) + 4 * ((a \div 4) % 2) + 8 * ((a \div 8) % 2)
                 + 16 * ((a \div 16) % 2) + 32 * ((a \div 32) % 2) + 64 * ((a \div 64) % 2)
                 + 128 * ((a \div 128) % 2)
  BY <1>1, Zenon
<1>4. b = (b % 2) + 2 * ((b \div 2) % 2) + 4 * ((b \div 4) % 2) + 8 * ((b \div 8) % 2)
                 + 16 * ((b \div 16) % 2) + 32 * ((b \div 32) % 2) + 64 * ((b \div 64) % 2)
                 + 128 * ((b \div 128) % 2)
  BY <1>1, Zenon
<1> QED
  BY <1>2, <1>3, <1>4

(* No two of the 256 entries of the table that generate_look_up_table      *)
(* makes have the same high byte: rounds can be run backwards from it.     *)
THEOREM TableInjective ==
  ASSUME NEW a \in Byte, NEW b \in Byte,
         Hi(look_up_table[a]) = Hi(look_up_table[b])
  PROVE  a = b
<1>1. \A k \in 0..7 : FlagAt(a, k) = FlagAt(b, k)
  BY TableFlags
<1> DEFINE S == {n \in Nat : n <= 8 => CrcAfter(a, n) = CrcAfter(b, n)}
<1>2. 0 \in S
  BY RoundFacts
<1>3. ASSUME NEW n \in Nat, n \in S PROVE n + 1 \in S
  <2>1. CASE n + 1 <= 8
    <3>1. n \in 0..7 /\ CrcAfter(a, n) = CrcAfter(b, n)
      BY <1>3, <2>1
    <3>2. /\ CrcAfter(a, n + 1) = Shifted(CrcAfter(a, n), FlagAt(a, n))
          /\ CrcAfter(b, n + 1) = Shifted(CrcAfter(b, n), FlagAt(b, n))
      BY <3>1, RoundFacts
    <3> QED
      BY <1>1, <3>1, <3>2
  <2> QED
    BY <2>1
<1>4. \A n \in Nat : n \in S
  <2> HIDE DEF S
  <2> QED
    BY <1>2, <1>3, Upwards
<1>5. ASSUME NEW k \in 0..7 PROVE DataAfter(a, k) % 2 = DataAfter(b, k) % 2
  <2> DEFINE x == DataAfter(a, k) y == DataAfter(b, k) c == CrcAfter(a, k)
  <2>1. k \in Nat /\ k <= 8 /\ k \in 0..8
    OBVIOUS
  <2>2. CrcAfter(b, k) = c
    BY <1>4, <2>1
  <2>3. /\ FlagAt(a, k) = (x + CrcAfter(a, k)) % 2
        /\ FlagAt(b, k) = (y + CrcAfter(b, k)) % 2
    BY RoundFacts
  <2>4. x \in Nat /\ y \in Nat
    BY DataHalved
  <2>5. c \in Nat
    <3>1. c \in Word
      BY <2>1, RoundFacts
    <3> HIDE DEF c
    <3> QED
      BY <3>1, WordBounds
  <2>6. FlagAt(a, k) = FlagAt(b, k)
    BY <1>1
  <2> HIDE DEF x, y
  <2>7. (x + c) % 2 = (y + c) % 2
    BY <2>2, <2>3, <2>6
  <2> HIDE DEF c
  <2> QED
    BY <2>4, <2>5, <2>7, SameParity DEF x, y
<1> QED
  BY <1>5, ByteFromBits


LEMMA SmallBytes == \A n \in {0, 2, 6, 127, 128, 255} : n \in Byte
BY DEF Byte

LEMMA ByteWord == ASSUME NEW a \in Byte PROVE a \in Word /\ a \in Int /\ 0 <= a /\ a <= 255
<1>1. a \in Int /\ 0 <= a /\ a <= 255
  BY DEF Byte
<1> QED
  BY <1>1, WordRange

LEMMA TableWord == ASSUME NEW a \in Byte PROVE look_up_table[a] \in Word
<1>1. 8 \in 0..8
  OBVIOUS
<1> QED
  BY <1>1, RoundFacts

LEMMA RoundOf ==
  ASSUME NEW index \in Byte, NEW k \in 0..7, NEW c \in Nat, CrcAfter(index, k) = c
  PROVE  CrcAfter(index, k + 1)
           = IF (DataAfter(index, k) + c) % 2 = 1 THEN Xor16(c \div 2, Polynomial) ELSE c \div 2
BY RoundFacts DEF Shifted

LEMMA TableZero == look_up_table[0] = 0
<1>1. 0 \in Byte
  BY SmallBytes
<1> DEFINE S == {n \in Nat : n <= 8 => CrcAfter(0, n) = 0}
<1>2. 0 \in S
  BY <1>1, RoundFacts
<1>3. ASSUME NEW n \in Nat, n \in S PROVE n + 1 \in S
  <2>1. CASE n + 1 <= 8
    <3>1. n \in 0..7 /\ CrcAfter(0, n) = 0
      BY <1>3, <2>1
    <3>2. DataAfter(0, n) = 0
      BY <3>1 DEF DataAfter
    <3>3. CrcAfter(0, n + 1) = IF (DataAfter(0, n) + 0) % 2 = 1 THEN Xor16(0 \div 2, Polynomial) ELSE 0 \div 2
      BY <1>1, <3>1, RoundOf
    <3> QED
      BY <3>2, <3>3
  <2> QED
    BY <2>1
<1>4. 8 \in S
  <2> HIDE DEF S
  <2>1. \A n \in Nat : n \in S
    BY <1>2, <1>3, Upwards
  <2> QED
    BY <2>1
<1> QED
  BY <1>1, <1>4, RoundFacts

LEMMA PolynomialAlone == Xor16(0, Polynomial) = 40961
<1>1. Polynomial \in Word /\ Polynomial = 40961
  BY WordRange DEF Polynomial
<1>2. Xor16(0, Polynomial) = Xor16(Polynomial, 0) /\ Xor16(Polynomial, 0) = Polynomial
  BY <1>1, ZeroWord, XorWord
<1> QED
  BY <1>1, <1>2

LEMMA TableSix == look_up_table[6] = 640
<1>1. 6 \in Byte
  BY SmallBytes
<1>2. CrcAfter(6, 0) = 0
  BY <1>1, RoundFacts
<1> DEFINE C(k) == CrcAfter(6, k)
           D(k) == DataAfter(6, k)
<1>3. ASSUME NEW k \in 0..7, NEW c \in Nat, C(k) = c
      PROVE  /\ (D(k) + c) % 2 = 1 => C(k + 1) = Xor16(c \div 2, Polynomial)
             /\ (D(k) + c) % 2 # 1 => C(k + 1) = c \div 2
  BY <1>1, <1>3, RoundOf
<1>4. D(0) = 6 /\ D(1) = 3 /\ D(2) = 1 /\ D(3) = 0 /\ D(4) = 0 /\ D(5) = 0 /\ D(6) = 0 /\ D(7) = 0
  BY DEF DataAfter
<1> HIDE DEF C, D
<1>5. C(0) = 0
  BY <1>2 DEF C
<1>6. C(0 + 1) = 0
  BY <1>3, <1>4, <1>5
<1>7. C(1 + 1) = 40961
  <2>1. C(1) = 0
    BY <1>6
  <2>2. (D(1) + 0) % 2 = 1 => C(1 + 1) = Xor16(0 \div 2, Polynomial)
    BY <1>3, <2>1
  <2>3. 0 \div 2 = 0
    OBVIOUS
  <2> QED
    BY <1>4, <2>2, <2>3, PolynomialAlone
<1>8. C(2 + 1) = 20480
  <2>1. C(2) = 40961
    BY <1>7
  <2> QED
    BY <1>3, <1>4, <2>1
<1>9. C(3 + 1) = 10240
  <2>1. C(3) = 20480
    BY <1>8
  <2> QED
    BY <1>3, <1>4, <2>1
<1>10. C(4 + 1) = 5120
  <2>1. C(4) = 10240
    BY <1>9
  <2> QED
    BY <1>3, <1>4, <2>1
<1>11. C(5 + 1) = 2560
  <2>1. C(5) = 5120
    BY <1>10
  <2> QED
    BY <1>3, <1>4, <2>1
<1>12. C(6 + 1) = 1280
  <2>1. C(6) = 2560
    BY <1>11
  <2> QED
    BY <1>3, <1>4, <2>1
<1>13. C(7 + 1) = 640
  <2>1. C(7) = 1280
    BY <1>12
  <2> QED
    BY <1>3, <1>4, <2>1
<1> QED
  BY <1>1, <1>13, RoundFacts DEF C

----------------------------------------------------------------------------
(* The register.                                                           *)

(* Exclusive or with a byte leaves the high byte alone.                    *)
LEMMA XorByte ==
  ASSUME NEW h \in Byte, NEW w \in Word
  PROVE  Hi(Xor16(h, w)) = Hi(w)
<1>1. h \in Word /\ h \in Int /\ 0 <= h /\ h <= 255
  BY ByteWord
<1>2. PICK p \in Nibble, q \in Nibble, r \in Nibble, s \in Nibble : w = WordOf(p, q, r, s)
  BY NibblesOf
<1>10. (w \div 256) % 16 = r /\ (w \div 4096) % 16 = s
  BY <1>2, NibblesWord
<1>3. (h \div 256) % 16 = 0 /\ (h \div 4096) % 16 = 0
  <2>1. h \div 256 = 0 /\ h \div 4096 = 0
    BY <1>1
  <2> QED
    BY <2>1
<1> DEFINE y == Xor16(h, w)
           x(k) == XorNibbles[(h \div k) % 16][(w \div k) % 16]
<1>4. y = 1 * x(1) + 16 * x(16) + 256 * x(256) + 4096 * x(4096)
  BY DEF Xor16
<1>5. x(1) \in Nibble /\ x(16) \in Nibble
  BY <1>1, WordNibbles, NibbleXor
<1>6. x(256) = r /\ x(4096) = s
  <2>1. x(256) = XorNibbles[0][r] /\ x(4096) = XorNibbles[0][s]
    BY <1>10, <1>3
  <2>2. XorNibbles[0][r] = XorNibbles[r][0] /\ XorNibbles[0][s] = XorNibbles[s][0]
        /\ XorNibbles[r][0] = r /\ XorNibbles[s][0] = s
    BY SmallNibbles, NibbleXor
  <2> QED
    BY <2>1, <2>2
<1> HIDE DEF x, y
<1>7. y = WordOf(x(1), x(16), r, s)
  BY <1>4, <1>5, <1>6 DEF WordOf, Nibble
<1>8. y \div 256 = r + 16 * s
  BY <1>5, <1>7, HighByteOfWord
<1>9. w \div 256 = r + 16 * s
  BY <1>2, HighByteOfWord
<1> QED
  BY <1>8, <1>9 DEF Hi, y

LEMMA XorBytes ==
  ASSUME NEW a \in Byte, NEW b \in Byte
  PROVE  Xor16(a, b) \in Byte
<1>1. a \in Word /\ b \in Word /\ b \in Int /\ 0 <= b /\ b <= 255
  BY ByteWord
<1> DEFINE y == Xor16(a, b)
<1>2. y \in Word
  BY <1>1, XorWord
<1>3. y \div 256 = b \div 256
  BY <1>1, XorByte DEF Hi
<1> HIDE DEF y
<1>4. y \in Int /\ 0 <= y
  BY <1>2, WordBounds
<1>5. b \div 256 = 0
  BY <1>1
<1>6. y <= 255
  BY <1>3, <1>4, <1>5
<1> QED
  BY <1>4, <1>6 DEF Byte, y


LEMMA XorSame ==
  ASSUME NEW a \in Word, NEW b \in Word, NEW c \in Word
  PROVE  /\ Xor16(a, c) = Xor16(b, c) => a = b
         /\ Xor16(c, a) = Xor16(c, b) => a = b
<1>1. Xor16(a, c) = Xor16(b, c) => a = b
  BY XorWord
<1>2. Xor16(a, c) = Xor16(c, a) /\ Xor16(b, c) = Xor16(c, b)
  BY XorWord
<1> QED
  BY <1>1, <1>2

LEMMA StepTyped ==
  ASSUME NEW r \in Word, NEW b \in Byte
  PROVE  /\ Xor16(Lo(r), b) \in Byte
         /\ CrcStep(r, b) = Xor16(Hi(r), look_up_table[Xor16(Lo(r), b)])
         /\ CrcStep(r, b) \in Word
         /\ Hi(CrcStep(r, b)) = Hi(look_up_table[Xor16(Lo(r), b)])
<1>1. Hi(r) \in Byte /\ Lo(r) \in Byte
  BY HiLo
<1>2. Xor16(Lo(r), b) \in Byte
  BY <1>1, XorBytes
<1> DEFINE t == look_up_table[Xor16(Lo(r), b)]
<1>3. t \in Word
  BY <1>2, TableWord
<1>4. CrcStep(r, b) = Xor16(Hi(r), t)
  BY DEF CrcStep, Hi, Lo
<1> HIDE DEF t
<1>5. Xor16(Hi(r), t) \in Word /\ Hi(Xor16(Hi(r), t)) = Hi(t)
  BY <1>1, <1>3, ByteWord, XorWord, XorByte
<1> QED
  BY <1>2, <1>4, <1>5 DEF t

(* Neither the register nor the byte is lost in a step of the CRC.         *)
LEMMA StepInjective ==
  ASSUME NEW r \in Word, NEW s \in Word, NEW b \in Byte, NEW c \in Byte,
         CrcStep(r, b) = CrcStep(s, c)
  PROVE  /\ b = c => r = s
         /\ r = s => b = c
<1> DEFINE i == Xor16(Lo(r), b) j == Xor16(Lo(s), c) t == look_up_table[i] u == look_up_table[j]
<1>1. /\ Lo(r) \in Byte /\ Lo(s) \in Byte /\ Hi(r) \in Byte /\ Hi(s) \in Byte
      /\ 256 * Hi(r) + Lo(r) = r /\ 256 * Hi(s) + Lo(s) = s
  BY HiLo
<1>2. i \in Byte /\ j \in Byte /\ CrcStep(r, b) = Xor16(Hi(r), t) /\ CrcStep(s, c) = Xor16(Hi(s), u)
  BY StepTyped
<1>3. Hi(t) = Hi(u)
  BY StepTyped
<1>4. i = j
  <2> HIDE DEF i, j
  <2> QED
    BY <1>2, <1>3, TableInjective
<1>5. t \in Word /\ u = t
  <2> HIDE DEF i, j
  <2> QED
    BY <1>2, <1>4, TableWord
<1> HIDE DEF t, u
<1>9. /\ Lo(r) \in Word /\ Lo(s) \in Word /\ Hi(r) \in Word /\ Hi(s) \in Word /\ b \in Word /\ c \in Word
  BY <1>1, ByteWord
<1>6. Hi(r) = Hi(s)
  BY <1>2, <1>5, <1>9, XorSame
<1>7. ASSUME b = c PROVE r = s
  <2>1. Lo(r) = Lo(s)
    BY <1>4, <1>7, <1>9, XorSame
  <2> QED
    BY <1>1, <1>6, <2>1
<1>8. ASSUME r = s PROVE b = c
  BY <1>4, <1>8, <1>9, XorSame
<1> QED
  BY <1>7, <1>8

(* The register's own bytes, low one first, bring it to zero.              *)
LEMMA StepResidue ==
  ASSUME NEW r \in Word
  PROVE  CrcStep(CrcStep(r, Lo(r)), Hi(r)) = 0
<1>1. /\ Lo(r) \in Byte /\ Hi(r) \in Byte
  BY HiLo
<1>2. /\ Lo(r) \in Word /\ Hi(r) \in Word /\ Hi(r) \in Int /\ 0 <= Hi(r) /\ Hi(r) <= 255
  BY <1>1, ByteWord
<1> DEFINE h == Hi(r) l == Lo(r)
<1> HIDE DEF h, l
<1>3. CrcStep(r, l) = Xor16(h, look_up_table[Xor16(l, l)])
  BY <1>1, StepTyped DEF h, l
<1>4. Xor16(l, l) = 0 /\ Xor16(h, h) = 0 /\ Xor16(h, 0) = h
  BY <1>2, XorWord, ZeroWord DEF h, l
<1>5. CrcStep(r, l) = h
  BY <1>3, <1>4, TableZero
<1>6. Hi(h) = 0 /\ Lo(h) = h
  BY <1>2 DEF Hi, Lo, h
<1>7. CrcStep(h, h) = Xor16(Hi(h), look_up_table[Xor16(Lo(h), h)])
  BY <1>1, <1>2, StepTyped DEF h
<1>8. Xor16(0, 0) = 0
  BY ZeroWord, XorWord
<1>9. CrcStep(h, h) = 0
  BY <1>4, <1>6, <1>7, <1>8, TableZero
<1> QED
  BY <1>5, <1>9 DEF h, l

LEMMA RegistersAre ==
  ASSUME NEW msg \in Seq(Byte)
  PROVE  /\ Registers(msg)[0] = 65535
         /\ \A k \in 1..Len(msg) : Registers(msg)[k] = CrcStep(Registers(msg)[k - 1], msg[k])
<1> DEFINE start == 65535
           Is(f, n) == f = [k \in 0..n |-> IF k = 0 THEN start ELSE CrcStep(f[k - 1], msg[k])]
           S == {n \in Nat : \E f : Is(f, n)}
<1>0. start = 65535
  OBVIOUS
<1> HIDE DEF start
<1>1. 0 \in S
  <2> DEFINE f == [k \in 0..0 |-> start]
  <2>1. f = [k \in 0..0 |-> IF k = 0 THEN start ELSE CrcStep(f[k - 1], msg[k])]
    OBVIOUS
  <2> QED
    BY <2>1
<1>2. ASSUME NEW n \in Nat, n \in S PROVE n + 1 \in S
  <2>1. PICK f : Is(f, n)
    BY <1>2
  <2> DEFINE g == [k \in 0..n + 1 |-> IF k = n + 1 THEN CrcStep(f[n], msg[n + 1]) ELSE f[k]]
             h == [k \in 0..n + 1 |-> IF k = 0 THEN start ELSE CrcStep(g[k - 1], msg[k])]
  <2>2. ASSUME NEW k \in 0..n + 1 PROVE g[k] = IF k = 0 THEN start ELSE CrcStep(g[k - 1], msg[k])
    <3>1. CASE k = n + 1
      BY <3>1
    <3>2. CASE k = 0
      BY <3>2, <2>1
    <3>3. CASE k \in 1..n
      <4>1. k # n + 1 /\ k - 1 # n + 1 /\ k - 1 \in 0..n + 1 /\ k \in 0..n /\ k # 0
        BY <3>3
      <4>2. f[k] = CrcStep(f[k - 1], msg[k])
        BY <2>1, <4>1
      <4> QED
        BY <4>1, <4>2
    <3> QED
      BY <3>1, <3>2, <3>3
  <2>3. g = h
    <3>1. \A k \in 0..n + 1 : g[k] = h[k]
      <4> HIDE DEF g
      <4> QED
        BY <2>2
    <3> QED
      BY <3>1
  <2>4. Is(g, n + 1)
    BY <2>3
  <2> HIDE DEF g, Is
  <2> QED
    BY <2>4
<1>3. Len(msg) \in S
  <2> HIDE DEF S
  <2>1. \A n \in Nat : n \in S
    BY <1>1, <1>2, Upwards
  <2> QED
    BY <2>1
<1>4. Is(Registers(msg), Len(msg))
  <2> DEFINE F == CHOOSE f : Is(f, Len(msg))
  <2>1. Registers(msg) = F
    BY DEF Registers, start
  <2>2. \E f : Is(f, Len(msg))
    BY <1>3
  <2> HIDE DEF Is
  <2>3. Is(F, Len(msg))
    BY <2>2
  <2> QED
    BY <2>1, <2>3
<1> DEFINE r == Registers(msg)
<1> HIDE DEF r
<1>5. r = [k \in 0..Len(msg) |-> IF k = 0 THEN start ELSE CrcStep(r[k - 1], msg[k])]
  BY <1>4 DEF r
<1>6. r[0] = start /\ \A k \in 1..Len(msg) : r[k] = CrcStep(r[k - 1], msg[k])
  BY <1>5
<1> QED
  BY <1>0, <1>6 DEF r

LEMMA AllOnes == 65535 \in Word
BY DEF Word

LEMMA RegistersTyped ==
  ASSUME NEW msg \in Seq(Byte), NEW n \in 0..Len(msg)
  PROVE  Registers(msg)[n] \in Word
<1> DEFINE r == Registers(msg)
           S == {k \in Nat : k <= Len(msg) => r[k] \in Word}
<1>1. r[0] = 65535 /\ \A k \in 1..Len(msg) : r[k] = CrcStep(r[k - 1], msg[k])
  BY RegistersAre
<1> HIDE DEF r
<1>2. 0 \in S
  BY <1>1, AllOnes
<1>3. ASSUME NEW k \in Nat, k \in S PROVE k + 1 \in S
  <2>1. CASE k + 1 <= Len(msg)
    <3>1. k + 1 \in 1..Len(msg) /\ (k + 1) - 1 = k /\ r[k] \in Word
      BY <1>3, <2>1
    <3>2. msg[k + 1] \in Byte
      BY <3>1
    <3>3. r[k + 1] = CrcStep(r[k], msg[k + 1])
      BY <1>1, <3>1
    <3> QED
      BY <3>1, <3>2, <3>3, StepTyped
  <2> QED
    BY <2>1
<1>4. n \in S
  <2> HIDE DEF S
  <2>1. \A k \in Nat : k \in S
    BY <1>2, <1>3, Upwards
  <2> QED
    BY <2>1
<1> QED
  BY <1>4 DEF r


LEMMA BytesConcat ==
  ASSUME NEW s \in Seq(Byte), NEW t \in Seq(Byte)
  PROVE  /\ s \o t \in Seq(Byte)
         /\ Len(s \o t) = Len(s) + Len(t)
         /\ Len(s) \in Nat /\ Len(t) \in Nat
         /\ \A k \in 1..Len(s) : (s \o t)[k] = s[k]
         /\ \A k \in 1..Len(t) : (s \o t)[Len(s) + k] = t[k]
<1>1. s \o t \in Seq(Byte) /\ Len(s \o t) = Len(s) + Len(t) /\ Len(s) \in Nat /\ Len(t) \in Nat
  OBVIOUS
<1>2. ASSUME NEW k \in 1..Len(s) PROVE (s \o t)[k] = s[k]
  BY ConcatAt
<1>3. ASSUME NEW k \in 1..Len(t) PROVE (s \o t)[Len(s) + k] = t[k]
  BY ConcatAt
<1> QED
  BY <1>1, <1>2, <1>3

(* Messages that begin with the same bytes have the same registers so far. *)
LEMMA RegistersSame ==
  ASSUME NEW a \in Seq(Byte), NEW b \in Seq(Byte), NEW n \in Nat, n <= Len(a), n <= Len(b),
         \A k \in 1..n : a[k] = b[k]
  PROVE  Registers(a)[n] = Registers(b)[n]
<1> DEFINE r == Registers(a)
           s == Registers(b)
           S == {k \in Nat : k <= n => r[k] = s[k]}
<1>1. /\ r[0] = s[0]
      /\ \A k \in 1..Len(a) : r[k] = CrcStep(r[k - 1], a[k])
      /\ \A k \in 1..Len(b) : s[k] = CrcStep(s[k - 1], b[k])
  BY RegistersAre
<1> HIDE DEF r, s
<1>2. 0 \in S
  BY <1>1
<1>3. ASSUME NEW k \in Nat, k \in S PROVE k + 1 \in S
  <2>1. CASE k + 1 <= n
    <3>1. k + 1 \in 1..Len(a) /\ k + 1 \in 1..Len(b) /\ (k + 1) - 1 = k /\ r[k] = s[k] /\ k + 1 \in 1..n
      BY <1>3, <2>1
    <3> QED
      BY <1>1, <3>1
  <2> QED
    BY <2>1
<1>4. n \in S
  <2> HIDE DEF S
  <2>1. \A k \in Nat : k \in S
    BY <1>2, <1>3, Upwards
  <2> QED
    BY <2>1
<1> QED
  BY <1>4 DEF r, s

(* A damaged byte leaves its mark on the register for good.                *)
LEMMA RegistersDiffer ==
  ASSUME NEW a \in Seq(Byte), NEW b \in Seq(Byte), Len(a) = Len(b), NEW i \in 1..Len(a),
         a[i] # b[i], \A k \in 1..Len(a) : k # i => a[k] = b[k]
  PROVE  Registers(a)[Len(a)] # Registers(b)[Len(b)]
<1> DEFINE r == Registers(a)
           s == Registers(b)
           n == Len(a)
           S == {k \in Nat : (k >= i /\ k <= n) => r[k] # s[k]}
<1>1. /\ \A k \in 1..n : r[k] = CrcStep(r[k - 1], a[k])
      /\ \A k \in 1..n : s[k] = CrcStep(s[k - 1], b[k])
  BY RegistersAre
<1>2. \A k \in 0..n : r[k] \in Word /\ s[k] \in Word
  BY RegistersTyped
<1>3. r[i - 1] = s[i - 1]
  BY RegistersSame
<1>4. n \in Nat /\ i \in 1..n
  OBVIOUS
<1> HIDE DEF r, s
<1>5. 0 \in S
  OBVIOUS
<1>6. ASSUME NEW k \in Nat, k \in S PROVE k + 1 \in S
  <2>1. CASE k + 1 >= i /\ k + 1 <= n
    <3>1. k + 1 \in 1..n /\ (k + 1) - 1 = k /\ k \in 0..n /\ r[k] \in Word /\ s[k] \in Word
      BY <1>2, <1>4, <2>1
    <3>2. a[k + 1] \in Byte /\ b[k + 1] \in Byte
      BY <3>1
    <3>3. r[k + 1] = CrcStep(r[k], a[k + 1]) /\ s[k + 1] = CrcStep(s[k], b[k + 1])
      BY <1>1, <3>1
    <3>4. CASE k + 1 = i
      <4>1. k = i - 1
        BY <3>4
      <4>2. r[k] = s[k]
        BY <1>3, <4>1
      <4> QED
        BY <3>1, <3>2, <3>3, <3>4, <4>2, StepInjective
    <3>5. CASE k + 1 # i
      <4>1. r[k] # s[k]
        BY <1>6, <2>1, <3>5, <1>4
      <4>2. a[k + 1] = b[k + 1]
        BY <3>1, <3>5
      <4> QED
        BY <3>1, <3>2, <3>3, <4>1, <4>2, StepInjective
    <3> QED
      BY <3>4, <3>5
  <2> QED
    BY <2>1
<1>7. n \in S
  <2> HIDE DEF S
  <2>1. \A k \in Nat : k \in S
    BY <1>5, <1>6, Upwards
  <2> QED
    BY <1>4, <2>1
<1> QED
  BY <1>4, <1>7 DEF r, s

LEMMA CrcBytes ==
  ASSUME NEW msg \in Seq(Byte)
  PROVE  /\ get_crc(msg) \in Seq(Byte)
         /\ Len(get_crc(msg)) = 2
         /\ get_crc(msg)[1] = Lo(Registers(msg)[Len(msg)])
         /\ get_crc(msg)[2] = Hi(Registers(msg)[Len(msg)])
<1> DEFINE r == Registers(msg)[Len(msg)]
<1>1. r \in Word
  BY RegistersTyped
<1>2. get_crc(msg) = <<Lo(r), Hi(r)>>
  BY DEF get_crc
<1> HIDE DEF r
<1>3. Lo(r) \in Byte /\ Hi(r) \in Byte
  BY <1>1, HiLo
<1> QED
  BY <1>2, <1>3 DEF r

(* Two messages that differ in one byte have different CRCs: get_crc.      *)
THEOREM CrcDiffers ==
  ASSUME NEW a \in Seq(Byte), NEW b \in Seq(Byte), Len(a) = Len(b), NEW i \in 1..Len(a),
         a[i] # b[i], \A k \in 1..Len(a) : k # i => a[k] = b[k]
  PROVE  get_crc(a) # get_crc(b)
<1> DEFINE r == Registers(a)[Len(a)] s == Registers(b)[Len(b)]
<1>1. r # s
  BY RegistersDiffer
<1>2. r \in Word /\ s \in Word
  BY RegistersTyped
<1>3. /\ get_crc(a)[1] = Lo(r) /\ get_crc(a)[2] = Hi(r)
      /\ get_crc(b)[1] = Lo(s) /\ get_crc(b)[2] = Hi(s)
  BY CrcBytes
<1> HIDE DEF r, s
<1>4. 256 * Hi(r) + Lo(r) = r /\ 256 * Hi(s) + Lo(s) = s
  BY <1>2, HiLo
<1> QED
  BY <1>1, <1>3, <1>4

(* A message followed by its CRC has the CRC 0.                            *)
LEMMA CrcResidue ==
  ASSUME NEW msg \in Seq(Byte)
  PROVE  get_crc(msg \o get_crc(msg)) = <<0, 0>>
<1> DEFINE c == get_crc(msg)
           m == msg \o c
           n == Len(msg)
           r == Registers(msg)[n]
           s == Registers(m)
<1>1. /\ c \in Seq(Byte) /\ Len(c) = 2 /\ c[1] = Lo(r) /\ c[2] = Hi(r)
  BY CrcBytes
<1>2. r \in Word /\ n \in Nat
  BY RegistersTyped
<1> HIDE DEF c
<1>3. /\ m \in Seq(Byte) /\ Len(m) = n + 2
      /\ \A k \in 1..n : m[k] = msg[k]
      /\ \A k \in 1..Len(c) : m[n + k] = c[k]
  <2>1. c \in Seq(Byte)
    BY <1>1
  <2>2. /\ m \in Seq(Byte) /\ Len(m) = n + Len(c)
    BY <2>1, BytesConcat
  <2>3. \A k \in 1..n : m[k] = msg[k]
    BY <2>1, BytesConcat
  <2>4. \A k \in 1..Len(c) : m[n + k] = c[k]
    BY <2>1, BytesConcat
  <2> QED
    BY <1>1, <2>2, <2>3, <2>4
<1>9. m[n + 1] = c[1] /\ m[n + 2] = c[2]
  BY <1>1, <1>3
<1> HIDE DEF m
<1>4. s[n] = r
  <2>1. n <= Len(m) /\ n <= Len(msg)
    BY <1>2, <1>3
  <2> QED
    BY <1>2, <1>3, <2>1, RegistersSame
<1>5. \A k \in 1..Len(m) : s[k] = CrcStep(s[k - 1], m[k])
  BY <1>3, RegistersAre
<1> HIDE DEF n, r, s
<1>6. s[n + 1] = CrcStep(r, Lo(r))
  <2>1. n + 1 \in 1..Len(m) /\ (n + 1) - 1 = n
    BY <1>2, <1>3
  <2> QED
    BY <1>1, <1>4, <1>5, <1>9, <2>1
<1>7. s[n + 2] = CrcStep(s[n + 1], Hi(r))
  <2>1. n + 2 \in 1..Len(m) /\ (n + 2) - 1 = n + 1
    BY <1>2, <1>3
  <2> QED
    BY <1>1, <1>5, <1>9, <2>1
<1>8. s[n + 2] = 0
  BY <1>2, <1>6, <1>7, StepResidue
<1>10. get_crc(m) = <<Lo(s[n + 2]), Hi(s[n + 2])>>
  BY <1>3 DEF get_crc, s
<1>11. Lo(0) = 0 /\ Hi(0) = 0
  BY DEF Lo, Hi
<1> QED
  BY <1>8, <1>10, <1>11 DEF c, m


(* The CRC of one byte alone that has 2 for its high byte: it is that of   *)
(* slave 249, and its low byte is 127.                                     *)
LEMMA LoneByte ==
  ASSUME NEW b \in Byte, get_crc(<<b>>)[2] = 2
  PROVE  get_crc(<<b>>)[1] = 127
<1> DEFINE m == <<b>>
           r == Registers(m)[1]
           i == Xor16(255, b)
<1>1. m \in Seq(Byte) /\ Len(m) = 1 /\ m[1] = b
  OBVIOUS
<1> HIDE DEF m
<1>2. get_crc(m)[1] = Lo(r) /\ get_crc(m)[2] = Hi(r)
  BY <1>1, CrcBytes
<1>3. r = CrcStep(65535, b)
  BY <1>1, RegistersAre
<1>4. Hi(65535) = 255 /\ Lo(65535) = 255
  BY DEF Hi, Lo
<1>5. i \in Byte /\ r = Xor16(255, look_up_table[i]) /\ Hi(r) = Hi(look_up_table[i])
  BY <1>3, <1>4, AllOnes, StepTyped
<1> HIDE DEF i
<1>6. i = 6
  <2>1. Hi(look_up_table[6]) = 2
    BY TableSix DEF Hi
  <2> QED
    BY <1>2, <1>5, <2>1, SmallBytes, TableInjective DEF m
<1>7. r = Xor16(255, 640)
  BY <1>5, <1>6, TableSix
<1>8. Xor16(255, 640) % 256 = 127
  BY DEF Xor16, XorNibbles
<1> QED
  BY <1>2, <1>7, <1>8 DEF m, Lo

-----------------------------------------------------------------------------
(* Frames.                                                                 *)

LEMMA SeqByteEq ==
  ASSUME NEW s \in Seq(Byte), NEW t \in Seq(Byte), Len(s) = Len(t),
         \A k \in 1..Len(s) : s[k] = t[k]
  PROVE  s = t
OBVIOUS

IsPart(r, s, a, n) ==
  /\ r \in Seq(Byte)
  /\ Len(r) = n
  /\ \A k \in 1..n : r[k] = s[a + k]

LEMMA SliceIs ==
  ASSUME NEW s \in Seq(Byte), NEW a \in Nat, NEW b \in Nat, a <= b, b <= Len(s)
  PROVE  /\ Slice(s, a, b) = SubSeq(s, a + 1, b)
         /\ IsPart(Slice(s, a, b), s, a, b - a)
<1> DEFINE r == SubSeq(s, a + 1, b)
<1>1. Slice(s, a, b) = r
  <2>1. b = Len(s) \/ b < Len(s)
    OBVIOUS
  <2> QED
    BY <2>1 DEF Slice
<1>2. a + 1 \in 1..Len(s) + 1 /\ b \in a..Len(s) /\ Len(s) \in Nat
  OBVIOUS
<1>3. r \in Seq(Byte) /\ Len(r) = b - a
  <2>1. CASE a + 1 <= b
    BY <1>2, <2>1
  <2>2. CASE a = b
    BY <1>2, <2>2
  <2> QED
    BY <2>1, <2>2
<1>4. ASSUME NEW k \in 1..b - a PROVE r[k] = s[a + k]
  BY <1>2, <1>4
<1> HIDE DEF r
<1> QED
  BY <1>1, <1>3, <1>4 DEF IsPart, r

LEMMA PrefixIs ==
  ASSUME NEW s \in Seq(Byte), NEW b \in Nat, b <= Len(s)
  PROVE  IsPart(Slice(s, 0, b), s, 0, b)
<1> DEFINE a == 0
<1>1. a \in Nat /\ a <= b /\ b - a = b
  OBVIOUS
<1> HIDE DEF a
<1>2. IsPart(Slice(s, a, b), s, a, b - a)
  BY <1>1, SliceIs
<1> QED
  BY <1>1, <1>2 DEF a

LEMMA PartEq ==
  ASSUME NEW r, NEW t \in Seq(Byte), NEW s, NEW a, NEW n, IsPart(r, s, a, n), Len(t) = n,
         \A k \in 1..n : s[a + k] = t[k]
  PROVE  r = t
BY SeqByteEq DEF IsPart

IsConcat(u, s, t) ==
  /\ u \in Seq(Byte)
  /\ Len(u) = Len(s) + Len(t)
  /\ Len(s) \in Nat /\ Len(t) \in Nat
  /\ \A k \in 1..Len(s) : u[k] = s[k]
  /\ \A k \in 1..Len(t) : u[Len(s) + k] = t[k]

LEMMA ConcatIs ==
  ASSUME NEW s \in Seq(Byte), NEW t \in Seq(Byte)
  PROVE  IsConcat(s \o t, s, t)
<1> DEFINE u == s \o t
<1>1. u \in Seq(Byte) /\ Len(u) = Len(s) + Len(t) /\ Len(s) \in Nat /\ Len(t) \in Nat
  BY BytesConcat
<1>2. \A k \in 1..Len(s) : u[k] = s[k]
  BY BytesConcat
<1>3. \A k \in 1..Len(t) : u[Len(s) + k] = t[k]
  BY BytesConcat
<1> HIDE DEF u
<1>4. IsConcat(u, s, t)
  BY <1>1, <1>2, <1>3 DEF IsConcat
<1> QED
  BY <1>4 DEF u

LEMMA ConcatSlices ==
  ASSUME NEW s \in Seq(Byte), NEW t \in Seq(Byte)
  PROVE  /\ Slice(s \o t, 0, Len(s)) = s
         /\ Slice(s \o t, Len(s), Len(s) + Len(t)) = t
<1> DEFINE u == s \o t
           n == Len(s)
           m == Len(t)
           b == n + m
<1>1. IsConcat(u, s, t)
  BY ConcatIs
<1> HIDE DEF u
<1>2. /\ u \in Seq(Byte) /\ Len(u) = n + m /\ n \in Nat /\ m \in Nat
      /\ \A k \in 1..n : u[k] = s[k]
      /\ \A k \in 1..m : u[n + k] = t[k]
  BY <1>1 DEF IsConcat
<1>3. b \in Nat /\ n <= b /\ b <= Len(u) /\ b - n = m /\ n <= Len(u)
  BY <1>2
<1> HIDE DEF n, m, b
<1>4. Slice(u, 0, n) = s
  <2>1. IsPart(Slice(u, 0, n), u, 0, n)
    BY <1>2, <1>3, PrefixIs
  <2>2. Len(s) = n /\ \A k \in 1..n : u[0 + k] = s[k]
    BY <1>2 DEF n
  <2> QED
    BY <2>1, <2>2, PartEq
<1>5. Slice(u, n, b) = t
  <2>1. IsPart(Slice(u, n, b), u, n, m)
    BY <1>2, <1>3, SliceIs
  <2>2. Len(t) = m
    BY DEF m
  <2> QED
    BY <1>2, <2>1, <2>2, PartEq
<1> QED
  BY <1>4, <1>5 DEF u, n, m, b

(* A frame that carries its CRC.                                           *)
Framed(m) == m \o get_crc(m)

IsTail(l, w, s) ==
  /\ l \in Seq(Byte) /\ Len(l) = 2
  /\ l[1] = s[Len(s) - 1]
  /\ l[2] = s[Len(s)]
  /\ w \in Seq(Byte) /\ Len(w) = Len(s) - 2
  /\ \A k \in 1..Len(s) - 2 : w[k] = s[k]

LEMMA LastTwo ==
  ASSUME NEW s \in Seq(Byte), Len(s) >= 2
  PROVE  IsTail(LastBytes(s, 2), Without(s, 2), s)
<1> DEFINE n == Len(s) a == Len(s) - 2
<1>1. n \in Nat /\ a \in Nat /\ a <= n /\ a + 1 = n - 1 /\ a + 2 = n /\ n - a = 2
  OBVIOUS
<1>2. LastBytes(s, 2) = SubSeq(s, a + 1, n)
  <2>1. ~(Len(s) < 2) /\ (Len(s) - 2) + 1 = a + 1
    OBVIOUS
  <2> QED
    BY <2>1 DEF LastBytes
<1>3. Without(s, 2) = Slice(s, 0, a)
  BY DEF Without
<1>9. a = Len(s) - 2 /\ n = Len(s) /\ a <= Len(s) /\ n <= Len(s)
  OBVIOUS
<1> HIDE DEF n, a
<1> DEFINE l == Slice(s, a, n) w == Slice(s, 0, a)
<1>4. l = SubSeq(s, a + 1, n) /\ IsPart(l, s, a, n - a)
  BY <1>1, <1>9, SliceIs
<1>5. IsPart(w, s, 0, a)
  BY <1>1, <1>9, PrefixIs
<1> HIDE DEF l, w
<1>6. l \in Seq(Byte) /\ Len(l) = 2 /\ l[1] = s[n - 1] /\ l[2] = s[n]
  BY <1>1, <1>4 DEF IsPart
<1>7. w \in Seq(Byte) /\ Len(w) = a /\ \A k \in 1..a : w[k] = s[k]
  BY <1>1, <1>5 DEF IsPart
<1>8. IsTail(l, w, s)
  BY <1>6, <1>7, <1>9 DEF IsTail
<1> QED
  BY <1>2, <1>3, <1>4, <1>8 DEF w

LEMMA CrcPair ==
  ASSUME NEW m \in Seq(Byte)
  PROVE  get_crc(m) \in Seq(Byte) /\ Len(get_crc(m)) = 2
BY CrcBytes

LEMMA FramedIs ==
  ASSUME NEW m \in Seq(Byte)
  PROVE  /\ Framed(m) \in Seq(Byte) /\ Len(Framed(m)) = Len(m) + 2 /\ Len(m) \in Nat
         /\ \A k \in 1..Len(m) : Framed(m)[k] = m[k]
         /\ Without(Framed(m), 2) = m
         /\ LastBytes(Framed(m), 2) = get_crc(m)
         /\ validate_crc(Framed(m)) = "none"
<1> DEFINE c == get_crc(m) f == Framed(m) n == Len(m)
<1>1. c \in Seq(Byte) /\ Len(c) = 2
  BY CrcPair
<1>0. c = get_crc(m)
  OBVIOUS
<1>2. f = m \o c
  BY DEF Framed
<1> HIDE DEF c, f
<1>3. IsConcat(f, m, c)
  BY <1>1, <1>2, ConcatIs
<1>4. /\ f \in Seq(Byte) /\ Len(f) = n + 2 /\ n \in Nat
      /\ \A k \in 1..n : f[k] = m[k]
      /\ f[n + 1] = c[1] /\ f[n + 2] = c[2]
  BY <1>1, <1>3 DEF IsConcat
<1> DEFINE l == LastBytes(f, 2) w == Without(f, 2)
<1>6. IsTail(l, w, f)
  BY <1>4, LastTwo
<1> HIDE DEF l, w
<1>7. l = c
  <2>1. l \in Seq(Byte) /\ Len(l) = 2 /\ l[1] = c[1] /\ l[2] = c[2]
    BY <1>4, <1>6 DEF IsTail
  <2> QED
    BY <1>1, <2>1, SeqByteEq
<1>8. w = m
  <2>1. w \in Seq(Byte) /\ Len(w) = Len(m) /\ \A k \in 1..Len(w) : w[k] = m[k]
    BY <1>4, <1>6 DEF IsTail
  <2> QED
    BY <2>1, SeqByteEq
<1>9. validate_crc(f) = "none"
  <2>1. ~(Len(f) < 2)
    BY <1>4
  <2> QED
    BY <1>0, <1>7, <1>8, <2>1 DEF validate_crc, l, w
<1> QED
  BY <1>0, <1>4, <1>7, <1>8, <1>9 DEF f, l, w

OneDiffers(f, g) ==
  /\ Len(g) = Len(f)
  /\ \E i \in 1..Len(f) : g[i] # f[i] /\ \A k \in 1..Len(f) : k # i => g[k] = f[k]

(* A frame with one byte damaged, in the message or in the CRC, is refused *)
(* by validate_crc.                                                        *)
THEOREM DamageFound ==
  ASSUME NEW m \in Seq(Byte), NEW g \in Seq(Byte), OneDiffers(Framed(m), g)
  PROVE  validate_crc(g) = "CRCError"
<1> DEFINE f == Framed(m) n == Len(m) c == get_crc(m) w == Without(g, 2) l == LastBytes(g, 2)
           x == Without(f, 2) y == LastBytes(f, 2)
<1>1. f \in Seq(Byte) /\ Len(f) = n + 2 /\ n \in Nat /\ x = m /\ y = c
  BY FramedIs
<1>2. Len(g) = n + 2
  BY <1>1 DEF OneDiffers
<1>3. PICK i \in 1..n + 2 : g[i] # f[i] /\ \A k \in 1..n + 2 : k # i => g[k] = f[k]
  BY <1>1 DEF OneDiffers
<1> HIDE DEF f
<1>4. IsTail(l, w, g)
  BY <1>1, <1>2, LastTwo
<1>5. IsTail(y, x, f)
  BY <1>1, <1>2, LastTwo
<1> HIDE DEF w, l, x, y
<1>6. l[1] = g[n + 1] /\ l[2] = g[n + 2] /\ Len(w) = n /\ w \in Seq(Byte) /\ \A k \in 1..n : w[k] = g[k]
  BY <1>1, <1>2, <1>4 DEF IsTail
<1>7. c[1] = f[n + 1] /\ c[2] = f[n + 2] /\ \A k \in 1..n : m[k] = f[k]
  BY <1>1, <1>5 DEF IsTail
<1>8. get_crc(w) # l
  <2>1. CASE i <= n
    <3>1. i \in 1..n /\ n + 1 # i /\ n + 2 # i
      BY <1>1, <2>1
    <3>2. w[i] # m[i] /\ \A k \in 1..n : k # i => w[k] = m[k]
      <4>1. n \in Nat
        BY <1>1
      <4> HIDE DEF n
      <4>2. \A k \in 1..n : k \in 1..n + 2
        BY <4>1
      <4>3. w[i] = g[i] /\ m[i] = f[i]
        BY <1>6, <1>7, <3>1
      <4>4. \A k \in 1..n : w[k] = g[k] /\ m[k] = f[k] /\ (k # i => g[k] = f[k])
        BY <1>3, <1>6, <1>7, <4>2
      <4> QED
        BY <1>3, <4>3, <4>4
    <3>3. get_crc(w) # c
      BY <1>6, <3>1, <3>2, CrcDiffers
    <3>4. l[1] = c[1] /\ l[2] = c[2]
      BY <1>1, <1>3, <1>6, <1>7, <3>1
    <3>5. get_crc(w) \in Seq(Byte) /\ Len(get_crc(w)) = 2 /\ c \in Seq(Byte) /\ Len(c) = 2
      BY <1>6, CrcPair
    <3> DEFINE d == get_crc(w)
    <3> HIDE DEF d, c
    <3>6. d # c => d[1] # c[1] \/ d[2] # c[2]
      BY <3>5, SeqByteEq DEF d
    <3> QED
      BY <3>3, <3>4, <3>6 DEF d
  <2>2. CASE i > n
    <3>1. \A k \in 1..n : k # i
      BY <1>1, <2>2
    <3>2. w = m
      BY <1>1, <1>3, <1>6, <1>7, <3>1, SeqByteEq
    <3>3. i = n + 1 \/ i = n + 2
      BY <1>1, <2>2
    <3>4. l[1] # c[1] \/ l[2] # c[2]
      BY <1>3, <1>6, <1>7, <3>3
    <3> QED
      BY <3>2, <3>4
  <2> QED
    BY <1>1, <2>1, <2>2
<1>9. ~(Len(g) < 2)
  BY <1>1, <1>2
<1> QED
  BY <1>8, <1>9 DEF validate_crc, l, w

(* What looks like a frame with its CRC twice is a frame that ends in two  *)
(* zero bytes.                                                             *)
LEMMA DoubleIsFrame ==
  ASSUME NEW g \in Seq(Byte), Len(g) >= 4, DoubleCrc(g)
  PROVE  /\ validate_crc(g) = "none"
         /\ Without(g, 2) = Framed(Without(g, 4))
         /\ Without(g, 4) \in Seq(Byte) /\ Len(Without(g, 4)) = Len(g) - 4
         /\ \A k \in 1..Len(g) - 4 : Without(g, 4)[k] = g[k]
<1> DEFINE n == Len(g)
           a == Len(g) - 4
           b == Len(g) - 2
           m == Slice(g, 0, a)
           c == SubSeq(g, Len(g) - 3, Len(g) - 2)
           f == Without(g, 2)
           l == LastBytes(g, 2)
<1>1. /\ n \in Nat /\ a \in Nat /\ b \in Nat /\ a <= n /\ b <= n /\ a <= b /\ n = a + 4 /\ b = a + 2
      /\ n = Len(g) /\ b - a = 2 /\ a + 1 = Len(g) - 3 /\ Len(g) >= 2
  OBVIOUS
<1>2. Without(g, 4) = m /\ l = <<0, 0>> /\ get_crc(m) = c
  BY DEF DoubleCrc, Without
<1>3. c = SubSeq(g, a + 1, b)
  BY <1>1
<1> HIDE DEF n, a, b, c
<1>4. IsPart(m, g, 0, a)
  BY <1>1, PrefixIs
<1>5. IsPart(c, g, a, 2)
  <2>1. /\ Slice(g, a, b) = SubSeq(g, a + 1, b)
        /\ IsPart(Slice(g, a, b), g, a, b - a)
    BY <1>1, SliceIs
  <2> QED
    BY <1>1, <1>3, <2>1
<1>6. IsTail(l, f, g)
  BY <1>1, LastTwo
<1> HIDE DEF m, f, l
<1>7. m \in Seq(Byte) /\ Len(m) = a /\ c \in Seq(Byte) /\ Len(c) = 2 
      /\ f \in Seq(Byte) /\ Len(f) = a + 2
  BY <1>1, <1>4, <1>5, <1>6 DEF IsPart, IsTail
<1>8. f = Framed(m)
  <2> DEFINE h == m \o c
  <2>1. IsConcat(h, m, c)
    BY <1>7, ConcatIs
  <2> HIDE DEF h
  <2>2. h \in Seq(Byte) /\ Len(h) = a + 2
    BY <1>7, <2>1 DEF IsConcat
  <2>3. ASSUME NEW k \in 1..a + 2 PROVE f[k] = h[k]
    <3>1. f[k] = g[k]
      BY <1>1, <1>6 DEF IsTail
    <3>2. CASE k \in 1..a
      BY <1>4, <1>7, <2>1, <3>1, <3>2 DEF IsPart, IsConcat
    <3>3. CASE k = a + 1
      <4>1. h[a + 1] = c[1]
        BY <1>7, <2>1 DEF IsConcat
      <4> QED
        BY <1>5, <3>1, <3>3, <4>1 DEF IsPart
    <3>4. CASE k = a + 2
      <4>1. h[a + 2] = c[2]
        BY <1>7, <2>1 DEF IsConcat
      <4> QED
        BY <1>5, <3>1, <3>4, <4>1 DEF IsPart
    <3> QED
      BY <1>1, <3>2, <3>3, <3>4
  <2>4. f = h
    BY <1>1, <1>7, <2>2, <2>3, SeqByteEq
  <2> QED
    BY <1>2, <2>4 DEF Framed, h
<1>9. get_crc(f) = <<0, 0>>
  BY <1>7, <1>8, CrcResidue DEF Framed
<1>10. validate_crc(g) = "none"
  <2>1. ~(Len(g) < 2)
    BY <1>1
  <2> QED
    BY <1>2, <1>9, <2>1 DEF validate_crc, f, l
<1> QED
  BY <1>1, <1>2, <1>4, <1>7, <1>8, <1>10 DEF IsPart, f

(* A damaged frame does not look like one that carries its CRC twice.      *)
LEMMA DamageNotDouble ==
  ASSUME NEW m \in Seq(Byte), Len(m) >= 2, NEW g \in Seq(Byte), OneDiffers(Framed(m), g)
  PROVE  ~DoubleCrc(g)
<1>1. validate_crc(g) # "none"
  BY DamageFound
<1>2. Len(g) >= 4
  BY FramedIs DEF OneDiffers
<1> QED
  BY <1>1, <1>2, DoubleIsFrame

(* The two zero bytes that some data loggers append make a frame look as   *)
(* if it had two CRCs, whatever it holds, and the correction of pysolarman *)
(* takes them off again.                                                   *)
THEOREM ZerosTakenOff ==
  ASSUME NEW m \in Seq(Byte)
  PROVE  LET g == Framed(m) \o <<0, 0>>
         IN  DoubleCrc(g) /\ Without(g, 2) = Framed(m) /\ g \in Seq(Byte) /\ Len(g) = Len(m) + 4
<1> DEFINE f == Framed(m)
           z == <<0, 0>>
           g == f \o z
           c == get_crc(m)
           n == Len(m)
           a == Len(g) - 4
           b == Len(g) - 2
           d == SubSeq(g, Len(g) - 3, Len(g) - 2)
<1>1. /\ f \in Seq(Byte) /\ Len(f) = n + 2 /\ n \in Nat /\ LastBytes(f, 2) = c
      /\ \A k \in 1..n : f[k] = m[k] 
  BY FramedIs
<1>2. z \in Seq(Byte) /\ Len(z) = 2 /\ z[1] = 0 /\ z[2] = 0 /\ z = <<0, 0>>
  BY SmallBytes
<1>12. c \in Seq(Byte) /\ Len(c) = 2
  BY CrcPair
<1> HIDE DEF z, f
<1>3. IsConcat(g, f, z)
  BY <1>1, <1>2, ConcatIs
<1> HIDE DEF g, n
<1>4. g \in Seq(Byte) /\ Len(g) = n + 4 /\ Len(g) >= 2
  BY <1>1, <1>2, <1>3 DEF IsConcat
<1>5. IsTail(LastBytes(g, 2), Without(g, 2), g)
  BY <1>4, LastTwo
<1>6. LastBytes(g, 2) = z
  <2>1. g[n + 3] = 0 /\ g[n + 4] = 0
    BY <1>1, <1>2, <1>3 DEF IsConcat
  <2> DEFINE l == LastBytes(g, 2)
  <2> HIDE DEF l
  <2>2. l \in Seq(Byte) /\ Len(l) = 2 /\ l[1] = z[1] /\ l[2] = z[2]
    BY <1>1, <1>2, <1>4, <1>5, <2>1 DEF IsTail, l
  <2>3. l = z
    BY <1>2, <2>2, SeqByteEq
  <2> QED
    BY <2>3 DEF l
<1>7. Without(g, 2) = f
  <2> DEFINE w == Without(g, 2)
  <2> HIDE DEF w
  <2>1. w \in Seq(Byte) /\ Len(w) = Len(f) /\ \A k \in 1..Len(f) : w[k] = f[k]
    BY <1>1, <1>3, <1>4, <1>5 DEF IsTail, IsConcat, w
  <2>2. w = f
    BY <1>1, <2>1, SeqByteEq
  <2> QED
    BY <2>2 DEF w
<1>8. /\ a \in Nat /\ b \in Nat /\ a <= b /\ b <= Len(g) /\ a = n /\ b = n + 2 /\ b - a = 2 /\ a <= Len(g)
      /\ a + 1 = Len(g) - 3 /\ b = Len(g) - 2 /\ a = Len(g) - 4
  BY <1>1, <1>4
<1>9. Without(g, 4) = Slice(g, 0, a)
  BY DEF Without
<1>10. d = SubSeq(g, a + 1, b)
  BY <1>8
<1> HIDE DEF a, b, d
<1>11. Slice(g, 0, a) = m
  <2>1. IsPart(Slice(g, 0, a), g, 0, a)
    BY <1>4, <1>8, PrefixIs
  <2>2. Len(m) = a /\ \A k \in 1..a : g[0 + k] = m[k]
    <3>1. \A k \in 1..n : g[k] = f[k]
      BY <1>1, <1>3 DEF IsConcat
    <3> QED
      BY <1>1, <1>8, <3>1 DEF n
  <2> QED
    BY <2>1, <2>2, PartEq
<1>13. d = c
  <2>1. /\ Slice(g, a, b) = SubSeq(g, a + 1, b)
        /\ IsPart(Slice(g, a, b), g, a, b - a)
    BY <1>4, <1>8, SliceIs
  <2>2. IsPart(d, g, a, 2)
    BY <1>8, <1>10, <2>1
  <2>3. IsTail(c, Without(f, 2), f)
    <3>1. Len(f) >= 2
      BY <1>1
    <3> QED
      BY <1>1, <3>1, LastTwo
  <2>4. g[a + 1] = c[1] /\ g[a + 2] = c[2]
    <3>1. a + 1 = Len(f) - 1 /\ a + 2 = Len(f) /\ Len(f) - 1 \in 1..Len(f) /\ Len(f) \in 1..Len(f)
      BY <1>1, <1>8
    <3>2. \A k \in 1..Len(f) : g[k] = f[k]
      BY <1>3 DEF IsConcat
    <3>3. c[1] = f[Len(f) - 1] /\ c[2] = f[Len(f)]
      BY <2>3 DEF IsTail
    <3> QED
      BY <3>1, <3>2, <3>3
  <2>5. \A k \in 1..2 : g[a + k] = c[k]
    BY <2>4
  <2> QED
    BY <1>12, <2>2, <2>5, PartEq
<1>14. DoubleCrc(g)
  BY <1>2, <1>6, <1>9, <1>11, <1>13 DEF DoubleCrc, d
<1> QED
  BY <1>4, <1>7, <1>14 DEF f, g, z, n


LEMMA LoneFirst ==
  ASSUME NEW b \in Byte
  PROVE  <<b>> \in Seq(Byte) /\ Len(<<b>>) = 1 /\ <<b>>[1] = b
OBVIOUS

Addressed(slave, pdu) == <<slave>> \o pdu

LEMMA AddressedIs ==
  ASSUME NEW slave \in Byte, NEW pdu \in Seq(Byte)
  PROVE  /\ Addressed(slave, pdu) \in Seq(Byte)
         /\ Len(Addressed(slave, pdu)) = Len(pdu) + 1 /\ Len(pdu) \in Nat
         /\ Addressed(slave, pdu)[1] = slave
         /\ \A k \in 1..Len(pdu) : Addressed(slave, pdu)[k + 1] = pdu[k]
<1> DEFINE h == <<slave>> u == Addressed(slave, pdu)
<1>1. h \in Seq(Byte) /\ Len(h) = 1 /\ h[1] = slave
  BY LoneFirst
<1>2. u = h \o pdu
  BY DEF Addressed
<1> HIDE DEF h, u
<1>3. IsConcat(u, h, pdu)
  BY <1>1, <1>2, ConcatIs
<1>4. \A k \in 1..Len(pdu) : u[k + 1] = pdu[k]
  <2> TAKE k \in 1..Len(pdu)
  <2>1. u[Len(h) + k] = pdu[k] /\ Len(h) + k = k + 1
    BY <1>1, <1>3 DEF IsConcat
  <2> QED
    BY <2>1
<1>5. u \in Seq(Byte) /\ Len(u) = Len(pdu) + 1 /\ Len(pdu) \in Nat /\ u[1] = slave
  BY <1>1, <1>3 DEF IsConcat
<1> QED
  BY <1>4, <1>5 DEF u

(* A PDU in an RTU frame comes out of it as it was, and the frame is       *)
(* valid: create_request_adu and create_response_adu against validate_crc  *)
(* and the slices of parse_response_adu and the server.                    *)
THEOREM RtuFrame ==
  ASSUME NEW slave \in Byte, NEW pdu \in Seq(Byte)
  PROVE  /\ RtuAdu(slave, pdu) = Framed(Addressed(slave, pdu))
         /\ RtuAdu(slave, pdu) \in Seq(Byte)
         /\ Len(RtuAdu(slave, pdu)) = Len(pdu) + 3 /\ Len(pdu) \in Nat
         /\ RtuAdu(slave, pdu)[1] = slave
         /\ \A k \in 1..Len(pdu) : RtuAdu(slave, pdu)[k + 1] = pdu[k]
         /\ validate_crc(RtuAdu(slave, pdu)) = "none"
         /\ RtuPdu(RtuAdu(slave, pdu)) = pdu
<1> DEFINE a == Addressed(slave, pdu) f == RtuAdu(slave, pdu)
<1>1. f = Framed(a)
  BY DEF RtuAdu, Framed, Addressed
<1>2. a \in Seq(Byte) /\ Len(a) = Len(pdu) + 1 /\ Len(pdu) \in Nat /\ a[1] = slave
  BY AddressedIs
<1>3. \A k \in 1..Len(pdu) : a[k + 1] = pdu[k]
  BY AddressedIs
<1>4. a = Addressed(slave, pdu)
  OBVIOUS
<1> HIDE DEF a, f
<1>5. f \in Seq(Byte) /\ Len(f) = Len(a) + 2 /\ validate_crc(f) = "none"
  BY <1>1, <1>2, FramedIs
<1>6. \A k \in 1..Len(a) : f[k] = a[k]
  BY <1>1, <1>2, FramedIs
<1>7. Len(f) = Len(pdu) + 3 /\ f[1] = slave
  BY <1>2, <1>5, <1>6
<1>8. \A k \in 1..Len(pdu) : f[k + 1] = pdu[k]
  <2> TAKE k \in 1..Len(pdu)
  <2>1. k + 1 \in 1..Len(a)
    BY <1>2
  <2> QED
    BY <1>3, <1>6, <2>1
<1>9. RtuPdu(f) = pdu
  <2> DEFINE b == Len(f) - 2 n == Len(pdu) one == 1
  <2>1. b \in Nat /\ one \in Nat /\ one <= b /\ b <= Len(f) /\ b - one = n
    BY <1>2, <1>7
  <2>2. RtuPdu(f) = Slice(f, one, b)
    BY DEF RtuPdu
  <2>3. \A k \in 1..n : f[one + k] = pdu[k]
    <3> TAKE k \in 1..n
    <3>1. one + k = k + 1
      OBVIOUS
    <3> QED
      BY <1>8, <3>1
  <2>4. Len(pdu) = n
    OBVIOUS
  <2> HIDE DEF b, n, one
  <2>5. IsPart(Slice(f, one, b), f, one, n)
    BY <1>5, <2>1, SliceIs
  <2> QED
    BY <2>2, <2>3, <2>4, <2>5, PartEq
<1> QED
  BY <1>1, <1>2, <1>4, <1>5, <1>7, <1>8, <1>9 DEF f

(* The same with the header of Modbus TCP.                                 *)
LEMMA MbapIs ==
  ASSUME NEW transaction \in Word, NEW unit \in Byte, NEW pdu \in Seq(Byte), Len(pdu) + 1 \in Word
  PROVE  /\ pack_mbap(transaction, unit, pdu) \in Seq(Byte)
         /\ Len(pack_mbap(transaction, unit, pdu)) = 7
         /\ WordAt(pack_mbap(transaction, unit, pdu), 1) = transaction
         /\ pack_mbap(transaction, unit, pdu)[6] = Lo(Len(pdu) + 1)
         /\ pack_mbap(transaction, unit, pdu)[7] = unit
<1> DEFINE t1 == Hi(transaction) t2 == Lo(transaction) l1 == Hi(Len(pdu) + 1) l2 == Lo(Len(pdu) + 1)
           z1 == Hi(0) z2 == Lo(0) h == pack_mbap(transaction, unit, pdu)
<1>1. t1 \in Byte /\ t2 \in Byte /\ l1 \in Byte /\ l2 \in Byte /\ z1 \in Byte /\ z2 \in Byte
      /\ 256 * t1 + t2 = transaction /\ l2 = Lo(Len(pdu) + 1)
  BY HiLo, ZeroWord
<1> DEFINE A == <<t1, t2>> B == <<z1, z2>> C == <<l1, l2>> D == <<unit>>
           E == A \o B F == E \o C G == F \o D
<1>2. h = G
  BY DEF pack_mbap, PackWord
<1> HIDE DEF t1, t2, l1, l2, z1, z2, h
<1>3. /\ A \in Seq(Byte) /\ Len(A) = 2 /\ A[1] = t1 /\ A[2] = t2
      /\ B \in Seq(Byte) /\ Len(B) = 2
      /\ C \in Seq(Byte) /\ Len(C) = 2 /\ C[2] = l2
      /\ D \in Seq(Byte) /\ Len(D) = 1 /\ D[1] = unit
  BY <1>1
<1> HIDE DEF A, B, C, D
<1>4. IsConcat(E, A, B)
  BY <1>3, ConcatIs
<1> HIDE DEF E
<1>7. E \in Seq(Byte) /\ Len(E) = 4 /\ E[1] = t1 /\ E[2] = t2
  BY <1>3, <1>4 DEF IsConcat
<1>8. IsConcat(F, E, C)
  BY <1>3, <1>7, ConcatIs
<1> HIDE DEF F
<1>9. F \in Seq(Byte) /\ Len(F) = 6 /\ F[1] = t1 /\ F[2] = t2 /\ F[6] = l2
  BY <1>3, <1>7, <1>8 DEF IsConcat
<1>10. IsConcat(G, F, D)
  BY <1>3, <1>9, ConcatIs
<1> HIDE DEF G
<1>5. h \in Seq(Byte) /\ Len(h) = 7 /\ h[1] = t1 /\ h[2] = t2 /\ h[6] = l2 /\ h[7] = unit
  BY <1>2, <1>3, <1>9, <1>10 DEF IsConcat
<1>6. WordAt(h, 1) = transaction
  BY <1>1, <1>5 DEF WordAt
<1> QED
  BY <1>1, <1>5, <1>6 DEF h

(* The same with the MBAP header of Modbus TCP.                            *)
THEOREM TcpFrame ==
  ASSUME NEW transaction \in Word, NEW unit \in Byte, NEW pdu \in Seq(Byte), Len(pdu) + 1 \in Word
  PROVE  /\ TcpAdu(transaction, unit, pdu) \in Seq(Byte)
         /\ Len(TcpAdu(transaction, unit, pdu)) = Len(pdu) + 7 /\ Len(pdu) \in Nat
         /\ WordAt(TcpAdu(transaction, unit, pdu), 1) = transaction
         /\ TcpAdu(transaction, unit, pdu)[6] = Lo(Len(pdu) + 1)
         /\ TcpAdu(transaction, unit, pdu)[7] = unit
         /\ \A k \in 1..Len(pdu) : TcpAdu(transaction, unit, pdu)[k + 7] = pdu[k]
         /\ TcpPdu(TcpAdu(transaction, unit, pdu)) = pdu
<1> DEFINE h == pack_mbap(transaction, unit, pdu) f == TcpAdu(transaction, unit, pdu) n == Len(pdu)
<1>1. h \in Seq(Byte) /\ Len(h) = 7 /\ WordAt(h, 1) = transaction /\ h[6] = Lo(Len(pdu) + 1) /\ h[7] = unit
  BY MbapIs
<1>2. f = h \o pdu
  BY DEF TcpAdu
<1> HIDE DEF h, f
<1>3. IsConcat(f, h, pdu)
  BY <1>1, <1>2, ConcatIs
<1>4. f \in Seq(Byte) /\ Len(f) = n + 7 /\ n \in Nat /\ f[6] = h[6] /\ f[7] = h[7] /\ f[1] = h[1] /\ f[2] = h[2]
  BY <1>1, <1>3 DEF IsConcat
<1>5. WordAt(f, 1) = transaction
  BY <1>1, <1>4 DEF WordAt
<1>6. \A k \in 1..n : f[k + 7] = pdu[k]
  <2> TAKE k \in 1..n
  <2>1. f[Len(h) + k] = pdu[k] /\ Len(h) + k = k + 7
    BY <1>1, <1>3 DEF IsConcat
  <2> QED
    BY <2>1
<1>7. TcpPdu(f) = pdu
  <2>1. Slice(f, Len(h), Len(h) + Len(pdu)) = pdu
    BY <1>1, <1>2, ConcatSlices
  <2>2. Len(h) = 7 /\ Len(h) + Len(pdu) = Len(f)
    BY <1>1, <1>4
  <2> QED
    BY <2>1, <2>2 DEF TcpPdu
<1> QED
  BY <1>1, <1>4, <1>5, <1>6, <1>7 DEF f

-----------------------------------------------------------------------------
(* Requests.                                                               *)

(* The instance as its endpoints get it: a coil is 0 or 1.                 *)
Received(i) ==
  IF i.fn = WriteSingleCoil
  THEN Writer(WriteSingleCoil, i.address, <<CoilValue(i.values[1])>>)
  ELSE i

Understands(i, pdu) ==
  /\ pdu \in Seq(Byte) /\ Len(pdu) >= 5 /\ Len(pdu) <= 261
  /\ pdu[1] = i.fn.code
  /\ create_function_from_request_pdu(pdu) = Returns(Received(i))
  /\ i.fn.does = "read" => Len(pdu) = 5 /\ QuantityOf(pdu) = i.quantity

(* The eight functions, told apart once and for all.                       *)
LEMMA FunctionFacts ==
  /\ \A f \in Readers : /\ f.does = "read" /\ f # WriteSingleCoil /\ f.code \in 1..4 
                        /\ (f.max = 125 \/ f.max = 2000) /\ f \in function_code_to_function_map
  /\ WriteSingleCoil.code = 5 /\ WriteSingleCoil.does = "writeone" /\ WriteSingleCoil.max = 1
  /\ WriteSingleCoil.domain = {0, 1, CoilOn}
  /\ WriteSingleRegister.code = 6 /\ WriteSingleRegister.does = "writeone" 
  /\ WriteSingleRegister.max = 1 /\ WriteSingleRegister.domain = Word
  /\ WriteMultipleCoils.code = 15 /\ WriteMultipleCoils.does = "writemany" 
  /\ WriteMultipleCoils.max = 1968 /\ WriteMultipleCoils.domain = {0, 1}
  /\ WriteMultipleRegisters.code = 16 /\ WriteMultipleRegisters.does = "writemany" 
  /\ WriteMultipleRegisters.max = 1968 /\ WriteMultipleRegisters.domain = Word
  /\ WriteSingleRegister # WriteSingleCoil /\ WriteMultipleCoils # WriteSingleCoil
  /\ WriteMultipleRegisters # WriteSingleCoil /\ WriteMultipleCoils # WriteSingleRegister
  /\ WriteMultipleRegisters # WriteSingleRegister /\ WriteMultipleRegisters # WriteMultipleCoils
  /\ \A f \in function_code_to_function_map :
       f \in Readers \/ f = WriteSingleCoil \/ f = WriteSingleRegister 
         \/ f = WriteMultipleCoils \/ f = WriteMultipleRegisters
<1> USE DEF Readers, function_code_to_function_map, ReadCoils, ReadDiscreteInputs,
            ReadHoldingRegisters, ReadInputRegisters
<1>1. \A f \in Readers : /\ f.does = "read" /\ f.code \in 1..4
                         /\ (f.max = 125 \/ f.max = 2000)
  OBVIOUS
<1>2. WriteSingleCoil.does = "writeone"
  BY DEF WriteSingleCoil
<1>3. \A f \in Readers : f # WriteSingleCoil
  BY <1>1, <1>2
<1>4. \A f \in Readers : f \in function_code_to_function_map
  OBVIOUS
<1>5. \A f \in function_code_to_function_map :
       f \in Readers \/ f = WriteSingleCoil \/ f = WriteSingleRegister 
         \/ f = WriteMultipleCoils \/ f = WriteMultipleRegisters
  OBVIOUS
<1>6. /\ WriteSingleCoil.code = 5 /\ WriteSingleCoil.does = "writeone" /\ WriteSingleCoil.max = 1
      /\ WriteSingleCoil.domain = {0, 1, CoilOn}
  BY DEF WriteSingleCoil, CoilOn
<1>7. /\ WriteSingleRegister.code = 6 /\ WriteSingleRegister.does = "writeone" 
      /\ WriteSingleRegister.max = 1 /\ WriteSingleRegister.domain = Word
  BY DEF WriteSingleRegister
<1>8. /\ WriteMultipleCoils.code = 15 /\ WriteMultipleCoils.does = "writemany" 
      /\ WriteMultipleCoils.max = 1968 /\ WriteMultipleCoils.domain = {0, 1}
  BY DEF WriteMultipleCoils
<1>9. /\ WriteMultipleRegisters.code = 16 /\ WriteMultipleRegisters.does = "writemany" 
      /\ WriteMultipleRegisters.max = 1968 /\ WriteMultipleRegisters.domain = Word
  BY DEF WriteMultipleRegisters
<1>10. /\ WriteSingleRegister # WriteSingleCoil /\ WriteMultipleCoils # WriteSingleCoil
       /\ WriteMultipleRegisters # WriteSingleCoil /\ WriteMultipleCoils # WriteSingleRegister
       /\ WriteMultipleRegisters # WriteSingleRegister /\ WriteMultipleRegisters # WriteMultipleCoils
  BY <1>6, <1>7, <1>8, <1>9
<1> QED
  BY <1>1, <1>3, <1>4, <1>5, <1>6, <1>7, <1>8, <1>9, <1>10

LEMMA ReadSent ==
  ASSUME NEW f \in Readers, NEW a \in Word, NEW q \in 1..f.max
  PROVE  LET i == Reader(f, a, q) IN request_pdu(i) = ReadRequest(i) /\ Understands(i, ReadRequest(i))
<1> DEFINE i == Reader(f, a, q) pdu == ReadRequest(i)
<1>1. q \in Word
  <2>1. f.max = 125 \/ f.max = 2000
    BY FunctionFacts
  <2> QED
    BY <2>1, LimitIsWord
<1>2. f.code \in Byte /\ f # WriteSingleCoil /\ f.does = "read"
  <2>1. f.code \in 1..4 /\ f # WriteSingleCoil /\ f.does = "read"
    BY FunctionFacts
  <2> QED
    BY <2>1 DEF Byte
<1>3. pdu = PackBHH(f.code, a, q) /\ i.fn = f /\ i.quantity = q
  BY DEF ReadRequest, Reader
<1>4. create_function_from_request_pdu(pdu) = Returns(i)
  BY ReadRequestUnderstood
<1>5. /\ pdu \in Seq(Byte) /\ Len(pdu) = 5 /\ pdu[1] = f.code /\ WordAt(pdu, 4) = q
  BY <1>1, <1>2, <1>3, PackBHHBytes
<1>6. request_pdu(i) = pdu
  <2> HIDE DEF i
  <2>1. i.fn.does = "read"
    BY <1>2, <1>3
  <2>2. /\ i.fn # WriteSingleCoil /\ i.fn # WriteSingleRegister
        /\ i.fn # WriteMultipleCoils /\ i.fn # WriteMultipleRegisters
    BY <2>1, FunctionFacts
  <2> QED
    BY <2>1, <2>2 DEF request_pdu, pdu
<1> HIDE DEF i, pdu
<1>7. Received(i) = i
  BY <1>2, <1>3 DEF Received
<1>8. QuantityOf(pdu) = q
  BY <1>5 DEF QuantityOf
<1>9. Understands(i, pdu)
  BY <1>3, <1>4, <1>5, <1>7, <1>8 DEF Understands
<1> QED
  BY <1>6, <1>9 DEF i, pdu

LEMMA CoilSent ==
  ASSUME NEW a \in Word, NEW v \in {0, 1, CoilOn}
  PROVE  LET i == Writer(WriteSingleCoil, a, <<v>>) IN Understands(i, WriteCoilRequest(i))
<1> DEFINE i == Writer(WriteSingleCoil, a, <<v>>) pdu == WriteCoilRequest(i)
           j == Writer(WriteSingleCoil, a, <<CoilValue(v)>>)
<1>1. CoilWire(v) \in Word
  BY CoilValues
<1>2. pdu = PackBHH(5, a, CoilWire(v)) /\ i.fn = WriteSingleCoil /\ i.address = a /\ i.values[1] = v
  BY FunctionFacts DEF WriteCoilRequest, Writer
<1>3. /\ pdu \in Seq(Byte) /\ Len(pdu) = 5 /\ pdu[1] = 5
  BY <1>1, <1>2, CodeBytes, PackBHHBytes
<1>4. create_function_from_request_pdu(pdu) = Returns(j)
  BY WriteCoilUnderstood
<1> HIDE DEF i, pdu, j
<1>5. Received(i) = j
  BY <1>2 DEF Received, j
<1>6. WriteSingleCoil.code = 5 /\ WriteSingleCoil.does # "read"
  BY FunctionFacts
<1>8. Len(pdu) >= 5 /\ Len(pdu) <= 261
  BY <1>3
<1>9. pdu[1] = i.fn.code /\ i.fn.does # "read"
  BY <1>2, <1>3, <1>6
<1>7. Understands(i, pdu)
  BY <1>3, <1>4, <1>5, <1>8, <1>9 DEF Understands
<1> QED
  BY <1>7 DEF i, pdu

LEMMA RegisterSent ==
  ASSUME NEW a \in Word, NEW v \in Word
  PROVE  LET i == Writer(WriteSingleRegister, a, <<v>>) IN Understands(i, WriteRegisterRequest(i))
<1> DEFINE i == Writer(WriteSingleRegister, a, <<v>>) pdu == WriteRegisterRequest(i)
<1>2. pdu = PackBHH(6, a, v) /\ i.fn = WriteSingleRegister
  BY FunctionFacts DEF WriteRegisterRequest, Writer
<1>3. /\ pdu \in Seq(Byte) /\ Len(pdu) = 5 /\ pdu[1] = 6
  BY <1>2, CodeBytes, PackBHHBytes
<1>4. create_function_from_request_pdu(pdu) = Returns(i)
  BY WriteRegisterUnderstood
<1> HIDE DEF i, pdu
<1>6. WriteSingleRegister.code = 6 /\ WriteSingleRegister.does # "read" /\ WriteSingleRegister # WriteSingleCoil
  BY FunctionFacts
<1>5. Received(i) = i
  BY <1>2, <1>6 DEF Received
<1>8. Len(pdu) >= 5 /\ Len(pdu) <= 261
  BY <1>3
<1>9. pdu[1] = i.fn.code /\ i.fn.does # "read"
  BY <1>2, <1>3, <1>6
<1>7. Understands(i, pdu)
  BY <1>3, <1>4, <1>5, <1>8, <1>9 DEF Understands
<1> QED
  BY <1>7 DEF i, pdu

LEMMA ManyBytes ==
  ASSUME NEW head \in Seq(Byte), Len(head) = 5, NEW c \in Byte, NEW rest \in Seq(Byte), Len(rest) = c
  PROVE  LET pdu == head \o <<c>> \o rest
         IN  pdu \in Seq(Byte) /\ Len(pdu) >= 6 /\ Len(pdu) <= 261 /\ pdu[1] = head[1]
<1> DEFINE one == <<c>> front == head \o one pdu == front \o rest
<1>1. one \in Seq(Byte) /\ Len(one) = 1
  BY LoneFirst
<1> HIDE DEF one
<1>2. IsConcat(front, head, one)
  BY <1>1, ConcatIs
<1> HIDE DEF front
<1>3. front \in Seq(Byte) /\ Len(front) = 6 /\ front[1] = head[1]
  BY <1>1, <1>2 DEF IsConcat
<1>4. IsConcat(pdu, front, rest)
  BY <1>3, ConcatIs
<1> HIDE DEF pdu
<1>5. c \in Int /\ 0 <= c /\ c <= 255
  BY DEF Byte
<1>6. pdu \in Seq(Byte) /\ Len(pdu) >= 6 /\ Len(pdu) <= 261 /\ pdu[1] = head[1]
  BY <1>3, <1>4, <1>5 DEF IsConcat
<1> QED
  BY <1>6 DEF pdu, front, one

LEMMA CoilsSent ==
  ASSUME NEW a \in Word, NEW bits \in Seq({0, 1}), NEW n \in Int, 1 <= n, n <= 1968, Len(bits) = n
  PROVE  LET i == Writer(WriteMultipleCoils, a, bits) IN Understands(i, WriteCoilsRequest(i))
<1> DEFINE i == Writer(WriteMultipleCoils, a, bits) pdu == WriteCoilsRequest(i)
           head == PackBHH(15, a, n) m == ByteCount(n) rest == PackBits(bits)
<1>1. n \in Word /\ m \in Byte /\ rest \in Seq(Byte) /\ Len(rest) = m
  BY BitCount, PackBitsBytes
<1>2. pdu = head \o <<m>> \o rest /\ i.fn = WriteMultipleCoils
  BY FunctionFacts DEF WriteCoilsRequest, Writer
<1>3. head \in Seq(Byte) /\ Len(head) = 5 /\ head[1] = 15
  BY <1>1, CodeBytes, PackBHHBytes
<1>4. create_function_from_request_pdu(pdu) = Returns(i)
  BY WriteCoilsUnderstood
<1> HIDE DEF i, pdu, head, m, rest
<1>5. pdu \in Seq(Byte) /\ Len(pdu) >= 6 /\ Len(pdu) <= 261 /\ pdu[1] = 15
  BY <1>1, <1>2, <1>3, ManyBytes
<1>6. WriteMultipleCoils.code = 15 /\ WriteMultipleCoils.does # "read" /\ WriteMultipleCoils # WriteSingleCoil
  BY FunctionFacts
<1>7. Received(i) = i
  BY <1>2, <1>6 DEF Received
<1>8. Understands(i, pdu)
  BY <1>2, <1>4, <1>5, <1>6, <1>7 DEF Understands
<1> QED
  BY <1>8 DEF i, pdu

LEMMA RegistersSent ==
  ASSUME NEW a \in Word, NEW words \in Seq(Word), NEW n \in Int, 1 <= n, n <= 127, Len(words) = n
  PROVE  LET i == Writer(WriteMultipleRegisters, a, words) IN Understands(i, WriteRegistersRequest(i))
<1> DEFINE i == Writer(WriteMultipleRegisters, a, words) pdu == WriteRegistersRequest(i)
           head == PackBHH(16, a, n) m == 2 * n rest == PackWords(words)
<1>1. n \in Word /\ m \in Byte /\ rest \in Seq(Byte) /\ Len(rest) = m
  BY SmallCount, PackWordsBytes
<1>2. pdu = head \o <<m>> \o rest /\ i.fn = WriteMultipleRegisters
  BY FunctionFacts DEF WriteRegistersRequest, Writer
<1>3. head \in Seq(Byte) /\ Len(head) = 5 /\ head[1] = 16
  BY <1>1, CodeBytes, PackBHHBytes
<1>4. WriteRegistersFromRequest(pdu) = Returns(i)
  BY WriteRegistersUnderstood
<1> HIDE DEF i, pdu, head, m, rest
<1>5. pdu \in Seq(Byte) /\ Len(pdu) >= 6 /\ Len(pdu) <= 261 /\ pdu[1] = 16
  BY <1>1, <1>2, <1>3, ManyBytes
<1>6. WriteMultipleRegisters.code = 16 /\ WriteMultipleRegisters.does # "read" 
      /\ WriteMultipleRegisters # WriteSingleCoil
  BY FunctionFacts
<1>9. create_function_from_request_pdu(pdu) = WriteRegistersFromRequest(pdu)
  <2>1. pdu # << >> /\ Known(16)
    BY <1>5, Functions
  <2> QED
    BY <1>5, <2>1 DEF create_function_from_request_pdu
<1>7. Received(i) = i
  BY <1>2, <1>6 DEF Received
<1>8. Understands(i, pdu)
  BY <1>2, <1>4, <1>5, <1>6, <1>7, <1>9 DEF Understands
<1> QED
  BY <1>8 DEF i, pdu

LEMMA OneValue ==
  ASSUME NEW T, NEW values \in Seq(T), Len(values) = 1
  PROVE  values = <<values[1]>> /\ values[1] \in T
<1>1. values[1] \in T
  OBVIOUS
<1>2. values = <<values[1]>>
  OBVIOUS
<1> QED
  BY <1>1, <1>2

LEMMA ValuesOf ==
  ASSUME NEW T, NEW S, NEW values \in Seq(T), \A k \in DOMAIN values : values[k] \in S
  PROVE  values \in Seq(S)
  OBVIOUS

(* A request that was built is legal, and its bytes are understood.        *)
LEMMA RequestMade ==
  ASSUME NEW i, IsInstance(i), CreateRequest(i).exc = "none"
  PROVE  /\ CreateRequest(i).val = request_pdu(i)
         /\ Legal(i) /\ i.address \in Word
         /\ i.fn = WriteMultipleRegisters => 2 * i.quantity \in Byte
<1> DEFINE W == i.fn = WriteMultipleRegisters /\ 2 * i.quantity \notin Byte
<1>1. Legal(i) /\ i.address \in Word /\ ~W
  BY DEF CreateRequest, Raises
<1>2. CreateRequest(i) = Returns(request_pdu(i))
  BY <1>1 DEF CreateRequest
<1> QED
  BY <1>1, <1>2 DEF Returns

LEMMA RequestRead ==
  ASSUME NEW i, IsInstance(i), CreateRequest(i).exc = "none", i.fn \in Readers
  PROVE  Understands(i, request_pdu(i))
<1>1. Legal(i) /\ i.address \in Word /\ i.fn.does = "read"
  BY RequestMade, FunctionFacts
<1>2. i = Reader(i.fn, i.address, i.quantity) /\ i.quantity \in 1..i.fn.max
  BY <1>1 DEF IsInstance, Legal
<1>3. request_pdu(i) = ReadRequest(i) /\ Understands(i, ReadRequest(i))
  BY <1>1, <1>2, ReadSent
<1> QED
  BY <1>3

LEMMA RequestWrites ==
  ASSUME NEW i, IsInstance(i), CreateRequest(i).exc = "none", i.fn.does # "read"
  PROVE  /\ i = Writer(i.fn, i.address, i.values) /\ i.address \in Word
         /\ i.quantity = Len(i.values) /\ i.quantity \in 1..i.fn.max
         /\ i.values \in Seq(i.fn.domain)
<1>1. i = Writer(i.fn, i.address, i.values) /\ i.values \in Seq(Int)
  BY DEF IsInstance
<1>2. Legal(i) /\ i.address \in Word
  BY RequestMade
<1>3. i.values \in Seq(i.fn.domain)
  BY <1>1, <1>2, ValuesOf DEF Legal
<1>4. i.quantity = Len(i.values)
  BY <1>1 DEF Writer
<1> QED
  BY <1>1, <1>2, <1>3, <1>4 DEF Legal

LEMMA RequestCoil ==
  ASSUME NEW i, IsInstance(i), CreateRequest(i).exc = "none", i.fn = WriteSingleCoil
  PROVE  Understands(i, request_pdu(i))
<1>1. i.fn.does = "writeone" /\ i.fn.domain = {0, 1, CoilOn}
  BY FunctionFacts
<1>2. /\ i = Writer(WriteSingleCoil, i.address, i.values) /\ i.address \in Word
      /\ Len(i.values) = 1 /\ i.values \in Seq({0, 1, CoilOn})
  BY <1>1, RequestWrites DEF IsInstance
<1>3. i.values = <<i.values[1]>> /\ i.values[1] \in {0, 1, CoilOn}
  BY <1>2, OneValue
<1>4. i = Writer(WriteSingleCoil, i.address, <<i.values[1]>>)
  BY <1>2, <1>3
<1>5. Understands(i, WriteCoilRequest(i))
  BY <1>2, <1>3, <1>4, CoilSent
<1>6. request_pdu(i) = WriteCoilRequest(i)
  BY <1>1, FunctionFacts DEF request_pdu
<1> QED
  BY <1>5, <1>6

LEMMA RequestRegister ==
  ASSUME NEW i, IsInstance(i), CreateRequest(i).exc = "none", i.fn = WriteSingleRegister
  PROVE  Understands(i, request_pdu(i))
<1>1. i.fn.does = "writeone" /\ i.fn.domain = Word
  BY FunctionFacts
<1>2. /\ i = Writer(WriteSingleRegister, i.address, i.values) /\ i.address \in Word
      /\ Len(i.values) = 1 /\ i.values \in Seq(Word)
  BY <1>1, RequestWrites DEF IsInstance
<1>3. i.values = <<i.values[1]>> /\ i.values[1] \in Word
  BY <1>2, OneValue
<1>4. i = Writer(WriteSingleRegister, i.address, <<i.values[1]>>)
  BY <1>2, <1>3
<1>5. Understands(i, WriteRegisterRequest(i))
  BY <1>2, <1>3, <1>4, RegisterSent
<1>6. request_pdu(i) = WriteRegisterRequest(i)
  BY <1>1, FunctionFacts DEF request_pdu
<1> QED
  BY <1>5, <1>6

LEMMA RequestCoils ==
  ASSUME NEW i, IsInstance(i), CreateRequest(i).exc = "none", i.fn = WriteMultipleCoils
  PROVE  Understands(i, request_pdu(i))
<1>1. i.fn.does = "writemany" /\ i.fn.domain = {0, 1} /\ i.fn.max = 1968
  BY FunctionFacts
<1>2. /\ i = Writer(WriteMultipleCoils, i.address, i.values) /\ i.address \in Word
      /\ i.values \in Seq({0, 1}) /\ i.quantity = Len(i.values)
      /\ i.quantity \in Int /\ 1 <= i.quantity /\ i.quantity <= 1968
  BY <1>1, RequestWrites
<1>5. Understands(i, WriteCoilsRequest(i))
  BY <1>2, CoilsSent
<1>6. request_pdu(i) = WriteCoilsRequest(i)
  BY <1>1, FunctionFacts DEF request_pdu
<1> QED
  BY <1>5, <1>6

LEMMA RequestRegisters ==
  ASSUME NEW i, IsInstance(i), CreateRequest(i).exc = "none", i.fn = WriteMultipleRegisters
  PROVE  Understands(i, request_pdu(i))
<1>1. i.fn.does = "writemany" /\ i.fn.domain = Word /\ i.fn.max = 1968
  BY FunctionFacts
<1>2. /\ i = Writer(WriteMultipleRegisters, i.address, i.values) /\ i.address \in Word
      /\ i.values \in Seq(Word) /\ i.quantity = Len(i.values)
      /\ i.quantity \in Int /\ 1 <= i.quantity
  BY <1>1, RequestWrites
<1>3. i.quantity <= 127
  <2> DEFINE q == i.quantity
  <2>1. q \in Int /\ 2 * q \in Byte
    BY <1>2, RequestMade
  <2> HIDE DEF q
  <2>2. q <= 127
    BY <2>1 DEF Byte
  <2> QED
    BY <2>2 DEF q
<1>5. Understands(i, WriteRegistersRequest(i))
  BY <1>2, <1>3, RegistersSent
<1>6. request_pdu(i) = WriteRegistersRequest(i)
  BY <1>1, FunctionFacts DEF request_pdu
<1> QED
  BY <1>5, <1>6

(* Whatever call the client makes a request of, the server reads the same  *)
(* call out of it, but for a coil written as 0xFF00, which is a 1 to its   *)
(* endpoint: the five request functions against                            *)
(* create_function_from_request_pdu, for all eight functions, every        *)
(* address, quantity and list of values.                                   *)
THEOREM RequestUnderstood ==
  ASSUME NEW i, IsInstance(i), CreateRequest(i).exc = "none"
  PROVE  Understands(i, CreateRequest(i).val)
<1>1. CreateRequest(i).val = request_pdu(i)
  BY RequestMade
<1>2. \/ i.fn \in Readers \/ i.fn = WriteSingleCoil \/ i.fn = WriteSingleRegister
      \/ i.fn = WriteMultipleCoils \/ i.fn = WriteMultipleRegisters
  BY FunctionFacts DEF IsInstance
<1> QED
  BY <1>1, <1>2, RequestRead, RequestCoil, RequestRegister, RequestCoils, RequestRegisters

-----------------------------------------------------------------------------
(* Answers.  Q begins with P.                                              *)
Begins(Q, P) == Len(P) <= Len(Q) /\ \A k \in 1..Len(P) : Q[k] = P[k]

(* An answer PDU of which the client makes R, whatever follows it, and of  *)
(* whose beginnings it makes nothing.                                      *)
AnswerIs(P, q, R) ==
  /\ P \in Seq(Byte) /\ Len(P) >= 2 /\ Len(P) <= 252
  /\ \A Q \in Seq(Byte) : Begins(Q, P) => create_function_from_response_pdu(Q, q) = R
  /\ \A Q \in Seq(Byte) : (Begins(P, Q) /\ Len(Q) < Len(P))
                            => create_function_from_response_pdu(Q, q).exc # "none"

LEMMA BeginsSelf ==
  ASSUME NEW P \in Seq(Byte)
  PROVE  Begins(P, P)
  BY DEF Begins

LEMMA EmptyIs ==
  ASSUME NEW Q \in Seq(Byte)
  PROVE  Q = << >> <=> Len(Q) = 0
  OBVIOUS

LEMMA RaisesNot == "struct.error" # "none" /\ Raises("struct.error").exc = "struct.error"
  BY DEF Raises

LEMMA Unknown ==
  ASSUME NEW c \in {1, 2, 3, 4, 5, 6, 15, 16}
  PROVE  ~Known(c + 128) /\ c + 128 \in Byte /\ c + 128 # 127
<1>1. \A f \in function_code_to_function_map : f.code \in {1, 2, 3, 4, 5, 6, 15, 16}
  BY DEF function_code_to_function_map, ReadCoils, ReadDiscreteInputs, ReadHoldingRegisters,
     ReadInputRegisters, WriteSingleCoil, WriteSingleRegister, WriteMultipleCoils,
     WriteMultipleRegisters
<1>2. c + 128 \notin {1, 2, 3, 4, 5, 6, 15, 16}
  OBVIOUS
<1>3. c + 128 \in Byte /\ c + 128 # 127
  BY DEF Byte
<1> QED
  BY <1>1, <1>2, <1>3 DEF Known

(* Header2 for any sequence that begins with the answer.                   *)
LEMMA HeaderIs ==
  ASSUME NEW a \in Byte, NEW b \in Byte, NEW rest \in Seq(Byte), Len(rest) = b
  PROVE  LET P == <<a, b>> \o rest
         IN  /\ P \in Seq(Byte) /\ Len(P) = 2 + b /\ P[1] = a /\ P[2] = b
             /\ \A k \in 1..b : P[2 + k] = rest[k]
<1> DEFINE h == <<a, b>> P == h \o rest
<1>1. h \in Seq(Byte) /\ Len(h) = 2 /\ h[1] = a /\ h[2] = b
  OBVIOUS
<1> HIDE DEF h
<1>2. IsConcat(P, h, rest)
  BY <1>1, ConcatIs
<1> HIDE DEF P
<1>3. /\ P \in Seq(Byte) /\ Len(P) = 2 + b /\ P[1] = a /\ P[2] = b
      /\ \A k \in 1..b : P[2 + k] = rest[k]
  BY <1>1, <1>2 DEF IsConcat
<1> QED
  BY <1>3 DEF P, h

ReadCodes == 1..4
BitCodes == {1, 2}
WordCodes == {3, 4}
ReadAnswer(c, n, rest) == <<c, n>> \o rest

(* What an answer to a read is made of: the values, in a packing.          *)
IsReadAnswer(P, c, n, rest, q) ==
  /\ P \in Seq(Byte) /\ Len(P) = 2 + n /\ P[1] = c /\ P[2] = n
  /\ \A Q \in Seq(Byte) : Begins(Q, P) =>
       /\ Slice(Q, 2, 2 + Q[2]) = rest /\ Q[2] = n
       /\ create_function_from_response_pdu(Q, q)
            = IF c \in {1, 2} THEN BitsFromResponse(Q, q) ELSE WordsFromResponse(Q, q)
  /\ \A Q \in Seq(Byte) : Begins(P, Q) /\ Len(Q) < Len(P) =>
       \/ create_function_from_response_pdu(Q, q) = Raises("struct.error")
       \/ /\ Q[2] = n /\ Len(Slice(Q, 2, 2 + Q[2])) # n
          /\ create_function_from_response_pdu(Q, q)
               = IF c \in {1, 2} THEN BitsFromResponse(Q, q) ELSE WordsFromResponse(Q, q)

LEMMA ReadParts ==
  ASSUME NEW c \in ReadCodes, NEW n \in Byte, n >= 1, n <= 250, NEW rest \in Seq(Byte), Len(rest) = n,
         NEW P, P = ReadAnswer(c, n, rest), NEW q
  PROVE  IsReadAnswer(P, c, n, rest, q)
<1>1. c \in Byte /\ Known(c) /\ c \in 1..4
  BY CodeBytes, Functions DEF ReadCodes
<1>2. /\ P \in Seq(Byte) /\ Len(P) = 2 + n /\ P[1] = c /\ P[2] = n
      /\ \A k \in 1..n : P[2 + k] = rest[k]
  BY <1>1, HeaderIs DEF ReadAnswer
<1>3. n \in Int
  BY DEF Byte
<1>4. ASSUME NEW Q \in Seq(Byte), Len(Q) >= 2, Q[1] = c, Q[2] = n
      PROVE  create_function_from_response_pdu(Q, q)
               = IF c \in {1, 2} THEN BitsFromResponse(Q, q) ELSE WordsFromResponse(Q, q)
  <2>1. Q # << >>
    BY <1>4, EmptyIs
  <2> QED
    BY <1>1, <1>4, <2>1 DEF create_function_from_response_pdu
<1>5. ASSUME NEW Q \in Seq(Byte), Begins(Q, P)
      PROVE  /\ Slice(Q, 2, 2 + Q[2]) = rest /\ Q[2] = n /\ Q[1] = c /\ Len(Q) >= 2
  <2>1. Len(Q) >= 2 + n /\ Q[1] = c /\ Q[2] = n /\ \A k \in 1..n : Q[2 + k] = rest[k]
    <3>1. Len(Q) >= 2 + n /\ \A k \in 1..(2 + n) : Q[k] = P[k]
      BY <1>2, <1>5 DEF Begins
    <3>2. \A k \in 1..n : 2 + k \in 1..(2 + n)
      BY <1>3
    <3>3. 1 \in 1..(2 + n) /\ 2 \in 1..(2 + n)
      BY <1>3
    <3> QED
      BY <1>2, <3>1, <3>2, <3>3
  <2> DEFINE e == 2 + n
  <2>2. e \in Nat /\ 2 <= e /\ e - 2 = n /\ e <= Len(Q) /\ Len(Q) \in Nat
    BY <1>3, <2>1
  <2> HIDE DEF e
  <2>3. IsPart(Slice(Q, 2, e), Q, 2, n)
    BY <2>2, SliceIs
  <2>4. Slice(Q, 2, e) = rest
    BY <2>1, <2>3, PartEq
  <2> QED
    BY <1>3, <2>1, <2>2, <2>4 DEF e
<1>6. ASSUME NEW Q \in Seq(Byte), Begins(P, Q), Len(Q) < Len(P), Len(Q) >= 2
      PROVE  Q[1] = c /\ Q[2] = n /\ Len(Slice(Q, 2, 2 + Q[2])) # n
  <2>1. Q[1] = c /\ Q[2] = n
    <3>1. \A k \in 1..Len(Q) : P[k] = Q[k]
      BY <1>6 DEF Begins
    <3>2. 1 \in 1..Len(Q) /\ 2 \in 1..Len(Q)
      BY <1>6
    <3>3. P[1] = Q[1] /\ P[2] = Q[2]
      BY <3>1, <3>2
    <3> QED
      BY <1>2, <3>3
  <2>2. Len(Q) \in Nat /\ Len(Q) < 2 + n
    BY <1>2, <1>6
  <2>3. Slice(Q, 2, 2 + n) = SubSeq(Q, 3, Len(Q))
    BY <1>3, <2>2 DEF Slice
  <2>4. Len(SubSeq(Q, 3, Len(Q))) = Len(Q) - 2
    <3> DEFINE l == Len(Q)
    <3>1. l \in Nat /\ l >= 2
      BY <1>6, <2>2
    <3> HIDE DEF l
    <3>2. Len(SubSeq(Q, 3, l)) = l - 2
      BY <3>1
    <3> QED
      BY <3>2 DEF l
  <2> QED
    BY <1>3, <2>1, <2>2, <2>3, <2>4
<1>7. ASSUME NEW Q \in Seq(Byte), Begins(P, Q), Len(Q) < 2
      PROVE  create_function_from_response_pdu(Q, q) = Raises("struct.error")
  <2>1. CASE Q = << >>
    BY <2>1 DEF create_function_from_response_pdu
  <2>2. CASE Q # << >>
    <3>1. Len(Q) = 1
      <4> DEFINE l == Len(Q)
      <4>1. l # 0 /\ l \in Nat /\ l < 2
        BY <1>7, <2>2, EmptyIs
      <4> HIDE DEF l
      <4>2. l = 1
        BY <4>1
      <4> QED
        BY <4>2 DEF l
    <3>2. Q[1] = c
      BY <1>2, <1>7, <3>1 DEF Begins
    <3> QED
      BY <1>1, <1>7, <2>2, <3>2 DEF create_function_from_response_pdu
  <2> QED
    BY <2>1, <2>2
<1>8. \A Q \in Seq(Byte) : Len(Q) >= 2 \/ Len(Q) < 2
  OBVIOUS
<1>9. \A Q \in Seq(Byte) : Begins(Q, P) =>
        /\ Slice(Q, 2, 2 + Q[2]) = rest /\ Q[2] = n
        /\ create_function_from_response_pdu(Q, q)
             = IF c \in {1, 2} THEN BitsFromResponse(Q, q) ELSE WordsFromResponse(Q, q)
  BY <1>4, <1>5
<1>10. \A Q \in Seq(Byte) : Begins(P, Q) /\ Len(Q) < Len(P) =>
        \/ create_function_from_response_pdu(Q, q) = Raises("struct.error")
        \/ /\ Q[2] = n /\ Len(Slice(Q, 2, 2 + Q[2])) # n
           /\ create_function_from_response_pdu(Q, q)
                = IF c \in {1, 2} THEN BitsFromResponse(Q, q) ELSE WordsFromResponse(Q, q)
  BY <1>4, <1>6, <1>7, <1>8
<1> QED
  BY <1>2, <1>9, <1>10 DEF IsReadAnswer

(* The client reads the bits it asked for.                                 *)
LEMMA BitsAnswerRead ==
  ASSUME NEW c \in BitCodes, NEW data \in Seq({0, 1}), NEW q \in Int, Len(data) = q, 1 <= q, q <= 2000
  PROVE  AnswerIs(<<c, ByteCount(q)>> \o PackBits(data), q, Returns(data))
<1> DEFINE n == ByteCount(q) rest == PackBits(data) P == <<c, n>> \o rest
<1>1. n \in Byte /\ n >= 1 /\ n <= 250 /\ rest \in Seq(Byte) /\ Len(rest) = n
  <2>1. n <= 250
    BY DEF ByteCount
  <2> QED
    BY <2>1, BitCount, PackBitsBytes
<1>2. UnpackBits(rest, q) = data
  <2>1. data # << >>
    OBVIOUS
  <2> QED
    BY <2>1, BitsRoundTrip
<1>3. c \in ReadCodes /\ c \in {1, 2}
  BY DEF ReadCodes, BitCodes
<1>4. P = ReadAnswer(c, n, rest)
  BY DEF ReadAnswer
<1> HIDE DEF n, rest, P
<1>5. /\ P \in Seq(Byte) /\ Len(P) = 2 + n
      /\ \A Q \in Seq(Byte) : Begins(Q, P) =>
           /\ Slice(Q, 2, 2 + Q[2]) = rest /\ Q[2] = n
           /\ create_function_from_response_pdu(Q, q) = BitsFromResponse(Q, q)
      /\ \A Q \in Seq(Byte) : Begins(P, Q) /\ Len(Q) < Len(P) =>
           \/ create_function_from_response_pdu(Q, q) = Raises("struct.error")
           \/ /\ Q[2] = n /\ Len(Slice(Q, 2, 2 + Q[2])) # n
              /\ create_function_from_response_pdu(Q, q) = BitsFromResponse(Q, q)
  <2>1. IsReadAnswer(P, c, n, rest, q)
    BY <1>1, <1>3, <1>4, ReadParts
  <2> QED
    BY <1>3, <2>1 DEF IsReadAnswer
<1>6. ASSUME NEW Q \in Seq(Byte), Begins(Q, P)
      PROVE  create_function_from_response_pdu(Q, q) = Returns(data)
  BY <1>1, <1>2, <1>5, <1>6 DEF BitsFromResponse
<1>7. ASSUME NEW Q \in Seq(Byte), Begins(P, Q), Len(Q) < Len(P)
      PROVE  create_function_from_response_pdu(Q, q) = Raises("struct.error")
  BY <1>1, <1>5, <1>7 DEF BitsFromResponse
<1>8. Len(P) >= 2 /\ Len(P) <= 252
  BY <1>1, <1>5 DEF Byte
<1>9. AnswerIs(P, q, Returns(data))
  BY <1>5, <1>6, <1>7, <1>8, RaisesNot DEF AnswerIs
<1> QED
  BY <1>9 DEF P, n, rest

(* The client reads the registers it asked for.                            *)
LEMMA WordsAnswerRead ==
  ASSUME NEW c \in WordCodes, NEW data \in Seq(Word), NEW q \in Int, Len(data) = q, 1 <= q, q <= 125
  PROVE  AnswerIs(<<c, 2 * q>> \o PackWords(data), q, Returns(data))
<1> DEFINE n == 2 * q rest == PackWords(data) P == <<c, n>> \o rest
<1>1. n \in Byte /\ n >= 1 /\ n <= 250 /\ rest \in Seq(Byte) /\ Len(rest) = n
  <2>1. n <= 250 /\ n >= 1
    OBVIOUS
  <2> QED
    BY <2>1, SmallCount, PackWordsBytes
<1>2. UnpackWords(rest, q) = data
  BY RegistersRoundTrip
<1>3. c \in ReadCodes /\ c \notin {1, 2}
  BY DEF ReadCodes, WordCodes
<1>4. P = ReadAnswer(c, n, rest) /\ n = 2 * q
  BY DEF ReadAnswer
<1> HIDE DEF n, rest, P
<1>5. /\ P \in Seq(Byte) /\ Len(P) = 2 + n
      /\ \A Q \in Seq(Byte) : Begins(Q, P) =>
           /\ Slice(Q, 2, 2 + Q[2]) = rest /\ Q[2] = n
           /\ create_function_from_response_pdu(Q, q) = WordsFromResponse(Q, q)
      /\ \A Q \in Seq(Byte) : Begins(P, Q) /\ Len(Q) < Len(P) =>
           \/ create_function_from_response_pdu(Q, q) = Raises("struct.error")
           \/ /\ Q[2] = n /\ Len(Slice(Q, 2, 2 + Q[2])) # n
              /\ create_function_from_response_pdu(Q, q) = WordsFromResponse(Q, q)
  <2>1. IsReadAnswer(P, c, n, rest, q)
    BY <1>1, <1>3, <1>4, ReadParts
  <2> QED
    BY <1>3, <2>1 DEF IsReadAnswer
<1>6. ASSUME NEW Q \in Seq(Byte), Begins(Q, P)
      PROVE  create_function_from_response_pdu(Q, q) = Returns(data)
  BY <1>1, <1>2, <1>4, <1>5, <1>6 DEF WordsFromResponse
<1>7. ASSUME NEW Q \in Seq(Byte), Begins(P, Q), Len(Q) < Len(P)
      PROVE  create_function_from_response_pdu(Q, q) = Raises("struct.error")
  BY <1>1, <1>4, <1>5, <1>7 DEF WordsFromResponse
<1>8. Len(P) >= 2 /\ Len(P) <= 252
  BY <1>1, <1>5 DEF Byte
<1>9. AnswerIs(P, q, Returns(data))
  BY <1>5, <1>6, <1>7, <1>8, RaisesNot DEF AnswerIs
<1> QED
  BY <1>9 DEF P, n, rest

(* The answer to a write is read for its last value.                       *)
LEMMA WriteAnswerRead ==
  ASSUME NEW c \in {5, 6, 15, 16}, NEW a \in Word, NEW v \in Word, NEW q
  PROVE  AnswerIs(PackBHH(c, a, v), q, Returns(<<IF c = 5 THEN CoilValue(v) ELSE v>>))
<1> DEFINE P == PackBHH(c, a, v) R == Returns(<<IF c = 5 THEN CoilValue(v) ELSE v>>)
<1>1. c \in Byte /\ Known(c) /\ c \notin 1..4
  BY CodeBytes, Functions
<1>2. P \in Seq(Byte) /\ Len(P) = 5 /\ P[1] = c /\ WordAt(P, 4) = v
  BY <1>1, PackBHHBytes
<1> HIDE DEF P
<1>3. ASSUME NEW Q \in Seq(Byte), Q # << >>, Q[1] = c
      PROVE  create_function_from_response_pdu(Q, q) = WriteFromResponse(Q)
  BY <1>1, <1>3 DEF create_function_from_response_pdu
<1>4. ASSUME NEW Q \in Seq(Byte), Begins(Q, P)
      PROVE  create_function_from_response_pdu(Q, q) = R
  <2>1. Len(Q) >= 5 /\ Q[1] = c /\ WordAt(Q, 4) = v
    <3>1. Len(Q) >= 5 /\ \A k \in 1..5 : Q[k] = P[k]
      BY <1>2, <1>4 DEF Begins
    <3> QED
      BY <1>2, <3>1 DEF WordAt
  <2>2. Q # << >> /\ ~(Len(Q) < 5)
    BY <2>1, EmptyIs
  <2> QED
    BY <1>3, <2>1, <2>2 DEF WriteFromResponse
<1>5. ASSUME NEW Q \in Seq(Byte), Begins(P, Q), Len(Q) < Len(P)
      PROVE  create_function_from_response_pdu(Q, q) = Raises("struct.error")
  <2>1. CASE Q = << >>
    BY <2>1 DEF create_function_from_response_pdu
  <2>2. CASE Q # << >>
    <3>1. Len(Q) >= 1
      <4> DEFINE l == Len(Q)
      <4>1. l # 0 /\ l \in Nat
        BY <2>2, EmptyIs
      <4> HIDE DEF l
      <4>2. l >= 1
        BY <4>1
      <4> QED
        BY <4>2 DEF l
    <3>2. \A k \in 1..Len(Q) : P[k] = Q[k]
      BY <1>5 DEF Begins
    <3>3. P[1] = Q[1]
      BY <3>1, <3>2
    <3>4. Len(Q) < 5
      BY <1>2, <1>5
    <3> QED
      BY <1>2, <1>3, <2>2, <3>3, <3>4 DEF WriteFromResponse
  <2> QED
    BY <2>1, <2>2
<1>6. Len(P) >= 2 /\ Len(P) <= 252
  BY <1>2
<1>7. AnswerIs(P, q, R)
  BY <1>2, <1>4, <1>5, <1>6, RaisesNot DEF AnswerIs
<1> QED
  BY <1>7 DEF P

(* An exception reaches the client by its name.                            *)
LEMMA ExceptionRead ==
  ASSUME NEW c \in {1, 2, 3, 4, 5, 6, 15, 16}, NEW q
  PROVE  /\ pack_exception_pdu(c, "IllegalDataAddressError") = <<c + 128, 2>>
         /\ AnswerIs(<<c + 128, 2>>, q, Raises("IllegalDataAddressError"))
         /\ Len(<<c + 128, 2>>) = 2 /\ <<c + 128, 2>>[1] = c + 128 /\ <<c + 128, 2>>[2] = 2
<1> DEFINE P == <<c + 128, 2>> R == Raises("IllegalDataAddressError")
<1>1. 2 \in DOMAIN error_code_to_exception_map 
      /\ error_code_to_exception_map[2] = "IllegalDataAddressError"
  BY DEF error_code_to_exception_map
<1>2. \A k \in DOMAIN error_code_to_exception_map :
        error_code_to_exception_map[k] = "IllegalDataAddressError" => k = 2
  BY DEF error_code_to_exception_map
<1>3. ErrorCode("IllegalDataAddressError") = 2
  BY <1>1, <1>2 DEF ErrorCode
<1>4. "IllegalDataAddressError" \in ModbusErrors
  BY <1>1 DEF ModbusErrors
<1>5. pack_exception_pdu(c, "IllegalDataAddressError") = P
  BY <1>3, <1>4 DEF pack_exception_pdu
<1>6. P \in Seq(Byte) /\ Len(P) = 2 /\ P[1] = c + 128 /\ P[2] = 2 /\ ~Known(c + 128)
  <2>1. c + 128 \in Byte /\ ~Known(c + 128) /\ 2 \in Byte
    BY Unknown, SmallBytes
  <2> QED
    BY <2>1
<1> HIDE DEF P
<1>7. ASSUME NEW Q \in Seq(Byte), Begins(Q, P)
      PROVE  create_function_from_response_pdu(Q, q) = R
  <2>1. Len(Q) >= 2 /\ Q[1] = c + 128 /\ Q[2] = 2
    <3>1. Len(Q) >= 2 /\ \A k \in 1..2 : Q[k] = P[k]
      BY <1>6, <1>7 DEF Begins
    <3> QED
      BY <1>6, <3>1
  <2>2. Q # << >> /\ ~(Len(Q) < 2)
    BY <2>1, EmptyIs
  <2> QED
    BY <1>1, <1>6, <2>1, <2>2 DEF create_function_from_response_pdu
<1>8. ASSUME NEW Q \in Seq(Byte), Begins(P, Q), Len(Q) < Len(P)
      PROVE  create_function_from_response_pdu(Q, q) = Raises("struct.error")
  <2>1. CASE Q = << >>
    BY <2>1 DEF create_function_from_response_pdu
  <2>2. CASE Q # << >>
    <3>1. Len(Q) >= 1 /\ Len(Q) < 2
      <4> DEFINE l == Len(Q)
      <4>1. l # 0 /\ l \in Nat /\ l < 2
        BY <1>6, <1>8, <2>2, EmptyIs
      <4> HIDE DEF l
      <4>2. l >= 1
        BY <4>1
      <4> QED
        BY <4>1, <4>2 DEF l
    <3>2. \A k \in 1..Len(Q) : P[k] = Q[k]
      BY <1>8 DEF Begins
    <3>3. P[1] = Q[1]
      BY <3>1, <3>2
    <3> QED
      BY <1>6, <2>2, <3>1, <3>3 DEF create_function_from_response_pdu
  <2> QED
    BY <2>1, <2>2
<1>9. AnswerIs(P, q, R)
  BY <1>6, <1>7, <1>8, RaisesNot DEF AnswerIs
<1> QED
  BY <1>5, <1>6, <1>9 DEF P

-----------------------------------------------------------------------------
(* What the client makes of a frame.                                       *)

(* The parts of a frame.                                                   *)
IsRtu(g, unit, pdu) ==
  /\ g \in Seq(Byte) /\ Len(g) = Len(pdu) + 3 /\ Len(pdu) \in Nat /\ g[1] = unit
  /\ \A k \in 1..Len(pdu) : g[k + 1] = pdu[k]

LEMMA RtuIs ==
  ASSUME NEW unit \in Byte, NEW pdu \in Seq(Byte)
  PROVE  IsRtu(RtuAdu(unit, pdu), unit, pdu)
  BY RtuFrame DEF IsRtu

LEMMA AnswerBytes ==
  ASSUME NEW P, NEW q, NEW R, AnswerIs(P, q, R)
  PROVE  /\ P \in Seq(Byte) /\ Len(P) \in Nat /\ Len(P) >= 2 /\ Len(P) <= 252
         /\ create_function_from_response_pdu(P, q) = R
<1>1. P \in Seq(Byte) /\ Len(P) >= 2 /\ Len(P) <= 252
  BY DEF AnswerIs
<1>2. Begins(P, P)
  BY <1>1, BeginsSelf
<1>3. create_function_from_response_pdu(P, q) = R
  BY <1>1, <1>2 DEF AnswerIs
<1> QED
  BY <1>1, <1>3

(* A whole answer, in each framing.                                        *)
LEMMA RtuAnswered ==
  ASSUME NEW unit \in Byte, NEW pdu, NEW P, NEW R, AnswerIs(P, QuantityOf(pdu), R),
         NEW request, RtuPdu(request) = pdu
  PROVE  RtuParse(RtuAdu(unit, P), request) = R
<1>1. P \in Seq(Byte) /\ create_function_from_response_pdu(P, QuantityOf(pdu)) = R
  BY AnswerBytes
<1>2. validate_crc(RtuAdu(unit, P)) = "none" /\ RtuPdu(RtuAdu(unit, P)) = P
  BY <1>1, RtuFrame
<1> QED
  BY <1>1, <1>2 DEF RtuParse

LEMMA CRCErrorIs == Raises("CRCError").exc # "none"
  BY DEF Raises

(* An answer with one byte damaged is a CRCError to the client, on a       *)
(* serial line and from a data logger, and a damaged request is one to the *)
(* server.                                                                 *)
THEOREM RtuDamaged ==
  ASSUME NEW unit \in Byte, NEW P \in Seq(Byte), Len(P) >= 2, NEW g \in Seq(Byte),
         OneDiffers(RtuAdu(unit, P), g), NEW request
  PROVE  /\ validate_crc(g) = "CRCError"
         /\ RtuParse(g, request) = Raises("CRCError")
         /\ V5Parse(g, request) = Raises("CRCError")
<1> DEFINE m == Addressed(unit, P)
<1>1. m \in Seq(Byte) /\ Len(m) >= 3 /\ RtuAdu(unit, P) = Framed(m) /\ Len(Framed(m)) >= 5
  <2>1. m \in Seq(Byte) /\ Len(m) = Len(P) + 1 /\ Len(P) \in Nat
    BY AddressedIs
  <2>2. RtuAdu(unit, P) = Framed(m) /\ Len(RtuAdu(unit, P)) = Len(P) + 3
    BY RtuFrame
  <2> HIDE DEF m
  <2>3. Len(m) >= 3 /\ Len(RtuAdu(unit, P)) >= 5
    BY <2>1, <2>2
  <2> QED
    BY <2>1, <2>2, <2>3
<1> HIDE DEF m
<1>2. validate_crc(g) = "CRCError"
  BY <1>1, DamageFound
<1>3. ~DoubleCrc(g)
  BY <1>1, DamageNotDouble
<1>4. Len(g) >= 5
  BY <1>1 DEF OneDiffers
<1>5. RtuParse(g, request) = Raises("CRCError")
  BY <1>2 DEF RtuParse
<1>6. V5Parse(g, request) = Raises("CRCError")
  BY <1>3, <1>4, <1>5 DEF V5Parse
<1> QED
  BY <1>2, <1>5, <1>6

LEMMA V5Answered ==
  ASSUME NEW unit \in Byte, NEW pdu, NEW P, NEW R, AnswerIs(P, QuantityOf(pdu), R),
         NEW request, RtuPdu(request) = pdu, ~DoubleCrc(RtuAdu(unit, P))
  PROVE  V5Parse(RtuAdu(unit, P), request) = R
<1>1. P \in Seq(Byte) /\ Len(P) >= 2
  BY AnswerBytes
<1>2. Len(RtuAdu(unit, P)) >= 5
  BY <1>1, RtuFrame
<1> QED
  BY <1>2, RtuAnswered DEF V5Parse

LEMMA V5Zeros ==
  ASSUME NEW unit \in Byte, NEW pdu, NEW P, NEW R, AnswerIs(P, QuantityOf(pdu), R),
         NEW request, RtuPdu(request) = pdu
  PROVE  V5Parse(RtuAdu(unit, P) \o <<0, 0>>, request) = R
<1> DEFINE g == RtuAdu(unit, P) \o <<0, 0>>
<1>1. P \in Seq(Byte) /\ Len(P) >= 2
  BY AnswerBytes
<1>2. RtuAdu(unit, P) = Framed(Addressed(unit, P)) /\ Addressed(unit, P) \in Seq(Byte)
      /\ Len(Addressed(unit, P)) >= 3
  BY <1>1, RtuFrame, AddressedIs
<1>3. DoubleCrc(g) /\ Without(g, 2) = RtuAdu(unit, P) /\ Len(g) >= 5
  BY <1>2, ZerosTakenOff
<1> HIDE DEF g
<1>4. V5Parse(g, request) = R
  BY <1>3, RtuAnswered DEF V5Parse
<1> QED
  BY <1>4 DEF g

LEMMA V5Short ==
  ASSUME NEW request
  PROVE  V5Parse(<<2>>, request) = Raises("IllegalDataAddressError")
<1> DEFINE p == <<2>>
<1>1. Len(p) = 1 /\ p[1] = 2 /\ p # << >>
  OBVIOUS
<1> HIDE DEF p
<1>2. 2 \in DOMAIN error_code_to_exception_map 
      /\ error_code_to_exception_map[2] = "IllegalDataAddressError"
  BY DEF error_code_to_exception_map
<1>3. V5Parse(p, request) = Raises("IllegalDataAddressError")
  BY <1>1, <1>2 DEF V5Parse, ShortException
<1> QED
  BY <1>3 DEF p

(* A whole answer of a data logger that happens to look as if its CRC came *)
(* twice is never understood: the correction removes two bytes of it.      *)
THEOREM V5LookAlike ==
  ASSUME NEW unit \in Byte, NEW pdu, NEW P, NEW R, AnswerIs(P, QuantityOf(pdu), R),
         NEW request, RtuPdu(request) = pdu, DoubleCrc(RtuAdu(unit, P))
  PROVE  V5Parse(RtuAdu(unit, P), request).exc # "none"
<1> DEFINE g == RtuAdu(unit, P) f == Without(g, 2) Q == RtuPdu(f) n == Len(P)
<1>1. P \in Seq(Byte) /\ n \in Nat /\ n >= 2
  BY AnswerBytes
<1>2. g \in Seq(Byte) /\ Len(g) = n + 3 /\ \A k \in 1..n : g[k + 1] = P[k]
  BY <1>1, RtuFrame
<1> HIDE DEF g, n
<1>3. /\ f = Framed(Without(g, 4)) /\ Without(g, 4) \in Seq(Byte)
      /\ Len(Without(g, 4)) = Len(g) - 4
  <2>1. Len(g) >= 4
    BY <1>1, <1>2
  <2> QED
    BY <1>2, <2>1, DoubleIsFrame DEF g
<1>4. validate_crc(f) = "none" /\ f \in Seq(Byte) /\ Len(f) = n + 1
  <2>1. validate_crc(f) = "none" /\ f \in Seq(Byte) /\ Len(f) = Len(Without(g, 4)) + 2
    BY <1>3, FramedIs
  <2> QED
    BY <1>1, <1>2, <1>3, <2>1
<1>5. \A k \in 1..(n + 1) : f[k] = g[k]
  <2>1. IsTail(LastBytes(g, 2), f, g)
    BY <1>1, <1>2, LastTwo
  <2> QED
    BY <1>1, <1>2, <2>1 DEF IsTail
<1> HIDE DEF f
<1>6. IsPart(Q, f, 1, n - 2)
  <2> DEFINE e == Len(f) - 2
  <2>1. e \in Nat /\ 1 <= e /\ e <= Len(f) /\ e - 1 = n - 2
    BY <1>1, <1>4
  <2> HIDE DEF e
  <2>2. IsPart(Slice(f, 1, e), f, 1, e - 1)
    BY <1>4, <2>1, SliceIs
  <2> QED
    BY <2>1, <2>2 DEF e, RtuPdu
<1> HIDE DEF Q
<1>7. Q \in Seq(Byte) /\ Len(Q) = n - 2 /\ \A k \in 1..(n - 2) : Q[k] = P[k]
  <2>1. Q \in Seq(Byte) /\ Len(Q) = n - 2 /\ \A k \in 1..(n - 2) : Q[k] = f[1 + k]
    BY <1>6 DEF IsPart
  <2>2. ASSUME NEW k \in 1..(n - 2) PROVE Q[k] = P[k]
    <3>1. 1 + k \in 1..(n + 1) /\ k \in 1..n /\ 1 + k = k + 1
      BY <1>1
    <3> QED
      BY <1>2, <1>5, <2>1, <3>1
  <2> QED
    BY <2>1, <2>2
<1>8. Begins(P, Q) /\ Len(Q) < Len(P)
  BY <1>1, <1>7 DEF Begins, n
<1>9. create_function_from_response_pdu(Q, QuantityOf(pdu)).exc # "none"
  BY <1>7, <1>8 DEF AnswerIs
<1>10. RtuParse(f, request) = create_function_from_response_pdu(Q, QuantityOf(pdu))
  BY <1>4 DEF RtuParse, Q
<1>11. Len(g) >= 5 
  BY <1>1, <1>2
<1>12. V5Parse(g, request) = RtuParse(f, request)
  BY <1>11 DEF V5Parse, f, g
<1> QED
  BY <1>9, <1>10, <1>12 DEF g

(* No exception looks like that.                                           *)
LEMMA V5Exception ==
  ASSUME NEW unit \in Byte, NEW c \in {1, 2, 3, 4, 5, 6, 15, 16}
  PROVE  ~DoubleCrc(RtuAdu(unit, <<c + 128, 2>>))
<1> DEFINE P == <<c + 128, 2>> g == RtuAdu(unit, P)
<1>1. P \in Seq(Byte) /\ Len(P) = 2 /\ P[1] = c + 128 /\ P[2] = 2 /\ c + 128 # 127
  <2>1. c + 128 \in Byte /\ 2 \in Byte /\ c + 128 # 127
    BY Unknown, SmallBytes
  <2> QED
    BY <2>1
<1> HIDE DEF P
<1>2. /\ g \in Seq(Byte) /\ Len(g) = 5 /\ g[1] = unit
      /\ \A k \in 1..2 : g[k + 1] = P[k]
  <2>1. /\ g \in Seq(Byte) /\ Len(g) = Len(P) + 3 /\ g[1] = unit
        /\ \A k \in 1..Len(P) : g[k + 1] = P[k]
    <3>1. IsRtu(g, unit, P)
      BY <1>1, RtuIs
    <3> QED
      BY <3>1 DEF IsRtu
  <2> HIDE DEF g
  <2> QED
    BY <1>1, <2>1
<1>3. g[2] = c + 128 /\ g[3] = 2
  <2>1. 1 \in 1..2 /\ 2 \in 1..2 /\ 1 + 1 = 2 /\ 2 + 1 = 3
    OBVIOUS
  <2> QED
    BY <1>1, <1>2, <2>1
<1> HIDE DEF g
<1> SUFFICES ASSUME DoubleCrc(g) PROVE FALSE
  BY DEF g, P
<1>4. /\ Without(g, 4) \in Seq(Byte) /\ Len(Without(g, 4)) = Len(g) - 4
      /\ \A k \in 1..Len(g) - 4 : Without(g, 4)[k] = g[k]
  <2>1. Len(g) >= 4
    BY <1>2
  <2> QED
    BY <1>2, <2>1, DoubleIsFrame
<1>5. Without(g, 4) = <<unit>>
  <2>1. <<unit>> \in Seq(Byte) /\ Len(<<unit>>) = 1 /\ <<unit>>[1] = unit
    BY LoneFirst
  <2>2. Len(Without(g, 4)) = 1 /\ Without(g, 4)[1] = unit
    BY <1>2, <1>4
  <2> DEFINE w == Without(g, 4) u == <<unit>>
  <2>3. w \in Seq(Byte) /\ u \in Seq(Byte) /\ Len(w) = Len(u) /\ Len(w) = 1 /\ w[1] = u[1]
    BY <1>4, <2>1, <2>2
  <2> HIDE DEF w, u
  <2>4. \A k \in 1..Len(w) : w[k] = u[k]
    BY <2>3
  <2>5. w = u
    BY <2>3, <2>4, SeqByteEq
  <2> QED
    BY <2>5 DEF w, u
<1>6. get_crc(<<unit>>) = SubSeq(g, 2, 3)
  BY <1>2, <1>5 DEF DoubleCrc
<1>7. SubSeq(g, 2, 3)[1] = g[2] /\ SubSeq(g, 2, 3)[2] = g[3]
  BY <1>2
<1>8. get_crc(<<unit>>)[2] = 2 /\ get_crc(<<unit>>)[1] = c + 128
  BY <1>3, <1>6, <1>7
<1> QED
  BY <1>1, <1>8, LoneByte

(* Modbus TCP.                                                             *)
IsTcp(g, unit, pdu) ==
  /\ g \in Seq(Byte) /\ Len(g) = Len(pdu) + 7 /\ Len(pdu) \in Nat /\ g[7] = unit
  /\ \A k \in 1..Len(pdu) : g[k + 7] = pdu[k]
  /\ TcpPdu(g) = pdu

LEMMA SmallWord ==
  ASSUME NEW pdu \in Seq(Byte), Len(pdu) <= 261
  PROVE  Len(pdu) + 1 \in Word
<1> DEFINE l == Len(pdu)
<1>1. l \in Nat /\ l <= 261
  OBVIOUS
<1> HIDE DEF l
<1>2. l + 1 \in Int /\ 0 <= l + 1 /\ l + 1 <= 65535
  BY <1>1
<1>3. l + 1 \in Word
  BY <1>2, WordRange
<1> QED
  BY <1>3 DEF l

LEMMA TcpIs ==
  ASSUME NEW transaction \in Word, NEW unit \in Byte, NEW pdu \in Seq(Byte), Len(pdu) <= 261
  PROVE  /\ IsTcp(TcpAdu(transaction, unit, pdu), unit, pdu)
         /\ WordAt(TcpAdu(transaction, unit, pdu), 1) = transaction
  BY SmallWord, TcpFrame DEF IsTcp

LEMMA TcpQuantity ==
  ASSUME NEW g, NEW unit, NEW pdu, IsTcp(g, unit, pdu), Len(pdu) >= 2
  PROVE  QuantityOf(g) = QuantityOf(pdu)
<1> DEFINE n == Len(pdu) m == Len(g)
<1>1. n \in Nat /\ n >= 2 /\ m = n + 7 /\ \A k \in 1..n : g[k + 7] = pdu[k]
  BY DEF IsTcp
<1> HIDE DEF n, m
<1>2. n - 1 \in 1..n /\ n \in 1..n
  BY <1>1
<1>3. g[(n - 1) + 7] = pdu[n - 1] /\ g[n + 7] = pdu[n]
  BY <1>1, <1>2
<1>4. (n - 1) + 7 = m - 1 /\ n + 7 = (m - 1) + 1 /\ n = (n - 1) + 1
  BY <1>1
<1>5. g[m - 1] = pdu[n - 1] /\ g[(m - 1) + 1] = pdu[(n - 1) + 1]
  BY <1>3, <1>4
<1> QED
  BY <1>5 DEF QuantityOf, WordAt, n, m

(* What is made up for a short answer comes after what has arrived.        *)
LEMMA Completion ==
  ASSUME NEW g \in Seq(Byte), NEW n \in 8..10, Len(g) = n, NEW request \in Seq(Byte)
  PROVE  /\ Completed(g, request) \in Seq(Byte) /\ Len(Completed(g, request)) >= n
         /\ \A k \in 7..n : Completed(g, request)[k] = g[k]
<1> DEFINE a == Slice(g, 0, 5) 
           six == <<6>>
           b == Slice(g, 6, n)
           fill == IF Len(request) > 12 THEN Slice(request, n, 10) ELSE [k \in 1..10 - n |-> 0]
           end == <<0, 1>>
           c1 == a \o six 
           c2 == c1 \o b
           c3 == c2 \o fill
           c4 == c3 \o end
<1>1. n \in Nat /\ 8 <= n /\ n <= 10
  OBVIOUS
<1>2. IsPart(a, g, 0, 5)
  <2>1. 5 \in Nat /\ 5 <= Len(g)
    BY <1>1
  <2> QED
    BY <2>1, PrefixIs
<1>3. IsPart(b, g, 6, n - 6)
  <2>1. 6 \in Nat /\ 6 <= n /\ n <= Len(g)
    BY <1>1
  <2> QED
    BY <1>1, <2>1, SliceIs
<1>4. six \in Seq(Byte) /\ Len(six) = 1
  BY SmallBytes, LoneFirst
<1>5. end \in Seq(Byte)
  <2>1. 0 \in Byte /\ 1 \in Byte
    BY SmallBytes, CodeBytes
  <2> QED
    BY <2>1
<1>6. fill \in Seq(Byte)
  <2>1. CASE Len(request) > 12
    <3> DEFINE ten == 10
    <3>1. ten \in Nat /\ n <= ten /\ ten <= Len(request)
      BY <1>1, <2>1
    <3> HIDE DEF ten
    <3>2. IsPart(Slice(request, n, ten), request, n, ten - n)
      BY <1>1, <3>1, SliceIs
    <3> QED
      BY <2>1, <3>2 DEF IsPart, ten
  <2>2. CASE ~(Len(request) > 12)
    <3>1. 0 \in Byte /\ 10 - n \in Nat
      BY <1>1, SmallBytes
    <3> QED
      BY <2>2, <3>1
  <2> QED
    BY <2>1, <2>2
<1>7. Completed(g, request) = c4
  BY <1>1 DEF Completed
<1> HIDE DEF a, six, b, fill, end
<1>8. IsConcat(c1, a, six)
  BY <1>2, <1>4, ConcatIs DEF IsPart
<1>9. c1 \in Seq(Byte) /\ Len(c1) = 6
  BY <1>2, <1>4, <1>8 DEF IsConcat, IsPart
<1> HIDE DEF c1
<1>10. IsConcat(c2, c1, b)
  BY <1>3, <1>9, ConcatIs DEF IsPart
<1>11. c2 \in Seq(Byte) /\ Len(c2) = n /\ \A k \in 7..n : c2[k] = g[k]
  <2>1. c2 \in Seq(Byte) /\ Len(c2) = n
    BY <1>1, <1>3, <1>9, <1>10 DEF IsConcat, IsPart
  <2>2. \A k \in 1..(n - 6) : c2[6 + k] = b[k] /\ b[k] = g[6 + k]
    BY <1>3, <1>9, <1>10 DEF IsConcat, IsPart
  <2>3. ASSUME NEW k \in 7..n PROVE c2[k] = g[k]
    <3>1. k - 6 \in 1..(n - 6) /\ 6 + (k - 6) = k
      BY <1>1
    <3>2. c2[6 + (k - 6)] = g[6 + (k - 6)]
      BY <2>2, <3>1
    <3> QED
      BY <3>1, <3>2
  <2> QED
    BY <2>1, <2>3
<1> HIDE DEF c2
<1>12. IsConcat(c3, c2, fill)
  BY <1>6, <1>11, ConcatIs
<1>13. c3 \in Seq(Byte) /\ Len(c3) >= n /\ \A k \in 1..n : c3[k] = c2[k]
  BY <1>1, <1>11, <1>12 DEF IsConcat
<1> HIDE DEF c3
<1>14. IsConcat(c4, c3, end)
  BY <1>5, <1>13, ConcatIs
<1> HIDE DEF c4
<1>15. c4 \in Seq(Byte) /\ Len(c4) >= n /\ \A k \in 1..Len(c3) : c4[k] = c3[k]
  BY <1>1, <1>13, <1>14 DEF IsConcat
<1>16. ASSUME NEW k \in 7..n PROVE c4[k] = g[k]
  <2>1. k \in 1..n /\ k \in 1..Len(c3)
    BY <1>1, <1>13
  <2> QED
    BY <1>11, <1>13, <1>15, <2>1
<1> QED
  BY <1>7, <1>15, <1>16

LEMMA TcpRest ==
  ASSUME NEW c \in Seq(Byte), NEW n \in Nat, n >= 7, Len(c) = n
  PROVE  IsPart(TcpPdu(c), c, 7, n - 7)
<1> DEFINE seven == 7
<1>1. seven \in Nat /\ seven <= n /\ n <= Len(c)
  OBVIOUS
<1> HIDE DEF seven
<1>2. IsPart(Slice(c, seven, n), c, seven, n - seven)
  BY <1>1, SliceIs
<1> QED
  BY <1>2 DEF seven, TcpPdu

LEMMA TcpAnswered ==
  ASSUME NEW q, NEW P, NEW R, AnswerIs(P, q, R), NEW g, NEW unit, IsTcp(g, unit, P),
         NEW request \in Seq(Byte), QuantityOf(request) = q
  PROVE  TcpParse(g, request) = R
<1> DEFINE n == Len(g) c == Completed(g, request)
<1>1. /\ P \in Seq(Byte) /\ Len(P) \in Nat /\ Len(P) >= 2
      /\ create_function_from_response_pdu(P, q) = R
  BY AnswerBytes
<1>2. /\ g \in Seq(Byte) /\ n = Len(P) + 7 /\ TcpPdu(g) = P 
      /\ \A k \in 1..Len(P) : g[k + 7] = P[k]
  BY DEF IsTcp
<1>3. CASE n \notin 8..10
  <2>1. c = g
    BY <1>3 DEF Completed
  <2> QED
    BY <1>1, <1>2, <2>1 DEF TcpParse
<1>4. CASE n \in 8..10
  <2> HIDE DEF c
  <2>1. c \in Seq(Byte) /\ Len(c) >= n /\ \A k \in 7..n : c[k] = g[k]
    BY <1>2, <1>4, Completion DEF c
  <2> DEFINE m == Len(c) Q == TcpPdu(c)
  <2>2. m \in Nat /\ m >= n /\ n >= 9 /\ n \in Nat
    BY <1>1, <1>2, <2>1
  <2>3. IsPart(Q, c, 7, m - 7)
    BY <2>1, <2>2, TcpRest
  <2> HIDE DEF m, Q
  <2>4. Q \in Seq(Byte) /\ Len(Q) = m - 7 /\ \A k \in 1..(m - 7) : Q[k] = c[7 + k]
    BY <2>3 DEF IsPart
  <2>5. ASSUME NEW k \in 1..Len(P) PROVE Q[k] = P[k]
    <3>1. k \in 1..(m - 7) /\ 7 + k \in 7..n /\ k + 7 = 7 + k
      BY <1>1, <1>2, <2>2
    <3> QED
      BY <1>2, <2>1, <2>4, <3>1
  <2>6. Begins(Q, P)
    BY <1>1, <1>2, <2>2, <2>4, <2>5 DEF Begins
  <2>7. create_function_from_response_pdu(Q, q) = R
    BY <2>4, <2>6 DEF AnswerIs
  <2> QED
    BY <2>7 DEF TcpParse, Q, c
<1> QED
  BY <1>3, <1>4

(* The beginning of a Modbus TCP answer is refused, unless it has the      *)
(* eight to ten bytes that pysolarman takes for an incomplete answer and   *)
(* completes.                                                              *)
THEOREM TcpCutOff ==
  ASSUME NEW q, NEW P, NEW R, AnswerIs(P, q, R), NEW g, NEW unit, IsTcp(g, unit, P),
         NEW request, QuantityOf(request) = q,
         NEW n \in 7..(Len(g) - 1), n \notin 8..10
  PROVE  TcpParse(SubSeq(g, 1, n), request).exc # "none"
<1> DEFINE f == SubSeq(g, 1, n) Q == TcpPdu(f)
<1>1. P \in Seq(Byte) /\ Len(P) \in Nat
  BY AnswerBytes
<1>2. /\ g \in Seq(Byte) /\ Len(g) = Len(P) + 7
      /\ \A k \in 1..Len(P) : g[k + 7] = P[k]
  BY DEF IsTcp
<1>3. n \in Nat /\ n >= 7 /\ n < Len(P) + 7
  BY <1>1, <1>2
<1>4. f \in Seq(Byte) /\ Len(f) = n /\ \A k \in 1..n : f[k] = g[k]
  <2>1. n <= Len(g)
    BY <1>1, <1>2, <1>3
  <2>2. IsPart(Slice(g, 0, n), g, 0, n)
    BY <1>2, <1>3, <2>1, PrefixIs
  <2>3. Slice(g, 0, n) = f
    BY <1>2, <1>3, <2>1 DEF Slice
  <2> QED
    BY <2>2, <2>3 DEF IsPart
<1> HIDE DEF f
<1>5. Completed(f, request) = f
  BY <1>4 DEF Completed
<1>6. IsPart(Q, f, 7, n - 7)
  BY <1>3, <1>4, TcpRest
<1> HIDE DEF Q
<1>7. Q \in Seq(Byte) /\ Len(Q) = n - 7 /\ \A k \in 1..(n - 7) : Q[k] = f[7 + k]
  BY <1>6 DEF IsPart
<1>8. ASSUME NEW k \in 1..(n - 7) PROVE P[k] = Q[k]
  <2>1. k \in 1..Len(P) /\ 7 + k \in 1..n /\ k + 7 = 7 + k
    BY <1>1, <1>3
  <2> QED
    BY <1>2, <1>4, <1>7, <2>1
<1>9. Begins(P, Q) /\ Len(Q) < Len(P)
  BY <1>1, <1>3, <1>7, <1>8 DEF Begins
<1>10. create_function_from_response_pdu(Q, q).exc # "none"
  BY <1>7, <1>9 DEF AnswerIs
<1> QED
  BY <1>5, <1>10 DEF TcpParse, f, Q


(* send_message, which reads by size: an answer of the size the request    *)
(* lets expect, or an exception.                                           *)
Sized(P, pdu, R) ==
  \/ /\ Known(P[1])
     /\ Len(P) = expected_response_pdu_size(create_function_from_request_pdu(pdu).val)
  \/ /\ ~Known(P[1]) /\ Len(P) = 2
     /\ create_function_from_response_pdu(P, 0) = R

LEMMA WholePart ==
  ASSUME NEW g \in Seq(Byte), NEW n, n = Len(g)
  PROVE  Slice(g, 0, n) = g
<1>1. n \in Nat /\ n <= Len(g)
  OBVIOUS
<1>2. IsPart(Slice(g, 0, n), g, 0, n)
  BY <1>1, PrefixIs
<1>3. \A k \in 1..n : g[0 + k] = g[k]
  OBVIOUS
<1> QED
  BY <1>2, <1>3, PartEq

(* A caller with a blocking port reads as much as the answer has, and      *)
(* makes the same of it.                                                   *)
LEMMA RtuBySize ==
  ASSUME NEW unit \in Byte, NEW pdu, NEW P, NEW R, AnswerIs(P, QuantityOf(pdu), R),
         NEW request, RtuPdu(request) = pdu, Sized(P, pdu, R)
  PROVE  RtuReadBySize(RtuAdu(unit, P), request) = R
<1> DEFINE g == RtuAdu(unit, P) first == Slice(g, 0, 5) five == 5
<1>1. P \in Seq(Byte) /\ Len(P) \in Nat /\ Len(P) >= 2
  BY AnswerBytes
<1>2. g \in Seq(Byte) /\ Len(g) = Len(P) + 3 /\ \A k \in 1..Len(P) : g[k + 1] = P[k]
  <2>1. IsRtu(g, unit, P)
    BY <1>1, RtuIs
  <2> QED
    BY <2>1 DEF IsRtu
<1>3. RtuPdu(g) = P /\ RtuParse(g, request) = R
  BY <1>1, RtuFrame, RtuAnswered
<1> HIDE DEF g
<1>4. Len(first) = 5 /\ first[2] = P[1]
  <2>1. five \in Nat /\ five <= Len(g)
    BY <1>1, <1>2
  <2> HIDE DEF five
  <2>2. IsPart(Slice(g, 0, five), g, 0, five)
    BY <1>2, <2>1, PrefixIs
  <2>3. Len(first) = 5 /\ \A k \in 1..5 : first[k] = g[0 + k]
    BY <2>2 DEF IsPart, five
  <2>4. first[2] = g[2]
    BY <2>3
  <2>5. g[2] = P[1]
    <3>1. 1 \in 1..Len(P) /\ 1 + 1 = 2
      BY <1>1
    <3> QED
      BY <1>2, <3>1
  <2> QED
    BY <2>3, <2>4, <2>5
<1>5. CASE Known(P[1])
  <2> DEFINE e == expected_response_pdu_size(create_function_from_request_pdu(RtuPdu(request)).val) + 3
  <2>1. e = Len(g)
    BY <1>2, <1>5 DEF Sized
  <2>2. Slice(g, 0, e) = g /\ ~(Len(g) < e) /\ ~(Len(first) < 5)
    <3>1. Slice(g, 0, e) = g
      <4> HIDE DEF e
      <4> QED
        BY <1>2, <2>1, WholePart
    <3>2. ~(Len(g) < Len(g)) /\ ~(5 < 5)
      BY <1>2
    <3> QED
      BY <1>4, <2>1, <3>1, <3>2
  <2>3. RtuReadBySize(g, request) = RtuParse(Slice(g, 0, e), request)
    <3> HIDE DEF first
    <3>1. Known(first[2])
      BY <1>4, <1>5
    <3> QED
      BY <2>2, <3>1 DEF RtuReadBySize, first
  <2> QED
    BY <1>3, <2>2, <2>3 DEF g
<1>6. CASE ~Known(P[1])
  <2>1. Len(P) = 2 /\ create_function_from_response_pdu(P, 0) = R
    BY <1>6 DEF Sized
  <2>2. first = g
    <3>1. five = Len(g)
      BY <1>2, <2>1
    <3> HIDE DEF five
    <3>2. Slice(g, 0, five) = g
      BY <1>2, <3>1, WholePart
    <3> QED
      BY <3>2 DEF five
  <2>3. ~(Len(first) < 5) /\ ~Known(first[2])
    <3> HIDE DEF first
    <3> QED
      BY <1>4, <1>6
  <2>4. RtuReadBySize(g, request) = create_function_from_response_pdu(RtuPdu(first), 0)
    <3> HIDE DEF first
    <3> QED
      BY <2>3 DEF RtuReadBySize, first
  <2> QED
    BY <1>3, <2>1, <2>2, <2>4 DEF g
<1> QED
  BY <1>5, <1>6

LEMMA TcpBySize ==
  ASSUME NEW q, NEW P, NEW R, AnswerIs(P, q, R), NEW g, NEW unit, IsTcp(g, unit, P),
         NEW request, QuantityOf(request) = q, NEW pdu, TcpPdu(request) = pdu, Sized(P, pdu, R)
  PROVE  TcpReadBySize(g, request) = R
<1> DEFINE first == Slice(g, 0, 9) nine == 9
<1>1. /\ P \in Seq(Byte) /\ Len(P) \in Nat /\ Len(P) >= 2
      /\ create_function_from_response_pdu(P, q) = R
  BY AnswerBytes
<1>2. /\ g \in Seq(Byte) /\ Len(g) = Len(P) + 7 /\ TcpPdu(g) = P 
      /\ \A k \in 1..Len(P) : g[k + 7] = P[k]
  BY DEF IsTcp
<1>4. Len(first) = 9 /\ first[8] = P[1]
  <2>1. nine \in Nat /\ nine <= Len(g)
    BY <1>1, <1>2
  <2> HIDE DEF nine
  <2>2. IsPart(Slice(g, 0, nine), g, 0, nine)
    BY <1>2, <2>1, PrefixIs
  <2>3. Len(first) = 9 /\ \A k \in 1..9 : first[k] = g[0 + k]
    BY <2>2 DEF IsPart, nine
  <2>4. first[8] = g[8]
    BY <2>3
  <2>5. g[8] = P[1]
    <3>1. 1 \in 1..Len(P) /\ 1 + 7 = 8
      BY <1>1
    <3> QED
      BY <1>2, <3>1
  <2> QED
    BY <2>3, <2>4, <2>5
<1>5. CASE Known(P[1])
  <2> DEFINE e == expected_response_pdu_size(create_function_from_request_pdu(TcpPdu(request)).val) + 7
  <2>1. e = Len(g)
    BY <1>2, <1>5 DEF Sized
  <2>2. Slice(g, 0, e) = g /\ ~(Len(g) < e) /\ ~(Len(first) < 9)
    <3>1. Slice(g, 0, e) = g
      <4> HIDE DEF e
      <4> QED
        BY <1>2, <2>1, WholePart
    <3>2. ~(Len(g) < Len(g)) /\ ~(9 < 9)
      BY <1>2
    <3> QED
      BY <1>4, <2>1, <3>1, <3>2
  <2>3. TcpReadBySize(g, request)
          = create_function_from_response_pdu(TcpPdu(Slice(g, 0, e)), QuantityOf(request))
    <3> HIDE DEF first
    <3>1. Known(first[8])
      BY <1>4, <1>5
    <3> QED
      BY <2>2, <3>1 DEF TcpReadBySize, first
  <2> QED
    BY <1>1, <1>2, <2>2, <2>3
<1>6. CASE ~Known(P[1])
  <2>1. Len(P) = 2 /\ create_function_from_response_pdu(P, 0) = R
    BY <1>6 DEF Sized
  <2>2. first = g
    <3>1. nine = Len(g)
      BY <1>2, <2>1
    <3> HIDE DEF nine
    <3>2. Slice(g, 0, nine) = g
      BY <1>2, <3>1, WholePart
    <3> QED
      BY <3>2 DEF nine
  <2>3. ~(Len(first) < 9) /\ ~Known(first[8])
    <3> HIDE DEF first
    <3> QED
      BY <1>4, <1>6
  <2>4. TcpReadBySize(g, request) = create_function_from_response_pdu(TcpPdu(first), 0)
    <3> HIDE DEF first
    <3> QED
      BY <2>3 DEF TcpReadBySize, first
  <2> QED
    BY <1>2, <2>1, <2>2, <2>4
<1> QED
  BY <1>5, <1>6
=============================================================================
