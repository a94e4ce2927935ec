--------------------------- MODULE ParserCycleProofs ---------------------------
(***************************************************************************)
(* What a cycle keeps invariant for every profile init() accepts, whatever *)
(* the device's registers do, at every runtime and with every failure.     *)
(***************************************************************************)
EXTENDS ParserCycle, RequestGroupingProofs, FiniteSetTheorems, TLAPS

-----------------------------------------------------------------------------
(* Numbers *)

\* A set of numbers that holds 0 and the next of each of its numbers holds them all.
LEMMA Upwards ==
  ASSUME NEW S, 0 \in S, \A n \in Nat : n \in S => n + 1 \in S
  PROVE  \A n \in Nat : n \in S
<1> DEFINE T == {n \in Nat : n \notin S}
<1> SUFFICES ASSUME T # {} PROVE FALSE
  OBVIOUS
<1>1. PICK k \in T : \A l \in T : ~(<<l, k>> \in OpToRel(<, Nat))
  BY WFMin, NatLessThanWellFounded
<1>2. \A l \in T : ~(l < k)
  BY <1>1, Zenon DEF OpToRel
<1>3. k \in Nat /\ k # 0 /\ k - 1 \in Nat /\ k - 1 < k
  OBVIOUS
<1>4. k - 1 \in S
  BY <1>2, <1>3
<1>5. (k - 1) + 1 \in S
  BY <1>3, <1>4
<1> QED
  BY <1>3, <1>5

\* A set of numbers has a least one, and a greatest when it is bounded.
LEMMA Extremes ==
  ASSUME NEW S \in SUBSET Nat, S # {}
  PROVE  /\ Min(S) \in S
         /\ \A y \in S : Min(S) <= y
         /\ \A n \in Nat : (\A y \in S : y <= n) => Max(S) \in S
<1>1. \A T \in SUBSET Nat : T # {} => \E k \in T : \A l \in T : k <= l
  <2> TAKE T \in SUBSET Nat
  <2> HAVE T # {}
  <2>1. PICK k \in T : \A l \in T : ~(<<l, k>> \in OpToRel(<, Nat))
    BY WFMin, NatLessThanWellFounded
  <2>2. \A l \in T : ~(l < k)
    BY <2>1, Zenon DEF OpToRel
  <2> QED
    BY <2>2
<1>2. Min(S) \in S /\ \A y \in S : Min(S) <= y
  BY <1>1 DEF Min
<1>3. ASSUME NEW n \in Nat, \A y \in S : y <= n PROVE Max(S) \in S
  <2> DEFINE T == {n - y : y \in S}
  <2>1. T \in SUBSET Nat /\ T # {}
    <3>1. \A y \in S : n - y \in Nat
      BY <1>3
    <3> QED
      BY <3>1
  <2>2. PICK k \in T : \A l \in T : k <= l
    BY <1>1, <2>1
  <2>3. PICK m \in S : k = n - m
    BY <2>2
  <2>4. \A y \in S : m >= y
    <3> TAKE y \in S
    <3>1. n - y \in T
      OBVIOUS
    <3> QED
      BY <2>2, <2>3, <3>1
  <2> QED
    BY <2>3, <2>4 DEF Max
<1> QED
  BY <1>2, <1>3

\* A power of two is a positive number.
LEMMA PowerPositive ==
  ASSUME NEW n \in Nat
  PROVE  2 ^ n \in Nat /\ 2 ^ n > 0
<1>1. IsFiniteSet(1..n) /\ Cardinality(1..n) = n
  BY FS_Interval
<1>2. IsFiniteSet(SUBSET (1..n)) /\ Cardinality(SUBSET (1..n)) = 2 ^ n
  BY <1>1, FS_SUBSET
<1>3. SUBSET (1..n) # {}
  OBVIOUS
<1> QED
  BY <1>2, <1>3, FS_CardinalityType, FS_EmptySet

LEMMA ElementOf ==
  ASSUME NEW T, NEW s \in Seq(T), NEW k \in DOMAIN s
  PROVE  s[k] \in T
OBVIOUS

\* The next power of two is twice as large: a new element doubles the subsets.
LEMMA PowerNext ==
  ASSUME NEW n \in Nat
  PROVE  2 ^ (n + 1) = 2 * 2 ^ n
<1> DEFINE m == n + 1
           A == SUBSET (1..n)
           B == {s \cup {m} : s \in A}
<1>1. /\ IsFiniteSet(A) /\ Cardinality(A) = 2 ^ n
      /\ Cardinality(SUBSET (1..m)) = 2 ^ m
  <2>1. IsFiniteSet(1..n) /\ Cardinality(1..n) = n /\ IsFiniteSet(1..m) /\ Cardinality(1..m) = m
    BY FS_Interval
  <2> QED
    BY <2>1, FS_SUBSET
<1>2. IsFiniteSet(B) /\ Cardinality(B) = Cardinality(A)
  <2> DEFINE f == [s \in A |-> s \cup {m}]
  <2>1. \A s, t \in A : s \cup {m} = t \cup {m} => s = t
    <3>1. \A s \in A : m \notin s
      OBVIOUS
    <3> QED
      BY <3>1
  <2>2. f \in Bijection(A, B)
    <3> HIDE DEF A
    <3> QED
      BY <2>1 DEF Bijection, Injection, Surjection, IsInjective
  <2> HIDE DEF A, B, f
  <2>3. ExistsBijection(A, B)
    BY <2>2 DEF ExistsBijection
  <2> QED
    BY <1>1, <2>3, FS_Bijection
<1>3. SUBSET (1..m) = A \cup B
  <2>1. ASSUME NEW s \in SUBSET (1..m) PROVE s \in A \cup B
    <3>1. CASE m \in s
      <4>1. s = (s \ {m}) \cup {m} /\ s \ {m} \in A
        BY <3>1
      <4> QED
        BY <4>1
    <3>2. CASE m \notin s
      BY <3>2
    <3> QED
      BY <3>1, <3>2
  <2>2. \A s \in A : s \in SUBSET (1..m) /\ s \cup {m} \in SUBSET (1..m)
    OBVIOUS
  <2> HIDE DEF A, m
  <2> QED
    BY <2>1, <2>2
<1>4. A \cap B = {}
  <2>1. \A s \in A : m \notin s
    OBVIOUS
  <2>2. \A s \in B : m \in s
    OBVIOUS
  <2> QED
    BY <2>1, <2>2
<1> HIDE DEF A, B
<1>5. Cardinality(A \cup B) = Cardinality(A) + Cardinality(B) - Cardinality(A \cap B)
  BY <1>1, <1>2, FS_Union
<1>6. Cardinality(A \cap B) = 0
  BY <1>4, FS_EmptySet
<1>7. 2 ^ n \in Nat /\ 2 ^ m = Cardinality(A \cup B)
  BY <1>1, <1>3, PowerPositive
<1>8. 2 ^ m = 2 ^ n + 2 ^ n
  BY <1>1, <1>2, <1>5, <1>6, <1>7
<1> HIDE DEF m
<1> QED
  BY <1>7, <1>8 DEF m

\* Powers of two multiply as their exponents add.
LEMMA PowerSum ==
  ASSUME NEW a \in Nat, NEW b \in Nat
  PROVE  2 ^ (a + b) = 2 ^ a * 2 ^ b
<1> DEFINE S == {n \in Nat : 2 ^ (a + n) = 2 ^ a * 2 ^ n}
<1>0. \A n \in Nat : 2 ^ n \in Nat
  BY PowerPositive
<1>1. 0 \in S
  <2>1. 2 ^ 0 = 1 /\ a + 0 = a
    OBVIOUS
  <2>2. 2 ^ a * 1 = 2 ^ a
    BY <1>0
  <2> QED
    BY <2>1, <2>2
<1>2. \A n \in Nat : n \in S => n + 1 \in S
  <2> SUFFICES ASSUME NEW n \in Nat, 2 ^ (a + n) = 2 ^ a * 2 ^ n
               PROVE  2 ^ (a + (n + 1)) = 2 ^ a * 2 ^ (n + 1)
    OBVIOUS
  <2>1. a + (n + 1) = (a + n) + 1 /\ a + n \in Nat
    OBVIOUS
  <2>2. 2 ^ ((a + n) + 1) = 2 * 2 ^ (a + n) /\ 2 ^ (n + 1) = 2 * 2 ^ n
    BY <2>1, PowerNext
  <2> DEFINE p == 2 ^ a
             q == 2 ^ n
  <2>3. p \in Nat /\ q \in Nat
    BY <1>0
  <2>4. 2 * (p * q) = p * (2 * q)
    <3> HIDE DEF p, q
    <3> QED
      BY <2>3
  <2> QED
    BY <2>1, <2>2, <2>4
<1>3. \A n \in Nat : n \in S
  BY <1>1, <1>2, Upwards
<1> QED
  BY <1>3

\* A multiple of the divisor goes through a division.
LEMMA Carry ==
  ASSUME NEW n \in Nat, NEW c \in Nat, NEW d \in Nat, d > 0
  PROVE  (n + c * d) \div d = (n \div d) + c /\ (n + c * d) % d = n % d
<1> DEFINE q == n \div d
           r == n % d
<1>1. q \in Nat /\ r \in 0..(d - 1) /\ n = d * q + r
  OBVIOUS
<1> HIDE DEF q, r
<1> DEFINE t == n + c * d
           u == t \div d
           v == t % d
<1>2. c * d \in Nat
  OBVIOUS
<1>3. t \in Nat
  BY <1>2
<1>4. t = d * (q + c) + r
  BY <1>1
<1> HIDE DEF t
<1>5. u \in Nat /\ v \in 0..(d - 1) /\ t = d * u + v
  BY <1>3
<1> HIDE DEF u, v
<1>6. u = q + c
  <2> DEFINE p == q + c
  <2>1. p \in Nat /\ t = d * p + r
    BY <1>1, <1>4
  <2> HIDE DEF p
  <2>2. ASSUME u > p PROVE FALSE
    <3>1. d * u >= d * (p + 1) /\ d * (p + 1) = d * p + d
      BY <1>5, <2>1, <2>2
    <3>2. d * u \in Int /\ d * p \in Int
      BY <1>5, <2>1
    <3> QED
      BY <1>1, <1>5, <2>1, <3>1, <3>2
  <2>3. ASSUME p > u PROVE FALSE
    <3>1. d * p >= d * (u + 1) /\ d * (u + 1) = d * u + d
      BY <1>5, <2>1, <2>3
    <3>2. d * u \in Int /\ d * p \in Int
      BY <1>5, <2>1
    <3> QED
      BY <1>1, <1>5, <2>1, <3>1, <3>2
  <2>4. u = p
    BY <1>5, <2>1, <2>2, <2>3
  <2> QED
    BY <2>4 DEF p
<1>7. v = r
  <2>1. d * u \in Int
    BY <1>5
  <2> QED
    BY <1>1, <1>4, <1>5, <1>6, <2>1
<1> QED
  BY <1>6, <1>7 DEF q, r, u, v, t

\* Powers of ten are positive numbers.
LEMMA TenToType == \A n \in 0..Places : TenTo[n] \in Nat /\ TenTo[n] > 0
<1> DEFINE Upto(f, m) == f = [n \in 0..m |-> IF n = 0 THEN 1 ELSE 10 * f[n - 1]]
           S == {m \in Nat : \E f : Upto(f, m)}
<1>1. 0 \in S
  <2> DEFINE f == [n \in 0..0 |-> 1]
  <2>1. Upto(f, 0)
    OBVIOUS
  <2> HIDE DEF f, Upto
  <2> QED
    BY <2>1
<1>2. \A m \in Nat : m \in S => m + 1 \in S
  <2> TAKE m \in Nat
  <2> HAVE m \in S
  <2> PICK f : Upto(f, m)
    OBVIOUS
  <2> DEFINE g == [n \in 0..(m + 1) |-> IF n = m + 1 THEN 10 * f[m] ELSE f[n]]
  <2>1. Upto(g, m + 1)
    OBVIOUS
  <2> HIDE DEF g, Upto
  <2> QED
    BY <2>1
<1>3. Places \in S
  BY <1>1, <1>2, Upwards, WidthAssumption
<1>4. Upto(TenTo, Places)
  BY <1>3 DEF TenTo
<1> DEFINE P == {n \in Nat : n \in 0..Places => TenTo[n] \in Nat /\ TenTo[n] > 0}
<1>5. 0 \in P
  BY <1>4, WidthAssumption
<1>6. \A n \in Nat : n \in P => n + 1 \in P
  BY <1>4, WidthAssumption
<1>7. \A n \in Nat : n \in P
  BY <1>5, <1>6, Upwards
<1> QED
  BY <1>7

-----------------------------------------------------------------------------
(* Bits and words *)

LEMMA BitType ==
  ASSUME NEW n \in Nat, NEW k \in Nat
  PROVE  Bit(n, k) \in {0, 1}
<1>1. 2 ^ k \in Nat /\ 2 ^ k > 0
  BY PowerPositive
<1>2. n \div 2 ^ k \in Nat
  BY <1>1
<1> QED
  BY <1>2 DEF Bit

\* The conjunction of two masks is 0 exactly when they have no bit in common.
LEMMA AndCommon ==
  ASSUME NEW a \in Nat, NEW b \in Nat
  PROVE  /\ And(a, b) \in Nat
         /\ And(a, b) # 0 <=> \E k \in 0..(2 * Bits - 1) : Bit(a, k) = 1 /\ Bit(b, k) = 1
<1> DEFINE N == 2 * Bits
           Term(k) == 2^(k - 1) * Bit(a, k - 1) * Bit(b, k - 1)
           Upto(f, m) == f = [k \in 0..m |-> IF k = 0 THEN 0 ELSE f[k - 1] + Term(k)]
           S == {m \in Nat : \E f : Upto(f, m)}
           F == CHOOSE f : Upto(f, N)
<1>0. N \in Nat
  BY WidthAssumption
<1>1. 0 \in S
  <2> DEFINE f == [k \in 0..0 |-> 0]
  <2>1. Upto(f, 0)
    OBVIOUS
  <2> HIDE DEF f, Upto
  <2> QED
    BY <2>1
<1>2. \A m \in Nat : m \in S => m + 1 \in S
  <2> TAKE m \in Nat
  <2> HAVE m \in S
  <2> PICK f : Upto(f, m)
    OBVIOUS
  <2> DEFINE g == [k \in 0..(m + 1) |-> IF k = m + 1 THEN f[m] + Term(m + 1) ELSE f[k]]
  <2>1. Upto(g, m + 1)
    <3> HIDE DEF Term
    <3> QED
      OBVIOUS
  <2> HIDE DEF g, Upto
  <2> QED
    BY <2>1
<1>3. N \in S
  BY <1>0, <1>1, <1>2, Upwards
<1>4. Upto(F, N)
  BY <1>3
<1>5. And(a, b) = F[N]
  BY DEF And
<1>6. \A k \in Nat \ {0} :
        Term(k) \in Nat /\ (Term(k) # 0 <=> Bit(a, k - 1) = 1 /\ Bit(b, k - 1) = 1)
  <2> TAKE k \in Nat \ {0}
  <2>1. k - 1 \in Nat
    OBVIOUS
  <2>2. 2^(k - 1) \in Nat /\ 2^(k - 1) > 0
    BY <2>1, PowerPositive
  <2>3. Bit(a, k - 1) \in {0, 1} /\ Bit(b, k - 1) \in {0, 1}
    BY <2>1, BitType
  <2> QED
    BY <2>2, <2>3
<1> DEFINE Hit(k) == Bit(a, k) = 1 /\ Bit(b, k) = 1
           P == {m \in Nat : m <= N =>
                  F[m] \in Nat /\ (F[m] # 0 <=> \E k \in 0..(m - 1) : Hit(k))}
<1>7. \A m \in 0..N : F[m] = IF m = 0 THEN 0 ELSE F[m - 1] + Term(m)
  <2> HIDE DEF Term, N, F
  <2> QED
    BY <1>4
<1>8. \A k \in Nat \ {0} : Term(k) \in Nat /\ (Term(k) # 0 <=> Hit(k - 1))
  BY <1>6
<1> HIDE DEF Term, N, F, Hit
<1>9. 0 \in P
  BY <1>0, <1>7
<1>10. \A m \in Nat : m \in P => m + 1 \in P
  <2> SUFFICES ASSUME NEW m \in Nat, m \in P, m + 1 <= N
               PROVE  /\ F[m + 1] \in Nat
                      /\ F[m + 1] # 0 <=> \E k \in 0..m : Hit(k)
    OBVIOUS
  <2>1. F[m + 1] = F[m] + Term(m + 1)
    BY <1>0, <1>7
  <2>2. F[m] \in Nat /\ (F[m] # 0 <=> \E k \in 0..(m - 1) : Hit(k))
    BY <1>0
  <2>3. Term(m + 1) \in Nat /\ (Term(m + 1) # 0 <=> Hit(m))
    BY <1>8
  <2>4. (\E k \in 0..m : Hit(k)) <=> (\E k \in 0..(m - 1) : Hit(k)) \/ Hit(m)
    OBVIOUS
  <2> QED
    BY <2>1, <2>2, <2>3, <2>4
<1>11. \A m \in Nat : m \in P
  BY <1>9, <1>10, Upwards
<1> QED
  BY <1>0, <1>5, <1>11 DEF N, Hit

\* A mask that has the bit of a failure meets every way to fail that includes it.
LEMMA FailureCaught ==
  ASSUME NEW mask \in Nat
  PROVE  /\ And(mask, 1) # 0 => And(1, mask) # 0 /\ And(3, mask) # 0
         /\ And(mask, 2) # 0 => And(2, mask) # 0 /\ And(3, mask) # 0
<1>1. \A k \in Nat : (Bit(1, k) = 1 => Bit(3, k) = 1) /\ (Bit(2, k) = 1 => Bit(3, k) = 1)
  <2> TAKE k \in Nat
  <2> DEFINE p == 2 ^ k
  <2>1. p \in Nat /\ p > 0
    BY PowerPositive
  <2>2. Bit(1, k) = (1 \div p) % 2 /\ Bit(2, k) = (2 \div p) % 2 /\ Bit(3, k) = (3 \div p) % 2
    BY DEF Bit
  <2> HIDE DEF p
  <2>3. CASE p = 1
    BY <2>2, <2>3
  <2>4. CASE p = 2
    BY <2>2, <2>4
  <2>5. CASE p > 2
    <3>1. 1 \div p = 0 /\ 2 \div p = 0
      BY <2>1, <2>5
    <3> QED
      BY <2>2, <3>1
  <2> QED
    BY <2>1, <2>3, <2>4, <2>5
<1>2. \A c \in {1, 2, 3} :
        /\ And(mask, c) # 0 => \E k \in 0..(2 * Bits - 1) : Bit(mask, k) = 1 /\ Bit(c, k) = 1
        /\ (\E k \in 0..(2 * Bits - 1) : Bit(mask, k) = 1 /\ Bit(c, k) = 1) => And(c, mask) # 0
  <2> TAKE c \in {1, 2, 3}
  <2>1. c \in Nat
    OBVIOUS
  <2>2. And(mask, c) # 0 <=> \E k \in 0..(2 * Bits - 1) : Bit(mask, k) = 1 /\ Bit(c, k) = 1
    BY <2>1, AndCommon
  <2>3. And(c, mask) # 0 <=> \E k \in 0..(2 * Bits - 1) : Bit(c, k) = 1 /\ Bit(mask, k) = 1
    BY <2>1, AndCommon
  <2> QED
    BY <2>2, <2>3
<1>3. \A k \in 0..(2 * Bits - 1) : (Bit(1, k) = 1 => Bit(3, k) = 1) /\ (Bit(2, k) = 1 => Bit(3, k) = 1)
  BY <1>1
<1> QED
  BY <1>2, <1>3

\* Words joined low word first are a number.
LEMMA JoinedType ==
  ASSUME NEW words \in Seq(Nat)
  PROVE  Joined(words) \in Nat
<1> DEFINE N == Len(words)
           Term(k) == words[k] * 2^(Bits * (k - 1))
           Upto(f, m) == f = [k \in 0..m |-> IF k = 0 THEN 0 ELSE f[k - 1] + Term(k)]
           S == {m \in Nat : \E f : Upto(f, m)}
           F == CHOOSE f : Upto(f, N)
<1>0. N \in Nat
  OBVIOUS
<1>1. 0 \in S
  <2> DEFINE f == [k \in 0..0 |-> 0]
  <2>1. Upto(f, 0)
    OBVIOUS
  <2> HIDE DEF f, Upto
  <2> QED
    BY <2>1
<1>2. \A m \in Nat : m \in S => m + 1 \in S
  <2> TAKE m \in Nat
  <2> HAVE m \in S
  <2> PICK f : Upto(f, m)
    OBVIOUS
  <2> DEFINE g == [k \in 0..(m + 1) |-> IF k = m + 1 THEN f[m] + Term(m + 1) ELSE f[k]]
  <2>1. Upto(g, m + 1)
    <3> HIDE DEF Term
    <3> QED
      OBVIOUS
  <2> HIDE DEF g, Upto
  <2> QED
    BY <2>1
<1>10. N \in S
  BY <1>0, <1>1, <1>2, Upwards
<1>3. Upto(F, N)
  BY <1>10
<1>4. Joined(words) = F[N]
  BY DEF Joined
<1>5. \A k \in 1..N : Term(k) \in Nat
  <2> TAKE k \in 1..N
  <2>1. words[k] \in Nat
    OBVIOUS
  <2>2. Bits * (k - 1) \in Nat
    BY <1>0, WidthAssumption
  <2>3. 2^(Bits * (k - 1)) \in Nat
    BY <2>2, PowerPositive
  <2> QED
    BY <2>1, <2>3
<1>6. \A m \in 0..N : F[m] = IF m = 0 THEN 0 ELSE F[m - 1] + Term(m)
  <2> HIDE DEF Term, N, F
  <2> QED
    BY <1>3
<1> DEFINE P == {m \in Nat : m <= N => F[m] \in Nat}
<1> HIDE DEF Term, N, F
<1>7. 0 \in P
  BY <1>0, <1>6
<1>8. \A m \in Nat : m \in P => m + 1 \in P
  <2> SUFFICES ASSUME NEW m \in Nat, m \in P, m + 1 <= N PROVE F[m + 1] \in Nat
    OBVIOUS
  <2> QED
    BY <1>0, <1>5, <1>6
<1>9. \A m \in Nat : m \in P
  BY <1>7, <1>8, Upwards
<1> QED
  BY <1>0, <1>4, <1>9

LEMMA UnitPositive == Unit \in Nat /\ Unit > 0
BY TenToType, WidthAssumption DEF Unit

LEMMA TimesType ==
  ASSUME NEW a \in Int, NEW b \in Int
  PROVE  Times(a, b) \in Int
<1>1. a * b \in Int
  OBVIOUS
<1> QED
  BY <1>1, UnitPositive DEF Times

LEMMA WordType == Word \subseteq Nat /\ 0 \in Word
<1>1. Bits \in Nat
  BY WidthAssumption
<1>2. 2^Bits \in Nat /\ 2^Bits > 0
  BY <1>1, PowerPositive
<1> QED
  BY <1>2 DEF Word

\* Words joined low word first are the digits of the number they make.
THEOREM JoinedWords ==
  ASSUME NEW words \in Seq(Word)
  PROVE  /\ Joined(words) \in Nat /\ Joined(words) < 2^(Bits * Len(words))
         /\ \A k \in DOMAIN words : (Joined(words) \div 2^(Bits * (k - 1))) % 2^Bits = words[k]
<1> DEFINE N == Len(words)
           W(k) == 2^(Bits * k)
           Term(k) == words[k] * W(k - 1)
           Upto(f, m) == f = [k \in 0..m |-> IF k = 0 THEN 0 ELSE f[k - 1] + Term(k)]
           S == {m \in Nat : \E f : Upto(f, m)}
           F == CHOOSE f : Upto(f, N)
<1>0. N \in Nat /\ Bits \in Nat /\ DOMAIN words = 1..N
  BY WidthAssumption
<1>1. 0 \in S
  <2> DEFINE f == [k \in 0..0 |-> 0]
  <2>1. Upto(f, 0)
    OBVIOUS
  <2> HIDE DEF f, Upto
  <2> QED
    BY <2>1
<1>2. \A m \in Nat : m \in S => m + 1 \in S
  <2> TAKE m \in Nat
  <2> HAVE m \in S
  <2> PICK f : Upto(f, m)
    OBVIOUS
  <2> DEFINE g == [k \in 0..(m + 1) |-> IF k = m + 1 THEN f[m] + Term(m + 1) ELSE f[k]]
  <2>1. Upto(g, m + 1)
    <3> HIDE DEF Term
    <3> QED
      OBVIOUS
  <2> HIDE DEF g, Upto
  <2> QED
    BY <2>1
<1>3. N \in S
  BY <1>0, <1>1, <1>2, Upwards
<1>4. Upto(F, N)
  BY <1>3
<1>5. Joined(words) = F[N]
  BY DEF Joined
<1>6. \A m \in 0..N : F[m] = IF m = 0 THEN 0 ELSE F[m - 1] + Term(m)
  <2> HIDE DEF Term, N, F
  <2> QED
    BY <1>4
<1> DEFINE B == 2^Bits
<1>7. /\ \A k \in Nat : W(k) \in Nat /\ W(k) > 0
      /\ W(0) = 1 /\ B \in Nat /\ B > 0
  <2>1. \A k \in Nat : Bits * k \in Nat
    BY <1>0
  <2>2. Bits * 0 = 0 /\ 2 ^ 0 = 1
    BY <1>0
  <2> QED
    BY <1>0, <2>1, <2>2, PowerPositive
<1>8. \A j, k \in Nat : W(j + k) = W(j) * W(k)
  <2> TAKE j, k \in Nat
  <2>1. Bits * j \in Nat /\ Bits * k \in Nat /\ Bits * (j + k) = Bits * j + Bits * k
    BY <1>0
  <2> QED
    BY <2>1, PowerSum
<1>9. W(1) = B
  <2>1. Bits * 1 = Bits
    BY <1>0
  <2> QED
    BY <2>1
<1>10. \A k \in 1..N : words[k] \in 0..(B - 1)
  BY <1>0, ElementOf DEF Word
<1> DEFINE Digits(n, m) == \A k \in 1..m : (n \div W(k - 1)) % B = words[k]
           Fits(m) == F[m] \in Nat /\ F[m] < W(m) /\ Digits(F[m], m)
           P == {m \in Nat : m <= N => Fits(m)}
<1>15. \A m \in 1..N : Term(m) = words[m] * W(m - 1)
  OBVIOUS
<1>16. \A k \in Nat : W(k) = 2^(Bits * k)
  OBVIOUS
<1> HIDE DEF N, F, W, B, Term
<1>11. Fits(0)
  <2>1. F[0] = 0
    BY <1>0, <1>6
  <2>2. \A k : k \notin 1..0
    OBVIOUS
  <2> QED
    BY <1>7, <2>1, <2>2
<1> HIDE DEF Digits, Fits
<1>12. ASSUME NEW m \in Nat, m + 1 <= N, Fits(m) PROVE Fits(m + 1)
  <2> DEFINE n == F[m]
             w == words[m + 1]
             e == W(m)
  <2>1. n \in Nat /\ n < e /\ Digits(n, m) /\ w \in 0..(B - 1) /\ e \in Nat /\ e > 0
    <3>1. m + 1 \in 1..N
      BY <1>0, <1>12
    <3> QED
      BY <1>7, <1>10, <1>12, <3>1 DEF Fits
  <2>2. F[m + 1] = n + w * e
    BY <1>0, <1>6, <1>12, <1>15
  <2>3. W(m + 1) = e * B
    BY <1>8, <1>9
  <2>10. \A k \in 1..m : (n \div W(k - 1)) % B = words[k]
    BY <2>1 DEF Digits
  <2> HIDE DEF n, w, e
  <2>4. n + w * e \in Nat /\ n + w * e < e * B
    <3> DEFINE y == w * e
               z == e * B
    <3>1. y \in Nat /\ y <= (B - 1) * e /\ (B - 1) * e = z - e /\ z \in Int
      BY <1>7, <2>1
    <3> HIDE DEF y, z
    <3>2. n \in Nat /\ n < e /\ e \in Nat
      BY <2>1
    <3>3. n + y \in Nat /\ n + y < z
      BY <3>1, <3>2
    <3> QED
      BY <3>3 DEF y, z
  <2>5. ASSUME NEW k \in 1..(m + 1) PROVE ((n + w * e) \div W(k - 1)) % B = words[k]
    <3>1. CASE k = m + 1
      <4>1. w \in Nat /\ n \in Nat /\ e \in Nat /\ e > 0 /\ n < e /\ w < B /\ B \in Nat
        BY <1>7, <2>1
      <4>2. (n + w * e) \div e = (n \div e) + w
        BY <4>1, Carry
      <4>3. n \div e = 0 /\ w % B = w
        BY <4>1
      <4>4. (n + w * e) \div e = w
        BY <4>1, <4>2, <4>3
      <4> QED
        BY <3>1, <4>3, <4>4 DEF e, w
    <3>2. CASE k # m + 1
      <4> DEFINE d == W(k - 1)
                 v == W(m - k)
                 c == w * v
      <4>1. k \in 1..m /\ k - 1 \in Nat /\ m - k \in Nat /\ (k - 1) + 1 = k /\ k + (m - k) = m
        BY <2>5, <3>2
      <4>2. e = W(k) * v
        BY <1>8, <4>1 DEF e
      <4>3. W(k) = d * B
        BY <1>8, <1>9, <4>1
      <4>4. d \in Nat /\ d > 0 /\ v \in Nat
        BY <1>7, <4>1
      <4>5. w \in Nat /\ B \in Nat /\ B > 0 /\ n \in Nat
        BY <1>7, <2>1
      <4>11. W(k - 1) = d
        OBVIOUS
      <4> HIDE DEF d, v
      <4>6. w * e = (c * B) * d
        <5>1. w * ((d * B) * v) = ((w * v) * B) * d
          BY <4>4, <4>5
        <5> QED
          BY <4>2, <4>3, <5>1
      <4>7. c \in Nat
        BY <4>4, <4>5
      <4> HIDE DEF c
      <4>8. c * B \in Nat /\ n \div d \in Nat
        BY <4>4, <4>5, <4>7
      <4>9. (n + (c * B) * d) \div d = (n \div d) + c * B
        BY <4>4, <4>5, <4>8, Carry
      <4>10. ((n \div d) + c * B) % B = (n \div d) % B
        <5> DEFINE h == n \div d
        <5>1. h \in Nat
          BY <4>8
        <5> HIDE DEF h
        <5>2. (h + c * B) % B = h % B
          BY <4>5, <4>7, <5>1, Carry
        <5> QED
          BY <5>2 DEF h
      <4>12. (n \div W(k - 1)) % B = words[k]
        BY <2>10, <4>1
      <4> QED
        BY <4>6, <4>9, <4>10, <4>11, <4>12
    <3> QED
      BY <3>1, <3>2
  <2>6. Digits(n + w * e, m + 1)
    BY <2>5 DEF Digits
  <2> QED
    BY <2>2, <2>3, <2>4, <2>6 DEF Fits
<1>13. \A m \in Nat : m \in P
  <2>1. 0 \in P
    BY <1>11
  <2>2. \A m \in Nat : m \in P => m + 1 \in P
    <3> SUFFICES ASSUME NEW m \in Nat, m \in P, m + 1 <= N PROVE Fits(m + 1)
      OBVIOUS
    <3>1. Fits(m)
      BY <1>0
    <3> QED
      BY <1>12, <3>1
  <2> HIDE DEF P
  <2> QED
    BY <2>1, <2>2, Upwards
<1>14. F[N] \in Nat /\ F[N] < W(N) /\ Digits(F[N], N)
  <2>1. Fits(N)
    BY <1>0, <1>13
  <2> QED
    BY <2>1 DEF Fits
<1>17. \A k \in 1..N : W(k - 1) = 2^(Bits * (k - 1))
  BY <1>0, <1>16
<1> QED
  BY <1>0, <1>5, <1>14, <1>16, <1>17 DEF N, B, Digits

\* The sign is the highest bit of all the words.
THEOREM SignedMeaning ==
  ASSUME NEW n \in Nat, NEW width \in Nat \ {0}, NEW magnitude, n < 2^(Bits * width)
  PROVE  LET w == 2^(Bits * width)
         IN Signed(n, width, magnitude) =
              IF 2 * n < w THEN n ELSE IF magnitude THEN w \div 2 - n ELSE n - w
<1> DEFINE w == 2^(Bits * width)
           half == 2^(Bits * width - 1)
<1>1. Bits * width \in Nat /\ Bits * width > 0
  BY WidthAssumption
<1>2. Bits * width - 1 \in Nat /\ (Bits * width - 1) + 1 = Bits * width
  BY <1>1
<1>3. half \in Nat /\ half > 0 /\ w = 2 * half
  BY <1>2, PowerPositive, PowerNext
<1>4. Signed(n, width, magnitude) =
        IF n < half THEN n ELSE IF magnitude THEN -(n % half) ELSE n - 2 * half
  BY DEF Signed
<1>5. n < w
  OBVIOUS
<1> HIDE DEF w, half
<1>6. w \div 2 = half
  BY <1>3
<1>7. half <= n => n % half = n - half
  <2> SUFFICES ASSUME half <= n PROVE n % half = n - half
    OBVIOUS
  <2> DEFINE m == n - half
  <2>1. m \in Nat /\ m < half /\ n = m + 1 * half
    BY <1>3, <1>5
  <2>2. (m + 1 * half) % half = m % half
    BY <1>3, <2>1, Carry
  <2> HIDE DEF m
  <2>3. m % half = m
    BY <1>3, <2>1
  <2> QED
    BY <2>1, <2>2, <2>3 DEF m
<1>8. CASE n < half
  <2>1. 2 * n < w
    BY <1>3, <1>8
  <2> QED
    BY <1>4, <1>8, <2>1 DEF w
<1>9. CASE half <= n
  <2>1. ~(2 * n < w) /\ ~(n < half)
    BY <1>3, <1>9
  <2>2. -(n % half) = w \div 2 - n /\ n - 2 * half = n - w
    BY <1>3, <1>6, <1>7, <1>9
  <2> QED
    BY <1>4, <2>1, <2>2 DEF w
<1> QED
  BY <1>3, <1>8, <1>9

-----------------------------------------------------------------------------
(* Registers *)

\* Answers as `data' holds them.
Answers == Seq([code : Nat, start : Nat, values : Seq(Word)])

LEMMA WiderSeq ==
  ASSUME NEW S, NEW T, S \subseteq T, NEW s \in Seq(S)
  PROVE  s \in Seq(T)
<1>1. Len(s) \in Nat /\ s = [k \in 1..Len(s) |-> s[k]]
  OBVIOUS
<1>2. \A k \in 1..Len(s) : s[k] \in T
  OBVIOUS
<1> QED
  BY <1>1, <1>2

\* A register that an answer holds is read, as a word; else there is none.
LEMMA AddrValue ==
  ASSUME NEW data \in Answers, NEW code, NEW addr \in Nat
  PROVE  LET holds(d) == /\ data[d].code = code /\ data[d].start <= addr
                         /\ addr < data[d].start + Len(data[d].values)
         IN /\ get_addr_value(data, code, addr) \in Word \cup {None}
            /\ (\E d \in DOMAIN data : holds(d)) =>
                 /\ get_start_addr(data, code, addr) # None
                 /\ get_addr_value(data, code, addr) \in Word
<1> DEFINE holding == {d \in DOMAIN data :
                         /\ data[d].code = code /\ data[d].start <= addr
                         /\ addr < data[d].start + Len(data[d].values)}
<1>1. get_start_addr(data, code, addr) = IF holding = {} THEN None ELSE Min(holding)
  BY DEF get_start_addr
<1>2. holding \subseteq Nat
  BY DEF Answers
<1>3. ASSUME holding # {}
      PROVE  /\ get_start_addr(data, code, addr) # None
             /\ get_addr_value(data, code, addr) \in Word
  <2> DEFINE m == Min(holding)
  <2>1. m \in holding
    BY <1>2, <1>3, Extremes
  <2>2. get_start_addr(data, code, addr) = m /\ m # None
    BY <1>1, <1>2, <1>3, <2>1, NoneAssumption
  <2> HIDE DEF m
  <2>3. /\ data[m] \in [code : Nat, start : Nat, values : Seq(Word)]
        /\ data[m].start <= addr /\ addr < data[m].start + Len(data[m].values)
    <3>1. m \in DOMAIN data
      BY <2>1
    <3>2. data[m] \in [code : Nat, start : Nat, values : Seq(Word)]
      BY <3>1, ElementOf DEF Answers
    <3> QED
      BY <2>1, <3>2
  <2>4. get_addr_value(data, code, addr) = data[m].values[addr - data[m].start + 1]
    BY <2>2 DEF get_addr_value
  <2>5. /\ data[m].values \in Seq(Word) /\ data[m].start \in Nat
        /\ addr - data[m].start + 1 \in 1..Len(data[m].values)
    BY <2>3
  <2>6. \A s \in Seq(Word) : \A n \in 1..Len(s) : s[n] \in Word
    BY ElementOf
  <2> QED
    BY <2>2, <2>4, <2>5, <2>6
<1>4. holding = {} => get_addr_value(data, code, addr) = None
  BY <1>1 DEF get_addr_value
<1> QED
  BY <1>3, <1>4

LEMMA ValuesType ==
  ASSUME NEW data \in Answers, NEW code, NEW regs \in Seq(Nat)
  PROVE  /\ Values(data, code, regs) \in Seq(Word \cup {None})
         /\ Len(Values(data, code, regs)) = Len(regs)
         /\ ~Missing(Values(data, code, regs)) => Values(data, code, regs) \in Seq(Word)
<1> DEFINE words == Values(data, code, regs)
<1>1. words = [k \in 1..Len(regs) |-> get_addr_value(data, code, regs[k])]
  BY DEF Values
<1>2. \A k \in 1..Len(regs) : get_addr_value(data, code, regs[k]) \in Word \cup {None}
  BY AddrValue
<1>3. words \in Seq(Word \cup {None}) /\ Len(words) = Len(regs)
  BY <1>1, <1>2
<1>4. ASSUME ~Missing(words) PROVE words \in Seq(Word)
  <2>1. \A k \in 1..Len(regs) : words[k] \in Word
    <3>1. DOMAIN words = 1..Len(regs)
      BY <1>1
    <3> HIDE DEF words
    <3> QED
      BY <1>1, <1>2, <1>4, <3>1 DEF Missing
  <2> QED
    BY <1>1, <2>1
<1> QED
  BY <1>3, <1>4

-----------------------------------------------------------------------------
(* What registers are read as *)

LEMMA ScaledType ==
  ASSUME NEW value \in Int, NEW d, IsDefinition(d)
  PROVE  Scaled(value, d) \in Int
<1> DEFINE shifted == IF d.offset = None THEN value ELSE value - d.offset
           scaled  == IF d.scale = None THEN shifted ELSE Times(shifted, d.scale)
<1>1. shifted \in Int
  BY DEF IsDefinition, Optional
<1> HIDE DEF shifted
<1>2. scaled \in Int
  BY <1>1, TimesType DEF IsDefinition, Optional
<1>3. Scaled(value, d) = IF d.divide = None THEN scaled ELSE (scaled \div (d.divide * Unit)) * Unit
  BY DEF Scaled, shifted
<1> HIDE DEF scaled
<1>4. CASE d.divide = None
  BY <1>2, <1>3, <1>4
<1>5. CASE d.divide # None
  <2>1. d.divide \in Nat /\ d.divide > 0
    BY <1>5 DEF IsDefinition, Optional
  <2>2. d.divide * Unit \in Nat /\ d.divide * Unit > 0
    BY <2>1, UnitPositive
  <2>3. scaled \div (d.divide * Unit) \in Int
    BY <1>2, <2>2
  <2> QED
    BY <1>3, <1>5, <2>3, UnitPositive
<1> QED
  BY <1>4, <1>5

\* Offset and scale, up to one last place.
LEMMA ScaledMeaning ==
  ASSUME NEW value \in Int, NEW d, IsDefinition(d), d.divide = None
  PROVE  LET scale  == IF d.scale = None THEN Unit ELSE d.scale
             offset == IF d.offset = None THEN 0 ELSE d.offset
             exact  == (value - offset) * scale
             n      == Scaled(value, d)
         IN /\ n \in Int /\ scale \in Int /\ offset \in Int /\ exact \in Int
            /\ n * Unit <= exact /\ exact < n * Unit + Unit
<1> DEFINE scale == IF d.scale = None THEN Unit ELSE d.scale
           offset == IF d.offset = None THEN 0 ELSE d.offset
           shifted == value - offset
           n == Scaled(value, d)
<1>1. Unit \in Nat /\ Unit > 0
  BY UnitPositive
<1>2. scale \in Int /\ offset \in Int
  BY <1>1 DEF IsDefinition, Optional
<1>3. n = IF d.scale = None THEN shifted ELSE (shifted * scale) \div Unit
  <2>1. (IF d.offset = None THEN value ELSE value - d.offset) = shifted
    OBVIOUS
  <2> QED
    BY <2>1 DEF Scaled, Times
<1>4. shifted \in Int
  BY <1>2
<1>5. d.scale = None => scale = Unit
  OBVIOUS
<1> HIDE DEF n, scale, shifted
<1> DEFINE exact == shifted * scale
<1>6. exact \in Int
  BY <1>2, <1>4
<1>7. CASE d.scale = None
  <2>1. n = shifted /\ exact = n * Unit
    BY <1>3, <1>5, <1>7
  <2> QED
    BY <1>1, <1>2, <1>4, <1>6, <2>1 DEF shifted, n, scale
<1>8. CASE d.scale # None
  <2> HIDE DEF exact
  <2>1. n = exact \div Unit
    BY <1>3, <1>8 DEF exact
  <2> DEFINE u == Unit
  <2>4. u \in Nat /\ u > 0 /\ n = exact \div u
    BY <1>1, <2>1
  <2> HIDE DEF u
  <2>2. n \in Int /\ exact = u * n + (exact % u) /\ exact % u \in 0..(u - 1)
    BY <1>6, <2>4
  <2>3. u * n = n * u /\ u * n \in Int
    BY <2>2, <2>4
  <2>5. n * u <= exact /\ exact < n * u + u
    BY <1>6, <2>2, <2>3, <2>4
  <2> QED
    BY <1>2, <1>6, <2>2, <2>5 DEF exact, shifted, n, scale, u
<1> QED
  BY <1>7, <1>8

LEMMA MaskedType ==
  ASSUME NEW n \in Nat, NEW d, IsDefinition(d)
  PROVE  Masked(n, d) \in Nat
<1> DEFINE masked == IF d.mask = None THEN n ELSE And(n, d.mask)
           picked == IF d.bit = None THEN masked ELSE Bit(masked, d.bit)
<1>1. masked \in Nat
  BY AndCommon DEF IsDefinition, Optional
<1> HIDE DEF masked
<1>2. picked \in Nat
  BY <1>1, BitType DEF IsDefinition, Optional
<1>3. Masked(n, d) = IF d.bitmask = None THEN picked ELSE And(picked, d.bitmask) \div d.bitmask
  BY DEF Masked, masked
<1> HIDE DEF picked
<1>4. CASE d.bitmask = None
  BY <1>2, <1>3, <1>4
<1>5. CASE d.bitmask # None
  <2>1. d.bitmask \in Nat /\ d.bitmask > 0
    BY <1>5 DEF IsDefinition, Optional
  <2>2. And(picked, d.bitmask) \in Nat
    BY <1>2, <2>1, AndCommon
  <2> QED
    BY <1>3, <1>5, <2>1, <2>2
<1> QED
  BY <1>4, <1>5

LEMMA SignedType ==
  ASSUME NEW n \in Nat, NEW width \in Nat \ {0}, NEW magnitude
  PROVE  Signed(n, width, magnitude) \in Int
<1> DEFINE half == 2^(Bits * width - 1)
<1>1. Bits * width \in Nat /\ Bits * width > 0
  BY WidthAssumption
<1>2. Bits * width - 1 \in Nat
  BY <1>1
<1>3. half \in Nat /\ half > 0
  BY <1>2, PowerPositive
<1>4. n % half \in Int
  BY <1>3
<1>5. Signed(n, width, magnitude) =
        IF n < half THEN n ELSE IF magnitude THEN -(n % half) ELSE n - 2 * half
  BY DEF Signed
<1> HIDE DEF half
<1> QED
  BY <1>3, <1>4, <1>5

\* The registers of a definition are read as a number or not at all, and certainly as
\* a number when every one of them was answered and no range replaces it.
LEMMA NumberType ==
  ASSUME NEW data \in Answers, NEW code, NEW d, IsDefinition(d), d.registers # None
  PROVE  \A r \in {read_registers(data, code, d), read_registers_signed(data, code, d)} :
           /\ r \in Int \cup {None}
           /\ d.registers # <<>> /\ ~Missing(Values(data, code, d.registers)) /\ d.range = None
                => r \in Int
<1> DEFINE words == Values(data, code, d.registers)
           Complete(r) == /\ r \in Int \cup {None}
                          /\ d.registers # <<>> /\ ~Missing(words) /\ d.range = None => r \in Int
<1>1. d.registers \in Seq(Nat)
  BY DEF IsDefinition, Optional
<1>2. /\ Len(words) = Len(d.registers) /\ words \in Seq(Word \cup {None})
      /\ ~Missing(words) => words \in Seq(Nat)
  <2> HIDE DEF words
  <2>1. /\ Len(words) = Len(d.registers) /\ words \in Seq(Word \cup {None})
        /\ ~Missing(words) => words \in Seq(Word)
    BY <1>1, ValuesType DEF words
  <2>2. words \in Seq(Word) => words \in Seq(Nat)
    BY WordType, WiderSeq
  <2> QED
    BY <2>1, <2>2
<1>3. words = <<>> <=> d.registers = <<>>
  BY <1>1, <1>2
<1>4. d.range # None => d.range.default \in Int \cup {None}
  BY DEF IsDefinition, IsRange, Optional
<1> HIDE DEF words
<1>5. Complete(Unsigned(d, words))
  <2> DEFINE n == Joined(words)
  <2>1. ASSUME ~Missing(words)
        PROVE  n \in Nat /\ Masked(n, d) * Unit \in Int /\ Scaled(Masked(n, d) * Unit, d) \in Int
    <3>1. n \in Nat
      BY <1>2, <2>1, JoinedType
    <3> HIDE DEF n
    <3>2. Masked(n, d) \in Nat
      BY <3>1, MaskedType
    <3>3. Masked(n, d) * Unit \in Int
      BY <3>2, UnitPositive
    <3> QED
      BY <3>1, <3>3, ScaledType
  <2> HIDE DEF n
  <2> QED
    BY <1>3, <1>4, <2>1 DEF Unsigned, n
<1>6. Complete(SignedNumber(d, words))
  <2> DEFINE n == Signed(Joined(words), Len(words), d.magnitude)
  <2>1. ASSUME ~Missing(words), words # <<>>
        PROVE  n \in Int /\ Scaled(n * Unit, d) \in Int
    <3>1. Joined(words) \in Nat /\ Len(words) \in Nat \ {0}
      BY <1>2, <2>1, JoinedType
    <3>2. n \in Int
      BY <3>1, SignedType
    <3> HIDE DEF n
    <3>3. n * Unit \in Int
      BY <3>2, UnitPositive
    <3> QED
      BY <3>2, <3>3, ScaledType
  <2> HIDE DEF n
  <2> QED
    BY <1>3, <1>4, <2>1 DEF SignedNumber, n
<1>7. /\ read_registers(data, code, d) = Unsigned(d, words)
      /\ read_registers_signed(data, code, d) = SignedNumber(d, words)
  BY DEF read_registers, read_registers_signed, words
<1> QED
  BY <1>5, <1>6, <1>7 DEF words

LEMMA ReadType ==
  ASSUME NEW data \in Answers, NEW code, NEW d, IsDefinition(d), d.registers # None
  PROVE  Read(data, code, d) \in Int \cup {None}
BY NumberType DEF Read

-----------------------------------------------------------------------------
(* Validation *)

LEMMA ValidatedType ==
  ASSUME NEW value \in Int, NEW rule, rule # None => IsRule(rule),
         NEW before \in Int \cup {None}
  PROVE  Validated(value, rule, before) \in
           [value : Int \cup {None}, raises : BOOLEAN, previous : Int \cup {None}]
<1>1. CASE rule = None
  BY <1>1 DEF Validated
<1>2. CASE rule # None
  <2>1. rule.default \in Int \cup {None}
    BY <1>2 DEF IsRule, IsRange, Optional
  <2> QED
    BY <1>2, <2>1, Zenon DEF Validated, Outcome, do_validate
<1> QED
  BY <1>1, <1>2

\* A rule accepts a value that its bounds and its dev allow, and keeps it as the
\* measure of the next; any other it refuses, and keeps the measure.  The default
\* takes the place of a value only when no failure of it discards the set.
LEMMA ValidatedResult ==
  ASSUME NEW value \in Int, NEW rule, rule # None, IsRule(rule),
         NEW before \in Int \cup {None}
  PROVE  LET v == Validated(value, rule, before)
             jumps == /\ rule.dev # 0 /\ value # 0 /\ before # None
                      /\ Abs(value - before) > rule.dev
         IN /\ in_range(value, rule) /\ ~jumps =>
                 /\ v.value = value /\ ~v.raises
                 /\ rule.dev # 0 => v.previous = value
            /\ ~(in_range(value, rule) /\ ~jumps) =>
                 /\ v.value = rule.default /\ v.previous = before
                 /\ ~v.raises =>
                      ~(/\ And(rule.invalidate_all, 1) # 0
                        /\ rule.dev # 0 => And(rule.invalidate_all, 2) # 0)
<1> DEFINE outside == ~in_range(value, rule)
           jump == /\ rule.dev # 0 /\ value # 0 /\ before # None
                   /\ Abs(value - before) > rule.dev
           invalid == (IF outside THEN 1 ELSE 0) + (IF jump THEN 2 ELSE 0)
           v == Validated(value, rule, before)
<1>1. /\ v.value = IF invalid = 0 THEN value ELSE rule.default
      /\ v.raises = (And(invalid, rule.invalidate_all) # 0)
      /\ v.previous = IF rule.dev # 0 /\ ~jump /\ ~outside THEN value ELSE before
  BY DEF Validated, Outcome, do_validate
<1>2. And(0, rule.invalidate_all) = 0
  <2>1. \A k \in Nat : Bit(0, k) = 0
    <3> TAKE k \in Nat
    <3>1. 2^k \in Nat /\ 2^k > 0
      BY PowerPositive
    <3> QED
      BY <3>1 DEF Bit
  <2>2. rule.invalidate_all \in Nat
    BY DEF IsRule
  <2> QED
    BY <2>1, <2>2, AndCommon
<1>3. /\ And(rule.invalidate_all, 1) # 0 =>
           And(1, rule.invalidate_all) # 0 /\ And(3, rule.invalidate_all) # 0
      /\ And(rule.invalidate_all, 2) # 0 =>
           And(2, rule.invalidate_all) # 0 /\ And(3, rule.invalidate_all) # 0
  BY FailureCaught DEF IsRule
<1>4. invalid = IF outside THEN (IF jump THEN 3 ELSE 1) ELSE (IF jump THEN 2 ELSE 0)
  OBVIOUS
<1>5. jump => rule.dev # 0
  OBVIOUS
<1> HIDE DEF outside, jump, invalid, v
<1>6. ASSUME ~outside, ~jump
      PROVE  v.value = value /\ ~v.raises /\ (rule.dev # 0 => v.previous = value)
  BY <1>1, <1>2, <1>4, <1>6
<1>7. ASSUME outside \/ jump
      PROVE  /\ v.value = rule.default /\ v.previous = before
             /\ ~v.raises => ~(And(rule.invalidate_all, 1) # 0 /\
                                 (rule.dev # 0 => And(rule.invalidate_all, 2) # 0))
  <2>1. CASE outside
    <3>1. invalid \in {1, 3}
      BY <1>4, <2>1
    <3>2. /\ v.value = rule.default /\ v.previous = before
          /\ v.raises = (And(invalid, rule.invalidate_all) # 0)
      BY <1>1, <2>1, <3>1
    <3> QED
      BY <1>3, <3>1, <3>2
  <2>2. CASE ~outside
    <3>1. invalid = 2 /\ rule.dev # 0
      BY <1>4, <1>5, <1>7, <2>2
    <3>2. /\ v.value = rule.default /\ v.previous = before
          /\ v.raises = (And(invalid, rule.invalidate_all) # 0)
      BY <1>1, <1>7, <2>2, <3>1
    <3> QED
      BY <1>3, <3>1, <3>2
  <2> QED
    BY <2>1, <2>2
<1> QED
  BY <1>6, <1>7 DEF v, outside, jump

-----------------------------------------------------------------------------
(* Rounding *)

LEMMA StepType ==
  ASSUME NEW digits \in Nat \cup {-1}
  PROVE  Step(digits) \in Nat /\ Step(digits) > 0
<1>1. CASE digits = -1 \/ digits >= Places
  BY <1>1 DEF Step
<1>2. CASE digits # -1 /\ digits < Places
  <2>1. Places - digits \in 0..Places
    BY <1>2, WidthAssumption
  <2> QED
    BY <1>2, <2>1, TenToType DEF Step
<1> QED
  BY <1>1, <1>2, WidthAssumption

\* Rounding keeps 0 and the order, and moves a number by at most half a step.
LEMMA RoundingFacts ==
  ASSUME NEW digits \in Nat \cup {-1}, NEW v \in Int
  PROVE  /\ get_number(v, digits) \in Int
         /\ 2 * get_number(v, digits) - 2 * v <= Step(digits)
         /\ 2 * v - 2 * get_number(v, digits) <= Step(digits)
         /\ v = 0 => get_number(v, digits) = 0
<1> DEFINE s == Step(digits)
           q == v \div s
           r == v % s
           n == Nearest(q, r, s)
<1>1. s \in Nat /\ s > 0
  BY StepType
<1> HIDE DEF s
<1>2. q \in Int /\ r \in 0..(s - 1) /\ v = s * q + r
  BY <1>1
<1>3. (n = q + 1 /\ 2 * r >= s) \/ (n = q /\ 2 * r <= s)
  <2> HIDE DEF q, r
  <2> QED
    BY <1>1, <1>2 DEF Nearest
<1>4. v = 0 => q = 0 /\ r = 0
  BY <1>1
<1>5. get_number(v, digits) = s * n
  BY DEF get_number, s
<1> HIDE DEF q, r
<1>6. v = 0 => n = 0
  BY <1>1, <1>4 DEF Nearest
<1> HIDE DEF n
<1>7. CASE n = q + 1 /\ 2 * r >= s
  <2>1. s * n = s * q + s
    BY <1>1, <1>2, <1>7
  <2>2. s * q \in Int
    BY <1>1, <1>2
  <2> QED
    BY <1>1, <1>2, <1>5, <1>6, <1>7, <2>1, <2>2 DEF s
<1>8. CASE n = q /\ 2 * r <= s
  <2>1. s * q \in Int
    BY <1>1, <1>2
  <2> QED
    BY <1>1, <1>2, <1>5, <1>6, <1>8, <2>1 DEF s
<1> QED
  BY <1>3, <1>7, <1>8

LEMMA RoundingOrder ==
  ASSUME NEW digits \in Nat \cup {-1}, NEW v \in Int, NEW w \in Int, v <= w
  PROVE  get_number(v, digits) <= get_number(w, digits)
<1> DEFINE s == Step(digits)
           N(u) == Nearest(u \div s, u % s, s)
<1>1. s \in Nat /\ s > 0
  BY StepType
<1> HIDE DEF s
<1>2. /\ v \div s \in Int /\ v % s \in 0..(s - 1) /\ v = s * (v \div s) + (v % s)
      /\ w \div s \in Int /\ w % s \in 0..(s - 1) /\ w = s * (w \div s) + (w % s)
  BY <1>1
<1>3. N(v) \in Int /\ N(w) \in Int /\ N(v) <= N(w)
  <2> DEFINE q == v \div s
             r == v % s
             p == w \div s
             t == w % s
  <2>1. /\ q \in Int /\ r \in 0..(s - 1) /\ v = s * q + r
        /\ p \in Int /\ t \in 0..(s - 1) /\ w = s * p + t
    BY <1>2
  <2> HIDE DEF q, r, p, t
  <2>2. q <= p
    <3> SUFFICES ASSUME p + 1 <= q PROVE FALSE
      BY <2>1
    <3>1. s * (p + 1) <= s * q
      BY <1>1, <2>1
    <3>2. s * (p + 1) = s * p + s /\ s * p \in Int /\ s * q \in Int
      BY <1>1, <2>1
    <3> QED
      BY <1>1, <2>1, <3>1, <3>2
  <2>3. p = q => r <= t
    <3>1. s * p \in Int
      BY <1>1, <2>1
    <3> QED
      BY <2>1, <3>1
  <2>4. Nearest(q, r, s) \in {q, q + 1} /\ Nearest(p, t, s) \in {p, p + 1}
    BY DEF Nearest
  <2>5. CASE q < p
    BY <2>1, <2>4, <2>5 DEF q, r, p, t
  <2>6. CASE q = p
    <3>1. Nearest(q, r, s) <= Nearest(p, t, s)
      BY <1>1, <2>1, <2>3, <2>6 DEF Nearest
    <3> QED
      BY <2>1, <2>4, <3>1 DEF q, r, p, t
  <2> QED
    BY <2>1, <2>2, <2>5, <2>6
<1>4. get_number(v, digits) = s * N(v) /\ get_number(w, digits) = s * N(w)
  BY DEF get_number, s
<1> HIDE DEF N
<1>5. s * N(v) <= s * N(w)
  BY <1>1, <1>3
<1> QED
  BY <1>4, <1>5

\* What is rounded is a multiple of the step.
LEMMA RoundingGrid ==
  ASSUME NEW digits \in Nat \cup {-1}, NEW v \in Int
  PROVE  get_number(v, digits) % Step(digits) = 0
<1> DEFINE s == Step(digits)
           n == Nearest(v \div s, v % s, s)
<1>1. s \in Nat /\ s > 0
  BY StepType
<1>2. get_number(v, digits) = s * n
  BY DEF get_number
<1> HIDE DEF s
<1>3. v \div s \in Int
  BY <1>1
<1>4. n \in Int
  BY <1>3 DEF Nearest
<1> HIDE DEF n
<1> DEFINE t == s * n
           q == t \div s
           r == t % s
<1>5. t \in Int
  BY <1>1, <1>4
<1>6. t = s * n
  OBVIOUS
<1> HIDE DEF t
<1>7. q \in Int /\ r \in 0..(s - 1) /\ t = s * q + r
  BY <1>1, <1>5
<1> HIDE DEF q, r
<1>8. r = s * (n - q)
  <2>1. s * (n - q) = s * n - s * q /\ s * n \in Int /\ s * q \in Int
    BY <1>1, <1>4, <1>7
  <2> QED
    BY <1>6, <1>7, <2>1
<1> DEFINE k == n - q
<1>9. k \in Int /\ r = s * k
  BY <1>4, <1>7, <1>8
<1> HIDE DEF k
<1>10. k < 1
  <2> SUFFICES ASSUME k >= 1 PROVE FALSE
    BY <1>9
  <2>1. s * k >= s
    BY <1>1, <1>9
  <2> QED
    BY <1>1, <1>7, <1>9, <2>1
<1>11. k > -1
  <2> SUFFICES ASSUME k <= -1 PROVE FALSE
    BY <1>9
  <2>1. s * k <= -s
    BY <1>1, <1>9
  <2> QED
    BY <1>1, <1>7, <1>9, <2>1
<1>12. k = 0
  BY <1>9, <1>10, <1>11
<1>13. r = 0
  BY <1>1, <1>9, <1>12
<1> QED
  BY <1>2, <1>13 DEF s, t, r

\* A number kept to a last place and rounded is where the exact one is.
LEMMA RoundedNear ==
  ASSUME NEW step \in Nat, NEW unit \in Nat, unit > 0, NEW v \in Int, NEW n \in Int,
         NEW asked \in Int,
         2 * v - 2 * n <= step, 2 * n - 2 * v <= step,
         asked - n * unit < unit, n * unit - asked < unit
  PROVE  2 * Abs(v * unit - asked) < (step + 2) * unit
<1> DEFINE a == v * unit
           b == n * unit
           s == step * unit
<1>1. a \in Int /\ b \in Int /\ s \in Int
  OBVIOUS
<1>2. 2 * a - 2 * b <= s
  <2>1. (2 * v - 2 * n) * unit <= step * unit
    OBVIOUS
  <2>2. (2 * v - 2 * n) * unit = 2 * (v * unit) - 2 * (n * unit)
    OBVIOUS
  <2> QED
    BY <2>1, <2>2
<1>3. 2 * b - 2 * a <= s
  <2>1. (2 * n - 2 * v) * unit <= step * unit
    OBVIOUS
  <2>2. (2 * n - 2 * v) * unit = 2 * (n * unit) - 2 * (v * unit)
    OBVIOUS
  <2> QED
    BY <2>1, <2>2
<1>4. (step + 2) * unit = s + 2 * unit
  OBVIOUS
<1>5. asked - b < unit /\ b - asked < unit
  OBVIOUS
<1>6. v * unit = a
  OBVIOUS
<1> HIDE DEF a, b, s
<1>7. 2 * (a - asked) < s + 2 * unit /\ 2 * (asked - a) < s + 2 * unit
  BY <1>1, <1>2, <1>3, <1>5
<1>8. 2 * Abs(a - asked) < s + 2 * unit
  BY <1>1, <1>7 DEF Abs
<1> QED
  BY <1>4, <1>6, <1>8

-----------------------------------------------------------------------------
(* Sums of sensors *)

Acc == [value : Int, absent : BOOLEAN, raises : BOOLEAN]

LEMMA CombinedType ==
  ASSUME NEW op, NEW value \in Int, NEW n \in Int
  PROVE  Combined(op, value, n) \in Int
<1>1. value * Unit \in Int /\ (-value) * Unit \in Int
  BY UnitPositive
<1>2. n > 0 => (value * Unit) \div n \in Int
  BY <1>1
<1>3. n < 0 => ((-value) * Unit) \div (-n) \in Int
  BY <1>1
<1>4. Times(value, n) \in Int
  BY TimesType
<1>5. value - n \in Int /\ value + n \in Int
  OBVIOUS
<1>6. op \in {"subtract", "multiply", "divide"} \/ op \notin {"subtract", "multiply", "divide"}
  OBVIOUS
<1> QED
  BY <1>2, <1>3, <1>4, <1>5, <1>6, Zenon DEF Combined

LEMMA SensorReadType ==
  ASSUME NEW acc \in Acc, NEW s, IsSensor(s), NEW data \in Answers, NEW code
  PROVE  SensorRead(acc, s, data, code) \in Acc
<1> DEFINE n == Read(data, code, s)
           m == IF s.multiply = None THEN None ELSE Read(data, code, s.multiply)
           value == IF m = None THEN n ELSE Times(n, m)
           v == Validated(value, s.validation, None)
<1>1. n \in Int \cup {None} /\ m \in Int \cup {None}
  BY ReadType DEF IsSensor
<1> HIDE DEF n, m
<1>2. ASSUME n # None PROVE value \in Int
  BY <1>1, <1>2, TimesType
<1> HIDE DEF value
<1>3. s.validation # None => IsRule(s.validation)
  BY DEF IsSensor, IsDefinition
<1>4. ASSUME n # None
      PROVE  v \in [value : Int \cup {None}, raises : BOOLEAN, previous : Int \cup {None}]
  BY <1>2, <1>3, <1>4, ValidatedType
<1> HIDE DEF v
<1>5. Raised(acc) \in Acc
  BY DEF Raised, Acc
<1>6. ASSUME n # None PROVE Added(acc, s, v) \in Acc
  <2>1. CASE v.raises
    BY <1>5, <2>1 DEF Added
  <2>2. CASE ~v.raises /\ v.value = None
    BY <2>2 DEF Added
  <2>3. CASE ~v.raises /\ v.value # None
    <3>1. v.value \in Int /\ acc.value \in Int
      BY <1>4, <1>6, <2>3 DEF Acc
    <3>2. Combined(s.operator, acc.value, v.value) \in Int
      BY <3>1, CombinedType
    <3> QED
      BY <2>3, <3>2 DEF Added, Acc
  <2> QED
    BY <2>1, <2>2, <2>3
<1>7. ASSUME n # None PROVE SensorTerm(acc, s, n, m) \in Acc
  BY <1>5, <1>6, <1>7 DEF SensorTerm, v, value
<1>8. [acc EXCEPT !.absent = TRUE] \in Acc
  BY DEF Acc
<1> QED
  BY <1>5, <1>7, <1>8 DEF SensorRead, n, m

LEMMA CustomType ==
  ASSUME NEW sensors, IsList(sensors), \A k \in DOMAIN sensors : IsSensor(sensors[k]),
         NEW data \in Answers, NEW code
  PROVE  read_registers_custom(data, code, sensors) \in Acc
<1> DEFINE N == Len(sensors)
           zero == [value |-> 0, absent |-> FALSE, raises |-> FALSE]
           After(acc, k) == SensorRead(acc, sensors[k], data, code)
           Upto(f, m) == f = [k \in 0..m |-> IF k = 0 THEN zero ELSE After(f[k - 1], k)]
           S == {m \in Nat : \E f : Upto(f, m)}
           F == CHOOSE f : Upto(f, N)
<1>0. N \in Nat /\ \A k \in 1..N : IsSensor(sensors[k])
  BY DEF IsList
<1>1. 0 \in S
  <2> DEFINE f == [k \in 0..0 |-> zero]
  <2>1. Upto(f, 0)
    OBVIOUS
  <2> HIDE DEF f, Upto
  <2> QED
    BY <2>1
<1>2. \A m \in Nat : m \in S => m + 1 \in S
  <2> TAKE m \in Nat
  <2> HAVE m \in S
  <2> PICK f : Upto(f, m)
    OBVIOUS
  <2> DEFINE g == [k \in 0..(m + 1) |-> IF k = m + 1 THEN After(f[m], m + 1) ELSE f[k]]
  <2>1. Upto(g, m + 1)
    <3> HIDE DEF After, zero
    <3> QED
      OBVIOUS
  <2> HIDE DEF g, Upto
  <2> QED
    BY <2>1
<1>3. N \in S
  BY <1>0, <1>1, <1>2, Upwards
<1>4. Upto(F, N)
  BY <1>3
<1>5. read_registers_custom(data, code, sensors) = F[N]
  BY DEF read_registers_custom
<1>6. \A m \in 0..N : F[m] = IF m = 0 THEN zero ELSE After(F[m - 1], m)
  <2> HIDE DEF N, F, After, zero
  <2> QED
    BY <1>4
<1> DEFINE P == {m \in Nat : m <= N => F[m] \in Acc}
<1>10. zero \in Acc
  BY DEF Acc
<1> HIDE DEF N, F, zero
<1>7. 0 \in P
  BY <1>0, <1>6, <1>10
<1>8. \A m \in Nat : m \in P => m + 1 \in P
  <2> SUFFICES ASSUME NEW m \in Nat, m \in P, m + 1 <= N PROVE F[m + 1] \in Acc
    OBVIOUS
  <2>1. F[m] \in Acc /\ IsSensor(sensors[m + 1])
    BY <1>0
  <2>2. F[m + 1] = SensorRead(F[m], sensors[m + 1], data, code)
    BY <1>0, <1>6
  <2> QED
    BY <2>1, <2>2, SensorReadType
<1>9. \A m \in Nat : m \in P
  BY <1>7, <1>8, Upwards
<1> QED
  BY <1>0, <1>5, <1>9

-----------------------------------------------------------------------------
(* Texts *)

LEMMA StateForms ==
  /\ \A v \in Int : Number(v) \in State /\ Number(v).kind = "number" /\ Number(v).val[1] = v
  /\ \A s \in Seq(Int) : /\ Text(s) \in State /\ Text(s).kind = "text"
                         /\ List(s) \in State
  /\ Nothing \in State /\ Nothing.kind = "none"
  /\ Blank \in State /\ Blank.kind = "text"
BY DEF State, Number, Text, List, Nothing, Blank

LEMMA PartsType ==
  ASSUME NEW words \in Seq(Nat)
  PROVE  Bytes(words) \in Seq(Int) /\ Nibbles(words) \in Seq(Int)
<1>0. /\ Len(words) \in Nat /\ \A k \in 1..Len(words) : words[k] \in Nat
      /\ Bits \div 2 \in Nat /\ Bits \div 4 \in Nat
  BY WidthAssumption
<1>1. \A w, k, b \in Nat : (w \div 2^(k * b)) % 2^b \in Int
  <2> TAKE w, k, b \in Nat
  <2>1. k * b \in Nat
    OBVIOUS
  <2>2. 2^(k * b) \in Nat /\ 2^(k * b) > 0 /\ 2^b \in Nat /\ 2^b > 0
    BY <2>1, PowerPositive
  <2>3. w \div 2^(k * b) \in Int
    BY <2>2
  <2> QED
    BY <2>2, <2>3
<1>2. \A w, k \in Nat : Byte(w, k) \in Int /\ Nibble(w, k) \in Int
  BY <1>0, <1>1 DEF Byte, Nibble
<1>3. \A k \in 1..(2 * Len(words)) : Byte(words[(k + 1) \div 2], k % 2) \in Int
  <2> TAKE k \in 1..(2 * Len(words))
  <2>1. (k + 1) \div 2 \in 1..Len(words) /\ k % 2 \in Nat
    BY <1>0
  <2> QED
    BY <1>0, <1>2, <2>1
<1>4. \A k \in 1..(4 * Len(words)) : Nibble(words[(k + 3) \div 4], 3 - ((k - 1) % 4)) \in Int
  <2> TAKE k \in 1..(4 * Len(words))
  <2>1. (k + 3) \div 4 \in 1..Len(words) /\ 3 - ((k - 1) % 4) \in Nat
    BY <1>0
  <2> QED
    BY <1>0, <1>2, <2>1
<1> QED
  BY <1>0, <1>3, <1>4 DEF Bytes, Nibbles

LEMMA TextType ==
  ASSUME NEW words \in Seq(Nat), NEW item, IsItem(item), item.rule \in 5..10
  PROVE  TextOf(item, words) \in State
<1>1. words \in Seq(Int) /\ Bytes(words) \in Seq(Int) /\ Nibbles(words) \in Seq(Int)
  BY PartsType, WiderSeq
<1>2. DateParts(words) \in Seq(Int)
  <2>1. <<>> \in Seq(Int)
    OBVIOUS
  <2> QED
    BY <1>1, <2>1 DEF DateParts
<1>3. TimeParts(words, item) \in Seq(Int)
  <2>0. item.base \in Nat /\ item.base > 0 /\ item.offset \in Int \cup {None}
        /\ Len(words) \in Nat /\ \A k \in 1..Len(words) : words[k] \in Nat
    BY SMTT(30) DEF IsItem, IsDefinition, Optional
  <2>1. ASSUME Len(words) = 1 PROVE <<words[1] \div item.base, words[1] % item.base>> \in Seq(Int)
    <3>1. words[1] \div item.base \in Int /\ words[1] % item.base \in Int
      BY <2>0, <2>1
    <3> QED
      BY <3>1
  <2> DEFINE t(k) == IF item.offset = None THEN words[k] ELSE words[k] - item.offset \div Unit
  <2>2. \A k \in 1..Len(words) : Digitwise(t(k) \div item.base, t(k) % item.base) \in Int
    <3> TAKE k \in 1..Len(words)
    <3>1. t(k) \in Int
      BY <2>0, UnitPositive
    <3> HIDE DEF t
    <3>2. t(k) \div item.base \in Int /\ t(k) % item.base \in Int
      BY <2>0, <3>1
    <3> QED
      BY <3>2 DEF Digitwise
  <2>3. TimeParts(words, item) =
          IF Len(words) = 1 THEN <<words[1] \div item.base, words[1] % item.base>>
          ELSE [k \in 1..Len(words) |->
                  IF words[k] < item.base THEN words[k]
                  ELSE Digitwise(t(k) \div item.base, t(k) % item.base)]
    BY DEF TimeParts
  <2> HIDE DEF t
  <2> QED
    BY <2>0, <2>1, <2>2, <2>3
<1>4. item.rule \in {5, 6, 7, 8, 9, 10}
  OBVIOUS
<1>5. TextOf(item, words) \in {Text(Bytes(words)), List(words), Text(Nibbles(words)),
                               Text(DateParts(words)), Text(TimeParts(words, item))}
  BY <1>4, Zenon DEF TextOf
<1> QED
  BY <1>1, <1>2, <1>3, <1>5, StateForms

LEMMA LookupType ==
  ASSUME NEW n, NEW dictionary, IsList(dictionary), dictionary # <<>>,
         \A k \in DOMAIN dictionary : dictionary[k].value \in Seq(Int)
  PROVE  lookup_value(n, dictionary) \in Seq(Int)
<1> DEFINE hits     == {k \in DOMAIN dictionary : Matches(dictionary[k], n)}
           defaults == {k \in DOMAIN dictionary : dictionary[k].default}
<1>1. Len(dictionary) \in Nat /\ Len(dictionary) > 0 /\ DOMAIN dictionary = 1..Len(dictionary)
  BY DEF IsList
<1>2. hits \subseteq Nat /\ defaults \subseteq Nat /\ \A k \in defaults : k <= Len(dictionary)
  BY <1>1
<1>3. hits # {} => Min(hits) \in hits
  <2> HIDE DEF hits
  <2> QED
    BY <1>2, Extremes
<1>4. defaults # {} => Max(defaults) \in defaults
  <2> HIDE DEF defaults
  <2> QED
    BY <1>1, <1>2, Extremes
<1>5. (IF hits # {} THEN Min(hits) ELSE IF defaults # {} THEN Max(defaults) ELSE 1)
        \in DOMAIN dictionary
  <2>1. hits \subseteq DOMAIN dictionary /\ defaults \subseteq DOMAIN dictionary
    OBVIOUS
  <2> HIDE DEF hits, defaults
  <2> QED
    BY <1>1, <1>3, <1>4, <2>1
<1> QED
  BY <1>5, Zenon DEF lookup_value

-----------------------------------------------------------------------------
(* What an item is parsed to *)

Outcomes == [state : State \cup {None}, raises : BOOLEAN, previous : Int \cup {None}]

\* The item's own rule allows value after the measure.
Jumps(item, value, measure) ==
  /\ item.validation.dev # 0 /\ value # 0 /\ measure # None
  /\ Abs(value - measure) > item.validation.dev
Allows(item, value, measure) ==
  in_range(value, item.validation) /\ ~Jumps(item, value, measure)

\* How a number that is delivered came about: there is no rule; or the rule allows it
\* and measures the next by it; or it is the default of a rule that may deliver it.
CameFrom(item, value, measure, next) ==
  \/ item.validation = None /\ next = measure
  \/ /\ item.validation # None /\ Allows(item, value, measure)
     /\ item.validation.dev # 0 => next = value
  \/ /\ item.validation # None /\ value = item.validation.default
     /\ next = measure /\ ~Essential(item)

\* A number came about in one of those ways; without one the measure stays.
Honest(item, q, measure) ==
  /\ q.state = None => q.previous = measure
  /\ q.state # None =>
       \E value \in Int : /\ q.state = Number(Rounded(item, value))
                          /\ CameFrom(item, value, measure, q.previous)

LEMMA DigitsType ==
  ASSUME IsProfile(profile), NEW item, IsItem(item)
  PROVE  DigitsOf(item) \in Nat \cup {-1}
BY DEF IsProfile, IsItem, Optional, DigitsOf

LEMMA RoundedType ==
  ASSUME IsProfile(profile), NEW item, IsItem(item), NEW v \in Int
  PROVE  Rounded(item, v) \in Int /\ Number(Rounded(item, v)) \in State
BY DigitsType, RoundingFacts, StateForms DEF Rounded

\* The words of a plain number are read as the number they stand for.
LEMMA Meant ==
  ASSUME IsProfile(profile), NEW item, IsItem(item), IsPlain(item),
         NEW words \in Seq(Word), words # <<>>
  PROVE  LET n == IF IsSigned(item) THEN SignedNumber(item, words) ELSE Unsigned(item, words)
         IN n \in Int /\ StandsFor(Rounded(item, Adjusted(item, n)), words, item)
<1> DEFINE n == IF IsSigned(item) THEN SignedNumber(item, words) ELSE Unsigned(item, words)
           width == 2^(Bits * Len(words))
           total == Joined(words)
           raw == Raw(total, width, item)
           scale == IF item.scale = None THEN Unit ELSE item.scale
           offset == IF item.offset = None THEN 0 ELSE item.offset
           exact == (raw * Unit - offset) * scale
           asked == IF IsSigned(item) THEN (IF item.inverted THEN -exact ELSE exact)
                    ELSE IF item.uint /\ exact < 0 THEN 0 ELSE exact
           step == Step(DigitsOf(item))
           a == Adjusted(item, n)
           v == Rounded(item, a)
<1>1. /\ total \in Nat /\ total < width
      /\ \A k \in DOMAIN words : (total \div 2^(Bits * (k - 1))) % 2^Bits = words[k]
  BY JoinedWords
<1>2. /\ IsDefinition(item) /\ item.divide = None /\ item.range = None /\ item.mask = None
      /\ item.bit = None /\ item.bitmask = None /\ (item.lookup = None \/ IsSigned(item))
  BY DEF IsItem, IsPlain, IsNumeric
<1>3. ~Missing(words)
  <2>1. \A k \in DOMAIN words : words[k] \in Word
    BY ElementOf
  <2>2. Word \subseteq Int
    BY WordType
  <2> QED
    BY <2>1, <2>2, NoneAssumption DEF Missing
<1>4. Unit \in Nat /\ Unit > 0
  BY UnitPositive
<1>5. raw \in Int /\ n = Scaled(raw * Unit, item)
  <2>1. CASE IsSigned(item)
    <3>1. Len(words) \in Nat \ {0}
      OBVIOUS
    <3>2. Signed(total, Len(words), item.magnitude) = raw
      <4> HIDE DEF total
      <4> QED
        BY <1>1, <2>1, <3>1, SignedMeaning DEF Raw
    <3>3. Signed(total, Len(words), item.magnitude) \in Int
      <4> HIDE DEF total
      <4> QED
        BY <1>1, <3>1, SignedType
    <3>4. SignedNumber(item, words) = Scaled(Signed(total, Len(words), item.magnitude) * Unit, item)
      BY <1>2, <1>3 DEF SignedNumber
    <3> QED
      BY <2>1, <3>2, <3>3, <3>4
  <2>2. CASE ~IsSigned(item)
    <3>1. raw = total
      BY <2>2 DEF Raw
    <3>2. Masked(total, item) = total
      BY <1>2 DEF Masked
    <3>3. Unsigned(item, words) = Scaled(total * Unit, item)
      BY <1>2, <1>3, <2>2, <3>2 DEF Unsigned
    <3> QED
      BY <1>1, <2>2, <3>1, <3>3
  <2> QED
    BY <2>1, <2>2
<1> HIDE DEF n, raw, total, width
<1>6. /\ n \in Int /\ exact \in Int
      /\ n * Unit <= exact /\ exact < n * Unit + Unit
  <2>1. raw * Unit \in Int
    BY <1>4, <1>5
  <2> QED
    BY <1>2, <1>5, <2>1, ScaledMeaning
<1> HIDE DEF exact
<1>7. a \in Int /\ asked \in Int /\ asked - a * Unit < Unit /\ a * Unit - asked < Unit
  <2> DEFINE u == Unit
             p == n * u
  <2>1. /\ u \in Nat /\ u > 0 /\ p \in Int /\ exact \in Int /\ p <= exact /\ exact < p + u
        /\ n \in Int /\ (-n) * u = -p /\ 0 * u = 0
    BY <1>4, <1>6
  <2>2. n < 0 <=> exact < 0
    <3>1. n < 0 => p <= -u
      <4> SUFFICES ASSUME n <= -1 PROVE p <= -u
        BY <2>1
      <4> QED
        BY <2>1
    <3>2. n >= 0 => p >= 0
      BY <2>1
    <3> HIDE DEF p, u
    <3> QED
      BY <2>1, <3>1, <3>2
  <2>3. n * u = p
    OBVIOUS
  <2> HIDE DEF p, u
  <2>4. CASE IsSigned(item) /\ item.inverted
    <3>1. a = -n /\ asked = -exact
      BY <2>4 DEF Adjusted
    <3> QED
      BY <2>1, <3>1 DEF u
  <2>5. CASE IsSigned(item) /\ ~item.inverted
    <3>1. a = n /\ asked = exact
      BY <2>5 DEF Adjusted
    <3> QED
      BY <2>1, <2>3, <3>1 DEF u
  <2>6. CASE ~IsSigned(item) /\ item.uint /\ exact < 0
    <3>1. a = 0 /\ asked = 0
      BY <2>2, <2>6 DEF Adjusted
    <3> QED
      BY <2>1, <3>1 DEF u
  <2>7. CASE ~IsSigned(item) /\ ~(item.uint /\ exact < 0)
    <3>1. a = n /\ asked = exact
      BY <2>2, <2>7 DEF Adjusted
    <3> QED
      BY <2>1, <2>3, <3>1 DEF u
  <2> QED
    BY <2>4, <2>5, <2>6, <2>7
<1> HIDE DEF a, asked
<1>8. DigitsOf(item) \in Nat \cup {-1}
  BY DigitsType
<1>9. step \in Nat
  BY <1>8, StepType
<1>10. /\ v \in Int /\ v % step = 0
       /\ 2 * v - 2 * a <= step /\ 2 * a - 2 * v <= step
  BY <1>7, <1>8, RoundingFacts, RoundingGrid DEF Rounded
<1> HIDE DEF v, step
<1>11. 2 * Abs(v * Unit - asked) < (step + 2) * Unit
  BY <1>4, <1>7, <1>9, <1>10, RoundedNear
<1> USE DEF step
<1>12. StandsFor(v, words, item) <=>
         /\ total < width
         /\ \A k \in DOMAIN words : (total \div 2^(Bits * (k - 1))) % 2^Bits = words[k]
         /\ v % step = 0 /\ 2 * Abs(v * Unit - asked) < (step + 2) * Unit
  BY DEF StandsFor, total, width, asked, exact, raw
<1> QED
  BY <1>1, <1>6, <1>10, <1>11, <1>12 DEF v, a, n

LEMMA ItemRule ==
  ASSUME NEW item, IsItem(item)
  PROVE  item.validation # None => /\ IsRule(item.validation)
                                   /\ item.validation.default \in Int \cup {None}
BY DEF IsItem, IsDefinition, IsRule, IsRange, Optional

LEMMA JudgedResult ==
  ASSUME IsProfile(profile), NEW item, IsItem(item), NEW value \in Int,
         NEW measure \in Int \cup {None}
  PROVE  LET q == Judged(item, Validated(value, item.validation, measure))
         IN /\ q \in Outcomes
            /\ Honest(item, q, measure)
            /\ (item.validation = None \/ Essential(item)) /\ ~q.raises => q.state # None
<1> DEFINE v == Validated(value, item.validation, measure)
           q == Judged(item, v)
<1>1. v \in [value : Int \cup {None}, raises : BOOLEAN, previous : Int \cup {None}]
  BY ItemRule, ValidatedType
<1>2. /\ q.raises = v.raises /\ q.previous = v.previous
      /\ q.state = IF v.raises \/ v.value = None THEN None ELSE Number(Rounded(item, v.value))
      /\ q = [state |-> q.state, raises |-> q.raises, previous |-> q.previous]
  BY DEF Judged, Parsed
<1>3. v.value # None => v.value \in Int /\ Number(Rounded(item, v.value)) \in State
  BY <1>1, RoundedType
<1>4. item.validation = None => v.value = value /\ ~v.raises /\ v.previous = measure
  BY DEF Validated
<1>5. ASSUME item.validation # None
      PROVE  /\ Allows(item, value, measure) =>
                  /\ v.value = value /\ ~v.raises
                  /\ item.validation.dev # 0 => v.previous = value
             /\ ~Allows(item, value, measure) =>
                  /\ v.value = item.validation.default /\ v.previous = measure
                  /\ ~v.raises => ~Essential(item)
  <2>1. IsRule(item.validation)
    BY <1>5, ItemRule
  <2> QED
    BY <1>5, <2>1, ValidatedResult DEF Allows, Jumps, Essential, DropsSet
<1> HIDE DEF v, q
<1>6. q \in Outcomes
  BY <1>1, <1>2, <1>3 DEF Outcomes
<1>7. value # None /\ \A s \in State : s # None
  BY NoneAssumption
<1>8. q.state = None => q.previous = measure
  BY <1>2, <1>3, <1>4, <1>5, <1>7
<1>9. ASSUME q.state # None
      PROVE  /\ q.state = Number(Rounded(item, v.value)) /\ v.value \in Int /\ ~v.raises
             /\ CameFrom(item, v.value, measure, q.previous)
  <2>1. ~v.raises /\ v.value # None /\ q.state = Number(Rounded(item, v.value)) /\ v.value \in Int
    BY <1>2, <1>3, <1>9
  <2>2. CameFrom(item, v.value, measure, q.previous)
    BY <1>2, <1>4, <1>5, <2>1 DEF CameFrom
  <2> QED
    BY <2>1, <2>2
<1>10. ASSUME item.validation = None \/ Essential(item), ~q.raises PROVE q.state # None
  <2>1. v.value = value /\ ~v.raises
    BY <1>2, <1>4, <1>5, <1>10
  <2> QED
    BY <1>2, <1>3, <1>7, <2>1
<1> QED
  BY <1>6, <1>8, <1>9, <1>10 DEF Honest, v, q

LEMMA RawType ==
  ASSUME NEW item, IsItem(item), item.registers # None, NEW data \in Answers
  PROVE  LET raw == RawNumber(item, data)
         IN /\ raw.absent \in BOOLEAN /\ raw.raises \in BOOLEAN
            /\ ~raw.absent => raw.value \in Int
            /\ /\ item.sensors = <<>> /\ item.range = None /\ item.registers # <<>>
               /\ ~Missing(Values(data, item.code, item.registers))
               => ~raw.absent /\ ~raw.raises
<1> DEFINE raw == RawNumber(item, data)
<1>1. CASE item.sensors # <<>>
  <2>1. raw = read_registers_custom(data, item.code, item.sensors)
    BY <1>1 DEF RawNumber
  <2>2. raw \in Acc
    BY <2>1, CustomType DEF IsItem
  <2> QED
    BY <1>1, <2>2 DEF Acc
<1>2. CASE item.sensors = <<>>
  <2> DEFINE n == IF IsSigned(item) THEN read_registers_signed(data, item.code, item)
                  ELSE read_registers(data, item.code, item)
             Good(r) == /\ r \in Int \cup {None}
                        /\ /\ item.registers # <<>> /\ item.range = None
                           /\ ~Missing(Values(data, item.code, item.registers))
                           => r \in Int
  <2>1. IsDefinition(item)
    BY DEF IsItem
  <2>2. Good(read_registers_signed(data, item.code, item)) /\ Good(read_registers(data, item.code, item))
    BY <2>1, NumberType
  <2>3. raw = Plain(n) /\ Good(n)
    BY <1>2, <2>2 DEF RawNumber
  <2> HIDE DEF n, raw
  <2>4. raw.value = n /\ raw.absent = (n = None) /\ raw.raises = FALSE
    BY <2>3 DEF Plain
  <2>5. n # None => n \in Int
    BY <2>3
  <2>6. n \in Int => n # None
    BY NoneAssumption
  <2> QED
    BY <2>3, <2>4, <2>5, <2>6 DEF raw
<1> QED
  BY <1>1, <1>2

\* Parsing a number delivers it honestly, and always when nothing is missing.
LEMMA NumberHonest ==
  ASSUME IsProfile(profile), NEW item, IsItem(item), item.registers # None,
         NEW data \in Answers, NEW measure \in Int \cup {None}, item.rule \in 1..4
  PROVE  LET q == try_parse(item, data, measure)
         IN /\ q \in Outcomes
            /\ IsNumeric(item) =>
                 /\ Honest(item, q, measure)
                 /\ /\ item.sensors = <<>> /\ item.range = None /\ item.registers # <<>>
                    /\ ~Missing(Values(data, item.code, item.registers))
                    /\ item.validation = None \/ Essential(item)
                    /\ ~q.raises
                    => q.state # None
<1> DEFINE raw == RawNumber(item, data)
           n == Adjusted(item, raw.value)
           q == NumberParsed(item, raw, measure)
           Complete == /\ item.sensors = <<>> /\ item.range = None /\ item.registers # <<>>
                       /\ ~Missing(Values(data, item.code, item.registers))
<1>7. item.rule \notin 5..10
  OBVIOUS
<1>1. try_parse(item, data, measure) = q
  BY <1>7, Zenon DEF try_parse, try_parse_number
<1>2. /\ raw.absent \in BOOLEAN /\ raw.raises \in BOOLEAN
      /\ ~raw.absent => raw.value \in Int
      /\ Complete => ~raw.absent /\ ~raw.raises
  BY RawType
<1> HIDE DEF raw, Complete
<1>3. ~raw.absent => n \in Int
  BY <1>2 DEF Adjusted
<1> HIDE DEF n
<1>4. CASE raw.raises \/ raw.absent
  <2>1. q = Parsed(None, raw.raises, measure)
    BY <1>4 DEF NumberParsed
  <2>2. q.state = None /\ q.previous = measure /\ q \in Outcomes
    BY <1>2, <2>1 DEF Parsed, Outcomes
  <2> HIDE DEF q
  <2> QED
    BY <1>1, <1>2, <1>4, <2>2 DEF Honest, Complete
<1>5. CASE ~(raw.raises \/ raw.absent) /\ item.lookup # None /\ ~IsSigned(item)
  <2> DEFINE text == lookup_value(n \div Unit, item.lookup)
  <2>1. q = Parsed(Text(text), FALSE, measure)
    BY <1>5 DEF NumberParsed, n
  <2>2. text \in Seq(Int)
    BY <1>5, LookupType DEF IsItem
  <2> HIDE DEF text
  <2>3. q \in Outcomes
    BY <2>1, <2>2, StateForms DEF Parsed, Outcomes
  <2> HIDE DEF q
  <2> QED
    BY <1>1, <1>5, <2>3 DEF IsNumeric
<1>6. CASE ~(raw.raises \/ raw.absent) /\ ~(item.lookup # None /\ ~IsSigned(item))
  <2>1. q = Judged(item, Validated(n, item.validation, measure))
    BY <1>6 DEF NumberParsed, n
  <2>2. n \in Int
    BY <1>3, <1>6
  <2> HIDE DEF q
  <2>3. /\ q \in Outcomes
        /\ Honest(item, q, measure)
        /\ (item.validation = None \/ Essential(item)) /\ ~q.raises => q.state # None
    BY <2>1, <2>2, JudgedResult
  <2> QED
    BY <1>1, <2>3
<1> QED
  BY <1>4, <1>5, <1>6

LEMMA ParsedType ==
  ASSUME IsProfile(profile), NEW item, IsItem(item), item.registers # None,
         NEW data \in Answers, NEW measure \in Int \cup {None}
  PROVE  try_parse(item, data, measure) \in Outcomes
<1> DEFINE words == Values(data, item.code, item.registers)
<1>1. item.registers \in Seq(Nat)
  BY DEF IsItem, IsDefinition, Optional
<1>6. ~Missing(words) => words \in Seq(Word)
  BY <1>1, ValuesType
<1> HIDE DEF words
<1>2. ~Missing(words) => words \in Seq(Nat)
  BY <1>6, WordType, WiderSeq
<1>3. CASE item.rule \in 1..4
  BY <1>3, NumberHonest
<1>4. CASE item.rule \in 5..10
  <2>1. item.rule \notin 1..4
    BY <1>4
  <2>2. try_parse(item, data, measure) =
          Parsed(IF Missing(words) THEN None ELSE TextOf(item, words), FALSE, measure)
    BY <1>4, <2>1 DEF try_parse, words
  <2>3. ~Missing(words) => TextOf(item, words) \in State
    BY <1>2, <1>4, TextType
  <2> QED
    BY <2>2, <2>3 DEF Parsed, Outcomes
<1>5. CASE item.rule \notin 1..4 /\ item.rule \notin 5..10
  <2>1. try_parse(item, data, measure) = Parsed(None, FALSE, measure)
    BY <1>5 DEF try_parse
  <2> QED
    BY <2>1 DEF Parsed, Outcomes
<1> QED
  BY <1>3, <1>4, <1>5

-----------------------------------------------------------------------------
(* process() *)

Readings(states) == \A key \in DOMAIN states : key \in Keys /\ states[key] \in State
Measures == [Keys -> Int \cup {None}]

Active(item, data) ==
  /\ ~item.disabled /\ item.registers \notin {None, <<>>}
  /\ get_start_addr(data, item.code, item.registers[1]) # None

\* What an outcome of process() holds for a key is what the worker held.
Same(p, key) ==
  /\ key \in DOMAIN p.result <=> key \in DOMAIN result
  /\ key \in DOMAIN result => p.result[key] = result[key]

\* The outcome of process() for one item.
Handled(p, item, data) ==
  LET q == try_parse(item, data, previous[item.key]) IN
  /\ ~item.disabled => item.registers # <<>>
  /\ Active(item, data) =>
       /\ ~q.raises /\ p.previous[item.key] = q.previous
       /\ q.state = None => Same(p, item.key)
       /\ q.state # None => item.key \in DOMAIN p.result /\ p.result[item.key] = q.state
  /\ ~Active(item, data) => Same(p, item.key) /\ p.previous[item.key] = previous[item.key]

LEMMA KeptFacts ==
  ASSUME NEW acc, NEW key \in Keys, NEW p \in Outcomes,
         Readings(acc.result), acc.previous \in Measures
  PROVE  LET after == Kept(acc, key, p)
         IN /\ Readings(after.result) /\ after.previous \in Measures
            /\ after.raises = p.raises
            /\ after.previous[key] = p.previous
            /\ p.state = None => after.result = acc.result
            /\ p.state # None => key \in DOMAIN after.result /\ after.result[key] = p.state
            /\ \A other \in Keys : other # key =>
                 /\ after.previous[other] = acc.previous[other]
                 /\ other \in DOMAIN after.result <=> other \in DOMAIN acc.result
                 /\ other \in DOMAIN acc.result => after.result[other] = acc.result[other]
<1> DEFINE after == Kept(acc, key, p)
<1>1. /\ after.result = IF p.state = None THEN acc.result ELSE [k \in DOMAIN acc.result \cup {key} |-> IF k = key THEN p.state ELSE acc.result[k]]
      /\ after.previous = [acc.previous EXCEPT ![key] = p.previous]
      /\ after.raises = p.raises
  BY DEF Kept
<1>2. p.state \in State \cup {None} /\ p.previous \in Int \cup {None}
  BY DEF Outcomes
<1> HIDE DEF after
<1>3. /\ after.previous \in Measures /\ after.previous[key] = p.previous
      /\ \A other \in Keys : other # key => after.previous[other] = acc.previous[other]
  BY <1>1, <1>2 DEF Measures
<1>4. CASE p.state = None
  BY <1>1, <1>3, <1>4 DEF after
<1>5. CASE p.state # None
  <2>1. /\ DOMAIN after.result = {key} \cup DOMAIN acc.result
        /\ \A k \in DOMAIN after.result :
             after.result[k] = IF k = key THEN p.state ELSE acc.result[k]
    BY <1>1, <1>5
  <2>2. Readings(after.result)
    BY <1>2, <1>5, <2>1 DEF Readings
  <2> QED
    BY <1>1, <1>3, <1>5, <2>1, <2>2 DEF after
<1> QED
  BY <1>4, <1>5

\* process() handles every item, in spite of the others, or raises.
LEMMA ProcessResult ==
  ASSUME IsProfile(profile), NEW data \in Answers, Readings(result), previous \in Measures
  PROVE  LET p == process(data)
         IN /\ p.raises \in BOOLEAN /\ Readings(p.result) /\ p.previous \in Measures
            /\ ~p.raises => \A k \in DOMAIN Items : Handled(p, Items[k], data)
<1> DEFINE N == Len(Items)
           zero == [result |-> result, previous |-> previous, raises |-> FALSE]
           After(acc, k) == ProcessItem(acc, Items[k], data)
           Upto(f, m) == f = [k \in 0..m |-> IF k = 0 THEN zero ELSE After(f[k - 1], k)]
           S == {m \in Nat : \E f : Upto(f, m)}
           F == CHOOSE f : Upto(f, N)
<1>0. /\ N \in Nat /\ DOMAIN Items = 1..N
      /\ \A k \in 1..N : IsItem(Items[k]) /\ Items[k].key \in Keys
      /\ \A k, l \in 1..N : Items[k].key = Items[l].key => k = l
  BY DEF IsProfile, IsList, Items, Keys
<1>1. 0 \in S
  <2> DEFINE f == [k \in 0..0 |-> zero]
  <2>1. Upto(f, 0)
    OBVIOUS
  <2> HIDE DEF f, Upto
  <2> QED
    BY <2>1
<1>2. \A m \in Nat : m \in S => m + 1 \in S
  <2> TAKE m \in Nat
  <2> HAVE m \in S
  <2> PICK f : Upto(f, m)
    OBVIOUS
  <2> DEFINE g == [k \in 0..(m + 1) |-> IF k = m + 1 THEN After(f[m], m + 1) ELSE f[k]]
  <2>1. Upto(g, m + 1)
    <3> HIDE DEF After, zero
    <3> QED
      OBVIOUS
  <2> HIDE DEF g, Upto
  <2> QED
    BY <2>1
<1>3. N \in S
  BY <1>0, <1>1, <1>2, Upwards
<1>4. Upto(F, N)
  BY <1>3
<1>5. process(data) = F[N]
  BY DEF process
<1>6. \A m \in 0..N : F[m] = IF m = 0 THEN zero ELSE After(F[m - 1], m)
  <2> HIDE DEF N, F, After, zero
  <2> QED
    BY <1>4
<1> DEFINE Good(acc, m) ==
             /\ acc.raises \in BOOLEAN /\ Readings(acc.result) /\ acc.previous \in Measures
             /\ ~acc.raises =>
                  /\ \A k \in 1..m : Handled(acc, Items[k], data)
                  /\ \A k \in (m + 1)..N : /\ Same(acc, Items[k].key)
                                           /\ acc.previous[Items[k].key] = previous[Items[k].key]
           P == {m \in Nat : m <= N => Good(F[m], m)}
<1>7. Good(zero, 0)
  BY DEF Same
<1>8. ASSUME NEW m \in Nat, m + 1 <= N, NEW acc, Good(acc, m)
      PROVE  Good(After(acc, m + 1), m + 1)
  <2> DEFINE item == Items[m + 1]
             q == try_parse(item, data, acc.previous[item.key])
             next == After(acc, m + 1)
  <2>0. /\ IsItem(item) /\ item.key \in Keys /\ m + 1 \in 1..N
        /\ \A k \in 1..N : k # m + 1 => Items[k].key # item.key
        /\ \A k \in (m + 2)..N : k \in 1..N /\ k \in (m + 1)..N
        /\ \A k \in 1..m : k \in 1..N
        /\ \A k \in 1..(m + 1) : k \in 1..m \/ k = m + 1
    BY <1>0, <1>8
  <2> HIDE DEF N
  <2>1. CASE acc.raises
    <3>1. next = acc
      BY <2>1 DEF ProcessItem
    <3> QED
      BY <1>8, <2>1, <3>1
  <2>2. CASE ~acc.raises /\ ~item.disabled /\ item.registers = <<>>
    <3>1. item.registers # None
      BY <2>2, NoneAssumption
    <3>2. next = [acc EXCEPT !.raises = TRUE]
      BY <2>2, <3>1 DEF ProcessItem
    <3> QED
      BY <1>8, <3>2
  <2>3. CASE ~acc.raises /\ ~Active(item, data) /\ ~(~item.disabled /\ item.registers = <<>>)
    <3>1. next = acc
      BY <2>3 DEF ProcessItem, Active
    <3>2. Handled(acc, item, data)
      BY <1>8, <2>0, <2>3 DEF Handled
    <3> QED
      BY <1>8, <2>0, <3>1, <3>2
  <2>4. CASE ~acc.raises /\ Active(item, data)
    <3>1. next = Kept(acc, item.key, q)
      BY <2>4 DEF ProcessItem, Active
    <3>2. acc.previous[item.key] = previous[item.key] /\ Same(acc, item.key)
      BY <1>8, <2>0, <2>4
    <3>3. q \in Outcomes
      <4>1. acc.previous[item.key] \in Int \cup {None}
        BY <1>8, <2>0 DEF Measures
      <4> QED
        BY <2>0, <2>4, <4>1, ParsedType DEF Active
    <3>4. Readings(acc.result) /\ acc.previous \in Measures
      BY <1>8
    <3>10. item.key \in Keys
      BY <2>0
    <3> HIDE DEF q, next, item
    <3>5. /\ Readings(next.result) /\ next.previous \in Measures
          /\ next.raises = q.raises
          /\ next.previous[item.key] = q.previous
          /\ q.state = None => next.result = acc.result
          /\ q.state # None => item.key \in DOMAIN next.result /\ next.result[item.key] = q.state
          /\ \A other \in Keys : other # item.key =>
               /\ next.previous[other] = acc.previous[other]
               /\ other \in DOMAIN next.result <=> other \in DOMAIN acc.result
               /\ other \in DOMAIN acc.result => next.result[other] = acc.result[other]
      BY <3>1, <3>3, <3>4, <3>10, KeptFacts
    <3>6. q.raises \in BOOLEAN /\ q = try_parse(item, data, previous[item.key])
      BY <3>2, <3>3 DEF Outcomes, q
    <3>7. ASSUME ~next.raises PROVE Handled(next, item, data)
      BY <2>4, <3>2, <3>5, <3>6, <3>7 DEF Handled, Same, Active
    <3>8. ASSUME NEW k \in 1..N, k # m + 1
          PROVE  /\ Same(acc, Items[k].key) => Same(next, Items[k].key)
                 /\ next.previous[Items[k].key] = acc.previous[Items[k].key]
                 /\ Handled(acc, Items[k], data) => Handled(next, Items[k], data)
      <4> DEFINE other == Items[k].key
      <4>1. other \in Keys /\ other # item.key
        BY <1>0, <2>0, <3>8 DEF N
      <4>2. /\ next.previous[other] = acc.previous[other]
            /\ other \in DOMAIN next.result <=> other \in DOMAIN acc.result
            /\ other \in DOMAIN acc.result => next.result[other] = acc.result[other]
        BY <3>5, <4>1
      <4> QED
        BY <4>2 DEF Same, Handled
    <3>9. ASSUME ~next.raises
          PROVE  /\ \A k \in 1..(m + 1) : Handled(next, Items[k], data)
                 /\ \A k \in (m + 2)..N : /\ Same(next, Items[k].key)
                                          /\ next.previous[Items[k].key] = previous[Items[k].key]
      <4>1. /\ \A k \in 1..m : Handled(acc, Items[k], data)
            /\ \A k \in (m + 1)..N : /\ Same(acc, Items[k].key)
                                     /\ acc.previous[Items[k].key] = previous[Items[k].key]
        BY <1>8, <2>4
      <4>2. \A k \in 1..(m + 1) : Handled(next, Items[k], data)
        <5> TAKE k \in 1..(m + 1)
        <5>1. CASE k = m + 1
          BY <3>7, <3>9, <5>1 DEF item
        <5>2. CASE k # m + 1
          <6>1. k \in 1..m /\ k \in 1..N
            BY <1>0, <1>8, <5>2
          <6>2. Handled(acc, Items[k], data) => Handled(next, Items[k], data)
            BY <3>8, <5>2, <6>1
          <6> QED
            BY <4>1, <6>1, <6>2
        <5> QED
          BY <5>1, <5>2
      <4>3. ASSUME NEW k \in (m + 2)..N
            PROVE  Same(next, Items[k].key) /\ next.previous[Items[k].key] = previous[Items[k].key]
        <5>1. k \in 1..N /\ k \in (m + 1)..N /\ k # m + 1
          BY <1>0, <2>0, <4>3
        <5> QED
          BY <3>8, <4>1, <5>1
      <4> QED
        BY <4>2, <4>3
    <3> QED
      BY <3>5, <3>6, <3>9 DEF next, item
  <2> QED
    BY <2>1, <2>2, <2>3, <2>4
<1> HIDE DEF N, F, zero, After, Good
<1>9. 0 \in P
  BY <1>0, <1>6, <1>7
<1>10. \A m \in Nat : m \in P => m + 1 \in P
  <2> SUFFICES ASSUME NEW m \in Nat, m \in P, m + 1 <= N PROVE Good(F[m + 1], m + 1)
    OBVIOUS
  <2>1. Good(F[m], m)
    BY <1>0
  <2>2. F[m + 1] = After(F[m], m + 1)
    BY <1>0, <1>6
  <2> QED
    BY <1>8, <2>1, <2>2
<1>11. \A m \in Nat : m \in P
  BY <1>9, <1>10, Upwards
<1>12. Good(process(data), N)
  BY <1>0, <1>5, <1>11
<1> QED
  BY <1>0, <1>12 DEF Good, N

-----------------------------------------------------------------------------
(* Schedules *)

\* What is due comes in ascending order, all of it.
LEMMA SortedFacts ==
  ASSUME NEW S, S \subseteq Register, IsFiniteSet(S)
  PROVE  LET s == Sorted(S, Precedes)
         IN /\ s \in Seq(Register) /\ Len(s) = Cardinality(S) /\ Ascending(s)
            /\ \A n \in DOMAIN s : s[n] \in S
            /\ \A e \in S : \E n \in DOMAIN s : s[n] = e
<1> DEFINE below(e) == {f \in S : Precedes(f, e)}
           c == Cardinality(S)
           rank == [e \in S |-> Cardinality(below(e))]
           s == Sorted(S, Precedes)
<1>0. c \in Nat
  BY FS_CardinalityType
<1>1. \A e \in S : IsFiniteSet(below(e)) /\ Cardinality(below(e)) \in Nat
  BY FS_Subset, FS_CardinalityType
<1>2. \A e, f, g \in S : /\ ~Precedes(e, e)
                         /\ Precedes(e, f) /\ Precedes(f, g) => Precedes(e, g)
                         /\ e = f \/ Precedes(e, f) \/ Precedes(f, e)
  BY DEF Precedes, Register, Code, Address
<1>3. \A e, f \in S : Precedes(e, f) => rank[e] < rank[f]
  <2> SUFFICES ASSUME NEW e \in S, NEW f \in S, Precedes(e, f)
               PROVE  Cardinality(below(e)) < Cardinality(below(f))
    OBVIOUS
  <2>1. below(e) \in SUBSET below(f) /\ e \in below(f) /\ e \notin below(e)
    BY <1>2
  <2>2. /\ Cardinality(below(e)) <= Cardinality(below(f))
        /\ Cardinality(below(f)) = Cardinality(below(e)) => below(f) = below(e)
    <3> HIDE DEF below
    <3> QED
      BY <1>1, <2>1, FS_Subset
  <2> HIDE DEF below
  <2> QED
    BY <1>1, <2>1, <2>2
<1>4. \A e, f \in S : rank[e] = rank[f] => e = f
  <2>1. \A e \in S : rank[e] \in Nat
    BY <1>1
  <2> HIDE DEF rank
  <2> QED
    BY <1>2, <1>3, <2>1
<1>5. \A e \in S : rank[e] \in 0..(c - 1)
  <2> TAKE e \in S
  <2>1. below(e) \in SUBSET S /\ e \notin below(e)
    BY <1>2
  <2>2. Cardinality(below(e)) <= c /\ (c = Cardinality(below(e)) => S = below(e))
    <3> HIDE DEF below
    <3> QED
      BY <2>1, FS_Subset
  <2> HIDE DEF below
  <2> QED
    BY <1>0, <1>1, <2>1, <2>2
<1>15. \A e \in S : rank[e] = Cardinality(below(e))
  OBVIOUS
<1>10. s = [n \in 1..c |-> CHOOSE e \in S : Cardinality(below(e)) = n - 1]
  BY DEF Sorted
<1> HIDE DEF rank, below
<1>6. rank \in Injection(S, 0..(c - 1))
  <2>1. rank \in [S -> 0..(c - 1)]
    BY <1>5 DEF rank
  <2> QED
    BY <1>4, <2>1, SMTT(30) DEF Injection, IsInjective
<1>7. IsFiniteSet(0..(c - 1)) /\ Cardinality(0..(c - 1)) = c
  BY <1>0, FS_Interval
<1>8. rank \in Surjection(S, 0..(c - 1))
  BY <1>6, <1>7, FS_Injection
<1>9. \A n \in 0..(c - 1) : \E e \in S : rank[e] = n
  BY <1>8 DEF Surjection
<1>11. \A n \in 1..c : s[n] \in S /\ rank[s[n]] = n - 1
  <2> TAKE n \in 1..c
  <2>1. n - 1 \in 0..(c - 1)
    BY <1>0
  <2> QED
    BY <1>9, <1>10, <1>15, <2>1
<1> HIDE DEF s
<1>12. s \in Seq(Register) /\ Len(s) = c /\ DOMAIN s = 1..c
  <2>1. \A n \in 1..c : s[n] \in Register
    BY <1>11
  <2>2. s = [n \in 1..c |-> s[n]]
    BY <1>10
  <2> HIDE DEF c
  <2> QED
    BY <1>0, <2>1, <2>2
<1>13. Ascending(s)
  <2> SUFFICES ASSUME NEW a \in 1..c, NEW b \in 1..c, a < b PROVE Precedes(s[a], s[b])
    BY <1>12 DEF Ascending
  <2>1. rank[s[a]] < rank[s[b]] /\ s[a] \in S /\ s[b] \in S
    BY <1>11
  <2>2. s[a] # s[b] /\ ~(rank[s[b]] < rank[s[a]])
    BY <1>5, <2>1
  <2> QED
    BY <1>2, <1>3, <2>1, <2>2
<1>14. \A e \in S : \E n \in 1..c : s[n] = e
  <2> TAKE e \in S
  <2>1. rank[e] + 1 \in 1..c /\ (rank[e] + 1) - 1 = rank[e]
    BY <1>0, <1>5
  <2>2. s[rank[e] + 1] = e
    BY <1>4, <1>11, <2>1
  <2> QED
    BY <2>1, <2>2
<1> QED
  BY <1>11, <1>12, <1>13, <1>14 DEF s

\* Whether a profile reads with one code is settled when it is loaded.
OneCode(p) ==
  p.single => \A k, l \in DOMAIN p.items :
                /\ p.items[k].registers \notin {None, <<>>}
                /\ p.items[l].registers \notin {None, <<>>}
                => p.items[k].code = p.items[l].code

LEMMA LoadedOneCode ==
  ASSUME NEW file \in Profiles
  PROVE  OneCode(Loaded(file))
<1> DEFINE p == Loaded(file)
           items == p.items
           bearing == {j \in DOMAIN items : items[j].registers # None}
           codes == {get_code(items[k], file.code) : k \in bearing}
<1>1. p.single = (Cardinality(codes) = 1)
  BY DEF Loaded
<1>2. IsProfile(p)
  BY ProfilesAssumption
<1> HIDE DEF p
<1>3. DOMAIN items = 1..Len(items) /\ Len(items) \in Nat
      /\ \A k \in DOMAIN items : IsItem(items[k])
  BY <1>2 DEF IsProfile, IsList
<1> HIDE DEF items
<1>4. IsFiniteSet(bearing)
  <2>1. IsFiniteSet(1..Len(items)) /\ bearing \in SUBSET (1..Len(items))
    BY <1>3, FS_Interval
  <2> HIDE DEF bearing
  <2> QED
    BY <2>1, FS_Subset
<1>5. IsFiniteSet(codes)
  <2> DEFINE f == [k \in bearing |-> get_code(items[k], file.code)]
  <2>1. f \in Surjection(bearing, codes)
    BY DEF Surjection
  <2> QED
    BY <1>4, <2>1, FS_Surjection
<1>6. SUFFICES ASSUME p.single, NEW k \in DOMAIN items, NEW l \in DOMAIN items,
                      items[k].registers \notin {None, <<>>},
                      items[l].registers \notin {None, <<>>}
               PROVE  items[k].code = items[l].code
  BY DEF OneCode, items, p
<1>7. \A j \in {k, l} : get_code(items[j], file.code) = items[j].code
  BY <1>3, <1>6, NoneAssumption DEF get_code, IsItem
<1>8. items[k].code \in codes /\ items[l].code \in codes
  BY <1>6, <1>7
<1> HIDE DEF codes
<1>9. \E c : codes = {c}
  BY <1>1, <1>5, <1>6, FS_Singleton
<1> QED
  BY <1>8, <1>9

-----------------------------------------------------------------------------
(* The invariant of a cycle *)

Spans == [code : Nat, start : Nat, end : Nat]

CycleTyped ==
  /\ IsProfile(profile) /\ OneCode(profile)
  /\ DOMAIN device = DOMAIN Memory
  /\ \A code \in DOMAIN Memory : device[code] \in [DOMAIN Memory[code] -> Word]
  /\ stage \in {"asleep", "grouping", "fetching", "delivered"}
  /\ Readings(result) /\ previous \in Measures
  /\ stored \in [Keys -> State] /\ lost \subseteq Keys
  /\ requests \in Seq(Spans) /\ \A k \in DOMAIN requests : requests[k].start <= requests[k].end
  /\ limits \in Limits

\* The answers are those of the first requests.
Answering ==
  /\ answers \in Answers /\ Len(answers) <= Len(requests)
  /\ stage # "fetching" => answers = <<>>
  /\ \A k \in DOMAIN answers :
       /\ answers[k].code = requests[k].code /\ answers[k].start = requests[k].start
       /\ Len(answers[k].values) = Count(requests[k])

\* Every answer is what the device held at one moment of the cycle.
Observed ==
  /\ stage \in {"grouping", "fetching"} => device \in seen
  /\ \A k \in DOMAIN answers : \E memory \in seen :
       \A n \in DOMAIN answers[k].values :
         answers[k].values[n] = Held(memory, answers[k].code, answers[k].start + n - 1)

\* The loop of group_when is where its own invariant says, or has not been entered.
Grouped ==
  /\ GInv \/ (registers = <<>> /\ groups = <<>> /\ stage # "grouping")
  /\ stage = "grouping" => profile.requests = <<>>

\* The requests are the profile's own, for which no item is due, or those of the groups.
Asked ==
  stage = "fetching" =>
    \/ profile.requests # <<>> /\ DOMAIN result = {}
    \/ /\ profile.requests = <<>> /\ GInv /\ GroupingDone
       /\ requests = [k \in DOMAIN groups |-> RequestOf(groups[k])]

\* The registers of the items that are due are those that are grouped; until the
\* answers are there an item has the default of its unit.
Due ==
  stage \in {"grouping", "fetching"} =>
    \A k \in DOMAIN Items : LET item == Items[k] IN
      item.key \in DOMAIN result =>
        /\ result[item.key] = default_from_unit_of_measurement(item)
        /\ item.registers # None =>
             \A n \in DOMAIN item.registers :
               \E r \in DOMAIN registers : registers[r] = <<item.code, item.registers[n]>>

\* The rule of a number that no default replaces, and that measures jumps.
Gauged(item) ==
  IsNumeric(item) /\ item.validation # None /\ Default(item) = None /\ item.validation.dev # 0

\* What InfluxDB holds of such a number is what the next value is measured by.
Measured ==
  \A k \in DOMAIN Items : LET item == Items[k] IN
    Gauged(item) /\ stored[item.key].kind = "number" /\ item.key \notin lost =>
      /\ previous[item.key] \in Int
      /\ stored[item.key].val[1] = Rounded(item, previous[item.key])

CInv ==
  /\ CycleTyped /\ Answering /\ Observed /\ Grouped /\ Asked /\ Due /\ Measured
  /\ UnitsAreNumbers /\ DeliveredValid /\ DueDelivered /\ ReadingsTrue

LEMMA ProfileShape ==
  ASSUME CycleTyped
  PROVE  /\ DOMAIN Items = 1..Len(Items) /\ Len(Items) \in Nat
         /\ \A k \in DOMAIN Items : IsItem(Items[k]) /\ Items[k].key \in Keys
         /\ \A k, l \in DOMAIN Items : Items[k].key = Items[l].key => k = l
BY DEF CycleTyped, IsProfile, IsList, Items, Keys

\* What depends on nothing that a step changes.
LEMMA MeasuredFrame ==
  ASSUME Measured, UNCHANGED <<profile, previous, stored, lost>>
  PROVE  Measured'
BY DEF Measured, Items, Gauged, Default, IsNumeric, IsSigned, Rounded, DigitsOf

LEMMA UnitsFrame ==
  ASSUME UnitsAreNumbers, UNCHANGED <<profile, stored>>
  PROVE  UnitsAreNumbers'
BY DEF UnitsAreNumbers, Items, IsNumeric, IsSigned

\* What an item's words mean depends on the profile, the requests and the moments seen.
LEMMA MeaningFrame ==
  ASSUME UNCHANGED <<profile, requests, seen>>, NEW item
  PROVE  /\ IsPlain(item)' <=> IsPlain(item)
         /\ Sources(item)' = Sources(item)
         /\ \A v, words : StandsFor(v, words, item)' <=> StandsFor(v, words, item)
         /\ Default(item)' = Default(item)
         /\ \A v : Rounded(item, v)' = Rounded(item, v)
BY DEF IsPlain, IsNumeric, IsSigned, Sources, InOneRequest, Latest, Covers, Code, Address,
       StandsFor, Raw, Default, Rounded, DigitsOf, Held

LEMMA DeliveredFrame ==
  ASSUME DeliveredValid, DueDelivered, ReadingsTrue,
         stage' # "delivered" \/ UNCHANGED <<profile, stage, result, requests, seen>>
  PROVE  DeliveredValid' /\ DueDelivered' /\ ReadingsTrue'
<1>1. CASE stage' # "delivered"
  BY <1>1 DEF DeliveredValid, DueDelivered, ReadingsTrue
<1>2. CASE UNCHANGED <<profile, stage, result, requests, seen>>
  <2>1. DeliveredValid' /\ DueDelivered'
    BY <1>2 DEF DeliveredValid, DueDelivered, Items, IsNumeric, IsSigned, Delivered, Reading,
                Within, Rounded, DigitsOf, Default, Essential, DropsSet
  <2>2. ReadingsTrue'
    BY <1>2, MeaningFrame DEF ReadingsTrue, Items, Delivered, Reading
  <2> QED
    BY <2>1, <2>2
<1> QED
  BY <1>1, <1>2

LEMMA DueFrame ==
  ASSUME Due, UNCHANGED <<profile, result, registers>>,
         stage' \in {"grouping", "fetching"} => stage \in {"grouping", "fetching"}
  PROVE  Due'
BY DEF Due, Items, default_from_unit_of_measurement, Blank, Nothing

LEMMA GInvFrame ==
  ASSUME GInv, UNCHANGED grouping
  PROVE  GInv'
BY NextGInv

LEMMA CycleInit == Init => CInv
<1> SUFFICES ASSUME Init PROVE CInv
  OBVIOUS
<1>1. PICK file \in Profiles : profile = Loaded(file)
  BY DEF Init
<1>2. IsProfile(profile) /\ OneCode(profile)
  BY <1>1, ProfilesAssumption, LoadedOneCode
<1>3. /\ DOMAIN device = DOMAIN Memory
      /\ \A code \in DOMAIN Memory : device[code] \in [DOMAIN Memory[code] -> Word]
  BY DeviceAssumption DEF Init
<1>4. Readings(result) /\ previous \in Measures /\ stored \in [Keys -> State] /\ lost \subseteq Keys
  BY StateForms DEF Init, Readings, NoStates, Measures
<1>5. limits \in Limits
  BY <1>2 DEF Init, Limits, IsProfile
<1>6. CycleTyped
  BY <1>2, <1>3, <1>4, <1>5 DEF CycleTyped, Init
<1>7. Answering /\ Grouped /\ Asked /\ Due
  BY DEF Init, Answering, Answers, Grouped, Asked, Due
<1>8. \A k \in DOMAIN Items : stored[Items[k].key].kind = "none"
  BY <1>6, ProfileShape, StateForms DEF Init
<1>9. Measured /\ UnitsAreNumbers
  BY <1>8 DEF Measured, UnitsAreNumbers
<1>10. DeliveredValid /\ DueDelivered /\ ReadingsTrue /\ Observed
  BY DEF Init, DeliveredValid, DueDelivered, ReadingsTrue, Observed
<1> QED
  BY <1>6, <1>7, <1>9, <1>10 DEF CInv

\* The defaults of a cycle are those of the items that are due.
LEMMA DefaultsFacts ==
  ASSUME CycleTyped, NEW runtime
  PROVE  /\ Readings(Defaults(runtime))
         /\ \A k \in DOMAIN Items : Items[k].key \in DOMAIN Defaults(runtime) =>
              /\ k \in DueItems(runtime)
              /\ Defaults(runtime)[Items[k].key] = default_from_unit_of_measurement(Items[k])
<1> DEFINE due == DueItems(runtime)
           keys == {Items[k].key : k \in due}
           pick(key) == CHOOSE k \in due : Items[k].key = key
<1>1. /\ Defaults(runtime) = [key \in keys |-> default_from_unit_of_measurement(Items[pick(key)])]
      /\ due \subseteq DOMAIN Items
  BY DEF Defaults, DueItems
<1> HIDE DEF due
<1>2. \A key \in keys : pick(key) \in due /\ Items[pick(key)].key = key
  OBVIOUS
<1>3. \A item : default_from_unit_of_measurement(item) \in State
  BY StateForms DEF default_from_unit_of_measurement
<1>4. \A k \in DOMAIN Items : Items[k].key \in keys => pick(Items[k].key) = k
  BY <1>1, <1>2, ProfileShape
<1>5. \A key \in keys : key \in Keys
  BY <1>1, ProfileShape
<1> HIDE DEF pick
<1>6. \A k \in DOMAIN Items : Items[k].key \in keys => k \in due
  BY <1>2, <1>4
<1> HIDE DEF keys
<1> QED
  BY <1>1, <1>3, <1>4, <1>5, <1>6 DEF Readings, due

\* What is due is a finite set of registers.
LEMMA DueRegistersFacts ==
  ASSUME CycleTyped, NEW runtime
  PROVE  /\ DueRegisters(runtime) \subseteq Register /\ IsFiniteSet(DueRegisters(runtime))
         /\ \A r \in DueRegisters(runtime) :
              \E k \in DOMAIN Items : Items[k].registers \notin {None, <<>>} /\ Code(r) = Items[k].code
         /\ \A k \in DueItems(runtime) : Items[k].registers # None =>
              \A n \in DOMAIN Items[k].registers :
                <<Items[k].code, Items[k].registers[n]>> \in DueRegisters(runtime)
<1> DEFINE bearing == {d \in DueItems(runtime) : Items[d].registers # None}
           of(k) == {<<Items[k].code, r>> : r \in ToSet(Items[k].registers)}
           parts == {of(k) : k \in bearing}
<1>1. DueRegisters(runtime) = UNION parts
  BY DEF DueRegisters
<1>2. /\ DueItems(runtime) \subseteq DOMAIN Items /\ bearing \subseteq DOMAIN Items
      /\ DOMAIN Items = 1..Len(Items) /\ Len(Items) \in Nat
  BY ProfileShape DEF DueItems
<1>3. ASSUME NEW k \in bearing
      PROVE  /\ Items[k].registers \in Seq(Nat)
             /\ of(k) = {<<Items[k].code, Items[k].registers[n]>> : n \in DOMAIN Items[k].registers}
             /\ Items[k].registers # <<>> => Items[k].code \in Nat
  BY <1>2, ProfileShape DEF IsItem, IsDefinition, Optional, ToSet
<1>4. ASSUME NEW k \in bearing, NEW r \in of(k)
      PROVE  /\ r \in Register /\ Items[k].registers \notin {None, <<>>} /\ Code(r) = Items[k].code
  <2>1. PICK n \in DOMAIN Items[k].registers : r = <<Items[k].code, Items[k].registers[n]>>
    BY <1>3
  <2>2. Items[k].registers # <<>> /\ Items[k].registers[n] \in Nat
    BY <1>3, <2>1
  <2> QED
    BY <1>3, <2>1, <2>2 DEF Register, Code
<1>5. ASSUME NEW k \in bearing PROVE IsFiniteSet(of(k))
  <2> DEFINE s == Items[k].registers
             f == [n \in DOMAIN s |-> <<Items[k].code, s[n]>>]
  <2>1. f \in Surjection(DOMAIN s, of(k))
    <3>1. of(k) = {<<Items[k].code, s[n]>> : n \in DOMAIN s}
      BY <1>3
    <3> HIDE DEF of
    <3> QED
      BY <3>1 DEF Surjection
  <2>2. IsFiniteSet(DOMAIN s)
    <3>1. DOMAIN s = 1..Len(s) /\ Len(s) \in Nat
      BY <1>3
    <3> QED
      BY <3>1, FS_Interval
  <2> QED
    BY <2>1, <2>2, FS_Surjection
<1>6. IsFiniteSet(parts)
  <2> DEFINE f == [k \in bearing |-> of(k)]
  <2>1. f \in Surjection(bearing, parts)
    BY DEF Surjection
  <2>2. IsFiniteSet(1..Len(Items)) /\ bearing \in SUBSET (1..Len(Items))
    BY <1>2, FS_Interval
  <2> HIDE DEF bearing, parts, f
  <2>3. IsFiniteSet(bearing)
    BY <2>2, FS_Subset
  <2> QED
    BY <2>1, <2>3, FS_Surjection
<1>7. ASSUME NEW k \in DueItems(runtime), Items[k].registers # None,
             NEW n \in DOMAIN Items[k].registers
      PROVE  <<Items[k].code, Items[k].registers[n]>> \in UNION parts
  <2>1. k \in bearing
    BY <1>7
  <2>2. <<Items[k].code, Items[k].registers[n]>> \in of(k)
    BY <1>3, <1>7, <2>1
  <2> HIDE DEF of, bearing
  <2> QED
    BY <2>1, <2>2
<1> HIDE DEF of
<1>8. IsFiniteSet(UNION parts)
  BY <1>5, <1>6, FS_UNION
<1>9. \A r \in UNION parts : \E k \in bearing : r \in of(k)
  OBVIOUS
<1> QED
  BY <1>1, <1>2, <1>4, <1>7, <1>8, <1>9

\* A schedule starts the loop of group_when as that supposes.
LEMMA ScheduleBegins ==
  ASSUME CycleTyped, NEW runtime, Schedule(runtime)
  PROVE  GInv' /\ limits' \in Limits
<1> DEFINE S == DueRegisters(runtime)
           codes == {Code(r) : r \in S}
           varied == ~profile.single /\ Cardinality(codes) > 1
<1>1. /\ S \subseteq Register /\ IsFiniteSet(S) /\ S # {}
      /\ \A r \in S :
           \E k \in DOMAIN Items : Items[k].registers \notin {None, <<>>} /\ Code(r) = Items[k].code
  BY DueRegistersFacts DEF Schedule
<1>2. registers' = Sorted(S, Precedes)
  BY DEF Schedule
<1>3. /\ limits' = [limits EXCEPT !.aware = varied] /\ i' = 1 /\ x' = 1 /\ groups' = <<>>
  BY DEF Schedule
<1>4. limits \in Limits /\ OneCode(profile)
  BY DEF CycleTyped
<1>5. limits' \in Limits /\ limits'.aware = varied
  <2>1. varied \in BOOLEAN
    OBVIOUS
  <2> HIDE DEF varied
  <2> QED
    BY <1>3, <1>4, <2>1 DEF Limits
<1> HIDE DEF S
<1>6. ASSUME ~varied, NEW a \in S, NEW b \in S PROVE Code(a) = Code(b)
  <2>1. CASE profile.single
    BY <1>1, <1>4, <2>1 DEF OneCode, Items
  <2>2. CASE ~(Cardinality(codes) > 1)
    <3>1. IsFiniteSet(codes)
      <4> DEFINE f == [r \in S |-> Code(r)]
      <4>1. f \in Surjection(S, codes)
        BY DEF Surjection
      <4> QED
        BY <1>1, <4>1, FS_Surjection
    <3>2. Code(a) \in codes /\ Code(b) \in codes
      OBVIOUS
    <3> HIDE DEF codes
    <3>3. Cardinality(codes) = 1
      BY <2>2, <3>1, <3>2, FS_CardinalityType, FS_EmptySet
    <3> QED
      BY <3>1, <3>2, <3>3, FS_Singleton
  <2> QED
    BY <1>6, <2>1, <2>2
<1> HIDE DEF varied, codes
<1>7. /\ registers' \in Seq(Register) /\ Len(registers') = Cardinality(S) /\ Ascending(registers')
      /\ \A n \in DOMAIN registers' : registers'[n] \in S
  BY <1>1, <1>2, SortedFacts
<1>8. registers' # <<>>
  <2>1. Cardinality(S) \in Nat /\ Cardinality(S) # 0
    BY <1>1, FS_CardinalityType, FS_EmptySet
  <2> QED
    BY <1>7, <2>1
<1>9. limits'.aware \/ \A a, b \in DOMAIN registers' : Code(registers'[a]) = Code(registers'[b])
  BY <1>5, <1>6, <1>7
<1>10. GroupingInit'
  BY <1>3, <1>5, <1>7, <1>8, <1>9 DEF GroupingInit, Begun, Ascending
<1>11. GroupingInit' => GInv'
  BY InitGInv, PTL
<1> QED
  BY <1>5, <1>10, <1>11

LEMMA ScheduleStep ==
  ASSUME CInv, NEW runtime, Schedule(runtime)
  PROVE  CInv'
<1> USE DEF CInv
<1>0. /\ profile.requests = <<>> /\ stage' = "grouping" /\ requests' = <<>> /\ answers' = <<>>
      /\ seen' = {device}
      /\ result' = Defaults(runtime) /\ registers' = Sorted(DueRegisters(runtime), Precedes)
      /\ UNCHANGED <<profile, device, previous, stored, lost>>
  BY DEF Schedule, Begins
<1>1. GInv' /\ limits' \in Limits
  BY ScheduleBegins
<1>2. /\ Readings(result')
      /\ \A k \in DOMAIN Items : Items[k].key \in DOMAIN result' =>
           /\ k \in DueItems(runtime)
           /\ result'[Items[k].key] = default_from_unit_of_measurement(Items[k])
  BY <1>0, DefaultsFacts
<1>3. CycleTyped'
  BY <1>0, <1>1, <1>2 DEF CycleTyped, Readings, Measures, Keys, Items
<1>4. Answering' /\ Observed' /\ Grouped' /\ Asked'
  BY <1>0, <1>1 DEF Answering, Answers, Observed, Grouped, Asked
<1>5. Due'
  <2> SUFFICES ASSUME NEW k \in DOMAIN Items, Items[k].key \in DOMAIN result'
               PROVE  /\ result'[Items[k].key] = default_from_unit_of_measurement(Items[k])
                      /\ Items[k].registers # None =>
                           \A n \in DOMAIN Items[k].registers :
                             \E r \in DOMAIN registers' :
                               registers'[r] = <<Items[k].code, Items[k].registers[n]>>
    BY <1>0 DEF Due, Items, default_from_unit_of_measurement
  <2>1. k \in DueItems(runtime)
    BY <1>2
  <2>2. ASSUME Items[k].registers # None, NEW n \in DOMAIN Items[k].registers
        PROVE  \E r \in DOMAIN registers' : registers'[r] = <<Items[k].code, Items[k].registers[n]>>
    <3>1. /\ DueRegisters(runtime) \subseteq Register /\ IsFiniteSet(DueRegisters(runtime))
          /\ <<Items[k].code, Items[k].registers[n]>> \in DueRegisters(runtime)
      BY <2>1, <2>2, DueRegistersFacts
    <3> QED
      BY <1>0, <3>1, SortedFacts
  <2> QED
    BY <1>2, <2>2
<1>6. Measured' /\ UnitsAreNumbers' /\ DeliveredValid' /\ DueDelivered' /\ ReadingsTrue'
  BY <1>0, MeasuredFrame, UnitsFrame, DeliveredFrame
<1> QED
  BY <1>3, <1>4, <1>5, <1>6

LEMMA NothingDueStep ==
  ASSUME CInv, NEW runtime, NothingDue(runtime)
  PROVE  CInv'
<1> USE DEF CInv
<1>0. /\ stage' = "asleep" /\ requests' = <<>> /\ answers' = <<>> /\ result' = Defaults(runtime)
      /\ stage # "grouping"
      /\ UNCHANGED <<profile, device, previous, stored, lost, grouping>>
  BY DEF NothingDue, Ends
<1>1. Readings(result')
  BY <1>0, DefaultsFacts
<1>2. CycleTyped'
  BY <1>0, <1>1 DEF CycleTyped, Readings, Measures, Keys, Items, grouping
<1>3. Grouped'
  BY <1>0, GInvFrame DEF Grouped, grouping
<1>4. Answering' /\ Observed' /\ Asked' /\ Due'
  BY <1>0 DEF Answering, Answers, Observed, Asked, Due
<1>5. Measured' /\ UnitsAreNumbers' /\ DeliveredValid' /\ DueDelivered' /\ ReadingsTrue'
  BY <1>0, MeasuredFrame, UnitsFrame, DeliveredFrame
<1> QED
  BY <1>2, <1>3, <1>4, <1>5

LEMMA ScheduleFixedStep ==
  ASSUME CInv, ScheduleFixed
  PROVE  CInv'
<1> USE DEF CInv
<1>0. /\ profile.requests # <<>> /\ stage' = "fetching" /\ requests' = profile.requests
      /\ stage # "grouping" /\ answers' = <<>> /\ result' = NoStates
      /\ seen' = {device}
      /\ UNCHANGED <<profile, device, previous, stored, lost, grouping>>
  BY DEF ScheduleFixed, Begins
<1>1. /\ requests' \in Seq(Spans) /\ \A k \in DOMAIN requests' : requests'[k].start <= requests'[k].end
  BY <1>0 DEF CycleTyped, IsProfile, Spans
<1>2. DOMAIN result' = {}
  BY <1>0 DEF NoStates
<1>3. CycleTyped'
  BY <1>0, <1>1, <1>2 DEF CycleTyped, Readings, Measures, Keys, Items, grouping
<1>4. Grouped'
  BY <1>0, GInvFrame DEF Grouped, grouping
<1>5. Answering' /\ Observed' /\ Asked' /\ Due'
  BY <1>0, <1>1, <1>2 DEF Answering, Answers, Observed, Asked, Due
<1>6. Measured' /\ UnitsAreNumbers' /\ DeliveredValid' /\ DueDelivered' /\ ReadingsTrue'
  BY <1>0, MeasuredFrame, UnitsFrame, DeliveredFrame
<1> QED
  BY <1>3, <1>4, <1>5, <1>6

LEMMA CutStep ==
  ASSUME CInv, Cut
  PROVE  CInv'
<1> USE DEF CInv
<1>0. /\ stage = "grouping" /\ GroupStep
      /\ UNCHANGED <<profile, device, stage, result, previous, requests, answers, stored, lost, seen>>
      /\ UNCHANGED <<limits, registers>>
  BY DEF Cut, cycleVars, GroupStep
<1>1. GInv'
  <2>1. GInv
    BY <1>0 DEF Grouped
  <2> QED
    BY <1>0, <2>1, NextGInv
<1>2. CycleTyped'
  BY <1>0 DEF CycleTyped, Readings, Measures, Keys, Items
<1>3. Answering' /\ Observed' /\ Grouped' /\ Asked'
  BY <1>0, <1>1 DEF Answering, Count, Observed, Held, Grouped, Asked
<1>4. Due' /\ Measured' /\ UnitsAreNumbers' /\ DeliveredValid' /\ DueDelivered' /\ ReadingsTrue'
  BY <1>0, DueFrame, MeasuredFrame, UnitsFrame, DeliveredFrame
<1> QED
  BY <1>2, <1>3, <1>4

\* The requests of closed groups read forwards.
LEMMA RequestsType ==
  GInv => \A k \in DOMAIN groups : /\ RequestOf(groups[k]) \in Spans
                                   /\ RequestOf(groups[k]).start <= RequestOf(groups[k]).end
<1> SUFFICES ASSUME GInv, NEW k \in DOMAIN groups
             PROVE  /\ RequestOf(groups[k]) \in Spans
                    /\ RequestOf(groups[k]).start <= RequestOf(groups[k]).end
  OBVIOUS
<1> DEFINE from == groups[k][1]
           to == groups[k][2]
<1>1. /\ from \in Nat /\ to \in Nat /\ 1 <= from /\ from <= to /\ to < x
      /\ Whole(from, to)
  BY DEF GInv, GroupingType, ClosedGroups
<1>2. from \in 1..Len(registers) /\ to \in 1..Len(registers)
  BY <1>1 DEF GInv, GroupingType
<1>3. RequestOf(groups[k]) = [code |-> Code(registers[from]), start |-> Address(registers[from]),
                              end |-> Address(registers[to])]
  BY DEF RequestOf, create_request
<1> HIDE DEF from, to
<1>4. Code(registers[from]) = Code(registers[to])
  BY <1>1 DEF Whole
<1>5. Address(registers[from]) <= Address(registers[to])
  BY <1>1, <1>2, <1>4, InOrderBack
<1>6. registers[from] \in Register /\ registers[to] \in Register
  BY <1>2 DEF GInv, GroupingType
<1>7. Code(registers[from]) \in Nat /\ Address(registers[from]) \in Nat /\ Address(registers[to]) \in Nat
  BY <1>6 DEF Register, Code, Address
<1> QED
  BY <1>3, <1>5, <1>7 DEF Spans

LEMMA MakeRequestsStep ==
  ASSUME CInv, MakeRequests
  PROVE  CInv'
<1> USE DEF CInv
<1>0. /\ stage = "grouping" /\ GroupLast /\ stage' = "fetching"
      /\ requests' = [k \in DOMAIN groups' |-> RequestOf(groups'[k])]
      /\ UNCHANGED <<profile, device, result, previous, answers, stored, lost, seen>>
      /\ UNCHANGED <<limits, registers>>
  BY DEF MakeRequests, GroupLast
<1>1. GInv' /\ GroupingDone'
  <2>1. GInv
    BY <1>0 DEF Grouped
  <2>2. GroupingDone'
    BY <1>0, <2>1 DEF GroupLast, GroupingDone, GInv, GroupingType
  <2> QED
    BY <1>0, <2>1, <2>2, NextGInv
<1>2. requests' = [k \in DOMAIN groups' |-> RequestOf(groups[k])']
  BY <1>0 DEF RequestOf
<1>3. \A k \in DOMAIN groups' : /\ RequestOf(groups[k])' \in Spans
                                /\ RequestOf(groups[k])'.start <= RequestOf(groups[k])'.end
  <2>1. GInv' => (\A k \in DOMAIN groups : /\ RequestOf(groups[k]) \in Spans
                                           /\ RequestOf(groups[k]).start <= RequestOf(groups[k]).end)'
    BY RequestsType, PTL
  <2> QED
    BY <1>1, <2>1
<1>4. DOMAIN groups' = 1..Len(groups') /\ Len(groups') \in Nat
  BY <1>1 DEF GInv, GroupingType
<1>5. requests' \in Seq(Spans) /\ \A k \in DOMAIN requests' : requests'[k].start <= requests'[k].end
  BY <1>2, <1>3, <1>4
<1>6. CycleTyped'
  BY <1>0, <1>5 DEF CycleTyped, Readings, Measures, Keys, Items
<1>7. answers = <<>> /\ profile.requests = <<>>
  BY <1>0 DEF Answering, Grouped
<1>8. Answering' /\ Observed' /\ Grouped' /\ Asked'
  BY <1>0, <1>1, <1>2, <1>5, <1>7 DEF Answering, Answers, Observed, Grouped, Asked
<1>9. Due' /\ Measured' /\ UnitsAreNumbers' /\ DeliveredValid' /\ DueDelivered' /\ ReadingsTrue'
  BY <1>0, DueFrame, MeasuredFrame, UnitsFrame, DeliveredFrame
<1> QED
  BY <1>6, <1>8, <1>9

LEMMA HeldType ==
  ASSUME CycleTyped, NEW code, NEW addr
  PROVE  Held(device, code, addr) \in Word
BY WordType DEF CycleTyped, Held

LEMMA FetchStep ==
  ASSUME CInv, Fetch
  PROVE  CInv'
<1> USE DEF CInv
<1> DEFINE n == Len(answers)
           q == requests[n + 1]
           a == [code |-> q.code, start |-> q.start,
                 values |-> [m \in 1..Count(q) |-> Held(device, q.code, q.start + m - 1)]]
<1>0. /\ stage = "fetching" /\ n < Len(requests) /\ answers' = Append(answers, a)
      /\ UNCHANGED <<profile, device, stage, result, previous, requests, stored, lost, seen, grouping>>
  BY DEF Fetch
<1>1. n \in Nat /\ Len(requests) \in Nat /\ n + 1 \in DOMAIN requests /\ requests \in Seq(Spans)
  BY <1>0 DEF Answering, Answers, CycleTyped
<1>2. q.code \in Nat /\ q.start \in Nat /\ Count(q) \in Nat
  <2>1. q \in Spans /\ q.start <= q.end
    BY <1>1, ElementOf DEF CycleTyped
  <2> QED
    BY <2>1 DEF Spans, Count
<1>3. a.values \in Seq(Word) /\ Len(a.values) = Count(q)
  <2> HIDE DEF q
  <2> QED
    BY <1>2, HeldType
<1>4. a \in [code : Nat, start : Nat, values : Seq(Word)] /\ a.code = q.code /\ a.start = q.start
  BY <1>2, <1>3
<1>10. \A m \in DOMAIN a.values : a.values[m] = Held(device, a.code, a.start + m - 1)
  OBVIOUS
<1> HIDE DEF a, n
<1>5. /\ answers' \in Answers /\ Len(answers') = n + 1
      /\ \A k \in 1..n : answers'[k] = answers[k]
      /\ answers'[n + 1] = a
  BY <1>0, <1>4 DEF Answering, Answers, n
<1>6. Answering'
  <2>1. \A k \in DOMAIN answers' : k \in DOMAIN answers \/ k = n + 1
    BY <1>1, <1>5 DEF Answering, Answers, n
  <2>2. \A k \in DOMAIN answers : k \in 1..n
    BY DEF Answering, Answers, n
  <2> QED
    BY <1>0, <1>1, <1>3, <1>4, <1>5, <2>1, <2>2 DEF Answering, Count
<1>11. Observed'
  <2>1. \A k \in DOMAIN answers' : (k \in DOMAIN answers /\ answers'[k] = answers[k]) \/ answers'[k] = a
    <3>1. \A k \in DOMAIN answers' : k \in 1..n \/ k = n + 1
      BY <1>1, <1>5 DEF Answers
    <3>2. \A k \in 1..n : k \in DOMAIN answers
      BY DEF Answering, Answers, n
    <3> QED
      BY <1>5, <3>1, <3>2
  <2>2. \A memory, code, addr : Held(memory, code, addr)' = Held(memory, code, addr)
    BY DEF Held
  <2>3. device \in seen /\ seen' = seen /\ device' = device
    BY <1>0 DEF Observed
  <2>4. ASSUME NEW k \in DOMAIN answers'
        PROVE  \E memory \in seen : \A m \in DOMAIN answers'[k].values :
                 answers'[k].values[m] = Held(memory, answers'[k].code, answers'[k].start + m - 1)
    BY <1>10, <2>1, <2>3, <2>4 DEF Observed
  <2> QED
    BY <2>3, <2>4 DEF Observed, Held
<1>7. CycleTyped'
  BY <1>0 DEF CycleTyped, Readings, Measures, Keys, Items, grouping
<1>8. Grouped' /\ Asked'
  BY <1>0, GInvFrame DEF Grouped, Asked, grouping, GroupingDone, RequestOf
<1>9. Due' /\ Measured' /\ UnitsAreNumbers' /\ DeliveredValid' /\ DueDelivered' /\ ReadingsTrue'
  BY <1>0, DueFrame, MeasuredFrame, UnitsFrame, DeliveredFrame DEF grouping
<1> QED
  BY <1>6, <1>7, <1>8, <1>9, <1>11

LEMMA FetchFailsStep ==
  ASSUME CInv, FetchFails
  PROVE  CInv'
<1> USE DEF CInv
<1>0. /\ stage' = "asleep" /\ requests' = <<>> /\ answers' = <<>> /\ stage = "fetching"
      /\ UNCHANGED <<profile, device, result, previous, stored, lost, grouping>>
  BY DEF FetchFails, Ends
<1>1. CycleTyped'
  BY <1>0 DEF CycleTyped, Readings, Measures, Keys, Items, grouping
<1>2. Grouped'
  BY <1>0, GInvFrame DEF Grouped, grouping
<1>3. Answering' /\ Observed' /\ Asked' /\ Due'
  BY <1>0 DEF Answering, Answers, Observed, Asked, Due
<1>4. Measured' /\ UnitsAreNumbers' /\ DeliveredValid' /\ DueDelivered' /\ ReadingsTrue'
  BY <1>0, MeasuredFrame, UnitsFrame, DeliveredFrame
<1> QED
  BY <1>1, <1>2, <1>3, <1>4

LEMMA ChangeStep ==
  ASSUME CInv, NEW code \in DOMAIN Moving, NEW addr \in DOMAIN Moving[code],
         NEW word \in Moving[code][addr], Change(code, addr, word)
  PROVE  CInv'
<1> USE DEF CInv
<1>0. /\ device' = [device EXCEPT ![code][addr] = word]
      /\ UNCHANGED <<profile, stage, result, previous, requests, answers, stored, lost, grouping>>
  BY DEF Change
<1>6. seen' = IF stage = "fetching" THEN seen \cup {device'} ELSE seen
  BY DEF Change
<1>7. Observed'
  <2>1. stage # "grouping" /\ (stage # "fetching" => answers = <<>>)
    BY DEF Change, Answering
  <2>2. seen \subseteq seen' /\ (stage = "fetching" => device' \in seen')
    BY <1>6
  <2> QED
    BY <1>0, <2>1, <2>2 DEF Observed, Held
<1>1. code \in DOMAIN Memory /\ addr \in DOMAIN Memory[code] /\ word \in Word
  BY DeviceAssumption
<1>2. /\ DOMAIN device' = DOMAIN Memory
      /\ \A c \in DOMAIN Memory : device'[c] \in [DOMAIN Memory[c] -> Word]
  BY <1>0, <1>1 DEF CycleTyped
<1>3. CycleTyped'
  BY <1>0, <1>2 DEF CycleTyped, Readings, Measures, Keys, Items, grouping
<1>4. Answering' /\ Grouped' /\ Asked'
  BY <1>0, GInvFrame DEF Answering, Count, Grouped, Asked, grouping, GroupingDone, RequestOf
<1>5. Due' /\ Measured' /\ UnitsAreNumbers' /\ DeliveredValid' /\ DueDelivered' /\ ReadingsTrue'
  BY <1>0, <1>6, DueFrame, MeasuredFrame, UnitsFrame, DeliveredFrame DEF grouping
<1> QED
  BY <1>3, <1>4, <1>5, <1>7

\* The last entry with the key of another has that key.
LEMMA LatestFacts ==
  ASSUME NEW s, DOMAIN s = 1..Len(s), Len(s) \in Nat, NEW k \in DOMAIN s
  PROVE  LET same == {l \in DOMAIN s : s[l].code = s[k].code /\ s[l].start = s[k].start}
         IN Max(same) \in same /\ Latest(s, k) = s[Max(same)]
<1> DEFINE same == {l \in DOMAIN s : s[l].code = s[k].code /\ s[l].start = s[k].start}
<1>1. same \in SUBSET Nat /\ same # {} /\ \A l \in same : l <= Len(s)
  <2>1. k \in same
    OBVIOUS
  <2> QED
    BY <2>1
<1>2. Latest(s, k) = s[Max(same)]
  BY DEF Latest
<1> HIDE DEF same
<1>3. Max(same) \in same
  BY <1>1, Extremes
<1> QED
  BY <1>2, <1>3 DEF same

\* Every entry of `responses' is an answer, of the same key.
LEMMA Responding ==
  ASSUME Answering
  PROVE  /\ responses \in Answers /\ DOMAIN responses = DOMAIN answers
         /\ \A k \in DOMAIN answers : \E l \in DOMAIN answers :
              /\ responses[k] = answers[l]
              /\ answers[l].code = answers[k].code /\ answers[l].start = answers[k].start
<1>1. answers \in Answers /\ DOMAIN answers = 1..Len(answers) /\ Len(answers) \in Nat
  BY DEF Answering, Answers
<1>2. responses = [k \in 1..Len(answers) |-> Latest(answers, k)]
  BY <1>1 DEF responses
<1>3. ASSUME NEW k \in DOMAIN answers
      PROVE  \E l \in DOMAIN answers :
               /\ Latest(answers, k) = answers[l]
               /\ answers[l].code = answers[k].code /\ answers[l].start = answers[k].start
  <2> DEFINE same == {l \in DOMAIN answers :
                        answers[l].code = answers[k].code /\ answers[l].start = answers[k].start}
             m == Max(same)
  <2>1. m \in same /\ Latest(answers, k) = answers[m]
    BY <1>1, LatestFacts
  <2> HIDE DEF m
  <2> QED
    BY <2>1
<1>4. \A k \in 1..Len(answers) : Latest(answers, k) \in [code : Nat, start : Nat, values : Seq(Word)]
  <2> TAKE k \in 1..Len(answers)
  <2>1. PICK l \in DOMAIN answers : Latest(answers, k) = answers[l]
    BY <1>1, <1>3
  <2> QED
    BY <1>1, <2>1, ElementOf DEF Answers
<1>5. responses \in Answers
  BY <1>1, <1>2, <1>4 DEF Answers
<1> QED
  BY <1>1, <1>2, <1>3, <1>5

\* When every request is answered, an entry of `responses' spans its latest request.
LEMMA Spanning ==
  ASSUME Answering, requests \in Seq(Spans), Len(answers) = Len(requests),
         NEW k \in DOMAIN requests
  PROVE  LET q == Latest(requests, k)
         IN /\ k \in DOMAIN answers /\ q \in Spans
            /\ responses[k].code = q.code /\ responses[k].start = q.start
            /\ Len(responses[k].values) = Count(q)
            /\ q.code = requests[k].code /\ q.start = requests[k].start
<1>1. /\ answers \in Answers /\ DOMAIN answers = 1..Len(answers) /\ Len(answers) \in Nat
      /\ DOMAIN requests = 1..Len(answers)
  BY DEF Answering, Answers
<1>2. \A l \in DOMAIN answers :
        /\ answers[l].code = requests[l].code /\ answers[l].start = requests[l].start
        /\ Len(answers[l].values) = Count(requests[l])
  BY DEF Answering
<1> DEFINE given == {l \in DOMAIN answers :
                       answers[l].code = answers[k].code /\ answers[l].start = answers[k].start}
           asked == {l \in DOMAIN requests :
                       requests[l].code = requests[k].code /\ requests[l].start = requests[k].start}
           m == Max(asked)
<1>3. given = asked
  BY <1>1, <1>2
<1>4. Max(given) \in given /\ Latest(answers, k) = answers[Max(given)]
  BY <1>1, LatestFacts
<1>5. m \in asked /\ Latest(requests, k) = requests[m]
  BY <1>1, LatestFacts
<1>6. responses[k] = answers[m]
  BY <1>1, <1>3, <1>4 DEF responses
<1> HIDE DEF m
<1>7. m \in DOMAIN requests /\ requests[m] \in Spans
  BY <1>5, ElementOf
<1> QED
  BY <1>1, <1>2, <1>5, <1>6, <1>7

LEMMA DiscardStep ==
  ASSUME CInv, Discard
  PROVE  CInv'
<1> USE DEF CInv
<1> DEFINE p == process(responses)
<1>0. /\ stage' = "asleep" /\ requests' = <<>> /\ answers' = <<>> /\ stage = "fetching"
      /\ result' = p.result /\ previous' = p.previous /\ lost' = Keys
      /\ UNCHANGED <<profile, device, stored, grouping>>
  BY DEF Discard, Ends, Answered
<1>1. Readings(p.result) /\ p.previous \in Measures
  BY Responding, ProcessResult DEF CycleTyped, Answering
<1> HIDE DEF p
<1>2. CycleTyped'
  BY <1>0, <1>1 DEF CycleTyped, Readings, Measures, Keys, Items, grouping
<1>3. Grouped'
  BY <1>0, GInvFrame DEF Grouped, grouping
<1>4. Answering' /\ Observed' /\ Asked' /\ Due'
  BY <1>0 DEF Answering, Answers, Observed, Asked, Due
<1>5. \A k \in DOMAIN Items' : Items'[k].key \in lost'
  BY <1>0 DEF Keys, Items
<1>6. Measured'
  BY <1>5 DEF Measured
<1>7. UnitsAreNumbers' /\ DeliveredValid' /\ DueDelivered' /\ ReadingsTrue'
  BY <1>0, UnitsFrame, DeliveredFrame
<1> QED
  BY <1>2, <1>3, <1>4, <1>6, <1>7

\* What a delivery holds of a number: one that came about honestly, or the default of
\* its unit and the measure there was.
LEMMA Arrived ==
  ASSUME CInv, stage = "fetching", NEW p, NEW k \in DOMAIN Items,
         Handled(p, Items[k], responses), IsNumeric(Items[k])
  PROVE  LET item == Items[k]
             measure == previous[item.key]
         IN \/ /\ p.previous[item.key] = measure
               /\ item.key \in DOMAIN p.result =>
                    p.result[item.key] = default_from_unit_of_measurement(item)
            \/ /\ item.key \in DOMAIN p.result
               /\ \E value \in Int : /\ p.result[item.key] = Number(Rounded(item, value))
                                     /\ CameFrom(item, value, measure, p.previous[item.key])
<1> DEFINE item == Items[k]
           measure == previous[item.key]
           q == try_parse(item, responses, measure)
<1>1. /\ IsProfile(profile) /\ responses \in Answers /\ IsItem(item) /\ item.key \in Keys
      /\ measure \in Int \cup {None}
  BY ProfileShape, Responding DEF CInv, CycleTyped, Measures
<1>2. item.key \in DOMAIN result => result[item.key] = default_from_unit_of_measurement(item)
  BY DEF CInv, Due
<1>3. CASE Active(item, responses)
  <2>1. item.registers # None /\ item.rule \in 1..4
    BY <1>3 DEF Active, IsNumeric
  <2>2. Honest(item, q, measure)
    BY <1>1, <2>1, NumberHonest
  <2>3. /\ p.previous[item.key] = q.previous
        /\ q.state = None => Same(p, item.key)
        /\ q.state # None => item.key \in DOMAIN p.result /\ p.result[item.key] = q.state
    BY <1>3 DEF Handled
  <2> HIDE DEF q, measure
  <2> QED
    BY <1>2, <2>2, <2>3 DEF Honest, Same, measure
<1>4. CASE ~Active(item, responses)
  <2>1. Same(p, item.key) /\ p.previous[item.key] = measure
    BY <1>4 DEF Handled
  <2> QED
    BY <1>2, <2>1 DEF Same
<1> QED
  BY <1>3, <1>4

\* What a delivery does.
LEMMA DeliverFacts ==
  ASSUME CInv, Deliver
  PROVE  /\ stage = "fetching" /\ Len(answers) = Len(requests)
         /\ Readings(result') /\ previous' \in Measures /\ Write(result')
         /\ \A k \in DOMAIN Items :
              Handled([result |-> result', previous |-> previous'], Items[k], responses)
         /\ stage' = "delivered" /\ answers' = <<>>
         /\ UNCHANGED <<profile, device, requests, seen, grouping>>
<1> DEFINE p == process(responses)
<1>1. /\ stage = "fetching" /\ Len(answers) = Len(requests) /\ ~p.raises
      /\ result' = p.result /\ previous' = p.previous /\ Write(p.result)
      /\ stage' = "delivered" /\ answers' = <<>>
      /\ UNCHANGED <<profile, device, requests, seen, grouping>>
  BY DEF Deliver, Answered
<1>2. /\ Readings(p.result) /\ p.previous \in Measures
      /\ ~p.raises => \A k \in DOMAIN Items : Handled(p, Items[k], responses)
  BY ProcessResult, Responding DEF CInv, CycleTyped
<1> HIDE DEF p
<1> DEFINE d == [result |-> result', previous |-> previous']
<1>3. d.result = p.result /\ d.previous = p.previous
  BY <1>1
<1> HIDE DEF d
<1>4. \A k \in DOMAIN Items : Handled(p, Items[k], responses) => Handled(d, Items[k], responses)
  BY <1>3 DEF Handled, Same
<1> QED
  BY <1>1, <1>2, <1>4 DEF d

\* How a number is delivered, and what is written of it.
LEMMA NumberArrived ==
  ASSUME CInv, Deliver, NEW k \in DOMAIN Items, IsNumeric(Items[k])
  PROVE  LET key == Items[k].key IN
         \/ /\ previous'[key] = previous[key]
            /\ key \in DOMAIN result' =>
                 result'[key] = default_from_unit_of_measurement(Items[k])
         \/ /\ key \in DOMAIN result' /\ key \in Fields(result')
            /\ result'[key].kind = "number"
            /\ \E value \in Int :
                 /\ result'[key] = Number(Rounded(Items[k], value))
                 /\ result'[key].val[1] = Rounded(Items[k], value)
                 /\ CameFrom(Items[k], value, previous[key], previous'[key])
<1> DEFINE item == Items[k]
           key == item.key
           d == [result |-> result', previous |-> previous']
<1>1. /\ stage = "fetching" /\ Handled(d, Items[k], responses)
  BY DeliverFacts
<1>2. d.result = result' /\ d.previous = previous'
  OBVIOUS
<1> HIDE DEF d
<1>3. \A v : Number(v).kind = "number" /\ Number(v).val[1] = v
  BY DEF Number
<1>4. \/ /\ d.previous[key] = previous[key]
         /\ key \in DOMAIN d.result => d.result[key] = default_from_unit_of_measurement(item)
      \/ /\ key \in DOMAIN d.result
         /\ \E value \in Int : /\ d.result[key] = Number(Rounded(item, value))
                               /\ CameFrom(item, value, previous[key], d.previous[key])
  BY <1>1, Arrived
<1> QED
  BY <1>2, <1>3, <1>4 DEF Fields

\* What InfluxDB is given for a number that is gauged becomes its measure.
LEMMA GaugedArrived ==
  ASSUME CInv, Deliver, NEW k \in DOMAIN Items, Gauged(Items[k]),
         stored'[Items[k].key].kind = "number", Items[k].key \notin lost'
  PROVE  LET key == Items[k].key IN
         \/ /\ stored'[key] = stored[key] /\ key \notin lost
            /\ previous'[key] = previous[key]
         \/ \E value \in Int :
              /\ stored'[key].val[1] = Rounded(Items[k], value) /\ previous'[key] = value
              /\ Allows(Items[k], value, previous[key])
<1> DEFINE item == Items[k]
           key == item.key
<1>1. Write(result')
  BY DeliverFacts
<1>2. /\ key \in Keys /\ DOMAIN stored = Keys
      /\ IsNumeric(item) /\ item.validation # None /\ item.validation.default = None
      /\ item.validation.dev # 0
  BY ProfileShape DEF CInv, CycleTyped, Gauged, Default
<1>3. ~Conflict(result')
  BY <1>1, <1>2 DEF Write
<1>4. /\ stored'[key] = IF key \in Fields(result') THEN result'[key] ELSE stored[key]
      /\ lost' = lost \ Fields(result')
  BY <1>1, <1>2, <1>3 DEF Write
<1>5. CASE key \in Fields(result')
  <2>1. stored'[key] = result'[key] /\ result'[key].kind = "number" /\ key \in DOMAIN result'
    BY <1>4, <1>5 DEF Fields
  <2>2. result'[key] # default_from_unit_of_measurement(item)
    BY <2>1 DEF default_from_unit_of_measurement, Blank, Nothing
  <2>3. PICK value \in Int : /\ result'[key].val[1] = Rounded(item, value)
                             /\ CameFrom(item, value, previous[key], previous'[key])
    BY <1>2, <2>1, <2>2, NumberArrived
  <2>4. Allows(item, value, previous[key]) /\ previous'[key] = value
    BY <1>2, <2>3, NoneAssumption DEF CameFrom
  <2> QED
    BY <2>1, <2>3, <2>4
<1>6. CASE key \notin Fields(result')
  <2>1. previous'[key] = previous[key]
    BY <1>2, <1>6, NumberArrived
  <2> QED
    BY <1>4, <1>6, <2>1
<1> QED
  BY <1>5, <1>6

LEMMA DeliverMeasured ==
  ASSUME CInv, Deliver
  PROVE  Measured'
<1>1. profile' = profile
  BY DeliverFacts
<1>2. ASSUME NEW k \in DOMAIN Items, Gauged(Items[k]),
             stored'[Items[k].key].kind = "number", Items[k].key \notin lost'
      PROVE  /\ previous'[Items[k].key] \in Int
             /\ stored'[Items[k].key].val[1] = Rounded(Items[k], previous'[Items[k].key])
  BY <1>2, GaugedArrived DEF CInv, Measured
<1> QED
  BY <1>1, <1>2 DEF Measured, Items, Gauged, Default, IsNumeric, IsSigned, Rounded, DigitsOf

LEMMA DeliverUnits ==
  ASSUME CInv, Deliver
  PROVE  UnitsAreNumbers'
<1>1. profile' = profile /\ Write(result')
  BY DeliverFacts
<1>2. ASSUME NEW k \in DOMAIN Items, IsNumeric(Items[k]), Items[k].unit # None
      PROVE  stored'[Items[k].key].kind # "text"
  <2> DEFINE key == Items[k].key
  <2>1. stored[key].kind # "text" /\ key \in Keys /\ DOMAIN stored = Keys
    BY <1>2, ProfileShape DEF CInv, UnitsAreNumbers, CycleTyped
  <2>2. key \in Fields(result') => result'[key].kind # "text"
    BY <1>2, NumberArrived DEF Fields, default_from_unit_of_measurement, Nothing
  <2>3. stored'[key] = stored[key] \/ (key \in Fields(result') /\ stored'[key] = result'[key])
    BY <1>1, <2>1 DEF Write
  <2> QED
    BY <2>1, <2>2, <2>3
<1> QED
  BY <1>1, <1>2 DEF UnitsAreNumbers, Items, IsNumeric, IsSigned

\* Rounding keeps a value within the rounded bounds of its rule.
LEMMA WithinRounded ==
  ASSUME CycleTyped, NEW k \in DOMAIN Items, Items[k].validation # None,
         NEW value \in Int, in_range(value, Items[k].validation)
  PROVE  Within(Items[k], Rounded(Items[k], value))
<1> DEFINE item == Items[k]
           rule == item.validation
<1>1. IsItem(item) /\ IsProfile(profile)
  BY ProfileShape DEF CycleTyped
<1>2. DigitsOf(item) \in Nat \cup {-1}
  BY <1>1, DigitsType
<1>3. rule.min \in Int \cup {None} /\ rule.max \in Int \cup {None}
  BY <1>1, ItemRule DEF IsRule, IsRange, Optional
<1>4. /\ rule.min # None => rule.min <= value
      /\ rule.max # None => value <= rule.max
  BY <1>3 DEF in_range
<1>5. rule.min # None => Rounded(item, rule.min) <= Rounded(item, value)
  BY <1>2, <1>3, <1>4, RoundingOrder DEF Rounded
<1>6. rule.max # None => Rounded(item, value) <= Rounded(item, rule.max)
  BY <1>2, <1>3, <1>4, RoundingOrder DEF Rounded
<1> QED
  BY <1>5, <1>6 DEF Within

LEMMA DeliverValid ==
  ASSUME CInv, Deliver
  PROVE  DeliveredValid'
<1>1. profile' = profile
  BY DeliverFacts
<1>2. ASSUME NEW k \in DOMAIN Items, IsNumeric(Items[k]), Items[k].validation # None,
             Items[k].key \in DOMAIN result', result'[Items[k].key].kind = "number"
      PROVE  \/ Within(Items[k], result'[Items[k].key].val[1])
             \/ /\ Default(Items[k]) # None
                /\ result'[Items[k].key].val[1] = Rounded(Items[k], Default(Items[k]))
                /\ ~Essential(Items[k])
  <2> DEFINE item == Items[k]
             key == item.key
  <2>1. result'[key] # default_from_unit_of_measurement(item)
    BY <1>2 DEF default_from_unit_of_measurement, Blank, Nothing
  <2>2. PICK value \in Int : /\ result'[key].val[1] = Rounded(item, value)
                             /\ CameFrom(item, value, previous[key], previous'[key])
    BY <1>2, <2>1, NumberArrived
  <2>3. CASE Allows(item, value, previous[key])
    <3>1. in_range(value, item.validation)
      BY <2>3 DEF Allows
    <3>2. Within(item, Rounded(item, value))
      BY <1>2, <3>1, WithinRounded DEF CInv
    <3> QED
      BY <2>2, <3>2
  <2>4. CASE value = item.validation.default /\ ~Essential(item)
    <3>1. Default(item) = value /\ value # None
      BY <1>2, <2>4, NoneAssumption DEF Default
    <3> QED
      BY <2>2, <2>4, <3>1
  <2> QED
    BY <1>2, <2>2, <2>3, <2>4 DEF CameFrom
<1> QED
  BY <1>1, <1>2 DEF DeliveredValid, Items, IsNumeric, IsSigned, Delivered, Reading,
                    Within, Rounded, DigitsOf, Default, Essential, DropsSet

\* When every request is answered, the registers of an item that is due are read.
LEMMA RegistersRead ==
  ASSUME CInv, stage = "fetching", Len(answers) = Len(requests),
         NEW k \in DOMAIN Items, Items[k].key \in DOMAIN result, Items[k].registers # None,
         NEW n \in DOMAIN Items[k].registers
  PROVE  /\ get_start_addr(responses, Items[k].code, Items[k].registers[n]) # None
         /\ get_addr_value(responses, Items[k].code, Items[k].registers[n]) \in Word
<1> DEFINE code == Items[k].code
           addr == Items[k].registers[n]
           holds(d) == /\ responses[d].code = code /\ responses[d].start <= addr
                       /\ addr < responses[d].start + Len(responses[d].values)
<1>1. addr \in Nat
  <2>1. Items[k].registers \in Seq(Nat)
    BY ProfileShape DEF CInv, IsItem, IsDefinition, Optional
  <2> QED
    BY <2>1
<1>2. /\ GInv /\ GroupingDone /\ requests = [g \in DOMAIN groups |-> RequestOf(groups[g])]
  BY DEF CInv, Asked
<1>3. PICK r \in DOMAIN registers : registers[r] = <<code, addr>>
  BY DEF CInv, Due
<1>4. PICK g \in DOMAIN groups : Covers(RequestOf(groups[g]), registers[r])
  BY <1>2, CoverFromGInv DEF RequestsCover, AskedOnce
<1>5. /\ g \in DOMAIN requests /\ requests[g].code = code
      /\ requests[g].start <= addr /\ addr <= requests[g].end
  BY <1>2, <1>3, <1>4 DEF Covers, Code, Address
<1>6. requests \in Seq(Spans) /\ g \in DOMAIN answers
  BY <1>5 DEF CInv, CycleTyped, Answering, Answers
<1>10. PICK l \in DOMAIN answers :
         /\ responses[g] = answers[l]
         /\ answers[l].code = answers[g].code /\ answers[l].start = answers[g].start
  BY <1>6, Responding DEF CInv
<1>7. /\ answers[g].code = requests[g].code /\ answers[g].start = requests[g].start
      /\ answers[l].code = requests[l].code /\ answers[l].start = requests[l].start
      /\ Len(answers[l].values) = Count(requests[l])
      /\ l \in DOMAIN requests /\ requests[l] \in Spans /\ requests[g] \in Spans
  BY <1>5, <1>6, <1>10, ElementOf DEF CInv, Answering, Answers
<1>11. l = g
  <2>1. RequestsCover
    BY <1>2, CoverFromGInv
  <2>2. requests[l].code = requests[g].code /\ requests[l].start = requests[g].start
    BY <1>7, <1>10
  <2>3. PICK a \in DOMAIN registers : /\ Code(registers[a]) = requests[g].code
                                     /\ Address(registers[a]) = requests[g].start
    <3>1. groups[g][1] \in DOMAIN registers
      BY <1>2, <1>5 DEF GInv, GroupingType, ClosedGroups, GroupingDone
    <3> QED
      BY <1>2, <1>5, <3>1 DEF RequestOf, create_request
  <2>4. requests[g].start <= requests[g].end /\ requests[l].start <= requests[l].end
    BY <1>5, <1>7 DEF CInv, CycleTyped
  <2>5. Covers(requests[g], registers[a]) /\ Covers(requests[l], registers[a])
    BY <1>7, <2>2, <2>3, <2>4 DEF Covers, Spans
  <2> QED
    BY <1>2, <1>5, <1>7, <2>1, <2>5 DEF RequestsCover, AskedOnce
<1>8. holds(g)
  BY <1>1, <1>5, <1>7, <1>10, <1>11 DEF Spans, Count
<1>9. responses \in Answers /\ g \in DOMAIN responses
  BY <1>6, Responding DEF CInv
<1> QED
  BY <1>1, <1>8, <1>9, AddrValue

LEMMA DeliverDue ==
  ASSUME CInv, Deliver
  PROVE  DueDelivered'
<1> DEFINE d == [result |-> result', previous |-> previous']
<1>1. /\ profile' = profile /\ stage = "fetching" /\ Len(answers) = Len(requests)
      /\ \A k \in DOMAIN Items : Handled(d, Items[k], responses)
  BY DeliverFacts
<1>2. d.result = result' /\ d.previous = previous'
  OBVIOUS
<1> HIDE DEF d
<1>3. ASSUME NEW k \in DOMAIN Items, IsNumeric(Items[k]), Items[k].sensors = <<>>,
             Items[k].range = None, Items[k].registers # None,
             Items[k].key \in DOMAIN result',
             Items[k].validation = None \/ Essential(Items[k])
      PROVE  result'[Items[k].key].kind = "number"
  <2> DEFINE item == Items[k]
             measure == previous[item.key]
             q == try_parse(item, responses, measure)
             read == ~Missing(Values(responses, item.code, item.registers))
  <2>1. /\ IsProfile(profile) /\ responses \in Answers /\ IsItem(item)
        /\ measure \in Int \cup {None} /\ item.rule \in 1..4 /\ ~item.disabled
    BY <1>3, ProfileShape, Responding DEF CInv, CycleTyped, Measures, IsNumeric
  <2>2. /\ q \in Outcomes /\ Honest(item, q, measure)
        /\ item.registers # <<>> /\ read /\ ~q.raises => q.state # None
    BY <1>3, <2>1, NumberHonest
  <2>4. Handled(d, item, responses)
    BY <1>1
  <2>5. /\ item.registers # <<>>
        /\ Active(item, responses) =>
             /\ ~q.raises
             /\ q.state = None => Same(d, item.key)
             /\ q.state # None => d.result[item.key] = q.state
        /\ ~Active(item, responses) => Same(d, item.key)
    BY <2>1, <2>4 DEF Handled
  <2> HIDE DEF q, read, item, measure
  <2>3. q.state # None => q.state.kind = "number"
    <3>1. q.state # None => \E value \in Int : q.state = Number(Rounded(item, value))
      BY <2>2 DEF Honest
    <3>2. \A v : Number(v).kind = "number"
      BY DEF Number
    <3> QED
      BY <3>1, <3>2
  <2> USE DEF item, measure
  <2>6. CASE item.key \notin DOMAIN result
    BY <1>2, <1>3, <2>3, <2>5, <2>6 DEF Same
  <2>7. CASE item.key \in DOMAIN result
    <3>1. \A n \in DOMAIN item.registers :
            /\ get_start_addr(responses, item.code, item.registers[n]) # None
            /\ get_addr_value(responses, item.code, item.registers[n]) \in Word
      BY <1>1, <1>3, <2>7, RegistersRead
    <3>2. read
      <4> DEFINE words == Values(responses, item.code, item.registers)
      <4>1. DOMAIN words = DOMAIN item.registers /\ \A n \in DOMAIN words : words[n] \in Word
        BY <3>1, Zenon DEF Values
      <4> HIDE DEF words
      <4>2. None \notin Word
        <5> SUFFICES ASSUME None \in Word PROVE FALSE
          OBVIOUS
        <5>1. None \in Nat
          BY WordType
        <5>2. None \in Int
          BY <5>1
        <5> QED
          BY <5>2, NoneAssumption
      <4> QED
        BY <4>1, <4>2 DEF read, Missing, words
    <3>3. item.registers \in Seq(Nat)
      BY <1>3, <2>1 DEF IsItem, IsDefinition, Optional
    <3>4. 1 \in DOMAIN item.registers
      BY <2>5, <3>3
    <3>5. Active(item, responses)
      BY <1>3, <2>1, <2>5, <3>1, <3>4 DEF Active
    <3> QED
      BY <1>2, <2>2, <2>3, <2>5, <3>2, <3>5
  <2> QED
    BY <2>6, <2>7
<1> QED
  BY <1>1, <1>3 DEF DueDelivered, Items, IsNumeric, IsSigned, Delivered, Essential, DropsSet

\* When every request is answered, the words read for an item are what its registers
\* held, at one moment if one entry of `responses' holds them all.
LEMMA Sourced ==
  ASSUME CInv, stage = "fetching", Len(answers) = Len(requests),
         NEW item, IsItem(item), item.registers # None,
         ~Missing(Values(responses, item.code, item.registers))
  PROVE  Values(responses, item.code, item.registers) \in Sources(item)
<1> DEFINE regs == item.registers
           code == item.code
           words == Values(responses, code, regs)
           place(n) == get_start_addr(responses, code, regs[n])
           holds(d, addr) == /\ responses[d].code = code /\ responses[d].start <= addr
                             /\ addr < responses[d].start + Len(responses[d].values)
           holding(n) == {d \in DOMAIN responses : holds(d, regs[n])}
<1>1. /\ responses \in Answers /\ DOMAIN responses = DOMAIN answers
      /\ DOMAIN answers = 1..Len(answers) /\ Len(answers) \in Nat
      /\ requests \in Seq(Spans) /\ DOMAIN requests = DOMAIN answers
  BY Responding DEF CInv, CycleTyped, Answering, Answers
<1>2. regs \in Seq(Nat)
  BY DEF IsItem, IsDefinition, Optional
<1>3. \A n \in DOMAIN regs : regs[n] \in Nat
  BY <1>2
<1>4. words = [n \in DOMAIN regs |-> get_addr_value(responses, code, regs[n])]
  BY DEF Values
<1>5. \A n \in DOMAIN regs : place(n) = IF holding(n) = {} THEN None ELSE Min(holding(n))
  BY DEF get_start_addr
<1>6. \A n \in DOMAIN regs :
        /\ holding(n) \in SUBSET Nat
        /\ holding(n) # {} => /\ Min(holding(n)) \in holding(n)
                              /\ \A d \in holding(n) : Min(holding(n)) <= d
  <2> TAKE n \in DOMAIN regs
  <2>1. holding(n) \in SUBSET Nat
    BY <1>1
  <2> HIDE DEF holding
  <2> QED
    BY <2>1, Extremes
<1>7. \A n \in DOMAIN regs :
        /\ holding(n) # {}
        /\ place(n) \in holding(n) /\ \A d \in holding(n) : place(n) <= d
        /\ words[n] = responses[place(n)].values[regs[n] - responses[place(n)].start + 1]
  <2> TAKE n \in DOMAIN regs
  <2>1. words[n] # None /\ words[n] = get_addr_value(responses, code, regs[n])
    <3>1. DOMAIN words = DOMAIN regs
      BY <1>4
    <3> QED
      BY <1>4, <3>1 DEF Missing
  <2> HIDE DEF words, holding
  <2>2. place(n) # None
    BY <2>1 DEF get_addr_value
  <2>3. holding(n) # {} /\ place(n) = Min(holding(n))
    BY <1>5, <2>2
  <2>4. words[n] = responses[place(n)].values[regs[n] - responses[place(n)].start + 1]
    BY <2>1, <2>2 DEF get_addr_value
  <2> QED
    BY <1>6, <2>3, <2>4
<1> DEFINE Moment(memory, d) ==
             \A addr \in Nat : holds(d, addr) =>
               responses[d].values[addr - responses[d].start + 1] = Held(memory, code, addr)
           moment(d) == CHOOSE memory \in seen : Moment(memory, d)
<1>8. \A d \in DOMAIN responses : moment(d) \in seen /\ Moment(moment(d), d)
  <2> TAKE d \in DOMAIN responses
  <2>1. PICK l \in DOMAIN answers : responses[d] = answers[l]
    BY <1>1, Responding DEF CInv
  <2>2. PICK memory \in seen :
          \A n \in DOMAIN answers[l].values :
            answers[l].values[n] = Held(memory, answers[l].code, answers[l].start + n - 1)
    BY DEF CInv, Observed
  <2>3. answers[l] \in [code : Nat, start : Nat, values : Seq(Word)]
    BY <1>1, ElementOf DEF CInv, Answering, Answers
  <2>4. Moment(memory, d)
    <3> SUFFICES ASSUME NEW addr \in Nat, holds(d, addr)
                 PROVE  responses[d].values[addr - responses[d].start + 1] = Held(memory, code, addr)
      OBVIOUS
    <3> DEFINE n == addr - answers[l].start + 1
    <3>1. n \in DOMAIN answers[l].values /\ answers[l].start + n - 1 = addr
      BY <2>1, <2>3
    <3>2. answers[l].values[n] = Held(memory, answers[l].code, answers[l].start + n - 1)
      BY <2>2, <3>1
    <3> QED
      BY <2>1, <3>1, <3>2
  <2> HIDE DEF Moment
  <2> QED
    BY <2>4
<1>9. \A n \in DOMAIN regs :
        /\ place(n) \in DOMAIN responses
        /\ words[n] = Held(moment(place(n)), code, regs[n])
  <2> TAKE n \in DOMAIN regs
  <2> DEFINE d == place(n)
  <2>1. d \in DOMAIN responses /\ holds(d, regs[n]) /\ regs[n] \in Nat
    BY <1>3, <1>7
  <2>2. words[n] = responses[d].values[regs[n] - responses[d].start + 1]
    BY <1>7
  <2> HIDE DEF words, moment, d
  <2>3. Moment(moment(d), d)
    BY <1>8, <2>1
  <2>4. responses[d].values[regs[n] - responses[d].start + 1] = Held(moment(d), code, regs[n])
    BY <2>1, <2>3
  <2> QED
    BY <2>1, <2>2, <2>4 DEF d
<1> DEFINE at(when) == [n \in DOMAIN regs |-> Held(when[n], code, regs[n])]
<1>10. \A when : (\A n \in DOMAIN regs : words[n] = Held(when[n], code, regs[n])) => words = at(when)
  BY <1>4
<1> HIDE DEF words, moment, Moment
<1>11. CASE InOneRequest(item)
  <2>1. PICK k \in DOMAIN requests : \A r \in ToSet(regs) :
          /\ Covers(Latest(requests, k), <<code, r>>)
          /\ \A l \in 1..(k - 1) : ~Covers(Latest(requests, l), <<code, r>>)
    BY <1>11 DEF InOneRequest
  <2>2. \A l \in DOMAIN requests : \A addr \in Nat :
          holds(l, addr) <=> Covers(Latest(requests, l), <<code, addr>>)
    <3> TAKE l \in DOMAIN requests
    <3> TAKE addr \in Nat
    <3>1. /\ Latest(requests, l) \in Spans
          /\ responses[l].code = Latest(requests, l).code
          /\ responses[l].start = Latest(requests, l).start
          /\ Len(responses[l].values) = Count(Latest(requests, l))
      BY <1>1, Spanning DEF CInv
    <3> QED
      BY <3>1 DEF Covers, Code, Address, Count, Spans
  <2>3. \A n \in DOMAIN regs : place(n) = k
    <3> TAKE n \in DOMAIN regs
    <3>1. regs[n] \in ToSet(regs) /\ regs[n] \in Nat
      BY <1>3 DEF ToSet
    <3>2. k \in holding(n) /\ \A l \in 1..(k - 1) : l \notin holding(n)
      BY <1>1, <2>1, <2>2, <3>1
    <3>3. place(n) \in holding(n) /\ place(n) <= k /\ holding(n) \subseteq 1..Len(answers)
      BY <1>1, <1>7, <3>2
    <3> HIDE DEF holding
    <3> QED
      BY <1>1, <3>2, <3>3
  <2> DEFINE when == [n \in DOMAIN regs |-> moment(k)]
  <2>4. words = at(when)
    BY <1>9, <1>10, <2>3
  <2>5. moment(k) \in seen
    BY <1>1, <1>8
  <2>6. Sources(item) = {at([n \in DOMAIN regs |-> memory]) : memory \in seen}
    BY <1>11 DEF Sources
  <2> HIDE DEF at
  <2>7. words \in {at([n \in DOMAIN regs |-> memory]) : memory \in seen}
    BY <2>4, <2>5
  <2> QED
    BY <2>6, <2>7 DEF words
<1>12. CASE ~InOneRequest(item)
  <2> DEFINE when == [n \in DOMAIN regs |-> moment(place(n))]
  <2>1. words = at(when)
    <3>1. \A n \in DOMAIN regs : when[n] = moment(place(n))
      OBVIOUS
    <3>2. \A n \in DOMAIN regs : words[n] = Held(when[n], code, regs[n])
      BY <1>9, <3>1
    <3> HIDE DEF when, at
    <3> QED
      BY <1>10, <3>2
  <2>2. when \in [DOMAIN regs -> seen]
    BY <1>8, <1>9
  <2>3. Sources(item) = {at(w) : w \in [DOMAIN regs -> seen]}
    BY <1>12 DEF Sources
  <2> HIDE DEF at, when
  <2> QED
    BY <2>1, <2>2, <2>3 DEF words
<1> QED
  BY <1>11, <1>12

\* A plain number that is parsed is what its words stand for, or its default.
LEMMA PlainParsed ==
  ASSUME IsProfile(profile), NEW item, IsItem(item), IsPlain(item),
         item.registers # None, item.registers # <<>>,
         NEW data \in Answers, NEW measure \in Int \cup {None},
         try_parse(item, data, measure).state # None
  PROVE  LET words == Values(data, item.code, item.registers)
             state == try_parse(item, data, measure).state
         IN \/ /\ ~Missing(words)
               /\ \E v \in Int : state = Number(v) /\ StandsFor(v, words, item)
            \/ /\ Default(item) # None
               /\ state = Number(Rounded(item, Default(item)))
<1> DEFINE words == Values(data, item.code, item.registers)
           n == IF IsSigned(item) THEN SignedNumber(item, words) ELSE Unsigned(item, words)
           a == Adjusted(item, n)
           w == Validated(a, item.validation, measure)
           q == try_parse(item, data, measure)
<1>1. /\ item.rule \in 1..4 /\ item.sensors = <<>> /\ item.range = None
      /\ item.lookup = None \/ IsSigned(item)
  BY DEF IsPlain, IsNumeric
<1>2. q = NumberParsed(item, RawNumber(item, data), measure)
  <2>1. item.rule \notin 5..10
    BY <1>1
  <2> QED
    BY <1>1, <2>1, Zenon DEF try_parse, try_parse_number
<1>3. RawNumber(item, data) = Plain(n)
  BY <1>1 DEF RawNumber, read_registers, read_registers_signed
<1>4. n # None
  <2> SUFFICES ASSUME n = None PROVE FALSE
    OBVIOUS
  <2>1. q = Parsed(None, FALSE, measure)
    <3>1. Plain(n).absent /\ Plain(n).raises = FALSE
      BY DEF Plain
    <3> QED
      BY <1>2, <1>3, <3>1 DEF NumberParsed
  <2> QED
    BY <2>1 DEF Parsed
<1>5. item.registers \in Seq(Nat)
  BY DEF IsItem, IsDefinition, Optional
<1>6. ~Missing(words) /\ words # <<>>
  <2> HIDE DEF words
  <2> QED
    BY <1>1, <1>4 DEF SignedNumber, Unsigned
<1>7. words \in Seq(Word)
  BY <1>5, <1>6, ValuesType
<1> HIDE DEF words
<1>8. n \in Int /\ StandsFor(Rounded(item, a), words, item)
  BY <1>6, <1>7, Meant
<1>9. q = Judged(item, w)
  <2>1. /\ Plain(n).value = n /\ ~Plain(n).absent /\ ~Plain(n).raises
    BY <1>4 DEF Plain
  <2> HIDE DEF n
  <2> QED
    BY <1>1, <1>2, <1>3, <2>1 DEF NumberParsed
<1>10. a \in Int /\ Rounded(item, a) \in Int
  <2>1. a \in Int
    <3> HIDE DEF n
    <3> QED
      BY <1>8 DEF Adjusted
  <2> HIDE DEF a
  <2> QED
    BY <2>1, RoundedType
<1> HIDE DEF a, q
<1>11. w.value = a \/ (item.validation # None /\ w.value = item.validation.default)
  BY DEF Validated, Outcome
<1> HIDE DEF w
<1>12. w.value # None /\ q.state = Number(Rounded(item, w.value))
  <2>1. q.state = IF w.raises \/ w.value = None THEN None ELSE Number(Rounded(item, w.value))
    BY <1>9 DEF Judged, Parsed
  <2>2. q.state # None
    BY DEF q
  <2> QED
    BY <2>1, <2>2
<1>13. CASE w.value = a
  BY <1>6, <1>8, <1>10, <1>12, <1>13 DEF words, q, a
<1>14. CASE item.validation # None /\ w.value = item.validation.default
  BY <1>12, <1>14 DEF Default, q
<1> QED
  BY <1>11, <1>13, <1>14

LEMMA DeliverReadings ==
  ASSUME CInv, Deliver
  PROVE  ReadingsTrue'
<1> DEFINE d == [result |-> result', previous |-> previous']
<1>1. /\ profile' = profile /\ requests' = requests /\ seen' = seen
      /\ stage = "fetching" /\ Len(answers) = Len(requests)
      /\ \A k \in DOMAIN Items : Handled(d, Items[k], responses)
  BY DeliverFacts
<1>2. d.result = result' /\ d.previous = previous'
  OBVIOUS
<1> HIDE DEF d
<1>3. ASSUME NEW k \in DOMAIN Items, IsPlain(Items[k]), Items[k].key \in DOMAIN result',
             result'[Items[k].key].kind = "number"
      PROVE  LET item == Items[k]
                 v    == result'[item.key].val[1]
             IN \/ \E words \in Sources(item) : StandsFor(v, words, item)
                \/ Default(item) # None /\ v = Rounded(item, Default(item))
  <2> DEFINE item == Items[k]
             measure == previous[item.key]
             words == Values(responses, item.code, item.registers)
             state == try_parse(item, responses, measure).state
  <2>1. /\ IsProfile(profile) /\ responses \in Answers /\ IsItem(item)
        /\ measure \in Int \cup {None}
    BY <1>3, ProfileShape, Responding DEF CInv, CycleTyped, Measures
  <2>2. ~Same(d, item.key)
    <3> SUFFICES ASSUME Same(d, item.key) PROVE FALSE
      OBVIOUS
    <3>1. item.key \in DOMAIN result /\ result'[item.key] = result[item.key]
      BY <1>2, <1>3 DEF Same
    <3>2. result[item.key] = default_from_unit_of_measurement(item)
      BY <1>1, <3>1 DEF CInv, Due
    <3> QED
      BY <1>3, <3>1, <3>2 DEF default_from_unit_of_measurement, Blank, Nothing
  <2>3. Handled(d, item, responses)
    BY <1>1, <1>3
  <2>4. Active(item, responses) /\ state # None /\ result'[item.key] = state
    BY <1>2, <2>2, <2>3 DEF Handled
  <2>5. item.registers # None /\ item.registers # <<>>
    BY <2>4 DEF Active
  <2>6. \A v : Number(v).val[1] = v
    BY DEF Number
  <2>7. ~Missing(words) => words \in Sources(item)
    BY <1>1, <2>1, <2>5, Sourced
  <2>8. \/ /\ ~Missing(words)
           /\ \E v \in Int : state = Number(v) /\ StandsFor(v, words, item)
        \/ /\ Default(item) # None
           /\ state = Number(Rounded(item, Default(item)))
    BY <1>3, <2>1, <2>4, <2>5, PlainParsed
  <2> HIDE DEF words, state, item
  <2> QED
    BY <2>4, <2>6, <2>7, <2>8 DEF item
<1> QED
  BY <1>1, <1>3, MeaningFrame DEF ReadingsTrue, Items, Delivered, Reading

LEMMA DeliverStep ==
  ASSUME CInv, Deliver
  PROVE  CInv'
<1>1. /\ Readings(result') /\ previous' \in Measures /\ Write(result')
      /\ stage' = "delivered" /\ answers' = <<>>
      /\ UNCHANGED <<profile, device, requests, seen, grouping>>
  BY DeliverFacts
<1>2. stored' \in [Keys -> State] /\ lost' \subseteq Keys
  BY <1>1 DEF CInv, CycleTyped, Write, Readings, Fields
<1>3. CycleTyped'
  BY <1>1, <1>2 DEF CInv, CycleTyped, Readings, Measures, Keys, Items, grouping
<1>4. Grouped'
  BY <1>1, GInvFrame DEF CInv, Grouped, grouping, Deliver, Answered
<1>5. Answering' /\ Observed' /\ Asked' /\ Due'
  BY <1>1 DEF CInv, CycleTyped, Answering, Answers, Observed, Asked, Due
<1> QED
  BY <1>3, <1>4, <1>5, DeliverMeasured, DeliverUnits, DeliverValid, DeliverDue, DeliverReadings
     DEF CInv


LEMMA StutterStep ==
  ASSUME CInv, UNCHANGED vars
  PROVE  CInv'
<1> USE DEF CInv
<1>0. UNCHANGED <<profile, device, stage, result, previous, requests, answers, stored, lost,
                seen, grouping>>
  BY DEF vars, cycleVars
<1>1. CycleTyped'
  BY <1>0 DEF CycleTyped, Readings, Measures, Keys, Items, grouping
<1>2. Answering' /\ Observed' /\ Grouped' /\ Asked'
  BY <1>0, GInvFrame DEF Answering, Count, Observed, Held, Grouped, Asked, grouping, GroupingDone, RequestOf
<1>3. Due' /\ Measured' /\ UnitsAreNumbers' /\ DeliveredValid' /\ DueDelivered' /\ ReadingsTrue'
  BY <1>0, DueFrame, MeasuredFrame, UnitsFrame, DeliveredFrame DEF grouping
<1> QED
  BY <1>1, <1>2, <1>3

LEMMA CycleNext == CInv /\ [Next]_vars => CInv'
<1> SUFFICES ASSUME CInv, [Next]_vars PROVE CInv'
  OBVIOUS
<1>1. ASSUME NEW runtime \in Runtimes, Schedule(runtime) PROVE CInv'
  BY <1>1, ScheduleStep
<1>2. ASSUME NEW runtime \in Runtimes, NothingDue(runtime) PROVE CInv'
  BY <1>2, NothingDueStep
<1>3. CASE ScheduleFixed
  BY <1>3, ScheduleFixedStep
<1>4. CASE Cut
  BY <1>4, CutStep
<1>5. CASE MakeRequests
  BY <1>5, MakeRequestsStep
<1>6. CASE Fetch
  BY <1>6, FetchStep
<1>7. CASE FetchFails
  BY <1>7, FetchFailsStep
<1>8. CASE Deliver
  BY <1>8, DeliverStep
<1>9. CASE Discard
  BY <1>9, DiscardStep
<1>10. ASSUME NEW code \in DOMAIN Moving, NEW addr \in DOMAIN Moving[code],
              NEW word \in Moving[code][addr], Change(code, addr, word)
       PROVE  CInv'
  BY <1>10, ChangeStep
<1>11. CASE UNCHANGED vars
  BY <1>11, StutterStep
<1> QED
  BY <1>1, <1>2, <1>3, <1>4, <1>5, <1>6, <1>7, <1>8, <1>9, <1>10, <1>11 DEF Next

-----------------------------------------------------------------------------
(* Theorems *)

\* The invariant of a cycle holds at every moment of every profile.
THEOREM CycleInvariance == Spec => []CInv
BY CycleInit, CycleNext, PTL DEF Spec

LEMMA TypesFromCInv == CInv => TypeOK
<1> SUFFICES ASSUME CInv PROVE TypeOK
  OBVIOUS
<1>1. ASSUME NEW k \in DOMAIN answers
      PROVE  /\ Len(answers[k].values) = requests[k].end - requests[k].start + 1
             /\ ToSet(answers[k].values) \subseteq Word
  <2>1. answers \in Answers
    BY DEF CInv, Answering
  <2>2. answers[k] \in [code : Nat, start : Nat, values : Seq(Word)]
    BY <2>1, ElementOf DEF Answers
  <2>3. answers[k].values \in Seq(Word)
    BY <2>2
  <2>4. ToSet(answers[k].values) \subseteq Word
    BY <2>3, ElementOf DEF ToSet
  <2> QED
    BY <1>1, <2>4 DEF CInv, Answering, Count
<1> QED
  BY <1>1 DEF CInv, CycleTyped, Readings, Measures, TypeOK

\* The worker's variables keep their types, and every answer is as long as its request
\* (parser.py, common.py; DevicePoller's cycle of requests).
THEOREM CycleTypes == Spec => []TypeOK
BY CycleInvariance, TypesFromCInv, PTL

LEMMA CoverFromCInv == CInv => RequestsCover
<1> SUFFICES ASSUME CInv PROVE RequestsCover
  OBVIOUS
<1>1. CASE GInv
  BY <1>1, CoverFromGInv
<1>2. CASE registers = <<>> /\ groups = <<>>
  BY <1>2 DEF RequestsCover, AskedOnce, WithinLimits
<1> QED
  BY <1>1, <1>2 DEF CInv, Grouped

\* Every cycle of every profile asks for each register that is due exactly once, within
\* the profile's limits (parser.py schedule_requests, common.py group_when).
THEOREM CycleRequestsCover == Spec => []RequestsCover
BY CycleInvariance, CoverFromCInv, PTL

\* The column of a number with a unit is never a text (parser.py
\* default_from_unit_of_measurement, writer.py write_callback).
THEOREM CycleUnits == Spec => []UnitsAreNumbers
<1>1. CInv => UnitsAreNumbers
  BY DEF CInv
<1> QED
  BY <1>1, CycleInvariance, PTL

\* A number is delivered within the bounds of its rule, or as the rule's default when
\* the profile says so (parser.py do_validate).
THEOREM CycleDeliveredValid == Spec => []DeliveredValid
<1>1. CInv => DeliveredValid
  BY DEF CInv
<1> QED
  BY <1>1, CycleInvariance, PTL

\* A number that is due is in what is delivered (parser.py schedule_requests, process).
THEOREM CycleDueDelivered == Spec => []DueDelivered
<1>1. CInv => DueDelivered
  BY DEF CInv
<1> QED
  BY <1>1, CycleInvariance, PTL

\* What is delivered for a number without masks and sensors is what its registers held in
\* this cycle, whole if one request read them, up to rounding, or the default of its
\* rule, at every width, sign, scale and offset (parser.py process, _read_registers).
THEOREM CycleReadingsTrue == Spec => []ReadingsTrue
<1>1. CInv => ReadingsTrue
  BY DEF CInv
<1> QED
  BY <1>1, CycleInvariance, PTL

\* What one step may do to the values InfluxDB holds.
SpikeFree ==
  \A k \in DOMAIN Items : LET item == Items[k]
                              old  == stored[item.key]
                              new  == stored'[item.key] IN
    /\ IsNumeric(item) /\ item.validation # None /\ Default(item) = None
    /\ item.validation.dev # 0
    /\ old.kind = "number" /\ new.kind = "number" /\ item.key \notin lost
    => \/ new.val[1] = 0
       \/ Abs(new.val[1] - old.val[1]) <= item.validation.dev + Step(DigitsOf(item))

LEMMA SpikeFreeStep ==
  ASSUME CInv, [Next]_vars
  PROVE  SpikeFree
<1> SUFFICES ASSUME NEW k \in DOMAIN Items, Gauged(Items[k]),
                    stored[Items[k].key].kind = "number",
                    stored'[Items[k].key].kind = "number", Items[k].key \notin lost
             PROVE  LET old == stored[Items[k].key].val[1]
                        new == stored'[Items[k].key].val[1]
                    IN \/ new = 0
                       \/ Abs(new - old) <= Items[k].validation.dev + Step(DigitsOf(Items[k]))
  BY DEF SpikeFree, Gauged
<1> DEFINE item == Items[k]
           key == item.key
           measure == previous[key]
           step == Step(DigitsOf(item))
           old == stored[key].val[1]
           new == stored'[key].val[1]
<1>1. measure \in Int /\ old = Rounded(item, measure)
  BY DEF CInv, Measured
<1>2. /\ IsItem(item) /\ DigitsOf(item) \in Nat \cup {-1} /\ item.validation.dev \in Nat
      /\ key \in Keys /\ DOMAIN stored = Keys /\ item.validation.dev # 0
  BY ProfileShape, DigitsType, ItemRule DEF CInv, CycleTyped, Gauged, IsRule
<1>3. step \in Nat
  BY <1>2, StepType
<1>4. \A v \in Int : /\ Rounded(item, v) \in Int
                     /\ 2 * Rounded(item, v) - 2 * v <= step /\ 2 * v - 2 * Rounded(item, v) <= step
                     /\ v = 0 => Rounded(item, v) = 0
  BY <1>2, RoundingFacts DEF Rounded
<1>5. old \in Int
  BY <1>1, <1>4
<1> HIDE DEF old, new, step
<1>6. CASE stored'[key] = stored[key]
  <2>1. new = old
    BY <1>6 DEF new, old
  <2> QED
    BY <1>2, <1>3, <1>5, <2>1 DEF Abs, new, old, step
<1>7. CASE Deliver
  <2>1. Write(result')
    BY <1>7, DeliverFacts
  <2>2. CASE Conflict(result')
    <3>1. stored'[key] = stored[key]
      BY <1>2, <2>1, <2>2 DEF Write
    <3> QED
      BY <1>6, <3>1
  <2>3. CASE ~Conflict(result')
    <3>1. key \notin lost'
      BY <2>1, <2>3 DEF Write
    <3>2. CASE stored'[key] = stored[key]
      BY <1>6, <3>2
    <3>3. CASE \E value \in Int : /\ new = Rounded(item, value)
                                  /\ Allows(item, value, measure)
      <4>1. PICK value \in Int : /\ new = Rounded(item, value)
                                 /\ Allows(item, value, measure)
        BY <3>3
      <4>2. value = 0 \/ Abs(value - measure) <= item.validation.dev
        <5>1. ~(value # 0 /\ Abs(value - measure) > item.validation.dev)
          BY <1>1, <1>2, <4>1, NoneAssumption DEF Allows, Jumps
        <5> QED
          BY <1>1, <1>2, <5>1 DEF Abs
      <4>3. new \in Int /\ (value = 0 => new = 0)
        BY <1>4, <4>1
      <4>4. CASE value # 0
        <5>1. /\ 2 * new - 2 * value <= step /\ 2 * value - 2 * new <= step
              /\ 2 * old - 2 * measure <= step /\ 2 * measure - 2 * old <= step
          BY <1>1, <1>4, <4>1
        <5>2. Abs(new - old) <= item.validation.dev + step
          BY <1>1, <1>2, <1>3, <1>5, <4>2, <4>3, <4>4, <5>1 DEF Abs
        <5> QED
          BY <5>2 DEF new, old, step
      <4> QED
        BY <4>3, <4>4 DEF new
    <3> QED
      BY <1>7, <3>1, <3>2, <3>3, GaugedArrived DEF new
  <2> QED
    BY <2>2, <2>3
<1>8. Deliver \/ stored' = stored
  BY DEF Next, vars, cycleVars, Schedule, NothingDue, ScheduleFixed, Cut, MakeRequests, Fetch,
         FetchFails, Discard, Change
<1> QED
  BY <1>6, <1>7, <1>8

\* Two values stored one after the other differ by no more than the rule allows
\* (parser.py do_validate 130-134).
THEOREM CycleNoSpike == Spec => NoSpike
<1>1. CInv /\ [Next]_vars => [SpikeFree]_vars
  BY SpikeFreeStep
<1> QED
  BY <1>1, CycleInvariance, PTL DEF Spec, NoSpike, SpikeFree

=============================================================================
