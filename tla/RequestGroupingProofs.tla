-------------------------- MODULE RequestGroupingProofs --------------------------
(***************************************************************************)
(* For every ascending list of registers and all limits the requests cover *)
(* the registers, each exactly once, and keep the limits.                  *)
(***************************************************************************)
EXTENDS RequestGrouping, TLAPS

\* Neighbours in one stretch of registers have one code and no wide gap, and the
\* stretch fits into one request.
Whole(from, to) ==
  /\ \A r \in from..to : Code(registers[r]) = Code(registers[from])
  /\ limits.span > -1 =>
       \A r \in from..(to - 1) :
         Address(registers[r + 1]) - Address(registers[r]) <= limits.span
  /\ Address(registers[to]) - Address(registers[from]) < limits.size

GroupingType ==
  /\ limits \in Limits
  /\ registers \in Seq(Register) /\ Len(registers) > 0
  /\ Ascending(registers)
  /\ limits.aware \/ \A a, b \in DOMAIN registers : Code(registers[a]) = Code(registers[b])
  /\ groups \in Seq(Nat \X Nat)
  /\ i \in 1..(Len(registers) + 1) /\ x \in 1..i

\* The stretch that is still open.
OpenGroup ==
  \/ i <= Len(registers) /\ Whole(x, i)
  \/ i = Len(registers) + 1 /\ x = i

\* The groups so far: they lie before x, in order, and leave nothing out.
ClosedGroups ==
  /\ \A k \in DOMAIN groups :
       /\ 1 <= groups[k][1] /\ groups[k][1] <= groups[k][2] /\ groups[k][2] < x
       /\ Whole(groups[k][1], groups[k][2])
  /\ \A k, l \in DOMAIN groups : k < l => groups[k][2] < groups[l][1]
  /\ \A r \in 1..(x - 1) : \E k \in DOMAIN groups : groups[k][1] <= r /\ r <= groups[k][2]

GInv == GroupingType /\ OpenGroup /\ ClosedGroups

LEMMA InitGInv == GroupingInit => GInv
<1> SUFFICES ASSUME GroupingInit PROVE GInv
  OBVIOUS
<1>1. Len(registers) > 0 /\ Len(registers) \in Nat
  BY DEF GroupingInit
<1>2. GroupingType
  BY <1>1 DEF GroupingInit, GroupingType, Begun
<1>3. Whole(1, 1)
  BY <1>1 DEF GroupingInit, Whole, Limits, Register, Address
<1>4. OpenGroup /\ ClosedGroups
  BY <1>1, <1>3 DEF GroupingInit, Begun, OpenGroup, ClosedGroups
<1> QED
  BY <1>2, <1>4 DEF GInv

\* Closing the open stretch keeps the groups in order, and leaves nothing out.
LEMMA Closing ==
  ASSUME GInv, i <= Len(registers),
         groups' = Append(groups, <<x, i>>), x' = i + 1,
         UNCHANGED <<limits, registers>>
  PROVE  ClosedGroups' /\ groups' \in Seq(Nat \X Nat)
<1>1. x \in Nat /\ i \in Nat /\ 1 <= x /\ x <= i /\ groups \in Seq(Nat \X Nat)
  BY DEF GInv, GroupingType
<1>2. groups' \in Seq(Nat \X Nat)
  BY <1>1
<1> DEFINE n == Len(groups)
<1>3. /\ n \in Nat /\ DOMAIN groups = 1..n /\ DOMAIN groups' = 1..(n + 1)
      /\ \A k \in 1..n : groups'[k] = groups[k]
      /\ groups'[n + 1] = <<x, i>>
  BY <1>1
<1>4. \A k \in 1..n : groups[k][1] \in Nat /\ groups[k][2] \in Nat
  BY <1>1, <1>3
<1>5. Whole(x, i) /\ \A a, b : Whole(a, b)' <=> Whole(a, b)
  BY DEF GInv, OpenGroup, GroupingType, Whole
<1> HIDE DEF n
<1>9. \A k \in 1..n :
        /\ 1 <= groups[k][1] /\ groups[k][1] <= groups[k][2] /\ groups[k][2] < x
        /\ Whole(groups[k][1], groups[k][2])
  BY <1>3 DEF GInv, ClosedGroups
<1>10. \A k, l \in 1..n : k < l => groups[k][2] < groups[l][1]
  BY <1>3 DEF GInv, ClosedGroups
<1>11. \A r \in 1..(x - 1) : \E k \in 1..n : groups[k][1] <= r /\ r <= groups[k][2]
  BY <1>3 DEF GInv, ClosedGroups
<1>6. \A k \in 1..(n + 1) :
        /\ 1 <= groups'[k][1] /\ groups'[k][1] <= groups'[k][2] /\ groups'[k][2] < i + 1
        /\ Whole(groups'[k][1], groups'[k][2])
  <2> TAKE k \in 1..(n + 1)
  <2>1. CASE k \in 1..n
    <3>1. /\ 1 <= groups[k][1] /\ groups[k][1] <= groups[k][2] /\ groups[k][2] < x
          /\ Whole(groups[k][1], groups[k][2])
      BY <1>9, <2>1
    <3>2. groups'[k] = groups[k] /\ groups[k][2] \in Nat
      BY <1>3, <1>4, <2>1
    <3>3. groups[k][2] < i + 1
      BY <1>1, <3>1, <3>2
    <3> QED
      BY <3>1, <3>2, <3>3
  <2>2. CASE k = n + 1
    BY <1>1, <1>3, <1>5, <2>2
  <2> QED
    BY <1>3, <2>1, <2>2
<1>7. \A k, l \in 1..(n + 1) : k < l => groups'[k][2] < groups'[l][1]
  <2> SUFFICES ASSUME NEW k \in 1..(n + 1), NEW l \in 1..(n + 1), k < l
               PROVE  groups'[k][2] < groups'[l][1]
    OBVIOUS
  <2>0. k \in Nat /\ l \in Nat /\ k \in 1..n
    BY <1>3
  <2>1. CASE l \in 1..n
    <3>1. groups[k][2] < groups[l][1]
      BY <1>10, <2>0, <2>1
    <3> QED
      BY <1>3, <2>0, <2>1, <3>1
  <2>2. CASE l = n + 1
    <3>1. groups[k][2] < x /\ groups[k][2] \in Nat
      BY <1>4, <1>9, <2>0
    <3>2. groups'[k] = groups[k] /\ groups'[l][1] = x
      BY <1>3, <2>0, <2>2
    <3> QED
      BY <3>1, <3>2
  <2>3. l \in 1..n \/ l = n + 1
    BY <1>3
  <2> QED
    BY <2>1, <2>2, <2>3
<1>8. \A r \in 1..i : \E k \in 1..(n + 1) : groups'[k][1] <= r /\ r <= groups'[k][2]
  <2> TAKE r \in 1..i
  <2>1. CASE r < x
    <3>0. r \in 1..(x - 1)
      BY <1>1, <2>1
    <3>1. PICK k \in 1..n : groups[k][1] <= r /\ r <= groups[k][2]
      BY <1>11, <3>0
    <3>2. k \in 1..(n + 1) /\ groups'[k] = groups[k]
      BY <1>3, <3>1
    <3> QED
      BY <3>1, <3>2
  <2>2. CASE r >= x
    <3>1. groups'[n + 1][1] = x /\ groups'[n + 1][2] = i /\ n + 1 \in 1..(n + 1)
      BY <1>3
    <3>2. r <= i
      BY <1>1
    <3> QED
      BY <2>2, <3>1, <3>2
  <2>3. r < x \/ r >= x
    BY <1>1
  <2> QED
    BY <2>1, <2>2, <2>3
<1>12. x' = i + 1 /\ x' - 1 = i
  BY <1>1
<1> QED
  BY <1>2, <1>3, <1>5, <1>6, <1>7, <1>8, <1>12 DEF ClosedGroups

LEMMA NextGInv == GInv /\ [GroupStep \/ GroupLast]_grouping => GInv'
<1> SUFFICES ASSUME GInv, [GroupStep \/ GroupLast]_grouping PROVE GInv'
  OBVIOUS
<1> USE DEF GInv
<1>0. Len(registers) \in Nat /\ i \in Nat /\ x \in Nat /\ 1 <= x /\ x <= i
      /\ limits.size \in Nat \ {0} /\ limits.span \in Int
      /\ \A r \in 1..Len(registers) : Code(registers[r]) \in Nat /\ Address(registers[r]) \in Nat
  BY DEF GroupingType, Limits, Register, Code, Address
<1>1. CASE GroupStep /\ Parted(registers[i], registers[i + 1], registers[x])
  <2>1. /\ i < Len(registers) /\ groups' = Append(groups, <<x, i>>) /\ x' = i + 1 /\ i' = i + 1
        /\ UNCHANGED <<limits, registers>>
    BY <1>1 DEF GroupStep
  <2>2. ClosedGroups' /\ groups' \in Seq(Nat \X Nat)
    BY <1>0, <2>1, Closing
  <2>3. GroupingType'
    BY <1>0, <2>1, <2>2 DEF GroupingType
  <2>4. OpenGroup'
    BY <1>0, <2>1 DEF OpenGroup, Whole
  <2> QED
    BY <2>2, <2>3, <2>4
<1>2. CASE GroupStep /\ ~Parted(registers[i], registers[i + 1], registers[x])
  <2>1. /\ i < Len(registers) /\ i' = i + 1 /\ UNCHANGED <<limits, registers, groups, x>>
    BY <1>2 DEF GroupStep
  <2>2. GroupingType'
    BY <1>0, <2>1 DEF GroupingType
  <2>3. Whole(x, i)
    BY <1>0, <2>1 DEF OpenGroup
  <2>4. Code(registers[i + 1]) = Code(registers[i])
    BY <1>0, <1>2, <2>1 DEF Parted, GroupingType
  <2>11. i \in 1..Len(registers) /\ i + 1 \in 1..Len(registers) /\ x \in 1..Len(registers)
    BY <1>0, <2>1
  <2>12. Address(registers[i]) \in Nat /\ Address(registers[i + 1]) \in Nat
         /\ Address(registers[x]) \in Nat
    BY <1>0, <2>11
  <2>5. /\ limits.span > -1 => Address(registers[i + 1]) - Address(registers[i]) <= limits.span
        /\ Address(registers[i + 1]) - Address(registers[x]) < limits.size
    BY <1>0, <1>2, <2>12 DEF Parted
  <2>6. \A r \in x..(i + 1) : Code(registers[r]) = Code(registers[x])
    BY <1>0, <2>3, <2>4 DEF Whole
  <2>7. limits.span > -1 =>
          \A r \in x..i : Address(registers[r + 1]) - Address(registers[r]) <= limits.span
    <3> SUFFICES ASSUME limits.span > -1, NEW r \in x..i
                 PROVE  Address(registers[r + 1]) - Address(registers[r]) <= limits.span
      OBVIOUS
    <3>1. CASE r = i
      BY <2>5, <3>1
    <3>2. CASE r # i
      <4>1. r \in x..(i - 1)
        BY <1>0, <3>2
      <4> QED
        BY <2>3, <4>1 DEF Whole
    <3> QED
      BY <3>1, <3>2
  <2>8. Whole(x, i + 1)
    BY <1>0, <2>5, <2>6, <2>7 DEF Whole
  <2>9. OpenGroup'
    BY <1>0, <2>1, <2>8 DEF OpenGroup, Whole
  <2>10. ClosedGroups'
    BY <2>1 DEF ClosedGroups, Whole
  <2> QED
    BY <2>2, <2>9, <2>10
<1>3. CASE GroupLast
  <2>1. /\ i = Len(registers) /\ groups' = Append(groups, <<x, i>>) /\ x' = i + 1 /\ i' = i + 1
        /\ UNCHANGED <<limits, registers>>
    BY <1>3 DEF GroupLast
  <2>2. ClosedGroups' /\ groups' \in Seq(Nat \X Nat)
    BY <1>0, <2>1, Closing
  <2>3. GroupingType'
    BY <1>0, <2>1, <2>2 DEF GroupingType
  <2>4. OpenGroup'
    BY <1>0, <2>1 DEF OpenGroup
  <2> QED
    BY <2>2, <2>3, <2>4
<1>4. CASE UNCHANGED grouping
  BY <1>4 DEF grouping, GroupingType, OpenGroup, ClosedGroups, Whole
<1> QED
  BY <1>1, <1>2, <1>3, <1>4

\* In an ascending list what lies between two registers in one code lies between
\* their addresses, and the other way round.
LEMMA InOrder ==
  ASSUME GInv, NEW a \in 1..Len(registers), NEW b \in 1..Len(registers),
         Code(registers[a]) = Code(registers[b]),
         Address(registers[a]) <= Address(registers[b])
  PROVE  a <= b
<1>1. Code(registers[a]) \in Nat /\ Address(registers[a]) \in Nat
      /\ Code(registers[b]) \in Nat /\ Address(registers[b]) \in Nat
  BY DEF GInv, GroupingType, Register, Code, Address
<1>2. b < a => Precedes(registers[b], registers[a])
  BY DEF GInv, GroupingType, Ascending
<1> QED
  BY <1>1, <1>2 DEF Precedes

LEMMA InOrderBack ==
  ASSUME GInv, NEW a \in 1..Len(registers), NEW b \in 1..Len(registers),
         Code(registers[a]) = Code(registers[b]), a <= b
  PROVE  Address(registers[a]) <= Address(registers[b])
<1>1. Code(registers[a]) \in Nat /\ Address(registers[a]) \in Nat
      /\ Code(registers[b]) \in Nat /\ Address(registers[b]) \in Nat
  BY DEF GInv, GroupingType, Register, Code, Address
<1>2. a < b => Precedes(registers[a], registers[b])
  BY DEF GInv, GroupingType, Ascending
<1> QED
  BY <1>1, <1>2 DEF Precedes

\* A request covers exactly the registers of its group.
LEMMA CoversItsOwn ==
  ASSUME GInv, NEW k \in DOMAIN groups, NEW r \in 1..Len(registers)
  PROVE  Covers(RequestOf(groups[k]), registers[r])
           <=> groups[k][1] <= r /\ r <= groups[k][2]
<1> DEFINE from == groups[k][1]
           to == groups[k][2]
<1>1. /\ from \in Nat /\ to \in Nat /\ 1 <= from /\ from <= to /\ to < x
      /\ Whole(from, to)
  BY DEF GInv, GroupingType, ClosedGroups
<1>2. from \in 1..Len(registers) /\ to \in 1..Len(registers)
  BY <1>1 DEF GInv, GroupingType
<1> HIDE DEF from, to
<1>3. Code(registers[to]) = Code(registers[from])
  BY <1>1 DEF Whole
<1>4. Covers(RequestOf(groups[k]), registers[r]) <=>
        /\ Code(registers[r]) = Code(registers[from])
        /\ Address(registers[from]) <= Address(registers[r])
        /\ Address(registers[r]) <= Address(registers[to])
  BY DEF Covers, RequestOf, create_request, from, to
<1>5. ASSUME from <= r, r <= to PROVE Covers(RequestOf(groups[k]), registers[r])
  <2>1. Code(registers[r]) = Code(registers[from])
    BY <1>1, <1>2, <1>5 DEF Whole
  <2>2. Address(registers[from]) <= Address(registers[r])
    BY <1>2, <1>5, <2>1, InOrderBack
  <2>3. Address(registers[r]) <= Address(registers[to])
    BY <1>2, <1>3, <1>5, <2>1, InOrderBack
  <2> QED
    BY <1>4, <2>1, <2>2, <2>3
<1>6. ASSUME Covers(RequestOf(groups[k]), registers[r]) PROVE from <= r /\ r <= to
  <2>1. from <= r
    BY <1>2, <1>4, <1>6, InOrder
  <2>2. r <= to
    BY <1>2, <1>3, <1>4, <1>6, InOrder
  <2> QED
    BY <2>1, <2>2
<1> QED
  BY <1>5, <1>6 DEF from, to

LEMMA CoverFromGInv == GInv => RequestsCover
<1> SUFFICES ASSUME GInv, GroupingDone PROVE AskedOnce /\ WithinLimits
  BY DEF RequestsCover
<1>0. Len(registers) \in Nat /\ DOMAIN registers = 1..Len(registers)
      /\ DOMAIN groups = 1..Len(groups) /\ Len(groups) \in Nat
  BY DEF GInv, GroupingType
<1>1. x = Len(registers) + 1
  BY <1>0 DEF GInv, GroupingType, GroupingDone, OpenGroup
<1>2. \A k \in DOMAIN groups : groups[k][1] \in Nat /\ groups[k][2] \in Nat
  BY DEF GInv, GroupingType
<1>3. AskedOnce
  <2> SUFFICES ASSUME NEW r \in 1..Len(registers)
               PROVE  /\ \E k \in DOMAIN groups : Covers(RequestOf(groups[k]), registers[r])
                      /\ \A k, l \in DOMAIN groups :
                           Covers(RequestOf(groups[k]), registers[r])
                             /\ Covers(RequestOf(groups[l]), registers[r]) => k = l
    BY <1>0 DEF AskedOnce
  <2>1. PICK k \in DOMAIN groups : groups[k][1] <= r /\ r <= groups[k][2]
    BY <1>0, <1>1 DEF GInv, ClosedGroups
  <2>2. Covers(RequestOf(groups[k]), registers[r])
    BY <2>1, CoversItsOwn
  <2>3. ASSUME NEW m \in DOMAIN groups, NEW l \in DOMAIN groups,
               Covers(RequestOf(groups[m]), registers[r]),
               Covers(RequestOf(groups[l]), registers[r])
        PROVE  m = l
    <3>1. groups[m][1] <= r /\ r <= groups[m][2] /\ groups[l][1] <= r /\ r <= groups[l][2]
      BY <2>3, CoversItsOwn
    <3>2. ~(m < l) /\ ~(l < m)
      BY <1>2, <3>1 DEF GInv, ClosedGroups
    <3> QED
      BY <1>0, <3>2
  <2> QED
    BY <2>2, <2>3
<1>4. WithinLimits
  <2> SUFFICES ASSUME NEW k \in DOMAIN groups
               PROVE  /\ Count(RequestOf(groups[k])) \in 1..limits.size
                      /\ limits.span > -1 =>
                           \A r \in groups[k][1]..(groups[k][2] - 1) :
                             Address(registers[r + 1]) - Address(registers[r]) <= limits.span
    BY DEF WithinLimits
  <2>1. /\ 1 <= groups[k][1] /\ groups[k][1] <= groups[k][2] /\ groups[k][2] <= Len(registers)
        /\ Whole(groups[k][1], groups[k][2])
    BY <1>0, <1>1, <1>2 DEF GInv, ClosedGroups
  <2> DEFINE from == groups[k][1]
             to == groups[k][2]
  <2>2. from \in 1..Len(registers) /\ to \in 1..Len(registers)
    BY <1>0, <1>2, <2>1
  <2>3. Whole(from, to)
    BY <2>1
  <2>4. from <= to /\ from \in Nat /\ to \in Nat
    BY <1>2, <2>1
  <2>5. Count(RequestOf(groups[k])) = Address(registers[to]) - Address(registers[from]) + 1
    BY DEF Count, RequestOf, create_request
  <2> HIDE DEF from, to
  <2>6. Code(registers[from]) = Code(registers[to])
    BY <2>3, <2>4 DEF Whole
  <2>7. Address(registers[from]) <= Address(registers[to])
    BY <2>2, <2>4, <2>6, InOrderBack
  <2>10. registers[from] \in Register /\ registers[to] \in Register /\ limits \in Limits
    BY <2>2 DEF GInv, GroupingType
  <2>8. /\ Address(registers[from]) \in Nat /\ Address(registers[to]) \in Nat
        /\ limits.size \in Nat
    BY <2>10 DEF Limits, Register, Address
  <2>9. Count(RequestOf(groups[k])) \in 1..limits.size
    BY <2>3, <2>5, <2>7, <2>8 DEF Whole
  <2> QED
    BY <2>1, <2>9 DEF Whole
<1> QED
  BY <1>3, <1>4

\* What holds throughout the loop.
THEOREM GroupingInvariance == GroupingSpec => []GInv
  BY InitGInv, NextGInv, PTL DEF GroupingSpec

\* Every register that is due is read by exactly one request of the poll, with its
\* own function code, and no request exceeds max_size or reads across a wide gap.
THEOREM GroupingCovers == GroupingSpec => []RequestsCover
  BY GroupingInvariance, CoverFromGInv, PTL
=============================================================================
