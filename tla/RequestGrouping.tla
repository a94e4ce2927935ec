----------------------------- MODULE RequestGrouping -----------------------------
(***************************************************************************)
(* How the parser cuts the registers that are due into requests            *)
(* (common.py, group_when, with the predicate of ParameterParser.init).    *)
(* The loop is translated step by step so that what it yields can be       *)
(* proved for every list of registers and all limits.                      *)
(***************************************************************************)
EXTENDS Integers, Sequences, FiniteSets

VARIABLES
  limits,     \* span and size of the profile, and whether the codes differ
  registers,  \* the list: ascending pairs of function code and address
  i,          \* the register the loop is at
  x,          \* the first register of the group that is still open
  groups      \* the groups yielded so far, as the places they begin and end

grouping == <<limits, registers, i, x, groups>>

Code(r)    == r[1]
Address(r) == r[2]
Register   == Nat \X Nat
Precedes(a, b) == Code(a) < Code(b) \/ (Code(a) = Code(b) /\ Address(a) < Address(b))

\* What bisect.insort makes of registers of which none is inserted twice.
Ascending(s) == \A a, b \in DOMAIN s : a < b => Precedes(s[a], s[b])

\* Mutant: two function codes may share a group.
Parted_AnyCode(a, b, z) ==
  \/ limits.span > -1 /\ Address(b) - Address(a) > limits.span
  \/ Address(b) - Address(z) >= limits.size

\* _lambda and _lambda_code_aware: whether the group that began with z ends
\* between its neighbours a and b.
Parted(a, b, z) ==
  \/ limits.aware /\ Code(a) # Code(b)
  \/ limits.span > -1 /\ Address(b) - Address(a) > limits.span
  \/ Address(b) - Address(z) >= limits.size

Begun == i = 1 /\ x = 1 /\ groups = <<>>

GroupingDone == i > Len(registers)

\* One round of the loop.
GroupStep ==
  /\ i < Len(registers)
  /\ IF Parted(registers[i], registers[i + 1], registers[x])
     THEN groups' = Append(groups, <<x, i>>) /\ x' = i + 1
     ELSE UNCHANGED <<groups, x>>
  /\ i' = i + 1
  /\ UNCHANGED <<limits, registers>>

\* The yield after the loop.
GroupLast ==
  /\ i = Len(registers)
  /\ groups' = Append(groups, <<x, i>>)
  /\ x' = i + 1 /\ i' = i + 1
  /\ UNCHANGED <<limits, registers>>

\* create_request
create_request(code, start, end) == [code |-> code, start |-> start, end |-> end]
\* Mutant: the last register is not counted.
Count_Short(request) == request.end - request.start

Count(request) == request.end - request.start + 1
RequestOf(g) ==
  create_request(Code(registers[g[1]]), Address(registers[g[1]]), Address(registers[g[2]]))

-----------------------------------------------------------------------------
Limits == [span : {-1} \cup Nat, size : Nat \ {0}, aware : BOOLEAN]

GroupingInit ==
  /\ limits \in Limits
  /\ registers \in Seq(Register) /\ registers # <<>>
  /\ Ascending(registers)
  /\ limits.aware \/ \A a, b \in DOMAIN registers : Code(registers[a]) = Code(registers[b])
  /\ Begun
GroupingSpec == GroupingInit /\ [][GroupStep \/ GroupLast]_grouping

Covers(request, r) ==
  Code(r) = request.code /\ request.start <= Address(r) /\ Address(r) <= request.end

\* Every register that is due is asked for by exactly one request, with its own
\* function code.
AskedOnce ==
  \A r \in DOMAIN registers :
    /\ \E k \in DOMAIN groups : Covers(RequestOf(groups[k]), registers[r])
    /\ \A k, l \in DOMAIN groups :
         Covers(RequestOf(groups[k]), registers[r]) /\ Covers(RequestOf(groups[l]), registers[r])
           => k = l

\* No request is longer than max_size, and none reads across a gap of more than
\* min_span registers that nobody asked for.
WithinLimits ==
  \A k \in DOMAIN groups :
    /\ Count(RequestOf(groups[k])) \in 1..limits.size
    /\ limits.span > -1 =>
         \A r \in groups[k][1]..(groups[k][2] - 1) :
           Address(registers[r + 1]) - Address(registers[r]) <= limits.span

\* The requests of a poll read all that is due, nothing twice, and each is one
\* the device answers (common.py group_when, parser.py schedule_requests).
RequestsCover == GroupingDone => AskedOnce /\ WithinLimits
=============================================================================
