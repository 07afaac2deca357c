------------------------- MODULE RowsetFetchProofs -------------------------
(***************************************************************************)
(* Proofs about RowsetFetch: rowsets and single rows, mixed at will, never *)
(* lose a row or deliver one twice, and leave the statement in single-row  *)
(* mode.  The rows of a sequence are defined by a recursive function; that *)
(* there is such a function is proved first.                               *)
(***************************************************************************)
EXTENDS RowsetFetch, WellFoundedInduction, TLAPS

-----------------------------------------------------------------------------
(* Induction over the natural numbers *)

Less == OpToRel(<, Nat)

LEMMA LessPairs == \A x, y \in Nat : <<x, y>> \in Less <=> x < y
BY DEF Less, OpToRel

\* A set with 0 and, with each number, the next one has them all.
LEMMA Induction ==
  ASSUME NEW T, 0 \in T, \A n \in Nat : n \in T => n + 1 \in T
  PROVE  \A n \in Nat : n \in T
<1> DEFINE Missing == {n \in Nat : n \notin T}
<1> SUFFICES ASSUME Missing # {} PROVE FALSE
  OBVIOUS
<1>1. IsWellFoundedOn(Less, Nat)
  BY NatLessThanWellFounded DEF Less
<1>2. PICK x \in Missing : \A y \in Missing : ~ (<<y, x>> \in Less)
  <2>1. Missing \subseteq Nat
    OBVIOUS
  <2> HIDE DEF Missing
  <2> QED
    BY <1>1, <2>1, WFMin
<1>3. x \in Nat /\ x # 0 /\ x - 1 \in Nat /\ x - 1 < x
  OBVIOUS
<1>4. x - 1 \in T
  BY <1>2, <1>3, LessPairs
<1>5. (x - 1) + 1 = x
  BY <1>3
<1> QED
  BY <1>3, <1>4, <1>5

-----------------------------------------------------------------------------
(* Sequences of rows *)

\* One more row: it is skipped, or it comes at the end.
OneMore(rows, r, a, skipped) ==
  IF r <= a THEN <<>> ELSE IF r \in skipped THEN rows ELSE Append(rows, r)

\* f is as RowsBetween has it, up to n.
AsDefined(f, n, a, skipped) ==
  \A r \in 0 .. n : f[r] = OneMore(f[r - 1], r, a, skipped)

LEMMA FirstRow ==
  ASSUME NEW a \in Nat, NEW skipped, NEW rows
  PROVE  OneMore(rows, 0, a, skipped) = <<>>
BY DEF OneMore

LEMMA DefinedUpTo ==
  ASSUME NEW a \in Nat, NEW skipped
  PROVE  \A n \in Nat : \E f : AsDefined(f, n, a, skipped)
<1> DEFINE T == {n \in Nat : \E f : AsDefined(f, n, a, skipped)}
<1>1. 0 \in T
  <2> DEFINE f == [r \in 0 .. 0 |-> <<>>]
  <2>1. AsDefined(f, 0, a, skipped)
    BY FirstRow DEF AsDefined
  <2> QED
    BY <2>1
<1>2. ASSUME NEW n \in Nat, n \in T PROVE n + 1 \in T
  <2>1. PICK g : AsDefined(g, n, a, skipped)
    BY <1>2
  <2> DEFINE f == [r \in 0 .. n + 1 |->
                     IF r = n + 1 THEN OneMore(g[n], n + 1, a, skipped) ELSE g[r]]
  <2>2. \A r \in 0 .. n : f[r] = g[r]
    OBVIOUS
  <2>3. f[n + 1] = OneMore(g[n], n + 1, a, skipped)
    OBVIOUS
  <2> HIDE DEF f
  <2>4. ASSUME NEW r \in 0 .. n + 1 PROVE f[r] = OneMore(f[r - 1], r, a, skipped)
    <3>1. CASE r = n + 1
      <4>1. r - 1 = n /\ n \in 0 .. n
        BY <3>1
      <4> QED
        BY <2>2, <2>3, <3>1, <4>1
    <3>2. CASE r = 0
      <4>1. 0 \in 0 .. n
        OBVIOUS
      <4>2. f[0] = <<>>
        BY <2>1, <2>2, <4>1, FirstRow DEF AsDefined
      <4> QED
        BY <3>2, <4>2, FirstRow
    <3>3. CASE r \in 1 .. n
      <4>1. r \in 0 .. n /\ r - 1 \in 0 .. n
        BY <3>3
      <4>2. g[r] = OneMore(g[r - 1], r, a, skipped)
        BY <2>1, <4>1 DEF AsDefined
      <4> QED
        BY <2>2, <4>1, <4>2
    <3> QED
      BY <3>1, <3>2, <3>3
  <2>5. AsDefined(f, n + 1, a, skipped)
    BY <2>4 DEF AsDefined
  <2> QED
    BY <2>5
<1> HIDE DEF T
<1>3. \A n \in Nat : n \in T
  BY <1>1, <1>2, Induction
<1> QED
  BY <1>3 DEF T

LEMMA DefinedOnce ==
  ASSUME NEW a \in Nat, NEW skipped, NEW n \in Nat, NEW m \in Nat, n <= m,
         NEW f, NEW g, AsDefined(f, n, a, skipped), AsDefined(g, m, a, skipped)
  PROVE  f[n] = g[n]
<1> DEFINE T == {k \in Nat : k <= n => f[k] = g[k]}
<1>1. 0 \in T
  <2>1. 0 \in 0 .. n /\ 0 \in 0 .. m
    OBVIOUS
  <2> QED
    BY <2>1, FirstRow DEF AsDefined
<1>2. ASSUME NEW k \in Nat, k \in T PROVE k + 1 \in T
  <2> SUFFICES ASSUME k + 1 <= n PROVE f[k + 1] = g[k + 1]
    OBVIOUS
  <2>1. /\ k + 1 \in 0 .. n /\ k + 1 \in 0 .. m /\ (k + 1) - 1 = k
        /\ f[k] = g[k]
    BY <1>2
  <2>2. /\ f[k + 1] = OneMore(f[(k + 1) - 1], k + 1, a, skipped)
        /\ g[k + 1] = OneMore(g[(k + 1) - 1], k + 1, a, skipped)
    BY <2>1 DEF AsDefined
  <2> QED
    BY <2>1, <2>2
<1> HIDE DEF T
<1>3. n \in T
  BY <1>1, <1>2, Induction
<1> QED
  BY <1>3 DEF T
\* The equation of RowsBetween, and that it has a solution.
Solves(f, a, skipped) ==
  f = [r \in Nat |-> IF r <= a THEN <<>>
                     ELSE IF r \in skipped THEN f[r - 1]
                     ELSE Append(f[r - 1], r)]

LEMMA Recursion ==
  ASSUME NEW a \in Nat, NEW skipped
  PROVE  \E f : Solves(f, a, skipped)
<1> DEFINE Upto(n) == CHOOSE g : AsDefined(g, n, a, skipped)
           f == [r \in Nat |-> Upto(r)[r]]
<1>1. ASSUME NEW r \in Nat PROVE AsDefined(Upto(r), r, a, skipped)
  BY DefinedUpTo
<1>2. ASSUME NEW r \in Nat PROVE f[r] = OneMore(f[r - 1], r, a, skipped)
  <2>1. f[r] = Upto(r)[r] /\ r \in 0 .. r
    OBVIOUS
  <2>2. Upto(r)[r] = OneMore(Upto(r)[r - 1], r, a, skipped)
    BY <1>1, <2>1 DEF AsDefined
  <2>3. CASE r = 0
    <3>1. Upto(r)[r] = <<>> /\ OneMore(f[r - 1], r, a, skipped) = <<>>
      BY <2>2, <2>3, FirstRow
    <3> QED
      BY <2>1, <3>1
  <2>4. CASE r # 0
    <3>1. r - 1 \in Nat /\ r - 1 <= r
      BY <2>4
    <3>2. f[r - 1] = Upto(r - 1)[r - 1]
      BY <3>1
    <3>3. AsDefined(Upto(r - 1), r - 1, a, skipped) /\ AsDefined(Upto(r), r, a, skipped)
      BY <1>1, <3>1
    <3> HIDE DEF Upto, f
    <3>4. Upto(r - 1)[r - 1] = Upto(r)[r - 1]
      BY <3>1, <3>3, DefinedOnce
    <3> QED
      BY <2>1, <2>2, <3>2, <3>4
  <2> QED
    BY <2>3, <2>4
<1>3. f = [r \in Nat |-> f[r]]
  OBVIOUS
<1> HIDE DEF f
<1>4. Solves(f, a, skipped)
  <2>1. \A r \in Nat : f[r] = IF r <= a THEN <<>>
                              ELSE IF r \in skipped THEN f[r - 1]
                              ELSE Append(f[r - 1], r)
    BY <1>2 DEF OneMore
  <2> QED
    BY <1>3, <2>1 DEF Solves
<1> QED
  BY <1>4

\* What RowsBetween computes, row by row.
LEMMA RowByRow ==
  ASSUME NEW a \in Nat, NEW skipped, NEW b \in Nat
  PROVE  /\ b <= a => RowsBetween(a, b, skipped) = <<>>
         /\ RowsBetween(a, b + 1, skipped) =
              OneMore(RowsBetween(a, b, skipped), b + 1, a, skipped)
<1> DEFINE Up == CHOOSE f : Solves(f, a, skipped)
<1>1. \A n : RowsBetween(a, n, skipped) = Up[n]
  BY DEF RowsBetween, Solves
<1>2. Solves(Up, a, skipped)
  BY Recursion
<1> HIDE DEF Up
<1>3. \A r \in Nat : Up[r] = OneMore(Up[r - 1], r, a, skipped)
  BY <1>2 DEF OneMore, Solves
<1>4. Up[b + 1] = OneMore(Up[b], b + 1, a, skipped)
  <2>1. b + 1 \in Nat /\ (b + 1) - 1 = b
    OBVIOUS
  <2> QED
    BY <1>3, <2>1
<1>5. b <= a => Up[b] = <<>>
  BY <1>3 DEF OneMore
<1> QED
  BY <1>1, <1>4, <1>5
\* The rows are among those up to c, at most one for each number.
LEMMA RowsType ==
  ASSUME NEW a \in Nat, NEW skipped, NEW c \in Nat
  PROVE  \A b \in Nat : b <= c =>
           /\ RowsBetween(a, b, skipped) \in Seq(1 .. c)
           /\ a <= b => Len(RowsBetween(a, b, skipped)) <= b - a
<1> DEFINE T == {b \in Nat : b <= c =>
                   /\ RowsBetween(a, b, skipped) \in Seq(1 .. c)
                   /\ a <= b => Len(RowsBetween(a, b, skipped)) <= b - a}
<1>e. <<>> \in Seq(1 .. c) /\ Len(<<>>) = 0
  OBVIOUS
<1>1. 0 \in T
  <2>1. RowsBetween(a, 0, skipped) = <<>>
    BY RowByRow
  <2>2. RowsBetween(a, 0, skipped) \in Seq(1 .. c) /\ Len(RowsBetween(a, 0, skipped)) = 0
    BY <1>e, <2>1
  <2>3. a <= 0 => 0 <= 0 - a
    OBVIOUS
  <2> QED
    BY <2>2, <2>3
<1>2. ASSUME NEW b \in Nat, b \in T PROVE b + 1 \in T
  <2> SUFFICES ASSUME b + 1 <= c
               PROVE  /\ RowsBetween(a, b + 1, skipped) \in Seq(1 .. c)
                      /\ a <= b + 1 =>
                           Len(RowsBetween(a, b + 1, skipped)) <= (b + 1) - a
    OBVIOUS
  <2> DEFINE rows == RowsBetween(a, b, skipped)
  <2>1. /\ rows \in Seq(1 .. c) /\ (a <= b => Len(rows) <= b - a)
        /\ b + 1 \in 1 .. c
    BY <1>2
  <2>2. RowsBetween(a, b + 1, skipped) = OneMore(rows, b + 1, a, skipped)
    BY RowByRow
  <2> HIDE DEF rows
  <2>3. CASE b + 1 <= a
    <3>1. RowsBetween(a, b + 1, skipped) = <<>>
      BY <2>2, <2>3 DEF OneMore
    <3>2. /\ RowsBetween(a, b + 1, skipped) \in Seq(1 .. c)
          /\ Len(RowsBetween(a, b + 1, skipped)) = 0
      BY <1>e, <3>1
    <3>3. a <= b + 1 => 0 <= (b + 1) - a
      OBVIOUS
    <3> QED
      BY <3>2, <3>3
  <2>4. CASE ~ (b + 1 <= a) /\ b + 1 \in skipped
    <3>1. RowsBetween(a, b + 1, skipped) = rows
      BY <2>2, <2>4 DEF OneMore
    <3>2. Len(rows) \in Nat /\ Len(rows) <= b - a
      BY <2>1, <2>4
    <3> QED
      BY <2>1, <3>1, <3>2
  <2>5. CASE ~ (b + 1 <= a) /\ b + 1 \notin skipped
    <3>1. RowsBetween(a, b + 1, skipped) = Append(rows, b + 1)
      BY <2>2, <2>5 DEF OneMore
    <3>2. Len(rows) \in Nat /\ Len(rows) <= b - a
      BY <2>1, <2>5
    <3>3. Append(rows, b + 1) \in Seq(1 .. c) /\ Len(Append(rows, b + 1)) = Len(rows) + 1
      BY <2>1
    <3>4. a <= b + 1 => Len(rows) + 1 <= (b + 1) - a
      BY <3>2
    <3>5. Len(RowsBetween(a, b + 1, skipped)) = Len(rows) + 1
      BY <3>1, <3>3
    <3> QED
      BY <3>1, <3>3, <3>4, <3>5
  <2> QED
    BY <2>3, <2>4, <2>5
<1> HIDE DEF T
<1>3. \A b \in Nat : b \in T
  BY <1>1, <1>2, Induction
<1> QED
  BY <1>3 DEF T

LEMMA Wider ==
  ASSUME NEW S, NEW T, S \subseteq T, NEW s \in Seq(S)
  PROVE  s \in Seq(T)
OBVIOUS

LEMMA Joined ==
  ASSUME NEW S, NEW s \in Seq(S), NEW t \in Seq(S)
  PROVE  /\ s \o t \in Seq(S) /\ Len(s \o t) = Len(s) + Len(t)
         /\ Len(s) \in Nat /\ Len(t) \in Nat /\ Len(s \o t) \in Nat
OBVIOUS

LEMMA AppendOne ==
  ASSUME NEW S, NEW s \in Seq(S), NEW x \in S
  PROVE  Append(s, x) = s \o <<x>>
OBVIOUS

LEMMA Prefix ==
  ASSUME NEW S, NEW s \in Seq(S), NEW k \in 0 .. Len(s)
  PROVE  SubSeq(s, 1, k) \in Seq(S) /\ Len(SubSeq(s, 1, k)) = k
         /\ (k = Len(s) => SubSeq(s, 1, k) = s)
<1>1. SubSeq(s, 1, k) \in Seq(S) /\ Len(SubSeq(s, 1, k)) = k
  OBVIOUS
<1>2. k = Len(s) => SubSeq(s, 1, k) = s
  OBVIOUS
<1> QED
  BY <1>1, <1>2

LEMMA AppendJoin ==
  ASSUME NEW s \in Seq(Nat), NEW t \in Seq(Nat), NEW x \in Nat
  PROVE  s \o Append(t, x) = Append(s \o t, x)
OBVIOUS

\* The rows of two stretches that follow each other.
LEMMA RowsJoin ==
  ASSUME NEW a \in Nat, NEW b \in Nat, a <= b, NEW skipped
  PROVE  \A c \in Nat : b <= c =>
           RowsBetween(a, b, skipped) \o RowsBetween(b, c, skipped)
             = RowsBetween(a, c, skipped)
<1> DEFINE left == RowsBetween(a, b, skipped)
           T == {c \in Nat : b <= c =>
                   left \o RowsBetween(b, c, skipped) = RowsBetween(a, c, skipped)}
<1>l. left \in Seq(Nat)
  <2>1. left \in Seq(1 .. b)
    BY RowsType
  <2> QED
    BY <2>1
<1>b. left \o RowsBetween(b, b, skipped) = RowsBetween(a, b, skipped)
  <2>1. RowsBetween(b, b, skipped) = <<>>
    BY RowByRow
  <2>2. left \o <<>> = left
    BY <1>l
  <2> QED
    BY <2>1, <2>2
<1>1. 0 \in T
  BY <1>b
<1>2. ASSUME NEW c \in Nat, c \in T PROVE c + 1 \in T
  <2> SUFFICES ASSUME b <= c + 1
               PROVE  left \o RowsBetween(b, c + 1, skipped)
                        = RowsBetween(a, c + 1, skipped)
    OBVIOUS
  <2>1. CASE b = c + 1
    BY <1>b, <2>1
  <2>2. CASE b <= c
    <3> DEFINE right == RowsBetween(b, c, skipped)
               all == RowsBetween(a, c, skipped)
    <3>1. left \o right = all
      BY <1>2, <2>2
    <3>2. right \in Seq(Nat)
      <4>1. right \in Seq(1 .. c)
        BY RowsType
      <4> QED
        BY <4>1
    <3>3. /\ RowsBetween(b, c + 1, skipped) = OneMore(right, c + 1, b, skipped)
          /\ RowsBetween(a, c + 1, skipped) = OneMore(all, c + 1, a, skipped)
      BY RowByRow
    <3>4. ~ (c + 1 <= b) /\ ~ (c + 1 <= a) /\ c + 1 \in Nat
      BY <2>2
    <3> HIDE DEF left, right, all
    <3>5. CASE c + 1 \in skipped
      BY <3>1, <3>3, <3>4, <3>5 DEF OneMore
    <3>6. CASE c + 1 \notin skipped
      <4>1. /\ RowsBetween(b, c + 1, skipped) = Append(right, c + 1)
            /\ RowsBetween(a, c + 1, skipped) = Append(all, c + 1)
        BY <3>3, <3>4, <3>6 DEF OneMore
      <4>2. left \o Append(right, c + 1) = Append(left \o right, c + 1)
        BY <1>l, <3>2, <3>4, AppendJoin
      <4> QED
        BY <3>1, <4>1, <4>2
    <3> QED
      BY <3>5, <3>6
  <2> QED
    BY <2>1, <2>2
<1> HIDE DEF T
<1>3. \A c \in Nat : c \in T
  BY <1>1, <1>2, Induction
<1> QED
  BY <1>3 DEF T
-----------------------------------------------------------------------------
(* Calls and rowsets *)

CallRecords == [max : Nat, array : Nat, from : 0 .. N, got : Seq(1 .. N)]
ResultRecords == [rows : Seq(0 .. N), error : BOOLEAN]
Buffers == {"none", "single", "half", "rowset", "freed"}

LEMMA Types ==
  ASSUME TypeOK
  PROVE  /\ lob \in BOOLEAN /\ open \in BOOLEAN /\ row_data \in BOOLEAN
         /\ pos \in 0 .. N /\ pos \in Nat /\ N \in Nat
         /\ array_size \in Nat \ {0}
         /\ bound \in Buffers
         /\ rowset_size \in Nat
         /\ call \in CallRecords /\ call.max \in Nat /\ call.array \in Nat
         /\ call.from \in 0 .. N /\ call.got \in Seq(1 .. N)
         /\ result \in ResultRecords
BY ConstantsAssumption DEF TypeOK, CallRecords, ResultRecords, Buffers

LEMMA RestTypes ==
  /\ NoCall \in CallRecords
  /\ Nothing \in ResultRecords /\ Failed \in ResultRecords
  /\ \A rows \in Seq(0 .. N) : Returned(rows) \in ResultRecords
BY ConstantsAssumption
   DEF NoCall, CallRecords, Nothing, Failed, Returned, ResultRecords

LEMMA LesserFacts ==
  ASSUME NEW a \in Nat, NEW b \in Nat
  PROVE  Lesser(a, b) \in {a, b} /\ Lesser(a, b) <= a /\ Lesser(a, b) <= b
BY DEF Lesser

\* A call for rows asks for at least one, and for one only with LOB columns.
LEMMA ArraySizes ==
  ASSUME TypeOK, NEW max \in Nat
  PROVE  ArraySize(max) \in Nat \ {0} /\ (lob => ArraySize(max) = 1)
<1> DEFINE wanted == IF rowset_size > 0 THEN rowset_size ELSE Default
           useful == IF max > 0 THEN Lesser(max, wanted) ELSE wanted
           room   == IF SafeMax < 1 THEN 1 ELSE SafeMax
<1>1. wanted \in Nat \ {0} /\ room \in Nat \ {0}
  BY Types, ConstantsAssumption
<1>2. useful \in Nat \ {0}
  BY <1>1, LesserFacts
<1>3. Lesser(useful, room) \in Nat \ {0}
  <2> HIDE DEF useful, room
  <2> QED
    BY <1>1, <1>2, LesserFacts
<1>4. ArraySize(max) = IF lob THEN 1 ELSE Lesser(useful, room)
  BY DEF ArraySize
<1> HIDE DEF useful, room
<1> QED
  BY <1>3, <1>4

\* A fetch goes forward, by the array size or to the end.
LEMMA LastOfFacts ==
  ASSUME TypeOK, NEW size \in Nat \ {0}
  PROVE  /\ LastOf(size) \in pos .. N /\ LastOf(size) \in Nat
         /\ LastOf(size) \in 0 .. N
         /\ LastOf(size) - pos <= size
         /\ NoData(size) => pos = N
         /\ ~NoData(size) => pos + 1 \in 1 .. N /\ pos + 1 <= LastOf(size)
         /\ size = 1 /\ ~NoData(size) => LastOf(size) = pos + 1
BY Types DEF LastOf, NoData, Lesser

LEMMA EffectiveFacts ==
  ASSUME FetchInv, ~Idle
  PROVE  /\ EffectiveSize \in Nat \ {0}
         /\ lob => EffectiveSize = array_size
         /\ ~lob /\ call.max > 0 /\ array_size <= call.array =>
              EffectiveSize <= call.max - Len(call.got)
         /\ array_size <= call.array => EffectiveSize <= call.array
<1>1. /\ lob \in BOOLEAN /\ array_size \in Nat \ {0} /\ Len(call.got) \in Nat
      /\ call.max \in Nat /\ call.array \in Nat
  BY Types DEF FetchInv
<1>2. call.array > 0 /\ (call.max > 0 => Len(call.got) < call.max)
  BY DEF FetchInv, LoopOK
<1> DEFINE remaining == call.max - Len(call.got)
<1>3. remaining \in Int /\ (call.max > 0 => remaining \in Nat \ {0})
  BY <1>1, <1>2
<1>4. EffectiveSize = IF ~lob /\ call.max > 0 /\ remaining < call.array
                      THEN remaining ELSE array_size
  BY DEF EffectiveSize
<1> HIDE DEF remaining
<1>5. ~lob /\ call.max > 0 /\ array_size <= call.array => EffectiveSize <= remaining
  BY <1>1, <1>3, <1>4
<1> QED
  BY <1>1, <1>3, <1>4, <1>5 DEF remaining

\* The CLI has the size that the loop sets, or the one it had.
LEMMA FetchSizeFacts ==
  ASSUME FetchInv, ~Idle, NEW size \in FetchSizes
  PROVE  /\ size \in Nat \ {0}
         /\ lob => size = array_size
         /\ array_size <= call.array => size <= call.array
         /\ "resize" \notin Faults => size = EffectiveSize
<1>1. size = EffectiveSize \/ (size = array_size /\ "resize" \in Faults)
  BY DEF FetchSizes, Fallible
<1>2. array_size \in Nat \ {0}
  BY Types DEF FetchInv
<1> QED
  BY <1>1, <1>2, EffectiveFacts

\* What the loop reads is appended, and never more than what was asked for.
LEMMA AppendedFacts ==
  ASSUME FetchInv, ~Idle, NEW size \in Nat \ {0}, ~NoData(size)
  PROVE  /\ Appended(size) \in Seq(1 .. N)
         /\ lob => call.got \o <<pos + 1>> \in Seq(1 .. N)
<1> DEFINE good == IF lob THEN <<pos + 1>>
                   ELSE RowsBetween(pos, LastOf(size), Bad \cup Gone)
           all  == call.got \o good
<1>t. TypeOK
  BY DEF FetchInv
<1>1. /\ size \in Nat \ {0} /\ pos \in Nat /\ N \in Nat
      /\ call.got \in Seq(1 .. N) /\ call.max \in Nat
  BY <1>t, Types
<1>2. LastOf(size) \in Nat /\ LastOf(size) <= N /\ pos + 1 \in 1 .. N
  BY <1>t, <1>1, LastOfFacts
<1>3. RowsBetween(pos, LastOf(size), Bad \cup Gone) \in Seq(1 .. N)
  BY <1>1, <1>2, RowsType
<1>4. <<pos + 1>> \in Seq(1 .. N)
  BY <1>2
<1>5. good \in Seq(1 .. N)
  BY <1>3, <1>4
<1> HIDE DEF good
<1>6. all \in Seq(1 .. N) /\ Len(all) \in Nat
  BY <1>1, <1>5
<1>7. Appended(size) = IF call.max > 0 THEN SubSeq(all, 1, Lesser(call.max, Len(all))) ELSE all
  BY DEF Appended, good
<1> HIDE DEF all
<1>8. SubSeq(all, 1, Lesser(call.max, Len(all))) \in Seq(1 .. N)
  <2> DEFINE k == Lesser(call.max, Len(all))
  <2>1. k \in 0 .. Len(all)
    BY <1>1, <1>6, LesserFacts
  <2> HIDE DEF k
  <2>2. SubSeq(all, 1, k) \in Seq(1 .. N)
    BY <1>6, <2>1, Prefix
  <2> QED
    BY <2>2 DEF k
<1>9. call.got \o <<pos + 1>> \in Seq(1 .. N)
  BY <1>1, <1>4
<1> QED
  BY <1>6, <1>7, <1>8, <1>9
\* A call that has been given up or is over leaves nothing behind.
LEMMA CleanupStep ==
  ASSUME FetchInv, NEW size \in Nat \ {0}, NEW answer \in ResultRecords,
         Cleanup(size, answer), pos' \in 0 .. N
  PROVE  FetchInv'
<1>1. call' = NoCall /\ result' = answer
  BY DEF Cleanup
<1>t. TypeOK
  BY DEF FetchInv
<1>2. TypeOK'
  <2>1. call' \in CallRecords /\ result' \in ResultRecords
    BY <1>1, RestTypes
  <2>2. /\ lob' = lob /\ open' = open /\ rowset_size' = rowset_size
        /\ bound' \in {"none", "rowset"} /\ row_data' = FALSE
        /\ array_size' \in {1, size}
    BY DEF Cleanup, Fallible
  <2>3. array_size' \in Nat \ {0} /\ bound' \in Buffers
    BY <2>2 DEF Buffers
  <2> QED
    BY <1>t, <2>1, <2>2, <2>3, Types DEF TypeOK, CallRecords, ResultRecords, Buffers
<1>3. LoopOK'
  BY <1>1 DEF LoopOK, Idle
<1> QED
  BY <1>2, <1>3 DEF FetchInv

\* Rows that have been collected are an answer.
LEMMA RowsAnswer ==
  ASSUME NEW rows \in Seq(1 .. N)
  PROVE  Returned(rows) \in ResultRecords
<1>1. rows \in Seq(0 .. N)
  <2>1. 1 .. N \subseteq 0 .. N
    BY ConstantsAssumption
  <2> QED
    BY <2>1, Wider
<1> QED
  BY <1>1, RestTypes

LEMMA BeginStep ==
  ASSUME FetchInv, Idle, NEW max \in Nat, RowsetBegin(max)
  PROVE  FetchInv' /\ call' # NoCall
<1>t. TypeOK
  BY DEF FetchInv
<1> DEFINE size == ArraySize(max)
<1>1. size \in Nat \ {0}
  BY <1>t, ArraySizes
<1>2. /\ call' = [max |-> max, array |-> size, from |-> pos, got |-> <<>>]
      /\ array_size' = (IF lob THEN array_size ELSE size)
      /\ bound' = "rowset"
      /\ UNCHANGED <<lob, open, pos, row_data, rowset_size, result>>
  BY DEF RowsetBegin
<1> HIDE DEF size
<1>3. call' \in CallRecords /\ array_size' \in Nat \ {0}
  BY <1>1, <1>2, <1>t, Types DEF CallRecords
<1>4. TypeOK'
  BY <1>2, <1>3, <1>t, Types DEF TypeOK, CallRecords, ResultRecords, Buffers
<1>5. call'.array = size /\ Len(call'.got) = 0 /\ call'.max = max
  BY <1>2
<1>6. LoopOK'
  BY <1>1, <1>5 DEF LoopOK
<1>7. call' # NoCall
  BY <1>1, <1>2 DEF NoCall
<1> QED
  BY <1>4, <1>6, <1>7 DEF FetchInv

\* The loop that goes on has rows left to ask for.
LEMMA ReadStep ==
  ASSUME FetchInv, ~Idle, NEW size \in FetchSizes, RowsetRead(size)
  PROVE  FetchInv'
<1>1. ~NoData(size) /\ pos' = LastOf(size)
  BY DEF RowsetRead
<1>t. TypeOK /\ size \in Nat \ {0}
  BY FetchSizeFacts DEF FetchInv
<1>2. pos' \in 0 .. N
  BY <1>1, <1>t, LastOfFacts
<1>3. Appended(size) \in Seq(1 .. N)
  BY <1>t, <1>1, AppendedFacts
<1>4. CASE call.max > 0 /\ Len(Appended(size)) >= call.max
  <2>1. Cleanup(size, Returned(Appended(size)))
    BY <1>4 DEF RowsetRead
  <2> QED
    BY <1>t, <1>2, <1>3, <2>1, RowsAnswer, CleanupStep
<1>5. CASE ~ (call.max > 0 /\ Len(Appended(size)) >= call.max)
  <2>1. /\ call' = [call EXCEPT !.got = Appended(size)]
        /\ array_size' = size
        /\ UNCHANGED <<lob, open, bound, row_data, rowset_size, result>>
    BY <1>5 DEF RowsetRead
  <2> DEFINE rows == Appended(size)
  <2>2. rows \in Seq(1 .. N) /\ Len(rows) \in Nat /\ call' = [call EXCEPT !.got = rows]
        /\ (call.max > 0 => Len(rows) < call.max)
    BY <1>3, <1>5, <1>t, <2>1, Types
  <2> HIDE DEF rows
  <2>3. /\ call' \in CallRecords /\ call'.got = rows /\ call'.max = call.max
        /\ call'.array = call.array
    BY <1>t, <2>2, Types DEF CallRecords
  <2>4. TypeOK'
    BY <1>2, <1>t, <2>1, <2>3, Types DEF TypeOK, CallRecords, ResultRecords, Buffers
  <2>5. LoopOK'
    BY <1>1, <2>2, <2>3 DEF FetchInv, LoopOK
  <2> QED
    BY <2>4, <2>5 DEF FetchInv
<1> QED
  BY <1>4, <1>5

\* The calls between which nothing is collected.
LEMMA IdleStep ==
  ASSUME FetchInv, Idle, UNCHANGED <<lob, call>>,
         open' \in BOOLEAN, row_data' \in BOOLEAN, pos' \in 0 .. N,
         array_size' \in Nat \ {0}, bound' \in Buffers,
         rowset_size' \in Nat, result' \in ResultRecords
  PROVE  FetchInv'
<1>1. TypeOK'
  BY Types DEF FetchInv, TypeOK, CallRecords, ResultRecords, Buffers
<1>2. LoopOK'
  BY DEF LoopOK, Idle
<1> QED
  BY <1>1, <1>2 DEF FetchInv

\* SQLFetch: the answer is a row, nothing or an error.
LEMMA NextRead ==
  ASSUME FetchInv, NEW row \in {0, pos + 1}, ReadNext(row)
  PROVE  pos' \in 0 .. N /\ result' \in ResultRecords
<1>t. TypeOK
  BY DEF FetchInv
<1>1. pos' \in 0 .. N
  BY <1>t, Types, LastOfFacts DEF ReadNext
<1>2. ~NoData(array_size) => <<row>> \in Seq(0 .. N)
  <2>1. ~NoData(array_size) => row \in 0 .. N
    BY <1>t, Types, LastOfFacts
  <2> QED
    BY <2>1
<1>3. result' \in ResultRecords
  BY <1>2, RestTypes DEF ReadNext
<1> QED
  BY <1>1, <1>3

LEMMA PositionRead ==
  ASSUME FetchInv, NEW r \in 1 .. N + 1, NEW row \in {0, r},
         ReadPosition(r, row)
  PROVE  pos' \in 0 .. N /\ result' \in ResultRecords
<1>0. N \in Nat
  BY ConstantsAssumption
<1>t. TypeOK
  BY DEF FetchInv
<1>1. pos' \in 0 .. N
  BY <1>t, Types DEF ReadPosition, Lesser
<1>2. CASE r > N
  <2>1. result' = Nothing
    BY <1>2 DEF ReadPosition
  <2> QED
    BY <1>1, <2>1, RestTypes
<1>3. CASE ~ (r > N)
  <2>1. <<row>> \in Seq(0 .. N)
    <3>1. row \in 0 .. N
      BY <1>0, <1>3
    <3> QED
      BY <3>1
  <2> QED
    BY <1>1, <1>3, <2>1, RestTypes DEF ReadPosition
<1> QED
  BY <1>1, <1>2, <1>3
\* The calls for one row, and those that fetch nothing.
LEMMA OneRowStep ==
  ASSUME FetchInv,
         \/ FetchOne \/ FetchRow
         \/ \E r \in 1 .. N + 1 :
              FetchPosition(r) \/ FetchTuplePosition(r) \/ FetchRowPosition(r)
  PROVE  FetchInv'
<1>t. TypeOK
  BY DEF FetchInv
<1>1. Idle /\ UNCHANGED <<lob, open, array_size, rowset_size, call>>
  BY DEF FetchOne, FetchRow, FetchPosition, FetchTuplePosition, FetchRowPosition,
         Calling, BindSingle
<1>2. row_data' \in BOOLEAN /\ bound' \in Buffers
  <2>1. ASSUME BindSingle PROVE row_data' \in BOOLEAN /\ bound' \in Buffers
    BY <1>t, <2>1, Types DEF BindSingle, Fallible, Unfinished, Buffers
  <2>2. ASSUME UNCHANGED <<bound, row_data>>
        PROVE  row_data' \in BOOLEAN /\ bound' \in Buffers
    BY <1>t, <2>2, Types
  <2> QED
    BY <2>1, <2>2 DEF FetchOne, FetchRow, FetchPosition, FetchTuplePosition,
                      FetchRowPosition
<1>3. ASSUME NEW row \in {0, pos + 1}, ReadNext(row)
      PROVE  pos' \in 0 .. N /\ result' \in ResultRecords
  BY <1>t, <1>3, Types, NextRead
<1>4. ASSUME NEW r \in 1 .. N + 1, NEW row \in {0, r}, ReadPosition(r, row)
      PROVE  pos' \in 0 .. N /\ result' \in ResultRecords
  BY <1>4, PositionRead
<1>5. pos' \in 0 .. N /\ result' \in ResultRecords
  <2>1. CASE FetchOne \/ \E r \in 1 .. N + 1 : FetchTuplePosition(r)
    <3>1. PICK row \in {0, pos + 1} : ReadNext(row)
      BY <2>1 DEF FetchOne, FetchTuplePosition, InRowData
    <3> QED
      BY <1>3, <3>1
  <2>2. CASE FetchRow
    <3>1. CASE ReadNext(pos + 1)
      BY <1>3, <3>1
    <3>2. CASE pos' = LastOf(array_size) /\ result' = Nothing
      BY <1>t, <3>2, Types, LastOfFacts, RestTypes
    <3> QED
      BY <2>2, <3>1, <3>2 DEF FetchRow
  <2>3. ASSUME NEW r \in 1 .. N + 1, FetchPosition(r) \/ FetchRowPosition(r)
        PROVE  pos' \in 0 .. N /\ result' \in ResultRecords
    <3>1. PICK row \in {0, r} : ReadPosition(r, row)
      BY <2>3 DEF FetchPosition, FetchRowPosition, InRowData
    <3> QED
      BY <1>4, <3>1
  <2> QED
    BY <2>1, <2>2, <2>3
<1> QED
  BY <1>t, <1>1, <1>2, <1>5, Types, IdleStep

LEMMA BindFailsStep ==
  ASSUME FetchInv, BindFails
  PROVE  FetchInv'
<1>t. TypeOK
  BY DEF FetchInv
<1>1. /\ Idle /\ UNCHANGED <<lob, open, pos, array_size, rowset_size, call>>
      /\ row_data' = TRUE /\ result' = Failed /\ bound' = Unfinished
  BY DEF BindFails, Calling
<1>2. bound' \in Buffers /\ result' \in ResultRecords
  BY <1>1, RestTypes DEF Unfinished, Buffers
<1> QED
  BY <1>t, <1>1, <1>2, Types, IdleStep

LEMMA OtherStep ==
  ASSUME FetchInv, (\E size \in Sizes : SetOption(size)) \/ FreeResult \/ Execute
  PROVE  FetchInv'
<1>t. TypeOK
  BY DEF FetchInv
<1>1. Idle /\ UNCHANGED <<lob, call>>
  BY DEF SetOption, FreeResult, Execute
<1>2. /\ open' \in BOOLEAN /\ row_data' \in BOOLEAN /\ pos' \in 0 .. N
      /\ array_size' \in Nat \ {0} /\ bound' \in Buffers
      /\ rowset_size' \in Nat /\ result' \in ResultRecords
  <2>1. ASSUME NEW size \in Sizes, SetOption(size)
        PROVE  size \in Nat \ {0} /\ size \in Nat
    BY ConstantsAssumption
  <2>2. CASE \E size \in Sizes : SetOption(size)
    BY <1>t, <2>1, <2>2, Types DEF SetOption
  <2>3. CASE FreeResult
    BY <1>t, <2>3, Types DEF FreeResult
  <2>4. CASE Execute
    <3>1. 0 \in 0 .. N
      BY <1>t, Types
    <3>2. result' \in ResultRecords
      BY <2>4, RestTypes DEF Execute
    <3> QED
      BY <1>t, <2>4, <3>1, <3>2, Types DEF Execute
  <2> QED
    BY <2>2, <2>3, <2>4
<1> QED
  BY <1>1, <1>2, IdleStep

LEMMA LoopStep ==
  ASSUME FetchInv, RowsetNext
  PROVE  FetchInv'
<1>t. /\ TypeOK /\ call.got \in Seq(1 .. N) /\ pos \in 0 .. N
      /\ array_size \in Nat \ {0}
  BY Types DEF FetchInv
<1>1. ASSUME NEW size \in FetchSizes, InLoop,
             RowsetEnd(size) \/ RowsetRead(size) \/ RowsetFails(size)
      PROVE  FetchInv'
  <2>0. ~Idle /\ size \in Nat \ {0}
    BY <1>1, FetchSizeFacts DEF InLoop
  <2>1. CASE RowsetEnd(size)
    BY <1>t, <2>0, <2>1, RowsAnswer, CleanupStep DEF RowsetEnd
  <2>2. CASE RowsetRead(size)
    BY <2>0, <2>2, ReadStep
  <2>3. CASE RowsetFails(size)
    <3>1. pos' \in 0 .. N
      BY <1>t, <2>0, <2>3, LastOfFacts DEF RowsetFails
    <3> QED
      BY <2>0, <2>3, <3>1, RestTypes, CleanupStep DEF RowsetFails
  <2> QED
    BY <1>1, <2>1, <2>2, <2>3
<1>2. CASE RowsetNotBegun
  BY <1>2, <1>t, RestTypes, CleanupStep DEF RowsetNotBegun
<1> QED
  BY <1>1, <1>2 DEF RowsetNext

LEMMA StutterStep ==
  ASSUME FetchInv, UNCHANGED vars
  PROVE  FetchInv'
BY DEF FetchInv, TypeOK, LoopOK, Idle, vars

LEMMA FetchStep == FetchInv /\ [Next]_vars => FetchInv'
<1> SUFFICES ASSUME FetchInv, [Next]_vars PROVE FetchInv'
  OBVIOUS
<1>1. CASE FetchMany \/ FetchAll
  <2>1. PICK max \in Nat : RowsetBegin(max)
    BY <1>1, ConstantsAssumption DEF FetchMany, FetchAll
  <2>2. Idle
    BY <1>1 DEF FetchMany, FetchAll, Calling
  <2> QED
    BY <2>1, <2>2, BeginStep
<1>2. CASE RowsetNext
  BY <1>2, LoopStep
<1> QED
  BY <1>1, <1>2, OneRowStep, BindFailsStep, OtherStep, StutterStep DEF Next

LEMMA InitFetch == Init => FetchInv
<1> SUFFICES ASSUME Init PROVE FetchInv
  OBVIOUS
<1>1. lob \in BOOLEAN /\ 0 \in 0 .. N
  BY ConstantsAssumption DEF Init
<1>2. TypeOK
  <2>1. call \in CallRecords /\ result \in ResultRecords
    BY RestTypes DEF Init
  <2>2. open = TRUE /\ row_data = FALSE /\ pos = 0 /\ array_size = 1
        /\ bound = "none" /\ rowset_size = 0
    BY DEF Init
  <2>3. /\ lob \in BOOLEAN /\ open \in BOOLEAN /\ row_data \in BOOLEAN
        /\ pos \in 0 .. N /\ array_size \in Nat \ {0} /\ rowset_size \in Nat
        /\ bound \in Buffers
    <3>1. open \in BOOLEAN /\ row_data \in BOOLEAN
      BY <2>2
    <3>2. array_size \in Nat \ {0} /\ rowset_size \in Nat /\ pos \in 0 .. N
      BY <1>1, <2>2
    <3>3. bound \in Buffers
      BY <2>2 DEF Buffers
    <3> QED
      BY <1>1, <3>1, <3>2, <3>3, Zenon
  <2> QED
    BY <2>1, <2>3, Zenon DEF TypeOK, CallRecords, ResultRecords, Buffers
<1> QED
  BY <1>2 DEF Init, FetchInv, LoopOK, Idle

LEMMA AlwaysFetch == Spec => []FetchInv
BY InitFetch, FetchStep, PTL DEF Spec

\* Whatever is called, set as an option or fails, and whichever rows cannot be
\* read: the cursor stays in its result set, a fetch asks for at least one row,
\* and what a call returns are rows.
THEOREM TypeCorrect == Spec => []TypeOK
<1>1. FetchInv => TypeOK
  BY DEF FetchInv
<1> QED
  BY <1>1, AlwaysFetch, PTL
-----------------------------------------------------------------------------
(* Single-row mode *)

LEMMA CleanupSize ==
  ASSUME SizeInv, "restore" \notin Faults,
         NEW size, lob => size = array_size, NEW answer, Cleanup(size, answer)
  PROVE  SizeOK' /\ SingleRowMode'
<1>1. /\ call' = NoCall /\ bound' = "none" /\ row_data' = FALSE
      /\ lob' = lob /\ rowset_size' = rowset_size
      /\ array_size' = IF lob THEN size ELSE 1
  BY DEF Cleanup, Fallible
<1>2. rowset_size = 0 /\ (lob => array_size = 1)
  BY DEF SizeInv, SizeOK
<1>3. array_size' = 1
  BY <1>1, <1>2
<1> QED
  BY <1>1, <1>2, <1>3 DEF SizeOK, SingleRowMode, Idle

LEMMA BeginSize ==
  ASSUME SizeInv, Idle, NEW max \in Nat, RowsetBegin(max)
  PROVE  SizeOK' /\ SingleRowMode'
<1>1. FetchInv /\ TypeOK
  BY DEF SizeInv, FetchInv
<1> DEFINE size == ArraySize(max)
<1>2. size \in Nat \ {0} /\ (lob => size = 1)
  BY <1>1, ArraySizes
<1>3. /\ call' = [max |-> max, array |-> size, from |-> pos, got |-> <<>>]
      /\ array_size' = (IF lob THEN array_size ELSE size)
      /\ UNCHANGED <<lob, rowset_size>>
  BY DEF RowsetBegin
<1> HIDE DEF size
<1>4. ~Idle'
  BY <1>1, BeginStep DEF Idle
<1>5. call'.array = size /\ array_size' <= size /\ (lob' => array_size' = 1)
  BY <1>2, <1>3 DEF SizeInv, SizeOK
<1> QED
  BY <1>3, <1>4, <1>5 DEF SizeInv, SizeOK, SingleRowMode

LEMMA ReadSize ==
  ASSUME SizeInv, "restore" \notin Faults, ~Idle, NEW size \in FetchSizes,
         RowsetRead(size)
  PROVE  SizeOK' /\ SingleRowMode'
<1>1. /\ FetchInv /\ call \in CallRecords
      /\ (lob => size = array_size) /\ (array_size <= call.array => size <= call.array)
  BY Types, FetchSizeFacts DEF SizeInv, FetchInv
<1>2. CASE call.max > 0 /\ Len(Appended(size)) >= call.max
  BY <1>1, <1>2, CleanupSize DEF RowsetRead
<1>3. CASE ~ (call.max > 0 /\ Len(Appended(size)) >= call.max)
  <2>1. /\ call' = [call EXCEPT !.got = Appended(size)]
        /\ array_size' = size
        /\ UNCHANGED <<lob, bound, row_data, rowset_size>>
    BY <1>3 DEF RowsetRead
  <2>2. call'.array = call.array
    BY <1>1, <2>1 DEF CallRecords
  <2>3. /\ call.array > 0 /\ array_size <= call.array /\ rowset_size = 0
        /\ (lob => array_size = 1)
    BY <1>1 DEF SizeInv, SizeOK, FetchInv, LoopOK
  <2>4. size <= call.array /\ (lob => size = 1)
    BY <1>1, <2>3
  <2>5. ~Idle'
    BY <2>2, <2>3 DEF Idle, NoCall
  <2>6. rowset_size' = 0 /\ (lob' => array_size' = 1) /\ array_size' <= call'.array
    BY <2>1, <2>2, <2>3, <2>4
  <2> QED
    BY <2>5, <2>6 DEF SizeOK, SingleRowMode
<1> QED
  BY <1>2, <1>3

LEMMA OneRowSize ==
  ASSUME SizeInv,
         \/ FetchOne \/ FetchRow \/ BindFails
         \/ \E r \in 1 .. N + 1 :
              FetchPosition(r) \/ FetchTuplePosition(r) \/ FetchRowPosition(r)
  PROVE  SizeOK' /\ SingleRowMode'
<1>1. Idle /\ UNCHANGED <<lob, open, array_size, rowset_size, call>>
  BY DEF FetchOne, FetchRow, FetchPosition, FetchTuplePosition, FetchRowPosition,
         BindFails, Calling, BindSingle
<1>2. bound' \in {bound, "single", "half", "freed"}
  BY DEF FetchOne, FetchRow, FetchPosition, FetchTuplePosition, FetchRowPosition,
         BindFails, BindSingle, Fallible, Unfinished
<1>3. /\ rowset_size = 0 /\ (lob => array_size = 1) /\ array_size = 1
      /\ bound # "rowset"
  BY <1>1 DEF SizeInv, SizeOK, SingleRowMode
<1>4. bound' # "rowset"
  BY <1>2, <1>3
<1>5. Idle'
  BY <1>1 DEF Idle
<1> QED
  BY <1>1, <1>3, <1>4, <1>5 DEF SizeOK, SingleRowMode

LEMMA OtherSize ==
  ASSUME SizeInv, FreeResult \/ Execute
  PROVE  SizeOK' /\ SingleRowMode'
<1>1. /\ Idle /\ UNCHANGED <<lob, array_size, call, bound>>
      /\ rowset_size' \in {0, rowset_size}
  BY DEF FreeResult, Execute
<1>2. /\ rowset_size = 0 /\ (lob => array_size = 1) /\ array_size = 1
      /\ bound # "rowset"
  BY <1>1 DEF SizeInv, SizeOK, SingleRowMode
<1>3. Idle'
  BY <1>1 DEF Idle
<1> QED
  BY <1>1, <1>2, <1>3 DEF SizeOK, SingleRowMode

LEMMA SizeStep ==
  ASSUME "option" \notin Ops, "restore" \notin Faults
  PROVE  SizeInv /\ [Next]_vars => SizeInv'
<1> SUFFICES ASSUME SizeInv, [Next]_vars PROVE SizeOK' /\ SingleRowMode'
  BY FetchStep DEF SizeInv
<1>1. CASE FetchMany \/ FetchAll
  <2>1. PICK max \in Nat : RowsetBegin(max)
    BY <1>1, ConstantsAssumption DEF FetchMany, FetchAll
  <2>2. Idle
    BY <1>1 DEF FetchMany, FetchAll, Calling
  <2> QED
    BY <2>1, <2>2, BeginSize
<1>2. CASE RowsetNext
  <2>1. ASSUME NEW size \in FetchSizes, InLoop,
               RowsetEnd(size) \/ RowsetRead(size) \/ RowsetFails(size)
        PROVE  SizeOK' /\ SingleRowMode'
    <3>1. ~Idle /\ (lob => size = array_size)
      BY <2>1, FetchSizeFacts DEF InLoop, SizeInv
    <3> QED
      BY <2>1, <3>1, CleanupSize, ReadSize DEF RowsetEnd, RowsetFails
  <2>2. CASE RowsetNotBegun
    BY <2>2, CleanupSize DEF RowsetNotBegun
  <2> QED
    BY <1>2, <2>1, <2>2 DEF RowsetNext
<1>3. ASSUME NEW size \in Sizes, SetOption(size) PROVE FALSE
  BY <1>3 DEF SetOption
<1>4. CASE UNCHANGED vars
  BY <1>4 DEF SizeInv, SizeOK, SingleRowMode, Idle, vars
<1> QED
  BY <1>1, <1>2, <1>3, <1>4, OneRowSize, OtherSize DEF Next

LEMMA AlwaysSize ==
  ASSUME "option" \notin Ops, "restore" \notin Faults
  PROVE  Spec => []SizeInv
<1>1. Init => SizeInv
  <2>1. Init => SizeOK /\ SingleRowMode
    BY DEF Init, SizeOK, SingleRowMode, Idle
  <2> QED
    BY <2>1, InitFetch DEF SizeInv
<1> QED
  BY <1>1, SizeStep, PTL DEF Spec

\* Between calls the CLI has no buffers of a rowset, which are freed, and reads
\* one row at a time, whatever failed in the calls before but the CLI calls of
\* cleanup_attrs themselves, unless the caller sets SQL_ATTR_ROW_ARRAY_SIZE.
THEOREM SingleRows ==
  ASSUME "option" \notin Ops, "restore" \notin Faults
  PROVE  Spec => []SingleRowMode
<1>1. SizeInv => SingleRowMode
  BY DEF SizeInv
<1> QED
  BY <1>1, AlwaysSize, PTL
-----------------------------------------------------------------------------
(* Rows in order *)

\* The rows of one fetch come right after those that the call has collected,
\* and all of them were asked for.
LEMMA ReadRows ==
  ASSUME OrderInv, Bad = {}, ~Idle, ~NoData(EffectiveSize), lob => pos + 1 \notin Gone
  PROVE  /\ Appended(EffectiveSize) = RowsBetween(call.from, LastOf(EffectiveSize), Gone)
         /\ call.from <= LastOf(EffectiveSize)
<1> DEFINE last == LastOf(EffectiveSize)
           good == IF lob THEN <<pos + 1>> ELSE RowsBetween(pos, last, Bad \cup Gone)
           all  == call.got \o good
<1>t. FetchInv /\ TypeOK
  BY DEF OrderInv, SizeInv, FetchInv
<1>1. /\ call.from \in Nat /\ pos \in Nat /\ N \in Nat /\ call.max \in Nat
      /\ call.got \in Seq(1 .. N) /\ Len(call.got) \in Nat
      /\ EffectiveSize \in Nat \ {0}
  <2>1. 0 .. N \subseteq Nat
    OBVIOUS
  <2> QED
    BY <1>t, <2>1, Types, EffectiveFacts
<1>2. /\ call.from <= pos /\ call.got = RowsBetween(call.from, pos, Gone)
      /\ (lob => array_size = 1) /\ array_size <= call.array
      /\ (call.max > 0 => Len(call.got) < call.max)
  BY <1>t DEF OrderInv, OrderOK, SizeInv, SizeOK, FetchInv, LoopOK
<1>3. /\ last \in Nat /\ pos + 1 \in 1 .. N /\ pos + 1 <= last /\ last <= N
      /\ last - pos <= EffectiveSize
      /\ (EffectiveSize = 1 => last = pos + 1)
  BY <1>t, <1>1, LastOfFacts
<1>4. /\ (lob => EffectiveSize = 1)
      /\ (~lob /\ call.max > 0 => EffectiveSize <= call.max - Len(call.got))
  BY <1>t, <1>2, EffectiveFacts
<1>5. Bad \cup Gone = Gone
  OBVIOUS
<1>6. all = RowsBetween(call.from, last, Gone) /\ good \in Seq(1 .. N)
      /\ (call.max > 0 => Len(good) <= call.max - Len(call.got))
  <2>1. CASE lob
    <3>1. good = <<pos + 1>> /\ last = pos + 1 /\ pos + 1 \notin Gone
      BY <1>3, <1>4, <2>1
    <3> HIDE DEF last, good
    <3>2. good \in Seq(1 .. N) /\ Len(good) = 1
      BY <1>3, <3>1
    <3>3. RowsBetween(call.from, pos + 1, Gone)
            = OneMore(call.got, pos + 1, call.from, Gone)
      BY <1>1, <1>2, RowByRow
    <3>4. OneMore(call.got, pos + 1, call.from, Gone) = Append(call.got, pos + 1)
      <4>1. ~ (pos + 1 <= call.from)
        BY <1>1, <1>2
      <4> QED
        BY <3>1, <4>1 DEF OneMore
    <3>5. Append(call.got, pos + 1) = call.got \o <<pos + 1>>
      BY <1>1, <1>3, AppendOne
    <3>6. call.max > 0 => 1 <= call.max - Len(call.got)
      BY <1>1, <1>2
    <3> QED
      BY <3>1, <3>2, <3>3, <3>4, <3>5, <3>6
  <2>2. CASE ~lob
    <3>1. good = RowsBetween(pos, last, Gone)
      BY <1>5, <2>2
    <3> HIDE DEF good, last
    <3>2. good \in Seq(1 .. N) /\ Len(good) <= last - pos
      <4>1. pos <= last
        BY <1>1, <1>3
      <4> QED
        BY <1>1, <1>3, <3>1, <4>1, RowsType
    <3>3. call.got \o good = RowsBetween(call.from, last, Gone)
      <4>1. pos <= last
        BY <1>1, <1>3
      <4>2. RowsBetween(call.from, pos, Gone) \o RowsBetween(pos, last, Gone)
              = RowsBetween(call.from, last, Gone)
        <5>1. call.from \in Nat /\ pos \in Nat /\ call.from <= pos
          BY <1>1, <1>2
        <5>2. \A c \in Nat : pos <= c =>
                RowsBetween(call.from, pos, Gone) \o RowsBetween(pos, c, Gone)
                  = RowsBetween(call.from, c, Gone)
          BY <5>1, RowsJoin
        <5>3. last \in Nat
          BY <1>3
        <5> QED
          BY <4>1, <5>2, <5>3
      <4> QED
        BY <1>2, <3>1, <4>2
    <3>4. Len(good) \in Nat
      BY <3>2
    <3>5. call.max > 0 => Len(good) <= call.max - Len(call.got)
      BY <1>1, <1>3, <1>4, <2>2, <3>2, <3>4
    <3> QED
      BY <3>2, <3>3, <3>5
  <2> QED
    BY <2>1, <2>2
<1>7. Appended(EffectiveSize) = IF call.max > 0 THEN SubSeq(all, 1, Lesser(call.max, Len(all))) ELSE all
  BY DEF Appended
<1> HIDE DEF good, last, all
<1>8. all \in Seq(1 .. N) /\ Len(all) = Len(call.got) + Len(good) /\ Len(good) \in Nat
      /\ Len(all) \in Nat
  BY <1>1, <1>6, Joined DEF all
<1>9. call.max > 0 => Lesser(call.max, Len(all)) = Len(all)
  <2>1. call.max > 0 => Len(all) <= call.max
    BY <1>1, <1>6, <1>8
  <2>2. call.max > 0 => Len(all) = call.max \/ ~ (call.max <= Len(all))
    BY <1>1, <1>8, <2>1
  <2> QED
    BY <2>2 DEF Lesser
<1>10. SubSeq(all, 1, Len(all)) = all
  BY <1>8, Prefix
<1>11. Appended(EffectiveSize) = all
  BY <1>7, <1>9, <1>10 DEF all
<1>12. call.from <= last
  BY <1>1, <1>2, <1>3
<1> QED
  BY <1>6, <1>11, <1>12 DEF last, all

\* What must not happen for the rows to be in order.
RowsGiven == /\ Bad = {} /\ "option" \notin Ops
             /\ {"resize", "restore", "bind"} \cap Faults = {}

LEMMA BoundStep ==
  ASSUME OrderInv, RowsGiven, [Next]_vars
  PROVE  BoundOK'
<1>1. CASE FetchMany \/ FetchAll
  <2>1. PICK max \in Nat : RowsetBegin(max)
    BY <1>1, ConstantsAssumption DEF FetchMany, FetchAll
  <2>2. Idle
    BY <1>1 DEF FetchMany, FetchAll, Calling
  <2>3. ~Idle'
    BY <2>1, <2>2, BeginStep DEF Idle, OrderInv, SizeInv
  <2> QED
    BY <2>3 DEF BoundOK
<1>2. ASSUME NEW size, NEW answer, Cleanup(size, answer) PROVE BoundOK'
  BY <1>2 DEF Cleanup, BoundOK
<1>3. ASSUME NEW size \in FetchSizes, InLoop, RowsetRead(size) PROVE BoundOK'
  <2>1. CASE call.max > 0 /\ Len(Appended(size)) >= call.max
    BY <1>2, <1>3, <2>1 DEF RowsetRead
  <2>2. CASE ~ (call.max > 0 /\ Len(Appended(size)) >= call.max)
    <3>1. call' = [call EXCEPT !.got = Appended(size)] /\ call \in CallRecords
      BY <1>3, <2>2, Types DEF RowsetRead, OrderInv, SizeInv, FetchInv
    <3>2. call'.array = call.array /\ call.array > 0
      BY <1>3, <3>1 DEF CallRecords, OrderInv, SizeInv, FetchInv, LoopOK, InLoop
    <3> QED
      BY <3>2 DEF BoundOK, Idle, NoCall
  <2> QED
    BY <2>1, <2>2
<1>4. CASE RowsetNext
  BY <1>2, <1>3, <1>4 DEF RowsetNext, RowsetEnd, RowsetFails, RowsetNotBegun
<1>5. CASE \/ FetchOne \/ FetchRow
           \/ \E r \in 1 .. N + 1 :
                FetchPosition(r) \/ FetchTuplePosition(r) \/ FetchRowPosition(r)
  <2>1. Idle
    BY <1>5 DEF FetchOne, FetchRow, FetchPosition, FetchTuplePosition,
                FetchRowPosition, Calling
  <2>2. BindSingle \/ UNCHANGED <<bound, row_data>>
    BY <1>5 DEF FetchOne, FetchRow, FetchPosition, FetchTuplePosition,
                FetchRowPosition
  <2> QED
    BY <2>1, <2>2 DEF BindSingle, Fallible, RowsGiven, OrderInv, BoundOK
<1>6. CASE BindFails
  BY <1>6 DEF BindFails, RowsGiven
<1>7. CASE FreeResult \/ Execute
  BY <1>7 DEF FreeResult, Execute, OrderInv, BoundOK
<1>8. ASSUME NEW size \in Sizes, SetOption(size) PROVE FALSE
  BY <1>8 DEF SetOption, RowsGiven
<1>9. CASE UNCHANGED vars
  BY <1>9 DEF vars, OrderInv, BoundOK, Idle
<1> QED
  BY <1>1, <1>4, <1>5, <1>6, <1>7, <1>8, <1>9 DEF Next

LEMMA OrderStep ==
  ASSUME RowsGiven
  PROVE  OrderInv /\ [Next]_vars => OrderInv'
<1> SUFFICES ASSUME OrderInv, [Next]_vars PROVE OrderOK'
  BY SizeStep, BoundStep DEF OrderInv, RowsGiven
<1>t. FetchInv /\ TypeOK /\ Bad = {} /\ "resize" \notin Faults
  BY DEF OrderInv, SizeInv, FetchInv, RowsGiven
<1>0. ASSUME Idle' PROVE OrderOK'
  BY <1>0 DEF OrderOK
<1>1. CASE FetchMany \/ FetchAll
  <2>1. PICK max \in Nat : RowsetBegin(max)
    BY <1>1, ConstantsAssumption DEF FetchMany, FetchAll
  <2>2. call'.from = pos /\ call'.got = <<>> /\ pos' = pos /\ pos \in Nat
    BY <1>t, <2>1, Types DEF RowsetBegin
  <2>3. RowsBetween(pos, pos, Gone) = <<>>
    BY <2>2, RowByRow
  <2> QED
    BY <2>2, <2>3 DEF OrderOK
<1>2. ASSUME NEW size, NEW answer, Cleanup(size, answer) PROVE OrderOK'
  BY <1>0, <1>2 DEF Cleanup, Idle
<1>3. ASSUME ~Idle, RowsetRead(EffectiveSize) PROVE OrderOK'
  <2>1. /\ ~NoData(EffectiveSize) /\ (lob => pos + 1 \notin Gone)
        /\ pos' = LastOf(EffectiveSize)
    BY <1>3 DEF RowsetRead
  <2> DEFINE rows == Appended(EffectiveSize)
  <2>2. CASE call.max > 0 /\ Len(rows) >= call.max
    BY <1>2, <1>3, <2>2 DEF RowsetRead
  <2>3. CASE ~ (call.max > 0 /\ Len(rows) >= call.max)
    <3>1. call' = [call EXCEPT !.got = rows] /\ call \in CallRecords
      BY <1>3, <1>t, <2>3, Types DEF RowsetRead
    <3>2. call'.got = rows /\ call'.from = call.from
      BY <3>1 DEF CallRecords
    <3> QED
      BY <1>3, <1>t, <2>1, <3>2, ReadRows DEF OrderOK
  <2> QED
    BY <2>2, <2>3
<1>4. CASE RowsetNext
  <2>1. ASSUME NEW size \in FetchSizes, InLoop, RowsetRead(size) PROVE OrderOK'
    <3>1. size = EffectiveSize /\ ~Idle
      BY <1>t, <2>1, FetchSizeFacts DEF InLoop
    <3> QED
      BY <1>3, <2>1, <3>1
  <2> QED
    BY <1>2, <1>4, <2>1 DEF RowsetNext, RowsetEnd, RowsetFails, RowsetNotBegun
<1>5. CASE \/ FetchOne \/ FetchRow \/ BindFails
           \/ \E r \in 1 .. N + 1 :
                FetchPosition(r) \/ FetchTuplePosition(r) \/ FetchRowPosition(r)
  <2>1. Idle /\ call' = call
    BY <1>5 DEF FetchOne, FetchRow, FetchPosition, FetchTuplePosition,
                FetchRowPosition, BindFails, Calling, BindSingle
  <2> QED
    BY <1>0, <2>1 DEF Idle
<1>6. CASE (\E size \in Sizes : SetOption(size)) \/ FreeResult \/ Execute
  <2>1. Idle /\ call' = call
    BY <1>6 DEF SetOption, FreeResult, Execute
  <2> QED
    BY <1>0, <2>1 DEF Idle
<1>7. CASE UNCHANGED vars
  BY <1>7 DEF OrderInv, OrderOK, Idle, vars
<1> QED
  BY <1>1, <1>4, <1>5, <1>6, <1>7 DEF Next

LEMMA AlwaysOrder ==
  ASSUME RowsGiven
  PROVE  Spec => []OrderInv
<1>1. Init => OrderInv
  <2>1. Init => SizeInv
    <3>1. Init => SizeOK /\ SingleRowMode
      BY DEF Init, SizeOK, SingleRowMode, Idle
    <3> QED
      BY <3>1, InitFetch DEF SizeInv
  <2>2. Init => BoundOK /\ OrderOK
    BY DEF Init, BoundOK, OrderOK, Idle
  <2> QED
    BY <2>1, <2>2 DEF OrderInv
<1> QED
  BY <1>1, OrderStep, PTL DEF Spec
-----------------------------------------------------------------------------
(* RowsetFetch implements ResultSet *)

\* The rows up to this one are behind the caller.
Behind == IF Idle THEN pos ELSE call.from

LEMMA SameRows ==
  ASSUME NEW a, NEW b
  PROVE  Set!Rows(a, b) = RowsBetween(a, b, Gone)
BY DEF Set!Rows, Set!RowsBetween, RowsBetween

\* All rows up to a place, at most n, and fewer only at the end.
LEMMA TakeRefines ==
  ASSUME NEW from \in Nat, NEW last \in from .. N, Behind = from,
         IF Idle' THEN pos' = last ELSE call'.from = last,
         result' = Returned(RowsBetween(from, last, Gone)),
         NEW n \in 1 .. N + 1, Len(RowsBetween(from, last, Gone)) <= n,
         Len(RowsBetween(from, last, Gone)) = n \/ last = N
  PROVE  Set!Next
<1>1. /\ Len(Set!Rows(Behind, last)) <= n
      /\ Len(Set!Rows(Behind, last)) = n \/ last = N
  BY SameRows
<1>2. result' = Set!Returned(Set!Rows(Behind, last))
  BY SameRows DEF Returned, Set!Returned
<1>3. last \in Behind .. N
  OBVIOUS
<1>4. Set!Take(n)
  BY <1>1, <1>2, <1>3 DEF Set!Take, Behind
<1> QED
  BY <1>4 DEF Set!Next

LEMMA SeekRefines ==
  ASSUME NEW r \in 1 .. N + 1, Idle,  Idle',
         IF r <= N THEN pos' = r /\ result' = Returned(<<r>>)
                   ELSE pos' = N /\ result' = Nothing
  PROVE  Set!Next
<1>1. Set!Seek(r)
  BY DEF Set!Seek, Set!Returned, Set!Nothing, Returned, Nothing
<1> QED
  BY <1>1 DEF Set!Next

LEMMA FailRefines ==
  ASSUME Idle', result' = Failed, pos' \in Behind .. N
  PROVE  Set!Next
<1>1. Set!Fail
  BY DEF Set!Fail, Set!Failed, Failed, Behind
<1> QED
  BY <1>1 DEF Set!Next

LEMMA OpenRefines ==
  ASSUME Idle, Idle', pos' = 0, result' = Nothing
  PROVE  Set!Next
<1>1. Set!Open
  BY DEF Set!Open, Set!Init, Set!Nothing, Nothing
<1> QED
  BY <1>1 DEF Set!Next

\* SQLFetch of one row.
LEMMA NextRefines ==
  ASSUME OrderInv, Bad = {}, Idle, Idle', ReadNext(pos + 1)
  PROVE  Set!Next
<1>t. TypeOK /\ array_size = 1 /\ pos \in Nat /\ N \in Nat /\ pos <= N
      /\ Behind = pos
  BY Types DEF OrderInv, SizeInv, FetchInv, SingleRowMode, Behind
<1>1. CASE NoData(array_size)
  <2>1. pos = N /\ pos' = N /\ result' = Nothing
    BY <1>t, <1>1, LastOfFacts DEF ReadNext, NoData
  <2>2. RowsBetween(pos, N, Gone) = <<>> /\ Len(RowsBetween(pos, N, Gone)) = 0
    <3>1. RowsBetween(pos, N, Gone) = <<>>
      BY <1>t, <2>1, RowByRow
    <3> QED
      BY <3>1
  <2>3. result' = Returned(RowsBetween(pos, N, Gone))
    BY <2>1, <2>2 DEF Nothing, Returned
  <2>4. N \in pos .. N /\ N + 1 \in 1 .. N + 1
        /\ Len(RowsBetween(pos, N, Gone)) <= N + 1
    BY <1>t, <2>1, <2>2
  <2> QED
    BY <1>t, <2>1, <2>3, <2>4, TakeRefines
<1>2. CASE ~NoData(array_size)
  <2>1. pos' = pos + 1 /\ pos + 1 \in 1 .. N /\ pos + 1 \notin Gone
        /\ result' = Returned(<<pos + 1>>)
    BY <1>t, <1>2, LastOfFacts DEF ReadNext
  <2>2. RowsBetween(pos, pos + 1, Gone) = <<pos + 1>>
    <3>1. /\ RowsBetween(pos, pos, Gone) = <<>>
          /\ RowsBetween(pos, pos + 1, Gone)
               = OneMore(RowsBetween(pos, pos, Gone), pos + 1, pos, Gone)
      BY <1>t, RowByRow
    <3>2. ~ (pos + 1 <= pos)
      BY <1>t
    <3>3. RowsBetween(pos, pos + 1, Gone) = Append(<<>>, pos + 1)
      BY <2>1, <3>1, <3>2 DEF OneMore
    <3> QED
      BY <3>3
  <2>3. Len(RowsBetween(pos, pos + 1, Gone)) = 1
    BY <2>2
  <2>4. 1 \in 1 .. N + 1 /\ pos + 1 \in pos .. N
    BY <1>t, <2>1
  <2>5. result' = Returned(RowsBetween(pos, pos + 1, Gone))
    BY <2>1, <2>2
  <2> DEFINE last == pos + 1
  <2>6. /\ last \in pos .. N /\ pos' = last
        /\ Len(RowsBetween(pos, last, Gone)) <= 1
        /\ Len(RowsBetween(pos, last, Gone)) = 1
        /\ result' = Returned(RowsBetween(pos, last, Gone))
    <3>1. last \in pos .. N /\ pos' = last
      BY <2>1, <2>4
    <3>2. Len(RowsBetween(pos, last, Gone)) = 1
      BY <2>3
    <3>3. result' = Returned(RowsBetween(pos, last, Gone))
      BY <2>5
    <3> HIDE DEF last
    <3> QED
      BY <3>1, <3>2, <3>3
  <2> HIDE DEF last
  <2> QED
    BY <1>t, <2>4, <2>6, TakeRefines
<1> QED
  BY <1>1, <1>2

\* The loop ends: with all the rows, or with those that were asked for.
LEMMA LoopRefines ==
  ASSUME OrderInv, RowsGiven, RowsetNext
  PROVE  Set!Next \/ UNCHANGED <<Behind, result>>
<1>t. TypeOK /\ FetchInv /\ ~Idle /\ Bad = {}
  BY DEF OrderInv, SizeInv, FetchInv, RowsetNext, RowsetNotBegun, InLoop, RowsGiven
<1>s. \A size \in FetchSizes : size = EffectiveSize
  BY <1>t, FetchSizeFacts DEF RowsGiven
<1>1. /\ call.from \in Nat /\ pos \in Nat /\ N \in Nat /\ pos <= N
      /\ call.max \in Nat /\ EffectiveSize \in Nat \ {0} /\ Behind = call.from
      /\ call.from <= pos /\ call.got = RowsBetween(call.from, pos, Gone)
  <2>1. call.from \in 0 .. N /\ pos \in 0 .. N /\ N \in Nat
    BY <1>t, Types
  <2> QED
    BY <1>t, <2>1, Types, EffectiveFacts DEF OrderInv, OrderOK, Behind
<1>c. ASSUME NEW size, NEW answer, Cleanup(size, answer) PROVE Idle' /\ result' = answer
  BY <1>c DEF Cleanup, Idle
<1>2. CASE RowsetEnd(EffectiveSize)
  <2>1. pos = N /\ pos' = N /\ Idle' /\ result' = Returned(RowsBetween(call.from, N, Gone))
    BY <1>t, <1>1, <1>2, <1>c, LastOfFacts DEF RowsetEnd
  <2>2. Len(RowsBetween(call.from, N, Gone)) <= N + 1
        /\ N \in call.from .. N /\ N + 1 \in 1 .. N + 1
    <3>1. RowsBetween(call.from, N, Gone) \in Seq(1 .. N)
          /\ Len(RowsBetween(call.from, N, Gone)) <= N - call.from
      BY <1>1, <2>1, RowsType
    <3>2. Len(RowsBetween(call.from, N, Gone)) \in Nat
      BY <3>1
    <3> QED
      BY <1>1, <2>1, <3>1, <3>2
  <2>3. Set!Next
    BY <1>1, <2>1, <2>2, TakeRefines
  <2> QED
    BY <2>3
<1>3. CASE RowsetRead(EffectiveSize)
  <2> DEFINE last == LastOf(EffectiveSize)
  <2>1. /\ ~NoData(EffectiveSize) /\ (lob => pos + 1 \notin Gone) /\ pos' = last
    BY <1>3 DEF RowsetRead
  <2>2. /\ Appended(EffectiveSize) = RowsBetween(call.from, last, Gone) /\ call.from <= last
        /\ last \in Nat /\ last <= N
    BY <1>t, <1>1, <2>1, ReadRows, LastOfFacts
  <2> HIDE DEF last
  <2>3. CASE call.max > 0 /\ Len(Appended(EffectiveSize)) >= call.max
    <3>1. Idle' /\ result' = Returned(RowsBetween(call.from, last, Gone))
      BY <1>3, <1>c, <2>2, <2>3 DEF RowsetRead
    <3>2. RowsBetween(call.from, last, Gone) \in Seq(1 .. N)
          /\ Len(RowsBetween(call.from, last, Gone)) <= last - call.from
      BY <1>1, <2>2, RowsType
    <3> DEFINE n == Len(RowsBetween(call.from, last, Gone))
    <3>3. n \in Nat /\ n >= call.max /\ n <= last - call.from
      BY <2>2, <2>3, <3>2
    <3> HIDE DEF n
    <3>4. n \in 1 .. N + 1 /\ last \in call.from .. N
      BY <1>1, <2>2, <2>3, <3>3
    <3>5. Set!Next
      <4>1. Len(RowsBetween(call.from, last, Gone)) <= n
            /\ Len(RowsBetween(call.from, last, Gone)) = n
        BY <3>3 DEF n
      <4> QED
        BY <1>1, <2>1, <3>1, <3>4, <4>1, TakeRefines
    <3> QED
      BY <3>5
  <2>4. CASE ~ (call.max > 0 /\ Len(Appended(EffectiveSize)) >= call.max)
    <3>1. call' = [call EXCEPT !.got = Appended(EffectiveSize)] /\ UNCHANGED result
          /\ call \in CallRecords
      BY <1>3, <1>t, <2>4, Types DEF RowsetRead
    <3>2. call'.from = call.from /\ call'.array = call.array /\ call.array > 0
      BY <1>t, <3>1 DEF CallRecords, FetchInv, LoopOK
    <3>3. ~Idle'
      BY <3>2 DEF Idle, NoCall
    <3> QED
      BY <1>1, <3>1, <3>2, <3>3 DEF Behind
  <2> QED
    BY <2>3, <2>4
<1>4. CASE RowsetFails(EffectiveSize) \/ RowsetNotBegun
  <2>1. Idle' /\ result' = Failed /\ pos' \in {pos, LastOf(EffectiveSize)}
    BY <1>4, <1>c DEF RowsetFails, RowsetNotBegun
  <2>2. LastOf(EffectiveSize) \in pos .. N
    BY <1>t, <1>1, LastOfFacts
  <2>3. pos' \in Behind .. N
    BY <1>1, <2>1, <2>2
  <2> QED
    BY <2>1, <2>3, FailRefines
<1> QED
  BY <1>2, <1>3, <1>4, <1>s DEF RowsetNext
\* The calls for one row deliver the next one or the one that was asked for.
LEMMA OneRowRefines ==
  ASSUME OrderInv, RowsGiven,
         \/ FetchOne \/ FetchRow \/ BindFails
         \/ \E r \in 1 .. N + 1 :
              FetchPosition(r) \/ FetchTuplePosition(r) \/ FetchRowPosition(r)
  PROVE  Set!Next
<1>1. Idle /\ Idle' /\ Bad = {} /\ ~BindFails
  BY DEF FetchOne, FetchRow, FetchPosition, FetchTuplePosition, FetchRowPosition,
         BindFails, Calling, BindSingle, Idle, RowsGiven
<1>2. ASSUME BindSingle PROVE bound' = "single"
  BY <1>1, <1>2 DEF BindSingle, Fallible, RowsGiven, OrderInv, BoundOK
<1>3. CASE FetchOne \/ \E r \in 1 .. N + 1 : FetchTuplePosition(r)
  <2>1. ReadNext(pos + 1)
    BY <1>2, <1>3 DEF FetchOne, FetchTuplePosition, InRowData
  <2> QED
    BY <1>1, <2>1, NextRefines
<1>4. CASE FetchRow
  <2>1. ReadNext(pos + 1)
    BY <1>1, <1>4 DEF FetchRow
  <2> QED
    BY <1>1, <2>1, NextRefines
<1>5. ASSUME NEW r \in 1 .. N + 1, ReadPosition(r, r) PROVE Set!Next
  <2>1. N \in Nat
    BY ConstantsAssumption
  <2>2. IF r <= N THEN pos' = r /\ result' = Returned(<<r>>)
                  ELSE pos' = N /\ result' = Nothing
    BY <1>1, <1>5, <2>1 DEF ReadPosition, Lesser
  <2> QED
    BY <1>1, <2>2, SeekRefines
<1>6. ASSUME NEW r \in 1 .. N + 1, FetchPosition(r) \/ FetchRowPosition(r)
      PROVE  Set!Next
  <2>1. ReadPosition(r, r)
    BY <1>2, <1>6 DEF FetchPosition, FetchRowPosition, InRowData
  <2> QED
    BY <1>5, <2>1
<1> QED
  BY <1>1, <1>3, <1>4, <1>6

LEMMA OtherRefines ==
  ASSUME OrderInv,
         \/ FetchMany \/ FetchAll
         \/ (\E size \in Sizes : SetOption(size)) \/ FreeResult \/ Execute
         \/ UNCHANGED vars
  PROVE  Set!Next \/ UNCHANGED <<Behind, result>>
<1>t. FetchInv
  BY DEF OrderInv, SizeInv
<1>1. CASE FetchMany \/ FetchAll
  <2>1. PICK max \in Nat : RowsetBegin(max)
    BY <1>1, ConstantsAssumption DEF FetchMany, FetchAll
  <2>2. Idle
    BY <1>1 DEF FetchMany, FetchAll, Calling
  <2>3. ~Idle'
    BY <1>t, <2>1, <2>2, BeginStep DEF Idle
  <2>4. call'.from = pos /\ result' = result
    BY <2>1 DEF RowsetBegin
  <2> QED
    BY <2>2, <2>3, <2>4 DEF Behind
<1>2. CASE (\E size \in Sizes : SetOption(size)) \/ FreeResult
  BY <1>2 DEF SetOption, FreeResult, Behind, Idle
<1>3. CASE Execute
  <2>1. Idle /\ Idle' /\ pos' = 0 /\ result' = Nothing
    BY <1>3 DEF Execute, Idle
  <2> QED
    BY <2>1, OpenRefines
<1>4. CASE UNCHANGED vars
  BY <1>4 DEF vars, Behind, Idle
<1> QED
  BY <1>1, <1>2, <1>3, <1>4

\* However fetchmany, fetchall and the calls for one row are mixed, whatever
\* fails that the code looks at and whichever rows are deleted, they deliver
\* the rows in order, none left out and none twice, or raise an exception: for
\* result sets, arguments and buffers of any size, if each row can be read, the
\* array size is left to the calls, and the three kinds of CLI calls succeed
\* whose failure is ignored (resize, restore) or remembered badly (bind).
\* Without any of these the property does not hold.
THEOREM RowsDelivered ==
  ASSUME Bad = {}, "option" \notin Ops,
         {"resize", "restore", "bind"} \cap Faults = {}
  PROVE  Spec => RowsInOrder
<1>0. RowsGiven
  BY DEF RowsGiven
<1>1. Init => Set!Init
  BY DEF Init, Idle, Set!Init, Set!Nothing, Nothing
<1>2. OrderInv /\ [Next]_vars => Set!Next \/ UNCHANGED <<Behind, result>>
  BY <1>0, LoopRefines, OneRowRefines, OtherRefines DEF Next
<1>3. OrderInv /\ [Next]_vars => [Set!Next]_<<IF Idle THEN pos ELSE call.from, result>>
  BY <1>2 DEF Behind
<1>4. Spec => []OrderInv
  BY <1>0, AlwaysOrder
<1> QED
  BY <1>1, <1>3, <1>4, PTL DEF Spec, RowsInOrder, Set!Spec
=============================================================================
