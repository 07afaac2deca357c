-------------------------- MODULE StmtParamsProofs --------------------------
(***************************************************************************)
(* Proofs about StmtParams: what reaches the client is what was declared   *)
(* or given.  ParamsInv is inductive with every fault, also when the list  *)
(* is a circle; RowsOK, which says of a batch that its rows are sent or    *)
(* refused, needs that SQLParamData does not fail.                         *)
(***************************************************************************)
EXTENDS StmtParams, WellFoundedInduction, TLAPS

-----------------------------------------------------------------------------
(* Numbers and sequences *)

Less == OpToRel(<, Nat)

LEMMA LessPairs == \A x, y \in Nat : <<x, y>> \in Less <=> x < y
BY DEF Less, OpToRel

\* A set of natural numbers that is not empty has a least one.
LEMMA Least ==
  ASSUME NEW T, T \subseteq Nat, T # {}
  PROVE  \E x \in T : \A y \in T : ~ (y < x)
<1>1. IsWellFoundedOn(Less, Nat)
  BY NatLessThanWellFounded DEF Less
<1>2. \E x \in T : \A y \in T : ~ (<<y, x>> \in Less)
  BY <1>1, WFMin
<1> QED
  BY <1>2, LessPairs

Nodes == [param : Params, var : Given \cup {NULL}]

\* The tuples that callers pass are sequences of values.
LEMMA Tuples ==
  ASSUME NEW lengths, lengths \subseteq Nat, NEW values \in OfLengths(lengths)
  PROVE  /\ values \in Seq(Given) /\ Len(values) \in Nat
         /\ DOMAIN values = 1 .. Len(values)
         /\ values \in [1 .. Len(values) -> Given]
<1>1. PICK n \in lengths : values \in [1 .. n -> Given]
  BY DEF OfLengths
<1>2. n \in Nat
  OBVIOUS
<1> QED
  BY <1>1, <1>2

LEMMA Concat ==
  ASSUME NEW a \in Seq(Nodes), NEW b \in Seq(Nodes)
  PROVE  /\ a \o b \in Seq(Nodes) /\ Len(a \o b) = Len(a) + Len(b)
         /\ \A i \in 1 .. Len(a) + Len(b) :
              (a \o b)[i] = IF i <= Len(a) THEN a[i] ELSE b[i - Len(a)]
OBVIOUS

-----------------------------------------------------------------------------
(* The list of parameters *)

\* The place of a parameter comes after the nodes with a smaller number; the
\* node that is there, if any, has one that is not smaller.
LEMMA PlaceFacts ==
  ASSUME cache \in Seq(Nodes), NEW p \in Params
  PROVE  /\ Place(p) \in 1 .. Len(cache) + 1
         /\ \A i \in 1 .. Place(p) - 1 : cache[i].param < p
         /\ Place(p) <= Len(cache) => ~ (cache[Place(p)].param < p)
<1> DEFINE T == {k \in 1 .. Len(cache) + 1 : k \notin Smaller(p)}
<1>0. DOMAIN cache = 1 .. Len(cache) /\ Len(cache) \in Nat
  OBVIOUS
<1>1. Len(cache) + 1 \in T
  BY <1>0 DEF Smaller
<1>2. PICK x \in T : \A y \in T : ~ (y < x)
  <2>1. T \subseteq Nat /\ T # {}
    BY <1>0, <1>1
  <2> HIDE DEF T
  <2> QED
    BY <2>1, Least
<1>3. x \in 1 .. Len(cache) + 1 /\ x \notin Smaller(p)
  OBVIOUS
<1>4. \A k \in 1 .. x - 1 : k \in Smaller(p)
  BY <1>0, <1>2, <1>3
<1>5. \A k \in Smaller(p) : k \in 1 .. Len(cache) /\ k < x
  <2> SUFFICES ASSUME NEW k \in Smaller(p), ~ (k < x) PROVE FALSE
    BY <1>0 DEF Smaller
  <2>1. k \in 1 .. Len(cache) /\ \A j \in 1 .. k : cache[j].param < p
    BY <1>0 DEF Smaller
  <2>2. x \in Smaller(p)
    BY <1>0, <1>3, <2>1 DEF Smaller
  <2> QED
    BY <1>3, <2>2
<1>6. Place(p) = x
  <2>1. CASE x = 1
    <3>1. Smaller(p) = {}
      BY <1>5, <2>1, <1>0
    <3> QED
      BY <2>1, <3>1 DEF Place
  <2>2. CASE x # 1
    <3>1. x - 1 \in Smaller(p) /\ \A j \in Smaller(p) : j <= x - 1
      BY <1>0, <1>3, <1>4, <1>5, <2>2
    <3>2. \A i \in Smaller(p) : (\A j \in Smaller(p) : j <= i) => i = x - 1
      BY <1>0, <1>5, <3>1
    <3>3. x - 1 = CHOOSE i \in Smaller(p) : \A j \in Smaller(p) : j <= i
      BY <3>1, <3>2
    <3>4. Place(p) = 1 + (x - 1)
      BY <3>1, <3>3 DEF Place
    <3> QED
      BY <1>0, <1>3, <3>4
  <2> QED
    BY <2>1, <2>2
<1>7. \A i \in 1 .. x - 1 : cache[i].param < p
  BY <1>0, <1>3, <1>4 DEF Smaller
<1>8. x <= Len(cache) => ~ (cache[x].param < p)
  BY <1>0, <1>3, <1>4, <1>7 DEF Smaller
<1> QED
  BY <1>3, <1>6, <1>7, <1>8

Sorted(nodes) == \A i, j \in DOMAIN nodes : i < j => nodes[i].param < nodes[j].param

\* A list is sorted or a circle.
LEMMA OpenList ==
  ASSUME NodesOK, ~Circular
  PROVE  Sorted(cache)
BY DEF NodesOK, Sorted

LEMMA SortedList ==
  ASSUME NEW nodes \in Seq(Nodes), Sorted(nodes)
  PROVE  ~(Len(nodes) > 1 /\ nodes[2].param < nodes[1].param)
<1> SUFFICES ASSUME Len(nodes) > 1, nodes[2].param < nodes[1].param PROVE FALSE
  OBVIOUS
<1>1. 1 \in DOMAIN nodes /\ 2 \in DOMAIN nodes
  OBVIOUS
<1>2. nodes[1] \in Nodes /\ nodes[2] \in Nodes
  BY <1>1
<1>3. nodes[1].param \in Nat /\ nodes[2].param \in Nat
  BY <1>2, ConstantsAssumption DEF Nodes, Params
<1>4. nodes[1].param < nodes[2].param
  BY <1>1 DEF Sorted
<1> QED
  BY <1>3, <1>4

\* The head of a list takes another node.
LEMMA NewHead ==
  ASSUME NEW S, NEW s \in Seq(S), Len(s) = 2, NEW e \in S
  PROVE  /\ [s EXCEPT ![1] = e] \in Seq(S) /\ Len([s EXCEPT ![1] = e]) = 2
         /\ [s EXCEPT ![1] = e][1] = e /\ [s EXCEPT ![1] = e][2] = s[2]
OBVIOUS

LEMMA StaysOpen ==
  ASSUME cache' \in Seq(Nodes), Sorted(cache')
  PROVE  NodesOK' /\ ~Circular'
<1>1. ~Circular'
  BY SortedList DEF Circular
<1> QED
  BY <1>1 DEF NodesOK, Sorted

\* bind_param puts its node into a sorted list, if its place is not before the
\* head, and keeps the others.
LEMMA AddSorted ==
  ASSUME TypeOK, Sorted(cache), ~Circular, NEW p \in Params, NEW v \in Given,
         AddParamCache(p, v), ~BeforeHead(p)
  PROVE  /\ cache' \in Seq(Nodes) /\ num_params' \in Nat
         /\ Sorted(cache')
         /\ \E i \in DOMAIN cache' : cache'[i] = Node(p, v)
         /\ \A i \in DOMAIN cache : cache[i].param # p =>
              \E j \in DOMAIN cache' : cache'[j] = cache[i]
<1> DEFINE k == Place(p)
<1>t. /\ cache \in Seq(Nodes) /\ num_params \in Nat
      /\ Len(cache) \in Nat /\ DOMAIN cache = 1 .. Len(cache)
  BY DEF TypeOK, Nodes
<1>c. \A i \in 1 .. Len(cache) : cache[i] \in Nodes
  BY <1>t
<1>v. Node(p, v) \in Nodes /\ Node(p, v).param = p
  BY DEF Nodes, Node
<1>k. /\ k \in 1 .. Len(cache) + 1
      /\ \A i \in 1 .. k - 1 : cache[i].param < p
      /\ k <= Len(cache) => ~ (cache[k].param < p)
  BY <1>t, PlaceFacts
<1>p. \A i \in 1 .. Len(cache) : cache[i].param \in Nat
  BY <1>c, ConstantsAssumption DEF Nodes, Params
<1>s. \A i, j \in 1 .. Len(cache) : i < j => cache[i].param < cache[j].param
  BY <1>t DEF Sorted
<1>n. p \in Nat
  BY ConstantsAssumption DEF Params
<1>1. CASE IsCached(p)
  <2>1. cache' = [cache EXCEPT ![k] = Node(p, v)] /\ UNCHANGED num_params
    BY <1>1 DEF AddParamCache
  <2>2. k \in 1 .. Len(cache) /\ cache[k].param = p
    BY <1>1, <1>t, <1>v DEF IsCached
  <2> HIDE DEF k
  <2>3. cache' \in Seq(Nodes) /\ Len(cache') = Len(cache)
    BY <1>t, <1>v, <2>1, <2>2
  <2>4. \A i \in 1 .. Len(cache) :
          cache'[i] = IF i = k THEN Node(p, v) ELSE cache[i]
    BY <1>t, <1>v, <2>1, <2>2
  <2>5. DOMAIN cache' = 1 .. Len(cache)
    BY <1>t, <1>v, <2>1
  <2>6. Sorted(cache')
    BY <1>t, <1>v, <1>s, <2>2, <2>4, <2>5 DEF Sorted
  <2> QED
    BY <1>t, <1>v, <2>1, <2>2, <2>3, <2>4, <2>5, <2>6
<1>2. CASE ~IsCached(p)
  <2>1. /\ cache' = SubSeq(cache, 1, k - 1) \o <<Node(p, v)>>
                      \o SubSeq(cache, k, Len(cache))
        /\ num_params' = num_params + 1
    BY <1>2, ~BeforeHead(p) DEF AddParamCache
  <2>2. k <= Len(cache) => p < cache[k].param
    BY <1>2, <1>t, <1>v, <1>k, <1>p, <1>n DEF IsCached
  <2> HIDE DEF k
  <2>3. /\ SubSeq(cache, 1, k - 1) \in Seq(Nodes)
        /\ Len(SubSeq(cache, 1, k - 1)) = k - 1
        /\ \A i \in 1 .. k - 1 : SubSeq(cache, 1, k - 1)[i] = cache[i]
    BY <1>t, <1>v, <1>k
  <2>4. /\ SubSeq(cache, k, Len(cache)) \in Seq(Nodes)
        /\ Len(SubSeq(cache, k, Len(cache))) = Len(cache) + 1 - k
        /\ \A i \in 1 .. Len(cache) + 1 - k :
             SubSeq(cache, k, Len(cache))[i] = cache[i + k - 1]
    BY <1>t, <1>v, <1>k
  <2> DEFINE left == SubSeq(cache, 1, k - 1)
             right == SubSeq(cache, k, Len(cache))
             node == <<Node(p, v)>>
  <2>5. /\ node \in Seq(Nodes) /\ Len(node) = 1 /\ node[1] = Node(p, v)
    BY <1>t, <1>v
  <2>6. cache' = left \o node \o right
    BY <2>1
  <2>7. left \in Seq(Nodes) /\ right \in Seq(Nodes) /\ Len(left) = k - 1
        /\ Len(right) = Len(cache) + 1 - k
        /\ (\A i \in 1 .. k - 1 : left[i] = cache[i])
        /\ \A i \in 1 .. Len(cache) + 1 - k : right[i] = cache[i + k - 1]
    BY <2>3, <2>4
  <2> HIDE DEF left, right, node
  <2>8. /\ left \o node \in Seq(Nodes) /\ Len(left \o node) = k
        /\ \A i \in 1 .. k : (left \o node)[i] = IF i < k THEN cache[i] ELSE Node(p, v)
    <3>1. /\ left \o node \in Seq(Nodes) /\ Len(left \o node) = Len(left) + Len(node)
          /\ \A i \in 1 .. Len(left) + Len(node) : (left \o node)[i] =
               IF i <= Len(left) THEN left[i] ELSE node[i - Len(left)]
      BY <2>5, <2>7, Concat
    <3>2. Len(left) = k - 1 /\ Len(node) = 1 /\ Len(left) + Len(node) = k
      BY <2>5, <2>7, <1>k, <1>t
    <3>3. \A i \in 1 .. k : IF i < k THEN i <= Len(left) /\ i \in 1 .. k - 1
                             ELSE ~ (i <= Len(left)) /\ i - Len(left) = 1
      BY <3>2, <1>k, <1>t
    <3> QED
      BY <2>5, <2>7, <3>1, <3>2, <3>3
  <2>9. /\ cache' \in Seq(Nodes) /\ Len(cache') = Len(cache) + 1
        /\ DOMAIN cache' = 1 .. Len(cache) + 1
        /\ \A i \in 1 .. Len(cache) + 1 :
             cache'[i] = IF i <= k THEN (left \o node)[i] ELSE right[i - k]
    <3> DEFINE both == left \o node
    <3>1. both \in Seq(Nodes) /\ Len(both) = k /\ cache' = both \o right
      BY <2>6, <2>8
    <3> HIDE DEF both
    <3>2. /\ cache' \in Seq(Nodes) /\ Len(cache') = Len(both) + Len(right)
          /\ \A i \in 1 .. Len(both) + Len(right) :
               cache'[i] = IF i <= Len(both) THEN both[i] ELSE right[i - Len(both)]
      BY <2>7, <3>1, Concat
    <3>3. Len(both) + Len(right) = Len(cache) + 1
      BY <2>7, <3>1, <1>k, <1>t
    <3>4. DOMAIN cache' = 1 .. Len(cache')
      BY <3>2
    <3> QED
      BY <3>1, <3>2, <3>3, <3>4 DEF both
  <2>10. \A i \in 1 .. Len(cache) + 1 :
           cache'[i] = IF i < k THEN cache[i]
                       ELSE IF i = k THEN Node(p, v) ELSE cache[i - 1]
    <3> SUFFICES ASSUME NEW i \in 1 .. Len(cache) + 1
                 PROVE  cache'[i] = IF i < k THEN cache[i]
                                    ELSE IF i = k THEN Node(p, v) ELSE cache[i - 1]
      OBVIOUS
    <3>1. CASE i <= k
      <4>1. i \in 1 .. k /\ (~ (i < k) => i = k)
        BY <3>1, <1>k, <1>t
      <4> QED
        BY <3>1, <4>1, <2>8, <2>9
    <3>2. CASE i > k
      <4>1. i - k \in 1 .. Len(cache) + 1 - k /\ (i - k) + k - 1 = i - 1
        BY <3>2, <1>k, <1>t
      <4>2. cache'[i] = right[i - k]
        BY <3>2, <2>9, <1>k, <1>t
      <4> QED
        BY <3>2, <4>1, <4>2, <2>7, <1>k, <1>t
    <3> QED
      BY <3>1, <3>2, <1>k, <1>t
  <2>11. Sorted(cache')
    <3> SUFFICES ASSUME NEW i \in 1 .. Len(cache) + 1, NEW j \in 1 .. Len(cache) + 1,
                        i < j
                 PROVE  cache'[i].param < cache'[j].param
      BY <2>9 DEF Sorted
    <3>1. CASE j < k
      BY <3>1, <1>t, <1>v, <1>k, <1>s, <2>10
    <3>2. CASE j = k
      BY <3>2, <1>t, <1>v, <1>k, <2>10
    <3>3. CASE j > k /\ i < k
      <4>1. cache'[i].param < p /\ cache'[j] = cache[j - 1] /\ j - 1 \in k .. Len(cache)
        BY <3>3, <1>t, <1>v, <1>k, <2>10
      <4>2. p < cache[k].param /\ (j - 1 # k => cache[k].param < cache[j - 1].param)
        BY <4>1, <2>2, <1>s, <1>k, <1>t, <1>v
      <4>3. cache[i].param \in Nat /\ cache[k].param \in Nat /\ cache[j - 1].param \in Nat
            /\ cache'[i] = cache[i]
        BY <3>3, <4>1, <1>k, <1>p, <1>t, <1>v, <2>10
      <4>4. cache[i].param < cache[j - 1].param
        BY <4>1, <4>2, <4>3, <1>n
      <4> QED
        BY <4>1, <4>3, <4>4
    <3>4. CASE j > k /\ i = k
      <4>1. cache'[i].param = p /\ cache'[j] = cache[j - 1] /\ j - 1 \in k .. Len(cache)
        BY <3>4, <1>t, <1>v, <1>k, <2>10
      <4>2. k <= Len(cache) /\ k \in 1 .. Len(cache) /\ j - 1 \in 1 .. Len(cache)
        BY <4>1, <1>k, <1>t
      <4>3. p < cache[k].param
        BY <4>2, <2>2
      <4>4. j - 1 # k => cache[k].param < cache[j - 1].param
        BY <4>1, <4>2, <1>s
      <4>5. cache[k].param \in Nat /\ cache[j - 1].param \in Nat
        BY <4>2, <1>p
      <4>6. p < cache[j - 1].param
        BY <4>3, <4>4, <4>5, <1>n
      <4> QED
        BY <4>1, <4>6
    <3>5. CASE j > k /\ i > k
      BY <3>5, <1>t, <1>v, <1>k, <1>s, <2>10
    <3> QED
      BY <3>1, <3>2, <3>3, <3>4, <3>5, <1>k, <1>t, <1>v
  <2>12. \A i \in DOMAIN cache : \E j \in DOMAIN cache' : cache'[j] = cache[i]
    <3> SUFFICES ASSUME NEW i \in 1 .. Len(cache)
                 PROVE  \E j \in DOMAIN cache' : cache'[j] = cache[i]
      BY <1>t, <1>v
    <3>1. CASE i < k
      <4>1. i \in DOMAIN cache' /\ cache'[i] = cache[i]
        BY <3>1, <1>t, <2>9, <2>10
      <4> QED
        BY <4>1
    <3>2. CASE ~ (i < k)
      <4>1. i + 1 \in DOMAIN cache' /\ cache'[i + 1] = cache[i]
        BY <3>2, <1>t, <1>v, <1>k, <2>9, <2>10
      <4> QED
        BY <4>1
    <3> QED
      BY <3>1, <3>2
  <2>13. num_params' \in Nat
    BY <1>t, <2>1
  <2>14. k \in DOMAIN cache' /\ cache'[k] = Node(p, v)
    BY <1>k, <1>t, <2>9, <2>10
  <2> QED
    BY <2>9, <2>11, <2>12, <2>13, <2>14
<1> QED
  BY <1>1, <1>2

\* What bind_param does to the list: it stays sorted and gets the value, or it
\* becomes a circle or stays one.
LEMMA AddEffect ==
  ASSUME TypeOK, NodesOK, NEW p \in Params, NEW v \in Given,
         AddParamCache(p, v), ~Searches(p)
  PROVE  /\ cache' \in Seq(Nodes) /\ num_params' \in Nat
         /\ NodesOK'
         /\ ~Circular' =>
              /\ ~Circular
              /\ \E i \in DOMAIN cache' : cache'[i] = Node(p, v)
              /\ \A i \in DOMAIN cache : cache[i].param # p =>
                   \E j \in DOMAIN cache' : cache'[j] = cache[i]
<1>t. /\ cache \in Seq(Nodes) /\ num_params \in Nat
      /\ Len(cache) \in Nat /\ DOMAIN cache = 1 .. Len(cache)
  BY DEF TypeOK, Nodes
<1>v. Node(p, v) \in Nodes /\ Node(p, v).param = p
  BY DEF Nodes, Node
<1>n. /\ p \in Nat
      /\ \A i \in 1 .. Len(cache) : cache[i] \in Nodes /\ cache[i].param \in Nat
  <2>1. \A i \in 1 .. Len(cache) : cache[i] \in Nodes
    BY <1>t
  <2> QED
    BY <2>1, ConstantsAssumption DEF Nodes, Params
<1>k. /\ Place(p) \in 1 .. Len(cache) + 1
      /\ \A i \in 1 .. Place(p) - 1 : cache[i].param < p
  BY <1>t, PlaceFacts
<1>1. CASE BeforeHead(p)
  <2>1. Len(cache) >= 1 /\ p < cache[1].param /\ 1 \in 1 .. Len(cache)
    BY <1>1, <1>t DEF BeforeHead
  <2>2. Place(p) = 1
    <3>1. CASE Place(p) > 1
      <4>1. 1 \in 1 .. Place(p) - 1
        BY <1>k, <1>t, <3>1
      <4>2. cache[1].param < p
        BY <1>k, <4>1
      <4> QED
        BY <1>n, <2>1, <4>2
    <3> QED
      BY <1>k, <1>t, <3>1
  <2>3. ~IsCached(p)
    BY <1>n, <2>1, <2>2 DEF IsCached
  <2>4. cache' = <<cache[1], Node(p, v)>> /\ num_params' = num_params + 1
    BY <1>1, <2>3 DEF AddParamCache
  <2> DEFINE node == Node(p, v)
             head == cache[1]
  <2>5. node \in Nodes /\ head \in Nodes /\ node.param < head.param
        /\ cache' = <<head, node>>
    BY <1>n, <1>v, <2>1, <2>4
  <2> HIDE DEF node, head
  <2>6. /\ cache' \in Seq(Nodes) /\ Len(cache') = 2
        /\ cache'[1] = head /\ cache'[2] = node
    BY <2>5
  <2>7. Circular'
    BY <2>5, <2>6 DEF Circular
  <2>8. NodesOK'
    BY <2>6, <2>7 DEF NodesOK
  <2> QED
    BY <1>t, <2>4, <2>6, <2>7, <2>8
<1>2. CASE ~BeforeHead(p) /\ Circular
  <2>1. /\ Len(cache) = 2 /\ cache[2].param < cache[1].param
        /\ ~(p < cache[1].param) /\ ~(p > cache[1].param)
    BY <1>2, <1>t DEF NodesOK, Circular, Searches, BeforeHead
  <2>2. cache[1].param = p /\ cache[1] \in Nodes
    <3>1. 1 \in 1 .. Len(cache)
      BY <2>1
    <3> QED
      BY <1>n, <2>1, <3>1
  <2>3. Place(p) = 1
    <3>1. CASE Place(p) > 1
      <4>1. 1 \in 1 .. Place(p) - 1
        BY <1>k, <1>t, <3>1
      <4>2. cache[1].param < p
        BY <1>k, <4>1
      <4> QED
        BY <1>n, <2>2, <4>2
    <3> QED
      BY <1>k, <1>t, <3>1
  <2>4. IsCached(p)
    BY <1>t, <2>1, <2>2, <2>3 DEF IsCached
  <2>5. cache' = [cache EXCEPT ![1] = Node(p, v)] /\ UNCHANGED num_params
    BY <2>3, <2>4 DEF AddParamCache
  <2> DEFINE node == Node(p, v)
  <2>6. /\ cache' \in Seq(Nodes) /\ Len(cache') = 2
        /\ cache'[1] = Node(p, v) /\ cache'[2] = cache[2]
    <3>1. node \in Nodes /\ cache' = [cache EXCEPT ![1] = node]
      BY <1>v, <2>5
    <3> HIDE DEF node
    <3>2. /\ cache' \in Seq(Nodes) /\ Len(cache') = Len(cache)
          /\ cache'[1] = node /\ cache'[2] = cache[2]
      BY <1>t, <2>1, <3>1, NewHead
    <3> QED
      BY <2>1, <3>2 DEF node
  <2>7. Circular'
    BY <1>v, <2>1, <2>2, <2>6 DEF Circular
  <2>8. NodesOK'
    BY <2>6, <2>7 DEF NodesOK
  <2> QED
    BY <1>t, <2>5, <2>6, <2>7, <2>8
<1>3. CASE ~BeforeHead(p) /\ ~Circular
  <2>1. Sorted(cache)
    BY <1>3, OpenList
  <2>2. /\ cache' \in Seq(Nodes) /\ num_params' \in Nat
        /\ Sorted(cache')
        /\ \E i \in DOMAIN cache' : cache'[i] = Node(p, v)
        /\ \A i \in DOMAIN cache : cache[i].param # p =>
             \E j \in DOMAIN cache' : cache'[j] = cache[i]
    BY <1>3, <2>1, AddSorted
  <2>3. NodesOK'
    BY <2>2, StaysOpen
  <2> QED
    BY <1>3, <2>2, <2>3
<1> QED
  BY <1>1, <1>2, <1>3
-----------------------------------------------------------------------------
(* Calls that begin and end *)

CallRecords ==
  [at : Stages, values : Seq(Given), next : Nat, count : Nat, dynamic : BOOLEAN,
   warned : BOOLEAN, chaining : BOOLEAN, errors : Nat]

LEMMA CallRecord ==
  ASSUME NEW at \in Stages, NEW values \in Seq(Given), NEW next \in Nat,
         NEW count \in Nat, NEW dynamic \in BOOLEAN, NEW warned \in BOOLEAN,
         NEW chaining \in BOOLEAN, NEW errors \in Nat
  PROVE  [at |-> at, values |-> values, next |-> next, count |-> count,
          dynamic |-> dynamic, warned |-> warned, chaining |-> chaining,
          errors |-> errors] \in CallRecords
BY DEF CallRecords

LEMMA NoCallType == NoCall \in CallRecords
BY DEF NoCall, CallRecords, Stages

\* Between calls nothing is in progress.
LEMMA Ended ==
  ASSUME call' = NoCall
  PROVE  /\ StageOK' /\ ListOK' /\ TupleOK' /\ DescribeOK' /\ DescribedOK'
         /\ RowsOK' /\ RowsAccounted'
BY DEF NoCall, StageOK, ListOK, TupleOK, DescribeOK, DescribedOK, RowsOK,
       RowsAccounted, BindingList, InTuple

\* A call that ends and leaves the list as it was.
LEMMA ReturnStep ==
  ASSUME ParamsInv, UNCHANGED <<cache, num_params>>, NEW a, Return(a),
         a \in {"none", "true", "error", "count", "crash", "hang"},
         cli' \in [Params -> Values \cup {Unbound, Freed}],
         sent' \in Seq([Markers -> Values \cup {Freed}]),
         given' \in Seq(Seq(Given)),
         declared' = declared \/ declared' = [p \in Markers |-> NULL]
  PROVE  ParamsInv'
<1>1. call' = NoCall /\ answer' = a
  BY DEF Return
<1>2. declared' \in [Markers -> Given \cup {NULL}]
  BY DEF ParamsInv, TypeOK
<1>3. TypeOK'
  BY <1>1, <1>2, NoCallType DEF ParamsInv, TypeOK, CallRecords
<1>4. NodesOK' /\ DeclaredOK'
  BY DEF ParamsInv, NodesOK, DeclaredOK, DeclaredListed, Circular
<1> QED
  BY <1>1, <1>3, <1>4, Ended DEF ParamsInv

\* The types of what most actions leave alone.
LEMMA Types ==
  ASSUME ParamsInv
  PROVE  /\ cache \in Seq(Nodes) /\ Len(cache) \in Nat
         /\ DOMAIN cache = 1 .. Len(cache)
         /\ num_params \in Nat
         /\ cli \in [Params -> Values \cup {Unbound, Freed}]
         /\ call \in CallRecords
         /\ sent \in Seq([Markers -> Values \cup {Freed}])
         /\ given \in Seq(Seq(Given))
         /\ declared \in [Markers -> Given \cup {NULL}]
         /\ answer \in {"none", "true", "error", "count", "crash", "hang"}
BY DEF ParamsInv, TypeOK, CallRecords, Nodes

LEMMA NodeTypes ==
  ASSUME ParamsInv, NEW i \in DOMAIN cache
  PROVE  cache[i] \in Nodes /\ cache[i].param \in Params /\ cache[i].param \in Nat
<1>1. cache[i] \in Nodes
  <2>1. cache \in Seq(Nodes)
    BY Types
  <2> QED
    BY <2>1
<1>2. cache[i].param \in Params
  BY <1>1 DEF Nodes
<1> QED
  BY <1>1, <1>2, ConstantsAssumption DEF Params

LEMMA BindParamStep ==
  ASSUME ParamsInv, NEW p \in Params, NEW v \in Given, BindParam(p, v)
  PROVE  ParamsInv'
<1>1. /\ cache' \in Seq(Nodes) /\ num_params' \in Nat
      /\ NodesOK'
      /\ ~Circular' =>
           /\ ~Circular
           /\ \E i \in DOMAIN cache' : cache'[i] = Node(p, v)
           /\ \A i \in DOMAIN cache : cache[i].param # p =>
                \E j \in DOMAIN cache' : cache'[j] = cache[i]
  BY AddEffect DEF BindParam, ParamsInv
<1>2. /\ declared' = [q \in Markers |-> IF q = p THEN v ELSE declared[q]]
      /\ call' = NoCall /\ answer' = "true" /\ sent' = <<>> /\ given' = <<>>
      /\ UNCHANGED cli
  BY DEF BindParam, ReturnAtOnce, Return
<1>3. declared' \in [Markers -> Given \cup {NULL}]
  BY <1>2, Types
<1>4. TypeOK'
  BY <1>1, <1>2, <1>3, NoCallType, Types DEF TypeOK, CallRecords, Nodes
<1>5. DeclaredOK'
  <2> SUFFICES ASSUME ~Circular', NEW q \in Markers, declared'[q] # NULL
               PROVE  \E i \in DOMAIN cache' : cache'[i] = Node(q, declared'[q])
    BY DEF DeclaredOK, DeclaredListed
  <2>1. CASE q = p
    BY <1>1, <1>2, <2>1
  <2>2. CASE q # p
    <3>1. declared'[q] = declared[q]
      BY <1>2, <2>2
    <3>2. PICK i \in DOMAIN cache : cache[i] = Node(q, declared[q])
      BY <1>1, <3>1 DEF ParamsInv, DeclaredOK, DeclaredListed
    <3>3. cache[i].param = q
      BY <3>2 DEF Node
    <3> QED
      BY <1>1, <2>2, <3>1, <3>2, <3>3
  <2> QED
    BY <2>1, <2>2
<1> QED
  BY <1>1, <1>2, <1>4, <1>5, Ended DEF ParamsInv

\* The calls that are refused, and those that do not return.
LEMMA RefusedStep ==
  ASSUME ParamsInv, NEW p \in Params,
         BindParamFails(p) \/ BindParamCrashes(p) \/ BindParamHangs(p)
  PROVE  ParamsInv'
<1>1. CASE BindParamFails(p)
  BY <1>1, Types, ReturnStep DEF BindParamFails, ReturnAtOnce
<1>2. CASE BindParamCrashes(p)
  BY <1>2, Types, ReturnStep DEF BindParamCrashes
<1>3. CASE BindParamHangs(p)
  BY <1>3, Types, ReturnStep DEF BindParamHangs
<1> QED
  BY <1>1, <1>2, <1>3

\* The list is cleared, and no value is declared any more.
LEMMA ClearEffect ==
  ASSUME ParamsInv, ClearParamCache
  PROVE  /\ cache' = <<>> /\ num_params' = 0
         /\ cli' \in [Params -> Values \cup {Unbound, Freed}]
BY Types DEF ClearParamCache

LEMMA ClearedStep ==
  ASSUME ParamsInv, ClearParamCache, NEW a \in {"true", "error"}, Return(a),
         sent' \in Seq([Markers -> Values \cup {Freed}]),
         given' \in Seq(Seq(Given)),
         declared' = [p \in Markers |-> NULL]
  PROVE  ParamsInv'
<1>1. call' = NoCall /\ answer' = a
  BY DEF Return
<1>2. TypeOK'
  BY <1>1, ClearEffect, NoCallType DEF TypeOK, CallRecords
<1>3. NodesOK' /\ DeclaredOK'
  BY ClearEffect DEF NodesOK, DeclaredOK, DeclaredListed, Circular
<1> QED
  BY <1>1, <1>2, <1>3, Ended DEF ParamsInv

LEMMA FreeStep ==
  ASSUME ParamsInv, FreeResult \/ FreeResultCrashes
  PROVE  ParamsInv'
<1>1. CASE FreeResult
  BY <1>1, ClearedStep DEF FreeResult, ReturnAtOnce
<1>2. CASE FreeResultCrashes
  BY <1>2, Types, ReturnStep DEF FreeResultCrashes
<1> QED
  BY <1>1, <1>2

-----------------------------------------------------------------------------
(* execute *)

\* If SQLNumParams succeeds, it counts the markers.
LEMMA CountFacts ==
  ASSUME NEW num \in Counts
  PROVE  num \in Nat /\ (num # 0 => num = M) /\ (num = 0 => ~Counted)
BY ConstantsAssumption DEF Counts, Counted

LEMMA ExecuteStep ==
  ASSUME ParamsInv, NEW num \in Counts, Execute(num)
  PROVE  ParamsInv'
<1>0. UNCHANGED <<cache, num_params, cli, declared>>
  BY DEF Execute
<1>1. CASE num # 0 /\ (num < num_params \/ cache = <<>>)
  <2>1. Return("error") /\ sent' = <<>> /\ given' = <<>>
    BY <1>1 DEF Execute, ReturnAtOnce
  <2>2. /\ cli' \in [Params -> Values \cup {Unbound, Freed}]
        /\ sent' \in Seq([Markers -> Values \cup {Freed}])
        /\ given' \in Seq(Seq(Given))
    BY <1>0, <2>1, Types
  <2> QED
    BY <1>0, <2>1, <2>2, ReturnStep
<1>2. CASE num # 0 /\ ~(num < num_params \/ cache = <<>>)
  <2>1. /\ call' = [NoCall EXCEPT !.at = "bind_list", !.count = Len(cache),
                                  !.warned = num > num_params, !.next = 1]
        /\ sent' = <<>> /\ given' = <<>> /\ UNCHANGED answer
    BY <1>2 DEF Execute, Begin, NoCall
  <2>2. /\ call'.at = "bind_list" /\ call'.count = Len(cache) /\ call'.next = 1
        /\ call'.dynamic = FALSE
    BY <2>1 DEF NoCall
  <2>3. Len(cache) \in Nat \ {0}
    BY <1>2, Types
  <2>4. TypeOK'
    <3> DEFINE more == num > num_params
    <3>1. more \in BOOLEAN
      OBVIOUS
    <3>2. call' = [at |-> "bind_list", values |-> <<>>, next |-> 1,
                   count |-> Len(cache), dynamic |-> FALSE, warned |-> more,
                   chaining |-> FALSE, errors |-> 0]
      BY <2>1 DEF NoCall
    <3> HIDE DEF more
    <3>3. call' \in CallRecords
      <4>1. "bind_list" \in Stages /\ <<>> \in Seq(Given) /\ 1 \in Nat /\ 0 \in Nat
            /\ Len(cache) \in Nat /\ FALSE \in BOOLEAN
        BY <2>3 DEF Stages
      <4> QED
        BY <3>1, <3>2, <4>1, CallRecord
    <3> QED
      BY <1>0, <2>1, <3>3, Types DEF TypeOK, CallRecords, Nodes
  <2>5. NodesOK' /\ DeclaredOK'
    BY <1>0 DEF ParamsInv, NodesOK, DeclaredOK, DeclaredListed, Circular
  <2>6. StageOK' /\ TupleOK' /\ DescribeOK' /\ DescribedOK'
    BY <1>0, <2>1, <2>2, <2>3
       DEF StageOK, TupleOK, DescribeOK, DescribedOK, InTuple
  <2>7. ListOK'
    BY <1>0, <2>1, <2>2, <2>3 DEF ListOK, BindingList
  <2> QED
    BY <2>4, <2>5, <2>6, <2>7 DEF ParamsInv
<1>3. CASE num = 0
  <2>1. /\ call' = [NoCall EXCEPT !.at = "execute", !.next = 1]
        /\ sent' = <<>> /\ given' = <<>> /\ UNCHANGED answer
    BY <1>3 DEF Execute, Begin, NoCall
  <2>2. call' \in CallRecords /\ call'.at = "execute" /\ ~call'.dynamic
    <3>1. call' = [at |-> "execute", values |-> <<>>, next |-> 1, count |-> 0,
                   dynamic |-> FALSE, warned |-> FALSE, chaining |-> FALSE,
                   errors |-> 0]
      BY <2>1 DEF NoCall
    <3>2. "execute" \in Stages /\ <<>> \in Seq(Given) /\ 1 \in Nat /\ 0 \in Nat
          /\ FALSE \in BOOLEAN
      BY DEF Stages
    <3> QED
      BY <3>1, <3>2, CallRecord
  <2>3. TypeOK'
    BY <1>0, <2>1, <2>2, Types DEF TypeOK, CallRecords, Nodes
  <2>4. NodesOK' /\ DeclaredOK'
    BY <1>0 DEF ParamsInv, NodesOK, DeclaredOK, DeclaredListed, Circular
  <2>5. StageOK' /\ ListOK' /\ TupleOK' /\ DescribeOK' /\ DescribedOK'
    BY <1>3, <2>1, <2>2, CountFacts
       DEF StageOK, ListOK, TupleOK, DescribeOK, DescribedOK, BindingList, InTuple
  <2> QED
    BY <2>3, <2>4, <2>5 DEF ParamsInv
<1> QED
  BY <1>1, <1>2, <1>3

\* The loops over values go on to the next one, or to SQLExecute.
LEMMA NextEffect ==
  ASSUME ParamsInv, call' = NextValue, call.at \in {"bind_list", "bind_tuple"}
  PROVE  /\ call' \in CallRecords
         /\ call'.at = IF call.next = call.count THEN "execute" ELSE call.at
         /\ call'.next = call.next + 1 /\ call'.next \in 2 .. call.count + 1
         /\ call'.values = call.values /\ call'.count = call.count
         /\ call'.dynamic = call.dynamic
         /\ call.next \in 1 .. call.count
         /\ call'.at # "execute" => call'.next \in 1 .. call.count
<1>1. call \in CallRecords
  BY Types
<1>2. call.next \in Nat /\ call.count \in Nat /\ call.at \in Stages
  BY <1>1 DEF CallRecords
<1>3. call.next \in 1 .. call.count
  BY DEF ParamsInv, StageOK
<1>4. Bound = (IF call.next = call.count THEN "execute" ELSE call.at)
  <2>1. (call.next >= call.count) <=> (call.next = call.count)
    BY <1>2, <1>3
  <2> QED
    BY <2>1 DEF Bound
<1>5. Bound \in Stages
  BY <1>2, <1>4 DEF Stages
<1>6. /\ call'.at = Bound /\ call'.next = call.next + 1
      /\ call'.values = call.values /\ call'.count = call.count
      /\ call'.dynamic = call.dynamic
  BY <1>1 DEF NextValue, CallRecords
<1>7. call' \in CallRecords
  <2>1. call.next + 1 \in Nat
    BY <1>2
  <2> QED
    BY <1>1, <1>5, <2>1 DEF NextValue, CallRecords
<1>8. /\ call.next + 1 \in 2 .. call.count + 1
      /\ call.next # call.count => call.next + 1 \in 1 .. call.count
  BY <1>2, <1>3
<1> QED
  BY <1>3, <1>4, <1>6, <1>7, <1>8

\* In a circle the loop over the list goes from node to node for ever.
LEMMA CircleEffect ==
  ASSUME ParamsInv, call.at = "bind_list", call' = NextNode, Circular
  PROVE  call' \in CallRecords /\ call'.at = "bind_list" /\ call'.dynamic = call.dynamic
         /\ call'.count = call.count /\ call'.next \in {1, 2}
<1>1. call \in CallRecords
  BY Types
<1>2. call' = [call EXCEPT !.next = IF @ = 1 THEN 2 ELSE 1]
  BY DEF NextNode
<1> QED
  BY <1>1, <1>2 DEF CallRecords

\* The nodes of a sorted list have different parameters.
LEMMA OtherNode ==
  ASSUME ParamsInv, ~Circular, NEW i \in DOMAIN cache, NEW j \in DOMAIN cache, i < j
  PROVE  cache[i].param # cache[j].param
<1>1. cache[i].param < cache[j].param
  BY OpenList DEF ParamsInv, Sorted
<1>2. cache[i].param \in Nat /\ cache[j].param \in Nat
  BY NodeTypes
<1> QED
  BY <1>1, <1>2

\* A value of the list is bound: what is to be shown is what its loop knows.
LEMMA CachedLoop ==
  ASSUME ParamsInv, call.at = "bind_list",
         UNCHANGED <<cache, num_params, sent, given, declared, answer>>,
         cli' \in [Params -> Values \cup {Unbound, Freed}],
         call' \in CallRecords, call'.at \in {"bind_list", "execute"},
         call'.at = "bind_list" => call'.next \in 1 .. call'.count,
         ~call'.dynamic, ListOK'
  PROVE  ParamsInv'
<1>1. TypeOK'
  BY Types DEF TypeOK, CallRecords, Nodes
<1>2. NodesOK' /\ DeclaredOK'
  BY DEF ParamsInv, NodesOK, DeclaredOK, DeclaredListed, Circular
<1>3. StageOK'
  BY DEF ParamsInv, StageOK
<1>4. TupleOK'
  BY DEF ParamsInv, ListOK, BindingList, TupleOK, InTuple
<1>5. DescribeOK' /\ DescribedOK'
  BY DEF DescribeOK, DescribedOK
<1> QED
  BY <1>1, <1>2, <1>3, <1>4, <1>5 DEF ParamsInv

LEMMA BindCachedStep ==
  ASSUME ParamsInv, BindCached
  PROVE  ParamsInv'
<1> DEFINE node == cache[call.next]
<1>1. /\ call.at = "bind_list" /\ UNCHANGED <<cache, num_params, sent, given, declared>>
  BY DEF BindCached
<1>2. CASE node.var \notin Values
  BY <1>1, <1>2, Types, ReturnStep DEF BindCached
<1>3. CASE node.var \in Values
  <2>1. /\ cli' = [cli EXCEPT ![node.param] = node.var]
        /\ call' = NextNode /\ UNCHANGED answer
    BY <1>3 DEF BindCached
  <2>2. call.next \in 1 .. call.count /\ call \in CallRecords
    BY <1>1, Types DEF ParamsInv, StageOK
  <2>3. cli' \in [Params -> Values \cup {Unbound, Freed}]
    BY <1>3, <2>1, Types
  <2>4. /\ given = <<>> /\ ~call.dynamic /\ call.count = Len(cache)
        /\ ~Circular => \A i \in 1 .. call.next - 1 :
                          cli[cache[i].param] = cache[i].var
    BY <1>1 DEF ParamsInv, ListOK, BindingList
  <2>5. CASE Circular
    <3>1. /\ call' \in CallRecords /\ call'.at = "bind_list"
          /\ call'.dynamic = call.dynamic
          /\ call'.count = call.count /\ call'.next \in {1, 2}
      BY <1>1, <2>1, <2>5, CircleEffect
    <3>2. Len(cache) = 2
      BY <2>5 DEF ParamsInv, NodesOK
    <3>3. call'.next \in 1 .. call'.count
      BY <2>4, <3>1, <3>2
    <3>4. ListOK'
      BY <1>1, <2>4, <2>5, <3>1, <3>2 DEF ListOK, Circular
    <3> QED
      BY <1>1, <2>1, <2>3, <2>4, <3>1, <3>3, <3>4, CachedLoop
  <2>6. CASE ~Circular
    <3>1. /\ call' \in CallRecords
          /\ call'.at = IF call.next = call.count THEN "execute" ELSE call.at
          /\ call'.next = call.next + 1 /\ call'.next \in 2 .. call.count + 1
          /\ call'.count = call.count
          /\ call'.dynamic = call.dynamic
          /\ call'.at # "execute" => call'.next \in 1 .. call.count
      BY <1>1, <2>1, <2>6, NextEffect DEF NextNode
    <3>2. ASSUME NEW i \in 1 .. call'.next - 1
          PROVE  cli'[cache[i].param] = cache[i].var
      <4>1. /\ call.next \in DOMAIN cache /\ i \in DOMAIN cache
            /\ i = call.next \/ (i < call.next /\ i \in 1 .. call.next - 1)
        BY <2>2, <2>4, <3>1, <3>2, Types DEF CallRecords
      <4>2. node.param \in Params /\ cache[i].param \in Params
        BY <4>1, NodeTypes
      <4>3. CASE i = call.next
        BY <2>1, <4>2, <4>3, Types
      <4>4. CASE i < call.next /\ i \in 1 .. call.next - 1
        <5>1. cache[i].param # node.param
          BY <2>6, <4>1, <4>4, OtherNode
        <5> QED
          BY <2>1, <2>4, <2>6, <3>2, <4>2, <4>4, <5>1, Types
      <4> QED
        BY <4>1, <4>3, <4>4
    <3>3. ListOK'
      <4>1. ~Circular'
        BY <1>1, <2>6 DEF Circular
      <4>2. call'.next \in 1 .. call'.count + 1
        BY <3>1, <2>2 DEF CallRecords
      <4>3. call'.at = "execute" => call'.next = call'.count + 1
        BY <1>1, <3>1
      <4> QED
        BY <1>1, <2>4, <3>1, <3>2, <4>1, <4>2, <4>3 DEF ListOK
    <3>4. call'.at \in {"bind_list", "execute"}
          /\ call'.at = "bind_list" =>
               call'.next \in 1 .. call'.count
      BY <1>1, <3>1
    <3> QED
      BY <1>1, <2>1, <2>3, <2>4, <3>1, <3>3, <3>4, CachedLoop
  <2> QED
    BY <2>5, <2>6
<1> QED
  BY <1>2, <1>3
-----------------------------------------------------------------------------
(* execute with a tuple *)

\* A call that ends with an error in the loop over the tuple.
LEMMA TupleEndStep ==
  ASSUME ParamsInv, Return("error"), cache' \in Seq(Nodes), num_params' \in Nat,
         cli' \in [Params -> Values \cup {Unbound, Freed}],
         UNCHANGED <<sent, given, declared>>, NodesOK', DeclaredOK'
  PROVE  ParamsInv'
<1>1. call' = NoCall /\ answer' = "error"
  BY DEF Return
<1>2. TypeOK'
  BY <1>1, NoCallType, Types DEF TypeOK, CallRecords, Nodes
<1> QED
  BY <1>1, <1>2, Ended DEF ParamsInv

LEMMA ExecuteTupleStep ==
  ASSUME ParamsInv, NEW values \in OfLengths(Lengths), NEW num \in Counts,
         ExecuteTuple(values, num)
  PROVE  ParamsInv'
<1> DEFINE opts == IF Len(values) > num THEN num_params ELSE Len(values)
           first == cache = <<>>
           more == Len(values) > num
<1>1. /\ values \in Seq(Given) /\ Len(values) \in Nat
  BY Tuples, ConstantsAssumption
<1>2. /\ declared' = [p \in Markers |-> NULL]
      /\ UNCHANGED <<cache, num_params, cli>>
  BY DEF ExecuteTuple
<1>3. CASE num # 0 /\ Len(values) < num
  <2>1. Return("error") /\ sent' = <<>> /\ given' = <<>>
    BY <1>3 DEF ExecuteTuple, ReturnAtOnce
  <2>2. /\ cli' \in [Params -> Values \cup {Unbound, Freed}]
        /\ sent' \in Seq([Markers -> Values \cup {Freed}])
        /\ given' \in Seq(Seq(Given))
    BY <1>2, <2>1, Types
  <2> QED
    BY <1>2, <2>1, <2>2, ReturnStep
<1>4. CASE num # 0 /\ ~(Len(values) < num)
  <2>1. /\ call' = [NoCall EXCEPT
                      !.at = IF opts = 0 THEN "execute" ELSE "bind_tuple",
                      !.values = values, !.count = opts, !.dynamic = first,
                      !.warned = more, !.next = 1]
        /\ sent' = <<>> /\ given' = <<values>> /\ UNCHANGED answer
    BY <1>4 DEF ExecuteTuple, Begin, NoCall
  <2>2. call' = [at |-> IF opts = 0 THEN "execute" ELSE "bind_tuple",
                 values |-> values, next |-> 1, count |-> opts, dynamic |-> first,
                 warned |-> more, chaining |-> FALSE, errors |-> 0]
    BY <2>1 DEF NoCall
  <2>3. opts \in Nat /\ M \in Nat \ {0} /\ (Len(values) = M => opts = M)
    BY <1>1, <1>4, Types, CountFacts, ConstantsAssumption
  <2>4. first \in BOOLEAN /\ more \in BOOLEAN
    OBVIOUS
  <2>5. first => cache = <<>>
    OBVIOUS
  <2> HIDE DEF opts, first, more
  <2>6. call' \in CallRecords
    <3>1. (IF opts = 0 THEN "execute" ELSE "bind_tuple") \in Stages
          /\ 1 \in Nat /\ 0 \in Nat /\ FALSE \in BOOLEAN
      BY DEF Stages
    <3> QED
      BY <1>1, <2>2, <2>3, <2>4, <3>1, CallRecord
  <2>7. /\ call'.at = (IF opts = 0 THEN "execute" ELSE "bind_tuple")
        /\ call'.values = values /\ call'.next = 1 /\ call'.count = opts
        /\ call'.dynamic = first
    BY <2>2
  <2>8. given' \in Seq(Seq(Given)) /\ given' # <<>>
    BY <1>1, <2>1
  <2>9. \A p \in Markers : declared'[p] = NULL
    BY <1>2
  <2>10. TypeOK'
    <3>1. declared' \in [Markers -> Given \cup {NULL}]
      BY <1>2
    <3> QED
      BY <1>2, <2>1, <2>6, <2>8, <3>1, Types DEF TypeOK, CallRecords, Nodes
  <2>11. NodesOK' /\ DeclaredOK'
    BY <1>2, <2>9 DEF ParamsInv, NodesOK, DeclaredOK, DeclaredListed, Circular
  <2>12. StageOK' /\ ListOK' /\ DescribeOK' /\ DescribedOK'
    BY <2>1, <2>3, <2>7, <2>8, <2>9
       DEF StageOK, ListOK, DescribeOK, DescribedOK, BindingList
  <2>13. TupleOK'
    <3>1. call'.dynamic => /\ ~Circular'
                           /\ \A i \in DOMAIN cache' : cache'[i].param <= num_params'
      BY <1>2, <2>5, <2>7 DEF Circular
    <3>2. /\ call'.next \in 1 .. call'.count + 1
          /\ call'.at = "execute" => call'.next = call'.count + 1
          /\ Exact' => call'.count = M
      BY <2>3, <2>7 DEF Exact
    <3>3. call'.next - 1 = 0 /\ 1 .. call'.next - 1 = {} /\ ~(call'.next > 1)
      BY <2>7
    <3>4. 0 <= num_params'
      BY <1>2, Types
    <3> QED
      BY <2>1, <2>7, <2>9, <3>1, <3>2, <3>3, <3>4 DEF TupleOK
  <2> QED
    BY <2>10, <2>11, <2>12, <2>13 DEF ParamsInv
<1>5. CASE num = 0
  <2>1. /\ call' = [NoCall EXCEPT !.at = "execute", !.next = 1]
        /\ sent' = <<>> /\ given' = <<values>> /\ UNCHANGED answer
    BY <1>5 DEF ExecuteTuple, Begin, NoCall
  <2>2. call' \in CallRecords /\ call'.at = "execute" /\ ~call'.dynamic
    <3>1. call' = [at |-> "execute", values |-> <<>>, next |-> 1, count |-> 0,
                   dynamic |-> FALSE, warned |-> FALSE, chaining |-> FALSE,
                   errors |-> 0]
      BY <2>1 DEF NoCall
    <3>2. "execute" \in Stages /\ <<>> \in Seq(Given) /\ 1 \in Nat /\ 0 \in Nat
          /\ FALSE \in BOOLEAN
      BY DEF Stages
    <3> QED
      BY <3>1, <3>2, CallRecord
  <2>3. given' \in Seq(Seq(Given)) /\ declared' \in [Markers -> Given \cup {NULL}]
    BY <1>1, <1>2, <2>1
  <2>4. TypeOK'
    BY <1>2, <2>1, <2>2, <2>3, Types DEF TypeOK, CallRecords, Nodes
  <2>5. NodesOK' /\ DeclaredOK'
    BY <1>2 DEF ParamsInv, NodesOK, DeclaredOK, DeclaredListed, Circular
  <2>6. StageOK' /\ ListOK' /\ TupleOK' /\ DescribeOK' /\ DescribedOK'
    BY <1>5, <2>1, <2>2, CountFacts
       DEF StageOK, ListOK, TupleOK, DescribeOK, DescribedOK, BindingList, InTuple
  <2> QED
    BY <2>4, <2>5, <2>6 DEF ParamsInv
<1> QED
  BY <1>3, <1>4, <1>5

\* What holds in the loop over the tuple.
LEMMA InLoop ==
  ASSUME ParamsInv, NEW dynamic \in BOOLEAN, BindingTuple(dynamic)
  PROVE  /\ call.at = "bind_tuple" /\ call.dynamic = dynamic
         /\ UNCHANGED <<sent, given, declared>>
         /\ sent = <<>> /\ given = <<call.values>> /\ given # <<>>
         /\ call.next \in 1 .. call.count
         /\ Exact => call.count = M
         /\ call.next \in Nat /\ call.count \in Nat /\ call.values \in Seq(Given)
         /\ Len(call.values) \in Nat
<1>1. call.at = "bind_tuple" /\ call.dynamic = dynamic
      /\ UNCHANGED <<sent, given, declared>>
  BY DEF BindingTuple
<1>2. sent = <<>> /\ call.next \in 1 .. call.count
  BY <1>1 DEF ParamsInv, StageOK
<1>3. given = <<call.values>> /\ (Exact => call.count = M)
  BY <1>1 DEF ParamsInv, TupleOK, InTuple
<1>4. call.next \in Nat /\ call.count \in Nat /\ call.values \in Seq(Given)
  BY Types DEF CallRecords
<1>5. given # <<>> /\ Len(call.values) \in Nat
  BY <1>3, <1>4
<1> QED
  BY <1>1, <1>2, <1>3, <1>4, <1>5

\* One value more of the tuple: what remains to be shown is what was bound.
LEMMA LoopStep ==
  ASSUME ParamsInv, NEW dynamic \in BOOLEAN, BindingTuple(dynamic),
         call' = NextValue, UNCHANGED answer,
         cache' \in Seq(Nodes), num_params' \in Nat,
         cli' \in [Params -> Values \cup {Unbound, Freed}],
         NodesOK', DeclaredOK',
         IF dynamic
         THEN /\ ~Circular' /\ \A i \in DOMAIN cache' : cache'[i].param <= num_params'
              /\ Exact =>
                   /\ call.next <= num_params' /\ num_params' <= M
                   /\ \A i \in 1 .. call.next :
                        cli'[(num_params' + i) - call.next] = call.values[i]
         ELSE ~Circular' =>
                \A i \in 1 .. call.next :
                  i <= Len(cache') /\ i <= Len(call.values) =>
                    cli'[cache'[i].param] = call.values[i]
  PROVE  ParamsInv'
<1>1. /\ call.at = "bind_tuple" /\ call.dynamic = dynamic
      /\ UNCHANGED <<sent, given, declared>>
      /\ sent = <<>> /\ given = <<call.values>> /\ given # <<>>
      /\ call.next \in 1 .. call.count
      /\ Exact => call.count = M
      /\ call.next \in Nat /\ call.count \in Nat
  BY InLoop
<1>2. /\ call' \in CallRecords
      /\ call'.at = IF call.next = call.count THEN "execute" ELSE call.at
      /\ call'.next = call.next + 1 /\ call'.next \in 2 .. call.count + 1
      /\ call'.values = call.values /\ call'.count = call.count
      /\ call'.dynamic = call.dynamic
      /\ call'.at # "execute" => call'.next \in 1 .. call.count
  BY <1>1, NextEffect
<1>3. TypeOK'
  BY <1>1, <1>2, Types DEF TypeOK, CallRecords, Nodes
<1>4. StageOK' /\ ListOK' /\ DescribeOK' /\ DescribedOK'
  BY <1>1, <1>2
     DEF ParamsInv, StageOK, ListOK, DescribeOK, DescribedOK, BindingList
<1>5. /\ call'.next \in 1 .. call'.count + 1
      /\ call'.at = "execute" => call'.next = call'.count + 1
      /\ Exact' <=> Exact
      /\ call'.next - 1 = call.next
      /\ \A n \in Nat, i \in 1 .. call.next : (n + i + 1) - call'.next = (n + i) - call.next
  <2>1. call'.next \in 1 .. call'.count + 1
        /\ (call'.at = "execute" => call'.next = call'.count + 1)
    BY <1>1, <1>2
  <2>2. Exact' <=> Exact
    BY <1>2 DEF Exact
  <2>3. /\ call'.next - 1 = call.next
        /\ \A n \in Nat, i \in 1 .. call.next :
             (n + i + 1) - call'.next = (n + i) - call.next
    BY <1>1, <1>2
  <2> QED
    BY <2>1, <2>2, <2>3
<1>6. TupleOK'
  <2>1. CASE dynamic
    <3>1. \A i \in 1 .. call'.next - 1 : Exact =>
            cli'[(num_params' + i + 1) - call'.next] = call'.values[i]
      BY <1>2, <1>5, <2>1
    <3>2. /\ ~Circular' /\ \A i \in DOMAIN cache' : cache'[i].param <= num_params'
          /\ Exact => call'.next - 1 <= num_params' /\ num_params' <= M
      BY <1>1, <1>5, <2>1
    <3>3. /\ given' = <<call'.values>> /\ call'.dynamic
          /\ Exact' => call'.count = M
      BY <1>1, <1>2, <1>5, <2>1
    <3> QED
      BY <1>5, <3>1, <3>2, <3>3 DEF TupleOK
  <2>2. CASE ~dynamic
    <3>1. /\ given' = <<call'.values>> /\ ~call'.dynamic
          /\ Exact' => call'.count = M
      BY <1>1, <1>2, <1>5, <2>2
    <3>2. ~Circular' =>
            \A i \in 1 .. call'.next - 1 :
              i <= Len(cache') /\ i <= Len(call'.values) =>
                cli'[cache'[i].param] = call'.values[i]
      BY <1>2, <1>5, <2>2
    <3> QED
      BY <1>5, <3>1, <3>2 DEF TupleOK
  <2> QED
    BY <2>1, <2>2
<1> QED
  BY <1>3, <1>4, <1>6 DEF ParamsInv
\* What was bound before, to the parameter that was described for a value.
LEMMA BoundDescribed ==
  ASSUME ParamsInv, BindingTuple(TRUE)
  PROVE  /\ ~Circular /\ \A p \in Markers : declared[p] = NULL
         /\ \A i \in DOMAIN cache : cache[i].param <= num_params
         /\ Exact =>
              /\ call.next - 1 <= num_params
              /\ call.next > 1 => num_params <= M
              /\ \A i \in 1 .. call.next - 1 :
                   cli[(num_params + i + 1) - call.next] = call.values[i]
BY DEF BindingTuple, ParamsInv, StageOK, TupleOK, InTuple

\* What was bound before, to the node of a value.
LEMMA BoundNodes ==
  ASSUME ParamsInv, BindingTuple(FALSE), ~Circular
  PROVE  \A i \in 1 .. call.next - 1 :
           i <= Len(cache) /\ i <= Len(call.values) =>
             cli[cache[i].param] = call.values[i]
BY DEF BindingTuple, ParamsInv, TupleOK, InTuple

\* Append a node whose parameter comes after all others.
LEMMA AppendEffect ==
  ASSUME ParamsInv, ~Circular, NEW p \in Params, \A i \in DOMAIN cache : cache[i].param < p,
         cache' = Append(cache, Node(p, NULL))
  PROVE  /\ cache' \in Seq(Nodes) /\ Len(cache') = Len(cache) + 1
         /\ DOMAIN cache' = 1 .. Len(cache) + 1
         /\ \A i \in 1 .. Len(cache) : cache'[i] = cache[i]
         /\ cache'[Len(cache) + 1].param = p
         /\ NodesOK' /\ ~Circular'
<1>1. cache \in Seq(Nodes) /\ Len(cache) \in Nat /\ DOMAIN cache = 1 .. Len(cache)
  BY Types
<1>2. Node(p, NULL) \in Nodes /\ Node(p, NULL).param = p
  BY DEF Nodes, Node
<1> DEFINE node == Node(p, NULL)
<1> HIDE DEF node
<1>3. node \in Nodes /\ node.param = p /\ cache' = Append(cache, node)
  BY <1>2 DEF node
<1>4. /\ cache' \in Seq(Nodes) /\ Len(cache') = Len(cache) + 1
      /\ \A i \in 1 .. Len(cache) : cache'[i] = cache[i]
      /\ cache'[Len(cache) + 1] = node
  BY <1>1, <1>3
<1>5. DOMAIN cache' = 1 .. Len(cache) + 1
  BY <1>1, <1>4
<1>0. Sorted(cache)
  BY OpenList DEF ParamsInv
<1>6. Sorted(cache')
  <2> SUFFICES ASSUME NEW i \in 1 .. Len(cache) + 1, NEW j \in 1 .. Len(cache) + 1,
                      i < j
               PROVE  cache'[i].param < cache'[j].param
    BY <1>5 DEF Sorted
  <2>1. i \in 1 .. Len(cache) /\ (j \in 1 .. Len(cache) \/ j = Len(cache) + 1)
    BY <1>1
  <2>2. CASE j \in 1 .. Len(cache)
    BY <1>0, <1>1, <1>4, <2>1, <2>2 DEF Sorted
  <2>3. CASE j = Len(cache) + 1
    BY <1>1, <1>3, <1>4, <2>1, <2>3
  <2> QED
    BY <2>1, <2>2, <2>3
<1>7. NodesOK' /\ ~Circular'
  BY <1>4, <1>6, StaysOpen
<1> QED
  BY <1>3, <1>4, <1>5, <1>7

LEMMA NoItemStep ==
  ASSUME ParamsInv, NoItem
  PROVE  ParamsInv'
<1> PICK dynamic \in BOOLEAN : BindingTuple(dynamic)
  BY DEF NoItem
<1>1. /\ ~(call.next <= Len(call.values)) /\ call' = NextValue
      /\ UNCHANGED <<cache, num_params, cli, answer, declared>>
  <2>1. call.next > Len(call.values) /\ call' = NextValue
        /\ UNCHANGED <<cache, num_params, cli, answer, declared>>
    BY InLoop DEF NoItem
  <2> QED
    BY <2>1, InLoop
<1>2. NodesOK' /\ DeclaredOK'
  BY <1>1 DEF ParamsInv, NodesOK, DeclaredOK, DeclaredListed, Circular
<1>3. ~Exact
  BY <1>1, InLoop, ConstantsAssumption DEF Exact
<1>4. \A i \in 1 .. call.next : i <= Len(call.values) => i \in 1 .. call.next - 1
  BY <1>1, InLoop
<1>5. CASE BindingTuple(TRUE)
  <2>1. ~Circular' /\ \A i \in DOMAIN cache' : cache'[i].param <= num_params'
    BY <1>1, <1>5, BoundDescribed DEF Circular
  <2> QED
    BY <1>1, <1>2, <1>3, <1>5, <2>1, LoopStep, Types
<1>6. CASE BindingTuple(FALSE)
  <2>1. ~Circular' =>
          \A i \in 1 .. call.next :
            i <= Len(cache') /\ i <= Len(call.values) =>
              cli'[cache'[i].param] = call.values[i]
    BY <1>1, <1>4, <1>6, BoundNodes DEF Circular
  <2> QED
    BY <1>1, <1>2, <1>6, <2>1, LoopStep, Types
<1> QED
  BY <1>5, <1>6

LEMMA DescribeFailsStep ==
  ASSUME ParamsInv, DescribeFails
  PROVE  ParamsInv'
<1>1. /\ BindingTuple(TRUE) /\ Return("error") /\ num_params' = num_params + 1
      /\ UNCHANGED <<cache, cli>>
  BY DEF DescribeFails
<1>2. UNCHANGED <<sent, given, declared>>
  BY <1>1 DEF BindingTuple
<1>3. NodesOK' /\ DeclaredOK'
  BY <1>1, <1>2 DEF ParamsInv, NodesOK, DeclaredOK, DeclaredListed, Circular
<1> QED
  BY <1>1, <1>2, <1>3, Types, TupleEndStep

LEMMA BindDescribedStep ==
  ASSUME ParamsInv, BindDescribed
  PROVE  ParamsInv'
<1> DEFINE p == num_params + 1
           v == call.values[call.next]
<1>1. /\ BindingTuple(TRUE) /\ call.next <= Len(call.values) /\ p \in Markers
      /\ num_params' = p /\ cache' = Append(cache, Node(p, NULL))
      /\ IF v \in Values
         THEN /\ cli' = [cli EXCEPT ![p] = v]
              /\ call' = NextValue /\ UNCHANGED answer
         ELSE Return("error") /\ UNCHANGED cli
  BY DEF BindDescribed
<1>2. /\ num_params \in Nat /\ M \in Nat /\ p \in Nat /\ p <= M /\ num_params < p
      /\ p \in Params
  BY <1>1, Types, ConstantsAssumption DEF Markers, Params
<1> HIDE DEF p
<1>3. /\ ~Circular /\ \A q \in Markers : declared[q] = NULL
      /\ \A i \in DOMAIN cache : cache[i].param <= num_params
  BY <1>1, BoundDescribed
<1>4. \A i \in DOMAIN cache : cache[i].param \in Nat
  BY NodeTypes
<1>5. \A i \in DOMAIN cache : cache[i].param < p
  BY <1>2, <1>3, <1>4
<1>6. /\ cache' \in Seq(Nodes) /\ Len(cache') = Len(cache) + 1
      /\ DOMAIN cache' = 1 .. Len(cache) + 1
      /\ \A i \in 1 .. Len(cache) : cache'[i] = cache[i]
      /\ cache'[Len(cache) + 1].param = p
      /\ NodesOK' /\ ~Circular'
  BY <1>1, <1>2, <1>3, <1>5, AppendEffect
<1>7. UNCHANGED <<sent, given, declared>>
  BY <1>1, InLoop
<1>8. DeclaredOK'
  BY <1>3, <1>7 DEF DeclaredOK, DeclaredListed
<1>9. \A i \in DOMAIN cache' : cache'[i].param <= num_params'
  <2> SUFFICES ASSUME NEW i \in 1 .. Len(cache) + 1 PROVE cache'[i].param <= p
    BY <1>1, <1>6
  <2>1. i \in DOMAIN cache \/ i = Len(cache) + 1
    BY Types
  <2>2. CASE i \in DOMAIN cache
    BY <1>2, <1>4, <1>5, <1>6, <2>2, Types
  <2>3. CASE i = Len(cache) + 1
    BY <1>2, <1>6, <2>3
  <2> QED
    BY <2>1, <2>2, <2>3
<1>10. CASE v \notin Values
  <2>1. Return("error") /\ UNCHANGED cli
    BY <1>1, <1>10
  <2>2. num_params' \in Nat
    BY <1>1, <1>2
  <2> QED
    BY <1>6, <1>7, <1>8, <2>1, <2>2, Types, TupleEndStep
<1>11. CASE v \in Values
  <2>1. /\ cli' = [cli EXCEPT ![p] = v]
        /\ call' = NextValue /\ UNCHANGED answer
    BY <1>1, <1>11
  <2>2. cli' \in [Params -> Values \cup {Unbound, Freed}]
    BY <1>2, <1>11, <2>1, Types
  <2>3. ASSUME Exact
        PROVE  /\ call.next <= num_params' /\ num_params' <= M
               /\ \A i \in 1 .. call.next :
                    cli'[(num_params' + i) - call.next] = call.values[i]
    <3>1. /\ call.next - 1 <= num_params
          /\ \A i \in 1 .. call.next - 1 :
               cli[(num_params + i + 1) - call.next] = call.values[i]
      BY <1>1, <2>3, BoundDescribed
    <3>2. call.next \in Nat /\ call.next >= 1
      <4>1. call.next \in Nat /\ call.count \in Nat /\ call.next \in 1 .. call.count
        BY <1>1, InLoop
      <4> QED
        BY <4>1
    <3>3. call.next <= num_params' /\ num_params' <= M
      BY <1>1, <1>2, <3>1, <3>2
    <3>4. ASSUME NEW i \in 1 .. call.next
          PROVE  cli'[(num_params' + i) - call.next] = call.values[i]
      <4>1. CASE i = call.next
        <5>1. (num_params' + i) - call.next = p
          BY <1>1, <1>2, <3>2, <4>1
        <5> QED
          BY <1>2, <2>1, <4>1, <5>1, Types
      <4>2. CASE i # call.next
        <5>1. /\ i \in 1 .. call.next - 1
              /\ (num_params' + i) - call.next = (num_params + i + 1) - call.next
              /\ (num_params + i + 1) - call.next \in 1 .. M
              /\ (num_params + i + 1) - call.next # p
          BY <1>1, <1>2, <3>1, <3>2, <4>2 DEF p
        <5>2. (num_params + i + 1) - call.next \in Params
          BY <1>2, <5>1 DEF Params
        <5> QED
          BY <1>2, <2>1, <3>1, <5>1, <5>2, Types
      <4> QED
        BY <4>1, <4>2
    <3> QED
      BY <3>3, <3>4
  <2>4. num_params' \in Nat
    BY <1>1, <1>2
  <2> QED
    BY <1>1, <1>3, <1>6, <1>8, <1>9, <2>1, <2>2, <2>3, <2>4, LoopStep
<1> QED
  BY <1>10, <1>11

LEMMA BindCurrentStep ==
  ASSUME ParamsInv, BindCurrent
  PROVE  ParamsInv'
<1> DEFINE v == call.values[call.next]
           param == cache[CurrentNode].param
<1>1. /\ BindingTuple(FALSE) /\ call.next <= Len(call.values)
      /\ UNCHANGED <<cache, num_params>>
  BY DEF BindCurrent
<1>2. UNCHANGED <<sent, given, declared>> /\ (Circular' <=> Circular)
  BY <1>1, InLoop DEF Circular
<1>3. NodesOK' /\ DeclaredOK'
  BY <1>1, <1>2 DEF ParamsInv, NodesOK, DeclaredOK, DeclaredListed, Circular
<1>4. call.next \in Nat /\ call.next >= 1 /\ Len(cache) \in Nat
      /\ DOMAIN cache = 1 .. Len(cache)
  <2>1. call.next \in Nat /\ call.count \in Nat /\ call.next \in 1 .. call.count
    BY <1>1, InLoop
  <2> QED
    BY <2>1, Types
<1>5. ~Circular => \A i \in 1 .. call.next - 1 :
        i <= Len(cache) /\ i <= Len(call.values) =>
          cli[cache[i].param] = call.values[i]
  BY <1>1, BoundNodes
<1>6. CASE CurrentNode > Len(cache)
  <2>1. call' = NextValue /\ UNCHANGED <<cli, answer>>
    BY <1>6 DEF BindCurrent
  <2>2. ~Circular => \A i \in 1 .. call.next : i <= Len(cache) => i \in 1 .. call.next - 1
    BY <1>4, <1>6, Types DEF CurrentNode
  <2>3. ~Circular' =>
          \A i \in 1 .. call.next :
            i <= Len(cache') /\ i <= Len(call.values) =>
              cli'[cache'[i].param] = call.values[i]
    BY <1>1, <1>2, <1>5, <2>1, <2>2
  <2> QED
    BY <1>1, <1>3, <2>1, <2>3, LoopStep, Types
<1>7. CASE ~(CurrentNode > Len(cache)) /\ v \notin Values
  <2>1. Return("error") /\ UNCHANGED cli
    BY <1>7 DEF BindCurrent
  <2> QED
    BY <1>1, <1>2, <1>3, <2>1, Types, TupleEndStep
<1>8. CASE ~(CurrentNode > Len(cache)) /\ v \in Values
  <2>1. /\ cli' = [cli EXCEPT ![param] = v] /\ call' = NextValue /\ UNCHANGED answer
    BY <1>8 DEF BindCurrent
  <2>2. CurrentNode \in 1 .. Len(cache)
    <3>1. CASE Circular
      <4>1. Len(cache) = 2
        BY <3>1 DEF ParamsInv, NodesOK
      <4>2. call.next % 2 \in {0, 1}
        BY <1>4
      <4> QED
        BY <3>1, <4>1, <4>2 DEF CurrentNode
    <3>2. CASE ~Circular
      BY <1>4, <1>8, <3>2 DEF CurrentNode
    <3> QED
      BY <3>1, <3>2
  <2>3. param \in Params
    BY <1>4, <2>2, NodeTypes
  <2>4. cli' \in [Params -> Values \cup {Unbound, Freed}]
    BY <1>8, <2>1, <2>3, Types
  <2>5. ASSUME ~Circular, NEW i \in 1 .. call.next, i <= Len(cache),
               i <= Len(call.values)
        PROVE  cli'[cache[i].param] = call.values[i]
    <3>0. CurrentNode = call.next
      BY <2>5 DEF CurrentNode
    <3>1. CASE i = call.next
      BY <2>1, <2>3, <3>0, <3>1, Types
    <3>2. CASE i # call.next
      <4>1. i \in 1 .. call.next - 1 /\ i \in DOMAIN cache /\ i < CurrentNode
        BY <1>4, <2>5, <3>0, <3>2
      <4>2. cache[i].param # param /\ cache[i].param \in Params
        BY <1>4, <2>2, <2>5, <4>1, OtherNode, NodeTypes
      <4> QED
        BY <1>5, <2>1, <2>3, <2>5, <4>1, <4>2, Types
    <3> QED
      BY <3>1, <3>2
  <2>6. ~Circular' =>
          \A i \in 1 .. call.next :
            i <= Len(cache') /\ i <= Len(call.values) =>
              cli'[cache'[i].param] = call.values[i]
    BY <1>1, <1>2, <2>5
  <2> QED
    BY <1>1, <1>3, <2>1, <2>4, <2>6, LoopStep, Types
<1> QED
  BY <1>6, <1>7, <1>8
-----------------------------------------------------------------------------
(* SQLExecute *)

\* SQLExecute reads every marker's buffer.
LEMMA SendEffect ==
  ASSUME ParamsInv, call.at = "execute", AllBound(cli), Sends(cli)
  PROVE  /\ sent = <<>> /\ sent' = <<[p \in Markers |-> cli[p]]>>
         /\ sent' \in Seq([Markers -> Values \cup {Freed}])
<1>1. sent = <<>>
  BY DEF ParamsInv, StageOK
<1> DEFINE buffers == [p \in Markers |-> cli[p]]
<1>2. \A p \in Markers : cli[p] \in Values \cup {Freed}
  <2>1. \A p \in Markers : p \in Params
    BY ConstantsAssumption DEF Params, Markers
  <2> QED
    BY <2>1, Types DEF AllBound
<1>3. buffers \in [Markers -> Values \cup {Freed}]
  BY <1>2
<1>4. sent' = Append(sent, buffers)
  BY DEF Sends
<1> HIDE DEF buffers
<1>5. sent' = <<buffers>> /\ sent' \in Seq([Markers -> Values \cup {Freed}])
  BY <1>1, <1>3, <1>4
<1> QED
  BY <1>1, <1>5 DEF buffers

\* Parameters are described again only in a call with a tuple, which has no
\* declared values.
LEMMA DynamicFacts ==
  ASSUME ParamsInv, call.at = "execute", call.dynamic
  PROVE  \A p \in Markers : declared[p] = NULL
BY DEF ParamsInv, StageOK

LEMMA SqlExecuteStep ==
  ASSUME ParamsInv, SqlExecute
  PROVE  ParamsInv'
<1> DEFINE a == IF call.warned THEN "error" ELSE "true"
<1>1. /\ call.at = "execute" /\ AllBound(cli) /\ Sends(cli)
      /\ Return(a) /\ UNCHANGED <<given, declared>>
  BY DEF SqlExecute
<1>2. a \in {"true", "error"} /\ a \in {"none", "true", "error", "count", "crash", "hang"}
  OBVIOUS
<1> HIDE DEF a
<1>3. sent' \in Seq([Markers -> Values \cup {Freed}])
  BY <1>1, SendEffect
<1>4. given' \in Seq(Seq(Given))
  BY <1>1, Types
<1>5. CASE call.dynamic
  <2>1. ClearParamCache
    BY <1>5 DEF SqlExecute
  <2>2. declared' = [p \in Markers |-> NULL]
    BY <1>1, <1>5, DynamicFacts, Types
  <2> QED
    BY <1>1, <1>2, <1>3, <1>4, <2>1, <2>2, ClearedStep
<1>6. CASE ~call.dynamic
  <2>1. UNCHANGED <<cache, num_params, cli>>
    BY <1>6 DEF SqlExecute
  <2>2. cli' \in [Params -> Values \cup {Unbound, Freed}]
    BY <2>1, Types
  <2> QED
    BY <1>1, <1>2, <1>3, <1>4, <2>1, <2>2, ReturnStep
<1> QED
  BY <1>5, <1>6

\* The calls that end with an error, or with the count of a batch, and leave
\* everything else as it is.
LEMMA EndStep ==
  ASSUME ParamsInv, NEW a \in {"error", "count"}, Return(a),
         UNCHANGED <<cache, num_params, cli, sent, given, declared>>
  PROVE  ParamsInv'
<1>1. /\ cli' \in [Params -> Values \cup {Unbound, Freed}]
      /\ sent' \in Seq([Markers -> Values \cup {Freed}])
      /\ given' \in Seq(Seq(Given))
  BY Types
<1> QED
  BY <1>1, ReturnStep

-----------------------------------------------------------------------------
(* execute_many *)

LEMMA ExecuteManyStep ==
  ASSUME ParamsInv, NEW n \in 0 .. MaxRows, NEW num \in Counts,
         ExecuteMany(n, num)
  PROVE  ParamsInv'
<1>1. n \in Nat
  BY ConstantsAssumption
<1>2. /\ cache' = <<>> /\ declared' = [p \in Markers |-> NULL]
      /\ sent' = <<>> /\ given' = <<>> /\ UNCHANGED <<num_params, cli>>
  BY DEF ExecuteMany, Begin, ReturnAtOnce
<1>3. NodesOK' /\ DeclaredOK'
  BY <1>2 DEF NodesOK, DeclaredOK, DeclaredListed, Circular
<1>4. declared' \in [Markers -> Given \cup {NULL}]
  BY <1>2
<1>5. CASE num = 0 /\ n = 0
  <2>1. call' = NoCall /\ answer' = "count"
    BY <1>5 DEF ExecuteMany, ReturnAtOnce, Return
  <2>2. TypeOK'
    BY <1>2, <1>4, <2>1, NoCallType, Types DEF TypeOK, CallRecords
  <2> QED
    BY <1>3, <2>1, <2>2, Ended DEF ParamsInv
<1>6. CASE ~(num = 0 /\ n = 0)
  <2> DEFINE stage == IF num = 0 THEN "rows" ELSE "describe"
  <2>1. /\ call' = [NoCall EXCEPT !.at = stage, !.count = n, !.next = 1]
        /\ UNCHANGED answer
    BY <1>6 DEF ExecuteMany, Begin, NoCall
  <2>2. stage \in {"rows", "describe"} /\ (stage = "rows" => ~Counted)
    BY CountFacts
  <2> HIDE DEF stage
  <2>3. /\ call' \in CallRecords /\ call'.at = stage
        /\ call'.next = 1 /\ call'.errors = 0 /\ ~call'.dynamic
    <3>1. call' = [at |-> stage, values |-> <<>>, next |-> 1, count |-> n,
                   dynamic |-> FALSE, warned |-> FALSE, chaining |-> FALSE,
                   errors |-> 0]
      BY <2>1 DEF NoCall
    <3>2. stage \in Stages /\ <<>> \in Seq(Given) /\ 1 \in Nat /\ 0 \in Nat
          /\ FALSE \in BOOLEAN
      BY <2>2 DEF Stages
    <3> QED
      BY <1>1, <3>1, <3>2, CallRecord
  <2>4. TypeOK'
    BY <1>2, <1>4, <2>1, <2>3, Types DEF TypeOK, CallRecords
  <2>5. StageOK' /\ ListOK' /\ TupleOK'
    BY <1>2, <2>2, <2>3 DEF StageOK, ListOK, TupleOK, BindingList, InTuple
  <2>6. DescribeOK'
    <3>1. Len(cache') = 0 /\ DOMAIN cache' = {} /\ 1 <= M
      BY <1>2, ConstantsAssumption
    <3> QED
      BY <1>2, <2>3, <3>1 DEF DescribeOK
  <2>7. DescribedOK'
    BY <2>2, <2>3 DEF DescribedOK, Counted
  <2> QED
    BY <1>3, <2>4, <2>5, <2>6, <2>7 DEF ParamsInv
<1> QED
  BY <1>5, <1>6

\* While the rows come, nothing is bound for another call.
LEMMA RowsStep ==
  ASSUME ParamsInv, call' \in CallRecords, call'.at = "rows",
         cli' \in [Params -> Values \cup {Unbound, Freed}],
         sent' \in Seq([Markers -> Values \cup {Freed}]),
         given' \in Seq(Seq(Given)),
         cache' \in Seq(Nodes),
         UNCHANGED <<num_params, declared, answer>>,
         NodesOK', DeclaredOK', DescribedOK', call'.dynamic = call.dynamic
  PROVE  ParamsInv'
<1>1. TypeOK'
  BY Types DEF TypeOK, CallRecords, Nodes
<1>2. StageOK' /\ ListOK' /\ TupleOK' /\ DescribeOK'
  BY DEF ParamsInv, StageOK, ListOK, TupleOK, DescribeOK, BindingList, InTuple
<1> QED
  BY <1>1, <1>2 DEF ParamsInv

LEMMA DescribeMarkerStep ==
  ASSUME ParamsInv, DescribeMarker
  PROVE  ParamsInv'
<1>1. /\ call.at = "describe" /\ cache' = Append(cache, Node(call.next, NULL))
      /\ UNCHANGED <<num_params, cli, sent, given, declared>>
  BY DEF DescribeMarker
<1>2. /\ given = <<>> /\ call.errors = 0 /\ sent = <<>>
      /\ call.next = Len(cache) + 1 /\ call.next <= M
      /\ \A i \in DOMAIN cache : cache[i].param = i
  BY <1>1 DEF ParamsInv, DescribeOK, StageOK
<1>3. Len(cache) \in Nat /\ DOMAIN cache = 1 .. Len(cache) /\ call.next \in Nat
  BY Types DEF CallRecords
<1>0. ~Circular
  <2> SUFFICES ASSUME Circular PROVE FALSE
    OBVIOUS
  <2>1. 1 \in DOMAIN cache /\ 2 \in DOMAIN cache
    BY <1>3 DEF Circular
  <2> QED
    BY <1>2, <2>1 DEF Circular
<1>4. call.next \in Params /\ \A i \in DOMAIN cache : cache[i].param < call.next
  BY <1>2, <1>3, ConstantsAssumption DEF Params
<1>5. /\ cache' \in Seq(Nodes) /\ Len(cache') = Len(cache) + 1
      /\ DOMAIN cache' = 1 .. Len(cache) + 1
      /\ \A i \in 1 .. Len(cache) : cache'[i] = cache[i]
      /\ cache'[Len(cache) + 1].param = call.next
      /\ NodesOK' /\ ~Circular'
  BY <1>0, <1>1, <1>4, AppendEffect
<1>6. DeclaredOK'
  <2> SUFFICES ASSUME NEW p \in Markers, declared'[p] # NULL
               PROVE  \E i \in DOMAIN cache' : cache'[i] = Node(p, declared'[p])
    BY DEF DeclaredOK, DeclaredListed
  <2>1. PICK i \in DOMAIN cache : cache[i] = Node(p, declared[p])
    BY <1>0, <1>1 DEF ParamsInv, DeclaredOK, DeclaredListed
  <2>2. i \in DOMAIN cache' /\ cache'[i] = Node(p, declared'[p])
    BY <1>1, <1>3, <1>5, <2>1
  <2> QED
    BY <2>2
<1>7. CASE call.next < M
  <2>1. call' = [call EXCEPT !.next = @ + 1] /\ UNCHANGED answer
    BY <1>7 DEF DescribeMarker
  <2>2. /\ call' \in CallRecords /\ call'.dynamic = call.dynamic
        /\ call'.at = "describe" /\ call'.next = call.next + 1 /\ call'.errors = 0
    BY <1>1, <1>2, <1>3, <2>1, Types DEF CallRecords
  <2>3. TypeOK'
    BY <1>1, <1>5, <2>1, <2>2, Types DEF TypeOK, CallRecords, Nodes
  <2>4. StageOK' /\ ListOK' /\ TupleOK' /\ DescribedOK'
    BY <1>1, <1>2, <2>2 DEF ParamsInv, StageOK, DescribedOK, ListOK, TupleOK, BindingList, InTuple
  <2>5. \A i \in DOMAIN cache' : cache'[i].param = i
    <3> SUFFICES ASSUME NEW i \in 1 .. Len(cache) + 1 PROVE cache'[i].param = i
      BY <1>5
    <3>1. i \in 1 .. Len(cache) \/ i = Len(cache) + 1
      BY <1>3
    <3> QED
      BY <1>2, <1>3, <1>5, <3>1
  <2>6. call'.next = Len(cache') + 1 /\ call'.next <= M
    BY <1>2, <1>3, <1>5, <1>7, <2>2, ConstantsAssumption
  <2>7. DescribeOK'
    BY <1>1, <1>2, <2>2, <2>5, <2>6 DEF DescribeOK
  <2> QED
    BY <1>5, <1>6, <2>3, <2>4, <2>7 DEF ParamsInv
<1>8. CASE ~(call.next < M) /\ call.count = 0
  <2>1. call' = NoCall /\ answer' = "count"
    BY <1>8 DEF DescribeMarker, Return
  <2>2. TypeOK'
    BY <1>1, <1>5, <2>1, NoCallType, Types DEF TypeOK, CallRecords, Nodes
  <2> QED
    BY <1>5, <1>6, <2>1, <2>2, Ended DEF ParamsInv
<1>9. CASE ~(call.next < M) /\ call.count # 0
  <2>1. call' = [call EXCEPT !.at = "rows", !.next = 1] /\ UNCHANGED answer
    BY <1>9 DEF DescribeMarker
  <2>2. call' \in CallRecords /\ call'.at = "rows" /\ call'.dynamic = call.dynamic
    BY <2>1, Types DEF CallRecords, Stages
  <2>3. DescribedOK'
    BY <1>2, <1>3, <1>5, <1>9, ConstantsAssumption DEF DescribedOK
  <2> QED
    BY <1>1, <1>5, <1>6, <2>1, <2>2, <2>3, Types, RowsStep
<1> QED
  BY <1>7, <1>8, <1>9

\* A row that fits and has values only is bound to the markers as it is.
LEMMA BoundRowFacts ==
  ASSUME ParamsInv, NEW values \in OfLengths(RowLengths)
  PROVE  /\ BoundRow(values) \in [Params -> Values \cup {Unbound, Freed}]
         /\ Counted /\ call.at = "rows" /\ FitsMarkers(values) /\ CanBind(values) =>
              /\ \A p \in Markers : /\ BoundRow(values)[p] = values[p]
                                    /\ values[p] \in Values
              /\ [p \in Markers |-> BoundRow(values)[p]] = values
<1>1. /\ values \in Seq(Given) /\ Len(values) \in Nat
      /\ DOMAIN values = 1 .. Len(values)
      /\ values \in [1 .. Len(values) -> Given]
  BY Tuples, ConstantsAssumption
<1>2. BoundRow(values) \in [Params -> Values \cup {Unbound, Freed}]
  <2>1. \A p \in Params : p \in 1 .. p
    BY ConstantsAssumption DEF Params
  <2> QED
    BY <2>1, Types DEF BoundRow
<1>3. ASSUME Counted, call.at = "rows", FitsMarkers(values), CanBind(values)
      PROVE  /\ \A p \in Markers : /\ BoundRow(values)[p] = values[p]
                                   /\ values[p] \in Values
             /\ [p \in Markers |-> BoundRow(values)[p]] = values
  <2>1. DOMAIN values = Markers
    BY <1>1, <1>3 DEF ParamsInv, DescribedOK, FitsMarkers, Markers
  <2>2. \A p \in Markers : values[p] \in Values
    BY <1>3, <2>1 DEF CanBind
  <2>3. \A p \in Markers : p \in Params /\ \A q \in 1 .. p : q \in Markers
    BY ConstantsAssumption DEF Markers, Params
  <2>4. \A p \in Markers : BoundRow(values)[p] = values[p]
    BY <2>1, <2>2, <2>3 DEF BoundRow
  <2> QED
    BY <1>1, <2>1, <2>2, <2>4
<1> QED
  BY <1>2, <1>3

\* Whatever becomes of a row, the statement stays well formed.
LEMMA RowStepStep ==
  ASSUME ParamsInv, NEW values \in OfLengths(RowLengths), RowStep(values)
  PROVE  ParamsInv'
<1>1. Row(values)
  BY DEF RowStep, RowRefused, RowBinds, RowSent, ChainNotBegun, RowFails, RowDataFails
<1>2. /\ call.at = "rows" /\ given' = Append(given, values)
      /\ UNCHANGED <<cache, num_params, declared>>
  BY <1>1 DEF Row
<1>3. given' \in Seq(Seq(Given))
  <2>1. values \in Seq(Given)
    BY Tuples, ConstantsAssumption
  <2> QED
    BY <1>2, <2>1, Types
<1>4. NodesOK' /\ DeclaredOK' /\ DescribedOK'
  BY <1>2 DEF ParamsInv, NodesOK, DeclaredOK, DeclaredListed, Circular, DescribedOK
<1>5. cli' \in [Params -> Values \cup {Unbound, Freed}]
  <2>1. cli' = cli \/ cli' = BoundRow(values)
    BY DEF RowStep, RowRefused, RowBinds, RowSent, ChainNotBegun, RowFails, RowDataFails
  <2> QED
    BY <2>1, BoundRowFacts, Types
<1>6. sent' \in Seq([Markers -> Values \cup {Freed}])
  <2>1. CASE RowSent(values)
    <3> DEFINE buffers == [p \in Markers |-> cli'[p]]
    <3>1. AllBound(cli') /\ sent' = Append(sent, buffers)
      BY <2>1 DEF RowSent, Sends
    <3>2. \A p \in Markers : cli'[p] \in Values \cup {Freed}
      <4>1. \A p \in Markers : p \in Params
        BY ConstantsAssumption DEF Params, Markers
      <4> QED
        BY <1>5, <3>1, <4>1 DEF AllBound
    <3>3. buffers \in [Markers -> Values \cup {Freed}]
      BY <3>2
    <3> HIDE DEF buffers
    <3> QED
      BY <3>1, <3>3, Types
  <2>2. CASE ~RowSent(values)
    <3>1. UNCHANGED sent
      BY <2>2 DEF RowStep, RowRefused, ChainNotBegun, RowFails, RowDataFails
    <3> QED
      BY <3>1, Types
  <2> QED
    BY <2>1, <2>2
<1>7. CASE ChainNotBegun(values)
  <2>1. Return("error")
    BY <1>7 DEF ChainNotBegun
  <2> QED
    BY <1>2, <1>3, <1>5, <1>6, <2>1, ReturnStep
<1>8. CASE ~ChainNotBegun(values)
  <2>0. call.next \in Nat /\ call.count \in Nat /\ call.errors \in Nat
        /\ call \in CallRecords
    BY Types DEF CallRecords
  <2>1. call.next + 1 \in Nat /\ call.count + 1 \in Nat /\ call.errors + 1 \in Nat
    BY <2>0
  <2>2. UNCHANGED answer
    BY <1>8 DEF RowStep, RowRefused, RowSent, RowFails, RowDataFails
  <2>3. CASE RowRefused(values)
    <3>1. call' = [call EXCEPT !.next = @ + 1, !.errors = @ + 1]
      BY <2>3 DEF RowRefused
    <3>2. call' \in CallRecords /\ call'.at = "rows" /\ call'.dynamic = call.dynamic
      BY <1>2, <2>0, <2>1, <3>1 DEF CallRecords
    <3> QED
      BY <1>2, <1>3, <1>4, <1>5, <1>6, <2>2, <3>2, Types, RowsStep
  <2>4. CASE RowSent(values)
    <3>1. call' = [call EXCEPT !.next = @ + 1, !.chaining = TRUE]
      BY <2>4 DEF RowSent
    <3>2. call' \in CallRecords /\ call'.at = "rows" /\ call'.dynamic = call.dynamic
      BY <1>2, <2>0, <2>1, <3>1 DEF CallRecords
    <3> QED
      BY <1>2, <1>3, <1>4, <1>5, <1>6, <2>2, <3>2, Types, RowsStep
  <2>5. CASE RowFails(values)
    <3>1. call' = [call EXCEPT !.next = call.count + 1, !.chaining = TRUE,
                               !.errors = @ + 1]
      BY <2>5 DEF RowFails
    <3>2. call' \in CallRecords /\ call'.at = "rows" /\ call'.dynamic = call.dynamic
      BY <1>2, <2>0, <2>1, <3>1 DEF CallRecords
    <3> QED
      BY <1>2, <1>3, <1>4, <1>5, <1>6, <2>2, <3>2, Types, RowsStep
  <2>6. CASE RowDataFails(values)
    <3>1. PICK e \in {call.errors, call.errors + 1} :
            call' = [call EXCEPT !.next = @ + 1, !.chaining = TRUE, !.errors = e]
      BY <2>6 DEF RowDataFails
    <3>2. call' \in CallRecords /\ call'.at = "rows" /\ call'.dynamic = call.dynamic
      BY <1>2, <2>0, <2>1, <3>1 DEF CallRecords
    <3> QED
      BY <1>2, <1>3, <1>4, <1>5, <1>6, <2>2, <3>2, Types, RowsStep
  <2> QED
    BY <1>8, <2>3, <2>4, <2>5, <2>6 DEF RowStep
<1> QED
  BY <1>7, <1>8
-----------------------------------------------------------------------------
(* ParamsInv is inductive *)

LEMMA InitParams == Init => ParamsInv
<1> SUFFICES ASSUME Init PROVE ParamsInv
  OBVIOUS
<1>1. TypeOK
  <2>1. cli \in [Params -> Values \cup {Unbound, Freed}]
    BY DEF Init
  <2>2. declared \in [Markers -> Given \cup {NULL}]
    BY DEF Init
  <2> QED
    BY <2>1, <2>2, NoCallType DEF Init, TypeOK, CallRecords
<1>2. NodesOK /\ DeclaredOK
  BY DEF Init, NodesOK, DeclaredOK, DeclaredListed, Circular
<1>3. StageOK
  BY DEF Init, StageOK, NoCall
<1>4. ListOK /\ TupleOK /\ DescribeOK /\ DescribedOK
  BY DEF Init, NoCall, ListOK, TupleOK, DescribeOK, DescribedOK, BindingList, InTuple
<1> QED
  BY <1>1, <1>2, <1>3, <1>4 DEF ParamsInv

LEMMA StutterStep ==
  ASSUME ParamsInv, UNCHANGED vars
  PROVE  ParamsInv'
<1>1. TypeOK' /\ NodesOK' /\ DeclaredOK'
  BY DEF vars, ParamsInv, TypeOK, NodesOK, DeclaredOK, DeclaredListed, Circular
<1>2. StageOK' /\ DescribeOK' /\ DescribedOK'
  BY DEF vars, ParamsInv, StageOK, DescribeOK, DescribedOK
<1>3. ListOK'
  BY DEF vars, ParamsInv, ListOK, BindingList, Circular
<1>4. TupleOK'
  BY DEF vars, ParamsInv, TupleOK, InTuple, Exact, Circular
<1> QED
  BY <1>1, <1>2, <1>3, <1>4 DEF ParamsInv

LEMMA ParamsStep == ParamsInv /\ [Next]_vars => ParamsInv'
<1> SUFFICES ASSUME ParamsInv, [Next]_vars PROVE ParamsInv'
  OBVIOUS
<1>1. ASSUME NEW p \in Params, BindParamFails(p) \/ BindParamCrashes(p) \/ BindParamHangs(p)
      PROVE  ParamsInv'
  BY <1>1, RefusedStep
<1>2. ASSUME NEW p \in Params, NEW v \in Given, BindParam(p, v)
      PROVE  ParamsInv'
  BY <1>2, BindParamStep
<1>3. ASSUME NEW num \in Counts, Execute(num)
      PROVE  ParamsInv'
  BY <1>3, ExecuteStep
<1>4. CASE BindCached
  BY <1>4, BindCachedStep
<1>5. ASSUME NEW values \in OfLengths(Lengths), NEW num \in Counts,
             ExecuteTuple(values, num)
      PROVE  ParamsInv'
  BY <1>5, ExecuteTupleStep
<1>6. CASE NoItem
  BY <1>6, NoItemStep
<1>7. CASE BindDescribed
  BY <1>7, BindDescribedStep
<1>8. CASE DescribeFails
  BY <1>8, DescribeFailsStep
<1>9. CASE BindCurrent
  BY <1>9, BindCurrentStep
<1>10. CASE SqlExecute
  BY <1>10, SqlExecuteStep
<1>11. CASE SqlExecuteFails
  BY <1>11, EndStep DEF SqlExecuteFails
<1>12. CASE FreeResult \/ FreeResultCrashes
  BY <1>12, FreeStep
<1>13. ASSUME NEW n \in 0 .. MaxRows, NEW num \in Counts, ExecuteMany(n, num)
       PROVE  ParamsInv'
  BY <1>13, ExecuteManyStep
<1>14. CASE DescribeMarker
  BY <1>14, DescribeMarkerStep
<1>15. CASE DescribeMarkerFails
  BY <1>15, EndStep DEF DescribeMarkerFails
<1>16. ASSUME NEW values \in OfLengths(RowLengths), RowStep(values)
       PROVE  ParamsInv'
  BY <1>16, RowStepStep
<1>17. ASSUME NEW chained \in BOOLEAN, BatchEnds(chained)
       PROVE  ParamsInv'
  <2>1. PICK a \in {"error", "count"} : Return(a)
    BY <1>17 DEF BatchEnds
  <2>2. UNCHANGED <<cache, num_params, cli, sent, given, declared>>
    BY <1>17 DEF BatchEnds
  <2> QED
    BY <2>1, <2>2, EndStep
<1>18. CASE UNCHANGED vars
  BY <1>18, StutterStep
<1> QED
  BY <1>1, <1>2, <1>3, <1>4, <1>5, <1>6, <1>7, <1>8, <1>9, <1>10, <1>11,
     <1>12, <1>13, <1>14, <1>15, <1>16, <1>17, <1>18 DEF Next

\* The list, the calls and what they have bound so far stay well formed,
\* whichever CLI calls fail.
THEOREM AlwaysParams == Spec => []ParamsInv
BY InitParams, ParamsStep, PTL DEF Spec

\* The list holds numbered parameters, the CLI's buffers are unbound, bound or
\* freed, and only values that can be bound are ever sent.
THEOREM TypeCorrect == Spec => []TypeOK
<1>1. ParamsInv => TypeOK
  BY DEF ParamsInv
<1> QED
  BY <1>1, AlwaysParams, PTL
-----------------------------------------------------------------------------
(* The rows of a batch *)

\* Only execute_many looks at rows, once it has described the markers.
LEMMA NoRows ==
  ASSUME ParamsInv, [Next]_vars, ~DescribeMarker, ~(UNCHANGED vars),
         \A values \in OfLengths(RowLengths) : ~RowStep(values),
         \A n \in 0 .. MaxRows, num \in Counts : ~ExecuteMany(n, num)
  PROVE  call'.at # "rows"
<1>0. NoCall.at # "rows"
  BY DEF NoCall
<1>1. ASSUME NEW a, Return(a) PROVE call'.at # "rows"
  BY <1>0, <1>1 DEF Return
<1>2. ASSUME call.at \in {"bind_list", "bind_tuple"}, call' = NextValue
      PROVE  call'.at # "rows"
  BY <1>2, NextEffect
<1>3. ASSUME NEW p \in Params, BindParamFails(p) \/ BindParamCrashes(p) \/ BindParamHangs(p)
      PROVE  call'.at # "rows"
  BY <1>1, <1>3 DEF BindParamFails, BindParamCrashes, BindParamHangs, ReturnAtOnce
<1>4. ASSUME NEW p \in Params, NEW v \in Given, BindParam(p, v)
      PROVE  call'.at # "rows"
  BY <1>1, <1>4 DEF BindParam, ReturnAtOnce
<1>5. ASSUME NEW num \in Counts, Execute(num) PROVE call'.at # "rows"
  BY <1>1, <1>5 DEF Execute, ReturnAtOnce, Begin, NoCall
<1>6. CASE BindCached
  <2>1. CASE call' = NextNode
    <3>1. call.at = "bind_list"
      BY <1>6 DEF BindCached
    <3>2. CASE Circular
      BY <2>1, <3>1, <3>2, CircleEffect
    <3>3. CASE ~Circular
      BY <1>2, <2>1, <3>1, <3>3 DEF NextNode
    <3> QED
      BY <3>2, <3>3
  <2>2. CASE Return("error")
    BY <1>1, <2>2
  <2> QED
    BY <1>6, <2>1, <2>2 DEF BindCached
<1>7. ASSUME NEW values \in OfLengths(Lengths), NEW num \in Counts,
             ExecuteTuple(values, num)
      PROVE  call'.at # "rows"
  <2>1. CASE num # 0 /\ Len(values) < num
    BY <1>1, <1>7, <2>1 DEF ExecuteTuple, ReturnAtOnce
  <2>2. CASE num # 0 /\ ~(Len(values) < num)
    <3> DEFINE opts == IF Len(values) > num THEN num_params ELSE Len(values)
               new == [NoCall EXCEPT
                         !.at = IF opts = 0 THEN "execute" ELSE "bind_tuple",
                         !.values = values, !.count = opts,
                         !.dynamic = (cache = <<>>), !.warned = Len(values) > num]
    <3>1. call' = [new EXCEPT !.next = 1]
      BY <1>7, <2>2 DEF ExecuteTuple, Begin
    <3>2. new.at \in {"execute", "bind_tuple"} /\ "at" \in DOMAIN new
      BY DEF NoCall
    <3>3. call'.at = new.at
      BY <3>1 DEF NoCall
    <3> QED
      BY <3>2, <3>3
  <2>3. CASE num = 0
    BY <1>7, <2>3 DEF ExecuteTuple, Begin, NoCall
  <2> QED
    BY <2>1, <2>2, <2>3
<1>8. CASE NoItem
  BY <1>2, <1>8 DEF NoItem, BindingTuple
<1>9. CASE BindDescribed
  BY <1>1, <1>2, <1>9 DEF BindDescribed, BindingTuple
<1>10. CASE DescribeFails
  BY <1>1, <1>10 DEF DescribeFails
<1>11. CASE BindCurrent
  BY <1>1, <1>2, <1>11 DEF BindCurrent, BindingTuple
<1>12. CASE SqlExecute
  BY <1>1, <1>12 DEF SqlExecute
<1>13. CASE SqlExecuteFails \/ DescribeMarkerFails
  BY <1>1, <1>13 DEF SqlExecuteFails, DescribeMarkerFails
<1>14. CASE FreeResult \/ FreeResultCrashes
  BY <1>1, <1>14 DEF FreeResult, FreeResultCrashes, ReturnAtOnce
<1>15. ASSUME NEW chained \in BOOLEAN, BatchEnds(chained)
       PROVE  call'.at # "rows"
  BY <1>1, <1>15 DEF BatchEnds
<1> QED
  BY <1>3, <1>4, <1>5, <1>6, <1>7, <1>8, <1>9, <1>10, <1>11, <1>12, <1>13,
     <1>14, <1>15 DEF Next

LEMMA OtherStage ==
  ASSUME call'.at # "rows"
  PROVE  RowsAccounted' /\ RowsOK'
BY DEF RowsAccounted, RowsOK

\* The markers are described, and no row has been looked at.
LEMMA RowsBegin ==
  ASSUME ParamsInv, DescribeMarker
  PROVE  RowsAccounted' /\ RowsOK'
<1>1. CASE call'.at # "rows"
  BY <1>1, OtherStage
<1>2. CASE call'.at = "rows"
  <2>1. /\ call.at = "describe" /\ UNCHANGED <<sent, given>>
        /\ \/ call' = [call EXCEPT !.next = @ + 1]
           \/ call' = NoCall
           \/ call' = [call EXCEPT !.at = "rows", !.next = 1]
    BY DEF DescribeMarker, Return
  <2>2. /\ given = <<>> /\ call.errors = 0 /\ sent = <<>>
        /\ call \in CallRecords /\ call.count \in Nat
    BY <2>1, Types DEF ParamsInv, DescribeOK, StageOK, CallRecords
  <2>3. call' = [call EXCEPT !.at = "rows", !.next = 1]
    BY <1>2, <2>1, <2>2 DEF NoCall, CallRecords
  <2>4. call'.next = 1 /\ call'.count = call.count /\ call'.errors = 0
    BY <2>2, <2>3 DEF CallRecords
  <2>5. sent' = <<>> /\ given' = <<>> /\ Len(given') = 0 /\ Len(sent') = 0
    BY <2>1, <2>2
  <2>6. RowsAccounted'
    BY <2>4, <2>5 DEF RowsAccounted
  <2>7. RowsOK'
    BY <2>2, <2>4, <2>5 DEF RowsOK
  <2> QED
    BY <2>6, <2>7
<1> QED
  BY <1>1, <1>2

\* When no marker was counted the rows come at once.
LEMMA RowsBeginAtOnce ==
  ASSUME NEW n \in 0 .. MaxRows, NEW num \in Counts, ExecuteMany(n, num)
  PROVE  RowsAccounted' /\ RowsOK'
<1>1. n \in Nat
  BY ConstantsAssumption
<1>2. CASE num = 0 /\ n = 0
  BY <1>2, Ended DEF ExecuteMany, ReturnAtOnce, Return
<1>3. CASE ~(num = 0 /\ n = 0)
  <2>1. /\ call' = [NoCall EXCEPT !.at = IF num = 0 THEN "rows" ELSE "describe",
                                  !.count = n, !.next = 1]
        /\ sent' = <<>> /\ given' = <<>>
    BY <1>3 DEF ExecuteMany, Begin, NoCall
  <2>2. call'.next = 1 /\ call'.count = n /\ call'.errors = 0
    BY <2>1 DEF NoCall
  <2> QED
    BY <1>1, <2>1, <2>2 DEF RowsAccounted, RowsOK
<1> QED
  BY <1>2, <1>3

\* A row that is looked at is sent, or it has its error.
LEMMA RowCounted ==
  ASSUME ParamsInv, RowsAccounted, RowsOK, "param_data" \notin Faults,
         NEW values \in OfLengths(RowLengths), RowStep(values)
  PROVE  RowsAccounted' /\ RowsOK'
<1>1. /\ call.at = "rows" /\ call.next <= call.count
      /\ given' = Append(given, values)
  BY DEF RowStep, RowRefused, RowBinds, RowSent, ChainNotBegun, RowFails,
         RowDataFails, Row
<1>2. /\ call \in CallRecords /\ call.next \in Nat /\ call.count \in Nat
      /\ call.errors \in Nat
      /\ sent \in Seq([Markers -> Values \cup {Freed}]) /\ given \in Seq(Seq(Given))
      /\ values \in Seq(Given)
  <2>1. values \in Seq(Given)
    BY Tuples, ConstantsAssumption
  <2> QED
    BY <2>1, Types DEF CallRecords
<1>3. /\ Len(given) = Len(sent) + call.errors
      /\ call.next \in 1 .. call.count + 1
      /\ Counted /\ call.errors = 0 => sent = given /\ Len(given) = call.next - 1
  BY <1>1 DEF RowsAccounted, RowsOK
<1>4. Len(given') = Len(given) + 1 /\ Len(given) \in Nat /\ Len(sent) \in Nat
  BY <1>1, <1>2
<1>5. CASE ChainNotBegun(values)
  <2>1. call' = NoCall
    BY <1>5 DEF ChainNotBegun, Return
  <2> QED
    BY <2>1, Ended
<1>6. CASE RowSent(values)
  <2> DEFINE buffers == [p \in Markers |-> cli'[p]]
  <2>1. /\ cli' = BoundRow(values) /\ FitsMarkers(values) /\ CanBind(values)
        /\ sent' = Append(sent, buffers)
        /\ call' = [call EXCEPT !.next = @ + 1, !.chaining = TRUE]
    BY <1>6 DEF RowSent, RowBinds, Sends
  <2>2. Counted => buffers = values
    BY <1>1, <2>1, BoundRowFacts
  <2> HIDE DEF buffers
  <2>3. (Counted => sent' = Append(sent, values)) /\ Len(sent') = Len(sent) + 1
    BY <1>2, <2>1, <2>2
  <2>4. /\ call'.at = "rows" /\ call'.next = call.next + 1
        /\ call'.errors = call.errors /\ call'.count = call.count
    BY <1>1, <1>2, <2>1 DEF CallRecords
  <2>5. RowsAccounted'
    <3>1. call.errors \in Nat /\ Len(given) = Len(sent) + call.errors
      BY <1>2, <1>3
    <3>2. Len(sent') = Len(sent) + 1
      BY <2>3
    <3>3. Len(given') = Len(sent') + call.errors
      BY <1>4, <3>1, <3>2
    <3> QED
      BY <2>4, <3>3 DEF RowsAccounted
  <2>6. Counted /\ call.errors = 0 => sent' = given' /\ Len(given') = (call.next + 1) - 1
    BY <1>1, <1>2, <1>3, <1>4, <2>3
  <2>7. call.next + 1 \in 1 .. call.count + 1
    BY <1>1, <1>2
  <2>8. RowsOK'
    BY <2>4, <2>6, <2>7 DEF RowsOK, Counted
  <2> QED
    BY <2>5, <2>8
<1>7. CASE RowRefused(values) \/ RowFails(values) \/ RowDataFails(values)
  <2>1. PICK n \in {call.next + 1, call.count + 1}, c \in {call.chaining, TRUE} :
          call' = [call EXCEPT !.next = n, !.chaining = c, !.errors = @ + 1]
    <3>1. CASE RowRefused(values)
      <4>1. call' = [call EXCEPT !.next = @ + 1, !.errors = @ + 1]
        BY <3>1 DEF RowRefused
      <4>2. call' = [call EXCEPT !.next = call.next + 1, !.chaining = call.chaining,
                                 !.errors = @ + 1]
        BY <1>2, <4>1 DEF CallRecords
      <4> QED
        BY <4>2
    <3>2. CASE RowFails(values)
      BY <3>2 DEF RowFails
    <3>3. CASE RowDataFails(values)
      <4>1. PICK fault \in {"put_data", "param_data"} \cap Faults :
              call' = [call EXCEPT !.next = @ + 1, !.chaining = TRUE,
                         !.errors = IF fault = "put_data" THEN @ + 1 ELSE @]
        BY <3>3 DEF RowDataFails
      <4>2. fault = "put_data"
        BY <4>1
      <4>3. call' = [call EXCEPT !.next = @ + 1, !.chaining = TRUE, !.errors = @ + 1]
        BY <4>1, <4>2
      <4> QED
        BY <4>3
    <3> QED
      BY <1>7, <3>1, <3>2, <3>3
  <2>2. UNCHANGED sent
    BY <1>7 DEF RowRefused, RowFails, RowDataFails
  <2>3. /\ call'.at = "rows" /\ call'.next = n
        /\ call'.errors = call.errors + 1 /\ call'.count = call.count
    BY <1>1, <1>2, <2>1 DEF CallRecords
  <2>4. n \in 1 .. call.count + 1
    BY <1>1, <1>2
  <2>5. RowsAccounted'
    BY <1>2, <1>3, <1>4, <2>2, <2>3 DEF RowsAccounted
  <2>6. RowsOK'
    BY <1>2, <2>3, <2>4 DEF RowsOK
  <2> QED
    BY <2>5, <2>6
<1> QED
  BY <1>5, <1>6, <1>7 DEF RowStep

LEMMA RowsStutter ==
  ASSUME RowsAccounted, RowsOK, UNCHANGED vars
  PROVE  RowsAccounted' /\ RowsOK'
BY DEF vars, RowsAccounted, RowsOK

LEMMA BatchStep ==
  ASSUME "param_data" \notin Faults
  PROVE  BatchInv /\ [Next]_vars => BatchInv'
<1> SUFFICES ASSUME ParamsInv, RowsAccounted, RowsOK, [Next]_vars
             PROVE  ParamsInv' /\ RowsAccounted' /\ RowsOK'
  BY DEF BatchInv
<1>1. ASSUME DescribeMarker PROVE RowsAccounted' /\ RowsOK'
  BY <1>1, RowsBegin
<1>2. ASSUME NEW values \in OfLengths(RowLengths), RowStep(values)
      PROVE  RowsAccounted' /\ RowsOK'
  BY <1>2, RowCounted
<1>3. ASSUME UNCHANGED vars PROVE RowsAccounted' /\ RowsOK'
  BY <1>3, RowsStutter
<1>4. ASSUME NEW n \in 0 .. MaxRows, NEW num \in Counts, ExecuteMany(n, num)
      PROVE  RowsAccounted' /\ RowsOK'
  BY <1>4, RowsBeginAtOnce
<1>5. RowsAccounted' /\ RowsOK'
  BY <1>1, <1>2, <1>3, <1>4, NoRows, OtherStage
<1> QED
  BY <1>5, ParamsStep

LEMMA AlwaysBatch ==
  ASSUME "param_data" \notin Faults
  PROVE  Spec => []BatchInv
<1>1. Init => BatchInv
  <2>1. Init => RowsAccounted /\ RowsOK
    BY DEF Init, NoCall, RowsAccounted, RowsOK
  <2> QED
    BY <2>1, InitParams DEF BatchInv
<1> QED
  BY <1>1, BatchStep, PTL DEF Spec

\* In a batch each row that was looked at has been sent or has its error in
\* the list, whatever fails but SQLParamData, of whose result execute_many
\* does not ask.
THEOREM RowsAreAccounted ==
  ASSUME "param_data" \notin Faults
  PROVE  Spec => []RowsAccounted
<1>1. BatchInv => RowsAccounted
  BY DEF BatchInv
<1> QED
  BY <1>1, AlwaysBatch, PTL

\* Only a batch without an error answers with a count.
LEMMA CountAnswered ==
  ASSUME BatchInv, Counted, Next, call # NoCall, call' = NoCall, answer' = "count"
  PROVE  sent' = given' /\ Len(given') = call.count
<1>0. ~Idle
  BY DEF Idle
<1>1. ParamsInv
  BY DEF BatchInv
<1>2. ASSUME NEW a \in {"true", "error", "crash", "hang"}, Return(a) PROVE FALSE
  BY <1>2 DEF Return
<1>3. ASSUME call.at \in {"bind_list", "bind_tuple"}, call' = NextValue PROVE FALSE
  BY <1>1, <1>3, NextEffect DEF NoCall
<1>4. ASSUME NEW p \in Params, NEW v \in Given, BindParam(p, v)
      PROVE  FALSE
  BY <1>0, <1>4 DEF BindParam, Calling
<1>5. ASSUME NEW p \in Params,
             BindParamFails(p) \/ BindParamCrashes(p) \/ BindParamHangs(p)
      PROVE  FALSE
  BY <1>0, <1>5 DEF BindParamFails, BindParamCrashes, BindParamHangs, Calling
<1>6. ASSUME NEW num \in Counts, Execute(num) PROVE FALSE
  BY <1>0, <1>6 DEF Execute, Calling
<1>19. CASE FreeResult \/ FreeResultCrashes
  BY <1>0, <1>19 DEF FreeResult, FreeResultCrashes, Calling
<1>7. ASSUME NEW values \in OfLengths(Lengths), NEW num \in Counts,
             ExecuteTuple(values, num)
      PROVE  FALSE
  BY <1>0, <1>7 DEF ExecuteTuple, Calling
<1>8. ASSUME NEW n \in 0 .. MaxRows, NEW num \in Counts, ExecuteMany(n, num)
      PROVE  FALSE
  BY <1>0, <1>8 DEF ExecuteMany, Calling
<1>9. CASE BindCached
  <2>1. call.at = "bind_list" /\ (call' = NextNode \/ Return("error"))
    BY <1>9 DEF BindCached
  <2>2. CASE call' = NextNode
    <3>1. CASE Circular
      BY <1>1, <2>1, <2>2, <3>1, CircleEffect DEF NoCall
    <3>2. CASE ~Circular
      BY <1>3, <2>1, <2>2, <3>2 DEF NextNode
    <3> QED
      BY <3>1, <3>2
  <2>3. CASE Return("error")
    BY <1>2, <2>3
  <2> QED
    BY <2>1, <2>2, <2>3
<1>10. CASE NoItem
  BY <1>3, <1>10 DEF NoItem, BindingTuple
<1>11. CASE BindDescribed
  BY <1>2, <1>3, <1>11 DEF BindDescribed, BindingTuple
<1>12. CASE DescribeFails
  BY <1>2, <1>12 DEF DescribeFails
<1>13. CASE BindCurrent
  BY <1>2, <1>3, <1>13 DEF BindCurrent, BindingTuple
<1>14. CASE SqlExecute
  BY <1>2, <1>14 DEF SqlExecute
<1>15. CASE SqlExecuteFails \/ DescribeMarkerFails
  BY <1>2, <1>15 DEF SqlExecuteFails, DescribeMarkerFails
<1>16. CASE DescribeMarker
  <2>1. /\ call.at = "describe" /\ UNCHANGED <<sent, given>>
        /\ \/ call' = [call EXCEPT !.next = @ + 1]
           \/ call.count = 0
           \/ call' = [call EXCEPT !.at = "rows", !.next = 1]
    BY <1>16 DEF DescribeMarker
  <2>2. /\ given = <<>> /\ sent = <<>> /\ call \in CallRecords
    BY <1>1, <2>1, Types DEF ParamsInv, DescribeOK, StageOK
  <2>3. call.count = 0
    BY <2>1, <2>2 DEF NoCall, CallRecords
  <2> QED
    BY <2>1, <2>2, <2>3
<1>17. ASSUME NEW values \in OfLengths(RowLengths), RowStep(values) PROVE FALSE
  <2>1. call.at = "rows" /\ call \in CallRecords
    BY <1>1, <1>17, Types
       DEF RowStep, RowRefused, RowBinds, RowSent, ChainNotBegun, RowFails,
           RowDataFails, Row
  <2>2. CASE ChainNotBegun(values)
    BY <1>2, <2>2 DEF ChainNotBegun
  <2>3. call'.at # "rows"
    BY DEF NoCall
  <2>4. CASE RowRefused(values)
    <3>1. call' = [call EXCEPT !.next = @ + 1, !.errors = @ + 1]
      BY <2>4 DEF RowRefused
    <3>2. call'.at = call.at
      BY <2>1, <3>1 DEF CallRecords
    <3> QED
      BY <2>1, <2>3, <3>2
  <2>5. CASE RowSent(values)
    <3>1. call' = [call EXCEPT !.next = @ + 1, !.chaining = TRUE]
      BY <2>5 DEF RowSent
    <3>2. call'.at = call.at
      BY <2>1, <3>1 DEF CallRecords
    <3> QED
      BY <2>1, <2>3, <3>2
  <2>6. CASE RowFails(values)
    <3>1. call' = [call EXCEPT !.next = call.count + 1, !.chaining = TRUE,
                               !.errors = @ + 1]
      BY <2>6 DEF RowFails
    <3>2. call'.at = call.at
      BY <2>1, <3>1 DEF CallRecords
    <3> QED
      BY <2>1, <2>3, <3>2
  <2>7. CASE RowDataFails(values)
    <3>1. PICK e \in {call.errors, call.errors + 1} :
            call' = [call EXCEPT !.next = @ + 1, !.chaining = TRUE, !.errors = e]
      BY <2>7 DEF RowDataFails
    <3>2. call'.at = call.at
      BY <2>1, <3>1 DEF CallRecords
    <3> QED
      BY <2>1, <2>3, <3>2
  <2> QED
    BY <1>17, <2>2, <2>4, <2>5, <2>6, <2>7 DEF RowStep
<1>18. ASSUME NEW chained \in BOOLEAN, BatchEnds(chained)
       PROVE  sent' = given' /\ Len(given') = call.count
  <2>1. /\ call.at = "rows" /\ call.next > call.count
        /\ UNCHANGED <<sent, given>>
        /\ Return(IF chained /\ call.errors = 0 THEN "count" ELSE "error")
    BY <1>18 DEF BatchEnds, BatchOver
  <2>2. call.errors = 0
    BY <2>1 DEF Return
  <2>3. /\ call.next \in 1 .. call.count + 1 /\ call.count \in Nat
        /\ sent = given /\ Len(given) = call.next - 1
    BY <1>1, <2>1, <2>2, Types DEF BatchInv, RowsOK, CallRecords
  <2>4. call.next = call.count + 1
    BY <2>1, <2>3
  <2>5. Len(given) = call.count
    BY <2>3, <2>4
  <2> QED
    BY <2>1, <2>3, <2>5
<1> QED
  BY <1>4, <1>5, <1>6, <1>7, <1>8, <1>9, <1>10, <1>11, <1>12, <1>13, <1>14,
     <1>15, <1>16, <1>17, <1>18, <1>19 DEF Next

\* execute_many answers with a count only if each row of the batch was sent as
\* it was given: for batches of any size and any faults but those of
\* SQLParamData and SQLNumParams, of whose results it does not ask.
THEOREM CountsMeanAll ==
  ASSUME {"param_data", "num_params"} \cap Faults = {}
  PROVE  Spec => CountMeansAll
<1>1. BatchInv /\ [Next]_vars
      => [call # NoCall /\ call' = NoCall /\ answer' = "count" =>
            sent' = given' /\ Len(given') = call.count]_vars
  BY CountAnswered DEF Counted
<1>2. Spec => []BatchInv
  BY AlwaysBatch
<1> QED
  BY <1>1, <1>2, PTL DEF Spec, CountMeansAll

-----------------------------------------------------------------------------
(* What SQLExecute sends *)

\* Each declared marker has a node, and all nodes are bound.
LEMMA DeclaredSent ==
  ASSUME ParamsInv, Counted, SqlExecute, given = <<>>, \A p \in Markers : declared[p] # NULL,
         NEW p \in Markers
  PROVE  sent'[1][p] = declared[p]
<1>1. call.at = "execute" /\ AllBound(cli) /\ Sends(cli)
  BY DEF SqlExecute
<1>2. sent' = <<[q \in Markers |-> cli[q]]>>
  BY <1>1, SendEffect
<1>3. sent'[1][p] = cli[p]
  BY <1>2
<1>0. ~Circular
  BY <1>1 DEF ParamsInv, ListOK, BindingList
<1>4. PICK i \in DOMAIN cache : cache[i] = Node(p, declared[p])
  BY <1>0 DEF ParamsInv, DeclaredOK, DeclaredListed
<1>5. cache[i].param = p /\ cache[i].var = declared[p]
  BY <1>4 DEF Node
<1>6. /\ call.count = Len(cache) /\ call.next = call.count + 1
      /\ \A j \in 1 .. call.next - 1 : cli[cache[j].param] = cache[j].var
  BY <1>0, <1>1 DEF ParamsInv, ListOK, BindingList
<1>7. DOMAIN cache = 1 .. Len(cache) /\ Len(cache) \in Nat
  BY Types
<1>8. i \in 1 .. call.next - 1
  BY <1>6, <1>7
<1> QED
  BY <1>3, <1>5, <1>6, <1>8

\* If execute without a tuple comes to SQLExecute, it sends to each marker the
\* value that its last successful bind_param gave it, for any number of markers
\* and whatever calls came before that, failed ones too; SQLNumParams must not
\* fail.  With a list that is a circle it does not come to SQLExecute.
THEOREM DeclaredValuesSent ==
  ASSUME "num_params" \notin Faults
  PROVE  Spec => SendsDeclared
<1>1. ParamsInv /\ [Next]_vars
      => [SqlExecute /\ given = <<>> /\ (\A p \in Markers : declared[p] # NULL) =>
            \A p \in Markers : sent'[1][p] = declared[p]]_vars
  BY DeclaredSent DEF Counted
<1> QED
  BY <1>1, AlwaysParams, PTL DEF Spec, SendsDeclared

\* A sorted list with a node for each marker begins with them.
LEMMA Complete ==
  ASSUME ParamsInv, EachCached, NEW j \in Markers
  PROVE  j \in DOMAIN cache /\ cache[j].param = j
<1> DEFINE Good(k) == k \in DOMAIN cache /\ cache[k].param = k
           T == {k \in Markers : ~Good(k)}
<1>s. ~Circular /\ Sorted(cache)
  BY OpenList DEF ParamsInv, EachCached
<1>0. /\ DOMAIN cache = 1 .. Len(cache) /\ Len(cache) \in Nat
      /\ \A i \in 1 .. Len(cache) : cache[i].param \in Nat \ {0}
  <2>1. Params \subseteq Nat \ {0}
    BY ConstantsAssumption DEF Params
  <2>2. \A i \in DOMAIN cache : cache[i].param \in Params
    BY NodeTypes
  <2> QED
    BY <2>1, <2>2, Types
<1> SUFFICES ASSUME T # {} PROVE FALSE
  OBVIOUS
<1>1. T \subseteq Nat
  BY ConstantsAssumption DEF Markers
<1>2. PICK x \in T : \A y \in T : ~ (y < x)
  <2> HIDE DEF T
  <2> QED
    BY <1>1, Least
<1>3. x \in 1 .. M /\ ~Good(x) /\ M \in Nat
  BY ConstantsAssumption DEF Markers
<1>4. \A y \in 1 .. x - 1 : y \in 1 .. Len(cache) /\ cache[y].param = y
  BY <1>0, <1>2, <1>3 DEF Markers
<1>5. PICK i \in 1 .. Len(cache) : cache[i].param = x
  BY <1>0, <1>3 DEF Markers, EachCached
<1>6. x \in 1 .. Len(cache) /\ x < i
  BY <1>0, <1>3, <1>4, <1>5
<1>7. cache[x].param < x
  BY <1>s, <1>0, <1>5, <1>6 DEF Sorted
<1> DEFINE m == cache[x].param
<1>8. m \in 1 .. x - 1 /\ cache[m].param = m
  <2>1. m \in Nat \ {0} /\ m < x
    BY <1>0, <1>6, <1>7
  <2> HIDE DEF m
  <2> QED
    BY <1>3, <1>4, <2>1
<1>9. cache[m].param < cache[x].param
  <2>1. m \in DOMAIN cache /\ x \in DOMAIN cache /\ m < x
    BY <1>0, <1>3, <1>4, <1>6, <1>8
  <2> HIDE DEF m
  <2> QED
    BY <1>s, <2>1 DEF Sorted
<1> QED
  BY <1>0, <1>6, <1>8, <1>9

\* The values of a tuple are bound to the markers in order.
LEMMA TupleSent ==
  ASSUME ParamsInv, Counted, SqlExecute, given # <<>>, Len(given[1]) = M,
         call.dynamic \/ EachCached
  PROVE  sent'[1] = given[1]
<1>1. call.at = "execute" /\ AllBound(cli) /\ Sends(cli)
  BY DEF SqlExecute
<1> DEFINE buffers == [q \in Markers |-> cli[q]]
<1>2. sent'[1] = buffers
  BY <1>1, SendEffect
<1>3. /\ given = <<call.values>> /\ call.next = call.count + 1
      /\ Exact => call.count = M
  BY <1>1 DEF ParamsInv, TupleOK, InTuple
<1>4. given[1] = call.values
  BY <1>3
<1>5. call.values \in Seq(Given) /\ call.next = M + 1 /\ Exact
      /\ M \in Nat \ {0} /\ num_params \in Nat
  BY <1>3, <1>4, Types, ConstantsAssumption DEF Exact, CallRecords
<1>6. call.values = [q \in Markers |-> call.values[q]]
  BY <1>5 DEF Exact, Markers
<1>7. ASSUME NEW q \in Markers PROVE cli[q] = call.values[q]
  <2>1. q \in 1 .. M /\ q \in 1 .. call.next - 1
    BY <1>5 DEF Markers
  <2>2. CASE call.dynamic
    <3>1. /\ call.next - 1 <= num_params /\ (call.next > 1 => num_params <= M)
          /\ \A i \in 1 .. call.next - 1 :
               cli[(num_params + i + 1) - call.next] = call.values[i]
      BY <1>1, <1>5, <2>2 DEF ParamsInv, TupleOK, InTuple
    <3>2. num_params = M
      BY <1>5, <3>1
    <3>3. (num_params + q + 1) - call.next = q
      BY <1>5, <2>1, <3>2
    <3> QED
      BY <2>1, <3>1, <3>3
  <2>3. CASE ~call.dynamic
    <3>1. \A i \in 1 .. call.next - 1 :
            i <= Len(cache) /\ i <= Len(call.values) =>
              cli[cache[i].param] = call.values[i]
      BY <1>1, <2>3 DEF EachCached, ParamsInv, TupleOK, InTuple
    <3>2. q \in DOMAIN cache /\ cache[q].param = q
      BY <2>3, Complete
    <3>3. q <= Len(cache) /\ q <= Len(call.values)
      BY <1>5, <2>1, <3>2, Types DEF Exact
    <3> QED
      BY <2>1, <3>1, <3>2, <3>3
  <2> QED
    BY <2>2, <2>3
<1>8. buffers = [q \in Markers |-> call.values[q]]
  BY <1>7
<1> QED
  BY <1>2, <1>4, <1>6, <1>8

\* As long as no parameter is cached, or each marker is in a list that is no
\* circle, and SQLNumParams does not fail: the values of a tuple of the right
\* length go to the markers in order, whatever calls came before.
THEOREM CompleteTuplesSent ==
  ASSUME "num_params" \notin Faults
  PROVE  Spec => SendsIfComplete
<1>1. ParamsInv /\ [Next]_vars
      => [SqlExecute /\ given # <<>> /\ Len(given[1]) = M
            /\ (call.dynamic \/ EachCached) => sent'[1] = given[1]]_vars
  BY TupleSent DEF Counted
<1> QED
  BY <1>1, AlwaysParams, PTL DEF Spec, SendsIfComplete
=============================================================================
