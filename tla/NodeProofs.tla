----------------------------- MODULE NodeProofs -----------------------------
(***************************************************************************)
(* Lemmas about the operators of Node, for the proofs about the index.     *)
(*                                                                         *)
(* The searches in a node count the keys on one side of the key they look  *)
(* for.  In a node that is in order these counts are positions, which is   *)
(* all that the later proofs use of them.  Behind these lemmas come walks  *)
(* over nodes, the shape of a tree of them, and what an insertion makes of *)
(* one node of it.                                                         *)
(***************************************************************************)
EXTENDS Node, HeapProofs, SequenceTheorems, FiniteSetTheorems
LOCAL INSTANCE SequencesExt

-----------------------------------------------------------------------------
(* Counting *)

LEMMA CountBound ==
    ASSUME NEW n \in Nat, NEW S, S \subseteq 1 .. n
    PROVE  IsFiniteSet(S) /\ Cardinality(S) \in 0 .. n
  <1>1. IsFiniteSet(1 .. n) /\ Cardinality(1 .. n) = n
    BY FS_Interval
  <1>2. IsFiniteSet(S) /\ Cardinality(S) <= n
    BY <1>1, FS_Subset
  <1> QED
    BY <1>2, FS_CardinalityType

\* A set of positions that has with each position all before it is an interval.
LEMMA Prefix ==
    ASSUME NEW n \in Nat, NEW S, S \subseteq 1 .. n,
           \A j \in S : \A i \in 1 .. j : i \in S
    PROVE  Cardinality(S) \in 0 .. n /\ S = 1 .. Cardinality(S)
  <1> DEFINE In == {k \in Nat : k <= n =>
                       \E m \in 0 .. k : S \cap 1 .. k = 1 .. m}
  <1>1. 0 \in In
    BY 1 .. 0 = {}
  <1>2. ASSUME NEW k \in Nat, k \in In PROVE k + 1 \in In
    <2>1. SUFFICES ASSUME k + 1 <= n
                   PROVE  \E m \in 0 .. k + 1 : S \cap 1 .. k + 1 = 1 .. m
      OBVIOUS
    <2>2. PICK m \in 0 .. k : S \cap 1 .. k = 1 .. m
      BY <1>2, <2>1
    <2>3. CASE k + 1 \in S
      <3>1. S \cap 1 .. k + 1 = 1 .. k + 1
        BY <2>3
      <3>2. k + 1 \in 0 .. k + 1
        OBVIOUS
      <3> QED
        BY <3>1, <3>2
    <2>4. CASE k + 1 \notin S
      <3>1. S \cap 1 .. k + 1 = S \cap 1 .. k
        BY <2>4
      <3>2. m \in 0 .. k + 1
        OBVIOUS
      <3> QED
        BY <2>2, <3>1, <3>2
    <2> QED
      BY <2>3, <2>4
  <1> HIDE DEF In
  <1>3. n \in In
    BY <1>1, <1>2, Induction
  <1>4. PICK m \in 0 .. n : S \cap 1 .. n = 1 .. m
    BY <1>3 DEF In
  <1>5. S = 1 .. m
    BY <1>4
  <1>6. Cardinality(1 .. m) = m
    BY FS_Interval
  <1> QED
    BY <1>5, <1>6

\* A predicate that holds of the first m positions and of no other.
LEMMA CountFirst ==
    ASSUME NEW n \in Nat, NEW m \in 0 .. n, NEW S,
           S = 1 .. m
    PROVE  Cardinality(S) = m
  BY FS_Interval

-----------------------------------------------------------------------------
(* Positions in a node *)

Ordered(keys) ==
    \A i, j \in 1 .. Len(keys) : i < j => keys[i] <= keys[j]

\* key goes behind the first m keys: upper bound.
Behind(keys, key, m) ==
    /\ m \in 0 .. Len(keys)
    /\ \A i \in 1 .. m : keys[i] <= key
    /\ \A i \in m + 1 .. Len(keys) : key < keys[i]

LEMMA SeparatorsBehind ==
    ASSUME NEW node, node.keys \in Seq(Nat), Ordered(node.keys), NEW key \in Nat
    PROVE  Behind(node.keys, key, Separators(node, key))
  <1> DEFINE keys == node.keys
             n == Len(keys)
             S == {i \in DOMAIN keys : keys[i] <= key}
  <1>1. /\ n \in Nat /\ DOMAIN keys = 1 .. n
        /\ \A i \in 1 .. n : keys[i] \in Nat
    OBVIOUS
  <1>2. S \subseteq 1 .. n
    BY <1>1
  <1>3. \A j \in S : \A i \in 1 .. j : i \in S
    <2> TAKE j \in S
    <2> TAKE i \in 1 .. j
    <2>1. j \in 1 .. n /\ i \in 1 .. n /\ keys[i] \in Nat /\ keys[j] \in Nat
      BY <1>1
    <2>2. keys[i] <= keys[j]
      <3>1. CASE i = j
        BY <2>1, <3>1
      <3>2. CASE i < j
        BY <2>1, <3>2 DEF Ordered
      <3> QED
        BY <3>1, <3>2
    <2> QED
      BY <1>1, <2>1, <2>2
  <1>4. Separators(node, key) = Cardinality(S)
    BY DEF Separators
  <1> HIDE DEF S
  <1>5. Cardinality(S) \in 0 .. n /\ S = 1 .. Cardinality(S)
    BY <1>1, <1>2, <1>3, Prefix
  <1>6. \A i \in 1 .. n : i \in S <=> keys[i] <= key
    BY <1>1 DEF S
  <1> DEFINE m == Cardinality(S)
  <1>7. m \in 0 .. n /\ \A i \in 1 .. n : i <= m <=> keys[i] <= key
    BY <1>1, <1>5, <1>6
  <1> HIDE DEF m
  <1>8. Behind(keys, key, m)
    BY <1>1, <1>7, SMTT(20) DEF Behind
  <1> QED
    BY <1>4, <1>8 DEF m

LEMMA SeparatorsUnique ==
    ASSUME NEW node, node.keys \in Seq(Nat), NEW key \in Nat, NEW m,
           Behind(node.keys, key, m)
    PROVE  Separators(node, key) = m
  <1> DEFINE keys == node.keys
             S == {i \in DOMAIN keys : keys[i] <= key}
  <1>1. /\ Len(keys) \in Nat /\ DOMAIN keys = 1 .. Len(keys)
        /\ \A i \in 1 .. Len(keys) : keys[i] \in Nat
        /\ m \in 0 .. Len(keys)
    BY DEF Behind
  <1>2. S = 1 .. m
    <2>1. \A i \in 1 .. Len(keys) : keys[i] <= key <=> i <= m
      <3> TAKE i \in 1 .. Len(keys)
      <3>1. i <= m => keys[i] <= key
        BY <1>1 DEF Behind
      <3>2. i > m => key < keys[i]
        BY <1>1 DEF Behind
      <3> QED
        BY <1>1, <3>1, <3>2
    <2> QED
      BY <1>1, <2>1
  <1> HIDE DEF S
  <1>3. Cardinality(S) = m
    BY <1>1, <1>2, CountFirst
  <1> QED
    BY <1>3 DEF Separators, S

LEMMA BehindUnique ==
    ASSUME NEW keys \in Seq(Nat), NEW key \in Nat, NEW m, NEW k,
           Behind(keys, key, m), Behind(keys, key, k)
    PROVE  m = k
  <1>1. /\ Len(keys) \in Nat /\ m \in 0 .. Len(keys) /\ k \in 0 .. Len(keys)
        /\ \A i \in 1 .. Len(keys) : keys[i] \in Nat
    BY DEF Behind
  <1>2. ~(m < k)
    BY <1>1 DEF Behind
  <1>3. ~(k < m)
    BY <1>1 DEF Behind
  <1> QED
    BY <1>1, <1>2, <1>3

-----------------------------------------------------------------------------
(* Sequences *)

\* t is s with e inserted before position i.
Inserted(t, s, i, e) ==
    /\ Len(t) = Len(s) + 1
    /\ \A j \in 1 .. Len(s) + 1 :
          t[j] = IF j < i THEN s[j] ELSE IF j = i THEN e ELSE s[j - 1]

LEMMA InsertedAt ==
    ASSUME NEW S, NEW s \in Seq(S), NEW e \in S, NEW i \in 1 .. Len(s) + 1,
           NEW t, t = InsertAt(s, i, e)
    PROVE  t \in Seq(S) /\ Inserted(t, s, i, e)
  <1> DEFINE n == Len(s)
             a == SubSeq(s, 1, i - 1)
             b == SubSeq(s, i, n)
             e1 == << e >>
  <1>1. n \in Nat /\ i \in Int /\ i - 1 \in Int /\ n \in Int /\ 1 \in Int
    OBVIOUS
  <1>2. /\ \A j \in 1 .. i - 1 : s[j] \in S
        /\ \A j \in i .. n : s[j] \in S
    OBVIOUS
  <1>3. /\ a \in Seq(S) /\ Len(a) = i - 1
        /\ \A j \in 1 .. i - 1 : a[j] = s[j]
    <2>1. /\ a \in Seq(S)
          /\ Len(a) = IF 1 <= i - 1 THEN (i - 1) - 1 + 1 ELSE 0
          /\ \A j \in 1 .. (i - 1) - 1 + 1 : a[j] = s[1 + j - 1]
      BY <1>1, <1>2, SubSeqProperties
    <2>2. \A j \in 1 .. i - 1 : a[j] = s[1 + j - 1] /\ 1 + j - 1 = j
      BY <1>1, <2>1
    <2>3. (IF 1 <= i - 1 THEN (i - 1) - 1 + 1 ELSE 0) = i - 1
      OBVIOUS
    <2> QED
      BY <2>1, <2>2, <2>3
  <1>4. /\ b \in Seq(S) /\ Len(b) = n + 1 - i
        /\ \A j \in 1 .. n + 1 - i : b[j] = s[i + j - 1]
    <2>1. /\ b \in Seq(S)
          /\ Len(b) = IF i <= n THEN n - i + 1 ELSE 0
          /\ \A j \in 1 .. n - i + 1 : b[j] = s[i + j - 1]
      BY <1>1, <1>2, SubSeqProperties
    <2>2. (IF i <= n THEN n - i + 1 ELSE 0) = n + 1 - i /\ n - i + 1 = n + 1 - i
      OBVIOUS
    <2> QED
      BY <2>1, <2>2
  <1>5. e1 \in Seq(S) /\ Len(e1) = 1 /\ e1[1] = e
    OBVIOUS
  <1> HIDE DEF a, b, e1
  <1>c. PICK c : c = a \o e1
    OBVIOUS
  <1>d. PICK d : d = c \o b
    OBVIOUS
  <1>6. /\ c \in Seq(S) /\ Len(c) = i
        /\ \A j \in 1 .. i : c[j] = IF j < i THEN s[j] ELSE e
    <2>1. /\ c \in Seq(S) /\ Len(c) = Len(a) + Len(e1)
          /\ \A j \in 1 .. Len(a) + Len(e1) :
                c[j] = IF j <= Len(a) THEN a[j] ELSE e1[j - Len(a)]
      BY <1>3, <1>5, <1>c, ConcatProperties
    <2>2. Len(a) + Len(e1) = i
      BY <1>3, <1>5
    <2>3. \A j \in 1 .. i : c[j] = IF j < i THEN s[j] ELSE e
      <3> TAKE j \in 1 .. i
      <3>1. CASE j < i
        <4>1. j \in 1 .. i - 1 /\ j <= Len(a)
          BY <1>1, <1>3, <3>1
        <4> QED
          BY <1>3, <2>1, <2>2, <3>1, <4>1
      <3>2. CASE j = i
        <4>1. ~(j <= Len(a)) /\ j - Len(a) = 1
          BY <1>3, <3>2
        <4> QED
          BY <1>5, <2>1, <2>2, <3>2, <4>1
      <3> QED
        BY <1>1, <3>1, <3>2
    <2> QED
      BY <2>1, <2>2, <2>3
  <1>7. /\ d \in Seq(S) /\ Len(d) = n + 1
        /\ \A j \in 1 .. n + 1 :
              d[j] = IF j <= i THEN c[j] ELSE b[j - i]
    <2>1. Len(c) + Len(b) = n + 1
      BY <1>4, <1>6
    <2>2. /\ d \in Seq(S) /\ Len(d) = Len(c) + Len(b)
          /\ \A j \in 1 .. Len(c) + Len(b) :
                d[j] = IF j <= Len(c) THEN c[j] ELSE b[j - Len(c)]
      BY <1>4, <1>6, <1>d, ConcatProperties
    <2> QED
      BY <1>6, <2>1, <2>2
  <1>8. \A j \in 1 .. n + 1 :
           d[j] = IF j < i THEN s[j] ELSE IF j = i THEN e ELSE s[j - 1]
    <2> TAKE j \in 1 .. n + 1
    <2>1. CASE j <= i
      BY <1>6, <1>7, <2>1
    <2>2. CASE j > i
      <3>1. PICK k : k = j - i
        OBVIOUS
      <3>2. k \in 1 .. n + 1 - i /\ i + k - 1 = j - 1
        BY <1>1, <2>2, <3>1
      <3>3. d[j] = b[k] /\ ~(j <= i)
        BY <1>1, <1>7, <2>2, <3>1
      <3>4. b[k] = s[j - 1]
        BY <1>4, <3>2
      <3> QED
        BY <1>1, <3>3, <3>4
    <2> QED
      BY <1>1, <2>1, <2>2
  <1>9. t = d
    BY <1>c, <1>d DEF InsertAt, a, b, e1
  <1> QED
    BY <1>7, <1>8, <1>9 DEF Inserted

LEMMA PartOf ==
    ASSUME NEW S, NEW s \in Seq(S), NEW a \in Nat, NEW b \in 0 .. Len(s),
           a >= 1, a <= b + 1, NEW t, t = SubSeq(s, a, b)
    PROVE  /\ t \in Seq(S)
           /\ Len(t) = b + 1 - a
           /\ \A j \in 1 .. b + 1 - a : t[j] = s[a + j - 1]
  <1>1. \A j \in a .. b : s[j] \in S
    OBVIOUS
  <1>2. /\ t \in Seq(S)
        /\ Len(t) = IF a <= b THEN b - a + 1 ELSE 0
        /\ \A j \in 1 .. b - a + 1 : t[j] = s[a + j - 1]
    BY <1>1, SubSeqProperties
  <1>3. (IF a <= b THEN b - a + 1 ELSE 0) = b + 1 - a /\ b - a + 1 = b + 1 - a
    OBVIOUS
  <1> QED
    BY <1>2, <1>3

-----------------------------------------------------------------------------
(* Cells of a leaf *)

Cell(V) == [key : Nat, value : V]
CellSet(cells) == {cells[i] : i \in 1 .. Len(cells)}

LEMMA CellKeys ==
    ASSUME NEW V, NEW cells \in Seq(Cell(V))
    PROVE  /\ Len(cells) \in Nat /\ DOMAIN cells = 1 .. Len(cells)
           /\ \A i \in 1 .. Len(cells) :
                 /\ cells[i] \in Cell(V)
                 /\ cells[i].key \in Nat /\ cells[i].value \in V
                 /\ cells[i] = [key |-> cells[i].key, value |-> cells[i].value]
  <1>1. \A c \in Cell(V) : /\ c.key \in Nat /\ c.value \in V
                           /\ c = [key |-> c.key, value |-> c.value]
    BY DEF Cell
  <1>2. /\ Len(cells) \in Nat /\ DOMAIN cells = 1 .. Len(cells)
        /\ \A i \in 1 .. Len(cells) : cells[i] \in Cell(V)
    OBVIOUS
  <1> QED
    BY <1>1, <1>2

InOrder(cells) ==
    \A i, j \in 1 .. Len(cells) : i < j => cells[i].key < cells[j].key

LEMMA LeafFindAt ==
    ASSUME NEW V, NEW cells \in Seq(Cell(V)), InOrder(cells), NEW key \in Nat,
           NEW m, m = leaf_find(cells, key)
    PROVE  /\ m \in 0 .. Len(cells)
           /\ \A i \in 1 .. m : cells[i].key < key
           /\ \A i \in m + 1 .. Len(cells) : key <= cells[i].key
  <1> DEFINE n == Len(cells)
             S == {i \in DOMAIN cells : cells[i].key < key}
  <1>1. /\ n \in Nat /\ DOMAIN cells = 1 .. n
        /\ \A i \in 1 .. n : cells[i].key \in Nat
    BY CellKeys
  <1>2. S \subseteq 1 .. n
    BY <1>1
  <1>3. \A j \in S : \A i \in 1 .. j : i \in S
    <2> TAKE j \in S
    <2> TAKE i \in 1 .. j
    <2>1. j \in 1 .. n /\ i \in 1 .. n /\ cells[i].key \in Nat /\ cells[j].key \in Nat
      BY <1>1
    <2>2. cells[i].key <= cells[j].key
      <3>1. CASE i = j
        BY <2>1, <3>1
      <3>2. CASE i < j
        BY <2>1, <3>2 DEF InOrder
      <3> QED
        BY <3>1, <3>2
    <2> QED
      BY <1>1, <2>1, <2>2
  <1>4. m = Cardinality(S)
    BY DEF leaf_find
  <1> HIDE DEF S
  <1>5. Cardinality(S) \in 0 .. n /\ S = 1 .. Cardinality(S)
    BY <1>1, <1>2, <1>3, Prefix
  <1>6. \A i \in 1 .. n : i \in S <=> cells[i].key < key
    BY <1>1 DEF S
  <1>7. m \in 0 .. n /\ \A i \in 1 .. n : i <= m <=> cells[i].key < key
    BY <1>1, <1>4, <1>5, <1>6
  <1>8. /\ \A i \in 1 .. m : i \in 1 .. n /\ i <= m
        /\ \A i \in m + 1 .. n : i \in 1 .. n /\ ~(i <= m)
    BY <1>1, <1>7
  <1>9. \A i \in 1 .. m : cells[i].key < key
    BY <1>7, <1>8
  <1>10. \A i \in m + 1 .. n : key <= cells[i].key
    BY <1>1, <1>7, <1>8
  <1> QED
    BY <1>7, <1>9, <1>10

Keyless(cells, key) == \A i \in 1 .. Len(cells) : cells[i].key # key

LEMMA LeafInsert ==
    ASSUME NEW V, NEW cells \in Seq(Cell(V)), InOrder(cells),
           NEW key \in Nat, NEW value \in V, Keyless(cells, key),
           NEW t, t = leaf_insert(cells, key, value)
    PROVE  InOrder(t)
  <1> DEFINE n == Len(cells)
             new == [key |-> key, value |-> value]
  <1>1. PICK m : m = leaf_find(cells, key)
    OBVIOUS
  <1>2. /\ m \in 0 .. n
        /\ \A i \in 1 .. m : cells[i].key < key
        /\ \A i \in m + 1 .. n : key <= cells[i].key
    BY <1>1, LeafFindAt
  <1>3. n \in Nat /\ \A i \in 1 .. n : cells[i] \in Cell(V) /\ cells[i].key \in Nat
    BY CellKeys
  <1>4. \A i \in m + 1 .. n : key < cells[i].key
    BY <1>2, <1>3 DEF Keyless
  <1>5. new \in Cell(V) /\ new.key = key
    BY DEF Cell
  <1>6. t = InsertAt(cells, m + 1, new)
    BY <1>1 DEF leaf_insert
  <1> HIDE DEF new
  <1>7. /\ t \in Seq(Cell(V)) /\ Len(t) = n + 1
        /\ \A j \in 1 .. n + 1 :
              t[j] = IF j < m + 1 THEN cells[j]
                     ELSE IF j = m + 1 THEN new ELSE cells[j - 1]
    <2>1. PICK i : i = m + 1
      OBVIOUS
    <2>2. i \in 1 .. Len(cells) + 1 /\ t = InsertAt(cells, i, new)
      BY <1>2, <1>3, <1>6, <2>1
    <2>3. t \in Seq(Cell(V)) /\ Inserted(t, cells, i, new)
      BY <1>5, <2>2, InsertedAt
    <2> QED
      BY <2>1, <2>3 DEF Inserted
  <1>8. /\ \A j \in 1 .. m : t[j] = cells[j]
        /\ t[m + 1] = new
        /\ \A j \in m + 2 .. n + 1 : t[j] = cells[j - 1] /\ j - 1 \in m + 1 .. n
    BY <1>2, <1>3, <1>7
  <1>9. InOrder(t)
    <2> SUFFICES ASSUME NEW i \in 1 .. n + 1, NEW j \in 1 .. n + 1, i < j
                 PROVE  t[i].key < t[j].key
      BY <1>7 DEF InOrder
    <2>1. CASE j <= m
      <3>1. t[i] = cells[i] /\ t[j] = cells[j] /\ i \in 1 .. n /\ j \in 1 .. n
        BY <1>2, <1>8, <2>1
      <3> QED
        BY <3>1 DEF InOrder
    <2>2. CASE j = m + 1
      <3>1. i \in 1 .. m /\ t[i] = cells[i]
        BY <1>2, <1>8, <2>2
      <3> QED
        BY <1>2, <1>5, <1>8, <2>2, <3>1
    <2>3. CASE i = m + 1
      <3>1. j \in m + 2 .. n + 1
        BY <1>2, <2>3
      <3>2. t[j] = cells[j - 1] /\ j - 1 \in m + 1 .. n
        BY <1>8, <3>1
      <3> QED
        BY <1>4, <1>5, <1>8, <2>3, <3>2
    <2>4. CASE i <= m /\ j > m + 1
      <3>1. /\ t[i] = cells[i] /\ i \in 1 .. n
            /\ j \in m + 2 .. n + 1
        BY <1>2, <1>8, <2>4
      <3>2. t[j] = cells[j - 1] /\ j - 1 \in 1 .. n /\ i < j - 1
        BY <1>2, <1>8, <2>4, <3>1
      <3> QED
        BY <3>1, <3>2 DEF InOrder
    <2>5. CASE i > m + 1
      <3>1. i \in m + 2 .. n + 1 /\ j \in m + 2 .. n + 1
        BY <1>2, <2>5
      <3>2. /\ t[i] = cells[i - 1] /\ i - 1 \in 1 .. n
            /\ t[j] = cells[j - 1] /\ j - 1 \in 1 .. n
            /\ i - 1 < j - 1
        BY <1>2, <1>8, <3>1
      <3> QED
        BY <3>2 DEF InOrder
    <2> QED
      BY <1>2, <2>1, <2>2, <2>3, <2>4, <2>5
  <1> QED
    BY <1>9

Half(n) == (n + 1) \div 2
FirstPart(all, h) == SubSeq(all, 1, h)
LastPart(all, h) == SubSeq(all, h + 1, Len(all))

\* The halves of a full leaf that took one cell more, and the key between them.
LeafCut(left, right, all, s) ==
    /\ InOrder(left) /\ InOrder(right)
    /\ CellSet(left) \cup CellSet(right) = CellSet(all)
    /\ s \in Nat
    /\ \A c \in CellSet(left) : c.key < s
    /\ \A c \in CellSet(right) : s <= c.key
    /\ CellSet(left) # {} /\ \E c \in CellSet(right) : c.key = s

LEMMA LeafHalves ==
    ASSUME NEW V, NEW all \in Seq(Cell(V)), InOrder(all), Len(all) >= 2,
           NEW h, h = Half(Len(all)),
           NEW left, left = FirstPart(all, h), NEW right, right = LastPart(all, h),
           NEW s, s = right[1].key
    PROVE  LeafCut(left, right, all, s)
  <1> DEFINE n == Len(all)
  <1>1. n \in Nat /\ \A i \in 1 .. n : all[i] \in Cell(V) /\ all[i].key \in Nat
    BY CellKeys
  <1>2. h \in 1 .. n - 1
    BY <1>1 DEF Half
  <1>3. /\ left \in Seq(Cell(V)) /\ Len(left) = h
        /\ \A j \in 1 .. h : left[j] = all[j] /\ j \in 1 .. n
    <2>1. /\ left \in Seq(Cell(V)) /\ Len(left) = h + 1 - 1
          /\ \A j \in 1 .. h + 1 - 1 : left[j] = all[1 + j - 1]
      BY <1>1, <1>2, PartOf DEF FirstPart
    <2>2. \A j \in 1 .. h : j \in 1 .. h + 1 - 1 /\ 1 + j - 1 = j /\ j \in 1 .. n
      BY <1>1, <1>2
    <2> QED
      BY <1>2, <2>1, <2>2
  <1>4. /\ right \in Seq(Cell(V)) /\ Len(right) = n - h
        /\ \A j \in 1 .. n - h : right[j] = all[h + j] /\ h + j \in 1 .. n
    <2>1. PICK a : a = h + 1
      OBVIOUS
    <2>2. /\ right \in Seq(Cell(V)) /\ Len(right) = n + 1 - a
          /\ \A j \in 1 .. n + 1 - a : right[j] = all[a + j - 1]
      <3>1. a \in Nat /\ n \in 0 .. n /\ a >= 1 /\ a <= n + 1
        BY <1>1, <1>2, <2>1
      <3>2. right = SubSeq(all, a, n)
        BY <2>1 DEF LastPart
      <3> QED
        BY <3>1, <3>2, PartOf, SMTT(20)
    <2>3. n + 1 - a = n - h /\ \A j \in 1 .. n - h : a + j - 1 = h + j /\ h + j \in 1 .. n
      <3>1. \A b \in Nat : \A g \in 1 .. b - 1 :
               /\ b + 1 - (g + 1) = b - g
               /\ \A j \in 1 .. b - g : (g + 1) + j - 1 = g + j /\ g + j \in 1 .. b
        OBVIOUS
      <3> QED
        BY <1>1, <1>2, <2>1, <3>1
    <2> QED
      BY <2>2, <2>3
  <1>5. InOrder(left)
    BY <1>2, <1>3 DEF InOrder
  <1>6. InOrder(right)
    <2> SUFFICES ASSUME NEW i \in 1 .. n - h, NEW j \in 1 .. n - h, i < j
                 PROVE  right[i].key < right[j].key
      BY <1>4 DEF InOrder
    <2>1. PICK a, b : a = h + i /\ b = h + j
      OBVIOUS
    <2>2. a \in 1 .. n /\ b \in 1 .. n /\ a < b /\ right[i] = all[a] /\ right[j] = all[b]
      BY <1>1, <1>2, <1>4, <2>1, SMTT(20)
    <2> QED
      BY <2>2 DEF InOrder
  <1>7. CellSet(left) \cup CellSet(right) = CellSet(all)
    <2>1. CellSet(left) \subseteq CellSet(all)
      BY <1>2, <1>3 DEF CellSet
    <2>2. CellSet(right) \subseteq CellSet(all)
      BY <1>2, <1>4, SMTT(20) DEF CellSet
    <2>3. ASSUME NEW i \in 1 .. n PROVE all[i] \in CellSet(left) \cup CellSet(right)
      <3>1. CASE i <= h
        <4>1. i \in 1 .. h
          BY <1>2, <3>1
        <4> QED
          BY <1>3, <4>1 DEF CellSet
      <3>2. CASE i > h
        <4>1. PICK k : k = i - h
          OBVIOUS
        <4>2. k \in 1 .. n - h /\ h + k = i
          BY <1>1, <1>2, <3>2, <4>1
        <4> QED
          BY <1>4, <4>2 DEF CellSet
      <3> QED
        BY <1>2, <3>1, <3>2
    <2> QED
      BY <2>1, <2>2, <2>3 DEF CellSet
  <1>8. 1 \in 1 .. n - h /\ 1 \in 1 .. h
    BY <1>1, <1>2
  <1>9. right[1].key \in Nat /\ left[1] \in CellSet(all) /\ right[1] \in CellSet(all)
    BY <1>1, <1>3, <1>4, <1>8 DEF CellSet
  <1>10. ASSUME NEW i \in 1 .. h PROVE left[i].key < right[1].key
    <2>1. PICK a : a = h + 1
      OBVIOUS
    <2>2. a \in 1 .. n /\ i \in 1 .. n /\ i < a /\ right[1] = all[a] /\ left[i] = all[i]
      BY <1>1, <1>2, <1>3, <1>4, <1>8, <2>1
    <2> QED
      BY <2>2 DEF InOrder
  <1>11. ASSUME NEW i \in 1 .. n - h PROVE right[1].key <= right[i].key
    <2>1. CASE i = 1
      BY <1>9, <2>1
    <2>2. CASE 1 < i
      <3>1. right[1].key < right[i].key
        BY <1>4, <1>6, <1>8, <2>2 DEF InOrder
      <3>2. right[i].key \in Nat
        BY <1>1, <1>4
      <3> QED
        BY <1>9, <3>1, <3>2
    <2> QED
      BY <2>1, <2>2
  <1>12. /\ \A c \in CellSet(left) : c.key < s
         /\ \A c \in CellSet(right) : s <= c.key
         /\ left[1] \in CellSet(left) /\ right[1] \in CellSet(right)
    BY <1>3, <1>4, <1>8, <1>10, <1>11 DEF CellSet
  <1> QED
    BY <1>5, <1>6, <1>7, <1>9, <1>12 DEF LeafCut

\* f[j] are those of the first j cells that are at one of the places.
Kept(f, cells, places, n) ==
    /\ f = [j \in 0 .. n |-> f[j]]
    /\ f[0] = << >>
    /\ \A j \in 1 .. n : f[j] = IF j \in places THEN Append(f[j - 1], cells[j])
                                ELSE f[j - 1]

LEMMA KeptExists ==
    ASSUME NEW n \in Nat, NEW cells, NEW places
    PROVE  \E f : Kept(f, cells, places, n)
  <1> DEFINE S == {k \in Nat : \E f : Kept(f, cells, places, k)}
  <1>1. 0 \in S
    <2>1. Kept([j \in 0 .. 0 |-> << >>], cells, places, 0)
      BY DEF Kept
    <2> QED
      BY <2>1
  <1>2. ASSUME NEW k \in Nat, k \in S PROVE k + 1 \in S
    <2>1. PICK f : Kept(f, cells, places, k)
      BY <1>2
    <2>2. PICK new : new = IF k + 1 \in places THEN Append(f[k], cells[k + 1]) ELSE f[k]
      OBVIOUS
    <2> DEFINE h == [j \in 0 .. k + 1 |-> IF j = k + 1 THEN new ELSE f[j]]
    <2>3. h = [j \in 0 .. k + 1 |-> h[j]] /\ h[0] = << >>
      BY <2>1 DEF Kept
    <2>4. ASSUME NEW j \in 1 .. k + 1
          PROVE  h[j] = IF j \in places THEN Append(h[j - 1], cells[j]) ELSE h[j - 1]
      <3>1. CASE j = k + 1
        <4>1. h[j] = new /\ h[j - 1] = f[k] /\ cells[j] = cells[k + 1]
          BY <3>1
        <4> QED
          BY <2>2, <3>1, <4>1
      <3>2. CASE j # k + 1
        <4>1. j \in 1 .. k /\ h[j] = f[j] /\ h[j - 1] = f[j - 1]
          BY <3>2
        <4> QED
          BY <2>1, <4>1 DEF Kept
      <3> QED
        BY <3>1, <3>2
    <2> HIDE DEF h
    <2>5. Kept(h, cells, places, k + 1)
      BY <2>3, <2>4 DEF Kept
    <2> QED
      BY <2>5
  <1> HIDE DEF S
  <1>3. n \in S
    BY <1>1, <1>2, Induction
  <1> QED
    BY <1>3 DEF S

LEMMA PickedKept ==
    ASSUME NEW cells, Len(cells) \in Nat, NEW places
    PROVE  \E f : Kept(f, cells, places, Len(cells)) /\ Picked(cells, places) = f[Len(cells)]
  <1> DEFINE n == Len(cells)
             Body(f) == [j \in 0 .. Len(cells) |->
                            IF j = 0 THEN << >>
                            ELSE IF j \in places THEN Append(f[j - 1], cells[j])
                            ELSE f[j - 1]]
             kept == CHOOSE f : f = Body(f)
  <1>1. Picked(cells, places) = kept[n]
    BY DEF Picked
  <1>2. n \in Nat
    OBVIOUS
  <1>3. PICK f : Kept(f, cells, places, n)
    BY <1>2, KeptExists
  <1>4. f = Body(f)
    <2>1. \A j \in 0 .. n : f[j] = Body(f)[j]
      <3> TAKE j \in 0 .. n
      <3>1. CASE j = 0
        BY <1>2, <1>3, <3>1 DEF Kept
      <3>2. CASE j # 0
        <4>1. j \in 1 .. n
          BY <1>2, <3>2
        <4> QED
          BY <1>3, <3>2, <4>1 DEF Kept
      <3> QED
        BY <3>1, <3>2
    <2>2. f = [j \in 0 .. n |-> f[j]] /\ Body(f) = [j \in 0 .. n |-> Body(f)[j]]
      BY <1>3 DEF Kept
    <2> HIDE DEF Body
    <2>3. [j \in 0 .. n |-> f[j]] = [j \in 0 .. n |-> Body(f)[j]]
      BY <2>1
    <2> QED
      BY <2>2, <2>3
  <1>5. kept = Body(kept)
    <2> HIDE DEF Body
    <2> QED
      BY <1>4
  <1>6. /\ Body(kept) = [j \in 0 .. n |-> Body(kept)[j]]
        /\ Body(kept)[0] = << >>
        /\ \A j \in 1 .. n : Body(kept)[j] = IF j \in places THEN Append(kept[j - 1], cells[j])
                                            ELSE kept[j - 1]
    BY <1>2
  <1> HIDE DEF kept, Body
  <1>7. Kept(kept, cells, places, n)
    BY <1>5, <1>6 DEF Kept
  <1> QED
    BY <1>1, <1>7

\* The cells at the places are picked, in their order.
LEMMA PickedIs ==
    ASSUME NEW G, NEW cells \in Seq(G), NEW places, NEW t, t = Picked(cells, places)
    PROVE  /\ t \in Seq(G) /\ Len(t) <= Len(cells)
           /\ \A c : c \in CellSet(t)
                       <=> \E i \in 1 .. Len(cells) : i \in places /\ c = cells[i]
           /\ (\A i, j \in 1 .. Len(cells) :
                  i \in places /\ j \in places /\ i < j => cells[i].key < cells[j].key)
                 => InOrder(t)
  <1> DEFINE n == Len(cells)
             At(k) == {cells[i] : i \in {j \in 1 .. k : j \in places}}
             Rises == \A i, j \in 1 .. n :
                         i \in places /\ j \in places /\ i < j => cells[i].key < cells[j].key
             Part(s, k) ==
                /\ s \in Seq(G) /\ Len(s) <= k /\ CellSet(s) = At(k)
                /\ Rises => InOrder(s)
  <1>2. n \in Nat /\ \A i \in 1 .. n : cells[i] \in G
    OBVIOUS
  <1>1. PICK f : Kept(f, cells, places, n) /\ t = f[n]
    BY <1>2, PickedKept
  <1> DEFINE S == {k \in Nat : k <= n => Part(f[k], k)}
  <1>3. 0 \in S
    <2>1. f[0] = << >>
      BY <1>1 DEF Kept
    <2>2. << >> \in Seq(G) /\ Len(<< >>) = 0
      OBVIOUS
    <2>3. InOrder(<< >>) /\ CellSet(<< >>) = {}
      BY <2>2 DEF InOrder, CellSet
    <2>4. At(0) = {}
      OBVIOUS
    <2>5. Part(<< >>, 0)
      BY <2>2, <2>3, <2>4
    <2> QED
      BY <2>1, <2>5
  <1>4. ASSUME NEW k \in Nat, k \in S PROVE k + 1 \in S
    <2>1. SUFFICES ASSUME k + 1 <= n PROVE Part(f[k + 1], k + 1)
      OBVIOUS
    <2>2. PICK s : s = f[k]
      OBVIOUS
    <2>3. PICK m : m = k + 1
      OBVIOUS
    <2>4. m \in 1 .. n /\ m - 1 = k /\ k <= n
      BY <1>2, <2>1, <2>3
    <2>5. Part(s, k)
      BY <1>4, <2>2, <2>4
    <2>6. f[m] = IF m \in places THEN Append(s, cells[m]) ELSE s
      BY <1>1, <2>2, <2>4 DEF Kept
    <2>7. cells[m] \in G
      BY <1>2, <2>4
    <2>8. CASE m \notin places
      <3>1. {j \in 1 .. m : j \in places} = {j \in 1 .. k : j \in places}
        BY <2>3, <2>8
      <3>2. f[m] = s
        BY <2>6, <2>8
      <3>3. At(m) = At(k)
        BY <3>1
      <3>4. Len(s) \in Nat
        BY <2>5
      <3>5. Len(s) <= m
        BY <2>3, <2>5, <3>4
      <3> QED
        BY <2>3, <2>5, <3>2, <3>3, <3>5
    <2>9. CASE m \in places
      <3>1. PICK u : u = Append(s, cells[m])
        OBVIOUS
      <3>2. /\ u \in Seq(G) /\ Len(u) = Len(s) + 1
            /\ \A i \in 1 .. Len(s) : u[i] = s[i]
            /\ u[Len(s) + 1] = cells[m]
        BY <2>5, <2>7, <3>1, AppendProperties
      <3>3. Len(s) \in Nat
        BY <2>5
      <3>4. ASSUME Rises, NEW i \in 1 .. Len(s) PROVE s[i].key < cells[m].key
        <4>1. s[i] \in CellSet(s)
          BY DEF CellSet
        <4>2. PICK j \in 1 .. k : j \in places /\ s[i] = cells[j]
          BY <2>5, <4>1
        <4>3. j \in 1 .. n /\ j < m
          BY <1>2, <2>3, <2>4
        <4> QED
          BY <2>4, <2>9, <3>4, <4>2, <4>3
      <3>5. ASSUME Rises PROVE InOrder(u)
        <4> SUFFICES ASSUME NEW i \in 1 .. Len(s) + 1, NEW j \in 1 .. Len(s) + 1, i < j
                     PROVE  u[i].key < u[j].key
          BY <3>2 DEF InOrder
        <4>1. i \in 1 .. Len(s) /\ u[i] = s[i]
          BY <3>2, <3>3
        <4>2. CASE j = Len(s) + 1
          BY <3>2, <3>4, <3>5, <4>1, <4>2
        <4>3. CASE j # Len(s) + 1
          <5>1. j \in 1 .. Len(s) /\ u[j] = s[j]
            BY <3>2, <3>3, <4>3
          <5>2. InOrder(s)
            BY <2>5, <3>5
          <5> QED
            BY <4>1, <5>1, <5>2 DEF InOrder
        <4> QED
          BY <4>2, <4>3
      <3>6. CellSet(u) = CellSet(s) \cup {cells[m]}
        <4>1. 1 .. Len(u) = 1 .. Len(s) \cup {Len(s) + 1}
          BY <3>2, <3>3
        <4> QED
          BY <3>2, <4>1 DEF CellSet
      <3>7. {j \in 1 .. m : j \in places} = {j \in 1 .. k : j \in places} \cup {m}
        BY <2>3, <2>9
      <3>8. CellSet(u) = At(m)
        BY <2>5, <3>6, <3>7
      <3>9. Len(u) <= m
        BY <2>3, <2>5, <3>2, <3>3
      <3>10. f[m] = u
        BY <2>6, <2>9, <3>1
      <3> QED
        BY <2>3, <3>2, <3>5, <3>8, <3>9, <3>10
    <2> QED
      BY <2>8, <2>9
  <1> HIDE DEF S
  <1>5. n \in S
    BY <1>2, <1>3, <1>4, Induction
  <1>6. Part(t, n)
    BY <1>1, <1>2, <1>5 DEF S
  <1>7. \A c : c \in CellSet(t) <=> \E i \in 1 .. n : i \in places /\ c = cells[i]
    BY <1>6
  <1> QED
    BY <1>6, <1>7

LeafWithout(t, cells, V, key) ==
    /\ t \in Seq(Cell(V)) /\ Len(t) <= Len(cells) /\ InOrder(t)
    /\ CellSet(t) = {c \in CellSet(cells) : c.key # key}

LEMMA LeafDelete ==
    ASSUME NEW V, NEW cells \in Seq(Cell(V)), InOrder(cells), NEW key \in Nat,
           NEW t, t = leaf_delete(cells, key)
    PROVE  LeafWithout(t, cells, V, key)
  <1>1. PICK places : places = {i \in DOMAIN cells : cells[i].key # key}
    OBVIOUS
  <1>2. t = Picked(cells, places)
    BY <1>1 DEF leaf_delete
  <1>3. /\ t \in Seq(Cell(V)) /\ Len(t) <= Len(cells)
        /\ \A c : c \in CellSet(t)
                    <=> \E i \in 1 .. Len(cells) : i \in places /\ c = cells[i]
        /\ (\A i, j \in 1 .. Len(cells) :
               i \in places /\ j \in places /\ i < j => cells[i].key < cells[j].key)
              => InOrder(t)
    BY <1>2, PickedIs
  <1>4. InOrder(t)
    BY <1>3 DEF InOrder
  <1>5. \A i : i \in places <=> i \in 1 .. Len(cells) /\ cells[i].key # key
    BY <1>1
  <1>6. ASSUME NEW c
        PROVE  c \in CellSet(t) <=> c \in CellSet(cells) /\ c.key # key
    <2>1. c \in CellSet(t) <=> \E i \in 1 .. Len(cells) : i \in places /\ c = cells[i]
      BY <1>3
    <2>2. c \in CellSet(cells) <=> \E i \in 1 .. Len(cells) : c = cells[i]
      BY DEF CellSet
    <2> QED
      BY <1>5, <2>1, <2>2
  <1>7. CellSet(t) = {c \in CellSet(cells) : c.key # key}
    BY <1>6
  <1> QED
    BY <1>3, <1>4, <1>7 DEF LeafWithout

\* at is the position of key's cell, 0 when there is none.
Position(cells, key, at) ==
    \/ at \in 1 .. Len(cells) /\ cells[at].key = key
    \/ at = 0 /\ \A i \in 1 .. Len(cells) : cells[i].key # key

\* What the search between left and right has to find.
Hit(at, left, right) == IF at \in left + 1 .. right THEN at ELSE 0

Middle(left, right) == (left + right) \div 2

LEMMA SearchStep ==
    ASSUME NEW V, NEW cells \in Seq(Cell(V)), InOrder(cells), NEW key \in Nat,
           NEW at, Position(cells, key, at),
           NEW left \in 0 .. Len(cells), NEW right \in 0 .. Len(cells), left < right,
           NEW mid, mid = Middle(left, right)
    PROVE  /\ mid \in left .. right - 1
           /\ cells[mid + 1].key = key => Hit(at, left, right) = mid + 1
           /\ cells[mid + 1].key < key => Hit(at, left, right) = Hit(at, mid + 1, right)
           /\ ~(cells[mid + 1].key = key) /\ ~(cells[mid + 1].key < key)
                 => Hit(at, left, right) = Hit(at, left, mid)
  <1> DEFINE n == Len(cells)
  <1>1. n \in Nat /\ \A i \in 1 .. n : cells[i].key \in Nat
    BY CellKeys
  <1>2. mid \in left .. right - 1
    BY <1>1 DEF Middle
  <1>3. PICK m : m = mid + 1
    OBVIOUS
  <1>4. m \in left + 1 .. right /\ m \in 1 .. n
    BY <1>1, <1>2, <1>3
  <1>5. \A i \in 1 .. n : i < m => cells[i].key < cells[m].key
    BY <1>4 DEF InOrder
  <1>6. \A i \in 1 .. n : m < i => cells[m].key < cells[i].key
    BY <1>4 DEF InOrder
  <1>7. at \in 0 .. n
    BY <1>1 DEF Position
  <1>8. CASE cells[m].key = key
    <2>1. at = m
      BY <1>1, <1>4, <1>5, <1>6, <1>8 DEF Position
    <2> QED
      BY <1>1, <1>2, <1>3, <1>4, <1>8, <2>1 DEF Hit
  <1>9. CASE cells[m].key < key
    <2>1. at = 0 \/ at > m
      BY <1>1, <1>4, <1>5, <1>9 DEF Position
    <2>2. Hit(at, left, right) = Hit(at, m, right)
      BY <1>1, <1>4, <1>7, <2>1 DEF Hit
    <2> QED
      BY <1>1, <1>2, <1>3, <1>4, <1>9, <2>2
  <1>10. CASE ~(cells[m].key = key) /\ ~(cells[m].key < key)
    <2>1. at = 0 \/ at < m
      BY <1>1, <1>4, <1>6, <1>10 DEF Position
    <2>2. Hit(at, left, right) = Hit(at, left, mid)
      BY <1>1, <1>2, <1>3, <1>4, <1>7, <2>1 DEF Hit
    <2> QED
      BY <1>1, <1>2, <1>3, <1>4, <1>10, <2>2
  <1> QED
    BY <1>8, <1>9, <1>10

LEMMA LeafSearch ==
    ASSUME NEW V, NEW cells \in Seq(Cell(V)), InOrder(cells), NEW key \in Nat,
           NEW at, Position(cells, key, at)
    PROVE  leaf_search(cells, key) = at
  <1> DEFINE n == Len(cells)
             B == 0 .. Len(cells)
             Step(f, w) ==
                LET left  == w[1]
                    right == w[2]
                    mid   == (left + right) \div 2
                    k     == cells[mid + 1].key
                IN  IF left >= right THEN 0
                    ELSE IF k = key THEN mid + 1
                    ELSE IF k < key THEN f[<< mid + 1, right >>]
                    ELSE f[<< left, mid >>]
             Body(f) == [w \in B \X B |-> Step(f, w)]
             search == CHOOSE f : f = Body(f)
             h == [w \in B \X B |-> Hit(at, w[1], w[2])]
  <1>1. leaf_search(cells, key) = search[<< 0, n >>]
    BY DEF leaf_search
  <1>2. n \in Nat /\ at \in 0 .. n
    BY CellKeys DEF Position
  <1>3. ASSUME NEW f, NEW left \in B, NEW right \in B,
               \A l, r \in B : r - l < right - left => f[<< l, r >>] = Hit(at, l, r)
        PROVE  Step(f, << left, right >>) = Hit(at, left, right)
    <2>1. CASE left >= right
      BY <1>2, <2>1 DEF Hit
    <2>2. CASE left < right
      <3>1. PICK mid : mid = Middle(left, right)
        OBVIOUS
      <3>2. PICK k : k = cells[mid + 1].key
        OBVIOUS
      <3>3. /\ mid \in left .. right - 1
            /\ k = key => Hit(at, left, right) = mid + 1
            /\ k < key => Hit(at, left, right) = Hit(at, mid + 1, right)
            /\ ~(k = key) /\ ~(k < key) => Hit(at, left, right) = Hit(at, left, mid)
        <4> HIDE DEF Step, Body, search, h
        <4>1. /\ mid \in left .. right - 1
              /\ cells[mid + 1].key = key => Hit(at, left, right) = mid + 1
              /\ cells[mid + 1].key < key => Hit(at, left, right) = Hit(at, mid + 1, right)
              /\ ~(cells[mid + 1].key = key) /\ ~(cells[mid + 1].key < key)
                    => Hit(at, left, right) = Hit(at, left, mid)
          BY <2>2, <3>1, SearchStep
        <4> QED
          BY <3>2, <4>1
      <3>4. mid + 1 \in B /\ mid \in B /\ right - (mid + 1) < right - left /\ mid - left < right - left
        BY <1>2, <3>3
      <3>5. f[<< mid + 1, right >>] = Hit(at, mid + 1, right) /\ f[<< left, mid >>] = Hit(at, left, mid)
        BY <1>3, <3>4
      <3>6. Step(f, << left, right >>) = IF k = key THEN mid + 1
                                   ELSE IF k < key THEN f[<< mid + 1, right >>]
                                   ELSE f[<< left, mid >>]
        BY <1>2, <2>2, <3>1, <3>2 DEF Middle
      <3> HIDE DEF Step
      <3>7. CASE k = key
        BY <3>3, <3>6, <3>7
      <3>8. CASE k # key /\ k < key
        BY <3>3, <3>5, <3>6, <3>8
      <3>9. CASE k # key /\ ~(k < key)
        BY <3>3, <3>5, <3>6, <3>9
      <3> QED
        BY <3>7, <3>8, <3>9
    <2> QED
      BY <1>2, <2>1, <2>2
  <1> HIDE DEF Step
  <1>4. h = Body(h)
    <2>1. \A w \in B \X B : Step(h, w) = Hit(at, w[1], w[2])
      <3>1. \A l, r \in B : h[<< l, r >>] = Hit(at, l, r)
        OBVIOUS
      <3> HIDE DEF h
      <3>2. \A l, r \in B : Step(h, << l, r >>) = Hit(at, l, r)
        BY <1>3, <3>1
      <3> QED
        BY <3>2
    <2> QED
      BY <2>1
  <1>5. search = Body(search)
    <2> HIDE DEF Body, h
    <2> QED
      BY <1>4
  <1> HIDE DEF search
  <1>6. \A l, r \in B : search[<< l, r >>] = Step(search, << l, r >>)
    <2>1. \A f : \A l, r \in B : Body(f)[<< l, r >>] = Step(f, << l, r >>)
      OBVIOUS
    <2> HIDE DEF Body
    <2> QED
      BY <1>5, <2>1
  <1> HIDE DEF Body, h
  <1> DEFINE S == {k \in Nat : \A l, r \in B : r - l < k => search[<< l, r >>] = Hit(at, l, r)}
  <1>7. 0 \in S
    <2>1. ASSUME NEW l \in B, NEW r \in B, r - l < 0
          PROVE  search[<< l, r >>] = Hit(at, l, r)
      <3>1. Step(search, << l, r >>) = 0
        BY <1>2, <2>1 DEF Step
      <3>2. Hit(at, l, r) = 0
        BY <1>2, <2>1 DEF Hit
      <3> QED
        BY <1>6, <3>1, <3>2
    <2> QED
      BY <2>1
  <1>8. ASSUME NEW k \in Nat, k \in S PROVE k + 1 \in S
    <2>1. ASSUME NEW l \in B, NEW r \in B, r - l < k + 1
          PROVE  search[<< l, r >>] = Hit(at, l, r)
      <3>1. \A a, b \in B : b - a < r - l => search[<< a, b >>] = Hit(at, a, b)
        <4> TAKE a, b \in B
        <4>1. b - a < r - l => b - a < k
          BY <1>2, <2>1
        <4> QED
          BY <1>8, <4>1
      <3> QED
        BY <1>3, <1>6, <3>1
    <2> QED
      BY <2>1
  <1> HIDE DEF S
  <1>9. n + 1 \in S
    BY <1>2, <1>7, <1>8, Induction
  <1>10. search[<< 0, n >>] = Hit(at, 0, n)
    <2>1. 0 \in B /\ n \in B /\ n - 0 < n + 1
      BY <1>2
    <2> QED
      BY <1>9, <2>1 DEF S
  <1>11. Hit(at, 0, n) = at
    BY <1>2 DEF Hit
  <1> QED
    BY <1>1, <1>10, <1>11

-----------------------------------------------------------------------------
(* Internal nodes *)

InnerNodes(P) ==
    [type : {"internal"}, keys : Seq(Nat), child : [ChildSlots -> P], right : P]

\* Child i of n + 1: what lies between separators i and i + 1.
ChildAt(node, i) == IF i = Len(node.keys) THEN node.right ELSE node.child[i]

Strict(keys) ==
    \A i, j \in 1 .. Len(keys) : i < j => keys[i] < keys[j]

LEMMA InnerParts ==
    ASSUME NEW P, NEW node \in InnerNodes(P)
    PROVE  /\ IsInternal(node) /\ ~IsLeaf(node)
           /\ node.keys \in Seq(Nat) /\ Len(node.keys) \in Nat
           /\ \A i \in 1 .. Len(node.keys) : node.keys[i] \in Nat
           /\ node.child \in [ChildSlots -> P] /\ node.right \in P
  <1>1. /\ node.type = "internal" /\ node.keys \in Seq(Nat)
        /\ node.child \in [ChildSlots -> P] /\ node.right \in P
    BY DEF InnerNodes
  <1> QED
    BY <1>1 DEF IsInternal, IsLeaf

Parts(node, keys, child, right) ==
    node.keys = keys /\ node.child = child /\ node.right = right

LEMMA InternalParts ==
    ASSUME NEW P, NEW keys \in Seq(Nat), NEW child \in [ChildSlots -> P], NEW right \in P,
           NEW node, node = Internal(keys, child, right)
    PROVE  node \in InnerNodes(P) /\ Parts(node, keys, child, right)
  BY DEF Internal, InnerNodes, Parts

\* The keys of a node into which one was inserted, in their order.
WithKey(keys, key, m) == InsertAt(keys, m + 1, key)

KeyPutAt(t, keys, key, m) ==
    /\ Len(t) = Len(keys) + 1
    /\ \A j \in 1 .. m : t[j] = keys[j]
    /\ t[m + 1] = key
    /\ \A j \in m + 2 .. Len(keys) + 1 : t[j] = keys[j - 1]
    /\ Ordered(t)
    /\ Strict(keys) /\ (\A i \in 1 .. Len(keys) : keys[i] # key) => Strict(t)

LEMMA KeyInserted ==
    ASSUME NEW keys \in Seq(Nat), Ordered(keys), NEW key \in Nat,
           NEW m, Behind(keys, key, m), NEW t, t = WithKey(keys, key, m)
    PROVE  t \in Seq(Nat) /\ KeyPutAt(t, keys, key, m)
  <1> DEFINE n == Len(keys)
  <1>1. n \in Nat /\ m \in 0 .. n /\ \A i \in 1 .. n : keys[i] \in Nat
    BY DEF Behind
  <1>2. PICK i : i = m + 1
    OBVIOUS
  <1>3. i \in 1 .. n + 1 /\ t = InsertAt(keys, i, key)
    BY <1>1, <1>2 DEF WithKey
  <1>4. /\ t \in Seq(Nat) /\ Len(t) = Len(keys) + 1
        /\ \A j \in 1 .. Len(keys) + 1 :
              t[j] = IF j < i THEN keys[j] ELSE IF j = i THEN key ELSE keys[j - 1]
    <2>1. t \in Seq(Nat) /\ Inserted(t, keys, i, key)
      BY <1>3, InsertedAt
    <2> QED
      BY <2>1 DEF Inserted
  <1>5. /\ \A j \in 1 .. m : t[j] = keys[j] /\ j \in 1 .. n
        /\ t[i] = key
        /\ \A j \in i + 1 .. n + 1 : t[j] = keys[j - 1] /\ j - 1 \in m + 1 .. n
    <2>1. /\ \A j \in 1 .. m : j \in 1 .. n + 1 /\ j < i /\ j \in 1 .. n
          /\ i \in 1 .. n + 1 /\ ~(i < i)
          /\ \A j \in i + 1 .. n + 1 : /\ j \in 1 .. n + 1 /\ ~(j < i) /\ j # i
                                       /\ j - 1 \in m + 1 .. n
      BY <1>1, <1>2
    <2> QED
      BY <1>4, <2>1
  <1>6. \A a \in 1 .. n : a <= m => keys[a] <= key
    BY DEF Behind
  <1>7. \A a \in 1 .. n : a > m => key < keys[a]
    BY <1>1 DEF Behind
  <1>8. ASSUME NEW a \in 1 .. n + 1, NEW b \in 1 .. n + 1, a < b
        PROVE  /\ t[a] <= t[b]
               /\ Strict(keys) /\ (\A j \in 1 .. n : keys[j] # key) => t[a] < t[b]
    <2>1. CASE b <= m
      <3>1. a \in 1 .. n /\ b \in 1 .. n /\ t[a] = keys[a] /\ t[b] = keys[b]
        BY <1>1, <1>5, <1>8, <2>1
      <3> QED
        BY <1>8, <3>1 DEF Ordered, Strict
    <2>2. CASE b = i
      <3>1. a \in 1 .. n /\ a <= m /\ t[a] = keys[a] /\ t[b] = key
        BY <1>1, <1>2, <1>5, <1>8, <2>2
      <3>2. keys[a] <= key /\ keys[a] \in Nat
        BY <1>1, <1>6, <3>1
      <3> QED
        BY <3>1, <3>2
    <2>3. CASE a = i
      <3>1. b \in i + 1 .. n + 1 /\ t[a] = key
        BY <1>1, <1>2, <1>5, <1>8, <2>3
      <3>2. PICK c : c = b - 1
        OBVIOUS
      <3>3. c \in 1 .. n /\ c > m /\ t[b] = keys[c]
        BY <1>1, <1>2, <1>5, <3>1, <3>2
      <3> QED
        BY <1>1, <1>7, <3>1, <3>3
    <2>4. CASE a <= m /\ b > i
      <3>1. a \in 1 .. n /\ t[a] = keys[a] /\ b \in i + 1 .. n + 1
        BY <1>1, <1>2, <1>5, <2>4
      <3>2. PICK c : c = b - 1
        OBVIOUS
      <3>3. c \in 1 .. n /\ t[b] = keys[c] /\ a < c
        BY <1>1, <1>2, <1>5, <2>4, <3>1, <3>2
      <3> QED
        BY <3>1, <3>3 DEF Ordered, Strict
    <2>5. CASE a > i
      <3>1. a \in i + 1 .. n + 1 /\ b \in i + 1 .. n + 1
        BY <1>1, <1>2, <1>8, <2>5
      <3>2. PICK c, d : c = a - 1 /\ d = b - 1
        OBVIOUS
      <3>3. c \in 1 .. n /\ d \in 1 .. n /\ c < d /\ t[a] = keys[c] /\ t[b] = keys[d]
        BY <1>1, <1>2, <1>5, <1>8, <3>1, <3>2, SMTT(20)
      <3> QED
        BY <3>3 DEF Ordered, Strict
    <2> QED
      BY <1>1, <1>2, <2>1, <2>2, <2>3, <2>4, <2>5
  <1>9. Ordered(t)
    BY <1>4, <1>8 DEF Ordered
  <1>10. Strict(keys) /\ (\A j \in 1 .. n : keys[j] # key) => Strict(t)
    BY <1>4, <1>8 DEF Strict
  <1>11. \A j \in m + 2 .. n + 1 : j \in i + 1 .. n + 1
    BY <1>1, <1>2
  <1> QED
    BY <1>2, <1>4, <1>5, <1>9, <1>10, <1>11 DEF KeyPutAt

\* Where k lies among the keys, before and after key was inserted.
LEMMA BehindInserted ==
    ASSUME NEW keys \in Seq(Nat), Ordered(keys), NEW key \in Nat,
           NEW m, Behind(keys, key, m), NEW t, t = WithKey(keys, key, m),
           NEW k \in Nat, NEW s, Behind(keys, k, s)
    PROVE  Behind(t, k, IF key <= k THEN s + 1 ELSE s)
  <1> DEFINE n == Len(keys)
  <1>1. /\ n \in Nat /\ m \in 0 .. n /\ s \in 0 .. n
        /\ \A i \in 1 .. n : keys[i] \in Nat
    BY DEF Behind
  <1>2. /\ Len(t) = n + 1
        /\ \A j \in 1 .. m : t[j] = keys[j]
        /\ t[m + 1] = key
        /\ \A j \in m + 2 .. n + 1 : t[j] = keys[j - 1]
    <2>1. KeyPutAt(t, keys, key, m)
      BY KeyInserted
    <2> QED
      BY <2>1 DEF KeyPutAt
  <1>3. /\ \A a \in 1 .. n : a <= m => keys[a] <= key
        /\ \A a \in 1 .. n : a > m => key < keys[a]
        /\ \A a \in 1 .. n : a <= s => keys[a] <= k
        /\ \A a \in 1 .. n : a > s => k < keys[a]
    BY <1>1 DEF Behind
  <1>4. ASSUME NEW j \in m + 2 .. n + 1
        PROVE  \E a \in 1 .. n : a = j - 1 /\ t[j] = keys[a]
    BY <1>1, <1>2, <1>4
  <1>5. CASE key <= k
    <2>1. m <= s
      BY <1>1, <1>3, <1>5
    <2>2. s + 1 \in 0 .. n + 1
      BY <1>1
    <2>3. ASSUME NEW j \in 1 .. n + 1, j <= s + 1 PROVE t[j] <= k
      <3>1. CASE j <= m
        <4>1. j \in 1 .. m /\ j \in 1 .. n /\ j <= s
          BY <1>1, <2>1, <3>1
        <4> QED
          BY <1>2, <1>3, <4>1
      <3>2. CASE j = m + 1
        BY <1>2, <1>5, <3>2
      <3>3. CASE j > m + 1
        <4>1. j \in m + 2 .. n + 1
          BY <1>1, <3>3
        <4>2. PICK a \in 1 .. n : a = j - 1 /\ t[j] = keys[a]
          BY <1>4, <4>1
        <4> QED
          BY <1>1, <1>3, <2>3, <4>2
      <3> QED
        BY <1>1, <3>1, <3>2, <3>3
    <2>4. ASSUME NEW j \in 1 .. n + 1, j > s + 1 PROVE k < t[j]
      <3>1. j \in m + 2 .. n + 1
        BY <1>1, <2>1, <2>4
      <3>2. PICK a \in 1 .. n : a = j - 1 /\ t[j] = keys[a]
        BY <1>4, <3>1
      <3> QED
        BY <1>1, <1>3, <2>4, <3>2
    <2>5. PICK u : u = s + 1
      OBVIOUS
    <2>6. Behind(t, k, u)
      BY <1>1, <1>2, <2>2, <2>3, <2>4, <2>5 DEF Behind
    <2> QED
      BY <1>5, <2>5, <2>6
  <1>6. CASE k < key
    <2>1. s <= m
      BY <1>1, <1>3, <1>6
    <2>2. ASSUME NEW j \in 1 .. n + 1, j <= s PROVE t[j] <= k
      <3>1. t[j] = keys[j] /\ j \in 1 .. n
        BY <1>1, <1>2, <2>1, <2>2
      <3> QED
        BY <1>3, <2>2, <3>1
    <2>3. ASSUME NEW j \in 1 .. n + 1, j > s PROVE k < t[j]
      <3>1. CASE j <= m
        <4>1. j \in 1 .. n /\ t[j] = keys[j]
          BY <1>1, <1>2, <3>1
        <4> QED
          BY <1>3, <2>3, <4>1
      <3>2. CASE j = m + 1
        BY <1>2, <1>6, <3>2
      <3>3. CASE j > m + 1
        <4>1. j \in m + 2 .. n + 1
          BY <1>1, <3>3
        <4>2. PICK a \in 1 .. n : a = j - 1 /\ t[j] = keys[a]
          BY <1>4, <4>1
        <4>3. a > s
          BY <1>1, <2>1, <3>3, <4>2
        <4> QED
          BY <1>3, <4>2, <4>3
      <3> QED
        BY <1>1, <3>1, <3>2, <3>3
    <2>4. Behind(t, k, s)
      BY <1>1, <1>2, <2>2, <2>3 DEF Behind
    <2>5. ~(key <= k)
      BY <1>6
    <2> QED
      BY <2>4, <2>5
  <1> QED
    BY <1>5, <1>6

\* The slots of a node into which a child was put behind the first m + 1.
Shifted(node, new, m) ==
    [c \in ChildSlots |->
        IF c \in m + 2 .. Len(node.keys) + 1 THEN node.child[c - 1]
        ELSE IF c = m + 1 THEN new
        ELSE node.child[c]]

\* t is node with key behind its first m keys and the page new behind its first
\* m + 1 children, unless the append case forgets a child.
NodeWith(t, node, key, new, m) ==
    /\ m \in 0 .. Len(node.keys)
    /\ t.keys = WithKey(node.keys, key, m)
    /\ Len(t.keys) = Len(node.keys) + 1
    /\ IF m = Len(node.keys)
       THEN t.child = node.child /\ t.right = new
       ELSE t.child = Shifted(node, new, m) /\ t.right = node.right

\* Whatever order the keys are in.
LEMMA InsertedNode ==
    ASSUME NEW P, NEW node \in InnerNodes(P),
           Len(node.keys) <= INTERNAL_NODE_MAX_KEYS,
           NEW key \in Nat, NEW new \in P,
           NEW m, m = Separators(node, key),
           NEW t, t = internal_insert(node, key, new)
    PROVE  t \in InnerNodes(P) /\ NodeWith(t, node, key, new, m)
  <1> DEFINE n == Len(node.keys)
             keys == WithKey(node.keys, key, m)
             moved == Shifted(node, new, m)
  <1>1. /\ node.keys \in Seq(Nat) /\ n \in Nat /\ DOMAIN node.keys = 1 .. n
        /\ node.child \in [ChildSlots -> P] /\ node.right \in P
    BY InnerParts
  <1>2. m \in 0 .. n
    <2> DEFINE S == {i \in DOMAIN node.keys : node.keys[i] <= key}
    <2>1. S \subseteq 1 .. n
      BY <1>1
    <2>2. m = Cardinality(S)
      BY DEF Separators
    <2> HIDE DEF S
    <2> QED
      BY <1>1, <2>1, <2>2, CountBound
  <1>3. t = IF m = n THEN Internal(keys, node.child, new)
            ELSE Internal(keys, moved, node.right)
    BY DEF internal_insert, WithKey, Shifted
  <1>4. keys \in Seq(Nat) /\ Len(keys) = n + 1
    <2>1. PICK i : i = m + 1
      OBVIOUS
    <2>2. i \in 1 .. n + 1 /\ keys = InsertAt(node.keys, i, key)
      BY <1>1, <1>2, <2>1 DEF WithKey
    <2> HIDE DEF keys
    <2>3. keys \in Seq(Nat) /\ Inserted(keys, node.keys, i, key)
      BY <1>1, <2>2, InsertedAt
    <2> QED
      BY <2>3 DEF Inserted
  <1> HIDE DEF keys
  <1>5. moved \in [ChildSlots -> P]
    <2>1. ASSUME NEW c \in ChildSlots
          PROVE  (IF c \in m + 2 .. n + 1 THEN node.child[c - 1]
                  ELSE IF c = m + 1 THEN new ELSE node.child[c]) \in P
      <3>1. c \in m + 2 .. n + 1 => c - 1 \in ChildSlots
        BY <1>1, <1>2, NodeAssumption DEF ChildSlots
      <3> QED
        BY <1>1, <3>1
    <2> QED
      BY <2>1 DEF Shifted
  <1> HIDE DEF moved
  <1>6. CASE m = n
    <2>1. t = Internal(keys, node.child, new)
      BY <1>3, <1>6
    <2>2. t \in InnerNodes(P) /\ Parts(t, keys, node.child, new)
      BY <1>1, <1>4, <2>1, InternalParts
    <2> QED
      BY <1>2, <1>4, <1>6, <2>2 DEF Parts, NodeWith, keys
  <1>7. CASE m # n
    <2>1. t = Internal(keys, moved, node.right)
      BY <1>3, <1>7
    <2>2. t \in InnerNodes(P) /\ Parts(t, keys, moved, node.right)
      BY <1>1, <1>4, <1>5, <2>1, InternalParts
    <2> QED
      BY <1>2, <1>4, <1>7, <2>2 DEF Parts, NodeWith, keys, moved
  <1> QED
    BY <1>6, <1>7

\* In a node whose keys are in order.
Grown(t, node, key, new, m) ==
    /\ Ordered(t.keys)
    /\ Len(t.keys) = Len(node.keys) + 1
    /\ m \in 0 .. Len(node.keys)
    /\ \A i \in 1 .. Len(t.keys) :
          t.keys[i] = key \/ \E j \in 1 .. Len(node.keys) : t.keys[i] = node.keys[j]
    /\ Strict(node.keys) /\ (\A i \in 1 .. Len(node.keys) : node.keys[i] # key)
          => Strict(t.keys)
    /\ \A k \in Nat : Separators(t, k) = IF key <= k THEN Separators(node, k) + 1
                                         ELSE Separators(node, k)
    /\ ~LosesChild(node, key) =>
          /\ \A j \in 0 .. m : ChildAt(t, j) = ChildAt(node, j)
          /\ ChildAt(t, m + 1) = new
          /\ \A j \in m + 2 .. Len(node.keys) + 1 :
                ChildAt(t, j) = ChildAt(node, j - 1)

LEMMA InternalInsert ==
    ASSUME NEW P, NEW node \in InnerNodes(P), Ordered(node.keys),
           Len(node.keys) <= INTERNAL_NODE_MAX_KEYS,
           NEW key \in Nat, NEW new \in P,
           NEW m, m = Separators(node, key),
           NEW t, t = internal_insert(node, key, new)
    PROVE  t \in InnerNodes(P) /\ Grown(t, node, key, new, m)
  <1> DEFINE n == Len(node.keys)
             keys == WithKey(node.keys, key, m)
             moved == Shifted(node, new, m)
  <1>1. /\ node.keys \in Seq(Nat) /\ n \in Nat
        /\ \A i \in 1 .. n : node.keys[i] \in Nat
        /\ node.child \in [ChildSlots -> P] /\ node.right \in P
    BY InnerParts
  <1>2. Behind(node.keys, key, m)
    BY <1>1, SeparatorsBehind
  <1>3. m \in 0 .. n
    BY <1>2 DEF Behind
  <1> HIDE DEF keys
  <1>5. /\ keys \in Seq(Nat) /\ Len(keys) = n + 1
        /\ \A j \in 1 .. m : keys[j] = node.keys[j]
        /\ keys[m + 1] = key
        /\ \A j \in m + 2 .. n + 1 : keys[j] = node.keys[j - 1]
        /\ Ordered(keys)
        /\ Strict(node.keys) /\ (\A i \in 1 .. n : node.keys[i] # key) => Strict(keys)
    <2>1. keys \in Seq(Nat) /\ KeyPutAt(keys, node.keys, key, m)
      BY <1>1, <1>2, KeyInserted DEF keys
    <2> QED
      BY <2>1 DEF KeyPutAt
  <1>6. moved = [c \in ChildSlots |->
                    IF c \in m + 2 .. n + 1 THEN node.child[c - 1]
                    ELSE IF c = m + 1 THEN new
                    ELSE node.child[c]]
    BY DEF Shifted
  <1> HIDE DEF moved
  <1>7. /\ t \in InnerNodes(P) /\ t.keys = keys
        /\ m = n => t.child = node.child /\ t.right = new
        /\ m # n => t.child = moved /\ t.right = node.right
    <2>1. t \in InnerNodes(P) /\ NodeWith(t, node, key, new, m)
      BY InsertedNode
    <2> QED
      BY <2>1 DEF NodeWith, keys, moved
  <1>8. \A i \in 1 .. n + 1 : keys[i] = key \/ \E j \in 1 .. n : keys[i] = node.keys[j]
    <2> TAKE i \in 1 .. n + 1
    <2>1. CASE i <= m
      <3>1. i \in 1 .. m /\ i \in 1 .. n
        BY <1>3, <2>1
      <3> QED
        BY <1>5, <3>1
    <2>2. CASE i = m + 1
      BY <1>5, <2>2
    <2>3. CASE i > m + 1
      <3>1. i \in m + 2 .. n + 1 /\ i - 1 \in 1 .. n
        BY <1>1, <1>3, <2>3
      <3> QED
        BY <1>5, <3>1
    <2> QED
      BY <1>1, <1>3, <2>1, <2>2, <2>3
  <1>9. ASSUME NEW k \in Nat
        PROVE  Separators(t, k) = IF key <= k THEN Separators(node, k) + 1
                                  ELSE Separators(node, k)
    <2>1. PICK s : s = Separators(node, k)
      OBVIOUS
    <2>2. Behind(node.keys, k, s)
      BY <1>1, <2>1, SeparatorsBehind
    <2>3. PICK u : u = IF key <= k THEN s + 1 ELSE s
      OBVIOUS
    <2>4. Behind(t.keys, k, u)
      BY <1>1, <1>2, <1>7, <2>2, <2>3, BehindInserted DEF keys
    <2>5. Separators(t, k) = u
      BY <1>5, <1>7, <2>4, SeparatorsUnique
    <2> QED
      BY <2>1, <2>3, <2>5
  <1>10. ASSUME ~LosesChild(node, key)
         PROVE  /\ \A j \in 0 .. m : ChildAt(t, j) = ChildAt(node, j)
                /\ ChildAt(t, m + 1) = new
                /\ \A j \in m + 2 .. n + 1 : ChildAt(t, j) = ChildAt(node, j - 1)
    <2>1. CASE m = n
      <3>1. t.child = node.child /\ t.right = new
        BY <1>7, <2>1
      <3>2. node.child[n] = node.right
        BY <1>10, <2>1 DEF LosesChild
      <3>3. ASSUME NEW j \in 0 .. m PROVE ChildAt(t, j) = ChildAt(node, j)
        <4>1. j # n + 1 /\ (j = n => node.child[j] = node.right)
          BY <1>1, <2>1, <3>2
        <4>2. ChildAt(t, j) = node.child[j]
          BY <1>5, <1>7, <3>1, <4>1 DEF ChildAt
        <4> QED
          BY <4>1, <4>2 DEF ChildAt
      <3>4. ChildAt(t, m + 1) = new
        BY <1>5, <1>7, <2>1, <3>1 DEF ChildAt
      <3>5. \A j \in m + 2 .. n + 1 : FALSE
        BY <1>1, <2>1
      <3> QED
        BY <3>3, <3>4, <3>5
    <2>2. CASE m # n
      <3>1. t.child = moved /\ t.right = node.right
        BY <1>7, <2>2
      <3>2. \A j \in 0 .. n + 1 : j \in ChildSlots
        BY <1>1, NodeAssumption DEF ChildSlots
      <3>3. \A j \in 0 .. m : ChildAt(t, j) = ChildAt(node, j)
        <4> TAKE j \in 0 .. m
        <4>1. /\ j \in 0 .. n + 1 /\ j # n + 1 /\ j # n /\ j # m + 1
              /\ ~(j \in m + 2 .. n + 1)
          BY <1>1, <1>3, <2>2
        <4>2. moved[j] = node.child[j]
          BY <1>6, <3>2, <4>1
        <4> QED
          BY <1>5, <1>7, <3>1, <4>1, <4>2 DEF ChildAt
      <3>4. ChildAt(t, m + 1) = new
        <4>1. m + 1 \in 0 .. n + 1 /\ m + 1 # n + 1 /\ ~(m + 1 \in m + 2 .. n + 1)
          BY <1>1, <1>3, <2>2
        <4>2. moved[m + 1] = new
          BY <1>6, <3>2, <4>1
        <4> QED
          BY <1>5, <1>7, <3>1, <4>1, <4>2 DEF ChildAt
      <3>5. \A j \in m + 2 .. n + 1 : ChildAt(t, j) = ChildAt(node, j - 1)
        <4> TAKE j \in m + 2 .. n + 1
        <4>1. j \in 0 .. n + 1
          BY <1>1, <1>3
        <4>2. CASE j = n + 1
          <5>1. j - 1 = n
            BY <1>1, <4>2
          <5> QED
            BY <1>5, <1>7, <3>1, <4>2, <5>1 DEF ChildAt
        <4>3. CASE j # n + 1
          <5>0. j \in Int
            OBVIOUS
          <5>1. j - 1 # n
            BY <1>1, <4>3, <5>0
          <5>2. moved[j] = node.child[j - 1]
            BY <1>6, <3>2, <4>1
          <5> QED
            BY <1>5, <1>7, <3>1, <4>3, <5>1, <5>2 DEF ChildAt
        <4> QED
          BY <4>2, <4>3
      <3> QED
        BY <3>3, <3>4, <3>5
    <2> QED
      BY <2>1, <2>2
  <1> QED
    BY <1>3, <1>5, <1>7, <1>8, <1>9, <1>10 DEF Grown

\* left and right are the halves of node around its key mid + 1.
HalfNodes(left, right, node, mid) ==
    /\ mid \in 1 .. Len(node.keys) - 1
    /\ Len(left.keys) = mid
    /\ Len(right.keys) = Len(node.keys) - mid - 1
    /\ \A i \in 1 .. mid : left.keys[i] = node.keys[i]
    /\ \A i \in 1 .. Len(node.keys) - mid - 1 : right.keys[i] = node.keys[mid + 1 + i]
    /\ \A i \in 0 .. mid : ChildAt(left, i) = ChildAt(node, i)
    /\ \A i \in 0 .. Len(node.keys) - mid - 1 :
          ChildAt(right, i) = ChildAt(node, mid + 1 + i)

LeftHalf(node, mid) ==
    Internal(SubSeq(node.keys, 1, mid), node.child, node.child[mid])

RightHalf(node, mid, n) ==
    Internal(SubSeq(node.keys, mid + 2, n),
             [c \in ChildSlots |-> IF c < n - mid - 1
                                   THEN node.child[mid + 1 + c] ELSE 0],
             node.right)

LEMMA SplitNode ==
    ASSUME NEW P, 0 \in P, NEW node \in InnerNodes(P),
           Len(node.keys) <= INTERNAL_NODE_MAX_KEYS + 1,
           NEW mid \in Nat, mid >= 1, mid < Len(node.keys),
           NEW left, left = LeftHalf(node, mid),
           NEW right, right = RightHalf(node, mid, Len(node.keys))
    PROVE  /\ left \in InnerNodes(P) /\ right \in InnerNodes(P)
           /\ HalfNodes(left, right, node, mid)
           /\ node.keys[mid + 1] \in Nat
  <1> DEFINE n == Len(node.keys)
             lkeys == SubSeq(node.keys, 1, mid)
             rkeys == SubSeq(node.keys, mid + 2, n)
             rchild == [c \in ChildSlots |-> IF c < n - mid - 1
                                             THEN node.child[mid + 1 + c] ELSE 0]
  <1>1. /\ node.keys \in Seq(Nat) /\ n \in Nat
        /\ \A i \in 1 .. n : node.keys[i] \in Nat
        /\ node.child \in [ChildSlots -> P] /\ node.right \in P
    BY InnerParts
  <1>2. mid \in 1 .. n - 1 /\ mid \in Nat
    BY <1>1
  <1>3. \A c \in 0 .. n : c \in ChildSlots
    BY <1>1, NodeAssumption DEF ChildSlots
  <1>4. /\ lkeys \in Seq(Nat) /\ Len(lkeys) = mid
        /\ \A i \in 1 .. mid : lkeys[i] = node.keys[i]
    <2>1. PICK b : b = mid
      OBVIOUS
    <2>2. b \in 0 .. Len(node.keys) /\ 1 \in Nat /\ 1 <= b + 1 /\ lkeys = SubSeq(node.keys, 1, b)
      BY <1>1, <1>2, <2>1
    <2> HIDE DEF lkeys
    <2>3. /\ lkeys \in Seq(Nat) /\ Len(lkeys) = b + 1 - 1
          /\ \A j \in 1 .. b + 1 - 1 : lkeys[j] = node.keys[1 + j - 1]
      BY <1>1, <2>2, PartOf
    <2>4. \A j \in 1 .. mid : j \in 1 .. b + 1 - 1 /\ 1 + j - 1 = j
      BY <1>2, <2>1
    <2> QED
      BY <1>2, <2>1, <2>3, <2>4
  <1>5. /\ rkeys \in Seq(Nat) /\ Len(rkeys) = n - mid - 1
        /\ \A i \in 1 .. n - mid - 1 : rkeys[i] = node.keys[mid + 1 + i]
    <2>1. PICK a, b : a = mid + 2 /\ b = n
      OBVIOUS
    <2>2. /\ a \in Nat /\ b \in 0 .. Len(node.keys) /\ a >= 1 /\ a <= b + 1
          /\ rkeys = SubSeq(node.keys, a, b)
      BY <1>1, <1>2, <2>1
    <2> HIDE DEF rkeys
    <2>3. /\ rkeys \in Seq(Nat) /\ Len(rkeys) = b + 1 - a
          /\ \A j \in 1 .. b + 1 - a : rkeys[j] = node.keys[a + j - 1]
      BY <1>1, <2>2, PartOf
    <2>4. \A j \in 1 .. n - mid - 1 : j \in 1 .. b + 1 - a /\ a + j - 1 = mid + 1 + j
      BY <1>1, <1>2, <2>1
    <2>5. b + 1 - a = n - mid - 1
      BY <1>1, <1>2, <2>1
    <2> QED
      BY <2>3, <2>4, <2>5
  <1>6. rchild \in [ChildSlots -> P]
    <2>1. ASSUME NEW c \in ChildSlots, c < n - mid - 1 PROVE mid + 1 + c \in ChildSlots
      <3>1. c \in Nat
        BY NodeAssumption DEF ChildSlots
      <3>2. mid + 1 + c \in 0 .. n
        BY <1>1, <1>2, <2>1, <3>1, SMTT(20)
      <3> QED
        BY <1>3, <3>2
    <2> QED
      BY <1>1, <2>1
  <1>7. \A c \in 0 .. n : c < n - mid - 1 => rchild[c] = node.child[mid + 1 + c]
    BY <1>3
  <1> HIDE DEF lkeys, rkeys, rchild
  <1>8. left \in InnerNodes(P) /\ Parts(left, lkeys, node.child, node.child[mid])
    <2>1. left = Internal(lkeys, node.child, node.child[mid])
      BY DEF LeftHalf, lkeys
    <2>2. node.child[mid] \in P
      BY <1>1, <1>2, <1>3
    <2> QED
      BY <1>1, <1>4, <2>1, <2>2, InternalParts
  <1>9. right \in InnerNodes(P) /\ Parts(right, rkeys, rchild, node.right)
    <2>1. right = Internal(rkeys, rchild, node.right)
      BY DEF RightHalf, rkeys, rchild
    <2> QED
      BY <1>1, <1>5, <1>6, <2>1, InternalParts
  <1>10. ASSUME NEW i \in 0 .. mid PROVE ChildAt(left, i) = ChildAt(node, i)
    <2>1. i # n
      BY <1>1, <1>2
    <2> QED
      BY <1>4, <1>8, <2>1 DEF ChildAt, Parts
  <1>11. ASSUME NEW i \in 0 .. n - mid - 1
         PROVE  ChildAt(right, i) = ChildAt(node, mid + 1 + i)
    <2>1. CASE i = n - mid - 1
      <3>0. n \in Int /\ mid \in Int /\ i \in Int
        BY <1>1, <1>2
      <3>1. mid + 1 + i = n
        <4>1. \A a, b, c \in Int : c = a - b - 1 => b + 1 + c = a
          OBVIOUS
        <4> HIDE DEF n
        <4> QED
          BY <2>1, <3>0, <4>1
      <3> QED
        BY <1>5, <1>9, <2>1, <3>1 DEF ChildAt, Parts
    <2>2. CASE i # n - mid - 1
      <3>1. mid + 1 + i # n /\ i < n - mid - 1 /\ i \in 0 .. n
        BY <1>1, <1>2, <2>2
      <3>2. rchild[i] = node.child[mid + 1 + i]
        BY <1>7, <3>1
      <3> QED
        BY <1>5, <1>9, <2>2, <3>1, <3>2 DEF ChildAt, Parts
    <2> QED
      BY <2>1, <2>2
  <1>12. /\ left.keys = lkeys /\ right.keys = rkeys
    BY <1>8, <1>9 DEF Parts
  <1>13. HalfNodes(left, right, node, mid)
    BY <1>2, <1>4, <1>5, <1>10, <1>11, <1>12 DEF HalfNodes
  <1>14. node.keys[mid + 1] \in Nat
    BY <1>1, <1>2
  <1> QED
    BY <1>8, <1>9, <1>13, <1>14

\* What the halves are of a node whose keys are in order, s the key between them.
Divided(left, right, node, mid, s) ==
    /\ Ordered(left.keys) /\ Ordered(right.keys)
    /\ Strict(node.keys) =>
          /\ Strict(left.keys) /\ Strict(right.keys)
          /\ \A i \in 1 .. mid : node.keys[i] < s
          /\ \A i \in mid + 1 .. Len(node.keys) : s <= node.keys[i]
    /\ \A k \in Nat :
          /\ k < s => Separators(left, k) = Separators(node, k)
          /\ k < s <=> Separators(node, k) \in 0 .. mid
          /\ s <= k => /\ Separators(node, k) = mid + 1 + Separators(right, k)
                       /\ Separators(right, k) \in 0 .. Len(node.keys) - mid - 1

LEMMA SplitOrder ==
    ASSUME NEW P, NEW node \in InnerNodes(P), Ordered(node.keys),
           NEW left \in InnerNodes(P), NEW right \in InnerNodes(P),
           NEW mid, HalfNodes(left, right, node, mid),
           NEW s, s = node.keys[mid + 1]
    PROVE  Divided(left, right, node, mid, s)
  <1> DEFINE n == Len(node.keys)
  <1>1. /\ node.keys \in Seq(Nat) /\ n \in Nat /\ \A i \in 1 .. n : node.keys[i] \in Nat
        /\ left.keys \in Seq(Nat) /\ right.keys \in Seq(Nat)
    BY InnerParts
  <1>2. /\ mid \in 1 .. n - 1 /\ Len(left.keys) = mid
        /\ Len(right.keys) = n - mid - 1
        /\ \A i \in 1 .. mid : left.keys[i] = node.keys[i]
        /\ \A i \in 1 .. n - mid - 1 : right.keys[i] = node.keys[mid + 1 + i]
    BY DEF HalfNodes
  <1>3. s \in Nat
    BY <1>1, <1>2
  <1>4. /\ \A i \in 1 .. mid : i \in 1 .. n
        /\ \A i \in 1 .. n - mid - 1 : mid + 1 + i \in mid + 1 .. n
        /\ \A i \in mid + 1 .. n : i \in 1 .. n
    BY <1>1, <1>2, SMTT(20)
  <1>5. Ordered(left.keys) /\ (Strict(node.keys) => Strict(left.keys))
    BY <1>2, <1>4 DEF Ordered, Strict
  <1>6. ASSUME NEW i \in 1 .. n - mid - 1, NEW j \in 1 .. n - mid - 1, i < j
        PROVE  /\ right.keys[i] <= right.keys[j]
               /\ Strict(node.keys) => right.keys[i] < right.keys[j]
    <2>1. PICK a, b : a = mid + 1 + i /\ b = mid + 1 + j
      OBVIOUS
    <2>2. a \in 1 .. n /\ b \in 1 .. n /\ a < b
      BY <1>1, <1>2, <1>6, <2>1
    <2>3. right.keys[i] = node.keys[a] /\ right.keys[j] = node.keys[b]
      BY <1>2, <2>1
    <2> QED
      BY <2>2, <2>3 DEF Ordered, Strict
  <1>7. Ordered(right.keys) /\ (Strict(node.keys) => Strict(right.keys))
    BY <1>2, <1>6 DEF Ordered, Strict
  <1>8. ASSUME NEW i \in 1 .. n
        PROVE  /\ i <= mid => node.keys[i] <= s
               /\ i >= mid + 1 => s <= node.keys[i]
               /\ i <= mid /\ Strict(node.keys) => node.keys[i] < s
    <2>1. PICK c : c = mid + 1
      OBVIOUS
    <2>2. c \in 1 .. n /\ s = node.keys[c]
      BY <1>1, <1>2, <2>1, SMTT(20)
    <2>3. i <= mid => i < c
      BY <1>2, <2>1
    <2>4. i >= mid + 1 => i = c \/ c < i
      BY <1>2, <2>1
    <2> QED
      BY <1>1, <1>3, <2>2, <2>3, <2>4 DEF Ordered, Strict
  <1>9. ASSUME NEW k \in Nat
        PROVE  /\ k < s => Separators(left, k) = Separators(node, k)
               /\ k < s <=> Separators(node, k) \in 0 .. mid
               /\ s <= k => /\ Separators(node, k) = mid + 1 + Separators(right, k)
                            /\ Separators(right, k) \in 0 .. n - mid - 1
    <2>1. PICK q : q = Separators(node, k)
      OBVIOUS
    <2>2. Behind(node.keys, k, q)
      BY <1>1, <2>1, SeparatorsBehind
    <2>3. /\ q \in 0 .. n
          /\ \A i \in 1 .. n : i <= q => node.keys[i] <= k
          /\ \A i \in 1 .. n : i > q => k < node.keys[i]
      BY <1>1, <2>2 DEF Behind
    <2>4. mid + 1 \in 1 .. n /\ s = node.keys[mid + 1]
      BY <1>1, <1>2
    <2>5. CASE k < s
      <3>1. q \in 0 .. mid
        <4>1. ~(mid + 1 <= q)
          BY <1>3, <2>3, <2>4, <2>5
        <4> QED
          BY <1>2, <2>3, <4>1
      <3>2. Behind(left.keys, k, q)
        <4>1. \A i \in q + 1 .. mid : i \in 1 .. n /\ i > q
          BY <1>2, <1>4, <3>1
        <4>2. \A i \in 1 .. q : i \in 1 .. mid /\ i \in 1 .. n /\ i <= q
          BY <1>2, <1>4, <3>1
        <4>3. \A i \in 1 .. q : left.keys[i] <= k
          BY <1>2, <2>3, <4>2
        <4>4. \A i \in q + 1 .. mid : k < left.keys[i]
          <5> TAKE i \in q + 1 .. mid
          <5>1. i \in 1 .. mid /\ i \in 1 .. n /\ i > q
            BY <1>2, <3>1, <4>1
          <5> QED
            BY <1>2, <2>3, <5>1
        <4>5. q \in 0 .. Len(left.keys) /\ Len(left.keys) = mid
          BY <1>2, <3>1
        <4> QED
          BY <4>3, <4>4, <4>5 DEF Behind
      <3>3. Separators(left, k) = q
        BY <1>1, <3>2, SeparatorsUnique
      <3>4. ~(s <= k)
        BY <1>3, <2>5
      <3> QED
        BY <2>1, <2>5, <3>1, <3>3, <3>4
    <2>6. CASE s <= k
      <3>1. q >= mid + 1
        <4>1. ~(mid + 1 > q)
          BY <1>3, <2>3, <2>4, <2>6
        <4> QED
          BY <1>2, <2>3, <4>1
      <3>2. PICK r : r = q - mid - 1
        OBVIOUS
      <3>3. r \in 0 .. n - mid - 1 /\ q = mid + 1 + r
        BY <1>1, <1>2, <2>3, <3>1, <3>2
      <3>4. ASSUME NEW i \in 1 .. n - mid - 1
            PROVE  /\ i <= r => right.keys[i] <= k
                   /\ i > r => k < right.keys[i]
        <4>1. PICK a : a = mid + 1 + i
          OBVIOUS
        <4>2. a \in 1 .. n /\ right.keys[i] = node.keys[a]
          BY <1>1, <1>2, <4>1
        <4>3. (i <= r => a <= q) /\ (i > r => a > q)
          BY <1>2, <3>3, <4>1
        <4> QED
          BY <2>3, <4>2, <4>3
      <3>5. Behind(right.keys, k, r)
        <4>1. /\ \A i \in r + 1 .. n - mid - 1 : i \in 1 .. n - mid - 1 /\ i > r
              /\ \A i \in 1 .. r : i \in 1 .. n - mid - 1 /\ i <= r
          BY <1>1, <1>2, <3>3, SMTT(20)
        <4> QED
          BY <1>2, <3>3, <3>4, <4>1 DEF Behind
      <3>6. Separators(right, k) = r
        BY <1>1, <3>5, SeparatorsUnique
      <3>7. ~(k < s) /\ ~(q \in 0 .. mid)
        BY <1>2, <1>3, <2>6, <3>1
      <3> QED
        BY <2>1, <2>6, <3>3, <3>6, <3>7
    <2> QED
      BY <1>3, <2>5, <2>6
  <1>10. Strict(node.keys) =>
            /\ \A i \in 1 .. mid : node.keys[i] < s
            /\ \A i \in mid + 1 .. n : s <= node.keys[i]
    BY <1>2, <1>4, <1>8
  <1> QED
    BY <1>5, <1>7, <1>9, <1>10 DEF Divided

-----------------------------------------------------------------------------
(* Walks *)

IsWalk(w, first, next, n) ==
    /\ w = [d \in 1 .. n |-> w[d]]
    /\ n >= 1 => w[1] = first
    /\ \A d \in 1 .. n : d # 1 => w[d] = next[w[d - 1]]

LEMMA WalkExists ==
    ASSUME NEW n \in Nat, NEW first, NEW next
    PROVE  \E w : IsWalk(w, first, next, n)
  <1> DEFINE S == {k \in Nat : \E w : IsWalk(w, first, next, k)}
  <1>1. 0 \in S
    <2>1. IsWalk([d \in 1 .. 0 |-> first], first, next, 0)
      BY DEF IsWalk
    <2> QED
      BY <2>1
  <1>2. ASSUME NEW k \in Nat, k \in S PROVE k + 1 \in S
    <2>1. PICK w : IsWalk(w, first, next, k)
      BY <1>2
    <2>2. PICK new : new = IF k = 0 THEN first ELSE next[w[k]]
      OBVIOUS
    <2> DEFINE h == [d \in 1 .. k + 1 |-> IF d = k + 1 THEN new ELSE w[d]]
    <2>3. h = [d \in 1 .. k + 1 |-> h[d]]
      OBVIOUS
    <2>4. h[1] = first
      BY <2>1, <2>2 DEF IsWalk
    <2>5. ASSUME NEW d \in 1 .. k + 1, d # 1 PROVE h[d] = next[h[d - 1]]
      <3>1. CASE d = k + 1
        <4>1. h[d] = new /\ h[d - 1] = w[k] /\ k # 0
          BY <2>5, <3>1
        <4> QED
          BY <2>2, <4>1
      <3>2. CASE d # k + 1
        <4>1. d \in 1 .. k /\ h[d] = w[d] /\ h[d - 1] = w[d - 1]
          BY <2>5, <3>2
        <4> QED
          BY <2>1, <2>5, <4>1 DEF IsWalk
      <3> QED
        BY <3>1, <3>2
    <2> HIDE DEF h
    <2>6. IsWalk(h, first, next, k + 1)
      BY <2>3, <2>4, <2>5 DEF IsWalk
    <2> QED
      BY <2>6
  <1> HIDE DEF S
  <1>3. n \in S
    BY <1>1, <1>2, Induction
  <1> QED
    BY <1>3 DEF S

LEMMA WalkIs ==
    ASSUME NEW pg, Cardinality(DOMAIN pg) \in Nat, NEW first, NEW next
    PROVE  IsWalk(Walk(pg, first, next), first, next, Cardinality(DOMAIN pg))
  <1> DEFINE n == Cardinality(DOMAIN pg)
             Body(f) == [d \in 1 .. n |-> IF d = 1 THEN first ELSE next[f[d - 1]]]
             at == CHOOSE f : f = Body(f)
  <1>1. PICK w : IsWalk(w, first, next, n)
    BY WalkExists
  <1>2. w = Body(w)
    <2>1. /\ w = [d \in 1 .. n |-> w[d]]
          /\ \A d \in 1 .. n : w[d] = IF d = 1 THEN first ELSE next[w[d - 1]]
      BY <1>1, SMTT(20) DEF IsWalk
    <2> HIDE DEF n
    <2> QED
      BY <2>1
  <1>3. at = Body(at)
    <2> HIDE DEF Body
    <2> QED
      BY <1>2
  <1>4. Walk(pg, first, next) = [d \in 1 .. n |-> at[d]]
    BY DEF Walk
  <1> HIDE DEF at
  <1>5. at = [d \in 1 .. n |-> at[d]]
    BY <1>3
  <1>6. IsWalk(at, first, next, n)
    BY <1>3, <1>5, SMTT(20) DEF IsWalk
  <1> QED
    BY <1>4, <1>5, <1>6

-----------------------------------------------------------------------------
(* The shape of the tree.                                                  *)
(*                                                                         *)
(* A page map pg of N pages, of which the first num are in use.  level is  *)
(* how far a node lies above the leaves: a child slot leads one level      *)
(* down, or it was never written and holds 0.                              *)

Pages(N) == 0 .. N - 1
NodeAt(pg, p) == IsLeaf(pg[p]) \/ IsInternal(pg[p])

LeafNodes(V) == [type : {"leaf"}, cells : Seq(Cell(V)), next : Nat]

Kids(pg, N, level, l) ==
    {0} \cup {c \in Pages(N) : NodeAt(pg, c) /\ level[c] + 1 = l}

GoodLeaf(node, V, l) ==
    node \in LeafNodes(V) /\ Len(node.cells) <= LEAF_NODE_MAX_CELLS /\ l = 0

GoodInner(node, kids, l) ==
    node \in InnerNodes(kids) /\ Len(node.keys) <= INTERNAL_NODE_MAX_KEYS /\ l # 0

Shape(pg, N, V, num, level) ==
    /\ N \in Nat /\ num \in 2 .. N
    /\ pg = [p \in Pages(N) |-> pg[p]]
    /\ level \in [Pages(N) -> Nat]
    /\ ~NodeAt(pg, 0)
    /\ \A p \in Pages(N) :
          /\ NodeAt(pg, p) => p < num /\ level[p] + 2 <= num
          /\ IsLeaf(pg[p]) => GoodLeaf(pg[p], V, level[p])
          /\ IsInternal(pg[p]) => GoodInner(pg[p], Kids(pg, N, level, level[p]), level[p])

\* path leads from root down to the first page that is no internal node.
IsPath(path, pg, N, level, root, key) ==
    /\ path \in Seq(Pages(N)) /\ Len(path) \in Nat \ {0}
    /\ path[1] = root
    /\ \A d \in 1 .. Len(path) :
          /\ IsInternal(pg[path[d]]) <=> d # Len(path)
          /\ d # Len(path) => /\ level[path[d]] + d = level[root] + 1
                              /\ path[d + 1] = internal_find_child(pg[path[d]], key)
    /\ \/ path[Len(path)] = 0
       \/ IsLeaf(pg[path[Len(path)]]) /\ Len(path) = level[root] + 1

LEMMA FindChild ==
    ASSUME NEW P, NEW node \in InnerNodes(P),
           Len(node.keys) <= INTERNAL_NODE_MAX_KEYS, NEW key
    PROVE  /\ internal_find_child(node, key) \in P
           /\ internal_find_child(node, key) = ChildAt(node, Separators(node, key))
           /\ Separators(node, key) \in 0 .. Len(node.keys)
  <1> DEFINE n == Len(node.keys)
             m == Separators(node, key)
             S == {i \in DOMAIN node.keys : node.keys[i] <= key}
  <1>1. /\ n \in Nat /\ DOMAIN node.keys = 1 .. n
        /\ node.child \in [ChildSlots -> P] /\ node.right \in P
    BY InnerParts
  <1>2. S \subseteq 1 .. n
    BY <1>1
  <1>3. m = Cardinality(S)
    BY DEF Separators
  <1> HIDE DEF S
  <1>4. m \in 0 .. n
    BY <1>1, <1>2, <1>3, CountBound
  <1>5. internal_find_child(node, key) = IF m = n THEN node.right ELSE node.child[m]
    BY DEF internal_find_child
  <1> HIDE DEF m
  <1>6. m \in ChildSlots
    BY <1>1, <1>4, NodeAssumption DEF ChildSlots
  <1> QED
    BY <1>1, <1>4, <1>5, <1>6 DEF ChildAt, m

\* What goes on below p in a descent for key.
StepFrom(pg, key) ==
    [p \in DOMAIN pg |-> IF IsInternal(pg[p])
                         THEN internal_find_child(pg[p], key) ELSE p]

LEMMA PathShape ==
    ASSUME NEW pg, NEW N, NEW V, NEW num, NEW level, Shape(pg, N, V, num, level),
           NEW root \in Pages(N), NodeAt(pg, root), NEW key,
           NEW path, path = Path(pg, root, key)
    PROVE  IsPath(path, pg, N, level, root, key)
  <1> DEFINE next == StepFrom(pg, key)
  <1>1. /\ N \in Nat /\ num \in 2 .. N /\ DOMAIN pg = Pages(N)
        /\ level \in [Pages(N) -> Nat] /\ 0 \in Pages(N) /\ ~NodeAt(pg, 0)
    BY DEF Shape, Pages
  <1>2. Cardinality(DOMAIN pg) = N
    BY <1>1, FS_Interval DEF Pages
  <1>3. PICK w : w = Walk(pg, root, next)
    OBVIOUS
  <1>4. IsWalk(w, root, next, N)
    BY <1>1, <1>2, <1>3, WalkIs
  <1>5. ASSUME NEW p \in Pages(N), IsInternal(pg[p])
        PROVE  /\ next[p] = internal_find_child(pg[p], key)
               /\ next[p] \in Kids(pg, N, level, level[p])
               /\ level[p] # 0 /\ level[p] + 2 <= num
    <2>1. /\ pg[p] \in InnerNodes(Kids(pg, N, level, level[p]))
          /\ Len(pg[p].keys) <= INTERNAL_NODE_MAX_KEYS /\ level[p] # 0
          /\ level[p] + 2 <= num
      BY <1>5 DEF Shape, GoodInner, NodeAt
    <2>2. next[p] = internal_find_child(pg[p], key)
      BY <1>1, <1>5 DEF StepFrom
    <2>3. internal_find_child(pg[p], key) \in Kids(pg, N, level, level[p])
      BY <2>1, FindChild
    <2> QED
      BY <2>1, <2>2, <2>3
  <1>6. ASSUME NEW p \in Pages(N), ~IsInternal(pg[p]) PROVE next[p] = p
    BY <1>1, <1>6 DEF StepFrom
  <1> HIDE DEF next
  <1> DEFINE Fits(p, d) == /\ p \in Pages(N) /\ (p = 0 \/ NodeAt(pg, p))
                           /\ IsInternal(pg[p]) => level[p] + d = level[root] + 1
             Good == {d \in Nat : d + 1 <= N => Fits(w[d + 1], d + 1)}
  <1>7. 0 \in Good
    BY <1>1, <1>4 DEF IsWalk
  <1>8. ASSUME NEW d \in Nat, d \in Good PROVE d + 1 \in Good
    <2> SUFFICES ASSUME d + 2 <= N PROVE Fits(w[d + 2], d + 2)
      OBVIOUS
    <2>1. PICK p : p = w[d + 1]
      OBVIOUS
    <2>2. Fits(p, d + 1)
      BY <1>1, <1>8, <2>1
    <2>3. w[d + 2] = next[p]
      <3>1. d + 2 \in 1 .. N /\ d + 2 # 1 /\ (d + 2) - 1 = d + 1
        BY <1>1
      <3> QED
        BY <1>4, <2>1, <3>1 DEF IsWalk
    <2>4. CASE IsInternal(pg[p])
      <3>1. next[p] \in Kids(pg, N, level, level[p])
        BY <1>5, <2>2, <2>4
      <3>2. PICK c : c = next[p]
        OBVIOUS
      <3>3. CASE c = 0
        <4>1. ~IsInternal(pg[c])
          BY <1>1, <3>3 DEF NodeAt
        <4> QED
          BY <1>1, <2>3, <3>2, <3>3, <4>1
      <3>4. CASE c # 0
        <4>1. c \in Pages(N) /\ NodeAt(pg, c) /\ level[c] + 1 = level[p]
          BY <3>1, <3>2, <3>4 DEF Kids
        <4>2. level[c] \in Nat /\ level[p] \in Nat /\ level[root] \in Nat
          BY <1>1, <2>2, <4>1
        <4>3. level[c] + (d + 2) = level[root] + 1
          BY <2>2, <2>4, <4>1, <4>2
        <4> QED
          BY <2>3, <3>2, <4>1, <4>3
      <3> QED
        BY <3>3, <3>4
    <2>5. CASE ~IsInternal(pg[p])
      BY <1>6, <2>2, <2>3, <2>5
    <2> QED
      BY <2>4, <2>5
  <1> HIDE DEF Good
  <1>9. ASSUME NEW d \in 1 .. N PROVE Fits(w[d], d)
    <2>1. d - 1 \in Nat /\ (d - 1) + 1 = d
      BY <1>1
    <2>2. d - 1 \in Good
      BY <1>7, <1>8, <2>1, Induction
    <2> QED
      BY <1>1, <2>1, <2>2 DEF Good
  <1> HIDE DEF Fits
  <1> DEFINE S == {d \in 1 .. N : IsInternal(pg[w[d]])}
  <1>10. \A j \in S : \A i \in 1 .. j : i \in S
    <2> SUFFICES ASSUME NEW j \in S, NEW i \in 1 .. j, i \notin S PROVE FALSE
      OBVIOUS
    <2> DEFINE R == {d \in S : d >= i}
    <2>1. R \subseteq Nat /\ j \in R
      BY <1>1
    <2>2. PICK r \in R : \A d \in R : r <= d
      <3> HIDE DEF R
      <3> QED
        BY <2>1, Least
    <2>3. r \in 1 .. N /\ r \in S /\ r > i /\ i \in 1 .. N
      BY <1>1, <2>2
    <2>4. PICK q : q = r - 1
      OBVIOUS
    <2>5. q \in 1 .. N /\ q >= i /\ q < r /\ r # 1
      BY <1>1, <2>3, <2>4
    <2>6. q \notin S
      BY <2>2, <2>5
    <2>7. ~IsInternal(pg[w[q]]) /\ w[q] \in Pages(N)
      BY <1>9, <2>5, <2>6 DEF Fits
    <2>8. w[r] = next[w[q]]
      BY <1>4, <2>3, <2>4, <2>5 DEF IsWalk
    <2>9. w[r] = w[q]
      BY <1>6, <2>7, <2>8
    <2> QED
      BY <2>3, <2>7, <2>9
  <1>11. S \subseteq 1 .. N
    OBVIOUS
  <1>12. S = {d \in DOMAIN w : IsInternal(pg[w[d]])}
    BY <1>4 DEF IsWalk
  <1> HIDE DEF S
  <1>13. PICK m : m = Cardinality(S)
    OBVIOUS
  <1>14. m \in 0 .. N /\ S = 1 .. m
    BY <1>1, <1>10, <1>11, <1>13, Prefix
  <1>15. \A d \in 1 .. N : IsInternal(pg[w[d]]) <=> d <= m
    <2>1. \A d \in 1 .. N : d \in S <=> IsInternal(pg[w[d]])
      BY <1>4, <1>12 DEF IsWalk
    <2> QED
      BY <1>14, <2>1
  <1>16. m + 2 <= N
    <2>1. CASE m = 0
      BY <1>1, <2>1
    <2>2. CASE m # 0
      <3>1. m \in 1 .. N /\ IsInternal(pg[w[m]])
        BY <1>1, <1>14, <1>15, <2>2
      <3>2. w[m] \in Pages(N) /\ level[w[m]] + m = level[root] + 1
        BY <1>9, <3>1 DEF Fits
      <3>3. level[w[m]] # 0
        BY <1>5, <3>1, <3>2
      <3>4. level[w[m]] \in Nat /\ level[root] \in Nat /\ level[root] + 2 <= num
        BY <1>1, <3>2 DEF Shape
      <3> QED
        BY <1>1, <1>14, <3>2, <3>3, <3>4
    <2> QED
      BY <2>1, <2>2
  <1>17. path = SubSeq(w, 1, 1 + m)
    <2>1. DOMAIN w = 1 .. N
      BY <1>4 DEF IsWalk
    <2>2. \A d \in S : d + 1 \in DOMAIN w
      BY <1>1, <1>14, <1>16, <2>1
    <2>3. S = {d \in DOMAIN w : d + 1 \in DOMAIN w /\ IsInternal(pg[w[d]])}
      BY <1>12, <2>2
    <2> QED
      BY <1>3, <1>13, <2>3 DEF Path, Once, StepFrom, next
  <1>18. PICK z : z = 1 + m
    OBVIOUS
  <1>19. /\ path \in Seq(Pages(N)) /\ Len(path) = z
         /\ \A d \in 1 .. z : path[d] = w[d]
    <2>1. w \in Seq(Pages(N)) /\ Len(w) = N
      <3>1. \A d \in 1 .. N : w[d] \in Pages(N)
        BY <1>9 DEF Fits
      <3>2. w \in [1 .. N -> Pages(N)]
        BY <1>4, <3>1 DEF IsWalk
      <3> QED
        BY <1>1, <3>2
    <2>2. z \in 0 .. Len(w) /\ 1 \in Nat /\ 1 <= z + 1 /\ path = SubSeq(w, 1, z)
      BY <1>14, <1>16, <1>17, <1>18, <1>1, <2>1
    <2>3. /\ path \in Seq(Pages(N)) /\ Len(path) = z + 1 - 1
          /\ \A d \in 1 .. z + 1 - 1 : path[d] = w[1 + d - 1]
      BY <2>1, <2>2, PartOf
    <2>4. z + 1 - 1 = z /\ \A d \in 1 .. z : 1 + d - 1 = d
      BY <2>1, <2>2
    <2> QED
      BY <2>3, <2>4
  <1>20. z \in 1 .. N - 1 /\ z \in Nat \ {0}
    BY <1>1, <1>14, <1>16, <1>18
  <1>21. path[1] = root
    <2>1. 1 \in 1 .. z /\ N >= 1
      BY <1>1, <1>20
    <2>2. w[1] = root
      BY <1>4, <2>1 DEF IsWalk
    <2> QED
      BY <1>19, <2>1, <2>2
  <1>22. ASSUME NEW d \in 1 .. z
         PROVE  /\ IsInternal(pg[path[d]]) <=> d # z
                /\ d # z => /\ level[path[d]] + d = level[root] + 1
                            /\ path[d + 1] = internal_find_child(pg[path[d]], key)
    <2>1. d \in 1 .. N /\ path[d] = w[d] /\ (d <= m <=> d # z)
      BY <1>1, <1>14, <1>18, <1>19, <1>20
    <2>2. IsInternal(pg[path[d]]) <=> d # z
      BY <1>15, <2>1
    <2>3. ASSUME d # z
          PROVE  /\ level[path[d]] + d = level[root] + 1
                 /\ path[d + 1] = internal_find_child(pg[path[d]], key)
      <3>1. w[d] \in Pages(N) /\ level[w[d]] + d = level[root] + 1
        BY <1>9, <2>1, <2>2, <2>3 DEF Fits
      <3>2. PICK e : e = d + 1
        OBVIOUS
      <3>3. e \in 1 .. z /\ e \in 1 .. N /\ e # 1 /\ e - 1 = d
        BY <1>1, <1>20, <2>1, <2>3, <3>2
      <3>4. w[e] = next[w[d]]
        BY <1>4, <3>3 DEF IsWalk
      <3>5. w[e] = internal_find_child(pg[w[d]], key)
        BY <1>5, <2>1, <2>2, <2>3, <3>1, <3>4
      <3> QED
        BY <1>19, <2>1, <3>1, <3>2, <3>3, <3>5
    <2> QED
      BY <2>2, <2>3
  <1>23. path[z] = 0 \/ (IsLeaf(pg[path[z]]) /\ z = level[root] + 1)
    <2> SUFFICES ASSUME path[z] # 0 PROVE IsLeaf(pg[path[z]]) /\ z = level[root] + 1
      OBVIOUS
    <2>1. z \in 1 .. N /\ path[z] = w[z] /\ ~IsInternal(pg[w[z]])
      BY <1>1, <1>19, <1>20, <1>22
    <2>2. w[z] \in Pages(N) /\ IsLeaf(pg[w[z]])
      BY <1>9, <2>1 DEF Fits, NodeAt
    <2>3. level[w[z]] = 0
      BY <2>2 DEF Shape, GoodLeaf
    <2>4. CASE m = 0
      <3>1. w[z] = root
        BY <1>18, <1>21, <2>1, <2>4
      <3> QED
        BY <1>18, <2>1, <2>2, <2>3, <2>4, <3>1
    <2>5. CASE m # 0
      <3>1. m \in 1 .. N /\ IsInternal(pg[w[m]])
        BY <1>1, <1>14, <1>15, <2>5
      <3>2. w[m] \in Pages(N) /\ level[w[m]] + m = level[root] + 1
        BY <1>9, <3>1 DEF Fits
      <3>3. w[z] = next[w[m]]
        <4>1. z # 1 /\ z - 1 = m
          BY <1>14, <1>18, <2>5
        <4> QED
          BY <1>4, <2>1, <4>1 DEF IsWalk
      <3>4. w[z] \in Kids(pg, N, level, level[w[m]])
        BY <1>5, <3>1, <3>2, <3>3
      <3>5. level[w[z]] + 1 = level[w[m]]
        BY <2>1, <3>4 DEF Kids
      <3>6. level[root] \in Nat
        BY <1>1
      <3>7. 1 + m = level[root] + 1
        BY <2>3, <3>2, <3>5
      <3> QED
        BY <1>18, <2>1, <2>2, <3>7
    <2> QED
      BY <2>4, <2>5
  <1> QED
    BY <1>19, <1>20, <1>21, <1>22, <1>23 DEF IsPath

-----------------------------------------------------------------------------
(* Writing a page *)

Put(pg, p, node) == [pg EXCEPT ![p] = node]

LEMMA PutIs ==
    ASSUME NEW pg, NEW D, pg = [p \in D |-> pg[p]], NEW x \in D, NEW node,
           NEW q, q = Put(pg, x, node)
    PROVE  /\ q = [p \in D |-> q[p]]
           /\ q[x] = node
           /\ \A p \in D : p # x => q[p] = pg[p]
  BY DEF Put

\* The cells that page p holds.
CellsAt(pg, p) == IF IsLeaf(pg[p]) THEN CellSet(pg[p].cells) ELSE {}
EntriesOf(pg, N) == UNION {CellsAt(pg, p) : p \in Pages(N)}

\* pg and q hold the same cells but for those of C, which came to page x or y.
CellsCame(pg, q, N, x, y, C) ==
    /\ \A p \in Pages(N) : p # x /\ p # y => CellsAt(q, p) = CellsAt(pg, p)
    /\ CellsAt(q, x) \cup CellsAt(q, y) = CellsAt(pg, x) \cup CellsAt(pg, y) \cup C

CellsAdded(pg, q, N, C) == EntriesOf(q, N) = EntriesOf(pg, N) \cup C

LEMMA EntriesMoved ==
    ASSUME NEW pg, NEW q, NEW N, NEW x \in Pages(N), NEW y \in Pages(N), NEW C,
           CellsCame(pg, q, N, x, y, C)
    PROVE  CellsAdded(pg, q, N, C)
  <1>0. /\ \A p \in Pages(N) : p # x /\ p # y => CellsAt(q, p) = CellsAt(pg, p)
        /\ CellsAt(q, x) \cup CellsAt(q, y) = CellsAt(pg, x) \cup CellsAt(pg, y) \cup C
    BY DEF CellsCame
  <1>1. \A e : e \in EntriesOf(q, N) <=> \E p \in Pages(N) : e \in CellsAt(q, p)
    BY DEF EntriesOf
  <1>2. \A e : e \in EntriesOf(pg, N) <=> \E p \in Pages(N) : e \in CellsAt(pg, p)
    BY DEF EntriesOf
  <1>3. ASSUME NEW e, e \in EntriesOf(q, N) PROVE e \in EntriesOf(pg, N) \cup C
    <2>1. PICK p \in Pages(N) : e \in CellsAt(q, p)
      BY <1>1, <1>3
    <2>2. CASE p # x /\ p # y
      BY <1>0, <1>2, <2>1, <2>2
    <2>3. CASE p = x \/ p = y
      <3>1. e \in CellsAt(pg, x) \cup CellsAt(pg, y) \cup C
        BY <1>0, <2>1, <2>3
      <3> QED
        BY <1>2, <3>1
    <2> QED
      BY <2>2, <2>3
  <1>4. ASSUME NEW e, e \in EntriesOf(pg, N) \cup C PROVE e \in EntriesOf(q, N)
    <2>1. CASE e \in C
      <3>1. e \in CellsAt(q, x) \cup CellsAt(q, y)
        BY <1>0, <2>1
      <3> QED
        BY <1>1, <3>1
    <2>2. CASE e \in EntriesOf(pg, N)
      <3>1. PICK p \in Pages(N) : e \in CellsAt(pg, p)
        BY <1>2, <2>2
      <3>2. CASE p # x /\ p # y
        BY <1>0, <1>1, <3>1, <3>2
      <3>3. CASE p = x \/ p = y
        <4>1. e \in CellsAt(q, x) \cup CellsAt(q, y)
          BY <1>0, <3>1, <3>3
        <4> QED
          BY <1>1, <4>1
      <3> QED
        BY <3>2, <3>3
    <2> QED
      BY <1>4, <2>1, <2>2
  <1> QED
    BY <1>3, <1>4 DEF CellsAdded

LEMMA InnerNodesGrow ==
    ASSUME NEW P, NEW Q, P \subseteq Q, NEW node \in InnerNodes(P)
    PROVE  node \in InnerNodes(Q)
  BY DEF InnerNodes

\* A node that may be written to page x.
Fits(node, pg, N, V, level, x) ==
    \/ IsLeaf(node) /\ GoodLeaf(node, V, level[x])
    \/ IsInternal(node) /\ GoodInner(node, Kids(pg, N, level, level[x]), level[x])

LEMMA ShapePut ==
    ASSUME NEW pg, NEW N, NEW V, NEW num, NEW level, Shape(pg, N, V, num, level),
           NEW x \in Pages(N), x # 0, x < num, level[x] + 2 <= num,
           NEW node, Fits(node, pg, N, V, level, x),
           NEW q, q = Put(pg, x, node)
    PROVE  /\ Shape(q, N, V, num, level)
           /\ \A l : Kids(pg, N, level, l) \subseteq Kids(q, N, level, l)
  <1>1. /\ N \in Nat /\ num \in 2 .. N /\ pg = [p \in Pages(N) |-> pg[p]]
        /\ level \in [Pages(N) -> Nat] /\ ~NodeAt(pg, 0)
        /\ 0 \in Pages(N)
    BY DEF Shape, Pages
  <1>2. /\ q = [p \in Pages(N) |-> q[p]] /\ q[x] = node
        /\ \A p \in Pages(N) : p # x => q[p] = pg[p]
    BY <1>1, PutIs
  <1>3. NodeAt(q, x)
    BY <1>2 DEF Fits, NodeAt
  <1>4. \A l : Kids(pg, N, level, l) \subseteq Kids(q, N, level, l)
    <2> TAKE l
    <2>1. \A c \in Pages(N) : NodeAt(pg, c) => NodeAt(q, c)
      BY <1>2, <1>3 DEF NodeAt
    <2> QED
      BY <2>1 DEF Kids
  <1>5. ~NodeAt(q, 0)
    BY <1>1, <1>2 DEF NodeAt
  <1>6. ASSUME NEW p \in Pages(N)
        PROVE  /\ NodeAt(q, p) => p < num /\ level[p] + 2 <= num
               /\ IsLeaf(q[p]) => GoodLeaf(q[p], V, level[p])
               /\ IsInternal(q[p]) =>
                     GoodInner(q[p], Kids(q, N, level, level[p]), level[p])
    <2>1. PICK K, L : K = Kids(pg, N, level, level[p]) /\ L = Kids(q, N, level, level[p])
      OBVIOUS
    <2>2. K \subseteq L
      BY <1>4, <2>1
    <2>3. GoodInner(q[p], K, level[p]) => GoodInner(q[p], L, level[p])
      BY <2>2, InnerNodesGrow DEF GoodInner
    <2>4. CASE p = x
      <3>1. /\ IsLeaf(node) => GoodLeaf(node, V, level[p])
            /\ IsInternal(node) => GoodInner(node, K, level[p])
        BY <2>1, <2>4 DEF Fits, IsLeaf, IsInternal
      <3> QED
        BY <1>2, <2>1, <2>3, <2>4, <3>1
    <2>5. CASE p # x
      <3>1. q[p] = pg[p]
        BY <1>2, <2>5
      <3>2. /\ NodeAt(pg, p) => p < num /\ level[p] + 2 <= num
            /\ IsLeaf(pg[p]) => GoodLeaf(pg[p], V, level[p])
            /\ IsInternal(pg[p]) => GoodInner(pg[p], K, level[p])
        BY <2>1 DEF Shape
      <3> QED
        BY <2>1, <2>3, <3>1, <3>2 DEF NodeAt
    <2> QED
      BY <2>4, <2>5
  <1>7. Shape(q, N, V, num, level)
    BY <1>1, <1>2, <1>5, <1>6 DEF Shape
  <1> QED
    BY <1>4, <1>7

\* Page num comes into use.
LEMMA ShapeGrow ==
    ASSUME NEW pg, NEW N, NEW V, NEW num, NEW level, Shape(pg, N, V, num, level),
           num < N
    PROVE  /\ Shape(pg, N, V, num + 1, level)
           /\ num \in Pages(N) /\ num # 0 /\ ~NodeAt(pg, num)
  <1>1. /\ N \in Nat /\ num \in 2 .. N /\ pg = [p \in Pages(N) |-> pg[p]]
        /\ level \in [Pages(N) -> Nat] /\ ~NodeAt(pg, 0)
    BY DEF Shape
  <1>2. num \in Pages(N) /\ num # 0 /\ num + 1 \in 2 .. N
    BY <1>1 DEF Pages
  <1>3. ~NodeAt(pg, num)
    BY <1>1, <1>2 DEF Shape
  <1>4. ASSUME NEW p \in Pages(N)
        PROVE  /\ NodeAt(pg, p) => p < num + 1 /\ level[p] + 2 <= num + 1
               /\ IsLeaf(pg[p]) => GoodLeaf(pg[p], V, level[p])
               /\ IsInternal(pg[p]) =>
                     GoodInner(pg[p], Kids(pg, N, level, level[p]), level[p])
    <2>1. p \in Nat /\ level[p] \in Nat
      BY <1>1 DEF Pages
    <2>2. /\ NodeAt(pg, p) => p < num /\ level[p] + 2 <= num
          /\ IsLeaf(pg[p]) => GoodLeaf(pg[p], V, level[p])
          /\ IsInternal(pg[p]) =>
                GoodInner(pg[p], Kids(pg, N, level, level[p]), level[p])
      BY DEF Shape
    <2> QED
      BY <1>1, <2>1, <2>2
  <1>5. Shape(pg, N, V, num + 1, level)
    <2>1. PICK n1 : n1 = num + 1
      OBVIOUS
    <2>2. Shape(pg, N, V, n1, level)
      BY <1>1, <1>2, <1>4, <2>1 DEF Shape
    <2> QED
      BY <2>1, <2>2
  <1> QED
    BY <1>2, <1>3, <1>5

\* The levels of pages that are not in use do not matter: they can be what the
\* levels will be of the nodes that the next insertion puts there.
Fresh(level, N, num) == \A p \in Pages(N) : p >= num => level[p] = p - num

LEMMA FreshLevels ==
    ASSUME NEW pg, NEW N, NEW V, NEW num, NEW level, Shape(pg, N, V, num, level)
    PROVE  \E lev : /\ Shape(pg, N, V, num, lev) /\ Fresh(lev, N, num)
                    /\ \A p \in Pages(N) : NodeAt(pg, p) => lev[p] = level[p]
  <1>1. /\ N \in Nat /\ num \in 2 .. N /\ pg = [p \in Pages(N) |-> pg[p]]
        /\ level \in [Pages(N) -> Nat] /\ ~NodeAt(pg, 0)
    BY DEF Shape
  <1>2. PICK lev : lev = [p \in Pages(N) |-> IF p >= num THEN p - num ELSE level[p]]
    OBVIOUS
  <1>3. \A p \in Pages(N) : p >= num => p - num \in Nat
    BY <1>1 DEF Pages
  <1>4. lev \in [Pages(N) -> Nat] /\ Fresh(lev, N, num)
    BY <1>1, <1>2, <1>3 DEF Fresh
  <1>5. ASSUME NEW p \in Pages(N), NodeAt(pg, p) PROVE lev[p] = level[p]
    <2>1. p < num /\ p \in Nat
      BY <1>5 DEF Shape, Pages
    <2> QED
      BY <1>1, <1>2, <2>1
  <1>6. \A l : Kids(pg, N, level, l) = Kids(pg, N, lev, l)
    BY <1>5 DEF Kids
  <1>7. ASSUME NEW p \in Pages(N)
        PROVE  /\ NodeAt(pg, p) => p < num /\ lev[p] + 2 <= num
               /\ IsLeaf(pg[p]) => GoodLeaf(pg[p], V, lev[p])
               /\ IsInternal(pg[p]) =>
                     GoodInner(pg[p], Kids(pg, N, lev, lev[p]), lev[p])
    <2>1. /\ NodeAt(pg, p) => p < num /\ level[p] + 2 <= num
          /\ IsLeaf(pg[p]) => GoodLeaf(pg[p], V, level[p])
          /\ IsInternal(pg[p]) =>
                GoodInner(pg[p], Kids(pg, N, level, level[p]), level[p])
      BY DEF Shape
    <2>2. NodeAt(pg, p) => lev[p] = level[p]
      BY <1>5
    <2> QED
      BY <1>6, <2>1, <2>2 DEF NodeAt
  <1>8. Shape(pg, N, V, num, lev)
    BY <1>1, <1>4, <1>7 DEF Shape
  <1> QED
    BY <1>4, <1>5, <1>8

-----------------------------------------------------------------------------
(* What an insertion makes of one node: a node, or two of them *)

\* In the pages pg, of which num are in use, node is written to page x.
One(o, pg, num, x, node) ==
    /\ o.pg = Put(pg, x, node)
    /\ o.num_pages = num
    /\ o.split.did_split = FALSE

\* left is written to page x, right to the new page.
Two(o, pg, num, x, left, right, s) ==
    /\ o.pg = Put(Put(pg, x, left), num, right)
    /\ o.num_pages = num + 1
    /\ o.split.did_split = TRUE
    /\ o.split.key = s
    /\ o.split.new_page = num

LEMMA LeafForms ==
    ASSUME NEW pg, NEW num, NEW x, NEW key, NEW value, pg[x] = Leaf(pg[x].cells, pg[x].next),
           NEW o, o = insert_at_leaf(pg, num, x, key, value),
           NEW all, all = leaf_insert(pg[x].cells, key, value),
           NEW h, h = Half(Len(all)),
           NEW left, left = FirstPart(all, h), NEW right, right = LastPart(all, h)
    PROVE  /\ o.lost = FALSE
           /\ IF Len(pg[x].cells) < LEAF_NODE_MAX_CELLS
              THEN One(o, pg, num, x, Leaf(all, pg[x].next))
              ELSE Two(o, pg, num, x, Leaf(left, num), Leaf(right, pg[x].next),
                       right[1].key)
  <1>1. CASE Len(pg[x].cells) < LEAF_NODE_MAX_CELLS
    <2>1. o = Outcome([pg EXCEPT ![x].cells = leaf_insert(@, key, value)],
                      num, NoSplit, FALSE)
      BY <1>1 DEF insert_at_leaf
    <2>2. PICK q : q = [pg EXCEPT ![x].cells = leaf_insert(@, key, value)]
      OBVIOUS
    <2>3. o.pg = q /\ o.num_pages = num /\ o.split.did_split = FALSE /\ o.lost = FALSE
      BY <2>1, <2>2 DEF Outcome, NoSplit
    <2>4. q = [pg EXCEPT ![x] = [pg[x] EXCEPT !.cells = all]]
      BY <2>2
    <2>5. [pg[x] EXCEPT !.cells = all] = Leaf(all, pg[x].next)
      BY DEF Leaf
    <2> QED
      BY <1>1, <2>3, <2>4, <2>5 DEF One, Put
  <1>2. CASE ~(Len(pg[x].cells) < LEAF_NODE_MAX_CELLS)
    <2>1. o = leaf_split_and_insert(pg, num, x, key, value)
      BY <1>2 DEF insert_at_leaf
    <2>2. PICK q : q = [pg EXCEPT ![x] = Leaf(left, num), ![num] = Leaf(right, pg[x].next)]
      OBVIOUS
    <2>3. o = Outcome(q, num + 1,
                      [did_split |-> TRUE, key |-> right[1].key, new_page |-> num], FALSE)
      BY <2>1, <2>2 DEF leaf_split_and_insert, Half, FirstPart, LastPart
    <2>4. /\ o.pg = q /\ o.num_pages = num + 1 /\ o.split.did_split = TRUE
          /\ o.split.key = right[1].key /\ o.split.new_page = num /\ o.lost = FALSE
      <3>1. PICK n1, sp, s : /\ n1 = num + 1 /\ s = right[1].key
                            /\ sp = [did_split |-> TRUE, key |-> s, new_page |-> num]
        OBVIOUS
      <3>2. o = Outcome(q, n1, sp, FALSE)
        BY <2>3, <3>1
      <3>3. o.pg = q /\ o.num_pages = n1 /\ o.split = sp /\ o.lost = FALSE
        BY <3>2 DEF Outcome
      <3>4. sp.did_split = TRUE /\ sp.key = s /\ sp.new_page = num
        BY <3>1
      <3>5. o.split.did_split = TRUE /\ o.split.key = s /\ o.split.new_page = num
        BY <3>3, <3>4
      <3>6. s = right[1].key /\ n1 = num + 1
        BY <3>1
      <3> QED
        BY <3>3, <3>5, <3>6, Zenon
    <2> QED
      BY <1>2, <2>2, <2>4 DEF Two, Put
  <1> QED
    BY <1>1, <1>2

MiddleKey(node) == Len(node.keys) \div 2

\* node is what a split below makes of the internal node x.
Came(o, below, x, node, mid) ==
    /\ o.lost = (below.lost \/ LosesChild(below.pg[x], below.split.key))
    /\ IF Len(node.keys) > INTERNAL_NODE_MAX_KEYS
       THEN Two(o, below.pg, below.num_pages, x, LeftHalf(node, mid),
                RightHalf(node, mid, Len(node.keys)), node.keys[mid + 1])
       ELSE One(o, below.pg, below.num_pages, x, node)

LEMMA AboveForms ==
    ASSUME NEW below, NEW x, NEW D, below.pg = [p \in D |-> below.pg[p]], x \in D,
           NEW o, o = insert_above(below, x),
           NEW node, node = internal_insert(below.pg[x], below.split.key,
                                            below.split.new_page),
           NEW mid, mid = MiddleKey(node),
           below.split.did_split \in BOOLEAN
    PROVE  IF ~below.split.did_split THEN o = below ELSE Came(o, below, x, node, mid)
  <1> DEFINE lost == below.lost \/ LosesChild(below.pg[x], below.split.key)
             with == [below.pg EXCEPT ![x] = node]
  <1>1. CASE ~below.split.did_split
    BY <1>1 DEF insert_above
  <1>2. CASE below.split.did_split /\ Len(node.keys) > INTERNAL_NODE_MAX_KEYS
    <2>1. o = [internal_split(with, below.num_pages, x) EXCEPT !.lost = lost]
      BY <1>2 DEF insert_above
    <2>2. with[x] = node
      OBVIOUS
    <2>3. PICK q : q = [with EXCEPT ![x] = LeftHalf(node, mid),
                            ![below.num_pages] = RightHalf(node, mid, Len(node.keys))]
      OBVIOUS
    <2>4. internal_split(with, below.num_pages, x) =
             Outcome(q, below.num_pages + 1,
                     [did_split |-> TRUE, key |-> node.keys[mid + 1],
                      new_page |-> below.num_pages], FALSE)
      BY <2>2, <2>3 DEF internal_split, LeftHalf, RightHalf, MiddleKey
    <2>5. /\ o.pg = q /\ o.num_pages = below.num_pages + 1
          /\ o.split = [did_split |-> TRUE, key |-> node.keys[mid + 1],
                        new_page |-> below.num_pages]
          /\ o.lost = lost
      <3>1. PICK n1, sp, s : /\ n1 = below.num_pages + 1 /\ s = node.keys[mid + 1]
                            /\ sp = [did_split |-> TRUE, key |-> s,
                                     new_page |-> below.num_pages]
        OBVIOUS
      <3> HIDE DEF lost, with
      <3>2. o = [Outcome(q, n1, sp, FALSE) EXCEPT !.lost = lost]
        BY <2>1, <2>4, <3>1
      <3>3. o.pg = q /\ o.num_pages = n1 /\ o.split = sp /\ o.lost = lost
        BY <3>2 DEF Outcome
      <3> QED
        BY <3>1, <3>3
    <2>6. [with EXCEPT ![x] = LeftHalf(node, mid)] = Put(below.pg, x, LeftHalf(node, mid))
      BY DEF Put
    <2>7. q = Put(Put(below.pg, x, LeftHalf(node, mid)), below.num_pages,
                  RightHalf(node, mid, Len(node.keys)))
      BY <2>3, <2>6 DEF Put
    <2> QED
      BY <1>2, <2>5, <2>7 DEF Two, Came
  <1>3. CASE below.split.did_split /\ ~(Len(node.keys) > INTERNAL_NODE_MAX_KEYS)
    <2>1. o = Outcome(with, below.num_pages, NoSplit, lost)
      BY <1>3 DEF insert_above
    <2>2. /\ o.pg = with /\ o.num_pages = below.num_pages
          /\ o.split.did_split = FALSE /\ o.lost = lost
      BY <2>1 DEF Outcome, NoSplit
    <2> QED
      BY <1>3, <2>2 DEF One, Put, Came
  <1> QED
    BY <1>1, <1>2, <1>3

CellOf(key, value) == [key |-> key, value |-> value]

WithCell(t, cells, V, cell) ==
    /\ t \in Seq(Cell(V)) /\ Len(t) = Len(cells) + 1
    /\ CellSet(t) = CellSet(cells) \cup {cell}

\* Whatever order the cells are in.
LEMMA InsertedCells ==
    ASSUME NEW V, NEW cells \in Seq(Cell(V)), NEW key \in Nat, NEW value \in V,
           NEW t, t = leaf_insert(cells, key, value)
    PROVE  WithCell(t, cells, V, CellOf(key, value))
  <1> DEFINE n == Len(cells)
             S == {i \in DOMAIN cells : cells[i].key < key}
  <1>1. PICK new : new = [key |-> key, value |-> value]
    OBVIOUS
  <1>2. new \in Cell(V)
    BY <1>1 DEF Cell
  <1>3. n \in Nat /\ DOMAIN cells = 1 .. n
    BY CellKeys
  <1>4. PICK m : m = leaf_find(cells, key)
    OBVIOUS
  <1>5. m \in 0 .. n
    <2>1. S \subseteq 1 .. n
      BY <1>3
    <2>2. m = Cardinality(S)
      BY <1>4 DEF leaf_find
    <2> HIDE DEF S
    <2> QED
      BY <1>3, <2>1, <2>2, CountBound
  <1>6. PICK i : i = m + 1
    OBVIOUS
  <1>7. i \in 1 .. n + 1 /\ t = InsertAt(cells, i, new)
    BY <1>1, <1>3, <1>4, <1>5, <1>6 DEF leaf_insert
  <1>8. t \in Seq(Cell(V)) /\ Inserted(t, cells, i, new)
    BY <1>2, <1>7, InsertedAt
  <1>9. /\ Len(t) = n + 1
        /\ \A j \in 1 .. n + 1 :
              t[j] = IF j < i THEN cells[j] ELSE IF j = i THEN new ELSE cells[j - 1]
    BY <1>8 DEF Inserted
  <1>10. ASSUME NEW j \in 1 .. n + 1
         PROVE  t[j] = new \/ \E k \in 1 .. n : t[j] = cells[k]
    <2>1. CASE j < i
      <3>1. j \in 1 .. n /\ t[j] = cells[j]
        BY <1>3, <1>7, <1>9, <2>1
      <3> QED
        BY <3>1
    <2>2. CASE j = i
      BY <1>9, <2>2
    <2>3. CASE j > i
      <3>1. PICK k : k = j - 1
        OBVIOUS
      <3>2. k \in 1 .. n /\ t[j] = cells[k]
        BY <1>3, <1>7, <1>9, <2>3, <3>1
      <3> QED
        BY <3>2
    <2> QED
      BY <1>7, <2>1, <2>2, <2>3
  <1>11. ASSUME NEW k \in 1 .. n
         PROVE  \E j \in 1 .. n + 1 : t[j] = cells[k]
    <2>1. CASE k < i
      <3>1. k \in 1 .. n + 1 /\ t[k] = cells[k]
        BY <1>3, <1>9, <2>1
      <3> QED
        BY <3>1
    <2>2. CASE k >= i
      <3>1. PICK j : j = k + 1
        OBVIOUS
      <3>2. j \in 1 .. n + 1 /\ j > i /\ j - 1 = k
        BY <1>3, <1>7, <2>2, <3>1
      <3>3. t[j] = cells[k]
        BY <1>7, <1>9, <3>2
      <3> QED
        BY <3>2, <3>3
    <2> QED
      BY <1>7, <2>1, <2>2
  <1>12. t[i] = new
    BY <1>7, <1>9
  <1>13. CellSet(t) = CellSet(cells) \cup {new}
    BY <1>7, <1>9, <1>10, <1>11, <1>12 DEF CellSet
  <1> QED
    BY <1>1, <1>8, <1>9, <1>13 DEF CellOf, WithCell

LEMMA CutCells ==
    ASSUME NEW S, NEW all \in Seq(S), NEW h \in Nat, h >= 1, h < Len(all),
           NEW left, left = FirstPart(all, h), NEW right, right = LastPart(all, h)
    PROVE  /\ left \in Seq(S) /\ Len(left) = h
           /\ right \in Seq(S) /\ Len(right) = Len(all) - h
           /\ CellSet(left) \cup CellSet(right) = CellSet(all)
           /\ right[1] \in S
  <1> DEFINE n == Len(all)
  <1>1. n \in Nat
    OBVIOUS
  <1>2. /\ left \in Seq(S) /\ Len(left) = h
        /\ \A j \in 1 .. h : left[j] = all[j]
    <2>1. h \in 0 .. n /\ 1 \in Nat /\ 1 <= h + 1
      BY <1>1
    <2>2. /\ left \in Seq(S) /\ Len(left) = h + 1 - 1
          /\ \A j \in 1 .. h + 1 - 1 : left[j] = all[1 + j - 1]
      BY <2>1, PartOf DEF FirstPart
    <2>3. h + 1 - 1 = h /\ \A j \in 1 .. h : 1 + j - 1 = j
      OBVIOUS
    <2> QED
      BY <2>2, <2>3
  <1>3. /\ right \in Seq(S) /\ Len(right) = n - h
        /\ \A j \in 1 .. n - h : right[j] = all[h + j]
    <2>1. PICK a, b : a = h + 1 /\ b = n
      OBVIOUS
    <2>2. /\ a \in Nat /\ b \in 0 .. n /\ a >= 1 /\ a <= b + 1
          /\ right = SubSeq(all, a, b)
      BY <1>1, <2>1 DEF LastPart
    <2>3. /\ right \in Seq(S) /\ Len(right) = b + 1 - a
          /\ \A j \in 1 .. b + 1 - a : right[j] = all[a + j - 1]
      BY <2>2, PartOf
    <2>4. b + 1 - a = n - h /\ \A j \in 1 .. n - h : a + j - 1 = h + j
      BY <1>1, <2>1
    <2> QED
      BY <2>3, <2>4
  <1>0. /\ \A e : e \in CellSet(left) <=> \E j \in 1 .. h : left[j] = e
        /\ \A e : e \in CellSet(right) <=> \E j \in 1 .. n - h : right[j] = e
        /\ \A e : e \in CellSet(all) <=> \E j \in 1 .. n : all[j] = e
    BY <1>2, <1>3 DEF CellSet
  <1>4. ASSUME NEW j \in 1 .. n
        PROVE  all[j] \in CellSet(left) \cup CellSet(right)
    <2>1. CASE j <= h
      BY <1>1, <1>2, <2>1 DEF CellSet
    <2>2. CASE j > h
      <3>1. PICK k : k = j - h
        OBVIOUS
      <3>2. k \in 1 .. n - h /\ h + k = j
        BY <1>1, <2>2, <3>1
      <3> QED
        BY <1>3, <3>2 DEF CellSet
    <2> QED
      BY <1>1, <2>1, <2>2
  <1>5. \A j \in 1 .. h : left[j] \in CellSet(all)
    BY <1>1, <1>2 DEF CellSet
  <1>6. ASSUME NEW j \in 1 .. n - h PROVE right[j] \in CellSet(all)
    <2>1. h + j \in 1 .. n
      BY <1>1
    <2> QED
      BY <1>3, <2>1 DEF CellSet
  <1>7. CellSet(left) \cup CellSet(right) = CellSet(all)
    BY <1>0, <1>4, <1>5, <1>6
  <1>8. right[1] \in S
    BY <1>1, <1>3
  <1> QED
    BY <1>2, <1>3, <1>7, <1>8

\* What became of an insertion of cell into the pages pg at a node on level h,
\* which has written to no other old pages than those of X.
Result(o, pg, N, V, num, level, X, h, cell) ==
    /\ o.num_pages \in num .. num + h + 1
    /\ o.split.did_split \in BOOLEAN
    /\ o.split.did_split => o.num_pages = num + h + 1 /\ o.split.new_page = num + h
    /\ o.num_pages <= N =>
          /\ Shape(o.pg, N, V, o.num_pages, level)
          /\ \A p \in Pages(N) : p < num =>
                /\ IsLeaf(o.pg[p]) <=> IsLeaf(pg[p])
                /\ IsInternal(o.pg[p]) <=> IsInternal(pg[p])
          /\ \A p \in Pages(N) :
                p \notin X /\ p \notin num .. o.num_pages - 1 => o.pg[p] = pg[p]
          /\ EntriesOf(o.pg, N) = EntriesOf(pg, N) \cup {cell}
          /\ o.split.did_split =>
                o.split.key \in Nat /\ NodeAt(o.pg, o.split.new_page)

LEMMA HalfBound ==
    ASSUME NEW n \in Nat, n >= 2, NEW h, h = Half(n)
    PROVE  h \in Nat /\ h >= 1 /\ h < n
  BY DEF Half

LEMMA LeafParts ==
    ASSUME NEW V, NEW cells \in Seq(Cell(V)), NEW next \in Nat,
           Len(cells) <= LEAF_NODE_MAX_CELLS, NEW node, node = Leaf(cells, next)
    PROVE  /\ IsLeaf(node) /\ ~IsInternal(node) /\ GoodLeaf(node, V, 0)
           /\ node.cells = cells /\ node.next = next
  BY DEF Leaf, IsLeaf, IsInternal, GoodLeaf, LeafNodes

LEMMA LeafNode ==
    ASSUME NEW V, NEW node, NEW l, GoodLeaf(node, V, l)
    PROVE  /\ node.cells \in Seq(Cell(V)) /\ Len(node.cells) \in Nat
           /\ Len(node.cells) <= LEAF_NODE_MAX_CELLS
           /\ node.next \in Nat /\ node = Leaf(node.cells, node.next)
           /\ ~IsInternal(node)
  <1>1. /\ node.cells \in Seq(Cell(V)) /\ node.next \in Nat
        /\ node = Leaf(node.cells, node.next) /\ ~IsInternal(node)
    BY DEF GoodLeaf, LeafNodes, Leaf, IsInternal
  <1> QED
    BY <1>1 DEF GoodLeaf

LEMMA Kinds ==
    ASSUME NEW pg, NEW N, NEW V, NEW num, NEW level, Shape(pg, N, V, num, level),
           NEW x \in Pages(N), NodeAt(pg, x)
    PROVE  /\ x < num /\ x # 0 /\ level[x] \in Nat /\ level[x] + 2 <= num
           /\ IsLeaf(pg[x]) <=> level[x] = 0
           /\ IsInternal(pg[x]) <=> level[x] # 0
           /\ \A node : Fits(node, pg, N, V, level, x) =>
                /\ IsLeaf(node) <=> IsLeaf(pg[x])
                /\ IsInternal(node) <=> IsInternal(pg[x])
  <1>1. /\ x < num /\ level[x] + 2 <= num /\ level[x] \in Nat /\ x # 0
        /\ IsLeaf(pg[x]) => level[x] = 0
        /\ IsInternal(pg[x]) => level[x] # 0
    BY DEF Shape, GoodLeaf, GoodInner
  <1>2. \A node : Fits(node, pg, N, V, level, x) =>
          /\ IsLeaf(node) <=> level[x] = 0
          /\ IsInternal(node) <=> level[x] # 0
    BY DEF Fits, GoodLeaf, GoodInner, IsLeaf, IsInternal
  <1> QED
    BY <1>1, <1>2 DEF NodeAt

LEMMA OneShape ==
    ASSUME NEW pg, NEW N, NEW V, NEW num, NEW level, Shape(pg, N, V, num, level),
           NEW x \in Pages(N), NodeAt(pg, x),
           NEW node, Fits(node, pg, N, V, level, x),
           NEW o, One(o, pg, num, x, node)
    PROVE  /\ Shape(o.pg, N, V, num, level)
           /\ o.pg[x] = node /\ \A p \in Pages(N) : p # x => o.pg[p] = pg[p]
  <1>1. PICK q : q = o.pg
    OBVIOUS
  <1>2. q = Put(pg, x, node)
    BY <1>1 DEF One
  <1>3. x # 0 /\ x < num /\ level[x] + 2 <= num
    BY Kinds
  <1>4. Shape(q, N, V, num, level)
    BY <1>2, <1>3, ShapePut
  <1>5. pg = [p \in Pages(N) |-> pg[p]]
    BY DEF Shape
  <1>6. q[x] = node /\ \A p \in Pages(N) : p # x => q[p] = pg[p]
    BY <1>2, <1>5, PutIs
  <1> QED
    BY <1>1, <1>4, <1>6

LEMMA TwoShape ==
    ASSUME NEW pg, NEW N, NEW V, NEW num, NEW level, Shape(pg, N, V, num, level),
           num < N, level[num] + 2 <= num + 1,
           NEW x \in Pages(N), NodeAt(pg, x),
           NEW left, Fits(left, pg, N, V, level, x),
           NEW right, Fits(right, pg, N, V, level, num),
           NEW s, NEW o, Two(o, pg, num, x, left, right, s)
    PROVE  /\ Shape(o.pg, N, V, num + 1, level)
           /\ num \in Pages(N) /\ num # x
           /\ o.pg[x] = left /\ o.pg[num] = right
           /\ \A p \in Pages(N) : p # x /\ p # num => o.pg[p] = pg[p]
  <1>1. PICK q, r : q = Put(pg, x, left) /\ r = Put(q, num, right)
    OBVIOUS
  <1>2. r = o.pg
    BY <1>1 DEF Two
  <1>3. x # 0 /\ x < num /\ level[x] + 2 <= num
    BY Kinds
  <1>4. /\ Shape(q, N, V, num, level)
        /\ \A l : Kids(pg, N, level, l) \subseteq Kids(q, N, level, l)
    BY <1>1, <1>3, ShapePut
  <1>0. num \in Nat
    BY DEF Shape
  <1>5. num \in Pages(N) /\ num # 0 /\ num \in Nat
    BY <1>0, ShapeGrow
  <1>6. PICK n1 : n1 = num + 1
    OBVIOUS
  <1>7. Shape(q, N, V, n1, level)
    BY <1>4, <1>6, ShapeGrow
  <1>8. Fits(right, q, N, V, level, num)
    <2>1. GoodInner(right, Kids(pg, N, level, level[num]), level[num]) =>
          GoodInner(right, Kids(q, N, level, level[num]), level[num])
      BY <1>4, InnerNodesGrow DEF GoodInner
    <2> QED
      BY <2>1 DEF Fits
  <1>9. Shape(r, N, V, n1, level)
    <2>1. num < n1 /\ level[num] + 2 <= n1
      BY <1>5, <1>6
    <2> QED
      BY <1>1, <1>5, <1>7, <1>8, <2>1, ShapePut
  <1>10. /\ pg = [p \in Pages(N) |-> pg[p]] /\ q = [p \in Pages(N) |-> q[p]]
    BY <1>4 DEF Shape
  <1>11. q[x] = left /\ \A p \in Pages(N) : p # x => q[p] = pg[p]
    BY <1>1, <1>10, PutIs
  <1>12. r[num] = right /\ \A p \in Pages(N) : p # num => r[p] = q[p]
    BY <1>1, <1>5, <1>10, PutIs
  <1>13. num # x
    BY <1>3, <1>5
  <1> QED
    BY <1>2, <1>5, <1>6, <1>9, <1>11, <1>12, <1>13

\* The insertion at the leaf.
LEMMA LeafResult ==
    ASSUME NEW pg, NEW N, NEW V, NEW num, NEW level, Shape(pg, N, V, num, level),
           Fresh(level, N, num),
           NEW x \in Pages(N), IsLeaf(pg[x]), NEW key \in Nat, NEW value \in V,
           NEW o, o = insert_at_leaf(pg, num, x, key, value),
           NEW cell, cell = CellOf(key, value)
    PROVE  Result(o, pg, N, V, num, level, {x}, 0, cell)
  <1>1. /\ N \in Nat /\ num \in 2 .. N /\ pg = [p \in Pages(N) |-> pg[p]]
        /\ level \in [Pages(N) -> Nat]
    BY DEF Shape
  <1>2. NodeAt(pg, x) /\ GoodLeaf(pg[x], V, level[x]) /\ level[x] = 0
    BY DEF Shape, GoodLeaf, NodeAt
  <1>3. PICK cells, next : cells = pg[x].cells /\ next = pg[x].next
    OBVIOUS
  <1>4. /\ cells \in Seq(Cell(V)) /\ Len(cells) \in Nat /\ Len(cells) <= LEAF_NODE_MAX_CELLS
        /\ next \in Nat /\ pg[x] = Leaf(cells, next)
    BY <1>2, <1>3, LeafNode
  <1>5. PICK all, h, left, right :
           /\ all = leaf_insert(cells, key, value) /\ h = Half(Len(all))
           /\ left = FirstPart(all, h) /\ right = LastPart(all, h)
    OBVIOUS
  <1>6. /\ all \in Seq(Cell(V)) /\ Len(all) = Len(cells) + 1
        /\ CellSet(all) = CellSet(cells) \cup {cell}
    <2>1. WithCell(all, cells, V, cell)
      BY <1>4, <1>5, InsertedCells
    <2> QED
      BY <2>1 DEF WithCell
  <1>7. IF Len(cells) < LEAF_NODE_MAX_CELLS
        THEN One(o, pg, num, x, Leaf(all, next))
        ELSE Two(o, pg, num, x, Leaf(left, num), Leaf(right, next), right[1].key)
    BY <1>3, <1>4, <1>5, LeafForms
  <1>8. CellsAt(pg, x) = CellSet(cells)
    BY <1>3 DEF CellsAt
  <1>9. CASE Len(cells) < LEAF_NODE_MAX_CELLS
    <2>1. PICK node : node = Leaf(all, next)
      OBVIOUS
    <2>2. One(o, pg, num, x, node)
      BY <1>7, <1>9, <2>1
    <2>3. /\ IsLeaf(node) /\ ~IsInternal(node) /\ GoodLeaf(node, V, 0) /\ node.cells = all
      <3>1. Len(all) <= LEAF_NODE_MAX_CELLS
        BY <1>4, <1>6, <1>9, NodeAssumption
      <3> QED
        BY <1>4, <1>6, <2>1, <3>1, LeafParts
    <2>4. Fits(node, pg, N, V, level, x)
      BY <1>2, <2>3 DEF Fits
    <2>5. /\ Shape(o.pg, N, V, num, level)
          /\ o.pg[x] = node /\ \A p \in Pages(N) : p # x => o.pg[p] = pg[p]
      BY <1>2, <2>2, <2>4, OneShape
    <2>6. EntriesOf(o.pg, N) = EntriesOf(pg, N) \cup {cell}
      <3>1. CellsAt(o.pg, x) = CellsAt(pg, x) \cup {cell}
        BY <1>6, <1>8, <2>3, <2>5 DEF CellsAt
      <3>2. \A p \in Pages(N) : p # x => CellsAt(o.pg, p) = CellsAt(pg, p)
        BY <2>5 DEF CellsAt
      <3>3. PICK C : C = {cell}
        OBVIOUS
      <3>4. CellsCame(pg, o.pg, N, x, x, C)
        BY <3>1, <3>2, <3>3 DEF CellsCame
      <3>8. CellsAdded(pg, o.pg, N, C)
        BY <3>4, EntriesMoved
      <3> QED
        BY <3>3, <3>8 DEF CellsAdded
    <2>7. o.num_pages = num /\ o.split.did_split = FALSE
      BY <2>2 DEF One
    <2>8. \A p \in Pages(N) : /\ IsLeaf(o.pg[p]) <=> IsLeaf(pg[p])
                              /\ IsInternal(o.pg[p]) <=> IsInternal(pg[p])
      BY <1>2, <2>3, <2>5 DEF IsLeaf, IsInternal
    <2>9. o.num_pages \in num .. num + 0 + 1
      BY <1>1, <2>7
    <2> QED
      BY <2>5, <2>6, <2>7, <2>8, <2>9 DEF Result
  <1>10. CASE ~(Len(cells) < LEAF_NODE_MAX_CELLS)
    <2>1. PICK a, b, s : a = Leaf(left, num) /\ b = Leaf(right, next) /\ s = right[1].key
      OBVIOUS
    <2>2. Two(o, pg, num, x, a, b, s)
      BY <1>7, <1>10, <2>1
    <2>3. o.num_pages = num + 1 /\ o.split.did_split = TRUE /\ o.split.new_page = num /\ o.split.key = s
      BY <2>2 DEF Two
    <2>4. SUFFICES ASSUME num + 1 <= N
          PROVE  /\ Shape(o.pg, N, V, num + 1, level)
                 /\ \A p \in Pages(N) : p < num =>
                       /\ IsLeaf(o.pg[p]) <=> IsLeaf(pg[p])
                       /\ IsInternal(o.pg[p]) <=> IsInternal(pg[p])
                 /\ \A p \in Pages(N) : p # x /\ p # num => o.pg[p] = pg[p]
                 /\ EntriesOf(o.pg, N) = EntriesOf(pg, N) \cup {cell}
                 /\ s \in Nat /\ NodeAt(o.pg, num)
      <3>1. \A p \in Pages(N) : p \notin num .. num + 1 - 1 => p # num
        BY <1>1
      <3>2. num + 1 \in num .. num + 0 + 1 /\ num + 0 + 1 = num + 1 /\ num + 0 = num
        BY <1>1
      <3>3. /\ o.num_pages \in num .. num + 0 + 1
            /\ o.num_pages = num + 0 + 1 /\ o.split.new_page = num + 0
        BY <2>3, <3>2
      <3>4. ASSUME NEW p \in Pages(N), p \notin {x}, p \notin num .. o.num_pages - 1
            PROVE  p # x /\ p # num
        BY <1>1, <2>3, <3>1, <3>4
      <3>5. o.num_pages <= N =>
               /\ Shape(o.pg, N, V, o.num_pages, level)
               /\ \A p \in Pages(N) : p < num =>
                     /\ IsLeaf(o.pg[p]) <=> IsLeaf(pg[p])
                     /\ IsInternal(o.pg[p]) <=> IsInternal(pg[p])
               /\ \A p \in Pages(N) : p # x /\ p # num => o.pg[p] = pg[p]
               /\ EntriesOf(o.pg, N) = EntriesOf(pg, N) \cup {cell}
               /\ s \in Nat /\ NodeAt(o.pg, num)
        BY <2>3, <2>4
      <3> QED
        BY <2>3, <3>3, <3>4, <3>5 DEF Result
    <2>5. Len(all) >= 2 /\ Len(all) = LEAF_NODE_MAX_CELLS + 1 /\ Len(all) \in Nat
      BY <1>4, <1>6, <1>10, NodeAssumption
    <2>6. h \in Nat /\ h >= 1 /\ h < Len(all)
      BY <1>5, <2>5, HalfBound
    <2>7. /\ left \in Seq(Cell(V)) /\ Len(left) = h
          /\ right \in Seq(Cell(V)) /\ Len(right) = Len(all) - h
          /\ CellSet(left) \cup CellSet(right) = CellSet(all)
          /\ right[1] \in Cell(V)
      BY <1>5, <1>6, <2>6, CutCells
    <2>8. Len(left) <= LEAF_NODE_MAX_CELLS /\ Len(right) <= LEAF_NODE_MAX_CELLS
      BY <2>5, <2>6, <2>7, NodeAssumption
    <2>9. IsLeaf(a) /\ ~IsInternal(a) /\ GoodLeaf(a, V, 0) /\ a.cells = left
      BY <1>1, <2>1, <2>7, <2>8, LeafParts
    <2>10. IsLeaf(b) /\ ~IsInternal(b) /\ GoodLeaf(b, V, 0) /\ b.cells = right
      BY <1>4, <2>1, <2>7, <2>8, LeafParts
    <2>11. num \in Pages(N) /\ num < N
      BY <1>1, <2>4 DEF Pages
    <2>12. level[num] = 0
      BY <1>1, <2>11 DEF Fresh
    <2>13. Fits(a, pg, N, V, level, x) /\ Fits(b, pg, N, V, level, num)
      BY <1>2, <2>9, <2>10, <2>12 DEF Fits
    <2>14. level[num] + 2 <= num + 1
      BY <1>1, <2>12
    <2>15. /\ Shape(o.pg, N, V, num + 1, level) /\ num # x
           /\ o.pg[x] = a /\ o.pg[num] = b
           /\ \A p \in Pages(N) : p # x /\ p # num => o.pg[p] = pg[p]
      BY <1>2, <2>2, <2>11, <2>13, <2>14, TwoShape
    <2>16. EntriesOf(o.pg, N) = EntriesOf(pg, N) \cup {cell}
      <3>1. ~IsLeaf(pg[num])
        BY <2>11, ShapeGrow DEF NodeAt
      <3>2. CellsAt(o.pg, x) = CellSet(left) /\ CellsAt(o.pg, num) = CellSet(right)
        BY <2>9, <2>10, <2>15 DEF CellsAt
      <3>3. CellsAt(pg, num) = {}
        BY <3>1 DEF CellsAt
      <3>4. CellsAt(o.pg, x) \cup CellsAt(o.pg, num) = CellsAt(pg, x) \cup CellsAt(pg, num) \cup {cell}
        BY <1>6, <1>8, <2>7, <3>2, <3>3
      <3>5. \A p \in Pages(N) : p # x /\ p # num => CellsAt(o.pg, p) = CellsAt(pg, p)
        BY <2>15 DEF CellsAt
      <3>6. PICK C : C = {cell}
        OBVIOUS
      <3>7. CellsCame(pg, o.pg, N, x, num, C)
        BY <3>4, <3>5, <3>6 DEF CellsCame
      <3>8. CellsAdded(pg, o.pg, N, C)
        BY <2>11, <3>7, EntriesMoved
      <3> QED
        BY <3>6, <3>8 DEF CellsAdded
    <2>17. \A p \in Pages(N) : p < num => /\ IsLeaf(o.pg[p]) <=> IsLeaf(pg[p])
                                          /\ IsInternal(o.pg[p]) <=> IsInternal(pg[p])
      BY <1>1, <1>2, <2>9, <2>15 DEF IsLeaf, IsInternal
    <2>18. s \in Nat
      BY <2>1, <2>7 DEF Cell
    <2>19. NodeAt(o.pg, num)
      BY <2>10, <2>15 DEF NodeAt
    <2> QED
      BY <2>15, <2>16, <2>17, <2>18, <2>19
  <1> QED
    BY <1>9, <1>10

LEMMA AboveCounts ==
    ASSUME NEW below, NEW x, NEW o, o = insert_above(below, x),
           below.split.did_split \in BOOLEAN
    PROVE  IF ~below.split.did_split THEN o = below
           ELSE \/ o.num_pages = below.num_pages /\ o.split.did_split = FALSE
                \/ /\ o.num_pages = below.num_pages + 1 /\ o.split.did_split = TRUE
                   /\ o.split.new_page = below.num_pages
  <1> DEFINE lost == below.lost \/ LosesChild(below.pg[x], below.split.key)
             node == internal_insert(below.pg[x], below.split.key, below.split.new_page)
             with == [below.pg EXCEPT ![x] = node]
  <1>1. CASE ~below.split.did_split
    BY <1>1 DEF insert_above
  <1>2. CASE below.split.did_split /\ Len(node.keys) > INTERNAL_NODE_MAX_KEYS
    <2>1. o = [internal_split(with, below.num_pages, x) EXCEPT !.lost = lost]
      BY <1>2 DEF insert_above
    <2>2. PICK q, n1, s, sp :
             /\ n1 = below.num_pages + 1
             /\ sp = [did_split |-> TRUE, key |-> s, new_page |-> below.num_pages]
             /\ internal_split(with, below.num_pages, x) = Outcome(q, n1, sp, FALSE)
      BY DEF internal_split
    <2> HIDE DEF lost, with
    <2>3. o = [Outcome(q, n1, sp, FALSE) EXCEPT !.lost = lost]
      BY <2>1, <2>2
    <2>4. o.num_pages = n1 /\ o.split = sp
      BY <2>3 DEF Outcome
    <2> QED
      BY <1>2, <2>2, <2>4
  <1>3. CASE below.split.did_split /\ ~(Len(node.keys) > INTERNAL_NODE_MAX_KEYS)
    <2>1. o = Outcome(with, below.num_pages, NoSplit, lost)
      BY <1>3 DEF insert_above
    <2>2. o.num_pages = below.num_pages /\ o.split.did_split = FALSE
      BY <2>1 DEF Outcome, NoSplit
    <2> QED
      BY <1>3, <2>2
  <1> QED
    BY <1>1, <1>2, <1>3

LEMMA GoodInnerIs ==
    ASSUME NEW node, NEW K, NEW l, GoodInner(node, K, l)
    PROVE  IsInternal(node) /\ ~IsLeaf(node) /\ l # 0
  BY DEF GoodInner, InnerNodes, IsInternal, IsLeaf

AboveNode(o, below, x, node, mid, left, right, K, l) ==
    /\ o.lost = (below.lost \/ LosesChild(below.pg[x], below.split.key))
    /\ below.pg[x] \in InnerNodes(K)
    /\ Len(below.pg[x].keys) <= INTERNAL_NODE_MAX_KEYS
    /\ node \in InnerNodes(K)
    /\ \/ /\ One(o, below.pg, below.num_pages, x, node)
          /\ GoodInner(node, K, l)
       \/ /\ Two(o, below.pg, below.num_pages, x, left, right, node.keys[mid + 1])
          /\ HalfNodes(left, right, node, mid)
          /\ GoodInner(left, K, l)
          /\ GoodInner(right, K, l)
          /\ node.keys[mid + 1] \in Nat
          /\ mid \in Nat /\ mid >= 1 /\ mid < Len(node.keys)

\* A split below leads to a node that took a key, or to two of them.
LEMMA AboveNodes ==
    ASSUME NEW below, NEW N, NEW V, NEW num, NEW level, NEW n1, n1 = below.num_pages,
           Shape(below.pg, N, V, n1, level),
           below.split.did_split = TRUE, below.split.key \in Nat,
           NEW x \in Pages(N), IsInternal(below.pg[x]),
           below.split.new_page \in Kids(below.pg, N, level, level[x]),
           NEW o, o = insert_above(below, x),
           NEW node, node = internal_insert(below.pg[x], below.split.key,
                                            below.split.new_page),
           NEW mid, mid = MiddleKey(node),
           NEW left, left = LeftHalf(node, mid),
           NEW right, right = RightHalf(node, mid, Len(node.keys)),
           NEW K, K = Kids(below.pg, N, level, level[x])
    PROVE  AboveNode(o, below, x, node, mid, left, right, K, level[x])
  <1>1. GoodInner(below.pg[x], K, level[x])
    BY DEF Shape
  <1>2. /\ below.pg[x] \in InnerNodes(K) /\ level[x] # 0
        /\ Len(below.pg[x].keys) <= INTERNAL_NODE_MAX_KEYS
    BY <1>1 DEF GoodInner
  <1>3. PICK old, s, new : old = below.pg[x] /\ s = below.split.key /\ new = below.split.new_page
    OBVIOUS
  <1>4. PICK m : m = Separators(old, s)
    OBVIOUS
  <1>5. node \in InnerNodes(K) /\ Len(node.keys) = Len(old.keys) + 1
    <2>1. node = internal_insert(old, s, new)
      BY <1>3
    <2>2. node \in InnerNodes(K) /\ NodeWith(node, old, s, new, m)
      BY <1>2, <1>3, <1>4, <2>1, InsertedNode
    <2> QED
      BY <2>2 DEF NodeWith
  <1>6. Len(old.keys) \in Nat /\ Len(node.keys) \in Nat
    BY <1>2, <1>3, <1>5, InnerParts
  <1>7. /\ o.lost = (below.lost \/ LosesChild(below.pg[x], below.split.key))
        /\ IF Len(node.keys) > INTERNAL_NODE_MAX_KEYS
           THEN Two(o, below.pg, n1, x, left, right, node.keys[mid + 1])
           ELSE One(o, below.pg, n1, x, node)
    <2>1. below.pg = [p \in Pages(N) |-> below.pg[p]]
      BY DEF Shape
    <2>2. Came(o, below, x, node, mid)
      BY <2>1, AboveForms
    <2> QED
      BY <2>2 DEF Came
  <1>8. CASE ~(Len(node.keys) > INTERNAL_NODE_MAX_KEYS)
    <2>1. GoodInner(node, K, level[x])
      BY <1>2, <1>5, <1>6, <1>8, NodeAssumption DEF GoodInner
    <2> QED
      BY <1>2, <1>5, <1>7, <1>8, <2>1 DEF AboveNode
  <1>9. CASE Len(node.keys) > INTERNAL_NODE_MAX_KEYS
    <2>1. /\ Len(node.keys) = INTERNAL_NODE_MAX_KEYS + 1
          /\ mid \in Nat /\ mid >= 1 /\ mid < Len(node.keys)
      <3>1. Len(node.keys) = INTERNAL_NODE_MAX_KEYS + 1 /\ Len(node.keys) >= 2
        BY <1>2, <1>3, <1>5, <1>6, <1>9, NodeAssumption
      <3>2. \A n \in Nat : n >= 2 => n \div 2 \in Nat /\ n \div 2 >= 1 /\ n \div 2 < n
        OBVIOUS
      <3> QED
        BY <1>6, <3>1, <3>2 DEF MiddleKey
    <2>2. 0 \in K
      BY DEF Kids
    <2>3. /\ left \in InnerNodes(K) /\ right \in InnerNodes(K)
          /\ HalfNodes(left, right, node, mid)
          /\ node.keys[mid + 1] \in Nat
      <3>1. Len(node.keys) <= INTERNAL_NODE_MAX_KEYS + 1
        BY <2>1, NodeAssumption
      <3> QED
        BY <1>5, <2>1, <2>2, <3>1, SplitNode
    <2>4. Len(left.keys) <= INTERNAL_NODE_MAX_KEYS /\ Len(right.keys) <= INTERNAL_NODE_MAX_KEYS
      <3>1. Len(left.keys) = mid /\ Len(right.keys) = Len(node.keys) - mid - 1
        BY <2>3 DEF HalfNodes
      <3>2. PICK n : n = Len(node.keys)
        OBVIOUS
      <3>3. \A a, b, c \in Nat : a = c + 1 /\ b >= 1 /\ b < a => b <= c /\ a - b - 1 <= c
        OBVIOUS
      <3>4. n \in Nat /\ mid \in Nat /\ INTERNAL_NODE_MAX_KEYS \in Nat /\ n = INTERNAL_NODE_MAX_KEYS + 1 /\ mid >= 1 /\ mid < n
        BY <1>6, <2>1, <3>2, NodeAssumption
      <3>5. mid <= INTERNAL_NODE_MAX_KEYS /\ n - mid - 1 <= INTERNAL_NODE_MAX_KEYS
        BY <3>3, <3>4
      <3> QED
        BY <3>1, <3>2, <3>5
    <2>5. GoodInner(left, K, level[x]) /\ GoodInner(right, K, level[x])
      BY <1>2, <2>3, <2>4 DEF GoodInner
    <2> QED
      BY <1>2, <1>5, <1>7, <1>9, <2>1, <2>3, <2>5 DEF AboveNode
  <1> QED
    BY <1>8, <1>9

\* The insertion at an internal node, after what is below it.
LEMMA AboveResult ==
    ASSUME NEW pg, NEW N, NEW V, NEW num, NEW level, Shape(pg, N, V, num, level),
           Fresh(level, N, num), NEW X, NEW h \in Nat, NEW cell,
           NEW below, Result(below, pg, N, V, num, level, X, h, cell),
           NEW x \in Pages(N), IsInternal(pg[x]), level[x] = h + 1,
           NEW Y, X \subseteq Y, x \in Y,
           NEW o, o = insert_above(below, x), NEW g, g = h + 1
    PROVE  Result(o, pg, N, V, num, level, Y, g, cell)
  <1>1. /\ N \in Nat /\ num \in 2 .. N /\ pg = [p \in Pages(N) |-> pg[p]]
        /\ level \in [Pages(N) -> Nat]
    BY DEF Shape
  <1>2. g \in Nat /\ x < num /\ x # 0 /\ NodeAt(pg, x)
    <2>1. NodeAt(pg, x)
      BY DEF NodeAt
    <2> QED
      BY <2>1, Kinds
  <1>3. PICK n1 : n1 = below.num_pages
    OBVIOUS
  <1>4. /\ n1 \in num .. num + h + 1 /\ below.split.did_split \in BOOLEAN
        /\ below.split.did_split => n1 = num + h + 1 /\ below.split.new_page = num + h
    BY <1>3 DEF Result
  <1>5. CASE below.split.did_split = FALSE
    <2>1. o = below
      BY <1>5, AboveCounts
    <2>2. o.num_pages \in num .. num + g + 1
      BY <1>1, <1>3, <1>4, <2>1
    <2>3. \A p \in Pages(N) : p \notin Y => p \notin X
      OBVIOUS
    <2> QED
      BY <1>5, <2>1, <2>2, <2>3 DEF Result
  <1>6. CASE below.split.did_split = TRUE
    <2>1. n1 = num + h + 1 /\ below.split.new_page = num + h /\ n1 = num + g
      BY <1>1, <1>4, <1>6
    <2>2. \/ o.num_pages = n1 /\ o.split.did_split = FALSE
          \/ o.num_pages = n1 + 1 /\ o.split.did_split = TRUE /\ o.split.new_page = n1
      BY <1>3, <1>6, AboveCounts
    <2>3. /\ o.num_pages \in num .. num + g + 1
          /\ o.split.did_split \in BOOLEAN
          /\ o.split.did_split => o.num_pages = num + g + 1 /\ o.split.new_page = num + g
      <3>1. n1 \in num .. num + g + 1 /\ n1 + 1 \in num .. num + g + 1 /\ n1 + 1 = num + g + 1
        BY <1>1, <1>2, <2>1
      <3> QED
        BY <2>1, <2>2, <3>1
    <2> SUFFICES ASSUME o.num_pages <= N
          PROVE  /\ Shape(o.pg, N, V, o.num_pages, level)
                 /\ \A p \in Pages(N) : p < num =>
                       /\ IsLeaf(o.pg[p]) <=> IsLeaf(pg[p])
                       /\ IsInternal(o.pg[p]) <=> IsInternal(pg[p])
                 /\ \A p \in Pages(N) :
                       p \notin Y /\ p \notin num .. o.num_pages - 1 => o.pg[p] = pg[p]
                 /\ EntriesOf(o.pg, N) = EntriesOf(pg, N) \cup {cell}
                 /\ o.split.did_split =>
                       o.split.key \in Nat /\ NodeAt(o.pg, o.split.new_page)
      BY <2>3 DEF Result
    <2>4. n1 <= N /\ n1 \in Nat
      BY <1>1, <1>4, <2>2
    <2>5. /\ Shape(below.pg, N, V, n1, level)
          /\ below.split.key \in Nat /\ NodeAt(below.pg, below.split.new_page)
          /\ EntriesOf(below.pg, N) = EntriesOf(pg, N) \cup {cell}
      BY <1>3, <1>6, <2>4 DEF Result
    <2>6. \A p \in Pages(N) : p < num =>
             /\ IsLeaf(below.pg[p]) <=> IsLeaf(pg[p])
             /\ IsInternal(below.pg[p]) <=> IsInternal(pg[p])
      BY <1>3, <2>4 DEF Result
    <2>7. \A p \in Pages(N) :
             p \notin X /\ p \notin num .. n1 - 1 => below.pg[p] = pg[p]
      BY <1>3, <2>4 DEF Result
    <2>8. IsInternal(below.pg[x]) /\ NodeAt(below.pg, x)
      BY <1>2, <2>6 DEF NodeAt
    <2>9. below.split.new_page \in Kids(below.pg, N, level, level[x])
      <3>1. PICK c : c = below.split.new_page
        OBVIOUS
      <3>2. c \in Pages(N) /\ c >= num /\ c - num = h
        BY <1>1, <2>1, <2>4, <3>1 DEF Pages
      <3>3. level[c] = h
        BY <3>2 DEF Fresh
      <3> QED
        BY <2>5, <3>1, <3>2, <3>3 DEF Kids
    <2>10. PICK node, mid, left, right, K :
              /\ node = internal_insert(below.pg[x], below.split.key, below.split.new_page)
              /\ mid = MiddleKey(node) /\ left = LeftHalf(node, mid)
              /\ right = RightHalf(node, mid, Len(node.keys))
              /\ K = Kids(below.pg, N, level, level[x])
      OBVIOUS
    <2>11. \/ /\ One(o, below.pg, n1, x, node)
              /\ GoodInner(node, K, level[x])
           \/ /\ Two(o, below.pg, n1, x, left, right, node.keys[mid + 1])
              /\ GoodInner(left, K, level[x])
              /\ GoodInner(right, K, level[x])
              /\ node.keys[mid + 1] \in Nat
      <3>1. AboveNode(o, below, x, node, mid, left, right, K, level[x])
        BY <1>3, <1>6, <2>5, <2>8, <2>9, <2>10, AboveNodes
      <3> QED
        BY <1>3, <3>1 DEF AboveNode
    <2>12. ~IsLeaf(below.pg[x])
      BY <2>8 DEF IsLeaf, IsInternal
    <2>13. CASE /\ One(o, below.pg, n1, x, node) /\ GoodInner(node, K, level[x])
      <3>1. o.num_pages = n1 /\ o.split.did_split = FALSE
        BY <2>13 DEF One
      <3>2. IsInternal(node) /\ ~IsLeaf(node)
        BY <2>13, GoodInnerIs
      <3>3. Fits(node, below.pg, N, V, level, x)
        BY <2>10, <2>13, <3>2 DEF Fits
      <3>4. /\ Shape(o.pg, N, V, n1, level)
            /\ o.pg[x] = node /\ \A p \in Pages(N) : p # x => o.pg[p] = below.pg[p]
        BY <2>5, <2>8, <2>13, <3>3, OneShape
      <3>5. CellsAdded(below.pg, o.pg, N, {})
        <4>1. CellsAt(o.pg, x) = {} /\ CellsAt(below.pg, x) = {}
          BY <2>12, <3>2, <3>4 DEF CellsAt
        <4>2. \A p \in Pages(N) : p # x => CellsAt(o.pg, p) = CellsAt(below.pg, p)
          BY <3>4 DEF CellsAt
        <4>3. CellsCame(below.pg, o.pg, N, x, x, {})
          BY <4>1, <4>2 DEF CellsCame
        <4> QED
          BY <4>3, EntriesMoved
      <3>6. EntriesOf(o.pg, N) = EntriesOf(pg, N) \cup {cell}
        BY <2>5, <3>5 DEF CellsAdded
      <3>7. \A p \in Pages(N) : p < num =>
               /\ IsLeaf(o.pg[p]) <=> IsLeaf(pg[p])
               /\ IsInternal(o.pg[p]) <=> IsInternal(pg[p])
        BY <2>6, <2>8, <2>12, <3>2, <3>4
      <3>8. \A p \in Pages(N) : p \notin Y /\ p \notin num .. n1 - 1 => o.pg[p] = pg[p]
        BY <2>7, <3>4
      <3> QED
        BY <3>1, <3>4, <3>6, <3>7, <3>8
    <2>14. CASE /\ Two(o, below.pg, n1, x, left, right, node.keys[mid + 1])
                /\ GoodInner(left, K, level[x]) /\ GoodInner(right, K, level[x])
                /\ node.keys[mid + 1] \in Nat
      <3>0. PICK s : s = node.keys[mid + 1]
        OBVIOUS
      <3>1. /\ o.num_pages = n1 + 1 /\ o.split.did_split = TRUE
            /\ o.split.new_page = n1 /\ o.split.key = s /\ s \in Nat
        BY <2>14, <3>0 DEF Two
      <3>2. n1 + 1 <= N /\ n1 < N /\ n1 \in Pages(N) /\ n1 >= num
        BY <1>1, <2>1, <2>4, <3>1 DEF Pages
      <3>3. /\ IsInternal(left) /\ ~IsLeaf(left) /\ IsInternal(right) /\ ~IsLeaf(right)
        BY <2>14, GoodInnerIs
      <3>4. level[n1] = level[x]
        BY <1>1, <2>1, <3>2 DEF Fresh
      <3>5. Fits(left, below.pg, N, V, level, x) /\ Fits(right, below.pg, N, V, level, n1)
        BY <2>10, <2>14, <3>3, <3>4 DEF Fits
      <3>6. level[n1] + 2 <= n1 + 1
        BY <1>1, <2>1, <3>4
      <3>7. Two(o, below.pg, n1, x, left, right, s)
        BY <2>14, <3>0
      <3>8. /\ Shape(o.pg, N, V, n1 + 1, level) /\ n1 # x
            /\ o.pg[x] = left /\ o.pg[n1] = right
            /\ \A p \in Pages(N) : p # x /\ p # n1 => o.pg[p] = below.pg[p]
        BY <2>5, <2>8, <3>2, <3>5, <3>6, <3>7, TwoShape
      <3>9. CellsAdded(below.pg, o.pg, N, {})
        <4>0. ~NodeAt(below.pg, n1)
          BY <2>5, <3>2, ShapeGrow
        <4>1. /\ CellsAt(o.pg, x) = {} /\ CellsAt(below.pg, x) = {}
              /\ CellsAt(o.pg, n1) = {} /\ CellsAt(below.pg, n1) = {}
          BY <2>12, <3>3, <3>8, <4>0 DEF CellsAt, NodeAt
        <4>2. \A p \in Pages(N) : p # x /\ p # n1 => CellsAt(o.pg, p) = CellsAt(below.pg, p)
          BY <3>8 DEF CellsAt
        <4>3. CellsCame(below.pg, o.pg, N, x, n1, {})
          BY <4>1, <4>2 DEF CellsCame
        <4> QED
          BY <3>2, <4>3, EntriesMoved
      <3>10. EntriesOf(o.pg, N) = EntriesOf(pg, N) \cup {cell}
        BY <2>5, <3>9 DEF CellsAdded
      <3>11. ASSUME NEW p \in Pages(N), p < num
             PROVE  /\ IsLeaf(o.pg[p]) <=> IsLeaf(pg[p])
                    /\ IsInternal(o.pg[p]) <=> IsInternal(pg[p])
        <4>1. p # n1
          BY <1>1, <2>4, <3>2, <3>11 DEF Pages
        <4> QED
          BY <2>6, <2>8, <2>12, <3>3, <3>8, <3>11, <4>1
      <3>12. ASSUME NEW p \in Pages(N), p \notin Y, p \notin num .. (n1 + 1) - 1
             PROVE  o.pg[p] = pg[p]
        <4>1. p \notin num .. n1 - 1 /\ p # n1 /\ p # x /\ p \notin X
          BY <1>1, <2>4, <3>2, <3>12
        <4> QED
          BY <2>7, <3>8, <4>1
      <3>13. NodeAt(o.pg, n1)
        BY <3>3, <3>8 DEF NodeAt
      <3> QED
        BY <3>1, <3>8, <3>10, <3>11, <3>12, <3>13
    <2> QED
      BY <2>11, <2>13, <2>14
  <1> QED
    BY <1>4, <1>5, <1>6
=============================================================================
