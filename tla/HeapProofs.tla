----------------------------- MODULE HeapProofs ------------------------------
(***************************************************************************)
(* Lemmas about the operators of Heap, for the proofs about the tables that *)
(* are made of them.                                                       *)
(*                                                                         *)
(* Where a record starts is defined by recursion over the records.  What a *)
(* recursive function computes follows from its equation once there is a   *)
(* function that satisfies it; both are shown by induction, which the      *)
(* library's well-foundedness of < gives for any set of numbers.           *)
(***************************************************************************)
EXTENDS Heap, WellFoundedInduction, TLAPS

\* Every set of numbers has a least one.
LEMMA Least ==
    ASSUME NEW S, S \subseteq Nat, S # {}
    PROVE  \E m \in S : \A k \in S : m <= k
  <1> DEFINE R == OpToRel(<, Nat)
  <1>1. IsWellFoundedOn(R, Nat)
    BY NatLessThanWellFounded
  <1>2. \A k, m \in Nat : k < m => << k, m >> \in R
    BY DEF OpToRel
  <1> HIDE DEF R
  <1>3. PICK m \in S : \A k \in S : ~(<< k, m >> \in R)
    BY <1>1, WFMin
  <1>4. \A k \in S : m <= k
    <2> TAKE k \in S
    <2>1. k \in Nat /\ m \in Nat
      OBVIOUS
    <2>2. ~(k < m)
      BY <1>2, <1>3, <2>1
    <2> QED
      BY <2>1, <2>2
  <1> QED
    BY <1>4

\* Induction, with the set of the numbers that have the property.
LEMMA Induction ==
    ASSUME NEW S, 0 \in S, \A k \in Nat : k \in S => k + 1 \in S
    PROVE  Nat \subseteq S
  <1> DEFINE Rest == Nat \ S
  <1>1. SUFFICES ASSUME Rest # {} PROVE FALSE
    OBVIOUS
  <1>2. PICK m \in Rest : \A k \in Rest : m <= k
    <2>1. Rest \subseteq Nat
      OBVIOUS
    <2> HIDE DEF Rest
    <2> QED
      BY <1>1, <2>1, Least
  <1>3. m \in Nat /\ m # 0
    OBVIOUS
  <1>4. m - 1 \in Nat /\ m - 1 \notin Rest
    BY <1>2, <1>3
  <1>5. (m - 1) + 1 \in S
    BY <1>4
  <1> QED
    BY <1>2, <1>3, <1>5

-----------------------------------------------------------------------------
(* Where records start *)

\* f counts up from base in the steps g, as far as n of them.
Runs(f, base, g, n) ==
    /\ f \in [1 .. n + 1 -> Nat]
    /\ f[1] = base
    /\ \A j \in 1 .. n : f[j + 1] = f[j] + g[j]

LEMMA RunsExist ==
    ASSUME NEW n \in Nat, NEW base \in Nat, NEW g \in [1 .. n -> Nat]
    PROVE  \E f : Runs(f, base, g, n)
  <1> DEFINE S == {k \in Nat : k <= n => \E f : Runs(f, base, g, k)}
  <1>1. 0 \in S
    <2>1. Runs([j \in 1 .. 1 |-> base], base, g, 0)
      BY DEF Runs
    <2> QED
      BY <2>1
  <1>2. ASSUME NEW k \in Nat, k \in S PROVE k + 1 \in S
    <2>1. SUFFICES ASSUME k + 1 <= n PROVE \E f : Runs(f, base, g, k + 1)
      OBVIOUS
    <2>2. PICK f : Runs(f, base, g, k)
      BY <1>2, <2>1
    <2> DEFINE h == [j \in 1 .. k + 2 |->
                        IF j = k + 2 THEN f[k + 1] + g[k + 1] ELSE f[j]]
    <2>3. h \in [1 .. k + 2 -> Nat] /\ h[1] = base
      BY <2>1, <2>2 DEF Runs
    <2>4. \A j \in 1 .. k + 1 : h[j + 1] = h[j] + g[j]
      BY <2>1, <2>2 DEF Runs
    <2>5. k + 2 = (k + 1) + 1
      OBVIOUS
    <2> HIDE DEF h
    <2>6. Runs(h, base, g, k + 1)
      BY <2>3, <2>4, <2>5 DEF Runs
    <2> QED
      BY <2>6
  <1> HIDE DEF S
  <1>3. n \in S
    BY <1>1, <1>2, Induction
  <1> QED
    BY <1>3 DEF S

\* Records with their sizes: all that Offset looks at.
Sized(recs) ==
    /\ DOMAIN recs = 1 .. Len(recs)
    /\ Len(recs) \in Nat
    /\ \A i \in 1 .. Len(recs) : recs[i].size \in Nat

LEMMA SizedSeq ==
    ASSUME NEW R, \A r \in R : r.size \in Nat, NEW recs \in Seq(R)
    PROVE  Sized(recs)
  BY DEF Sized

SlotSizes(recs) == [i \in 1 .. Len(recs) |-> ROW_SIZE_SIZE + recs[i].size]
Starts(recs) == [i \in 1 .. Len(recs) + 1 |-> Offset(recs, i)]

LEMMA OffsetRuns ==
    ASSUME NEW recs, Sized(recs)
    PROVE  Runs(Starts(recs), USED_SIZE, SlotSizes(recs), Len(recs))
  <1> DEFINE n == Len(recs)
             Body(f) == [j \in 1 .. Len(recs) + 1 |->
                            IF j = 1 THEN USED_SIZE
                            ELSE f[j - 1] + ROW_SIZE_SIZE + recs[j - 1].size]
             start == CHOOSE f : f = Body(f)
             g == SlotSizes(recs)
  <1>1. \A i : Offset(recs, i) = start[i]
    BY DEF Offset
  <1>2. /\ n \in Nat /\ g \in [1 .. n -> Nat] /\ USED_SIZE \in Nat
        /\ \A i \in 1 .. n : g[i] = ROW_SIZE_SIZE + recs[i].size
        /\ \A i \in 1 .. n : recs[i].size \in Nat
    BY DEF Sized, ROW_SIZE_SIZE, USED_SIZE, SlotSizes
  <1> HIDE DEF n, g
  <1>3. PICK f : Runs(f, USED_SIZE, g, n)
    BY <1>2, RunsExist
  <1>4. f = Body(f)
    <2>1. ASSUME NEW j \in 1 .. n + 1, j # 1
          PROVE  f[j] = f[j - 1] + ROW_SIZE_SIZE + recs[j - 1].size
      <3>1. j - 1 \in 1 .. n /\ (j - 1) + 1 = j
        BY <1>2, <2>1
      <3>2. f[j] = f[j - 1] + g[j - 1] /\ f[j - 1] \in Nat
        BY <1>2, <1>3, <3>1 DEF Runs
      <3>3. g[j - 1] = ROW_SIZE_SIZE + recs[j - 1].size /\ recs[j - 1].size \in Nat
        BY <1>2, <3>1
      <3> QED
        BY <3>2, <3>3 DEF ROW_SIZE_SIZE
    <2> QED
      BY <1>2, <1>3, <2>1 DEF Runs, n
  <1>5. start = Body(start)
    <2> HIDE DEF Body
    <2> QED
      BY <1>4
  <1> HIDE DEF start
  <1>6. start = f
    <2> DEFINE S == {k \in Nat : k + 1 <= n + 1 => start[k + 1] = f[k + 1]}
    <2>1. 0 \in S
      BY <1>2, <1>3, <1>5 DEF Runs, n
    <2>2. ASSUME NEW k \in Nat, k \in S PROVE k + 1 \in S
      <3> SUFFICES ASSUME k + 2 <= n + 1 PROVE start[k + 2] = f[k + 2]
        OBVIOUS
      <3>1. start[k + 1] = f[k + 1]
        BY <1>2, <2>2
      <3>2. k + 2 \in 1 .. Len(recs) + 1 /\ k + 2 # 1 /\ (k + 2) - 1 = k + 1
        BY <1>2 DEF n
      <3>3. start[k + 2] = Body(start)[k + 2] /\ f[k + 2] = Body(f)[k + 2]
        BY <1>4, <1>5
      <3> QED
        BY <3>1, <3>2, <3>3
    <2> HIDE DEF S
    <2>3. Nat \subseteq S
      BY <2>1, <2>2, Induction
    <2>4. ASSUME NEW j \in 1 .. n + 1 PROVE start[j] = f[j]
      <3>1. j - 1 \in S /\ (j - 1) + 1 = j
        BY <1>2, <2>3
      <3> QED
        BY <1>2, <3>1 DEF S
    <2> QED
      BY <1>4, <1>5, <2>4 DEF n
  <1>7. Starts(recs) = f
    BY <1>1, <1>3, <1>6 DEF Starts, Runs, n
  <1> QED
    BY <1>3, <1>7 DEF n, g

\* The first record starts behind the counter, and each of the others where
\* the one before it ends.
LEMMA OffsetStep ==
    ASSUME NEW recs, Sized(recs)
    PROVE  /\ Offset(recs, 1) = USED_SIZE
           /\ \A i \in 1 .. Len(recs) + 1 : Offset(recs, i) \in Nat
           /\ \A i \in 1 .. Len(recs) :
                 Offset(recs, i + 1) =
                    Offset(recs, i) + ROW_SIZE_SIZE + recs[i].size
  <1>1. Len(recs) \in Nat
    BY DEF Sized
  <1>2. \A i \in 1 .. Len(recs) + 1 : Starts(recs)[i] = Offset(recs, i)
    BY DEF Starts
  <1>3. \A i \in 1 .. Len(recs) : SlotSizes(recs)[i] = ROW_SIZE_SIZE + recs[i].size
    BY DEF SlotSizes
  <1>4. \A i \in 1 .. Len(recs) + 1 : Offset(recs, i) \in Nat
    BY <1>1, <1>2, OffsetRuns DEF Runs
  <1>5. Offset(recs, 1) = USED_SIZE
    BY <1>1, <1>2, OffsetRuns DEF Runs
  <1>6. ASSUME NEW i \in 1 .. Len(recs)
        PROVE  Offset(recs, i + 1) = Offset(recs, i) + ROW_SIZE_SIZE + recs[i].size
    <2>1. i \in 1 .. Len(recs) + 1 /\ i + 1 \in 1 .. Len(recs) + 1
      BY <1>1
    <2>2. Starts(recs)[i + 1] = Starts(recs)[i] + SlotSizes(recs)[i]
      BY OffsetRuns DEF Runs
    <2>3. recs[i].size \in Nat /\ Offset(recs, i) \in Nat
      BY <1>4, <2>1 DEF Sized
    <2>4. /\ Starts(recs)[i] = Offset(recs, i) /\ Starts(recs)[i + 1] = Offset(recs, i + 1)
          /\ SlotSizes(recs)[i] = ROW_SIZE_SIZE + recs[i].size
      BY <1>2, <1>3, <2>1
    <2>5. Offset(recs, i + 1) = Offset(recs, i) + (ROW_SIZE_SIZE + recs[i].size)
      BY <2>2, <2>4
    <2> QED
      BY <2>3, <2>5 DEF ROW_SIZE_SIZE
  <1> QED
    BY <1>4, <1>5, <1>6

\* Where a record starts depends on the sizes of those before it only.
LEMMA OffsetSame ==
    ASSUME NEW recs, Sized(recs), NEW rs, Sized(rs),
           NEW n \in Nat, n <= Len(recs), n <= Len(rs),
           \A i \in 1 .. n : rs[i].size = recs[i].size
    PROVE  \A i \in 1 .. n + 1 : Offset(rs, i) = Offset(recs, i)
  <1> DEFINE S == {k \in Nat : k <= n => Offset(rs, k + 1) = Offset(recs, k + 1)}
  <1>0. Len(rs) \in Nat /\ Len(recs) \in Nat
    BY DEF Sized
  <1>1. 0 \in S
    BY OffsetStep
  <1>2. ASSUME NEW k \in Nat, k \in S PROVE k + 1 \in S
    <2> SUFFICES ASSUME k + 1 <= n
                 PROVE  Offset(rs, (k + 1) + 1) = Offset(recs, (k + 1) + 1)
      OBVIOUS
    <2>1. k + 1 \in 1 .. n /\ k + 1 \in 1 .. Len(rs) /\ k + 1 \in 1 .. Len(recs)
      BY <1>0
    <2>2. Offset(rs, k + 1) = Offset(recs, k + 1)
      BY <1>2, <2>1
    <2>3. Offset(rs, (k + 1) + 1) = Offset(rs, k + 1) + ROW_SIZE_SIZE + rs[k + 1].size
      BY <2>1, OffsetStep
    <2>4. Offset(recs, (k + 1) + 1) =
             Offset(recs, k + 1) + ROW_SIZE_SIZE + recs[k + 1].size
      BY <2>1, OffsetStep
    <2> QED
      BY <2>1, <2>2, <2>3, <2>4
  <1> HIDE DEF S
  <1>3. Nat \subseteq S
    BY <1>1, <1>2, Induction
  <1>4. ASSUME NEW i \in 1 .. n + 1 PROVE Offset(rs, i) = Offset(recs, i)
    <2>1. i - 1 \in S /\ (i - 1) + 1 = i /\ i - 1 <= n
      BY <1>3
    <2> QED
      BY <2>1 DEF S
  <1> QED
    BY <1>4

\* No two records start at one place.
LEMMA OffsetRises ==
    ASSUME NEW recs, Sized(recs), NEW i \in 1 .. Len(recs), NEW j \in 1 .. Len(recs),
           i < j
    PROVE  Offset(recs, i) < Offset(recs, j)
  <1> DEFINE S == {k \in Nat : i + k + 1 <= Len(recs) =>
                                  Offset(recs, i) < Offset(recs, i + k + 1)}
  <1>0. Len(recs) \in Nat
    BY DEF Sized
  <1>1. \A k \in 1 .. Len(recs) :
           /\ Offset(recs, k) \in Nat /\ Offset(recs, k + 1) \in Nat
           /\ Offset(recs, k) < Offset(recs, k + 1)
    <2> SUFFICES ASSUME NEW k \in 1 .. Len(recs)
                 PROVE  /\ Offset(recs, k) \in Nat /\ Offset(recs, k + 1) \in Nat
                        /\ Offset(recs, k) < Offset(recs, k + 1)
      OBVIOUS
    <2>1. k \in 1 .. Len(recs) + 1 /\ k + 1 \in 1 .. Len(recs) + 1
      BY <1>0
    <2>2. recs[k].size \in Nat
      BY DEF Sized
    <2>3. /\ Offset(recs, k) \in Nat /\ Offset(recs, k + 1) \in Nat
          /\ Offset(recs, k + 1) = Offset(recs, k) + ROW_SIZE_SIZE + recs[k].size
      BY <2>1, OffsetStep
    <2> QED
      BY <2>2, <2>3 DEF ROW_SIZE_SIZE
  <1>2. 0 \in S
    BY <1>1
  <1>3. ASSUME NEW k \in Nat, k \in S PROVE k + 1 \in S
    <2> SUFFICES ASSUME i + (k + 1) + 1 <= Len(recs)
                 PROVE  Offset(recs, i) < Offset(recs, i + (k + 1) + 1)
      OBVIOUS
    <2>1. PICK h : h = i + k + 1
      OBVIOUS
    <2>2. h \in 1 .. Len(recs) /\ i + (k + 1) + 1 = h + 1
      BY <1>0, <2>1
    <2>3. Offset(recs, i) < Offset(recs, h)
      BY <1>3, <2>1, <2>2
    <2>4. /\ Offset(recs, i) \in Nat /\ Offset(recs, h) \in Nat
          /\ Offset(recs, h + 1) \in Nat /\ Offset(recs, h) < Offset(recs, h + 1)
      BY <1>1, <2>2
    <2>5. Offset(recs, i) < Offset(recs, h + 1)
      BY <2>3, <2>4
    <2> QED
      BY <2>2, <2>5
  <1> HIDE DEF S
  <1>4. Nat \subseteq S
    BY <1>2, <1>3, Induction
  <1>5. PICK k : k = j - i - 1
    OBVIOUS
  <1>6. k \in Nat /\ i + k + 1 = j
    BY <1>5
  <1>7. k \in S
    BY <1>4, <1>6
  <1> QED
    BY <1>6, <1>7 DEF S

\* The counter of a page counts the records in it, and they fit.
CounterOK(pg) ==
    /\ UsedFrom(pg) = Offset(pg.recs, Len(pg.recs) + 1)
    /\ pg.used <= PAGE_SIZE

\* Changes within the records leave their counter right ...
LEMMA CounterSame ==
    ASSUME NEW pg, CounterOK(pg), Sized(pg.recs),
           NEW new, new.used = pg.used, Sized(new.recs),
           Len(new.recs) = Len(pg.recs),
           \A i \in 1 .. Len(pg.recs) : new.recs[i].size = pg.recs[i].size
    PROVE  CounterOK(new)
  <1>1. Len(pg.recs) \in Nat /\ Len(pg.recs) + 1 \in 1 .. Len(pg.recs) + 1
    BY DEF Sized
  <1>2. Offset(new.recs, Len(pg.recs) + 1) = Offset(pg.recs, Len(pg.recs) + 1)
    BY <1>1, OffsetSame
  <1> QED
    BY <1>2 DEF CounterOK, UsedFrom

\* ... and so does appending one that has room.
LEMMA CounterAppend ==
    ASSUME NEW R, \A r \in R : r.size \in Nat,
           NEW pg, CounterOK(pg), pg.recs \in Seq(R), pg.used \in Nat,
           NEW size \in Nat, NEW val, Record(val, size) \in R, HasRoom(pg, size)
    PROVE  CounterOK(AppendRow(pg, val, size))
  <1> DEFINE rec == Record(val, size)
             rs  == Append(pg.recs, rec)
             n   == Len(pg.recs)
  <1>1. /\ AppendRow(pg, val, size).recs = rs
        /\ AppendRow(pg, val, size).used = UsedFrom(pg) + ROW_SIZE_SIZE + size
        /\ rec.size = size
    BY DEF AppendRow, HeapPage, Record
  <1> HIDE DEF rec
  <1>2. /\ n \in Nat /\ rs \in Seq(R) /\ Len(rs) = n + 1
        /\ rs[n + 1] = rec
        /\ \A i \in 1 .. n : rs[i].size = pg.recs[i].size
    BY DEF rec
  <1> HIDE DEF rs, n
  <1>3. Sized(rs) /\ Sized(pg.recs)
    BY <1>2, SizedSeq
  <1>4. Offset(rs, n + 1) = Offset(pg.recs, n + 1)
    <2>1. n <= Len(rs) /\ n <= Len(pg.recs) /\ n + 1 \in 1 .. n + 1
      BY <1>2 DEF n
    <2>2. \A i \in 1 .. n + 1 : Offset(rs, i) = Offset(pg.recs, i)
      BY <1>2, <1>3, <2>1, OffsetSame
    <2> QED
      BY <2>1, <2>2
  <1>5. Offset(rs, (n + 1) + 1) = Offset(rs, n + 1) + ROW_SIZE_SIZE + rs[n + 1].size
    BY <1>2, <1>3, OffsetStep
  <1>6. Offset(rs, (n + 1) + 1) = UsedFrom(pg) + ROW_SIZE_SIZE + size
    BY <1>1, <1>2, <1>4, <1>5 DEF CounterOK, n
  <1>7. UsedFrom(pg) \in Nat
    BY DEF UsedFrom, USED_SIZE
  <1> QED
    BY <1>1, <1>2, <1>6, <1>7 DEF CounterOK, HasRoom, UsedFrom, ROW_SIZE_SIZE

\* The counter of an empty page is right, whether it was used or not.
LEMMA CounterEmpty == CounterOK(ZeroPage) /\ CounterOK(ClearedPage)
  <1>1. Sized(<< >>) /\ Len(<< >>) = 0
    BY DEF Sized
  <1>2. Offset(<< >>, 0 + 1) = USED_SIZE
    BY <1>1, OffsetStep
  <1> QED
    BY <1>1, <1>2, PageSizeAssumption
    DEF CounterOK, ZeroPage, ClearedPage, HeapPage, UsedFrom, USED_SIZE
=============================================================================
