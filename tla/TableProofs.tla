---------------------------- MODULE TableProofs -----------------------------
(***************************************************************************)
(* Proofs about Table, for pages and nodes of any size, any keys, values   *)
(* and sizes of rows, and wherever the process may die: what is promised   *)
(* of a table whose rows and index share one file.                         *)
(*                                                                         *)
(* None of the properties is inductive, and the four invariants below      *)
(* build on each other.                                                    *)
(*   - Sound holds whatever happened: every page is one of rows or a node, *)
(*     in memory and in the file; pages behind the last one in use were    *)
(*     never written; every live row is in the file, alive and with its    *)
(*     key; and a walk or the destructor is where it may be.  It speaks of *)
(*     the file because a kill makes that the new memory, and of how far   *)
(*     the destructor has come because what it has not written yet is      *)
(*     older.                                                              *)
(*   - Indexes holds until a process dies: what can be reached of the      *)
(*     index are nodes whose cells lead to rows of their keys.  Among the  *)
(*     pages are nodes that nothing leads to any more (after DELETE        *)
(*     without a condition, or a restart), so it says that a set of pages  *)
(*     exists in which all pointers of the index stay.  That its order is  *)
(*     lost when rows move does not matter to it.                          *)
(*   - Scans holds until a process dies or a leaf is emptied: no row lies  *)
(*     behind the page where a scan ends and no two live rows have one     *)
(*     key.  The first part is what makes the duplicate check see all that *)
(*     the second part is about.                                           *)
(*   - Exact holds until an update moves a row: the index is a search tree *)
(*     in order, and its entries and the live rows correspond.  It speaks  *)
(*     of a copy of the file that leaves out all pages but the tree's.     *)
(***************************************************************************)
EXTENDS Table, TreeProofs
LOCAL INSTANCE SequencesExt

-----------------------------------------------------------------------------
(* Pages of rows *)

Records == [size : Nat, live : BOOLEAN, val : RowsPossible]

RowPage(pg) ==
    /\ pg = HeapPage(pg.used, pg.recs)
    /\ pg.used \in Nat /\ (pg.used = 0 \/ pg.used >= USED_SIZE)
    /\ pg.recs \in Seq(Records)
    /\ EndOfHeap(pg) <=> pg.recs = << >>

LEMMA RecordIs ==
    ASSUME NEW rec \in Records
    PROVE  /\ rec.size \in Nat /\ rec.live \in BOOLEAN /\ rec.val \in RowsPossible
           /\ rec = [size |-> rec.size, live |-> rec.live, val |-> rec.val]
           /\ rec.val.key \in Keys /\ rec.val.val \in Values
           /\ rec.val = [key |-> rec.val.key, val |-> rec.val.val]
  BY DEF Records, RowsPossible

LEMMA RowPageIs ==
    ASSUME NEW pg, RowPage(pg)
    PROVE  /\ IsHeap(pg) /\ ~IsLeaf(pg) /\ ~IsInternal(pg) /\ ~Bare(pg)
           /\ EndsWalk(pg) <=> pg.recs = << >>
           /\ Len(pg.recs) \in Nat /\ DOMAIN pg.recs = 1 .. Len(pg.recs)
           /\ \A i \in 1 .. Len(pg.recs) : pg.recs[i] \in Records
           /\ Sized(pg.recs)
           /\ LiveIn(pg) = {i \in 1 .. Len(pg.recs) : pg.recs[i].live}
  <1>1. pg.type = "heap"
    BY DEF RowPage, HeapPage
  <1>2. IsHeap(pg) /\ ~IsLeaf(pg) /\ ~IsInternal(pg)
    BY <1>1 DEF IsHeap, IsLeaf, IsInternal
  <1>3. /\ Len(pg.recs) \in Nat /\ DOMAIN pg.recs = 1 .. Len(pg.recs)
        /\ \A i \in 1 .. Len(pg.recs) : pg.recs[i] \in Records
    BY DEF RowPage
  <1>4. Sized(pg.recs)
    BY <1>3, RecordIs DEF Sized
  <1> QED
    BY <1>2, <1>3, <1>4 DEF RowPage, Bare, EndsWalk, LiveIn

LEMMA EmptyPages ==
    /\ RowPage(ZeroPage) /\ RowPage(ClearedPage)
    /\ ZeroPage.recs = << >> /\ ClearedPage.recs = << >>
  BY DEF RowPage, ZeroPage, ClearedPage, HeapPage, EndOfHeap, USED_SIZE

\* q is pg with a row behind the others.
Extended(q, pg, row, size) ==
    /\ RowPage(q) /\ q.recs # << >>
    /\ Len(q.recs) = Len(pg.recs) + 1
    /\ \A i \in 1 .. Len(pg.recs) : q.recs[i] = pg.recs[i]
    /\ q.recs[Len(pg.recs) + 1] = Record(row, size)

LEMMA AppendedPage ==
    ASSUME NEW pg, RowPage(pg), NEW row \in RowsPossible, NEW size \in Nat, size >= 1,
           NEW q, q = AppendRow(pg, row, size)
    PROVE  Extended(q, pg, row, size)
  <1>1. Record(row, size) \in Records
    BY DEF Record, Records
  <1>2. PICK rec : rec = Record(row, size)
    OBVIOUS
  <1>3. PICK recs : recs = Append(pg.recs, rec)
    OBVIOUS
  <1>4. /\ recs \in Seq(Records) /\ Len(recs) = Len(pg.recs) + 1
        /\ \A i \in 1 .. Len(pg.recs) : recs[i] = pg.recs[i]
        /\ recs[Len(pg.recs) + 1] = rec /\ recs # << >>
    <2>1. pg.recs \in Seq(Records) /\ rec \in Records
      BY <1>1, <1>2 DEF RowPage
    <2> QED
      BY <1>3, <2>1
  <1>5. PICK used : used = UsedFrom(pg) + ROW_SIZE_SIZE + size
    OBVIOUS
  <1>6. used \in Nat /\ used > USED_SIZE
    BY <1>5 DEF RowPage, UsedFrom, ROW_SIZE_SIZE, USED_SIZE
  <1>7. q = HeapPage(used, recs)
    BY <1>2, <1>3, <1>5 DEF AppendRow
  <1>8. q.used = used /\ q.recs = recs
    BY <1>7 DEF HeapPage
  <1>9. ~EndOfHeap(q) /\ q.used >= USED_SIZE
    BY <1>6, <1>8 DEF EndOfHeap, USED_SIZE
  <1>10. RowPage(q)
    BY <1>4, <1>6, <1>7, <1>8, <1>9 DEF RowPage
  <1> QED
    BY <1>2, <1>4, <1>8, <1>10 DEF Extended

\* q is pg with another record i, of the same slot and the same key.
Altered(q, pg, i, rec) ==
    /\ RowPage(q) /\ q.used = pg.used
    /\ Len(q.recs) = Len(pg.recs)
    /\ q.recs[i] = rec
    /\ \A j \in 1 .. Len(pg.recs) : j # i => q.recs[j] = pg.recs[j]
    /\ rec.size = pg.recs[i].size /\ rec.val.key = pg.recs[i].val.key
    /\ rec.live => pg.recs[i].live

LEMMA AlteredPage ==
    ASSUME NEW pg, RowPage(pg), NEW i \in 1 .. Len(pg.recs), NEW rec \in Records,
           rec.size = pg.recs[i].size, rec.val.key = pg.recs[i].val.key,
           rec.live => pg.recs[i].live,
           NEW q, q = HeapPage(pg.used, [pg.recs EXCEPT ![i] = rec])
    PROVE  Altered(q, pg, i, rec)
  <1>1. PICK recs : recs = [pg.recs EXCEPT ![i] = rec]
    OBVIOUS
  <1>2. pg.recs \in Seq(Records) /\ Len(pg.recs) \in Nat
    BY DEF RowPage
  <1>3. /\ recs \in Seq(Records) /\ Len(recs) = Len(pg.recs) /\ recs[i] = rec
        /\ \A j \in 1 .. Len(pg.recs) : j # i => recs[j] = pg.recs[j]
    BY <1>1, <1>2
  <1>4. q.used = pg.used /\ q.recs = recs /\ q = HeapPage(q.used, q.recs)
    BY <1>1 DEF HeapPage
  <1>5. recs # << >> /\ pg.recs # << >>
    BY <1>2, <1>3
  <1>6. RowPage(q)
    BY <1>3, <1>4, <1>5 DEF RowPage, EndOfHeap
  <1> QED
    BY <1>3, <1>4, <1>6 DEF Altered

LEMMA TombstonePage ==
    ASSUME NEW pg, RowPage(pg), NEW i \in 1 .. Len(pg.recs),
           NEW q, q = Tombstone(pg, i)
    PROVE  Altered(q, pg, i, [pg.recs[i] EXCEPT !.live = FALSE])
  <1>1. PICK rec : rec = [pg.recs[i] EXCEPT !.live = FALSE]
    OBVIOUS
  <1>2. pg.recs[i] \in Records
    BY RowPageIs
  <1>3. /\ rec \in Records /\ rec.size = pg.recs[i].size /\ rec.val = pg.recs[i].val
        /\ rec.live = FALSE
    BY <1>1, <1>2 DEF Records
  <1>4. q = HeapPage(pg.used, [pg.recs EXCEPT ![i] = rec])
    <2>1. PICK used, recs : used = pg.used /\ recs = pg.recs
      OBVIOUS
    <2>2. pg = [type |-> "heap", used |-> used, recs |-> recs]
      BY <2>1 DEF RowPage, HeapPage
    <2>3. q = [pg EXCEPT !.recs = [recs EXCEPT ![i] = rec]]
      BY <1>1, <2>1 DEF Tombstone
    <2>4. q = [type |-> "heap", used |-> used, recs |-> [recs EXCEPT ![i] = rec]]
      BY <2>2, <2>3
    <2> QED
      BY <2>1, <2>4 DEF HeapPage
  <1> QED
    BY <1>1, <1>3, <1>4, AlteredPage

LEMMA RewritePage ==
    ASSUME NEW pg, RowPage(pg), NEW i \in 1 .. Len(pg.recs), NEW row \in RowsPossible,
           row.key = pg.recs[i].val.key,
           NEW q, q = Rewrite(pg, i, row)
    PROVE  Altered(q, pg, i, [pg.recs[i] EXCEPT !.val = row])
  <1>1. PICK rec : rec = [pg.recs[i] EXCEPT !.val = row]
    OBVIOUS
  <1>2. pg.recs[i] \in Records
    BY RowPageIs
  <1>3. /\ rec \in Records /\ rec.size = pg.recs[i].size /\ rec.val = row
        /\ rec.live = pg.recs[i].live
    BY <1>1, <1>2 DEF Records
  <1>4. q = HeapPage(pg.used, [pg.recs EXCEPT ![i] = rec])
    <2>1. PICK used, recs : used = pg.used /\ recs = pg.recs
      OBVIOUS
    <2>2. pg = [type |-> "heap", used |-> used, recs |-> recs]
      BY <2>1 DEF RowPage, HeapPage
    <2>3. q = [pg EXCEPT !.recs = [recs EXCEPT ![i] = rec]]
      BY <1>1, <2>1 DEF Rewrite
    <2>4. q = [type |-> "heap", used |-> used, recs |-> [recs EXCEPT ![i] = rec]]
      BY <2>2, <2>3
    <2> QED
      BY <2>1, <2>4 DEF HeapPage
  <1> QED
    BY <1>1, <1>3, <1>4, AlteredPage

-----------------------------------------------------------------------------
(* The file as the process sees it and as it is on disk *)

RowPointers == [page : HeapPages, offset : Nat]
IndexCells == Cell(RowPointers)

\* Every page is one of rows or a node; page 0 was never written.
PagesOK(pg) ==
    /\ pg = [p \in PageNums |-> pg[p]]
    /\ pg[0] = ZeroPage
    /\ \A p \in PageNums : RowPage(pg[p]) \/ NetNode(pg[p], PageNums, IndexCells)

Nodes(pg) == {p \in PageNums : NodeAt(pg, p)}

\* A live row is in the file, alive and with the same key.
RowsBacked(m, d) ==
    \A p \in HeapPages : IsHeap(m[p]) =>
        \A i \in LiveIn(m[p]) :
            /\ IsHeap(d[p]) /\ i \in LiveIn(d[p])
            /\ d[p].recs[i].val.key = m[p].recs[i].val.key

\* m are the pages in memory, of which n are in use, with the root at page r; d
\* are those in the file, which is len pages long.
Files(m, n, r, d, len) ==
    /\ PagesOK(m) /\ PagesOK(d)
    /\ IsLeaf(m[ROOT_PAGE]) /\ r \in Nodes(m)
    /\ n \in ROW_START_PAGE .. TABLE_MAX_PAGES /\ len \in 1 .. n
    /\ \A p \in PageNums : p >= n => m[p] = ZeroPage
    /\ \A p \in PageNums : p >= len => d[p] = ZeroPage
    /\ RowsBacked(m, d)

LEMMA PageRange ==
    /\ PageNums = Pages(TABLE_MAX_PAGES) /\ TABLE_MAX_PAGES \in Nat
    /\ TABLE_MAX_PAGES > 2 /\ ROW_START_PAGE = 2 /\ ROOT_PAGE = 1
    /\ HeapPages \subseteq PageNums
    /\ \A p : p \in HeapPages <=> p \in PageNums /\ p # 0 /\ p # 1
    /\ \A p \in PageNums : p \in Nat /\ p < TABLE_MAX_PAGES
    /\ 0 \in PageNums /\ 1 \in PageNums /\ 0 \notin HeapPages /\ 1 \notin HeapPages
  BY TableAssumption DEF PageNums, Pages, HeapPages, ROW_START_PAGE, ROOT_PAGE

LEMMA PageKinds ==
    ASSUME NEW pg, PagesOK(pg), NEW p \in PageNums
    PROVE  /\ IsHeap(pg[p]) <=> RowPage(pg[p])
           /\ IsHeap(pg[p]) <=> ~NodeAt(pg, p)
           /\ NodeAt(pg, p) <=> NetNode(pg[p], PageNums, IndexCells)
           /\ p \in Nodes(pg) <=> NodeAt(pg, p)
           /\ p = 0 => IsHeap(pg[p])
           /\ EmptyLeaf(pg[p]) <=> Bare(pg[p])
  <1>1. CASE RowPage(pg[p])
    <2>1. IsHeap(pg[p]) /\ ~IsLeaf(pg[p]) /\ ~IsInternal(pg[p])
      BY <1>1, RowPageIs
    <2>2. ~NetNode(pg[p], PageNums, IndexCells)
      BY <2>1, NetNodeIs
    <2> QED
      BY <1>1, <2>1, <2>2 DEF NodeAt, Nodes, EmptyLeaf, Bare
  <1>2. CASE NetNode(pg[p], PageNums, IndexCells)
    <2>1. IsLeaf(pg[p]) \/ IsInternal(pg[p])
      BY <1>2, NetNodeIs
    <2>2. ~IsHeap(pg[p])
      BY <2>1 DEF IsHeap, IsLeaf, IsInternal
    <2>3. ~RowPage(pg[p])
      BY <2>2, RowPageIs
    <2>4. p # 0
      BY <2>3, EmptyPages DEF PagesOK
    <2> QED
      BY <1>2, <2>1, <2>2, <2>3, <2>4 DEF NodeAt, Nodes, EmptyLeaf, Bare
  <1> QED
    BY <1>1, <1>2 DEF PagesOK

\* All nodes together are a net, whatever page a pointer of theirs leads to.
LEMMA AllNodes ==
    ASSUME NEW pg, PagesOK(pg)
    PROVE  Net(pg, TABLE_MAX_PAGES, Nodes(pg), PageNums, IndexCells)
  <1>1. \A p \in Nodes(pg) : NetNode(pg[p], PageNums, IndexCells)
    BY PageKinds DEF Nodes
  <1>2. \A p \in PageNums : NodeAt(pg, p) => p \in Nodes(pg)
    BY DEF Nodes
  <1>3. Nodes(pg) \subseteq PageNums
    BY DEF Nodes
  <1> QED
    BY <1>1, <1>2, <1>3, PageRange DEF Net, PagesOK

\* No page but p differs.
SameBut(t, m, p) == \A x \in PageNums : x # p => t[x] = m[x]

LEMMA FilesRestart ==
    ASSUME NEW d, PagesOK(d), NEW len \in 1 .. TABLE_MAX_PAGES,
           \A p \in PageNums : p >= len => d[p] = ZeroPage,
           NEW m, m = [d EXCEPT ![ROOT_PAGE] = IF IsLeaf(@) THEN @ ELSE initialize_leaf_node],
           NEW n, n = Larger(ROW_START_PAGE, len)
    PROVE  /\ Files(m, n, ROOT_PAGE, d, len)
           /\ SameBut(m, d, ROOT_PAGE)
           /\ IsLeaf(d[ROOT_PAGE]) => m = d
  <1>1. PICK node : node = IF IsLeaf(d[1]) THEN d[1] ELSE initialize_leaf_node
    OBVIOUS
  <1>2. /\ m = [p \in PageNums |-> m[p]] /\ m[1] = node
        /\ \A p \in PageNums : p # 1 => m[p] = d[p]
        /\ IsLeaf(d[1]) => m = d
    BY <1>1, PageRange DEF PagesOK
  <1>3. IsLeaf(node) /\ NetNode(node, PageNums, IndexCells)
    <2>1. CASE IsLeaf(d[1])
      <3>1. NodeAt(d, 1)
        BY <2>1 DEF NodeAt
      <3> QED
        BY <1>1, <2>1, <3>1, PageKinds, PageRange
    <2>2. CASE ~IsLeaf(d[1])
      <3>1. node = Leaf(<< >>, 0)
        BY <1>1, <2>2 DEF initialize_leaf_node
      <3>2. << >> \in Seq(IndexCells)
        OBVIOUS
      <3> QED
        BY <3>1, <3>2, NetLeaf, PageRange
    <2> QED
      BY <2>1, <2>2
  <1>4. PagesOK(m)
    BY <1>2, <1>3, PageRange DEF PagesOK
  <1>5. 1 \in Nodes(m)
    BY <1>2, <1>3, PageRange DEF Nodes, NodeAt
  <1>6. n \in 2 .. TABLE_MAX_PAGES /\ len \in 1 .. n /\ n >= len /\ n >= 2
    BY PageRange DEF Larger
  <1>7. \A p \in PageNums : p >= n => m[p] = ZeroPage
    <2> TAKE p \in PageNums
    <2>1. p >= n => p >= len /\ p # 1
      BY <1>6, PageRange
    <2> QED
      BY <1>2, <2>1
  <1>8. RowsBacked(m, d)
    BY <1>2, PageRange DEF RowsBacked
  <1> QED
    BY <1>2, <1>3, <1>4, <1>5, <1>6, <1>7, <1>8, PageRange DEF Files, SameBut

\* The pages in use once page p is.
Reach(n, p) == Larger(n, p + 1)

LEMMA FilesTouch ==
    ASSUME NEW m, NEW n, NEW r, NEW d, NEW len, Files(m, n, r, d, len),
           NEW e \in HeapPages, NEW k, k = Reach(n, e)
    PROVE  /\ Files(m, k, r, d, len)
           /\ k \in Nat /\ n <= k /\ e < k
  <1>1. k \in ROW_START_PAGE .. TABLE_MAX_PAGES /\ n <= k /\ n \in Nat /\ k \in Nat /\ e < k
    BY PageRange DEF Files, Reach, Larger, HeapPages
  <1>2. len \in 1 .. k
    BY <1>1 DEF Files
  <1>3. \A p \in PageNums : p >= k => m[p] = ZeroPage
    <2> TAKE p \in PageNums
    <2>1. p >= k => p >= n
      BY <1>1, PageRange
    <2> QED
      BY <2>1 DEF Files
  <1> QED
    BY <1>1, <1>2, <1>3 DEF Files

\* A page is put into memory or into the file.
LEMMA PutPage ==
    ASSUME NEW d, PagesOK(d), NEW p \in PageNums, p # 0, NEW q,
           RowPage(q) \/ NetNode(q, PageNums, IndexCells), NEW e, e = Put(d, p, q)
    PROVE  /\ PagesOK(e) /\ e = [x \in PageNums |-> e[x]] /\ e[p] = q
           /\ \A x \in PageNums : x # p => e[x] = d[x]
  <1>1. /\ e = [x \in PageNums |-> e[x]] /\ e[p] = q
        /\ \A x \in PageNums : x # p => e[x] = d[x]
    BY PutIs DEF PagesOK
  <1>2. e[0] = ZeroPage
    BY <1>1, PageRange DEF PagesOK
  <1>3. ASSUME NEW x \in PageNums
        PROVE  RowPage(e[x]) \/ NetNode(e[x], PageNums, IndexCells)
    <2>1. CASE x = p
      BY <1>1, <2>1
    <2>2. CASE x # p
      <3>1. e[x] = d[x]
        BY <1>1, <2>2
      <3> QED
        BY <3>1 DEF PagesOK
    <2> QED
      BY <2>1, <2>2
  <1> QED
    BY <1>1, <1>2, <1>3 DEF PagesOK

\* A page of rows is written in memory.
LEMMA RowsPut ==
    ASSUME NEW m, PagesOK(m), NEW p \in HeapPages, IsHeap(m[p]), NEW q, RowPage(q),
           NEW t, t = Put(m, p, q)
    PROVE  /\ PagesOK(t) /\ SameNodes(t, m, TABLE_MAX_PAGES) /\ Nodes(t) = Nodes(m)
           /\ t[p] = q /\ \A x \in PageNums : x # p => t[x] = m[x]
           /\ t[ROOT_PAGE] = m[ROOT_PAGE]
  <1>1. p \in PageNums /\ p # 0 /\ p # 1
    BY PageRange
  <1>2. /\ t = [x \in PageNums |-> t[x]] /\ t[p] = q
        /\ \A x \in PageNums : x # p => t[x] = m[x]
    BY <1>1, PutIs DEF PagesOK
  <1>3. PagesOK(t)
    BY <1>1, <1>2, PageRange DEF PagesOK
  <1>4. ~NodeAt(t, p) /\ ~NodeAt(m, p)
    BY <1>1, <1>2, <1>3, PageKinds
  <1>5. SameNodes(t, m, TABLE_MAX_PAGES)
    BY <1>2, <1>4, PageRange DEF SameNodes
  <1>6. \A x \in PageNums : NodeAt(t, x) <=> NodeAt(m, x)
    BY <1>2, <1>4 DEF NodeAt
  <1>7. Nodes(t) = Nodes(m)
    BY <1>6 DEF Nodes
  <1> QED
    BY <1>1, <1>2, <1>3, <1>5, <1>7, PageRange

\* A row is given up or written again, in memory.
LEMMA FilesAlter ==
    ASSUME NEW m, NEW n, NEW r, NEW d, NEW len, Files(m, n, r, d, len),
           NEW p \in HeapPages, IsHeap(m[p]), NEW i \in 1 .. Len(m[p].recs),
           NEW rec, NEW q, Altered(q, m[p], i, rec),
           NEW t, t = Put(m, p, q)
    PROVE  Files(t, n, r, d, len) /\ SameNodes(t, m, TABLE_MAX_PAGES)
  <1>1. /\ PagesOK(m) /\ RowPage(m[p]) /\ p \in PageNums /\ RowPage(q)
        /\ Len(m[p].recs) \in Nat
    BY PageKinds, PageRange, RowPageIs DEF Files, Altered
  <1>2. /\ PagesOK(t) /\ SameNodes(t, m, TABLE_MAX_PAGES) /\ Nodes(t) = Nodes(m)
        /\ t[p] = q /\ \A x \in PageNums : x # p => t[x] = m[x]
        /\ t[ROOT_PAGE] = m[ROOT_PAGE]
    BY <1>1, RowsPut
  <1>3. ~(p >= n)
    <2>1. m[p] # ZeroPage
      BY <1>1, EmptyPages
    <2> QED
      BY <1>1, <2>1 DEF Files
  <1>4. \A x \in PageNums : x >= n => t[x] = ZeroPage
    BY <1>2, <1>3 DEF Files
  <1>5. RowsBacked(t, d)
    <2> SUFFICES ASSUME NEW x \in HeapPages, IsHeap(t[x]), NEW j \in LiveIn(t[x])
                 PROVE  /\ IsHeap(d[x]) /\ j \in LiveIn(d[x])
                        /\ d[x].recs[j].val.key = t[x].recs[j].val.key
      BY DEF RowsBacked
    <2>1. CASE x # p
      BY <1>2, <2>1, PageRange DEF Files, RowsBacked
    <2>2. CASE x = p
      <3>1. LiveIn(q) = {k \in 1 .. Len(q.recs) : q.recs[k].live}
        BY <1>1, RowPageIs
      <3>2. LiveIn(m[p]) = {k \in 1 .. Len(m[p].recs) : m[p].recs[k].live}
        BY <1>1, RowPageIs
      <3>3. j \in LiveIn(m[p]) /\ q.recs[j].val.key = m[p].recs[j].val.key
        BY <1>2, <2>2, <3>1, <3>2 DEF Altered
      <3> QED
        BY <1>2, <2>2, <3>3 DEF Files, RowsBacked
    <2> QED
      BY <2>1, <2>2
  <1> QED
    BY <1>2, <1>4, <1>5 DEF Files

\* Page p of the memory is written to the file.
LEMMA FilesFlush ==
    ASSUME NEW m, NEW n, NEW r, NEW d, NEW len, Files(m, n, r, d, len),
           NEW p \in PageNums, p # 0, p < n,
           NEW e, e = Put(d, p, m[p]), NEW k, k = Reach(len, p)
    PROVE  /\ Files(m, n, r, e, k) /\ e[p] = m[p]
           /\ \A x \in PageNums : x # p => e[x] = d[x]
  <1>1. /\ PagesOK(e) /\ e = [x \in PageNums |-> e[x]] /\ e[p] = m[p]
        /\ \A x \in PageNums : x # p => e[x] = d[x]
    <2>1. PagesOK(d)
      BY DEF Files
    <2>2. RowPage(m[p]) \/ NetNode(m[p], PageNums, IndexCells)
      BY DEF Files, PagesOK
    <2> QED
      BY <2>1, <2>2, PutPage
  <1>2. PagesOK(e)
    BY <1>1
  <1>3. k \in 1 .. n /\ k >= len /\ k >= p + 1 /\ k \in Nat /\ len \in Nat
    BY PageRange DEF Files, Reach, Larger
  <1>4. \A x \in PageNums : x >= k => e[x] = ZeroPage
    <2> TAKE x \in PageNums
    <2>1. x >= k => x >= len /\ x # p
      BY <1>3, PageRange
    <2> QED
      BY <1>1, <2>1 DEF Files
  <1>5. RowsBacked(m, e)
    <2> SUFFICES ASSUME NEW x \in HeapPages, IsHeap(m[x]), NEW j \in LiveIn(m[x])
                 PROVE  /\ IsHeap(e[x]) /\ j \in LiveIn(e[x])
                        /\ e[x].recs[j].val.key = m[x].recs[j].val.key
      BY DEF RowsBacked
    <2>1. CASE x # p
      BY <1>1, <2>1, PageRange DEF Files, RowsBacked
    <2>2. CASE x = p
      BY <1>1, <2>2
    <2> QED
      BY <2>1, <2>2
  <1> QED
    BY <1>1, <1>2, <1>3, <1>4, <1>5 DEF Files

\* A row comes to the end of page p, in memory and in the file.
LEMMA FilesStore ==
    ASSUME NEW m, NEW n, NEW r, NEW d, NEW len, Files(m, n, r, d, len),
           NEW p \in HeapPages, IsHeap(m[p]), p < n,
           NEW row, NEW size, NEW q, Extended(q, m[p], row, size),
           NEW t, t = Put(m, p, q),
           NEW e, e = Put(d, p, q), NEW k, k = Reach(len, p)
    PROVE  /\ Files(t, n, r, e, k) /\ SameNodes(t, m, TABLE_MAX_PAGES)
           /\ t[p] = q /\ SameBut(t, m, p)
  <1>1. /\ PagesOK(m) /\ p \in PageNums /\ RowPage(q)
        /\ p # 0 /\ p # 1 /\ d = [x \in PageNums |-> d[x]] /\ PagesOK(d)
    BY PageRange DEF Files, PagesOK, Extended
  <1>2. /\ PagesOK(t) /\ SameNodes(t, m, TABLE_MAX_PAGES) /\ Nodes(t) = Nodes(m)
        /\ t[p] = q /\ \A x \in PageNums : x # p => t[x] = m[x]
        /\ t[ROOT_PAGE] = m[ROOT_PAGE]
    BY <1>1, RowsPut
  <1>3. /\ PagesOK(e) /\ e = [x \in PageNums |-> e[x]] /\ e[p] = q
        /\ \A x \in PageNums : x # p => e[x] = d[x]
    BY <1>1, PutPage
  <1>4. PagesOK(e)
    BY <1>3
  <1>5. k \in 1 .. n /\ k >= len /\ k >= p + 1 /\ k \in Nat /\ len \in Nat /\ n \in Nat
    BY <1>1, PageRange DEF Files, Reach, Larger
  <1>6. \A x \in PageNums : x >= k => e[x] = ZeroPage
    <2> TAKE x \in PageNums
    <2>1. x >= k => x >= len /\ x # p
      BY <1>1, <1>5, PageRange
    <2> QED
      BY <1>3, <2>1 DEF Files
  <1>7. \A x \in PageNums : x >= n => t[x] = ZeroPage
    <2> TAKE x \in PageNums
    <2>1. x >= n => x # p
      BY <1>1, <1>5, PageRange
    <2> QED
      BY <1>2, <2>1 DEF Files
  <1>8. RowsBacked(t, e)
    <2> SUFFICES ASSUME NEW x \in HeapPages, IsHeap(t[x]), NEW j \in LiveIn(t[x])
                 PROVE  /\ IsHeap(e[x]) /\ j \in LiveIn(e[x])
                        /\ e[x].recs[j].val.key = t[x].recs[j].val.key
      BY DEF RowsBacked
    <2>1. CASE x # p
      BY <1>2, <1>3, <2>1, PageRange DEF Files, RowsBacked
    <2>2. CASE x = p
      BY <1>2, <1>3, <2>2
    <2> QED
      BY <2>1, <2>2
  <1> QED
    BY <1>2, <1>3, <1>4, <1>5, <1>6, <1>7, <1>8 DEF Files, SameBut

\* No page of rows of m was written by an insertion into the index, except for
\* unused ones, which became nodes; and no leaf was emptied.
Indexed(t, k, m, n) ==
    /\ n <= k
    /\ \A p \in PageNums : t[p] = m[p] \/ (NodeAt(t, p) /\ (NodeAt(m, p) \/ p >= n))
    /\ \A p \in PageNums : EmptyLeaf(t[p]) => EmptyLeaf(m[p])

LEMMA FilesIndex ==
    ASSUME NEW m, NEW n, NEW r, NEW d, NEW len, Files(m, n, r, d, len),
           NEW key \in Nat, NEW value \in RowPointers, DescentDefined(m, r, key),
           NEW new, new = index_insert(m, n, r, key, value),
           new.num_pages <= TABLE_MAX_PAGES
    PROVE  /\ Files(new.pg, new.num_pages, new.root_page, d, len)
           /\ Indexed(new.pg, new.num_pages, m, n)
  <1>1. PICK N, T, P, G : /\ N = TABLE_MAX_PAGES /\ T = Nodes(m) /\ P = PageNums
                          /\ G = IndexCells
    OBVIOUS
  <1>2. /\ Net(m, N, T, P, G) /\ PagesOK(m) /\ N \in Nat /\ n \in 2 .. N /\ n \in Nat
        /\ Pages(N) = PageNums /\ T \subseteq PageNums
    BY <1>1, AllNodes, PageRange DEF Files, Nodes
  <1>3. InUse(T, N, n)
    <2>1. ASSUME NEW p \in T PROVE p \in 0 .. n - 1
      <3>1. p \in PageNums /\ NodeAt(m, p) /\ p \in Nat
        BY <1>1, <2>1, PageRange DEF Nodes
      <3>2. ~(p >= n)
        <4>1. m[p] # ZeroPage
          BY <1>2, <3>1, PageKinds, EmptyPages
        <4> QED
          BY <3>1, <4>1 DEF Files
      <3> QED
        BY <1>2, <3>1, <3>2
    <2> QED
      BY <1>2, <2>1 DEF InUse
  <1>4. PICK k, t, root : k = new.num_pages /\ t = new.pg /\ root = new.root_page
    OBVIOUS
  <1>5. /\ k \in Nat /\ n <= k /\ k <= N
        /\ Rewoven(t, k, m, N, T, P, G, n)
        /\ root = r \/ root \in n .. k - 1
    <2>1. r \in T
      BY <1>1 DEF Files
    <2>2. G \subseteq Cell(RowPointers) /\ CellOf(key, value) \in G
      BY <1>1 DEF IndexCells, Cell, CellOf
    <2>3. NetGrew(new, m, N, T, P, G, n, r)
      BY <1>2, <1>3, <2>1, <2>2, NetInsert
    <2> QED
      BY <1>1, <1>4, <2>3 DEF NetGrew
  <1>6. PICK fresh : fresh = n .. k - 1
    OBVIOUS
  <1>7. fresh \subseteq PageNums /\ P \cup fresh = PageNums
    BY <1>1, <1>2, <1>5, <1>6, PageRange DEF PageNums
  <1>8. Net(t, N, T \cup fresh, PageNums, G)
    BY <1>5, <1>6, <1>7 DEF Rewoven
  <1>9. ASSUME NEW p \in T \cup fresh
        PROVE  p \in PageNums /\ NetNode(t[p], PageNums, IndexCells) /\ NodeAt(t, p)
    <2>1. NetNode(t[p], PageNums, IndexCells)
      BY <1>1, <1>8, <1>9 DEF Net
    <2> QED
      BY <1>2, <1>7, <2>1, NetNodeIs DEF NodeAt
  <1>10. ASSUME NEW p \in PageNums, p \notin T \cup fresh
         PROVE  t[p] = m[p]
    BY <1>2, <1>5, <1>6, <1>10 DEF Rewoven
  <1>11. 0 \notin T \cup fresh
    <2>1. 0 \notin T
      BY <1>1, <1>2, PageKinds, PageRange
    <2> QED
      BY <1>2, <1>6, <2>1
  <1>12. PagesOK(t)
    <2>1. t = [p \in PageNums |-> t[p]]
      BY <1>2, <1>8 DEF Net
    <2>2. t[0] = ZeroPage
      BY <1>2, <1>10, <1>11, PageRange DEF PagesOK
    <2>3. ASSUME NEW p \in PageNums
          PROVE  RowPage(t[p]) \/ NetNode(t[p], PageNums, IndexCells)
      <3>1. CASE p \in T \cup fresh
        BY <1>9, <3>1
      <3>2. CASE p \notin T \cup fresh
        <4>1. t[p] = m[p]
          BY <1>10, <3>2
        <4> QED
          BY <1>2, <4>1 DEF PagesOK
      <3> QED
        BY <3>1, <3>2
    <2> QED
      BY <2>1, <2>2, <2>3 DEF PagesOK
  <1>13. IsLeaf(t[1])
    <2>1. 1 \in T /\ IsLeaf(m[1])
      BY <1>1, PageRange DEF Files, Nodes, NodeAt
    <2> QED
      BY <1>5, <2>1 DEF Rewoven
  <1>14. root \in Nodes(t)
    <2>1. root \in T \cup fresh
      BY <1>1, <1>5, <1>6 DEF Files
    <2> QED
      BY <1>9, <2>1 DEF Nodes
  <1>15. ASSUME NEW p \in PageNums
         PROVE  t[p] = m[p] \/ (NodeAt(t, p) /\ (NodeAt(m, p) \/ p >= n))
    <2>1. CASE p \in T
      BY <1>1, <1>9, <2>1 DEF Nodes
    <2>2. CASE p \in fresh
      <3>1. p >= n
        BY <1>2, <1>5, <1>6, <2>2
      <3> QED
        BY <1>9, <2>2, <3>1
    <2> QED
      BY <1>10, <2>1, <2>2
  <1>16. \A p \in PageNums : EmptyLeaf(t[p]) => EmptyLeaf(m[p])
    BY <1>2, <1>5 DEF Rewoven, Bare, EmptyLeaf
  <1>17. \A p \in PageNums : p >= k => t[p] = ZeroPage
    <2> SUFFICES ASSUME NEW p \in PageNums, p >= k PROVE t[p] = ZeroPage
      OBVIOUS
    <2>1. p >= n /\ p \notin fresh /\ ~(p \in 0 .. n - 1)
      BY <1>2, <1>5, <1>6, PageRange
    <2>2. p \notin T
      BY <1>3, <2>1 DEF InUse
    <2> QED
      BY <1>10, <2>1, <2>2 DEF Files
  <1>18. RowsBacked(t, d)
    <2> SUFFICES ASSUME NEW p \in HeapPages, IsHeap(t[p]), NEW j \in LiveIn(t[p])
                 PROVE  /\ IsHeap(d[p]) /\ j \in LiveIn(d[p])
                        /\ d[p].recs[j].val.key = t[p].recs[j].val.key
      BY DEF RowsBacked
    <2>1. p \in PageNums
      BY PageRange
    <2>2. ~NodeAt(t, p)
      BY <1>12, <2>1, PageKinds
    <2>3. t[p] = m[p]
      BY <1>15, <2>1, <2>2
    <2> QED
      BY <2>3 DEF Files, RowsBacked
  <1>19. k \in ROW_START_PAGE .. TABLE_MAX_PAGES /\ len \in 1 .. k
    BY <1>1, <1>2, <1>5, PageRange DEF Files
  <1>20. Files(t, k, root, d, len)
    BY <1>12, <1>13, <1>14, <1>17, <1>18, <1>19, PageRange DEF Files
  <1> QED
    BY <1>4, <1>5, <1>15, <1>16, <1>20 DEF Indexed

\* No page of rows was written by a deletion from the index.
LEMMA FilesDelete ==
    ASSUME NEW m, NEW n, NEW r, NEW d, NEW len, Files(m, n, r, d, len),
           NEW key, DescentDefined(m, r, key),
           NEW t, t = delete_from_index(m, r, key)
    PROVE  /\ Files(t, n, r, d, len)
           /\ \A p \in PageNums : t[p] = m[p] \/ (NodeAt(t, p) /\ NodeAt(m, p))
  <1>1. PICK N, T, P, G : /\ N = TABLE_MAX_PAGES /\ T = Nodes(m) /\ P = PageNums
                          /\ G = IndexCells
    OBVIOUS
  <1>2. /\ Net(m, N, T, P, G) /\ PagesOK(m) /\ Pages(N) = PageNums /\ r \in T
        /\ G \subseteq Cell(RowPointers)
    BY <1>1, AllNodes, PageRange DEF Files, IndexCells
  <1>3. NetCut(t, m, N, T, P, G)
    BY <1>2, NetDelete
  <1>4. PICK x \in T : /\ IsLeaf(m[x]) /\ IsLeaf(t[x])
                       /\ \A p \in PageNums : p # x => t[p] = m[p]
    BY <1>2, <1>3 DEF NetCut
  <1>5. /\ Net(t, N, T, P, G) /\ x \in PageNums /\ NodeAt(t, x) /\ NodeAt(m, x)
    BY <1>1, <1>3, <1>4 DEF NetCut, Nodes, NodeAt
  <1>6. x # 0
    BY <1>2, <1>5, PageKinds
  <1>7. PagesOK(t)
    <2>1. t = [p \in PageNums |-> t[p]] /\ NetNode(t[x], PageNums, IndexCells)
      BY <1>1, <1>2, <1>4, <1>5 DEF Net
    <2>2. t[0] = ZeroPage
      BY <1>2, <1>4, <1>6, PageRange DEF PagesOK
    <2>3. ASSUME NEW p \in PageNums
          PROVE  RowPage(t[p]) \/ NetNode(t[p], PageNums, IndexCells)
      <3>1. CASE p = x
        BY <2>1, <3>1
      <3>2. CASE p # x
        <4>1. t[p] = m[p]
          BY <1>4, <3>2
        <4> QED
          BY <1>2, <4>1 DEF PagesOK
      <3> QED
        BY <3>1, <3>2
    <2> QED
      BY <2>1, <2>2, <2>3 DEF PagesOK
  <1>8. \A p \in PageNums : t[p] = m[p] \/ (NodeAt(t, p) /\ NodeAt(m, p))
    BY <1>4, <1>5
  <1>9. \A p \in PageNums : NodeAt(m, p) => NodeAt(t, p)
    BY <1>4, <1>5 DEF NodeAt
  <1>10. \A p \in PageNums : p >= n => t[p] = ZeroPage
    <2> SUFFICES ASSUME NEW p \in PageNums, p >= n PROVE t[p] = ZeroPage
      OBVIOUS
    <2>1. m[p] = ZeroPage
      BY DEF Files
    <2>2. ~NodeAt(m, p)
      BY <1>2, <2>1, EmptyPages, PageKinds
    <2> QED
      BY <1>8, <2>1, <2>2
  <1>11. IsLeaf(t[ROOT_PAGE])
    <2>1. IsLeaf(m[1]) /\ 1 \in PageNums
      BY PageRange DEF Files
    <2> QED
      BY <1>4, <2>1, PageRange
  <1>12. r \in Nodes(t)
    BY <1>1, <1>2, <1>9 DEF Nodes
  <1>13. RowsBacked(t, d)
    <2> SUFFICES ASSUME NEW p \in HeapPages, IsHeap(t[p]), NEW j \in LiveIn(t[p])
                 PROVE  /\ IsHeap(d[p]) /\ j \in LiveIn(d[p])
                        /\ d[p].recs[j].val.key = t[p].recs[j].val.key
      BY DEF RowsBacked
    <2>1. p \in PageNums
      BY PageRange
    <2>2. ~NodeAt(t, p)
      BY <1>7, <2>1, PageKinds
    <2>3. t[p] = m[p]
      BY <1>8, <2>1, <2>2
    <2> QED
      BY <2>3 DEF Files, RowsBacked
  <1> QED
    BY <1>7, <1>8, <1>10, <1>11, <1>12, <1>13 DEF Files

\* DELETE without a condition clears the pages up to e.
LEMMA FilesClear ==
    ASSUME NEW m, NEW n, NEW r, NEW d, NEW len, Files(m, n, r, d, len),
           NEW e \in HeapPages, NEW k, k = Reach(n, e),
           NEW t, t = [p \in PageNums |-> IF p = ROOT_PAGE THEN initialize_leaf_node
                                          ELSE IF p \in HeapPages /\ p < e THEN ClearedPage
                                          ELSE m[p]]
    PROVE  Files(t, k, ROOT_PAGE, d, len)
  <1>1. /\ Files(m, k, r, d, len) /\ k \in Nat /\ n <= k /\ e < k
    BY FilesTouch
  <1>2. PagesOK(m)
    BY DEF Files
  <1>3. PICK node : node = initialize_leaf_node
    OBVIOUS
  <1>4. /\ t = [p \in PageNums |-> t[p]] /\ t[1] = node
        /\ \A p \in PageNums : /\ p \in HeapPages /\ p < e => t[p] = ClearedPage
                               /\ p # 1 /\ ~(p \in HeapPages /\ p < e) => t[p] = m[p]
    BY <1>3, PageRange
  <1>5. IsLeaf(node) /\ NetNode(node, PageNums, IndexCells)
    <2>1. node = Leaf(<< >>, 0) /\ << >> \in Seq(IndexCells)
      BY <1>3 DEF initialize_leaf_node
    <2> QED
      BY <2>1, NetLeaf, PageRange
  <1>6. PagesOK(t)
    <2>1. ASSUME NEW p \in PageNums
          PROVE  RowPage(t[p]) \/ NetNode(t[p], PageNums, IndexCells)
      <3>1. CASE p = 1
        BY <1>4, <1>5, <3>1
      <3>2. CASE p \in HeapPages /\ p < e
        BY <1>4, <3>2, EmptyPages
      <3>3. CASE p # 1 /\ ~(p \in HeapPages /\ p < e)
        <4>1. t[p] = m[p]
          BY <1>4, <3>3
        <4> QED
          BY <1>2, <4>1 DEF PagesOK
      <3> QED
        BY <3>1, <3>2, <3>3
    <2>2. t[0] = ZeroPage
      BY <1>2, <1>4, PageRange DEF PagesOK
    <2> QED
      BY <1>4, <2>1, <2>2 DEF PagesOK
  <1>7. 1 \in Nodes(t)
    BY <1>4, <1>5, PageRange DEF Nodes, NodeAt
  <1>8. \A p \in PageNums : p >= k => t[p] = ZeroPage
    <2> SUFFICES ASSUME NEW p \in PageNums, p >= k PROVE t[p] = ZeroPage
      OBVIOUS
    <2>1. ~(p < e) /\ p # 1
      BY <1>1, PageRange DEF HeapPages, Files
    <2> QED
      BY <1>1, <1>4, <2>1 DEF Files
  <1>9. RowsBacked(t, d)
    <2> SUFFICES ASSUME NEW p \in HeapPages, IsHeap(t[p]), NEW j \in LiveIn(t[p])
                 PROVE  /\ IsHeap(d[p]) /\ j \in LiveIn(d[p])
                        /\ d[p].recs[j].val.key = t[p].recs[j].val.key
      BY DEF RowsBacked
    <2>1. p \in PageNums /\ p # 1
      BY PageRange
    <2>2. CASE p < e
      <3>1. t[p] = ClearedPage
        BY <1>4, <2>1, <2>2
      <3>2. LiveIn(t[p]) = {}
        BY <3>1, EmptyPages DEF LiveIn
      <3> QED
        BY <3>2
    <2>3. CASE ~(p < e)
      <3>1. t[p] = m[p]
        BY <1>4, <2>1, <2>3
      <3> QED
        BY <3>1 DEF Files, RowsBacked
    <2> QED
      BY <2>2, <2>3
  <1> QED
    BY <1>1, <1>4, <1>5, <1>6, <1>7, <1>8, <1>9, PageRange DEF Files

-----------------------------------------------------------------------------
(* The inductive invariant *)

\* A statement that walks over the rows is at a page that has some, and has not
\* read more of them than there are.
WalkOps ==
    [kind : {"update"}, page : Nat, idx : Nat, last : Nat,
     from : SUBSET RowsPossible, to : Values]
        \cup [kind : {"delete"}, page : Nat, idx : Nat, last : Nat,
              from : SUBSET RowsPossible]

WalkAt(w, m) ==
    /\ w \in WalkOps /\ w.page \in HeapPages
    /\ IsHeap(m[w.page]) /\ m[w.page].recs # << >>
    /\ w.idx >= 1 /\ w.last <= Len(m[w.page].recs)

\* The destructor has written the pages in front of w.page.
CloseAt(w, m, d, len) ==
    /\ w.page \in Nat /\ w.page \in 1 .. len
    /\ \A p \in PageNums : 1 <= p /\ p < w.page => d[p] = m[p]

OpOK(w, m, d, len) ==
    \/ w = Idle
    \/ w = Undefined
    \/ w = Closing(w.page) /\ CloseAt(w, m, d, len)
    \/ WalkAt(w, m)

\* Whatever happened: the pages, and what the statement under way is about.
Sound ==
    /\ Files(mem, num_pages, root_page, disk, file_pages)
    /\ OpOK(op, mem, disk, file_pages)

\* The index cells whose pointer leads to a row of their key.
GoodCells(m) ==
    {c \in IndexCells :
        \E i \in SlotAt(m, c.value) : m[c.value.page].recs[i].val.key = c.key}

\* The pages T hold all that can be reached of the index.
IndexIn(m, r, T) ==
    /\ Net(m, TABLE_MAX_PAGES, T, T \cup {0}, GoodCells(m))
    /\ Linked(m, T) /\ 0 \notin T /\ ROOT_PAGE \in T /\ r \in T

Index(m, r) == \E T \in SUBSET PageNums : IndexIn(m, r, T)

\* Every row is in front of the page where a scan ends, and no key is there twice.
NoHole(m) ==
    \A p, q \in HeapPages : p < q /\ EndsWalk(m[p]) /\ IsHeap(m[q]) => m[q].recs = << >>

OneRowOfKey(m) ==
    \A p, q \in HeapPages : IsHeap(m[p]) /\ IsHeap(m[q]) =>
        \A i \in LiveIn(m[p]), j \in LiveIn(m[q]) :
            m[p].recs[i].val.key = m[q].recs[j].val.key => p = q /\ i = j

Scanned(m) ==
    /\ \A p \in HeapPages : ~EmptyLeaf(m[p])
    /\ NoHole(m) /\ OneRowOfKey(m)

Indexes == Alive => Index(mem, root_page)
Scans == Whole => Scanned(mem)

\* The live rows of m.
RowsOf(m) == LiveBefore(m, TABLE_MAX_PAGES)

\* The pointer of an entry leads to a live row of its key.
Marks(m, e) ==
    \E i \in SlotAt(m, e.value) : /\ m[e.value.page].recs[i].live
                                  /\ m[e.value.page].recs[i].val.key = e.key

\* Each of the entries E leads to a row, and to each row leads one of them.
Pairs(m, E) ==
    /\ \A e \in E : Marks(m, e)
    /\ \A row \in RowsOf(m) : \E e \in E : e.key = row.key

\* a is the index of m without the other pages.
ExactBy(a, T, m, n, r) ==
    /\ Within(a, m, TABLE_MAX_PAGES, RowPointers, n, r, T)
    /\ Pairs(m, EntriesOf(a, TABLE_MAX_PAGES))

ExactIn(m, n, r) == \E a, T : ExactBy(a, T, m, n, r)

\* The index is a map of the rows until an update moves one of them.
Exact == damage = {} /\ moved = {} => ExactIn(mem, num_pages, root_page)

-----------------------------------------------------------------------------
(* Rows keep their places *)

RowsKept(t, m) ==
    \A p \in HeapPages : IsHeap(m[p]) /\ m[p].recs # << >> =>
        /\ IsHeap(t[p]) /\ Len(m[p].recs) <= Len(t[p].recs)
        /\ \A i \in 1 .. Len(m[p].recs) :
              /\ t[p].recs[i].size = m[p].recs[i].size
              /\ t[p].recs[i].val.key = m[p].recs[i].val.key

LEMMA HeapPageIs ==
    ASSUME NEW m, PagesOK(m), NEW p \in HeapPages, IsHeap(m[p])
    PROVE  /\ p \in PageNums /\ RowPage(m[p])
           /\ Len(m[p].recs) \in Nat
           /\ m[p].recs # << >> <=> Len(m[p].recs) # 0
  <1>1. p \in PageNums
    BY PageRange
  <1>2. RowPage(m[p])
    BY <1>1, PageKinds
  <1>3. m[p].recs \in Seq(Records)
    BY <1>2 DEF RowPage
  <1> QED
    BY <1>1, <1>2, <1>3

LEMMA KeptSame ==
    ASSUME NEW m, PagesOK(m), NEW t,
           \A p \in HeapPages : IsHeap(m[p]) /\ m[p].recs # << >> => t[p] = m[p]
    PROVE  RowsKept(t, m)
  BY HeapPageIs DEF RowsKept

LEMMA KeptAltered ==
    ASSUME NEW m, PagesOK(m), NEW p \in HeapPages, IsHeap(m[p]),
           NEW i \in 1 .. Len(m[p].recs), NEW rec, NEW q, Altered(q, m[p], i, rec),
           NEW t, t[p] = q, \A x \in PageNums : x # p => t[x] = m[x]
    PROVE  RowsKept(t, m)
  <1> SUFFICES ASSUME NEW x \in HeapPages, IsHeap(m[x]), m[x].recs # << >>
               PROVE  /\ IsHeap(t[x]) /\ Len(m[x].recs) <= Len(t[x].recs)
                      /\ \A j \in 1 .. Len(m[x].recs) :
                            /\ t[x].recs[j].size = m[x].recs[j].size
                            /\ t[x].recs[j].val.key = m[x].recs[j].val.key
    BY DEF RowsKept
  <1>1. x \in PageNums /\ Len(m[x].recs) \in Nat
    BY HeapPageIs
  <1>2. CASE x # p
    BY <1>1, <1>2
  <1>3. CASE x = p
    <2>1. RowPage(q) /\ Len(q.recs) = Len(m[p].recs)
      BY DEF Altered
    <2>2. IsHeap(q)
      BY <2>1, RowPageIs
    <2>3. ASSUME NEW j \in 1 .. Len(m[p].recs)
          PROVE  q.recs[j].size = m[p].recs[j].size /\ q.recs[j].val.key = m[p].recs[j].val.key
      <3>1. CASE j = i
        BY <3>1 DEF Altered
      <3>2. CASE j # i
        BY <3>2 DEF Altered
      <3> QED
        BY <3>1, <3>2
    <2> QED
      BY <1>1, <1>3, <2>1, <2>2, <2>3
  <1> QED
    BY <1>2, <1>3

LEMMA KeptExtended ==
    ASSUME NEW m, PagesOK(m), NEW p \in HeapPages, IsHeap(m[p]),
           NEW row, NEW size, NEW q, Extended(q, m[p], row, size),
           NEW t, t[p] = q, \A x \in PageNums : x # p => t[x] = m[x]
    PROVE  RowsKept(t, m)
  <1> SUFFICES ASSUME NEW x \in HeapPages, IsHeap(m[x]), m[x].recs # << >>
               PROVE  /\ IsHeap(t[x]) /\ Len(m[x].recs) <= Len(t[x].recs)
                      /\ \A j \in 1 .. Len(m[x].recs) :
                            /\ t[x].recs[j].size = m[x].recs[j].size
                            /\ t[x].recs[j].val.key = m[x].recs[j].val.key
    BY DEF RowsKept
  <1>1. x \in PageNums /\ Len(m[x].recs) \in Nat
    BY HeapPageIs
  <1>2. CASE x # p
    BY <1>1, <1>2
  <1>3. CASE x = p
    <2>1. RowPage(q) /\ Len(q.recs) = Len(m[p].recs) + 1
      BY DEF Extended
    <2>2. IsHeap(q)
      BY <2>1, RowPageIs
    <2>3. \A j \in 1 .. Len(m[p].recs) : q.recs[j] = m[p].recs[j]
      BY DEF Extended
    <2> QED
      BY <1>1, <1>3, <2>1, <2>2, <2>3
  <1> QED
    BY <1>2, <1>3

LEMMA KeptIndexed ==
    ASSUME NEW m, PagesOK(m), NEW n, \A p \in PageNums : p >= n => m[p] = ZeroPage,
           NEW t, NEW k, Indexed(t, k, m, n)
    PROVE  RowsKept(t, m)
  <1>1. ASSUME NEW p \in HeapPages, IsHeap(m[p]), m[p].recs # << >>
        PROVE  t[p] = m[p]
    <2>1. p \in PageNums /\ ~NodeAt(m, p)
      BY <1>1, PageRange, PageKinds
    <2>2. ~(p >= n)
      BY <1>1, <2>1, EmptyPages
    <2> QED
      BY <2>1, <2>2 DEF Indexed
  <1> QED
    BY <1>1, KeptSame

LEMMA KeptWalk ==
    ASSUME NEW m, PagesOK(m), NEW t, PagesOK(t), RowsKept(t, m), NEW w, WalkAt(w, m)
    PROVE  WalkAt(w, t)
  <1>1. /\ w \in WalkOps /\ w.page \in HeapPages
        /\ IsHeap(m[w.page]) /\ m[w.page].recs # << >>
        /\ w.idx >= 1 /\ w.last <= Len(m[w.page].recs) /\ w.last \in Nat
    BY DEF WalkAt, WalkOps
  <1>2. IsHeap(t[w.page]) /\ Len(m[w.page].recs) <= Len(t[w.page].recs)
    BY <1>1 DEF RowsKept
  <1>3. /\ Len(m[w.page].recs) \in Nat /\ Len(m[w.page].recs) # 0
        /\ Len(t[w.page].recs) \in Nat
    BY <1>1, <1>2, HeapPageIs
  <1>4. t[w.page].recs # << >> /\ w.last <= Len(t[w.page].recs)
    BY <1>1, <1>2, <1>3, HeapPageIs
  <1> QED
    BY <1>1, <1>2, <1>4 DEF WalkAt

\* A row pointer goes on to lead to the record it led to.
SlotStays(t, m, rp, i) ==
    /\ i \in SlotAt(t, rp) /\ rp.page \in HeapPages
    /\ IsHeap(m[rp.page]) /\ IsHeap(t[rp.page])
    /\ i \in 1 .. Len(m[rp.page].recs) /\ i \in 1 .. Len(t[rp.page].recs)
    /\ m[rp.page].recs # << >>
    /\ t[rp.page].recs[i].val.key = m[rp.page].recs[i].val.key

LEMMA SlotKept ==
    ASSUME NEW m, PagesOK(m), NEW t, PagesOK(t), RowsKept(t, m),
           NEW rp \in RowPointers, NEW i \in SlotAt(m, rp)
    PROVE  SlotStays(t, m, rp, i)
  <1>1. PICK p, o : p = rp.page /\ o = rp.offset
    OBVIOUS
  <1>2. p \in HeapPages
    BY <1>1 DEF RowPointers
  <1>3. IsHeap(m[p]) /\ i \in DOMAIN m[p].recs /\ Offset(m[p].recs, i) = o
    BY <1>1 DEF SlotAt
  <1>4. /\ DOMAIN m[p].recs = 1 .. Len(m[p].recs) /\ Sized(m[p].recs)
        /\ Len(m[p].recs) \in Nat /\ i \in 1 .. Len(m[p].recs)
    BY <1>2, <1>3, HeapPageIs, RowPageIs
  <1>5. m[p].recs # << >>
    BY <1>4
  <1>6. /\ IsHeap(t[p]) /\ Len(m[p].recs) <= Len(t[p].recs)
        /\ \A j \in 1 .. Len(m[p].recs) :
              /\ t[p].recs[j].size = m[p].recs[j].size
              /\ t[p].recs[j].val.key = m[p].recs[j].val.key
    BY <1>2, <1>3, <1>5 DEF RowsKept
  <1>7. /\ DOMAIN t[p].recs = 1 .. Len(t[p].recs) /\ Sized(t[p].recs)
        /\ Len(t[p].recs) \in Nat
    BY <1>2, <1>6, HeapPageIs, RowPageIs
  <1>8. Offset(t[p].recs, i) = o
    <2>1. PICK recs, rs, n : recs = m[p].recs /\ rs = t[p].recs /\ n = Len(recs)
      OBVIOUS
    <2>2. /\ Sized(recs) /\ Sized(rs) /\ n \in Nat /\ n <= Len(recs) /\ n <= Len(rs)
          /\ \A j \in 1 .. n : rs[j].size = recs[j].size
      BY <1>4, <1>6, <1>7, <2>1
    <2>3. \A j \in 1 .. n + 1 : Offset(rs, j) = Offset(recs, j)
      BY <2>2, OffsetSame
    <2> QED
      BY <1>3, <1>4, <2>1, <2>3
  <1>9. i \in DOMAIN t[p].recs /\ i \in 1 .. Len(t[p].recs)
    BY <1>4, <1>6, <1>7
  <1>10. i \in SlotAt(t, rp)
    BY <1>1, <1>6, <1>8, <1>9 DEF SlotAt
  <1> QED
    BY <1>1, <1>2, <1>3, <1>4, <1>5, <1>6, <1>9, <1>10 DEF SlotStays

LEMMA KeptCells ==
    ASSUME NEW m, PagesOK(m), NEW t, PagesOK(t), RowsKept(t, m)
    PROVE  GoodCells(m) \subseteq GoodCells(t)
  <1> SUFFICES ASSUME NEW c \in GoodCells(m) PROVE c \in GoodCells(t)
    OBVIOUS
  <1>1. c \in IndexCells /\ c.value \in RowPointers
    BY DEF GoodCells, IndexCells, Cell
  <1>2. PICK i \in SlotAt(m, c.value) : m[c.value.page].recs[i].val.key = c.key
    BY DEF GoodCells
  <1>3. SlotStays(t, m, c.value, i)
    BY <1>1, SlotKept
  <1> QED
    BY <1>1, <1>2, <1>3 DEF SlotStays, GoodCells

-----------------------------------------------------------------------------
(* The index and its row pointers *)

LEMMA NetCells ==
    ASSUME NEW pg, NEW N, NEW T, NEW P, NEW G, Net(pg, N, T, P, G), NEW H, G \subseteq H
    PROVE  Net(pg, N, T, P, H)
  <1>1. ASSUME NEW p \in T PROVE NetNode(pg[p], P, H)
    <2>1. NetNode(pg[p], P, G)
      BY DEF Net
    <2>2. CASE IsLeaf(pg[p])
      <3>1. PICK cells, next : cells = pg[p].cells /\ next = pg[p].next
        OBVIOUS
      <3>2. cells \in Seq(G) /\ next \in P /\ pg[p] = Leaf(cells, next)
        BY <2>1, <2>2, <3>1, NetNodeIs
      <3>3. cells \in Seq(H)
        BY <3>2
      <3> QED
        BY <3>2, <3>3, NetLeaf
    <2>3. CASE IsInternal(pg[p])
      BY <2>1, <2>3, NetNodeIs, NetInner
    <2> QED
      BY <2>1, <2>2, <2>3, NetNodeIs
  <1> QED
    BY <1>1 DEF Net

LEMMA GoodCellsIn ==
    \A m : GoodCells(m) \subseteq IndexCells /\ GoodCells(m) \subseteq Cell(RowPointers)
  BY DEF GoodCells, IndexCells

\* Rows are written and given up.
LEMMA IndexKept ==
    ASSUME NEW m, PagesOK(m), NEW t, PagesOK(t), RowsKept(t, m),
           SameNodes(t, m, TABLE_MAX_PAGES), NEW r, NEW T, IndexIn(m, r, T)
    PROVE  IndexIn(t, r, T)
  <1>1. PICK N, P, G, H : /\ N = TABLE_MAX_PAGES /\ P = T \cup {0}
                          /\ G = GoodCells(m) /\ H = GoodCells(t)
    OBVIOUS
  <1>2. Net(m, N, T, P, G) /\ SameNodes(t, m, N) /\ G \subseteq H
    BY <1>1, KeptCells DEF IndexIn
  <1>3. Net(t, N, T, P, G)
    BY <1>2, SameNet
  <1>4. Net(t, N, T, P, H)
    BY <1>2, <1>3, NetCells
  <1>5. Linked(t, T)
    BY <1>2, SameLinked DEF IndexIn
  <1> QED
    BY <1>1, <1>4, <1>5 DEF IndexIn

\* A key goes into the index.
LEMMA IndexGrows ==
    ASSUME NEW m, NEW n, NEW r, NEW d, NEW len, Files(m, n, r, d, len),
           NEW T, IndexIn(m, r, T),
           NEW key \in Nat, NEW value \in RowPointers, CellOf(key, value) \in GoodCells(m),
           DescentDefined(m, r, key),
           NEW new, new = index_insert(m, n, r, key, value),
           new.num_pages <= TABLE_MAX_PAGES
    PROVE  Index(new.pg, new.root_page)
  <1>1. PICK N, P, G, k, t, root :
            /\ N = TABLE_MAX_PAGES /\ P = T \cup {0} /\ G = GoodCells(m)
            /\ k = new.num_pages /\ t = new.pg /\ root = new.root_page
    OBVIOUS
  <1>2. /\ Net(m, N, T, P, G) /\ PagesOK(m) /\ N \in Nat /\ n \in 2 .. N /\ n \in Nat
        /\ G \subseteq Cell(RowPointers) /\ T \subseteq PageNums
        /\ Linked(m, T) /\ 0 \notin T /\ 1 \in T /\ r \in T
        /\ \A p \in PageNums : p >= n => m[p] = ZeroPage
    <2>1. Net(m, N, T, P, G) /\ Pages(N) = PageNums
      BY <1>1, PageRange DEF IndexIn
    <2>2. T \subseteq PageNums
      BY <2>1 DEF Net
    <2> QED
      BY <1>1, <2>1, <2>2, GoodCellsIn, PageRange DEF IndexIn, Files
  <1>3. InUse(T, N, n)
    <2>1. ASSUME NEW p \in T PROVE p \in 0 .. n - 1
      <3>1. p \in PageNums /\ p \in Nat
        BY <1>2, PageRange
      <3>2. NetNode(m[p], P, G)
        BY <1>2 DEF Net
      <3>3. ~IsHeap(m[p])
        BY <3>2, NetNodeIs DEF IsHeap, IsLeaf, IsInternal
      <3>4. IsHeap(ZeroPage)
        BY EmptyPages, RowPageIs
      <3> QED
        BY <1>2, <3>1, <3>3, <3>4
    <2> QED
      BY <1>2, <2>1 DEF InUse
  <1>4. NetGrew(new, m, N, T, P, G, n, r)
    BY <1>1, <1>2, <1>3, NetInsert
  <1>5. /\ k \in Nat /\ n <= k /\ k <= N /\ Rewoven(t, k, m, N, T, P, G, n)
        /\ root = r \/ root \in n .. k - 1
    BY <1>1, <1>4 DEF NetGrew
  <1>6. PICK fresh, U : fresh = n .. k - 1 /\ U = T \cup fresh
    OBVIOUS
  <1>7. Net(t, N, U, U \cup {0}, G) /\ Linked(t, U)
    <2>1. P \cup fresh = U \cup {0}
      BY <1>1, <1>6
    <2> QED
      BY <1>2, <1>5, <1>6, <2>1 DEF Rewoven
  <1>8. PagesOK(t) /\ RowsKept(t, m)
    <2>1. Files(t, k, root, d, len) /\ Indexed(t, k, m, n)
      BY <1>1, FilesIndex
    <2> QED
      BY <1>2, <2>1, KeptIndexed DEF Files
  <1>9. G \subseteq GoodCells(t)
    BY <1>1, <1>2, <1>8, KeptCells
  <1>10. Net(t, N, U, U \cup {0}, GoodCells(t))
    BY <1>7, <1>9, NetCells
  <1>11. 0 \notin U /\ 1 \in U /\ root \in U
    BY <1>2, <1>5, <1>6
  <1>12. U \subseteq PageNums
    BY <1>1, <1>10, PageRange DEF Net
  <1>13. IndexIn(t, root, U)
    BY <1>1, <1>7, <1>10, <1>11, PageRange DEF IndexIn
  <1> QED
    BY <1>1, <1>12, <1>13 DEF Index

\* A key leaves the index.
LEMMA IndexShrinks ==
    ASSUME NEW m, NEW n, NEW r, NEW d, NEW len, Files(m, n, r, d, len),
           NEW T, IndexIn(m, r, T), NEW key, DescentDefined(m, r, key),
           NEW t, t = delete_from_index(m, r, key)
    PROVE  IndexIn(t, r, T)
  <1>1. PICK N, P, G : /\ N = TABLE_MAX_PAGES /\ P = T \cup {0} /\ G = GoodCells(m)
    OBVIOUS
  <1>2. /\ Net(m, N, T, P, G) /\ PagesOK(m) /\ r \in T
        /\ G \subseteq Cell(RowPointers) /\ Linked(m, T)
    BY <1>1, GoodCellsIn DEF IndexIn, Files
  <1>3. NetCut(t, m, N, T, P, G)
    BY <1>2, NetDelete
  <1>4. Net(t, N, T, P, G) /\ Linked(t, T)
    BY <1>2, <1>3, CutLinked DEF NetCut
  <1>5. PagesOK(t) /\ RowsKept(t, m)
    <2>1. /\ Files(t, n, r, d, len)
          /\ \A p \in PageNums : t[p] = m[p] \/ (NodeAt(t, p) /\ NodeAt(m, p))
      BY FilesDelete
    <2>2. \A p \in HeapPages : IsHeap(m[p]) => t[p] = m[p]
      BY <1>2, <2>1, PageKinds, PageRange
    <2> QED
      BY <1>2, <2>1, <2>2, KeptSame DEF Files
  <1>6. Net(t, N, T, P, GoodCells(t))
    BY <1>1, <1>2, <1>4, <1>5, KeptCells, NetCells
  <1> QED
    BY <1>1, <1>4, <1>6 DEF IndexIn

\* The index starts over, with page 1 as its only node.
LEMMA IndexClear ==
    ASSUME NEW t, PagesOK(t), t[ROOT_PAGE] = initialize_leaf_node
    PROVE  Index(t, ROOT_PAGE)
  <1>1. PICK N, T, P, G : /\ N = TABLE_MAX_PAGES /\ T = {1} /\ P = T \cup {0}
                          /\ G = GoodCells(t)
    OBVIOUS
  <1>2. t[1] = Leaf(<< >>, 0) /\ 0 \in P
    BY <1>1, PageRange DEF initialize_leaf_node
  <1>3. NetNode(t[1], P, G) /\ IsLeaf(t[1])
    <2>1. PICK cells, node : cells = << >> /\ node = t[1]
      OBVIOUS
    <2>2. cells \in Seq(G)
      BY <2>1
    <2>3. node = Leaf(cells, 0)
      BY <1>2, <2>1
    <2>4. 0 \in P
      BY <1>2
    <2>5. NetNode(node, P, G) /\ IsLeaf(node)
      BY <2>2, <2>3, <2>4, NetLeaf
    <2> QED
      BY <2>1, <2>5
  <1>4. ~NodeAt(t, 0)
    BY PageKinds, PageRange
  <1>5. Net(t, N, T, P, G)
    <2>1. N \in Nat /\ t = [p \in Pages(N) |-> t[p]]
      BY <1>1, PageRange DEF PagesOK
    <2>2. 0 \in P /\ T \subseteq P /\ P \subseteq Pages(N)
      BY <1>1, PageRange
    <2> QED
      BY <1>1, <1>3, <1>4, <2>1, <2>2 DEF Net
  <1>6. Linked(t, T)
    <2>1. t[1].next = 0
      BY <1>2 DEF Leaf
    <2> QED
      BY <1>1, <2>1 DEF Linked
  <1>7. IndexIn(t, ROOT_PAGE, T)
    BY <1>1, <1>5, <1>6, PageRange DEF IndexIn
  <1> QED
    BY <1>1, <1>7, PageRange DEF Index

\* A descent from a root that is a leaf ends there.
LEMMA LeafRootDefined ==
    ASSUME NEW m, NEW r, NEW T, IndexIn(m, r, T), IsLeaf(m[r]), NEW key
    PROVE  DescentDefined(m, r, key)
  <1>1. PICK N, P, G : /\ N = TABLE_MAX_PAGES /\ P = T \cup {0} /\ G = GoodCells(m)
    OBVIOUS
  <1>2. Net(m, N, T, P, G) /\ r \in T
    BY <1>1 DEF IndexIn
  <1>3. PICK path : path = Path(m, r, key)
    OBVIOUS
  <1>4. NetPath(path, m, T, P, r, key)
    BY <1>2, <1>3, NetDescent
  <1>5. /\ Len(path) \in Nat \ {0} /\ path[1] = r
        /\ \A e \in 1 .. Len(path) : e # Len(path) => IsInternal(m[path[e]])
        /\ DescentDefined(m, r, key) <=> IsLeaf(m[path[Len(path)]])
    BY <1>4 DEF NetPath
  <1>6. ~IsInternal(m[r])
    BY DEF IsLeaf, IsInternal
  <1>7. Len(path) = 1
    BY <1>5, <1>6
  <1> QED
    BY <1>5, <1>7

\* What a lookup finds is the pointer to a row of the key.
LEMMA FindsRow ==
    ASSUME NEW m, PagesOK(m), NEW r, NEW T, IndexIn(m, r, T), NEW key,
           DescentDefined(m, r, key), NEW rp \in btree_find(m, r, key)
    PROVE  /\ rp \in RowPointers /\ IsHeap(m[rp.page])
           /\ \E i \in SlotAt(m, rp) : m[rp.page].recs[i].val.key = key
  <1>1. PICK N, P, G : /\ N = TABLE_MAX_PAGES /\ P = T \cup {0} /\ G = GoodCells(m)
    OBVIOUS
  <1>2. Net(m, N, T, P, G) /\ r \in T /\ G \subseteq Cell(RowPointers)
    BY <1>1, GoodCellsIn DEF IndexIn
  <1>3. PICK cell \in G : cell.key = key /\ cell.value = rp
    BY <1>2, NetFind
  <1>4. \E i \in SlotAt(m, rp) : m[rp.page].recs[i].val.key = key
    BY <1>1, <1>3 DEF GoodCells
  <1>5. rp \in RowPointers
    BY <1>2, <1>3 DEF Cell
  <1> QED
    BY <1>4, <1>5 DEF SlotAt

\* The pointer to the row that was appended last is one.
LEMMA PointsToRow ==
    ASSUME NEW m, NEW p \in HeapPages, NEW row \in RowsPossible, NEW size,
           NEW pg, Extended(m[p], pg, row, size), Len(pg.recs) \in Nat
    PROVE  /\ PointerTo(m, p) \in RowPointers
           /\ CellOf(row.key, PointerTo(m, p)) \in GoodCells(m)
  <1>1. PICK recs, n, o : /\ recs = m[p].recs /\ n = Len(recs) /\ o = Offset(recs, n)
    OBVIOUS
  <1>2. RowPage(m[p]) /\ n = Len(pg.recs) + 1 /\ recs[n] = Record(row, size)
    BY <1>1 DEF Extended
  <1>3. IsHeap(m[p]) /\ Sized(recs) /\ DOMAIN recs = 1 .. n /\ n \in Nat /\ n \in 1 .. n
    <2>1. IsHeap(m[p]) /\ Sized(m[p].recs) /\ DOMAIN m[p].recs = 1 .. Len(m[p].recs)
      BY <1>2, RowPageIs
    <2>2. n \in Nat /\ n >= 1
      BY <1>2
    <2> QED
      BY <1>1, <2>1, <2>2
  <1>4. o \in Nat
    <2>1. n \in 1 .. Len(recs) + 1
      BY <1>1, <1>3
    <2> QED
      BY <1>1, <1>3, <2>1, OffsetStep
  <1>5. PICK rp : rp = [page |-> p, offset |-> o]
    OBVIOUS
  <1>6. PointerTo(m, p) = rp
    BY <1>1, <1>5 DEF PointerTo
  <1>7. rp \in RowPointers /\ rp.page = p /\ rp.offset = o
    BY <1>4, <1>5 DEF RowPointers
  <1>8. n \in SlotAt(m, rp)
    BY <1>1, <1>3, <1>7 DEF SlotAt
  <1>9. recs[n].val.key = row.key /\ row.key \in Nat
    <2>1. recs[n].val = row
      BY <1>2 DEF Record
    <2>2. row.key \in Keys /\ Keys \subseteq Nat
      BY TableAssumption DEF RowsPossible
    <2> QED
      BY <2>1, <2>2
  <1>10. PICK cell : cell = CellOf(row.key, rp)
    OBVIOUS
  <1>11. cell \in IndexCells /\ cell.key = row.key /\ cell.value = rp
    BY <1>7, <1>9, <1>10 DEF CellOf, IndexCells, Cell
  <1>12. cell \in GoodCells(m)
    BY <1>1, <1>7, <1>8, <1>9, <1>11 DEF GoodCells
  <1> QED
    BY <1>6, <1>7, <1>10, <1>12

-----------------------------------------------------------------------------
(* What a scan of the rows sees *)

NoKey(m, key) ==
    \A p \in HeapPages : IsHeap(m[p]) => \A i \in LiveIn(m[p]) : m[p].recs[i].val.key # key

LEMMA EndIs ==
    ASSUME NEW m, PagesOK(m), NEW p \in HeapPages, ~EmptyLeaf(m[p])
    PROVE  EndsWalk(m[p]) <=> IsHeap(m[p]) /\ m[p].recs = << >>
  <1>1. CASE IsHeap(m[p])
    BY <1>1, HeapPageIs, RowPageIs
  <1>2. CASE ~IsHeap(m[p])
    BY <1>2 DEF EndsWalk
  <1> QED
    BY <1>1, <1>2

LEMMA NoKeyBehind ==
    ASSUME NEW m, PagesOK(m), NoHole(m), NEW e \in HeapPages, ~EmptyLeaf(m[e]),
           EndsWalk(m[e]), NEW key, ~KeyBefore(m, e, key)
    PROVE  NoKey(m, key)
  <1> SUFFICES ASSUME NEW p \in HeapPages, IsHeap(m[p]), NEW i \in LiveIn(m[p]),
                      m[p].recs[i].val.key = key
               PROVE  FALSE
    BY DEF NoKey
  <1>1. p \in Nat /\ e \in Nat /\ m[p].recs # << >>
    BY PageRange, HeapPageIs, RowPageIs
  <1>2. ~(p < e)
    <2> SUFFICES ASSUME p < e PROVE FALSE
      OBVIOUS
    <2>1. m[p].recs[i].val \in LiveBefore(m, e)
      BY DEF LiveBefore
    <2> QED
      BY <2>1 DEF KeyBefore
  <1>3. p # e
    BY <1>1, EndIs
  <1>4. e < p
    BY <1>1, <1>2, <1>3
  <1> QED
    BY <1>1, <1>4 DEF NoHole

LEMMA ScanAltered ==
    ASSUME NEW m, PagesOK(m), Scanned(m), NEW p \in HeapPages, IsHeap(m[p]),
           NEW i \in 1 .. Len(m[p].recs), NEW rec, NEW q, Altered(q, m[p], i, rec),
           NEW t, PagesOK(t), t[p] = q, \A x \in PageNums : x # p => t[x] = m[x]
    PROVE  Scanned(t)
  <1>1. /\ \A x \in HeapPages : x # p => t[x] = m[x]
        /\ RowPage(q) /\ RowPage(m[p]) /\ Len(q.recs) = Len(m[p].recs)
        /\ Len(m[p].recs) \in Nat
    BY HeapPageIs, PageRange DEF Altered
  <1>2. /\ IsHeap(q) /\ q.recs # << >> /\ ~Bare(q) /\ m[p].recs # << >>
        /\ LiveIn(q) = {j \in 1 .. Len(q.recs) : q.recs[j].live}
        /\ LiveIn(m[p]) = {j \in 1 .. Len(m[p].recs) : m[p].recs[j].live}
        /\ ~EndsWalk(q) /\ ~EndsWalk(m[p])
    BY <1>1, RowPageIs
  <1>3. \A x \in HeapPages : ~EmptyLeaf(t[x])
    BY <1>1, <1>2 DEF Scanned, Bare, EmptyLeaf
  <1>4. \A x \in HeapPages : EndsWalk(t[x]) => EndsWalk(m[x]) /\ x # p
    BY <1>1, <1>2
  <1>5. NoHole(t)
    <2> SUFFICES ASSUME NEW x \in HeapPages, NEW y \in HeapPages, x < y,
                        EndsWalk(t[x]), IsHeap(t[y])
                 PROVE  t[y].recs = << >>
      BY DEF NoHole
    <2>1. EndsWalk(m[x])
      BY <1>4
    <2>2. y # p
      BY <1>2, <2>1 DEF Scanned, NoHole
    <2> QED
      BY <1>1, <2>1, <2>2 DEF Scanned, NoHole
  <1>6. \A j \in LiveIn(q) : j \in LiveIn(m[p]) /\ q.recs[j].val.key = m[p].recs[j].val.key
    BY <1>1, <1>2 DEF Altered
  <1>7. ASSUME NEW x \in HeapPages, IsHeap(t[x]), NEW j \in LiveIn(t[x])
        PROVE  IsHeap(m[x]) /\ j \in LiveIn(m[x]) /\ t[x].recs[j].val.key = m[x].recs[j].val.key
    BY <1>1, <1>6, <1>7
  <1>8. OneRowOfKey(t)
    BY <1>7 DEF Scanned, OneRowOfKey
  <1> QED
    BY <1>3, <1>5, <1>8 DEF Scanned

\* An empty page of rows has room for any row.
LEMMA EndHasRoom ==
    ASSUME NEW pg, RowPage(pg), pg.recs = << >>, NEW v \in Values
    PROVE  Room(pg, RowSize[v])
  <1>1. pg.used \in Nat /\ pg.used <= 4 /\ (pg.used = 0 \/ pg.used >= 4)
    BY DEF RowPage, EndOfHeap, USED_SIZE
  <1>2. UsedFrom(pg) = 4
    BY <1>1 DEF UsedFrom, USED_SIZE
  <1>3. RowSize[v] \in 1 .. PAGE_SIZE - 4 - 4 /\ PAGE_SIZE \in Nat
    BY TableAssumption, PageSizeAssumption DEF USED_SIZE, ROW_SIZE_SIZE
  <1>4. HasRoom(pg, RowSize[v])
    BY <1>2, <1>3 DEF HasRoom, ROW_SIZE_SIZE
  <1> QED
    BY <1>4, RowPageIs DEF Room

LEMMA ScanExtended ==
    ASSUME NEW m, PagesOK(m), Scanned(m), NEW p \in HeapPages, IsHeap(m[p]),
           NEW row \in RowsPossible, NEW n, FirstRoom(m, n, RowSize[row.val], p),
           NoKey(m, row.key), NEW q, Extended(q, m[p], row, RowSize[row.val]),
           NEW t, PagesOK(t), t[p] = q, \A x \in PageNums : x # p => t[x] = m[x]
    PROVE  Scanned(t)
  <1>1. /\ \A x \in HeapPages : x # p => t[x] = m[x]
        /\ RowPage(q) /\ RowPage(m[p]) /\ Len(q.recs) = Len(m[p].recs) + 1
        /\ Len(m[p].recs) \in Nat /\ q.recs # << >>
    BY HeapPageIs, PageRange DEF Extended
  <1>2. /\ IsHeap(q) /\ ~Bare(q) /\ ~EndsWalk(q)
        /\ LiveIn(q) = {j \in 1 .. Len(q.recs) : q.recs[j].live}
        /\ LiveIn(m[p]) = {j \in 1 .. Len(m[p].recs) : m[p].recs[j].live}
    BY <1>1, RowPageIs
  <1>3. \A x \in HeapPages : ~EmptyLeaf(t[x])
    BY <1>1, <1>2 DEF Scanned, Bare, EmptyLeaf
  <1>4. \A x \in HeapPages : EndsWalk(t[x]) => EndsWalk(m[x]) /\ x # p
    BY <1>1, <1>2
  <1>5. NoHole(t)
    <2> SUFFICES ASSUME NEW x \in HeapPages, NEW y \in HeapPages, x < y,
                        EndsWalk(t[x]), IsHeap(t[y])
                 PROVE  t[y].recs = << >>
      BY DEF NoHole
    <2>1. EndsWalk(m[x]) /\ ~EmptyLeaf(m[x])
      BY <1>4 DEF Scanned
    <2>2. y # p
      <3>1. RowPage(m[x]) /\ m[x].recs = << >>
        BY <2>1, EndIs, HeapPageIs
      <3>2. row.val \in Values
        BY DEF RowsPossible
      <3>3. Room(m[x], RowSize[row.val])
        BY <3>1, <3>2, EndHasRoom
      <3> QED
        BY <3>3 DEF FirstRoom
    <2> QED
      BY <1>1, <2>1, <2>2 DEF Scanned, NoHole
  <1>6. PICK k : k = Len(m[p].recs) + 1
    OBVIOUS
  <1>7. \A j \in LiveIn(q) : \/ j = k /\ q.recs[j].val.key = row.key
                             \/ j \in LiveIn(m[p]) /\ q.recs[j] = m[p].recs[j]
    <2> TAKE j \in LiveIn(q)
    <2>1. j = k \/ j \in 1 .. Len(m[p].recs)
      BY <1>1, <1>2, <1>6
    <2>2. q.recs[k].val.key = row.key
      BY <1>6 DEF Extended, Record
    <2>3. \A l \in 1 .. Len(m[p].recs) : q.recs[l] = m[p].recs[l]
      BY DEF Extended
    <2> QED
      BY <1>2, <2>1, <2>2, <2>3
  <1>8. ASSUME NEW x \in HeapPages, IsHeap(t[x]), NEW j \in LiveIn(t[x])
        PROVE  \/ x = p /\ j = k /\ t[x].recs[j].val.key = row.key
               \/ /\ IsHeap(m[x]) /\ j \in LiveIn(m[x])
                  /\ t[x].recs[j].val.key = m[x].recs[j].val.key
    BY <1>1, <1>7, <1>8
  <1>9. OneRowOfKey(t)
    BY <1>8 DEF Scanned, OneRowOfKey, NoKey
  <1> QED
    BY <1>3, <1>5, <1>9 DEF Scanned

\* The index was changed, and no leaf of it is empty.
LEMMA ScanNodes ==
    ASSUME NEW m, Scanned(m), NEW t, PagesOK(t),
           \A p \in HeapPages : ~EmptyLeaf(t[p]),
           \A p \in PageNums : t[p] = m[p] \/ NodeAt(t, p)
    PROVE  Scanned(t)
  <1>1. \A p \in HeapPages : IsHeap(t[p]) => t[p] = m[p]
    BY PageRange, PageKinds
  <1>2. \A p \in HeapPages : EndsWalk(t[p]) => IsHeap(t[p])
    BY EndIs
  <1>3. NoHole(t)
    BY <1>1, <1>2 DEF Scanned, NoHole
  <1>4. OneRowOfKey(t)
    BY <1>1 DEF Scanned, OneRowOfKey
  <1> QED
    BY <1>3, <1>4 DEF Scanned

LEMMA ScanRowless ==
    ASSUME NEW t, PagesOK(t), \A p \in HeapPages : ~EmptyLeaf(t[p]),
           \A p \in HeapPages : IsHeap(t[p]) => t[p].recs = << >>
    PROVE  Scanned(t)
  <1>1. \A p \in HeapPages : IsHeap(t[p]) => LiveIn(t[p]) = {}
    BY DEF LiveIn
  <1> QED
    BY <1>1 DEF Scanned, NoHole, OneRowOfKey

LEMMA ScanClear ==
    ASSUME NEW m, PagesOK(m), Scanned(m), NEW e \in HeapPages, EndsWalk(m[e]),
           NEW t, t = [p \in PageNums |-> IF p = ROOT_PAGE THEN initialize_leaf_node
                                          ELSE IF p \in HeapPages /\ p < e THEN ClearedPage
                                          ELSE m[p]]
    PROVE  /\ \A p \in HeapPages : ~EmptyLeaf(t[p])
           /\ \A p \in HeapPages : IsHeap(t[p]) => t[p].recs = << >>
  <1> SUFFICES ASSUME NEW p \in HeapPages
               PROVE  ~EmptyLeaf(t[p]) /\ (IsHeap(t[p]) => t[p].recs = << >>)
    OBVIOUS
  <1>1. p \in PageNums /\ p # 1 /\ p \in Nat /\ e \in Nat
    BY PageRange
  <1>2. CASE p < e
    <2>1. t[p] = ClearedPage
      BY <1>1, <1>2, PageRange
    <2> QED
      BY <2>1, EmptyPages, RowPageIs DEF EmptyLeaf
  <1>3. CASE ~(p < e)
    <2>1. t[p] = m[p]
      BY <1>1, <1>3, PageRange
    <2>2. IsHeap(m[p]) => m[p].recs = << >>
      <3>1. CASE p = e
        BY <3>1, EndIs DEF Scanned
      <3>2. CASE p # e
        <4>1. e < p
          BY <1>1, <1>3, <3>2
        <4> QED
          BY <4>1 DEF Scanned, NoHole
      <3> QED
        BY <3>1, <3>2
    <2> QED
      BY <2>1, <2>2 DEF Scanned
  <1> QED
    BY <1>2, <1>3

-----------------------------------------------------------------------------
(* The rows as a set *)

LEMMA RowIn ==
    ASSUME NEW m, NEW row
    PROVE  row \in RowsOf(m) <=>
              \E p \in HeapPages : IsHeap(m[p]) /\ \E i \in LiveIn(m[p]) : row = m[p].recs[i].val
  <1>1. \A p \in HeapPages : p < TABLE_MAX_PAGES
    BY PageRange
  <1> QED
    BY <1>1 DEF RowsOf, LiveBefore

\* The index was changed: the rows are the same.
LEMMA RowsSame ==
    ASSUME NEW m, PagesOK(m), NEW t, PagesOK(t),
           \A p \in PageNums : t[p] = m[p] \/ (NodeAt(t, p) /\ (NodeAt(m, p) \/ m[p] = ZeroPage))
    PROVE  RowsOf(t) = RowsOf(m)
  <1>1. \A p \in HeapPages : IsHeap(t[p]) => t[p] = m[p]
    BY PageRange, PageKinds
  <1>2. ASSUME NEW p \in HeapPages, IsHeap(m[p]), NEW i \in LiveIn(m[p])
        PROVE  t[p] = m[p]
    <2>1. m[p] # ZeroPage
      BY EmptyPages DEF LiveIn
    <2> QED
      BY <1>2, <2>1, PageRange, PageKinds
  <1>3. ASSUME NEW row PROVE row \in RowsOf(t) <=> row \in RowsOf(m)
    BY <1>1, <1>2, RowIn
  <1> QED
    BY <1>3

RowAdded(t, m, row) == RowsOf(t) = RowsOf(m) \cup {row}

LEMMA RowsExtended ==
    ASSUME NEW m, PagesOK(m), NEW p \in HeapPages, IsHeap(m[p]),
           NEW row, NEW size, NEW q, Extended(q, m[p], row, size),
           NEW t, t[p] = q, \A x \in PageNums : x # p => t[x] = m[x]
    PROVE  RowAdded(t, m, row)
  <1>1. /\ \A x \in HeapPages : x # p => t[x] = m[x]
        /\ RowPage(q) /\ RowPage(m[p]) /\ Len(q.recs) = Len(m[p].recs) + 1
        /\ Len(m[p].recs) \in Nat
    BY HeapPageIs, PageRange DEF Extended
  <1>2. /\ IsHeap(q)
        /\ LiveIn(q) = {j \in 1 .. Len(q.recs) : q.recs[j].live}
        /\ LiveIn(m[p]) = {j \in 1 .. Len(m[p].recs) : m[p].recs[j].live}
    BY <1>1, RowPageIs
  <1>3. PICK k : k = Len(m[p].recs) + 1
    OBVIOUS
  <1>4. k \in 1 .. Len(q.recs) /\ q.recs[k].live /\ q.recs[k].val = row
    BY <1>1, <1>3 DEF Extended, Record
  <1>5. \A j \in 1 .. Len(m[p].recs) : q.recs[j] = m[p].recs[j]
    BY DEF Extended
  <1>6. \A j \in LiveIn(q) : j = k \/ (j \in LiveIn(m[p]) /\ q.recs[j] = m[p].recs[j])
    BY <1>1, <1>2, <1>3, <1>5
  <1>7. \A j \in LiveIn(m[p]) : j \in LiveIn(q) /\ q.recs[j] = m[p].recs[j]
    BY <1>1, <1>2, <1>5
  <1>8. k \in LiveIn(q)
    BY <1>2, <1>4
  <1>9. ASSUME NEW r \in RowsOf(t) PROVE r \in RowsOf(m) \cup {row}
    <2>1. PICK x, j : x \in HeapPages /\ j \in LiveIn(t[x]) /\ IsHeap(t[x]) /\ r = t[x].recs[j].val
      BY <1>9, RowIn
    <2>2. CASE x # p
      BY <1>1, <2>1, <2>2, RowIn
    <2>3. CASE x = p /\ j = k
      BY <1>4, <2>1, <2>3
    <2>4. CASE x = p /\ j # k
      <3>1. j \in LiveIn(m[p]) /\ r = m[p].recs[j].val
        BY <1>6, <2>1, <2>4
      <3> QED
        BY <3>1, RowIn
    <2> QED
      BY <2>2, <2>3, <2>4
  <1>10. ASSUME NEW r \in RowsOf(m) PROVE r \in RowsOf(t)
    <2>1. PICK x, j : x \in HeapPages /\ j \in LiveIn(m[x]) /\ IsHeap(m[x]) /\ r = m[x].recs[j].val
      BY <1>10, RowIn
    <2> QED
      BY <1>1, <1>2, <1>7, <2>1, RowIn
  <1>11. row \in RowsOf(t)
    BY <1>2, <1>4, <1>8, RowIn
  <1> QED
    BY <1>9, <1>10, <1>11 DEF RowAdded

\* A record is given up or written again, in a table where no key is there twice.
RowChanged(t, m, old, new) ==
    /\ ~old.live => RowsOf(t) = RowsOf(m)
    /\ old.live =>
          /\ old.val \in RowsOf(m)
          /\ RowsOf(t) = (RowsOf(m) \ {old.val}) \cup IF new.live THEN {new.val} ELSE {}

LEMMA RowsAltered ==
    ASSUME NEW m, PagesOK(m), OneRowOfKey(m), NEW p \in HeapPages, IsHeap(m[p]),
           NEW i \in 1 .. Len(m[p].recs), NEW rec, NEW q, Altered(q, m[p], i, rec),
           NEW t, t[p] = q, \A x \in PageNums : x # p => t[x] = m[x]
    PROVE  RowChanged(t, m, m[p].recs[i], rec)
  <1>1. /\ \A x \in HeapPages : x # p => t[x] = m[x]
        /\ RowPage(q) /\ RowPage(m[p]) /\ Len(q.recs) = Len(m[p].recs)
        /\ Len(m[p].recs) \in Nat
    BY HeapPageIs, PageRange DEF Altered
  <1>2. /\ IsHeap(q)
        /\ LiveIn(q) = {j \in 1 .. Len(q.recs) : q.recs[j].live}
        /\ LiveIn(m[p]) = {j \in 1 .. Len(m[p].recs) : m[p].recs[j].live}
    BY <1>1, RowPageIs
  <1>3. q.recs[i] = rec /\ \A j \in 1 .. Len(m[p].recs) : j # i => q.recs[j] = m[p].recs[j]
    BY DEF Altered
  <1>4. rec.live => m[p].recs[i].live
    BY DEF Altered
  <1>5. PICK old : old = m[p].recs[i].val
    OBVIOUS
  <1>6. \A j \in LiveIn(q) :
           \/ j = i /\ rec.live
           \/ j # i /\ j \in LiveIn(m[p]) /\ q.recs[j] = m[p].recs[j]
    BY <1>1, <1>2, <1>3
  <1>7. \A j \in LiveIn(m[p]) : j # i => j \in LiveIn(q) /\ q.recs[j] = m[p].recs[j]
    BY <1>1, <1>2, <1>3
  <1>8. ASSUME NEW r \in RowsOf(t)
        PROVE  \/ rec.live /\ r = rec.val
               \/ \E x \in HeapPages : \E j \in LiveIn(m[x]) :
                     ~(x = p /\ j = i) /\ IsHeap(m[x]) /\ r = m[x].recs[j].val
    <2>1. PICK x, j : x \in HeapPages /\ j \in LiveIn(t[x]) /\ IsHeap(t[x]) /\ r = t[x].recs[j].val
      BY <1>8, RowIn
    <2>2. CASE x # p
      BY <1>1, <2>1, <2>2
    <2>3. CASE x = p
      BY <1>3, <1>6, <2>1, <2>3
    <2> QED
      BY <2>2, <2>3
  <1>9. ASSUME NEW x \in HeapPages, NEW j \in LiveIn(m[x]), IsHeap(m[x]), ~(x = p /\ j = i)
        PROVE  m[x].recs[j].val \in RowsOf(t)
    <2>1. CASE x # p
      BY <1>1, <1>9, <2>1, RowIn
    <2>2. CASE x = p
      <3>1. j \in LiveIn(q) /\ q.recs[j] = m[p].recs[j]
        BY <1>7, <1>9, <2>2
      <3> QED
        BY <1>2, <2>2, <3>1, RowIn
    <2> QED
      BY <2>1, <2>2
  <1>10. ASSUME ~m[p].recs[i].live
         PROVE  RowsOf(t) = RowsOf(m)
    <2>1. ASSUME NEW r \in RowsOf(t) PROVE r \in RowsOf(m)
      BY <1>4, <1>8, <1>10, <2>1, RowIn
    <2>2. ASSUME NEW r \in RowsOf(m) PROVE r \in RowsOf(t)
      <3>1. PICK x, j : x \in HeapPages /\ j \in LiveIn(m[x]) /\ IsHeap(m[x]) /\ r = m[x].recs[j].val
        BY <2>2, RowIn
      <3>2. ~(x = p /\ j = i)
        BY <1>2, <1>10, <3>1
      <3> QED
        BY <1>9, <3>1, <3>2
    <2> QED
      BY <2>1, <2>2
  <1>11. ASSUME m[p].recs[i].live
         PROVE  /\ old \in RowsOf(m)
                /\ RowsOf(t) = (RowsOf(m) \ {old}) \cup IF rec.live THEN {rec.val} ELSE {}
    <2>1. i \in LiveIn(m[p])
      BY <1>2, <1>11
    <2>2. old \in RowsOf(m)
      BY <1>5, <2>1, RowIn
    <2>3. \A x \in HeapPages : \A j \in LiveIn(m[x]) :
             IsHeap(m[x]) /\ m[x].recs[j].val = old => x = p /\ j = i
      BY <1>5, <2>1 DEF OneRowOfKey
    <2>4. ASSUME NEW r \in RowsOf(t)
          PROVE  r \in RowsOf(m) \ {old} \/ (rec.live /\ r = rec.val)
      BY <1>8, <2>3, <2>4, RowIn
    <2>5. ASSUME NEW r \in RowsOf(m) \ {old} PROVE r \in RowsOf(t)
      <3>1. PICK x, j : x \in HeapPages /\ j \in LiveIn(m[x]) /\ IsHeap(m[x]) /\ r = m[x].recs[j].val
        BY <2>5, RowIn
      <3>2. ~(x = p /\ j = i)
        BY <1>5, <2>5, <3>1
      <3> QED
        BY <1>9, <3>1, <3>2
    <2>6. ASSUME rec.live PROVE rec.val \in RowsOf(t)
      <3>1. i \in LiveIn(q)
        BY <1>1, <1>2, <1>3, <2>6
      <3> QED
        BY <1>2, <1>3, <3>1, RowIn
    <2> QED
      BY <2>2, <2>4, <2>5, <2>6
  <1> QED
    BY <1>5, <1>10, <1>11 DEF RowChanged

LEMMA RowsRowless ==
    ASSUME NEW t, \A p \in HeapPages : IsHeap(t[p]) => t[p].recs = << >>
    PROVE  RowsOf(t) = {}
  <1>1. \A p \in HeapPages : IsHeap(t[p]) => LiveIn(t[p]) = {}
    BY DEF LiveIn
  <1> QED
    BY <1>1, RowIn

KeysOf(m) == {row.key : row \in RowsOf(m)}

LEMMA BackedKeys ==
    ASSUME NEW m, NEW d, RowsBacked(m, d)
    PROVE  KeysOf(m) \subseteq KeysOf(d)
  <1> SUFFICES ASSUME NEW row \in RowsOf(m) PROVE row.key \in KeysOf(d)
    BY DEF KeysOf
  <1>1. PICK p, i : p \in HeapPages /\ i \in LiveIn(m[p]) /\ IsHeap(m[p]) /\ row = m[p].recs[i].val
    BY RowIn
  <1>2. IsHeap(d[p]) /\ i \in LiveIn(d[p]) /\ d[p].recs[i].val.key = row.key
    BY <1>1 DEF RowsBacked
  <1>3. d[p].recs[i].val \in RowsOf(d)
    BY <1>1, <1>2, RowIn
  <1> QED
    BY <1>2, <1>3 DEF KeysOf

\* No row of the table has a key, and its rows are in front of where a scan ends.
LEMMA NoKeyRows ==
    ASSUME NEW m, NEW key, NoKey(m, key)
    PROVE  \A row \in RowsOf(m) : row.key # key
  BY RowIn DEF NoKey

-----------------------------------------------------------------------------
(* Storing a row *)

LEMMA NodesInUse ==
    ASSUME NEW m, NEW n, NEW r, NEW d, NEW len, Files(m, n, r, d, len)
    PROVE  InUse(Nodes(m), TABLE_MAX_PAGES, n)
  <1>1. ASSUME NEW p \in Nodes(m) PROVE p \in 0 .. n - 1
    <2>1. p \in PageNums /\ NodeAt(m, p) /\ p \in Nat
      BY <1>1, PageRange DEF Nodes
    <2>2. PagesOK(m)
      BY DEF Files
    <2>3. m[p] # ZeroPage
      BY <2>1, <2>2, PageKinds, EmptyPages
    <2>4. ~(p >= n)
      BY <2>1, <2>3 DEF Files
    <2>5. n \in Nat
      BY PageRange DEF Files
    <2> QED
      BY <2>1, <2>4, <2>5
  <1> QED
    BY <1>1, PageRange DEF InUse, Files

\* An insertion into the index says how many pages there are then.
LEMMA IndexPages ==
    ASSUME NEW m, NEW n, NEW r, NEW d, NEW len, Files(m, n, r, d, len),
           NEW key \in Nat, NEW value \in RowPointers, DescentDefined(m, r, key),
           NEW new, new = index_insert(m, n, r, key, value)
    PROVE  new.num_pages \in Nat
  <1>1. PICK N, T, P, G : /\ N = TABLE_MAX_PAGES /\ T = Nodes(m) /\ P = PageNums
                          /\ G = IndexCells
    OBVIOUS
  <1>2. /\ Net(m, N, T, P, G) /\ InUse(T, N, n) /\ r \in T
    BY <1>1, AllNodes, NodesInUse DEF Files
  <1>3. G \subseteq Cell(RowPointers) /\ CellOf(key, value) \in G
    BY <1>1 DEF IndexCells, Cell, CellOf
  <1> QED
    BY <1>2, <1>3, NetInsert DEF NetGrew

\* Why a row is not stored: the first page with room is a node, or the descent
\* for its key ends at no leaf.
StoreFails(m, n, row) ==
    \E p \in HeapPages : /\ FirstRoom(m, n, RowSize[row.val], p)
                         /\ ~(IsHeap(m[p]) /\ DescentDefined(m, root_page, row.key))

GivesUp ==
    /\ op' = Undefined /\ answer' = "none"
    /\ UNCHANGED << mem, num_pages, root_page, disk, file_pages, damage >>

\* The pages with the row in page p of them.
StoredIn(t, m, n, row, p) ==
    /\ p \in HeapPages /\ FirstRoom(m, n, RowSize[row.val], p) /\ IsHeap(m[p])
    /\ Extended(t[p], m[p], row, RowSize[row.val])
    /\ \A x \in PageNums : x # p => t[x] = m[x]
    /\ SameNodes(t, m, TABLE_MAX_PAGES)
    /\ Files(t, n, root_page, disk', file_pages')
    /\ DescentDefined(t, root_page, row.key)
    /\ PointerTo(t, p) \in RowPointers
    /\ CellOf(row.key, PointerTo(t, p)) \in GoodCells(t)

\* What came of its key.
StoreDies ==
    /\ Restart(disk', file_pages')
    /\ answer' = "died" /\ damage' = Died

IndexedAs(new, t, n, row, p) ==
    /\ new = index_insert(t, n, root_page, row.key, PointerTo(t, p))
    /\ new.num_pages <= TABLE_MAX_PAGES

StoreEnds(new, told, next) ==
    /\ mem' = new.pg /\ num_pages' = new.num_pages /\ root_page' = new.root_page
    /\ op' = next /\ answer' = told
    /\ damage' = damage \cup IF new.lost THEN {"lost_child"} ELSE {}

LEMMA StoreCases ==
    ASSUME NEW m, NEW n, Files(m, n, root_page, disk, file_pages),
           NEW row \in RowsPossible, NEW told, NEW next, Store(m, n, row, told, next)
    PROVE  \/ StoreFails(m, n, row) /\ GivesUp
           \/ \E t, p : /\ StoredIn(t, m, n, row, p)
                        /\ \/ StoreDies
                           \/ \E new : IndexedAs(new, t, n, row, p) /\ StoreEnds(new, told, next)
  <1>1. PICK size : size = RowSize[row.val]
    OBVIOUS
  <1>2. /\ size \in Nat /\ size >= 1 /\ row.key \in Nat
    <2>1. row.val \in Values /\ row.key \in Keys
      BY DEF RowsPossible
    <2>2. size \in 1 .. PAGE_SIZE - 4 - 4 /\ PAGE_SIZE \in Nat
      BY <1>1, <2>1, TableAssumption, PageSizeAssumption DEF USED_SIZE, ROW_SIZE_SIZE
    <2>3. row.key \in Nat
      BY <2>1, TableAssumption
    <2> QED
      BY <2>2, <2>3
  <1>3. PICK p \in HeapPages :
           /\ FirstRoom(m, n, size, p)
           /\ IF IsHeap(m[p]) /\ DescentDefined(m, root_page, row.key)
              THEN IndexRow([m EXCEPT ![p] = AppendRow(@, row, size)], n, p,
                            row.key, told, next)
              ELSE /\ op' = Undefined
                   /\ answer' = "none"
                   /\ UNCHANGED << mem, num_pages, root_page, disk,
                                   file_pages, damage >>
    BY <1>1 DEF Store
  <1>4. CASE ~(IsHeap(m[p]) /\ DescentDefined(m, root_page, row.key))
    BY <1>1, <1>3, <1>4 DEF StoreFails, GivesUp
  <1>5. CASE IsHeap(m[p]) /\ DescentDefined(m, root_page, row.key)
    <2>1. PICK q, t : q = AppendRow(m[p], row, size) /\ t = Put(m, p, q)
      OBVIOUS
    <2>2. t = [m EXCEPT ![p] = AppendRow(@, row, size)]
      BY <2>1 DEF Put
    <2>3. IndexRow(t, n, p, row.key, told, next)
      BY <1>3, <1>5, <2>2
    <2>4. PICK new : /\ new = index_insert(t, n, root_page, row.key, PointerTo(t, p))
                     /\ flush(p, t[p])
                     /\ IF new.num_pages > TABLE_MAX_PAGES
                        THEN /\ Restart(disk', file_pages')
                             /\ answer' = "died"
                             /\ damage' = Died
                        ELSE /\ mem' = new.pg
                             /\ num_pages' = new.num_pages
                             /\ root_page' = new.root_page
                             /\ op' = next
                             /\ answer' = told
                             /\ damage' = damage \cup IF new.lost THEN {"lost_child"} ELSE {}
      BY <2>3 DEF IndexRow
    <2>5. PICK e, k : e = disk' /\ k = file_pages'
      OBVIOUS
    <2>6. e = Put(disk, p, t[p]) /\ k = Reach(file_pages, p)
      BY <2>4, <2>5 DEF flush, Put, Reach
    <2>7. PagesOK(m) /\ RowPage(m[p]) /\ Len(m[p].recs) \in Nat /\ p < n
      BY <1>3, <1>5, HeapPageIs DEF Files, FirstRoom
    <2>8. Extended(q, m[p], row, size)
      BY <1>2, <2>1, <2>7, AppendedPage
    <2>9. /\ Files(t, n, root_page, e, k) /\ SameNodes(t, m, TABLE_MAX_PAGES)
          /\ t[p] = q /\ \A x \in PageNums : x # p => t[x] = m[x]
      <3>1. PICK r, d, len : r = root_page /\ d = disk /\ len = file_pages
        OBVIOUS
      <3>2. t[p] = q
        <4>1. m = [x \in PageNums |-> m[x]] /\ p \in PageNums
          BY <1>3, <2>7, PageRange DEF PagesOK
        <4> QED
          BY <2>1, <4>1, PutIs
      <3>3. /\ Files(m, n, r, d, len) /\ IsHeap(m[p]) /\ p < n /\ p \in HeapPages
            /\ Extended(q, m[p], row, size) /\ t = Put(m, p, q)
            /\ e = Put(d, p, q) /\ k = Reach(len, p)
        BY <1>3, <1>5, <2>1, <2>6, <2>7, <2>8, <3>1, <3>2
      <3>4. /\ Files(t, n, r, e, k) /\ SameNodes(t, m, TABLE_MAX_PAGES)
            /\ SameBut(t, m, p)
        BY <3>3, FilesStore
      <3> QED
        BY <3>1, <3>2, <3>4 DEF SameBut
    <2>10. DescentDefined(t, root_page, row.key)
      <3>1. Net(m, TABLE_MAX_PAGES, Nodes(m), PageNums, IndexCells) /\ root_page \in Nodes(m)
        BY <2>7, AllNodes DEF Files
      <3> QED
        BY <1>5, <2>9, <3>1, SameDescent
    <2>11. /\ PointerTo(t, p) \in RowPointers
           /\ CellOf(row.key, PointerTo(t, p)) \in GoodCells(t)
      BY <1>3, <2>7, <2>8, <2>9, PointsToRow
    <2>12. StoredIn(t, m, n, row, p)
      BY <1>1, <1>3, <1>5, <2>5, <2>8, <2>9, <2>10, <2>11 DEF StoredIn
    <2>13. new.num_pages \in Nat
      BY <1>2, <2>4, <2>9, <2>10, <2>11, IndexPages
    <2>14. CASE new.num_pages > TABLE_MAX_PAGES
      BY <2>4, <2>12, <2>14 DEF StoreDies
    <2>15. CASE ~(new.num_pages > TABLE_MAX_PAGES)
      <3>1. new.num_pages <= TABLE_MAX_PAGES
        BY <2>13, <2>15, PageRange
      <3>2. IndexedAs(new, t, n, row, p) /\ StoreEnds(new, told, next)
        BY <2>4, <2>15, <3>1 DEF IndexedAs, StoreEnds
      <3> QED
        BY <2>12, <3>2
    <2> QED
      BY <2>14, <2>15
  <1> QED
    BY <1>4, <1>5

-----------------------------------------------------------------------------
(* Every step keeps the pages sound *)

LEMMA InitSound == Init => Sound
  <1> SUFFICES ASSUME Init PROVE Sound
    OBVIOUS
  <1>1. PICK m, d, node : m = mem /\ d = disk /\ node = initialize_leaf_node
    OBVIOUS
  <1>2. /\ m = [p \in PageNums |-> IF p = ROOT_PAGE THEN node ELSE ZeroPage]
        /\ d = [p \in PageNums |-> ZeroPage]
        /\ num_pages = ROW_START_PAGE /\ root_page = ROOT_PAGE /\ file_pages = 1
        /\ op = Idle
    BY <1>1 DEF Init
  <1>3. PagesOK(d)
    BY <1>2, EmptyPages, PageRange DEF PagesOK
  <1>4. m = [d EXCEPT ![ROOT_PAGE] = IF IsLeaf(@) THEN @ ELSE initialize_leaf_node]
    <2>1. ~IsLeaf(ZeroPage)
      BY EmptyPages, RowPageIs
    <2> QED
      BY <1>1, <1>2, <2>1
  <1>5. num_pages = Larger(ROW_START_PAGE, 1) /\ 1 \in 1 .. TABLE_MAX_PAGES
    BY <1>2, PageRange DEF Larger
  <1>6. PICK n, len : n = num_pages /\ len = 1
    OBVIOUS
  <1>7. \A p \in PageNums : p >= len => d[p] = ZeroPage
    BY <1>2
  <1>8. Files(m, n, ROOT_PAGE, d, len)
    BY <1>3, <1>4, <1>5, <1>6, <1>7, FilesRestart
  <1> QED
    BY <1>1, <1>2, <1>6, <1>8 DEF Sound, OpOK

LEMMA RestartSound ==
    ASSUME NEW d, d = disk', NEW len, len = file_pages', PagesOK(d),
           len \in 1 .. TABLE_MAX_PAGES, \A p \in PageNums : p >= len => d[p] = ZeroPage,
           Restart(disk', file_pages')
    PROVE  Sound' /\ (\A p \in HeapPages : mem'[p] = d[p]) /\ (IsLeaf(d[ROOT_PAGE]) => mem' = d)
  <1>1. PICK m, n : m = mem' /\ n = num_pages'
    OBVIOUS
  <1>2. /\ m = [d EXCEPT ![ROOT_PAGE] = IF IsLeaf(@) THEN @ ELSE initialize_leaf_node]
        /\ n = Larger(ROW_START_PAGE, len) /\ root_page' = ROOT_PAGE /\ op' = Idle
    BY <1>1 DEF Restart
  <1>3. /\ Files(m, n, ROOT_PAGE, d, len)
        /\ SameBut(m, d, ROOT_PAGE)
        /\ IsLeaf(d[ROOT_PAGE]) => m = d
    BY <1>2, FilesRestart
  <1> QED
    BY <1>1, <1>2, <1>3, PageRange DEF Sound, OpOK, SameBut

\* The file alone has what a process needs that opens it.
LEMMA FileIs ==
    ASSUME NEW m, NEW n, NEW r, NEW d, NEW len, Files(m, n, r, d, len)
    PROVE  /\ PagesOK(d) /\ len \in 1 .. TABLE_MAX_PAGES
           /\ \A p \in PageNums : p >= len => d[p] = ZeroPage
  <1>1. n \in ROW_START_PAGE .. TABLE_MAX_PAGES /\ len \in 1 .. n
    BY DEF Files
  <1>2. len \in 1 .. TABLE_MAX_PAGES
    BY <1>1, PageRange
  <1> QED
    BY <1>2 DEF Files

LEMMA DieSound ==
    ASSUME Sound, Die
    PROVE  Sound' /\ \A p \in HeapPages : mem'[p] = disk[p]
  <1>1. PICK d, len : d = disk' /\ len = file_pages'
    OBVIOUS
  <1>2. d = disk /\ len = file_pages /\ Restart(disk', file_pages')
    BY <1>1 DEF Die
  <1>3. /\ PagesOK(d) /\ len \in 1 .. TABLE_MAX_PAGES
        /\ \A p \in PageNums : p >= len => d[p] = ZeroPage
    BY <1>2, FileIs DEF Sound
  <1> QED
    BY <1>1, <1>2, <1>3, RestartSound

LEMMA WalkGoesOn ==
    ASSUME Sound, op.kind \in {"update", "delete"}
    PROVE  WalkAt(op, mem)
  <1>1. Idle.kind = "idle" /\ Undefined.kind = "undefined"
    BY DEF Idle, Undefined
  <1>2. \A p : Closing(p).kind = "close"
    BY DEF Closing
  <1>3. op # Idle /\ op # Undefined /\ op # Closing(op.page)
    BY <1>1, <1>2
  <1> QED
    BY <1>3 DEF Sound, OpOK

LEMMA WalkTyped ==
    ASSUME NEW w \in WalkOps
    PROVE  /\ w.kind \in {"update", "delete"} /\ w.page \in Nat /\ w.idx \in Nat
           /\ w.last \in Nat /\ w.from \in SUBSET RowsPossible
           /\ w.kind = "update" => w.to \in Values
  <1>1. CASE w \in [kind : {"update"}, page : Nat, idx : Nat, last : Nat,
                    from : SUBSET RowsPossible, to : Values]
    BY <1>1
  <1>2. CASE w \in [kind : {"delete"}, page : Nat, idx : Nat, last : Nat,
                    from : SUBSET RowsPossible]
    BY <1>2
  <1> QED
    BY <1>1, <1>2 DEF WalkOps


LEMMA WalkCounts ==
    ASSUME NEW w \in WalkOps, NEW i \in Nat, NEW v, v = [w EXCEPT !.idx = i]
    PROVE  v \in WalkOps /\ v.page = w.page /\ v.idx = i /\ v.last = w.last
  <1>1. CASE w \in [kind : {"update"}, page : Nat, idx : Nat, last : Nat,
                    from : SUBSET RowsPossible, to : Values]
    BY <1>1 DEF WalkOps
  <1>2. CASE w \in [kind : {"delete"}, page : Nat, idx : Nat, last : Nat,
                    from : SUBSET RowsPossible]
    BY <1>2 DEF WalkOps
  <1> QED
    BY <1>1, <1>2 DEF WalkOps

LEMMA FurtherAt ==
    ASSUME NEW w, NEW m, WalkAt(w, m), NEW v, v = [w EXCEPT !.idx = @ + 1]
    PROVE  WalkAt(v, m)
  <1>1. w \in WalkOps
    BY DEF WalkAt
  <1>2. PICK i : i = w.idx + 1
    OBVIOUS
  <1>3. i \in Nat /\ i >= 1
    BY <1>1, <1>2, WalkTyped
  <1>4. v = [w EXCEPT !.idx = i]
    BY <1>2
  <1>5. v \in WalkOps /\ v.page = w.page /\ v.idx = i /\ v.last = w.last
    BY <1>1, <1>3, <1>4, WalkCounts
  <1> QED
    BY <1>3, <1>5 DEF WalkAt

WalkTo(w, p, l) == [w EXCEPT !.page = p, !.idx = 1, !.last = l]

BeginsAt(v, p, l) == v \in WalkOps /\ v.page = p /\ v.idx = 1 /\ v.last = l

LEMMA WalkMoves ==
    ASSUME NEW w \in WalkOps, NEW p \in Nat, NEW l \in Nat
    PROVE  BeginsAt(WalkTo(w, p, l), p, l)
  <1>1. PICK v : v = WalkTo(w, p, l)
    OBVIOUS
  <1>2. v \in WalkOps /\ v.page = p /\ v.idx = 1 /\ v.last = l
    <2>1. CASE w \in [kind : {"update"}, page : Nat, idx : Nat, last : Nat,
                      from : SUBSET RowsPossible, to : Values]
      BY <1>1, <2>1 DEF WalkOps, WalkTo
    <2>2. CASE w \in [kind : {"delete"}, page : Nat, idx : Nat, last : Nat,
                      from : SUBSET RowsPossible]
      BY <1>1, <2>2 DEF WalkOps, WalkTo
    <2> QED
      BY <2>1, <2>2 DEF WalkOps
  <1> QED
    BY <1>1, <1>2 DEF BeginsAt

LEMMA EnterAt ==
    ASSUME NEW w \in WalkOps, NEW m, PagesOK(m), NEW p \in HeapPages, IsHeap(m[p]),
           ~EndsWalk(m[p]),
           NEW v, v = [w EXCEPT !.page = p, !.idx = 1, !.last = Len(m[p].recs)]
    PROVE  WalkAt(v, m)
  <1>1. PICK l : l = Len(m[p].recs)
    OBVIOUS
  <1>2. l \in Nat /\ p \in Nat /\ m[p].recs # << >>
    BY <1>1, HeapPageIs, RowPageIs, PageRange
  <1>3. v \in WalkOps /\ v.page = p /\ v.idx = 1 /\ v.last = l
    <2>1. v = WalkTo(w, p, l)
      BY <1>1 DEF WalkTo
    <2>2. BeginsAt(WalkTo(w, p, l), p, l)
      BY <1>2, WalkMoves
    <2> QED
      BY <2>1, <2>2 DEF BeginsAt
  <1> QED
    BY <1>1, <1>2, <1>3 DEF WalkAt

\* A row is stored: what holds before of the pages holds after.
LEMMA StoreSound ==
    ASSUME Sound, NEW m, NEW n, Files(m, n, root_page, disk, file_pages),
           NEW row \in RowsPossible, NEW told, NEW next, Store(m, n, row, told, next),
           next = Idle \/ WalkAt(next, m)
    PROVE  Sound'
  <1>1. CASE GivesUp
    BY <1>1 DEF GivesUp, Sound, OpOK
  <1>2. ASSUME NEW t, NEW p, StoredIn(t, m, n, row, p), StoreDies
        PROVE  Sound'
    <2>1. PICK d, len : d = disk' /\ len = file_pages'
      OBVIOUS
    <2>2. Files(t, n, root_page, d, len) /\ Restart(disk', file_pages')
      BY <1>2, <2>1 DEF StoredIn, StoreDies
    <2>3. /\ PagesOK(d) /\ len \in 1 .. TABLE_MAX_PAGES
          /\ \A x \in PageNums : x >= len => d[x] = ZeroPage
      BY <2>2, FileIs
    <2> QED
      BY <2>1, <2>2, <2>3, RestartSound
  <1>3. ASSUME NEW t, NEW p, NEW new, StoredIn(t, m, n, row, p), IndexedAs(new, t, n, row, p),
               StoreEnds(new, told, next)
        PROVE  Sound'
    <2>1. PICK d, len, r : d = disk' /\ len = file_pages' /\ r = root_page
      OBVIOUS
    <2>2. /\ Files(t, n, r, d, len) /\ DescentDefined(t, r, row.key)
          /\ PointerTo(t, p) \in RowPointers
          /\ new = index_insert(t, n, r, row.key, PointerTo(t, p))
          /\ new.num_pages <= TABLE_MAX_PAGES
      BY <1>3, <2>1 DEF StoredIn, IndexedAs
    <2>3. row.key \in Nat
      BY TableAssumption DEF RowsPossible
    <2>4. /\ Files(new.pg, new.num_pages, new.root_page, d, len)
          /\ Indexed(new.pg, new.num_pages, t, n)
      BY <2>2, <2>3, FilesIndex
    <2>5. ASSUME WalkAt(next, m) PROVE WalkAt(next, new.pg)
      <3>1. PagesOK(m) /\ PagesOK(t) /\ PagesOK(new.pg)
        BY <2>2, <2>4 DEF Files
      <3>2. RowsKept(t, m)
        BY <1>3, <3>1, KeptExtended DEF StoredIn
      <3>3. RowsKept(new.pg, t)
        BY <2>2, <2>4, <3>1, KeptIndexed DEF Files
      <3>4. WalkAt(next, t)
        BY <2>5, <3>1, <3>2, KeptWalk
      <3> QED
        BY <3>1, <3>3, <3>4, KeptWalk
    <2> QED
      BY <1>3, <2>1, <2>4, <2>5 DEF Sound, StoreEnds, OpOK
  <1> QED
    BY <1>1, <1>2, <1>3, StoreCases

\* t are the pages m with another record i of page p, of the same slot and key.
AlterIn(t, m, p, i, rec) ==
    /\ p \in HeapPages /\ IsHeap(m[p]) /\ i \in 1 .. Len(m[p].recs)
    /\ Altered(t[p], m[p], i, rec)
    /\ t = Put(m, p, t[p]) /\ SameBut(t, m, p)

TombstoneOf(rec) == [rec EXCEPT !.live = FALSE]
RewriteOf(rec, row) == [rec EXCEPT !.val = row]

LEMMA AlterFiles ==
    ASSUME NEW m, NEW n, NEW r, NEW d, NEW len, Files(m, n, r, d, len),
           NEW t, NEW p, NEW i, NEW rec, AlterIn(t, m, p, i, rec)
    PROVE  /\ Files(t, n, r, d, len) /\ SameNodes(t, m, TABLE_MAX_PAGES)
           /\ RowsKept(t, m)
  <1>1. PICK q : q = t[p]
    OBVIOUS
  <1>2. /\ p \in HeapPages /\ IsHeap(m[p]) /\ i \in 1 .. Len(m[p].recs)
        /\ Altered(q, m[p], i, rec) /\ t = Put(m, p, q)
    BY <1>1 DEF AlterIn
  <1>3. Files(t, n, r, d, len) /\ SameNodes(t, m, TABLE_MAX_PAGES)
    BY <1>2, FilesAlter
  <1>4. RowsKept(t, m)
    <2>1. PagesOK(m) /\ \A x \in PageNums : x # p => t[x] = m[x]
      BY DEF Files, AlterIn, SameBut
    <2> QED
      BY <1>1, <1>2, <2>1, KeptAltered
  <1> QED
    BY <1>3, <1>4

LEMMA TombstoneIn ==
    ASSUME NEW m, PagesOK(m), NEW p \in HeapPages, IsHeap(m[p]),
           NEW i \in 1 .. Len(m[p].recs),
           NEW t, t = [m EXCEPT ![p] = Tombstone(@, i)]
    PROVE  AlterIn(t, m, p, i, TombstoneOf(m[p].recs[i]))
  <1>1. PICK q : q = Tombstone(m[p], i)
    OBVIOUS
  <1>2. p \in PageNums /\ RowPage(m[p])
    BY HeapPageIs
  <1>3. t = Put(m, p, q)
    BY <1>1 DEF Put
  <1>4. t[p] = q /\ \A x \in PageNums : x # p => t[x] = m[x]
    <2>1. m = [x \in PageNums |-> m[x]]
      BY DEF PagesOK
    <2> QED
      BY <1>2, <1>3, <2>1, PutIs
  <1>5. Altered(q, m[p], i, TombstoneOf(m[p].recs[i]))
    BY <1>1, <1>2, TombstonePage DEF TombstoneOf
  <1> QED
    BY <1>3, <1>4, <1>5 DEF AlterIn, SameBut

LEMMA RewriteIn ==
    ASSUME NEW m, PagesOK(m), NEW p \in HeapPages, IsHeap(m[p]),
           NEW i \in 1 .. Len(m[p].recs), NEW row \in RowsPossible,
           row.key = m[p].recs[i].val.key,
           NEW t, t = [m EXCEPT ![p] = Rewrite(@, i, row)]
    PROVE  AlterIn(t, m, p, i, RewriteOf(m[p].recs[i], row))
  <1>1. PICK q : q = Rewrite(m[p], i, row)
    OBVIOUS
  <1>2. p \in PageNums /\ RowPage(m[p])
    BY HeapPageIs
  <1>3. t = Put(m, p, q)
    BY <1>1 DEF Put
  <1>4. t[p] = q /\ \A x \in PageNums : x # p => t[x] = m[x]
    <2>1. m = [x \in PageNums |-> m[x]]
      BY DEF PagesOK
    <2> QED
      BY <1>2, <1>3, <2>1, PutIs
  <1>5. Altered(q, m[p], i, RewriteOf(m[p].recs[i], row))
    BY <1>1, <1>2, RewritePage DEF RewriteOf
  <1> QED
    BY <1>3, <1>4, <1>5 DEF AlterIn, SameBut

\* What a lookup finds is a row pointer, in whatever state the index is.
LEMMA FindsPointer ==
    ASSUME NEW m, PagesOK(m), NEW r \in Nodes(m), NEW key, DescentDefined(m, r, key),
           NEW rp \in btree_find(m, r, key)
    PROVE  rp \in RowPointers
  <1>1. PICK N, T, P, G : /\ N = TABLE_MAX_PAGES /\ T = Nodes(m) /\ P = PageNums
                          /\ G = IndexCells
    OBVIOUS
  <1>2. Net(m, N, T, P, G) /\ r \in T /\ G \subseteq Cell(RowPointers)
    BY <1>1, AllNodes DEF IndexCells
  <1>3. \E cell \in G : cell.key = key /\ cell.value = rp
    BY <1>2, NetFind
  <1> QED
    BY <1>2, <1>3 DEF Cell

\* The walk is at a record.
LEMMA AtRowIs ==
    ASSUME Sound, op.kind \in {"update", "delete"}, op.idx <= op.last
    PROVE  /\ WalkAt(op, mem) /\ PagesOK(mem) /\ op.page \in HeapPages /\ IsHeap(mem[op.page])
           /\ op.idx \in 1 .. Len(mem[op.page].recs)
           /\ Row \in Records /\ Row.val \in RowsPossible /\ Row.val.key \in Keys
           /\ op.kind = "update" => op.to \in Values
           /\ op \in WalkOps /\ op.idx \in Nat
  <1>1. WalkAt(op, mem)
    BY WalkGoesOn
  <1>2. op \in WalkOps /\ op.page \in HeapPages /\ IsHeap(mem[op.page])
    BY <1>1 DEF WalkAt
  <1>3. PagesOK(mem)
    BY DEF Sound, Files
  <1>4. op.idx \in Nat /\ op.last \in Nat /\ (op.kind = "update" => op.to \in Values)
    BY <1>2, WalkTyped
  <1>5. op.idx >= 1 /\ op.last <= Len(mem[op.page].recs)
    BY <1>1 DEF WalkAt
  <1>6. RowPage(mem[op.page]) /\ Len(mem[op.page].recs) \in Nat
    BY <1>2, <1>3, HeapPageIs
  <1>7. op.idx \in 1 .. Len(mem[op.page].recs)
    BY <1>4, <1>5, <1>6
  <1>8. Row \in Records
    BY <1>6, <1>7, RowPageIs DEF Row
  <1>9. Row.val \in RowsPossible /\ Row.val.key \in Keys
    BY <1>8, RecordIs
  <1> QED
    BY <1>1, <1>2, <1>3, <1>4, <1>7, <1>8, <1>9

LEMMA EnterSound ==
    ASSUME Sound, NEW p, NEW w \in WalkOps, Enter(p, w)
    PROVE  Sound'
  <1>1. PICK k : k = num_pages'
    OBVIOUS
  <1>2. /\ p \in HeapPages /\ k = Reach(num_pages, p)
        /\ UNCHANGED << mem, root_page, disk, file_pages >>
        /\ op' = IF EndsWalk(mem[p]) THEN Idle
                 ELSE IF IsHeap(mem[p])
                 THEN [w EXCEPT !.page = p, !.idx = 1, !.last = Len(mem[p].recs)]
                 ELSE Undefined
    BY <1>1 DEF Enter, Touched, Reach
  <1>3. Files(mem, k, root_page, disk, file_pages)
    BY <1>2, FilesTouch DEF Sound
  <1>4. OpOK(op', mem, disk, file_pages)
    <2>1. CASE EndsWalk(mem[p]) \/ ~IsHeap(mem[p])
      BY <1>2, <2>1 DEF OpOK
    <2>2. CASE ~EndsWalk(mem[p]) /\ IsHeap(mem[p])
      <3>1. PICK v : v = op'
        OBVIOUS
      <3>2. v = [w EXCEPT !.page = p, !.idx = 1, !.last = Len(mem[p].recs)]
        BY <1>2, <2>2, <3>1
      <3>3. PagesOK(mem)
        BY DEF Sound, Files
      <3>4. WalkAt(v, mem)
        BY <1>2, <2>2, <3>2, <3>3, EnterAt
      <3> QED
        BY <3>1, <3>4 DEF OpOK
    <2> QED
      BY <2>1, <2>2
  <1> QED
    BY <1>1, <1>2, <1>3, <1>4 DEF Sound

LEMMA DeleteWhereSound ==
    ASSUME Sound, NEW S \in Deletes, DeleteWhere(S)
    PROVE  Sound'
  <1>1. PICK w : w = Deleting(0, 0, 0, S)
    OBVIOUS
  <1>2. w \in WalkOps
    <2>1. S \in SUBSET RowsPossible
      BY TableAssumption
    <2> QED
      BY <1>1, <2>1 DEF WalkOps, Deleting
  <1>3. Enter(ROW_START_PAGE, w)
    BY <1>1 DEF DeleteWhere
  <1> QED
    BY <1>2, <1>3, EnterSound

LEMMA UpdateWhereSound ==
    ASSUME Sound, NEW u \in Updates, UpdateWhere(u)
    PROVE  Sound'
  <1>1. PICK w : w = Updating(0, 0, 0, u.where, u.to)
    OBVIOUS
  <1>2. w \in WalkOps
    <2>1. u.where \in SUBSET RowsPossible /\ u.to \in Values
      BY TableAssumption
    <2> QED
      BY <1>1, <2>1 DEF WalkOps, Updating
  <1>3. Enter(ROW_START_PAGE, w)
    BY <1>1 DEF UpdateWhere
  <1> QED
    BY <1>2, <1>3, EnterSound

LEMMA NextPageSound ==
    ASSUME Sound, NextPage
    PROVE  Sound'
  <1>1. op.kind \in {"update", "delete"} /\ Enter(op.page + 1, op)
    BY DEF NextPage, InWalk
  <1>2. op \in WalkOps
    BY <1>1, WalkGoesOn DEF WalkAt
  <1> QED
    BY <1>1, <1>2, EnterSound

\* The full scans of SELECT and of the duplicate check.
LEMMA TouchSound ==
    ASSUME Sound, NEW e \in HeapPages, num_pages' = Touched(e),
           UNCHANGED << mem, root_page, disk, file_pages, op >>
    PROVE  Sound'
  <1>1. PICK k : k = num_pages'
    OBVIOUS
  <1>2. k = Reach(num_pages, e)
    BY <1>1 DEF Touched, Reach
  <1>3. Files(mem, k, root_page, disk, file_pages)
    BY <1>2, FilesTouch DEF Sound
  <1> QED
    BY <1>1, <1>3 DEF Sound

LEMMA InsertSound ==
    ASSUME Sound, NEW row \in Inserts, Insert(row)
    PROVE  Sound'
  <1>1. PICK e \in HeapPages : Store(mem, Touched(e), row, "inserted", Idle)
    BY DEF Insert
  <1>2. PICK n : n = Reach(num_pages, e)
    OBVIOUS
  <1>3. n = Touched(e)
    BY <1>2 DEF Touched, Reach
  <1>4. Files(mem, n, root_page, disk, file_pages)
    BY <1>2, FilesTouch DEF Sound
  <1>5. row \in RowsPossible
    BY TableAssumption
  <1> QED
    BY <1>1, <1>3, <1>4, <1>5, StoreSound

LEMMA SkipSound ==
    ASSUME Sound, Skip
    PROVE  Sound'
  <1>1. op.kind \in {"update", "delete"}
    BY DEF Skip, AtRow
  <1>2. WalkAt(op, mem)
    BY <1>1, WalkGoesOn
  <1>3. WalkAt(Further, mem)
    BY <1>2, FurtherAt DEF Further
  <1> QED
    BY <1>3 DEF Skip, NextRow, Sound, OpOK

\* A deletion reads what it cannot: no leaf at the end of the descent, or no
\* record where the pointer that it finds leads to.
Misled(m, r, key) ==
    \/ ~DescentDefined(m, r, key)
    \/ DescentDefined(m, r, key) /\ \E rp \in btree_find(m, r, key) : SlotAt(m, rp) = {}

\* The index leads from the key to the record that t has given up.
GivenUpBy(t, key) ==
    \E rp \in btree_find(mem, root_page, key) :
        SlotAt(mem, rp) # {} =>
            \E i \in SlotAt(mem, rp) :
                AlterIn(t, mem, rp.page, i, TombstoneOf(mem[rp.page].recs[i]))

\* t are the pages with the row given up, if one was found.
Unindexed(t, key) ==
    /\ t = mem \/ \E p, i : AlterIn(t, mem, p, i, TombstoneOf(mem[p].recs[i]))
    /\ GivenUpBy(t, key)
    /\ DescentDefined(t, root_page, key)
    /\ mem' = delete_from_index(t, root_page, key)
    /\ damage' = damage \cup IF \E p \in HeapPages : EmptyLeaf(mem'[p])
                             THEN {"empty_leaf"} ELSE {}
    /\ NextRow /\ UNCHANGED << num_pages, moved >>

RowLeft == NextRow /\ UNCHANGED << mem, num_pages, damage, moved >>

LEMMA DeleteCases ==
    ASSUME Sound, DeleteRow
    PROVE  \/ GoesWrong /\ Misled(mem, root_page, Row.val.key)
           \/ RowLeft
           \/ \E t : Unindexed(t, Row.val.key)
  <1>1. PICK key : key = Row.val.key
    OBVIOUS
  <1>2. \/ ~DescentDefined(mem, root_page, key) /\ GoesWrong
        \/ /\ DescentDefined(mem, root_page, key)
           /\ \/ RowLeft
              \/ \E rp \in btree_find(mem, root_page, key) : delete_by_id(key, rp)
    BY <1>1 DEF DeleteRow, RowLeft
  <1>3. ASSUME DescentDefined(mem, root_page, key),
               NEW rp \in btree_find(mem, root_page, key), delete_by_id(key, rp)
        PROVE  \/ GoesWrong /\ Misled(mem, root_page, key)
               \/ \E t : Unindexed(t, key)
    <2>1. PICK at : at = SlotAt(mem, rp)
      OBVIOUS
    <2>2. IF at = {} /\ ~Dangles(rp) THEN GoesWrong
          ELSE /\ mem' = delete_from_index(
                            [mem EXCEPT ![rp.page] =
                                IF at = {} THEN @ ELSE Tombstone(@, CHOOSE i \in at : TRUE)],
                            root_page, key)
               /\ damage' = damage \cup IF \E p \in HeapPages : EmptyLeaf(mem'[p])
                                       THEN {"empty_leaf"} ELSE {}
               /\ NextRow
               /\ UNCHANGED << num_pages, moved >>
      BY <1>3, <2>1 DEF delete_by_id
    <2>3. CASE at = {} /\ ~Dangles(rp)
      BY <1>3, <2>1, <2>2, <2>3 DEF Misled
    <2>4. CASE ~(at = {} /\ ~Dangles(rp))
      <3>1. PICK t : t = [mem EXCEPT ![rp.page] =
                             IF at = {} THEN @ ELSE Tombstone(@, CHOOSE i \in at : TRUE)]
        OBVIOUS
      <3>2. /\ mem' = delete_from_index(t, root_page, key)
            /\ damage' = damage \cup IF \E p \in HeapPages : EmptyLeaf(mem'[p])
                                    THEN {"empty_leaf"} ELSE {}
            /\ NextRow /\ UNCHANGED << num_pages, moved >>
        BY <2>2, <2>4, <3>1
      <3>3. PagesOK(mem) /\ root_page \in Nodes(mem)
        BY DEF Sound, Files
      <3>4. rp.page \in HeapPages
        BY <1>3, <3>3, FindsPointer DEF RowPointers
      <3>5. CASE at = {}
        <4>1. t = [mem EXCEPT ![rp.page] = @]
          BY <3>1, <3>5
        <4>2. mem = [p \in PageNums |-> mem[p]]
          BY <3>3 DEF PagesOK
        <4>3. t = mem
          BY <4>1, <4>2
        <4>4. GivenUpBy(t, key)
          BY <1>3, <2>1, <3>5 DEF GivenUpBy
        <4> QED
          BY <1>3, <3>2, <4>3, <4>4 DEF Unindexed
      <3>6. CASE at # {}
        <4>1. PICK i : i = CHOOSE j \in at : TRUE
          OBVIOUS
        <4>2. i \in at /\ t = [mem EXCEPT ![rp.page] = Tombstone(@, i)]
          BY <3>1, <3>6, <4>1
        <4>3. IsHeap(mem[rp.page]) /\ i \in DOMAIN mem[rp.page].recs
          BY <2>1, <4>2 DEF SlotAt
        <4>4. i \in 1 .. Len(mem[rp.page].recs)
          BY <3>3, <3>4, <4>3, HeapPageIs, RowPageIs
        <4>5. AlterIn(t, mem, rp.page, i, TombstoneOf(mem[rp.page].recs[i]))
          BY <3>3, <3>4, <4>2, <4>3, <4>4, TombstoneIn
        <4>6. SameNodes(t, mem, TABLE_MAX_PAGES)
          BY <4>5, AlterFiles DEF Sound
        <4>7. Net(mem, TABLE_MAX_PAGES, Nodes(mem), PageNums, IndexCells)
          BY <3>3, AllNodes
        <4>8. DescentDefined(t, root_page, key)
          BY <1>3, <3>3, <4>6, <4>7, SameDescent
        <4>9. GivenUpBy(t, key)
          BY <1>3, <2>1, <4>2, <4>5 DEF GivenUpBy
        <4> QED
          BY <3>2, <4>5, <4>8, <4>9 DEF Unindexed
      <3> QED
        BY <3>5, <3>6
    <2> QED
      BY <2>3, <2>4
  <1>4. CASE ~DescentDefined(mem, root_page, key) /\ GoesWrong
    BY <1>1, <1>4 DEF Misled
  <1> QED
    BY <1>1, <1>2, <1>3, <1>4

LEMMA DeleteRowSound ==
    ASSUME Sound, DeleteRow
    PROVE  Sound'
  <1>1. op.kind \in {"update", "delete"} /\ op.idx <= op.last
    BY DEF DeleteRow, AtRow
  <1>2. WalkAt(op, mem) /\ WalkAt(Further, mem)
    BY <1>1, AtRowIs, FurtherAt DEF Further
  <1>3. CASE GoesWrong
    BY <1>3 DEF GoesWrong, Sound, OpOK
  <1>4. CASE RowLeft
    BY <1>2, <1>4 DEF RowLeft, NextRow, Sound, OpOK
  <1>5. ASSUME NEW t, Unindexed(t, Row.val.key)
        PROVE  Sound'
    <2>1. PICK key, u : key = Row.val.key /\ u = mem'
      OBVIOUS
    <2>2. /\ DescentDefined(t, root_page, key) /\ u = delete_from_index(t, root_page, key)
          /\ op' = Further /\ UNCHANGED << num_pages, root_page, disk, file_pages >>
      BY <1>5, <2>1 DEF Unindexed, NextRow
    <2>3. PagesOK(mem)
      BY DEF Sound, Files
    <2>4. Files(t, num_pages, root_page, disk, file_pages) /\ RowsKept(t, mem)
      <3>1. CASE t = mem
        BY <2>3, <3>1, KeptSame DEF Sound
      <3>2. CASE \E p, i : AlterIn(t, mem, p, i, TombstoneOf(mem[p].recs[i]))
        BY <3>2, AlterFiles DEF Sound
      <3> QED
        BY <1>5, <3>1, <3>2 DEF Unindexed
    <2>5. /\ Files(u, num_pages, root_page, disk, file_pages)
          /\ \A p \in PageNums : u[p] = t[p] \/ (NodeAt(u, p) /\ NodeAt(t, p))
      BY <2>2, <2>4, FilesDelete
    <2>6. PagesOK(t) /\ PagesOK(u)
      BY <2>4, <2>5 DEF Files
    <2>7. RowsKept(u, t)
      <3>1. \A p \in HeapPages : IsHeap(t[p]) /\ t[p].recs # << >> => u[p] = t[p]
        BY <2>5, <2>6, PageRange, PageKinds
      <3> QED
        BY <2>6, <3>1, KeptSame
    <2>8. WalkAt(Further, u)
      BY <1>2, <2>3, <2>4, <2>6, <2>7, KeptWalk
    <2> QED
      BY <2>1, <2>2, <2>5, <2>8 DEF Sound, OpOK
  <1> QED
    BY <1>3, <1>4, <1>5, DeleteCases

LEMMA ClearSound ==
    ASSUME Sound, DeleteAll
    PROVE  Sound'
  <1>1. PICK e \in HeapPages :
           /\ num_pages' = Touched(e)
           /\ mem' = [p \in PageNums |->
                         IF p = ROOT_PAGE THEN initialize_leaf_node
                         ELSE IF p \in HeapPages /\ p < e THEN ClearedPage
                         ELSE mem[p]]
    BY DEF DeleteAll
  <1>2. PICK t, k : t = mem' /\ k = num_pages'
    OBVIOUS
  <1>3. k = Reach(num_pages, e)
    BY <1>1, <1>2 DEF Touched, Reach
  <1>4. Files(t, k, ROOT_PAGE, disk, file_pages)
    BY <1>1, <1>2, <1>3, FilesClear DEF Sound
  <1>5. op' = Idle /\ root_page' = ROOT_PAGE /\ UNCHANGED << disk, file_pages >>
    BY DEF DeleteAll, Begin
  <1> QED
    BY <1>2, <1>4, <1>5 DEF Sound, OpOK

LEMMA NewRowIs ==
    ASSUME Sound, AtRow("update")
    PROVE  /\ NewRow \in RowsPossible /\ NewRow.key = Row.val.key
           /\ NewRow = [key |-> Row.val.key, val |-> op.to] /\ op.to \in Values
  <1>1. Row \in Records /\ op.to \in Values
    BY AtRowIs DEF AtRow
  <1>2. PICK row, v : row = Row.val /\ v = op.to
    OBVIOUS
  <1>3. row \in RowsPossible /\ row = [key |-> row.key, val |-> row.val]
    BY <1>1, <1>2, RecordIs
  <1>4. NewRow = [row EXCEPT !.val = v]
    BY <1>2 DEF NewRow
  <1>5. NewRow = [key |-> row.key, val |-> v]
    BY <1>3, <1>4
  <1> QED
    BY <1>1, <1>2, <1>3, <1>5 DEF RowsPossible

LEMMA InPlaceIs ==
    ASSUME Sound, UpdateInPlace
    PROVE  AlterIn(mem', mem, op.page, op.idx, RewriteOf(Row, NewRow))
  <1>1. PICK t, p, i, row : t = mem' /\ p = op.page /\ i = op.idx /\ row = NewRow
    OBVIOUS
  <1>2. AtRow("update") /\ t = [mem EXCEPT ![p] = Rewrite(@, i, row)] /\ Row = mem[p].recs[i]
    BY <1>1 DEF UpdateInPlace, Row
  <1>3. /\ PagesOK(mem) /\ p \in HeapPages /\ IsHeap(mem[p]) /\ i \in 1 .. Len(mem[p].recs)
    BY <1>1, <1>2, AtRowIs DEF AtRow
  <1>4. row \in RowsPossible /\ row.key = mem[p].recs[i].val.key
    BY <1>1, <1>2, NewRowIs
  <1>5. AlterIn(t, mem, p, i, RewriteOf(mem[p].recs[i], row))
    BY <1>2, <1>3, <1>4, RewriteIn
  <1> QED
    BY <1>1, <1>2, <1>5

LEMMA UpdateInPlaceSound ==
    ASSUME Sound, UpdateInPlace
    PROVE  Sound'
  <1>1. op.kind \in {"update", "delete"} /\ op.idx <= op.last
    BY DEF UpdateInPlace, AtRow
  <1>2. WalkAt(op, mem) /\ WalkAt(Further, mem)
    BY <1>1, AtRowIs, FurtherAt DEF Further
  <1>3. PICK t : t = mem'
    OBVIOUS
  <1>4. AlterIn(t, mem, op.page, op.idx, RewriteOf(Row, NewRow))
    BY <1>3, InPlaceIs
  <1>5. Files(t, num_pages, root_page, disk, file_pages) /\ RowsKept(t, mem)
    BY <1>4, AlterFiles DEF Sound
  <1>6. PagesOK(mem) /\ PagesOK(t)
    BY <1>5 DEF Sound, Files
  <1>7. WalkAt(Further, t)
    BY <1>2, <1>5, <1>6, KeptWalk
  <1> QED
    BY <1>3, <1>5, <1>7 DEF UpdateInPlace, NextRow, Sound, OpOK

\* The row that grows has been given up; a scan ends at page e.
GivenUp(m, e) ==
    /\ e \in HeapPages /\ Ends(e)
    /\ AlterIn(m, mem, op.page, op.idx, TombstoneOf(Row))

Dropped(m, e) ==
    /\ mem' = m /\ num_pages' = Reach(num_pages, e)
    /\ NextRow /\ UNCHANGED << damage, moved >>

LEMMA MoveCases ==
    ASSUME Sound, UpdateMove
    PROVE  \E m, e :
              /\ GivenUp(m, e)
              /\ \/ Dropped(m, e)
                 \/ /\ ~KeyBefore(m, e, NewRow.key)
                    /\ Store(m, Reach(num_pages, e), NewRow, "none", Further)
  <1>1. PICK e \in HeapPages :
           /\ Ends(e)
           /\ LET m == [mem EXCEPT ![op.page] = Tombstone(@, op.idx)]
              IN  IF KeyBefore(m, e, NewRow.key)
                  THEN /\ mem' = m
                       /\ num_pages' = Touched(e)
                       /\ NextRow
                       /\ UNCHANGED << damage, moved >>
                  ELSE /\ Store(m, Touched(e), NewRow, "none", Further)
                       /\ moved' = moved \cup {NewRow.key}
    BY DEF UpdateMove
  <1>2. PICK m, p, i : p = op.page /\ i = op.idx /\ m = [mem EXCEPT ![p] = Tombstone(@, i)]
    OBVIOUS
  <1>3. /\ PagesOK(mem) /\ p \in HeapPages /\ IsHeap(mem[p]) /\ i \in 1 .. Len(mem[p].recs)
        /\ Row = mem[p].recs[i]
    BY <1>2, AtRowIs DEF UpdateMove, AtRow, Row
  <1>4. AlterIn(m, mem, p, i, TombstoneOf(mem[p].recs[i]))
    BY <1>2, <1>3, TombstoneIn
  <1>5. GivenUp(m, e)
    BY <1>1, <1>2, <1>3, <1>4 DEF GivenUp
  <1>6. Touched(e) = Reach(num_pages, e)
    BY DEF Touched, Reach
  <1>7. CASE KeyBefore(m, e, NewRow.key)
    BY <1>1, <1>2, <1>5, <1>6, <1>7 DEF Dropped
  <1>8. CASE ~KeyBefore(m, e, NewRow.key)
    BY <1>1, <1>2, <1>5, <1>6, <1>8
  <1> QED
    BY <1>7, <1>8

LEMMA UpdateMoveSound ==
    ASSUME Sound, UpdateMove
    PROVE  Sound'
  <1>1. op.kind \in {"update", "delete"} /\ op.idx <= op.last /\ AtRow("update")
    BY DEF UpdateMove, AtRow
  <1>2. WalkAt(op, mem) /\ WalkAt(Further, mem)
    BY <1>1, AtRowIs, FurtherAt DEF Further
  <1>3. PICK m, e :
           /\ GivenUp(m, e)
           /\ \/ Dropped(m, e)
              \/ Store(m, Reach(num_pages, e), NewRow, "none", Further)
    BY MoveCases
  <1>4. PICK n : n = Reach(num_pages, e)
    OBVIOUS
  <1>5. Files(m, num_pages, root_page, disk, file_pages) /\ RowsKept(m, mem)
    BY <1>3, AlterFiles DEF GivenUp, Sound
  <1>6. Files(m, n, root_page, disk, file_pages)
    BY <1>3, <1>4, <1>5, FilesTouch DEF GivenUp
  <1>7. WalkAt(Further, m)
    <2>1. PagesOK(mem) /\ PagesOK(m)
      BY <1>5 DEF Sound, Files
    <2> QED
      BY <1>2, <1>5, <2>1, KeptWalk
  <1>8. CASE Dropped(m, e)
    BY <1>4, <1>6, <1>7, <1>8 DEF Dropped, NextRow, Sound, OpOK
  <1>9. CASE Store(m, n, NewRow, "none", Further)
    BY <1>1, <1>6, <1>7, <1>9, NewRowIs, StoreSound
  <1> QED
    BY <1>3, <1>4, <1>8, <1>9

-----------------------------------------------------------------------------
(* The end of a process *)

LEMMA ClosingAt ==
    ASSUME Sound, op.kind = "close"
    PROVE  CloseAt(op, mem, disk, file_pages)
  <1>1. op # Idle /\ op # Undefined
    BY DEF Idle, Undefined
  <1>2. ~WalkAt(op, mem)
    BY WalkTyped DEF WalkAt
  <1> QED
    BY <1>1, <1>2 DEF Sound, OpOK

LEMMA CloseSound ==
    ASSUME Sound, Close
    PROVE  Sound'
  <1>1. PICK w : w = Closing(ROOT_PAGE)
    OBVIOUS
  <1>2. w.page = 1 /\ w = Closing(w.page)
    BY <1>1, PageRange DEF Closing
  <1>3. Files(mem, num_pages, root_page, disk, file_pages)
    BY DEF Sound
  <1>4. 1 \in 1 .. file_pages
    <2>1. num_pages \in Nat /\ file_pages \in 1 .. num_pages
      BY <1>3, PageRange DEF Files
    <2> QED
      BY <2>1
  <1>5. \A p \in PageNums : ~(1 <= p /\ p < 1)
    BY PageRange
  <1>6. CloseAt(w, mem, disk, file_pages)
    BY <1>2, <1>4, <1>5 DEF CloseAt
  <1>7. op' = w /\ UNCHANGED << mem, num_pages, root_page, disk, file_pages >>
    BY <1>1 DEF Close
  <1> QED
    BY <1>2, <1>3, <1>6, <1>7 DEF Sound, OpOK

LEMMA CloseWriteSound ==
    ASSUME Sound, CloseWrite
    PROVE  Sound'
  <1>1. PICK p, e, k : p = op.page /\ e = disk' /\ k = file_pages'
    OBVIOUS
  <1>2. /\ p < num_pages /\ e = Put(disk, p, mem[p]) /\ k = Reach(file_pages, p)
        /\ op' = Closing(p + 1) /\ UNCHANGED << mem, num_pages, root_page >>
    BY <1>1 DEF CloseWrite, flush, Put, Reach
  <1>3. /\ Files(mem, num_pages, root_page, disk, file_pages)
        /\ p \in Nat /\ p \in 1 .. file_pages
        /\ \A x \in PageNums : 1 <= x /\ x < p => disk[x] = mem[x]
    BY <1>1, ClosingAt DEF CloseWrite, Sound, CloseAt
  <1>4. /\ num_pages \in Nat /\ num_pages <= TABLE_MAX_PAGES /\ file_pages \in Nat
        /\ file_pages <= num_pages /\ TABLE_MAX_PAGES \in Nat
    BY <1>3, PageRange DEF Files
  <1>5. p \in PageNums /\ p # 0
    BY <1>2, <1>3, <1>4 DEF PageNums
  <1>6. /\ Files(mem, num_pages, root_page, e, k) /\ e[p] = mem[p]
        /\ \A x \in PageNums : x # p => e[x] = disk[x]
    BY <1>2, <1>3, <1>5, FilesFlush
  <1>7. PICK w : w = Closing(p + 1)
    OBVIOUS
  <1>8. w.page = p + 1 /\ w = Closing(w.page)
    BY <1>7 DEF Closing
  <1>9. w.page \in Nat /\ w.page \in 1 .. k
    BY <1>2, <1>3, <1>4, <1>8 DEF Reach, Larger
  <1>10. \A x \in PageNums : 1 <= x /\ x < w.page => e[x] = mem[x]
    <2> SUFFICES ASSUME NEW x \in PageNums, 1 <= x, x < w.page PROVE e[x] = mem[x]
      OBVIOUS
    <2>1. x = p \/ x < p
      BY <1>3, <1>8, PageRange
    <2>2. x < p => x # p
      BY <1>3
    <2> QED
      BY <1>3, <1>6, <2>1, <2>2
  <1>11. CloseAt(w, mem, e, k)
    BY <1>9, <1>10 DEF CloseAt
  <1> QED
    BY <1>1, <1>2, <1>6, <1>7, <1>8, <1>11 DEF Sound, OpOK

\* A file that was closed in order is opened with the pages it was closed with.
LEMMA ReopenSound ==
    ASSUME Sound, Reopen
    PROVE  Sound' /\ mem' = mem /\ root_page' = ROOT_PAGE
  <1>1. PICK p, d, len : p = op.page /\ d = disk' /\ len = file_pages'
    OBVIOUS
  <1>2. /\ d = disk /\ len = file_pages /\ Restart(disk', file_pages') /\ p >= num_pages
        /\ op.kind = "close"
    BY <1>1 DEF Reopen
  <1>3. /\ Files(mem, num_pages, root_page, d, len)
        /\ p \in Nat /\ p \in 1 .. len
        /\ \A x \in PageNums : 1 <= x /\ x < p => d[x] = mem[x]
    BY <1>1, <1>2, ClosingAt DEF Sound, CloseAt
  <1>4. num_pages \in Nat /\ len \in Nat /\ len <= num_pages /\ p = len /\ p = num_pages
    BY <1>2, <1>3, PageRange DEF Files
  <1>5. ASSUME NEW x \in PageNums PROVE d[x] = mem[x]
    <2>1. x \in Nat
      BY PageRange
    <2>2. CASE x = 0
      BY <1>3, <2>2 DEF Files, PagesOK
    <2>3. CASE 1 <= x /\ x < p
      BY <1>3, <2>3
    <2>4. CASE x >= p
      BY <1>3, <1>4, <2>4 DEF Files
    <2> QED
      BY <1>3, <2>1, <2>2, <2>3, <2>4
  <1>6. d = mem
    BY <1>3, <1>5 DEF Files, PagesOK
  <1>7. IsLeaf(d[ROOT_PAGE])
    BY <1>3, <1>6 DEF Files
  <1>8. /\ PagesOK(d) /\ len \in 1 .. TABLE_MAX_PAGES
        /\ \A x \in PageNums : x >= len => d[x] = ZeroPage
    BY <1>3, FileIs
  <1>9. Sound' /\ mem' = d
    BY <1>1, <1>2, <1>7, <1>8, RestartSound
  <1> QED
    BY <1>2, <1>6, <1>9 DEF Restart

LEMMA StepSound ==
    ASSUME Sound, [Next]_vars
    PROVE  Sound'
  <1>1. CASE UNCHANGED vars
    BY <1>1 DEF vars, Sound
  <1>2. ASSUME NEW row \in Inserts, InsertDuplicate(row) PROVE Sound'
    BY <1>2, TouchSound DEF InsertDuplicate
  <1>3. CASE Select
    <2>1. PICK e \in HeapPages : num_pages' = Touched(e)
      BY <1>3 DEF Select
    <2>2. UNCHANGED << mem, root_page, disk, file_pages, op >>
      BY <1>3 DEF Select
    <2> QED
      BY <2>1, <2>2, TouchSound
  <1>4. CASE Killed \/ WalkExits
    BY <1>4, DieSound DEF Killed, WalkExits
  <1> QED
    BY <1>1, <1>2, <1>3, <1>4, InsertSound, DeleteWhereSound, UpdateWhereSound,
       NextPageSound, SkipSound, DeleteRowSound, ClearSound, UpdateInPlaceSound,
       UpdateMoveSound, CloseSound, CloseWriteSound, ReopenSound DEF Next

\* Every page is one of rows or a node, every live row is in the file, and nothing
\* was written behind the end: in every history, whatever was killed.
THEOREM PagesStaySound == Spec => []Sound
  BY InitSound, StepSound, PTL DEF Spec

-----------------------------------------------------------------------------
(* What a kill leaves *)

\* All keys but that of the record are still there.
LEMMA KeysAltered ==
    ASSUME NEW m, PagesOK(m), NEW t, NEW p, NEW i, NEW rec, AlterIn(t, m, p, i, rec)
    PROVE  KeysOf(m) \subseteq KeysOf(t) \cup {m[p].recs[i].val.key}
  <1> SUFFICES ASSUME NEW row \in RowsOf(m), row.key # m[p].recs[i].val.key
               PROVE  row.key \in KeysOf(t)
    BY DEF KeysOf
  <1>1. PICK x, j : x \in HeapPages /\ IsHeap(m[x]) /\ j \in LiveIn(m[x]) /\ row = m[x].recs[j].val
    BY RowIn
  <1>2. IsHeap(t[x]) /\ j \in LiveIn(t[x]) /\ t[x].recs[j] = m[x].recs[j]
    <2>1. CASE x # p
      <3>1. t[x] = m[x]
        BY <1>1, <2>1, PageRange DEF AlterIn, SameBut
      <3> QED
        BY <1>1, <3>1
    <2>2. CASE x = p
      <3>1. /\ RowPage(t[p]) /\ RowPage(m[p]) /\ Len(t[p].recs) = Len(m[p].recs)
            /\ \A l \in 1 .. Len(m[p].recs) : l # i => t[p].recs[l] = m[p].recs[l]
        BY HeapPageIs DEF AlterIn, Altered
      <3>2. j # i
        BY <1>1, <2>2
      <3>3. /\ IsHeap(t[p])
            /\ LiveIn(t[p]) = {l \in 1 .. Len(t[p].recs) : t[p].recs[l].live}
            /\ LiveIn(m[p]) = {l \in 1 .. Len(m[p].recs) : m[p].recs[l].live}
        BY <3>1, RowPageIs
      <3>4. j \in 1 .. Len(m[p].recs) /\ m[p].recs[j].live
        BY <1>1, <2>2, <3>3
      <3>5. t[p].recs[j] = m[p].recs[j]
        BY <3>1, <3>2, <3>4
      <3> QED
        BY <2>2, <3>1, <3>3, <3>4, <3>5
    <2> QED
      BY <2>1, <2>2
  <1>3. row \in RowsOf(t)
    BY <1>1, <1>2, RowIn
  <1> QED
    BY <1>3 DEF KeysOf

LEMMA SameRows ==
    ASSUME NEW m, NEW t, \A p \in HeapPages : t[p] = m[p]
    PROVE  RowsOf(t) = RowsOf(m)
  <1>1. ASSUME NEW row PROVE row \in RowsOf(t) <=> row \in RowsOf(m)
    BY RowIn
  <1> QED
    BY <1>1

LEMMA DieKeepsKeys ==
    ASSUME Sound, Die
    PROVE  KeysOf(mem) \subseteq KeysOf(mem')
  <1>1. KeysOf(mem) \subseteq KeysOf(disk)
    BY BackedKeys DEF Sound, Files
  <1>2. PICK t : t = mem'
    OBVIOUS
  <1>3. \A p \in HeapPages : t[p] = disk[p]
    BY <1>2, DieSound
  <1>4. RowsOf(t) = RowsOf(disk)
    BY <1>3, SameRows
  <1> QED
    BY <1>1, <1>2, <1>4 DEF KeysOf

LEMMA StoredKeys ==
    ASSUME NEW m, PagesOK(m), NEW n, NEW row, NEW t, NEW p, StoredIn(t, m, n, row, p)
    PROVE  RowsOf(t) = RowsOf(m) \cup {row} /\ KeysOf(t) = KeysOf(m) \cup {row.key}
  <1>1. /\ p \in HeapPages /\ IsHeap(m[p]) /\ Extended(t[p], m[p], row, RowSize[row.val])
        /\ \A x \in PageNums : x # p => t[x] = m[x]
    BY DEF StoredIn
  <1>2. PICK q, size : q = t[p] /\ size = RowSize[row.val]
    OBVIOUS
  <1>3. /\ Extended(q, m[p], row, size) /\ t[p] = q /\ p \in HeapPages /\ IsHeap(m[p])
        /\ \A x \in PageNums : x # p => t[x] = m[x]
    BY <1>1, <1>2
  <1>4. RowAdded(t, m, row)
    BY <1>3, RowsExtended
  <1> QED
    BY <1>4 DEF KeysOf, RowAdded

LEMMA StoreDiesKeeps ==
    ASSUME NEW m, PagesOK(m), NEW n, NEW row, NEW t, NEW p, StoredIn(t, m, n, row, p), StoreDies
    PROVE  KeysOf(m) \cup {row.key} \subseteq KeysOf(mem')
  <1>1. PICK d, len, u : d = disk' /\ len = file_pages' /\ u = mem'
    OBVIOUS
  <1>2. Files(t, n, root_page, d, len) /\ Restart(disk', file_pages')
    BY <1>1 DEF StoredIn, StoreDies
  <1>3. /\ PagesOK(d) /\ len \in 1 .. TABLE_MAX_PAGES
        /\ \A x \in PageNums : x >= len => d[x] = ZeroPage
    BY <1>2, FileIs
  <1>4. \A x \in HeapPages : u[x] = d[x]
    BY <1>1, <1>2, <1>3, RestartSound
  <1>5. KeysOf(t) \subseteq KeysOf(d)
    BY <1>2, BackedKeys DEF Files
  <1>6. KeysOf(u) = KeysOf(d)
    BY <1>4, SameRows DEF KeysOf
  <1> QED
    BY <1>1, <1>5, <1>6, StoredKeys

LEMMA InsertKeepsKeys ==
    ASSUME Sound, NEW row \in Inserts, Insert(row), answer' = "died"
    PROVE  KeysOf(mem) \subseteq KeysOf(mem')
  <1>1. PICK e \in HeapPages : Store(mem, Touched(e), row, "inserted", Idle)
    BY DEF Insert
  <1>2. PICK n : n = Reach(num_pages, e)
    OBVIOUS
  <1>3. Files(mem, n, root_page, disk, file_pages) /\ row \in RowsPossible
    BY <1>2, FilesTouch, TableAssumption DEF Sound
  <1>4. Store(mem, n, row, "inserted", Idle)
    BY <1>1, <1>2 DEF Touched, Reach
  <1>5. PICK t, p : StoredIn(t, mem, n, row, p) /\ StoreDies
    BY <1>3, <1>4, StoreCases DEF GivesUp, StoreEnds
  <1>6. PagesOK(mem)
    BY <1>3 DEF Files
  <1> QED
    BY <1>5, <1>6, StoreDiesKeeps

LEMMA MoveKeepsKeys ==
    ASSUME Sound, UpdateMove, answer' = "died"
    PROVE  KeysOf(mem) \subseteq KeysOf(mem')
  <1>1. PICK m, e :
           /\ GivenUp(m, e)
           /\ \/ Dropped(m, e)
              \/ Store(m, Reach(num_pages, e), NewRow, "none", Further)
    BY MoveCases
  <1>2. PICK n : n = Reach(num_pages, e)
    OBVIOUS
  <1>3. Files(m, n, root_page, disk, file_pages)
    <2>1. Files(m, num_pages, root_page, disk, file_pages)
      BY <1>1, AlterFiles DEF GivenUp, Sound
    <2> QED
      BY <1>1, <1>2, <2>1, FilesTouch DEF GivenUp
  <1>4. NewRow \in RowsPossible /\ NewRow.key = Row.val.key
    BY NewRowIs DEF UpdateMove
  <1>5. Store(m, n, NewRow, "none", Further)
    BY <1>1, <1>2 DEF Dropped, NextRow
  <1>6. PICK t, p : StoredIn(t, m, n, NewRow, p) /\ StoreDies
    BY <1>3, <1>4, <1>5, StoreCases DEF GivesUp, StoreEnds
  <1>7. KeysOf(m) \cup {NewRow.key} \subseteq KeysOf(mem')
    BY <1>3, <1>6, StoreDiesKeeps DEF Files
  <1>8. KeysOf(mem) \subseteq KeysOf(m) \cup {Row.val.key}
    BY <1>1, KeysAltered DEF GivenUp, Row, Sound, Files
  <1> QED
    BY <1>4, <1>7, <1>8

LEMMA StepKeepsKeys ==
    ASSUME Sound, [Next]_vars, answer' = "died"
    PROVE  KeysOf(mem) \subseteq KeysOf(mem')
  <1>1. CASE UNCHANGED mem
    BY <1>1
  <1>2. CASE Killed \/ WalkExits
    BY <1>2, DieKeepsKeys DEF Killed, WalkExits
  <1>3. CASE Reopen
    BY <1>3, ReopenSound
  <1>4. ASSUME NEW row \in Inserts, Insert(row) \/ InsertDuplicate(row)
        PROVE  KeysOf(mem) \subseteq KeysOf(mem')
    BY <1>4, InsertKeepsKeys DEF InsertDuplicate
  <1>5. CASE UpdateMove
    BY <1>5, MoveKeepsKeys
  <1>6. ~DeleteRow
    BY DeleteCases DEF GoesWrong, RowLeft, Unindexed, NextRow
  <1>7. ~Select /\ ~NextPage /\ ~Skip /\ ~DeleteAll /\ ~UpdateInPlace /\ ~Close
    BY DEF Select, NextPage, Enter, Skip, NextRow, DeleteAll, UpdateInPlace, Close
  <1>8. (\A S \in Deletes : ~DeleteWhere(S)) /\ (\A u \in Updates : ~UpdateWhere(u))
    BY DEF DeleteWhere, UpdateWhere, Enter
  <1>9. CloseWrite => UNCHANGED mem
    BY DEF CloseWrite
  <1>10. UNCHANGED vars => UNCHANGED mem
    BY DEF vars
  <1> QED
    BY <1>1, <1>2, <1>3, <1>4, <1>5, <1>6, <1>7, <1>8, <1>9, <1>10 DEF Next

\* A kill takes no key from the table, at whatever point of a statement or of
\* the destructor it comes, on any pages and with rows of any sizes.
THEOREM KillsKeepKeys == Spec => KillKeepsKeys
  <1>1. ASSUME Sound, [Next]_vars
        PROVE  [answer' = "died" =>
                   {row.key : row \in LiveRows} \subseteq {row.key : row \in LiveRows'}]_vars
    <2>1. answer' = "died" => KeysOf(mem) \subseteq KeysOf(mem')
      BY <1>1, StepKeepsKeys
    <2> QED
      BY <2>1 DEF KeysOf, RowsOf, LiveRows
  <1> QED
    BY <1>1, PagesStaySound, PTL DEF Spec, KillKeepsKeys

-----------------------------------------------------------------------------
(* The index leads to rows of its keys *)

LEMMA InsertCases ==
    ASSUME Sound, NEW row \in Inserts, Insert(row)
    PROVE  /\ row \in RowsPossible
           /\ \E e, n :
              /\ e \in HeapPages /\ Ends(e) /\ ~KeyBefore(mem, e, row.key)
              /\ n = Reach(num_pages, e)
              /\ Files(mem, n, root_page, disk, file_pages)
              /\ \/ StoreFails(mem, n, row) /\ GivesUp
                 \/ \E t, p : /\ StoredIn(t, mem, n, row, p)
                              /\ \/ StoreDies
                                 \/ \E new : /\ IndexedAs(new, t, n, row, p)
                                             /\ StoreEnds(new, "inserted", Idle)
  <1>1. PICK e \in HeapPages : /\ Ends(e) /\ ~KeyBefore(mem, e, row.key)
                               /\ Store(mem, Touched(e), row, "inserted", Idle)
    BY DEF Insert
  <1>2. PICK n : n = Reach(num_pages, e)
    OBVIOUS
  <1>3. Files(mem, n, root_page, disk, file_pages) /\ row \in RowsPossible
    BY <1>2, FilesTouch, TableAssumption DEF Sound
  <1>4. Store(mem, n, row, "inserted", Idle)
    BY <1>1, <1>2 DEF Touched, Reach
  <1>5. \/ StoreFails(mem, n, row) /\ GivesUp
        \/ \E t, p : /\ StoredIn(t, mem, n, row, p)
                     /\ \/ StoreDies
                        \/ \E new : /\ IndexedAs(new, t, n, row, p)
                                    /\ StoreEnds(new, "inserted", Idle)
    BY <1>3, <1>4, StoreCases
  <1> QED
    BY <1>1, <1>2, <1>3, <1>5

LEMMA UpdateCases ==
    ASSUME Sound, UpdateMove
    PROVE  \E m, e, n :
              /\ GivenUp(m, e) /\ n = Reach(num_pages, e)
              /\ Files(m, n, root_page, disk, file_pages)
              /\ SameNodes(m, mem, TABLE_MAX_PAGES) /\ RowsKept(m, mem)
              /\ \/ Dropped(m, e)
                 \/ /\ ~KeyBefore(m, e, NewRow.key)
                    /\ \/ StoreFails(m, n, NewRow) /\ GivesUp
                       \/ \E t, p : /\ StoredIn(t, m, n, NewRow, p)
                                    /\ \/ StoreDies
                                       \/ \E new : /\ IndexedAs(new, t, n, NewRow, p)
                                                   /\ StoreEnds(new, "none", Further)
  <1>1. PICK m, e :
           /\ GivenUp(m, e)
           /\ \/ Dropped(m, e)
              \/ /\ ~KeyBefore(m, e, NewRow.key)
                 /\ Store(m, Reach(num_pages, e), NewRow, "none", Further)
    BY MoveCases
  <1>2. PICK n : n = Reach(num_pages, e)
    OBVIOUS
  <1>3. /\ Files(m, num_pages, root_page, disk, file_pages)
        /\ SameNodes(m, mem, TABLE_MAX_PAGES) /\ RowsKept(m, mem)
    BY <1>1, AlterFiles DEF GivenUp, Sound
  <1>4. Files(m, n, root_page, disk, file_pages)
    BY <1>1, <1>2, <1>3, FilesTouch DEF GivenUp
  <1>5. NewRow \in RowsPossible
    BY NewRowIs DEF UpdateMove
  <1>6. ASSUME Store(m, n, NewRow, "none", Further)
        PROVE  \/ StoreFails(m, n, NewRow) /\ GivesUp
               \/ \E t, p : /\ StoredIn(t, m, n, NewRow, p)
                            /\ \/ StoreDies
                               \/ \E new : /\ IndexedAs(new, t, n, NewRow, p)
                                           /\ StoreEnds(new, "none", Further)
    BY <1>4, <1>5, <1>6, StoreCases
  <1> QED
    BY <1>1, <1>2, <1>3, <1>4, <1>6

\* Of the damage, only DELETE without a condition undoes some, to the index.
LEMMA DamageGrows ==
    ASSUME Sound, [Next]_vars
    PROVE  damage \ {"lost_child", "stale_root"} \subseteq damage'
  <1>1. CASE UNCHANGED damage
    BY <1>1
  <1>2. CASE Killed \/ WalkExits
    BY <1>2 DEF Killed, WalkExits, Die, Died
  <1>3. ASSUME NEW row \in Inserts, Insert(row)
        PROVE  damage \subseteq damage'
    BY <1>3, InsertCases DEF GivesUp, StoreDies, Died, StoreEnds
  <1>4. CASE UpdateMove
    BY <1>4, UpdateCases DEF Dropped, GivesUp, StoreDies, Died, StoreEnds
  <1>5. CASE DeleteRow
    BY <1>5, DeleteCases DEF GoesWrong, RowLeft, Unindexed
  <1>6. CASE DeleteAll
    BY <1>6 DEF DeleteAll
  <1>7. CASE Reopen
    BY <1>7 DEF Reopen
  <1>8. ASSUME \/ \E row \in Inserts : InsertDuplicate(row)
               \/ Select \/ (\E S \in Deletes : DeleteWhere(S))
               \/ (\E u \in Updates : UpdateWhere(u)) \/ NextPage \/ Skip \/ UpdateInPlace
               \/ Close \/ CloseWrite \/ UNCHANGED vars
        PROVE  UNCHANGED damage
    BY <1>8 DEF InsertDuplicate, Select, DeleteWhere, UpdateWhere, NextPage, Enter, Skip,
       UpdateInPlace, Close, CloseWrite, vars
  <1> QED
    BY <1>1, <1>2, <1>3, <1>4, <1>5, <1>6, <1>7, <1>8 DEF Next

LEMMA AlteredIndex ==
    ASSUME NEW m, NEW n, NEW r, NEW d, NEW len, Files(m, n, r, d, len), Index(m, r),
           NEW t, NEW p, NEW i, NEW rec, AlterIn(t, m, p, i, rec)
    PROVE  Index(t, r)
  <1>1. PICK T \in SUBSET PageNums : IndexIn(m, r, T)
    BY DEF Index
  <1>2. /\ Files(t, n, r, d, len) /\ SameNodes(t, m, TABLE_MAX_PAGES)
        /\ RowsKept(t, m)
    BY AlterFiles
  <1>3. PagesOK(m) /\ PagesOK(t)
    BY <1>2 DEF Files
  <1>4. IndexIn(t, r, T)
    BY <1>1, <1>2, <1>3, IndexKept
  <1> QED
    BY <1>4 DEF Index

LEMMA StoredIndex ==
    ASSUME NEW m, NEW n, NEW d, NEW len, Files(m, n, root_page, d, len), Index(m, root_page),
           NEW row \in RowsPossible, NEW t, NEW p, StoredIn(t, m, n, row, p),
           NEW new, IndexedAs(new, t, n, row, p)
    PROVE  Index(new.pg, new.root_page)
  <1>1. PICK T \in SUBSET PageNums : IndexIn(m, root_page, T)
    BY DEF Index
  <1>2. PICK e, l, r : e = disk' /\ l = file_pages' /\ r = root_page
    OBVIOUS
  <1>3. Files(t, n, r, e, l)
    BY <1>2 DEF StoredIn
  <1>4. PagesOK(m) /\ PagesOK(t)
    BY <1>3 DEF Files
  <1>5. RowsKept(t, m) /\ SameNodes(t, m, TABLE_MAX_PAGES)
    BY <1>4, KeptExtended DEF StoredIn
  <1>6. IndexIn(t, r, T)
    BY <1>1, <1>2, <1>4, <1>5, IndexKept
  <1>7. row.key \in Nat
    BY TableAssumption DEF RowsPossible
  <1>8. /\ PointerTo(t, p) \in RowPointers
        /\ CellOf(row.key, PointerTo(t, p)) \in GoodCells(t)
        /\ DescentDefined(t, r, row.key)
        /\ new = index_insert(t, n, r, row.key, PointerTo(t, p))
        /\ new.num_pages <= TABLE_MAX_PAGES
    BY <1>2 DEF StoredIn, IndexedAs
  <1>9. PICK key, value : key = row.key /\ value = PointerTo(t, p)
    OBVIOUS
  <1>10. /\ key \in Nat /\ value \in RowPointers /\ CellOf(key, value) \in GoodCells(t)
         /\ DescentDefined(t, r, key) /\ new = index_insert(t, n, r, key, value)
    BY <1>7, <1>8, <1>9
  <1> QED
    BY <1>3, <1>6, <1>8, <1>10, IndexGrows

LEMMA UnindexedIndex ==
    ASSUME Sound, Index(mem, root_page), NEW t, NEW key, Unindexed(t, key)
    PROVE  Index(mem', root_page)
  <1>1. PICK u : u = mem'
    OBVIOUS
  <1>2. DescentDefined(t, root_page, key) /\ u = delete_from_index(t, root_page, key)
    BY <1>1 DEF Unindexed
  <1>3. Files(t, num_pages, root_page, disk, file_pages) /\ Index(t, root_page)
    <2>1. CASE t = mem
      BY <2>1 DEF Sound
    <2>2. CASE \E p, i : AlterIn(t, mem, p, i, TombstoneOf(mem[p].recs[i]))
      BY <2>2, AlterFiles, AlteredIndex DEF Sound
    <2> QED
      BY <2>1, <2>2 DEF Unindexed
  <1>4. PICK T \in SUBSET PageNums : IndexIn(t, root_page, T)
    BY <1>3 DEF Index
  <1>5. IndexIn(u, root_page, T)
    BY <1>2, <1>3, <1>4, IndexShrinks
  <1> QED
    BY <1>1, <1>5 DEF Index

LEMMA InitIndexes == Init => Indexes
  <1> SUFFICES ASSUME Init PROVE Index(mem, root_page)
    BY DEF Indexes
  <1>1. PagesOK(mem)
    BY InitSound DEF Sound, Files
  <1>2. mem[ROOT_PAGE] = initialize_leaf_node /\ root_page = ROOT_PAGE
    BY PageRange DEF Init
  <1> QED
    BY <1>1, <1>2, IndexClear

LEMMA StepIndexes ==
    ASSUME Sound, Indexes, [Next]_vars
    PROVE  Indexes'
  <1> SUFFICES ASSUME Alive' PROVE Index(mem', root_page')
    BY DEF Indexes
  <1>1. Alive /\ Index(mem, root_page)
    BY DamageGrows DEF Alive, Indexes
  <1>2. ASSUME UNCHANGED << mem, root_page >> PROVE Index(mem', root_page')
    BY <1>1, <1>2
  <1>3. ~Killed /\ ~WalkExits
    BY DEF Killed, WalkExits, Die, Died, Alive
  <1>4. ~StoreDies
    BY DEF StoreDies, Died, Alive
  <1>5. ASSUME NEW row \in Inserts, Insert(row)
        PROVE  Index(mem', root_page')
    BY <1>1, <1>2, <1>4, <1>5, InsertCases, StoredIndex DEF GivesUp, StoreEnds
  <1>6. CASE UpdateMove
    <2>1. PICK m, e, n :
             /\ GivenUp(m, e)
             /\ Files(m, n, root_page, disk, file_pages)
             /\ \/ Dropped(m, e) \/ GivesUp
                \/ \E t, p, new : /\ StoredIn(t, m, n, NewRow, p)
                                  /\ IndexedAs(new, t, n, NewRow, p)
                                  /\ StoreEnds(new, "none", Further)
      BY <1>4, <1>6, UpdateCases
    <2>2. Index(m, root_page)
      BY <1>1, <2>1, AlteredIndex DEF GivenUp, Sound
    <2>3. CASE Dropped(m, e)
      BY <2>2, <2>3 DEF Dropped, NextRow
    <2>4. CASE GivesUp
      BY <1>2, <2>4 DEF GivesUp
    <2>5. ASSUME NEW t, NEW p, NEW new, StoredIn(t, m, n, NewRow, p),
                 IndexedAs(new, t, n, NewRow, p), StoreEnds(new, "none", Further)
          PROVE  Index(mem', root_page')
      <3>1. NewRow \in RowsPossible
        BY <1>6, NewRowIs DEF UpdateMove
      <3>2. Index(new.pg, new.root_page)
        BY <2>1, <2>2, <2>5, <3>1, StoredIndex
      <3> QED
        BY <2>5, <3>2 DEF StoreEnds
    <2> QED
      BY <2>1, <2>3, <2>4, <2>5
  <1>7. CASE DeleteRow
    <2>1. CASE GoesWrong \/ RowLeft
      BY <1>2, <2>1 DEF GoesWrong, RowLeft, NextRow
    <2>2. ASSUME NEW t, Unindexed(t, Row.val.key)
          PROVE  Index(mem', root_page')
      <3>1. Index(mem', root_page)
        BY <1>1, <2>2, UnindexedIndex
      <3> QED
        BY <2>2, <3>1 DEF Unindexed, NextRow
    <2> QED
      BY <1>7, <2>1, <2>2, DeleteCases
  <1>8. CASE UpdateInPlace
    <2>1. AlterIn(mem', mem, op.page, op.idx, RewriteOf(Row, NewRow))
      BY <1>8, InPlaceIs
    <2>2. PICK t : t = mem'
      OBVIOUS
    <2>3. Index(t, root_page)
      BY <1>1, <2>1, <2>2, AlteredIndex DEF Sound
    <2> QED
      BY <1>8, <2>2, <2>3 DEF UpdateInPlace, NextRow
  <1>9. CASE DeleteAll
    <2>1. PICK t : t = mem'
      OBVIOUS
    <2>2. PagesOK(t)
      BY <1>9, <2>1, ClearSound DEF Sound, Files
    <2>3. t[ROOT_PAGE] = initialize_leaf_node /\ root_page' = ROOT_PAGE
      BY <1>9, <2>1, PageRange DEF DeleteAll
    <2> QED
      BY <2>1, <2>2, <2>3, IndexClear
  <1>10. CASE Reopen
    <2>1. mem' = mem /\ root_page' = ROOT_PAGE
      BY <1>10, ReopenSound
    <2>2. Index(mem, ROOT_PAGE)
      BY <1>1 DEF Index, IndexIn
    <2> QED
      BY <2>1, <2>2
  <1>11. ASSUME \/ \E row \in Inserts : InsertDuplicate(row)
                \/ Select \/ (\E S \in Deletes : DeleteWhere(S))
                \/ (\E u \in Updates : UpdateWhere(u)) \/ NextPage \/ Skip
                \/ Close \/ CloseWrite \/ UNCHANGED vars
         PROVE  UNCHANGED << mem, root_page >>
    BY <1>11 DEF InsertDuplicate, Select, DeleteWhere, UpdateWhere, NextPage, Enter, Skip,
       NextRow, Close, CloseWrite, vars
  <1> QED
    BY <1>2, <1>3, <1>5, <1>6, <1>7, <1>8, <1>9, <1>10, <1>11 DEF Next

\* As long as no process died, all that can be reached of the index are nodes
\* whose cells lead to rows of their keys.
THEOREM IndexesStaySound == Spec => []Indexes
  BY InitIndexes, StepIndexes, PagesStaySound, PTL DEF Spec

LEMMA ChainPoints ==
    ASSUME Sound, Indexes
    PROVE  PointersMeanKey
  <1> SUFFICES ASSUME Alive, NEW cells, cells = ChainCells(mem, ROOT_PAGE),
                      NEW c \in DOMAIN cells
               PROVE  \E i \in SlotAt(mem, cells[c].value) :
                         mem[cells[c].value.page].recs[i].val.key = cells[c].key
    BY DEF PointersMeanKey
  <1>1. PICK T \in SUBSET PageNums : IndexIn(mem, root_page, T)
    BY DEF Indexes, Index
  <1>2. PICK N, P, G : N = TABLE_MAX_PAGES /\ P = T \cup {0} /\ G = GoodCells(mem)
    OBVIOUS
  <1>3. /\ Net(mem, N, T, P, G) /\ Linked(mem, T) /\ 0 \notin T /\ ROOT_PAGE \in T
    BY <1>1, <1>2 DEF IndexIn
  <1>4. IsLeaf(mem[ROOT_PAGE])
    BY DEF Sound, Files
  <1>5. cells \in Seq(G)
    BY <1>3, <1>4, NetChain
  <1>6. cells[c] \in G
    BY <1>5
  <1> QED
    BY <1>2, <1>6 DEF GoodCells

\* An entry of the index leads to a row of its key: for every history in which
\* no process died, however often the nodes were split.
THEOREM PointersAlwaysMeanKey == Spec => []PointersMeanKey
  BY ChainPoints, PagesStaySound, IndexesStaySound, PTL

LEMMA OneNode ==
    ASSUME NEW m, NEW n, NEW r, NEW d, NEW len, Files(m, n, r, d, len), NEW s, Index(m, s),
           \A p \in HeapPages : IsHeap(m[p]), NEW key
    PROVE  DescentDefined(m, s, key)
  <1>1. PICK T \in SUBSET PageNums : IndexIn(m, s, T)
    BY DEF Index
  <1>2. PICK P, G : /\ \A p \in T : NetNode(m[p], P, G)
                    /\ 0 \notin T /\ s \in T
    BY <1>1 DEF IndexIn, Net
  <1>3. IsLeaf(m[s]) \/ IsInternal(m[s])
    BY <1>2, NetNodeIs
  <1>4. ~IsHeap(m[s])
    BY <1>3 DEF IsHeap, IsLeaf, IsInternal
  <1>5. s = 1
    BY <1>2, <1>4, PageRange
  <1>6. IsLeaf(m[s])
    BY <1>5, PageRange DEF Files
  <1> QED
    BY <1>1, <1>6, LeafRootDefined

LEMMA WalkIsNoOther ==
    ASSUME NEW w \in WalkOps
    PROVE  w # Undefined /\ w # Idle /\ \A p : w # Closing(p)
  <1>1. w.kind \in {"update", "delete"}
    BY WalkTyped
  <1>2. Undefined.kind = "undefined" /\ Idle.kind = "idle" /\ \A p : Closing(p).kind = "close"
    BY DEF Undefined, Idle, Closing
  <1> QED
    BY <1>1, <1>2

LEMMA FurtherIsWalk ==
    ASSUME Sound, op.kind \in {"update", "delete"}
    PROVE  Further # Undefined
  <1>1. PICK v : v = Further
    OBVIOUS
  <1>2. WalkAt(op, mem)
    BY WalkGoesOn
  <1>3. WalkAt(v, mem)
    BY <1>1, <1>2, FurtherAt DEF Further
  <1> QED
    BY <1>1, <1>3, WalkIsNoOther DEF WalkAt

\* Where the row cannot be stored, there is a node among the pages of rows.
LEMMA FailsAtNode ==
    ASSUME NEW m, NEW n, Files(m, n, root_page, disk, file_pages), Index(m, root_page),
           NEW row, StoreFails(m, n, row)
    PROVE  \E p \in HeapPages : ~IsHeap(m[p])
  BY OneNode DEF StoreFails

LEMMA MisledAtNode ==
    ASSUME Sound, Index(mem, root_page), NEW key, Misled(mem, root_page, key)
    PROVE  \E p \in HeapPages : ~IsHeap(mem[p])
  <1>1. PagesOK(mem)
    BY DEF Sound, Files
  <1>2. PICK T \in SUBSET PageNums : IndexIn(mem, root_page, T)
    BY DEF Index
  <1>3. \A rp \in btree_find(mem, root_page, key) :
           DescentDefined(mem, root_page, key) => SlotAt(mem, rp) # {}
    BY <1>1, <1>2, FindsRow
  <1>4. ~DescentDefined(mem, root_page, key)
    BY <1>3 DEF Misled
  <1> QED
    BY <1>4, OneNode DEF Sound

LEMMA StepUndefined ==
    ASSUME Sound, Indexes, UndefinedNeedsSplit, [Next]_vars
    PROVE  UndefinedNeedsSplit'
  <1> SUFFICES ASSUME op' = Undefined, Alive'
               PROVE  \E p \in HeapPages : ~IsHeap(mem'[p])
    BY DEF UndefinedNeedsSplit
  <1>1. Alive /\ Index(mem, root_page)
    BY DamageGrows DEF Alive, Indexes
  <1>2. Idle # Undefined /\ \A p : Closing(p) # Undefined
    BY DEF Idle, Undefined, Closing
  <1>3. ASSUME NEW p, NEW w \in WalkOps, Enter(p, w)
        PROVE  \E q \in HeapPages : ~IsHeap(mem'[q])
    <2>1. /\ p \in HeapPages /\ mem' = mem
          /\ op' = IF EndsWalk(mem[p]) THEN Idle
                   ELSE IF IsHeap(mem[p])
                   THEN [w EXCEPT !.page = p, !.idx = 1, !.last = Len(mem[p].recs)]
                   ELSE Undefined
      BY <1>3 DEF Enter
    <2>2. CASE ~IsHeap(mem[p])
      BY <2>1, <2>2
    <2>3. CASE IsHeap(mem[p])
      <3>1. PICK v : v = op'
        OBVIOUS
      <3>2. ~EndsWalk(mem[p]) /\ v = [w EXCEPT !.page = p, !.idx = 1, !.last = Len(mem[p].recs)]
        BY <1>2, <2>1, <2>3, <3>1
      <3>3. WalkAt(v, mem)
        BY <1>3, <2>1, <2>3, <3>2, EnterAt DEF Sound, Files
      <3> QED
        BY <3>1, <3>3, WalkIsNoOther DEF WalkAt
    <2> QED
      BY <2>2, <2>3
  <1>4. ~Killed /\ ~WalkExits /\ ~StoreDies
    BY DEF Killed, WalkExits, Die, Died, Alive, StoreDies
  <1>5. ASSUME NEW row \in Inserts, Insert(row)
        PROVE  \E p \in HeapPages : ~IsHeap(mem'[p])
    BY <1>1, <1>2, <1>4, <1>5, InsertCases, FailsAtNode DEF GivesUp, StoreEnds
  <1>6. CASE UpdateMove
    <2>1. op.kind \in {"update", "delete"}
      BY <1>6 DEF UpdateMove, AtRow
    <2>2. Further # Undefined
      BY <2>1, FurtherIsWalk
    <2>3. PICK m, e, n :
             /\ GivenUp(m, e) /\ Files(m, n, root_page, disk, file_pages)
             /\ StoreFails(m, n, NewRow) /\ GivesUp
      BY <1>4, <1>6, <2>2, UpdateCases DEF Dropped, NextRow, StoreEnds
    <2>4. Index(m, root_page)
      BY <1>1, <2>3, AlteredIndex DEF GivenUp, Sound
    <2>5. PICK p \in HeapPages : ~IsHeap(m[p])
      BY <2>3, <2>4, FailsAtNode
    <2>6. ~IsHeap(mem[p])
      <3>1. \A x \in HeapPages : x # op.page => m[x] = mem[x]
        BY <2>3, PageRange DEF GivenUp, AlterIn, SameBut
      <3>2. IsHeap(m[op.page])
        BY <2>3, RowPageIs DEF GivenUp, AlterIn, Altered
      <3> QED
        BY <2>5, <3>1, <3>2
    <2> QED
      BY <2>3, <2>6 DEF GivesUp
  <1>7. CASE DeleteRow
    <2>1. op.kind \in {"update", "delete"}
      BY <1>7 DEF DeleteRow, AtRow
    <2>2. Further # Undefined
      BY <2>1, FurtherIsWalk
    <2>3. GoesWrong /\ Misled(mem, root_page, Row.val.key)
      BY <1>7, <2>2, DeleteCases DEF RowLeft, Unindexed, NextRow
    <2> QED
      BY <1>1, <2>3, MisledAtNode DEF GoesWrong
  <1>8. CASE NextPage
    <2>1. op.kind \in {"update", "delete"} /\ Enter(op.page + 1, op)
      BY <1>8 DEF NextPage, InWalk
    <2>2. op \in WalkOps
      BY <2>1, WalkGoesOn DEF WalkAt
    <2> QED
      BY <1>3, <2>1, <2>2
  <1>9. ASSUME NEW S \in Deletes, DeleteWhere(S)
        PROVE  \E p \in HeapPages : ~IsHeap(mem'[p])
    <2>1. PICK w : w = Deleting(0, 0, 0, S)
      OBVIOUS
    <2>2. S \in SUBSET RowsPossible
      BY TableAssumption
    <2>3. w \in WalkOps
      BY <2>1, <2>2 DEF WalkOps, Deleting
    <2> QED
      BY <1>3, <1>9, <2>1, <2>3 DEF DeleteWhere
  <1>10. ASSUME NEW u \in Updates, UpdateWhere(u)
         PROVE  \E p \in HeapPages : ~IsHeap(mem'[p])
    <2>1. PICK w : w = Updating(0, 0, 0, u.where, u.to)
      OBVIOUS
    <2>2. u.where \in SUBSET RowsPossible /\ u.to \in Values
      BY TableAssumption
    <2>3. w \in WalkOps
      BY <2>1, <2>2 DEF WalkOps, Updating
    <2> QED
      BY <1>3, <1>10, <2>1, <2>3 DEF UpdateWhere
  <1>11. ~Skip /\ ~UpdateInPlace
    <2>1. Skip \/ UpdateInPlace => op.kind \in {"update", "delete"}
      BY DEF Skip, UpdateInPlace, AtRow
    <2> QED
      BY <2>1, FurtherIsWalk DEF Skip, UpdateInPlace, NextRow
  <1>12. /\ ~Select /\ ~DeleteAll /\ ~Close /\ ~CloseWrite /\ ~Reopen
         /\ \A row \in Inserts : ~InsertDuplicate(row)
    BY <1>2 DEF Select, DeleteAll, Close, CloseWrite, Reopen, Restart, InsertDuplicate, Begin
  <1>13. CASE UNCHANGED vars
    BY <1>1, <1>13 DEF vars, UndefinedNeedsSplit
  <1> QED
    BY <1>4, <1>5, <1>6, <1>7, <1>8, <1>9, <1>10, <1>11, <1>12, <1>13 DEF Next

\* A statement goes wrong only where a node lies between the pages of rows.
THEOREM UndefinedNeedsNode == Spec => []UndefinedNeedsSplit
  <1>1. Init => UndefinedNeedsSplit
    BY DEF Init, UndefinedNeedsSplit, Idle, Undefined
  <1> QED
    BY <1>1, StepUndefined, PagesStaySound, IndexesStaySound, PTL DEF Spec

-----------------------------------------------------------------------------
(* The duplicate check sees every row *)

LEMMA AlteredScan ==
    ASSUME NEW m, NEW n, NEW r, NEW d, NEW len, Files(m, n, r, d, len), Scanned(m),
           NEW t, NEW p, NEW i, NEW rec, AlterIn(t, m, p, i, rec)
    PROVE  Scanned(t)
  <1>1. PagesOK(m) /\ PagesOK(t)
    BY AlterFiles DEF Files
  <1>2. PICK q : q = t[p]
    OBVIOUS
  <1>3. /\ p \in HeapPages /\ IsHeap(m[p]) /\ i \in 1 .. Len(m[p].recs)
        /\ Altered(q, m[p], i, rec) /\ t[p] = q /\ \A x \in PageNums : x # p => t[x] = m[x]
    BY <1>2 DEF AlterIn, SameBut
  <1> QED
    BY <1>1, <1>3, ScanAltered

\* An insertion into the index changes no row and empties no leaf.
LEMMA IndexedPages ==
    ASSUME NEW m, NEW n, NEW row \in RowsPossible, NEW t, NEW p, StoredIn(t, m, n, row, p),
           NEW new, IndexedAs(new, t, n, row, p)
    PROVE  /\ PagesOK(t) /\ PagesOK(new.pg)
           /\ \A x \in PageNums : \/ new.pg[x] = t[x]
                                  \/ NodeAt(new.pg, x) /\ (NodeAt(t, x) \/ t[x] = ZeroPage)
           /\ \A x \in HeapPages : EmptyLeaf(new.pg[x]) => EmptyLeaf(t[x])
  <1>1. PICK e, l, r, key, value : /\ e = disk' /\ l = file_pages' /\ r = root_page
                                   /\ key = row.key /\ value = PointerTo(t, p)
    OBVIOUS
  <1>2. row.key \in Nat
    BY TableAssumption DEF RowsPossible
  <1>3. /\ Files(t, n, r, e, l) /\ key \in Nat /\ value \in RowPointers
        /\ DescentDefined(t, r, key) /\ new = index_insert(t, n, r, key, value)
        /\ new.num_pages <= TABLE_MAX_PAGES
    BY <1>1, <1>2 DEF StoredIn, IndexedAs
  <1>4. /\ Files(new.pg, new.num_pages, new.root_page, e, l)
        /\ Indexed(new.pg, new.num_pages, t, n)
    BY <1>3, FilesIndex
  <1>5. \A x \in PageNums : x >= n => t[x] = ZeroPage
    BY <1>3 DEF Files
  <1>6. PagesOK(t) /\ PagesOK(new.pg)
    BY <1>3, <1>4 DEF Files
  <1> QED
    BY <1>4, <1>5, <1>6, PageRange DEF Indexed

LEMMA StoredScan ==
    ASSUME NEW m, PagesOK(m), Scanned(m), NEW n, NEW e \in HeapPages, EndsWalk(m[e]),
           NEW row \in RowsPossible, ~KeyBefore(m, e, row.key),
           NEW t, NEW p, StoredIn(t, m, n, row, p), NEW new, IndexedAs(new, t, n, row, p)
    PROVE  Scanned(new.pg)
  <1>1. NoKey(m, row.key)
    BY NoKeyBehind DEF Scanned
  <1>2. PICK q : q = t[p]
    OBVIOUS
  <1>3. PagesOK(t) /\ PagesOK(new.pg)
    BY IndexedPages
  <1>4. /\ p \in HeapPages /\ IsHeap(m[p]) /\ FirstRoom(m, n, RowSize[row.val], p)
        /\ Extended(q, m[p], row, RowSize[row.val]) /\ t[p] = q
        /\ \A x \in PageNums : x # p => t[x] = m[x]
    BY <1>2 DEF StoredIn
  <1>5. Scanned(t)
    BY <1>1, <1>3, <1>4, ScanExtended
  <1>6. PICK u : u = new.pg
    OBVIOUS
  <1>7. /\ PagesOK(u) /\ \A x \in HeapPages : ~EmptyLeaf(u[x])
        /\ \A x \in PageNums : u[x] = t[x] \/ NodeAt(u, x)
    BY <1>3, <1>5, <1>6, IndexedPages DEF Scanned
  <1>8. Scanned(u)
    BY <1>5, <1>7, ScanNodes
  <1> QED
    BY <1>6, <1>8

\* The page where the scan ended still ends it.
LEMMA EndStays ==
    ASSUME Sound, NEW m, NEW e, GivenUp(m, e)
    PROVE  EndsWalk(m[e]) /\ e \in HeapPages
  <1>1. e \in HeapPages /\ EndsWalk(mem[e])
    BY DEF GivenUp, Ends
  <1>2. ~EndsWalk(mem[op.page])
    <2>1. /\ op.page \in HeapPages /\ IsHeap(mem[op.page])
          /\ op.idx \in 1 .. Len(mem[op.page].recs) /\ PagesOK(mem)
      BY DEF GivenUp, AlterIn, Sound, Files
    <2>2. RowPage(mem[op.page]) /\ Len(mem[op.page].recs) # 0
      BY <2>1, HeapPageIs
    <2>3. mem[op.page].recs # << >>
      BY <2>2
    <2> QED
      BY <2>2, <2>3, RowPageIs
  <1>3. m[e] = mem[e]
    BY <1>1, <1>2, PageRange DEF GivenUp, AlterIn, SameBut
  <1> QED
    BY <1>1, <1>3

LEMMA UnindexedPages ==
    ASSUME Sound, NEW t, NEW key, Unindexed(t, key)
    PROVE  /\ PagesOK(t) /\ PagesOK(mem')
           /\ \A x \in PageNums : mem'[x] = t[x] \/ (NodeAt(mem', x) /\ NodeAt(t, x))
  <1>1. PICK u : u = mem'
    OBVIOUS
  <1>2. DescentDefined(t, root_page, key) /\ u = delete_from_index(t, root_page, key)
    BY <1>1 DEF Unindexed
  <1>3. Files(t, num_pages, root_page, disk, file_pages)
    <2>1. CASE t = mem
      BY <2>1 DEF Sound
    <2>2. CASE \E p, i : AlterIn(t, mem, p, i, TombstoneOf(mem[p].recs[i]))
      BY <2>2, AlterFiles DEF Sound
    <2> QED
      BY <2>1, <2>2 DEF Unindexed
  <1>4. /\ Files(u, num_pages, root_page, disk, file_pages)
        /\ \A x \in PageNums : u[x] = t[x] \/ (NodeAt(u, x) /\ NodeAt(t, x))
    BY <1>2, <1>3, FilesDelete
  <1> QED
    BY <1>1, <1>3, <1>4 DEF Files

LEMMA InitScans == Init => Scans
  <1> SUFFICES ASSUME Init PROVE Scanned(mem)
    BY DEF Scans
  <1>1. PagesOK(mem)
    BY InitSound DEF Sound, Files
  <1>2. \A p \in HeapPages : mem[p] = ZeroPage
    BY PageRange DEF Init
  <1>3. \A p \in HeapPages : ~EmptyLeaf(mem[p]) /\ mem[p].recs = << >>
    BY <1>2, EmptyPages, RowPageIs DEF EmptyLeaf
  <1> QED
    BY <1>1, <1>3, ScanRowless

LEMMA WholeBefore ==
    ASSUME Sound, [Next]_vars, Whole'
    PROVE  Whole
  BY DamageGrows DEF Whole

LEMMA StepScans ==
    ASSUME Sound, Scans, [Next]_vars
    PROVE  Scans'
  <1> SUFFICES ASSUME Whole' PROVE Scanned(mem')
    BY DEF Scans
  <1>1. Whole /\ Scanned(mem)
    BY WholeBefore DEF Scans
  <1>2. ASSUME UNCHANGED mem PROVE Scanned(mem')
    BY <1>1, <1>2
  <1>3. ~Killed /\ ~WalkExits /\ ~StoreDies
    BY DEF Killed, WalkExits, Die, Died, Whole, StoreDies
  <1>4. PagesOK(mem)
    BY DEF Sound, Files
  <1>5. ASSUME NEW row \in Inserts, Insert(row)
        PROVE  Scanned(mem')
    <2>1. row \in RowsPossible
      BY <1>5, InsertCases
    <2>2. PICK e, n :
             /\ e \in HeapPages /\ Ends(e) /\ ~KeyBefore(mem, e, row.key)
             /\ \/ GivesUp
                \/ \E t, p, new : /\ StoredIn(t, mem, n, row, p)
                                  /\ IndexedAs(new, t, n, row, p)
                                  /\ StoreEnds(new, "inserted", Idle)
      BY <1>3, <1>5, InsertCases
    <2>3. CASE GivesUp
      BY <1>2, <2>3 DEF GivesUp
    <2>4. ASSUME NEW t, NEW p, NEW new, StoredIn(t, mem, n, row, p),
                 IndexedAs(new, t, n, row, p), StoreEnds(new, "inserted", Idle)
          PROVE  Scanned(mem')
      <3>1. EndsWalk(mem[e])
        BY <2>2 DEF Ends
      <3>2. Scanned(new.pg)
        BY <1>1, <1>4, <2>1, <2>2, <2>4, <3>1, StoredScan
      <3> QED
        BY <2>4, <3>2 DEF StoreEnds
    <2> QED
      BY <2>2, <2>3, <2>4
  <1>6. CASE UpdateMove
    <2>1. PICK m, e, n :
             /\ GivenUp(m, e)
             /\ Files(m, n, root_page, disk, file_pages)
             /\ \/ Dropped(m, e)
                \/ /\ ~KeyBefore(m, e, NewRow.key)
                   /\ \/ GivesUp
                      \/ \E t, p, new : /\ StoredIn(t, m, n, NewRow, p)
                                        /\ IndexedAs(new, t, n, NewRow, p)
                                        /\ StoreEnds(new, "none", Further)
      BY <1>3, <1>6, UpdateCases
    <2>2. Scanned(m) /\ PagesOK(m)
      BY <1>1, <2>1, AlteredScan DEF GivenUp, Sound, Files
    <2>3. CASE Dropped(m, e)
      BY <2>2, <2>3 DEF Dropped
    <2>4. CASE GivesUp
      BY <1>2, <2>4 DEF GivesUp
    <2>5. ASSUME ~KeyBefore(m, e, NewRow.key),
                 NEW t, NEW p, NEW new, StoredIn(t, m, n, NewRow, p),
                 IndexedAs(new, t, n, NewRow, p), StoreEnds(new, "none", Further)
          PROVE  Scanned(mem')
      <3>1. NewRow \in RowsPossible
        BY <1>6, NewRowIs DEF UpdateMove
      <3>2. EndsWalk(m[e]) /\ e \in HeapPages
        BY <2>1, EndStays
      <3>3. Scanned(new.pg)
        BY <2>2, <2>5, <3>1, <3>2, StoredScan
      <3> QED
        BY <2>5, <3>3 DEF StoreEnds
    <2> QED
      BY <2>1, <2>3, <2>4, <2>5
  <1>7. CASE DeleteRow
    <2>1. CASE GoesWrong \/ RowLeft
      BY <1>2, <2>1 DEF GoesWrong, RowLeft
    <2>2. ASSUME NEW t, Unindexed(t, Row.val.key)
          PROVE  Scanned(mem')
      <3>1. Scanned(t)
        BY <1>1, <2>2, AlteredScan DEF Unindexed, Sound
      <3>2. PICK u : u = mem'
        OBVIOUS
      <3>3. PagesOK(u) /\ \A x \in PageNums : u[x] = t[x] \/ NodeAt(u, x)
        BY <2>2, <3>2, UnindexedPages
      <3>4. \A x \in HeapPages : ~EmptyLeaf(u[x])
        BY <2>2, <3>2 DEF Unindexed, Whole
      <3>5. Scanned(u)
        BY <3>1, <3>3, <3>4, ScanNodes
      <3> QED
        BY <3>2, <3>5
    <2> QED
      BY <1>7, <2>1, <2>2, DeleteCases
  <1>8. CASE UpdateInPlace
    <2>1. PICK t : t = mem'
      OBVIOUS
    <2>2. AlterIn(t, mem, op.page, op.idx, RewriteOf(Row, NewRow))
      BY <1>8, <2>1, InPlaceIs
    <2>3. Scanned(t)
      BY <1>1, <2>2, AlteredScan DEF Sound
    <2> QED
      BY <2>1, <2>3
  <1>9. CASE DeleteAll
    <2>1. PICK t : t = mem'
      OBVIOUS
    <2>2. PagesOK(t)
      BY <1>9, <2>1, ClearSound DEF Sound, Files
    <2>3. PICK e \in HeapPages :
             /\ Ends(e)
             /\ t = [p \in PageNums |-> IF p = ROOT_PAGE THEN initialize_leaf_node
                                        ELSE IF p \in HeapPages /\ p < e THEN ClearedPage
                                        ELSE mem[p]]
      BY <1>9, <2>1 DEF DeleteAll
    <2>4. EndsWalk(mem[e])
      BY <2>3 DEF Ends
    <2>5. /\ \A p \in HeapPages : ~EmptyLeaf(t[p])
          /\ \A p \in HeapPages : IsHeap(t[p]) => t[p].recs = << >>
      BY <1>1, <1>4, <2>3, <2>4, ScanClear
    <2> QED
      BY <2>1, <2>2, <2>5, ScanRowless
  <1>10. CASE Reopen
    BY <1>2, <1>10, ReopenSound
  <1>11. ASSUME \/ \E row \in Inserts : InsertDuplicate(row)
                \/ Select \/ (\E S \in Deletes : DeleteWhere(S))
                \/ (\E u \in Updates : UpdateWhere(u)) \/ NextPage \/ Skip
                \/ Close \/ CloseWrite \/ UNCHANGED vars
         PROVE  UNCHANGED mem
    BY <1>11 DEF InsertDuplicate, Select, DeleteWhere, UpdateWhere, NextPage, Enter, Skip,
       Close, CloseWrite, vars
  <1> QED
    BY <1>2, <1>3, <1>5, <1>6, <1>7, <1>8, <1>9, <1>10, <1>11 DEF Next

\* No scan ends in front of a row, and no key is there twice, until a process dies
\* or a leaf is emptied.
THEOREM ScansStayComplete == Spec => []Scans
  BY InitScans, StepScans, PagesStaySound, PTL DEF Spec

LEMMA ScannedUnique ==
    ASSUME Sound, Scans
    PROVE  KeysUnique
  <1> SUFFICES ASSUME Whole, NEW a \in LivePositions, NEW b \in LivePositions,
                      KeyAt(a) = KeyAt(b)
               PROVE  a = b
    BY DEF KeysUnique
  <1>1. OneRowOfKey(mem)
    BY DEF Scans, Scanned
  <1>2. PICK p, i : p \in HeapPages /\ IsHeap(mem[p]) /\ i \in LiveIn(mem[p]) /\ a = << p, i >>
    BY DEF LivePositions
  <1>3. PICK q, j : q \in HeapPages /\ IsHeap(mem[q]) /\ j \in LiveIn(mem[q]) /\ b = << q, j >>
    BY DEF LivePositions
  <1>4. mem[p].recs[i].val.key = mem[q].recs[j].val.key
    BY <1>2, <1>3 DEF KeyAt
  <1>5. p = q /\ i = j
    BY <1>1, <1>2, <1>3, <1>4 DEF OneRowOfKey
  <1> QED
    BY <1>2, <1>3, <1>5

\* No two rows have one key, until a process dies or a leaf is emptied among the
\* pages of rows.
THEOREM KeysStayUnique == Spec => []KeysUnique
  BY ScannedUnique, PagesStaySound, ScansStayComplete, PTL

-----------------------------------------------------------------------------
(* Each step keeps the promise of KeyedRows, or leaves the table not whole *)

LEMMA LiveRowsAre == LiveRows = RowsOf(mem)
  BY DEF LiveRows, RowsOf

LEMMA AlteredRows ==
    ASSUME NEW m, NEW n, NEW r, NEW d, NEW len, Files(m, n, r, d, len), Scanned(m),
           NEW t, NEW p, NEW i, NEW rec, AlterIn(t, m, p, i, rec)
    PROVE  RowChanged(t, m, m[p].recs[i], rec)
  <1>1. PICK q : q = t[p]
    OBVIOUS
  <1>2. /\ p \in HeapPages /\ IsHeap(m[p]) /\ i \in 1 .. Len(m[p].recs)
        /\ Altered(q, m[p], i, rec) /\ t[p] = q /\ \A x \in PageNums : x # p => t[x] = m[x]
    BY <1>1 DEF AlterIn, SameBut
  <1>3. PagesOK(m) /\ OneRowOfKey(m)
    BY DEF Files, Scanned
  <1> QED
    BY <1>2, <1>3, RowsAltered

\* The record that is given up is live no more.
LEMMA TombstoneIsDead ==
    ASSUME NEW rec \in Records
    PROVE  ~TombstoneOf(rec).live
  BY DEF TombstoneOf, Records

LEMMA RewriteIsRow ==
    ASSUME NEW rec \in Records, NEW row
    PROVE  RewriteOf(rec, row).val = row /\ RewriteOf(rec, row).live = rec.live
  BY DEF RewriteOf, Records

LEMMA StoredRows ==
    ASSUME NEW m, PagesOK(m), NEW n, NEW row \in RowsPossible,
           NEW t, NEW p, StoredIn(t, m, n, row, p), NEW new, IndexedAs(new, t, n, row, p)
    PROVE  RowsOf(new.pg) = RowsOf(m) \cup {row}
  <1>1. RowsOf(t) = RowsOf(m) \cup {row}
    BY StoredKeys
  <1>2. PICK u : u = new.pg
    OBVIOUS
  <1>3. /\ PagesOK(t) /\ PagesOK(u)
        /\ \A x \in PageNums : u[x] = t[x] \/ (NodeAt(u, x) /\ (NodeAt(t, x) \/ t[x] = ZeroPage))
    BY <1>2, IndexedPages
  <1>4. RowsOf(u) = RowsOf(t)
    BY <1>3, RowsSame
  <1> QED
    BY <1>1, <1>2, <1>4

LEMMA InsertPromise ==
    ASSUME Sound, Scans, NEW row \in Inserts, Insert(row), Whole, Whole'
    PROVE  \/ (\E key \in Keys, v \in Values : Map!Insert([key |-> key, val |-> v])) \/ Map!Read
  <1>1. row \in RowsPossible
    BY InsertCases
  <1>2. PICK e, n :
           /\ e \in HeapPages /\ Ends(e) /\ ~KeyBefore(mem, e, row.key)
           /\ \/ GivesUp
              \/ \E t, p, new : /\ StoredIn(t, mem, n, row, p)
                                /\ IndexedAs(new, t, n, row, p)
                                /\ StoreEnds(new, "inserted", Idle)
    BY InsertCases DEF StoreDies, Died, Whole
  <1>3. CASE GivesUp
    BY <1>3 DEF GivesUp, Map!Read, LiveRows
  <1>4. ASSUME NEW t, NEW p, NEW new, StoredIn(t, mem, n, row, p),
               IndexedAs(new, t, n, row, p), StoreEnds(new, "inserted", Idle)
        PROVE  Map!Insert(row)
    <2>1. PagesOK(mem) /\ Scanned(mem) /\ EndsWalk(mem[e])
      BY <1>2 DEF Sound, Files, Scans, Ends
    <2>2. NoKey(mem, row.key)
      BY <1>2, <2>1, NoKeyBehind DEF Scanned
    <2>3. \A other \in RowsOf(mem) : other.key # row.key
      BY <2>2, NoKeyRows
    <2>4. RowsOf(new.pg) = RowsOf(mem) \cup {row}
      BY <1>1, <1>4, <2>1, StoredRows
    <2>5. mem' = new.pg /\ answer' = "inserted"
      BY <1>4 DEF StoreEnds
    <2>6. RowsOf(mem') = RowsOf(mem) \cup {row}
      BY <2>4, <2>5
    <2> QED
      BY <2>3, <2>5, <2>6 DEF Map!Insert, Map!KeyIn, LiveRows, RowsOf
  <1>5. row.key \in Keys /\ row.val \in Values /\ row = [key |-> row.key, val |-> row.val]
    BY <1>1 DEF RowsPossible
  <1> QED
    BY <1>2, <1>3, <1>4, <1>5

LEMMA RejectPromise ==
    ASSUME NEW row, InsertDuplicate(row)
    PROVE  Map!Reject
  <1>1. PICK e \in HeapPages : KeyBefore(mem, e, row.key)
    BY DEF InsertDuplicate
  <1>2. PICK old : old \in LiveBefore(mem, e)
    BY <1>1 DEF KeyBefore
  <1>3. \A p \in HeapPages : p < TABLE_MAX_PAGES
    BY PageRange
  <1>4. old \in LiveRows
    BY <1>2, <1>3 DEF LiveBefore, LiveRows
  <1> QED
    BY <1>4 DEF InsertDuplicate, Map!Reject, LiveRows

LEMMA DeletePromise ==
    ASSUME Sound, Scans, DeleteRow, Whole, Whole'
    PROVE  (\E row \in LiveRows : Map!Remove(row)) \/ Map!Read
  <1>1. CASE GoesWrong \/ RowLeft
    BY <1>1 DEF GoesWrong, RowLeft, NextRow, Map!Read, LiveRows
  <1>2. ASSUME NEW t, Unindexed(t, Row.val.key)
        PROVE  (\E row \in LiveRows : Map!Remove(row)) \/ Map!Read
    <2>1. PICK u : u = mem'
      OBVIOUS
    <2>2. /\ PagesOK(t) /\ PagesOK(u)
          /\ \A x \in PageNums : u[x] = t[x] \/ (NodeAt(u, x) /\ NodeAt(t, x))
      BY <1>2, <2>1, UnindexedPages
    <2>3. RowsOf(u) = RowsOf(t)
      BY <2>2, RowsSame
    <2>4. answer' = "none"
      BY <1>2 DEF Unindexed, NextRow
    <2>5. CASE t = mem
      BY <2>1, <2>3, <2>4, <2>5 DEF Map!Read, LiveRows, RowsOf
    <2>6. ASSUME NEW p, NEW i, AlterIn(t, mem, p, i, TombstoneOf(mem[p].recs[i]))
          PROVE  (\E row \in LiveRows : Map!Remove(row)) \/ Map!Read
      <3>1. PICK rec : rec = mem[p].recs[i]
        OBVIOUS
      <3>2. RowChanged(t, mem, rec, TombstoneOf(rec))
        BY <2>6, <3>1, AlteredRows DEF Sound, Scans
      <3>3. rec \in Records
        <4>1. /\ p \in HeapPages /\ IsHeap(mem[p]) /\ i \in 1 .. Len(mem[p].recs)
              /\ PagesOK(mem)
          BY <2>6 DEF AlterIn, Sound, Files
        <4> QED
          BY <3>1, <4>1, HeapPageIs, RowPageIs
      <3>4. ~TombstoneOf(rec).live
        BY <3>3, TombstoneIsDead
      <3>5. CASE rec.live
        <4>1. rec.val \in RowsOf(mem) /\ RowsOf(u) = RowsOf(mem) \ {rec.val}
          BY <2>3, <3>2, <3>4, <3>5 DEF RowChanged
        <4>2. Map!Remove(rec.val)
          BY <2>1, <2>4, <4>1 DEF Map!Remove, LiveRows, RowsOf
        <4> QED
          BY <4>1, <4>2, LiveRowsAre
      <3>6. CASE ~rec.live
        <4>1. RowsOf(u) = RowsOf(mem)
          BY <2>3, <3>2, <3>6 DEF RowChanged
        <4> QED
          BY <2>1, <2>4, <4>1 DEF Map!Read, LiveRows, RowsOf
      <3> QED
        BY <3>5, <3>6
    <2> QED
      BY <1>2, <2>5, <2>6 DEF Unindexed
  <1> QED
    BY <1>1, <1>2, DeleteCases

LEMMA ClearPromise ==
    ASSUME Sound, Scans, DeleteAll, Whole
    PROVE  Map!Clear
  <1>1. PICK t : t = mem'
    OBVIOUS
  <1>2. PICK e \in HeapPages :
           /\ Ends(e)
           /\ t = [p \in PageNums |-> IF p = ROOT_PAGE THEN initialize_leaf_node
                                      ELSE IF p \in HeapPages /\ p < e THEN ClearedPage
                                      ELSE mem[p]]
    BY <1>1 DEF DeleteAll
  <1>3. EndsWalk(mem[e]) /\ PagesOK(mem) /\ Scanned(mem)
    BY <1>2 DEF Ends, Sound, Files, Scans
  <1>4. \A p \in HeapPages : IsHeap(t[p]) => t[p].recs = << >>
    BY <1>2, <1>3, ScanClear
  <1>5. RowsOf(t) = {}
    BY <1>4, RowsRowless
  <1>6. answer' = "none"
    BY DEF DeleteAll
  <1> QED
    BY <1>1, <1>5, <1>6 DEF Map!Clear, LiveRows, RowsOf

\* The record that an update is at.
LEMMA RowAt ==
    ASSUME Sound, NEW t, NEW p, NEW i, NEW rec, AlterIn(t, mem, p, i, rec)
    PROVE  mem[p].recs[i] \in Records
  <1>1. p \in HeapPages /\ IsHeap(mem[p]) /\ i \in 1 .. Len(mem[p].recs) /\ PagesOK(mem)
    BY DEF AlterIn, Sound, Files
  <1> QED
    BY <1>1, HeapPageIs, RowPageIs

\* What an update of row makes of it.
Moved(row) == [key |-> row.key, val |-> op.to]

InPlacePromised == \E row \in LiveRows : \E v \in Values : Map!Change(row, v)

LEMMA ChangePromise ==
    ASSUME NEW row \in LiveRows, op.to \in Values, answer' = "none",
           RowsOf(mem') = (RowsOf(mem) \ {row}) \cup {Moved(row)}
    PROVE  InPlacePromised
  <1>1. Map!Change(row, op.to)
    BY DEF Map!Change, LiveRows, RowsOf, Moved
  <1> QED
    BY <1>1 DEF InPlacePromised

LEMMA InPlacePromise ==
    ASSUME Sound, Scans, UpdateInPlace, Whole
    PROVE  InPlacePromised
  <1>1. PICK t : t = mem'
    OBVIOUS
  <1>2. AlterIn(t, mem, op.page, op.idx, RewriteOf(Row, NewRow))
    BY <1>1, InPlaceIs
  <1>3. PICK rec : rec = Row
    OBVIOUS
  <1>4. RowChanged(t, mem, rec, RewriteOf(rec, NewRow))
    BY <1>2, <1>3, AlteredRows DEF Sound, Scans, Row
  <1>5. rec \in Records
    BY <1>2, <1>3, RowAt DEF Row
  <1>6. rec.live
    BY <1>3 DEF UpdateInPlace, RowMatches
  <1>7. op.to \in Values /\ NewRow = Moved(rec.val)
    BY <1>3, NewRowIs DEF UpdateInPlace, Moved
  <1>8. rec.val \in RowsOf(mem) /\ RowsOf(t) = (RowsOf(mem) \ {rec.val}) \cup {Moved(rec.val)}
    BY <1>4, <1>5, <1>6, <1>7, RewriteIsRow DEF RowChanged
  <1>9. answer' = "none"
    BY DEF UpdateInPlace, NextRow
  <1> QED
    BY <1>1, <1>7, <1>8, <1>9, ChangePromise, LiveRowsAre

LEMMA MovePromise ==
    ASSUME Sound, Scans, UpdateMove, Whole, Whole'
    PROVE  InPlacePromised \/ (\E row \in LiveRows : Map!Remove(row)) \/ Map!Read
  <1>1. PICK m, e, n :
           /\ GivenUp(m, e)
           /\ Files(m, n, root_page, disk, file_pages)
           /\ \/ Dropped(m, e)
              \/ GivesUp
              \/ \E t, p, new : /\ StoredIn(t, m, n, NewRow, p)
                                /\ IndexedAs(new, t, n, NewRow, p)
                                /\ StoreEnds(new, "none", Further)
    BY UpdateCases DEF StoreDies, Died, Whole
  <1>2. AlterIn(m, mem, op.page, op.idx, TombstoneOf(Row)) /\ PagesOK(m)
    BY <1>1 DEF GivenUp, Files
  <1>3. PICK rec : rec = Row
    OBVIOUS
  <1>4. RowChanged(m, mem, rec, TombstoneOf(rec))
    BY <1>2, <1>3, AlteredRows DEF Sound, Scans, Row
  <1>5. rec \in Records /\ rec.live
    BY <1>2, <1>3, RowAt DEF Row, UpdateMove, RowMatches
  <1>6. rec.val \in RowsOf(mem) /\ RowsOf(m) = RowsOf(mem) \ {rec.val}
    BY <1>4, <1>5, TombstoneIsDead DEF RowChanged
  <1>7. CASE Dropped(m, e)
    <2>1. mem' = m /\ answer' = "none"
      BY <1>7 DEF Dropped, NextRow
    <2>2. Map!Remove(rec.val)
      BY <1>6, <2>1 DEF Map!Remove, LiveRows, RowsOf
    <2> QED
      BY <1>6, <2>2, LiveRowsAre
  <1>8. CASE GivesUp
    BY <1>8 DEF GivesUp, Map!Read, LiveRows
  <1>9. ASSUME NEW t, NEW p, NEW new, StoredIn(t, m, n, NewRow, p),
               IndexedAs(new, t, n, NewRow, p), StoreEnds(new, "none", Further)
        PROVE  InPlacePromised
    <2>1. NewRow \in RowsPossible /\ op.to \in Values /\ NewRow = Moved(rec.val)
      BY <1>3, NewRowIs DEF UpdateMove, Moved
    <2>2. RowsOf(new.pg) = RowsOf(m) \cup {NewRow}
      BY <1>2, <1>9, <2>1, StoredRows
    <2>3. mem' = new.pg /\ answer' = "none"
      BY <1>9 DEF StoreEnds
    <2>4. RowsOf(mem') = (RowsOf(mem) \ {rec.val}) \cup {Moved(rec.val)}
      BY <1>6, <2>1, <2>2, <2>3
    <2> QED
      BY <1>6, <2>1, <2>3, <2>4, ChangePromise, LiveRowsAre
  <1> QED
    BY <1>1, <1>7, <1>8, <1>9

\* The table that is opened first has no row.
LEMMA InitPromise == Init => Map!Init
  <1> SUFFICES ASSUME Init PROVE Map!Init
    OBVIOUS
  <1>1. \A p \in HeapPages : mem[p] = ZeroPage
    BY PageRange DEF Init
  <1>2. \A p \in HeapPages : IsHeap(mem[p]) => mem[p].recs = << >>
    BY <1>1, EmptyPages, RowPageIs
  <1>3. LiveRows = {}
    BY <1>2, RowsRowless, LiveRowsAre
  <1> QED
    BY <1>3 DEF Init, Map!Init, Whole

LEMMA PromiseStep ==
    Sound /\ Scans /\ [Next]_vars => [Map!Next]_<< LiveRows, answer, Whole >>
  <1> SUFFICES ASSUME Sound, Scans, [Next]_vars
               PROVE  [Map!Next]_<< LiveRows, answer, Whole >>
    OBVIOUS
  <1>1. CASE ~Whole'
    BY <1>1 DEF Map!Next
  <1>2. SUFFICES ASSUME Whole'
                 PROVE  \/ \E key \in Keys, v \in Values : Map!Insert([key |-> key, val |-> v])
                        \/ Map!Reject \/ InPlacePromised \/ (\E row \in LiveRows : Map!Remove(row))
                        \/ Map!Clear \/ Map!Read \/ UNCHANGED << LiveRows, answer >>
    BY <1>1, WholeBefore DEF Map!Next, InPlacePromised
  <1>3. Whole /\ ~Killed /\ ~WalkExits
    BY <1>2, WholeBefore DEF Killed, WalkExits, Die, Died, Whole
  <1>4. CASE \/ Select \/ (\E S \in Deletes : DeleteWhere(S))
             \/ (\E u \in Updates : UpdateWhere(u)) \/ NextPage \/ Skip \/ Close
    <2>1. UNCHANGED mem /\ answer' = "none"
      BY <1>4 DEF Select, DeleteWhere, UpdateWhere, NextPage, Enter, Skip, NextRow, Close
    <2> QED
      BY <2>1 DEF Map!Read, LiveRows
  <1>5. CASE Reopen
    <2>1. UNCHANGED << mem, answer >>
      BY <1>5, ReopenSound DEF Reopen
    <2> QED
      BY <2>1 DEF LiveRows
  <1>6. CASE CloseWrite \/ UNCHANGED vars
    BY <1>6 DEF CloseWrite, vars, LiveRows
  <1> QED
    BY <1>2, <1>3, <1>4, <1>5, <1>6, InsertPromise, RejectPromise, DeletePromise,
       ClearPromise, InPlacePromise, MovePromise DEF Next

\* The table is a map from keys to values until a process dies or a leaf is
\* emptied among the pages of rows: an INSERT that is answered with success
\* adds its row under a key that was free, an UPDATE changes the value of one
\* row at a time, in place or by moving it, and never its key, a DELETE takes
\* single rows, and closing and opening the file changes nothing
\* (table.cpp:98-203, 260-291, 604-633, 872-1064; pager.cpp:7-102).
THEOREM TableIsKeyedRows == Spec => KeepsPromise
  <1>1. Spec => Map!Spec
    BY InitPromise, PromiseStep, PagesStaySound, ScansStayComplete, PTL DEF Spec, Map!Spec
  <1> QED
    BY <1>1 DEF KeepsPromise

-----------------------------------------------------------------------------
(* The index as a map of the rows, until an update moves one *)

LEMMA ExactCells ==
    ASSUME NEW a, NEW T, NEW m, NEW n, NEW r, ExactBy(a, T, m, n, r)
    PROVE  /\ EntriesOf(a, TABLE_MAX_PAGES) \subseteq Cell(RowPointers)
           /\ Cell(RowPointers) = IndexCells
           /\ \A e \in Cell(RowPointers) : e.key \in Nat /\ e.value \in RowPointers
  <1>1. Entire(a, TABLE_MAX_PAGES, RowPointers, n, r, T)
    BY DEF ExactBy, Within
  <1>2. EntriesOf(a, TABLE_MAX_PAGES) \subseteq Cell(RowPointers)
    BY <1>1, EntireCells
  <1> QED
    BY <1>2 DEF IndexCells, Cell

LEMMA SlotOne ==
    ASSUME NEW m, PagesOK(m), NEW rp \in RowPointers,
           NEW i \in SlotAt(m, rp), NEW j \in SlotAt(m, rp)
    PROVE  i = j
  <1>1. PICK recs : recs = m[rp.page].recs
    OBVIOUS
  <1>2. /\ IsHeap(m[rp.page]) /\ i \in DOMAIN recs /\ j \in DOMAIN recs
        /\ Offset(recs, i) = Offset(recs, j)
    BY <1>1 DEF SlotAt
  <1>3. DOMAIN recs = 1 .. Len(recs) /\ Sized(recs) /\ Len(recs) \in Nat
    <2>1. rp.page \in HeapPages
      BY DEF RowPointers
    <2> QED
      BY <1>1, <1>2, <2>1, HeapPageIs, RowPageIs
  <1>4. i \in 1 .. Len(recs) /\ j \in 1 .. Len(recs)
    BY <1>2, <1>3
  <1>5. \A k \in 1 .. Len(recs) : Offset(recs, k) \in Nat
    BY <1>3, OffsetStep
  <1>6. ~(i < j)
    <2> SUFFICES ASSUME i < j PROVE FALSE
      OBVIOUS
    <2>1. Offset(recs, i) < Offset(recs, j)
      BY <1>3, <1>4, OffsetRises
    <2> QED
      BY <1>2, <1>4, <1>5, <2>1
  <1>7. ~(j < i)
    <2> SUFFICES ASSUME j < i PROVE FALSE
      OBVIOUS
    <2>1. Offset(recs, j) < Offset(recs, i)
      BY <1>3, <1>4, OffsetRises
    <2> QED
      BY <1>2, <1>4, <1>5, <2>1
  <1> QED
    BY <1>4, <1>6, <1>7

\* Record i is the one to which an entry leads.
MarkedAt(m, e, i) ==
    /\ SlotAt(m, e.value) = {i}
    /\ e.value.page \in HeapPages /\ IsHeap(m[e.value.page])
    /\ i \in 1 .. Len(m[e.value.page].recs)
    /\ i \in LiveIn(m[e.value.page]) /\ m[e.value.page].recs[i].live
    /\ m[e.value.page].recs[i].val.key = e.key
    /\ m[e.value.page].recs[i].val \in RowsOf(m)

LEMMA MarksRow ==
    ASSUME NEW m, PagesOK(m), NEW e \in Cell(RowPointers), Marks(m, e)
    PROVE  \E i : MarkedAt(m, e, i)
  <1>1. e.value \in RowPointers
    BY DEF Cell
  <1>2. PICK rp, p : rp = e.value /\ p = rp.page
    OBVIOUS
  <1>3. PICK i \in SlotAt(m, rp) : m[p].recs[i].live /\ m[p].recs[i].val.key = e.key
    BY <1>2 DEF Marks
  <1>4. SlotAt(m, rp) = {i}
    BY <1>1, <1>2, <1>3, SlotOne
  <1>5. p \in HeapPages /\ IsHeap(m[p]) /\ i \in DOMAIN m[p].recs
    BY <1>1, <1>2, <1>3 DEF RowPointers, SlotAt
  <1>6. i \in 1 .. Len(m[p].recs) /\ i \in LiveIn(m[p])
    BY <1>3, <1>5, HeapPageIs, RowPageIs DEF LiveIn
  <1>7. m[p].recs[i].val \in RowsOf(m)
    BY <1>5, <1>6, RowIn
  <1> QED
    BY <1>2, <1>3, <1>4, <1>5, <1>6, <1>7 DEF MarkedAt

LEMMA MarksKept ==
    ASSUME NEW m, PagesOK(m), NEW t, PagesOK(t), RowsKept(t, m),
           NEW e \in Cell(RowPointers), Marks(m, e),
           \A i \in SlotAt(m, e.value) :
              m[e.value.page].recs[i].live => t[e.value.page].recs[i].live
    PROVE  Marks(t, e)
  <1>1. PICK rp : rp = e.value /\ rp \in RowPointers
    BY DEF Cell
  <1>2. PICK i : /\ i \in SlotAt(m, rp) /\ m[rp.page].recs[i].live
                 /\ m[rp.page].recs[i].val.key = e.key
    BY <1>1 DEF Marks
  <1>3. SlotStays(t, m, rp, i)
    BY <1>1, <1>2, SlotKept
  <1>4. t[rp.page].recs[i].live
    BY <1>1, <1>2
  <1> QED
    BY <1>1, <1>2, <1>3, <1>4 DEF SlotStays, Marks

\* Pages that hold rows were not changed.
LEMMA MarksSame ==
    ASSUME NEW m, PagesOK(m), NEW t, PagesOK(t),
           \A x \in PageNums : t[x] = m[x] \/ (NodeAt(t, x) /\ (NodeAt(m, x) \/ m[x] = ZeroPage)),
           NEW e \in Cell(RowPointers), Marks(m, e)
    PROVE  Marks(t, e)
  <1>1. e.value \in RowPointers /\ e.value.page \in HeapPages
    BY DEF Cell, RowPointers
  <1>2. ASSUME NEW p \in HeapPages, IsHeap(m[p]), m[p].recs # << >>
        PROVE  t[p] = m[p]
    <2>1. p \in PageNums /\ ~NodeAt(m, p)
      BY <1>2, PageRange, PageKinds
    <2>2. m[p] # ZeroPage
      BY <1>2, EmptyPages
    <2> QED
      BY <2>1, <2>2
  <1>3. RowsKept(t, m)
    BY <1>2, KeptSame
  <1>4. ASSUME NEW i \in SlotAt(m, e.value) PROVE t[e.value.page] = m[e.value.page]
    BY <1>1, <1>2, <1>3, SlotKept DEF SlotStays
  <1> QED
    BY <1>3, <1>4, MarksKept

\* Rows are written and given up in one page.
LEMMA WithinBeside ==
    ASSUME NEW m, PagesOK(m), NEW t, PagesOK(t), NEW p \in HeapPages, IsHeap(m[p]),
           \A x \in PageNums : x # p => t[x] = m[x],
           NEW a, NEW n, NEW r, NEW T, Within(a, m, TABLE_MAX_PAGES, RowPointers, n, r, T)
    PROVE  Within(a, t, TABLE_MAX_PAGES, RowPointers, n, r, T)
  <1>1. t = [x \in Pages(TABLE_MAX_PAGES) |-> t[x]]
    BY PageRange DEF PagesOK
  <1>2. p # 0 /\ ~NodeAt(m, p)
    BY PageRange, PageKinds
  <1>3. \A x \in Pages(TABLE_MAX_PAGES) : x = 0 \/ NodeAt(m, x) => t[x] = m[x]
    BY <1>2, PageRange
  <1> QED
    BY <1>1, <1>3, WithinSame

LEMMA ExactTouch ==
    ASSUME NEW m, NEW n, NEW r, NEW k \in Nat, n <= k, k <= TABLE_MAX_PAGES, ExactIn(m, n, r)
    PROVE  ExactIn(m, k, r)
  BY WithinMore DEF ExactIn, ExactBy

\* A row is written again where it is.
LEMMA ExactRewrite ==
    ASSUME NEW m, NEW n, NEW r, NEW d, NEW len, Files(m, n, r, d, len), Scanned(m),
           ExactIn(m, n, r),
           NEW t, NEW p, NEW i, NEW rec, AlterIn(t, m, p, i, rec), rec.live
    PROVE  ExactIn(t, n, r)
  <1>1. PICK a, T, E : ExactBy(a, T, m, n, r) /\ E = EntriesOf(a, TABLE_MAX_PAGES)
    BY DEF ExactIn
  <1>2. /\ PagesOK(m) /\ PagesOK(t) /\ RowsKept(t, m)
        /\ RowChanged(t, m, m[p].recs[i], rec)
    BY AlterFiles, AlteredRows DEF Files
  <1>3. /\ p \in HeapPages /\ IsHeap(m[p]) /\ i \in 1 .. Len(m[p].recs)
        /\ Altered(t[p], m[p], i, rec) /\ \A x \in PageNums : x # p => t[x] = m[x]
    BY DEF AlterIn, SameBut
  <1>4. Within(a, t, TABLE_MAX_PAGES, RowPointers, n, r, T)
    BY <1>1, <1>2, <1>3, WithinBeside DEF ExactBy
  <1>5. ASSUME NEW e \in E PROVE Marks(t, e)
    <2>1. e \in Cell(RowPointers) /\ Marks(m, e)
      BY <1>1, ExactCells DEF ExactBy, Pairs
    <2>2. PICK q, x : q = t[p] /\ x = e.value.page
      OBVIOUS
    <2>3. ASSUME NEW j \in SlotAt(m, e.value), m[x].recs[j].live PROVE t[x].recs[j].live
      <3>1. x \in PageNums /\ j \in 1 .. Len(m[x].recs)
        BY <1>2, <2>1, <2>2, <2>3, SlotKept, PageRange DEF SlotStays, Cell
      <3>2. CASE x # p
        BY <1>3, <2>3, <3>1, <3>2
      <3>3. CASE x = p
        BY <1>3, <2>2, <2>3, <3>1, <3>3 DEF Altered
      <3> QED
        BY <3>2, <3>3
    <2> QED
      BY <1>2, <2>1, <2>2, <2>3, MarksKept
  <1>6. ASSUME NEW row \in RowsOf(t) PROVE \E e \in E : e.key = row.key
    <2>1. m[p].recs[i].live /\ rec.val.key = m[p].recs[i].val.key
      BY <1>3 DEF Altered
    <2>2. row \in RowsOf(m) \/ row = rec.val
      BY <1>2, <1>6, <2>1 DEF RowChanged
    <2>3. m[p].recs[i].val \in RowsOf(m)
      BY <1>2, <2>1 DEF RowChanged
    <2> QED
      BY <1>1, <2>1, <2>2, <2>3 DEF ExactBy, Pairs
  <1> QED
    BY <1>1, <1>4, <1>5, <1>6 DEF ExactIn, ExactBy, Pairs

\* A row is stored and its key goes into the index.
LEMMA ExactStored ==
    ASSUME NEW m, PagesOK(m), NEW n, NEW row \in RowsPossible, NoKey(m, row.key),
           ExactIn(m, n, root_page),
           NEW t, NEW p, StoredIn(t, m, n, row, p),
           NEW new, IndexedAs(new, t, n, row, p), ~new.lost
    PROVE  ExactIn(new.pg, new.num_pages, new.root_page)
  <1>1. PICK a, T, E : ExactBy(a, T, m, n, root_page) /\ E = EntriesOf(a, TABLE_MAX_PAGES)
    BY DEF ExactIn
  <1>2. PICK u, q, size : u = new.pg /\ q = t[p] /\ size = RowSize[row.val]
    OBVIOUS
  <1>3. /\ PagesOK(t) /\ PagesOK(u)
        /\ \A x \in PageNums : u[x] = t[x] \/ (NodeAt(u, x) /\ (NodeAt(t, x) \/ t[x] = ZeroPage))
        /\ RowsOf(u) = RowsOf(m) \cup {row}
    BY <1>2, IndexedPages, StoredRows
  <1>4. /\ p \in HeapPages /\ IsHeap(m[p]) /\ Extended(q, m[p], row, size)
        /\ \A x \in PageNums : x # p => t[x] = m[x]
        /\ PointerTo(t, p) \in RowPointers
    BY <1>2 DEF StoredIn
  <1>5. Within(a, t, TABLE_MAX_PAGES, RowPointers, n, root_page, T)
    BY <1>1, <1>3, <1>4, WithinBeside DEF ExactBy
  <1>6. row.key \in Nat
    BY TableAssumption DEF RowsPossible
  <1>7. \A e \in E : e \in Cell(RowPointers) /\ Marks(m, e)
    BY <1>1, ExactCells DEF ExactBy, Pairs
  <1>8. Absent(a, TABLE_MAX_PAGES, row.key)
    <2> SUFFICES ASSUME NEW x \in Pages(TABLE_MAX_PAGES), NEW e \in CellsAt(a, x),
                        e.key = row.key
                 PROVE  FALSE
      BY DEF Absent
    <2>1. e \in E
      BY <1>1 DEF EntriesOf
    <2>2. \E r \in RowsOf(m) : r.key = e.key
      BY <1>7, <2>1, MarksRow DEF MarkedAt
    <2> QED
      BY <2>2, NoKeyRows
  <1>9. PICK c : c = CellOf(row.key, PointerTo(t, p))
    OBVIOUS
  <1>10. PICK b, U : /\ Within(b, u, TABLE_MAX_PAGES, RowPointers, new.num_pages, new.root_page, U)
                     /\ EntriesOf(b, TABLE_MAX_PAGES) = E \cup {c}
    BY <1>1, <1>2, <1>4, <1>5, <1>6, <1>8, <1>9, WithinInsert DEF IndexedAs
  <1>11. ASSUME NEW e \in E PROVE Marks(t, e)
    <2>1. RowsKept(t, m)
      BY <1>2, <1>4, KeptExtended
    <2>2. ASSUME NEW j \in SlotAt(m, e.value), m[e.value.page].recs[j].live
          PROVE  t[e.value.page].recs[j].live
      <3>1. PICK x : x = e.value.page
        OBVIOUS
      <3>2. x \in PageNums /\ j \in 1 .. Len(m[x].recs)
        BY <1>3, <1>7, <2>1, <3>1, SlotKept, PageRange DEF SlotStays, Cell
      <3>3. CASE x # p
        BY <1>4, <2>2, <3>1, <3>2, <3>3
      <3>4. CASE x = p
        BY <1>2, <1>4, <2>2, <3>1, <3>2, <3>4 DEF Extended
      <3> QED
        BY <3>3, <3>4
    <2> QED
      BY <1>3, <1>7, <2>1, <2>2, MarksKept
  <1>12. c \in Cell(RowPointers) /\ Marks(t, c)
    <2>1. c.key = row.key /\ c.value = PointerTo(t, p) /\ c \in Cell(RowPointers)
      BY <1>4, <1>6, <1>9 DEF CellOf, Cell
    <2>2. PICK recs, k : recs = q.recs /\ k = Len(recs)
      OBVIOUS
    <2>3. /\ IsHeap(q) /\ DOMAIN recs = 1 .. k /\ k \in 1 .. k
          /\ recs[k].live /\ recs[k].val = row
      <3>1. RowPage(q) /\ k = Len(m[p].recs) + 1 /\ recs[k] = Record(row, size)
        BY <1>4, <2>2 DEF Extended
      <3>2. IsHeap(q) /\ DOMAIN recs = 1 .. k /\ k \in Nat
        BY <2>2, <3>1, RowPageIs
      <3>3. Len(m[p].recs) \in Nat
        BY <1>4, HeapPageIs
      <3> QED
        BY <3>1, <3>2, <3>3 DEF Record
    <2>4. c.value.page = p /\ c.value.offset = Offset(recs, k)
      BY <1>2, <2>1, <2>2 DEF PointerTo
    <2>5. k \in SlotAt(t, c.value)
      BY <1>2, <2>2, <2>3, <2>4 DEF SlotAt
    <2> QED
      BY <1>2, <2>1, <2>2, <2>3, <2>4, <2>5 DEF Marks
  <1>13. \A e \in E \cup {c} : Marks(u, e)
    BY <1>3, <1>7, <1>11, <1>12, MarksSame
  <1>14. ASSUME NEW r \in RowsOf(u) PROVE \E e \in E \cup {c} : e.key = r.key
    <2>1. c.key = row.key
      BY <1>9 DEF CellOf
    <2> QED
      BY <1>1, <1>3, <1>14, <2>1 DEF ExactBy, Pairs
  <1> QED
    BY <1>2, <1>10, <1>13, <1>14 DEF ExactIn, ExactBy, Pairs

\* A row and its key are deleted.
LEMMA ExactCut ==
    ASSUME Sound, Scanned(mem), ExactIn(mem, num_pages, root_page),
           NEW key \in Nat, NEW t, Unindexed(t, key)
    PROVE  ExactIn(mem', num_pages, root_page)
  <1>1. PICK a, T, E, u : /\ ExactBy(a, T, mem, num_pages, root_page)
                          /\ E = EntriesOf(a, TABLE_MAX_PAGES) /\ u = mem'
    BY DEF ExactIn
  <1>2. /\ PagesOK(t) /\ PagesOK(u) /\ PagesOK(mem)
        /\ \A x \in PageNums : u[x] = t[x] \/ (NodeAt(u, x) /\ NodeAt(t, x))
        /\ u = delete_from_index(t, root_page, key)
    BY <1>1, UnindexedPages DEF Unindexed, Sound, Files
  <1>3. \A e \in E : e \in Cell(RowPointers) /\ Marks(mem, e)
    BY <1>1, ExactCells DEF ExactBy, Pairs
  <1>4. btree_find(mem, root_page, key) = {c.value : c \in {e \in E : e.key = key}}
    BY <1>1, WithinFinds DEF ExactBy
  <1>5. PICK c, i : /\ c \in E /\ c.key = key /\ SlotAt(mem, c.value) = {i}
                          /\ AlterIn(t, mem, c.value.page, i,
                                     TombstoneOf(mem[c.value.page].recs[i]))
    <2>1. PICK rp \in btree_find(mem, root_page, key) :
             SlotAt(mem, rp) # {} =>
                \E i \in SlotAt(mem, rp) :
                   AlterIn(t, mem, rp.page, i, TombstoneOf(mem[rp.page].recs[i]))
      BY DEF Unindexed, GivenUpBy
    <2>2. PICK c \in E : c.key = key /\ c.value = rp
      BY <1>4
    <2>3. PICK i : MarkedAt(mem, c, i)
      BY <1>2, <1>3, <2>2, MarksRow
    <2> QED
      BY <2>1, <2>2, <2>3 DEF MarkedAt
  <1>6. PICK p, old : p = c.value.page /\ old = mem[p].recs[i]
    OBVIOUS
  <1>7. /\ p \in HeapPages /\ IsHeap(mem[p]) /\ i \in 1 .. Len(mem[p].recs)
        /\ Altered(t[p], mem[p], i, TombstoneOf(old))
        /\ \A x \in PageNums : x # p => t[x] = mem[x]
    BY <1>5, <1>6 DEF AlterIn, SameBut
  <1>8. old.live /\ old.val.key = key /\ i \in LiveIn(mem[p]) /\ old \in Records
    <2>1. old.live /\ old.val.key = key /\ i \in LiveIn(mem[p])
      <3>1. c \in Cell(RowPointers) /\ Marks(mem, c)
        BY <1>3, <1>5
      <3>2. PICK k : MarkedAt(mem, c, k)
        BY <1>2, <3>1, MarksRow
      <3>3. k = i
        BY <1>5, <3>2 DEF MarkedAt
      <3> QED
        BY <1>5, <1>6, <3>2, <3>3 DEF MarkedAt
    <2>2. old \in Records
      BY <1>2, <1>6, <1>7, HeapPageIs, RowPageIs
    <2> QED
      BY <2>1, <2>2
  <1>9. /\ RowsKept(t, mem)
        /\ RowsOf(t) = RowsOf(mem) \ {old.val}
    <2>1. AlterIn(t, mem, p, i, TombstoneOf(old))
      BY <1>5, <1>6
    <2>2. RowsKept(t, mem) /\ RowChanged(t, mem, old, TombstoneOf(old))
      BY <1>6, <2>1, AlterFiles, AlteredRows DEF Sound
    <2> QED
      BY <1>8, <2>2, TombstoneIsDead DEF RowChanged
  <1>10. Within(a, t, TABLE_MAX_PAGES, RowPointers, num_pages, root_page, T)
    BY <1>1, <1>2, <1>7, WithinBeside DEF ExactBy
  <1>11. btree_find(t, root_page, key) # {}
    <2>1. btree_find(t, root_page, key) = {d.value : d \in {e \in E : e.key = key}}
      BY <1>1, <1>10, WithinFinds
    <2> QED
      BY <1>5, <2>1
  <1>12. PICK b : /\ Within(b, u, TABLE_MAX_PAGES, RowPointers, num_pages, root_page, T)
                  /\ EntriesOf(b, TABLE_MAX_PAGES) = {e \in E : e.key # key}
    BY <1>1, <1>2, <1>10, <1>11, WithinDelete
  <1>13. ASSUME NEW e \in E, e.key # key PROVE Marks(u, e)
    <2>1. ASSUME NEW j \in SlotAt(mem, e.value), mem[e.value.page].recs[j].live
          PROVE  t[e.value.page].recs[j].live
      <3>1. PICK x : x = e.value.page
        OBVIOUS
      <3>2. x \in PageNums /\ j \in 1 .. Len(mem[x].recs)
        BY <1>2, <1>3, <1>9, <3>1, SlotKept, PageRange DEF SlotStays, Cell
      <3>3. mem[x].recs[j].val.key = e.key
        <4>1. PICK k : MarkedAt(mem, e, k)
          BY <1>2, <1>3, MarksRow
        <4> QED
          BY <2>1, <3>1, <4>1 DEF MarkedAt
      <3>4. CASE x # p
        BY <1>7, <2>1, <3>1, <3>2, <3>4
      <3>5. CASE x = p
        <4>1. j # i
          BY <1>6, <1>8, <1>13, <3>3, <3>5
        <4>2. t[p].recs[j] = mem[p].recs[j]
          BY <1>7, <3>2, <3>5, <4>1 DEF Altered
        <4> QED
          BY <2>1, <3>1, <3>5, <4>2
      <3> QED
        BY <3>4, <3>5
    <2>2. Marks(t, e)
      BY <1>2, <1>3, <1>9, <2>1, MarksKept
    <2> QED
      BY <1>2, <1>3, <2>2, MarksSame
  <1>14. ASSUME NEW row \in RowsOf(u) PROVE \E e \in E : e.key # key /\ e.key = row.key
    <2>1. RowsOf(u) = RowsOf(t)
      BY <1>2, RowsSame
    <2>2. row \in RowsOf(mem) /\ row # old.val
      BY <1>9, <1>14, <2>1
    <2>3. row.key # key
      <3>1. PICK x, j : x \in HeapPages /\ j \in LiveIn(mem[x]) /\
               IsHeap(mem[x]) /\ row = mem[x].recs[j].val
        BY <2>2, RowIn
      <3>2. ~(x = p /\ j = i)
        BY <1>6, <2>2, <3>1
      <3>3. OneRowOfKey(mem)
        BY DEF Scanned
      <3>4. mem[p].recs[i].val.key = key /\ i \in LiveIn(mem[p]) /\ IsHeap(mem[p])
        BY <1>6, <1>7, <1>8
      <3>5. p \in HeapPages
        BY <1>7
      <3>6. ASSUME row.key = key PROVE x = p /\ j = i
        <4>1. mem[x].recs[j].val.key = mem[p].recs[i].val.key
          BY <3>1, <3>4, <3>6
        <4> QED
          BY <3>1, <3>3, <3>4, <3>5, <4>1 DEF OneRowOfKey
      <3> QED
        BY <3>2, <3>6
    <2> QED
      BY <1>1, <2>2, <2>3 DEF ExactBy, Pairs
  <1>15. Pairs(u, {e \in E : e.key # key})
    BY <1>13, <1>14 DEF Pairs
  <1> QED
    BY <1>1, <1>12, <1>15 DEF ExactIn, ExactBy

LEMMA InitExact == Init => Exact
  <1> SUFFICES ASSUME Init PROVE ExactIn(mem, num_pages, root_page)
    BY DEF Exact
  <1>1. PICK N, m : N = TABLE_MAX_PAGES /\ m = mem
    OBVIOUS
  <1>2. /\ N \in Nat /\ num_pages = 2 /\ num_pages \in 2 .. N /\ root_page = 1
        /\ m = [p \in Pages(N) |-> m[p]] /\ m[0] = ZeroPage /\ m[1] = Leaf(<< >>, 0)
        /\ \A p \in HeapPages : m[p] = ZeroPage
    BY <1>1, PageRange DEF Init, initialize_leaf_node
  <1>3. ~NodeAt(m, 0)
    BY <1>2, EmptyPages, RowPageIs DEF NodeAt
  <1>4. PICK a : /\ Within(a, m, N, RowPointers, num_pages, 1, {1})
                 /\ EntriesOf(a, N) = {}
    BY <1>2, <1>3, WithinOne
  <1>5. RowsOf(m) = {}
    BY <1>2, EmptyPages, RowsRowless
  <1> QED
    BY <1>1, <1>2, <1>4, <1>5 DEF ExactIn, ExactBy, Pairs

\* An update that gives a row up stores it elsewhere.
LEMMA MoveMoves ==
    ASSUME Sound, Scanned(mem), UpdateMove
    PROVE  moved' # {}
  <1>1. PICK m, e, p, i : /\ e \in HeapPages /\ p = op.page /\ i = op.idx
                          /\ m = [mem EXCEPT ![p] = Tombstone(@, i)]
                          /\ KeyBefore(m, e, NewRow.key) \/ moved' = moved \cup {NewRow.key}
    BY DEF UpdateMove
  <1>2. /\ PagesOK(mem) /\ p \in HeapPages /\ IsHeap(mem[p]) /\ i \in 1 .. Len(mem[p].recs)
        /\ Row = mem[p].recs[i] /\ Row \in Records /\ Row.live /\ NewRow.key = Row.val.key
    BY <1>1, AtRowIs, NewRowIs DEF UpdateMove, AtRow, Row, RowMatches
  <1>3. PICK old : old = Row
    OBVIOUS
  <1>4. AlterIn(m, mem, p, i, TombstoneOf(old))
    BY <1>1, <1>2, <1>3, TombstoneIn
  <1>5. RowChanged(m, mem, old, TombstoneOf(old))
    BY <1>2, <1>3, <1>4, AlteredRows DEF Sound
  <1>6. RowsOf(m) = RowsOf(mem) \ {old.val}
    BY <1>2, <1>3, <1>5, TombstoneIsDead DEF RowChanged
  <1>7. ~KeyBefore(m, e, NewRow.key)
    <2> SUFFICES ASSUME KeyBefore(m, e, NewRow.key) PROVE FALSE
      OBVIOUS
    <2>1. PICK row \in LiveBefore(m, e) : row.key = NewRow.key
      BY DEF KeyBefore
    <2>2. row \in RowsOf(m)
      BY RowIn DEF LiveBefore
    <2>3. PICK x, j : x \in HeapPages /\ j \in LiveIn(mem[x]) /\
             IsHeap(mem[x]) /\ row = mem[x].recs[j].val
      BY <1>6, <2>2, RowIn
    <2>4. i \in LiveIn(mem[p])
      BY <1>2, HeapPageIs, RowPageIs
    <2>5. x = p /\ j = i
      BY <1>2, <2>1, <2>3, <2>4 DEF Scanned, OneRowOfKey
    <2>6. row = old.val
      BY <1>2, <1>3, <2>3, <2>5
    <2> QED
      BY <1>6, <2>2, <2>6
  <1> QED
    BY <1>1, <1>7

\* A file that was closed in order, and whose root did not move, is opened as it was.
LEMMA ReopenExact ==
    ASSUME Sound, Reopen, damage' = {}
    PROVE  damage = {} /\ UNCHANGED << mem, num_pages, root_page, moved >>
  <1>1. mem' = mem /\ root_page' = ROOT_PAGE
    BY ReopenSound
  <1>2. damage = {} /\ root_page = ROOT_PAGE /\ UNCHANGED moved
    BY DEF Reopen
  <1>3. num_pages' = Larger(ROW_START_PAGE, file_pages)
    BY DEF Reopen, Restart
  <1>4. /\ op.page >= num_pages /\ op.page \in Nat /\ op.page \in 1 .. file_pages
    BY ClosingAt DEF Reopen, CloseAt
  <1>5. /\ num_pages \in Nat /\ num_pages >= ROW_START_PAGE /\ file_pages \in Nat
        /\ file_pages <= num_pages
    BY PageRange DEF Sound, Files
  <1>6. num_pages' = num_pages
    BY <1>3, <1>4, <1>5, PageRange DEF Larger
  <1> QED
    BY <1>1, <1>2, <1>6

LEMMA StepExact ==
    ASSUME Sound, Sound', Scans, Exact, [Next]_vars
    PROVE  Exact'
  <1> SUFFICES ASSUME damage' = {}, moved' = {}
               PROVE  ExactIn(mem', num_pages', root_page')
    BY DEF Exact
  <1>1. Whole /\ Scanned(mem) /\ PagesOK(mem)
    <2>1. Whole'
      BY DEF Whole
    <2> QED
      BY <2>1, WholeBefore DEF Scans, Sound, Files
  <1>2. ASSUME damage = {}, moved = {} PROVE ExactIn(mem, num_pages, root_page)
    BY <1>2 DEF Exact
  <1>3. ASSUME damage = {}, moved = {}, UNCHANGED << mem, num_pages, root_page >>
        PROVE  ExactIn(mem', num_pages', root_page')
    BY <1>2, <1>3
  <1>4. ~Killed /\ ~WalkExits /\ ~StoreDies
    BY DEF Killed, WalkExits, Die, Died, StoreDies
  <1>5. num_pages' \in Nat /\ num_pages' \in 2 .. TABLE_MAX_PAGES
    BY PageRange DEF Sound, Files
  <1>6. ASSUME NEW e \in HeapPages, num_pages' = Touched(e), damage = {}, moved = {},
               UNCHANGED << mem, root_page >>
        PROVE  ExactIn(mem', num_pages', root_page')
    <2>1. num_pages <= num_pages' /\ num_pages' <= TABLE_MAX_PAGES
      BY <1>5, <1>6, PageRange DEF Touched, Larger, Sound, Files
    <2>2. PICK k : k = num_pages'
      OBVIOUS
    <2>3. ExactIn(mem, k, root_page)
      BY <1>2, <1>5, <1>6, <2>1, <2>2, ExactTouch
    <2> QED
      BY <1>6, <2>2, <2>3
  <1>7. ASSUME NEW row \in Inserts, Insert(row)
        PROVE  ExactIn(mem', num_pages', root_page')
    <2>1. row \in RowsPossible /\ moved = {}
      BY <1>7, InsertCases DEF Insert
    <2>2. PICK e, n :
             /\ e \in HeapPages /\ Ends(e) /\ ~KeyBefore(mem, e, row.key)
             /\ n = Reach(num_pages, e)
             /\ Files(mem, n, root_page, disk, file_pages)
             /\ \/ GivesUp
                \/ \E t, p, new : /\ StoredIn(t, mem, n, row, p)
                                  /\ IndexedAs(new, t, n, row, p)
                                  /\ StoreEnds(new, "inserted", Idle)
      BY <1>4, <1>7, InsertCases
    <2>3. CASE GivesUp
      BY <1>3, <2>1, <2>3 DEF GivesUp
    <2>4. ASSUME NEW t, NEW p, NEW new, StoredIn(t, mem, n, row, p),
                 IndexedAs(new, t, n, row, p), StoreEnds(new, "inserted", Idle)
          PROVE  ExactIn(mem', num_pages', root_page')
      <3>1. damage = {} /\ ~new.lost
        BY <2>4 DEF StoreEnds
      <3>2. EndsWalk(mem[e]) /\ ~EmptyLeaf(mem[e])
        BY <1>1, <2>2 DEF Ends, Scanned
      <3>3. NoKey(mem, row.key)
        BY <1>1, <2>2, <3>2, NoKeyBehind DEF Scanned
      <3>4. n \in Nat /\ num_pages <= n /\ n <= TABLE_MAX_PAGES
        <4>1. num_pages \in Nat /\ e \in Nat
          BY <2>2, PageRange DEF Sound, Files
        <4>2. n \in ROW_START_PAGE .. TABLE_MAX_PAGES
          BY <2>2 DEF Files
        <4> QED
          BY <2>2, <4>1, <4>2, PageRange DEF Reach, Larger
      <3>5. ExactIn(mem, n, root_page)
        BY <1>2, <2>1, <3>1, <3>4, ExactTouch
      <3>6. ExactIn(new.pg, new.num_pages, new.root_page)
        BY <1>1, <2>1, <2>4, <3>1, <3>3, <3>5, ExactStored
      <3> QED
        BY <2>4, <3>6 DEF StoreEnds
    <2> QED
      BY <2>2, <2>3, <2>4
  <1>8. CASE DeleteRow
    <2>1. moved = {} /\ UNCHANGED root_page
      BY <1>8, DeleteCases DEF GoesWrong, RowLeft, Unindexed, NextRow
    <2>2. CASE GoesWrong \/ RowLeft
      BY <1>3, <2>1, <2>2 DEF GoesWrong, RowLeft
    <2>3. ASSUME NEW t, Unindexed(t, Row.val.key)
          PROVE  ExactIn(mem', num_pages', root_page')
      <3>1. damage = {} /\ UNCHANGED num_pages
        BY <2>3 DEF Unindexed
      <3>2. PICK key : key = Row.val.key /\ key \in Nat
        <4>1. Row.val.key \in Keys
          BY <1>8, AtRowIs DEF DeleteRow, AtRow
        <4> QED
          BY <4>1, TableAssumption
      <3>3. ExactIn(mem', num_pages, root_page)
        BY <1>1, <1>2, <2>1, <2>3, <3>1, <3>2, ExactCut
      <3> QED
        BY <2>1, <3>1, <3>3
    <2> QED
      BY <1>8, <2>2, <2>3, DeleteCases
  <1>9. CASE DeleteAll
    <2>1. PICK t, k, N : t = mem' /\ k = num_pages' /\ N = TABLE_MAX_PAGES
      OBVIOUS
    <2>2. PICK e \in HeapPages :
             /\ Ends(e)
             /\ t = [p \in PageNums |-> IF p = ROOT_PAGE THEN initialize_leaf_node
                                        ELSE IF p \in HeapPages /\ p < e THEN ClearedPage
                                        ELSE mem[p]]
      BY <1>9, <2>1 DEF DeleteAll
    <2>3. EndsWalk(mem[e])
      BY <2>2 DEF Ends
    <2>4. RowsOf(t) = {}
      BY <1>1, <2>2, <2>3, ScanClear, RowsRowless
    <2>5. /\ t = [p \in Pages(N) |-> t[p]] /\ t[0] = ZeroPage /\ N \in Nat
          /\ t[1] = Leaf(<< >>, 0) /\ k \in 2 .. N
      BY <1>5, <2>1, <2>2, PageRange DEF Sound, Files, PagesOK, initialize_leaf_node
    <2>6. ~NodeAt(t, 0)
      BY <2>5, EmptyPages, RowPageIs DEF NodeAt
    <2>7. PICK a : Within(a, t, N, RowPointers, k, 1, {1}) /\ EntriesOf(a, N) = {}
      BY <2>5, <2>6, WithinOne
    <2>8. root_page' = 1
      BY <1>9, PageRange DEF DeleteAll
    <2>9. ExactIn(t, k, 1)
      BY <2>1, <2>4, <2>7 DEF ExactIn, ExactBy, Pairs
    <2> QED
      BY <2>1, <2>8, <2>9
  <1>10. CASE UpdateInPlace
    <2>1. PICK t, rec : t = mem' /\ rec = Row
      OBVIOUS
    <2>2. AlterIn(t, mem, op.page, op.idx, RewriteOf(rec, NewRow))
      BY <1>10, <2>1, InPlaceIs
    <2>3. rec \in Records /\ rec.live
      BY <1>10, <2>1, AtRowIs DEF UpdateInPlace, AtRow, RowMatches
    <2>4. RewriteOf(rec, NewRow).live
      BY <2>3, RewriteIsRow
    <2>5. damage = {} /\ moved = {} /\ UNCHANGED << num_pages, root_page >>
      BY <1>10 DEF UpdateInPlace, NextRow
    <2>6. ExactIn(t, num_pages, root_page)
      BY <1>1, <1>2, <2>2, <2>4, <2>5, ExactRewrite DEF Sound
    <2> QED
      BY <2>1, <2>5, <2>6
  <1>11. ~UpdateMove
    BY <1>1, MoveMoves
  <1>12. CASE Reopen
    BY <1>3, <1>12, ReopenExact
  <1>13. ASSUME NEW p, NEW w, Enter(p, w)
         PROVE  ExactIn(mem', num_pages', root_page')
    BY <1>6, <1>13 DEF Enter
  <1>14. CASE \/ (\E S \in Deletes : DeleteWhere(S)) \/ (\E u \in Updates : UpdateWhere(u))
              \/ NextPage
    BY <1>13, <1>14 DEF DeleteWhere, UpdateWhere, NextPage
  <1>15. ASSUME Select \/ \E row \in Inserts : InsertDuplicate(row)
         PROVE  ExactIn(mem', num_pages', root_page')
    BY <1>6, <1>15 DEF Select, InsertDuplicate
  <1>16. CASE Skip \/ Close \/ CloseWrite \/ UNCHANGED vars
    BY <1>3, <1>16 DEF Skip, NextRow, Close, CloseWrite, vars
  <1> QED
    BY <1>4, <1>7, <1>8, <1>9, <1>10, <1>11, <1>12, <1>14, <1>15, <1>16 DEF Next

\* What a range query collects is of the chain it walks, and within its bounds.
LEMMA PickedOfChain ==
    ASSUME NEW pg, NEW root, NEW V, NEW G, G \subseteq Cell(V),
           NEW lo \in Nat, NEW hi \in Nat,
           NEW chain \in Seq(G), chain = ChainCells(pg, btree_find_leaf(pg, root, lo)),
           NEW t, t = RangeCells(pg, root, lo, hi)
    PROVE  t \in Seq(G) /\ \A c \in CellSet(t) : c \in G /\ c.key \in lo .. hi
  <1>1. PICK x : x = btree_find_leaf(pg, root, lo)
    OBVIOUS
  <1>2. PICK stop : stop = (CHOOSE i \in 1 .. Len(chain) + 1 :
                               /\ i \in DOMAIN chain => chain[i].key > hi
                               /\ \A j \in 1 .. i - 1 : chain[j].key <= hi)
    OBVIOUS
  <1>3. chain = ChainCells(pg, x)
    BY <1>1
  <1>4. t = Picked(chain, FromBound(chain, stop, lo))
    BY <1>1, <1>2, <1>3 DEF RangeCells, Once, FromBound
  <1>5. chain \in Seq(Cell(V))
    OBVIOUS
  <1>6. StopsAt(stop, chain, hi)
    <2>1. PICK i : StopsAt(i, chain, hi)
      BY <1>5, StopExists
    <2> QED
      BY <1>2, <2>1 DEF StopsAt
  <1>7. PICK places : places = FromBound(chain, stop, lo)
    OBVIOUS
  <1>8. /\ t \in Seq(G)
        /\ \A c : c \in CellSet(t) <=> \E i \in 1 .. Len(chain) : i \in places /\ c = chain[i]
    BY <1>4, <1>7, PickedIs
  <1>9. ASSUME NEW i \in 1 .. Len(chain), i \in places
        PROVE  chain[i] \in G /\ chain[i].key \in lo .. hi
    <2>1. chain[i] \in G
      OBVIOUS
    <2>2. i \in 1 .. stop - 1 /\ chain[i].key >= lo
      BY <1>7, <1>9 DEF FromBound
    <2>3. chain[i].key <= hi
      BY <1>6, <2>2 DEF StopsAt
    <2>4. chain[i].key \in Nat
      BY <1>5, CellKeys
    <2>5. PICK k : k = chain[i].key
      OBVIOUS
    <2>6. k \in lo .. hi
      BY <2>2, <2>3, <2>4, <2>5
    <2> QED
      BY <2>1, <2>5, <2>6
  <1> QED
    BY <1>8, <1>9

\* A range query returns the live rows to which the cells it collects lead.
LEMMA QueriedRow ==
    ASSUME NEW lo, NEW hi, NEW G, NEW cells \in Seq(G),
           cells = RangeCells(mem, root_page, lo, hi), NEW row
    PROVE  row \in range_query(lo, hi) <=>
              \E e \in CellSet(cells) : \E i \in SlotAt(mem, e.value) :
                 /\ mem[e.value.page].recs[i].live
                 /\ row = mem[e.value.page].recs[i].val
  <1>1. PICK R : R = UNION {{mem[cells[c].value.page].recs[i] :
                                i \in SlotAt(mem, cells[c].value)} : c \in DOMAIN cells}
    OBVIOUS
  <1>2. range_query(lo, hi) = {rec.val : rec \in {r \in R : r.live}}
    BY <1>1 DEF range_query
  <1>3. CellSet(cells) = {cells[c] : c \in DOMAIN cells}
    BY DEF CellSet
  <1>4. \A rec : rec \in R <=> \E e \in CellSet(cells) : \E i \in SlotAt(mem, e.value) :
                                  rec = mem[e.value.page].recs[i]
    BY <1>1, <1>3
  <1>5. row \in range_query(lo, hi) <=> \E rec \in R : rec.live /\ row = rec.val
    BY <1>2
  <1>6. ASSUME row \in range_query(lo, hi)
        PROVE  \E e \in CellSet(cells) : \E i \in SlotAt(mem, e.value) :
                  /\ mem[e.value.page].recs[i].live
                  /\ row = mem[e.value.page].recs[i].val
    <2>1. PICK rec \in R : rec.live /\ row = rec.val
      BY <1>5, <1>6
    <2> QED
      BY <1>4, <2>1
  <1>7. ASSUME NEW e \in CellSet(cells), NEW i \in SlotAt(mem, e.value),
               mem[e.value.page].recs[i].live, row = mem[e.value.page].recs[i].val
        PROVE  row \in range_query(lo, hi)
    <2>1. PICK rec : rec = mem[e.value.page].recs[i]
      OBVIOUS
    <2>2. rec \in R
      BY <1>4, <1>7, <2>1
    <2> QED
      BY <1>5, <1>7, <2>1, <2>2
  <1> QED
    BY <1>6, <1>7

LEMMA ExactRanges ==
    ASSUME Sound, Scans, Exact, moved = {}
    PROVE  RangesAgree
  <1> SUFFICES ASSUME damage = {}, NEW lo \in Keys, NEW hi \in Keys, lo <= hi
               PROVE  range_query(lo, hi) = {row \in LiveRows : row.key \in lo .. hi}
    BY DEF RangesAgree
  <1>1. PICK a, T, E : /\ ExactBy(a, T, mem, num_pages, root_page)
                       /\ E = EntriesOf(a, TABLE_MAX_PAGES)
    BY DEF Exact, ExactIn
  <1>2. PICK cells : cells = RangeCells(mem, root_page, lo, hi)
    OBVIOUS
  <1>3. /\ cells \in Seq(Cell(RowPointers))
        /\ \A e : e \in CellSet(cells) <=> e \in E /\ e.key \in lo .. hi
    <2>1. lo \in Nat /\ hi \in Nat
      BY TableAssumption
    <2>2. Within(a, mem, TABLE_MAX_PAGES, RowPointers, num_pages, root_page, T)
      BY <1>1 DEF ExactBy
    <2>3. PICK m, n, r, N, V : /\ m = mem /\ n = num_pages /\ r = root_page
                               /\ N = TABLE_MAX_PAGES /\ V = RowPointers
      OBVIOUS
    <2>4. Within(a, m, N, V, n, r, T) /\ cells = RangeCells(m, r, lo, hi)
      BY <1>2, <2>2, <2>3
    <2>5. /\ cells \in Seq(Cell(V))
          /\ \A e : e \in CellSet(cells) <=> e \in EntriesOf(a, N) /\ e.key \in lo .. hi
      BY <2>1, <2>4, WithinRange
    <2> QED
      BY <1>1, <2>3, <2>5
  <1>5. PagesOK(mem) /\ OneRowOfKey(mem)
    BY DEF Sound, Files, Scans, Scanned, Whole
  <1>6. \A e \in E : e \in Cell(RowPointers) /\ Marks(mem, e)
    BY <1>1, ExactCells DEF ExactBy, Pairs
  <1>7. \A row : row \in range_query(lo, hi) <=>
                    \E e \in CellSet(cells) : \E i \in SlotAt(mem, e.value) :
                       /\ mem[e.value.page].recs[i].live
                       /\ row = mem[e.value.page].recs[i].val
    BY <1>2, <1>3, QueriedRow
  <1>8. ASSUME NEW row \in range_query(lo, hi)
        PROVE  row \in RowsOf(mem) /\ row.key \in lo .. hi
    <2>1. PICK e, i : /\ e \in CellSet(cells) /\ i \in SlotAt(mem, e.value)
                      /\ row = mem[e.value.page].recs[i].val
      BY <1>7, <1>8
    <2>2. e \in E /\ e.key \in lo .. hi
      BY <1>3, <2>1
    <2>3. PICK j : MarkedAt(mem, e, j)
      BY <1>5, <1>6, <2>2, MarksRow
    <2> QED
      BY <2>1, <2>2, <2>3 DEF MarkedAt
  <1>9. ASSUME NEW row \in RowsOf(mem), row.key \in lo .. hi
        PROVE  row \in range_query(lo, hi)
    <2>1. PICK e \in E : e.key = row.key
      BY <1>1, <1>9 DEF ExactBy, Pairs
    <2>2. e \in CellSet(cells)
      BY <1>3, <1>9, <2>1
    <2>3. PICK p, j : p = e.value.page /\ MarkedAt(mem, e, j)
      BY <1>5, <1>6, MarksRow
    <2>4. PICK x, i : x \in HeapPages /\ i \in LiveIn(mem[x]) /\
             IsHeap(mem[x]) /\ row = mem[x].recs[i].val
      BY <1>9, RowIn
    <2>5. x = p /\ i = j
      <3>1. /\ p \in HeapPages /\ IsHeap(mem[p]) /\ j \in LiveIn(mem[p])
            /\ mem[p].recs[j].val.key = row.key
        BY <2>1, <2>3 DEF MarkedAt
      <3> QED
        BY <1>5, <2>4, <3>1 DEF OneRowOfKey
    <2> QED
      BY <1>7, <2>2, <2>3, <2>4, <2>5 DEF MarkedAt
  <1> QED
    BY <1>8, <1>9, LiveRowsAre

\* Until an update moves a row, and while nothing is damaged, index and rows
\* correspond: the tree is in order, every entry leads to a live row of its key and
\* every live row has an entry, after any splits, deletions and orderly restarts
\* (node.cpp:263-292, 417-451; table.cpp:98-203, 260-291, 604-633).
THEOREM IndexStaysExact == Spec => []Exact
  BY InitExact, StepExact, PagesStaySound, ScansStayComplete, PTL DEF Spec

\* A range query returns exactly the live rows of the range, until an update moves a
\* row or something is damaged: with any number of pages, splits and deletions.
THEOREM RangesAgreeUntilMoved == Spec => [](moved = {} => RangesAgree)
  BY ExactRanges, PagesStaySound, ScansStayComplete, IndexStaysExact, PTL

\* What a range query returns are live rows within its bounds, wherever the descent
\* ends at a leaf.
RangesReturnRows ==
    Alive => \A lo, hi \in Keys :
                DescentDefined(mem, root_page, lo) =>
                    range_query(lo, hi) \subseteq {row \in LiveRows : row.key \in lo .. hi}

LEMMA QueriesReturnRows ==
    ASSUME Sound, Indexes
    PROVE  RangesReturnRows
  <1> SUFFICES ASSUME Alive, NEW lo \in Keys, NEW hi \in Keys,
                      DescentDefined(mem, root_page, lo), NEW row \in range_query(lo, hi)
               PROVE  row \in RowsOf(mem) /\ row.key \in lo .. hi
    BY LiveRowsAre DEF RangesReturnRows
  <1>1. PICK T : IndexIn(mem, root_page, T)
    BY DEF Indexes, Index
  <1>2. PICK m, r, N, G : m = mem /\ r = root_page /\ N = TABLE_MAX_PAGES /\ G = GoodCells(m)
    OBVIOUS
  <1>3. /\ Net(m, N, T, T \cup {0}, G) /\ Linked(m, T) /\ 0 \notin T /\ r \in T
        /\ PagesOK(m) /\ lo \in Nat /\ hi \in Nat
    BY <1>1, <1>2, TableAssumption DEF IndexIn, Sound, Files
  <1>4. PICK x, path : path = Path(m, r, lo) /\ x = path[Len(path)]
    OBVIOUS
  <1>5. NetPath(path, m, T, T \cup {0}, r, lo)
    BY <1>3, <1>4, NetDescent
  <1>6. x = btree_find_leaf(m, r, lo) /\ x \in T /\ IsLeaf(m[x])
    BY <1>2, <1>4, <1>5 DEF NetPath
  <1>7. PICK chain : chain = ChainCells(m, x)
    OBVIOUS
  <1>8. chain \in Seq(G)
    BY <1>3, <1>6, <1>7, NetChain
  <1>9. G \subseteq Cell(RowPointers)
    BY <1>2 DEF GoodCells, IndexCells
  <1>10. PICK cells : cells = RangeCells(m, r, lo, hi)
    OBVIOUS
  <1>11. cells \in Seq(G) /\ \A c \in CellSet(cells) : c \in G /\ c.key \in lo .. hi
    BY <1>3, <1>6, <1>7, <1>8, <1>9, <1>10, PickedOfChain
  <1>12. PICK e, i : /\ e \in CellSet(cells) /\ i \in SlotAt(m, e.value)
                     /\ m[e.value.page].recs[i].live /\ row = m[e.value.page].recs[i].val
    BY <1>2, <1>10, <1>11, QueriedRow
  <1>13. e \in Cell(RowPointers) /\ e.key \in lo .. hi
    BY <1>9, <1>11, <1>12
  <1>14. PICK j \in SlotAt(m, e.value) : m[e.value.page].recs[j].val.key = e.key
    BY <1>2, <1>11, <1>12 DEF GoodCells
  <1>15. e.value \in RowPointers
    BY <1>13 DEF Cell
  <1>16. j = i
    BY <1>3, <1>12, <1>14, <1>15, SlotOne
  <1>17. Marks(m, e)
    BY <1>12, <1>14, <1>16 DEF Marks
  <1>18. PICK k : MarkedAt(m, e, k)
    BY <1>3, <1>13, <1>17, MarksRow
  <1>19. i = k
    BY <1>12, <1>18 DEF MarkedAt
  <1> QED
    BY <1>2, <1>12, <1>13, <1>18, <1>19 DEF MarkedAt

\* A range query never returns a row that was deleted, one of a key outside its
\* bounds, or what is no row: also after rows were moved and the order of the index
\* was lost, until a process dies (table.cpp:322-367, 558-602).
THEOREM QueriesReturnLiveRows == Spec => []RangesReturnRows
  BY QueriesReturnRows, PagesStaySound, IndexesStaySound, PTL
=============================================================================
