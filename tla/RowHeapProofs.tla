--------------------------- MODULE RowHeapProofs ----------------------------
(***************************************************************************)
(* Proofs about RowHeap, for every page size, every number of pages, every *)
(* set of values, with and without UNIQUE, and wherever the process may    *)
(* die: the state keeps its type, no stored row goes missing from the file *)
(* and no row ends up where a walk does not reach it.                      *)
(*                                                                         *)
(* Neither of the last two is inductive.  That a kill leaves no hole needs *)
(* to know that the file has none either, which during a clean exit is     *)
(* true only of what the destructor has written so far; and it needs to    *)
(* know where the file ends.  IInv says all of this.                       *)
(***************************************************************************)
EXTENDS RowHeap, HeapProofs, FiniteSetTheorems

\* The value of a row is never larger than its slot.
SlotsFit(recs) == \A i \in DOMAIN recs : RowSize[recs[i].val] <= recs[i].size

\* A page's counter counts its records, tells whether there are any, and is 0
\* only on a page that was never used.
PageOK(pg) ==
    /\ pg \in Page
    /\ pg.used = 0 \/ pg.used >= USED_SIZE
    /\ EndOfHeap(pg) <=> Len(pg.recs) = 0
    /\ CounterOK(pg)
    /\ SlotsFit(pg.recs)

PagesOK == \A p \in HeapPages : PageOK(mem[p]) /\ PageOK(disk[p])

\* The end of the page that an update fixed still lies within the page.
CursorOK ==
    op.kind = "update" =>
        op.idx >= 1 /\ op.last <= Len(mem[op.page].recs)

\* The pages that the file does not have yet are empty.
FileEnd ==
    /\ file_pages <= num_pages
    /\ \A p \in HeapPages : p >= file_pages => EndOfHeap(disk[p])

\* What the destructor has written so far.
Written ==
    op.kind = "close" =>
        \A p \in HeapPages : p < op.page => disk[p] = mem[p]

NoHoles ==
    "torn" \notin damage =>
        /\ NoHole(mem)
        /\ op.kind # "close" => NoHole(disk)

IInv ==
    /\ StateOK
    /\ PagesOK
    /\ CursorOK
    /\ RowsOnDisk
    /\ FileEnd
    /\ Written
    /\ NoHoles

-----------------------------------------------------------------------------
(* What the operations on one page do to it *)

\* m and d are page maps like mem and disk.
OnDisk(m, d) ==
    \A p \in HeapPages : \A i \in DOMAIN m[p].recs :
        /\ i \in DOMAIN d[p].recs
        /\ d[p].recs[i].size = m[p].recs[i].size
        /\ m[p].recs[i].live => d[p].recs[i].live

\* A page that only lost rows or changed values: same counter, same slots.
SameSlots(new, old) ==
    /\ PageOK(new)
    /\ new.used = old.used
    /\ Len(new.recs) = Len(old.recs)
    /\ \A i \in DOMAIN old.recs :
          /\ new.recs[i].size = old.recs[i].size
          /\ new.recs[i].live => old.recs[i].live

\* Appending a row keeps the page in order and leaves it not empty.
LEMMA AppendRowOK ==
    ASSUME NEW pg, PageOK(pg), NEW v \in Values, NEW size \in Nat \ {0},
           HasRoom(pg, size), RowSize[v] <= size
    PROVE  /\ PageOK(AppendRow(pg, v, size))
           /\ ~EndOfHeap(AppendRow(pg, v, size))
  <1> DEFINE r == Record(v, size)
  <1>1. r \in Rec
    BY DEF Record, Rec
  <1>2. /\ pg.recs \in Seq(Rec)
        /\ pg.used \in Nat
    BY DEF PageOK, Page
  <1>3. /\ Append(pg.recs, r) \in Seq(Rec)
        /\ Len(Append(pg.recs, r)) = Len(pg.recs) + 1
        /\ Len(pg.recs) \in Nat
    BY <1>1, <1>2
  <1>4. /\ UsedFrom(pg) \in Nat
        /\ UsedFrom(pg) >= USED_SIZE
    BY <1>2 DEF PageOK, UsedFrom, USED_SIZE
  <1> HIDE DEF r
  <1>5. AppendRow(pg, v, size) =
           [type |-> "heap", used |-> UsedFrom(pg) + ROW_SIZE_SIZE + size,
            recs |-> Append(pg.recs, r)]
    BY DEF AppendRow, HeapPage, r
  <1>6. CounterOK(AppendRow(pg, v, size))
    <2>1. \A rec \in Rec : rec.size \in Nat
      BY DEF Rec
    <2> QED
      BY <1>1, <1>2, <2>1, CounterAppend DEF PageOK, r
  <1>7. SlotsFit(Append(pg.recs, r))
    <2>1. r.val = v /\ r.size = size
      BY DEF r, Record
    <2> QED
      BY <1>1, <1>2, <2>1 DEF PageOK, SlotsFit
  <1> QED
    BY <1>3, <1>4, <1>5, <1>6, <1>7
       DEF PageOK, Page, EndOfHeap, USED_SIZE, ROW_SIZE_SIZE

\* Changing records one by one, without touching their sizes, keeps the slots.
LEMMA ReslotOK ==
    ASSUME NEW pg, PageOK(pg), NEW rs,
           rs \in [DOMAIN pg.recs -> Rec],
           \A i \in DOMAIN pg.recs : /\ rs[i].size = pg.recs[i].size
                                     /\ rs[i].live => pg.recs[i].live
                                     /\ RowSize[rs[i].val] <= rs[i].size
    PROVE  SameSlots([pg EXCEPT !.recs = rs], pg)
  <1>1. /\ pg.recs \in Seq(Rec)
        /\ DOMAIN pg.recs = 1 .. Len(pg.recs)
        /\ Len(pg.recs) \in Nat
    BY DEF PageOK, Page
  <1>2. rs \in Seq(Rec) /\ Len(rs) = Len(pg.recs)
    BY <1>1
  <1>3. [pg EXCEPT !.recs = rs] =
           [type |-> pg.type, used |-> pg.used, recs |-> rs]
    BY DEF PageOK, Page
  <1>4. CounterOK([pg EXCEPT !.recs = rs])
    <2>1. \A rec \in Rec : rec.size \in Nat
      BY DEF Rec
    <2>2. Sized(pg.recs) /\ Sized(rs)
      BY <1>1, <1>2, <2>1, SizedSeq
    <2> QED
      BY <1>1, <1>2, <1>3, <2>2, CounterSame DEF PageOK
  <1>5. SlotsFit(rs)
    BY <1>1 DEF SlotsFit
  <1>6. PageOK([pg EXCEPT !.recs = rs])
    BY <1>2, <1>3, <1>4, <1>5 DEF PageOK, Page, EndOfHeap
  <1> QED
    BY <1>2, <1>3, <1>6 DEF SameSlots

\* A tombstone keeps the slots.
LEMMA TombstoneOK ==
    ASSUME NEW pg, PageOK(pg), NEW i \in DOMAIN pg.recs
    PROVE  SameSlots(Tombstone(pg, i), pg)
  <1> DEFINE rs == [pg.recs EXCEPT ![i].live = FALSE]
  <1>1. pg.recs \in [DOMAIN pg.recs -> Rec]
    BY DEF PageOK, Page
  <1>2. rs \in [DOMAIN pg.recs -> Rec]
    BY <1>1 DEF Rec
  <1>3. \A j \in DOMAIN pg.recs : /\ rs[j].size = pg.recs[j].size
                                  /\ rs[j].live => pg.recs[j].live
                                  /\ rs[j].val = pg.recs[j].val
    BY <1>1 DEF Rec
  <1>4. \A j \in DOMAIN pg.recs : RowSize[rs[j].val] <= rs[j].size
    BY <1>3 DEF PageOK, SlotsFit
  <1>5. Tombstone(pg, i) = [pg EXCEPT !.recs = rs]
    BY DEF Tombstone, PageOK, Page
  <1> HIDE DEF rs
  <1> QED
    BY <1>2, <1>3, <1>4, <1>5, ReslotOK

\* So does the tombstoning of all rows that match.
LEMMA TombstoneAllOK ==
    ASSUME NEW pg, PageOK(pg), NEW S
    PROVE  SameSlots(TombstoneAll(pg, S), pg)
  <1> DEFINE rs == [i \in DOMAIN pg.recs |->
                       [pg.recs[i] EXCEPT !.live = @ /\ pg.recs[i].val \notin S]]
  <1>1. pg.recs \in [DOMAIN pg.recs -> Rec]
    BY DEF PageOK, Page
  <1>2. ASSUME NEW j \in DOMAIN pg.recs
        PROVE  rs[j] \in Rec /\ rs[j].size = pg.recs[j].size
               /\ (rs[j].live => pg.recs[j].live)
               /\ rs[j].val = pg.recs[j].val
    <2>1. pg.recs[j] \in Rec
      BY <1>1
    <2>2. rs[j] = [size |-> pg.recs[j].size,
                   live |-> pg.recs[j].live /\ pg.recs[j].val \notin S,
                   val  |-> pg.recs[j].val]
      BY <2>1 DEF Rec
    <2> QED
      BY <2>1, <2>2 DEF Rec
  <1>3. rs \in [DOMAIN pg.recs -> Rec]
    BY <1>2
  <1>4. TombstoneAll(pg, S) = [pg EXCEPT !.recs = rs]
    BY DEF TombstoneAll
  <1>5. \A j \in DOMAIN pg.recs : RowSize[rs[j].val] <= rs[j].size
    BY <1>2 DEF PageOK, SlotsFit
  <1> HIDE DEF rs
  <1> QED
    BY <1>2, <1>3, <1>4, <1>5, ReslotOK

\* So does an update in place, of a row that fits its slot.
LEMMA RewriteOK ==
    ASSUME NEW pg, PageOK(pg), NEW i \in DOMAIN pg.recs, NEW v \in Values,
           RowSize[v] <= pg.recs[i].size
    PROVE  SameSlots(Rewrite(pg, i, v), pg)
  <1> DEFINE rs == [pg.recs EXCEPT ![i].val = v]
  <1>1. pg.recs \in [DOMAIN pg.recs -> Rec]
    BY DEF PageOK, Page
  <1>2. rs \in [DOMAIN pg.recs -> Rec]
    BY <1>1 DEF Rec
  <1>3. \A j \in DOMAIN pg.recs :
           /\ rs[j].size = pg.recs[j].size
           /\ rs[j].live => pg.recs[j].live
           /\ rs[j].val = IF j = i THEN v ELSE pg.recs[j].val
    BY <1>1 DEF Rec
  <1>4. \A j \in DOMAIN pg.recs : RowSize[rs[j].val] <= rs[j].size
    BY <1>3 DEF PageOK, SlotsFit
  <1>5. Rewrite(pg, i, v) = [pg EXCEPT !.recs = rs]
    BY DEF Rewrite, PageOK, Page
  <1> HIDE DEF rs
  <1> QED
    BY <1>2, <1>3, <1>4, <1>5, ReslotOK

\* And a page left as it is.
LEMMA SameOK ==
    ASSUME NEW pg, PageOK(pg)
    PROVE  SameSlots(pg, pg)
  BY DEF SameSlots

\* Empty pages, used or not, are in order.
LEMMA EmptyOK ==
    /\ PageOK(ZeroPage) /\ EndOfHeap(ZeroPage) /\ ZeroPage.recs = << >>
    /\ PageOK(ClearedPage) /\ EndOfHeap(ClearedPage) /\ ClearedPage.recs = << >>
  BY CounterEmpty
  DEF PageOK, SlotsFit, Page, ZeroPage, ClearedPage, HeapPage, EndOfHeap, USED_SIZE

-----------------------------------------------------------------------------
(* What the actions do to all pages *)

\* Changes within slots keep the rows on disk and open no hole.
LEMMA SameSlotsKeep ==
    ASSUME NEW m, NEW new, NEW d,
           \A p \in HeapPages : PageOK(m[p]),
           \A p \in HeapPages : SameSlots(new[p], m[p]),
           OnDisk(m, d)
    PROVE  /\ OnDisk(new, d)
           /\ NoHole(m) => NoHole(new)
  <1>1. ASSUME NEW p \in HeapPages
        PROVE  DOMAIN new[p].recs = DOMAIN m[p].recs
    <2>1. m[p].recs \in Seq(Rec) /\ new[p].recs \in Seq(Rec)
      BY DEF SameSlots, PageOK, Page
    <2> QED
      BY <2>1 DEF SameSlots
  <1>2. OnDisk(new, d)
    BY <1>1 DEF OnDisk, SameSlots
  <1>3. ASSUME NEW p \in HeapPages
        PROVE  EndOfHeap(new[p]) <=> EndOfHeap(m[p])
    BY DEF SameSlots, EndOfHeap
  <1> QED
    BY <1>2, <1>3 DEF NoHole

\* A page with records in memory has records in the file.
LEMMA EmptyOnDisk ==
    ASSUME NEW m, NEW d, NEW p \in HeapPages,
           PageOK(m[p]), PageOK(d[p]), OnDisk(m, d), EndOfHeap(d[p])
    PROVE  EndOfHeap(m[p])
  <1>1. /\ m[p].recs \in Seq(Rec)
        /\ d[p].recs \in Seq(Rec)
        /\ Len(m[p].recs) \in Nat
    BY DEF PageOK, Page
  <1>2. Len(d[p].recs) = 0
    BY DEF PageOK
  <1>3. ASSUME Len(m[p].recs) # 0 PROVE FALSE
    <2>1. 1 \in DOMAIN m[p].recs
      BY <1>1, <1>3
    <2>2. 1 \in DOMAIN d[p].recs
      BY <2>1 DEF OnDisk
    <2> QED
      BY <2>2, <1>1, <1>2
  <1> QED
    BY <1>3 DEF PageOK

\* Table::insert, wherever the row goes.
LEMMA StoreOK ==
    ASSUME NEW m \in [HeapPages -> Page],
           NEW n \in ROW_START_PAGE .. TABLE_MAX_PAGES,
           NEW v \in Values,
           StateOK, FileEnd, file_pages <= n,
           \A p \in HeapPages : PageOK(m[p]) /\ PageOK(disk[p]),
           OnDisk(m, disk),
           Store(m, n, v)
    PROVE  /\ mem' \in [HeapPages -> Page]
           /\ disk' \in [HeapPages -> Page]
           /\ num_pages' \in ROW_START_PAGE .. TABLE_MAX_PAGES
           /\ file_pages' \in 1 .. TABLE_MAX_PAGES
           /\ PagesOK'
           /\ OnDisk(mem', disk')
           /\ FileEnd'
           /\ NoHole(m) => NoHole(mem')
           /\ NoHole(m) /\ NoHole(disk) => NoHole(disk')
           /\ \A p \in HeapPages : Len(mem'[p].recs) >= Len(m[p].recs)
  <1> DEFINE val  == Stored[v]
             size == RowSize[val]
  <1>1. val \in Values /\ size \in Nat \ {0} /\ RowSize[val] <= size
    BY RowHeapAssumption
  <1>2. /\ TABLE_MAX_PAGES \in Nat /\ TABLE_MAX_PAGES > 2
        /\ \A p \in HeapPages : p \in Nat /\ p >= 2 /\ p < TABLE_MAX_PAGES
        /\ file_pages \in 1 .. TABLE_MAX_PAGES
        /\ disk \in [HeapPages -> Page]
    BY RowHeapAssumption DEF HeapPages, ROW_START_PAGE, StateOK
  <1>3. num_pages' = Larger(n, 3) /\ num_pages' \in 3 .. TABLE_MAX_PAGES /\ num_pages' >= n
    BY <1>2 DEF Store, Larger, ROW_START_PAGE
  <1> HIDE DEF val, size
  <1>4. CASE \E p \in HeapPages :
                 /\ FirstRoom(m, n, size, p)
                 /\ mem' = [m EXCEPT ![p] = AppendRow(m[p], val, size)]
                 /\ disk' = [disk EXCEPT ![p] = AppendRow(m[p], val, size)]
                 /\ file_pages' = Larger(file_pages, p + 1)
    <2>1. PICK p \in HeapPages :
                 /\ FirstRoom(m, n, size, p)
                 /\ mem' = [m EXCEPT ![p] = AppendRow(m[p], val, size)]
                 /\ disk' = [disk EXCEPT ![p] = AppendRow(m[p], val, size)]
                 /\ file_pages' = Larger(file_pages, p + 1)
      BY <1>4
    <2> DEFINE new == AppendRow(m[p], val, size)
    <2>2. PageOK(new) /\ ~EndOfHeap(new) /\ new \in Page
      BY <1>1, <2>1, AppendRowOK DEF PageOK, FirstRoom
    <2>3. Len(new.recs) = Len(m[p].recs) + 1 /\ Len(m[p].recs) \in Nat
      BY DEF AppendRow, HeapPage, Page
    <2> HIDE DEF new
    <2>4. /\ mem' \in [HeapPages -> Page] /\ disk' \in [HeapPages -> Page]
          /\ \A q \in HeapPages :
                /\ mem'[q] = IF q = p THEN new ELSE m[q]
                /\ disk'[q] = IF q = p THEN new ELSE disk[q]
      BY <1>2, <2>1, <2>2 DEF new
    <2>5. /\ file_pages' \in 1 .. TABLE_MAX_PAGES
          /\ file_pages' >= file_pages /\ file_pages' > p
          /\ file_pages' <= num_pages'
      BY <1>2, <1>3, <2>1 DEF Larger, FirstRoom, Candidate, ROW_START_PAGE
    <2>6. PagesOK'
      BY <2>2, <2>4 DEF PagesOK
    <2>7. OnDisk(mem', disk')
      BY <2>4 DEF OnDisk
    <2>8. FileEnd'
      <3>1. ASSUME NEW q \in HeapPages, q >= file_pages'
            PROVE  EndOfHeap(disk'[q])
        BY <1>2, <2>4, <2>5, <3>1 DEF FileEnd
      <3> QED
        BY <2>5, <3>1 DEF FileEnd
    <2>9. \* no page in front of p is empty, or it would have room
          \A q \in HeapPages : q < p => ~EndOfHeap(m[q])
      <3>1. SUFFICES ASSUME NEW q \in HeapPages, q < p, EndOfHeap(m[q])
                     PROVE  HasRoom(m[q], size)
        BY <2>1 DEF FirstRoom
      <3>2. /\ m[p].used \in Nat /\ (m[p].used = 0 \/ m[p].used >= 4)
            /\ m[q].used \in Nat /\ m[q].used <= 4
        BY <3>1 DEF PageOK, Page, EndOfHeap, USED_SIZE
      <3>3. UsedFrom(m[p]) + 4 + size <= PAGE_SIZE
        BY <2>1 DEF FirstRoom, HasRoom, ROW_SIZE_SIZE
      <3> QED
        BY <1>1, <3>2, <3>3, PageSizeAssumption
           DEF HasRoom, UsedFrom, USED_SIZE, ROW_SIZE_SIZE
    <2>10. NoHole(m) => NoHole(mem')
      BY <2>2, <2>4, <2>9 DEF NoHole
    <2>11. \A q \in HeapPages : q < p => ~EndOfHeap(disk[q])
      BY <2>9, EmptyOnDisk
    <2>12. NoHole(disk) => NoHole(disk')
      BY <2>2, <2>4, <2>11 DEF NoHole
    <2>13. \A q \in HeapPages : Len(m[q].recs) \in Nat
      BY DEF Page
    <2>14. \A q \in HeapPages : Len(mem'[q].recs) >= Len(m[q].recs)
      BY <2>3, <2>4, <2>13
    <2> QED
      BY <1>2, <1>3, <2>4, <2>5, <2>6, <2>7, <2>8, <2>10, <2>12, <2>14
         DEF ROW_START_PAGE
  <1>5. CASE /\ mem' = [p \in HeapPages |->
                            IF Candidate(p, n) /\ m[p].used = 0
                            THEN ClearedPage ELSE m[p]]
             /\ UNCHANGED << disk, file_pages >>
    <2>1. ASSUME NEW p \in HeapPages
          PROVE  /\ PageOK(mem'[p]) /\ mem'[p] \in Page
                 /\ EndOfHeap(mem'[p]) <=> EndOfHeap(m[p])
                 /\ mem'[p].recs = m[p].recs
                 /\ Len(m[p].recs) \in Nat
      <3>1. Len(m[p].recs) \in Nat /\ m[p].recs \in Seq(Rec)
        BY DEF Page
      <3>2. CASE Candidate(p, n) /\ m[p].used = 0
        <4>1. EndOfHeap(m[p])
          BY <3>2 DEF EndOfHeap, USED_SIZE
        <4>2. m[p].recs = << >>
          BY <3>1, <4>1 DEF PageOK
        <4> QED
          BY <1>5, <3>1, <3>2, <4>1, <4>2, EmptyOK DEF PageOK
      <3>3. CASE ~(Candidate(p, n) /\ m[p].used = 0)
        BY <1>5, <3>1, <3>3 DEF PageOK
      <3> QED
        BY <3>2, <3>3
    <2>2. mem' \in [HeapPages -> Page]
      BY <1>5, <2>1
    <2>3. PagesOK' /\ OnDisk(mem', disk')
      BY <1>5, <2>1 DEF PagesOK, OnDisk
    <2>4. (NoHole(m) => NoHole(mem')) /\ (NoHole(disk) => NoHole(disk'))
      BY <1>5, <2>1 DEF NoHole
    <2>5. FileEnd'
      BY <1>2, <1>3, <1>5 DEF FileEnd
    <2> QED
      BY <1>2, <1>3, <1>5, <2>1, <2>2, <2>3, <2>4, <2>5 DEF ROW_START_PAGE
  <1> QED
    BY <1>4, <1>5 DEF Store, flush, val, size

-----------------------------------------------------------------------------
(* The invariant *)

LEMMA InitIInv == Init => IInv
  <1> SUFFICES ASSUME Init PROVE IInv
    OBVIOUS
  <1>1. /\ TABLE_MAX_PAGES \in Nat /\ TABLE_MAX_PAGES > 2
        /\ \A p \in HeapPages : p \in Nat /\ p >= 2 /\ p < TABLE_MAX_PAGES
    BY RowHeapAssumption DEF HeapPages, ROW_START_PAGE
  <1>2. \A p \in HeapPages : mem[p] = ZeroPage /\ disk[p] = ZeroPage
    BY DEF Init
  <1>3. PagesOK
    BY <1>2, EmptyOK DEF PagesOK
  <1>4. StateOK
    <2>1. ZeroPage \in Page
      BY EmptyOK DEF PageOK
    <2> QED
      BY <1>1, <2>1 DEF Init, StateOK, ROW_START_PAGE
  <1>5. CursorOK /\ Written /\ FileEnd
    BY <1>1, <1>2, EmptyOK DEF Init, CursorOK, Written, FileEnd, Idle, ROW_START_PAGE
  <1>6. RowsOnDisk
    BY <1>2, EmptyOK DEF RowsOnDisk, SlotOnDisk
  <1>7. NoHoles
    BY <1>2, EmptyOK DEF NoHoles, NoHole
  <1> QED
    BY <1>3, <1>4, <1>5, <1>6, <1>7 DEF IInv

\* A new process takes the file as it is.
LEMMA RestartOK ==
    ASSUME IInv, Restart(disk, file_pages), UNCHANGED << disk, file_pages >>,
           answer' \in {"none", "inserted", "duplicate", "died"},
           damage' \subseteq {"died", "torn"},
           "torn" \notin damage' => NoHole(disk)
    PROVE  IInv'
  <1>1. /\ TABLE_MAX_PAGES \in Nat /\ TABLE_MAX_PAGES > 2
        /\ \A p \in HeapPages : p \in Nat /\ p >= 2 /\ p < TABLE_MAX_PAGES
    BY RowHeapAssumption DEF HeapPages, ROW_START_PAGE
  <1>2. mem' = disk /\ disk' = disk /\ file_pages' = file_pages /\ op' = Idle
    BY DEF Restart
  <1>3. num_pages' \in ROW_START_PAGE .. TABLE_MAX_PAGES /\ file_pages <= num_pages'
    BY <1>1 DEF IInv, StateOK, Restart, Larger, ROW_START_PAGE
  <1>4. StateOK'
    BY <1>2, <1>3 DEF IInv, StateOK
  <1>5. PagesOK'
    BY <1>2 DEF IInv, PagesOK
  <1>6. CursorOK' /\ Written'
    BY <1>2 DEF CursorOK, Written, Idle
  <1>7. RowsOnDisk'
    BY <1>2 DEF RowsOnDisk, SlotOnDisk
  <1>8. FileEnd'
    BY <1>2, <1>3 DEF IInv, FileEnd
  <1>9. NoHoles'
    BY <1>2 DEF NoHoles, NoHole
  <1> QED
    BY <1>4, <1>5, <1>6, <1>7, <1>8, <1>9 DEF IInv

LEMMA DieOK == IInv /\ Die => IInv'
  <1> SUFFICES ASSUME IInv, Die PROVE IInv'
    OBVIOUS
  <1>1. "torn" \notin damage' => NoHole(disk)
    BY DEF IInv, NoHoles, Die
  <1>2. damage' \subseteq {"died", "torn"}
    BY DEF IInv, StateOK, Die
  <1> QED
    BY <1>1, <1>2, RestartOK DEF Die

\* Steps that change no page.
LEMMA StillOK ==
    ASSUME IInv, UNCHANGED << mem, disk, damage >>,
           num_pages' \in ROW_START_PAGE .. TABLE_MAX_PAGES,
           file_pages' \in 1 .. TABLE_MAX_PAGES,
           file_pages' >= file_pages, file_pages' <= num_pages',
           StateOK', CursorOK', op.kind # "close",
           op'.kind = "close" => op'.page = ROW_START_PAGE
    PROVE  IInv'
  <1>1. /\ TABLE_MAX_PAGES \in Nat
        /\ \A p \in HeapPages : p \in Nat /\ p >= 2
        /\ file_pages \in Nat /\ file_pages' \in Nat
    BY RowHeapAssumption DEF HeapPages, ROW_START_PAGE, IInv, StateOK
  <1>2. PagesOK' /\ RowsOnDisk'
    BY DEF IInv, PagesOK, RowsOnDisk, SlotOnDisk
  <1>3. FileEnd'
    BY <1>1 DEF IInv, FileEnd
  <1>4. Written'
    BY <1>1 DEF Written, ROW_START_PAGE
  <1>5. NoHoles'
    BY DEF IInv, NoHoles, NoHole
  <1> QED
    BY <1>2, <1>3, <1>4, <1>5 DEF IInv

\* Steps that change rows within their slots, in memory only.
LEMMA SlotsOK ==
    ASSUME IInv,
           mem' \in [HeapPages -> Page],
           \A p \in HeapPages : SameSlots(mem'[p], mem[p]),
           UNCHANGED << disk, file_pages, damage >>,
           num_pages' \in ROW_START_PAGE .. TABLE_MAX_PAGES,
           num_pages' >= num_pages,
           StateOK', CursorOK', op.kind # "close", op'.kind # "close"
    PROVE  IInv'
  <1>1. num_pages \in Nat /\ file_pages \in Nat
    BY RowHeapAssumption DEF IInv, StateOK, ROW_START_PAGE
  <1>2. PagesOK'
    BY DEF IInv, PagesOK, SameSlots
  <1>3. OnDisk(mem, disk) /\ \A p \in HeapPages : PageOK(mem[p])
    BY DEF IInv, PagesOK, RowsOnDisk, SlotOnDisk, OnDisk
  <1>4. OnDisk(mem', disk) /\ (NoHole(mem) => NoHole(mem'))
    BY <1>3, SameSlotsKeep
  <1>5. RowsOnDisk'
    BY <1>4 DEF OnDisk, RowsOnDisk, SlotOnDisk
  <1>6. FileEnd' /\ Written'
    BY <1>1, RowHeapAssumption DEF IInv, FileEnd, Written, StateOK, ROW_START_PAGE
  <1>7. NoHoles'
    BY <1>4 DEF IInv, NoHoles, NoHole
  <1> QED
    BY <1>2, <1>5, <1>6, <1>7 DEF IInv

\* The page count after a walk that ended in the heap.
LEMMA LookupCount ==
    ASSUME StateOK, NEW e \in HeapPages
    PROVE  /\ Touched(e) \in ROW_START_PAGE .. TABLE_MAX_PAGES
           /\ Touched(e) >= num_pages
           /\ num_pages \in Nat
  BY RowHeapAssumption DEF StateOK, Touched, Larger, HeapPages, ROW_START_PAGE

\* Insertion into memory m (with the updated row's tombstone or without).
LEMMA PlaceOK ==
    ASSUME IInv,
           NEW m \in [HeapPages -> Page],
           \A p \in HeapPages : SameSlots(m[p], mem[p]),
           NEW n \in ROW_START_PAGE .. TABLE_MAX_PAGES, n >= num_pages,
           NEW v \in Values,
           Store(m, n, v),
           UNCHANGED damage,
           op.kind # "close", op'.kind # "close",
           op' = op \/ (op' = [op EXCEPT !.idx = @ + 1] /\ op.kind = "update"),
           answer' \in {"none", "inserted", "duplicate", "died"}
    PROVE  IInv'
  <1>1. /\ StateOK /\ FileEnd
        /\ OnDisk(mem, disk)
        /\ \A p \in HeapPages : PageOK(mem[p]) /\ PageOK(disk[p])
    BY DEF IInv, PagesOK, RowsOnDisk, SlotOnDisk, OnDisk
  <1>2. OnDisk(m, disk) /\ (NoHole(mem) => NoHole(m))
    BY <1>1, SameSlotsKeep
  <1>3. \A p \in HeapPages : PageOK(m[p])
    BY DEF SameSlots
  <1>4. file_pages <= n /\ num_pages \in Nat
    BY <1>1, RowHeapAssumption DEF FileEnd, StateOK, ROW_START_PAGE
  <1>5. /\ mem' \in [HeapPages -> Page]
        /\ disk' \in [HeapPages -> Page]
        /\ num_pages' \in ROW_START_PAGE .. TABLE_MAX_PAGES
        /\ file_pages' \in 1 .. TABLE_MAX_PAGES
        /\ PagesOK'
        /\ OnDisk(mem', disk')
        /\ FileEnd'
        /\ NoHole(m) => NoHole(mem')
        /\ NoHole(m) /\ NoHole(disk) => NoHole(disk')
        /\ \A p \in HeapPages : Len(mem'[p].recs) >= Len(m[p].recs)
    BY <1>1, <1>2, <1>3, <1>4, StoreOK
  <1>6. StateOK' /\ CursorOK'
    <2>1. CASE op' = op
      <3>1. CursorOK'
        <4>1. ASSUME op.kind = "update"
              PROVE  op.idx >= 1 /\ op.last <= Len(mem'[op.page].recs)
          <5>1. op.page \in HeapPages /\ op.last \in Nat
            BY <1>1, <4>1 DEF StateOK, Idle
          <5>2. Len(m[op.page].recs) = Len(mem[op.page].recs)
            BY <5>1 DEF SameSlots
          <5>3. /\ Len(mem'[op.page].recs) >= Len(m[op.page].recs)
                /\ Len(mem'[op.page].recs) \in Nat
                /\ Len(m[op.page].recs) \in Nat
            BY <1>5, <5>1 DEF Page
          <5> QED
            BY <4>1, <5>1, <5>2, <5>3 DEF IInv, CursorOK
        <4> QED
          BY <2>1, <4>1 DEF CursorOK
      <3> QED
        BY <1>1, <1>5, <2>1, <3>1 DEF StateOK
    <2>2. CASE op' = [op EXCEPT !.idx = @ + 1] /\ op.kind = "update"
      <3>1. op \in [kind : {"update"}, page : HeapPages, idx : Nat, last : Nat,
                    from : SUBSET Values, to : Values]
        BY <1>1, <2>2 DEF StateOK, Idle
      <3>2. /\ op' \in [kind : {"update"}, page : HeapPages, idx : Nat, last : Nat,
                        from : SUBSET Values, to : Values]
            /\ op'.page = op.page /\ op'.last = op.last /\ op'.idx = op.idx + 1
        BY <2>2, <3>1
      <3>3. Len(m[op.page].recs) = Len(mem[op.page].recs)
        BY <3>1 DEF SameSlots
      <3>4. /\ Len(mem'[op.page].recs) >= Len(m[op.page].recs)
            /\ Len(mem'[op.page].recs) \in Nat
            /\ Len(m[op.page].recs) \in Nat
        BY <1>5, <3>1 DEF Page
      <3>5. CursorOK'
        BY <2>2, <3>1, <3>2, <3>3, <3>4 DEF IInv, CursorOK
      <3> QED
        BY <1>1, <1>5, <3>2, <3>5 DEF StateOK
    <2> QED
      BY <2>1, <2>2
  <1>7. RowsOnDisk'
    BY <1>5 DEF OnDisk, RowsOnDisk, SlotOnDisk
  <1>8. Written'
    BY DEF Written
  <1>9. NoHoles'
    BY <1>2, <1>5 DEF IInv, NoHoles, NoHole
  <1> QED
    BY <1>5, <1>6, <1>7, <1>8, <1>9 DEF IInv

-----------------------------------------------------------------------------
(* One lemma per group of actions *)

LEMMA InsertStep ==
    ASSUME IInv, NEW v \in Values, Insert(v) \/ InsertDuplicate(v)
    PROVE  IInv'
  <1>0. op = Idle
    <2>1. CASE Insert(v)
      BY <2>1 DEF Insert
    <2>2. CASE InsertDuplicate(v)
      BY <2>2 DEF InsertDuplicate
    <2> QED
      BY <2>1, <2>2
  <1>1. StateOK /\ op = Idle /\ op.kind # "close"
    BY <1>0 DEF IInv, Idle
  <1>2. /\ mem \in [HeapPages -> Page]
        /\ num_pages \in ROW_START_PAGE .. TABLE_MAX_PAGES
        /\ \A p \in HeapPages : SameSlots(mem[p], mem[p])
    BY <1>1, SameOK DEF StateOK, IInv, PagesOK
  <1>3. ASSUME Insert(v) PROVE IInv'
    <2>1. PICK n \in ROW_START_PAGE .. TABLE_MAX_PAGES :
             n >= num_pages /\ Store(mem, n, v)
      <3>1. CASE unique
        BY <1>1, <1>3, <3>1, LookupCount DEF Insert, Lookup
      <3>2. CASE ~unique
        <4>1. Store(mem, num_pages, v)
          BY <1>3, <3>2 DEF Insert
        <4>2. num_pages >= num_pages
          BY <1>2, RowHeapAssumption DEF ROW_START_PAGE
        <4> QED
          BY <1>2, <4>1, <4>2
      <3> QED
        BY <3>1, <3>2
    <2> QED
      BY <1>1, <1>2, <1>3, <2>1, PlaceOK DEF Insert, Idle
  <1>4. ASSUME InsertDuplicate(v) PROVE IInv'
    <2>1. /\ num_pages' \in ROW_START_PAGE .. TABLE_MAX_PAGES
          /\ num_pages' >= num_pages
      BY <1>1, <1>4, LookupCount DEF InsertDuplicate, Lookup
    <2>2. StateOK' /\ CursorOK'
      BY <1>1, <1>4, <2>1 DEF InsertDuplicate, StateOK, CursorOK, Idle
    <2>3. file_pages' \in 1 .. TABLE_MAX_PAGES /\ file_pages' = file_pages
          /\ file_pages' <= num_pages'
      BY <1>1, <1>4, <2>1, RowHeapAssumption
         DEF InsertDuplicate, StateOK, IInv, FileEnd, ROW_START_PAGE
    <2> QED
      BY <1>1, <1>4, <2>1, <2>2, <2>3, RowHeapAssumption, StillOK
         DEF InsertDuplicate, Idle
  <1> QED
    BY <1>3, <1>4

LEMMA SelectStep == IInv /\ Select => IInv'
  <1> SUFFICES ASSUME IInv, Select PROVE IInv'
    OBVIOUS
  <1>1. StateOK /\ op = Idle /\ op.kind # "close"
    BY DEF IInv, Select, Idle
  <1>2. /\ num_pages' \in ROW_START_PAGE .. TABLE_MAX_PAGES
        /\ num_pages' >= num_pages
    BY <1>1, LookupCount DEF Select
  <1>3. StateOK' /\ CursorOK'
    BY <1>1, <1>2 DEF Select, StateOK, CursorOK, Idle
  <1>4. /\ file_pages' \in 1 .. TABLE_MAX_PAGES /\ file_pages' = file_pages
        /\ file_pages' <= num_pages'
    BY <1>1, <1>2, RowHeapAssumption
       DEF Select, StateOK, IInv, FileEnd, ROW_START_PAGE
  <1> QED
    BY <1>1, <1>2, <1>3, <1>4, RowHeapAssumption, StillOK DEF Select, Idle

LEMMA DeleteWhereStep ==
    ASSUME IInv, NEW S, DeleteWhere(S)
    PROVE  IInv'
  <1>1. StateOK /\ op = Idle /\ op' = Idle
    BY DEF IInv, DeleteWhere
  <1>2. PICK e \in HeapPages :
           /\ num_pages' = Touched(e)
           /\ mem' = [p \in HeapPages |->
                         IF p < e THEN TombstoneAll(mem[p], S) ELSE mem[p]]
    BY DEF DeleteWhere
  <1>3. /\ num_pages' \in ROW_START_PAGE .. TABLE_MAX_PAGES
        /\ num_pages' >= num_pages
    BY <1>1, <1>2, LookupCount
  <1>4. ASSUME NEW p \in HeapPages
        PROVE  SameSlots(mem'[p], mem[p]) /\ mem'[p] \in Page
    <2>1. PageOK(mem[p])
      BY DEF IInv, PagesOK
    <2>2. SameSlots(TombstoneAll(mem[p], S), mem[p]) /\ SameSlots(mem[p], mem[p])
      BY <2>1, TombstoneAllOK, SameOK
    <2> QED
      BY <1>2, <2>2 DEF SameSlots, PageOK
  <1>5. mem' \in [HeapPages -> Page]
    BY <1>2, <1>4
  <1>6. StateOK' /\ CursorOK'
    BY <1>1, <1>3, <1>5 DEF DeleteWhere, StateOK, CursorOK, Idle
  <1> QED
    BY <1>1, <1>3, <1>4, <1>5, <1>6, SlotsOK DEF DeleteWhere, Idle

LEMMA DeleteAllStep == IInv /\ DeleteAll => IInv'
  <1> SUFFICES ASSUME IInv, DeleteAll PROVE IInv'
    OBVIOUS
  <1>1. StateOK /\ op = Idle /\ op' = Idle
    BY DEF IInv, DeleteAll
  <1>2. PICK e \in HeapPages :
           /\ Ends(e)
           /\ num_pages' = Touched(e)
           /\ mem' = [p \in HeapPages |-> IF p < e THEN ClearedPage ELSE mem[p]]
    BY DEF DeleteAll
  <1>3. /\ num_pages' \in ROW_START_PAGE .. TABLE_MAX_PAGES
        /\ num_pages' >= num_pages /\ num_pages \in Nat
    BY <1>1, <1>2, LookupCount
  <1>4. PagesOK' /\ mem' \in [HeapPages -> Page]
    BY <1>1, <1>2, EmptyOK DEF IInv, PagesOK, PageOK, DeleteAll, StateOK
  <1>5. StateOK' /\ CursorOK' /\ Written'
    BY <1>1, <1>3, <1>4 DEF DeleteAll, StateOK, CursorOK, Written, Idle
  <1>6. RowsOnDisk'
    <2>1. ASSUME NEW p \in HeapPages, NEW i \in DOMAIN mem'[p].recs
          PROVE  p >= e /\ mem'[p] = mem[p]
      BY <1>2, <2>1, EmptyOK DEF HeapPages
    <2> QED
      BY <1>2, <2>1 DEF IInv, RowsOnDisk, SlotOnDisk, DeleteAll
  <1>7. FileEnd'
    BY <1>1, <1>3, RowHeapAssumption
       DEF IInv, FileEnd, StateOK, DeleteAll, ROW_START_PAGE
  <1>8. NoHoles'
    <2>1. ASSUME NoHole(mem) PROVE NoHole(mem')
      <3>1. EndOfHeap(mem[e])
        BY <1>2 DEF Ends
      <3>2. ASSUME NEW p \in HeapPages PROVE EndOfHeap(mem'[p])
        BY <1>2, <2>1, <3>1, EmptyOK DEF NoHole, HeapPages
      <3> QED
        BY <3>2 DEF NoHole
    <2> QED
      BY <1>1, <2>1 DEF IInv, NoHoles, NoHole, DeleteAll, Idle
  <1> QED
    BY <1>4, <1>5, <1>6, <1>7, <1>8 DEF IInv

\* Coming to a page, an update reads it only.
LEMMA EnterOK ==
    ASSUME IInv, op.kind # "close", NEW p,
           NEW from \in SUBSET Values, NEW to \in Values, Enter(p, from, to)
    PROVE  IInv'
  <1>1. StateOK /\ p \in HeapPages
    BY DEF IInv, Enter
  <1>2. /\ num_pages' \in ROW_START_PAGE .. TABLE_MAX_PAGES
        /\ num_pages' >= num_pages /\ num_pages \in Nat
    BY <1>1, LookupCount DEF Enter
  <1>3. mem[p].recs \in Seq(Rec) /\ Len(mem[p].recs) \in Nat
    BY <1>1 DEF StateOK, Page
  <1>4. StateOK' /\ CursorOK' /\ op'.kind # "close"
    <2>1. CASE EndOfHeap(mem[p])
      BY <1>1, <1>2, <2>1 DEF Enter, StateOK, CursorOK, Idle
    <2>2. CASE ~EndOfHeap(mem[p])
      <3>1. op' = [kind |-> "update", page |-> p, idx |-> 1,
                   last |-> Len(mem[p].recs), from |-> from, to |-> to]
        BY <2>2 DEF Enter, Updating
      <3>2. CursorOK' /\ op'.kind # "close"
        BY <1>3, <3>1 DEF Enter, CursorOK
      <3>3. op' \in [kind : {"update"}, page : HeapPages, idx : Nat, last : Nat,
                     from : SUBSET Values, to : Values]
        BY <1>1, <1>3, <3>1
      <3> QED
        BY <1>1, <1>2, <3>2, <3>3 DEF Enter, StateOK
    <2> QED
      BY <2>1, <2>2
  <1>5. /\ file_pages' \in 1 .. TABLE_MAX_PAGES
        /\ file_pages' >= file_pages /\ file_pages' <= num_pages'
    BY <1>1, <1>2, RowHeapAssumption DEF Enter, IInv, StateOK, FileEnd, ROW_START_PAGE
  <1> QED
    BY <1>2, <1>4, <1>5, StillOK DEF Enter

\* Going on to the next row.
LEMMA NextRowOK ==
    ASSUME StateOK, CursorOK, AtRow, NextRow,
           mem' \in [HeapPages -> Page],
           \A p \in HeapPages : Len(mem'[p].recs) >= Len(mem[p].recs)
    PROVE  /\ CursorOK'
           /\ op' \in [kind : {"update"}, page : HeapPages, idx : Nat, last : Nat,
                       from : SUBSET Values, to : Values]
           /\ op' = [op EXCEPT !.idx = @ + 1]
           /\ op.kind # "close" /\ op'.kind # "close"
  <1>1. op \in [kind : {"update"}, page : HeapPages, idx : Nat, last : Nat,
                from : SUBSET Values, to : Values]
    BY DEF StateOK, AtRow, Idle
  <1>2. op' = [op EXCEPT !.idx = @ + 1]
    BY DEF NextRow
  <1>3. /\ op' \in [kind : {"update"}, page : HeapPages, idx : Nat, last : Nat,
                    from : SUBSET Values, to : Values]
        /\ op'.page = op.page /\ op'.last = op.last /\ op'.idx = op.idx + 1
    BY <1>1, <1>2
  <1>4. /\ Len(mem'[op.page].recs) >= Len(mem[op.page].recs)
        /\ Len(mem'[op.page].recs) \in Nat
        /\ Len(mem[op.page].recs) \in Nat
    BY <1>1 DEF Page, StateOK
  <1>5. CursorOK'
    BY <1>1, <1>3, <1>4 DEF CursorOK, AtRow
  <1> QED
    BY <1>1, <1>2, <1>3, <1>5

\* A row that is skipped, or that UNIQUE refuses to change.
LEMMA UpdatePassStep == IInv /\ (UpdateSkip \/ UpdateDuplicate) => IInv'
  <1> SUFFICES ASSUME IInv, UpdateSkip \/ UpdateDuplicate PROVE IInv'
    OBVIOUS
  <1>1. /\ StateOK /\ CursorOK
        /\ \A p \in HeapPages : Len(mem[p].recs) \in Nat
    BY DEF IInv, StateOK, Page
  <1>2. /\ AtRow /\ NextRow
        /\ UNCHANGED << mem, disk, file_pages >>
    <2>1. CASE UpdateSkip
      BY <2>1 DEF UpdateSkip
    <2>2. CASE UpdateDuplicate
      BY <2>2 DEF UpdateDuplicate
    <2> QED
      BY <2>1, <2>2
  <1>3. /\ num_pages' \in ROW_START_PAGE .. TABLE_MAX_PAGES
        /\ num_pages' >= num_pages /\ num_pages \in Nat
    <2>1. CASE UpdateSkip
      BY <1>1, <2>1, RowHeapAssumption DEF UpdateSkip, StateOK, ROW_START_PAGE
    <2>2. CASE UpdateDuplicate
      BY <1>1, <2>2, LookupCount DEF UpdateDuplicate, Lookup
    <2> QED
      BY <1>2, <2>1, <2>2
  <1>4. /\ CursorOK'
        /\ op' \in [kind : {"update"}, page : HeapPages, idx : Nat, last : Nat,
                    from : SUBSET Values, to : Values]
        /\ op.kind # "close" /\ op'.kind # "close"
    <2>1. /\ mem' \in [HeapPages -> Page]
          /\ \A p \in HeapPages : Len(mem'[p].recs) >= Len(mem[p].recs)
      BY <1>1, <1>2 DEF StateOK
    <2> QED
      BY <1>1, <1>2, <2>1, NextRowOK
  <1>5. StateOK'
    BY <1>1, <1>2, <1>3, <1>4 DEF StateOK, NextRow
  <1>6. /\ file_pages' \in 1 .. TABLE_MAX_PAGES
        /\ file_pages' >= file_pages /\ file_pages' <= num_pages'
    BY <1>1, <1>2, <1>3, RowHeapAssumption DEF IInv, StateOK, FileEnd, ROW_START_PAGE
  <1> QED
    BY <1>2, <1>3, <1>4, <1>5, <1>6, StillOK DEF NextRow

LEMMA UpdateRowStep == IInv /\ UpdateRow => IInv'
  <1> SUFFICES ASSUME IInv, UpdateRow PROVE IInv'
    OBVIOUS
  <1>1. StateOK /\ CursorOK /\ AtRow /\ NextRow
    BY DEF IInv, UpdateRow
  <1>2. /\ op \in [kind : {"update"}, page : HeapPages, idx : Nat, last : Nat,
                   from : SUBSET Values, to : Values]
        /\ op.idx >= 1 /\ op.idx <= op.last
        /\ op.last <= Len(mem[op.page].recs)
    BY <1>1 DEF StateOK, AtRow, CursorOK, Idle
  <1>3. /\ op.page \in HeapPages /\ op.to \in Values
        /\ Stored[op.to] \in Values
        /\ op.idx \in DOMAIN mem[op.page].recs
    <2>1. mem[op.page].recs \in Seq(Rec)
      BY <1>1, <1>2 DEF StateOK, Page
    <2> QED
      BY <1>2, <2>1, RowHeapAssumption
  <1>4. PICK n \in 0 .. TABLE_MAX_PAGES :
          /\ IF Checked THEN Lookup(op.to, FALSE, n) ELSE n = num_pages
          /\ \/ /\ RowSize[Stored[op.to]] <= Row.size
                /\ mem' = [mem EXCEPT
                              ![op.page] = Rewrite(@, op.idx, Stored[op.to])]
                /\ num_pages' = n
                /\ UNCHANGED << disk, file_pages >>
             \/ /\ RowSize[Stored[op.to]] > Row.size
                /\ Store([mem EXCEPT ![op.page] = Tombstone(@, op.idx)], n, op.to)
    BY DEF UpdateRow
  <1>5. n \in ROW_START_PAGE .. TABLE_MAX_PAGES /\ n >= num_pages
    <2>1. CASE Checked
      BY <1>1, <1>4, <2>1, LookupCount DEF Lookup
    <2>2. CASE ~Checked
      <3>1. n = num_pages
        BY <1>4, <2>2
      <3> QED
        BY <1>1, <3>1, RowHeapAssumption DEF StateOK, ROW_START_PAGE
    <2> QED
      BY <2>1, <2>2
  <1>6. \A p \in HeapPages : PageOK(mem[p])
    BY DEF IInv, PagesOK
  <1>7. CASE /\ RowSize[Stored[op.to]] <= Row.size
             /\ mem' = [mem EXCEPT
                              ![op.page] = Rewrite(@, op.idx, Stored[op.to])]
             /\ num_pages' = n
             /\ UNCHANGED << disk, file_pages >>
    <2>1. SameSlots(Rewrite(mem[op.page], op.idx, Stored[op.to]), mem[op.page])
      BY <1>3, <1>6, <1>7, RewriteOK DEF Row
    <2>2. \A p \in HeapPages : SameSlots(mem'[p], mem[p])
      BY <1>1, <1>3, <1>6, <1>7, <2>1, SameOK DEF StateOK
    <2>3. mem' \in [HeapPages -> Page]
      BY <1>1, <1>7, <2>1 DEF StateOK, SameSlots, PageOK
    <2>4. \A p \in HeapPages : Len(mem'[p].recs) >= Len(mem[p].recs)
      BY <1>1, <2>2 DEF SameSlots, StateOK, Page
    <2>5. /\ CursorOK'
          /\ op' \in [kind : {"update"}, page : HeapPages, idx : Nat, last : Nat,
                      from : SUBSET Values, to : Values]
          /\ op.kind # "close" /\ op'.kind # "close"
      BY <1>1, <2>3, <2>4, NextRowOK
    <2>6. StateOK'
      BY <1>1, <1>5, <1>7, <2>3, <2>5 DEF StateOK, NextRow
    <2> QED
      BY <1>1, <1>5, <1>7, <2>2, <2>3, <2>5, <2>6, SlotsOK DEF NextRow
  <1>8. CASE Store([mem EXCEPT ![op.page] = Tombstone(@, op.idx)], n, op.to)
    <2> DEFINE m == [mem EXCEPT ![op.page] = Tombstone(@, op.idx)]
    <2>1. SameSlots(Tombstone(mem[op.page], op.idx), mem[op.page])
      BY <1>3, <1>6, TombstoneOK
    <2>2. \A p \in HeapPages : SameSlots(m[p], mem[p])
      BY <1>1, <1>3, <1>6, <2>1, SameOK DEF StateOK
    <2>3. m \in [HeapPages -> Page]
      BY <1>1, <2>1 DEF StateOK, SameSlots, PageOK
    <2>4. Store(m, n, op.to)
      BY <1>8
    <2>5. /\ op.kind = "update" /\ op'.kind = "update"
          /\ op' = [op EXCEPT !.idx = @ + 1]
          /\ answer' = "none" /\ damage' = damage
      BY <1>1, <1>2 DEF NextRow
    <2> HIDE DEF m
    <2> QED
      BY <1>3, <1>5, <2>2, <2>3, <2>4, <2>5, PlaceOK
  <1> QED
    BY <1>4, <1>7, <1>8

LEMMA CloseStep == IInv /\ Close => IInv'
  <1> SUFFICES ASSUME IInv, Close PROVE IInv'
    OBVIOUS
  <1>1. StateOK /\ op.kind # "close"
    BY DEF IInv, Close, Idle
  <1>2. /\ file_pages' \in 1 .. TABLE_MAX_PAGES
        /\ file_pages' >= file_pages /\ file_pages' <= num_pages'
        /\ num_pages' \in ROW_START_PAGE .. TABLE_MAX_PAGES
    BY <1>1, RowHeapAssumption
       DEF Close, IInv, StateOK, FileEnd, Larger, ROW_START_PAGE
  <1>3. op' = [kind |-> "close", page |-> ROW_START_PAGE]
    BY DEF Close, Closing
  <1>4. StateOK' /\ CursorOK'
    BY <1>1, <1>2, <1>3, RowHeapAssumption
       DEF Close, StateOK, CursorOK, ROW_START_PAGE
  <1> QED
    BY <1>1, <1>2, <1>3, <1>4, StillOK DEF Close

LEMMA CloseWriteStep == IInv /\ CloseWrite => IInv'
  <1> SUFFICES ASSUME IInv, CloseWrite PROVE IInv'
    OBVIOUS
  <1>1. /\ TABLE_MAX_PAGES \in Nat /\ TABLE_MAX_PAGES > 2
        /\ \A p \in HeapPages : p \in Nat /\ p >= 2 /\ p < TABLE_MAX_PAGES
    BY RowHeapAssumption DEF HeapPages, ROW_START_PAGE
  <1>2. /\ StateOK /\ op.kind = "close" /\ op.page < num_pages
        /\ UNCHANGED << mem, num_pages, damage, answer >>
    BY DEF IInv, CloseWrite
  <1>3. /\ op.page \in ROW_START_PAGE .. TABLE_MAX_PAGES
        /\ op.page \in HeapPages
        /\ op' = [kind |-> "close", page |-> op.page + 1]
        /\ file_pages' = Larger(file_pages, op.page + 1)
    BY <1>1, <1>2
       DEF StateOK, Idle, HeapPages, ROW_START_PAGE, CloseWrite, flush, Closing
  <1>4. /\ \A p \in HeapPages :
              disk'[p] = IF p = op.page THEN mem[p] ELSE disk[p]
        /\ disk' \in [HeapPages -> Page]
    BY <1>2, <1>3 DEF CloseWrite, flush, StateOK
  <1>5. /\ file_pages' \in 1 .. TABLE_MAX_PAGES
        /\ file_pages' >= file_pages /\ file_pages' > op.page
        /\ file_pages' <= num_pages'
    BY <1>1, <1>2, <1>3 DEF IInv, FileEnd, StateOK, Larger, ROW_START_PAGE
  <1>6. StateOK' /\ CursorOK'
    BY <1>1, <1>2, <1>3, <1>4, <1>5 DEF StateOK, CursorOK, ROW_START_PAGE, HeapPages
  <1>7. PagesOK'
    BY <1>2, <1>4 DEF IInv, PagesOK
  <1>8. RowsOnDisk'
    BY <1>2, <1>4 DEF IInv, RowsOnDisk, SlotOnDisk
  <1>9. FileEnd'
    <2>1. ASSUME NEW q \in HeapPages, q >= file_pages'
          PROVE  EndOfHeap(disk'[q])
      <3>1. q # op.page /\ q >= file_pages
        BY <1>1, <1>2, <1>3, <1>5, <2>1 DEF StateOK
      <3> QED
        BY <1>4, <3>1 DEF IInv, FileEnd
    <2> QED
      BY <1>5, <2>1 DEF FileEnd
  <1>10. Written'
    <2>1. ASSUME NEW q \in HeapPages, q < op.page + 1
          PROVE  disk'[q] = mem[q]
      <3>1. CASE q = op.page
        BY <1>4, <3>1
      <3>2. CASE q < op.page
        BY <1>2, <1>4, <3>2 DEF IInv, Written
      <3> QED
        BY <1>1, <1>3, <2>1, <3>1, <3>2
    <2> QED
      BY <1>2, <1>3, <2>1 DEF Written
  <1>11. NoHoles'
    BY <1>2, <1>3 DEF IInv, NoHoles, NoHole
  <1> QED
    BY <1>6, <1>7, <1>8, <1>9, <1>10, <1>11 DEF IInv

\* When the destructor is done, the file is what the memory was.
LEMMA ReopenStep == IInv /\ Reopen => IInv'
  <1> SUFFICES ASSUME IInv, Reopen PROVE IInv'
    OBVIOUS
  <1>1. /\ TABLE_MAX_PAGES \in Nat
        /\ \A p \in HeapPages : p \in Nat
    BY RowHeapAssumption DEF HeapPages, ROW_START_PAGE
  <1>2. /\ StateOK /\ op.kind = "close" /\ op.page >= num_pages
        /\ num_pages \in Nat /\ file_pages \in Nat /\ op.page \in Nat
        /\ file_pages <= num_pages
    BY <1>1 DEF IInv, Reopen, StateOK, Idle, ROW_START_PAGE, FileEnd
  <1>3. ASSUME NEW p \in HeapPages
        PROVE  EndOfHeap(disk[p]) <=> EndOfHeap(mem[p])
    <2>1. CASE p < op.page
      BY <1>2, <2>1 DEF IInv, Written
    <2>2. CASE p >= op.page
      <3>1. EndOfHeap(disk[p])
        BY <1>1, <1>2, <2>2 DEF IInv, FileEnd
      <3>2. EndOfHeap(mem[p])
        BY <3>1, EmptyOnDisk
           DEF IInv, PagesOK, RowsOnDisk, SlotOnDisk, OnDisk
      <3> QED
        BY <3>1, <3>2
    <2> QED
      BY <1>1, <1>2, <2>1, <2>2
  <1>4. "torn" \notin damage' => NoHole(disk)
    BY <1>3 DEF IInv, NoHoles, NoHole, Reopen
  <1> QED
    BY <1>2, <1>4, RestartOK DEF Reopen, StateOK

LEMMA NextStep == IInv /\ [Step]_vars => IInv'
  <1> SUFFICES ASSUME IInv, [Step]_vars PROVE IInv'
    OBVIOUS
  <1>1. ASSUME NEW v \in Values, Insert(v) \/ InsertDuplicate(v) PROVE IInv'
    BY <1>1, InsertStep
  <1>2. CASE Select
    BY <1>2, SelectStep
  <1>3. ASSUME NEW S \in Conditions, DeleteWhere(S) PROVE IInv'
    BY <1>3, DeleteWhereStep
  <1>4. CASE DeleteAll
    BY <1>4, DeleteAllStep
  <1>5. ASSUME NEW S \in Conditions, NEW v \in Values, UpdateWhere(S, v)
        PROVE  IInv'
    <2>1. S \in SUBSET Values
      BY RowHeapAssumption
    <2>2. op.kind # "close" /\ Enter(ROW_START_PAGE, S, v)
      BY <1>5 DEF UpdateWhere, Idle
    <2> QED
      BY <2>1, <2>2, EnterOK
  <1>6. CASE UpdateNextPage
    <2>1. op.from \in SUBSET Values /\ op.to \in Values /\ op.kind # "close"
      BY <1>6 DEF IInv, StateOK, UpdateNextPage, Idle
    <2>2. Enter(op.page + 1, op.from, op.to)
      BY <1>6 DEF UpdateNextPage
    <2> QED
      BY <2>1, <2>2, EnterOK
  <1>7. CASE UpdateSkip \/ UpdateDuplicate
    BY <1>7, UpdatePassStep
  <1>8. CASE UpdateRow
    BY <1>8, UpdateRowStep
  <1>9. CASE Close
    BY <1>9, CloseStep
  <1>10. CASE CloseWrite
    BY <1>10, CloseWriteStep
  <1>11. CASE Reopen
    BY <1>11, ReopenStep
  <1>12. CASE Killed \/ WalkExits
    BY <1>12, DieOK DEF Killed, WalkExits
  <1>13. CASE UNCHANGED vars
    <2>1. UNCHANGED << mem, num_pages, disk, file_pages, op, answer, damage >>
      BY <1>13 DEF vars
    <2> QED
      BY <2>1 DEF IInv, StateOK, PagesOK, CursorOK, RowsOnDisk, SlotOnDisk,
                  FileEnd, Written, NoHoles, NoHole
  <1> QED
    BY <1>1, <1>2, <1>3, <1>4, <1>5, <1>6, <1>7, <1>8, <1>9, <1>10, <1>11,
       <1>12, <1>13 DEF Step

\* The strengthened invariant holds in every state a process can leave.
LEMMA Invariance == Spec => []IInv
  <1>1. IInv /\ [Next]_vars => IInv'
    BY NextStep DEF Next
  <1> QED
    BY InitIInv, <1>1, PTL DEF Spec

-----------------------------------------------------------------------------
(* The results *)

\* Pages, counts and the statement under way keep their types: in particular
\* no walk, insertion or restart takes the page count past TABLE_MAX_PAGES,
\* where get_page gives up (pager.cpp:57-88).
THEOREM TypeCorrect == Spec => []TypeOK
  <1> DEFINE Kept == unique \in BOOLEAN
  <1>1. Init => Kept
    BY DEF Init
  <1>2. Kept /\ [Next]_vars => Kept'
    BY DEF Next, vars
  <1>3. IInv /\ Kept => TypeOK
    BY DEF IInv, TypeOK
  <1> HIDE DEF Kept
  <1> QED
    BY Invariance, <1>1, <1>2, <1>3, PTL DEF Spec

\* Every slot of memory is in the file with its size, and a row that is live in
\* memory is live in the file: the flush at the end of Table::insert
\* (table.cpp:98-203) is enough for a kill at any point to lose no row.
THEOREM StoredRowsOnDisk == Spec => []RowsOnDisk
  <1>1. IInv => RowsOnDisk
    BY DEF IInv
  <1> QED
    BY Invariance, <1>1, PTL

\* Unless a process died inside its destructor, no row lies behind an empty
\* page, where the walks of table.cpp would not come to it.
THEOREM AllRowsReachable == Spec => []RowsReachable
  <1>1. IInv => RowsReachable
    BY DEF IInv, NoHoles, RowsReachable
  <1> QED
    BY Invariance, <1>1, PTL

\* The counter in front of a page is the end of its last record, in memory and
\* in the file, and it never passes the end of the page: the room that insert
\* sees is there (table.cpp:150-172), and no walk reads behind the last record.
THEOREM CountersCount == Spec => []CountersRight
  <1>1. IInv => CountersRight
    BY DEF IInv, PagesOK, PageOK, CounterOK, CountersRight
  <1> QED
    BY Invariance, <1>1, PTL

-----------------------------------------------------------------------------
(* An update comes to every row *)

\* What lies behind the walk of an update has no value that it is to change:
\* the rows in front of the one it comes to next, and those that were appended
\* to the page since it came to it.
Behind(p, i) == p < op.page \/ (p = op.page /\ (i < op.idx \/ i > op.last))

Reached ==
    op.kind = "update" /\ ~unique =>
        \A p \in HeapPages : \A i \in LiveIn(mem[p]) :
            Behind(p, i) => mem[p].recs[i].val \notin op.from \ {Stored[op.to]}

\* A page that takes a row keeps the records it has.
LEMMA AppendKeeps ==
    ASSUME NEW pg \in Page, NEW v \in Values, NEW size \in Nat \ {0}
    PROVE  /\ Len(pg.recs) \in Nat /\ DOMAIN pg.recs = 1 .. Len(pg.recs)
           /\ DOMAIN AppendRow(pg, v, size).recs = 1 .. Len(pg.recs) + 1
           /\ \A i \in 1 .. Len(pg.recs) : AppendRow(pg, v, size).recs[i] = pg.recs[i]
           /\ AppendRow(pg, v, size).recs[Len(pg.recs) + 1] = Record(v, size)
  <1>1. pg.recs \in Seq(Rec) /\ Record(v, size) \in Rec
    BY DEF Page, Record, Rec
  <1>2. AppendRow(pg, v, size).recs = Append(pg.recs, Record(v, size))
    BY DEF AppendRow, HeapPage
  <1> HIDE DEF Record
  <1> QED
    BY <1>1, <1>2

\* Every row that is there after an insertion into the pages m was there
\* before, or is the new one.
LEMMA StoreKeeps ==
    ASSUME NEW m \in [HeapPages -> Page], NEW n, NEW v \in Values, Store(m, n, v),
           \A p \in HeapPages : PageOK(m[p])
    PROVE  \A p \in HeapPages : \A i \in LiveIn(mem'[p]) :
              \/ i \in LiveIn(m[p]) /\ mem'[p].recs[i] = m[p].recs[i]
              \/ mem'[p].recs[i].val = Stored[v]
  <1> DEFINE val == Stored[v]
             size == RowSize[val]
  <1>1. val \in Values /\ size \in Nat \ {0}
    BY RowHeapAssumption
  <1> HIDE DEF val, size
  <1>2. CASE \E p \in HeapPages :
                mem' = [m EXCEPT ![p] = AppendRow(m[p], val, size)]
    <2>1. PICK p \in HeapPages : mem' = [m EXCEPT ![p] = AppendRow(m[p], val, size)]
      BY <1>2
    <2>2. ASSUME NEW i \in LiveIn(mem'[p])
          PROVE  \/ i \in LiveIn(m[p]) /\ mem'[p].recs[i] = m[p].recs[i]
                 \/ mem'[p].recs[i].val = val
      <3>1. mem'[p] = AppendRow(m[p], val, size) /\ m[p] \in Page
        BY <2>1
      <3>2. /\ Len(m[p].recs) \in Nat /\ DOMAIN m[p].recs = 1 .. Len(m[p].recs)
            /\ DOMAIN mem'[p].recs = 1 .. Len(m[p].recs) + 1
            /\ \A j \in 1 .. Len(m[p].recs) : mem'[p].recs[j] = m[p].recs[j]
            /\ mem'[p].recs[Len(m[p].recs) + 1] = Record(val, size)
        BY <1>1, <3>1, AppendKeeps
      <3>3. i \in 1 .. Len(m[p].recs) + 1 /\ mem'[p].recs[i].live
        BY <3>2 DEF LiveIn
      <3>4. CASE i = Len(m[p].recs) + 1
        BY <3>2, <3>4 DEF Record
      <3>5. CASE i \in 1 .. Len(m[p].recs)
        BY <3>2, <3>3, <3>5 DEF LiveIn
      <3> QED
        BY <3>2, <3>3, <3>4, <3>5
    <2>3. \A q \in HeapPages : q # p => mem'[q] = m[q]
      BY <2>1
    <2> QED
      BY <2>2, <2>3 DEF val, LiveIn
  <1>3. CASE mem' = [p \in HeapPages |->
                        IF Candidate(p, n) /\ m[p].used = 0
                        THEN ClearedPage ELSE m[p]]
    <2>1. ASSUME NEW p \in HeapPages, NEW i \in LiveIn(mem'[p])
          PROVE  i \in LiveIn(m[p]) /\ mem'[p].recs[i] = m[p].recs[i]
      <3>1. mem'[p] = ClearedPage \/ mem'[p] = m[p]
        BY <1>3
      <3>2. LiveIn(ClearedPage) = {}
        BY EmptyOK DEF LiveIn
      <3> QED
        BY <2>1, <3>1, <3>2
    <2> QED
      BY <2>1
  <1> QED
    BY <1>2, <1>3 DEF Store, val, size

LEMMA InitReached == Init => Reached
  BY DEF Init, Reached, Idle

\* An update reads on, or ends.
LEMMA EnterReached ==
    ASSUME IInv, NEW p, NEW from, NEW to, Enter(p, from, to), UNCHANGED unique,
           ~unique =>
              \A q \in HeapPages : \A i \in LiveIn(mem[q]) :
                 q < p => mem[q].recs[i].val \notin from \ {Stored[to]}
    PROVE  Reached'
  <1>1. mem' = mem /\ p \in HeapPages
    BY DEF Enter
  <1>2. CASE EndOfHeap(mem[p])
    BY <1>2 DEF Enter, Reached, Idle
  <1>3. CASE ~EndOfHeap(mem[p])
    <2>1. op' = [kind |-> "update", page |-> p, idx |-> 1, last |-> Len(mem[p].recs),
                 from |-> from, to |-> to]
      BY <1>3 DEF Enter, Updating
    <2>2. ASSUME NEW q \in HeapPages, NEW i \in LiveIn(mem[q]), Behind(q, i)'
          PROVE  q < p
      <3>1. q < p \/ (q = p /\ (i < 1 \/ i > Len(mem[p].recs)))
        BY <2>1, <2>2 DEF Behind
      <3>2. q = p => i \in 1 .. Len(mem[p].recs) /\ Len(mem[p].recs) \in Nat
        BY <1>1 DEF IInv, StateOK, LiveIn, Page
      <3> QED
        BY <3>1, <3>2
    <2> QED
      BY <1>1, <2>1, <2>2 DEF Reached, LiveIn
  <1> QED
    BY <1>2, <1>3

\* An update goes on to the next row, having left the one it was at without a
\* value to change, and without another page or row becoming worse.
LEMMA NextRowReached ==
    ASSUME IInv, Reached, AtRow, NextRow, UNCHANGED unique,
           ~unique =>
              \A p \in HeapPages : \A i \in LiveIn(mem'[p]) :
                 \/ mem'[p].recs[i].val = Stored[op.to]
                 \/ /\ i \in LiveIn(mem[p])
                    /\ mem'[p].recs[i].val = mem[p].recs[i].val
                    /\ p = op.page /\ i = op.idx => ~RowMatches
    PROVE  Reached'
  <1>1. op \in [kind : {"update"}, page : HeapPages, idx : Nat, last : Nat,
                from : SUBSET Values, to : Values]
    BY DEF IInv, StateOK, AtRow, Idle
  <1>2. op' = [op EXCEPT !.idx = @ + 1]
    BY DEF NextRow
  <1>3. /\ op'.kind = "update" /\ op'.page = op.page /\ op'.idx = op.idx + 1
        /\ op'.last = op.last /\ op'.from = op.from /\ op'.to = op.to
    BY <1>1, <1>2
  <1>4. ASSUME ~unique, NEW p \in HeapPages, NEW i \in LiveIn(mem'[p]), Behind(p, i)',
               mem'[p].recs[i].val # Stored[op.to]
        PROVE  mem'[p].recs[i].val \notin op.from
    <2>1. /\ i \in LiveIn(mem[p])
          /\ mem'[p].recs[i].val = mem[p].recs[i].val
          /\ p = op.page /\ i = op.idx => ~RowMatches
      BY <1>4
    <2>2. i \in Nat /\ mem[p].recs[i].live
      BY <2>1 DEF IInv, StateOK, LiveIn, Page
    <2>3. CASE p = op.page /\ i = op.idx
      BY <2>1, <2>2, <2>3 DEF RowMatches, Row
    <2>4. CASE ~(p = op.page /\ i = op.idx)
      <3>1. Behind(p, i)
        BY <1>1, <1>3, <1>4, <2>2, <2>4 DEF Behind
      <3> QED
        BY <1>1, <1>4, <2>1, <3>1 DEF Reached
    <2> QED
      BY <2>3, <2>4
  <1> QED
    BY <1>3, <1>4 DEF Reached

LEMMA ReachedStep == IInv /\ Reached /\ [Next]_vars => Reached'
  <1> SUFFICES ASSUME IInv, Reached, [Next]_vars PROVE Reached'
    OBVIOUS
  <1>0. UNCHANGED unique
    BY DEF Next, vars
  <1>1. ASSUME op' = Idle \/ op'.kind = "close" PROVE Reached'
    BY <1>1 DEF Reached, Idle
  <1>2. ASSUME NEW v \in Values, Insert(v) \/ InsertDuplicate(v) PROVE Reached'
    BY <1>1, <1>2 DEF Insert, InsertDuplicate
  <1>3. CASE Select \/ DeleteAll \/ \E S \in Conditions : DeleteWhere(S)
    BY <1>1, <1>3 DEF Select, DeleteAll, DeleteWhere
  <1>4. ASSUME NEW S \in Conditions, NEW v \in Values, UpdateWhere(S, v)
        PROVE  Reached'
    <2>1. \A q \in HeapPages : ~(q < ROW_START_PAGE)
      BY RowHeapAssumption DEF HeapPages, ROW_START_PAGE
    <2> QED
      BY <1>0, <1>4, <2>1, EnterReached DEF UpdateWhere
  <1>5. CASE UpdateNextPage
    <2>1. op.kind = "update" /\ op.idx > op.last /\ Enter(op.page + 1, op.from, op.to)
      BY <1>5 DEF UpdateNextPage
    <2>2. op \in [kind : {"update"}, page : HeapPages, idx : Nat, last : Nat,
                  from : SUBSET Values, to : Values]
      BY <2>1 DEF IInv, StateOK, Idle
    <2>3. ASSUME NEW q \in HeapPages, NEW i \in LiveIn(mem[q]), q < op.page + 1
          PROVE  Behind(q, i)
      <3>1. q \in Nat /\ op.page \in Nat
        BY <2>2, RowHeapAssumption DEF HeapPages, ROW_START_PAGE
      <3>2. i \in Nat
        BY <2>3 DEF IInv, StateOK, LiveIn, Page
      <3> QED
        BY <2>1, <2>2, <2>3, <3>1, <3>2 DEF Behind
    <2> QED
      BY <1>0, <2>1, <2>3, EnterReached DEF Reached
  <1>6. CASE UpdateSkip \/ UpdateDuplicate
    <2>1. /\ AtRow /\ NextRow /\ mem' = mem
          /\ ~unique => ~RowMatches
      BY <1>6 DEF UpdateSkip, UpdateDuplicate, Checked
    <2> QED
      BY <1>0, <2>1, NextRowReached
  <1>7. CASE UpdateRow
    <2>1. AtRow /\ NextRow
      BY <1>7 DEF UpdateRow
    <2>2. /\ op.page \in HeapPages /\ op.to \in Values /\ Stored[op.to] \in Values
          /\ mem \in [HeapPages -> Page]
          /\ op.idx \in DOMAIN mem[op.page].recs
      <3>1. op \in [kind : {"update"}, page : HeapPages, idx : Nat, last : Nat,
                    from : SUBSET Values, to : Values]
        BY <2>1 DEF IInv, StateOK, AtRow, Idle
      <3>2. mem[op.page].recs \in Seq(Rec)
        BY <3>1 DEF IInv, StateOK, Page
      <3> QED
        BY <2>1, <3>1, <3>2, RowHeapAssumption DEF IInv, StateOK, CursorOK, AtRow
    <2> DEFINE pg == mem[op.page]
    <2>3. pg \in Page /\ PageOK(pg)
      BY <2>2 DEF IInv, PagesOK
    <2>4. CASE mem' = [mem EXCEPT ![op.page] = Rewrite(@, op.idx, Stored[op.to])]
      <3>1. pg.recs \in [DOMAIN pg.recs -> Rec]
        BY <2>3 DEF Page
      <3>2. Rewrite(pg, op.idx, Stored[op.to]).recs =
               [pg.recs EXCEPT ![op.idx].val = Stored[op.to]]
        BY <2>3 DEF Rewrite, Page
      <3>3. ASSUME NEW i \in LiveIn(mem'[op.page])
            PROVE  \/ mem'[op.page].recs[i].val = Stored[op.to]
                   \/ /\ i \in LiveIn(pg) /\ i # op.idx
                      /\ mem'[op.page].recs[i] = pg.recs[i]
        BY <2>2, <2>4, <3>1, <3>2 DEF LiveIn, Rec
      <3>4. \A q \in HeapPages : q # op.page => mem'[q] = mem[q]
        BY <2>4
      <3> QED
        BY <1>0, <2>1, <3>3, <3>4, NextRowReached
    <2>5. ASSUME NEW n, Store([mem EXCEPT ![op.page] = Tombstone(@, op.idx)], n, op.to)
          PROVE  Reached'
      <3> DEFINE m == [mem EXCEPT ![op.page] = Tombstone(@, op.idx)]
      <3>1. SameSlots(Tombstone(pg, op.idx), pg)
        BY <2>2, <2>3, TombstoneOK
      <3>2. m \in [HeapPages -> Page] /\ \A q \in HeapPages : PageOK(m[q])
        BY <2>2, <3>1 DEF SameSlots, PageOK, IInv, PagesOK
      <3>3. pg.recs \in [DOMAIN pg.recs -> Rec]
        BY <2>3 DEF Page
      <3>4. Tombstone(pg, op.idx).recs = [pg.recs EXCEPT ![op.idx].live = FALSE]
        BY <2>3 DEF Tombstone, Page
      <3>5. ASSUME NEW q \in HeapPages, NEW i \in LiveIn(m[q])
            PROVE  /\ i \in LiveIn(mem[q]) /\ m[q].recs[i] = mem[q].recs[i]
                   /\ ~(q = op.page /\ i = op.idx)
        <4>1. CASE q # op.page
          BY <4>1, <3>5, <2>2
        <4>2. CASE q = op.page
          BY <2>2, <3>3, <3>4, <3>5, <4>2 DEF LiveIn, Rec
        <4> QED
          BY <4>1, <4>2
      <3>6. Store(m, n, op.to)
        BY <2>5
      <3> HIDE DEF m
      <3>7. \A q \in HeapPages : \A i \in LiveIn(mem'[q]) :
               \/ i \in LiveIn(m[q]) /\ mem'[q].recs[i] = m[q].recs[i]
               \/ mem'[q].recs[i].val = Stored[op.to]
        BY <2>2, <3>2, <3>6, StoreKeeps
      <3> QED
        BY <1>0, <2>1, <3>5, <3>7, NextRowReached
    <2> QED
      BY <1>7, <2>4, <2>5 DEF UpdateRow
  <1>8. CASE Close \/ CloseWrite
    BY <1>1, <1>8 DEF Close, CloseWrite, Closing
  <1>9. CASE Reopen \/ Killed \/ WalkExits
    BY <1>1, <1>9 DEF Reopen, Killed, WalkExits, Die, Restart
  <1>10. CASE UNCHANGED vars
    BY <1>10 DEF vars, Reached, Behind, LiveIn
  <1> QED
    BY <1>2, <1>3, <1>4, <1>5, <1>6, <1>7, <1>8, <1>9, <1>10 DEF Next, Step

\* An update without UNIQUE that comes to its end has left no row that its
\* condition matches with another value than the new one, although it moves
\* rows that grow to pages it has yet to come to, or has passed
\* (Table::update_where, table.cpp:880-1000).
THEOREM UpdateIsComplete == Spec => UpdateReachesEveryRow
  <1> DEFINE A == UpdateDone /\ ~unique /\ "torn" \notin damage =>
                    \A pos \in LiveAt : ValueAt(pos) \notin op.from \ {Stored[op.to]}
  <1>1. IInv /\ Reached /\ [Next]_vars => A
    <2> SUFFICES ASSUME IInv, Reached, [Next]_vars, UpdateDone, ~unique,
                        "torn" \notin damage, NEW pos \in LiveAt
                 PROVE  ValueAt(pos) \notin op.from \ {Stored[op.to]}
      OBVIOUS
    <2>1. PICK p \in HeapPages : \E i \in LiveIn(mem[p]) : pos = << p, i >>
      BY DEF LiveAt
    <2>9. PICK i \in LiveIn(mem[p]) : pos = << p, i >>
      BY <2>1
    <2>2. op \in [kind : {"update"}, page : HeapPages, idx : Nat, last : Nat,
                  from : SUBSET Values, to : Values]
      BY DEF IInv, StateOK, UpdateDone, Idle
    <2>3. UpdateNextPage
      <3>1. op.kind = "update" /\ op' = Idle /\ answer' # "died"
        BY DEF UpdateDone
      <3>2. op # Idle /\ op' # op
        BY <2>2, <3>1 DEF Idle
      <3>3. ~AtRow \/ ~NextRow
        BY <2>2, <3>1 DEF NextRow, Idle
      <3> QED
        BY <3>1, <3>2, <3>3
        DEF Next, Step, vars, Insert, InsertDuplicate, Select, DeleteWhere, DeleteAll,
            UpdateWhere, UpdateSkip, UpdateDuplicate, UpdateRow, Close, CloseWrite,
            Reopen, Killed, WalkExits, Die
    <2>4. /\ op.idx > op.last /\ op.page + 1 \in HeapPages
          /\ EndOfHeap(mem[op.page + 1])
      BY <2>3 DEF UpdateNextPage, Enter, UpdateDone, Updating, Idle
    <2>5. p \in Nat /\ op.page \in Nat
      BY <2>2, RowHeapAssumption DEF HeapPages, ROW_START_PAGE
    <2>6. ~EndOfHeap(mem[p])
      <3>1. PageOK(mem[p]) /\ mem[p].recs \in Seq(Rec)
        BY DEF IInv, PagesOK, PageOK, Page
      <3>2. i \in 1 .. Len(mem[p].recs)
        BY <3>1 DEF LiveIn
      <3> QED
        BY <3>1, <3>2 DEF PageOK
    <2>7. p < op.page + 1
      BY <2>4, <2>5, <2>6 DEF IInv, NoHoles, NoHole
    <2>8. Behind(p, i)
      <3>1. i \in Nat
        BY DEF IInv, StateOK, LiveIn, Page
      <3> QED
        BY <2>2, <2>4, <2>5, <2>7, <3>1 DEF Behind
    <2> QED
      BY <2>2, <2>8, <2>9 DEF Reached, ValueAt
  <1> HIDE DEF A
  <1>2. Spec => []Reached
    BY Invariance, InitReached, ReachedStep, PTL DEF Spec
  <1>3. Spec => [][A]_vars
    BY Invariance, <1>1, <1>2, PTL DEF Spec
  <1> QED
    BY <1>3 DEF UpdateReachesEveryRow, A

-----------------------------------------------------------------------------
(* The rows as a bag *)

\* Where a page map has rows of a value, and how many it has of each.
Live(m, v) ==
    {pos \in HeapPages \X Nat :
        pos[2] \in LiveIn(m[pos[1]]) /\ m[pos[1]].recs[pos[2]].val = v}
Count(m) == [v \in Values |-> Cardinality(Live(m, v))]

Plus(count, v) == [count EXCEPT ![v] = @ + 1]
Minus(count, v) == [count EXCEPT ![v] = @ - 1]

LEMMA LiveIndex ==
    ASSUME NEW pg \in Page
    PROVE  /\ Len(pg.recs) \in Nat
           /\ LiveIn(pg) = {i \in 1 .. Len(pg.recs) : pg.recs[i].live}
           /\ LiveIn(pg) \subseteq Nat
  BY DEF Page, LiveIn

LEMMA RowsCounted == (StateOK => Rows = Count(mem)) /\ (StateOK' => Rows' = Count(mem'))
  <1>1. ASSUME NEW m \in [HeapPages -> Page], NEW v
        PROVE  {pos \in UNION {{<< p, i >> : i \in LiveIn(m[p])} : p \in HeapPages} :
                   m[pos[1]].recs[pos[2]].val = v} = Live(m, v)
    <2>1. \A p \in HeapPages : LiveIn(m[p]) \subseteq Nat
      BY LiveIndex
    <2> QED
      BY <2>1 DEF Live
  <1>2. StateOK => Rows = Count(mem)
    BY <1>1 DEF StateOK, Rows, LiveAt, ValueAt, Count
  <1>3. StateOK' => Rows' = Count(mem')
    BY <1>1 DEF StateOK, Rows, LiveAt, ValueAt, Count
  <1> QED
    BY <1>2, <1>3

LEMMA LiveFinite ==
    ASSUME NEW m \in [HeapPages -> Page], NEW v
    PROVE  IsFiniteSet(Live(m, v))
  <1> DEFINE At(p) == {p} \X (1 .. Len(m[p].recs))
             f == [p \in HeapPages |-> At(p)]
             T == {At(p) : p \in HeapPages}
  <1>1. IsFiniteSet(HeapPages)
    BY FS_Interval, RowHeapAssumption DEF HeapPages, ROW_START_PAGE
  <1>2. f \in Surjection(HeapPages, T)
    BY DEF Surjection
  <1>3. IsFiniteSet(T)
    BY <1>1, <1>2, FS_Surjection
  <1>4. ASSUME NEW p \in HeapPages PROVE IsFiniteSet(At(p))
    <2>1. Len(m[p].recs) \in Nat
      BY LiveIndex
    <2>2. IsFiniteSet(1 .. Len(m[p].recs))
      BY <2>1, FS_Interval
    <2>3. IsFiniteSet({p})
      BY FS_Singleton
    <2> QED
      BY <2>2, <2>3, FS_Product
  <1>5. IsFiniteSet(UNION T)
    <2>1. \A S \in T : IsFiniteSet(S)
      BY <1>4
    <2> HIDE DEF T
    <2> QED
      BY <1>3, <2>1, FS_UNION
  <1>6. ASSUME NEW pos \in Live(m, v) PROVE pos \in UNION T
    <2>1. /\ pos[1] \in HeapPages /\ pos = << pos[1], pos[2] >>
          /\ pos[2] \in LiveIn(m[pos[1]])
      BY DEF Live
    <2>2. pos[2] \in 1 .. Len(m[pos[1]].recs)
      BY <2>1, LiveIndex
    <2>3. pos \in At(pos[1])
      BY <2>1, <2>2
    <2> QED
      BY <2>1, <2>3
  <1> HIDE DEF T
  <1>7. Live(m, v) \in SUBSET (UNION T)
    BY <1>6
  <1> QED
    BY <1>5, <1>7, FS_Subset

LEMMA CountType ==
    ASSUME NEW m \in [HeapPages -> Page]
    PROVE  /\ Count(m) \in [Values -> Nat]
           /\ \A v \in Values : Count(m)[v] > 0 <=> Live(m, v) # {}
  <1>1. \A v \in Values : IsFiniteSet(Live(m, v))
    BY LiveFinite
  <1>2. \A v \in Values : Cardinality(Live(m, v)) \in Nat
    BY <1>1, FS_CardinalityType
  <1>3. \A v \in Values : Cardinality(Live(m, v)) = 0 <=> Live(m, v) = {}
    BY <1>1, FS_EmptySet
  <1> QED
    BY <1>2, <1>3 DEF Count

PageSet(m, new, p, pg) == new = [m EXCEPT ![p] = pg]

\* Only the record at << p, i >> tells the rows of new from those of m.
SameElsewhere(m, new, p, i) ==
    /\ \A q \in HeapPages : q # p => new[q] = m[q]
    /\ \A j \in Nat : j # i =>
          /\ j \in LiveIn(new[p]) <=> j \in LiveIn(m[p])
          /\ j \in LiveIn(m[p]) => new[p].recs[j].val = m[p].recs[j].val

LEMMA LiveElsewhere ==
    ASSUME NEW m, NEW new, NEW p \in HeapPages, NEW i \in Nat,
           SameElsewhere(m, new, p, i)
    PROVE  \A v : Live(new, v) \ {<< p, i >>} = Live(m, v) \ {<< p, i >>}
  <1>1. ASSUME NEW v, NEW q \in HeapPages, NEW j \in Nat, << q, j >> # << p, i >>
        PROVE  << q, j >> \in Live(new, v) <=> << q, j >> \in Live(m, v)
    <2>1. CASE q = p
      BY <1>1, <2>1 DEF Live, SameElsewhere
    <2>2. CASE q # p
      BY <1>1, <2>2 DEF Live, SameElsewhere
    <2> QED
      BY <2>1, <2>2
  <1>2. \A v : Live(new, v) \subseteq HeapPages \X Nat /\ Live(m, v) \subseteq HeapPages \X Nat
    BY DEF Live
  <1> QED
    BY <1>1, <1>2

\* A row more, a row less.
LEMMA CountPlus ==
    ASSUME NEW m \in [HeapPages -> Page], NEW new \in [HeapPages -> Page],
           NEW p \in HeapPages, NEW i \in Nat, NEW w \in Values,
           SameElsewhere(m, new, p, i),
           i \notin LiveIn(m[p]), i \in LiveIn(new[p]), new[p].recs[i].val = w
    PROVE  Count(new) = Plus(Count(m), w)
  <1>1. PICK pos : pos = << p, i >>
    OBVIOUS
  <1>2. \A v : Live(new, v) \ {pos} = Live(m, v) \ {pos}
    BY <1>1, LiveElsewhere
  <1>3. \A v : pos \notin Live(m, v)
    BY <1>1 DEF Live
  <1>4. \A v : pos \in Live(new, v) <=> v = w
    BY <1>1 DEF Live
  <1>5. IsFiniteSet(Live(m, w))
    BY LiveFinite
  <1>6. Live(new, w) = Live(m, w) \cup {pos}
    BY <1>2, <1>3, <1>4
  <1>7. Cardinality(Live(m, w) \cup {pos}) = Cardinality(Live(m, w)) + 1
    BY <1>3, <1>5, FS_AddElement
  <1>8. ASSUME NEW v \in Values, v # w PROVE Live(new, v) = Live(m, v)
    BY <1>2, <1>3, <1>4, <1>8
  <1> QED
    BY <1>6, <1>7, <1>8 DEF Count, Plus

LEMMA CountMinus ==
    ASSUME NEW m \in [HeapPages -> Page], NEW new \in [HeapPages -> Page],
           NEW p \in HeapPages, NEW i \in Nat, NEW w \in Values,
           SameElsewhere(m, new, p, i),
           i \in LiveIn(m[p]), i \notin LiveIn(new[p]), m[p].recs[i].val = w
    PROVE  Count(new) = Minus(Count(m), w)
  <1>1. PICK pos : pos = << p, i >>
    OBVIOUS
  <1>2. \A v : Live(new, v) \ {pos} = Live(m, v) \ {pos}
    BY <1>1, LiveElsewhere
  <1>3. \A v : pos \notin Live(new, v)
    BY <1>1 DEF Live
  <1>4. \A v : pos \in Live(m, v) <=> v = w
    BY <1>1 DEF Live
  <1>5. IsFiniteSet(Live(m, w))
    BY LiveFinite
  <1>6. Live(new, w) = Live(m, w) \ {pos}
    BY <1>2, <1>3, <1>4
  <1>7. Cardinality(Live(m, w) \ {pos}) = Cardinality(Live(m, w)) - 1
    BY <1>4, <1>5, FS_RemoveElement
  <1>8. ASSUME NEW v \in Values, v # w PROVE Live(new, v) = Live(m, v)
    BY <1>2, <1>3, <1>4, <1>8
  <1> QED
    BY <1>6, <1>7, <1>8 DEF Count, Minus

LEMMA CountAppend ==
    ASSUME NEW m \in [HeapPages -> Page], NEW new \in [HeapPages -> Page],
           NEW p \in HeapPages, NEW val \in Values, NEW size \in Nat \ {0},
           PageSet(m, new, p, AppendRow(m[p], val, size))
    PROVE  Count(new) = Plus(Count(m), val)
  <1>0. PICK n : n = Len(m[p].recs)
    OBVIOUS
  <1>1. /\ \A q \in HeapPages : q # p => new[q] = m[q]
        /\ new[p] = AppendRow(m[p], val, size) /\ m[p] \in Page
    BY DEF PageSet
  <1>2. /\ n \in Nat /\ DOMAIN m[p].recs = 1 .. n
        /\ DOMAIN new[p].recs = 1 .. n + 1
        /\ \A j \in 1 .. n : new[p].recs[j] = m[p].recs[j]
        /\ new[p].recs[n + 1] = Record(val, size)
    BY <1>0, <1>1, AppendKeeps
  <1>3. SameElsewhere(m, new, p, n + 1)
    BY <1>1, <1>2 DEF SameElsewhere, LiveIn
  <1>4. /\ n + 1 \in Nat /\ n + 1 \in LiveIn(new[p]) /\ n + 1 \notin LiveIn(m[p])
        /\ new[p].recs[n + 1].val = val
    BY <1>2 DEF LiveIn, Record
  <1> QED
    BY <1>3, <1>4, CountPlus

\* What is known of a record that is live, and of the pages that change it.
LEMMA LiveRecord ==
    ASSUME NEW pg \in Page, NEW i \in LiveIn(pg)
    PROVE  /\ i \in Nat /\ i \in DOMAIN pg.recs
           /\ pg.recs[i] \in Rec /\ pg.recs[i].val \in Values /\ pg.recs[i].live
           /\ pg.recs[i].size \in Nat \ {0}
           /\ DOMAIN pg.recs = 1 .. Len(pg.recs)
  <1>1. pg.recs \in Seq(Rec) /\ i \in DOMAIN pg.recs /\ pg.recs[i].live
    BY DEF Page, LiveIn
  <1>2. /\ Len(pg.recs) \in Nat /\ DOMAIN pg.recs = 1 .. Len(pg.recs)
        /\ pg.recs[i] \in Rec
    BY <1>1
  <1>3. pg.recs[i].val \in Values /\ pg.recs[i].size \in Nat \ {0}
    BY <1>2 DEF Rec
  <1>4. i \in Nat
    BY <1>1, <1>2
  <1> QED
    BY <1>1, <1>2, <1>3, <1>4

LEMMA TombstoneKeeps ==
    ASSUME NEW pg \in Page, NEW i \in LiveIn(pg)
    PROVE  /\ Tombstone(pg, i) \in Page
           /\ i \notin LiveIn(Tombstone(pg, i))
           /\ Tombstone(pg, i).used = pg.used
           /\ DOMAIN Tombstone(pg, i).recs = DOMAIN pg.recs
           /\ \A j \in DOMAIN pg.recs : j # i => Tombstone(pg, i).recs[j] = pg.recs[j]
  <1>1. i \in DOMAIN pg.recs /\ pg.recs \in Seq(Rec) /\ pg.recs[i] \in Rec
    BY LiveRecord DEF Page
  <1>2. PICK r : r = [pg.recs[i] EXCEPT !.live = FALSE]
    OBVIOUS
  <1>3. r \in Rec /\ ~r.live
    BY <1>1, <1>2 DEF Rec
  <1>4. Tombstone(pg, i) = [pg EXCEPT !.recs = [pg.recs EXCEPT ![i] = r]]
    BY <1>2 DEF Tombstone
  <1>5. [pg.recs EXCEPT ![i] = r] \in Seq(Rec)
    BY <1>1, <1>3
  <1>6. PICK recs : recs = [pg.recs EXCEPT ![i] = r]
    OBVIOUS
  <1>7. /\ recs \in Seq(Rec) /\ DOMAIN recs = DOMAIN pg.recs /\ recs[i] = r
        /\ \A j \in DOMAIN pg.recs : j # i => recs[j] = pg.recs[j]
    BY <1>1, <1>5, <1>6
  <1>8. /\ Tombstone(pg, i) \in Page /\ Tombstone(pg, i).recs = recs
        /\ Tombstone(pg, i).used = pg.used
    BY <1>4, <1>6, <1>7 DEF Page
  <1> QED
    BY <1>3, <1>7, <1>8 DEF LiveIn

LEMMA RewriteKeeps ==
    ASSUME NEW pg \in Page, NEW i \in LiveIn(pg), NEW w \in Values
    PROVE  /\ i \in LiveIn(Rewrite(pg, i, w)) /\ Rewrite(pg, i, w).recs[i].val = w
           /\ Rewrite(pg, i, w) \in Page
           /\ Rewrite(pg, i, w).used = pg.used
           /\ DOMAIN Rewrite(pg, i, w).recs = DOMAIN pg.recs
           /\ \A j \in DOMAIN pg.recs : j # i => Rewrite(pg, i, w).recs[j] = pg.recs[j]
  <1>1. i \in DOMAIN pg.recs /\ pg.recs \in Seq(Rec) /\ pg.recs[i] \in Rec
        /\ pg.recs[i].live
    BY LiveRecord DEF Page
  <1>2. PICK r : r = [pg.recs[i] EXCEPT !.val = w]
    OBVIOUS
  <1>3. r \in Rec /\ r.live /\ r.val = w
    BY <1>1, <1>2 DEF Rec
  <1>4. Rewrite(pg, i, w) = [pg EXCEPT !.recs = [pg.recs EXCEPT ![i] = r]]
    BY <1>2 DEF Rewrite
  <1>5. [pg.recs EXCEPT ![i] = r] \in Seq(Rec)
    BY <1>1, <1>3
  <1>6. PICK recs : recs = [pg.recs EXCEPT ![i] = r]
    OBVIOUS
  <1>7. /\ recs \in Seq(Rec) /\ DOMAIN recs = DOMAIN pg.recs /\ recs[i] = r
        /\ \A j \in DOMAIN pg.recs : j # i => recs[j] = pg.recs[j]
    BY <1>1, <1>5, <1>6
  <1>8. /\ Rewrite(pg, i, w) \in Page /\ Rewrite(pg, i, w).recs = recs
        /\ Rewrite(pg, i, w).used = pg.used
    BY <1>4, <1>6, <1>7 DEF Page
  <1> QED
    BY <1>1, <1>3, <1>7, <1>8 DEF LiveIn

LEMMA CountTombstone ==
    ASSUME NEW m \in [HeapPages -> Page], NEW new \in [HeapPages -> Page],
           NEW p \in HeapPages, NEW i \in LiveIn(m[p]),
           PageSet(m, new, p, Tombstone(m[p], i))
    PROVE  Count(new) = Minus(Count(m), m[p].recs[i].val)
  <1>1. /\ \A q \in HeapPages : q # p => new[q] = m[q]
        /\ new[p] = Tombstone(m[p], i) /\ m[p] \in Page
    BY DEF PageSet
  <1>2. /\ i \notin LiveIn(new[p]) /\ DOMAIN new[p].recs = DOMAIN m[p].recs
        /\ \A j \in DOMAIN m[p].recs : j # i => new[p].recs[j] = m[p].recs[j]
    BY <1>1, TombstoneKeeps
  <1>3. SameElsewhere(m, new, p, i)
    BY <1>1, <1>2 DEF SameElsewhere, LiveIn
  <1>4. i \in Nat /\ m[p].recs[i].val \in Values
    BY <1>1, LiveRecord
  <1> QED
    BY <1>2, <1>3, <1>4, CountMinus

\* A row rewritten is one row less of its old value and one more of the new.
LEMMA CountRewrite ==
    ASSUME NEW m \in [HeapPages -> Page], NEW new \in [HeapPages -> Page],
           NEW p \in HeapPages, NEW i \in LiveIn(m[p]), NEW w \in Values,
           PageSet(m, new, p, Rewrite(m[p], i, w))
    PROVE  Count(new) = Plus(Minus(Count(m), m[p].recs[i].val), w)
  <1>0. PICK gone : PageSet(m, gone, p, Tombstone(m[p], i))
    BY DEF PageSet
  <1>1. /\ \A q \in HeapPages : q # p => new[q] = gone[q]
        /\ new[p] = Rewrite(m[p], i, w) /\ m[p] \in Page
        /\ gone[p] = Tombstone(m[p], i)
    BY <1>0 DEF PageSet
  <1>2. /\ i \notin LiveIn(gone[p]) /\ DOMAIN gone[p].recs = DOMAIN m[p].recs
        /\ gone[p] \in Page
        /\ \A j \in DOMAIN m[p].recs : j # i => gone[p].recs[j] = m[p].recs[j]
    BY <1>1, TombstoneKeeps
  <1>3. /\ i \in LiveIn(new[p]) /\ new[p].recs[i].val = w
        /\ DOMAIN new[p].recs = DOMAIN m[p].recs
        /\ \A j \in DOMAIN m[p].recs : j # i => new[p].recs[j] = m[p].recs[j]
    BY <1>1, RewriteKeeps
  <1>4. SameElsewhere(gone, new, p, i)
    BY <1>1, <1>2, <1>3 DEF SameElsewhere, LiveIn
  <1>5. i \in Nat
    BY <1>1, LiveRecord
  <1>6. gone \in [HeapPages -> Page]
    BY <1>0, <1>1, <1>2 DEF PageSet
  <1>7. Count(new) = Plus(Count(gone), w)
    BY <1>2, <1>3, <1>4, <1>5, <1>6, CountPlus
  <1>8. Count(gone) = Minus(Count(m), m[p].recs[i].val)
    BY <1>0, <1>6, CountTombstone
  <1> QED
    BY <1>7, <1>8

-----------------------------------------------------------------------------
(* Each step keeps the promise of RowBag, or leaves nothing promised *)

\* The session was told nothing since it asked for the end of the process.
Quiet == op.kind = "close" => answer = "none"

LEMMA InitQuiet == Init => Quiet
  BY DEF Init, Quiet

LEMMA QuietStep == IInv /\ Quiet /\ [Next]_vars => Quiet'
  <1> SUFFICES ASSUME IInv, Quiet, [Next]_vars PROVE Quiet'
    OBVIOUS
  <1>1. CASE op' = op /\ answer' = answer
    BY <1>1 DEF Quiet
  <1>2. CASE op' = op /\ op.kind # "close"
    BY <1>2 DEF Quiet
  <1>3. CASE op'.kind # "close"
    BY <1>3 DEF Quiet
  <1>4. CASE answer' = "none"
    BY <1>4 DEF Quiet
  <1>5. CASE UNCHANGED vars
    BY <1>1, <1>5 DEF vars
  <1>6. ASSUME NEW v \in Values, Insert(v) \/ InsertDuplicate(v) PROVE Quiet'
    <2>1. op = Idle /\ op' = op
      BY <1>6 DEF Insert, InsertDuplicate
    <2> QED
      BY <1>2, <2>1 DEF Idle
  <1>7. CASE Select \/ DeleteAll \/ \E S \in Conditions : DeleteWhere(S)
    BY <1>4, <1>7 DEF Select, DeleteAll, DeleteWhere
  <1>8. CASE \E S \in Conditions, v \in Values : UpdateWhere(S, v)
    BY <1>4, <1>8 DEF UpdateWhere, Enter
  <1>9. CASE UpdateNextPage
    BY <1>4, <1>9 DEF UpdateNextPage, Enter
  <1>10. CASE UpdateSkip \/ UpdateDuplicate \/ UpdateRow
    BY <1>4, <1>10 DEF UpdateSkip, UpdateDuplicate, UpdateRow, NextRow
  <1>11. CASE Close
    BY <1>4, <1>11 DEF Close
  <1>12. CASE CloseWrite
    BY <1>12 DEF CloseWrite, Quiet
  <1>13. CASE Reopen \/ Killed \/ WalkExits
    BY <1>3, <1>13 DEF Reopen, Killed, WalkExits, Die, Restart, Idle
  <1> QED
    BY <1>5, <1>6, <1>7, <1>8, <1>9, <1>10, <1>11, <1>12, <1>13 DEF Next, Step

\* Without a hole, a full scan returns the values of the rows there are.
LEMMA ScanFindsAll ==
    ASSUME IInv, "torn" \notin damage, NEW e \in HeapPages, Ends(e), NEW v \in Values
    PROVE  /\ v \in Scanned(e) <=> Live(mem, v) # {}
           /\ \A p \in HeapPages : p >= e => LiveIn(mem[p]) = {}
  <1>1. ASSUME NEW p \in HeapPages, p >= e
        PROVE  LiveIn(mem[p]) = {}
    <2>1. EndOfHeap(mem[p])
      <3>1. EndOfHeap(mem[e]) /\ NoHole(mem)
        BY DEF Ends, IInv, NoHoles
      <3>2. p = e \/ e < p
        BY <1>1 DEF HeapPages, ROW_START_PAGE
      <3> QED
        BY <3>1, <3>2 DEF NoHole
    <2>2. mem[p] \in Page /\ Len(mem[p].recs) = 0
      BY <2>1 DEF IInv, PagesOK, PageOK
    <2> QED
      BY <2>2 DEF LiveIn, Page
  <1>2. ASSUME v \in Scanned(e) PROVE Live(mem, v) # {}
    <2>1. PICK p \in HeapPages : \E i \in LiveIn(mem[p]) : mem[p].recs[i].val = v
      BY <1>2 DEF Scanned
    <2>2. PICK i \in LiveIn(mem[p]) : mem[p].recs[i].val = v /\ i \in Nat
      BY <2>1, LiveRecord DEF IInv, StateOK
    <2>3. << p, i >> \in Live(mem, v)
      BY <2>1, <2>2 DEF Live
    <2> QED
      BY <2>3
  <1>3. ASSUME Live(mem, v) # {} PROVE v \in Scanned(e)
    <2>1. PICK p \in HeapPages, i \in Nat : i \in LiveIn(mem[p]) /\ mem[p].recs[i].val = v
      BY <1>3 DEF Live
    <2>2. p < e
      BY <1>1, <2>1 DEF HeapPages, ROW_START_PAGE
    <2> QED
      BY <2>1, <2>2 DEF Scanned
  <1> QED
    BY <1>1, <1>2, <1>3

\* What the lookup before a write finds is what the bag has.
LEMMA LookupFindsAll ==
    ASSUME IInv, "torn" \notin damage, NEW v \in Values, NEW found \in BOOLEAN, NEW n,
           Lookup(v, found, n)
    PROVE  /\ Rows[v] \in Nat
           /\ found <=> Rows[v] > 0
  <1>1. PICK e \in HeapPages : Ends(e) /\ (found <=> v \in Scanned(e))
    BY DEF Lookup
  <1>2. v \in Scanned(e) <=> Live(mem, v) # {}
    BY <1>1, ScanFindsAll
  <1>3. mem \in [HeapPages -> Page] /\ Rows = Count(mem)
    BY RowsCounted DEF IInv, StateOK
  <1> QED
    BY <1>1, <1>2, <1>3, CountType

\* The page that a lookup ended at is one that the insertion looks at.
LEMMA LookupLeavesRoom ==
    ASSUME IInv, RowsFit, NEW v \in Values, NEW val \in Values, NEW n,
           Lookup(v, FALSE, n)
    PROVE  \E e \in HeapPages : Candidate(e, n) /\ HasRoom(mem[e], RowSize[val])
  <1>1. PICK e \in HeapPages : Ends(e) /\ n = Touched(e)
    BY DEF Lookup
  <1>2. e < n
    BY <1>1, LookupCount DEF IInv, Touched, Larger, HeapPages, ROW_START_PAGE, StateOK
  <1>3. UsedFrom(mem[e]) = UsedFrom(ClearedPage)
    BY <1>1 DEF Ends, EndOfHeap, IInv, PagesOK, PageOK, Page, UsedFrom, ClearedPage,
                HeapPage, USED_SIZE
  <1> QED
    BY <1>2, <1>3 DEF RowsFit, HasRoom, Candidate

\* An insertion adds its row to the bag if a page that it looks at has room.
LEMMA StoreAdds ==
    ASSUME NEW m \in [HeapPages -> Page], mem' \in [HeapPages -> Page],
           NEW n \in Nat, NEW v \in Values, Store(m, n, v),
           NEW e \in HeapPages, Candidate(e, n), HasRoom(m[e], RowSize[Stored[v]])
    PROVE  Count(mem') = Plus(Count(m), Stored[v])
  <1> DEFINE val == Stored[v]
             size == RowSize[val]
             S == {q \in HeapPages : HasRoom(m[q], size)}
  <1>1. val \in Values /\ size \in Nat \ {0}
    BY RowHeapAssumption
  <1>2. PICK p \in S : \A q \in S : p <= q
    <2>1. S \subseteq Nat /\ S # {}
      BY DEF HeapPages, ROW_START_PAGE
    <2> HIDE DEF S
    <2> QED
      BY <2>1, Least
  <1> HIDE DEF val
  <1>3. FirstRoom(m, n, size, p)
    <2>1. p <= e
      BY <1>2 DEF val
    <2>2. Candidate(p, n)
      BY <2>1 DEF Candidate, HeapPages, ROW_START_PAGE
    <2>3. \A q \in HeapPages : q < p => ~HasRoom(m[q], size)
      BY <1>2 DEF HeapPages, ROW_START_PAGE
    <2> QED
      BY <1>2, <2>2, <2>3 DEF FirstRoom
  <1>4. PICK q \in HeapPages : mem' = [m EXCEPT ![q] = AppendRow(m[q], val, size)]
    BY <1>2, <1>3 DEF Store, val
  <1>5. PageSet(m, mem', q, AppendRow(m[q], val, size))
    BY <1>4 DEF PageSet
  <1> HIDE DEF size
  <1> QED
    BY <1>1, <1>5, CountAppend DEF val

\* Where no page has room, none has after the insertion that stored nothing.
LEMMA StoreFinds ==
    ASSUME NEW m \in [HeapPages -> Page], NEW n \in Nat, NEW v \in Values,
           Store(m, n, v), RoomForAll'
    PROVE  \E e \in HeapPages : Candidate(e, n) /\ HasRoom(m[e], RowSize[Stored[v]])
  <1> DEFINE size == RowSize[Stored[v]]
  <1>1. CASE \E p \in HeapPages : FirstRoom(m, n, size, p)
    BY <1>1 DEF FirstRoom
  <1>2. CASE \A p \in HeapPages : ~FirstRoom(m, n, size, p)
    <2>1. /\ mem' = [p \in HeapPages |->
                        IF Candidate(p, n) /\ m[p].used = 0
                        THEN ClearedPage ELSE m[p]]
          /\ num_pages' = Larger(n, ROW_START_PAGE + 1)
      BY <1>2 DEF Store
    <2>2. PICK p \in HeapPages : FirstRoom(mem', num_pages', size, p)
      BY DEF RoomForAll
    <2>3. UsedFrom(mem'[p]) = UsedFrom(m[p])
      BY <2>1 DEF UsedFrom, ClearedPage, HeapPage, USED_SIZE
    <2>4. Candidate(p, n)
      BY <2>1, <2>2 DEF FirstRoom, Candidate, Larger, HeapPages, ROW_START_PAGE
    <2> QED
      BY <2>2, <2>3, <2>4 DEF FirstRoom, HasRoom
  <1> QED
    BY <1>1, <1>2

\* While something is promised, no process has died in its destructor.
LEMMA PromisedIntact ==
    ASSUME [Step]_vars, Promised'
    PROVE  "torn" \notin damage /\ Told' = answer'
  <1>1. damage \subseteq damage'
    BY DEF Step, vars, Insert, InsertDuplicate, Select, DeleteWhere, DeleteAll,
           UpdateWhere, Enter, UpdateNextPage, UpdateSkip, UpdateDuplicate, UpdateRow,
           NextRow, Close, CloseWrite, Reopen, Killed, WalkExits, Die
  <1> QED
    BY <1>1 DEF Promised, Told

LEMMA RowsAre == ASSUME IInv, IInv' PROVE /\ Rows = Count(mem) /\ Rows' = Count(mem')
                                          /\ mem \in [HeapPages -> Page]
                                          /\ mem' \in [HeapPages -> Page]
                                          /\ num_pages \in Nat
  BY RowsCounted, RowHeapAssumption DEF IInv, StateOK, ROW_START_PAGE

LEMMA BagInsert ==
    ASSUME IInv, IInv', "torn" \notin damage, UNCHANGED unique, Promised', Told' = answer',
           NEW v \in Values, Insert(v)
    PROVE  Bag!Insert(v)
  <1>1. Stored[v] \in Values
    BY RowHeapAssumption
  <1>2. PICK n \in Nat :
              /\ Store(mem, n, v)
              /\ unique => Lookup(v, FALSE, n)
    <2>1. CASE unique
      <3>1. PICK n \in 0 .. TABLE_MAX_PAGES : Lookup(v, FALSE, n) /\ Store(mem, n, v)
        BY <2>1 DEF Insert
      <3>2. n \in Nat
        BY RowHeapAssumption
      <3> QED
        BY <3>1, <3>2
    <2>2. CASE ~unique
      BY <2>2, RowsAre DEF Insert
    <2> QED
      BY <2>1, <2>2
  <1>3. \E e \in HeapPages : Candidate(e, n) /\ HasRoom(mem[e], RowSize[Stored[v]])
    <2>1. CASE unique
      BY <1>1, <1>2, <2>1, LookupLeavesRoom DEF Promised, RowsFit
    <2>2. CASE ~unique
      BY <1>2, <2>2, RowsAre, StoreFinds DEF Promised
    <2> QED
      BY <2>1, <2>2
  <1>4. Rows' = Plus(Rows, Stored[v])
    BY <1>2, <1>3, RowsAre, StoreAdds
  <1>5. unique => Rows[Stored[v]] = 0
    <2> SUFFICES ASSUME unique PROVE Rows[Stored[v]] = 0
      OBVIOUS
    <2>1. Stored[v] = v
      BY DEF Promised, StoredAsGiven
    <2>2. Rows[v] \in Nat /\ ~(Rows[v] > 0)
      BY <1>2, LookupFindsAll
    <2> QED
      BY <2>1, <2>2
  <1> QED
    BY <1>4, <1>5 DEF Bag!Insert, Bag!Admits, Plus, Insert

LEMMA BagReject ==
    ASSUME IInv, IInv', "torn" \notin damage, Told' = answer',
           NEW v \in Values, InsertDuplicate(v)
    PROVE  Bag!Reject(v)
  <1>1. PICK n : Lookup(v, TRUE, n)
    BY DEF InsertDuplicate
  <1>2. Rows[v] > 0
    BY <1>1, LookupFindsAll
  <1>3. mem' = mem
    BY DEF InsertDuplicate
  <1> QED
    BY <1>2, <1>3, RowsAre DEF Bag!Reject, InsertDuplicate

LEMMA BagRead ==
    ASSUME IInv, IInv', Told' = answer', mem' = mem, answer' = "none"
    PROVE  Bag!Read
  BY RowsAre DEF Bag!Read

\* What a DELETE leaves of a page.
LEMMA LeftIn ==
    ASSUME NEW pg \in Page, NEW S
    PROVE  /\ LiveIn(TombstoneAll(pg, S)) = {i \in LiveIn(pg) : pg.recs[i].val \notin S}
           /\ \A i \in LiveIn(pg) : TombstoneAll(pg, S).recs[i].val = pg.recs[i].val
  <1>1. /\ DOMAIN TombstoneAll(pg, S).recs = DOMAIN pg.recs
        /\ \A i \in DOMAIN pg.recs :
              TombstoneAll(pg, S).recs[i] =
                 [pg.recs[i] EXCEPT !.live = @ /\ pg.recs[i].val \notin S]
    BY DEF TombstoneAll, Page
  <1>2. \A i \in DOMAIN pg.recs : pg.recs[i] \in Rec
    BY DEF Page
  <1>3. ASSUME NEW i \in DOMAIN pg.recs
        PROVE  /\ TombstoneAll(pg, S).recs[i].live
                     <=> pg.recs[i].live /\ pg.recs[i].val \notin S
               /\ TombstoneAll(pg, S).recs[i].val = pg.recs[i].val
    BY <1>1, <1>2 DEF Rec
  <1> QED
    BY <1>1, <1>3 DEF LiveIn

LEMMA BagDelete ==
    ASSUME IInv, IInv', "torn" \notin damage, Told' = answer',
           NEW S \in SUBSET Values, answer' = "none",
           NEW e \in HeapPages, Ends(e),
           \A p \in HeapPages :
              IF p < e
              THEN /\ LiveIn(mem'[p]) = {i \in LiveIn(mem[p]) : mem[p].recs[i].val \notin S}
                   /\ \A i \in LiveIn(mem'[p]) : mem'[p].recs[i].val = mem[p].recs[i].val
              ELSE mem'[p] = mem[p]
    PROVE  Bag!Delete(S)
  <1>1. ASSUME NEW v \in Values
        PROVE  Live(mem', v) = IF v \in S THEN {} ELSE Live(mem, v)
    <2>1. ASSUME NEW p \in HeapPages, NEW i \in Nat
          PROVE  << p, i >> \in Live(mem', v) <=> v \notin S /\ << p, i >> \in Live(mem, v)
      <3>1. CASE p < e
        BY <3>1 DEF Live
      <3>2. CASE ~(p < e)
        <4>1. p >= e
          BY <3>2 DEF HeapPages, ROW_START_PAGE
        <4>2. LiveIn(mem[p]) = {} /\ mem'[p] = mem[p]
          BY <3>2, <4>1, ScanFindsAll
        <4> QED
          BY <4>2 DEF Live
      <3> QED
        BY <3>1, <3>2
    <2>2. /\ Live(mem', v) \subseteq HeapPages \X Nat
          /\ Live(mem, v) \subseteq HeapPages \X Nat
      BY DEF Live
    <2> QED
      BY <2>1, <2>2
  <1>2. Cardinality({}) = 0
    BY FS_EmptySet
  <1>3. Rows' = [v \in Values |-> IF v \in S THEN 0 ELSE Rows[v]]
    BY <1>1, <1>2, RowsAre DEF Count
  <1> QED
    BY <1>3 DEF Bag!Delete

LEMMA BagDeleteWhere ==
    ASSUME IInv, IInv', "torn" \notin damage, Told' = answer',
           NEW S \in Conditions, DeleteWhere(S)
    PROVE  Bag!Delete(S)
  <1>1. PICK e \in HeapPages :
              /\ Ends(e)
              /\ mem' = [p \in HeapPages |-> IF p < e THEN TombstoneAll(mem[p], S)
                                             ELSE mem[p]]
    BY DEF DeleteWhere
  <1>2. ASSUME NEW p \in HeapPages
        PROVE  IF p < e
               THEN /\ LiveIn(mem'[p]) = {i \in LiveIn(mem[p]) : mem[p].recs[i].val \notin S}
                    /\ \A i \in LiveIn(mem'[p]) : mem'[p].recs[i].val = mem[p].recs[i].val
               ELSE mem'[p] = mem[p]
    <2>1. mem[p] \in Page
      BY RowsAre
    <2>2. mem'[p] = IF p < e THEN TombstoneAll(mem[p], S) ELSE mem[p]
      BY <1>1
    <2> QED
      BY <2>1, <2>2, LeftIn
  <1>3. S \in SUBSET Values /\ answer' = "none"
    BY RowHeapAssumption DEF DeleteWhere
  <1> QED
    BY <1>1, <1>2, <1>3, BagDelete

LEMMA BagDeleteAll ==
    ASSUME IInv, IInv', "torn" \notin damage, Told' = answer', DeleteAll
    PROVE  Bag!Delete(Values)
  <1>1. PICK e \in HeapPages :
              /\ Ends(e)
              /\ mem' = [p \in HeapPages |-> IF p < e THEN ClearedPage ELSE mem[p]]
    BY DEF DeleteAll
  <1>2. LiveIn(ClearedPage) = {}
    BY EmptyOK DEF LiveIn
  <1>3. ASSUME NEW p \in HeapPages
        PROVE  IF p < e
               THEN /\ LiveIn(mem'[p])
                          = {i \in LiveIn(mem[p]) : mem[p].recs[i].val \notin Values}
                    /\ \A i \in LiveIn(mem'[p]) : mem'[p].recs[i].val = mem[p].recs[i].val
               ELSE mem'[p] = mem[p]
    <2>1. mem[p] \in Page
      BY RowsAre
    <2>2. \A i \in LiveIn(mem[p]) : mem[p].recs[i].val \in Values
      BY <2>1, LiveRecord
    <2>3. mem'[p] = IF p < e THEN ClearedPage ELSE mem[p]
      BY <1>1
    <2> QED
      BY <1>2, <2>2, <2>3
  <1>4. Values \in SUBSET Values /\ answer' = "none"
    BY DEF DeleteAll
  <1> QED
    BY <1>1, <1>3, <1>4, BagDelete

\* The row that an update is at is one of the page's, and fits its slot.
LEMMA RowThere ==
    ASSUME IInv, AtRow, RowMatches
    PROVE  /\ op.page \in HeapPages /\ op.to \in Values
           /\ op.idx \in LiveIn(mem[op.page])
           /\ Row.val \in Values /\ Row.size \in Nat
           /\ RowSize[Row.val] <= Row.size
  <1>1. op \in [kind : {"update"}, page : HeapPages, idx : Nat, last : Nat,
                from : SUBSET Values, to : Values]
    BY DEF IInv, StateOK, AtRow, Idle
  <1>2. PICK pg : pg = mem[op.page]
    OBVIOUS
  <1>3. pg \in Page /\ SlotsFit(pg.recs)
    BY <1>1, <1>2 DEF IInv, PagesOK, PageOK
  <1>4. op.idx >= 1 /\ op.idx <= op.last /\ op.last <= Len(pg.recs)
    BY <1>2 DEF IInv, CursorOK, AtRow
  <1>5. DOMAIN pg.recs = 1 .. Len(pg.recs) /\ Len(pg.recs) \in Nat
    BY <1>3 DEF Page
  <1>6. op.idx \in DOMAIN pg.recs
    BY <1>1, <1>4, <1>5
  <1>7. op.idx \in LiveIn(pg) /\ Row = pg.recs[op.idx]
    BY <1>2, <1>6 DEF RowMatches, Row, LiveIn
  <1>8. RowSize[Row.val] <= Row.size
    BY <1>3, <1>6, <1>7 DEF SlotsFit
  <1>9. Row.val \in Values /\ Row.size \in Nat
    BY <1>3, <1>7, LiveRecord
  <1> QED
    BY <1>1, <1>2, <1>7, <1>8, <1>9

LEMMA BagChange ==
    ASSUME IInv, IInv', "torn" \notin damage, UNCHANGED unique, Promised', Told' = answer',
           UpdateRow
    PROVE  Bag!Change(Row.val, op.to)
  <1> DEFINE w == Stored[op.to]
             gone == [mem EXCEPT ![op.page] = Tombstone(@, op.idx)]
  <1>1. AtRow /\ RowMatches
    BY DEF UpdateRow
  <1>2. /\ op.page \in HeapPages /\ op.to \in Values
        /\ op.idx \in LiveIn(mem[op.page])
        /\ Row.val \in Values /\ Row.size \in Nat /\ RowSize[Row.val] <= Row.size
    BY <1>1, RowThere
  <1>3. w \in Values
    BY <1>2, RowHeapAssumption
  <1>4. PICK n \in Nat :
              /\ Checked => Lookup(op.to, FALSE, n)
              /\ ~Checked => n = num_pages
              /\ \/ mem' = [mem EXCEPT ![op.page] = Rewrite(@, op.idx, w)]
                 \/ RowSize[w] > Row.size /\ Store(gone, n, op.to)
    <2>1. PICK n \in 0 .. TABLE_MAX_PAGES :
              /\ IF Checked THEN Lookup(op.to, FALSE, n) ELSE n = num_pages
              /\ \/ mem' = [mem EXCEPT ![op.page] = Rewrite(@, op.idx, w)]
                 \/ RowSize[w] > Row.size /\ Store(gone, n, op.to)
      BY DEF UpdateRow
    <2> HIDE DEF w, gone
    <2>2. n \in Nat
      BY RowHeapAssumption
    <2> QED
      BY <2>1, <2>2
  <1> HIDE DEF w
  <1>5. Rows[Row.val] > 0
    <2>1. << op.page, op.idx >> \in Live(mem, Row.val)
      BY <1>2, RowsAre, LiveRecord DEF Live, Row
    <2> QED
      BY <1>2, <2>1, RowsAre, CountType
  <1>6. Row.val # w => (unique => Rows[w] = 0)
    <2> SUFFICES ASSUME unique, Row.val # w PROVE Rows[w] = 0
      OBVIOUS
    <2>1. w = op.to
      BY <1>2 DEF Promised, StoredAsGiven, w
    <2>2. Lookup(op.to, FALSE, n)
      BY <1>4, <2>1 DEF Checked
    <2>3. Rows[op.to] \in Nat /\ ~(Rows[op.to] > 0)
      BY <1>2, <2>2, LookupFindsAll
    <2> QED
      BY <2>1, <2>3
  <1>7. Rows' = Plus(Minus(Rows, Row.val), w)
    <2>1. CASE mem' = [mem EXCEPT ![op.page] = Rewrite(@, op.idx, w)]
      <3>1. PageSet(mem, mem', op.page, Rewrite(mem[op.page], op.idx, w))
        BY <2>1 DEF PageSet
      <3> QED
        BY <1>2, <1>3, <3>1, RowsAre, CountRewrite DEF Row
    <2>2. CASE RowSize[w] > Row.size /\ Store(gone, n, op.to)
      <3>1. PageSet(mem, gone, op.page, Tombstone(mem[op.page], op.idx))
        BY DEF PageSet
      <3> HIDE DEF gone
      <3>2. /\ Tombstone(mem[op.page], op.idx) \in Page
            /\ Tombstone(mem[op.page], op.idx).used = mem[op.page].used
        BY <1>2, RowsAre, TombstoneKeeps
      <3>3. /\ gone \in [HeapPages -> Page]
            /\ \A p \in HeapPages : gone[p].used = mem[p].used
        BY <1>2, <3>1, <3>2, RowsAre DEF PageSet
      <3>4. \E e \in HeapPages : Candidate(e, n) /\ HasRoom(gone[e], RowSize[w])
        <4>1. CASE unique
          <5>1. w = op.to
            BY <1>2, <4>1 DEF Promised, StoredAsGiven, w
          <5>2. Row.val # op.to
            <6>1. RowSize[w] \in Nat
              BY <1>3, RowHeapAssumption
            <6> QED
              BY <1>2, <2>2, <5>1, <6>1
          <5>3. Lookup(op.to, FALSE, n)
            BY <1>4, <4>1, <5>2 DEF Checked
          <5>4. RowsFit
            BY <4>1 DEF Promised, RowsFit
          <5>5. \E e \in HeapPages : Candidate(e, n) /\ HasRoom(mem[e], RowSize[w])
            BY <1>2, <1>3, <5>3, <5>4, LookupLeavesRoom
          <5> QED
            BY <3>3, <5>5 DEF HasRoom, UsedFrom
        <4>2. CASE ~unique
          <5>1. RoomForAll'
            BY <4>2 DEF Promised
          <5> QED
            BY <1>2, <2>2, <3>3, <5>1, StoreFinds DEF w
        <4> QED
          BY <4>1, <4>2
      <3>5. Count(mem') = Plus(Count(gone), w)
        BY <1>2, <2>2, <3>3, <3>4, RowsAre, StoreAdds DEF w
      <3>6. Count(gone) = Minus(Count(mem), Row.val)
        BY <1>2, <3>1, <3>3, RowsAre, CountTombstone DEF Row
      <3> QED
        BY <3>5, <3>6, RowsAre
    <2> QED
      BY <1>4, <2>1, <2>2
  <1>8. Told' = "none"
    BY DEF UpdateRow, NextRow
  <1> QED
    BY <1>5, <1>6, <1>7, <1>8 DEF Bag!Change, Bag!Admits, Plus, Minus, w

\* What a process finds that opens the file of one that closed it.
LEMMA BagReopen ==
    ASSUME IInv, IInv', Quiet, Told' = answer', Reopen
    PROVE  Bag!Read
  <1>1. mem' = disk /\ answer' = "none" /\ op.kind = "close" /\ op.page >= num_pages
    BY DEF Reopen, Restart, Quiet
  <1>2. ASSUME NEW p \in HeapPages PROVE disk[p] = mem[p] \/
                                        (LiveIn(disk[p]) = {} /\ LiveIn(mem[p]) = {})
    <2>1. CASE p < num_pages
      <3>1. p < op.page
        BY <1>1, <2>1, RowsAre DEF HeapPages, ROW_START_PAGE, IInv, StateOK, Idle
      <3> QED
        BY <1>1, <3>1 DEF IInv, Written
    <2>2. CASE ~(p < num_pages)
      <3>1. p >= file_pages
        BY <2>2, RowsAre DEF HeapPages, ROW_START_PAGE, IInv, StateOK, FileEnd
      <3>2. PageOK(mem[p]) /\ PageOK(disk[p]) /\ EndOfHeap(disk[p])
        BY <3>1 DEF IInv, FileEnd, PagesOK
      <3>3. OnDisk(mem, disk)
        BY DEF IInv, RowsOnDisk, SlotOnDisk, OnDisk
      <3>4. EndOfHeap(mem[p])
        BY <3>2, <3>3, EmptyOnDisk
      <3>5. \A pg : PageOK(pg) /\ EndOfHeap(pg) => LiveIn(pg) = {}
        BY DEF PageOK, Page, LiveIn
      <3> QED
        BY <3>2, <3>4, <3>5
    <2> QED
      BY <2>1, <2>2
  <1>3. \A v : Live(disk, v) = Live(mem, v)
    BY <1>2 DEF Live
  <1>4. Count(mem') = Count(mem)
    BY <1>1, <1>3 DEF Count
  <1> QED
    BY <1>1, <1>4, RowsAre DEF Bag!Read

LEMMA BagStep == IInv /\ IInv' /\ Quiet /\ [Next]_vars => [Bag!Next]_<< unique, Rows, Told >>
  <1> SUFFICES ASSUME IInv, IInv', Quiet, [Next]_vars
               PROVE  [Bag!Next]_<< unique, Rows, Told >>
    OBVIOUS
  <1>1. UNCHANGED unique /\ [Step]_vars
    BY DEF Next, vars
  <1>2. SUFFICES ASSUME Promised' PROVE Bag!Step \/ UNCHANGED << Rows, Told >>
    <2>1. CASE ~Promised'
      <3>1. Bag!Void
        BY <2>1 DEF Bag!Void, Told
      <3> QED
        BY <1>1, <3>1 DEF Bag!Next, Bag!Step
    <2> QED
      BY <1>1, <1>2, <2>1 DEF Bag!Next
  <1>3. "torn" \notin damage /\ Told' = answer'
    BY <1>1, <1>2, PromisedIntact
  <1>4. CASE UNCHANGED << mem, num_pages, answer, damage >>
    <2>1. UNCHANGED Rows
      BY <1>4, RowsAre
    <2>2. UNCHANGED Told
      BY <1>1, <1>4 DEF Told, Promised, RoomForAll
    <2> QED
      BY <2>1, <2>2
  <1>5. ASSUME NEW v \in Values, Insert(v) PROVE Bag!Step
    BY <1>1, <1>2, <1>3, <1>5, BagInsert DEF Bag!Step
  <1>6. ASSUME NEW v \in Values, InsertDuplicate(v) PROVE Bag!Step
    BY <1>3, <1>6, BagReject DEF Bag!Step
  <1>7. ASSUME NEW S \in Conditions, DeleteWhere(S) PROVE Bag!Step
    BY <1>3, <1>7, BagDeleteWhere, RowHeapAssumption DEF Bag!Step
  <1>8. CASE DeleteAll
    BY <1>3, <1>8, BagDeleteAll DEF Bag!Step
  <1>9. CASE UpdateRow
    <2>1. Row.val \in Values /\ op.to \in Values
      BY <1>9, RowThere DEF UpdateRow
    <2> QED
      BY <1>1, <1>2, <1>3, <1>9, <2>1, BagChange DEF Bag!Step
  <1>10. CASE mem' = mem /\ answer' = "none"
    BY <1>3, <1>10, BagRead DEF Bag!Step
  <1>11. CASE Select \/ UpdateSkip \/ UpdateDuplicate \/ Close
    BY <1>10, <1>11 DEF Select, UpdateSkip, UpdateDuplicate, NextRow, Close
  <1>12. CASE UpdateNextPage \/ \E S \in Conditions, v \in Values : UpdateWhere(S, v)
    BY <1>10, <1>12 DEF UpdateNextPage, UpdateWhere, Enter
  <1>13. CASE CloseWrite
    BY <1>4, <1>13 DEF CloseWrite
  <1>14. CASE Reopen
    BY <1>3, <1>14, BagReopen DEF Bag!Step
  <1>15. CASE Killed \/ WalkExits
    BY <1>2, <1>15 DEF Killed, WalkExits, Die, Promised
  <1>16. CASE UNCHANGED vars
    BY <1>4, <1>16 DEF vars
  <1> QED
    BY <1>1, <1>5, <1>6, <1>7, <1>8, <1>9, <1>11, <1>12, <1>13, <1>14, <1>15, <1>16
    DEF Step

LEMMA BagInit == Init => Bag!Init
  <1> SUFFICES ASSUME Init PROVE Bag!Init
    OBVIOUS
  <1>1. mem \in [HeapPages -> Page] /\ Rows = Count(mem)
    BY InitIInv, RowsCounted DEF IInv, StateOK
  <1>2. \A v : Live(mem, v) = {}
    BY EmptyOK DEF Init, Live, LiveIn
  <1>3. Rows = [v \in Values |-> 0]
    BY <1>1, <1>2, FS_EmptySet DEF Count
  <1> QED
    BY <1>3 DEF Init, Bag!Init, Bag!None, Told

\* The table is a bag of rows: an INSERT that is answered with success adds its
\* row and no other, an UPDATE changes rows one by one and loses or doubles
\* none although it moves them while it walks, a DELETE takes what it matches
\* and leaves the rest, and a clean exit and the next start change nothing
\* (table.cpp:98-203, 604-633, 872-1064; pager.cpp:7-102).
THEOREM RowsAreABag == Spec => KeepsPromise
  <1>1. Spec => [](IInv /\ Quiet)
    BY Invariance, InitQuiet, QuietStep, PTL DEF Spec
  <1>2. Spec => Bag!Spec
    BY <1>1, Invariance, BagInit, BagStep, PTL DEF Spec, Bag!Spec
  <1> QED
    BY <1>2 DEF KeepsPromise
=============================================================================
