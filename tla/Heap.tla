-------------------------------- MODULE Heap --------------------------------
(***************************************************************************)
(* A page of the row heap, as Table's methods read and write it            *)
(* (storage/table/table.cpp): a counter of bytes used, then records of     *)
(* [row_size][row bytes].  A negative row_size marks a deleted record.     *)
(*                                                                         *)
(* A record is [size, live, val]: the bytes of its slot, the sign of       *)
(* row_size, and the row.  An update in place keeps the slot's size.       *)
(*                                                                         *)
(* A definition marked "Fault" is no part of the model: it is a plausible  *)
(* bug in the definition after it, which some property has to catch        *)
(* (PROJECT.json, mutants).                                                *)
(***************************************************************************)
EXTENDS Integers, Sequences

CONSTANT PAGE_SIZE    \* 4096 in the code

ASSUME PageSizeAssumption == PAGE_SIZE \in Nat /\ PAGE_SIZE >= 4

USED_SIZE == 4        \* sizeof(uint32_t), the page's counter
ROW_SIZE_SIZE == 4    \* sizeof(int32_t), in front of each row

ROW_START_PAGE == 2   \* get_row_start_page()

HeapPage(used, recs) == [type |-> "heap", used |-> used, recs |-> recs]

\* get_page hands out a page that was never written as zeros ...
ZeroPage == HeapPage(0, << >>)
\* ... and delete_all leaves the counter of an empty page behind.
ClearedPage == HeapPage(USED_SIZE, << >>)

\* Every walk over the heap ends at the first page whose counter says this.
EndOfHeap(pg) == pg.used <= USED_SIZE

\* insert sets the counter of a fresh page before it looks for room.
UsedFrom(pg) == IF pg.used = 0 THEN USED_SIZE ELSE pg.used

\* Fault: the row's own size field is not counted.
HasRoomShort(pg, size) == UsedFrom(pg) + size <= PAGE_SIZE

HasRoom(pg, size) == UsedFrom(pg) + ROW_SIZE_SIZE + size <= PAGE_SIZE

Record(val, size) == [size |-> size, live |-> TRUE, val |-> val]

AppendRow(pg, val, size) ==
    HeapPage(UsedFrom(pg) + ROW_SIZE_SIZE + size,
             Append(pg.recs, Record(val, size)))

\* Where in its page the i-th record starts.
Offset(recs, i) ==
    LET start[j \in 1 .. Len(recs) + 1] ==
            IF j = 1 THEN USED_SIZE
            ELSE start[j - 1] + ROW_SIZE_SIZE + recs[j - 1].size
    IN  start[i]

Tombstone(pg, i) == [pg EXCEPT !.recs[i].live = FALSE]

TombstoneAll(pg, S) ==
    [pg EXCEPT !.recs =
        [i \in DOMAIN pg.recs |->
            [pg.recs[i] EXCEPT !.live = @ /\ pg.recs[i].val \notin S]]]

Rewrite(pg, i, val) == [pg EXCEPT !.recs[i].val = val]

LiveIn(pg) == {i \in DOMAIN pg.recs : pg.recs[i].live}
=============================================================================
