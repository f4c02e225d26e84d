------------------------------- MODULE Table --------------------------------
(***************************************************************************)
(* A table with a primary key: Table (table.cpp) with its row heap and its *)
(* B+ tree in the one file of one pager.  Page 1 is the tree's first leaf; *)
(* all pages from 2 on are handed out from one counter, so that nodes come *)
(* to lie between the pages of rows, and every walk over the heap reads a  *)
(* node's header as the counter of a page of rows.                         *)
(*                                                                         *)
(* A row is [key, val]: the primary key and one TEXT column.  A statement  *)
(* is one step where it writes at most one page, and a step a row where it *)
(* may write several; the process may be killed before any step.  The      *)
(* metadata page is left out, as in RowHeap.  Rows fit a page: what insert *)
(* does with one that does not is in RowHeap as well.                      *)
(*                                                                         *)
(* Some reads have no defined result: a row walk that reads a node as a    *)
(* page of rows, a descent that reads a page of rows as a node, a row      *)
(* pointer that leads into the middle of a record.  They end the           *)
(* behaviour in op.kind = "undefined".                                     *)
(***************************************************************************)
EXTENDS Node, Heap

CONSTANTS
    Keys,              \* primary keys, u32 in the code
    Values,            \* values of the other column
    RowSize,           \* RowSize[v]: the bytes of a row that holds v
    Inserts,           \* the rows that are inserted
    Deletes,           \* where clauses, as the sets of rows they match
    Updates,           \* where clauses with the value that the rows get
    MayDie,            \* during which kinds of op the process may be killed
    TABLE_MAX_PAGES,   \* the page number at which get_page ends the process
    MAX_STATEMENTS     \* bound of the model: how many statements are begun

RowsPossible == [key : Keys, val : Values]

ASSUME TableAssumption ==
    /\ Keys \subseteq Nat
    /\ RowSize \in [Values -> 1 .. PAGE_SIZE - USED_SIZE - ROW_SIZE_SIZE]
    /\ Inserts \subseteq RowsPossible
    /\ Deletes \subseteq SUBSET RowsPossible
    /\ Updates \subseteq [where : SUBSET RowsPossible, to : Values]
    /\ INTERNAL_NODE_MAX_KEYS > 1    \* so that no split leaves a node empty
    /\ TABLE_MAX_PAGES \in Nat
    /\ TABLE_MAX_PAGES > ROW_START_PAGE

PageNums == 0 .. TABLE_MAX_PAGES - 1
HeapPages == ROW_START_PAGE .. TABLE_MAX_PAGES - 1
ROOT_PAGE == 1    \* where a process starts to look for the root

VARIABLES
    mem,           \* the pages as the process sees them
    num_pages,     \* Pager::num_pages
    root_page,     \* Table::root_page, which is in memory only
    disk,          \* the pages of the file
    file_pages,    \* the length of the file, in pages
    op,            \* the statement that is under way
    answer,        \* what the session was last told
    damage,        \* history: "died", "torn" (RowHeap); "lost_child",
                   \* "stale_root" (BPlusTree); "empty_leaf" once a deletion
                   \* has emptied a leaf among the pages of rows
    moved,         \* history: the keys whose row an update has moved
    statements     \* how many statements were begun

vars == << mem, num_pages, root_page, disk, file_pages, op, answer, damage,
           moved, statements >>

Larger(m, n) == IF m >= n THEN m ELSE n

Idle == [kind |-> "idle"]
Undefined == [kind |-> "undefined"]
Updating(p, i, last, from, to) ==
    [kind |-> "update", page |-> p, idx |-> i, last |-> last,
     from |-> from, to |-> to]
Deleting(p, i, last, from) ==
    [kind |-> "delete", page |-> p, idx |-> i, last |-> last, from |-> from]
Closing(p) == [kind |-> "close", page |-> p]

\* Every statement, and .exit, begins here.
Begin ==
    /\ op = Idle
    /\ statements < MAX_STATEMENTS
    /\ statements' = statements + 1

-----------------------------------------------------------------------------
(* Walking the heap, nodes and all *)

IsHeap(pg) == pg.type = "heap"

\* A leaf that deletions emptied has the header 01 00 00 00, which reads as one
\* byte used; the header of any other node reads as more than a page.
EmptyLeaf(pg) == IsLeaf(pg) /\ pg.cells = << >>

EndsWalk(pg) == IF IsHeap(pg) THEN EndOfHeap(pg) ELSE EmptyLeaf(pg)

Ends(e) ==
    /\ e \in HeapPages => EndsWalk(mem[e])
    /\ \A p \in HeapPages : p < e => ~EndsWalk(mem[p])

WalkDies == Ends(TABLE_MAX_PAGES)

Touched(p) == Larger(num_pages, p + 1)

\* The live rows in front of page e.  get_all_dynamic finds no row on a node:
\* where it looks for the size of the first one it finds 0 or a multiple of
\* 65536 (the low half of next_leaf or right_child), and leaves the page.
LiveBefore(m, e) ==
    UNION {{m[p].recs[i].val : i \in LiveIn(m[p])} :
              p \in {q \in HeapPages : q < e /\ IsHeap(m[q])}}

\* Fault: the duplicate check does not go on to the second page.
KeyBeforeFirst(m, e, key) ==
    \E row \in LiveBefore(m, ROW_START_PAGE + 1) : row.key = key

KeyBefore(m, e, key) == \E row \in LiveBefore(m, e) : row.key = key

-----------------------------------------------------------------------------
(* The process and the file *)

\* The constructor opens the file as it is and makes page 1 a leaf if it is
\* none; where the root was, it does not know.
Restart(pages, length) ==
    /\ mem' = [pages EXCEPT ![ROOT_PAGE] = IF IsLeaf(@) THEN @
                                           ELSE initialize_leaf_node]
    /\ num_pages' = Larger(ROW_START_PAGE, length)
    /\ root_page' = ROOT_PAGE
    /\ op' = Idle

Died == damage \cup {"died"} \cup (IF op.kind = "close" THEN {"torn"} ELSE {})

Die ==
    /\ Restart(disk, file_pages)
    /\ answer' = "died"
    /\ damage' = Died
    /\ UNCHANGED << disk, file_pages, moved >>

\* Fault: nothing is written.
flushNothing(p, content) == UNCHANGED << disk, file_pages >>

flush(p, content) ==
    /\ disk' = [disk EXCEPT ![p] = content]
    /\ file_pages' = Larger(file_pages, p + 1)

GoesWrong ==
    /\ op' = Undefined
    /\ answer' = "none"
    /\ UNCHANGED << mem, num_pages, root_page, disk, file_pages, damage, moved >>

Init ==
    /\ mem = [p \in PageNums |-> IF p = ROOT_PAGE THEN initialize_leaf_node
                                 ELSE ZeroPage]
    /\ num_pages = ROW_START_PAGE
    /\ root_page = ROOT_PAGE
    /\ disk = [p \in PageNums |-> ZeroPage]
    /\ file_pages = 1
    /\ op = Idle
    /\ answer = "none"
    /\ damage = {}
    /\ moved = {}
    /\ statements = 0

-----------------------------------------------------------------------------
(* INSERT *)

Room(pg, size) == IF IsHeap(pg) THEN HasRoom(pg, size) ELSE EmptyLeaf(pg)

FirstRoom(m, n, size, p) ==
    /\ p < n
    /\ Room(m[p], size)
    /\ \A q \in HeapPages : q < p => ~Room(m[q], size)

\* Fault: the pointer leads to the row's bytes instead of their size.
PointerToData(m, p) ==
    [page |-> p, offset |-> Offset(m[p].recs, Len(m[p].recs)) + ROW_SIZE_SIZE]

\* The row that was appended last.
PointerTo(m, p) ==
    [page |-> p, offset |-> Offset(m[p].recs, Len(m[p].recs))]

\* The row is in page p of m and in the file; now its key goes into the index.
\* A split may need a page more than there can be: get_page ends the process.
\* told and next are the answer and the op with which the statement goes on.
IndexRow(m, n, p, key, told, next) ==
    \E new \in {index_insert(m, n, root_page, key, PointerTo(m, p))} :
        /\ flush(p, m[p])
        /\ IF new.num_pages > TABLE_MAX_PAGES
           THEN /\ Restart(disk', file_pages')
                /\ answer' = "died"
                /\ damage' = Died
           ELSE /\ mem' = new.pg
                /\ num_pages' = new.num_pages
                /\ root_page' = new.root_page
                /\ op' = next
                /\ answer' = told
                /\ damage' = damage \cup IF new.lost THEN {"lost_child"} ELSE {}

\* Table::insert behind its duplicate check, into the pages m.  The scan of the
\* check has left n > e as the page count, so there is a page with room; if it
\* is an emptied leaf, the row is written over the node.
Store(m, n, row, told, next) ==
    LET size == RowSize[row.val]
    IN  \E p \in HeapPages :
           /\ FirstRoom(m, n, size, p)
           /\ IF IsHeap(m[p]) /\ DescentDefined(m, root_page, row.key)
              THEN IndexRow([m EXCEPT ![p] = AppendRow(@, row, size)], n, p,
                            row.key, told, next)
              ELSE /\ op' = Undefined
                   /\ answer' = "none"
                   /\ UNCHANGED << mem, num_pages, root_page, disk,
                                   file_pages, damage >>

Insert(row) ==
    /\ Begin
    /\ \E e \in HeapPages :
          /\ Ends(e)
          /\ ~KeyBefore(mem, e, row.key)
          /\ Store(mem, Touched(e), row, "inserted", Idle)
    /\ UNCHANGED moved

InsertDuplicate(row) ==
    /\ Begin
    /\ \E e \in HeapPages :
          /\ Ends(e)
          /\ KeyBefore(mem, e, row.key)
          /\ num_pages' = Touched(e)
    /\ answer' = "duplicate"
    /\ UNCHANGED << mem, root_page, disk, file_pages, op, damage, moved >>

-----------------------------------------------------------------------------
(* SELECT.  Only the full scan leaves a trace: it touches the empty page it  *)
(* ends at.  Lookups through the index change nothing and are operators.     *)

Select ==
    /\ Begin
    /\ \E e \in HeapPages : Ends(e) /\ num_pages' = Touched(e)
    /\ answer' = "none"
    /\ UNCHANGED << mem, root_page, disk, file_pages, op, damage, moved >>

\* The record that starts at a row pointer, as a set of at most one index.
SlotAt(m, rp) ==
    IF IsHeap(m[rp.page])
    THEN {i \in DOMAIN m[rp.page].recs : Offset(m[rp.page].recs, i) = rp.offset}
    ELSE {}

\* Table::range_query; find_all_by_id(key) is range_query(key, key).
range_query(start, end) ==
    LET cells == RangeCells(mem, root_page, start, end)
        Row(cell) == {mem[cell.value.page].recs[i] : i \in SlotAt(mem, cell.value)}
    IN  {rec.val : rec \in {r \in UNION {Row(cells[c]) : c \in DOMAIN cells} :
                               r.live}}

find_all_by_id(key) == range_query(key, key)

-----------------------------------------------------------------------------
(* DELETE and UPDATE, a row at a time *)

\* The walk of op w comes to page p.
Enter(p, w) ==
    /\ p \in HeapPages
    /\ num_pages' = Touched(p)
    /\ op' = IF EndsWalk(mem[p]) THEN Idle
             ELSE IF IsHeap(mem[p])
             THEN [w EXCEPT !.page = p, !.idx = 1, !.last = Len(mem[p].recs)]
             ELSE Undefined
    /\ answer' = "none"
    /\ UNCHANGED << mem, root_page, disk, file_pages, damage, moved >>

DeleteWhere(S) ==
    Begin /\ Enter(ROW_START_PAGE, Deleting(0, 0, 0, S))

UpdateWhere(u) ==
    Begin /\ Enter(ROW_START_PAGE, Updating(0, 0, 0, u.where, u.to))

InWalk == op.kind \in {"update", "delete"}

NextPage ==
    /\ InWalk
    /\ op.idx > op.last
    /\ Enter(op.page + 1, op)
    /\ UNCHANGED statements

AtRow(kind) == op.kind = kind /\ op.idx <= op.last
Row == mem[op.page].recs[op.idx]
RowMatches == Row.live /\ Row.val \in op.from

Further == [op EXCEPT !.idx = @ + 1]

NextRow ==
    /\ op' = Further
    /\ answer' = "none"
    /\ UNCHANGED << root_page, disk, file_pages >>

Skip ==
    /\ AtRow("update") \/ AtRow("delete")
    /\ ~RowMatches
    /\ NextRow
    /\ UNCHANGED << mem, num_pages, damage, moved, statements >>

\* Behind the counter of its page a row pointer finds zeros, and no row to
\* delete; in the middle of a record it takes what is there for a size.
Dangles(rp) == IsHeap(mem[rp.page]) /\ rp.offset >= mem[rp.page].used

\* Fault: the key goes, the row stays.
delete_by_idKey(key, rp) ==
    /\ mem' = delete_from_index(mem, root_page, key)
    /\ NextRow
    /\ UNCHANGED << num_pages, damage, moved >>

\* Table::delete_by_id deletes the row that the index points at, which need not
\* be the one whose key this is, and then the key.
delete_by_id(key, rp) ==
    \E at \in {SlotAt(mem, rp)} :
        IF at = {} /\ ~Dangles(rp) THEN GoesWrong
        ELSE /\ mem' = delete_from_index(
                          [mem EXCEPT ![rp.page] =
                              IF at = {} THEN @ ELSE Tombstone(@, CHOOSE i \in at : TRUE)],
                          root_page, key)
             /\ damage' = damage \cup IF \E p \in HeapPages : EmptyLeaf(mem'[p])
                                     THEN {"empty_leaf"} ELSE {}
             /\ NextRow
             /\ UNCHANGED << num_pages, moved >>

\* DELETE looks for the row that it is at once more, through the index.
DeleteRow ==
    /\ AtRow("delete")
    /\ RowMatches
    /\ \/ ~DescentDefined(mem, root_page, Row.val.key) /\ GoesWrong
       \/ /\ DescentDefined(mem, root_page, Row.val.key)
          /\ \E found \in {btree_find(mem, root_page, Row.val.key)} :
                \/ /\ found = {}
                   /\ NextRow
                   /\ UNCHANGED << mem, num_pages, damage, moved >>
                \/ \E rp \in found : delete_by_id(Row.val.key, rp)
    /\ UNCHANGED statements

DeleteAll ==
    /\ Begin
    /\ \E e \in HeapPages :
          /\ Ends(e)
          /\ num_pages' = Touched(e)
          /\ mem' = [p \in PageNums |->
                        IF p = ROOT_PAGE THEN initialize_leaf_node
                        ELSE IF p \in HeapPages /\ p < e THEN ClearedPage
                        ELSE mem[p]]
    /\ root_page' = ROOT_PAGE
    /\ answer' = "none"
    /\ damage' = damage \ {"lost_child", "stale_root"}
    /\ moved' = {}
    /\ UNCHANGED << disk, file_pages, op >>

NewRow == [Row.val EXCEPT !.val = op.to]
Grows == RowSize[op.to] > Row.size

UpdateInPlace ==
    /\ AtRow("update")
    /\ RowMatches
    /\ ~Grows
    /\ mem' = [mem EXCEPT ![op.page] = Rewrite(@, op.idx, NewRow)]
    /\ NextRow
    /\ UNCHANGED << num_pages, damage, moved, statements >>

\* A row that grows gives up its slot and is inserted again, with an index
\* entry of its own next to the old one.  Unless there are two rows of one key
\* (after a kill): then insert refuses it, and it is gone.
UpdateMove ==
    /\ AtRow("update")
    /\ RowMatches
    /\ Grows
    /\ \E e \in HeapPages :
          /\ Ends(e)
          /\ LET m == [mem EXCEPT ![op.page] = Tombstone(@, op.idx)]
             IN  IF KeyBefore(m, e, NewRow.key)
                 THEN /\ mem' = m
                      /\ num_pages' = Touched(e)
                      /\ NextRow
                      /\ UNCHANGED << damage, moved >>
                 ELSE /\ Store(m, Touched(e), NewRow, "none", Further)
                      /\ moved' = moved \cup {NewRow.key}
    /\ UNCHANGED statements

-----------------------------------------------------------------------------
(* The end of the process *)

Close ==
    /\ Begin
    /\ op' = Closing(ROOT_PAGE)
    /\ answer' = "none"
    /\ UNCHANGED << mem, num_pages, root_page, disk, file_pages, damage, moved >>

CloseWrite ==
    /\ op.kind = "close"
    /\ op.page < num_pages
    /\ flush(op.page, mem[op.page])
    /\ op' = Closing(op.page + 1)
    /\ UNCHANGED << mem, num_pages, root_page, answer, damage, moved, statements >>

Reopen ==
    /\ op.kind = "close"
    /\ op.page >= num_pages
    /\ Restart(disk, file_pages)
    /\ damage' = damage \cup IF root_page # ROOT_PAGE THEN {"stale_root"} ELSE {}
    /\ UNCHANGED << disk, file_pages, answer, moved, statements >>

Killed == op.kind \in MayDie /\ Die /\ UNCHANGED statements

\* Any walk that finds no end.
WalkExits ==
    /\ WalkDies
    /\ \/ op = Idle
       \/ InWalk /\ op.idx > op.last /\ op.page + 1 = TABLE_MAX_PAGES
       \/ AtRow("update") /\ RowMatches /\ Grows
    /\ Die
    /\ UNCHANGED statements

Next ==
    \/ \E row \in Inserts : Insert(row) \/ InsertDuplicate(row)
    \/ Select
    \/ \E S \in Deletes : DeleteWhere(S)
    \/ \E u \in Updates : UpdateWhere(u)
    \/ NextPage
    \/ Skip
    \/ DeleteRow
    \/ DeleteAll
    \/ UpdateInPlace
    \/ UpdateMove
    \/ Close
    \/ CloseWrite
    \/ Reopen
    \/ Killed
    \/ WalkExits

Spec == Init /\ [][Next]_vars

-----------------------------------------------------------------------------
(* Properties *)

Alive == "died" \notin damage
LiveRows == LiveBefore(mem, TABLE_MAX_PAGES)

\* The position of a row is its page and its index there.
LivePositions ==
    UNION {{<< p, i >> : i \in LiveIn(mem[p])} :
              p \in {q \in HeapPages : IsHeap(mem[q])}}
KeyAt(pos) == mem[pos[1]].recs[pos[2]].val.key

\* No two rows of the table have one key, whatever was moved, deleted and
\* inserted again and whatever the index has lost: the check of Table::insert
\* asks the heap and not the index.  There are two ways around it: a kill can
\* bring a deleted row back beside the row that took its key, and a leaf that
\* was emptied among the pages of rows ends the scan in front of live ones.
Whole == damage \cap {"died", "empty_leaf"} = {}

KeysUnique ==
    Whole => \A a, b \in LivePositions : a # b => KeyAt(a) # KeyAt(b)

\* A range query, and with it the lookup of a key, returns live rows of the
\* range only, and all of them that lie below every key an update has moved:
\* splits and deletes of other rows, and moves of larger ones, do not matter.
\* From a moved key on it may stop early.  Its two entries can come to be the
\* last of one leaf and the first of the next; the leaf that a second split
\* between them makes goes behind the old right one in the tree
\* (internal_insert passes equal keys, node.cpp:208) and before it in the
\* chain, so larger keys inserted later precede smaller ones there, and the
\* scan ends at the first that is too large.
RangesAgree ==
    damage = {} /\ op # Undefined =>
        \A lo \in Keys : \A hi \in {k \in Keys : k >= lo} :
            LET found  == range_query(lo, hi)
                wanted == {row \in LiveRows : row.key \in lo .. hi}
            IN  found \subseteq wanted
                /\ \A row \in wanted \ found : \E k \in moved : k <= row.key

\* An entry of the index leads to a row of its key, live or deleted: never to
\* another key's row and never into the middle of one.
PointersMeanKey ==
    Alive =>
        LET cells == ChainCells(mem, ROOT_PAGE)
        IN  \A c \in DOMAIN cells :
               \E i \in SlotAt(mem, cells[c].value) :
                  mem[cells[c].value.page].recs[i].val.key = cells[c].key

\* As long as the index has one node, every statement is defined.
UndefinedNeedsSplit ==
    op = Undefined /\ Alive => \E p \in HeapPages : ~IsHeap(mem[p])

\* A kill takes no key from the table, at whatever point of a statement or of
\* the destructor it comes, though of an updated row it may leave the old value
\* or both: what is in memory only are tombstones, changes in place and index
\* entries.
KillKeepsKeys ==
    [][answer' = "died" =>
          {row.key : row \in LiveRows} \subseteq {row.key : row \in LiveRows'}]_vars

\* The table as a map from keys to values, and the promise made of it
\* (KeyedRows.tla).
Map == INSTANCE KeyedRows WITH rows <- LiveRows, intact <- Whole
KeepsPromise == Map!Spec

-----------------------------------------------------------------------------
(* What the documentation says and the code does not do *)

\* Readme.md:331-333: get_all_dynamic() is a "full sequential scan of every
\* row-heap page".
ScanSeesEveryRow ==
    Alive => \A e \in HeapPages : Ends(e) => LiveRows = LiveBefore(mem, e)

\* Readme.md:267-270: DELETE with WHERE "tombstones matching rows".
DeleteReachesEveryRow ==
    [][op.kind = "delete" /\ op' = Idle /\ answer' # "died" /\ damage = {} =>
          \A row \in LiveRows : row \notin op.from]_vars

\* Readme.md:361-363: on growth the row's "B+ tree pointer" changes to where
\* insert() put it, so that lookups should find it there.
LookupsFindMovedRows ==
    damage = {} /\ op # Undefined =>
        \A row \in LiveRows : row \in find_all_by_id(row.key)

\* Readme.md:361-363: an update "tombstones the old row and calls insert() for the
\* new one"; of other rows nothing is said, so that lookups should find those as
\* before.  With leaves of two cells, nodes of three keys and ten pages they do
\* not: insert 2, 3 and 6, let 3 grow, insert 4, 1 and 5; no lookup finds 4.
LookupsFindRowsLeftAlone ==
    damage = {} /\ op # Undefined =>
        \A row \in LiveRows : row.key \in moved \/ row \in find_all_by_id(row.key)

\* Readme.md:288-290, 512-514: index pages and rows are in the .db file "on
\* every insert/update/delete", so that a kill should not part them.
LookupsSurviveKill ==
    damage \subseteq {"died"} /\ op = Idle =>
        \A row \in LiveRows : row.key \in moved \/ row \in find_all_by_id(row.key)

\* Readme.md:405-408 and pager.cpp:112-113: nodes have page numbers of their
\* own, "completely separate from heap pages so they never collide".
StatementsDefined == Alive => op # Undefined
=============================================================================
