------------------------------ MODULE RowHeap -------------------------------
(***************************************************************************)
(* A table without a primary key: Table's heap code (table.cpp) over its   *)
(* pager (pager.cpp), with the file that survives the process.             *)
(*                                                                         *)
(* A row is the value of its one column.  Pages 0 and 1 (metadata and the  *)
(* empty root of an unused index) do not change; num_rows is left out      *)
(* since nothing in the program reads it.  A statement runs to its end     *)
(* before the next one, but the process may die between any two writes:    *)
(* where a statement or the destructor writes more than one page, each     *)
(* write is a step.  What a process that died leaves is opened again.      *)
(***************************************************************************)
EXTENDS Heap, FiniteSets

CONSTANTS
    Values,            \* inputs for the column, and the values it stores
    Stored,            \* Stored[v]: what the column keeps for the input v
    RowSize,           \* RowSize[v]: the bytes of a row that stores v
    Conditions,        \* where clauses, as the sets of values they match
    MayDie,            \* during which kinds of op the process may be killed
    TABLE_MAX_PAGES    \* the page number at which get_page ends the process

ASSUME RowHeapAssumption ==
    /\ Stored \in [Values -> Values]
    /\ RowSize \in [Values -> Nat \ {0}]
    /\ Conditions \subseteq SUBSET Values
    /\ TABLE_MAX_PAGES \in Nat
    /\ TABLE_MAX_PAGES > ROW_START_PAGE

HeapPages == ROW_START_PAGE .. TABLE_MAX_PAGES - 1

VARIABLES
    unique,        \* whether the column is declared unique
    mem,           \* the pages as the process sees them
    num_pages,     \* Pager::num_pages
    disk,          \* the pages of the file
    file_pages,    \* the length of the file, in pages
    op,            \* the statement that is under way
    answer,        \* what the session was last told
    damage         \* history: "died" once the process ended without its
                   \* destructor, "torn" if it did so inside the destructor

vars == << unique, mem, num_pages, disk, file_pages, op, answer, damage >>

Larger(m, n) == IF m >= n THEN m ELSE n

Idle == [kind |-> "idle"]
Updating(page, idx, last, from, to) ==
    [kind |-> "update", page |-> page, idx |-> idx, last |-> last,
     from |-> from, to |-> to]
Closing(page) == [kind |-> "close", page |-> page]

-----------------------------------------------------------------------------
(* Walking the heap *)

\* The page a walk over the heap ends at: the first one that is empty.  If
\* there is none, the walk asks for page TABLE_MAX_PAGES and get_page ends the
\* process.
Ends(e) ==
    /\ e \in HeapPages => EndOfHeap(mem[e])
    /\ \A p \in HeapPages : p < e => ~EndOfHeap(mem[p])

WalkDies == Ends(TABLE_MAX_PAGES)

\* Fault: one page too many.
TouchedNext(p) == Larger(num_pages, p + 2)

\* get_page makes the page count follow the page it is asked for.
Touched(p) == Larger(num_pages, p + 1)

\* Fault: the scan does not go on to the second page.
ScannedFirst(e) ==
    IF e = ROW_START_PAGE THEN {}
    ELSE {mem[ROW_START_PAGE].recs[i].val : i \in LiveIn(mem[ROW_START_PAGE])}

\* The values that a full scan ending at page e returns.
Scanned(e) ==
    UNION {{mem[p].recs[i].val : i \in LiveIn(mem[p])} :
              p \in {q \in HeapPages : q < e}}

\* exists_value_in_column(v) answers found and leaves n as the page count.
Lookup(v, found, n) ==
    \E e \in HeapPages :
        /\ Ends(e)
        /\ found <=> v \in Scanned(e)
        /\ n = Touched(e)

-----------------------------------------------------------------------------
(* The process and the file *)

\* Fault: nothing is written.
flushNothing(p, content) == UNCHANGED << disk, file_pages >>

\* Pager::flush of a page: writing past the end lengthens the file.
flush(p, content) ==
    /\ disk' = [disk EXCEPT ![p] = content]
    /\ file_pages' = Larger(file_pages, p + 1)

\* The next process: the constructor opens the file as it is.
Restart(pages, length) ==
    /\ mem' = pages
    /\ num_pages' = Larger(ROW_START_PAGE, length)
    /\ op' = Idle

\* The process ends without its destructor (killed, or by exit in get_page).
Die ==
    /\ Restart(disk, file_pages)
    /\ answer' = "died"
    /\ damage' = damage \cup {"died"}
                        \cup (IF op.kind = "close" THEN {"torn"} ELSE {})
    /\ UNCHANGED << disk, file_pages >>

Init ==
    /\ unique \in BOOLEAN
    /\ mem = [p \in HeapPages |-> ZeroPage]
    /\ num_pages = ROW_START_PAGE
    /\ disk = [p \in HeapPages |-> ZeroPage]
    /\ file_pages = 1
    /\ op = Idle
    /\ answer = "none"
    /\ damage = {}

-----------------------------------------------------------------------------
(* INSERT *)

\* The loop of Table::insert looks at the pages below the page count n, and at
\* page 2 in any case.
Candidate(p, n) == p < n \/ p = ROW_START_PAGE

FirstRoom(m, n, size, p) ==
    /\ Candidate(p, n)
    /\ HasRoom(m[p], size)
    /\ \A q \in HeapPages : q < p => ~HasRoom(m[q], size)

\* Table::insert of input v into the pages m: the page that takes the row is
\* written to the file at once.  When no page has room for it, the row goes
\* nowhere and insert returns true all the same.
Store(m, n, v) ==
    LET val  == Stored[v]
        size == RowSize[val]
    IN  /\ num_pages' = Larger(n, ROW_START_PAGE + 1)
        /\ \/ \E p \in HeapPages :
                 /\ FirstRoom(m, n, size, p)
                 /\ mem' = [m EXCEPT ![p] = AppendRow(m[p], val, size)]
                 /\ flush(p, AppendRow(m[p], val, size))
           \/ /\ \A p \in HeapPages : ~FirstRoom(m, n, size, p)
              /\ mem' = [p \in HeapPages |->
                            IF Candidate(p, n) /\ m[p].used = 0
                            THEN ClearedPage ELSE m[p]]
              /\ UNCHANGED << disk, file_pages >>

Insert(v) ==
    /\ op = Idle
    /\ \/ /\ unique
          /\ \E n \in 0 .. TABLE_MAX_PAGES : Lookup(v, FALSE, n) /\ Store(mem, n, v)
       \/ ~unique /\ Store(mem, num_pages, v)
    /\ answer' = "inserted"
    /\ UNCHANGED << op, damage >>

InsertDuplicate(v) ==
    /\ op = Idle
    /\ unique
    /\ \E n \in 0 .. TABLE_MAX_PAGES : Lookup(v, TRUE, n) /\ num_pages' = n
    /\ answer' = "duplicate"
    /\ UNCHANGED << mem, disk, file_pages, op, damage >>

-----------------------------------------------------------------------------
(* SELECT and DELETE *)

Select ==
    /\ op = Idle
    /\ \E e \in HeapPages : Ends(e) /\ num_pages' = Touched(e)
    /\ answer' = "none"
    /\ UNCHANGED << mem, disk, file_pages, op, damage >>

\* Tombstones are set in memory; no page is written.
DeleteWhere(S) ==
    /\ op = Idle
    /\ \E e \in HeapPages :
          /\ Ends(e)
          /\ num_pages' = Touched(e)
          /\ mem' = [p \in HeapPages |->
                        IF p < e THEN TombstoneAll(mem[p], S)
                        ELSE mem[p]]
    /\ answer' = "none"
    /\ UNCHANGED << disk, file_pages, op, damage >>

\* Fault: only the first page is emptied.
DeleteAllFirst ==
    /\ op = Idle
    /\ \E e \in HeapPages :
          /\ Ends(e)
          /\ num_pages' = Touched(e)
          /\ mem' = [mem EXCEPT ![ROW_START_PAGE] = ClearedPage]
    /\ answer' = "none"
    /\ UNCHANGED << disk, file_pages, op, damage >>

DeleteAll ==
    /\ op = Idle
    /\ \E e \in HeapPages :
          /\ Ends(e)
          /\ num_pages' = Touched(e)
          /\ mem' = [p \in HeapPages |-> IF p < e THEN ClearedPage ELSE mem[p]]
    /\ answer' = "none"
    /\ UNCHANGED << disk, file_pages, op, damage >>

-----------------------------------------------------------------------------
(* UPDATE, a row at a time *)

\* Fault: the end of the page is taken from the number of live rows.
EnterLive(p, from, to) ==
    /\ p \in HeapPages
    /\ num_pages' = Touched(p)
    /\ op' = IF EndOfHeap(mem[p]) THEN Idle
             ELSE Updating(p, 1, Cardinality(LiveIn(mem[p])), from, to)
    /\ answer' = "none"
    /\ UNCHANGED << mem, disk, file_pages, damage >>

\* The walk of update_where comes to page p.  It fixes the end of the page as
\* it enters it, and so passes over rows that are appended to it later on.
Enter(p, from, to) ==
    /\ p \in HeapPages
    /\ num_pages' = Touched(p)
    /\ op' = IF EndOfHeap(mem[p]) THEN Idle
             ELSE Updating(p, 1, Len(mem[p].recs), from, to)
    /\ answer' = "none"
    /\ UNCHANGED << mem, disk, file_pages, damage >>

UpdateWhere(from, to) == op = Idle /\ Enter(ROW_START_PAGE, from, to)

UpdateNextPage ==
    /\ op.kind = "update"
    /\ op.idx > op.last
    /\ Enter(op.page + 1, op.from, op.to)

AtRow == op.kind = "update" /\ op.idx <= op.last
Row == mem[op.page].recs[op.idx]
RowMatches == Row.live /\ Row.val \in op.from

\* The UNIQUE check is made when the row's value would change.
Checked == unique /\ Row.val # op.to

NextRow ==
    /\ op' = [op EXCEPT !.idx = @ + 1]
    /\ answer' = "none"
    /\ UNCHANGED damage

\* Fault: the walk goes back to the loop's head before it goes on.
UpdateSkipStuck ==
    /\ AtRow
    /\ ~RowMatches
    /\ answer' = "none"
    /\ UNCHANGED << mem, num_pages, disk, file_pages, op, damage >>

UpdateSkip ==
    /\ AtRow
    /\ ~RowMatches
    /\ NextRow
    /\ UNCHANGED << mem, num_pages, disk, file_pages >>

UpdateDuplicate ==
    /\ AtRow
    /\ RowMatches
    /\ Checked
    /\ \E n \in 0 .. TABLE_MAX_PAGES : Lookup(op.to, TRUE, n) /\ num_pages' = n
    /\ NextRow
    /\ UNCHANGED << mem, disk, file_pages >>

\* The row is rewritten where it is if it fits its slot; otherwise the slot is
\* given up and the row inserted again.  The new value is one that the column
\* takes: one that does not convert (table.cpp:957-961) leaves each row it
\* meets as UpdateSkip does, and is not among Values.
UpdateRow ==
    /\ AtRow
    /\ RowMatches
    /\ \E n \in 0 .. TABLE_MAX_PAGES :
          /\ IF Checked THEN Lookup(op.to, FALSE, n) ELSE n = num_pages
          /\ \/ /\ RowSize[Stored[op.to]] <= Row.size
                /\ mem' = [mem EXCEPT
                              ![op.page] = Rewrite(@, op.idx, Stored[op.to])]
                /\ num_pages' = n
                /\ UNCHANGED << disk, file_pages >>
             \/ /\ RowSize[Stored[op.to]] > Row.size
                /\ Store([mem EXCEPT ![op.page] = Tombstone(@, op.idx)], n, op.to)
    /\ NextRow

-----------------------------------------------------------------------------
(* The end of the process *)

\* .exit: the destructor writes page after page.
Close ==
    /\ op = Idle
    /\ file_pages' = Larger(file_pages, ROW_START_PAGE)
    /\ op' = Closing(ROW_START_PAGE)
    /\ answer' = "none"
    /\ UNCHANGED << mem, num_pages, disk, damage >>

CloseWrite ==
    /\ op.kind = "close"
    /\ op.page < num_pages
    /\ flush(op.page, mem[op.page])
    /\ op' = Closing(op.page + 1)
    /\ UNCHANGED << mem, num_pages, answer, damage >>

Reopen ==
    /\ op.kind = "close"
    /\ op.page >= num_pages
    /\ Restart(disk, file_pages)
    /\ UNCHANGED << disk, file_pages, answer, damage >>

Killed == op.kind \in MayDie /\ Die

\* Any walk: SELECT, DELETE, and the walks of INSERT and UPDATE.
WalkExits ==
    /\ WalkDies
    /\ \/ op = Idle
       \/ op.kind = "update" /\ op.idx > op.last /\ op.page + 1 = TABLE_MAX_PAGES
       \/ AtRow /\ RowMatches /\ Checked
    /\ Die

Step ==
    \/ \E v \in Values : Insert(v) \/ InsertDuplicate(v)
    \/ Select
    \/ \E S \in Conditions : DeleteWhere(S)
    \/ DeleteAll
    \/ \E S \in Conditions, v \in Values : UpdateWhere(S, v)
    \/ UpdateNextPage
    \/ UpdateSkip
    \/ UpdateDuplicate
    \/ UpdateRow
    \/ Close
    \/ CloseWrite
    \/ Reopen
    \/ Killed
    \/ WalkExits

Next == Step /\ UNCHANGED unique

Spec == Init /\ [][Next]_vars

-----------------------------------------------------------------------------
(* Properties *)

Rec == [size : Nat \ {0}, live : BOOLEAN, val : Values]
Page == [type : {"heap"}, used : Nat, recs : Seq(Rec)]

StateOK ==
    /\ mem \in [HeapPages -> Page]
    /\ disk \in [HeapPages -> Page]
    /\ num_pages \in ROW_START_PAGE .. TABLE_MAX_PAGES
    /\ file_pages \in 1 .. TABLE_MAX_PAGES
    /\ op \in {Idle}
              \cup [kind : {"update"}, page : HeapPages, idx : Nat, last : Nat,
                    from : SUBSET Values, to : Values]
              \cup [kind : {"close"}, page : ROW_START_PAGE .. TABLE_MAX_PAGES]
    /\ answer \in {"none", "inserted", "duplicate", "died"}
    /\ damage \subseteq {"died", "torn"}

TypeOK == unique \in BOOLEAN /\ StateOK

\* The counter of a page and the records in it never disagree: the counter is
\* the sum of the slots, and no page runs over its end.
CountersRight ==
    \A p \in HeapPages : \A pg \in {mem[p], disk[p]} :
        /\ UsedFrom(pg) = Offset(pg.recs, Len(pg.recs) + 1)
        /\ pg.used <= PAGE_SIZE

\* No page with records lies behind an empty one, where no walk would reach
\* it: insert fills pages from the front, delete_all empties all of them, and
\* a restart finds pages that were written in that order.  (The destructor
\* writes emptied pages one by one: dying there can leave a hole.)
NoHole(m) ==
    \A p, q \in HeapPages : p < q /\ EndOfHeap(m[p]) => EndOfHeap(m[q])

RowsReachable == "torn" \notin damage => NoHole(mem)

\* Each slot in memory is a slot of the file, and a row that is live in memory
\* is live in the file: a kill never takes a row that was stored, whatever was
\* inserted, updated or deleted since (Table::insert writes its page at once).
SlotOnDisk(p, i) ==
    /\ i \in DOMAIN disk[p].recs
    /\ disk[p].recs[i].size = mem[p].recs[i].size
    /\ mem[p].recs[i].live => disk[p].recs[i].live

RowsOnDisk == \A p \in HeapPages : \A i \in DOMAIN mem[p].recs : SlotOnDisk(p, i)

LiveAt == UNION {{<< p, i >> : i \in LiveIn(mem[p])} : p \in HeapPages}
ValueAt(pos) == mem[pos[1]].recs[pos[2]].val

\* An update that runs to its end has changed every row its condition matched
\* (without UNIQUE, which may refuse some), although it moves rows that grow
\* and so changes what it walks over.
UpdateDone ==
    /\ op.kind = "update"
    /\ op' = Idle
    /\ answer' # "died"

UpdateReachesEveryRow ==
    [][UpdateDone /\ ~unique /\ "torn" \notin damage =>
          \A pos \in LiveAt : ValueAt(pos) \notin op.from \ {Stored[op.to]}]_vars

\* The rows of the table as a bag, and the promise made of them (RowBag.tla):
\* it is void for a process that dies and once a destructor was cut short.
\* Without UNIQUE it is void while a row may find no page with room for it.
\* With UNIQUE it holds if the check compares what is stored with what will be
\* stored, and if every row fits an empty page: the lookup that UNIQUE makes
\* counts the page behind the last row in.
Rows == [v \in Values |-> Cardinality({pos \in LiveAt : ValueAt(pos) = v})]
RoomForAll ==
    \A v \in Values : \E p \in HeapPages :
        FirstRoom(mem, num_pages, RowSize[Stored[v]], p)
StoredAsGiven == \A v \in Values : Stored[v] = v
RowsFit == \A v \in Values : HasRoom(ClearedPage, RowSize[v])
Promised ==
    /\ answer # "died"
    /\ "torn" \notin damage
    /\ IF unique THEN StoredAsGiven /\ RowsFit ELSE RoomForAll
Told == IF Promised THEN answer ELSE "void"
Bag == INSTANCE RowBag WITH rows <- Rows, answer <- Told
KeepsPromise == Bag!Spec

\* An update is a walk that ends, even though it appends to the heap it walks.
Fairness ==
    /\ WF_vars(UpdateNextPage /\ UNCHANGED unique)
    /\ WF_vars(UpdateSkip /\ UNCHANGED unique)
    /\ WF_vars(UpdateDuplicate /\ UNCHANGED unique)
    /\ WF_vars(UpdateRow /\ UNCHANGED unique)
    /\ WF_vars(WalkExits /\ op.kind = "update" /\ UNCHANGED unique)

FairSpec == Spec /\ Fairness

UpdateEnds == op.kind = "update" ~> op = Idle

-----------------------------------------------------------------------------
(* What the documentation says and the code does not do *)

\* An INSERT that is answered with success has stored its row (Readme.md:317-
\* 318: insert appends it "to the first row-heap page with enough free space").
InsertStores ==
    [][\A v \in Values :
          Insert(v) => Rows'[Stored[v]] = Rows[Stored[v]] + 1]_vars

\* An UPDATE of a row that grows moves the row (Readme.md:360-363: it calls
\* insert() for the new one, "meaning the row's physical location ... changes").
UpdateKeepsRows ==
    [][UpdateRow => Cardinality(LiveAt') = Cardinality(LiveAt)]_vars

\* Between statements the file shows what the session shows (Readme.md:512-514:
\* durability comes from the .db file, "written on every insert/update/delete").
FileIsCurrent ==
    op = Idle => \A p \in HeapPages : LiveIn(disk[p]) = LiveIn(mem[p])

\* No value occurs twice in a UNIQUE column (Readme.md:261: UNIQUE is
\* pre-checked for every INSERT; 275: an update "can't violate" it).
UniqueHolds == unique /\ damage = {} => \A v \in Values : Rows[v] <= 1
=============================================================================
