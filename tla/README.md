# A TLA+ model of BitBase

BitBase is a small SQL database in C++: a shell reads a statement, a parser
turns it into a `Statement`, an executor carries it out on tables that are
stored as 4096-byte pages, with a B+ tree on the primary key. Beside the
database (`src/bitbase_cli`) the repository holds exercises (`src/tasks`): five
multi-threaded programs, three search trees, and a chat service for one caller.

This directory models the path of a statement from the line that was typed to
the pages of the file, the multi-threaded programs, the search trees of Task-3
and the chat service in TLA+, checks the models with TLC on small instances,
and proves with TLAPS, for every value of the constants, the main properties of
the B+ tree index, of the row heap, of the table with both, of the catalog and of
each multi-threaded program.
`PROJECT.json` maps each definition to the lines of the source that it stands
for.

The database is single-threaded. What is hard in it is the order of things: a
process may end without its destructors between any two writes; long sequences
of legal statements reach states of the file that no single statement shows;
pages of rows and pages of the index share one counter; an update changes the
heap that it walks over.

## Components

| Component | Source | State | Operations | Works with |
| --- | --- | --- | --- | --- |
| B+ tree | `storage/btree/node.cpp` | nodes in pages | find, insert with leaf and internal splits, delete without rebalancing | Pager for pages; called by Table |
| Row heap | `storage/table/table.cpp` | pages of `[size][row]` records, size 0 for a deleted row; a counter of bytes used | insert, scan, delete, update, delete all | Pager |
| Table with primary key | `storage/table/table.{h,cpp}` | rows and tree in one file; `root_page` in memory only | the same statements, with lookups through the tree | B+ tree, Row heap |
| Pager | `storage/pager/pager.cpp` | page cache, number of pages, file | get_page, flush, write all pages at destruction | file system |
| Database and catalog | `storage/database/database.cpp` | open tables, `bitbase.meta` | create, drop, load, persist | Table |
| Executor | `executor/executor.cpp` | database, log | one statement at a time | Database, Table, log |
| Parser, tokenizer | `parser/parser.cpp`, `utils/tokenizer.cpp` | none | text to `Statement` | Executor |
| Schema, row format | `storage/schema`, `storage/row_format` | schema on page 0; bytes of a row | serialize, deserialize | Table |
| Query evaluation | `parser.cpp`, `executor.cpp`, `table.cpp` | none | way to the rows, filter, order, limit | Table |
| Write-ahead log | `storage/wal/wal.cpp` | append-only file | log after a statement; `recover` is called by nobody | Executor |
| Transactions | `storage/txn/transaction.cpp` | undo list | used by nobody | |
| Synchronization problems | `tasks/Task-2/Synchronization Problems` | mutexes, condition variables, semaphores | four programs | threads |
| ChatService | `tasks/Task-2/ChatService` | users, chats, one mutex | five calls | threads |
| BitChat | `tasks/BitChat` | users, chats | the five calls, by one caller | ChatService is its version for threads |
| Task-3 trees | `tasks/Task-3` | nodes in memory | insert, find, print; single-threaded programs | |

What makes each of them correct, and what is hard to test about it:

* **B+ tree** - every key that was inserted is found, by descent and along the
  leaf chain, whatever was split. Hard: splits at the edges of nodes, and what
  an earlier split left in the slots of a later one.
* **Row heap** - a row that was inserted is there until it is deleted; no row
  gets behind the end that walks see; kills take no stored row. Hard: full
  pages, rows that move during an update, kills inside the destructor.
* **Table** - keys are unique; lookups and scans agree. Hard: all of the above
  in one file, and a root that is forgotten at a restart.
* **Catalog** - a table that was created is there, with its schema and no other
  table's rows. Hard: kills between the steps of create and drop.
* **Parser** - a line is taken for what it states, or refused. Hard: lines that
  end too early, as every access to a token needs a test of its own; quotes.
* **Query** - the answer does not depend on the way to the rows.
* **Threads** - exclusion, nothing lost, everyone comes to an end; ChatService
  looks like BitChat to each of its callers.
* **Task-3 trees** - balance, order, and every key found, at each step of a
  rebalancing. Hard: which of many pointers a rotation or split has to move.

The hazards, each at its line, are listed in `PROJECT.json`.

## Modules

| Module | Models | Depends on |
| --- | --- | --- |
| `Node` | the functions of `node.cpp` on a map of pages | |
| `BPlusTree` | the index of one table: insert, delete, restart | `Node`; promise in `IndexMap` |
| `Heap` | one page of rows and what insert, delete and update do to it | |
| `RowHeap` | a table without primary key, its pager, file, kills and restarts | `Heap`; promise in `RowBag` |
| `Table` | a table with primary key: heap and tree in one file | `Node`, `Heap`; promise in `KeyedRows` |
| `Catalog` | the database's tables, catalog and files | |
| `Tokenizer`, `Parser` | `tokenize` and `Parser::parse`, pure functions of a line | |
| `Query` | one line, from what was typed to what is printed | `Parser`, `Tokenizer` |
| `DiningPhilosophers`, `ProducersConsumers`, `ReadersWriters`, `SleepingBarber`, `ChatService` | the programs of Task-2, one each | promise of `ChatService` in `BitChat` |
| `BitChat` | the chat service for one caller | |
| `Task2` | the five programs of Task-2 in one module, with fairness | the five |
| `RedBlackTree`, `BTree`, `OrderedLeaves` | the programs of Task-3 (`OrderedLeaves` is `B+Tree.cpp`) | promise of `RedBlackTree` in `Dictionary` |
| `Task3` | these three in one module, with fairness | the three |
| `MCBPlusTree`, `MCRowHeap`, `MCTable`, `MCQuery`, `MCTask3` | values of the constants for TLC | |
| `HeapProofs`, `NodeProofs`, `TreeProofs` | lemmas: a page of rows; nodes, walks and levels; the tree as a whole and among other pages | each builds on the one before |
| `BPlusTreeProofs`, `RowHeapProofs`, `TableProofs`, `CatalogProofs`, `Task2Proofs` | theorems about the module they are named for | the lemmas above |

`IndexMap`, `RowBag`, `KeyedRows` and `Dictionary` are abstract specifications:
what the user of an index, of a table or of a tree may count on. `BitChat` is
both a program of the repository and the abstract specification of
`ChatService`. The detailed modules instantiate them with a refinement mapping
(the entries of the leaf chain, the bag of live rows, the set of live rows, what
find answers for each key, the service's own variables) and are checked to
implement them.

A definition that is marked *Fault* is no part of a model. It is a plausible
mistake in the definition that follows it, and shows, when it takes that one's
place, that a property notices.

### How state and actions correspond to the code

**`Node`, `BPlusTree`.** `page` maps page numbers to nodes. A leaf has its cells
in order and the page of the next leaf, an internal node its keys, its child
slots and its right child. The child slots keep what earlier contents of the
page left there, since `internal_insert` exposes such a slot. `btree_insert`
returns the page map with what the callers need of `SplitResult`. An action of
`BPlusTree` is one call from `Table`: `Insert` includes the splits up to the new
root, `Delete` is `btree_delete` as `delete_by_id` calls it, `Reopen` is a
restart, after which `root_page` is 1. A row pointer is a constant
(`PointersOf`), as the index does not look into it. A descent through a child
slot that was never written ends the behaviour in `status = "undefined"`.

**`Heap`, `RowHeap`.** A page is `[used, recs]`: the counter and the records with
their size, value and whether they are live. Bytes of a row are abstracted to
its value and its size; sizes, and so the room on a page, are exact. `unique`
is chosen at the start and never changes. `mem` is the page cache laid over the
file, `disk` the file. `Insert` is one step, as it writes one page and flushes it; an update is a step a row (`UpdateSkip`,
`UpdateDuplicate`, `UpdateRow`, `UpdateNextPage`), and the destructor a step a
page (`Close`, `CloseWrite`, `Reopen`). `Killed` may come between any two steps
of the kinds in `MayDie`, and get_page's `exit` at the page limit is modelled as
dying (`Die`, `WalkExits`). After it the next process starts from the file.

**`Table`.** The same, with rows `[key, val]` on the pages that `Node`'s tree does
not use. A DELETE with a condition is a step a row, as each row goes through
`delete_by_id`. What the process would read through a pointer, or from a page,
that is not what it takes it for ends the behaviour in `op.kind = "undefined"`.
`damage` and `moved` are history: they name the events after which a promise of
the documentation is known not to hold, so that everything else can be claimed
up to there.

**`Catalog`.** `catalog` and `file` are what the disk holds, `tables` and `mem`
what the process has. `persist_catalog` is two steps, since the stream empties
the file when it is opened and writes it when it is closed. A table's rows are
the set of schemas they were written with.

**`Tokenizer`, `Parser`.** A line is a sequence of symbols: a quote, a space, a
punctuation mark, or a word, which stands for a run of other characters, as the
tokenizer tells no two of those apart. A token is a sequence of symbols again.
`parse` yields the `Statement`, an error, `"abort"` (an exception of `stoi`, which
nothing catches) or `"undefined"` (`tokens[i]` behind the last token). The six
`parse` functions keep the bounds tests of the code where it has them, and only
there.

**`Query`.** The actions are the stages of a line in the shell: `Parse` is
`Repl::start` with `Parser::parse`; a SELECT goes on with `GetTable`, `Fetch` (the
executor's choice between range, key and scan), `Filter`, `Order`, `Limit` and
`Answer`, the columns that are printed. Other statements end after `Parse`: what
they do is in `RowHeap`, `Table` and `Catalog`. Values are numbers; keys wrap at
`WORD`, as the conversion to `uint32_t` does. `asked` is the statement that the
line was made from, so that the properties can say what should come out.

**`Task2`.** Each access to a shared variable, each lock, wait and release is a
step, except that what happens under a mutex without a wait in between may be
one. A mutex that is held for a print only is left out. A condition variable's
wait may end by itself (`Wake`). The barber's `release` of a binary semaphore at
1 is undefined: the signal is counted or lost, and `overflown` remembers it. A
call of `ChatService` is two or more steps under its mutex: what it reads
(`Read`), and what it stores (`StoreUser`, `StoreChat`, `StoreMessage`). `exercise`
says which of the five programs runs.

**`BitChat`.** Each call is one step; refused calls and `getMessages` leave
everything as it is, and are the steps that stutter.

**`RedBlackTree`.** `tree` has the nodes by key, with color and pointers. A command
`insert` links the node (`Insert`) or changes the value of one that exists
(`Update`); each turn of the loop in `fixInsert` is a step of its own
(`FixRecolor`, `FixRotate`), and so is its end (`FixEnd`). Left and right cases
are one action each, with the side as a parameter, as the code has each
twice with the sides swapped.

**`BTree`, `OrderedLeaves`.** An insert with all its splits is one step. The
B-tree's nodes have no identity and are nested records; the B+ tree's are
numbered, as leaves point to each other. `printLeaves` follows these pointers.
Keys may be inserted again, as nothing in the code refuses them.

## Runs

| Run | Question | Bounds |
| --- | --- | --- |
| `BPlusTree` | Is the leaf chain whole, are nodes in order and lookups complete until one of two known defects strikes? Does the index change one key at a time? | five keys, two cells a leaf, two keys an internal node: three levels, splits at all edges |
| `BPlusTreeSplits` (violated) | Do lookups survive splits? | the same |
| `BPlusTreeReopen` (violated) | Do lookups survive a clean restart? | the same |
| `RowHeap` | Counters, reachability, file, updates that reach every row and end, and `RowBag`, with and without UNIQUE | three pages for rows; rows of two sizes, of which two fill a page to the byte or one leaves 4 bytes too few |
| `RowHeapLostInsert` (violated) | Does every INSERT that succeeds store its row? | as `RowHeap`, without kills |
| `Table` | Unique keys, agreeing lookups, pointers that mean their key, kills that take no key, `KeyedRows` | three keys, two sizes, leaves of two, five pages for rows and nodes, six statements |
| `TableCollision` (violated) | Are all statements defined? | the same, without kills |
| `Catalog` | Current catalog, fitting rows, known tables, restarts | two names, two schemas, removal may fail |
| `Query` | Is a whole line taken for what it states, and a cut one for no more? Is the answer that of the where clause, in order, cut and printed as asked, and none for a negative limit? | all six statements in two layouts of spaces, and a choice of them cut at every symbol; up to two rows of values -1, 1, 2; limits -1, 0, 1, 2; four schemas; up to two conditions, and three on the fast path; keys of 16 values |
| `QueryRange` (violated) | Is the fast path's answer that of the scan? | the same |
| `Task2` | Exclusion, order, balance, answers, `BitChat`, end of all threads | five philosophers, ten items through a buffer of five, three readers and two writers, as in the source; five customers for three chairs; two callers with three calls each |
| `Task3` | Balance, bounds, order and completeness of the trees, `Dictionary`, end of each fix | eight red-black keys; 11 inserts of four keys into a B-tree with `T` = 2; 8 inserts of seven keys into a B+ tree with `ORDER` = 3 |

Why these bounds are enough: the tree reaches three levels, so that leaf and
internal splits, at the left, in the middle and at the right, and the two
defects all occur; a page of rows is filled to the byte, and missed by just the
size field of a row; two pages of rows are the least for a row to move behind
the walk, three for a hole between pages. `Table` is bounded by the number of
statements, since every statement may add dead records; six are enough for a
split, a moved row, a restart and a lookup after it. Two tables are enough for
the catalog to list one and lose the other. `Task3`'s degrees are one below those
in the mains (3 and 4), the least the code works with, so that the trees reach
three levels with few keys; eight keys lead the red-black tree through each case
of the fix, on both sides, and to recoloring that goes on further up.
`WORD` is larger than all keys but those that come from negative numbers, as 2^32
is. `Catalog` and the violated runs need
no further bound. `TABLE_MAX_PAGES` is a constant of the code (10000), small
here so that its limit is reached. `LEAF_NODE_MAX_CELLS` and
`INTERNAL_NODE_MAX_KEYS` follow from the page size in the code.

`BPlusTree`, `Table` and `Task3` do not check for deadlock: a behaviour stops when
the process has exited, has read something undefined, or has used its
statements or inserts. All others do; `Query` and `Task2` stutter explicitly when they are
done.

### Fairness

`RowHeap` has weak fairness on the steps of an update (`FairSpec`): the process is
a single thread that goes on unless it is killed, and a kill is no step it
owes. No fairness is assumed for statements or kills.

`Task2` has weak fairness on each thread: a thread that can run does. Which of
several threads gets a mutex or a semaphore is left open; each takes them a
bounded number of times, so weak fairness is enough. The two threads of
`ProducersConsumers` have strong fairness: a wait that keeps ending by itself
takes the mutex again and again, and without it could keep the other thread from
the mutex forever. Waits that end by themselves are not fair: notifications
have to be enough.

`Task3` has weak fairness on `Fix`: the loop of `fixInsert` goes on until it is
through. No fairness is assumed for commands.

### What the documentation says and the code does not do

Five runs show a disagreement each, and are listed as findings with the lines
of the documentation:

* `BPlusTreeSplits`: `internal_insert`, when the new separator is the largest, sets
  the right child and forgets the old one; keys are lost to lookups.
* `BPlusTreeReopen`: the root's page number is not stored; after a restart
  lookups start at the leftmost leaf.
* `RowHeapLostInsert`: when all pages that were ever touched are full, INSERT is
  answered with success and stores nothing.
* `TableCollision`: nodes and rows share page numbers, and walks over the rows
  read nodes.
* `QueryRange`: the range fast path ignores what the key column is called, what
  follows the range, and signs.

Others are stated in the last section of their module and have no run. Each is
found by naming it in the module's `.cfg`: `UpdateKeepsRows` (an update of a
growing row may lose it), `FileIsCurrent` (deletions are not written until the
destructor runs), `UniqueHolds` (two spellings of a number; give `Stored` a value
that maps two inputs to one) in `RowHeap`; `ScanSeesEveryRow` (a leaf that was
emptied ends every scan), `DeleteReachesEveryRow` and `LookupsFindMovedRows` (the
index keeps the old entry of a moved row), `LookupsFindRowsLeftAlone` (see below),
`LookupsSurviveKill` (index pages are not flushed) in `Table`; `CreatedTableIsEmpty` (CREATE opens an orphaned file) in
`Catalog`; `RowsComeBack` (BIGINT and FLOAT are not serialized) and `CutIsRefused`
(a condition without its value is dropped without an error, and DELETE then goes
to all rows) in `Query`; `TraversePrintsKeys` (`traverse` and `search` of
`B-Tree.cpp:148-158` ask the tree only when it has no node) in `BTree`;
`LeavesAlwaysInOrder` (a key that is inserted again may end up between larger
ones) in `OrderedLeaves`. A value `)` ends the values of an INSERT although it is
quoted; `StatementUnderstood` allows for it.

`LookupsFindRowsLeftAlone` is what `RangesAgree` used to say: that an update which
moves a row spoils the lookup of that row and of no other. It needs more than the
bounds of `Table.cfg` to fail (leaves of two cells, nodes of three keys, keys 1 to
6, ten pages) and turned out false when its proof was attempted. After the move
the index has two entries of the key. Once a split puts one at the end of a leaf
and the other at the start of the next, and another split the same separator into
the parent again, `internal_insert` puts the new leaf behind the older right one
(it passes equal keys, `node.cpp:208`), while the chain of leaves has it before.
Larger keys inserted from then on lie before smaller ones in the chain, and a
lookup or a range query ends at the first key above its bounds. The same happens
in the compiled code with its own node sizes: insert key 1000 and grow its row 170
times, insert keys 5000 to 5169, 1, 2000 to 2168, 2 to 171, and 3000; then neither
`find_all_by_id(2100)` nor the range 2000 to 2200 returns anything, while a scan
returns every row. `RangesAgree` now promises the rows below every moved key.

## Proofs

### The index: `NodeProofs`, `TreeProofs`, `BPlusTreeProofs`

For leaves and internal nodes of every capacity, files of every size and any
keys and pointers:

* `EntriesChangeOneKey`: `Spec => ChangesOneKey`, the refinement of `IndexMap`:
  a statement changes the entry of its own key and no other, whatever splits,
  and a restart changes none;
* `NodesKeepOrder`: `Spec => []NodesInOrder`;
* `LeavesStayChained`: `Spec => []LeafChainComplete`: the chain from page 1
  meets every leaf once, also after the two known defects have struck;
* `LookupsAreComplete`: `Spec => []LookupsCompleteUntilDamaged`, in trees of any
  height;
* `RangesAreComplete`: `Spec => []RangesCompleteUntilDamaged`: what a range query
  collects along the chain is all that lies within its bounds, in order;
* `DescentsAreDefined`: `Spec => []DescentsDefinedUntilLost`.

None of these invariants is inductive, and there are three that are.

* `Sound`: every page in use is a node in order (`Tidy`), and there is a level
  for each page such that a child is one level below its parent (`Shape`,
  `Rooted`). The levels make a descent end. A page says nothing of the level it
  is at, and a split may not know how high the tree is, so the invariant asks
  for some map of levels, which each action extends to the pages it takes.
* `Searchable`: until a child is lost, there are a set of pages and for each of
  them a region, the keys it answers for. A node's keys cut its region into
  those of its children, and the cells of a leaf are in its region; the root's
  region is all numbers. That every key is in the leaf where its descent ends
  follows, and so does that no slot is read that was never written. A split must
  hand its region to two nodes on each level that it reaches. As long as the
  root is not lost either, the regions also rise from a leaf to its next one
  (`Following`): the leaf that is split keeps the lower part of its region, and
  the new leaf comes right behind it.
* `Chained`: there are a sequence of all leaves, of which each points to the
  next, and one of leftmost children from the root down to page 1. The second is
  needed because `LeafChainComplete` speaks of the leaf that the leftmost
  descent finds, which splits could change.

`RangesAreComplete` takes all three: the descent ends at the leaf whose region has
the lower bound, the chain from there on is a part of the one sequence, and what
lies before it has smaller keys (`RegionsRise`).

`NodeProofs` has what the searches and splits do to one node, the walks through
the pages (descents and chains), the levels, and what an insert does to the
entries. `TreeProofs` has the regions, the sequence of leaves and what a range
query collects; then what is needed of an index that shares its file: that its
pages stay among themselves (`Net`), and that it does the same as a copy of the
file without all other pages (`Within`). `btree_insert` in the code calls itself
and `Node` defines it by a recursive function along the descent; the lemmas about
it are shown by induction over sets of numbers, which the library's theorem on
well-founded orders gives without an operator as parameter (`Induction` in
`HeapProofs`).

### The row heap: `HeapProofs`, `RowHeapProofs`

`RowHeapProofs` proves of `RowHeap`, for every page size, page limit, set of
values and sizes, with and without UNIQUE, and wherever the process may die:

* `TypeCorrect`: `Spec => []TypeOK`;
* `StoredRowsOnDisk`: `Spec => []RowsOnDisk`: a row that is live in memory is
  live in the file, so that no kill takes a stored row;
* `AllRowsReachable`: `Spec => []RowsReachable`: no page with rows lies behind
  an empty one, unless the process died inside its destructor;
* `CountersCount`: `Spec => []CountersRight`: a page's counter is the end of its
  last record and within the page;
* `UpdateIsComplete`: `Spec => []UpdateReachesEveryRow`, although an update
  appends to the pages it walks over;
* `RowsAreABag`: `Spec => KeepsPromise`, the refinement of `RowBag`.

None of the first three safety properties is inductive. A kill makes the file
the new memory, so the file must have no hole either; that is false while the
destructor runs, of which only the pages already written are known to equal
memory; and a page the file does not have yet must be empty. The inductive
invariant `IInv` is the conjunction of the type, the shape of a page (`PagesOK`:
a page's counter tells whether it has records), the bounds of an update's cursor
(`CursorOK`), `RowsOnDisk`, the end of the file (`FileEnd`), the progress of the
destructor (`Written`) and the absence of holes in memory and file (`NoHoles`).
Lemmas say what each operation does to one page, then to the page maps, then one
lemma an action shows that it preserves `IInv`.

Where a record starts is a sum over the records before it; `HeapProofs` shows
that the recursive function has its equation and what it adds up to. An update
reaches every row since what lies behind its walk has none of the values it is to
change (`Reached`). For the refinement the live rows of all pages are counted by
value; an insert, a tombstone and the overwriting of a row each add or take one
(`Count`, `Plus`, `Minus`).

### The table: `TableProofs`

`TableProofs` proves of `Table`, where rows and index share one file, for every
size of pages and nodes, any keys, values and sizes of rows, and kills at any
step:

* `KillsKeepKeys`: `Spec => KillKeepsKeys`: a kill takes no key;
* `PointersAlwaysMeanKey`: `Spec => []PointersMeanKey`: an entry of the leaf
  chain leads to a row of its key, live or deleted;
* `UndefinedNeedsNode`: `Spec => []UndefinedNeedsSplit`: no statement is
  undefined until a node was put between the pages of rows;
* `KeysStayUnique`: `Spec => []KeysUnique`;
* `TableIsKeyedRows`: `Spec => KeepsPromise`, the refinement of `KeyedRows`;
* `RangesAgreeUntilMoved`: `Spec => [](moved = {} => RangesAgree)`: until an update
  moves a row, a range query (and a lookup, which is one) returns exactly the live
  rows of its range, if nothing is damaged;
* `QueriesReturnLiveRows`: `Spec => []RangesReturnRows`: whatever was moved, what
  a range query returns are live rows of its range, until a process dies.

The four invariants they follow from are theorems too.

* `Sound` (`PagesStaySound`) holds in every history: every page is one of rows
  or a node, in memory and in the file, nothing lies behind the last page in
  use, and every live row is in the file with its key. It says how far the
  destructor is, as the file is older behind that.
* `Indexes` (`IndexesStaySound`) holds until a process dies: there is a set of
  pages that the index does not leave, all nodes, and their cells lead to rows
  of their keys. It cannot ask for order, which rows that move destroy (the
  entry stays where it was), nor speak of all nodes, as DELETE without a
  condition leaves old ones about.
* `Scans` (`ScansStayComplete`) holds until a process dies or a leaf is emptied
  among the pages of rows: no row lies behind the page where a scan ends, and no
  two rows have one key. The second part needs the first: the duplicate check
  sees what a scan sees.
* `Exact` (`IndexStaysExact`) holds until an update moves a row and while nothing
  is damaged: the index is a tree in order with all that `Sound`, `Searchable`
  and `Chained` say of it in `BPlusTreeProofs`, each entry leads to a live row of
  its key, and each live row has an entry. What is proved there is said of a tree
  that has a file to itself; `Exact` therefore speaks of a copy of the file that
  leaves out all pages but the tree's (`Within`), and the lemmas that begin with
  `Within` in `TreeProofs` show that each operation does the same to both. That
  an entry still leads to its own row when other rows are stored and given up
  needs that no two records start at one place (`OffsetRises`), and that a DELETE
  gives up the very row to which the entry it takes out leads needs `Scans`.

What `damage` and `moved` exempt is stated in the properties as in the run: a
history after these events is promised no more than that, and TLC shows examples
where the promise fails then.

### The catalog: `CatalogProofs`

`CatalogProofs` proves of `Catalog`, for every set of tables and schemas,
wherever the process is killed and whether or not removals fail:

* `TypeCorrect`: `Spec => []TypeOK`;
* `CatalogIsCurrent`: `Spec => []CatalogCurrent`: between statements the catalog
  lists the open tables and no other, and each has its file;
* `StoredRowsFit`: `Spec => []RowsFitSchema`: no table has rows of another
  schema (unless a kill tore the catalog or a removal failed);
* `TablesComeBack`: `Spec => []KnownTablesComeBack`: a created table is back,
  with its schema, after any kills (unless one tore the catalog);
* `RestartIsFaithful`: `Spec => RestartKeepsContents`: leaving and starting
  again change no table.

What these properties say holds between statements; a kill may come at any step
of one, and what it leaves in the files is met much later, by a CREATE or by the
next `load_catalog`. So `IInv` says what the catalog lists at every step of
CREATE, DROP, loading and leaving (`Listing`); that an open table agrees with
its file on the schema, and on everything while tables are loaded (`Opened`);
that a file no table owns has no rows, except the one a DROP is about to remove
(`FilesFit`); and that a known table has its file and is listed in the catalog
that comes next (`KnownKept`). One lemma an action shows that it preserves these
parts.

### The programs of Task-2: `Task2Proofs`

These are proved of the composition `Task2`, for any numbers of threads, chairs,
items and calls; so what the run `Task2` checks of five philosophers or three
readers holds of any number. Each step of `Task2` is a step of one program and
leaves the variables of the others alone:

* `NeighboursExclude`: `Spec => []NeighboursNeverEat`. It follows from which
  forks a philosopher holds at each step (`HasForks`), which with the type is
  inductive; the even-odd order of picking up matters for deadlock only, which
  TLC checks.
* `ItemsInOrder`: `Spec => []BufferInOrder`. The buffer has room when the
  producer puts, and an item when the consumer takes, because it has tested that
  under the mutex which it still has (`BufferLocked`, `Tested`); waking up
  proves nothing.
* `WritersAlone`: `Spec => []WritersExclude`. The semaphore is acquired by one
  reader and released by another, so that no thread can be said to hold it.
  `Semaphore` says that it is taken exactly when some readers share it or one
  writer has it; `Counted`, that `readCount` is the number of those readers;
  `CountLocked`, that the count changes under the mutex; `Writes`, that a writer
  stores what nobody has changed since it was loaded.
* `ChairsAgree`: `Spec => []ChairsBalance`. With the types it is inductive as it
  stands: every step takes one customer or signal out of one of its sums and
  puts it in another.
* `CallersWereToldRight` and `ServiceIsBitChat`: `Spec => []AnswersHold` and
  `Spec => CallsAreSequential`, the refinement of `BitChat`. A call stores in a
  later step than it reads; `Current` says that what it has read still is so,
  since only the thread with the mutex is in a call (`CallLocked`).

### Assumptions, and what is only model-checked

The assumptions are those of the modules: `NodeAssumption` (nodes hold at least
one cell and one key; in the code 340 and 510), `BPlusTreeAssumption` and
`TableAssumption` (keys are numbers, rows fit a page), `PageSizeAssumption`,
`RowHeapAssumption`, `CatalogAssumption`, and `Task2Assumption`, which is the
conjunction of those of the five programs. TLC evaluates them in the runs.

Only model-checked are:

* the part of `RangesAgree` of `Table` that speaks of the rows below every moved
  key, once a row was moved. `RangesAgreeUntilMoved` has all of it before that, and
  `QueriesReturnLiveRows` its first half (nothing but rows of the range) after it too.
  The index then has two entries of one key, which a split may put on both sides
  of a separator, so that the tree is in order below the smallest moved key and
  not above it; the regions of `Searchable` do not say that.
* `StatementUnderstood`, `CutMeansLess`, `AnswerComplete` and `AnswerOrdered` of
  `Query`: the parser and the tokenizer are recursive operators over a line, and
  the properties speak of lines that were rendered from statements, by induction
  over both, of which the proof system has none.
* `RedBlackShape`, `BTreeShape`, `LeavesListKeys` and `FindsWhatWasGiven` (the
  refinement of `Dictionary`) of `Task3`: the trees are nested data or walked by
  recursion.
* `UpdateEnds`, `ThreadsEnd` and `FixEnds`: liveness under fairness, which the
  proof system does not handle.

## Not modelled

* The log: written after each statement and read by nobody (`recover` is commented
  out in the executor's constructor).
* Transactions and the legacy row format: not called.
* `trim` and the functions of `Table` that nothing calls (`update_by_id`, `update_all`,
  `delete_where`, `exists_by_id`). `rebuild_index` is called by `create_table` only,
  before the table has a schema: it finds no primary key, empties the leaf on page 1
  and returns. For a new file that is the state the table modules begin in; of a
  file that a lost catalog entry left behind, the rows stay (`Catalog`), and the
  nodes behind page 1 are not looked at.
* Updates to a value that the column's type cannot hold (`table.cpp:957-961`): they
  leave every row as it is, as an update of no row does. Such values are not among
  `Values`.
* The bytes of rows, keys and schemas, and of a page: a write behind the end of an
  over-full node is not visible. The text of answers and errors.
* Failures of reads and writes, other than the removal of a file: the pager does
  not look at them. A page is written as a whole.
* `.help`, `.tables` and the reading of a line in the shell.
* `search` of `B-Tree.cpp`, which asks a tree for a key only when it has no node.
* What a vector or an array of the Task-3 trees holds behind its n-th entry: no
  insert reads it.

## Plan

In this order; the first sixteen are done.

1. `Node`, `BPlusTree` with `IndexMap`: the index alone.
2. `Heap`, `RowHeap` with `RowBag`: rows, file and kills.
3. `RowHeapProofs`: type, rows on disk, no holes.
4. `Table` with `KeyedRows`: both in one file.
5. `Catalog`: create, drop and kills.
6. `Tokenizer`, `Parser`, `Query`: a line from its symbols to its answer.
7. The programs of Task-2, composed in `Task2`; `BitChat` as the promise of
   `ChatService`.
8. `CatalogProofs`: the catalog is current, rows fit, tables come back,
   restarts change nothing.
9. The trees of Task-3, with `Dictionary`, in `Task3`.
10. `Task2Proofs`: the programs of Task-2 for any number of threads, one by one and
    in the composition.
11. Counters, updates and `RowBag` for `RowHeap`.
12. `NodeProofs`, `TreeProofs`, `BPlusTreeProofs`: entries, order, lookups and the
    leaf chain.
13. `TableProofs`: kills, pointers, definedness.
14. Unique keys and `KeyedRows` for `Table`.
15. `RangesCompleteUntilDamaged` from an order on the regions along the leaf chain.
16. `RangesAgree` from the invariants of 15, for the index of a table, until an
    update moves a row.
17. The rest of `RangesAgree`, by regions that hold below the smallest moved key.
18. `RedBlackShape` by an invariant on the pointers.
19. The row format as a pair of functions on bytes.
