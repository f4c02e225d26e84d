----------------------------- MODULE BPlusTree ------------------------------
(***************************************************************************)
(* The primary-key index of one table: the B+ tree of node.cpp as the      *)
(* Table constructor creates it, Table::insert fills it, delete_by_id      *)
(* empties it and a restart of the program finds it again.  Here the file  *)
(* holds nothing but the index; Table.tla adds the rows.                   *)
(*                                                                         *)
(* A key is inserted only when it is absent: Table::insert has compared it *)
(* with every row before (Table.tla models the one path around that).      *)
(***************************************************************************)
EXTENDS Node
LOCAL INSTANCE SequencesExt

CONSTANTS
    Keys,              \* primary keys, u32 in the code
    PointersOf,        \* for each key, where its row may be stored
    TABLE_MAX_PAGES    \* the page number at which get_page ends the process

ASSUME BPlusTreeAssumption ==
    /\ Keys \subseteq Nat
    /\ DOMAIN PointersOf = Keys
    /\ TABLE_MAX_PAGES \in Nat
    /\ TABLE_MAX_PAGES >= 2

VARIABLES
    page,         \* the file's pages, as the pager hands them out
    num_pages,    \* Pager::num_pages
    root_page,    \* Table::root_page, which is in memory only
    status,       \* "running"; "exit" once get_page ended the process;
                  \* "undefined" once the code read a page that is no node
    damage        \* history: which of the two known defects have struck

vars == << page, num_pages, root_page, status, damage >>

PageNums == 0 .. TABLE_MAX_PAGES - 1
Running == status = "running"

\* What the leaves hold (LeafChainComplete: which is what the chain holds).
Entries == UNION {ToSet(page[p].cells) : p \in {q \in PageNums : IsLeaf(page[q])}}
Present(key) == \E e \in Entries : e.key = key

-----------------------------------------------------------------------------

Init ==
    /\ page = [p \in PageNums |->
                  IF p = META_PAGE THEN [type |-> "meta"]
                  ELSE IF p = 1 THEN initialize_leaf_node
                  ELSE [type |-> "zero"]]
    /\ num_pages = 2
    /\ root_page = 1
    /\ status = "running"
    /\ damage = {}

Undefined(key) ==
    /\ ~DescentDefined(page, root_page, key)
    /\ status' = "undefined"
    /\ UNCHANGED << page, num_pages, root_page, damage >>

Insert(key, value) ==
    /\ Running
    /\ ~Present(key)
    /\ \/ Undefined(key)
       \/ /\ DescentDefined(page, root_page, key)
          /\ \E out \in {index_insert(page, num_pages, root_page, key, value)} :
                 IF out.num_pages > TABLE_MAX_PAGES
                 THEN /\ status' = "exit"
                      /\ UNCHANGED << page, num_pages, root_page, damage >>
                 ELSE /\ page' = out.pg
                      /\ num_pages' = out.num_pages
                      /\ root_page' = out.root_page
                      /\ damage' = damage \cup
                             IF out.lost THEN {"lost_child"} ELSE {}
                      /\ UNCHANGED status

Delete(key) ==
    /\ Running
    /\ \/ Undefined(key)
       \/ /\ DescentDefined(page, root_page, key)
          /\ btree_find(page, root_page, key) # {}
          /\ page' = delete_from_index(page, root_page, key)
          /\ UNCHANGED << num_pages, root_page, status, damage >>

\* A clean exit writes every page; the constructor that opens the file again
\* starts from root_page = 1, wherever the root was.
Reopen ==
    /\ Running
    /\ root_page' = 1
    /\ damage' = damage \cup IF root_page # 1 THEN {"stale_root"} ELSE {}
    /\ UNCHANGED << page, num_pages, status >>

Next ==
    \/ \E key \in Keys : \/ \E value \in PointersOf[key] : Insert(key, value)
                         \/ Delete(key)
    \/ Reopen

Spec == Init /\ [][Next]_vars

-----------------------------------------------------------------------------
(* Properties *)

\* No split leaves a leaf out of the chain or puts it there twice: walking
\* next_leaf from page 1 meets every leaf of the file once (node.cpp
\* leaf_split_and_insert links the new leaf behind the old one).  And the walk
\* down to the leftmost leaf ends at page 1, where scan_all_index begins: the
\* left half of a split stays where it was, and slot 0 of the leftmost spine is
\* never moved.
LeafChainComplete ==
    LET chain == Chain(page, 1)
    IN  /\ \A p \in PageNums : IsLeaf(page[p]) => \E i \in DOMAIN chain : chain[i] = p
        /\ \A i, j \in DOMAIN chain : chain[i] = chain[j] => i = j
        /\ find_leftmost_leaf(page, root_page) = 1

\* Whatever state the tree is in, a node keeps its order and its bounds, and
\* so the binary searches in it mean what they say.  A separator can come into
\* a node twice only after a child was forgotten: two nodes share a child then.
NodesInOrder ==
    \A p \in PageNums :
        /\ IsLeaf(page[p]) =>
              /\ Len(page[p].cells) <= LEAF_NODE_MAX_CELLS
              /\ \A i, j \in DOMAIN page[p].cells :
                    i < j => page[p].cells[i].key < page[p].cells[j].key
        /\ IsInternal(page[p]) =>
              /\ Len(page[p].keys) <= INTERNAL_NODE_MAX_KEYS
              /\ \A i, j \in DOMAIN page[p].keys :
                    i < j => \/ page[p].keys[i] < page[p].keys[j]
                             \/ /\ page[p].keys[i] = page[p].keys[j]
                                /\ "lost_child" \in damage

\* Point lookup: btree_find returns the pointer of every key in the index.
LookupsComplete ==
    \A e \in Entries :
        /\ DescentDefined(page, root_page, e.key)
        /\ btree_find(page, root_page, e.key) = {e.value}

\* Range lookup: range_query returns the entries between its bounds, each
\* once, in key order.
RangesComplete ==
    LET entries == Entries
    IN  \A lo \in Keys : \A hi \in {k \in Keys : k >= lo} :
            LET found == RangeCells(page, root_page, lo, hi)
            IN  /\ {found[i] : i \in DOMAIN found} =
                       {e \in entries : e.key \in lo .. hi}
                /\ \A i \in 2 .. Len(found) : found[i - 1].key < found[i].key

\* Exactly two things can make the index lose sight of a key: an append to an
\* internal node that forgets its right child (node.cpp:217-221) and a restart
\* that forgets where the root is (table.h:21).  Until one of them happens,
\* every sequence of inserts, splits and deletes leaves the lookups complete.
LookupsCompleteUntilDamaged == damage = {} => LookupsComplete

\* The same for range queries, for which a restart is harmless until the next
\* insert.
RangesCompleteUntilDamaged == damage = {} => RangesComplete

\* A descent never leaves the tree until a right child was forgotten.
DescentsDefinedUntilLost ==
    "lost_child" \notin damage =>
        \A key \in Keys : DescentDefined(page, root_page, key)

RowPointers == UNION {PointersOf[key] : key \in Keys}
Index == INSTANCE IndexMap WITH entries <- Entries

\* Splits, new roots, forgotten children and restarts move entries between
\* pages, but the chain as a whole changes one key at a time: no entry is
\* dropped, doubled or altered by an operation on another key.
ChangesOneKey == Index!Spec

\* Readme.md:288-290: a reload does not rebuild the index "because the B+ tree
\* pages are already persisted": if no child was forgotten, lookups should be
\* complete after any restart.
LookupsSurviveReopen == "lost_child" \notin damage => LookupsComplete

\* Readme.md:320-321: insert puts the key "into the B+ tree, splitting/creating
\* a new root as needed".  Without any restart lookups should be complete.
LookupsSurviveSplits == "stale_root" \notin damage => LookupsComplete
=============================================================================
