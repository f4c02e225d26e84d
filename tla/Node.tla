-------------------------------- MODULE Node --------------------------------
(***************************************************************************)
(* The B+ tree node code of BitBase (storage/btree/node.cpp) as operators  *)
(* over a page map.                                                        *)
(*                                                                         *)
(* A page map pg is a function from page numbers to page contents.  Only   *)
(* pages whose type is "leaf" or "internal" are B+ tree nodes; whoever     *)
(* uses this module puts other kinds of page in the same map, because the  *)
(* code does: nodes and rows share one file.  Page 0 is the metadata page, *)
(* so that page number 0 doubles as "no next leaf" and as the value of a   *)
(* child slot that was never written.                                      *)
(*                                                                         *)
(* Leaf cells and the keys of an internal node are sequences: what lies    *)
(* behind num_cells / num_keys is never read again.  That is not true of   *)
(* the child slots: internal_insert's append case exposes a slot that it   *)
(* does not write, so an internal node keeps its whole slot array.         *)
(*                                                                         *)
(* A definition marked "Fault" is no part of the model: it is a plausible  *)
(* bug in the definition after it, which some property has to catch        *)
(* (PROJECT.json, mutants).                                                *)
(***************************************************************************)
EXTENDS Integers, Sequences, FiniteSets
LOCAL INSTANCE SequencesExt

CONSTANTS
    LEAF_NODE_MAX_CELLS,      \* cells of a full leaf (340 in the code)
    INTERNAL_NODE_MAX_KEYS    \* keys an internal node may keep (510)

ASSUME NodeAssumption ==
    /\ LEAF_NODE_MAX_CELLS \in Nat \ {0}
    /\ INTERNAL_NODE_MAX_KEYS \in Nat \ {0}

\* Op(e), with e evaluated once.
Once(e, Op(_)) == CHOOSE r \in {Op(x) : x \in {e}} : TRUE

META_PAGE == 0

\* A node holds MAX_KEYS + 1 keys between internal_insert and internal_split.
ChildSlots == 0 .. INTERNAL_NODE_MAX_KEYS + 1

\* Fault: a leaf that is written again forgets its next leaf.
LeafUnlinked(cells, next) == [type |-> "leaf", cells |-> cells, next |-> 0]

Leaf(cells, next) == [type |-> "leaf", cells |-> cells, next |-> next]

Internal(keys, child, right) ==
    [type |-> "internal", keys |-> keys, child |-> child, right |-> right]

IsLeaf(node) == node.type = "leaf"
IsInternal(node) == node.type = "internal"

initialize_leaf_node == Leaf(<< >>, 0)

-----------------------------------------------------------------------------
(* Inside one node *)

\* Fault: the comparison is turned around.
leaf_findLarger(cells, key) ==
    Cardinality({i \in DOMAIN cells : cells[i].key > key})

\* Lower bound: the number of cells whose key is smaller.
leaf_find(cells, key) == Cardinality({i \in DOMAIN cells : cells[i].key < key})

\* Fault: a key equal to a separator goes to the left of it.
SeparatorsBelow(node, key) ==
    Cardinality({i \in DOMAIN node.keys : node.keys[i] < key})

\* Upper bound: the number of separators that do not exceed key.
Separators(node, key) ==
    Cardinality({i \in DOMAIN node.keys : node.keys[i] <= key})

internal_find_child(node, key) ==
    LET i == Separators(node, key)
    IN  IF i = Len(node.keys) THEN node.right ELSE node.child[i]

\* The binary search for an equal key.  With two cells of one key, which of
\* them it hits depends on where they lie, so the search itself is kept.
\* The result is an index into cells, 0 when there is none.
leaf_search(cells, key) ==
    LET Bounds == 0 .. Len(cells)
        search[w \in Bounds \X Bounds] ==
            LET left  == w[1]
                right == w[2]
                mid   == (left + right) \div 2
                k     == cells[mid + 1].key
            IN  IF left >= right THEN 0
                ELSE IF k = key THEN mid + 1
                ELSE IF k < key THEN search[<< mid + 1, right >>]
                ELSE search[<< left, mid >>]
    IN  search[<< 0, Len(cells) >>]

leaf_insert(cells, key, value) ==
    InsertAt(cells, leaf_find(cells, key) + 1, [key |-> key, value |-> value])

\* In the append case (i = n) only right_child is written: the page that was
\* right_child until now is not saved in child slot n.
internal_insert(node, key, right_child_page) ==
    LET n == Len(node.keys)
        i == Separators(node, key)
        keys == InsertAt(node.keys, i + 1, key)
    IN  IF i = n
        THEN Internal(keys, node.child, right_child_page)
        ELSE Internal(keys,
                      [c \in ChildSlots |->
                          IF c \in i + 2 .. n + 1 THEN node.child[c - 1]
                          ELSE IF c = i + 1 THEN right_child_page
                          ELSE node.child[c]],
                      node.right)

\* The append case forgets the old right child, unless the slot it exposes
\* happens to hold it (as internal_split leaves it).  A history value.
LosesChild(node, key) ==
    LET n == Len(node.keys)
    IN  Separators(node, key) = n /\ node.child[n] # node.right

-----------------------------------------------------------------------------
(* Splits.  Each returns the page map, num_pages and a SplitResult, like    *)
(* the code does through pager and its return value.  A new node takes page *)
(* number num_pages, the counter the row heap grows by as well.             *)

NoSplit == [did_split |-> FALSE, key |-> 0, new_page |-> 0]

Outcome(pg, num_pages, split, lost) ==
    [pg |-> pg, num_pages |-> num_pages, split |-> split, lost |-> lost]

leaf_split_and_insert(pg, num_pages, page_num, key, value) ==
    LET old   == pg[page_num]
        all   == leaf_insert(old.cells, key, value)
        split == (Len(all) + 1) \div 2
        right == SubSeq(all, split + 1, Len(all))
    IN  Outcome([pg EXCEPT
                    ![page_num]  = Leaf(SubSeq(all, 1, split), num_pages),
                    ![num_pages] = Leaf(right, old.next)],
                num_pages + 1,
                [did_split |-> TRUE, key |-> right[1].key,
                 new_page |-> num_pages],
                FALSE)

internal_split(pg, num_pages, page_num) ==
    LET old == pg[page_num]
        n   == Len(old.keys)
        mid == n \div 2
    IN  Outcome([pg EXCEPT
                    ![page_num]  = Internal(SubSeq(old.keys, 1, mid),
                                            old.child, old.child[mid]),
                    ![num_pages] =
                        Internal(SubSeq(old.keys, mid + 2, n),
                                 [c \in ChildSlots |->
                                     IF c < n - mid - 1
                                     THEN old.child[mid + 1 + c] ELSE 0],
                                 old.right)],
                num_pages + 1,
                [did_split |-> TRUE, key |-> old.keys[mid + 1],
                 new_page |-> num_pages],
                FALSE)

-----------------------------------------------------------------------------
(* Descents *)

\* The pages met when next is applied to first again and again.
Walk(pg, first, next) ==
    LET at[d \in 1 .. Cardinality(DOMAIN pg)] ==
            IF d = 1 THEN first ELSE next[at[d - 1]]
    IN  [d \in 1 .. Cardinality(DOMAIN pg) |-> at[d]]

\* The pages from the root to the page the descent for key ends at.  That is
\* a leaf, unless a child slot led to a page that is not a node.  (A descent in
\* a circle would end at an internal node.)
Path(pg, root_page, key) ==
    Once(Walk(pg, root_page,
              [p \in DOMAIN pg |-> IF IsInternal(pg[p])
                                   THEN internal_find_child(pg[p], key) ELSE p]),
         LAMBDA walk :
             SubSeq(walk, 1,
                    1 + Cardinality({d \in DOMAIN walk : d + 1 \in DOMAIN walk
                                                         /\ IsInternal(pg[walk[d]])})))

btree_find_leaf(pg, root_page, key) == Last(Path(pg, root_page, key))

\* The code reads whatever page the descent ends at as a node.  On a page that
\* is none (the metadata page, a page of rows) what it does is undefined.
DescentDefined(pg, root_page, key) ==
    \E p \in {btree_find_leaf(pg, root_page, key)} :
        p \in DOMAIN pg /\ IsLeaf(pg[p])

\* The value found for key, as a set of at most one element.
btree_find(pg, root_page, key) ==
    Once(pg[btree_find_leaf(pg, root_page, key)].cells,
         LAMBDA cells : {cells[i].value : i \in {leaf_search(cells, key)} \ {0}})

find_leftmost_leaf(pg, root_page) ==
    Last(Walk(pg, root_page,
              [p \in DOMAIN pg |->
                  IF IsInternal(pg[p]) THEN pg[p].child[0] ELSE p]))

-----------------------------------------------------------------------------
(* Insertion and deletion *)

\* At the leaf: in it, or in the two that take its place.
insert_at_leaf(pg, num_pages, leaf, key, value) ==
    IF Len(pg[leaf].cells) < LEAF_NODE_MAX_CELLS
    THEN Outcome([pg EXCEPT ![leaf].cells = leaf_insert(@, key, value)],
                 num_pages, NoSplit, FALSE)
    ELSE leaf_split_and_insert(pg, num_pages, leaf, key, value)

\* At the internal node page, with what came of the insertion below it.
insert_above(below, page) ==
    LET node == internal_insert(below.pg[page], below.split.key,
                                below.split.new_page)
        with == [below.pg EXCEPT ![page] = node]
        lost == below.lost \/ LosesChild(below.pg[page], below.split.key)
    IN  IF ~below.split.did_split THEN below
        ELSE IF Len(node.keys) > INTERNAL_NODE_MAX_KEYS
        THEN [internal_split(with, below.num_pages, page) EXCEPT !.lost = lost]
        ELSE Outcome(with, below.num_pages, NoSplit, lost)

\* At the node where the path is d long, after what is below it.
btree_insert(pg, num_pages, root_page, key, value) ==
    Once(Path(pg, root_page, key),
         LAMBDA path :
             LET out[d \in 1 .. Len(path)] ==
                     IF d = Len(path)
                     THEN insert_at_leaf(pg, num_pages, path[d], key, value)
                     ELSE insert_above(out[d + 1], path[d])
             IN  out[1])

\* Faults: the halves change places; the right child is not set.
create_new_rootSwapped(pg, num_pages, old_root_page, right_page, separator_key) ==
    [pg EXCEPT ![num_pages] =
        Internal(<< separator_key >>,
                 [c \in ChildSlots |-> IF c = 0 THEN right_page ELSE 0],
                 old_root_page)]

create_new_rootHalf(pg, num_pages, old_root_page, right_page, separator_key) ==
    [pg EXCEPT ![num_pages] =
        Internal(<< separator_key >>,
                 [c \in ChildSlots |-> IF c = 0 THEN old_root_page ELSE 0], 0)]

create_new_root(pg, num_pages, old_root_page, right_page, separator_key) ==
    [pg EXCEPT ![num_pages] =
        Internal(<< separator_key >>,
                 [c \in ChildSlots |-> IF c = 0 THEN old_root_page ELSE 0],
                 right_page)]

\* What Table::insert does with the result: a split of the root makes a new
\* root.  A page number past the file's limit ends the process (get_page), so
\* the caller looks at num_pages before it uses the rest.
index_insert(pg, num_pages, root_page, key, value) ==
    Once(btree_insert(pg, num_pages, root_page, key, value),
         LAMBDA out :
             IF out.split.did_split
             THEN [pg |-> create_new_root(out.pg, out.num_pages, root_page,
                                          out.split.new_page, out.split.key),
                   num_pages |-> out.num_pages + 1,
                   root_page |-> out.num_pages, lost |-> out.lost]
             ELSE [pg |-> out.pg, num_pages |-> out.num_pages,
                   root_page |-> root_page, lost |-> out.lost])

\* The cells at the places, in their order.
Picked(cells, places) ==
    LET kept[n \in 0 .. Len(cells)] ==
            IF n = 0 THEN << >>
            ELSE IF n \in places THEN Append(kept[n - 1], cells[n])
            ELSE kept[n - 1]
    IN  kept[Len(cells)]

\* leaf_delete removes the first cell of key and is repeated until there is none
\* left: the cells of other keys stay, in their order.
leaf_delete(cells, key) == Picked(cells, {i \in DOMAIN cells : cells[i].key # key})

\* Fault: the cells behind a deleted one are cut off.
delete_from_indexCut(pg, root_page, key) ==
    [pg EXCEPT ![btree_find_leaf(pg, root_page, key)].cells =
        SubSeq(@, 1, leaf_find(@, key))]

\* btree_delete at the leaf of the descent, as often as Table::delete_by_id
\* repeats it.
delete_from_index(pg, root_page, key) ==
    [pg EXCEPT ![btree_find_leaf(pg, root_page, key)].cells = leaf_delete(@, key)]

-----------------------------------------------------------------------------
(* The leaf chain *)

Chain(pg, first) ==
    Once(Walk(pg, first,
              [p \in DOMAIN pg |-> IF IsLeaf(pg[p]) THEN pg[p].next ELSE 0]),
         LAMBDA walk : SubSeq(walk, 1, Cardinality({d \in DOMAIN walk : walk[d] # 0})))

ChainCells(pg, first) ==
    Once(Chain(pg, first),
         LAMBDA pages : FlattenSeq([i \in DOMAIN pages |-> pg[pages[i]].cells]))

\* Table::range_query and, with lo = hi, Table::find_all_by_id: from the leaf
\* the descent for lo ends at, along the chain, up to the first larger key.
RangeCells(pg, root_page, lo, hi) ==
    Once(ChainCells(pg, btree_find_leaf(pg, root_page, lo)),
         LAMBDA cells :
             LET stop == CHOOSE i \in 1 .. Len(cells) + 1 :
                            /\ i \in DOMAIN cells => cells[i].key > hi
                            /\ \A j \in 1 .. i - 1 : cells[j].key <= hi
             IN  Picked(cells, {i \in 1 .. stop - 1 : cells[i].key >= lo}))
=============================================================================
