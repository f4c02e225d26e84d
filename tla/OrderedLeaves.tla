--------------------------- MODULE OrderedLeaves ----------------------------
(***************************************************************************)
(* B+Tree.cpp: a B+ tree in memory whose leaves are a linked list.  Nodes  *)
(* are numbered in the order in which they are made; an internal node's    *)
(* i-th child has the keys below its i-th key.  What the vectors hold      *)
(* behind the n-th key is left out, as it is never read.                   *)
(***************************************************************************)
EXTENDS Integers, Sequences, FiniteSets, SequencesExt

CONSTANTS
    Keys,
    ORDER,       \* the most children of a node, 4 in main
    INSERTS      \* bound of the model: how many keys are inserted

OrderedLeavesAssumption ==
    /\ Keys \subseteq Int
    /\ ORDER \in Nat /\ ORDER >= 3
    /\ INSERTS \in Nat

VARIABLES
    node,        \* the nodes that were made
    root,        \* the root's number, 0 while there is none
    inserted     \* history: how often each key was inserted

vars == << node, root, inserted >>

Leaf(keys, next) == [leaf |-> TRUE, keys |-> keys, next |-> next]
Internal(keys, children) == [leaf |-> FALSE, keys |-> keys, children |-> children]

\* How many of the keys are not larger than key.  In the order that nodes keep,
\* the loops of insertIntoLeaf and insertIntoInternal, which come from the
\* right, and that of insertRecursive, which comes from the left, all stop there.
NotLarger(keys, key) == Len(SelectSeq(keys, LAMBDA other : other <= key))

-----------------------------------------------------------------------------
(* insert *)

\* A split yields the key that goes up and the new right node, none the former
\* null pointer.
NoSplit(nodes) == [nodes |-> nodes, right |-> 0]
Split(nodes, up) == [nodes |-> nodes, up |-> up, right |-> Len(nodes)]

\* Fault: the new leaf is not linked behind the old one.
splitLeafUnlinked(nodes, id) ==
    LET mid  == (ORDER + 1) \div 2
        keys == nodes[id].keys
        old  == Leaf(SubSeq(keys, 1, mid), nodes[id].next)
        new  == Leaf(SubSeq(keys, mid + 1, Len(keys)), nodes[id].next)
    IN  Split(Append([nodes EXCEPT ![id] = old], new), new.keys[1])

splitLeaf(nodes, id) ==
    LET mid  == (ORDER + 1) \div 2
        keys == nodes[id].keys
        old  == Leaf(SubSeq(keys, 1, mid), Len(nodes) + 1)
        new  == Leaf(SubSeq(keys, mid + 1, Len(keys)), nodes[id].next)
    IN  Split(Append([nodes EXCEPT ![id] = old], new), new.keys[1])

\* The key that goes up is in neither half.
splitInternal(nodes, id) ==
    LET mid      == Len(nodes[id].keys) \div 2
        keys     == nodes[id].keys
        children == nodes[id].children
        old == Internal(SubSeq(keys, 1, mid), SubSeq(children, 1, mid + 1))
        new == Internal(SubSeq(keys, mid + 2, Len(keys)),
                        SubSeq(children, mid + 2, Len(children)))
    IN  Split(Append([nodes EXCEPT ![id] = old], new), keys[mid + 1])

insertIntoLeaf(nodes, id, key) ==
    [nodes EXCEPT ![id].keys = InsertAt(@, NotLarger(@, key) + 1, key)]

insertIntoInternal(nodes, id, key, right) ==
    LET i == NotLarger(nodes[id].keys, key) + 1
    IN  [nodes EXCEPT ![id].keys = InsertAt(@, i, key),
                      ![id].children = InsertAt(@, i + 1, right)]

Overfull(nodes, id) == Len(nodes[id].keys) >= ORDER

RECURSIVE insertRecursive(_, _, _)
insertRecursive(nodes, id, key) ==
    IF nodes[id].leaf
    THEN LET grown == insertIntoLeaf(nodes, id, key)
         IN  IF Overfull(grown, id) THEN splitLeaf(grown, id) ELSE NoSplit(grown)
    ELSE LET child == nodes[id].children[NotLarger(nodes[id].keys, key) + 1]
             below == insertRecursive(nodes, child, key)
             grown == insertIntoInternal(below.nodes, id, below.up, below.right)
         IN  IF below.right = 0 THEN below
             ELSE IF Overfull(grown, id) THEN splitInternal(grown, id)
             ELSE NoSplit(grown)

Total == FoldFunctionOnSet(+, 0, inserted, Keys)

InsertFirst(key) ==
    /\ root = 0
    /\ node' = << Leaf(<< key >>, 0) >>
    /\ root' = 1

InsertBelow(key) ==
    /\ root # 0
    /\ LET done == insertRecursive(node, root, key)
       IN  \/ /\ done.right = 0
              /\ node' = done.nodes
              /\ UNCHANGED root
           \/ /\ done.right # 0
              /\ node' = Append(done.nodes, Internal(<< done.up >>, << root, done.right >>))
              /\ root' = Len(node')

Insert(key) ==
    /\ Total < INSERTS
    /\ InsertFirst(key) \/ InsertBelow(key)
    /\ inserted' = [inserted EXCEPT ![key] = @ + 1]

Init ==
    /\ node = << >>
    /\ root = 0
    /\ inserted = [k \in Keys |-> 0]

Next == \E key \in Keys : Insert(key)

Spec == Init /\ [][Next]_vars

-----------------------------------------------------------------------------
(* Reading *)

RECURSIVE Leftmost(_)
Leftmost(id) == IF node[id].leaf THEN id ELSE Leftmost(node[id].children[1])

RECURSIVE Chain(_)
Chain(id) == IF id = 0 THEN << >> ELSE << id >> \o Chain(node[id].next)

\* The keys that printLeaves prints.
printLeaves ==
    IF root = 0 THEN << >>
    ELSE LET leaves == Chain(Leftmost(root))
         IN  FlattenSeq([i \in DOMAIN leaves |-> node[leaves[i]].keys])

-----------------------------------------------------------------------------
(* Properties *)

Ascending(keys) == \A i \in 1 .. Len(keys) - 1 : keys[i] <= keys[i + 1]

RECURSIVE Depths(_)
Depths(id) ==
    IF node[id].leaf THEN {1}
    ELSE {d + 1 : d \in UNION {Depths(c) : c \in Range(node[id].children)}}

\* The leaf that insert's descent takes for the key.
RECURSIVE Destination(_, _)
Destination(id, key) ==
    IF node[id].leaf THEN id
    ELSE Destination(node[id].children[NotLarger(node[id].keys, key) + 1], key)

\* All leaves are equally deep, and the list of leaves that printLeaves follows
\* has every inserted key as often as it was inserted.  Unless a key was
\* inserted twice, they come in ascending order, and every key is in the leaf
\* where the tree would put it (insertRecursive, splitLeaf, splitInternal).
LeavesListKeys ==
    root # 0 =>
        /\ Cardinality(Depths(root)) = 1
        /\ \A key \in Keys :
              inserted[key] = Len(SelectSeq(printLeaves, LAMBDA other : other = key))
        /\ (\A key \in Keys : inserted[key] <= 1) =>
              /\ Ascending(printLeaves)
              /\ \A key \in Keys : inserted[key] = 1 =>
                    key \in Range(node[Destination(root, key)].keys)

-----------------------------------------------------------------------------
(* What insert takes and does not keep in order *)

\* The leaves are in order whatever was inserted.  Not so if a key was inserted
\* twice: of two equal separators, the one for the newer leaf comes second,
\* while that leaf is linked before the other (insertIntoInternal, splitLeaf).
LeavesAlwaysInOrder == Ascending(printLeaves)
=============================================================================
