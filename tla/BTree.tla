------------------------------- MODULE BTree --------------------------------
(***************************************************************************)
(* B-Tree.cpp: a B-tree of minimum degree T (t in the code, 3 in its main).*)
(* A node is its keys and its children in order, and a leaf one without    *)
(* children.  What the slots behind the n-th key still hold is left out,   *)
(* as insert reads none of them.                                           *)
(***************************************************************************)
EXTENDS Integers, Sequences, FiniteSets, SequencesExt

CONSTANTS
    Keys,
    T,           \* the minimum degree: T - 1 to 2 * T - 1 keys a node
    INSERTS      \* bound of the model: how many keys are inserted

BTreeAssumption ==
    /\ Keys \subseteq Int
    /\ T \in Nat /\ T >= 2
    /\ INSERTS \in Nat

VARIABLES
    root,        \* the tree, or << >> while the pointer is NULL
    inserted     \* history: how often each key was inserted

vars == << root, inserted >>

Node(keys, children) == [keys |-> keys, children |-> children]
IsLeaf(node) == node.children = << >>
Full(node) == Len(node.keys) = 2 * T - 1

\* How many of the keys are not larger than k: where the loop of insertNonFull
\* that comes from the right stops.
NotLarger(keys, k) == Len(SelectSeq(keys, LAMBDA key : key <= k))

-----------------------------------------------------------------------------
(* insert *)

\* Fault: the middle key is promoted and kept.
splitChildKeep(node, i) ==
    LET tar   == node.children[i]
        upper == IF IsLeaf(tar) THEN << >> ELSE SubSeq(tar.children, T + 1, 2 * T)
        lower == IF IsLeaf(tar) THEN << >> ELSE SubSeq(tar.children, 1, T)
    IN  Node(InsertAt(node.keys, i, tar.keys[T]),
             InsertAt([node.children EXCEPT ![i] = Node(SubSeq(tar.keys, 1, T), lower)],
                      i + 1, Node(SubSeq(tar.keys, T + 1, 2 * T - 1), upper)))

\* The i-th child, which is full, gives its upper half to a new sibling and its
\* middle key to the node.
splitChild(node, i) ==
    LET tar   == node.children[i]
        upper == IF IsLeaf(tar) THEN << >> ELSE SubSeq(tar.children, T + 1, 2 * T)
        lower == IF IsLeaf(tar) THEN << >> ELSE SubSeq(tar.children, 1, T)
    IN  Node(InsertAt(node.keys, i, tar.keys[T]),
             InsertAt([node.children EXCEPT ![i] = Node(SubSeq(tar.keys, 1, T - 1), lower)],
                      i + 1, Node(SubSeq(tar.keys, T + 1, 2 * T - 1), upper)))

\* The child that k goes to, and the node after that child was split if full.
ChildFor(node, k) ==
    LET i     == NotLarger(node.keys, k) + 1
        split == splitChild(node, i)
    IN  IF ~Full(node.children[i]) THEN [node |-> node, child |-> i]
        ELSE [node |-> split, child |-> IF split.keys[i] < k THEN i + 1 ELSE i]

RECURSIVE insertNonFull(_, _)
insertNonFull(node, k) ==
    IF IsLeaf(node)
    THEN Node(InsertAt(node.keys, NotLarger(node.keys, k) + 1, k), << >>)
    ELSE LET at == ChildFor(node, k)
         IN  [at.node EXCEPT !.children[at.child] = insertNonFull(@, k)]

\* A full root becomes the only child of a new one, and is split there.
insert(tree, k) ==
    IF tree = << >> THEN Node(<< k >>, << >>)
    ELSE insertNonFull(IF Full(tree) THEN Node(<< >>, << tree >>) ELSE tree, k)

Total == FoldFunctionOnSet(+, 0, inserted, Keys)

Insert(k) ==
    /\ Total < INSERTS
    /\ root' = insert(root, k)
    /\ inserted' = [inserted EXCEPT ![k] = @ + 1]

Init ==
    /\ root = << >>
    /\ inserted = [k \in Keys |-> 0]

Next == \E k \in Keys : Insert(k)

Spec == Init /\ [][Next]_vars

-----------------------------------------------------------------------------
(* Reading *)

\* BTreeNode::traverse: the keys in the order in which it prints them.
RECURSIVE traverseNode(_)
traverseNode(node) ==
    IF IsLeaf(node) THEN node.keys
    ELSE LET n == Len(node.keys)
             Part(i) == traverseNode(node.children[i]) \o << node.keys[i] >>
         IN  FlattenSeq([i \in 1 .. n |-> Part(i)]) \o traverseNode(node.children[n + 1])

\* BTree::traverse asks for a node only where there is none.
traverse == IF root = << >> THEN "undefined" ELSE << >>

-----------------------------------------------------------------------------
(* Properties *)

RECURSIVE Depths(_)
Depths(node) ==
    IF IsLeaf(node) THEN {1}
    ELSE {d + 1 : d \in UNION {Depths(node.children[i]) : i \in DOMAIN node.children}}

RECURSIVE Filled(_)
Filled(node) ==
    /\ Len(node.keys) <= 2 * T - 1
    /\ \/ IsLeaf(node)
       \/ /\ Len(node.children) = Len(node.keys) + 1
          /\ \A i \in DOMAIN node.children :
                /\ Len(node.children[i].keys) >= T - 1
                /\ Filled(node.children[i])

Ascending(keys) == \A i \in 1 .. Len(keys) - 1 : keys[i] <= keys[i + 1]

\* All leaves are equally deep, every node but the root has at least T - 1 and
\* at most 2 * T - 1 keys, and a walk over the tree meets every key that was
\* inserted, as often as it was, in ascending order (insertNonFull, splitChild).
BTreeShape ==
    root # << >> =>
        /\ Cardinality(Depths(root)) = 1
        /\ Filled(root)
        /\ Ascending(traverseNode(root))
        /\ \A k \in Keys : inserted[k] = Len(SelectSeq(traverseNode(root), LAMBDA key : key = k))

-----------------------------------------------------------------------------
(* What the program says and the code does not do *)

\* main prints "Traversal of the constructed tree is " (B-Tree.cpp:201) and
\* then calls BTree::traverse.
TraversePrintsKeys == root # << >> => traverse = traverseNode(root)
=============================================================================
