---------------------------- MODULE RedBlackTree ----------------------------
(***************************************************************************)
(* Red_Black_Trees.cpp: a tree of nodes with pointers to their children    *)
(* and parents.  A node is named by its key, which no other node has.      *)
(* The descent of insert is one step, each turn of the loop in fixInsert   *)
(* another, so that the properties also speak of the tree between them.    *)
(***************************************************************************)
EXTENDS Integers, Sequences, FiniteSets

CONSTANTS
    Keys,
    Vals,
    Pairs,   \* the keys and values that insert commands give
    NULL     \* the pointer that points nowhere

RedBlackAssumption ==
    /\ Keys \subseteq Int
    /\ Vals \subseteq Int
    /\ Pairs \subseteq Keys \X Vals
    /\ NULL \notin Keys

VARIABLES
    tree,    \* the nodes by key, and the root
    z        \* the node fixInsert is at, NULL between two commands

vars == << tree, z >>

NotFound == -1

Opposite(side) == IF side = "left" THEN "right" ELSE "left"

Init == tree = [node |-> << >>, root |-> NULL] /\ z = NULL

-----------------------------------------------------------------------------
(* Looking for a key *)

Child(t, n, key) == IF key < n THEN t.node[n].left ELSE t.node[n].right

\* The node with the key in the tree below n, or NULL.
findNode(t, key) ==
    LET below[n \in DOMAIN t.node \cup {NULL}] ==
            IF n \in {NULL, key} THEN n ELSE below[Child(t, n, key)]
    IN  below[t.root]

find(t, key) ==
    IF findNode(t, key) = NULL THEN NotFound ELSE t.node[key].val

\* The node that a new key is hung under.
ParentFor(t, key) ==
    LET below[n \in DOMAIN t.node \cup {NULL}] ==
            IF n = NULL \/ Child(t, n, key) = NULL THEN n
            ELSE below[Child(t, n, key)]
    IN  below[t.root]

\* The keys that print lists, in its order.
inorder(t) ==
    LET below[n \in DOMAIN t.node \cup {NULL}] ==
            IF n = NULL THEN << >>
            ELSE below[t.node[n].left] \o << n >> \o below[t.node[n].right]
    IN  below[t.root]

-----------------------------------------------------------------------------
(* Rotations *)

\* Fault: the inner subtree of y is not handed to x.
RotateDropping(t, x, side) ==
    LET y == t.node[x][Opposite(side)]
        p == t.node[x].parent
        turned == [t.node EXCEPT ![x][Opposite(side)] = NULL, ![x].parent = y,
                                 ![y][side] = x, ![y].parent = p]
    IN  IF p = NULL THEN [node |-> turned, root |-> y]
        ELSE [t EXCEPT !.node =
                 [turned EXCEPT
                     ![p][IF t.node[p].left = x THEN "left" ELSE "right"] = y]]

\* leftRotate and rightRotate: x goes down to the given side, its other child
\* y takes its place, and the subtree between them changes hands.
Rotate(t, x, side) ==
    LET y == t.node[x][Opposite(side)]
        inner == t.node[y][side]
        p == t.node[x].parent
        turned == [t.node EXCEPT ![x][Opposite(side)] = inner, ![x].parent = y,
                                 ![y][side] = x, ![y].parent = p]
        handed == IF inner = NULL THEN turned ELSE [turned EXCEPT ![inner].parent = x]
    IN  IF p = NULL THEN [node |-> handed, root |-> y]
        ELSE [t EXCEPT !.node =
                 [handed EXCEPT
                     ![p][IF t.node[p].left = x THEN "left" ELSE "right"] = y]]

Paint(t, n, color) == [t EXCEPT !.node[n].color = color]

-----------------------------------------------------------------------------
(* insert *)

NewNode(val, parent) ==
    [val |-> val, color |-> "RED", left |-> NULL, right |-> NULL, parent |-> parent]

Linked(t, key, val) ==
    LET p == ParentFor(t, key)
        nodes == [n \in DOMAIN t.node \cup {key} |->
                     IF n = key THEN NewNode(val, p) ELSE t.node[n]]
    IN  IF p = NULL THEN [node |-> nodes, root |-> key]
        ELSE [t EXCEPT !.node =
                 [nodes EXCEPT ![p][IF key < p THEN "left" ELSE "right"] = key]]

Insert(key, val) ==
    /\ z = NULL
    /\ findNode(tree, key) = NULL
    /\ tree' = Linked(tree, key, val)
    /\ z' = key

Update(key, val) ==
    /\ z = NULL
    /\ findNode(tree, key) # NULL
    /\ tree' = [tree EXCEPT !.node[key].val = val]
    /\ UNCHANGED z

\* A node's color; there is none to be red where there is no node.
IsRed(t, n) == n # NULL /\ t.node[n].color = "RED"

Parent(n) == tree.node[n].parent
Grand == Parent(Parent(z))
Side == IF Parent(z) = tree.node[Grand].left THEN "left" ELSE "right"
Uncle == tree.node[Grand][Opposite(Side)]

Looping == z # NULL /\ IsRed(tree, Parent(z))

\* A red uncle: the two generations change colors, and the trouble moves up.
FixRecolor ==
    /\ Looping
    /\ IsRed(tree, Uncle)
    /\ tree' = Paint(Paint(Paint(tree, Parent(z), "BLACK"), Uncle, "BLACK"),
                     Grand, "RED")
    /\ z' = Grand

\* Fault: z stays behind when its parent is rotated below it.
FixRotateBehind ==
    /\ Looping
    /\ ~IsRed(tree, Uncle)
    /\ LET inner == z = tree.node[Parent(z)][Opposite(Side)]
           outer == IF inner THEN Rotate(tree, Parent(z), Side) ELSE tree
       IN  tree' = Rotate(Paint(Paint(outer, outer.node[z].parent, "BLACK"),
                                Grand, "RED"),
                          Grand, Opposite(Side))
    /\ UNCHANGED z

\* Fault: an inner child is not rotated to the outside first.
FixRotateOnce ==
    /\ Looping
    /\ ~IsRed(tree, Uncle)
    /\ tree' = Rotate(Paint(Paint(tree, Parent(z), "BLACK"), Grand, "RED"),
                      Grand, Opposite(Side))
    /\ UNCHANGED z

\* No red uncle: an inner child is rotated to the outside, then the parent
\* takes the grandparent's place.
FixRotate ==
    /\ Looping
    /\ ~IsRed(tree, Uncle)
    /\ LET inner == z = tree.node[Parent(z)][Opposite(Side)]
           low   == IF inner THEN Parent(z) ELSE z
           outer == IF inner THEN Rotate(tree, low, Side) ELSE tree
       IN  /\ tree' = Rotate(Paint(Paint(outer, outer.node[low].parent, "BLACK"),
                                   Grand, "RED"),
                             Grand, Opposite(Side))
           /\ z' = low

FixEnd ==
    /\ z # NULL
    /\ ~Looping
    /\ tree' = Paint(tree, tree.root, "BLACK")
    /\ z' = NULL

Next ==
    \/ \E pair \in Pairs : Insert(pair[1], pair[2]) \/ Update(pair[1], pair[2])
    \/ FixRecolor
    \/ FixRotate
    \/ FixEnd

Spec == Init /\ [][Next]_vars

-----------------------------------------------------------------------------
(* Properties *)

Nodes == DOMAIN tree.node

\* The numbers of black nodes on the ways from the root to the bottom.
BlackHeights ==
    LET below[n \in Nodes \cup {NULL}] ==
            IF n = NULL THEN {0}
            ELSE LET heights == below[tree.node[n].left] \cup below[tree.node[n].right]
                 IN  IF IsRed(tree, n) THEN heights ELSE {h + 1 : h \in heights}
    IN  below[tree.root]

\* Children know their parent and every node hangs under the root.
PointersAgree ==
    /\ \A n \in Nodes :
          /\ tree.node[n].parent = NULL <=> n = tree.root
          /\ \A side \in {"left", "right"} :
                tree.node[n][side] # NULL => Parent(tree.node[n][side]) = n
    /\ Len(inorder(tree)) = Cardinality(Nodes)

\* All ways down have the same number of black nodes, also between the steps
\* of a fix.  A red node has a red parent, and the root is red, only where the
\* fix is; between two commands, nowhere (fixInsert).
RedBlackShape ==
    /\ PointersAgree
    /\ Cardinality(BlackHeights) = 1
    /\ \A n \in Nodes \ {z} :
          IsRed(tree, n) => n # tree.root /\ ~IsRed(tree, Parent(n))

\* What is found is what was given, at each step of a fix too: rotations and
\* colors change the answer for no key.
Map == INSTANCE Dictionary WITH dict <- [k \in Keys |-> find(tree, k)]
FindsWhatWasGiven == Map!Spec
=============================================================================
