------------------------------- MODULE Task3 --------------------------------
(***************************************************************************)
(* The three search trees of tasks/Task-3.  They are programs of their     *)
(* own; program says which one runs.                                       *)
(***************************************************************************)
EXTENDS Integers, Sequences, FiniteSets

CONSTANTS
    RedBlackKeys, Vals, Pairs, NULL,     \* Red_Black_Trees.cpp
    BTreeKeys, T, BTREE_INSERTS,         \* B-Tree.cpp
    LeafKeys, ORDER, LEAF_INSERTS        \* B+Tree.cpp

VARIABLES
    program,
    tree, z,
    btreeRoot, btreeInserted,
    node, root, inserted

RedBlack == INSTANCE RedBlackTree WITH Keys <- RedBlackKeys
B == INSTANCE BTree
        WITH Keys <- BTreeKeys, INSERTS <- BTREE_INSERTS,
             root <- btreeRoot, inserted <- btreeInserted
BPlus == INSTANCE OrderedLeaves WITH Keys <- LeafKeys, INSERTS <- LEAF_INSERTS

ASSUME Task3Assumption ==
    /\ RedBlack!RedBlackAssumption
    /\ B!BTreeAssumption
    /\ BPlus!OrderedLeavesAssumption

redBlackVars == << tree, z >>
btreeVars    == << btreeRoot, btreeInserted >>
leafVars     == << node, root, inserted >>
vars == << program, redBlackVars, btreeVars, leafVars >>

Init ==
    /\ program \in {"Red_Black_Trees", "B-Tree", "B+Tree"}
    /\ RedBlack!Init /\ B!Init /\ BPlus!Init

\* The commands insert of Red_Black_Trees, of which find and print change
\* nothing, and the steps of fixInsert.
Command ==
    /\ program = "Red_Black_Trees"
    /\ \E pair \in Pairs :
          RedBlack!Insert(pair[1], pair[2]) \/ RedBlack!Update(pair[1], pair[2])
    /\ UNCHANGED << program, btreeVars, leafVars >>

Fix ==
    /\ program = "Red_Black_Trees"
    /\ RedBlack!FixRecolor \/ RedBlack!FixRotate \/ RedBlack!FixEnd
    /\ UNCHANGED << program, btreeVars, leafVars >>

InsertB(k) ==
    /\ program = "B-Tree"
    /\ B!Insert(k)
    /\ UNCHANGED << program, redBlackVars, leafVars >>

InsertBPlus(k) ==
    /\ program = "B+Tree"
    /\ BPlus!Insert(k)
    /\ UNCHANGED << program, redBlackVars, btreeVars >>

Next ==
    \/ Command
    \/ Fix
    \/ \E k \in BTreeKeys : InsertB(k)
    \/ \E k \in LeafKeys : InsertBPlus(k)

\* A command that was given is carried out; none need be given.
Spec == Init /\ [][Next]_vars /\ WF_vars(Fix)

-----------------------------------------------------------------------------
(* Properties *)

\* The tree is balanced by its colors, and what is out of order is where the
\* fix is.
RedBlackShape == RedBlack!RedBlackShape

\* Every key is found with its last value, at each step of a fix.
FindsWhatWasGiven == RedBlack!FindsWhatWasGiven

\* Every fix comes to its end (the loop of fixInsert).
FixEnds == z # NULL ~> z = NULL

\* The B-tree is balanced, filled within its bounds, in order and complete.
BTreeShape == B!BTreeShape

\* The leaves of the B+ tree list what was inserted.
LeavesListKeys == BPlus!LeavesListKeys
=============================================================================
