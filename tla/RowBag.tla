------------------------------- MODULE RowBag -------------------------------
(***************************************************************************)
(* What a table without a primary key promises to the session that uses    *)
(* it: a bag of rows.  An insert that is answered with success adds its    *)
(* row; an update changes rows one at a time and neither loses nor doubles *)
(* one; a delete removes what it matches; reading, closing and opening     *)
(* again change nothing.  Where nothing is promised, anything may happen.  *)
(***************************************************************************)
EXTENDS Naturals

CONSTANTS
    Values,
    Stored      \* Stored[v]: the value the column keeps for the input v

VARIABLES
    unique,     \* whether the column is declared unique
    rows,
    answer      \* what the session is told, "void" while nothing is promised

None == [v \in Values |-> 0]

Init == unique \in BOOLEAN /\ rows = None /\ answer \in {"none", "void"}

\* A UNIQUE column takes a value that no row has.
Admits(val) == unique => rows[val] = 0

Insert(v) ==
    /\ Admits(Stored[v])
    /\ rows' = [rows EXCEPT ![Stored[v]] = @ + 1]
    /\ answer' = "inserted"

\* One is refused only for a row that is there.
Reject(v) ==
    /\ unique
    /\ rows[v] > 0
    /\ answer' = "duplicate"
    /\ UNCHANGED rows

Change(v, w) ==
    /\ rows[v] > 0
    /\ v # Stored[w] => Admits(Stored[w])
    /\ rows' = [[rows EXCEPT ![v] = @ - 1] EXCEPT ![Stored[w]] = @ + 1]
    /\ answer' = "none"

Delete(S) ==
    /\ rows' = [v \in Values |-> IF v \in S THEN 0 ELSE rows[v]]
    /\ answer' = "none"

Read == answer' = "none" /\ UNCHANGED rows

Void == answer' = "void"

Step ==
    \/ \E v \in Values : Insert(v) \/ Reject(v)
    \/ \E v, w \in Values : Change(v, w)
    \/ \E S \in SUBSET Values : Delete(S)
    \/ Read
    \/ Void

Next == Step /\ UNCHANGED unique

Spec == Init /\ [][Next]_<< unique, rows, answer >>
=============================================================================
