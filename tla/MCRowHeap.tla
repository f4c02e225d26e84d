----------------------------- MODULE MCRowHeap ------------------------------
(* Instances of RowHeap for TLC. *)
EXTENDS RowHeap

\* The inputs are numbers; a row is as large as its value says.  Two of the
\* smaller rows fill a page to the byte; one of the larger leaves no room for a
\* smaller one, but would if the size field were not counted.
MCSizes == [v \in Values |-> IF v = 1 THEN 2042 ELSE 2046]

\* A TEXT column keeps what it is given.
MCText == [v \in Values |-> v]

MCConditions == {{v} : v \in Values} \cup {Values}
=============================================================================
