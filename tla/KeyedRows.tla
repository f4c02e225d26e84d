----------------------------- MODULE KeyedRows ------------------------------
(***************************************************************************)
(* What a table with a primary key promises to the session that uses it,   *)
(* until it is damaged: a set of rows of which no two have one key, and    *)
(* which changes a row at a time.  What a DELETE removes is not promised:  *)
(* a row may stay that the index does not lead to.                         *)
(***************************************************************************)
CONSTANTS Keys, Values

VARIABLES rows, answer, intact

KeyIn(key) == \E row \in rows : row.key = key

Init == rows = {} /\ answer = "none" /\ intact = TRUE

Insert(row) ==
    /\ ~KeyIn(row.key)
    /\ rows' = rows \cup {row}
    /\ answer' = "inserted"

Reject ==
    /\ rows # {}
    /\ answer' = "duplicate"
    /\ UNCHANGED rows

Change(row, v) ==
    /\ rows' = (rows \ {row}) \cup {[key |-> row.key, val |-> v]}
    /\ answer' = "none"

Remove(row) == rows' = rows \ {row} /\ answer' = "none"

Clear == rows' = {} /\ answer' = "none"

Read == answer' = "none" /\ UNCHANGED rows

Next ==
    \/ /\ intact
       /\ intact'
       /\ \/ \E key \in Keys, v \in Values : Insert([key |-> key, val |-> v])
          \/ Reject
          \/ \E row \in rows : Remove(row) \/ \E v \in Values : Change(row, v)
          \/ Clear
          \/ Read
    \/ ~intact'

Spec == Init /\ [][Next]_<< rows, answer, intact >>
=============================================================================
