------------------------------ MODULE IndexMap ------------------------------
(***************************************************************************)
(* What the primary-key index promises to the table that uses it: it is a  *)
(* map from keys to row pointers that changes one key at a time.  Remove   *)
(* may leave the map as it is, since delete_by_id reports a key that its   *)
(* descent does not find as absent.                                        *)
(***************************************************************************)
CONSTANTS Keys, RowPointers

VARIABLE entries

Entry == [key : Keys, value : RowPointers]

KeyIn(key) == \E e \in entries : e.key = key

Init == entries = {}

Put(key, value) ==
    /\ ~KeyIn(key)
    /\ entries' = entries \cup {[key |-> key, value |-> value]}

Remove(key) == entries' = {e \in entries : e.key # key}

Next ==
    \E key \in Keys :
        \/ \E value \in RowPointers : Put(key, value)
        \/ Remove(key)

Spec == Init /\ [][Next]_entries
=============================================================================
