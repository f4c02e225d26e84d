------------------------------ MODULE MCTable -------------------------------
(* Instances of Table for TLC. *)
EXTENDS Table

\* Two short rows fit a page, and a short and a long one to the byte; two long
\* ones do not.
MCSizes == [v \in Values |-> IF v = "short" THEN 2000 ELSE 2084]

\* WHERE on one key.
OnKey(key) == {row \in RowsPossible : row.key = key}

MCInserts == [key : Keys, val : {"short"}]
MCDeletes == {OnKey(key) : key \in Keys}
\* Any row may grow; the first one may shrink again.
MCUpdates ==
    {[where |-> OnKey(key), to |-> "long"] : key \in Keys}
        \cup {[where |-> OnKey(1), to |-> "short"]}
=============================================================================
