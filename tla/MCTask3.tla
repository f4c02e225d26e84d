------------------------------ MODULE MCTask3 -------------------------------
(* Instances of Task3 for TLC. *)
EXTENDS Task3

\* A second value for a key of either half shows an update; the fix does not
\* look at values.
MCPairs == (RedBlackKeys \X {1}) \cup {<< 3, 2 >>, << 6, 2 >>}
=============================================================================
