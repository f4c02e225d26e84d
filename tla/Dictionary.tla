----------------------------- MODULE Dictionary -----------------------------
(***************************************************************************)
(* What Red_Black_Trees.cpp promises to its user: the last value given to  *)
(* a key is found, and no other key is changed by giving it.               *)
(***************************************************************************)
EXTENDS Integers

CONSTANTS Keys, Vals

VARIABLE dict

NotFound == -1     \* what find prints for a key that is not there

Init == dict = [k \in Keys |-> NotFound]

Put(k, v) == dict' = [dict EXCEPT ![k] = v]

Next == \E k \in Keys, v \in Vals : Put(k, v)

Spec == Init /\ [][Next]_dict
=============================================================================
