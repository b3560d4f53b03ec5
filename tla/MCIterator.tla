------------------------------- MODULE MCIterator -------------------------------
(* Keys and sizes for the model checker.                                   *)
EXTENDS Iterator

Keys4 == 1..4
Keys5 == 1..5
Keys6 == 1..6

\* Three elements fill a leaf.
Bytes1000 == [v \in Values |-> 1000]
=================================================================================
