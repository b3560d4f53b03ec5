------------------------------ MODULE MCBPlusTree ------------------------------
(* Keys and sizes for the model checker.                                   *)
EXTENDS BPlusTree

Keys4 == 1..4
Keys5 == 1..5
Keys10 == 1..10

NoKeys == {}

\* Sizes of values.  With keys of 12 bytes three elements of 1000 bytes fill a
\* leaf; with keys of 700 bytes three elements of 500 bytes do, and five
\* elements fill an internal node.
Bytes1000 == [v \in Values |-> 1000]
Bytes500 == [v \in Values |-> 500]

\* Three elements leave room for a fourth, but not for its slot.
Bytes997 == [v \in Values |-> 997]

\* Two elements fill a leaf.
Bytes1900 == [v \in Values |-> 1900]

\* One value is short, the others are long.
ShortAndLong == LET short == CHOOSE v \in Values : TRUE
                IN [v \in Values |-> IF v = short THEN 500 ELSE 1000]
================================================================================
