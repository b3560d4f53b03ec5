---------------------------- MODULE MCStorageEngine ----------------------------
(* Plans and sizes for the model checker.                                  *)
EXTENDS StorageEngine

CONSTANTS short, long

Keys10 == 1..10
Trees1 == 1..1
Trees2 == 1..2

AlwaysLogged == {TRUE}
Entry(t, k, v) == [tree |-> t, key |-> k, value |-> v]

\* With keys of 700 bytes four elements with long values fill a leaf, and five
\* elements fill an internal node.
Sizes == (short :> 200) @@ (long :> 300)

\* Descending keys split the leftmost leaf each time, and the tenth splits the
\* internal root.
Deep == [trees |-> 1, inserts |-> [n \in 1..10 |-> {Entry(1, 11 - n, long)}],
         deletes |-> {}, reads |-> {}, restarts |-> 1]

\* A value is updated in place or grows, before and after the root is split.
Updates == [trees |-> 1,
            inserts |-> << {Entry(1, 1, short)}, {Entry(1, 2, long)}, {Entry(1, 3, long)},
                           {Entry(1, 1, long), Entry(1, 2, short)},
                           {Entry(1, 4, long), Entry(1, 1, short)} >>,
            deletes |-> {}, reads |-> {}, restarts |-> 2]

\* Two trees take turns.  The key that is deleted is not inserted again.
TwoTrees == [trees |-> 2,
             inserts |-> << {Entry(1, 1, short)}, {Entry(2, 2, long)},
                            {Entry(1, 1, long), Entry(2, 1, short)} >>,
             deletes |-> {2}, reads |-> {1}, restarts |-> 2]

SequentialPlans == {Deep, Updates, TwoTrees}

\* Two insertions into one tree, or one into each of two trees.
SameTree == {[trees |-> 1, inserts |-> << {Entry(1, 1, short)}, {Entry(1, 2, short)} >>,
              deletes |-> {}, reads |-> {}, restarts |-> 1]}
OtherTree == {[trees |-> 2, inserts |-> << {Entry(1, 1, short)}, {Entry(2, 2, short)} >>,
               deletes |-> {}, reads |-> {}, restarts |-> 1]}

\* A deletion from a leaf that is split later, and one of a key that is inserted again.
DeleteAndSplit == {[trees |-> 1, inserts |-> [n \in 1..6 |-> {Entry(1, n, long)}],
                    deletes |-> {2}, reads |-> {}, restarts |-> 1]}
DeleteAndInsert == {[trees |-> 1, inserts |-> << {Entry(1, 1, short)}, {Entry(1, 1, long)} >>,
                     deletes |-> {1}, reads |-> {}, restarts |-> 1]}

\* The last update has room only once the leaf is compacted.
CompactedUpdate == {[trees |-> 1,
                     inserts |-> << {Entry(1, 1, short)}, {Entry(1, 2, short)}, {Entry(1, 3, short)},
                                    {Entry(1, 1, long)}, {Entry(1, 2, long)} >>,
                     deletes |-> {}, reads |-> {}, restarts |-> 1]}

\* Writing Begin and Commit may fail.
SometimesLogged == {TRUE, FALSE}
================================================================================
