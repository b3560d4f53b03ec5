----------------------------- MODULE IteratorState -----------------------------
(***************************************************************************)
(* Where iterators are and what they have passed, which is what the model  *)
(* of the code and what iterators promise have in common.                  *)
(***************************************************************************)
EXTENDS Integers, Sequences

CONSTANT Iterators   \* callers, with one iterator each

\* cursors[i] is the iterator of caller i.  phase: "none", "at" the leaf page with
\* its guard, "moving" to next without one, "ended" on the last leaf, or stopped
\* for one of several reasons.  sought: keys there since the iterator was made;
\* passed: the keys on the leaves it came to, in this order.
VARIABLE cursors

HasGuard(c) == c.phase \in {"at", "ended"}

Latched == {cursors[i].page : i \in {j \in Iterators : HasGuard(cursors[j])}}

Ascending(s) == \A n \in 1..(Len(s) - 1) : s[n] < s[n + 1]

--------------------------------------------------------------------------------
(* Properties                                                              *)

\* The leaves that an iterator comes to hold ascending keys, none of them
\* twice, although leaves are split behind it and before it.
PassesInOrder == \A i \in Iterators : Ascending(cursors[i].passed)

\* At its end an iterator has come to every key that was there all the time.
PassesEveryKey ==
    \A i \in Iterators : cursors[i].phase = "ended" =>
        \A k \in cursors[i].sought : \E n \in DOMAIN cursors[i].passed : cursors[i].passed[n] = k
================================================================================
