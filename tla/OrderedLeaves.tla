----------------------------- MODULE OrderedLeaves -----------------------------
(***************************************************************************)
(* What a B+ tree promises of its leaves, whatever nodes are above them.   *)
(* Every leaf has a range of keys, from its own bound to that of the next  *)
(* leaf, and holds the keys of its range that have values.  An insertion   *)
(* may split the leaf: a new leaf takes the upper part of its range.       *)
(***************************************************************************)
EXTENDS Integers, FiniteSets

CONSTANTS Keys, Values, NoValue,
          PageIds   \* 0 is not one of them

VARIABLES
    low,           \* low[p]: the lower bound of leaf p; its domain is the set of leaves
    entries,       \* entries[p][k]: the value of a key on leaf p
    next,          \* next[p]: the leaf after p, or 0
    first,         \* the leaf where iterators start, 0 without leaves
    acknowledged   \* acknowledged[k]: the value last inserted, or NoValue

leafVars == <<low, entries, next, first, acknowledged>>

Leaves == DOMAIN low

\* Key k belongs on leaf p.
Covers(p, k) == low[p] <= k /\ (next[p] # 0 => k < low[next[p]])

NoLeaves == [p \in {} |-> 0]

Init ==
    /\ low = NoLeaves
    /\ entries = NoLeaves
    /\ next = NoLeaves
    /\ first = 0
    /\ acknowledged = [k \in Keys |-> NoValue]

--------------------------------------------------------------------------------

\* f with the value y at x.
Put(f, x, y) == [z \in DOMAIN f \cup {x} |-> IF z = x THEN y ELSE f[z]]

Below(f, m) == [k \in {j \in DOMAIN f : j < m} |-> f[k]]
From(f, m) == [k \in {j \in DOMAIN f : m <= j} |-> f[k]]
Without(f, x) == [k \in DOMAIN f \ {x} |-> f[k]]

Acknowledge(k, v) == acknowledged' = [acknowledged EXCEPT ![k] = v]

\* The first insertion makes the first leaf.
InsertFirst(p, k, v) ==
    /\ first' = p
    /\ Acknowledge(k, v)
    /\ Leaves = {}
    /\ low' = Put(low, p, 0)
    /\ entries' = Put(entries, p, Put(NoLeaves, k, v))
    /\ next' = Put(next, p, 0)

Store(p, k, v) ==
    /\ entries' = [entries EXCEPT ![p] = Put(@, k, v)]
    /\ UNCHANGED <<low, next>>

\* The keys from m on go to the new leaf q, which comes after p.
SplitAndStore(p, q, m, k, v) ==
    LET all == Put(entries[p], k, v)
    IN /\ low' = Put(low, q, m)
       /\ low[p] < m
       /\ Covers(p, m)
       /\ entries' = Put([entries EXCEPT ![p] = Below(all, m)], q, From(all, m))
       /\ next' = Put([next EXCEPT ![p] = q], q, next[p])

InsertAt(p, k, v) ==
    /\ Acknowledge(k, v)
    /\ Covers(p, k)
    /\ Store(p, k, v) \/ \E q \in PageIds \ Leaves, m \in Keys : SplitAndStore(p, q, m, k, v)
    /\ UNCHANGED first

DeleteAt(p, k) ==
    /\ Acknowledge(k, NoValue)
    /\ k \in DOMAIN entries[p]
    /\ entries' = [entries EXCEPT ![p] = Without(@, k)]
    /\ UNCHANGED <<low, next, first>>

Next ==
    \/ \E p \in PageIds, k \in Keys, v \in Values : InsertFirst(p, k, v)
    \/ \E p \in Leaves, k \in Keys, v \in Values : InsertAt(p, k, v)
    \/ \E p \in Leaves, k \in Keys : DeleteAt(p, k)

LeafSpec == Init /\ [][Next]_leafVars

--------------------------------------------------------------------------------
(* Properties                                                              *)

\* What the theorems assume of the constants.
ProperConstants == Keys \subseteq Nat /\ 0 \notin PageIds /\ NoValue \notin Values

TypeOK ==
    /\ Leaves \subseteq PageIds
    /\ low \in [Leaves -> Nat]
    /\ DOMAIN entries = Leaves
    /\ \A p \in Leaves : DOMAIN entries[p] \subseteq Keys /\ IsFiniteSet(DOMAIN entries[p])
    /\ next \in [Leaves -> Leaves \cup {0}]
    /\ first \in Leaves \cup {0}
    /\ acknowledged \in [Keys -> Values \cup {NoValue}]

\* The links go from each leaf to the one with the next greater bound, and from
\* the first leaf to all of them.
LinksInOrder ==
    /\ Leaves # {} => first \in Leaves /\ low[first] = 0
    /\ \A p \in Leaves : next[p] # 0 => low[p] < low[next[p]]
    /\ \A p, q \in Leaves : low[p] < low[q] => next[p] # 0 /\ low[next[p]] <= low[q]
    /\ \A p, q \in Leaves : low[p] = low[q] => p = q

\* A leaf holds keys of its range only.
KeysInRange == \A p \in Leaves : \A k \in DOMAIN entries[p] : Covers(p, k)

\* A key has one value at most, on one leaf: the value that was inserted last.
ValuesKept ==
    \A k \in Keys :
        /\ acknowledged[k] # NoValue => \E p \in Leaves : k \in DOMAIN entries[p]
        /\ \A p \in Leaves : k \in DOMAIN entries[p] =>
              acknowledged[k] # NoValue /\ entries[p][k] = acknowledged[k]

LeavesInv == TypeOK /\ LinksInOrder /\ KeysInRange /\ ValuesKept

\* What a search that ends on leaf p finds.
ValueAt(p, k) == IF k \in DOMAIN entries[p] THEN entries[p][k] ELSE NoValue

\* Every key belongs on one leaf, and a search that ends there finds the value
\* that was inserted last, or none after a deletion, whatever was split.
SearchesAgree ==
    \A k \in Keys :
        /\ Leaves # {} => \E p \in Leaves : Covers(p, k)
        /\ \A p, q \in Leaves : Covers(p, k) /\ Covers(q, k) => p = q
        /\ \A p \in Leaves : Covers(p, k) => ValueAt(p, k) = acknowledged[k]
================================================================================
