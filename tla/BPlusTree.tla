------------------------------- MODULE BPlusTree -------------------------------
(***************************************************************************)
(* Insert, Get and Delete of one B+ tree.  bPlusTreeMutex excludes all     *)
(* others during an Insert or a Delete, so each is one step.               *)
(***************************************************************************)
EXTENDS TreeOps, FiniteSetsExt

CONSTANTS Keys, Values,
          Deletable,    \* the keys that are ever deleted
          MaxPageId,    \* bound on page ids
          MaxFailAt,    \* the call that fails is one of 1..MaxFailAt
          Reopens       \* whether the tree may be closed and opened again

ASSUME KeysAssumption == Keys \subseteq Nat /\ Deletable \subseteq Keys
ASSUME MaxPageIdAssumption == MaxPageId \in Nat
ASSUME SizesAssumption == KeySize \in Nat /\ ValueSize \in [Values -> Nat]
ASSUME MaxFailAtAssumption == MaxFailAt \in Nat
ASSUME ReopensAssumption == Reopens \in BOOLEAN

VARIABLES
    pages,                \* content of each page; 0 is the metadata page
    rootNodePageId,       \* 0: the tree has no root yet
    firstLeafNodePageId,
    lastPageId,           \* highest page id handed out by the disk manager
    freePageIds,          \* the disk manager's free list
    status,               \* "open", "panicked"
    acknowledged          \* acknowledged[k]: value of the last successful Insert

vars == <<pages, rootNodePageId, firstLeafNodePageId, lastPageId, freePageIds, status, acknowledged>>

PageIds == 1..MaxPageId

\* The new pages that one Insert may need at most, in trees of this size.
MaxNewPages == 4

Init ==
    /\ pages = [p \in {0} \cup PageIds |-> EmptyPage]
    /\ rootNodePageId = 0
    /\ firstLeafNodePageId = 0
    /\ lastPageId = 0
    /\ freePageIds = <<>>
    /\ status = "open"
    /\ acknowledged = [k \in Keys |-> NoValue]

--------------------------------------------------------------------------------
(* Operations                                                              *)

\* Bound: the model stops at a page that holds internal elements and is typed
\* as a leaf, and at one whose elements and slots overlap.
Decodable == \A p \in PageIds : ~Untyped(pages[p]) /\ ~Overlaps(pages[p])

\* What the calls have changed, failed or not, is what Insert leaves.
Finish(t, k, v) ==
    /\ pages' = t.pages
    /\ rootNodePageId' = t.root
    /\ firstLeafNodePageId' = t.first
    /\ lastPageId' = t.last
    /\ freePageIds' = t.free
    /\ status' = IF t.outcome = "panic" THEN "panicked" ELSE "open"
    /\ acknowledged' = IF Ok(t) THEN [acknowledged EXCEPT ![k] = v] ELSE acknowledged

Insert(k, v) ==
    /\ status = "open"
    /\ Decodable
    /\ lastPageId + MaxNewPages <= MaxPageId
    /\ \E failAt \in 0..MaxFailAt :
          Finish(InsertSteps(StartAt(pages, rootNodePageId, firstLeafNodePageId, lastPageId,
                                     freePageIds, failAt), LeafElement(k, v)), k, v)

Get(k) == Lookup(pages, rootNodePageId, k)

\* Delete of a key that is found; else it returns an error and changes nothing.
Delete(k) ==
    LET leaf == LeafFor(pages, rootNodePageId, k)
    IN /\ status = "open"
       /\ Decodable
       /\ rootNodePageId # 0
       /\ FindValue(pages[leaf], k) # NoValue
       /\ pages' = [pages EXCEPT ![leaf] = DeleteElement(@, k)]
       /\ acknowledged' = [acknowledged EXCEPT ![k] = NoValue]
       /\ UNCHANGED <<rootNodePageId, firstLeafNodePageId, lastPageId, freePageIds, status>>

\* Close stores the root and the first leaf in the metadata; NewBPlusTree loads
\* the root.
Reopen ==
    /\ Reopens
    /\ status = "open"
    /\ firstLeafNodePageId' = 0
    /\ UNCHANGED <<pages, rootNodePageId, lastPageId, freePageIds, status, acknowledged>>

Next ==
    \/ \E k \in Keys, v \in Values : Insert(k, v)
    \/ \E k \in Deletable : Delete(k)
    \/ Reopen

Spec == Init /\ [][Next]_vars

--------------------------------------------------------------------------------
(* Properties                                                              *)

TypeOK ==
    /\ rootNodePageId \in {0} \cup PageIds
    /\ firstLeafNodePageId \in {0} \cup PageIds
    /\ lastPageId \in 0..MaxPageId
    /\ Range(freePageIds) \subseteq PageIds
    /\ status \in {"open", "panicked"}
    /\ acknowledged \in [Keys -> Values \cup {NoValue}]
    /\ DOMAIN pages = {0} \cup PageIds
    /\ \A p \in DOMAIN pages :
        /\ pages[p].next \in {0} \cup PageIds
        /\ pages[p].garbageSize \in 0..PageSize
        /\ pages[p].freeSpaceEnd \in 0..PageSize
        /\ LET els == Elements(pages[p]) IN \A i \in DOMAIN els : els[i].key \in Keys

\* Every key has the value of its last successful Insert, or none after a
\* Delete, whatever splits, updates and compactions came between.
LookupMatches == \A k \in Keys : Get(k) = acknowledged[k]

RECURSIVE LeavesOf(_)
LeavesOf(p) ==
    IF HoldsValues(pages[p]) THEN <<p>>
    ELSE LET children == Children(pages[p])
         IN FlattenSeq([i \in DOMAIN children |-> LeavesOf(children[i])])

\* Of the tree at p: keys ascend within lo..hi-1, an element's right page is the
\* next one's left page, and separators bound the subtrees between them.
RECURSIVE InOrder(_, _, _)
InOrder(p, lo, hi) ==
    LET els == Elements(pages[p])
        n == Len(els)
        bound(i) == IF i = 0 THEN lo ELSE IF i = n + 1 THEN hi ELSE els[i].key
    IN /\ \A i \in 1..n : lo <= els[i].key /\ els[i].key < hi
       /\ \A i \in 1..(n - 1) : els[i].key < els[i + 1].key
       /\ HoldsValues(pages[p]) \/
            /\ \A i \in 1..(n - 1) : els[i].right = els[i + 1].left
            /\ LET children == Children(pages[p])
               IN \A i \in 1..(n + 1) : InOrder(children[i], bound(i - 1), bound(i))

\* Splits keep the tree in order.  Checked on what the pages hold, not on their
\* type, so it covers the split of internal nodes as well.
TreeInOrder == rootNodePageId # 0 => InOrder(rootNodePageId, 0, Max(Keys) + 1)

RECURSIVE ChainFrom(_, _)
ChainFrom(p, n) == IF p = 0 \/ n = 0 THEN <<>> ELSE <<p>> \o ChainFrom(pages[p].next, n - 1)

\* The sibling links visit every leaf of the tree once, from left to right.
SiblingsInOrder ==
    rootNodePageId # 0 =>
        LET leaves == LeavesOf(rootNodePageId)
        IN ChainFrom(leaves[1], MaxPageId) = leaves

--------------------------------------------------------------------------------
(* The tree implements OrderedLeaves: the bound of a leaf is the separator *)
(* before it.                                                              *)

LiveElements(page) ==
    {page.slots[i].element : i \in {j \in DOMAIN page.slots : ~page.slots[j].deleted}}

RECURSIVE BoundsFrom(_, _)
BoundsFrom(p, lo) ==
    IF HoldsValues(pages[p]) THEN {<<p, lo>>}
    ELSE BoundsFrom(Elements(pages[p])[1].left, lo)
            \cup UNION {BoundsFrom(e.right, e.key) : e \in LiveElements(pages[p])}

Bounds == IF rootNodePageId = 0 THEN {} ELSE BoundsFrom(rootNodePageId, 0)

LeafPages == {b[1] : b \in Bounds}

LowsIn(bounds) == [p \in {b[1] : b \in bounds} |-> (CHOOSE b \in bounds : b[1] = p)[2]]

Lows == CHOOSE lows \in {LowsIn(bounds) : bounds \in {Bounds}} : TRUE

EntriesOn(page) ==
    [k \in {e.key : e \in LiveElements(page)} |-> (CHOOSE e \in LiveElements(page) : e.key = k).value]

Ordered == INSTANCE OrderedLeaves WITH
    low <- Lows,
    entries <- [p \in LeafPages |-> EntriesOn(pages[p])],
    next <- [p \in LeafPages |-> pages[p].next],
    first <- firstLeafNodePageId

\* Insert and Delete change the leaves as OrderedLeaves allows: a split hands the
\* upper part of one leaf's range to a new leaf that is linked after it, and the
\* nodes above lead to every leaf with the bounds that its range has.
ImplementsOrderedLeaves == Ordered!LeafSpec

\* The header accounts for every byte: elements and slots do not meet, and what
\* lies between the free space and the live elements is the garbage that a
\* compaction reclaims.
SpaceAccounted ==
    \A p \in PageIds :
        LET page == pages[p]
            live == Live(page)
            used == SumOf([i \in DOMAIN live |-> ElementSize(live[i].element)])
            dead == Len(page.slots) - Len(live)
        IN /\ ~Overlaps(page)
           /\ PageSize - page.freeSpaceEnd - used = page.garbageSize - SlotSize * dead

\* Every page is in the tree or in the free list, and no page is in both.
PagesAccounted ==
    LET tree == IF rootNodePageId = 0 THEN {} ELSE PagesOf(pages, rootNodePageId)
    IN /\ tree \cup Range(freePageIds) = 1..lastPageId
       /\ tree \cap Range(freePageIds) = {}

\* A split never indexes past the elements of the node.
SplitNeverPanics == status # "panicked"
================================================================================
