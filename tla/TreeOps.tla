-------------------------------- MODULE TreeOps --------------------------------
(***************************************************************************)
(* What Insert, Get and Delete of a B+ tree do to its pages.               *)
(*                                                                         *)
(* An insertion computes its result in a record t: the pages and ids it    *)
(* has changed so far, the guards it holds, and its steps, in the order of *)
(* the code: pages fetched, records written to the log with the pages that *)
(* they describe, guards released.  Calls to the buffer pool and to the    *)
(* log are counted, and call number failAt returns an error; then what was *)
(* changed before it remains.                                              *)
(***************************************************************************)
EXTENDS NodePage

--------------------------------------------------------------------------------
(* Calls to the buffer pool and to the log                                 *)

StartAt(pages, root, first, last, free, failAt) ==
    [pages |-> pages, root |-> root, first |-> first, last |-> last, free |-> free,
     calls |-> 0, failAt |-> failAt, outcome |-> "ok", extra |-> <<>>,
     guards |-> {}, steps |-> <<>>]

Ok(t) == t.outcome = "ok"

\* One more call, made if all before it succeeded.
Call(t) ==
    IF ~Ok(t) THEN t
    ELSE [t EXCEPT !.calls = @ + 1, !.outcome = IF t.failAt = t.calls + 1 THEN "error" ELSE "ok"]

\* NewWriteGuard of page p.  stamp: SetLSN follows, with the LSN of the record
\* that was written last.
AfterFetch(t, p, stamp) ==
    IF ~Ok(t) THEN t
    ELSE [t EXCEPT !.guards = @ \cup {p},
                   !.steps = Append(@, [do |-> "fetch", page |-> p, stamp |-> stamp])]

Fetch(t, p) == AfterFetch(Call(t), p, FALSE)

\* Mutant of Release: the guard is kept.
ReleaseNot(t, p) == t

\* Done of page p, if the operation got a guard of it.
Release(t, p) ==
    IF p \notin t.guards THEN t
    ELSE [t EXCEPT !.guards = @ \ {p}, !.steps = Append(@, [do |-> "done", page |-> p])]

\* A record is written to the log; then the pages it describes get its LSN
\* and their new content.
AfterLog(t, record, content) ==
    IF ~Ok(t) THEN t
    ELSE [t EXCEPT !.pages = content @@ @,
                   !.steps = Append(@, [do |-> "log", record |-> record, content |-> content])]

Log(t, record, content) == AfterLog(Call(t), record, content)

\* A page changed without a record, when the record could not be written.
RewriteIfFailed(t, p, page) ==
    IF Ok(t) \/ t.pages[p] = page THEN t
    ELSE [t EXCEPT !.pages[p] = page,
                   !.steps = Append(@, [do |-> "write", page |-> p, content |-> page])]

NoPages == [p \in {} |-> EmptyPage]

NextPageId(t) == IF t.free = <<>> THEN t.last + 1 ELSE Head(t.free)

\* AllocationSource of the next page.
Source(t) == IF t.free = <<>> THEN "expansion" ELSE "free list"

TakePageId(t) ==
    IF ~Ok(t) THEN t
    ELSE IF t.free = <<>> THEN [t EXCEPT !.last = @ + 1]
    ELSE [t EXCEPT !.free = Tail(@)]

NewPage(t) == TakePageId(Call(t))

\* CleanupPage of p, after a call that has failed.
CleanupIfFailed(t, p) == IF Ok(t) THEN t ELSE [t EXCEPT !.free = Append(@, p)]

\* NewWriteGuard of the new page p; CleanupPage when it fails.
GuardNewPage(t, p) == IF Ok(t) THEN CleanupIfFailed(Fetch(t, p), p) ELSE t

--------------------------------------------------------------------------------
(* Records of the log                                                      *)

CreateRecord(p, isLeaf, source) ==
    [op |-> "CreatePage", page |-> p, isLeaf |-> isLeaf, source |-> source]

FirstLeafRecord(p) == [op |-> "UpdateFirstLeafNodePageId", page |-> p]
RootRecord(p) == [op |-> "UpdateRootNodePageId", page |-> p]

InsertLeafRecord(p, element) == [op |-> "InsertLeafNodeEntry", page |-> p, element |-> element]
UpdateLeafRecord(p, element) == [op |-> "UpdateLeafNodeEntry", page |-> p, element |-> element]
InsertInternalRecord(p, element) == [op |-> "InsertInternalNodeEntry", page |-> p, element |-> element]

\* EncodeAllElements, and DecodeAllSlotsAndElements: slots of the elements' own sizes.
EncodedSlots(page) ==
    LET els == Elements(page)
    IN [i \in DOMAIN els |-> [element |-> els[i], size |-> ElementSize(els[i]), deleted |-> FALSE]]

SplitLeafRecord(p, right, index, page, element) ==
    [op |-> "SplitLeafNode", page |-> p, right |-> right, index |-> index, next |-> page.next,
     element |-> element, slots |-> EncodedSlots(page)]

SplitInternalRecord(p, right, index, page, element) ==
    [op |-> "SplitInternalNode", page |-> p, right |-> right, index |-> index,
     element |-> element, slots |-> EncodedSlots(page)]

\* NewPage p, its NewWriteGuard and its log record, in a split.
CreatePage(t, p, isLeaf, page) ==
    Log(GuardNewPage(NewPage(t), p), CreateRecord(p, isLeaf, Source(t)), p :> page)

--------------------------------------------------------------------------------
(* Splits.  t.extra is the element for the parent that writeTraversal      *)
(* returns: <<>> when there is none.                                       *)

Panic(t) == IF Ok(t) THEN [t EXCEPT !.outcome = "panic"] ELSE t

SetExtra(t, element) == IF Ok(t) THEN [t EXCEPT !.extra = <<element>>] ELSE t

\* HandleLeafNodeSplit of page p at index, with the element that did not fit,
\* once the new page right is there.
SplitLeafInto(t, p, right, element, index) ==
    IF ~Ok(t) THEN t
    ELSE LET record == SplitLeafRecord(p, right, index, t.pages[p], element)
         IN IF SplitPanics(t.pages[p], index) THEN Panic(Log(t, record, NoPages))
            ELSE LET halves == LeafHalves(t.pages[p], index, t.pages[right], right, element)
                 IN SetExtra(Log(t, record, (p :> halves[1]) @@ (right :> halves[2])),
                             InternalElement(SplitKey(t.pages[p], index), p, right))

HandleLeafNodeSplit(t, p, element) ==
    LET right == NextPageId(t)
    IN Release(SplitLeafInto(CreatePage(t, right, TRUE, t.pages[right]), p, right, element,
                             FindSplitIndex(t.pages[p])), right)

\* HandleInternalNodeSplit.  The type of the new page is not set; the parent
\* gets the LSN of the split.
SplitInternalInto(t, p, parent, right, element, index) ==
    IF ~Ok(t) THEN t
    ELSE LET record == SplitInternalRecord(p, right, index, t.pages[p], element)
         IN IF SplitPanics(t.pages[p], index) THEN Panic(Log(t, record, NoPages))
            ELSE LET halves == InternalHalves(t.pages[p], index, t.pages[right], right, element)
                 IN SetExtra(Log(t, record, (p :> halves[1]) @@ (right :> halves[2])
                                                @@ (parent :> t.pages[parent])),
                             InternalElement(SplitKey(t.pages[p], index), p, right))

HandleInternalNodeSplit(t, p, parent, element) ==
    LET right == NextPageId(t)
    IN Release(SplitInternalInto(CreatePage(t, right, FALSE, t.pages[right]), p, parent, right, element,
                                 FindSplitIndex(t.pages[p])), right)

\* The parent at page p takes the element.
LinkChild(t, p, page) ==
    IF ~Ok(t) THEN t
    ELSE [Log(t, InsertInternalRecord(p, t.extra[1]), p :> InsertChild(page, t.extra[1]))
            EXCEPT !.extra = <<>>]

\* Mutant of SetRoot: the tree keeps its old root.
SetRootNot(t, root) == t

SetRoot(t, root) == IF Ok(t) THEN [t EXCEPT !.root = root] ELSE t

\* The new root takes the element that the split of the old one returns.
LinkNewRoot(t, root) ==
    Release(SetRoot(Log(LinkChild(t, root, t.pages[root]), RootRecord(root), NoPages), root), root)

HandleLeafRootNodeSplit(t, p, element) ==
    LET root == NextPageId(t)
    IN LinkNewRoot(HandleLeafNodeSplit(CreatePage(t, root, FALSE, SetInternalType(t.pages[root])),
                                       p, element), root)

\* HandleInternalRootNodeSplit.  The type of the new root is not set.
HandleInternalRootNodeSplit(t, p, element) ==
    LET root == NextPageId(t)
    IN LinkNewRoot(HandleInternalNodeSplit(CreatePage(t, root, FALSE, t.pages[root]),
                                           p, root, element), root)

--------------------------------------------------------------------------------
(* Insert                                                                  *)

SplitLeaf(t, p, element) ==
    IF t.root = p THEN HandleLeafRootNodeSplit(t, p, element) ELSE HandleLeafNodeSplit(t, p, element)

\* The value is updated or inserted.  When the record cannot be written, the
\* page stays as the test for space left it.
StoreInLeaf(t, p, page, element) ==
    RewriteIfFailed(
        IF FindValue(page, element.key) # NoValue
        THEN Log(t, UpdateLeafRecord(p, element), p :> SetValue(page, element.key, element.value))
        ELSE Log(t, InsertLeafRecord(p, element), p :> InsertElement(page, element)),
        p, page)

\* writeTraversal at a leaf: an update in place, a split, or an update or an
\* insertion in the free space, for which the page may have been compacted.
InsertIntoLeaf(t, p, page, element) ==
    IF FitsInPlace(page, element.key, element.value)
    THEN StoreInLeaf(t, p, page, element)
    ELSE IF HasSpace(page, ElementSize(element))
    THEN StoreInLeaf(t, p, MakeSpace(page, ElementSize(element)), element)
    ELSE SplitLeaf(t, p, element)

SplitInternal(t, p, parent, element) ==
    IF t.root = p THEN HandleInternalRootNodeSplit(t, p, element)
    ELSE HandleInternalNodeSplit(t, p, parent, element)

\* writeTraversal at an internal node, after the child.
InsertIntoInternal(t, p, parent, page) ==
    IF ~Ok(t) \/ t.extra = <<>> THEN t
    ELSE IF HasSpace(page, ElementSize(t.extra[1]))
    THEN LinkChild(t, p, MakeSpace(page, ElementSize(t.extra[1])))
    ELSE SplitInternal(t, p, parent, t.extra[1])

\* writeTraversal: down to the leaf, with a write guard of each child, and back.
RECURSIVE WriteTraversal(_, _, _, _)
WriteTraversal(t, p, parent, element) ==
    LET page == t.pages[p]
        child == FindNextChild(page, element.key)
    IN IF ~Ok(t) THEN t
       ELSE IF IsLeafNode(page) THEN InsertIntoLeaf(t, p, page, element)
       ELSE Release(InsertIntoInternal(WriteTraversal(Fetch(t, child), child, p, element),
                                       p, parent, page), child)

\* Mutant of FirstRoot: the first leaf is not recorded.
FirstRootOnly(t, p) == [t EXCEPT !.root = p]

FirstRoot(t, p) == IF Ok(t) THEN [t EXCEPT !.root = p, !.first = p] ELSE t

\* Insert makes a root if there is none: NewPage, the log record of the page,
\* its write guard and two more records, with no cleanup on failure.
MakeRoot(t, p) ==
    LET created == Log(NewPage(t), CreateRecord(p, TRUE, Source(t)), NoPages)
        guarded == AfterFetch(Call(created), p, TRUE)
    IN FirstRoot(Log(Log(guarded, FirstLeafRecord(p), NoPages), RootRecord(p), NoPages), p)

\* Else it takes the root's write guard.
EnsureRoot(t) == IF t.root = 0 THEN MakeRoot(t, NextPageId(t)) ELSE Fetch(t, t.root)

\* Commit is written before the guard of the root is released.  The guard is
\* released on every return after the root was found or made, not before.
Commit(t) == IF Ok(t) THEN [t EXCEPT !.steps = Append(@, [do |-> "commit"])] ELSE t

InsertFrom(t, element) ==
    IF Ok(t) THEN Release(Commit(WriteTraversal(t, t.root, 0, element)), t.root) ELSE t

\* Insert, from the lock of the tree to its release.
InsertSteps(t, element) == InsertFrom(EnsureRoot(t), element)

--------------------------------------------------------------------------------
(* Get and Delete                                                          *)

\* The pages from p to the leaf for k: findLeafNodePageId, and the descent of
\* readTraversal.
RECURSIVE PathTo(_, _, _)
PathTo(pages, p, k) ==
    IF IsLeafNode(pages[p]) THEN <<p>>
    ELSE <<p>> \o PathTo(pages, FindNextChild(pages[p], k), k)

LeafFor(pages, root, k) == Last(PathTo(pages, root, k))

\* Get.  Without a root it reads the metadata page, which decodes as empty.
Lookup(pages, root, k) == FindValue(pages[LeafFor(pages, root, k)], k)

--------------------------------------------------------------------------------
(* The tree that a page and the pages below it make, by what the pages     *)
(* hold, whatever their type                                               *)

HoldsValues(page) == \A i \in DOMAIN page.slots : page.slots[i].deleted \/ HoldsValue(page.slots[i].element)

\* A page with internal elements that is typed as a leaf.
Untyped(page) == page.leafType /\ ~HoldsValues(page)

Overlaps(page) == page.freeSpaceEnd < HeaderSize + SlotSize * Len(page.slots)

\* Children of an internal node, from left to right.
Children(page) ==
    LET els == Elements(page) IN <<els[1].left>> \o [i \in DOMAIN els |-> els[i].right]

RECURSIVE PagesOf(_, _)
PagesOf(pages, p) ==
    IF HoldsValues(pages[p]) THEN {p}
    ELSE {p} \cup UNION {PagesOf(pages, q) : q \in Range(Children(pages[p]))}
================================================================================
