------------------------------- MODULE NodePage --------------------------------
(***************************************************************************)
(* The slotted pages of B+ tree nodes, as LeafNodeCodec, InternalNodeCodec *)
(* and HeaderCodec change them.  A page keeps its slots in key order; each *)
(* slot has its element, the size the slot records for it and whether the  *)
(* element was deleted (its bytes are never read again).  Free space lies  *)
(* between the slots and the elements, and garbage counts the bytes that a *)
(* compaction would reclaim.                                               *)
(*                                                                         *)
(* Sizes are those of the code: bytes of a 4096-byte page.  Elements are   *)
(* not placed at addresses: a decoder reads an element from its own length *)
(* fields, so it matters only that elements and slots do not meet.         *)
(***************************************************************************)
EXTENDS Integers, SequencesExt

CONSTANTS KeySize,    \* bytes of a key
          ValueSize   \* ValueSize[v]: bytes of value v

PageSize == 4096
HeaderSize == 32
SlotSize == 4

NoValue == "no value"
NoElement == <<>>      \* of a deleted slot
Garbled == "garbled"   \* what decoding other bytes as a value gives

\* A leaf element has a value, an internal one the pages left and right of its key.
LeafElement(k, v) == [key |-> k, value |-> v]
InternalElement(k, l, r) == [key |-> k, left |-> l, right |-> r]

HoldsValue(element) == "value" \in DOMAIN element

\* calculateElementSize: length fields, key, and value or two page ids.
ElementSize(element) ==
    IF HoldsValue(element) THEN 2 + KeySize + 2 + ValueSize[element.value]
                           ELSE 2 + KeySize + 8 + 8

\* decodePageHeader of a page that was never filled.
EmptyPage ==
    [filled |-> FALSE, leafType |-> TRUE, slots |-> <<>>, freeSpaceEnd |-> PageSize,
     garbageSize |-> 0, next |-> 0, lsn |-> 0]

IsLeafNode(page) == ~page.filled \/ page.leafType

\* Of SetNodeType, for internal nodes.
SetInternalType(page) == [page EXCEPT !.leafType = FALSE]

SetLSN(page, lsn) == [page EXCEPT !.lsn = lsn]

Add(x, y) == x + y

\* getAllSlotsAndElements skips deleted elements.
Live(page) == SelectSeq(page.slots, LAMBDA s : ~s.deleted)

Elements(page) == LET live == Live(page) IN [i \in DOMAIN live |-> live[i].element]

SumOf(sizes) == FoldLeft(Add, 0, sizes)

\* isAdequate subtracts two uint16 header fields.
FreeSpace(page) == (page.freeSpaceEnd - (HeaderSize + SlotSize * Len(page.slots))) % 2^16

\* PutAllSlotsAndElements writes the elements afresh; slots keep their sizes.
PutAll(page, slots) ==
    [page EXCEPT
        !.slots = slots,
        !.freeSpaceEnd = PageSize - SumOf([i \in DOMAIN slots |-> ElementSize(slots[i].element)]),
        !.garbageSize = 0,
        !.filled = TRUE]

Compact(page) == PutAll(page, Live(page))

\* The test of HasEnoughSpaceToInsertElement and of InsertElement, and the
\* compaction that both make when only compacting gives the space.
HasSpace(page, size) == FreeSpace(page) >= size \/ size <= page.garbageSize

MakeSpace(page, size) == IF FreeSpace(page) >= size THEN page ELSE Compact(page)

\* InsertSlot: before the first element with a greater key.
InsertSlot(slots, slot) ==
    LET greater == SelectInSeq(slots, LAMBDA s : ~s.deleted /\ s.element.key > slot.element.key)
    IN InsertAt(slots, IF greater = 0 THEN Len(slots) + 1 ELSE greater, slot)

\* InsertElement: the page is left as it is when there is no space for the
\* element and a slot.  It returns false then; no caller looks.
InsertElement(page, element) ==
    LET size == ElementSize(element)
        room == MakeSpace(page, size + SlotSize)
        slot == [element |-> element, size |-> size, deleted |-> FALSE]
    IN IF HasSpace(page, size + SlotSize)
       THEN [room EXCEPT !.slots = InsertSlot(@, slot), !.freeSpaceEnd = @ - size, !.filled = TRUE]
       ELSE page

--------------------------------------------------------------------------------
(* Leaf nodes                                                              *)

\* FindValue: of the first element with the key.
FindValue(page, k) ==
    LET els == Elements(page)
        i == SelectInSeq(els, LAMBDA e : e.key = k)
    IN IF i = 0 THEN NoValue
       ELSE IF HoldsValue(els[i]) THEN els[i].value ELSE Garbled

FitsInPlace(page, k, v) ==
    LET old == FindValue(page, k) IN old # NoValue /\ ValueSize[old] >= ValueSize[v]

\* SetValue: in place, or in free space with the old element left as garbage.
\* linearSearch stops at the first key that is not less: without the key, the
\* element after it is changed.
SetValue(page, k, v) ==
    LET i == SelectInSeq(page.slots, LAMBDA s : ~s.deleted /\ s.element.key >= k)
        old == page.slots[i].element
        new == LeafElement(k, v)
    IN IF ValueSize[old.value] >= ValueSize[v]
       THEN [page EXCEPT !.slots[i].element.value = v,
                         !.garbageSize = @ + ValueSize[old.value] - ValueSize[v]]
       ELSE [page EXCEPT !.slots[i] = [element |-> new, size |-> ElementSize(new), deleted |-> FALSE],
                         !.freeSpaceEnd = @ - ElementSize(new),
                         !.garbageSize = @ + ElementSize(old)]

\* There is no such element, and its bytes are decoded all the same.
SetValuePanics(page, k) == \A e \in Range(Elements(page)) : e.key < k

\* Mutant of DeleteElement: the slot is not counted as garbage.
DeleteElementOnly(page, k) ==
    LET i == SelectInSeq(page.slots, LAMBDA s : ~s.deleted /\ s.element.key = k)
    IN IF i = 0 THEN page
       ELSE [page EXCEPT !.slots[i] = [@ EXCEPT !.deleted = TRUE, !.element = NoElement],
                         !.garbageSize = @ + page.slots[i].size]

\* DeleteElement: the slot stays, marked, until the page is compacted.
DeleteElement(page, k) ==
    LET i == SelectInSeq(page.slots, LAMBDA s : ~s.deleted /\ s.element.key = k)
    IN IF i = 0 THEN page
       ELSE [page EXCEPT !.slots[i] = [@ EXCEPT !.deleted = TRUE, !.element = NoElement],
                         !.garbageSize = @ + page.slots[i].size + SlotSize]

--------------------------------------------------------------------------------
(* Internal nodes                                                          *)

\* Mutant of FindNextChild: an equal key goes left.
FindNextChildLeft(page, k) ==
    LET els == Elements(page)
        greater == SelectInSeq(els, LAMBDA e : e.key >= k)
    IN IF els = <<>> THEN 0
       ELSE IF greater = 0 THEN Last(els).right ELSE els[greater].left

\* FindNextChildNodePageId: left of the first greater key, else right of the last.
FindNextChild(page, k) ==
    LET els == Elements(page)
        greater == SelectInSeq(els, LAMBDA e : e.key > k)
    IN IF els = <<>> THEN 0
       ELSE IF greater = 0 THEN Last(els).right ELSE els[greater].left

\* The part of InsertSlot that follows the new element: its neighbours' page ids.
Relink(slots, element) ==
    LET i == SelectInSeq(slots, LAMBDA s : s.element = element)
    IN [j \in DOMAIN slots |->
            CASE j = i + 1 -> [slots[j] EXCEPT !.element.left = element.right]
              [] j = i - 1 -> [slots[j] EXCEPT !.element.right = element.left]
              [] OTHER -> slots[j]]

\* InsertElement of an internal node; before is the page as it was.
Relinked(before, page, element) ==
    IF page = before THEN page ELSE [page EXCEPT !.slots = Relink(@, element)]

InsertChild(page, element) == Relinked(page, InsertElement(page, element), element)

--------------------------------------------------------------------------------
(* Splits                                                                  *)

\* How many elements it takes to pass half of their bytes.
PassingHalf(sizes) ==
    SelectInSeq([i \in DOMAIN sizes |-> i],
                LAMBDA i : SumOf(SubSeq(sizes, 1, i)) > SumOf(sizes) \div 2)

\* Mutant of FindSplitIndex: all of the bytes, not half.
FindSplitIndexAll(page) == Len(Live(page))

\* FindSplitNodeIndex.
FindSplitIndex(page) ==
    LET live == Live(page) IN PassingHalf([i \in DOMAIN live |-> live[i].size])

\* SplitNode indexes the element after the first index, which may not exist.
SplitPanics(page, index) == index = Len(Live(page))

SplitKey(page, index) == Elements(page)[index + 1].key

LeftHalf(page, index, rightPageId) ==
    [PutAll(page, SubSeq(Live(page), 1, index)) EXCEPT !.next = rightPageId]

\* Mutant of RightHalf: the next leaf is not handed on.
RightHalfLast(page, rightPage, from) ==
    PutAll(rightPage, SubSeq(Live(page), from, Len(Live(page))))

RightHalf(page, rightPage, from) ==
    [PutAll(rightPage, SubSeq(Live(page), from, Len(Live(page)))) EXCEPT !.next = page.next]

\* Mutant of LeafHalves: the new element always goes left.
LeafHalvesLeft(page, index, rightPage, rightPageId, element) ==
    <<InsertElement(LeftHalf(page, index, rightPageId), element),
      RightHalf(page, rightPage, index + 1)>>

\* SplitNode of a leaf, and the insertion of an element in the half for its key.
\* The element with the split key goes right.
LeafHalves(page, index, rightPage, rightPageId, element) ==
    IF element.key < SplitKey(page, index)
    THEN <<InsertElement(LeftHalf(page, index, rightPageId), element),
           RightHalf(page, rightPage, index + 1)>>
    ELSE <<LeftHalf(page, index, rightPageId),
           InsertElement(RightHalf(page, rightPage, index + 1), element)>>

\* Mutant of InternalHalves: the split key stays in the right node.
InternalHalvesKeep(page, index, rightPage, rightPageId, element) ==
    IF element.key < SplitKey(page, index)
    THEN <<InsertChild(LeftHalf(page, index, rightPageId), element),
           RightHalf(page, rightPage, index + 1)>>
    ELSE <<LeftHalf(page, index, rightPageId),
           InsertChild(RightHalf(page, rightPage, index + 1), element)>>

\* The same of an internal node: the element with the split key goes up.
InternalHalves(page, index, rightPage, rightPageId, element) ==
    IF element.key < SplitKey(page, index)
    THEN <<InsertChild(LeftHalf(page, index, rightPageId), element),
           RightHalf(page, rightPage, index + 2)>>
    ELSE <<LeftHalf(page, index, rightPageId),
           InsertChild(RightHalf(page, rightPage, index + 2), element)>>
================================================================================
