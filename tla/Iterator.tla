-------------------------------- MODULE Iterator --------------------------------
(***************************************************************************)
(* Iterators over the leaves of a B+ tree that the storage engine has open *)
(* while others insert and delete.  An iterator takes no lock of the tree: *)
(* it has a read guard of one leaf at a time, and none between two leaves. *)
(* Insert and Delete wait for the guards of the pages they write.          *)
(***************************************************************************)
EXTENDS BPlusTree, IteratorState

CONSTANTS ReadErrors,     \* whether NewReadGuard may fail in Next
          IterateClosed   \* whether callers ask for iterators of a tree that is not open

ASSUME ReadErrorsAssumption == ReadErrors \in BOOLEAN
ASSUME IterateClosedAssumption == IterateClosed \in BOOLEAN

VARIABLES
    isOpen,               \* the tree is in openBPlusTrees
    openBPlusTreesMutex   \* the caller that never gives it back, or NoCaller

iteratorVars == <<isOpen, openBPlusTreesMutex, cursors>>
allVars == <<vars, iteratorVars>>

NoCaller == "nobody"

\* A cursor stops "broken" when the guard was not got, "closed" or "hung".
\* offered: keys whose values GetValue gives.
NoCursor == [phase |-> "none", page |-> 0, next |-> 0, sought |-> {}, passed |-> <<>>, offered |-> {}]

IteratorInit ==
    /\ Init
    /\ isOpen = FALSE
    /\ openBPlusTreesMutex = NoCaller
    /\ cursors = [i \in Iterators |-> NoCursor]

--------------------------------------------------------------------------------
(* The tree                                                                *)

\* The pages whose write guards Insert and Delete need, those it creates aside.
PathIsFree(k) ==
    rootNodePageId # 0 => Latched \cap Range(PathTo(pages, rootNodePageId, k)) = {}

LatchedInsert(k, v) ==
    /\ isOpen
    /\ PathIsFree(k)
    /\ Insert(k, v)
    /\ UNCHANGED iteratorVars

Forget(k) == [i \in Iterators |-> [cursors[i] EXCEPT !.sought = @ \ {k}]]

LatchedDelete(k) ==
    /\ isOpen
    /\ PathIsFree(k)
    /\ Delete(k)
    /\ cursors' = Forget(k)
    /\ UNCHANGED <<isOpen, openBPlusTreesMutex>>

\* CloseBPlusTree; an iterator keeps its guard.
CloseBPlusTree ==
    /\ status = "open"
    /\ openBPlusTreesMutex = NoCaller
    /\ isOpen
    /\ isOpen' = FALSE
    /\ UNCHANGED <<vars, openBPlusTreesMutex, cursors>>

\* OpenBPlusTree makes an object with the root and without the first leaf.
\* Bound: unless Reopens, a tree with a root is not opened again.
OpenBPlusTree ==
    /\ status = "open"
    /\ openBPlusTreesMutex = NoCaller
    /\ ~isOpen
    /\ Reopens \/ rootNodePageId = 0
    /\ isOpen' = TRUE
    /\ firstLeafNodePageId' = 0
    /\ UNCHANGED <<pages, rootNodePageId, lastPageId, freePageIds, status, acknowledged,
                   openBPlusTreesMutex, cursors>>

--------------------------------------------------------------------------------
(* Iterators                                                               *)

KeysOn(p) == LET els == Elements(pages[p]) IN [i \in DOMAIN els |-> els[i].key]

\* Cursor c gets the read guard of page p.  The current slot is 0, so GetValue
\* gives the value of the first element that is not deleted.
Arrive(c, p) ==
    [c EXCEPT !.phase = "at", !.page = p, !.next = 0, !.passed = @ \o KeysOn(p),
              !.offered = @ \cup (IF KeysOn(p) = <<>> THEN {} ELSE {Head(KeysOn(p))})]

\* NewBPlusTreeIterator.  For a tree that is not open it calls OpenBPlusTree
\* with the mutex that OpenBPlusTree takes.  The first leaf is read without the
\* lock of the tree: it is set once, and page 0 never changes.
NewBPlusTreeIterator(i) ==
    /\ status = "open"
    /\ openBPlusTreesMutex = NoCaller
    /\ cursors[i].phase = "none"
    /\ isOpen \/ IterateClosed
    /\ IF isOpen
       THEN /\ cursors' = [cursors EXCEPT ![i] =
                              Arrive([@ EXCEPT !.sought = {k \in Keys : acknowledged[k] # NoValue}],
                                     firstLeafNodePageId)]
            /\ UNCHANGED openBPlusTreesMutex
       ELSE /\ cursors' = [cursors EXCEPT ![i].phase = "hung"]
            /\ openBPlusTreesMutex' = i
    /\ UNCHANGED <<vars, isOpen>>

Panics ==
    /\ status' = "panicked"
    /\ UNCHANGED <<pages, rootNodePageId, firstLeafNodePageId, lastPageId, freePageIds, acknowledged,
                   iteratorVars>>

\* nextSlot counts the slots with the deleted ones and looks them up among
\* those without.
NextSlotPanics(page) == \E s \in DOMAIN page.slots : page.slots[s].deleted

\* Mutant of NextLeaf: a link to page 0 is followed.
NextLeafFollowsNone(i) ==
    /\ status = "open"
    /\ cursors[i].phase = "at"
    /\ cursors' = [cursors EXCEPT ![i].phase = "moving", ![i].next = pages[cursors[i].page].next]
    /\ UNCHANGED <<vars, isOpen, openBPlusTreesMutex>>

\* Next, up to Done.  The current slot never moves: nextSlot passes over all
\* live slots.
NextLeaf(i) ==
    LET p == cursors[i].page
        next == pages[p].next
    IN /\ status = "open"
       /\ cursors[i].phase = "at"
       /\ IF NextSlotPanics(pages[p]) THEN Panics
          ELSE /\ cursors' = [cursors EXCEPT ![i] = IF next = 0 THEN [@ EXCEPT !.phase = "ended"]
                                                    ELSE [@ EXCEPT !.phase = "moving", !.next = next]]
               /\ UNCHANGED <<vars, isOpen, openBPlusTreesMutex>>

\* Mutant of Target: the link is read without the guard.
TargetReadLate(c) == pages[c.page].next

\* The link that was read under the guard of the leaf before.
Target(c) == c.next

\* NewReadGuard in Next.
NextGuard(i) ==
    /\ status = "open"
    /\ cursors[i].phase = "moving"
    /\ \E ok \in {TRUE, ~ReadErrors} :
          cursors' = [cursors EXCEPT ![i] = IF ok THEN Arrive(@, Target(@)) ELSE [@ EXCEPT !.phase = "broken"]]
    /\ UNCHANGED <<vars, isOpen, openBPlusTreesMutex>>

\* GetValue changes nothing; on a leaf without elements it panics.
GetValue(i) ==
    /\ status = "open"
    /\ HasGuard(cursors[i])
    /\ KeysOn(cursors[i].page) = <<>>
    /\ Panics

\* Close calls Done, which a guard does not survive twice.
Close(i) ==
    /\ status = "open"
    /\ cursors[i].phase \in {"at", "ended", "broken"}
    /\ IF cursors[i].phase = "broken" THEN Panics
       ELSE /\ cursors' = [cursors EXCEPT ![i].phase = "closed"]
            /\ UNCHANGED <<vars, isOpen, openBPlusTreesMutex>>

IteratorNext ==
    \/ \E k \in Keys, v \in Values : LatchedInsert(k, v)
    \/ \E k \in Deletable : LatchedDelete(k)
    \/ CloseBPlusTree
    \/ OpenBPlusTree
    \/ \E i \in Iterators : NewBPlusTreeIterator(i) \/ NextLeaf(i) \/ NextGuard(i) \/ GetValue(i) \/ Close(i)

IteratorSpec == IteratorInit /\ [][IteratorNext]_allVars

\* Callers call Next until it returns an error, and goroutines run.
IteratorFairSpec ==
    IteratorSpec /\ \A i \in Iterators : WF_allVars(NextLeaf(i)) /\ WF_allVars(NextGuard(i))

--------------------------------------------------------------------------------
(* Properties                                                              *)

\* What LeafCursors has of cursor c.
AbstractCursor(c) ==
    [phase |-> IF c.phase \in {"broken", "closed", "hung"} THEN "stopped" ELSE c.phase,
     page |-> c.page, next |-> c.next, sought |-> c.sought, passed |-> c.passed]

Cursors == INSTANCE LeafCursors WITH
    low <- Lows,
    entries <- [p \in LeafPages |-> EntriesOn(pages[p])],
    next <- [p \in LeafPages |-> pages[p].next],
    first <- firstLeafNodePageId,
    cursors <- [i \in Iterators |-> AbstractCursor(cursors[i])]

\* Page 0 is that of the metadata, and keys are compared as numbers.
ASSUME CursorsAssumption == Cursors!ProperConstants

\* Iterators walk along the leaves as LeafCursors allows, and what others do to the
\* tree meanwhile is what OrderedLeaves allows, on leaves without a guard.
ImplementsLeafCursors == Cursors!CursorSpec

\* At its end, the values it has offered are those of every key.
YieldsEveryKey ==
    \A i \in Iterators : cursors[i].phase = "ended" => cursors[i].sought \subseteq cursors[i].offered

\* Iterators never panic.
NeverPanics == status # "panicked"

\* Every call of the engine gives back openBPlusTreesMutex.
MutexIsFree == openBPlusTreesMutex = NoCaller

\* Next reaches the end, whatever is inserted meanwhile.
IterationEnds ==
    \A i \in Iterators : (cursors[i].phase = "at") ~> (cursors[i].phase \notin {"at", "moving"} \/ status # "open")
=================================================================================
