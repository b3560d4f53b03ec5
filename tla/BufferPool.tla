------------------------------- MODULE BufferPool -------------------------------
(***************************************************************************)
(* SimpleBufferPoolManager with its LRU replacer, its frames and the read  *)
(* and write guards handed to the B+ tree (package bufferpoolmanager).     *)
(*                                                                         *)
(* Every guard object is an actor: a goroutine that holds several guards   *)
(* (readTraversal holds one per level) is several actors.  A guard runs    *)
(*                                                                         *)
(*   idle -> lookup -> [miss ->] latch -> active -> unlatch -> idle        *)
(*                                                                         *)
(* where the arrows are the places at which lookupMutex is free and other  *)
(* goroutines run.  What happens under the exclusive lookupMutex, and what *)
(* happens under its shared side together with pinCountMutex, is one step. *)
(***************************************************************************)
EXTENDS LRUReplacer, FiniteSets

CONSTANTS Guards,     \* guard objects
          Pages,      \* page ids, METADATA_PAGE_ID among them
          PoolSize,   \* number of frames
          Values,     \* page contents
          InitValue,  \* content of a zeroed page
          IOErrors    \* whether disk reads and writes may fail

METADATA_PAGE_ID == 0

ASSUME GuardsFinite == IsFiniteSet(Guards)
ASSUME PagesAssumption == METADATA_PAGE_ID \in Pages /\ Pages \subseteq Nat
ASSUME PoolSizeAssumption == PoolSize \in Nat \ {0}
ASSUME ValuesAssumption == InitValue \in Values
ASSUME IOErrorsAssumption == IOErrors \in BOOLEAN

VARIABLES
    pageTable,   \* page id -> frame id, NoFrame when absent
    pageId,      \* Frame.pageId
    pinCount,    \* Frame.pinCount
    dirty,       \* Frame.dirty
    data,        \* Frame.data
    freeFrames,  \* frames without a page, in allocation order
    replacer,    \* LRU list of frames whose page nobody uses
    frameAllocationMutex,  \* TRUE: left locked by a fetch that has returned
    disk,        \* content of every page in the file
    allocated,   \* page ids the disk manager has handed out
    status,      \* "open", "closed" (Close succeeded) or "crashed" (panic)
    pc, page, mode, frame  \* per guard: control, arguments, pinned frame

poolVars == <<pageTable, pageId, pinCount, dirty, data, freeFrames, replacer,
              frameAllocationMutex, disk, allocated, status>>
guardVars == <<pc, page, mode, frame>>
vars == <<poolVars, guardVars>>

Frames == 0..(PoolSize - 1)
NoFrame == -1
Modes == {"read", "write"}
Controls == {"idle", "lookup", "miss", "latch", "active", "unlatch", "blocked"}

TypeOK ==
    /\ pageTable \in [Pages -> Frames \cup {NoFrame}]
    /\ pageId \in [Frames -> Pages]
    /\ pinCount \in [Frames -> Nat]
    /\ dirty \in [Frames -> BOOLEAN]
    /\ data \in [Frames -> Values]
    /\ freeFrames \in Seq(Frames)
    /\ replacer \in Seq(Frames)
    /\ frameAllocationMutex \in BOOLEAN
    /\ disk \in [Pages -> Values]
    /\ allocated \in SUBSET Pages
    /\ status \in {"open", "closed", "crashed"}
    /\ pc \in [Guards -> Controls]
    /\ page \in [Guards -> Pages]
    /\ mode \in [Guards -> Modes]
    /\ frame \in [Guards -> Frames \cup {NoFrame}]

Cached(p) == pageTable[p] # NoFrame

\* lookupMutex is held across steps only by a goroutine that waits for
\* frameAllocationMutex with it.
LookupFree == status = "open" /\ \A g \in Guards : pc[g] # "blocked"

--------------------------------------------------------------------------------
\* NewSimpleBufferPoolManager over a database file of zeroed pages.
Init ==
    /\ pageTable = [p \in Pages |-> NoFrame]
    /\ pageId = [f \in Frames |-> METADATA_PAGE_ID]
    /\ pinCount = [f \in Frames |-> 0]
    /\ dirty = [f \in Frames |-> FALSE]
    /\ data = [f \in Frames |-> InitValue]
    /\ freeFrames = [i \in 1..PoolSize |-> i - 1]
    /\ replacer = <<>>
    /\ frameAllocationMutex = FALSE
    /\ disk = [p \in Pages |-> InitValue]
    /\ allocated = {METADATA_PAGE_ID}
    /\ status = "open"
    /\ pc = [g \in Guards |-> "idle"]
    /\ page = [g \in Guards |-> METADATA_PAGE_ID]
    /\ mode = [g \in Guards |-> "read"]
    /\ frame = [g \in Guards |-> NoFrame]

--------------------------------------------------------------------------------
(* Control of a guard.                                                     *)

Goto(g, label) == pc' = [pc EXCEPT ![g] = label]

\* The guard object is dropped: its fields are nil and nothing refers to it.
Drop(g) ==
    /\ Goto(g, "idle")
    /\ page' = [page EXCEPT ![g] = METADATA_PAGE_ID]
    /\ mode' = [mode EXCEPT ![g] = "read"]
    /\ frame' = [frame EXCEPT ![g] = NoFrame]

\* NewReadGuard, NewWriteGuard: the caller asks for a page it was given by
\* NewPage.  Only Get on an empty tree asks for the metadata page, to read it.
NewGuard(g, p, m) ==
    /\ status = "open"
    /\ pc[g] = "idle"
    /\ p \in allocated
    /\ m = "write" => p # METADATA_PAGE_ID
    /\ Goto(g, "lookup")
    /\ page' = [page EXCEPT ![g] = p]
    /\ mode' = [mode EXCEPT ![g] = m]
    /\ UNCHANGED <<poolVars, frame>>

--------------------------------------------------------------------------------
(* fetchPage                                                               *)

\* Mutant of Unlist: the frame stays in the replacer.
UnlistNothing(f) == UNCHANGED <<replacer, status>>

\* Take a frame that was not pinned off the replacer.  list.Remove panics on a
\* frame the replacer does not know.
Unlist(f) ==
    /\ replacer' = IF pinCount[f] = 0 /\ Contains(replacer, f)
                   THEN LRURemove(replacer, f) ELSE replacer
    /\ status' = IF pinCount[f] = 0 /\ ~Contains(replacer, f)
                 THEN "crashed" ELSE status

\* The page is in a frame: pin it.
PinCached(g) ==
    LET f == pageTable[page[g]] IN
    /\ Cached(page[g])
    /\ pinCount' = [pinCount EXCEPT ![f] = @ + 1]
    /\ Unlist(f)
    /\ frame' = [frame EXCEPT ![g] = f]
    /\ Goto(g, "latch")
    /\ UNCHANGED <<pageTable, pageId, dirty, data, freeFrames,
                   frameAllocationMutex, disk, allocated, page, mode>>

\* First look, under the shared lookupMutex.
FetchHit(g) == LookupFree /\ pc[g] = "lookup" /\ PinCached(g)

\* First look fails: RUnlock, then queue for the exclusive lookupMutex.
FetchMiss(g) ==
    /\ LookupFree
    /\ pc[g] = "lookup"
    /\ ~Cached(page[g])
    /\ Goto(g, "miss")
    /\ UNCHANGED <<poolVars, page, mode, frame>>

\* Second look, under the exclusive lookupMutex: somebody else loaded it.
FetchRecheckHit(g) == LookupFree /\ pc[g] = "miss" /\ PinCached(g)

\* Mutant of Missing: no second look at the page table.
MissingUnchecked(g) == LookupFree /\ pc[g] = "miss"

Missing(g) == LookupFree /\ pc[g] = "miss" /\ ~Cached(page[g])

\* Mutant of FetchReadError: the frame is taken before the read and not returned.
FetchReadErrorLeaks(g) ==
    /\ IOErrors
    /\ Missing(g)
    /\ freeFrames # <<>>
    /\ freeFrames' = Tail(freeFrames)
    /\ Drop(g)
    /\ UNCHANGED <<pageTable, pageId, pinCount, dirty, data, replacer,
                   frameAllocationMutex, disk, allocated, status>>

\* disk.read fails: nothing was taken yet.
FetchReadError(g) ==
    /\ IOErrors
    /\ Missing(g)
    /\ Drop(g)
    /\ UNCHANGED poolVars

\* Mutant of Load: the pin is not counted.
LoadUnpinned(g, f, tbl) ==
    /\ data' = [data EXCEPT ![f] = disk[page[g]]]
    /\ pageId' = [pageId EXCEPT ![f] = page[g]]
    /\ dirty' = [dirty EXCEPT ![f] = FALSE]
    /\ pageTable' = [tbl EXCEPT ![page[g]] = f]
    /\ frame' = [frame EXCEPT ![g] = f]
    /\ Goto(g, "latch")
    /\ UNCHANGED pinCount

\* Copy the page read from disk into frame f and enter it in the page table
\* tbl, which no longer has the evicted page.
Load(g, f, tbl) ==
    /\ data' = [data EXCEPT ![f] = disk[page[g]]]
    /\ pinCount' = [pinCount EXCEPT ![f] = 1]
    /\ pageId' = [pageId EXCEPT ![f] = page[g]]
    /\ dirty' = [dirty EXCEPT ![f] = FALSE]
    /\ pageTable' = [tbl EXCEPT ![page[g]] = f]
    /\ frame' = [frame EXCEPT ![g] = f]
    /\ Goto(g, "latch")

\* A frame without a page is available.
FetchFreeFrame(g) ==
    /\ Missing(g)
    /\ ~frameAllocationMutex
    /\ freeFrames # <<>>
    /\ Load(g, Head(freeFrames), pageTable)
    /\ freeFrames' = Tail(freeFrames)
    /\ UNCHANGED <<replacer, frameAllocationMutex, disk, allocated, status,
                   page, mode>>

\* Mutant of WriteBack: a dirty victim is dropped without a write.
WriteBackNothing(f) == UNCHANGED disk

WriteBack(f) ==
    disk' = IF dirty[f] THEN [disk EXCEPT ![pageId[f]] = data[f]] ELSE disk

\* The replacer names a victim; its page leaves the page table and is written
\* back when dirty.  The new page was read before the victim is written.
FetchEvict(g) ==
    LET f == VictimOf(replacer) IN
    /\ Missing(g)
    /\ ~frameAllocationMutex
    /\ freeFrames = <<>>
    /\ replacer # <<>>
    /\ Load(g, f, [pageTable EXCEPT ![pageId[f]] = NoFrame])
    /\ WriteBack(f)
    /\ replacer' = VictimRest(replacer)
    /\ UNCHANGED <<freeFrames, frameAllocationMutex, allocated, status,
                   page, mode>>

\* Writing the victim back fails: fetchPage returns with frameAllocationMutex
\* locked and the victim's frame in no list.  A failed or short write leaves
\* any content in the file.
FetchWriteError(g) ==
    LET f == VictimOf(replacer) IN
    /\ IOErrors
    /\ Missing(g)
    /\ ~frameAllocationMutex
    /\ freeFrames = <<>>
    /\ replacer # <<>>
    /\ dirty[f]
    /\ pageTable' = [pageTable EXCEPT ![pageId[f]] = NoFrame]
    /\ \E v \in Values : disk' = [disk EXCEPT ![pageId[f]] = v]
    /\ replacer' = VictimRest(replacer)
    /\ frameAllocationMutex' = TRUE
    /\ Drop(g)
    /\ UNCHANGED <<pageId, pinCount, dirty, data, freeFrames, allocated, status>>

\* No frame is free and none is evictable: victim() calls list.Remove(nil).
FetchNoVictim(g) ==
    /\ Missing(g)
    /\ ~frameAllocationMutex
    /\ freeFrames = <<>>
    /\ replacer = <<>>
    /\ status' = "crashed"
    /\ UNCHANGED <<pageTable, pageId, pinCount, dirty, data, freeFrames,
                   replacer, frameAllocationMutex, disk, allocated, guardVars>>

\* frameAllocationMutex was left locked: wait for it, holding lookupMutex.
FetchBlocked(g) ==
    /\ Missing(g)
    /\ frameAllocationMutex
    /\ Goto(g, "blocked")
    /\ UNCHANGED <<poolVars, page, mode, frame>>

Fetch(g) ==
    \/ FetchHit(g)
    \/ FetchMiss(g)
    \/ FetchRecheckHit(g)
    \/ FetchReadError(g)
    \/ FetchFreeFrame(g)
    \/ FetchEvict(g)
    \/ FetchWriteError(g)
    \/ FetchNoVictim(g)
    \/ FetchBlocked(g)

--------------------------------------------------------------------------------
(* Guards                                                                  *)

\* Guards that hold the RWMutex of frame f.
LatchHolders(f) == {h \in Guards : frame[h] = f /\ pc[h] \in {"active", "unlatch"}}

\* Mutant of LatchAvailable: a writer does not wait for readers.
LatchAvailableToWriter(f, m) ==
    \A h \in LatchHolders(f) : mode[h] = "read"

LatchAvailable(f, m) ==
    \A h \in LatchHolders(f) : m = "read" /\ mode[h] = "read"

\* page.mutex.RLock or Lock: the guard becomes active.
Latch(g) ==
    /\ status = "open"
    /\ pc[g] = "latch"
    /\ LatchAvailable(frame[g], mode[g])
    /\ Goto(g, "active")
    /\ UNCHANGED <<poolVars, page, mode, frame>>

\* Mutant of SetDirtyFlag: the flag is forgotten.
SetDirtyFlagNot(f) == UNCHANGED dirty

SetDirtyFlag(f) == dirty' = [dirty EXCEPT ![f] = TRUE]

\* A node writer marks the frame dirty and changes the page's bytes.
Modify(g, v) ==
    /\ status = "open"
    /\ pc[g] = "active"
    /\ mode[g] = "write"
    /\ SetDirtyFlag(frame[g])
    /\ data' = [data EXCEPT ![frame[g]] = v]
    /\ UNCHANGED <<pageTable, pageId, pinCount, freeFrames, replacer,
                   frameAllocationMutex, disk, allocated, status, guardVars>>

\* Mutant of LastPin: the count is tested as it was before the decrement.
LastPinTooLate(f) == pinCount[f] = 0

LastPin(f) == pinCount[f] = 1

\* Done, first half: unpinPage.  The latch is still held when it returns.
Unpin(g) ==
    LET f == pageTable[pageId[frame[g]]] IN
    /\ LookupFree
    /\ pc[g] = "active"
    /\ pinCount' = IF f = NoFrame THEN pinCount
                   ELSE [pinCount EXCEPT ![f] = @ - 1]
    /\ replacer' = IF f # NoFrame /\ LastPin(f)
                   THEN LRUInsert(replacer, f) ELSE replacer
    /\ Goto(g, "unlatch")
    /\ UNCHANGED <<pageTable, pageId, dirty, data, freeFrames,
                   frameAllocationMutex, disk, allocated, status,
                   page, mode, frame>>

\* Mutant of Unlatch: ReadGuard.Done forgets RUnlock.
UnlatchWritersOnly(g) ==
    /\ status = "open"
    /\ pc[g] = "unlatch"
    /\ mode[g] = "write"
    /\ Drop(g)
    /\ UNCHANGED poolVars

\* Done and DeletePage, last half: unlock page.mutex and drop the guard.
Unlatch(g) ==
    /\ status = "open"
    /\ pc[g] = "unlatch"
    /\ Drop(g)
    /\ UNCHANGED poolVars

\* DeletePage on a page nobody else has pinned.  The refusal (pinCount # 1)
\* changes nothing.  Only the owner of an allocated page deletes it.
DeletePage(g) ==
    LET p == pageId[frame[g]] IN
    /\ LookupFree
    /\ ~frameAllocationMutex
    /\ pc[g] = "active"
    /\ mode[g] = "write"
    /\ p \in allocated
    /\ Cached(p)
    /\ pinCount[pageTable[p]] = 1
    /\ freeFrames' = Append(freeFrames, pageTable[p])
    /\ pageId' = [pageId EXCEPT ![pageTable[p]] = METADATA_PAGE_ID]
    /\ pinCount' = [pinCount EXCEPT ![pageTable[p]] = 0]
    /\ pageTable' = [pageTable EXCEPT ![p] = NoFrame]
    /\ allocated' = allocated \ {p}
    /\ Goto(g, "unlatch")
    /\ UNCHANGED <<dirty, data, replacer, frameAllocationMutex, disk, status,
                   page, mode, frame>>

\* DeletePage when frameAllocationMutex was left locked.
DeleteBlocked(g) ==
    /\ LookupFree
    /\ frameAllocationMutex
    /\ pc[g] = "active"
    /\ mode[g] = "write"
    /\ pageId[frame[g]] \in allocated
    /\ Cached(pageId[frame[g]])
    /\ pinCount[pageTable[pageId[frame[g]]]] = 1
    /\ Goto(g, "blocked")
    /\ UNCHANGED <<poolVars, page, mode, frame>>

--------------------------------------------------------------------------------
(* Operations that need no guard.                                          *)

\* disk.allocatePage and disk.deallocatePage, as DiskManager implements them.
NewPage(p) ==
    /\ status = "open"
    /\ p \notin allocated
    /\ allocated' = allocated \cup {p}
    /\ UNCHANGED <<pageTable, pageId, pinCount, dirty, data, freeFrames,
                   replacer, frameAllocationMutex, disk, status, guardVars>>

\* The caller of NewPage could not get a guard on the page and gives it back.
CleanupPage(p) ==
    /\ status = "open"
    /\ p \in allocated \ {METADATA_PAGE_ID}
    /\ \A g \in Guards : pc[g] # "idle" => page[g] # p
    /\ allocated' = allocated \ {p}
    /\ UNCHANGED <<pageTable, pageId, pinCount, dirty, data, freeFrames,
                   replacer, frameAllocationMutex, disk, status, guardVars>>

\* Mutant of DirtyPages: frames that nobody pins are taken for clean.
DirtyPinnedPages == {p \in Pages :
    Cached(p) /\ dirty[pageTable[p]] /\ pinCount[pageTable[p]] > 0}

DirtyPages == {p \in Pages : Cached(p) /\ dirty[pageTable[p]]}

\* Every dirty frame is written; the dirty flags stay set.
FlushAll ==
    disk' = [p \in Pages |-> IF p \in DirtyPages THEN data[pageTable[p]] ELSE disk[p]]

\* Some dirty frames are written, then the write of page q fails.
FlushFails ==
    /\ IOErrors
    /\ \E q \in DirtyPages, v \in Values, ps \in SUBSET DirtyPages :
          disk' = [p \in Pages |-> IF p = q THEN v
                                  ELSE IF p \in ps THEN data[pageTable[p]]
                                  ELSE disk[p]]

NoGuards == \A g \in Guards : pc[g] = "idle"

\* The code calls FlushAllPages and Close with no guard outstanding: at the end
\* of Recover, and in main once every client has exited.
Quiescent == LookupFree /\ NoGuards

FlushAllPages ==
    /\ Quiescent
    /\ FlushAll \/ FlushFails
    /\ UNCHANGED <<pageTable, pageId, pinCount, dirty, data, freeFrames,
                   replacer, frameAllocationMutex, allocated, status, guardVars>>

\* Close: flush, release the frame buffers, close the file.  main panics when
\* it fails.
Close ==
    /\ Quiescent
    /\ \/ FlushAll /\ status' = "closed"
       \/ FlushFails /\ status' = "crashed"
    /\ UNCHANGED <<pageTable, pageId, pinCount, dirty, data, freeFrames,
                   replacer, frameAllocationMutex, allocated, guardVars>>

--------------------------------------------------------------------------------
Next ==
    \/ \E g \in Guards :
        \/ \E p \in Pages, m \in Modes : NewGuard(g, p, m)
        \/ Fetch(g)
        \/ Latch(g)
        \/ \E v \in Values : Modify(g, v)
        \/ Unpin(g)
        \/ Unlatch(g)
        \/ DeletePage(g)
        \/ DeleteBlocked(g)
    \/ \E p \in Pages : NewPage(p) \/ CleanupPage(p)
    \/ FlushAllPages
    \/ Close

Spec == Init /\ [][Next]_vars

\* The goroutines keep running, callers release their guards, and sync.RWMutex
\* admits a waiter (blocked writers hold off new readers, and an unlocking
\* writer admits the waiting readers).
Fairness ==
    \A g \in Guards :
        /\ WF_vars(Fetch(g))
        /\ SF_vars(Latch(g))
        /\ WF_vars(Unpin(g))
        /\ WF_vars(Unlatch(g))

FairSpec == Spec /\ Fairness

--------------------------------------------------------------------------------
(* Properties                                                              *)

Pins(g, f) == frame[g] = f /\ pc[g] \in {"latch", "active", "blocked"}

Pinned(f) == pinCount[f] > 0
Evictable(f) == Contains(replacer, f)
Free(f) == Contains(freeFrames, f)

\* Double-checked locking in fetchPage: however fetches of the same page
\* interleave, at most one frame in use carries it.
SingleCopy ==
    \A f, h \in Frames :
        /\ Pinned(f) \/ Evictable(f)
        /\ Pinned(h) \/ Evictable(h)
        /\ pageId[f] = pageId[h]
        => f = h

\* A guard keeps the frame pointer fetchPage returned while other goroutines
\* fetch, evict and delete: until the guard unpins, that frame holds its page
\* and the page table leads to it.
GuardKeepsItsPage ==
    \A g \in Guards :
        pc[g] \in {"latch", "active"} =>
            /\ frame[g] \in Frames
            /\ pageTable[page[g]] = frame[g]
            /\ pageId[frame[g]] = page[g]

\* pinCount, kept by fetchPage, unpinPage and deletePage under three different
\* locks, is the number of guards that rely on the frame.
PinsMatchGuards ==
    \A f \in Frames : pinCount[f] = Cardinality({g \in Guards : Pins(g, f)})

\* Every frame has exactly one role: without a page, evictable or pinned.  Only
\* a fetch that failed to write its victim back may have lost one.
FrameRoles ==
    /\ Injective(freeFrames)
    /\ Injective(replacer)
    /\ \A f \in Frames :
        /\ Free(f) => ~Evictable(f) /\ ~Pinned(f)
        /\ Evictable(f) => ~Pinned(f)
        /\ Free(f) \/ Evictable(f) \/ Pinned(f) \/ frameAllocationMutex

\* The page table leads exactly to the frames that are evictable or pinned.
TableMatchesFrames ==
    /\ \A p \in Pages : Cached(p) =>
        /\ pageId[pageTable[p]] = p
        /\ Evictable(pageTable[p]) \/ Pinned(pageTable[p])
    /\ \A f \in Frames : Evictable(f) \/ Pinned(f) => pageTable[pageId[f]] = f

\* The latch is per frame, the promise per page: two active guards on one page
\* are both readers, although latches outlive pins and frames change pages.
WriterIsAlone ==
    \A g, h \in Guards :
        /\ g # h
        /\ pc[g] = "active"
        /\ pc[h] = "active"
        /\ page[g] = page[h]
        => mode[g] = "read" /\ mode[h] = "read"

\* The RWMutex of a frame: two guards that hold it are both readers.
LatchExclusive ==
    \A g, h \in Guards :
        /\ g # h
        /\ pc[g] \in {"active", "unlatch"}
        /\ pc[h] \in {"active", "unlatch"}
        /\ frame[g] = frame[h]
        => mode[g] = "read" /\ mode[h] = "read"

\* Which guards have a frame pointer, and that one that pins is not stale.
GuardFrames ==
    \A g \in Guards :
        /\ pc[g] \in {"idle", "lookup", "miss"} => frame[g] = NoFrame
        /\ pc[g] \in {"latch", "active", "unlatch"} => frame[g] \in Frames
        /\ frame[g] \in Frames /\ Pins(g, frame[g]) =>
            pageTable[page[g]] = frame[g] /\ pageId[frame[g]] = page[g]

\* A frame that is not dirty holds what the file holds, so dropping it at
\* eviction without a write loses nothing.
CleanFramesMatchDisk ==
    \A p \in Pages :
        Cached(p) /\ ~dirty[pageTable[p]] => data[pageTable[p]] = disk[p]

\* With guards outstanding the process panics only when a page is needed while
\* every frame is pinned, reads and writes failing or not: replacer.remove never
\* panics.  Without guards it is Close that could not flush.
CrashOnlyWhenExhausted ==
    status = "crashed" => NoGuards \/ \A f \in Frames : Pinned(f)

\* The content a guard on page p would see.
Content(p) == IF Cached(p) THEN data[pageTable[p]] ELSE disk[p]

\* After Close returns without error the file holds the last content of every
\* page, whatever was evicted, reloaded or flushed before.
CloseIsDurable == status = "closed" => \A p \in Pages : disk[p] = Content(p)

\* The inductive invariant of the pool's bookkeeping.
PoolInv ==
    /\ TypeOK
    /\ FrameRoles
    /\ TableMatchesFrames
    /\ GuardFrames
    /\ PinsMatchGuards

\* The pool implements the abstract page store: evictions, reloads, flushes and
\* the replacer are invisible, no write is lost, writers exclude each other.
Store == INSTANCE PageStore WITH
    store  <- [p \in Pages |-> Content(p)],
    access <- [g \in Guards |-> IF pc[g] = "active" THEN <<page[g], mode[g]>> ELSE <<>>]

ImplementsPageStore == Store!Spec

\* A goroutine that asks for a guard gets it, whatever the others do.
GuardIsServed ==
    \A g \in Guards : pc[g] = "lookup" ~> pc[g] = "active"

\* What README.md:126-127 says of failed allocations: the frame is released, so
\* every frame stays free, evictable or pinned.
FailureReleasesFrame ==
    \A f \in Frames : Free(f) \/ Evictable(f) \/ Pinned(f)
================================================================================
