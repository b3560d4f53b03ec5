-------------------------- MODULE BufferPoolStoreProofs --------------------------
(***************************************************************************)
(* What the users of the buffer pool rely on, from the bookkeeping         *)
(* invariant of BufferPoolProofs: writers exclude each other, the file and *)
(* the frames agree, the process panics only when every frame is pinned,   *)
(* and the pool implements PageStore.                                      *)
(***************************************************************************)
EXTENDS BufferPoolProofs

--------------------------------------------------------------------------------
(* Latches                                                                 *)

\* Steps that admit no guard to a latch keep latches exclusive.
LEMMA LatchKept ==
    ASSUME LatchExclusive,
           \A h \in Guards : pc'[h] \in {"active", "unlatch"} =>
                /\ pc[h] \in {"active", "unlatch"}
                /\ frame'[h] = frame[h]
                /\ mode'[h] = mode[h]
    PROVE  LatchExclusive'
BY DEF LatchExclusive

LEMMA NextLatchExclusive == PoolInv /\ LatchExclusive /\ [Next]_vars => LatchExclusive'
<1> SUFFICES ASSUME PoolInv, LatchExclusive, [Next]_vars PROVE LatchExclusive'
  OBVIOUS
<1>1. TypeOK
  BY DEF PoolInv
<1> USE DEF poolVars, guardVars, vars, Goto
<1>2. ASSUME NEW g \in Guards, Latch(g)
      PROVE  LatchExclusive'
  <2>1. \A h \in Guards : pc'[h] = IF h = g THEN "active" ELSE pc[h]
    BY <1>1, <1>2 DEF TypeOK, Latch
  <2>2. frame' = frame /\ mode' = mode /\ pc[g] = "latch"
    BY <1>2 DEF Latch
  <2>3. \A h \in Guards : /\ frame[h] = frame[g]
                          /\ pc[h] \in {"active", "unlatch"}
                          => mode[g] = "read" /\ mode[h] = "read"
    BY <1>2 DEF Latch, LatchAvailable, LatchHolders
  <2> QED
    BY <2>1, <2>2, <2>3 DEF LatchExclusive
<1>3. ASSUME NEW g \in Guards, \E p \in Pages, m \in Modes : NewGuard(g, p, m)
      PROVE  LatchExclusive'
  BY <1>1, <1>3, LatchKept DEF TypeOK, NewGuard
<1>4. ASSUME NEW g \in Guards, Fetch(g)
      PROVE  LatchExclusive'
  <2>1. CASE FetchHit(g) \/ FetchRecheckHit(g)
    BY <1>1, <2>1, LatchKept DEF TypeOK, FetchHit, FetchRecheckHit, PinCached
  <2>2. CASE FetchMiss(g) \/ FetchNoVictim(g) \/ FetchBlocked(g)
    BY <1>1, <2>2, LatchKept DEF TypeOK, FetchMiss, FetchNoVictim, FetchBlocked
  <2>3. CASE FetchReadError(g) \/ FetchWriteError(g)
    BY <1>1, <2>3, LatchKept DEF TypeOK, FetchReadError, FetchWriteError, Drop
  <2>4. CASE FetchFreeFrame(g) \/ FetchEvict(g)
    BY <1>1, <2>4, LatchKept DEF TypeOK, FetchFreeFrame, FetchEvict, Load
  <2> QED
    BY <1>4, <2>1, <2>2, <2>3, <2>4 DEF Fetch
<1>5. ASSUME NEW g \in Guards,
             \/ \E v \in Values : Modify(g, v)
             \/ Unpin(g)
             \/ DeletePage(g)
             \/ DeleteBlocked(g)
      PROVE  LatchExclusive'
  BY <1>1, <1>5, LatchKept DEF TypeOK, Modify, Unpin, DeletePage, DeleteBlocked
<1>6. ASSUME NEW g \in Guards, Unlatch(g)
      PROVE  LatchExclusive'
  BY <1>1, <1>6, LatchKept DEF TypeOK, Unlatch, Drop
<1>7. CASE \/ \E p \in Pages : NewPage(p) \/ CleanupPage(p)
           \/ FlushAllPages
           \/ Close
           \/ UNCHANGED vars
  BY <1>7, LatchKept DEF NewPage, CleanupPage, FlushAllPages, Close
<1> QED
  BY <1>2, <1>3, <1>4, <1>5, <1>6, <1>7 DEF Next

\* README.md:29-30: readers share a page, a writer has it alone (NewReadGuard,
\* NewWriteGuard).
THEOREM WriterIsAloneHolds == Spec => []WriterIsAlone
<1>1. Init => LatchExclusive
  BY DEF Init, LatchExclusive
<1>2. PoolInv /\ LatchExclusive => WriterIsAlone
  BY DEF PoolInv, GuardFrames, Pins, LatchExclusive, WriterIsAlone
<1> QED
  BY <1>1, <1>2, NextLatchExclusive, PoolCorrect, PTL DEF Spec

--------------------------------------------------------------------------------
(* Crashes                                                                 *)

LEMMA NextCrash ==
    PoolInv /\ CrashOnlyWhenExhausted /\ [Next]_vars => CrashOnlyWhenExhausted'
<1> SUFFICES ASSUME PoolInv, CrashOnlyWhenExhausted, [Next]_vars, status' = "crashed"
             PROVE  NoGuards' \/ \A f \in Frames : pinCount'[f] > 0
  BY DEF CrashOnlyWhenExhausted, Pinned, Frames
<1>1. TypeOK /\ FrameRoles
  BY DEF PoolInv
<1> USE DEF poolVars, guardVars, vars, LookupFree
<1>2. CASE \E g \in Guards : FetchNoVictim(g)
  <2>1. /\ freeFrames = <<>>
        /\ replacer = <<>>
        /\ ~frameAllocationMutex
        /\ pinCount' = pinCount
    BY <1>2 DEF FetchNoVictim
  <2>2. \A f \in Frames : ~Free(f) /\ ~Evictable(f)
    BY <2>1 DEF Free, Evictable, Contains
  <2> QED
    BY <1>1, <2>1, <2>2 DEF FrameRoles, Pinned
<1>3. CASE \E g \in Guards : FetchHit(g) \/ FetchRecheckHit(g)
  BY <1>3, PinCachedStep DEF FetchHit, FetchRecheckHit
<1>4. CASE UNCHANGED vars
  BY <1>4 DEF CrashOnlyWhenExhausted, NoGuards, Pinned
<1>5. ASSUME NEW g \in Guards,
             \/ FetchMiss(g) \/ FetchReadError(g) \/ FetchFreeFrame(g)
             \/ FetchEvict(g) \/ FetchWriteError(g) \/ FetchBlocked(g)
      PROVE  FALSE
  BY <1>5 DEF FetchMiss, FetchReadError, FetchFreeFrame, FetchEvict, FetchWriteError,
              FetchBlocked, Missing
<1>6. ASSUME NEW g \in Guards,
             \/ \E p \in Pages, m \in Modes : NewGuard(g, p, m)
             \/ Latch(g) \/ Unpin(g) \/ Unlatch(g) \/ DeletePage(g) \/ DeleteBlocked(g)
             \/ \E v \in Values : Modify(g, v)
      PROVE  FALSE
  BY <1>6 DEF NewGuard, Latch, Unpin, Unlatch, DeletePage, DeleteBlocked, Modify
<1>7. ASSUME (\E p \in Pages : NewPage(p) \/ CleanupPage(p)) \/ FlushAllPages
      PROVE  FALSE
  BY <1>7 DEF NewPage, CleanupPage, FlushAllPages, Quiescent
<1>8. CASE Close
  BY <1>8 DEF Close, Quiescent, NoGuards
<1> QED
  BY <1>2, <1>3, <1>4, <1>5, <1>6, <1>7, <1>8 DEF Next, Fetch

\* With guards outstanding the pool panics only when every frame is pinned:
\* replacer.remove never does, victim on an empty replacer does.
THEOREM CrashOnlyWhenExhaustedHolds == Spec => []CrashOnlyWhenExhausted
<1>1. Init => CrashOnlyWhenExhausted
  BY DEF Init, CrashOnlyWhenExhausted
<1> QED
  BY <1>1, NextCrash, PoolCorrect, PTL DEF Spec

--------------------------------------------------------------------------------
(* Frames and the file                                                     *)

\* What fetchPage does to frames and file when it takes a free frame.
LEMMA FreeFrameEffect ==
    ASSUME PoolInv, NEW g \in Guards, FetchFreeFrame(g)
    PROVE  \E f \in Frames :
              /\ pageTable' = [pageTable EXCEPT ![page[g]] = f]
              /\ data' = [data EXCEPT ![f] = disk[page[g]]]
              /\ dirty' = [dirty EXCEPT ![f] = FALSE]
              /\ disk' = disk
              /\ \A p \in Pages : pageTable[p] # f
              /\ pageTable[page[g]] = NoFrame
<1> DEFINE f == Head(freeFrames)
<1>1. f \in Frames /\ Contains(freeFrames, f)
  BY HeadTailLemma DEF PoolInv, TypeOK, FrameRoles, FetchFreeFrame
<1>2. \A p \in Pages : pageTable[p] # f
  BY <1>1, RemoveNeverPanics DEF Cached, Free, Frames, NoFrame
<1> QED
  BY <1>1, <1>2, Zenon DEF FetchFreeFrame, Load, Missing, Cached

\* What fetchPage does to frames and file when it evicts page q.
LEMMA EvictEffect ==
    ASSUME PoolInv, NEW g \in Guards, FetchEvict(g)
    PROVE  \E f \in Frames, q \in Pages :
              /\ \A p \in Pages : pageTable[p] = f <=> p = q
              /\ pageTable' = [[pageTable EXCEPT ![q] = NoFrame] EXCEPT ![page[g]] = f]
              /\ data' = [data EXCEPT ![f] = disk[page[g]]]
              /\ dirty' = [dirty EXCEPT ![f] = FALSE]
              /\ disk' = IF dirty[f] THEN [disk EXCEPT ![q] = data[f]] ELSE disk
              /\ pageTable[page[g]] = NoFrame
<1> DEFINE f == VictimOf(replacer)
           q == pageId[f]
<1>1. f \in Frames /\ Contains(replacer, f)
  BY VictimLemma DEF PoolInv, TypeOK, FrameRoles, FetchEvict
<1>2. q \in Pages /\ \A p \in Pages : pageTable[p] = f <=> p = q
  BY <1>1 DEF PoolInv, TypeOK, TableMatchesFrames, Evictable, Cached, Frames, NoFrame
<1>3. /\ pageTable' = [[pageTable EXCEPT ![q] = NoFrame] EXCEPT ![page[g]] = f]
      /\ data' = [data EXCEPT ![f] = disk[page[g]]]
      /\ dirty' = [dirty EXCEPT ![f] = FALSE]
      /\ disk' = IF dirty[f] THEN [disk EXCEPT ![q] = data[f]] ELSE disk
      /\ pageTable[page[g]] = NoFrame
  BY DEF FetchEvict, WriteBack, Load, Missing, Cached
<1> HIDE DEF f, q
<1> QED
  BY <1>1, <1>2, <1>3, Zenon

\* Steps that touch neither the page table nor frames nor the file.
LEMMA UntouchedSteps ==
    ASSUME [Next]_vars, PoolInv
    PROVE  \/ UNCHANGED <<pageTable, data, dirty, disk>>
           \/ \E g \in Guards :
                \/ FetchFreeFrame(g) \/ FetchEvict(g) \/ FetchWriteError(g) \/ DeletePage(g)
                \/ \E v \in Values : Modify(g, v)
           \/ FlushAllPages
           \/ Close
<1> USE DEF poolVars, guardVars, vars
<1>1. ASSUME NEW g \in Guards,
             \/ FetchHit(g) \/ FetchMiss(g) \/ FetchRecheckHit(g) \/ FetchReadError(g)
             \/ FetchNoVictim(g) \/ FetchBlocked(g)
      PROVE  UNCHANGED <<pageTable, data, dirty, disk>>
  BY <1>1 DEF FetchHit, FetchMiss, FetchRecheckHit, PinCached, FetchReadError,
              FetchNoVictim, FetchBlocked
<1>2. ASSUME NEW g \in Guards,
             \/ \E p \in Pages, m \in Modes : NewGuard(g, p, m)
             \/ Latch(g) \/ Unpin(g) \/ Unlatch(g) \/ DeleteBlocked(g)
      PROVE  UNCHANGED <<pageTable, data, dirty, disk>>
  BY <1>2 DEF NewGuard, Latch, Unpin, Unlatch, DeleteBlocked
<1>3. ASSUME (\E p \in Pages : NewPage(p) \/ CleanupPage(p)) \/ UNCHANGED vars
      PROVE  UNCHANGED <<pageTable, data, dirty, disk>>
  BY <1>3 DEF NewPage, CleanupPage
<1> QED
  BY <1>1, <1>2, <1>3 DEF Next, Fetch

LEMMA NextClean == PoolInv /\ CleanFramesMatchDisk /\ [Next]_vars => CleanFramesMatchDisk'
<1> SUFFICES ASSUME PoolInv, CleanFramesMatchDisk, [Next]_vars,
                    NEW p \in Pages, pageTable'[p] # NoFrame, ~dirty'[pageTable'[p]]
             PROVE  data'[pageTable'[p]] = disk'[p]
  BY DEF CleanFramesMatchDisk, Cached, NoFrame
<1>1. TypeOK /\ TableMatchesFrames
  BY DEF PoolInv
<1>2. CASE UNCHANGED <<pageTable, data, dirty, disk>>
  BY <1>2 DEF CleanFramesMatchDisk, Cached
<1>3. ASSUME NEW g \in Guards, FetchFreeFrame(g)
      PROVE  data'[pageTable'[p]] = disk'[p]
  <2>1. PICK f \in Frames :
              /\ pageTable' = [pageTable EXCEPT ![page[g]] = f]
              /\ data' = [data EXCEPT ![f] = disk[page[g]]]
              /\ dirty' = [dirty EXCEPT ![f] = FALSE]
              /\ disk' = disk
              /\ \A x \in Pages : pageTable[x] # f
              /\ pageTable[page[g]] = NoFrame
    BY <1>3, FreeFrameEffect
  <2>2. CASE p = page[g]
    BY <1>1, <2>1, <2>2 DEF TypeOK
  <2>3. CASE p # page[g]
    BY <1>1, <2>1, <2>3 DEF TypeOK, CleanFramesMatchDisk, Cached
  <2> QED
    BY <2>2, <2>3
<1>4. ASSUME NEW g \in Guards, FetchEvict(g)
      PROVE  data'[pageTable'[p]] = disk'[p]
  <2>1. PICK f \in Frames, q \in Pages :
              /\ \A x \in Pages : pageTable[x] = f <=> x = q
              /\ pageTable' = [[pageTable EXCEPT ![q] = NoFrame] EXCEPT ![page[g]] = f]
              /\ data' = [data EXCEPT ![f] = disk[page[g]]]
              /\ dirty' = [dirty EXCEPT ![f] = FALSE]
              /\ disk' = IF dirty[f] THEN [disk EXCEPT ![q] = data[f]] ELSE disk
              /\ pageTable[page[g]] = NoFrame
    BY <1>4, EvictEffect
  <2>2. q # page[g] /\ page[g] \in Pages
    BY <1>1, <2>1 DEF TypeOK, Frames, NoFrame
  <2>3. CASE p = page[g]
    BY <1>1, <2>1, <2>2, <2>3 DEF TypeOK
  <2>4. CASE p # page[g]
    <3>1. p # q
      BY <1>1, <2>1, <2>2, <2>4 DEF TypeOK
    <3>2. /\ pageTable'[p] = pageTable[p]
          /\ pageTable[p] \in Frames
          /\ pageTable[p] # f
          /\ disk'[p] = disk[p]
      BY <1>1, <2>1, <2>4, <3>1 DEF TypeOK
    <3> QED
      BY <1>1, <2>1, <3>2 DEF TypeOK, CleanFramesMatchDisk, Cached
  <2> QED
    BY <2>3, <2>4
<1>5. ASSUME NEW g \in Guards, FetchWriteError(g)
      PROVE  data'[pageTable'[p]] = disk'[p]
  <2> DEFINE f == VictimOf(replacer)
             q == pageId[f]
  <2>1. f \in Frames
    BY <1>5, VictimLemma DEF PoolInv, TypeOK, FrameRoles, FetchWriteError
  <2>2. PICK v \in Values : disk' = [disk EXCEPT ![q] = v]
    BY <1>5, Zenon DEF FetchWriteError
  <2>3. pageTable' = [pageTable EXCEPT ![q] = NoFrame] /\ UNCHANGED <<data, dirty>>
    BY <1>5 DEF FetchWriteError
  <2>4. q \in Pages
    BY <1>1, <2>1 DEF TypeOK
  <2> HIDE DEF f, q
  <2> QED
    BY <1>1, <2>2, <2>3, <2>4 DEF TypeOK, CleanFramesMatchDisk, Cached
<1>6. ASSUME NEW g \in Guards, DeletePage(g)
      PROVE  data'[pageTable'[p]] = disk'[p]
  <2>1. /\ pageTable' = [pageTable EXCEPT ![pageId[frame[g]]] = NoFrame]
        /\ UNCHANGED <<data, dirty, disk>>
    BY <1>6 DEF DeletePage
  <2> QED
    BY <1>1, <2>1 DEF TypeOK, CleanFramesMatchDisk, Cached
<1>7. ASSUME NEW g \in Guards, NEW v \in Values, Modify(g, v)
      PROVE  data'[pageTable'[p]] = disk'[p]
  <2>1. /\ dirty' = [dirty EXCEPT ![frame[g]] = TRUE]
        /\ data' = [data EXCEPT ![frame[g]] = v]
        /\ UNCHANGED <<pageTable, disk>>
    BY <1>7 DEF Modify, SetDirtyFlag
  <2>2. pageTable[p] \in Frames
    BY <1>1, <2>1 DEF TypeOK
  <2>3. pageTable[p] # frame[g]
    BY <1>1, <2>1, <2>2 DEF TypeOK
  <2> QED
    BY <1>1, <2>1, <2>2, <2>3 DEF TypeOK, CleanFramesMatchDisk, Cached
<1>8. ASSUME FlushAllPages \/ Close
      PROVE  data'[pageTable'[p]] = disk'[p]
  <2>1. UNCHANGED <<pageTable, data, dirty>> /\ (FlushAll \/ FlushFails)
    BY <1>8 DEF FlushAllPages, Close
  <2>2. p \notin DirtyPages
    BY <2>1 DEF DirtyPages
  <2>3. disk'[p] = disk[p]
    BY <2>1, <2>2 DEF FlushAll, FlushFails
  <2> QED
    BY <2>1, <2>3 DEF CleanFramesMatchDisk, Cached
<1> QED
  BY <1>2, <1>3, <1>4, <1>5, <1>6, <1>7, <1>8, UntouchedSteps

\* A frame that is not dirty can be dropped: the file holds its content.
THEOREM CleanFramesMatchDiskHolds == Spec => []CleanFramesMatchDisk
<1>1. Init => CleanFramesMatchDisk
  BY DEF Init, CleanFramesMatchDisk, Cached
<1> QED
  BY <1>1, NextClean, PoolCorrect, PTL DEF Spec

\* A closed pool takes no further step.
LEMMA NextClosed ==
    PoolInv /\ CleanFramesMatchDisk /\ CloseIsDurable /\ [Next]_vars => CloseIsDurable'
<1> SUFFICES ASSUME PoolInv, CleanFramesMatchDisk, CloseIsDurable, [Next]_vars,
                    status' = "closed", NEW p \in Pages
             PROVE  disk'[p] = Content(p)'
  BY DEF CloseIsDurable
<1> USE DEF poolVars, guardVars, vars, LookupFree
<1>1. CASE UNCHANGED vars
  BY <1>1 DEF CloseIsDurable, Content, Cached
<1>2. CASE Close
  <2>1. FlushAll /\ UNCHANGED <<pageTable, data, dirty>>
    BY <1>2 DEF Close
  <2>2. CASE p \in DirtyPages
    BY <2>1, <2>2 DEF FlushAll, DirtyPages, Content, Cached
  <2>3. CASE p \notin DirtyPages
    BY <2>1, <2>3 DEF FlushAll, DirtyPages, Content, Cached, CleanFramesMatchDisk
  <2> QED
    BY <2>2, <2>3
<1>3. ASSUME NEW g \in Guards, Fetch(g)
      PROVE  FALSE
  <2>1. CASE FetchHit(g) \/ FetchRecheckHit(g)
    BY <2>1, PinCachedStep DEF FetchHit, FetchRecheckHit
  <2>2. CASE ~(FetchHit(g) \/ FetchRecheckHit(g))
    BY <1>3, <2>2 DEF Fetch, FetchMiss, FetchReadError, FetchFreeFrame, FetchEvict,
                      FetchWriteError, FetchNoVictim, FetchBlocked, Missing
  <2> QED
    BY <2>1, <2>2
<1>4. ASSUME NEW g \in Guards,
             \/ \E x \in Pages, m \in Modes : NewGuard(g, x, m)
             \/ Latch(g) \/ Unpin(g) \/ Unlatch(g) \/ DeletePage(g) \/ DeleteBlocked(g)
             \/ \E v \in Values : Modify(g, v)
      PROVE  FALSE
  BY <1>4, Zenon DEF NewGuard, Latch, Unpin, Unlatch, DeletePage, DeleteBlocked, Modify
<1>5. ASSUME (\E x \in Pages : NewPage(x) \/ CleanupPage(x)) \/ FlushAllPages
      PROVE  FALSE
  BY <1>5 DEF NewPage, CleanupPage, FlushAllPages, Quiescent
<1> QED
  BY <1>1, <1>2, <1>3, <1>4, <1>5 DEF Next

\* After a successful Close the file holds every page's last content.
THEOREM CloseIsDurableHolds == Spec => []CloseIsDurable
<1>1. Init => CloseIsDurable
  BY DEF Init, CloseIsDurable
<1> QED
  BY <1>1, NextClosed, CleanFramesMatchDiskHolds, PoolCorrect, PTL DEF Spec

--------------------------------------------------------------------------------
(* The pool implements the page store.                                     *)

\* Contents survive every step except a modification, a deletion and a failed
\* write-back.
LEMMA ContentKept ==
    ASSUME PoolInv, CleanFramesMatchDisk, [Next]_vars,
           \A g \in Guards : ~DeletePage(g) /\ ~FetchWriteError(g),
           \A g \in Guards, v \in Values : ~Modify(g, v),
           NEW p \in Pages
    PROVE  Content(p)' = Content(p)
<1>1. TypeOK
  BY DEF PoolInv
<1>2. CASE UNCHANGED <<pageTable, data, dirty, disk>>
  BY <1>2 DEF Content, Cached
<1>3. ASSUME NEW g \in Guards, FetchFreeFrame(g)
      PROVE  Content(p)' = Content(p)
  <2>1. PICK f \in Frames :
              /\ pageTable' = [pageTable EXCEPT ![page[g]] = f]
              /\ data' = [data EXCEPT ![f] = disk[page[g]]]
              /\ dirty' = [dirty EXCEPT ![f] = FALSE]
              /\ disk' = disk
              /\ \A x \in Pages : pageTable[x] # f
              /\ pageTable[page[g]] = NoFrame
    BY <1>3, FreeFrameEffect
  <2>2. CASE p = page[g]
    BY <1>1, <2>1, <2>2 DEF TypeOK, Content, Cached, Frames, NoFrame
  <2>3. CASE p # page[g]
    BY <1>1, <2>1, <2>3 DEF TypeOK, Content, Cached
  <2> QED
    BY <2>2, <2>3
<1>4. ASSUME NEW g \in Guards, FetchEvict(g)
      PROVE  Content(p)' = Content(p)
  <2>1. PICK f \in Frames, q \in Pages :
              /\ \A x \in Pages : pageTable[x] = f <=> x = q
              /\ pageTable' = [[pageTable EXCEPT ![q] = NoFrame] EXCEPT ![page[g]] = f]
              /\ data' = [data EXCEPT ![f] = disk[page[g]]]
              /\ dirty' = [dirty EXCEPT ![f] = FALSE]
              /\ disk' = IF dirty[f] THEN [disk EXCEPT ![q] = data[f]] ELSE disk
              /\ pageTable[page[g]] = NoFrame
    BY <1>4, EvictEffect
  <2>2. q # page[g] /\ page[g] \in Pages /\ f # NoFrame
    BY <1>1, <2>1 DEF TypeOK, Frames, NoFrame
  <2>3. CASE p = page[g]
    BY <1>1, <2>1, <2>2, <2>3 DEF TypeOK, Content, Cached
  <2>4. CASE p = q
    <3>1. pageTable'[p] = NoFrame /\ pageTable[p] = f
      BY <1>1, <2>1, <2>2, <2>4 DEF TypeOK
    <3>2. disk'[p] = data[f]
      BY <1>1, <2>1, <2>2, <2>4, <3>1 DEF TypeOK, CleanFramesMatchDisk, Cached
    <3> QED
      BY <2>2, <3>1, <3>2 DEF Content, Cached
  <2>5. CASE p # page[g] /\ p # q
    <3>1. pageTable'[p] = pageTable[p] /\ pageTable[p] # f /\ disk'[p] = disk[p]
      BY <1>1, <2>1, <2>5 DEF TypeOK
    <3>2. pageTable[p] # NoFrame => data'[pageTable[p]] = data[pageTable[p]]
      BY <1>1, <2>1, <3>1 DEF TypeOK
    <3> QED
      BY <3>1, <3>2 DEF Content, Cached
  <2> QED
    BY <2>3, <2>4, <2>5
<1>5. ASSUME FlushAllPages \/ Close
      PROVE  Content(p)' = Content(p)
  <2>1. UNCHANGED <<pageTable, data, dirty>> /\ (FlushAll \/ FlushFails)
    BY <1>5 DEF FlushAllPages, Close
  <2>2. pageTable[p] = NoFrame => disk'[p] = disk[p]
    BY <2>1 DEF FlushAll, FlushFails, DirtyPages, Cached
  <2> QED
    BY <2>1, <2>2 DEF Content, Cached
<1> QED
  BY <1>2, <1>3, <1>4, <1>5, UntouchedSteps

\* The page and the mode under which a guard may use its page.
Access(g) == IF pc[g] = "active" THEN <<page[g], mode[g]>> ELSE <<>>

\* The guards that are not active before and after a step, and those that stay
\* active, keep their access.
LEMMA AccessKept ==
    ASSUME NEW g \in Guards,
           pc'[g] = "active" <=> pc[g] = "active",
           pc[g] = "active" => page'[g] = page[g] /\ mode'[g] = mode[g]
    PROVE  Access(g)' = Access(g)
BY DEF Access

\* The steps by which guards gain or lose access.
LEMMA AccessSteps ==
    ASSUME PoolInv, [Next]_vars
    PROVE  \/ \A h \in Guards : Access(h)' = Access(h)
           \/ \E g \in Guards : Latch(g) \/ Unpin(g) \/ DeletePage(g) \/ DeleteBlocked(g)
<1>1. TypeOK
  BY DEF PoolInv
<1> USE DEF poolVars, guardVars, vars, Goto
<1>2. ASSUME NEW g \in Guards, Fetch(g), NEW h \in Guards
      PROVE  Access(h)' = Access(h)
  <2>1. CASE FetchHit(g) \/ FetchRecheckHit(g)
    BY <1>1, <2>1, AccessKept, Zenon DEF TypeOK, FetchHit, FetchRecheckHit, PinCached
  <2>2. CASE FetchMiss(g) \/ FetchNoVictim(g) \/ FetchBlocked(g)
    BY <1>1, <2>2, AccessKept, Zenon DEF TypeOK, FetchMiss, FetchNoVictim, FetchBlocked, Missing
  <2>3. CASE FetchReadError(g) \/ FetchWriteError(g)
    BY <1>1, <2>3, AccessKept, Zenon DEF TypeOK, FetchReadError, FetchWriteError, Missing, Drop
  <2>4. CASE FetchFreeFrame(g) \/ FetchEvict(g)
    BY <1>1, <2>4, AccessKept, Zenon DEF TypeOK, FetchFreeFrame, FetchEvict, Missing, Load
  <2> QED
    BY <1>2, <2>1, <2>2, <2>3, <2>4 DEF Fetch
<1>3. ASSUME NEW g \in Guards, \E p \in Pages, m \in Modes : NewGuard(g, p, m), NEW h \in Guards
      PROVE  Access(h)' = Access(h)
  BY <1>1, <1>3, AccessKept, Zenon DEF TypeOK, NewGuard
<1>4. ASSUME NEW g \in Guards, \E v \in Values : Modify(g, v), NEW h \in Guards
      PROVE  Access(h)' = Access(h)
  BY <1>4, AccessKept DEF Modify
<1>5. ASSUME NEW g \in Guards, Unlatch(g), NEW h \in Guards
      PROVE  Access(h)' = Access(h)
  BY <1>1, <1>5, AccessKept, Zenon DEF TypeOK, Unlatch, Drop
<1>6. ASSUME \/ \E p \in Pages : NewPage(p) \/ CleanupPage(p)
             \/ FlushAllPages
             \/ Close
             \/ UNCHANGED vars,
             NEW h \in Guards
      PROVE  Access(h)' = Access(h)
  BY <1>6, AccessKept DEF NewPage, CleanupPage, FlushAllPages, Close
<1> QED
  BY <1>2, <1>3, <1>4, <1>5, <1>6 DEF Next

\* The refinement mapping.
storeBar == [p \in Pages |-> Content(p)]
accessBar == [g \in Guards |-> Access(g)]

\* Every step of the pool is a step of the page store or a stutter, when the
\* disk does not fail.
LEMMA StoreStep ==
    ASSUME ~IOErrors, PoolInv, LatchExclusive, CleanFramesMatchDisk, [Next]_vars
    PROVE  [Store!Next]_(Store!vars)
<1>1. TypeOK
  BY DEF PoolInv
<1>2. /\ Store!vars = <<storeBar, accessBar>>
      /\ Store!vars' = <<storeBar', accessBar'>>
  BY DEF Store!vars, storeBar, accessBar, Access
<1>3. \A g \in Guards : ~FetchWriteError(g)
  BY DEF FetchWriteError
<1>4. ASSUME \A g \in Guards : ~DeletePage(g),
             \A g \in Guards, v \in Values : ~Modify(g, v)
      PROVE  storeBar' = storeBar
  BY <1>3, <1>4, ContentKept DEF storeBar
<1>5. CASE \E g \in Guards : Latch(g)
  <2>1. PICK g \in Guards : Latch(g)
    BY <1>5
  <2>2. /\ pc[g] = "latch"
        /\ pc' = [pc EXCEPT ![g] = "active"]
        /\ UNCHANGED <<page, mode, frame>>
    BY <2>1 DEF Latch, Goto
  <2>3. UNCHANGED storeBar
    BY <2>1, ContentKept DEF storeBar, Latch, poolVars, Content, Cached
  <2>4. accessBar' = [accessBar EXCEPT ![g] = <<page[g], mode[g]>>] /\ accessBar[g] = <<>>
    BY <1>1, <2>2, Zenon DEF TypeOK, accessBar, Access
  <2>5. ASSUME NEW h \in Guards, accessBar[h] # <<>>
        PROVE  ~Store!Conflict(accessBar[h], <<page[g], mode[g]>>)
    <3>1. pc[h] = "active" /\ accessBar[h] = <<page[h], mode[h]>>
      BY <2>5 DEF accessBar, Access
    <3>2. page[h] = page[g] => mode[h] = "read" /\ mode[g] = "read"
      <4>1. page[h] = page[g] => frame[h] = frame[g]
        BY <2>2, <3>1 DEF PoolInv, GuardFrames, Pins
      <4> QED
        BY <2>1, <3>1, <4>1 DEF Latch, LatchAvailable, LatchHolders
    <3>3. page[h] = page[g] => "write" \notin {mode[h], mode[g]}
      BY <3>2
    <3> QED
      BY <3>1, <3>3 DEF Store!Conflict
  <2>6. PICK p \in Pages, m \in Modes : p = page[g] /\ m = mode[g]
    BY <1>1 DEF TypeOK
  <2>7. Store!Acquire(g, p, m)
    BY <2>3, <2>4, <2>5, <2>6 DEF Store!Acquire, Store!NoAccess, storeBar, accessBar, Access
  <2> QED
    BY <2>6, <2>7 DEF Store!Next, Store!Modes, Modes
<1>6. CASE \E g \in Guards : Unpin(g) \/ DeleteBlocked(g)
  <2>1. PICK g \in Guards : Unpin(g) \/ DeleteBlocked(g)
    BY <1>6
  <2>2. /\ pc[g] = "active"
        /\ \E l \in {"unlatch", "blocked"} : pc' = [pc EXCEPT ![g] = l]
        /\ UNCHANGED <<page, mode, pageTable, data, disk>>
    BY <2>1 DEF Unpin, DeleteBlocked, Goto, poolVars
  <2>3. UNCHANGED storeBar
    BY <2>2 DEF storeBar, Content, Cached
  <2>4. accessBar' = [accessBar EXCEPT ![g] = <<>>] /\ accessBar[g] # <<>>
    BY <1>1, <2>2, Zenon DEF TypeOK, accessBar, Access
  <2>5. Store!Release(g)
    BY <2>3, <2>4 DEF Store!Release, Store!NoAccess, storeBar, accessBar, Access
  <2> QED
    BY <2>5 DEF Store!Next
<1>7. CASE \E g \in Guards : DeletePage(g)
  <2>1. PICK g \in Guards : DeletePage(g)
    BY <1>7
  <2>2. /\ pc[g] = "active"
        /\ mode[g] = "write"
        /\ pc' = [pc EXCEPT ![g] = "unlatch"]
        /\ pageTable' = [pageTable EXCEPT ![pageId[frame[g]]] = NoFrame]
        /\ UNCHANGED <<page, mode, data, disk>>
    BY <2>1 DEF DeletePage, Goto
  <2>3. page[g] \in Pages /\ pageId[frame[g]] = page[g]
    BY <2>2, ActiveFacts
  <2>4. accessBar' = [accessBar EXCEPT ![g] = <<>>] /\ accessBar[g] = <<page[g], "write">>
    BY <1>1, <2>2, Zenon DEF TypeOK, accessBar, Access
  <2>5. storeBar' = [storeBar EXCEPT ![page[g]] = disk[page[g]]] /\ disk[page[g]] \in Values
    BY <1>1, <2>2, <2>3, Zenon DEF TypeOK, storeBar, Content, Cached
  <2>6. Store!Delete(g)
    BY <2>4, <2>5, Zenon DEF Store!Delete, Store!NoAccess, storeBar, accessBar, Access
  <2> QED
    BY <2>6 DEF Store!Next
<1>8. CASE \E g \in Guards, v \in Values : Modify(g, v)
  <2>1. PICK g \in Guards, v \in Values : Modify(g, v)
    BY <1>8
  <2>2. /\ pc[g] = "active"
        /\ mode[g] = "write"
        /\ data' = [data EXCEPT ![frame[g]] = v]
        /\ UNCHANGED <<pageTable, disk, pc, page, mode>>
    BY <2>1 DEF Modify, guardVars
  <2>3. page[g] \in Pages /\ pageTable[page[g]] = frame[g] /\ frame[g] \in Frames
    BY <2>2, ActiveFacts
  <2>4. UNCHANGED accessBar /\ accessBar[g] = <<page[g], "write">>
    BY <2>2 DEF accessBar, Access
  <2>5. \A p \in Pages : pageTable[p] = frame[g] => p = page[g]
    BY <2>2, <2>3, RemoveNeverPanics, ActiveFacts DEF Cached, Frames, NoFrame
  <2>6. ASSUME NEW p \in Pages
        PROVE  Content(p)' = IF p = page[g] THEN v ELSE Content(p)
    <3>1. pageTable[p] # NoFrame => pageTable[p] \in Frames
      BY <1>1 DEF TypeOK
    <3> QED
      BY <1>1, <2>2, <2>3, <2>5, <3>1 DEF TypeOK, Content, Cached, Frames, NoFrame
  <2>7. storeBar' = [storeBar EXCEPT ![page[g]] = v]
    BY <2>3, <2>6, Zenon DEF storeBar
  <2>8. Store!Write(g, v)
    BY <2>4, <2>7, Zenon DEF Store!Write, Store!NoAccess, storeBar, accessBar, Access
  <2> QED
    BY <2>8 DEF Store!Next
<1>9. CASE /\ \A g \in Guards : ~Latch(g) /\ ~Unpin(g) /\ ~DeleteBlocked(g) /\ ~DeletePage(g)
           /\ \A g \in Guards, v \in Values : ~Modify(g, v)
  <2>1. UNCHANGED storeBar
    BY <1>4, <1>9
  <2>2. UNCHANGED accessBar
    BY <1>9, AccessSteps DEF accessBar
  <2> QED
    BY <1>2, <2>1, <2>2
<1> QED
  BY <1>5, <1>6, <1>7, <1>8, <1>9

\* When the disk does not fail, the pool is a page store: eviction, reloading
\* and flushing are invisible, no modification is lost and writers are alone.
THEOREM PoolImplementsPageStore ==
    ASSUME ~IOErrors
    PROVE  Spec => ImplementsPageStore
<1>1. Init => Store!Init
  BY DEF Init, Store!Init, Store!NoAccess, Content, Cached
<1>2. Init => LatchExclusive
  BY DEF Init, LatchExclusive
<1>3. PoolInv /\ LatchExclusive /\ CleanFramesMatchDisk /\ [Next]_vars
        => [Store!Next]_(Store!vars)
  BY StoreStep
<1> QED
  BY <1>1, <1>2, <1>3, NextLatchExclusive, PoolCorrect, CleanFramesMatchDiskHolds, PTL
     DEF Spec, ImplementsPageStore, Store!Spec
================================================================================
