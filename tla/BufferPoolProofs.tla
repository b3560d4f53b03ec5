--------------------------- MODULE BufferPoolProofs ---------------------------
(***************************************************************************)
(* Unpinning and deleting preserve the bookkeeping too, so PoolInv is an   *)
(* invariant of the buffer pool, and what follows from it.                 *)
(***************************************************************************)
EXTENDS BufferPoolFetchProofs

\* What an active guard knows of its frame.
LEMMA ActiveFacts ==
    ASSUME PoolInv, NEW g \in Guards, pc[g] = "active"
    PROVE  /\ frame[g] \in Frames
           /\ page[g] \in Pages
           /\ Pins(g, frame[g])
           /\ pageTable[page[g]] = frame[g]
           /\ pageId[frame[g]] = page[g]
           /\ pinCount[frame[g]] \in Nat \ {0}
           /\ ~Evictable(frame[g])
           /\ ~Free(frame[g])
<1>1. /\ frame[g] \in Frames
      /\ page[g] \in Pages
      /\ Pins(g, frame[g])
      /\ pageTable[page[g]] = frame[g]
      /\ pageId[frame[g]] = page[g]
  BY DEF PoolInv, GuardFrames, TypeOK, Pins
<1>2. pinCount[frame[g]] \in Nat \ {0}
  BY <1>1, PinFacts DEF PoolInv
<1>3. Pinned(frame[g])
  BY <1>2 DEF Pinned
<1>4. FrameRoles
  BY Zenon DEF PoolInv
<1>5. ~Evictable(frame[g]) /\ ~Free(frame[g])
  BY <1>1, <1>3, <1>4, Zenon DEF FrameRoles
<1> QED
  BY <1>1, <1>2, <1>5, Zenon

\* Done unpins: the last guard to leave makes the frame evictable.
LEMMA UnpinStep ==
    ASSUME PoolInv, NEW g \in Guards, Unpin(g)
    PROVE  PoolInv'
<1> DEFINE f == frame[g]
<1>1. TypeOK /\ FrameRoles /\ TableMatchesFrames /\ GuardFrames /\ PinsMatchGuards
  BY DEF PoolInv
<1>2. pc[g] = "active"
  BY Zenon DEF Unpin
<1>3. /\ f \in Frames
      /\ page[g] \in Pages
      /\ Pins(g, f)
      /\ pageTable[page[g]] = f
      /\ pageId[f] = page[g]
      /\ pinCount[f] \in Nat \ {0}
      /\ ~Evictable(f)
      /\ ~Free(f)
  BY <1>2, ActiveFacts
<1>4. /\ pinCount' = [pinCount EXCEPT ![f] = @ - 1]
      /\ replacer' = IF pinCount[f] = 1 THEN LRUInsert(replacer, f) ELSE replacer
      /\ pc' = [pc EXCEPT ![g] = "unlatch"]
      /\ UNCHANGED <<pageTable, pageId, dirty, data, freeFrames, frameAllocationMutex,
                     disk, allocated, status, page, mode, frame>>
  <2>1. pageTable[pageId[frame[g]]] = f /\ f # NoFrame
    BY <1>3 DEF Frames, NoFrame
  <2> QED
    BY <2>1 DEF Unpin, LastPin, Goto
<1>5. /\ replacer' \in Seq(Frames)
      /\ Injective(replacer')
      /\ \A x : Contains(replacer', x) <=>
                    Contains(replacer, x) \/ (x = f /\ pinCount[f] = 1)
  BY <1>1, <1>3, <1>4, InsertLemma DEF TypeOK, FrameRoles, Evictable
<1> HIDE DEF f
<1>6. \A x \in Frames : pinCount'[x] = IF x = f THEN pinCount[x] - 1 ELSE pinCount[x]
  BY <1>1, <1>4 DEF TypeOK
<1>7. TypeOK'
  BY <1>1, <1>3, <1>4, <1>5 DEF TypeOK, Controls
<1>8. FrameRoles'
  <2>1. ASSUME NEW x \in Frames
        PROVE  /\ (Free(x) => ~Evictable(x) /\ ~Pinned(x))'
               /\ (Evictable(x) => ~Pinned(x))'
               /\ (Free(x) \/ Evictable(x) \/ Pinned(x) \/ frameAllocationMutex)'
    <3>1. CASE x = f
      <4>1. ~Free(x)'
        BY <1>3, <1>4, <3>1, Zenon DEF Free
      <4>2. Evictable(x)' <=> pinCount[f] = 1
        BY <1>3, <1>5, <3>1, Zenon DEF Evictable
      <4>3. Pinned(x)' <=> pinCount[f] # 1
        BY <1>3, <1>6, <3>1 DEF Pinned
      <4> QED
        BY <4>1, <4>2, <4>3, Zenon
    <3>2. CASE x # f
      <4>1. pinCount'[x] = pinCount[x]
        BY <1>6, <3>2
      <4>2. /\ Free(x)' <=> Free(x)
            /\ Evictable(x)' <=> Evictable(x)
            /\ Pinned(x)' <=> Pinned(x)
        BY <1>4, <1>5, <3>2, <4>1 DEF Free, Evictable, Pinned
      <4> QED
        BY <1>1, <1>4, <4>2 DEF FrameRoles
    <3> QED
      BY <3>1, <3>2
  <2> QED
    BY <1>1, <1>4, <1>5, <2>1 DEF FrameRoles, Frames
<1>9. TableMatchesFrames'
  <2>1. \A x \in Frames : (Evictable(x) \/ Pinned(x))' <=> Evictable(x) \/ Pinned(x)
    BY <1>1, <1>3, <1>5, <1>6 DEF TypeOK, Evictable, Pinned
  <2>2. \A p \in Pages : pageTable[p] # NoFrame => pageTable[p] \in Frames
    BY <1>1 DEF TypeOK
  <2> QED
    BY <1>1, <1>4, <2>1, <2>2 DEF TableMatchesFrames, Cached, Evictable, Pinned
<1>10. \A h \in Guards, x \in Frames : Pins(h, x)' <=> Pins(h, x) /\ ~(h = g /\ x = f)
  BY <1>1, <1>4 DEF TypeOK, Pins, f
<1>11. GuardFrames'
  BY <1>1, <1>3, <1>4 DEF TypeOK, GuardFrames, Pins, f
<1>12. PinsMatchGuards'
  BY <1>3, <1>6, <1>10, PinsAfterRemove, Zenon
<1> QED
  BY <1>7, <1>8, <1>9, <1>11, <1>12 DEF PoolInv

\* DeletePage returns the frame of its page to freeFrames.
LEMMA DeletePageStep ==
    ASSUME PoolInv, NEW g \in Guards, DeletePage(g)
    PROVE  PoolInv'
<1> DEFINE f == frame[g]
<1>1. TypeOK /\ FrameRoles /\ TableMatchesFrames /\ GuardFrames /\ PinsMatchGuards
  BY DEF PoolInv
<1>2. pc[g] = "active"
  BY DEF DeletePage
<1>3. /\ f \in Frames
      /\ page[g] \in Pages
      /\ Pins(g, f)
      /\ pageTable[page[g]] = f
      /\ pageId[f] = page[g]
      /\ ~Evictable(f)
      /\ ~Free(f)
  BY <1>2, ActiveFacts
<1>4. /\ pinCount[f] = 1
      /\ freeFrames' = Append(freeFrames, f)
      /\ pageId' = [pageId EXCEPT ![f] = METADATA_PAGE_ID]
      /\ pinCount' = [pinCount EXCEPT ![f] = 0]
      /\ pageTable' = [pageTable EXCEPT ![page[g]] = NoFrame]
      /\ allocated' = allocated \ {page[g]}
      /\ pc' = [pc EXCEPT ![g] = "unlatch"]
      /\ UNCHANGED <<dirty, data, replacer, frameAllocationMutex, disk, status,
                     page, mode, frame>>
  BY <1>3, Zenon DEF DeletePage, Goto
<1>5. /\ freeFrames' \in Seq(Frames)
      /\ Injective(freeFrames')
      /\ \A x : Contains(freeFrames', x) <=> x = f \/ Contains(freeFrames, x)
  BY <1>1, <1>3, <1>4, AppendLemma DEF TypeOK, FrameRoles, Free
<1>6. \A h \in Guards : Pins(h, f) => h = g
  BY <1>1, <1>3, <1>4, PinFacts, Zenon
<1> HIDE DEF f
<1>7. TypeOK'
  BY <1>1, <1>3, <1>4, <1>5, PagesAssumption, Zenon DEF TypeOK, Controls
<1>8. FrameRoles'
  <2>1. ASSUME NEW x \in Frames
        PROVE  /\ (Free(x) => ~Evictable(x) /\ ~Pinned(x))'
               /\ (Evictable(x) => ~Pinned(x))'
               /\ (Free(x) \/ Evictable(x) \/ Pinned(x) \/ frameAllocationMutex)'
    <3>1. CASE x = f
      BY <1>1, <1>3, <1>4, <1>5, <3>1 DEF TypeOK, Free, Evictable, Pinned
    <3>2. CASE x # f
      <4>1. pinCount'[x] = pinCount[x]
        BY <1>1, <1>4, <3>2 DEF TypeOK
      <4>2. /\ Free(x)' <=> Free(x)
            /\ Evictable(x)' <=> Evictable(x)
            /\ Pinned(x)' <=> Pinned(x)
        BY <1>4, <1>5, <3>2, <4>1 DEF Free, Evictable, Pinned
      <4> QED
        BY <1>1, <1>4, <4>2 DEF FrameRoles
    <3> QED
      BY <3>1, <3>2
  <2> QED
    BY <1>1, <1>4, <1>5, <2>1 DEF FrameRoles, Frames
<1>9. TableMatchesFrames'
  <2>1. \A x \in Frames : x # f => pageId'[x] = pageId[x] /\ pinCount'[x] = pinCount[x]
    BY <1>1, <1>4 DEF TypeOK
  <2>2. ASSUME NEW p \in Pages, Cached(p)'
        PROVE  pageId'[pageTable'[p]] = p /\ (Evictable(pageTable[p]) \/ Pinned(pageTable[p]))'
    <3>1. p # page[g]
      BY <1>1, <1>4, <2>2 DEF TypeOK, Cached
    <3>2. pageTable'[p] = pageTable[p] /\ pageTable[p] \in Frames
      BY <1>1, <1>4, <2>2, <3>1 DEF TypeOK, Cached
    <3>3. pageId[pageTable[p]] = p /\ (Evictable(pageTable[p]) \/ Pinned(pageTable[p]))
      BY <1>1, <2>2, <3>2 DEF TableMatchesFrames, Cached
    <3>4. pageTable[p] # f
      BY <1>3, <3>1, <3>3
    <3> QED
      BY <1>4, <2>1, <3>2, <3>3, <3>4 DEF Evictable, Pinned
  <2>3. ASSUME NEW x \in Frames, (Evictable(x) \/ Pinned(x))'
        PROVE  pageTable'[pageId'[x]] = x
    <3>1. x # f
      BY <1>1, <1>3, <1>4, <2>3 DEF TypeOK, Evictable, Pinned
    <3>2. Evictable(x) \/ Pinned(x)
      BY <1>4, <2>1, <2>3, <3>1 DEF Evictable, Pinned
    <3>3. pageTable[pageId[x]] = x /\ pageId[x] # page[g]
      BY <1>1, <1>3, <3>1, <3>2 DEF TableMatchesFrames
    <3>4. pageId[x] \in Pages
      BY <1>1 DEF TypeOK
    <3> QED
      BY <1>1, <1>4, <2>1, <3>1, <3>3, <3>4 DEF TypeOK
  <2> QED
    BY <2>2, <2>3 DEF TableMatchesFrames, Frames
<1>10. \A h \in Guards, x \in Frames : Pins(h, x)' <=> Pins(h, x) /\ ~(h = g /\ x = f)
  BY <1>1, <1>4 DEF TypeOK, Pins, f
<1>11. GuardFrames'
  <2> SUFFICES ASSUME NEW h \in Guards
               PROVE  /\ pc'[h] \in {"idle", "lookup", "miss"} => frame'[h] = NoFrame
                      /\ pc'[h] \in {"latch", "active", "unlatch"} => frame'[h] \in Frames
                      /\ frame'[h] \in Frames /\ Pins(h, frame[h])' =>
                            /\ pageTable'[page'[h]] = frame'[h]
                            /\ pageId'[frame'[h]] = page'[h]
    BY DEF GuardFrames, Frames, NoFrame
  <2>1. CASE h = g
    BY <1>1, <1>3, <1>4, <2>1 DEF TypeOK, Pins, f
  <2>2. CASE h # g
    <3>1. pc'[h] = pc[h] /\ page[h] \in Pages
      BY <1>1, <1>4, <2>2 DEF TypeOK
    <3>2. ASSUME frame[h] \in Frames, Pins(h, frame[h])
          PROVE  pageTable'[page[h]] = frame[h] /\ pageId'[frame[h]] = page[h]
      <4>1. /\ pageTable[page[h]] = frame[h]
            /\ pageId[frame[h]] = page[h]
            /\ frame[h] # f
        BY <1>1, <1>6, <2>2, <3>2, Zenon DEF GuardFrames
      <4>2. page[h] # page[g]
        BY <1>3, <4>1
      <4> QED
        BY <1>1, <1>4, <3>1, <3>2, <4>1, <4>2 DEF TypeOK
    <3> QED
      BY <1>1, <1>4, <3>1, <3>2, Zenon DEF GuardFrames, Pins
  <2> QED
    BY <2>1, <2>2
<1>12. PinsMatchGuards'
  <2>1. \A x \in Frames : pinCount'[x] = IF x = f THEN pinCount[x] - 1 ELSE pinCount[x]
    BY <1>1, <1>4 DEF TypeOK
  <2> QED
    BY <1>3, <1>10, <2>1, PinsAfterRemove
<1> QED
  BY <1>7, <1>8, <1>9, <1>11, <1>12 DEF PoolInv

--------------------------------------------------------------------------------
\* The bookkeeping invariant is inductive.
LEMMA NextPoolInv == PoolInv /\ [Next]_vars => PoolInv'
<1> SUFFICES ASSUME PoolInv, [Next]_vars PROVE PoolInv'
  OBVIOUS
<1>1. ASSUME NEW g \in Guards, Fetch(g)
      PROVE  PoolInv'
  <2>1. CASE FetchHit(g) \/ FetchRecheckHit(g)
    BY <2>1, PinCachedStep DEF FetchHit, FetchRecheckHit
  <2>2. CASE FetchMiss(g) \/ FetchReadError(g) \/ FetchNoVictim(g) \/ FetchBlocked(g)
    BY <2>2, GuardQuietSteps
  <2>3. CASE FetchFreeFrame(g)
    BY <2>3, FetchFreeFrameStep
  <2>4. CASE FetchEvict(g)
    BY <2>4, FetchEvictStep
  <2>5. CASE FetchWriteError(g)
    BY <2>5, FetchWriteErrorStep
  <2> QED
    BY <1>1, <2>1, <2>2, <2>3, <2>4, <2>5 DEF Fetch
<1>2. ASSUME NEW g \in Guards,
             \/ \E p \in Pages, m \in Modes : NewGuard(g, p, m)
             \/ Latch(g)
             \/ \E v \in Values : Modify(g, v)
             \/ Unlatch(g)
             \/ DeleteBlocked(g)
      PROVE  PoolInv'
  BY <1>2, GuardQuietSteps
<1>3. ASSUME NEW g \in Guards, Unpin(g)
      PROVE  PoolInv'
  BY <1>3, UnpinStep
<1>4. ASSUME NEW g \in Guards, DeletePage(g)
      PROVE  PoolInv'
  BY <1>4, DeletePageStep
<1>5. CASE \/ \E p \in Pages : NewPage(p) \/ CleanupPage(p)
           \/ FlushAllPages
           \/ Close
           \/ UNCHANGED vars
  BY <1>5, PageQuietSteps
<1> QED
  BY <1>1, <1>2, <1>3, <1>4, <1>5 DEF Next

\* The page table, the pin counts, freeFrames, the replacer and the frame
\* pointers of the guards agree in every reachable state, for any pool size,
\* any number of pages and guards, and with or without disk errors.
THEOREM PoolCorrect == Spec => []PoolInv
BY InitPoolInv, NextPoolInv, PTL DEF Spec

\* Every variable keeps its type (simple_buffer_pool_manager.go).
THEOREM TypeCorrect == Spec => []TypeOK
<1>1. PoolInv => TypeOK
  BY DEF PoolInv
<1> QED
  BY <1>1, PoolCorrect, PTL

\* README.md:115: at most one frame in use carries a page, however fetches
\* interleave (fetchPage).
THEOREM SingleCopyHolds == Spec => []SingleCopy
<1>1. PoolInv => SingleCopy
  BY DEF PoolInv, TableMatchesFrames, SingleCopy
<1> QED
  BY <1>1, PoolCorrect, PTL

\* A guard's frame is neither evicted nor reused before the guard unpins it.
THEOREM GuardKeepsItsPageHolds == Spec => []GuardKeepsItsPage
<1>1. PoolInv => GuardKeepsItsPage
  BY DEF PoolInv, GuardFrames, GuardKeepsItsPage, Pins
<1> QED
  BY <1>1, PoolCorrect, PTL

\* pinCount counts the guards that rely on a frame.
THEOREM PinsMatchGuardsHolds == Spec => []PinsMatchGuards
<1>1. PoolInv => PinsMatchGuards
  BY DEF PoolInv
<1> QED
  BY <1>1, PoolCorrect, PTL

\* No frame is in two lists or lost, except by a failed write-back.
THEOREM FrameRolesHold == Spec => []FrameRoles
<1>1. PoolInv => FrameRoles
  BY DEF PoolInv
<1> QED
  BY <1>1, PoolCorrect, PTL
================================================================================
