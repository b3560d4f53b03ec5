------------------------ MODULE BufferPoolFetchProofs ------------------------
(***************************************************************************)
(* The pin counts of the frames against the guards that hold them, the     *)
(* steps of the buffer pool that leave the frames alone, and fetchPage,    *)
(* which preserves the bookkeeping whichever way it finds its frame.       *)
(***************************************************************************)
EXTENDS BufferPool, LRUReplacerProofs, FiniteSetTheorems, TLAPS

PinSet(f) == {g \in Guards : Pins(g, f)}

\* The page table marks a missing page by a value that is no frame.
LEMMA NoFrameIsNoFrame == NoFrame \notin Frames
BY PoolSizeAssumption DEF Frames, NoFrame

\* What the pin count of a frame says about the guards.
LEMMA PinFacts ==
    ASSUME PinsMatchGuards, NEW f \in Frames
    PROVE  /\ IsFiniteSet(PinSet(f))
           /\ pinCount[f] = Cardinality(PinSet(f))
           /\ pinCount[f] \in Nat
           /\ pinCount[f] = 0 => \A g \in Guards : ~Pins(g, f)
           /\ pinCount[f] = 1 =>
                \A g, h \in Guards : Pins(g, f) /\ Pins(h, f) => g = h
<1>1. IsFiniteSet(PinSet(f))
  BY GuardsFinite, FS_Subset DEF PinSet
<1>2. pinCount[f] = Cardinality(PinSet(f))
  BY DEF PinsMatchGuards, PinSet
<1>3. pinCount[f] \in Nat
  BY <1>1, <1>2, FS_CardinalityType
<1>4. pinCount[f] = 0 => PinSet(f) = {}
  BY <1>1, <1>2, FS_EmptySet, Zenon
<1>5. pinCount[f] = 1 => \E x : PinSet(f) = {x}
  BY <1>1, <1>2, FS_Singleton, Zenon
<1> QED
  BY <1>1, <1>2, <1>3, <1>4, <1>5 DEF PinSet

\* Counting the guards of a frame after one guard came or went.
LEMMA PinAdd ==
    ASSUME NEW S, NEW T, NEW g, IsFiniteSet(S), g \notin S, T = S \cup {g}
    PROVE  Cardinality(T) = Cardinality(S) + 1
BY FS_AddElement

LEMMA PinRemove ==
    ASSUME NEW S, NEW T, NEW g, IsFiniteSet(S), g \in S, T = S \ {g}
    PROVE  Cardinality(T) = Cardinality(S) - 1
BY FS_RemoveElement

--------------------------------------------------------------------------------
LEMMA InitPoolInv == Init => PoolInv
<1> SUFFICES ASSUME Init PROVE PoolInv
  OBVIOUS
<1> USE PagesAssumption, PoolSizeAssumption, ValuesAssumption DEF Init, Frames, NoFrame
<1>1. freeFrames \in Seq(Frames) /\ Injective(freeFrames)
      /\ \A f \in Frames : Contains(freeFrames, f)
  <2>1. \A i \in 1..PoolSize : i - 1 \in Frames
    OBVIOUS
  <2>2. freeFrames \in Seq(Frames) /\ DOMAIN freeFrames = 1..PoolSize
    BY <2>1
  <2>3. Injective(freeFrames)
    BY <2>2 DEF Injective
  <2>4. ASSUME NEW f \in Frames
        PROVE  Contains(freeFrames, f)
    <3>1. f + 1 \in DOMAIN freeFrames /\ freeFrames[f + 1] = f
      BY <2>2
    <3> QED
      BY <3>1 DEF Contains
  <2> QED
    BY <2>2, <2>3, <2>4
<1>2. replacer \in Seq(Frames) /\ Injective(replacer) /\ \A f : ~Contains(replacer, f)
  BY DEF Injective, Contains
<1>3. TypeOK
  BY <1>1, <1>2, Zenon DEF TypeOK, Controls, Modes
<1>4. FrameRoles
  BY <1>1, <1>2 DEF FrameRoles, Free, Evictable, Pinned
<1>5. TableMatchesFrames
  BY <1>2 DEF TableMatchesFrames, Cached, Evictable, Pinned
<1>6. GuardFrames
  BY DEF GuardFrames, Pins
<1>7. PinsMatchGuards
  <2>1. \A f \in Frames : {g \in Guards : Pins(g, f)} = {}
    BY DEF Pins
  <2> QED
    BY <2>1, FS_EmptySet, Zenon DEF PinsMatchGuards
<1> QED
  BY <1>3, <1>4, <1>5, <1>6, <1>7 DEF PoolInv

--------------------------------------------------------------------------------
(* Steps that leave the bookkeeping of the pool alone.                     *)

Bookkeeping == <<pageTable, pageId, pinCount, freeFrames, replacer, frameAllocationMutex>>

LEMMA QuietStep ==
    ASSUME PoolInv, TypeOK', GuardFrames', UNCHANGED Bookkeeping,
           \A g \in Guards, f \in Frames : Pins(g, f)' <=> Pins(g, f)
    PROVE  PoolInv'
<1>1. FrameRoles'
  BY DEF PoolInv, FrameRoles, Bookkeeping, Free, Evictable, Pinned
<1>2. TableMatchesFrames'
  BY DEF PoolInv, TableMatchesFrames, Bookkeeping, Cached, Evictable, Pinned
<1>3. PinsMatchGuards'
  <2>1. \A f \in Frames :
          {g \in Guards : Pins(g, f)'} = {g \in Guards : Pins(g, f)}
    OBVIOUS
  <2> QED
    BY <2>1 DEF PoolInv, PinsMatchGuards, Bookkeeping
<1> QED
  BY <1>1, <1>2, <1>3 DEF PoolInv

\* Steps of one guard that move neither frame nor pins.
LEMMA GuardQuietSteps ==
    ASSUME PoolInv, NEW g \in Guards,
           \/ \E p \in Pages, m \in Modes : NewGuard(g, p, m)
           \/ FetchMiss(g)
           \/ FetchReadError(g)
           \/ FetchNoVictim(g)
           \/ FetchBlocked(g)
           \/ Latch(g)
           \/ \E v \in Values : Modify(g, v)
           \/ Unlatch(g)
           \/ DeleteBlocked(g)
    PROVE  PoolInv'
<1> USE DEF poolVars, guardVars, Bookkeeping, Goto, NoFrame, Frames
<1>1. TypeOK /\ GuardFrames
  BY DEF PoolInv
<1>2. ASSUME NEW p \in Pages, NEW m \in Modes, NewGuard(g, p, m)
      PROVE  PoolInv'
  <2>1. TypeOK'
    BY <1>1, <1>2 DEF TypeOK, NewGuard, Controls
  <2>2. GuardFrames' /\ \A h \in Guards, f \in Frames : Pins(h, f)' <=> Pins(h, f)
    BY <1>1, <1>2 DEF TypeOK, NewGuard, GuardFrames, Pins
  <2> QED
    BY <1>2, <2>1, <2>2, QuietStep DEF NewGuard
<1>3. ASSUME FetchMiss(g)
      PROVE  PoolInv'
  <2>1. TypeOK'
    BY <1>1, <1>3 DEF TypeOK, FetchMiss, Controls
  <2>2. GuardFrames' /\ \A h \in Guards, f \in Frames : Pins(h, f)' <=> Pins(h, f)
    BY <1>1, <1>3 DEF TypeOK, FetchMiss, GuardFrames, Pins
  <2> QED
    BY <1>3, <2>1, <2>2, QuietStep DEF FetchMiss
<1>4. ASSUME FetchReadError(g)
      PROVE  PoolInv'
  <2>1. TypeOK'
    BY <1>1, <1>4, PagesAssumption DEF TypeOK, FetchReadError, Drop, Controls, Modes
  <2>2. GuardFrames' /\ \A h \in Guards, f \in Frames : Pins(h, f)' <=> Pins(h, f)
    BY <1>1, <1>4 DEF TypeOK, FetchReadError, Drop, Missing, GuardFrames, Pins
  <2> QED
    BY <1>4, <2>1, <2>2, QuietStep DEF FetchReadError
<1>5. ASSUME FetchNoVictim(g)
      PROVE  PoolInv'
  <2>1. TypeOK'
    BY <1>1, <1>5 DEF TypeOK, FetchNoVictim
  <2>2. GuardFrames' /\ \A h \in Guards, f \in Frames : Pins(h, f)' <=> Pins(h, f)
    BY <1>1, <1>5 DEF TypeOK, FetchNoVictim, GuardFrames, Pins
  <2> QED
    BY <1>5, <2>1, <2>2, QuietStep DEF FetchNoVictim
<1>6. ASSUME FetchBlocked(g)
      PROVE  PoolInv'
  <2>1. TypeOK'
    BY <1>1, <1>6 DEF TypeOK, FetchBlocked, Controls
  <2>2. GuardFrames' /\ \A h \in Guards, f \in Frames : Pins(h, f)' <=> Pins(h, f)
    BY <1>1, <1>6 DEF TypeOK, FetchBlocked, Missing, GuardFrames, Pins
  <2> QED
    BY <1>6, <2>1, <2>2, QuietStep DEF FetchBlocked
<1>7. ASSUME Latch(g)
      PROVE  PoolInv'
  <2>1. TypeOK'
    BY <1>1, <1>7 DEF TypeOK, Latch, Controls
  <2>2. GuardFrames' /\ \A h \in Guards, f \in Frames : Pins(h, f)' <=> Pins(h, f)
    BY <1>1, <1>7 DEF TypeOK, Latch, GuardFrames, Pins
  <2> QED
    BY <1>7, <2>1, <2>2, QuietStep DEF Latch
<1>8. ASSUME NEW v \in Values, Modify(g, v)
      PROVE  PoolInv'
  <2>1. TypeOK'
    BY <1>1, <1>8, Zenon DEF TypeOK, Modify, SetDirtyFlag
  <2>2. GuardFrames' /\ \A h \in Guards, f \in Frames : Pins(h, f)' <=> Pins(h, f)
    BY <1>1, <1>8 DEF TypeOK, Modify, GuardFrames, Pins
  <2> QED
    BY <1>8, <2>1, <2>2, QuietStep DEF Modify
<1>9. ASSUME Unlatch(g)
      PROVE  PoolInv'
  <2>1. TypeOK'
    BY <1>1, <1>9, PagesAssumption DEF TypeOK, Unlatch, Drop, Controls, Modes
  <2>2. GuardFrames' /\ \A h \in Guards, f \in Frames : Pins(h, f)' <=> Pins(h, f)
    BY <1>1, <1>9 DEF TypeOK, Unlatch, Drop, GuardFrames, Pins
  <2> QED
    BY <1>9, <2>1, <2>2, QuietStep DEF Unlatch
<1>10. ASSUME DeleteBlocked(g)
       PROVE  PoolInv'
  <2>1. TypeOK'
    BY <1>1, <1>10 DEF TypeOK, DeleteBlocked, Controls
  <2>2. GuardFrames' /\ \A h \in Guards, f \in Frames : Pins(h, f)' <=> Pins(h, f)
    BY <1>1, <1>10 DEF TypeOK, DeleteBlocked, GuardFrames, Pins
  <2> QED
    BY <1>10, <2>1, <2>2, QuietStep, Zenon DEF DeleteBlocked
<1> QED
  BY <1>2, <1>3, <1>4, <1>5, <1>6, <1>7, <1>8, <1>9, <1>10

\* NewPage, CleanupPage, FlushAllPages and Close touch no frame and no guard.
LEMMA PageQuietSteps ==
    ASSUME PoolInv,
           \/ \E p \in Pages : NewPage(p) \/ CleanupPage(p)
           \/ FlushAllPages
           \/ Close
           \/ UNCHANGED vars
    PROVE  PoolInv'
<1> USE DEF poolVars, guardVars, vars, Bookkeeping
<1>1. TypeOK /\ GuardFrames
  BY DEF PoolInv
<1> DEFINE Effect ==
             /\ UNCHANGED <<Bookkeeping, guardVars, dirty, data>>
             /\ allocated' \in SUBSET Pages
             /\ disk' \in [Pages -> Values]
             /\ status' \in {"open", "closed", "crashed"}
<1>2. Effect
  <2>1. ASSUME \E p \in Pages : NewPage(p) \/ CleanupPage(p)
        PROVE  Effect
    BY <1>1, <2>1 DEF TypeOK, NewPage, CleanupPage
  <2>2. ASSUME FlushAll \/ FlushFails
        PROVE  disk' \in [Pages -> Values]
    <3>1. \A p \in DirtyPages : pageTable[p] \in Frames
      BY <1>1 DEF TypeOK, DirtyPages, Cached
    <3> QED
      BY <1>1, <2>2, <3>1 DEF TypeOK, FlushAll, FlushFails
  <2>3. ASSUME FlushAllPages
        PROVE  Effect
    BY <1>1, <2>2, <2>3 DEF TypeOK, FlushAllPages
  <2>4. ASSUME Close
        PROVE  Effect
    BY <1>1, <2>2, <2>4 DEF TypeOK, Close
  <2>5. ASSUME UNCHANGED vars
        PROVE  Effect
    BY <1>1, <2>5 DEF TypeOK
  <2> QED
    BY <2>1, <2>3, <2>4, <2>5
<1>3. TypeOK'
  BY <1>1, <1>2 DEF TypeOK
<1>4. GuardFrames' /\ \A h \in Guards, f \in Frames : Pins(h, f)' <=> Pins(h, f)
  BY <1>1, <1>2 DEF GuardFrames, Pins
<1> QED
  BY <1>2, <1>3, <1>4, QuietStep

--------------------------------------------------------------------------------
(* Steps that move frames or pins.                                         *)

\* The pin counts after guard g began to pin frame f and nothing else changed
\* hands.
LEMMA PinsAfterAdd ==
    ASSUME PoolInv, NEW g \in Guards, NEW f \in Frames,
           \A x \in Frames : ~Pins(g, x),
           \A h \in Guards, x \in Frames :
                Pins(h, x)' <=> Pins(h, x) \/ (h = g /\ x = f),
           \A x \in Frames : pinCount'[x] = IF x = f THEN pinCount[x] + 1 ELSE pinCount[x]
    PROVE  PinsMatchGuards'
<1> SUFFICES ASSUME NEW x \in Frames
             PROVE  pinCount'[x] = Cardinality({h \in Guards : Pins(h, x)'})
  BY DEF PinsMatchGuards, Frames
<1>1. PinsMatchGuards
  BY DEF PoolInv
<1>2. IsFiniteSet(PinSet(x)) /\ pinCount[x] = Cardinality(PinSet(x))
  BY <1>1, PinFacts
<1>3. CASE x = f
  <2>1. {h \in Guards : Pins(h, x)'} = PinSet(x) \cup {g} /\ g \notin PinSet(x)
    BY <1>3 DEF PinSet
  <2> QED
    BY <1>2, <1>3, <2>1, PinAdd
<1>4. CASE x # f
  <2>1. {h \in Guards : Pins(h, x)'} = PinSet(x)
    BY <1>4 DEF PinSet
  <2> QED
    BY <1>2, <1>4, <2>1
<1> QED
  BY <1>3, <1>4

\* The pin counts after guard g stopped to pin frame f.
LEMMA PinsAfterRemove ==
    ASSUME PoolInv, NEW g \in Guards, NEW f \in Frames,
           Pins(g, f),
           \A h \in Guards, x \in Frames :
                Pins(h, x)' <=> Pins(h, x) /\ ~(h = g /\ x = f),
           \A x \in Frames : pinCount'[x] = IF x = f THEN pinCount[x] - 1 ELSE pinCount[x]
    PROVE  PinsMatchGuards'
<1> SUFFICES ASSUME NEW x \in Frames
             PROVE  pinCount'[x] = Cardinality({h \in Guards : Pins(h, x)'})
  BY DEF PinsMatchGuards, Frames
<1>1. PinsMatchGuards
  BY DEF PoolInv
<1>2. IsFiniteSet(PinSet(x)) /\ pinCount[x] = Cardinality(PinSet(x))
  BY <1>1, PinFacts
<1>3. CASE x = f
  <2>1. {h \in Guards : Pins(h, x)'} = PinSet(x) \ {g} /\ g \in PinSet(x)
    BY <1>3 DEF PinSet
  <2> QED
    BY <1>2, <1>3, <2>1, PinRemove
<1>4. CASE x # f
  <2>1. {h \in Guards : Pins(h, x)'} = PinSet(x)
    BY <1>4 DEF PinSet
  <2> QED
    BY <1>2, <1>4, <2>1
<1> QED
  BY <1>3, <1>4

--------------------------------------------------------------------------------
(* fetchPage                                                               *)


\* A cached page whose frame nobody pins is in the replacer: remove does not
\* panic when fetchPage pins it.
LEMMA RemoveNeverPanics ==
    ASSUME PoolInv, NEW p \in Pages, Cached(p)
    PROVE  /\ pageTable[p] \in Frames
           /\ pageId[pageTable[p]] = p
           /\ pinCount[pageTable[p]] \in Nat
           /\ pinCount[pageTable[p]] = 0 <=> Contains(replacer, pageTable[p])
           /\ ~Free(pageTable[p])
BY DEF PoolInv, TypeOK, Cached, TableMatchesFrames, FrameRoles, Evictable, Pinned, Free

\* fetchPage finds the page in a frame.
LEMMA PinCachedStep ==
    ASSUME PoolInv, NEW g \in Guards, pc[g] \in {"lookup", "miss"}, PinCached(g)
    PROVE  PoolInv' /\ status' = status
<1> DEFINE f == pageTable[page[g]]
<1>1. TypeOK /\ GuardFrames /\ FrameRoles /\ TableMatchesFrames
  BY DEF PoolInv
<1>2. page[g] \in Pages /\ Cached(page[g])
  BY <1>1 DEF TypeOK, PinCached
<1>3. /\ f \in Frames
      /\ pageId[f] = page[g]
      /\ pinCount[f] \in Nat
      /\ pinCount[f] = 0 <=> Contains(replacer, f)
      /\ ~Free(f)
  BY <1>2, RemoveNeverPanics
<1>4. /\ pinCount' = [pinCount EXCEPT ![f] = @ + 1]
      /\ frame' = [frame EXCEPT ![g] = f]
      /\ pc' = [pc EXCEPT ![g] = "latch"]
      /\ status' = status
      /\ replacer' = IF pinCount[f] = 0 THEN LRURemove(replacer, f) ELSE replacer
      /\ UNCHANGED <<pageTable, pageId, dirty, data, freeFrames,
                     frameAllocationMutex, disk, allocated, page, mode>>
  BY <1>3 DEF PinCached, Unlist, Goto
<1>5. /\ replacer' \in Seq(Frames)
      /\ Injective(replacer')
      /\ \A x : Contains(replacer', x) <=> Contains(replacer, x) /\ x # f
  BY <1>1, <1>3, <1>4, RemoveLemma DEF TypeOK, FrameRoles
<1> HIDE DEF f
<1>6. TypeOK'
  BY <1>1, <1>3, <1>4, <1>5 DEF TypeOK, Controls
<1>7. FrameRoles'
  BY <1>1, <1>3, <1>4, <1>5 DEF TypeOK, FrameRoles, Free, Evictable, Pinned
<1>8. TableMatchesFrames'
  <2>1. pageTable[page[g]] = f
    BY DEF f
  <2> QED
    BY <1>1, <1>3, <1>4, <1>5, <2>1 DEF TypeOK, TableMatchesFrames, Cached, Evictable, Pinned
<1>9. GuardFrames'
  <2>1. pageTable[page[g]] = f
    BY DEF f
  <2> QED
    BY <1>1, <1>3, <1>4, <2>1 DEF TypeOK, GuardFrames, Pins
<1>10. PinsMatchGuards'
  <2>1. \A x \in Frames : ~Pins(g, x)
    BY DEF Pins
  <2>2. \A h \in Guards, x \in Frames : Pins(h, x)' <=> Pins(h, x) \/ (h = g /\ x = f)
    BY <1>1, <1>4, <2>1 DEF TypeOK, Pins
  <2>3. \A x \in Frames : pinCount'[x] = IF x = f THEN pinCount[x] + 1 ELSE pinCount[x]
    BY <1>1, <1>4 DEF TypeOK
  <2> QED
    BY <1>3, <2>1, <2>2, <2>3, PinsAfterAdd
<1> QED
  BY <1>4, <1>6, <1>7, <1>8, <1>9, <1>10 DEF PoolInv

\* fetchPage loads a page into a frame f that nobody pins and that it has taken
\* from freeFrames or from the replacer, and whose old page has left the table.
LEMMA LoadStep ==
    ASSUME PoolInv, NEW g \in Guards, pc[g] = "miss", ~Cached(page[g]),
           NEW f \in Frames, pinCount[f] = 0,
           NEW tbl \in [Pages -> Frames \cup {NoFrame}],
           \A p \in Pages : tbl[p] = IF pageTable[p] = f THEN NoFrame ELSE pageTable[p],
           Load(g, f, tbl),
           freeFrames' \in Seq(Frames), Injective(freeFrames'),
           \A x : Contains(freeFrames', x) <=> Contains(freeFrames, x) /\ x # f,
           replacer' \in Seq(Frames), Injective(replacer'),
           \A x : Contains(replacer', x) <=> Contains(replacer, x) /\ x # f,
           disk' \in [Pages -> Values],
           UNCHANGED <<frameAllocationMutex, allocated, status, page, mode>>
    PROVE  PoolInv'
<1>1. TypeOK /\ GuardFrames /\ FrameRoles /\ TableMatchesFrames /\ PinsMatchGuards
  BY DEF PoolInv
<1>2. /\ page[g] \in Pages
      /\ pageTable[page[g]] = NoFrame
      /\ f # NoFrame
  BY <1>1 DEF TypeOK, Cached, Frames, NoFrame
<1>3. \A h \in Guards : ~Pins(h, f)
  BY <1>1, PinFacts
<1>4. /\ pinCount' = [pinCount EXCEPT ![f] = 1]
      /\ pageId' = [pageId EXCEPT ![f] = page[g]]
      /\ pageTable' = [tbl EXCEPT ![page[g]] = f]
      /\ frame' = [frame EXCEPT ![g] = f]
      /\ pc' = [pc EXCEPT ![g] = "latch"]
  BY DEF Load, Goto
<1>5. TypeOK'
  <2>1. data' \in [Frames -> Values] /\ dirty' \in [Frames -> BOOLEAN]
    BY <1>1, <1>2, Zenon DEF TypeOK, Load
  <2> QED
    BY <1>1, <1>2, <1>4, <2>1, Zenon DEF TypeOK, Controls
<1>6. FrameRoles'
  BY <1>1, <1>4 DEF TypeOK, FrameRoles, Free, Evictable, Pinned
<1>7. TableMatchesFrames'
  <2>1. ASSUME NEW p \in Pages, Cached(p)'
        PROVE  pageId'[pageTable'[p]] = p /\ (Evictable(pageTable[p]) \/ Pinned(pageTable[p]))'
    <3>1. CASE p = page[g]
      BY <1>1, <1>2, <1>4, <3>1 DEF TypeOK, Pinned
    <3>2. CASE p # page[g]
      <4>1. pageTable'[p] = pageTable[p] /\ pageTable[p] # f /\ pageTable[p] # NoFrame
        BY <1>1, <1>4, <2>1, <3>2 DEF Cached
      <4>2. pageId'[pageTable[p]] = p /\ pinCount'[pageTable[p]] = pinCount[pageTable[p]]
        BY <1>1, <1>4, <4>1 DEF TypeOK, TableMatchesFrames, Cached
      <4> QED
        BY <1>1, <4>1, <4>2 DEF TableMatchesFrames, Cached, Evictable, Pinned
    <3> QED
      BY <3>1, <3>2
  <2>2. ASSUME NEW x \in Frames, (Evictable(x) \/ Pinned(x))'
        PROVE  pageTable'[pageId'[x]] = x
    <3>1. CASE x = f
      BY <1>1, <1>2, <1>4, <3>1 DEF TypeOK
    <3>2. CASE x # f
      <4>1. pageId'[x] = pageId[x] /\ pageId[x] \in Pages /\ pinCount'[x] = pinCount[x]
        BY <1>1, <1>4, <3>2 DEF TypeOK
      <4>2. pageTable[pageId[x]] = x
        BY <1>1, <2>2, <4>1 DEF TableMatchesFrames, Evictable, Pinned
      <4>3. x # NoFrame
        BY NoFrameIsNoFrame, Zenon
      <4>4. pageId[x] # page[g]
        BY <1>2, <4>2, <4>3, Zenon
      <4>5. tbl[pageId[x]] = x
        BY <3>2, <4>1, <4>2, Zenon
      <4> QED
        BY <1>4, <4>1, <4>4, <4>5
    <3> QED
      BY <3>1, <3>2
  <2> QED
    BY <2>1, <2>2, Zenon DEF TableMatchesFrames, Frames
<1>8. GuardFrames'
  <2> SUFFICES ASSUME NEW h \in Guards
               PROVE  /\ pc'[h] \in {"idle", "lookup", "miss"} => frame'[h] = NoFrame
                      /\ pc'[h] \in {"latch", "active", "unlatch"} => frame'[h] \in Frames
                      /\ frame'[h] \in Frames /\ Pins(h, frame[h])' =>
                            /\ pageTable'[page[h]] = frame'[h]
                            /\ pageId'[frame'[h]] = page[h]
    BY DEF GuardFrames, Frames, NoFrame
  <2>1. CASE h = g
    BY <1>1, <1>2, <1>4, <2>1 DEF TypeOK
  <2>2. CASE h # g
    <3>1. frame'[h] = frame[h] /\ pc'[h] = pc[h] /\ page[h] \in Pages
      BY <1>1, <1>4, <2>2 DEF TypeOK
    <3>2. ASSUME frame[h] \in Frames, Pins(h, frame[h])
          PROVE  pageTable'[page[h]] = frame[h] /\ pageId'[frame[h]] = page[h]
      <4>1. /\ pageTable[page[h]] = frame[h]
            /\ pageId[frame[h]] = page[h]
            /\ frame[h] # f
        BY <1>1, <1>3, <3>2 DEF GuardFrames
      <4>2. frame[h] # NoFrame
        BY <3>2, NoFrameIsNoFrame, Zenon
      <4>3. page[h] # page[g]
        BY <1>2, <4>1, <4>2, Zenon
      <4> QED
        BY <1>1, <1>4, <3>1, <3>2, <4>1, <4>3 DEF TypeOK
    <3> QED
      BY <1>1, <3>1, <3>2 DEF GuardFrames, Pins
  <2> QED
    BY <2>1, <2>2
<1>9. PinsMatchGuards'
  <2>1. \A x \in Frames : ~Pins(g, x)
    BY DEF Pins
  <2>2. \A h \in Guards, x \in Frames : Pins(h, x)' <=> Pins(h, x) \/ (h = g /\ x = f)
    BY <1>1, <1>4, <2>1 DEF TypeOK, Pins
  <2>3. \A x \in Frames : pinCount'[x] = IF x = f THEN pinCount[x] + 1 ELSE pinCount[x]
    BY <1>1, <1>4 DEF TypeOK
  <2> QED
    BY <2>1, <2>2, <2>3, PinsAfterAdd
<1> QED
  BY <1>5, <1>6, <1>7, <1>8, <1>9 DEF PoolInv

\* fetchPage takes a frame without a page.
LEMMA FetchFreeFrameStep ==
    ASSUME PoolInv, NEW g \in Guards, FetchFreeFrame(g)
    PROVE  PoolInv'
<1> DEFINE f == Head(freeFrames)
<1>1. TypeOK /\ FrameRoles
  BY DEF PoolInv
<1>2. /\ f \in Frames
      /\ Contains(freeFrames, f)
      /\ freeFrames' \in Seq(Frames)
      /\ Injective(freeFrames')
      /\ \A x : Contains(freeFrames', x) <=> Contains(freeFrames, x) /\ x # f
  BY <1>1, HeadTailLemma DEF FetchFreeFrame, TypeOK, FrameRoles
<1>3. pinCount[f] = 0 /\ ~Contains(replacer, f)
  BY <1>1, <1>2 DEF TypeOK, FrameRoles, Free, Evictable, Pinned
<1>4. ASSUME NEW p \in Pages PROVE pageTable[p] # f
  <2>1. f # NoFrame
    BY <1>2, NoFrameIsNoFrame, Zenon
  <2>2. Cached(p) => ~Contains(freeFrames, pageTable[p])
    BY RemoveNeverPanics DEF Free
  <2> QED
    BY <1>2, <2>1, <2>2, Zenon DEF Cached
<1>5. /\ pc[g] = "miss"
      /\ ~Cached(page[g])
      /\ Load(g, f, pageTable)
      /\ UNCHANGED <<replacer, frameAllocationMutex, disk, allocated, status, page, mode>>
  BY DEF FetchFreeFrame, Missing
<1> HIDE DEF f
<1>6. /\ replacer' \in Seq(Frames)
      /\ Injective(replacer')
      /\ \A x : Contains(replacer', x) <=> Contains(replacer, x) /\ x # f
  BY <1>1, <1>3, <1>5 DEF TypeOK, FrameRoles
<1>7. pageTable \in [Pages -> Frames \cup {NoFrame}] /\ disk' \in [Pages -> Values]
  BY <1>1, <1>5 DEF TypeOK
<1> QED
  BY <1>2, <1>3, <1>4, <1>5, <1>6, <1>7, LoadStep

\* fetchPage evicts the replacer's victim.
LEMMA FetchEvictStep ==
    ASSUME PoolInv, NEW g \in Guards, FetchEvict(g)
    PROVE  PoolInv'
<1> DEFINE f == VictimOf(replacer)
           tbl == [pageTable EXCEPT ![pageId[f]] = NoFrame]
<1>1. TypeOK /\ FrameRoles /\ TableMatchesFrames
  BY DEF PoolInv
<1>2. /\ f \in Frames
      /\ Contains(replacer, f)
      /\ replacer' \in Seq(Frames)
      /\ Injective(replacer')
      /\ \A x : Contains(replacer', x) <=> Contains(replacer, x) /\ x # f
  BY <1>1, VictimLemma DEF FetchEvict, TypeOK, FrameRoles
<1>3. pinCount[f] = 0 /\ ~Contains(freeFrames, f)
  BY <1>1, <1>2 DEF TypeOK, FrameRoles, Free, Evictable, Pinned
<1>4. /\ pc[g] = "miss"
      /\ ~Cached(page[g])
      /\ Load(g, f, tbl)
      /\ disk' = IF dirty[f] THEN [disk EXCEPT ![pageId[f]] = data[f]] ELSE disk
      /\ UNCHANGED <<freeFrames, frameAllocationMutex, allocated, status, page, mode>>
  BY DEF FetchEvict, WriteBack, Missing
<1> HIDE DEF f
<1>5. \A p \in Pages : pageTable[p] = f <=> p = pageId[f]
  BY <1>1, <1>2 DEF TypeOK, TableMatchesFrames, Evictable, Cached, Frames, NoFrame
<1>6. /\ tbl \in [Pages -> Frames \cup {NoFrame}]
      /\ \A p \in Pages : tbl[p] = IF pageTable[p] = f THEN NoFrame ELSE pageTable[p]
  BY <1>1, <1>2, <1>5 DEF TypeOK
<1>7. /\ freeFrames' \in Seq(Frames)
      /\ Injective(freeFrames')
      /\ \A x : Contains(freeFrames', x) <=> Contains(freeFrames, x) /\ x # f
  BY <1>1, <1>3, <1>4 DEF TypeOK, FrameRoles
<1>8. disk' \in [Pages -> Values]
  BY <1>1, <1>2, <1>4 DEF TypeOK
<1> HIDE DEF tbl
<1> QED
  BY <1>2, <1>3, <1>4, <1>6, <1>7, <1>8, LoadStep

\* fetchPage cannot write its victim back: the frame is in no list, which the
\* mutex left locked records.
LEMMA FetchWriteErrorStep ==
    ASSUME PoolInv, NEW g \in Guards, FetchWriteError(g)
    PROVE  PoolInv'
<1> DEFINE f == VictimOf(replacer)
<1>1. TypeOK /\ FrameRoles /\ TableMatchesFrames /\ GuardFrames /\ PinsMatchGuards
  BY DEF PoolInv
<1>2. /\ f \in Frames
      /\ Contains(replacer, f)
      /\ replacer' \in Seq(Frames)
      /\ Injective(replacer')
      /\ \A x : Contains(replacer', x) <=> Contains(replacer, x) /\ x # f
  BY <1>1, VictimLemma DEF FetchWriteError, TypeOK, FrameRoles
<1>3. /\ pinCount[f] = 0
      /\ \A h \in Guards : ~Pins(h, f)
      /\ pageTable[pageId[f]] = f
      /\ pageId[f] \in Pages
  BY <1>1, <1>2, PinFacts
     DEF TypeOK, FrameRoles, TableMatchesFrames, Evictable, Pinned
<1>4. /\ pc[g] = "miss"
      /\ pageTable' = [pageTable EXCEPT ![pageId[f]] = NoFrame]
      /\ disk' \in [Pages -> Values]
      /\ frameAllocationMutex' = TRUE
      /\ pc' = [pc EXCEPT ![g] = "idle"]
      /\ page' = [page EXCEPT ![g] = METADATA_PAGE_ID]
      /\ mode' = [mode EXCEPT ![g] = "read"]
      /\ frame' = [frame EXCEPT ![g] = NoFrame]
      /\ UNCHANGED <<pageId, pinCount, dirty, data, freeFrames, allocated, status>>
  <2>1. disk' \in [Pages -> Values]
    BY <1>1, Zenon DEF FetchWriteError, TypeOK
  <2> QED
    BY <2>1, Zenon DEF FetchWriteError, Missing, Drop, Goto
<1> HIDE DEF f
<1>5. TypeOK'
  BY <1>1, <1>2, <1>4, PagesAssumption DEF TypeOK, Controls, Modes
<1>6. FrameRoles'
  BY <1>1, <1>2, <1>4, Zenon DEF FrameRoles, Free, Evictable, Pinned
<1>7. TableMatchesFrames'
  <2>1. \A p \in Pages : pageTable'[p] # NoFrame =>
            pageTable'[p] = pageTable[p] /\ pageTable[p] # f
    BY <1>1, <1>2, <1>3, <1>4 DEF TypeOK, TableMatchesFrames, Cached
  <2>2. \A x \in Frames : x # f /\ pageTable[pageId[x]] = x => pageTable'[pageId[x]] = x
    BY <1>1, <1>2, <1>3, <1>4 DEF TypeOK
  <2>3. ASSUME NEW p \in Pages, Cached(p)'
        PROVE  pageId'[pageTable'[p]] = p /\ (Evictable(pageTable[p]) \/ Pinned(pageTable[p]))'
    <3>1. pageTable'[p] = pageTable[p] /\ pageTable[p] # f /\ Cached(p)
      BY <2>1, <2>3 DEF Cached
    <3>2. pageId[pageTable[p]] = p /\ (Evictable(pageTable[p]) \/ Pinned(pageTable[p]))
      BY <1>1, <3>1 DEF TableMatchesFrames
    <3> QED
      BY <1>2, <1>4, <3>1, <3>2 DEF Evictable, Pinned
  <2>4. ASSUME NEW x \in Frames, (Evictable(x) \/ Pinned(x))'
        PROVE  pageTable'[pageId'[x]] = x
    <3>1. Evictable(x)' => Evictable(x) /\ x # f
      BY <1>2, Zenon DEF Evictable
    <3>2. pinCount' = pinCount /\ pinCount[f] = 0
      BY <1>3, <1>4
    <3>3. Pinned(x)' => Pinned(x) /\ x # f
      BY <3>2 DEF Pinned
    <3>4. x # f /\ (Evictable(x) \/ Pinned(x))
      BY <2>4, <3>1, <3>3
    <3> QED
      BY <1>1, <1>4, <2>2, <3>4 DEF TableMatchesFrames
  <2> QED
    BY <2>3, <2>4 DEF TableMatchesFrames, Frames
<1>8. \A h \in Guards, x \in Frames : Pins(h, x)' <=> Pins(h, x)
  BY <1>1, <1>4 DEF TypeOK, Pins, Frames, NoFrame
<1>9. GuardFrames'
  <2> SUFFICES ASSUME NEW h \in Guards
               PROVE  /\ pc'[h] \in {"idle", "lookup", "miss"} => frame'[h] = NoFrame
                      /\ pc'[h] \in {"latch", "active", "unlatch"} => frame'[h] \in Frames
                      /\ frame'[h] \in Frames /\ Pins(h, frame[h])' =>
                            /\ pageTable'[page'[h]] = frame'[h]
                            /\ pageId'[frame'[h]] = page'[h]
    BY DEF GuardFrames, Frames, NoFrame
  <2>1. CASE h = g
    BY <1>1, <1>4, <2>1 DEF TypeOK, Pins
  <2>2. CASE h # g
    <3>1. frame'[h] = frame[h] /\ pc'[h] = pc[h] /\ page'[h] = page[h] /\ page[h] \in Pages
      BY <1>1, <1>4, <2>2 DEF TypeOK
    <3>2. ASSUME frame[h] \in Frames, Pins(h, frame[h])
          PROVE  pageTable'[page[h]] = frame[h] /\ pageId[frame[h]] = page[h]
      <4>1. /\ pageTable[page[h]] = frame[h]
            /\ pageId[frame[h]] = page[h]
            /\ frame[h] # f
        BY <1>1, <1>3, <3>2 DEF GuardFrames
      <4>2. page[h] # pageId[f]
        BY <1>3, <4>1
      <4> QED
        BY <1>1, <1>4, <3>1, <4>1, <4>2 DEF TypeOK
    <3> QED
      BY <1>1, <1>4, <3>1, <3>2 DEF GuardFrames, Pins
  <2> QED
    BY <2>1, <2>2
<1>10. PinsMatchGuards'
  <2>1. \A x \in Frames : {h \in Guards : Pins(h, x)'} = {h \in Guards : Pins(h, x)}
    BY <1>8
  <2> QED
    BY <1>1, <1>4, <2>1 DEF PinsMatchGuards
<1> QED
  BY <1>5, <1>6, <1>7, <1>9, <1>10 DEF PoolInv

================================================================================
