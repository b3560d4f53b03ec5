--------------------------- MODULE DiskManagerProofs ---------------------------
(***************************************************************************)
(* The allocator's invariant and its refinement of PageAllocator, for any  *)
(* number of pages, any growth step and any size of the metadata page.     *)
(***************************************************************************)
EXTENDS DiskManager, LRUReplacerProofs

\* Removing position i by moving the last element there drops exactly the page
\* id at i (wal_recovery.go, RedoCreatePageOperation).
LEMMA SwapRemoveLemma ==
    ASSUME NEW S, NEW list \in Seq(S), Injective(list), NEW i \in DOMAIN list
    PROVE  /\ SwapRemove(list, i) \in Seq(S)
           /\ \A x : Contains(SwapRemove(list, i), x) <=> Contains(list, x) /\ x # list[i]
           /\ Injective(SwapRemove(list, i))
<1> DEFINE n == Len(list)
           new == SwapRemove(list, i)
<1>1. n \in Nat \ {0} /\ DOMAIN list = 1..n /\ i \in 1..n /\ n \in DOMAIN list
  OBVIOUS
<1>2. new = [j \in 1..(n - 1) |-> IF j = i THEN list[n] ELSE list[j]]
  BY DEF SwapRemove
<1>3. \A j \in DOMAIN list : list[j] \in S
  OBVIOUS
<1> HIDE DEF n, new
<1>4. \A j \in 1..(n - 1) : (IF j = i THEN list[n] ELSE list[j]) \in S
  BY <1>1, <1>3
<1>5. new \in Seq(S) /\ DOMAIN new = 1..(n - 1)
  BY <1>1, <1>2, <1>4
<1>6. ASSUME NEW j \in DOMAIN new
      PROVE  \E k \in DOMAIN list : k # i /\ new[j] = list[k] /\ k = IF j = i THEN n ELSE j
  BY <1>1, <1>2, <1>5
<1>7. ASSUME NEW k \in DOMAIN list, k # i
      PROVE  \E j \in DOMAIN new : new[j] = list[k]
  <2>1. CASE k = n
    BY <1>1, <1>2, <1>5, <1>7, <2>1
  <2>2. CASE k # n
    BY <1>1, <1>2, <1>5, <1>7, <2>2
  <2> QED
    BY <2>1, <2>2
<1>8. ASSUME NEW x
      PROVE  Contains(new, x) <=> Contains(list, x) /\ x # list[i]
  BY <1>6, <1>7 DEF Contains, Injective
<1>9. Injective(new)
  <2> SUFFICES ASSUME NEW j \in DOMAIN new, NEW k \in DOMAIN new, new[j] = new[k]
               PROVE  j = k
    BY DEF Injective
  <2> QED
    BY <1>1, <1>5, <1>6 DEF Injective
<1> QED
  BY <1>5, <1>8, <1>9 DEF new

--------------------------------------------------------------------------------
LEMMA InitAllocatorInv == Init => AllocatorInv
<1> SUFFICES ASSUME Init PROVE AllocatorInv
  OBVIOUS
<1> USE MaxPageIdAssumption DEF Init, PageIds
<1>1. Injective(<<>>) /\ \A x : ~Contains(<<>>, x)
  BY DEF Injective, Contains
<1>2. TypeOK
  BY DEF TypeOK
<1>3. Partitioned(0, <<>>, [p \in PageIds |-> 0], {})
  BY <1>1 DEF Partitioned
<1> QED
  BY <1>1, <1>2, <1>3 DEF AllocatorInv, PagesPartitioned, PagesAreInFile

\* Steps that write, close or reopen the file.
LEMMA FileSteps ==
    ASSUME AllocatorInv,
           \/ AllocateFails \/ Close \/ CloseFails \/ CloseOverflows \/ Crash \/ Reopen
           \/ Recovered \/ UNCHANGED vars
           \/ \E p \in PageIds : EnsureFails(p)
    PROVE  AllocatorInv'
<1>1. /\ TypeOK
      /\ PagesPartitioned
      /\ PagesAreInFile
      /\ Partitioned(savedMax, savedList, savedHolders, savedSkipped)
      /\ savedMax < filePages
  BY DEF AllocatorInv
<1> USE DEF memory, metadataPage, vars
<1>2. CASE UNCHANGED memory /\ UNCHANGED metadataPage /\ filePages' >= filePages /\ filePages' \in Nat
           /\ status' \in {"open", "recovering", "closed", "crashed"}
           /\ (status' = "recovering" => status = "recovering")
  BY <1>1, <1>2 DEF AllocatorInv, TypeOK, PagesPartitioned, Partitioned, PagesAreInFile, PageIds
<1>3. CASE AllocateFails \/ (\E p \in PageIds : EnsureFails(p))
  BY <1>1, <1>2, <1>3, GrowthAssumption DEF TypeOK, AllocateFails, EnsureFails, PageIds
<1>4. CASE CloseOverflows \/ Crash \/ Recovered \/ UNCHANGED vars
  BY <1>1, <1>2, <1>4 DEF TypeOK, CloseOverflows, Crash, Recovered
<1>5. CASE Close \/ CloseFails
  <2>1. CASE UNCHANGED metadataPage
    BY <1>1, <1>2, <1>5, <2>1 DEF TypeOK, Close, CloseFails
  <2>2. CASE SaveMetadata
    <3>1. UNCHANGED memory /\ filePages' = filePages /\ status' \in {"closed", "crashed"}
      BY <1>5 DEF Close, CloseFails
    <3>2. TypeOK'
      BY <1>1, <2>2, <3>1 DEF TypeOK, SaveMetadata
    <3>3. Partitioned(savedMax, savedList, savedHolders, savedSkipped)' /\ PagesPartitioned'
      BY <1>1, <2>2, <3>1 DEF SaveMetadata, PagesPartitioned, Partitioned
    <3> QED
      BY <1>1, <2>2, <3>1, <3>2, <3>3 DEF AllocatorInv, PagesAreInFile, SaveMetadata
  <2> QED
    BY <1>5, <2>1, <2>2 DEF Close, CloseFails
<1>6. CASE Reopen
  <2>1. TypeOK'
    BY <1>1, <1>6 DEF TypeOK, Reopen
  <2>2. Partitioned(savedMax, savedList, savedHolders, savedSkipped)' /\ PagesPartitioned'
    BY <1>1, <1>6 DEF Reopen, PagesPartitioned, Partitioned
  <2>3. PagesAreInFile' /\ savedMax' < filePages' /\ savedMax' <= maxAllocatedPageId'
    BY <1>1, <1>6 DEF Reopen, PagesAreInFile, TypeOK
  <2>4. \A p \in PageIds : Contains(deallocatedPageIdList', p) => p <= savedMax'
    BY <1>1, <1>6 DEF Reopen, Partitioned
  <2> QED
    BY <2>1, <2>2, <2>3, <2>4 DEF AllocatorInv
<1> QED
  BY <1>3, <1>4, <1>5, <1>6

\* allocatePage from the free list.
LEMMA AllocateFromFreeListStep == AllocatorInv /\ AllocateFromFreeList => AllocatorInv'
<1> SUFFICES ASSUME AllocatorInv, AllocateFromFreeList PROVE AllocatorInv'
  OBVIOUS
<1> DEFINE p == Head(deallocatedPageIdList)
<1>1. TypeOK /\ PagesPartitioned /\ PagesAreInFile
  BY DEF AllocatorInv
<1>2. /\ p \in PageIds
      /\ Contains(deallocatedPageIdList, p)
      /\ deallocatedPageIdList' \in Seq(PageIds)
      /\ Injective(deallocatedPageIdList')
      /\ \A x : Contains(deallocatedPageIdList', x) <=> Contains(deallocatedPageIdList, x) /\ x # p
  BY <1>1, HeadTailLemma DEF AllocateFromFreeList, TypeOK, PagesPartitioned, Partitioned
<1>3. /\ holders' = [holders EXCEPT ![p] = @ + 1]
      /\ status = "open"
      /\ UNCHANGED <<maxAllocatedPageId, skipped, metadataPage, filePages, status>>
  BY DEF AllocateFromFreeList, Grant
<1> HIDE DEF p
<1>4. TypeOK'
  BY <1>1, <1>2, <1>3 DEF TypeOK, metadataPage
<1>5. PagesPartitioned'
  BY <1>1, <1>2, <1>3 DEF TypeOK, PagesPartitioned, Partitioned
<1>6. PagesAreInFile'
  BY <1>1, <1>3 DEF PagesAreInFile
<1> QED
  BY <1>3, <1>4, <1>5, <1>6 DEF AllocatorInv, metadataPage, Partitioned

\* allocatePage by expansion.
LEMMA AllocateByExpansionStep == AllocatorInv /\ AllocateByExpansion => AllocatorInv'
<1> SUFFICES ASSUME AllocatorInv, AllocateByExpansion PROVE AllocatorInv'
  OBVIOUS
<1> DEFINE p == maxAllocatedPageId + 1
<1>1. TypeOK /\ PagesPartitioned /\ PagesAreInFile /\ savedMax < filePages
  BY DEF AllocatorInv
<1>2. p \in PageIds /\ p = maxAllocatedPageId + 1
  BY <1>1, MaxPageIdAssumption DEF TypeOK, AllocateByExpansion, PageIds
<1>3. /\ holders' = [holders EXCEPT ![p] = @ + 1]
      /\ maxAllocatedPageId' = p
      /\ filePages' = IF p = filePages THEN filePages + Growth ELSE filePages
      /\ deallocatedPageIdList' = deallocatedPageIdList
      /\ status = "open"
      /\ UNCHANGED <<skipped, metadataPage, status>>
  BY DEF AllocateByExpansion, Grant, FileIsFull
<1> HIDE DEF p
<1>4. TypeOK'
  <2>1. holders' \in [PageIds -> Nat]
    BY <1>1, <1>2, <1>3 DEF TypeOK
  <2>2. filePages' \in Nat /\ maxAllocatedPageId' \in 0..MaxPageId
    BY <1>1, <1>2, <1>3, GrowthAssumption, MaxPageIdAssumption DEF TypeOK, PageIds
  <2> QED
    BY <1>1, <1>3, <2>1, <2>2 DEF TypeOK, metadataPage
<1>5. PagesPartitioned'
  BY <1>1, <1>2, <1>3 DEF TypeOK, PagesPartitioned, Partitioned, PageIds
<1>6. PagesAreInFile' /\ savedMax' < filePages'
  BY <1>1, <1>2, <1>3, GrowthAssumption DEF TypeOK, PagesAreInFile, metadataPage
<1> QED
  BY <1>3, <1>4, <1>5, <1>6 DEF AllocatorInv, metadataPage, Partitioned

\* deallocatePage.
LEMMA DeallocateStep ==
    ASSUME AllocatorInv, NEW p \in PageIds, Deallocate(p)
    PROVE  AllocatorInv'
<1>1. TypeOK /\ PagesPartitioned /\ PagesAreInFile
  BY DEF AllocatorInv
<1>2. holders[p] = 1 /\ ~Contains(deallocatedPageIdList, p)
  BY <1>1 DEF PagesPartitioned, Partitioned, Deallocate
<1>3. /\ deallocatedPageIdList' \in Seq(PageIds)
      /\ Injective(deallocatedPageIdList')
      /\ \A x : Contains(deallocatedPageIdList', x) <=> x = p \/ Contains(deallocatedPageIdList, x)
  BY <1>1, <1>2, AppendLemma DEF Deallocate, TypeOK, PagesPartitioned, Partitioned
<1>4. /\ holders' = [holders EXCEPT ![p] = @ - 1]
      /\ status = "open"
      /\ UNCHANGED <<maxAllocatedPageId, skipped, metadataPage, filePages, status>>
  BY DEF Deallocate
<1>5. TypeOK'
  BY <1>1, <1>2, <1>3, <1>4 DEF TypeOK, metadataPage
<1>6. PagesPartitioned'
  BY <1>1, <1>2, <1>3, <1>4 DEF TypeOK, PagesPartitioned, Partitioned
<1>7. PagesAreInFile'
  BY <1>1, <1>4 DEF PagesAreInFile
<1> QED
  BY <1>4, <1>5, <1>6, <1>7 DEF AllocatorInv, metadataPage, Partitioned

\* Redo of an allocation from the free list.
LEMMA RedoFreeListStep ==
    ASSUME AllocatorInv, NEW p \in PageIds, RedoFreeListAllocation(p)
    PROVE  AllocatorInv'
<1>1. TypeOK /\ PagesPartitioned /\ PagesAreInFile
  BY DEF AllocatorInv
<1>2. PICK i \in DOMAIN deallocatedPageIdList :
        /\ deallocatedPageIdList[i] = p
        /\ deallocatedPageIdList' = SwapRemove(deallocatedPageIdList, i)
  BY DEF RedoFreeListAllocation
<1>3. /\ Contains(deallocatedPageIdList, p)
      /\ deallocatedPageIdList' \in Seq(PageIds)
      /\ Injective(deallocatedPageIdList')
      /\ \A x : Contains(deallocatedPageIdList', x) <=> Contains(deallocatedPageIdList, x) /\ x # p
  <2>1. deallocatedPageIdList \in Seq(PageIds) /\ Injective(deallocatedPageIdList)
    BY <1>1 DEF TypeOK, PagesPartitioned, Partitioned
  <2>2. Contains(deallocatedPageIdList, p)
    BY <1>2 DEF Contains
  <2> QED
    BY <1>2, <2>1, <2>2, SwapRemoveLemma
<1>4. /\ holders' = [holders EXCEPT ![p] = @ + 1]
      /\ UNCHANGED <<maxAllocatedPageId, skipped, metadataPage, filePages, status>>
  BY DEF RedoFreeListAllocation, Grant
<1>5. TypeOK'
  <2>1. holders' \in [PageIds -> Nat]
    BY <1>1, <1>4 DEF TypeOK
  <2> QED
    BY <1>1, <1>3, <1>4, <2>1 DEF TypeOK, metadataPage
<1>6. PagesPartitioned'
  <2>1. ASSUME NEW q \in PageIds
        PROVE  /\ holders'[q] \in {0, 1}
               /\ holders'[q] = 1 => ~Contains(deallocatedPageIdList', q) /\ q \notin skipped
               /\ Contains(deallocatedPageIdList', q) => q \notin skipped
               /\ holders'[q] = 1 \/ Contains(deallocatedPageIdList', q) \/ q \in skipped
                    <=> q <= maxAllocatedPageId
    <3>1. holders'[q] = IF q = p THEN holders[q] + 1 ELSE holders[q]
      BY <1>1, <1>4 DEF TypeOK
    <3> QED
      BY <1>1, <1>3, <3>1 DEF PagesPartitioned, Partitioned
  <2> QED
    BY <1>3, <1>4, <2>1 DEF PagesPartitioned, Partitioned
<1>7. PagesAreInFile'
  BY <1>1, <1>4 DEF PagesAreInFile
<1> QED
  BY <1>3, <1>4, <1>5, <1>6, <1>7 DEF AllocatorInv, metadataPage, Partitioned

\* Redo of an allocation by expansion.
LEMMA EnsureStep ==
    ASSUME AllocatorInv, NEW p \in PageIds, EnsurePageExists(p)
    PROVE  AllocatorInv'
<1>1. /\ TypeOK /\ PagesPartitioned /\ PagesAreInFile /\ savedMax < filePages
      /\ savedMax <= maxAllocatedPageId
      /\ \A q \in PageIds : Contains(deallocatedPageIdList, q) => q <= savedMax
  BY DEF AllocatorInv, EnsurePageExists
<1>2. /\ p > savedMax
      /\ filePages' = IF filePages < p + 1 THEN p + 1 ELSE filePages
      /\ maxAllocatedPageId' = IF maxAllocatedPageId < p THEN p ELSE maxAllocatedPageId
      /\ holders' = [holders EXCEPT ![p] = 1]
      /\ skipped' = (skipped \cup {q \in PageIds : maxAllocatedPageId < q /\ q < p}) \ {p}
      /\ deallocatedPageIdList' = deallocatedPageIdList
      /\ UNCHANGED <<metadataPage, status>>
  BY DEF EnsurePageExists
<1>3. TypeOK'
  <2>1. holders' \in [PageIds -> Nat] /\ skipped' \in SUBSET PageIds
    BY <1>1, <1>2 DEF TypeOK
  <2>2. filePages' \in Nat /\ maxAllocatedPageId' \in 0..MaxPageId
    BY <1>1, <1>2, MaxPageIdAssumption DEF TypeOK, PageIds
  <2> QED
    BY <1>1, <1>2, <2>1, <2>2 DEF TypeOK, metadataPage
<1>4. PagesPartitioned'
  <2>1. ~Contains(deallocatedPageIdList, p)
    BY <1>1, <1>2 DEF TypeOK, PageIds
  <2>2. ASSUME NEW q \in PageIds
        PROVE  /\ holders'[q] \in {0, 1}
               /\ holders'[q] = 1 => ~Contains(deallocatedPageIdList, q) /\ q \notin skipped'
               /\ Contains(deallocatedPageIdList, q) => q \notin skipped'
               /\ holders'[q] = 1 \/ Contains(deallocatedPageIdList, q) \/ q \in skipped'
                    <=> q <= maxAllocatedPageId'
    <3>1. CASE q = p
      BY <1>1, <1>2, <2>1, <3>1 DEF TypeOK, PageIds
    <3>2. CASE q # p
      <4>1. holders'[q] = holders[q]
        BY <1>1, <1>2, <3>2 DEF TypeOK
      <4>2. q \in skipped' <=> q \in skipped \/ (maxAllocatedPageId < q /\ q < p)
        BY <1>2, <3>2
      <4>3. /\ holders[q] \in {0, 1}
            /\ holders[q] = 1 => ~Contains(deallocatedPageIdList, q) /\ q \notin skipped
            /\ Contains(deallocatedPageIdList, q) => q \notin skipped
            /\ holders[q] = 1 \/ Contains(deallocatedPageIdList, q) \/ q \in skipped
                 <=> q <= maxAllocatedPageId
        BY <1>1 DEF PagesPartitioned, Partitioned
      <4>4. maxAllocatedPageId \in Nat /\ p \in Nat /\ q \in Nat
        BY <1>1 DEF TypeOK, PageIds
      <4> QED
        BY <1>2, <3>2, <4>1, <4>2, <4>3, <4>4
    <3> QED
      BY <3>1, <3>2
  <2> QED
    BY <1>1, <1>2, <2>2 DEF PagesPartitioned, Partitioned, PageIds
<1>5. PagesAreInFile' /\ savedMax' < filePages' /\ savedMax' <= maxAllocatedPageId'
  BY <1>1, <1>2 DEF TypeOK, PagesAreInFile, metadataPage, PageIds
<1> QED
  BY <1>1, <1>2, <1>3, <1>4, <1>5 DEF AllocatorInv, metadataPage, Partitioned

LEMMA NextAllocatorInv == AllocatorInv /\ [Next]_vars => AllocatorInv'
BY FileSteps, AllocateFromFreeListStep, AllocateByExpansionStep, DeallocateStep,
   RedoFreeListStep, EnsureStep DEF Next

\* The allocator's invariant holds for every size of file and free list.
THEOREM AllocatorCorrect == Spec => []AllocatorInv
BY InitAllocatorInv, NextAllocatorInv, PTL DEF Spec

\* No page id is handed out twice or lost (allocatePage, deallocatePage, redo).
THEOREM PagesPartitionedHolds == Spec => []PagesPartitioned
<1>1. AllocatorInv => PagesPartitioned
  BY DEF AllocatorInv
<1> QED
  BY <1>1, AllocatorCorrect, PTL

\* Every page id that was handed out lies in the file (allocatePage's == test).
THEOREM PagesAreInFileHolds == Spec => []PagesAreInFile
<1>1. AllocatorInv => PagesAreInFile
  BY DEF AllocatorInv
<1> QED
  BY <1>1, AllocatorCorrect, PTL

--------------------------------------------------------------------------------
\* Each step is a step of the abstract allocator or leaves it alone.
LEMMA AllocatorSteps == AllocatorInv /\ [Next]_vars => [Allocator!Next]_<<holders, savedHolders>>
<1> SUFFICES ASSUME AllocatorInv, [Next]_vars
             PROVE  [Allocator!Next]_<<holders, savedHolders>>
  OBVIOUS
<1>1. TypeOK /\ PagesPartitioned
  BY DEF AllocatorInv
<1>2. \A p \in PageIds : /\ Contains(deallocatedPageIdList, p) => holders[p] = 0
                         /\ p > maxAllocatedPageId => holders[p] = 0
                         /\ holders[p] \in {0, 1}
  BY <1>1 DEF TypeOK, PagesPartitioned, Partitioned, PageIds
<1>3. CASE UNCHANGED <<holders, savedHolders>>
  BY <1>3
<1>4. ASSUME NEW p \in PageIds, holders[p] = 0, UNCHANGED savedHolders,
             holders' = [holders EXCEPT ![p] = @ + 1] \/ holders' = [holders EXCEPT ![p] = 1]
      PROVE  Allocator!Next
  <2>1. holders' = [holders EXCEPT ![p] = 1]
    BY <1>1, <1>4 DEF TypeOK
  <2> QED
    BY <1>4, <2>1, Zenon DEF Allocator!Next, Allocator!Allocate
<1>5. CASE AllocateFails \/ CloseOverflows \/ Crash \/ Recovered \/ UNCHANGED vars
           \/ (\E p \in PageIds : EnsureFails(p))
  BY <1>3, <1>5 DEF AllocateFails, CloseOverflows, Crash, Recovered, EnsureFails, vars, memory, metadataPage
<1>6. CASE AllocateFromFreeList
  <2>1. Head(deallocatedPageIdList) \in PageIds
        /\ Contains(deallocatedPageIdList, Head(deallocatedPageIdList))
    BY <1>1, <1>6, HeadTailLemma DEF AllocateFromFreeList, TypeOK, PagesPartitioned, Partitioned
  <2> QED
    BY <1>2, <1>4, <1>6, <2>1, Zenon DEF AllocateFromFreeList, Grant, metadataPage
<1>7. CASE AllocateByExpansion
  <2>1. maxAllocatedPageId + 1 \in PageIds /\ maxAllocatedPageId + 1 > maxAllocatedPageId
    BY <1>1, <1>7, MaxPageIdAssumption DEF AllocateByExpansion, TypeOK, PageIds
  <2> QED
    BY <1>2, <1>4, <1>7, <2>1, Zenon DEF AllocateByExpansion, Grant, metadataPage
<1>8. CASE Close \/ CloseFails
  BY <1>3, <1>8 DEF Close, CloseFails, SaveMetadata, memory, metadataPage, Allocator!Next, Allocator!Save
<1>9. CASE Reopen
  BY <1>9 DEF Reopen, metadataPage, Allocator!Next, Allocator!Restart
<1>10. ASSUME NEW p \in PageIds, Deallocate(p)
       PROVE  Allocator!Next
  <2>1. holders' = [holders EXCEPT ![p] = @ - 1] /\ UNCHANGED savedHolders
    BY <1>10 DEF Deallocate, metadataPage
  <2>2. holders[p] = 1
    BY <1>2, <1>10 DEF Deallocate
  <2>3. holders' = [holders EXCEPT ![p] = 0]
    BY <2>1, <2>2
  <2> QED
    BY <2>1, <2>2, <2>3, Zenon DEF Allocator!Next, Allocator!Deallocate
<1>11. ASSUME NEW p \in PageIds, RedoFreeListAllocation(p)
       PROVE  Allocator!Next
  <2>1. Contains(deallocatedPageIdList, p)
    BY <1>11 DEF RedoFreeListAllocation, Contains
  <2>2. holders' = [holders EXCEPT ![p] = @ + 1] /\ UNCHANGED savedHolders
    BY <1>11 DEF RedoFreeListAllocation, Grant, metadataPage
  <2> QED
    BY <1>2, <1>4, <2>1, <2>2, Zenon
<1>12. ASSUME NEW p \in PageIds, EnsurePageExists(p)
       PROVE  [Allocator!Next]_<<holders, savedHolders>>
  <2>1. holders' = [holders EXCEPT ![p] = 1] /\ UNCHANGED savedHolders
    BY <1>12 DEF EnsurePageExists, metadataPage
  <2>2. CASE holders[p] = 0
    BY <1>4, <2>1, <2>2, Zenon
  <2>3. CASE holders[p] = 1
    <3>1. holders' = holders
      BY <1>1, <2>1, <2>3 DEF TypeOK
    <3> QED
      BY <1>3, <2>1, <3>1
  <2> QED
    BY <1>2, <2>2, <2>3
<1> QED
  BY <1>5, <1>6, <1>7, <1>8, <1>9, <1>10, <1>11, <1>12 DEF Next

\* The disk manager implements the abstract allocator: through allocation,
\* deallocation, close, crash, reopening and redo, a page id is handed out only
\* while nobody has it.
THEOREM DiskManagerImplementsAllocator == Spec => ImplementsAllocator
<1>1. Init => Allocator!Init
  BY DEF Init, Allocator!Init
<1>2. AllocatorInv /\ [Next]_vars => [Allocator!Next]_(Allocator!vars)
  BY AllocatorSteps DEF Allocator!vars
<1> QED
  BY <1>1, <1>2, AllocatorCorrect, PTL DEF Spec, ImplementsAllocator, Allocator!Spec
================================================================================
