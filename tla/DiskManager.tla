------------------------------ MODULE DiskManager ------------------------------
(***************************************************************************)
(* Page allocation of DirectIODiskManager: the free list and the highest   *)
(* page id in memory, the size of the file, and the metadata page, which   *)
(* is written when a database is created and when it is closed.            *)
(*                                                                         *)
(* disk.mutex makes each operation one step.  EnsurePageExists and         *)
(* RedoFreeListAllocation are what RedoCreatePageOperation does to the     *)
(* allocator during recovery.                                              *)
(***************************************************************************)
EXTENDS LRUReplacer

CONSTANTS MaxPageId,   \* bound on page ids
          Growth,      \* pages added to a full file (16 in the code)
          FreeSlots,   \* free page ids that fit in the metadata page
          IOErrors     \* whether file operations may fail

ASSUME MaxPageIdAssumption == MaxPageId \in Nat \ {0}
ASSUME GrowthAssumption == Growth \in Nat \ {0}
ASSUME FreeSlotsAssumption == FreeSlots \in Nat
ASSUME IOErrorsAssumption == IOErrors \in BOOLEAN

VARIABLES
    maxAllocatedPageId,     \* metadata.MaxAllocatedPageId
    deallocatedPageIdList,  \* metadata.DeallocatedPageIdList
    filePages,              \* file size / PAGE_SIZE
    savedMax, savedList,    \* the metadata page in the file
    status,                 \* "open", "recovering", "closed", "crashed"
    holders,                \* holders[p]: how many callers have page id p
    skipped,                \* page ids that redo jumped over
    savedHolders, savedSkipped  \* both, when the metadata page was written

memory == <<maxAllocatedPageId, deallocatedPageIdList, holders, skipped>>
metadataPage == <<savedMax, savedList, savedHolders, savedSkipped>>
vars == <<memory, metadataPage, filePages, status>>

PageIds == 1..MaxPageId

TypeOK ==
    /\ maxAllocatedPageId \in 0..MaxPageId
    /\ deallocatedPageIdList \in Seq(PageIds)
    /\ filePages \in Nat
    /\ savedMax \in 0..MaxPageId
    /\ savedList \in Seq(PageIds)
    /\ status \in {"open", "recovering", "closed", "crashed"}
    /\ holders \in [PageIds -> Nat]
    /\ skipped \in SUBSET PageIds
    /\ savedHolders \in [PageIds -> Nat]
    /\ savedSkipped \in SUBSET PageIds

--------------------------------------------------------------------------------
\* NewDirectIODiskManager on a new file: the metadata page is its only page.
Init ==
    /\ maxAllocatedPageId = 0
    /\ deallocatedPageIdList = <<>>
    /\ filePages = 1
    /\ savedMax = 0
    /\ savedList = <<>>
    /\ status = "open"
    /\ holders = [p \in PageIds |-> 0]
    /\ skipped = {}
    /\ savedHolders = [p \in PageIds |-> 0]
    /\ savedSkipped = {}

Grant(p) == holders' = [holders EXCEPT ![p] = @ + 1]

\* Mutant of AllocateFromFreeList: the page id stays in the list.
AllocateListed ==
    /\ status = "open"
    /\ deallocatedPageIdList # <<>>
    /\ Grant(Head(deallocatedPageIdList))
    /\ UNCHANGED <<maxAllocatedPageId, deallocatedPageIdList, skipped, metadataPage,
                   filePages, status>>

\* allocatePage takes the first free page id.
AllocateFromFreeList ==
    /\ status = "open"
    /\ deallocatedPageIdList # <<>>
    /\ Grant(Head(deallocatedPageIdList))
    /\ deallocatedPageIdList' = Tail(deallocatedPageIdList)
    /\ UNCHANGED <<maxAllocatedPageId, skipped, metadataPage, filePages, status>>

\* Mutant of FileIsFull: page ids are taken to start at 1.
FileIsFullOffByOne == maxAllocatedPageId = filePages

FileIsFull == maxAllocatedPageId + 1 = filePages

\* allocatePage takes the next page id; a full file grows first.
AllocateByExpansion ==
    /\ status = "open"
    /\ deallocatedPageIdList = <<>>
    /\ maxAllocatedPageId < MaxPageId
    /\ filePages' = IF FileIsFull THEN filePages + Growth ELSE filePages
    /\ maxAllocatedPageId' = maxAllocatedPageId + 1
    /\ Grant(maxAllocatedPageId + 1)
    /\ UNCHANGED <<deallocatedPageIdList, skipped, metadataPage, status>>

\* Growing the file fails, perhaps after some pages were written.
AllocateFails ==
    /\ IOErrors
    /\ status = "open"
    /\ deallocatedPageIdList = <<>>
    /\ FileIsFull
    /\ \E written \in 0..(Growth - 1) : filePages' = filePages + written
    /\ UNCHANGED <<memory, metadataPage, status>>

\* deallocatePage, by a caller that has the page.
Deallocate(p) ==
    /\ status = "open"
    /\ holders[p] > 0
    /\ deallocatedPageIdList' = Append(deallocatedPageIdList, p)
    /\ holders' = [holders EXCEPT ![p] = @ - 1]
    /\ UNCHANGED <<maxAllocatedPageId, skipped, metadataPage, filePages, status>>

--------------------------------------------------------------------------------
SaveMetadata ==
    /\ savedMax' = maxAllocatedPageId
    /\ savedList' = deallocatedPageIdList
    /\ savedHolders' = holders
    /\ savedSkipped' = skipped

\* close encodes the metadata into its page, writes it and closes the file.
Close ==
    /\ status = "open"
    /\ Len(deallocatedPageIdList) <= FreeSlots
    /\ SaveMetadata
    /\ status' = "closed"
    /\ UNCHANGED <<memory, filePages>>

\* The write of the block fails, or closing the file does.  main panics.
CloseFails ==
    /\ IOErrors
    /\ status = "open"
    /\ Len(deallocatedPageIdList) <= FreeSlots
    /\ SaveMetadata \/ UNCHANGED metadataPage
    /\ status' = "crashed"
    /\ UNCHANGED <<memory, filePages>>

\* EncodeMetaDataPage runs past the end of the page and panics.
CloseOverflows ==
    /\ status = "open"
    /\ Len(deallocatedPageIdList) > FreeSlots
    /\ status' = "crashed"
    /\ UNCHANGED <<memory, metadataPage, filePages>>

\* The process stops without close.
Crash ==
    /\ status \in {"open", "recovering"}
    /\ status' = "crashed"
    /\ UNCHANGED <<memory, metadataPage, filePages>>

\* NewDirectIODiskManager on an existing file: DecodeMetaDataPage.  Recovery,
\* where it is run, comes before any other operation.
Reopen ==
    /\ status \in {"closed", "crashed"}
    /\ maxAllocatedPageId' = savedMax
    /\ deallocatedPageIdList' = savedList
    /\ holders' = savedHolders
    /\ skipped' = savedSkipped
    /\ status' = "recovering"
    /\ UNCHANGED <<metadataPage, filePages>>

Recovered ==
    /\ status = "recovering"
    /\ status' = "open"
    /\ UNCHANGED <<memory, metadataPage, filePages>>

\* Mutant of EnsurePageExists: the file grows, the highest page id does not.
EnsureOnlyFile(p) ==
    /\ status = "recovering"
    /\ p > savedMax
    /\ filePages' = IF filePages < p + 1 THEN p + 1 ELSE filePages
    /\ holders' = [holders EXCEPT ![p] = 1]
    /\ UNCHANGED <<maxAllocatedPageId, deallocatedPageIdList, skipped, metadataPage, status>>

\* EnsurePageExists, redoing an allocation by expansion.  The page id was new
\* when it was logged, so it is above the saved maximum and in no free list.
EnsurePageExists(p) ==
    /\ status = "recovering"
    /\ p > savedMax
    /\ filePages' = IF filePages < p + 1 THEN p + 1 ELSE filePages
    /\ maxAllocatedPageId' = IF maxAllocatedPageId < p THEN p ELSE maxAllocatedPageId
    /\ holders' = [holders EXCEPT ![p] = 1]
    /\ skipped' = (skipped \cup {q \in PageIds : maxAllocatedPageId < q /\ q < p}) \ {p}
    /\ UNCHANGED <<deallocatedPageIdList, metadataPage, status>>

\* The file cannot be extended as far as p; Recover gives up.
EnsureFails(p) ==
    /\ IOErrors
    /\ status = "recovering"
    /\ p > savedMax
    /\ \E n \in filePages..p : filePages' = n
    /\ status' = "crashed"
    /\ UNCHANGED <<memory, metadataPage>>

\* The free list without its position i, which the last element fills.
SwapRemove(list, i) ==
    [j \in 1..(Len(list) - 1) |-> IF j = i THEN list[Len(list)] ELSE list[j]]

\* RedoCreatePageOperation of an allocation from the free list.
RedoFreeListAllocation(p) ==
    /\ status = "recovering"
    /\ \E i \in DOMAIN deallocatedPageIdList :
        /\ deallocatedPageIdList[i] = p
        /\ deallocatedPageIdList' = SwapRemove(deallocatedPageIdList, i)
    /\ Grant(p)
    /\ UNCHANGED <<maxAllocatedPageId, skipped, metadataPage, filePages, status>>

--------------------------------------------------------------------------------
Next ==
    \/ AllocateFromFreeList
    \/ AllocateByExpansion
    \/ AllocateFails
    \/ Close
    \/ CloseFails
    \/ CloseOverflows
    \/ Crash
    \/ Reopen
    \/ Recovered
    \/ \E p \in PageIds :
        \/ Deallocate(p)
        \/ EnsurePageExists(p)
        \/ EnsureFails(p)
        \/ RedoFreeListAllocation(p)

Spec == Init /\ [][Next]_vars

--------------------------------------------------------------------------------
(* Properties                                                              *)

\* Every page id up to max has one holder, or is once in the free list, or was
\* skipped; no id above max is anywhere.
Partitioned(max, list, held, skip) ==
    /\ Injective(list)
    /\ \A p \in PageIds :
        /\ held[p] \in {0, 1}
        /\ held[p] = 1 => ~Contains(list, p) /\ p \notin skip
        /\ Contains(list, p) => p \notin skip
        /\ held[p] = 1 \/ Contains(list, p) \/ p \in skip <=> p <= max

\* However allocation, deallocation, crashes and redo follow each other, no
\* page is handed out while somebody has it, and none is lost.
PagesPartitioned == Partitioned(maxAllocatedPageId, deallocatedPageIdList, holders, skipped)

\* allocatePage tests for a full file with ==, which is right only as long as
\* the highest page id never passes the end of the file: a page that was
\* handed out can be read.
PagesAreInFile == maxAllocatedPageId < filePages

\* The inductive invariant: the metadata page is as consistent as the memory it
\* was written from, and while the database recovers no id above the saved
\* maximum is free.
AllocatorInv ==
    /\ TypeOK
    /\ PagesPartitioned
    /\ PagesAreInFile
    /\ Partitioned(savedMax, savedList, savedHolders, savedSkipped)
    /\ savedMax < filePages
    /\ status = "recovering" =>
        /\ savedMax <= maxAllocatedPageId
        /\ \A p \in PageIds : Contains(deallocatedPageIdList, p) => p <= savedMax

\* The disk manager implements the abstract allocator.
Allocator == INSTANCE PageAllocator WITH checkpoint <- savedHolders

ImplementsAllocator == Allocator!Spec
================================================================================
