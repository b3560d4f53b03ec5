----------------------------- MODULE StorageEngine -----------------------------
(***************************************************************************)
(* The storage engine across crashes: trees opened and closed, insertions  *)
(* that write the log and the pages step by step, a buffer pool that       *)
(* evicts the page used least recently, and Recover, which replays the     *)
(* log.  Whoever starts the engine on an existing file runs Recover before *)
(* anything else, as the tests of the package do.                          *)
(*                                                                         *)
(* The log is external (lucario): a record is in its file when the call    *)
(* returns, and the LSN of a record is its position.                       *)
(***************************************************************************)
EXTENDS TreeOps, LogScan, FiniteSetsExt

CONSTANTS Clients, Keys, Values,
          Plans,        \* what the clients may do: see Plan
          PoolSize,     \* frames of the buffer pool
          MaxPageId,    \* bound on page ids
          MaxFailAt,    \* the call of an Insert that fails is one of 1..MaxFailAt
          Logged        \* FALSE is in it if writing Begin and Commit may fail

Entries == [tree : Trees, key : Keys, value : Values]

\* Bounds on a behaviour: the number of trees, the entries that its n-th Insert
\* may have, the keys it may delete, those it may read once each, and how often
\* it may restart, after a crash or a Close.
Plan == [trees : Trees, inserts : Seq(SUBSET Entries), deletes : SUBSET Keys,
         reads : SUBSET Keys, restarts : Nat]

ASSUME EngineAssumption ==
    /\ Trees = 1..Cardinality(Trees)
    /\ Keys \subseteq Nat
    /\ Plans \subseteq Plan
    /\ KeySize \in Nat /\ ValueSize \in [Values -> Nat]
    /\ PoolSize \in Nat \ {0} /\ MaxPageId \in Nat
    /\ MaxFailAt \in Nat /\ Logged \subseteq BOOLEAN

VARIABLES
    store,            \* the file's pages and the buffer pool
    metadata,         \* in memory
    savedMetadata,    \* in the file
    currBPlusTreeId,
    created,          \* ids that NewBPlusTree has returned
    openBPlusTrees,   \* openBPlusTrees[t]: root and first leaf of the tree, or NotOpen
    ops,              \* ops[c]: the Insert that client c has called, or Idle
    acknowledged,     \* acknowledged[t][k]: value that the clients know of
    optional,         \* optional[t][k]: values that a crash may leave instead
    plan              \* what remains of the plan

vars == <<wal, store, metadata, savedMetadata, currBPlusTreeId, created, openBPlusTrees, ops,
          recovery, mode, acknowledged, optional, plan>>

treeVars == <<currBPlusTreeId, created, openBPlusTrees>>
historyVars == <<acknowledged, optional>>

PageIds == 1..MaxPageId
NotOpen == <<>>
Idle == <<>>

NewMetadata ==
    [lsn |-> 0, curr |-> 0, roots |-> [t \in Trees |-> 0], firsts |-> [t \in Trees |-> 0],
     max |-> 0, free |-> <<>>]

EmptyPool(disk) == [disk |-> disk, frames |-> NoPages, dirty |-> {}, lru |-> <<>>]

Init ==
    /\ wal = <<>>
    /\ store = EmptyPool([p \in {0} \cup PageIds |-> EmptyPage])
    /\ metadata = NewMetadata
    /\ savedMetadata = NewMetadata
    /\ currBPlusTreeId = 0
    /\ created = {}
    /\ openBPlusTrees = [t \in Trees |-> NotOpen]
    /\ ops = [c \in Clients |-> Idle]
    /\ recovery = NewRecovery
    /\ mode = "running"
    /\ acknowledged = [t \in Trees |-> [k \in Keys |-> NoValue]]
    /\ optional = [t \in Trees |-> [k \in Keys |-> {}]]
    /\ plan \in Plans

--------------------------------------------------------------------------------
(* The buffer pool.  s is a store; s.lru has the cached pages that nobody  *)
(* pins, the least recently used first.                                    *)

Cached(s) == DOMAIN s.frames

Pinned(s) == Cached(s) \ Range(s.lru)

PageIn(s, p) == IF p \in Cached(s) THEN s.frames[p] ELSE s.disk[p]

Load(s, p) == [s EXCEPT !.frames = (p :> s.disk[p]) @@ @]

\* Mutant of Evict: the victim keeps its frame.
EvictKeepsFrame(s, p) ==
    [s EXCEPT !.disk[p] = IF p \in s.dirty THEN s.frames[p] ELSE @,
              !.dirty = @ \ {p},
              !.lru = Tail(@)]

\* The victim is written if it is dirty.
Evict(s, p) ==
    [s EXCEPT !.disk[p] = IF p \in s.dirty THEN s.frames[p] ELSE @,
              !.frames = [q \in Cached(s) \ {p} |-> s.frames[q]],
              !.dirty = @ \ {p},
              !.lru = Tail(@)]

FetchPage(s, p) ==
    IF p \in Cached(s) THEN [s EXCEPT !.lru = Remove(@, p)]
    ELSE IF Cardinality(Cached(s)) < PoolSize THEN Load(s, p)
    ELSE Load(Evict(s, Head(s.lru)), p)

\* Mutant of UnpinPage: the page used last is evicted first.
UnpinPageFirst(s, p) == [s EXCEPT !.lru = <<p>> \o @]

UnpinPage(s, p) == [s EXCEPT !.lru = Append(@, p)]

\* A node writer changes a page, and sets the dirty flag.
WritePage(s, p, page) == [s EXCEPT !.frames[p] = page, !.dirty = @ \cup {p}]

FlushAllPages(s) == [s EXCEPT !.disk = [p \in s.dirty |-> s.frames[p]] @@ @]

Content == store.frames @@ store.disk

FetchAndUnpin(s, p) == UnpinPage(FetchPage(s, p), p)

--------------------------------------------------------------------------------
(* Trees                                                                   *)

IsOpen(t) == openBPlusTrees[t] # NotOpen

RootOf(t) == IF IsOpen(t) THEN openBPlusTrees[t].root ELSE metadata.roots[t]

NewBPlusTree ==
    /\ mode = "running"
    /\ currBPlusTreeId < plan.trees
    /\ currBPlusTreeId' = currBPlusTreeId + 1
    /\ created' = created \cup {currBPlusTreeId'}
    /\ UNCHANGED <<wal, store, metadata, savedMetadata, openBPlusTrees, ops, recovery, mode,
                   historyVars, plan>>

\* OpenBPlusTree of a tree that is not open.  Its first leaf is not loaded.
OpenBPlusTree(t) ==
    /\ mode = "running"
    /\ t \in created
    /\ ~IsOpen(t)
    /\ openBPlusTrees' = [openBPlusTrees EXCEPT ![t] = [root |-> metadata.roots[t], first |-> 0]]
    /\ UNCHANGED <<wal, store, metadata, savedMetadata, currBPlusTreeId, created, ops, recovery, mode,
                   historyVars, plan>>

\* BPlusTree.Close of tree t, in metadata m.
CloseTree(m, t) ==
    [m EXCEPT !.roots[t] = openBPlusTrees[t].root, !.firsts[t] = openBPlusTrees[t].first]

\* CloseBPlusTree, by the last user of the tree.
CloseBPlusTree(t) ==
    /\ mode = "running"
    /\ IsOpen(t)
    /\ ~ \E c \in Clients : ops[c] # Idle /\ ops[c].tree = t
    /\ metadata' = CloseTree(metadata, t)
    /\ openBPlusTrees' = [openBPlusTrees EXCEPT ![t] = NotOpen]
    /\ UNCHANGED <<wal, store, savedMetadata, currBPlusTreeId, created, ops, recovery, mode,
                   historyVars, plan>>

--------------------------------------------------------------------------------
(* Insert                                                                  *)

\* Some Insert has the lock of tree t.
Locked(t) == \E c \in Clients : ops[c] # Idle /\ ops[c].phase = "running" /\ ops[c].tree = t

\* Begin is written before the lock of the tree is taken.  The error of writing
\* it, or Commit, is ignored.
LogBegin(c, e) ==
    /\ mode = "running"
    /\ ops[c] = Idle
    /\ IsOpen(e.tree)
    /\ plan' = [plan EXCEPT !.inserts = Tail(@)]
    /\ \E ok \in Logged : wal' = IF ok THEN Append(wal, [tree |-> e.tree, op |-> "Begin"]) ELSE wal
    /\ ops' = [ops EXCEPT ![c] = [phase |-> "begun", tree |-> e.tree, key |-> e.key, value |-> e.value]]
    /\ UNCHANGED <<store, metadata, savedMetadata, treeVars, recovery, mode, historyVars>>

\* Bound: insertions stop at a page that holds internal elements and is typed
\* as a leaf, and at one whose elements and slots overlap.
Decodable == \A p \in PageIds : ~Untyped(Content[p]) /\ ~Overlaps(Content[p])

\* The Insert i of client c is the steps of t.  Bound: Inserts that would panic
\* are left out.
Start(c, i, t) ==
    /\ t.last <= MaxPageId
    /\ t.outcome # "panic"
    /\ metadata' = [metadata EXCEPT !.max = t.last, !.free = t.free]
    /\ ops' = [ops EXCEPT ![c] =
                  [phase |-> "running", tree |-> i.tree, key |-> i.key, value |-> i.value, lsn |-> 0,
                   steps |-> t.steps, root |-> t.root, first |-> t.first, outcome |-> t.outcome]]

\* The lock is taken.  With it, what the Insert will do is decided: only page
\* ids and frames are shared with other trees, and it gets its page ids now.
LockTree(c) ==
    LET i == ops[c]
    IN /\ mode = "running"
       /\ i # Idle /\ i.phase = "begun"
       /\ ~Locked(i.tree)
       /\ Decodable
       /\ \E failAt \in 0..MaxFailAt :
             Start(c, i, InsertSteps(StartAt(Content, openBPlusTrees[i.tree].root,
                                             openBPlusTrees[i.tree].first, metadata.max,
                                             metadata.free, failAt),
                                     LeafElement(i.key, i.value)))
       /\ UNCHANGED <<wal, store, savedMetadata, treeVars, recovery, mode, historyVars, plan>>

Stamped(content, lsn) == [p \in DOMAIN content |-> SetLSN(content[p], lsn)]

\* The pages of a step, all pinned, are written.
WriteAll(s, content) == [s EXCEPT !.frames = content @@ @, !.dirty = @ \cup DOMAIN content]

\* One step of an Insert, its log records with what follows each of them.
\* lsn is the LSN of the last record it has written.
StepStore(step, lsn) ==
    CASE step.do = "fetch" /\ ~step.stamp -> FetchPage(store, step.page)
      [] step.do = "fetch" /\ step.stamp ->
            LET s == FetchPage(store, step.page)
            IN WritePage(s, step.page, SetLSN(s.frames[step.page], lsn))
      [] step.do = "done" -> UnpinPage(store, step.page)
      [] step.do = "write" ->
            [store EXCEPT !.frames[step.page] = SetLSN(step.content, @.lsn)]
      [] step.do = "log" -> WriteAll(store, Stamped(step.content, Len(wal) + 1))
      [] step.do = "commit" -> store

StepLog(step, t) ==
    CASE step.do = "log" -> wal' = Append(wal, [tree |-> t] @@ step.record)
      [] step.do = "commit" ->
            \E ok \in Logged : wal' = IF ok THEN Append(wal, [tree |-> t, op |-> "Commit"]) ELSE wal
      [] OTHER -> wal' = wal

\* Records about the metadata set its LSN.
IsMetadataRecord(step) ==
    step.do = "log" /\ step.record.op \in {"UpdateFirstLeafNodePageId", "UpdateRootNodePageId"}

Step(c) ==
    LET i == ops[c]
        step == Head(i.steps)
    IN /\ mode = "running"
       /\ i # Idle /\ i.phase = "running" /\ i.steps # <<>>
       /\ store' = StepStore(step, i.lsn)
       /\ StepLog(step, i.tree)
       /\ metadata' = IF IsMetadataRecord(step) THEN [metadata EXCEPT !.lsn = Len(wal')] ELSE metadata
       /\ ops' = [ops EXCEPT ![c].steps = Tail(@), ![c].lsn = IF step.do = "log" THEN Len(wal') ELSE @]
       /\ UNCHANGED <<savedMetadata, treeVars, recovery, mode, historyVars, plan>>

\* Insert releases the lock and returns.
Return(c) ==
    LET i == ops[c]
    IN /\ mode = "running"
       /\ i # Idle /\ i.phase = "running" /\ i.steps = <<>>
       /\ openBPlusTrees' = [openBPlusTrees EXCEPT ![i.tree] = [root |-> i.root, first |-> i.first]]
       /\ ops' = [ops EXCEPT ![c] = Idle]
       /\ IF i.outcome = "ok"
          THEN /\ acknowledged' = [acknowledged EXCEPT ![i.tree][i.key] = i.value]
               /\ optional' = [optional EXCEPT ![i.tree][i.key] = {}]
          ELSE UNCHANGED historyVars
       /\ UNCHANGED <<wal, store, metadata, savedMetadata, currBPlusTreeId, created, recovery, mode, plan>>

--------------------------------------------------------------------------------
(* Get and Delete                                                          *)

CanCall(t) == mode = "running" /\ IsOpen(t) /\ ~Locked(t) /\ \E c \in Clients : ops[c] = Idle

\* Get keeps the guards of the path until it returns.
Get(t, k) ==
    /\ CanCall(t)
    /\ plan' = [plan EXCEPT !.reads = @ \ {k}]
    /\ LET path == PathTo(Content, RootOf(t), k)
       IN store' = FoldLeft(UnpinPage, FoldLeft(FetchPage, store, path), Reverse(path))
    /\ UNCHANGED <<wal, metadata, savedMetadata, treeVars, ops, recovery, mode, historyVars>>

\* Delete keeps one guard at a time, and writes no record.
Delete(t, k) ==
    LET path == PathTo(Content, RootOf(t), k)
        leaf == Last(path)
        s == FetchPage(FoldLeft(FetchAndUnpin, store, path), leaf)
    IN /\ CanCall(t)
       /\ RootOf(t) # 0
       /\ FindValue(Content[leaf], k) # NoValue
       /\ store' = UnpinPage(WritePage(s, leaf, DeleteElement(s.frames[leaf], k)), leaf)
       /\ acknowledged' = [acknowledged EXCEPT ![t][k] = NoValue]
       /\ optional' = [optional EXCEPT ![t][k] = @ \cup {acknowledged[t][k]}]
       /\ UNCHANGED <<wal, metadata, savedMetadata, treeVars, ops, recovery, mode, plan>>

--------------------------------------------------------------------------------
(* Close, crash and restart                                                *)

\* A new engine on the file with pages disk and metadata m.
Restart(disk, m) ==
    /\ plan.restarts > 0
    /\ plan' = [plan EXCEPT !.restarts = @ - 1]
    /\ store' = EmptyPool(disk)
    /\ metadata' = m
    /\ savedMetadata' = m
    /\ currBPlusTreeId' = m.curr
    /\ openBPlusTrees' = [t \in Trees |-> NotOpen]
    /\ ops' = [c \in Clients |-> Idle]
    /\ recovery' = NewRecovery
    /\ mode' = "recovering"
    /\ UNCHANGED <<wal, created, acknowledged>>

\* StorageEngine.Close: the trees' roots go to the metadata, which is written
\* after the pages.
Closed == FoldSet(LAMBDA t, m : CloseTree(m, t), [metadata EXCEPT !.curr = currBPlusTreeId],
                  {t \in Trees : IsOpen(t)})

Close ==
    /\ mode = "running"
    /\ \A c \in Clients : ops[c] = Idle
    /\ Restart(FlushAllPages(store).disk, Closed)
    /\ optional' = [t \in Trees |-> [k \in Keys |-> {}]]

\* Values that Inserts without an answer may leave.
InFlight(t, k) == {ops[c].value : c \in {d \in Clients : ops[d] # Idle /\ ops[d].tree = t /\ ops[d].key = k}}

Crash ==
    /\ mode \in {"running", "recovering"}
    /\ Restart(store.disk, savedMetadata)
    /\ optional' = [t \in Trees |-> [k \in Keys |-> optional[t][k] \cup InFlight(t, k)]]

--------------------------------------------------------------------------------
(* Recover                                                                 *)

\* Mutant of Older: the LSN of the page is not looked at.
AlwaysOlder(s, p, lsn) == TRUE

Older(s, p, lsn) == PageIn(s, p).lsn < lsn

\* Mutant of RedoPage: the page gets the LSN and not the content.
RedoPageLSN(s, p, lsn, page) == IF Older(s, p, lsn) THEN WritePage(s, p, SetLSN(PageIn(s, p), lsn)) ELSE s

\* A page that is older than the record gets its new content and the LSN.
RedoPage(s, p, lsn, page) == IF Older(s, p, lsn) THEN WritePage(s, p, SetLSN(page, lsn)) ELSE s

\* RedoInsertLeafNodeEntry, RedoUpdateLeafNodeEntry, RedoInsertInternalNodeEntry.
RedoEntry(s, p, lsn, page) == UnpinPage(RedoPage(FetchPage(s, p), p, lsn, page), p)

\* Both pages of a split, pinned in s, get their halves; the right one is
\* released first.
RedoHalves(s, r, lsn, halves) ==
    LET right == RedoPage(s, r.right, lsn, halves[2])
    IN UnpinPage(UnpinPage(RedoPage(right, r.page, lsn, halves[1]), r.right), r.page)

\* The left page with the elements from the log, not those it has.
LoggedPage(s, r) == [s.frames[r.page] EXCEPT !.slots = r.slots]

RedoSplitLeafNode(s, r, lsn) ==
    RedoHalves(s, r, lsn, LeafHalves([LoggedPage(s, r) EXCEPT !.next = r.next], r.index,
                                     s.frames[r.right], r.right, r.element))

\* The links to the next node, which only leaves use, stay as they are.
KeepNext(s, r, halves) ==
    <<[halves[1] EXCEPT !.next = s.frames[r.page].next], [halves[2] EXCEPT !.next = s.frames[r.right].next]>>

RedoSplitInternalNode(s, r, lsn) ==
    RedoHalves(s, r, lsn, KeepNext(s, r, InternalHalves(LoggedPage(s, r), r.index, s.frames[r.right],
                                                        r.right, r.element)))

FetchBoth(s, r) == FetchPage(FetchPage(s, r.page), r.right)

\* SetNodeType of RedoCreatePageOperation, whatever the LSN of the page; only
\* the writer of leaves sets the dirty flag.
RedoNodeType(s, p, isLeaf) ==
    IF isLeaf THEN WritePage(s, p, [s.frames[p] EXCEPT !.leafType = TRUE])
    ELSE [s EXCEPT !.frames[p] = SetInternalType(@)]

RedoCreatePage(s, r) == UnpinPage(RedoNodeType(FetchPage(s, r.page), r.page, r.isLeaf), r.page)

RedoStore(s, r, lsn) ==
    LET page == PageIn(s, r.page)
    IN CASE r.op = "CreatePage" -> RedoCreatePage(s, r)
         [] r.op = "InsertLeafNodeEntry" -> RedoEntry(s, r.page, lsn, InsertElement(page, r.element))
         [] r.op = "UpdateLeafNodeEntry" ->
               RedoEntry(s, r.page, lsn, SetValue(page, r.element.key, r.element.value))
         [] r.op = "InsertInternalNodeEntry" -> RedoEntry(s, r.page, lsn, InsertChild(page, r.element))
         [] r.op = "SplitLeafNode" -> RedoSplitLeafNode(FetchBoth(s, r), r, lsn)
         [] r.op = "SplitInternalNode" -> RedoSplitInternalNode(FetchBoth(s, r), r, lsn)
         [] OTHER -> s

\* A page taken from the free list is replaced there by the last one.
TakeFromFreeList(free, p) ==
    LET i == SelectInSeq(free, LAMBDA q : q = p)
    IN IF i = 0 THEN free ELSE Front([free EXCEPT ![i] = Last(free)])

\* Mutant of RedoMetadata: the highest page id is not brought forward.
RedoMetadataKeepsMax(m, r, lsn) ==
    CASE m.lsn >= lsn -> m
      [] r.op = "UpdateRootNodePageId" -> [m EXCEPT !.roots[r.tree] = r.page, !.lsn = lsn]
      [] r.op = "UpdateFirstLeafNodePageId" -> [m EXCEPT !.firsts[r.tree] = r.page, !.lsn = lsn]
      [] OTHER -> m

\* Only records later than the metadata change it.  EnsurePageExists does not
\* set its LSN.
RedoMetadata(m, r, lsn) ==
    CASE m.lsn >= lsn -> m
      [] r.op = "CreatePage" /\ r.source = "expansion" -> [m EXCEPT !.max = Max({@, r.page})]
      [] r.op = "CreatePage" /\ r.source = "free list" ->
            [m EXCEPT !.free = TakeFromFreeList(@, r.page), !.lsn = lsn]
      [] r.op = "UpdateRootNodePageId" -> [m EXCEPT !.roots[r.tree] = r.page, !.lsn = lsn]
      [] r.op = "UpdateFirstLeafNodePageId" -> [m EXCEPT !.firsts[r.tree] = r.page, !.lsn = lsn]
      [] OTHER -> m

\* Recover panics where SetValue does.
RedoPanics(r, lsn) ==
    /\ r.op = "UpdateLeafNodeEntry"
    /\ Older(store, r.page, lsn)
    /\ SetValuePanics(PageIn(store, r.page), r.element.key)

ReadRecord ==
    /\ ReadNext
    /\ UNCHANGED <<wal, store, metadata, savedMetadata, treeVars, ops, historyVars, plan>>

\* One record of a committed operation is redone.
RedoNext ==
    /\ mode = "recovering"
    /\ recovery.redo # <<>>
    /\ IF RedoPanics(wal[Head(recovery.redo)], Head(recovery.redo))
       THEN mode' = "failed" /\ recovery' = recovery
       ELSE mode' = mode /\ recovery' = [recovery EXCEPT !.redo = Tail(@)]

RedoRecord ==
    /\ RedoNext
    /\ IF mode' = "failed" THEN UNCHANGED <<store, metadata>>
       ELSE LET lsn == Head(recovery.redo)
            IN /\ metadata' = RedoMetadata(metadata, wal[lsn], lsn)
               /\ store' = RedoStore(store, wal[lsn], lsn)
    /\ UNCHANGED <<wal, savedMetadata, treeVars, ops, historyVars, plan>>

\* What Get returns.  A page whose elements and slots overlap is not readable.
Found(t, k) ==
    IF \E p \in Range(PathTo(Content, RootOf(t), k)) : Overlaps(Content[p]) THEN Garbled
    ELSE Lookup(Content, RootOf(t), k)

\* Then the pages are written; the metadata is not.
FinishRecovery ==
    /\ EndNext
    /\ store' = FlushAllPages(store)
    /\ acknowledged' = [t \in Trees |-> [k \in Keys |-> Found(t, k)]]
    /\ optional' = [t \in Trees |-> [k \in Keys |-> {}]]
    /\ UNCHANGED <<wal, metadata, savedMetadata, treeVars, ops, plan>>

Next ==
    \/ NewBPlusTree
    \/ \E t \in Trees : OpenBPlusTree(t) \/ CloseBPlusTree(t)
    \/ \E c \in Clients : LockTree(c) \/ Step(c) \/ Return(c)
    \/ plan.inserts # <<>> /\ \E c \in Clients, e \in Head(plan.inserts) : LogBegin(c, e)
    \/ \E t \in Trees, k \in plan.reads : Get(t, k)
    \/ \E t \in Trees, k \in plan.deletes : Delete(t, k)
    \/ Close
    \/ Crash
    \/ ReadRecord \/ RedoRecord \/ FinishRecovery

Spec == Init /\ [][Next]_vars

\* Recover is one loop: it goes on until it returns or the process dies.
Recover == ReadNext \/ RedoNext \/ EndNext

FairSpec == Spec /\ WF_<<mode, recovery>>(Recover)

--------------------------------------------------------------------------------
(* Properties                                                              *)

TypeOK ==
    /\ mode \in {"running", "recovering", "failed"}
    /\ currBPlusTreeId \in {0} \cup Trees /\ created \subseteq Trees
    /\ Cached(store) \subseteq {0} \cup PageIds
    /\ Cardinality(Cached(store)) <= PoolSize
    /\ store.dirty \subseteq Cached(store)
    /\ metadata.max \in 0..MaxPageId
    /\ recovery.next \in 1..(Len(wal) + 1)
    /\ acknowledged \in [Trees -> [Keys -> Values \cup {NoValue}]]

\* When Recover returns, every key of every tree has the value that its last
\* answered Insert gave it, or one that an Insert without an answer, or a Delete,
\* which is not logged, leaves open; whenever the process died, in Recover as well.
RecoveryRestores ==
    [][mode = "recovering" /\ mode' = "running" =>
         \A t \in Trees, k \in Keys :
            acknowledged'[t][k] \in {acknowledged[t][k]} \cup optional[t][k]]_vars

\* Recover finds a Begin before every other record, and never panics.
RecoverySucceeds == mode # "failed"

--------------------------------------------------------------------------------
(* The engine implements RedoLog, which knows LSNs of pages only.          *)

\* The pages that get the LSN of record r when it is redone.
RedonePages(r) ==
    CASE r.op \in {"InsertLeafNodeEntry", "UpdateLeafNodeEntry", "InsertInternalNodeEntry"} -> {r.page}
      [] r.op \in {"SplitLeafNode", "SplitInternalNode"} -> {r.page, r.right}
      [] OTHER -> {}

AbstractRecord(r) ==
    [tree |-> r.tree, op |-> IF r.op \in {"Begin", "Commit"} THEN r.op ELSE "Change",
     pages |-> RedonePages(r)]

Redo == INSTANCE RedoLog WITH
    wal <- [n \in DOMAIN wal |-> AbstractRecord(wal[n])],
    memory <- [p \in PageIds |-> PageIn(store, p).lsn],
    disk <- [p \in PageIds |-> store.disk[p].lsn]

\* The engine writes the log and the pages, and Recover redoes the log, as
\* RedoLog allows: running, it puts pages of committed operations in the file
\* and no others, although it never waits for a Commit before it evicts a page.
ImplementsRedoLog == Redo!RedoSpec

\* There is no undo, so a page must not reach the file before the Commit of the
\* operation that changed it: guards and the order of eviction prevent it.
NothingUncommittedOnDisk == Redo!NothingUncommittedOnDisk

--------------------------------------------------------------------------------

\* No page belongs to two trees, and pages of a tree are neither free nor above
\* the highest page id, so that no later Insert takes them.
PagesOwned ==
    mode = "running" /\ (\A t \in Trees : ~Locked(t)) =>
        LET roots == {t \in Trees : RootOf(t) # 0}
            owned == [t \in roots |-> PagesOf(Content, RootOf(t))]
        IN \A t \in roots :
              /\ owned[t] \subseteq 1..metadata.max \ Range(metadata.free)
              /\ \A u \in roots \ {t} : owned[t] \cap owned[u] = {}

\* Nobody has a guard when no Insert runs.
GuardsReleased == (\A t \in Trees : ~Locked(t)) => Pinned(store) = {}

\* Recover returns, unless the process dies again.
RecoveryEnds == mode = "recovering" ~> mode # "recovering"
================================================================================
