-------------------------------- MODULE RedoLog --------------------------------
(***************************************************************************)
(* What a log that is only redone promises, whatever the pages hold.  Of a *)
(* page only its LSN is known: that of the record that changed it last.    *)
(* While the engine runs, the buffer pool writes a page to the file only   *)
(* when the operation that changed it last is committed.  Recovery reads   *)
(* the log and redoes the records of committed operations on the pages     *)
(* that are older, and the process may die whenever it likes.              *)
(***************************************************************************)
EXTENDS LogScan

CONSTANT PageIds

VARIABLES
    memory,     \* memory[p]: the LSN of page p, as readers see it
    disk        \* disk[p]: the LSN of page p in the file

redoVars == <<wal, memory, disk, recovery, mode>>

\* pages: those that get the LSN of the record when it is redone.
Record == [tree : Trees, op : {"Begin", "Commit"}, pages : {{}}]
              \cup [tree : Trees, op : {"Change"}, pages : SUBSET PageIds]

Init ==
    /\ wal = <<>>
    /\ memory = [p \in PageIds |-> 0]
    /\ disk = [p \in PageIds |-> 0]
    /\ recovery = NewRecovery
    /\ mode = "running"

--------------------------------------------------------------------------------

Durable(lsn) == lsn # 0 => Committed(lsn)

\* Some pages are written to the file, as they were.
SomeWritten ==
    /\ disk' = [p \in PageIds |-> disk'[p]]
    /\ \A p \in PageIds : disk'[p] \in {disk[p], memory[p]}

DurableWritten == SomeWritten /\ \A p \in PageIds : disk'[p] = disk[p] \/ Durable(memory[p])

\* While the engine runs, pages are read and written, and guards released.
Use ==
    /\ mode = "running"
    /\ UNCHANGED <<wal, memory, recovery, mode>>
    /\ DurableWritten

\* A page gets the LSN of a record that is in the log.
Stamp(p) ==
    /\ mode = "running"
    /\ UNCHANGED <<wal, recovery, mode>>
    /\ \E lsn \in 0..Len(wal) : memory' = [memory EXCEPT ![p] = lsn]
    /\ DurableWritten

\* A record is written; then the pages that it describes, and perhaps others,
\* get its LSN.
Log ==
    LET lsn == Len(wal) + 1
        r == wal'[lsn]
    IN /\ mode = "running"
       /\ Len(wal') = lsn /\ r \in Record /\ wal' = Append(wal, r)
       /\ memory' = [p \in PageIds |-> memory'[p]]
       /\ \A p \in PageIds : memory'[p] = lsn \/ (p \notin r.pages /\ memory'[p] = memory[p])
       /\ UNCHANGED <<disk, recovery, mode>>

\* The process ends, and another starts.
Restart ==
    /\ mode \in {"running", "recovering"}
    /\ mode' = "recovering"
    /\ recovery' = NewRecovery
    /\ UNCHANGED wal
    /\ DurableWritten
    /\ memory' = disk'

\* A record is redone on its pages that are older, or it cannot be.
RedoRecord ==
    LET lsn == Head(recovery.redo)
    IN /\ mode = "recovering"
       /\ recovery.redo # <<>>
       /\ UNCHANGED wal
       /\ \/ mode' = "failed" /\ UNCHANGED <<memory, disk, recovery>>
          \/ /\ mode' = mode
             /\ recovery' = [recovery EXCEPT !.redo = Tail(@)]
             /\ memory' = [p \in PageIds |->
                              IF p \in wal[lsn].pages /\ memory[p] < lsn THEN lsn ELSE memory[p]]
             /\ SomeWritten

ReadRecord == ReadNext /\ UNCHANGED <<wal, memory, disk>>

\* At the end of Recover all pages are written.
FinishRecovery ==
    /\ EndNext
    /\ UNCHANGED <<wal, memory>>
    /\ disk' = memory

Next ==
    \/ Use
    \/ \E p \in PageIds : Stamp(p)
    \/ Log
    \/ Restart
    \/ ReadRecord \/ RedoRecord \/ FinishRecovery

RedoSpec == Init /\ [][Next]_redoVars

--------------------------------------------------------------------------------
(* Properties                                                              *)

TypeOK ==
    /\ wal \in Seq(Record)
    /\ memory \in [PageIds -> 0..Len(wal)]
    /\ disk \in [PageIds -> 0..Len(wal)]
    /\ mode \in {"running", "recovering", "failed"}
    /\ recovery \in [next : 1..(Len(wal) + 1), operations : [Trees -> Seq(Nat)], redo : Seq(Nat)]
    /\ mode = "running" => recovery = NewRecovery

\* There is no undo, so a page must not reach the file before the Commit of the
\* operation that changed it, neither while the engine runs nor in Recover.
NothingUncommittedOnDisk == \A p \in PageIds : Durable(disk[p])

\* When Recover returns, no page is older than a committed record that describes
\* it, whenever the process died, in Recover as well; the file has it.
RecoveryRedoesAll ==
    [][mode = "recovering" /\ mode' = "running" =>
         \A lsn \in 1..Len(wal) : Committed(lsn) => \A p \in wal[lsn].pages : disk'[p] >= lsn]_redoVars

\* In Recover, pages have LSNs of committed records only.
MemoryDurable == mode # "running" => \A p \in PageIds : Durable(memory[p])

\* The records read of an operation are its own, and no Begin followed.
OperationsRead ==
    \A t \in Trees : recovery.operations[t] # NoOperation =>
        /\ \A n \in DOMAIN recovery.operations[t] :
              LET lsn == recovery.operations[t][n]
              IN /\ lsn \in 1..(recovery.next - 1)
                 /\ wal[lsn].tree = t
                 /\ ~Occurs(wal, "Begin", t, lsn, recovery.next - 1)
        /\ Increasing(recovery.operations[t])

\* No record was forgotten that a Commit may still follow.
ChangesKept ==
    \A lsn \in 1..(recovery.next - 1) :
        /\ wal[lsn].op = "Change"
        /\ ~Occurs(wal, "Begin", wal[lsn].tree, lsn, recovery.next - 1)
        /\ ~Occurs(wal, "Commit", wal[lsn].tree, lsn, recovery.next - 1)
        => Among(lsn, recovery.operations[wal[lsn].tree])

\* A record whose Commit was read has been redone, or is about to be.
CommittedRedone ==
    \A lsn \in 1..(recovery.next - 1) :
        wal[lsn].op = "Change" /\ CommittedBy(wal, lsn, recovery.next - 1) =>
            Among(lsn, recovery.redo) \/ \A p \in wal[lsn].pages : memory[p] >= lsn

RecoveryInv == RedoesCommitted /\ OperationsRead /\ ChangesKept /\ CommittedRedone

RedoInv == TypeOK /\ NothingUncommittedOnDisk /\ MemoryDurable /\ RecoveryInv
================================================================================
