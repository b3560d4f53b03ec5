----------------------------- MODULE RedoLogProofs -----------------------------
(***************************************************************************)
(* Redo without undo: the file holds committed operations only, and what   *)
(* Recover returns with is every one of them.  The theorems hold for all   *)
(* sets of trees and pages, and logs of any length.                        *)
(***************************************************************************)
EXTENDS RedoLog, TLAPS

\* A stretch of the log that is one record longer has one record more to offer.
LEMMA OccursOneMore ==
    ASSUME NEW w, NEW op, NEW t, NEW l \in Nat, NEW n \in Nat
    PROVE  Occurs(w, op, t, l, n + 1) <=>
               \/ Occurs(w, op, t, l, n)
               \/ l <= n + 1 /\ w[n + 1].tree = t /\ w[n + 1].op = op
<1>1. \A i \in l..(n + 1) : i \in l..n \/ i = n + 1
    OBVIOUS
<1>2. \A i \in l..n : i \in l..(n + 1)
    OBVIOUS
<1>3. l <= n + 1 => n + 1 \in l..(n + 1)
    OBVIOUS
<1>4. QED
    BY <1>1, <1>2, <1>3 DEF Occurs

\* A record is committed by the next record if it is a Commit of its tree that no
\* Begin comes before.
LEMMA CommittedOneMore ==
    ASSUME NEW w, NEW l \in Nat, NEW n \in Nat
    PROVE  CommittedBy(w, l, n + 1) <=>
               \/ CommittedBy(w, l, n)
               \/ /\ l <= n /\ w[n + 1].tree = w[l].tree /\ w[n + 1].op = "Commit"
                  /\ ~Occurs(w, "Begin", w[l].tree, l, n + 1)
<1>1. \A j \in (l + 1)..(n + 1) : j \in (l + 1)..n \/ (j = n + 1 /\ l <= n)
    OBVIOUS
<1>2. \A j \in (l + 1)..n : j \in (l + 1)..(n + 1)
    OBVIOUS
<1>3. l <= n => n + 1 \in (l + 1)..(n + 1)
    OBVIOUS
<1>4. QED
    BY <1>1, <1>2, <1>3 DEF CommittedBy

\* What is committed stays committed as more of the log is read.
LEMMA CommittedLater ==
    ASSUME NEW w, NEW l \in Nat, NEW m \in Nat, NEW n \in Nat, m <= n, CommittedBy(w, l, m)
    PROVE  CommittedBy(w, l, n)
<1>1. \A j \in (l + 1)..m : j \in (l + 1)..n
    OBVIOUS
<1>2. QED
    BY <1>1 DEF CommittedBy

\* Committed is a matter of the records read: what is appended does not change it.
LEMMA CommittedInLongerLog ==
    ASSUME NEW w, NEW v, NEW l \in Nat, NEW n \in Nat, 1 <= l,
           \A i \in 1..n : v[i] = w[i], CommittedBy(w, l, n)
    PROVE  CommittedBy(v, l, n)
<1>1. PICK j \in (l + 1)..n : /\ w[j].tree = w[l].tree /\ w[j].op = "Commit"
                              /\ ~Occurs(w, "Begin", w[l].tree, l, j)
    BY DEF CommittedBy
<1>2. v[j] = w[j] /\ v[l] = w[l]
    OBVIOUS
<1>3. \A i \in l..j : v[i] = w[i]
    OBVIOUS
<1>4. ~Occurs(v, "Begin", v[l].tree, l, j)
    BY <1>1, <1>2, <1>3 DEF Occurs
<1>5. QED
    BY <1>1, <1>2, <1>4 DEF CommittedBy

\* The elements of a sequence without its first.
LEMMA TailKeeps ==
    ASSUME NEW s \in Seq(Nat), s # <<>>
    PROVE  /\ Tail(s) \in Seq(Nat)
           /\ \A n \in DOMAIN Tail(s) : n + 1 \in DOMAIN s /\ Tail(s)[n] = s[n + 1]
           /\ \A n \in DOMAIN s : n = 1 \/ (n - 1 \in DOMAIN Tail(s) /\ Tail(s)[n - 1] = s[n])
<1>1. /\ Tail(s) \in Seq(Nat) /\ Len(s) \in Nat /\ Len(s) > 0 /\ Len(Tail(s)) = Len(s) - 1
      /\ DOMAIN s = 1..Len(s) /\ DOMAIN Tail(s) = 1..(Len(s) - 1)
    OBVIOUS
<1>2. \A n \in 1..(Len(s) - 1) : n + 1 \in 1..Len(s) /\ Tail(s)[n] = s[n + 1]
    BY <1>1
<1>3. ASSUME NEW n \in 1..Len(s), n # 1
      PROVE  n - 1 \in 1..(Len(s) - 1) /\ Tail(s)[n - 1] = s[n]
  <2>1. n - 1 \in 1..(Len(s) - 1) /\ (n - 1) + 1 = n
      BY <1>1, <1>3
  <2>2. QED
      BY <2>1, <1>2
<1>4. QED
    BY <1>1, <1>2, <1>3

\* The elements of a sequence with one more; LSNs still increase.
LEMMA AppendKeeps ==
    ASSUME NEW s \in Seq(Nat), NEW x \in Nat
    PROVE  /\ \A n \in DOMAIN Append(s, x) :
                 Append(s, x)[n] = x \/ (n \in DOMAIN s /\ Append(s, x)[n] = s[n])
           /\ Among(x, Append(s, x))
           /\ \A y : Among(y, s) => Among(y, Append(s, x))
           /\ (Increasing(s) /\ \A n \in DOMAIN s : s[n] < x) => Increasing(Append(s, x))
<1>1. /\ Len(s) \in Nat /\ DOMAIN s = 1..Len(s) /\ DOMAIN Append(s, x) = 1..(Len(s) + 1)
      /\ Append(s, x)[Len(s) + 1] = x
      /\ \A n \in 1..Len(s) : Append(s, x)[n] = s[n]
    OBVIOUS
<1>2. \A n \in 1..(Len(s) + 1) : n = Len(s) + 1 \/ n \in 1..Len(s)
    BY <1>1
<1>3. Len(s) + 1 \in 1..(Len(s) + 1) /\ \A n \in 1..Len(s) : n \in 1..(Len(s) + 1)
    BY <1>1
<1>4. ASSUME Increasing(s), \A n \in DOMAIN s : s[n] < x,
             NEW m \in 1..(Len(s) + 1), NEW n \in 1..(Len(s) + 1), m < n
      PROVE  Append(s, x)[m] < Append(s, x)[n]
  <2>1. m \in 1..Len(s)
      BY <1>1, <1>4
  <2>2. QED
      BY <2>1, <1>1, <1>2, <1>4 DEF Increasing
<1>5. QED
    BY <1>1, <1>2, <1>3, <1>4 DEF Among, Increasing

\* Recover starts with nothing read and nothing to redo.
LEMMA FreshRecovery == recovery = NewRecovery => RecoveryInv
<1> SUFFICES ASSUME recovery = NewRecovery PROVE RecoveryInv
    OBVIOUS
<1>1. recovery.next = 1 /\ recovery.redo = <<>> /\ \A t \in Trees : recovery.operations[t] = NoOperation
    BY DEF NewRecovery
<1>2. 1..(recovery.next - 1) = {}
    BY <1>1
<1>3. QED
    BY <1>1, <1>2 DEF RecoveryInv, RedoesCommitted, OperationsRead, ChangesKept, CommittedRedone, Increasing

\* The same of the next state.
LEMMA FreshRecoveryNext == (recovery = NewRecovery)' => RecoveryInv'
    BY FreshRecovery, PTL

\* While the engine runs, a page goes to the file only when the operation that
\* changed it last is committed.
LEMMA UseKeeps ==
    ASSUME RedoInv, Use
    PROVE  RedoInv'
<1>1. /\ mode = "running" /\ mode' = mode /\ wal' = wal /\ memory' = memory
      /\ recovery' = NewRecovery /\ recovery = NewRecovery
    BY DEF Use, RedoInv, TypeOK
<1>2. \A p \in PageIds : disk'[p] = disk[p] \/ (disk'[p] = memory[p] /\ Durable(memory[p]))
    BY DEF Use, DurableWritten, SomeWritten
<1>3. TypeOK'
  <2>1. disk' \in [PageIds -> 0..Len(wal)]
      BY <1>2 DEF Use, DurableWritten, SomeWritten, RedoInv, TypeOK
  <2>2. QED
      BY <2>1, <1>1 DEF RedoInv, TypeOK
<1>4. NothingUncommittedOnDisk'
    BY <1>1, <1>2 DEF RedoInv, NothingUncommittedOnDisk, Durable, Committed
<1>5. QED
    BY <1>1, <1>3, <1>4, FreshRecoveryNext DEF RedoInv, MemoryDurable

\* SetPageLSN changes a page in memory; the file may still get it as it was.
LEMMA StampKeeps ==
    ASSUME RedoInv, NEW q \in PageIds, Stamp(q)
    PROVE  RedoInv'
<1>1. /\ mode = "running" /\ mode' = mode /\ wal' = wal
      /\ recovery' = NewRecovery /\ recovery = NewRecovery
    BY DEF Stamp, RedoInv, TypeOK
<1>2. \A p \in PageIds : disk'[p] = disk[p] \/ (disk'[p] = memory[p] /\ Durable(memory[p]))
    BY DEF Stamp, DurableWritten, SomeWritten
<1>3. TypeOK'
  <2>1. disk' \in [PageIds -> 0..Len(wal)]
      BY <1>2 DEF Stamp, DurableWritten, SomeWritten, RedoInv, TypeOK
  <2>2. memory' \in [PageIds -> 0..Len(wal)]
      BY DEF Stamp, RedoInv, TypeOK
  <2>3. QED
      BY <2>1, <2>2, <1>1 DEF RedoInv, TypeOK
<1>4. NothingUncommittedOnDisk'
    BY <1>1, <1>2 DEF RedoInv, NothingUncommittedOnDisk, Durable, Committed
<1>5. QED
    BY <1>1, <1>3, <1>4, FreshRecoveryNext DEF RedoInv, MemoryDurable

\* A record is appended: no page of the file has its LSN yet.
LEMMA LogKeeps ==
    ASSUME RedoInv, Log
    PROVE  RedoInv'
<1> DEFINE lsn == Len(wal) + 1
           r == wal'[lsn]
<1>1. /\ mode = "running" /\ mode' = mode /\ disk' = disk
      /\ recovery' = NewRecovery /\ recovery = NewRecovery
    BY DEF Log, RedoInv, TypeOK
<1>2. wal \in Seq(Record) /\ r \in Record /\ wal' = Append(wal, r)
    BY DEF Log, RedoInv, TypeOK
<1> HIDE DEF r
<1>3. /\ wal' \in Seq(Record) /\ Len(wal) \in Nat /\ Len(wal') = Len(wal) + 1
      /\ \A i \in 1..Len(wal) : wal'[i] = wal[i]
    BY <1>2
<1>4. \A p \in PageIds : disk[p] \in 0..Len(wal) /\ memory[p] \in 0..Len(wal)
    BY DEF RedoInv, TypeOK
<1>5. TypeOK'
  <2>1. disk' \in [PageIds -> 0..Len(wal')]
      BY <1>1, <1>3, <1>4 DEF RedoInv, TypeOK
  <2>2. \A p \in PageIds : memory'[p] = lsn \/ memory'[p] = memory[p]
      BY DEF Log
  <2>3. memory' = [p \in PageIds |-> memory'[p]]
      BY DEF Log
  <2>4. memory' \in [PageIds -> 0..Len(wal')]
      BY <2>2, <2>3, <1>3, <1>4
  <2>5. recovery' \in [next : 1..(Len(wal') + 1), operations : [Trees -> Seq(Nat)], redo : Seq(Nat)]
      BY <1>1, <1>3 DEF NewRecovery, NoOperation
  <2>6. QED
      BY <2>1, <2>4, <2>5, <1>1, <1>3 DEF TypeOK
<1>6. NothingUncommittedOnDisk'
  <2> SUFFICES ASSUME NEW p \in PageIds, disk[p] # 0
               PROVE  CommittedBy(wal', disk[p], Len(wal'))
      BY <1>1 DEF NothingUncommittedOnDisk, Durable, Committed
  <2>1. CommittedBy(wal, disk[p], Len(wal))
      BY DEF RedoInv, NothingUncommittedOnDisk, Durable, Committed
  <2>2. disk[p] \in Nat /\ 1 <= disk[p]
      BY <1>3, <1>4
  <2>3. CommittedBy(wal', disk[p], Len(wal))
      BY <2>1, <2>2, <1>3, CommittedInLongerLog
  <2>4. Len(wal') \in Nat /\ Len(wal) <= Len(wal')
      BY <1>3
  <2>5. QED
      BY <2>2, <2>3, <2>4, <1>3, CommittedLater
<1>7. QED
    BY <1>1, <1>5, <1>6, FreshRecoveryNext DEF RedoInv, MemoryDurable

\* The process may die in Recover as well: the pages in memory are lost, and those
\* in the file are durable.
LEMMA RestartKeeps ==
    ASSUME RedoInv, Restart
    PROVE  RedoInv'
<1>1. mode' = "recovering" /\ wal' = wal /\ recovery' = NewRecovery /\ memory' = disk'
    BY DEF Restart
<1>2. \A p \in PageIds : disk'[p] = disk[p] \/ (disk'[p] = memory[p] /\ Durable(memory[p]))
    BY DEF Restart, DurableWritten, SomeWritten
<1>3. TypeOK'
  <2>1. disk' \in [PageIds -> 0..Len(wal)]
      BY <1>2 DEF Restart, DurableWritten, SomeWritten, RedoInv, TypeOK
  <2>2. recovery' \in [next : 1..(Len(wal) + 1), operations : [Trees -> Seq(Nat)], redo : Seq(Nat)]
      BY <1>1 DEF NewRecovery, NoOperation, RedoInv, TypeOK
  <2>3. QED
      BY <2>1, <2>2, <1>1 DEF RedoInv, TypeOK
<1>4. \A p \in PageIds : Durable(disk[p])'
    BY <1>1, <1>2 DEF RedoInv, NothingUncommittedOnDisk, Durable, Committed
<1>5. NothingUncommittedOnDisk' /\ MemoryDurable'
    BY <1>1, <1>4 DEF NothingUncommittedOnDisk, MemoryDurable, Durable, Committed
<1>6. QED
    BY <1>1, <1>3, <1>5, FreshRecoveryNext DEF RedoInv

\* Recover writes all pages at its end: in Recover they are all durable.
LEMMA EndKeeps ==
    ASSUME RedoInv, FinishRecovery
    PROVE  RedoInv'
<1>1. /\ mode = "recovering" /\ mode' = "running" /\ wal' = wal /\ recovery' = NewRecovery
      /\ memory' = memory /\ disk' = memory
    BY DEF FinishRecovery, EndNext
<1>2. TypeOK'
  <2>1. recovery' \in [next : 1..(Len(wal) + 1), operations : [Trees -> Seq(Nat)], redo : Seq(Nat)]
      BY <1>1 DEF NewRecovery, NoOperation, RedoInv, TypeOK
  <2>2. QED
      BY <2>1, <1>1 DEF RedoInv, TypeOK
<1>3. NothingUncommittedOnDisk'
    BY <1>1 DEF RedoInv, MemoryDurable, NothingUncommittedOnDisk, Durable, Committed
<1>4. QED
    BY <1>1, <1>2, <1>3, FreshRecoveryNext DEF RedoInv, MemoryDurable

\* Recover redoes a record: it is committed, so its pages may reach the file at any
\* time, and a page that is not older keeps its LSN.
LEMMA RedoKeeps ==
    ASSUME RedoInv, RedoRecord
    PROVE  RedoInv'
<1> DEFINE lsn == Head(recovery.redo)
<1>1. /\ mode = "recovering" /\ recovery.redo # <<>> /\ wal' = wal
      /\ recovery.redo \in Seq(Nat) /\ Len(wal) \in Nat
    BY DEF RedoRecord, RedoInv, TypeOK
<1>2. lsn = recovery.redo[1] /\ 1 \in DOMAIN recovery.redo
    BY <1>1
<1>3. lsn \in 1..Len(wal) /\ Committed(lsn)
    BY <1>2 DEF RedoInv, RecoveryInv, RedoesCommitted
<1> HIDE DEF lsn
<1>4. CASE mode' = "failed" /\ UNCHANGED <<memory, disk, recovery>>
    BY <1>1, <1>4 DEF RedoInv, TypeOK, NothingUncommittedOnDisk, MemoryDurable, Durable, Committed,
                      RecoveryInv, RedoesCommitted, OperationsRead, ChangesKept, CommittedRedone
<1>5. CASE /\ mode' = mode
           /\ recovery' = [recovery EXCEPT !.redo = Tail(@)]
           /\ memory' = [p \in PageIds |->
                            IF p \in wal[lsn].pages /\ memory[p] < lsn THEN lsn ELSE memory[p]]
           /\ SomeWritten
  <2>1. /\ recovery'.next = recovery.next /\ recovery'.operations = recovery.operations
        /\ recovery'.redo = Tail(recovery.redo)
      BY <1>5 DEF RedoInv, TypeOK
  <2>2. /\ Tail(recovery.redo) \in Seq(Nat)
        /\ \A n \in DOMAIN Tail(recovery.redo) :
              n + 1 \in DOMAIN recovery.redo /\ Tail(recovery.redo)[n] = recovery.redo[n + 1]
        /\ \A n \in DOMAIN recovery.redo :
              n = 1 \/ (n - 1 \in DOMAIN Tail(recovery.redo) /\ Tail(recovery.redo)[n - 1] = recovery.redo[n])
      BY <1>1, TailKeeps
  <2>3. \A p \in PageIds : /\ memory[p] \in 0..Len(wal) /\ memory'[p] \in 0..Len(wal)
                           /\ memory[p] <= memory'[p]
                           /\ p \in wal[lsn].pages => lsn <= memory'[p]
                           /\ memory'[p] = lsn \/ memory'[p] = memory[p]
                           /\ disk'[p] = disk[p] \/ disk'[p] = memory[p]
    <3> TAKE p \in PageIds
    <3>1. memory[p] \in 0..Len(wal) /\ lsn \in 1..Len(wal) /\ Len(wal) \in Nat
        BY <1>1, <1>3 DEF RedoInv, TypeOK
    <3>2. memory'[p] = IF p \in wal[lsn].pages /\ memory[p] < lsn THEN lsn ELSE memory[p]
        BY <1>5
    <3>3. disk'[p] = disk[p] \/ disk'[p] = memory[p]
        BY <1>5 DEF SomeWritten
    <3>4. QED
        BY <3>1, <3>2, <3>3
  <2>4. TypeOK'
    <3>1. memory' \in [PageIds -> 0..Len(wal)] /\ disk' \in [PageIds -> 0..Len(wal)]
        BY <2>3, <1>5 DEF RedoInv, TypeOK, SomeWritten
    <3>2. recovery' \in [next : 1..(Len(wal) + 1), operations : [Trees -> Seq(Nat)], redo : Seq(Nat)]
        BY <2>2, <1>5 DEF RedoInv, TypeOK
    <3>3. QED
        BY <3>1, <3>2, <1>1, <1>5 DEF RedoInv, TypeOK
  <2>5. \A p \in PageIds : Durable(memory[p]) /\ Durable(disk[p])
      BY <1>1 DEF RedoInv, MemoryDurable, NothingUncommittedOnDisk
  <2>6. NothingUncommittedOnDisk' /\ MemoryDurable'
    <3>1. \A p \in PageIds : Durable(memory'[p]) /\ Durable(disk'[p])
        BY <2>3, <2>5, <1>3 DEF Durable
    <3>2. QED
        BY <3>1, <1>1 DEF NothingUncommittedOnDisk, MemoryDurable, Durable, Committed
  <2>7. RedoesCommitted'
    <3>1. \A n \in DOMAIN recovery'.redo : recovery'.redo[n] \in 1..Len(wal) /\ Committed(recovery'.redo[n])
        BY <2>1, <2>2 DEF RedoInv, RecoveryInv, RedoesCommitted
    <3>2. \A m, n \in DOMAIN Tail(recovery.redo) : m < n => m + 1 < n + 1
        BY <1>1
    <3>3. Increasing(recovery'.redo)
        BY <3>2, <2>1, <2>2 DEF RedoInv, RecoveryInv, RedoesCommitted, Increasing
    <3>4. QED
        BY <3>1, <3>3, <1>1 DEF RedoesCommitted, Committed
  <2>8. OperationsRead' /\ ChangesKept'
      BY <2>1, <1>1 DEF RedoInv, RecoveryInv, OperationsRead, ChangesKept
  <2>9. CommittedRedone'
    <3> SUFFICES ASSUME NEW l \in 1..(recovery.next - 1), wal[l].op = "Change",
                        CommittedBy(wal, l, recovery.next - 1)
                 PROVE  Among(l, recovery'.redo) \/ \A p \in wal[l].pages : memory'[p] >= l
        BY <2>1, <1>1 DEF CommittedRedone
    <3>1. l \in 1..Len(wal) /\ wal[l].pages \subseteq PageIds
      <4>1. recovery.next \in 1..(Len(wal) + 1) /\ wal \in Seq(Record)
          BY DEF RedoInv, TypeOK
      <4>2. l \in 1..Len(wal)
          BY <4>1, <1>1
      <4>3. wal[l] \in Record
          BY <4>1, <4>2
      <4>4. QED
          BY <4>2, <4>3 DEF Record
    <3>2. CASE \A p \in wal[l].pages : memory[p] >= l
        BY <3>1, <3>2, <2>3
    <3>3. CASE Among(l, recovery.redo)
      <4>1. PICK n \in DOMAIN recovery.redo : recovery.redo[n] = l
          BY <3>3 DEF Among
      <4>2. CASE n = 1
        <5>1. l = lsn
            BY <4>1, <4>2, <1>2
        <5>2. \A p \in wal[l].pages : memory'[p] \in Nat /\ lsn <= memory'[p]
            BY <5>1, <3>1, <2>3, <1>1
        <5>3. QED
            BY <5>1, <5>2
      <4>3. CASE n # 1
        <5>1. n - 1 \in DOMAIN Tail(recovery.redo) /\ Tail(recovery.redo)[n - 1] = l
            BY <4>1, <4>3, <2>2
        <5>2. Among(l, Tail(recovery.redo))
            BY <5>1 DEF Among
        <5>3. QED
            BY <5>2, <2>1
      <4>4. QED
          BY <4>2, <4>3
    <3>4. QED
        BY <3>2, <3>3 DEF RedoInv, RecoveryInv, CommittedRedone
  <2>10. QED
      BY <2>4, <2>6, <2>7, <2>8, <2>9 DEF RedoInv, RecoveryInv
<1>6. QED
    BY <1>4, <1>5 DEF RedoRecord, lsn

\* Recover reads a record.  A Commit has the records since the last Begin of its tree
\* redone: these are all that it commits, because the log keeps them in order and no
\* earlier Commit came between.
LEMMA ReadKeeps ==
    ASSUME RedoInv, ReadRecord
    PROVE  RedoInv'
<1> DEFINE k == recovery.next - 1
           r == wal[recovery.next]
           t == r.tree
           read == recovery.operations[t]
<1>1. /\ mode = "recovering" /\ recovery.redo = <<>> /\ recovery.next <= Len(wal)
      /\ wal' = wal /\ memory' = memory /\ disk' = disk /\ mode' \in {mode, "failed"}
    BY DEF ReadRecord, ReadNext
<1>2. /\ k \in Nat /\ recovery.next = k + 1 /\ k + 1 \in 1..Len(wal) /\ Len(wal) \in Nat
      /\ wal \in Seq(Record) /\ recovery.operations \in [Trees -> Seq(Nat)]
    BY <1>1 DEF RedoInv, TypeOK
<1>3. r \in Record /\ t \in Trees /\ r.op \in {"Begin", "Commit", "Change"} /\ read \in Seq(Nat)
    BY <1>2 DEF Record
<1>4. NothingUncommittedOnDisk' /\ MemoryDurable'
    BY <1>1 DEF RedoInv, NothingUncommittedOnDisk, MemoryDurable, Durable, Committed
<1>5. CASE mode' = "failed" /\ recovery' = recovery
    BY <1>1, <1>4, <1>5 DEF RedoInv, TypeOK, Committed, RecoveryInv, RedoesCommitted, OperationsRead,
                            ChangesKept, CommittedRedone
<1>6. ASSUME mode' = mode, NEW ops \in [Trees -> Seq(Nat)], NEW redo \in Seq(Nat),
             recovery' = [recovery EXCEPT !.next = @ + 1, !.operations = ops, !.redo = redo]
      PROVE  /\ TypeOK'
             /\ recovery'.next - 1 = k + 1 /\ recovery'.operations = ops /\ recovery'.redo = redo
  <2>1. /\ recovery'.next = recovery.next + 1 /\ recovery'.operations = ops /\ recovery'.redo = redo
        /\ recovery' \in [next : {recovery.next + 1}, operations : {ops}, redo : {redo}]
      BY <1>6 DEF RedoInv, TypeOK
  <2>2. recovery.next + 1 \in 1..(Len(wal) + 1)
      BY <1>1, <1>2
  <2>3. QED
      BY <2>1, <2>2, <1>1, <1>2, <1>6 DEF RedoInv, TypeOK
<1> HIDE DEF k, r, t, read
<1>7. \A lsn \in 1..k : CommittedBy(wal, lsn, k) /\ wal[lsn].op = "Change" =>
          \A p \in wal[lsn].pages : memory[p] >= lsn
  <2>1. ~ \E lsn : Among(lsn, recovery.redo)
      BY <1>1 DEF Among
  <2>2. QED
      BY <2>1, <1>2 DEF RedoInv, RecoveryInv, CommittedRedone, k
<1>8. /\ k + 1 = recovery.next /\ r = wal[k + 1] /\ r.op = wal[k + 1].op /\ t = wal[k + 1].tree
      /\ read = recovery.operations[t]
    BY <1>2 DEF k, r, t, read
<1>9. /\ \A lsn \in 1..(k + 1) : lsn \in Nat /\ (lsn \in 1..k \/ lsn = k + 1)
      /\ \A lsn \in 1..k : lsn \in Nat /\ lsn \in 1..(k + 1) /\ lsn \in 1..Len(wal) /\ lsn <= k /\ lsn # k + 1
      /\ k + 1 \in 1..(k + 1) /\ k + 1 \in Nat /\ k + 1 <= Len(wal)
    BY <1>2
<1>10. \A u, op : \A lsn \in 1..(k + 1) :
          Occurs(wal, op, u, lsn, k + 1) <=> Occurs(wal, op, u, lsn, k) \/ (t = u /\ r.op = op)
  <2> TAKE u, op
  <2> TAKE lsn \in 1..(k + 1)
  <2>1. lsn \in Nat /\ lsn <= k + 1
      BY <1>9, <1>2
  <2>2. Occurs(wal, op, u, lsn, k + 1) <=>
            Occurs(wal, op, u, lsn, k) \/ (lsn <= k + 1 /\ wal[k + 1].tree = u /\ wal[k + 1].op = op)
      BY <2>1, <1>2, OccursOneMore
  <2>3. QED
      BY <2>1, <2>2, <1>8
<1>11. \A lsn \in 1..(k + 1) :
          CommittedBy(wal, lsn, k + 1) <=>
              \/ CommittedBy(wal, lsn, k)
              \/ /\ lsn <= k /\ t = wal[lsn].tree /\ r.op = "Commit"
                 /\ ~Occurs(wal, "Begin", wal[lsn].tree, lsn, k + 1)
  <2> TAKE lsn \in 1..(k + 1)
  <2>1. CommittedBy(wal, lsn, k + 1) <=>
            \/ CommittedBy(wal, lsn, k)
            \/ /\ lsn <= k /\ wal[k + 1].tree = wal[lsn].tree /\ wal[k + 1].op = "Commit"
               /\ ~Occurs(wal, "Begin", wal[lsn].tree, lsn, k + 1)
      BY <1>2, <1>9, CommittedOneMore
  <2>2. QED
      BY <2>1, <1>8
<1>12. ASSUME NEW u \in Trees, recovery.operations[u] # NoOperation, u # t \/ r.op # "Begin"
       PROVE  /\ \A n \in DOMAIN recovery.operations[u] :
                    LET lsn == recovery.operations[u][n]
                    IN /\ lsn \in 1..k
                       /\ wal[lsn].tree = u
                       /\ ~Occurs(wal, "Begin", u, lsn, k + 1)
              /\ Increasing(recovery.operations[u])
  <2>1. /\ \A n \in DOMAIN recovery.operations[u] :
              LET lsn == recovery.operations[u][n]
              IN /\ lsn \in 1..k
                 /\ wal[lsn].tree = u
                 /\ ~Occurs(wal, "Begin", u, lsn, k)
        /\ Increasing(recovery.operations[u])
      BY <1>12 DEF RedoInv, RecoveryInv, OperationsRead, k
  <2>2. QED
      BY <2>1, <1>12, <1>9, <1>10
<1>13. \A lsn \in 1..k :
          /\ wal[lsn].op = "Change"
          /\ ~Occurs(wal, "Begin", wal[lsn].tree, lsn, k)
          /\ ~Occurs(wal, "Commit", wal[lsn].tree, lsn, k)
          => Among(lsn, recovery.operations[wal[lsn].tree])
    BY DEF RedoInv, RecoveryInv, ChangesKept, k
<1>14. CASE r.op = "Begin"
  <2> DEFINE ops == [recovery.operations EXCEPT ![t] = <<>>]
  <2>1. mode' = mode /\ recovery' = [recovery EXCEPT !.next = @ + 1, !.operations = ops, !.redo = <<>>]
      BY <1>1, <1>14 DEF ReadRecord, ReadNext, r, t, RedoInv, TypeOK
  <2>2. /\ <<>> \in Seq(Nat) /\ ops \in [Trees -> Seq(Nat)] /\ ops[t] = <<>>
        /\ \A u \in Trees : u # t => ops[u] = recovery.operations[u]
      BY <1>2, <1>3
  <2> HIDE DEF ops
  <2>3. TypeOK' /\ recovery'.next - 1 = k + 1 /\ recovery'.operations = ops /\ recovery'.redo = <<>>
      BY <2>1, <2>2, <1>6
  <2>4. RedoesCommitted'
      BY <2>3 DEF RedoesCommitted, Increasing
  <2>5. OperationsRead'
    <3> SUFFICES ASSUME NEW u \in Trees, ops[u] # NoOperation
                 PROVE  /\ \A n \in DOMAIN ops[u] : /\ ops[u][n] \in 1..(k + 1)
                                                    /\ wal[ops[u][n]].tree = u
                                                    /\ ~Occurs(wal, "Begin", u, ops[u][n], k + 1)
                        /\ Increasing(ops[u])
        BY <2>3, <1>1 DEF OperationsRead
    <3>1. CASE u = t
        BY <3>1, <2>2 DEF Increasing
    <3>2. CASE u # t
        BY <3>2, <2>2, <1>12, <1>9
    <3>3. QED
        BY <3>1, <3>2
  <2>6. ChangesKept'
    <3> SUFFICES ASSUME NEW lsn \in 1..(k + 1), wal[lsn].op = "Change",
                        ~Occurs(wal, "Begin", wal[lsn].tree, lsn, k + 1),
                        ~Occurs(wal, "Commit", wal[lsn].tree, lsn, k + 1)
                 PROVE  Among(lsn, ops[wal[lsn].tree])
        BY <2>3, <1>1 DEF ChangesKept
    <3>1. lsn \in 1..k
        BY <1>8, <1>9, <1>14
    <3>2. /\ wal[lsn].tree # t
          /\ ~Occurs(wal, "Begin", wal[lsn].tree, lsn, k)
          /\ ~Occurs(wal, "Commit", wal[lsn].tree, lsn, k)
        BY <1>10, <1>14
    <3>3. wal[lsn].tree \in Trees
        BY <3>1, <1>2, <1>9 DEF Record
    <3>4. QED
        BY <3>1, <3>2, <3>3, <2>2, <1>13
  <2>7. CommittedRedone'
    <3> SUFFICES ASSUME NEW lsn \in 1..(k + 1), wal[lsn].op = "Change", CommittedBy(wal, lsn, k + 1)
                 PROVE  \A p \in wal[lsn].pages : memory[p] >= lsn
        BY <2>3, <1>1 DEF CommittedRedone
    <3>1. lsn \in 1..k
        BY <1>8, <1>9, <1>14
    <3>2. QED
        BY <3>1, <1>7, <1>11, <1>14
  <2>8. QED
      BY <2>3, <2>4, <2>5, <2>6, <2>7, <1>4 DEF RedoInv, RecoveryInv
<1>15. CASE r.op = "Commit" /\ read # NoOperation
  <2> DEFINE ops == [recovery.operations EXCEPT ![t] = NoOperation]
  <2>1. mode' = mode /\ recovery' = [recovery EXCEPT !.next = @ + 1, !.operations = ops, !.redo = read]
      BY <1>15 DEF ReadRecord, ReadNext, r, t, read
  <2>2. /\ ops \in [Trees -> Seq(Nat)] /\ ops[t] = NoOperation
        /\ \A u \in Trees : u # t => ops[u] = recovery.operations[u]
      BY <1>2, <1>3 DEF NoOperation
  <2> HIDE DEF ops
  <2>3. TypeOK' /\ recovery'.next - 1 = k + 1 /\ recovery'.operations = ops /\ recovery'.redo = read
      BY <2>1, <2>2, <1>3, <1>6
  <2>4. RedoesCommitted'
    <3>1. ASSUME NEW n \in DOMAIN read
          PROVE  read[n] \in 1..Len(wal) /\ CommittedBy(wal, read[n], Len(wal))
      <4>1. /\ read[n] \in 1..k /\ wal[read[n]].tree = t
            /\ ~Occurs(wal, "Begin", t, read[n], k + 1)
          BY <1>3, <1>8, <1>12, <1>15
      <4>2. CommittedBy(wal, read[n], k + 1)
          BY <4>1, <1>9, <1>11, <1>15
      <4>3. QED
          BY <4>1, <4>2, <1>2, <1>9, CommittedLater
    <3>2. Increasing(read)
        BY <1>3, <1>8, <1>12, <1>15
    <3>3. QED
        BY <3>1, <3>2, <2>3, <1>1 DEF RedoesCommitted, Committed
  <2>5. OperationsRead'
    <3> SUFFICES ASSUME NEW u \in Trees, ops[u] # NoOperation
                 PROVE  /\ \A n \in DOMAIN ops[u] : /\ ops[u][n] \in 1..(k + 1)
                                                    /\ wal[ops[u][n]].tree = u
                                                    /\ ~Occurs(wal, "Begin", u, ops[u][n], k + 1)
                        /\ Increasing(ops[u])
        BY <2>3, <1>1 DEF OperationsRead
    <3>1. u # t
        BY <2>2
    <3>2. QED
        BY <3>1, <2>2, <1>12, <1>9
  <2>6. ChangesKept'
    <3> SUFFICES ASSUME NEW lsn \in 1..(k + 1), wal[lsn].op = "Change",
                        ~Occurs(wal, "Begin", wal[lsn].tree, lsn, k + 1),
                        ~Occurs(wal, "Commit", wal[lsn].tree, lsn, k + 1)
                 PROVE  Among(lsn, ops[wal[lsn].tree])
        BY <2>3, <1>1 DEF ChangesKept
    <3>1. lsn \in 1..k
        BY <1>8, <1>9, <1>15
    <3>2. /\ wal[lsn].tree # t
          /\ ~Occurs(wal, "Begin", wal[lsn].tree, lsn, k)
          /\ ~Occurs(wal, "Commit", wal[lsn].tree, lsn, k)
        BY <1>10, <1>15
    <3>3. wal[lsn].tree \in Trees
        BY <3>1, <1>2, <1>9 DEF Record
    <3>4. QED
        BY <3>1, <3>2, <3>3, <2>2, <1>13
  <2>7. CommittedRedone'
    <3> SUFFICES ASSUME NEW lsn \in 1..(k + 1), wal[lsn].op = "Change", CommittedBy(wal, lsn, k + 1)
                 PROVE  Among(lsn, read) \/ \A p \in wal[lsn].pages : memory[p] >= lsn
        BY <2>3, <1>1 DEF CommittedRedone
    <3>1. lsn \in 1..k
        BY <1>8, <1>9, <1>15
    <3>2. CASE CommittedBy(wal, lsn, k)
        BY <3>1, <3>2, <1>7
    <3>3. CASE ~CommittedBy(wal, lsn, k)
      <4>1. t = wal[lsn].tree /\ ~Occurs(wal, "Begin", t, lsn, k + 1)
          BY <3>3, <1>11
      <4>2. ~Occurs(wal, "Begin", t, lsn, k)
          BY <4>1, <1>10
      <4>3. ~Occurs(wal, "Commit", t, lsn, k)
        <5> SUFFICES ASSUME Occurs(wal, "Commit", t, lsn, k) PROVE FALSE
            OBVIOUS
        <5>1. PICK j \in lsn..k : wal[j].tree = t /\ wal[j].op = "Commit"
            BY DEF Occurs
        <5>2. j \in (lsn + 1)..k /\ \A i \in lsn..j : i \in lsn..k
            BY <5>1, <3>1, <1>2
        <5>3. ~Occurs(wal, "Begin", t, lsn, j)
            BY <5>2, <4>2 DEF Occurs
        <5>4. QED
            BY <5>1, <5>2, <5>3, <4>1, <3>3 DEF CommittedBy
      <4>4. QED
          BY <4>1, <4>2, <4>3, <3>1, <1>8, <1>13
    <3>4. QED
        BY <3>2, <3>3
  <2>8. QED
      BY <2>3, <2>4, <2>5, <2>6, <2>7, <1>4 DEF RedoInv, RecoveryInv
<1>16. CASE r.op = "Change" /\ read # NoOperation
  <2> DEFINE ops == [recovery.operations EXCEPT ![t] = Append(read, k + 1)]
  <2>1. mode' = mode /\ recovery' = [recovery EXCEPT !.next = @ + 1, !.operations = ops, !.redo = <<>>]
      BY <1>1, <1>8, <1>16 DEF ReadRecord, ReadNext, r, t, read, RedoInv, TypeOK
  <2>2. /\ <<>> \in Seq(Nat) /\ ops \in [Trees -> Seq(Nat)] /\ ops[t] = Append(read, k + 1)
        /\ \A u \in Trees : u # t => ops[u] = recovery.operations[u]
      BY <1>2, <1>3, <1>9
  <2> HIDE DEF ops
  <2>3. TypeOK' /\ recovery'.next - 1 = k + 1 /\ recovery'.operations = ops /\ recovery'.redo = <<>>
      BY <2>1, <2>2, <1>6
  <2>4. RedoesCommitted'
      BY <2>3 DEF RedoesCommitted, Increasing
  <2>5. /\ \A n \in DOMAIN ops[t] : ops[t][n] = k + 1 \/ (n \in DOMAIN read /\ ops[t][n] = read[n])
        /\ Among(k + 1, ops[t])
        /\ \A x : Among(x, read) => Among(x, ops[t])
        /\ (Increasing(read) /\ \A n \in DOMAIN read : read[n] < k + 1) => Increasing(ops[t])
      BY <2>2, <1>3, <1>9, AppendKeeps
  <2>6. OperationsRead'
    <3> SUFFICES ASSUME NEW u \in Trees, ops[u] # NoOperation
                 PROVE  /\ \A n \in DOMAIN ops[u] : /\ ops[u][n] \in 1..(k + 1)
                                                    /\ wal[ops[u][n]].tree = u
                                                    /\ ~Occurs(wal, "Begin", u, ops[u][n], k + 1)
                        /\ Increasing(ops[u])
        BY <2>3, <1>1 DEF OperationsRead
    <3>1. CASE u # t
        BY <3>1, <2>2, <1>12, <1>9
    <3>2. CASE u = t
      <4>1. /\ \A n \in DOMAIN read : /\ read[n] \in 1..k /\ wal[read[n]].tree = t
                                      /\ ~Occurs(wal, "Begin", t, read[n], k + 1)
            /\ Increasing(read)
          BY <1>3, <1>8, <1>12, <1>16
      <4>2. wal[k + 1].tree = t /\ ~Occurs(wal, "Begin", t, k + 1, k + 1)
        <5>1. ~Occurs(wal, "Begin", t, k + 1, k)
            BY <1>2 DEF Occurs
        <5>2. QED
            BY <5>1, <1>8, <1>9, <1>10, <1>16
      <4>3. \A n \in DOMAIN read : read[n] < k + 1
          BY <4>1, <1>2
      <4>4. QED
          BY <4>1, <4>2, <4>3, <3>2, <2>5, <1>9
    <3>3. QED
        BY <3>1, <3>2
  <2>7. ChangesKept'
    <3> SUFFICES ASSUME NEW lsn \in 1..(k + 1), wal[lsn].op = "Change",
                        ~Occurs(wal, "Begin", wal[lsn].tree, lsn, k + 1),
                        ~Occurs(wal, "Commit", wal[lsn].tree, lsn, k + 1)
                 PROVE  Among(lsn, ops[wal[lsn].tree])
        BY <2>3, <1>1 DEF ChangesKept
    <3>1. CASE lsn = k + 1
        BY <3>1, <2>5, <1>8
    <3>2. CASE lsn \in 1..k
      <4>1. /\ ~Occurs(wal, "Begin", wal[lsn].tree, lsn, k)
            /\ ~Occurs(wal, "Commit", wal[lsn].tree, lsn, k)
          BY <1>10
      <4>2. wal[lsn].tree \in Trees
          BY <3>2, <1>2, <1>9 DEF Record
      <4>3. QED
          BY <4>1, <4>2, <3>2, <2>2, <2>5, <1>8, <1>13
    <3>3. QED
        BY <3>1, <3>2, <1>9
  <2>8. CommittedRedone'
    <3> SUFFICES ASSUME NEW lsn \in 1..(k + 1), wal[lsn].op = "Change", CommittedBy(wal, lsn, k + 1)
                 PROVE  \A p \in wal[lsn].pages : memory[p] >= lsn
        BY <2>3, <1>1 DEF CommittedRedone
    <3>1. CommittedBy(wal, lsn, k)
        BY <1>11, <1>16
    <3>2. lsn \in 1..k
        BY <3>1, <1>2 DEF CommittedBy
    <3>3. QED
        BY <3>1, <3>2, <1>7
  <2>9. QED
      BY <2>3, <2>4, <2>6, <2>7, <2>8, <1>4 DEF RedoInv, RecoveryInv
<1>17. QED
  <2>1. CASE r.op # "Begin" /\ read = NoOperation
      BY <2>1, <1>5 DEF ReadRecord, ReadNext, r, t, read
  <2>2. QED
      BY <2>1, <1>3, <1>14, <1>15, <1>16

\* Every step keeps what the log promises.
LEMMA RedoStep == RedoInv /\ [Next]_redoVars => RedoInv'
<1> SUFFICES ASSUME RedoInv, [Next]_redoVars PROVE RedoInv'
    OBVIOUS
<1>1. CASE UNCHANGED redoVars
    BY <1>1 DEF redoVars, RedoInv, TypeOK, NothingUncommittedOnDisk, MemoryDurable, Durable, Committed,
                RecoveryInv, RedoesCommitted, OperationsRead, ChangesKept, CommittedRedone
<1>2. QED
    BY <1>1, UseKeeps, StampKeeps, LogKeeps, RestartKeeps, ReadKeeps, RedoKeeps, EndKeeps DEF Next

\* The engine starts with an empty log and new pages.
LEMMA RedoStart == Init => RedoInv
<1> SUFFICES ASSUME Init PROVE RedoInv
    OBVIOUS
<1>1. TypeOK
    BY DEF Init, TypeOK, NewRecovery, NoOperation
<1>2. QED
    BY <1>1, FreshRecovery DEF Init, RedoInv, NothingUncommittedOnDisk, MemoryDurable, Durable

\* The log keeps its promise whatever the order of writes, crashes and recoveries.
THEOREM RedoInvariant == RedoSpec => []RedoInv
    BY RedoStart, RedoStep, PTL DEF RedoSpec

\* No page reaches the file before the Commit of the operation that changed it last,
\* neither from the buffer pool nor from Recover, also after crashes in Recover: the
\* engine never needs to undo.
THEOREM DiskHoldsCommitted == RedoSpec => []NothingUncommittedOnDisk
<1>1. RedoInv => NothingUncommittedOnDisk
    BY DEF RedoInv
<1>2. QED
    BY <1>1, RedoInvariant, PTL

\* Recover redoes records of committed operations only, in the order of the log, and
\* none of them twice in one operation.
THEOREM RecoveryRedoesCommittedOnly == RedoSpec => []RedoesCommitted
<1>1. RedoInv => RedoesCommitted
    BY DEF RedoInv, RecoveryInv
<1>2. QED
    BY <1>1, RedoInvariant, PTL

\* When Recover returns, every page in the file is as new as the last committed record
\* that describes it, however often the process died before, in Recover as well.
THEOREM RecoveryIsComplete == RedoSpec => RecoveryRedoesAll
<1> DEFINE Redone == \A lsn \in 1..Len(wal) : Committed(lsn) => \A p \in wal[lsn].pages : disk'[p] >= lsn
<1>1. RedoInv /\ [Next]_redoVars => [mode = "recovering" /\ mode' = "running" => Redone]_redoVars
  <2> SUFFICES ASSUME RedoInv, Next, mode = "recovering", mode' = "running" PROVE Redone
      OBVIOUS
  <2>1. FinishRecovery
      BY DEF Next, Use, Stamp, Log, Restart, ReadRecord, ReadNext, RedoRecord
  <2>2. recovery.redo = <<>> /\ recovery.next - 1 = Len(wal) /\ disk' = memory /\ wal \in Seq(Record)
      BY <2>1 DEF FinishRecovery, EndNext, RedoInv, TypeOK
  <2>3. ASSUME NEW lsn \in 1..Len(wal), Committed(lsn)
        PROVE  \A p \in wal[lsn].pages : disk'[p] >= lsn
    <3>1. CASE wal[lsn].op = "Change"
      <4>1. ~Among(lsn, recovery.redo)
          BY <2>2 DEF Among
      <4>2. QED
          BY <4>1, <3>1, <2>2, <2>3 DEF RedoInv, RecoveryInv, CommittedRedone, Committed
    <3>2. CASE wal[lsn].op # "Change"
      <4>1. wal[lsn] \in Record
          BY <2>2
      <4>2. wal[lsn].pages = {}
          BY <4>1, <3>2 DEF Record
      <4>3. QED
          BY <4>2
    <3>3. QED
        BY <3>1, <3>2
  <2>4. QED
      BY <2>3
<1>2. QED
    BY <1>1, RedoInvariant, PTL DEF RedoSpec, RecoveryRedoesAll
================================================================================
