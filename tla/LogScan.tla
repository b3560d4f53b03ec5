-------------------------------- MODULE LogScan --------------------------------
(***************************************************************************)
(* Recover reads the log from its start, with the operations of every tree *)
(* that it has not seen the end of, and has the records of committed ones  *)
(* redone.  Of a record only its tree matters here, and whether it begins  *)
(* or commits an operation.                                                *)
(***************************************************************************)
EXTENDS Integers, Sequences

CONSTANT Trees

VARIABLES
    wal,        \* records of the log; the LSN of a record is its position
    recovery,   \* next record to read, operations read, records to redo
    mode        \* "running", "recovering", "failed"

NoOperation == <<0>>   \* no Begin of the tree was read; records have LSNs from 1

NewRecovery == [next |-> 1, operations |-> [t \in Trees |-> NoOperation], redo |-> <<>>]

\* Mutant of ReadNext: Begin goes on with an operation that was never committed.
ReadNextGoesOn ==
    LET r == wal[recovery.next]
        operation == recovery.operations[r.tree]
    IN /\ mode = "recovering"
       /\ recovery.redo = <<>>
       /\ recovery.next <= Len(wal)
       /\ mode' = mode
       /\ recovery' =
            CASE r.op = "Begin" ->
                    [recovery EXCEPT !.next = @ + 1,
                                     !.operations[r.tree] = IF @ = NoOperation THEN <<>> ELSE @]
              [] r.op = "Commit" ->
                    [recovery EXCEPT !.next = @ + 1, !.operations[r.tree] = NoOperation, !.redo = operation]
              [] OTHER ->
                    [recovery EXCEPT !.next = @ + 1, !.operations[r.tree] = Append(@, recovery.next)]

\* Recover reads a record: Begin starts the operation of its tree anew, Commit
\* has its records redone.  A record without a Begin is an error.
ReadNext ==
    LET r == wal[recovery.next]
        operation == recovery.operations[r.tree]
    IN /\ mode = "recovering"
       /\ recovery.redo = <<>>
       /\ recovery.next <= Len(wal)
       /\ IF r.op # "Begin" /\ operation = NoOperation
          THEN mode' = "failed" /\ recovery' = recovery
          ELSE /\ mode' = mode
               /\ recovery' =
                    CASE r.op = "Begin" ->
                            [recovery EXCEPT !.next = @ + 1, !.operations[r.tree] = <<>>]
                      [] r.op = "Commit" ->
                            [recovery EXCEPT !.next = @ + 1, !.operations[r.tree] = NoOperation,
                                             !.redo = operation]
                      [] OTHER ->
                            [recovery EXCEPT !.next = @ + 1,
                                             !.operations[r.tree] = Append(@, recovery.next)]

\* Mutant of EndNext: a record more is expected.
EndNextLate ==
    /\ mode = "recovering"
    /\ recovery.redo = <<>>
    /\ recovery.next > Len(wal) + 1
    /\ mode' = "running"
    /\ recovery' = NewRecovery

\* Recover has read the log: operations without a Commit are ignored.
EndNext ==
    /\ mode = "recovering"
    /\ recovery.redo = <<>>
    /\ recovery.next > Len(wal)
    /\ mode' = "running"
    /\ recovery' = NewRecovery

--------------------------------------------------------------------------------
(* Properties                                                              *)

\* In the log w, tree t has a record of kind op among those from l to n.
Occurs(w, op, t, l, n) == \E i \in l..n : w[i].tree = t /\ w[i].op = op

\* A Commit up to record n follows record lsn in its tree, with no Begin between.
CommittedBy(w, lsn, n) ==
    \E j \in (lsn + 1)..n :
        /\ w[j].tree = w[lsn].tree /\ w[j].op = "Commit"
        /\ ~Occurs(w, "Begin", w[lsn].tree, lsn, j)

\* The operation of record lsn was committed.
Committed(lsn) == CommittedBy(wal, lsn, Len(wal))

Increasing(s) == \A m, n \in DOMAIN s : m < n => s[m] < s[n]

Among(x, s) == \E n \in DOMAIN s : s[n] = x

\* Whatever Recover does to pages, it redoes committed operations only, each
\* record once and in the order of the log.
RedoesCommitted ==
    /\ \A n \in DOMAIN recovery.redo : recovery.redo[n] \in 1..Len(wal) /\ Committed(recovery.redo[n])
    /\ Increasing(recovery.redo)
================================================================================
