------------------------------- MODULE PageStore -------------------------------
(***************************************************************************)
(* What the buffer pool promises to the B+ tree: a store of pages in which *)
(* a page is read and written only under a guard, with any number of read  *)
(* guards or one write guard per page.  Frames, eviction, the disk and the *)
(* replacer do not appear: BufferPool is shown to implement this module.   *)
(***************************************************************************)
CONSTANTS Guards,    \* guard objects; a goroutine may hold several
          Pages,     \* page ids
          Values,    \* page contents
          InitValue  \* content of a page that was never written

VARIABLES store,     \* store[p]: content of page p
          access     \* access[g]: the page guard g protects and its mode

vars == <<store, access>>

NoAccess == <<>>
Modes == {"read", "write"}

TypeOK ==
    /\ store \in [Pages -> Values]
    /\ access \in [Guards -> {NoAccess} \cup (Pages \X Modes)]

Conflict(a, b) == a[1] = b[1] /\ "write" \in {a[2], b[2]}

Init ==
    /\ store = [p \in Pages |-> InitValue]
    /\ access = [g \in Guards |-> NoAccess]

Acquire(g, p, m) ==
    /\ access[g] = NoAccess
    /\ \A h \in Guards : access[h] # NoAccess => ~Conflict(access[h], <<p, m>>)
    /\ access' = [access EXCEPT ![g] = <<p, m>>]
    /\ UNCHANGED store

Write(g, v) ==
    /\ access[g] # NoAccess
    /\ access[g][2] = "write"
    /\ store' = [store EXCEPT ![access[g][1]] = v]
    /\ UNCHANGED access

Release(g) ==
    /\ access[g] # NoAccess
    /\ access' = [access EXCEPT ![g] = NoAccess]
    /\ UNCHANGED store

\* Deleting a page gives up its content: a later owner of the same page id
\* finds an arbitrary one.
Delete(g) ==
    /\ access[g] # NoAccess
    /\ access[g][2] = "write"
    /\ \E v \in Values : store' = [store EXCEPT ![access[g][1]] = v]
    /\ access' = [access EXCEPT ![g] = NoAccess]

Next ==
    \E g \in Guards :
        \/ \E p \in Pages, m \in Modes : Acquire(g, p, m)
        \/ \E v \in Values : Write(g, v)
        \/ Release(g)
        \/ Delete(g)

Spec == Init /\ [][Next]_vars
================================================================================
