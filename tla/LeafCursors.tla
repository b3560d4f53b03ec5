------------------------------ MODULE LeafCursors ------------------------------
(***************************************************************************)
(* What iterators promise: each walks along the leaves from the first one, *)
(* with a guard of one leaf at a time and of none between two leaves.  A   *)
(* leaf that an iterator guards is not changed; all others may be.         *)
(***************************************************************************)
EXTENDS OrderedLeaves, IteratorState

cursorVars == <<leafVars, cursors>>

Cursor == [phase : {"none", "at", "moving", "ended", "stopped"},
           page : PageIds \cup {0}, next : PageIds \cup {0},
           sought : SUBSET Keys, passed : Seq(Keys)]

NoCursor == [phase |-> "none", page |-> 0, next |-> 0, sought |-> {}, passed |-> <<>>]

CursorInit == Init /\ cursors = [i \in Iterators |-> NoCursor]

\* The keys of S in ascending order.
Sorted(S) == {s \in [1..Cardinality(S) -> S] : Ascending(s) /\ \A k \in S : \E n \in DOMAIN s : s[n] = k}

KeysOn(p) == IF p = 0 THEN {} ELSE DOMAIN entries[p]

NextOf(p) == IF p = 0 THEN 0 ELSE next[p]

--------------------------------------------------------------------------------

InsertUnlatched ==
    /\ UNCHANGED cursors
    /\ \/ \E p \in PageIds, k \in Keys, v \in Values : InsertFirst(p, k, v)
       \/ \E p \in Leaves \ Latched, k \in Keys, v \in Values : InsertAt(p, k, v)

DeleteUnlatched(p, k) ==
    /\ DeleteAt(p, k)
    /\ cursors' = [i \in Iterators |-> [cursors[i] EXCEPT !.sought = @ \ {k}]]

\* Iterator i, which is c so far, comes to leaf p.
Arrive(i, c, p) ==
    \E keys \in Sorted(KeysOn(p)) :
        cursors' = [cursors EXCEPT ![i] = [c EXCEPT !.phase = "at", !.page = p, !.next = 0,
                                                    !.passed = @ \o keys]]

Begin(i) ==
    /\ cursors[i].phase = "none"
    /\ Arrive(i, [cursors[i] EXCEPT !.sought = {k \in Keys : acknowledged[k] # NoValue}], first)
    /\ UNCHANGED leafVars

\* The link is read under the guard of the leaf, and the guard released.
Leave(i) ==
    LET q == NextOf(cursors[i].page)
    IN /\ cursors[i].phase = "at"
       /\ cursors' = [cursors EXCEPT ![i] = IF q = 0 THEN [@ EXCEPT !.phase = "ended"]
                                            ELSE [@ EXCEPT !.phase = "moving", !.next = q]]
       /\ UNCHANGED leafVars

Continue(i) ==
    /\ cursors[i].phase = "moving"
    /\ Arrive(i, cursors[i], cursors[i].next)
    /\ UNCHANGED leafVars

\* An iterator is closed, hangs or gets no guard.
Stop(i) ==
    /\ cursors' = [cursors EXCEPT ![i].phase = "stopped"]
    /\ UNCHANGED leafVars

CursorNext ==
    \/ \E i \in Iterators : Begin(i) \/ Leave(i) \/ Continue(i) \/ Stop(i)
    \/ InsertUnlatched
    \/ \E p \in Leaves \ Latched, k \in Keys : DeleteUnlatched(p, k)

CursorSpec == CursorInit /\ [][CursorNext]_cursorVars

--------------------------------------------------------------------------------
(* Properties                                                              *)

\* Of the cursor c, which has passed all keys below m that it seeks, and no others.
PassedBelow(c, m) ==
    /\ \A n \in DOMAIN c.passed : c.passed[n] < m
    /\ \A k \in c.sought : k < m => \E n \in DOMAIN c.passed : c.passed[n] = k

PassedAll(c) == \A k \in c.sought : \E n \in DOMAIN c.passed : c.passed[n] = k

\* Where the cursor c is, it has passed what lies before: before the end of its
\* leaf while it has the guard, before the leaf it moves to without one.
CursorOK(c) ==
    /\ Ascending(c.passed)
    /\ \A k \in c.sought : acknowledged[k] # NoValue
    /\ c.phase = "none" => c.passed = <<>>
    /\ HasGuard(c) => c.page = 0 \/ c.page \in Leaves
    /\ HasGuard(c) /\ NextOf(c.page) = 0 => PassedAll(c)
    /\ HasGuard(c) /\ NextOf(c.page) # 0 => PassedBelow(c, low[NextOf(c.page)])
    /\ c.phase = "moving" => c.next \in Leaves /\ PassedBelow(c, low[c.next])
    /\ c.phase = "ended" => NextOf(c.page) = 0

CursorsInv ==
    /\ cursors \in [Iterators -> Cursor]
    /\ \A i \in Iterators : CursorOK(cursors[i])
================================================================================
