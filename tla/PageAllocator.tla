----------------------------- MODULE PageAllocator -----------------------------
(***************************************************************************)
(* What the disk manager promises to its users: a page id is handed out    *)
(* only while nobody has it.  BufferPool!NewPage and BufferPool!DeletePage *)
(* use the disk manager through this interface.                            *)
(***************************************************************************)
EXTENDS Naturals

CONSTANT PageIds

VARIABLES holders,     \* holders[p]: how many callers have page id p
          checkpoint   \* holders, as the metadata page in the file has it

vars == <<holders, checkpoint>>

Init ==
    /\ holders = [p \in PageIds |-> 0]
    /\ checkpoint = [p \in PageIds |-> 0]

Allocate(p) ==
    /\ holders[p] = 0
    /\ holders' = [holders EXCEPT ![p] = 1]
    /\ UNCHANGED checkpoint

Deallocate(p) ==
    /\ holders[p] = 1
    /\ holders' = [holders EXCEPT ![p] = 0]
    /\ UNCHANGED checkpoint

Save == checkpoint' = holders /\ UNCHANGED holders

Restart == holders' = checkpoint /\ UNCHANGED checkpoint

Next == (\E p \in PageIds : Allocate(p) \/ Deallocate(p)) \/ Save \/ Restart

Spec == Init /\ [][Next]_vars
================================================================================
