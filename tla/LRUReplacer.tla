------------------------------ MODULE LRUReplacer ------------------------------
(***************************************************************************)
(* The list of LRUReplacer (bufferpoolmanager/lru_replacer.go) as pure     *)
(* operators: position 1 is the front (most recently unpinned), the last   *)
(* position the back (next victim).  frameMap is the index that makes      *)
(* remove O(1): it maps a frame to its most recently pushed element, which *)
(* is the occurrence nearest to the front.                                 *)
(***************************************************************************)
EXTENDS Integers, Sequences

Contains(list, f) == \E i \in DOMAIN list : list[i] = f

\* No frame is listed twice.
Injective(list) == \A i, j \in DOMAIN list : list[i] = list[j] => i = j

\* victim(): the back of the list.
VictimOf(list) == list[Len(list)]

\* Mutant of VictimRest: the victim stays listed.
VictimStays(list) == list

\* victim(): the list without its back.
VictimRest(list) == SubSeq(list, 1, Len(list) - 1)

\* insert(frameId): PushFront.
LRUInsert(list, f) == <<f>> \o list

\* remove(frameId): unlink the element frameMap knows.
LRURemove(list, f) ==
    LET i == CHOOSE j \in DOMAIN list :
                 list[j] = f /\ \A k \in 1..(j - 1) : list[k] # f
    IN  [j \in 1..(Len(list) - 1) |-> IF j < i THEN list[j] ELSE list[j + 1]]
================================================================================
