----------------------------- MODULE MCBufferPool -----------------------------
EXTENDS BufferPool, TLC

CONSTANTS g1, g2, g3, v0, v1

MCGuards2 == {g1, g2}
MCGuards3 == {g1, g2, g3}
MCValue1 == {v0}
MCValues2 == {v0, v1}

\* Guards differ only by name; frames and pages do not (list order, page 0).
GuardSymmetry == Permutations(Guards)
================================================================================
