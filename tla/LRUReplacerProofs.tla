--------------------------- MODULE LRUReplacerProofs ---------------------------
(***************************************************************************)
(* What the list operations of the replacer and of freeFrames do to the    *)
(* set of listed frames, for lists of any length.                          *)
(***************************************************************************)
EXTENDS LRUReplacer, SequenceTheorems, TLAPS

\* insert adds exactly the frame, and keeps the list free of duplicates when
\* the frame was not listed (lru_replacer.go, insert).
LEMMA InsertLemma ==
    ASSUME NEW S, NEW list \in Seq(S), NEW f \in S
    PROVE  /\ LRUInsert(list, f) \in Seq(S)
           /\ \A x : Contains(LRUInsert(list, f), x) <=> x = f \/ Contains(list, x)
           /\ Injective(list) /\ ~Contains(list, f) => Injective(LRUInsert(list, f))
<1> DEFINE new == LRUInsert(list, f)
<1>1. /\ new \in Seq(S)
      /\ Len(new) = Len(list) + 1
      /\ new[1] = f
      /\ \A i \in 2..Len(new) : new[i] = list[i - 1]
  BY DEF LRUInsert
<1>2. \A i \in DOMAIN list : new[i + 1] = list[i]
  BY <1>1
<1>3. ASSUME NEW x
      PROVE  Contains(new, x) <=> x = f \/ Contains(list, x)
  <2>1. ASSUME Contains(new, x)
        PROVE  x = f \/ Contains(list, x)
    <3>1. PICK i \in DOMAIN new : new[i] = x
      BY <2>1 DEF Contains
    <3>2. CASE i = 1
      BY <3>1, <3>2, <1>1
    <3>3. CASE i # 1
      <4>1. i \in 2..Len(new) /\ i - 1 \in DOMAIN list
        BY <3>1, <3>3, <1>1
      <4> QED
        BY <4>1, <3>1, <1>1 DEF Contains
    <3> QED
      BY <3>2, <3>3
  <2>2. ASSUME x = f
        PROVE  Contains(new, x)
    BY <2>2, <1>1 DEF Contains
  <2>3. ASSUME Contains(list, x)
        PROVE  Contains(new, x)
    <3>1. PICK i \in DOMAIN list : list[i] = x
      BY <2>3 DEF Contains
    <3>2. i + 1 \in DOMAIN new
      BY <1>1, <3>1
    <3> QED
      BY <3>1, <3>2, <1>2 DEF Contains
  <2> QED
    BY <2>1, <2>2, <2>3
<1>4. ASSUME Injective(list), ~Contains(list, f)
      PROVE  Injective(new)
  <2> SUFFICES ASSUME NEW i \in DOMAIN new, NEW j \in DOMAIN new, new[i] = new[j], i < j
               PROVE  FALSE
    BY <1>1 DEF Injective
  <2>1. j - 1 \in DOMAIN list /\ new[j] = list[j - 1]
    BY <1>1
  <2>2. CASE i = 1
    BY <2>1, <2>2, <1>1, <1>4 DEF Contains
  <2>3. CASE i # 1
    <3>1. i - 1 \in DOMAIN list /\ new[i] = list[i - 1]
      BY <2>3, <1>1
    <3>2. i - 1 # j - 1
      BY <1>1
    <3>3. list[i - 1] = list[j - 1]
      BY <3>1, <2>1
    <3> QED
      BY <3>1, <3>2, <3>3, <2>1, <1>4 DEF Injective
  <2> QED
    BY <2>2, <2>3
<1> QED
  BY <1>1, <1>3, <1>4

\* new is list without its position i.
Dropped(list, i, new) ==
    /\ Len(new) = Len(list) - 1
    /\ \A j \in 1..Len(new) : new[j] = IF j < i THEN list[j] ELSE list[j + 1]

\* Dropping position i of a duplicate-free list drops exactly the frame there.
LEMMA DropLemma ==
    ASSUME NEW S, NEW list \in Seq(S), Injective(list), NEW i \in DOMAIN list,
           NEW new \in Seq(S), Dropped(list, i, new)
    PROVE  /\ \A x : Contains(new, x) <=> Contains(list, x) /\ x # list[i]
           /\ Injective(new)
<1>1. Len(list) \in Nat /\ DOMAIN list = 1..Len(list) /\ i \in 1..Len(list)
  OBVIOUS
<1>2. /\ Len(new) = Len(list) - 1
      /\ \A j \in 1..Len(new) : new[j] = IF j < i THEN list[j] ELSE list[j + 1]
  BY DEF Dropped
<1>3. DOMAIN new = 1..(Len(list) - 1)
  BY <1>1, <1>2
<1>4. ASSUME NEW j \in DOMAIN new
      PROVE  \/ j \in DOMAIN list /\ j < i /\ new[j] = list[j]
             \/ j + 1 \in DOMAIN list /\ j + 1 > i /\ new[j] = list[j + 1]
  BY <1>1, <1>2, <1>3
<1>5. ASSUME NEW x
      PROVE  Contains(new, x) <=> Contains(list, x) /\ x # list[i]
  <2>1. ASSUME Contains(new, x)
        PROVE  Contains(list, x) /\ x # list[i]
    <3>1. PICK j \in DOMAIN new : new[j] = x
      BY <2>1 DEF Contains
    <3>2. PICK k \in DOMAIN list : k # i /\ list[k] = x
      BY <3>1, <1>1, <1>3, <1>4
    <3> QED
      BY <3>2 DEF Contains, Injective
  <2>2. ASSUME Contains(list, x), x # list[i]
        PROVE  Contains(new, x)
    <3>1. PICK k \in DOMAIN list : list[k] = x
      BY <2>2 DEF Contains
    <3>2. CASE k < i
      <4>1. k \in DOMAIN new /\ new[k] = x
        BY <3>1, <3>2, <1>1, <1>2, <1>3
      <4> QED
        BY <4>1 DEF Contains
    <3>3. CASE k > i
      <4>1. k - 1 \in DOMAIN new /\ ~(k - 1 < i) /\ (k - 1) + 1 = k
        BY <3>1, <3>3, <1>1, <1>3
      <4>2. new[k - 1] = x
        BY <4>1, <3>1, <1>2, <1>3
      <4> QED
        BY <4>1, <4>2 DEF Contains
    <3> QED
      BY <3>1, <3>2, <3>3, <2>2, <1>1
  <2> QED
    BY <2>1, <2>2
<1>6. Injective(new)
  <2> SUFFICES ASSUME NEW j \in DOMAIN new, NEW k \in DOMAIN new, new[j] = new[k], j < k
               PROVE  FALSE
    BY <1>1, <1>3 DEF Injective
  <2> QED
    BY <1>1, <1>3, <1>4 DEF Injective
<1> QED
  BY <1>5, <1>6

\* remove unlinks exactly the frame (lru_replacer.go, remove).
LEMMA RemoveLemma ==
    ASSUME NEW S, NEW list \in Seq(S), Injective(list), NEW f, Contains(list, f)
    PROVE  /\ LRURemove(list, f) \in Seq(S)
           /\ \A x : Contains(LRURemove(list, f), x) <=> Contains(list, x) /\ x # f
           /\ Injective(LRURemove(list, f))
<1> DEFINE P(j) == list[j] = f /\ \A k \in 1..(j - 1) : list[k] # f
           i == CHOOSE j \in DOMAIN list : P(j)
<1>1. \E j \in DOMAIN list : P(j)
  <2>1. PICK j \in DOMAIN list : list[j] = f
    BY DEF Contains
  <2>2. \A k \in 1..(j - 1) : k \in DOMAIN list /\ k # j
    BY <2>1
  <2> QED
    BY <2>1, <2>2 DEF Injective
<1>2. i \in DOMAIN list /\ list[i] = f
  BY <1>1
<1>3. LRURemove(list, f) = [j \in 1..(Len(list) - 1) |->
                              IF j < i THEN list[j] ELSE list[j + 1]]
  BY DEF LRURemove
<1> HIDE DEF i
<1>4. \A j \in 1..(Len(list) - 1) :
        (IF j < i THEN list[j] ELSE list[j + 1]) \in S
  BY <1>2
<1>5. LRURemove(list, f) \in Seq(S) /\ Dropped(list, i, LRURemove(list, f))
  BY <1>2, <1>3, <1>4 DEF Dropped
<1> QED
  BY <1>2, <1>5, DropLemma

\* victim takes exactly the back of the list (lru_replacer.go, victim).
LEMMA VictimLemma ==
    ASSUME NEW S, NEW list \in Seq(S), Injective(list), list # <<>>
    PROVE  /\ VictimOf(list) \in S
           /\ Contains(list, VictimOf(list))
           /\ VictimRest(list) \in Seq(S)
           /\ \A x : Contains(VictimRest(list), x) <=>
                       Contains(list, x) /\ x # VictimOf(list)
           /\ Injective(VictimRest(list))
<1>1. Len(list) \in DOMAIN list
  OBVIOUS
<1>2. VictimOf(list) \in S /\ Contains(list, VictimOf(list))
  BY <1>1 DEF VictimOf, Contains
<1>3. /\ VictimRest(list) \in Seq(S)
      /\ Len(VictimRest(list)) = Len(list) - 1
      /\ \A j \in 1..(Len(list) - 1) : VictimRest(list)[j] = list[j] /\ j < Len(list)
  <2>1. Len(list) \in Nat \ {0}
    OBVIOUS
  <2>2. /\ VictimRest(list) \in Seq(S)
        /\ Len(VictimRest(list)) = IF 1 <= Len(list) - 1 THEN (Len(list) - 1) - 1 + 1 ELSE 0
        /\ \A j \in 1..((Len(list) - 1) - 1 + 1) : VictimRest(list)[j] = list[1 + j - 1]
    BY <2>1, SubSeqProperties DEF VictimRest
  <2>3. Len(VictimRest(list)) = Len(list) - 1
    <3> DEFINE n == Len(list)
    <3>1. n \in Nat \ {0}
      BY <2>1
    <3>2. Len(VictimRest(list)) = IF 1 <= n - 1 THEN (n - 1) - 1 + 1 ELSE 0
      BY <2>2
    <3> HIDE DEF n
    <3>3. Len(VictimRest(list)) = n - 1
      BY <3>1, <3>2
    <3> QED
      BY <3>3 DEF n
  <2>4. ASSUME NEW j \in 1..(Len(list) - 1)
        PROVE  VictimRest(list)[j] = list[j] /\ j < Len(list)
    <3>1. j \in 1..((Len(list) - 1) - 1 + 1) /\ 1 + j - 1 = j /\ j < Len(list)
      BY <2>1
    <3> QED
      BY <2>2, <3>1
  <2> QED
    BY <2>2, <2>3, <2>4
<1>4. Dropped(list, Len(list), VictimRest(list))
  BY <1>3 DEF Dropped
<1> QED
  BY <1>1, <1>2, <1>3, <1>4, DropLemma DEF VictimOf

\* freeFrames[0] and freeFrames[1:] (simple_buffer_pool_manager.go, fetchPage).
LEMMA HeadTailLemma ==
    ASSUME NEW S, NEW list \in Seq(S), Injective(list), list # <<>>
    PROVE  /\ Head(list) \in S
           /\ Contains(list, Head(list))
           /\ Tail(list) \in Seq(S)
           /\ \A x : Contains(Tail(list), x) <=> Contains(list, x) /\ x # Head(list)
           /\ Injective(Tail(list))
<1>1. 1 \in DOMAIN list /\ Head(list) = list[1]
  OBVIOUS
<1>2. Tail(list) \in Seq(S) /\ Dropped(list, 1, Tail(list))
  BY DEF Dropped
<1>3. Head(list) \in S /\ Contains(list, Head(list))
  BY <1>1 DEF Contains
<1> QED
  BY <1>1, <1>2, <1>3, DropLemma

\* append(freeFrames, frameId) (simple_buffer_pool_manager.go, deletePage).
LEMMA AppendLemma ==
    ASSUME NEW S, NEW list \in Seq(S), NEW f \in S
    PROVE  /\ Append(list, f) \in Seq(S)
           /\ \A x : Contains(Append(list, f), x) <=> x = f \/ Contains(list, x)
           /\ Injective(list) /\ ~Contains(list, f) => Injective(Append(list, f))
<1> DEFINE new == Append(list, f)
<1>1. /\ new \in Seq(S)
      /\ DOMAIN new = 1..(Len(list) + 1)
      /\ new[Len(list) + 1] = f
      /\ \A i \in DOMAIN list : new[i] = list[i]
      /\ DOMAIN list = 1..Len(list)
      /\ Len(list) \in Nat
  OBVIOUS
<1>2. \A x : Contains(new, x) <=> x = f \/ Contains(list, x)
  BY <1>1 DEF Contains
<1>3. ASSUME Injective(list), ~Contains(list, f)
      PROVE  Injective(new)
  BY <1>1, <1>3 DEF Injective, Contains
<1> QED
  BY <1>1, <1>2, <1>3
================================================================================
