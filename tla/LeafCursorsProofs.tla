--------------------------- MODULE LeafCursorsProofs ---------------------------
(***************************************************************************)
(* Leaves stay in order while others insert and delete, and iterators that *)
(* guard one leaf at a time come to every key, in order.  The theorems hold *)
(* for all sets of keys, pages and iterators.                              *)
(***************************************************************************)
EXTENDS LeafCursors, FiniteSetTheorems, SequenceTheorems, WellFoundedInduction, TLAPS

\* The first Insert makes a root leaf, whose range is everything.
LEMMA FirstInsertion ==
    ASSUME ProperConstants, LeavesInv,
           NEW p \in PageIds, NEW k \in Keys, NEW v \in Values, InsertFirst(p, k, v)
    PROVE  LeavesInv'
<1> USE DEF ProperConstants
<1> DEFINE one == Put(NoLeaves, k, v)
<1>1. Leaves = {} /\ acknowledged' = [acknowledged EXCEPT ![k] = v] /\ first' = p
    BY DEF InsertFirst, Acknowledge
<1>2. one = [j \in {k} |-> v]
    BY DEF Put, NoLeaves
<1>3. /\ low' = [z \in {p} |-> 0]
      /\ entries' = [z \in {p} |-> one]
      /\ next' = [z \in {p} |-> 0]
    BY <1>1 DEF InsertFirst, Put, Leaves, LeavesInv, TypeOK
<1>4. Leaves' = {p}
    BY <1>3 DEF Leaves
<1>5. IsFiniteSet({k})
    BY FS_Singleton
<1>6. \A j \in Keys : acknowledged[j] = NoValue
    BY <1>1 DEF LeavesInv, ValuesKept
<1> HIDE DEF one
<1>7. TypeOK'
    BY <1>1, <1>2, <1>3, <1>4, <1>5 DEF LeavesInv, TypeOK
<1>8. LinksInOrder'
    BY <1>1, <1>3, <1>4 DEF LinksInOrder
<1>9. KeysInRange'
    BY <1>2, <1>3, <1>4 DEF KeysInRange, Covers
<1>10. ValuesKept'
  <2>1. \A j \in Keys : acknowledged'[j] = IF j = k THEN v ELSE NoValue
      BY <1>1, <1>6 DEF LeavesInv, TypeOK
  <2>2. QED
      BY <2>1, <1>2, <1>3, <1>4 DEF ValuesKept
<1>11. QED
    BY <1>7, <1>8, <1>9, <1>10 DEF LeavesInv

\* Insert puts the element on the leaf where its key belongs, without a split.
LEMMA StoredInPlace ==
    ASSUME ProperConstants, LeavesInv,
           NEW p \in Leaves, NEW k \in Keys, NEW v \in Values,
           Acknowledge(k, v), Covers(p, k), Store(p, k, v), UNCHANGED first
    PROVE  LeavesInv'
<1> USE DEF ProperConstants
<1>1. /\ acknowledged' = [acknowledged EXCEPT ![k] = v]
      /\ low' = low /\ next' = next /\ first' = first
    BY DEF Store, Acknowledge
<1>2. Leaves' = Leaves
    BY <1>1 DEF Leaves
<1>3. /\ DOMAIN entries' = Leaves
      /\ \A z \in Leaves : entries'[z] = IF z = p THEN Put(entries[p], k, v) ELSE entries[z]
    BY DEF Store, LeavesInv, TypeOK
<1>4. /\ DOMAIN entries'[p] = DOMAIN entries[p] \cup {k}
      /\ \A j \in DOMAIN entries'[p] : entries'[p][j] = IF j = k THEN v ELSE entries[p][j]
    BY <1>3 DEF Put
<1>5. IsFiniteSet(DOMAIN entries[p] \cup {k})
    BY FS_AddElement DEF LeavesInv, TypeOK
<1>6. TypeOK'
  <2>1. IsFiniteSet(DOMAIN entries'[p]) /\ DOMAIN entries'[p] \subseteq Keys
      BY <1>4, <1>5 DEF LeavesInv, TypeOK
  <2>2. \A z \in Leaves : DOMAIN entries'[z] \subseteq Keys /\ IsFiniteSet(DOMAIN entries'[z])
      BY <2>1, <1>3 DEF LeavesInv, TypeOK
  <2>3. acknowledged' \in [Keys -> Values \cup {NoValue}]
      BY <1>1 DEF LeavesInv, TypeOK
  <2>4. QED
      BY <2>2, <2>3, <1>1, <1>2, <1>3 DEF LeavesInv, TypeOK
<1>7. LinksInOrder'
    BY <1>1, <1>2 DEF LeavesInv, LinksInOrder
<1>8. KeysInRange'
    BY <1>1, <1>2, <1>3, <1>4 DEF LeavesInv, KeysInRange, Covers
<1>9. ValuesKept'
  <2>1. \A j \in Keys : acknowledged'[j] = IF j = k THEN v ELSE acknowledged[j]
      BY <1>1 DEF LeavesInv, TypeOK
  <2>2. \A z \in Leaves : k \in DOMAIN entries[z] => z = p
      BY DEF LeavesInv, LinksInOrder, KeysInRange, Covers, TypeOK
  <2>3. /\ \A z \in Leaves : DOMAIN entries[z] \subseteq DOMAIN entries'[z]
        /\ k \in DOMAIN entries'[p]
      BY <1>3, <1>4
  <2>4. \A j \in Keys : acknowledged'[j] # NoValue => \E z \in Leaves : j \in DOMAIN entries'[z]
    <3> SUFFICES ASSUME NEW j \in Keys, acknowledged'[j] # NoValue
                 PROVE  \E z \in Leaves : j \in DOMAIN entries'[z]
        OBVIOUS
    <3>1. CASE j = k
        BY <3>1, <2>3
    <3>2. CASE j # k
      <4>1. PICK z \in Leaves : j \in DOMAIN entries[z]
          BY <3>2, <2>1 DEF LeavesInv, ValuesKept
      <4>2. QED
          BY <4>1, <2>3
    <3>3. QED
        BY <3>1, <3>2
  <2>5. v # NoValue
      OBVIOUS
  <2>6. ASSUME NEW j \in Keys, NEW z \in Leaves, j \in DOMAIN entries'[z]
        PROVE  acknowledged'[j] # NoValue /\ entries'[z][j] = acknowledged'[j]
    <3>1. CASE j = k
        BY <3>1, <2>1, <2>2, <2>5, <2>6, <1>3, <1>4
    <3>2. CASE j # k
        BY <3>2, <2>1, <2>6, <1>3, <1>4 DEF LeavesInv, ValuesKept
    <3>3. QED
        BY <3>1, <3>2
  <2>7. QED
      BY <2>4, <2>6, <1>2 DEF ValuesKept
<1>10. QED
    BY <1>6, <1>7, <1>8, <1>9 DEF LeavesInv

\* Insert splits the leaf: the new leaf takes the range from the split key on, its
\* keys and the link, and the element goes to the half where its key belongs.
LEMMA SplitInTwo ==
    ASSUME ProperConstants, LeavesInv,
           NEW p \in Leaves, NEW k \in Keys, NEW v \in Values,
           NEW q \in PageIds \ Leaves, NEW m \in Keys,
           Acknowledge(k, v), Covers(p, k), SplitAndStore(p, q, m, k, v), UNCHANGED first
    PROVE  LeavesInv'
<1> USE DEF ProperConstants
<1> DEFINE all == Put(entries[p], k, v)
<1>1. /\ acknowledged' = [acknowledged EXCEPT ![k] = v]
      /\ first' = first /\ low[p] < m /\ Covers(p, m) /\ p # q /\ q # 0 /\ q \notin Leaves
    BY DEF SplitAndStore, Acknowledge
<1>2. /\ Leaves' = Leaves \cup {q}
      /\ low' \in [Leaves \cup {q} -> Nat]
      /\ low'[q] = m
      /\ \A z \in Leaves : low'[z] = low[z]
    BY DEF SplitAndStore, Put, Leaves, LeavesInv, TypeOK
<1>3. /\ next' \in [Leaves \cup {q} -> Leaves \cup {q, 0}]
      /\ next'[p] = q /\ next'[q] = next[p]
      /\ \A z \in Leaves \ {p} : next'[z] = next[z]
    BY DEF SplitAndStore, Put, LeavesInv, TypeOK
<1>4. /\ DOMAIN all = DOMAIN entries[p] \cup {k}
      /\ \A j \in DOMAIN all : all[j] = IF j = k THEN v ELSE entries[p][j]
    BY DEF Put
<1>5. /\ DOMAIN entries' = Leaves \cup {q}
      /\ entries'[p] = Below(all, m) /\ entries'[q] = From(all, m)
      /\ \A z \in Leaves \ {p} : entries'[z] = entries[z]
    BY DEF SplitAndStore, Put, LeavesInv, TypeOK
<1> HIDE DEF all
<1>6. /\ DOMAIN entries'[p] = {j \in DOMAIN all : j < m}
      /\ DOMAIN entries'[q] = {j \in DOMAIN all : m <= j}
      /\ \A j \in DOMAIN entries'[p] : entries'[p][j] = all[j]
      /\ \A j \in DOMAIN entries'[q] : entries'[q][j] = all[j]
    BY <1>5 DEF Below, From
<1>7. TypeOK'
  <2>1. IsFiniteSet(DOMAIN all) /\ DOMAIN all \subseteq Keys
    <3>1. IsFiniteSet(DOMAIN entries[p]) /\ DOMAIN entries[p] \subseteq Keys
        BY DEF LeavesInv, TypeOK
    <3>2. IsFiniteSet(DOMAIN entries[p] \cup {k})
        BY <3>1, FS_AddElement
    <3>3. QED
        BY <3>1, <3>2, <1>4
  <2>2. IsFiniteSet(DOMAIN entries'[p]) /\ IsFiniteSet(DOMAIN entries'[q])
      BY <2>1, <1>6, FS_Subset
  <2>3. \A z \in Leaves \cup {q} : DOMAIN entries'[z] \subseteq Keys /\ IsFiniteSet(DOMAIN entries'[z])
      BY <2>1, <2>2, <1>5, <1>6 DEF LeavesInv, TypeOK
  <2>4. acknowledged' \in [Keys -> Values \cup {NoValue}]
      BY <1>1 DEF LeavesInv, TypeOK
  <2>5. Leaves \cup {q} \subseteq PageIds /\ first' \in Leaves \cup {q, 0}
      BY <1>1 DEF LeavesInv, TypeOK
  <2>6. QED
      BY <2>3, <2>4, <2>5, <1>2, <1>3, <1>5 DEF TypeOK
<1>8. LinksInOrder'
  <2> USE <1>1, <1>2, <1>3 DEF LeavesInv, TypeOK, Covers
  <2>1. \A z \in Leaves : next[z] # 0 => next[z] \in Leaves /\ next[z] # q
      OBVIOUS
  <2>2. first' \in Leaves' /\ low'[first'] = 0
      BY DEF LinksInOrder
  <2>3. \A z \in Leaves' : next'[z] # 0 => low'[z] < low'[next'[z]]
    <3>1. low'[p] < low'[next'[p]]
        OBVIOUS
    <3>2. next'[q] # 0 => low'[q] < low'[next'[q]]
        BY <2>1
    <3>3. \A z \in Leaves \ {p} : next'[z] # 0 => low'[z] < low'[next'[z]]
        BY <2>1 DEF LinksInOrder
    <3>4. QED
        BY <3>1, <3>2, <3>3
  <2>4. \A x, y \in Leaves' : low'[x] < low'[y] => next'[x] # 0 /\ low'[next'[x]] <= low'[y]
    <3>1. \A x, y \in Leaves : low[x] < low[y] => next[x] \in Leaves /\ low[next[x]] <= low[y]
        BY DEF LinksInOrder
    <3>2. \A y \in Leaves : low'[p] < low'[y] => next'[p] # 0 /\ low'[next'[p]] <= low'[y]
        BY <3>1
    <3>3. \A y \in Leaves : low'[q] < low'[y] => next'[q] # 0 /\ low'[next'[q]] <= low'[y]
        BY <3>1, <2>1
    <3>4. \A x \in Leaves \ {p} : low'[x] < low'[q] => next'[x] # 0 /\ low'[next'[x]] <= low'[q]
      <4> SUFFICES ASSUME NEW x \in Leaves \ {p}, low[x] < m
                   PROVE  next[x] \in Leaves /\ low[next[x]] <= m
          BY <2>1
      <4>1. low[x] # low[p]
          BY DEF LinksInOrder
      <4>2. ~ (low[p] < low[x])
          BY <3>1
      <4>3. low[x] < low[p]
          BY <4>1, <4>2
      <4>4. next[x] \in Leaves /\ low[next[x]] <= low[p]
          BY <4>3, <3>1
      <4>5. QED
          BY <4>4
    <3>5. \A x \in Leaves \ {p}, y \in Leaves :
              low'[x] < low'[y] => next'[x] # 0 /\ low'[next'[x]] <= low'[y]
        BY <3>1, <2>1
    <3>6. QED
        BY <3>2, <3>3, <3>4, <3>5
  <2>5. \A x, y \in Leaves' : low'[x] = low'[y] => x = y
    <3>1. \A x \in Leaves : low[x] # m
        BY DEF LinksInOrder
    <3>2. QED
        BY <3>1 DEF LinksInOrder
  <2>6. QED
      BY <2>2, <2>3, <2>4, <2>5 DEF LinksInOrder
<1>9. KeysInRange'
  <2> SUFFICES ASSUME NEW z \in Leaves', NEW j \in DOMAIN entries'[z]
               PROVE  Covers(z, j)'
      BY DEF KeysInRange
  <2>1. \A i \in DOMAIN all : i \in Nat /\ Covers(p, i)
      BY <1>4 DEF LeavesInv, KeysInRange, TypeOK
  <2>2. CASE z = p
      BY <2>1, <2>2, <1>1, <1>2, <1>3, <1>6 DEF Covers, LeavesInv, TypeOK
  <2>3. CASE z = q
      BY <2>1, <2>3, <1>1, <1>2, <1>3, <1>6 DEF Covers, LeavesInv, TypeOK
  <2>4. CASE z \in Leaves \ {p}
      BY <2>4, <1>1, <1>2, <1>3, <1>5 DEF Covers, LeavesInv, TypeOK, KeysInRange
  <2>5. QED
      BY <2>2, <2>3, <2>4, <1>2
<1>10. ValuesKept'
  <2>1. \A j \in Keys : acknowledged'[j] = IF j = k THEN v ELSE acknowledged[j]
      BY <1>1 DEF LeavesInv, TypeOK
  <2>2. \A z \in Leaves : k \in DOMAIN entries[z] => z = p
      BY DEF LeavesInv, LinksInOrder, KeysInRange, Covers, TypeOK
  <2>3. \A j \in Keys : j < m \/ m <= j
      OBVIOUS
  <2>4. \A j \in Keys : acknowledged'[j] # NoValue => \E z \in Leaves' : j \in DOMAIN entries'[z]
    <3> SUFFICES ASSUME NEW j \in Keys, acknowledged'[j] # NoValue
                 PROVE  \E z \in Leaves' : j \in DOMAIN entries'[z]
        OBVIOUS
    <3>1. CASE j \in DOMAIN all
        BY <3>1, <2>3, <1>2, <1>6
    <3>2. CASE j \notin DOMAIN all
      <4>1. PICK z \in Leaves : j \in DOMAIN entries[z]
          BY <3>2, <2>1, <1>4 DEF LeavesInv, ValuesKept
      <4>2. QED
          BY <4>1, <3>2, <1>2, <1>4, <1>5
    <3>3. QED
        BY <3>1, <3>2
  <2>5. \A j \in DOMAIN all : j \in Keys /\ acknowledged'[j] # NoValue /\ all[j] = acknowledged'[j]
      BY <2>1, <1>4 DEF LeavesInv, ValuesKept, TypeOK
  <2>6. \A j \in Keys : \A z \in Leaves' : j \in DOMAIN entries'[z] =>
            acknowledged'[j] # NoValue /\ entries'[z][j] = acknowledged'[j]
      BY <2>1, <2>2, <2>5, <1>2, <1>5, <1>6 DEF LeavesInv, ValuesKept
  <2>7. QED
      BY <2>4, <2>6 DEF ValuesKept
<1>11. QED
    BY <1>7, <1>8, <1>9, <1>10 DEF LeavesInv

\* Delete takes the element from its leaf; leaves stay, even without elements.
LEMMA Deleted ==
    ASSUME ProperConstants, LeavesInv,
           NEW p \in Leaves, NEW k \in Keys, DeleteAt(p, k)
    PROVE  LeavesInv'
<1> USE DEF ProperConstants
<1>1. /\ acknowledged' = [acknowledged EXCEPT ![k] = NoValue]
      /\ low' = low /\ next' = next /\ first' = first
      /\ k \in DOMAIN entries[p]
    BY DEF DeleteAt, Acknowledge
<1>2. Leaves' = Leaves
    BY <1>1 DEF Leaves
<1>3. /\ DOMAIN entries' = Leaves
      /\ \A z \in Leaves : entries'[z] = IF z = p THEN Without(entries[p], k) ELSE entries[z]
    BY DEF DeleteAt, LeavesInv, TypeOK
<1>4. /\ DOMAIN entries'[p] = DOMAIN entries[p] \ {k}
      /\ \A j \in DOMAIN entries'[p] : entries'[p][j] = entries[p][j]
    BY <1>3 DEF Without
<1>5. TypeOK'
  <2>1. IsFiniteSet(DOMAIN entries'[p]) /\ DOMAIN entries'[p] \subseteq Keys
      BY <1>4, FS_Subset DEF LeavesInv, TypeOK
  <2>2. \A z \in Leaves : DOMAIN entries'[z] \subseteq Keys /\ IsFiniteSet(DOMAIN entries'[z])
      BY <2>1, <1>3 DEF LeavesInv, TypeOK
  <2>3. acknowledged' \in [Keys -> Values \cup {NoValue}]
      BY <1>1 DEF LeavesInv, TypeOK
  <2>4. QED
      BY <2>2, <2>3, <1>1, <1>2, <1>3 DEF LeavesInv, TypeOK
<1>6. LinksInOrder'
    BY <1>1, <1>2 DEF LeavesInv, LinksInOrder
<1>7. KeysInRange'
    BY <1>1, <1>2, <1>3, <1>4 DEF LeavesInv, KeysInRange, Covers
<1>8. ValuesKept'
  <2>1. \A j \in Keys : acknowledged'[j] = IF j = k THEN NoValue ELSE acknowledged[j]
      BY <1>1 DEF LeavesInv, TypeOK
  <2>2. \A z \in Leaves : k \in DOMAIN entries[z] => z = p
      BY <1>1 DEF LeavesInv, LinksInOrder, KeysInRange, Covers, TypeOK
  <2>3. \A z \in Leaves : DOMAIN entries'[z] = DOMAIN entries[z] \ {k}
      BY <2>2, <1>3, <1>4
  <2>4. \A z \in Leaves : \A j \in DOMAIN entries'[z] : entries'[z][j] = entries[z][j]
      BY <1>3, <1>4
  <2>5. ASSUME NEW j \in Keys, acknowledged'[j] # NoValue
        PROVE  \E z \in Leaves : j \in DOMAIN entries'[z]
      BY <2>1, <2>3, <2>5 DEF LeavesInv, ValuesKept
  <2>6. ASSUME NEW j \in Keys, NEW z \in Leaves, j \in DOMAIN entries'[z]
        PROVE  acknowledged'[j] # NoValue /\ entries'[z][j] = acknowledged'[j]
      BY <2>1, <2>3, <2>4, <2>6 DEF LeavesInv, ValuesKept
  <2>7. QED
      BY <2>5, <2>6, <1>2 DEF ValuesKept
<1>9. QED
    BY <1>5, <1>6, <1>7, <1>8 DEF LeavesInv

\* Every step on the leaves preserves their order.
LEMMA LeavesStep ==
    ASSUME ProperConstants, LeavesInv, [Next]_leafVars
    PROVE  LeavesInv'
<1>1. ASSUME NEW p \in PageIds, NEW k \in Keys, NEW v \in Values, InsertFirst(p, k, v)
      PROVE  LeavesInv'
    BY <1>1, FirstInsertion
<1>2. ASSUME NEW p \in Leaves, NEW k \in Keys, NEW v \in Values, InsertAt(p, k, v)
      PROVE  LeavesInv'
    BY <1>2, StoredInPlace, SplitInTwo DEF InsertAt
<1>3. ASSUME NEW p \in Leaves, NEW k \in Keys, DeleteAt(p, k)
      PROVE  LeavesInv'
    BY <1>3, Deleted
<1>4. CASE UNCHANGED leafVars
    BY <1>4 DEF leafVars, LeavesInv, TypeOK, LinksInOrder, KeysInRange, ValuesKept, Covers, Leaves
<1>5. QED
    BY <1>1, <1>2, <1>3, <1>4 DEF Next

\* The tree starts without leaves.
LEMMA LeavesStart ==
    ASSUME ProperConstants, Init
    PROVE  LeavesInv
<1>1. Leaves = {}
    BY DEF Init, NoLeaves, Leaves
<1>2. QED
    BY <1>1 DEF Init, NoLeaves, LeavesInv, TypeOK, LinksInOrder, KeysInRange, ValuesKept

\* A set of natural numbers that is not empty has a least one.
LEMMA NatMin ==
    ASSUME NEW T \in SUBSET Nat, T # {}
    PROVE  \E n \in T : \A m \in T : n <= m
<1> DEFINE R == {ij \in Nat \X Nat : ij[1] < ij[2]}
<1>1. R = OpToRel(<, Nat)
    BY DEF OpToRel
<1>2. IsWellFoundedOn(R, Nat)
    BY <1>1, NatLessThanWellFounded
<1>3. \A x, y \in Nat : x < y => <<x, y>> \in R
    OBVIOUS
<1> HIDE DEF R
<1>4. PICK x \in T : \A y \in T : ~ (<<y, x>> \in R)
    BY <1>2, WFMin
<1>5. \A y \in T : ~(y < x)
    BY <1>3, <1>4
<1>6. QED
    BY <1>5

\* On leaves in order, the leaf with the greatest bound that is not above a key is
\* the one where a search for it ends; the leaf after it has a greater bound.
LEMMA SearchesAgreeFromInv ==
    ASSUME ProperConstants, LeavesInv
    PROVE  SearchesAgree
<1> USE DEF ProperConstants, LeavesInv
<1> SUFFICES ASSUME NEW k \in Keys
             PROVE  /\ Leaves # {} => \E p \in Leaves : Covers(p, k)
                    /\ \A p, q \in Leaves : Covers(p, k) /\ Covers(q, k) => p = q
                    /\ \A p \in Leaves : Covers(p, k) => ValueAt(p, k) = acknowledged[k]
    BY DEF SearchesAgree
<1>1. ASSUME Leaves # {}
      PROVE  \E p \in Leaves : Covers(p, k)
  <2> DEFINE T == {i \in Nat : \E p \in Leaves : low[p] <= k /\ i = k - low[p]}
  <2>1. T \in SUBSET Nat
      OBVIOUS
  <2>2. k - low[first] \in T
      BY <1>1 DEF TypeOK, LinksInOrder
  <2>3. PICK n \in T : \A i \in T : n <= i
      BY <2>1, <2>2, NatMin
  <2>4. PICK p \in Leaves : low[p] <= k /\ n = k - low[p]
      OBVIOUS
  <2>5. ASSUME next[p] # 0, low[next[p]] <= k
        PROVE  FALSE
    <3>1. next[p] \in Leaves /\ low[p] < low[next[p]]
        BY <2>5 DEF TypeOK, LinksInOrder
    <3>2. low[next[p]] \in Nat /\ k \in Nat
        BY <3>1 DEF TypeOK
    <3>3. k - low[next[p]] \in Nat
        BY <3>2, <2>5
    <3>4. k - low[next[p]] \in T
        BY <3>1, <3>3, <2>5
    <3>5. k - low[p] <= k - low[next[p]]
        BY <3>4, <2>3, <2>4
    <3>6. QED
        BY <3>1, <3>2, <3>5 DEF TypeOK
  <2>6. next[p] # 0 => low[next[p]] \in Nat
      BY DEF TypeOK
  <2>7. Covers(p, k)
      BY <2>4, <2>5, <2>6 DEF Covers
  <2>8. QED
      BY <2>7
<1>2. \A p, q \in Leaves : Covers(p, k) /\ Covers(q, k) => p = q
    BY DEF Covers, TypeOK, LinksInOrder
<1>3. \A p \in Leaves : Covers(p, k) => ValueAt(p, k) = acknowledged[k]
    BY <1>2 DEF ValueAt, ValuesKept, KeysInRange
<1>4. QED
    BY <1>1, <1>2, <1>3

\* However Insert splits leaves and Delete empties them, the links of leaves go
\* along ascending ranges, and every leaf holds the keys of its range.
THEOREM LeavesKeepOrder ==
    ASSUME ProperConstants
    PROVE  LeafSpec => []LeavesInv
<1>1. Init => LeavesInv
    BY LeavesStart
<1>2. LeavesInv /\ [Next]_leafVars => LeavesInv'
    BY LeavesStep
<1>3. QED
    BY <1>1, <1>2, PTL DEF LeafSpec

\* A search finds the value inserted last, or none after Delete: every key belongs on
\* one leaf, wherever Insert put the split keys.
THEOREM SearchesAlwaysAgree ==
    ASSUME ProperConstants
    PROVE  LeafSpec => []SearchesAgree
<1>1. LeavesInv => SearchesAgree
    BY SearchesAgreeFromInv
<1>2. QED
    BY <1>1, LeavesKeepOrder, PTL

--------------------------------------------------------------------------------

\* Two ascending sequences on either side of a bound make an ascending one.
LEMMA AscendingConcat ==
    ASSUME NEW s \in Seq(Nat), NEW t \in Seq(Nat), NEW m \in Nat, Ascending(s), Ascending(t),
           \A n \in DOMAIN s : s[n] < m, \A n \in DOMAIN t : m <= t[n]
    PROVE  Ascending(s \o t)
<1> SUFFICES ASSUME NEW n \in 1..(Len(s \o t) - 1)
             PROVE  (s \o t)[n] < (s \o t)[n + 1]
    BY DEF Ascending
<1>1. /\ Len(s) \in Nat /\ Len(t) \in Nat /\ Len(s \o t) = Len(s) + Len(t)
      /\ DOMAIN s = 1..Len(s) /\ DOMAIN t = 1..Len(t)
    OBVIOUS
<1>2. CASE n < Len(s)
  <2>1. (s \o t)[n] = s[n] /\ (s \o t)[n + 1] = s[n + 1]
      BY <1>1, <1>2
  <2>2. QED
      BY <2>1, <1>1, <1>2 DEF Ascending
<1>3. CASE n = Len(s)
  <2>1. (s \o t)[n] = s[n] /\ (s \o t)[n + 1] = t[1] /\ n \in DOMAIN s /\ 1 \in DOMAIN t
      BY <1>1, <1>3
  <2>2. s[n] < m /\ m <= t[1] /\ s[n] \in Nat /\ t[1] \in Nat
      BY <2>1
  <2>3. QED
      BY <2>1, <2>2
<1>4. CASE n > Len(s)
  <2>1. (s \o t)[n] = t[n - Len(s)] /\ (s \o t)[n + 1] = t[n - Len(s) + 1]
      BY <1>1, <1>4
  <2>2. n - Len(s) \in 1..(Len(t) - 1)
      BY <1>1, <1>4
  <2>3. QED
      BY <2>1, <2>2 DEF Ascending
<1>5. n < Len(s) \/ n = Len(s) \/ n > Len(s)
  <2>1. n \in Int /\ Len(s) \in Int
      OBVIOUS
  <2>2. \A i, j \in Int : i < j \/ i = j \/ i > j
      OBVIOUS
  <2>3. QED
      BY <2>1, <2>2, Zenon
<1>6. QED
    BY <1>2, <1>3, <1>4, <1>5

\* The elements of a concatenation are those of its parts.
LEMMA ConcatKeeps ==
    ASSUME NEW s \in Seq(Nat), NEW t \in Seq(Nat)
    PROVE  /\ \A n \in DOMAIN s : \E i \in DOMAIN (s \o t) : (s \o t)[i] = s[n]
           /\ \A n \in DOMAIN t : \E i \in DOMAIN (s \o t) : (s \o t)[i] = t[n]
           /\ \A n \in DOMAIN (s \o t) :
                 \/ n \in DOMAIN s /\ (s \o t)[n] = s[n]
                 \/ \E i \in DOMAIN t : (s \o t)[n] = t[i]
<1>1. /\ Len(s) \in Nat /\ Len(t) \in Nat /\ Len(s \o t) = Len(s) + Len(t)
      /\ DOMAIN s = 1..Len(s) /\ DOMAIN t = 1..Len(t) /\ DOMAIN (s \o t) = 1..(Len(s) + Len(t))
    OBVIOUS
<1>2. \A n \in 1..Len(s) : (s \o t)[n] = s[n]
    BY <1>1
<1>3. \A n \in 1..Len(t) : (s \o t)[Len(s) + n] = t[n]
    BY <1>1
<1>4. ASSUME NEW n \in 1..(Len(s) + Len(t)), n > Len(s)
      PROVE  n - Len(s) \in 1..Len(t) /\ (s \o t)[n] = t[n - Len(s)]
    BY <1>1, <1>4
<1>5. \A n \in 1..(Len(s) + Len(t)) : n \in 1..Len(s) \/ n > Len(s)
    BY <1>1
<1>6. \A n \in 1..Len(t) : Len(s) + n \in 1..(Len(s) + Len(t))
    BY <1>1
<1>7. \A n \in 1..Len(s) : n \in 1..(Len(s) + Len(t))
    BY <1>1
<1>8. QED
    BY <1>1, <1>2, <1>3, <1>4, <1>5, <1>6, <1>7

\* A sequence over a set is one over a larger set.
LEMMA SeqOfMore ==
    ASSUME NEW S, NEW T, S \subseteq T, NEW s \in Seq(S)
    PROVE  s \in Seq(T)
<1>1. Len(s) \in Nat /\ s \in [1..Len(s) -> S]
    OBVIOUS
<1>2. s \in [1..Len(s) -> T]
    BY <1>1
<1>3. QED
    BY <1>1, <1>2

\* What a sorted sequence of a set holds.
LEMMA SortedOf ==
    ASSUME NEW S \in SUBSET Nat, IsFiniteSet(S), NEW s \in Sorted(S)
    PROVE  /\ s \in Seq(S) /\ Ascending(s)
           /\ \A k \in S : \E n \in DOMAIN s : s[n] = k
           /\ \A n \in DOMAIN s : s[n] \in S
<1>1. Cardinality(S) \in Nat
    BY FS_CardinalityType
<1>2. s \in [1..Cardinality(S) -> S]
    BY DEF Sorted
<1>3. s \in Seq(S)
    BY <1>1, <1>2
<1>4. QED
    BY <1>2, <1>3 DEF Sorted

\* A cursor that had passed what lies below leaf p, and comes to p, has then passed
\* what lies below the leaf after p: the leaf has the keys of its range and no others.
LEMMA Passing ==
    ASSUME ProperConstants, LeavesInv, NEW p \in Leaves, NEW c \in Cursor,
           Ascending(c.passed), PassedBelow(c, low[p]),
           \A k \in c.sought : acknowledged[k] # NoValue,
           NEW keys \in Sorted(DOMAIN entries[p]),
           NEW d \in Cursor, d.sought = c.sought, d.passed = c.passed \o keys
    PROVE  /\ Ascending(d.passed)
           /\ next[p] = 0 => PassedAll(d)
           /\ next[p] # 0 => PassedBelow(d, low[next[p]])
<1> USE DEF ProperConstants
<1>1. /\ keys \in Seq(DOMAIN entries[p]) /\ Ascending(keys)
      /\ \A k \in DOMAIN entries[p] : \E n \in DOMAIN keys : keys[n] = k
      /\ \A n \in DOMAIN keys : keys[n] \in DOMAIN entries[p]
    BY SortedOf DEF LeavesInv, TypeOK
<1>2. c.passed \in Seq(Nat) /\ keys \in Seq(Nat) /\ low[p] \in Nat
  <2>1. c.passed \in Seq(Keys) /\ DOMAIN entries[p] \subseteq Nat /\ low[p] \in Nat
      BY DEF Cursor, LeavesInv, TypeOK
  <2>2. QED
      BY <2>1, <1>1, SeqOfMore
<1>3. \A n \in DOMAIN keys : Covers(p, keys[n])
    BY <1>1 DEF LeavesInv, KeysInRange
<1>4. Ascending(d.passed)
    BY <1>1, <1>2, <1>3, AscendingConcat DEF PassedBelow, Covers
<1>5. /\ \A n \in DOMAIN c.passed : \E i \in DOMAIN d.passed : d.passed[i] = c.passed[n]
      /\ \A n \in DOMAIN keys : \E i \in DOMAIN d.passed : d.passed[i] = keys[n]
      /\ \A n \in DOMAIN d.passed :
            \/ n \in DOMAIN c.passed /\ d.passed[n] = c.passed[n]
            \/ \E i \in DOMAIN keys : d.passed[n] = keys[i]
  <2> DEFINE s == c.passed
             r == d.passed
  <2>1. s \in Seq(Nat) /\ keys \in Seq(Nat) /\ r = s \o keys
      BY <1>2
  <2> HIDE DEF s, r
  <2>2. /\ \A n \in DOMAIN s : \E i \in DOMAIN (s \o keys) : (s \o keys)[i] = s[n]
        /\ \A n \in DOMAIN keys : \E i \in DOMAIN (s \o keys) : (s \o keys)[i] = keys[n]
        /\ \A n \in DOMAIN (s \o keys) :
              \/ n \in DOMAIN s /\ (s \o keys)[n] = s[n]
              \/ \E i \in DOMAIN keys : (s \o keys)[n] = keys[i]
      BY <2>1, ConcatKeeps, Zenon
  <2>3. \A n \in DOMAIN s : \E i \in DOMAIN r : r[i] = s[n]
      BY <2>1, <2>2, Zenon
  <2>4. \A n \in DOMAIN keys : \E i \in DOMAIN r : r[i] = keys[n]
      BY <2>1, <2>2, Zenon
  <2>5. \A n \in DOMAIN r :
              \/ n \in DOMAIN s /\ r[n] = s[n]
              \/ \E i \in DOMAIN keys : r[n] = keys[i]
      BY <2>1, <2>2, Zenon
  <2>6. QED
      BY <2>3, <2>4, <2>5, Zenon DEF s, r
<1>6. ASSUME NEW k \in c.sought, next[p] # 0 => k < low[next[p]]
      PROVE  \E n \in DOMAIN d.passed : d.passed[n] = k
  <2>1. k \in Keys
      BY DEF Cursor
  <2>2. CASE k < low[p]
      BY <2>2, <1>5 DEF PassedBelow
  <2>3. CASE low[p] <= k
    <3>1. Covers(p, k)
        BY <2>3, <1>6 DEF Covers
    <3>2. PICK q \in Leaves : k \in DOMAIN entries[q]
        BY <2>1 DEF LeavesInv, ValuesKept
    <3>3. Covers(q, k)
        BY <3>2 DEF LeavesInv, KeysInRange
    <3>4. q = p
        BY <3>1, <3>3, <2>1, SearchesAgreeFromInv DEF SearchesAgree
    <3>5. PICK n \in DOMAIN keys : keys[n] = k
        BY <3>2, <3>4, <1>1
    <3>6. QED
        BY <3>5, <1>5
  <2>4. QED
      BY <2>1, <2>2, <2>3, <1>2
<1>7. next[p] = 0 => PassedAll(d)
    BY <1>6 DEF PassedAll
<1>8. ASSUME next[p] # 0
      PROVE  PassedBelow(d, low[next[p]])
  <2>1. low[next[p]] \in Nat /\ low[p] < low[next[p]]
      BY <1>8 DEF LeavesInv, TypeOK, LinksInOrder
  <2>2. \A n \in DOMAIN c.passed : c.passed[n] < low[next[p]]
    <3>1. \A n \in DOMAIN c.passed : c.passed[n] \in Nat
        BY <1>2
    <3>2. QED
        BY <3>1, <2>1, <1>2 DEF PassedBelow
  <2>3. \A n \in DOMAIN keys : keys[n] < low[next[p]]
      BY <1>3, <1>8 DEF Covers
  <2>4. \A n \in DOMAIN d.passed : d.passed[n] < low[next[p]]
      BY <2>2, <2>3, <1>5
  <2>5. QED
      BY <2>4, <1>6 DEF PassedBelow
<1>9. QED
    BY <1>4, <1>7, <1>8

\* A cursor keeps its place when leaves change as long as bounds stay and its own
\* leaf keeps its link: a split behind it or before it moves no key past it.
LEMMA LeavesChange ==
    ASSUME ProperConstants, LeavesInv, NEW c \in Cursor, CursorOK(c), NEW d \in Cursor,
           d.phase = c.phase, d.page = c.page, d.next = c.next, d.passed = c.passed,
           d.sought \subseteq c.sought, \A k \in d.sought : acknowledged'[k] # NoValue,
           \A z \in Leaves : z \in Leaves' /\ low'[z] = low[z],
           HasGuard(c) /\ c.page # 0 => next'[c.page] = next[c.page]
    PROVE  CursorOK(d)'
<1> USE DEF ProperConstants
<1>1. HasGuard(d) = HasGuard(c)
    BY DEF HasGuard
<1>2. ASSUME HasGuard(c)
      PROVE  /\ c.page = 0 \/ c.page \in Leaves
             /\ NextOf(c.page)' = NextOf(c.page)
             /\ NextOf(c.page) # 0 => NextOf(c.page) \in Leaves
    BY <1>2 DEF CursorOK, NextOf, LeavesInv, TypeOK
<1>3. PassedAll(c) => PassedAll(d)
    BY DEF PassedAll
<1>4. \A m \in Nat : PassedBelow(c, m) => PassedBelow(d, m)
    BY DEF PassedBelow
<1>5. \A z \in Leaves : low[z] \in Nat
    BY DEF LeavesInv, TypeOK
<1>6. HasGuard(d) => (c.page = 0 \/ c.page \in Leaves')
    BY <1>1, <1>2
<1>7. HasGuard(d) /\ NextOf(d.page)' = 0 => PassedAll(d)
    BY <1>1, <1>2, <1>3 DEF CursorOK
<1>8. HasGuard(d) /\ NextOf(d.page)' # 0 => PassedBelow(d, low'[NextOf(d.page)'])
    BY <1>1, <1>2, <1>4, <1>5 DEF CursorOK
<1>9. d.phase = "moving" => d.next \in Leaves' /\ PassedBelow(d, low'[d.next])
    BY <1>4, <1>5 DEF CursorOK
<1>10. d.phase = "ended" => NextOf(d.page)' = 0
    BY <1>1, <1>2 DEF CursorOK, HasGuard
<1>11. QED
    BY <1>6, <1>7, <1>8, <1>9, <1>10 DEF CursorOK

\* Insert, on leaves that no iterator guards, takes no cursor from its place.
LEMMA InsertionsSpareCursors ==
    ASSUME ProperConstants, LeavesInv, CursorsInv, InsertUnlatched
    PROVE  CursorsInv'
<1> USE DEF ProperConstants
<1>1. cursors' = cursors
    BY DEF InsertUnlatched
<1> SUFFICES ASSUME NEW i \in Iterators
             PROVE  CursorOK(cursors[i])'
    BY <1>1 DEF CursorsInv
<1> DEFINE c == cursors[i]
<1>2. c \in Cursor /\ CursorOK(c)
    BY DEF CursorsInv
<1>3. ASSUME \A k \in Keys : acknowledged[k] # NoValue => acknowledged'[k] # NoValue,
             \A z \in Leaves : z \in Leaves' /\ low'[z] = low[z],
             HasGuard(c) /\ c.page # 0 => next'[c.page] = next[c.page]
      PROVE  CursorOK(cursors[i])'
  <2>1. \A k \in c.sought : k \in Keys /\ acknowledged'[k] # NoValue
      BY <1>2, <1>3 DEF CursorOK, Cursor
  <2>2. CursorOK(c)'
      BY <2>1, <1>1, <1>2, <1>3, LeavesChange DEF CursorOK
  <2>3. QED
      BY <2>2
<1>4. ASSUME NEW p \in PageIds, NEW k \in Keys, NEW v \in Values, InsertFirst(p, k, v)
      PROVE  CursorOK(cursors[i])'
  <2>1. Leaves = {} /\ acknowledged' = [acknowledged EXCEPT ![k] = v]
      BY <1>4 DEF InsertFirst, Acknowledge
  <2>2. \A j \in Keys : acknowledged[j] # NoValue => acknowledged'[j] # NoValue
      BY <2>1 DEF LeavesInv, TypeOK
  <2>3. ~ (HasGuard(c) /\ c.page # 0)
      BY <2>1, <1>2 DEF CursorOK
  <2>4. QED
      BY <2>1, <2>2, <2>3, <1>3
<1>5. ASSUME NEW p \in Leaves \ Latched, NEW k \in Keys, NEW v \in Values, InsertAt(p, k, v)
      PROVE  CursorOK(cursors[i])'
  <2>1. acknowledged' = [acknowledged EXCEPT ![k] = v]
      BY <1>5 DEF InsertAt, Acknowledge
  <2>2. \A j \in Keys : acknowledged[j] # NoValue => acknowledged'[j] # NoValue
      BY <2>1 DEF LeavesInv, TypeOK
  <2>3. HasGuard(c) => c.page # p
      BY DEF Latched
  <2>4. CASE Store(p, k, v)
    <3>1. low' = low /\ next' = next /\ Leaves' = Leaves
        BY <2>4 DEF Store, Leaves
    <3>2. QED
        BY <3>1, <2>2, <1>3
  <2>5. ASSUME NEW q \in PageIds \ Leaves, NEW m \in Keys, SplitAndStore(p, q, m, k, v)
        PROVE  CursorOK(cursors[i])'
    <3>1. /\ \A z \in Leaves : z \in Leaves' /\ low'[z] = low[z]
          /\ \A z \in Leaves \ {p} : next'[z] = next[z]
        BY <2>5 DEF SplitAndStore, Put, Leaves, LeavesInv, TypeOK
    <3>2. HasGuard(c) /\ c.page # 0 => c.page \in Leaves \ {p}
        BY <2>3, <1>2 DEF CursorOK
    <3>3. QED
        BY <3>1, <3>2, <2>2, <1>3
  <2>6. QED
      BY <2>4, <2>5, <1>5 DEF InsertAt
<1>6. QED
    BY <1>4, <1>5 DEF InsertUnlatched

\* Delete, on leaves that no iterator guards, takes no cursor from its place.
LEMMA DeletionsSpareCursors ==
    ASSUME ProperConstants, LeavesInv, CursorsInv,
           NEW p \in Leaves \ Latched, NEW k \in Keys, DeleteUnlatched(p, k)
    PROVE  CursorsInv'
<1> USE DEF ProperConstants
<1>1. /\ cursors' = [i \in Iterators |-> [cursors[i] EXCEPT !.sought = @ \ {k}]]
      /\ acknowledged' = [acknowledged EXCEPT ![k] = NoValue]
      /\ low' = low /\ next' = next /\ Leaves' = Leaves
    BY DEF DeleteUnlatched, DeleteAt, Acknowledge, Leaves
<1>2. ASSUME NEW i \in Iterators
      PROVE  cursors'[i] \in Cursor /\ CursorOK(cursors[i])'
  <2> DEFINE c == cursors[i]
             d == [c EXCEPT !.sought = @ \ {k}]
  <2>1. c \in Cursor /\ CursorOK(c) /\ cursors'[i] = d
      BY <1>1 DEF CursorsInv
  <2>2. /\ d \in Cursor
        /\ d.phase = c.phase /\ d.page = c.page /\ d.next = c.next /\ d.passed = c.passed
        /\ d.sought = c.sought \ {k}
      BY <2>1 DEF Cursor
  <2>3. \A j \in d.sought : acknowledged'[j] # NoValue
      BY <2>1, <2>2, <1>1 DEF CursorOK, Cursor, LeavesInv, TypeOK
  <2> HIDE DEF d
  <2>4. CursorOK(cursors[i])'
      BY <2>1, <2>2, <2>3, <1>1, LeavesChange DEF CursorOK
  <2>5. QED
      BY <2>1, <2>2, <2>4
<1>3. QED
    BY <1>1, <1>2 DEF CursorsInv

\* The place of a cursor is a matter of the leaves alone.
LEMMA SameLeaves ==
    ASSUME UNCHANGED leafVars, NEW c
    PROVE  CursorOK(c)' <=> CursorOK(c)
<1>1. low' = low /\ next' = next /\ acknowledged' = acknowledged /\ Leaves' = Leaves
    BY DEF leafVars, Leaves
<1>2. NextOf(c.page)' = NextOf(c.page)
    BY <1>1 DEF NextOf
<1>3. QED
    BY <1>1, <1>2 DEF CursorOK

\* When one cursor moves to a good place, all cursors are in good places.
LEMMA OneCursorMoves ==
    ASSUME CursorsInv, UNCHANGED leafVars, NEW i \in Iterators, NEW d \in Cursor, CursorOK(d),
           cursors' = [cursors EXCEPT ![i] = d]
    PROVE  CursorsInv'
<1>1. cursors' \in [Iterators -> Cursor]
    BY DEF CursorsInv
<1>2. \A j \in Iterators : CursorOK(cursors'[j])
    BY DEF CursorsInv
<1>3. \A j \in Iterators : CursorOK(cursors[j])'
    BY <1>2, SameLeaves DEF CursorOK
<1>4. QED
    BY <1>1, <1>3 DEF CursorsInv

\* A cursor that gets the guard of the leaf it was moving to has a good place there.
LEMMA Arrival ==
    ASSUME ProperConstants, LeavesInv, CursorsInv, NEW i \in Iterators, NEW c \in Cursor,
           NEW p, p \in Leaves \/ (p = 0 /\ c.sought = {} /\ c.passed = <<>>),
           p \in Leaves => PassedBelow(c, low[p]),
           Ascending(c.passed), \A k \in c.sought : acknowledged[k] # NoValue,
           Arrive(i, c, p), UNCHANGED leafVars
    PROVE  CursorsInv'
<1> USE DEF ProperConstants
<1>1. PICK keys \in Sorted(KeysOn(p)) :
          cursors' = [cursors EXCEPT ![i] = [c EXCEPT !.phase = "at", !.page = p, !.next = 0,
                                                      !.passed = @ \o keys]]
    BY DEF Arrive
<1> DEFINE d == [c EXCEPT !.phase = "at", !.page = p, !.next = 0, !.passed = @ \o keys]
<1>2. KeysOn(p) \subseteq Keys /\ IsFiniteSet(KeysOn(p))
    BY FS_EmptySet DEF KeysOn, LeavesInv, TypeOK
<1>3. keys \in Seq(Keys)
  <2>1. keys \in Seq(KeysOn(p))
      BY <1>2, SortedOf
  <2>2. QED
      BY <2>1, <1>2, SeqOfMore
<1>4. /\ d \in Cursor /\ d.phase = "at" /\ d.page = p /\ d.sought = c.sought
      /\ d.passed = c.passed \o keys
  <2>1. c.passed \o keys \in Seq(Keys) /\ p \in PageIds \cup {0}
      BY <1>3 DEF Cursor, LeavesInv, TypeOK
  <2>2. QED
      BY <2>1 DEF Cursor
<1> HIDE DEF d
<1>5. CASE p \in Leaves
  <2>1. p # 0 /\ KeysOn(p) = DOMAIN entries[p] /\ NextOf(p) = next[p]
      BY <1>5 DEF KeysOn, NextOf, LeavesInv, TypeOK
  <2>2. /\ Ascending(d.passed)
        /\ next[p] = 0 => PassedAll(d)
        /\ next[p] # 0 => PassedBelow(d, low[next[p]])
      BY <2>1, <1>4, <1>5, Passing
  <2>3. CursorOK(d)
      BY <2>1, <2>2, <1>4, <1>5 DEF CursorOK, HasGuard
  <2>4. QED
      BY <2>3, <1>1, <1>4, OneCursorMoves DEF d
<1>6. CASE p = 0 /\ c.sought = {} /\ c.passed = <<>>
  <2>1. Ascending(keys) /\ KeysOn(p) = {} /\ NextOf(p) = 0
      BY <1>2, <1>6, SortedOf DEF KeysOn, NextOf
  <2>2. Ascending(d.passed)
    <3>1. <<>> \o keys = keys
        BY <1>3, ConcatEmptySeq
    <3>2. QED
        BY <3>1, <2>1, <1>4, <1>6
  <2>3. CursorOK(d)
      BY <2>1, <2>2, <1>4, <1>6 DEF CursorOK, HasGuard, PassedAll
  <2>4. QED
      BY <2>3, <1>1, <1>4, OneCursorMoves DEF d
<1>7. QED
    BY <1>5, <1>6

\* NewBPlusTreeIterator starts on the first leaf, below which no key belongs.
LEMMA BeginKeepsCursors ==
    ASSUME ProperConstants, LeavesInv, CursorsInv, NEW i \in Iterators, Begin(i)
    PROVE  CursorsInv'
<1> USE DEF ProperConstants
<1> DEFINE there == {k \in Keys : acknowledged[k] # NoValue}
           c == [cursors[i] EXCEPT !.sought = there]
<1>1. c \in Cursor /\ c.passed = <<>> /\ c.sought = there
    BY DEF Begin, CursorsInv, CursorOK, Cursor
<1>2. Arrive(i, c, first) /\ UNCHANGED leafVars
    BY DEF Begin
<1>3. first \in Leaves \/ (first = 0 /\ there = {})
    BY DEF LeavesInv, TypeOK, LinksInOrder, ValuesKept
<1>4. first \in Leaves => PassedBelow(c, low[first])
    BY <1>1 DEF PassedBelow, LeavesInv, LinksInOrder
<1>5. Ascending(c.passed)
    BY <1>1 DEF Ascending
<1>6. \A k \in c.sought : acknowledged[k] # NoValue
    BY <1>1
<1> HIDE DEF c, there
<1>7. QED
    BY <1>1, <1>2, <1>3, <1>4, <1>5, <1>6, Arrival

\* Next gets the guard of the leaf whose link was read under the guard before.
LEMMA ContinueKeepsCursors ==
    ASSUME ProperConstants, LeavesInv, CursorsInv, NEW i \in Iterators, Continue(i)
    PROVE  CursorsInv'
<1>1. cursors[i] \in Cursor /\ CursorOK(cursors[i]) /\ cursors[i].phase = "moving"
    BY DEF Continue, CursorsInv
<1>2. /\ cursors[i].next \in Leaves /\ PassedBelow(cursors[i], low[cursors[i].next])
      /\ Ascending(cursors[i].passed) /\ \A k \in cursors[i].sought : acknowledged[k] # NoValue
    BY <1>1 DEF CursorOK
<1>3. QED
    BY <1>1, <1>2, Arrival DEF Continue

\* Next reads the link under the guard and releases it: until here the leaf and its
\* link cannot have changed.
LEMMA LeaveKeepsCursors ==
    ASSUME ProperConstants, LeavesInv, CursorsInv, NEW i \in Iterators, Leave(i)
    PROVE  CursorsInv'
<1> DEFINE c == cursors[i]
           q == NextOf(c.page)
<1>1. c \in Cursor /\ CursorOK(c) /\ c.phase = "at" /\ HasGuard(c)
    BY DEF Leave, CursorsInv, HasGuard
<1>2. CASE q = 0
  <2> DEFINE d == [c EXCEPT !.phase = "ended"]
  <2>1. /\ d \in Cursor /\ d.phase = "ended" /\ d.page = c.page /\ d.sought = c.sought
        /\ d.passed = c.passed
      BY <1>1 DEF Cursor
  <2>2. cursors' = [cursors EXCEPT ![i] = d] /\ UNCHANGED leafVars
      BY <1>2 DEF Leave
  <2> HIDE DEF d
  <2>3. CursorOK(d)
      BY <2>1, <1>1, <1>2 DEF CursorOK, HasGuard, PassedAll
  <2>4. QED
      BY <2>1, <2>2, <2>3, OneCursorMoves
<1>3. CASE q # 0
  <2> DEFINE d == [c EXCEPT !.phase = "moving", !.next = q]
  <2>1. q \in Leaves /\ PassedBelow(c, low[q])
      BY <1>1, <1>3 DEF CursorOK, NextOf, LeavesInv, TypeOK
  <2>2. /\ d \in Cursor /\ d.phase = "moving" /\ d.next = q /\ d.sought = c.sought
        /\ d.passed = c.passed
      BY <2>1, <1>1 DEF Cursor, LeavesInv, TypeOK
  <2>3. cursors' = [cursors EXCEPT ![i] = d] /\ UNCHANGED leafVars
      BY <1>3 DEF Leave
  <2> HIDE DEF d
  <2>4. CursorOK(d)
      BY <2>1, <2>2, <1>1 DEF CursorOK, HasGuard, PassedBelow
  <2>5. QED
      BY <2>2, <2>3, <2>4, OneCursorMoves
<1>4. QED
    BY <1>2, <1>3

\* Close, or an error, leaves what was passed.
LEMMA StopKeepsCursors ==
    ASSUME CursorsInv, NEW i \in Iterators, Stop(i)
    PROVE  CursorsInv'
<1> DEFINE d == [cursors[i] EXCEPT !.phase = "stopped"]
<1>1. cursors[i] \in Cursor /\ CursorOK(cursors[i])
    BY DEF CursorsInv
<1>2. d \in Cursor /\ d.phase = "stopped" /\ d.sought = cursors[i].sought /\ d.passed = cursors[i].passed
    BY <1>1 DEF Cursor
<1>3. cursors' = [cursors EXCEPT ![i] = d] /\ UNCHANGED leafVars
    BY DEF Stop
<1> HIDE DEF d
<1>4. CursorOK(d)
    BY <1>1, <1>2 DEF CursorOK, HasGuard
<1>5. QED
    BY <1>2, <1>3, <1>4, OneCursorMoves

\* Iterators change nothing of the leaves: their steps are stuttering steps of the
\* tree, so that what holds for leaves holds whatever iterators do.
THEOREM CursorsImplementLeaves == CursorSpec => LeafSpec
<1>1. CursorInit => Init
    BY DEF CursorInit
<1>2. [CursorNext]_cursorVars => [Next]_leafVars
    BY DEF CursorNext, InsertUnlatched, DeleteUnlatched, Begin, Leave, Continue, Stop, cursorVars, Next
<1>3. QED
    BY <1>1, <1>2, PTL DEF CursorSpec, LeafSpec

\* Every step keeps the cursors in their places.
LEMMA CursorsStep ==
    ASSUME ProperConstants, LeavesInv, CursorsInv, [CursorNext]_cursorVars
    PROVE  CursorsInv'
<1>1. CASE UNCHANGED cursorVars
  <2>1. cursors' = cursors /\ UNCHANGED leafVars
      BY <1>1 DEF cursorVars
  <2>2. \A i \in Iterators : CursorOK(cursors[i])'
      BY <2>1, SameLeaves DEF CursorsInv, CursorOK
  <2>3. QED
      BY <2>1, <2>2 DEF CursorsInv
<1>2. CASE CursorNext
    BY <1>2, InsertionsSpareCursors, DeletionsSpareCursors, BeginKeepsCursors, LeaveKeepsCursors,
       ContinueKeepsCursors, StopKeepsCursors DEF CursorNext
<1>3. QED
    BY <1>1, <1>2

\* An iterator has passed what lies before its place, and nothing else, while it has
\* a guard and while it has none: what Insert and Delete do between two leaves
\* neither hides a key from Next nor shows it one twice.
THEOREM CursorsKeepTheirPlace ==
    ASSUME ProperConstants
    PROVE  CursorSpec => []CursorsInv
<1>1. CursorInit => CursorsInv
  <2>1. NoCursor \in Cursor
      BY DEF NoCursor, Cursor
  <2>2. CursorOK(NoCursor)
      BY DEF NoCursor, CursorOK, HasGuard, Ascending
  <2>3. QED
      BY <2>1, <2>2 DEF CursorInit, CursorsInv
<1>2. LeavesInv /\ CursorsInv /\ [CursorNext]_cursorVars => CursorsInv'
    BY CursorsStep
<1>3. QED
    BY <1>1, <1>2, CursorsImplementLeaves, LeavesKeepOrder, PTL DEF CursorSpec

\* Next comes to keys in ascending order, none of them twice.
THEOREM IteratorsPassInOrder ==
    ASSUME ProperConstants
    PROVE  CursorSpec => []PassesInOrder
<1>1. CursorsInv => PassesInOrder
    BY DEF CursorsInv, CursorOK, PassesInOrder
<1>2. QED
    BY <1>1, CursorsKeepTheirPlace, PTL

\* An iterator that has come to the end passed every key that was there since
\* NewBPlusTreeIterator.
THEOREM IteratorsPassEveryKey ==
    ASSUME ProperConstants
    PROVE  CursorSpec => []PassesEveryKey
<1>1. CursorsInv => PassesEveryKey
    BY DEF CursorsInv, CursorOK, PassesEveryKey, PassedAll, HasGuard
<1>2. QED
    BY <1>1, CursorsKeepTheirPlace, PTL
================================================================================
