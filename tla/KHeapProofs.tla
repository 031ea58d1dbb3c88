----------------------------- MODULE KHeapProofs -----------------------------
(* Theorems about KHeap, for every heap, header, alignment and set of requests. *)
EXTENDS KHeap, SequenceTheorems, TLAPS

------------------------------------------------------------------------------
(* Sequences, and rounding. *)

\* A stretch of a sequence, from place m to place n.
LEMMA Stretch ==
  ASSUME NEW S, NEW s \in Seq(S), NEW m \in 1..(Len(s) + 1), NEW n \in (m - 1)..Len(s)
  PROVE  /\ SubSeq(s, m, n) \in Seq(S)
         /\ Len(SubSeq(s, m, n)) = n - m + 1
         /\ \A k \in 1..(n - m + 1) : SubSeq(s, m, n)[k] = s[m + k - 1]
<1>1. m \in Int /\ n \in Int /\ \A k \in m..n : s[k] \in S
  OBVIOUS
<1> QED BY <1>1, SubSeqProperties

\* Inserting shifts what follows by one place.
LEMMA Inserted ==
  ASSUME NEW S, NEW s \in Seq(S), NEW i \in 1..(Len(s) + 1), NEW e \in S
  PROVE  /\ InsertAt(s, i, e) \in Seq(S)
         /\ Len(InsertAt(s, i, e)) = Len(s) + 1
         /\ \A k \in 1..(Len(s) + 1) :
              InsertAt(s, i, e)[k] = IF k < i THEN s[k] ELSE IF k = i THEN e ELSE s[k - 1]
<1> DEFINE a == SubSeq(s, 1, i - 1)
           b == SubSeq(s, i, Len(s))
<1>1. a \in Seq(S) /\ Len(a) = i - 1 /\ \A k \in 1..(i - 1) : a[k] = s[k]
  BY Stretch
<1>2. b \in Seq(S) /\ Len(b) = Len(s) - i + 1 /\ \A k \in 1..(Len(s) - i + 1) : b[k] = s[i + k - 1]
  BY Stretch
<1>3. InsertAt(s, i, e) = (a \o <<e>>) \o b
  BY DEF InsertAt
<1> HIDE DEF a, b
<1>4. /\ a \o <<e>> \in Seq(S) /\ Len(a \o <<e>>) = i
      /\ \A k \in 1..i : (a \o <<e>>)[k] = IF k <= i - 1 THEN a[k] ELSE <<e>>[k - (i - 1)]
  BY <1>1, ConcatProperties
<1>5. \A k \in 1..i : (a \o <<e>>)[k] = IF k < i THEN s[k] ELSE e
  BY <1>1, <1>4
<1> DEFINE c == a \o <<e>>
<1>6. c \in Seq(S) /\ Len(c) = i /\ \A k \in 1..i : c[k] = IF k < i THEN s[k] ELSE e
  BY <1>4, <1>5
<1> HIDE DEF c
<1>7. /\ c \o b \in Seq(S) /\ Len(c \o b) = Len(s) + 1
      /\ \A k \in 1..(Len(s) + 1) : (c \o b)[k] = IF k <= i THEN c[k] ELSE b[k - i]
  BY <1>2, <1>6, ConcatProperties
<1>8. \A k \in 1..(Len(s) + 1) : k > i => k - i \in 1..(Len(s) - i + 1) /\ b[k - i] = s[k - 1]
  BY <1>2
<1> QED BY <1>3, <1>6, <1>7, <1>8 DEF c

\* Removing closes the gap.
LEMMA Removed ==
  ASSUME NEW S, NEW s \in Seq(S), NEW i \in 1..Len(s)
  PROVE  /\ RemoveAt(s, i) \in Seq(S)
         /\ Len(RemoveAt(s, i)) = Len(s) - 1
         /\ \A k \in 1..(Len(s) - 1) :
              RemoveAt(s, i)[k] = IF k < i THEN s[k] ELSE s[k + 1]
<1> DEFINE a == SubSeq(s, 1, i - 1)
           b == SubSeq(s, i + 1, Len(s))
<1>1. a \in Seq(S) /\ Len(a) = i - 1 /\ \A k \in 1..(i - 1) : a[k] = s[k]
  BY Stretch
<1>2. b \in Seq(S) /\ Len(b) = Len(s) - i /\ \A k \in 1..(Len(s) - i) : b[k] = s[i + k]
  BY Stretch
<1>3. RemoveAt(s, i) = a \o b
  BY DEF RemoveAt
<1> HIDE DEF a, b
<1>a. /\ a \o b \in Seq(S) /\ Len(a \o b) = Len(a) + Len(b)
      /\ \A k \in 1..(Len(a) + Len(b)) :
           (a \o b)[k] = IF k <= Len(a) THEN a[k] ELSE b[k - Len(a)]
  BY <1>1, <1>2, ConcatProperties, Zenon
<1>b. Len(a) + Len(b) = Len(s) - 1
  BY <1>1, <1>2
<1>4. /\ a \o b \in Seq(S) /\ Len(a \o b) = Len(s) - 1
      /\ \A k \in 1..(Len(s) - 1) : (a \o b)[k] = IF k <= i - 1 THEN a[k] ELSE b[k - (i - 1)]
  BY <1>1, <1>a, <1>b
<1>5. \A k \in 1..(Len(s) - 1) : k >= i => k - (i - 1) \in 1..(Len(s) - i) /\ b[k - (i - 1)] = s[k + 1]
  BY <1>2
<1> QED BY <1>1, <1>3, <1>4, <1>5

\* kmalloc rounds up.
LEMMA RoundsUp ==
  ASSUME NEW n \in Nat
  PROVE  Rounded(n) \in Nat /\ n <= Rounded(n)
  BY KHeapAssumption DEF Rounded

------------------------------------------------------------------------------
(* The list of blocks. *)

\* Block after block from one end of the heap to the other; each lies after all the
\* blocks before it.
Chain(s) ==
  /\ s[1].at = HEAP_START
  /\ \A i \in 1..(Len(s) - 1) : After(s[i]) = s[i + 1].at
  /\ After(s[Len(s)]) = HEAP_END
  /\ \A i, j \in DOMAIN s : i < j => After(s[i]) <= s[j].at

\* What a block is.
LEMMA OneBlock ==
  ASSUME NEW b \in Block
  PROVE  /\ b.at \in HEAP_START..HEAP_END /\ b.size \in 0..(HEAP_END - HEAP_START)
         /\ b.free \in BOOLEAN
         /\ Payload(b) = b.at + Header /\ After(b) = b.at + Header + b.size
         /\ b.at \in Int /\ b.size \in Int /\ After(b) \in Int
         /\ b.at < After(b)
<1>1. /\ b.at \in HEAP_START..HEAP_END /\ b.size \in 0..(HEAP_END - HEAP_START)
      /\ b.free \in BOOLEAN
  BY DEF Block
<1>2. b.at \in Int /\ b.size \in Int /\ b.size >= 0 /\ Header \in Int /\ Header > 0
  BY <1>1, KHeapAssumption
<1>3. Payload(b) = b.at + Header /\ After(b) = b.at + Header + b.size
  BY DEF Payload, After
<1>4. b.at + Header + b.size \in Int /\ b.at < b.at + Header + b.size
  BY <1>2
<1> QED BY <1>1, <1>2, <1>3, <1>4

LEMMA Blocks ==
  ASSUME NEW s \in Seq(Block), NEW i \in DOMAIN s
  PROVE  /\ s[i].at \in HEAP_START..HEAP_END /\ s[i].size \in 0..(HEAP_END - HEAP_START)
         /\ s[i].free \in BOOLEAN
         /\ Payload(s[i]) = s[i].at + Header /\ After(s[i]) = s[i].at + Header + s[i].size
         /\ s[i].at \in Int /\ s[i].size \in Int /\ After(s[i]) \in Int
         /\ s[i].at < After(s[i])
<1>1. s[i] \in Block
  OBVIOUS
<1> QED BY <1>1, OneBlock

\* No block reaches beyond the heap.
LEMMA InHeap ==
  ASSUME NEW s \in Seq(Block), s # <<>>, Chain(s), NEW i \in DOMAIN s
  PROVE  After(s[i]) <= HEAP_END
<1>1. Len(s) \in DOMAIN s /\ i \in 1..Len(s)
  OBVIOUS
<1>2. s[Len(s)].at <= HEAP_END
  BY <1>1, Blocks, KHeapAssumption
<1>3. CASE i = Len(s)
  BY <1>3, KHeapAssumption DEF Chain
<1>4. CASE i < Len(s)
  <2>1. After(s[i]) <= s[Len(s)].at
    BY <1>1, <1>4 DEF Chain
  <2> QED BY <1>1, <1>2, <2>1, Blocks, KHeapAssumption
<1> QED BY <1>1, <1>3, <1>4

\* Blocks that start at the same place are the same.
LEMMA SamePlace ==
  ASSUME NEW s \in Seq(Block), Chain(s), NEW i \in DOMAIN s, NEW j \in DOMAIN s,
         Payload(s[i]) = Payload(s[j])
  PROVE  i = j
<1>1. s[i].at = s[j].at
  BY Blocks, KHeapAssumption
<1>2. ~ (i < j)
  <2> SUFFICES ASSUME i < j PROVE FALSE
    OBVIOUS
  <2>1. After(s[i]) <= s[j].at
    BY DEF Chain
  <2> QED BY <1>1, <2>1, Blocks
<1>3. ~ (j < i)
  <2> SUFFICES ASSUME j < i PROVE FALSE
    OBVIOUS
  <2>1. After(s[j]) <= s[i].at
    BY DEF Chain
  <2> QED BY <1>1, <2>1, Blocks
<1> QED BY <1>2, <1>3

\* Splitting the block at i into x and y leaves a chain.
LEMMA SplitChain ==
  ASSUME NEW s \in Seq(Block), s # <<>>, Chain(s), NEW i \in DOMAIN s,
         NEW x \in Block, NEW y \in Block,
         x.at = s[i].at, After(x) = y.at, After(y) = After(s[i]),
         NEW t \in Seq(Block), Len(t) = Len(s) + 1,
         \A k \in 1..(Len(s) + 1) :
           t[k] = IF k < i THEN s[k] ELSE IF k = i THEN x ELSE IF k = i + 1 THEN y ELSE s[k - 1]
  PROVE  Chain(t)
<1> USE DEF Chain
<1>0. /\ DOMAIN s = 1..Len(s) /\ DOMAIN t = 1..(Len(s) + 1) /\ Len(s) \in Nat \ {0}
      /\ i \in 1..Len(s)
  OBVIOUS
<1>1. t[1].at = HEAP_START
  BY <1>0
<1>2. ASSUME NEW k \in 1..(Len(t) - 1) PROVE After(t[k]) = t[k + 1].at
  <2>1. CASE k + 1 < i
    BY <1>0, <2>1
  <2>2. CASE k + 1 = i
    BY <1>0, <2>2
  <2>3. CASE k = i
    BY <1>0, <2>3
  <2>4. CASE k = i + 1
    <3>1. t[k] = y /\ t[k + 1] = s[i + 1] /\ i \in 1..(Len(s) - 1)
      BY <1>0, <2>4
    <3> QED BY <3>1
  <2>5. CASE k > i + 1
    <3>1. t[k] = s[k - 1] /\ t[k + 1] = s[k] /\ k - 1 \in 1..(Len(s) - 1) /\ (k - 1) + 1 = k
      <4>1. k \in 1..(Len(s) + 1) /\ k + 1 \in 1..(Len(s) + 1) /\ (k + 1) - 1 = k
        BY <1>0
      <4>2. t[k] = s[k - 1]
        BY <1>0, <2>5, <4>1
      <4>3. ~ (k + 1 < i) /\ k + 1 # i /\ k + 1 # i + 1
        BY <1>0, <2>5
      <4>4. t[k + 1] = s[(k + 1) - 1]
        BY <4>1, <4>3
      <4> QED BY <1>0, <2>5, <4>1, <4>2, <4>4
    <3> QED BY <3>1
  <2> QED BY <1>0, <2>1, <2>2, <2>3, <2>4, <2>5
<1>3. After(t[Len(t)]) = HEAP_END
  <2>1. CASE i = Len(s)
    <3>1. i + 1 \in 1..(Len(s) + 1) /\ ~ (i + 1 < i) /\ i + 1 # i
      BY <1>0
    <3>2. t[i + 1] = y
      BY <3>1
    <3>3. t[Len(s) + 1] = y
      BY <2>1, <3>2, Zenon
    <3>4. t[Len(t)] = y
      BY <3>3, Zenon
    <3>5. After(s[i]) = HEAP_END
      BY <2>1, Zenon
    <3> QED BY <3>4, <3>5, Zenon
  <2>2. CASE i < Len(s)
    <3>1. Len(t) \in 1..(Len(s) + 1) /\ Len(t) > i + 1 /\ Len(t) - 1 = Len(s)
      BY <1>0, <2>2
    <3>2. t[Len(t)] = s[Len(t) - 1]
      <4> DEFINE l == Len(t)
      <4>1. l \in 1..(Len(s) + 1) /\ ~ (l < i) /\ l # i /\ l # i + 1
        BY <1>0, <3>1
      <4> HIDE DEF l
      <4>2. t[l] = s[l - 1]
        BY <4>1
      <4> QED BY <4>2 DEF l
    <3>3. After(s[Len(s)]) = HEAP_END
      OBVIOUS
    <3> QED BY <3>1, <3>2, <3>3
  <2> QED BY <1>0, <2>1, <2>2
<1>4. ASSUME NEW j \in DOMAIN t, NEW k \in DOMAIN t, j < k PROVE After(t[j]) <= t[k].at
  <2>1. /\ x.at \in Int /\ y.at \in Int /\ After(x) \in Int /\ After(y) \in Int
        /\ x.at <= y.at /\ After(x) <= After(y)
    <3>1. /\ x.at \in Int /\ After(x) \in Int /\ x.at < After(x)
          /\ y.at \in Int /\ After(y) \in Int /\ y.at < After(y)
      BY OneBlock, Zenon
    <3> QED BY <3>1
  <2>2. \A l \in DOMAIN s : s[l].at \in Int /\ After(s[l]) \in Int
    BY Blocks
  <2>3. CASE k < i
    BY <1>0, <2>3, <1>4
  <2>4. CASE k = i
    BY <1>0, <2>4, <1>4
  <2>5. CASE k = i + 1 /\ j = i
    BY <1>0, <2>1, <2>5
  <2>6. CASE k = i + 1 /\ j < i
    <3>1. t[j] = s[j] /\ t[k] = y /\ After(s[j]) <= s[i].at /\ j \in DOMAIN s
      BY <1>0, <2>6
    <3>2. After(s[j]) \in Int /\ After(s[j]) <= y.at
      BY <2>1, <2>2, <3>1
    <3> QED BY <3>1, <3>2
  <2>7. CASE k > i + 1
    <3>1. t[k] = s[k - 1] /\ k - 1 \in DOMAIN s /\ k - 1 > i
      BY <1>0, <2>7
    <3>2. CASE j < i
      BY <1>0, <3>1, <3>2
    <3>3. CASE j = i
      <4>1. t[j] = x /\ After(s[i]) <= s[k - 1].at
        BY <1>0, <3>1, <3>3
      <4> QED BY <1>0, <2>1, <2>2, <3>1, <4>1
    <3>4. CASE j = i + 1
      <4>1. t[j] = y /\ After(s[i]) <= s[k - 1].at
        BY <1>0, <3>1, <3>4
      <4> QED BY <3>1, <4>1
    <3>5. CASE j > i + 1
      <4>1. t[j] = s[j - 1] /\ j - 1 \in DOMAIN s /\ j - 1 < k - 1
        BY <1>0, <1>4, <3>5
      <4> QED BY <3>1, <4>1
    <3> QED BY <1>0, <3>2, <3>3, <3>4, <3>5
  <2> QED BY <1>0, <1>4, <2>3, <2>4, <2>5, <2>6, <2>7
<1> QED BY <1>1, <1>2, <1>3, <1>4

\* So does making one block of those at i and i + 1.
LEMMA JoinChain ==
  ASSUME NEW s \in Seq(Block), Chain(s), NEW i \in 1..(Len(s) - 1),
         NEW x \in Block, x.at = s[i].at, After(x) = After(s[i + 1]),
         NEW t \in Seq(Block), Len(t) = Len(s) - 1,
         \A k \in 1..(Len(s) - 1) :
           t[k] = IF k < i THEN s[k] ELSE IF k = i THEN x ELSE s[k + 1]
  PROVE  Chain(t)
<1> USE DEF Chain
<1>0. /\ DOMAIN s = 1..Len(s) /\ DOMAIN t = 1..(Len(s) - 1) /\ Len(s) \in Nat \ {0}
  OBVIOUS
<1>1. t[1].at = HEAP_START
  BY <1>0
<1>2. ASSUME NEW k \in 1..(Len(t) - 1) PROVE After(t[k]) = t[k + 1].at
  <2>1. CASE k + 1 < i
    <3>1. t[k] = s[k] /\ t[k + 1] = s[k + 1] /\ k \in 1..(Len(s) - 1)
      BY <1>0, <2>1
    <3>2. After(s[k]) = s[k + 1].at
      BY <3>1
    <3> QED BY <3>1, <3>2
  <2>2. CASE k + 1 = i
    <3>1. t[k] = s[k] /\ t[k + 1] = x /\ k \in 1..(Len(s) - 1)
      BY <1>0, <2>2
    <3>2. After(s[k]) = s[k + 1].at
      BY <3>1
    <3> QED BY <2>2, <3>1, <3>2
  <2>3. CASE k = i
    <3>1. t[k] = x /\ t[k + 1] = s[(i + 1) + 1] /\ i + 1 \in 1..(Len(s) - 1)
      BY <1>0, <2>3
    <3> QED BY <3>1
  <2>4. CASE k > i
    <3>1. t[k] = s[k + 1] /\ t[k + 1] = s[(k + 1) + 1] /\ k + 1 \in 1..(Len(s) - 1)
      BY <1>0, <2>4
    <3> QED BY <3>1
  <2> QED BY <1>0, <2>1, <2>2, <2>3, <2>4
<1>3. After(t[Len(t)]) = HEAP_END
  <2>1. CASE i = Len(s) - 1
    BY <1>0, <2>1
  <2>2. CASE i < Len(s) - 1
    BY <1>0, <2>2
  <2> QED BY <1>0, <2>1, <2>2
<1>4. ASSUME NEW j \in DOMAIN t, NEW k \in DOMAIN t, j < k PROVE After(t[j]) <= t[k].at
  <2>1. CASE k < i
    BY <1>0, <1>4, <2>1
  <2>2. CASE k = i
    BY <1>0, <1>4, <2>2
  <2>3. CASE k > i
    <3>1. t[k] = s[k + 1] /\ k + 1 \in DOMAIN s
      BY <1>0, <2>3
    <3>2. CASE j < i
      <4>1. t[j] = s[j] /\ j \in DOMAIN s /\ j < k + 1
        BY <1>0, <1>4, <2>3, <3>2
      <4> QED BY <3>1, <4>1
    <3>3. CASE j = i
      <4>1. t[j] = x /\ After(s[i + 1]) <= s[k + 1].at
        BY <1>0, <2>3, <3>1, <3>3
      <4> QED BY <3>1, <4>1
    <3>4. CASE j > i
      <4>1. t[j] = s[j + 1] /\ j + 1 \in DOMAIN s /\ j + 1 < k + 1
        BY <1>0, <1>4, <3>4
      <4> QED BY <3>1, <4>1
    <3> QED BY <1>0, <3>2, <3>3, <3>4
  <2> QED BY <1>0, <2>1, <2>2, <2>3
<1> QED BY <1>1, <1>2, <1>3, <1>4

------------------------------------------------------------------------------
(* The invariant. *)

\* No two allocations start at the same place.
OneHolder == \A m, n \in live : m.ptr = n.ptr => m = n

\* The block whose neighbours kfree is joining is free.
JoiningFree == joining # 0 => list[joining].free

\* Tiled says where each block starts in terms of the one before it, which is not enough
\* to tell blocks further apart; an allocation can be given back to one block only.
Inv == TypeOK /\ Chain(list) /\ InUseIsHeld /\ OneHolder /\ JoiningFree

LEMMA InitInv == Init => Inv
<1> SUFFICES ASSUME Init PROVE Inv
  OBVIOUS
<1> DEFINE b == [at |-> HEAP_START, size |-> HEAP_END - HEAP_START - Header, free |-> TRUE]
<1>1. b \in Block /\ b.at = HEAP_START /\ b.size = HEAP_END - HEAP_START - Header /\ b.free
  BY KHeapAssumption DEF Block
<1>2. list = <<b>> /\ joining = 0 /\ live = {} /\ order = <<>> /\ lifo = TRUE
  BY DEF Init
<1> HIDE DEF b
<1>3. list \in Seq(Block) /\ Len(list) = 1 /\ list[1] = b /\ DOMAIN list = {1}
  BY <1>1, <1>2
<1>4. TypeOK
  BY <1>2, <1>3 DEF TypeOK
<1>5. Chain(list)
  <2>1. After(b) = HEAP_END
    BY <1>1, KHeapAssumption DEF After
  <2> QED BY <1>1, <1>3, <2>1 DEF Chain
<1>6. InUseIsHeld
  BY <1>1, <1>2, <1>3 DEF InUseIsHeld
<1> QED BY <1>2, <1>4, <1>5, <1>6 DEF Inv, OneHolder, JoiningFree

------------------------------------------------------------------------------
(* kmalloc. *)

\* T is the list with block i taken, and what it had to spare split off as block i + 1.
TakenAt(T, i, need) ==
  \E d \in {0, 1} :
    /\ Len(T) = Len(list) + d
    /\ \A k \in 1..(i - 1) : T[k] = list[k]
    /\ /\ Payload(T[i]) = Payload(list[i]) /\ need <= T[i].size /\ ~ T[i].free
    /\ d = 1 => T[i + 1].free
    /\ \A k \in (i + 1)..Len(list) : T[k + d] = list[k]

\* What kmalloc makes of the list: the block in use, and perhaps a free remainder.
LEMMA TakenKeeps ==
  ASSUME TypeOK, Chain(list), NEW i \in DOMAIN list, NEW need \in Nat,
         list[i].free, need <= list[i].size
  PROVE  /\ Taken(i, need) \in Seq(Block) /\ Taken(i, need) # <<>>
         /\ Chain(Taken(i, need))
         /\ TakenAt(Taken(i, need), i, need)
PROOF
<1> DEFINE b == list[i]
           T == Taken(i, need)
<1>0. /\ list \in Seq(Block) /\ list # <<>> /\ i \in 1..Len(list) /\ Len(list) \in Nat \ {0}
      /\ DOMAIN list = 1..Len(list)
  BY DEF TypeOK
<1>1. /\ b \in Block /\ b.at \in HEAP_START..HEAP_END /\ b.size \in 0..(HEAP_END - HEAP_START)
      /\ b.free
  BY <1>0, OneBlock
<1>2. After(b) <= HEAP_END /\ After(b) = b.at + Header + b.size
  BY <1>0, InHeap, OneBlock
<1>3. CASE b.size - need <= Header + Align
  <2>1. T = [list EXCEPT ![i].free = FALSE]
    BY <1>3 DEF Taken
  <2> DEFINE x == [b EXCEPT !.free = FALSE]
  <2>2. x \in Block /\ x.at = b.at /\ x.size = b.size /\ x.free = FALSE
    BY <1>1 DEF Block
  <2>3. T = [list EXCEPT ![i] = x]
    BY <2>1
  <2> HIDE DEF x, T
  <2>4. /\ T \in Seq(Block) /\ Len(T) = Len(list) /\ T # <<>>
        /\ \A k \in 1..Len(list) : T[k] = IF k = i THEN x ELSE list[k]
    BY <1>0, <2>2, <2>3
  <2>5. \A k \in 1..Len(list) : T[k].at = list[k].at /\ After(T[k]) = After(list[k])
    BY <2>2, <2>4 DEF After
  <2>6. Chain(T)
    <3>1. DOMAIN T = DOMAIN list
      BY <1>0, <2>4
    <3> QED BY <1>0, <2>4, <2>5, <3>1 DEF Chain
  <2>7. /\ \A k \in 1..(i - 1) : T[k] = list[k]
        /\ Payload(T[i]) = Payload(list[i]) /\ need <= T[i].size /\ ~ T[i].free
        /\ \A k \in (i + 1)..Len(list) : T[k + 0] = list[k]
    BY <1>0, <2>2, <2>4 DEF Payload
  <2>8. TakenAt(T, i, need)
    <3>1. 0 \in {0, 1} /\ Len(T) = Len(list) + 0
      BY <1>0, <2>4
    <3> QED BY <2>7, <3>1 DEF TakenAt
  <2> QED BY <2>4, <2>6, <2>8 DEF T
<1>4. CASE ~ (b.size - need <= Header + Align)
  <2> DEFINE x == [b EXCEPT !.size = need, !.free = FALSE]
             y == [at |-> Payload(b) + need, size |-> b.size - need - Header, free |-> TRUE]
             u == [list EXCEPT ![i] = x]
  <2>1. T = InsertAt(u, i + 1, y)
    BY <1>4 DEF Taken
  <2>2. x \in Block /\ x.at = b.at /\ x.size = need /\ x.free = FALSE
    <3>1. need \in 0..(HEAP_END - HEAP_START)
      BY <1>1, KHeapAssumption
    <3> QED BY <1>1, <3>1 DEF Block
  <2>3. y.at = b.at + Header + need /\ y.size = b.size - need - Header /\ y.free = TRUE
    BY DEF Payload
  <2>4. y \in Block
    <3>1. b.at + Header + need \in HEAP_START..HEAP_END
      BY <1>1, <1>2, KHeapAssumption
    <3>2. b.size - need - Header \in 0..(HEAP_END - HEAP_START)
      BY <1>1, <1>4, KHeapAssumption
    <3> QED BY <3>1, <3>2 DEF Block, Payload
  <2>5. After(x) = y.at /\ After(y) = After(b)
    BY <1>1, <2>2, <2>3, KHeapAssumption DEF After
  <2> HIDE DEF x, y, T
  <2>6. /\ u \in Seq(Block) /\ Len(u) = Len(list)
        /\ \A k \in 1..Len(list) : u[k] = IF k = i THEN x ELSE list[k]
    BY <1>0, <2>2
  <2> HIDE DEF u
  <2>7. /\ T \in Seq(Block) /\ Len(T) = Len(list) + 1
        /\ \A k \in 1..(Len(list) + 1) :
             T[k] = IF k < i + 1 THEN u[k] ELSE IF k = i + 1 THEN y ELSE u[k - 1]
    <3>1. i + 1 \in 1..(Len(u) + 1)
      BY <1>0, <2>6
    <3> DEFINE p == i + 1
    <3> HIDE DEF p
    <3>2. /\ InsertAt(u, p, y) \in Seq(Block) /\ Len(InsertAt(u, p, y)) = Len(u) + 1
          /\ \A k \in 1..(Len(u) + 1) :
               InsertAt(u, p, y)[k] = IF k < p THEN u[k] ELSE IF k = p THEN y ELSE u[k - 1]
      <4>1. u \in Seq(Block) /\ y \in Block /\ p \in 1..(Len(u) + 1)
        BY <2>4, <2>6, <3>1 DEF p
      <4> QED BY <4>1, Inserted
    <3>3. T = InsertAt(u, p, y) /\ Len(u) = Len(list)
      BY <2>1, <2>6 DEF p
    <3>4. /\ T \in Seq(Block) /\ Len(T) = Len(list) + 1
          /\ \A k \in 1..(Len(list) + 1) :
               T[k] = IF k < p THEN u[k] ELSE IF k = p THEN y ELSE u[k - 1]
      BY <3>2, <3>3
    <3> QED BY <3>4 DEF p
  <2>8. \A k \in 1..(Len(list) + 1) :
          T[k] = IF k < i THEN list[k] ELSE IF k = i THEN x
                 ELSE IF k = i + 1 THEN y ELSE list[k - 1]
    <3> TAKE k \in 1..(Len(list) + 1)
    <3>1. CASE k < i + 1
      <4>1. T[k] = u[k] /\ k \in 1..Len(list)
        BY <1>0, <2>7, <3>1
      <4> QED BY <1>0, <2>6, <3>1, <4>1
    <3>2. CASE k = i + 1
      BY <1>0, <2>7, <3>2
    <3>3. CASE k > i + 1
      <4>1. T[k] = u[k - 1] /\ k - 1 \in 1..Len(list) /\ k - 1 # i
        BY <1>0, <2>7, <3>3
      <4>2. u[k - 1] = list[k - 1]
        BY <2>6, <4>1
      <4> QED BY <1>0, <3>3, <4>1, <4>2
    <3> QED BY <1>0, <3>1, <3>2, <3>3
  <2>9. Chain(T)
    BY <1>0, <2>2, <2>4, <2>5, <2>7, <2>8, SplitChain
  <2>10. /\ \A k \in 1..(i - 1) : T[k] = list[k]
         /\ T[i] = x /\ T[i + 1] = y /\ T # <<>>
    BY <1>0, <2>7, <2>8
  <2>11. ASSUME NEW k \in (i + 1)..Len(list) PROVE T[k + 1] = list[k]
    <3>1. k + 1 \in 1..(Len(list) + 1) /\ ~ (k + 1 < i) /\ k + 1 # i /\ k + 1 # i + 1
          /\ (k + 1) - 1 = k
      BY <1>0
    <3>2. T[k + 1] = list[(k + 1) - 1]
      BY <2>8, <3>1
    <3> QED BY <3>1, <3>2
  <2>12. Payload(T[i]) = Payload(list[i]) /\ need <= T[i].size /\ ~ T[i].free /\ T[i + 1].free
    BY <2>2, <2>3, <2>10 DEF Payload
  <2>13. TakenAt(T, i, need)
    BY <2>7, <2>10, <2>11, <2>12 DEF TakenAt
  <2> QED BY <2>7, <2>9, <2>10, <2>13 DEF T
<1> QED BY <1>3, <1>4

\* A piece of a free block touches none of those handed out.
LEMMA FreePiece ==
  ASSUME Inv, NEW i \in DOMAIN list, list[i].free, NEW n \in Nat, n <= list[i].size,
         NEW m \in live
  PROVE  /\ m.ptr # Payload(list[i])
         /\ Payload(list[i]) + n <= m.ptr \/ m.ptr + m.size <= Payload(list[i])
<1>0. /\ list \in Seq(Block) /\ Chain(list) /\ m \in Allocation
  BY DEF Inv, TypeOK
<1>1. PICK j \in DOMAIN list : ~ list[j].free /\ Payload(list[j]) = m.ptr /\ m.size <= list[j].size
  BY DEF Inv, InUseIsHeld
<1>2. i # j
  BY <1>1
<1>3. m.ptr # Payload(list[i])
  BY <1>0, <1>1, <1>2, SamePlace
<1>4. /\ m.size \in Int /\ Header \in Int /\ Header > 0 /\ m.ptr = list[j].at + Header
      /\ list[i].at \in Int /\ list[i].size \in Int /\ list[j].at \in Int /\ list[j].size \in Int
      /\ Payload(list[i]) = list[i].at + Header
      /\ After(list[i]) = list[i].at + Header + list[i].size
      /\ After(list[j]) = list[j].at + Header + list[j].size
  <2>1. m.size \in Int
    <3>1. m.size \in Request
      BY <1>0 DEF Allocation
    <3>2. Request \subseteq Nat
      BY KHeapAssumption
    <3>3. \A k \in Nat : k \in Int
      OBVIOUS
    <3> QED BY <3>1, <3>2, <3>3, Zenon
  <2>2. Header \in Int /\ Header > 0
    BY KHeapAssumption
  <2>3. /\ list[i].at \in Int /\ list[i].size \in Int
        /\ Payload(list[i]) = list[i].at + Header
        /\ After(list[i]) = list[i].at + Header + list[i].size
    BY <1>0, Blocks
  <2>4. /\ list[j].at \in Int /\ list[j].size \in Int
        /\ Payload(list[j]) = list[j].at + Header
        /\ After(list[j]) = list[j].at + Header + list[j].size
    BY <1>0, Blocks
  <2> QED BY <1>1, <2>1, <2>2, <2>3, <2>4
<1>5. CASE i < j
  <2>1. After(list[i]) <= list[j].at
    BY <1>0, <1>5 DEF Chain
  <2>2. Payload(list[i]) + n <= m.ptr
    BY <1>4, <2>1
  <2> QED BY <1>3, <2>2
<1>6. CASE j < i
  <2>1. After(list[j]) <= list[i].at
    BY <1>0, <1>6 DEF Chain
  <2>2. m.ptr + m.size <= Payload(list[i])
    BY <1>1, <1>4, <2>1
  <2> QED BY <1>3, <2>2
<1>7. i < j \/ j < i
  BY <1>0, <1>2
<1> QED BY <1>5, <1>6, <1>7

LEMMA KmallocStep ==
  ASSUME Inv, NEW n \in Request, Kmalloc(n)
  PROVE  Inv' /\ Pieces!Malloc
<1>0. /\ list \in Seq(Block) /\ list # <<>> /\ Chain(list) /\ DOMAIN list = 1..Len(list)
      /\ TypeOK /\ InUseIsHeld /\ OneHolder
  BY DEF Inv, TypeOK
<1> DEFINE need == Rounded(n)
<1>1. n \in Nat /\ need \in Nat /\ n <= need
  BY RoundsUp, KHeapAssumption
<1> HIDE DEF need
<1>2. PICK i \in DOMAIN list :
        /\ Fits(i, need)
        /\ list' = Taken(i, need)
        /\ live' = live \cup {[ptr |-> Payload(list[i]), size |-> n]}
        /\ order' = (IF lifo THEN Append(order, Payload(list[i])) ELSE <<>>)
  BY DEF Kmalloc, need
<1>3. joining = 0 /\ joining' = 0 /\ lifo' = lifo
  BY DEF Kmalloc
<1>4. list[i].free /\ need <= list[i].size
  BY <1>0, <1>2, Blocks, <1>1 DEF Fits
<1>5. /\ list' \in Seq(Block) /\ list' # <<>> /\ Chain(list')
  BY <1>0, <1>1, <1>2, <1>4, TakenKeeps
<1>6. PICK d \in {0, 1} :
        /\ Len(list') = Len(list) + d
        /\ \A k \in 1..(i - 1) : list'[k] = list[k]
        /\ /\ Payload(list'[i]) = Payload(list[i]) /\ need <= list'[i].size /\ ~ list'[i].free
        /\ d = 1 => list'[i + 1].free
        /\ \A k \in (i + 1)..Len(list) : list'[k + d] = list[k]
  <2>1. TakenAt(list', i, need)
    BY <1>0, <1>1, <1>2, <1>4, TakenKeeps
  <2> QED BY <2>1, Zenon DEF TakenAt
<1> DEFINE p == Payload(list[i])
           a == [ptr |-> p, size |-> n]
<1>7. p \in HEAP_START..HEAP_END /\ p + n <= HEAP_END
  <2>1. After(list[i]) <= HEAP_END
    BY <1>0, InHeap
  <2>2. /\ list[i].at \in HEAP_START..HEAP_END /\ list[i].size \in 0..(HEAP_END - HEAP_START)
        /\ p = list[i].at + Header /\ After(list[i]) = list[i].at + Header + list[i].size
    BY <1>0, Blocks
  <2> HIDE DEF p
  <2> QED BY <1>1, <1>4, <2>1, <2>2, KHeapAssumption
<1>8. a \in Allocation /\ a.ptr = p /\ a.size = n /\ live' = live \cup {a}
  BY <1>2, <1>7 DEF Allocation
<1>9. \A m \in live : m.ptr # p /\ (p + n <= m.ptr \/ m.ptr + m.size <= p)
  <2>1. n <= list[i].size
    BY <1>0, <1>1, <1>4, Blocks
  <2> QED BY <1>1, <1>4, <2>1, FreePiece
<1>10. TypeOK'
  <2>1. order' \in Seq(HEAP_START..HEAP_END)
    <3>1. order \in Seq(HEAP_START..HEAP_END)
      BY <1>0 DEF TypeOK
    <3>2. order' = (IF lifo THEN Append(order, p) ELSE <<>>)
      BY <1>2
    <3> HIDE DEF p
    <3>3. Append(order, p) \in Seq(HEAP_START..HEAP_END)
      BY <1>7, <3>1
    <3>4. <<>> \in Seq(HEAP_START..HEAP_END)
      OBVIOUS
    <3> QED BY <3>2, <3>3, <3>4
  <2> QED BY <1>0, <1>3, <1>5, <1>8, <2>1 DEF TypeOK
<1>11. InUseIsHeld'
  <2>0. /\ DOMAIN list' = 1..Len(list') /\ d \in Int /\ Len(list) \in Nat /\ i \in 1..Len(list)
        /\ i \in DOMAIN list'
    BY <1>0, <1>5, <1>6
  <2>1. ASSUME NEW m \in live
        PROVE  \E j \in DOMAIN list' :
                 ~ list'[j].free /\ Payload(list'[j]) = m.ptr /\ m.size <= list'[j].size
    <3>1. PICK j \in DOMAIN list : /\ ~ list[j].free /\ Payload(list[j]) = m.ptr
                                   /\ m.size <= list[j].size
      BY <1>0 DEF InUseIsHeld
    <3>2. j # i
      BY <1>4, <3>1
    <3>3. CASE j < i
      <4>1. j \in DOMAIN list' /\ list'[j] = list[j]
        BY <1>0, <1>6, <2>0, <3>3
      <4> QED BY <3>1, <4>1
    <3>4. CASE j > i
      <4>1. j + d \in DOMAIN list' /\ list'[j + d] = list[j]
        BY <1>0, <1>6, <2>0, <3>4
      <4> QED BY <3>1, <4>1
    <3> QED BY <1>0, <2>0, <3>2, <3>3, <3>4
  <2>2. /\ ~ list'[i].free /\ Payload(list'[i]) = a.ptr /\ a.size <= list'[i].size
    <3>1. list'[i].size \in Int
      BY <1>5, <2>0, Blocks
    <3> QED BY <1>1, <1>6, <1>8, <3>1
  <2>3. ASSUME NEW k \in DOMAIN list', ~ list'[k].free
        PROVE  \E m \in live' : m.ptr = Payload(list'[k])
    <3>1. CASE k < i
      <4>1. k \in DOMAIN list /\ list'[k] = list[k]
        BY <1>6, <2>0, <1>0, <3>1
      <4> QED BY <1>0, <1>8, <2>3, <4>1 DEF InUseIsHeld
    <3>2. CASE k = i
      BY <1>6, <1>8, <3>2
    <3>3. CASE k > i
      <4>1. ~ (d = 1 /\ k = i + 1)
        BY <1>6, <2>3
      <4>2. k - d \in (i + 1)..Len(list) /\ (k - d) + d = k
        BY <1>6, <2>0, <3>3, <4>1
      <4>3. list'[k] = list[k - d] /\ k - d \in DOMAIN list
        BY <1>0, <1>6, <2>0, <4>2
      <4> QED BY <1>0, <1>8, <2>3, <4>3 DEF InUseIsHeld
    <3> QED BY <2>0, <3>1, <3>2, <3>3
  <2> QED BY <1>8, <2>0, <2>1, <2>2, <2>3 DEF InUseIsHeld
<1>12. OneHolder' /\ JoiningFree'
  BY <1>0, <1>3, <1>8, <1>9 DEF OneHolder, JoiningFree
<1>13. Inv'
  BY <1>5, <1>10, <1>11, <1>12 DEF Inv
<1>14. Pieces!Malloc
  <2>1. \A m \in live : m.ptr # p /\ Pieces!Apart(a, m)
    BY <1>8, <1>9 DEF Pieces!Apart
  <2> HIDE DEF p
  <2> QED BY <1>7, <1>8, <2>1 DEF Pieces!Malloc
<1> QED BY <1>13, <1>14

------------------------------------------------------------------------------
(* kfree. *)

LEMMA KfreeStep ==
  ASSUME Inv, NEW m \in live, Kfree(m)
  PROVE  Inv' /\ Pieces!Free
<1>0. /\ list \in Seq(Block) /\ list # <<>> /\ Chain(list) /\ DOMAIN list = 1..Len(list)
      /\ TypeOK /\ InUseIsHeld /\ OneHolder /\ live \subseteq Allocation
  BY DEF Inv, TypeOK
<1>1. PICK i \in DOMAIN list :
        /\ Payload(list[i]) = m.ptr
        /\ list' = [list EXCEPT ![i].free = TRUE]
        /\ joining' = i
  BY DEF Kfree
<1>2. live' = live \ {m}
  BY DEF Kfree
<1> DEFINE x == [list[i] EXCEPT !.free = TRUE]
<1>3. x \in Block /\ x.at = list[i].at /\ x.size = list[i].size /\ x.free = TRUE
  <2>1. list[i] \in Block
    BY <1>0
  <2> QED BY <2>1 DEF Block
<1>4. list' = [list EXCEPT ![i] = x]
  BY <1>1
<1> HIDE DEF x
<1>5. /\ list' \in Seq(Block) /\ Len(list') = Len(list) /\ list' # <<>>
      /\ DOMAIN list' = DOMAIN list
      /\ \A k \in 1..Len(list) : list'[k] = IF k = i THEN x ELSE list[k]
  BY <1>0, <1>3, <1>4
<1>6. Chain(list')
  <2>1. \A k \in 1..Len(list) : list'[k].at = list[k].at /\ After(list'[k]) = After(list[k])
    BY <1>3, <1>5 DEF After
  <2> QED BY <1>0, <1>5, <2>1 DEF Chain
<1>7. TypeOK'
  <2>1. order' \in Seq(HEAP_START..HEAP_END)
    <3>1. order' = (IF lifo' THEN Front(order) ELSE <<>>) /\ (lifo' => order # <<>>)
      BY DEF Kfree
    <3>2. order \in Seq(HEAP_START..HEAP_END)
      BY <1>0 DEF TypeOK
    <3>3. ASSUME order # <<>> PROVE Front(order) \in Seq(HEAP_START..HEAP_END)
      <4>1. 1 \in 1..(Len(order) + 1) /\ Len(order) - 1 \in (1 - 1)..Len(order)
        BY <3>2, <3>3
      <4>2. SubSeq(order, 1, Len(order) - 1) \in Seq(HEAP_START..HEAP_END)
        BY <3>2, <4>1, Stretch
      <4> QED BY <4>2 DEF Front
    <3>4. <<>> \in Seq(HEAP_START..HEAP_END)
      OBVIOUS
    <3> QED BY <3>1, <3>3, <3>4
  <2>2. lifo' \in BOOLEAN
    BY DEF Kfree
  <2>3. joining' \in 0..Len(list')
    BY <1>0, <1>1, <1>5
  <2> QED BY <1>0, <1>2, <1>5, <2>1, <2>2, <2>3 DEF TypeOK
<1>8. InUseIsHeld'
  <2>1. ASSUME NEW n \in live'
        PROVE  \E j \in DOMAIN list' :
                 ~ list'[j].free /\ Payload(list'[j]) = n.ptr /\ n.size <= list'[j].size
    <3>1. n \in live /\ n # m
      BY <1>2
    <3>2. PICK j \in DOMAIN list : /\ ~ list[j].free /\ Payload(list[j]) = n.ptr
                                   /\ n.size <= list[j].size
      BY <1>0, <3>1 DEF InUseIsHeld
    <3>3. j # i
      BY <1>0, <1>1, <3>1, <3>2 DEF OneHolder
    <3> QED BY <1>5, <3>2, <3>3
  <2>2. ASSUME NEW k \in DOMAIN list', ~ list'[k].free
        PROVE  \E n \in live' : n.ptr = Payload(list'[k])
    <3>1. k # i /\ k \in DOMAIN list /\ list'[k] = list[k]
      BY <1>3, <1>5, <2>2
    <3>2. PICK n \in live : n.ptr = Payload(list[k])
      BY <1>0, <2>2, <3>1 DEF InUseIsHeld
    <3>3. n # m
      BY <1>0, <1>1, <3>1, <3>2, SamePlace
    <3> QED BY <1>2, <3>1, <3>2, <3>3
  <2> QED BY <2>1, <2>2 DEF InUseIsHeld
<1>9. OneHolder' /\ JoiningFree'
  BY <1>0, <1>1, <1>2, <1>3, <1>5 DEF OneHolder, JoiningFree
<1>10. Pieces!Free
  BY <1>2 DEF Pieces!Free
<1> QED BY <1>5, <1>6, <1>7, <1>8, <1>9, <1>10 DEF Inv

\* Joining moves what follows by one place, and touches free blocks only.
LEMMA JoinStep ==
  ASSUME Inv, Join
  PROVE  /\ Inv' /\ UNCHANGED live
         /\ joining \in 1..(Len(list) - 1) /\ Len(list') = Len(list) - 1
         /\ \A k \in 1..(joining - 1) : list'[k] = list[k]
<1> DEFINE i == joining
<1>0. /\ list \in Seq(Block) /\ list # <<>> /\ Chain(list) /\ DOMAIN list = 1..Len(list)
      /\ Len(list) \in Nat /\ TypeOK /\ InUseIsHeld /\ OneHolder
  BY DEF Inv, TypeOK
<1>1. /\ i \in 1..(Len(list) - 1) /\ list[i].free /\ list[i + 1].free
      /\ i \in DOMAIN list /\ i + 1 \in DOMAIN list
  <2>1. i # 0 /\ i \in 0..Len(list) /\ i < Len(list) /\ list[i + 1].free /\ list[i].free
    BY DEF Join, JoinsNext, Inv, TypeOK, JoiningFree
  <2> QED BY <1>0, <2>1
<1> DEFINE x == [list[i] EXCEPT !.size = @ + Header + list[i + 1].size]
           u == [list EXCEPT ![i] = x]
<1>2. list' = RemoveAt(u, i + 1)
  BY DEF Join, Joined
<1>3. UNCHANGED <<joining, live, order, lifo>>
  BY DEF Join
<1> HIDE DEF i
<1>4. /\ list[i].at \in HEAP_START..HEAP_END /\ list[i].at \in Int /\ list[i].size \in Int
      /\ list[i].size \in 0..(HEAP_END - HEAP_START)
      /\ After(list[i]) = list[i].at + Header + list[i].size
  BY <1>0, <1>1, Blocks
<1>5. /\ list[i + 1].at \in Int /\ list[i + 1].size \in 0..(HEAP_END - HEAP_START)
      /\ After(list[i + 1]) = list[i + 1].at + Header + list[i + 1].size
      /\ After(list[i + 1]) <= HEAP_END
      /\ After(list[i]) = list[i + 1].at
  <2>1. After(list[i + 1]) <= HEAP_END
    BY <1>0, <1>1, InHeap
  <2>2. After(list[i]) = list[i + 1].at
    BY <1>0, <1>1 DEF Chain
  <2> QED BY <1>0, <1>1, <2>1, <2>2, Blocks
<1>6. /\ x.at = list[i].at /\ x.size = list[i].size + Header + list[i + 1].size
      /\ x.free = list[i].free
  <2>1. list[i] \in Block
    BY <1>0, <1>1
  <2> QED BY <2>1 DEF Block
<1>7. x \in Block
  <2>1. list[i].size + Header + list[i + 1].size \in 0..(HEAP_END - HEAP_START)
    BY <1>4, <1>5, KHeapAssumption
  <2>2. list[i] \in Block
    BY <1>0, <1>1
  <2> QED BY <2>1, <2>2 DEF Block
<1>8. After(x) = After(list[i + 1])
  BY <1>4, <1>5, <1>6, KHeapAssumption DEF After
<1> HIDE DEF x
<1>9. /\ u \in Seq(Block) /\ Len(u) = Len(list)
      /\ \A k \in 1..Len(list) : u[k] = IF k = i THEN x ELSE list[k]
  BY <1>0, <1>1, <1>7
<1> HIDE DEF u
<1>10. /\ list' \in Seq(Block) /\ Len(list') = Len(list) - 1
       /\ \A k \in 1..(Len(list) - 1) : list'[k] = IF k < i + 1 THEN u[k] ELSE u[k + 1]
  <2> DEFINE q == i + 1
  <2>1. q \in 1..Len(u)
    BY <1>0, <1>1, <1>9
  <2>2. list' = RemoveAt(u, q)
    BY <1>2
  <2> HIDE DEF q
  <2>3. /\ RemoveAt(u, q) \in Seq(Block) /\ Len(RemoveAt(u, q)) = Len(u) - 1
        /\ \A k \in 1..(Len(u) - 1) : RemoveAt(u, q)[k] = IF k < q THEN u[k] ELSE u[k + 1]
    BY <1>9, <2>1, Removed
  <2>4. /\ list' \in Seq(Block) /\ Len(list') = Len(list) - 1
        /\ \A k \in 1..(Len(list) - 1) : list'[k] = IF k < q THEN u[k] ELSE u[k + 1]
    BY <1>9, <2>2, <2>3
  <2> QED BY <2>4 DEF q
<1>11. \A k \in 1..(Len(list) - 1) :
         list'[k] = IF k < i THEN list[k] ELSE IF k = i THEN x ELSE list[k + 1]
  <2> TAKE k \in 1..(Len(list) - 1)
  <2>1. CASE k < i + 1
    <3>1. list'[k] = u[k] /\ k \in 1..Len(list)
      BY <1>0, <1>10, <2>1
    <3> QED BY <1>0, <1>1, <1>9, <2>1, <3>1
  <2>2. CASE ~ (k < i + 1)
    <3>1. list'[k] = u[k + 1] /\ k + 1 \in 1..Len(list) /\ k + 1 # i /\ ~ (k < i) /\ k # i
      BY <1>0, <1>1, <1>10, <2>2
    <3>2. u[k + 1] = list[k + 1]
      BY <1>9, <3>1
    <3> QED BY <3>1, <3>2
  <2> QED BY <2>1, <2>2
<1>12. Chain(list')
  BY <1>0, <1>1, <1>6, <1>7, <1>8, <1>10, <1>11, JoinChain
<1>13. /\ DOMAIN list' = 1..(Len(list) - 1) /\ list' # <<>> /\ i \in DOMAIN list'
       /\ joining' \in 0..Len(list') /\ list'[i] = x
  BY <1>0, <1>1, <1>3, <1>10, <1>11 DEF i
<1>14. TypeOK'
  BY <1>0, <1>3, <1>10, <1>13 DEF TypeOK
<1>15. InUseIsHeld'
  <2>1. ASSUME NEW m \in live
        PROVE  \E j \in DOMAIN list' :
                 ~ list'[j].free /\ Payload(list'[j]) = m.ptr /\ m.size <= list'[j].size
    <3>1. PICK j \in DOMAIN list : /\ ~ list[j].free /\ Payload(list[j]) = m.ptr
                                   /\ m.size <= list[j].size
      BY <1>0 DEF InUseIsHeld
    <3>2. j # i /\ j # i + 1
      BY <1>1, <3>1
    <3>3. CASE j < i
      <4>1. j \in DOMAIN list' /\ list'[j] = list[j]
        BY <1>0, <1>1, <1>11, <1>13, <3>3
      <4> QED BY <3>1, <4>1
    <3>4. CASE j > i + 1
      <4>1. j - 1 \in 1..(Len(list) - 1) /\ ~ (j - 1 < i) /\ j - 1 # i /\ (j - 1) + 1 = j
        BY <1>0, <1>1, <3>4
      <4>2. list'[j - 1] = list[(j - 1) + 1]
        BY <1>11, <4>1
      <4>3. j - 1 \in DOMAIN list' /\ list'[j - 1] = list[j]
        BY <1>13, <4>1, <4>2
      <4> QED BY <3>1, <4>3
    <3> QED BY <1>0, <1>1, <3>2, <3>3, <3>4
  <2>2. ASSUME NEW k \in DOMAIN list', ~ list'[k].free
        PROVE  \E m \in live : m.ptr = Payload(list'[k])
    <3>1. k # i
      BY <1>1, <1>6, <1>13, <2>2
    <3>2. CASE k < i
      <4>1. k \in DOMAIN list /\ list'[k] = list[k]
        BY <1>0, <1>11, <1>13, <3>2
      <4> QED BY <1>0, <2>2, <4>1 DEF InUseIsHeld
    <3>3. CASE k > i
      <4>1. k + 1 \in DOMAIN list /\ list'[k] = list[k + 1]
        BY <1>0, <1>1, <1>11, <1>13, <3>3
      <4> QED BY <1>0, <2>2, <4>1 DEF InUseIsHeld
    <3> QED BY <1>0, <1>1, <1>13, <3>1, <3>2, <3>3
  <2> QED BY <1>3, <2>1, <2>2 DEF InUseIsHeld
<1>16. OneHolder' /\ JoiningFree'
  BY <1>0, <1>1, <1>3, <1>6, <1>13 DEF OneHolder, JoiningFree, i
<1>17. \A k \in 1..(i - 1) : list'[k] = list[k]
  BY <1>0, <1>1, <1>11
<1> QED BY <1>1, <1>3, <1>10, <1>12, <1>13, <1>14, <1>15, <1>16, <1>17 DEF Inv, i

------------------------------------------------------------------------------
(* Callers that give back in reverse order. *)

\* Then the list is a stack: the blocks in use, in the order they were handed out, and
\* one free block at most, or two while kfree joins the last one it freed with the other.
Stacked ==
  lifo =>
    /\ Len(order) <= Len(list)
    /\ Len(list) <= Len(order) + (IF joining = 0 THEN 1 ELSE 2)
    /\ joining # 0 => joining = Len(order) + 1
    /\ \A k \in 1..Len(order) : ~ list[k].free /\ Payload(list[k]) = order[k]
    /\ \A k \in (Len(order) + 1)..Len(list) : list[k].free

\* First fit takes the only free block.
LEMMA KmallocStacked ==
  ASSUME Inv, Stacked, NEW n \in Request, Kmalloc(n)
  PROVE  Stacked'
<1> SUFFICES ASSUME lifo' PROVE Stacked'
  BY DEF Stacked
<1> DEFINE need == Rounded(n)
           l == Len(order)
<1>0. /\ list \in Seq(Block) /\ list # <<>> /\ Chain(list) /\ DOMAIN list = 1..Len(list)
      /\ TypeOK /\ order \in Seq(HEAP_START..HEAP_END) /\ Len(list) \in Nat /\ l \in Nat
  BY DEF Inv, TypeOK
<1>1. joining = 0 /\ joining' = 0 /\ lifo
  BY DEF Kmalloc
<1>2. need \in Nat
  BY RoundsUp, KHeapAssumption
<1>3. PICK i \in DOMAIN list :
        /\ list[i].free /\ list[i].size >= need
        /\ list' = Taken(i, need)
        /\ order' = Append(order, Payload(list[i]))
  BY <1>1 DEF Kmalloc, Fits
<1>4. /\ l <= Len(list) /\ Len(list) <= l + 1
      /\ \A k \in 1..l : ~ list[k].free /\ Payload(list[k]) = order[k]
  BY <1>1 DEF Stacked
<1>5. i = l + 1 /\ Len(list) = i
  <2> HIDE DEF l
  <2>1. ~ (i <= l)
    BY <1>0, <1>3, <1>4
  <2> QED BY <1>0, <1>4, <2>1
<1> HIDE DEF need
<1>6. PICK d \in {0, 1} :
        /\ Len(list') = Len(list) + d
        /\ \A k \in 1..(i - 1) : list'[k] = list[k]
        /\ Payload(list'[i]) = Payload(list[i]) /\ ~ list'[i].free
        /\ d = 1 => list'[i + 1].free
  <2>1. need <= list[i].size
    BY <1>0, <1>2, <1>3, Blocks
  <2>2. TakenAt(Taken(i, need), i, need)
    <3>1. TypeOK /\ Chain(list) /\ i \in DOMAIN list /\ need \in Nat /\ list[i].free
      BY <1>0, <1>2, <1>3
    <3> QED BY <3>1, <2>1, TakenKeeps
  <2>3. TakenAt(list', i, need)
    BY <1>3, <2>2
  <2> QED BY <2>3, Zenon DEF TakenAt
<1> DEFINE p == Payload(list[i])
<1>7. p \in HEAP_START..HEAP_END
  <2>1. After(list[i]) <= HEAP_END
    BY <1>0, InHeap
  <2>2. /\ list[i].at \in HEAP_START..HEAP_END /\ list[i].size \in 0..(HEAP_END - HEAP_START)
        /\ p = list[i].at + Header /\ After(list[i]) = list[i].at + Header + list[i].size
    BY <1>0, Blocks
  <2> HIDE DEF p
  <2> QED BY <2>1, <2>2, KHeapAssumption
<1>8. /\ Len(order') = i
      /\ \A k \in 1..i : order'[k] = IF k = i THEN p ELSE order[k]
  <2>1. order' = Append(order, p)
    BY <1>3
  <2> HIDE DEF p
  <2> QED BY <1>0, <1>5, <1>7, <2>1
<1> HIDE DEF l
<1>9. Len(order') <= Len(list') /\ Len(list') <= Len(order') + 1
  BY <1>0, <1>5, <1>6, <1>8
<1>10. ASSUME NEW k \in 1..Len(order')
       PROVE  ~ list'[k].free /\ Payload(list'[k]) = order'[k]
  <2>1. CASE k = i
    BY <1>0, <1>6, <1>8, <2>1
  <2>2. CASE k # i
    <3>1. k \in 1..(i - 1) /\ k \in 1..l
      BY <1>0, <1>5, <1>8, <2>2
    <3> QED BY <1>4, <1>6, <1>8, <2>2, <3>1
  <2> QED BY <2>1, <2>2
<1>11. ASSUME NEW k \in (Len(order') + 1)..Len(list') PROVE list'[k].free
  <2>1. k = i + 1 /\ d = 1
    BY <1>0, <1>5, <1>6, <1>8
  <2> QED BY <1>6, <2>1
<1> QED BY <1>1, <1>9, <1>10, <1>11 DEF Stacked

\* What is given back is the last block in use.
LEMMA KfreeStacked ==
  ASSUME Inv, Stacked, NEW m \in live, Kfree(m)
  PROVE  Stacked'
<1> SUFFICES ASSUME lifo' PROVE Stacked'
  BY DEF Stacked
<1> DEFINE l == Len(order)
<1>0. /\ list \in Seq(Block) /\ list # <<>> /\ Chain(list) /\ DOMAIN list = 1..Len(list)
      /\ TypeOK /\ order \in Seq(HEAP_START..HEAP_END) /\ Len(list) \in Nat /\ l \in Nat
  BY DEF Inv, TypeOK
<1>1. joining = 0 /\ lifo /\ order # <<>> /\ m.ptr = order[l] /\ order' = Front(order)
  BY DEF Kfree
<1>2. PICK i \in DOMAIN list :
        /\ Payload(list[i]) = m.ptr
        /\ list' = [list EXCEPT ![i].free = TRUE]
        /\ joining' = i
  BY DEF Kfree
<1>3. /\ l <= Len(list) /\ Len(list) <= l + 1
      /\ \A k \in 1..l : ~ list[k].free /\ Payload(list[k]) = order[k]
      /\ \A k \in (l + 1)..Len(list) : list[k].free
  BY <1>1 DEF Stacked
<1>4. l >= 1 /\ l \in 1..l /\ l \in DOMAIN list
  BY <1>0, <1>1, <1>3
<1>5. i = l
  BY <1>0, <1>1, <1>2, <1>3, <1>4, SamePlace
<1>6. Len(order') = l - 1 /\ \A k \in 1..(l - 1) : order'[k] = order[k]
  <2>1. 1 \in 1..(Len(order) + 1) /\ Len(order) - 1 \in (1 - 1)..Len(order)
    BY <1>0, <1>4
  <2>2. /\ Len(SubSeq(order, 1, Len(order) - 1)) = (Len(order) - 1) - 1 + 1
        /\ \A k \in 1..((Len(order) - 1) - 1 + 1) :
             SubSeq(order, 1, Len(order) - 1)[k] = order[1 + k - 1]
    <3>1. order \in Seq(HEAP_START..HEAP_END)
      BY <1>0
    <3> DEFINE n == Len(order) - 1
    <3>2. 1 \in 1..(Len(order) + 1) /\ n \in (1 - 1)..Len(order)
      BY <2>1
    <3> HIDE DEF n
    <3>3. /\ Len(SubSeq(order, 1, n)) = n - 1 + 1
          /\ \A k \in 1..(n - 1 + 1) : SubSeq(order, 1, n)[k] = order[1 + k - 1]
      BY <3>1, <3>2, Stretch
    <3>4. QED BY <3>3 DEF n
  <2>3. order' = SubSeq(order, 1, Len(order) - 1)
    BY <1>1 DEF Front
  <2> HIDE DEF l
  <2> QED BY <1>0, <2>2, <2>3 DEF l
<1>7. /\ Len(list') = Len(list) /\ list'[i].free
      /\ \A k \in 1..Len(list) : k # i => list'[k] = list[k]
  <2>1. list[i] \in Block
    BY <1>0
  <2> DEFINE x == [list[i] EXCEPT !.free = TRUE]
  <2>2. x.free /\ list' = [list EXCEPT ![i] = x]
    BY <1>2, <2>1 DEF Block
  <2> HIDE DEF x
  <2> QED BY <1>0, <2>2
<1> HIDE DEF l
<1>8. /\ Len(order') <= Len(list') /\ Len(list') <= Len(order') + 2
      /\ joining' # 0 /\ joining' = Len(order') + 1
  BY <1>0, <1>2, <1>3, <1>4, <1>5, <1>6, <1>7
<1>9. ASSUME NEW k \in 1..Len(order')
      PROVE  ~ list'[k].free /\ Payload(list'[k]) = order'[k]
  <2>1. k \in 1..l /\ k \in 1..Len(list) /\ k # i /\ k \in 1..(l - 1)
    BY <1>0, <1>3, <1>5, <1>6
  <2> QED BY <1>3, <1>6, <1>7, <2>1
<1>10. ASSUME NEW k \in (Len(order') + 1)..Len(list') PROVE list'[k].free
  <2>1. CASE k = i
    BY <1>7, <2>1
  <2>2. CASE k # i
    <3>1. k \in (l + 1)..Len(list) /\ k \in 1..Len(list)
      BY <1>0, <1>4, <1>5, <1>6, <1>7, <2>2
    <3> QED BY <1>3, <1>7, <2>2, <3>1
  <2> QED BY <2>1, <2>2
<1> QED BY <1>8, <1>9, <1>10 DEF Stacked

\* It is joined with the free block after it, if there is one, and with no other.
LEMMA JoinStacked ==
  ASSUME Inv, Stacked, Join \/ FreeDone
  PROVE  Stacked'
<1> SUFFICES ASSUME lifo' PROVE Stacked'
  BY DEF Stacked
<1>0. Len(list) \in Nat /\ Len(order) \in Nat
  BY DEF Inv, TypeOK
<1>1. joining # 0 /\ lifo /\ order' = order /\ lifo' = lifo
  BY DEF Join, FreeDone
<1>2. /\ Len(order) <= Len(list) /\ Len(list) <= Len(order) + 2 /\ joining = Len(order) + 1
      /\ \A k \in 1..Len(order) : ~ list[k].free /\ Payload(list[k]) = order[k]
      /\ \A k \in (Len(order) + 1)..Len(list) : list[k].free
  BY <1>1 DEF Stacked
<1>3. CASE Join
  <2>1. /\ joining \in 1..(Len(list) - 1) /\ Len(list') = Len(list) - 1 /\ Inv'
        /\ \A k \in 1..(joining - 1) : list'[k] = list[k]
    BY <1>3, JoinStep
  <2>2. joining' = joining
    BY <1>3 DEF Join
  <2>3. list'[joining].free
    BY <1>1, <2>1, <2>2 DEF Inv, JoiningFree
  <2>4. Len(list') = joining
    BY <1>0, <1>2, <2>1
  <2>5. \A k \in 1..Len(order) : ~ list'[k].free /\ Payload(list'[k]) = order[k]
    BY <1>0, <1>2, <2>1
  <2>6. \A k \in (Len(order) + 1)..Len(list') : list'[k].free
    BY <1>0, <1>2, <2>3, <2>4
  <2> QED BY <1>0, <1>1, <1>2, <2>2, <2>4, <2>5, <2>6 DEF Stacked
<1>4. CASE FreeDone
  <2>1. joining' = 0 /\ list' = list /\ ~ (joining < Len(list) /\ list[joining + 1].free)
    BY <1>4 DEF FreeDone, JoinsNext
  <2>2. ~ (joining < Len(list))
    BY <1>0, <1>2, <2>1
  <2> QED BY <1>0, <1>1, <1>2, <2>1, <2>2 DEF Stacked
<1> QED BY <1>3, <1>4

LEMMA StackedNext == Inv /\ Stacked /\ [Next]_vars => Stacked'
<1> SUFFICES ASSUME Inv, Stacked, [Next]_vars PROVE Stacked'
  OBVIOUS
<1>1. CASE UNCHANGED vars
  BY <1>1 DEF vars, Stacked
<1> QED BY <1>1, KmallocStacked, KfreeStacked, JoinStacked DEF Next

------------------------------------------------------------------------------
(* The theorems. *)

LEMMA NextInv == Inv /\ [Next]_vars => Inv' /\ [Pieces!Next]_live
<1> SUFFICES ASSUME Inv, [Next]_vars PROVE Inv' /\ [Pieces!Next]_live
  OBVIOUS
<1>1. CASE \E n \in Request : Kmalloc(n)
  BY <1>1, KmallocStep DEF Pieces!Next
<1>2. CASE \E m \in live : Kfree(m)
  BY <1>2, KfreeStep DEF Pieces!Next
<1>3. CASE Join
  BY <1>3, JoinStep
<1>4. CASE FreeDone
  <2>1. joining' = 0 /\ UNCHANGED <<list, live, order, lifo>>
    BY <1>4 DEF FreeDone
  <2>2. 0 \in 0..Len(list)
    BY DEF Inv, TypeOK
  <2> QED BY <2>1, <2>2 DEF Inv, TypeOK, Chain, InUseIsHeld, OneHolder, JoiningFree
<1>5. CASE UNCHANGED vars
  BY <1>5 DEF vars, Inv, TypeOK, Chain, InUseIsHeld, OneHolder, JoiningFree
<1> QED BY <1>1, <1>2, <1>3, <1>4, <1>5 DEF Next

\* Inv holds in every state kmalloc and kfree reach.
THEOREM Invariance == Spec => []Inv
<1> QED BY InitInv, NextInv, PTL DEF Spec

\* The list is always one of blocks within the heap, and kfree never loses its place.
THEOREM HeapTypes == Spec => []TypeOK
<1>1. Inv => TypeOK
  BY DEF Inv
<1> QED BY <1>1, Invariance, PTL

\* No byte of the heap is lost to a split or a join, and none is in two blocks.
THEOREM HeapTiled == Spec => []Tiled
<1>1. Inv => Tiled
  BY DEF Inv, Chain, Tiled
<1> QED BY <1>1, Invariance, PTL

\* A block is in use exactly while a caller of kmalloc holds it.
THEOREM HeapHeld == Spec => []InUseIsHeld
<1>1. Inv => InUseIsHeld
  BY DEF Inv
<1> QED BY <1>1, Invariance, PTL

\* What kmalloc hands out lies in the heap and is disjoint from all it handed out before.
THEOREM HeapRefines == Spec => DisjointPieces
<1>1. Init => Pieces!Init
  BY DEF Init, Pieces!Init
<1> QED BY <1>1, NextInv, Invariance, PTL DEF Spec, DisjointPieces, Pieces!Spec

\* When callers give back in reverse order and hold nothing, kfree has put the heap back
\* together: one free block, although blocks are joined in one direction only.
THEOREM WholeInTheEnd == Spec => []WholeAgain
<1>1. Init => Stacked
  BY DEF Init, Stacked
<1>2. Inv /\ Stacked => WholeAgain
  <2> SUFFICES ASSUME Inv, Stacked, lifo, live = {}, joining = 0 PROVE Len(list) = 1
    BY DEF WholeAgain
  <2>1. Len(order) \in Nat /\ Len(list) \in Nat /\ Len(list) # 0 /\ DOMAIN list = 1..Len(list)
    BY DEF Inv, TypeOK
  <2>2. /\ Len(order) <= Len(list) /\ Len(list) <= Len(order) + 1
        /\ \A k \in 1..Len(order) : ~ list[k].free
    BY DEF Stacked
  <2>3. \A k \in DOMAIN list : list[k].free
    BY DEF Inv, InUseIsHeld
  <2>4. Len(order) = 0
    BY <2>1, <2>2, <2>3
  <2> QED BY <2>1, <2>2, <2>4
<1> QED BY <1>1, <1>2, StackedNext, Invariance, PTL DEF Spec
==============================================================================
