------------------------------- MODULE FatProofs -------------------------------
(* Theorems about FatEntry, for every base, sector size and table, and about Fat12,
   for every volume, set of names and number of failures and restarts.          *)
EXTENDS Fat12, FiniteSetTheorems, WellFoundedInduction, TLAPS

\* A table that holds the two bytes of entry c.
Holds(F, c) == /\ F \in [DOMAIN F -> Byte]
               /\ Offset(c) \in DOMAIN F /\ Offset(c) + 1 \in DOMAIN F

------------------------------------------------------------------------------
(* FatEntry: values and their half bytes. *)

LEMMA Digits ==
  ASSUME NEW v \in Value
  PROVE  /\ Low(v) \in Digit /\ Mid(v) \in Digit /\ High(v) \in Digit
         /\ Joined(Low(v), Mid(v), High(v)) = v
<1> DEFINE w == v \div Base
<1>0. Base \in Nat /\ Base > 1 /\ v \in Nat /\ v < Base * Base * Base
  BY FatEntryAssumption DEF Value
<1>1. w \in Nat /\ v % Base \in 0..(Base - 1) /\ v = Base * w + (v % Base)
  BY <1>0
<1>2. w < Base * Base
  <2> SUFFICES ASSUME w >= Base * Base PROVE FALSE
    BY <1>0, <1>1
  <2>1. Base * w >= Base * (Base * Base)
    BY <1>0, <1>1
  <2> QED BY <1>0, <1>1, <2>1
<1> HIDE DEF w
<1> DEFINE h == w \div Base
<1>3. h \in Nat /\ w % Base \in 0..(Base - 1) /\ w = Base * h + (w % Base)
  BY <1>0, <1>1
<1>4. h < Base
  <2> SUFFICES ASSUME h >= Base PROVE FALSE
    BY <1>0, <1>3
  <2> DEFINE k == h - Base
  <2>a. k \in Nat /\ h = Base + k
    BY <1>0, <1>3
  <2> HIDE DEF k
  <2>b. Base * h = Base * Base + Base * k /\ Base * k \in Nat /\ Base * Base \in Nat
    BY <1>0, <2>a
  <2>1. Base * h >= Base * Base
    BY <2>b
  <2> QED BY <1>0, <1>2, <1>3, <2>1
<1>5. Low(v) = v % Base /\ Mid(v) = w % Base /\ High(v) = h
  BY DEF Low, Mid, High, w
<1> HIDE DEF h
<1>6. Joined(Low(v), Mid(v), High(v)) = (v % Base) + Base * ((w % Base) + Base * h)
  BY <1>5 DEF Joined
<1>7. (w % Base) + Base * h = w
  BY <1>0, <1>3
<1>8. (v % Base) + Base * w = v
  BY <1>0, <1>1
<1>9. Joined(Low(v), Mid(v), High(v)) = v
  BY <1>6, <1>7, <1>8
<1> QED BY <1>0, <1>1, <1>3, <1>4, <1>5, <1>9 DEF Digit

\* Neighbouring entries share at most one byte: the second of an even entry and the first
\* of the odd one after it.
LEMMA Apart ==
  ASSUME NEW c \in Nat, NEW d \in Nat, c # d
  PROVE  /\ Offset(c) \in Nat /\ Offset(d) \in Nat
         /\ Offset(c) # Offset(d)
         /\ Offset(c) = Offset(d) + 1 => ~ Odd(d) /\ Odd(c)
         /\ Offset(c) + 1 # Offset(d) + 1
         /\ Offset(c) + 1 = Offset(d) => ~ Odd(c) /\ Odd(d)
  BY DEF Offset, Odd

------------------------------------------------------------------------------
(* FatEntry: what fat_set writes. *)

LEMMA FirstByte ==
  ASSUME NEW c \in Nat, NEW F, Holds(F, c), NEW v \in Value
  PROVE  LET G == PutFirst(F, c, v)
         IN  /\ DOMAIN G = DOMAIN F /\ Holds(G, c)
             /\ \A b \in DOMAIN F : b # Offset(c) => G[b] = F[b]
             /\ Odd(c) => G[Offset(c)].lo = F[Offset(c)].lo /\ G[Offset(c)].hi = Low(v)
             /\ ~ Odd(c) => G[Offset(c)].lo = Low(v) /\ G[Offset(c)].hi = Mid(v)
<1> DEFINE o == Offset(c)
           x == IF Odd(c) THEN [F[o] EXCEPT !.hi = Low(v)] ELSE [lo |-> Low(v), hi |-> Mid(v)]
           G == PutFirst(F, c, v)
<1>1. F[o] \in Byte /\ F \in [DOMAIN F -> Byte] /\ o \in DOMAIN F
  BY DEF Holds
<1>2. Low(v) \in Digit /\ Mid(v) \in Digit
  BY Digits
<1>3. /\ x \in Byte
      /\ Odd(c) => x.lo = F[o].lo /\ x.hi = Low(v)
      /\ ~ Odd(c) => x.lo = Low(v) /\ x.hi = Mid(v)
  BY <1>1, <1>2 DEF Byte
<1>4. G = [F EXCEPT ![o] = x]
  BY DEF PutFirst
<1> HIDE DEF x, G
<1>5. /\ DOMAIN G = DOMAIN F /\ G \in [DOMAIN F -> Byte] /\ G[o] = x
      /\ \A b \in DOMAIN F : b # o => G[b] = F[b]
  BY <1>1, <1>3, <1>4
<1> QED BY <1>3, <1>5 DEF Holds, G

LEMMA SecondByte ==
  ASSUME NEW c \in Nat, NEW F, Holds(F, c), NEW v \in Value
  PROVE  LET G == PutSecond(F, c, v)
         IN  /\ DOMAIN G = DOMAIN F /\ Holds(G, c)
             /\ \A b \in DOMAIN F : b # Offset(c) + 1 => G[b] = F[b]
             /\ Odd(c) => G[Offset(c) + 1].lo = Mid(v) /\ G[Offset(c) + 1].hi = High(v)
             /\ ~ Odd(c) => /\ G[Offset(c) + 1].lo = High(v)
                            /\ G[Offset(c) + 1].hi = F[Offset(c) + 1].hi
<1> DEFINE o == Offset(c) + 1
           x == IF Odd(c) THEN [lo |-> Mid(v), hi |-> High(v)] ELSE [F[o] EXCEPT !.lo = High(v)]
           G == PutSecond(F, c, v)
<1>1. F[o] \in Byte /\ F \in [DOMAIN F -> Byte] /\ o \in DOMAIN F
  BY DEF Holds
<1>2. Mid(v) \in Digit /\ High(v) \in Digit
  BY Digits
<1>3. /\ x \in Byte
      /\ Odd(c) => x.lo = Mid(v) /\ x.hi = High(v)
      /\ ~ Odd(c) => x.lo = High(v) /\ x.hi = F[o].hi
  BY <1>1, <1>2 DEF Byte
<1>4. G = [F EXCEPT ![o] = x]
  BY DEF PutSecond
<1> HIDE DEF x, G
<1>5. /\ DOMAIN G = DOMAIN F /\ G \in [DOMAIN F -> Byte] /\ G[o] = x
      /\ \A b \in DOMAIN F : b # o => G[b] = F[b]
  BY <1>1, <1>3, <1>4
<1> QED BY <1>3, <1>5 DEF Holds, G

------------------------------------------------------------------------------
(* FatEntry: the theorems. *)

\* What fat_set stored is what fat_next_cluster returns, through the packing and the
\* masks, whether the entry is even or odd.
THEOREM ReadsWhatWasSet ==
  ASSUME NEW c \in Nat, NEW F, Holds(F, c), NEW v \in Value
  PROVE  Get(PutSecond(PutFirst(F, c, v), c, v), c) = v
<1> DEFINE G == PutFirst(F, c, v)
           H == PutSecond(G, c, v)
           o == Offset(c)
<1>0. o # o + 1 /\ o \in DOMAIN F
  BY DEF Offset, Holds
<1>1. /\ Holds(G, c) /\ DOMAIN G = DOMAIN F
      /\ Odd(c) => G[o].hi = Low(v)
      /\ ~ Odd(c) => G[o].lo = Low(v) /\ G[o].hi = Mid(v)
  BY FirstByte
<1> HIDE DEF G
<1>2. /\ \A b \in DOMAIN G : b # o + 1 => H[b] = G[b]
      /\ Odd(c) => H[o + 1].lo = Mid(v) /\ H[o + 1].hi = High(v)
      /\ ~ Odd(c) => H[o + 1].lo = High(v)
  BY <1>1, SecondByte
<1> HIDE DEF H
<1>3. H[o] = G[o]
  BY <1>0, <1>1, <1>2
<1>4. Get(H, c) = Joined(Low(v), Mid(v), High(v))
  BY <1>1, <1>2, <1>3 DEF Get
<1> QED BY <1>4, Digits DEF G, H

\* Neither byte fat_set writes changes another entry: an update, complete or broken off
\* between two sectors, leaves every neighbour as it was.
THEOREM OthersKept ==
  ASSUME NEW c \in Nat, NEW d \in Nat, c # d, NEW F, Holds(F, c), Holds(F, d), NEW v \in Value
  PROVE  Get(PutFirst(F, c, v), d) = Get(F, d) /\ Get(PutSecond(F, c, v), d) = Get(F, d)
<1> DEFINE o == Offset(c)
           p == Offset(d)
<1>0. /\ o \in Nat /\ p \in Nat /\ o # p /\ o + 1 # p + 1
      /\ o = p + 1 => ~ Odd(d) /\ Odd(c)
      /\ o + 1 = p => ~ Odd(c) /\ Odd(d)
      /\ p \in DOMAIN F /\ p + 1 \in DOMAIN F
  BY Apart DEF Holds
<1>1. Get(PutFirst(F, c, v), d) = Get(F, d)
  <2> DEFINE G == PutFirst(F, c, v)
  <2>1. /\ \A b \in DOMAIN F : b # o => G[b] = F[b]
        /\ Odd(c) => G[o].lo = F[o].lo
    BY FirstByte
  <2> HIDE DEF G
  <2>2. G[p] = F[p]
    BY <1>0, <2>1
  <2>3. ~ Odd(d) => G[p + 1].lo = F[p + 1].lo
    BY <1>0, <2>1
  <2>4. Odd(d) => G[p + 1] = F[p + 1]
    BY <1>0, <2>1
  <2>5. Get(G, d) = Get(F, d)
    BY <2>2, <2>3, <2>4 DEF Get
  <2> QED BY <2>5 DEF G
<1>2. Get(PutSecond(F, c, v), d) = Get(F, d)
  <2> DEFINE G == PutSecond(F, c, v)
  <2>1. /\ \A b \in DOMAIN F : b # o + 1 => G[b] = F[b]
        /\ ~ Odd(c) => G[o + 1].hi = F[o + 1].hi
    BY SecondByte
  <2> HIDE DEF G
  <2>2. G[p + 1] = F[p + 1]
    BY <1>0, <2>1
  <2>3. Odd(d) => G[p].hi = F[p].hi
    BY <1>0, <2>1
  <2>4. ~ Odd(d) => G[p] = F[p]
    BY <1>0, <2>1
  <2>5. Get(G, d) = Get(F, d)
    BY <2>2, <2>3, <2>4 DEF Get
  <2> QED BY <2>5 DEF G
<1> QED BY <1>1, <1>2

------------------------------------------------------------------------------
(* Fat12: the entries of the volume's tables. *)

\* Writing the first byte once more changes nothing.
LEMMA FirstByteTwice ==
  ASSUME NEW c \in Nat, NEW F, Holds(F, c), NEW v \in Value
  PROVE  PutFirst(PutFirst(F, c, v), c, v) = PutFirst(F, c, v)
<1> DEFINE o == Offset(c)
           G == PutFirst(F, c, v)
           H == PutFirst(G, c, v)
           l == Low(v)
           m == Mid(v)
<1> HIDE DEF o, l, m
<1>1. F[o] \in Byte /\ F \in [DOMAIN F -> Byte] /\ o \in DOMAIN F /\ l \in Digit /\ m \in Digit
  BY Digits DEF Holds, o, l, m
<1>2. CASE Odd(c)
  <2>1. G = [F EXCEPT ![o] = [@ EXCEPT !.hi = l]] /\ H = [G EXCEPT ![o] = [@ EXCEPT !.hi = l]]
    BY <1>2 DEF PutFirst, o, l
  <2> HIDE DEF G, H
  <2> QED BY <1>1, <2>1 DEF Byte, G, H
<1>3. CASE ~ Odd(c)
  <2>1. /\ G = [F EXCEPT ![o] = [lo |-> l, hi |-> m]]
        /\ H = [G EXCEPT ![o] = [lo |-> l, hi |-> m]]
    BY <1>3 DEF PutFirst, o, l, m
  <2> HIDE DEF G, H
  <2> QED BY <1>1, <2>1 DEF G, H
<1> QED BY <1>2, <1>3

Table == [FatByte -> Byte]

LEMMA Sizes ==
  /\ Base \in Nat /\ Base > 1 /\ Base * Base * Base \in Nat
  /\ Base * Base * Base >= 4 * Base
  /\ LastCluster \in Nat /\ LastCluster > 1
  /\ RESERVED = Base * Base * Base - Base /\ RESERVED \in Nat /\ LastCluster < RESERVED
<1>1. Base * Base \in Nat /\ Base * Base >= 4
  <2>1. Base * Base >= 2 * Base
    BY FatEntryAssumption
  <2> QED BY <2>1, FatEntryAssumption
<1> DEFINE q == Base * Base
<1>2. q \in Nat /\ q >= 4
  BY <1>1
<1> HIDE DEF q
<1>3. Base * q \in Nat /\ Base * q >= Base * 4
  <2>1. PICK k \in Nat : q = 4 + k
    <3>1. q - 4 \in Nat /\ q = 4 + (q - 4)
      BY <1>2
    <3> QED BY <3>1
  <2>2. Base * q = Base * 4 + Base * k /\ Base * k \in Nat /\ Base * 4 \in Nat
    BY <2>1, FatEntryAssumption
  <2> QED BY <2>2
<1>4. Base * Base * Base = Base * q
  BY FatEntryAssumption DEF q
<1> QED BY <1>3, <1>4, FatEntryAssumption, FatAssumption DEF RESERVED

LEMMA ClusterNat == ASSUME NEW c \in Cluster PROVE c \in Nat /\ c \in Value
BY Sizes DEF Cluster, Value

\* The ends of a chain are not followed, and what is followed off the disk is a value.
LEMMA Ends ==
  /\ FREE \in Value /\ EOC \in Value /\ FREE # EOC
  /\ FREE \notin Cluster /\ EOC \notin Cluster /\ FREE \notin Beyond /\ EOC \notin Beyond
  /\ Beyond \subseteq Value /\ Cluster \cap Beyond = {}
BY Sizes DEF FREE, EOC, Value, Cluster, Beyond

LEMMA EntryHeld ==
  ASSUME NEW F \in Table, NEW c \in Cluster
  PROVE  Holds(F, c) /\ DOMAIN F = FatByte
<1>1. Offset(2) <= Offset(c) /\ Offset(c) <= Offset(LastCluster) /\ Offset(c) \in Nat
      /\ Offset(2) \in Nat /\ Offset(LastCluster) \in Nat
  BY FatAssumption DEF Offset, Cluster
<1> QED BY <1>1 DEF Holds, Table, FatByte

LEMMA JoinedValue ==
  ASSUME NEW l \in Digit, NEW m \in Digit, NEW h \in Digit
  PROVE  Joined(l, m, h) \in Value
<1> DEFINE w == m + Base * h
<1>1. w \in Nat /\ w <= (Base - 1) + Base * (Base - 1)
  <2>1. Base * h \in Nat /\ Base * h <= Base * (Base - 1)
    BY FatEntryAssumption DEF Digit
  <2> QED BY <2>1, FatEntryAssumption DEF Digit
<1>2. w <= Base * Base - 1
  BY <1>1, FatEntryAssumption
<1> HIDE DEF w
<1>3. Base * w \in Nat /\ Base * w <= Base * (Base * Base - 1)
  BY <1>1, <1>2, FatEntryAssumption
<1>4. Base * (Base * Base - 1) = Base * Base * Base - Base
  BY FatEntryAssumption
<1>5. Joined(l, m, h) = l + Base * w
  BY DEF Joined, w
<1> QED BY <1>3, <1>4, <1>5, FatEntryAssumption DEF Digit, Value

LEMMA GetValue ==
  ASSUME NEW F \in Table, NEW c \in Cluster
  PROVE  Get(F, c) \in Value
<1>1. F[Offset(c)] \in Byte /\ F[Offset(c) + 1] \in Byte
  BY EntryHeld DEF Holds
<1> QED BY <1>1, JoinedValue DEF Get, Byte

\* One sector of fat_set: the table keeps its type and every other entry its value, and
\* the entry reads as the new value once its last byte is written.
LEMMA OneSector ==
  ASSUME NEW F \in Table, NEW w \in Setting
  PROVE  /\ Patched(F, w) \in Table
         /\ \A d \in Cluster : d # w.c => Get(Patched(F, w), d) = Get(F, d)
         /\ ~ Straddles(w.c) => Get(Patched(F, w), w.c) = w.value
         /\ Straddles(w.c) /\ w.byte = 2 /\ F = PutFirst(F, w.c, w.value)
              => Get(Patched(F, w), w.c) = w.value
         /\ Straddles(w.c) /\ w.byte = 1
              => Patched(F, w) = PutFirst(Patched(F, w), w.c, w.value)
<1> DEFINE c == w.c
           v == w.value
           G == PutFirst(F, c, v)
           H == PutSecond(G, c, v)
           K == PutSecond(F, c, v)
<1>0. c \in Cluster /\ c \in Nat /\ v \in Value /\ w.byte \in 1..2
  BY ClusterNat DEF Setting
<1> HIDE DEF c, v
<1>1. Holds(F, c) /\ DOMAIN F = FatByte
  BY <1>0, EntryHeld
<1>2. Holds(G, c) /\ DOMAIN G = FatByte
  BY <1>0, <1>1, FirstByte
<1>3. Holds(H, c) /\ DOMAIN H = FatByte
  <2> HIDE DEF G
  <2> QED BY <1>0, <1>2, SecondByte
<1>4. Holds(K, c) /\ DOMAIN K = FatByte
  BY <1>0, <1>1, SecondByte
<1>5. PutFirst(G, c, v) = G
  BY <1>0, <1>1, FirstByteTwice
<1>6. Get(H, c) = v
  BY <1>0, <1>1, ReadsWhatWasSet
<1>7. G \in Table /\ H \in Table /\ K \in Table
  <2> HIDE DEF G, H, K
  <2> QED BY <1>2, <1>3, <1>4 DEF Holds, Table
<1>8. ASSUME NEW d \in Cluster, d # c
      PROVE  Get(G, d) = Get(F, d) /\ Get(K, d) = Get(F, d) /\ Get(H, d) = Get(F, d)
  <2>1. d \in Nat /\ Holds(F, d) /\ Holds(G, d)
    BY <1>7, ClusterNat, EntryHeld
  <2>2. Get(G, d) = Get(F, d) /\ Get(K, d) = Get(F, d)
    BY <1>0, <1>1, <1>8, <2>1, OthersKept
  <2>3. Get(H, d) = Get(G, d)
    <3> HIDE DEF G
    <3> QED BY <1>0, <1>2, <1>8, <2>1, OthersKept
  <2> QED BY <2>2, <2>3
<1> HIDE DEF G, H, K
<1>9. CASE ~ Straddles(c)
  <2>1. Patched(F, w) = H
    BY <1>9 DEF Patched, G, H, c, v
  <2> QED BY <1>6, <1>7, <1>8, <1>9, <2>1 DEF c, v
<1>10. CASE Straddles(c) /\ w.byte = 1
  <2>1. Patched(F, w) = G
    BY <1>10 DEF Patched, G, c, v
  <2> QED BY <1>5, <1>7, <1>8, <1>10, <2>1 DEF c, v
<1>11. CASE Straddles(c) /\ w.byte = 2
  <2>1. Patched(F, w) = K
    BY <1>11 DEF Patched, K, c, v
  <2>2. F = PutFirst(F, c, v) => K = H
    BY DEF G, H, K
  <2> QED BY <1>6, <1>7, <1>8, <1>11, <2>1, <2>2 DEF c, v
<1> QED BY <1>0, <1>9, <1>10, <1>11 DEF c

------------------------------------------------------------------------------
(* Fat12: the locals of an operation.

   A step builds the next locals from the present ones with FreeChain, FatSet and
   Linked; what they need and keep is stated of any record of locals.            *)

Ops == [pc : Pc, name : Name \cup {NoName}, len : 0..MaxLen, slot : Slot \cup {0},
        first : Value, prev : Value, c : Value, next : Value, done : 0..MaxLen,
        then : {"alloc", "return"}, set : Setting \cup {NoSet}]

\* Where an operation is: freeing a chain, taking clusters, or anywhere in fat_write.
Freeing(o) == o.pc = "free" \/ (o.pc = "set" /\ o.set.for = "free")
Filling(o) == o.pc \in {"alloc", "zero", "stream"} \/ (o.pc = "set" /\ o.set.for # "free")
Writing(o) == Filling(o) \/ o.pc = "entry" \/ (Freeing(o) /\ o.then = "alloc")

Aimed(o) == o.name \in Name /\ o.slot \in Slot    \* the name and its slot are known

Sound(o) ==
  /\ o \in Ops
  /\ o.pc = "free" => o.c \in Cluster \cup Beyond
  /\ o.pc = "zero" => o.c \in Cluster
  /\ o.pc = "set" <=> o.set # NoSet
  /\ o.prev \in Cluster \cup {FREE}
  /\ o.pc = "set" /\ o.set.for # "free" => o.c \in Cluster
  /\ Filling(o) => o.done < o.len
  /\ Freeing(o) /\ o.then = "alloc" => o.done = 0
  /\ Writing(o) \/ o.pc = "remove" => Aimed(o)

\* p continues the fat_write of o, or is in none.
Continues(o, p) == Writing(p) => Writing(o) /\ p.name = o.name /\ p.slot = o.slot

LEMMA NoSetIsNone == NoSet \notin Setting
BY Ends DEF NoSet, Setting

LEMMA IdleSound == Sound(Idle) /\ ~ Writing(Idle) /\ Idle.set = NoSet /\ Idle.pc = "idle"
BY Ends, NoSetIsNone, FatAssumption
   DEF Sound, Idle, Ops, Pc, Freeing, Filling, Writing, NoSet, FREE

LEMMA FreeChainSound ==
  ASSUME NEW o \in Ops, o.set = NoSet, o.prev \in Cluster \cup {FREE}, NEW c \in Value,
         NEW then \in {"alloc", "return"}, then = "alloc" => o.done = 0 /\ Aimed(o)
  PROVE  /\ Sound(FreeChain(o, c, then)) /\ FreeChain(o, c, then).pc # "set"
         /\ Writing(FreeChain(o, c, then)) =>
              /\ then = "alloc"
              /\ FreeChain(o, c, then).name = o.name /\ FreeChain(o, c, then).slot = o.slot
<1>1. CASE c \in Cluster \cup Beyond
  <2> DEFINE p == [o EXCEPT !.pc = "free", !.c = c, !.then = then]
  <2>1. FreeChain(o, c, then) = p
    BY <1>1 DEF FreeChain
  <2>2. /\ p \in Ops /\ p.pc = "free" /\ p.c = c /\ p.then = then /\ p.set = NoSet
        /\ p.prev = o.prev /\ p.done = o.done /\ p.name = o.name /\ p.slot = o.slot
    BY DEF Ops, Pc
  <2> HIDE DEF p
  <2> QED BY <1>1, <2>1, <2>2 DEF Sound, Freeing, Filling, Writing, Aimed
<1>2. CASE c \notin Cluster \cup Beyond /\ then = "return"
  <2>1. FreeChain(o, c, then) = Idle
    BY <1>2 DEF FreeChain
  <2> QED BY <2>1, IdleSound
<1>3. CASE c \notin Cluster \cup Beyond /\ then = "alloc"
  <2> DEFINE p == [o EXCEPT !.pc = IF o.len > 0 THEN "alloc" ELSE "entry", !.c = FREE,
                            !.next = FREE]
  <2>1. FreeChain(o, c, then) = p
    BY <1>3 DEF FreeChain
  <2>2. /\ p \in Ops /\ p.pc = (IF o.len > 0 THEN "alloc" ELSE "entry") /\ p.set = NoSet
        /\ p.prev = o.prev /\ p.done = o.done /\ p.name = o.name /\ p.slot = o.slot
        /\ p.len = o.len
    BY Ends DEF Ops, Pc
  <2>3. o.len \in Nat
    BY FatAssumption DEF Ops
  <2> HIDE DEF p
  <2> QED BY <1>3, <2>1, <2>2, <2>3 DEF Sound, Freeing, Filling, Writing, Aimed
<1> QED BY <1>1, <1>2, <1>3

LEMMA GiveUpSound ==
  ASSUME NEW o \in Ops, o.set = NoSet, o.prev \in Cluster \cup {FREE}
  PROVE  Sound(GiveUp(o)) /\ GiveUp(o).pc # "set" /\ ~ Writing(GiveUp(o))
<1>1. o.first \in Value
  BY DEF Ops
<1> QED BY <1>1, FreeChainSound DEF GiveUp

LEMMA FatSetSound ==
  ASSUME NEW o \in Ops, o.prev \in Cluster \cup {FREE}, NEW c \in Cluster, NEW v \in Value,
         NEW caller \in {"free", "mark", "link"},
         caller = "free" => (o.then = "alloc" => o.done = 0 /\ Aimed(o)),
         caller # "free" => o.c \in Cluster /\ o.done < o.len /\ Aimed(o)
  PROVE  LET p == FatSet(o, c, v, caller)
         IN  /\ Sound(p) /\ p.pc = "set" /\ p.name = o.name /\ p.slot = o.slot
             /\ p.set.copy = 1 /\ p.set.byte = 1
             /\ Writing(p) <=> caller # "free" \/ o.then = "alloc"
<1> DEFINE w == [c |-> c, value |-> v, copy |-> 1, byte |-> 1, for |-> caller]
           p == FatSet(o, c, v, caller)
<1>1. w \in Setting /\ w.for = caller /\ w.copy = 1 /\ w.byte = 1
  BY DEF Setting, Copy
<1>2. w # NoSet
  BY <1>1, NoSetIsNone
<1>3. p = [o EXCEPT !.pc = "set", !.set = w]
  BY DEF FatSet
<1> HIDE DEF w, p
<1>4. /\ p \in Ops /\ p.pc = "set" /\ p.set = w /\ p.c = o.c /\ p.then = o.then
      /\ p.prev = o.prev /\ p.done = o.done /\ p.name = o.name /\ p.slot = o.slot
      /\ p.len = o.len
  BY <1>1, <1>3 DEF Ops, Pc
<1>5. Writing(p) <=> caller # "free" \/ o.then = "alloc"
  BY <1>1, <1>4 DEF Freeing, Filling, Writing
<1>6. Sound(p)
  BY <1>1, <1>2, <1>4 DEF Sound, Freeing, Filling, Writing, Aimed
<1> QED BY <1>1, <1>4, <1>5, <1>6 DEF p

LEMMA LinkedSound ==
  ASSUME NEW o \in Ops, o.set = NoSet, o.c \in Cluster, o.done < o.len, Aimed(o)
  PROVE  LET p == Linked(o)
         IN  Sound(p) /\ p.pc # "set" /\ p.name = o.name /\ p.slot = o.slot
<1> DEFINE n == [o EXCEPT !.first = IF @ = FREE THEN o.c ELSE @, !.prev = o.c, !.done = @ + 1]
           p == Linked(o)
<1>0. o.len \in Nat /\ o.len <= MaxLen /\ o.done \in Nat /\ MaxLen \in Nat
  BY FatAssumption DEF Ops
<1>1. /\ n \in Ops /\ n.done = o.done + 1 /\ n.len = o.len /\ n.name = o.name
      /\ n.slot = o.slot /\ n.set = NoSet /\ n.prev = o.c /\ n.first \in Value
  <2>1. o.c \in Value /\ o.first \in Value /\ o.done + 1 \in 0..MaxLen
    BY <1>0, ClusterNat DEF Ops
  <2> DEFINE f == IF o.first = FREE THEN o.c ELSE o.first
             d == o.done + 1
             k == o.c
  <2>2. f \in Value /\ k \in Value /\ d \in 0..MaxLen
    BY <2>1
  <2>3. n = [o EXCEPT !.first = f, !.prev = k, !.done = d]
    BY DEF Ops
  <2> HIDE DEF n, f, d, k
  <2>4. /\ n \in Ops /\ n.done = d /\ n.len = o.len /\ n.name = o.name
        /\ n.slot = o.slot /\ n.set = o.set /\ n.prev = k /\ n.first = f
    BY <2>2, <2>3 DEF Ops
  <2> QED BY <2>2, <2>4 DEF d, k
<1> HIDE DEF n
<1>2. CASE n.done < n.len
  <2>1. p = [n EXCEPT !.pc = "alloc"]
    BY <1>2 DEF Linked, n
  <2> HIDE DEF p
  <2>2. /\ p \in Ops /\ p.pc = "alloc" /\ p.done = n.done /\ p.len = n.len /\ p.name = n.name
        /\ p.slot = n.slot /\ p.set = NoSet /\ p.prev = n.prev
    BY <1>1, <2>1 DEF Ops, Pc
  <2>3. Sound(p) /\ p.pc # "set" /\ p.name = o.name /\ p.slot = o.slot
    BY <1>1, <1>2, <2>2 DEF Sound, Freeing, Filling, Writing, Aimed
  <2> QED BY <2>3 DEF p
<1>3. CASE ~ (n.done < n.len)
  <2>1. p = [n EXCEPT !.pc = "stream", !.c = n.first, !.done = 0]
    BY <1>3 DEF Linked, n
  <2> DEFINE f == n.first
  <2>a. f \in Value /\ 0 \in 0..MaxLen /\ p = [n EXCEPT !.pc = "stream", !.c = f, !.done = 0]
    BY <1>0, <1>1, <2>1
  <2> HIDE DEF p, f
  <2>2. /\ p \in Ops /\ p.pc = "stream" /\ p.done = 0 /\ p.len = n.len /\ p.name = n.name
        /\ p.slot = n.slot /\ p.set = NoSet /\ p.prev = n.prev
    BY <1>1, <2>a DEF Ops, Pc
  <2>3. Sound(p) /\ p.pc # "set" /\ p.name = o.name /\ p.slot = o.slot
    BY <1>0, <1>1, <2>2 DEF Sound, Freeing, Filling, Writing, Aimed
  <2> QED BY <2>3 DEF p
<1> QED BY <1>2, <1>3

------------------------------------------------------------------------------
(* Fat12: slots and clusters that are looked for. *)

\* A non-empty set of naturals has a least element.
LEMMA HasLeast ==
  ASSUME NEW S \in SUBSET Nat, S # {}
  PROVE  \E n \in S : \A m \in S : n <= m
<1> DEFINE Initial == {0..(n-1) : n \in S}
<1>1. Initial \subseteq FiniteSubsetsOf(Nat) /\ Initial # {}
  <2>1. ASSUME NEW n \in S PROVE 0..(n-1) \in SUBSET Nat /\ IsFiniteSet(0..(n-1))
    <3>1. 0 \in Int /\ n-1 \in Int /\ 0..(n-1) \in SUBSET Nat
      OBVIOUS
    <3> QED BY <3>1, FS_Interval
  <2> QED BY <2>1, Zenon DEF FiniteSubsetsOf
<1>2. PICK x \in Initial : \A y \in Initial : ~ (<<y, x>> \in StrictSubsetOrdering(Nat))
  <2>1. IsWellFoundedOn(StrictSubsetOrdering(Nat), FiniteSubsetsOf(Nat))
    BY FS_StrictSubsetOrderingWellFounded
  <2> HIDE DEF Initial
  <2> QED BY <1>1, <2>1, WFMin
<1>3. PICK n \in S : x = 0..(n-1)
  OBVIOUS
<1>4. ASSUME NEW m \in S PROVE n <= m
  <2>1. SUFFICES ASSUME m < n PROVE FALSE
    OBVIOUS
  <2>2. 0..(m-1) \in Initial /\ 0..(m-1) \subseteq 0..(n-1) /\ 0..(m-1) # 0..(n-1)
    <3>1. m \in 0..(n-1) /\ m \notin 0..(m-1)
      BY <2>1
    <3> QED BY <2>1, <3>1
  <2>3. <<0..(m-1), 0..(n-1)>> \in StrictSubsetOrdering(Nat)
    <3> DEFINE a == 0..(m-1)
               b == 0..(n-1)
    <3>1. a \in SUBSET Nat /\ b \in SUBSET Nat /\ a \subseteq b /\ a # b
      BY <2>2
    <3> HIDE DEF a, b, Initial
    <3>2. <<a, b>> \in StrictSubsetOrdering(Nat)
      BY <3>1 DEF StrictSubsetOrdering
    <3> QED BY <3>2 DEF a, b
  <2>4. 0..(m-1) \in Initial
    BY <2>2
  <2> HIDE DEF Initial
  <2>5. ~ (<<0..(m-1), 0..(n-1)>> \in StrictSubsetOrdering(Nat))
    BY <1>2, <1>3, <2>4, Zenon
  <2> QED BY <2>3, <2>5, Zenon
<1> QED BY <1>4

LEMMA LeastMember ==
  ASSUME NEW S \in SUBSET Nat, S # {}
  PROVE  Least(S) \in S /\ \A m \in S : Least(S) <= m
BY HasLeast DEF Least

\* fat_find and the search for a slot: the file itself, or the first gap.
LEMMA SlotFound ==
  ASSUME NEW n \in Name, Exists(n) \/ Unused # {}
  PROVE  /\ FindSlot(n) \in Slot
         /\ Exists(n) => FindSlot(n) \in Matches(n)
         /\ ~ Exists(n) => FindSlot(n) \in Unused /\ \A m \in Unused : FindSlot(n) <= m
<1>1. Slot \subseteq Nat /\ Matches(n) \subseteq Slot /\ Unused \subseteq Slot
  BY DEF Slot, Matches, Unused, Scanned
<1>2. CASE Exists(n)
  <2>1. Least(Matches(n)) \in Matches(n)
    BY <1>1, <1>2, LeastMember DEF Exists
  <2> QED BY <1>1, <1>2, <2>1 DEF FindSlot
<1>3. CASE ~ Exists(n)
  <2>1. Least(Unused) \in Unused /\ \A m \in Unused : Least(Unused) <= m
    BY <1>1, <1>3, LeastMember
  <2> QED BY <1>1, <1>3, <2>1 DEF FindSlot
<1> QED BY <1>2, <1>3

LEMMA ClusterFound ==
  ASSUME FreeClusters # {}
  PROVE  Least(FreeClusters) \in Cluster
<1>1. FreeClusters \subseteq Cluster /\ FreeClusters \in SUBSET Nat
  BY DEF FreeClusters, Cluster
<1> QED BY <1>1, LeastMember

------------------------------------------------------------------------------
(* Fat12: types. *)

Volume ==
  /\ fat \in [Copy -> Table]
  /\ dir \in [Slot -> Entry]
  /\ data \in [Cluster -> Name \cup {Zero}]
  /\ torn \subseteq Cluster /\ astray \in BOOLEAN
  /\ faults \in 0..MaxFaults /\ crashes \in 0..MaxCrashes
  /\ written \in [Name -> SUBSET (0..MaxLen)] /\ clean \in BOOLEAN

LEMMA Typed == Volume /\ Sound(op) => TypeOK
BY DEF Volume, Sound, Ops, Table, TypeOK

LEMMA FatValue ==
  ASSUME Volume, NEW k \in Copy, NEW c \in Cluster
  PROVE  fat[k] \in Table /\ Get(fat[k], c) \in Value
BY GetValue DEF Volume

LEMMA FatGetValue == ASSUME Volume, NEW c \in Cluster PROVE FatGet(c) \in Value
<1>1. 1 \in Copy
  BY DEF Copy
<1> QED BY <1>1, FatValue DEF FatGet

\* The caller of fat_set goes on.
LEMMA ReturnsSound ==
  ASSUME Sound(op), op.pc = "set", NEW ok \in BOOLEAN
  PROVE  /\ Sound(Returns(ok)) /\ Returns(ok).pc # "set"
         /\ Continues(op, Returns(ok))
<1> DEFINE o == [op EXCEPT !.set = NoSet]
           p == Returns(ok)
           w == op.set
<1>0. op \in Ops /\ w \in Setting /\ w.for \in {"free", "mark", "link"} /\ op.next \in Value
      /\ op.then \in {"alloc", "return"}
  BY DEF Sound, Ops, Setting
<1>1. /\ o \in Ops /\ o.set = NoSet /\ o.pc = op.pc /\ o.name = op.name /\ o.slot = op.slot
      /\ o.prev = op.prev /\ o.c = op.c /\ o.done = op.done /\ o.len = op.len
      /\ o.next = op.next /\ o.then = op.then
  BY <1>0 DEF Ops
<1>2. op.prev \in Cluster \cup {FREE}
  BY DEF Sound
<1> HIDE DEF o
<1>3. CASE w.for = "free"
  <2>1. p = FreeChain(o, o.next, o.then)
    BY <1>3, Zenon DEF Returns, o
  <2>2. o.then = "alloc" => o.done = 0 /\ Aimed(o) /\ Writing(op)
    BY <1>1, <1>3 DEF Sound, Freeing, Writing, Aimed
  <2> HIDE DEF p
  <2>3. /\ Sound(p) /\ p.pc # "set"
        /\ Writing(p) => o.then = "alloc" /\ p.name = o.name /\ p.slot = o.slot
    BY <1>0, <1>1, <1>2, <2>1, <2>2, FreeChainSound
  <2> QED BY <1>1, <2>2, <2>3 DEF Continues, p
<1>4. w.for # "free" => o.c \in Cluster /\ o.done < o.len /\ Aimed(o) /\ Writing(op)
  BY <1>1 DEF Sound, Filling, Writing, Aimed
<1>5. CASE w.for = "link"
  <2>1. p = Linked(o)
    <3>1. "link" # "free"
      OBVIOUS
    <3> QED BY <1>5, <3>1, Zenon DEF Returns, o
  <2> HIDE DEF p
  <2>2. Sound(p) /\ p.pc # "set" /\ p.name = o.name /\ p.slot = o.slot
    BY <1>1, <1>4, <1>5, <2>1, LinkedSound
  <2> QED BY <1>1, <1>4, <1>5, <2>2 DEF Continues, p
<1>6. CASE w.for = "mark"
  <2>1. p = (IF ok THEN [o EXCEPT !.pc = "zero"] ELSE GiveUp(o))
    <3>1. "mark" # "free" /\ "mark" # "link"
      OBVIOUS
    <3> QED BY <1>6, <3>1, Zenon DEF Returns, o
  <2> HIDE DEF p
  <2>2. CASE ok
    <3>1. p = [o EXCEPT !.pc = "zero"]
      BY <2>1, <2>2
    <3>2. /\ p \in Ops /\ p.pc = "zero" /\ p.set = NoSet /\ p.name = o.name /\ p.slot = o.slot
          /\ p.prev = o.prev /\ p.c = o.c /\ p.done = o.done /\ p.len = o.len
      BY <1>1, <3>1 DEF Ops, Pc
    <3>3. Sound(p)
      BY <1>1, <1>2, <1>4, <1>6, <3>2 DEF Sound, Freeing, Filling, Writing, Aimed
    <3> QED BY <1>1, <1>4, <1>6, <3>2, <3>3 DEF Continues, p
  <2>3. CASE ~ ok
    <3>1. p = GiveUp(o)
      BY <2>1, <2>3
    <3>2. Sound(p) /\ p.pc # "set" /\ ~ Writing(p)
      BY <1>1, <1>2, <3>1, GiveUpSound
    <3> QED BY <3>2 DEF Continues, p
  <2> QED BY <2>2, <2>3
<1> QED BY <1>0, <1>3, <1>5, <1>6

\* An operation's next step is sound, goes on with the same fat_write or leaves it; a
\* step that writes the directory is the last one of it; and only fat_set writes the FAT,
\* from the first byte of the first copy on.
Fresh == op'.pc = "set" => op'.set.copy = 1 /\ op'.set.byte = 1
Kept == /\ Volume' /\ Sound(op')
        /\ Continues(op, op')
        /\ Stray \/ dir' = dir \/ ~ Writing(op')
        /\ SetSector \/ (Fresh /\ (Stray \/ fat' = fat))
        /\ Stray \/ astray' = astray

LEMMA FailsKeeps ==
  ASSUME Volume, Failed
  PROVE  /\ faults' \in 0..MaxFaults /\ crashes' \in 0..MaxCrashes /\ torn' \subseteq Cluster
         /\ written' \in [Name -> SUBSET (0..MaxLen)] /\ clean' \in BOOLEAN
<1>1. /\ faults \in Nat /\ MaxFaults \in Nat /\ faults < MaxFaults /\ faults' = faults + 1
      /\ torn' = torn /\ crashes' = crashes /\ written' = written
  BY FatAssumption DEF Volume, Failed
<1>2. clean' \in BOOLEAN
  BY DEF Failed
<1> QED BY <1>1, <1>2 DEF Volume

LEMMA SetSectorKeeps == ASSUME Volume, Sound(op), SetSector PROVE Kept
<1> DEFINE w == op.set
<1>0. op.pc = "set" /\ op \in Ops /\ w \in Setting /\ w.copy \in Copy /\ w.c \in Cluster
      /\ w.byte \in 1..2
  BY DEF SetSector, Sound, Ops, Setting
<1>1. ASSUME NEW ok \in BOOLEAN
      PROVE  Sound(Returns(ok)) /\ Continues(op, Returns(ok))
  BY <1>0, ReturnsSound
<1>2. CASE Fails /\ op' = Returns(FALSE)
  <2>1. Sound(op') /\ Continues(op, op')
    BY <1>1, <1>2
  <2>2. Volume' /\ dir' = dir /\ astray' = astray
    BY <1>2, FailsKeeps DEF Fails, Fault, disk, Volume
  <2> QED BY <2>1, <2>2 DEF Kept
<1>3. CASE /\ fat' = [fat EXCEPT ![w.copy] = Patched(@, w)]
           /\ op' = SectorDone(w)
           /\ torn' = (IF w.copy = 2 THEN torn
                       ELSE IF Straddles(w.c) /\ w.byte = 1 THEN torn \cup {w.c}
                       ELSE torn \ {w.c})
           /\ UNCHANGED <<dir, data, faults, crashes, astray, written, clean>>
  <2>1. Patched(fat[w.copy], w) \in Table
    BY <1>0, OneSector DEF Volume
  <2>2. torn' \subseteq Cluster
    BY <1>0, <1>3 DEF Volume
  <2>3. Volume' /\ dir' = dir /\ astray' = astray
    BY <1>0, <1>3, <2>1, <2>2 DEF Volume
  <2>4. ASSUME NEW b \in 1..2, NEW k \in Copy,
               op' = [op EXCEPT !.set = [w EXCEPT !.byte = b, !.copy = k]]
        PROVE  Sound(op') /\ Continues(op, op')
    <3> DEFINE z == [w EXCEPT !.byte = b, !.copy = k]
    <3>1. z \in Setting /\ z.for = w.for
      BY <1>0 DEF Setting
    <3>2. z # NoSet
      BY <3>1, NoSetIsNone
    <3>3. op' = [op EXCEPT !.set = z]
      BY <2>4
    <3> HIDE DEF z
    <3>4. /\ op' \in Ops /\ op'.set = z /\ op'.pc = op.pc /\ op'.name = op.name
          /\ op'.slot = op.slot /\ op'.prev = op.prev /\ op'.c = op.c /\ op'.done = op.done
          /\ op'.len = op.len /\ op'.then = op.then
      BY <1>0, <3>1, <3>3 DEF Ops
    <3>5. Writing(op') <=> Writing(op)
      BY <3>1, <3>4 DEF Freeing, Filling, Writing
    <3>6. Sound(op')
      BY <1>0, <3>1, <3>2, <3>4, <3>5 DEF Sound, Freeing, Filling, Aimed
    <3> QED BY <3>4, <3>5, <3>6 DEF Continues
  <2>5. Sound(op') /\ Continues(op, op')
    <3>1. CASE Straddles(w.c) /\ w.byte = 1
      <4>1. op' = [op EXCEPT !.set.byte = 2]
        BY <1>3, <3>1 DEF SectorDone
      <4>2. op' = [op EXCEPT !.set = [w EXCEPT !.byte = 2, !.copy = w.copy]]
        BY <1>0, <4>1 DEF Ops, Setting
      <4>3. 2 \in 1..2
        OBVIOUS
      <4> QED BY <1>0, <2>4, <4>2, <4>3, Zenon
    <3>2. CASE ~ (Straddles(w.c) /\ w.byte = 1) /\ w.copy = 1
      <4>1. op' = [op EXCEPT !.set.byte = 1, !.set.copy = 2]
        BY <1>3, <3>2 DEF SectorDone, LastCopy
      <4>2. op' = [op EXCEPT !.set = [w EXCEPT !.byte = 1, !.copy = 2]]
        BY <1>0, <4>1 DEF Ops, Setting
      <4>3. 1 \in 1..2 /\ 2 \in Copy
        BY DEF Copy
      <4> QED BY <2>4, <4>2, <4>3
    <3>3. CASE ~ (Straddles(w.c) /\ w.byte = 1) /\ w.copy # 1
      <4>1. op' = Returns(TRUE)
        BY <1>3, <3>3 DEF SectorDone, LastCopy
      <4> QED BY <1>1, <4>1
    <3> QED BY <3>1, <3>2, <3>3
  <2> QED BY <2>3, <2>5 DEF Kept
<1> QED BY <1>2, <1>3 DEF SetSector

LEMMA RemoveKeeps == ASSUME Volume, Sound(op), Remove PROVE Kept
<1>0. /\ op.pc = "remove" /\ op \in Ops /\ op.set = NoSet /\ op.name \in Name /\ op.slot \in Slot
      /\ op.c \in Value /\ op.prev \in Cluster \cup {FREE}
  BY DEF Remove, At, Sound, Ops, Aimed
<1>1. CASE /\ dir' = [dir EXCEPT ![op.slot] = Deleted]
           /\ written' = [written EXCEPT ![op.name] = {}]
           /\ op' = FreeChain(op, op.c, "return")
           /\ UNCHANGED <<fat, data, faults, crashes, torn, astray, clean>>
  <2>1. Sound(op') /\ ~ Writing(op') /\ Fresh
    BY <1>0, <1>1, FreeChainSound DEF Fresh
  <2>2. Deleted \in Entry
    BY DEF Deleted, End, Entry
  <2>3. Volume'
    BY <1>0, <1>1, <2>2 DEF Volume
  <2> QED BY <1>1, <2>1, <2>3 DEF Kept, Continues
<1>2. CASE Fails /\ op' = Idle
  <2>1. Volume' /\ dir' = dir /\ fat' = fat /\ astray' = astray
    BY <1>2, FailsKeeps DEF Fails, Fault, disk, Volume
  <2> QED BY <1>2, <2>1, IdleSound DEF Kept, Continues, Fresh
<1> QED BY <1>1, <1>2 DEF Remove

LEMMA FreeNextKeeps == ASSUME Volume, Sound(op), FreeNext PROVE Kept
<1>0. /\ op.pc = "free" /\ op \in Ops /\ op.c \in Cluster /\ op.prev \in Cluster \cup {FREE}
      /\ op.then = "alloc" => op.done = 0 /\ Aimed(op) /\ Writing(op)
  BY DEF FreeNext, At, Sound, Freeing, Writing
<1>1. PICK v \in Value : op' = FatSet([op EXCEPT !.next = v], op.c, FREE, "free")
  BY <1>0, Ends, FatGetValue DEF FreeNext
<1> DEFINE o == [op EXCEPT !.next = v]
<1>2. /\ o \in Ops /\ o.pc = op.pc /\ o.name = op.name /\ o.slot = op.slot /\ o.prev = op.prev
      /\ o.c = op.c /\ o.done = op.done /\ o.then = op.then
  BY <1>0 DEF Ops
<1>3. op' = FatSet(o, op.c, FREE, "free")
  BY <1>1
<1> HIDE DEF o
<1>4. o.then = "alloc" => o.done = 0 /\ Aimed(o)
  BY <1>0, <1>2 DEF Aimed
<1>5. /\ Sound(op') /\ op'.name = o.name /\ op'.slot = o.slot
      /\ Writing(op') => o.then = "alloc"
      /\ op'.set.copy = 1 /\ op'.set.byte = 1
  BY <1>0, <1>2, <1>3, <1>4, Ends, FatSetSound
<1>6. Continues(op, op')
  BY <1>0, <1>2, <1>5 DEF Continues
<1>7. Volume' /\ dir' = dir /\ fat' = fat /\ astray' = astray
  BY FailsKeeps DEF FreeNext, Fault, Works, disk, Volume
<1> QED BY <1>5, <1>6, <1>7 DEF Kept, Fresh

LEMMA AllocateKeeps == ASSUME Volume, Sound(op), Allocate PROVE Kept
<1>0. /\ op.pc = "alloc" /\ op \in Ops /\ op.prev \in Cluster \cup {FREE}
      /\ op.done < op.len /\ Aimed(op) /\ Writing(op)
  BY DEF Allocate, At, Sound, Filling, Writing
<1> DEFINE c == Least(FreeClusters)
           o == [op EXCEPT !.c = c]
<1>1. c \in Cluster /\ c \in Value
  BY ClusterFound, ClusterNat DEF Allocate
<1>2. op' = FatSet(o, c, EOC, "mark")
  BY DEF Allocate
<1> HIDE DEF c
<1>3. /\ o \in Ops /\ o.name = op.name /\ o.slot = op.slot /\ o.prev = op.prev
      /\ o.c = c /\ o.done = op.done /\ o.len = op.len
  BY <1>0, <1>1 DEF Ops
<1> HIDE DEF o
<1>4. /\ Sound(op') /\ op'.name = o.name /\ op'.slot = o.slot
      /\ op'.set.copy = 1 /\ op'.set.byte = 1
  <2> DEFINE caller == "mark"
  <2>1. caller \in {"free", "mark", "link"} /\ caller # "free"
    OBVIOUS
  <2>2. op' = FatSet(o, c, EOC, caller)
    BY <1>2
  <2>3. Aimed(o) /\ o.c \in Cluster /\ o.done < o.len /\ o.prev \in Cluster \cup {FREE}
    BY <1>0, <1>1, <1>3 DEF Aimed
  <2> HIDE DEF caller
  <2>4. EOC \in Value /\ (caller = "free" => (o.then = "alloc" => o.done = 0 /\ Aimed(o)))
    BY <2>1, Ends
  <2>5. LET p == FatSet(o, c, EOC, caller)
        IN  /\ Sound(p) /\ p.name = o.name /\ p.slot = o.slot
            /\ p.set.copy = 1 /\ p.set.byte = 1
    <3>1. /\ o \in Ops /\ o.prev \in Cluster \cup {FREE} /\ c \in Cluster /\ EOC \in Value
          /\ caller \in {"free", "mark", "link"}
          /\ caller = "free" => (o.then = "alloc" => o.done = 0 /\ Aimed(o))
          /\ caller # "free" => o.c \in Cluster /\ o.done < o.len /\ Aimed(o)
      BY <1>1, <1>3, <2>1, <2>3, <2>4
    <3> HIDE DEF o
    <3> QED BY <3>1, FatSetSound
  <2> QED BY <2>2, <2>5
<1>5. Volume' /\ dir' = dir /\ fat' = fat /\ astray' = astray
  BY DEF Allocate, Works, disk, Volume
<1> QED BY <1>0, <1>3, <1>4, <1>5 DEF Kept, Continues, Fresh

LEMMA NoSpaceKeeps == ASSUME Volume, Sound(op), NoSpace PROVE Kept
<1>0. op.pc = "alloc" /\ op \in Ops /\ op.set = NoSet /\ op.prev \in Cluster \cup {FREE}
  BY DEF NoSpace, At, Sound
<1>1. Sound(op') /\ ~ Writing(op') /\ Fresh
  BY <1>0, GiveUpSound DEF NoSpace, Fresh
<1>2. clean' \in BOOLEAN
  BY DEF NoSpace, Volume
<1>3. Volume' /\ fat' = fat /\ astray' = astray
  BY <1>2 DEF NoSpace, disk, Volume
<1> QED BY <1>1, <1>3 DEF Kept, Continues

LEMMA ZeroClusterKeeps == ASSUME Volume, Sound(op), ZeroCluster PROVE Kept
<1>0. /\ op.pc = "zero" /\ op \in Ops /\ op.set = NoSet /\ op.prev \in Cluster \cup {FREE}
      /\ op.c \in Cluster /\ op.c \in Value /\ op.done < op.len /\ Aimed(op) /\ Writing(op)
  BY ClusterNat DEF ZeroCluster, At, Sound, Filling, Writing
<1>1. CASE Fails /\ op' = GiveUp(op)
  <2>1. Sound(op') /\ ~ Writing(op') /\ Fresh
    BY <1>0, <1>1, GiveUpSound DEF Fresh
  <2>2. Volume' /\ dir' = dir /\ fat' = fat /\ astray' = astray
    BY <1>1, FailsKeeps DEF Fails, Fault, disk, Volume
  <2> QED BY <2>1, <2>2 DEF Kept, Continues
<1>2. CASE /\ Fill(op.c, Zero) /\ Works
           /\ op' = IF op.prev = FREE THEN Linked(op) ELSE FatSet(op, op.prev, op.c, "link")
  <2>1. Volume' /\ dir' = dir /\ fat' = fat /\ astray' = astray
    BY <1>0, <1>2 DEF Fill, Works, Volume
  <2>2. CASE op.prev = FREE
    <3>1. op' = Linked(op)
      BY <1>2, <2>2
    <3>2. Sound(op') /\ op'.name = op.name /\ op'.slot = op.slot /\ Fresh
      BY <1>0, <3>1, LinkedSound DEF Fresh
    <3> QED BY <1>0, <2>1, <3>2 DEF Kept, Continues
  <2>3. CASE op.prev # FREE
    <3> DEFINE c == op.prev
               v == op.c
               caller == "link"
    <3>1. op' = FatSet(op, c, v, caller)
      BY <1>2, <2>3
    <3>2. c \in Cluster /\ v \in Value /\ caller \in {"free", "mark", "link"} /\ caller # "free"
      BY <1>0, <2>3
    <3> HIDE DEF c, v, caller
    <3>3. LET p == FatSet(op, c, v, caller)
          IN  /\ Sound(p) /\ p.name = op.name /\ p.slot = op.slot
              /\ p.set.copy = 1 /\ p.set.byte = 1
      BY <1>0, <3>2, FatSetSound
    <3>4. Sound(op') /\ op'.name = op.name /\ op'.slot = op.slot /\ Fresh
      BY <3>1, <3>3 DEF Fresh
    <3> QED BY <1>0, <2>1, <3>4 DEF Kept, Continues
  <2> QED BY <2>2, <2>3
<1> QED BY <1>1, <1>2 DEF ZeroCluster

\* A step off the disk.
LEMMA ElsewhereValue == ASSUME Volume PROVE Elsewhere \subseteq Value
<1>1. 2 \in Copy
  BY DEF Copy
<1> QED BY <1>1, FatValue, Ends DEF Elsewhere

LEMMA WipedTable ==
  ASSUME NEW F \in Table, NEW c \in Cluster, NEW G \in Wiped(F, c)
  PROVE  G \in Table
<1> DEFINE H == PutFirst(F, c, FREE)
           K == PutSecond(H, c, FREE)
<1>0. Holds(F, c) /\ DOMAIN F = FatByte /\ c \in Nat /\ FREE \in Value
  BY EntryHeld, ClusterNat, Ends
<1>1. Holds(H, c) /\ DOMAIN H = FatByte
  BY <1>0, FirstByte
<1>2. Holds(K, c) /\ DOMAIN K = FatByte
  <2> HIDE DEF H
  <2> QED BY <1>0, <1>1, SecondByte
<1>3. G = H \/ G = K
  BY DEF Wiped
<1> HIDE DEF H, K
<1> QED BY <1>1, <1>2, <1>3 DEF Holds, Table

LEMMA DamagedEntry ==
  ASSUME NEW e \in Entry
  PROVE  Damaged(e) \subseteq Entry
<1>1. \A v \in Value : Cleared(v) \subseteq Value
  <2> SUFFICES ASSUME NEW v \in Value PROVE Cleared(v) \subseteq Value
    OBVIOUS
  <2>1. {0, Low(v)} \subseteq Digit /\ {0, Mid(v)} \subseteq Digit /\ {0, High(v)} \subseteq Digit
    <3>1. 0 \in Digit
      BY FatEntryAssumption DEF Digit
    <3> QED BY <3>1, Digits
  <2> SUFFICES ASSUME NEW l \in {0, Low(v)}, NEW m \in {0, Mid(v)}, NEW h \in {0, High(v)}
               PROVE  Joined(l, m, h) \in Value
    BY DEF Cleared
  <2> QED BY <2>1, JoinedValue
<1>2. End \in Entry /\ File(NoName, FREE, 0) \in Entry
  BY Ends, FatAssumption DEF End, File, Entry
<1>3. ASSUME e.kind = "file"
      PROVE  /\ \A n \in Name \cup {NoName} : File(n, e.head, e.len) \in Entry
             /\ \A h \in Cleared(e.head), len \in 0..e.len : File(e.name, h, len) \in Entry
  <2>1. e.name \in Name \cup {NoName} /\ e.head \in Value /\ e.len \in 0..MaxLen
    BY <1>3 DEF Entry
  <2>2. 0..e.len \subseteq 0..MaxLen
    BY <2>1, FatAssumption
  <2>3. Cleared(e.head) \subseteq Value
    BY <1>1, <2>1
  <2>4. \A n \in Name \cup {NoName}, h \in Value, len \in 0..MaxLen : File(n, h, len) \in Entry
    BY DEF File, Entry
  <2> QED BY <2>1, <2>2, <2>3, <2>4
<1> QED BY <1>2, <1>3 DEF Damaged

LEMMA StrayKeeps == ASSUME Volume, Sound(op), Stray PROVE Kept
<1>0. /\ op.pc = "free" /\ op \in Ops /\ op.set = NoSet /\ op.prev \in Cluster \cup {FREE}
      /\ op.then \in {"alloc", "return"}
      /\ op.then = "alloc" => op.done = 0 /\ Aimed(op) /\ Writing(op)
  BY DEF Stray, At, Sound, Ops, Freeing, Writing
<1>1. PICK next \in Value : op' = FreeChain(op, next, op.then)
  BY ElsewhereValue DEF Stray
<1>2. /\ Sound(op') /\ op'.pc # "set"
      /\ Writing(op') => op.then = "alloc" /\ op'.name = op.name /\ op'.slot = op.slot
  BY <1>0, <1>1, FreeChainSound
<1>3. Continues(op, op') /\ Fresh
  BY <1>0, <1>2 DEF Continues, Fresh
<1>4. fat' \in [Copy -> Table]
  <2>1. CASE fat' = fat
    BY <2>1 DEF Volume
  <2>2. ASSUME NEW c \in Cluster, NEW F \in Wiped(fat[2], c), fat' = [fat EXCEPT ![2] = F]
        PROVE  fat' \in [Copy -> Table]
    <3>1. fat[2] \in Table
      BY DEF Volume, Copy
    <3>2. F \in Table
      BY <3>1, WipedTable
    <3> QED BY <2>2, <3>2 DEF Volume
  <2> QED BY <2>1, <2>2 DEF Stray
<1>5. dir' \in [Slot -> Entry]
  <2>1. PICK s \in Slot : \E e \in Damaged(dir[s]) : dir' = [dir EXCEPT ![s] = e]
    BY DEF Stray
  <2>2. PICK e \in Damaged(dir[s]) : dir' = [dir EXCEPT ![s] = e]
    BY <2>1
  <2>3. dir[s] \in Entry
    BY DEF Volume
  <2>4. e \in Entry
    BY <2>3, DamagedEntry
  <2> QED BY <2>2, <2>4 DEF Volume
<1>6. /\ data' = data /\ astray' \in BOOLEAN
      /\ torn' \subseteq Cluster /\ faults' \in 0..MaxFaults /\ crashes' \in 0..MaxCrashes
      /\ written' \in [Name -> SUBSET (0..MaxLen)] /\ clean' \in BOOLEAN
  <2>1. data' = data /\ astray' = TRUE
    BY DEF Stray
  <2>2. CASE Failed
    BY <2>1, <2>2, FailsKeeps
  <2>3. CASE UNCHANGED <<faults, crashes, torn, written, clean>>
    BY <2>1, <2>3 DEF Volume
  <2> QED BY <2>2, <2>3 DEF Stray
<1>7. Volume'
  BY <1>4, <1>5, <1>6 DEF Volume
<1> QED BY <1>2, <1>3, <1>7 DEF Kept

LEMMA StreamKeeps == ASSUME Volume, Sound(op), Stream PROVE Kept
<1>0. /\ op.pc = "stream" /\ op \in Ops /\ op.set = NoSet /\ op.prev \in Cluster \cup {FREE}
      /\ op.done < op.len /\ Aimed(op) /\ Writing(op)
  BY DEF Stream, At, Sound, Filling, Writing
<1>1. ASSUME NEW c \in Value
      PROVE  /\ Sound(Payload(c)) /\ Payload(c).name = op.name /\ Payload(c).slot = op.slot
             /\ Payload(c).pc # "set"
  <2> DEFINE d == op.done + 1
             q == IF c >= 2 /\ op.done + 1 < op.len THEN "stream" ELSE "entry"
             p == Payload(c)
  <2>1. d \in 0..MaxLen /\ q \in Pc /\ (q = "stream" => d < op.len) /\ q \in {"stream", "entry"}
    BY <1>0, FatAssumption DEF Ops, Pc
  <2>2. p = [op EXCEPT !.c = c, !.done = d, !.pc = q]
    BY DEF Payload
  <2> HIDE DEF d, q, p
  <2>3. /\ p \in Ops /\ p.pc = q /\ p.set = NoSet /\ p.name = op.name /\ p.slot = op.slot
        /\ p.prev = op.prev /\ p.done = d /\ p.len = op.len
    BY <1>0, <2>1, <2>2 DEF Ops
  <2>4. Sound(p)
    BY <1>0, <2>1, <2>3 DEF Sound, Freeing, Filling, Writing, Aimed
  <2> QED BY <2>1, <2>3, <2>4 DEF p
<1>2. ASSUME NEW c \in Value, op' = Payload(c)
      PROVE  Sound(op') /\ Continues(op, op') /\ Fresh
  BY <1>0, <1>1, <1>2 DEF Continues, Fresh
<1>3. CASE op' = GiveUp(op)
  <2>1. Sound(op') /\ ~ Writing(op') /\ Fresh
    BY <1>0, <1>3, GiveUpSound DEF Fresh
  <2>2. Volume' /\ dir' = dir /\ fat' = fat /\ astray' = astray
    <3>1. CASE Fails
      BY <3>1, FailsKeeps DEF Fails, Fault, disk, Volume
    <3>2. CASE UNCHANGED disk /\ Works
      BY <3>2 DEF disk, Works, Volume
    <3>3. CASE op.c \in Cluster /\ Fill(op.c, op.name) /\ Works
      BY <1>0, <3>3 DEF Fill, Works, Aimed, Volume
    <3>4. CASE op.c \in Cluster /\ Fill(op.c, op.name) /\ Fault
      BY <1>0, <3>4, FailsKeeps DEF Fault, Fill, Aimed, Volume
    <3> QED BY <3>1, <3>2, <3>3, <3>4 DEF Stream
  <2> QED BY <2>1, <2>2 DEF Kept, Continues
<1>4. CASE op.c \in Cluster /\ Fill(op.c, op.name) /\ Works /\ op' = Payload(FatGet(op.c))
  <2>1. Sound(op') /\ Continues(op, op') /\ Fresh
    BY <1>2, <1>4, FatGetValue
  <2>2. Volume' /\ dir' = dir /\ fat' = fat /\ astray' = astray
    BY <1>0, <1>4 DEF Fill, Works, Aimed, Volume
  <2> QED BY <2>1, <2>2 DEF Kept
<1>5. CASE op.c \in Cluster /\ Fill(op.c, op.name) /\ Fault /\ op' = Payload(EOC)
  <2>1. Sound(op') /\ Continues(op, op') /\ Fresh
    BY <1>2, <1>5, Ends
  <2>2. Volume' /\ dir' = dir /\ fat' = fat /\ astray' = astray
    BY <1>0, <1>5, FailsKeeps DEF Fault, Fill, Aimed, Volume
  <2> QED BY <2>1, <2>2 DEF Kept
<1>6. CASE UNCHANGED disk /\ Works /\ \E next \in Elsewhere : op' = Payload(next)
  <2>1. Sound(op') /\ Continues(op, op') /\ Fresh
    BY <1>2, <1>6, ElsewhereValue
  <2>2. Volume' /\ dir' = dir /\ fat' = fat /\ astray' = astray
    BY <1>6 DEF disk, Works, Volume
  <2> QED BY <2>1, <2>2 DEF Kept
<1> QED BY <1>3, <1>4, <1>5, <1>6 DEF Stream

LEMMA WriteEntryKeeps == ASSUME Volume, Sound(op), WriteEntry PROVE Kept
<1>0. op.pc = "entry" /\ op \in Ops /\ Aimed(op) /\ op.first \in Value /\ op.len \in 0..MaxLen
  BY DEF WriteEntry, At, Sound, Writing, Ops
<1>1. op' = Idle /\ Sound(op') /\ ~ Writing(op') /\ Fresh
  BY IdleSound DEF WriteEntry, Fresh
<1>2. CASE Fails
  <2>1. Volume' /\ dir' = dir /\ fat' = fat /\ astray' = astray
    BY <1>2, FailsKeeps DEF Fails, Fault, disk, Volume
  <2> QED BY <1>1, <2>1 DEF Kept, Continues
<1>3. CASE /\ dir' = [dir EXCEPT ![op.slot] = File(op.name, op.first, op.len)]
           /\ written' = [written EXCEPT ![op.name] = {op.len}]
           /\ UNCHANGED <<fat, data, faults, crashes, torn, astray, clean>>
  <2>1. File(op.name, op.first, op.len) \in Entry
    BY <1>0 DEF File, Entry, Aimed
  <2>2. Volume'
    BY <1>0, <1>3, <2>1 DEF Volume, Aimed
  <2> QED BY <1>1, <1>3, <2>2 DEF Kept, Continues
<1> QED BY <1>2, <1>3 DEF WriteEntry

LEMMA CrashKeeps == ASSUME Volume, Crash PROVE Kept
<1>1. op' = Idle /\ Sound(op') /\ ~ Writing(op') /\ Fresh
  BY IdleSound DEF Crash, Fresh
<1>2. /\ crashes \in Nat /\ MaxCrashes \in Nat /\ crashes < MaxCrashes
      /\ crashes' = crashes + 1 /\ faults' = faults /\ torn' = torn /\ written' = written
  BY FatAssumption DEF Crash, Volume
<1>3. clean' \in BOOLEAN /\ crashes' \in 0..MaxCrashes
  <2>1. clean' \in BOOLEAN
    BY DEF Crash
  <2> QED BY <1>2, <2>1
<1>4. Volume' /\ fat' = fat /\ astray' = astray
  BY <1>2, <1>3 DEF Crash, disk, Volume
<1> QED BY <1>1, <1>4 DEF Kept, Continues

\* fat_write and fat_delete begin.
LEMMA StartKeeps ==
  ASSUME Volume, NEW n \in Name,
         StartDelete(n) \/ \E len \in 0..MaxLen : StartWrite(n, len)
  PROVE  /\ Volume' /\ Sound(op') /\ dir' = dir /\ fat' = fat /\ op.pc = "idle"
         /\ faults' = faults /\ crashes' = crashes /\ astray' = astray /\ op'.pc # "set"
         /\ Exists(n) \/ Unused # {}
         /\ Writing(op') => op'.name = n /\ op'.slot = FindSlot(n)
<1>1. Idle \in Ops /\ Idle.set = NoSet /\ Idle.prev = FREE /\ Idle.done = 0
  BY IdleSound DEF Sound, Idle
<1>2. /\ Volume' /\ dir' = dir /\ fat' = fat /\ op.pc = "idle"
      /\ faults' = faults /\ crashes' = crashes /\ astray' = astray
      /\ Exists(n) \/ Unused # {}
  <2>1. /\ fat' = fat /\ dir' = dir /\ data' = data /\ op.pc = "idle"
        /\ faults' = faults /\ crashes' = crashes /\ astray' = astray /\ torn' = torn
        /\ written' = written /\ clean' = clean
    BY DEF StartDelete, StartWrite, At, disk, Works
  <2>2. Exists(n) \/ Unused # {}
    BY DEF StartDelete, StartWrite
  <2> QED BY <2>1, <2>2 DEF Volume
<1>3. /\ FindSlot(n) \in Slot
      /\ dir[FindSlot(n)].head \in Value
  BY <1>2, SlotFound, Ends DEF Volume, Entry
<1> DEFINE s == FindSlot(n)
           h == dir[s].head
<1> HIDE DEF s
<1>4. CASE StartDelete(n)
  <2>1. op' = [Idle EXCEPT !.pc = "remove", !.name = n, !.slot = s, !.c = h]
    BY <1>4 DEF StartDelete, s
  <2> HIDE DEF h
  <2>2. /\ op' \in Ops /\ op'.pc = "remove" /\ op'.name = n /\ op'.slot = s /\ op'.set = NoSet
        /\ op'.prev = FREE
    BY <1>1, <1>3, <2>1 DEF Ops, Pc, s, h
  <2>3. Sound(op') /\ ~ Writing(op') /\ op'.pc # "set"
    BY <1>3, <2>2 DEF Sound, Freeing, Filling, Writing, Aimed, s
  <2> QED BY <1>2, <2>3
<1>5. ASSUME NEW len \in 0..MaxLen, StartWrite(n, len)
      PROVE  Sound(op') /\ op'.pc # "set" /\ (Writing(op') => op'.name = n /\ op'.slot = s)
  <2> DEFINE o == [Idle EXCEPT !.name = n, !.len = len, !.slot = s]
             c == IF Exists(n) THEN dir[s].head ELSE FREE
  <2>1. op' = FreeChain(o, c, "alloc")
    BY <1>5 DEF StartWrite, s
  <2>2. /\ o \in Ops /\ o.name = n /\ o.slot = s /\ o.set = NoSet /\ o.prev = FREE /\ o.done = 0
    BY <1>1, <1>3 DEF Ops, s
  <2>3. c \in Value
    BY <1>3, Ends DEF s
  <2> HIDE DEF o, c
  <2>4. Aimed(o)
    BY <1>3, <2>2 DEF Aimed, s
  <2> QED BY <2>1, <2>2, <2>3, <2>4, FreeChainSound
<1> QED BY <1>2, <1>4, <1>5 DEF s

\* Every other step.
Later == \/ SetSector \/ Remove \/ FreeNext \/ Stray \/ Allocate \/ NoSpace \/ ZeroCluster
         \/ Stream \/ WriteEntry \/ Crash

LEMMA LaterKeeps == ASSUME Volume, Sound(op), Later PROVE Kept
BY SetSectorKeeps, RemoveKeeps, FreeNextKeeps, StrayKeeps, AllocateKeeps, NoSpaceKeeps,
   ZeroClusterKeeps, StreamKeeps, WriteEntryKeeps, CrashKeeps DEF Later

LEMMA NextIs ==
  Next => \/ Later
          \/ \E n \in Name : StartDelete(n) \/ \E len \in 0..MaxLen : StartWrite(n, len)
          \/ UNCHANGED vars
BY DEF Next, Later, DirectoryFull

LEMMA TypesKept == Volume /\ Sound(op) /\ [Next]_vars => Volume' /\ Sound(op')
<1> SUFFICES ASSUME Volume, Sound(op), [Next]_vars PROVE Volume' /\ Sound(op')
  OBVIOUS
<1>1. CASE Later
  BY <1>1, LaterKeeps DEF Kept
<1>2. CASE \E n \in Name : StartDelete(n) \/ \E len \in 0..MaxLen : StartWrite(n, len)
  BY <1>2, StartKeeps
<1>3. CASE UNCHANGED vars
  BY <1>3 DEF vars, disk, Volume
<1> QED BY <1>1, <1>2, <1>3, NextIs

------------------------------------------------------------------------------
(* Fat12: the directory. *)

IsFile(s) == dir[s].kind = "file"

\* No file hides behind the end mark, and no name occurs twice.
Directory ==
  /\ \A s \in Slot : IsFile(s) => s \in Scanned /\ dir[s].name \in Name
  /\ \A s, t \in Slot : IsFile(s) /\ IsFile(t) /\ dir[s].name = dir[t].name => s = t

\* fat_write's slot: not behind the end mark, and the name is in no other one.
Chosen(n, slot) ==
  /\ \A s \in 1..slot : dir[s].kind # "end" \/ s = slot
  /\ \A s \in Slot : IsFile(s) /\ dir[s].name = n => s = slot
SlotChosen == Writing(op) => Chosen(op.name, op.slot)

LEMMA SlotNat == Slot \subseteq Nat /\ \A s \in Slot : \A t \in 1..s : t \in Slot
BY FatAssumption DEF Slot

LEMMA FoundIsChosen ==
  ASSUME Volume, Directory, NEW n \in Name, Exists(n) \/ Unused # {}
  PROVE  Chosen(n, FindSlot(n))
<1> DEFINE s == FindSlot(n)
<1>0. s \in Slot /\ s \in Nat
  BY SlotFound, SlotNat
<1>1. CASE Exists(n)
  <2>1. s \in Matches(n)
    BY <1>1, SlotFound
  <2> HIDE DEF s
  <2>2. s \in Scanned /\ IsFile(s) /\ dir[s].name = n
    BY <2>1 DEF Matches, IsFile
  <2>3. Chosen(n, s)
    BY <1>0, <2>2 DEF Chosen, Directory, Scanned
  <2> QED BY <2>3 DEF s
<1>2. CASE ~ Exists(n)
  <2>1. s \in Unused /\ \A m \in Unused : s <= m
    BY <1>2, SlotFound
  <2> HIDE DEF s
  <2>2. ASSUME NEW t \in 1..s, t # s PROVE dir[t].kind # "end"
    <3>1. t \in Slot /\ t < s
      BY <1>0, <2>2, SlotNat
    <3>2. t \notin Unused
      BY <1>0, <2>1, <3>1, SlotNat
    <3> QED BY <3>1, <3>2 DEF Unused
  <2>3. ASSUME NEW t \in Slot, IsFile(t), dir[t].name = n PROVE FALSE
    <3>1. t \in Matches(n)
      BY <2>3 DEF Directory, Matches, IsFile
    <3> QED BY <1>2, <3>1 DEF Exists
  <2>4. Chosen(n, s)
    BY <2>2, <2>3 DEF Chosen
  <2> QED BY <2>4 DEF s
<1> QED BY <1>1, <1>2

LEMMA SameDirectory ==
  ASSUME dir' = dir
  PROVE  /\ Directory => Directory'
         /\ \A n, s : Chosen(n, s) => Chosen(n, s)'
BY DEF Directory, Scanned, Chosen, IsFile

\* fat_delete's entry is marked, not emptied: the scans still pass it.
LEMMA RemoveDirectory ==
  ASSUME Volume, Sound(op), Directory, dir' = [dir EXCEPT ![op.slot] = Deleted]
  PROVE  Directory'
<1> DEFINE k == op.slot
<1>1. Deleted.kind = "deleted"
  BY DEF Deleted, End
<1>2. \A s \in Slot : dir'[s] = IF s = k THEN Deleted ELSE dir[s]
  BY DEF Volume
<1> HIDE DEF k
<1>3. ASSUME NEW s \in Slot, dir'[s].kind = "file"
      PROVE  s # k /\ dir'[s] = dir[s] /\ IsFile(s)
  BY <1>1, <1>2, <1>3 DEF IsFile
<1>4. ASSUME NEW s \in Slot, s \in Scanned PROVE s \in Scanned'
  BY <1>1, <1>2, <1>4, SlotNat DEF Scanned
<1> QED BY <1>3, <1>4 DEF Directory, IsFile

\* fat_write's entry goes where the search for its name will end.
LEMMA WriteDirectory ==
  ASSUME Volume, Sound(op), Directory, SlotChosen, Writing(op),
         dir' = [dir EXCEPT ![op.slot] = File(op.name, op.first, op.len)]
  PROVE  Directory'
<1> DEFINE k == op.slot
           n == op.name
           e == File(n, op.first, op.len)
<1>1. e.kind = "file" /\ e.name = n
  BY DEF File
<1>2. \A s \in Slot : dir'[s] = IF s = k THEN e ELSE dir[s]
  BY DEF Volume
<1>3. k \in Slot /\ n \in Name /\ Chosen(n, k)
  BY DEF Sound, Aimed, SlotChosen
<1> HIDE DEF k, n, e
<1>4. k \in Scanned'
  <2> SUFFICES ASSUME NEW t \in 1..k PROVE dir'[t].kind # "end"
    BY <1>3 DEF Scanned
  <2>1. t \in Slot
    BY <1>3, SlotNat
  <2> QED BY <1>1, <1>2, <1>3, <2>1 DEF Chosen
<1>5. ASSUME NEW s \in Slot, s \in Scanned PROVE s \in Scanned'
  <2> SUFFICES ASSUME NEW t \in 1..s PROVE dir'[t].kind # "end"
    BY DEF Scanned
  <2>1. t \in Slot /\ dir[t].kind # "end"
    BY <1>5, SlotNat DEF Scanned
  <2> QED BY <1>1, <1>2, <2>1
<1>6. ASSUME NEW s \in Slot, dir'[s].kind = "file"
      PROVE  s \in Scanned' /\ dir'[s].name \in Name
  <2>1. CASE s = k
    BY <1>1, <1>2, <1>3, <1>4, <2>1
  <2>2. CASE s # k
    <3>1. IsFile(s) /\ dir'[s] = dir[s]
      BY <1>2, <1>6, <2>2 DEF IsFile
    <3> QED BY <1>5, <3>1 DEF Directory
  <2> QED BY <2>1, <2>2
<1>7. ASSUME NEW s \in Slot, NEW t \in Slot, dir'[s].kind = "file", dir'[t].kind = "file",
             dir'[s].name = dir'[t].name
      PROVE  s = t
  <2>1. CASE s = k
    BY <1>1, <1>2, <1>3, <1>7, <2>1 DEF Chosen, IsFile
  <2>2. CASE t = k
    BY <1>1, <1>2, <1>3, <1>7, <2>2 DEF Chosen, IsFile
  <2>3. CASE s # k /\ t # k
    BY <1>2, <1>7, <2>3 DEF Directory, IsFile
  <2> QED BY <2>1, <2>2, <2>3
<1> QED BY <1>6, <1>7 DEF Directory, IsFile

------------------------------------------------------------------------------
(* Fat12: the two copies of the FAT. *)

\* fat_set half-way: the second byte of an entry is written after the first, and the
\* second copy after the first is done.
Patching ==
  op.pc = "set" =>
    LET w == op.set
    IN  /\ w.byte = 2 => Straddles(w.c) /\ fat[w.copy] = PutFirst(fat[w.copy], w.c, w.value)
        /\ w.copy = 2 => FatGet(w.c) = w.value

\* The entries no fat_set is at work on and that still differ.
Settled == {c \in Cluster : ~ (op.pc = "set" /\ op.set.c = c) /\ FatGet(c) # Get(fat[2], c)}
Agreeing == Cardinality(Settled) <= faults + crashes

LEMMA SubsetCardinality ==
  ASSUME NEW T \in SUBSET Cluster, NEW S \in SUBSET Cluster, NEW x
  PROVE  /\ Cardinality(T) \in Nat
         /\ S \subseteq T => Cardinality(S) <= Cardinality(T)
         /\ S \subseteq T \cup {x} => Cardinality(S) <= Cardinality(T) + 1
<1>1. IsFiniteSet(Cluster)
  BY FS_Interval, FatAssumption DEF Cluster
<1>2. IsFiniteSet(T) /\ Cardinality(T) \in Nat
  BY <1>1, FS_Subset, FS_CardinalityType
<1>3. S \subseteq T => Cardinality(S) <= Cardinality(T)
  BY <1>2, FS_Subset
<1>4. /\ IsFiniteSet(T \cup {x})
      /\ Cardinality(T \cup {x}) = Cardinality(T) \/ Cardinality(T \cup {x}) = Cardinality(T) + 1
  BY <1>2, FS_AddElement
<1>5. S \subseteq T \cup {x} =>
        Cardinality(S) \in Nat /\ Cardinality(S) <= Cardinality(T \cup {x})
  BY <1>4, FS_Subset, FS_CardinalityType
<1> QED BY <1>2, <1>3, <1>4, <1>5

\* One sector of fat_set: every other entry reads as before in both copies, and when the
\* last byte is written both copies hold the new value.
LEMMA SetSectorWrites ==
  ASSUME Volume, Sound(op), Patching, op.pc = "set",
         fat' = [fat EXCEPT ![op.set.copy] = Patched(@, op.set)], op' = SectorDone(op.set)
  PROVE  /\ Patching'
         /\ \A d \in Cluster, k \in Copy : d # op.set.c => Get(fat'[k], d) = Get(fat[k], d)
         /\ \/ op'.pc = "set" /\ op'.set.c = op.set.c
            \/ Get(fat'[1], op.set.c) = Get(fat'[2], op.set.c)
<1> DEFINE w == op.set
           F == fat[w.copy]
           P == Patched(F, w)
<1>0. /\ op \in Ops /\ w \in Setting /\ w.copy \in Copy /\ w.c \in Cluster /\ w.byte \in 1..2
      /\ F \in Table /\ Copy = {1, 2}
  BY DEF Sound, Ops, Setting, Volume, Copy
<1>1. /\ \A d \in Cluster : d # w.c => Get(P, d) = Get(F, d)
      /\ ~ Straddles(w.c) => Get(P, w.c) = w.value
      /\ Straddles(w.c) /\ w.byte = 2 /\ F = PutFirst(F, w.c, w.value) => Get(P, w.c) = w.value
      /\ Straddles(w.c) /\ w.byte = 1 => P = PutFirst(P, w.c, w.value)
  BY <1>0, OneSector
<1>2. \A k \in Copy : fat'[k] = IF k = w.copy THEN P ELSE fat[k]
  BY DEF Volume
<1>3. /\ w.byte = 2 => Straddles(w.c) /\ F = PutFirst(F, w.c, w.value)
      /\ w.copy = 2 => Get(fat[1], w.c) = w.value
  BY DEF Patching, FatGet
<1> HIDE DEF F, P
<1>4. \A d \in Cluster, k \in Copy : d # w.c => Get(fat'[k], d) = Get(fat[k], d)
  BY <1>1, <1>2 DEF F
<1>5. CASE Straddles(w.c) /\ w.byte = 1
  <2>1. op' = [op EXCEPT !.set.byte = 2]
    BY <1>5 DEF SectorDone
  <2>2. /\ op'.pc = "set" /\ op'.set.c = w.c /\ op'.set.value = w.value
        /\ op'.set.copy = w.copy /\ op'.set.byte = 2
    BY <1>0, <2>1 DEF Ops, Setting
  <2>3. fat'[w.copy] = P /\ (w.copy = 2 => fat'[1] = fat[1])
    BY <1>0, <1>2
  <2>4. Patching'
    BY <1>1, <1>3, <1>5, <2>2, <2>3 DEF Patching, FatGet
  <2> QED BY <1>4, <2>2, <2>4
<1>6. ~ (Straddles(w.c) /\ w.byte = 1) => Get(P, w.c) = w.value
  BY <1>0, <1>1, <1>3
<1>7. CASE ~ (Straddles(w.c) /\ w.byte = 1) /\ w.copy = 1
  <2>1. op' = [op EXCEPT !.set.byte = 1, !.set.copy = 2]
    BY <1>7 DEF SectorDone, LastCopy
  <2>2. /\ op'.pc = "set" /\ op'.set.c = w.c /\ op'.set.value = w.value
        /\ op'.set.copy = 2 /\ op'.set.byte = 1
    <3> DEFINE v == [w EXCEPT !.byte = 1, !.copy = 2]
    <3>1. op' = [op EXCEPT !.set = v]
      <4>1. op' = [op EXCEPT !.set = [@ EXCEPT !.byte = 1, !.copy = 2]]
        BY <2>1
      <4> QED BY <4>1
    <3>2. v.c = w.c /\ v.value = w.value /\ v.copy = 2 /\ v.byte = 1
      BY <1>0 DEF Setting
    <3> HIDE DEF v
    <3>3. op'.pc = op.pc /\ op'.set = v
      BY <1>0, <3>1 DEF Ops
    <3> QED BY <1>0, <3>2, <3>3
  <2>3. fat'[1] = P
    BY <1>0, <1>2, <1>7
  <2>4. Patching'
    BY <1>6, <1>7, <2>2, <2>3 DEF Patching, FatGet
  <2> QED BY <1>4, <2>2, <2>4
<1>8. CASE ~ (Straddles(w.c) /\ w.byte = 1) /\ w.copy # 1
  <2>1. op'.pc # "set"
    <3>1. TRUE \in BOOLEAN
      OBVIOUS
    <3>2. Returns(TRUE).pc # "set"
      BY <3>1, ReturnsSound
    <3>3. op' = Returns(TRUE)
      BY <1>8 DEF SectorDone, LastCopy
    <3> QED BY <3>2, <3>3
  <2>2. w.copy = 2 /\ fat'[1] = fat[1] /\ fat'[2] = P
    BY <1>0, <1>2, <1>8
  <2>3. Get(fat'[1], w.c) = Get(fat'[2], w.c)
    BY <1>3, <1>6, <1>8, <2>2
  <2>4. Patching'
    BY <2>1 DEF Patching
  <2> QED BY <1>4, <2>3, <2>4
<1> QED BY <1>5, <1>7, <1>8

LEMMA SumGrows ==
  ASSUME NEW a \in Nat, NEW b \in Nat, NEW c \in Nat, NEW d \in Nat,
         c = a \/ c = a + 1, d = b
  PROVE  c + d >= a + b
OBVIOUS

LEMMA SumNat == \A a, b \in Nat : a + b \in Nat
OBVIOUS

LEMMA OneMore ==
  ASSUME NEW a \in Nat, NEW b \in Nat, NEW n \in Nat, NEW m \in Nat,
         n <= a, (m <= n /\ b >= a) \/ (m <= n + 1 /\ b = a + 1)
  PROVE  m <= b
OBVIOUS

\* A step that leaves the FAT alone starts a fat_set or ends one: at most the entry that
\* one was at work on is left different.
LEMMA OthersAgree ==
  ASSUME Volume, Sound(op), Agreeing, fat' = fat, faults' \in Nat, crashes' \in Nat,
         \/ op.pc # "set" /\ faults' + crashes' >= faults + crashes
         \/ faults' + crashes' = faults + crashes + 1
  PROVE  Agreeing'
<1>0. faults \in Nat /\ crashes \in Nat
  BY FatAssumption DEF Volume
<1>1. Settled \in SUBSET Cluster /\ Settled' \in SUBSET Cluster
  BY DEF Settled
<1>2. Settled' \subseteq Settled \cup {op.set.c} /\ (op.pc # "set" => Settled' \subseteq Settled)
  BY DEF Settled, FatGet
<1> DEFINE n == Cardinality(Settled)
           m == Cardinality(Settled')
<1>3. n \in Nat /\ m \in Nat /\ m <= n + 1 /\ (op.pc # "set" => m <= n)
  BY <1>1, <1>2, SubsetCardinality
<1>4. n <= faults + crashes
  BY DEF Agreeing
<1> DEFINE a == faults + crashes
           b == faults' + crashes'
<1>5. a \in Nat /\ b \in Nat
  BY <1>0, SumNat, Zenon
<1>6. (m <= n /\ b >= a) \/ (m <= n + 1 /\ b = a + 1)
  <2> HIDE DEF n, m
  <2>1. CASE op.pc # "set" /\ b >= a
    BY <1>3, <2>1
  <2>2. CASE b = a + 1
    BY <1>3, <2>2
  <2> QED BY <2>1, <2>2
<1>7. m <= b
  <2>1. n <= a
    BY <1>4
  <2> HIDE DEF n, m, a, b
  <2> QED BY <1>3, <1>5, <1>6, <2>1, OneMore
<1> QED BY <1>7 DEF Agreeing

LEMMA SetSectorAgrees ==
  ASSUME Volume, Sound(op), Patching, SetSector
  PROVE  Patching' /\ (Agreeing => Agreeing')
<1> DEFINE w == op.set
<1>0. op.pc = "set" /\ Returns(FALSE).pc # "set" /\ faults \in Nat /\ crashes \in Nat
  <2>1. FALSE \in BOOLEAN /\ op.pc = "set"
    BY DEF SetSector
  <2>2. Returns(FALSE).pc # "set"
    BY <2>1, ReturnsSound
  <2>3. faults \in Nat /\ crashes \in Nat
    BY FatAssumption DEF Volume
  <2> QED BY <2>1, <2>2, <2>3
<1>1. CASE Fails /\ op' = Returns(FALSE)
  <2>1. fat' = fat /\ faults' = faults + 1 /\ crashes' = crashes
    BY <1>1 DEF Fails, Fault, Failed, disk
  <2>2. Agreeing => Agreeing'
    BY <1>0, <2>1, OthersAgree
  <2>3. Patching'
    BY <1>0, <1>1 DEF Patching
  <2> QED BY <2>2, <2>3
<1>2. CASE /\ fat' = [fat EXCEPT ![w.copy] = Patched(@, w)]
           /\ op' = SectorDone(w)
           /\ torn' = (IF w.copy = 2 THEN torn
                       ELSE IF Straddles(w.c) /\ w.byte = 1 THEN torn \cup {w.c}
                       ELSE torn \ {w.c})
           /\ UNCHANGED <<dir, data, faults, crashes, astray, written, clean>>
  <2>1. /\ Patching'
        /\ \A d \in Cluster, k \in Copy : d # w.c => Get(fat'[k], d) = Get(fat[k], d)
        /\ (op'.pc = "set" /\ op'.set.c = w.c) \/ Get(fat'[1], w.c) = Get(fat'[2], w.c)
    BY <1>0, <1>2, SetSectorWrites
  <2>2. 1 \in Copy /\ 2 \in Copy
    BY DEF Copy
  <2>3. Settled' \subseteq Settled
    BY <1>0, <2>1, <2>2 DEF Settled, FatGet
  <2>4. Settled \in SUBSET Cluster /\ Settled' \in SUBSET Cluster
    BY DEF Settled
  <2>5. Cardinality(Settled') <= Cardinality(Settled)
    BY <2>3, <2>4, SubsetCardinality
  <2>6. Cardinality(Settled) \in Nat /\ Cardinality(Settled') \in Nat
    BY <2>4, SubsetCardinality
  <2>7. faults' = faults /\ crashes' = crashes
    BY <1>2
  <2>8. Agreeing => Cardinality(Settled') <= faults' + crashes'
    BY <1>0, <2>5, <2>6, <2>7 DEF Agreeing
  <2> QED BY <2>1, <2>8 DEF Agreeing
<1> QED BY <1>1, <1>2 DEF SetSector

------------------------------------------------------------------------------
(* Fat12: the theorems. *)

\* The directory and the copies are what they should be until a chain is followed off
\* the disk.
Unspoilt == ~ astray => Directory /\ SlotChosen /\ Agreeing
Inv == Volume /\ Sound(op) /\ Patching /\ Unspoilt

LEMMA InitInv == Init => Inv
<1> SUFFICES ASSUME Init PROVE Inv
  OBVIOUS
<1>1. op.pc # "set" /\ Sound(op) /\ ~ Writing(op)
  BY IdleSound DEF Init
<1>2. Volume
  <2>1. [lo |-> 0, hi |-> 0] \in Byte /\ End \in Entry
    BY FatEntryAssumption DEF Init, Byte, Digit, End, Entry
  <2>2. clean \in BOOLEAN /\ astray \in BOOLEAN
    BY DEF Init
  <2>3. fat \in [Copy -> Table] /\ dir \in [Slot -> Entry]
    BY <2>1 DEF Init, Table
  <2> QED BY <2>2, <2>3, FatAssumption DEF Init, Volume
<1>3. Directory
  BY DEF Init, Directory, IsFile, End
<1>4. Agreeing
  <2>1. fat[1] = fat[2]
    BY DEF Init, Copy
  <2>2. Settled = {}
    BY <2>1 DEF Settled, FatGet
  <2> QED BY <2>2, FS_EmptySet DEF Init, Agreeing
<1> QED BY <1>1, <1>2, <1>3, <1>4 DEF Inv, Unspoilt, SlotChosen, Patching

LEMMA LaterPatching == ASSUME Inv, Later PROVE Patching'
<1>1. Volume /\ Sound(op) /\ Patching
  BY DEF Inv
<1>2. CASE SetSector
  BY <1>1, <1>2, SetSectorAgrees
<1>3. CASE ~ SetSector
  BY <1>1, <1>3, LaterKeeps DEF Kept, Fresh, Patching
<1> QED BY <1>2, <1>3

LEMMA LaterFound ==
  ASSUME Inv, Later, ~ Stray, ~ astray
  PROVE  Directory' /\ SlotChosen' /\ Agreeing'
<1>1. Volume /\ Sound(op) /\ Directory /\ SlotChosen /\ Patching /\ Agreeing
  BY DEF Inv, Unspoilt
<1>2. Kept
  BY <1>1, LaterKeeps
<1>3. faults \in Nat /\ crashes \in Nat /\ faults' \in Nat /\ crashes' \in Nat
  BY <1>1, <1>2, FatAssumption DEF Volume, Kept
<1>4. Directory' /\ SlotChosen'
  <2>1. CASE dir' = dir
    <3>1. \A n, s : Chosen(n, s) => Chosen(n, s)'
      BY <2>1, SameDirectory
    <3>2. SlotChosen'
      BY <1>1, <1>2, <3>1 DEF Kept, Continues, SlotChosen
    <3> QED BY <1>1, <2>1, <3>2, SameDirectory
  <2>2. CASE dir' # dir
    <3>1. ~ Writing(op')
      BY <1>2, <2>2 DEF Kept
    <3>2. Remove \/ WriteEntry
      BY <2>2 DEF Later, SetSector, FreeNext, Allocate, NoSpace, ZeroCluster, Stream, Crash,
                  Fails, Fill, disk
    <3>3. CASE Remove
      <4>1. dir' = [dir EXCEPT ![op.slot] = Deleted]
        BY <2>2, <3>3 DEF Remove, Fails, disk
      <4> QED BY <1>1, <3>1, <4>1, RemoveDirectory DEF SlotChosen
    <3>4. CASE WriteEntry
      <4>1. dir' = [dir EXCEPT ![op.slot] = File(op.name, op.first, op.len)]
        BY <2>2, <3>4 DEF WriteEntry, Fails, disk
      <4>2. Writing(op)
        BY <3>4 DEF WriteEntry, At, Writing
      <4> QED BY <1>1, <3>1, <4>1, <4>2, WriteDirectory DEF SlotChosen
    <3> QED BY <3>2, <3>3, <3>4
  <2> QED BY <2>1, <2>2
<1>5. Agreeing'
  <2>1. CASE SetSector
    BY <1>1, <2>1, SetSectorAgrees
  <2>2. CASE ~ SetSector
    <3>1. fat' = fat
      BY <1>2, <2>2 DEF Kept
    <3>2. \/ op.pc # "set" /\ faults' + crashes' >= faults + crashes
          \/ faults' + crashes' = faults + crashes + 1
      <4>1. CASE Crash
        <5>1. crashes' = crashes + 1 /\ faults' = faults
          BY <4>1 DEF Crash
        <5> QED BY <1>3, <5>1
      <4>2. CASE ~ Crash
        <5>1. op.pc # "set"
          BY <2>2, <4>2 DEF Later, Remove, FreeNext, Allocate, NoSpace, ZeroCluster, Stream,
                            WriteEntry, At
        <5>2. crashes' = crashes /\ (faults' = faults \/ faults' = faults + 1)
          BY <2>2, <4>2 DEF Later, Remove, FreeNext, Allocate, NoSpace, ZeroCluster, Stream,
                            WriteEntry, Works, Fails, Fault, Failed
        <5>3. faults' + crashes' >= faults + crashes
          BY <1>3, <5>2, SumGrows
        <5> QED BY <5>1, <5>3
      <4> QED BY <4>1, <4>2
    <3> QED BY <1>1, <1>3, <3>1, <3>2, OthersAgree
  <2> QED BY <2>1, <2>2
<1> QED BY <1>4, <1>5

LEMMA LaterInv == ASSUME Inv, Later PROVE Inv'
<1>1. Kept
  BY LaterKeeps DEF Inv
<1>2. Patching'
  BY LaterPatching
<1>3. CASE Stray
  <2>1. astray' = TRUE
    BY <1>3 DEF Stray
  <2> QED BY <1>1, <1>2, <2>1 DEF Kept, Inv, Unspoilt
<1>4. CASE ~ Stray
  <2>1. astray' = astray
    BY <1>1, <1>4 DEF Kept
  <2>2. Unspoilt'
    BY <1>4, <2>1, LaterFound DEF Unspoilt
  <2> QED BY <1>1, <1>2, <2>2 DEF Kept, Inv
<1> QED BY <1>3, <1>4

LEMMA StartInv ==
  ASSUME Inv, NEW n \in Name, StartDelete(n) \/ \E len \in 0..MaxLen : StartWrite(n, len)
  PROVE  Inv'
<1>1. Volume /\ Sound(op) /\ Patching
  BY DEF Inv
<1>2. /\ Volume' /\ Sound(op') /\ dir' = dir /\ fat' = fat /\ op.pc = "idle"
      /\ faults' = faults /\ crashes' = crashes /\ astray' = astray /\ op'.pc # "set"
      /\ Exists(n) \/ Unused # {}
      /\ Writing(op') => op'.name = n /\ op'.slot = FindSlot(n)
  BY <1>1, StartKeeps
<1>3. Patching'
  BY <1>2 DEF Patching
<1>4. ASSUME ~ astray PROVE Directory' /\ SlotChosen' /\ Agreeing'
  <2>0. Directory /\ SlotChosen /\ Agreeing
    BY <1>4 DEF Inv, Unspoilt
  <2>1. Chosen(n, FindSlot(n))
    BY <1>1, <1>2, <2>0, FoundIsChosen
  <2>2. SlotChosen'
    <3> DEFINE s == FindSlot(n)
    <3>1. Chosen(n, s)
      BY <2>1
    <3>2. Writing(op') => op'.name = n /\ op'.slot = s
      BY <1>2
    <3> HIDE DEF s
    <3>3. \A k : Chosen(n, k) => Chosen(n, k)'
      BY <1>2, SameDirectory
    <3> QED BY <1>2, <3>1, <3>2, <3>3 DEF SlotChosen
  <2>3. Directory'
    BY <1>2, <2>0, SameDirectory
  <2>4. Agreeing'
    <3>1. faults \in Nat /\ crashes \in Nat
      BY <1>1, FatAssumption DEF Volume
    <3> QED BY <1>1, <1>2, <2>0, <3>1, OthersAgree
  <2> QED BY <2>2, <2>3, <2>4
<1> QED BY <1>2, <1>3, <1>4 DEF Inv, Unspoilt

LEMMA NextInv == Inv /\ [Next]_vars => Inv'
<1> SUFFICES ASSUME Inv, [Next]_vars PROVE Inv'
  OBVIOUS
<1>1. CASE Later
  BY <1>1, LaterInv
<1>2. CASE \E n \in Name : StartDelete(n) \/ \E len \in 0..MaxLen : StartWrite(n, len)
  BY <1>2, StartInv
<1>3. CASE UNCHANGED vars
  <2>1. /\ fat' = fat /\ dir' = dir /\ data' = data /\ op' = op /\ faults' = faults
        /\ crashes' = crashes /\ torn' = torn /\ astray' = astray /\ written' = written
        /\ clean' = clean
    BY <1>3 DEF vars, disk
  <2>2. Volume' /\ Sound(op')
    BY <1>3, TypesKept DEF Inv
  <2>3. \A n, s : Chosen(n, s) => Chosen(n, s)'
    BY <2>1, SameDirectory
  <2>4. Patching'
    BY <2>1 DEF Inv, Patching, FatGet
  <2>5. (Directory => Directory') /\ (SlotChosen => SlotChosen') /\ (Agreeing => Agreeing')
    BY <2>1, <2>3, SameDirectory DEF SlotChosen, Agreeing, Settled, FatGet
  <2>6. Unspoilt'
    BY <2>1, <2>5 DEF Inv, Unspoilt
  <2> QED BY <2>2, <2>4, <2>6 DEF Inv
<1> QED BY <1>1, <1>2, <1>3, NextIs

LEMMA Invariance == Spec => []Inv
BY InitInv, NextInv, PTL DEF Spec

\* TypeOK of Fat12 holds of every volume: fat_free_chain follows no value but those below
\* 0xFF0, fat_alloc_cluster takes clusters of the disk alone, and whatever was torn, or
\* written over from a chain off the disk, is a volume still.
THEOREM FatTypes == Spec => []TypeOK
<1>1. Inv => TypeOK
  BY Typed DEF Inv
<1> QED BY <1>1, Invariance, PTL

\* fat_write and fat_delete keep every file the one a search for its name finds
\* (EntriesFound), for every size of the directory, through every failure and restart,
\* until fat_free_chain follows a torn entry off the disk and writes over the directory.
THEOREM FilesFound == Spec => []EntriesFound
<1>1. Inv => EntriesFound
  <2> SUFFICES ASSUME Inv, ~ astray, NEW s \in Slot, dir[s].kind = "file"
               PROVE  Exists(dir[s].name) /\ FindSlot(dir[s].name) = s /\ s \in Scanned
    BY DEF EntriesFound
  <2>0. Directory
    BY DEF Inv, Unspoilt
  <2>1. s \in Scanned
    BY <2>0 DEF Directory, IsFile
  <2> DEFINE n == dir[s].name
  <2>2. Matches(n) = {s}
    BY <2>0, <2>1 DEF Directory, IsFile, Matches, Scanned
  <2>3. Matches(n) # {} /\ Matches(n) \in SUBSET Nat
    BY <2>2, SlotNat
  <2>4. Exists(n)
    BY <2>3 DEF Exists
  <2>5. Least(Matches(n)) = s
    BY <2>2, <2>3, LeastMember
  <2>6. FindSlot(n) = s
    BY <2>4, <2>5 DEF FindSlot
  <2> QED BY <2>1, <2>4, <2>6
<1> QED BY <1>1, Invariance, PTL

\* fat_set keeps the FAT copies together (CopiesAgree), for any number of failed commands
\* and restarts: each of them leaves one more entry different at most, until
\* fat_free_chain follows a torn entry off the disk and writes over copy 2.
THEOREM CopiesTogether == Spec => []CopiesAgree
<1>1. Inv => CopiesAgree
  <2> SUFFICES ASSUME Inv, ~ astray PROVE CopiesAgree
    BY DEF CopiesAgree
  <2>1. faults \in Nat /\ crashes \in Nat /\ Cardinality(Settled) <= faults + crashes
    BY FatAssumption DEF Inv, Unspoilt, Volume, Agreeing
  <2>2. Settled \in SUBSET Cluster /\ Differ \in SUBSET Cluster
    BY DEF Settled, Differ
  <2>3. Cardinality(Settled) \in Nat /\ Cardinality(Differ) \in Nat
    BY <2>2, SubsetCardinality
  <2>4. CASE op.pc = "set"
    <3>1. Differ \subseteq Settled \cup {op.set.c}
      BY DEF Differ, Settled
    <3>2. Cardinality(Differ) <= Cardinality(Settled) + 1
      BY <2>2, <3>1, SubsetCardinality
    <3> QED BY <2>1, <2>3, <2>4, <3>2 DEF CopiesAgree, At
  <2>5. CASE op.pc # "set"
    <3>1. Differ \subseteq Settled
      BY <2>5 DEF Differ, Settled
    <3>2. Cardinality(Differ) <= Cardinality(Settled)
      BY <2>2, <3>1, SubsetCardinality
    <3> QED BY <2>1, <2>3, <2>5, <3>2 DEF CopiesAgree, At
  <2> QED BY <2>4, <2>5
<1> QED BY <1>1, Invariance, PTL

------------------------------------------------------------------------------
(* Fat12: what the steps do to the locals, the FAT and the data.

   Each step is restated by the fields it changes, for the proofs about chains.   *)

\* What the steps do to the other locals.
SameFile(o, p) == p.name = o.name /\ p.slot = o.slot /\ p.len = o.len
SameChain(o, p) == p.first = o.first /\ p.prev = o.prev /\ p.done = o.done

\* fat_free_chain goes on from c, or returns to its caller.
Chained(o, p, c, then) ==
  \/ /\ c \in Cluster \cup Beyond /\ p.pc = "free" /\ p.c = c /\ p.then = then
     /\ SameFile(o, p) /\ SameChain(o, p)
  \/ c \notin Cluster \cup Beyond /\ then = "return" /\ p = Idle
  \/ /\ c \notin Cluster \cup Beyond /\ then = "alloc"
     /\ p.pc = (IF o.len > 0 THEN "alloc" ELSE "entry")
     /\ SameFile(o, p) /\ SameChain(o, p)

\* fat_set of entry c is called.
Sets(o, p, c, v, caller) ==
  /\ p.pc = "set" /\ p.set.c = c /\ p.set.value = v /\ p.set.for = caller
  /\ p.set.copy = 1 /\ p.set.byte = 1
  /\ p.c = o.c /\ p.next = o.next /\ p.then = o.then
  /\ SameFile(o, p) /\ SameChain(o, p)

\* Cluster o.c is the last of the chain.
Appended(o, p) ==
  /\ SameFile(o, p) /\ p.prev = o.c
  /\ p.first = (IF o.first = FREE THEN o.c ELSE o.first)
  /\ \/ o.done + 1 < o.len /\ p.pc = "alloc" /\ p.done = o.done + 1
     \/ ~ (o.done + 1 < o.len) /\ p.pc = "stream" /\ p.done = 0 /\ p.c = p.first

LEMMA FreeChainGives ==
  ASSUME NEW o \in Ops, NEW c \in Value, NEW then \in {"alloc", "return"}
  PROVE  Chained(o, FreeChain(o, c, then), c, then)
<1>1. CASE c \in Cluster \cup Beyond
  <2> DEFINE p == [o EXCEPT !.pc = "free", !.c = c, !.then = then]
  <2>1. FreeChain(o, c, then) = p
    BY <1>1 DEF FreeChain
  <2>2. p.pc = "free" /\ p.c = c /\ p.then = then
    BY DEF Ops
  <2>3. SameFile(o, p) /\ SameChain(o, p)
    BY DEF Ops, SameFile, SameChain
  <2> HIDE DEF p
  <2> QED BY <1>1, <2>1, <2>2, <2>3 DEF Chained
<1>2. CASE c \notin Cluster \cup Beyond /\ then = "return"
  <2>1. FreeChain(o, c, then) = Idle
    BY <1>2 DEF FreeChain
  <2> QED BY <1>2, <2>1 DEF Chained
<1>3. CASE c \notin Cluster \cup Beyond /\ then = "alloc"
  <2> DEFINE q == IF o.len > 0 THEN "alloc" ELSE "entry"
             p == [o EXCEPT !.pc = q, !.c = FREE, !.next = FREE]
  <2>1. FreeChain(o, c, then) = p
    BY <1>3 DEF FreeChain
  <2> HIDE DEF q
  <2>2. p.pc = q
    BY DEF Ops
  <2>3. SameFile(o, p) /\ SameChain(o, p)
    BY DEF Ops, SameFile, SameChain
  <2> HIDE DEF p
  <2> QED BY <1>3, <2>1, <2>2, <2>3 DEF Chained, q
<1> QED BY <1>1, <1>2, <1>3

LEMMA FatSetGives ==
  ASSUME NEW o \in Ops, NEW c \in Cluster, NEW v \in Value, NEW caller
  PROVE  Sets(o, FatSet(o, c, v, caller), c, v, caller)
<1> DEFINE w == [c |-> c, value |-> v, copy |-> 1, byte |-> 1, for |-> caller]
           p == FatSet(o, c, v, caller)
<1>1. w.c = c /\ w.value = v /\ w.copy = 1 /\ w.byte = 1 /\ w.for = caller
  OBVIOUS
<1>2. p = [o EXCEPT !.pc = "set", !.set = w]
  BY DEF FatSet
<1> HIDE DEF w, p
<1>3. p.pc = "set" /\ p.set = w /\ p.c = o.c /\ p.next = o.next /\ p.then = o.then
  BY <1>2 DEF Ops
<1>4. SameFile(o, p) /\ SameChain(o, p)
  BY <1>2 DEF Ops, SameFile, SameChain
<1>5. Sets(o, p, c, v, caller)
  BY <1>1, <1>3, <1>4 DEF Sets
<1> QED BY <1>5 DEF p

LEMMA LinkedGives ==
  ASSUME NEW o \in Ops
  PROVE  Appended(o, Linked(o))
<1> DEFINE f == IF o.first = FREE THEN o.c ELSE o.first
           d == o.done + 1
           n == [o EXCEPT !.first = IF @ = FREE THEN o.c ELSE @, !.prev = o.c, !.done = @ + 1]
           p == Linked(o)
<1>1. n = [o EXCEPT !.first = f, !.prev = o.c, !.done = d]
  BY DEF Ops
<1>2. n.first = f /\ n.prev = o.c /\ n.done = d /\ SameFile(o, n)
  <2> HIDE DEF f, d, n
  <2> QED BY <1>1 DEF Ops, SameFile
<1> HIDE DEF f, d
<1>3. CASE d < o.len
  <2>1. p = [n EXCEPT !.pc = "alloc"]
    BY <1>2, <1>3 DEF Linked, SameFile
  <2> HIDE DEF n, p
  <2>2. p.pc = "alloc" /\ p.done = d /\ p.prev = o.c /\ p.first = f /\ SameFile(o, p)
    BY <1>1, <1>2, <2>1 DEF Ops, SameFile
  <2>3. Appended(o, p)
    BY <1>3, <2>2 DEF Appended, d, f
  <2> QED BY <2>3 DEF p
<1>4. CASE ~ (d < o.len)
  <2>1. p = [n EXCEPT !.pc = "stream", !.c = n.first, !.done = 0]
    BY <1>2, <1>4 DEF Linked, SameFile
  <2> HIDE DEF n, p
  <2>2. p.pc = "stream" /\ p.done = 0 /\ p.prev = o.c /\ p.first = f /\ p.c = f /\ SameFile(o, p)
    BY <1>1, <1>2, <2>1 DEF Ops, SameFile
  <2>3. Appended(o, p)
    BY <1>4, <2>2 DEF Appended, d, f
  <2> QED BY <2>3 DEF p
<1> QED BY <1>3, <1>4

\* What its caller does after fat_set.
Returned(o, p, ok) ==
  \/ o.set.for = "free" /\ Chained(o, p, o.next, o.then)
  \/ o.set.for = "link" /\ Appended(o, p)
  \/ /\ o.set.for = "mark" /\ ok /\ p.pc = "zero" /\ p.c = o.c
     /\ SameFile(o, p) /\ SameChain(o, p)
  \/ o.set.for = "mark" /\ ~ ok /\ Chained(o, p, o.first, "return")

LEMMA ReturnsGives ==
  ASSUME Sound(op), op.pc = "set", NEW ok \in BOOLEAN
  PROVE  Returned(op, Returns(ok), ok)
<1> DEFINE o == [op EXCEPT !.set = NoSet]
           p == Returns(ok)
           w == op.set
<1>0. op \in Ops /\ w \in Setting /\ w.for \in {"free", "mark", "link"} /\ op.next \in Value
      /\ op.then \in {"alloc", "return"} /\ op.first \in Value
  BY DEF Sound, Ops, Setting
<1>1. /\ o \in Ops /\ o.set = NoSet /\ o.c = op.c /\ o.next = op.next /\ o.then = op.then
      /\ o.first = op.first /\ o.prev = op.prev /\ o.done = op.done
      /\ o.name = op.name /\ o.slot = op.slot /\ o.len = op.len
  BY <1>0 DEF Ops
<1> HIDE DEF o
<1>2. CASE w.for = "free"
  <2>1. p = FreeChain(o, o.next, o.then)
    BY <1>2, Zenon DEF Returns, o
  <2> HIDE DEF p
  <2>2. Chained(o, p, o.next, o.then)
    BY <1>0, <1>1, <2>1, FreeChainGives
  <2>3. Chained(op, p, op.next, op.then)
    BY <1>1, <2>2 DEF Chained, SameFile, SameChain
  <2> QED BY <1>2, <2>3 DEF Returned, p
<1>3. CASE w.for = "link"
  <2>1. p = Linked(o)
    <3>1. "link" # "free"
      OBVIOUS
    <3> QED BY <1>3, <3>1, Zenon DEF Returns, o
  <2> HIDE DEF p
  <2>2. Appended(o, p)
    BY <1>1, <2>1, LinkedGives
  <2>3. Appended(op, p)
    BY <1>1, <2>2 DEF Appended, SameFile
  <2> QED BY <1>3, <2>3 DEF Returned, p
<1>4. CASE w.for = "mark"
  <2>1. p = (IF ok THEN [o EXCEPT !.pc = "zero"] ELSE GiveUp(o))
    <3>1. "mark" # "free" /\ "mark" # "link"
      OBVIOUS
    <3> QED BY <1>4, <3>1, Zenon DEF Returns, o
  <2> HIDE DEF p
  <2>2. CASE ok
    <3>1. p = [o EXCEPT !.pc = "zero"]
      BY <2>1, <2>2
    <3>2. p.pc = "zero" /\ p.c = o.c /\ SameFile(o, p) /\ SameChain(o, p)
      BY <1>1, <3>1 DEF Ops, SameFile, SameChain
    <3>3. p.pc = "zero" /\ p.c = op.c /\ SameFile(op, p) /\ SameChain(op, p)
      BY <1>1, <3>2 DEF SameFile, SameChain
    <3> QED BY <1>4, <2>2, <3>3 DEF Returned, p
  <2>3. CASE ~ ok
    <3>1. p = FreeChain(o, o.first, "return")
      BY <2>1, <2>3 DEF GiveUp
    <3>2. Chained(o, p, o.first, "return")
      BY <1>0, <1>1, <3>1, FreeChainGives
    <3>3. Chained(op, p, op.first, "return")
      BY <1>1, <3>2 DEF Chained, SameFile, SameChain
    <3> QED BY <1>4, <2>3, <3>3 DEF Returned, p
  <2> QED BY <2>2, <2>3
<1> QED BY <1>0, <1>2, <1>3, <1>4

\* A step of fat_set: it fails; it writes copy 2, the last sector of which ends it; or it
\* writes copy 1, where the entry is torn after its first byte and reads as the new value
\* after the last.
SetFails ==
  /\ fat' = fat /\ torn' = torn /\ dir' = dir /\ data' = data /\ written' = written
  /\ faults' = faults + 1 /\ crashes' = crashes /\ clean' = FALSE
  /\ Returned(op, op', FALSE)

SameSet(o, p) ==
  /\ p.pc = "set" /\ p.set.c = o.set.c /\ p.set.value = o.set.value /\ p.set.for = o.set.for
  /\ p.c = o.c /\ p.next = o.next /\ p.then = o.then
  /\ SameFile(o, p) /\ SameChain(o, p)

SecondCopy ==
  /\ op.set.copy = 2 /\ fat'[1] = fat[1] /\ torn' = torn
  /\ \/ SameSet(op, op')
     \/ Returned(op, op', TRUE) /\ FatGet(op.set.c) = op.set.value

FirstCopy ==
  /\ SameSet(op, op') /\ fat'[1] \in Table
  /\ \A d \in Cluster : d # op.set.c => Get(fat'[1], d) = Get(fat[1], d)
  /\ \/ torn' = torn \cup {op.set.c}
     \/ torn' = torn \ {op.set.c} /\ Get(fat'[1], op.set.c) = op.set.value

SetWorks == /\ dir' = dir /\ data' = data /\ written' = written
            /\ faults' = faults /\ crashes' = crashes /\ clean' = clean
            /\ SecondCopy \/ FirstCopy

LEMMA SetStep ==
  ASSUME Inv, SetSector
  PROVE  SetFails \/ SetWorks
<1> DEFINE w == op.set
           F == fat[w.copy]
           P == Patched(F, w)
<1>0. /\ Volume /\ Sound(op) /\ Patching /\ op.pc = "set" /\ op \in Ops
      /\ w \in Setting /\ w.c \in Cluster /\ w.copy \in {1, 2} /\ w.byte \in 1..2
  BY DEF Inv, SetSector, Sound, Ops, Setting, Copy
<1>1. TRUE \in BOOLEAN /\ FALSE \in BOOLEAN
  OBVIOUS
<1>2. CASE Fails /\ op' = Returns(FALSE)
  <2>1. Returned(op, op', FALSE)
    BY <1>0, <1>1, <1>2, ReturnsGives
  <2> QED BY <1>2, <2>1 DEF Fails, Fault, Failed, disk, SetFails
<1>3. CASE /\ fat' = [fat EXCEPT ![w.copy] = Patched(@, w)]
           /\ op' = SectorDone(w)
           /\ torn' = (IF w.copy = 2 THEN torn
                       ELSE IF Straddles(w.c) /\ w.byte = 1 THEN torn \cup {w.c}
                       ELSE torn \ {w.c})
           /\ UNCHANGED <<dir, data, faults, crashes, astray, written, clean>>
  <2>0. /\ dir' = dir /\ data' = data /\ written' = written /\ faults' = faults
        /\ crashes' = crashes /\ clean' = clean
    BY <1>3
  <2>1. F \in Table /\ P \in Table
    BY <1>0, OneSector DEF Volume, Copy
  <2>2. /\ \A d \in Cluster : d # w.c => Get(P, d) = Get(F, d)
        /\ ~ Straddles(w.c) => Get(P, w.c) = w.value
        /\ Straddles(w.c) /\ w.byte = 2 /\ F = PutFirst(F, w.c, w.value) => Get(P, w.c) = w.value
    BY <1>0, <2>1, OneSector
  <2>3. /\ w.byte = 2 => Straddles(w.c) /\ F = PutFirst(F, w.c, w.value)
        /\ w.copy = 2 => Get(fat[1], w.c) = w.value
    BY <1>0 DEF Patching, FatGet
  <2>4. /\ w.copy = 1 => fat'[1] = P /\ F = fat[1]
        /\ w.copy = 2 => fat'[1] = fat[1]
    BY <1>0, <1>3 DEF Volume, Copy
  <2>5. ASSUME NEW b \in 1..2, NEW k \in {1, 2},
               op' = [op EXCEPT !.set = [w EXCEPT !.byte = b, !.copy = k]]
        PROVE  SameSet(op, op')
    <3> DEFINE z == [w EXCEPT !.byte = b, !.copy = k]
    <3>1. z.c = w.c /\ z.value = w.value /\ z.for = w.for
      BY <1>0 DEF Setting
    <3>2. op' = [op EXCEPT !.set = z]
      BY <2>5
    <3> HIDE DEF z
    <3>3. /\ op'.set = z /\ op'.pc = op.pc /\ op'.c = op.c /\ op'.next = op.next
          /\ op'.then = op.then
      BY <1>0, <3>2 DEF Ops
    <3>4. SameFile(op, op') /\ SameChain(op, op')
      BY <1>0, <3>2 DEF Ops, SameFile, SameChain
    <3> QED BY <1>0, <3>1, <3>3, <3>4 DEF SameSet
  <2> HIDE DEF F, P
  <2>6. CASE Straddles(w.c) /\ w.byte = 1
    <3>1. op' = [op EXCEPT !.set.byte = 2]
      BY <1>3, <2>6 DEF SectorDone
    <3>2. op' = [op EXCEPT !.set = [w EXCEPT !.byte = 2, !.copy = w.copy]]
      BY <1>0, <3>1 DEF Ops, Setting
    <3>3. SameSet(op, op')
      <4>1. 2 \in 1..2
        OBVIOUS
      <4> QED BY <1>0, <2>5, <3>2, <4>1, Zenon
    <3>4. CASE w.copy = 2
      <4>1. SecondCopy
        BY <1>3, <2>4, <3>3, <3>4 DEF SecondCopy
      <4> QED BY <2>0, <4>1 DEF SetWorks
    <3>5. CASE w.copy = 1
      <4>1. torn' = torn \cup {w.c}
        BY <1>3, <2>6, <3>5
      <4>2. FirstCopy
        BY <2>1, <2>2, <2>4, <3>3, <3>5, <4>1 DEF FirstCopy
      <4> QED BY <2>0, <4>2 DEF SetWorks
    <3> QED BY <1>0, <3>4, <3>5
  <2>7. CASE ~ (Straddles(w.c) /\ w.byte = 1) /\ w.copy = 1
    <3>1. op' = [op EXCEPT !.set.byte = 1, !.set.copy = 2]
      BY <1>3, <2>7 DEF SectorDone, LastCopy
    <3>2. op' = [op EXCEPT !.set = [w EXCEPT !.byte = 1, !.copy = 2]]
      BY <1>0, <3>1 DEF Ops, Setting
    <3>3. SameSet(op, op')
      <4>1. 1 \in 1..2 /\ 2 \in {1, 2}
        OBVIOUS
      <4> QED BY <2>5, <3>2, <4>1, Zenon
    <3>4. Get(P, w.c) = w.value
      BY <1>0, <2>2, <2>3, <2>7
    <3>5. torn' = torn \ {w.c}
      BY <1>3, <2>7
    <3>6. FirstCopy
      BY <2>1, <2>2, <2>4, <2>7, <3>3, <3>4, <3>5 DEF FirstCopy
    <3> QED BY <2>0, <3>6 DEF SetWorks
  <2>8. CASE ~ (Straddles(w.c) /\ w.byte = 1) /\ w.copy # 1
    <3>1. op' = Returns(TRUE)
      BY <1>3, <2>8 DEF SectorDone, LastCopy
    <3>2. Returned(op, op', TRUE)
      BY <1>0, <1>1, <3>1, ReturnsGives
    <3>3. w.copy = 2 /\ torn' = torn
      BY <1>0, <1>3, <2>8
    <3>4. SecondCopy
      BY <2>3, <2>4, <3>2, <3>3 DEF SecondCopy, FatGet
    <3> QED BY <2>0, <3>4 DEF SetWorks
  <2> QED BY <2>6, <2>7, <2>8
<1> QED BY <1>2, <1>3 DEF SetSector

\* The other steps of an operation.
BegunDelete(n) ==
  /\ op.pc = "idle" /\ op'.pc = "remove" /\ op'.name = n /\ op'.slot = FindSlot(n)
  /\ op'.c = dir[FindSlot(n)].head /\ op'.first = FREE /\ op'.prev = FREE

Blank(o, n, len) == /\ o.name = n /\ o.slot = FindSlot(n) /\ o.len = len
                     /\ o.first = FREE /\ o.prev = FREE /\ o.done = 0
BegunWrite(n, len) ==
  /\ op.pc = "idle"
  /\ \E o \in Ops : /\ Blank(o, n, len)
                    /\ Chained(o, op', IF Exists(n) THEN dir[FindSlot(n)].head ELSE FREE, "alloc")

LEMMA StartDeleteGives ==
  ASSUME NEW n \in Name, StartDelete(n)
  PROVE  BegunDelete(n)
<1> DEFINE s == FindSlot(n)
           h == dir[s].head
<1>1. op' = [Idle EXCEPT !.pc = "remove", !.name = n, !.slot = s, !.c = h] /\ op.pc = "idle"
  BY DEF StartDelete, At
<1> HIDE DEF s, h
<1>2. Idle \in Ops /\ Idle.first = FREE /\ Idle.prev = FREE
  BY IdleSound DEF Sound, Idle
<1>3. /\ op'.pc = "remove" /\ op'.name = n /\ op'.slot = s /\ op'.c = h
      /\ op'.first = FREE /\ op'.prev = FREE
  BY <1>1, <1>2 DEF Ops
<1> QED BY <1>1, <1>3 DEF BegunDelete, s, h

LEMMA StartWriteGives ==
  ASSUME Volume, NEW n \in Name, NEW len \in 0..MaxLen, StartWrite(n, len)
  PROVE  BegunWrite(n, len)
<1> DEFINE s == FindSlot(n)
           o == [Idle EXCEPT !.name = n, !.len = len, !.slot = s]
           c == IF Exists(n) THEN dir[s].head ELSE FREE
<1>1. op' = FreeChain(o, c, "alloc") /\ op.pc = "idle" /\ (Exists(n) \/ Unused # {})
  BY DEF StartWrite, At
<1>2. s \in Slot
  BY <1>1, SlotFound
<1>3. c \in Value
  BY <1>2, Ends DEF Volume, Entry
<1>4. Idle \in Ops /\ Idle.first = FREE /\ Idle.prev = FREE /\ Idle.done = 0
  BY IdleSound DEF Sound, Idle
<1> HIDE DEF s, c
<1>5. o \in Ops /\ o.name = n /\ o.slot = s /\ o.len = len /\ o.first = FREE /\ o.prev = FREE
      /\ o.done = 0
  BY <1>2, <1>4 DEF Ops
<1> HIDE DEF o
<1>6. Chained(o, op', c, "alloc")
  BY <1>1, <1>3, <1>5, FreeChainGives
<1>7. Blank(o, n, len)
  BY <1>5 DEF Blank, s
<1> QED BY <1>1, <1>5, <1>6, <1>7 DEF BegunWrite, c, s

\* fat_free_chain frees op.c, and goes on from v.
FreesFrom(v) ==
  /\ op'.pc = "set" /\ op'.set.c = op.c /\ op'.set.value = FREE /\ op'.set.for = "free"
  /\ op'.c = op.c /\ op'.next = v /\ op'.then = op.then
  /\ SameFile(op, op') /\ SameChain(op, op')

LEMMA FreeNextGives ==
  ASSUME Volume, Sound(op), FreeNext
  PROVE  /\ op.pc = "free" /\ op.c \in Cluster
         /\ (Works /\ FreesFrom(FatGet(op.c))) \/ (Fault /\ FreesFrom(EOC))
<1>0. op.pc = "free" /\ op \in Ops /\ op.c \in Cluster
  BY DEF FreeNext, At, Sound
<1>1. ASSUME NEW v \in Value, op' = FatSet([op EXCEPT !.next = v], op.c, FREE, "free")
      PROVE  FreesFrom(v)
  <2> DEFINE o == [op EXCEPT !.next = v]
  <2>1. o \in Ops /\ o.next = v /\ o.c = op.c /\ o.then = op.then
        /\ SameFile(op, o) /\ SameChain(op, o)
    BY <1>0 DEF Ops, SameFile, SameChain
  <2>2. op' = FatSet(o, op.c, FREE, "free")
    BY <1>1
  <2> HIDE DEF o
  <2>3. Sets(o, op', op.c, FREE, "free")
    BY <1>0, <2>1, <2>2, Ends, FatSetGives
  <2> QED BY <2>1, <2>3 DEF Sets, FreesFrom, SameFile, SameChain
<1>2. FatGet(op.c) \in Value /\ EOC \in Value
  BY <1>0, FatGetValue, Ends
<1>3. CASE Works /\ op' = FatSet([op EXCEPT !.next = FatGet(op.c)], op.c, FREE, "free")
  BY <1>0, <1>1, <1>2, <1>3
<1>4. CASE Fault /\ op' = FatSet([op EXCEPT !.next = EOC], op.c, FREE, "free")
  BY <1>0, <1>1, <1>2, <1>4
<1> QED BY <1>3, <1>4 DEF FreeNext

\* fat_alloc_cluster marks the free cluster c.
Marking(c) ==
  /\ op'.pc = "set" /\ op'.set.c = c /\ op'.set.value = EOC /\ op'.set.for = "mark"
  /\ op'.c = c /\ SameFile(op, op') /\ SameChain(op, op')

LEMMA AllocateGives ==
  ASSUME Volume, Sound(op), Allocate
  PROVE  /\ op.pc = "alloc" /\ fat' = fat /\ torn' = torn
         /\ \E c \in FreeClusters : Marking(c)
<1> DEFINE c == Least(FreeClusters)
           o == [op EXCEPT !.c = c]
<1>0. op.pc = "alloc" /\ op \in Ops /\ fat' = fat /\ torn' = torn
  BY DEF Allocate, At, Sound, disk, Works
<1>1. c \in FreeClusters /\ c \in Cluster /\ c \in Value
  <2>1. FreeClusters \in SUBSET Nat /\ FreeClusters # {}
    BY DEF Allocate, FreeClusters, Cluster
  <2>2. c \in FreeClusters
    BY <2>1, LeastMember
  <2> QED BY <2>2, ClusterNat DEF FreeClusters
<1>2. op' = FatSet(o, c, EOC, "mark")
  BY DEF Allocate
<1> HIDE DEF c
<1>3. o \in Ops /\ o.c = c /\ SameFile(op, o) /\ SameChain(op, o)
  BY <1>0, <1>1 DEF Ops, SameFile, SameChain
<1> HIDE DEF o
<1>4. Sets(o, op', c, EOC, "mark")
  BY <1>1, <1>2, <1>3, Ends, FatSetGives
<1>5. Marking(c)
  BY <1>3, <1>4 DEF Sets, Marking, SameFile, SameChain
<1> QED BY <1>0, <1>1, <1>5

\* The new cluster is zeroed: it is the first of the chain, or is linked to the last.
Zeroed == /\ data' = [data EXCEPT ![op.c] = Zero] /\ fat' = fat /\ dir' = dir
          /\ Works
          /\ \/ op.prev = FREE /\ Appended(op, op')
             \/ op.prev # FREE /\ Sets(op, op', op.prev, op.c, "link")

LEMMA ZeroGives ==
  ASSUME Volume, Sound(op), ZeroCluster
  PROVE  /\ op.pc = "zero" /\ op.c \in Cluster
         /\ Zeroed \/ (Fails /\ Chained(op, op', op.first, "return"))
<1>0. op.pc = "zero" /\ op \in Ops /\ op.c \in Cluster /\ op.c \in Value /\ op.first \in Value
      /\ op.prev \in Cluster \cup {FREE}
  BY ClusterNat DEF ZeroCluster, At, Sound, Ops
<1>1. CASE Fails /\ op' = GiveUp(op)
  <2>1. Chained(op, op', op.first, "return")
    BY <1>0, <1>1, FreeChainGives DEF GiveUp
  <2> QED BY <1>0, <1>1, <2>1
<1>2. CASE /\ Fill(op.c, Zero) /\ Works
           /\ op' = IF op.prev = FREE THEN Linked(op) ELSE FatSet(op, op.prev, op.c, "link")
  <2>1. CASE op.prev = FREE
    <3>1. Appended(op, op')
      BY <1>0, <1>2, <2>1, LinkedGives
    <3> QED BY <1>0, <1>2, <2>1, <3>1 DEF Zeroed, Fill
  <2>2. CASE op.prev # FREE
    <3>1. Sets(op, op', op.prev, op.c, "link")
      BY <1>0, <1>2, <2>2, FatSetGives
    <3> QED BY <1>0, <1>2, <2>2, <3>1 DEF Zeroed, Fill
  <2> QED BY <2>1, <2>2
<1> QED BY <1>1, <1>2 DEF ZeroCluster

\* A cluster of the payload is written, and v is the next; or nothing is, past the disk.
Moved(v) ==
  /\ op'.c = v /\ op'.done = op.done + 1 /\ op'.first = op.first
  /\ op'.pc = (IF v >= 2 /\ op.done + 1 < op.len THEN "stream" ELSE "entry")
  /\ SameFile(op, op')
Paid(v) ==
  /\ op.c \in Cluster /\ data' = [data EXCEPT ![op.c] = op.name] /\ fat' = fat /\ dir' = dir
  /\ Moved(v)
PastDisk == op.c \notin Cluster /\ UNCHANGED disk /\ Works

LEMMA StreamGives ==
  ASSUME Volume, Sound(op), Stream
  PROVE  /\ op.pc = "stream"
         /\ \/ Works /\ Paid(FatGet(op.c))
            \/ Fault /\ Paid(EOC)
            \/ Fails /\ Chained(op, op', op.first, "return")
            \/ PastDisk /\ Chained(op, op', op.first, "return")
            \/ PastDisk /\ \E v \in Value : Moved(v)
<1>0. op.pc = "stream" /\ op \in Ops /\ op.first \in Value
  BY DEF Stream, At, Sound, Ops
<1>1. ASSUME NEW v \in Value, op' = Payload(v)
      PROVE  Moved(v)
  <2> DEFINE q == IF v >= 2 /\ op.done + 1 < op.len THEN "stream" ELSE "entry"
             d == op.done + 1
  <2>1. op' = [op EXCEPT !.c = v, !.done = d, !.pc = q]
    BY <1>1 DEF Payload
  <2> HIDE DEF q, d
  <2>2. op'.c = v /\ op'.done = d /\ op'.pc = q /\ op'.first = op.first /\ SameFile(op, op')
    BY <1>0, <2>1 DEF Ops, SameFile
  <2> QED BY <2>2 DEF Moved, q, d
<1>2. op' = GiveUp(op) => Chained(op, op', op.first, "return")
  BY <1>0, FreeChainGives DEF GiveUp
<1>3. CASE op.c \in Cluster /\ Fill(op.c, op.name) /\ Works /\ op' = Payload(FatGet(op.c))
  BY <1>0, <1>1, <1>3, FatGetValue DEF Paid, Fill
<1>4. CASE op.c \in Cluster /\ Fill(op.c, op.name) /\ Fault /\ op' = Payload(EOC)
  BY <1>0, <1>1, <1>4, Ends DEF Paid, Fill
<1>5. CASE op.c \in Cluster /\ Fails /\ op' = GiveUp(op)
  BY <1>0, <1>2, <1>5
<1>6. CASE PastDisk /\ op' = GiveUp(op)
  BY <1>0, <1>2, <1>6
<1>7. CASE PastDisk /\ \E next \in Elsewhere : op' = Payload(next)
  <2>1. PICK v \in Value : op' = Payload(v)
    BY <1>7, ElsewhereValue
  <2> QED BY <1>0, <1>1, <1>7, <2>1
<1> QED BY <1>3, <1>4, <1>5, <1>6, <1>7 DEF Stream, PastDisk

\* A step off the disk: the copy that is read and the data stay as they are.
LEMMA StrayGives ==
  ASSUME Volume, Sound(op), Stray
  PROVE  /\ op.pc = "free" /\ op.c \in Beyond /\ astray' = TRUE
         /\ fat'[1] = fat[1] /\ torn' = torn /\ data' = data
         /\ \E v \in Value : Chained(op, op', v, op.then)
<1>1. op.pc = "free" /\ op.c \in Beyond /\ op \in Ops /\ op.then \in {"alloc", "return"}
      /\ astray' = TRUE /\ data' = data /\ torn' = torn
  BY DEF Stray, At, Sound, Ops, Failed
<1>2. fat'[1] = fat[1]
  <2>1. CASE fat' = fat
    BY <2>1
  <2>2. ASSUME NEW F, fat' = [fat EXCEPT ![2] = F] PROVE fat'[1] = fat[1]
    BY <2>2 DEF Volume, Copy
  <2> QED BY <2>1, <2>2 DEF Stray
<1>3. PICK v \in Value : op' = FreeChain(op, v, op.then)
  BY ElsewhereValue DEF Stray
<1>4. Chained(op, op', v, op.then)
  BY <1>1, <1>3, FreeChainGives
<1> QED BY <1>1, <1>2, <1>4

------------------------------------------------------------------------------
(* Fat12: the entries at hand, step by step. *)

Calls(o, caller) == o.pc = "set" /\ o.set.for = caller
Taking(o) == o.pc \in {"alloc", "zero"} \/ Calls(o, "mark") \/ Calls(o, "link")

\* What the locals say about each other, and about the entries at hand in table F.
Stage(o, F) ==
  /\ o.pc = "set" => o.set.c = IF o.set.for = "link" THEN o.prev ELSE o.c
  /\ Calls(o, "free") => o.set.value = FREE
  /\ Calls(o, "mark") => o.set.value = EOC
  /\ Calls(o, "link") => o.set.value = o.c /\ o.prev \in Cluster
  /\ Taking(o) => (o.first = FREE <=> o.prev = FREE)
  /\ Freeing(o) /\ o.then = "alloc" => o.first = FREE /\ o.prev = FREE
  /\ o.pc = "zero" \/ Calls(o, "link") => Get(F, o.c) = EOC
  /\ o.pc = "zero" \/ Calls(o, "mark") \/ Calls(o, "link") => o.prev # o.c
  /\ o.pc \in {"alloc", "zero"} \/ Calls(o, "mark") => (o.prev # FREE => Get(F, o.prev) = EOC)

LEMMA StageIdle == ASSUME NEW F PROVE Stage(Idle, F)
BY IdleSound DEF Stage, Calls, Taking, Freeing

LEMMA StageChained ==
  ASSUME NEW o, NEW p, NEW c, NEW then, NEW F, Chained(o, p, c, then),
         then = "alloc" => o.first = FREE /\ o.prev = FREE
  PROVE  Stage(p, F)
<1>1. CASE p = Idle
  BY <1>1, StageIdle
<1>2. CASE p.pc = "free" /\ p.then = then /\ SameChain(o, p)
  BY <1>2 DEF Stage, Calls, Taking, Freeing, SameChain
<1>3. CASE then = "alloc" /\ p.pc \in {"alloc", "entry"} /\ SameChain(o, p)
  BY <1>3 DEF Stage, Calls, Taking, Freeing, SameChain
<1> QED BY <1>1, <1>2, <1>3 DEF Chained

LEMMA StageAppended ==
  ASSUME NEW o, NEW p, NEW F, Appended(o, p), o.c \in Cluster, Get(F, o.c) = EOC
  PROVE  Stage(p, F)
<1>1. p.first # FREE /\ p.prev = o.c /\ p.prev # FREE
  BY Ends DEF Appended
<1>2. CASE p.pc = "alloc"
  BY <1>1, <1>2 DEF Stage, Calls, Taking, Freeing
<1>3. CASE p.pc = "stream"
  BY <1>3 DEF Stage, Calls, Taking, Freeing
<1> QED BY <1>2, <1>3 DEF Appended

Staged == Stage(op, fat[1])

LEMMA SetStage ==
  ASSUME Inv, Staged, SetSector
  PROVE  Staged'
<1> DEFINE F == fat[1]
<1>0. /\ op.pc = "set" /\ op.set.for \in {"free", "mark", "link"} /\ op.set.c \in Cluster
      /\ op.prev \in Cluster \cup {FREE} /\ (op.set.for # "free" => op.c \in Cluster)
      /\ op.next \in Value /\ op.then \in {"alloc", "return"}
  BY DEF Inv, SetSector, Sound, Ops, Setting
<1>1. Stage(op, F)
  BY DEF Staged
<1>2. SetFails \/ SetWorks
  BY SetStep
<1>3. ASSUME NEW ok \in BOOLEAN, Returned(op, op', ok), ok => Get(F, op.set.c) = op.set.value
      PROVE  Stage(op', F)
  <2>1. CASE op.set.for = "free"
    <3>1. Chained(op, op', op.next, op.then)
      BY <1>3, <2>1 DEF Returned
    <3>2. op.then = "alloc" => op.first = FREE /\ op.prev = FREE
      BY <1>0, <1>1, <2>1 DEF Stage, Freeing
    <3> QED BY <3>1, <3>2, StageChained
  <2>2. CASE op.set.for = "link"
    <3>1. Appended(op, op')
      BY <1>3, <2>2 DEF Returned
    <3>2. Get(F, op.c) = EOC
      BY <1>0, <1>1, <2>2 DEF Stage, Calls
    <3> QED BY <1>0, <2>2, <3>1, <3>2, StageAppended
  <2>3. CASE op.set.for = "mark" /\ ~ ok
    <3>1. Chained(op, op', op.first, "return")
      BY <1>3, <2>3 DEF Returned
    <3> QED BY <3>1, StageChained
  <2>4. CASE op.set.for = "mark" /\ ok
    <3>1. op'.pc = "zero" /\ op'.c = op.c /\ SameChain(op, op')
      BY <1>3, <2>4 DEF Returned
    <3>2. op.set.c = op.c /\ op.set.value = EOC /\ op.prev # op.c /\ (op.first = FREE <=> op.prev = FREE)
          /\ (op.prev # FREE => Get(F, op.prev) = EOC)
      BY <1>0, <1>1, <2>4 DEF Stage, Calls, Taking
    <3>3. Get(F, op.c) = EOC
      BY <1>3, <2>4, <3>2
    <3> QED BY <3>1, <3>2, <3>3 DEF Stage, Calls, Taking, Freeing, SameChain
  <2> QED BY <1>0, <2>1, <2>2, <2>3, <2>4
<1>4. ASSUME NEW G, SameSet(op, op'), \A d \in Cluster : d # op.set.c => Get(G, d) = Get(F, d)
      PROVE  Stage(op', G)
  <2>0. /\ op'.pc = "set" /\ op'.set.c = op.set.c /\ op'.set.value = op.set.value
        /\ op'.set.for = op.set.for /\ op'.c = op.c /\ op'.then = op.then
        /\ op'.first = op.first /\ op'.prev = op.prev
    BY <1>4 DEF SameSet, SameChain
  <2>1. CASE op.set.for = "free"
    BY <1>0, <1>1, <2>0, <2>1 DEF Stage, Calls, Taking, Freeing
  <2>2. CASE op.set.for = "mark"
    <3>1. /\ op.set.c = op.c /\ op.set.value = EOC /\ op.prev # op.c
          /\ (op.first = FREE <=> op.prev = FREE) /\ (op.prev # FREE => Get(F, op.prev) = EOC)
      BY <1>0, <1>1, <2>2 DEF Stage, Calls, Taking
    <3>2. op.prev # FREE => Get(G, op.prev) = EOC
      BY <1>0, <1>4, <3>1
    <3> QED BY <1>0, <2>0, <2>2, <3>1, <3>2 DEF Stage, Calls, Taking, Freeing
  <2>3. CASE op.set.for = "link"
    <3>1. /\ op.set.c = op.prev /\ op.set.value = op.c /\ op.prev \in Cluster /\ op.prev # op.c
          /\ (op.first = FREE <=> op.prev = FREE) /\ Get(F, op.c) = EOC
      BY <1>0, <1>1, <2>3 DEF Stage, Calls, Taking
    <3>2. Get(G, op.c) = EOC
      BY <1>0, <1>4, <2>3, <3>1
    <3> QED BY <1>0, <2>0, <2>3, <3>1, <3>2 DEF Stage, Calls, Taking, Freeing
  <2> QED BY <1>0, <2>1, <2>2, <2>3
<1> HIDE DEF F
<1>5. CASE SetFails
  <2>1. fat'[1] = F /\ Returned(op, op', FALSE)
    BY <1>5 DEF SetFails, F
  <2>2. Stage(op', F)
    BY <1>3, <2>1
  <2> QED BY <2>1, <2>2 DEF Staged
<1>6. CASE SecondCopy
  <2>1. fat'[1] = F
    BY <1>6 DEF SecondCopy, F
  <2>2. CASE SameSet(op, op')
    <3>1. Stage(op', F)
      BY <1>4, <2>2
    <3> QED BY <2>1, <3>1 DEF Staged
  <2>3. CASE Returned(op, op', TRUE) /\ FatGet(op.set.c) = op.set.value
    <3>1. Stage(op', F)
      BY <1>3, <2>3 DEF FatGet, F
    <3> QED BY <2>1, <3>1 DEF Staged
  <2> QED BY <1>6, <2>2, <2>3 DEF SecondCopy
<1>7. CASE FirstCopy
  <2> DEFINE G == fat'[1]
  <2>1. SameSet(op, op') /\ \A d \in Cluster : d # op.set.c => Get(G, d) = Get(F, d)
    BY <1>7 DEF FirstCopy, F
  <2> HIDE DEF G
  <2>2. Stage(op', G)
    BY <1>4, <2>1
  <2> QED BY <2>2 DEF Staged, G
<1> QED BY <1>2, <1>5, <1>6, <1>7 DEF SetWorks

\* The steps that leave the first copy alone.
LEMMA OtherStage ==
  ASSUME Inv, Staged, Later, ~ SetSector
  PROVE  Staged' /\ fat'[1] = fat[1] /\ torn' = torn
<1> DEFINE F == fat[1]
<1>0. Volume /\ Sound(op) /\ Stage(op, F)
  BY DEF Inv, Staged
<1>1. fat'[1] = fat[1] /\ torn' = torn
  <2>1. CASE Stray
    BY <1>0, <2>1, StrayGives
  <2>2. CASE ~ Stray
    <3>1. fat' = fat
      BY <1>0, <2>2, LaterKeeps DEF Kept
    <3>2. torn' = torn
      BY <2>2 DEF Later, Remove, FreeNext, Allocate, NoSpace, ZeroCluster, Stream, WriteEntry,
                  Crash, Works, Fails, Fault, Failed
    <3> QED BY <3>1, <3>2
  <2> QED BY <2>1, <2>2
<1> HIDE DEF F
<1> SUFFICES Stage(op', F)
  BY <1>1 DEF Staged, F
<1>a. op \in Ops /\ op.c \in Value /\ op.first \in Value
  BY <1>0 DEF Sound, Ops
<1>2. CASE Remove
  <2>1. op' = Idle \/ Chained(op, op', op.c, "return")
    BY <1>a, <1>2, FreeChainGives DEF Remove
  <2> QED BY <2>1, StageIdle, StageChained
<1>3. CASE FreeNext
  <2>1. /\ op.pc = "free" /\ op'.pc = "set" /\ op'.set.c = op.c /\ op'.set.value = FREE
        /\ op'.set.for = "free" /\ op'.c = op.c /\ op'.then = op.then
        /\ op'.first = op.first /\ op'.prev = op.prev
    BY <1>0, <1>3, FreeNextGives DEF FreesFrom, SameChain
  <2> QED BY <1>0, <2>1 DEF Stage, Calls, Taking, Freeing
<1>4. CASE Allocate
  <2>1. op.pc = "alloc" /\ \E c \in FreeClusters : Marking(c)
    BY <1>0, <1>4, AllocateGives
  <2>2. PICK c \in FreeClusters : Marking(c)
    BY <2>1
  <2>3. Get(F, c) = FREE /\ FREE # EOC
    BY Ends DEF FreeClusters, FatGet, F
  <2>4. (op.first = FREE <=> op.prev = FREE) /\ (op.prev # FREE => Get(F, op.prev) = EOC)
    BY <1>0, <2>1 DEF Stage, Taking
  <2>5. op.prev # c
    <3>1. c # FREE
      BY Ends DEF FreeClusters
    <3> QED BY <2>3, <2>4, <3>1
  <2>6. /\ op'.pc = "set" /\ op'.set.c = c /\ op'.set.value = EOC /\ op'.set.for = "mark"
        /\ op'.c = c /\ op'.first = op.first /\ op'.prev = op.prev
    BY <2>2 DEF Marking, SameChain
  <2> QED BY <2>4, <2>5, <2>6 DEF Stage, Calls, Taking, Freeing
<1>5. CASE NoSpace
  <2>1. Chained(op, op', op.first, "return")
    BY <1>a, <1>5, FreeChainGives DEF NoSpace, GiveUp
  <2> QED BY <2>1, StageChained
<1>6. CASE ZeroCluster
  <2>1. op.pc = "zero" /\ op.c \in Cluster /\ (Zeroed \/ Chained(op, op', op.first, "return"))
    BY <1>0, <1>6, ZeroGives
  <2>2. /\ Get(F, op.c) = EOC /\ op.prev # op.c /\ (op.first = FREE <=> op.prev = FREE)
    BY <1>0, <2>1 DEF Stage, Taking
  <2>3. CASE Chained(op, op', op.first, "return")
    BY <2>3, StageChained
  <2>4. CASE Appended(op, op')
    BY <2>1, <2>2, <2>4, StageAppended
  <2>5. CASE op.prev # FREE /\ Sets(op, op', op.prev, op.c, "link")
    <3>1. /\ op'.pc = "set" /\ op'.set.c = op.prev /\ op'.set.value = op.c /\ op'.set.for = "link"
          /\ op'.c = op.c /\ op'.first = op.first /\ op'.prev = op.prev
      BY <2>5 DEF Sets, SameChain
    <3>2. op.prev \in Cluster
      BY <1>0, <2>5 DEF Sound
    <3> QED BY <2>2, <3>1, <3>2 DEF Stage, Calls, Taking, Freeing
  <2> QED BY <2>1, <2>3, <2>4, <2>5 DEF Zeroed
<1>7. CASE Stream
  <2>1. op'.pc \in {"stream", "entry"} \/ Chained(op, op', op.first, "return")
    BY <1>0, <1>7, StreamGives DEF Paid, Moved
  <2>2. CASE op'.pc \in {"stream", "entry"}
    BY <2>2 DEF Stage, Calls, Taking, Freeing
  <2> QED BY <2>1, <2>2, StageChained
<1>8. CASE WriteEntry \/ Crash
  BY <1>8, StageIdle DEF WriteEntry, Crash
<1>9. CASE Stray
  <2>1. PICK v \in Value : Chained(op, op', v, op.then)
    BY <1>0, <1>9, StrayGives
  <2>2. op.then = "alloc" => op.first = FREE /\ op.prev = FREE
    BY <1>0, <1>9 DEF Stray, At, Stage, Freeing
  <2> QED BY <2>1, <2>2, StageChained
<1> QED BY <1>2, <1>3, <1>4, <1>5, <1>6, <1>7, <1>8, <1>9 DEF Later

LEMMA StartStage ==
  ASSUME Inv, NEW n \in Name, StartDelete(n) \/ \E len \in 0..MaxLen : StartWrite(n, len)
  PROVE  Staged' /\ fat' = fat /\ torn' = torn
<1>1. fat' = fat /\ torn' = torn
  BY DEF StartDelete, StartWrite, disk, Works
<1>2. CASE StartDelete(n)
  <2>1. op'.pc = "remove"
    BY <1>2, StartDeleteGives DEF BegunDelete
  <2> QED BY <1>1, <2>1 DEF Staged, Stage, Calls, Taking, Freeing
<1>3. ASSUME NEW len \in 0..MaxLen, StartWrite(n, len) PROVE Staged'
  <2>1. PICK o \in Ops : /\ Blank(o, n, len)
                         /\ Chained(o, op', IF Exists(n) THEN dir[FindSlot(n)].head ELSE FREE, "alloc")
    BY <1>3, StartWriteGives DEF Inv, BegunWrite
  <2>2. o.first = FREE /\ o.prev = FREE
    BY <2>1 DEF Blank
  <2>3. Stage(op', fat'[1])
    BY <2>1, <2>2, StageChained
  <2> QED BY <2>3 DEF Staged
<1> QED BY <1>1, <1>2, <1>3

------------------------------------------------------------------------------
(* Fat12: chains do not run into themselves. *)

\* Ranks that grow along every chain.
Ranks(r, F, T) ==
  \A c \in Cluster \ T : Get(F, c) \in Cluster => r[c] < r[Get(F, c)]
Ranked == \E r \in [Cluster -> Nat] : Ranks(r, fat[1], torn)

LEMMA SetRanked ==
  ASSUME Inv, Staged, Ranked, SetSector
  PROVE  Ranked'
<1> DEFINE F == fat[1]
           G == fat'[1]
           k == op.set.c
<1>0. op.set.for \in {"free", "mark", "link"} /\ k \in Cluster /\ op.pc = "set"
      /\ (op.set.for = "link" => op.c \in Cluster)
  BY DEF Inv, SetSector, Sound, Ops, Setting
<1>1. PICK r \in [Cluster -> Nat] : Ranks(r, F, torn)
  BY DEF Ranked
<1>2. CASE G = F /\ torn' = torn
  BY <1>1, <1>2 DEF Ranked
<1>3. CASE FirstCopy
  <2>1. \A d \in Cluster : d # k => Get(G, d) = Get(F, d)
    BY <1>3 DEF FirstCopy
  <2> HIDE DEF F, G, k
  <2>2. CASE torn' = torn \cup {k}
    <3>1. Ranks(r, G, torn')
      BY <1>1, <2>1, <2>2 DEF Ranks
    <3> QED BY <3>1 DEF Ranked, G
  <2>3. CASE torn' = torn \ {k} /\ Get(G, k) \notin Cluster
    <3>1. Ranks(r, G, torn')
      BY <1>1, <2>1, <2>3 DEF Ranks
    <3> QED BY <3>1 DEF Ranked, G
  <2>4. CASE torn' = torn \ {k} /\ Get(G, k) \in Cluster
    <3> DEFINE v == Get(G, k)
               x == r[v] + r[k] + 1
               q == [r EXCEPT ![v] = x]
    <3>0. Get(G, k) = op.set.value
      BY <1>3, <2>4 DEF FirstCopy, G, k
    <3>1. op.set.for = "link"
      <4>1. /\ op.set.for = "free" => op.set.value = FREE
            /\ op.set.for = "mark" => op.set.value = EOC
        BY <1>0 DEF Staged, Stage, Calls
      <4> QED BY <1>0, <2>4, <3>0, <4>1, Ends
    <3>2. v = op.c /\ k = op.prev /\ v # k /\ Get(F, v) = EOC
      BY <1>0, <3>0, <3>1 DEF Staged, Stage, Calls, F, k
    <3> HIDE DEF v
    <3>3. v \in Cluster /\ r[v] \in Nat /\ r[k] \in Nat
      BY <1>0, <1>1, <3>1, <3>2
    <3>4. x \in Nat /\ x > r[v] /\ x > r[k]
      BY <3>3
    <3> HIDE DEF x
    <3>5. q \in [Cluster -> Nat] /\ q[v] = x /\ \A d \in Cluster : d # v => q[d] = r[d]
      BY <1>1, <3>3, <3>4
    <3> HIDE DEF q
    <3>6. ASSUME NEW c \in Cluster \ torn', Get(G, c) \in Cluster
          PROVE  q[c] < q[Get(G, c)]
      <4>1. CASE c = k
        BY <1>0, <3>2, <3>4, <3>5, <4>1 DEF v
      <4>2. CASE c # k
        <5> DEFINE e == Get(F, c)
        <5>1. Get(G, c) = e /\ c \notin torn /\ e \in Cluster
          BY <2>1, <2>4, <3>6, <4>2
        <5>2. r[c] < r[e]
          BY <1>1, <5>1 DEF Ranks
        <5>3. c # v
          BY <3>2, <5>1, Ends
        <5> HIDE DEF e
        <5>4. q[c] = r[c] /\ r[c] \in Nat /\ r[e] \in Nat
          BY <1>1, <3>5, <5>1, <5>3
        <5>5. CASE e = v
          <6>1. r[c] < r[v]
            BY <5>2, <5>5
          <6>2. r[c] < x
            BY <3>3, <3>4, <5>4, <6>1
          <6> QED BY <3>5, <5>1, <5>4, <5>5, <6>2
        <5>6. CASE e # v
          BY <3>5, <5>1, <5>2, <5>4, <5>6
        <5> QED BY <5>5, <5>6
      <4> QED BY <4>1, <4>2
    <3>7. Ranks(q, G, torn')
      BY <3>6 DEF Ranks
    <3> QED BY <3>5, <3>7 DEF Ranked, G
  <2> QED BY <1>3, <2>2, <2>3, <2>4 DEF FirstCopy, k
<1>4. SetFails \/ SetWorks
  BY SetStep
<1> QED BY <1>2, <1>3, <1>4 DEF SetFails, SetWorks, SecondCopy

Ordered == Inv /\ Staged /\ Ranked

\* An empty volume.
LEMMA InitFree ==
  ASSUME Init, NEW c \in Cluster
  PROVE  Get(fat[1], c) = FREE
<1> DEFINE z == [lo |-> 0, hi |-> 0]
<1>1. fat[1] = [b \in FatByte |-> z]
  BY DEF Init, Copy
<1>2. Offset(c) \in FatByte /\ Offset(c) + 1 \in FatByte
  <2>1. [b \in FatByte |-> z] \in Table
    BY FatEntryAssumption DEF Table, Byte, Digit
  <2> QED BY <2>1, EntryHeld DEF Holds
<1>3. fat[1][Offset(c)] = z /\ fat[1][Offset(c) + 1] = z
  BY <1>1, <1>2
<1>4. Joined(0, 0, 0) = FREE
  BY FatEntryAssumption DEF Joined, FREE
<1> QED BY <1>3, <1>4 DEF Get

LEMMA InitOrdered == Init => Ordered
<1> SUFFICES ASSUME Init PROVE Ordered
  OBVIOUS
<1>1. Inv
  BY InitInv
<1>2. Staged
  BY StageIdle DEF Init, Staged
<1>3. Ranked
  <2> DEFINE r == [c \in Cluster |-> 0]
  <2>1. ASSUME NEW c \in Cluster PROVE Get(fat[1], c) = FREE
    BY InitFree
  <2>2. r \in [Cluster -> Nat]
    OBVIOUS
  <2>3. Ranks(r, fat[1], torn)
    BY <2>1, Ends DEF Ranks
  <2> QED BY <2>2, <2>3 DEF Ranked
<1> QED BY <1>1, <1>2, <1>3 DEF Ordered

LEMMA NextOrdered == Ordered /\ [Next]_vars => Ordered'
<1> SUFFICES ASSUME Ordered, [Next]_vars PROVE Ordered'
  OBVIOUS
<1>0. Inv /\ Staged /\ Ranked
  BY DEF Ordered
<1>1. Inv'
  BY <1>0, NextInv
<1>2. CASE SetSector
  <2>1. Staged' /\ Ranked'
    BY <1>0, <1>2, SetStage, SetRanked
  <2> QED BY <1>1, <2>1 DEF Ordered
<1>3. CASE Staged' /\ fat'[1] = fat[1] /\ torn' = torn
  <2>1. Ranked'
    BY <1>0, <1>3 DEF Ranked
  <2> QED BY <1>1, <1>3, <2>1 DEF Ordered
<1>4. CASE Later /\ ~ SetSector
  BY <1>0, <1>3, <1>4, OtherStage
<1>5. CASE \E n \in Name : StartDelete(n) \/ \E len \in 0..MaxLen : StartWrite(n, len)
  BY <1>0, <1>3, <1>5, StartStage
<1>6. CASE UNCHANGED vars
  <2>1. fat' = fat /\ torn' = torn /\ op' = op
    BY <1>6 DEF vars, disk
  <2>2. Staged'
    BY <1>0, <2>1 DEF Staged
  <2> QED BY <1>3, <2>1, <2>2
<1> QED BY <1>2, <1>4, <1>5, <1>6, NextIs

------------------------------------------------------------------------------
(* Fat12: walks along a chain. *)

\* The entry that follows c in table F; and a walk along F of m steps from every entry.
Onwards(F, c) == IF c \in Cluster THEN Get(F, c) ELSE c
Stepping(g, F, n) == [h \in Value |-> IF n = 0 THEN h ELSE Onwards(F, g[n - 1][h])]
Walks(g, F, m) == g = [n \in 0..m |-> Stepping(g, F, n)]

LEMMA WalkOn ==
  ASSUME NEW F, NEW k \in Nat \ {0}, NEW g, Walks(g, F, k - 1)
  PROVE  \E f : Walks(f, F, k)
<1> DEFINE f == [n \in 0..k |-> IF n < k THEN g[n] ELSE Stepping(g, F, k)]
<1>1. \A n \in 0..(k - 1) : g[n] = Stepping(g, F, n)
  <2> DEFINE s(n) == Stepping(g, F, n)
  <2> HIDE DEF s
  <2>1. g = [n \in 0..(k - 1) |-> s(n)]
    BY Zenon DEF Walks, s
  <2>2. \A n \in 0..(k - 1) : g[n] = s(n)
    BY <2>1
  <2> QED BY <2>2 DEF s
<1>2. \A n \in 0..k : f[n] = IF n < k THEN g[n] ELSE Stepping(g, F, k)
  OBVIOUS
<1>3. f = [n \in 0..k |-> f[n]]
  OBVIOUS
<1> HIDE DEF f
<1>4. ASSUME NEW n \in 0..k PROVE f[n] = Stepping(f, F, n)
  <2>1. CASE n = 0
    <3>1. f[n] = Stepping(g, F, 0)
      BY <1>1, <1>2, <2>1
    <3>2. Stepping(g, F, 0) = Stepping(f, F, 0)
      BY DEF Stepping
    <3> QED BY <2>1, <3>1, <3>2
  <2>2. CASE n # 0
    <3>1. n \in 0..(k - 1) \/ n = k
      OBVIOUS
    <3>2. f[n] = Stepping(g, F, n)
      BY <1>1, <1>2, <3>1
    <3>3. f[n - 1] = g[n - 1]
      <4>1. n - 1 \in 0..k /\ n - 1 < k
        BY <2>2
      <4> QED BY <1>2, <4>1
    <3>4. Stepping(g, F, n) = Stepping(f, F, n)
      BY <3>3 DEF Stepping
    <3> QED BY <3>2, <3>4
  <2> QED BY <2>1, <2>2
<1>5. [n \in 0..k |-> f[n]] = [n \in 0..k |-> Stepping(f, F, n)]
  BY <1>4, Zenon
<1>6. Walks(f, F, k)
  BY <1>3, <1>5, Zenon DEF Walks
<1> QED BY <1>6

LEMMA WalksExist ==
  ASSUME NEW F, NEW n \in Nat
  PROVE  \E g : Walks(g, F, n)
<1> DEFINE Bad == {k \in Nat : ~ \E g : Walks(g, F, k)}
<1>1. 0 \notin Bad
  <2> DEFINE x == [h \in Value |-> h]
             g == [i \in 0..0 |-> x]
  <2>1. \A i \in 0..0 : i = 0
    OBVIOUS
  <2>2. ASSUME NEW i \in 0..0 PROVE Stepping(g, F, i) = x
    BY <2>1 DEF Stepping
  <2>3. Walks(g, F, 0)
    <3>1. [i \in 0..0 |-> x] = [i \in 0..0 |-> Stepping(g, F, i)]
      <4> HIDE DEF x, g
      <4> QED BY <2>2, Zenon
    <3> QED BY <3>1, Zenon DEF Walks
  <2> HIDE DEF g
  <2> QED BY <2>3
<1>2. SUFFICES ASSUME n \in Bad PROVE FALSE
  BY Zenon
<1>3. PICK k \in Bad : \A m \in Bad : k <= m
  <2>1. Bad \in SUBSET Nat /\ Bad # {}
    BY <1>2
  <2> HIDE DEF Bad
  <2> QED BY <2>1, HasLeast
<1>4. k \in Nat \ {0} /\ k - 1 \in Nat /\ ~ (k <= k - 1)
  BY <1>1, <1>3
<1>5. \E g : Walks(g, F, k - 1)
  BY <1>3, <1>4
<1>6. \E g : Walks(g, F, k)
  BY <1>4, <1>5, WalkOn
<1> QED BY <1>3, <1>6

\* The n-th cluster of a chain, step by step.
LEMMA NthGives ==
  \A h \in Value : /\ Nth(h, 0) = h
                   /\ \A n \in 1..LastCluster : Nth(h, n) = Onwards(fat[1], Nth(h, n - 1))
<1> DEFINE F == fat[1]
<1>1. Walk = CHOOSE g : Walks(g, F, LastCluster)
  BY Zenon DEF Walk, Walks, Stepping, Onwards, FatGet
<1>2. LastCluster \in Nat
  BY FatAssumption
<1> HIDE DEF F
<1>3. \E g : Walks(g, F, LastCluster)
  BY <1>2, WalksExist
<1>4. Walks(Walk, F, LastCluster)
  BY <1>1, <1>3, Zenon
<1> SUFFICES ASSUME NEW h \in Value
             PROVE  /\ Nth(h, 0) = h
                    /\ \A n \in 1..LastCluster : Nth(h, n) = Onwards(F, Nth(h, n - 1))
  BY DEF F
<1> DEFINE g == Walk
<1>a. \A n : Nth(h, n) = g[n][h]
  BY DEF Nth
<1> HIDE DEF g
<1>5. Walks(g, F, LastCluster)
  BY <1>4 DEF g
<1>6. \A n \in 0..LastCluster : g[n][h] = IF n = 0 THEN h ELSE Onwards(F, g[n - 1][h])
  <2> DEFINE s(n) == Stepping(g, F, n)
  <2>1. \A n : s(n)[h] = IF n = 0 THEN h ELSE Onwards(F, g[n - 1][h])
    BY DEF Stepping
  <2> HIDE DEF s
  <2>2. g = [n \in 0..LastCluster |-> s(n)]
    BY <1>5, Zenon DEF Walks, s
  <2>3. \A n \in 0..LastCluster : g[n] = s(n)
    BY <2>2
  <2> QED BY <2>1, <2>3
<1>7. g[0][h] = h /\ \A n \in 1..LastCluster : g[n][h] = Onwards(F, g[n - 1][h])
  BY <1>2, <1>6
<1> QED BY <1>a, <1>7

\* A path that meets no cluster twice is shorter than the volume.
LEMMA PathShort ==
  ASSUME NEW n \in Nat, NEW p \in [0..n -> Cluster],
         \A i, j \in 0..n : p[i] = p[j] => i = j
  PROVE  n <= LastCluster - 2
<1> DEFINE S == 0..n
<1>0. LastCluster \in Nat /\ LastCluster > 1
  BY FatAssumption
<1>1. IsFiniteSet(S) /\ Cardinality(S) = n + 1
  BY FS_Interval
<1>2. IsFiniteSet(Cluster) /\ Cardinality(Cluster) = LastCluster - 1
  BY <1>0, FS_Interval DEF Cluster
<1>3. SUFFICES ASSUME Cardinality(Cluster) < Cardinality(S) PROVE FALSE
  BY <1>0, <1>1, <1>2
<1>4. \A i, j \in S : p[i] = p[j] => i = j
  OBVIOUS
<1>5. p \in [S -> Cluster]
  OBVIOUS
<1> HIDE DEF S
<1>6. \E i, j \in S : i # j /\ p[i] = p[j]
  BY <1>1, <1>2, <1>3, <1>5, FS_PigeonHole
<1> QED BY <1>4, <1>6

\* Once a chain has left the clusters it stays where it is.
LEMMA NthInside ==
  ASSUME NEW h \in Value, NEW m \in 0..LastCluster, Nth(h, m) \in Cluster, NEW k \in 0..m
  PROVE  Nth(h, k) \in Cluster
<1> DEFINE f(n) == Nth(h, n)
           In == {n \in Nat : n <= m /\ k <= n /\ f(n) \in Cluster}
<1>0. LastCluster \in Nat /\ m \in Nat /\ k \in Nat /\ k <= m
  BY FatAssumption
<1>1. \A n \in 1..LastCluster : f(n) = Onwards(fat[1], f(n - 1))
  BY NthGives
<1>2. f(m) \in Cluster
  OBVIOUS
<1> HIDE DEF f
<1>3. PICK n \in In : \A i \in In : n <= i
  <2>1. In \in SUBSET Nat /\ m \in In
    BY <1>0, <1>2
  <2> HIDE DEF In
  <2> QED BY <2>1, HasLeast
<1>4. n = k
  <2> SUFFICES ASSUME n # k PROVE FALSE
    OBVIOUS
  <2>1. n \in 1..LastCluster /\ n - 1 \in Nat /\ n - 1 <= m /\ k <= n - 1 /\ ~ (n <= n - 1)
    BY <1>0, <1>3
  <2>2. f(n - 1) \notin Cluster
    BY <1>3, <2>1
  <2>3. f(n) = f(n - 1)
    BY <1>1, <2>1, <2>2 DEF Onwards
  <2> QED BY <1>3, <2>2, <2>3
<1> QED BY <1>3, <1>4 DEF f

\* Ranks grow along a walk through untorn entries.
LEMMA RanksGrow ==
  ASSUME NEW F, NEW T, NEW r \in [Cluster -> Nat], Ranks(r, F, T),
         NEW n \in Nat, NEW p \in [0..n -> Cluster],
         \A i \in 1..n : p[i - 1] \notin T /\ p[i] = Get(F, p[i - 1]),
         NEW i \in 0..n, NEW j \in 0..n, i < j
  PROVE  r[p[i]] < r[p[j]]
<1> DEFINE Bad == {m \in Nat : m <= n /\ i < m /\ ~ (r[p[i]] < r[p[m]])}
<1> SUFFICES ASSUME j \in Bad PROVE FALSE
  OBVIOUS
<1>1. PICK m \in Bad : \A k \in Bad : m <= k
  <2>1. Bad \in SUBSET Nat /\ Bad # {}
    OBVIOUS
  <2> HIDE DEF Bad
  <2> QED BY <2>1, HasLeast
<1>2. m \in 1..n /\ m - 1 \in 0..n /\ m - 1 \in Nat /\ m - 1 <= n /\ ~ (m <= m - 1)
  BY <1>1
<1>3. p[m - 1] \in Cluster \ T /\ p[m] = Get(F, p[m - 1]) /\ p[m] \in Cluster
  BY <1>2
<1>4. r[p[m - 1]] < r[p[m]]
  BY <1>3 DEF Ranks
<1>5. r[p[m - 1]] \in Nat /\ r[p[m]] \in Nat /\ r[p[i]] \in Nat
  BY <1>3
<1>6. CASE m - 1 = i
  BY <1>1, <1>4, <1>6
<1>7. CASE m - 1 # i
  <2>1. i < m - 1
    BY <1>1, <1>2, <1>7
  <2>2. r[p[i]] < r[p[m - 1]]
    BY <1>1, <1>2, <2>1
  <2>3. r[p[i]] < r[p[m]]
    BY <1>4, <1>5, <2>2
  <2> QED BY <1>1, <2>3
<1> QED BY <1>6, <1>7

\* Whatever fails or is interrupted, a chain that does not end goes through an entry torn
\* by fat_set (ChainsAcyclic): the ranks grow along every other entry, since
\* fat_alloc_cluster links a cluster that leads nowhere, and a walk of more steps than
\* there are clusters would come back to a rank it has passed.
THEOREM NoCycles == Spec => []ChainsAcyclic
<1>1. Ordered => ChainsAcyclic
  <2> SUFFICES ASSUME Ordered, NEW c \in Cluster, Nth(c, LastCluster) \in Cluster,
                      Chain(c) \cap torn = {}
               PROVE  FALSE
    BY DEF ChainsAcyclic
  <2>0. LastCluster \in Nat /\ c \in Value
    BY FatAssumption, ClusterNat
  <2>1. PICK r \in [Cluster -> Nat] : Ranks(r, fat[1], torn)
    BY DEF Ordered, Ranked
  <2> DEFINE L == LastCluster
             p == [n \in 0..L |-> Nth(c, n)]
  <2>2. ASSUME NEW n \in 0..L PROVE Nth(c, n) \in Cluster \ torn
    <3>1. Nth(c, n) \in Cluster
      BY <2>0, NthInside
    <3>2. Nth(c, n) \in Chain(c)
      BY <3>1 DEF Chain
    <3> QED BY <3>1, <3>2
  <2>3. p \in [0..L -> Cluster] /\ \A n \in 0..L : p[n] = Nth(c, n)
    <3>1. \A n \in 0..L : Nth(c, n) \in Cluster
      BY <2>2
    <3> QED BY <3>1
  <2> HIDE DEF p
  <2>4. ASSUME NEW n \in 1..L PROVE p[n - 1] \notin torn /\ p[n] = Get(fat[1], p[n - 1])
    <3>1. n - 1 \in 0..L /\ n \in 0..L
      BY <2>0
    <3>2. Nth(c, n) = Onwards(fat[1], Nth(c, n - 1))
      BY <2>0, NthGives
    <3> QED BY <2>2, <2>3, <3>1, <3>2 DEF Onwards
  <2>5. ASSUME NEW i \in 0..L, NEW j \in 0..L, p[i] = p[j] PROVE i = j
    <3>1. ASSUME NEW k \in 0..L, NEW l \in 0..L, k < l PROVE r[p[k]] < r[p[l]]
      <4> DEFINE F == fat[1]
                 T == torn
                 m == L
      <4>1. /\ Ranks(r, F, T) /\ m \in Nat /\ p \in [0..m -> Cluster]
            /\ \A n \in 1..m : p[n - 1] \notin T /\ p[n] = Get(F, p[n - 1])
            /\ k \in 0..m /\ l \in 0..m /\ k < l
        BY <2>0, <2>1, <2>3, <2>4, <3>1
      <4> HIDE DEF F, T, m
      <4> QED BY <4>1, RanksGrow
    <3>2. r[p[i]] \in Nat /\ r[p[j]] \in Nat
      BY <2>3
    <3>3. i < j => r[p[i]] < r[p[j]]
      BY <3>1
    <3>4. j < i => r[p[j]] < r[p[i]]
      BY <3>1
    <3> QED BY <2>0, <2>5, <3>2, <3>3, <3>4
  <2>6. L <= LastCluster - 2
    BY <2>0, <2>3, <2>5, PathShort
  <2> QED BY <2>0, <2>6
<1> QED BY <1>1, InitOrdered, NextOrdered, PTL DEF Spec

------------------------------------------------------------------------------
(* Fat12: chains stay on the disk. *)

Calm == faults = 0 /\ crashes = 0

LEMMA StillCalm ==
  ASSUME Volume, Calm'
  PROVE  faults' # faults + 1 /\ crashes' # crashes + 1
<1>1. faults \in Nat /\ crashes \in Nat
  BY FatAssumption DEF Volume
<1>2. faults' = 0 /\ crashes' = 0
  BY DEF Calm
<1> QED BY <1>1, <1>2

\* Only a torn entry leads off the disk.
Tied == \A c \in Cluster : FatGet(c) \in Beyond => c \in torn

\* While nothing failed no entry does but the one fat_set is at work on, and neither does
\* what the operation holds or a file begins with.
OnDisk(o) ==
  /\ o.pc \in {"free", "remove"} => o.c \notin Beyond
  /\ Calls(o, "free") => o.next \notin Beyond
  /\ o.first \notin Beyond
EntriesOn == \A c \in Cluster : FatGet(c) \in Beyond => op.pc = "set" /\ op.set.c = c
HeadsOn == \A s \in Slot : IsFile(s) => dir[s].head \notin Beyond
Tame == Calm => ~ astray /\ OnDisk(op) /\ EntriesOn /\ HeadsOn

LEMMA IdleOn == OnDisk(Idle)
BY IdleSound, Ends DEF OnDisk, Calls, Idle

LEMMA ChainedOn ==
  ASSUME NEW o, NEW p, NEW c, NEW then, Chained(o, p, c, then), c \notin Beyond,
         o.first \notin Beyond
  PROVE  OnDisk(p)
<1>1. CASE p = Idle
  BY <1>1, IdleOn
<1>2. CASE p.pc = "free" /\ p.c = c /\ SameChain(o, p)
  BY <1>2 DEF OnDisk, Calls, SameChain
<1>3. CASE p.pc \in {"alloc", "entry"} /\ SameChain(o, p)
  BY <1>3 DEF OnDisk, Calls, SameChain
<1> QED BY <1>1, <1>2, <1>3 DEF Chained

LEMMA AppendedOn ==
  ASSUME NEW o, NEW p, Appended(o, p), o.c \in Cluster, o.first \notin Beyond
  PROVE  OnDisk(p)
<1>1. p.first \notin Beyond
  BY Ends DEF Appended
<1>2. p.pc \in {"alloc", "stream"}
  BY DEF Appended
<1> QED BY <1>1, <1>2 DEF OnDisk, Calls

\* What fat_set stores leads nowhere or to a cluster.
LEMMA ValueOn ==
  ASSUME Inv, Staged, op.pc = "set"
  PROVE  op.set.value \notin Beyond
<1>1. op.set.for \in {"free", "mark", "link"} /\ (op.set.for = "link" => op.c \in Cluster)
  BY DEF Inv, Sound, Ops, Setting
<1>2. /\ op.set.for = "free" => op.set.value = FREE
      /\ op.set.for = "mark" => op.set.value = EOC
      /\ op.set.for = "link" => op.set.value = op.c
  BY DEF Staged, Stage, Calls
<1> QED BY <1>1, <1>2, Ends

LEMMA SetTied ==
  ASSUME Inv, Staged, Tied, SetSector
  PROVE  Tied'
<1>1. op.pc = "set" /\ op.set.value \notin Beyond
  BY ValueOn DEF SetSector
<1>2. CASE fat'[1] = fat[1] /\ torn' = torn
  BY <1>2 DEF Tied, FatGet
<1>3. CASE FirstCopy
  <2>1. ASSUME NEW c \in Cluster, Get(fat'[1], c) \in Beyond PROVE c \in torn'
    <3>1. CASE c = op.set.c
      BY <1>1, <1>3, <2>1, <3>1 DEF FirstCopy
    <3>2. CASE c # op.set.c
      <4>1. FatGet(c) \in Beyond
        BY <1>3, <2>1, <3>2 DEF FirstCopy, FatGet
      <4>2. c \in torn
        BY <4>1 DEF Tied
      <4> QED BY <1>3, <3>2, <4>2 DEF FirstCopy
    <3> QED BY <3>1, <3>2
  <2> QED BY <2>1 DEF Tied, FatGet
<1> QED BY <1>2, <1>3, SetStep DEF SetFails, SetWorks, SecondCopy

LEMMA SetTame ==
  ASSUME Inv, Staged, Tame, SetSector
  PROVE  Tame'
<1> DEFINE k == op.set.c
<1>0. /\ op.pc = "set" /\ op.set.for \in {"free", "mark", "link"}
      /\ (op.set.for # "free" => op.c \in Cluster)
  BY DEF Inv, SetSector, Sound, Ops, Setting
<1>1. SUFFICES ASSUME Calm' PROVE Tame'
  BY DEF Tame
<1>2. SetWorks /\ Calm
  <2>1. SetFails \/ SetWorks
    BY SetStep
  <2>2. ~ SetFails
    BY <1>1, StillCalm DEF SetFails, Inv
  <2>3. SetWorks
    BY <2>1, <2>2
  <2> QED BY <1>1, <2>3 DEF SetWorks, Calm
<1>3. ~ astray /\ OnDisk(op) /\ EntriesOn /\ HeadsOn /\ op.set.value \notin Beyond
  BY <1>0, <1>2, ValueOn DEF Tame
<1>4. ~ astray' /\ HeadsOn'
  <2>1. astray' = astray
    BY <1>0, LaterKeeps DEF Inv, Later, Kept, Stray, At
  <2>2. dir' = dir
    BY <1>2 DEF SetWorks
  <2> QED BY <1>3, <2>1, <2>2 DEF HeadsOn, IsFile
<1>5. CASE SameSet(op, op') /\ \A d \in Cluster : d # k => Get(fat'[1], d) = Get(fat[1], d)
  <2>1. /\ op'.pc = "set" /\ op'.set.c = k /\ op'.set.for = op.set.for
        /\ op'.next = op.next /\ op'.first = op.first
    BY <1>5 DEF SameSet, SameChain
  <2>2. OnDisk(op')
    BY <1>0, <1>3, <2>1 DEF OnDisk, Calls
  <2>3. EntriesOn'
    BY <1>3, <1>5, <2>1 DEF EntriesOn, FatGet
  <2> QED BY <1>4, <2>2, <2>3 DEF Tame
<1>6. CASE /\ Returned(op, op', TRUE) /\ fat'[1] = fat[1] /\ FatGet(k) = op.set.value
  <2>1. EntriesOn'
    BY <1>0, <1>3, <1>6 DEF EntriesOn, FatGet
  <2>2. op.first \notin Beyond /\ (op.set.for = "free" => op.next \notin Beyond)
    BY <1>0, <1>3 DEF OnDisk, Calls
  <2>3. CASE op.set.for = "free"
    <3>1. Chained(op, op', op.next, op.then)
      BY <1>6, <2>3 DEF Returned
    <3>2. OnDisk(op')
      BY <2>2, <2>3, <3>1, ChainedOn
    <3> QED BY <1>4, <2>1, <3>2 DEF Tame
  <2>4. CASE op.set.for = "link"
    <3>1. Appended(op, op')
      BY <1>6, <2>4 DEF Returned
    <3>2. OnDisk(op')
      BY <1>0, <2>2, <2>4, <3>1, AppendedOn
    <3> QED BY <1>4, <2>1, <3>2 DEF Tame
  <2>5. CASE op.set.for = "mark"
    <3>1. op'.pc = "zero" /\ op'.first = op.first
      BY <1>6, <2>5 DEF Returned, SameChain
    <3>2. OnDisk(op')
      BY <2>2, <3>1 DEF OnDisk, Calls
    <3> QED BY <1>4, <2>1, <3>2 DEF Tame
  <2> QED BY <1>0, <2>3, <2>4, <2>5
<1> QED BY <1>2, <1>5, <1>6 DEF SetWorks, SecondCopy, FirstCopy

\* While nothing failed, no step leaves the disk.
LEMMA CalmStep ==
  ASSUME Inv, Staged, Tame, Later, ~ SetSector, Calm'
  PROVE  Calm /\ ~ Fault /\ ~ Fails /\ ~ Crash /\ ~ Stray /\ fat' = fat /\ astray' = astray
<1>0. Volume /\ Sound(op)
  BY DEF Inv
<1>1. ~ Failed /\ ~ Crash
  BY <1>0, StillCalm DEF Failed, Crash
<1>2. ~ Fault /\ ~ Fails
  BY <1>1 DEF Fault, Fails
<1>3. faults' = faults /\ crashes' = crashes
  BY <1>1, <1>2 DEF Later, Remove, FreeNext, Stray, Allocate, NoSpace, ZeroCluster, Stream,
                    WriteEntry, Works
<1>4. Calm
  BY <1>3 DEF Calm
<1>5. ~ Stray
  BY <1>4 DEF Tame, OnDisk, Stray, At
<1>6. fat' = fat /\ astray' = astray
  BY <1>0, <1>5, LaterKeeps DEF Kept
<1> QED BY <1>1, <1>2, <1>4, <1>5, <1>6

LEMMA OtherTame ==
  ASSUME Inv, Staged, Tame, Later, ~ SetSector
  PROVE  Tame'
<1>0. /\ Volume /\ Sound(op) /\ Stage(op, fat[1]) /\ op \in Ops
      /\ op.c \in Value /\ op.first \in Value
  BY DEF Inv, Staged, Sound, Ops
<1>1. SUFFICES ASSUME Calm' PROVE Tame'
  BY DEF Tame
<1>2. Calm /\ ~ Fault /\ ~ Fails /\ ~ Crash /\ ~ Stray /\ fat' = fat /\ astray' = astray
  BY <1>1, CalmStep
<1>3. ~ astray /\ OnDisk(op) /\ EntriesOn /\ HeadsOn /\ op.first \notin Beyond
  BY <1>2 DEF Tame, OnDisk
<1>4. op.pc # "set"
  BY <1>2 DEF Later, Remove, FreeNext, Allocate, NoSpace, ZeroCluster, Stream, WriteEntry, At
<1>5. \A c \in Cluster : FatGet(c) \notin Beyond /\ Get(fat'[1], c) \notin Beyond
  BY <1>2, <1>3, <1>4 DEF EntriesOn, FatGet
<1>6. EntriesOn'
  BY <1>5 DEF EntriesOn, FatGet
<1>7. HeadsOn'
  <2>1. CASE dir' = dir
    BY <1>3, <2>1 DEF HeadsOn, IsFile
  <2>2. CASE dir' = [dir EXCEPT ![op.slot] = Deleted]
    <3>1. Deleted.kind # "file" /\ \A s \in Slot : dir'[s] = IF s = op.slot THEN Deleted ELSE dir[s]
      BY <1>0, <2>2 DEF Volume, Deleted, End
    <3> QED BY <1>3, <3>1 DEF HeadsOn, IsFile
  <2>3. CASE dir' = [dir EXCEPT ![op.slot] = File(op.name, op.first, op.len)]
    <3> DEFINE e == File(op.name, op.first, op.len)
    <3>1. e.head = op.first /\ \A s \in Slot : dir'[s] = IF s = op.slot THEN e ELSE dir[s]
      BY <1>0, <2>3 DEF Volume, File
    <3> HIDE DEF e
    <3> QED BY <1>3, <3>1 DEF HeadsOn, IsFile
  <2> QED BY <1>2, <2>1, <2>2, <2>3
          DEF Later, Remove, FreeNext, Allocate, NoSpace, ZeroCluster, Stream, WriteEntry,
              Fill, disk
<1>8. OnDisk(op')
  <2>1. CASE Remove
    <3>1. op.pc = "remove" /\ Chained(op, op', op.c, "return")
      BY <1>0, <1>2, <2>1, FreeChainGives DEF Remove, At
    <3> QED BY <1>3, <3>1, ChainedOn DEF OnDisk
  <2>2. CASE FreeNext
    <3>1. FreesFrom(FatGet(op.c)) /\ op.c \in Cluster
      BY <1>0, <1>2, <2>2, FreeNextGives
    <3>2. op'.pc = "set" /\ op'.next \notin Beyond /\ op'.first = op.first
      BY <1>5, <3>1 DEF FreesFrom, SameChain
    <3> QED BY <1>3, <3>2 DEF OnDisk
  <2>3. CASE Allocate
    <3>1. PICK c \in FreeClusters : Marking(c)
      BY <1>0, <2>3, AllocateGives
    <3>2. op'.pc = "set" /\ op'.set.for = "mark" /\ op'.first = op.first
      BY <3>1 DEF Marking, SameChain
    <3> QED BY <1>3, <3>2 DEF OnDisk, Calls
  <2>4. CASE NoSpace
    <3>1. Chained(op, op', op.first, "return")
      BY <1>0, <2>4, FreeChainGives DEF NoSpace, GiveUp
    <3> QED BY <1>3, <3>1, ChainedOn
  <2>5. CASE ZeroCluster
    <3>1. op.c \in Cluster /\ Zeroed
      BY <1>0, <1>2, <2>5, ZeroGives
    <3>2. CASE Appended(op, op')
      BY <1>3, <3>1, <3>2, AppendedOn
    <3>3. CASE Sets(op, op', op.prev, op.c, "link")
      <4>1. op'.pc = "set" /\ op'.set.for = "link" /\ op'.first = op.first
        BY <3>3 DEF Sets, SameChain
      <4> QED BY <1>3, <4>1 DEF OnDisk, Calls
    <3> QED BY <3>1, <3>2, <3>3 DEF Zeroed
  <2>6. CASE Stream
    <3>1. \/ op'.pc \in {"stream", "entry"} /\ op'.first = op.first
          \/ Chained(op, op', op.first, "return")
      BY <1>0, <2>6, StreamGives DEF Paid, Moved
    <3>2. CASE op'.pc \in {"stream", "entry"} /\ op'.first = op.first
      BY <1>3, <3>2 DEF OnDisk, Calls
    <3> QED BY <1>3, <3>1, <3>2, ChainedOn
  <2>7. CASE WriteEntry
    BY <2>7, IdleOn DEF WriteEntry
  <2> QED BY <1>2, <2>1, <2>2, <2>3, <2>4, <2>5, <2>6, <2>7 DEF Later
<1> QED BY <1>2, <1>3, <1>6, <1>7, <1>8 DEF Tame

LEMMA StartTame ==
  ASSUME Inv, Tame, NEW n \in Name,
         StartDelete(n) \/ \E len \in 0..MaxLen : StartWrite(n, len)
  PROVE  Tame'
<1> DEFINE s == FindSlot(n)
<1>0. /\ Volume /\ dir' = dir /\ fat' = fat /\ op.pc = "idle" /\ (Exists(n) \/ Unused # {})
      /\ faults' = faults /\ crashes' = crashes /\ astray' = astray
  BY StartKeeps DEF Inv
<1>1. SUFFICES ASSUME Calm' PROVE Tame'
  BY DEF Tame
<1>2. Calm
  BY <1>0, <1>1 DEF Calm
<1>3. ~ astray /\ EntriesOn /\ HeadsOn
  BY <1>2 DEF Tame
<1>4. ~ astray' /\ EntriesOn' /\ HeadsOn'
  <2>1. EntriesOn'
    BY <1>0, <1>3 DEF EntriesOn, FatGet
  <2>2. HeadsOn'
    BY <1>0, <1>3 DEF HeadsOn, IsFile
  <2> QED BY <1>0, <1>3, <2>1, <2>2
<1>5. Exists(n) => dir[s].head \notin Beyond
  <2>1. s \in Slot /\ (Exists(n) => s \in Matches(n))
    BY <1>0, SlotFound
  <2> HIDE DEF s
  <2> QED BY <1>3, <2>1 DEF HeadsOn, Matches, IsFile
<1> HIDE DEF s
<1>6. CASE StartDelete(n)
  <2>1. BegunDelete(n) /\ Exists(n)
    BY <1>6, StartDeleteGives DEF StartDelete
  <2>2. op'.pc = "remove" /\ op'.c = dir[s].head /\ op'.first = FREE
    BY <2>1 DEF BegunDelete, s
  <2>3. OnDisk(op')
    BY <1>5, <2>1, <2>2, Ends DEF OnDisk, Calls
  <2> QED BY <1>4, <2>3 DEF Tame
<1>7. ASSUME NEW len \in 0..MaxLen, StartWrite(n, len)
      PROVE  Tame'
  <2> DEFINE c == IF Exists(n) THEN dir[s].head ELSE FREE
  <2>1. PICK o \in Ops : Blank(o, n, len) /\ Chained(o, op', c, "alloc")
    BY <1>0, <1>7, StartWriteGives DEF BegunWrite, s
  <2>2. c \notin Beyond /\ o.first \notin Beyond
    BY <1>5, <2>1, Ends DEF Blank
  <2> HIDE DEF c
  <2>3. OnDisk(op')
    BY <2>1, <2>2, ChainedOn
  <2> QED BY <1>4, <2>3 DEF Tame
<1> QED BY <1>6, <1>7

\* Chains run on, on the disk.
Confined == Ordered /\ Tied /\ Tame

LEMMA InitConfined == Init => Confined
<1> SUFFICES ASSUME Init PROVE Confined
  OBVIOUS
<1>1. ASSUME NEW c \in Cluster PROVE FatGet(c) \notin Beyond
  BY InitFree, Ends DEF FatGet
<1>2. ~ astray /\ OnDisk(op) /\ HeadsOn
  BY IdleOn DEF Init, HeadsOn, IsFile, End
<1> QED BY <1>1, <1>2, InitOrdered DEF Confined, Tied, Tame, EntriesOn

LEMMA NextConfined == Confined /\ [Next]_vars => Confined'
<1> SUFFICES ASSUME Confined, [Next]_vars PROVE Confined'
  OBVIOUS
<1>0. Ordered /\ Inv /\ Staged /\ Tied /\ Tame
  BY DEF Confined, Ordered
<1>1. Ordered'
  BY <1>0, NextOrdered
<1>2. CASE SetSector
  BY <1>0, <1>1, <1>2, SetTied, SetTame DEF Confined
<1>3. fat'[1] = fat[1] /\ torn' = torn => Tied'
  BY <1>0 DEF Tied, FatGet
<1>4. CASE Later /\ ~ SetSector
  BY <1>0, <1>1, <1>3, <1>4, OtherStage, OtherTame DEF Confined
<1>5. CASE \E n \in Name : StartDelete(n) \/ \E len \in 0..MaxLen : StartWrite(n, len)
  BY <1>0, <1>1, <1>3, <1>5, StartStage, StartTame DEF Confined
<1>6. CASE UNCHANGED vars
  <2>1. /\ fat' = fat /\ dir' = dir /\ op' = op /\ faults' = faults /\ crashes' = crashes
        /\ torn' = torn /\ astray' = astray
    BY <1>6 DEF vars, disk
  <2>2. Tame'
    BY <1>0, <2>1 DEF Tame, Calm, EntriesOn, HeadsOn, IsFile, FatGet
  <2> QED BY <1>1, <1>3, <2>1, <2>2, <1>0 DEF Confined
<1> QED BY <1>2, <1>4, <1>5, <1>6, NextIs

\* Only an entry half written leads off the disk, and fat_free_chain follows it there, over
\* the second FAT copy and the root directory, only after a failed command or a restart
\* (OnTheDisk): fat_set never stores a cluster number the disk does not have.
THEOREM StaysOnDisk == Spec => []OnTheDisk
<1>1. Confined => OnTheDisk
  BY DEF Confined, Tied, Tame, Calm, OnTheDisk
<1> QED BY <1>1, InitConfined, NextConfined, PTL DEF Spec

------------------------------------------------------------------------------
(* Fat12: what is reached along a table. *)

\* Path p along table F leads from x to c in n steps, and does not pass through w.
Path(F, p, n, x, c, w) ==
  /\ p \in [0..n -> Cluster] /\ p[0] = x /\ p[n] = c
  /\ \A i \in 1..n : p[i] = Get(F, p[i - 1]) /\ p[i - 1] # w
Reach(F, x, c, w) == \E n \in Nat : \E p : Path(F, p, n, x, c, w)

LEMMA ReachSelf ==
  ASSUME NEW F, NEW c \in Cluster, NEW w
  PROVE  Reach(F, c, c, w)
<1> DEFINE p == [i \in 0..0 |-> c]
<1>1. Path(F, p, 0, c, c, w)
  BY DEF Path
<1> HIDE DEF p
<1> QED BY <1>1 DEF Reach

LEMMA ReachEnds ==
  ASSUME NEW F, NEW x, NEW c, NEW w, Reach(F, x, c, w)
  PROVE  x \in Cluster /\ c \in Cluster
<1>1. PICK n \in Nat : \E p : Path(F, p, n, x, c, w)
  BY DEF Reach
<1>2. PICK p : Path(F, p, n, x, c, w)
  BY <1>1
<1> QED BY <1>2 DEF Path

\* A path is not affected by a change of the entry it does not pass through,
\* and only asks that other entries be left alone.
LEMMA ReachChanged ==
  ASSUME NEW F, NEW G, NEW x, NEW c, NEW w, Reach(F, x, c, w),
         \A d \in Cluster : d # w => Get(G, d) = Get(F, d)
  PROVE  Reach(G, x, c, w)
<1>1. PICK n \in Nat : \E p : Path(F, p, n, x, c, w)
  BY DEF Reach
<1>2. PICK p : Path(F, p, n, x, c, w)
  BY <1>1
<1>3. ASSUME NEW i \in 1..n PROVE p[i] = Get(G, p[i - 1]) /\ p[i - 1] # w
  <2>1. i - 1 \in 0..n
    OBVIOUS
  <2>2. p[i] = Get(F, p[i - 1]) /\ p[i - 1] # w /\ p[i - 1] \in Cluster
    BY <1>2, <2>1 DEF Path
  <2> QED BY <2>2
<1>4. Path(G, p, n, x, c, w)
  BY <1>2, <1>3 DEF Path
<1> QED BY <1>4 DEF Reach

LEMMA ReachAnyway ==
  ASSUME NEW F, NEW x, NEW c, NEW w, Reach(F, x, c, w)
  PROVE  Reach(F, x, c, FREE)
<1>1. PICK n \in Nat : \E p : Path(F, p, n, x, c, w)
  BY DEF Reach
<1>2. PICK p : Path(F, p, n, x, c, w)
  BY <1>1
<1>3. ASSUME NEW i \in 1..n PROVE p[i - 1] # FREE
  <2>1. i - 1 \in 0..n
    OBVIOUS
  <2> QED BY <1>2, <2>1, Ends DEF Path
<1>4. Path(F, p, n, x, c, FREE)
  BY <1>2, <1>3 DEF Path
<1> QED BY <1>4 DEF Reach

\* A path does not pass through an entry that leads nowhere.
LEMMA ReachAround ==
  ASSUME NEW F, NEW x, NEW c, NEW w, Reach(F, x, c, FREE), Get(F, w) \notin Cluster
  PROVE  Reach(F, x, c, w)
<1>1. PICK n \in Nat : \E p : Path(F, p, n, x, c, FREE)
  BY DEF Reach
<1>2. PICK p : Path(F, p, n, x, c, FREE)
  BY <1>1
<1>3. ASSUME NEW i \in 1..n PROVE p[i - 1] # w
  <2>1. i \in 0..n
    OBVIOUS
  <2> QED BY <1>2, <2>1 DEF Path
<1>4. Path(F, p, n, x, c, w)
  BY <1>2, <1>3 DEF Path
<1> QED BY <1>4 DEF Reach

\* A path from an entry that leads nowhere, or from the one it must not pass through,
\* ends where it begins.
LEMMA ReachNone ==
  ASSUME NEW F, NEW x, NEW c, NEW w, Reach(F, x, c, w), Get(F, x) \notin Cluster \/ x = w
  PROVE  c = x
<1>1. PICK n \in Nat : \E p : Path(F, p, n, x, c, w)
  BY DEF Reach
<1>2. PICK p : Path(F, p, n, x, c, w)
  BY <1>1
<1>3. CASE n = 0
  BY <1>2, <1>3 DEF Path
<1>4. CASE n # 0
  <2>1. 1 \in 1..n /\ 1 \in 0..n /\ 1 - 1 = 0
    BY <1>4
  <2>2. p[1] = Get(F, p[0]) /\ p[0] # w /\ p[1] \in Cluster /\ p[0] = x
    BY <1>2, <2>1 DEF Path
  <2> QED BY <2>2
<1> QED BY <1>3, <1>4

\* One entry more.
LEMMA ReachNext ==
  ASSUME NEW F, NEW x, NEW c, NEW w, Reach(F, x, c, w), Get(F, c) \in Cluster, c # w
  PROVE  Reach(F, x, Get(F, c), w)
<1> DEFINE d == Get(F, c)
<1>1. PICK n \in Nat : \E p : Path(F, p, n, x, c, w)
  BY DEF Reach
<1>2. PICK p : Path(F, p, n, x, c, w)
  BY <1>1
<1>3. d \in Cluster /\ d = Get(F, c)
  OBVIOUS
<1> HIDE DEF d
<1> DEFINE m == n + 1
           q == [i \in 0..m |-> IF i <= n THEN p[i] ELSE d]
<1>4. m \in Nat /\ m = n + 1 /\ 0 \in 0..m /\ m \in 0..m /\ ~ (m <= n) /\ 0 <= n
  OBVIOUS
<1>5. \A i \in 0..m : q[i] = IF i <= n THEN p[i] ELSE d
  OBVIOUS
<1>6. q \in [0..m -> Cluster]
  <2>1. \A i \in 0..m : (IF i <= n THEN p[i] ELSE d) \in Cluster
    BY <1>2, <1>3 DEF Path
  <2> QED BY <2>1
<1> HIDE DEF q, m
<1>7. q[0] = x /\ q[m] = d
  BY <1>2, <1>4, <1>5 DEF Path
<1>8. ASSUME NEW i \in 1..m PROVE q[i] = Get(F, q[i - 1]) /\ q[i - 1] # w
  <2>1. i \in 0..m /\ i - 1 \in 0..m /\ i - 1 <= n
    BY <1>4
  <2>2. q[i - 1] = p[i - 1]
    BY <1>5, <2>1
  <2>3. CASE i <= n
    <3>1. q[i] = p[i] /\ i \in 1..n
      BY <1>5, <2>1, <2>3
    <3> QED BY <1>2, <2>2, <3>1 DEF Path
  <2>4. CASE ~ (i <= n)
    <3>1. q[i] = d /\ i - 1 = n
      BY <1>4, <1>5, <2>1, <2>4
    <3> QED BY <1>2, <1>3, <2>2, <3>1 DEF Path
  <2> QED BY <2>3, <2>4
<1>9. Path(F, q, m, x, d, w)
  BY <1>6, <1>7, <1>8 DEF Path
<1> QED BY <1>4, <1>9 DEF Reach, d

\* The end of a path, from its i-th cluster on.
LEMMA PathSuffix ==
  ASSUME NEW F, NEW p, NEW n \in Nat, NEW x, NEW c, NEW w, Path(F, p, n, x, c, w),
         NEW i \in 0..n
  PROVE  \E q : Path(F, q, n - i, p[i], c, w)
<1> DEFINE m == n - i
           q == [k \in 0..m |-> p[k + i]]
<1>0. m \in Nat /\ i \in Nat /\ 0 \in 0..m /\ m \in 0..m /\ m + i = n /\ 0 + i = i
  OBVIOUS
<1>a. \A k \in 0..m : k + i \in 0..n
  OBVIOUS
<1>1. \A k \in 0..m : q[k] = p[k + i]
  OBVIOUS
<1>2. q \in [0..m -> Cluster]
  <2>1. \A k \in 0..m : p[k + i] \in Cluster
    BY <1>a DEF Path
  <2> QED BY <2>1
<1> HIDE DEF q, m
<1>3. q[0] = p[i] /\ q[m] = c
  BY <1>0, <1>1 DEF Path
<1>4. ASSUME NEW k \in 1..m PROVE q[k] = Get(F, q[k - 1]) /\ q[k - 1] # w
  <2>1. k \in 0..m /\ k - 1 \in 0..m /\ k + i \in 1..n /\ (k - 1) + i = (k + i) - 1
    BY <1>0
  <2>2. q[k] = p[k + i] /\ q[k - 1] = p[(k + i) - 1]
    BY <1>1, <2>1
  <2> QED BY <2>1, <2>2 DEF Path
<1>5. Path(F, q, m, p[i], c, w)
  BY <1>2, <1>3, <1>4 DEF Path
<1> QED BY <1>5 DEF m

\* What is reached is reached without w, or from the entry after w.
LEMMA ReachCut ==
  ASSUME NEW F, NEW x, NEW c, NEW w, Reach(F, x, c, FREE), c # w
  PROVE  Reach(F, x, c, w) \/ Reach(F, Get(F, w), c, w)
<1> DEFINE y == Get(F, w)
           Lengths == {n \in Nat : \E p : Path(F, p, n, x, c, FREE) \/ Path(F, p, n, y, c, FREE)}
<1>1. PICK n \in Lengths : \A m \in Lengths : n <= m
  <2>1. Lengths \in SUBSET Nat /\ Lengths # {}
    BY DEF Reach
  <2> HIDE DEF Lengths
  <2> QED BY <2>1, HasLeast
<1>2. PICK p : Path(F, p, n, x, c, FREE) \/ Path(F, p, n, y, c, FREE)
  BY <1>1
<1>3. PICK z \in {x, y} : Path(F, p, n, z, c, FREE)
  BY <1>2
<1>4. ASSUME NEW i \in 1..n, p[i - 1] = w PROVE FALSE
  <2>1. n \in Nat /\ i \in 0..n /\ n - i \in Nat /\ ~ (n <= n - i)
    BY <1>1
  <2>2. p[i] = y
    BY <1>3, <1>4 DEF Path
  <2>3. \E q : Path(F, q, n - i, p[i], c, FREE)
    BY <1>3, <2>1, PathSuffix
  <2>4. n - i \in Lengths
    BY <2>1, <2>2, <2>3
  <2> HIDE DEF Lengths
  <2> QED BY <1>1, <2>1, <2>4
<1>5. Path(F, p, n, z, c, w)
  BY <1>3, <1>4 DEF Path
<1>6. Reach(F, z, c, w)
  BY <1>1, <1>5 DEF Reach
<1> QED BY <1>3, <1>6

\* The shortest path meets no cluster twice.
LEMMA ShortestPath ==
  ASSUME NEW F, NEW x, NEW c, Reach(F, x, c, FREE)
  PROVE  \E n \in Nat : \E p : /\ Path(F, p, n, x, c, FREE)
                              /\ \A i, j \in 0..n : p[i] = p[j] => i = j
<1> DEFINE Lengths == {n \in Nat : \E p : Path(F, p, n, x, c, FREE)}
<1>1. PICK n \in Lengths : \A m \in Lengths : n <= m
  <2>1. Lengths \in SUBSET Nat /\ Lengths # {}
    BY DEF Reach
  <2> HIDE DEF Lengths
  <2> QED BY <2>1, HasLeast
<1>2. PICK p : Path(F, p, n, x, c, FREE)
  BY <1>1
<1>a. n \in Nat
  BY <1>1
<1>3. ASSUME NEW i \in 0..n, NEW j \in 0..n, i < j, p[i] = p[j] PROVE FALSE
  <2> DEFINE s == j - i
             m == n - s
             q == [k \in 0..m |-> IF k <= i THEN p[k] ELSE p[k + s]]
  <2>1. /\ s \in Nat /\ m \in Nat /\ m + s = n /\ i <= m /\ ~ (n <= m) /\ i + s = j
        /\ 0 \in 0..m /\ m \in 0..m /\ 0 <= i
    BY <1>a, <1>3
  <2>2. \A k \in 0..m : q[k] = IF k <= i THEN p[k] ELSE p[k + s]
    OBVIOUS
  <2>3. q \in [0..m -> Cluster]
    <3>1. \A k \in 0..m : k \in 0..n /\ k + s \in 0..n
      BY <1>a, <2>1
    <3>2. \A k \in 0..m : (IF k <= i THEN p[k] ELSE p[k + s]) \in Cluster
      BY <1>2, <3>1 DEF Path
    <3> QED BY <3>2
  <2> HIDE DEF q, m, s
  <2>4. \A k \in 0..m : k >= i => q[k] = p[k + s]
    <3> SUFFICES ASSUME NEW k \in 0..m, k >= i PROVE q[k] = p[k + s]
      OBVIOUS
    <3>1. CASE k = i
      BY <1>3, <2>1, <2>2, <3>1
    <3>2. CASE k # i
      <4>1. ~ (k <= i)
        BY <3>2
      <4> QED BY <2>2, <4>1
    <3> QED BY <3>1, <3>2
  <2>5. q[0] = x /\ q[m] = c
    <3>1. q[0] = p[0] /\ q[m] = p[m + s]
      BY <2>1, <2>2, <2>4
    <3> QED BY <1>2, <2>1, <3>1 DEF Path
  <2>6. ASSUME NEW k \in 1..m PROVE q[k] = Get(F, q[k - 1]) /\ q[k - 1] # FREE
    <3>1. k \in 0..m /\ k - 1 \in 0..m /\ k \in 1..n /\ k + s \in 1..n /\ (k - 1) + s = (k + s) - 1
      BY <1>a, <2>1
    <3>2. CASE k <= i
      <4>1. q[k] = p[k] /\ q[k - 1] = p[k - 1]
        BY <2>2, <3>1, <3>2
      <4> QED BY <1>2, <3>1, <4>1 DEF Path
    <3>3. CASE ~ (k <= i)
      <4>1. q[k] = p[k + s] /\ q[k - 1] = p[(k + s) - 1]
        BY <2>4, <3>1, <3>3
      <4> QED BY <1>2, <3>1, <4>1 DEF Path
    <3> QED BY <3>2, <3>3
  <2>7. Path(F, q, m, x, c, FREE)
    BY <2>3, <2>5, <2>6 DEF Path
  <2>8. m \in Lengths
    BY <2>1, <2>7
  <2> HIDE DEF Lengths
  <2> QED BY <1>1, <2>1, <2>8
<1>4. ASSUME NEW i \in 0..n, NEW j \in 0..n, p[i] = p[j] PROVE i = j
  <2>1. ~ (i < j) /\ ~ (j < i)
    BY <1>3, <1>4
  <2> QED BY <1>a, <2>1
<1> QED BY <1>a, <1>2, <1>4

\* What a cluster leads to is in its chain.
LEMMA ReachInChain ==
  ASSUME NEW x, NEW c, Reach(fat[1], x, c, FREE)
  PROVE  c \in Chain(x)
<1> DEFINE F == fat[1]
<1>0. PICK n \in Nat : \E p : /\ Path(F, p, n, x, c, FREE)
                              /\ \A i, j \in 0..n : p[i] = p[j] => i = j
  BY ShortestPath
<1>1. PICK p : /\ Path(F, p, n, x, c, FREE)
               /\ \A i, j \in 0..n : p[i] = p[j] => i = j
  BY <1>0
<1>2. p \in [0..n -> Cluster] /\ p[0] = x /\ p[n] = c /\ x \in Cluster /\ c \in Cluster
  BY <1>1 DEF Path
<1>3. n <= LastCluster - 2 /\ LastCluster \in Nat
  BY <1>1, <1>2, PathShort, FatAssumption
<1> DEFINE f(i) == Nth(x, i)
           Bad == {i \in Nat : i <= n /\ f(i) # p[i]}
<1>4. f(0) = x /\ \A i \in 1..LastCluster : f(i) = Onwards(F, f(i - 1))
  <2>1. x \in Value
    BY <1>2, ClusterNat
  <2> QED BY <2>1, NthGives
<1>5. f(n) = p[n]
  <2> HIDE DEF f
  <2> SUFFICES ASSUME n \in Bad PROVE FALSE
    OBVIOUS
  <2>1. PICK k \in Bad : \A m \in Bad : k <= m
    <3>1. Bad \in SUBSET Nat /\ Bad # {}
      OBVIOUS
    <3> HIDE DEF Bad
    <3> QED BY <3>1, HasLeast
  <2>2. k \in 1..n /\ k \in 1..LastCluster /\ k - 1 \in Nat /\ k - 1 <= n /\ ~ (k <= k - 1) /\ k - 1 \in 0..n
    BY <1>2, <1>3, <1>4, <2>1
  <2>3. f(k - 1) = p[k - 1]
    BY <2>1, <2>2
  <2>4. f(k) = Get(F, p[k - 1])
    BY <1>2, <1>4, <2>2, <2>3 DEF Onwards
  <2>5. p[k] = Get(F, p[k - 1])
    BY <1>1, <2>2 DEF Path
  <2> QED BY <2>1, <2>4, <2>5
<1>6. n \in 0..LastCluster
  BY <1>3
<1> QED BY <1>2, <1>5, <1>6 DEF Chain

------------------------------------------------------------------------------
(* Fat12: no cluster is lost.

   While nothing failed, every used entry is reached from a file or from what the
   operation in progress holds, without a step through the entry fat_set is at.   *)

\* The entry that paths must not pass through: the one fat_set is at work on.
AtWork(o) == IF o.pc = "set" THEN o.set.c ELSE FREE
Freed(o) == IF Calls(o, "free") THEN o.set.c ELSE FREE

\* Where the chains in use begin: the files but the one the operation replaces or
\* deletes, and what the operation holds.
Held(o) == {x \in Cluster :
  \/ x = o.c /\ (o.pc \in {"remove", "free", "zero"} \/ Calls(o, "mark") \/ Calls(o, "link"))
  \/ x = o.next /\ Calls(o, "free")
  \/ x = o.first /\ (Taking(o) \/ o.pc \in {"stream", "entry"})}
FileHeads(D, slot) == {x \in Cluster : \E s \in Slot : s # slot /\ D[s].kind = "file" /\ x = D[s].head}
Roots(D, o) == FileHeads(D, o.slot) \cup Held(o)

\* Every used entry of F is reached from R, w avoided; but k, which is being freed.
Covers(F, R, w, k) ==
  \A c \in Cluster : Get(F, c) # FREE /\ c # k => \E x \in R : Reach(F, x, c, w)

Covered == Calm => Covers(fat[1], Roots(dir, op), AtWork(op), Freed(op))
Built == Calm /\ Taking(op) /\ op.first # FREE => Reach(fat[1], op.first, op.prev, AtWork(op))
Kempt == Covered /\ Built

\* A step that leaves the FAT alone and calls no fat_set.
LEMMA CoversMore ==
  ASSUME NEW F, NEW R, NEW S, NEW w, NEW k,
         Covers(F, R, w, k), R \cap Cluster \subseteq S, k \notin Cluster \/ Get(F, k) = FREE
  PROVE  Covers(F, S, FREE, FREE)
<1> SUFFICES ASSUME NEW c \in Cluster, Get(F, c) # FREE
             PROVE  \E x \in S : Reach(F, x, c, FREE)
  BY DEF Covers
<1>1. PICK x \in R : Reach(F, x, c, w)
  BY DEF Covers
<1>2. Reach(F, x, c, FREE) /\ x \in Cluster
  BY <1>1, ReachAnyway, ReachEnds
<1> QED BY <1>1, <1>2

LEMMA HeldChained ==
  ASSUME NEW D, NEW o, NEW p, NEW c, NEW then, Chained(o, p, c, then)
  PROVE  /\ FileHeads(D, o.slot) \cup ({c} \cap Cluster) \subseteq Roots(D, p)
         /\ AtWork(p) = FREE /\ Freed(p) = FREE
<1>1. CASE p.pc = "free" /\ p.c = c /\ p.slot = o.slot
  BY <1>1 DEF Roots, Held, AtWork, Freed, Calls
<1>2. CASE c \notin Cluster /\ p = Idle
  <2>1. Idle.slot = 0 /\ Idle.pc = "idle" /\ \A s \in Slot : s # 0
    BY DEF Idle, Slot
  <2>2. FileHeads(D, o.slot) \subseteq FileHeads(D, 0)
    BY <2>1 DEF FileHeads
  <2> QED BY <1>2, <2>1, <2>2 DEF Roots, AtWork, Freed, Calls
<1>3. CASE c \notin Cluster /\ p.pc \in {"alloc", "entry"} /\ p.slot = o.slot
  BY <1>3 DEF Roots, AtWork, Freed, Calls
<1> QED BY <1>1, <1>2, <1>3 DEF Chained, SameFile

\* A chain is let go: no cluster is being taken, or none has been.
LEMMA KemptChained ==
  ASSUME NEW o, NEW c, NEW then, Chained(o, op', c, then), NEW w, NEW k,
         then = "alloc" => o.first = FREE,
         fat'[1] = fat[1], dir' = dir,
         Covers(fat[1], FileHeads(dir, o.slot) \cup {c}, w, k),
         k \notin Cluster \/ FatGet(k) = FREE
  PROVE  Kempt'
<1> DEFINE F == fat[1]
           p == op'
           D == dir
<1>0. /\ Chained(o, p, c, then) /\ fat'[1] = F /\ dir' = D
      /\ Covers(F, FileHeads(D, o.slot) \cup {c}, w, k) /\ (k \notin Cluster \/ Get(F, k) = FREE)
  BY DEF FatGet
<1> HIDE DEF F, p, D
<1>1. /\ FileHeads(D, o.slot) \cup ({c} \cap Cluster) \subseteq Roots(D, p)
      /\ AtWork(p) = FREE /\ Freed(p) = FREE
  BY <1>0, HeldChained
<1>2. Covers(F, Roots(D, p), FREE, FREE)
  <2>1. (FileHeads(D, o.slot) \cup {c}) \cap Cluster \subseteq Roots(D, p)
    BY <1>1
  <2> QED BY <1>0, <2>1, CoversMore
<1>3. Covered'
  BY <1>0, <1>1, <1>2 DEF Covered, p
<1>4. ~ Taking(p) \/ p.first = FREE
  <2>1. CASE p = Idle
    BY <2>1, IdleSound DEF Taking, Calls
  <2>2. CASE p.pc = "free"
    BY <2>2 DEF Taking, Calls
  <2>3. CASE then = "alloc" /\ p.first = o.first
    BY <2>3
  <2> QED BY <1>0, <2>1, <2>2, <2>3 DEF Chained, SameChain
<1>5. Built'
  BY <1>4 DEF Built, p
<1> QED BY <1>3, <1>5 DEF Kempt

\* fat_set begins with the entry w, which leads nowhere.
LEMMA CoversAround ==
  ASSUME NEW F, NEW R, NEW S, NEW w, Covers(F, R, FREE, FREE), R \subseteq S,
         Get(F, w) \notin Cluster, NEW k
  PROVE  Covers(F, S, w, k)
<1> SUFFICES ASSUME NEW c \in Cluster, Get(F, c) # FREE
             PROVE  \E x \in S : Reach(F, x, c, w)
  BY DEF Covers
<1>1. PICK x \in R : Reach(F, x, c, FREE)
  BY Ends DEF Covers
<1> QED BY <1>1, ReachAround

LEMMA SetKempt ==
  ASSUME Inv, Staged, Kempt, SetSector
  PROVE  Kempt'
<1> DEFINE F == fat[1]
           k == op.set.c
<1>0. /\ op.pc = "set" /\ op.set.for \in {"free", "mark", "link"} /\ k \in Cluster
      /\ (op.set.for # "free" => op.c \in Cluster) /\ op.first \in Value
  BY DEF Inv, SetSector, Sound, Ops, Setting
<1>1. SUFFICES ASSUME Calm' PROVE Kempt'
  BY DEF Kempt, Covered, Built
<1>2. SetWorks /\ Calm
  <2>1. SetFails \/ SetWorks
    BY SetStep
  <2>2. ~ SetFails
    BY <1>1, StillCalm DEF SetFails, Inv
  <2>3. SetWorks
    BY <2>1, <2>2
  <2> QED BY <1>1, <2>3 DEF SetWorks, Calm
<1>3. dir' = dir
  BY <1>2 DEF SetWorks
<1>4. AtWork(op) = k /\ Covers(F, Roots(dir, op), k, Freed(op))
      /\ (Taking(op) /\ op.first # FREE => Reach(F, op.first, op.prev, k))
  BY <1>0, <1>2 DEF Kempt, Covered, Built, AtWork
<1>5. Stage(op, F)
  BY DEF Staged
<1>a. /\ op.set.for = "free" <=> Calls(op, "free")
      /\ op.set.for = "mark" <=> Calls(op, "mark")
      /\ op.set.for = "link" <=> Calls(op, "link")
  BY <1>0 DEF Calls
\* Still at work: a first copy changes the entry, a second nothing.
<1>6. ASSUME SameSet(op, op'), NEW G, fat'[1] = G,
             \A d \in Cluster : d # k => Get(G, d) = Get(F, d)
      PROVE  Kempt'
  <2>0. /\ op'.pc = "set" /\ op'.set.c = k /\ op'.set.for = op.set.for /\ op'.c = op.c
        /\ op'.next = op.next /\ op'.first = op.first /\ op'.prev = op.prev /\ op'.slot = op.slot
    BY <1>6 DEF SameSet, SameFile, SameChain
  <2>1. AtWork(op') = k /\ Freed(op') = Freed(op) /\ Roots(dir, op') = Roots(dir, op)
        /\ (Taking(op') <=> Taking(op))
    BY <1>0, <2>0 DEF AtWork, Freed, Roots, Held, Taking, Calls
  <2>2. ASSUME NEW x, NEW c, Reach(F, x, c, k) PROVE Reach(G, x, c, k)
    BY <1>6, <2>2, ReachChanged
  <2>3. Taking(op) /\ op.first # FREE => Reach(G, op.first, op.prev, k)
    BY <1>4, <2>2
  <2>4. ASSUME NEW c \in Cluster, Get(G, c) # FREE, c # Freed(op)
        PROVE  \E x \in Roots(dir, op) : Reach(G, x, c, k)
    <3>1. CASE c # k
      <4>1. Get(F, c) # FREE
        BY <1>6, <2>4, <3>1
      <4>2. PICK x \in Roots(dir, op) : Reach(F, x, c, k)
        BY <1>4, <2>4, <4>1 DEF Covers
      <4> QED BY <2>2, <4>2
    <3>2. CASE c = k /\ op.set.for = "mark"
      <4>1. c = op.c
        BY <1>0, <1>5, <3>2 DEF Stage
      <4>2. c \in Roots(dir, op)
        BY <1>a, <3>2, <4>1 DEF Roots, Held
      <4>3. Reach(G, c, c, k)
        BY ReachSelf
      <4> QED BY <4>2, <4>3
    <3>3. CASE c = k /\ op.set.for = "link"
      <4>1. c = op.prev /\ op.prev \in Cluster /\ (op.first = FREE <=> op.prev = FREE) /\ Taking(op)
        BY <1>0, <1>5, <1>a, <3>3 DEF Stage, Taking
      <4>2. op.first # FREE
        BY <4>1, Ends
      <4>3. Reach(F, op.first, c, k)
        BY <1>4, <4>1, <4>2
      <4>4. op.first \in Cluster
        BY <4>3, ReachEnds
      <4>5. op.first \in Roots(dir, op)
        BY <4>1, <4>4 DEF Roots, Held
      <4> QED BY <2>2, <4>3, <4>5
    <3>4. CASE c = k /\ op.set.for = "free"
      BY <1>a, <2>4, <3>4 DEF Freed
    <3> QED BY <1>0, <3>1, <3>2, <3>3, <3>4
  <2>5. Covers(G, Roots(dir, op), k, Freed(op))
    BY <2>4 DEF Covers
  <2>6. Covered'
    BY <1>3, <1>6, <2>1, <2>5 DEF Covered
  <2>7. Built'
    BY <1>6, <2>0, <2>1, <2>3 DEF Built
  <2> QED BY <2>6, <2>7 DEF Kempt
\* fat_set is done.
<1>7. ASSUME Returned(op, op', TRUE), fat'[1] = F, Get(F, k) = op.set.value
      PROVE  Kempt'
  <2>1. CASE op.set.for = "free"
    <3>1. Chained(op, op', op.next, op.then)
      BY <1>7, <2>1 DEF Returned
    <3>2. op.then = "alloc" => op.first = FREE
      BY <1>0, <1>5, <2>1 DEF Stage, Freeing
    <3>3. Get(F, k) = FREE
      BY <1>5, <1>7, <1>a, <2>1 DEF Stage
    <3>4. Roots(dir, op) \subseteq FileHeads(dir, op.slot) \cup {op.next}
      BY <1>0, <1>a, <2>1 DEF Roots, Held, Taking, Calls
    <3>5. Covers(F, FileHeads(dir, op.slot) \cup {op.next}, k, Freed(op)) /\ Freed(op) = k
      BY <1>4, <1>a, <2>1, <3>4 DEF Covers, Freed
    <3> QED BY <1>3, <1>7, <3>1, <3>2, <3>3, <3>5, KemptChained DEF FatGet
  <2>2. CASE op.set.for = "mark"
    <3>1. /\ op'.pc = "zero" /\ op'.c = op.c /\ op'.slot = op.slot
          /\ op'.first = op.first /\ op'.prev = op.prev
      BY <1>7, <2>2 DEF Returned, SameFile, SameChain
    <3>2. Freed(op) = FREE /\ Freed(op') = FREE /\ AtWork(op') = FREE /\ Taking(op) /\ Taking(op')
      BY <1>0, <2>2, <3>1 DEF Freed, AtWork, Calls, Taking
    <3>3. Roots(dir, op) \subseteq Roots(dir, op')
      BY <1>0, <2>2, <3>1 DEF Roots, Held, Calls, Taking
    <3>4. Covers(F, Roots(dir, op'), FREE, FREE)
      <4>1. Covers(F, Roots(dir, op), k, FREE) /\ FREE \notin Cluster
            /\ Roots(dir, op) \cap Cluster \subseteq Roots(dir, op')
        BY <1>4, <3>2, <3>3, Ends
      <4> QED BY <4>1, CoversMore
    <3>5. Covered'
      BY <1>3, <1>7, <3>2, <3>4 DEF Covered
    <3>6. op.first # FREE => Reach(F, op.first, op.prev, FREE)
      BY <1>4, <3>2, ReachAnyway
    <3>7. Built'
      BY <1>7, <3>1, <3>2, <3>6 DEF Built
    <3> QED BY <3>5, <3>7 DEF Kempt
  <2>3. CASE op.set.for = "link"
    <3>1. /\ k = op.prev /\ op.prev \in Cluster /\ (op.first = FREE <=> op.prev = FREE)
          /\ Get(F, op.prev) = op.c /\ Taking(op) /\ Get(F, op.c) = EOC
      BY <1>0, <1>5, <1>7, <1>a, <2>3 DEF Stage, Taking
    <3>2. op.first # FREE /\ op.c \in Cluster
      BY <1>0, <2>3, <3>1, Ends
    <3>3. Appended(op, op')
      BY <1>7, <2>3 DEF Returned
    <3>4. /\ op'.pc \in {"alloc", "stream"} /\ op'.first = op.first /\ op'.prev = op.c
          /\ op'.slot = op.slot
      BY <3>2, <3>3 DEF Appended, SameFile
    <3>5. Reach(F, op.first, op.prev, k)
      BY <1>4, <3>1, <3>2
    <3>6. Reach(F, op.first, op.prev, FREE) /\ op.first \in Cluster
      BY <3>5, ReachAnyway, ReachEnds
    <3>7. Reach(F, op.first, op.c, FREE)
      <4> DEFINE v == op.prev
      <4>1. v # FREE /\ Get(F, v) \in Cluster /\ Reach(F, op.first, v, FREE) /\ Get(F, v) = op.c
        BY <3>1, <3>2, <3>6, Ends
      <4> HIDE DEF v
      <4> QED BY <4>1, ReachNext
    <3>8. op.first \in Roots(dir, op')
      BY <3>4, <3>6 DEF Roots, Held, Taking
    <3>9. ASSUME NEW c \in Cluster, Get(F, c) # FREE
          PROVE  \E x \in Roots(dir, op') : Reach(F, x, c, FREE)
      <4>1. Freed(op) = FREE
        BY <2>3 DEF Freed, Calls
      <4>2. PICK x \in Roots(dir, op) : Reach(F, x, c, k)
        BY <1>4, <3>9, <4>1, Ends DEF Covers
      <4>3. Reach(F, x, c, FREE)
        BY <4>2, ReachAnyway
      <4>4. x \in FileHeads(dir, op.slot) \/ x = op.c \/ x = op.first
        BY <1>0, <2>3, <4>2 DEF Roots, Held, Calls
      <4>5. CASE x \in FileHeads(dir, op.slot)
        BY <3>4, <4>3, <4>5 DEF Roots
      <4>6. CASE x = op.first
        BY <3>8, <4>3, <4>6
      <4>7. CASE x = op.c
        <5>1. Get(F, x) \notin Cluster
          BY <3>1, <4>7, Ends
        <5>2. c = x
          BY <4>3, <5>1, ReachNone
        <5> QED BY <3>7, <3>8, <4>7, <5>2
      <4> QED BY <4>4, <4>5, <4>6, <4>7
    <3>10. AtWork(op') = FREE /\ Freed(op') = FREE
      BY <3>4 DEF AtWork, Freed, Calls
    <3>11. Covers(F, Roots(dir, op'), FREE, FREE)
      BY <3>9 DEF Covers
    <3>12. Covered'
      BY <1>3, <1>7, <3>10, <3>11 DEF Covered
    <3>13. Built'
      BY <1>7, <3>4, <3>7, <3>10 DEF Built
    <3> QED BY <3>12, <3>13 DEF Kempt
  <2> QED BY <1>0, <2>1, <2>2, <2>3
<1>8. CASE SecondCopy
  <2>1. fat'[1] = F
    BY <1>8 DEF SecondCopy
  <2>2. CASE SameSet(op, op')
    BY <1>6, <2>1, <2>2
  <2>3. CASE Returned(op, op', TRUE) /\ FatGet(k) = op.set.value
    BY <1>7, <2>1, <2>3 DEF FatGet
  <2> QED BY <1>8, <2>2, <2>3 DEF SecondCopy
<1>9. CASE FirstCopy
  <2>1. SameSet(op, op') /\ \A d \in Cluster : d # k => Get(fat'[1], d) = Get(F, d)
    BY <1>9 DEF FirstCopy
  <2> QED BY <1>6, <2>1
<1> QED BY <1>2, <1>8, <1>9 DEF SetWorks

\* The other steps of an operation.
LEMMA OtherKempt ==
  ASSUME Inv, Staged, Tame, Kempt, Later, ~ SetSector
  PROVE  Kempt'
<1> DEFINE F == fat[1]
<1>1. SUFFICES ASSUME Calm' PROVE Kempt'
  BY DEF Kempt, Covered, Built
<1>2. Calm /\ ~ Fault /\ ~ Fails /\ ~ Crash /\ ~ Stray /\ fat' = fat
  BY <1>1, CalmStep
<1>0. /\ Volume /\ Sound(op) /\ Stage(op, F) /\ fat' = fat /\ op \in Ops
      /\ op.c \in Value /\ op.first \in Value
  BY <1>2 DEF Inv, Staged, Sound, Ops
<1>3. ~ Fails
  BY <1>2
<1>4. Calm
  BY <1>2
<1>5. op.pc # "set" /\ AtWork(op) = FREE /\ Freed(op) = FREE
  <2>1. op.pc # "set"
    BY <1>2 DEF Later, Remove, FreeNext, Allocate, NoSpace, ZeroCluster, Stream, WriteEntry, At
  <2> QED BY <2>1 DEF AtWork, Freed, Calls
<1>6. /\ Covers(F, Roots(dir, op), FREE, FREE)
      /\ Taking(op) /\ op.first # FREE => Reach(F, op.first, op.prev, FREE)
  BY <1>4, <1>5 DEF Kempt, Covered, Built
<1>7. fat'[1] = F
  BY <1>0
<1>8. ASSUME dir' = dir, Chained(op, op', op.first, "return"), ~ (op.pc = "zero" /\ op.c # op.first),
             op.pc \in {"alloc", "zero", "stream"}
      PROVE  Kempt'
  <2>1. Roots(dir, op) \subseteq FileHeads(dir, op.slot) \cup {op.first}
    BY <1>8 DEF Roots, Held, Calls
  <2>2. Covers(F, FileHeads(dir, op.slot) \cup {op.first}, FREE, FREE)
    BY <1>6, <2>1 DEF Covers
  <2> QED BY <1>7, <1>8, <2>2, Ends, KemptChained
<1>9. ASSUME dir' = dir, AtWork(op') = FREE, Freed(op') = FREE, Roots(dir, op) \subseteq Roots(dir, op'),
             Taking(op') /\ op'.first # FREE => Reach(F, op'.first, op'.prev, FREE)
      PROVE  Kempt'
  <2>1. Covers(F, Roots(dir, op'), FREE, FREE)
    BY <1>6, <1>9 DEF Covers
  <2>2. Covered' /\ Built'
    BY <1>7, <1>9, <2>1 DEF Covered, Built
  <2> QED BY <2>2 DEF Kempt
<1>10. ASSUME NEW w \in Cluster, op'.pc = "set", op'.set.c = w, Get(F, w) \notin Cluster,
              Roots(dir, op) \subseteq Roots(dir, op'), dir' = dir,
              Taking(op), op'.first = op.first, op'.prev = op.prev, ~ Calls(op', "free")
       PROVE  Kempt'
  <2>1. AtWork(op') = w /\ Freed(op') = FREE
    BY <1>10 DEF AtWork, Freed
  <2>2. Covers(F, Roots(dir, op'), w, FREE)
    BY <1>6, <1>10, CoversAround
  <2>3. op.first # FREE => Reach(F, op.first, op.prev, w)
    BY <1>6, <1>10, ReachAround
  <2>4. Covered'
    BY <1>7, <1>10, <2>1, <2>2 DEF Covered
  <2>5. Built'
    BY <1>7, <1>10, <2>1, <2>3 DEF Built
  <2> QED BY <2>4, <2>5 DEF Kempt
<1>11. CASE Remove
  <2>0. op.pc = "remove" /\ op.slot \in Slot
    BY <1>0, <1>11 DEF Remove, At, Sound, Aimed
  <2>1. dir' = [dir EXCEPT ![op.slot] = Deleted] /\ op' = FreeChain(op, op.c, "return")
    BY <1>3, <1>11 DEF Remove
  <2>2. Chained(op, op', op.c, "return")
    BY <1>0, <2>1, FreeChainGives
  <2> DEFINE D == dir'
  <2>3. FileHeads(dir, op.slot) \subseteq FileHeads(D, op.slot)
    <3>1. \A s \in Slot : s # op.slot => D[s] = dir[s]
      BY <1>0, <2>1 DEF Volume
    <3> QED BY <3>1 DEF FileHeads
  <2> HIDE DEF D
  <2>4. /\ FileHeads(D, op.slot) \cup ({op.c} \cap Cluster) \subseteq Roots(D, op')
        /\ AtWork(op') = FREE /\ Freed(op') = FREE
    BY <2>2, HeldChained
  <2>5. Roots(dir, op) \subseteq FileHeads(dir, op.slot) \cup {op.c}
    BY <2>0 DEF Roots, Held, Calls, Taking
  <2>6. Roots(dir, op) \cap Cluster \subseteq Roots(D, op')
    BY <2>3, <2>4, <2>5
  <2>7. Covers(F, Roots(D, op'), FREE, FREE)
    BY <1>6, <2>6, Ends, CoversMore
  <2>8. Covered'
    BY <1>7, <2>4, <2>7 DEF Covered, D
  <2>9. ~ Taking(op')
    <3>1. op'.pc = "free" \/ op' = Idle
      BY <2>2 DEF Chained
    <3> QED BY <3>1, IdleSound DEF Taking, Calls
  <2> QED BY <2>8, <2>9 DEF Kempt, Built
<1>12. CASE FreeNext
  <2>1. op.pc = "free" /\ op.c \in Cluster /\ FreesFrom(FatGet(op.c)) /\ dir' = dir
    BY <1>0, <1>2, <1>12, FreeNextGives DEF FreeNext, disk
  <2> DEFINE w == op.c
             v == Get(F, w)
  <2>2. /\ op'.pc = "set" /\ op'.set.c = w /\ op'.set.for = "free" /\ op'.next = v
        /\ op'.slot = op.slot
    BY <2>1 DEF FreesFrom, SameFile, FatGet
  <2>3. AtWork(op') = w /\ Freed(op') = w /\ ~ Taking(op')
    BY <2>2 DEF AtWork, Freed, Taking, Calls
  <2>4. Roots(dir, op') = FileHeads(dir, op.slot) \cup ({v} \cap Cluster)
    BY <2>2 DEF Roots, Held, Taking, Calls
  <2>5. Roots(dir, op) = FileHeads(dir, op.slot) \cup {w}
    BY <2>1 DEF Roots, Held, Taking, Calls
  <2> HIDE DEF v, w
  <2>6. ASSUME NEW c \in Cluster, Get(F, c) # FREE, c # w
        PROVE  \E x \in Roots(dir, op') : Reach(F, x, c, w)
    <3>1. PICK x \in Roots(dir, op) : Reach(F, x, c, FREE)
      BY <1>6, <2>6, Ends DEF Covers
    <3>2. Reach(F, x, c, w) \/ Reach(F, v, c, w)
      BY <2>6, <3>1, ReachCut DEF v
    <3>3. CASE Reach(F, v, c, w)
      <4>1. v \in Cluster
        BY <3>3, ReachEnds
      <4> QED BY <2>4, <3>3, <4>1
    <3>4. CASE Reach(F, x, c, w)
      <4>1. x # w
        BY <2>6, <3>4, ReachNone
      <4> QED BY <2>4, <2>5, <3>1, <3>4, <4>1
    <3> QED BY <3>2, <3>3, <3>4
  <2>7. Covers(F, Roots(dir, op'), w, w)
    BY <2>6 DEF Covers
  <2>8. Covered'
    BY <1>7, <2>1, <2>3, <2>7 DEF Covered
  <2> QED BY <2>3, <2>8 DEF Kempt, Built
<1>13. CASE Allocate
  <2>1. op.pc = "alloc" /\ \E c \in FreeClusters : Marking(c)
    BY <1>0, <1>13, AllocateGives
  <2>2. PICK c \in FreeClusters : Marking(c)
    BY <2>1
  <2>3. c \in Cluster /\ Get(F, c) \notin Cluster
    BY Ends DEF FreeClusters, FatGet
  <2>4. /\ op'.pc = "set" /\ op'.set.c = c /\ op'.set.for = "mark" /\ op'.c = c
        /\ op'.slot = op.slot /\ op'.first = op.first /\ op'.prev = op.prev
    BY <2>2 DEF Marking, SameFile, SameChain
  <2>5. Taking(op) /\ ~ Calls(op', "free") /\ Roots(dir, op) \subseteq Roots(dir, op')
    BY <2>1, <2>4 DEF Roots, Held, Taking, Calls
  <2>6. dir' = dir
    BY <1>13 DEF Allocate, disk
  <2> QED BY <1>10, <2>3, <2>4, <2>5, <2>6
<1>14. CASE NoSpace
  <2>1. op.pc = "alloc" /\ dir' = dir /\ Chained(op, op', op.first, "return")
    BY <1>0, <1>14, FreeChainGives DEF NoSpace, At, GiveUp, disk
  <2> QED BY <1>8, <2>1
<1>15. CASE ZeroCluster
  <2>1. op.pc = "zero" /\ op.c \in Cluster /\ Zeroed
    BY <1>0, <1>3, <1>15, ZeroGives
  <2>2. Get(F, op.c) = EOC /\ (op.first = FREE <=> op.prev = FREE) /\ Taking(op)
        /\ (op.prev # FREE => Get(F, op.prev) = EOC)
    BY <1>0, <2>1 DEF Stage, Taking
  <2>3. dir' = dir
    BY <2>1 DEF Zeroed
  <2>4. CASE op.prev = FREE /\ Appended(op, op')
    <3>1. /\ op'.pc \in {"alloc", "stream"} /\ op'.first = op.c /\ op'.prev = op.c
          /\ op'.slot = op.slot
      BY <2>2, <2>4 DEF Appended, SameFile
    <3>2. AtWork(op') = FREE /\ Freed(op') = FREE
      BY <3>1 DEF AtWork, Freed, Calls
    <3>3. Roots(dir, op) \subseteq Roots(dir, op')
      BY <2>1, <2>2, <2>4, <3>1, Ends DEF Roots, Held, Taking, Calls
    <3>4. Reach(F, op.c, op.c, FREE)
      BY <2>1, ReachSelf
    <3> QED BY <1>9, <2>3, <3>1, <3>2, <3>3, <3>4
  <2>5. CASE op.prev # FREE /\ Sets(op, op', op.prev, op.c, "link")
    <3>1. /\ op'.pc = "set" /\ op'.set.c = op.prev /\ op'.set.for = "link" /\ op'.c = op.c
          /\ op'.slot = op.slot /\ op'.first = op.first /\ op'.prev = op.prev
      BY <2>5 DEF Sets, SameFile, SameChain
    <3>2. op.prev \in Cluster /\ Get(F, op.prev) \notin Cluster
      BY <1>0, <2>2, <2>5, Ends DEF Sound
    <3>3. ~ Calls(op', "free") /\ Roots(dir, op) \subseteq Roots(dir, op')
      BY <2>1, <3>1 DEF Roots, Held, Taking, Calls
    <3> QED BY <1>10, <2>2, <2>3, <3>1, <3>2, <3>3
  <2> QED BY <2>1, <2>4, <2>5 DEF Zeroed
<1>16. CASE Stream
  <2>1. /\ op.pc = "stream"
        /\ \/ UNCHANGED disk /\ Chained(op, op', op.first, "return")
           \/ Paid(FatGet(op.c)) \/ (PastDisk /\ \E v \in Value : Moved(v))
    BY <1>0, <1>2, <1>3, <1>16, StreamGives DEF PastDisk
  <2>2. CASE UNCHANGED disk /\ Chained(op, op', op.first, "return")
    <3>1. dir' = dir
      BY <2>2 DEF disk
    <3> QED BY <1>8, <2>1, <2>2, <3>1
  <2>3. CASE Paid(FatGet(op.c)) \/ (PastDisk /\ \E v \in Value : Moved(v))
    <3>1. /\ op'.pc \in {"stream", "entry"} /\ op'.first = op.first /\ op'.slot = op.slot
          /\ dir' = dir
      BY <2>3 DEF Paid, Moved, PastDisk, disk, SameFile
    <3>2. /\ AtWork(op') = FREE /\ Freed(op') = FREE /\ ~ Taking(op')
          /\ Roots(dir, op) \subseteq Roots(dir, op')
      BY <2>1, <3>1 DEF AtWork, Freed, Roots, Held, Taking, Calls
    <3> QED BY <1>9, <3>1, <3>2
  <2> QED BY <2>1, <2>2, <2>3
<1>17. CASE WriteEntry
  <2>0. op.pc = "entry" /\ op.slot \in Slot
    BY <1>0, <1>17 DEF WriteEntry, At, Sound, Writing, Aimed
  <2> DEFINE e == File(op.name, op.first, op.len)
             D == dir'
  <2>1. D = [dir EXCEPT ![op.slot] = e] /\ op' = Idle
    BY <1>3, <1>17 DEF WriteEntry
  <2>2. e.kind = "file" /\ e.head = op.first
    BY DEF File
  <2> HIDE DEF e
  <2>3. \A s \in Slot : D[s] = IF s = op.slot THEN e ELSE dir[s]
    BY <1>0, <2>1 DEF Volume
  <2>4. Idle.slot = 0 /\ Idle.pc = "idle" /\ \A s \in Slot : s # 0
    BY DEF Idle, Slot
  <2> HIDE DEF D
  <2>5. Roots(dir, op) \cap Cluster \subseteq Roots(D, op')
    <3>1. Roots(dir, op) \subseteq FileHeads(dir, op.slot) \cup {op.first}
      BY <2>0 DEF Roots, Held, Taking, Calls
    <3>2. FileHeads(dir, op.slot) \subseteq FileHeads(D, 0)
      BY <2>3, <2>4 DEF FileHeads
    <3>3. op.first \in Cluster => op.first \in FileHeads(D, 0)
      BY <2>0, <2>2, <2>3, <2>4 DEF FileHeads
    <3> QED BY <2>1, <2>4, <3>1, <3>2, <3>3 DEF Roots
  <2>6. Covers(F, Roots(D, op'), FREE, FREE)
    BY <1>6, <2>5, Ends, CoversMore
  <2>7. AtWork(op') = FREE /\ Freed(op') = FREE /\ ~ Taking(op')
    BY <2>1, <2>4 DEF AtWork, Freed, Taking, Calls
  <2>8. Covered'
    BY <1>7, <2>6, <2>7 DEF Covered, D
  <2> QED BY <2>7, <2>8 DEF Kempt, Built
<1> QED BY <1>2, <1>11, <1>12, <1>13, <1>14, <1>15, <1>16, <1>17 DEF Later

\* fat_write and fat_delete begin.
LEMMA StartKempt ==
  ASSUME Inv, Kempt, NEW n \in Name,
         StartDelete(n) \/ \E len \in 0..MaxLen : StartWrite(n, len)
  PROVE  Kempt'
<1> DEFINE F == fat[1]
           s == FindSlot(n)
<1>0. /\ Volume /\ dir' = dir /\ fat' = fat /\ op.pc = "idle" /\ (Exists(n) \/ Unused # {})
      /\ faults' = faults /\ crashes' = crashes
  BY StartKeeps DEF Inv
<1>1. s \in Slot /\ (Exists(n) => s \in Matches(n)) /\ (~ Exists(n) => s \in Unused)
  BY <1>0, SlotFound
<1>2. SUFFICES ASSUME Calm' PROVE Kempt'
  BY DEF Kempt, Covered, Built
<1>3. Calm
  BY <1>0, <1>2 DEF Calm
<1> HIDE DEF s
<1>4. Covers(F, Roots(dir, op), FREE, FREE)
  <2>1. AtWork(op) = FREE /\ Freed(op) = FREE
    BY <1>0 DEF AtWork, Freed, Calls
  <2> QED BY <1>3, <2>1 DEF Kempt, Covered
<1>5. \A x \in Roots(dir, op) : x \in FileHeads(dir, s) \/ (x = dir[s].head /\ dir[s].kind = "file")
  <2>1. Held(op) = {}
    BY <1>0 DEF Held, Taking, Calls
  <2> QED BY <2>1 DEF Roots, FileHeads
<1>6. CASE StartDelete(n)
  <2>1. BegunDelete(n)
    BY <1>6, StartDeleteGives
  <2>2. op'.pc = "remove" /\ op'.slot = s /\ op'.c = dir[s].head
    BY <2>1 DEF BegunDelete, s
  <2>3. AtWork(op') = FREE /\ Freed(op') = FREE /\ ~ Taking(op')
    BY <2>2 DEF AtWork, Freed, Taking, Calls
  <2>4. Roots(dir, op) \cap Cluster \subseteq Roots(dir, op')
    BY <1>5, <2>2 DEF Roots, Held
  <2>5. Covers(F, Roots(dir, op'), FREE, FREE)
    BY <1>4, <2>4, Ends, CoversMore
  <2>6. Covered'
    BY <1>0, <2>3, <2>5 DEF Covered
  <2> QED BY <2>3, <2>6 DEF Kempt, Built
<1>7. ASSUME NEW len \in 0..MaxLen, StartWrite(n, len)
      PROVE  Kempt'
  <2> DEFINE c == IF Exists(n) THEN dir[s].head ELSE FREE
  <2>1. PICK o \in Ops : Blank(o, n, len) /\ Chained(o, op', c, "alloc")
    BY <1>0, <1>7, StartWriteGives DEF BegunWrite, s
  <2>2. o.slot = s /\ o.first = FREE
    BY <2>1 DEF Blank, s
  <2>3. \A x \in Roots(dir, op) : x \in FileHeads(dir, s) \cup {c}
    <3>1. dir[s].kind = "file" => Exists(n)
      BY <1>1 DEF Unused
    <3> QED BY <1>5, <3>1
  <2> HIDE DEF c
  <2>4. Covers(F, FileHeads(dir, o.slot) \cup {c}, FREE, FREE)
    BY <1>4, <2>2, <2>3 DEF Covers
  <2>5. fat'[1] = fat[1] /\ FREE \notin Cluster
    BY <1>0, Ends
  <2> QED BY <1>0, <2>1, <2>2, <2>4, <2>5, KemptChained
<1> QED BY <1>6, <1>7

LEMMA InitKempt == Init => Kempt
<1> SUFFICES ASSUME Init PROVE Kempt
  OBVIOUS
<1>1. ASSUME NEW c \in Cluster PROVE Get(fat[1], c) = FREE
  BY InitFree
<1>2. ~ Taking(op)
  BY IdleSound DEF Init, Taking, Calls
<1> QED BY <1>1, <1>2 DEF Kempt, Covered, Built, Covers

\* fat_write and fat_delete lose no cluster (NoLostClusters), on any volume: not when they
\* free a chain from its head, nor when the volume is full and fat_alloc_cluster fails.
THEOREM NoneLost == Spec => []NoLostClusters
<1>1. Confined /\ Kempt /\ [Next]_vars => (Confined /\ Kempt)'
  <2> SUFFICES ASSUME Confined, Kempt, [Next]_vars PROVE Confined' /\ Kempt'
    OBVIOUS
  <2>0. Inv /\ Staged /\ Tame
    BY DEF Confined, Ordered
  <2>1. Confined'
    BY NextConfined
  <2>2. CASE SetSector
    BY <2>0, <2>1, <2>2, SetKempt
  <2>3. CASE Later /\ ~ SetSector
    BY <2>0, <2>1, <2>3, OtherKempt
  <2>4. CASE \E n \in Name : StartDelete(n) \/ \E len \in 0..MaxLen : StartWrite(n, len)
    BY <2>0, <2>1, <2>4, StartKempt
  <2>5. CASE UNCHANGED vars
    <3>1. fat' = fat /\ dir' = dir /\ op' = op /\ faults' = faults /\ crashes' = crashes
      BY <2>5 DEF vars, disk
    <3> QED BY <2>1, <3>1 DEF Kempt, Covered, Built, Calm
  <2> QED BY <2>2, <2>3, <2>4, <2>5, NextIs
<1>2. Confined /\ Kempt => NoLostClusters
  <2> SUFFICES ASSUME Kempt, op.pc = "idle", Calm, NEW c \in Cluster \ FreeClusters
               PROVE  \E s \in Slot : dir[s].kind = "file" /\ c \in Chain(dir[s].head)
    BY DEF NoLostClusters, At, Calm
  <2>1. AtWork(op) = FREE /\ Freed(op) = FREE /\ Held(op) = {}
    BY DEF AtWork, Freed, Held, Taking, Calls
  <2>2. Get(fat[1], c) # FREE
    BY DEF FreeClusters, FatGet
  <2>3. PICK x \in Roots(dir, op) : Reach(fat[1], x, c, FREE)
    BY <2>1, <2>2, Ends DEF Kempt, Covered, Covers
  <2>4. PICK s \in Slot : dir[s].kind = "file" /\ x = dir[s].head
    BY <2>1 DEF Roots, FileHeads
  <2>5. c \in Chain(x)
    BY <2>3, ReachInChain
  <2> QED BY <2>4, <2>5
<1>3. Init => Confined /\ Kempt
  BY InitConfined, InitKempt
<1> QED BY <1>1, <1>2, <1>3, PTL DEF Spec

------------------------------------------------------------------------------
(* Fat12: runs of linked clusters, and their contents. *)

\* The n clusters p are linked in table F, from x to y, all different.
Run(F, p, n, x, y) ==
  /\ p \in [1..n -> Cluster]
  /\ \A i \in 1..n : i < n => Get(F, p[i]) = p[i + 1]
  /\ \A i, j \in 1..n : p[i] = p[j] => i = j
  /\ n = 0 => x = FREE /\ y = FREE
  /\ n > 0 => p[1] = x /\ p[n] = y

\* Such a run with contents from N, without w; and one that ends.
Full(F, d, n, x, y, N, w) ==
  \E p : Run(F, p, n, x, y) /\ \A i \in 1..n : d[p[i]] \in N /\ p[i] # w
Closed(F, d, n, x, N, w) ==
  \E y : Full(F, d, n, x, y, N, w) /\ (n > 0 => Get(F, y) = EOC)

LEMMA FullEnds ==
  ASSUME NEW F, NEW d, NEW n \in Nat, NEW x, NEW y, NEW N, NEW w, Full(F, d, n, x, y, N, w)
  PROVE  /\ n = 0 => x = FREE /\ y = FREE
         /\ n > 0 => x \in Cluster /\ y \in Cluster /\ d[x] \in N /\ d[y] \in N /\ x # w /\ y # w
<1>1. PICK p : Run(F, p, n, x, y) /\ \A i \in 1..n : d[p[i]] \in N /\ p[i] # w
  BY DEF Full
<1>2. n > 0 => 1 \in 1..n /\ n \in 1..n
  OBVIOUS
<1> QED BY <1>1, <1>2 DEF Run

\* What happens to other clusters leaves a run alone.
LEMMA FullFrame ==
  ASSUME NEW F, NEW G, NEW d, NEW e, NEW n \in Nat, NEW x, NEW y, NEW N, NEW w, NEW v,
         Full(F, d, n, x, y, N, w),
         \A c \in Cluster : c # w /\ d[c] \in N => c # v /\ e[c] = d[c] /\ Get(G, c) = Get(F, c)
  PROVE  Full(G, e, n, x, y, N, v)
<1>1. PICK p : Run(F, p, n, x, y) /\ \A i \in 1..n : d[p[i]] \in N /\ p[i] # w
  BY DEF Full
<1>2. \A i \in 1..n : p[i] \in Cluster
  BY <1>1 DEF Run
<1>3. \A i \in 1..n : e[p[i]] \in N /\ p[i] # v /\ Get(G, p[i]) = Get(F, p[i])
  BY <1>1, <1>2
<1>4. Run(G, p, n, x, y)
  BY <1>1, <1>3 DEF Run
<1> QED BY <1>3, <1>4 DEF Full

LEMMA ClosedFrame ==
  ASSUME NEW F, NEW G, NEW d, NEW e, NEW n \in Nat, NEW x, NEW N, NEW w, NEW v,
         Closed(F, d, n, x, N, w),
         \A c \in Cluster : c # w /\ d[c] \in N => c # v /\ e[c] = d[c] /\ Get(G, c) = Get(F, c)
  PROVE  Closed(G, e, n, x, N, v)
<1>1. PICK y : Full(F, d, n, x, y, N, w) /\ (n > 0 => Get(F, y) = EOC)
  BY DEF Closed
<1>2. Full(G, e, n, x, y, N, v)
  BY <1>1, FullFrame
<1>3. n > 0 => y \in Cluster /\ d[y] \in N /\ y # w
  BY <1>1, FullEnds
<1>4. n > 0 => Get(G, y) = EOC
  BY <1>1, <1>3
<1> QED BY <1>2, <1>4 DEF Closed

\* Nor does the entry of its last cluster matter to a run.
LEMMA FullLast ==
  ASSUME NEW F, NEW G, NEW d, NEW n \in Nat, NEW x, NEW y, NEW N, NEW w,
         Full(F, d, n, x, y, N, w), \A c \in Cluster : c # y => Get(G, c) = Get(F, c)
  PROVE  Full(G, d, n, x, y, N, w)
<1>1. PICK p : Run(F, p, n, x, y) /\ \A i \in 1..n : d[p[i]] \in N /\ p[i] # w
  BY DEF Full
<1>2. ASSUME NEW i \in 1..n, i < n PROVE Get(G, p[i]) = p[i + 1]
  <2>1. n > 0 /\ n \in 1..n /\ i # n
    BY <1>2
  <2>2. p[i] \in Cluster /\ p[i] # y /\ Get(F, p[i]) = p[i + 1]
    BY <1>1, <1>2, <2>1 DEF Run
  <2> QED BY <2>2
<1>3. Run(G, p, n, x, y)
  BY <1>1, <1>2 DEF Run
<1> QED BY <1>1, <1>3 DEF Full

\* A free cluster is in no run that ends.
LEMMA ClosedUsed ==
  ASSUME NEW F, NEW d, NEW n \in Nat, NEW x, NEW y, NEW N, NEW w, NEW k, Get(F, k) = FREE,
         Full(F, d, n, x, y, N, w), n > 0 => Get(F, y) = EOC
  PROVE  Full(F, d, n, x, y, N, k)
<1>1. PICK p : Run(F, p, n, x, y) /\ \A i \in 1..n : d[p[i]] \in N /\ p[i] # w
  BY DEF Full
<1>2. ASSUME NEW i \in 1..n PROVE p[i] # k
  <2>1. CASE i < n
    <3>1. i + 1 \in 1..n
      BY <2>1
    <3>2. Get(F, p[i]) = p[i + 1] /\ p[i + 1] \in Cluster
      BY <1>1, <2>1, <3>1 DEF Run
    <3> QED BY <3>2, Ends
  <2>2. CASE ~ (i < n)
    <3>1. i = n /\ n > 0
      BY <2>2
    <3>2. Get(F, p[i]) = EOC
      BY <1>1, <3>1 DEF Run
    <3> QED BY <3>2, Ends
  <2> QED BY <2>1, <2>2
<1> QED BY <1>1, <1>2 DEF Full

\* A run of no cluster, and of one.
LEMMA FullEmpty ==
  ASSUME NEW F, NEW d, NEW N, NEW w
  PROVE  Full(F, d, 0, FREE, FREE, N, w)
<1> DEFINE p == [i \in 1..0 |-> FREE]
<1>1. Run(F, p, 0, FREE, FREE)
  BY DEF Run
<1> HIDE DEF p
<1> QED BY <1>1 DEF Full

LEMMA FullOne ==
  ASSUME NEW F, NEW d, NEW N, NEW w, NEW c \in Cluster, d[c] \in N, c # w
  PROVE  Full(F, d, 1, c, c, N, w)
<1> DEFINE p == [i \in 1..1 |-> c]
<1>1. Run(F, p, 1, c, c) /\ \A i \in 1..1 : p[i] = c
  BY DEF Run
<1> HIDE DEF p
<1> QED BY <1>1 DEF Full

\* A cluster is linked to the last of a run.
LEMMA FullNext ==
  ASSUME NEW F, NEW d, NEW n \in Nat, n > 0, NEW x, NEW y, NEW N, NEW c \in Cluster,
         Full(F, d, n, x, y, N, c), Get(F, y) = c, d[c] \in N
  PROVE  Full(F, d, n + 1, x, c, N, FREE)
<1>1. PICK p : Run(F, p, n, x, y) /\ \A i \in 1..n : d[p[i]] \in N /\ p[i] # c
  BY DEF Full
<1> DEFINE m == n + 1
           q == [i \in 1..m |-> IF i <= n THEN p[i] ELSE c]
<1>2. /\ m \in Nat /\ m > 0 /\ m # 0 /\ m = n + 1 /\ 1 \in 1..m /\ m \in 1..m /\ ~ (m <= n) /\ 1 <= n
      /\ \A i \in 1..m : i <= n => i \in 1..n
      /\ \A i \in 1..m : ~ (i <= n) => i = m
  OBVIOUS
<1>3. \A i \in 1..m : q[i] = IF i <= n THEN p[i] ELSE c
  OBVIOUS
<1>4. q \in [1..m -> Cluster]
  <2>1. \A i \in 1..m : (IF i <= n THEN p[i] ELSE c) \in Cluster
    BY <1>1 DEF Run
  <2> QED BY <2>1
<1> HIDE DEF q, m
<1>5. q[1] = x /\ q[m] = c
  BY <1>1, <1>2, <1>3 DEF Run
<1>6. ASSUME NEW i \in 1..m, i < m PROVE Get(F, q[i]) = q[i + 1]
  <2>1. i \in 1..n /\ i <= n /\ i + 1 \in 1..m
    BY <1>2, <1>6
  <2>2. q[i] = p[i]
    BY <1>3, <2>1
  <2>3. CASE i < n
    <3>1. i + 1 <= n
      BY <2>3
    <3>2. q[i + 1] = p[i + 1]
      BY <1>3, <2>1, <3>1
    <3> QED BY <1>1, <2>1, <2>2, <2>3, <3>2 DEF Run
  <2>4. CASE i = n
    <3>1. i + 1 = m
      BY <1>2, <2>4
    <3>2. p[i] = y
      BY <1>1, <2>1, <2>4 DEF Run
    <3> QED BY <1>5, <2>2, <3>1, <3>2
  <2> QED BY <2>1, <2>3, <2>4
<1>7. ASSUME NEW i \in 1..m, NEW j \in 1..m, q[i] = q[j] PROVE i = j
  <2>1. CASE i <= n /\ j <= n
    <3>1. i \in 1..n /\ j \in 1..n /\ p[i] = p[j]
      BY <1>2, <1>3, <1>7, <2>1
    <3> QED BY <1>1, <3>1 DEF Run
  <2>2. CASE i <= n /\ ~ (j <= n)
    <3>1. i \in 1..n /\ p[i] = c
      BY <1>2, <1>3, <1>7, <2>2
    <3> QED BY <1>1, <3>1
  <2>3. CASE ~ (i <= n) /\ j <= n
    <3>1. j \in 1..n /\ p[j] = c
      BY <1>2, <1>3, <1>7, <2>3
    <3> QED BY <1>1, <3>1
  <2>4. CASE ~ (i <= n) /\ ~ (j <= n)
    BY <1>2, <2>4
  <2> QED BY <2>1, <2>2, <2>3, <2>4
<1>8. ASSUME NEW i \in 1..m PROVE d[q[i]] \in N /\ q[i] # FREE
  <2>1. q[i] # FREE
    BY <1>4, Ends
  <2>2. CASE i <= n
    BY <1>1, <1>2, <1>3, <2>1, <2>2
  <2>3. CASE ~ (i <= n)
    BY <1>3, <2>1, <2>3
  <2> QED BY <2>2, <2>3
<1>9. Run(F, q, m, x, c)
  BY <1>2, <1>4, <1>5, <1>6, <1>7 DEF Run
<1>10. Full(F, d, m, x, c, N, FREE)
  BY <1>8, <1>9 DEF Full
<1> QED BY <1>10 DEF m

\* The first cluster taken off a run.
LEMMA ClosedTail ==
  ASSUME NEW F, NEW d, NEW n \in Nat, NEW x \in Cluster, NEW N, NEW w, Closed(F, d, n, x, N, w)
  PROVE  /\ d[x] \in N
         /\ Get(F, x) \notin Cluster \/ \E m \in Nat : Closed(F, d, m, Get(F, x), N, x)
<1>1. PICK y : Full(F, d, n, x, y, N, w) /\ (n > 0 => Get(F, y) = EOC)
  BY DEF Closed
<1>2. n > 0 /\ d[x] \in N
  BY <1>1, FullEnds, Ends
<1>3. PICK p : Run(F, p, n, x, y) /\ \A i \in 1..n : d[p[i]] \in N /\ p[i] # w
  BY <1>1 DEF Full
<1>4. CASE n = 1
  <2>1. x = y
    BY <1>3, <1>4 DEF Run
  <2> QED BY <1>1, <1>2, <2>1, Ends
<1>5. CASE n # 1
  <2> DEFINE m == n - 1
             q == [i \in 1..m |-> p[i + 1]]
  <2>1. /\ m \in Nat /\ m > 0 /\ m # 0 /\ m + 1 = n /\ 1 \in 1..m /\ m \in 1..m
        /\ 1 \in 1..n /\ 1 < n /\ \A i \in 1..m : i + 1 \in 1..n /\ i + 1 # 1
    BY <1>2, <1>5
  <2>2. \A i \in 1..m : q[i] = p[i + 1]
    OBVIOUS
  <2>3. q \in [1..m -> Cluster]
    <3>1. \A i \in 1..m : p[i + 1] \in Cluster
      BY <1>3, <2>1 DEF Run
    <3> QED BY <3>1
  <2> HIDE DEF q, m
  <2>4. p[1] = x /\ p[n] = y /\ Get(F, x) = p[2]
    <3>1. 1 + 1 = 2
      OBVIOUS
    <3> QED BY <1>2, <1>3, <2>1, <3>1 DEF Run
  <2>5. q[1] = Get(F, x) /\ q[m] = y
    <3>1. 1 + 1 = 2
      OBVIOUS
    <3> QED BY <2>1, <2>2, <2>4, <3>1
  <2>6. ASSUME NEW i \in 1..m, i < m PROVE Get(F, q[i]) = q[i + 1]
    <3>1. i + 1 \in 1..m /\ i + 1 \in 1..n /\ i + 1 < n
      BY <2>1, <2>6
    <3>2. q[i] = p[i + 1] /\ q[i + 1] = p[(i + 1) + 1]
      BY <2>2, <3>1
    <3> QED BY <1>3, <3>1, <3>2 DEF Run
  <2>7. ASSUME NEW i \in 1..m, NEW j \in 1..m, q[i] = q[j] PROVE i = j
    <3>1. i + 1 \in 1..n /\ j + 1 \in 1..n /\ p[i + 1] = p[j + 1]
      BY <2>1, <2>2, <2>7
    <3>2. i + 1 = j + 1
      BY <1>3, <3>1 DEF Run
    <3> QED BY <3>2
  <2>8. ASSUME NEW i \in 1..m PROVE d[q[i]] \in N /\ q[i] # x
    <3>1. i + 1 \in 1..n /\ i + 1 # 1 /\ 1 \in 1..n /\ q[i] = p[i + 1]
      BY <2>1, <2>2
    <3> QED BY <1>3, <2>4, <3>1 DEF Run
  <2>9. Run(F, q, m, q[1], y)
    BY <2>1, <2>3, <2>5, <2>6, <2>7 DEF Run
  <2>10. Full(F, d, m, q[1], y, N, x)
    BY <2>8, <2>9 DEF Full
  <2>11. Closed(F, d, m, q[1], N, x)
    BY <1>1, <1>2, <2>10 DEF Closed
  <2> QED BY <1>2, <2>1, <2>5, <2>11
<1> QED BY <1>4, <1>5

\* The payload is in the first k clusters of the run.
Streaming(F, d, n, x, k, c, name) ==
  \E p, y : /\ Run(F, p, n, x, y) /\ Get(F, y) = EOC /\ k \in Nat /\ k < n /\ c = p[k + 1]
            /\ \A i \in 1..n : d[p[i]] = IF i <= k THEN name ELSE Zero

LEMMA StreamBegins ==
  ASSUME NEW F, NEW d, NEW n \in Nat, n > 0, NEW x, NEW y, NEW w, NEW name,
         Full(F, d, n, x, y, {Zero}, w), Get(F, y) = EOC
  PROVE  Streaming(F, d, n, x, 0, x, name)
<1>1. PICK p : Run(F, p, n, x, y) /\ \A i \in 1..n : d[p[i]] \in {Zero} /\ p[i] # w
  BY DEF Full
<1>2. 0 \in Nat /\ 0 < n /\ 0 + 1 = 1 /\ \A i \in 1..n : ~ (i <= 0)
  OBVIOUS
<1>3. x = p[0 + 1]
  BY <1>1, <1>2 DEF Run
<1> QED BY <1>1, <1>2, <1>3 DEF Streaming

LEMMA StreamAt ==
  ASSUME NEW F, NEW d, NEW n \in Nat, NEW x, NEW k, NEW c, NEW name,
         Streaming(F, d, n, x, k, c, name)
  PROVE  c \in Cluster /\ d[c] = Zero
<1>1. PICK p, y : /\ Run(F, p, n, x, y) /\ Get(F, y) = EOC /\ k \in Nat /\ k < n /\ c = p[k + 1]
                  /\ \A i \in 1..n : d[p[i]] = IF i <= k THEN name ELSE Zero
  BY DEF Streaming
<1>2. k + 1 \in 1..n /\ ~ (k + 1 <= k)
  BY <1>1
<1> QED BY <1>1, <1>2 DEF Run

LEMMA StreamOn ==
  ASSUME NEW F, NEW d \in [Cluster -> Name \cup {Zero}], NEW e, NEW n \in Nat, NEW x, NEW k, NEW c,
         NEW name \in Name,
         Streaming(F, d, n, x, k, c, name), e = [d EXCEPT ![c] = name]
  PROVE  /\ k + 1 < n => Streaming(F, e, n, x, k + 1, Get(F, c), name)
         /\ ~ (k + 1 < n) => Closed(F, e, n, x, {name}, FREE)
<1>1. PICK p, y : /\ Run(F, p, n, x, y) /\ Get(F, y) = EOC /\ k \in Nat /\ k < n /\ c = p[k + 1]
                  /\ \A i \in 1..n : d[p[i]] = IF i <= k THEN name ELSE Zero
  BY DEF Streaming
<1>2. k + 1 \in 1..n /\ ~ (k + 1 <= k) /\ n > 0
  BY <1>1
<1>3. c \in Cluster
  BY StreamAt
<1>4. ASSUME NEW i \in 1..n PROVE e[p[i]] = IF i <= k + 1 THEN name ELSE Zero
  <2>1. p[i] \in Cluster /\ (p[i] = c => i = k + 1)
    BY <1>1, <1>2 DEF Run
  <2>2. e[p[i]] = IF p[i] = c THEN name ELSE d[p[i]]
    BY <2>1
  <2>3. CASE i = k + 1
    <3>1. i <= k + 1
      BY <1>1, <2>3
    <3> QED BY <1>1, <2>2, <2>3, <3>1
  <2>4. CASE i # k + 1
    <3>1. i <= k + 1 <=> i <= k
      BY <1>1, <2>4
    <3> QED BY <1>1, <2>1, <2>2, <2>4, <3>1
  <2> QED BY <2>3, <2>4
<1>5. ASSUME k + 1 < n PROVE Streaming(F, e, n, x, k + 1, Get(F, c), name)
  <2>1. Get(F, c) = p[(k + 1) + 1]
    BY <1>1, <1>2, <1>5 DEF Run
  <2>2. k + 1 \in Nat
    BY <1>1
  <2> QED BY <1>1, <1>4, <1>5, <2>1, <2>2 DEF Streaming
<1>6. ASSUME ~ (k + 1 < n) PROVE Closed(F, e, n, x, {name}, FREE)
  <2>1. \A i \in 1..n : i <= k + 1
    BY <1>1, <1>6
  <2>2. \A i \in 1..n : p[i] # FREE
    BY <1>1, Ends DEF Run
  <2>3. \A i \in 1..n : e[p[i]] \in {name} /\ p[i] # FREE
    BY <1>4, <2>1, <2>2
  <2>4. Full(F, e, n, x, y, {name}, FREE)
    BY <1>1, <2>3 DEF Full
  <2> QED BY <1>1, <2>4 DEF Closed
<1> QED BY <1>5, <1>6

\* What is read along a run that ends.
LEMMA ClosedReads ==
  ASSUME NEW d, NEW n \in Nat, NEW x, NEW N, NEW w, Closed(fat[1], d, n, x, N, w),
         NEW i \in 1..n
  PROVE  Nth(x, i - 1) \in Cluster /\ d[Nth(x, i - 1)] \in N
<1> DEFINE F == fat[1]
           f(k) == Nth(x, k)
<1>1. PICK y : Full(F, d, n, x, y, N, w) /\ (n > 0 => Get(F, y) = EOC)
  BY DEF Closed
<1>2. PICK p : Run(F, p, n, x, y) /\ \A k \in 1..n : d[p[k]] \in N /\ p[k] # w
  BY <1>1 DEF Full
<1>3. x \in Cluster /\ x \in Value /\ p[1] = x
  <2>1. n > 0 /\ 1 \in 1..n
    OBVIOUS
  <2> QED BY <1>1, <1>2, <2>1, FullEnds, ClusterNat DEF Run
<1>4. n <= LastCluster
  <2> DEFINE m == n - 1
             q == [k \in 0..m |-> p[k + 1]]
  <2>1. m \in Nat /\ m + 1 = n /\ \A k \in 0..m : k + 1 \in 1..n
    OBVIOUS
  <2>2. \A k \in 0..m : q[k] = p[k + 1]
    OBVIOUS
  <2>3. q \in [0..m -> Cluster]
    <3>1. \A k \in 0..m : p[k + 1] \in Cluster
      BY <1>2, <2>1 DEF Run
    <3> QED BY <3>1
  <2>4. ASSUME NEW k \in 0..m, NEW l \in 0..m, q[k] = q[l] PROVE k = l
    <3>1. k + 1 \in 1..n /\ l + 1 \in 1..n /\ p[k + 1] = p[l + 1]
      BY <2>1, <2>2, <2>4
    <3>2. k + 1 = l + 1
      BY <1>2, <3>1 DEF Run
    <3> QED BY <3>2
  <2> HIDE DEF q, m
  <2>5. m <= LastCluster - 2
    BY <2>1, <2>3, <2>4, PathShort
  <2> QED BY <2>1, <2>5, FatAssumption
<1>5. f(0) = x /\ \A k \in 1..LastCluster : f(k) = Onwards(F, f(k - 1))
  BY <1>3, NthGives
<1> HIDE DEF f
<1> DEFINE Bad == {k \in Nat : k < n /\ f(k) # p[k + 1]}
<1>6. f(i - 1) = p[i]
  <2>1. i - 1 \in Nat /\ i - 1 < n /\ (i - 1) + 1 = i
    OBVIOUS
  <2> SUFFICES ASSUME i - 1 \in Bad PROVE FALSE
    BY <2>1
  <2>2. PICK k \in Bad : \A m \in Bad : k <= m
    <3>1. Bad \in SUBSET Nat /\ Bad # {}
      OBVIOUS
    <3> HIDE DEF Bad
    <3> QED BY <3>1, HasLeast
  <2>3. k # 0
    <3>1. 0 + 1 = 1
      OBVIOUS
    <3> QED BY <1>3, <1>5, <2>2, <3>1
  <2>4. /\ k \in 1..n /\ k < n /\ k \in 1..LastCluster /\ k - 1 \in Nat /\ k - 1 < n /\ ~ (k <= k - 1)
        /\ (k - 1) + 1 = k
    BY <1>4, <2>2, <2>3, FatAssumption
  <2>5. f(k - 1) = p[k]
    BY <2>2, <2>4
  <2>6. p[k] \in Cluster /\ Get(F, p[k]) = p[k + 1]
    BY <1>2, <2>4 DEF Run
  <2>7. f(k) = p[k + 1]
    BY <1>5, <2>4, <2>5, <2>6 DEF Onwards
  <2> QED BY <2>2, <2>7
<1> QED BY <1>2, <1>6 DEF Run, f

------------------------------------------------------------------------------
(* Fat12: the files are whole.

   While no operation broke off, every file but the one at hand is a run of clusters that
   hold its blocks and the operation has its own, told apart by what is in them: the new
   chain is zeroed, the old one holds blocks of the name written or deleted.      *)

\* A cluster that is taken and may still hold a block of any file.
Avoided(o) == IF o.pc = "zero" \/ Calls(o, "mark") \/ Calls(o, "link") THEN o.c ELSE FREE

\* The files in D but the one in slot: each is whole, and has another name.
Others(F, d, D, slot, name, w) ==
  \A s \in Slot : D[s].kind = "file" /\ s # slot =>
    D[s].name \in Name \ {name} /\ Closed(F, d, D[s].len, D[s].head, {D[s].name}, w)

\* What the operation holds.
Own(F, d, o) ==
  /\ o.pc = "idle" => o.slot = 0
  /\ o.pc \in {"remove", "free"} => \E n \in Nat : Closed(F, d, n, o.c, {o.name, Zero}, FREE)
  /\ Calls(o, "free") =>
       /\ d[o.c] \in {o.name, Zero}
       /\ o.next \notin Cluster \/ \E n \in Nat : Closed(F, d, n, o.next, {o.name, Zero}, o.c)
  /\ Taking(o) => Full(F, d, o.done, o.first, o.prev, {Zero}, Avoided(o))
  /\ Calls(o, "link") => d[o.c] = Zero
  /\ o.pc = "stream" => Streaming(F, d, o.len, o.first, o.done, o.c, o.name)
  /\ o.pc = "entry" => Closed(F, d, o.len, o.first, {o.name}, FREE)

\* The file it replaces or deletes; when a chain is freed for good no file has it.
Target(D, o) ==
  o.slot \in Slot /\ D[o.slot].kind = "file" =>
    D[o.slot].name = o.name /\ ~ (Freeing(o) /\ o.then = "return")

Whole(F, d, D, o) ==
  Others(F, d, D, o.slot, o.name, Avoided(o)) /\ Own(F, d, o) /\ Target(D, o)

\* The lengths recorded are those in the directory.
Recorded(D, W) ==
  /\ \A s \in Slot : D[s].kind = "file" => W[D[s].name] = {D[s].len}
  /\ \A n \in Name : (\A s \in Slot : D[s].kind = "file" => D[s].name # n) => W[n] = {}

Intact == clean => Calm /\ Whole(fat[1], data, dir, op) /\ Recorded(dir, written)

LEMMA FileEntry ==
  ASSUME NEW e \in Entry, e.kind = "file"
  PROVE  e.len \in Nat /\ e.head \in Value
BY FatAssumption DEF Entry

LEMMA NameGiven == \A n \in Name : n # Zero /\ n # NoName
BY FatAssumption

LEMMA IdleHolds ==
  /\ Idle.pc = "idle" /\ Idle.slot = 0 /\ Idle.name = NoName /\ Avoided(Idle) = FREE
  /\ \A F, d : Own(F, d, Idle)
  /\ \A D : Target(D, Idle)
<1>1. Idle.pc = "idle" /\ Idle.slot = 0 /\ Idle.name = NoName
  BY DEF Idle
<1>2. ~ Taking(Idle) /\ ~ Calls(Idle, "free") /\ ~ Calls(Idle, "link") /\ ~ Calls(Idle, "mark")
  BY <1>1 DEF Taking, Calls
<1>3. 0 \notin Slot
  BY FatAssumption DEF Slot
<1> QED BY <1>1, <1>2, <1>3 DEF Avoided, Own, Target

\* A cluster that is avoided or of the operation's own changes.
LEMMA OthersFrame ==
  ASSUME NEW F, NEW G, NEW d, NEW e, NEW D \in [Slot -> Entry], NEW slot, NEW name, NEW w, NEW v,
         NEW k, Others(F, d, D, slot, name, w),
         v = w \/ v = FREE,
         k \in Cluster => k = w \/ d[k] \in {name, Zero},
         \A c \in Cluster : c # k => e[c] = d[c] /\ Get(G, c) = Get(F, c)
  PROVE  Others(G, e, D, slot, name, v)
<1> SUFFICES ASSUME NEW s \in Slot, D[s].kind = "file", s # slot
             PROVE  /\ D[s].name \in Name \ {name}
                    /\ Closed(G, e, D[s].len, D[s].head, {D[s].name}, v)
  BY DEF Others
<1>1. D[s].name \in Name \ {name} /\ Closed(F, d, D[s].len, D[s].head, {D[s].name}, w)
  BY DEF Others
<1>2. D[s].len \in Nat /\ D[s].name # Zero
  BY <1>1, FileEntry, NameGiven
<1>3. \A c \in Cluster : c # w /\ d[c] \in {D[s].name} => c # v /\ e[c] = d[c] /\ Get(G, c) = Get(F, c)
  BY <1>1, <1>2, Ends
<1> DEFINE n == D[s].len
           x == D[s].head
           N == {D[s].name}
<1>4. n \in Nat /\ Closed(F, d, n, x, N, w)
  BY <1>1, <1>2
<1>5. \A c \in Cluster : c # w /\ d[c] \in N => c # v /\ e[c] = d[c] /\ Get(G, c) = Get(F, c)
  BY <1>3
<1> HIDE DEF n, x, N
<1>6. Closed(G, e, n, x, N, v)
  BY <1>4, <1>5, ClosedFrame
<1> QED BY <1>1, <1>6 DEF n, x, N

\* A free cluster is taken.
LEMMA OthersTaken ==
  ASSUME NEW F, NEW d, NEW D \in [Slot -> Entry], NEW slot, NEW name, NEW w, NEW k,
         Others(F, d, D, slot, name, w), Get(F, k) = FREE
  PROVE  Others(F, d, D, slot, name, k)
<1> SUFFICES ASSUME NEW s \in Slot, D[s].kind = "file", s # slot
             PROVE  /\ D[s].name \in Name \ {name}
                    /\ Closed(F, d, D[s].len, D[s].head, {D[s].name}, k)
  BY DEF Others
<1>1. D[s].name \in Name \ {name} /\ Closed(F, d, D[s].len, D[s].head, {D[s].name}, w)
  BY DEF Others
<1> DEFINE n == D[s].len
           x == D[s].head
           N == {D[s].name}
<1>2. n \in Nat /\ Closed(F, d, n, x, N, w)
  BY <1>1, FileEntry
<1> HIDE DEF n, x, N
<1>3. Closed(F, d, n, x, N, k)
  BY <1>2, ClosedUsed DEF Closed
<1> QED BY <1>1, <1>3 DEF n, x, N

\* The operation ends, without a file in its slot.
LEMMA OthersIdle ==
  ASSUME NEW F, NEW d, NEW D \in [Slot -> Entry], NEW slot, NEW name,
         Others(F, d, D, slot, name, FREE), slot \in Slot => D[slot].kind # "file"
  PROVE  Whole(F, d, D, Idle)
<1>1. ASSUME NEW s \in Slot, D[s].kind = "file"
      PROVE  /\ D[s].name \in Name \ {NoName}
             /\ Closed(F, d, D[s].len, D[s].head, {D[s].name}, FREE)
  <2>1. s # slot
    BY <1>1
  <2> QED BY <1>1, <2>1, NameGiven DEF Others
<1>2. Others(F, d, D, 0, NoName, FREE)
  BY <1>1 DEF Others
<1> QED BY <1>2, IdleHolds DEF Whole

\* More contents are allowed.
LEMMA ClosedMore ==
  ASSUME NEW F, NEW d, NEW n, NEW x, NEW N, NEW M, NEW w, NEW v, N \subseteq M, v \notin Cluster,
         Closed(F, d, n, x, N, w)
  PROVE  Closed(F, d, n, x, M, v)
<1>1. PICK y : Full(F, d, n, x, y, N, w) /\ (n > 0 => Get(F, y) = EOC)
  BY DEF Closed
<1>2. PICK p : Run(F, p, n, x, y) /\ \A i \in 1..n : d[p[i]] \in N /\ p[i] # w
  BY <1>1 DEF Full
<1>3. \A i \in 1..n : d[p[i]] \in M /\ p[i] # v
  BY <1>2 DEF Run
<1>4. Full(F, d, n, x, y, M, v)
  BY <1>2, <1>3 DEF Full
<1> QED BY <1>1, <1>4 DEF Closed

\* fat_free_chain goes on with a run, or returns.
LEMMA WholeChained ==
  ASSUME NEW F, NEW d, NEW D \in [Slot -> Entry], NEW o, NEW p, NEW c, NEW then,
         Chained(o, p, c, then), c \notin Beyond, o.len \in Nat,
         Others(F, d, D, o.slot, o.name, FREE),
         c \in Cluster => \E n \in Nat : Closed(F, d, n, c, {o.name, Zero}, FREE),
         then \in {"alloc", "return"},
         then = "alloc" => o.first = FREE /\ o.prev = FREE /\ o.done = 0,
         o.slot \in Slot /\ D[o.slot].kind = "file" => D[o.slot].name = o.name /\ then = "alloc"
  PROVE  Whole(F, d, D, p)
<1>1. CASE c \in Cluster
  <2>1. p.pc = "free" /\ p.c = c /\ p.then = then /\ SameFile(o, p)
    BY <1>1 DEF Chained
  <2>2. Avoided(p) = FREE /\ ~ Taking(p) /\ ~ Calls(p, "free") /\ ~ Calls(p, "link")
    BY <2>1 DEF Avoided, Calls, Taking
  <2>3. p.slot = o.slot /\ p.name = o.name
    BY <2>1 DEF SameFile
  <2>4. Own(F, d, p)
    BY <1>1, <2>1, <2>2, <2>3 DEF Own
  <2>5. Target(D, p)
    BY <2>1, <2>3 DEF Target
  <2> QED BY <2>2, <2>3, <2>4, <2>5 DEF Whole
<1>2. CASE c \notin Cluster /\ then = "return"
  <2>1. p = Idle
    BY <1>2 DEF Chained
  <2>2. Whole(F, d, D, Idle)
    BY <1>2, OthersIdle
  <2> QED BY <2>1, <2>2
<1>3. CASE c \notin Cluster /\ then = "alloc"
  <2>1. /\ p.pc = (IF o.len > 0 THEN "alloc" ELSE "entry") /\ SameFile(o, p) /\ SameChain(o, p)
    BY <1>3 DEF Chained
  <2>2. /\ p.slot = o.slot /\ p.name = o.name /\ p.len = o.len
        /\ p.first = FREE /\ p.prev = FREE /\ p.done = 0
    BY <1>3, <2>1 DEF SameFile, SameChain
  <2>3. /\ p.pc \in {"alloc", "entry"} /\ Avoided(p) = FREE /\ ~ Freeing(p)
        /\ ~ Calls(p, "free") /\ ~ Calls(p, "link")
    BY <2>1 DEF Avoided, Calls, Freeing
  <2>4. Full(F, d, 0, FREE, FREE, {Zero}, FREE) /\ Full(F, d, 0, FREE, FREE, {p.name}, FREE)
    BY FullEmpty
  <2>5. p.pc = "entry" => p.len = 0
    BY <2>1, <2>2
  <2>6. Closed(F, d, 0, FREE, {p.name}, FREE)
    BY <2>4 DEF Closed
  <2>7. Own(F, d, p)
    BY <2>2, <2>3, <2>4, <2>5, <2>6 DEF Own
  <2>8. Target(D, p)
    BY <2>2, <2>3 DEF Target
  <2> QED BY <2>2, <2>3, <2>7, <2>8 DEF Whole
<1> QED BY <1>1, <1>2, <1>3

\* The run has grown by one cluster.
LEMMA WholeAppended ==
  ASSUME NEW F, NEW d, NEW D, NEW o, NEW p, Appended(o, p), o.done \in Nat, o.len \in Nat,
         o.done < o.len,
         Others(F, d, D, o.slot, o.name, FREE), Target(D, o),
         Full(F, d, o.done + 1, p.first, o.c, {Zero}, FREE), Get(F, o.c) = EOC
  PROVE  Whole(F, d, D, p)
<1>1. /\ p.slot = o.slot /\ p.name = o.name /\ p.len = o.len /\ p.prev = o.c
      /\ p.pc \in {"alloc", "stream"}
      /\ p.pc = "alloc" => p.done = o.done + 1
      /\ p.pc = "stream" => ~ (o.done + 1 < o.len) /\ p.done = 0 /\ p.c = p.first
  BY DEF Appended, SameFile
<1>2. Avoided(p) = FREE /\ ~ Freeing(p) /\ ~ Calls(p, "free") /\ ~ Calls(p, "link")
      /\ (Taking(p) <=> p.pc = "alloc")
  BY <1>1 DEF Avoided, Calls, Freeing, Taking
<1>3. ASSUME p.pc = "stream" PROVE Streaming(F, d, p.len, p.first, p.done, p.c, p.name)
  <2>1. o.done + 1 = p.len /\ p.len \in Nat /\ p.len > 0
    BY <1>1, <1>3
  <2>2. Full(F, d, p.len, p.first, o.c, {Zero}, FREE)
    BY <2>1
  <2>3. Streaming(F, d, p.len, p.first, 0, p.first, p.name)
    BY <2>1, <2>2, StreamBegins
  <2> QED BY <1>1, <1>3, <2>3
<1>4. Own(F, d, p)
  BY <1>1, <1>2, <1>3 DEF Own
<1>5. Target(D, p)
  BY <1>1, <1>2 DEF Target
<1> QED BY <1>1, <1>2, <1>4, <1>5 DEF Whole

LEMMA SetIntact ==
  ASSUME Inv, Staged, Tame, Intact, SetSector
  PROVE  Intact'
<1> DEFINE F == fat[1]
           k == op.set.c
<1>0. /\ op.pc = "set" /\ op.set.for \in {"free", "mark", "link"} /\ k \in Cluster
      /\ (op.set.for # "free" => op.c \in Cluster) /\ op.len \in Nat /\ op.done \in Nat
      /\ dir \in [Slot -> Entry]
  BY FatAssumption DEF Inv, Volume, SetSector, Sound, Ops, Setting
<1>1. SUFFICES ASSUME clean' PROVE Intact'
  BY DEF Intact
<1>2. SetWorks
  <2>1. SetFails \/ SetWorks
    BY SetStep
  <2>2. ~ SetFails
    BY <1>1 DEF SetFails
  <2> QED BY <2>1, <2>2
<1>3. dir' = dir /\ data' = data /\ written' = written
  BY <1>2 DEF SetWorks
<1>4. Calm' /\ OnDisk(op) /\ Whole(F, data, dir, op) /\ Recorded(dir, written)
  <2>1. clean
    BY <1>1, <1>2 DEF SetWorks
  <2>2. Calm /\ Calm'
    BY <1>2, <2>1 DEF Intact, SetWorks, Calm
  <2> QED BY <2>1, <2>2 DEF Intact, Tame
<1>5. Stage(op, F)
  BY DEF Staged
<1>6. /\ op.set.for = "free" <=> Calls(op, "free")
      /\ op.set.for = "mark" <=> Calls(op, "mark")
      /\ op.set.for = "link" <=> Calls(op, "link")
  BY <1>0 DEF Calls
<1>7. SUFFICES ASSUME NEW G, fat'[1] = G PROVE Whole(G, data, dir, op')
  BY <1>3, <1>4 DEF Intact
<1>8. /\ Others(F, data, dir, op.slot, op.name, Avoided(op)) /\ Own(F, data, op) /\ Target(dir, op)
      /\ Taking(op) => Full(F, data, op.done, op.first, op.prev, {Zero}, Avoided(op))
      /\ op.set.for = "free" => ~ Taking(op) /\ Avoided(op) = FREE /\ k = op.c
      /\ op.set.for = "mark" => Taking(op) /\ Avoided(op) = op.c /\ k = op.c
      /\ op.set.for = "link" => /\ Taking(op) /\ Avoided(op) = op.c /\ k = op.prev
                                /\ op.prev \in Cluster /\ op.done > 0 /\ data[op.prev] = Zero
  <2>1. Others(F, data, dir, op.slot, op.name, Avoided(op)) /\ Own(F, data, op) /\ Target(dir, op)
    BY <1>4 DEF Whole
  <2>2. Taking(op) => Full(F, data, op.done, op.first, op.prev, {Zero}, Avoided(op))
    BY <2>1 DEF Own
  <2>3. /\ op.set.for = "free" => ~ Taking(op) /\ Avoided(op) = FREE
        /\ op.set.for = "mark" => Taking(op) /\ Avoided(op) = op.c
        /\ op.set.for = "link" => Taking(op) /\ Avoided(op) = op.c
    BY <1>0 DEF Taking, Avoided, Calls
  <2>4. k = (IF op.set.for = "link" THEN op.prev ELSE op.c)
        /\ (op.set.for = "link" => op.prev \in Cluster)
    BY <1>0, <1>5, <1>6 DEF Stage
  <2>5. ASSUME op.set.for = "link" PROVE op.done > 0 /\ data[op.prev] = Zero
    <3>1. Full(F, data, op.done, op.first, op.prev, {Zero}, op.c) /\ op.prev \in Cluster
      BY <2>2, <2>3, <2>4, <2>5
    <3>2. /\ op.done = 0 => op.prev = FREE
          /\ op.done > 0 => data[op.prev] \in {Zero}
      BY <1>0, <3>1, FullEnds
    <3> QED BY <1>0, <3>1, <3>2, Ends
  <2> QED BY <2>1, <2>2, <2>3, <2>4, <2>5
\* Still at work on the entry k.
<1>9. ASSUME SameSet(op, op'), \A c \in Cluster : c # k => Get(G, c) = Get(F, c)
      PROVE  Whole(G, data, dir, op')
  <2>1. /\ op'.pc = "set" /\ op'.set.for = op.set.for /\ op'.c = op.c /\ op'.next = op.next
        /\ op'.then = op.then /\ op'.first = op.first /\ op'.prev = op.prev /\ op'.done = op.done
        /\ op'.name = op.name /\ op'.slot = op.slot /\ op'.len = op.len
    BY <1>9 DEF SameSet, SameFile, SameChain
  <2>2. /\ Avoided(op') = Avoided(op) /\ (Taking(op') <=> Taking(op)) /\ (Freeing(op') <=> Freeing(op))
        /\ (Calls(op', "free") <=> Calls(op, "free")) /\ (Calls(op', "link") <=> Calls(op, "link"))
    BY <1>0, <2>1 DEF Avoided, Taking, Freeing, Calls
  <2>3. Others(G, data, dir, op.slot, op.name, Avoided(op))
    <3> DEFINE w == Avoided(op)
    <3>1. k = w \/ data[k] \in {op.name, Zero}
      BY <1>0, <1>6, <1>8 DEF Own
    <3>2. /\ dir \in [Slot -> Entry] /\ (w = w \/ w = FREE)
          /\ Others(F, data, dir, op.slot, op.name, w)
          /\ k \in Cluster => k = w \/ data[k] \in {op.name, Zero}
          /\ \A c \in Cluster : c # k => data[c] = data[c] /\ Get(G, c) = Get(F, c)
      BY <1>0, <1>8, <1>9, <3>1
    <3> DEFINE n == op.name
               s == op.slot
    <3>3. Others(F, data, dir, s, n, w) /\ (k \in Cluster => k = w \/ data[k] \in {n, Zero})
      BY <3>2
    <3> HIDE DEF w, F, k, n, s
    <3>4. Others(G, data, dir, s, n, w)
      BY <3>2, <3>3, OthersFrame
    <3> QED BY <3>4 DEF w, n, s
  <2>4. ASSUME Calls(op, "free"), op.next \in Cluster
        PROVE  \E n \in Nat : Closed(G, data, n, op.next, {op.name, Zero}, op.c)
    <3>1. PICK n \in Nat : Closed(F, data, n, op.next, {op.name, Zero}, op.c)
      BY <1>8, <2>4 DEF Own
    <3>2. k = op.c
      BY <1>6, <1>8, <2>4
    <3>3. Closed(G, data, n, op.next, {op.name, Zero}, op.c)
      BY <1>9, <3>1, <3>2, ClosedFrame
    <3> QED BY <3>3
  <2>5. ASSUME Taking(op) PROVE Full(G, data, op.done, op.first, op.prev, {Zero}, Avoided(op))
    <3>1. Full(F, data, op.done, op.first, op.prev, {Zero}, Avoided(op))
      BY <1>8, <2>5
    <3>2. CASE k = Avoided(op)
      BY <1>0, <1>9, <3>1, <3>2, FullFrame
    <3>3. CASE k = op.prev
      BY <1>0, <1>9, <3>1, <3>3, FullLast
    <3> QED BY <1>0, <1>8, <2>5, <3>2, <3>3
  <2>6. Own(G, data, op')
    <3>1. Calls(op, "free") => data[op.c] \in {op.name, Zero}
      BY <1>8 DEF Own
    <3>2. Calls(op, "link") => data[op.c] = Zero
      BY <1>8 DEF Own
    <3> QED BY <2>1, <2>2, <2>4, <2>5, <3>1, <3>2 DEF Own
  <2>7. Target(dir, op')
    BY <1>8, <2>1, <2>2 DEF Target
  <2> QED BY <2>1, <2>2, <2>3, <2>6, <2>7 DEF Whole
\* fat_set is done.
<1>10. ASSUME Returned(op, op', TRUE), G = F, Get(F, k) = op.set.value
       PROVE  Whole(G, data, dir, op')
  <2>1. CASE op.set.for = "free"
    <3>1. Chained(op, op', op.next, op.then) /\ Calls(op, "free") /\ Freeing(op) /\ Avoided(op) = FREE
      BY <1>0, <1>6, <1>8, <1>10, <2>1 DEF Returned, Freeing
    <3>2. op.next \in Cluster => \E n \in Nat : Closed(F, data, n, op.next, {op.name, Zero}, FREE)
      <4> SUFFICES ASSUME op.next \in Cluster
                   PROVE  \E n \in Nat : Closed(F, data, n, op.next, {op.name, Zero}, FREE)
        OBVIOUS
      <4>1. PICK n \in Nat : Closed(F, data, n, op.next, {op.name, Zero}, op.c)
        BY <1>8, <3>1 DEF Own
      <4>2. Closed(F, data, n, op.next, {op.name, Zero}, FREE)
        BY <4>1, Ends, ClosedMore
      <4> QED BY <4>2
    <3>3. op.then \in {"alloc", "return"}
      BY DEF Inv, Sound, Ops
    <3>4. op.then = "alloc" => op.first = FREE /\ op.prev = FREE /\ op.done = 0
      BY <1>5, <3>1 DEF Stage, Inv, Sound
    <3>5. op.slot \in Slot /\ dir[op.slot].kind = "file" => dir[op.slot].name = op.name /\ op.then = "alloc"
      BY <1>8, <3>1, <3>3 DEF Target
    <3>6. Others(F, data, dir, op.slot, op.name, FREE) /\ op.next \notin Beyond
      BY <1>4, <1>8, <3>1 DEF OnDisk
    <3>7. Whole(F, data, dir, op')
      BY <1>0, <3>1, <3>2, <3>3, <3>4, <3>5, <3>6, WholeChained
    <3> QED BY <1>10, <3>7
  <2>2. CASE op.set.for = "mark"
    <3>1. /\ op'.pc = "zero" /\ op'.c = op.c /\ op'.first = op.first /\ op'.prev = op.prev
          /\ op'.done = op.done /\ op'.name = op.name /\ op'.slot = op.slot
      BY <1>10, <2>2 DEF Returned, SameFile, SameChain
    <3>2. /\ Avoided(op') = Avoided(op) /\ ~ Freeing(op')
          /\ ~ Calls(op', "free") /\ ~ Calls(op', "link")
      BY <1>8, <2>2, <3>1 DEF Avoided, Freeing, Calls
    <3>3. Own(F, data, op')
      BY <1>8, <2>2, <3>1, <3>2 DEF Own
    <3>4. Target(dir, op')
      BY <1>8, <3>1, <3>2 DEF Target
    <3> QED BY <1>8, <1>10, <3>1, <3>2, <3>3, <3>4 DEF Whole
  <2>3. CASE op.set.for = "link"
    <3>1. Appended(op, op') /\ op.c \in Cluster /\ Avoided(op) = op.c /\ data[op.c] = Zero
      BY <1>0, <1>6, <1>8, <1>10, <2>3 DEF Returned, Own
    <3>2. Get(F, op.prev) = op.c /\ Get(F, op.c) = EOC /\ op.done > 0 /\ op.done < op.len
      BY <1>0, <1>5, <1>6, <1>8, <1>10, <2>3 DEF Stage, Inv, Sound, Filling
    <3>3. Full(F, data, op.done, op.first, op.prev, {Zero}, op.c)
      BY <1>8, <2>3, <3>1
    <3>4. Full(F, data, op.done + 1, op.first, op.c, {Zero}, FREE)
      <4>1. data[op.c] \in {Zero}
        BY <3>1
      <4> QED BY <1>0, <3>1, <3>2, <3>3, <4>1, FullNext
    <3>5. op'.first = op.first
      <4>1. op.first \in Cluster
        BY <1>0, <3>2, <3>3, FullEnds
      <4> QED BY <3>1, <4>1, Ends DEF Appended
    <3>6. Others(F, data, dir, op.slot, op.name, FREE)
      <4>1. \A c \in Cluster : c # op.c => data[c] = data[c] /\ Get(F, c) = Get(F, c)
        OBVIOUS
      <4> QED BY <1>0, <1>8, <3>1, <4>1, OthersFrame
    <3>7. Whole(F, data, dir, op')
      BY <1>0, <1>8, <3>1, <3>2, <3>4, <3>5, <3>6, WholeAppended
    <3> QED BY <1>10, <3>7
  <2> QED BY <1>0, <2>1, <2>2, <2>3
<1>11. CASE SecondCopy
  <2>1. G = F
    BY <1>7, <1>11 DEF SecondCopy
  <2>2. CASE SameSet(op, op')
    BY <1>9, <2>1, <2>2
  <2>3. CASE Returned(op, op', TRUE) /\ FatGet(k) = op.set.value
    BY <1>10, <2>1, <2>3 DEF FatGet
  <2> QED BY <1>11, <2>2, <2>3 DEF SecondCopy
<1>12. CASE FirstCopy
  <2>1. SameSet(op, op') /\ \A c \in Cluster : c # k => Get(G, c) = Get(F, c)
    BY <1>7, <1>12 DEF FirstCopy
  <2> QED BY <1>9, <2>1
<1> QED BY <1>2, <1>11, <1>12 DEF SetWorks

\* The other steps of an operation.
LEMMA OtherIntact ==
  ASSUME Inv, Staged, Tame, Intact, Later, ~ SetSector
  PROVE  Intact'
<1> DEFINE F == fat[1]
<1>0. /\ Volume /\ Sound(op) /\ Stage(op, F) /\ op \in Ops
      /\ op.c \in Value /\ op.first \in Value /\ op.len \in Nat /\ op.done \in Nat
      /\ dir \in [Slot -> Entry] /\ data \in [Cluster -> Name \cup {Zero}]
      /\ written \in [Name -> SUBSET (0..MaxLen)]
  BY FatAssumption DEF Inv, Volume, Staged, Sound, Ops
<1>1. SUFFICES ASSUME clean' PROVE Intact'
  BY DEF Intact
<1>2. ~ Failed /\ ~ Fault /\ ~ Fails /\ ~ Crash
  BY <1>1 DEF Failed, Fault, Fails, Crash
<1>3. faults' = faults /\ crashes' = crashes
  BY <1>2 DEF Later, Remove, FreeNext, Stray, Allocate, NoSpace, ZeroCluster, Stream,
              WriteEntry, Works
<1>4. clean
  <2>1. CASE NoSpace
    BY <1>1, <2>1 DEF NoSpace
  <2>2. CASE ~ NoSpace
    <3>1. clean' = clean
      BY <1>2, <2>2 DEF Later, Remove, FreeNext, Stray, Allocate, ZeroCluster, Stream,
                        WriteEntry, Works
    <3> QED BY <1>1, <3>1
  <2> QED BY <2>1, <2>2
<1>a. Calm' /\ ~ Stray /\ fat' = fat /\ OnDisk(op)
  <2>1. Calm /\ Calm'
    BY <1>3, <1>4 DEF Intact, Calm
  <2> QED BY <2>1, CalmStep DEF Tame
<1>5. /\ Others(F, data, dir, op.slot, op.name, Avoided(op)) /\ Own(F, data, op)
      /\ Target(dir, op) /\ Recorded(dir, written)
  BY <1>4 DEF Intact, Whole
<1>6. op.pc # "set"
  BY <1>2, <1>a DEF Later, Remove, FreeNext, Allocate, NoSpace, ZeroCluster, Stream,
                    WriteEntry, At
<1>7. op.pc # "zero" => Avoided(op) = FREE
  BY <1>6 DEF Avoided, Calls
<1>8. fat'[1] = F
  BY <1>a
<1>9. ASSUME dir' = dir, written' = written, Whole(F, data', dir, op') PROVE Intact'
  BY <1>5, <1>8, <1>9, <1>a DEF Intact
<1>10. ASSUME op.pc \in {"alloc", "zero"}
       PROVE  /\ Taking(op) /\ Aimed(op) /\ op.done < op.len /\ ~ Freeing(op)
              /\ Full(F, data, op.done, op.first, op.prev, {Zero}, Avoided(op))
              /\ (op.first = FREE <=> op.prev = FREE)
              /\ op.prev # FREE => Get(F, op.prev) = EOC /\ op.done > 0
              /\ op.prev = FREE => op.done = 0
  <2>1. Taking(op) /\ ~ Freeing(op) /\ Filling(op)
    BY <1>10 DEF Taking, Freeing, Filling
  <2>2. Aimed(op) /\ op.done < op.len
    BY <1>0, <2>1 DEF Sound, Writing
  <2>3. Full(F, data, op.done, op.first, op.prev, {Zero}, Avoided(op))
    BY <1>5, <2>1 DEF Own
  <2>4. (op.first = FREE <=> op.prev = FREE) /\ (op.prev # FREE => Get(F, op.prev) = EOC)
    BY <1>0, <1>10, <2>1 DEF Stage
  <2>5. /\ op.done = 0 => op.prev = FREE
        /\ op.done > 0 => op.prev \in Cluster
    BY <1>0, <2>3, FullEnds
  <2>6. op.done = 0 <=> op.prev = FREE
    BY <1>0, <2>5, Ends
  <2>7. op.done = 0 \/ op.done > 0
    BY <1>0
  <2> QED BY <2>1, <2>2, <2>3, <2>4, <2>6, <2>7
<1>11. CASE Remove
  <2>0. op.pc = "remove" /\ Aimed(op)
    BY <1>0, <1>11 DEF Remove, At, Sound
  <2> DEFINE D == dir'
  <2>1. /\ D = [dir EXCEPT ![op.slot] = Deleted] /\ written' = [written EXCEPT ![op.name] = {}]
        /\ op' = FreeChain(op, op.c, "return") /\ data' = data
    BY <1>2, <1>11 DEF Remove
  <2>2. Chained(op, op', op.c, "return")
    BY <1>0, <2>1, FreeChainGives
  <2>3. Deleted.kind = "deleted" /\ \A s \in Slot : D[s] = IF s = op.slot THEN Deleted ELSE dir[s]
    BY <1>0, <2>1 DEF Deleted, End
  <2>4. D \in [Slot -> Entry]
    <3>1. Deleted \in Entry
      BY DEF Deleted, End, Entry
    <3> QED BY <1>0, <2>1, <3>1
  <2>a. op.slot \in Slot /\ op.name \in Name
    BY <2>0 DEF Aimed
  <2> HIDE DEF D
  <2>5. Others(F, data, D, op.slot, op.name, FREE)
    BY <1>5, <1>7, <2>0, <2>3 DEF Others
  <2>6. \E n \in Nat : Closed(F, data, n, op.c, {op.name, Zero}, FREE)
    BY <1>5, <2>0 DEF Own
  <2>7. D[op.slot].kind # "file"
    BY <2>3, <2>a
  <2>b. op.c \notin Beyond
    BY <1>a, <2>0 DEF OnDisk
  <2>8. Whole(F, data, D, op')
    BY <1>0, <2>2, <2>4, <2>5, <2>6, <2>7, <2>b, WholeChained
  <2>9. ASSUME NEW s \in Slot, D[s].kind = "file" PROVE written'[D[s].name] = {D[s].len}
    <3>1. s # op.slot /\ D[s] = dir[s]
      BY <2>3, <2>9
    <3>2. dir[s].name # op.name /\ written[dir[s].name] = {dir[s].len}
      BY <1>5, <2>9, <3>1 DEF Others, Recorded
    <3>3. dir[s].name \in Name
      BY <1>5, <2>9, <3>1 DEF Others
    <3> QED BY <1>0, <2>1, <3>1, <3>2, <3>3
  <2>10. ASSUME NEW n \in Name, \A s \in Slot : D[s].kind = "file" => D[s].name # n
         PROVE  written'[n] = {}
    <3>1. CASE n = op.name
      BY <1>0, <2>1, <3>1
    <3>2. CASE n # op.name
      <4>1. \A s \in Slot : dir[s].kind = "file" => dir[s].name # n
        BY <1>5, <2>3, <2>10, <3>2 DEF Target
      <4>2. written[n] = {}
        BY <1>5, <4>1 DEF Recorded
      <4> QED BY <1>0, <2>1, <3>2, <4>2
    <3> QED BY <3>1, <3>2
  <2>11. Recorded(D, written')
    BY <2>9, <2>10 DEF Recorded
  <2> QED BY <1>8, <1>a, <2>1, <2>8, <2>11 DEF Intact, D
<1>12. CASE FreeNext
  <2>1. /\ op.pc = "free" /\ op.c \in Cluster /\ FreesFrom(FatGet(op.c)) /\ Works /\ data' = data
        /\ dir' = dir
    BY <1>0, <1>2, <1>12, FreeNextGives DEF FreeNext, disk
  <2>2. /\ op'.pc = "set" /\ op'.set.for = "free" /\ op'.c = op.c /\ op'.next = Get(F, op.c)
        /\ op'.then = op.then /\ op'.name = op.name /\ op'.slot = op.slot
    BY <2>1 DEF FreesFrom, SameFile, FatGet
  <2>3. /\ Avoided(op') = FREE /\ ~ Taking(op') /\ ~ Calls(op', "link")
        /\ Freeing(op) /\ Freeing(op')
    BY <2>1, <2>2 DEF Avoided, Taking, Calls, Freeing
  <2>4. PICK n \in Nat : Closed(F, data, n, op.c, {op.name, Zero}, FREE)
    BY <1>5, <2>1 DEF Own
  <2>5. /\ data[op.c] \in {op.name, Zero}
        /\ \/ Get(F, op.c) \notin Cluster
           \/ \E m \in Nat : Closed(F, data, m, Get(F, op.c), {op.name, Zero}, op.c)
    BY <2>1, <2>4, ClosedTail
  <2>6. Own(F, data, op')
    BY <2>2, <2>3, <2>5 DEF Own
  <2>7. Target(dir, op')
    BY <1>5, <2>2, <2>3 DEF Target
  <2>8. Whole(F, data, dir, op')
    BY <1>5, <1>7, <2>1, <2>2, <2>3, <2>6, <2>7 DEF Whole
  <2> QED BY <1>9, <2>1, <2>8 DEF Works
<1>13. CASE Allocate
  <2>1. op.pc = "alloc" /\ \E c \in FreeClusters : Marking(c)
    BY <1>0, <1>13, AllocateGives
  <2>2. PICK c \in FreeClusters : Marking(c)
    BY <2>1
  <2>3. c \in Cluster /\ Get(F, c) = FREE
    BY DEF FreeClusters, FatGet
  <2>4. /\ op'.pc = "set" /\ op'.set.for = "mark" /\ op'.c = c
        /\ op'.slot = op.slot /\ op'.first = op.first /\ op'.prev = op.prev
        /\ op'.done = op.done /\ op'.name = op.name
    BY <2>2 DEF Marking, SameFile, SameChain
  <2>5. /\ Avoided(op') = c /\ ~ Freeing(op') /\ ~ Calls(op', "free") /\ ~ Calls(op', "link")
    BY <2>4 DEF Avoided, Calls, Freeing
  <2>6. Others(F, data, dir, op.slot, op.name, c)
    BY <1>0, <1>5, <2>3, OthersTaken
  <2>7. Full(F, data, op.done, op.first, op.prev, {Zero}, c)
    <3>1. op.done > 0 => Get(F, op.prev) = EOC
      <4>1. op.prev = FREE => op.done = 0
        BY <1>10, <2>1
      <4>2. op.prev # FREE => Get(F, op.prev) = EOC
        BY <1>10, <2>1
      <4> QED BY <1>0, <4>1, <4>2
    <3>2. Full(F, data, op.done, op.first, op.prev, {Zero}, Avoided(op))
      BY <1>10, <2>1
    <3> QED BY <1>0, <2>3, <3>1, <3>2, ClosedUsed
  <2>8. Own(F, data, op')
    BY <2>4, <2>5, <2>7 DEF Own
  <2>9. Target(dir, op')
    BY <1>5, <2>4, <2>5 DEF Target
  <2>10. Whole(F, data, dir, op')
    BY <2>4, <2>5, <2>6, <2>8, <2>9 DEF Whole
  <2>11. dir' = dir /\ data' = data /\ written' = written
    BY <1>13 DEF Allocate, Works, disk
  <2> QED BY <1>9, <2>10, <2>11
<1>14. CASE NoSpace
  <2>1. /\ op.pc = "alloc" /\ dir' = dir /\ data' = data /\ written' = written
        /\ Chained(op, op', op.first, "return")
    BY <1>0, <1>14, FreeChainGives DEF NoSpace, At, GiveUp, disk
  <2>2. dir[op.slot].kind # "file"
    BY <1>1, <1>14 DEF NoSpace
  <2>3. op.first \in Cluster => \E n \in Nat : Closed(F, data, n, op.first, {op.name, Zero}, FREE)
    <3>1. op.done > 0 => Get(F, op.prev) = EOC
      <4>1. op.prev = FREE => op.done = 0
        BY <1>10, <2>1
      <4>2. op.prev # FREE => Get(F, op.prev) = EOC
        BY <1>10, <2>1
      <4> QED BY <1>0, <4>1, <4>2
    <3>2. Full(F, data, op.done, op.first, op.prev, {Zero}, Avoided(op))
      BY <1>10, <2>1
    <3>3. Closed(F, data, op.done, op.first, {Zero}, Avoided(op))
      BY <3>1, <3>2 DEF Closed
    <3>4. Closed(F, data, op.done, op.first, {op.name, Zero}, FREE)
      <4>1. {Zero} \subseteq {op.name, Zero}
        OBVIOUS
      <4> QED BY <3>3, <4>1, Ends, ClosedMore
    <3> QED BY <1>0, <3>4
  <2>4. Others(F, data, dir, op.slot, op.name, FREE) /\ op.first \notin Beyond
    BY <1>5, <1>7, <1>a, <2>1 DEF OnDisk
  <2>5. Whole(F, data, dir, op')
    BY <1>0, <2>1, <2>2, <2>3, <2>4, WholeChained
  <2> QED BY <1>9, <2>1, <2>5
<1>15. CASE ZeroCluster
  <2>1. op.pc = "zero" /\ op.c \in Cluster /\ Zeroed
    BY <1>0, <1>2, <1>15, ZeroGives
  <2> DEFINE e == data'
  <2>2. dir' = dir /\ written' = written /\ e = [data EXCEPT ![op.c] = Zero]
    BY <2>1 DEF Zeroed, Works
  <2>3. e[op.c] = Zero /\ \A c \in Cluster : c # op.c => e[c] = data[c] /\ Get(F, c) = Get(F, c)
    BY <1>0, <2>1, <2>2
  <2>4. Avoided(op) = op.c /\ Get(F, op.c) = EOC
    BY <1>0, <2>1 DEF Avoided, Stage
  <2> HIDE DEF e
  <2>5. Others(F, e, dir, op.slot, op.name, FREE) /\ Others(F, e, dir, op.slot, op.name, op.c)
    BY <1>0, <1>5, <2>3, <2>4, OthersFrame
  <2>6. /\ op.done < op.len /\ Full(F, data, op.done, op.first, op.prev, {Zero}, op.c)
        /\ op.prev = FREE => op.done = 0 /\ op.first = FREE
        /\ ~ Freeing(op)
    BY <1>10, <2>1, <2>4
  <2>7. CASE op.prev = FREE /\ Appended(op, op')
    <3>1. op.done = 0 /\ op'.first = op.c
      BY <2>6, <2>7 DEF Appended
    <3>2. Full(F, e, 1, op.c, op.c, {Zero}, FREE)
      BY <2>1, <2>3, Ends, FullOne
    <3>3. op.done + 1 = 1
      BY <3>1
    <3>4. Full(F, e, op.done + 1, op'.first, op.c, {Zero}, FREE)
      BY <3>1, <3>2, <3>3
    <3>5. Whole(F, e, dir, op')
      BY <1>0, <1>5, <2>4, <2>5, <2>6, <2>7, <3>4, WholeAppended
    <3> QED BY <1>9, <2>2, <3>5 DEF e
  <2>8. CASE op.prev # FREE /\ Sets(op, op', op.prev, op.c, "link")
    <3>1. /\ op'.pc = "set" /\ op'.set.for = "link" /\ op'.c = op.c
          /\ op'.first = op.first /\ op'.prev = op.prev /\ op'.done = op.done
          /\ op'.name = op.name /\ op'.slot = op.slot
      BY <2>8 DEF Sets, SameFile, SameChain
    <3>2. Avoided(op') = op.c /\ ~ Freeing(op') /\ ~ Calls(op', "free")
      BY <3>1 DEF Avoided, Calls, Freeing
    <3>3. Full(F, e, op.done, op.first, op.prev, {Zero}, op.c)
      <4>1. \A c \in Cluster : c # op.c /\ data[c] \in {Zero} =>
              c # op.c /\ e[c] = data[c] /\ Get(F, c) = Get(F, c)
        BY <2>3
      <4> QED BY <1>0, <2>6, <4>1, FullFrame
    <3>4. Own(F, e, op')
      BY <2>3, <3>1, <3>2, <3>3 DEF Own
    <3>5. Target(dir, op')
      BY <1>5, <3>1, <3>2 DEF Target
    <3>6. Whole(F, e, dir, op')
      BY <2>5, <3>1, <3>2, <3>4, <3>5 DEF Whole
    <3> QED BY <1>9, <2>2, <3>6 DEF e
  <2> QED BY <2>1, <2>7, <2>8 DEF Zeroed
<1>16. CASE Stream
  <2> DEFINE e == data'
  <2>1. op.pc = "stream" /\ op.name \in Name /\ Streaming(F, data, op.len, op.first, op.done, op.c, op.name)
    <3>1. op.pc = "stream"
      BY <1>0, <1>16, StreamGives
    <3>2. op.name \in Name
      BY <1>0, <3>1 DEF Sound, Writing, Filling, Aimed
    <3> QED BY <1>5, <3>1, <3>2 DEF Own
  <2>2. op.c \in Cluster /\ data[op.c] = Zero
    BY <1>0, <2>1, StreamAt
  <2>3. Paid(FatGet(op.c)) /\ Works
    BY <1>0, <1>2, <1>16, <2>2, StreamGives DEF PastDisk
  <2>4. /\ e = [data EXCEPT ![op.c] = op.name] /\ dir' = dir /\ written' = written
        /\ op'.c = Get(F, op.c) /\ op'.done = op.done + 1 /\ op'.first = op.first
        /\ op'.pc = (IF Get(F, op.c) >= 2 /\ op.done + 1 < op.len THEN "stream" ELSE "entry")
        /\ op'.name = op.name /\ op'.slot = op.slot /\ op'.len = op.len
    BY <2>3 DEF Paid, Moved, Works, SameFile, FatGet
  <2>5. /\ op.done + 1 < op.len =>
             Streaming(F, e, op.len, op.first, op.done + 1, Get(F, op.c), op.name)
        /\ ~ (op.done + 1 < op.len) => Closed(F, e, op.len, op.first, {op.name}, FREE)
    BY <1>0, <2>1, <2>4, StreamOn
  <2>a. op.done + 1 < op.len => Get(F, op.c) >= 2
    <3>1. op.done + 1 < op.len => Get(F, op.c) \in Cluster
      BY <1>0, <2>5, StreamAt
    <3> QED BY <3>1, FatAssumption DEF Cluster
  <2>6. \A c \in Cluster : c # op.c => e[c] = data[c] /\ Get(F, c) = Get(F, c)
    BY <1>0, <2>4
  <2> HIDE DEF e
  <2>7. Others(F, e, dir, op.slot, op.name, FREE)
    <3>1. Others(F, data, dir, op.slot, op.name, FREE)
      BY <1>5, <1>7, <2>1
    <3> QED BY <1>0, <2>2, <2>6, <3>1, OthersFrame
  <2>8. /\ Avoided(op') = FREE /\ ~ Freeing(op') /\ ~ Taking(op')
        /\ ~ Calls(op', "free") /\ ~ Calls(op', "link")
    BY <2>4 DEF Avoided, Freeing, Taking, Calls
  <2>9. Own(F, e, op')
    BY <2>4, <2>5, <2>8, <2>a DEF Own
  <2>10. Target(dir, op')
    BY <1>5, <2>4, <2>8 DEF Target
  <2>11. Whole(F, e, dir, op')
    BY <2>4, <2>7, <2>8, <2>9, <2>10 DEF Whole
  <2> QED BY <1>9, <2>4, <2>11 DEF e
<1>17. CASE WriteEntry
  <2> DEFINE D == dir'
             f == File(op.name, op.first, op.len)
  <2>0. op.pc = "entry" /\ Aimed(op)
    BY <1>0, <1>17 DEF WriteEntry, At, Sound, Writing
  <2>1. /\ D = [dir EXCEPT ![op.slot] = f] /\ written' = [written EXCEPT ![op.name] = {op.len}]
        /\ op' = Idle /\ data' = data
    BY <1>2, <1>17 DEF WriteEntry
  <2>2. f.kind = "file" /\ f.name = op.name /\ f.head = op.first /\ f.len = op.len
    BY DEF File
  <2> HIDE DEF f
  <2>3. op.slot \in Slot /\ op.name \in Name /\ op.name # NoName
    BY <2>0, FatAssumption DEF Aimed
  <2>4. \A s \in Slot : D[s] = IF s = op.slot THEN f ELSE dir[s]
    BY <1>0, <2>1
  <2> HIDE DEF D
  <2>5. Others(F, data, dir, op.slot, op.name, FREE) /\ Closed(F, data, op.len, op.first, {op.name}, FREE)
    BY <1>5, <1>7, <2>0 DEF Own
  <2>6. Others(F, data, D, 0, NoName, FREE)
    <3> SUFFICES ASSUME NEW s \in Slot, D[s].kind = "file"
                 PROVE  /\ D[s].name \in Name \ {NoName}
                        /\ Closed(F, data, D[s].len, D[s].head, {D[s].name}, FREE)
      BY DEF Others
    <3>1. CASE s = op.slot
      <4>1. D[s] = f
        BY <2>4, <3>1
      <4> QED BY <2>2, <2>3, <2>5, <4>1
    <3>2. CASE s # op.slot
      <4>1. D[s] = dir[s]
        BY <2>4, <3>2
      <4>2. dir[s].name \in Name \ {NoName}
        BY <2>5, <3>2, <4>1, NameGiven DEF Others
      <4>3. Closed(F, data, dir[s].len, dir[s].head, {dir[s].name}, FREE)
        BY <2>5, <3>2, <4>1 DEF Others
      <4> QED BY <4>1, <4>2, <4>3
    <3> QED BY <3>1, <3>2
  <2>7. Whole(F, data, D, Idle)
    BY <2>6, IdleHolds DEF Whole
  <2>8. ASSUME NEW s \in Slot, D[s].kind = "file" PROVE written'[D[s].name] = {D[s].len}
    <3>1. CASE s = op.slot
      <4>1. D[s].name = op.name /\ D[s].len = op.len
        BY <2>2, <2>4, <3>1
      <4> QED BY <1>0, <2>1, <2>3, <4>1
    <3>2. CASE s # op.slot
      <4>1. D[s] = dir[s]
        BY <2>4, <3>2
      <4>2. dir[s].name # op.name /\ written[dir[s].name] = {dir[s].len}
        BY <1>5, <2>8, <3>2, <4>1 DEF Others, Recorded
      <4>3. dir[s].name \in Name
        BY <1>5, <2>8, <3>2, <4>1 DEF Others
      <4> QED BY <1>0, <2>1, <4>1, <4>2, <4>3
    <3> QED BY <3>1, <3>2
  <2>9. ASSUME NEW n \in Name, \A s \in Slot : D[s].kind = "file" => D[s].name # n
        PROVE  written'[n] = {}
    <3>1. n # op.name
      BY <2>2, <2>3, <2>4, <2>9
    <3>2. \A s \in Slot : dir[s].kind = "file" => dir[s].name # n
      BY <1>5, <2>4, <2>9, <3>1 DEF Target
    <3>3. written[n] = {}
      BY <1>5, <3>2 DEF Recorded
    <3> QED BY <1>0, <2>1, <3>1, <3>3
  <2>10. Recorded(D, written')
    BY <2>8, <2>9 DEF Recorded
  <2> QED BY <1>8, <1>a, <2>1, <2>7, <2>10 DEF Intact, D
<1> QED BY <1>2, <1>a, <1>11, <1>12, <1>13, <1>14, <1>15, <1>16, <1>17 DEF Later

\* fat_write and fat_delete begin.
LEMMA StartIntact ==
  ASSUME Inv, Tame, Intact, NEW n \in Name,
         StartDelete(n) \/ \E len \in 0..MaxLen : StartWrite(n, len)
  PROVE  Intact'
<1> DEFINE F == fat[1]
           s == FindSlot(n)
<1>0. /\ Volume /\ dir' = dir /\ fat' = fat /\ op.pc = "idle"
      /\ faults' = faults /\ crashes' = crashes
      /\ (Exists(n) \/ Unused # {}) /\ dir \in [Slot -> Entry]
  BY StartKeeps DEF Inv, Volume
<1>1. /\ data' = data /\ written' = written /\ clean' = clean
  BY DEF StartDelete, StartWrite, Works, disk
<1>2. s \in Slot /\ (Exists(n) => s \in Matches(n)) /\ (~ Exists(n) => s \in Unused)
  BY <1>0, SlotFound
<1>4. SUFFICES ASSUME clean PROVE Whole(F, data, dir, op')
  <2>1. (Recorded(dir, written) /\ Calm') \/ ~ clean
    BY <1>0 DEF Intact, Calm
  <2> QED BY <1>0, <1>1, <1>4, <2>1 DEF Intact
<1>a. Directory /\ HeadsOn
  BY <1>4 DEF Intact, Tame, Inv, Unspoilt
<1>3. \A t \in Slot : IsFile(t) /\ dir[t].name = n => t = s
  BY <1>0, <1>a, FoundIsChosen DEF Chosen
<1> HIDE DEF s
<1>5. ASSUME NEW t \in Slot, IsFile(t)
      PROVE  Closed(F, data, dir[t].len, dir[t].head, {dir[t].name}, FREE)
  <2>1. Avoided(op) = FREE /\ op.slot = 0
    BY <1>0, <1>4 DEF Intact, Whole, Own, Avoided, Calls
  <2>2. t # 0
    BY DEF Slot
  <2> QED BY <1>4, <1>5, <2>1, <2>2 DEF Intact, Whole, Others, IsFile
<1>6. Others(F, data, dir, s, n, FREE)
  BY <1>3, <1>5, <1>a DEF Others, IsFile, Directory
<1>7. dir[s].kind = "file" => Exists(n) /\ dir[s].name = n
  BY <1>2 DEF Unused, Matches
<1>8. ASSUME Exists(n) PROVE \E k \in Nat : Closed(F, data, k, dir[s].head, {n, Zero}, FREE)
  <2>1. IsFile(s) /\ dir[s].name = n
    BY <1>2, <1>8 DEF Matches, IsFile
  <2>2. dir[s].len \in Nat
    BY <1>0, <1>2, <2>1, FileEntry DEF IsFile
  <2>3. Closed(F, data, dir[s].len, dir[s].head, {n}, FREE)
    BY <1>2, <1>5, <2>1
  <2>4. {n} \subseteq {n, Zero}
    OBVIOUS
  <2>5. Closed(F, data, dir[s].len, dir[s].head, {n, Zero}, FREE)
    BY <2>3, <2>4, Ends, ClosedMore
  <2> QED BY <2>2, <2>5
<1>9. CASE StartDelete(n)
  <2>1. op'.pc = "remove" /\ op'.slot = s /\ op'.name = n /\ op'.c = dir[s].head /\ Exists(n)
    BY <1>9, StartDeleteGives DEF BegunDelete, StartDelete, s
  <2>2. /\ Avoided(op') = FREE /\ ~ Freeing(op') /\ ~ Taking(op')
        /\ ~ Calls(op', "free") /\ ~ Calls(op', "link")
    BY <2>1 DEF Avoided, Freeing, Taking, Calls
  <2>3. Own(F, data, op')
    BY <1>8, <2>1, <2>2 DEF Own
  <2>4. Target(dir, op')
    BY <1>7, <2>1, <2>2 DEF Target
  <2> QED BY <1>6, <2>1, <2>2, <2>3, <2>4 DEF Whole
<1>10. ASSUME NEW len \in 0..MaxLen, StartWrite(n, len)
       PROVE  Whole(F, data, dir, op')
  <2> DEFINE c == IF Exists(n) THEN dir[s].head ELSE FREE
  <2>1. PICK o \in Ops : Blank(o, n, len) /\ Chained(o, op', c, "alloc")
    BY <1>0, <1>10, StartWriteGives DEF BegunWrite, s
  <2>2. /\ o.slot = s /\ o.name = n /\ o.len \in Nat
        /\ o.first = FREE /\ o.prev = FREE /\ o.done = 0
    BY <2>1, FatAssumption DEF Blank, s
  <2>3. /\ c \in Cluster => \E k \in Nat : Closed(F, data, k, c, {n, Zero}, FREE)
        /\ c \notin Beyond
    BY <1>2, <1>7, <1>8, <1>a, Ends DEF HeadsOn, IsFile, Matches
  <2> HIDE DEF c
  <2> QED BY <1>0, <1>6, <1>7, <2>1, <2>2, <2>3, WholeChained
<1> QED BY <1>9, <1>10

LEMMA InitIntact == Init => Intact
<1> SUFFICES ASSUME Init PROVE Intact
  OBVIOUS
<1>1. op = Idle /\ \A s \in Slot : dir[s].kind # "file"
  BY DEF Init, End
<1>2. Whole(fat[1], data, dir, Idle)
  BY <1>1, IdleHolds DEF Whole, Others
<1>3. Recorded(dir, written)
  BY <1>1 DEF Init, Recorded
<1>4. Calm
  BY DEF Init, Calm
<1> QED BY <1>1, <1>2, <1>3, <1>4 DEF Intact

\* As long as no operation broke off, every name reads back as it was last written and as
\* long, and a deleted one is gone (WritesLast), for every volume: no operation touches
\* the clusters of another file, and it ends with the whole chain in its own.
THEOREM FilesKept == Spec => []WritesLast
<1>1. Init => Confined /\ Intact
  BY InitConfined, InitIntact
<1>2. Confined /\ Intact /\ [Next]_vars => Confined' /\ Intact'
  <2> SUFFICES ASSUME Confined, Intact, [Next]_vars PROVE Confined' /\ Intact'
    OBVIOUS
  <2>1. Confined'
    BY NextConfined
  <2>2. Inv /\ Staged /\ Tame
    BY DEF Confined, Ordered
  <2>3. Intact'
    <3>1. CASE Later
      <4>1. CASE SetSector
        BY <2>2, <4>1, SetIntact
      <4>2. CASE ~ SetSector
        BY <2>2, <3>1, <4>2, OtherIntact
      <4> QED BY <4>1, <4>2
    <3>2. CASE \E n \in Name : StartDelete(n) \/ \E len \in 0..MaxLen : StartWrite(n, len)
      BY <2>2, <3>2, StartIntact
    <3>3. CASE UNCHANGED vars
      <4>1. /\ fat' = fat /\ dir' = dir /\ data' = data /\ op' = op /\ written' = written
            /\ clean' = clean /\ faults' = faults /\ crashes' = crashes
        BY <3>3 DEF vars, disk
      <4> QED BY <4>1 DEF Intact, Calm
    <3> QED BY <3>1, <3>2, <3>3, NextIs
  <2> QED BY <2>1, <2>3
<1>3. Confined /\ Intact => WritesLast
  <2> SUFFICES ASSUME Confined, Intact, clean, op.pc = "idle", NEW n \in Name
               PROVE  IF Exists(n) THEN ReadsBack(n) ELSE written[n] = {}
    BY DEF WritesLast, At
  <2>0. Volume /\ Directory /\ dir \in [Slot -> Entry]
    BY DEF Confined, Ordered, Inv, Volume, Intact, Tame, Unspoilt
  <2>1. /\ Others(fat[1], data, dir, op.slot, op.name, FREE) /\ op.slot = 0
        /\ Recorded(dir, written)
    <3>1. Avoided(op) = FREE
      BY DEF Avoided, Calls
    <3> QED BY <3>1 DEF Intact, Whole, Own
  <2>2. CASE Exists(n)
    <3> DEFINE s == FindSlot(n)
    <3>1. s \in Matches(n) /\ s \in Slot
      BY <2>0, <2>2, SlotFound
    <3>2. ReadsBack(n) <=> /\ {dir[s].len} = written[n]
                           /\ \A i \in 1..dir[s].len :
                                Nth(dir[s].head, i - 1) \in Cluster
                                  /\ data[Nth(dir[s].head, i - 1)] = n
      BY DEF ReadsBack
    <3> HIDE DEF s
    <3>3. dir[s].kind = "file" /\ dir[s].name = n /\ s # 0
      BY <3>1 DEF Matches, Slot
    <3>4. written[n] = {dir[s].len} /\ Closed(fat[1], data, dir[s].len, dir[s].head, {n}, FREE)
      BY <2>1, <3>1, <3>3 DEF Recorded, Others
    <3> DEFINE k == dir[s].len
               x == dir[s].head
    <3>5. k \in Nat /\ Closed(fat[1], data, k, x, {n}, FREE)
      BY <2>0, <3>1, <3>3, <3>4, FileEntry
    <3> HIDE DEF k, x
    <3>6. \A i \in 1..k : Nth(x, i - 1) \in Cluster /\ data[Nth(x, i - 1)] \in {n}
      BY <3>5, ClosedReads
    <3> QED BY <2>2, <3>2, <3>4, <3>6 DEF k, x
  <2>3. CASE ~ Exists(n)
    <3>1. \A s \in Slot : dir[s].kind = "file" => dir[s].name # n
      BY <2>0, <2>3 DEF Directory, IsFile, Exists, Matches
    <3> QED BY <2>1, <2>3, <3>1 DEF Recorded
  <2> QED BY <2>2, <2>3
<1> QED BY <1>1, <1>2, <1>3, PTL DEF Spec
==============================================================================
