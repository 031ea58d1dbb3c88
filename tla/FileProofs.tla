------------------------------ MODULE FileProofs ------------------------------
(* Theorems about FileTable, for every number of descriptors, capacity, set of names and
   buffers: the types, and that the table implements private sessions.          *)
EXTENDS FileTable, SequenceTheorems, FiniteSetTheorems, WellFoundedInduction, TLAPS

------------------------------------------------------------------------------
(* Sequences of bytes. *)

\* What a function on 1..n is as a sequence, and back.
LEMMA BytesAre ==
  ASSUME NEW n \in Nat, NEW s \in Bytes(n)
  PROVE  s \in Seq(Byte) /\ Len(s) = n /\ DOMAIN s = 1..n
<1>1. s \in [1..n -> Byte]
  BY DEF Bytes
<1>2. s \in Seq(Byte)
  BY <1>1, SeqDef
<1>3. DOMAIN s = 1..n /\ DOMAIN s = 1..Len(s) /\ Len(s) \in Nat
  BY <1>1, <1>2, LenProperties
<1> QED BY <1>2, <1>3

LEMMA SeqIsBytes ==
  ASSUME NEW s \in Seq(Byte)
  PROVE  Len(s) \in Nat /\ s \in Bytes(Len(s))
BY LenProperties DEF Bytes

LEMMA ContentsAre ==
  ASSUME NEW s
  PROVE  s \in Contents <=> s \in Seq(Byte) /\ Len(s) <= MaxFile
<1>0. MaxFile \in Nat
  BY FileAssumption
<1>1. ASSUME s \in Contents PROVE s \in Seq(Byte) /\ Len(s) <= MaxFile
  <2>1. PICK n \in 0..MaxFile : s \in Bytes(n)
    BY <1>1 DEF Contents
  <2>2. n \in Nat
    BY <1>0
  <2> QED BY <2>1, <2>2, BytesAre
<1>2. ASSUME s \in Seq(Byte), Len(s) <= MaxFile PROVE s \in Contents
  <2>1. Len(s) \in 0..MaxFile /\ s \in Bytes(Len(s))
    BY <1>0, <1>2, SeqIsBytes
  <2> DEFINE n == Len(s)
  <2>2. n \in 0..MaxFile /\ s \in Bytes(n)
    BY <2>1
  <2> HIDE DEF n
  <2> QED BY <2>2 DEF Contents
<1> QED BY <1>1, <1>2

\* A stretch of a sequence, from place m to place n.
LEMMA Stretch ==
  ASSUME NEW s \in Seq(Byte), NEW m \in 1..(Len(s) + 1), NEW n \in (m - 1)..Len(s)
  PROVE  /\ SubSeq(s, m, n) \in Seq(Byte)
         /\ Len(SubSeq(s, m, n)) = n - m + 1
         /\ \A k \in 1..(n - m + 1) : SubSeq(s, m, n)[k] = s[m + k - 1]
<1>1. m \in Int /\ n \in Int /\ \A k \in m..n : s[k] \in Byte
  OBVIOUS
<1> QED BY <1>1, SubSeqProperties

LEMMA Beginning ==
  ASSUME NEW s \in Seq(Byte), NEW n \in 0..Len(s)
  PROVE  /\ SubSeq(s, 1, n) \in Seq(Byte) /\ Len(SubSeq(s, 1, n)) = n
         /\ \A k \in 1..n : SubSeq(s, 1, n)[k] = s[k]
<1>1. 1 \in 1..(Len(s) + 1) /\ n \in (1 - 1)..Len(s) /\ n - 1 + 1 = n /\ n \in Nat
  OBVIOUS
<1>2. /\ SubSeq(s, 1, n) \in Seq(Byte) /\ Len(SubSeq(s, 1, n)) = n - 1 + 1
      /\ \A k \in 1..(n - 1 + 1) : SubSeq(s, 1, n)[k] = s[1 + k - 1]
  BY <1>1, Stretch
<1> QED BY <1>1, <1>2

LEMMA UptoIs ==
  ASSUME NEW s \in Seq(Byte), NEW n \in Nat
  PROVE  /\ Upto(s, n) \in Seq(Byte)
         /\ Len(Upto(s, n)) = IF Len(s) < n THEN Len(s) ELSE n
         /\ \A k \in 1..Len(Upto(s, n)) : Upto(s, n)[k] = s[k]
<1> DEFINE m == IF Len(s) < n THEN Len(s) ELSE n
<1>1. m \in 0..Len(s)
  OBVIOUS
<1>2. Upto(s, n) = SubSeq(s, 1, m)
  BY DEF Upto
<1> HIDE DEF m
<1>3. /\ Upto(s, n) \in Seq(Byte) /\ Len(Upto(s, n)) = m
      /\ \A k \in 1..m : Upto(s, n)[k] = s[k]
  BY <1>1, <1>2, Beginning
<1> QED BY <1>3 DEF m

\* The first n bytes of what fat_read left in data[] are what it read.
LEMMA LoadedIs ==
  ASSUME NEW old \in Bytes(OFILE_CAP), NEW s \in Seq(Byte), Len(s) <= OFILE_CAP
  PROVE  /\ Loaded(old, s) \in Bytes(OFILE_CAP)
         /\ SubSeq(Loaded(old, s), 1, Len(s)) = s
<1> DEFINE d == Loaded(old, s)
           n == Len(s)
<1>0. OFILE_CAP \in Nat /\ n \in 0..OFILE_CAP
  BY FileAssumption, LenProperties
<1>1. d \in Bytes(OFILE_CAP) /\ \A i \in 1..n : d[i] = s[i]
  BY <1>0 DEF Bytes, Loaded
<1> HIDE DEF d
<1>2. d \in Seq(Byte) /\ Len(d) = OFILE_CAP
  BY <1>0, <1>1, BytesAre
<1>3. /\ SubSeq(d, 1, n) \in Seq(Byte) /\ Len(SubSeq(d, 1, n)) = n
      /\ \A k \in 1..n : SubSeq(d, 1, n)[k] = d[k]
  <2> HIDE DEF n
  <2> QED BY <1>0, <1>2, Beginning
<1>4. SubSeq(d, 1, n) = s
  BY <1>1, <1>3, SeqEqual
<1> QED BY <1>1, <1>4 DEF d

------------------------------------------------------------------------------
(* The table. *)

\* A non-empty set of naturals has a least element.
LEMMA HasLeast ==
  ASSUME NEW S \in SUBSET Nat, S # {}
  PROVE  \E n \in S : \A m \in S : n <= m
<1> DEFINE Initial == {0..(n-1) : n \in S}
<1>1. Initial \subseteq FiniteSubsetsOf(Nat) /\ Initial # {}
  <2>1. ASSUME NEW n \in S PROVE 0..(n-1) \in SUBSET Nat /\ IsFiniteSet(0..(n-1))
    <3>1. 0 \in Int /\ n-1 \in Int /\ 0..(n-1) \in SUBSET Nat
      OBVIOUS
    <3> QED BY <3>1, FS_Interval
  <2> QED BY <2>1, Zenon DEF FiniteSubsetsOf
<1>2. PICK x \in Initial : \A y \in Initial : ~ (<<y, x>> \in StrictSubsetOrdering(Nat))
  <2>1. IsWellFoundedOn(StrictSubsetOrdering(Nat), FiniteSubsetsOf(Nat))
    BY FS_StrictSubsetOrderingWellFounded
  <2> HIDE DEF Initial
  <2> QED BY <1>1, <2>1, WFMin
<1>3. PICK n \in S : x = 0..(n-1)
  OBVIOUS
<1>4. ASSUME NEW m \in S PROVE n <= m
  <2>1. SUFFICES ASSUME m < n PROVE FALSE
    OBVIOUS
  <2>2. 0..(m-1) \in Initial /\ 0..(m-1) \subseteq 0..(n-1) /\ 0..(m-1) # 0..(n-1)
    <3>1. m \in 0..(n-1) /\ m \notin 0..(m-1)
      BY <2>1
    <3> QED BY <2>1, <3>1
  <2>3. <<0..(m-1), 0..(n-1)>> \in StrictSubsetOrdering(Nat)
    <3> DEFINE a == 0..(m-1)
               b == 0..(n-1)
    <3>1. a \in SUBSET Nat /\ b \in SUBSET Nat /\ a \subseteq b /\ a # b
      BY <2>2
    <3> HIDE DEF a, b, Initial
    <3>2. <<a, b>> \in StrictSubsetOrdering(Nat)
      BY <3>1 DEF StrictSubsetOrdering
    <3> QED BY <3>2 DEF a, b
  <2>4. 0..(m-1) \in Initial
    BY <2>2
  <2> HIDE DEF Initial
  <2>5. ~ (<<0..(m-1), 0..(n-1)>> \in StrictSubsetOrdering(Nat))
    BY <1>2, <1>3, <2>4, Zenon
  <2> QED BY <2>3, <2>5, Zenon
<1> QED BY <1>4

\* alloc_fd returns a descriptor that is not in use.
LEMMA FdFound ==
  ASSUME Unused # {}
  PROVE  AllocFd \in Fd /\ ~ used[AllocFd]
<1>1. Unused \in SUBSET Nat
  BY FileAssumption DEF Unused, Fd
<1>2. AllocFd \in Unused
  BY <1>1, HasLeast DEF AllocFd, Least
<1> QED BY <1>2 DEF Unused

LEMMA Slot ==
  ASSUME TypeOK, NEW fd \in Fd
  PROVE  /\ OFILE_CAP \in Nat /\ OFILE_CAP <= MaxFile /\ MaxFile \in Nat
         /\ MaxPos \in Nat /\ OFILE_CAP <= MaxPos
         /\ size[fd] \in 0..OFILE_CAP /\ pos[fd] \in 0..MaxPos
         /\ name[fd] \in Name /\ data[fd] \in Bytes(OFILE_CAP)
         /\ data[fd] \in Seq(Byte) /\ Len(data[fd]) = OFILE_CAP
<1>1. /\ size[fd] \in 0..OFILE_CAP /\ pos[fd] \in 0..MaxPos
      /\ name[fd] \in Name /\ data[fd] \in Bytes(OFILE_CAP)
  BY DEF TypeOK
<1>2. /\ OFILE_CAP \in Nat /\ OFILE_CAP <= MaxFile /\ MaxFile \in Nat
      /\ MaxPos \in Nat /\ OFILE_CAP <= MaxPos
  BY FileAssumption
<1> QED BY <1>1, <1>2, BytesAre

\* The bytes a descriptor holds.
LEMMA Held ==
  ASSUME TypeOK, NEW fd \in Fd
  PROVE  /\ SubSeq(data[fd], 1, size[fd]) \in Seq(Byte)
         /\ Len(SubSeq(data[fd], 1, size[fd])) = size[fd]
         /\ \A k \in 1..size[fd] : SubSeq(data[fd], 1, size[fd])[k] = data[fd][k]
         /\ SubSeq(data[fd], 1, size[fd]) \in Contents
<1> DEFINE d == data[fd]
           z == size[fd]
<1>1. d \in Seq(Byte) /\ Len(d) = OFILE_CAP /\ z \in 0..OFILE_CAP /\ OFILE_CAP \in Nat
      /\ OFILE_CAP <= MaxFile /\ MaxFile \in Nat
  BY Slot
<1> HIDE DEF d, z
<1>2. /\ SubSeq(d, 1, z) \in Seq(Byte) /\ Len(SubSeq(d, 1, z)) = z
      /\ \A k \in 1..z : SubSeq(d, 1, z)[k] = d[k]
  BY <1>1, Beginning
<1>3. SubSeq(d, 1, z) \in Contents
  <2> DEFINE t == SubSeq(d, 1, z)
  <2>1. t \in Seq(Byte) /\ Len(t) <= MaxFile
    BY <1>1, <1>2
  <2> HIDE DEF t
  <2>2. t \in Contents
    BY <2>1, ContentsAre
  <2> QED BY <2>2 DEF t
<1> QED BY <1>2, <1>3 DEF d, z

LEMMA Stores ==
  ASSUME TypeOK, NEW n \in Name
  PROVE  /\ volume[n] \in {{}} \cup {{s} : s \in Contents}
         /\ \A c \in volume[n] : c \in Contents /\ volume[n] = {c}
<1>1. volume[n] \in {{}} \cup {{s} : s \in Contents}
  BY DEF TypeOK
<1> QED BY <1>1

\* What fat_read returns.
LEMMA FatReadIs ==
  ASSUME TypeOK, NEW n \in Name, NEW r \in FatRead(n)
  PROVE  /\ r.found \in BOOLEAN
         /\ r.bytes \in Seq(Byte) /\ Len(r.bytes) <= OFILE_CAP
         /\ r.found => \E c \in volume[n], k \in 0..OFILE_CAP : r.bytes = Upto(c, k)
<1>0. OFILE_CAP \in Nat /\ Prefix \subseteq 0..OFILE_CAP
  BY FileAssumption DEF Prefix
<1>1. ASSUME NEW p \in Parts(n)
      PROVE  /\ p \in Seq(Byte) /\ Len(p) <= OFILE_CAP
             /\ \E c \in volume[n], k \in 0..OFILE_CAP : p = Upto(c, k)
  <2>1. PICK c \in volume[n], k \in Prefix : p = Upto(c, k)
    BY DEF Parts
  <2>2. c \in Seq(Byte) /\ k \in 0..OFILE_CAP /\ k \in Nat /\ k <= OFILE_CAP /\ Len(c) \in Nat
    BY <1>0, Stores, ContentsAre, LenProperties
  <2>3. p \in Seq(Byte) /\ Len(p) = IF Len(c) < k THEN Len(c) ELSE k
    BY <2>1, <2>2, UptoIs
  <2>4. Len(p) <= OFILE_CAP
    BY <1>0, <2>2, <2>3
  <2> QED BY <2>1, <2>2, <2>3, <2>4
<1>2. \/ r \in [found : {TRUE}, bytes : Parts(n)]
      \/ r \in [found : {FALSE}, bytes : IF volume[n] = {} THEN {<<>>} ELSE Parts(n)]
  BY DEF FatRead
<1>3. CASE r \in [found : {TRUE}, bytes : Parts(n)]
  <2>1. r.found = TRUE /\ r.bytes \in Parts(n)
    BY <1>3
  <2> QED BY <1>1, <2>1
<1>4. CASE r \in [found : {FALSE}, bytes : IF volume[n] = {} THEN {<<>>} ELSE Parts(n)]
  <2> DEFINE b == r.bytes
  <2>1. r.found = FALSE /\ (b \in Parts(n) \/ b = <<>>)
    BY <1>4
  <2> HIDE DEF b
  <2>2. CASE b \in Parts(n)
    <3>1. b \in Seq(Byte) /\ Len(b) <= OFILE_CAP
      BY <1>1, <2>2
    <3> QED BY <2>1, <3>1 DEF b
  <2>3. CASE b = <<>>
    <3>1. b \in Seq(Byte) /\ Len(b) <= OFILE_CAP
      BY <1>0, <2>3, EmptySeq
    <3> QED BY <2>1, <3>1 DEF b
  <2> QED BY <2>1, <2>2, <2>3
<1> QED BY <1>2, <1>3, <1>4

------------------------------------------------------------------------------
(* Sessions: what one call changes. *)

Same(fd) == /\ used'[fd] = used[fd] /\ writable'[fd] = writable[fd] /\ dirty'[fd] = dirty[fd]
            /\ size'[fd] = size[fd] /\ pos'[fd] = pos[fd]
            /\ name'[fd] = name[fd] /\ data'[fd] = data[fd]

LEMMA OnlyOne ==
  ASSUME NEW fd \in Fd, \A e \in Fd : e # fd => Same(e)
  PROVE  Sessions' = [Sessions EXCEPT ![fd] = Session(fd)']
<1>1. \A e \in Fd : e # fd => Session(e)' = Session(e)
  BY DEF Same, Session, Copy
<1>2. Sessions' = [e \in Fd |-> Session(e)']
  BY DEF Sessions
<1>3. Sessions = [e \in Fd |-> Session(e)]
  BY DEF Sessions
<1> QED BY <1>1, <1>2, <1>3

\* What an unused slot holds shows in no session.
LEMMA NoneChanged ==
  ASSUME \A e \in Fd : Same(e) \/ (~ used[e] /\ ~ used'[e])
  PROVE  Sessions' = Sessions
<1>1. \A e \in Fd : Session(e)' = Session(e)
  BY DEF Same, Session, Copy
<1> QED BY <1>1 DEF Sessions

LEMMA OneSession ==
  ASSUME NEW fd \in Fd
  PROVE  Sessions[fd] = Session(fd)
BY DEF Sessions

\* Nothing has length zero but the empty sequence.
LEMMA NoBytes ==
  /\ <<>> \in Seq(Byte) /\ Len(<<>>) = 0
  /\ \A s \in Seq(Byte) : SubSeq(s, 1, 0) = <<>> /\ Upto(s, 0) = <<>>
<1>1. <<>> \in Seq(Byte) /\ Len(<<>>) = 0
  BY EmptySeq
<1>2. ASSUME NEW s \in Seq(Byte) PROVE SubSeq(s, 1, 0) = <<>> /\ Upto(s, 0) = <<>>
  <2>1. 0 \in 0..Len(s) /\ 0 \in Nat /\ ~ (Len(s) < 0)
    BY LenProperties
  <2>2. SubSeq(s, 1, 0) \in Seq(Byte) /\ Len(SubSeq(s, 1, 0)) = 0
    BY <2>1, Beginning
  <2>3. SubSeq(s, 1, 0) = <<>>
    BY <2>2, EmptySeq
  <2>4. Upto(s, 0) = SubSeq(s, 1, 0)
    BY <2>1 DEF Upto
  <2> QED BY <2>3, <2>4
<1> QED BY <1>1, <1>2

\* sys_open starts a session with what fat_read returned.
LEMMA OpenStep ==
  ASSUME TypeOK, NEW n \in Name, NEW creat \in BOOLEAN, NEW wronly \in BOOLEAN,
         NEW trunc \in BOOLEAN, Open(n, creat, wronly, trunc)
  PROVE  TypeOK' /\ wild' = wild /\ \E fd \in Fd : Calls!Open(fd, n, creat, wronly, trunc)
<1> DEFINE W == wronly \/ creat \/ trunc
<1>1. PICK fd \in Fd : fd = AllocFd /\ ~ used[fd]
  BY FdFound DEF Open
<1>2. PICK r \in FatRead(n) :
        /\ r.found \/ creat
        /\ data' = [data EXCEPT ![fd] = Loaded(@, r.bytes)]
        /\ used' = [used EXCEPT ![fd] = TRUE]
        /\ writable' = [writable EXCEPT ![fd] = W]
        /\ dirty' = [dirty EXCEPT ![fd] = trunc]
        /\ size' = [size EXCEPT ![fd] = IF r.found /\ ~ trunc THEN Len(r.bytes) ELSE 0]
        /\ pos' = [pos EXCEPT ![fd] = 0]
        /\ name' = [name EXCEPT ![fd] = n]
        /\ reply' = Reply("open", fd, <<>>)
  BY <1>1 DEF Open
<1>3. volume' = volume /\ spoilt' = spoilt /\ wild' = wild
  BY DEF Open, disk
<1>4. W \in BOOLEAN
  OBVIOUS
<1> HIDE DEF W
<1> DEFINE b == r.bytes
           z == IF r.found /\ ~ trunc THEN Len(b) ELSE 0
           d == Loaded(data[fd], b)
           kept == IF r.found /\ ~ trunc THEN b ELSE <<>>
<1>5. /\ r.found \in BOOLEAN /\ b \in Seq(Byte) /\ Len(b) <= OFILE_CAP
      /\ r.found => \E c \in volume[n], k \in 0..OFILE_CAP : b = Upto(c, k)
  BY FatReadIs
<1>6. OFILE_CAP \in Nat /\ data[fd] \in Bytes(OFILE_CAP)
  BY <1>1, Slot
<1>7. /\ data' = [data EXCEPT ![fd] = d] /\ size' = [size EXCEPT ![fd] = z]
  BY <1>2
<1> HIDE DEF b
<1>8. d \in Bytes(OFILE_CAP) /\ SubSeq(d, 1, Len(b)) = b
  BY <1>5, <1>6, LoadedIs
<1> HIDE DEF d
<1>9. z \in 0..OFILE_CAP /\ SubSeq(d, 1, z) = kept
  <2>1. d \in Seq(Byte) /\ SubSeq(d, 1, 0) = <<>>
    BY <1>6, <1>8, BytesAre, NoBytes
  <2>2. CASE r.found /\ ~ trunc
    <3>1. z = Len(b) /\ kept = b /\ Len(b) \in Nat
      BY <1>5, <2>2, LenProperties
    <3> HIDE DEF z, kept
    <3> QED BY <1>5, <1>6, <1>8, <3>1
  <2>3. CASE ~ (r.found /\ ~ trunc)
    <3>1. z = 0 /\ kept = <<>>
      BY <2>3
    <3>2. 0 \in 0..OFILE_CAP
      BY <1>6
    <3> HIDE DEF z, kept
    <3> QED BY <2>1, <3>1, <3>2
  <2> QED BY <2>2, <2>3
<1> HIDE DEF z
<1>10. TypeOK'
  <2>1. /\ used' \in [Fd -> BOOLEAN] /\ writable' \in [Fd -> BOOLEAN]
        /\ dirty' \in [Fd -> BOOLEAN]
    BY <1>2, <1>4 DEF TypeOK
  <2>2. /\ size' \in [Fd -> 0..OFILE_CAP] /\ pos' \in [Fd -> 0..MaxPos]
        /\ name' \in [Fd -> Name]
    <3>1. 0 \in 0..MaxPos /\ z \in 0..OFILE_CAP
      BY <1>1, <1>9, Slot
    <3>2. /\ size \in [Fd -> 0..OFILE_CAP] /\ pos \in [Fd -> 0..MaxPos]
          /\ name \in [Fd -> Name]
      BY DEF TypeOK
    <3>3. /\ size' = [size EXCEPT ![fd] = z] /\ pos' = [pos EXCEPT ![fd] = 0]
          /\ name' = [name EXCEPT ![fd] = n]
      BY <1>2, <1>7
    <3> QED BY <3>1, <3>2, <3>3
  <2>3. data' \in [Fd -> Bytes(OFILE_CAP)]
    BY <1>7, <1>8 DEF TypeOK
  <2> QED BY <1>3, <2>1, <2>2, <2>3 DEF TypeOK
<1>11. Sessions' = [Sessions EXCEPT ![fd] =
         {[name |-> n, bytes |-> kept, pos |-> 0, writable |-> W, dirty |-> trunc]}]
  <2>1. /\ used'[fd] = TRUE /\ pos'[fd] = 0 /\ name'[fd] = n
        /\ size'[fd] = z /\ data'[fd] = d
    BY <1>1, <1>2, <1>7 DEF TypeOK
  <2>2. writable'[fd] = W /\ dirty'[fd] = trunc
    BY <1>1, <1>2, Zenon DEF TypeOK
  <2>3. Session(fd)' = {[name |-> n, bytes |-> kept, pos |-> 0, writable |-> W,
                         dirty |-> trunc]}
    <3>1. SubSeq(data'[fd], 1, size'[fd]) = kept
      BY <1>9, <2>1
    <3> HIDE DEF kept
    <3>2. Session(fd)' = {[name |-> name'[fd], bytes |-> SubSeq(data'[fd], 1, size'[fd]),
                           pos |-> pos'[fd], writable |-> writable'[fd],
                           dirty |-> dirty'[fd]]}
      BY <2>1, Zenon DEF Session, Copy
    <3> QED BY <2>1, <2>2, <3>1, <3>2, Zenon
  <2>4. \A e \in Fd : e # fd => Same(e)
    BY <1>2, <1>7, Zenon DEF TypeOK, Same
  <2>5. Sessions' = [Sessions EXCEPT ![fd] = Session(fd)']
    BY <1>1, <2>4, OnlyOne
  <2> QED BY <2>3, <2>5, Zenon
<1>12. Calls!Start(fd, n, kept, W, trunc)
  <2>1. Sessions[fd] = {}
    BY <1>1 DEF Sessions, Session
  <2> QED BY <1>3, <1>11, <2>1 DEF Calls!Start, Calls!files
<1>14. reply' = Calls!Reply("open", fd, <<>>)
  BY <1>2 DEF Reply, Calls!Reply
<1>13. Calls!Open(fd, n, creat, wronly, trunc)
  <2> HIDE DEF kept
  <2>1. CASE r.found
    <3>1. PICK c \in volume[n], k \in 0..OFILE_CAP : b = Upto(c, k)
      BY <1>5, <2>1
    <3>2. kept = IF trunc THEN <<>> ELSE Upto(c, k)
      BY <2>1, <3>1 DEF kept
    <3>3. Upto(c, k) = Calls!Upto(c, k)
      BY DEF Upto, Calls!Upto
    <3>4. Calls!Start(fd, n, IF trunc THEN <<>> ELSE Calls!Upto(c, k),
                      wronly \/ creat \/ trunc, trunc)
      BY <1>12, <3>2, <3>3 DEF W
    <3> QED BY <1>14, <3>4, Zenon DEF Calls!Open
  <2>2. CASE ~ r.found /\ volume[n] = {}
    <3>1. creat /\ kept = <<>>
      BY <1>2, <2>2 DEF kept
    <3>2. Calls!Start(fd, n, <<>>, wronly \/ creat \/ trunc, trunc)
      BY <1>12, <3>1 DEF W
    <3> QED BY <1>14, <2>2, <3>1, <3>2 DEF Calls!Open
  <2>3. CASE ~ r.found /\ volume[n] # {}
    <3>1. PICK c \in volume[n] : TRUE
      BY <2>3
    <3>2. 0 \in 0..OFILE_CAP
      BY <1>6
    <3>3. Calls!Upto(c, 0) = <<>>
      <4>1. c \in Seq(Byte)
        BY Stores, ContentsAre
      <4> QED BY <4>1, NoBytes DEF Upto, Calls!Upto
    <3>4. kept = IF trunc THEN <<>> ELSE Calls!Upto(c, 0)
      BY <2>3, <3>3 DEF kept
    <3>5. Calls!Start(fd, n, IF trunc THEN <<>> ELSE Calls!Upto(c, 0),
                      wronly \/ creat \/ trunc, trunc)
      BY <1>12, <3>4 DEF W
    <3> QED BY <1>14, <3>2, <3>5, Zenon DEF Calls!Open
  <2> QED BY <2>1, <2>2, <2>3
<1> QED BY <1>1, <1>3, <1>10, <1>13

\* open() that fails: what fat_read left in the free slot shows in no session.
LEMMA OpenFailsStep ==
  ASSUME TypeOK, NEW n \in Name, OpenFails(n)
  PROVE  TypeOK' /\ wild' = wild /\ Calls!Fail
<1> DEFINE fd == AllocFd
<1>1. fd \in Fd /\ ~ used[fd]
  BY FdFound DEF OpenFails
<1>2. PICK r \in FatRead(n) : data' = [data EXCEPT ![fd] = Loaded(@, r.bytes)]
  BY DEF OpenFails
<1>3. /\ reply' = Reply("failed", 0, <<>>) /\ used' = used /\ writable' = writable
      /\ dirty' = dirty /\ size' = size /\ pos' = pos /\ name' = name
      /\ volume' = volume /\ spoilt' = spoilt /\ wild' = wild
  BY DEF OpenFails, flags, disk
<1> HIDE DEF fd
<1>4. TypeOK'
  <2>1. r.bytes \in Seq(Byte) /\ Len(r.bytes) <= OFILE_CAP /\ data[fd] \in Bytes(OFILE_CAP)
    BY <1>1, FatReadIs, Slot
  <2>2. Loaded(data[fd], r.bytes) \in Bytes(OFILE_CAP)
    BY <2>1, LoadedIs
  <2> QED BY <1>2, <1>3, <2>2 DEF TypeOK
<1>5. Sessions' = Sessions
  <2>1. \A e \in Fd : Same(e) \/ (~ used[e] /\ ~ used'[e])
    BY <1>1, <1>2, <1>3 DEF TypeOK, Same
  <2> QED BY <2>1, NoneChanged
<1> QED BY <1>3, <1>4, <1>5 DEF Calls!Fail, Calls!files, Calls!Reply, Reply

LEMMA CallFailsStep ==
  ASSUME TypeOK, CallFails
  PROVE  TypeOK' /\ wild' = wild /\ Calls!Fail
<1>1. /\ reply' = Reply("failed", 0, <<>>) /\ used' = used /\ writable' = writable
      /\ dirty' = dirty /\ size' = size /\ pos' = pos /\ name' = name /\ data' = data
      /\ volume' = volume /\ spoilt' = spoilt /\ wild' = wild
  BY DEF CallFails, Fails, table, flags, disk
<1>2. TypeOK'
  BY <1>1 DEF TypeOK
<1>3. Sessions' = Sessions
  BY <1>1, NoneChanged DEF Same
<1> QED BY <1>1, <1>2, <1>3 DEF Calls!Fail, Calls!files, Calls!Reply, Reply

\* The one session of a descriptor in use.
Now(fd) == [name |-> name[fd], bytes |-> SubSeq(data[fd], 1, size[fd]),
            pos |-> pos[fd], writable |-> writable[fd], dirty |-> dirty[fd]]

LEMMA InUse ==
  ASSUME NEW fd \in Fd, used[fd]
  PROVE  Sessions[fd] = {Now(fd)} /\ Session(fd) = {Now(fd)}
<1>1. Session(fd) = {Now(fd)}
  BY Zenon DEF Session, Now, Copy
<1> QED BY <1>1, OneSession

\* A call on one open descriptor leaves it open: what its session becomes.
LEMMA Becomes ==
  ASSUME NEW fd \in Fd, used'[fd], \A e \in Fd : e # fd => Same(e)
  PROVE  Sessions' = [Sessions EXCEPT ![fd] = {Now(fd)'}]
<1>1. Session(fd)' = {Now(fd)'}
  BY Zenon DEF Session, Now, Copy
<1>2. Sessions' = [Sessions EXCEPT ![fd] = Session(fd)']
  BY OnlyOne
<1> QED BY <1>1, <1>2, Zenon

\* A record with a field changed.
LEMMA OneField ==
  ASSUME NEW n, NEW b, NEW p, NEW w, NEW d, NEW q
  PROVE  [[name |-> n, bytes |-> b, pos |-> p, writable |-> w, dirty |-> d] EXCEPT !.pos = q]
           = [name |-> n, bytes |-> b, pos |-> q, writable |-> w, dirty |-> d]
OBVIOUS

\* A session moved.
LEMMA Moved ==
  ASSUME NEW fd, NEW q
  PROVE  [Now(fd) EXCEPT !.pos = q] =
           [name |-> name[fd], bytes |-> SubSeq(data[fd], 1, size[fd]),
            pos |-> q, writable |-> writable[fd], dirty |-> dirty[fd]]
<1> DEFINE n == name[fd]
           b == SubSeq(data[fd], 1, size[fd])
           w == writable[fd]
           d == dirty[fd]
           p == pos[fd]
<1>1. Now(fd) = [name |-> n, bytes |-> b, pos |-> p, writable |-> w, dirty |-> d]
  BY Zenon DEF Now
<1> HIDE DEF n, b, w, d, p
<1>2. [Now(fd) EXCEPT !.pos = q]
        = [name |-> n, bytes |-> b, pos |-> q, writable |-> w, dirty |-> d]
  BY <1>1, OneField
<1> QED BY <1>2, Zenon DEF n, b, w, d

LEMMA LseekStep ==
  ASSUME TypeOK, NEW fd \in Fd, NEW to \in 0..OFILE_CAP, Lseek(fd, to)
  PROVE  TypeOK' /\ wild' = wild /\ Calls!Lseek(fd, to)
<1>1. /\ used[fd] /\ pos' = [pos EXCEPT ![fd] = to] /\ reply' = Reply("lseek", 0, <<>>)
      /\ used' = used /\ writable' = writable /\ dirty' = dirty /\ size' = size
      /\ name' = name /\ data' = data /\ volume' = volume /\ spoilt' = spoilt /\ wild' = wild
  BY DEF Lseek, On, flags, disk
<1>2. TypeOK'
  <2>1. to \in 0..MaxPos
    BY Slot
  <2> QED BY <1>1, <2>1 DEF TypeOK
<1>3. Sessions' = [Sessions EXCEPT ![fd] = {Now(fd)'}]
  <2>1. \A e \in Fd : e # fd => Same(e)
    BY <1>1 DEF TypeOK, Same
  <2> QED BY <1>1, <2>1, Becomes
<1>4. Now(fd)' = [Now(fd) EXCEPT !.pos = to]
  <2>1. pos'[fd] = to
    BY <1>1 DEF TypeOK
  <2>2. Now(fd)' = [name |-> name[fd], bytes |-> SubSeq(data[fd], 1, size[fd]),
                    pos |-> to, writable |-> writable[fd], dirty |-> dirty[fd]]
    BY <1>1, <2>1, Zenon DEF Now
  <2> QED BY <2>2, Moved
<1>5. Now(fd) \in Sessions[fd]
  BY <1>1, InUse
<1>6. reply' = Calls!Reply("lseek", 0, <<>>)
  BY <1>1 DEF Reply, Calls!Reply
<1>7. Sessions' = [Sessions EXCEPT ![fd] = {[Now(fd) EXCEPT !.pos = to]}]
  BY <1>3, <1>4
<1> QED BY <1>1, <1>2, <1>5, <1>6, <1>7 DEF Calls!Lseek, Calls!files

\* A read below the end returns the session's bytes, one past the end any.
LEMMA ReadStep ==
  ASSUME TypeOK, NEW fd \in Fd, NEW n \in 1..MaxPos, Read(fd, n)
  PROVE  TypeOK' /\ wild' = wild /\ Calls!Read(fd, n)
<1> DEFINE p == pos[fd]
           z == size[fd]
           d == data[fd]
           a == Avail(fd, n)
           bs == SubSeq(d, 1, z)
<1>1. /\ used[fd] /\ p + a <= MaxPos
      /\ used' = used /\ writable' = writable /\ dirty' = dirty /\ size' = size
      /\ name' = name /\ data' = data
      /\ volume' = volume /\ spoilt' = spoilt /\ wild' = wild
  BY DEF Read, On, flags, disk
<1>2. /\ OFILE_CAP \in Nat /\ MaxPos \in Nat /\ p \in 0..MaxPos /\ z \in 0..OFILE_CAP
      /\ d \in Seq(Byte) /\ Len(d) = OFILE_CAP
      /\ bs \in Seq(Byte) /\ Len(bs) = z /\ \A k \in 1..z : bs[k] = d[k]
  BY Slot, Held
<1>3. a = IF p <= z /\ z - p < n THEN z - p ELSE n
  BY DEF Avail
<1>4. PICK b \in Bytes(a) :
        /\ \A i \in DOMAIN b : p + i <= OFILE_CAP => b[i] = d[p + i]
        /\ pos' = [pos EXCEPT ![fd] = p + Len(b)]
        /\ reply' = Reply("read", Len(b), b)
  BY Zenon DEF Read
<1>5. a \in Nat /\ (p <= z => p + a <= z)
  BY <1>2, <1>3
<1>6. b \in Seq(Byte) /\ Len(b) = a /\ DOMAIN b = 1..a
  <2> HIDE DEF a
  <2> QED BY <1>5, BytesAre
<1> HIDE DEF p, z, d, a, bs
<1>7. TypeOK'
  <2>1. p + Len(b) \in 0..MaxPos
    BY <1>1, <1>2, <1>5, <1>6
  <2>2. pos' \in [Fd -> 0..MaxPos]
    BY <1>4, <2>1 DEF TypeOK
  <2> QED BY <1>1, <2>2 DEF TypeOK
<1>8. Sessions' = [Sessions EXCEPT ![fd] = {[Now(fd) EXCEPT !.pos = @ + Len(b)]}]
  <2>1. \A e \in Fd : e # fd => Same(e)
    BY <1>1, <1>4 DEF TypeOK, Same
  <2>2. Sessions' = [Sessions EXCEPT ![fd] = {Now(fd)'}]
    BY <1>1, <2>1, Becomes
  <2>3. pos'[fd] = Now(fd).pos + Len(b)
    BY <1>4 DEF TypeOK, Now, p
  <2>4. Now(fd)' = [Now(fd) EXCEPT !.pos = @ + Len(b)]
    <3> DEFINE q == Now(fd).pos + Len(b)
    <3>1. pos'[fd] = q
      BY <2>3
    <3> HIDE DEF q
    <3>2. Now(fd)' = [name |-> name[fd], bytes |-> SubSeq(data[fd], 1, size[fd]),
                      pos |-> q, writable |-> writable[fd], dirty |-> dirty[fd]]
      BY <1>1, <3>1, Zenon DEF Now
    <3>3. Now(fd)' = [Now(fd) EXCEPT !.pos = q]
      <4> SUFFICES ASSUME NEW CONSTANT x, x = q PROVE Now(fd)' = [Now(fd) EXCEPT !.pos = x]
        OBVIOUS
      <4> QED BY <3>2, Moved
    <3> QED BY <3>3 DEF q
  <2> QED BY <2>2, <2>4
<1>9. reply' = Calls!Reply("read", Len(b), b) /\ reply'.call = "read"
  BY <1>4 DEF Reply, Calls!Reply
<1>10. Now(fd) \in Sessions[fd] /\ Now(fd).pos = p /\ Now(fd).bytes = bs
  BY <1>1, InUse DEF Now, p, bs, z, d
<1>11. b \in IF p <= Len(bs)
             THEN {SubSeq(bs, p + 1, IF p + n < Len(bs) THEN p + n ELSE Len(bs))}
             ELSE Calls!Bytes(n)
  <2>1. CASE p <= z
    <3> DEFINE m == IF p + n < z THEN p + n ELSE z
    <3>1. m = p + a /\ p + 1 \in 1..(z + 1) /\ m \in ((p + 1) - 1)..z /\ m - (p + 1) + 1 = a
      BY <1>2, <1>3, <2>1
    <3> HIDE DEF m
    <3>2. /\ SubSeq(bs, p + 1, m) \in Seq(Byte) /\ Len(SubSeq(bs, p + 1, m)) = a
          /\ \A k \in 1..a : SubSeq(bs, p + 1, m)[k] = bs[p + 1 + k - 1]
      BY <1>2, <3>1, Stretch
    <3>3. \A k \in 1..a : p + 1 + k - 1 = p + k /\ p + k \in 1..z /\ p + k <= OFILE_CAP
      BY <1>2, <1>5, <2>1
    <3>4. \A k \in 1..a : b[k] = SubSeq(bs, p + 1, m)[k]
      BY <1>2, <1>4, <1>6, <3>2, <3>3
    <3>5. b = SubSeq(bs, p + 1, m)
      BY <1>6, <3>2, <3>4, SeqEqual
    <3>6. b = SubSeq(bs, p + 1, IF p + n < Len(bs) THEN p + n ELSE Len(bs))
      BY <1>2, <3>5 DEF m
    <3> QED BY <1>2, <2>1, <3>6
  <2>2. CASE ~ (p <= z)
    <3>1. a = n
      BY <1>3, <2>2
    <3>2. b \in Calls!Bytes(n)
      BY <1>4, <3>1 DEF Bytes, Calls!Bytes
    <3> QED BY <1>2, <2>2, <3>2
  <2> QED BY <2>1, <2>2
<1>12. Calls!Read(fd, n)
  BY <1>1, <1>8, <1>9, <1>10, <1>11 DEF Calls!Read, Calls!files
<1> QED BY <1>1, <1>7, <1>12

\* A write changes the copy from the position on, as far as the buffer goes.
LEMMA WriteStep ==
  ASSUME TypeOK, NEW fd \in Fd, NEW b \in Buffers, Write(fd, b)
  PROVE  TypeOK' /\ wild' = wild /\ Calls!Write(fd, b)
<1> DEFINE p == pos[fd]
           z == size[fd]
           d == data[fd]
           put == Upto(b, OFILE_CAP - p)
           end == p + Len(put)
           written == [i \in DOMAIN d |-> IF i \in (p + 1)..end THEN put[i - p] ELSE d[i]]
           last == IF end > z THEN end ELSE z
           bytes == SubSeq(written, 1, last)
<1>1. /\ used[fd] /\ writable[fd]
      /\ data' = [data EXCEPT ![fd] = written] /\ pos' = [pos EXCEPT ![fd] = end]
      /\ size' = [size EXCEPT ![fd] = last] /\ dirty' = [dirty EXCEPT ![fd] = TRUE]
      /\ reply' = Reply("write", 0, <<>>)
  BY DEF Write, On, Room
<1>2. /\ used' = used /\ writable' = writable /\ name' = name
      /\ volume' = volume /\ spoilt' = spoilt /\ wild' = wild
  BY DEF Write, disk
<1>21. p \in 0..OFILE_CAP
  BY Slot DEF Write
<1>3. /\ OFILE_CAP \in Nat /\ p \in 0..OFILE_CAP /\ z \in 0..OFILE_CAP
      /\ d \in Bytes(OFILE_CAP) /\ DOMAIN d = 1..OFILE_CAP
      /\ SubSeq(d, 1, z) \in Seq(Byte) /\ Len(SubSeq(d, 1, z)) = z
      /\ \A k \in 1..z : SubSeq(d, 1, z)[k] = d[k]
  BY <1>21, Slot, Held, BytesAre
<1>4. b \in Seq(Byte)
  <2>1. b \in UNION {Bytes(n) : n \in 0..MaxFile}
    BY FileAssumption DEF Bytes
  <2> QED BY <2>1, ContentsAre DEF Contents
<1> HIDE DEF p, z, d
<1>5. OFILE_CAP - p \in Nat
  BY <1>3
<1>6. put \in Seq(Byte) /\ Len(put) \in Nat /\ Len(put) <= OFILE_CAP - p
  <2>1. /\ put \in Seq(Byte)
        /\ Len(put) = IF Len(b) < OFILE_CAP - p THEN Len(b) ELSE OFILE_CAP - p
    BY <1>4, <1>5, UptoIs
  <2> HIDE DEF put
  <2> QED BY <1>4, <1>5, <2>1, LenProperties
<1> HIDE DEF put
<1>7. end \in 0..OFILE_CAP /\ last \in 0..OFILE_CAP /\ z <= last /\ end <= last
  BY <1>3, <1>6
<1>8. \A i \in 1..OFILE_CAP : i \in (p + 1)..end => i - p \in 1..Len(put)
  BY <1>3, <1>6
<1>9. \A i \in 1..Len(put) : put[i] \in Byte
  BY <1>6
<1> HIDE DEF end
<1>10. written \in Bytes(OFILE_CAP)
       /\ \A i \in 1..OFILE_CAP :
            written[i] = IF i \in (p + 1)..end THEN put[i - p] ELSE d[i]
  BY <1>3, <1>8, <1>9 DEF Bytes
<1> HIDE DEF written, last
<1>11. TypeOK'
  <2>3. end \in 0..MaxPos
    BY <1>7, Slot
  <2>1. /\ pos' \in [Fd -> 0..MaxPos] /\ size' \in [Fd -> 0..OFILE_CAP]
        /\ data' \in [Fd -> Bytes(OFILE_CAP)]
    BY <1>1, <1>7, <1>10, <2>3 DEF TypeOK
  <2>2. dirty' \in [Fd -> BOOLEAN]
    BY <1>1 DEF TypeOK
  <2> QED BY <1>2, <2>1, <2>2 DEF TypeOK
<1>12. /\ bytes \in Seq(Byte) /\ Len(bytes) = last
       /\ \A k \in 1..last : bytes[k] = written[k]
  <2>1. written \in Seq(Byte) /\ Len(written) = OFILE_CAP
    BY <1>3, <1>10, BytesAre
  <2> QED BY <1>7, <2>1, Beginning
<1> HIDE DEF bytes
<1>13. Sessions' = [Sessions EXCEPT ![fd] =
         {[name |-> Now(fd).name, bytes |-> bytes, pos |-> end,
           writable |-> Now(fd).writable, dirty |-> TRUE]}]
  <2>1. \A e \in Fd : e # fd => Same(e)
    BY <1>1, <1>2, Zenon DEF TypeOK, Same
  <2>2. Sessions' = [Sessions EXCEPT ![fd] = {Now(fd)'}]
    BY <1>1, <1>2, <2>1, Becomes
  <2>3. pos'[fd] = end /\ size'[fd] = last /\ data'[fd] = written
    BY <1>1 DEF TypeOK
  <2>4. dirty'[fd] = TRUE
    BY <1>1, Zenon DEF TypeOK
  <2>5. SubSeq(data'[fd], 1, size'[fd]) = bytes
    BY <2>3 DEF bytes
  <2>6. Now(fd).name = name[fd] /\ Now(fd).writable = writable[fd]
    BY Zenon DEF Now
  <2>7. Now(fd)' = [name |-> Now(fd).name, bytes |-> bytes, pos |-> end,
                    writable |-> Now(fd).writable, dirty |-> TRUE]
    BY <1>2, <2>3, <2>4, <2>5, <2>6, Zenon DEF Now
  <2> QED BY <2>2, <2>7, Zenon
<1>14. /\ Now(fd) \in Sessions[fd] /\ Now(fd).pos = p /\ Now(fd).bytes = SubSeq(d, 1, z)
  BY <1>1, InUse DEF Now, p, d, z
<1>15. Now(fd).writable /\ Now(fd).pos <= OFILE_CAP
  <2>1. Now(fd).writable
    BY <1>1, Zenon DEF Now
  <2> QED BY <1>14, <1>21, <2>1
<1>16. put = Calls!Upto(b, OFILE_CAP - Now(fd).pos) /\ end = Now(fd).pos + Len(put)
  BY <1>14 DEF put, end, Upto, Calls!Upto
<1>17. bytes \in Calls!Bytes(IF end > Len(Now(fd).bytes) THEN end ELSE Len(Now(fd).bytes))
  BY <1>3, <1>12, <1>14, SeqIsBytes DEF last, Bytes, Calls!Bytes
<1>18. \A i \in 1..Len(bytes) :
         /\ i \in (Now(fd).pos + 1)..end => bytes[i] = put[i - Now(fd).pos]
         /\ i <= Len(Now(fd).bytes) /\ i \notin (Now(fd).pos + 1)..end
              => bytes[i] = Now(fd).bytes[i]
  <2> SUFFICES ASSUME NEW i \in 1..last
               PROVE  /\ i \in (p + 1)..end => bytes[i] = put[i - p]
                      /\ i <= z /\ i \notin (p + 1)..end => bytes[i] = SubSeq(d, 1, z)[i]
    BY <1>3, <1>12, <1>14
  <2>1. i \in 1..OFILE_CAP /\ bytes[i] = written[i]
    BY <1>3, <1>7, <1>12
  <2>2. i <= z => SubSeq(d, 1, z)[i] = d[i]
    BY <1>3, <1>7
  <2> QED BY <1>10, <2>1, <2>2
<1>19. reply' = Calls!Reply("write", 0, <<>>)
  BY <1>1 DEF Reply, Calls!Reply
<1> HIDE DEF Now
<1>20. Calls!Write(fd, b)
  BY <1>2, <1>13, <1>14, <1>15, <1>16, <1>17, <1>18, <1>19, Zenon DEF Calls!Write, Calls!files
<1> QED BY <1>2, <1>11, <1>20

\* A write from beyond the buffer ends what is promised.
LEMMA WildStep ==
  ASSUME TypeOK, NEW fd \in Fd, WildWrite(fd)
  PROVE  TypeOK' /\ wild' /\ Calls!WriteBeyond(fd)
<1>1. /\ used[fd] /\ writable[fd] /\ pos[fd] > OFILE_CAP /\ wild' = TRUE
      /\ used' = used /\ writable' = writable /\ dirty' = dirty /\ size' = size
      /\ pos' = pos /\ name' = name /\ data' = data /\ volume' = volume /\ spoilt' = spoilt
  BY DEF WildWrite, On, table, flags, disk
<1>2. TypeOK'
  BY <1>1 DEF TypeOK
<1>3. Now(fd) \in Sessions[fd] /\ Now(fd).pos = pos[fd]
  BY <1>1, InUse DEF Now
<1>4. Now(fd).writable
  BY <1>1, Zenon DEF Now
<1>5. Now(fd).pos > OFILE_CAP
  BY <1>1, <1>3
<1> HIDE DEF Now
<1> QED BY <1>1, <1>2, <1>3, <1>4, <1>5, Zenon DEF Calls!WriteBeyond

V == {{}} \cup {{s} : s \in Contents}

LEMMA VolumeIs == TypeOK => volume \in [Name -> V]
BY DEF TypeOK, V

LEMMA InVolume == \A s \in Contents : {s} \in V
BY DEF V

\* One file stored.
LEMMA StoredIs ==
  ASSUME TypeOK, NEW n \in Name, NEW s \in Contents, Stored(n, s)
  PROVE  /\ volume' \in [Name -> V] /\ spoilt' = spoilt
         /\ volume'[n] = {s} /\ \A m \in Name \ {n} : volume'[m] = volume[m]
<1>1. volume' = [volume EXCEPT ![n] = {s}] /\ spoilt' = spoilt
  BY DEF Stored
<1>2. volume \in [Name -> V] /\ {s} \in V
  BY VolumeIs, InVolume
<1> QED BY <1>1, <1>2

\* A disk that fills up.
LEMMA NoSpaceIs ==
  ASSUME TypeOK, NEW n \in Name, NoSpace(n)
  PROVE  /\ volume' \in [Name -> V]
         /\ (volume' = volume /\ spoilt' = spoilt) \/ spoilt' = TRUE
<1>1. volume \in [Name -> V]
  BY VolumeIs
<1>2. CASE UNCHANGED disk
  BY <1>1, <1>2 DEF disk
<1>3. CASE /\ spoilt' = TRUE
           /\ \E left \in volume[n] \cup Junk : volume' = [volume EXCEPT ![n] = {left}]
  <2>1. PICK left \in volume[n] \cup Junk : volume' = [volume EXCEPT ![n] = {left}]
    BY <1>3
  <2>2. left \in Contents
    BY <2>1, Stores, FileAssumption DEF Contents, Bytes
  <2>3. {left} \in V
    BY <2>2, InVolume
  <2> QED BY <1>1, <1>3, <2>1, <2>3
<1> QED BY <1>2, <1>3, Zenon DEF NoSpace

\* A volume on which fat.c has lost its way.
LEMMA SpoiledIs ==
  ASSUME TypeOK, NEW n \in Name, NEW new \in SUBSET Contents, Spoiled(n, new)
  PROVE  volume' \in [Name -> V] /\ spoilt' = TRUE
<1>1. volume \in [Name -> V]
  BY VolumeIs
<1>2. PICK left \in [Name -> UNION {Left(m) : m \in Name}] :
        /\ \A m \in Name : left[m] \in Left(m)
        /\ volume' \in {left} \cup {[left EXCEPT ![n] = {s}] : s \in new}
  BY DEF Spoiled
<1>3. \A m \in Name : Left(m) \subseteq V
  <2>1. {} \in V /\ \A s \in Junk : {s} \in V
    BY FileAssumption DEF V, Contents, Bytes
  <2> QED BY <1>1, <2>1 DEF Left
<1>4. left \in [Name -> V]
  BY <1>2, <1>3
<1>5. volume' \in [Name -> V]
  <2>1. CASE volume' = left
    BY <1>4, <2>1
  <2>2. CASE \E s \in new : volume' = [left EXCEPT ![n] = {s}]
    <3>1. PICK s \in new : volume' = [left EXCEPT ![n] = {s}]
      BY <2>2
    <3>2. {s} \in V
      BY InVolume
    <3> QED BY <1>4, <3>1, <3>2
  <2> QED BY <1>2, <2>1, <2>2
<1> QED BY <1>5 DEF Spoiled

\* close() returns 0 only with the copy stored, or with nothing to store.
LEMMA CloseStep ==
  ASSUME TypeOK, NEW fd \in Fd, Close(fd)
  PROVE  TypeOK' /\ wild' = wild /\ Calls!Close(fd)
<1> DEFINE bytes == SubSeq(data[fd], 1, size[fd])
           n == name[fd]
<1>1. /\ used[fd]
      /\ used' = [used EXCEPT ![fd] = FALSE] /\ writable' = [writable EXCEPT ![fd] = FALSE]
      /\ dirty' = [dirty EXCEPT ![fd] = FALSE]
      /\ size' = size /\ pos' = pos /\ name' = name /\ data' = data /\ wild' = wild
  BY DEF Close, On
<1>2. Sessions' = [Sessions EXCEPT ![fd] = {}]
  <2>1. \A e \in Fd : e # fd => Same(e)
    BY <1>1, Zenon DEF TypeOK, Same
  <2>2. ~ used'[fd]
    BY <1>1, Zenon DEF TypeOK
  <2>3. Session(fd)' = {}
    BY <2>2, Zenon DEF Session
  <2>4. Sessions' = [Sessions EXCEPT ![fd] = Session(fd)']
    BY <2>1, OnlyOne
  <2> QED BY <2>3, <2>4, Zenon
<1>3. Now(fd) \in Sessions[fd]
  BY <1>1, InUse
<1>4. Now(fd).name = n /\ Now(fd).dirty = dirty[fd] /\ Now(fd).bytes = bytes
  BY Zenon DEF Now
<1>5. n \in Name /\ bytes \in Contents /\ Copy(fd) = bytes
  BY Slot, Held DEF Copy
<1> HIDE DEF bytes, n
<1>6. /\ used' \in [Fd -> BOOLEAN] /\ writable' \in [Fd -> BOOLEAN]
      /\ dirty' \in [Fd -> BOOLEAN]
  BY <1>1 DEF TypeOK
<1>7. \/ ~ dirty[fd] /\ UNCHANGED disk /\ reply' = Reply("close", 0, <<>>)
      \/ dirty[fd] /\ Stored(n, bytes) /\ reply' = Reply("close", 0, <<>>)
      \/ dirty[fd] /\ NoSpace(n) /\ reply' = Reply("failed", 0, <<>>)
      \/ /\ dirty[fd] /\ Spoiled(n, {bytes})
         /\ reply' \in {Reply("close", 0, <<>>), Reply("failed", 0, <<>>)}
  BY <1>5, Zenon DEF Close, n
<1>8. Calls!Reply("close", 0, <<>>) = Reply("close", 0, <<>>)
      /\ Calls!Reply("failed", 0, <<>>) = Reply("failed", 0, <<>>)
  BY DEF Reply, Calls!Reply
<1>9. reply'.call \in {"close", "failed"}
  BY <1>7 DEF Reply
<1>10. /\ volume' \in [Name -> V] /\ spoilt' \in BOOLEAN
       /\ \/ ~ dirty[fd] /\ reply' = Reply("close", 0, <<>>) /\ volume' = volume /\ spoilt' = spoilt
          \/ /\ dirty[fd] /\ reply' = Reply("close", 0, <<>>)
             /\ Calls!Changed(n, volume'[n] = {bytes})
          \/ /\ dirty[fd] /\ reply' = Reply("failed", 0, <<>>)
             /\ (spoilt' \/ (volume' = volume /\ spoilt' = spoilt))
  <2>0. volume \in [Name -> V] /\ spoilt \in BOOLEAN
    BY VolumeIs DEF TypeOK
  <2>1. CASE ~ dirty[fd] /\ UNCHANGED disk /\ reply' = Reply("close", 0, <<>>)
    BY <2>0, <2>1 DEF disk
  <2>2. CASE dirty[fd] /\ Stored(n, bytes) /\ reply' = Reply("close", 0, <<>>)
    <3>1. /\ volume' \in [Name -> V] /\ spoilt' = spoilt
          /\ volume'[n] = {bytes} /\ \A m \in Name \ {n} : volume'[m] = volume[m]
      BY <1>5, <2>2, StoredIs
    <3>2. Calls!Changed(n, volume'[n] = {bytes})
      BY <3>1, Zenon DEF Calls!Changed
    <3> QED BY <2>0, <2>2, <3>1, <3>2, Zenon
  <2>3. CASE dirty[fd] /\ NoSpace(n) /\ reply' = Reply("failed", 0, <<>>)
    <3>1. /\ volume' \in [Name -> V]
          /\ (volume' = volume /\ spoilt' = spoilt) \/ spoilt' = TRUE
      BY <1>5, <2>3, NoSpaceIs
    <3> QED BY <2>0, <2>3, <3>1, Zenon
  <2>4. CASE /\ dirty[fd] /\ Spoiled(n, {bytes})
             /\ reply' \in {Reply("close", 0, <<>>), Reply("failed", 0, <<>>)}
    <3>1. {bytes} \in SUBSET Contents
      BY <1>5
    <3>2. volume' \in [Name -> V] /\ spoilt' = TRUE
      BY <1>5, <2>4, <3>1, SpoiledIs
    <3>3. Calls!Changed(n, volume'[n] = {bytes})
      BY <3>2, Zenon DEF Calls!Changed
    <3>4. reply' = Reply("close", 0, <<>>) \/ reply' = Reply("failed", 0, <<>>)
      BY <2>4
    <3> QED BY <2>0, <2>4, <3>2, <3>3, <3>4, Zenon
  <2> QED BY <1>7, <2>1, <2>2, <2>3, <2>4
<1>11. TypeOK'
  BY <1>1, <1>6, <1>10 DEF TypeOK, V
<1>12. Calls!Close(fd)
  <2> HIDE DEF Now
  <2> QED BY <1>2, <1>3, <1>4, <1>8, <1>9, <1>10, Zenon DEF Calls!Close, Calls!files
<1> QED BY <1>1, <1>11, <1>12

\* The shell, and unlink, change files and no session.
LEMMA ShellStep ==
  ASSUME TypeOK, NEW n \in Name, Unlink(n) \/ \E s \in ShellFiles : ShellWrite(n, s)
  PROVE  TypeOK' /\ wild' = wild /\ Calls!Replace(n)
<1>1. /\ reply' = Reply("none", 0, <<>>)
      /\ used' = used /\ writable' = writable /\ dirty' = dirty /\ size' = size
      /\ pos' = pos /\ name' = name /\ data' = data /\ wild' = wild
  BY DEF Unlink, ShellWrite, table, flags
<1>2. volume \in [Name -> V] /\ spoilt \in BOOLEAN /\ {} \in V
  BY VolumeIs DEF TypeOK, V
<1>3. ASSUME NEW new \in SUBSET Contents, Spoiled(n, new)
      PROVE  volume' \in [Name -> V] /\ spoilt' \in BOOLEAN /\ Calls!Changed(n, TRUE)
  <2>1. volume' \in [Name -> V] /\ spoilt' = TRUE
    BY <1>3, SpoiledIs
  <2> QED BY <2>1, Zenon DEF Calls!Changed
<1>4. ASSUME Unlink(n)
      PROVE  volume' \in [Name -> V] /\ spoilt' \in BOOLEAN /\ Calls!Changed(n, TRUE)
  <2>1. CASE volume' = [volume EXCEPT ![n] = {}] /\ UNCHANGED spoilt
    <3>1. volume' \in [Name -> V] /\ \A m \in Name \ {n} : volume'[m] = volume[m]
      BY <1>2, <2>1
    <3>2. Calls!Changed(n, TRUE)
      BY <3>1, Zenon DEF Calls!Changed
    <3> QED BY <1>2, <2>1, <3>1, <3>2
  <2>2. CASE Spoiled(n, {})
    <3>1. {} \in SUBSET Contents
      OBVIOUS
    <3> QED BY <1>3, <2>2, <3>1, Zenon
  <2> QED BY <1>4, <2>1, <2>2, Zenon DEF Unlink
<1>5. ASSUME NEW s \in ShellFiles, ShellWrite(n, s)
      PROVE  volume' \in [Name -> V] /\ spoilt' \in BOOLEAN /\ Calls!Changed(n, TRUE)
  <2>1. s \in Contents
    BY FileAssumption DEF Contents, Bytes
  <2>2. CASE Stored(n, s)
    <3>1. /\ volume' \in [Name -> V] /\ spoilt' = spoilt
          /\ \A m \in Name \ {n} : volume'[m] = volume[m]
      BY <2>1, <2>2, StoredIs
    <3>2. Calls!Changed(n, TRUE)
      BY <3>1, Zenon DEF Calls!Changed
    <3> QED BY <1>2, <3>1, <3>2
  <2>3. CASE NoSpace(n)
    <3>1. /\ volume' \in [Name -> V]
          /\ (volume' = volume /\ spoilt' = spoilt) \/ spoilt' = TRUE
      BY <2>3, NoSpaceIs
    <3>2. Calls!Changed(n, TRUE)
      BY <3>1, Zenon DEF Calls!Changed
    <3> QED BY <1>2, <3>1, <3>2
  <2>4. CASE Spoiled(n, {s})
    <3>1. {s} \in SUBSET Contents
      BY <2>1
    <3> QED BY <1>3, <2>4, <3>1, Zenon
  <2> QED BY <1>5, <2>2, <2>3, <2>4, Zenon DEF ShellWrite
<1>6. volume' \in [Name -> V] /\ spoilt' \in BOOLEAN /\ Calls!Changed(n, TRUE)
  BY <1>4, <1>5
<1>7. TypeOK'
  BY <1>1, <1>6 DEF TypeOK, V
<1>8. Sessions' = Sessions
  BY <1>1, NoneChanged DEF Same
<1>9. reply' = Calls!Reply("none", 0, <<>>)
  BY <1>1 DEF Reply, Calls!Reply
<1> QED BY <1>1, <1>6, <1>7, <1>8, <1>9 DEF Calls!Replace

------------------------------------------------------------------------------
(* The theorems. *)

LEMMA FirstTyped == Init => TypeOK
<1> SUFFICES ASSUME Init PROVE TypeOK
  OBVIOUS
<1>1. OFILE_CAP \in Nat /\ 0 \in 0..OFILE_CAP /\ MaxFile \in Nat /\ 0 \in 0..MaxPos
  BY FileAssumption
<1>2. /\ (CHOOSE n \in Name : TRUE) \in Name /\ (CHOOSE b \in Byte : TRUE) \in Byte
  BY FileAssumption
<1>3. /\ used \in [Fd -> BOOLEAN] /\ writable \in [Fd -> BOOLEAN] /\ dirty \in [Fd -> BOOLEAN]
      /\ wild \in BOOLEAN /\ spoilt \in BOOLEAN
  BY DEF Init
<1>4. size \in [Fd -> 0..OFILE_CAP] /\ pos \in [Fd -> 0..MaxPos]
  BY <1>1 DEF Init
<1>5. name \in [Fd -> Name]
  BY <1>2 DEF Init
<1>6. data \in [Fd -> Bytes(OFILE_CAP)]
  <2>1. [i \in 1..OFILE_CAP |-> CHOOSE b \in Byte : TRUE] \in Bytes(OFILE_CAP)
    BY <1>2 DEF Bytes
  <2>2. data \in [Fd -> {[i \in 1..OFILE_CAP |-> CHOOSE b \in Byte : TRUE]}]
    BY DEF Init
  <2> DEFINE z == [i \in 1..OFILE_CAP |-> CHOOSE b \in Byte : TRUE]
  <2> HIDE DEF z
  <2>3. data \in [Fd -> {z}] /\ z \in Bytes(OFILE_CAP)
    BY <2>1, <2>2 DEF z
  <2> QED BY <2>3
<1>7. volume \in [Name -> {{}} \cup {{s} : s \in Contents}]
  BY DEF Init
<1> QED BY <1>3, <1>4, <1>5, <1>6, <1>7 DEF TypeOK

LEMMA FirstMaps == Init => Calls!Init
<1> SUFFICES ASSUME Init PROVE Calls!Init
  OBVIOUS
<1>1. \A fd \in Fd : ~ used[fd]
  BY Zenon DEF Init
<1>2. Sessions = [fd \in Fd |-> {}]
  BY <1>1 DEF Sessions, Session
<1> QED BY <1>2 DEF Init, Calls!Init, Reply, Calls!Reply

\* A call on a sound table is a step of the specification of sessions.
LEMMA OneCall == Calls!Call /\ wild' = wild => Calls!Next
BY Zenon DEF Calls!Next

LEMMA EveryCall ==
  ASSUME TypeOK, Next
  PROVE  TypeOK' /\ Calls!Next
<1>0. /\ OFILE_CAP \in Nat /\ MaxPos \in Nat /\ 1..MaxPos \subseteq 0..MaxPos
      /\ 0..OFILE_CAP \subseteq 0..MaxPos /\ Opened \subseteq Name
  BY FileAssumption
<1>1. ASSUME NEW n \in Opened, NEW creat \in BOOLEAN, NEW wronly \in BOOLEAN,
             NEW trunc \in BOOLEAN, Open(n, creat, wronly, trunc)
      PROVE  TypeOK' /\ Calls!Next
  <2>0. n \in Name
    BY <1>0
  <2>1. /\ TypeOK' /\ wild' = wild
        /\ \E fd \in Fd : Calls!Open(fd, n, creat, wronly, trunc)
    BY <1>1, <2>0, OpenStep, Zenon
  <2>2. Calls!Call
    BY <2>0, <2>1, Zenon DEF Calls!Call
  <2> QED BY <2>1, <2>2, OneCall
<1>2. ASSUME NEW n \in Opened, OpenFails(n)
      PROVE  TypeOK' /\ Calls!Next
  <2>0. n \in Name
    BY <1>0
  <2>1. TypeOK' /\ wild' = wild /\ Calls!Fail
    BY <1>2, <2>0, OpenFailsStep, Zenon
  <2>2. Calls!Call
    BY <2>1, Zenon DEF Calls!Call
  <2> QED BY <2>1, <2>2, OneCall
<1>3. ASSUME NEW n \in Name, Unlink(n) \/ \E s \in ShellFiles : ShellWrite(n, s)
      PROVE  TypeOK' /\ Calls!Next
  <2>1. TypeOK' /\ wild' = wild /\ Calls!Replace(n)
    BY <1>3, ShellStep, Zenon
  <2>2. Calls!Call
    BY <2>1, Zenon DEF Calls!Call
  <2> QED BY <2>1, <2>2, OneCall
<1>4. ASSUME NEW fd \in Fd, NEW b \in Buffers, Write(fd, b)
      PROVE  TypeOK' /\ Calls!Next
  <2>1. TypeOK' /\ wild' = wild /\ Calls!Write(fd, b)
    BY <1>4, WriteStep, Zenon
  <2>2. Calls!Call
    BY <2>1, Zenon DEF Calls!Call
  <2> QED BY <2>1, <2>2, OneCall
<1>5. ASSUME NEW fd \in Fd, NEW n \in 1..MaxPos, Read(fd, n)
      PROVE  TypeOK' /\ Calls!Next
  <2>1. TypeOK' /\ wild' = wild /\ Calls!Read(fd, n)
    BY <1>5, ReadStep, Zenon
  <2>2. n \in 0..MaxPos
    BY <1>0
  <2>3. Calls!Call
    BY <2>1, <2>2, Zenon DEF Calls!Call
  <2> QED BY <2>1, <2>3, OneCall
<1>6. ASSUME NEW fd \in Fd, NEW to \in 0..OFILE_CAP, Lseek(fd, to)
      PROVE  TypeOK' /\ Calls!Next
  <2>1. TypeOK' /\ wild' = wild /\ Calls!Lseek(fd, to)
    BY <1>6, LseekStep, Zenon
  <2>2. to \in 0..MaxPos
    BY <1>0
  <2>3. Calls!Call
    BY <2>1, <2>2, Zenon DEF Calls!Call
  <2> QED BY <2>1, <2>3, OneCall
<1>7. ASSUME NEW fd \in Fd, Close(fd)
      PROVE  TypeOK' /\ Calls!Next
  <2>1. TypeOK' /\ wild' = wild /\ Calls!Close(fd)
    BY <1>7, CloseStep, Zenon
  <2>2. Calls!Call
    BY <2>1, Zenon DEF Calls!Call
  <2> QED BY <2>1, <2>2, OneCall
<1>8. ASSUME CallFails
      PROVE  TypeOK' /\ Calls!Next
  <2>1. TypeOK' /\ wild' = wild /\ Calls!Fail
    BY <1>8, CallFailsStep, Zenon
  <2>2. Calls!Call
    BY <2>1, Zenon DEF Calls!Call
  <2> QED BY <2>1, <2>2, OneCall
<1>9. ASSUME NEW fd \in Fd, WildWrite(fd)
      PROVE  TypeOK' /\ Calls!Next
  <2>1. TypeOK' /\ Calls!WriteBeyond(fd)
    BY <1>9, WildStep, Zenon
  <2> QED BY <2>1, Zenon DEF Calls!Next
<1> QED BY <1>1, <1>2, <1>3, <1>4, <1>5, <1>6, <1>7, <1>8, <1>9, Zenon DEF Next

LEMMA NothingCalled ==
  ASSUME TypeOK, UNCHANGED vars
  PROVE  TypeOK' /\ UNCHANGED <<Calls!files, Sessions, reply, wild>>
<1>1. /\ used' = used /\ writable' = writable /\ dirty' = dirty /\ size' = size
      /\ pos' = pos /\ name' = name /\ data' = data /\ volume' = volume
      /\ spoilt' = spoilt /\ wild' = wild /\ reply' = reply
  BY DEF vars, table, flags, disk
<1>2. TypeOK'
  BY <1>1 DEF TypeOK
<1>3. Sessions' = Sessions
  BY <1>1, NoneChanged DEF Same
<1> QED BY <1>1, <1>2, <1>3 DEF Calls!files

\* syscall.c: no call takes a length out of the buffer before a write is made from a
\* position beyond it, and the slots keep their types through every reuse, whatever
\* becomes of the volume.
THEOREM FileTypes == Spec => []TypeOK
<1>1. TypeOK /\ [Next]_vars => TypeOK'
  BY EveryCall, NothingCalled
<1> QED BY FirstTyped, <1>1, PTL DEF Spec

\* syscall.c, sys_open to sys_close: the descriptors behave as private sessions, whatever
\* the slots held before and whoever shares them, until one is written to from a position
\* that a read past the end took beyond its buffer.
THEOREM SessionsArePrivate == Spec => SessionsPrivate
<1>1. TypeOK /\ [Next]_vars => [Calls!Next]_<<Calls!files, Sessions, reply, wild>>
  BY EveryCall, NothingCalled
<1> QED BY FirstMaps, FileTypes, <1>1, PTL DEF Spec, SessionsPrivate, Calls!Spec
==============================================================================
