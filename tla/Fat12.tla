-------------------------------- MODULE Fat12 --------------------------------
(* The FAT12 volume: kernel/fat.c on the sectors kernel/ata.c reads and writes.

   fat_write and fat_delete run one at a time, one action per sector they write.
   Between two writes the machine may stop; it restarts with fat_mount, which
   repairs nothing.  A read or a write may fail.  Names are normalised 8.3 names.
   A cluster is one sector, as on the disk tools/mkdata.py makes, and holds Zero or
   a block of the file it was written for; lengths count clusters.  The two FAT
   copies are bytes; an entry that straddles two sectors is written in two steps.  *)
EXTENDS FatEntry, FiniteSets

CONSTANTS Name,
          LastCluster,      \* clusters are 2..LastCluster
          DirSlots,         \* root directory entries
          MaxLen,           \* bound: clusters of a file
          MaxFaults,        \* bound: failed disk commands
          MaxCrashes,       \* bound: restarts
          NoName, Zero      \* the name of no file, the content of a zeroed cluster

FREE     == 0
RESERVED == Base * Base * Base - Base  \* 0x0FF0: chains are followed below it
EOC      == Base * Base * Base - 1     \* 0x0FFF, and what fat_get returns on an error

\* data_clusters_max counts the sectors of a floppy: fewer than the 12-bit values.
ASSUME FatAssumption ==
  /\ LastCluster \in Nat /\ LastCluster > 1 /\ LastCluster < RESERVED
  /\ DirSlots \in Nat /\ MaxLen \in Nat
  /\ MaxFaults \in Nat /\ MaxCrashes \in Nat
  /\ NoName \notin Name /\ Zero \notin Name

Cluster == 2..LastCluster
Beyond  == (LastCluster + 1)..(RESERVED - 1)  \* followed, but not on the disk
FatByte == Offset(2)..(Offset(LastCluster) + 1)
Slot    == 1..DirSlots
Copy    == 1..2                    \* the FAT copies; copy 1 is the one read

VARIABLES
  fat,        \* fat[k]: the bytes of copy k
  dir,        \* the root directory
  data,       \* the contents of the clusters
  op,         \* the operation in progress
  faults, crashes,
  torn,       \* history: entries of which copy 1 has only the first byte
  astray,     \* history: a chain was followed off the disk
  written,    \* history: the length last stored under each name; {} if none
  clean       \* history: no operation failed half-way and nothing was interrupted

disk == <<fat, dir, data>>
vars == <<disk, op, faults, crashes, torn, astray, written, clean>>

Entry == [kind : {"end", "deleted"}, name : {NoName}, head : {FREE}, len : {0}]
         \cup [kind : {"file"}, name : Name \cup {NoName}, head : Value, len : 0..MaxLen]
End     == [kind |-> "end", name |-> NoName, head |-> FREE, len |-> 0]
Deleted == [End EXCEPT !.kind = "deleted"]
File(n, first, len) == [kind |-> "file", name |-> n, head |-> first, len |-> len]

\* The locals of fat_write, fat_delete and fat_free_chain: the directory slot, the
\* first and the previous cluster, the cluster at hand and the next one, how many
\* are done, and where a fat_free_chain in progress returns to.  Those of fat_set: the
\* entry and its new value, the copy and the byte to write, and who called.
NoSet == [c |-> FREE, value |-> FREE, copy |-> 1, byte |-> 1, for |-> "none"]
Idle == [pc |-> "idle", name |-> NoName, len |-> 0, slot |-> 0, first |-> FREE,
         prev |-> FREE, c |-> FREE, next |-> FREE, done |-> 0, then |-> "return",
         set |-> NoSet]

Pc == {"idle", "free", "set", "alloc", "zero", "stream", "entry", "remove"}
Setting == [c : Cluster, value : Value, copy : Copy, byte : 1..2, for : {"free", "mark", "link"}]

TypeOK ==
  /\ fat \in [Copy -> [FatByte -> Byte]]
  /\ dir \in [Slot -> Entry]
  /\ data \in [Cluster -> Name \cup {Zero}]
  /\ op \in [pc : Pc, name : Name \cup {NoName}, len : 0..MaxLen, slot : Slot \cup {0},
             first : Value, prev : Value, c : Value, next : Value, done : 0..MaxLen,
             then : {"alloc", "return"}, set : Setting \cup {NoSet}]
  /\ op.pc = "free" => op.c \in Cluster \cup Beyond
  /\ op.pc = "zero" => op.c \in Cluster
  /\ op.pc = "set" <=> op.set # NoSet
  /\ torn \subseteq Cluster /\ astray \in BOOLEAN
  /\ faults \in 0..MaxFaults /\ crashes \in 0..MaxCrashes
  /\ written \in [Name -> SUBSET (0..MaxLen)] /\ clean \in BOOLEAN

------------------------------------------------------------------------------
(* The directory and the FAT, as they are read. *)

\* Directory scans stop at the first entry never used.
Scanned == {s \in Slot : \A t \in 1..s : dir[t].kind # "end"}
Matches(n) == {s \in Scanned : dir[s].kind = "file" /\ dir[s].name = n}
Unused  == {s \in Slot : dir[s].kind # "file"}
Least(S) == CHOOSE x \in S : \A y \in S : x <= y

Exists(n) == Matches(n) # {}
FirstGap(n) ==                     \* mutant: takes the first gap before looking on
  IF Unused # {} THEN Least(Unused) ELSE Least(Matches(n))
FindSlot(n) == IF Exists(n) THEN Least(Matches(n)) ELSE Least(Unused)

FatGet(c) == Get(fat[1], c)
NotLinked == {c \in Cluster : FatGet(c) \in {FREE, EOC}}   \* mutant: ends count as free
FreeClusters == {c \in Cluster : FatGet(c) = FREE}

\* The clusters of a chain: the n-th of the chain from each head, and all of them.
Walk[n \in 0..LastCluster] ==
  [head \in Value |->
     IF n = 0 THEN head
     ELSE LET c == Walk[n - 1][head] IN IF c \in Cluster THEN FatGet(c) ELSE c]
Nth(head, n) == Walk[n][head]
Chain(head) == {Nth(head, n) : n \in 0..LastCluster} \cap Cluster

Init ==
  /\ fat = [k \in Copy |-> [b \in FatByte |-> [lo |-> 0, hi |-> 0]]]
  /\ dir = [s \in Slot |-> End]
  /\ data = [c \in Cluster |-> Zero]
  /\ op = Idle
  /\ faults = 0 /\ crashes = 0 /\ torn = {} /\ astray = FALSE
  /\ written = [n \in Name |-> {}]
  /\ clean = TRUE

------------------------------------------------------------------------------
(* A step is one sector written; Fails is a disk command that returns an error and
   leaves the sector as it was.  Failed reads that make an operation return before
   it changed anything, or skip a free cluster, are left out.                   *)

Works == UNCHANGED <<faults, crashes, torn, astray, written, clean>>
Failed == /\ faults < MaxFaults /\ faults' = faults + 1
          /\ clean' = FALSE
          /\ UNCHANGED <<crashes, torn, written>>
Fault == Failed /\ UNCHANGED astray
Fails == Fault /\ UNCHANGED disk

Fill(c, v) == data' = [data EXCEPT ![c] = v] /\ UNCHANGED <<fat, dir>>
At(pc) == op.pc = pc

\* fat_free_chain from cluster c, then on with `then'.
FreeChain(o, c, then) ==
  IF c \in Cluster \cup Beyond THEN [o EXCEPT !.pc = "free", !.c = c, !.then = then]
  ELSE IF then = "return" THEN Idle
  ELSE [o EXCEPT !.pc = IF o.len > 0 THEN "alloc" ELSE "entry", !.c = FREE, !.next = FREE]

NoUnwind(o) == Idle                                  \* mutant: keeps the clusters
GiveUp(o)   == FreeChain(o, o.first, "return")

\* One more cluster allocated and linked: the next, or the payload.
OneTooMany(o) == [o EXCEPT !.first = IF @ = FREE THEN o.c ELSE @,   \* mutant: <=
                           !.prev = o.c, !.done = @ + 1,
                           !.pc = IF o.done <= o.len THEN "alloc" ELSE "stream"]
Linked(o) ==
  LET n == [o EXCEPT !.first = IF @ = FREE THEN o.c ELSE @, !.prev = o.c, !.done = @ + 1]
  IN  IF n.done < n.len THEN [n EXCEPT !.pc = "alloc"]
      ELSE [n EXCEPT !.pc = "stream", !.c = n.first, !.done = 0]

------------------------------------------------------------------------------
(* fat_set: both copies of an entry, a sector at a time. *)

FatSet(o, c, v, caller) ==
  [o EXCEPT !.pc = "set", !.set = [c |-> c, value |-> v, copy |-> 1, byte |-> 1, for |-> caller]]

\* Back in the caller: only fat_alloc_cluster looks at the result.
Returns(ok) ==
  LET o == [op EXCEPT !.set = NoSet]
  IN  CASE op.set.for = "free" -> FreeChain(o, o.next, o.then)
        [] op.set.for = "link" -> Linked(o)
        [] op.set.for = "mark" -> IF ok THEN [o EXCEPT !.pc = "zero"] ELSE GiveUp(o)

\* The entry's bytes in the sector at hand: both, or the one that lies in it.
Patched(F, w) ==
  IF ~ Straddles(w.c) THEN PutSecond(PutFirst(F, w.c, w.value), w.c, w.value)
  ELSE IF w.byte = 1 THEN PutFirst(F, w.c, w.value)
  ELSE PutSecond(F, w.c, w.value)

OneCopy(w) == 2                                      \* mutant: copy 2 is forgotten
LastCopy(w) == w.copy

SectorDone(w) ==
  IF Straddles(w.c) /\ w.byte = 1 THEN [op EXCEPT !.set.byte = 2]
  ELSE IF LastCopy(w) = 1 THEN [op EXCEPT !.set.byte = 1, !.set.copy = 2]
  ELSE Returns(TRUE)

SetSector ==
  /\ op.pc = "set"
  /\ LET w == op.set
     IN \/ /\ fat' = [fat EXCEPT ![w.copy] = Patched(@, w)]
           /\ op' = SectorDone(w)
           /\ torn' = (IF w.copy = 2 THEN torn
                       ELSE IF Straddles(w.c) /\ w.byte = 1 THEN torn \cup {w.c}
                       ELSE torn \ {w.c})
           /\ UNCHANGED <<dir, data, faults, crashes, astray, written, clean>>
        \/ Fails /\ op' = Returns(FALSE)

------------------------------------------------------------------------------
(* fat_write and fat_delete. *)

StartWrite(n, len) ==
  /\ At("idle") /\ (Exists(n) \/ Unused # {})
  /\ LET s == FindSlot(n)
         o == [Idle EXCEPT !.name = n, !.len = len, !.slot = s]
     IN  op' = FreeChain(o, IF Exists(n) THEN dir[s].head ELSE FREE, "alloc")
  /\ UNCHANGED disk /\ Works

\* No entry of that name and no gap: fat_write returns at once.
DirectoryFull(n) ==
  At("idle") /\ ~ Exists(n) /\ Unused = {} /\ UNCHANGED vars

StartDelete(n) ==
  /\ At("idle") /\ Exists(n)
  /\ op' = [Idle EXCEPT !.pc = "remove", !.name = n, !.slot = FindSlot(n),
                        !.c = dir[FindSlot(n)].head]
  /\ UNCHANGED disk /\ Works

Remove ==
  /\ At("remove")
  /\ \/ /\ dir' = [dir EXCEPT ![op.slot] = Deleted]
        /\ written' = [written EXCEPT ![op.name] = {}]
        /\ op' = FreeChain(op, op.c, "return")
        /\ UNCHANGED <<fat, data, faults, crashes, torn, astray, clean>>
     \/ Fails /\ op' = Idle

\* fat_get of the next cluster; if that fails the chain seems to end here.
FreeNext ==
  /\ At("free") /\ op.c \in Cluster
  /\ UNCHANGED disk
  /\ \/ Works /\ op' = FatSet([op EXCEPT !.next = FatGet(op.c)], op.c, FREE, "free")
     \/ Fault /\ op' = FatSet([op EXCEPT !.next = EOC], op.c, FREE, "free")

\* fat_free_chain off the disk, where a torn entry leads.  Past the last entry of
\* copy 1 fat_get reads copy 2, or the unused entries between; fat_set's first pass
\* clears an entry of copy 2, or half of it, its second three half bytes of the root
\* directory: an entry's first byte or a part of it, of its name, cluster or length.
Elsewhere == {FREE, EOC} \cup {Get(fat[2], c) : c \in Cluster}
Cleared(v) == {Joined(l, m, h) : l \in {0, Low(v)}, m \in {0, Mid(v)}, h \in {0, High(v)}}
Damaged(e) ==
  {e, End}
  \cup (IF e.kind = "end" THEN {} ELSE {File(NoName, FREE, 0)})
  \cup (IF e.kind # "file" THEN {} ELSE
          {File(n, e.head, e.len) : n \in Name \cup {NoName}}
          \cup {File(e.name, h, len) : h \in Cleared(e.head), len \in 0..e.len})
Wiped(F, c) == {PutFirst(F, c, FREE), PutSecond(PutFirst(F, c, FREE), c, FREE)}

Stray ==
  /\ At("free") /\ op.c \in Beyond
  /\ astray' = TRUE
  /\ \E next \in Elsewhere : op' = FreeChain(op, next, op.then)
  /\ \/ fat' = fat
     \/ \E c \in Cluster : \E F \in Wiped(fat[2], c) : fat' = [fat EXCEPT ![2] = F]
  /\ \E s \in Slot : \E e \in Damaged(dir[s]) : dir' = [dir EXCEPT ![s] = e]
  /\ UNCHANGED data
  /\ Failed \/ UNCHANGED <<faults, crashes, torn, written, clean>>

\* fat_alloc_cluster: mark the first free cluster, zero it.
Allocate ==
  /\ At("alloc") /\ FreeClusters # {}
  /\ LET c == Least(FreeClusters) IN op' = FatSet([op EXCEPT !.c = c], c, EOC, "mark")
  /\ UNCHANGED disk /\ Works

\* Out of space: what was allocated is unwound, what was freed is not.
NoSpace ==
  /\ At("alloc") /\ FreeClusters = {}
  /\ op' = GiveUp(op)
  /\ clean' = (clean /\ dir[op.slot].kind # "file")
  /\ UNCHANGED <<disk, faults, crashes, torn, astray, written>>

ZeroCluster ==
  /\ At("zero")
  /\ \/ /\ Fill(op.c, Zero) /\ Works
        /\ op' = IF op.prev = FREE THEN Linked(op) ELSE FatSet(op, op.prev, op.c, "link")
     \/ Fails /\ op' = GiveUp(op)

\* The payload, a cluster at a time, until the chain is used up: the entry is written
\* all the same.  A write past the disk is refused, which the FLUSH CACHE that follows
\* it may hide.
Payload(c) == [op EXCEPT !.c = c, !.done = op.done + 1,
                         !.pc = IF c >= 2 /\ op.done + 1 < op.len THEN "stream" ELSE "entry"]
Stream ==
  /\ At("stream")
  /\ \/ /\ op.c \in Cluster /\ Fill(op.c, op.name) /\ Works
        /\ op' = Payload(FatGet(op.c))
     \/ /\ op.c \in Cluster /\ Fill(op.c, op.name) /\ Fault
        /\ op.done + 1 < op.len /\ op' = Payload(EOC)
     \/ op.c \in Cluster /\ Fails /\ op' = GiveUp(op)
     \/ op.c \notin Cluster /\ UNCHANGED disk /\ Works /\ op' = GiveUp(op)
     \/ /\ op.c \notin Cluster /\ UNCHANGED disk /\ Works
        /\ \E next \in Elsewhere : op' = Payload(next)

\* The directory entry comes last; if it cannot be written the chain is lost.
WriteEntry ==
  /\ At("entry")
  /\ \/ /\ dir' = [dir EXCEPT ![op.slot] = File(op.name, op.first, op.len)]
        /\ written' = [written EXCEPT ![op.name] = {op.len}]
        /\ UNCHANGED <<fat, data, faults, crashes, torn, astray, clean>>
     \/ Fails
  /\ op' = Idle

\* Power off or reset, then fat_mount.
Crash == /\ ~ At("idle") /\ crashes < MaxCrashes
         /\ crashes' = crashes + 1
         /\ op' = Idle /\ clean' = FALSE
         /\ UNCHANGED <<disk, faults, torn, astray, written>>

Next == \/ \E n \in Name : \/ StartDelete(n) \/ DirectoryFull(n)
                          \/ \E len \in 0..MaxLen : StartWrite(n, len)
        \/ SetSector
        \/ Remove \/ FreeNext \/ Stray \/ Allocate \/ NoSpace \/ ZeroCluster
        \/ Stream \/ WriteEntry
        \/ Crash

Spec == Init /\ [][Next]_vars

------------------------------------------------------------------------------
(* Properties. *)

\* A chain runs into itself only through an entry of which one byte was written and
\* the other not, whatever fails or is interrupted and although chains may come to
\* share clusters: nothing else needs the 65536-step guards of fat_read and
\* fat_free_chain.
ChainsAcyclic ==
  \A c \in Cluster : Nth(c, LastCluster) \in Cluster => Chain(c) \cap torn # {}

\* While nothing failed, a used cluster belongs to a file: no operation leaks,
\* not even one that runs out of space.
NoLostClusters ==
  At("idle") /\ faults = 0 /\ crashes = 0 =>
    Cluster \ FreeClusters
      \subseteq UNION {Chain(dir[s].head) : s \in {t \in Slot : dir[t].kind = "file"}}

\* "every update is applied to all of them": the FAT copies differ in one cluster
\* at most for each command that failed, each restart and the update in progress,
\* until a chain is followed off the disk.
Differ == {c \in Cluster : FatGet(c) # Get(fat[2], c)}
CopiesAgree ==
  ~ astray => Cardinality(Differ) <= faults + crashes + (IF At("set") THEN 1 ELSE 0)

\* Each file entry is the one a search for its name finds: no name occurs twice and
\* none hides behind the end of the directory, through deletions, reused gaps,
\* failures and restarts, until a chain is followed off the disk.
EntriesFound ==
  ~ astray => \A s \in Slot : dir[s].kind = "file" =>
    Exists(dir[s].name) /\ FindSlot(dir[s].name) = s /\ s \in Scanned

\* Only an entry that one byte of was written leads off the disk, where freeing a
\* chain writes over the second FAT copy and the root directory: without a failed
\* command or a restart fat_free_chain never gets there.
OnTheDisk ==
  /\ \A c \in Cluster : FatGet(c) \in Beyond => c \in torn
  /\ faults = 0 /\ crashes = 0 => ~ astray

\* A file reads back as it was last written, as long as no operation broke off.
ReadsBack(n) ==
  LET e == dir[FindSlot(n)]
  IN  /\ {e.len} = written[n]
      /\ \A i \in 1..e.len :
           Nth(e.head, i - 1) \in Cluster /\ data[Nth(e.head, i - 1)] = n
WritesLast ==
  clean /\ At("idle") =>
    \A n \in Name : IF Exists(n) THEN ReadsBack(n) ELSE written[n] = {}

\* A file's chain is allocated as long as the file is in the directory.
HeadsAllocated ==
  At("idle") /\ faults = 0 /\ crashes = 0 =>
    \A s \in Slot : dir[s].kind = "file" /\ dir[s].len > 0 =>
      FatGet(dir[s].head) # FREE
==============================================================================
