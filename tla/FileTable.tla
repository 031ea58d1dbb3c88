------------------------------ MODULE FileTable ------------------------------
(* The open-file table of kernel/syscall.c and the system calls on it.

   The table belongs to the kernel: every process may name every descriptor, and a
   process that exits leaves its descriptors open, so which process calls does not
   matter.  System calls run with interrupts off and are single actions; the shell
   writes and deletes files between them.  A slot keeps its data from one use to
   the next.  The volume is what kernel/fat.c stores: a file's bytes by its name.
   A fat_write that fails leaves the old entry on freed clusters, and fat.c ignores
   what becomes of the table's sectors, so that from then on (`spoilt') storing one
   file may change another (see Fat12).

   sys_read beyond the end reads on into the slots that follow and may leave pos
   beyond data[].  A write from there overwrites those slots: `wild' is set, and
   what the table holds from then on is not modelled.                            *)
EXTENDS Naturals, Sequences

CONSTANTS Name, Byte,
          FD_FIRST_FILE, MAX_OPEN_FILES, OFILE_CAP,
          Sector,               \* bytes of a sector
          MaxFile,              \* the length of the longest file
          MaxPos,               \* bound: reads that would go further are not taken
          Opened,               \* the names processes open
          Buffers, ShellFiles,  \* what processes write; what the shell stores
          Junk                  \* what a file of a spoilt volume may hold

ASSUME FileAssumption ==
  /\ Name # {} /\ Byte # {} /\ Opened \subseteq Name
  /\ FD_FIRST_FILE \in Nat /\ MAX_OPEN_FILES \in Nat
  /\ OFILE_CAP \in Nat /\ Sector \in Nat \ {0} /\ OFILE_CAP % Sector = 0
  /\ MaxFile \in Nat /\ OFILE_CAP <= MaxFile
  /\ MaxPos \in Nat /\ OFILE_CAP <= MaxPos
  /\ Buffers \subseteq UNION {[1..n -> Byte] : n \in 0..MaxFile}
  /\ ShellFiles \subseteq UNION {[1..n -> Byte] : n \in 0..MaxFile}
  /\ Junk \subseteq UNION {[1..n -> Byte] : n \in 0..MaxFile}

VARIABLES used, writable, dirty, size, pos, name, data,     \* ofiles[]
          volume, spoilt, wild,
          reply                                              \* eax, or what read copied

flags == <<used, writable, dirty>>
table == <<flags, size, pos, name, data>>
disk  == <<volume, spoilt>>
vars  == <<table, disk, wild, reply>>

Fd == FD_FIRST_FILE..(MAX_OPEN_FILES - 1)
Bytes(n) == [1..n -> Byte]
Contents == UNION {Bytes(n) : n \in 0..MaxFile}
Upto(s, n) == SubSeq(s, 1, IF Len(s) < n THEN Len(s) ELSE n)
Least(S) == CHOOSE x \in S : \A y \in S : x <= y

Reply(call, num, bytes) == [call |-> call, num |-> num, bytes |-> bytes]
TypeOK ==
  /\ used \in [Fd -> BOOLEAN] /\ writable \in [Fd -> BOOLEAN] /\ dirty \in [Fd -> BOOLEAN]
  /\ size \in [Fd -> 0..OFILE_CAP] /\ pos \in [Fd -> 0..MaxPos]
  /\ name \in [Fd -> Name]
  /\ data \in [Fd -> Bytes(OFILE_CAP)]
  /\ volume \in [Name -> {{}} \cup {{s} : s \in Contents}]
  /\ spoilt \in BOOLEAN /\ wild \in BOOLEAN

Init ==
  /\ used = [fd \in Fd |-> FALSE] /\ writable = used /\ dirty = used
  /\ size = [fd \in Fd |-> 0] /\ pos = size
  /\ name \in [Fd -> {CHOOSE n \in Name : TRUE}]
  /\ data \in [Fd -> {[i \in 1..OFILE_CAP |-> CHOOSE b \in Byte : TRUE]}]
  /\ volume = [n \in Name |-> {}]
  /\ spoilt = FALSE /\ wild = FALSE /\ reply = Reply("none", 0, <<>>)

\* The bytes of the file a descriptor stands for.
Copy(fd) == SubSeq(data[fd], 1, size[fd])

------------------------------------------------------------------------------
Unused == {fd \in Fd : ~ used[fd]}
FirstFd == FD_FIRST_FILE                       \* mutant: hands out a slot in use
AllocFd == Least(Unused)

\* data[] after fat_read copied over it as much of s as fits.
Loaded(old, s) == [i \in 1..OFILE_CAP |-> IF i <= Len(s) THEN s[i] ELSE old[i]]

Fails == /\ reply' = Reply("failed", 0, <<>>)
         /\ UNCHANGED <<table, disk, wild>>
On(fd) == fd \in Fd /\ used[fd] /\ ~ wild

Prefix == {k \in 0..OFILE_CAP : k % Sector = 0}
Parts(n) == {Upto(c, k) : c \in volume[n], k \in Prefix}

\* fat_read into data[]: 1 with the file, or as far as its chain could be followed;
\* 0 if there is no such file, or if a sector could not be read.
FatRead(n) == [found : {TRUE}, bytes : Parts(n)] \cup
              [found : {FALSE}, bytes : IF volume[n] = {} THEN {<<>>} ELSE Parts(n)]

\* sys_open: O_WRONLY, O_CREAT and O_TRUNC all make the descriptor writable.  A file
\* that cannot be read passes for a new one.
Open(n, creat, wronly, trunc) ==
  /\ ~ wild /\ Unused # {}
  /\ \E r \in FatRead(n) :
       /\ r.found \/ creat
       /\ LET fd == AllocFd
          IN /\ data' = [data EXCEPT ![fd] = Loaded(@, r.bytes)]
             /\ used' = [used EXCEPT ![fd] = TRUE]
             /\ writable' = [writable EXCEPT ![fd] = wronly \/ creat \/ trunc]
             /\ dirty' = [dirty EXCEPT ![fd] = trunc]
             /\ size' = [size EXCEPT ![fd] = IF r.found /\ ~ trunc THEN Len(r.bytes) ELSE 0]
             /\ pos' = [pos EXCEPT ![fd] = 0]
             /\ name' = [name EXCEPT ![fd] = n]
             /\ reply' = Reply("open", fd, <<>>)
  /\ UNCHANGED <<disk, wild>>

\* A file that cannot be opened: the free slot keeps what was read.
OpenFails(n) ==
  /\ ~ wild /\ Unused # {}
  /\ \E r \in FatRead(n) : /\ ~ r.found
                           /\ data' = [data EXCEPT ![AllocFd] = Loaded(@, r.bytes)]
  /\ reply' = Reply("failed", 0, <<>>)
  /\ UNCHANGED <<flags, size, pos, name, disk, wild>>

\* No descriptor left, nothing to unlink, a descriptor that is closed or read-only.
CallFails ==
  /\ ~ wild
  /\ Unused = {} \/ (\E n \in Name : volume[n] = {}) \/ (\E fd \in Fd : ~ writable[fd])
  /\ Fails

\* sys_write_file: what does not fit is dropped.
NoRoomTest(fd) == OFILE_CAP                    \* mutant: room for a whole buffer
Room(fd) == OFILE_CAP - pos[fd]
Write(fd, b) ==
  /\ On(fd) /\ writable[fd] /\ pos[fd] <= OFILE_CAP
  /\ LET put == Upto(b, Room(fd))
         end == pos[fd] + Len(put)
     IN /\ data' = [data EXCEPT ![fd] = [i \in DOMAIN @ |->
                      IF i \in (pos[fd] + 1)..end THEN put[i - pos[fd]] ELSE @[i]]]
        /\ pos' = [pos EXCEPT ![fd] = end]
        /\ size' = [size EXCEPT ![fd] = IF end > @ THEN end ELSE @]
        /\ dirty' = [dirty EXCEPT ![fd] = TRUE]
        /\ reply' = Reply("write", 0, <<>>)
  /\ UNCHANGED <<used, writable, name, disk, wild>>

\* From a position beyond data[] the room is a huge unsigned number: the bytes go
\* into the slots behind, and size beyond the buffer.
WildWrite(fd) ==
  /\ On(fd) /\ writable[fd] /\ pos[fd] > OFILE_CAP
  /\ wild' = TRUE
  /\ reply' = Reply("write", 0, <<>>)
  /\ UNCHANGED <<table, disk>>

\* sys_read: size - pos is unsigned, so beyond the end it bounds nothing; what does
\* not come from data[] is whatever lies behind it, the next slots first.
Avail(fd, n) == IF pos[fd] <= size[fd] /\ size[fd] - pos[fd] < n
                THEN size[fd] - pos[fd] ELSE n
Read(fd, n) ==
  /\ On(fd)
  /\ pos[fd] + Avail(fd, n) <= MaxPos
  /\ \E b \in Bytes(Avail(fd, n)) :
       /\ \A i \in DOMAIN b : pos[fd] + i <= OFILE_CAP => b[i] = data[fd][pos[fd] + i]
       /\ pos' = [pos EXCEPT ![fd] = @ + Len(b)]
       /\ reply' = Reply("read", Len(b), b)
  /\ UNCHANGED <<flags, size, name, data, disk, wild>>

\* lseek: SET, CUR and END, clamped to the buffer, reach every position in it.
Lseek(fd, to) ==
  /\ On(fd)
  /\ pos' = [pos EXCEPT ![fd] = to]
  /\ reply' = Reply("lseek", 0, <<>>)
  /\ UNCHANGED <<flags, size, name, data, disk, wild>>

\* fat_write, and what becomes of the volume.  A disk that fills up leaves a new name
\* without a file, and an old one on clusters that are free.
Stored(n, s) == volume' = [volume EXCEPT ![n] = {s}] /\ UNCHANGED spoilt
NoSpace(n)   == \/ volume[n] = {} /\ UNCHANGED disk
                \/ /\ volume[n] # {} /\ spoilt' = TRUE
                   /\ \E left \in volume[n] \cup Junk : volume' = [volume EXCEPT ![n] = {left}]

\* Once that has happened, or when the disk refuses a command, any file may change,
\* whatever fat_write and fat_delete return.
Left(m)         == {volume[m], {}} \cup {{s} : s \in Junk}
Spoiled(n, new) == /\ spoilt' = TRUE
                   /\ \E left \in [Name -> UNION {Left(m) : m \in Name}] :
                        /\ \A m \in Name : left[m] \in Left(m)
                        /\ volume' \in {left} \cup {[left EXCEPT ![n] = {s}] : s \in new}

\* sys_close: the descriptor is gone even if sys_sync could not store it.
Close(fd) ==
  /\ On(fd)
  /\ \/ ~ dirty[fd] /\ UNCHANGED disk /\ reply' = Reply("close", 0, <<>>)
     \/ dirty[fd] /\ Stored(name[fd], Copy(fd)) /\ reply' = Reply("close", 0, <<>>)
     \/ dirty[fd] /\ NoSpace(name[fd]) /\ reply' = Reply("failed", 0, <<>>)
     \/ /\ dirty[fd] /\ Spoiled(name[fd], {Copy(fd)})
        /\ reply' \in {Reply("close", 0, <<>>), Reply("failed", 0, <<>>)}
  /\ used' = [used EXCEPT ![fd] = FALSE]
  /\ writable' = [writable EXCEPT ![fd] = FALSE]
  /\ dirty' = [dirty EXCEPT ![fd] = FALSE]
  /\ UNCHANGED <<size, pos, name, data, wild>>

\* unlink, and rm in the shell: descriptors on the name stay open.
Unlink(n) ==
  /\ ~ wild /\ volume[n] # {}
  /\ \/ volume' = [volume EXCEPT ![n] = {}] /\ UNCHANGED spoilt
     \/ Spoiled(n, {})
  /\ reply' = Reply("none", 0, <<>>)
  /\ UNCHANGED <<table, wild>>

\* write and append in the shell.
ShellWrite(n, s) ==
  /\ ~ wild
  /\ Stored(n, s) \/ NoSpace(n) \/ Spoiled(n, {s})
  /\ reply' = Reply("none", 0, <<>>)
  /\ UNCHANGED <<table, wild>>

Next == \/ \E n \in Opened : \/ \E creat, wronly, trunc \in BOOLEAN :
                                  Open(n, creat, wronly, trunc)
                             \/ OpenFails(n)
        \/ \E n \in Name : \/ Unlink(n)
                           \/ \E s \in ShellFiles : ShellWrite(n, s)
        \/ \E fd \in Fd : \/ \E b \in Buffers : Write(fd, b)
                          \/ WildWrite(fd)
                          \/ \E n \in 1..MaxPos : Read(fd, n)
                          \/ \E to \in 0..OFILE_CAP : Lseek(fd, to)
                          \/ Close(fd)
        \/ CallFails

Spec == Init /\ [][Next]_vars

------------------------------------------------------------------------------
(* Properties. *)

\* The slots behave as private copies, although they are reused with their old
\* bytes and shared by all processes: no call on one descriptor changes the bytes,
\* the position or the flags of another, a read below the end returns what was stored
\* or written, and close() says 0 only when the file holds the copy and no other file
\* changed.  The first holds until a write is made from a position beyond the buffer,
\* where only a read past the end leads; the last until the disk refuses a command or
\* is too full for a rewrite.  A read past the end may show what others hold.
Session(fd) ==
  IF used[fd] THEN {[name |-> name[fd], bytes |-> Copy(fd),
                     pos |-> pos[fd], writable |-> writable[fd], dirty |-> dirty[fd]]}
  ELSE {}
Sessions == [fd \in Fd |-> Session(fd)]
Calls == INSTANCE OpenFiles WITH Capacity <- OFILE_CAP, session <- Sessions, lost <- wild
SessionsPrivate == Calls!Spec
==============================================================================
