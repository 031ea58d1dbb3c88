------------------------------ MODULE OpenFiles ------------------------------
(* What the file system calls promise.  open() starts a session: a private copy of
   the file, as much of it as fits and can be read, with a position.  Reads and writes touch that
   copy only; close() of a changed session replaces the file by the copy and says
   whether that worked.  Nothing is promised about bytes beyond the end of a copy.
   Two things end a promise: a write from a position beyond the capacity (`lost')
   all of them, and a change of the volume that goes wrong (`spoilt') what is said of
   the files, not of the sessions.                                               *)
EXTENDS Naturals, Sequences

CONSTANTS Name, Byte, Fd, Capacity,
          MaxPos,       \* positions and lengths of reads
          Buffers       \* what a write may pass

VARIABLES volume,       \* the files: the contents under each name, {} if none
          session,      \* the session of each descriptor, {} if none
          spoilt, lost,
          reply         \* what the last call returned

files == <<volume, spoilt>>

Bytes(n) == [1..n -> Byte]
Reply(call, num, bytes) == [call |-> call, num |-> num, bytes |-> bytes]
Upto(s, n) == SubSeq(s, 1, IF Len(s) < n THEN Len(s) ELSE n)

Init == /\ volume = [n \in Name |-> {}]
        /\ session = [fd \in Fd |-> {}]
        /\ spoilt = FALSE /\ lost = FALSE
        /\ reply = Reply("none", 0, <<>>)

Start(fd, n, bytes, writable, dirty) ==
  /\ session[fd] = {}
  /\ session' = [session EXCEPT ![fd] =
       {[name |-> n, bytes |-> bytes, pos |-> 0, writable |-> writable, dirty |-> dirty]}]
  /\ UNCHANGED files

\* As much of an existing file as fits and could be read, or nothing; or a new one.
Open(fd, n, creat, wronly, trunc) ==
  /\ reply' = Reply("open", fd, <<>>)
  /\ \/ \E s \in volume[n], k \in 0..Capacity :
          Start(fd, n, IF trunc THEN <<>> ELSE Upto(s, k), wronly \/ creat \/ trunc, trunc)
     \/ /\ volume[n] = {} /\ creat
        /\ Start(fd, n, <<>>, wronly \/ creat \/ trunc, trunc)

\* The bytes from the position on; past the end any, and as many as are asked for.
Read(fd, n) ==
  reply'.call = "read" /\ \E s \in session[fd] :
    LET got == IF s.pos <= Len(s.bytes)
               THEN {SubSeq(s.bytes, s.pos + 1, IF s.pos + n < Len(s.bytes) THEN s.pos + n
                                                ELSE Len(s.bytes))}
               ELSE Bytes(n)
    IN \E b \in got :
         /\ reply' = Reply("read", Len(b), b)
         /\ session' = [session EXCEPT ![fd] = {[s EXCEPT !.pos = @ + Len(b)]}]
         /\ UNCHANGED files

\* As many bytes as fit; a gap before them is filled with anything.
Write(fd, b) ==
  /\ reply' = Reply("write", 0, <<>>)
  /\ UNCHANGED files
  /\ \E s \in session[fd] :
       /\ s.writable /\ s.pos <= Capacity
       /\ LET put  == Upto(b, Capacity - s.pos)
              last == s.pos + Len(put)
          IN \E bytes \in Bytes(IF last > Len(s.bytes) THEN last ELSE Len(s.bytes)) :
               /\ \A i \in 1..Len(bytes) :
                    /\ i \in (s.pos + 1)..last => bytes[i] = put[i - s.pos]
                    /\ i <= Len(s.bytes) /\ i \notin (s.pos + 1)..last
                         => bytes[i] = s.bytes[i]
               /\ session' = [session EXCEPT ![fd] =
                    {[name |-> s.name, bytes |-> bytes, pos |-> last,
                      writable |-> s.writable, dirty |-> TRUE]}]

\* The end of all promises.
WriteBeyond(fd) ==
  /\ \E s \in session[fd] : s.writable /\ s.pos > Capacity
  /\ lost' = TRUE

Lseek(fd, to) ==
  /\ reply' = Reply("lseek", 0, <<>>)
  /\ UNCHANGED files
  /\ \E s \in session[fd] : session' = [session EXCEPT ![fd] = {[s EXCEPT !.pos = to]}]

\* No file changes but n, and n as `made' says, unless something went wrong.
Changed(n, made) == \/ spoilt'
                    \/ ~ spoilt' /\ made /\ \A m \in Name \ {n} : volume'[m] = volume[m]

\* close() returns 0 only if nothing had to be stored or all of it was.
Close(fd) ==
  reply'.call \in {"close", "failed"} /\ \E s \in session[fd] :
    /\ session' = [session EXCEPT ![fd] = {}]
    /\ \/ ~ s.dirty /\ reply' = Reply("close", 0, <<>>) /\ UNCHANGED files
       \/ /\ s.dirty /\ reply' = Reply("close", 0, <<>>)
          /\ Changed(s.name, volume'[s.name] = {s.bytes})
       \/ s.dirty /\ reply' = Reply("failed", 0, <<>>) /\ (spoilt' \/ UNCHANGED files)

\* unlink, and the shell's write, append and rm.
Replace(n) == /\ reply' = Reply("none", 0, <<>>)
              /\ UNCHANGED session
              /\ Changed(n, TRUE)

Fail == reply' = Reply("failed", 0, <<>>) /\ UNCHANGED <<files, session>>

Call == \/ \E fd \in Fd :
             \/ \E n \in Name : \E creat, wronly, trunc \in BOOLEAN :
                  Open(fd, n, creat, wronly, trunc)
             \/ \E n \in 0..MaxPos : Read(fd, n) \/ Lseek(fd, n)
             \/ \E b \in Buffers : Write(fd, b)
             \/ Close(fd)
        \/ \E n \in Name : Replace(n)
        \/ Fail

Next == \/ Call /\ UNCHANGED lost
        \/ \E fd \in Fd : WriteBeyond(fd)
        \/ lost

Spec == Init /\ [][Next]_<<files, session, reply, lost>>
==============================================================================
