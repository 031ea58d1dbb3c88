---------------------------- MODULE PrivateMemory ----------------------------
(* What the memory system promises to ring-3 processes: "the user window
   0x200000-0x2FFFFF is private to each process" (kernel/paging.c, header).
   A process is a slot of the task table; its memory is a function from the
   pages of the window to a value or to NoPage.  Nothing here knows of frames,
   page tables, sharing or copy-on-write.                                     *)
CONSTANTS Slot,     \* the process slots of the task table
          Page,     \* the pages of the user window
          Value,    \* what a page may hold
          NoPage    \* marks a page that is not mapped

VARIABLES alive, mem
vars == <<alive, mem>>

Memory == [Page -> Value \cup {NoPage}]
Blank  == [p \in Page |-> NoPage]

Init == alive = {} /\ mem = [s \in Slot |-> Blank]

\* A new process starts with some memory of its own.
Spawn(s) == /\ s \notin alive
            /\ alive' = alive \cup {s}
            /\ mem'[s] \in Memory
            /\ mem' = [mem EXCEPT ![s] = mem'[s]]

\* fork: the child starts with exactly what the parent holds at that moment.
Fork(p, c) == /\ p \in alive /\ c \notin alive
              /\ alive' = alive \cup {c}
              /\ mem' = [mem EXCEPT ![c] = mem[p]]

\* A store changes one page of one process and nothing else.
Store(s, p, v) == /\ s \in alive /\ mem[s][p] # NoPage
                  /\ mem' = [mem EXCEPT ![s][p] = v]
                  /\ UNCHANGED alive

Exit(s) == /\ s \in alive
           /\ alive' = alive \ {s}
           /\ mem' = [mem EXCEPT ![s] = Blank]

Next == \/ \E s \in Slot : Spawn(s) \/ Exit(s)
        \/ \E p, c \in Slot : Fork(p, c)
        \/ \E s \in Slot, p \in Page, v \in Value : Store(s, p, v)

Spec == Init /\ [][Next]_vars
==============================================================================
