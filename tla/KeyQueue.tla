------------------------------ MODULE KeyQueue -------------------------------
(* What the keyboard driver promises the task that reads it: a bounded queue of
   key codes.  Codes come out once, in the order they went in; one that is offered
   is dropped only when the queue is full, or short of full by the one code that
   is just being taken.                                                        *)
EXTENDS Naturals, Sequences

CONSTANTS Capacity, Code

VARIABLES queue, taken,     \* the last code taken out
          offered           \* how many codes were put in or dropped

Init == queue = <<>> /\ taken = 0 /\ offered = 0

Put(c) == /\ offered' = offered + 1
          /\ \/ Len(queue) < Capacity /\ queue' = Append(queue, c)
             \/ Len(queue) + 1 >= Capacity /\ UNCHANGED queue
          /\ UNCHANGED taken

Take == /\ queue # <<>>
        /\ taken' = Head(queue)
        /\ queue' = Tail(queue)
        /\ UNCHANGED offered

\* The reader may get a byte from the serial line instead.
TakeOther == \E c \in Code : taken' = c /\ UNCHANGED <<queue, offered>>

Next == Take \/ TakeOther \/ \E c \in Code : Put(c)

Spec == Init /\ [][Next]_<<queue, taken, offered>>
==============================================================================
