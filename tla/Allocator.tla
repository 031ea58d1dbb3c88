------------------------------ MODULE Allocator ------------------------------
(* What a caller of kmalloc may rely on: the bytes it asked for lie in the heap and
   belong to nobody else until it gives them back.                               *)
EXTENDS Integers

CONSTANTS HEAP_START, HEAP_END, Request

VARIABLE live             \* the allocations: where they start and how many bytes

Apart(m, n) == m.ptr + m.size <= n.ptr \/ n.ptr + n.size <= m.ptr

Init == live = {}

Malloc == \E ptr \in HEAP_START..HEAP_END, size \in Request :
            LET m == [ptr |-> ptr, size |-> size]
            IN  /\ ptr + size <= HEAP_END
                /\ \A n \in live : n.ptr # ptr /\ Apart(m, n)
                /\ live' = live \cup {m}

Free == \E m \in live : live' = live \ {m}

Next == Malloc \/ Free

Spec == Init /\ [][Next]_live
==============================================================================
