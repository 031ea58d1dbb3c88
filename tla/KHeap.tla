-------------------------------- MODULE KHeap --------------------------------
(* The kernel heap, kernel/kheap.c: first-fit over a list of blocks, each a header
   followed by its payload.

   A call is one action, but for the loop of kfree that joins the freed block with
   the free ones after it: each turn is an action, and no other call comes between
   (the module says nothing of a kmalloc that preempts another one).  Callers give
   back what they were given, once.  A refused request changes nothing.           *)
EXTENDS Integers, Sequences, SequencesExt

CONSTANTS HEAP_START, HEAP_END,
          Header,                   \* sizeof(block_t): 12
          Align,                    \* 8
          Request                   \* the sizes callers ask for

ASSUME KHeapAssumption ==
  /\ HEAP_START \in Nat /\ HEAP_END \in Nat
  /\ Header \in Nat \ {0} /\ Align \in Nat \ {0}
  /\ HEAP_START + Header <= HEAP_END
  /\ Request \subseteq Nat

VARIABLES list,             \* the blocks from heap_head on
          joining,          \* the place of the block kfree is joining, or 0
          live,             \* history: what callers hold
          order, lifo       \* history: the order they got it in; given back in reverse

vars == <<list, joining, live, order, lifo>>

Block == [at : HEAP_START..HEAP_END, size : 0..(HEAP_END - HEAP_START), free : BOOLEAN]
Allocation == [ptr : HEAP_START..HEAP_END, size : Request]

TypeOK ==
  /\ list \in Seq(Block) /\ list # <<>>
  /\ joining \in 0..Len(list)
  /\ live \subseteq Allocation
  /\ order \in Seq(HEAP_START..HEAP_END) /\ lifo \in BOOLEAN

Payload(b) == b.at + Header
After(b)   == b.at + Header + b.size

\* kheap_init
Init ==
  /\ list = <<[at |-> HEAP_START, size |-> HEAP_END - HEAP_START - Header, free |-> TRUE]>>
  /\ joining = 0 /\ live = {} /\ order = <<>> /\ lifo = TRUE

------------------------------------------------------------------------------
(* kmalloc *)

\* size rounded up to the alignment, 0 taken for the least.
Rounded(n) == IF n = 0 THEN Align ELSE ((n + Align - 1) \div Align) * Align

UsedToo(i, need) == list[i].size >= need               \* mutants
AnySize(i, need) == list[i].free
Fits(i, need) == list[i].free /\ list[i].size >= need

\* heap_split: the remainder becomes a block of its own if it is worth a header.
AlwaysSplit(i, need) ==                               \* mutant: any remainder
  LET b == list[i]
  IN  InsertAt([list EXCEPT ![i] = [b EXCEPT !.size = need, !.free = FALSE]], i + 1,
               [at |-> Payload(b) + need, size |-> b.size - need - Header, free |-> TRUE])
Taken(i, need) ==
  LET b == list[i]
  IN  IF b.size - need <= Header + Align THEN [list EXCEPT ![i].free = FALSE]
      ELSE InsertAt([list EXCEPT ![i] = [b EXCEPT !.size = need, !.free = FALSE]], i + 1,
                    [at |-> Payload(b) + need, size |-> b.size - need - Header, free |-> TRUE])

Kmalloc(n) ==
  /\ joining = 0
  /\ \E i \in DOMAIN list :
       /\ Fits(i, Rounded(n)) /\ \A j \in 1..(i - 1) : ~ Fits(j, Rounded(n))
       /\ list' = Taken(i, Rounded(n))
       /\ live' = live \cup {[ptr |-> Payload(list[i]), size |-> n]}
       /\ order' = (IF lifo THEN Append(order, Payload(list[i])) ELSE <<>>)
  /\ UNCHANGED <<joining, lifo>>

------------------------------------------------------------------------------
(* kfree *)

Kfree(m) ==
  /\ joining = 0
  /\ \E i \in DOMAIN list :
       /\ Payload(list[i]) = m.ptr
       /\ list' = [list EXCEPT ![i].free = TRUE]
       /\ joining' = i
  /\ live' = live \ {m}
  /\ lifo' = (lifo /\ order # <<>> /\ m.ptr = order[Len(order)])
  /\ order' = (IF lifo' THEN Front(order) ELSE <<>>)

NeverJoins == FALSE                                   \* mutant
JoinsNext  == joining < Len(list) /\ list[joining + 1].free

\* The next block becomes part of this one, header and all.
PayloadOnly(i) ==                                     \* mutant: loses the header
  RemoveAt([list EXCEPT ![i].size = @ + list[i + 1].size], i + 1)
Joined(i) ==
  RemoveAt([list EXCEPT ![i].size = @ + Header + list[i + 1].size], i + 1)

Join == /\ joining # 0 /\ JoinsNext
        /\ list' = Joined(joining)
        /\ UNCHANGED <<joining, live, order, lifo>>

FreeDone == /\ joining # 0 /\ ~ JoinsNext
            /\ joining' = 0
            /\ UNCHANGED <<list, live, order, lifo>>

Next == \/ \E n \in Request : Kmalloc(n)
        \/ \E m \in live : Kfree(m)
        \/ Join \/ FreeDone

Spec == Init /\ [][Next]_vars

------------------------------------------------------------------------------
(* Properties. *)

\* Blocks follow each other without gap or overlap from one end of the heap to the
\* other, through every split and join.
Tiled ==
  /\ list[1].at = HEAP_START
  /\ \A i \in 1..(Len(list) - 1) : After(list[i]) = list[i + 1].at
  /\ After(list[Len(list)]) = HEAP_END

\* The blocks in use are those somebody holds, large enough for what was asked: no
\* block is lost, and none is free while its caller still has it.
InUseIsHeld ==
  /\ \A m \in live : \E i \in DOMAIN list :
       ~ list[i].free /\ Payload(list[i]) = m.ptr /\ m.size <= list[i].size
  /\ \A i \in DOMAIN list : list[i].free \/ \E m \in live : m.ptr = Payload(list[i])

\* Blocks are joined only with the ones after them, which is enough for callers that
\* give back in reverse order: when they hold nothing, the heap is whole again.  (In
\* another order it need not be.)
WholeAgain == lifo /\ live = {} /\ joining = 0 => Len(list) = 1

\* The heap implements an allocator of disjoint pieces.
Pieces == INSTANCE Allocator
DisjointPieces == Pieces!Spec
==============================================================================
