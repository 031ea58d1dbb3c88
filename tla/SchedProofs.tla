----------------------------- MODULE SchedProofs -----------------------------
(* Theorems about Sched, for every number of tasks, heap blocks, pids and program
   points, and with or without ticks inside task_create_user.                   *)
EXTENDS Sched, FiniteSetTheorems, WellFoundedInduction, TLAPS

------------------------------------------------------------------------------
(* First-fit, and the circular scan. *)

\* A non-empty set of naturals has a least element, and Lowest is it.
LEMMA LowestIn ==
  ASSUME NEW S \in SUBSET Nat, S # {}
  PROVE  Lowest(S) \in S
<1> DEFINE Below == {0..(n-1) : n \in S}
<1>1. Below \subseteq FiniteSubsetsOf(Nat) /\ Below # {}
  <2>1. ASSUME NEW n \in S PROVE 0..(n-1) \in SUBSET Nat /\ IsFiniteSet(0..(n-1))
    <3>1. 0 \in Int /\ n-1 \in Int /\ 0..(n-1) \in SUBSET Nat
      OBVIOUS
    <3> QED
      BY <3>1, FS_Interval
  <2> QED
    BY <2>1, Zenon DEF FiniteSubsetsOf
<1>2. PICK x \in Below : \A y \in Below : ~ (<<y, x>> \in StrictSubsetOrdering(Nat))
  <2>1. IsWellFoundedOn(StrictSubsetOrdering(Nat), FiniteSubsetsOf(Nat))
    BY FS_StrictSubsetOrderingWellFounded
  <2> HIDE DEF Below
  <2> QED
    BY <1>1, <2>1, WFMin
<1>3. PICK n \in S : x = 0..(n-1)
  OBVIOUS
<1>4. ASSUME NEW m \in S PROVE n <= m
  <2>1. ~ (<<0..(m-1), 0..(n-1)>> \in StrictSubsetOrdering(Nat))
    BY <1>2, <1>3
  <2>2. CASE m < n
    <3>1. 0..(m-1) \subseteq 0..(n-1) /\ m \in 0..(n-1) /\ m \notin 0..(m-1)
      BY <2>2
    <3>2. 0..(m-1) \in SUBSET Nat /\ 0..(n-1) \in SUBSET Nat
      OBVIOUS
    <3> QED
      BY <2>1, <3>1, <3>2 DEF StrictSubsetOrdering
  <2> QED
    BY <2>2
<1> QED
  BY <1>4 DEF Lowest

\* One round of the table: the remainder after adding less than a whole round.
LEMMA OneRound ==
  ASSUME NEW n \in Nat \ {0}, NEW c \in 0..(n-1), NEW i \in 1..n
  PROVE  ((c + i) % n) = (IF c + i < n THEN c + i ELSE c + i - n)
  OBVIOUS

LEMMA WholeRound ==
  ASSUME NEW n \in Nat \ {0}, NEW c \in 0..(n-1)
  PROVE  ((c + n) % n) = c
  OBVIOUS

\* The blocks kmalloc returns are free, and two in a row are different.
LEMMA FreshBlocks ==
  /\ FreeBlocks # {} => Lowest(FreeBlocks) \in Block \ heap
  /\ FreeBlocks \ {Lowest(FreeBlocks)} # {} =>
       /\ Lowest(FreeBlocks \ {Lowest(FreeBlocks)}) \in Block \ heap
       /\ Lowest(FreeBlocks \ {Lowest(FreeBlocks)}) # Lowest(FreeBlocks)
<1>1. FreeBlocks \in SUBSET Nat
  BY SchedAssumption DEF FreeBlocks, Block
<1>2. FreeBlocks \ {Lowest(FreeBlocks)} \in SUBSET Nat
  BY <1>1
<1>3. FreeBlocks # {} => Lowest(FreeBlocks) \in FreeBlocks
  BY <1>1, LowestIn
<1>4. FreeBlocks \ {Lowest(FreeBlocks)} # {} =>
        Lowest(FreeBlocks \ {Lowest(FreeBlocks)}) \in FreeBlocks \ {Lowest(FreeBlocks)}
  BY <1>2, LowestIn
<1> QED BY <1>3, <1>4 DEF FreeBlocks

------------------------------------------------------------------------------
(* The inductive invariant. *)

\* The boot thread never dies and keeps the linker's stack.
BootThread ==
  /\ ready[0] /\ ~ user[0]
  /\ kstack[0] = BootStack /\ irq_stack[0] = NULL /\ esp[0] \in {NULL, BootStack}

\* Only slots below task_count are looked at, and only those are ready.
Counts == \A s \in Slot : ready[s] => s < task_count

\* The next pid is new.
PidsFresh == \A s \in Slot : ready[s] => pid[s] < next_pid

\* A process that can be resumed can also be interrupted; a thread has its stack.
Equipped ==
  \A s \in Slot : ready[s] =>
    /\ user[s] /\ esp[s] # NULL => irq_stack[s] # NULL
    /\ ~ user[s] => kstack[s] # NULL

\* What a ready task owns is allocated, and nobody else's.
Allocated == \A s \in Slot \ {0} : ready[s] => Owned(s) \subseteq heap
Apart == \A s, t \in Slot : ready[s] /\ ready[t] /\ s # t => Owned(s) \cap Owned(t) = {}

\* The frame of a task off the CPU is the one it left, and carries its pid.
Saved ==
  \A s \in Slot : ready[s] /\ s # current /\ esp[s] # NULL =>
    frame[esp[s]] = parked[s] /\ parked[s].pid = pid[s]

\* A task being created is in the table and has not run: it has no frame to run from.
Creating ==
  /\ create.pc # "idle" => create.slot \in 1..(task_count - 1)
  /\ create.pc \in {"stack", "frame"} =>
       /\ ready[create.slot] /\ user[create.slot] /\ esp[create.slot] = NULL
       /\ cpu = "run" => create.slot # current
  /\ create.pc = "frame" => irq_stack[create.slot] # NULL

Tasks  == BootThread /\ Counts /\ PidsFresh /\ PidsUnique /\ Equipped
Stacks == Allocated /\ Apart
Inv == TypeOK /\ Tasks /\ Stacks /\ Saved /\ CurrentOwnsCpu /\ Creating

\* The numbers that name stacks.
LEMMA StackNumbers ==
  /\ NULL = 0 /\ NULL \notin Stack /\ Block \subseteq Stack /\ BootStack \in Stack
  /\ BootStack \notin Block
  /\ 0 \in Slot /\ Slot \subseteq Nat
  BY SchedAssumption DEF NULL, Stack, Block, BootStack, SysStack, Slot

LEMMA InitInv == Init => Inv
<1> SUFFICES ASSUME Init PROVE Inv
  OBVIOUS
<1>1. TypeOK
  <2>1. Slice \in Ticks /\ 0 \in Ticks
    BY SchedAssumption DEF Ticks
  <2>2. /\ 0 \in Pid /\ 1 \in Pid /\ 2 \in Pid /\ 0 \in 0..(Points - 1)
        /\ SysStack \in Stack /\ MaxTasks \in Nat /\ MaxTasks > 1
    BY SchedAssumption DEF Pid, Stack
  <2>3. NoContext \in Context /\ [pid |-> 1, at |-> 0] \in Context
    BY <2>2 DEF NoContext, Context
  <2>4. /\ ready \in [Slot -> BOOLEAN] /\ user \in [Slot -> BOOLEAN]
        /\ pid \in [Slot -> Pid] /\ esp \in [Slot -> Stack \cup {NULL}]
        /\ kstack \in [Slot -> Stack \cup {NULL}] /\ irq_stack \in [Slot -> Block \cup {NULL}]
        /\ slice_left \in [Slot -> Ticks]
    BY <2>1, <2>2, StackNumbers DEF Init
  <2>5. /\ task_count \in 1..MaxTasks /\ current \in 0..(task_count - 1) /\ next_pid \in Pid
        /\ heap \subseteq Block /\ sti \in BOOLEAN
    <3>1. task_count = 1 /\ current = 0 /\ next_pid = 2 /\ heap = {} /\ sti = FALSE
      BY DEF Init
    <3>2. 1 \in 1..MaxTasks /\ 0 \in 0..(1 - 1)
      BY <2>2
    <3> QED BY <2>2, <3>1, <3>2
  <2>7. esp0 \in Stack /\ cpu \in {"run", "lost", "halted"}
    BY <2>2 DEF Init
  <2>6. /\ frame \in [Stack -> Context] /\ ctx \in Context /\ parked \in [Slot -> Context]
        /\ create \in [pc : {"idle", "slot", "stack", "frame"}, slot : Slot]
    BY <2>3, StackNumbers DEF Init, Idle
  <2> QED
    BY <2>4, <2>5, <2>6, <2>7 DEF TypeOK
<1>2. Tasks
  <2>1. \A s \in Slot : ready[s] <=> s = 0
    BY DEF Init
  <2>2. /\ pid[0] = 1 /\ next_pid = 2 /\ task_count = 1 /\ ~ user[0]
        /\ kstack[0] = BootStack /\ irq_stack[0] = NULL /\ esp[0] = NULL
    BY StackNumbers DEF Init
  <2>3. BootStack # NULL
    BY StackNumbers
  <2>4. BootThread /\ Counts /\ PidsFresh
    BY <2>1, <2>2, StackNumbers DEF BootThread, Counts, PidsFresh
  <2>5. PidsUnique /\ Equipped
    BY <2>1, <2>2, <2>3 DEF PidsUnique, Equipped
  <2> QED
    BY <2>4, <2>5 DEF Tasks
<1>3. Stacks
  BY StackNumbers DEF Init, Stacks, Allocated, Apart
<1>4. Saved /\ CurrentOwnsCpu /\ Creating
  BY StackNumbers DEF Init, Saved, CurrentOwnsCpu, Creating, Idle
<1> QED BY <1>1, <1>2, <1>3, <1>4 DEF Inv

------------------------------------------------------------------------------
(* What the scheduler finds. *)

\* alloc_slot: a slot nobody is ready in, below the new task_count.
LEMMA SlotFound ==
  ASSUME Inv, SlotFree
  PROVE  /\ NewSlot \in Slot /\ NewSlot # 0 /\ ~ ready[NewSlot]
         /\ (cpu = "run" => NewSlot # current)
         /\ (create.pc \in {"stack", "frame"} => NewSlot # create.slot)
         /\ Counted(NewSlot) \in 1..MaxTasks /\ Counted(NewSlot) >= task_count
         /\ NewSlot < Counted(NewSlot)
<1>1. task_count \in 1..MaxTasks /\ ready \in [Slot -> BOOLEAN]
  BY DEF Inv, TypeOK
<1>2. CASE DeadSlots # {}
  <2>1. DeadSlots \in SUBSET Nat
    BY StackNumbers DEF DeadSlots
  <2>2. NewSlot \in DeadSlots
    BY <1>2, <2>1, LowestIn DEF NewSlot
  <2>3. NewSlot \in Slot /\ NewSlot < task_count /\ ~ ready[NewSlot]
    BY <2>2 DEF DeadSlots
  <2> HIDE DEF NewSlot
  <2> QED
    BY <1>1, <2>3, StackNumbers
       DEF Inv, Tasks, BootThread, CurrentOwnsCpu, Creating, Counted
<1>3. CASE DeadSlots = {}
  <2>1. NewSlot = task_count /\ task_count < MaxTasks
    BY <1>3 DEF SlotFree, NewSlot
  <2>2. NewSlot \in Slot /\ ~ ready[NewSlot]
    BY <1>1, <2>1, SchedAssumption DEF Slot, Inv, Tasks, Counts
  <2>3. Counted(NewSlot) = task_count + 1
    BY <2>1 DEF Counted
  <2> HIDE DEF NewSlot
  <2> QED
    BY <1>1, <2>1, <2>2, <2>3, SchedAssumption DEF Inv, Tasks, BootThread, CurrentOwnsCpu, Creating
<1> QED BY <1>2, <1>3

\* The scan stops at a ready task.
LEMMA ReadyFound ==
  ASSUME Inv, NEW reach \in Nat, Successors(current, reach) # {}
  PROVE  /\ NextReady(current, reach) \in Slot
         /\ NextReady(current, reach) \in 0..(task_count - 1)
         /\ ready[NextReady(current, reach)]
         /\ (reach < task_count => NextReady(current, reach) # current)
<1>1. /\ task_count \in 1..MaxTasks /\ current \in 0..(task_count - 1)
      /\ MaxTasks \in Nat /\ task_count \in Nat \ {0}
  BY SchedAssumption DEF Inv, TypeOK
<1>2. Successors(current, reach) \in SUBSET Nat
  BY DEF Successors
<1> DEFINE i == Lowest(Successors(current, reach))
<1>3. i \in Successors(current, reach)
  BY <1>2, LowestIn
<1> HIDE DEF i
<1>4. i \in 1..reach /\ IsReady((current + i) % task_count)
  BY <1>3 DEF Successors
<1>5. NextReady(current, reach) = (current + i) % task_count
  BY DEF NextReady, i
<1> HIDE DEF NextReady
<1>6. (current + i) % task_count \in 0..(task_count - 1)
  BY <1>1, <1>4
<1>7. reach < task_count => (current + i) % task_count # current
  <2> SUFFICES ASSUME reach < task_count PROVE (current + i) % task_count # current
    OBVIOUS
  <2>1. i \in 1..task_count /\ i < task_count
    BY <1>1, <1>4
  <2>2. ((current + i) % task_count) =
          (IF current + i < task_count THEN current + i ELSE current + i - task_count)
    BY <1>1, <2>1, OneRound
  <2> QED BY <1>1, <2>1, <2>2
<1> QED BY <1>1, <1>4, <1>5, <1>6, <1>7 DEF IsReady, Slot

\* A tick finds at least the interrupted task; an exit at least the boot thread.
LEMMA SomebodyReady ==
  ASSUME Inv, cpu = "run"
  PROVE  /\ Successors(current, task_count) # {}
         /\ (user[current] => Successors(current, task_count - 1) # {})
<1>1. /\ task_count \in 1..MaxTasks /\ current \in 0..(task_count - 1)
      /\ MaxTasks \in Nat /\ task_count \in Nat \ {0}
      /\ ready[current] /\ ready[0] /\ ~ user[0]
  BY SchedAssumption DEF Inv, TypeOK, CurrentOwnsCpu, Tasks, BootThread
<1>2. task_count \in Successors(current, task_count)
  <2>1. ((current + task_count) % task_count) = current
    BY <1>1, WholeRound
  <2> QED BY <1>1, <2>1 DEF Successors, IsReady
<1>3. ASSUME user[current]
      PROVE  task_count - current \in Successors(current, task_count - 1)
  <2>1. current # 0
    BY <1>1, <1>3
  <2>2. task_count - current \in 1..(task_count - 1)
    BY <1>1, <2>1
  <2>3. ((current + (task_count - current)) % task_count) = 0
    BY <1>1, <2>2, OneRound
  <2> QED BY <1>1, <2>2, <2>3 DEF Successors, IsReady
<1> QED BY <1>2, <1>3

\* A trap pushes on a stack of the current task, where no other task is parked.
LEMMA PushedFrame ==
  ASSUME Inv, cpu = "run"
  PROVE  /\ TrapStack \in Stack /\ TrapStack \in Owned(current)
         /\ Pushed \in [Stack -> Context] /\ Pushed[TrapStack] = ctx
         /\ \A b \in Stack : b # TrapStack => Pushed[b] = frame[b]
         /\ \A s \in Slot : ready[s] /\ s # current => esp[s] # TrapStack
<1>1. /\ current \in Slot /\ ready[current] /\ ctx \in Context /\ frame \in [Stack -> Context]
      /\ esp0 \in Stack /\ kstack[current] \in Stack \cup {NULL}
      /\ (user[current] => esp0 = irq_stack[current])
      /\ (~ user[current] => kstack[current] # NULL)
  BY StackNumbers, SchedAssumption DEF Inv, TypeOK, CurrentOwnsCpu, Tasks, Equipped, Slot
<1>2. TrapStack \in Stack /\ TrapStack \in Owned(current)
  BY <1>1, StackNumbers DEF TrapStack, Owned
<1>3. \A s \in Slot : ready[s] /\ s # current => esp[s] # TrapStack
  <2> SUFFICES ASSUME NEW s \in Slot, ready[s], s # current, esp[s] = TrapStack PROVE FALSE
    OBVIOUS
  <2>1. TrapStack \in Owned(s)
    BY <1>2, StackNumbers DEF Owned
  <2> QED BY <1>1, <1>2, <2>1 DEF Inv, Stacks, Apart
<1> HIDE DEF TrapStack
<1> QED BY <1>1, <1>2, <1>3 DEF Pushed

------------------------------------------------------------------------------
(* Steps that leave the table alone. *)

Table == <<ready, user, pid, esp, kstack, irq_stack, task_count, current, next_pid,
           heap, esp0, parked, create, cpu>>

\* Only the frame of the current task, its context or its slice changes.
LEMMA QuietStep ==
  ASSUME Inv, cpu = "run", UNCHANGED Table, frame' = frame \/ frame' = Pushed,
         slice_left' \in [Slot -> Ticks], sti' \in BOOLEAN,
         ctx' \in Context, ctx'.pid = ctx.pid
  PROVE  Inv'
<1>1. /\ ready' = ready /\ user' = user /\ pid' = pid /\ esp' = esp /\ kstack' = kstack
      /\ irq_stack' = irq_stack /\ task_count' = task_count /\ current' = current
      /\ next_pid' = next_pid /\ heap' = heap /\ esp0' = esp0 /\ parked' = parked
      /\ create' = create /\ cpu' = cpu
  BY DEF Table
<1>2. frame' \in [Stack -> Context] /\ \A b \in Stack : b # TrapStack => frame'[b] = frame[b]
  BY PushedFrame DEF Inv, TypeOK
<1>3. TypeOK'
  BY <1>1, <1>2 DEF Inv, TypeOK
<1>4. Tasks'
  BY <1>1 DEF Inv, Tasks, BootThread, Counts, PidsFresh, PidsUnique, Equipped
<1>5. Stacks'
  BY <1>1 DEF Inv, Stacks, Allocated, Apart, Owned
<1>6. Saved'
  <2> SUFFICES ASSUME NEW s \in Slot, ready[s], s # current, esp[s] # NULL
               PROVE  frame'[esp[s]] = parked[s] /\ parked[s].pid = pid[s]
    BY <1>1 DEF Saved
  <2>1. esp[s] \in Stack /\ esp[s] # TrapStack
    BY PushedFrame DEF Inv, TypeOK
  <2> QED BY <1>2, <2>1 DEF Inv, Saved
<1>7. CurrentOwnsCpu' /\ Creating'
  BY <1>1 DEF Inv, CurrentOwnsCpu, Creating
<1> QED BY <1>3, <1>4, <1>5, <1>6, <1>7 DEF Inv

\* A slice counts down, or becomes the argument of SYS_sleep.
LEMMA SliceTypes ==
  /\ Slice \in Ticks
  /\ SleepTicks \subseteq Ticks
  /\ Ticks \subseteq Nat
  /\ \A t \in Ticks : t > 0 => t - 1 \in Ticks
  BY SchedAssumption DEF Ticks

LEMMA TickKeepsInv == Inv /\ TickKeeps => Inv'
<1> SUFFICES ASSUME Inv, TickKeeps PROVE Inv'
  OBVIOUS
<1>1. current \in Slot /\ slice_left \in [Slot -> Ticks] /\ ctx \in Context /\ sti \in BOOLEAN
  BY SchedAssumption DEF Inv, TypeOK, Slot
<1>2. slice_left' \in [Slot -> Ticks]
  <2>1. CASE task_count < 2
    BY <1>1, <2>1 DEF TickKeeps
  <2>2. CASE ~ (task_count < 2)
    <3>1. slice_left[current] > 0 /\ slice_left' = [slice_left EXCEPT ![current] = @ - 1]
      BY <2>2 DEF TickKeeps
    <3>2. slice_left[current] \in Ticks
      BY <1>1
    <3>3. slice_left[current] - 1 \in Ticks
      BY <3>1, <3>2, SliceTypes
    <3> QED BY <1>1, <3>1, <3>3
  <2> QED BY <2>1, <2>2
<1>3. cpu = "run" /\ frame' = Pushed /\ UNCHANGED Table /\ ctx' = ctx /\ sti' = sti
  BY DEF TickKeeps, Running, Table
<1> QED BY <1>1, <1>2, <1>3, QuietStep

\* A halted machine: the frame of the exception is on the stack of the task that raised it.
LEMMA PanicInv == Inv /\ Panic => Inv'
<1> SUFFICES ASSUME Inv, Panic PROVE Inv'
  OBVIOUS
<1>1. /\ ready' = ready /\ user' = user /\ pid' = pid /\ esp' = esp /\ kstack' = kstack
      /\ irq_stack' = irq_stack /\ slice_left' = slice_left /\ task_count' = task_count
      /\ current' = current /\ next_pid' = next_pid /\ heap' = heap /\ esp0' = esp0
      /\ ctx' = ctx /\ parked' = parked /\ create' = create
      /\ cpu = "run" /\ cpu' = "halted" /\ sti' = FALSE /\ frame' = Pushed
  BY DEF Panic, table
<1>2. /\ frame' \in [Stack -> Context]
      /\ \A b \in Stack : b # TrapStack => frame'[b] = frame[b]
      /\ \A s \in Slot : ready[s] /\ s # current => esp[s] # TrapStack
  BY <1>1, PushedFrame
<1>3. TypeOK'
  BY <1>1, <1>2 DEF Inv, TypeOK
<1>4. Tasks'
  BY <1>1 DEF Inv, Tasks, BootThread, Counts, PidsFresh, PidsUnique, Equipped
<1>5. Stacks'
  BY <1>1 DEF Inv, Stacks, Allocated, Apart, Owned
<1>6. Saved'
  <2> SUFFICES ASSUME NEW s \in Slot, ready[s], s # current, esp[s] # NULL
               PROVE  frame'[esp[s]] = parked[s] /\ parked[s].pid = pid[s]
    BY <1>1 DEF Saved
  <2>1. esp[s] \in Stack /\ esp[s] # TrapStack
    BY <1>2 DEF Inv, TypeOK
  <2> QED BY <1>2, <2>1 DEF Inv, Saved
<1>7. CurrentOwnsCpu' /\ Creating'
  BY <1>1 DEF Inv, CurrentOwnsCpu, Creating
<1> QED BY <1>3, <1>4, <1>5, <1>6, <1>7 DEF Inv

LEMMA TrapInv == Inv /\ Trap => Inv'
<1> SUFFICES ASSUME Inv, Trap PROVE Inv'
  OBVIOUS
<1>1. cpu = "run" /\ frame' = Pushed /\ UNCHANGED Table /\ ctx' = ctx /\ sti' = sti
      /\ slice_left' = slice_left
  BY DEF Trap, Running, Table, table
<1>2. slice_left \in [Slot -> Ticks] /\ ctx \in Context /\ sti \in BOOLEAN
  BY DEF Inv, TypeOK
<1> QED BY <1>1, <1>2, QuietStep

LEMMA AdvanceInv == Inv /\ Advance => Inv'
<1> SUFFICES ASSUME Inv, Advance PROVE Inv'
  OBVIOUS
<1>1. /\ cpu = "run" /\ frame' = frame /\ UNCHANGED Table /\ sti' = sti
      /\ slice_left' = slice_left /\ ctx' = [ctx EXCEPT !.at = (@ + 1) % Points]
  BY DEF Advance, Running, Table, table
<1>2. slice_left \in [Slot -> Ticks] /\ ctx \in Context /\ sti \in BOOLEAN
  BY DEF Inv, TypeOK
<1>3. ctx' \in Context /\ ctx'.pid = ctx.pid
  <2>1. ctx.at \in 0..(Points - 1) /\ Points \in Nat \ {0}
    BY <1>2, SchedAssumption DEF Context
  <2>2. (ctx.at + 1) % Points \in 0..(Points - 1)
    BY <2>1
  <2> QED BY <1>1, <1>2, <2>2 DEF Context
<1> QED BY <1>1, <1>2, <1>3, QuietStep

LEMMA SleepInv == ASSUME Inv, NEW n \in SleepTicks, Sleep(n) PROVE Inv'
<1>1. /\ cpu = "run" /\ frame' = Pushed /\ UNCHANGED Table /\ sti' = sti /\ ctx' = ctx
      /\ slice_left' = [slice_left EXCEPT ![current] = n]
  BY DEF Sleep, InProcess, Running, Table
<1>2. slice_left \in [Slot -> Ticks] /\ ctx \in Context /\ sti \in BOOLEAN
  BY DEF Inv, TypeOK
<1>3. slice_left' \in [Slot -> Ticks]
  BY <1>1, <1>2, SliceTypes
<1> QED BY <1>1, <1>2, <1>3, QuietStep

LEMMA EnableInterruptsInv == Inv /\ EnableInterrupts => Inv'
<1> SUFFICES ASSUME Inv, EnableInterrupts PROVE Inv'
  OBVIOUS
<1>1. /\ cpu = "run" /\ frame' = frame /\ UNCHANGED Table /\ sti' = TRUE /\ ctx' = ctx
      /\ slice_left' = slice_left
  BY DEF EnableInterrupts, Table, table
<1>2. slice_left \in [Slot -> Ticks] /\ ctx \in Context /\ sti \in BOOLEAN
  BY DEF Inv, TypeOK
<1> QED BY <1>1, <1>2, QuietStep

------------------------------------------------------------------------------
(* Switches. *)

\* switch_to: a task that is ready and whose frame carries its pid gets the CPU.
LEMMA ResumeStep ==
  ASSUME Inv, cpu = "run", NEW next \in Slot, ready[next],
         NEW saved \in [Slot -> Stack \cup {NULL}], NEW frames \in [Stack -> Context],
         saved[next] # NULL => frames[saved[next]].pid = pid[next],
         user[next] /\ saved[next] # NULL => irq_stack[next] # NULL,
         Resume(next, saved, frames)
  PROVE  /\ frame' = frames /\ current' = next
         /\ ctx' \in Context /\ esp0' \in Stack /\ cpu' \in {"run", "lost", "halted"}
         /\ (cpu' = "run" => /\ saved[next] # NULL /\ ctx'.pid = pid[next]
                             /\ user[next] => esp0' = irq_stack[next])
<1>1. /\ ctx \in Context /\ esp0 \in Stack /\ cpu \in {"run", "lost", "halted"}
      /\ irq_stack[next] \in Block \cup {NULL}
  BY DEF Inv, TypeOK
<1>2. esp0' \in Stack
  BY <1>1, StackNumbers DEF Resume, KernelStackFor
<1>3. frame' = frames /\ current' = next
  BY DEF Resume
<1>4. CASE saved[next] = NULL
  <2>1. cpu' = "lost" /\ ctx' = ctx
    BY <1>4 DEF Resume
  <2> QED BY <1>1, <1>2, <1>3, <2>1
<1>5. CASE saved[next] # NULL
  <2>1. ctx' = frames[saved[next]] /\ cpu' = cpu
    BY <1>5 DEF Resume
  <2>2. saved[next] \in Stack
    BY <1>5
  <2>3. user[next] => esp0' = irq_stack[next]
    BY <1>5 DEF Resume, KernelStackFor
  <2> QED BY <1>1, <1>2, <1>3, <1>5, <2>1, <2>2, <2>3
<1> QED BY <1>4, <1>5

LEMMA TickSwitchesInv == Inv /\ TickSwitches => Inv'
<1> SUFFICES ASSUME Inv, TickSwitches PROVE Inv'
  OBVIOUS
<1> DEFINE next  == NextReady(current, task_count)
           saved == [esp EXCEPT ![current] = TrapStack]
<1>1. /\ cpu = "run"
      /\ slice_left' = [slice_left EXCEPT ![current] = Slice, ![next] = Slice]
      /\ esp' = saved /\ parked' = [parked EXCEPT ![current] = ctx]
      /\ Resume(next, saved, Pushed)
      /\ ready' = ready /\ user' = user /\ pid' = pid /\ kstack' = kstack
      /\ irq_stack' = irq_stack /\ task_count' = task_count /\ next_pid' = next_pid
      /\ heap' = heap /\ create' = create /\ sti' = sti
  BY DEF TickSwitches, Interruptible, Running
<1>2. next \in Slot /\ next \in 0..(task_count - 1) /\ ready[next]
  <2>1. task_count \in Nat
    BY SchedAssumption DEF Inv, TypeOK
  <2> QED BY <1>1, <2>1, ReadyFound, SomebodyReady
<1> HIDE DEF next
<1>3. /\ current \in Slot /\ ready[current] /\ ctx \in Context /\ ctx.pid = pid[current]
      /\ parked \in [Slot -> Context] /\ esp \in [Slot -> Stack \cup {NULL}]
      /\ slice_left \in [Slot -> Ticks]
  BY <1>1, SchedAssumption DEF Inv, TypeOK, CurrentOwnsCpu, Slot
<1>4. /\ TrapStack \in Stack /\ TrapStack \in Owned(current) /\ TrapStack # NULL
      /\ Pushed \in [Stack -> Context] /\ Pushed[TrapStack] = ctx
      /\ \A b \in Stack : b # TrapStack => Pushed[b] = frame[b]
      /\ \A s \in Slot : ready[s] /\ s # current => esp[s] # TrapStack
  BY <1>1, PushedFrame, StackNumbers
<1>5. /\ saved \in [Slot -> Stack \cup {NULL}] /\ saved[current] = TrapStack
      /\ \A s \in Slot : s # current => saved[s] = esp[s]
  BY <1>3, <1>4
<1> HIDE DEF saved
\* The frames of the tasks that are off the CPU now, the interrupted one included.
<1>6. ASSUME NEW s \in Slot, ready[s], saved[s] # NULL
      PROVE  Pushed[saved[s]] = parked'[s] /\ Pushed[saved[s]].pid = pid[s]
  <2>1. CASE s = current
    BY <1>1, <1>3, <1>4, <1>5, <2>1
  <2>2. CASE s # current
    <3>1. saved[s] = esp[s] /\ esp[s] \in Stack /\ esp[s] # TrapStack /\ parked'[s] = parked[s]
      BY <1>1, <1>3, <1>4, <1>5, <1>6, <2>2
    <3> QED BY <1>4, <1>6, <2>2, <3>1 DEF Inv, Saved
  <2> QED BY <2>1, <2>2
<1>7. user[next] /\ saved[next] # NULL => irq_stack[next] # NULL
  <2>1. CASE next = current
    <3>1. user[next] => irq_stack[next] \in Stack
      BY <1>1, <2>1 DEF Inv, TypeOK, CurrentOwnsCpu
    <3> QED BY <3>1, StackNumbers
  <2>2. CASE next # current
    BY <1>2, <1>5, <2>2 DEF Inv, Tasks, Equipped
  <2> QED BY <2>1, <2>2
<1>8. /\ frame' = Pushed /\ current' = next
      /\ ctx' \in Context /\ esp0' \in Stack /\ cpu' \in {"run", "lost", "halted"}
      /\ (cpu' = "run" => /\ saved[next] # NULL /\ ctx'.pid = pid[next]
                          /\ user[next] => esp0' = irq_stack[next])
  BY <1>1, <1>2, <1>4, <1>5, <1>6, <1>7, ResumeStep
<1>9. TypeOK'
  <2>1. slice_left' \in [Slot -> Ticks] /\ parked' \in [Slot -> Context]
    BY <1>1, <1>2, <1>3, SliceTypes
  <2> QED BY <1>1, <1>2, <1>4, <1>5, <1>8, <2>1 DEF Inv, TypeOK
<1>10. Tasks'
  <2>1. BootThread'
    <3>1. CASE current = 0
      <4>1. TrapStack = BootStack
        BY <3>1 DEF Inv, Tasks, BootThread, TrapStack
      <4> QED BY <1>1, <1>5, <3>1, <4>1 DEF Inv, Tasks, BootThread
    <3>2. CASE current # 0
      BY <1>1, <1>5, <3>2, StackNumbers DEF Inv, Tasks, BootThread
    <3> QED BY <3>1, <3>2
  <2>2. Counts' /\ PidsFresh' /\ PidsUnique'
    BY <1>1 DEF Inv, Tasks, Counts, PidsFresh, PidsUnique
  <2>3. Equipped'
    <3>1. user[current] => irq_stack[current] # NULL
      BY <1>1, <1>4, StackNumbers DEF Inv, TypeOK, CurrentOwnsCpu
    <3> QED BY <1>1, <1>5, <3>1 DEF Inv, Tasks, Equipped
  <2> QED BY <2>1, <2>2, <2>3 DEF Tasks
<1>11. \A s \in Slot : ready[s] => Owned(s)' \subseteq Owned(s)
  <2> SUFFICES ASSUME NEW s \in Slot, ready[s] PROVE Owned(s)' \subseteq Owned(s)
    OBVIOUS
  <2>1. CASE s = current
    BY <1>1, <1>4, <1>5, <2>1 DEF Owned
  <2>2. CASE s # current
    BY <1>1, <1>5, <2>2 DEF Owned
  <2> QED BY <2>1, <2>2
<1>12. Stacks'
  <2>1. Allocated'
    BY <1>1, <1>11 DEF Inv, Stacks, Allocated
  <2>2. Apart'
    <3> SUFFICES ASSUME NEW s \in Slot, NEW t \in Slot, ready[s], ready[t], s # t
                 PROVE  Owned(s)' \cap Owned(t)' = {}
      BY <1>1 DEF Apart
    <3>1. Owned(s) \cap Owned(t) = {}
      BY DEF Inv, Stacks, Apart
    <3> QED BY <1>11, <3>1
  <2> QED BY <2>1, <2>2 DEF Stacks
<1>13. Saved'
  BY <1>1, <1>6, <1>8 DEF Saved
<1>14. CurrentOwnsCpu'
  BY <1>1, <1>2, <1>8 DEF CurrentOwnsCpu
<1>15. Creating'
  <2>1. create.pc \in {"stack", "frame"} =>
          create.slot # current /\ ready[create.slot] /\ user[create.slot] /\ esp[create.slot] = NULL
    BY <1>1 DEF Inv, Creating
  <2>2. create.pc \in {"stack", "frame"} => saved[create.slot] = NULL
    BY <1>5, <2>1 DEF Inv, TypeOK
  <2>3. create.pc \in {"stack", "frame"} /\ cpu' = "run" => create.slot # next
    BY <1>8, <2>2
  <2> QED BY <1>1, <1>8, <2>1, <2>2, <2>3 DEF Inv, Creating
<1> QED BY <1>9, <1>10, <1>12, <1>13, <1>14, <1>15 DEF Inv

LEMMA ExitInv == Inv /\ Exit => Inv'
<1> SUFFICES ASSUME Inv, Exit PROVE Inv'
  OBVIOUS
<1> DEFINE next == NextReady(current, task_count - 1)
<1>1. /\ cpu = "run" /\ user[current]
      /\ ready' = [ready EXCEPT ![current] = FALSE]
      /\ slice_left' = [slice_left EXCEPT ![next] = Slice]
      /\ Resume(next, esp, Pushed)
      /\ user' = user /\ pid' = pid /\ esp' = esp /\ kstack' = kstack
      /\ irq_stack' = irq_stack /\ task_count' = task_count /\ next_pid' = next_pid
      /\ heap' = heap /\ parked' = parked /\ create' = create /\ sti' = sti
  BY DEF Exit, InProcess, Running
<1>2. next \in Slot /\ next \in 0..(task_count - 1) /\ ready[next] /\ next # current
  <2>1. task_count - 1 \in Nat /\ task_count - 1 < task_count
    BY SchedAssumption DEF Inv, TypeOK
  <2> QED BY <1>1, <2>1, ReadyFound, SomebodyReady
<1> HIDE DEF next
<1>3. /\ current \in Slot /\ current # 0 /\ ready \in [Slot -> BOOLEAN]
      /\ parked \in [Slot -> Context] /\ esp \in [Slot -> Stack \cup {NULL}]
      /\ slice_left \in [Slot -> Ticks]
  BY <1>1, SchedAssumption DEF Inv, TypeOK, Tasks, BootThread, Slot
<1>4. /\ Pushed \in [Stack -> Context]
      /\ \A b \in Stack : b # TrapStack => Pushed[b] = frame[b]
      /\ \A s \in Slot : ready[s] /\ s # current => esp[s] # TrapStack
  BY <1>1, PushedFrame
<1>5. \A s \in Slot : ready'[s] <=> (ready[s] /\ s # current)
  BY <1>1, <1>3
<1>6. ASSUME NEW s \in Slot, ready[s], s # current, esp[s] # NULL
      PROVE  Pushed[esp[s]] = parked[s] /\ Pushed[esp[s]].pid = pid[s]
  <2>1. esp[s] \in Stack /\ esp[s] # TrapStack
    BY <1>3, <1>4, <1>6
  <2> QED BY <1>4, <1>6, <2>1 DEF Inv, Saved
<1>7. user[next] /\ esp[next] # NULL => irq_stack[next] # NULL
  BY <1>2 DEF Inv, Tasks, Equipped
<1>8. /\ frame' = Pushed /\ current' = next
      /\ ctx' \in Context /\ esp0' \in Stack /\ cpu' \in {"run", "lost", "halted"}
      /\ (cpu' = "run" => /\ esp[next] # NULL /\ ctx'.pid = pid[next]
                          /\ user[next] => esp0' = irq_stack[next])
  BY <1>1, <1>2, <1>3, <1>4, <1>6, <1>7, ResumeStep
<1>9. TypeOK'
  <2>1. slice_left' \in [Slot -> Ticks] /\ ready' \in [Slot -> BOOLEAN]
    BY <1>1, <1>3, SliceTypes
  <2> QED BY <1>1, <1>2, <1>4, <1>8, <2>1 DEF Inv, TypeOK
<1>10. Tasks'
  <2>1. BootThread'
    BY <1>1, <1>3, <1>5, StackNumbers DEF Inv, Tasks, BootThread
  <2>2. Counts' /\ PidsFresh' /\ PidsUnique'
    BY <1>1, <1>5 DEF Inv, Tasks, Counts, PidsFresh, PidsUnique
  <2>3. Equipped'
    BY <1>1, <1>5 DEF Inv, Tasks, Equipped
  <2> QED BY <2>1, <2>2, <2>3 DEF Tasks
<1>11. Stacks'
  BY <1>1, <1>5 DEF Inv, Stacks, Allocated, Apart, Owned
<1>12. Saved'
  BY <1>1, <1>5, <1>6, <1>8 DEF Saved
<1>13. CurrentOwnsCpu'
  BY <1>1, <1>2, <1>5, <1>8 DEF CurrentOwnsCpu
<1>14. Creating'
  <2>1. create.pc # "idle" => create.slot \in Slot
    BY DEF Inv, TypeOK
  <2>2. create.pc \in {"stack", "frame"} =>
          create.slot # current /\ ready[create.slot] /\ user[create.slot] /\ esp[create.slot] = NULL
    BY <1>1 DEF Inv, Creating
  <2>3. create.pc \in {"stack", "frame"} => ready'[create.slot]
    BY <1>5, <2>1, <2>2
  <2>4. create.pc \in {"stack", "frame"} /\ cpu' = "run" => create.slot # next
    BY <1>8, <2>2
  <2> QED BY <1>1, <1>8, <2>2, <2>3, <2>4 DEF Inv, Creating
<1> QED BY <1>9, <1>10, <1>11, <1>12, <1>13, <1>14 DEF Inv

------------------------------------------------------------------------------
(* Creations. *)

\* A new ready task in a slot nobody is ready in, with two fresh blocks: one for its
\* interrupts, and one that holds its first frame.  task_create and fork.
LEMMA NewTaskStep ==
  ASSUME Inv, cpu = "run", SlotFree, next_pid <= MaxPid,
         NEW n, n = NewSlot, NEW isUser \in BOOLEAN, NEW stk \in Stack \cup {NULL},
         NEW irq \in Block \ heap, NEW area \in Block \ heap, irq # area,
         stk = area \/ (isUser /\ stk = NULL),
         NEW c \in Context, c.pid = next_pid,
         NEW old \in [Stack -> Context],
         \A s \in Slot : ready[s] /\ s # current /\ esp[s] # NULL => old[esp[s]] = frame[esp[s]],
         Publish(n, isUser, stk, irq, area, Slice),
         task_count' = Counted(n), heap' = heap \cup {area, irq},
         frame' = [old EXCEPT ![area] = c], parked' = [parked EXCEPT ![n] = c],
         UNCHANGED <<current, esp0, ctx, create, sti, cpu>>
  PROVE  Inv'
<1>1. /\ n \in Slot /\ n # 0 /\ ~ ready[n] /\ n # current
      /\ (create.pc \in {"stack", "frame"} => n # create.slot)
      /\ Counted(n) \in 1..MaxTasks /\ Counted(n) >= task_count /\ n < Counted(n)
  BY SlotFound
<1> DEFINE tc == Counted(n)
<1>2. /\ ready' = [ready EXCEPT ![n] = TRUE] /\ user' = [user EXCEPT ![n] = isUser]
      /\ pid' = [pid EXCEPT ![n] = next_pid] /\ kstack' = [kstack EXCEPT ![n] = stk]
      /\ irq_stack' = [irq_stack EXCEPT ![n] = irq] /\ esp' = [esp EXCEPT ![n] = area]
      /\ slice_left' = [slice_left EXCEPT ![n] = Slice] /\ next_pid' = next_pid + 1
      /\ parked' = [parked EXCEPT ![n] = c]
      /\ task_count' = tc
  BY DEF Publish, PidUsed
<1>3. current' = current /\ esp0' = esp0 /\ ctx' = ctx /\ create' = create /\ sti' = sti /\ cpu' = cpu
  OBVIOUS
<1> HIDE DEF tc
<1>4. /\ ready \in [Slot -> BOOLEAN] /\ user \in [Slot -> BOOLEAN] /\ pid \in [Slot -> Pid]
      /\ esp \in [Slot -> Stack \cup {NULL}] /\ kstack \in [Slot -> Stack \cup {NULL}]
      /\ irq_stack \in [Slot -> Block \cup {NULL}] /\ slice_left \in [Slot -> Ticks]
      /\ parked \in [Slot -> Context] /\ heap \subseteq Block /\ next_pid \in Pid
  BY DEF Inv, TypeOK
<1>5. area \in Stack /\ irq \in Stack /\ area # NULL /\ irq # NULL
  BY StackNumbers
<1>6. \A s \in Slot : s # n =>
        /\ ready'[s] = ready[s] /\ user'[s] = user[s] /\ pid'[s] = pid[s] /\ esp'[s] = esp[s]
        /\ kstack'[s] = kstack[s] /\ irq_stack'[s] = irq_stack[s] /\ parked'[s] = parked[s]
  BY <1>2, <1>4
<1>7. /\ ready'[n] /\ user'[n] = isUser /\ pid'[n] = next_pid /\ esp'[n] = area
      /\ kstack'[n] = stk /\ irq_stack'[n] = irq /\ parked'[n] = c
  BY <1>1, <1>2, <1>4
<1>8. TypeOK'
  <2>1. next_pid + 1 \in Pid
    BY <1>4, SchedAssumption DEF Pid
  <2>2. /\ ready' \in [Slot -> BOOLEAN] /\ user' \in [Slot -> BOOLEAN] /\ pid' \in [Slot -> Pid]
        /\ esp' \in [Slot -> Stack \cup {NULL}] /\ kstack' \in [Slot -> Stack \cup {NULL}]
        /\ irq_stack' \in [Slot -> Block \cup {NULL}] /\ slice_left' \in [Slot -> Ticks]
        /\ parked' \in [Slot -> Context] /\ next_pid' \in Pid
    <3>1. /\ ready' \in [Slot -> BOOLEAN] /\ user' \in [Slot -> BOOLEAN]
          /\ pid' \in [Slot -> Pid] /\ next_pid' \in Pid
      BY <1>2, <1>4, <2>1
    <3>2. /\ esp' \in [Slot -> Stack \cup {NULL}] /\ kstack' \in [Slot -> Stack \cup {NULL}]
          /\ irq_stack' \in [Slot -> Block \cup {NULL}]
      BY <1>2, <1>4, <1>5
    <3>3. slice_left' \in [Slot -> Ticks] /\ parked' \in [Slot -> Context]
      <4>1. Slice \in Ticks
        BY SliceTypes
      <4>2. slice_left' = [slice_left EXCEPT ![n] = Slice] /\ parked' = [parked EXCEPT ![n] = c]
        BY <1>2
      <4>3. slice_left' \in [Slot -> Ticks]
        BY <1>4, <4>1, <4>2
      <4>4. parked' \in [Slot -> Context]
        BY <1>4, <4>2
      <4> QED BY <4>3, <4>4
    <3> QED BY <3>1, <3>2, <3>3
  <2>3. frame' \in [Stack -> Context] /\ heap' \subseteq Block
    BY <1>4, <1>5
  <2>4. task_count' \in 1..MaxTasks /\ current' \in 0..(task_count' - 1)
    BY <1>1, <1>2, <1>3, SchedAssumption DEF Inv, TypeOK, tc
  <2> QED BY <1>3, <2>2, <2>3, <2>4 DEF Inv, TypeOK
<1>9. Tasks'
  <2>1. BootThread'
    BY <1>1, <1>6, StackNumbers DEF Inv, Tasks, BootThread
  <2>2. Counts'
    <3> SUFFICES ASSUME NEW s \in Slot, ready'[s] PROVE s < task_count'
      BY DEF Counts
    <3>1. CASE s = n
      BY <1>1, <1>2, <3>1 DEF tc
    <3>2. CASE s # n
      <4>1. s < task_count
        BY <1>6, <3>2 DEF Inv, Tasks, Counts
      <4> QED BY <1>1, <1>2, <4>1, SchedAssumption DEF Inv, TypeOK, tc, Slot
    <3> QED BY <3>1, <3>2
  <2>3. PidsFresh' /\ PidsUnique'
    <3>1. \A s \in Slot : ready[s] => pid[s] < next_pid /\ pid[s] # next_pid
      BY <1>4, SchedAssumption DEF Inv, Tasks, PidsFresh, Pid
    <3>2. PidsFresh'
      BY <1>2, <1>4, <1>6, <1>7, <3>1, SchedAssumption DEF PidsFresh, Pid
    <3>3. PidsUnique'
      BY <1>6, <1>7, <3>1 DEF Inv, Tasks, PidsUnique
    <3> QED BY <3>2, <3>3
  <2>4. Equipped'
    BY <1>5, <1>6, <1>7 DEF Inv, Tasks, Equipped
  <2> QED BY <2>1, <2>2, <2>3, <2>4 DEF Tasks
<1>10. \A s \in Slot : s # n => Owned(s)' = Owned(s)
  BY <1>6 DEF Owned
<1>11. Owned(n)' \subseteq {area, irq}
  BY <1>7 DEF Owned
<1>12. Stacks'
  <2>1. Allocated'
    <3> SUFFICES ASSUME NEW s \in Slot \ {0}, ready'[s] PROVE Owned(s)' \subseteq heap'
      BY DEF Allocated
    <3>1. CASE s = n
      BY <1>11, <3>1
    <3>2. CASE s # n
      BY <1>6, <1>10, <3>2 DEF Inv, Stacks, Allocated
    <3> QED BY <3>1, <3>2
  <2>2. ASSUME NEW s \in Slot, s # n, ready[s] PROVE Owned(s) \cap {area, irq} = {}
    <3>1. CASE s = 0
      <4>1. Owned(s) \subseteq {BootStack}
        BY <3>1 DEF Inv, Tasks, BootThread, Owned
      <4> QED BY <4>1, StackNumbers
    <3>2. CASE s # 0
      BY <2>2, <3>2 DEF Inv, Stacks, Allocated
    <3> QED BY <3>1, <3>2
  <2>3. Apart'
    <3> SUFFICES ASSUME NEW s \in Slot, NEW t \in Slot, ready'[s], ready'[t], s # t
                 PROVE  Owned(s)' \cap Owned(t)' = {}
      BY DEF Apart
    <3>1. CASE s = n
      BY <1>6, <1>10, <1>11, <2>2, <3>1
    <3>2. CASE t = n
      BY <1>6, <1>10, <1>11, <2>2, <3>2
    <3>3. CASE s # n /\ t # n
      BY <1>6, <1>10, <3>3 DEF Inv, Stacks, Apart
    <3> QED BY <3>1, <3>2, <3>3
  <2> QED BY <2>1, <2>3 DEF Stacks
<1>13. Saved'
  <2> SUFFICES ASSUME NEW s \in Slot, ready'[s], s # current, esp'[s] # NULL
               PROVE  frame'[esp'[s]] = parked'[s] /\ parked'[s].pid = pid'[s]
    BY <1>3 DEF Saved
  <2>1. CASE s = n
    BY <1>5, <1>7, <2>1
  <2>2. CASE s # n
    <3>1. /\ ready[s] /\ esp'[s] = esp[s] /\ esp[s] # NULL /\ esp[s] \in Stack
          /\ parked'[s] = parked[s] /\ pid'[s] = pid[s]
      BY <1>4, <1>6, <2>2
    <3>2. esp[s] # area
      <4>1. esp[s] \in Owned(s)
        BY <3>1 DEF Owned
      <4>2. CASE s = 0
        BY <3>1, <4>2, StackNumbers DEF Inv, Tasks, BootThread
      <4>3. CASE s # 0
        BY <3>1, <4>1, <4>3 DEF Inv, Stacks, Allocated
      <4> QED BY <4>2, <4>3
    <3>3. frame'[esp[s]] = frame[esp[s]]
      BY <1>5, <3>1, <3>2
    <3> QED BY <3>1, <3>3 DEF Inv, Saved
  <2> QED BY <2>1, <2>2
<1>14. CurrentOwnsCpu'
  <2>1. current \in Slot
    BY SchedAssumption DEF Inv, TypeOK, Slot
  <2> QED BY <1>1, <1>3, <1>6, <2>1 DEF Inv, CurrentOwnsCpu
<1>15. Creating'
  <2>1. create.slot \in Slot
    BY DEF Inv, TypeOK
  <2>2. create.pc # "idle" => create.slot \in 1..(task_count' - 1)
    BY <1>1, <1>2, SchedAssumption DEF Inv, TypeOK, Creating, tc, Slot
  <2>3. create.pc \in {"stack", "frame"} => create.slot # n
    BY <1>1
  <2>4. create.pc \in {"stack", "frame"} =>
          /\ ready'[create.slot] /\ user'[create.slot] /\ esp'[create.slot] = NULL
          /\ create.slot # current
    BY <1>6, <2>1, <2>3 DEF Inv, Creating
  <2>5. create.pc = "frame" => irq_stack'[create.slot] # NULL
    BY <1>6, <2>1, <2>3 DEF Inv, Creating
  <2> QED BY <1>3, <2>2, <2>4, <2>5 DEF Creating
<1> QED BY <1>8, <1>9, <1>12, <1>13, <1>14, <1>15 DEF Inv

LEMMA TaskCreateInv == Inv /\ TaskCreate => Inv'
<1> SUFFICES ASSUME Inv, TaskCreate PROVE Inv'
  OBVIOUS
<1>1. PICK n : n = NewSlot
  OBVIOUS
<1>2. PICK stk : stk = Lowest(FreeBlocks)
  OBVIOUS
<1>3. PICK irq : irq = Lowest(FreeBlocks \ {stk})
  OBVIOUS
<1>4. PICK c : c = [pid |-> next_pid, at |-> 0]
  OBVIOUS
<1>5. /\ cpu = "run" /\ SlotFree /\ next_pid <= MaxPid
      /\ FreeBlocks # {} /\ FreeBlocks \ {Lowest(FreeBlocks)} # {}
      /\ task_count' = Counted(n) /\ heap' = heap \cup {stk, irq}
      /\ Publish(n, FALSE, stk, irq, stk, Slice)
      /\ frame' = [frame EXCEPT ![stk] = c] /\ parked' = [parked EXCEPT ![n] = c]
      /\ UNCHANGED <<current, esp0, ctx, create, sti, cpu>>
  BY <1>1, <1>2, <1>3, <1>4 DEF TaskCreate
<1>6. stk \in Block \ heap /\ irq \in Block \ heap /\ irq # stk
  BY <1>2, <1>3, <1>5, FreshBlocks
<1>7. c \in Context /\ c.pid = next_pid
  BY <1>4, SchedAssumption DEF Inv, TypeOK, Context
<1>8. frame \in [Stack -> Context] /\ stk \in Stack \cup {NULL} /\ FALSE \in BOOLEAN
  BY <1>6, StackNumbers DEF Inv, TypeOK
<1> QED BY <1>1, <1>5, <1>6, <1>7, <1>8, NewTaskStep

LEMMA ForkInv == Inv /\ Fork => Inv'
<1> SUFFICES ASSUME Inv, Fork PROVE Inv'
  OBVIOUS
<1>1. PICK n : n = NewSlot
  OBVIOUS
<1>2. PICK copy : copy = Lowest(FreeBlocks)
  OBVIOUS
<1>3. PICK irq : irq = Lowest(FreeBlocks \ {copy})
  OBVIOUS
<1>4. PICK c : c = [pid |-> next_pid, at |-> ctx.at]
  OBVIOUS
<1>5. PICK old : old = Pushed
  OBVIOUS
<1>6. /\ cpu = "run" /\ SlotFree /\ next_pid <= MaxPid
      /\ FreeBlocks # {} /\ FreeBlocks \ {Lowest(FreeBlocks)} # {}
      /\ task_count' = Counted(n) /\ heap' = heap \cup {copy, irq}
      /\ Publish(n, TRUE, NULL, irq, copy, Slice)
      /\ frame' = [old EXCEPT ![copy] = c] /\ parked' = [parked EXCEPT ![n] = c]
      /\ UNCHANGED <<current, esp0, ctx, create, sti, cpu>>
  BY <1>1, <1>2, <1>3, <1>4, <1>5 DEF Fork, InProcess, Running
<1>7. copy \in Block \ heap /\ irq \in Block \ heap /\ irq # copy
  BY <1>2, <1>3, <1>6, FreshBlocks
<1>8. c \in Context /\ c.pid = next_pid
  BY <1>4, SchedAssumption DEF Inv, TypeOK, Context
<1>9. /\ old \in [Stack -> Context]
      /\ \A s \in Slot : ready[s] /\ s # current /\ esp[s] # NULL => old[esp[s]] = frame[esp[s]]
  BY <1>5, <1>6, PushedFrame DEF Inv, TypeOK
<1> QED BY <1>1, <1>6, <1>7, <1>8, <1>9, NewTaskStep

\* A failed fork wipes at most a dead slot.
LEMMA ForkFailsInv == Inv /\ ForkFails => Inv'
<1> SUFFICES ASSUME Inv, ForkFails PROVE Inv'
  OBVIOUS
<1>1. PICK n : n = NewSlot
  OBVIOUS
<1>2. /\ cpu = "run" /\ task_count' = Counted(n) /\ frame' = Pushed /\ ready' = ready
      /\ current' = current /\ heap' = heap /\ esp0' = esp0 /\ ctx' = ctx /\ parked' = parked
      /\ create' = create /\ sti' = sti /\ cpu' = cpu
  BY <1>1 DEF ForkFails, InProcess, Running, table
<1>3. /\ n \in Slot /\ n # 0 /\ ~ ready[n] /\ n # current
      /\ (create.pc \in {"stack", "frame"} => n # create.slot)
      /\ Counted(n) \in 1..MaxTasks /\ Counted(n) >= task_count
  BY <1>1, <1>2, SlotFound DEF ForkFails
<1>4. /\ user \in [Slot -> BOOLEAN] /\ pid \in [Slot -> Pid]
      /\ esp \in [Slot -> Stack \cup {NULL}] /\ kstack \in [Slot -> Stack \cup {NULL}]
      /\ irq_stack \in [Slot -> Block \cup {NULL}] /\ slice_left \in [Slot -> Ticks]
      /\ next_pid \in Pid
  BY DEF Inv, TypeOK
<1>5. /\ user' \in [Slot -> BOOLEAN] /\ pid' \in [Slot -> Pid]
      /\ esp' \in [Slot -> Stack \cup {NULL}] /\ kstack' \in [Slot -> Stack \cup {NULL}]
      /\ irq_stack' \in [Slot -> Block \cup {NULL}] /\ slice_left' \in [Slot -> Ticks]
      /\ next_pid' \in Pid /\ next_pid <= next_pid'
      /\ \A s \in Slot : s # n =>
           /\ user'[s] = user[s] /\ pid'[s] = pid[s] /\ esp'[s] = esp[s]
           /\ kstack'[s] = kstack[s] /\ irq_stack'[s] = irq_stack[s]
  <2>1. CASE UNCHANGED <<table, next_pid>>
    BY <1>4, <2>1, SchedAssumption DEF table, Pid
  <2>2. CASE /\ next_pid <= MaxPid
             /\ next_pid' = next_pid + 1
             /\ user' = [user EXCEPT ![n] = TRUE]
             /\ pid'  = [pid EXCEPT ![n] = next_pid]
             /\ esp'  = [esp EXCEPT ![n] = NULL]
             /\ kstack' = [kstack EXCEPT ![n] = NULL]
             /\ irq_stack' = [irq_stack EXCEPT ![n] = NULL]
             /\ slice_left' = [slice_left EXCEPT ![n] = 0]
    <3>1. next_pid' \in Pid /\ next_pid <= next_pid'
      BY <1>4, <2>2, SchedAssumption DEF Pid
    <3>2. 0 \in Ticks
      BY SchedAssumption DEF Ticks
    <3> QED BY <1>3, <1>4, <2>2, <3>1, <3>2
  <2> QED BY <1>1, <2>1, <2>2 DEF ForkFails
<1>6. \A s \in Slot : ready[s] => s # n
  BY <1>3
<1>7. Pushed \in [Stack -> Context]
  BY <1>2, PushedFrame
<1>8. TypeOK'
  <2>1. task_count' \in 1..MaxTasks /\ current' \in 0..(task_count' - 1)
    BY <1>2, <1>3, SchedAssumption DEF Inv, TypeOK
  <2> QED BY <1>2, <1>5, <1>7, <2>1 DEF Inv, TypeOK
<1>9. Tasks'
  <2>1. BootThread'
    BY <1>2, <1>3, <1>5, StackNumbers DEF Inv, Tasks, BootThread
  <2>2. Counts'
    BY <1>2, <1>3, SchedAssumption DEF Inv, TypeOK, Tasks, Counts, Slot
  <2>3. PidsFresh'
    <3> SUFFICES ASSUME NEW s \in Slot, ready[s] PROVE pid'[s] < next_pid'
      BY <1>2 DEF PidsFresh
    <3>1. pid[s] < next_pid /\ pid'[s] = pid[s] /\ pid[s] \in Pid
      BY <1>4, <1>5, <1>6 DEF Inv, Tasks, PidsFresh
    <3> QED BY <1>4, <1>5, <3>1, SchedAssumption DEF Pid
  <2>4. PidsUnique'
    BY <1>2, <1>5, <1>6 DEF Inv, Tasks, PidsUnique
  <2>5. Equipped'
    BY <1>2, <1>5, <1>6 DEF Inv, Tasks, Equipped
  <2> QED BY <2>1, <2>2, <2>3, <2>4, <2>5 DEF Tasks
<1>10. \A s \in Slot : ready[s] => Owned(s)' = Owned(s)
  BY <1>5, <1>6 DEF Owned
<1>11. Stacks'
  BY <1>2, <1>10 DEF Inv, Stacks, Allocated, Apart
<1>12. Saved'
  <2> SUFFICES ASSUME NEW s \in Slot, ready[s], s # current, esp'[s] # NULL
               PROVE  frame'[esp'[s]] = parked[s] /\ parked[s].pid = pid'[s]
    BY <1>2 DEF Saved
  <2>1. esp'[s] = esp[s] /\ pid'[s] = pid[s] /\ esp[s] \in Stack
    BY <1>4, <1>5, <1>6
  <2>2. frame'[esp[s]] = frame[esp[s]]
    BY <1>2, <2>1, PushedFrame
  <2> QED BY <2>1, <2>2 DEF Inv, Saved
<1>13. CurrentOwnsCpu'
  <2>1. current \in Slot
    BY SchedAssumption DEF Inv, TypeOK, Slot
  <2> QED BY <1>2, <1>3, <1>5, <2>1 DEF Inv, CurrentOwnsCpu
<1>14. Creating'
  <2>1. create.slot \in Slot
    BY DEF Inv, TypeOK
  <2>2. create.pc # "idle" => create.slot \in 1..(task_count' - 1)
    BY <1>2, <1>3, SchedAssumption DEF Inv, TypeOK, Creating, Slot
  <2>3. create.pc \in {"stack", "frame"} => create.slot # n
    BY <1>3
  <2>4. create.pc \in {"stack", "frame"} =>
          /\ ready[create.slot] /\ user'[create.slot] /\ esp'[create.slot] = NULL
          /\ create.slot # current
    BY <1>2, <1>5, <2>1, <2>3 DEF Inv, Creating
  <2>5. create.pc = "frame" => irq_stack'[create.slot] # NULL
    BY <1>5, <2>1, <2>3 DEF Inv, Creating
  <2> QED BY <1>2, <2>2, <2>4, <2>5 DEF Creating
<1> QED BY <1>8, <1>9, <1>11, <1>12, <1>13, <1>14 DEF Inv

------------------------------------------------------------------------------
(* task_create_user, step by step. *)

LEMMA CreateSlotInv == Inv /\ CreateSlot => Inv'
<1> SUFFICES ASSUME Inv, CreateSlot PROVE Inv'
  OBVIOUS
<1>1. PICK n : n = NewSlot
  OBVIOUS
<1>2. /\ cpu = "run" /\ create' = [pc |-> "slot", slot |-> n] /\ task_count' = Counted(n)
      /\ UNCHANGED <<table, current, next_pid, heap, frame, esp0, ctx, parked, sti, cpu>>
  BY <1>1 DEF CreateSlot, InBootThread
<1>3. /\ n \in Slot /\ n # 0 /\ Counted(n) \in 1..MaxTasks /\ Counted(n) >= task_count
      /\ n < Counted(n)
  BY <1>1, SlotFound DEF CreateSlot
<1>4. /\ ready' = ready /\ user' = user /\ pid' = pid /\ esp' = esp /\ kstack' = kstack
      /\ irq_stack' = irq_stack /\ slice_left' = slice_left /\ current' = current
      /\ next_pid' = next_pid /\ heap' = heap /\ frame' = frame /\ esp0' = esp0
      /\ ctx' = ctx /\ parked' = parked /\ sti' = sti /\ cpu' = cpu
  BY <1>2 DEF table
<1>5. TypeOK'
  <2>1. task_count' \in 1..MaxTasks /\ current' \in 0..(task_count' - 1)
    BY <1>2, <1>3, <1>4, SchedAssumption DEF Inv, TypeOK
  <2> QED BY <1>2, <1>3, <1>4, <2>1 DEF Inv, TypeOK
<1>6. Tasks'
  <2>1. Counts'
    BY <1>2, <1>3, <1>4, SchedAssumption DEF Inv, TypeOK, Tasks, Counts, Slot
  <2> QED BY <1>4, <2>1 DEF Inv, Tasks, BootThread, PidsFresh, PidsUnique, Equipped
<1>7. Stacks'
  BY <1>4 DEF Inv, Stacks, Allocated, Apart, Owned
<1>8. Saved' /\ CurrentOwnsCpu'
  BY <1>4 DEF Inv, Saved, CurrentOwnsCpu
<1>9. Creating'
  <2>1. n \in 1..(task_count' - 1)
    BY <1>2, <1>3, SchedAssumption DEF Slot
  <2> QED BY <1>2, <2>1 DEF Creating
<1> QED BY <1>5, <1>6, <1>7, <1>8, <1>9 DEF Inv

\* The slot may have been taken by a fork meanwhile; whoever is in it, it is not the
\* boot thread, which runs this.
LEMMA CreatePublishInv == Inv /\ CreatePublish => Inv'
<1> SUFFICES ASSUME Inv, CreatePublish PROVE Inv'
  OBVIOUS
<1>1. PICK n : n = create.slot
  OBVIOUS
<1>2. /\ cpu = "run" /\ current = 0 /\ create.pc = "slot" /\ next_pid <= MaxPid
      /\ ready' = [ready EXCEPT ![n] = TRUE] /\ user' = [user EXCEPT ![n] = TRUE]
      /\ pid' = [pid EXCEPT ![n] = next_pid] /\ kstack' = [kstack EXCEPT ![n] = NULL]
      /\ irq_stack' = [irq_stack EXCEPT ![n] = NULL] /\ esp' = [esp EXCEPT ![n] = NULL]
      /\ slice_left' = [slice_left EXCEPT ![n] = 0] /\ next_pid' = next_pid + 1
      /\ create' = [create EXCEPT !.pc = "stack"]
      /\ task_count' = task_count /\ current' = current /\ heap' = heap /\ frame' = frame
      /\ esp0' = esp0 /\ ctx' = ctx /\ parked' = parked /\ sti' = sti /\ cpu' = cpu
  BY <1>1 DEF CreatePublish, InBootThread, Publish, PidUsed
<1>3. n \in Slot /\ n \in 1..(task_count - 1) /\ n # 0 /\ n < task_count
  BY <1>1, <1>2, SchedAssumption DEF Inv, TypeOK, Creating
<1>4. /\ ready \in [Slot -> BOOLEAN] /\ user \in [Slot -> BOOLEAN] /\ pid \in [Slot -> Pid]
      /\ esp \in [Slot -> Stack \cup {NULL}] /\ kstack \in [Slot -> Stack \cup {NULL}]
      /\ irq_stack \in [Slot -> Block \cup {NULL}] /\ slice_left \in [Slot -> Ticks]
      /\ next_pid \in Pid /\ create \in [pc : {"idle", "slot", "stack", "frame"}, slot : Slot]
  BY DEF Inv, TypeOK
<1>5. \A s \in Slot : s # n =>
        /\ ready'[s] = ready[s] /\ user'[s] = user[s] /\ pid'[s] = pid[s] /\ esp'[s] = esp[s]
        /\ kstack'[s] = kstack[s] /\ irq_stack'[s] = irq_stack[s]
  BY <1>2, <1>4
<1>6. /\ ready'[n] /\ user'[n] /\ pid'[n] = next_pid /\ esp'[n] = NULL
      /\ kstack'[n] = NULL /\ irq_stack'[n] = NULL
  BY <1>2, <1>3, <1>4
<1>7. create'.pc = "stack" /\ create'.slot = n
  BY <1>1, <1>2, <1>4
<1>8. TypeOK'
  <2>1. next_pid + 1 \in Pid /\ 0 \in Ticks
    BY <1>2, <1>4, SchedAssumption DEF Pid, Ticks
  <2>2. /\ ready' \in [Slot -> BOOLEAN] /\ user' \in [Slot -> BOOLEAN] /\ pid' \in [Slot -> Pid]
        /\ esp' \in [Slot -> Stack \cup {NULL}] /\ kstack' \in [Slot -> Stack \cup {NULL}]
        /\ irq_stack' \in [Slot -> Block \cup {NULL}] /\ slice_left' \in [Slot -> Ticks]
        /\ next_pid' \in Pid
        /\ create' \in [pc : {"idle", "slot", "stack", "frame"}, slot : Slot]
    BY <1>2, <1>4, <2>1
  <2> QED BY <1>2, <2>2 DEF Inv, TypeOK
<1>9. Tasks'
  <2>1. BootThread' /\ Counts'
    BY <1>2, <1>3, <1>5, StackNumbers DEF Inv, Tasks, BootThread, Counts
  <2>2. PidsFresh' /\ PidsUnique'
    <3>1. \A s \in Slot : ready[s] => pid[s] < next_pid /\ pid[s] # next_pid
      BY <1>4, SchedAssumption DEF Inv, Tasks, PidsFresh, Pid
    <3>2. PidsFresh'
      BY <1>2, <1>4, <1>5, <1>6, <3>1, SchedAssumption DEF PidsFresh, Pid
    <3>3. PidsUnique'
      BY <1>5, <1>6, <3>1 DEF Inv, Tasks, PidsUnique
    <3> QED BY <3>2, <3>3
  <2>3. Equipped'
    BY <1>5, <1>6 DEF Inv, Tasks, Equipped
  <2> QED BY <2>1, <2>2, <2>3 DEF Tasks
<1>10. (\A s \in Slot : s # n => Owned(s)' = Owned(s)) /\ Owned(n)' = {}
  BY <1>5, <1>6 DEF Owned
<1>11. Stacks'
  BY <1>2, <1>5, <1>10 DEF Inv, Stacks, Allocated, Apart
<1>12. Saved'
  BY <1>2, <1>5, <1>6 DEF Inv, Saved
<1>13. CurrentOwnsCpu'
  BY <1>2, <1>3, <1>5, StackNumbers DEF Inv, CurrentOwnsCpu
<1>14. Creating'
  BY <1>2, <1>3, <1>6, <1>7 DEF Creating
<1> QED BY <1>8, <1>9, <1>11, <1>12, <1>13, <1>14 DEF Inv

\* The interrupt stack is a fresh block, or the task is taken back.
LEMMA CreateStackInv == Inv /\ CreateStack => Inv'
<1> SUFFICES ASSUME Inv, CreateStack PROVE Inv'
  OBVIOUS
<1>1. PICK n : n = create.slot
  OBVIOUS
<1>2. /\ cpu = "run" /\ current = 0 /\ create.pc = "stack"
      /\ user' = user /\ pid' = pid /\ esp' = esp /\ kstack' = kstack
      /\ slice_left' = slice_left /\ task_count' = task_count /\ current' = current
      /\ next_pid' = next_pid /\ frame' = frame /\ esp0' = esp0 /\ ctx' = ctx
      /\ parked' = parked /\ sti' = sti /\ cpu' = cpu
  BY DEF CreateStack, InBootThread
<1>3. /\ n \in Slot /\ n \in 1..(task_count - 1) /\ n # 0
      /\ ready[n] /\ user[n] /\ esp[n] = NULL
  BY <1>1, <1>2, SchedAssumption DEF Inv, TypeOK, Creating
<1>4. /\ ready \in [Slot -> BOOLEAN] /\ irq_stack \in [Slot -> Block \cup {NULL}]
      /\ heap \subseteq Block /\ create \in [pc : {"idle", "slot", "stack", "frame"}, slot : Slot]
  BY DEF Inv, TypeOK
<1>5. CASE /\ FreeBlocks # {}
           /\ heap' = heap \cup {Lowest(FreeBlocks)}
           /\ irq_stack' = [irq_stack EXCEPT ![n] = Lowest(FreeBlocks)]
           /\ create' = [create EXCEPT !.pc = "frame"]
           /\ UNCHANGED ready
  <2>1. PICK irq : irq = Lowest(FreeBlocks)
    OBVIOUS
  <2>2. /\ irq \in Block /\ irq \notin heap /\ irq # NULL /\ irq # BootStack
    BY <1>5, <2>1, FreshBlocks, StackNumbers
  <2>3. /\ heap' = heap \cup {irq} /\ irq_stack' = [irq_stack EXCEPT ![n] = irq]
        /\ create'.pc = "frame" /\ create'.slot = n /\ ready' = ready
        /\ create' \in [pc : {"idle", "slot", "stack", "frame"}, slot : Slot]
    BY <1>1, <1>4, <1>5, <2>1
  <2>4. irq_stack'[n] = irq /\ \A s \in Slot : s # n => irq_stack'[s] = irq_stack[s]
    BY <1>3, <1>4, <2>3
  <2>5. TypeOK'
    BY <1>2, <1>4, <2>2, <2>3 DEF Inv, TypeOK
  <2>6. Tasks'
    BY <1>2, <1>3, <2>2, <2>3, <2>4, StackNumbers
       DEF Inv, Tasks, BootThread, Counts, PidsFresh, PidsUnique, Equipped
  <2>7. /\ \A s \in Slot : s # n => Owned(s)' = Owned(s)
        /\ Owned(n)' \subseteq Owned(n) \cup {irq}
    BY <1>2, <2>4 DEF Owned
  <2>8. ASSUME NEW s \in Slot, ready[s] PROVE irq \notin Owned(s)
    <3>1. CASE s = 0
      <4>1. Owned(s) \subseteq {BootStack}
        BY <3>1 DEF Inv, Tasks, BootThread, Owned
      <4> QED BY <2>2, <4>1
    <3>2. CASE s # 0
      BY <2>2, <2>8, <3>2 DEF Inv, Stacks, Allocated
    <3> QED BY <3>1, <3>2
  <2>9. Stacks'
    <3>1. Allocated'
      BY <1>3, <2>3, <2>7 DEF Inv, Stacks, Allocated
    <3>2. Apart'
      <4> SUFFICES ASSUME NEW s \in Slot, NEW t \in Slot, ready[s], ready[t], s # t
                   PROVE  Owned(s)' \cap Owned(t)' = {}
        BY <2>3 DEF Apart
      <4>1. Owned(s) \cap Owned(t) = {} /\ irq \notin Owned(s) /\ irq \notin Owned(t)
        BY <2>8 DEF Inv, Stacks, Apart
      <4>2. CASE s = n
        BY <2>7, <4>1, <4>2
      <4>3. CASE t = n
        BY <2>7, <4>1, <4>3
      <4>4. CASE s # n /\ t # n
        BY <2>7, <4>1, <4>4
      <4> QED BY <4>2, <4>3, <4>4
    <3> QED BY <3>1, <3>2 DEF Stacks
  <2>10. Saved' /\ CurrentOwnsCpu'
    BY <1>2, <1>3, <2>3, <2>4, StackNumbers DEF Inv, Saved, CurrentOwnsCpu
  <2>11. Creating'
    BY <1>2, <1>3, <2>2, <2>3, <2>4 DEF Creating
  <2> QED BY <2>5, <2>6, <2>9, <2>10, <2>11 DEF Inv
<1>6. CASE /\ ready' = [ready EXCEPT ![n] = FALSE]
           /\ create' = Idle
           /\ UNCHANGED <<heap, irq_stack>>
  <2>1. /\ \A s \in Slot : ready'[s] <=> (ready[s] /\ s # n)
        /\ ready' \in [Slot -> BOOLEAN] /\ heap' = heap /\ irq_stack' = irq_stack
        /\ create'.pc = "idle" /\ create' \in [pc : {"idle", "slot", "stack", "frame"}, slot : Slot]
    BY <1>3, <1>4, <1>6, StackNumbers DEF Idle
  <2>2. TypeOK'
    BY <1>2, <2>1 DEF Inv, TypeOK
  <2>3. Tasks'
    BY <1>2, <1>3, <2>1, StackNumbers
       DEF Inv, Tasks, BootThread, Counts, PidsFresh, PidsUnique, Equipped
  <2>4. Stacks'
    BY <1>2, <2>1 DEF Inv, Stacks, Allocated, Apart, Owned
  <2>5. Saved' /\ CurrentOwnsCpu' /\ Creating'
    BY <1>2, <1>3, <2>1, StackNumbers DEF Inv, Saved, CurrentOwnsCpu, Creating
  <2> QED BY <2>2, <2>3, <2>4, <2>5 DEF Inv
<1> QED BY <1>1, <1>5, <1>6 DEF CreateStack

\* The first frame goes into a fresh block; without one the task keeps no frame.
LEMMA CreateFrameInv == Inv /\ CreateFrame => Inv'
<1> SUFFICES ASSUME Inv, CreateFrame PROVE Inv'
  OBVIOUS
<1>1. PICK n : n = create.slot
  OBVIOUS
<1>2. /\ cpu = "run" /\ current = 0 /\ create.pc = "frame"
      /\ slice_left' = [slice_left EXCEPT ![n] = Slice] /\ create' = Idle
      /\ ready' = ready /\ user' = user /\ pid' = pid /\ kstack' = kstack
      /\ irq_stack' = irq_stack /\ task_count' = task_count /\ current' = current
      /\ next_pid' = next_pid /\ esp0' = esp0 /\ ctx' = ctx /\ sti' = sti /\ cpu' = cpu
  BY <1>1 DEF CreateFrame, InBootThread
<1>3. /\ n \in Slot /\ n \in 1..(task_count - 1) /\ n # 0
      /\ ready[n] /\ user[n] /\ esp[n] = NULL /\ irq_stack[n] # NULL
  BY <1>1, <1>2, SchedAssumption DEF Inv, TypeOK, Creating
<1>4. /\ esp \in [Slot -> Stack \cup {NULL}] /\ frame \in [Stack -> Context]
      /\ parked \in [Slot -> Context] /\ heap \subseteq Block /\ slice_left \in [Slot -> Ticks]
      /\ pid \in [Slot -> Pid]
  BY DEF Inv, TypeOK
<1>5. /\ create'.pc = "idle" /\ create' \in [pc : {"idle", "slot", "stack", "frame"}, slot : Slot]
      /\ slice_left' \in [Slot -> Ticks]
  BY <1>2, <1>4, StackNumbers, SliceTypes DEF Idle
<1>6. CASE /\ FreeBlocks # {}
           /\ LET area == Lowest(FreeBlocks)
                  c    == [pid |-> pid[n], at |-> 0]
              IN /\ heap' = heap \cup {area}
                 /\ frame' = [frame EXCEPT ![area] = c]
                 /\ esp' = [esp EXCEPT ![n] = area]
                 /\ parked' = [parked EXCEPT ![n] = c]
  <2>1. PICK area : area = Lowest(FreeBlocks)
    OBVIOUS
  <2>2. PICK c : c = [pid |-> pid[n], at |-> 0]
    OBVIOUS
  <2>3. /\ area \in Block /\ area \in Stack /\ area \notin heap /\ area # NULL /\ area # BootStack
    BY <1>6, <2>1, FreshBlocks, StackNumbers
  <2>4. c \in Context /\ c.pid = pid[n]
    BY <1>3, <1>4, <2>2, SchedAssumption DEF Context
  <2>5. /\ heap' = heap \cup {area} /\ frame' = [frame EXCEPT ![area] = c]
        /\ esp' = [esp EXCEPT ![n] = area] /\ parked' = [parked EXCEPT ![n] = c]
    BY <1>6, <2>1, <2>2
  <2>6. /\ esp'[n] = area /\ parked'[n] = c /\ frame'[area] = c
        /\ \A s \in Slot : s # n => esp'[s] = esp[s] /\ parked'[s] = parked[s]
        /\ \A b \in Stack : b # area => frame'[b] = frame[b]
    BY <1>3, <1>4, <2>3, <2>5
  <2>7. TypeOK'
    BY <1>2, <1>4, <1>5, <2>3, <2>4, <2>5 DEF Inv, TypeOK
  <2>8. Tasks'
    BY <1>2, <1>3, <2>6, StackNumbers
       DEF Inv, Tasks, BootThread, Counts, PidsFresh, PidsUnique, Equipped
  <2>9. /\ \A s \in Slot : s # n => Owned(s)' = Owned(s)
        /\ Owned(n)' \subseteq Owned(n) \cup {area}
    BY <1>2, <2>6 DEF Owned
  <2>10. ASSUME NEW s \in Slot, ready[s] PROVE area \notin Owned(s)
    <3>1. CASE s = 0
      <4>1. Owned(s) \subseteq {BootStack}
        BY <3>1 DEF Inv, Tasks, BootThread, Owned
      <4> QED BY <2>3, <4>1
    <3>2. CASE s # 0
      BY <2>3, <2>10, <3>2 DEF Inv, Stacks, Allocated
    <3> QED BY <3>1, <3>2
  <2>11. Stacks'
    <3>1. Allocated'
      BY <1>2, <1>3, <2>5, <2>9 DEF Inv, Stacks, Allocated
    <3>2. Apart'
      <4> SUFFICES ASSUME NEW s \in Slot, NEW t \in Slot, ready[s], ready[t], s # t
                   PROVE  Owned(s)' \cap Owned(t)' = {}
        BY <1>2 DEF Apart
      <4>1. Owned(s) \cap Owned(t) = {} /\ area \notin Owned(s) /\ area \notin Owned(t)
        BY <2>10 DEF Inv, Stacks, Apart
      <4>2. CASE s = n
        BY <2>9, <4>1, <4>2
      <4>3. CASE t = n
        BY <2>9, <4>1, <4>3
      <4>4. CASE s # n /\ t # n
        BY <2>9, <4>1, <4>4
      <4> QED BY <4>2, <4>3, <4>4
    <3> QED BY <3>1, <3>2 DEF Stacks
  <2>12. Saved'
    <3> SUFFICES ASSUME NEW s \in Slot, ready[s], s # current, esp'[s] # NULL
                 PROVE  frame'[esp'[s]] = parked'[s] /\ parked'[s].pid = pid[s]
      BY <1>2 DEF Saved
    <3>1. CASE s = n
      BY <2>4, <2>6, <3>1
    <3>2. CASE s # n
      <4>1. esp'[s] = esp[s] /\ parked'[s] = parked[s] /\ esp[s] \in Stack
        BY <1>4, <2>6, <3>2
      <4>2. esp[s] # area
        BY <2>10, <4>1 DEF Owned
      <4> QED BY <2>6, <4>1, <4>2 DEF Inv, Saved
    <3> QED BY <3>1, <3>2
  <2>13. CurrentOwnsCpu' /\ Creating'
    BY <1>2, <1>5 DEF Inv, CurrentOwnsCpu, Creating
  <2> QED BY <2>7, <2>8, <2>11, <2>12, <2>13 DEF Inv
<1>7. CASE UNCHANGED <<heap, frame, esp, parked>>
  <2>1. TypeOK'
    BY <1>2, <1>5, <1>7 DEF Inv, TypeOK
  <2>2. Tasks' /\ Stacks'
    BY <1>2, <1>7 DEF Inv, Tasks, BootThread, Counts, PidsFresh, PidsUnique, Equipped,
                      Stacks, Allocated, Apart, Owned
  <2>3. Saved' /\ CurrentOwnsCpu' /\ Creating'
    BY <1>2, <1>5, <1>7 DEF Inv, Saved, CurrentOwnsCpu, Creating
  <2> QED BY <2>1, <2>2, <2>3 DEF Inv
<1> QED BY <1>1, <1>6, <1>7 DEF CreateFrame

------------------------------------------------------------------------------
(* The theorems. *)

LEMMA Invariance == Spec => []Inv
<1>1. ASSUME Inv, [Next]_vars PROVE Inv'
  <2>1. CASE TaskCreate BY <1>1, <2>1, TaskCreateInv
  <2>2. CASE EnableInterrupts BY <1>1, <2>2, EnableInterruptsInv
  <2>3. CASE CreateSlot BY <1>1, <2>3, CreateSlotInv
  <2>4. CASE CreatePublish BY <1>1, <2>4, CreatePublishInv
  <2>5. CASE CreateStack BY <1>1, <2>5, CreateStackInv
  <2>6. CASE CreateFrame BY <1>1, <2>6, CreateFrameInv
  <2>7. CASE TickKeeps BY <1>1, <2>7, TickKeepsInv
  <2>8. CASE TickSwitches BY <1>1, <2>8, TickSwitchesInv
  <2>9. CASE Trap BY <1>1, <2>9, TrapInv
  <2>16. CASE Panic BY <1>1, <2>16, PanicInv
  <2>10. CASE Advance BY <1>1, <2>10, AdvanceInv
  <2>11. CASE \E n \in SleepTicks : Sleep(n) BY <1>1, <2>11, SleepInv
  <2>12. CASE Exit BY <1>1, <2>12, ExitInv
  <2>13. CASE Fork BY <1>1, <2>13, ForkInv
  <2>14. CASE ForkFails BY <1>1, <2>14, ForkFailsInv
  <2>15. CASE UNCHANGED vars
    <3>1. /\ ready' = ready /\ user' = user /\ pid' = pid /\ esp' = esp /\ kstack' = kstack
          /\ irq_stack' = irq_stack /\ slice_left' = slice_left /\ task_count' = task_count
          /\ current' = current /\ next_pid' = next_pid /\ heap' = heap /\ frame' = frame
          /\ esp0' = esp0 /\ ctx' = ctx /\ parked' = parked /\ create' = create
          /\ sti' = sti /\ cpu' = cpu
      BY <2>15 DEF vars, table
    <3>2. TypeOK' /\ Tasks' /\ Stacks'
      BY <1>1, <3>1 DEF Inv, TypeOK, Tasks, BootThread, Counts, PidsFresh, PidsUnique,
                        Equipped, Stacks, Allocated, Apart, Owned
    <3>3. Saved' /\ CurrentOwnsCpu' /\ Creating'
      BY <1>1, <3>1 DEF Inv, Saved, CurrentOwnsCpu, Creating
    <3> QED BY <3>2, <3>3 DEF Inv
  <2> QED
    BY <1>1, <2>1, <2>2, <2>3, <2>4, <2>5, <2>6, <2>7, <2>8, <2>9, <2>10, <2>11, <2>12,
       <2>13, <2>14, <2>15, <2>16 DEF Next, Create, Tick
<1> QED BY <1>1, InitInv, PTL DEF Spec

\* Every variable keeps its type: in particular the scan never leaves the table, the
\* task found by it exists, and no trap is pushed on a stack that is not there.
THEOREM SchedTypes == Spec => []TypeOK
<1>1. Inv => TypeOK
  BY DEF Inv
<1> QED BY <1>1, Invariance, PTL

\* A task off the CPU is resumed from the frame it was taken off with, whatever traps,
\* forks, exits and creations come between: switch_to and the private stacks.
THEOREM FramesIntact == Spec => []ParkedFramesIntact
<1>1. Inv => ParkedFramesIntact
  BY DEF Inv, Saved, ParkedFramesIntact
<1> QED BY <1>1, Invariance, PTL

\* The slot `current' names is ready and is the task on the CPU, and the TSS sends its
\* next trap to its own interrupt stack.
THEOREM OwnerRuns == Spec => []CurrentOwnsCpu
<1>1. Inv => CurrentOwnsCpu
  BY DEF Inv
<1> QED BY <1>1, Invariance, PTL

\* No two ready tasks share a stack or a saved frame, and theirs are allocated, through
\* every reuse of slots by task_create, task_create_user and fork.
THEOREM PrivateStacks == Spec => []StacksPrivate
<1>1. Inv => StacksPrivate
  <2> SUFFICES ASSUME Inv, NEW s \in Slot, NEW t \in Slot, ready[s], ready[t], s # t
               PROVE  Owned(s) \cap Owned(t) = {} /\ Owned(s) \cap Block \subseteq heap
    BY DEF StacksPrivate
  <2>1. Owned(s) \cap Owned(t) = {}
    BY DEF Inv, Stacks, Apart
  <2>2. CASE s = 0
    <3>1. Owned(s) \subseteq {BootStack}
      BY <2>2 DEF Inv, Tasks, BootThread, Owned
    <3> QED BY <2>1, <3>1, StackNumbers
  <2>3. CASE s # 0
    BY <2>1, <2>3 DEF Inv, Stacks, Allocated
  <2> QED BY <2>2, <2>3
<1> QED BY <1>1, Invariance, PTL

\* Ready tasks have different pids, although slots are reused and some creations fail
\* after they took one.
THEOREM UniquePids == Spec => []PidsUnique
<1>1. Inv => PidsUnique
  BY DEF Inv, Tasks
<1> QED BY <1>1, Invariance, PTL
==============================================================================
