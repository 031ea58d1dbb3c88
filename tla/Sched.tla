------------------------------- MODULE Sched ---------------------------------
(* The round-robin scheduler: kernel/sched.c with the timer handler of
   kernel/timer.c, the dispatch of kernel/isr.c and isr_stubs.asm, the TSS of
   kernel/user.c, and SYS_exit, SYS_fork, SYS_sleep of kernel/syscall.c.

   What a task is doing is a context: the pid of the task it belongs to and a
   program counter that moves as the task runs.  A trap pushes the context as a
   frame: at esp0 when it leaves ring 3, on the thread's own stack when it was
   in ring 0 already.  Stacks and frame copies are kmalloc blocks; a frame stays
   in its block until something is pushed there, so a task is resumed correctly
   only if its saved ESP names a frame nobody pushed over.

   Handlers run with interrupts off and are single actions.  task_create_user
   called by the shell is not a handler: it runs in steps, and Preemptive says
   whether a tick may come between two of them.                               *)
EXTENDS Naturals, FiniteSets

CONSTANTS MaxTasks,      \* MAX_TASKS
          Slice,         \* ticks of a time slice (5)
          HeapBlocks,    \* kernel-heap blocks for stacks and frames
          MaxPid,        \* bound on next_pid
          Points,        \* program points a context can be at
          SleepTicks,    \* arguments of SYS_sleep, after the clamp to 1..1000
          Preemptive     \* may a tick interrupt task_create_user?

Slot  == 0..(MaxTasks - 1)
Block == 1..HeapBlocks
NULL  == 0
BootStack == HeapBlocks + 1      \* the linker's kernel stack, the boot thread's
SysStack  == HeapBlocks + 2      \* sys_stack_top, the first esp0
Stack == Block \cup {BootStack, SysStack}
Pid   == 0..(MaxPid + 1)
Ticks == UNION {0..n : n \in SleepTicks \cup {Slice}}

ASSUME SchedAssumption ==
  /\ MaxTasks \in Nat /\ MaxTasks > 1 /\ Slice \in Nat /\ HeapBlocks \in Nat
  /\ MaxPid \in Nat /\ MaxPid > 0 /\ Points \in Nat \ {0}
  /\ SleepTicks \subseteq Nat \ {0}
  /\ Preemptive \in BOOLEAN

VARIABLES
  ready, user,     \* tasks[].state and flags = TASK_USER
  pid,             \* tasks[].pid
  esp,             \* tasks[].esp: the stack or block that holds the saved frame
  kstack,          \* stack_bottom: a kernel thread's own stack
  irq_stack,       \* irq_stack_top
  slice_left,
  task_count, current, next_pid,
  heap,            \* the kmalloc blocks in use
  frame,           \* the last frame pushed on a stack, or copied into a block
  esp0,            \* the TSS field
  ctx,             \* the context on the CPU
  parked,          \* history: the context each task was last taken off the CPU with
  create,          \* the task_create_user in progress: step and slot
  sti,             \* interrupts are on
  cpu              \* "run"; "lost": resumed a task without a frame; "halted": an
                   \* exception that isr_common_handler answers with cli and hlt

table  == <<ready, user, pid, esp, kstack, irq_stack, slice_left>>
vars   == <<table, task_count, current, next_pid, heap, frame, esp0, ctx, parked,
            create, sti, cpu>>

Context == [pid : Pid, at : 0..(Points - 1)]
NoContext == [pid |-> 0, at |-> 0]

TypeOK ==
  /\ ready \in [Slot -> BOOLEAN] /\ user \in [Slot -> BOOLEAN]
  /\ pid \in [Slot -> Pid]
  /\ esp \in [Slot -> Stack \cup {NULL}]
  /\ kstack \in [Slot -> Stack \cup {NULL}]
  /\ irq_stack \in [Slot -> Block \cup {NULL}]
  /\ slice_left \in [Slot -> Ticks]
  /\ task_count \in 1..MaxTasks /\ current \in 0..(task_count - 1)
  /\ next_pid \in Pid
  /\ heap \subseteq Block
  /\ frame \in [Stack -> Context]
  /\ esp0 \in Stack
  /\ ctx \in Context /\ parked \in [Slot -> Context]
  /\ create \in [pc : {"idle", "slot", "stack", "frame"}, slot : Slot]
  /\ sti \in BOOLEAN /\ cpu \in {"run", "lost", "halted"}

Idle == [pc |-> "idle", slot |-> 0]

\* sched_init and sched_adopt_current("main"): the boot thread is tasks[0].
Init ==
  /\ ready = [s \in Slot |-> s = 0]
  /\ user  = [s \in Slot |-> FALSE]
  /\ pid   = [s \in Slot |-> IF s = 0 THEN 1 ELSE 0]
  /\ esp   = [s \in Slot |-> NULL]
  /\ kstack = [s \in Slot |-> IF s = 0 THEN BootStack ELSE NULL]
  /\ irq_stack = [s \in Slot |-> NULL]
  /\ slice_left = [s \in Slot |-> IF s = 0 THEN Slice ELSE 0]
  /\ task_count = 1 /\ current = 0 /\ next_pid = 2
  /\ heap = {}
  /\ frame = [a \in Stack |-> NoContext]
  /\ esp0 = SysStack
  /\ ctx = [pid |-> 1, at |-> 0]
  /\ parked = [s \in Slot |-> NoContext]
  /\ create = Idle
  /\ sti = FALSE /\ cpu = "run"

------------------------------------------------------------------------------
(* The task table and the heap. *)

Lowest(S) == CHOOSE x \in S : \A y \in S : x <= y

\* alloc_slot: a dead slot below task_count, else a new one.
DeadSlots == {s \in Slot : s < task_count /\ ~ ready[s]}
SlotFree  == DeadSlots # {} \/ task_count < MaxTasks
NewSlot   == IF DeadSlots # {} THEN Lowest(DeadSlots) ELSE task_count
CountedTwice(s) == task_count + 1          \* mutant: a reused slot counts again
Counted(s) == IF s = task_count THEN task_count + 1 ELSE task_count

\* kmalloc: blocks nobody uses; first-fit.  Whether a request of its size fits is
\* decided by the layout of the arena, so any request may also fail.
Unmarked   == Block                      \* mutant: kmalloc marks nothing
FreeBlocks == Block \ heap

PidKept == UNCHANGED next_pid               \* mutant: next_pid not advanced
PidUsed == next_pid' = next_pid + 1

\* Slot s after memset and the assignments every creation makes.
Publish(s, isUser, stk, irq, saved, slc) ==
  /\ ready' = [ready EXCEPT ![s] = TRUE]
  /\ user'  = [user EXCEPT ![s] = isUser]
  /\ pid'   = [pid EXCEPT ![s] = next_pid]
  /\ kstack' = [kstack EXCEPT ![s] = stk]
  /\ irq_stack' = [irq_stack EXCEPT ![s] = irq]
  /\ esp'   = [esp EXCEPT ![s] = saved]
  /\ slice_left' = [slice_left EXCEPT ![s] = slc]
  /\ PidUsed

------------------------------------------------------------------------------
(* Traps and switches. *)

\* Where the CPU pushes the frame of a trap taken now.
TrapStack == IF user[current] THEN esp0 ELSE kstack[current]
Pushed    == [frame EXCEPT ![TrapStack] = ctx]

IsReady(i) == i < task_count /\ ready[i]
\* The first ready task after `from`, in table order; `reach` is how many
\* slots the loop looks at.
Successors(from, reach) == {i \in 1..reach : IsReady((from + i) % task_count)}
NextSlot(from, reach)   == (from + 1) % task_count     \* mutant: state not looked at
FirstReady(from, reach) ==                 \* mutant: the scan starts at slot 0
  LET others == {i \in Slot : IsReady(i) /\ i # from}
  IN  IF others = {} THEN from ELSE Lowest(others)
NextReady(from, reach)  == (from + Lowest(Successors(from, reach))) % task_count

\* user_set_kernel_stack(tasks[next].irq_stack_top); 0 leaves the TSS alone.
SharedStack(next)    == esp0                                \* mutant: one esp0 for all
KernelStackFor(next) == IF irq_stack[next] # NULL THEN irq_stack[next] ELSE esp0

\* mov esp, tasks[next].esp; unwind; iret.
Resume(next, saved, frames) ==
  /\ frame' = frames
  /\ esp0' = KernelStackFor(next)
  /\ current' = next
  /\ IF saved[next] # NULL
     THEN ctx' = frames[saved[next]] /\ UNCHANGED cpu
     ELSE cpu' = "lost" /\ UNCHANGED ctx

Running == cpu = "run" /\ sti
\* May a switch come now?
Interruptible == Running /\ (current = 0 /\ create.pc # "idle" => Preemptive)

\* IRQ0: timer_handler, sched_tick and switch_to.  The boot thread's esp is
\* pinned by sched_enter_irq on its first interrupt, and saved by every switch.
TickKeeps ==
  /\ Running
  /\ task_count < 2 \/ slice_left[current] > 0
  /\ frame' = Pushed
  /\ slice_left' = IF task_count < 2 THEN slice_left
                   ELSE [slice_left EXCEPT ![current] = @ - 1]
  /\ UNCHANGED <<ready, user, pid, esp, kstack, irq_stack, task_count, current,
                 next_pid, heap, esp0, ctx, parked, create, sti, cpu>>

TickSwitches ==
  /\ Interruptible
  /\ task_count >= 2 /\ slice_left[current] = 0
  /\ LET next  == NextReady(current, task_count)
         saved == [esp EXCEPT ![current] = TrapStack]
     IN /\ slice_left' = [slice_left EXCEPT ![current] = Slice, ![next] = Slice]
        /\ esp' = saved
        /\ parked' = [parked EXCEPT ![current] = ctx]
        /\ Resume(next, saved, Pushed)
  /\ UNCHANGED <<ready, user, pid, kstack, irq_stack, task_count, next_pid, heap,
                 create, sti>>

Tick == TickKeeps \/ TickSwitches

\* Any other interrupt, a page fault that copy-on-write resolves, or a syscall that
\* leaves the task table alone.
Trap ==
  /\ Running
  /\ frame' = Pushed
  /\ UNCHANGED <<table, task_count, current, next_pid, heap, esp0, ctx, parked,
                 create, sti, cpu>>

\* An exception in ring 0, or one from ring 3 that is not a page fault: the handler
\* reports it and stops the machine.
Panic ==
  /\ cpu = "run"
  /\ frame' = Pushed
  /\ sti' = FALSE /\ cpu' = "halted"
  /\ UNCHANGED <<table, task_count, current, next_pid, heap, esp0, ctx, parked, create>>

\* The task computes.
Advance ==
  /\ Running
  /\ ctx' = [ctx EXCEPT !.at = (@ + 1) % Points]
  /\ UNCHANGED <<table, task_count, current, next_pid, heap, frame, esp0, parked,
                 create, sti, cpu>>

InProcess == Running /\ user[current]

\* SYS_sleep: the slice becomes the delay; the caller keeps the CPU.
Sleep(n) ==
  /\ InProcess
  /\ slice_left' = [slice_left EXCEPT ![current] = n]
  /\ frame' = Pushed
  /\ UNCHANGED <<ready, user, pid, esp, kstack, irq_stack, task_count, current,
                 next_pid, heap, esp0, ctx, parked, create, sti, cpu>>

\* SYS_exit, or a kill by the page-fault handler: sched_exit_current.
Exit ==
  /\ InProcess
  /\ ready' = [ready EXCEPT ![current] = FALSE]
  /\ LET next == NextReady(current, task_count - 1)
     IN /\ slice_left' = [slice_left EXCEPT ![next] = Slice]
        /\ Resume(next, esp, Pushed)
  /\ UNCHANGED <<user, pid, esp, kstack, irq_stack, task_count, next_pid, heap,
                 parked, create, sti>>

------------------------------------------------------------------------------
(* Creation. *)

\* task_create, while kernel_main runs with interrupts off: a kernel thread with
\* its own stack, an interrupt stack and a fabricated frame.
TaskCreate ==
  /\ ~ sti /\ cpu = "run" /\ create.pc = "idle" /\ SlotFree /\ next_pid <= MaxPid
  /\ FreeBlocks # {} /\ FreeBlocks \ {Lowest(FreeBlocks)} # {}
  /\ LET s   == NewSlot
         stk == Lowest(FreeBlocks)
         irq == Lowest(FreeBlocks \ {stk})
         c   == [pid |-> next_pid, at |-> 0]
     IN /\ task_count' = Counted(s)
        /\ heap' = heap \cup {stk, irq}
        /\ Publish(s, FALSE, stk, irq, stk, Slice)
        /\ frame' = [frame EXCEPT ![stk] = c]
        /\ parked' = [parked EXCEPT ![s] = c]
  /\ UNCHANGED <<current, esp0, ctx, create, sti, cpu>>

EnableInterrupts ==
  /\ ~ sti /\ create.pc = "idle" /\ cpu = "run"
  /\ sti' = TRUE
  /\ UNCHANGED <<table, task_count, current, next_pid, heap, frame, esp0, ctx,
                 parked, create, cpu>>

\* task_create_user, called by the boot thread: at boot, and by the shell's `run`.
InBootThread == cpu = "run" /\ current = 0

CreateSlot ==
  /\ InBootThread /\ create.pc = "idle" /\ SlotFree /\ next_pid <= MaxPid
  /\ create' = [pc |-> "slot", slot |-> NewSlot]
  /\ task_count' = Counted(NewSlot)
  /\ UNCHANGED <<table, current, next_pid, heap, frame, esp0, ctx, parked, sti, cpu>>

\* memset, pid, state = 1: from here on the scheduler sees a ready task.
CreatePublish ==
  /\ InBootThread /\ create.pc = "slot" /\ next_pid <= MaxPid
  /\ Publish(create.slot, TRUE, NULL, NULL, NULL, 0)
  /\ create' = [create EXCEPT !.pc = "stack"]
  /\ UNCHANGED <<task_count, current, heap, frame, esp0, ctx, parked, sti, cpu>>

CreateStack ==
  /\ InBootThread /\ create.pc = "stack"
  /\ \/ /\ FreeBlocks # {}
        /\ heap' = heap \cup {Lowest(FreeBlocks)}
        /\ irq_stack' = [irq_stack EXCEPT ![create.slot] = Lowest(FreeBlocks)]
        /\ create' = [create EXCEPT !.pc = "frame"]
        /\ UNCHANGED ready
     \/ /\ ready' = [ready EXCEPT ![create.slot] = FALSE]
        /\ create' = Idle
        /\ UNCHANGED <<heap, irq_stack>>
  /\ UNCHANGED <<user, pid, esp, kstack, slice_left, task_count, current, next_pid,
                 frame, esp0, ctx, parked, sti, cpu>>

\* task_setup_user_stack: on a failed kmalloc it returns and the task keeps esp 0.
CreateFrame ==
  /\ InBootThread /\ create.pc = "frame"
  /\ slice_left' = [slice_left EXCEPT ![create.slot] = Slice]
  /\ create' = Idle
  /\ \/ /\ FreeBlocks # {}
        /\ LET area == Lowest(FreeBlocks)
               c    == [pid |-> pid[create.slot], at |-> 0]
           IN /\ heap' = heap \cup {area}
              /\ frame' = [frame EXCEPT ![area] = c]
              /\ esp' = [esp EXCEPT ![create.slot] = area]
              /\ parked' = [parked EXCEPT ![create.slot] = c]
     \/ UNCHANGED <<heap, frame, esp, parked>>
  /\ UNCHANGED <<ready, user, pid, kstack, irq_stack, task_count, current, next_pid,
                 esp0, ctx, sti, cpu>>

\* SYS_fork: task_fork_user copies the live syscall frame into a block of its own.
Fork ==
  /\ InProcess /\ SlotFree /\ next_pid <= MaxPid
  /\ FreeBlocks # {} /\ FreeBlocks \ {Lowest(FreeBlocks)} # {}
  /\ LET s    == NewSlot
         copy == Lowest(FreeBlocks)
         irq  == Lowest(FreeBlocks \ {copy})
         c    == [pid |-> next_pid, at |-> ctx.at]
     IN /\ task_count' = Counted(s)
        /\ heap' = heap \cup {copy, irq}
        /\ Publish(s, TRUE, NULL, irq, copy, Slice)
        /\ frame' = [Pushed EXCEPT ![copy] = c]
        /\ parked' = [parked EXCEPT ![s] = c]
  /\ UNCHANGED <<current, esp0, ctx, create, sti, cpu>>

\* fork fails: no address space or no frame copy leaves only task_count; no
\* interrupt stack leaves a wiped, dead slot and a used pid.
ForkFails ==
  /\ InProcess /\ SlotFree
  /\ task_count' = Counted(NewSlot)
  /\ frame' = Pushed
  /\ \/ UNCHANGED <<table, next_pid>>
     \/ /\ next_pid <= MaxPid
        /\ next_pid' = next_pid + 1
        /\ user' = [user EXCEPT ![NewSlot] = TRUE]
        /\ pid'  = [pid EXCEPT ![NewSlot] = next_pid]
        /\ esp'  = [esp EXCEPT ![NewSlot] = NULL]
        /\ kstack' = [kstack EXCEPT ![NewSlot] = NULL]
        /\ irq_stack' = [irq_stack EXCEPT ![NewSlot] = NULL]
        /\ slice_left' = [slice_left EXCEPT ![NewSlot] = 0]
        /\ UNCHANGED ready
  /\ UNCHANGED <<current, heap, esp0, ctx, parked, create, sti, cpu>>

------------------------------------------------------------------------------
Create == CreateSlot \/ CreatePublish \/ CreateStack \/ CreateFrame

Next == \/ TaskCreate \/ EnableInterrupts \/ Create
        \/ Tick \/ Trap \/ Panic \/ Advance
        \/ \E n \in SleepTicks : Sleep(n)
        \/ Exit \/ Fork \/ ForkFails

Spec == Init /\ [][Next]_vars

\* kernel_main reaches sti, and the PIT never stops: a tick that can be taken is.  Once
\* the machine is halted none can be.
Fairness == WF_vars(EnableInterrupts) /\ WF_vars(Create) /\ WF_vars(Tick)
FairSpec == Spec /\ Fairness

------------------------------------------------------------------------------
(* Properties. *)

\* A task between two runs: nothing may be pushed over its frame, whatever runs
\* meanwhile.  This is what the private interrupt stacks and fork's frame copy
\* are for ("a resumed task reads a stranger's context").
ParkedFramesIntact ==
  \A s \in Slot : ready[s] /\ s # current /\ esp[s] # NULL => frame[esp[s]] = parked[s]

\* The slot `current` names is the task on the CPU, it is ready, and the next trap
\* from ring 3 lands on its own interrupt stack.
CurrentOwnsCpu ==
  cpu = "run" => /\ ready[current]
                 /\ ctx.pid = pid[current]
                 /\ user[current] => esp0 = irq_stack[current]

\* No two ready tasks share a stack or a saved frame, and each block they use is
\* still allocated.
Owned(s) == {irq_stack[s], kstack[s], esp[s]} \ {NULL}
StacksPrivate ==
  \A s, t \in Slot : ready[s] /\ ready[t] /\ s # t =>
     /\ Owned(s) \cap Owned(t) = {}
     /\ Owned(s) \cap Block \subseteq heap

\* Ready tasks have different pids.
PidsUnique ==
  \A s, t \in Slot : ready[s] /\ ready[t] /\ pid[s] = pid[t] => s = t

\* A task is only ever resumed from a frame it has.
NeverLost == cpu # "lost"

\* Round-robin: a ready task gets the CPU, or dies, or the machine stops: halted by an
\* exception, or lost.
Waits(s) == ready[s] /\ current # s /\ sti
EveryTaskRuns == \A s \in Slot : Waits(s) ~> (current = s \/ ~ ready[s] \/ cpu # "run")

\* The same when processes stop calling SYS_sleep: while the machine is not stopped,
\* neither forks, exits, failed allocations nor the reuse of dead slots make the scan skip
\* a ready task.
NoSleep == [][\A n \in SleepTicks : ~ Sleep(n)]_vars
RunsUnlessSleep == (<> NoSleep) => EveryTaskRuns
==============================================================================
