------------------------------- MODULE Memory --------------------------------
(* Physical frames, address spaces and copy-on-write: kernel/mm.c,
   kernel/paging.c, user_spawn of kernel/user.c, and the page-fault arm of
   kernel/isr.c, with as much of kernel/sched.c as decides which page directory
   is loaded and when one is torn down.

   The processors and devices are those of the code: one CPU, every trap and
   syscall runs with interrupts off, so a handler is one action.  The one piece
   of kernel code that is not a handler is user_spawn called by the shell
   thread; it runs in steps, those of task_create_user included, and Preemptive
   says whether a timer tick may switch to another task between two of them.
   Where such a tick makes the machine run a half-made task (the finding of
   Sched's sched_create run) the model ends, with cpu = "lost" or "wiped".

   Data is abstracted: a page holds one Value, a page table is its window
   entries (the kernel entries never change), and what a freed frame still
   holds is forgotten at the free and chosen again when the frame is mapped.  *)
EXTENDS Naturals, FiniteSets

CONSTANTS FirstFrame, LastFrame,        \* the frames mm_init leaves free
          USER_PG_START, USER_PG_END,   \* the user window, in pages
          MaxTasks,                     \* MAX_TASKS, slot 0 being the shell
          StackPages,                   \* the pages of the initial user stack
          Images,                       \* page sets an ELF image may ask for
          Value, ImageByte,             \* page contents; what an image holds
          NoPage,                       \* stands for the content of no page
          RefMax,                       \* where a u8 reference count saturates
          Preemptive                    \* may a tick interrupt user_spawn?

Frame == FirstFrame..LastFrame
Page  == USER_PG_START..(USER_PG_END - 1)
Slot  == 1..(MaxTasks - 1)
Shell == 0                              \* tasks[0], the adopted boot thread

NULL      == 0
KERNEL_PD == 9                          \* the loader's directory at 0x9000

ASSUME FrameAssumption == /\ FirstFrame \in Nat /\ LastFrame \in Nat
                          /\ FirstFrame > KERNEL_PD
ASSUME PageAssumption  == /\ USER_PG_START \in Nat /\ USER_PG_END \in Nat
                          /\ StackPages \subseteq Page
                          /\ Images \subseteq SUBSET Page
ASSUME TaskAssumption  == /\ MaxTasks \in Nat \ {0}
                          /\ RefMax \in Nat /\ MaxTasks <= RefMax
ASSUME ValueAssumption == ImageByte \in Value /\ NoPage \notin Value
                          /\ Preemptive \in BOOLEAN

VARIABLES
  bitmap,      \* the frames marked used
  frame_refs,  \* references to a frame from user page-table entries
  pt,          \* pt[d]: the page table of directory d, NULL when d is none
  pte,         \* pte[d][p]: the frame mapped at window page p of directory d
  rw,          \* rw[d]: the pages of d whose entry has PTE_W
  data,        \* the contents of a frame
  cr3,         \* cr3[s]: the directory of the process in slot s, NULL if dead
  cpu_cr3,     \* the CR3 register
  tlb, tlbw,   \* the cached translations and which of them are writable
  running,     \* `current`: a slot, or Shell
  spawn,       \* the user_spawn in progress: pc, directory, image, slot
  frameless,   \* tasks whose first frame kmalloc refused: ready, with esp = 0
  cpu          \* "run", or the reason the machine stopped

memory == <<bitmap, frame_refs, pt, pte, rw, data>>
vars   == <<memory, cr3, cpu_cr3, tlb, tlbw, running, spawn, frameless, cpu>>

FrameOrNull == Frame \cup {NULL}
Unmapped    == [p \in Page |-> NULL]

TypeOK ==
  /\ bitmap \subseteq Frame
  /\ frame_refs \in [Frame -> 0..RefMax]
  /\ pt  \in [Frame -> FrameOrNull]
  /\ pte \in [Frame -> [Page -> FrameOrNull]]
  /\ rw  \in [Frame -> SUBSET Page]
  /\ data \in [Frame -> Value]
  /\ cr3 \in [Slot -> FrameOrNull]
  /\ cpu_cr3 \in Frame \cup {KERNEL_PD, NULL}
  /\ tlb \in [Page -> FrameOrNull] /\ tlbw \subseteq Page
  /\ running \in Slot \cup {Shell}
  /\ spawn \in [pc : {"idle", "load", "stack", "slot", "ready"}, cr3 : FrameOrNull,
               img : SUBSET Page, slot : Slot \cup {Shell}]
  /\ frameless \subseteq Slot
  /\ cpu \in {"run", "unreachable", "copyout", "spawn", "lost", "wiped"}

NoSpawn == [pc |-> "idle", cr3 |-> NULL, img |-> {}, slot |-> Shell]

Init ==
  /\ bitmap = {}
  /\ frame_refs = [f \in Frame |-> 0]
  /\ pt  = [d \in Frame |-> NULL]
  /\ pte = [d \in Frame |-> Unmapped]
  /\ rw  = [d \in Frame |-> {}]
  /\ data = [f \in Frame |-> ImageByte]
  /\ cr3 = [s \in Slot |-> NULL]
  /\ cpu_cr3 = KERNEL_PD
  /\ tlb = Unmapped /\ tlbw = {}
  /\ running = Shell
  /\ spawn = NoSpawn /\ frameless = {}
  /\ cpu = "run"

------------------------------------------------------------------------------
(* Frames.  Definitions marked `mutant' are deliberate mistakes, used only to show
   that a property would notice them. *)

Free      == Frame \ bitmap
Lowest(S) == CHOOSE f \in S : \A g \in S : f <= g

\* Entries that map frame f, in all directories and in directory d.
Mappers(f)      == {m \in Frame \X Page : pte[m[1]][m[2]] = f}
MappersIn(d, f) == {m \in {d} \X Page : pte[m[1]][m[2]] = f}

\* mm_ref_inc / mm_ref_dec applied once for every entry of directory d.
RefIncBothSides(d) ==   \* mutant: counts parent and child, no saturation
   [f \in Frame |-> frame_refs[f] + 2 * Cardinality(MappersIn(d, f))]
RefIncAll(d) == [f \in Frame |->
   LET n == frame_refs[f] + Cardinality(MappersIn(d, f))
   IN  IF n < RefMax THEN n ELSE RefMax]
RefDecForgotten(d) == frame_refs     \* mutant: the references stay
RefDecAll(d) == [f \in Frame |->
   LET k == Cardinality(MappersIn(d, f))
   IN  IF frame_refs[f] > k THEN frame_refs[f] - k ELSE 0]

\* The kernel reaches a frame through the identity map, which stops at the
\* user window: KERNEL_PT has no entries there.
Reachable(f) == f < USER_PG_START

Halt(why) == /\ cpu' = why
             /\ UNCHANGED <<memory, cr3, cpu_cr3, tlb, tlbw, running, spawn, frameless>>

------------------------------------------------------------------------------
(* The loaded directory and its TLB. *)

LoadCR3(d) == cpu_cr3' = d /\ tlb' = Unmapped /\ tlbw' = {}

\* paging_fork_addr_space reloads CR3 if the parent is the loaded directory.
NoFlush(d)       == UNCHANGED <<cpu_cr3, tlb, tlbw>>     \* mutant: stale TLB
FlushIfLoaded(d) == IF d = cpu_cr3 THEN LoadCR3(d) ELSE UNCHANGED <<cpu_cr3, tlb, tlbw>>

\* What switch_to and sched_exit_current load for the incoming task.
LazyDirectory(t) == IF t = Shell THEN cpu_cr3 ELSE cr3[t]   \* mutant: CR3 kept
DirectoryOf(t) == IF t = Shell THEN KERNEL_PD ELSE cr3[t]

\* Tasks whose state is 1 before they have a frame to run from: the one task_create_user
\* is making, and those it left without one.
Unready == frameless \cup (IF spawn.pc = "ready" THEN {spawn.slot} ELSE {})
Ready   == {t \in Slot : cr3[t] # NULL} \cup Unready \cup {Shell}

\* What CR3 holds after a switch to such a task: before its flags are set the old or the
\* kernel's directory, before its cr3 is set 0.
HalfMade(t) == IF cr3[t] # NULL THEN {cr3[t]} ELSE {KERNEL_PD, NULL, spawn.cr3}

\* Task `next' gets the CPU; without a frame, esp is loaded with 0.
Enter(next) ==
  /\ running' = next
  /\ IF next \in Unready
     THEN cpu' = "lost" /\ \E d \in HalfMade(next) : LoadCR3(d)
     ELSE UNCHANGED cpu /\ LoadCR3(DirectoryOf(next))

\* paging_destroy_addr_space(d), d being no longer loaded.
Destroy(d) ==
  LET refs  == RefDecAll(d)
      freed == {pte[d][p] : p \in Page} \cap {f \in Frame : refs[f] = 0}
  IN  /\ frame_refs' = refs
      /\ bitmap' = bitmap \ (freed \cup {pt[d], d})
      /\ pt'  = [pt  EXCEPT ![d] = NULL]
      /\ pte' = [pte EXCEPT ![d] = Unmapped]
      /\ rw'  = [rw  EXCEPT ![d] = {}]
      /\ data' = [f \in Frame |-> IF f \in freed THEN ImageByte ELSE data[f]]

------------------------------------------------------------------------------
(* user_spawn, called by the shell's `run` (and once by the boot thread). *)

ShellRuns == cpu = "run" /\ running = Shell

SpawnCreate(img) ==
  /\ ShellRuns /\ spawn.pc = "idle"
  /\ Free # {} /\ Free \ {Lowest(Free)} # {}
  /\ LET pd == Lowest(Free)
         tb == Lowest(Free \ {pd})
     IN IF Reachable(pd) /\ Reachable(tb)
        THEN /\ bitmap' = bitmap \cup {pd, tb}
             /\ pt' = [pt EXCEPT ![pd] = tb]
             /\ spawn' = [pc |-> "load", cr3 |-> pd, img |-> img, slot |-> Shell]
             /\ LoadCR3(pd)
             /\ UNCHANGED <<frame_refs, pte, rw, data, cr3, running, frameless, cpu>>
        ELSE Halt("unreachable")

\* mutant: the new address space is forgotten, not torn down.
SpawnFailLeak ==
  /\ LoadCR3(KERNEL_PD)
  /\ spawn' = NoSpawn
  /\ UNCHANGED <<memory, cr3, running, frameless, cpu>>

\* Every failure of the load: the old directory is loaded again, the new one
\* torn down.
SpawnFail ==
  /\ LoadCR3(KERNEL_PD)
  /\ Destroy(spawn.cr3)
  /\ spawn' = NoSpawn
  /\ UNCHANGED <<cr3, running, frameless, cpu>>

\* The region being mapped, and what of it is not mapped yet.
Region  == IF spawn.pc = "load" THEN spawn.img ELSE StackPages
Missing == {p \in Region : pte[spawn.cr3][p] = NULL}

SpawnMap ==
  /\ ShellRuns /\ spawn.pc \in {"load", "stack"} /\ Missing # {}
  /\ IF Free = {}
     THEN SpawnFail
     ELSE LET d == spawn.cr3
              p == Lowest(Missing)
              f == Lowest(Free)
          IN /\ bitmap' = bitmap \cup {f}
             /\ pte' = [pte EXCEPT ![d][p] = f]
             /\ rw'  = [rw  EXCEPT ![d] = @ \cup {p}]
             /\ frame_refs' = [frame_refs EXCEPT ![f] = IF @ < RefMax THEN @ + 1 ELSE @]
             /\ \E v \in Value : data' = [data EXCEPT ![f] = v]
             /\ UNCHANGED <<pt, cr3, cpu_cr3, tlb, tlbw, running, spawn, frameless, cpu>>

\* The segment is copied to its window address, through the loaded directory.
SpawnCopy ==
  /\ ShellRuns /\ spawn.pc = "load" /\ Missing = {}
  /\ IF cpu_cr3 = spawn.cr3
     THEN /\ data' = [f \in Frame |-> IF \E p \in spawn.img : pte[cpu_cr3][p] = f
                                      THEN ImageByte ELSE data[f]]
          /\ spawn' = [spawn EXCEPT !.pc = "stack"]
          /\ UNCHANGED <<bitmap, frame_refs, pt, pte, rw, cr3, cpu_cr3, tlb, tlbw,
                         running, frameless, cpu>>
     ELSE Halt("spawn")

\* user_load_elf refuses the header or a later segment.
SpawnReject == ShellRuns /\ spawn.pc = "load" /\ SpawnFail

Dead == {s \in Slot : cr3[s] = NULL} \ Unready

\* task_create_user: alloc_slot, whose slot is taken only when state is set ...
SpawnSlot ==
  /\ ShellRuns /\ spawn.pc = "stack" /\ Missing = {}
  /\ IF Dead = {}
     THEN SpawnFail
     ELSE /\ spawn' = [spawn EXCEPT !.pc = "slot", !.slot = Lowest(Dead)]
          /\ UNCHANGED <<memory, cr3, cpu_cr3, tlb, tlbw, running, frameless, cpu>>

\* ... so that a fork in between may sit in it, and is wiped: state = 1.
SpawnReady ==
  /\ ShellRuns /\ spawn.pc = "slot"
  /\ IF spawn.slot \in Dead
     THEN /\ spawn' = [spawn EXCEPT !.pc = "ready"]
          /\ UNCHANGED <<memory, cr3, cpu_cr3, tlb, tlbw, running, frameless, cpu>>
     ELSE Halt("wiped")

\* Without an interrupt stack the address space is given back; without a first frame
\* the task is kept.
SpawnCommit(stack, frame) ==
  /\ ShellRuns /\ spawn.pc = "ready"
  /\ IF stack
     THEN /\ cr3' = [cr3 EXCEPT ![spawn.slot] = spawn.cr3]
          /\ frameless' = IF frame THEN frameless ELSE frameless \cup {spawn.slot}
          /\ spawn' = NoSpawn
          /\ LoadCR3(KERNEL_PD)
          /\ UNCHANGED <<memory, running, cpu>>
     ELSE SpawnFail

------------------------------------------------------------------------------
(* The process that runs: loads, stores, page faults, fork, exit. *)

Runs(s) == cpu = "run" /\ running = s

\* The translation the MMU uses for page p, and whether it lets a store pass.
\* CR0.WP makes the kernel obey the same bit.
Target(p)   == IF tlb[p] # NULL THEN tlb[p] ELSE pte[cpu_cr3][p]
CanStore(p) == IF tlb[p] # NULL THEN p \in tlbw ELSE p \in rw[cpu_cr3]
Cache(p)    == /\ tlb'  = [tlb EXCEPT ![p] = Target(p)]
               /\ tlbw' = IF CanStore(p) THEN tlbw \cup {p} ELSE tlbw \ {p}

UserLoad(s, p) ==
  /\ Runs(s) /\ Target(p) # NULL
  /\ Cache(p)
  /\ UNCHANGED <<memory, cr3, cpu_cr3, running, spawn, frameless, cpu>>

Write(p, v) ==
  /\ data' = [data EXCEPT ![Target(p)] = v]
  /\ Cache(p)
  /\ UNCHANGED <<bitmap, frame_refs, pt, pte, rw, cr3, cpu_cr3, running, spawn, frameless, cpu>>

UserStore(s, p, v) == Runs(s) /\ CanStore(p) /\ Write(p, v)

\* sys_read and sys_stat store to the address the process names, in ring 0:
\* user_range_ok looks at the window's bounds, a fault there is a panic.
KernelStore(s, p, v) ==
  /\ Runs(s)
  /\ IF CanStore(p) THEN Write(p, v) ELSE Halt("copyout")

\* The outgoing process s gives the CPU to `next` and is torn down.
Die(s, next) ==
  /\ next \in Ready /\ next # s
  /\ Enter(next)
  /\ cr3' = [cr3 EXCEPT ![s] = NULL]
  /\ Destroy(cr3[s])
  /\ UNCHANGED <<spawn, frameless>>

Exit(s, next) == Runs(s) /\ Die(s, next)

\* A ring-3 store to a present, read-only page: paging_cow_fault.
CowFault(s, p) ==
  /\ Runs(s) /\ ~ CanStore(p)
  /\ pte[cpu_cr3][p] # NULL /\ p \notin rw[cpu_cr3] /\ Free # {}
  /\ LET old == pte[cpu_cr3][p]
         nf  == Lowest(Free)
         left == IF frame_refs[old] > 0 THEN frame_refs[old] - 1 ELSE 0
     IN IF Reachable(old) /\ Reachable(nf)
        THEN /\ data' = [data EXCEPT ![nf] = data[old],
                                     ![old] = IF left = 0 THEN ImageByte ELSE @]
             /\ pte' = [pte EXCEPT ![cpu_cr3][p] = nf]
             /\ rw'  = [rw  EXCEPT ![cpu_cr3] = @ \cup {p}]
             /\ bitmap' = (IF left = 0 THEN bitmap \ {old} ELSE bitmap) \cup {nf}
             /\ frame_refs' = [frame_refs EXCEPT ![old] = left,
                                 ![nf] = IF @ < RefMax THEN @ + 1 ELSE @]
             /\ tlb' = [tlb EXCEPT ![p] = NULL] /\ tlbw' = tlbw \ {p}
             /\ UNCHANGED <<pt, cr3, cpu_cr3, running, spawn, frameless, cpu>>
        ELSE Halt("unreachable")

\* A ring-3 access paging_cow_fault does not resolve: the process is killed.
FaultKill(s, p, next) ==
  /\ Runs(s)
  /\ \/ Target(p) = NULL                  \* outside its mappings
     \/ ~ CanStore(p) /\ Free = {}         \* no frame for its copy
  /\ Die(s, next)

\* Writable bits once d is shared with the clone pd.
ChildReadOnly(d, pd) == [rw EXCEPT ![pd] = {}]      \* mutant: parent keeps PTE_W
BothReadOnly(d, pd)  == [rw EXCEPT ![d] = {}, ![pd] = {}]

\* fork: the address space is cloned read-only on both sides and the parent's
\* TLB flushed.
Fork(s) ==
  /\ Runs(s) /\ Dead # {}
  /\ Free # {} /\ Free \ {Lowest(Free)} # {}
  /\ LET d  == cr3[s]
         pd == Lowest(Free)
         tb == Lowest(Free \ {pd})
     IN IF Reachable(pd) /\ Reachable(tb)
        THEN /\ bitmap' = bitmap \cup {pd, tb}
             /\ pt'  = [pt  EXCEPT ![pd] = tb]
             /\ pte' = [pte EXCEPT ![pd] = pte[d]]
             /\ rw'  = BothReadOnly(d, pd)
             /\ frame_refs' = RefIncAll(d)
             /\ cr3' = [cr3 EXCEPT ![Lowest(Dead)] = pd]
             /\ FlushIfLoaded(d)
             /\ UNCHANGED <<data, running, spawn, frameless, cpu>>
        ELSE Halt("unreachable")

\* The heap has no room for the child's frame copy or interrupt stack: the
\* clone is torn down at once.  The parent stays read-only.
ForkUndone(s) ==
  /\ Runs(s) /\ Dead # {}
  /\ Free # {} /\ Free \ {Lowest(Free)} # {}
  /\ Reachable(Lowest(Free)) /\ Reachable(Lowest(Free \ {Lowest(Free)}))
  /\ rw' = [rw EXCEPT ![cr3[s]] = {}]
  /\ FlushIfLoaded(cr3[s])
  /\ UNCHANGED <<bitmap, frame_refs, pt, pte, data, cr3, running, spawn, frameless, cpu>>

\* A timer tick ends the slice: switch_to another ready task.
SwitchTo(next) ==
  /\ cpu = "run"
  /\ next \in Ready /\ next # running
  /\ running = Shell /\ spawn.pc # "idle" => Preemptive
  /\ Enter(next)
  /\ UNCHANGED <<memory, cr3, spawn, frameless>>

------------------------------------------------------------------------------
ShellNext == \/ \E img \in Images : SpawnCreate(img)
             \/ SpawnMap
             \/ SpawnCopy
             \/ SpawnReject
             \/ SpawnSlot \/ SpawnReady
             \/ \E stack, frame \in BOOLEAN : SpawnCommit(stack, frame)

ProcessNext(s) == \/ \E p \in Page : UserLoad(s, p) \/ CowFault(s, p)
                  \/ \E p \in Page, v \in Value : UserStore(s, p, v) \/ KernelStore(s, p, v)
                  \/ \E t \in Slot \cup {Shell} : Exit(s, t)
                  \/ \E p \in Page, t \in Slot \cup {Shell} : FaultKill(s, p, t)
                  \/ Fork(s)
                  \/ ForkUndone(s)

Next == \/ ShellNext
        \/ \E s \in Slot : ProcessNext(s)
        \/ \E t \in Slot \cup {Shell} : SwitchTo(t)

Spec == Init /\ [][Next]_vars

------------------------------------------------------------------------------
(* Properties. *)

Directories == {d \in Frame : pt[d] # NULL}
Tables      == {pt[d] : d \in Directories}
UserFrames  == {f \in Frame : Mappers(f) # {}}

\* Every frame's reference count is the number of page-table entries that map
\* it, whatever was forked, copied and torn down before.  A count too low frees
\* a frame under a process (mm_ref_dec); one too high leaks it.
RefExact == \A f \in Frame : frame_refs[f] = Cardinality(Mappers(f))

\* Every directory belongs to one process, or to the spawn in progress.
DirectoriesOwned ==
  /\ Directories = ({cr3[s] : s \in Slot} \cup {spawn.cr3}) \ {NULL}
  /\ \A s, t \in Slot : cr3[s] # NULL /\ cr3[s] = cr3[t] => s = t
  /\ \A s \in Slot : cr3[s] # NULL => cr3[s] # spawn.cr3
  /\ spawn.pc = "idle" <=> spawn.cr3 = NULL

\* Only directories map anything, and none maps a frame at two addresses.
EntriesOwned ==
  /\ \A d \in Frame, p \in Page : pte[d][p] # NULL => d \in Directories
  /\ \A d \in Frame, p, q \in Page : pte[d][p] # NULL /\ pte[d][p] = pte[d][q] => p = q

\* The bitmap marks exactly the directories, the tables and the mapped user
\* frames, and no frame plays two of those roles: nothing leaks and nothing is
\* handed out twice, on the failure paths of spawn and fork too.
FramesAccounted ==
  /\ DirectoriesOwned
  /\ EntriesOwned
  /\ bitmap = Directories \cup Tables \cup UserFrames
  /\ Directories \cap Tables = {}
  /\ (Directories \cup Tables) \cap UserFrames = {}
  /\ \A d, e \in Directories : pt[d] = pt[e] => d = e

\* A page some directory may write is mapped there and nowhere else: fork
\* downgrades both sides, copy-on-write gives the writer a frame of its own.
WritableUnshared ==
  \A d \in Frame : \A p \in rw[d] :
     pte[d][p] # NULL /\ Mappers(pte[d][p]) = {<<d, p>>}

\* No cached translation is staler than the tables: it names the frame the
\* loaded directory maps, and is writable only if the entry still is.  This is
\* the "CRITICAL" comment of paging_fork_addr_space and the invlpg of
\* paging_cow_fault.
TlbCoherent ==
  \A p \in Page : tlb[p] # NULL =>
     /\ cpu_cr3 \in Directories /\ tlb[p] = pte[cpu_cr3][p]
     /\ p \in tlbw => p \in rw[cpu_cr3]

\* The loaded directory is the running task's and has not been torn down: the
\* point of zombie_cr3 and of the order of sched_exit_current.  The one exception is
\* the task that a tick finds half-made in task_create_user: CR3 may be 0 then.
LoadedDirectoryLive ==
  cpu # "lost" =>
    /\ running # Shell => cr3[running] # NULL /\ cpu_cr3 = cr3[running]
    /\ running = Shell => cpu_cr3 \in {KERNEL_PD, spawn.cr3}
    /\ cpu_cr3 # KERNEL_PD => cpu_cr3 \in Directories

\* What a process holds, as the abstract specification sees it.
alive  == {s \in Slot : cr3[s] # NULL}
mem    == [s \in Slot |-> [p \in Page |->
             IF cr3[s] # NULL /\ pte[cr3[s]][p] # NULL
             THEN data[pte[cr3[s]][p]] ELSE NoPage]]

Private == INSTANCE PrivateMemory

\* Copy-on-write is invisible: processes behave as if each had memory of its
\* own, fork copied it whole and a store touched one page of one process.
PrivateToEachProcess == Private!Spec

\* The kernel only dereferences frames its identity map reaches.
FramesReachable == cpu # "unreachable"

\* A buffer address a process passes to a syscall never brings the kernel down.
CopyOutSafe == cpu # "copyout"
==============================================================================
