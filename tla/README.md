# NovaOS kernel: models, checks and proofs

TLA+ modules that model the kernel in `src/kernel/`, the TLC configurations that check
them on small instances, and theorems about them checked by TLAPS. The reference is the
code; where a comment or a document says something else, a run shows the difference.

NovaOS is a single-CPU 32-bit kernel. Every trap, system call and interrupt handler runs
with interrupts off, so it is one action. What is left to interleave is: processes and
kernel threads among each other at timer ticks; the boot thread (`kernel_main`, then the
shell), which runs with interrupts *on* and calls into the memory, task, file and console
code; and interrupts between the reads of one such call.

## 1. Inventory

| Component | State | Operations | Touches |
|---|---|---|---|
| Frames (`mm.c`) | bitmap, `frame_refs` | `frame_alloc`, `frame_free`, `mm_ref_inc/dec` | used by address spaces |
| Address spaces (`paging.c`) | directories, tables, CR3, the TLB | create, clone (copy-on-write), map, fault, destroy, switch | frames; called by spawn, fork, the fault handler, exit |
| Program loading (`user.c`) | the spawn in progress, TSS.esp0 | `user_spawn`, `user_load_elf`, `user_set_kernel_stack` | address spaces, tasks; runs in the shell, interrupts on |
| Tasks (`sched.c`, `timer.c`) | `tasks[]`, `current`, `task_count`, `next_pid` | tick, create, create user, fork, exit | heap (stacks, frames), CR3, TSS |
| Trap entry (`isr.c`, `isr_stubs.asm`, `irq.c`, `idt.c`) | frames on the stacks | dispatch; kill on a ring-3 page fault, halt on any other exception | tasks, paging |
| Files for processes (`syscall.c`) | `ofiles[]` | open, read, write, lseek, close, unlink, stat | the volume; the table is shared by all processes |
| FAT12 volume (`fat.c`, `ata.c`) | two FAT copies, root directory, clusters, `secbuf` | mount, read, write, delete, stat, list | disk commands, which can fail |
| Keyboard (`keyboard.c`) | ring, shift, caps, E0 flag | IRQ 1, `keyboard_getc` | read by the shell and the desktop |
| Shell (`shell.c`) | line, history ring | the loop, editing, completion, commands | keyboard, serial, console, files, spawn, desktop |
| Text console (`vga.c`) | cells, cursor | `vga_putc`, scroll, clear | written by the shell and by every process |
| Kernel heap (`kheap.c`) | block list | `kmalloc`, `kfree` | stacks and frame copies, buffers of commands |
| Desktop (`gui.c`, `mouse.c`) | windows, focus, drag; the packet state machine | IRQ 12, the frame loop | keyboard, mouse |
| Boot, GDT, PIC, PIT, serial, libc, user programs | — | straight-line set-up, port I/O, formatting | — |

What is hard, and what makes each part correct:

* **Memory** — copy-on-write with reference counts, a TLB that must be flushed when a clone
  takes write permission away, teardown of the directory one is running on, allocation
  failing in the middle of everything. Correct: a process's memory is its own; frames are
  accounted for; no stale translation; the loaded directory is alive.
* **Tasks** — frames parked on stacks that other traps may use, slots reused in any order,
  half-made tasks visible to the timer. Correct: each task continues from the context it was
  taken off with; stacks are private; ready tasks run.
* **Console** — an interrupt between the two steps of `keyboard_getc`, a ring and a history
  that wrap, prefixes and fake shifts. Correct: a queue of keys; the history newest first.
* **Volume** — several sector writes per operation, each of which can fail or be the last one
  before a reset. Correct: no cycles; a file reads back as written; nothing leaks while
  nothing fails; the FAT copies agree.
* **Heap** — blocks split and joined in any order. Correct: callers' pieces are disjoint, no block
  is lost, and nothing stays in pieces when frees come in reverse order.
* **Desktop** — a packet may arrive between any two loads of the frame loop, a byte may be lost,
  windows close while they are dragged. Correct: a press is one click at most, windows stay on the
  screen, one has the focus, the screen shows what is, the cursor arrives.
* **File table** — reused buffers, positions beyond the end, shared descriptors. Correct: a
  descriptor is a private copy, and `close` tells the truth about storing it.

`PROJECT.json` lists the hazards with the line where each bites and the properties that
watch it; a hazard without a property says why.

## 2. Modules and plan

| Module | Models | Status |
|---|---|---|
| `PrivateMemory` | abstract: each process has pages of its own, fork copies them | done |
| `Memory`, `MCMemory` | `mm.c`, `paging.c`, `user_spawn`, the page-fault arm of `isr.c`, CR3 switching of `sched.c` | done |
| `MemoryProofs`, `MemoryRefinement` | theorems about `Memory`: types and the safety invariants; the refinement | done, section 5 |
| `Sched` | `sched.c`, `timer.c`, trap frames, TSS, SYS_exit/fork/sleep | done |
| `SchedProofs` | theorems about `Sched`: types, parked frames, the CPU's owner, stacks, pids | done, section 5 |
| `KeyQueue` | abstract: a bounded queue of key codes | done |
| `Keyboard`, `Shell` | `keyboard.c`; the loop, editing and history of `shell.c`; the cursor's column of `vga.c` | done |
| `ShellProofs` | theorems about `Keyboard` and `Shell`: the buffers, the modifiers, the history, the cursor, the refinement of `KeyQueue` | done, section 5 |
| `FatEntry` | the 12-bit entries packed into bytes: `fat_next_cluster`, the patching in `fat_set` | done |
| `Fat12`, `MCFat` | `fat_write`, `fat_delete`, `fat_set` and restart, sector by sector | done |
| `FatProofs` | theorems about `FatEntry` (an entry reads back, the others are kept) and `Fat12` (types, the directory, the FAT copies, the chains, what keeps them on the disk, the files) | done, section 5 |
| `OpenFiles` | abstract: private copies of files | done |
| `FileTable`, `MCFileTable` | the descriptors of `syscall.c` and the shell's file commands | done |
| `FileProofs` | theorems about `FileTable`: types, the refinement of `OpenFiles` | done, section 5 |
| `Desktop`, `MCDesktop` | `gui.c` and `mouse.c`: packets, the frame loop, windows, focus, drag | done |
| `DesktopProofs` | theorems about `Desktop`: types, focus, places, the picture, clicks | done, section 5 |
| `Allocator` | abstract: disjoint allocations | done |
| `KHeap` | `kheap.c`: the block list | done |
| `KHeapProofs` | theorems about `KHeap`: types, tiling, ownership, the refinement, the whole heap at the end | done, section 5 |

The order is by importance: memory, tasks, console, volume, files, then the desktop and the
heap. What is left of the plan, in this order:

1. models: `userspace/writer.c` as a client of `OpenFiles`; `kvsnprintf` of `libc/printf.c` against a
   reference;
2. the shell's file operations and allocations preempted by system calls, once some
   document says what they promise.

## 3. How the models correspond to the code

**Memory.** `bitmap` and `frame_refs` are `mm.c`'s; `pt`, `pte`, `rw` are what a directory's
entries hold for the user window (the entry's frame and its PTE_W bit), filed under the
directory, because each directory owns its table; `cr3[s]` is `tasks[s].cr3` (NULL when the
slot is dead); `tlb`, `tlbw` are the translations the CPU may have cached — a load or store
caches one, CR3 writes drop all, `invlpg` one. `user_spawn` is `SpawnCreate`, one `SpawnMap`
per page, `SpawnCopy` through the *loaded* directory, `SpawnReject`, and the three moments of
`task_create_user` that others can see: a slot is found (`SpawnSlot`), it is made ready (`SpawnReady`), the
task gets its directory (`SpawnCommit`). With `Preemptive` TRUE a tick may come between any two. A tick in
the last gap finds a ready task whose `cr3` field is still 0, and loads 0, or the kernel's directory, or none,
by how many of its fields are set: there the model ends, with `cpu = "lost"`, which is what run `sched_create` is about. A fork between
the first two may sit in the slot and is wiped (`cpu = "wiped"`); that takes eight frames, one more than run
`memory` has, so only the proofs cover it. A task whose first frame the heap refused stays ready
(`frameless`), and to resume it is the same loss. Copying an image after a tick took CR3 away halts
(`cpu = "spawn"`), as does any ring-0 fault. `Fork`, `CowFault`, `FaultKill`, `Exit` are whole handlers. Contents are one `Value` per page; what a
freed frame holds is forgotten at the free and chosen anew when it is mapped, because
`map_user_page` does not clear it. `paging_destroy_addr_space` of an exiting process is one
action with the switch away from it, as interrupts are off.

**Sched.** A context is a pid and a program point; a trap pushes it on `TrapStack` (TSS.esp0 from
ring 3, the thread's own stack from ring 0). `frame` is the last frame in each block, and
`esp[s]` names the block, so a task resumes correctly only if nobody pushed there meanwhile.
`parked` is history: the context the task was last taken off with. `Panic` is the arm of
`isr_common_handler` that halts for good: any exception of ring 3 but a page fault, and any of the kernel's
own. `cpu` tells a machine that runs from one that was halted or resumed a task without a frame (`lost`).
kmalloc blocks have one size and any request may fail. `task_create_user` is four actions; the boot thread runs it with
interrupts off at boot and on in the shell.

**Keyboard, Shell.** `KeyInterrupt` is one byte through `keyboard_handler`; the environment sends
what a keyboard can send (prefixes completed, releases of keys that are down). `ReadKey` and
`Advance` are the two halves of `keyboard_getc`. Each branch of `shell_run` is an action. Commands
are abstracted to what they leave before the prompt, the screen to the column of its cursor. Completion adds
some characters, or finds several matches: then it prints a message and writes neither prompt nor line
again, which leaves the cursor in column 0 of the next row. A process may print between any two
steps (`ProcessWrites`); `displaced` is history: something other than the line moved the cursor (a process, or that message), or the line wrapped.

**FatEntry, Fat12.** One action is one sector written: each sector of each FAT copy in turn, the
zeroing of a new cluster, the link, the payload, the directory entry. The FAT copies are bytes, a
byte is a pair of half bytes, and `Get`, `PutFirst`, `PutSecond` move half bytes as the masks and shifts
do. `fat_set` is a machine of its own (`FatSet`, `SetSector`, `Returns`): an entry whose two bytes lie in
different sectors takes two writes per copy, and `torn` (history) holds the entries of which copy 1
has only the first. Reads are folded into the step that uses them, including `fat_get`'s answer 0xFFF
when the read fails. `Fails` is a refused command, `Crash` a reset followed by `fat_mount`, which
repairs nothing. A cluster is one sector and there are two copies, as `tools/mkdata.py` formats.
Failed reads that stop an operation before it changed anything are left out.

`fat_free_chain` follows every value below 0xFF0, on the disk or not (`Beyond`). `Stray` is a step of it off
the disk, and `astray` (history) says that there was one. Behind the entries of copy 1 `fat_get` reads copy 2, or
entries no cluster has, which are 0 (`Elsewhere`), or finds an error. `fat_set`'s first pass clears an entry
of copy 2, or half of one (`Wiped`), its second three half bytes of the root directory (`Damaged`): an end mark
in the middle, a part of a name, of a first cluster or of a length. Which of these it hits depends on where the value
points; the model takes any, and a name that is damaged may become another or none, so it allows more than a given disk.
`Stream` off the disk may be told so or not: the FLUSH CACHE that follows a refused write can hide the
error. Other refused writes are taken as reported.

**KHeap.** One action per call; only the loop of `kfree` that joins the freed block with its
successors is taken turn by turn, and no other call comes between. Pointers are the addresses of
payloads, a size is rounded as the code rounds it, a request of 0 takes the least. `live` is history:
what callers hold. They give back what they got, once.

**Desktop.** `mouse_handler` gets the bytes of a packet one at a time; every third byte ends a packet, so
a lost byte shifts all later ones, as in the code. The five calls of the snapshot are seven actions:
each edge detector loads `m_buttons` for its result and again for `m_prev` (the build does not
optimise), and IRQ 12 may come between any two of them. Click, drag, key and drawing are one action
each; IRQ 12 between those changes nothing they read. Geometry is scaled by constants; pixels, titles and the
contents of windows are left out, and the picture is two history variables, whether it is out of date
(`stale`) and where cursors are painted (`arrows`). `hand` is where the mouse was moved to. The 8042's
set-up, and interrupts before it is done, are left out.

**FileTable.** One action per system call, as interrupts are off; which process calls does not
matter, since the table is global and survives exit. `data[fd]` keeps its bytes from one use to the
next. The volume is what `fat.c` stores; `fat_read` may return a prefix (a chain that cannot be
followed) or fail half-way. A rewrite that fails leaves an entry on free clusters, so from then on (`spoilt`)
any store or delete may change any file. A read past the end goes on through the slots that follow: the model returns
the slot's own bytes as far as `data[]` goes and any bytes behind it, and moves `pos` on, also beyond the
buffer. A write from there counts its room as a huge unsigned number and overwrites the next slots: it is the
step that sets `wild`, after which the table is not modelled.

Definitions commented `mutant` are deliberate mistakes next to the definition they imitate: each
property is shown to notice one.

## 4. Runs

| Run | What it shows | Size |
|---|---|---|
| `memory` | reference counts exact, frames accounted, writable pages unshared, TLB coherent, loaded directory alive; `Memory` implements `PrivateMemory` | 2 process slots, 7 frames, 2 pages |
| `memory_high` | *violated:* a page-table frame inside the user window, which the kernel cannot address | window inside the frames |
| `memory_copyout` | *violated:* `sys_read` into a copy-on-write page halts the machine | as `memory` |
| `sched` | frames of parked tasks intact, `current` and esp0 right, stacks private, pids unique; ready tasks run unless somebody sleeps or the machine halts | 3 slots, 6 blocks, 4 pids |
| `sched_sleep` | *violated:* a loop of `SYS_sleep` starves the others | 4 slots |
| `sched_create` | *violated:* a tick inside `task_create_user` resumes a task without a frame | 4 slots, preemptive |
| `console` | the ring is a queue; fake shifts do not stick; history newest first; the cursor stands behind the line | ring of 3, line of 3, 2 commands, 4 columns, 6 bytes |
| `fat` | chains run into themselves only through a torn entry, nothing leaks, FAT copies agree, entries found, nothing leads off the disk while nothing failed, files read back | 3 clusters, 2 entries, 2 names, 1 fault, 1 crash |
| `fat_full` | *violated:* a rewrite that runs out of space leaves the entry on free clusters | as `fat` |
| `files` | `FileTable` implements `OpenFiles` | 2 descriptors, 2 files (one is opened), buffers of 2 bytes, positions to 3 |
| `desktop` | focus on an open window, windows on the screen, a press one click at most, the screen current after a frame, the cursor arrives | 6 by 8 pixels, 3 windows, 4 inputs |
| `heap` | blocks tile the heap and those in use are those held; whole again after reverse frees; `KHeap` implements `Allocator` | 26 units, headers of 3, three sizes |

The violated runs are the `findings` of `PROJECT.json`, with the line of the code and the line of
the comment or document it contradicts.

*Bounds.* `memory`: a process needs a directory, a table and two pages, so seven frames hold one
process and a clone with one copied page to spare: every allocation of every path fails somewhere,
and frames, slots and directories are reused. Two processes suffice for sharing; a third would
meet the same counts. `sched`: three slots give a boot thread, a kernel thread and a process or two
processes, and dead slots to reuse; four pids bound the number of creations (`next_pid`), six
blocks let the heap run out. `console`: six bytes are enough to fill and wrap a ring of two codes,
to fill the line and wrap it on a screen of four columns, and to submit more commands than the
history holds. `fat`: three clusters for two
files of up to two make the volume full in the middle of a write and of a rewrite; half bytes of two
values and sectors of seven bytes make the last of the three entries straddle two sectors (in the code
6 of 2847 do) while entries still hold every cluster, the end mark and values off the disk. There a torn
entry leads off the disk, as in the code, but into no cycle: for that an odd entry must straddle (in the code
3 of the 6 do), which sectors of five bytes would give and `NoCycles` covers for every size. The two names
are interchangeable (`MCFat!Renamings`), no property of `fat` is a liveness property, and once an
operation broke off only `WritesLast` reads the contents and asks nothing more of them (the view `Unbroken`).
`files`: two descriptors on one file is the smallest case where one could disturb the other, a second file shows
whether storing one changes the other; a stored file is longer than a buffer, lseek reaches every position
in it, and a read past the end one position behind it (`MaxPos`; an unsigned position is not taken
so far that it wraps). The last reply, which no action reads, is left out of the view. `desktop`: four inputs are a press, a motion
and a release, or a lost byte and the three packets after it, or enough keys to close and reopen
windows under a drag; three windows are the least `gui_enter` needs, and the cascade wraps after two.
`heap`: 26 units hold up to four blocks, sizes that leave a remainder worth a header and ones that do
not, and every order of frees.

*Deadlock* is checked in `fat` and `heap`. In the other runs the system really may stop: the machine halts
(`cpu`), the bound on pids, bytes or inputs is reached, or a wild write was made.

*Fairness* is used in `sched` and `sched_sleep`: weak fairness of `Tick` (the PIT runs for ever, and
every handler that returns does so to code with interrupts on; one that halts ends the obligation, since nothing is
enabled any more), of `EnableInterrupts` and `Create` (`kernel_main` and a task creation are
straight-line code of a running thread). Nothing is assumed of processes, which need not exit, fork or
compute. `RunsUnlessSleep` is conditional: a ready task runs, unless somebody sleeps or the machine stops
(`cpu # "run"`); `EveryTaskRuns`, without the condition on sleepers, is what `sched_sleep` refutes. `desktop` has no
fairness in its specification, because the code does not give any: the frame loop is part of the boot thread, which
a loop of `SYS_sleep` starves and a panic stops. `PointerArrives` therefore names what it needs as its
premise, `LoopGoesOn == WF_vars(Frame) /\ WF_vars(MouseByte)`: the loop goes on, and the 8042 raises IRQ 12
as long as a byte of the packet is there. Nothing is assumed of the user or of `Enter`.

## 5. Proofs

Every component that has a module has theorems. Each is a theorem of the specification (`Spec => []P`, or `Spec =>`
an abstract specification) for every value of the constants that satisfies the module's assumption, and
each `[]P` comes from an inductive invariant `Inv` of the proof module: `Init => Inv`, one lemma per action
for `Inv /\ [Next]_vars => Inv'`, and `Inv => P`. Every safety property and every refinement a passing run checks
is stated by such a theorem; what is left to TLC is listed at the end of the section.

Induction over a length, a number of steps or a string is done through a least counterexample (`HasLeast`, from the
well-foundedness of the order on Nat), also where a recursive function must be shown to exist: the folds of the
console (`FoldsExist`) and the walk along a chain, `Walk` (`WalksExist`), whose values are then known (`NthGives`).

Those about `Memory` hold for every number of frames, pages, task slots and values. The
assumptions are those of the module: frames are numbered above the loader's directory, the stack and
the images lie in the window, and `MaxTasks <= RefMax` (in the code 16 tasks and counts that
saturate at 255). `Preemptive` may have either value.

`MemoryProofs!TypeCorrect` is `Spec => []TypeOK`. `TypeOK` is not inductive alone: that the frame a
directory is found in is a frame needs `Loaded` (a process that runs is a live one, a spawn in
progress has a directory). The module also proves that first-fit returns a free frame (`LowestIn`,
`FirstFit`), from the well-foundedness of finite subsets.

`MemoryProofs` also proves five of the invariants of run `memory`: `NoLeakNoDoubleUse`, `CountsExact`,
`NoSharedWrites`, `NoStaleTranslation`, `LoadedNeverFreed`. None is inductive by itself. A teardown
frees by counts, so frames are accounted for only if the counts are exact; a copy-on-write fault
decrements one count and must know that no frame is mapped twice by one directory; a free frame may
become a directory only if nothing still maps it, which is the accounting again; a store through the
TLB is harmless only if the cached right to write is still the table's. Hence
`Inv == TypeInv /\ Accounting /\ Translation`, their conjunction:

* `Accounting` (frames, counts, writable pages) is kept by one lemma per way of changing the tables:
  `DestroyAccounting`, `MapAccounting`, `CopyAccounting`, `CloneAccounting`, with `NewDirectory` and
  `AccountingUnchanged`; `ShellAccounting` and `ProcessAccounting` apply them to the actions.
  `FreeFrame` says that an unallocated frame has no role. `MappersBounded` bounds the mappers of a
  frame by the number of possible owners, through an injection into the task slots, so
  that a count never saturates: the place where `MaxTasks <= RefMax` is needed.
* `Translation` (CR3 and TLB) follows from `Accounting` after the step: a directory that is loaded has an
  owner and is therefore live (`SwitchTranslation`), and a load of CR3 leaves nothing cached. The exception,
  in the invariant as in `LoadedDirectoryLive`, is `cpu = "lost"`: a half-made task was resumed, CR3 may be 0.

`MemoryRefinement!CopyOnWriteInvisible` proves the refinement `Spec => PrivateToEachProcess`. It adds
to `Inv` that the directory being filled by `user_spawn` maps only writable pages
(`SpawnPrivate`), so that the copy of the image cannot reach a page somebody shares (with the directory
switched away by a tick it does not get so far: the CPU faults). The argument is
isolation: no step of a process (`ProcessIsolated`) or of the shell (`ShellIsolated`) changes the
entries, rights or contents of another directory; `SameView` turns that into the unchanged memory
of every other process, and `ProcessRefines` and `ShellRefines` match what is left, the actor's own
memory, with `Store`, `Fork`, `Exit` and `Spawn` of `PrivateMemory`.

`KHeapProofs` proves the type invariant, `Tiled`, `InUseIsHeld` and the refinement `DisjointPieces` for every
heap, header, alignment and set of sizes (a header takes at least one byte and fits into the heap).
The inductive invariant is
`TypeOK /\ Chain(list) /\ InUseIsHeld /\ OneHolder /\ JoiningFree`. Pieces are disjoint because blocks
are, so the refinement rests on the tiling (`Chain`, which is `Tiled` in the form the induction wants)
and on each held piece lying in a block of its own: `InUseIsHeld` says there is one, `OneHolder` that no
block has two holders. A join may only swallow free blocks, whence `JoiningFree`: the block being
joined is free itself.

`WholeInTheEnd` proves `WholeAgain` from one more invariant, `Stacked`: while the frees come in
reverse order, the list is the blocks in use, in the order they were handed out, and then one free block at
most, or two while a join is under way. The block given back is then the last one in use, and its only
neighbour behind it is the free one, which `kfree` joins although it never joins backwards.

`SchedProofs` holds for every number of tasks, heap blocks, pids and program points, and for both values of
`Preemptive`: what a tick inside `task_create_user` breaks is `NeverLost` (run `sched_create`), none of
these. `Inv == TypeOK /\ Tasks /\ Stacks /\ Saved /\ CurrentOwnsCpu /\ Creating`:

* `Tasks`: the boot thread never dies and is on the linker's stack (`BootThread`), so a scan after an exit
  always finds somebody; ready slots are below `task_count` (`Counts`), where the scan looks; the next pid
  is above all of theirs (`PidsFresh`), from which `UniquePids` follows; whoever can be resumed can be
  interrupted (`Equipped`).
* `Stacks`: the blocks a ready task owns are allocated and nobody else's. A new task's blocks come from
  first-fit, hence from outside `heap`; a dead slot owns nothing that counts.
* `Saved`: the frame of a ready task off the CPU is the one it left and carries its pid. A trap pushes on a
  block the current task owns, which by `Stacks` is nobody's saved frame. That it carries the pid is what
  makes `CurrentOwnsCpu` true again after `switch_to`.
* `Creating`: the task under creation is in the table, but has no frame and is not the current one, so that
  its stack may be put in without disturbing anybody, even when a fork took its slot meanwhile.

`ShellProofs` treats the driver and the loop together. `ConsoleTypes` is the types: the line, the history and the
ring's indices stay in their buffers through every branch of `shell_run`, and the cursor in its row. `NoStuckShift` needs that the
driver's E0 flag is the keyboard's (`extended = prefixed`). `NewestFirst` is the arithmetic of a ring of any
size: fewer than `HIST_MAX` steps back is another place, and the entry overwritten is the one no longer looked
up. `RingIsQueue` maps the ring to the queue `Queue`, the codes between tail and head, without the first
while `keyboard_getc` stands between the read and the advance; that it does stand there only with a code
to advance over (`RingFree`) is why the interrupt in between cannot let it pass the head.

`CursorBehindLine` proves `CursorAfterLine`: until a process prints, a completion finds several matches, or a
line wraps, the cursor is behind the line. The column after a string is a fold of `Moved` over it; that the fold is
a walk along the string, a character a step, is shown once (`FoldsExist`, `FoldPlaces`). From there a line of plain
characters moves the cursor by its length as long as the row does not wrap (`FoldText`), as many backspaces move it
back (`FoldRubOut`), and a string that ends in a newline and n such characters leaves it in column n (`FoldEnds`).
`Screen` is what is inductive: no control character in the line or the history (`Texts`), and the cursor behind
a line that fits its row unless something else moved it (`Behind`).

`DesktopProofs` assumes of the geometry what `gui.c` has: windows fit on the screen, and so does the last
place of the cascade. `Inv == TypeOK /\ Wire /\ Press /\ FocusOpen /\ OnScreen /\ Painting`. `Press` is the
invariant behind `ClickedOnce`: outside the gap between the two loads of `mouse_left_clicked`, a press the
detector would see is a new one. `Painting` is the one behind `PictureCurrent`: whatever made the picture old
has set `need_redraw`, and the cursor painted is the last one. `OnScreen` needs no help from the drag index:
a window that is moved is clamped, whatever slot it is in. `FocusOpen` is inductive because `win_close` and
Tab take the greatest or least of a set that is not empty (`MaxMember`, `MinMember`).

`FatProofs` proves, for every base, that `Get` after the two patches returns the value that was set
(`ReadsWhatWasSet`) and that every other entry keeps its value (`OthersKept`), even and odd entries and
neighbours included: the masks and shifts of `fat_set` are right for each of the entries, not only
for the three of run `fat`. The arithmetic is that a number below Base^3 is put together again from its
three digits. On these rest the theorems about `Fat12`, for every volume (whose last cluster is below the end
mark), every number of failures and every number of restarts;
`Inv == Volume /\ Sound(op) /\ Patching /\ Unspoilt`, where `Unspoilt` is
`~ astray => Directory /\ SlotChosen /\ Agreeing`: once a chain was followed off the disk, the directory and the
second copy are anything, and what is left to say is about types, copy 1 and the files while nothing failed:

* `FatTypes` needs what the locals of an operation are at each of its steps (`Sound`): a cluster is in hand
  when one is written, and `done < len` while the loop of `fat_write` runs.
* `FilesFound`: `Directory` (no file behind the end mark, no name twice) survives the write of an entry only
  because of what `fat_write` found out several sectors before: `SlotChosen` says that this is still so.
* `CopiesTogether`: an entry no `fat_set` is at work on may differ between the copies only at the price of
  a failure or a restart (`Agreeing`). `Patching` is the order of the up to four writes: the second byte after the
  first, the second copy after the first, so that a `fat_set` that returns leaves its entry equal.

The chains of `Fat12` need more, `Ordered == Inv /\ Staged /\ Ranked`, and those that say where nothing
failed also that nothing leads off the disk, `Confined == Ordered /\ Tied /\ Tame`. `Staged` is what the locals say about the entries at
hand: a cluster that is being linked is marked as the end, it is not the one it is linked to, and that one was the end
until then. Each theorem adds one invariant and keeps it through every sector written (lemmas `Set...`,
`Other...`, `Start...`):

* `NoCycles` (`ChainsAcyclic`): `Ranked`, clusters have ranks that grow along every entry that is not torn. A link leads to
  a cluster that leads nowhere, so its rank may be raised above that of the cluster linked to it; a freed or torn
  entry only takes a link away, and a step off the disk changes copy 2 only. A walk of `LastCluster` steps inside the clusters would meet one twice, which growing ranks exclude.
* `StaysOnDisk` (`OnTheDisk`): `Tied`, an entry that leads off the disk is a torn one, since `fat_set` is only called
  with clusters of the disk, 0 and the end mark; `Tame`, while nothing failed none is torn, and neither
  a local nor a directory entry leads there.
* `NoneLost` (`NoLostClusters`): `Kempt`, while nothing failed every used entry is reached from a file or from what the
  operation holds, by a path that does not pass the entry `fat_set` is at work on. `fat_free_chain` reads the next
  cluster before it frees one: whatever was reached through the freed entry is reached from there (`ReachCut`).
* `FilesKept` (`WritesLast`): `Intact == clean => Calm /\ Whole /\ Recorded`, while no operation broke off each file but the one at hand is a run of different
  clusters with its blocks, the operation has its own, and nobody's is the cluster just taken. No separation of the
  chains is carried along: the contents tell them apart. A run being built holds zeros, an old one blocks of the
  name written or deleted, so a store to one is no store to another (`OthersFrame`), and a free cluster is in no run
  at all (`ClosedUsed`).

`FileProofs` holds for every number of descriptors, capacity (a multiple of the sector), set of names and
bytes (not empty) and set of buffers. `FileTypes` is inductive as it is: the sizes and positions are in their ranges
until a write is made from beyond the buffer. `SessionsArePrivate` holds up to that write, reads past the end
included, which move the reader's own position only; what it says about the volume holds until a store or
delete may have spoilt it (`spoilt`). It maps a slot in use to
`{[name, bytes, pos, writable, dirty]}`, its bytes being `data[fd]` up to `size[fd]`, and an unused one
to `{}`. `OnlyOne` says that a call that keeps the other slots keeps the other sessions, `NoneChanged` that an
unused slot shows in none, as when an `open` that fails has read into it. Each call then has a lemma
(`OpenStep` to `ShellStep`): what `fat_read` put over the slot's old bytes is, up to the new size, exactly what was read
(`LoadedIs`); a stretch of the buffer below the end is that stretch of the session (`ReadStep`); a write behind the end
may leave any bytes in the gap, which `OpenFiles` allows, and no other (`WriteStep`).

Only model-checked, and why:

* `RunsUnlessSleep`, `PointerArrives` and the violation of `EveryTaskRuns`: liveness needs fairness and
  ENABLED, which the prover does not have.
* The five violated properties: there TLC's counterexample is the result.

## 6. Not modelled, and why

* Boot sectors, GDT/IDT/PIC/PIT/UART programming: straight-line port I/O before interrupts are on.
* libc formatting and string copying; the contents of the screen; colours and fonts.
* The ATA register protocol: a command succeeds or fails.
* Commands that only print (`ls`, `df`, `stat`, `ps`, ...). `write`, `append`, `rm` and `run` appear by
  what they change.
* ELF header arithmetic: an image asks for some pages, or is rejected at some point.
* `arrow keys`: the lookups behind the two codes the shell tests are modelled, but no keyboard sends those
  codes (below), so no run recalls a line.
* Two calls of `kmalloc`, `frame_alloc` or of the FAT at once. The boot thread's can be preempted in the
  middle by a system call; nothing guards them, so no property holds, and no document promises one.
* `open`, `read` and `close` of user programs appear as any call in any order, not as the three programs
  of `userspace/`.

### Behaviour worth knowing that no run states

These came up while modelling. The models have them; a property would only restate them, or the
text they contradict is not precise enough for a run.

* The shell compares the arrow keys with 0x141 and 0x142 (`shell.c`); `keyboard.c` delivers 0x100 plus the
  scancode, 0x148 and 0x150. Recalling a line does not work from the keyboard.
* `vga_putc` scrolls at the last row without setting `ty` back, and `clear` does not reset it: from then on
  the row is `VGA_HEIGHT` or more, every character scrolls, and text goes to the cells behind the screen.
* `mouse_left_clicked` stores `m_prev` in every frame, so `mouse_left_released`, called right
  after it, finds a release only if IRQ 12 came between the two. A drag is hardly ever ended by letting go; the
  window stays latched and jumps to the pointer at the next press. The comment at `gui.c:9-15` says the snapshot
  cured this. For the same reason a press that arrives between the two loads of `mouse_left_clicked` is lost.
* `win_at_close` ignores the stacking: the close box of a covered window is hit through the one above it.
* `win_close` of a window without the focus may leave two windows marked as focused: it sets the mark of the
  new one and does not take it from the old.
* A lost mouse byte misaligns every later packet; the driver does not look at the sync bit.
* A FAT entry that straddles two sectors and is torn by a failed command or a reset holds a mixture of
  two values. It may point back into its own chain: then `fat_read` and `fat_free_chain` end by their
  65536-step guards only. `ChainsAcyclic` says that nothing else makes a cycle. Or it may lead off the disk: then
  `fat_free_chain` clears entries of the second copy, or bytes of the root directory, where a first byte
  of 0 hides all files behind it. `OnTheDisk` says that nothing else leads there.
* After a rewrite that ran out of space (`fat_full`) a file and its free clusters are still tied; the next file
  stored takes those clusters, and deleting or rewriting either file then frees the other's. `ChainsAcyclic`
  holds all the same, and no cluster is lost as long as no disk command fails (`NoLostClusters`).
* `fork` returns 0 when it fails, because `task_fork_user` returns 0 for "no task" (`sched.c:185-206`) and the
  system call hands that on. 0 is also what the child gets (`sched.c:212`, `docs/ROADMAP.md:25`), so the parent goes on
  as a child, as `userspace/hello.c:99` would. No property covers it: the models have no return values for `fork`.
* `user_spawn` reads the image through the directory it loaded into CR3. A tick between the two leaves CR3 at the
  kernel's directory when the shell comes back, so the copy faults in ring 0 and the machine halts
  (`cpu = "spawn"` in `Memory`, reached in run `memory`).
* A read past the end (`pos > size`) returns what lies behind the file in its slot and then the next slots of
  `ofiles[]`, moves `pos` beyond the buffer, and a write from there overwrites those slots (`WildWrite`).
* `fat_set` updates two copies whatever the boot sector says of their number.
