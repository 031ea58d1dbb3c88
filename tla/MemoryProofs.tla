---------------------------- MODULE MemoryProofs -----------------------------
(* Types and the safety invariants of Memory hold in every state, for every number
   of frames, pages and process slots.

   TypeOK is not inductive alone: a process that runs is a live one, and a load
   in progress has a directory (Loaded).  On top of the types, Inv, the conjunction
   with the safety invariants, is inductive.  Accounting is what the tables, the
   bitmap and the counts say; Translation is what the CPU holds.  Steps that free or
   take frames rest on two facts: a free frame plays no role (FreeFrame), and a frame
   is mapped at most once by each owner of a directory (MappersBounded), so a count
   never saturates.                                                             *)
EXTENDS Memory, FiniteSetTheorems, WellFoundedInduction, TLAPS

\* First-fit picks a member: a non-empty set of naturals has a least element.
LEMMA LowestIn ==
  ASSUME NEW S \in SUBSET Nat, S # {}
  PROVE  Lowest(S) \in S /\ \A g \in S : Lowest(S) <= g
<1> DEFINE T == {0..(n-1) : n \in S}
<1>1. T \subseteq FiniteSubsetsOf(Nat) /\ T # {}
  <2>1. ASSUME NEW n \in S PROVE 0..(n-1) \in SUBSET Nat /\ IsFiniteSet(0..(n-1))
    <3>1. 0 \in Int /\ n-1 \in Int /\ 0..(n-1) \in SUBSET Nat
      OBVIOUS
    <3> QED
      BY <3>1, FS_Interval
  <2> QED
    BY <2>1, Zenon DEF FiniteSubsetsOf
<1>2. PICK x \in T : \A y \in T : ~ (<<y, x>> \in StrictSubsetOrdering(Nat))
  <2>1. IsWellFoundedOn(StrictSubsetOrdering(Nat), FiniteSubsetsOf(Nat))
    BY FS_StrictSubsetOrderingWellFounded
  <2> HIDE DEF T
  <2> QED
    BY <1>1, <2>1, WFMin
<1>3. PICK n \in S : x = 0..(n-1)
  OBVIOUS
<1>4. ASSUME NEW m \in S PROVE n <= m
  <2>1. 0..(m-1) \in T
    OBVIOUS
  <2>2. ~ (<<0..(m-1), 0..(n-1)>> \in StrictSubsetOrdering(Nat))
    BY <1>2, <1>3, <2>1
  <2>3. CASE m < n
    <3>1. 0..(m-1) \subseteq 0..(n-1) /\ m \in 0..(n-1) /\ m \notin 0..(m-1)
      BY <2>3
    <3>2. 0..(m-1) \in SUBSET Nat /\ 0..(n-1) \in SUBSET Nat
      OBVIOUS
    <3> QED
      BY <2>2, <3>1, <3>2 DEF StrictSubsetOrdering
  <2> QED
    BY <2>3
<1> QED
  BY <1>4 DEF Lowest

\* Frame numbers are above the loader's directory, hence none is NULL.
LEMMA NullNotFrame == NULL \notin Frame /\ KERNEL_PD \notin Frame /\ Frame \subseteq Nat
  BY FrameAssumption DEF NULL, KERNEL_PD, Frame

\* Free frames and dead slots found by first-fit are free frames and dead slots.
LEMMA FirstFit ==
  /\ Free # {} => Lowest(Free) \in Frame /\ Lowest(Free) \notin bitmap
  /\ Free \ {Lowest(Free)} # {} =>
       /\ Lowest(Free \ {Lowest(Free)}) \in Frame \ bitmap
       /\ Lowest(Free \ {Lowest(Free)}) # Lowest(Free)
  /\ Dead # {} => /\ Lowest(Dead) \in Slot /\ cr3[Lowest(Dead)] = NULL
                  /\ Lowest(Dead) \notin Unready
  /\ spawn.img \subseteq Page /\ Missing # {} => Lowest(Missing) \in Missing /\ Lowest(Missing) \in Page
<1>1. Frame \subseteq Nat /\ Slot \subseteq Nat /\ Page \subseteq Nat /\ StackPages \subseteq Page
  BY FrameAssumption, TaskAssumption, PageAssumption DEF Frame, Slot, Page
<1>2. Free # {} => Lowest(Free) \in Free
  BY <1>1, LowestIn DEF Free
<1>3. Free \ {Lowest(Free)} # {} => Lowest(Free \ {Lowest(Free)}) \in Free \ {Lowest(Free)}
  <2>1. Free \ {Lowest(Free)} \in SUBSET Nat
    BY <1>1 DEF Free
  <2> QED
    BY <2>1, LowestIn
<1>4. Dead # {} => Lowest(Dead) \in Dead
  BY <1>1, LowestIn DEF Dead
<1>5. spawn.img \subseteq Page /\ Missing # {} => Lowest(Missing) \in Missing
  <2>1. spawn.img \subseteq Page => Missing \in SUBSET Nat
    BY <1>1 DEF Missing, Region
  <2> QED
    BY <2>1, LowestIn
<1>6. Missing \subseteq Region /\ (spawn.img \subseteq Page => Region \subseteq Page)
  BY <1>1 DEF Missing, Region
<1> QED
  BY <1>2, <1>3, <1>4, <1>5, <1>6 DEF Free, Dead

------------------------------------------------------------------------------
(* Types, and which directory is loaded. *)

\* What typing rests on beside TypeOK: a process that runs has a directory and it
\* is the loaded one; a spawn in progress has a directory, and a slot once it chose one.
Loaded ==
  /\ cpu # "lost" => /\ running # Shell => cr3[running] # NULL /\ cpu_cr3 = cr3[running]
                     /\ running = Shell => cpu_cr3 \in {KERNEL_PD, spawn.cr3}
  /\ spawn.pc = "idle" <=> spawn.cr3 = NULL
  /\ spawn.pc \in {"slot", "ready"} => spawn.slot \in Slot
  /\ spawn.pc = "ready" => cr3[spawn.slot] = NULL

\* The entries that map a frame are finitely many.
LEMMA MappersFinite ==
  ASSUME NEW f, NEW d \in Frame
  PROVE  /\ IsFiniteSet(Mappers(f)) /\ Cardinality(Mappers(f)) \in Nat
         /\ IsFiniteSet(MappersIn(d, f)) /\ Cardinality(MappersIn(d, f)) \in Nat
<1>1. IsFiniteSet(Frame) /\ IsFiniteSet(Page)
  BY FrameAssumption, PageAssumption, FS_Interval DEF Frame, Page
<1>2. IsFiniteSet(Frame \X Page)
  BY <1>1, FS_Product
<1>3. Mappers(f) \in SUBSET (Frame \X Page) /\ MappersIn(d, f) \in SUBSET (Frame \X Page)
  BY DEF Mappers, MappersIn
<1> QED
  BY <1>2, <1>3, FS_Subset, FS_CardinalityType

\* Reference counts stay in range, whatever they count.
LEMMA RefTypes ==
  ASSUME TypeOK, NEW d \in Frame
  PROVE  /\ RefIncAll(d) \in [Frame -> 0..RefMax]
         /\ RefDecAll(d) \in [Frame -> 0..RefMax]
<1>1. \A f \in Frame : Cardinality(MappersIn(d, f)) \in Nat /\ frame_refs[f] \in 0..RefMax
  BY MappersFinite DEF TypeOK
<1> QED
  BY <1>1, TaskAssumption DEF RefIncAll, RefDecAll

\* paging_destroy_addr_space keeps the memory well-typed.
LEMMA DestroyType ==
  ASSUME TypeOK, NEW d \in Frame, Destroy(d)
  PROVE  /\ bitmap' \subseteq Frame
         /\ frame_refs' \in [Frame -> 0..RefMax]
         /\ pt'  \in [Frame -> FrameOrNull]
         /\ pte' \in [Frame -> [Page -> FrameOrNull]]
         /\ rw'  \in [Frame -> SUBSET Page]
         /\ data' \in [Frame -> Value]
<1>1. frame_refs' \in [Frame -> 0..RefMax]
  BY RefTypes DEF Destroy
<1>2. bitmap' \subseteq Frame
  BY DEF Destroy, TypeOK
<1>3. pt' \in [Frame -> FrameOrNull] /\ rw' \in [Frame -> SUBSET Page]
  BY DEF Destroy, TypeOK, FrameOrNull
<1>4. Unmapped \in [Page -> FrameOrNull]
  BY DEF Unmapped, FrameOrNull
<1>5. pte' \in [Frame -> [Page -> FrameOrNull]]
  BY <1>4 DEF Destroy, TypeOK
<1>6. data' \in [Frame -> Value]
  BY ValueAssumption DEF Destroy, TypeOK
<1> QED
  BY <1>1, <1>2, <1>3, <1>5, <1>6

\* Loading a CR3 leaves an empty TLB.
LEMMA LoadType ==
  ASSUME NEW d \in Frame \cup {KERNEL_PD, NULL}, LoadCR3(d)
  PROVE  /\ cpu_cr3' \in Frame \cup {KERNEL_PD, NULL}
         /\ tlb' \in [Page -> FrameOrNull] /\ tlbw' \subseteq Page
  BY DEF LoadCR3, Unmapped, FrameOrNull

TypeInv == TypeOK /\ Loaded

\* The task that gets the CPU: half-made and the machine is lost, or its directory loaded.
LEMMA EnterType ==
  ASSUME TypeInv, cpu = "run", NEW next \in Ready, Enter(next)
  PROVE  /\ running' = next /\ next \in Slot \cup {Shell}
         /\ cpu_cr3' \in Frame \cup {KERNEL_PD, NULL}
         /\ tlb' = Unmapped /\ tlbw' = {} /\ cpu' \in {"run", "lost"}
         /\ tlb' \in [Page -> FrameOrNull] /\ tlbw' \subseteq Page
         /\ cpu' # "lost" => /\ cpu' = "run" /\ cpu_cr3' = DirectoryOf(next)
                             /\ next # Shell => cr3[next] \in Frame
<1>1. next \in Slot \cup {Shell}
  BY DEF Ready, Unready, TypeInv, TypeOK
<1>2. CASE next \in Unready
  <2>1. PICK d \in HalfMade(next) : LoadCR3(d)
    BY <1>2 DEF Enter
  <2>2. d \in Frame \cup {KERNEL_PD, NULL}
    <3>1. spawn.cr3 \in FrameOrNull /\ (next \in Slot => cr3[next] \in FrameOrNull)
      BY DEF TypeInv, TypeOK
    <3>3. next \in Slot
      BY <1>2 DEF Unready, TypeInv, TypeOK, Loaded
    <3> QED BY <2>1, <3>1, <3>3 DEF HalfMade, FrameOrNull
  <2>3. cpu' = "lost" /\ running' = next
    BY <1>2 DEF Enter
  <2> QED BY <1>1, <2>1, <2>2, <2>3, LoadType DEF LoadCR3
<1>3. CASE next \notin Unready
  <2>1. cpu' = cpu /\ running' = next /\ LoadCR3(DirectoryOf(next))
    BY <1>3 DEF Enter
  <2>2. next # Shell => cr3[next] \in Frame
    BY <1>3 DEF Ready, TypeInv, TypeOK, FrameOrNull
  <2>3. DirectoryOf(next) \in Frame \cup {KERNEL_PD, NULL}
    BY <1>1, <2>2 DEF DirectoryOf
  <2> QED BY <1>1, <2>1, <2>2, <2>3, LoadType DEF LoadCR3
<1> QED BY <1>2, <1>3

\* The shell's steps.
LEMMA ShellTypes ==
  ASSUME TypeInv, ShellNext
  PROVE  TypeInv'
<1> USE NullNotFrame, FirstFit
<1> USE DEF TypeInv, Loaded, ShellRuns
<1>1. spawn.pc # "idle" => spawn.cr3 \in Frame
  BY DEF TypeOK, FrameOrNull
<1>2. spawn.img \subseteq Page
  BY DEF TypeOK
<1>3. ASSUME SpawnFail, ShellRuns, spawn.pc # "idle" PROVE TypeInv'
  <2>1. LoadCR3(KERNEL_PD) /\ Destroy(spawn.cr3) /\ spawn' = NoSpawn /\ UNCHANGED <<cr3, running, frameless, cpu>>
    BY <1>3 DEF SpawnFail
  <2>2. TypeOK'
    BY <1>1, <1>3, <2>1, DestroyType, LoadType DEF TypeOK, NoSpawn, FrameOrNull
  <2> QED
    BY <1>3, <2>1, <2>2 DEF NoSpawn, LoadCR3, Shell
<1>4. ASSUME NEW why \in {"unreachable", "spawn", "wiped"}, ShellRuns, Halt(why) PROVE TypeInv'
  BY <1>4 DEF TypeOK, Halt, memory
<1>5. ASSUME NEW img \in Images, SpawnCreate(img) PROVE TypeInv'
  <2> DEFINE pd == Lowest(Free)
             tb == Lowest(Free \ {pd})
  <2>1. pd \in Frame /\ tb \in Frame /\ img \subseteq Page
    BY <1>5, PageAssumption DEF SpawnCreate
  <2>2. CASE Reachable(pd) /\ Reachable(tb)
    <3>1. /\ LoadCR3(pd)
          /\ bitmap' = bitmap \cup {pd, tb} /\ pt' = [pt EXCEPT ![pd] = tb]
          /\ spawn' = [pc |-> "load", cr3 |-> pd, img |-> img, slot |-> Shell]
          /\ UNCHANGED <<frame_refs, pte, rw, data, cr3, running, frameless, cpu>>
      BY <1>5, <2>2 DEF SpawnCreate
    <3> HIDE DEF pd, tb
    <3>2. pt' \in [Frame -> FrameOrNull] /\ bitmap' \subseteq Frame
      BY <2>1, <3>1 DEF TypeOK, FrameOrNull
    <3>3. spawn' \in [pc : {"idle", "load", "stack", "slot", "ready"}, cr3 : FrameOrNull,
                     img : SUBSET Page, slot : Slot \cup {Shell}]
      BY <2>1, <3>1 DEF FrameOrNull
    <3>4. TypeOK'
      BY <2>1, <3>1, <3>2, <3>3, LoadType DEF TypeOK
    <3> QED
      BY <1>5, <2>1, <3>1, <3>4 DEF SpawnCreate, LoadCR3, Shell
  <2>3. CASE ~ (Reachable(pd) /\ Reachable(tb))
    BY <1>4, <1>5, <2>3 DEF SpawnCreate
  <2> QED
    BY <2>2, <2>3
<1>6. ASSUME SpawnMap PROVE TypeInv'
  <2>1. CASE Free = {}
    BY <1>3, <1>6, <2>1 DEF SpawnMap
  <2>2. CASE Free # {}
    <3> DEFINE d == spawn.cr3
               p == Lowest(Missing)
               f == Lowest(Free)
    <3>1. d \in Frame /\ p \in Page /\ f \in Frame
      BY <1>1, <1>2, <1>6, <2>2 DEF SpawnMap
    <3> HIDE DEF d, p, f
    <3>2. /\ bitmap' = bitmap \cup {f}
          /\ pte' = [pte EXCEPT ![d][p] = f]
          /\ rw'  = [rw  EXCEPT ![d] = @ \cup {p}]
          /\ frame_refs' = [frame_refs EXCEPT ![f] = IF @ < RefMax THEN @ + 1 ELSE @]
          /\ UNCHANGED <<pt, cr3, cpu_cr3, tlb, tlbw, running, spawn, frameless, cpu>>
      BY <1>6, <2>2 DEF SpawnMap, d, p, f
    <3>3. PICK v \in Value : data' = [data EXCEPT ![f] = v]
      BY <1>6, <2>2 DEF SpawnMap, d, p, f
    <3>4. frame_refs' \in [Frame -> 0..RefMax]
      BY <3>1, <3>2, TaskAssumption DEF TypeOK
    <3>5. pte' \in [Frame -> [Page -> FrameOrNull]]
      BY <3>1, <3>2 DEF TypeOK, FrameOrNull
    <3>6. rw' \in [Frame -> SUBSET Page] /\ data' \in [Frame -> Value]
      BY <3>1, <3>2, <3>3 DEF TypeOK
    <3> QED
      BY <3>1, <3>2, <3>4, <3>5, <3>6 DEF TypeOK
  <2> QED
    BY <2>1, <2>2
<1>7. ASSUME SpawnCopy PROVE TypeInv'
  <2>1. CASE cpu_cr3 = spawn.cr3
    <3>1. data' \in [Frame -> Value]
      BY <1>7, <2>1, ValueAssumption DEF SpawnCopy, TypeOK
    <3>2. spawn' = [spawn EXCEPT !.pc = "stack"] /\ spawn.pc = "load"
      BY <1>7, <2>1 DEF SpawnCopy
    <3>3. /\ spawn' \in [pc : {"idle", "load", "stack", "slot", "ready"}, cr3 : FrameOrNull,
                     img : SUBSET Page, slot : Slot \cup {Shell}]
          /\ spawn'.pc = "stack" /\ spawn'.cr3 = spawn.cr3
      BY <3>2 DEF TypeOK
    <3> QED
      BY <1>7, <2>1, <3>1, <3>2, <3>3 DEF SpawnCopy, TypeOK
  <2>2. CASE cpu_cr3 # spawn.cr3
    BY <1>4, <1>7, <2>2 DEF SpawnCopy
  <2> QED
    BY <2>1, <2>2
<1>8. ASSUME SpawnReject PROVE TypeInv'
  BY <1>3, <1>8 DEF SpawnReject
<1>9. ASSUME SpawnSlot PROVE TypeInv'
  <2>1. CASE Dead = {}
    BY <1>3, <1>9, <2>1 DEF SpawnSlot
  <2>2. CASE Dead # {}
    <3>1. /\ spawn' = [spawn EXCEPT !.pc = "slot", !.slot = Lowest(Dead)] /\ spawn.pc = "stack"
          /\ UNCHANGED <<bitmap, frame_refs, pt, pte, rw, data, cr3, cpu_cr3, tlb, tlbw, running,
                         frameless, cpu>>
      BY <1>9, <2>2 DEF SpawnSlot, memory
    <3>2. spawn'.pc = "slot" /\ spawn'.cr3 = spawn.cr3 /\ spawn'.slot \in Slot
      BY <2>2, <3>1 DEF TypeOK
    <3>3. TypeOK'
      BY <2>2, <3>1 DEF TypeOK
    <3> QED BY <3>1, <3>2, <3>3
  <2> QED BY <2>1, <2>2
<1>10. ASSUME SpawnReady PROVE TypeInv'
  <2>1. CASE spawn.slot \in Dead
    <3>1. /\ spawn' = [spawn EXCEPT !.pc = "ready"] /\ spawn.pc = "slot"
          /\ UNCHANGED <<bitmap, frame_refs, pt, pte, rw, data, cr3, cpu_cr3, tlb, tlbw, running,
                         frameless, cpu>>
      BY <1>10, <2>1 DEF SpawnReady, memory
    <3>2. /\ spawn'.pc = "ready" /\ spawn'.cr3 = spawn.cr3 /\ spawn'.slot = spawn.slot
          /\ cr3[spawn.slot] = NULL
      BY <2>1, <3>1 DEF TypeOK, Dead
    <3>3. TypeOK'
      BY <3>1 DEF TypeOK
    <3> QED BY <3>1, <3>2, <3>3
  <2>2. CASE spawn.slot \notin Dead
    BY <1>4, <1>10, <2>2 DEF SpawnReady
  <2> QED BY <2>1, <2>2
<1>11. ASSUME NEW stack \in BOOLEAN, NEW area \in BOOLEAN, SpawnCommit(stack, area)
       PROVE  TypeInv'
  <2>1. CASE stack
    <3>1. LoadCR3(KERNEL_PD)
      BY <1>11, <2>1 DEF SpawnCommit
    <3>2. /\ cr3' = [cr3 EXCEPT ![spawn.slot] = spawn.cr3] /\ spawn' = NoSpawn
          /\ spawn.slot \in Slot /\ frameless' \subseteq frameless \cup {spawn.slot}
          /\ UNCHANGED <<bitmap, frame_refs, pt, pte, rw, data, running, cpu>>
      BY <1>11, <2>1 DEF SpawnCommit, memory
    <3>3. cr3' \in [Slot -> FrameOrNull] /\ frameless' \subseteq Slot
      BY <3>2 DEF TypeOK
    <3>4. spawn' \in [pc : {"idle", "load", "stack", "slot", "ready"}, cr3 : FrameOrNull,
                      img : SUBSET Page, slot : Slot \cup {Shell}]
      BY <3>2 DEF NoSpawn, FrameOrNull
    <3>5. TypeOK'
      BY <3>1, <3>2, <3>3, <3>4, LoadType DEF TypeOK
    <3> QED
      BY <1>11, <3>1, <3>2, <3>5 DEF SpawnCommit, LoadCR3, NoSpawn, Shell
  <2>2. CASE ~ stack
    BY <1>3, <1>11, <2>2 DEF SpawnCommit
  <2> QED
    BY <2>1, <2>2
<1> QED
  BY <1>5, <1>6, <1>7, <1>8, <1>9, <1>10, <1>11 DEF ShellNext

\* The steps of the process in slot s.
LEMMA ProcessTypes ==
  ASSUME TypeInv, NEW s \in Slot, ProcessNext(s)
  PROVE  TypeInv'
<1> USE NullNotFrame, FirstFit
<1>0. s # Shell
  BY DEF Slot, Shell
<1>1. Runs(s) => cr3[s] \in Frame /\ cpu_cr3 = cr3[s] /\ cpu = "run"
  BY <1>0 DEF TypeInv, Loaded, Runs, TypeOK, FrameOrNull
<1>2. ASSUME NEW why \in {"unreachable", "copyout"}, Runs(s), Halt(why) PROVE TypeInv'
  BY <1>2 DEF TypeInv, Loaded, TypeOK, Halt, memory, Runs
<1>3. ASSUME Runs(s), NEW p \in Page
      PROVE  Target(p) \in FrameOrNull /\ (CanStore(p) => p \in Page)
  BY <1>1, <1>3 DEF Target, TypeOK, TypeInv
<1>4. ASSUME Runs(s), NEW p \in Page, Cache(p)
      PROVE  tlb' \in [Page -> FrameOrNull] /\ tlbw' \subseteq Page
  BY <1>3, <1>4 DEF Cache, TypeOK, TypeInv
<1>5. ASSUME NEW p \in Page, UserLoad(s, p) PROVE TypeInv'
  BY <1>4, <1>5 DEF UserLoad, memory, TypeInv, Loaded, TypeOK
<1>6. ASSUME Runs(s), NEW p \in Page, NEW v \in Value, Write(p, v) PROVE TypeInv'
  <2>1. data' \in [Frame -> Value]
    BY <1>6 DEF Write, TypeOK, TypeInv
  <2>2. tlb' \in [Page -> FrameOrNull] /\ tlbw' \subseteq Page
    BY <1>4, <1>6 DEF Write
  <2> QED
    BY <1>6, <2>1, <2>2 DEF Write, TypeInv, Loaded, TypeOK
<1>7. ASSUME NEW p \in Page, NEW v \in Value, UserStore(s, p, v) \/ KernelStore(s, p, v)
      PROVE  TypeInv'
  BY <1>2, <1>6, <1>7 DEF UserStore, KernelStore
<1>8. ASSUME Runs(s), NEW next, Die(s, next) PROVE TypeInv'
  <2>1. next \in Ready /\ next # s /\ Enter(next) /\ Destroy(cr3[s])
        /\ cr3' = [cr3 EXCEPT ![s] = NULL] /\ UNCHANGED <<spawn, frameless>>
    BY <1>8 DEF Die
  <2>2. /\ running' = next /\ next \in Slot \cup {Shell}
        /\ cpu_cr3' \in Frame \cup {KERNEL_PD, NULL} /\ cpu' \in {"run", "lost"}
        /\ tlb' \in [Page -> FrameOrNull] /\ tlbw' \subseteq Page
        /\ cpu' # "lost" => /\ cpu_cr3' = DirectoryOf(next)
                            /\ next # Shell => cr3[next] \in Frame
    BY <1>1, <1>8, <2>1, EnterType
  <2>3. cr3' \in [Slot -> FrameOrNull]
    BY <2>1 DEF TypeInv, TypeOK, FrameOrNull
  <2>4. TypeOK'
    BY <1>1, <1>8, <2>1, <2>2, <2>3, DestroyType DEF TypeOK, TypeInv
  <2>5. /\ cpu' # "lost" /\ next # Shell => cr3'[next] = cr3[next] /\ cr3[next] # NULL
        /\ spawn.pc = "ready" => cr3'[spawn.slot] = NULL
    BY <2>1, <2>2 DEF TypeInv, TypeOK, Loaded
  <2> QED
    BY <2>1, <2>2, <2>4, <2>5 DEF TypeInv, Loaded, DirectoryOf
<1>9. ASSUME NEW next \in Slot \cup {Shell}, Exit(s, next) PROVE TypeInv'
  BY <1>8, <1>9 DEF Exit
<1>10. ASSUME NEW p \in Page, NEW next \in Slot \cup {Shell}, FaultKill(s, p, next)
       PROVE  TypeInv'
  BY <1>8, <1>10 DEF FaultKill
<1>11. ASSUME NEW p \in Page, CowFault(s, p) PROVE TypeInv'
  <2> DEFINE old  == pte[cpu_cr3][p]
             nf   == Lowest(Free)
             left == IF frame_refs[old] > 0 THEN frame_refs[old] - 1 ELSE 0
             d    == cpu_cr3
  <2>0. d \in Frame /\ old \in Frame /\ nf \in Frame
    BY <1>1, <1>11 DEF CowFault, TypeInv, TypeOK, FrameOrNull
  <2>1. d \in Frame /\ old \in Frame /\ nf \in Frame /\ left \in 0..RefMax
    <3> HIDE DEF old
    <3>1. frame_refs[old] \in 0..RefMax
      BY <2>0 DEF TypeInv, TypeOK
    <3> QED
      BY <2>0, <3>1, TaskAssumption
  <2>2. CASE Reachable(old) /\ Reachable(nf)
    <3>1. /\ data' = [data EXCEPT ![nf] = data[old],
                                  ![old] = IF left = 0 THEN ImageByte ELSE @]
          /\ pte' = [pte EXCEPT ![d][p] = nf]
          /\ rw'  = [rw  EXCEPT ![d] = @ \cup {p}]
          /\ bitmap' = (IF left = 0 THEN bitmap \ {old} ELSE bitmap) \cup {nf}
          /\ frame_refs' = [frame_refs EXCEPT ![old] = left,
                              ![nf] = IF @ < RefMax THEN @ + 1 ELSE @]
          /\ tlb' = [tlb EXCEPT ![p] = NULL] /\ tlbw' = tlbw \ {p}
          /\ UNCHANGED <<pt, cr3, cpu_cr3, running, spawn, frameless, cpu>>
      BY <1>11, <2>2 DEF CowFault
    <3> HIDE DEF old, nf, left, d
    <3>2. data' \in [Frame -> Value]
      BY <2>1, <3>1, ValueAssumption DEF TypeInv, TypeOK
    <3>3. pte' \in [Frame -> [Page -> FrameOrNull]] /\ rw' \in [Frame -> SUBSET Page]
      BY <2>1, <3>1 DEF TypeInv, TypeOK, FrameOrNull
    <3>4. bitmap' \subseteq Frame /\ tlb' \in [Page -> FrameOrNull] /\ tlbw' \subseteq Page
      BY <2>1, <3>1 DEF TypeInv, TypeOK, FrameOrNull
    <3>5. frame_refs' \in [Frame -> 0..RefMax]
      BY <2>1, <3>1, TaskAssumption DEF TypeInv, TypeOK
    <3> QED
      BY <3>1, <3>2, <3>3, <3>4, <3>5 DEF TypeInv, Loaded, TypeOK
  <2>3. CASE ~ (Reachable(old) /\ Reachable(nf))
    BY <1>2, <1>11, <2>3 DEF CowFault
  <2> QED
    BY <2>2, <2>3
<1>12. ASSUME Runs(s), FlushIfLoaded(cr3[s])
       PROVE  cpu_cr3' = cpu_cr3 /\ tlb' \in [Page -> FrameOrNull] /\ tlbw' \subseteq Page
  BY <1>1, <1>12, LoadType DEF FlushIfLoaded, LoadCR3
<1>13. ASSUME Fork(s) PROVE TypeInv'
  <2> DEFINE d  == cr3[s]
             pd == Lowest(Free)
             tb == Lowest(Free \ {pd})
             c  == Lowest(Dead)
  <2>1. d \in Frame /\ pd \in Frame /\ tb \in Frame /\ c \in Slot /\ cr3[c] = NULL /\ c # s
    BY <1>1, <1>13 DEF Fork
  <2>4. spawn.pc = "ready" => c # spawn.slot
    BY <1>13 DEF Fork, Unready
  <2>2. CASE Reachable(pd) /\ Reachable(tb)
    <3>1. /\ bitmap' = bitmap \cup {pd, tb}
          /\ pt'  = [pt  EXCEPT ![pd] = tb]
          /\ pte' = [pte EXCEPT ![pd] = pte[d]]
          /\ rw'  = BothReadOnly(d, pd)
          /\ frame_refs' = RefIncAll(d)
          /\ cr3' = [cr3 EXCEPT ![c] = pd]
          /\ FlushIfLoaded(d)
          /\ UNCHANGED <<data, running, spawn, frameless, cpu>>
          /\ Runs(s)
      BY <1>13, <2>2 DEF Fork
    <3>2. cpu_cr3' = cpu_cr3 /\ tlb' \in [Page -> FrameOrNull] /\ tlbw' \subseteq Page
      BY <1>12, <3>1
    <3> HIDE DEF d, pd, tb, c
    <3>3. bitmap' \subseteq Frame /\ pt' \in [Frame -> FrameOrNull]
      BY <2>1, <3>1 DEF TypeInv, TypeOK, FrameOrNull
    <3>4. pte' \in [Frame -> [Page -> FrameOrNull]] /\ rw' \in [Frame -> SUBSET Page]
      BY <2>1, <3>1 DEF TypeInv, TypeOK, BothReadOnly
    <3>5. frame_refs' \in [Frame -> 0..RefMax]
      BY <2>1, <3>1, RefTypes DEF TypeInv
    <3>6. cr3' \in [Slot -> FrameOrNull]
      BY <2>1, <3>1 DEF TypeInv, TypeOK, FrameOrNull
    <3>7. TypeOK'
      BY <3>1, <3>2, <3>3, <3>4, <3>5, <3>6 DEF TypeInv, TypeOK
    <3> QED
      BY <1>0, <2>1, <2>4, <3>1, <3>2, <3>7 DEF TypeInv, Loaded, TypeOK, Runs
  <2>3. CASE ~ (Reachable(pd) /\ Reachable(tb))
    BY <1>2, <1>13, <2>3 DEF Fork
  <2> QED
    BY <2>2, <2>3
<1>14. ASSUME ForkUndone(s) PROVE TypeInv'
  <2>1. cpu_cr3' = cpu_cr3 /\ tlb' \in [Page -> FrameOrNull] /\ tlbw' \subseteq Page
    BY <1>12, <1>14 DEF ForkUndone
  <2> QED
    BY <1>14, <2>1 DEF ForkUndone, TypeInv, Loaded, TypeOK
<1> QED
  BY <1>5, <1>7, <1>9, <1>10, <1>11, <1>13, <1>14 DEF ProcessNext

\* TypeInv holds at the start and after every step.
LEMMA TypesInit == Init => TypeInv
  BY ValueAssumption, TaskAssumption, NullNotFrame
     DEF Init, TypeInv, TypeOK, Loaded, FrameOrNull, Unmapped, NoSpawn, Shell

\* One step keeps TypeInv, a tick's switch of tasks included.
LEMMA TypesStep ==
  ASSUME TypeInv, [Next]_vars
  PROVE  TypeInv'
<1>1. CASE UNCHANGED vars
  BY <1>1 DEF vars, memory, TypeInv, TypeOK, Loaded
<1>2. ASSUME NEW t \in Slot \cup {Shell}, SwitchTo(t) PROVE TypeInv'
  <2>1. cpu = "run" /\ t \in Ready /\ Enter(t) /\ UNCHANGED <<memory, cr3, spawn, frameless>>
    BY <1>2 DEF SwitchTo
  <2>2. /\ running' = t /\ cpu_cr3' \in Frame \cup {KERNEL_PD, NULL} /\ cpu' \in {"run", "lost"}
        /\ tlb' \in [Page -> FrameOrNull] /\ tlbw' \subseteq Page
        /\ cpu' # "lost" => /\ cpu_cr3' = DirectoryOf(t)
                            /\ t # Shell => cr3[t] \in Frame
    BY <2>1, EnterType
  <2>3. TypeOK'
    BY <1>2, <2>1, <2>2 DEF TypeInv, TypeOK, memory
  <2> QED
    BY <2>1, <2>2, <2>3, NullNotFrame DEF TypeInv, Loaded, DirectoryOf
<1> QED
  BY <1>1, <1>2, ShellTypes, ProcessTypes DEF Next

\* The variables of Memory keep their types, whatever the sizes of the machine:
\* in particular every frame number the code computes is a frame mm_init left free.
THEOREM TypeCorrect == Spec => []TypeOK
<1>1. TypeInv => TypeOK
  BY DEF TypeInv
<1> QED
  BY <1>1, TypesInit, TypesStep, PTL DEF Spec

------------------------------------------------------------------------------
(* The safety invariants. *)

Accounting  == FramesAccounted /\ RefExact /\ WritableUnshared
Translation == LoadedDirectoryLive /\ TlbCoherent
Inv == TypeInv /\ Accounting /\ Translation

------------------------------------------------------------------------------
(* Frames and who maps them. *)

\* What the types say of one frame, one page, one slot.
LEMMA Types ==
  TypeInv => /\ \A d \in Frame : pt[d] \in FrameOrNull /\ rw[d] \subseteq Page
             /\ \A d \in Frame : \A p \in Page : pte[d][p] \in FrameOrNull
             /\ \A f \in Frame : frame_refs[f] \in 0..RefMax
             /\ \A s \in Slot : cr3[s] \in FrameOrNull
             /\ spawn.cr3 \in FrameOrNull /\ spawn.img \subseteq Page
             /\ spawn.pc \in {"idle", "load", "stack", "slot", "ready"}
             /\ bitmap \subseteq Frame
  BY DEF TypeInv, TypeOK

\* Mappers names exactly the entries that map a frame.
LEMMA MapsIt ==
  \A f \in Frame :
    /\ Mappers(f) \subseteq Frame \X Page
    /\ \A d \in Frame, p \in Page : <<d, p>> \in Mappers(f) <=> pte[d][p] = f
    /\ \A d \in Frame : MappersIn(d, f) = Mappers(f) \cap ({d} \X Page)
  BY DEF Mappers, MappersIn

\* A frame the bitmap leaves free plays no role.
LEMMA FreeFrame ==
  ASSUME TypeInv, Accounting, NEW f \in Frame, f \notin bitmap
  PROVE  /\ pt[f] = NULL /\ f \notin Directories /\ f \notin Tables
         /\ Mappers(f) = {} /\ frame_refs[f] = 0
         /\ \A p \in Page : pte[f][p] = NULL
         /\ rw[f] = {}
         /\ \A d \in Frame, p \in Page : pte[d][p] # f
         /\ \A s \in Slot : cr3[s] # f
         /\ spawn.cr3 # f
<1>1. f \notin Directories /\ f \notin Tables /\ f \notin UserFrames
  BY DEF Accounting, FramesAccounted
<1>2. Mappers(f) = {}
  BY <1>1 DEF UserFrames
<1>3. frame_refs[f] = 0
  BY <1>2, FS_EmptySet DEF Accounting, RefExact
<1>4. \A p \in Page : pte[f][p] = NULL
  BY <1>1 DEF Accounting, FramesAccounted, EntriesOwned
<1>5. rw[f] = {}
  BY <1>4, Types DEF Accounting, WritableUnshared
<1>6. \A d \in Frame, p \in Page : pte[d][p] # f
  BY <1>2, MapsIt
<1>7. f # NULL
  BY NullNotFrame
<1>8. (\A s \in Slot : cr3[s] # f) /\ spawn.cr3 # f
  BY <1>1, <1>7 DEF Accounting, FramesAccounted, DirectoriesOwned
<1> QED
  BY <1>1, <1>2, <1>3, <1>4, <1>5, <1>6, <1>8 DEF Directories

\* A frame is mapped at most once by each owner of a directory.
LEMMA MappersBounded ==
  TypeInv /\ DirectoriesOwned /\ EntriesOwned
    => \A f \in Frame : Cardinality(Mappers(f)) <= MaxTasks
<1> SUFFICES ASSUME TypeInv, DirectoriesOwned, EntriesOwned, NEW f \in Frame
             PROVE  Cardinality(Mappers(f)) <= MaxTasks
  OBVIOUS
<1> DEFINE Owner == 0..(MaxTasks - 1)
           Owns(s, d) == IF s = 0 THEN spawn.cr3 = d ELSE cr3[s] = d
           F == [m \in Mappers(f) |-> CHOOSE s \in Owner : Owns(s, m[1])]
<1>1. IsFiniteSet(Owner) /\ Cardinality(Owner) = MaxTasks
  <2>1. 0 \in Int /\ MaxTasks - 1 \in Int /\ ~ (0 > MaxTasks - 1)
    BY TaskAssumption
  <2> QED
    BY <2>1, FS_Interval, TaskAssumption
<1>2. ASSUME NEW m \in Mappers(f) PROVE \E s \in Owner : Owns(s, m[1])
  <2>1. m[1] \in Frame /\ m[2] \in Page /\ pte[m[1]][m[2]] = f
    BY <1>2 DEF Mappers
  <2>2. m[1] \in Directories
    BY <2>1, NullNotFrame DEF EntriesOwned
  <2>3. m[1] = spawn.cr3 \/ \E s \in Slot : cr3[s] = m[1]
    BY <2>2 DEF DirectoriesOwned
  <2>4. 0 \in Owner /\ \A s \in Slot : s \in Owner /\ s # 0
    BY TaskAssumption DEF Slot
  <2> QED
    BY <2>3, <2>4
<1>3. F \in Injection(Mappers(f), Owner)
  <2>1. \A m \in Mappers(f) : F[m] \in Owner /\ Owns(F[m], m[1])
    <3> HIDE DEF Owns, Owner
    <3> QED
      BY <1>2
  <2>2. ASSUME NEW m \in Mappers(f), NEW n \in Mappers(f), F[m] = F[n] PROVE m = n
    <3>1. m[1] = n[1]
      <4> HIDE DEF F, Owner
      <4> QED
        BY <2>1, <2>2
    <3>2. /\ m \in Frame \X Page /\ n \in Frame \X Page
          /\ pte[m[1]][m[2]] = f /\ pte[n[1]][n[2]] = f
      BY DEF Mappers
    <3>3. m[2] = n[2]
      <4> DEFINE d == m[1]
                 p == m[2]
                 q == n[2]
      <4>1. d \in Frame /\ p \in Page /\ q \in Page /\ pte[d][p] = f /\ pte[d][q] = f
        BY <3>1, <3>2
      <4> HIDE DEF d, p, q, F, Owner, Owns
      <4>2. p = q
        BY <4>1, NullNotFrame DEF EntriesOwned
      <4> QED
        BY <4>2 DEF p, q
    <3> HIDE DEF F, Owner, Owns
    <3> QED
      BY <3>1, <3>2, <3>3
  <2> HIDE DEF F, Owner, Owns
  <2>3. F \in [Mappers(f) -> Owner]
    BY <2>1 DEF F
  <2> QED
    BY <2>2, <2>3 DEF Injection, IsInjective
<1>4. Cardinality(Mappers(f)) <= Cardinality(Owner)
  <2> HIDE DEF F, Owner
  <2> QED
    BY <1>1, <1>3, FS_Injection
<1> QED
  BY <1>1, <1>4

------------------------------------------------------------------------------
(* paging_destroy_addr_space. *)

\* The counts and the mappers of a frame lose the entries of the directory.
LEMMA DestroyCounts ==
  ASSUME TypeInv, Accounting, NEW d \in Frame, Destroy(d)
  PROVE  \A f \in Frame :
           /\ Mappers(f)' = Mappers(f) \ ({d} \X Page)
           /\ frame_refs'[f] = Cardinality(Mappers(f)')
<1> SUFFICES ASSUME NEW f \in Frame
             PROVE  /\ Mappers(f)' = Mappers(f) \ ({d} \X Page)
                    /\ frame_refs'[f] = Cardinality(Mappers(f)')
  OBVIOUS
<1>1. /\ pte' = [pte EXCEPT ![d] = Unmapped] /\ pte \in [Frame -> [Page -> FrameOrNull]]
      /\ frame_refs' = RefDecAll(d)
  BY DEF Destroy, TypeInv, TypeOK
<1>2. f # NULL
  BY NullNotFrame
<1>3. Mappers(f)' = Mappers(f) \ ({d} \X Page)
  <2>1. \A e \in Frame, p \in Page : pte'[e][p] = IF e = d THEN NULL ELSE pte[e][p]
    BY <1>1 DEF Unmapped
  <2> QED
    BY <1>2, <2>1 DEF Mappers
<1>4. MappersIn(d, f) = Mappers(f) \cap ({d} \X Page)
  BY MapsIt
<1>5. /\ Cardinality(Mappers(f)') = Cardinality(Mappers(f)) - Cardinality(MappersIn(d, f))
      /\ Cardinality(Mappers(f)') \in Nat
  <2>1. IsFiniteSet(Mappers(f))
    BY MappersFinite
  <2>2. /\ Cardinality(Mappers(f) \ ({d} \X Page))
             = Cardinality(Mappers(f)) - Cardinality(Mappers(f) \cap ({d} \X Page))
        /\ IsFiniteSet(Mappers(f) \ ({d} \X Page))
    BY <2>1, FS_Difference
  <2>3. Cardinality(Mappers(f) \ ({d} \X Page)) \in Nat
    BY <2>2, FS_CardinalityType
  <2> QED
    BY <1>3, <1>4, <2>2, <2>3
<1>6. frame_refs[f] = Cardinality(Mappers(f)) /\ Cardinality(Mappers(f)) \in Nat
      /\ Cardinality(MappersIn(d, f)) \in Nat
  BY MappersFinite DEF Accounting, RefExact
<1>7. frame_refs'[f] = IF frame_refs[f] > Cardinality(MappersIn(d, f))
                       THEN frame_refs[f] - Cardinality(MappersIn(d, f)) ELSE 0
  BY <1>1 DEF RefDecAll
<1> QED
  BY <1>3, <1>5, <1>6, <1>7

\* After it only the directory's own frames and those nobody else maps are free.
LEMMA DestroyAccounting ==
  ASSUME TypeInv, Accounting, NEW d \in Directories, Destroy(d), DirectoriesOwned'
  PROVE  Accounting' /\ Directories' = Directories \ {d}
<1> USE NullNotFrame, Types
<1>0. d \in Frame /\ pt[d] \in Frame
  BY DEF Directories, FrameOrNull
<1> DEFINE freed == {pte[d][p] : p \in Page} \cap {f \in Frame : frame_refs'[f] = 0}
<1>1. /\ bitmap' = bitmap \ (freed \cup {pt[d], d})
      /\ pt'  = [pt  EXCEPT ![d] = NULL]
      /\ pte' = [pte EXCEPT ![d] = Unmapped]
      /\ rw'  = [rw  EXCEPT ![d] = {}]
  BY DEF Destroy
<1>2. /\ pt \in [Frame -> FrameOrNull] /\ pte \in [Frame -> [Page -> FrameOrNull]]
      /\ rw \in [Frame -> SUBSET Page]
  BY DEF TypeInv, TypeOK
<1>3. \A f \in Frame : /\ Mappers(f)' = Mappers(f) \ ({d} \X Page)
                       /\ frame_refs'[f] = Cardinality(Mappers(f)')
  BY <1>0, DestroyCounts
<1>4. \A e \in Frame, p \in Page : pte'[e][p] = IF e = d THEN NULL ELSE pte[e][p]
  BY <1>0, <1>1, <1>2 DEF Unmapped
<1>5. RefExact'
  BY <1>3 DEF RefExact
<1>6. Directories' = Directories \ {d}
  BY <1>0, <1>1, <1>2 DEF Directories
<1>7. Tables' = Tables \ {pt[d]}
  <2>1. \A e \in Directories : e # d => pt[e] # pt[d]
    BY DEF Accounting, FramesAccounted
  <2>2. \A e \in Directories' : pt'[e] = pt[e]
    BY <1>0, <1>1, <1>2, <1>6 DEF Directories
  <2> QED
    BY <1>6, <2>1, <2>2 DEF Tables
<1>8. UserFrames' = UserFrames \ freed
  <2>1. ASSUME NEW f \in Frame PROVE f \in freed <=> Mappers(f) # {} /\ Mappers(f)' = {}
    <3>1. frame_refs'[f] = 0 <=> Mappers(f)' = {}
      <4>1. IsFiniteSet(Mappers(f)')
        <5>1. IsFiniteSet(Mappers(f))
          BY <1>0, MappersFinite
        <5>2. IsFiniteSet(Mappers(f) \ ({d} \X Page))
          BY <5>1, FS_Difference
        <5> QED
          BY <1>3, <5>2
      <4> QED
        BY <1>3, <4>1, FS_EmptySet
    <3>2. ASSUME f \in freed PROVE Mappers(f) # {}
      <4>1. PICK p \in Page : pte[d][p] = f
        BY <3>2
      <4> QED
        BY <1>0, <4>1, MapsIt
    <3>3. ASSUME Mappers(f) # {}, Mappers(f)' = {} PROVE f \in freed
      <4>1. PICK m \in Mappers(f) : m \in {d} \X Page
        BY <1>3, <3>3
      <4>2. m[2] \in Page /\ pte[d][m[2]] = f
        BY <4>1 DEF Mappers
      <4> QED
        BY <3>1, <3>3, <4>2
    <3> QED
      BY <3>1, <3>2, <3>3
  <2>2. \A f \in Frame : Mappers(f)' \subseteq Mappers(f)
    BY <1>3
  <2> HIDE DEF freed
  <2> QED
    BY <2>1, <2>2 DEF UserFrames
<1>9. EntriesOwned'
  BY <1>0, <1>4, <1>6 DEF Accounting, FramesAccounted, EntriesOwned
<1>10. WritableUnshared'
  <2> SUFFICES ASSUME NEW e \in Frame, NEW p \in rw'[e]
               PROVE  pte'[e][p] # NULL /\ Mappers(pte[e][p])' = {<<e, p>>}
    BY DEF WritableUnshared
  <2>1. e # d /\ p \in rw[e] /\ p \in Page
    BY <1>0, <1>1, <1>2
  <2>2. pte'[e][p] = pte[e][p] /\ pte[e][p] # NULL /\ Mappers(pte[e][p]) = {<<e, p>>}
    BY <1>4, <2>1 DEF Accounting, WritableUnshared
  <2>3. PICK f \in Frame : f = pte[e][p]
    BY <2>1, <2>2 DEF FrameOrNull
  <2>4. Mappers(f)' = {<<e, p>>}
    BY <1>3, <2>1, <2>2, <2>3
  <2> QED
    BY <2>2, <2>3, <2>4 DEF Mappers
<1>11. FramesAccounted'
  <2>1. /\ d \notin Tables /\ d \notin UserFrames
        /\ pt[d] \notin Directories /\ pt[d] \notin UserFrames
        /\ freed \cap (Directories \cup Tables) = {}
    <3>1. freed \subseteq UserFrames
      <4> SUFFICES ASSUME NEW f \in freed PROVE f \in UserFrames
        OBVIOUS
      <4>1. PICK p \in Page : pte[d][p] = f
        OBVIOUS
      <4>2. f \in Frame /\ <<d, p>> \in Mappers(f)
        BY <1>0, <4>1, MapsIt
      <4> QED
        BY <4>2 DEF UserFrames
    <3>2. pt[d] \in Tables
      BY DEF Tables
    <3> HIDE DEF freed
    <3> QED
      BY <3>1, <3>2 DEF Accounting, FramesAccounted
  <2>2. bitmap' = Directories' \cup Tables' \cup UserFrames'
    <3> HIDE DEF freed
    <3> QED
      BY <1>1, <1>6, <1>7, <1>8, <2>1 DEF Accounting, FramesAccounted
  <2>3. \A e, g \in Directories' : pt'[e] = pt'[g] => e = g
    <3>1. \A e \in Directories' : e \in Directories /\ pt'[e] = pt[e]
      BY <1>0, <1>1, <1>2, <1>6 DEF Directories
    <3> QED
      BY <3>1 DEF Accounting, FramesAccounted
  <2> HIDE DEF freed
  <2> QED
    BY <1>6, <1>7, <1>8, <1>9, <2>2, <2>3 DEF Accounting, FramesAccounted
<1> QED
  BY <1>5, <1>6, <1>10, <1>11 DEF Accounting

------------------------------------------------------------------------------
(* The steps of user_spawn. *)

\* A new directory and its table: two free frames change roles.
LEMMA NewDirectory ==
  ASSUME TypeInv, Accounting, NEW pd \in Frame \ bitmap, NEW tb \in Frame \ bitmap, pd # tb,
         pt' = [pt EXCEPT ![pd] = tb]
  PROVE  /\ Directories' = Directories \cup {pd} /\ Tables' = Tables \cup {tb}
         /\ Directories' \cap Tables' = {}
         /\ \A d, e \in Directories' : pt'[d] = pt'[e] => d = e
<1>1. pt \in [Frame -> FrameOrNull] /\ tb # NULL
  BY NullNotFrame DEF TypeInv, TypeOK
<1>2. pd \notin Directories \cup Tables /\ tb \notin Directories \cup Tables
  BY FreeFrame
<1>3. \A d \in Frame : pt'[d] = IF d = pd THEN tb ELSE pt[d]
  BY <1>1
<1>4. Directories' = Directories \cup {pd}
  BY <1>1, <1>3 DEF Directories
<1>5. \A d \in Directories : pt[d] \in Tables
  BY DEF Tables
<1>6. Tables' = Tables \cup {tb}
  <2>1. \A d \in Directories' : pt'[d] = IF d = pd THEN tb ELSE pt[d]
    BY <1>3 DEF Directories
  <2>2. pd \notin Directories
    BY <1>2
  <2> QED
    BY <1>4, <2>1, <2>2 DEF Tables
<1>7. Directories' \cap Tables' = {}
  BY <1>2, <1>4, <1>6 DEF Accounting, FramesAccounted
<1>8. \A d, e \in Directories' : pt'[d] = pt'[e] => d = e
  <2>1. \A d \in Directories' : pt'[d] = IF d = pd THEN tb ELSE pt[d]
    BY <1>3 DEF Directories
  <2> QED
    BY <1>2, <1>4, <1>5, <2>1 DEF Accounting, FramesAccounted
<1> QED
  BY <1>4, <1>6, <1>7, <1>8

\* Nothing changes for steps that only move the CPU's state or the contents.
LEMMA AccountingUnchanged ==
  ASSUME Accounting, UNCHANGED <<bitmap, frame_refs, pt, pte, rw, cr3, spawn>>
  PROVE  Accounting' /\ Directories' = Directories
<1>1. Directories' = Directories /\ Tables' = Tables /\ \A f \in Frame : Mappers(f)' = Mappers(f)
  BY DEF Directories, Tables, Mappers
<1>2. UserFrames' = UserFrames
  BY <1>1 DEF UserFrames
<1>3. FramesAccounted'
  BY <1>1, <1>2 DEF Accounting, FramesAccounted, DirectoriesOwned, EntriesOwned
<1>4. RefExact'
  BY <1>1 DEF Accounting, RefExact
<1>5. WritableUnshared'
  BY DEF Accounting, WritableUnshared, Mappers
<1> QED
  BY <1>1, <1>3, <1>4, <1>5 DEF Accounting

\* A free frame mapped where nothing was: SpawnMap.
LEMMA MapAccounting ==
  ASSUME TypeInv, Accounting, NEW d \in Directories, NEW p \in Page, NEW f \in Frame \ bitmap,
         pte[d][p] = NULL,
         bitmap' = bitmap \cup {f},
         pte' = [pte EXCEPT ![d][p] = f],
         rw'  = [rw  EXCEPT ![d] = @ \cup {p}],
         frame_refs' = [frame_refs EXCEPT ![f] = IF @ < RefMax THEN @ + 1 ELSE @],
         UNCHANGED <<pt, cr3, spawn>>
  PROVE  Accounting' /\ Directories' = Directories
<1> USE NullNotFrame
<1>0. d \in Frame /\ f # NULL
  BY DEF Directories
<1>1. /\ pte \in [Frame -> [Page -> FrameOrNull]] /\ rw \in [Frame -> SUBSET Page]
      /\ frame_refs \in [Frame -> 0..RefMax]
  BY DEF TypeInv, TypeOK
<1>2. \A e \in Frame, q \in Page : pte'[e][q] = IF e = d /\ q = p THEN f ELSE pte[e][q]
  BY <1>0, <1>1
<1>3. /\ f \notin Directories /\ f \notin Tables /\ Mappers(f) = {} /\ frame_refs[f] = 0
      /\ \A e \in Frame, q \in Page : pte[e][q] # f
  BY FreeFrame
<1>4. Mappers(f)' = {<<d, p>>}
  BY <1>0, <1>2, <1>3 DEF Mappers
<1>5. ASSUME NEW g \in Frame, g # f PROVE Mappers(g)' = Mappers(g)
  <2>1. g # NULL
    BY NullNotFrame
  <2> QED
    BY <1>0, <1>2, <1>5, <2>1 DEF Mappers
<1>6. Directories' = Directories /\ Tables' = Tables
  BY DEF Directories, Tables
<1>7. UserFrames' = UserFrames \cup {f}
  BY <1>4, <1>5 DEF UserFrames
<1>8. EntriesOwned'
  BY <1>0, <1>2, <1>3, <1>6 DEF Accounting, FramesAccounted, EntriesOwned
<1>9. FramesAccounted'
  BY <1>3, <1>6, <1>7, <1>8 DEF Accounting, FramesAccounted, DirectoriesOwned
<1>10. RefExact'
  <2> SUFFICES ASSUME NEW g \in Frame PROVE frame_refs'[g] = Cardinality(Mappers(g)')
    BY DEF RefExact
  <2>1. CASE g = f
    <3>1. frame_refs'[f] = 1
      BY <1>1, <1>3, TaskAssumption
    <3>2. Cardinality({<<d, p>>}) = 1
      BY FS_Singleton
    <3> QED
      BY <1>4, <2>1, <3>1, <3>2
  <2>2. CASE g # f
    BY <1>1, <1>5, <2>2 DEF Accounting, RefExact
  <2> QED
    BY <2>1, <2>2
<1>11. WritableUnshared'
  <2> SUFFICES ASSUME NEW e \in Frame, NEW q \in rw'[e]
               PROVE  pte'[e][q] # NULL /\ Mappers(pte[e][q])' = {<<e, q>>}
    BY DEF WritableUnshared
  <2>1. q \in Page
    BY <1>0, <1>1
  <2>2. CASE e = d /\ q = p
    <3>1. pte'[e][q] = f
      BY <1>2, <2>1, <2>2
    <3> QED
      BY <1>0, <1>4, <2>2, <3>1 DEF Mappers
  <2>3. CASE ~ (e = d /\ q = p)
    <3>1. q \in rw[e] /\ pte'[e][q] = pte[e][q]
      BY <1>0, <1>1, <1>2, <2>1, <2>3
    <3>2. pte[e][q] # NULL /\ Mappers(pte[e][q]) = {<<e, q>>}
      BY <3>1 DEF Accounting, WritableUnshared
    <3>3. PICK g \in Frame : g = pte[e][q]
      <4>1. pte[e][q] \in FrameOrNull
        BY <2>1, Types
      <4> QED
        BY <3>2, <4>1 DEF FrameOrNull
    <3>4. Mappers(g)' = {<<e, q>>}
      BY <1>3, <1>5, <2>1, <3>2, <3>3
    <3> QED
      BY <3>1, <3>2, <3>3, <3>4 DEF Mappers
  <2> QED
    BY <2>2, <2>3
<1> QED
  BY <1>6, <1>9, <1>10, <1>11 DEF Accounting

\* user_spawn keeps the books, also when it fails half-way.
LEMMA ShellAccounting ==
  ASSUME TypeInv, Accounting, ShellNext
  PROVE  Accounting'
<1> USE NullNotFrame
<1>1. spawn.pc # "idle" => spawn.cr3 \in Directories /\ \A s \in Slot : cr3[s] # spawn.cr3
  BY DEF Accounting, FramesAccounted, DirectoriesOwned
<1>2. spawn \in [pc : {"idle", "load", "stack", "slot", "ready"}, cr3 : FrameOrNull,
                     img : SUBSET Page, slot : Slot \cup {Shell}]
  BY DEF TypeInv, TypeOK
<1>3. ASSUME SpawnFail, spawn.pc # "idle" PROVE Accounting'
  <2>1. Destroy(spawn.cr3) /\ spawn' = NoSpawn /\ cr3' = cr3
    BY <1>3 DEF SpawnFail
  <2>2. Directories' = Directories \ {spawn.cr3}
    <3>1. pt' = [pt EXCEPT ![spawn.cr3] = NULL] /\ pt \in [Frame -> FrameOrNull]
      BY <2>1 DEF Destroy, TypeInv, TypeOK
    <3> QED
      BY <1>1, <1>3, <3>1 DEF Directories
  <2>3. DirectoriesOwned'
    BY <1>1, <1>3, <2>1, <2>2 DEF NoSpawn, Accounting, FramesAccounted, DirectoriesOwned
  <2> QED
    BY <1>1, <1>3, <2>1, <2>3, DestroyAccounting
<1>4. ASSUME NEW why, Halt(why) PROVE Accounting'
  BY <1>4, AccountingUnchanged DEF Halt, memory
<1>5. ASSUME NEW img \in Images, SpawnCreate(img) PROVE Accounting'
  <2> DEFINE pd == Lowest(Free)
             tb == Lowest(Free \ {pd})
  <2>1. pd \in Frame \ bitmap /\ tb \in Frame \ bitmap /\ pd # tb
    BY <1>5, FirstFit DEF SpawnCreate
  <2>2. CASE Reachable(pd) /\ Reachable(tb)
    <3>1. /\ bitmap' = bitmap \cup {pd, tb} /\ pt' = [pt EXCEPT ![pd] = tb]
          /\ spawn' = [pc |-> "load", cr3 |-> pd, img |-> img, slot |-> Shell]
          /\ UNCHANGED <<frame_refs, pte, rw, cr3>> /\ spawn.pc = "idle"
      BY <1>5, <2>2 DEF SpawnCreate
    <3> HIDE DEF pd, tb
    <3>2. /\ Directories' = Directories \cup {pd} /\ Tables' = Tables \cup {tb}
          /\ Directories' \cap Tables' = {}
          /\ \A d, e \in Directories' : pt'[d] = pt'[e] => d = e
      BY <2>1, <3>1, NewDirectory
    <3>3. /\ Mappers(pd) = {} /\ Mappers(tb) = {} /\ pd # NULL
          /\ \A s \in Slot : cr3[s] # pd
      BY <2>1, FreeFrame
    <3>4. \A f \in Frame : Mappers(f)' = Mappers(f)
      BY <3>1 DEF Mappers
    <3>5. UserFrames' = UserFrames /\ pd \notin UserFrames /\ tb \notin UserFrames
      BY <3>3, <3>4 DEF UserFrames
    <3>6. spawn.cr3 = NULL
      BY <3>1 DEF Accounting, FramesAccounted, DirectoriesOwned
    <3>7. DirectoriesOwned'
      BY <3>1, <3>2, <3>3, <3>6 DEF Accounting, FramesAccounted, DirectoriesOwned
    <3>8. EntriesOwned'
      BY <3>1, <3>2 DEF Accounting, FramesAccounted, EntriesOwned
    <3>9. FramesAccounted'
      BY <3>1, <3>2, <3>5, <3>7, <3>8 DEF Accounting, FramesAccounted
    <3>10. RefExact'
      BY <3>1, <3>4 DEF Accounting, RefExact
    <3>11. WritableUnshared'
      BY <3>1 DEF Accounting, WritableUnshared, Mappers
    <3> QED
      BY <3>9, <3>10, <3>11 DEF Accounting
  <2> QED
    BY <1>4, <1>5, <2>2 DEF SpawnCreate
<1>6. ASSUME SpawnMap PROVE Accounting'
  <2>1. CASE Free = {}
    BY <1>3, <1>6, <2>1 DEF SpawnMap
  <2>2. CASE Free # {}
    <3> DEFINE d == spawn.cr3
               p == Lowest(Missing)
               f == Lowest(Free)
    <3>1. d \in Directories /\ p \in Page /\ f \in Frame \ bitmap /\ pte[d][p] = NULL
      BY <1>1, <1>2, <1>6, <2>2, FirstFit DEF SpawnMap, Missing
    <3>2. /\ bitmap' = bitmap \cup {f}
          /\ pte' = [pte EXCEPT ![d][p] = f]
          /\ rw'  = [rw  EXCEPT ![d] = @ \cup {p}]
          /\ frame_refs' = [frame_refs EXCEPT ![f] = IF @ < RefMax THEN @ + 1 ELSE @]
          /\ UNCHANGED <<pt, cr3, spawn>>
      BY <1>6, <2>2 DEF SpawnMap
    <3> HIDE DEF d, p, f
    <3> QED
      BY <3>1, <3>2, MapAccounting
  <2> QED
    BY <2>1, <2>2
<1>7. ASSUME SpawnCopy PROVE Accounting'
  <2>1. CASE cpu_cr3 = spawn.cr3
    <3>1. UNCHANGED <<bitmap, frame_refs, pt, pte, rw, cr3>>
          /\ spawn' = [spawn EXCEPT !.pc = "stack"] /\ spawn.pc = "load"
      BY <1>7, <2>1 DEF SpawnCopy
    <3>2. spawn'.cr3 = spawn.cr3 /\ spawn'.pc = "stack"
      BY <1>2, <3>1
    <3>3. Directories' = Directories /\ Tables' = Tables /\ \A f \in Frame : Mappers(f)' = Mappers(f)
      BY <3>1 DEF Directories, Tables, Mappers
    <3>4. UserFrames' = UserFrames
      BY <3>3 DEF UserFrames
    <3>5. FramesAccounted'
      BY <3>1, <3>2, <3>3, <3>4
         DEF Accounting, FramesAccounted, DirectoriesOwned, EntriesOwned
    <3>6. RefExact' /\ WritableUnshared'
      BY <3>1, <3>3 DEF Accounting, RefExact, WritableUnshared, Mappers
    <3> QED
      BY <3>5, <3>6 DEF Accounting
  <2> QED
    BY <1>4, <1>7, <2>1 DEF SpawnCopy
<1>8. ASSUME SpawnReject PROVE Accounting'
  BY <1>3, <1>8 DEF SpawnReject
<1>9. ASSUME spawn'.cr3 = spawn.cr3, spawn'.pc # "idle", spawn.pc # "idle",
             UNCHANGED <<bitmap, frame_refs, pt, pte, rw, cr3>>
      PROVE  Accounting'
  <2>1. Directories' = Directories /\ Tables' = Tables /\ \A f \in Frame : Mappers(f)' = Mappers(f)
    BY <1>9 DEF Directories, Tables, Mappers
  <2>2. UserFrames' = UserFrames
    BY <2>1 DEF UserFrames
  <2>3. FramesAccounted'
    BY <1>9, <2>1, <2>2 DEF Accounting, FramesAccounted, DirectoriesOwned, EntriesOwned
  <2>4. frame_refs' = frame_refs /\ rw' = rw /\ pte' = pte
    BY <1>9
  <2>5. RefExact'
    BY <2>1, <2>4 DEF Accounting, RefExact
  <2>6. WritableUnshared'
    BY <2>4 DEF Accounting, WritableUnshared, Mappers
  <2> QED
    BY <2>3, <2>5, <2>6 DEF Accounting
<1>10. ASSUME SpawnSlot PROVE Accounting'
  <2>1. CASE Dead = {}
    BY <1>3, <1>10, <2>1 DEF SpawnSlot
  <2>2. CASE Dead # {}
    <3>1. /\ spawn' = [spawn EXCEPT !.pc = "slot", !.slot = Lowest(Dead)] /\ spawn.pc = "stack"
          /\ UNCHANGED <<bitmap, frame_refs, pt, pte, rw, cr3>>
      BY <1>10, <2>2 DEF SpawnSlot, memory
    <3>2. spawn'.cr3 = spawn.cr3 /\ spawn'.pc = "slot"
      BY <1>2, <3>1
    <3> QED BY <1>9, <3>1, <3>2
  <2> QED BY <2>1, <2>2
<1>11. ASSUME SpawnReady PROVE Accounting'
  <2>1. CASE spawn.slot \in Dead
    <3>1. /\ spawn' = [spawn EXCEPT !.pc = "ready"] /\ spawn.pc = "slot"
          /\ UNCHANGED <<bitmap, frame_refs, pt, pte, rw, cr3>>
      BY <1>11, <2>1 DEF SpawnReady, memory
    <3>2. spawn'.cr3 = spawn.cr3 /\ spawn'.pc = "ready"
      BY <1>2, <3>1
    <3> QED BY <1>9, <3>1, <3>2
  <2> QED BY <1>4, <1>11, <2>1 DEF SpawnReady
<1>12. ASSUME NEW stack \in BOOLEAN, NEW area \in BOOLEAN, SpawnCommit(stack, area)
       PROVE  Accounting'
  <2>1. CASE stack
    <3> DEFINE s == spawn.slot
    <3>1. /\ UNCHANGED <<bitmap, frame_refs, pt, pte, rw>>
          /\ cr3' = [cr3 EXCEPT ![s] = spawn.cr3] /\ spawn' = NoSpawn /\ spawn.pc = "ready"
      BY <1>12, <2>1 DEF SpawnCommit, memory
    <3>2. s \in Slot /\ cr3[s] = NULL
      BY <3>1 DEF TypeInv, Loaded
    <3> HIDE DEF s
    <3>3. Directories' = Directories /\ Tables' = Tables /\ \A f \in Frame : Mappers(f)' = Mappers(f)
      BY <3>1 DEF Directories, Tables, Mappers
    <3>4. UserFrames' = UserFrames
      BY <3>3 DEF UserFrames
    <3>5. \A t \in Slot : cr3'[t] = IF t = s THEN spawn.cr3 ELSE cr3[t]
      BY <3>1 DEF TypeInv, TypeOK
    <3>6. DirectoriesOwned'
      BY <1>1, <3>1, <3>2, <3>3, <3>5 DEF NoSpawn, Accounting, FramesAccounted, DirectoriesOwned
    <3>7. FramesAccounted'
      BY <3>1, <3>3, <3>4, <3>6 DEF Accounting, FramesAccounted, EntriesOwned
    <3>8. RefExact' /\ WritableUnshared'
      BY <3>1, <3>3 DEF Accounting, RefExact, WritableUnshared, Mappers
    <3> QED
      BY <3>7, <3>8 DEF Accounting
  <2> QED
    BY <1>3, <1>12, <2>1 DEF SpawnCommit
<1> QED
  BY <1>5, <1>6, <1>7, <1>8, <1>10, <1>11, <1>12 DEF ShellNext

------------------------------------------------------------------------------
(* The steps of a process. *)

\* A frame of its own for a page shared copy-on-write: paging_cow_fault.
LEMMA CopyAccounting ==
  ASSUME TypeInv, Accounting, NEW d \in Directories, NEW p \in Page,
         NEW old \in Frame, NEW nf \in Frame \ bitmap, NEW left \in Nat,
         pte[d][p] = old, p \notin rw[d],
         left = IF frame_refs[old] > 0 THEN frame_refs[old] - 1 ELSE 0,
         pte' = [pte EXCEPT ![d][p] = nf],
         rw'  = [rw  EXCEPT ![d] = @ \cup {p}],
         bitmap' = (IF left = 0 THEN bitmap \ {old} ELSE bitmap) \cup {nf},
         frame_refs' = [frame_refs EXCEPT ![old] = left,
                            ![nf] = IF @ < RefMax THEN @ + 1 ELSE @],
         UNCHANGED <<pt, cr3, spawn>>
  PROVE  Accounting' /\ Directories' = Directories
<1> USE NullNotFrame
<1>0. d \in Frame /\ nf # NULL
  BY DEF Directories
<1>1. /\ pte \in [Frame -> [Page -> FrameOrNull]] /\ rw \in [Frame -> SUBSET Page]
      /\ frame_refs \in [Frame -> 0..RefMax]
  BY DEF TypeInv, TypeOK
<1>2. \A e \in Frame, q \in Page : pte'[e][q] = IF e = d /\ q = p THEN nf ELSE pte[e][q]
  BY <1>0, <1>1
<1>3. /\ nf \notin Directories /\ nf \notin Tables /\ Mappers(nf) = {} /\ frame_refs[nf] = 0
      /\ \A e \in Frame, q \in Page : pte[e][q] # nf
  BY FreeFrame
<1>4. nf # old
  BY <1>0, <1>3
<1>5. Mappers(nf)' = {<<d, p>>}
  BY <1>0, <1>2, <1>3 DEF Mappers
<1>6. ASSUME NEW g \in Frame, g # nf, g # old PROVE Mappers(g)' = Mappers(g)
  <2>1. g # NULL
    OBVIOUS
  <2> QED
    BY <1>0, <1>2, <1>6, <2>1 DEF Mappers
<1>7. <<d, p>> \in Mappers(old) /\ Mappers(old)' = Mappers(old) \ {<<d, p>>}
  <2>1. <<d, p>> \in Mappers(old)
    BY <1>0, MapsIt
  <2> QED
    BY <1>0, <1>2, <1>4, <2>1 DEF Mappers
<1>8. /\ Cardinality(Mappers(old)) = frame_refs[old] /\ frame_refs[old] > 0
      /\ Cardinality(Mappers(old)') = left
      /\ left = 0 <=> Mappers(old)' = {}
  <2>1. IsFiniteSet(Mappers(old)) /\ Cardinality(Mappers(old)) \in Nat
    BY MappersFinite
  <2>2. /\ IsFiniteSet(Mappers(old) \ {<<d, p>>})
        /\ Cardinality(Mappers(old) \ {<<d, p>>}) = Cardinality(Mappers(old)) - 1
    BY <1>7, <2>1, FS_RemoveElement
  <2>3. Cardinality(Mappers(old)) = frame_refs[old]
    BY DEF Accounting, RefExact
  <2>4. Cardinality(Mappers(old)) # 0
    BY <1>7, <2>1, FS_EmptySet
  <2>5. Cardinality(Mappers(old)') = left
    BY <1>7, <2>1, <2>2, <2>3, <2>4
  <2>6. Cardinality(Mappers(old) \ {<<d, p>>}) = 0 <=> Mappers(old) \ {<<d, p>>} = {}
    BY <2>2, FS_EmptySet
  <2> QED
    BY <1>7, <2>1, <2>3, <2>4, <2>5, <2>6
<1>9. Directories' = Directories /\ Tables' = Tables
  BY DEF Directories, Tables
<1>10. UserFrames' = (IF left = 0 THEN UserFrames \ {old} ELSE UserFrames) \cup {nf}
  <2>1. Mappers(nf)' # {} /\ (Mappers(old)' = {} <=> left = 0) /\ Mappers(old) # {}
    BY <1>5, <1>7, <1>8
  <2>2. \A g \in Frame : g # nf /\ g # old => Mappers(g)' = Mappers(g)
    BY <1>6
  <2> QED
    BY <1>4, <2>1, <2>2 DEF UserFrames
<1>11. EntriesOwned'
  BY <1>0, <1>2, <1>3, <1>9 DEF Accounting, FramesAccounted, EntriesOwned
<1>12. FramesAccounted'
  <2>1. old \in UserFrames
    BY <1>7 DEF UserFrames
  <2> QED
    BY <1>3, <1>9, <1>10, <1>11, <2>1 DEF Accounting, FramesAccounted, DirectoriesOwned
<1>13. RefExact'
  <2> SUFFICES ASSUME NEW g \in Frame PROVE frame_refs'[g] = Cardinality(Mappers(g)')
    BY DEF RefExact
  <2>1. CASE g = nf
    <3>1. frame_refs'[nf] = 1
      BY <1>1, <1>3, <1>4, TaskAssumption
    <3>2. Cardinality({<<d, p>>}) = 1
      BY FS_Singleton
    <3> QED
      BY <1>5, <2>1, <3>1, <3>2
  <2>2. CASE g = old
    BY <1>1, <1>4, <1>8, <2>2
  <2>3. CASE g # nf /\ g # old
    BY <1>1, <1>6, <2>3 DEF Accounting, RefExact
  <2> QED
    BY <2>1, <2>2, <2>3
<1>14. WritableUnshared'
  <2> SUFFICES ASSUME NEW e \in Frame, NEW q \in rw'[e]
               PROVE  pte'[e][q] # NULL /\ Mappers(pte[e][q])' = {<<e, q>>}
    BY DEF WritableUnshared
  <2>1. q \in Page
    BY <1>0, <1>1
  <2>2. CASE e = d /\ q = p
    <3>1. pte'[e][q] = nf
      BY <1>2, <2>1, <2>2
    <3> QED
      BY <1>0, <1>5, <2>2, <3>1 DEF Mappers
  <2>3. CASE ~ (e = d /\ q = p)
    <3>1. q \in rw[e] /\ pte'[e][q] = pte[e][q]
      BY <1>0, <1>1, <1>2, <2>1, <2>3
    <3>2. pte[e][q] # NULL /\ Mappers(pte[e][q]) = {<<e, q>>}
      BY <3>1 DEF Accounting, WritableUnshared
    <3>3. PICK g \in Frame : g = pte[e][q]
      <4>1. pte[e][q] \in FrameOrNull
        BY <2>1, Types
      <4> QED
        BY <3>2, <4>1 DEF FrameOrNull
    <3>4. g # old
      BY <1>7, <2>3, <3>2, <3>3
    <3>5. Mappers(g)' = {<<e, q>>}
      BY <1>3, <1>6, <2>1, <3>2, <3>3, <3>4
    <3> QED
      BY <3>1, <3>2, <3>3, <3>5 DEF Mappers
  <2> QED
    BY <2>2, <2>3
<1> QED
  BY <1>9, <1>12, <1>13, <1>14 DEF Accounting

\* A clone of directory d for the process in slot c: paging_fork_addr_space.
LEMMA CloneAccounting ==
  ASSUME TypeInv, Accounting, TypeInv', NEW d \in Directories, NEW c \in Slot, cr3[c] = NULL,
         NEW pd \in Frame \ bitmap, NEW tb \in Frame \ bitmap, pd # tb,
         bitmap' = bitmap \cup {pd, tb},
         pt'  = [pt  EXCEPT ![pd] = tb],
         pte' = [pte EXCEPT ![pd] = pte[d]],
         rw'  = BothReadOnly(d, pd),
         frame_refs' = RefIncAll(d),
         cr3' = [cr3 EXCEPT ![c] = pd],
         spawn' = spawn
  PROVE  Accounting' /\ Directories' = Directories \cup {pd}
<1> USE NullNotFrame
<1>0. d \in Frame /\ pd # NULL
  BY DEF Directories
<1>1. /\ pte \in [Frame -> [Page -> FrameOrNull]] /\ rw \in [Frame -> SUBSET Page]
      /\ cr3 \in [Slot -> FrameOrNull]
  BY DEF TypeInv, TypeOK
<1>2. /\ Directories' = Directories \cup {pd} /\ Tables' = Tables \cup {tb}
      /\ Directories' \cap Tables' = {}
      /\ \A e, g \in Directories' : pt'[e] = pt'[g] => e = g
  BY NewDirectory
<1>3. /\ Mappers(pd) = {} /\ Mappers(tb) = {}
      /\ \A q \in Page : pte[pd][q] = NULL
      /\ \A s \in Slot : cr3[s] # pd
      /\ pd \notin Directories /\ spawn.cr3 # pd
  BY FreeFrame
<1>4. \A e \in Frame, q \in Page : pte'[e][q] = IF e = pd THEN pte[d][q] ELSE pte[e][q]
  BY <1>0, <1>1
<1>5. ASSUME NEW f \in Frame, \A q \in Page : pte[d][q] # f
      PROVE  Mappers(f)' = Mappers(f) /\ MappersIn(d, f) = {}
  <2>1. f # NULL
    OBVIOUS
  <2> QED
    BY <1>0, <1>3, <1>4, <1>5, <2>1 DEF Mappers, MappersIn
<1>6. ASSUME NEW f \in Frame, NEW q \in Page, pte[d][q] = f
      PROVE  /\ Mappers(f)' = Mappers(f) \cup {<<pd, q>>} /\ <<pd, q>> \notin Mappers(f)
             /\ MappersIn(d, f) = {<<d, q>>}
  <2>1. f # NULL
    OBVIOUS
  <2>2. \A r \in Page : pte[d][r] = f => r = q
    BY <1>0, <1>6, <2>1 DEF Accounting, FramesAccounted, EntriesOwned
  <2>3. <<pd, q>> \notin Mappers(f)
    BY <1>3, <1>6, <2>1, MapsIt
  <2>4. MappersIn(d, f) = {<<d, q>>}
    BY <1>0, <1>6, <2>2 DEF MappersIn
  <2>5. Mappers(f)' = Mappers(f) \cup {<<pd, q>>}
    BY <1>0, <1>3, <1>4, <1>6, <2>1, <2>2 DEF Mappers
  <2> QED
    BY <2>3, <2>4, <2>5
<1>7. UserFrames' = UserFrames
  <2>1. ASSUME NEW f \in Frame PROVE Mappers(f)' # {} <=> Mappers(f) # {}
    <3>1. CASE \A q \in Page : pte[d][q] # f
      BY <1>5, <3>1
    <3>2. CASE \E q \in Page : pte[d][q] = f
      <4>1. PICK q \in Page : pte[d][q] = f
        BY <3>2
      <4>2. <<d, q>> \in Mappers(f)
        BY <1>0, <4>1, MapsIt
      <4> QED
        BY <1>6, <4>1, <4>2
    <3> QED
      BY <3>1, <3>2
  <2> QED
    BY <2>1 DEF UserFrames
<1>8. EntriesOwned'
  BY <1>0, <1>2, <1>4 DEF Accounting, FramesAccounted, EntriesOwned
<1>9. DirectoriesOwned'
  <2>1. \A s \in Slot : cr3'[s] = IF s = c THEN pd ELSE cr3[s]
    BY <1>1
  <2> QED
    BY <1>0, <1>2, <1>3, <2>1 DEF Accounting, FramesAccounted, DirectoriesOwned
<1>10. FramesAccounted'
  <2>1. pd \notin UserFrames /\ tb \notin UserFrames
    BY <1>3 DEF UserFrames
  <2> QED
    BY <1>2, <1>7, <1>8, <1>9, <2>1 DEF Accounting, FramesAccounted
<1>11. RefExact'
  <2>0. \A f \in Frame : Cardinality(Mappers(f)') <= MaxTasks
    <3>1. (TypeInv /\ DirectoriesOwned /\ EntriesOwned
             => \A f \in Frame : Cardinality(Mappers(f)) <= MaxTasks)'
      BY MappersBounded, PTL
    <3> QED
      BY <1>8, <1>9, <3>1
  <2> SUFFICES ASSUME NEW f \in Frame PROVE frame_refs'[f] = Cardinality(Mappers(f)')
    BY DEF RefExact
  <2>1. /\ IsFiniteSet(Mappers(f)) /\ Cardinality(Mappers(f)) \in Nat
        /\ frame_refs[f] = Cardinality(Mappers(f))
    BY <1>0, MappersFinite DEF Accounting, RefExact
  <2>2. frame_refs'[f] = LET n == frame_refs[f] + Cardinality(MappersIn(d, f))
                         IN  IF n < RefMax THEN n ELSE RefMax
    BY DEF RefIncAll
  <2>3. Cardinality(Mappers(f)') = frame_refs[f] + Cardinality(MappersIn(d, f))
    <3>1. CASE \A q \in Page : pte[d][q] # f
      <4>1. Cardinality(MappersIn(d, f)) = 0
        BY <1>5, <3>1, FS_EmptySet
      <4> QED
        BY <1>5, <2>1, <3>1, <4>1
    <3>2. CASE \E q \in Page : pte[d][q] = f
      <4>1. PICK q \in Page : pte[d][q] = f
        BY <3>2
      <4>2. Cardinality(MappersIn(d, f)) = 1
        <5>1. MappersIn(d, f) = {<<d, q>>}
          BY <1>6, <4>1
        <5>2. Cardinality({<<d, q>>}) = 1
          BY FS_Singleton
        <5> QED
          BY <5>1, <5>2
      <4>3. Cardinality(Mappers(f) \cup {<<pd, q>>}) = Cardinality(Mappers(f)) + 1
        <5>1. <<pd, q>> \notin Mappers(f)
          BY <1>6, <4>1
        <5> QED
          BY <2>1, <5>1, FS_AddElement
      <4>4. Mappers(f)' = Mappers(f) \cup {<<pd, q>>}
        BY <1>6, <4>1
      <4> QED
        BY <2>1, <4>2, <4>3, <4>4
    <3> QED
      BY <3>1, <3>2
  <2>4. Cardinality(Mappers(f)') <= RefMax /\ frame_refs[f] \in Nat
        /\ Cardinality(MappersIn(d, f)) \in Nat
    BY <1>0, <2>0, <2>1, <2>3, MappersFinite, TaskAssumption
  <2> QED
    BY <2>2, <2>3, <2>4, TaskAssumption
<1>12. WritableUnshared'
  <2> SUFFICES ASSUME NEW e \in Frame, NEW q \in rw'[e]
               PROVE  pte'[e][q] # NULL /\ Mappers(pte[e][q])' = {<<e, q>>}
    BY DEF WritableUnshared
  <2>1. e # d /\ e # pd /\ q \in rw[e] /\ q \in Page
    BY <1>0, <1>1 DEF BothReadOnly
  <2>2. pte'[e][q] = pte[e][q] /\ pte[e][q] # NULL /\ Mappers(pte[e][q]) = {<<e, q>>}
    BY <1>4, <2>1 DEF Accounting, WritableUnshared
  <2>3. PICK g \in Frame : g = pte[e][q]
    <3>1. pte[e][q] \in FrameOrNull
      BY <2>1, Types
    <3> QED
      BY <2>2, <3>1 DEF FrameOrNull
  <2>4. \A r \in Page : pte[d][r] # g
    BY <1>0, <2>1, <2>2, <2>3, MapsIt
  <2>5. Mappers(g)' = {<<e, q>>}
    BY <1>5, <2>2, <2>3, <2>4
  <2> QED
    BY <2>2, <2>3, <2>5 DEF Mappers
<1> QED
  BY <1>2, <1>10, <1>11, <1>12 DEF Accounting

\* What the steps of a running process start from.
LEMMA Running ==
  ASSUME Inv, NEW s \in Slot, Runs(s)
  PROVE  s # Shell /\ cpu_cr3 = cr3[s] /\ cr3[s] \in Directories
<1>1. s # Shell
  BY DEF Slot, Shell
<1>2. cpu_cr3 = cr3[s] /\ cr3[s] # NULL
  BY <1>1 DEF Inv, Translation, LoadedDirectoryLive, Runs
<1> QED
  BY <1>1, <1>2 DEF Inv, Accounting, FramesAccounted, DirectoriesOwned

\* Every trap and syscall of a process keeps the books.
LEMMA ProcessAccounting ==
  ASSUME Inv, TypeInv', NEW s \in Slot, ProcessNext(s)
  PROVE  Accounting'
<1> USE NullNotFrame
<1>1. TypeInv /\ Accounting
  BY DEF Inv
<1>2. Runs(s) => cpu_cr3 = cr3[s] /\ cr3[s] \in Directories
  BY Running
<1>3. ASSUME NEW why, Halt(why) PROVE Accounting'
  BY <1>1, <1>3, AccountingUnchanged DEF Halt, memory
<1>4. ASSUME NEW p \in Page, UserLoad(s, p) PROVE Accounting'
  BY <1>1, <1>4, AccountingUnchanged DEF UserLoad, memory
<1>5. ASSUME NEW p \in Page, NEW v \in Value, UserStore(s, p, v) \/ KernelStore(s, p, v)
      PROVE  Accounting'
  BY <1>1, <1>3, <1>5, AccountingUnchanged DEF UserStore, KernelStore, Write
<1>6. ASSUME Runs(s), NEW next, Die(s, next) PROVE Accounting'
  <2>1. Destroy(cr3[s]) /\ cr3' = [cr3 EXCEPT ![s] = NULL] /\ spawn' = spawn
    BY <1>6 DEF Die
  <2>2. Directories' = Directories \ {cr3[s]}
    <3>1. pt' = [pt EXCEPT ![cr3[s]] = NULL] /\ pt \in [Frame -> FrameOrNull]
      BY <1>1, <2>1 DEF Destroy, TypeInv, TypeOK
    <3> QED
      BY <1>2, <1>6, <3>1 DEF Directories
  <2>3. \A t \in Slot : cr3'[t] = IF t = s THEN NULL ELSE cr3[t]
    BY <1>1, <2>1 DEF TypeInv, TypeOK
  <2>4. DirectoriesOwned'
    BY <1>1, <1>2, <1>6, <2>1, <2>2, <2>3 DEF Accounting, FramesAccounted, DirectoriesOwned
  <2> QED
    BY <1>1, <1>2, <1>6, <2>1, <2>4, DestroyAccounting
<1>7. ASSUME NEW t \in Slot \cup {Shell}, Exit(s, t) PROVE Accounting'
  BY <1>6, <1>7 DEF Exit
<1>8. ASSUME NEW p \in Page, NEW t \in Slot \cup {Shell}, FaultKill(s, p, t) PROVE Accounting'
  BY <1>6, <1>8 DEF FaultKill
<1>9. ASSUME NEW p \in Page, CowFault(s, p) PROVE Accounting'
  <2> DEFINE d    == cpu_cr3
             old  == pte[d][p]
             nf   == Lowest(Free)
             left == IF frame_refs[old] > 0 THEN frame_refs[old] - 1 ELSE 0
  <2>1. d \in Directories /\ nf \in Frame \ bitmap /\ old # NULL /\ p \notin rw[d]
    BY <1>2, <1>9, FirstFit DEF CowFault
  <2>2. old \in Frame
    <3>1. old \in FrameOrNull
      BY <1>1, <2>1, Types DEF Directories
    <3> QED
      BY <2>1, <3>1 DEF FrameOrNull
  <2>3. left \in Nat
    <3> HIDE DEF old
    <3>1. frame_refs[old] \in 0..RefMax
      BY <1>1, <2>2, Types
    <3> QED
      BY <3>1, TaskAssumption
  <2>4. CASE Reachable(old) /\ Reachable(nf)
    <3>1. /\ pte' = [pte EXCEPT ![d][p] = nf]
          /\ rw'  = [rw  EXCEPT ![d] = @ \cup {p}]
          /\ bitmap' = (IF left = 0 THEN bitmap \ {old} ELSE bitmap) \cup {nf}
          /\ frame_refs' = [frame_refs EXCEPT ![old] = left,
                              ![nf] = IF @ < RefMax THEN @ + 1 ELSE @]
          /\ UNCHANGED <<pt, cr3, spawn>>
      BY <1>9, <2>4 DEF CowFault
    <3>2. pte[d][p] = old /\ left = IF frame_refs[old] > 0 THEN frame_refs[old] - 1 ELSE 0
      OBVIOUS
    <3> HIDE DEF d, old, nf, left
    <3> QED
      BY <1>1, <2>1, <2>2, <2>3, <3>1, <3>2, CopyAccounting
  <2> QED
    BY <1>3, <1>9, <2>4 DEF CowFault
<1>10. ASSUME Fork(s) PROVE Accounting'
  <2> DEFINE d  == cr3[s]
             c  == Lowest(Dead)
             pd == Lowest(Free)
             tb == Lowest(Free \ {pd})
  <2>1. /\ d \in Directories /\ c \in Slot /\ cr3[c] = NULL
        /\ pd \in Frame \ bitmap /\ tb \in Frame \ bitmap /\ pd # tb
    BY <1>2, <1>10, FirstFit DEF Fork
  <2>2. CASE Reachable(pd) /\ Reachable(tb)
    <3>1. /\ bitmap' = bitmap \cup {pd, tb}
          /\ pt'  = [pt  EXCEPT ![pd] = tb]
          /\ pte' = [pte EXCEPT ![pd] = pte[d]]
          /\ rw'  = BothReadOnly(d, pd)
          /\ frame_refs' = RefIncAll(d)
          /\ cr3' = [cr3 EXCEPT ![c] = pd]
          /\ spawn' = spawn
      BY <1>10, <2>2 DEF Fork
    <3> HIDE DEF d, c, pd, tb
    <3> QED
      BY <1>1, <2>1, <3>1, CloneAccounting
  <2> QED
    BY <1>3, <1>10, <2>2 DEF Fork
<1>11. ASSUME ForkUndone(s) PROVE Accounting'
  <2>1. /\ rw' = [rw EXCEPT ![cr3[s]] = {}]
        /\ UNCHANGED <<bitmap, frame_refs, pt, pte, cr3, spawn>>
    BY <1>11 DEF ForkUndone
  <2>2. Directories' = Directories /\ Tables' = Tables /\ \A f \in Frame : Mappers(f)' = Mappers(f)
    BY <2>1 DEF Directories, Tables, Mappers
  <2>3. UserFrames' = UserFrames
    BY <2>2 DEF UserFrames
  <2>4. FramesAccounted'
    BY <1>1, <2>1, <2>2, <2>3 DEF Accounting, FramesAccounted, DirectoriesOwned, EntriesOwned
  <2>5. RefExact'
    BY <1>1, <2>1, <2>2 DEF Accounting, RefExact
  <2>6. \A e \in Frame : rw'[e] \subseteq rw[e]
    BY <1>1, <2>1 DEF TypeInv, TypeOK
  <2>7. WritableUnshared'
    BY <1>1, <2>1, <2>6 DEF Accounting, WritableUnshared, Mappers
  <2> QED
    BY <2>4, <2>5, <2>7 DEF Accounting
<1> QED
  BY <1>4, <1>5, <1>7, <1>8, <1>9, <1>10, <1>11 DEF ProcessNext

------------------------------------------------------------------------------
(* What the CPU holds. *)

\* A load of CR3 forgets every translation.
LEMMA LoadedClean ==
  ASSUME NEW d, LoadCR3(d)
  PROVE  TlbCoherent'
  BY DEF LoadCR3, TlbCoherent, Unmapped

\* user_spawn loads and unloads the new directory with the TLB empty each time.
LEMMA ShellTranslation ==
  ASSUME Inv, TypeInv', Accounting', ShellNext
  PROVE  Translation'
<1> USE NullNotFrame
<1>1. /\ running = Shell /\ running' = running /\ cpu = "run"
      /\ DirectoriesOwned /\ DirectoriesOwned'
      /\ spawn \in [pc : {"idle", "load", "stack", "slot", "ready"}, cr3 : FrameOrNull,
                     img : SUBSET Page, slot : Slot \cup {Shell}]
  BY DEF ShellNext, SpawnCreate, SpawnMap, SpawnCopy, SpawnReject, SpawnSlot, SpawnReady,
         SpawnCommit, SpawnFail, Halt, ShellRuns, Accounting, FramesAccounted, Inv, TypeInv, TypeOK
<1>2. ASSUME LoadCR3(KERNEL_PD) PROVE Translation'
  BY <1>1, <1>2, LoadedClean DEF Translation, LoadedDirectoryLive, LoadCR3
<1>3. ASSUME SpawnFail PROVE Translation'
  BY <1>2, <1>3 DEF SpawnFail
<1>4. ASSUME NEW why, Halt(why) PROVE Translation'
  BY <1>1, <1>4 DEF Halt, memory, Inv, Translation, LoadedDirectoryLive, TlbCoherent, Directories
<1>5. ASSUME NEW img \in Images, SpawnCreate(img) PROVE Translation'
  <2> DEFINE pd == Lowest(Free)
             tb == Lowest(Free \ {pd})
  <2>1. CASE Reachable(pd) /\ Reachable(tb)
    <3>1. LoadCR3(pd) /\ spawn' = [pc |-> "load", cr3 |-> pd, img |-> img, slot |-> Shell] /\ pd # NULL
      BY <1>5, <2>1, FirstFit DEF SpawnCreate
    <3> HIDE DEF pd, tb
    <3>2. spawn'.cr3 = pd /\ cpu_cr3' = pd
      BY <3>1 DEF LoadCR3
    <3>3. Directories' = ({cr3'[s] : s \in Slot} \cup {spawn'.cr3}) \ {NULL}
      BY <1>1 DEF DirectoriesOwned
    <3>4. pd \in Directories'
      BY <3>1, <3>2, <3>3
    <3>5. LoadedDirectoryLive'
      BY <1>1, <3>2, <3>4 DEF LoadedDirectoryLive
    <3> QED
      BY <3>1, <3>5, LoadedClean DEF Translation
  <2> QED
    BY <1>4, <1>5, <2>1 DEF SpawnCreate
<1>6. ASSUME SpawnMap PROVE Translation'
  <2>1. CASE Free = {}
    BY <1>3, <1>6, <2>1 DEF SpawnMap
  <2>2. CASE Free # {}
    <3> DEFINE d == spawn.cr3
               p == Lowest(Missing)
               f == Lowest(Free)
    <3>1. p \in Page /\ pte[d][p] = NULL /\ f \in Frame
      BY <1>1, <1>6, <2>2, FirstFit DEF SpawnMap, Missing
    <3>2. /\ pte' = [pte EXCEPT ![d][p] = f]
          /\ rw'  = [rw  EXCEPT ![d] = @ \cup {p}]
          /\ UNCHANGED <<pt, cr3, spawn, cpu_cr3, tlb, tlbw, running, cpu>>
      BY <1>6, <2>2 DEF SpawnMap
    <3> HIDE DEF d, p, f
    <3>3. LoadedDirectoryLive'
      BY <3>2 DEF Inv, Translation, LoadedDirectoryLive, Directories
    <3>4. \A e \in Frame : /\ rw[e] \subseteq rw'[e]
                           /\ \A q \in Page : pte[e][q] # NULL => pte'[e][q] = pte[e][q]
      <4>1. pte \in [Frame -> [Page -> FrameOrNull]] /\ rw \in [Frame -> SUBSET Page]
        BY DEF Inv, TypeInv, TypeOK
      <4> QED
        BY <3>1, <3>2, <4>1
    <3>5. Directories' = Directories /\ Directories \subseteq Frame
      BY <3>2 DEF Directories
    <3>6. tlb \in [Page -> FrameOrNull]
      BY DEF Inv, TypeInv, TypeOK
    <3>7. TlbCoherent'
      <4> SUFFICES ASSUME NEW q \in Page, tlb[q] # NULL
                   PROVE  /\ cpu_cr3 \in Directories /\ tlb[q] = pte'[cpu_cr3][q]
                          /\ q \in tlbw => q \in rw'[cpu_cr3]
        BY <3>2, <3>5 DEF TlbCoherent
      <4>1. /\ cpu_cr3 \in Directories /\ tlb[q] = pte[cpu_cr3][q]
            /\ q \in tlbw => q \in rw[cpu_cr3]
        BY DEF Inv, Translation, TlbCoherent
      <4> QED
        BY <3>4, <3>5, <4>1
    <3> QED
      BY <3>3, <3>7 DEF Translation
  <2> QED
    BY <2>1, <2>2
<1>7. ASSUME SpawnCopy PROVE Translation'
  <2>1. CASE cpu_cr3 = spawn.cr3
    <3>1. UNCHANGED <<pt, pte, rw, cr3, cpu_cr3, tlb, tlbw, running, cpu>>
          /\ spawn' = [spawn EXCEPT !.pc = "stack"]
      BY <1>7, <2>1 DEF SpawnCopy
    <3>2. spawn'.cr3 = spawn.cr3
      BY <1>1, <3>1
    <3> QED
      BY <3>1, <3>2 DEF Inv, Translation, LoadedDirectoryLive, TlbCoherent, Directories
  <2> QED
    BY <1>4, <1>7, <2>1 DEF SpawnCopy
<1>8. ASSUME SpawnReject PROVE Translation'
  BY <1>3, <1>8 DEF SpawnReject
<1>9. ASSUME SpawnSlot \/ SpawnReady PROVE Translation'
  <2>1. CASE \/ SpawnSlot /\ Dead = {}
             \/ SpawnReady /\ spawn.slot \notin Dead
    BY <1>3, <1>4, <2>1 DEF SpawnSlot, SpawnReady
  <2>2. CASE ~ (\/ SpawnSlot /\ Dead = {}
                \/ SpawnReady /\ spawn.slot \notin Dead)
    <3>1. /\ UNCHANGED <<pt, pte, rw, cr3, cpu_cr3, tlb, tlbw, running, cpu>>
          /\ \/ spawn' = [spawn EXCEPT !.pc = "slot", !.slot = Lowest(Dead)]
             \/ spawn' = [spawn EXCEPT !.pc = "ready"]
      BY <1>9, <2>2 DEF SpawnSlot, SpawnReady, memory
    <3>2. spawn'.cr3 = spawn.cr3
      BY <1>1, <3>1
    <3> QED
      BY <3>1, <3>2 DEF Inv, Translation, LoadedDirectoryLive, TlbCoherent, Directories
  <2> QED BY <2>1, <2>2
<1>10. ASSUME NEW stack \in BOOLEAN, NEW area \in BOOLEAN, SpawnCommit(stack, area)
       PROVE  Translation'
  BY <1>2, <1>3, <1>10 DEF SpawnCommit
<1> QED
  BY <1>5, <1>6, <1>7, <1>8, <1>9, <1>10 DEF ShellNext

\* A switch to a live task or the shell: its directory is live and loaded clean.
LEMMA SwitchTranslation ==
  ASSUME NEW t \in Slot \cup {Shell}, LoadCR3(DirectoryOf(t)), running' = t, DirectoriesOwned',
         t # Shell => cr3'[t] = cr3[t] /\ cr3[t] # NULL
  PROVE  Translation'
<1>1. cpu_cr3' = DirectoryOf(t)
  BY DEF LoadCR3
<1>2. Directories' = ({cr3'[s] : s \in Slot} \cup {spawn'.cr3}) \ {NULL}
  BY DEF DirectoriesOwned
<1>3. t # Shell => cr3[t] \in Directories'
  BY <1>2
<1>4. LoadedDirectoryLive'
  BY <1>1, <1>3 DEF LoadedDirectoryLive, DirectoryOf
<1> QED
  BY <1>4, LoadedClean DEF Translation

\* A task gets the CPU: ready and its directory loaded, or half-made.
LEMMA EnterTranslation ==
  ASSUME TypeInv, cpu = "run", NEW next \in Ready, Enter(next), DirectoriesOwned',
         next # Shell => cr3'[next] = cr3[next]
  PROVE  Translation'
<1>1. CASE next \in Unready
  <2>1. PICK d \in HalfMade(next) : LoadCR3(d)
    BY <1>1 DEF Enter
  <2>2. cpu' = "lost"
    BY <1>1 DEF Enter
  <2> QED BY <2>1, <2>2, LoadedClean DEF Translation, LoadedDirectoryLive
<1>2. CASE next \notin Unready
  <2>1. LoadCR3(DirectoryOf(next)) /\ running' = next
    BY <1>2 DEF Enter
  <2>2. next \in Slot \cup {Shell} /\ (next # Shell => cr3[next] # NULL)
    BY <1>2 DEF Ready
  <2> QED BY <2>1, <2>2, SwitchTranslation
<1> QED BY <1>1, <1>2

\* Loads, stores, faults, fork and exit keep the TLB coherent and CR3 live.
LEMMA ProcessTranslation ==
  ASSUME Inv, TypeInv', Accounting', NEW s \in Slot, ProcessNext(s)
  PROVE  Translation'
<1> USE NullNotFrame
<1>1. TypeInv /\ Accounting /\ Translation /\ DirectoriesOwned'
  BY DEF Inv, Accounting, FramesAccounted
<1>2. Runs(s) => /\ s # Shell /\ running = s /\ cpu = "run" /\ cpu_cr3 = cr3[s] /\ cr3[s] \in Directories
                 /\ cpu_cr3 \in Frame
  BY Running DEF Runs, Directories
<1>3. ASSUME Runs(s), NEW why, Halt(why) PROVE Translation'
  BY <1>1, <1>2, <1>3 DEF Halt, memory, Translation, LoadedDirectoryLive, TlbCoherent, Directories
<1>4. ASSUME Runs(s), NEW p \in Page, Cache(p),
             UNCHANGED <<pt, pte, rw, cr3, cpu_cr3, running, spawn, cpu>>
      PROVE  Translation'
  <2>1. LoadedDirectoryLive'
    BY <1>1, <1>4 DEF Translation, LoadedDirectoryLive, Directories
  <2>2. tlb \in [Page -> FrameOrNull]
    BY <1>1 DEF TypeInv, TypeOK
  <2>3. \A q \in Page : /\ tlb'[q] = IF q = p THEN Target(p) ELSE tlb[q]
                        /\ q \in tlbw' <=> IF q = p THEN CanStore(p) ELSE q \in tlbw
    BY <1>4, <2>2 DEF Cache
  <2>4. Directories' = Directories
    BY <1>4 DEF Directories
  <2>5. \A q \in Page : tlb[q] # NULL => tlb[q] = pte[cpu_cr3][q] /\ (q \in tlbw => q \in rw[cpu_cr3])
    BY <1>1 DEF Translation, TlbCoherent
  <2>6. Target(p) = pte[cpu_cr3][p] /\ (CanStore(p) => p \in rw[cpu_cr3])
    BY <2>5 DEF Target, CanStore
  <2>7. TlbCoherent'
    BY <1>2, <1>4, <2>3, <2>4, <2>5, <2>6 DEF TlbCoherent
  <2> QED
    BY <2>1, <2>7 DEF Translation
<1>5. ASSUME NEW p \in Page, UserLoad(s, p) PROVE Translation'
  BY <1>4, <1>5 DEF UserLoad, memory
<1>6. ASSUME NEW p \in Page, NEW v \in Value, UserStore(s, p, v) \/ KernelStore(s, p, v)
      PROVE  Translation'
  BY <1>3, <1>4, <1>6 DEF UserStore, KernelStore, Write
<1>7. ASSUME Runs(s), NEW next, Die(s, next) PROVE Translation'
  <2>1. next \in Ready /\ next # s /\ Enter(next) /\ cr3' = [cr3 EXCEPT ![s] = NULL]
    BY <1>7 DEF Die
  <2>2. cr3 \in [Slot -> FrameOrNull]
    BY <1>1 DEF TypeInv, TypeOK
  <2>3. next # Shell => cr3'[next] = cr3[next]
    BY <1>1, <2>1, <2>2, <1>2, <1>7, EnterType
  <2> QED
    BY <1>1, <1>2, <1>7, <2>1, <2>3, EnterTranslation
<1>8. ASSUME NEW t \in Slot \cup {Shell}, Exit(s, t) PROVE Translation'
  BY <1>7, <1>8 DEF Exit
<1>9. ASSUME NEW p \in Page, NEW t \in Slot \cup {Shell}, FaultKill(s, p, t) PROVE Translation'
  BY <1>7, <1>9 DEF FaultKill
<1>10. ASSUME NEW p \in Page, CowFault(s, p) PROVE Translation'
  <2> DEFINE d   == cpu_cr3
             old == pte[d][p]
             nf  == Lowest(Free)
  <2>1. CASE Reachable(old) /\ Reachable(nf)
    <3>1. /\ pte' = [pte EXCEPT ![d][p] = nf]
          /\ rw'  = [rw  EXCEPT ![d] = @ \cup {p}]
          /\ tlb' = [tlb EXCEPT ![p] = NULL] /\ tlbw' = tlbw \ {p}
          /\ UNCHANGED <<pt, cr3, cpu_cr3, running, spawn, cpu>>
      BY <1>10, <2>1 DEF CowFault
    <3>2. /\ tlb \in [Page -> FrameOrNull] /\ pte \in [Frame -> [Page -> FrameOrNull]]
          /\ rw \in [Frame -> SUBSET Page] /\ d \in Frame
      BY <1>1, <1>2, <1>10 DEF TypeInv, TypeOK, CowFault
    <3>3. LoadedDirectoryLive' /\ Directories' = Directories
      BY <1>1, <3>1 DEF Translation, LoadedDirectoryLive, Directories
    <3> DEFINE e == d
    <3>4. cpu_cr3' = e /\ e \in Directories /\ cpu_cr3 = e
      BY <1>2, <1>10, <3>1 DEF CowFault
    <3> HIDE DEF e, nf
    <3>5. \A q \in Page : /\ tlb'[q] = IF q = p THEN NULL ELSE tlb[q]
                          /\ q # p => pte'[e][q] = pte[e][q]
                          /\ q \in rw[e] => q \in rw'[e]
                          /\ q \in tlbw' => q \in tlbw
      BY <3>1, <3>2, <3>4
    <3>6. \A q \in Page : tlb[q] # NULL => tlb[q] = pte[e][q] /\ (q \in tlbw => q \in rw[e])
      BY <1>1, <3>4 DEF Translation, TlbCoherent
    <3>7. TlbCoherent'
      BY <3>3, <3>4, <3>5, <3>6 DEF TlbCoherent
    <3> QED
      BY <3>3, <3>7 DEF Translation
  <2> QED
    BY <1>3, <1>10, <2>1 DEF CowFault
<1>11. ASSUME Runs(s), FlushIfLoaded(cr3[s]), running' = running, cr3'[s] = cr3[s] PROVE Translation'
  <2>1. LoadCR3(cr3[s]) /\ DirectoryOf(s) = cr3[s] /\ cr3[s] # NULL
    BY <1>2, <1>11 DEF FlushIfLoaded, DirectoryOf, Directories
  <2> QED
    BY <1>1, <1>2, <1>11, <2>1, SwitchTranslation
<1>12. ASSUME Fork(s) PROVE Translation'
  <2> DEFINE c  == Lowest(Dead)
             pd == Lowest(Free)
             tb == Lowest(Free \ {pd})
  <2>1. CASE Reachable(pd) /\ Reachable(tb)
    <3>1. /\ cr3' = [cr3 EXCEPT ![c] = pd]
          /\ FlushIfLoaded(cr3[s]) /\ running' = running /\ Runs(s)
      BY <1>12, <2>1 DEF Fork
    <3>2. cr3 \in [Slot -> FrameOrNull] /\ cr3[c] = NULL /\ cr3[s] # NULL
      BY <1>1, <1>2, <1>12, FirstFit DEF Fork, TypeInv, TypeOK
    <3> HIDE DEF c, pd, tb
    <3>3. cr3'[s] = cr3[s]
      BY <3>1, <3>2
    <3> QED
      BY <1>11, <3>1, <3>3
  <2> QED
    BY <1>3, <1>12, <2>1 DEF Fork
<1>13. ASSUME ForkUndone(s) PROVE Translation'
  BY <1>11, <1>13 DEF ForkUndone
<1> QED
  BY <1>5, <1>6, <1>8, <1>9, <1>10, <1>12, <1>13 DEF ProcessNext

------------------------------------------------------------------------------
(* The theorems. *)

\* The state mm_init and paging_init leave satisfies the invariant.
LEMMA InvInit == Init => Inv
<1> SUFFICES ASSUME Init PROVE Inv
  OBVIOUS
<1>1. TypeInv
  BY TypesInit
<1>2. /\ \A d \in Frame : pt[d] = NULL /\ rw[d] = {} /\ \A p \in Page : pte[d][p] = NULL
      /\ \A s \in Slot : cr3[s] = NULL
      /\ spawn.cr3 = NULL /\ spawn.pc = "idle" /\ bitmap = {}
      /\ \A f \in Frame : frame_refs[f] = 0
      /\ \A p \in Page : tlb[p] = NULL
  BY DEF Init, Unmapped, NoSpawn
<1>3. Directories = {} /\ Tables = {}
  BY <1>2 DEF Directories, Tables
<1>4. \A f \in Frame : Mappers(f) = {}
  <2>1. SUFFICES ASSUME NEW f \in Frame, NEW m \in Mappers(f) PROVE FALSE
    OBVIOUS
  <2>2. m[1] \in Frame /\ m[2] \in Page /\ pte[m[1]][m[2]] = f
    BY DEF Mappers
  <2>3. f = NULL
    BY <1>2, <2>2
  <2> QED BY <2>3, NullNotFrame
<1>5. UserFrames = {}
  BY <1>4 DEF UserFrames
<1>6. DirectoriesOwned /\ EntriesOwned
  BY <1>2, <1>3 DEF DirectoriesOwned, EntriesOwned
<1>7. FramesAccounted
  BY <1>2, <1>3, <1>5, <1>6 DEF FramesAccounted
<1>8. RefExact
  BY <1>2, <1>4, FS_EmptySet DEF RefExact
<1>9. WritableUnshared /\ TlbCoherent
  BY <1>2 DEF WritableUnshared, TlbCoherent
<1>10. LoadedDirectoryLive
  BY DEF Init, LoadedDirectoryLive
<1> QED
  BY <1>1, <1>7, <1>8, <1>9, <1>10 DEF Inv, Accounting, Translation

\* Every step keeps the invariant: the heart of the theorems below.
LEMMA InvStep ==
  ASSUME Inv, [Next]_vars
  PROVE  Inv'
<1>1. TypeInv'
  BY TypesStep DEF Inv
<1>2. CASE UNCHANGED vars
  <2>1. Accounting' /\ Directories' = Directories
    BY <1>2, AccountingUnchanged DEF Inv, vars, memory
  <2>2. Translation'
    BY <1>2, <2>1 DEF Inv, vars, memory, Translation, LoadedDirectoryLive, TlbCoherent
  <2> QED
    BY <1>1, <2>1, <2>2 DEF Inv
<1>3. CASE ShellNext
  BY <1>1, <1>3, ShellAccounting, ShellTranslation DEF Inv
<1>4. ASSUME NEW s \in Slot, ProcessNext(s) PROVE Inv'
  BY <1>1, <1>4, ProcessAccounting, ProcessTranslation DEF Inv
<1>5. ASSUME NEW t \in Slot \cup {Shell}, SwitchTo(t) PROVE Inv'
  <2>1. /\ cpu = "run" /\ t \in Ready /\ Enter(t)
        /\ UNCHANGED <<bitmap, frame_refs, pt, pte, rw, data, cr3, spawn>>
    BY <1>5 DEF SwitchTo, memory
  <2>2. Accounting'
    BY <2>1, AccountingUnchanged DEF Inv
  <2>3. DirectoriesOwned'
    BY <2>2 DEF Accounting, FramesAccounted
  <2>4. Translation'
    BY <2>1, <2>3, EnterTranslation DEF Inv
  <2> QED
    BY <1>1, <2>2, <2>4 DEF Inv
<1> QED
  BY <1>2, <1>3, <1>4, <1>5 DEF Next

\* Every allocated frame plays exactly one role, directory, table or user page,
\* and every frame with a role is allocated: mm_alloc_page never hands out a frame
\* that is in use, and no path through spawn, fork, exit and the copy-on-write
\* fault leaks one.
THEOREM NoLeakNoDoubleUse == Spec => []FramesAccounted
<1>1. Inv => FramesAccounted
  BY DEF Inv, Accounting
<1> QED
  BY <1>1, InvInit, InvStep, PTL DEF Spec

\* frame_refs is exact whatever was forked, copied and torn down, so the saturation
\* of mm_ref_inc and the guard of mm_ref_dec are never what decides.
THEOREM CountsExact == Spec => []RefExact
<1>1. Inv => RefExact
  BY DEF Inv, Accounting
<1> QED
  BY <1>1, InvInit, InvStep, PTL DEF Spec

\* A writable page is nobody else's: paging_fork_addr_space and paging_cow_fault
\* together never let a store of one process reach another's memory.
THEOREM NoSharedWrites == Spec => []WritableUnshared
<1>1. Inv => WritableUnshared
  BY DEF Inv, Accounting
<1> QED
  BY <1>1, InvInit, InvStep, PTL DEF Spec

\* No stale translation survives the downgrade of fork, the copy of a fault, a
\* switch or the teardown of a directory.
THEOREM NoStaleTranslation == Spec => []TlbCoherent
<1>1. Inv => TlbCoherent
  BY DEF Inv, Translation
<1> QED
  BY <1>1, InvInit, InvStep, PTL DEF Spec

\* CR3 never names a directory that was torn down, and a process only runs on its own;
\* until a tick inside task_create_user resumes the task it is making.
THEOREM LoadedNeverFreed == Spec => []LoadedDirectoryLive
<1>1. Inv => LoadedDirectoryLive
  BY DEF Inv, Translation
<1> QED
  BY <1>1, InvInit, InvStep, PTL DEF Spec

==============================================================================
