--------------------------- MODULE MemoryRefinement ---------------------------
(* Memory implements PrivateMemory: frames, page tables, the TLB and copy-on-write
   are invisible to processes, for every number of frames, pages and slots.

   The heart is isolation: a step of one process changes neither the tables nor
   the contents of any other directory (ProcessIsolated), and neither do the
   steps of user_spawn (ShellIsolated).  What is left is the actor's own view.  *)
EXTENDS MemoryProofs

\* The directory being filled maps only pages it may write, so they are its own
\* and the copy of the image reaches no other process.
SpawnPrivate ==
  spawn.cr3 # NULL => \A p \in Page : pte[spawn.cr3][p] # NULL => p \in rw[spawn.cr3]

\* Directory e maps the same frames, with the same rights and contents.
Untouched(e) ==
  /\ pte'[e] = pte[e] /\ rw'[e] = rw[e]
  /\ \A p \in Page : pte[e][p] # NULL => data'[pte[e][p]] = data[pte[e][p]]

------------------------------------------------------------------------------
(* Isolation. *)

\* There are finitely many entries.
LEMMA EntriesFinite == IsFiniteSet(Frame \X Page)
<1>1. IsFiniteSet(Frame) /\ IsFiniteSet(Page)
  BY FrameAssumption, PageAssumption, FS_Interval DEF Frame, Page
<1> QED
  BY <1>1, FS_Product

\* What no entry refers to after a step is no page of anybody.
LEMMA Unreferenced ==
  ASSUME Inv', NEW f \in Frame, frame_refs'[f] = 0
  PROVE  \A e \in Frame, p \in Page : pte'[e][p] # f
<1>1. frame_refs'[f] = Cardinality(Mappers(f)')
  BY DEF Inv, Accounting, RefExact
<1>2. IsFiniteSet(Mappers(f)')
  <2>1. Mappers(f)' \in SUBSET (Frame \X Page)
    BY DEF Mappers
  <2> QED
    BY <2>1, EntriesFinite, FS_Subset
<1>3. Mappers(f)' = {}
  BY <1>1, <1>2, FS_EmptySet
<1>4. ASSUME NEW e \in Frame, NEW p \in Page, pte'[e][p] = f PROVE FALSE
  <2>1. <<e, p>> \in Mappers(f)'
    BY <1>4 DEF Mappers
  <2> QED
    BY <1>3, <2>1
<1> QED
  BY <1>4

\* Tearing one directory down leaves the others alone.
LEMMA DestroyIsolated ==
  ASSUME Inv, Inv', NEW d \in Frame, Destroy(d), NEW e \in Frame, e # d
  PROVE  Untouched(e)
<1>1. /\ pte' = [pte EXCEPT ![d] = Unmapped] /\ rw' = [rw EXCEPT ![d] = {}]
      /\ data' = [f \in Frame |-> IF f \in {pte[d][p] : p \in Page} \cap {g \in Frame : frame_refs'[g] = 0}
                                  THEN ImageByte ELSE data[f]]
  BY DEF Destroy
<1>2. /\ pte \in [Frame -> [Page -> FrameOrNull]] /\ rw \in [Frame -> SUBSET Page]
  BY DEF Inv, TypeInv, TypeOK
<1>3. pte'[e] = pte[e] /\ rw'[e] = rw[e]
  BY <1>1, <1>2
<1>4. ASSUME NEW p \in Page, pte[e][p] # NULL PROVE data'[pte[e][p]] = data[pte[e][p]]
  <2>1. PICK f \in Frame : f = pte[e][p]
    <3>1. pte[e][p] \in FrameOrNull
      BY <1>2
    <3> QED
      BY <1>4, <3>1 DEF FrameOrNull
  <2>2. frame_refs'[f] # 0
    BY <1>3, <2>1, Unreferenced
  <2> QED
    BY <1>1, <2>1, <2>2
<1> QED
  BY <1>3, <1>4 DEF Untouched

\* user_spawn touches no directory but its own.
LEMMA ShellIsolated ==
  ASSUME Inv, Inv', SpawnPrivate, ShellNext, NEW e \in Directories, e # spawn.cr3
  PROVE  Untouched(e)
<1> USE NullNotFrame
<1>1. TypeInv /\ Accounting /\ e \in Frame
  BY DEF Inv, Directories
<1>2. /\ pte \in [Frame -> [Page -> FrameOrNull]] /\ rw \in [Frame -> SUBSET Page]
      /\ data \in [Frame -> Value]
  BY <1>1 DEF TypeInv, TypeOK
<1>3. spawn.pc # "idle" => spawn.cr3 \in Directories /\ spawn.cr3 \in Frame
  BY <1>1 DEF Accounting, FramesAccounted, DirectoriesOwned, Directories
<1>4. ASSUME UNCHANGED <<pte, rw, data>> PROVE Untouched(e)
  BY <1>4 DEF Untouched
<1>5. ASSUME SpawnFail, spawn.pc # "idle" PROVE Untouched(e)
  BY <1>1, <1>3, <1>5, DestroyIsolated DEF SpawnFail
<1>6. ASSUME NEW img \in Images, SpawnCreate(img) PROVE Untouched(e)
  BY <1>4, <1>6 DEF SpawnCreate, Halt, memory
<1>7. ASSUME SpawnMap PROVE Untouched(e)
  <2>1. CASE Free = {}
    BY <1>5, <1>7, <2>1 DEF SpawnMap
  <2>2. CASE Free # {}
    <3> DEFINE d == spawn.cr3
               p == Lowest(Missing)
               f == Lowest(Free)
    <3>1. d \in Frame /\ f \in Frame \ bitmap
      BY <1>3, <1>7, <2>2, FirstFit DEF SpawnMap
    <3>2. /\ pte' = [pte EXCEPT ![d][p] = f]
          /\ rw'  = [rw  EXCEPT ![d] = @ \cup {p}]
          /\ \E v \in Value : data' = [data EXCEPT ![f] = v]
      BY <1>7, <2>2 DEF SpawnMap
    <3>3. d # e
      OBVIOUS
    <3> HIDE DEF d, p, f
    <3>4. \A q \in Page : pte[e][q] # f
      BY <1>1, <3>1, FreeFrame
    <3>5. pte'[e] = pte[e] /\ rw'[e] = rw[e]
      BY <1>1, <1>2, <3>2, <3>3
    <3>6. \A g \in Frame : g # f => data'[g] = data[g]
      BY <1>2, <3>2
    <3>7. \A q \in Page : pte[e][q] # NULL => pte[e][q] \in Frame
      BY <1>1, <1>2 DEF FrameOrNull
    <3> QED
      BY <3>4, <3>5, <3>6, <3>7 DEF Untouched
  <2> QED
    BY <2>1, <2>2
<1>8. ASSUME SpawnCopy PROVE Untouched(e)
  <2>1. CASE cpu_cr3 = spawn.cr3
    <3> DEFINE d == spawn.cr3
    <3>1. /\ UNCHANGED <<pte, rw>>
          /\ data' = [f \in Frame |-> IF \E p \in spawn.img : pte[d][p] = f
                                      THEN ImageByte ELSE data[f]]
      BY <1>8, <2>1 DEF SpawnCopy
    <3>2. d \in Frame /\ d # NULL /\ d # e /\ spawn.img \subseteq Page
      BY <1>1, <1>3, <1>8, Types DEF SpawnCopy
    <3>3. \A p \in Page : pte[d][p] # NULL => Mappers(pte[d][p]) = {<<d, p>>}
      BY <1>1, <3>2 DEF SpawnPrivate, Accounting, WritableUnshared
    <3> HIDE DEF d
    <3>4. ASSUME NEW q \in Page, pte[e][q] # NULL PROVE data'[pte[e][q]] = data[pte[e][q]]
      <4>1. PICK f \in Frame : f = pte[e][q]
        <5>1. pte[e][q] \in FrameOrNull
          BY <1>1, <1>2
        <5> QED
          BY <3>4, <5>1 DEF FrameOrNull
      <4>2. <<e, q>> \in Mappers(f)
        BY <1>1, <4>1, MapsIt
      <4>3. \A p \in Page : pte[d][p] # f
        BY <3>2, <3>3, <4>1, <4>2
      <4> QED
        BY <3>1, <3>2, <4>1, <4>3
    <3> QED
      BY <3>1, <3>4 DEF Untouched
  <2> QED
    BY <1>4, <1>8, <2>1 DEF SpawnCopy, Halt, memory
<1>9. ASSUME SpawnReject PROVE Untouched(e)
  BY <1>5, <1>9 DEF SpawnReject
<1>10. ASSUME NEW stack \in BOOLEAN, NEW area \in BOOLEAN, SpawnCommit(stack, area)
       PROVE  Untouched(e)
  BY <1>4, <1>5, <1>10 DEF SpawnCommit, memory
<1>11. ASSUME SpawnSlot \/ SpawnReady PROVE Untouched(e)
  BY <1>4, <1>5, <1>11 DEF SpawnSlot, SpawnReady, Halt, memory
<1> QED
  BY <1>6, <1>7, <1>8, <1>9, <1>10, <1>11 DEF ShellNext

\* A process touches no directory but its own, whatever it does.
LEMMA ProcessIsolated ==
  ASSUME Inv, Inv', NEW s \in Slot, ProcessNext(s), NEW e \in Directories, e # cr3[s]
  PROVE  Untouched(e)
<1> USE NullNotFrame
<1>1. TypeInv /\ Accounting /\ e \in Frame
  BY DEF Inv, Directories
<1>2. /\ pte \in [Frame -> [Page -> FrameOrNull]] /\ rw \in [Frame -> SUBSET Page]
      /\ data \in [Frame -> Value]
  BY <1>1 DEF TypeInv, TypeOK
<1>3. Runs(s) => cpu_cr3 = cr3[s] /\ cr3[s] \in Directories /\ cr3[s] \in Frame
  BY Running DEF Directories
<1>4. ASSUME UNCHANGED <<pte, rw, data>> PROVE Untouched(e)
  BY <1>4 DEF Untouched
<1>5. ASSUME NEW why, Halt(why) PROVE Untouched(e)
  BY <1>4, <1>5 DEF Halt, memory
<1>6. \A q \in Page : pte[e][q] # NULL => pte[e][q] \in Frame
  BY <1>1, <1>2 DEF FrameOrNull
<1>7. ASSUME NEW p \in Page, UserLoad(s, p) PROVE Untouched(e)
  BY <1>4, <1>7 DEF UserLoad, memory
<1>8. ASSUME Runs(s), NEW p \in Page, CanStore(p), NEW v \in Value, Write(p, v) PROVE Untouched(e)
  <2> DEFINE d == cr3[s]
             f == pte[d][p]
  <2>1. p \in rw[d] /\ Target(p) = f
    BY <1>3, <1>8 DEF Inv, Translation, TlbCoherent, CanStore, Target
  <2>2. Mappers(f) = {<<d, p>>}
    BY <1>1, <1>3, <1>8, <2>1 DEF Accounting, WritableUnshared
  <2>3. data' = [data EXCEPT ![f] = v] /\ UNCHANGED <<pte, rw>>
    BY <1>8, <2>1 DEF Write
  <2>4. d # e
    OBVIOUS
  <2> HIDE DEF d, f
  <2>5. ASSUME NEW q \in Page, pte[e][q] # NULL PROVE pte[e][q] # f
    <3>1. SUFFICES ASSUME pte[e][q] = f PROVE FALSE
      OBVIOUS
    <3>2. <<e, q>> \in Mappers(f)
      BY <1>1, <1>6, <2>5, <3>1, MapsIt
    <3> QED
      BY <2>2, <2>4, <3>2
  <2> QED
    BY <1>2, <1>6, <2>3, <2>5 DEF Untouched
<1>9. ASSUME NEW p \in Page, NEW v \in Value, UserStore(s, p, v) \/ KernelStore(s, p, v)
      PROVE  Untouched(e)
  BY <1>5, <1>8, <1>9 DEF UserStore, KernelStore
<1>10. ASSUME Runs(s), NEW next, Die(s, next) PROVE Untouched(e)
  BY <1>1, <1>3, <1>10, DestroyIsolated DEF Die
<1>11. ASSUME NEW t \in Slot \cup {Shell}, Exit(s, t) PROVE Untouched(e)
  BY <1>10, <1>11 DEF Exit
<1>12. ASSUME NEW p \in Page, NEW t \in Slot \cup {Shell}, FaultKill(s, p, t) PROVE Untouched(e)
  BY <1>10, <1>12 DEF FaultKill
<1>13. ASSUME NEW p \in Page, CowFault(s, p) PROVE Untouched(e)
  <2> DEFINE d    == cpu_cr3
             old  == pte[d][p]
             nf   == Lowest(Free)
             left == IF frame_refs[old] > 0 THEN frame_refs[old] - 1 ELSE 0
  <2>1. CASE Reachable(old) /\ Reachable(nf)
    <3>1. /\ data' = [data EXCEPT ![nf] = data[old],
                                  ![old] = IF left = 0 THEN ImageByte ELSE @]
          /\ pte' = [pte EXCEPT ![d][p] = nf]
          /\ rw'  = [rw  EXCEPT ![d] = @ \cup {p}]
          /\ frame_refs' = [frame_refs EXCEPT ![old] = left,
                              ![nf] = IF @ < RefMax THEN @ + 1 ELSE @]
      BY <1>13, <2>1 DEF CowFault
    <3>2. d # e /\ d \in Frame /\ nf \in Frame \ bitmap /\ old # NULL
      BY <1>3, <1>13, FirstFit DEF CowFault
    <3>3. old \in Frame
      <4>1. pte[d][p] \in FrameOrNull
        BY <1>2, <3>2
      <4> QED
        BY <3>2, <4>1 DEF FrameOrNull
    <3> HIDE DEF d, old, nf, left
    <3>4. pte'[e] = pte[e] /\ rw'[e] = rw[e]
      BY <1>1, <1>2, <3>1, <3>2
    <3>5. \A q \in Page : pte[e][q] # nf
      BY <1>1, <3>2, FreeFrame
    <3>6. nf # old /\ frame_refs \in [Frame -> 0..RefMax]
      <4>1. old \in bitmap \/ old \notin bitmap
        OBVIOUS
      <4>2. pte[d][p] = old
        BY DEF old
      <4> QED
        BY <1>1, <3>2, <3>3, <4>2, FreeFrame DEF TypeInv, TypeOK
    <3>7. left = 0 => \A q \in Page : pte[e][q] # old
      <4>1. left = 0 => frame_refs'[old] = 0
        BY <3>1, <3>2, <3>3, <3>6
      <4> QED
        BY <1>1, <3>3, <3>4, <4>1, Unreferenced
    <3>8. \A g \in Frame : g # nf /\ (g = old => left # 0) => data'[g] = data[g]
      BY <1>2, <3>1, <3>3, <3>6
    <3> QED
      BY <1>6, <3>4, <3>5, <3>7, <3>8 DEF Untouched
  <2> QED
    BY <1>5, <1>13, <2>1 DEF CowFault
<1>14. ASSUME Fork(s) PROVE Untouched(e)
  <2> DEFINE d  == cr3[s]
             pd == Lowest(Free)
             tb == Lowest(Free \ {pd})
  <2>1. CASE Reachable(pd) /\ Reachable(tb)
    <3>1. /\ pte' = [pte EXCEPT ![pd] = pte[d]]
          /\ rw'  = BothReadOnly(d, pd) /\ data' = data
      BY <1>14, <2>1 DEF Fork
    <3>2. pd \in Frame \ bitmap /\ d # e
      BY <1>14, FirstFit DEF Fork
    <3> HIDE DEF d, pd, tb
    <3>3. pd # e
      BY <1>1, <3>2, FreeFrame
    <3> QED
      BY <1>1, <1>2, <3>1, <3>2, <3>3 DEF Untouched, BothReadOnly
  <2> QED
    BY <1>5, <1>14, <2>1 DEF Fork
<1>15. ASSUME ForkUndone(s) PROVE Untouched(e)
  BY <1>1, <1>2, <1>15 DEF ForkUndone, Untouched
<1> QED
  BY <1>7, <1>9, <1>11, <1>12, <1>13, <1>14, <1>15 DEF ProcessNext

------------------------------------------------------------------------------
(* The directory being filled stays private. *)

\* SpawnPrivate is kept: processes cannot reach the directory, user_spawn maps it writable.
LEMMA SpawnPrivateStep ==
  ASSUME Inv, Inv', SpawnPrivate, [Next]_vars
  PROVE  SpawnPrivate'
<1> USE NullNotFrame
<1>1. TypeInv /\ Accounting
  BY DEF Inv
<1>2. /\ pte \in [Frame -> [Page -> FrameOrNull]] /\ rw \in [Frame -> SUBSET Page]
      /\ spawn \in [pc : {"idle", "load", "stack", "slot", "ready"}, cr3 : FrameOrNull,
                   img : SUBSET Page, slot : Slot \cup {Shell}]
  BY <1>1 DEF TypeInv, TypeOK
<1>3. ASSUME spawn'.cr3 = NULL PROVE SpawnPrivate'
  BY <1>3 DEF SpawnPrivate
<1>4. ASSUME spawn'.cr3 = spawn.cr3, UNCHANGED <<pte, rw>> PROVE SpawnPrivate'
  BY <1>4 DEF SpawnPrivate
<1>5. ASSUME SpawnFail PROVE SpawnPrivate'
  BY <1>3, <1>5 DEF SpawnFail, NoSpawn
<1>6. ASSUME NEW img \in Images, SpawnCreate(img) PROVE SpawnPrivate'
  <2> DEFINE pd == Lowest(Free)
             tb == Lowest(Free \ {pd})
  <2>1. CASE Reachable(pd) /\ Reachable(tb)
    <3>1. spawn' = [pc |-> "load", cr3 |-> pd, img |-> img, slot |-> Shell]
          /\ UNCHANGED <<pte, rw>>
          /\ pd \in Frame \ bitmap
      BY <1>6, <2>1, FirstFit DEF SpawnCreate
    <3> HIDE DEF pd, tb
    <3>2. \A p \in Page : pte[pd][p] = NULL
      BY <1>1, <3>1, FreeFrame
    <3>3. spawn'.cr3 = pd /\ pte' = pte
      BY <3>1
    <3> QED
      BY <3>2, <3>3 DEF SpawnPrivate
  <2> QED
    BY <1>4, <1>6, <2>1 DEF SpawnCreate, Halt, memory
<1>7. ASSUME SpawnMap PROVE SpawnPrivate'
  <2>1. CASE Free = {}
    BY <1>5, <1>7, <2>1 DEF SpawnMap
  <2>2. CASE Free # {}
    <3> DEFINE d == spawn.cr3
               p == Lowest(Missing)
               f == Lowest(Free)
    <3>1. /\ pte' = [pte EXCEPT ![d][p] = f]
          /\ rw'  = [rw  EXCEPT ![d] = @ \cup {p}] /\ spawn' = spawn
      BY <1>7, <2>2 DEF SpawnMap
    <3>2. spawn.cr3 = d /\ spawn'.cr3 = d
      BY <3>1
    <3> HIDE DEF d, p, f
    <3>3. SUFFICES ASSUME d # NULL, NEW q \in Page, pte'[d][q] # NULL PROVE q \in rw'[d]
      BY <3>2 DEF SpawnPrivate
    <3>4. d \in Frame
      BY <1>2, <3>2, <3>3 DEF FrameOrNull
    <3>5. q # p => pte[d][q] # NULL /\ q \in rw[d]
      BY <1>2, <3>1, <3>2, <3>3, <3>4 DEF SpawnPrivate
    <3> QED
      BY <1>2, <3>1, <3>4, <3>5
  <2> QED
    BY <2>1, <2>2
<1>8. ASSUME SpawnCopy PROVE SpawnPrivate'
  <2>1. spawn'.cr3 = spawn.cr3 /\ UNCHANGED <<pte, rw>>
    BY <1>2, <1>8 DEF SpawnCopy, Halt, memory
  <2> QED
    BY <1>4, <2>1
<1>9. ASSUME SpawnReject PROVE SpawnPrivate'
  BY <1>5, <1>9 DEF SpawnReject
<1>10. ASSUME NEW stack \in BOOLEAN, NEW area \in BOOLEAN, SpawnCommit(stack, area)
       PROVE  SpawnPrivate'
  BY <1>3, <1>5, <1>10 DEF SpawnCommit, NoSpawn
<1>14. ASSUME SpawnSlot \/ SpawnReady PROVE SpawnPrivate'
  <2>1. CASE spawn'.cr3 = spawn.cr3 /\ UNCHANGED <<pte, rw>>
    BY <1>4, <2>1
  <2>2. CASE SpawnFail
    BY <1>5, <2>2
  <2> QED
    BY <1>2, <1>14, <2>1, <2>2 DEF SpawnSlot, SpawnReady, Halt, memory
<1>11. ASSUME NEW s \in Slot, ProcessNext(s) PROVE SpawnPrivate'
  <2>1. spawn' = spawn /\ Runs(s)
    BY <1>11 DEF ProcessNext, UserLoad, CowFault, UserStore, KernelStore, Write, Exit, FaultKill,
                 Die, Fork, ForkUndone, Halt
  <2>2. CASE spawn.cr3 # NULL
    <3>1. spawn.cr3 \in Directories
      BY <1>1, <1>2, <2>2 DEF Accounting, FramesAccounted, DirectoriesOwned
    <3>2. cr3[s] # NULL /\ cr3[s] # spawn.cr3
      BY <1>1, <2>1, Running DEF Accounting, FramesAccounted, DirectoriesOwned, Directories
    <3>3. Untouched(spawn.cr3)
      BY <1>11, <3>1, <3>2, ProcessIsolated
    <3> QED
      BY <2>1, <3>3 DEF Untouched, SpawnPrivate
  <2> QED
    BY <1>3, <2>1, <2>2
<1>12. ASSUME NEW t \in Slot \cup {Shell}, SwitchTo(t) PROVE SpawnPrivate'
  BY <1>4, <1>12 DEF SwitchTo, memory
<1>13. CASE UNCHANGED vars
  BY <1>4, <1>13 DEF vars, memory
<1> QED
  BY <1>6, <1>7, <1>8, <1>9, <1>10, <1>11, <1>12, <1>13, <1>14 DEF Next, ShellNext

------------------------------------------------------------------------------
(* What a step changes of the processes' memory. *)

\* A process whose directory is untouched sees the same memory.
LEMMA SameView ==
  ASSUME NEW t \in Slot, cr3'[t] = cr3[t], cr3[t] # NULL => Untouched(cr3[t])
  PROVE  mem'[t] = mem[t]
<1>1. CASE cr3[t] = NULL
  BY <1>1 DEF mem
<1>2. CASE cr3[t] # NULL
  <2>1. \A p \in Page : (IF cr3'[t] # NULL /\ pte'[cr3'[t]][p] # NULL
                         THEN data'[pte'[cr3'[t]][p]] ELSE NoPage)
                      = (IF cr3[t] # NULL /\ pte[cr3[t]][p] # NULL
                         THEN data[pte[cr3[t]][p]] ELSE NoPage)
    BY <1>2 DEF Untouched
  <2> QED
    BY <2>1 DEF mem
<1> QED
  BY <1>1, <1>2

\* What the abstract specification sees of one page.
LEMMA View ==
  \A t \in Slot, p \in Page :
     mem[t][p] = IF cr3[t] # NULL /\ pte[cr3[t]][p] # NULL
                 THEN data[pte[cr3[t]][p]] ELSE NoPage
  BY DEF mem

\* Contents of pages are values, and a value is not NoPage.
LEMMA ViewType ==
  ASSUME Inv, NEW t \in Slot
  PROVE  /\ mem[t] \in Private!Memory
         /\ \A p \in Page : mem[t][p] # NoPage <=> cr3[t] # NULL /\ pte[cr3[t]][p] # NULL
<1>1. /\ pte \in [Frame -> [Page -> FrameOrNull]] /\ data \in [Frame -> Value]
      /\ cr3 \in [Slot -> FrameOrNull]
  BY DEF Inv, TypeInv, TypeOK
<1>2. \A p \in Page : cr3[t] # NULL /\ pte[cr3[t]][p] # NULL
                      => data[pte[cr3[t]][p]] \in Value /\ data[pte[cr3[t]][p]] # NoPage
  BY <1>1, ValueAssumption DEF FrameOrNull
<1>3. mem[t] = [p \in Page |-> mem[t][p]]
  BY DEF mem
<1>4. \A p \in Page : mem[t][p] \in Value \cup {NoPage}
  BY <1>2, View
<1>5. mem[t] \in Private!Memory
  BY <1>3, <1>4 DEF Private!Memory
<1> QED
  BY <1>2, <1>5, View

\* The same for all slots, as a fact of any state.
LEMMA ViewsTyped == Inv => \A t \in Slot : mem[t] \in Private!Memory
  BY ViewType

\* Two functions on slots that differ at one slot at most.
LEMMA OneSlot ==
  ASSUME NEW f, NEW g, NEW s \in Slot, NEW x,
         f = [t \in Slot |-> f[t]], g = [t \in Slot |-> g[t]],
         \A t \in Slot : g[t] = IF t = s THEN x ELSE f[t]
  PROVE  g = [f EXCEPT ![s] = x]
  OBVIOUS

\* The view is a function on slots, before and after a step.
LEMMA MemFunction == mem = [t \in Slot |-> mem[t]] /\ mem' = [t \in Slot |-> mem'[t]]
  BY DEF mem

------------------------------------------------------------------------------
(* Every step maps to a step of PrivateMemory or to none. *)

\* No slot changes hands and every view is kept: a stutter.
LEMMA Stutter ==
  ASSUME cr3' = cr3, \A t \in Slot : mem'[t] = mem[t]
  PROVE  UNCHANGED Private!vars
<1>1. alive' = alive
  BY DEF alive
<1>2. mem' = mem
  BY MemFunction
<1> QED
  BY <1>1, <1>2 DEF Private!vars

\* A live process's directory is one of Directories, and not that of the spawn.
LEMMA LiveDirectory ==
  ASSUME Inv, NEW t \in Slot, cr3[t] # NULL
  PROVE  /\ cr3[t] \in Directories /\ cr3[t] \in Frame /\ cr3[t] # spawn.cr3
         /\ \A s \in Slot : s # t => cr3[t] # cr3[s]
<1>1. DirectoriesOwned
  BY DEF Inv, Accounting, FramesAccounted
<1> QED
  BY <1>1 DEF DirectoriesOwned, Directories

\* user_spawn: a stutter until the process is entered in the task table.
LEMMA ShellRefines ==
  ASSUME Inv, Inv', SpawnPrivate, ShellNext
  PROVE  [Private!Next]_(Private!vars)
<1> USE NullNotFrame
<1>1. \A t \in Slot : cr3[t] # NULL => Untouched(cr3[t])
  BY LiveDirectory, ShellIsolated
<1>2. ASSUME cr3' = cr3 PROVE UNCHANGED Private!vars
  BY <1>1, <1>2, SameView, Stutter
<1>3. ASSUME NEW stack \in BOOLEAN, NEW area \in BOOLEAN, SpawnCommit(stack, area), stack
      PROVE  Private!Next
  <2> DEFINE c == spawn.slot
             d == spawn.cr3
  <2>1. c \in Slot /\ cr3[c] = NULL
    BY <1>3 DEF SpawnCommit, Inv, TypeInv, Loaded
  <2>2. cr3' = [cr3 EXCEPT ![c] = d] /\ spawn.pc # "idle"
    BY <1>3 DEF SpawnCommit
  <2>3. cr3 \in [Slot -> FrameOrNull] /\ d # NULL
    BY <2>2 DEF Inv, TypeInv, TypeOK, Accounting, FramesAccounted, DirectoriesOwned
  <2> HIDE DEF c, d
  <2>4. \A t \in Slot : cr3'[t] = IF t = c THEN d ELSE cr3[t]
    BY <2>2, <2>3
  <2>5. alive' = alive \cup {c} /\ c \notin alive
    BY <2>1, <2>3, <2>4 DEF alive
  <2>6. \A t \in Slot : t # c => mem'[t] = mem[t]
    BY <1>1, <2>4, SameView
  <2>7. mem'[c] \in Private!Memory
    <3>1. (Inv => \A t \in Slot : mem[t] \in Private!Memory)'
      BY ViewsTyped, PTL
    <3>2. Private!Memory' = Private!Memory
      BY DEF Private!Memory
    <3> QED
      BY <2>1, <3>1, <3>2
  <2>8. mem' = [mem EXCEPT ![c] = mem'[c]]
    BY <2>1, <2>6, MemFunction
  <2> QED
    BY <2>1, <2>5, <2>7, <2>8 DEF Private!Next, Private!Spawn
<1>4. CASE cr3' = cr3
  BY <1>2, <1>4
<1>5. CASE cr3' # cr3
  <2>1. PICK stack \in BOOLEAN, area \in BOOLEAN : SpawnCommit(stack, area) /\ stack
    BY <1>5 DEF ShellNext, SpawnCreate, SpawnMap, SpawnCopy, SpawnReject, SpawnSlot, SpawnReady,
                SpawnCommit, SpawnFail, Halt
  <2> QED
    BY <1>3, <2>1
<1> QED
  BY <1>4, <1>5

\* A process: a store, an exit or a fork of PrivateMemory, or a stutter.
LEMMA ProcessRefines ==
  ASSUME Inv, Inv', NEW s \in Slot, ProcessNext(s)
  PROVE  [Private!Next]_(Private!vars)
<1> USE NullNotFrame
<1>1. TypeInv /\ Accounting /\ Runs(s)
  BY DEF Inv, ProcessNext, UserLoad, CowFault, UserStore, KernelStore, Exit, FaultKill, Fork, ForkUndone
<1>2. /\ pte \in [Frame -> [Page -> FrameOrNull]] /\ cr3 \in [Slot -> FrameOrNull]
      /\ data \in [Frame -> Value] /\ rw \in [Frame -> SUBSET Page]
  BY <1>1 DEF TypeInv, TypeOK
<1>3. cpu_cr3 = cr3[s] /\ cr3[s] \in Directories /\ cr3[s] \in Frame /\ cr3[s] # NULL
  BY <1>1, Running DEF Directories
<1>0. \A e \in Frame, q \in Page : pte[e][q] \in FrameOrNull
  BY <1>1, Types
<1>4. ASSUME NEW t \in Slot, t # s, cr3'[t] = cr3[t] PROVE mem'[t] = mem[t]
  <2>1. cr3[t] # NULL => Untouched(cr3[t])
    BY <1>4, LiveDirectory, ProcessIsolated
  <2> QED
    BY <1>4, <2>1, SameView
<1>5. ASSUME cr3' = cr3, UNCHANGED <<pte, data>> \/ mem'[s] = mem[s] PROVE UNCHANGED Private!vars
  <2>1. mem'[s] = mem[s]
    BY <1>5 DEF mem
  <2> QED
    BY <1>4, <1>5, <2>1, Stutter
<1>6. ASSUME NEW why, Halt(why) PROVE UNCHANGED Private!vars
  BY <1>5, <1>6 DEF Halt, memory
<1>7. ASSUME NEW p \in Page, UserLoad(s, p) PROVE UNCHANGED Private!vars
  BY <1>5, <1>7 DEF UserLoad, memory
<1>8. ASSUME NEW p \in Page, CanStore(p), NEW v \in Value, Write(p, v) PROVE Private!Next
  <2> DEFINE d == cr3[s]
             f == pte[d][p]
  <2>1. p \in rw[d] /\ Target(p) = f
    BY <1>3, <1>8 DEF Inv, Translation, TlbCoherent, CanStore, Target
  <2>2. f # NULL /\ f \in Frame
    <3>1. f # NULL
      BY <1>1, <1>3, <2>1 DEF Accounting, WritableUnshared
    <3>2. f \in FrameOrNull
      BY <1>0, <1>3
    <3> QED
      BY <3>1, <3>2 DEF FrameOrNull
  <2>3. \A q \in Page : q # p => pte[d][q] # f
    BY <1>1, <1>3, <2>2 DEF Accounting, FramesAccounted, EntriesOwned
  <2>4. data' = [data EXCEPT ![f] = v] /\ pte' = pte /\ cr3' = cr3
    BY <1>8, <2>1 DEF Write
  <2>5. \A q \in Page : mem'[s][q] = IF q = p THEN v ELSE mem[s][q]
    <3> SUFFICES ASSUME NEW q \in Page PROVE mem'[s][q] = IF q = p THEN v ELSE mem[s][q]
      OBVIOUS
    <3>1. mem'[s][q] = IF pte[d][q] # NULL THEN data'[pte[d][q]] ELSE NoPage
      BY <1>3, <2>4 DEF mem
    <3>2. mem[s][q] = IF pte[d][q] # NULL THEN data[pte[d][q]] ELSE NoPage
      BY <1>3 DEF mem
    <3>3. pte[d][q] \in FrameOrNull
      BY <1>0, <1>3
    <3> HIDE DEF d
    <3> QED
      BY <1>2, <2>2, <2>3, <2>4, <3>1, <3>2, <3>3 DEF FrameOrNull
  <2>6. mem'[s] = [mem[s] EXCEPT ![p] = v]
    <3>1. mem[s] = [q \in Page |-> mem[s][q]] /\ mem'[s] = [q \in Page |-> mem'[s][q]]
      BY DEF mem
    <3> QED
      BY <2>5, <3>1
  <2>7. \A t \in Slot : mem'[t] = IF t = s THEN [mem[s] EXCEPT ![p] = v] ELSE mem[t]
    BY <1>4, <2>4, <2>6
  <2>8. mem' = [mem EXCEPT ![s] = [mem[s] EXCEPT ![p] = v]]
    BY <2>7, MemFunction
  <2>9. mem' = [mem EXCEPT ![s][p] = v]
    BY <2>8
  <2>10. s \in alive /\ alive' = alive /\ mem[s][p] # NoPage
    BY <1>3, <2>2, <2>4, ViewType DEF alive
  <2> QED
    BY <2>9, <2>10 DEF Private!Next, Private!Store
<1>9. ASSUME NEW p \in Page, NEW v \in Value, UserStore(s, p, v) \/ KernelStore(s, p, v)
      PROVE  [Private!Next]_(Private!vars)
  BY <1>6, <1>8, <1>9 DEF UserStore, KernelStore
<1>10. ASSUME NEW next, Die(s, next) PROVE Private!Next
  <2>1. cr3' = [cr3 EXCEPT ![s] = NULL]
    BY <1>10 DEF Die
  <2>2. \A t \in Slot : cr3'[t] = IF t = s THEN NULL ELSE cr3[t]
    BY <1>2, <2>1
  <2>3. alive' = alive \ {s} /\ s \in alive
    BY <1>3, <2>2 DEF alive
  <2>4. mem'[s] = Private!Blank
    BY <2>2 DEF mem, Private!Blank
  <2>5. \A t \in Slot : mem'[t] = IF t = s THEN Private!Blank ELSE mem[t]
    BY <1>4, <2>2, <2>4
  <2>6. mem' = [mem EXCEPT ![s] = Private!Blank]
    BY <2>5, MemFunction, OneSlot
  <2> QED
    BY <2>3, <2>6 DEF Private!Next, Private!Exit
<1>11. ASSUME NEW t \in Slot \cup {Shell}, Exit(s, t) PROVE Private!Next
  BY <1>10, <1>11 DEF Exit
<1>12. ASSUME NEW p \in Page, NEW t \in Slot \cup {Shell}, FaultKill(s, p, t) PROVE Private!Next
  BY <1>10, <1>12 DEF FaultKill
<1>13. ASSUME NEW p \in Page, CowFault(s, p) PROVE UNCHANGED Private!vars
  <2> DEFINE d    == cpu_cr3
             old  == pte[d][p]
             nf   == Lowest(Free)
             left == IF frame_refs[old] > 0 THEN frame_refs[old] - 1 ELSE 0
  <2>1. CASE Reachable(old) /\ Reachable(nf)
    <3>1. /\ data' = [data EXCEPT ![nf] = data[old],
                                  ![old] = IF left = 0 THEN ImageByte ELSE @]
          /\ pte' = [pte EXCEPT ![d][p] = nf]
          /\ cr3' = cr3
      BY <1>13, <2>1 DEF CowFault
    <3>2. d = cr3[s] /\ d \in Frame /\ nf \in Frame \ bitmap /\ old # NULL /\ pte[d][p] = old
      BY <1>3, <1>13, FirstFit DEF CowFault
    <3>3. old \in Frame
      <4>1. pte[d][p] \in FrameOrNull
        BY <1>2, <3>2
      <4> QED
        BY <3>2, <4>1 DEF FrameOrNull
    <3> HIDE DEF d, old, nf, left
    <3>4. \A q \in Page : pte[d][q] # nf
      BY <1>1, <3>2, FreeFrame
    <3>5. \A q \in Page : q # p => pte[d][q] # old
      BY <1>1, <3>2 DEF Accounting, FramesAccounted, EntriesOwned
    <3>6. nf # old /\ nf # NULL
      BY <3>2, <3>4
    <3>7. \A q \in Page : pte'[d][q] = IF q = p THEN nf ELSE pte[d][q]
      BY <1>2, <3>1, <3>2
    <3>8. data'[nf] = data[old] /\ \A g \in Frame : g # nf /\ g # old => data'[g] = data[g]
      BY <1>2, <3>1, <3>2, <3>3, <3>6
    <3>9. \A q \in Page : pte[d][q] # NULL => pte[d][q] \in Frame
      BY <1>2, <3>2 DEF FrameOrNull
    <3>10. ASSUME NEW q \in Page
           PROVE  (IF cr3'[s] # NULL /\ pte'[cr3'[s]][q] # NULL
                   THEN data'[pte'[cr3'[s]][q]] ELSE NoPage)
                = (IF cr3[s] # NULL /\ pte[cr3[s]][q] # NULL
                   THEN data[pte[cr3[s]][q]] ELSE NoPage)
      <4>1. CASE q = p
        <5>1. pte'[d][p] = nf /\ cr3'[s] = d /\ cr3[s] = d /\ d # NULL
          BY <1>3, <3>1, <3>2, <3>7
        <5> QED
          BY <3>2, <3>6, <3>8, <4>1, <5>1
      <4>2. CASE q # p
        <5>1. pte'[d][q] = pte[d][q] /\ cr3'[s] = d /\ cr3[s] = d
          BY <3>1, <3>2, <3>7, <4>2
        <5>2. pte[d][q] # NULL => data'[pte[d][q]] = data[pte[d][q]]
          BY <3>4, <3>5, <3>8, <3>9, <4>2
        <5> QED
          BY <5>1, <5>2
      <4> QED
        BY <4>1, <4>2
    <3>11. mem'[s] = mem[s]
      BY <3>10 DEF mem
    <3> QED
      BY <1>5, <3>1, <3>11
  <2> QED
    BY <1>6, <1>13, <2>1 DEF CowFault
<1>14. ASSUME Fork(s) PROVE [Private!Next]_(Private!vars)
  <2> DEFINE d  == cr3[s]
             c  == Lowest(Dead)
             pd == Lowest(Free)
             tb == Lowest(Free \ {pd})
  <2>1. CASE Reachable(pd) /\ Reachable(tb)
    <3>1. /\ pte' = [pte EXCEPT ![pd] = pte[d]] /\ data' = data
          /\ cr3' = [cr3 EXCEPT ![c] = pd]
      BY <1>14, <2>1 DEF Fork
    <3>2. pd \in Frame \ bitmap /\ c \in Slot /\ cr3[c] = NULL /\ d = cr3[s] /\ c # s
      BY <1>3, <1>14, FirstFit DEF Fork
    <3> HIDE DEF d, c, pd, tb
    <3>3. pd # d /\ pd # NULL
      BY <1>1, <3>2, FreeFrame
    <3>4. \A t \in Slot : cr3'[t] = IF t = c THEN pd ELSE cr3[t]
      BY <1>2, <3>1
    <3>5. pte'[pd] = pte[d] /\ pte'[d] = pte[d]
      BY <1>2, <1>3, <3>1, <3>2, <3>3
    <3>6. mem'[s] = mem[s]
      BY <3>1, <3>2, <3>4, <3>5 DEF mem
    <3>7. mem'[c] = mem[s]
      BY <1>3, <3>1, <3>2, <3>3, <3>4, <3>5 DEF mem
    <3>8. \A t \in Slot : mem'[t] = IF t = c THEN mem[s] ELSE mem[t]
      BY <1>4, <3>4, <3>6, <3>7
    <3>9. mem' = [mem EXCEPT ![c] = mem[s]]
      BY <3>2, <3>8, MemFunction, OneSlot
    <3>10. alive' = alive \cup {c} /\ c \notin alive /\ s \in alive
      BY <1>3, <3>2, <3>3, <3>4 DEF alive
    <3> QED
      BY <3>2, <3>9, <3>10 DEF Private!Next, Private!Fork
  <2> QED
    BY <1>6, <1>14, <2>1 DEF Fork
<1>15. ASSUME ForkUndone(s) PROVE UNCHANGED Private!vars
  BY <1>5, <1>15 DEF ForkUndone
<1> QED
  BY <1>7, <1>9, <1>11, <1>12, <1>13, <1>14, <1>15 DEF ProcessNext

\* Copy-on-write is invisible: the kernel's frames, tables, shared pages and TLB
\* implement processes with memories of their own, as the header of paging.c says.
THEOREM CopyOnWriteInvisible == Spec => PrivateToEachProcess
<1>1. Init => SpawnPrivate /\ Private!Init
  <2> SUFFICES ASSUME Init PROVE SpawnPrivate /\ Private!Init
    OBVIOUS
  <2>1. spawn.cr3 = NULL /\ \A t \in Slot : cr3[t] = NULL
    BY DEF Init, NoSpawn
  <2> QED
    BY <2>1 DEF SpawnPrivate, Private!Init, Private!Blank, alive, mem
<1>2. ASSUME Inv, Inv', SpawnPrivate, [Next]_vars PROVE [Private!Next]_(Private!vars)
  <2>1. ASSUME UNCHANGED <<pte, data, cr3>> PROVE UNCHANGED Private!vars
    BY <2>1 DEF Private!vars, alive, mem
  <2>2. CASE UNCHANGED vars
    BY <2>1, <2>2 DEF vars, memory
  <2>3. ASSUME NEW t \in Slot \cup {Shell}, SwitchTo(t) PROVE UNCHANGED Private!vars
    BY <2>1, <2>3 DEF SwitchTo, memory
  <2> QED
    BY <1>2, <2>2, <2>3, ShellRefines, ProcessRefines DEF Next
<1>3. ASSUME Inv, SpawnPrivate, [Next]_vars PROVE Inv' /\ SpawnPrivate'
  BY <1>3, InvStep, SpawnPrivateStep
<1> QED
  BY <1>1, <1>2, <1>3, InvInit, PTL DEF Spec, PrivateToEachProcess, Private!Spec

==============================================================================
