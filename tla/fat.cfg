SPECIFICATION Spec
CONSTANTS
  Name = {A, B}
  NoName = NoName
  Zero = Zero
  LastCluster = 4
  Base = 3
  SectorBytes = 7
  DirSlots = 2
  MaxLen = 2
  MaxFaults = 1
  MaxCrashes = 1
SYMMETRY Renamings
VIEW Unbroken
INVARIANTS TypeOK ChainsAcyclic NoLostClusters CopiesAgree EntriesFound OnTheDisk WritesLast
