SPECIFICATION Spec
CONSTANTS
  Name = {"A", "B"}
  NoName = "none"
  Zero = "zero"
  LastCluster = 4
  Base = 3
  SectorBytes = 7
  DirSlots = 2
  MaxLen = 2
  MaxFaults = 1
  MaxCrashes = 1
INVARIANT HeadsAllocated
