SPECIFICATION Spec
CONSTANTS
  Name = {"A", "B"}
  Opened = {"A"}
  Byte = {0, 1}
  FD_FIRST_FILE = 3
  MAX_OPEN_FILES = 5
  OFILE_CAP = 2
  Sector = 2
  MaxFile = 3
  MaxPos = 3
  Buffers <- MCBuffers
  ShellFiles <- MCShellFiles
  Junk <- MCJunk
INVARIANT TypeOK
PROPERTY SessionsPrivate
CHECK_DEADLOCK FALSE
VIEW MCView
