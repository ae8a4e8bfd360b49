\* Each process is one command of test_fs.x and may be killed.
CONSTANTS
  Name = {f, g}
  NoName = none
  FileMax = 2
  FdMax = 2
  DataCount = 4
  FatSize = 2
  BlockSize = 2
  Byte = {0}
  Zero = 0
  Buffer = {}
  ReadCount = {}
  Uses = {}
  Crashes = TRUE
  Invocations <- AllInvocations
SPECIFICATION ToolSpec
INVARIANTS FatIsPartition DiskIsWhole NothingLost
PROPERTIES ToolEnds
