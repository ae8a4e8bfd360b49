\* A client that closes its files before it deletes or unmounts.
CONSTANTS
  Name = {f, g}
  NoName = none
  FileMax = 2
  FdMax = 2
  DataCount = 3
  FatSize = 2
  BlockSize = 2
  Byte = {1, 2}
  Zero = 0
  Buffer <- Buffers
  ReadCount = {3}
  Uses = {}
  Crashes = FALSE
SPECIFICATION FsSpec
INVARIANTS FsTypeOK FatIsPartition OffsetsInFile
PROPERTIES WritesAllItCan ImplementsFiles
SYMMETRY Symmetric
VIEW Running
