\* A client that deletes a file while a descriptor is open on it.
CONSTANTS
  Name = {f, g}
  NoName = none
  FileMax = 2
  FdMax = 1
  DataCount = 3
  FatSize = 2
  BlockSize = 2
  Byte = {1, 2}
  Zero = 0
  Buffer <- Buffers
  ReadCount = {3}
  Uses = {"delete open"}
  Crashes = FALSE
SPECIFICATION FsSpec

PROPERTY ImplementsFiles
SYMMETRY Symmetric
