SPECIFICATION Spec
CONSTANTS
  Clusters = 8
  bytes_per_cluster = 2
  EntriesPerCluster = 1
  Directory <- MCDirectory
  Char = {"b", "B", ".", " "}
  Dot = "."
  Space = " "
  Upper <- MCUpper
  Name <- MCName
  NoName = NoName
  Fd = {d1, d2}
  Byte = {1, 2}
  Blank = Blank
  Buffer <- MCBuffer
  Count = {3}
  PageOffset = {2}
  MaxBytes <- MCMaxBytes
  MaxOffset = 5
  MaxOpens = 3
  Readers = {d2}
  Closed = Closed
  NoCall = NoCall
INVARIANTS ClustersOwnedOnce FilesAreFound
PROPERTY ImplementsFiles
CHECK_DEADLOCK FALSE
