SPECIFICATION FairPipeSpec
CONSTANTS
  MaxId = 4
  Message <- MCMessage
  ExitCode = {code}
  NoCode = NoCode
  ChunkSize = 2
  MaxBytes = 5
  ReadLens = {1, 3}
  MaxKeys = 1
INVARIANTS SafeIfReadToEnd NothingLost
PROPERTIES ImplementsStream PipelineEnds
