SPECIFICATION FairSpec
CONSTANTS
  Task = {t1}
  FrameCount = 6
  MemoryMaps <- MCMemoryMaps
  BootRequests <- MCHeap
  Requests = {1, 2}
  Preemptible = FALSE
CHECK_DEADLOCK FALSE
INVARIANTS TypeOK OneOwner BitsMatch
PROPERTIES ImplementsPool CallsReturn
