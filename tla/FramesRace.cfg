SPECIFICATION Spec
CONSTANTS
  Task = {t1, t2}
  FrameCount = 5
  MemoryMaps <- MCPlainMap
  BootRequests <- MCHeap
  Requests = {1}
  Preemptible = TRUE
CHECK_DEADLOCK FALSE
INVARIANT OneOwner
