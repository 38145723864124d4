SPECIFICATION Spec
CONSTANTS
  Task = {t1, t2}
  App = {elf, txt}
  NotElf = {txt}
  MaxStarts = 2
  TableSize = 2
  FrameCount = 10
  ImagePages <- MCImage
  StackPages <- MCStack
  HeapPages <- MCHeap
  FilePages <- MCFile
  KernelBuffers <- MCImageBuffer
CHECK_DEADLOCK FALSE
INVARIANT ImagesIntact
