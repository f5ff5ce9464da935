SPECIFICATION MemorySpec
CONSTANTS
  MemSize = 10
  Sizes = {1, 2, 3, 5}
  Aligns = {1, 2, 4}
  Buffers = {b1, b2, b3, b4, b5}
  Nil = Nil
  MaxBufferSize = 24
  MaxBufferCount = 2
  LineSize = 4
  DataSizes = {9, 16, 25}
  UpdateSizes = {4}
  AlignUp <- MaskAlign
  MaxPending = 4
  Heaps <- MCHeaps
  NumTypes = 3
  HeapOf <- MCHeapOf
  PropFlags <- MCPropFlags
  HeapSize <- MCHeapSize
  Budget <- MCBudget
  Requests <- MCRequests
  DefaultChunk = 8
  SmallChunk = 2
  HostChunk = 4
  ChunksPerHeap = 2
  SmallThreshold = 1
  Grants <- MCGrants
  MaxLive = 2
INVARIANTS
  MemoryTypeOK NoOverlap NoLeak Coalesced
  NoDanglingChunk ChunksPartitioned StatisticsExact OneSpareChunk
  StagedDataIntact SlicesInside
PROPERTY ImplementsChunk
SYMMETRY BufferSymmetry
