SPECIFICATION StagingSpec
CONSTANTS
  Buffers = {b1, b2, b3, b4, b5}
  Nil = Nil
  MaxBufferSize = 24
  MaxBufferCount = 2
  LineSize = 4
  DataSizes = {3, 25}
  UpdateSizes = {9}
  AlignUp <- MaskAlign
  MaxPending = 2
INVARIANT StagedDataIntact
SYMMETRY BufferSymmetry
