SPECIFICATION Spec
CONSTANTS
  Inputs = {"a", "b"}
  Outputs = {"both", "one", "none"}
  Reads <- MCReads
  Shapes <- MCShapes
  ChunkSizes = {1, 2, 3}
INVARIANTS ChunkedIsWhole AlignedReduces
