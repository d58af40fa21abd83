CONSTANTS
  Fan = 2
  Tables <- MCTables
  Root = 1
  Supply <- MCSupply
  BootChunks <- MCBootChunks
  Chunks <- MCChunks
  Empty = Empty
  Junk = Junk
  NoChunk = NoChunk
SPECIFICATION Spec
INVARIANTS
  TreeShaped
  ConsistencyHolds
PROPERTY
  ImplementsAddressSpace
