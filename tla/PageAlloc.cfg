CONSTANTS
  MemoryMaps <- MCMemoryMaps
  LowerBound = 2
  MemoryEnd = 20
  Wrap = 32
  Sizes = {0, 1, 2, 3, 5, 7}
SPECIFICATION Spec
INVARIANTS
  PagesKept
  Consistent
PROPERTIES
  FailsOnlyWhenFull
  ImplementsAllocator
