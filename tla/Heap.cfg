CONSTANTS
  Total = 24
  Header = 2
  Grain = 2
  Sizes = {1, 2, 3, 5, 8}
SPECIFICATION Spec
INVARIANTS
  TypeOK
  Tiling
  HeldIntact
  NoLeak
PROPERTIES
  FailsOnlyWhenFull
  ImplementsAllocator
