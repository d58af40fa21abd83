CONSTANTS
  x = x
  y = y
  p1 = p1
  p2 = p2
  Procs = {p1, p2}
  FirstProc = p1
  TableSize = 2
  Descriptors <- MCDescriptors
  Contexts = 3
  a1 = a1
  a2 = a2
  Addresses = {a1, a2}
  Paths <- MCPaths
  Disk <- MCDisk
  Directories <- MCDirectories
  PipeSize = 2
  Data <- MCData
  Sizes = {1}
  Offsets <- MCOffsets
SYMMETRY Symmetry
VIEW View
SPECIFICATION Spec
INVARIANTS
  TypeOK
  Owned
PROPERTIES
  ImplementsOpenFiles
