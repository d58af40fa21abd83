CONSTANTS
  Volumes <- MCVolumes
  Paths <- MCPaths
  EndOfFile = EndOfFile
  OtherMark = OtherMark
  LoadLimit = 5
  FontLimit = 8
  Sizes = {0, 1, 2, 4, 9}
  Offsets <- MCOffsets
  Wide = 64
  Devices = 4
  Functions = 3
  Buses <- MCBuses
  FontFile = "font"
  Machines <- MCMachines
SPECIFICATION BootSpec
INVARIANTS
  TypeOK
  SearchRight
  Enumerated
PROPERTIES
  ReadsRight
  SearchEnds
  ComesUp
