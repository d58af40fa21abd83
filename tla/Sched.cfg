CONSTANTS
  t0 = t0  t1 = t1  t2 = t2  t3 = t3  t4 = t4
  p1 = p1  p2 = p2  p3 = p3  p4 = p4
  m1 = m1  m2 = m2  m3 = m3  m4 = m4  m5 = m5
  THREADS <- MCThreads
  PROCS <- MCProcs
  MAPS <- MCMaps
  n0 = n0  n1 = n1  n2 = n2  n3 = n3  n4 = n4
  NODES <- MCNodes
  KernelThread = t0
  NULL = NULL
  MaxPid = 3
SPECIFICATION OrderedSpec
INVARIANTS
  TypeOK
  QueueHoldsLive
  AssertHolds
  RunsInOwnMemory
  ListsHold
  OneThread
  Family
  IdsDistinct
PROPERTIES
  NobodyJumpsAhead
  StoppedForGood
  EveryThreadRuns
