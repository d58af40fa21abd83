CONSTANTS
  t0 = t0  t1 = t1  t2 = t2  t3 = t3
  p1 = p1  p2 = p2  p3 = p3
  m1 = m1  m2 = m2  m3 = m3  m4 = m4
  f1 = f1  f2 = f2  f3 = f3  f4 = f4
  THREADS <- MCThreads
  PROCS <- MCProcs
  MAPS <- MCMaps
  FRAMES <- MCFrames
  Words = {1, 2}
  Start = {1}
  Values = {0, 1}
  Zero = 0
  Programs <- MCPrograms
  NoFile <- MCNoFile
  KernelThread = t0
  NULL = NULL
  MaxPid = 1
SPECIFICATION OrderedSpec
PROPERTIES
  ImplementsPrivateMemories
