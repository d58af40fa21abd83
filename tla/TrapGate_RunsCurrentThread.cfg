CONSTANTS
  t0 = t0  t1 = t1  t2 = t2  t3 = t3
  THREADS = {t0, t1, t2, t3}
  KernelThread = t0
  FirstThread = t1
SPECIFICATION Spec
INVARIANT RunsCurrentThread
