SPECIFICATION FairCancelSpec
CONSTANTS
  Firers = {f1, f2}
  Waiters = {w1, w2}
INVARIANT NoLostWakeup
PROPERTY ImplementsLatch
