SPECIFICATION FairSpec
CONSTANTS
  t1 = t1
  t2 = t2
  t3 = t3
  a1 = a1
  Threads = {t1, t2}
  Addresses = {a1}
  ClearAnyTime = FALSE
  MaxCalls = 2
  MaxPending = 1
  NoNonce = NoNonce
INVARIANT MutualExclusion
INVARIANT NoKeyError
PROPERTY ActsAtomically
PROPERTY EveryCallReturns
