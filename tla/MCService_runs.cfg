SPECIFICATION FairSpec
CONSTANTS
  quick = quick
  slow = slow
  twin = twin
  r1 = r1
  r2 = r2
  r3 = r3
  Functions = {quick, slow, twin}
  NameOf <- SomeNames
  Timed = {slow}
  Requests = {r1, r2, r3}
  PoolSize = 1
  Falsy = Falsy
  Null = Null
CHECK_DEADLOCK FALSE
INVARIANT PostsOwnResultOnce
INVARIANT ServesAfterInit
PROPERTY EveryRequestEnds
