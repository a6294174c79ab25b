SPECIFICATION FairSpec
CONSTANTS
  e1 = e1
  e2 = e2
  e3 = e3
  Executors = {e1, e2}
  Senders = {e1, e2}
  Deadlined = {e1}
  NoExecutor = NoExecutor
  Foreign = Foreign
  Vacant = Vacant
  NoNonce = NoNonce
  MaxNonce = 5
  MaxForeign = 1
  MaxRetriesArg = 2
  Faults <- AnsweredFaults
INVARIANT TypeOK
INVARIANT AtMostOncePublished
INVARIANT OutcomeMatchesChain
INVARIANT NoLostNonce
PROPERTY PublishesOnce
PROPERTY EveryCallEnds
