SPECIFICATION Spec
CONSTANTS
  e1 = e1
  e2 = e2
  e3 = e3
  Executors = {e1}
  Senders = {e1}
  Deadlined = {}
  NoExecutor = NoExecutor
  Foreign = Foreign
  Vacant = Vacant
  NoNonce = NoNonce
  MaxNonce = 5
  MaxForeign = 0
  MaxRetriesArg = 2
  Faults <- LostReply
INVARIANT AtMostOncePublished
