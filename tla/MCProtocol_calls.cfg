SPECIFICATION Spec
CONSTANTS
  c = c
  d = d
  p = p
  q = q
  m = m
  ag = ag
  Accounts <- Everyone
  Nobody = Nobody
  NoSigner = NoSigner
  Garbage = Garbage
  Starts <- SomeStarts
  Keys <- SomeKeys
  Calls <- SomeCalls
  Others <- SomeOthers
  MaxMoves = 2
  ChunkSize = 1
  MaxRetries = 2
INVARIANT SignedByItsRole
INVARIANT OutcomeTellsEffect
INVARIANT RaisesAsDocumented
INVARIANT ReturnsItsOwn
INVARIANT SnapshotCoherent
INVARIANT FindsTheWinner
PROPERTY DoesWhatItSays
