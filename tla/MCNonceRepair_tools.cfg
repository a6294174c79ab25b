SPECIFICATION RepairSpec
CONSTANTS
  e1 = e1
  e2 = e2
  canceller = canceller
  stuck = stuck
  Canceller = canceller
  Stuck = stuck
  Tools = {"fix_nonce", "get_nonce_info", "reset_nonce_cache", "clear_all_nonce_caches"}
  MaxStuck = 1
  Executors = {e1, e2}
  Senders = {e1, e2, canceller, stuck}
  Deadlined = {}
  NoExecutor = NoExecutor
  Foreign = Foreign
  Vacant = Vacant
  NoNonce = NoNonce
  MaxNonce = 3
  MaxForeign = 0
  MaxRetriesArg = 1
  Faults <- RepairFaults
INVARIANT ResetFindsLostNonces
PROPERTY CancelsOnlyWhatIsThere
PROPERTY StuckIsCleared
