SPECIFICATION Spec
CONSTANTS
  Never = Never
  Budgets <- SomeBudgets
  Expiries <- SomeExpiries
  IpfsTimeout = 3
  IpfsRetries = 3
  IpfsBackoff = 1
  ReceiptTimeout = 4
  ReceiptFloor = 2
  MaxRetries = 3
  UnderpricedBackoff = 5
  TransientBackoff = 2
  MaxRpc = 2
INVARIANT NeverSentPastBudget
INVARIANT StalledPinPublishesNothing
INVARIANT PinIsBounded
INVARIANT OverrunBounded
