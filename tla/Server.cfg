SPECIFICATION ServerSpec
CONSTANTS
  Ips = {"a"}
  Requests = {1, 2, 3}
  MaxAttempts = 2
  MaxChanges = 2
  MaxRestarts = 1
INVARIANTS LimiterBound TriggersAreNotLost
PROPERTY ChangesAreIndexed
