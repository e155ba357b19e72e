CONSTANTS
  None = None
  Adders = {a1, a2}
  Subs = {1, 2}
  CacheSize = 2
  MaxEvents = 2
  MaxCrashes = 0
  Faults = {"write_error", "unsubscribe", "close"}
SPECIFICATION Spec
INVARIANTS DeliveryOrder StreamSound
CHECK_DEADLOCK FALSE
