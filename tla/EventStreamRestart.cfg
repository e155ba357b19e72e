CONSTANTS
  None = None
  Adders = {a1, a2}
  Subs = {1}
  CacheSize = 2
  MaxEvents = 3
  MaxCrashes = 1
  Faults = {"crash", "unsubscribe", "close"}
SPECIFICATION FairSpec
INVARIANT SearchMatchesUntilCrash
PROPERTIES ImplementsLog CachePagesFinal EventReachesSubscribers CloseEnds
CHECK_DEADLOCK FALSE
