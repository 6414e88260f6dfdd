CONSTANTS
  RingSize = 2   CacheSize = 2
  Slots = {"s1", "s2"}
  MaxHappenings = 5   Alarming = {1}
SPECIFICATION Spec
INVARIANTS TypeOK ListSound AlertsNotStale
PROPERTIES BackOnlyByOverlap ListSettles
