CONSTANTS
  RingSize = 2   CacheSize = 2
  Slots = {"s1", "s2"}
  MaxHappenings = 3   Alarming = {1}
SPECIFICATION Spec
INVARIANT NominalIsTrue
