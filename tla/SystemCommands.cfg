CONSTANTS
  MaxQueue = 2
  MaxPresses = 2
  MaxMessages = 3
  MaxIncidents = 2
SPECIFICATION Spec
INVARIANTS TypeOK AnswersExplained
PROPERTIES AtMostOnce LossExplained Recovers
