CONSTANTS
  MaxQueue = 2
  MaxMessages = 5
  MaxLosses = 2
SPECIFICATION Spec
INVARIANTS TypeOK StoreSound
PROPERTIES LossExplained FlushLosesAtMostOne ImplementsMailbox StoreEmptied
