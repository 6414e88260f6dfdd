CONSTANTS
  SaltInit = 2      SaltFull = 2       SaltForced = 0
  SaltCritical = 0  SaltWarn = 1
  PressureInit = 1  PressureFloor = 0  PressureMax = 1  PressureMin = 1
  TdsInit = 0       TdsFresh = 0       TdsForced = 1
  TdsFloor = 0      TdsMax = 1         TdsHigh = 1
  RegenDuration = 2  RegenTimeout = 3
  SaltWarnGap = 0    NoFlowGap = 0
  MaxTickGap = 1     MaxOta = 0
  Commands = {"regenerate"}
SPECIFICATION Spec
PROPERTY NoFlowOnlyWithoutCycle
