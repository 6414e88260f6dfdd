CONSTANTS
  SaltInit = 2      SaltFull = 2       SaltForced = 0
  SaltCritical = 0  SaltWarn = 1
  PressureInit = 1  PressureFloor = 0  PressureMax = 1  PressureMin = 1
  TdsInit = 0       TdsFresh = 0       TdsForced = 1
  TdsFloor = 0      TdsMax = 1         TdsHigh = 1
  RegenDuration = 2  RegenTimeout = 3
  SaltWarnGap = 0    NoFlowGap = 0
  MaxTickGap = 2     MaxOta = 1
  Commands = {"regenerate", "force_regen_fail", "reset_debug", "ota_update", "unknown",
    "force_low_salt", "force_power_failure"}
SPECIFICATION Spec
INVARIANTS TypeOK PowerEdgeInStep StateSound
PROPERTIES CycleEnds PowerRecovers LowSaltLockout FaultLatched EventsTruthful ImplementsLifecycle WatchdogNeedsStall CycleAccounted
