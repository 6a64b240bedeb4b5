\* One failing actor, asked whether a missed window still destroys.
SPECIFICATION DSpec
CONSTANTS
  A = A
  pass = pass
  k1 = k1
  Devices = {A}
  Root = A
  SlotNumbers = {0, 1}
  Creds = {pass, k1}
  Stranger = Stranger
  None = None
  InitKeys <- MCInitKeys
  RecoveryArgs <- MCRecoveryArgs
  FactorArgs <- MCFactorArgs
  MaxCommands = 1
  MaxHands = 0
  MaxBreaks = 1
  Hours = {1}
  Hour = 2
  Words = 8
  MaxNow = 3
PROPERTY MissedWindowDestroys
CHECK_DEADLOCK FALSE
