\* The same machine, asked whether anything is destroyed before arm.
SPECIFICATION DSpec
CONSTANTS
  A = A
  pass = pass
  k1 = k1
  Devices = {A}
  Root = A
  SlotNumbers = {0, 1}
  Creds = {pass, k1}
  Stranger = Stranger
  None = None
  InitKeys <- MCInitKeys
  RecoveryArgs <- MCRecoveryArgs
  FactorArgs <- MCFactorArgs
  MaxCommands = 1
  MaxHands = 0
  MaxBreaks = 0
  Hours = {1}
  Hour = 2
  Words = 8
  MaxNow = 3
PROPERTY InertUntilArmed
CHECK_DEADLOCK FALSE
