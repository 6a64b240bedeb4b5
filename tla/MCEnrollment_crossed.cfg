\* Two enrollments and an arm, asked whether the records hold while armed.
SPECIFICATION ESpec
CONSTANTS
  A = A
  B = B
  pass = pass
  k1 = k1
  k2 = k2
  token = token
  Devices = {A}
  Root = A
  SlotNumbers = {0, 1, 2}
  Creds = {pass, k1, k2, token}
  Stranger = Stranger
  None = None
  InitKeys <- MCInitKeys
  RecoveryArgs <- RootArgs
  FactorArgs <- MCFactorArgs
  MaxCommands = 2
  MaxHands = 0
  MaxBreaks = 0
PROPERTY RecordsHoldWhileArmed
CHECK_DEADLOCK FALSE
