\* A slot that was there before, one failing listing: does the audit notice?
SPECIFICATION ESpec
CONSTANTS
  A = A
  B = B
  pass = pass
  k1 = k1
  k2 = k2
  token = token
  Devices = {A}
  Root = A
  SlotNumbers = {0, 1, 2, 3}
  Creds = {pass, k1, k2, token}
  Stranger = Stranger
  None = None
  InitKeys <- StrangersKeys
  RecoveryArgs <- RootArgs
  FactorArgs <- MCFactorArgs
  MaxCommands = 2
  MaxHands = 0
  MaxBreaks = 1
PROPERTY AuditCatchesStrangers
CHECK_DEADLOCK FALSE
