\* Nothing fails; a reboot may come in the middle of an arm or a disarm.
SPECIFICATION ESpec
CONSTANTS
  A = A
  B = B
  pass = pass
  k1 = k1
  k2 = k2
  token = token
  Devices = {A}
  Root = A
  SlotNumbers = {0, 1}
  Creds = {pass, k1, k2, token}
  Stranger = Stranger
  None = None
  InitKeys <- MCInitKeys
  RecoveryArgs <- RootArgs
  FactorArgs <- MCFactorArgs
  MaxCommands = 2
  MaxHands = 0
  MaxBreaks = 0
PROPERTY TriggersSpareRecovery
CHECK_DEADLOCK FALSE
