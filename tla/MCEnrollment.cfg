\* Two devices, two enrolling commands, two failures or cuts, one by hand.
SPECIFICATION ESpec
CONSTANTS
  A = A
  B = B
  pass = pass
  k1 = k1
  k2 = k2
  token = token
  Devices = {A, B}
  Root = A
  SlotNumbers = {0, 1, 2}
  Creds = {pass, k1, k2, token}
  Stranger = Stranger
  None = None
  InitKeys <- MCInitKeys
  RecoveryArgs <- MCRecoveryArgs
  FactorArgs <- MCFactorArgs
  MaxCommands = 2
  MaxHands = 1
  MaxBreaks = 2
CONSTRAINT TwoMishaps
INVARIANTS
  ETypeOK
  RecoveryOpens
  MirrorAgrees
CHECK_DEADLOCK FALSE
