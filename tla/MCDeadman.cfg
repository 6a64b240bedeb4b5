\* One enrollment; a window that fits, one whose deadline wraps late in the
\* run, and one that is a word's worth of seconds and wraps to nothing.
SPECIFICATION DSpec
CONSTANTS
  A = A
  pass = pass
  k1 = k1
  Devices = {A}
  Root = A
  SlotNumbers = {0, 1}
  Creds = {pass, k1}
  Stranger = Stranger
  None = None
  InitKeys <- MCInitKeys
  RecoveryArgs <- MCRecoveryArgs
  FactorArgs <- MCFactorArgs
  MaxCommands = 1
  MaxHands = 0
  MaxBreaks = 1
  Hours = {0, 1, 3, 4}
  Hour = 2
  Words = 8
  MaxNow = 3
INVARIANTS
  DTypeOK
  SwitchAsAsked
  FiresWhenDue
CHECK_DEADLOCK FALSE
