\* Nothing fails, asked whether arm succeeds with either encrypt hook.
SPECIFICATION Spec
CONSTANTS
  Absent = Absent
  NoHook = NoHook
  Unbootable = Unbootable
  Sites <- MCSites
  MaxVersion = 1
  MaxCuts = 0
  MaxFaults = 0
INVARIANT EncryptHookArms
