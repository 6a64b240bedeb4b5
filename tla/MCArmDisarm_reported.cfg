\* What arm reports, after a disarm that failed and was cut off.
SPECIFICATION Spec
CONSTANTS
  Absent = Absent
  NoHook = NoHook
  Unbootable = Unbootable
  Sites <- MCSites
  MaxVersion = 1
  MaxCuts = 1
  MaxFaults = 1
INVARIANT ReportedArmedIsArmed
