\* Two enrolled versions, two power cuts, two failing calls.
SPECIFICATION Spec
CONSTANTS
  Absent = Absent
  NoHook = NoHook
  Unbootable = Unbootable
  Sites <- MCSites
  MaxVersion = 2
  MaxCuts = 2
  MaxFaults = 2
INVARIANTS
  ATypeOK
  ArmIsTransactional
  DisarmIsComplete
  DisarmRestores
  BackupBehindArmedPam
  PamCommitsLast
  BootsUnlessTorn
  MirrorsEnrolled
  FailsForCause
  ArmedRulesRoute
