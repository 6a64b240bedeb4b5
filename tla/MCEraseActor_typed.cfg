\* Two concurrent actors with different goals, a full erase among them.
SPECIFICATION Spec
SYMMETRY PidSymmetry
CONSTANTS
  Disposable = TRUE
  Procs = {p1, p2}
  root = root
  spare = spare
  cryptroot = cryptroot
  Devices <- MCDevices
  SlotNumbers <- MCSlots
  InitSlots <- MCInitSlots
  b1 = b1
  b2 = b2
  Backups <- MCBackups
  Maps = {cryptroot}
  None = None
  NoJournal = NoJournal
  RecordedTarget = root
  RecordedDaily = 0
  RecordedRecovery = 1
  FireArgs <- TypedFires
  ResumeArgs <- TypedResumes
  TestNoPoweroff = FALSE
  MaxCuts = 1
  MaxFaults = 1
INVARIANTS
  TypeOK
  OnlyNamedSlotsLost
  BackupsBeforeSlots
  DestroyedMeansGone
  KeepsAWayIn
