\* Every journal, whichever trigger wrote it, with nobody resuming by hand.
SPECIFICATION MSpec
CONSTANTS
  Disposable = TRUE
  Procs = {p1}
  root = root
  Devices = {root}
  SlotNumbers <- MCSlots
  InitSlots <- MCInitSlots
  Backups = {b1}
  BootDevice = root
  BootMap = cryptroot
  UnlockPids = {u1}
  Maps = {cryptroot}
  None = None
  NoJournal = NoJournal
  RecordedTarget = root
  RecordedDaily = 0
  RecordedRecovery = 1
  FireArgs <- MCFires
  ResumeArgs <- BootResumes
  TestNoPoweroff = FALSE
  MaxCuts = 1
  MaxFaults = 0
  LockoutAt = 1
  WipeAt = 2
  MaxPrompts = 2
  MaxUnlockFaults = 0
PROPERTY AnyWipeCompletes
