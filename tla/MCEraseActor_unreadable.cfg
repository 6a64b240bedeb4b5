\* One actor, one failing call, no power cut: a backup that cannot be read.
SPECIFICATION Spec
CONSTANTS
  Disposable = TRUE
  Procs = {p1}
  root = root
  spare = spare
  cryptroot = cryptroot
  Devices <- MCDevices
  SlotNumbers <- MCSlots
  InitSlots <- MCInitSlots
  b1 = b1
  b2 = b2
  Backups <- MCBackups
  Maps = {cryptroot}
  None = None
  NoJournal = NoJournal
  RecordedTarget = root
  RecordedDaily = 0
  RecordedRecovery = 1
  FireArgs <- BareFires
  ResumeArgs <- ProductResumes
  TestNoPoweroff = FALSE
  MaxCuts = 0
  MaxFaults = 1
INVARIANT NoBackupOutlivesSlots
