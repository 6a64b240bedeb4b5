\* One actor, no failing call, one power cut: a backup that is half shredded.
SPECIFICATION Spec
CONSTANTS
  Disposable = TRUE
  Procs = {p1}
  root = root
  spare = spare
  cryptroot = cryptroot
  Devices <- MCDevices
  SlotNumbers <- MCSlots
  InitSlots <- MCInitSlots
  b1 = b1
  b2 = b2
  Backups <- MCBackups
  Maps = {cryptroot}
  None = None
  NoJournal = NoJournal
  RecordedTarget = root
  RecordedDaily = 0
  RecordedRecovery = 1
  FireArgs <- BareFires
  ResumeArgs <- ProductResumes
  TestNoPoweroff = FALSE
  MaxCuts = 1
  MaxFaults = 0
INVARIANT NoBackupOutlivesSlots
