\* One interrupted full erase, and what --resume makes of it.
SPECIFICATION Spec
CONSTANTS
  Disposable = TRUE
  Procs = {p1}
  root = root
  spare = spare
  cryptroot = cryptroot
  Devices <- MCDevices
  SlotNumbers <- MCSlots
  InitSlots <- MCInitSlots
  b1 = b1
  b2 = b2
  Backups <- MCBackups
  Maps = {cryptroot}
  None = None
  NoJournal = NoJournal
  RecordedTarget = root
  RecordedDaily = 0
  RecordedRecovery = 1
  FireArgs <- TypedFires
  ResumeArgs <- TypedResumes
  TestNoPoweroff = FALSE
  MaxCuts = 2
  MaxFaults = 2
INVARIANT ExistingJournalResumable
