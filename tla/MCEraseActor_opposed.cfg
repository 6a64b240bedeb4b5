\* Two killslot requests that rely on each other's slot, nothing failing.
SPECIFICATION Spec
CONSTANTS
  Disposable = TRUE
  Procs = {p1, p2}
  root = root
  spare = spare
  cryptroot = cryptroot
  Devices <- MCDevices
  SlotNumbers <- MCSlots
  InitSlots <- MCInitSlots
  b1 = b1
  b2 = b2
  Backups <- MCBackups
  Maps = {cryptroot}
  None = None
  NoJournal = NoJournal
  RecordedTarget = root
  RecordedDaily = 0
  RecordedRecovery = 1
  FireArgs <- OpposedFires
  ResumeArgs <- ProductResumes
  TestNoPoweroff = FALSE
  MaxCuts = 0
  MaxFaults = 0
INVARIANT LastSlotNeedsAck
