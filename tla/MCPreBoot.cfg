\* The whole boot cycle: two ds-erase processes when booted, one before.
SPECIFICATION MSpec
CONSTANTS
  Disposable = TRUE
  Procs = {p1, p2}
  root = root
  Devices = {root}
  SlotNumbers <- MCSlots
  InitSlots <- MCInitSlots
  Backups = {b1}
  BootDevice = root
  BootMap = cryptroot
  UnlockPids = {u1}
  Maps = {cryptroot}
  None = None
  NoJournal = NoJournal
  RecordedTarget = root
  RecordedDaily = 0
  RecordedRecovery = 1
  FireArgs <- MCFires
  ResumeArgs <- MCResumes
  TestNoPoweroff = FALSE
  MaxCuts = 2
  MaxFaults = 1
  LockoutAt = 1
  WipeAt = 2
  MaxPrompts = 2
  MaxUnlockFaults = 1
INVARIANTS
  MTypeOK
  NoCredentialWhilePending
  PromptsSuffice
  GuessesCounted
  OwnWipeResumes
PROPERTIES
  ImplementsContract
  LimitHolds
  LimitIsFinal
  PrebootWipeCompletes
