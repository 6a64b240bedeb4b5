\* Two PAM clients at once, failures, a power cut and failing calls.
SPECIFICATION Spec
CONSTANTS
  Procs = {p1, p2}
  WipeAt = 3
  MaxWrong = 5
  MaxCuts = 1
  MaxFaults = 1
SYMMETRY ProcSymmetry
INVARIANTS
  PTypeOK
  FailuresCounted
  LimitFires
PROPERTY WipesForCause
