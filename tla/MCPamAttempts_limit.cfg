\* Two PAM clients, nothing fails.
SPECIFICATION Spec
CONSTANTS
  Procs = {p1, p2}
  WipeAt = 3
  MaxWrong = 5
  MaxCuts = 0
  MaxFaults = 0
SYMMETRY ProcSymmetry
INVARIANT WipesAtLimit
