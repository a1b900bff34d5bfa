SPECIFICATION ShareSpec
CONSTANTS
  Raws = {r1, r2}
  Run = Run
  Rerun = Rerun
  MaxEdits = 3
  MaxTries = 2
SYMMETRY RawSymmetry
INVARIANTS
  ShareIsWholeOrClean
