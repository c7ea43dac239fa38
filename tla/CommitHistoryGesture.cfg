CONSTANTS
  Threads = {t1, t2}
  Nobody = Nobody
  Knobs = {knob}
  Parts = {part}
  Values = {0, 1}
  Blank = 0
  Limit = 2
  MaxRev = 2
  MaxEpoch = 1
SPECIFICATION Spec
INVARIANT GesturesAreOfThisDocument
SYMMETRY ThreadSymmetry
