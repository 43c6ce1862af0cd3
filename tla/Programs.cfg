SPECIFICATION AllSpec
CONSTANTS
  f1 = f1 f2 = f2
  Process = {p1, p2}
  FileOrder <- TwoFiles
  Value = {value}
  Absent = none
  Plan = {q1, q2}
  TTL = 0
  MaxScan = 1
  CanDie = TRUE
  Minutes = 1
  MaxStamp = 1
  Verifier = {w1, w2}
  Request = {r}
  Skew = 2
  Retention = 6
  Pause = 2
  Horizon = 20
INVARIANTS OneClaim NoReplay
PROPERTY BoundToPlan
SYMMETRY Symmetry
CHECK_DEADLOCK FALSE
