SPECIFICATION Spec
CONSTANTS
  p1 = p1  p2 = p2  w1 = w1  w2 = w2
  NoProjection = NoProjection
  Projections = {p1}
  Blank = {}
  Workers = {w1}
  MaxAttempts = 2
INVARIANT SkipIsRecorded
