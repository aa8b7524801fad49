SPECIFICATION Spec
CONSTANTS
  Workers = {w1, w2}
  w1 = w1
  w2 = w2
  NoWorker = NoWorker
  MaxReservations = 3
  MaxDeletes = 1
SYMMETRY WorkerSymmetry
INVARIANT AtMostOneDeal
CHECK_DEADLOCK FALSE
