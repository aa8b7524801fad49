SPECIFICATION MCFairSpec
CONSTANTS
  NoProjection = NoProjection
  Projections = {p1, p2}
  Blank = {p2}
  Workers = {w1, w2}
  MaxAttempts = 3
  People = {h1}
  HookWorkers = {i1, i2}
  HookAttempts = 2
  IntegrationIds = {1, 2}
  Echoed = {p1}
  EchoHandler = i1
INVARIANTS
    TypeOK CopiesExact WebhookHeardRight
PROPERTIES
    RowsSettleForGood WebhookEffectsOnce
