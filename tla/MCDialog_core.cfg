SPECIFICATION Spec
CONSTANTS
  m1 = m1  m2 = m2  m3 = m3  g1 = g1  g2 = g2  g3 = g3  w1 = w1  w2 = w2
  NoMsg = NoMsg
  ClientMsgs = {m1, m2}
  Kind <- BookingThenPlain
  ManagerMsgs = {g1, g2}
  ProviderSeq <- TwoManagerMsgs
  Workers = {w1, w2}
  MaxAttempts = 1
  MaxFaults = 1
  RemoteResults = {"OFFER_SLOTS"}
SYMMETRY WorkerSymmetry
CONSTRAINT EpochBound
INVARIANTS
    TypeOK RepliesAreCurrent OutboundDiscipline RecordExact
PROPERTIES
    RepliesAsPromised
