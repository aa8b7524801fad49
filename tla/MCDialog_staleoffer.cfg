SPECIFICATION Spec
CONSTANTS
  m1 = m1  m2 = m2  m3 = m3  g1 = g1  g2 = g2  g3 = g3  w1 = w1  w2 = w2
  NoMsg = NoMsg
  ClientMsgs = {m1, m2}
  Kind <- BookingThenPlain
  ManagerMsgs = {}
  ProviderSeq <- NoManagerMsgs
  Workers = {w1}
  MaxAttempts = 1
  MaxFaults = 0
  RemoteResults = {"OFFER_SLOTS"}

INVARIANT
  OtherInboundClearsOffer
