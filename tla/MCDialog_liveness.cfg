SPECIFICATION FairSpec
CONSTANTS
  m1 = m1  m2 = m2  m3 = m3  g1 = g1  g2 = g2  g3 = g3  w1 = w1  w2 = w2
  NoMsg = NoMsg
  ClientMsgs = {m1}
  Kind <- OneBooking
  ManagerMsgs = {g1, g3}
  ProviderSeq <- NumberedAndNot
  Workers = {w1, w2}
  MaxAttempts = 2
  MaxFaults = 1
  RemoteResults = {"OFFER_SLOTS", "NO_OFFER"}

INVARIANTS
    BookingResolvedOnce
PROPERTIES
    DialogSettles
