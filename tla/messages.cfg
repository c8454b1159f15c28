CONSTANTS
  t1 = t1
  t2 = t2
  t3 = t3
  sub = sub
  Refused = Refused
  Unreadable = Unreadable
  Nothing = Nothing
  Threads = {t1, t2, t3}
  Takers = {t2, t3}
  Subscriber = sub
  Supports <- MCSupports
  Repertoire <- SamplesOf
  Encode <- CborOf
  Decode <- MessageOf
  Types <- MCTypes
  Depth <- MCDepth
  Values <- MCValues
  NestedAccepted <- AcceptedNested
  NestedItems <- ItemsNested
  NestedReading <- ReadNested
  NestedCarried <- CarriedNested
  Sums <- SumsOf
  Contents <- CborContents
  Endowments <- MCEndowments
  Hint = 4
  MaxCount = 2
SPECIFICATION FairSpec
INVARIANTS Inv TypeOK SlotIsSound TakenIsPublished RoundTrip
CHECK_DEADLOCK FALSE
PROPERTIES ImplementsDelivery CallsReturn EveryMessageIsHandled
