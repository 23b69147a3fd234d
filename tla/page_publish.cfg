SPECIFICATION FairSpec
CONSTANTS
  p1 = p1  p2 = p2
  q1 = q1  q2 = q2
  w1 = w1  w2 = w2
  Nobody = Nobody
  Page = {p1, p2}
  Height = 2
  Puller = {}
  Worker = {w1}
  Ranges <- EachPage
  Walks <- AnyOrder
  MaxEdits = 2
  MaxEpoch = 8
  Prunable = {}
CHECK_DEADLOCK FALSE
INVARIANTS PublishedIsFresh RepublishNeedsEdit
PROPERTY Converges
