SPECIFICATION Spec
CONSTANTS
  p1 = p1  p2 = p2
  q1 = q1  q2 = q2
  w1 = w1  w2 = w2
  Nobody = Nobody
  Page = {p1}
  Height = 3
  Puller = {q1, q2}
  Worker = {}
  Ranges <- EachPage
  Walks <- SendsLast
  MaxEdits = 2
  MaxEpoch = 0
  Prunable = {p1}
SYMMETRY PullerSymmetry
INVARIANTS TypeOK CurrentIsFresh RequestFresh
