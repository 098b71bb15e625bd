SPECIFICATION FairSpec
CONSTANTS
  Workers = {w1, w2}
  Contacts = {c1, c2}
  Documents = {d1, d2}
  Counters = {"SALES"}
  First = 1
  ByHand = {"AP"}
  Asked <- BothAndVendor
  c1 = c1
  c2 = c2
  Typed = {1}
  NoWorker = NoWorker
INVARIANT ContactWhole
PROPERTIES SalesGapless EveryRequestEnds
