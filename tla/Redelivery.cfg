SPECIFICATION FairStreamSpec
CONSTANTS
  e1 = e1
  e2 = e2
  e3 = e3
  w1 = w1
  Entries = {e1, e2}
  Garbled = {}
  Blank = {}
  Workers <- OneWorker
  Concurrency = 1
  Limits = {3}
  MaxSetbacks = 1
PROPERTIES
  UnackedIsRedelivered
