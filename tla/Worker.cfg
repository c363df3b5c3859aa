SPECIFICATION Spec
CONSTANTS
  e1 = e1
  e2 = e2
  e3 = e3
  w1 = w1
  Entries <- MCEntries
  Garbled <- MCGarbled
  Blank <- MCBlank
  Workers <- OneWorker
  Concurrency = 1
  Limits = {1, 3}
  MaxSetbacks = 2
  u1 = u1
  u2 = u2
  u3 = u3
  None = None
  Turns <- ThreeTurns
  Servers <- OneProc
  AskerOf <- TwoAskers
  MaxOverlap = 2
  MaxMishaps = 1
INVARIANTS
  SlotsTrackHandlers
  OneBuyerPerHistory
  HistoryIsWhole
PROPERTIES
  QueuePromise
  EveryEntryDelivered
  SessionIsConversation
