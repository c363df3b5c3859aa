SPECIFICATION RecordSpec
CONSTANTS
  v1 = v1
  v2 = v2
  v3 = v3
  ann = ann
  ben = ben
  Absent = Absent
  TurnIds <- ThreeTurns
  SessionOf <- ThreeSessions
  QueryOf <- OneQuestion
  Unsafe = {}
  Buyers <- TwoBuyers
  Kinds = {"dislike"}
  Statements = {"plastic"}
  BucketLimit = 2
  MaxBusy = 2
  MaxSlips = 0
  MaxTrouble = 1
INVARIANT NoStaleReply
CHECK_DEADLOCK FALSE
