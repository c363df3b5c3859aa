SPECIFICATION Spec
CONSTANTS
  t1 = t1
  t2 = t2
  p1 = p1
  p2 = p2
  p3 = p3
  Turns = {t1, t2}
  Products = {p1, p2, p3}
  Tools = {"search", "dispatch"}
  TopK = 2
  MaxShown = 2
  MaxHistory = 2
  None = None
  MaxCalls = 2
  MaxSearches = 2
  MaxMishaps = 1
  Desks = {"s1", "s2"}
  Reasons = {"late", "dear"}
  Nil = None
  MaxOrders = 2
  MaxTools = 5
  MaxAsked = 2
  MaxTroubles = 1
  v1 = v1
  v2 = v2
  v3 = v3
  Absent = Absent
  TurnIds <- ThreeTurns
  SessionOf <- TwoSessions
  QueryOf <- TwoQuestions
  Unsafe = {"that one"}
  Buyers <- TwoBuyers
  ann = ann
  ben = ben
  Kinds = {"dislike"}
  Statements = {"plastic"}
  BucketLimit = 1
  MaxBusy = 2
  MaxSlips = 1
  MaxTrouble = 2
  Owners <- OwnersV
  NameOf <- NameV
  Tastes = {"like", "dislike"}
  Sayings = {"plastic"}
  Chats = {"s1", "s2"}
  ReadLimit = 2
  NoFile = None
  Torn = Torn
  MaxWrites = 4
  MaxHarms = 2
  Serving = {"p1", "p2"}
  ToolCalls <- ToolCallsV
  ServedBy <- ServedByV
  Outputs <- OutputsV
  OutputOf <- OutputOfV
  Gone = None
  Partial = Torn
  MaxDeaths = 2
INVARIANTS
  ShownWasFound
  FactsAreTrue
  ScreenIsTrue
  HitIsOwn
  HitsAreCurrent
  LogReadable
  RecordKept
  FilesAreTrue
  LeftOutReadsBack
CHECK_DEADLOCK FALSE
