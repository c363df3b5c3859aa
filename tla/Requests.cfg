SPECIFICATION Spec
CONSTANTS
  r1 = r1
  r2 = r2
  w1 = w1
  None = None
  Entries = {r1, r2}
  SessionOf <- OneSession
  QueryOf <- RepeatedText
  Garbled = {}
  Blank = {}
  Workers = {w1}
  LargeTurns = 2
  Concurrency = 1
  Limits = {3}
  MaxMishaps = 1
  MaxSetbacks = 0
  t1 = t1
  t2 = t2
  t3 = t3
  amazon = amazon
  ebay = ebay
  NoName = NoName
  Calls = {t1, t2, t3}
  Keys = {amazon, ebay}
  Threshold = 2
  Cooldown = 1
  Window = 2
INVARIANTS
  OneTaskPerKey
  OpenMeansStreak
  NothingLeftBehind
PROPERTIES
  RunningTaskIsAnswered
  Recovers
  FanOutNotCounted
