SPECIFICATION Spec
CONSTANTS
  t1 = t1
  t2 = t2
  t3 = t3
  Nothing = Nothing
  Calls <- ThreeCalls
  Threshold = 2
  Cooldown = 2
  MaxAccess = 2
  MaxFaults = 1
  MaxLapses = 1
  a1 = a1
  a2 = a2
  a3 = a3
  Callers <- ThreeAgents
  Intents = {"i1", "i2"}
  IntentOf <- TwoIntents
  Slots = 2
  Interval = 1
  MaxRetries = 1
  HasFallback = TRUE
  Limit = 2
  MaxCost = 1
  q1 = q1
  q2 = q2
  x1 = x1
  x2 = x2
  lamp = lamp
  rug = rug
  Unlisted = Unlisted
  NoRow = NoRow
  Placing <- TwoPlace
  Cancelling <- TwoCancel
  Procs <- OneProc
  BuyerOf <- TwoBuyers
  Skus <- MCSkus
  Initial <- MCInitial
  CurrencyOf <- TwoCurrencies
  Carts <- SoundCarts
  MaxBusy = 3
  MaxDbFaults = 1
  MaxTimeouts = 1
  MaxRestarts = 1
INVARIANTS
  StockCovers
  NumbersDense
  OpensOnlyWhenEarned
  InFlightCapped
  MainSpendBounded
PROPERTIES
  BookPromise
  SharedIsLocal
  EveryoneServed
