SPECIFICATION OrdersSpec
CONSTANTS
  q1 = q1
  q2 = q2
  x1 = x1
  x2 = x2
  lamp = lamp
  rug = rug
  Unlisted = Unlisted
  NoRow = NoRow
  Placing <- TwoPlace
  Cancelling <- NoCall
  Procs <- OneProc
  BuyerOf <- TwoBuyers
  Skus <- MCSkus
  Initial <- MCInitial
  CurrencyOf <- OneCurrency
  Carts <- LampCarts
  MaxBusy = 2
  MaxDbFaults = 0
  MaxTimeouts = 0
  MaxRestarts = 0
INVARIANT PlacedIsStored
CHECK_DEADLOCK FALSE
