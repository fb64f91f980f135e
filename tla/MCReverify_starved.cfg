\* As many rows outgrow the full walk as a tier has places.
SPECIFICATION ReverifySpec
CONSTANTS
  PrRows = {1, 2, 3}
  OpenPeriod = 1
  ClosedPeriod = 2
  Hash <- MCHash
  TierCap = 2
  MaxOutgrown = 2
  MaxSetbacks = 1
PROPERTIES EveryRowComesUp
