SPECIFICATION Spec
CONSTANTS
  Sources = {d1, d2}
  Fee = 1
  Multiple = 2
  MinToken = 0
  ProbeLimit = 2
  Wanted = 3
  Sizes = {2}
  MaxCoin = 2
  MaxTokens = 1
  MaxFails = 1
INVARIANTS TypeOK OneMovement SweptHasLeft
PROPERTIES GasWaits BalanceIsPlanned
