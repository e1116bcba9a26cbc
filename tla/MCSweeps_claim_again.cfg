SPECIFICATION Spec
CONSTANTS
  Sources = {d1}
  Fee = 1
  Multiple = 2
  MinToken = 0
  ProbeLimit = 1
  Wanted = 9
  Sizes = {2}
  MaxCoin = 4
  MaxTokens = 0
  MaxFails = 0
PROPERTIES MovedBalanceIsPlanned
