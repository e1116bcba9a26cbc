SPECIFICATION AdaptersSpec
CONSTANTS
  Life = 3
  Depth = 3
  Rent = 2
  Fees = {1, 2}
  MaxFee = 2
  Amount = 3
  Openings = {1, 4, 7}
  Extra = 1
  MaxTip = 9
  Prices = {1, 3, 7}
  Bands <- MCBands
  TransferGas = 1
  TokenGas = 3
  Pays = 4
  Held = {9, 30}
  Income = 10
  MaxMoves = 2
  MaxDeploys = 1
INVARIANTS DeadNeverDelivers ConfirmedIsFinal SentIsPayable 
 
CHECK_DEADLOCK FALSE
