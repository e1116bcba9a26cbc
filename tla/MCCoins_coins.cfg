SPECIFICATION Spec
CONSTANTS
  Outpoints = {1, 2}
  Values = {6, 11, 13}
  Target = 4
  Quotes = {1, 4}
  Median <- MCMedian
  Window = 2
  Floor = 1
  Ceiling <- MCCeiling
  Custody <- MCCustody
  MaxFee = 18
  Dust = 2
  Depth = 2
  Overhead = 1
  InSize = 2
  OutSize = 1
  MaxTip = 4
  MaxReorgs = 1
INVARIANTS PaysWhatWasLocked SpendsFinalCoins 
CHECK_DEADLOCK FALSE
