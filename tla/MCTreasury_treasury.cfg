CONSTANTS
  Legacy = {a1}
  Fresh = {b1}
  NoAddress = none
  Watchers = {watch}
  Sweepers = {sweep}
  Payers = {pay}
  Provisioners = {op}
  Early = {}
  MaxCoin = 1
  MaxFails = 1
  MaxHands = 2
SPECIFICATION FairSpec
INVARIANTS  OneOpening
PROPERTIES OpeningStays  Registers
