SPECIFICATION Spec
CONSTANTS
  w1 = w1  w2 = w2  s1 = s1  t1 = t1  p1 = p1
  Rows = {w1, w2}
  NoRow = NoRow
  Workers = {a1, a2}
  Mortal = {a1, a2}
  Operators = {}
  Purpose <- MCPurpose
  From <- MCFrom
  DependsOn <- MCDependsOn
  MaxRetirements = 2
  MaxForeign = 0
  MaxReorgs = 0
SYMMETRY Symmetry
INVARIANTS TypeOK OneInFlight WireIsCommitted NonceIsNotReused UnprovenRefundIsUnsigned AutomaticRefundNeverLands OneOutcome
PROPERTIES CountedUntilDecided
