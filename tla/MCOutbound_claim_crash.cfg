SPECIFICATION FairSpec
CONSTANTS
  w1 = w1  w2 = w2  s1 = s1  t1 = t1  p1 = p1
  Rows = {w1}
  NoRow = NoRow
  Workers = {a1, a2}
  Mortal = {a1}
  Operators = {}
  Purpose <- MCPurpose
  From <- MCFrom
  DependsOn <- MCDependsOn
  MaxRetirements = 2
  MaxForeign = 0
  MaxReorgs = 0
PROPERTIES CrashBeforeCommitIsRetried
