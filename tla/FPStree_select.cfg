CONSTANTS
  f1 = f1
  f2 = f2
  FpsName = {f1, f2}
  Keyword <- Keywords
  Line = {1}
  Mode = {1, 2}
  NBnode = 6
  MaxChild = 3
  MaxLevel = 3
  None = None
  MaxChange = 1
SPECIFICATION Spec
INVARIANT TypeOK
INVARIANT TreeTrue
INVARIANT ActsOnShown
INVARIANT CrashOnlyAfterRemoval
INVARIANT TaskTrue
CHECK_DEADLOCK FALSE
