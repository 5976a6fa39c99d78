CONSTANTS
  p1 = p1
  p2 = p2
  v0 = v0
  v1 = v1
  v2 = v2
  v3 = v3
  v4 = v4
  Data <- Values
  Printed <- LosesDigits
  Scanned <- LosesEnd
  Param = {p1, p2}
  Entry <- EntryOrder
  Within <- WithinPrefix
  Saved = {p1}
  OnOff = {p2}
  RunParam = {p2}
  Value = {v1}
  Given = {p1}
  Argument = v2
  Default = v0
  None = None
  Empty = Empty
  NBparamMAX = 2
  Proc = {c1, c2}
  MaxGen = 2
  MaxRun = 2
  MaxSet = 1
SPECIFICATION Spec
INVARIANT TypeOK
INVARIANT OneSlot
INVARIANT Complete
INVARIANT ValueKept
CHECK_DEADLOCK FALSE

SYMMETRY ProcSymmetry
