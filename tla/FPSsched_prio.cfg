CONSTANTS
  NBqueue = 3
  NBtask = 2
  CntMod = 4
  NBkeep = 1
  Fps = {f1}
  Wild = wild
  Op = {"queueprio"}
  Key = {}
  Line = {"setqprio", "setqindex"}
  Prio <- PrioSigned
  Mode = {3}
  Env = {}
  MaxSub = 2
  MaxKeys = 0
SPECIFICATION Spec
INVARIANT PriorityOrder
INVARIANT PassComplete
INVARIANT FinishedBounded
CHECK_DEADLOCK FALSE
