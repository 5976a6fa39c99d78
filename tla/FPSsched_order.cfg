CONSTANTS
  NBqueue = 2
  NBtask = 2
  CntMod = 8
  NBkeep = 1
  Fps = {f1}
  Wild = wild
  Op = {"runstart", "fpsrm", "unknown"}
  Key = {"runstart", "fpsrm"}
  Line = {"setqindex", "waitonrun"}
  Prio <- PrioInitial
  Mode = {3}
  Env = {"crash", "fastexit", "rewrite"}
  MaxSub = 3
  MaxKeys = 1
SPECIFICATION Spec
INVARIANT TypeOK
INVARIANT SequentialQueue
INVARIANT OrderInv
PROPERTY QueuesInOrder
PROPERTY QueueBlocked
PROPERTY WaitOnRunAlone
CHECK_DEADLOCK FALSE
