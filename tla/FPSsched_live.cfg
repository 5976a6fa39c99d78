CONSTANTS
  NBqueue = 2
  NBtask = 3
  CntMod = 4
  NBkeep = 3
  Fps = {f1}
  Wild = wild
  Op = {"runstart", "confupdate"}
  Key = {}
  Line = {"setqindex", "waitonrun", "waitonconf", "taskcntzero"}
  Prio <- PrioInitial
  Mode = {2}
  Env = {}
  MaxSub = 2
  MaxKeys = 2
SPECIFICATION FairSpec
PROPERTY TaskServed
CHECK_DEADLOCK FALSE
