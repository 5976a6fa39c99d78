CONSTANTS
  NBqueue = 2
  NBtask = 2
  CntMod = 4
  NBkeep = 2
  Fps = {f1}
  Wild = wild
  Op = {"confupdate"}
  Key = {}
  Line = {"waitonconf"}
  Prio <- PrioInitial
  Mode = {2}
  Env = {}
  MaxSub = 1
  MaxKeys = 0
SPECIFICATION Spec
PROPERTY WaitOnConf
CHECK_DEADLOCK FALSE
