CONSTANTS
  NBparam = 1
  Perm <- PermOne
  OnOff = {1}
  Cmd = {"setval", "confupdate", "runstart", "confstart", "confstop"}
  Racy = TRUE
  Env = {}
  RunParam = {}
  MaxCmd = 3
  MaxKeys = 1
SPECIFICATION FairSpec
PROPERTY ChecksAnswered
PROPERTY LoopStops
CHECK_DEADLOCK FALSE
