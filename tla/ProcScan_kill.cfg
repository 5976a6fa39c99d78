CONSTANTS
  Proc = {p1, p2}
  Mortal = {p1, p2}
  NoProc = NoProc
  NS = 2
  ND = 2
  Key = {"up", "down", "mark", "unmark", "kill", "remove", "removeall", "control", "limit", "sort", "freeze", "exit"}
  MaxKey = 2
SPECIFICATION FairSpec
PROPERTY KillsListed
CHECK_DEADLOCK FALSE
