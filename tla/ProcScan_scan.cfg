CONSTANTS
  Proc = {p1, p2}
  Mortal = {p1, p2}
  NoProc = NoProc
  NS = 2
  ND = 2
  Key = {"up", "down", "mark", "unmark", "kill", "remove", "removeall", "control", "limit", "sort", "freeze", "exit"}
  MaxKey = 2
SPECIFICATION FairSpec
INVARIANT TypeOK
INVARIANT Exclusion
INVARIANT Listed
INVARIANT MapFresh
INVARIANT SortedTrue
INVARIANT Closed
PROPERTY DeadMarked
PROPERTY ExitEnds
CHECK_DEADLOCK FALSE
