CONSTANTS
  NBparam = 2
  Perm <- PermTwo
  OnOff = {1}
  Cmd = {"setval", "edit", "toggle", "update", "confupdate", "confwupdate", "runstart", "runstop", "confstart", "confstop"}
  Racy = FALSE
  Env = {"crash"}
  RunParam = {1}
  MaxCmd = 3
  MaxKeys = 1
SPECIFICATION FairSpec
INVARIANT TypeOK
INVARIANT CheckOKTrue
INVARIANT WriteStatusTrue
PROPERTY QuietAckFresh
PROPERTY RunProtects
CHECK_DEADLOCK FALSE
