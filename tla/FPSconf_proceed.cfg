CONSTANTS
  NBparam = 2
  Perm <- PermTwo
  OnOff = {1}
  Cmd = {"setval", "confwupdate", "confstart"}
  Racy = FALSE
  Env = {}
  RunParam = {}
  MaxCmd = 3
  MaxKeys = 1
SPECIFICATION Spec
PROPERTY ProceedOK
CHECK_DEADLOCK FALSE
