CONSTANTS
  LoopMax <- LoopMaxSmall
  MaxLoop = 2
  MaxCnt = 4
  Key = {"p", "c", "s", "e", "L", "M"}
  MaxKey = 3
  Signal = {"INT", "HUP", "PIPE", "TERM"}
SPECIFICATION FairSpec
INVARIANT TypeOK
INVARIANT PromptControl
INVARIANT PromptSignal
INVARIANT CountOK
PROPERTY ExitAnswered
PROPERTY SignalAnswered
CHECK_DEADLOCK FALSE
