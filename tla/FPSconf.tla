------------------------------ MODULE FPSconf ------------------------------
(***************************************************************************)
(* One function parameter structure (FPS) in shared memory and the         *)
(* processes that share it (function_parameters.c):                        *)
(*                                                                         *)
(*   ctrl  the fpsCTRL tool: executes commands and keys one after another  *)
(*   conf  the CONF process: watches the words status and signal of the    *)
(*         FPS and checks all the parameters when an update is requested   *)
(*   run   the RUN process, which may set values too                       *)
(*                                                                         *)
(* The words status, signal and the fpflag of each parameter are changed   *)
(* with |= and &= ~ by several processes, with neither lock nor atomic     *)
(* instruction: a load and a store.  With Racy they are two steps.         *)
(*                                                                         *)
(* The value of a parameter is only "good" (it passes CheckParameter) or   *)
(* not.  histVars are history, for the properties only.  fpsrm does here   *)
(* what runstop and then confstop do.                                      *)
(***************************************************************************)
EXTENDS Integers, FiniteSets

CONSTANTS
  NBparam,  \* number of parameters
  Perm,     \* the write permissions of each parameter
  OnOff,    \* the parameters that are ON or OFF
  Cmd,      \* the commands and keys that fpsCTRL is given
  Racy,     \* may a process change a word between a load and its store?
  RunParam, \* the parameters that the RUN process sets
  Env,      \* what may happen to CONF and RUN processes: "crash"
  MaxCmd,   \* bound on the number of commands
  MaxKeys   \* bound on the commands typed ahead in a tmux session

Param == 1 .. NBparam
Permission == {"WRITE", "WRITECONF", "WRITERUN"}

ASSUME ConfAssumption ==
  /\ NBparam \in Nat /\ NBparam >= 1
  /\ Perm \in [Param -> SUBSET Permission]
  /\ OnOff \subseteq Param
  /\ Cmd \subseteq {"setval", "edit", "toggle", "update", "confupdate", "confwupdate",
                     "runstart", "runstop", "confstart", "confstop"}
  /\ RunParam \subseteq Param /\ Racy \in BOOLEAN
  /\ MaxCmd \in Nat /\ MaxKeys \in Nat

VARIABLES
  status,      \* md->status
  signal,      \* md->signal
  fpflag,      \* bits ONOFF and WRITESTATUS of the flags of each parameter
  pend,        \* the store that each process still has to do
  good,        \* would the value of the parameter pass CheckParameter?
  conferrcnt,  \* md->conferrcnt
  gpc, arg,    \* where fpsCTRL is in a command; the parameter it works on
  ncmd,        \* number of commands given
  cpc,         \* where the CONF process is
  prev,        \* its prev_status
  update,      \* its updateFLAG
  pindex,      \* the parameter it checks next
  errcnt,      \* the errors it has counted
  rpc,         \* where the RUN process is
  confkeys,    \* commands typed ahead in the tmux sessions
  runkeys,
  unread,      \* parameters not read by a check since confwupdate's request
  quiet,       \* was no check going on at that request?
  read,        \* parameters with the value that the last check begun has read
  vouched,     \* parameters with the value that CHECKOK was computed from
  silent,      \* parameters that RUN set and no check has read since
  stopping     \* was the CONF process told to stop, and CONFRUN not put back since?

wordVars == <<status, signal, fpflag, pend>>
ctrlVars == <<gpc, arg, ncmd>>
confVars == <<cpc, prev, update, pindex, errcnt>>
runVars  == <<rpc, confkeys, runkeys>>
ackVars  == <<unread, quiet>>
readVars == <<read, vouched, silent>>
histVars == <<ackVars, readVars, stopping>>
vars     == <<wordVars, good, conferrcnt, ctrlVars, confVars, runVars, histVars>>

Process == {"ctrl", "conf", "run"}

NoStore == [word |-> "none"]

(* A new FPS: struct_create sets the CONFRUN signal. *)
Init ==
  /\ status = {} /\ signal = {"CONFRUN"} /\ fpflag = [p \in Param |-> {}]
  /\ pend = [x \in Process |-> NoStore]
  /\ good = [p \in Param |-> TRUE] /\ conferrcnt = 0
  /\ gpc = "idle" /\ arg = 1 /\ ncmd = 0
  /\ cpc = "off" /\ prev = {} /\ update = FALSE /\ pindex = 1 /\ errcnt = 0
  /\ rpc = "off" /\ confkeys = 0 /\ runkeys = 0
  /\ unread = {} /\ quiet = FALSE /\ stopping = FALSE
  /\ read = {} /\ vouched = {} /\ silent = {}

-----------------------------------------------------------------------------
(* Read-modify-write of the shared words.                                  *)

Leave(x, store) == pend' = IF Racy THEN [pend EXCEPT ![x] = store] ELSE pend

SetStatus(x, value) ==
  /\ status' = IF Racy THEN status ELSE value
  /\ Leave(x, [word |-> "status", value |-> value])
  /\ UNCHANGED <<signal, fpflag>>

SetSignal(x, value) ==
  /\ signal' = IF Racy THEN signal ELSE value
  /\ Leave(x, [word |-> "signal", value |-> value])
  /\ UNCHANGED <<status, fpflag>>

SetFlag(x, p, value) ==
  /\ fpflag' = IF Racy THEN fpflag ELSE [fpflag EXCEPT ![p] = value]
  /\ Leave(x, [word |-> "fpflag", param |-> p, value |-> value])
  /\ UNCHANGED <<status, signal>>

SetOnOff(x, p, on) ==
  SetFlag(x, p, IF on THEN fpflag[p] \cup {"ONOFF"} ELSE fpflag[p] \ {"ONOFF"})

Ready(x) == pend[x] = NoStore

Store(x) ==
  /\ ~Ready(x)
  /\ status' = IF pend[x].word = "status" THEN pend[x].value ELSE status
  /\ signal' = IF pend[x].word = "signal" THEN pend[x].value ELSE signal
  /\ fpflag' = IF pend[x].word = "fpflag"
               THEN [fpflag EXCEPT ![pend[x].param] = pend[x].value] ELSE fpflag
  /\ pend' = [pend EXCEPT ![x] = NoStore]
  /\ stopping' = (stopping /\ ~(x = "conf" /\ "CONFRUN" \in signal' \ signal))
  /\ UNCHANGED <<good, conferrcnt, ctrlVars, confVars, runVars, ackVars, readVars>>

(* A new value for parameter p: what was read of it is out of date. *)
SetValue(p, ok) ==
  /\ good' = [good EXCEPT ![p] = ok]
  /\ read' = read \ {p} /\ vouched' = vouched \ {p}

-----------------------------------------------------------------------------
(* fpsCTRL.  The last thing most commands do is to request an update.      *)

Ctrl(from, to) == Ready("ctrl") /\ gpc = from /\ gpc' = to /\ UNCHANGED ncmd

Command(c, to) ==
  Ready("ctrl") /\ gpc = "idle" /\ c \in Cmd /\ ncmd < MaxCmd /\ gpc' = to /\ ncmd' = ncmd + 1

RequestUpdate ==
  /\ Ctrl("update", "idle")
  /\ SetSignal("ctrl", signal \cup {"UPDATE"})
  /\ UNCHANGED <<good, conferrcnt, arg, confVars, runVars, histVars>>

(* key u *)
UpdateKey ==
  /\ Command("update", "idle")
  /\ SetSignal("ctrl", signal \cup {"UPDATE"})
  /\ UNCHANGED <<good, conferrcnt, arg, confVars, runVars, histVars>>

(* setval from the fifo: the value is set, then saved to disk. *)
SetVal(p, ok) ==
  /\ Command("setval", "update")
  /\ SetValue(p, ok) /\ silent' = silent \ {p}
  /\ UNCHANGED <<wordVars, conferrcnt, arg, confVars, runVars, ackVars, stopping>>

(* functionparameter_UserInputSetParamValue: the write status is tested,   *)
(* then the user types a new value, or escape.                             *)
EditOpen(p) ==
  /\ Command("edit", "edit")
  /\ "WRITESTATUS" \in fpflag[p]
  /\ arg' = p
  /\ UNCHANGED <<wordVars, good, conferrcnt, confVars, runVars, histVars>>

EditValue(ok) ==
  /\ Ctrl("edit", "update")
  /\ SetValue(arg, ok) /\ silent' = silent \ {arg} /\ arg' = 1
  /\ UNCHANGED <<wordVars, conferrcnt, confVars, runVars, ackVars, stopping>>

EditEscape ==
  /\ Ctrl("edit", "idle")
  /\ arg' = 1
  /\ UNCHANGED <<wordVars, good, conferrcnt, confVars, runVars, histVars>>

(* The space key toggles an ON/OFF parameter. *)
Toggle(p) ==
  /\ Command("toggle", "update")
  /\ p \in OnOff
  /\ "WRITESTATUS" \in fpflag[p]
  /\ SetOnOff("ctrl", p, "ONOFF" \notin fpflag[p])
  /\ UNCHANGED <<good, conferrcnt, arg, confVars, runVars, histVars>>

(* Mutated form of ConfUpdate: no update is requested. *)
ConfUpdate_NoUpdate ==
  /\ Command("confupdate", "idle")
  /\ SetSignal("ctrl", signal \cup {"CHECKED"})
  /\ UNCHANGED <<good, conferrcnt, arg, confVars, runVars, histVars>>

ConfUpdate ==
  /\ Command("confupdate", "update")
  /\ SetSignal("ctrl", signal \cup {"CHECKED"})
  /\ UNCHANGED <<good, conferrcnt, arg, confVars, runVars, histVars>>

(* The parts of a parameter check in which some value may have been read.  *)
Checking == cpc \in {"check", "count", "checkok", "write", "ack"}

(* confwupdate: request a check, wait until CHECKED is cleared or the time *)
(* is over, and do it again as long as there are errors and time is left.  *)
RequestCheck ==
  /\ SetSignal("ctrl", signal \cup {"CHECKED"})
  /\ unread' = Param /\ quiet' = ~Checking

ConfWUpdate ==
  /\ Command("confwupdate", "wupdate")
  /\ RequestCheck
  /\ UNCHANGED <<good, conferrcnt, arg, confVars, runVars, readVars, stopping>>

WUpdate ==
  /\ Ctrl("wupdate", "wait")
  /\ SetSignal("ctrl", signal \cup {"UPDATE"})
  /\ UNCHANGED <<good, conferrcnt, arg, confVars, runVars, histVars>>

Acknowledged ==
  /\ Ctrl("wait", "result")
  /\ "CHECKED" \notin signal
  /\ UNCHANGED <<wordVars, good, conferrcnt, arg, confVars, runVars, histVars>>

Proceed ==
  /\ Ctrl("result", "idle")
  /\ conferrcnt = 0
  /\ unread' = {} /\ quiet' = FALSE
  /\ UNCHANGED <<wordVars, good, conferrcnt, arg, confVars, runVars, readVars, stopping>>

Again ==
  /\ Ctrl("result", "wupdate")
  /\ conferrcnt # 0
  /\ RequestCheck
  /\ UNCHANGED <<good, conferrcnt, arg, confVars, runVars, readVars, stopping>>

GiveUp ==
  /\ Ctrl("wait", "idle")
  /\ unread' = {} /\ quiet' = FALSE
  /\ UNCHANGED <<wordVars, good, conferrcnt, arg, confVars, runVars, readVars, stopping>>

(* functionparameter_RUNstart *)
RunStart ==
  /\ Command("runstart", "typerun")
  /\ "CHECKOK" \in status
  /\ UNCHANGED <<wordVars, good, conferrcnt, arg, confVars, runVars, histVars>>

TypeRun ==
  /\ Ctrl("typerun", "cmdrun")
  /\ runkeys < MaxKeys
  /\ runkeys' = runkeys + 1
  /\ UNCHANGED <<wordVars, good, conferrcnt, arg, confVars, rpc, confkeys, histVars>>

CmdRun ==
  /\ Ctrl("cmdrun", "update")
  /\ SetStatus("ctrl", status \cup {"CMDRUN"})
  /\ UNCHANGED <<good, conferrcnt, arg, confVars, runVars, histVars>>

(* functionparameter_RUNstop.  A C-c typed over a process flushes the keys *)
(* typed ahead.                                                            *)
RunStop ==
  /\ Command("runstop", "runupdate")
  /\ SetStatus("ctrl", status \ {"CMDRUN"})
  /\ UNCHANGED <<good, conferrcnt, arg, confVars, runVars, histVars>>

RunUpdate ==
  /\ Ctrl("runupdate", "runintr")
  /\ SetSignal("ctrl", signal \cup {"UPDATE"})
  /\ UNCHANGED <<good, conferrcnt, arg, confVars, runVars, histVars>>

RunInterrupt ==
  /\ Ctrl("runintr", "idle")
  /\ runkeys' = IF rpc = "off" THEN runkeys ELSE 0
  /\ UNCHANGED <<wordVars, good, conferrcnt, arg, confVars, rpc, confkeys, histVars>>

(* functionparameter_CONFstart *)
ConfStart ==
  /\ Command("confstart", "cmdconf")
  /\ confkeys < MaxKeys
  /\ confkeys' = confkeys + 1
  /\ UNCHANGED <<wordVars, good, conferrcnt, arg, confVars, rpc, runkeys, histVars>>

CmdConf ==
  /\ Ctrl("cmdconf", "update")
  /\ SetStatus("ctrl", status \cup {"CMDCONF"})
  /\ UNCHANGED <<good, conferrcnt, arg, confVars, runVars, histVars>>

(* functionparameter_CONFstop.  The CONF loop ignores the C-c. *)
ConfStop ==
  /\ Command("confstop", "confintr")
  /\ SetSignal("ctrl", signal \ {"CONFRUN"})
  /\ stopping' = (cpc # "off")
  /\ UNCHANGED <<good, conferrcnt, arg, confVars, runVars, ackVars, readVars>>

ConfInterrupt ==
  /\ Ctrl("confintr", "clrconf")
  /\ confkeys' = IF cpc = "off" THEN confkeys ELSE 0
  /\ UNCHANGED <<wordVars, good, conferrcnt, arg, confVars, rpc, runkeys, histVars>>

ClearCmdConf ==
  /\ Ctrl("clrconf", "update")
  /\ SetStatus("ctrl", status \ {"CMDCONF"})
  /\ UNCHANGED <<good, conferrcnt, arg, confVars, runVars, histVars>>

CtrlCommand ==
  \/ UpdateKey \/ ConfUpdate \/ ConfWUpdate
  \/ RunStart \/ RunStop \/ ConfStart \/ ConfStop
  \/ \E p \in Param : EditOpen(p) \/ Toggle(p) \/ \E ok \in BOOLEAN : SetVal(p, ok)

CtrlStep ==
  \/ Store("ctrl") \/ RequestUpdate
  \/ WUpdate \/ Acknowledged \/ Proceed \/ Again \/ GiveUp
  \/ TypeRun \/ CmdRun \/ RunUpdate \/ RunInterrupt
  \/ CmdConf \/ ConfInterrupt \/ ClearCmdConf
  \/ EditEscape \/ \E ok \in BOOLEAN : EditValue(ok)

-----------------------------------------------------------------------------
(* The CONF process: FPS_CONFLOOP_START ... FPS_CONFLOOP_END.              *)

Conf(from, to) == Ready("conf") /\ cpc = from /\ cpc' = to

(* The shell of the tmux session, idle, starts the command typed ahead. *)
ConfSpawn ==
  /\ cpc = "off" /\ Ready("conf") /\ confkeys > 0
  /\ cpc' = "setup"
  /\ confkeys' = confkeys - 1
  /\ stopping' = FALSE
  /\ UNCHANGED <<wordVars, good, conferrcnt, ctrlVars, prev, update, pindex, errcnt, rpc,
                 runkeys, ackVars, readVars>>

(* FPCONFsetup connects to the FPS, and to its streams if it can. *)
ConfSetup ==
  /\ Conf("setup", "first")
  /\ UNCHANGED <<wordVars, good, conferrcnt, ctrlVars, prev, update, pindex, errcnt, runVars, histVars>>

(* The first FPCONFloopstep. *)
LoopFirst ==
  /\ Conf("first", "confrun")
  /\ SetSignal("conf", signal \cup {"UPDATE"})
  /\ UNCHANGED <<good, conferrcnt, ctrlVars, prev, update, pindex, errcnt, runVars, histVars>>

(* It undoes a stop of a process that is not in its loop yet. *)
SetConfrun ==
  /\ Conf("confrun", "loop")
  /\ SetSignal("conf", signal \cup {"CONFRUN"})
  /\ stopping' = (stopping /\ "CONFRUN" \notin signal' \ signal)
  /\ UNCHANGED <<good, conferrcnt, ctrlVars, prev, update, pindex, errcnt, runVars, ackVars,
                 readVars>>

(* Mutated form of LoopStep: CONFRUN is not tested. *)
LoopStep_NoTest ==
  /\ Conf("loop", "runbit")
  /\ SetStatus("conf", status \cup {"CONF"})
  /\ UNCHANGED <<good, conferrcnt, ctrlVars, prev, update, pindex, errcnt, runVars, histVars>>

(* Every FPCONFloopstep.  The process that is here is the one of confpid,  *)
(* so that it finds that CONF is running.                                  *)
LoopStep ==
  /\ Conf("loop", "runbit")
  /\ "CONFRUN" \in signal
  /\ SetStatus("conf", status \cup {"CONF"})
  /\ UNCHANGED <<good, conferrcnt, ctrlVars, prev, update, pindex, errcnt, runVars, histVars>>

LoopEnd ==
  /\ Conf("loop", "exit")
  /\ "CONFRUN" \notin signal
  /\ UNCHANGED <<wordVars, good, conferrcnt, ctrlVars, prev, update, pindex, errcnt, runVars, histVars>>

RunBit ==
  /\ Conf("runbit", "compare")
  /\ SetStatus("conf", IF rpc # "off" THEN status \cup {"RUN"} ELSE status \ {"RUN"})
  /\ UNCHANGED <<good, conferrcnt, ctrlVars, prev, update, pindex, errcnt, runVars, histVars>>

(* Mutated form of Compare: a change of status requests nothing. *)
Compare_NoRequest ==
  /\ Conf("compare", "test")
  /\ UNCHANGED wordVars
  /\ UNCHANGED <<good, conferrcnt, ctrlVars, prev, update, pindex, errcnt, runVars, histVars>>

(* A change of status since the last loop step requests an update. *)
Compare ==
  /\ Conf("compare", "test")
  /\ \/ prev # status /\ SetSignal("conf", signal \cup {"UPDATE"})
     \/ prev = status /\ UNCHANGED wordVars
  /\ UNCHANGED <<good, conferrcnt, ctrlVars, prev, update, pindex, errcnt, runVars, histVars>>

TestUpdate ==
  /\ Ready("conf") /\ cpc = "test"
  /\ \/ "UPDATE" \in signal /\ update' = TRUE /\ cpc' = "clear"
     \/ "UPDATE" \notin signal /\ update' = FALSE /\ cpc' = "sleep"
  /\ UNCHANGED <<wordVars, good, conferrcnt, ctrlVars, prev, pindex, errcnt, runVars, histVars>>

ClearUpdate ==
  /\ Conf("clear", "sleep")
  /\ SetSignal("conf", signal \ {"UPDATE"})
  /\ UNCHANGED <<good, conferrcnt, ctrlVars, prev, update, pindex, errcnt, runVars, histVars>>

(* After confwaitus, the status is kept for the next comparison. *)
Sleep ==
  /\ Conf("sleep", IF update THEN "begin" ELSE "loop")
  /\ prev' = status
  /\ UNCHANGED <<wordVars, good, conferrcnt, ctrlVars, update, pindex, errcnt, runVars, histVars>>

(* Mutated form of CheckBegin: the request is acknowledged first. *)
CheckBegin_AckFirst ==
  /\ Conf("begin", "check")
  /\ SetSignal("conf", signal \ {"CHECKED"})
  /\ conferrcnt' = 0 /\ errcnt' = 0 /\ pindex' = 1
  /\ read' = {}
  /\ UNCHANGED <<good, ctrlVars, prev, update, runVars, ackVars, vouched, silent, stopping>>

(* functionparameter_CheckParametersAll *)
CheckBegin ==
  /\ Conf("begin", "check")
  /\ conferrcnt' = 0 /\ errcnt' = 0 /\ pindex' = 1
  /\ read' = {}
  /\ UNCHANGED <<wordVars, good, ctrlVars, prev, update, runVars, ackVars, vouched, silent,
                 stopping>>

(* Mutated form of CheckParameter: the loop goes one too far. *)
CheckParameter_OneMore ==
  /\ Conf("check", IF pindex = NBparam THEN "count" ELSE "check")
  /\ LET err == IF good[pindex] THEN 0 ELSE 1
     IN  conferrcnt' = conferrcnt + err /\ errcnt' = errcnt + err
  /\ pindex' = pindex + 1
  /\ unread' = unread \ {pindex}
  /\ read' = read \cup {pindex} /\ silent' = silent \ {pindex}
  /\ UNCHANGED <<wordVars, good, ctrlVars, prev, update, runVars, quiet, vouched, stopping>>

(* functionparameter_CheckParameter for the next parameter. *)
CheckParameter ==
  /\ Conf("check", IF pindex = NBparam THEN "count" ELSE "check")
  /\ LET err == IF good[pindex] THEN 0 ELSE 1
     IN  conferrcnt' = conferrcnt + err /\ errcnt' = errcnt + err
  /\ pindex' = IF pindex = NBparam THEN 1 ELSE pindex + 1
  /\ unread' = unread \ {pindex}
  /\ read' = read \cup {pindex} /\ silent' = silent \ {pindex}
  /\ UNCHANGED <<wordVars, good, ctrlVars, prev, update, runVars, quiet, vouched, stopping>>

CountErrors ==
  /\ Conf("count", "checkok")
  /\ conferrcnt' = errcnt
  /\ UNCHANGED <<wordVars, good, ctrlVars, prev, update, pindex, errcnt, runVars, histVars>>

SetCheckOK ==
  /\ Conf("checkok", "write")
  /\ SetStatus("conf", IF errcnt = 0 THEN status \cup {"CHECKOK"} ELSE status \ {"CHECKOK"})
  /\ errcnt' = 0
  /\ vouched' = read /\ read' = {}
  /\ UNCHANGED <<good, conferrcnt, ctrlVars, prev, update, pindex, runVars, ackVars, silent,
                 stopping>>

(* The permission that the status st gives to write parameter p. *)
WriteOK(p, st) ==
  IF "RUN" \in st THEN "WRITERUN" \in Perm[p]
  ELSE IF "CONF" \in st THEN "WRITECONF" \in Perm[p]
  ELSE "WRITE" \in Perm[p]

(* The write status of the next parameter. *)
WriteStatus ==
  /\ Conf("write", IF pindex = NBparam THEN "ack" ELSE "write")
  /\ SetFlag("conf", pindex, IF WriteOK(pindex, status)
                             THEN fpflag[pindex] \cup {"WRITESTATUS"}
                             ELSE fpflag[pindex] \ {"WRITESTATUS"})
  /\ pindex' = IF pindex = NBparam THEN 1 ELSE pindex + 1
  /\ UNCHANGED <<good, conferrcnt, ctrlVars, prev, update, errcnt, runVars, histVars>>

(* Mutated form of Acknowledge: requests made since are cleared too. *)
Acknowledge_ClearsUpdate ==
  /\ Conf("ack", "loop")
  /\ SetSignal("conf", signal \ {"CHECKED", "UPDATE"})
  /\ UNCHANGED <<good, conferrcnt, ctrlVars, prev, update, pindex, errcnt, runVars, histVars>>

Acknowledge ==
  /\ Conf("ack", "loop")
  /\ SetSignal("conf", signal \ {"CHECKED"})
  /\ UNCHANGED <<good, conferrcnt, ctrlVars, prev, update, pindex, errcnt, runVars, histVars>>

(* The variables of the process are gone with it. *)
ConfOver == prev' = {} /\ update' = FALSE /\ pindex' = 1 /\ errcnt' = 0 /\ read' = {}

(* function_parameter_FPCONFexit *)
ConfExit ==
  /\ Conf("exit", "off")
  /\ SetStatus("conf", status \ {"CMDCONF"})
  /\ ConfOver
  /\ UNCHANGED <<good, conferrcnt, ctrlVars, runVars, ackVars, vouched, silent, stopping>>

(* The process is killed: a store it has not done is lost. *)
ConfCrash ==
  /\ "crash" \in Env /\ cpc # "off"
  /\ cpc' = "off" /\ pend' = [pend EXCEPT !["conf"] = NoStore]
  /\ ConfOver
  /\ UNCHANGED <<status, signal, fpflag, good, conferrcnt, ctrlVars, runVars, ackVars, vouched,
                 silent, stopping>>

ConfStep ==
  \/ Store("conf") \/ ConfSpawn \/ ConfSetup \/ LoopFirst \/ SetConfrun
  \/ LoopStep \/ LoopEnd \/ RunBit \/ Compare \/ TestUpdate \/ ClearUpdate \/ Sleep
  \/ CheckBegin \/ CheckParameter \/ CountErrors \/ SetCheckOK \/ WriteStatus
  \/ Acknowledge \/ ConfExit

-----------------------------------------------------------------------------
(* The RUN process: it connects (runpid), sets values while it runs and    *)
(* later calls RUNexit.                                                    *)

RunSpawn ==
  /\ rpc = "off" /\ Ready("run") /\ runkeys > 0
  /\ rpc' = "on"
  /\ runkeys' = runkeys - 1
  /\ UNCHANGED <<wordVars, good, conferrcnt, ctrlVars, confVars, confkeys, histVars>>

(* functionparameter_SetParamValue_*: no update is requested. *)
RunSet(p, ok) ==
  /\ rpc = "on" /\ Ready("run")
  /\ SetValue(p, ok) /\ silent' = silent \cup {p}
  /\ UNCHANGED <<wordVars, conferrcnt, ctrlVars, confVars, runVars, ackVars, stopping>>

(* functionparameter_SetParamValue_ONOFF *)
RunOnOff(p, on) ==
  /\ p \in OnOff /\ rpc = "on" /\ Ready("run")
  /\ SetOnOff("run", p, on)
  /\ UNCHANGED <<good, conferrcnt, ctrlVars, confVars, runVars, histVars>>

RunExit ==
  /\ rpc = "on" /\ Ready("run")
  /\ rpc' = "exit"
  /\ SetStatus("run", status \ {"CMDRUN"})
  /\ UNCHANGED <<good, conferrcnt, ctrlVars, confVars, confkeys, runkeys, histVars>>

RunGone ==
  /\ rpc = "exit" /\ Ready("run")
  /\ rpc' = "off"
  /\ UNCHANGED <<wordVars, good, conferrcnt, ctrlVars, confVars, confkeys, runkeys, histVars>>

RunCrash ==
  /\ "crash" \in Env /\ rpc # "off"
  /\ rpc' = "off" /\ pend' = [pend EXCEPT !["run"] = NoStore]
  /\ UNCHANGED <<status, signal, fpflag, good, conferrcnt, ctrlVars, confVars, confkeys,
                 runkeys, histVars>>

RunStep ==
  \/ Store("run") \/ RunSpawn \/ RunExit \/ RunGone
  \/ \E p \in RunParam, b \in BOOLEAN : RunSet(p, b) \/ RunOnOff(p, b)

Next == CtrlCommand \/ CtrlStep \/ ConfStep \/ ConfCrash \/ RunStep \/ RunCrash

Spec == Init /\ [][Next]_vars

(* Processes that have something to do go on: the CONF loop sleeps 50 us   *)
(* and confwaitus, confwupdate gives up after 1 s, the user ends an edit.  *)
(* A RUN process may run for ever.                                         *)
Fairness ==
  /\ WF_vars(CtrlStep) /\ WF_vars(ConfStep)
  /\ WF_vars(Store("run") \/ RunSpawn \/ RunGone)

FairSpec == Spec /\ Fairness

-----------------------------------------------------------------------------
(* Properties.                                                             *)

StatusBit == {"CONF", "RUN", "CMDCONF", "CMDRUN", "CHECKOK"}
SignalBit == {"CONFRUN", "UPDATE", "CHECKED"}
FlagBit == {"ONOFF", "WRITESTATUS"}

StoreType ==
  {NoStore}
    \cup [word : {"status"}, value : SUBSET StatusBit]
    \cup [word : {"signal"}, value : SUBSET SignalBit]
    \cup [word : {"fpflag"}, param : Param, value : SUBSET FlagBit]

WordType ==
  /\ status \in SUBSET StatusBit /\ signal \in SUBSET SignalBit
  /\ fpflag \in [Param -> SUBSET FlagBit]
  /\ pend \in [Process -> StoreType] /\ (~Racy => pend = [x \in Process |-> NoStore])

CtrlType ==
  /\ gpc \in {"idle", "update", "edit", "wupdate", "wait", "result", "typerun", "cmdrun",
              "runupdate", "runintr", "cmdconf", "confintr", "clrconf"}
  /\ arg \in Param /\ ncmd \in 0 .. MaxCmd

ConfType ==
  /\ cpc \in {"off", "setup", "first", "confrun", "loop", "runbit", "compare", "test", "clear",
              "sleep", "begin", "check", "count", "checkok", "write", "ack", "exit"}
  /\ prev \in SUBSET StatusBit /\ update \in BOOLEAN /\ pindex \in Param /\ errcnt \in Nat

RunType ==
  rpc \in {"off", "on", "exit"} /\ confkeys \in 0 .. MaxKeys /\ runkeys \in 0 .. MaxKeys

DataType ==
  /\ good \in [Param -> BOOLEAN] /\ conferrcnt \in Nat
  /\ unread \in SUBSET Param /\ quiet \in BOOLEAN /\ stopping \in BOOLEAN
  /\ read \in SUBSET Param /\ vouched \in SUBSET Param /\ silent \in SUBSET Param

(* The variables have their types (FUNCTION_PARAMETER_STRUCT_MD), and a    *)
(* parameter check stays within the parameters.                            *)
TypeOK == WordType /\ CtrlType /\ ConfType /\ RunType /\ DataType

AllGood == \A p \in Param : good[p]

(* No update is requested, nor is one about to be requested for a value    *)
(* that fpsCTRL has just set.                                              *)
Stored == \A x \in Process : Ready(x)

NoUpdate == Stored /\ "UPDATE" \notin signal /\ gpc # "update"

(* CHECKOK: are parameter values OK to run (function_parameters.h:369)?    *)
(* At any time it says so of the values it was computed from, of those     *)
(* that nobody has changed since.  When the CONF loop comes round and no   *)
(* update is requested, these are all values but the ones that RUN set     *)
(* after their check (it requests no update), whatever was set during      *)
(* earlier checks; and CHECKOK is off only if a value is bad or was set by *)
(* RUN since.                                                              *)
Vouches == "CHECKOK" \in status => \A p \in vouched : good[p]

Doubt == \E p \in Param : ~good[p] \/ p \in silent

CheckOKTrue ==
  /\ Vouches
  /\ cpc = "loop" /\ NoUpdate =>
       /\ vouched = Param \ silent
       /\ "CHECKOK" \notin status => Doubt

(* FPFLAG_WRITESTATUS is the current write status computed from the other  *)
(* flags (function_parameters.h:104): when the CONF loop comes round and   *)
(* no update is requested, it is the permission that the status gives.     *)
WriteStatusTrue ==
  cpc = "loop" /\ "UPDATE" \notin signal =>
    \A p \in Param : "WRITESTATUS" \in fpflag[p] <=> WriteOK(p, status)

(* Why: what a check has read so far, of the values that the parameters    *)
(* have now.                                                               *)
CheckInv ==
  /\ Vouches /\ silent \cap read = {} /\ silent \cap vouched = {}
  /\ cpc \in {"check", "count", "checkok"} /\ errcnt = 0 => \A p \in read : good[p]
  /\ cpc = "confrun" => "UPDATE" \in signal
  /\ cpc = "clear" => update
  /\ NoUpdate =>
       /\ cpc = "check" =>
            /\ \A p \in Param : p < pindex => p \in read \cup silent
            /\ errcnt # 0 => \E p \in Param : p < pindex /\ (~good[p] \/ p \in silent)
       /\ cpc \in {"count", "checkok"} =>
            Param \subseteq read \cup silent /\ (errcnt # 0 => Doubt)
       /\ cpc \in {"write", "ack", "loop", "runbit", "compare", "test"}
            \/ (cpc = "sleep" /\ ~update)
            => Param \subseteq vouched \cup silent /\ ("CHECKOK" \notin status => Doubt)

Same(st1, st2, bits) == \A b \in bits : b \in st1 <=> b \in st2

WriteInv ==
  /\ cpc = "confrun" => "UPDATE" \in signal
  /\ cpc = "clear" => update
  /\ cpc \in {"begin", "check", "count", "checkok", "write", "ack", "loop", "runbit", "compare"}
       /\ "UPDATE" \notin signal
       => Same(prev, status, IF cpc = "runbit" THEN {"RUN"}
                             ELSE IF cpc = "compare" THEN {} ELSE {"CONF", "RUN"})
  /\ cpc \in {"count", "checkok"} => pindex = 1
  /\ cpc = "write" =>
       \A p \in Param : p < pindex => ("WRITESTATUS" \in fpflag[p] <=> WriteOK(p, status))
  /\ "UPDATE" \notin signal
       /\ (cpc \in {"ack", "loop", "test"} \/ (cpc = "sleep" /\ ~update))
       => \A p \in Param : "WRITESTATUS" \in fpflag[p] <=> WriteOK(p, status)
  /\ "UPDATE" \notin signal /\ cpc \in {"runbit", "compare"}
       => \A p \in Param : "WRITESTATUS" \in fpflag[p] <=> WriteOK(p, prev)

Looping == cpc \notin {"off", "setup", "first", "confrun"}

(* A check that was requested while the CONF loop runs is made, and the    *)
(* request acknowledged, unless the loop ends (function_parameters.h:378). *)
ChecksAnswered ==
  "CHECKED" \in signal /\ Looping ~> "CHECKED" \notin signal \/ ~Looping

(* A parameter that may not be changed at run time becomes protected once  *)
(* RUN runs, if CONF and RUN go on running (function_parameters.h:103).    *)
RunProtects ==
  \A p \in Param : "WRITERUN" \notin Perm[p] =>
    (rpc = "on" /\ Looping ~> "WRITESTATUS" \notin fpflag[p] \/ rpc # "on" \/ ~Looping)

(* A CONF process that is told to stop ends, wherever it is and also if    *)
(* read-modify-writes overlap, unless it puts CONFRUN back itself: in its  *)
(* first loop step (2138), or with an older word when it clears UPDATE     *)
(* (2183), requests an update (2134, 2174) or acknowledges a check (3021). *)
LoopStops == stopping ~> cpc = "off" \/ ~stopping

(* confwupdate waits for completion to proceed (function_parameters.c:4205) *)
(* if no check was going on when it made its request: every value has been  *)
(* read by a check since then.                                              *)
QuietAckFresh == [][gpc = "wait" /\ gpc' = "result" /\ quiet => unread = {}]_vars

(* "no error ! we can proceed" (function_parameters.c:4654): confwupdate   *)
(* proceeds after a check that has read every value only if all are good.  *)
ProceedOK == [][gpc = "result" /\ gpc' = "idle" /\ unread = {} => AllGood]_vars

=============================================================================
