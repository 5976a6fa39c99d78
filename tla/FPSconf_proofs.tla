--------------------------- MODULE FPSconf_proofs ---------------------------
(***************************************************************************)
(* Proofs about FPSconf, for any number of parameters and commands and any *)
(* write permissions: its type invariant, and, if read-modify-writes of    *)
(* the shared words do not overlap, what CHECKOK and WRITESTATUS say and   *)
(* that an acknowledged check has read what it was requested for.          *)
(***************************************************************************)
EXTENDS FPSconf, TLAPS

(* A store that was left for later keeps the types of the words. *)
LEMMA StoreWord ==
  ASSUME WordType, NEW x \in Process, Store(x)
  PROVE  WordType'
<1>1. pend[x] \in StoreType /\ pend[x] # NoStore
  BY DEF WordType, Store, Ready
<1>2. /\ pend[x].word = "status" => pend[x].value \in SUBSET StatusBit
      /\ pend[x].word = "signal" => pend[x].value \in SUBSET SignalBit
      /\ pend[x].word = "fpflag" => pend[x].param \in Param /\ pend[x].value \in SUBSET FlagBit
  BY <1>1 DEF StoreType, NoStore
<1>3. NoStore \in StoreType
  BY DEF StoreType
<1> QED
  BY <1>2, <1>3 DEF WordType, Store, Ready

(* Every step keeps the types of the words. *)
LEMMA WordNext ==
  ASSUME TypeOK, Next
  PROVE  WordType'
<1>1. /\ \A b \in StatusBit : status \cup {b} \in SUBSET StatusBit /\ status \ {b} \in SUBSET StatusBit
      /\ \A b \in SignalBit : signal \cup {b} \in SUBSET SignalBit /\ signal \ {b} \in SUBSET SignalBit
      /\ \A p \in Param, b \in FlagBit :
           fpflag[p] \cup {b} \in SUBSET FlagBit /\ fpflag[p] \ {b} \in SUBSET FlagBit
  BY DEF TypeOK, WordType
<1>2. WordType
  BY DEF TypeOK
<1>3. /\ "CONF" \in StatusBit /\ "RUN" \in StatusBit /\ "CMDCONF" \in StatusBit
      /\ "CMDRUN" \in StatusBit /\ "CHECKOK" \in StatusBit
      /\ "CONFRUN" \in SignalBit /\ "UPDATE" \in SignalBit /\ "CHECKED" \in SignalBit
      /\ "ONOFF" \in FlagBit /\ "WRITESTATUS" \in FlagBit
      /\ "ctrl" \in Process /\ "conf" \in Process /\ "run" \in Process
  BY DEF StatusBit, SignalBit, FlagBit, Process
<1>4. /\ NoStore \in StoreType
      /\ \A v \in SUBSET StatusBit : [word |-> "status", value |-> v] \in StoreType
      /\ \A v \in SUBSET SignalBit : [word |-> "signal", value |-> v] \in StoreType
      /\ \A p \in Param, v \in SUBSET FlagBit :
           [word |-> "fpflag", param |-> p, value |-> v] \in StoreType
  BY DEF StoreType
<1>5. CASE Store("ctrl") \/ Store("conf") \/ Store("run")
  BY <1>5, <1>2, <1>3, StoreWord
<1>6. CASE RequestUpdate
  BY <1>6, <1>1, <1>2, <1>3, <1>4 DEF WordType, SetSignal, Leave, RequestUpdate
<1>7. CASE UpdateKey
  BY <1>7, <1>1, <1>2, <1>3, <1>4 DEF WordType, SetSignal, Leave, UpdateKey
<1>8. CASE ConfUpdate
  BY <1>8, <1>1, <1>2, <1>3, <1>4 DEF WordType, SetSignal, Leave, ConfUpdate
<1>9. CASE ConfWUpdate
  BY <1>9, <1>1, <1>2, <1>3, <1>4 DEF WordType, SetSignal, Leave, ConfWUpdate, RequestCheck
<1>10. CASE WUpdate
  BY <1>10, <1>1, <1>2, <1>3, <1>4 DEF WordType, SetSignal, Leave, WUpdate
<1>11. CASE Again
  BY <1>11, <1>1, <1>2, <1>3, <1>4 DEF WordType, SetSignal, Leave, Again, RequestCheck
<1>12. CASE RunUpdate
  BY <1>12, <1>1, <1>2, <1>3, <1>4 DEF WordType, SetSignal, Leave, RunUpdate
<1>13. CASE ConfStop
  BY <1>13, <1>1, <1>2, <1>3, <1>4 DEF WordType, SetSignal, Leave, ConfStop
<1>14. CASE LoopFirst
  BY <1>14, <1>1, <1>2, <1>3, <1>4 DEF WordType, SetSignal, Leave, LoopFirst
<1>15. CASE SetConfrun
  BY <1>15, <1>1, <1>2, <1>3, <1>4 DEF WordType, SetSignal, Leave, SetConfrun
<1>16. CASE ClearUpdate
  BY <1>16, <1>1, <1>2, <1>3, <1>4 DEF WordType, SetSignal, Leave, ClearUpdate
<1>17. CASE Acknowledge
  BY <1>17, <1>1, <1>2, <1>3, <1>4 DEF WordType, SetSignal, Leave, Acknowledge
<1>18. CASE CmdRun
  BY <1>18, <1>1, <1>2, <1>3, <1>4 DEF WordType, SetStatus, Leave, CmdRun
<1>19. CASE RunStop
  BY <1>19, <1>1, <1>2, <1>3, <1>4 DEF WordType, SetStatus, Leave, RunStop
<1>20. CASE CmdConf
  BY <1>20, <1>1, <1>2, <1>3, <1>4 DEF WordType, SetStatus, Leave, CmdConf
<1>21. CASE ClearCmdConf
  BY <1>21, <1>1, <1>2, <1>3, <1>4 DEF WordType, SetStatus, Leave, ClearCmdConf
<1>22. CASE LoopStep
  BY <1>22, <1>1, <1>2, <1>3, <1>4 DEF WordType, SetStatus, Leave, LoopStep
<1>23. CASE RunBit
  BY <1>23, <1>1, <1>2, <1>3, <1>4 DEF WordType, SetStatus, Leave, RunBit
<1>24. CASE SetCheckOK
  BY <1>24, <1>1, <1>2, <1>3, <1>4 DEF WordType, SetStatus, Leave, SetCheckOK
<1>25. CASE ConfExit
  BY <1>25, <1>1, <1>2, <1>3, <1>4 DEF WordType, SetStatus, Leave, ConfExit
<1>26. CASE RunExit
  BY <1>26, <1>1, <1>2, <1>3, <1>4 DEF WordType, SetStatus, Leave, RunExit
<1>27. CASE Compare
  BY <1>27, <1>1, <1>2, <1>3, <1>4 DEF WordType, SetSignal, Leave, wordVars, Compare
<1>28. CASE WriteStatus
  BY <1>28, <1>1, <1>2, <1>3, <1>4 DEF WordType, SetFlag, Leave, WriteStatus, TypeOK, ConfType
<1>29. CASE \/ Acknowledged \/ Proceed \/ GiveUp \/ RunStart \/ TypeRun \/ RunInterrupt
             \/ ConfStart \/ ConfInterrupt \/ EditEscape \/ ConfSpawn \/ ConfSetup \/ LoopEnd
             \/ TestUpdate \/ Sleep \/ CheckBegin \/ CheckParameter \/ CountErrors \/ RunSpawn \/ RunGone
  BY <1>29, <1>2 DEF WordType, wordVars, Acknowledged, Proceed, GiveUp, RunStart, TypeRun, RunInterrupt, ConfStart, ConfInterrupt, EditEscape, ConfSpawn, ConfSetup, LoopEnd, TestUpdate, Sleep, CheckBegin, CheckParameter, CountErrors, RunSpawn, RunGone
<1>30. CASE \E p \in Param : EditOpen(p) \/ Toggle(p) \/ \E ok \in BOOLEAN : SetVal(p, ok)
  <2> PICK p \in Param : EditOpen(p) \/ Toggle(p) \/ \E ok \in BOOLEAN : SetVal(p, ok)
    BY <1>30
  <2>1. CASE EditOpen(p) \/ \E ok \in BOOLEAN : SetVal(p, ok)
    BY <2>1, <1>2 DEF WordType, wordVars, EditOpen, SetVal
  <2>2. CASE Toggle(p)
    BY <2>2, <1>1, <1>2, <1>3, <1>4 DEF WordType, SetOnOff, SetFlag, Leave, Toggle
  <2> QED
    BY <2>1, <2>2
<1>31. CASE \E ok \in BOOLEAN : EditValue(ok)
  BY <1>31, <1>2 DEF WordType, wordVars, EditValue
<1>32. CASE ConfCrash \/ RunCrash
  BY <1>32, <1>2, <1>3, <1>4 DEF WordType, ConfCrash, RunCrash
<1>33. CASE \E p \in RunParam, b \in BOOLEAN : RunSet(p, b) \/ RunOnOff(p, b)
  <2> PICK p \in RunParam, b \in BOOLEAN : RunSet(p, b) \/ RunOnOff(p, b)
    BY <1>33
  <2>1. p \in Param
    BY ConfAssumption DEF ConfAssumption
  <2>2. CASE RunSet(p, b)
    BY <2>2, <1>2 DEF WordType, wordVars, RunSet
  <2>3. CASE RunOnOff(p, b)
    BY <2>1, <2>3, <1>1, <1>2, <1>3, <1>4 DEF WordType, SetOnOff, SetFlag, Leave, RunOnOff
  <2> QED
    BY <2>2, <2>3
<1> QED
  BY <1>5, <1>6, <1>7, <1>8, <1>9, <1>10, <1>11, <1>12, <1>13, <1>14, <1>15, <1>16, <1>17, <1>18, <1>19, <1>20, <1>21, <1>22, <1>23, <1>24, <1>25, <1>26, <1>27, <1>28, <1>29, <1>30, <1>31, <1>32, <1>33 DEF Next, CtrlCommand, CtrlStep, ConfStep, RunStep

(* There is a first parameter, and the bounds are numbers. *)
LEMMA Bounds ==
  /\ 1 \in Param /\ NBparam \in Nat
  /\ 0 \in 0 .. MaxCmd /\ MaxCmd \in Nat /\ 0 \in 0 .. MaxKeys /\ MaxKeys \in Nat
BY ConfAssumption DEF ConfAssumption, Param

(* Every step keeps the types of the other variables. *)
LEMMA OtherNext ==
  ASSUME TypeOK, Next
  PROVE  CtrlType' /\ ConfType' /\ RunType' /\ DataType'
<1> USE Bounds DEF TypeOK, CtrlType, ConfType, RunType, DataType
<1>1. CASE CtrlCommand
  <2>1. CASE UpdateKey \/ ConfUpdate \/ ConfWUpdate \/ RunStart \/ RunStop
    <3>1. CASE ConfWUpdate
      <4>1. quiet' \in BOOLEAN
        BY <3>1 DEF ConfWUpdate, RequestCheck, Checking
      <4> QED
        BY <3>1, <4>1 DEF Command, RequestCheck, ConfWUpdate, confVars, runVars, readVars
    <3>2. CASE UpdateKey \/ ConfUpdate \/ RunStart \/ RunStop
      BY <3>2 DEF Command, confVars, runVars, histVars, ackVars, readVars, UpdateKey, ConfUpdate,
         RunStart, RunStop
    <3> QED
      BY <2>1, <3>1, <3>2
  <2>2. CASE ConfStart \/ ConfStop
    <3>1. CASE ConfStart
      <4>1. RunType'
        BY <3>1 DEF ConfStart
      <4> QED
        BY <3>1, <4>1 DEF Command, confVars, ConfStart, histVars, ackVars, readVars
    <3>2. CASE ConfStop
      <4>1. stopping' \in BOOLEAN
        BY <3>2 DEF ConfStop
      <4> QED
        BY <3>2, <4>1 DEF Command, confVars, runVars, ackVars, readVars, ConfStop
    <3> QED
      BY <2>2, <3>1, <3>2
  <2>3. CASE \E p \in Param : EditOpen(p) \/ Toggle(p) \/ \E ok \in BOOLEAN : SetVal(p, ok)
    <3> PICK p \in Param : EditOpen(p) \/ Toggle(p) \/ \E ok \in BOOLEAN : SetVal(p, ok)
      BY <2>3
    <3>1. CASE EditOpen(p)
      BY <3>1 DEF EditOpen, Command, confVars, runVars, histVars, ackVars, readVars
    <3>2. CASE Toggle(p)
      BY <3>2 DEF Toggle, Command, confVars, runVars, histVars, ackVars, readVars
    <3>3. CASE \E ok \in BOOLEAN : SetVal(p, ok)
      BY <3>3 DEF SetVal, SetValue, Command, confVars, runVars, ackVars
    <3> QED
      BY <3>1, <3>2, <3>3
  <2> QED
    BY <1>1, <2>1, <2>2, <2>3 DEF CtrlCommand
<1>2. CASE CtrlStep
  <2>1. CtrlType' /\ RunType' /\ confVars' = confVars
    BY <1>2 DEF CtrlStep, Ctrl, Store, ctrlVars, runVars,
       RequestUpdate, WUpdate, Acknowledged, Proceed, Again, GiveUp, TypeRun, CmdRun, RunUpdate,
       RunInterrupt, CmdConf, ConfInterrupt, ClearCmdConf, EditEscape, EditValue
  <2>2. DataType'
    <3>1. CASE Again
      <4>1. quiet' \in BOOLEAN
        BY <3>1 DEF Again, RequestCheck, Checking
      <4> QED
        BY <3>1, <4>1 DEF Again, RequestCheck, readVars
    <3>2. CASE \E ok \in BOOLEAN : EditValue(ok)
      BY <3>2 DEF EditValue, SetValue, ackVars
    <3>3. CASE Proceed \/ GiveUp \/ Store("ctrl")
      BY <3>3 DEF Proceed, GiveUp, Store, ackVars, readVars
    <3>4. CASE \/ RequestUpdate \/ WUpdate \/ Acknowledged \/ TypeRun \/ CmdRun \/ RunUpdate
               \/ RunInterrupt \/ CmdConf \/ ConfInterrupt \/ ClearCmdConf \/ EditEscape
      BY <3>4 DEF histVars, ackVars, readVars, RequestUpdate, WUpdate, Acknowledged, TypeRun,
         CmdRun, RunUpdate, RunInterrupt, CmdConf, ConfInterrupt, ClearCmdConf, EditEscape
    <3> QED
      BY <1>2, <3>1, <3>2, <3>3, <3>4 DEF CtrlStep
  <2> QED
    BY <2>1, <2>2 DEF confVars
<1>3. CASE ConfStep \/ ConfCrash
  <2>1. ConfType'
    <3>1. CASE CheckParameter \/ WriteStatus
      <4>1. pindex' \in Param
        BY <3>1 DEF CheckParameter, WriteStatus, Param
      <4>2. errcnt' \in Nat
        BY <3>1 DEF CheckParameter, WriteStatus
      <4> QED
        BY <3>1, <4>1, <4>2 DEF Conf, CheckParameter, WriteStatus
    <3>2. CASE CheckBegin
      BY <3>2 DEF Conf, CheckBegin
    <3>6. CASE ConfSpawn
      BY <3>6 DEF ConfSpawn
    <3>3. CASE Compare \/ TestUpdate \/ Sleep
      BY <3>3 DEF Conf, WordType, Compare, TestUpdate, Sleep
    <3>4. CASE Store("conf")
      <4>1. UNCHANGED confVars
        BY <3>4 DEF Store
      <4> QED
        BY <4>1 DEF confVars
    <3>7. CASE ConfCrash \/ ConfExit
      <4>1. cpc' = "off" /\ ConfOver
        BY <3>7 DEF ConfCrash, ConfExit, Conf
      <4> QED
        BY <4>1 DEF ConfOver
    <3>5. CASE \/ ConfSetup \/ LoopFirst \/ SetConfrun \/ LoopStep \/ LoopEnd \/ RunBit
               \/ ClearUpdate \/ CountErrors \/ SetCheckOK \/ Acknowledge
      BY <3>5 DEF Conf, ConfSetup, LoopFirst, SetConfrun, LoopStep, LoopEnd, RunBit,
         ClearUpdate, CountErrors, SetCheckOK, Acknowledge
    <3> QED
      BY <1>3, <3>1, <3>2, <3>3, <3>4, <3>5, <3>6, <3>7 DEF ConfStep
  <2>2. RunType' /\ ctrlVars' = ctrlVars
    BY <1>3 DEF ConfStep, Store, runVars,
       ConfSpawn, ConfSetup, LoopFirst, SetConfrun, LoopStep, LoopEnd, RunBit, Compare,
       TestUpdate, ClearUpdate, Sleep, CheckBegin, CheckParameter, CountErrors, SetCheckOK,
       WriteStatus, Acknowledge, ConfExit, ConfCrash
  <2>3. DataType'
    <3>1. CASE ConfSpawn \/ SetConfrun \/ Store("conf")
      BY <3>1 DEF ConfSpawn, SetConfrun, Store, ackVars, readVars
    <3>2. CASE CheckParameter
      <4>1. conferrcnt' \in Nat
        BY <3>2 DEF CheckParameter
      <4>2. /\ unread' \in SUBSET Param /\ read' \in SUBSET Param /\ silent' \in SUBSET Param
        BY <3>2 DEF CheckParameter
      <4> QED
        BY <3>2, <4>1, <4>2 DEF CheckParameter
    <3>3. CASE CheckBegin \/ CountErrors \/ SetCheckOK \/ ConfExit \/ ConfCrash
      BY <3>3 DEF CheckBegin, CountErrors, SetCheckOK, ConfExit, ConfCrash, ConfOver, histVars,
         ackVars, readVars
    <3>4. CASE \/ ConfSetup \/ LoopFirst \/ LoopStep \/ LoopEnd \/ RunBit \/ Compare
               \/ TestUpdate \/ ClearUpdate \/ Sleep \/ WriteStatus \/ Acknowledge
      BY <3>4 DEF ConfSetup, LoopFirst, LoopStep, LoopEnd, RunBit, Compare, TestUpdate,
         ClearUpdate, Sleep, WriteStatus, Acknowledge, histVars, ackVars, readVars
    <3> QED
      BY <1>3, <3>1, <3>2, <3>3, <3>4 DEF ConfStep
  <2> QED
    BY <2>1, <2>2, <2>3 DEF ctrlVars
<1>4. CASE RunStep \/ RunCrash
  <2>1. CASE Store("run") \/ RunSpawn \/ RunExit \/ RunGone \/ RunCrash
    BY <2>1 DEF Store, ctrlVars, confVars, histVars, ackVars, readVars, runVars, RunSpawn, RunExit,
       RunGone, RunCrash
  <2>2. CASE \E p \in RunParam, b \in BOOLEAN : RunSet(p, b) \/ RunOnOff(p, b)
    <3> PICK p \in RunParam, b \in BOOLEAN : RunSet(p, b) \/ RunOnOff(p, b)
      BY <2>2
    <3>1. p \in Param
      BY ConfAssumption DEF ConfAssumption
    <3>2. CASE RunSet(p, b)
      BY <3>1, <3>2 DEF RunSet, SetValue, ctrlVars, confVars, runVars, ackVars
    <3>3. CASE RunOnOff(p, b)
      BY <3>3 DEF RunOnOff, ctrlVars, confVars, runVars, histVars, ackVars, readVars
    <3> QED
      BY <3>2, <3>3
  <2> QED
    BY <1>4, <2>1, <2>2 DEF RunStep
<1> QED
  BY <1>1, <1>2, <1>3, <1>4 DEF Next

(* The variables always have their types, and a parameter check stays within *)
(* the parameters.                                                           *)
THEOREM TypeCorrect == Spec => []TypeOK
<1>1. Init => TypeOK
  <2> SUFFICES ASSUME Init PROVE TypeOK
    OBVIOUS
  <2> USE Bounds DEF Init
  <2>1. WordType
    BY DEF WordType, StoreType, SignalBit
  <2>2. CtrlType /\ ConfType
    BY DEF CtrlType, ConfType
  <2>3. RunType /\ DataType
    BY DEF RunType, DataType
  <2> QED
    BY <2>1, <2>2, <2>3 DEF TypeOK
<1>2. TypeOK /\ [Next]_vars => TypeOK'
  <2> SUFFICES ASSUME TypeOK, [Next]_vars PROVE TypeOK'
    OBVIOUS
  <2>1. CASE Next
    BY <2>1, WordNext, OtherNext DEF TypeOK
  <2>2. CASE UNCHANGED vars
    BY <2>2 DEF vars, wordVars, ctrlVars, confVars, runVars, histVars, ackVars, readVars, TypeOK, WordType,
       CtrlType, ConfType, RunType, DataType
  <2> QED
    BY <2>1, <2>2
<1> QED
  BY <1>1, <1>2, PTL DEF Spec

-----------------------------------------------------------------------------
(* If read-modify-writes do not overlap, no store is ever left for later. *)
LEMMA NoneLeft ==
  ASSUME ~Racy, TypeOK
  PROVE  Stored /\ \A x \in Process : ~Store(x)
BY DEF TypeOK, WordType, Stored, Ready, Store

(* Who sets a value, and what the history says of it then: fpsCTRL is to   *)
(* request an update, RUN is not.                                          *)
NewValue(p) ==
  /\ \A q \in Param : q # p => good'[q] = good[q]
  /\ read' = read \ {p} /\ vouched' = vouched \ {p}
  /\ \/ silent' = silent \cup {p}
     \/ gpc' = "update" /\ silent' = silent \ {p}

(* Setting a value changes no other one. *)
LEMMA SetOne ==
  ASSUME TypeOK, NEW p \in Param, NEW ok, SetValue(p, ok),
         \/ silent' = silent \cup {p}
         \/ gpc' = "update" /\ silent' = silent \ {p}
  PROVE  \E q \in Param : NewValue(q)
<1>1. \A q \in Param : q # p => good'[q] = good[q]
  BY DEF SetValue, TypeOK, DataType
<1> QED
  BY <1>1 DEF SetValue, NewValue

(* What fpsCTRL and RUN do between two steps of CONF: they may request an  *)
(* update, they do not take a request back, and they leave CHECKOK alone.  *)
(* They set one value at a time.                                           *)
LEMMA OthersRequest ==
  ASSUME ~Racy, TypeOK, CtrlCommand \/ CtrlStep \/ RunStep \/ RunCrash
  PROVE  /\ UNCHANGED confVars
         /\ "UPDATE" \in signal => "UPDATE" \in signal'
         /\ "CHECKOK" \in status <=> "CHECKOK" \in status'
         /\ gpc = "update" => gpc' = "update" \/ "UPDATE" \in signal'
         /\ UNCHANGED <<good, readVars>> \/ \E p \in Param : NewValue(p)
<1>1. \A x \in Process : ~Store(x)
  BY NoneLeft
<1>2. CASE CtrlCommand
  <2>1. CASE \E p \in Param : EditOpen(p) \/ Toggle(p) \/ \E ok \in BOOLEAN : SetVal(p, ok)
    <3> PICK p \in Param : EditOpen(p) \/ Toggle(p) \/ \E ok \in BOOLEAN : SetVal(p, ok)
      BY <2>1
    <3>1. CASE EditOpen(p) \/ Toggle(p)
      BY <3>1 DEF EditOpen, Toggle, Command, SetOnOff, SetFlag, wordVars, histVars
    <3>2. CASE \E ok \in BOOLEAN : SetVal(p, ok)
      <4> PICK ok \in BOOLEAN : SetVal(p, ok)
        BY <3>2
      <4>1. \E q \in Param : NewValue(q)
        BY SetOne DEF SetVal, Command
      <4> QED
        BY <4>1 DEF SetVal, Command, wordVars
    <3> QED
      BY <3>1, <3>2
  <2>2. CASE \/ UpdateKey \/ ConfUpdate \/ ConfWUpdate
             \/ RunStart \/ RunStop \/ ConfStart \/ ConfStop
    BY <2>2 DEF UpdateKey, ConfUpdate, ConfWUpdate, RequestCheck, RunStart, RunStop,
       ConfStart, ConfStop, Command, SetSignal, SetStatus, wordVars, histVars
  <2> QED
    BY <1>2, <2>1, <2>2 DEF CtrlCommand
<1>3. CASE CtrlStep
  <2>1. CASE \E ok \in BOOLEAN : EditValue(ok)
    <3> PICK ok \in BOOLEAN : EditValue(ok)
      BY <2>1
    <3>1. arg \in Param
      BY DEF TypeOK, CtrlType
    <3>2. \E q \in Param : NewValue(q)
      BY <3>1, SetOne DEF EditValue, Ctrl
    <3> QED
      BY <3>2 DEF EditValue, Ctrl, wordVars
  <2>2. CASE \/ RequestUpdate \/ WUpdate \/ Acknowledged \/ Proceed \/ Again \/ GiveUp
             \/ RunUpdate \/ RunInterrupt
    BY <2>2 DEF RequestUpdate, WUpdate, Acknowledged, Proceed, Again, GiveUp, RunUpdate,
       RunInterrupt, RequestCheck, Ctrl, SetSignal, wordVars, histVars
  <2>3. CASE TypeRun \/ CmdRun \/ CmdConf \/ ConfInterrupt \/ ClearCmdConf \/ EditEscape
    BY <2>3 DEF TypeRun, CmdRun, CmdConf, ConfInterrupt, ClearCmdConf, EditEscape, Ctrl,
       SetStatus, wordVars, histVars
  <2> QED
    BY <1>1, <1>3, <2>1, <2>2, <2>3 DEF CtrlStep, Process
<1>4. CASE RunStep \/ RunCrash
  <2>1. CASE RunSpawn \/ RunGone \/ RunCrash
    BY <2>1 DEF RunSpawn, RunGone, RunCrash, wordVars, ctrlVars, histVars
  <2>2. CASE RunExit
    BY <2>2 DEF RunExit, SetStatus, ctrlVars, histVars
  <2>3. CASE \E p \in RunParam, b \in BOOLEAN : RunSet(p, b) \/ RunOnOff(p, b)
    <3> PICK p \in RunParam, b \in BOOLEAN : RunSet(p, b) \/ RunOnOff(p, b)
      BY <2>3
    <3>1. p \in Param
      BY ConfAssumption DEF ConfAssumption
    <3>2. CASE RunSet(p, b)
      <4>1. SetValue(p, b) /\ silent' = silent \cup {p}
        BY <3>2 DEF RunSet
      <4>2. \E q \in Param : NewValue(q)
        BY <3>1, <4>1, SetOne
      <4> QED
        BY <3>2, <4>2 DEF RunSet, wordVars, ctrlVars
    <3>3. CASE RunOnOff(p, b)
      BY <3>3 DEF RunOnOff, SetOnOff, SetFlag, ctrlVars, histVars
    <3> QED
      BY <3>2, <3>3
  <2> QED
    BY <1>1, <1>4, <2>1, <2>2, <2>3 DEF RunStep, Process
<1> QED
  BY <1>2, <1>3, <1>4

(* A check in which no value is set: it compares the values that it reads, *)
(* and CHECKOK then speaks of those.                                       *)
LEMMA CheckItself ==
  ASSUME ~Racy, TypeOK, CheckInv, TypeOK', Stored,
         CheckBegin \/ CheckParameter \/ CountErrors \/ SetCheckOK
  PROVE  CheckInv'
<1> USE DEF CheckInv, NoUpdate, Vouches, Doubt
<1>1. CASE CheckBegin
  <2>1. /\ cpc' = "check" /\ errcnt' = 0 /\ pindex' = 1 /\ read' = {}
        /\ UNCHANGED <<status, good, vouched, silent>>
    BY <1>1 DEF CheckBegin, Conf, wordVars
  <2>2. \A p \in Param : ~(p < pindex')
    BY <2>1 DEF Param
  <2> QED
    BY <2>1, <2>2
<1>2. CASE CheckParameter
  <2>1. /\ cpc = "check" /\ cpc' = (IF pindex = NBparam THEN "count" ELSE "check")
        /\ errcnt' = errcnt + (IF good[pindex] THEN 0 ELSE 1)
        /\ pindex' = (IF pindex = NBparam THEN 1 ELSE pindex + 1)
        /\ read' = read \cup {pindex} /\ silent' = silent \ {pindex}
        /\ UNCHANGED <<status, signal, pend, good, vouched, gpc>>
    BY <1>2 DEF CheckParameter, Conf, wordVars, ctrlVars
  <2>2. pindex \in Param /\ errcnt \in Nat /\ NBparam \in Nat
    BY ConfAssumption DEF TypeOK, ConfType
  <2>3. NoUpdate' => NoUpdate
    BY <2>1 DEF Stored, Ready
  <2>4. errcnt' = 0 => errcnt = 0 /\ good[pindex]
    BY <2>1, <2>2
  <2>5. NoUpdate' => \A p \in Param : p <= pindex => p \in read' \cup silent'
    BY <2>1, <2>2, <2>3 DEF Param
  <2>6. NoUpdate' /\ errcnt' # 0 =>
          \E p \in Param : p <= pindex /\ (~good[p] \/ p \in silent')
    <3> SUFFICES ASSUME NoUpdate', errcnt' # 0
                 PROVE  \E p \in Param : p <= pindex /\ (~good[p] \/ p \in silent')
      OBVIOUS
    <3>1. CASE errcnt = 0
      <4>1. ~good[pindex]
        BY <2>1, <3>1
      <4> QED
        BY <2>2, <4>1 DEF Param
    <3>2. CASE errcnt # 0
      <4>1. PICK p \in Param : p < pindex /\ (~good[p] \/ p \in silent)
        BY <2>1, <2>3, <3>2
      <4>2. p # pindex /\ p <= pindex
        BY <2>2, <4>1 DEF Param
      <4> QED
        BY <2>1, <4>1, <4>2
    <3> QED
      BY <3>1, <3>2
  <2>7. CASE pindex = NBparam
    <3>1. \A p \in Param : p <= pindex
      BY <2>7 DEF Param
    <3> QED
      BY <2>1, <2>4, <2>5, <2>6, <2>7, <3>1
  <2>8. CASE pindex # NBparam
    <3>1. \A p \in Param : p <= pindex <=> p < pindex'
      BY <2>1, <2>2, <2>8 DEF Param
    <3> QED
      BY <2>1, <2>4, <2>5, <2>6, <2>8, <3>1
  <2> QED
    BY <2>7, <2>8
<1>3. CASE CountErrors
  BY <1>3 DEF CountErrors, Conf, wordVars, ctrlVars, histVars, readVars, Stored, Ready
<1>4. CASE SetCheckOK
  BY <1>4 DEF SetCheckOK, Conf, SetStatus, ctrlVars, Stored, Ready
<1> QED
  BY <1>1, <1>2, <1>3, <1>4

(* Every step keeps CheckInv. *)
LEMMA CheckStep ==
  ASSUME ~Racy, TypeOK, CheckInv, Next, TypeOK'
  PROVE  CheckInv'
<1>1. /\ Stored /\ Stored' /\ \A x \in Process : ~Store(x)
  BY NoneLeft DEF Stored, Ready, TypeOK, WordType
<1>2. CASE CtrlCommand \/ CtrlStep \/ RunStep \/ RunCrash
  <2>1. /\ UNCHANGED confVars
        /\ "CHECKOK" \in status <=> "CHECKOK" \in status'
        /\ "UPDATE" \in signal => "UPDATE" \in signal'
        /\ NoUpdate' => NoUpdate
    BY <1>1, <1>2, OthersRequest DEF NoUpdate
  <2>2. CASE UNCHANGED <<good, readVars>>
    BY <2>1, <2>2 DEF CheckInv, Vouches, Doubt, confVars, readVars
  <2>3. ASSUME NEW p \in Param, NewValue(p)
        PROVE  CheckInv'
    <3>1. \A q \in Param : q # p => good'[q] = good[q]
      BY <2>3 DEF NewValue
    <3>2. read' = read \ {p} /\ vouched' = vouched \ {p}
      BY <2>3 DEF NewValue
    <3>3. silent' = silent \cup {p} \/ silent' = silent \ {p}
      BY <2>3 DEF NewValue
    <3>4. NoUpdate' => silent' = silent \cup {p}
      BY <2>3 DEF NewValue, NoUpdate
    <3>5. read \subseteq Param /\ vouched \subseteq Param
      BY DEF TypeOK, DataType
    <3>6. Vouches' /\ silent' \cap read' = {} /\ silent' \cap vouched' = {}
      BY <2>1, <3>1, <3>2, <3>3, <3>5 DEF CheckInv, Vouches
    <3>7. cpc' \in {"check", "count", "checkok"} /\ errcnt' = 0 => \A q \in read' : good'[q]
      BY <2>1, <3>1, <3>2, <3>5 DEF CheckInv, confVars
    <3>8. NoUpdate' => (Doubt => Doubt')
      BY <3>1, <3>4 DEF Doubt
    <3>9. ASSUME NoUpdate'
          PROVE  (\E q \in Param : q < pindex /\ (~good[q] \/ q \in silent))
                   => \E q \in Param : q < pindex /\ (~good'[q] \/ q \in silent')
      BY <3>1, <3>4, <3>9
    <3> QED
      BY <2>1, <3>2, <3>4, <3>6, <3>7, <3>8, <3>9 DEF CheckInv, confVars
  <2> QED
    BY <1>2, <2>2, <2>3, OthersRequest
<1>3. CASE ConfCrash \/ ConfSpawn \/ ConfSetup \/ ConfExit
  BY <1>3 DEF CheckInv, Vouches, ConfCrash, ConfSpawn, ConfSetup, ConfExit, ConfOver, Conf,
     SetStatus, wordVars, histVars, readVars
<1>4. CASE LoopFirst \/ SetConfrun
  BY <1>4 DEF CheckInv, Vouches, NoUpdate, LoopFirst, SetConfrun, Conf, SetSignal, histVars, readVars
<1>5. CASE LoopStep \/ LoopEnd \/ RunBit
  BY <1>1, <1>5 DEF CheckInv, Vouches, Doubt, NoUpdate, LoopStep, LoopEnd, RunBit, Conf, SetStatus,
     wordVars, ctrlVars, histVars, readVars
<1>6. CASE Compare \/ TestUpdate
  BY <1>1, <1>6 DEF CheckInv, Vouches, Doubt, NoUpdate, Compare, TestUpdate, Conf, SetSignal,
     wordVars, ctrlVars, histVars, readVars
<1>7. CASE ClearUpdate
  BY <1>7 DEF CheckInv, Vouches, ClearUpdate, Conf, SetSignal, histVars, readVars
<1>8. CASE Sleep
  <2>1. cpc = "sleep" /\ cpc' = IF update THEN "begin" ELSE "loop"
    BY <1>8 DEF Sleep, Conf
  <2>2. UNCHANGED <<status, signal, pend, good, gpc, errcnt, pindex, update, read, vouched, silent>>
    BY <1>8 DEF Sleep, wordVars, ctrlVars, histVars, readVars
  <2>3. CASE update
    BY <2>1, <2>2, <2>3 DEF CheckInv, Vouches
  <2>4. CASE ~update
    BY <1>1, <2>1, <2>2, <2>4 DEF CheckInv, Vouches, Doubt, NoUpdate
  <2> QED
    BY <2>3, <2>4
<1>9. CASE CheckBegin \/ CheckParameter \/ CountErrors \/ SetCheckOK
  BY <1>1, <1>9, CheckItself
<1>10. CASE WriteStatus \/ Acknowledge
  BY <1>1, <1>10 DEF CheckInv, Vouches, Doubt, NoUpdate, WriteStatus, Acknowledge, Conf, SetSignal,
     SetFlag, wordVars, ctrlVars, histVars, readVars
<1> QED
  BY <1>1, <1>2, <1>3, <1>4, <1>5, <1>6, <1>7, <1>8, <1>9, <1>10 DEF Next, ConfStep, Process

(* If read-modify-writes do not overlap, CHECKOK at any time speaks for    *)
(* the values that were checked and not set since, and, each time the CONF *)
(* loop comes round with no update requested, for all values but those     *)
(* that RUN set after their check (function_parameters.h:369).             *)
THEOREM CheckOK == ASSUME ~Racy PROVE Spec => []CheckOKTrue
<1>1. Init => CheckInv
  BY DEF Init, CheckInv, Vouches
<1>2. TypeOK /\ TypeOK' /\ CheckInv /\ [Next]_vars => CheckInv'
  <2> SUFFICES ASSUME TypeOK, TypeOK', CheckInv, [Next]_vars PROVE CheckInv'
    OBVIOUS
  <2>1. CASE UNCHANGED vars
    BY <2>1 DEF vars, wordVars, ctrlVars, confVars, histVars, readVars, CheckInv, Vouches, Doubt,
       NoUpdate, Stored, Ready
  <2> QED
    BY <2>1, CheckStep
<1>3. TypeOK /\ CheckInv => CheckOKTrue
  BY DEF CheckInv, CheckOKTrue, TypeOK, DataType
<1> QED
  BY <1>1, <1>2, <1>3, TypeCorrect, PTL DEF Spec

-----------------------------------------------------------------------------
(* The permission depends on two bits of the status only. *)
LEMMA SameWriteOK ==
  ASSUME NEW st1, NEW st2, Same(st1, st2, {"CONF", "RUN"}), NEW p \in Param
  PROVE  WriteOK(p, st1) <=> WriteOK(p, st2)
BY DEF Same, WriteOK

(* Switching a parameter on or off leaves its write status alone. *)
LEMMA OnOffKeeps ==
  ASSUME ~Racy, TypeOK, NEW x, NEW p \in Param, NEW on, SetOnOff(x, p, on)
  PROVE  /\ Same(status, status', {"CONF", "RUN"})
         /\ \A q \in Param : "WRITESTATUS" \in fpflag[q] <=> "WRITESTATUS" \in fpflag'[q]
<1>1. status' = status
  BY DEF SetOnOff, SetFlag
<1>2. \/ fpflag' = [fpflag EXCEPT ![p] = fpflag[p] \ {"ONOFF"}]
      \/ fpflag' = [fpflag EXCEPT ![p] = fpflag[p] \cup {"ONOFF"}]
  BY DEF SetOnOff, SetFlag
<1> QED
  BY <1>1, <1>2 DEF TypeOK, WordType, Same

(* What fpsCTRL and RUN leave alone between two steps of CONF: the bits    *)
(* CONF and RUN, the write statuses, and an update that was requested.     *)
LEMMA OthersKeep ==
  ASSUME ~Racy, TypeOK, CtrlCommand \/ CtrlStep \/ RunStep \/ RunCrash
  PROVE  /\ UNCHANGED confVars
         /\ "UPDATE" \in signal => "UPDATE" \in signal'
         /\ Same(status, status', {"CONF", "RUN"})
         /\ \A p \in Param : "WRITESTATUS" \in fpflag[p] <=> "WRITESTATUS" \in fpflag'[p]
<1>1. \A x \in Process : ~Store(x)
  BY NoneLeft
<1>2. UNCHANGED confVars /\ ("UPDATE" \in signal => "UPDATE" \in signal')
  BY OthersRequest
<1>3. CASE CtrlCommand
  <2>1. CASE \E p \in Param : EditOpen(p) \/ \E ok \in BOOLEAN : SetVal(p, ok)
    <3> PICK p \in Param : EditOpen(p) \/ \E ok \in BOOLEAN : SetVal(p, ok)
      BY <2>1
    <3> QED
      BY <1>2 DEF EditOpen, SetVal, Command, wordVars, Same
  <2>2. CASE \E p \in Param : Toggle(p)
    <3> PICK p \in Param : Toggle(p)
      BY <2>2
    <3> QED
      BY <1>2, OnOffKeeps DEF Toggle
  <2>3. CASE \/ UpdateKey \/ ConfUpdate \/ ConfWUpdate
             \/ RunStart \/ RunStop \/ ConfStart \/ ConfStop
    BY <1>2, <2>3 DEF UpdateKey, ConfUpdate, ConfWUpdate, RequestCheck, RunStart, RunStop,
       ConfStart, ConfStop, Command, SetSignal, SetStatus, wordVars, Same
  <2> QED
    BY <1>3, <2>1, <2>2, <2>3 DEF CtrlCommand
<1>4. CASE CtrlStep
  <2>1. CASE \E ok \in BOOLEAN : EditValue(ok)
    BY <1>2, <2>1 DEF EditValue, wordVars, Same
  <2>2. CASE \/ RequestUpdate \/ WUpdate \/ Acknowledged \/ Proceed \/ Again \/ GiveUp
             \/ RunUpdate \/ RunInterrupt
    BY <1>2, <2>2 DEF RequestUpdate, WUpdate, Acknowledged, Proceed, Again, GiveUp, RunUpdate,
       RunInterrupt, RequestCheck, SetSignal, wordVars, Same
  <2>3. CASE TypeRun \/ CmdRun \/ CmdConf \/ ConfInterrupt \/ ClearCmdConf \/ EditEscape
    BY <1>2, <2>3 DEF TypeRun, CmdRun, CmdConf, ConfInterrupt, ClearCmdConf, EditEscape,
       SetStatus, wordVars, Same
  <2> QED
    BY <1>1, <1>4, <2>1, <2>2, <2>3 DEF CtrlStep, Process
<1>5. CASE RunStep \/ RunCrash
  <2>1. CASE RunSpawn \/ RunGone \/ RunCrash
    BY <1>2, <2>1 DEF RunSpawn, RunGone, RunCrash, wordVars, Same
  <2>2. CASE RunExit
    BY <1>2, <2>2 DEF RunExit, SetStatus, Same
  <2>3. CASE \E p \in RunParam, b \in BOOLEAN : RunSet(p, b) \/ RunOnOff(p, b)
    <3> PICK p \in RunParam, b \in BOOLEAN : RunSet(p, b) \/ RunOnOff(p, b)
      BY <2>3
    <3>1. p \in Param
      BY ConfAssumption DEF ConfAssumption
    <3>2. CASE RunSet(p, b)
      BY <1>2, <3>2 DEF RunSet, wordVars, Same
    <3>3. CASE RunOnOff(p, b)
      BY <1>2, <3>1, <3>3, OnOffKeeps DEF RunOnOff
    <3> QED
      BY <3>2, <3>3
  <2> QED
    BY <1>1, <1>5, <2>1, <2>2, <2>3 DEF RunStep, Process
<1> QED
  BY <1>3, <1>4, <1>5

(* Every step keeps WriteInv. *)
LEMMA WriteStep ==
  ASSUME ~Racy, TypeOK, WriteInv, Next
  PROVE  WriteInv'
<1>1. \A x \in Process : ~Store(x)
  BY NoneLeft
<1>2. CASE CtrlCommand \/ CtrlStep \/ RunStep \/ RunCrash
  <2>1. /\ UNCHANGED confVars
        /\ "UPDATE" \in signal => "UPDATE" \in signal'
        /\ Same(status, status', {"CONF", "RUN"})
        /\ \A p \in Param : "WRITESTATUS" \in fpflag[p] <=> "WRITESTATUS" \in fpflag'[p]
    BY <1>2, OthersKeep
  <2>2. \A p \in Param : WriteOK(p, status) <=> WriteOK(p, status')
    BY <2>1, SameWriteOK
  <2> QED
    BY <2>1, <2>2 DEF WriteInv, Same, confVars
<1>3. CASE ConfCrash \/ ConfSpawn \/ ConfSetup \/ ConfExit
  BY <1>3 DEF WriteInv, ConfCrash, ConfSpawn, ConfSetup, ConfExit, Conf
<1>4. CASE LoopFirst \/ SetConfrun
  BY <1>4 DEF WriteInv, LoopFirst, SetConfrun, Conf, SetSignal
<1>5. CASE LoopStep
  <2>1. /\ cpc = "loop" /\ cpc' = "runbit"
        /\ status' = status \cup {"CONF"}
        /\ UNCHANGED <<signal, fpflag, prev>>
    BY <1>5 DEF LoopStep, Conf, SetStatus
  <2>2. "UPDATE" \notin signal => Same(prev, status, {"CONF", "RUN"})
    BY <2>1 DEF WriteInv
  <2>3. "UPDATE" \notin signal => \A p \in Param : WriteOK(p, prev) <=> WriteOK(p, status)
    BY <2>2, SameWriteOK
  <2>4. "UPDATE" \notin signal => Same(prev', status', {"RUN"})
    BY <2>1, <2>2 DEF Same
  <2>5. "UPDATE" \notin signal =>
          \A p \in Param : "WRITESTATUS" \in fpflag[p] <=> WriteOK(p, status)
    BY <2>1 DEF WriteInv
  <2>6. "UPDATE" \notin signal =>
          \A p \in Param : "WRITESTATUS" \in fpflag[p] <=> WriteOK(p, prev)
    BY <2>3, <2>5
  <2> QED
    BY <2>1, <2>4, <2>6 DEF WriteInv
<1>6. CASE RunBit
  BY <1>6 DEF WriteInv, RunBit, Conf, SetStatus, Same
<1>7. CASE Compare
  <2>1. cpc = "compare" /\ cpc' = "test" /\ UNCHANGED <<status, fpflag, prev>>
    BY <1>7 DEF Compare, Conf, SetSignal, wordVars
  <2>2. CASE prev # status
    BY <1>7, <2>1, <2>2 DEF WriteInv, Compare, SetSignal, Same
  <2>3. CASE prev = status
    BY <1>7, <2>1, <2>3 DEF WriteInv, Compare, wordVars
  <2> QED
    BY <2>2, <2>3
<1>8. CASE LoopEnd \/ TestUpdate \/ ClearUpdate
  BY <1>8 DEF WriteInv, LoopEnd, TestUpdate, ClearUpdate, Conf, SetStatus, SetSignal, wordVars
<1>9. CASE Sleep
  <2>1. /\ cpc = "sleep" /\ cpc' = IF update THEN "begin" ELSE "loop"
        /\ UNCHANGED <<status, signal, fpflag, update>> /\ prev' = status
    BY <1>9 DEF Sleep, Conf, wordVars
  <2>2. \A bits : Same(prev', status', bits)
    BY <2>1 DEF Same
  <2> QED
    BY <2>1, <2>2 DEF WriteInv
<1>10. CASE CheckBegin \/ CheckParameter \/ CountErrors
  BY <1>10 DEF WriteInv, CheckBegin, CheckParameter, CountErrors, Conf, wordVars, TypeOK, ConfType,
     Param
<1>11. CASE SetCheckOK
  <2>1. /\ cpc = "checkok" /\ cpc' = "write"
        /\ status' = IF errcnt = 0 THEN status \cup {"CHECKOK"} ELSE status \ {"CHECKOK"}
        /\ UNCHANGED <<signal, fpflag, prev, update, pindex>>
    BY <1>11 DEF SetCheckOK, Conf, SetStatus
  <2>2. Same(status, status', {"CONF", "RUN"})
    BY <2>1 DEF Same
  <2>3. "UPDATE" \notin signal' => Same(prev', status', {"CONF", "RUN"})
    BY <2>1, <2>2 DEF WriteInv, Same
  <2>4. pindex = 1
    BY <2>1 DEF WriteInv
  <2>5. \A p \in Param : ~(p < pindex')
    BY <2>1, <2>4 DEF Param
  <2> QED
    BY <2>1, <2>3, <2>5 DEF WriteInv
<1>12. CASE WriteStatus
  BY <1>12 DEF WriteInv, WriteStatus, Conf, SetFlag, TypeOK, WordType, ConfType, Param
<1>13. CASE Acknowledge
  BY <1>13 DEF WriteInv, Acknowledge, Conf, SetSignal
<1> QED
  BY <1>1, <1>2, <1>3, <1>4, <1>5, <1>6, <1>7, <1>8, <1>9, <1>10, <1>11, <1>12, <1>13
     DEF Next, ConfStep, Process

(* If read-modify-writes do not overlap, the write status of every         *)
(* parameter is what the permissions give for the current status each time *)
(* the CONF loop comes round with no update requested                      *)
(* (function_parameters.h:104).                                            *)
THEOREM WriteStatusCorrect == ASSUME ~Racy PROVE Spec => []WriteStatusTrue
<1>1. Init => WriteInv
  BY DEF Init, WriteInv
<1>2. TypeOK /\ WriteInv /\ [Next]_vars => WriteInv'
  <2> SUFFICES ASSUME TypeOK, WriteInv, [Next]_vars PROVE WriteInv'
    OBVIOUS
  <2>1. CASE UNCHANGED vars
    BY <2>1 DEF vars, wordVars, confVars, WriteInv
  <2> QED
    BY <2>1, WriteStep
<1>3. WriteInv => WriteStatusTrue
  BY DEF WriteInv, WriteStatusTrue
<1> QED
  BY <1>1, <1>2, <1>3, TypeCorrect, PTL DEF Spec

-----------------------------------------------------------------------------
(* Which parameters a check has read since confwupdate's request, while    *)
(* confwupdate waits and no check was going on at the request: all of them *)
(* once CHECKED is clear, those before the next one during a check, and    *)
(* all of them once the check has been through the parameters.             *)
FreshInv ==
  quiet /\ gpc \in {"wupdate", "wait"} =>
    /\ "CHECKED" \notin signal => unread = {}
    /\ cpc = "check" => \A p \in unread : p >= pindex
    /\ cpc \in {"count", "checkok", "write", "ack"} => unread = {}

(* A new request starts afresh. *)
LEMMA RequestFresh ==
  ASSUME ~Racy, TypeOK, RequestCheck, UNCHANGED confVars
  PROVE  FreshInv'
<1>1. "CHECKED" \in signal'
  BY DEF RequestCheck, SetSignal
<1>2. quiet' => cpc' \notin {"check", "count", "checkok", "write", "ack"}
  BY DEF RequestCheck, Checking, confVars
<1> QED
  BY <1>1, <1>2 DEF FreshInv

(* fpsCTRL begins to wait with a request only, and takes none back; RUN    *)
(* has nothing to do with it.                                              *)
LEMMA OthersFresh ==
  ASSUME ~Racy, TypeOK, FreshInv, CtrlCommand \/ CtrlStep \/ RunStep \/ RunCrash
  PROVE  FreshInv'
<1>1. \A x \in Process : ~Store(x)
  BY NoneLeft
<1>2. UNCHANGED confVars
  BY OthersRequest
<1>3. CASE ConfWUpdate \/ Again
  BY <1>2, <1>3, RequestFresh DEF ConfWUpdate, Again
<1>4. CASE WUpdate
  BY <1>2, <1>4 DEF FreshInv, WUpdate, Ctrl, SetSignal, confVars, histVars, ackVars
<1>5. CASE RunStep \/ RunCrash
  <2>1. CASE RunSpawn \/ RunGone \/ RunCrash
    BY <1>2, <2>1 DEF FreshInv, RunSpawn, RunGone, RunCrash, wordVars, ctrlVars, confVars, histVars,
       ackVars
  <2>2. CASE RunExit
    BY <1>2, <2>2 DEF FreshInv, RunExit, SetStatus, ctrlVars, confVars, histVars, ackVars
  <2>3. CASE \E p \in RunParam, b \in BOOLEAN : RunSet(p, b) \/ RunOnOff(p, b)
    BY <1>2, <2>3 DEF FreshInv, RunSet, RunOnOff, SetOnOff, SetFlag, wordVars, ctrlVars, confVars,
       histVars, ackVars
  <2> QED
    BY <1>1, <1>5, <2>1, <2>2, <2>3 DEF RunStep, Process
<1>6. CASE CtrlCommand /\ ~ConfWUpdate
  <2>1. gpc' \notin {"wupdate", "wait"}
    <3>1. CASE \E p \in Param : EditOpen(p) \/ Toggle(p) \/ \E ok \in BOOLEAN : SetVal(p, ok)
      BY <3>1 DEF EditOpen, Toggle, SetVal, Command
    <3>2. CASE UpdateKey \/ ConfUpdate \/ RunStart \/ RunStop \/ ConfStart \/ ConfStop
      BY <3>2 DEF UpdateKey, ConfUpdate, RunStart, RunStop, ConfStart, ConfStop, Command
    <3> QED
      BY <1>6, <3>1, <3>2 DEF CtrlCommand
  <2> QED
    BY <2>1 DEF FreshInv
<1>7. CASE CtrlStep /\ ~Again /\ ~WUpdate
  <2>1. gpc' \notin {"wupdate", "wait"}
    BY <1>1, <1>7 DEF CtrlStep, Process, Ctrl, RequestUpdate, Acknowledged, Proceed, GiveUp,
       TypeRun, CmdRun, RunUpdate, RunInterrupt, CmdConf, ConfInterrupt, ClearCmdConf,
       EditEscape, EditValue
  <2> QED
    BY <2>1 DEF FreshInv
<1> QED
  BY <1>3, <1>4, <1>5, <1>6, <1>7

(* Every step keeps FreshInv. *)
LEMMA FreshStep ==
  ASSUME ~Racy, TypeOK, FreshInv, Next
  PROVE  FreshInv'
<1>1. \A x \in Process : ~Store(x)
  BY NoneLeft
<1>2. CASE CtrlCommand \/ CtrlStep \/ RunStep \/ RunCrash
  BY <1>2, OthersFresh
<1>3. CASE \/ ConfCrash \/ ConfSpawn \/ ConfSetup \/ LoopFirst \/ SetConfrun \/ LoopStep \/ LoopEnd
           \/ RunBit \/ Compare \/ TestUpdate \/ ClearUpdate \/ Sleep \/ ConfExit
  <2>1. cpc' \notin {"check", "count", "checkok", "write", "ack"}
    BY <1>3 DEF ConfCrash, ConfSpawn, ConfSetup, LoopFirst, SetConfrun, LoopStep, LoopEnd,
       RunBit, Compare, TestUpdate, ClearUpdate, Sleep, ConfExit, Conf
  <2>2. "CHECKED" \in signal => "CHECKED" \in signal'
    BY <1>3 DEF ConfCrash, ConfSpawn, ConfSetup, LoopFirst, SetConfrun, LoopStep, LoopEnd,
       RunBit, Compare, TestUpdate, ClearUpdate, Sleep, ConfExit, SetSignal, SetStatus, wordVars
  <2>3. UNCHANGED <<gpc, unread, quiet>>
    BY <1>3 DEF ConfCrash, ConfSpawn, ConfSetup, LoopFirst, SetConfrun, LoopStep, LoopEnd,
       RunBit, Compare, TestUpdate, ClearUpdate, Sleep, ConfExit, ctrlVars, histVars, ackVars
  <2> QED
    BY <2>1, <2>2, <2>3 DEF FreshInv
<1>4. CASE CheckBegin
  <2>1. /\ cpc' = "check" /\ pindex' = 1
        /\ UNCHANGED <<signal, gpc, unread, quiet>>
    BY <1>4 DEF CheckBegin, Conf, wordVars, ctrlVars, ackVars
  <2>2. \A p \in unread : p >= 1
    BY DEF TypeOK, DataType, Param
  <2> QED
    BY <2>1, <2>2 DEF FreshInv
<1>5. CASE CheckParameter
  <2>1. /\ cpc = "check" /\ cpc' = (IF pindex = NBparam THEN "count" ELSE "check")
        /\ pindex' = (IF pindex = NBparam THEN 1 ELSE pindex + 1)
        /\ unread' = unread \ {pindex}
        /\ UNCHANGED <<signal, gpc, quiet>>
    BY <1>5 DEF CheckParameter, Conf, wordVars, ctrlVars
  <2>2. unread \subseteq 1 .. NBparam /\ pindex \in 1 .. NBparam /\ NBparam \in Nat
    BY ConfAssumption DEF TypeOK, DataType, ConfType, Param
  <2>3. ASSUME \A p \in unread : p >= pindex
        PROVE  /\ pindex = NBparam => unread' = {}
               /\ pindex # NBparam => \A p \in unread' : p >= pindex'
    BY <2>1, <2>2, <2>3
  <2> QED
    BY <2>1, <2>3 DEF FreshInv
<1>6. CASE CountErrors \/ SetCheckOK \/ WriteStatus \/ Acknowledge
  <2>1. /\ cpc \in {"count", "checkok", "write", "ack"}
        /\ cpc' \in {"checkok", "write", "ack", "loop"}
        /\ UNCHANGED <<gpc, unread, quiet>>
    BY <1>6 DEF CountErrors, SetCheckOK, WriteStatus, Acknowledge, Conf, ctrlVars, histVars, ackVars
  <2> QED
    BY <2>1 DEF FreshInv
<1> QED
  BY <1>1, <1>2, <1>3, <1>4, <1>5, <1>6 DEF Next, ConfStep, Process

(* If read-modify-writes do not overlap and no check was going on at its   *)
(* request, confwupdate finds the request acknowledged only after a check  *)
(* has read every value (function_parameters.c:4205).                      *)
THEOREM QuietAckReadsAll == ASSUME ~Racy PROVE Spec => QuietAckFresh
<1>1. Init => FreshInv
  BY DEF Init, FreshInv
<1>2. TypeOK /\ FreshInv /\ [Next]_vars => FreshInv'
  <2> SUFFICES ASSUME TypeOK, FreshInv, [Next]_vars PROVE FreshInv'
    OBVIOUS
  <2>1. CASE UNCHANGED vars
    BY <2>1 DEF vars, wordVars, ctrlVars, confVars, histVars, ackVars, FreshInv
  <2> QED
    BY <2>1, FreshStep
<1>3. TypeOK /\ FreshInv /\ [Next]_vars
      => [gpc = "wait" /\ gpc' = "result" /\ quiet => unread = {}]_vars
  <2> SUFFICES ASSUME TypeOK, FreshInv, Next, gpc = "wait", gpc' = "result", quiet
               PROVE  unread = {}
    OBVIOUS
  <2>1. \A x \in Process : ~Store(x)
    BY NoneLeft
  <2>2. ~CtrlCommand
    BY DEF CtrlCommand, UpdateKey, ConfUpdate, ConfWUpdate, RunStart, RunStop, ConfStart, ConfStop,
       EditOpen, Toggle, SetVal, Command
  <2>3. ~(ConfStep \/ ConfCrash \/ RunStep \/ RunCrash)
    BY <2>1 DEF ConfStep, RunStep, Process, ConfCrash, ConfSpawn, ConfSetup, LoopFirst, SetConfrun,
       LoopStep, LoopEnd, RunBit, Compare, TestUpdate, ClearUpdate, Sleep, CheckBegin,
       CheckParameter, CountErrors, SetCheckOK, WriteStatus, Acknowledge, ConfExit, RunSpawn,
       RunExit, RunGone, RunCrash, RunSet, RunOnOff, ctrlVars
  <2>4. Acknowledged
    BY <2>1, <2>2, <2>3 DEF Next, CtrlStep, Process, Ctrl, RequestUpdate, WUpdate, Proceed, Again,
       GiveUp, TypeRun, CmdRun, RunUpdate, RunInterrupt, CmdConf, ConfInterrupt, ClearCmdConf,
       EditEscape, EditValue
  <2> QED
    BY <2>4 DEF Acknowledged, FreshInv
<1> QED
  BY <1>1, <1>2, <1>3, TypeCorrect, PTL DEF Spec, QuietAckFresh
=============================================================================
