--------------------------- MODULE FPSsched_proofs ---------------------------
(***************************************************************************)
(* Proofs about FPSsched, for every number of queues, of entries of the    *)
(* task list, of FPS entries and of submitted tasks.                       *)
(***************************************************************************)
EXTENDS FPSsched, TLAPS

(* The order theorems hold as long as the input counter orders the tasks:  *)
(* it is never set back by a taskcntzero line and it does not wrap.        *)
CounterOrders == "taskcntzero" \notin Line /\ MaxSub <= CntMod

-----------------------------------------------------------------------------
(* Type correctness.                                                       *)

(* Every combination of status flags that the scheduler forms is one of the type. *)
LEMMA StatusType ==
  ASSUME NEW r \in Task,
         NEW st \in SUBSET {"ACTIVE", "RUNNING", "SHOW"},
         NEW f \in Fps \cup {Wild}, NEW b \in BOOLEAN
  PROVE  /\ [r EXCEPT !.status = st] \in Task
         /\ [r EXCEPT !.quiet = b] \in Task
         /\ [r EXCEPT !.fpsindex = f] \in Task
         /\ r.status \in SUBSET {"ACTIVE", "RUNNING", "SHOW"}
         /\ r.fpsindex \in Fps \cup {Wild}
BY DEF Task

(* Every line that is not a setting gives the operation, FPS and task that it names. *)
LEMMA CommandType ==
  ASSUME NEW c \in Command \cup {NoCommand}
  PROVE  /\ c.op = "queueprio" => c.queue \in Queue /\ c.prio \in Int
         /\ c.op \in {"runstart", "runstop", "fpsrm", "confupdate", "other"} => c.fps \in Fps
<1>1. Prio \subseteq Int
  BY SchedAssumption
<1>2. CASE c \in [op : Op \ {"queueprio", "unknown"}, fps : Fps]
  BY <1>2
<1>3. CASE c \in [op : Op \cap {"queueprio"}, queue : Queue, prio : Prio]
  <2>1. c.op \in {"queueprio"} /\ c.queue \in Queue /\ c.prio \in Prio
    BY <1>3
  <2>. QED
    BY <1>1, <2>1
<1>4. CASE c \in [op : Op \cap {"unknown"}]
  BY <1>4
<1>5. CASE c = NoCommand
  BY <1>5 DEF NoCommand
<1>. QED
  BY <1>2, <1>3, <1>4, <1>5 DEF Command

(* The operation of a line is one of Op. *)
LEMMA CommandOp ==
  ASSUME NEW c \in Command
  PROVE  c.op \in {"runstart", "runstop", "fpsrm", "confupdate", "other", "queueprio", "unknown"}
<1>1. Op \subseteq {"runstart", "runstop", "fpsrm", "confupdate", "other", "queueprio", "unknown"}
  BY SchedAssumption
<1>. QED
  BY <1>1 DEF Command

(* The empty task is a task. *)
LEMMA EmptyType == EmptyTask \in Task
BY SchedAssumption DEF EmptyTask, Task, NoCommand, Queue

(* Inserting a task in a free slot keeps the type of the task list. *)
LEMMA InsertType ==
  ASSUME TypeOK, NEW c \in Command, InsertTask(c)
  PROVE  task' \in [Slot -> Task]
<1>1. PICK s \in Slot :
        task' = [task EXCEPT ![s] =
            [@ EXCEPT !.status = {"ACTIVE", "SHOW"},
                      !.inputindex = cmdinputcnt,
                      !.queue = queue,
                      !.flag = (IF waitonrun THEN {"WAITONRUN"} ELSE {})
                                 \cup (IF waitonconf THEN {"WAITONCONF"} ELSE {}),
                      !.cmd = c,
                      !.sub = nsub + 1,
                      !.quiet = FALSE]]
  BY DEF InsertTask
<1>2. nsub + 1 \in 0 .. MaxSub
  BY SchedAssumption DEF InsertTask, TypeOK
<1>3. /\ cmdinputcnt \in 0 .. CntMod - 1 /\ queue \in Queue
      /\ task[s] \in Task /\ c \in Command \cup {NoCommand}
  BY DEF TypeOK
<1>4. task'[s] \in Task
  <2>. DEFINE fl == (IF waitonrun THEN {"WAITONRUN"} ELSE {})
                      \cup (IF waitonconf THEN {"WAITONCONF"} ELSE {})
  <2>1. fl \in SUBSET {"WAITONRUN", "WAITONCONF"}
    OBVIOUS
  <2>. HIDE DEF fl
  <2>2. task'[s] = [task[s] EXCEPT !.status = {"ACTIVE", "SHOW"},
                      !.inputindex = cmdinputcnt, !.queue = queue, !.flag = fl,
                      !.cmd = c, !.sub = nsub + 1, !.quiet = FALSE]
    BY <1>1 DEF TypeOK, fl
  <2>. QED
    BY <1>2, <1>3, <2>1, <2>2, ZenonT(60) DEF Task
<1>. QED
  BY <1>1, <1>4 DEF TypeOK

(* The next queue that a pass looks at is a queue, or the one past the last. *)
LEMMA AdvanceType ==
  ASSUME TypeOK, pc \in {"pass", "launch"}, Advance
  PROVE  /\ qi' \in Queue /\ qx' \in Queue
         /\ pc' \in {"pass", "display"} /\ (pc' = "pass" => qi' > 0)
<1>1. /\ NBqueue \in Nat /\ NBqueue >= 2 /\ qi \in 0 .. NBqueue - 1 /\ qi > 0
      /\ qx \in 0 .. NBqueue - 1
  BY SchedAssumption DEF TypeOK, Queue
<1>. QED
  BY <1>1 DEF Advance, Queue

(* A command under way keeps the types of what it changes.                 *)
LEMMA CmdBeginType ==
  ASSUME TypeOK, NEW c \in Command \cup {NoCommand}, CmdBegin(c)
  PROVE  /\ c \in Command
         /\ prio' \in [Queue -> Int] /\ moved' \subseteq Queue /\ sent' \in BOOLEAN
         /\ cmdrun' \in [Fps -> BOOLEAN] /\ checked' \in [Fps -> BOOLEAN]
         /\ held' \in [Fps -> SUBSET BOOLEAN]
         /\ keys' \in [Fps -> 0 .. MaxKeys] /\ busy' \in [Fps -> BOOLEAN]
<1>. USE DEF runVars, confVars
<1>1. c \in Command
  BY DEF CmdBegin, NoCommand
<1>2. CASE c.op = "queueprio"
  <2>1. c.queue \in Queue /\ c.prio \in Int
    BY <1>2, CommandType
  <2>. QED
    BY <1>1, <1>2, <2>1 DEF CmdBegin, TypeOK
<1>3. CASE c.op # "queueprio"
  <2>. DEFINE f == c.fps
  <2>1. keys[f] < MaxKeys /\ f \in Fps => keys[f] + 1 \in 0 .. MaxKeys
    BY SchedAssumption DEF TypeOK
  <2>2. c.op \in {"runstart", "runstop", "fpsrm", "confupdate"} => f \in Fps
    BY CommandType
  <2>. HIDE DEF f
  <2>3. CASE c.op = "runstart"
    BY <1>1, <2>1, <2>2, <2>3 DEF CmdBegin, TypeOK, f
  <2>4. CASE c.op \in {"runstop", "fpsrm"}
    BY <1>1, <2>2, <2>4 DEF CmdBegin, TypeOK, f
  <2>5. CASE c.op = "confupdate"
    BY <1>1, <2>2, <2>5 DEF CmdBegin, TypeOK, f
  <2>6. CASE c.op \in {"other", "unknown"}
    BY <1>1, <2>6 DEF CmdBegin, TypeOK
  <2>. QED
    BY <1>3, <2>3, <2>4, <2>5, <2>6 DEF CmdBegin
<1>. QED
  BY <1>2, <1>3

(* So does what the command does after the external call.                  *)
LEMMA CmdEndType ==
  ASSUME TypeOK, NEW c, CmdEnd(c)
  PROVE  /\ cmdrun' \in [Fps -> BOOLEAN] /\ checked' \in [Fps -> BOOLEAN]
         /\ held' \in [Fps -> SUBSET BOOLEAN]
         /\ keys' \in [Fps -> 0 .. MaxKeys] /\ busy' \in [Fps -> BOOLEAN]
<1>1. 0 \in 0 .. MaxKeys
  BY SchedAssumption
<1>. QED
  BY <1>1 DEF CmdEnd, TypeOK, runVars, confVars

(* The end of quiet changes no other field of a task.                      *)
LEMMA UnquietType ==
  ASSUME TypeOK, NEW f, NEW tk, tk = Unquiet(f)
  PROVE  /\ tk \in [Slot -> Task]
         /\ \A t \in Slot :
              /\ tk[t].queue = task[t].queue /\ tk[t].inputindex = task[t].inputindex
              /\ tk[t].sub = task[t].sub /\ tk[t].status = task[t].status
              /\ tk[t].cmd = task[t].cmd /\ tk[t].fpsindex = task[t].fpsindex /\ tk[t].flag = task[t].flag
              /\ tk[t].quiet => task[t].quiet
              /\ tk[t].quiet => ~(task[t].cmd.op = "runstart" /\ task[t].cmd.fps = f)
<1>1. ASSUME NEW t \in Slot
      PROVE  /\ tk[t] \in Task
             /\ \/ tk[t] = task[t] /\ ~(task[t].cmd.op = "runstart" /\ task[t].cmd.fps = f)
                \/ tk[t] = [task[t] EXCEPT !.quiet = FALSE]
  BY StatusType DEF Unquiet, TypeOK
<1>2. ASSUME NEW r \in Task
      PROVE  LET u == [r EXCEPT !.quiet = FALSE]
             IN  /\ u.queue = r.queue /\ u.inputindex = r.inputindex /\ u.sub = r.sub
                 /\ u.status = r.status /\ u.cmd = r.cmd /\ u.fpsindex = r.fpsindex /\ u.flag = r.flag
                 /\ ~u.quiet
  BY DEF Task
<1>3. \A t \in Slot : task[t] \in Task
  BY DEF TypeOK
<1>4. tk \in [Slot -> Task]
  BY <1>1 DEF Unquiet
<1>. QED
  BY <1>1, <1>2, <1>3, <1>4

(* The same of the tasks that a command disturbs.                          *)
LEMMA DisturbType ==
  ASSUME TypeOK, NEW c, NEW tk, tk = Disturb(c)
  PROVE  /\ tk \in [Slot -> Task]
         /\ \A t \in Slot :
              /\ tk[t].queue = task[t].queue /\ tk[t].inputindex = task[t].inputindex
              /\ tk[t].sub = task[t].sub /\ tk[t].status = task[t].status
              /\ tk[t].cmd = task[t].cmd /\ tk[t].fpsindex = task[t].fpsindex /\ tk[t].flag = task[t].flag
              /\ tk[t].quiet => task[t].quiet
              /\ tk[t].quiet => ~(/\ c.op \in {"runstart", "runstop", "fpsrm"}
                                  /\ task[t].cmd.op = "runstart" /\ task[t].cmd.fps = c.fps)
<1>1. CASE c.op \in {"runstart", "runstop", "fpsrm"}
  BY <1>1, UnquietType DEF Disturb
<1>2. CASE c.op \notin {"runstart", "runstop", "fpsrm"}
  BY <1>2 DEF Disturb, TypeOK
<1>. QED
  BY <1>1, <1>2

(* The variables always have their types: the indices of tasks and queues that *)
(* the scheduler uses stay within their arrays.                                *)
THEOREM TypeCorrect == Spec => []TypeOK
<1>1. ASSUME Init
      PROVE  TypeOK
  <2>1. task \in [Slot -> Task]
    BY <1>1, EmptyType DEF Init
  <2>2. 0 \in Queue /\ 0 \in Slot /\ 0 \in 0 .. CntMod - 1 /\ 0 \in 0 .. MaxSub
        /\ 0 \in 0 .. MaxKeys
    BY SchedAssumption DEF Queue, Slot
  <2>3. /\ prio \in [Queue -> Int] /\ plist \in [Queue -> Int]
        /\ cmdrun \in [Fps -> BOOLEAN] /\ checked \in [Fps -> BOOLEAN]
        /\ keys \in [Fps -> 0 .. MaxKeys] /\ busy \in [Fps -> BOOLEAN]
    BY <1>1, <2>2 DEF Init
  <2>4. waitonrun \in BOOLEAN /\ waitonconf \in BOOLEAN /\ sent \in BOOLEAN
    BY <1>1 DEF Init
  <2>5. /\ queue \in Queue /\ cmdinputcnt \in 0 .. CntMod - 1 /\ nsub \in 0 .. MaxSub
        /\ pc = "loop" /\ qi \in Queue /\ qx \in Queue /\ cur \in Slot
        /\ seen \subseteq Queue /\ moved \subseteq Queue
        /\ kcmd = NoCommand /\ held \in [Fps -> SUBSET BOOLEAN]
    BY <1>1, <2>2 DEF Init
  <2>. QED
    BY <2>1, <2>3, <2>4, <2>5 DEF TypeOK
<1>2. ASSUME TypeOK, [Next]_vars
      PROVE  TypeOK'
  <2>. USE <1>2 DEF passVars, fifoVars, runVars, confVars
  <2>1. ASSUME NEW c \in Command, InsertTask(c)
        PROVE  TypeOK'
    <3>1. task' \in [Slot -> Task]
      BY <2>1, InsertType
    <3>2. cmdinputcnt' \in 0 .. CntMod - 1 /\ nsub' \in 0 .. MaxSub
      BY <2>1, SchedAssumption DEF InsertTask, TypeOK
    <3>. QED
      BY <2>1, <3>1, <3>2 DEF InsertTask, TypeOK
  <2>2. CASE TaskCntZero
    BY <2>2, SchedAssumption DEF TaskCntZero, ReadsSetting, TypeOK
  <2>3. ASSUME NEW q \in Queue, SetQueueIndex(q)
        PROVE  TypeOK'
    BY <2>3 DEF SetQueueIndex, ReadsSetting, TypeOK
  <2>4. ASSUME NEW p \in Prio, SetQueuePrio(p)
        PROVE  TypeOK'
    BY <2>4, SchedAssumption DEF SetQueuePrio, ReadsSetting, TypeOK
  <2>5. ASSUME NEW on \in BOOLEAN, SetWaitOnRun(on) \/ SetWaitOnConf(on)
        PROVE  TypeOK'
    BY <2>5 DEF SetWaitOnRun, SetWaitOnConf, ReadsSetting, TypeOK
  <2>6. CASE FifoFull
    BY <2>6 DEF FifoFull, TypeOK
  <2>7. CASE BeginPass
    <3>1. plist' \in [Queue -> Int]
      BY <2>7 DEF BeginPass, TypeOK
    <3>2. NBqueue - 1 \in Queue /\ NBqueue - 1 > 0 /\ 0 \in Queue
      BY SchedAssumption DEF Queue
    <3>. QED
      BY <2>7, <3>1, <3>2 DEF BeginPass, TypeOK
  <2>8. CASE Skip
    <3>1. qi' \in Queue /\ qx' \in Queue
          /\ pc' \in {"pass", "display"} /\ (pc' = "pass" => qi' > 0)
      BY <2>8, AdvanceType DEF Skip
    <3>. QED
      BY <2>8, <3>1 DEF Skip, TypeOK
  <2>9. ASSUME NEW s \in Slot, Launch(s)
        PROVE  TypeOK'
    <3>1. task[s].cmd \in Command \cup {NoCommand} /\ CmdBegin(task[s].cmd)
      BY <2>9 DEF Launch, TypeOK, Task
    <3>2. /\ task[s].cmd \in Command
          /\ prio' \in [Queue -> Int] /\ moved' \subseteq Queue /\ sent' \in BOOLEAN
          /\ cmdrun' \in [Fps -> BOOLEAN] /\ checked' \in [Fps -> BOOLEAN]
          /\ held' \in [Fps -> SUBSET BOOLEAN]
          /\ keys' \in [Fps -> 0 .. MaxKeys] /\ busy' \in [Fps -> BOOLEAN]
      BY <3>1, CmdBeginType
    <3>3. task' \in [Slot -> Task] /\ task'[s].cmd = task[s].cmd
      <4>. DEFINE tk == Disturb(task[s].cmd)
      <4>1. tk \in [Slot -> Task] /\ tk[s].cmd = task[s].cmd
        BY DisturbType
      <4>. HIDE DEF tk
      <4>2. PICK b \in BOOLEAN : task' = [tk EXCEPT ![s].quiet = b]
        BY <2>9, StatusType DEF Launch, tk, TypeOK
      <4>. QED
        BY <4>1, <4>2, StatusType DEF Task
    <3>4. qi > 0 /\ cur' = s /\ pc' = "launch"
      BY <2>9 DEF Launch, Examined, TypeOK
    <3>5. seen' \subseteq Queue /\ UNCHANGED <<fifoVars, plist, qi, qx, kcmd>>
      BY <2>9 DEF Launch, TypeOK
    <3>. QED
      BY <3>2, <3>3, <3>4, <3>5 DEF TypeOK
  <2>10. ASSUME NEW s \in Slot, Complete(s)
         PROVE  TypeOK'
    <3>1. task' \in [Slot -> Task]
      BY <2>10, StatusType DEF Complete, Finished, TypeOK
    <3>2. qi' \in Queue /\ qx' \in Queue
          /\ pc' \in {"pass", "display"} /\ (pc' = "pass" => qi' > 0)
      BY <2>10, AdvanceType DEF Complete, Examined
    <3>. QED
      BY <2>10, <3>1, <3>2 DEF Complete, TypeOK
  <2>11. ASSUME NEW s \in Slot, Hold(s)
         PROVE  TypeOK'
    <3>1. qi' \in Queue /\ qx' \in Queue
          /\ pc' \in {"pass", "display"} /\ (pc' = "pass" => qi' > 0)
      BY <2>11, AdvanceType DEF Hold, Examined
    <3>. QED
      BY <2>11, <3>1 DEF Hold, TypeOK
  <2>12. ASSUME NEW s \in Slot, WildFault(s)
         PROVE  TypeOK'
    BY <2>12 DEF WildFault, TypeOK
  <2>13. CASE LaunchEnd
    <3>1. task' \in [Slot -> Task]
      <4>1. PICK f \in CmdFpsindex(task[cur].cmd) :
              task' = [task EXCEPT ![cur].fpsindex = f, ![cur].status = @ \cup {"RUNNING"}]
        BY <2>13 DEF LaunchEnd
      <4>2. task[cur].cmd \in Command
        BY <2>13 DEF LaunchEnd, TypeOK
      <4>3. f \in Fps \cup {Wild}
        BY <4>1, <4>2, CommandOp, CommandType DEF CmdFpsindex
      <4>. QED
        BY <4>1, <4>3, StatusType DEF TypeOK
    <3>2. /\ cmdrun' \in [Fps -> BOOLEAN] /\ checked' \in [Fps -> BOOLEAN]
          /\ held' \in [Fps -> SUBSET BOOLEAN]
          /\ keys' \in [Fps -> 0 .. MaxKeys] /\ busy' \in [Fps -> BOOLEAN]
      BY <2>13, CmdEndType DEF LaunchEnd
    <3>3. qi' \in Queue /\ qx' \in Queue
          /\ pc' \in {"pass", "display"} /\ (pc' = "pass" => qi' > 0)
      BY <2>13, AdvanceType DEF LaunchEnd
    <3>4. 0 \in Slot
      BY SchedAssumption DEF Slot
    <3>. QED
      BY <2>13, <3>1, <3>2, <3>3, <3>4 DEF LaunchEnd, TypeOK
  <2>14. ASSUME NEW mode \in Mode, Display(mode)
         PROVE  TypeOK'
    <3>1. task' \in [Slot -> Task]
      <4>1. ASSUME NEW S \in SUBSET Shown
            PROVE  Hide(S) \in [Slot -> Task]
        BY StatusType DEF Hide, TypeOK
      <4>. QED
        BY <2>14, <4>1 DEF Display, Purge, TypeOK
    <3>2. plist' \in [Queue -> Int] /\ seen' = {} /\ moved' = {} /\ pc' = "loop"
      BY <2>14 DEF Display
    <3>. QED
      BY <2>14, <3>1, <3>2 DEF Display, TypeOK
  <2>15. ASSUME NEW f \in Fps, Process(f)
         PROVE  TypeOK'
    <3>1. keys[f] > 0 => keys[f] - 1 \in 0 .. MaxKeys
      BY SchedAssumption DEF TypeOK
    <3>2. CASE RunSpawn(f)
      BY <3>1, <3>2 DEF RunSpawn, TypeOK
    <3>3. CASE RunExit(f)
      BY <3>3 DEF RunExit, TypeOK
    <3>4. CASE RunCrash(f)
      BY <3>4 DEF RunCrash, TypeOK
    <3>5. CASE ConfChecked(f)
      BY <3>5 DEF ConfChecked, TypeOK
    <3>6. CASE KeysLost(f)
      BY <3>6, SchedAssumption DEF KeysLost, TypeOK
    <3>. QED
      BY <2>15, <3>2, <3>3, <3>4, <3>5, <3>6 DEF Process
  <2>16. ASSUME NEW f \in Fps, Rewrite(f)
         PROVE  TypeOK'
    <3>1. CASE LoadStatus(f)
      <4>1. held' \in [Fps -> SUBSET BOOLEAN]
        BY <3>1 DEF LoadStatus, TypeOK
      <4>. QED
        BY <3>1, <4>1 DEF LoadStatus, TypeOK
    <3>2. ASSUME NEW on \in BOOLEAN, StoreStatus(f, on)
          PROVE  TypeOK'
      <4>1. held' \in [Fps -> SUBSET BOOLEAN] /\ cmdrun' \in [Fps -> BOOLEAN]
        BY <3>2 DEF StoreStatus, TypeOK
      <4>2. /\ task' \in [Slot -> Task]
            /\ \A t \in Slot : task'[t].cmd = task[t].cmd
        BY <3>2, UnquietType DEF StoreStatus, TypeOK
      <4>. QED
        BY <3>2, <4>1, <4>2 DEF StoreStatus, TypeOK
    <3>. QED
      BY <2>16, <3>1, <3>2 DEF Rewrite
  <2>17. ASSUME NEW c \in Command, KeyBegin(c)
         PROVE  TypeOK'
    <3>1. /\ prio' \in [Queue -> Int] /\ moved' \subseteq Queue /\ sent' \in BOOLEAN
          /\ cmdrun' \in [Fps -> BOOLEAN] /\ checked' \in [Fps -> BOOLEAN]
          /\ held' \in [Fps -> SUBSET BOOLEAN]
          /\ keys' \in [Fps -> 0 .. MaxKeys] /\ busy' \in [Fps -> BOOLEAN]
      BY <2>17, CmdBeginType DEF KeyBegin
    <3>2. task' \in [Slot -> Task]
      BY <2>17, DisturbType DEF KeyBegin
    <3>. QED
      BY <2>17, <3>1, <3>2 DEF KeyBegin, TypeOK
  <2>18. CASE KeyEnd
    <3>1. /\ cmdrun' \in [Fps -> BOOLEAN] /\ checked' \in [Fps -> BOOLEAN]
          /\ held' \in [Fps -> SUBSET BOOLEAN]
          /\ keys' \in [Fps -> 0 .. MaxKeys] /\ busy' \in [Fps -> BOOLEAN]
      BY <2>18, CmdEndType DEF KeyEnd
    <3>. QED
      BY <2>18, <3>1 DEF KeyEnd, TypeOK
  <2>19. CASE UNCHANGED vars
    BY <2>19 DEF vars, TypeOK
  <2>. QED
    BY <2>1, <2>2, <2>3, <2>4, <2>5, <2>6, <2>7, <2>8, <2>9, <2>10, <2>11, <2>12,
       <2>13, <2>14, <2>15, <2>16, <2>17, <2>18, <2>19 DEF Next, ReadLine, Scheduler
<1>. QED
  BY <1>1, <1>2, PTL DEF Spec

-----------------------------------------------------------------------------
(* The order of the tasks of a queue.                                      *)

(* What a step other than InsertTask and Launch does to the task list: it  *)
(* keeps the queues, indices and submission numbers, adds no active task,  *)
(* and starts none.                                                        *)
OrderKept ==
  /\ UNCHANGED <<nsub, cmdinputcnt>>
  /\ \A s \in Slot :
       /\ task'[s].queue = task[s].queue
       /\ task'[s].inputindex = task[s].inputindex
       /\ task'[s].sub = task[s].sub
       /\ "ACTIVE" \in task'[s].status => "ACTIVE" \in task[s].status
       /\ Started(s)' => Started(s)

(* OrderInv only depends on the task list and the counter. *)
LEMMA KeptOrderInv ==
  ASSUME OrderInv, OrderKept,
         pc' = "launch" => Active(cur)' /\ ~Running(cur)'
  PROVE  OrderInv'
<1>1. IndexIsSub'
  BY DEF OrderInv, OrderKept, IndexIsSub, Active
<1>2. StartedIsFirst'
  BY DEF OrderInv, OrderKept, StartedIsFirst, Active
<1>. QED
  BY <1>1, <1>2 DEF OrderInv

(* Every entry of the task list is an element of Task. *)
LEMMA TaskFields ==
  ASSUME TypeOK, NEW s \in Slot
  PROVE  /\ task[s].status \in SUBSET {"ACTIVE", "RUNNING", "SHOW"}
         /\ task[s].inputindex \in Int /\ task[s].sub \in Int
BY SchedAssumption DEF TypeOK, Task

(* Reading a task from the fifo keeps OrderInv, its index being new. *)
LEMMA InsertOrder ==
  ASSUME CounterOrders, TypeOK, OrderInv, NEW c \in Command, InsertTask(c)
  PROVE  OrderInv'
<1>. USE DEF OrderInv
<1>1. PICK s \in Slot :
        /\ FirstFree(s)
        /\ task' = [task EXCEPT ![s] =
            [@ EXCEPT !.status = {"ACTIVE", "SHOW"},
                      !.inputindex = cmdinputcnt,
                      !.queue = queue,
                      !.flag = (IF waitonrun THEN {"WAITONRUN"} ELSE {})
                                 \cup (IF waitonconf THEN {"WAITONCONF"} ELSE {}),
                      !.cmd = c,
                      !.sub = nsub + 1,
                      !.quiet = FALSE]]
  BY DEF InsertTask
<1>2. ~Active(s)
  BY <1>1 DEF FirstFree, FreeSlot, Active
<1>3. /\ task'[s].status = {"ACTIVE", "SHOW"} /\ task'[s].inputindex = cmdinputcnt
      /\ task'[s].sub = nsub + 1
      /\ \A t \in Slot \ {s} : task'[t] = task[t]
  BY <1>1 DEF TypeOK, Task
<1>4. /\ nsub \in Nat /\ nsub < CntMod /\ cmdinputcnt = nsub /\ nsub' = nsub + 1
      /\ CntMod \in Nat /\ CntMod >= 1 /\ pc = "loop" /\ pc' = "loop"
  BY SchedAssumption DEF CounterOrders, InsertTask, TypeOK, IndexIsSub
<1>5. nsub' < CntMod => cmdinputcnt' = nsub'
  <2>1. nsub + 1 < CntMod => (nsub + 1) % CntMod = nsub + 1
    BY <1>4
  <2>. QED
    BY <1>4, <2>1 DEF InsertTask
<1>6. \A t \in Slot : Active(t)' =>
        task'[t].sub \in 1 .. nsub' /\ task'[t].inputindex = task'[t].sub - 1
  BY <1>3, <1>4, TaskFields DEF IndexIsSub, Active
<1>7. \A t, u \in Slot :
        Active(t)' /\ Active(u)' /\ task'[t].sub = task'[u].sub => t = u
  BY <1>3, <1>4, TaskFields DEF IndexIsSub, Active
<1>8. StartedIsFirst'
  <2>1. \A t \in Slot : Started(t)' => t # s /\ Started(t)
    BY <1>3, <1>4 DEF Started, Active, Running
  <2>2. \A t \in Slot \ {s} : Active(t) => task[t].inputindex <= cmdinputcnt
    BY <1>4, TaskFields DEF IndexIsSub
  <2>3. ASSUME NEW t \in Slot, NEW u \in Slot, Started(t)', Active(u)',
               task'[t].queue = task'[u].queue
        PROVE  task'[t].inputindex <= task'[u].inputindex
    <3>1. t # s /\ Started(t) /\ Active(t)
      BY <2>1, <2>3 DEF Started
    <3>2. CASE u = s
      BY <1>3, <2>2, <3>1, <3>2
    <3>3. CASE u # s
      BY <1>3, <2>3, <3>1, <3>3 DEF StartedIsFirst, Active
    <3>. QED
      BY <3>2, <3>3
  <2>. QED
    BY <1>4, <2>3 DEF StartedIsFirst
<1>. QED
  BY <1>5, <1>6, <1>7, <1>8 DEF IndexIsSub

(* Launching a task changes, of all tasks, no field but quiet. *)
LEMMA LaunchTask ==
  ASSUME TypeOK, NEW s \in Slot, Launch(s)
  PROVE  /\ \A t \in Slot :
              /\ task'[t].queue = task[t].queue /\ task'[t].inputindex = task[t].inputindex
              /\ task'[t].sub = task[t].sub /\ task'[t].status = task[t].status
              /\ task'[t].cmd = task[t].cmd /\ task'[t].fpsindex = task[t].fpsindex
              /\ task'[t].flag = task[t].flag
              /\ t # s /\ task'[t].quiet => task[t].quiet
              /\ t # s /\ task'[t].quiet =>
                   ~(/\ task[s].cmd.op \in {"runstart", "runstop", "fpsrm"}
                     /\ task[t].cmd.op = "runstart" /\ task[t].cmd.fps = task[s].cmd.fps)
         /\ task'[s].quiet => /\ task[s].cmd.op = "runstart"
                              /\ ~busy[task[s].cmd.fps] /\ keys[task[s].cmd.fps] = 0
<1>. DEFINE c == task[s].cmd
            tk == Disturb(c)
<1>1. /\ tk \in [Slot -> Task]
      /\ \A t \in Slot :
           /\ tk[t].queue = task[t].queue /\ tk[t].inputindex = task[t].inputindex
           /\ tk[t].sub = task[t].sub /\ tk[t].status = task[t].status
           /\ tk[t].cmd = task[t].cmd /\ tk[t].fpsindex = task[t].fpsindex /\ tk[t].flag = task[t].flag
           /\ tk[t].quiet => task[t].quiet
           /\ tk[t].quiet => ~(/\ c.op \in {"runstart", "runstop", "fpsrm"}
                               /\ task[t].cmd.op = "runstart" /\ task[t].cmd.fps = c.fps)
  BY DisturbType
<1>. DEFINE b == c.op = "runstart" /\ ~busy[c.fps] /\ keys[c.fps] = 0
<1>2. task' = [tk EXCEPT ![s].quiet = b]
  BY DEF Launch, tk, c, b
<1>. HIDE DEF tk, b
<1>3. task'[s].quiet <=> b
  BY <1>1, <1>2 DEF Task
<1>4. \A t \in Slot :
        /\ task'[t].queue = tk[t].queue /\ task'[t].inputindex = tk[t].inputindex
        /\ task'[t].sub = tk[t].sub /\ task'[t].status = tk[t].status
        /\ task'[t].cmd = tk[t].cmd /\ task'[t].fpsindex = tk[t].fpsindex
        /\ task'[t].flag = tk[t].flag
        /\ t # s => task'[t] = tk[t]
  BY <1>1, <1>2 DEF Task
<1>. QED
  BY <1>1, <1>3, <1>4 DEF b, c

(* Launching the task that NextTask found keeps OrderInv. *)
LEMMA LaunchOrder ==
  ASSUME TypeOK, OrderInv, NEW s \in Slot, Launch(s)
  PROVE  OrderInv'
<1>. USE DEF OrderInv
<1>1. \A t \in Slot :
        /\ task'[t].queue = task[t].queue /\ task'[t].inputindex = task[t].inputindex
        /\ task'[t].sub = task[t].sub /\ task'[t].status = task[t].status
  BY LaunchTask
<1>2. /\ s \in Queued(qx) /\ ~Running(s) /\ cur' = s /\ pc = "pass" /\ pc' = "launch"
      /\ UNCHANGED <<nsub, cmdinputcnt>>
  BY DEF Launch, NextTask, Examined, fifoVars
<1>3. \A t \in Slot : Active(t) /\ task[t].queue = task[s].queue
                      => task[s].inputindex <= task[t].inputindex
  BY <1>2, TaskFields DEF Launch, NextTask, Queued
<1>4. \A t \in Slot : Started(t)' => t = s \/ Started(t)
  BY <1>1, <1>2 DEF Started, Active, Running
<1>5. IndexIsSub'
  BY <1>1, <1>2 DEF IndexIsSub, Active
<1>6. StartedIsFirst'
  BY <1>1, <1>2, <1>3, <1>4 DEF StartedIsFirst, Active, Running, Queued
<1>. QED
  BY <1>5, <1>6

(* The end of a launch keeps OrderInv. *)
LEMMA LaunchEndOrder ==
  ASSUME TypeOK, OrderInv, LaunchEnd
  PROVE  OrderInv'
<1>1. PICK f \in CmdFpsindex(task[cur].cmd) :
        task' = [task EXCEPT ![cur].fpsindex = f, ![cur].status = @ \cup {"RUNNING"}]
  BY DEF LaunchEnd
<1>2. pc = "launch" /\ Active(cur) /\ cur \in Slot
  BY DEF LaunchEnd, TypeOK, OrderInv, StartedIsFirst
<1>3. \A t \in Slot :
        /\ task'[t].queue = task[t].queue /\ task'[t].inputindex = task[t].inputindex
        /\ task'[t].sub = task[t].sub
        /\ t # cur => task'[t].status = task[t].status
        /\ t = cur => task'[t].status = task[t].status \cup {"RUNNING"}
  BY <1>1 DEF TypeOK, Task
<1>4. pc' # "launch" /\ UNCHANGED <<nsub, cmdinputcnt>>
  BY DEF LaunchEnd, Advance, fifoVars
<1>5. OrderKept
  BY <1>2, <1>3, <1>4 DEF OrderKept, Started, Active, Running
<1>. QED
  BY <1>4, <1>5, KeptOrderInv

(* Completing a task keeps OrderInv. *)
LEMMA CompleteOrder ==
  ASSUME TypeOK, OrderInv, NEW s \in Slot, Complete(s)
  PROVE  OrderInv'
<1>1. \A t \in Slot :
        /\ task'[t].queue = task[t].queue /\ task'[t].inputindex = task[t].inputindex
        /\ task'[t].sub = task[t].sub
        /\ t # s => task'[t].status = task[t].status
        /\ t = s => task'[t].status = task[t].status \ {"RUNNING", "ACTIVE"}
  BY DEF Complete, Finished, TypeOK, Task
<1>2. pc = "pass" /\ pc' # "launch" /\ UNCHANGED <<nsub, cmdinputcnt>>
  BY DEF Complete, Examined, Advance, fifoVars
<1>3. OrderKept
  BY <1>1, <1>2 DEF OrderKept, Started, Active, Running
<1>. QED
  BY <1>2, <1>3, KeptOrderInv

(* Hiding and purging old finished tasks keeps OrderInv. *)
LEMMA DisplayOrder ==
  ASSUME TypeOK, OrderInv, NEW mode \in Mode, Display(mode)
  PROVE  OrderInv'
<1>1. \A t \in Slot :
        /\ task'[t].queue = task[t].queue /\ task'[t].inputindex = task[t].inputindex
        /\ task'[t].sub = task[t].sub
        /\ "ACTIVE" \in task'[t].status <=> "ACTIVE" \in task[t].status
        /\ "RUNNING" \in task'[t].status <=> "RUNNING" \in task[t].status
  <2>1. CASE UNCHANGED task
    BY <2>1
  <2>2. CASE Purge
    <3>1. PICK old \in SUBSET Shown : task' = Hide(old)
      BY <2>2 DEF Purge
    <3>. QED
      BY <3>1 DEF Hide, TypeOK, Task
  <2>. QED
    BY <2>1, <2>2 DEF Display
<1>2. pc = "display" /\ pc' = "loop" /\ UNCHANGED <<nsub, cmdinputcnt>>
  BY DEF Display, fifoVars
<1>3. OrderKept
  BY <1>1, <1>2 DEF OrderKept, Started, Active, Running
<1>. QED
  BY <1>2, <1>3, KeptOrderInv

(* Steps that leave the task list alone. *)
LEMMA OtherOrder ==
  ASSUME OrderInv, UNCHANGED <<task, nsub, cmdinputcnt>>,
         \/ pc' # "launch"
         \/ pc = "launch" /\ UNCHANGED <<pc, cur>>
  PROVE  OrderInv'
<1>1. OrderKept
  BY DEF OrderKept, Started, Active, Running
<1>2. pc' = "launch" => Active(cur)' /\ ~Running(cur)'
  BY DEF OrderInv, StartedIsFirst, Active, Running
<1>. QED
  BY <1>1, <1>2, KeptOrderInv

(* Commands that keys give and rewrites of a status word only end quiet. *)
LEMMA QuietOrder ==
  ASSUME OrderInv, UNCHANGED <<nsub, cmdinputcnt>>,
         \A t \in Slot :
           /\ task'[t].queue = task[t].queue /\ task'[t].inputindex = task[t].inputindex
           /\ task'[t].sub = task[t].sub /\ task'[t].status = task[t].status,
         pc' = "launch" => pc = "launch" /\ cur' = cur /\ cur \in Slot
  PROVE  OrderInv'
<1>1. OrderKept
  BY DEF OrderKept, Started, Active, Running
<1>2. pc' = "launch" => Active(cur)' /\ ~Running(cur)'
  BY DEF OrderInv, StartedIsFirst, Active, Running
<1>. QED
  BY <1>1, <1>2, KeptOrderInv

(* The order invariant is inductive. *)
THEOREM OrderInvariant ==
  ASSUME CounterOrders
  PROVE  Spec => []OrderInv
<1>1. ASSUME Init
      PROVE  OrderInv
  <2>1. \A s \in Slot : ~Active(s)
    BY <1>1 DEF Init, Active, EmptyTask
  <2>. QED
    BY <1>1, <2>1 DEF Init, OrderInv, IndexIsSub, StartedIsFirst, Started
<1>2. ASSUME TypeOK, OrderInv, [Next]_vars
      PROVE  OrderInv'
  <2>. USE <1>2
  <2>1. ASSUME NEW c \in Command, InsertTask(c)
        PROVE  OrderInv'
    BY <2>1, InsertOrder
  <2>2. CASE TaskCntZero
    BY <2>2 DEF TaskCntZero, ReadsSetting, CounterOrders
  <2>3. ASSUME NEW q \in Queue, SetQueueIndex(q)
        PROVE  OrderInv'
    BY <2>3, OtherOrder DEF SetQueueIndex, ReadsSetting
  <2>4. ASSUME NEW p \in Prio, SetQueuePrio(p)
        PROVE  OrderInv'
    BY <2>4, OtherOrder DEF SetQueuePrio, ReadsSetting, fifoVars
  <2>5. ASSUME NEW on \in BOOLEAN, SetWaitOnRun(on) \/ SetWaitOnConf(on)
        PROVE  OrderInv'
    BY <2>5, OtherOrder DEF SetWaitOnRun, SetWaitOnConf, ReadsSetting
  <2>6. CASE FifoFull
    BY <2>6, OtherOrder DEF FifoFull, fifoVars
  <2>7. CASE BeginPass
    BY <2>7, OtherOrder DEF BeginPass, fifoVars
  <2>8. CASE Skip
    BY <2>8, OtherOrder DEF Skip, Advance, fifoVars
  <2>9. ASSUME NEW s \in Slot, Launch(s)
        PROVE  OrderInv'
    BY <2>9, LaunchOrder
  <2>10. CASE LaunchEnd
    BY <2>10, LaunchEndOrder
  <2>11. ASSUME NEW s \in Slot, Complete(s)
         PROVE  OrderInv'
    BY <2>11, CompleteOrder
  <2>12. ASSUME NEW s \in Slot, Hold(s) \/ WildFault(s)
         PROVE  OrderInv'
    BY <2>12, OtherOrder DEF Hold, WildFault, Advance, fifoVars
  <2>13. ASSUME NEW mode \in Mode, Display(mode)
         PROVE  OrderInv'
    BY <2>13, DisplayOrder
  <2>14. ASSUME NEW f \in Fps, Process(f)
         PROVE  OrderInv'
    BY <2>14, OtherOrder DEF Process, RunSpawn, RunExit, RunCrash, KeysLost, ConfChecked,
         fifoVars, passVars
  <2>15. CASE UNCHANGED vars
    BY <2>15, OtherOrder DEF vars, fifoVars, passVars
  <2>16. ASSUME NEW f \in Fps, Rewrite(f)
         PROVE  OrderInv'
    <3>1. UNCHANGED <<pc, cur, nsub, cmdinputcnt>>
      BY <2>16 DEF Rewrite, LoadStatus, StoreStatus, fifoVars, passVars
    <3>2. \A t \in Slot :
            /\ task'[t].queue = task[t].queue /\ task'[t].inputindex = task[t].inputindex
            /\ task'[t].sub = task[t].sub /\ task'[t].status = task[t].status
      BY <2>16, UnquietType DEF Rewrite, LoadStatus, StoreStatus
    <3>. QED
      BY <3>1, <3>2, QuietOrder DEF TypeOK
  <2>17. ASSUME NEW c \in Command, KeyBegin(c)
         PROVE  OrderInv'
    <3>1. pc' # "launch" /\ UNCHANGED <<nsub, cmdinputcnt>>
      BY <2>17 DEF KeyBegin, fifoVars
    <3>2. \A t \in Slot :
            /\ task'[t].queue = task[t].queue /\ task'[t].inputindex = task[t].inputindex
            /\ task'[t].sub = task[t].sub /\ task'[t].status = task[t].status
      <4>. DEFINE tk == Disturb(c)
      <4>1. \A t \in Slot :
              /\ tk[t].queue = task[t].queue /\ tk[t].inputindex = task[t].inputindex
              /\ tk[t].sub = task[t].sub /\ tk[t].status = task[t].status
        BY DisturbType
      <4>2. task' = tk
        BY <2>17 DEF KeyBegin
      <4>. HIDE DEF tk
      <4>. QED
        BY <4>1, <4>2
    <3>. QED
      BY <3>1, <3>2, QuietOrder
  <2>18. CASE KeyEnd
    BY <2>18, OtherOrder DEF KeyEnd, fifoVars
  <2>. QED
    BY <2>1, <2>2, <2>3, <2>4, <2>5, <2>6, <2>7, <2>8, <2>9, <2>10, <2>11, <2>12,
       <2>13, <2>14, <2>15, <2>16, <2>17, <2>18 DEF Next, ReadLine, Scheduler
<1>. QED
  BY <1>1, <1>2, TypeCorrect, PTL DEF Spec

(* OrderInv says more than SequentialQueue. *)
LEMMA OrderImpliesSequential ==
  ASSUME TypeOK, OrderInv
  PROVE  SequentialQueue
<1>. SUFFICES ASSUME NEW s \in Slot, NEW t \in Slot, Started(s), Started(t),
                     task[s].queue = task[t].queue
              PROVE  s = t
  BY DEF SequentialQueue
<1>1. Active(s) /\ Active(t)
  BY DEF Started
<1>2. task[s].inputindex = task[t].inputindex
  BY <1>1, TaskFields DEF OrderInv, StartedIsFirst
<1>3. task[s].sub = task[t].sub
  BY <1>1, <1>2, TaskFields DEF OrderInv, IndexIsSub
<1>. QED
  BY <1>1, <1>3 DEF OrderInv, IndexIsSub

(* Tasks within a queue run sequentially: no two tasks of a queue are      *)
(* launched and not completed.                                             *)
THEOREM Sequential ==
  ASSUME CounterOrders
  PROVE  Spec => []SequentialQueue
BY OrderInvariant, OrderImpliesSequential, TypeCorrect, PTL

=============================================================================
