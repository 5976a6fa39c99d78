------------------------------ MODULE FPSsched ------------------------------
(***************************************************************************)
(* The task scheduler of the fpsCTRL screen (function_parameters.c).  The  *)
(* main loop of functionparameter_CTRLscreen reads command lines from a    *)
(* fifo into a task list, makes one pass over the task queues, launches or *)
(* completes at most one task per queue it examines, and displays.         *)
(*                                                                         *)
(* Beside the scheduler run the RUN processes of the FPS entries: runstart *)
(* types a command into the tmux session of the entry, whose shell starts  *)
(* the process, and the process clears the CMDRUN status bit on its exit.  *)
(* The status word of an FPS is shared: CONF processes rewrite it too, in  *)
(* steps that are not atomic.                                              *)
(*                                                                         *)
(* The FPS entries stay the same ones here; FPStree has the scans that     *)
(* renumber them.                                                          *)
(*                                                                         *)
(* Fields sub and quiet of a task, and nsub, seen and moved, are history:  *)
(* no action's guard reads them.                                           *)
(***************************************************************************)
EXTENDS Integers, FiniteSets

CONSTANTS
  NBqueue,  \* number of queues (NB_FPSCTRL_TASKQUEUE_MAX, 10)
  NBtask,   \* number of entries of the task list (NB_FPSCTRL_TASK_MAX, 1024)
  CntMod,   \* number of values of the uint16_t input counter (65536)
  NBkeep,   \* tasks the scheduler display keeps (wrow - 7)
  Fps,      \* the FPS entries
  Wild,     \* an fpsindex that designates no entry
  Op,       \* the commands the fifo carries
  Key,      \* the commands that keys of the screen give
  Line,     \* the settings the fifo carries
  Prio,     \* the priorities that settings and commands give to queues
  Mode,     \* the display modes the user selects (2: FPS list, 3: scheduler)
  Env,      \* what may happen to runs and status words: "crash", "fastexit", "rewrite"
  MaxSub,   \* bound on the tasks submitted
  MaxKeys   \* bound on the commands typed ahead in a tmux session

Queue == 0 .. NBqueue - 1
Slot == 0 .. NBtask - 1

ASSUME SchedAssumption ==
  /\ NBqueue \in Nat /\ NBqueue >= 2
  /\ NBtask \in Nat /\ NBtask >= 1
  /\ CntMod \in Nat /\ CntMod >= 1
  /\ NBkeep \in Nat
  /\ MaxSub \in Nat
  /\ MaxKeys \in Nat
  /\ Prio \subseteq Int
  /\ Op \subseteq {"runstart", "runstop", "fpsrm", "confupdate", "other", "queueprio", "unknown"}
  /\ Key \subseteq Op
  /\ Wild \notin Fps

(* A command line that becomes a task.  "confupdate" is confwupdate too;   *)
(* "other" stands for confstart, confstop, setval, getval, fwrval, runwait *)
(* and logsymlink, which find their FPS entry and change no task, queue or *)
(* run; the entry of "queueprio" and "unknown" is never looked at.         *)
NoCommand == [op |-> "none"]

Command ==
  [op : Op \ {"queueprio", "unknown"}, fps : Fps]
    \cup [op : Op \cap {"queueprio"}, queue : Queue, prio : Prio]
    \cup [op : Op \cap {"unknown"}]

VARIABLES
  task,         \* fpsctrltasklist
  prio,         \* fpsctrlqueuelist[].priority
  queue,        \* queue that receives the next tasks
  waitonrun,    \* flags that the next tasks receive
  waitonconf,
  cmdinputcnt,  \* input counter, uint16_t
  nsub,         \* number of tasks submitted
  pc,           \* where the main loop is
  plist,        \* priorities, sorted when the pass began
  qi, qx,       \* indices of the pass in plist and in the queues
  cur, sent,    \* the task being launched; was its run command typed?
  kcmd,         \* the command that a key is giving
  seen,         \* queues examined in this pass
  moved,        \* queues whose priority changed in this pass
  cmdrun,       \* status bit CMDRUN of each FPS
  checked,      \* signal bit CHECKED of each FPS: a check is requested
  held,         \* the CMDRUN bits read by rewrites of the status word under way
  keys,         \* run commands typed ahead in the tmux session of each FPS
  busy          \* is a RUN process of the FPS alive?

fifoVars == <<queue, waitonrun, waitonconf, cmdinputcnt, nsub>>
passVars == <<plist, qi, qx, cur, sent, kcmd, seen, moved>>
confVars == <<checked, held>>
runVars  == <<cmdrun, confVars, keys, busy>>
vars     == <<task, prio, fifoVars, pc, passVars, runVars>>

EmptyTask ==
  [status |-> {}, inputindex |-> 0, queue |-> 0, flag |-> {},
   cmd |-> NoCommand, fpsindex |-> Wild, sub |-> 0, quiet |-> FALSE]

Init ==
  /\ task = [s \in Slot |-> EmptyTask]
  /\ prio = [q \in Queue |-> 1]
  /\ queue = 0 /\ waitonrun = FALSE /\ waitonconf = FALSE
  /\ cmdinputcnt = 0 /\ nsub = 0
  /\ pc = "loop"
  /\ plist = [i \in Queue |-> 0] /\ qi = 0 /\ qx = 0
  /\ cur = 0 /\ sent = FALSE /\ kcmd = NoCommand /\ seen = {} /\ moved = {}
  /\ cmdrun = [f \in Fps |-> FALSE] /\ checked = [f \in Fps |-> FALSE]
  /\ held = [f \in Fps |-> {}]
  /\ keys = [f \in Fps |-> 0] /\ busy = [f \in Fps |-> FALSE]

Active(s)  == "ACTIVE" \in task[s].status
Running(s) == "RUNNING" \in task[s].status

-----------------------------------------------------------------------------
(* functionparameter_read_fpsCMD_fifo: one line of the fifo.               *)

FreeSlot == {s \in Slot : task[s].status = {}}

FirstFree(s) == s \in FreeSlot /\ \A t \in FreeSlot : s <= t

(* The line is a command: it becomes the task of the first free entry.     *)
InsertTask(c) ==
  /\ pc = "loop" /\ nsub < MaxSub
  /\ \E s \in Slot :
       /\ FirstFree(s)
       /\ task' = [task EXCEPT ![s] =
            [@ EXCEPT !.status = {"ACTIVE", "SHOW"},
                      !.inputindex = cmdinputcnt,
                      !.queue = queue,
                      !.flag = (IF waitonrun THEN {"WAITONRUN"} ELSE {})
                                 \cup (IF waitonconf THEN {"WAITONCONF"} ELSE {}),
                      !.cmd = c,
                      !.sub = nsub + 1,
                      !.quiet = FALSE]]
  /\ cmdinputcnt' = (cmdinputcnt + 1) % CntMod
  /\ nsub' = nsub + 1
  /\ UNCHANGED <<prio, queue, waitonrun, waitonconf, pc, passVars, runVars>>

(* Even a line that is a setting looks for a free entry first.             *)
ReadsSetting(l) == pc = "loop" /\ l \in Line /\ FreeSlot # {}

TaskCntZero ==
  /\ ReadsSetting("taskcntzero")
  /\ cmdinputcnt' = 0
  /\ UNCHANGED <<task, prio, queue, waitonrun, waitonconf, nsub, pc, passVars, runVars>>

SetQueueIndex(q) ==
  /\ ReadsSetting("setqindex")
  /\ queue' = q
  /\ UNCHANGED <<task, prio, waitonrun, waitonconf, cmdinputcnt, nsub, pc, passVars, runVars>>

(* setqprio raises a negative priority to 0. *)
SetQueuePrio(p) ==
  /\ ReadsSetting("setqprio")
  /\ prio' = [prio EXCEPT ![queue] = IF p < 0 THEN 0 ELSE p]
  /\ UNCHANGED <<task, fifoVars, pc, passVars, runVars>>

SetWaitOnRun(on) ==
  /\ ReadsSetting("waitonrun")
  /\ waitonrun' = on
  /\ UNCHANGED <<task, prio, queue, waitonconf, cmdinputcnt, nsub, pc, passVars, runVars>>

SetWaitOnConf(on) ==
  /\ ReadsSetting("waitonconf")
  /\ waitonconf' = on
  /\ UNCHANGED <<task, prio, queue, waitonrun, cmdinputcnt, nsub, pc, passVars, runVars>>

(* The list is full: the program prints an error and exits. *)
FifoFull ==
  /\ pc = "loop" /\ FreeSlot = {}
  /\ pc' = "exit"
  /\ UNCHANGED <<task, prio, fifoVars, passVars, runVars>>

ReadLine ==
  \/ \E c \in Command : InsertTask(c)
  \/ TaskCntZero
  \/ \E q \in Queue : SetQueueIndex(q)
  \/ \E p \in Prio : SetQueuePrio(p)
  \/ \E on \in BOOLEAN : SetWaitOnRun(on) \/ SetWaitOnConf(on)
  \/ FifoFull

-----------------------------------------------------------------------------
(* function_parameter_process_fpsCMDarray: one pass over the queues.       *)

(* Mutated form of BeginPass: the priorities are not sorted. *)
BeginPass_Unsorted ==
  /\ pc = "loop"
  /\ plist' = [i \in Queue |-> prio[i]]
  /\ qi' = NBqueue - 1 /\ qx' = 0
  /\ pc' = "pass"
  /\ UNCHANGED <<task, prio, fifoVars, cur, sent, kcmd, seen, moved, runVars>>

(* The fifo is empty for now: sort the priorities and start at the top. *)
BeginPass ==
  /\ pc = "loop"
  /\ \E perm \in [Queue -> Queue] :
       /\ \A i, j \in Queue : i # j => perm[i] # perm[j]
       /\ \A i, j \in Queue : i < j => prio[perm[i]] <= prio[perm[j]]
       /\ plist' = [i \in Queue |-> prio[perm[i]]]
  /\ qi' = NBqueue - 1 /\ qx' = 0
  /\ pc' = "pass"
  /\ UNCHANGED <<task, prio, fifoVars, cur, sent, kcmd, seen, moved, runVars>>

(* Mutated forms of Advance: one queue too many, one priority too few. *)
Advance_QueueTooMany ==
  \/ /\ qx < NBqueue
     /\ qx' = qx + 1 /\ pc' = "pass" /\ UNCHANGED qi
  \/ /\ qx = NBqueue /\ qi > 1
     /\ qx' = 0 /\ qi' = qi - 1 /\ pc' = "pass"
  \/ /\ qx = NBqueue /\ qi = 1
     /\ qx' = 0 /\ qi' = 0 /\ pc' = "display"

Advance_TwoLeftOut ==
  \/ /\ qx < NBqueue - 1
     /\ qx' = qx + 1 /\ pc' = "pass" /\ UNCHANGED qi
  \/ /\ qx = NBqueue - 1 /\ qi > 2
     /\ qx' = 0 /\ qi' = qi - 1 /\ pc' = "pass"
  \/ /\ qx = NBqueue - 1 /\ qi <= 2
     /\ qx' = 0 /\ qi' = 0 /\ pc' = "display"

(* The next queue, or the next lower priority: the loop is                 *)
(* for(qi = NBqueue - 1; qi > 0; qi--), so plist[0] is never used.         *)
Advance ==
  \/ /\ qx < NBqueue - 1
     /\ qx' = qx + 1 /\ pc' = "pass" /\ UNCHANGED qi
  \/ /\ qx = NBqueue - 1 /\ qi > 1
     /\ qx' = 0 /\ qi' = qi - 1 /\ pc' = "pass"
  \/ /\ qx = NBqueue - 1 /\ qi = 1
     /\ qx' = 0 /\ qi' = 0 /\ pc' = "display"

(* Queue qx is examined when its priority is the one of the list. *)
Examined == pc = "pass" /\ plist[qi] > 0 /\ plist[qi] = prio[qx]

Queued(q) == {s \in Slot : Active(s) /\ task[s].queue = q}

(* Mutated form of NextTask: the newest task first. *)
NextTask_Newest(q, s) ==
  /\ s \in Queued(q)
  /\ \A t \in Queued(q) : task[s].inputindex >= task[t].inputindex

(* The task of a queue with the smallest input index, the first if equal.  *)
NextTask(q, s) ==
  /\ s \in Queued(q)
  /\ \A t \in Queued(q) :
       \/ task[s].inputindex < task[t].inputindex
       \/ task[s].inputindex = task[t].inputindex /\ s <= t

(* Nothing to do for queue qx. *)
Skip ==
  /\ pc = "pass"
  /\ ~Examined \/ Queued(qx) = {}
  /\ Advance
  /\ seen' = IF Examined THEN seen \cup {qx} ELSE seen
  /\ UNCHANGED <<task, prio, fifoVars, plist, cur, sent, kcmd, moved, runVars>>

(* The tasks that start a run of f are no longer the only ones to touch it. *)
Unquiet(f) ==
  [s \in Slot |->
     IF task[s].cmd.op = "runstart" /\ task[s].cmd.fps = f
     THEN [task[s] EXCEPT !.quiet = FALSE]
     ELSE task[s]]

(* Commands that start or stop a run end the quiet of the tasks of its FPS. *)
Disturb(c) == IF c.op \in {"runstart", "runstop", "fpsrm"} THEN Unquiet(c.fps) ELSE task

(* What functionparameter_FPSprocess_cmdline does up to the external call  *)
(* it waits for.  runstart types the run command into the tmux session if  *)
(* the CHECKOK status bit of the FPS is set, which the CONF process        *)
(* decides; runstop clears CMDRUN before it sends C-c, and so does fpsrm,  *)
(* which then removes the FPS and types exit into its sessions.            *)
CmdBegin(c) ==
  \/ /\ c.op = "runstart"
     /\ \/ /\ keys[c.fps] < MaxKeys
           /\ keys' = [keys EXCEPT ![c.fps] = @ + 1]
           /\ sent' = TRUE
        \/ sent' = FALSE /\ UNCHANGED keys
     /\ UNCHANGED <<prio, moved, cmdrun, confVars, busy>>
  \/ /\ c.op \in {"runstop", "fpsrm"}
     /\ cmdrun' = [cmdrun EXCEPT ![c.fps] = FALSE]
     /\ sent' = FALSE
     /\ UNCHANGED <<prio, moved, confVars, keys, busy>>
  \/ /\ c.op = "confupdate"
     /\ checked' = [checked EXCEPT ![c.fps] = TRUE]
     /\ sent' = FALSE
     /\ UNCHANGED <<prio, moved, cmdrun, held, keys, busy>>
  \/ /\ c.op = "queueprio"
     /\ prio' = [prio EXCEPT ![c.queue] = c.prio]
     /\ moved' = moved \cup {c.queue}
     /\ sent' = FALSE
     /\ UNCHANGED runVars
  \/ /\ c.op \in {"other", "unknown"}
     /\ sent' = FALSE
     /\ UNCHANGED <<prio, moved, runVars>>

Launch(s) ==
  /\ Examined /\ NextTask(qx, s) /\ ~Running(s)
  /\ CmdBegin(task[s].cmd)
  /\ task' = [Disturb(task[s].cmd) EXCEPT ![s].quiet =
                task[s].cmd.op = "runstart"
                  /\ ~busy[task[s].cmd.fps] /\ keys[task[s].cmd.fps] = 0]
  /\ cur' = s
  /\ pc' = "launch"
  /\ seen' = seen \cup {qx}
  /\ UNCHANGED <<fifoVars, plist, qi, qx, kcmd>>

(* Mutated form of CmdEnd: runstart does not set CMDRUN. *)
CmdEnd_NoCmdrun(c) == UNCHANGED runVars

(* What the command does after the external call: runstart sets CMDRUN; a  *)
(* C-c typed over a running process may flush the keys typed ahead.        *)
CmdEnd(c) ==
  \/ /\ c.op = "runstart" /\ sent
     /\ cmdrun' = [cmdrun EXCEPT ![c.fps] = TRUE]
     /\ UNCHANGED <<confVars, keys, busy>>
  \/ /\ c.op \in {"runstop", "fpsrm"} /\ busy[c.fps]
     /\ keys' = [keys EXCEPT ![c.fps] = 0]
     /\ UNCHANGED <<cmdrun, confVars, busy>>
  \/ /\ ~(c.op = "runstart" /\ sent)
     /\ UNCHANGED runVars

(* The fpsindex it returns.  It is the uninitialised local variable of     *)
(* functionparameter_FPSprocess_cmdline if no FPS entry was found.         *)
CmdFpsindex(c) ==
  IF c.op \in {"queueprio", "unknown"} THEN Fps \cup {Wild} ELSE {c.fps}

LaunchEnd ==
  /\ pc = "launch"
  /\ CmdEnd(task[cur].cmd)
  /\ \E f \in CmdFpsindex(task[cur].cmd) :
       task' = [task EXCEPT ![cur].fpsindex = f, ![cur].status = @ \cup {"RUNNING"}]
  /\ Advance
  /\ cur' = 0 /\ sent' = FALSE
  /\ UNCHANGED <<prio, fifoVars, plist, kcmd, seen, moved>>

(* The bit that WAITONCONF tests.  The value of SIGNAL_CHECKED is tested   *)
(* in the status word, where no bit has it.                                *)
StatusChecked(f) == FALSE

(* A flagged task whose fpsindex is wild reads outside of the fps array. *)
ReadsWild(s) == task[s].fpsindex = Wild /\ task[s].flag # {}

(* Mutated form of Waits: the run flag is not tested. *)
Waits_NotOnRun(s) ==
  IF ReadsWild(s) THEN BOOLEAN
  ELSE {"WAITONCONF" \in task[s].flag /\ StatusChecked(task[s].fpsindex)}

(* May the test for the completion of a running task find that it has to   *)
(* wait?  A wild read finds anything.                                      *)
Waits(s) ==
  IF ReadsWild(s) THEN BOOLEAN
  ELSE {\/ "WAITONRUN" \in task[s].flag /\ cmdrun[task[s].fpsindex]
        \/ "WAITONCONF" \in task[s].flag /\ StatusChecked(task[s].fpsindex)}

(* Mutated form of Finished: the task stays in the list. *)
Finished_StaysActive(s) == [task EXCEPT ![s].status = @ \ {"RUNNING"}]

Finished(s) == [task EXCEPT ![s].status = @ \ {"RUNNING", "ACTIVE"}]

Complete(s) ==
  /\ Examined /\ NextTask(qx, s) /\ Running(s)
  /\ FALSE \in Waits(s)
  /\ task' = Finished(s)
  /\ Advance
  /\ seen' = seen \cup {qx}
  /\ UNCHANGED <<prio, fifoVars, plist, cur, sent, kcmd, moved, runVars>>

Hold(s) ==
  /\ Examined /\ NextTask(qx, s) /\ Running(s)
  /\ TRUE \in Waits(s)
  /\ Advance
  /\ seen' = seen \cup {qx}
  /\ UNCHANGED <<task, prio, fifoVars, plist, cur, sent, kcmd, moved, runVars>>

(* The wild read may also fault. *)
WildFault(s) ==
  /\ Examined /\ NextTask(qx, s) /\ Running(s) /\ ReadsWild(s)
  /\ pc' = "exit"
  /\ UNCHANGED <<task, prio, fifoVars, passVars, runVars>>

(* functionparameter_CTRLscreen, after the pass.  The scheduler display    *)
(* (mode 3) sorts the shown tasks by decreasing input index, ties in any   *)
(* order, keeps the first NBkeep and no longer shows the others.           *)
Shown == {s \in Slot : "SHOW" \in task[s].status}

Hide(S) == [s \in Slot |-> [task[s] EXCEPT !.status = IF s \in S THEN @ \ {"SHOW"} ELSE @]]

(* Mutated form of Purge: one task too many is kept. *)
Purge_OneMore ==
  \E old \in SUBSET Shown :
    /\ Cardinality(Shown \ old) =
         (IF Cardinality(Shown) < NBkeep + 1 THEN Cardinality(Shown) ELSE NBkeep + 1)
    /\ \A s \in old, t \in Shown \ old : task[s].inputindex <= task[t].inputindex
    /\ task' = Hide(old)

Purge ==
  \E old \in SUBSET Shown :
    /\ Cardinality(Shown \ old) =
         (IF Cardinality(Shown) < NBkeep THEN Cardinality(Shown) ELSE NBkeep)
    /\ \A s \in old, t \in Shown \ old : task[s].inputindex <= task[t].inputindex
    /\ task' = Hide(old)

Display(mode) ==
  /\ pc = "display"
  /\ \/ mode = 3 /\ Purge
     \/ mode # 3 /\ UNCHANGED task
  /\ pc' = "loop"
  /\ plist' = [i \in Queue |-> 0] /\ seen' = {} /\ moved' = {}
  /\ UNCHANGED <<prio, fifoVars, qi, qx, cur, sent, kcmd, runVars>>

(* functionparameter_CTRLscreen_process_user_key.  Keys R and r start and  *)
(* stop the run of the selected FPS, e and E remove it, P gives any number *)
(* of commands.  A key comes after the display of one iteration and before *)
(* the fifo lines of the next; the purge of the display touches nothing    *)
(* that it does, so that the two may change places.  Key e also skips the  *)
(* fifo, the pass and the display: another key then follows.               *)
KeyBegin(c) ==
  /\ pc = "display" /\ c.op \in Key
  /\ CmdBegin(c)
  /\ task' = Disturb(c)
  /\ kcmd' = c
  /\ pc' = "key"
  /\ UNCHANGED <<fifoVars, plist, qi, qx, cur, seen>>

KeyEnd ==
  /\ pc = "key"
  /\ CmdEnd(kcmd)
  /\ kcmd' = NoCommand /\ sent' = FALSE
  /\ pc' = "display"
  /\ UNCHANGED <<task, prio, fifoVars, plist, qi, qx, cur, seen, moved>>

Scheduler ==
  \/ BeginPass \/ Skip \/ LaunchEnd \/ KeyEnd
  \/ \E s \in Slot : Launch(s) \/ Complete(s) \/ Hold(s) \/ WildFault(s)
  \/ \E mode \in Mode : Display(mode)

-----------------------------------------------------------------------------
(* The RUN and CONF processes of the FPS entries.                          *)

(* The shell of the tmux session, idle, starts the command typed ahead. *)
RunSpawn(f) ==
  /\ keys[f] > 0 /\ ~busy[f]
  /\ keys' = [keys EXCEPT ![f] = @ - 1]
  /\ busy' = [busy EXCEPT ![f] = TRUE]
  /\ UNCHANGED <<task, prio, fifoVars, pc, passVars, cmdrun, confVars>>

(* Is RUNstart(f) between typing the command and setting CMDRUN? *)
Starting(f) ==
  /\ sent
  /\ \/ pc = "launch" /\ task[cur].cmd.fps = f
     \/ pc = "key" /\ kcmd.fps = f

(* Mutated form of RunExit: CMDRUN is left set. *)
RunExit_LeavesCmdrun(f) ==
  /\ busy[f] /\ (Starting(f) => "fastexit" \in Env)
  /\ busy' = [busy EXCEPT ![f] = FALSE]
  /\ UNCHANGED <<task, prio, fifoVars, pc, passVars, cmdrun, confVars, keys>>

(* The run function ends: function_parameter_RUNexit.  A run as short as   *)
(* the rest of RUNstart is allowed by "fastexit" only.                     *)
RunExit(f) ==
  /\ busy[f] /\ (Starting(f) => "fastexit" \in Env)
  /\ busy' = [busy EXCEPT ![f] = FALSE]
  /\ cmdrun' = [cmdrun EXCEPT ![f] = FALSE]
  /\ UNCHANGED <<task, prio, fifoVars, pc, passVars, confVars, keys>>

(* The process is killed, or does not find its FPS, which was removed:     *)
(* nothing clears CMDRUN.                                                  *)
RunCrash(f) ==
  /\ busy[f] /\ "crash" \in Env
  /\ busy' = [busy EXCEPT ![f] = FALSE]
  /\ UNCHANGED <<task, prio, fifoVars, pc, passVars, cmdrun, confVars, keys>>

(* The session ends, by the exit that fpsrm typed or killed, and with it   *)
(* go the commands typed ahead.                                            *)
KeysLost(f) ==
  /\ keys[f] > 0 /\ "crash" \in Env
  /\ keys' = [keys EXCEPT ![f] = 0]
  /\ UNCHANGED <<task, prio, fifoVars, pc, passVars, cmdrun, confVars, busy>>

(* The CONF process has checked the parameters (CheckParametersAll). *)
ConfChecked(f) ==
  /\ checked[f]
  /\ checked' = [checked EXCEPT ![f] = FALSE]
  /\ UNCHANGED <<task, prio, fifoVars, pc, passVars, cmdrun, held, keys, busy>>

(* Status bits of CONF (CONF, RUN, CHECKOK, CMDCONF) are written by a load *)
(* and a store of the whole word: what the store puts back of CMDRUN is    *)
(* what the load found.                                                    *)
LoadStatus(f) ==
  /\ "rewrite" \in Env
  /\ held' = [held EXCEPT ![f] = @ \cup {cmdrun[f]}]
  /\ UNCHANGED <<task, prio, fifoVars, pc, passVars, cmdrun, checked, keys, busy>>

(* Another rewrite under way may have read the same value.  A store that   *)
(* takes CMDRUN back ends the quiet of the tasks that start a run of f.    *)
StoreStatus(f, on) ==
  /\ on \in held[f]
  /\ cmdrun' = [cmdrun EXCEPT ![f] = on]
  /\ held' \in {held, [held EXCEPT ![f] = @ \ {on}]}
  /\ task' = IF cmdrun[f] /\ ~on THEN Unquiet(f) ELSE task
  /\ UNCHANGED <<prio, fifoVars, pc, passVars, checked, keys, busy>>

Process(f) == RunSpawn(f) \/ RunExit(f) \/ RunCrash(f) \/ KeysLost(f) \/ ConfChecked(f)

Rewrite(f) == LoadStatus(f) \/ \E on \in BOOLEAN : StoreStatus(f, on)

Next ==
  \/ ReadLine \/ Scheduler
  \/ \E c \in Command : KeyBegin(c)
  \/ \E f \in Fps : Process(f) \/ Rewrite(f)

Spec == Init /\ [][Next]_vars

(* The main loop runs at 100 Hz and reads what the fifo holds before each  *)
(* pass; the tmux shells and the CONF processes run; a run function ends.  *)
Fairness ==
  /\ WF_vars(Scheduler)
  /\ \A f \in Fps : WF_vars(RunSpawn(f)) /\ WF_vars(RunExit(f)) /\ WF_vars(ConfChecked(f))

FairSpec == Spec /\ Fairness

-----------------------------------------------------------------------------
(* Properties.                                                             *)

Task ==
  [status : SUBSET {"ACTIVE", "RUNNING", "SHOW"}, inputindex : 0 .. CntMod - 1,
   queue : Queue, flag : SUBSET {"WAITONRUN", "WAITONCONF"},
   cmd : Command \cup {NoCommand}, fpsindex : Fps \cup {Wild},
   sub : 0 .. MaxSub, quiet : BOOLEAN]

(* The variables have their types (FPSCTRL_TASK_ENTRY and the statics of   *)
(* functionparameter_read_fpsCMD_fifo); a pass is inside its loops.        *)
TypeOK ==
  /\ task \in [Slot -> Task]
  /\ prio \in [Queue -> Int] /\ plist \in [Queue -> Int]
  /\ queue \in Queue /\ waitonrun \in BOOLEAN /\ waitonconf \in BOOLEAN
  /\ cmdinputcnt \in 0 .. CntMod - 1 /\ nsub \in 0 .. MaxSub
  /\ pc \in {"loop", "pass", "launch", "display", "key", "exit"}
  /\ qi \in Queue /\ qx \in Queue /\ (pc \in {"pass", "launch"} => qi > 0)
  /\ cur \in Slot /\ sent \in BOOLEAN /\ (pc = "launch" => task[cur].cmd \in Command)
  /\ kcmd \in Command \cup {NoCommand} /\ (pc = "key" => kcmd \in Command)
  /\ seen \subseteq Queue /\ moved \subseteq Queue
  /\ held \in [Fps -> SUBSET BOOLEAN]
  /\ cmdrun \in [Fps -> BOOLEAN] /\ checked \in [Fps -> BOOLEAN]
  /\ keys \in [Fps -> 0 .. MaxKeys] /\ busy \in [Fps -> BOOLEAN]

Started(s) == Active(s) /\ (Running(s) \/ (pc = "launch" /\ cur = s))

(* Tasks within a queue run sequentially (function_parameters.h:523): no   *)
(* two tasks of a queue are launched and not completed.                    *)
SequentialQueue ==
  \A s, t \in Slot :
    Started(s) /\ Started(t) /\ task[s].queue = task[t].queue => s = t

(* The task list, the input counter and the pass together implement one    *)
(* first-in first-out server per queue (function_parameters.h:520-523).    *)
Waiting(q) == {s \in Queued(q) : ~Started(s)}
Serving(q) == {s \in Queued(q) : Started(s)}
Subs(S) == {task[s].sub : s \in S}

Abstract ==
  INSTANCE SeqQueue WITH
    waiting <- [q \in Queue |-> Subs(Waiting(q))],
    serving <- [q \in Queue |-> Subs(Serving(q))]

QueuesInOrder == Abstract!QSpec

(* Why tasks are served in order: the input index of a queued task is the  *)
(* number of its submission, and the task that a queue has started is the  *)
(* queued one with the smallest.  It holds while the input counter is not  *)
(* set back and does not wrap.                                             *)
IndexIsSub ==
  /\ nsub < CntMod => cmdinputcnt = nsub
  /\ \A s \in Slot :
       Active(s) => task[s].sub \in 1 .. nsub /\ task[s].inputindex = task[s].sub - 1
  /\ \A s, t \in Slot : Active(s) /\ Active(t) /\ task[s].sub = task[t].sub => s = t

StartedIsFirst ==
  /\ pc = "launch" => Active(cur) /\ ~Running(cur)
  /\ \A s, t \in Slot :
       Started(s) /\ Active(t) /\ task[s].queue = task[t].queue
         => task[s].inputindex <= task[t].inputindex

OrderInv == IndexIsSub /\ StartedIsFirst

(* WAITONRUN blocks the queue while the CMDRUN bit of the FPS is set       *)
(* (function_parameters.h:495): no step completes the task or starts       *)
(* another task of its queue.                                              *)
QueueBlocked ==
  [][\A s \in Slot :
       Running(s) /\ "WAITONRUN" \in task[s].flag /\ ~ReadsWild(s)
         /\ cmdrun[task[s].fpsindex]
       => /\ Running(s)'
          /\ \A t \in Queued(task[s].queue) \ {s} : ~Started(t)']_vars

(* s starts a run and is completed by this step. *)
RunTaskEnds(s) ==
  /\ Running(s) /\ ~Running(s)'
  /\ "WAITONRUN" \in task[s].flag /\ task[s].cmd.op = "runstart"

RunOver(f) == ~busy[f] /\ keys[f] = 0

(* A WAITONRUN task that starts a run is completed only when that run is   *)
(* over, if the FPS was idle when it was launched and since then no task   *)
(* and no key started, stopped or removed a run of that FPS, and no        *)
(* rewrite of its status word took CMDRUN back (RUNstart, RUNstop,         *)
(* RUNexit and the test at the completion share one bit of that word).     *)
WaitOnRunAlone ==
  [][\A s \in Slot :
       RunTaskEnds(s) /\ task[s].quiet => RunOver(task[s].cmd.fps)]_vars

(* function_parameters.c:5523, "are we waiting for conf update to be       *)
(* completed ?": a WAITONCONF task that requested a parameter check is     *)
(* completed only when no check of that FPS is pending.                    *)
WaitOnConf ==
  [][\A s \in Slot :
       /\ Running(s) /\ ~Running(s)'
       /\ "WAITONCONF" \in task[s].flag /\ task[s].cmd.op = "confupdate"
       => ~checked[task[s].cmd.fps]]_vars

(* High number is high priority (function_parameters.h:508): in a pass, no *)
(* queue is examined before a queue of higher priority, as long as no task *)
(* of the pass and no key has changed either priority.                     *)
PriorityOrder ==
  \A q \in seen \ moved, r \in Queue \ moved : prio[r] > prio[q] => r \in seen

(* A pass examines every queue that is active (priority above 0), unless   *)
(* its priority changed in the pass or it is lower than all others.        *)
PassComplete ==
  pc = "display" =>
    \A q \in Queue \ moved :
      prio[q] > 0 /\ (\E r \in Queue \ (moved \cup {q}) : prio[r] <= prio[q])
        => q \in seen

(* While the scheduler is displayed, finished tasks do not fill the task   *)
(* list: when lines are read, at most NBkeep entries hold finished tasks.  *)
FinishedBounded ==
  pc = "loop" => Cardinality({s \in Slot : task[s].status = {"SHOW"}}) <= NBkeep

(* Every task of a queue that the passes examine for ever is completed.    *)
Submitted(n, q) == \E s \in Queued(q) : task[s].sub = n

Examinable(q) == prio[q] > 0 /\ \E r \in Queue \ {q} : prio[r] <= prio[q]

TaskServed ==
  \A n \in 1 .. MaxSub, q \in Queue :
    <>[]Examinable(q) => (Submitted(n, q) ~> ~Submitted(n, q))

=============================================================================
