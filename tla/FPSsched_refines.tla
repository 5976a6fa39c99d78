-------------------------- MODULE FPSsched_refines --------------------------
(***************************************************************************)
(* Proofs about FPSsched that rest on its order invariant: the scheduler   *)
(* implements SeqQueue, one first-in first-out server per queue, and a     *)
(* queue that waits on a run stays blocked.                                *)
(***************************************************************************)
EXTENDS FPSsched_proofs

-----------------------------------------------------------------------------
(* The refinement of SeqQueue.                                             *)

(* What the queues show is left alone. *)
QueuesKept ==
  /\ UNCHANGED nsub
  /\ \A s \in Slot :
       /\ task'[s].queue = task[s].queue /\ task'[s].sub = task[s].sub
       /\ Active(s)' <=> Active(s)
       /\ Started(s)' <=> Started(s)

(* Such a step is a stutter of SeqQueue. *)
LEMMA KeptStutters ==
  ASSUME QueuesKept
  PROVE  UNCHANGED Abstract!qvars
<1>1. \A q \in Queue : Waiting(q)' = Waiting(q) /\ Serving(q)' = Serving(q)
  BY DEF QueuesKept, Waiting, Serving, Queued
<1>2. \A S \in SUBSET Slot : Subs(S)' = Subs(S)
  BY DEF QueuesKept, Subs
<1>3. \A q \in Queue : Waiting(q) \subseteq Slot /\ Serving(q) \subseteq Slot
  BY DEF Waiting, Serving, Queued
<1>4. \A q \in Queue : Subs(Waiting(q))' = Subs(Waiting(q)) /\ Subs(Serving(q))' = Subs(Serving(q))
  BY <1>1, <1>2, <1>3 DEF Subs
<1>. QED
  BY <1>4 DEF QueuesKept, Abstract!qvars

(* Reading a command submits it to its queue. *)
LEMMA InsertSubmits ==
  ASSUME TypeOK, NEW c \in Command, InsertTask(c)
  PROVE  Abstract!Submit(queue)
<1>1. PICK s \in Slot :
        /\ FirstFree(s)
        /\ task' = [task EXCEPT ![s] =
            [@ EXCEPT !.status = {"ACTIVE", "SHOW"},
                      !.inputindex = cmdinputcnt,
                      !.queue = queue,
                      !.flag = (IF waitonrun THEN {"WAITONRUN"} ELSE {})
                                 \cup (IF waitonconf THEN {"WAITONCONF"} ELSE {}),
                      !.cmd = c,
                      !.sub = nsub + 1,
                      !.quiet = FALSE]]
  BY DEF InsertTask
<1>2. ~Active(s) /\ pc = "loop" /\ pc' = "loop"
  BY <1>1 DEF InsertTask, FirstFree, FreeSlot, Active
<1>3. /\ task'[s].status = {"ACTIVE", "SHOW"} /\ task'[s].queue = queue /\ task'[s].sub = nsub + 1
      /\ \A t \in Slot \ {s} : task'[t] = task[t]
  BY <1>1 DEF TypeOK, Task
<1>4. \A q \in Queue : Serving(q)' = Serving(q) /\ s \notin Serving(q)
  BY <1>2, <1>3 DEF Serving, Queued, Started, Active, Running
<1>5. \A q \in Queue : Waiting(q)' = IF q = queue THEN Waiting(q) \cup {s} ELSE Waiting(q)
  BY <1>2, <1>3 DEF Waiting, Queued, Started, Active, Running
<1>6. \A q \in Queue : Waiting(q) \subseteq Slot \ {s} /\ Serving(q) \subseteq Slot \ {s}
  BY <1>2, <1>4 DEF Waiting, Serving, Queued
<1>7. \A S \in SUBSET (Slot \ {s}) : Subs(S)' = Subs(S) /\ Subs(S \cup {s})' = Subs(S) \cup {nsub + 1}
  BY <1>3 DEF Subs
<1>8. \A q \in Queue : Subs(Serving(q))' = Subs(Serving(q))
  BY <1>4, <1>6, <1>7 DEF Subs
<1>9. \A q \in Queue : Subs(Waiting(q))' =
        IF q = queue THEN Subs(Waiting(q)) \cup {nsub + 1} ELSE Subs(Waiting(q))
  BY <1>5, <1>6, <1>7 DEF Subs
<1>10. nsub' = nsub + 1 /\ queue \in Queue
  BY DEF InsertTask, TypeOK
<1>. QED
  BY <1>8, <1>9, <1>10 DEF Abstract!Submit

(* Launching the task that NextTask found starts the oldest of the queue,  *)
(* which serves no other.                                                  *)
LEMMA LaunchStarts ==
  ASSUME TypeOK, OrderInv, NEW s \in Slot, Launch(s)
  PROVE  Abstract!Start(qx)
<1>1. \A t \in Slot :
        /\ task'[t].queue = task[t].queue /\ task'[t].inputindex = task[t].inputindex
        /\ task'[t].sub = task[t].sub /\ task'[t].status = task[t].status
  BY LaunchTask
<1>2. /\ Active(s) /\ task[s].queue = qx /\ ~Running(s) /\ cur' = s /\ pc = "pass" /\ pc' = "launch"
      /\ UNCHANGED nsub /\ qx \in Queue
  BY DEF Launch, NextTask, Examined, fifoVars, Queued, TypeOK
<1>3. \A t \in Queued(qx) : task[s].inputindex <= task[t].inputindex
  BY TaskFields DEF Launch, NextTask, Queued
<1>4. Serving(qx) = {}
  <2>. SUFFICES ASSUME NEW t \in Serving(qx)
                PROVE  FALSE
    OBVIOUS
  <2>1. t \in Slot /\ Active(t) /\ task[t].queue = qx /\ Started(t)
    BY DEF Serving, Queued
  <2>2. task[t].inputindex = task[s].inputindex
    BY <1>2, <1>3, <2>1, TaskFields DEF OrderInv, StartedIsFirst, Queued
  <2>3. t = s
    BY <1>2, <2>1, <2>2, TaskFields DEF OrderInv, IndexIsSub
  <2>. QED
    BY <1>2, <2>1, <2>3 DEF Started
<1>5. \A t \in Slot : Active(t)' <=> Active(t)
  BY <1>1 DEF Active
<1>6. \A t \in Slot : Started(t)' <=> Started(t) \/ t = s
  BY <1>1, <1>2 DEF Started, Active, Running
<1>7. ~Started(s) /\ s \in Waiting(qx)
  BY <1>2 DEF Started, Waiting, Queued
<1>8. \A q \in Queue : Waiting(q)' = Waiting(q) \ {s}
  BY <1>1, <1>5, <1>6 DEF Waiting, Queued
<1>9. \A q \in Queue : Serving(q)' = IF q = qx THEN {s} ELSE Serving(q)
  <2>1. \A q \in Queue : Serving(q)' = Serving(q) \cup (IF q = qx THEN {s} ELSE {})
    BY <1>1, <1>2, <1>5, <1>6 DEF Serving, Queued
  <2>. QED
    BY <1>4, <2>1
<1>10. \A S \in SUBSET Slot : Subs(S)' = Subs(S)
  BY <1>1 DEF Subs
<1>11. \A q \in Queue : Waiting(q) \subseteq Slot /\ Serving(q) \subseteq Slot
  BY DEF Waiting, Serving, Queued
<1>12. \A q \in Queue : Subs(Serving(q))' = IF q = qx THEN {task[s].sub} ELSE Subs(Serving(q))
  <2>1. Subs({s}) = {task[s].sub}
    BY DEF Subs
  <2>2. ASSUME NEW q \in Queue
        PROVE  Subs(Serving(q))' = IF q = qx THEN {task[s].sub} ELSE Subs(Serving(q))
    <3>1. Subs(Serving(q))' = {task'[t].sub : t \in Serving(q)'}
      BY DEF Subs
    <3>. QED
      BY <1>1, <1>9, <1>11, <3>1 DEF Subs
  <2>. QED
    BY <2>2
<1>13. \A q \in Queue : Subs(Waiting(q))' = IF q = qx THEN Subs(Waiting(q)) \ {task[s].sub}
                                              ELSE Subs(Waiting(q))
  <2>1. \A q \in Queue : \A t \in Waiting(q) : t # s => task[t].sub # task[s].sub
    BY <1>2 DEF OrderInv, IndexIsSub, Waiting, Queued
  <2>2. \A q \in Queue : q # qx => s \notin Waiting(q)
    BY <1>2 DEF Waiting, Queued
  <2>3. ASSUME NEW q \in Queue
        PROVE  Subs(Waiting(q))' = IF q = qx THEN Subs(Waiting(q)) \ {task[s].sub}
                                     ELSE Subs(Waiting(q))
    <3>1. Subs(Waiting(q))' = {task'[t].sub : t \in Waiting(q)'}
      BY DEF Subs
    <3>2. Subs(Waiting(q))' = {task[t].sub : t \in Waiting(q) \ {s}}
      BY <1>1, <1>8, <1>11, <3>1
    <3>3. CASE q = qx
      BY <2>1, <3>2, <3>3 DEF Subs
    <3>4. CASE q # qx
      BY <2>2, <3>2, <3>4 DEF Subs
    <3>. QED
      BY <3>3, <3>4
  <2>. QED
    BY <2>3
<1>14. task[s].sub \in Subs(Waiting(qx))
  BY <1>7 DEF Subs
<1>15. \A m \in Subs(Waiting(qx)) : task[s].sub <= m
  <2>. SUFFICES ASSUME NEW t \in Waiting(qx)
                PROVE  task[s].sub <= task[t].sub
    BY DEF Subs
  <2>1. t \in Queued(qx) /\ t \in Slot /\ Active(t)
    BY DEF Waiting, Queued
  <2>. QED
    BY <1>2, <1>3, <2>1, TaskFields DEF OrderInv, IndexIsSub
<1>16. Subs(Serving(qx)) = {}
  BY <1>4 DEF Subs
<1>. QED
  BY <1>2, <1>12, <1>13, <1>14, <1>15, <1>16, ZenonT(60) DEF Abstract!Start

(* Completing a task finishes what its queue serves. *)
LEMMA CompleteFinishes ==
  ASSUME TypeOK, OrderInv, NEW s \in Slot, Complete(s)
  PROVE  Abstract!Finish(qx)
<1>1. \A t \in Slot :
        /\ task'[t].queue = task[t].queue /\ task'[t].sub = task[t].sub
        /\ t # s => task'[t].status = task[t].status
        /\ t = s => task'[t].status = task[t].status \ {"RUNNING", "ACTIVE"}
  BY DEF Complete, Finished, TypeOK, Task
<1>2. /\ Active(s) /\ task[s].queue = qx /\ Running(s) /\ pc = "pass" /\ pc' # "launch"
      /\ UNCHANGED nsub /\ qx \in Queue
  BY DEF Complete, NextTask, Examined, fifoVars, Queued, Advance, TypeOK
<1>3. \A t \in Slot : Active(t)' <=> Active(t) /\ t # s
  BY <1>1 DEF Active
<1>4. \A t \in Slot : Started(t)' <=> Started(t) /\ t # s
  BY <1>1, <1>2 DEF Started, Active, Running
<1>5. s \in Serving(qx) /\ \A t \in Serving(qx) : t = s
  <2>1. SequentialQueue
    BY OrderImpliesSequential
  <2>. QED
    BY <1>2, <2>1 DEF Serving, Queued, Started, SequentialQueue
<1>6. \A q \in Queue : Waiting(q)' = Waiting(q)
  BY <1>1, <1>2, <1>3, <1>4 DEF Waiting, Queued, Started
<1>7. \A q \in Queue : Serving(q)' = IF q = qx THEN {} ELSE Serving(q)
  <2>1. \A q \in Queue : Serving(q)' = Serving(q) \ {s}
    BY <1>1, <1>3, <1>4 DEF Serving, Queued
  <2>2. \A q \in Queue : q # qx => s \notin Serving(q)
    BY <1>2 DEF Serving, Queued
  <2>. QED
    BY <1>5, <2>1, <2>2
<1>8. \A q \in Queue : Waiting(q) \subseteq Slot /\ Serving(q) \subseteq Slot
  BY DEF Waiting, Serving, Queued
<1>9. \A q \in Queue : Subs(Waiting(q))' = Subs(Waiting(q))
  BY <1>1, <1>6, <1>8 DEF Subs
<1>10. \A q \in Queue : Subs(Serving(q))' = IF q = qx THEN {} ELSE Subs(Serving(q))
  BY <1>1, <1>7, <1>8 DEF Subs
<1>11. Subs(Serving(qx)) # {}
  BY <1>5 DEF Subs
<1>. QED
  BY <1>2, <1>9, <1>10, <1>11 DEF Abstract!Finish

(* Steps that leave the tasks as they are, or change what SeqQueue does    *)
(* not see of them.                                                        *)
LEMMA OtherKept ==
  ASSUME UNCHANGED <<task, nsub>>,
         \/ pc' # "launch" /\ pc # "launch"
         \/ UNCHANGED <<pc, cur>>
  PROVE  QueuesKept
BY DEF QueuesKept, Started, Active, Running

(* The task that has been launched is a running one now. *)
LEMMA LaunchEndKept ==
  ASSUME TypeOK, OrderInv, LaunchEnd
  PROVE  QueuesKept
<1>1. PICK f \in CmdFpsindex(task[cur].cmd) :
        task' = [task EXCEPT ![cur].fpsindex = f, ![cur].status = @ \cup {"RUNNING"}]
  BY DEF LaunchEnd
<1>2. pc = "launch" /\ Active(cur) /\ cur \in Slot
  BY DEF LaunchEnd, TypeOK, OrderInv, StartedIsFirst
<1>3. \A t \in Slot :
        /\ task'[t].queue = task[t].queue /\ task'[t].sub = task[t].sub
        /\ t # cur => task'[t].status = task[t].status
        /\ t = cur => task'[t].status = task[t].status \cup {"RUNNING"}
  BY <1>1 DEF TypeOK, Task
<1>4. pc' # "launch" /\ UNCHANGED nsub
  BY DEF LaunchEnd, Advance, fifoVars
<1>. QED
  BY <1>2, <1>3, <1>4 DEF QueuesKept, Started, Active, Running

(* What is hidden is a task of no queue, or stays in its queue. *)
LEMMA DisplayKept ==
  ASSUME TypeOK, NEW mode \in Mode, Display(mode)
  PROVE  QueuesKept
<1>1. \A t \in Slot :
        /\ task'[t].queue = task[t].queue /\ task'[t].sub = task[t].sub
        /\ "ACTIVE" \in task'[t].status <=> "ACTIVE" \in task[t].status
        /\ "RUNNING" \in task'[t].status <=> "RUNNING" \in task[t].status
  <2>1. CASE UNCHANGED task
    BY <2>1
  <2>2. CASE Purge
    <3>1. PICK old \in SUBSET Shown : task' = Hide(old)
      BY <2>2 DEF Purge
    <3>. QED
      BY <3>1 DEF Hide, TypeOK, Task
  <2>. QED
    BY <2>1, <2>2 DEF Display
<1>2. pc = "display" /\ pc' = "loop" /\ UNCHANGED nsub
  BY DEF Display, fifoVars
<1>. QED
  BY <1>1, <1>2 DEF QueuesKept, Started, Active, Running

(* Commands of keys and rewrites of a status word change no field of a     *)
(* task but quiet.                                                         *)
LEMMA QuietTask ==
  ASSUME TypeOK, (\E c \in Command : KeyBegin(c)) \/ (\E f \in Fps : Rewrite(f))
  PROVE  /\ \A t \in Slot :
              /\ task'[t].queue = task[t].queue /\ task'[t].sub = task[t].sub
              /\ task'[t].status = task[t].status /\ task'[t].flag = task[t].flag
              /\ task'[t].cmd = task[t].cmd /\ task'[t].fpsindex = task[t].fpsindex
              /\ task'[t].quiet => task[t].quiet
         /\ UNCHANGED nsub
         /\ pc' = "launch" => pc = "launch" /\ cur' = cur /\ sent' = sent
<1>1. ASSUME NEW c \in Command, KeyBegin(c)
      PROVE  /\ task' = Disturb(c)
             /\ UNCHANGED nsub /\ pc' # "launch"
  BY <1>1 DEF KeyBegin, fifoVars
<1>2. ASSUME NEW f \in Fps, Rewrite(f)
      PROVE  /\ task' = task \/ task' = Unquiet(f)
             /\ UNCHANGED <<nsub, pc, cur, sent>>
  BY <1>2 DEF Rewrite, LoadStatus, StoreStatus, fifoVars, passVars
<1>3. \A c : \A t \in Slot :
        /\ Disturb(c)[t].queue = task[t].queue /\ Disturb(c)[t].sub = task[t].sub
        /\ Disturb(c)[t].status = task[t].status /\ Disturb(c)[t].flag = task[t].flag
        /\ Disturb(c)[t].cmd = task[t].cmd /\ Disturb(c)[t].fpsindex = task[t].fpsindex
        /\ Disturb(c)[t].quiet => task[t].quiet
  BY DisturbType
<1>4. \A f : \A t \in Slot :
        /\ Unquiet(f)[t].queue = task[t].queue /\ Unquiet(f)[t].sub = task[t].sub
        /\ Unquiet(f)[t].status = task[t].status /\ Unquiet(f)[t].flag = task[t].flag
        /\ Unquiet(f)[t].cmd = task[t].cmd /\ Unquiet(f)[t].fpsindex = task[t].fpsindex
        /\ Unquiet(f)[t].quiet => task[t].quiet
  BY UnquietType
<1>. QED
  BY <1>1, <1>2, <1>3, <1>4

(* They are stutters of SeqQueue. *)
LEMMA QuietKept ==
  ASSUME TypeOK, (\E c \in Command : KeyBegin(c)) \/ (\E f \in Fps : Rewrite(f))
  PROVE  QueuesKept
<1>1. \A s \in Slot :
        /\ task'[s].queue = task[s].queue /\ task'[s].sub = task[s].sub
        /\ task'[s].status = task[s].status
  BY QuietTask
<1>2. UNCHANGED nsub
  BY QuietTask
<1>3. (pc # "launch" /\ pc' # "launch") \/ UNCHANGED <<pc, cur>>
  BY DEF KeyBegin, Rewrite, LoadStatus, StoreStatus, passVars
<1>. QED
  BY <1>1, <1>2, <1>3 DEF QueuesKept, Started, Active, Running

(* The scheduler implements SeqQueue (QueuesInOrder): per queue, tasks are *)
(* served one at a time in the order in which they were submitted.         *)
THEOREM Refinement ==
  ASSUME CounterOrders
  PROVE  Spec => QueuesInOrder
<1>1. ASSUME Init
      PROVE  Abstract!QInit
  <2>1. \A s \in Slot : ~Active(s)
    BY <1>1 DEF Init, Active, EmptyTask
  <2>2. \A q \in Queue : Waiting(q) = {} /\ Serving(q) = {}
    BY <2>1 DEF Waiting, Serving, Queued
  <2>. QED
    BY <1>1, <2>2 DEF Init, Abstract!QInit, Subs
<1>2. ASSUME TypeOK, OrderInv, [Next]_vars
      PROVE  [Abstract!QNext]_Abstract!qvars
  <2>. USE <1>2
  <2>1. ASSUME NEW c \in Command, InsertTask(c)
        PROVE  Abstract!QNext
    <3>1. queue \in Queue
      BY DEF TypeOK
    <3>. QED
      BY <2>1, <3>1, InsertSubmits DEF Abstract!QNext
  <2>2. ASSUME NEW s \in Slot, Launch(s)
        PROVE  Abstract!QNext
    <3>1. qx \in Queue
      BY DEF TypeOK
    <3>. QED
      BY <2>2, <3>1, LaunchStarts DEF Abstract!QNext
  <2>3. ASSUME NEW s \in Slot, Complete(s)
        PROVE  Abstract!QNext
    <3>1. qx \in Queue
      BY DEF TypeOK
    <3>. QED
      BY <2>3, <3>1, CompleteFinishes DEF Abstract!QNext
  <2>4. CASE \/ TaskCntZero \/ FifoFull
             \/ \E q \in Queue : SetQueueIndex(q)
             \/ \E p \in Prio : SetQueuePrio(p)
             \/ \E on \in BOOLEAN : SetWaitOnRun(on) \/ SetWaitOnConf(on)
    <3>1. UNCHANGED <<task, nsub>> /\ pc = "loop" /\ pc' # "launch"
      BY <2>4 DEF TaskCntZero, FifoFull, SetQueueIndex, SetQueuePrio, SetWaitOnRun, SetWaitOnConf,
           ReadsSetting, fifoVars
    <3>. QED
      BY <3>1, OtherKept, KeptStutters
  <2>5. CASE BeginPass \/ Skip
    <3>1. UNCHANGED <<task, nsub>> /\ pc # "launch" /\ pc' # "launch"
      BY <2>5 DEF BeginPass, Skip, Advance, fifoVars
    <3>. QED
      BY <3>1, OtherKept, KeptStutters
  <2>6. ASSUME NEW s \in Slot, Hold(s) \/ WildFault(s)
        PROVE  UNCHANGED Abstract!qvars
    <3>1. UNCHANGED <<task, nsub>> /\ pc # "launch" /\ pc' # "launch"
      BY <2>6 DEF Hold, WildFault, Advance, Examined, fifoVars
    <3>. QED
      BY <3>1, OtherKept, KeptStutters
  <2>7. CASE LaunchEnd
    BY <2>7, LaunchEndKept, KeptStutters
  <2>8. ASSUME NEW mode \in Mode, Display(mode)
        PROVE  UNCHANGED Abstract!qvars
    BY <2>8, DisplayKept, KeptStutters
  <2>9. ASSUME NEW f \in Fps, Process(f)
        PROVE  UNCHANGED Abstract!qvars
    <3>1. UNCHANGED <<task, nsub, pc, cur>>
      BY <2>9 DEF Process, RunSpawn, RunExit, RunCrash, KeysLost, ConfChecked, fifoVars, passVars
    <3>. QED
      BY <3>1, OtherKept, KeptStutters
  <2>11. CASE (\E c \in Command : KeyBegin(c)) \/ (\E f \in Fps : Rewrite(f))
    BY <2>11, QuietKept, KeptStutters
  <2>12. CASE KeyEnd
    <3>1. UNCHANGED <<task, nsub>> /\ pc # "launch" /\ pc' # "launch"
      BY <2>12 DEF KeyEnd, fifoVars
    <3>. QED
      BY <3>1, OtherKept, KeptStutters
  <2>10. CASE UNCHANGED vars
    <3>1. UNCHANGED <<task, nsub, pc, cur>>
      BY <2>10 DEF vars, fifoVars, passVars
    <3>. QED
      BY <3>1, OtherKept, KeptStutters
  <2>. QED
    BY <2>1, <2>2, <2>3, <2>4, <2>5, <2>6, <2>7, <2>8, <2>9, <2>10, <2>11, <2>12
    DEF Next, ReadLine, Scheduler
<1>. QED
  BY <1>1, <1>2, TypeCorrect, OrderInvariant, PTL DEF Spec, QueuesInOrder, Abstract!QSpec

-----------------------------------------------------------------------------
(* Waiting on a run.                                                       *)

(* A command typed for f and not yet started by the shell, or the process  *)
(* it started, but not both and not two of them.                           *)
OneRun(f) == keys[f] <= 1 /\ (busy[f] => keys[f] = 0)

(* Why WAITONRUN waits: a running task is queued, and while a task that    *)
(* starts a run is quiet, that run is the only one of its FPS, fpsindex    *)
(* names this FPS, and CMDRUN is clear only when the run is over.          *)
QuietInv(s) ==
  task[s].quiet /\ task[s].cmd.op = "runstart" =>
    LET f == task[s].cmd.fps
    IN  /\ pc = "launch" /\ cur = s => OneRun(f) /\ (~sent => RunOver(f))
        /\ Running(s) => /\ task[s].fpsindex = f
                         /\ OneRun(f) /\ (~cmdrun[f] => RunOver(f))

RunInv ==
  /\ pc = "launch" => Active(cur)
  /\ \A s \in Slot : Running(s) => Active(s)
  /\ \A s \in Slot : QuietInv(s)

(* A quiet task keeps QuietInv while it and the run of its FPS are left    *)
(* alone.                                                                  *)
LEMMA QuietFrame ==
  ASSUME NEW s \in Slot, QuietInv(s),
         task'[s].quiet => task[s].quiet,
         task'[s].cmd = task[s].cmd, task'[s].fpsindex = task[s].fpsindex,
         Running(s)' => Running(s),
         pc' = "launch" /\ cur' = s => pc = "launch" /\ cur = s /\ sent' = sent,
         task'[s].quiet /\ task[s].cmd.op = "runstart" =>
           LET f == task[s].cmd.fps
           IN  keys'[f] = keys[f] /\ busy'[f] = busy[f] /\ cmdrun'[f] = cmdrun[f]
  PROVE  QuietInv(s)'
BY DEF QuietInv, OneRun, RunOver

(* The FPS that a task starts a run of is one. *)
LEMMA RunFps ==
  ASSUME TypeOK, NEW s \in Slot, task[s].cmd.op \in {"runstart", "runstop", "fpsrm"}
  PROVE  task[s].cmd.fps \in Fps
<1>1. task[s].cmd \in Command \cup {NoCommand}
  BY DEF TypeOK, Task
<1>. QED
  BY <1>1, CommandType

(* A task just read is not quiet and does not run. *)
LEMMA InsertRun ==
  ASSUME TypeOK, RunInv, NEW c \in Command, InsertTask(c)
  PROVE  RunInv'
<1>1. PICK s \in Slot :
        task' = [task EXCEPT ![s] =
            [@ EXCEPT !.status = {"ACTIVE", "SHOW"},
                      !.inputindex = cmdinputcnt,
                      !.queue = queue,
                      !.flag = (IF waitonrun THEN {"WAITONRUN"} ELSE {})
                                 \cup (IF waitonconf THEN {"WAITONCONF"} ELSE {}),
                      !.cmd = c,
                      !.sub = nsub + 1,
                      !.quiet = FALSE]]
  BY DEF InsertTask
<1>2. /\ task'[s].status = {"ACTIVE", "SHOW"} /\ ~task'[s].quiet
      /\ \A t \in Slot \ {s} : task'[t] = task[t]
  BY <1>1 DEF TypeOK, Task
<1>3. pc' # "launch" /\ UNCHANGED runVars
  BY DEF InsertTask
<1>4. \A t \in Slot : Running(t)' => Active(t)'
  BY <1>2 DEF RunInv, Running, Active
<1>5. QuietInv(s)'
  BY <1>2 DEF QuietInv
<1>6. ASSUME NEW t \in Slot \ {s}
      PROVE  QuietInv(t)'
  <2>1. QuietInv(t)
    BY DEF RunInv
  <2>. QED
    BY <1>2, <1>3, <2>1, QuietFrame DEF Running, runVars
<1>. QED
  BY <1>3, <1>4, <1>5, <1>6 DEF RunInv

(* What a command does to the runs of other FPS entries, up to the         *)
(* external call ...                                                       *)
LEMMA CmdBeginRuns ==
  ASSUME TypeOK, NEW c \in Command \cup {NoCommand}, CmdBegin(c), NEW g \in Fps,
         ~(c.op \in {"runstart", "runstop", "fpsrm"} /\ c.fps = g)
  PROVE  keys'[g] = keys[g] /\ busy'[g] = busy[g] /\ cmdrun'[g] = cmdrun[g]
<1>1. c.op \in {"runstart", "runstop", "fpsrm"} => c.fps \in Fps
  BY CommandType
<1>2. CASE c.op = "runstart"
  BY <1>1, <1>2 DEF CmdBegin, TypeOK
<1>3. CASE c.op \in {"runstop", "fpsrm"}
  BY <1>1, <1>3 DEF CmdBegin, TypeOK
<1>4. CASE c.op \notin {"runstart", "runstop", "fpsrm"}
  BY <1>4 DEF CmdBegin, runVars
<1>. QED
  BY <1>2, <1>3, <1>4

(* ... and after it: CMDRUN is at most set, commands typed ahead are at    *)
(* most flushed.                                                           *)
LEMMA CmdEndRuns ==
  ASSUME TypeOK, NEW c, CmdEnd(c), NEW g \in Fps
  PROVE  /\ keys'[g] = keys[g] \/ keys'[g] = 0
         /\ ~cmdrun'[g] => ~cmdrun[g]
         /\ busy'[g] = busy[g]
<1>. DEFINE f == c.fps
<1>1. CASE c.op = "runstart" /\ sent
  BY <1>1 DEF CmdEnd, TypeOK
<1>2. CASE c.op \in {"runstop", "fpsrm"} /\ busy[f] /\ ~(c.op = "runstart" /\ sent)
  BY <1>2 DEF CmdEnd, TypeOK, runVars
<1>3. CASE ~(c.op = "runstart" /\ sent) /\ ~(c.op \in {"runstop", "fpsrm"} /\ busy[f])
  BY <1>3 DEF CmdEnd, runVars
<1>. QED
  BY <1>1, <1>2, <1>3

(* Launching a task ends the quiet of the others that start a run of its   *)
(* FPS; the task itself is quiet only if no run of that FPS is left.       *)
LEMMA LaunchRun ==
  ASSUME TypeOK, RunInv, NEW s \in Slot, Launch(s)
  PROVE  RunInv'
<1>. DEFINE c == task[s].cmd
            f == task[s].cmd.fps
<1>1. \A t \in Slot :
        /\ task'[t].cmd = task[t].cmd /\ task'[t].status = task[t].status
        /\ task'[t].fpsindex = task[t].fpsindex
        /\ t # s /\ task'[t].quiet => task[t].quiet
        /\ t # s /\ task'[t].quiet => ~(/\ c.op \in {"runstart", "runstop", "fpsrm"}
                                        /\ task[t].cmd.op = "runstart" /\ task[t].cmd.fps = f)
  BY LaunchTask
<1>2. task'[s].quiet => c.op = "runstart" /\ ~busy[f] /\ keys[f] = 0
  BY LaunchTask
<1>3. /\ Active(s) /\ ~Running(s) /\ cur' = s /\ pc = "pass" /\ pc' = "launch"
      /\ CmdBegin(c)
  BY DEF Launch, NextTask, Examined, Queued
<1>4. \A t \in Slot : (Running(t)' <=> Running(t)) /\ (Active(t)' <=> Active(t))
  BY <1>1 DEF Running, Active
<1>5. QuietInv(s)'
  <2>. SUFFICES ASSUME task'[s].quiet
                PROVE  QuietInv(s)'
    BY DEF QuietInv
  <2>1. c.op = "runstart" /\ ~busy[f] /\ keys[f] = 0 /\ f \in Fps
    BY <1>2, RunFps
  <2>2. /\ busy' = busy
        /\ \/ keys' = [keys EXCEPT ![f] = @ + 1] /\ sent' = TRUE
           \/ sent' = FALSE /\ keys' = keys
    BY <1>3, <2>1 DEF CmdBegin
  <2>3. ~busy'[f] /\ keys'[f] <= 1 /\ (~sent' => keys'[f] = 0)
    BY <2>1, <2>2 DEF TypeOK
  <2>4. ~Running(s)'
    BY <1>3, <1>4
  <2>. QED
    BY <1>1, <2>3, <2>4 DEF QuietInv, OneRun, RunOver
<1>6. ASSUME NEW t \in Slot \ {s}
      PROVE  QuietInv(t)'
  <2>. DEFINE g == task[t].cmd.fps
  <2>1. QuietInv(t)
    BY DEF RunInv
  <2>2. ASSUME task'[t].quiet, task[t].cmd.op = "runstart"
        PROVE  keys'[g] = keys[g] /\ busy'[g] = busy[g] /\ cmdrun'[g] = cmdrun[g]
    <3>1. g \in Fps
      BY <2>2, RunFps
    <3>2. ~(c.op \in {"runstart", "runstop", "fpsrm"} /\ f = g)
      BY <1>1, <2>2
    <3>3. c \in Command \cup {NoCommand}
      BY DEF TypeOK, Task
    <3>. QED
      BY <1>3, <3>1, <3>2, <3>3, CmdBeginRuns
  <2>3. /\ task'[t].quiet => task[t].quiet
        /\ task'[t].cmd = task[t].cmd /\ task'[t].fpsindex = task[t].fpsindex
        /\ Running(t)' => Running(t)
        /\ cur' # t
    BY <1>1, <1>3, <1>4
  <2>. QED
    BY <2>1, <2>2, <2>3, QuietFrame
<1>. QED
  BY <1>3, <1>4, <1>5, <1>6 DEF RunInv

(* The end of a launch sets CMDRUN if it typed the run command. *)
LEMMA LaunchEndRun ==
  ASSUME TypeOK, RunInv, LaunchEnd
  PROVE  RunInv'
<1>. DEFINE c == task[cur].cmd
            f == task[cur].cmd.fps
<1>1. PICK i \in CmdFpsindex(c) :
        task' = [task EXCEPT ![cur].fpsindex = i, ![cur].status = @ \cup {"RUNNING"}]
  BY DEF LaunchEnd
<1>2. pc = "launch" /\ pc' # "launch" /\ Active(cur) /\ cur \in Slot /\ CmdEnd(c)
  BY DEF LaunchEnd, Advance, TypeOK, RunInv
<1>3. /\ \A t \in Slot \ {cur} : task'[t] = task[t]
      /\ task'[cur].status = task[cur].status \cup {"RUNNING"}
      /\ task'[cur].cmd = c /\ task'[cur].fpsindex = i
      /\ task'[cur].quiet = task[cur].quiet
  BY <1>1, <1>2 DEF TypeOK, Task
<1>4. \A t \in Slot : Running(t)' => Active(t)'
  BY <1>2, <1>3 DEF RunInv, Running, Active
<1>5. busy' = busy
  BY <1>2 DEF CmdEnd, runVars
<1>6. ASSUME NEW g \in Fps
      PROVE  /\ keys'[g] = keys[g] \/ keys'[g] = 0
             /\ ~cmdrun'[g] => ~cmdrun[g]
             /\ busy'[g] = busy[g]
  BY <1>2, CmdEndRuns
<1>7. ASSUME NEW t \in Slot \ {cur}
      PROVE  QuietInv(t)'
  <2>. SUFFICES ASSUME task[t].quiet, task[t].cmd.op = "runstart", Running(t)
                PROVE  /\ task[t].fpsindex = task[t].cmd.fps
                       /\ keys'[task[t].cmd.fps] <= 1
                       /\ busy'[task[t].cmd.fps] => keys'[task[t].cmd.fps] = 0
                       /\ ~cmdrun'[task[t].cmd.fps] =>
                            ~busy'[task[t].cmd.fps] /\ keys'[task[t].cmd.fps] = 0
    BY <1>2, <1>3 DEF QuietInv, OneRun, RunOver, Running
  <2>. DEFINE g == task[t].cmd.fps
  <2>1. g \in Fps
    BY RunFps
  <2>2. task[t].fpsindex = g /\ OneRun(g) /\ (~cmdrun[g] => RunOver(g))
    BY DEF RunInv, QuietInv
  <2>. HIDE DEF g
  <2>3. /\ keys'[g] <= 1
        /\ busy'[g] => keys'[g] = 0
        /\ ~cmdrun'[g] => ~busy'[g] /\ keys'[g] = 0
    BY <1>6, <2>1, <2>2 DEF OneRun, RunOver
  <2>. QED
    BY <2>2, <2>3 DEF g
<1>8. ASSUME NEW s \in Slot, s = cur
      PROVE  QuietInv(s)'
  <2>. SUFFICES ASSUME task[cur].quiet, c.op = "runstart"
                PROVE  /\ i = f
                       /\ keys'[f] <= 1 /\ (busy'[f] => keys'[f] = 0)
                       /\ ~cmdrun'[f] => ~busy'[f] /\ keys'[f] = 0
    BY <1>2, <1>3, <1>8 DEF QuietInv, OneRun, RunOver
  <2>1. f \in Fps /\ i = f
    BY <1>1, <1>2, RunFps DEF CmdFpsindex
  <2>2. OneRun(f) /\ (~sent => RunOver(f))
    BY <1>2 DEF RunInv, QuietInv
  <2>3. keys' = keys /\ (sent => cmdrun'[f])
    BY <1>2, <2>1 DEF CmdEnd, TypeOK, runVars
  <2>. QED
    BY <1>5, <2>1, <2>2, <2>3 DEF OneRun, RunOver
<1>. QED
  BY <1>2, <1>4, <1>7, <1>8 DEF RunInv

(* Steps that at most end or hide tasks and leave the runs alone. *)
LEMMA OtherRun ==
  ASSUME RunInv, UNCHANGED runVars,
         \A t \in Slot :
           /\ task'[t].cmd = task[t].cmd /\ task'[t].fpsindex = task[t].fpsindex
           /\ task'[t].quiet = task[t].quiet
           /\ Running(t)' => Running(t) /\ (Active(t) => Active(t)'),
         pc' # "launch"
  PROVE  RunInv'
<1>1. \A t \in Slot : Running(t)' => Active(t)'
  BY DEF RunInv
<1>2. ASSUME NEW t \in Slot
      PROVE  QuietInv(t)'
  BY QuietFrame DEF RunInv, runVars
<1>. QED
  BY <1>1, <1>2 DEF RunInv

(* What completing a task does. *)
LEMMA CompleteEffect ==
  ASSUME TypeOK, NEW s \in Slot, Complete(s)
  PROVE  /\ \A t \in Slot :
              /\ task'[t].cmd = task[t].cmd /\ task'[t].fpsindex = task[t].fpsindex
              /\ task'[t].quiet = task[t].quiet
              /\ task'[t].flag = task[t].flag
              /\ t # s => task'[t].status = task[t].status
              /\ t = s => task'[t].status = task[t].status \ {"RUNNING", "ACTIVE"}
         /\ pc = "pass" /\ pc' # "launch" /\ UNCHANGED runVars
         /\ Running(s) /\ FALSE \in Waits(s)
BY DEF Complete, Finished, TypeOK, Task, Examined, Advance

(* What the display does to tasks. *)
LEMMA DisplayEffect ==
  ASSUME TypeOK, NEW mode \in Mode, Display(mode)
  PROVE  \A t \in Slot :
           /\ task'[t].cmd = task[t].cmd /\ task'[t].fpsindex = task[t].fpsindex
           /\ task'[t].quiet = task[t].quiet
           /\ "ACTIVE" \in task'[t].status <=> "ACTIVE" \in task[t].status
           /\ "RUNNING" \in task'[t].status <=> "RUNNING" \in task[t].status
<1>1. CASE UNCHANGED task
  BY <1>1
<1>2. CASE Purge
  <2>1. PICK old \in SUBSET Shown : task' = Hide(old)
    BY <1>2 DEF Purge
  <2>. QED
    BY <2>1 DEF Hide, TypeOK, Task
<1>. QED
  BY <1>1, <1>2 DEF Display

(* A process of an FPS starts, ends, dies or checks parameters. *)
LEMMA ProcessRun ==
  ASSUME TypeOK, RunInv, NEW f \in Fps, Process(f)
  PROVE  RunInv'
<1>1. UNCHANGED <<task, pc, cur, sent>>
  BY DEF Process, RunSpawn, RunExit, RunCrash, KeysLost, ConfChecked, passVars
<1>2. ASSUME NEW t \in Slot
      PROVE  QuietInv(t)'
  <2>. DEFINE g == task[t].cmd.fps
  <2>1. QuietInv(t)
    BY DEF RunInv
  <2>2. CASE ~(task[t].quiet /\ task[t].cmd.op = "runstart")
    BY <1>1, <2>2 DEF QuietInv
  <2>3. CASE g # f /\ task[t].cmd.op = "runstart"
    <3>1. g \in Fps
      BY <2>3, RunFps
    <3>2. keys'[g] = keys[g] /\ busy'[g] = busy[g] /\ cmdrun'[g] = cmdrun[g]
      BY <2>3, <3>1 DEF Process, RunSpawn, RunExit, RunCrash, KeysLost, ConfChecked, TypeOK
    <3>. QED
      BY <1>1, <2>1, <3>2, QuietFrame DEF Running
  <2>4. CASE g = f /\ task[t].quiet /\ task[t].cmd.op = "runstart"
    <3>1. /\ pc = "launch" /\ cur = t => OneRun(f) /\ (~sent => RunOver(f))
          /\ Running(t) => /\ task[t].fpsindex = f
                           /\ OneRun(f) /\ (~cmdrun[f] => RunOver(f))
      BY <2>1, <2>4 DEF QuietInv
    <3>2. SUFFICES ASSUME OneRun(f)
                   PROVE  /\ keys'[f] <= 1 /\ (busy'[f] => keys'[f] = 0)
                          /\ RunOver(f) => ~busy'[f] /\ keys'[f] = 0
                          /\ (~cmdrun[f] => RunOver(f)) =>
                               (~cmdrun'[f] => ~busy'[f] /\ keys'[f] = 0)
      BY <1>1, <2>4, <3>1 DEF QuietInv, OneRun, RunOver, Running
    <3>3. CASE RunSpawn(f)
      BY <3>2, <3>3 DEF RunSpawn, OneRun, RunOver, TypeOK
    <3>4. CASE RunExit(f)
      BY <3>2, <3>4 DEF RunExit, OneRun, RunOver, TypeOK
    <3>5. CASE RunCrash(f)
      BY <3>2, <3>5 DEF RunCrash, OneRun, RunOver, TypeOK
    <3>6. CASE ConfChecked(f)
      BY <3>2, <3>6 DEF ConfChecked, OneRun, RunOver, TypeOK
    <3>7. CASE KeysLost(f)
      BY <3>2, <3>7 DEF KeysLost, OneRun, RunOver, TypeOK
    <3>. QED
      BY <3>3, <3>4, <3>5, <3>6, <3>7 DEF Process
  <2>. QED
    BY <2>2, <2>3, <2>4
<1>. QED
  BY <1>1, <1>2 DEF RunInv, Running, Active

(* A rewrite of a status word may take CMDRUN back, and then no task that  *)
(* starts a run of that FPS is quiet any more.                             *)
LEMMA RewriteRun ==
  ASSUME TypeOK, RunInv, NEW f \in Fps, Rewrite(f)
  PROVE  RunInv'
<1>1. CASE LoadStatus(f)
  <2>1. UNCHANGED <<task, pc, cur, sent, keys, busy, cmdrun>>
    BY <1>1 DEF LoadStatus, passVars
  <2>. QED
    BY <2>1 DEF RunInv, QuietInv, OneRun, RunOver, Running, Active
<1>2. ASSUME NEW on \in BOOLEAN, StoreStatus(f, on)
      PROVE  RunInv'
  <2>1. /\ UNCHANGED <<pc, cur, sent, keys, busy>>
        /\ cmdrun' = [cmdrun EXCEPT ![f] = on]
        /\ task' = IF cmdrun[f] /\ ~on THEN Unquiet(f) ELSE task
    BY <1>2 DEF StoreStatus, passVars
  <2>2. \A t \in Slot :
          /\ task'[t].status = task[t].status
          /\ task'[t].cmd = task[t].cmd /\ task'[t].fpsindex = task[t].fpsindex
          /\ task'[t].quiet => task[t].quiet
          /\ cmdrun[f] /\ ~on /\ task'[t].quiet =>
               ~(task[t].cmd.op = "runstart" /\ task[t].cmd.fps = f)
    BY <2>1, UnquietType
  <2>3. \A t \in Slot : (Running(t)' <=> Running(t)) /\ (Active(t)' <=> Active(t))
    BY <2>2 DEF Running, Active
  <2>4. ASSUME NEW t \in Slot
        PROVE  QuietInv(t)'
    <3>. SUFFICES ASSUME task'[t].quiet, task'[t].cmd.op = "runstart"
                  PROVE  QuietInv(t)'
      BY DEF QuietInv
    <3>. DEFINE g == task[t].cmd.fps
    <3>1. task[t].quiet /\ task[t].cmd.op = "runstart" /\ g \in Fps /\ QuietInv(t)
      BY <2>2, RunFps DEF RunInv
    <3>2. ~cmdrun'[g] => ~cmdrun[g]
      BY <2>1, <2>2, <3>1 DEF TypeOK
    <3>. QED
      BY <2>1, <2>2, <2>3, <3>1, <3>2 DEF QuietInv, OneRun, RunOver
  <2>. QED
    BY <2>1, <2>3, <2>4 DEF RunInv, TypeOK
<1>. QED
  BY <1>1, <1>2 DEF Rewrite

(* A command that a key gives disturbs the tasks of its FPS, as one that a *)
(* task gives.                                                             *)
LEMMA KeyBeginRun ==
  ASSUME TypeOK, RunInv, NEW c \in Command, KeyBegin(c)
  PROVE  RunInv'
<1>1. pc' # "launch" /\ CmdBegin(c) /\ task' = Disturb(c)
  BY DEF KeyBegin
<1>2. \A t \in Slot :
        /\ task'[t].status = task[t].status
        /\ task'[t].cmd = task[t].cmd /\ task'[t].fpsindex = task[t].fpsindex
        /\ task'[t].quiet => task[t].quiet
        /\ task'[t].quiet => ~(/\ c.op \in {"runstart", "runstop", "fpsrm"}
                               /\ task[t].cmd.op = "runstart" /\ task[t].cmd.fps = c.fps)
  <2>. DEFINE tk == Disturb(c)
  <2>1. \A t \in Slot :
          /\ tk[t].status = task[t].status
          /\ tk[t].cmd = task[t].cmd /\ tk[t].fpsindex = task[t].fpsindex
          /\ tk[t].quiet => task[t].quiet
          /\ tk[t].quiet => ~(/\ c.op \in {"runstart", "runstop", "fpsrm"}
                              /\ task[t].cmd.op = "runstart" /\ task[t].cmd.fps = c.fps)
    BY DisturbType
  <2>2. task' = tk
    BY <1>1
  <2>. HIDE DEF tk
  <2>. QED
    BY <2>1, <2>2
<1>3. \A t \in Slot : (Running(t)' <=> Running(t)) /\ (Active(t)' <=> Active(t))
  BY <1>2 DEF Running, Active
<1>4. ASSUME NEW t \in Slot
      PROVE  QuietInv(t)'
  <2>. SUFFICES ASSUME task'[t].quiet, task'[t].cmd.op = "runstart"
                PROVE  QuietInv(t)'
    BY DEF QuietInv
  <2>. DEFINE g == task[t].cmd.fps
  <2>1. task[t].quiet /\ task[t].cmd.op = "runstart" /\ g \in Fps /\ QuietInv(t)
    BY <1>2, RunFps DEF RunInv
  <2>2. keys'[g] = keys[g] /\ busy'[g] = busy[g] /\ cmdrun'[g] = cmdrun[g]
    BY <1>1, <1>2, <2>1, CmdBeginRuns
  <2>. QED
    BY <1>1, <1>2, <1>3, <2>1, <2>2 DEF QuietInv, OneRun, RunOver
<1>. QED
  BY <1>1, <1>3, <1>4 DEF RunInv

(* Its end at most sets CMDRUN and flushes commands typed ahead.           *)
LEMMA KeyEndRun ==
  ASSUME TypeOK, RunInv, KeyEnd
  PROVE  RunInv'
<1>1. pc' # "launch" /\ CmdEnd(kcmd) /\ UNCHANGED task
  BY DEF KeyEnd
<1>2. ASSUME NEW t \in Slot
      PROVE  QuietInv(t)'
  <2>. SUFFICES ASSUME task[t].quiet, task[t].cmd.op = "runstart"
                PROVE  QuietInv(t)'
    BY <1>1 DEF QuietInv
  <2>. DEFINE g == task[t].cmd.fps
  <2>1. g \in Fps /\ QuietInv(t)
    BY RunFps DEF RunInv
  <2>2. /\ keys'[g] = keys[g] \/ keys'[g] = 0
        /\ ~cmdrun'[g] => ~cmdrun[g]
        /\ busy'[g] = busy[g]
    BY <1>1, <2>1, CmdEndRuns
  <2>. QED
    BY <1>1, <2>1, <2>2 DEF QuietInv, OneRun, RunOver, Running
<1>. QED
  BY <1>1, <1>2 DEF RunInv, Running, Active

(* RunInv is inductive. *)
THEOREM RunInvariant == Spec => []RunInv
<1>1. ASSUME Init
      PROVE  RunInv
  BY <1>1 DEF Init, EmptyTask, NoCommand, RunInv, QuietInv, Running
<1>2. ASSUME TypeOK, RunInv, [Next]_vars
      PROVE  RunInv'
  <2>. USE <1>2
  <2>1. ASSUME NEW c \in Command, InsertTask(c)
        PROVE  RunInv'
    BY <2>1, InsertRun
  <2>2. CASE \/ TaskCntZero \/ FifoFull
             \/ \E q \in Queue : SetQueueIndex(q)
             \/ \E p \in Prio : SetQueuePrio(p)
             \/ \E on \in BOOLEAN : SetWaitOnRun(on) \/ SetWaitOnConf(on)
    <3>1. UNCHANGED <<task, runVars>> /\ pc' # "launch"
      BY <2>2 DEF TaskCntZero, FifoFull, SetQueueIndex, SetQueuePrio, SetWaitOnRun, SetWaitOnConf,
           ReadsSetting
    <3>. QED
      BY <3>1, OtherRun DEF Running, Active
  <2>3. CASE BeginPass \/ Skip
    <3>1. UNCHANGED <<task, runVars>> /\ pc' # "launch"
      BY <2>3 DEF BeginPass, Skip, Advance
    <3>. QED
      BY <3>1, OtherRun DEF Running, Active
  <2>4. ASSUME NEW s \in Slot, Hold(s) \/ WildFault(s)
        PROVE  RunInv'
    <3>1. UNCHANGED <<task, runVars>> /\ pc' # "launch"
      BY <2>4 DEF Hold, WildFault, Advance
    <3>. QED
      BY <3>1, OtherRun DEF Running, Active
  <2>5. ASSUME NEW s \in Slot, Launch(s)
        PROVE  RunInv'
    BY <2>5, LaunchRun
  <2>6. CASE LaunchEnd
    BY <2>6, LaunchEndRun
  <2>7. ASSUME NEW s \in Slot, Complete(s)
        PROVE  RunInv'
    BY <2>7, CompleteEffect, OtherRun DEF Running, Active
  <2>8. ASSUME NEW mode \in Mode, Display(mode)
        PROVE  RunInv'
    <3>1. pc' # "launch" /\ UNCHANGED runVars
      BY <2>8 DEF Display
    <3>. QED
      BY <2>8, <3>1, DisplayEffect, OtherRun DEF Running, Active
  <2>9. ASSUME NEW f \in Fps, Process(f)
        PROVE  RunInv'
    BY <2>9, ProcessRun
  <2>10. CASE UNCHANGED vars
    BY <2>10 DEF vars, passVars, runVars, RunInv, QuietInv, OneRun, RunOver, Running, Active
  <2>11. ASSUME NEW f \in Fps, Rewrite(f)
         PROVE  RunInv'
    BY <2>11, RewriteRun
  <2>12. ASSUME NEW c \in Command, KeyBegin(c)
         PROVE  RunInv'
    BY <2>12, KeyBeginRun
  <2>13. CASE KeyEnd
    BY <2>13, KeyEndRun
  <2>. QED
    BY <2>1, <2>2, <2>3, <2>4, <2>5, <2>6, <2>7, <2>8, <2>9, <2>10, <2>11, <2>12, <2>13
    DEF Next, ReadLine, Scheduler
<1>. QED
  BY <1>1, <1>2, TypeCorrect, PTL DEF Spec

(* A running task stops to run only when Complete finds that it does not   *)
(* have to wait.                                                           *)
LEMMA EndsComplete ==
  ASSUME TypeOK, RunInv, [Next]_vars, NEW s \in Slot, Running(s), ~Running(s)'
  PROVE  Complete(s)
<1>1. ASSUME NEW c \in Command, InsertTask(c)
      PROVE  FALSE
  <2>1. PICK k \in Slot : FirstFree(k) /\ \A t \in Slot \ {k} : task'[t] = task[t]
    BY <1>1 DEF InsertTask, TypeOK
  <2>. QED
    BY <2>1 DEF FirstFree, FreeSlot, Running
<1>2. ASSUME NEW k \in Slot, Launch(k)
      PROVE  FALSE
  <2>1. task'[s].status = task[s].status
    BY <1>2, LaunchTask
  <2>. QED
    BY <2>1 DEF Running
<1>3. CASE LaunchEnd
  <2>1. PICK f \in CmdFpsindex(task[cur].cmd) :
          task' = [task EXCEPT ![cur].fpsindex = f, ![cur].status = @ \cup {"RUNNING"}]
    BY <1>3 DEF LaunchEnd
  <2>2. task[s].status \subseteq task'[s].status
    BY <2>1 DEF TypeOK, Task
  <2>. QED
    BY <2>2 DEF Running
<1>4. ASSUME NEW k \in Slot, Complete(k)
      PROVE  Complete(s)
  BY <1>4, CompleteEffect DEF Running
<1>5. ASSUME NEW mode \in Mode, Display(mode)
      PROVE  FALSE
  BY <1>5, DisplayEffect DEF Running
<1>6. UNCHANGED task => FALSE
  BY DEF Running
<1>7. \/ UNCHANGED vars \/ TaskCntZero \/ FifoFull \/ BeginPass \/ Skip
      \/ \E q \in Queue : SetQueueIndex(q)
      \/ \E p \in Prio : SetQueuePrio(p)
      \/ \E on \in BOOLEAN : SetWaitOnRun(on) \/ SetWaitOnConf(on)
      \/ \E k \in Slot : Hold(k) \/ WildFault(k)
      \/ \E f \in Fps : Process(f)
      \/ KeyEnd
      => UNCHANGED task
  BY DEF KeyEnd, vars, TaskCntZero, FifoFull, BeginPass, Skip, SetQueueIndex, SetQueuePrio, SetWaitOnRun,
     SetWaitOnConf, Hold, WildFault, Process, RunSpawn, RunExit, RunCrash, KeysLost, ConfChecked
<1>8. CASE (\E c \in Command : KeyBegin(c)) \/ (\E f \in Fps : Rewrite(f))
  BY <1>8, QuietTask DEF Running
<1>. QED
  BY <1>1, <1>2, <1>3, <1>4, <1>5, <1>6, <1>7, <1>8 DEF Next, ReadLine, Scheduler

(* A WAITONRUN task that starts a run is completed only when that run is   *)
(* over, if its FPS was idle at the launch and since then no other task    *)
(* and no key started, stopped or removed a run of it, and no rewrite of   *)
(* its status word took CMDRUN back (WaitOnRunAlone).                      *)
THEOREM WaitsForItsRun == Spec => WaitOnRunAlone
<1>1. ASSUME TypeOK, RunInv, [Next]_vars,
             NEW s \in Slot, RunTaskEnds(s), task[s].quiet
      PROVE  RunOver(task[s].cmd.fps)
  <2>. DEFINE f == task[s].cmd.fps
  <2>1. /\ Running(s) /\ ~Running(s)'
        /\ "WAITONRUN" \in task[s].flag /\ task[s].cmd.op = "runstart"
    BY <1>1 DEF RunTaskEnds
  <2>2. Complete(s)
    BY <1>1, <2>1, EndsComplete
  <2>3. f \in Fps /\ task[s].fpsindex = f /\ (~cmdrun[f] => RunOver(f))
    BY <1>1, <2>1, RunFps DEF RunInv, QuietInv
  <2>4. ~ReadsWild(s)
    BY <2>3, SchedAssumption DEF ReadsWild
  <2>5. ~cmdrun[f]
    BY <2>1, <2>2, <2>3, <2>4 DEF Complete, Waits
  <2>. QED
    BY <2>3, <2>5
<1>2. TypeOK /\ RunInv /\ [Next]_vars
        => [\A s \in Slot : RunTaskEnds(s) /\ task[s].quiet => RunOver(task[s].cmd.fps)]_vars
  BY <1>1
<1>. QED
  BY <1>2, TypeCorrect, RunInvariant, PTL DEF Spec, WaitOnRunAlone

(* WAITONRUN blocks the queue while CMDRUN is set: no step completes the   *)
(* task or starts another of its queue (QueueBlocked).                     *)
THEOREM BlocksItsQueue ==
  ASSUME CounterOrders
  PROVE  Spec => QueueBlocked
<1>1. ASSUME TypeOK, RunInv, OrderInv, [Next]_vars,
             NEW s \in Slot, Running(s), "WAITONRUN" \in task[s].flag, ~ReadsWild(s),
             cmdrun[task[s].fpsindex]
      PROVE  /\ Running(s)'
             /\ \A t \in Queued(task[s].queue) \ {s} : ~Started(t)'
  <2>. USE <1>1
  <2>1. Active(s) /\ Started(s)
    BY DEF RunInv, Started
  <2>2. Running(s)'
    <3>1. ~Complete(s)
      BY DEF Complete, Waits
    <3>. QED
      BY <3>1, EndsComplete
  <2>3. \A t \in Queued(task[s].queue) \ {s} : ~Started(t)
    BY <2>1, OrderImpliesSequential DEF SequentialQueue, Queued
  <2>4. ASSUME NEW t \in Slot, t # s, Active(t), task[t].queue = task[s].queue, ~Started(t), Started(t)'
        PROVE  FALSE
    <3>. USE <2>4
    <3>1. ASSUME NEW c \in Command, InsertTask(c)
          PROVE  FALSE
      <4>1. PICK k \in Slot : FirstFree(k) /\ \A u \in Slot \ {k} : task'[u] = task[u]
        BY <3>1 DEF InsertTask, TypeOK
      <4>2. task'[t] = task[t] /\ pc' # "launch"
        BY <3>1, <4>1 DEF FirstFree, FreeSlot, Active, InsertTask
      <4>. QED
        BY <4>2 DEF Started, Active, Running
    <3>2. ASSUME NEW k \in Slot, Launch(k)
          PROVE  FALSE
      <4>1. /\ task'[t].status = task[t].status
            /\ pc' = "launch" /\ cur' = k
        BY <3>2, LaunchTask DEF Launch
      <4>2. k = t
        BY <4>1 DEF Started, Active, Running
      <4>3. task[k].inputindex <= task[s].inputindex /\ ~Running(k)
        BY <2>1, <3>2, <4>2, TaskFields DEF Launch, NextTask, Queued
      <4>4. task[s].inputindex = task[t].inputindex
        BY <2>1, <4>2, <4>3, TaskFields DEF OrderInv, StartedIsFirst
      <4>. QED
        BY <2>1, <4>4, TaskFields DEF OrderInv, IndexIsSub
    <3>3. CASE LaunchEnd
      BY <3>3, LaunchEndKept DEF QueuesKept
    <3>4. ASSUME NEW k \in Slot, Complete(k)
          PROVE  FALSE
      BY <3>4, CompleteEffect DEF Started, Active, Running
    <3>5. ASSUME NEW mode \in Mode, Display(mode)
          PROVE  FALSE
      BY <3>5, DisplayKept DEF QueuesKept
    <3>6. CASE \/ TaskCntZero \/ FifoFull \/ BeginPass \/ Skip
               \/ \E q \in Queue : SetQueueIndex(q)
               \/ \E p \in Prio : SetQueuePrio(p)
               \/ \E on \in BOOLEAN : SetWaitOnRun(on) \/ SetWaitOnConf(on)
               \/ \E k \in Slot : Hold(k) \/ WildFault(k)
      <4>1. UNCHANGED task /\ pc' # "launch"
        BY <3>6 DEF TaskCntZero, FifoFull, BeginPass, Skip, SetQueueIndex, SetQueuePrio,
             SetWaitOnRun, SetWaitOnConf, Hold, WildFault, ReadsSetting, Advance
      <4>. QED
        BY <4>1 DEF Started, Active, Running
    <3>7. CASE UNCHANGED vars \/ \E f \in Fps : Process(f)
      <4>1. UNCHANGED <<task, pc, cur>>
        BY <3>7 DEF vars, passVars, Process, RunSpawn, RunExit, RunCrash, KeysLost, ConfChecked
      <4>. QED
        BY <4>1 DEF Started, Active, Running
    <3>8. CASE (\E c \in Command : KeyBegin(c)) \/ (\E f \in Fps : Rewrite(f))
      BY <3>8, QuietKept DEF QueuesKept
    <3>9. CASE KeyEnd
      <4>1. UNCHANGED task /\ pc' # "launch"
        BY <3>9 DEF KeyEnd
      <4>. QED
        BY <4>1 DEF Started, Active, Running
    <3>. QED
      BY <3>1, <3>2, <3>3, <3>4, <3>5, <3>6, <3>7, <3>8, <3>9 DEF Next, ReadLine, Scheduler
  <2>. QED
    BY <2>2, <2>3, <2>4 DEF Queued
<1>2. TypeOK /\ RunInv /\ OrderInv /\ [Next]_vars
        => [\A s \in Slot :
              Running(s) /\ "WAITONRUN" \in task[s].flag /\ ~ReadsWild(s)
                /\ cmdrun[task[s].fpsindex]
              => /\ Running(s)'
                 /\ \A t \in Queued(task[s].queue) \ {s} : ~Started(t)']_vars
  BY <1>1
<1>. QED
  BY <1>2, TypeCorrect, RunInvariant, OrderInvariant, PTL DEF Spec, QueueBlocked

=============================================================================
