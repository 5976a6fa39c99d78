---------------------------- MODULE FPSsched_pass ----------------------------
(***************************************************************************)
(* Proofs about a pass of the scheduler of FPSsched over its queues: the   *)
(* order in which it examines them, which of them it examines, and what    *)
(* the display leaves in the task list.                                    *)
(***************************************************************************)
EXTENDS FPSsched_proofs, FiniteSetTheorems

(* The priorities that a pass goes through are sorted, and every queue     *)
(* whose priority did not change has an entry of its own among them.       *)
SortedList == \A i, j \in Queue : i < j => plist[i] <= plist[j]

Matched ==
  \E at \in [Queue -> Queue] :
    /\ \A q, r \in Queue : q # r => at[q] # at[r]
    /\ \A r \in Queue \ moved : plist[at[r]] = prio[r]

(* The pass is over; it is the time of the display and of the keys. *)
Over == pc \in {"display", "key"}

(* The entry of the list that the pass is at, or the last it was at. *)
Level == IF Over THEN 1 ELSE qi

(* Is the pass done with the priority of r, as far as queue r goes? *)
Done(r) ==
  \/ prio[r] > plist[Level]
  \/ /\ prio[r] = plist[Level]
     /\ Over \/ r < qx \/ (pc = "launch" /\ r = qx)

PassInv ==
  /\ pc = "loop" => seen = {}
  /\ pc \in {"pass", "launch", "display", "key"} =>
       /\ SortedList /\ Matched
       /\ \A q \in seen \ moved : prio[q] > 0 /\ prio[q] >= plist[Level]
       /\ \A r \in Queue \ moved : prio[r] > 0 /\ Done(r) => r \in seen
  /\ pc = "exit" => PriorityOrder

(* The indices of a pass are integers within the queues. *)
LEMMA PassTypes ==
  ASSUME TypeOK
  PROVE  /\ NBqueue \in Nat /\ NBqueue >= 2 /\ Queue = 0 .. NBqueue - 1
         /\ qi \in Queue /\ qx \in Queue
         /\ \A q \in Queue : q \in Int /\ plist[q] \in Int /\ prio[q] \in Int
BY SchedAssumption DEF TypeOK, Queue

(* No queue of higher priority than an examined one is left.               *)
LEMMA PassPriority ==
  ASSUME TypeOK, PassInv
  PROVE  PriorityOrder
<1>1. CASE pc = "loop" \/ pc = "exit"
  BY <1>1 DEF PassInv, PriorityOrder
<1>2. CASE pc \in {"pass", "launch", "display", "key"}
  <2>. SUFFICES ASSUME NEW q \in seen \ moved, NEW r \in Queue \ moved, prio[r] > prio[q]
                PROVE  r \in seen
    BY DEF PriorityOrder
  <2>1. q \in Queue /\ Level \in Queue
    <3>1. 1 \in Queue /\ qi \in Queue
      BY PassTypes
    <3>2. seen \subseteq Queue
      BY DEF TypeOK
    <3>. QED
      BY <3>1, <3>2 DEF Level
  <2>2. prio[q] > 0 /\ prio[q] >= plist[Level]
    BY <1>2 DEF PassInv
  <2>3. prio[r] > 0 /\ prio[r] > plist[Level]
    BY <2>1, <2>2, PassTypes
  <2>. QED
    BY <1>2, <2>3 DEF PassInv, Done
<1>. QED
  BY <1>1, <1>2 DEF TypeOK

(* At the end, an active queue that was not examined has a priority lower  *)
(* than that of all others.                                                *)
LEMMA PassEnd ==
  ASSUME TypeOK, PassInv
  PROVE  PassComplete
<1>. SUFFICES ASSUME pc = "display", NEW q \in Queue \ moved, prio[q] > 0,
                     NEW r \in Queue \ (moved \cup {q}), prio[r] <= prio[q]
              PROVE  q \in seen
  BY DEF PassComplete
<1>1. PICK at \in [Queue -> Queue] :
        /\ \A i, j \in Queue : i # j => at[i] # at[j]
        /\ \A i \in Queue \ moved : plist[at[i]] = prio[i]
  BY DEF PassInv, Matched
<1>2. /\ at[q] \in Queue /\ at[r] \in Queue /\ at[q] # at[r]
      /\ plist[at[q]] = prio[q] /\ plist[at[r]] = prio[r] /\ 1 \in Queue
  BY <1>1, PassTypes
<1>3. ASSUME NEW i \in Queue, i # 0
      PROVE  plist[i] >= plist[1]
  <2>1. i = 1 \/ 1 < i
    BY <1>3, PassTypes
  <2>2. 1 < i => plist[1] <= plist[i]
    BY <1>2 DEF PassInv, SortedList
  <2>. QED
    BY <1>2, <2>1, <2>2, PassTypes
<1>4. prio[q] >= plist[1]
  <2>1. CASE at[q] # 0
    BY <1>2, <1>3, <2>1
  <2>2. CASE at[q] = 0
    <3>1. prio[r] >= plist[1]
      BY <1>2, <1>3, <2>2
    <3>. QED
      BY <1>2, <3>1, PassTypes
  <2>. QED
    BY <2>1, <2>2
<1>5. Done(q)
  BY <1>2, <1>4, PassTypes DEF Done, Level, Over
<1>. QED
  BY <1>5 DEF PassInv

(* The permutation that sorts the priorities gives every queue an entry of *)
(* its own.                                                                *)
LEMMA SortMatches ==
  ASSUME TypeOK, NEW perm \in [Queue -> Queue],
         \A i, j \in Queue : i # j => perm[i] # perm[j]
  PROVE  \E at \in [Queue -> Queue] :
           /\ \A q, r \in Queue : q # r => at[q] # at[r]
           /\ \A r \in Queue : perm[at[r]] = r
<1>1. IsFiniteSet(Queue)
  BY FS_Interval, SchedAssumption DEF Queue
<1>2. perm \in Injection(Queue, Queue)
  BY DEF Injection, IsInjective
<1>3. perm \in Surjection(Queue, Queue)
  BY <1>1, <1>2, FS_Injection
<1>4. \A r \in Queue : \E i \in Queue : perm[i] = r
  BY <1>3 DEF Surjection
<1>. DEFINE at == [r \in Queue |-> CHOOSE i \in Queue : perm[i] = r]
<1>5. \A r \in Queue : at[r] \in Queue /\ perm[at[r]] = r
  BY <1>4
<1>6. at \in [Queue -> Queue]
  BY <1>5
<1>. HIDE DEF at
<1>. QED
  BY <1>5, <1>6

(* The pass begins at the highest priority. *)
LEMMA BeginPassInv ==
  ASSUME TypeOK, PassInv, BeginPass
  PROVE  PassInv'
<1>1. PICK perm \in [Queue -> Queue] :
        /\ \A i, j \in Queue : i # j => perm[i] # perm[j]
        /\ \A i, j \in Queue : i < j => prio[perm[i]] <= prio[perm[j]]
        /\ plist' = [i \in Queue |-> prio[perm[i]]]
  BY DEF BeginPass
<1>2. /\ pc = "loop" /\ pc' = "pass" /\ qi' = NBqueue - 1 /\ qx' = 0
      /\ seen' = {} /\ moved' = moved /\ prio' = prio
  BY DEF BeginPass, PassInv
<1>3. SortedList'
  BY <1>1 DEF SortedList
<1>4. PICK at \in [Queue -> Queue] :
        /\ \A q, r \in Queue : q # r => at[q] # at[r]
        /\ \A r \in Queue : perm[at[r]] = r
  BY <1>1, SortMatches
<1>5. \A r \in Queue : plist'[at[r]] = prio'[r]
  BY <1>1, <1>2, <1>4
<1>6. Matched'
  BY <1>4, <1>5 DEF Matched
<1>7. ASSUME NEW r \in Queue
      PROVE  ~Done(r)'
  <2>1. at[r] \in Queue /\ NBqueue - 1 \in Queue /\ at[r] <= NBqueue - 1
    BY <1>4, PassTypes
  <2>2. plist'[at[r]] <= plist'[NBqueue - 1]
    <3>1. CASE at[r] = NBqueue - 1
      BY <1>1, <2>1, <3>1, PassTypes
    <3>2. CASE at[r] < NBqueue - 1
      BY <1>3, <2>1, <3>2 DEF SortedList
    <3>. QED
      BY <2>1, <3>1, <3>2, PassTypes
  <2>3. prio'[r] <= plist'[NBqueue - 1] /\ prio'[r] \in Int /\ plist'[NBqueue - 1] \in Int
    BY <1>1, <1>2, <1>5, <2>1, <2>2, PassTypes
  <2>. QED
    BY <1>2, <2>3, PassTypes DEF Done, Level, Over
<1>. QED
  BY <1>2, <1>3, <1>6, <1>7 DEF PassInv

(* Going to the next queue or the next priority, the pass is done with     *)
(* those up to the queue it was at only.                                   *)
LEMMA AdvanceDone ==
  ASSUME TypeOK, pc \in {"pass", "launch"}, SortedList, Matched, Advance,
         UNCHANGED <<plist, prio, moved>>
  PROVE  /\ \A r \in Queue \ moved :
              Done(r)' => prio[r] > plist[qi] \/ (prio[r] = plist[qi] /\ r <= qx)
         /\ Level' \in Queue /\ plist[Level'] <= plist[qi]
         /\ Level = qi
<1>. USE PassTypes
<1>1. ~Over /\ Level = qi /\ qi > 0
  BY DEF Level, Over, TypeOK
<1>2. PICK at \in [Queue -> Queue] : \A r \in Queue \ moved : plist[at[r]] = prio[r]
  BY DEF Matched
<1>3. CASE qx < NBqueue - 1 /\ qx' = qx + 1 /\ pc' = "pass" /\ UNCHANGED qi
  BY <1>1, <1>3 DEF Done, Level, Over
<1>4. CASE qx = NBqueue - 1 /\ qi > 1 /\ qx' = 0 /\ qi' = qi - 1 /\ pc' = "pass"
  <2>1. Level' = qi - 1 /\ qi - 1 \in Queue /\ plist[qi - 1] <= plist[qi]
    BY <1>4 DEF Level, Over, SortedList
  <2>2. ASSUME NEW r \in Queue \ moved, Done(r)'
        PROVE  prio[r] >= plist[qi]
    <3>1. prio[r] > plist[qi - 1]
      BY <1>4, <2>1, <2>2 DEF Done, Over
    <3>2. at[r] \in Queue /\ plist[at[r]] = prio[r]
      BY <1>2
    <3>3. ~(at[r] < qi - 1) /\ at[r] # qi - 1
      BY <2>1, <3>1, <3>2 DEF SortedList
    <3>4. at[r] = qi \/ qi < at[r]
      BY <3>2, <3>3
    <3>5. plist[at[r]] >= plist[qi]
      BY <3>2, <3>4 DEF SortedList
    <3>. QED
      BY <3>2, <3>5
  <2>. QED
    BY <1>1, <1>4, <2>1, <2>2
<1>5. CASE qx = NBqueue - 1 /\ qi = 1 /\ qx' = 0 /\ qi' = 0 /\ pc' = "display"
  BY <1>1, <1>5 DEF Done, Level, Over
<1>. QED
  BY <1>3, <1>4, <1>5 DEF Advance

(* A step that goes on after examining the queue, or skipping it. *)
LEMMA AdvancePassInv ==
  ASSUME TypeOK, PassInv, pc \in {"pass", "launch"}, Advance,
         UNCHANGED <<plist, prio, moved>>,
         seen' = seen \/ (seen' = seen \cup {qx} /\ Examined),
         pc = "pass" /\ Examined => qx \in seen'
  PROVE  PassInv'
<1>1. SortedList /\ Matched
  BY DEF PassInv
<1>2. /\ \A r \in Queue \ moved :
           Done(r)' => prio[r] > plist[qi] \/ (prio[r] = plist[qi] /\ r <= qx)
      /\ Level' \in Queue /\ plist[Level'] <= plist[qi]
      /\ Level = qi
  BY <1>1, AdvanceDone
<1>3. SortedList' /\ Matched'
  BY <1>1 DEF SortedList, Matched
<1>4. ASSUME NEW q \in seen' \ moved
      PROVE  prio[q] > 0 /\ prio[q] >= plist[Level']
  <2>1. q \in Queue
    BY PassTypes DEF TypeOK
  <2>2. prio[q] > 0 /\ prio[q] >= plist[qi]
    <3>1. CASE q \in seen
      BY <1>2, <3>1 DEF PassInv
    <3>2. CASE q = qx /\ Examined
      BY <3>2, PassTypes DEF Examined
    <3>. QED
      BY <3>1, <3>2
  <2>. QED
    BY <1>2, <2>1, <2>2, PassTypes
<1>5. ASSUME NEW r \in Queue \ moved, prio[r] > 0, Done(r)'
      PROVE  r \in seen'
  <2>1. prio[r] > plist[qi] \/ (prio[r] = plist[qi] /\ r <= qx)
    BY <1>2, <1>5
  <2>2. CASE Done(r)
    BY <1>5, <2>2 DEF PassInv
  <2>3. CASE pc = "pass" /\ prio[r] = plist[qi] /\ r = qx
    BY <1>5, <2>3 DEF Examined
  <2>4. prio[r] = plist[qi] /\ r <= qx => r < qx \/ r = qx
    BY PassTypes
  <2>. QED
    BY <1>2, <2>1, <2>2, <2>3, <2>4 DEF Done, Over
<1>6. pc' \in {"pass", "display"}
  BY DEF Advance
<1>. QED
  BY <1>3, <1>4, <1>5, <1>6 DEF PassInv

(* What a command may change of the priorities. *)
LEMMA CmdBeginPrio ==
  ASSUME TypeOK, NEW c, CmdBegin(c)
  PROVE  /\ moved \subseteq moved'
         /\ \A q \in Queue \ moved' : prio'[q] = prio[q]
<1>1. CASE c.op = "queueprio"
  BY <1>1 DEF CmdBegin, TypeOK
<1>2. CASE c.op # "queueprio"
  BY <1>2 DEF CmdBegin
<1>. QED
  BY <1>1, <1>2

(* A launch examines the queue; the command it runs may change the         *)
(* priority of a queue, which is then one of those that moved.             *)
LEMMA LaunchPassInv ==
  ASSUME TypeOK, PassInv, NEW s \in Slot, Launch(s)
  PROVE  PassInv'
<1>1. /\ pc = "pass" /\ pc' = "launch" /\ Examined /\ seen' = seen \cup {qx}
      /\ UNCHANGED <<plist, qi, qx>>
  BY DEF Launch, Examined
<1>2. /\ moved \subseteq moved'
      /\ \A q \in Queue \ moved' : prio'[q] = prio[q]
  BY CmdBeginPrio DEF Launch
<1>3. SortedList' /\ Matched'
  BY <1>1, <1>2 DEF PassInv, SortedList, Matched
<1>4. Level = qi /\ Level' = qi /\ qx \in Queue
  BY <1>1, PassTypes DEF Level, Over
<1>5. ASSUME NEW q \in seen' \ moved'
      PROVE  prio'[q] > 0 /\ prio'[q] >= plist'[Level']
  <2>1. q \in Queue /\ prio'[q] = prio[q] /\ q \notin moved
    BY <1>1, <1>2, PassTypes DEF TypeOK
  <2>2. CASE q \in seen
    BY <1>1, <1>4, <2>1, <2>2 DEF PassInv
  <2>3. CASE q = qx
    BY <1>1, <1>4, <2>1, <2>3, PassTypes DEF Examined
  <2>. QED
    BY <1>1, <2>2, <2>3
<1>6. ASSUME NEW r \in Queue \ moved', prio'[r] > 0, Done(r)'
      PROVE  r \in seen'
  <2>1. prio'[r] = prio[r] /\ r \notin moved
    BY <1>2
  <2>2. prio[r] > plist[qi] \/ (prio[r] = plist[qi] /\ (r < qx \/ r = qx))
    BY <1>1, <1>4, <1>6, <2>1 DEF Done, Over
  <2>3. r = qx \/ Done(r)
    BY <1>4, <2>2 DEF Done, Over
  <2>. QED
    BY <1>1, <1>6, <2>1, <2>3 DEF PassInv
<1>. QED
  BY <1>1, <1>3, <1>5, <1>6 DEF PassInv

(* A key may change the priority of a queue too; the pass stays over. *)
LEMMA KeyPassInv ==
  ASSUME TypeOK, PassInv, Over, Over', UNCHANGED <<plist, seen>>,
         moved \subseteq moved', \A q \in Queue \ moved' : prio'[q] = prio[q]
  PROVE  PassInv'
<1>1. SortedList' /\ Matched'
  BY DEF PassInv, SortedList, Matched, Over
<1>2. Level = 1 /\ Level' = 1
  BY DEF Level
<1>3. \A q \in seen \ moved' : prio'[q] > 0 /\ prio'[q] >= plist[1]
  BY <1>2 DEF PassInv, TypeOK, Over
<1>4. ASSUME NEW r \in Queue \ moved', prio'[r] > 0, Done(r)'
      PROVE  r \in seen
  <2>1. r \in Queue \ moved /\ prio'[r] = prio[r]
    OBVIOUS
  <2>2. Done(r)
    BY <1>2, <1>4, <2>1 DEF Done
  <2>. QED
    BY <1>4, <2>1, <2>2 DEF PassInv, Over
<1>. QED
  BY <1>1, <1>2, <1>3, <1>4 DEF PassInv, Over

(* Steps that leave the pass where it is. *)
LEMMA StillPassInv ==
  ASSUME PassInv, UNCHANGED <<prio, plist, pc, qi, qx, seen, moved>>
  PROVE  PassInv'
BY DEF PassInv, SortedList, Matched, Level, Over, Done, PriorityOrder

(* PassInv is inductive. *)
THEOREM PassInvariant == Spec => []PassInv
<1>1. ASSUME Init
      PROVE  PassInv
  BY <1>1 DEF Init, PassInv
<1>2. ASSUME TypeOK, PassInv, [Next]_vars
      PROVE  PassInv'
  <2>. USE <1>2
  <2>1. CASE ReadLine
    <3>1. pc = "loop" /\ pc' \in {"loop", "exit"} /\ UNCHANGED seen
      BY <2>1 DEF ReadLine, InsertTask, TaskCntZero, SetQueueIndex, SetQueuePrio, SetWaitOnRun,
           SetWaitOnConf, ReadsSetting, FifoFull, passVars
    <3>. QED
      BY <3>1 DEF PassInv, PriorityOrder
  <2>2. CASE BeginPass
    BY <2>2, BeginPassInv
  <2>3. CASE Skip
    <3>1. seen' = seen \/ (seen' = seen \cup {qx} /\ Examined)
      BY <2>3 DEF Skip
    <3>2. Examined => qx \in seen'
      BY <2>3 DEF Skip
    <3>. QED
      BY <2>3, <3>1, <3>2, AdvancePassInv DEF Skip
  <2>4. CASE LaunchEnd
    BY <2>4, AdvancePassInv DEF LaunchEnd
  <2>5. ASSUME NEW s \in Slot, Launch(s)
        PROVE  PassInv'
    BY <2>5, LaunchPassInv
  <2>6. ASSUME NEW s \in Slot, Complete(s) \/ Hold(s)
        PROVE  PassInv'
    <3>1. /\ pc = "pass" /\ Advance /\ UNCHANGED <<plist, prio, moved>>
          /\ seen' = seen \cup {qx} /\ Examined
      BY <2>6 DEF Complete, Hold, Examined
    <3>. QED
      BY <3>1, AdvancePassInv
  <2>7. ASSUME NEW s \in Slot, WildFault(s)
        PROVE  PassInv'
    <3>1. PriorityOrder /\ pc' = "exit" /\ UNCHANGED <<prio, seen, moved>>
      BY <2>7, PassPriority DEF WildFault, passVars
    <3>. QED
      BY <3>1 DEF PassInv, PriorityOrder
  <2>8. ASSUME NEW mode \in Mode, Display(mode)
        PROVE  PassInv'
    BY <2>8 DEF Display, PassInv
  <2>9. ASSUME NEW f \in Fps, Process(f)
        PROVE  PassInv'
    BY <2>9, StillPassInv DEF Process, RunSpawn, RunExit, RunCrash, KeysLost, ConfChecked, passVars
  <2>10. CASE UNCHANGED vars
    BY <2>10, StillPassInv DEF vars, passVars
  <2>11. ASSUME NEW f \in Fps, Rewrite(f)
         PROVE  PassInv'
    BY <2>11, StillPassInv DEF Rewrite, LoadStatus, StoreStatus, passVars
  <2>12. ASSUME NEW c \in Command, KeyBegin(c)
         PROVE  PassInv'
    <3>1. Over /\ Over' /\ UNCHANGED <<plist, seen>> /\ CmdBegin(c)
      BY <2>12 DEF KeyBegin, Over
    <3>. QED
      BY <3>1, CmdBeginPrio, KeyPassInv
  <2>13. CASE KeyEnd
    <3>1. Over /\ Over' /\ UNCHANGED <<plist, seen, prio, moved>>
      BY <2>13 DEF KeyEnd, Over
    <3>. QED
      BY <3>1, KeyPassInv
  <2>. QED
    BY <2>1, <2>2, <2>3, <2>4, <2>5, <2>6, <2>7, <2>8, <2>9, <2>10, <2>11, <2>12, <2>13
    DEF Next, Scheduler
<1>. QED
  BY <1>1, <1>2, TypeCorrect, PTL DEF Spec

(* High number is high priority: no queue is examined before a queue of    *)
(* higher priority, as long as neither priority changed in the pass.       *)
THEOREM HighPriorityFirst == Spec => []PriorityOrder
BY PassInvariant, PassPriority, TypeCorrect, PTL

(* A pass examines every active queue, unless its priority changed in the  *)
(* pass or is lower than all others.                                       *)
THEOREM PassExamines == Spec => []PassComplete
BY PassInvariant, PassEnd, TypeCorrect, PTL

-----------------------------------------------------------------------------
(* The task list while the scheduler is displayed.                         *)

FinishedTasks == {s \in Slot : task[s].status = {"SHOW"}}

(* The display keeps at most NBkeep finished tasks. *)
LEMMA PurgeBounds ==
  ASSUME TypeOK, Purge
  PROVE  Cardinality(FinishedTasks') <= NBkeep
<1>1. PICK old \in SUBSET Shown :
        /\ Cardinality(Shown \ old) =
             (IF Cardinality(Shown) < NBkeep THEN Cardinality(Shown) ELSE NBkeep)
        /\ task' = Hide(old)
  BY DEF Purge
<1>2. IsFiniteSet(Slot)
  BY FS_Interval, SchedAssumption DEF Slot
<1>3. IsFiniteSet(Shown) /\ IsFiniteSet(Shown \ old)
  <2>1. Shown \in SUBSET Slot /\ Shown \ old \in SUBSET Slot
    BY DEF Shown
  <2>. QED
    BY <1>2, <2>1, FS_Subset
<1>4. Cardinality(Shown) \in Nat /\ Cardinality(Shown \ old) \in Nat
  BY <1>3, FS_CardinalityType
<1>5. FinishedTasks' \in SUBSET (Shown \ old)
  BY <1>1 DEF FinishedTasks, Hide, Shown, TypeOK, Task
<1>6. Cardinality(FinishedTasks') <= Cardinality(Shown \ old) /\ Cardinality(FinishedTasks') \in Nat
  BY <1>3, <1>5, FS_Subset, FS_CardinalityType
<1>. QED
  BY <1>1, <1>4, <1>6, SchedAssumption

(* A command takes an entry that holds no task, so no finished one is      *)
(* added.                                                                  *)
LEMMA InsertFinished ==
  ASSUME TypeOK, NEW c \in Command, InsertTask(c)
  PROVE  FinishedTasks' = FinishedTasks
<1>1. PICK k \in Slot : /\ FirstFree(k)
                        /\ task'[k].status = {"ACTIVE", "SHOW"}
                        /\ \A t \in Slot \ {k} : task'[t] = task[t]
  BY DEF InsertTask, TypeOK, Task
<1>2. k \notin FinishedTasks /\ task'[k].status # {"SHOW"}
  BY <1>1 DEF FinishedTasks, FirstFree, FreeSlot
<1>. QED
  BY <1>1, <1>2 DEF FinishedTasks

(* While the scheduler is displayed, finished tasks do not fill the task   *)
(* list: when lines are read, at most NBkeep entries hold finished tasks.  *)
THEOREM ListNotFilled ==
  ASSUME Mode \subseteq {3}
  PROVE  Spec => []FinishedBounded
<1>1. ASSUME Init
      PROVE  FinishedBounded
  <2>1. FinishedTasks = {}
    BY <1>1 DEF Init, EmptyTask, FinishedTasks
  <2>2. Cardinality(FinishedTasks) = 0
    BY <2>1, FS_EmptySet
  <2>3. Cardinality(FinishedTasks) <= NBkeep
    BY <2>2, SchedAssumption
  <2>. QED
    BY <2>3 DEF FinishedBounded, FinishedTasks
<1>2. ASSUME TypeOK, FinishedBounded, [Next]_vars
      PROVE  FinishedBounded'
  <2>. USE <1>2
  <2>1. ASSUME NEW c \in Command, InsertTask(c)
        PROVE  FinishedBounded'
    <3>1. pc = "loop" /\ FinishedTasks' = FinishedTasks
      BY <2>1, InsertFinished DEF InsertTask
    <3>2. Cardinality(FinishedTasks) <= NBkeep
      BY <3>1 DEF FinishedBounded, FinishedTasks
    <3>3. Cardinality(FinishedTasks') <= NBkeep
      BY <3>1, <3>2
    <3>. QED
      BY <3>3 DEF FinishedBounded, FinishedTasks
  <2>2. ASSUME NEW mode \in Mode, Display(mode)
        PROVE  FinishedBounded'
    <3>1. mode = 3
      OBVIOUS
    <3>2. Cardinality(FinishedTasks') <= NBkeep
      BY <2>2, <3>1, PurgeBounds DEF Display
    <3>. QED
      BY <3>2 DEF FinishedBounded, FinishedTasks
  <2>3. CASE UNCHANGED <<task, pc>> \/ pc' # "loop"
    BY <2>3 DEF FinishedBounded
  <2>4. CASE \/ TaskCntZero \/ FifoFull
             \/ \E q \in Queue : SetQueueIndex(q)
             \/ \E p \in Prio : SetQueuePrio(p)
             \/ \E on \in BOOLEAN : SetWaitOnRun(on) \/ SetWaitOnConf(on)
    BY <2>3, <2>4 DEF TaskCntZero, FifoFull, SetQueueIndex, SetQueuePrio, SetWaitOnRun,
       SetWaitOnConf
  <2>5. CASE BeginPass \/ Skip \/ LaunchEnd \/ KeyEnd \/ \E c \in Command : KeyBegin(c)
    BY <2>3, <2>5 DEF BeginPass, Skip, LaunchEnd, Advance, KeyBegin, KeyEnd
  <2>6. ASSUME NEW s \in Slot, Launch(s) \/ Complete(s) \/ Hold(s) \/ WildFault(s)
        PROVE  FinishedBounded'
    BY <2>3, <2>6 DEF Launch, Complete, Hold, WildFault, Advance
  <2>7. CASE UNCHANGED vars \/ \E f \in Fps : Process(f)
    BY <2>3, <2>7 DEF vars, Process, RunSpawn, RunExit, RunCrash, KeysLost, ConfChecked
  <2>8. ASSUME NEW f \in Fps, Rewrite(f)
        PROVE  FinishedBounded'
    <3>1. pc' = pc /\ \A t \in Slot : task'[t].status = task[t].status
      BY <2>8, UnquietType DEF Rewrite, LoadStatus, StoreStatus
    <3>2. FinishedTasks' = FinishedTasks
      BY <3>1 DEF FinishedTasks
    <3>. QED
      BY <3>1, <3>2 DEF FinishedBounded, FinishedTasks
  <2>. QED
    BY <2>1, <2>2, <2>4, <2>5, <2>6, <2>7, <2>8 DEF Next, ReadLine, Scheduler
<1>. QED
  BY <1>1, <1>2, TypeCorrect, PTL DEF Spec

=============================================================================
