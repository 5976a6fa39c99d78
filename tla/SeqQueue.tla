------------------------------ MODULE SeqQueue ------------------------------
(***************************************************************************)
(* What the fpsCTRL task queues promise (function_parameters.h:520-525):   *)
(* tasks of one queue are served one at a time, in the order in which they *)
(* were submitted; queues do not wait for each other.  A task is known by  *)
(* the number of its submission.                                           *)
(***************************************************************************)
EXTENDS Naturals

CONSTANT Queue  \* the task queues

VARIABLES
  nsub,     \* number of tasks submitted so far
  waiting,  \* per queue, the submitted tasks that have not started
  serving   \* per queue, the task being served: at most one

qvars == <<nsub, waiting, serving>>

QInit ==
  /\ nsub = 0
  /\ waiting = [q \in Queue |-> {}]
  /\ serving = [q \in Queue |-> {}]

(* A new task enters a queue, behind all the tasks of that queue. *)
Submit(q) ==
  /\ nsub' = nsub + 1
  /\ waiting' = [waiting EXCEPT ![q] = @ \cup {nsub + 1}]
  /\ UNCHANGED serving

(* The oldest task of a queue starts, once the one before it is finished. *)
Start(q) ==
  /\ serving[q] = {}
  /\ \E n \in waiting[q] :
       /\ \A m \in waiting[q] : n <= m
       /\ waiting' = [waiting EXCEPT ![q] = @ \ {n}]
       /\ serving' = [serving EXCEPT ![q] = {n}]
  /\ UNCHANGED nsub

(* The task being served is finished and leaves the queue. *)
Finish(q) ==
  /\ serving[q] # {}
  /\ serving' = [serving EXCEPT ![q] = {}]
  /\ UNCHANGED <<nsub, waiting>>

QNext == \E q \in Queue : Submit(q) \/ Start(q) \/ Finish(q)

QSpec == QInit /\ [][QNext]_qvars

=============================================================================
