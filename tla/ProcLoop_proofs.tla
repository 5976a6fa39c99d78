--------------------------- MODULE ProcLoop_proofs ---------------------------
(***************************************************************************)
(* Proofs about ProcLoop: its variables keep their types, a loop told to   *)
(* pause, to exit or to stop by a signal begins at most one more           *)
(* iteration, and the count of a loop with a limit.                        *)
(***************************************************************************)
EXTENDS ProcLoop, TLAPS

(* The bounds are numbers, and there is room for the counts of a loop. *)
LEMMA Bounds ==
  /\ MaxCnt \in Nat /\ MaxLoop \in Nat /\ MaxKey \in Nat
  /\ 0 \in 0 .. MaxCnt /\ 0 \in 0 .. MaxLoop /\ 0 \in 0 .. MaxKey
  /\ LoopMax \subseteq Nat \cup {-1} /\ \A m \in LoopMax : m + 1 < MaxCnt
BY LoopAssumption DEF LoopAssumption

(* Counting up to MaxCnt stays within 0 .. MaxCnt. *)
LEMMA CappedType ==
  ASSUME NEW n \in 0 .. MaxCnt
  PROVE  Capped(n) \in 0 .. MaxCnt
BY Bounds DEF Capped

(* The initial state has the right types. *)
LEMMA TypeInit == Init => TypeOK
<1> SUFFICES ASSUME Init
             PROVE  TypeOK
  OBVIOUS
<1>1. sig \in SUBSET (Signal \ {"TERM"})
  BY DEF Init
<1>2. loopcnt \in 0 .. MaxCnt /\ since \in 0 .. MaxCnt /\ late \in 0 .. MaxCnt
  BY Bounds DEF Init
<1>3. nloop \in 0 .. MaxLoop /\ nkey \in 0 .. MaxKey
  BY Bounds DEF Init
<1>4. CTRLval \in {Run, Pause, Step, Exit, NoCompute} /\ sval \in {Run, Pause, NoCompute}
  BY DEF Init
<1>5. loopstat \in {INIT, ACTIVE, STOPPED, ERROR}
  BY DEF Init
<1>6. dtiter_limit \in 0 .. 2 /\ dtexec_limit \in 0 .. 2 /\ loopcntMax \in LoopMax \cup {-1}
  BY DEF Init
<1>7. MeasureTiming \in BOOLEAN /\ loopOK \in BOOLEAN
  BY DEF Init
<1> QED
  BY <1>1, <1>2, <1>3, <1>4, <1>5, <1>6, <1>7 DEF Init, TypeOK

(* Every step keeps the types. *)
LEMMA TypeNext == TypeOK /\ [Next]_vars => TypeOK'
<1> SUFFICES ASSUME TypeOK, [Next]_vars
             PROVE  TypeOK'
  OBVIOUS
<1> USE Bounds DEF TypeOK, loopVars, limitVars, procVars, screenVars
<1>1. ASSUME NEW max \in LoopMax, NEW measure \in BOOLEAN, Setup(max, measure)
      PROVE  TypeOK'
  BY <1>1 DEF Setup, INIT
<1>2. CASE Error
  BY <1>2 DEF Error, ERROR
<1>3. CASE LoopStart
  BY <1>3 DEF LoopStart, ACTIVE
<1>4. CASE Resume \/ TestStep
  BY <1>4 DEF Resume, TestStep
<1>5. CASE Unstep
  BY <1>5 DEF Unstep, WriteCTRL, Pause
<1>6. CASE TestStop
  <2>1. since' \in 0 .. MaxCnt /\ late' \in 0 .. MaxCnt
    BY <1>6, CappedType DEF TestStop
  <2>2. loopOK' \in BOOLEAN
    BY <1>6 DEF TestStop, StopLoop
  <2> QED
    BY <1>6, <2>1, <2>2 DEF TestStop
<1>7. CASE ExecStart \/ Compute
  BY <1>7 DEF ExecStart, Compute, Overrun, WriteCTRL, Pause
<1>8. CASE ExecEnd
  <2>1. loopcnt' \in 0 .. MaxCnt
    BY <1>8, CappedType DEF ExecEnd
  <2> QED
    BY <1>8, <2>1 DEF ExecEnd, STOPPED
<1>9. CASE CleanExit
  BY <1>9 DEF CleanExit, STOPPED, ERROR
<1>10. ASSUME NEW s \in Signal, Receive(s)
       PROVE  TypeOK'
  <2>1. sig' \in SUBSET (Signal \ {"TERM"})
    BY <1>10 DEF Receive
  <2> QED
    BY <1>10, <2>1 DEF Receive
<1>11. CASE KeyPause \/ KeyCompute \/ TestAgain
  BY <1>11 DEF KeyPause, KeyCompute, TestAgain, Type, Run, Pause, NoCompute
<1>12. CASE KeyStore
  BY <1>12 DEF KeyStore, WriteCTRL, Run, Pause, NoCompute
<1>13. ASSUME NEW k \in Key, KeyStepExit(k)
       PROVE  TypeOK'
  BY <1>13 DEF KeyStepExit, Type, WriteCTRL, Step, Exit
<1>14. ASSUME NEW k \in Key, KeyLimit(k)
       PROVE  TypeOK'
  BY <1>14 DEF KeyLimit, Type
<1>15. CASE UNCHANGED vars
  BY <1>15 DEF vars
<1> QED
  BY <1>1, <1>2, <1>3, <1>4, <1>5, <1>6, <1>7, <1>8, <1>9, <1>10, <1>11, <1>12, <1>13, <1>14, <1>15
  DEF Next, Iterate, Screen, ScreenStep

(* The variables of the process and the screen keep their types, whatever  *)
(* loops, signals and keys there are.                                      *)
THEOREM TypeCorrect == Spec => []TypeOK
BY TypeInit, TypeNext, PTL DEF Spec

-----------------------------------------------------------------------------
(* Why a loop told to pause or exit begins at most one more iteration: the *)
(* iteration begun since then is either the present one, or it is over and *)
(* the loop is in its pause; one that follows an exit is the last.         *)
Stopping ==
  \/ since = 0
  \/ /\ since = 1
     /\ \/ pc \in {"exec", "compute", "end"} /\ (CTRLval = Exit => ~loopOK)
        \/ pc = "pause" /\ CTRLval = Pause

ControlInv == InLoop /\ CTRLval \in {Pause, Exit} => Stopping

(* Every step keeps ControlInv. *)
LEMMA ControlNext == TypeOK /\ ControlInv /\ [Next]_vars => ControlInv'
<1> SUFFICES ASSUME TypeOK, ControlInv, [Next]_vars, InLoop', CTRLval' \in {Pause, Exit}
             PROVE  Stopping'
  BY DEF ControlInv
<1> USE Bounds DEF TypeOK, ControlInv, Stopping, InLoop, loopVars, limitVars, procVars, screenVars
<1>1. ASSUME NEW max \in LoopMax, NEW measure \in BOOLEAN, Setup(max, measure)
      PROVE  Stopping'
  BY <1>1 DEF Setup
<1>2. CASE Error \/ LoopStart \/ CleanExit
  BY <1>2 DEF Error, LoopStart, CleanExit
<1>3. CASE Resume \/ TestStep
  BY <1>3 DEF Resume, TestStep
<1>4. CASE Unstep
  BY <1>4 DEF Unstep, WriteCTRL
<1>5. CASE TestStop
  <2>1. since = 0
    BY <1>5 DEF TestStop
  <2>2. since' \in {0, 1}
    BY <1>5, <2>1 DEF TestStop, Capped
  <2> QED
    BY <1>5, <2>2 DEF TestStop, StopLoop
<1>6. CASE ExecStart \/ Compute
  BY <1>6 DEF ExecStart, Compute, Overrun, WriteCTRL
<1>7. CASE ExecEnd
  BY <1>7 DEF ExecEnd
<1>8. ASSUME NEW s \in Signal, Receive(s)
      PROVE  Stopping'
  BY <1>8 DEF Receive
<1>9. CASE KeyPause \/ KeyCompute \/ TestAgain
  BY <1>9 DEF KeyPause, KeyCompute, TestAgain
<1>10. CASE KeyStore
  BY <1>10 DEF KeyStore, WriteCTRL
<1>11. ASSUME NEW k \in Key, KeyStepExit(k) \/ KeyLimit(k)
       PROVE  Stopping'
  BY <1>11 DEF KeyStepExit, KeyLimit, WriteCTRL
<1>12. CASE UNCHANGED vars
  BY <1>12 DEF vars
<1> QED
  BY <1>1, <1>2, <1>3, <1>4, <1>5, <1>6, <1>7, <1>8, <1>9, <1>10, <1>11, <1>12
  DEF Next, Iterate, Screen, ScreenStep

(* A loop told to pause or to exit begins at most one more iteration, for  *)
(* all loops, keys and signals (PromptControl).                            *)
THEOREM ControlIsPrompt == Spec => []PromptControl
<1>1. Init => ControlInv
  BY DEF Init, ControlInv, InLoop
<1>2. TypeOK /\ ControlInv => PromptControl
  BY DEF TypeOK, ControlInv, PromptControl, Stopping
<1> QED
  BY <1>1, <1>2, TypeCorrect, ControlNext, PTL DEF Spec

-----------------------------------------------------------------------------
(* Why a loop begins at most one more iteration after a signal: that one   *)
(* is the present one, and it is the last.                                 *)
SignalInv ==
  InLoop =>
    \/ late = 0
    \/ /\ late = 1 /\ sig \cap {"INT", "HUP"} # {}
       /\ pc \in {"exec", "compute", "end"} /\ ~loopOK

(* Every step keeps SignalInv. *)
LEMMA SignalNext == TypeOK /\ SignalInv /\ [Next]_vars => SignalInv'
<1> SUFFICES ASSUME TypeOK, SignalInv, [Next]_vars
             PROVE  SignalInv'
  OBVIOUS
<1> USE Bounds DEF TypeOK, SignalInv, InLoop, loopVars, limitVars, procVars, screenVars
<1>1. CASE TestStop
  <2>1. late = 0
    BY <1>1 DEF TestStop
  <2>2. CASE sig \cap {"INT", "HUP"} # {}
    <3>1. late' \in {0, 1}
      BY <1>1, <2>1, <2>2 DEF TestStop, Capped
    <3>2. StopLoop
      BY <2>2 DEF StopLoop
    <3>3. ~loopOK' /\ pc' = "exec" /\ sig' = sig
      BY <1>1, <3>2 DEF TestStop
    <3> QED
      BY <2>2, <3>1, <3>3
  <2>3. CASE sig \cap {"INT", "HUP"} = {}
    BY <1>1, <2>1, <2>3 DEF TestStop
  <2> QED
    BY <2>2, <2>3
<1>2. ASSUME NEW s \in Signal, Receive(s)
      PROVE  SignalInv'
  <2>1. sig \subseteq sig'
    BY <1>2 DEF Receive
  <2> QED
    BY <1>2, <2>1 DEF Receive
<1>3. CASE LoopStart
  BY <1>3 DEF LoopStart
<1>4. CASE ExecEnd
  BY <1>4 DEF ExecEnd
<1>5. CASE Resume \/ TestStep \/ Unstep \/ ExecStart \/ Compute
  BY <1>5 DEF Resume, TestStep, Unstep, ExecStart, Compute
<1>6. CASE Error \/ CleanExit
  BY <1>6 DEF Error, CleanExit
<1>7. ASSUME NEW max \in LoopMax, NEW measure \in BOOLEAN, Setup(max, measure)
      PROVE  SignalInv'
  BY <1>7 DEF Setup
<1>8. CASE Screen \/ UNCHANGED vars
  BY <1>8 DEF Screen, ScreenStep, KeyPause, KeyCompute, TestAgain, KeyStore, KeyStepExit, KeyLimit, vars
<1> QED
  BY <1>1, <1>2, <1>3, <1>4, <1>5, <1>6, <1>7, <1>8 DEF Next, Iterate

(* A loop whose process received SIGINT or SIGHUP begins at most one more  *)
(* iteration (PromptSignal).                                               *)
THEOREM SignalIsPrompt == Spec => []PromptSignal
<1>1. Init => SignalInv
  BY DEF Init, SignalInv, InLoop
<1>2. TypeOK /\ SignalInv => PromptSignal
  BY DEF TypeOK, SignalInv, PromptSignal
<1> QED
  BY <1>1, <1>2, TypeCorrect, SignalNext, PTL DEF Spec

-----------------------------------------------------------------------------
(* Why a loop with a limit ends with the count loopcntMax + 1: as long as  *)
(* the loop is to go on the count is below the limit, and if it is not and *)
(* nothing else has ended it, the count has reached the limit.             *)
Below ==
  /\ InLoop => loopcnt <= loopcntMax
  /\ pc \in {"exec", "compute", "end"} /\ loopOK => loopcnt < loopcntMax
  /\ pc = "clean" /\ loopstat = ACTIVE => loopcnt \in 1 .. loopcntMax + 1

Reached ==
  /\ pc \in {"pause", "step", "unstep", "test"} => since <= loopcnt
  /\ pc \in {"exec", "compute", "end"} =>
       since <= loopcnt + 1 /\ (~loopOK /\ sig = {} /\ CTRLval = Run /\ since = loopcnt + 1 => loopcnt = loopcntMax)
  /\ pc = "clean" =>
       (loopstat = ACTIVE /\ CTRLval = Run /\ since = loopcnt => loopcnt = loopcntMax + 1)

CountInv == loopcntMax # -1 => Below /\ Reached

(* Every step keeps CountInv. *)
LEMMA CountNext == TypeOK /\ CountInv /\ [Next]_vars => CountInv'
<1> SUFFICES ASSUME TypeOK, CountInv, [Next]_vars, loopcntMax' # -1
             PROVE  Below' /\ Reached'
  BY DEF CountInv
<1> USE Bounds DEF TypeOK, CountInv, Below, Reached, InLoop, loopVars, limitVars, procVars, screenVars
<1>1. ASSUME NEW max \in LoopMax, NEW measure \in BOOLEAN, Setup(max, measure)
      PROVE  Below' /\ Reached'
  BY <1>1 DEF Setup
<1>2. CASE Error
  BY <1>2 DEF Error, ERROR, ACTIVE
<1>3. CASE LoopStart
  BY <1>3 DEF LoopStart
<1>4. CASE Resume \/ TestStep
  BY <1>4 DEF Resume, TestStep
<1>5. CASE Unstep
  BY <1>5 DEF Unstep, WriteCTRL
<1>6. CASE TestStop
  <2>1. loopcnt <= loopcntMax /\ since <= loopcnt /\ loopcntMax' = loopcntMax
    BY <1>6 DEF TestStop
  <2>2. since' = since + 1
    BY <1>6, <2>1 DEF TestStop, Capped
  <2>3. loopcnt < loopcntMax \/ StopLoop
    BY <1>6, <2>1 DEF TestStop, StopLoop
  <2>4. StopLoop /\ sig = {} /\ CTRLval = Run => loopcnt = loopcntMax
    BY <2>1 DEF StopLoop, Run, Exit
  <2>5. loopOK' <=> ~StopLoop
    BY <1>6 DEF TestStop
  <2> QED
    BY <1>6, <2>1, <2>2, <2>3, <2>4, <2>5 DEF TestStop
<1>7. CASE ExecStart \/ Compute
  BY <1>7 DEF ExecStart, Compute, Overrun, WriteCTRL, Pause, Run
<1>8. CASE ExecEnd
  <2>1. loopcnt <= loopcntMax /\ loopcntMax' = loopcntMax
    BY <1>8 DEF ExecEnd
  <2>2. loopcnt' = loopcnt + 1
    BY <1>8, <2>1 DEF ExecEnd, Capped
  <2>3. loopstat' = ACTIVE => sig = {}
    BY <1>8 DEF ExecEnd, ACTIVE, STOPPED
  <2>4. CASE loopOK
    BY <1>8, <2>1, <2>2, <2>4 DEF ExecEnd
  <2>5. CASE ~loopOK
    BY <1>8, <2>1, <2>2, <2>3, <2>5 DEF ExecEnd
  <2> QED
    BY <2>4, <2>5
<1>9. CASE CleanExit
  BY <1>9 DEF CleanExit
<1>10. ASSUME NEW s \in Signal, Receive(s)
       PROVE  Below' /\ Reached'
  <2>1. sig' = {} => sig = {}
    BY <1>10 DEF Receive
  <2> QED
    BY <1>10, <2>1 DEF Receive
<1>11. CASE KeyPause \/ KeyCompute \/ TestAgain
  BY <1>11 DEF KeyPause, KeyCompute, TestAgain
<1>12. CASE KeyStore
  BY <1>12 DEF KeyStore, WriteCTRL
<1>13. ASSUME NEW k \in Key, KeyStepExit(k) \/ KeyLimit(k)
       PROVE  Below' /\ Reached'
  BY <1>13 DEF KeyStepExit, KeyLimit, WriteCTRL
<1>14. CASE UNCHANGED vars
  BY <1>14 DEF vars
<1> QED
  BY <1>1, <1>2, <1>3, <1>4, <1>5, <1>6, <1>7, <1>8, <1>9, <1>10, <1>11, <1>12, <1>13, <1>14
  DEF Next, Iterate, Screen, ScreenStep

(* The count of a loop with a limit never passes loopcntMax + 1, and it is *)
(* the count of a loop that nothing else has ended (CountOK).              *)
THEOREM CountIsOK == Spec => []CountOK
<1>1. Init => CountInv
  BY DEF Init, CountInv
<1>2. TypeOK /\ CountInv => CountOK
  BY DEF TypeOK, CountInv, CountOK, Below, Reached
<1> QED
  BY <1>1, <1>2, TypeCorrect, CountNext, PTL DEF Spec

=============================================================================
