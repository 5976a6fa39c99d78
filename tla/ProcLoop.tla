------------------------------ MODULE ProcLoop ------------------------------
(***************************************************************************)
(* A process that runs loops under processinfo (processtools.c), and the   *)
(* procCTRL screen that controls it.  Both write the word CTRLval of the   *)
(* shared PROCESSINFO structure, without lock or atomic instruction; the   *)
(* process is cut at each of its accesses to it.                           *)
(*                                                                         *)
(* The order of calls in a loop is that of the code template of            *)
(* doc/ProcessInfoStructure.md, which ignores what exec_end returns:       *)
(*   setup, loopstart, while(loopOK) { loopOK = loopstep, exec_start,      *)
(*   computation if compute_status, exec_end }, cleanExit                  *)
(*                                                                         *)
(* since and late are history: no guard reads them.                        *)
(***************************************************************************)
EXTENDS Integers

CONSTANTS
  LoopMax,   \* the values of loopcntMax that loops are given (-1: no limit)
  MaxLoop,   \* bound on the loops that the process runs
  MaxCnt,    \* iterations are counted up to this number
  Key,       \* the keys typed at the screen
  MaxKey,    \* bound on their number
  Signal     \* the signals that the process may receive

ASSUME LoopAssumption ==
  /\ LoopMax \subseteq Nat \cup {-1}
  /\ MaxLoop \in Nat /\ MaxKey \in Nat
  /\ MaxCnt \in Nat /\ \A m \in LoopMax : m + 1 < MaxCnt
  /\ Key \subseteq {"p", "c", "s", "e", "L", "M"}
  /\ Signal \subseteq {"INT", "HUP", "PIPE", "TERM"}

\* CTRLval: run, pause, single step, exit the loop, run without computing
Run == 0
Pause == 1
Step == 2
Exit == 3
NoCompute == 5

\* loopstat: before the loop, in the loop, terminated, error
INIT == 0
ACTIVE == 1
STOPPED == 3
ERROR == 4

VARIABLES
  CTRLval, loopstat, loopcnt, loopcntMax,
  MeasureTiming,
  dtiter_limit, dtexec_limit,  \* dtiter_limit_enable, dtexec_limit_enable
  sig,       \* signals recorded by the handler, never reset
  pc,        \* where the process is
  loopOK,
  nloop,     \* number of loops begun
  spc, sval, \* the screen: idle, about to store sval, about to test again
  nkey,      \* number of keys typed
  since,     \* iterations begun since CTRLval has its value
  late       \* iterations begun since SIGINT or SIGHUP was received

loopVars   == <<loopstat, loopcnt, loopcntMax, MeasureTiming>>
limitVars  == <<dtiter_limit, dtexec_limit>>
procVars   == <<pc, loopOK, nloop>>
screenVars == <<spc, sval, nkey>>
vars == <<CTRLval, loopVars, limitVars, sig, procVars, screenVars, since, late>>

(* A structure that processinfo_shm_create has made for this process.      *)
Init ==
  /\ CTRLval = Run /\ loopstat = INIT /\ loopcnt = 0 /\ loopcntMax = -1
  /\ MeasureTiming = FALSE /\ dtiter_limit = 0 /\ dtexec_limit = 0
  /\ sig = {}
  /\ pc = "prompt" /\ loopOK = TRUE /\ nloop = 0
  /\ spc = "idle" /\ sval = Run /\ nkey = 0
  /\ since = 0 /\ late = 0

InLoop == pc \in {"pause", "step", "unstep", "test", "exec", "compute", "end"}

Capped(n) == IF n < MaxCnt THEN n + 1 ELSE n

WriteCTRL(value) ==
  /\ CTRLval' = value
  /\ since' = IF value = CTRLval THEN since ELSE 0

-----------------------------------------------------------------------------
(* The process.                                                            *)

(* processinfo_setup and the optional settings of the template.  CTRLval,  *)
(* the limits and the signals are left as an earlier loop had them.        *)
Setup(max, measure) ==
  /\ pc = "prompt" /\ nloop < MaxLoop
  /\ loopstat' = INIT
  /\ loopcntMax' = max /\ MeasureTiming' = measure
  /\ nloop' = nloop + 1
  /\ pc' = "setup"
  /\ UNCHANGED <<CTRLval, loopcnt, limitVars, sig, loopOK, screenVars, since, late>>

(* The loop cannot start: processinfo_error. *)
Error ==
  /\ pc = "setup"
  /\ loopstat' = ERROR
  /\ pc' = "clean"
  /\ UNCHANGED <<CTRLval, loopcnt, loopcntMax, MeasureTiming, limitVars, sig, loopOK, nloop,
                 screenVars, since, late>>

LoopStart ==
  /\ pc = "setup"
  /\ loopcnt' = 0 /\ loopstat' = ACTIVE /\ loopOK' = TRUE
  /\ pc' = "pause"
  /\ since' = 0 /\ late' = 0
  /\ UNCHANGED <<CTRLval, loopcntMax, MeasureTiming, limitVars, sig, nloop, screenVars>>

(* processinfo_loopstep: three tests of CTRLval, then the other reasons to *)
(* stop.  The loop is in its pause as long as CTRLval is 1.                *)

(* Mutated forms of Resume: there is no pause; it is left to run only.     *)
Resume_Run ==
  /\ pc = "pause" /\ CTRLval \in {Run, Step}
  /\ pc' = "step"
  /\ UNCHANGED <<CTRLval, loopVars, limitVars, sig, loopOK, nloop, screenVars, since, late>>

Resume_Always ==
  /\ pc = "pause"
  /\ pc' = "step"
  /\ UNCHANGED <<CTRLval, loopVars, limitVars, sig, loopOK, nloop, screenVars, since, late>>

Resume ==
  /\ pc = "pause" /\ CTRLval # Pause
  /\ pc' = "step"
  /\ UNCHANGED <<CTRLval, loopVars, limitVars, sig, loopOK, nloop, screenVars, since, late>>

TestStep ==
  /\ pc = "step"
  /\ pc' = IF CTRLval = Step THEN "unstep" ELSE "test"
  /\ UNCHANGED <<CTRLval, loopVars, limitVars, sig, loopOK, nloop, screenVars, since, late>>

Unstep ==
  /\ pc = "unstep"
  /\ WriteCTRL(Pause)
  /\ pc' = "test"
  /\ UNCHANGED <<loopVars, limitVars, sig, loopOK, nloop, screenVars, late>>

(* Mutated forms of StopLoop: signals are left to exec_end; one iteration  *)
(* too many.                                                               *)
StopLoop_NoSignal ==
  \/ CTRLval = Exit
  \/ loopcntMax # -1 /\ loopcnt >= loopcntMax

StopLoop_OneMore ==
  \/ CTRLval = Exit
  \/ sig \cap {"INT", "HUP"} # {}
  \/ loopcntMax # -1 /\ loopcnt > loopcntMax

StopLoop ==
  \/ CTRLval = Exit
  \/ sig \cap {"INT", "HUP"} # {}
  \/ loopcntMax # -1 /\ loopcnt >= loopcntMax

(* The last test of loopstep.  Whatever it says, an iteration begins.      *)
TestStop ==
  /\ pc = "test"
  /\ loopOK' = ~StopLoop
  /\ pc' = "exec"
  /\ since' = Capped(since)
  /\ late' = IF sig \cap {"INT", "HUP"} # {} THEN Capped(late) ELSE late
  /\ UNCHANGED <<CTRLval, loopVars, limitVars, sig, nloop, screenVars>>

(* A time over its limit pauses the process if the limit is set to 2.      *)
Overrun(limit) ==
  IF MeasureTiming /\ limit = 2 THEN WriteCTRL(Pause) ELSE UNCHANGED <<CTRLval, since>>

ExecStart ==
  /\ pc = "exec"
  /\ \/ UNCHANGED <<CTRLval, since>>
     \/ Overrun(dtiter_limit)
  /\ pc' = "compute"
  /\ UNCHANGED <<loopVars, limitVars, sig, loopOK, nloop, screenVars, late>>

(* The computation, or not (compute_status), and the limit on its time.    *)
Compute ==
  /\ pc = "compute"
  /\ \/ UNCHANGED <<CTRLval, since>>
     \/ Overrun(dtexec_limit)
  /\ pc' = "end"
  /\ UNCHANGED <<loopVars, limitVars, sig, loopOK, nloop, screenVars, late>>

(* processinfo_exec_end after its limit: ProcessSignals and the count.     *)
ExecEnd ==
  /\ pc = "end"
  /\ loopstat' = IF sig # {} THEN STOPPED ELSE loopstat
  /\ loopcnt' = Capped(loopcnt)
  /\ pc' = IF loopOK THEN "pause" ELSE "clean"
  /\ UNCHANGED <<CTRLval, loopcntMax, MeasureTiming, limitVars, sig, loopOK, nloop, screenVars,
                 since, late>>

CleanExit ==
  /\ pc = "clean"
  /\ loopstat' = IF loopstat = ERROR THEN ERROR ELSE STOPPED
  /\ pc' = "prompt"
  /\ UNCHANGED <<CTRLval, loopcnt, loopcntMax, MeasureTiming, limitVars, sig, loopOK, nloop,
                 screenVars, since, late>>

(* sig_handler: the signal is recorded, or the handler exits. *)
Receive(s) ==
  /\ pc # "dead" /\ s \notin sig
  /\ \/ s = "TERM" /\ pc' = "dead" /\ UNCHANGED sig
     \/ s # "TERM" /\ sig' = sig \cup {s} /\ UNCHANGED pc
  /\ UNCHANGED <<CTRLval, loopVars, limitVars, loopOK, nloop, screenVars, since, late>>

Iterate ==
  \/ Resume \/ TestStep \/ Unstep \/ TestStop
  \/ ExecStart \/ Compute \/ ExecEnd \/ CleanExit

-----------------------------------------------------------------------------
(* The procCTRL screen: one key after another.                             *)

Type(k) == spc = "idle" /\ k \in Key /\ nkey < MaxKey /\ nkey' = nkey + 1

(* p and c load CTRLval and then store what they made of it; c loads it a  *)
(* second time if it is not 0.                                             *)
KeyPause ==
  /\ Type("p")
  /\ spc' = "store" /\ sval' = IF CTRLval = Run THEN Pause ELSE Run
  /\ UNCHANGED <<CTRLval, loopVars, limitVars, sig, procVars, since, late>>

KeyCompute ==
  /\ Type("c")
  /\ \/ CTRLval = Run /\ spc' = "store" /\ sval' = NoCompute
     \/ CTRLval # Run /\ spc' = "again" /\ UNCHANGED sval
  /\ UNCHANGED <<CTRLval, loopVars, limitVars, sig, procVars, since, late>>

TestAgain ==
  /\ spc = "again"
  /\ \/ CTRLval = NoCompute /\ spc' = "store" /\ sval' = Run
     \/ CTRLval # NoCompute /\ spc' = "idle" /\ UNCHANGED sval
  /\ UNCHANGED <<CTRLval, loopVars, limitVars, sig, procVars, nkey, since, late>>

KeyStore ==
  /\ spc = "store"
  /\ WriteCTRL(sval)
  /\ spc' = "idle"
  /\ UNCHANGED <<loopVars, limitVars, sig, procVars, sval, nkey, late>>

KeyStepExit(k) ==
  /\ Type(k)
  /\ \/ k = "s" /\ WriteCTRL(Step)
     \/ k = "e" /\ WriteCTRL(Exit)
  /\ UNCHANGED <<loopVars, limitVars, sig, procVars, spc, sval, late>>

(* Mutated form of KeyLimit: the limit is not set back to off. *)
KeyLimit_NoWrap(k) ==
  /\ Type(k)
  /\ \/ k = "L" /\ dtiter_limit' = dtiter_limit + 1 /\ UNCHANGED dtexec_limit
     \/ k = "M" /\ dtexec_limit' = dtexec_limit + 1 /\ UNCHANGED dtiter_limit
  /\ UNCHANGED <<CTRLval, loopVars, sig, procVars, spc, sval, since, late>>

(* L and M step a limit through off, report, pause. *)
KeyLimit(k) ==
  /\ Type(k)
  /\ \/ k = "L" /\ dtiter_limit' = (dtiter_limit + 1) % 3 /\ UNCHANGED dtexec_limit
     \/ k = "M" /\ dtexec_limit' = (dtexec_limit + 1) % 3 /\ UNCHANGED dtiter_limit
  /\ UNCHANGED <<CTRLval, loopVars, sig, procVars, spc, sval, since, late>>

ScreenStep == TestAgain \/ KeyStore

Screen == KeyPause \/ KeyCompute \/ ScreenStep \/ \E k \in Key : KeyStepExit(k) \/ KeyLimit(k)

Next ==
  \/ \E max \in LoopMax, measure \in BOOLEAN : Setup(max, measure)
  \/ Error \/ LoopStart \/ Iterate
  \/ \E s \in Signal : Receive(s)
  \/ Screen

Spec == Init /\ [][Next]_vars

(* A process in its loop goes on: what it waits for, a semaphore posted by *)
(* its input stream, comes.  The screen ends what a key began.             *)
Fairness == WF_vars(Iterate) /\ WF_vars(ScreenStep)

FairSpec == Spec /\ Fairness

-----------------------------------------------------------------------------
(* Properties.                                                             *)

(* The variables have their types (PROCESSINFO): the values of CTRLval and *)
(* loopstat are those of processtools.h, and a limit is off, 1 or 2.       *)
TypeOK ==
  /\ CTRLval \in {Run, Pause, Step, Exit, NoCompute}
  /\ loopstat \in {INIT, ACTIVE, STOPPED, ERROR}
  /\ loopcnt \in 0 .. MaxCnt /\ loopcntMax \in LoopMax \cup {-1}
  /\ MeasureTiming \in BOOLEAN /\ dtiter_limit \in 0 .. 2 /\ dtexec_limit \in 0 .. 2
  /\ sig \in SUBSET (Signal \ {"TERM"})
  /\ pc \in {"prompt", "setup", "pause", "step", "unstep", "test", "exec", "compute", "end",
             "clean", "dead"}
  /\ loopOK \in BOOLEAN /\ nloop \in 0 .. MaxLoop
  /\ spc \in {"idle", "store", "again"} /\ sval \in {Run, Pause, NoCompute}
  /\ nkey \in 0 .. MaxKey /\ since \in 0 .. MaxCnt /\ late \in 0 .. MaxCnt

(* A loop that is told to pause or to exit begins at most one more         *)
(* iteration, wherever the request finds it, whoever made it               *)
(* (processtools.h:80, 82).                                                *)
PromptControl == InLoop /\ CTRLval \in {Pause, Exit} => since <= 1

(* A loop whose process received SIGINT or SIGHUP begins at most one more  *)
(* iteration, pauses apart (processtools.c:378-384).                       *)
PromptSignal == InLoop => late <= 1

(* Until the count is loopcntMax the loop goes on, and then one more       *)
(* iteration is made: the count of a loop never passes loopcntMax + 1, and *)
(* a loop that nothing else has ended ends with that count.                *)
CountOK ==
  loopcntMax # -1 =>
    /\ InLoop => loopcnt <= loopcntMax
    /\ pc = "clean" /\ loopstat = ACTIVE => loopcnt <= loopcntMax + 1
    /\ pc = "clean" /\ loopstat = ACTIVE /\ CTRLval = Run /\ since = loopcnt
         => loopcnt = loopcntMax + 1

(* A loop told to exit ends, also from its pause, unless CTRLval is        *)
(* overwritten.                                                            *)
ExitAnswered == InLoop /\ CTRLval = Exit ~> ~InLoop \/ CTRLval # Exit

(* A signal that stops loops ends the loop, unless it is in its pause,     *)
(* where signals are not looked at.                                        *)
SignalAnswered ==
  InLoop /\ sig \cap {"INT", "HUP"} # {} ~> ~InLoop \/ CTRLval = Pause

=============================================================================
