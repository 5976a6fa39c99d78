------------------------------ MODULE ProcScan ------------------------------
(***************************************************************************)
(* The list of processes in shared memory, the processes that enter it,    *)
(* and procCTRL with its two threads (processtools.c): the scan thread     *)
(* looks at every slot, maps the files of the processes and sorts them;    *)
(* the screen handles keys and draws.  The flags SCANBLOCK_requested and   *)
(* SCANBLOCK_OK keep the two apart.  Nothing keeps the processes that      *)
(* enter the list apart from each other or from the scan.                  *)
(*                                                                         *)
(* A process stands for its PID and its name, and for the file named after *)
(* them.  raced, late and scanlate are history: no guard reads them.       *)
(***************************************************************************)
EXTENDS Integers, FiniteSets

CONSTANTS
  Proc,     \* the processes
  Mortal,   \* those that may end or be killed from elsewhere
  NoProc,   \* PID 0, NULL, no file
  NS,       \* PROCESSINFOLISTSIZE
  ND,       \* NBpinfodisp: slots that are scanned and displayed
  Key,      \* the keys typed at the screen
  MaxKey    \* bound on their number

ASSUME ScanAssumption ==
  /\ NoProc \notin Proc /\ Mortal \subseteq Proc
  /\ NS \in Nat \ {0} /\ ND \in 1 .. NS
  /\ Key \subseteq {"up", "down", "mark", "unmark", "kill", "remove", "removeall", "control", "limit",
                 "sort", "freeze", "exit"}
  /\ MaxKey \in Nat

Slot == 0 .. NS - 1
Displayed == 0 .. ND - 1

VARIABLES
  created,                \* the file of the list exists
  active, PIDarray,       \* the list
  file,                   \* the processes whose file exists
  ppc, slot,              \* where a process is, and the slot it found
  ctime,                  \* createtime, 0 before
  SCANBLOCK_requested, SCANBLOCK_OK, loop, loopcnt,
  pinfo,                  \* pinfoarray: the file that is mapped
  NBpindexActive, pindexActive, sorted_pindex_time,
  tpc, ti,                \* where the scan thread is, and its slot
  sname, missing, update, \* SM_fname, whether the file is missing, updatearray
  spc, loopOK,            \* where the screen is, and whether it goes on
  cursor, pindexSelected, \* pindexActiveSelected, and the slot it stands for
  pindexSelectedOK, selected, TimeSorted, freeze, nkey,
  raced,                  \* processes whose registration met another's or a scan
  late,                   \* processes that entered after the scan loaded their slot
  scanlate                \* there were such processes when the list was sorted

listVars == <<created, active, PIDarray, file>>
procVars == <<ppc, slot, ctime>>
handVars == <<SCANBLOCK_requested, SCANBLOCK_OK, loop, loopcnt>>
scanVars == <<tpc, ti, sname, missing, update>>
sortVars == <<NBpindexActive, pindexActive, sorted_pindex_time>>
keyVars  == <<cursor, pindexSelected, pindexSelectedOK, selected, TimeSorted, freeze, nkey>>
history  == <<raced, late, scanlate>>
vars == <<listVars, procVars, handVars, scanVars, pinfo, sortVars, spc, loopOK, keyVars, history>>

Init ==
  /\ created = FALSE /\ file = {}
  /\ active = [i \in Slot |-> 0] /\ PIDarray = [i \in Slot |-> NoProc]
  /\ ppc = [p \in Proc |-> "new"] /\ slot = [p \in Proc |-> 0] /\ ctime = [p \in Proc |-> 0]
  /\ SCANBLOCK_requested = FALSE /\ SCANBLOCK_OK = FALSE /\ loop = TRUE /\ loopcnt = 0
  /\ pinfo = [i \in Slot |-> NoProc] /\ NBpindexActive = 0
  /\ pindexActive = [k \in Slot |-> 0] /\ sorted_pindex_time = [k \in Slot |-> k]
  /\ tpc = "none" /\ ti = 0 /\ sname = NoProc /\ missing = FALSE /\ update = FALSE
  /\ spc = "start" /\ loopOK = TRUE
  /\ cursor = 0 /\ pindexSelected = 0 /\ pindexSelectedOK = FALSE /\ selected = {}
  /\ TimeSorted = TRUE /\ freeze = FALSE /\ nkey = 0
  /\ raced = {} /\ late = {} /\ scanlate = FALSE

-----------------------------------------------------------------------------
(* The processes: processinfo_shm_create.                                  *)

ActiveSlots == {i \in Slot : active[i] # 0}

Registering(i) == {p \in Proc : ppc[p] \in {"found", "named", "made"} /\ slot[p] = i}

FirstFree(i) == active[i] = 0 /\ \A j \in Slot : j < i => active[j] # 0

(* processinfo_shm_list_create: the first free slot of the list, if there  *)
(* is a list; the process exits if there is no free slot.                  *)
FindSlot(p) ==
  /\ ppc[p] = "new"
  /\ \/ /\ ~created
        /\ ppc' = [ppc EXCEPT ![p] = "creating"] /\ UNCHANGED <<slot, raced>>
     \/ /\ created
        /\ IF ActiveSlots = Slot
             THEN ppc' = [ppc EXCEPT ![p] = "dead"] /\ UNCHANGED <<slot, raced>>
             ELSE \E i \in Slot :
                    /\ FirstFree(i)
                    /\ ppc' = [ppc EXCEPT ![p] = "found"] /\ slot' = [slot EXCEPT ![p] = i]
                    /\ raced' = raced \cup (IF Registering(i) # {} \/ (tpc = "test" /\ ti = i)
                                              THEN Registering(i) \cup {p} ELSE {})
  /\ UNCHANGED <<listVars, ctime, handVars, scanVars, pinfo, sortVars, spc, loopOK, keyVars,
                 late, scanlate>>

(* There was no list: an empty one is made, whatever is there by now.      *)
EmptyList ==
  /\ created' = TRUE
  /\ active' = [i \in Slot |-> 0] /\ PIDarray' = [i \in Slot |-> NoProc]
  /\ UNCHANGED file

CreateList(p) ==
  /\ ppc[p] = "creating"
  /\ EmptyList
  /\ ppc' = [ppc EXCEPT ![p] = "found"] /\ slot' = [slot EXCEPT ![p] = 0]
  /\ raced' = IF created THEN Proc ELSE raced
  /\ UNCHANGED <<ctime, handVars, scanVars, pinfo, sortVars, spc, loopOK, keyVars, late, scanlate>>

WriteSlot(p) ==
  /\ ppc[p] = "found"
  /\ PIDarray' = [PIDarray EXCEPT ![slot[p]] = p]
  /\ ppc' = [ppc EXCEPT ![p] = "named"]
  /\ UNCHANGED <<created, active, file, slot, ctime, handVars, scanVars, pinfo, sortVars, spc, loopOK,
                 keyVars, history>>

MakeFile(p) ==
  /\ ppc[p] = "named"
  /\ file' = file \cup {p}
  /\ ctime' = [ctime EXCEPT ![p] = 1 + Cardinality({q \in Proc : ctime[q] # 0})]
  /\ ppc' = [ppc EXCEPT ![p] = "made"]
  /\ UNCHANGED <<created, active, PIDarray, slot, handVars, scanVars, pinfo, sortVars, spc, loopOK,
                 keyVars, history>>

Activate(p) ==
  /\ ppc[p] = "made"
  /\ active' = [active EXCEPT ![slot[p]] = 1]
  /\ ppc' = [ppc EXCEPT ![p] = "live"]
  /\ late' = IF slot[p] \in Displayed THEN late \cup {p} ELSE late
  /\ UNCHANGED <<created, PIDarray, file, slot, ctime, handVars, scanVars, pinfo, sortVars, spc, loopOK,
                 keyVars, raced, scanlate>>

(* A process ends or is killed, also while it registers; its file stays.   *)
Die(p) ==
  /\ p \in Mortal /\ ppc[p] \notin {"new", "dead"}
  /\ ppc' = [ppc EXCEPT ![p] = "dead"]
  /\ UNCHANGED <<listVars, slot, ctime, handVars, scanVars, pinfo, sortVars, spc, loopOK, keyVars, history>>

Process(p) ==
  \/ FindSlot(p) \/ CreateList(p) \/ WriteSlot(p) \/ MakeFile(p) \/ Activate(p) \/ Die(p)

-----------------------------------------------------------------------------
(* The scan thread: processinfo_scan.                                      *)

Request ==
  /\ tpc = "request"
  /\ SCANBLOCK_requested' = TRUE
  /\ tpc' = "wait"
  /\ UNCHANGED <<listVars, procVars, SCANBLOCK_OK, loop, loopcnt, ti, sname, missing, update,
                 pinfo, sortVars, spc, loopOK, keyVars, history>>

(* Mutated forms of AwaitOK: the thread does not wait; it waits for ever. *)
AwaitOK_Never ==
  /\ tpc = "wait"
  /\ tpc' = "granted"
  /\ UNCHANGED <<listVars, procVars, handVars, ti, sname, missing, update, pinfo, sortVars, spc, loopOK,
                 keyVars, history>>

AwaitOK_NoExit ==
  /\ tpc = "wait" /\ SCANBLOCK_OK
  /\ tpc' = "granted"
  /\ UNCHANGED <<listVars, procVars, handVars, ti, sname, missing, update, pinfo, sortVars, spc,
                 loopOK, keyVars, history>>

AwaitOK ==
  /\ tpc = "wait"
  /\ \/ SCANBLOCK_OK /\ tpc' = "granted"
     \/ ~SCANBLOCK_OK /\ ~loop /\ tpc' = "end"
  /\ UNCHANGED <<listVars, procVars, handVars, ti, sname, missing, update, pinfo, sortVars, spc, loopOK,
                 keyVars, history>>

Acknowledge ==
  /\ tpc = "granted"
  /\ SCANBLOCK_requested' = FALSE
  /\ tpc' = "load" /\ ti' = 0
  /\ UNCHANGED <<listVars, procVars, SCANBLOCK_OK, loop, loopcnt, sname, missing, update, pinfo, sortVars,
                 spc, loopOK, keyVars, history>>

(* What the slot holds, and whether the file of its process exists.        *)
LoadSlot ==
  /\ tpc = "load" /\ ti \in Displayed
  /\ \/ /\ loop
        /\ sname' = PIDarray[ti] /\ missing' = (PIDarray[ti] \notin file)
        /\ update' = (active[ti] # 0)
        /\ raced' = raced \cup Registering(ti)
        /\ late' = IF active[ti] # 0 THEN late \ {PIDarray[ti]} ELSE late
        /\ tpc' = "test"
     \/ ~loop /\ tpc' = "end" /\ UNCHANGED <<sname, missing, update, raced, late>>
  /\ UNCHANGED <<listVars, procVars, handVars, ti, pinfo, sortVars, spc, loopOK, keyVars, scanlate>>

(* What was found out about a slot is local to the loop over the slots. *)
NextSlot ==
  /\ tpc' = "load" /\ ti' = ti + 1
  /\ sname' = NoProc /\ missing' = FALSE /\ update' = FALSE

(* Mutated form of TestSlot: a slot is mapped only once. *)
TestSlot_MapOnce ==
  /\ tpc = "test"
  /\ active' = [active EXCEPT ![ti] =
                  IF missing THEN 0
                  ELSE IF @ = 1 /\ (PIDarray[ti] = NoProc \/ ppc[PIDarray[ti]] = "dead") THEN 2
                  ELSE @]
  /\ \/ /\ update /\ ~missing /\ pinfo[ti] = NoProc
        /\ pinfo' = [pinfo EXCEPT ![ti] = NoProc]
        /\ tpc' = "link" /\ UNCHANGED <<ti, sname, missing, update>>
     \/ (~update \/ missing \/ pinfo[ti] # NoProc) /\ NextSlot /\ UNCHANGED pinfo
  /\ UNCHANGED <<created, PIDarray, file, procVars, handVars, sortVars,
                 spc, loopOK, keyVars, history>>

(* A slot without file is freed, one whose process is gone is marked.  The *)
(* file that is mapped is unmapped if it is to be mapped anew.             *)
TestSlot ==
  /\ tpc = "test"
  /\ active' = [active EXCEPT ![ti] =
                  IF missing THEN 0
                  ELSE IF @ = 1 /\ (PIDarray[ti] = NoProc \/ ppc[PIDarray[ti]] = "dead") THEN 2
                  ELSE @]
  /\ \/ /\ update /\ ~missing
        /\ pinfo' = [pinfo EXCEPT ![ti] = NoProc]
        /\ tpc' = "link" /\ UNCHANGED <<ti, sname, missing, update>>
     \/ (~update \/ missing) /\ NextSlot /\ UNCHANGED pinfo
  /\ UNCHANGED <<created, PIDarray, file, procVars, handVars, sortVars,
                 spc, loopOK, keyVars, history>>

LinkSlot ==
  /\ tpc = "link"
  /\ pinfo' = [pinfo EXCEPT ![ti] = sname]
  /\ NextSlot
  /\ UNCHANGED <<listVars, procVars, handVars, sortVars, spc, loopOK,
                 keyVars, history>>

Reordering(n) == {b \in [0 .. n - 1 -> 0 .. n - 1] : \A j, k \in 0 .. n - 1 : b[j] = b[k] => j = k}

Rank(i) == Cardinality({j \in ActiveSlots : j < i})

Mapped == {i \in ActiveSlots : pinfo[i] # NoProc}

(* indexarray: an active slot is in the place of its rank if it is mapped; *)
(* the other places are not initialised and hold any slot.  Only as many   *)
(* places as there are mapped slots are sorted and kept.                   *)
IndexArray(a, n) == \A i \in Mapped : Rank(i) < n => a[Rank(i)] = i

(* Mutated form of ByTime: the oldest first. *)
ByTime_Oldest(a, n, b) ==
  \A j, k \in 0 .. n - 1 :
    j < k /\ {b[j], b[k]} \subseteq {Rank(i) : i \in Mapped}
      => ctime[pinfo[a[b[j]]]] <= ctime[pinfo[a[b[k]]]]

(* In the order of createtime, the latest first, as far as initialised.    *)
ByTime(a, n, b) ==
  \A j, k \in 0 .. n - 1 :
    j < k /\ {b[j], b[k]} \subseteq {Rank(i) : i \in Mapped}
      => ctime[pinfo[a[b[j]]]] >= ctime[pinfo[a[b[k]]]]

Sort ==
  /\ tpc = "load" /\ ti = ND
  /\ NBpindexActive' = Cardinality(Mapped)
  /\ pindexActive' = [k \in Slot |->
                        IF \E i \in ActiveSlots : Rank(i) = k
                          THEN CHOOSE i \in ActiveSlots : Rank(i) = k ELSE pindexActive[k]]
  /\ LET n == Cardinality(Mapped)
     IN  \E a \in [0 .. n - 1 -> Slot], b \in Reordering(n) :
           /\ IndexArray(a, n) /\ ByTime(a, n, b)
           /\ sorted_pindex_time' = [k \in Slot |-> IF k < n THEN a[b[k]] ELSE sorted_pindex_time[k]]
  /\ scanlate' = (late # {})
  /\ tpc' = "done"
  /\ UNCHANGED <<listVars, procVars, handVars, ti, sname, missing, update, pinfo, spc, loopOK,
                 keyVars, raced, late>>

ScanDone ==
  /\ tpc = "done"
  /\ SCANBLOCK_OK' = FALSE
  /\ tpc' = "count"
  /\ UNCHANGED <<listVars, procVars, SCANBLOCK_requested, loop, loopcnt, ti, sname, missing, update,
                 pinfo, sortVars, spc, loopOK, keyVars, history>>

(* The scan is counted (only whether there was one matters), and the       *)
(* thread sleeps until the next or ends.                                   *)
CountScan ==
  /\ tpc = "count"
  /\ loopcnt' = 1
  /\ tpc' = "sleep"
  /\ UNCHANGED <<listVars, procVars, SCANBLOCK_requested, SCANBLOCK_OK, loop, ti, sname, missing,
                 update, pinfo, sortVars, spc, loopOK, keyVars, history>>

Wake ==
  /\ tpc = "sleep"
  /\ tpc' = IF loop THEN "request" ELSE "end"
  /\ UNCHANGED <<listVars, procVars, handVars, ti, sname, missing, update, pinfo, sortVars, spc, loopOK,
                 keyVars, history>>

Scan ==
  \/ Request \/ AwaitOK \/ Acknowledge \/ LoadSlot \/ TestSlot \/ LinkSlot \/ Sort
  \/ ScanDone \/ CountScan \/ Wake

-----------------------------------------------------------------------------
(* The screen: processinfo_CTRLscreen.                                     *)

screenRest == <<procVars, handVars, scanVars, pinfo, sortVars>>

(* It looks for a free slot as a process does, and takes slot 0 free for   *)
(* an empty list.  Otherwise it starts the scan thread.                    *)
Start ==
  /\ spc = "start"
  /\ \/ ~created /\ spc' = "create" /\ UNCHANGED tpc
     \/ created /\ active[0] # 0 /\ ActiveSlots # Slot /\ spc' = "permit" /\ tpc' = "request"
     \/ created /\ (active[0] = 0 \/ ActiveSlots = Slot) /\ spc' = "done" /\ UNCHANGED tpc
  /\ UNCHANGED <<listVars, procVars, handVars, ti, sname, missing, update, pinfo, sortVars, loopOK,
                 keyVars, history>>

StartEmpty ==
  /\ spc = "create"
  /\ EmptyList
  /\ spc' = "done"
  /\ raced' = IF created THEN Proc ELSE raced
  /\ UNCHANGED <<screenRest, loopOK, keyVars, late, scanlate>>

(* The first scan needs no request. *)
Permit ==
  /\ spc = "permit"
  /\ SCANBLOCK_OK' = TRUE
  /\ spc' = "first"
  /\ UNCHANGED <<listVars, procVars, SCANBLOCK_requested, loop, loopcnt, scanVars, pinfo, sortVars,
                 loopOK, keyVars, history>>

FirstScan ==
  /\ spc = "first" /\ loopcnt >= 1
  /\ spc' = "top"
  /\ UNCHANGED <<listVars, screenRest, loopOK, keyVars, history>>

(* Mutated form of TestRequest: a frozen display grants no scan. *)
TestRequest_NotFrozen ==
  /\ spc = "top"
  /\ spc' = IF SCANBLOCK_requested /\ ~freeze THEN "grant" ELSE "key"
  /\ UNCHANGED <<listVars, screenRest, loopOK, keyVars, history>>

TestRequest ==
  /\ spc = "top"
  /\ spc' = IF SCANBLOCK_requested THEN "grant" ELSE "key"
  /\ UNCHANGED <<listVars, screenRest, loopOK, keyVars, history>>

Grant ==
  /\ spc = "grant"
  /\ SCANBLOCK_OK' = TRUE
  /\ spc' = "blocked"
  /\ UNCHANGED <<listVars, procVars, SCANBLOCK_requested, loop, loopcnt, scanVars, pinfo, sortVars,
                 loopOK, keyVars, history>>

Blocked ==
  /\ spc = "blocked" /\ ~SCANBLOCK_OK
  /\ spc' = "key"
  /\ UNCHANGED <<listVars, screenRest, loopOK, keyVars, history>>

NoKey ==
  /\ spc = "key"
  /\ spc' = "draw"
  /\ UNCHANGED <<listVars, screenRest, loopOK, keyVars, history>>

Type(k) == spc = "key" /\ k \in Key /\ nkey < MaxKey /\ nkey' = nkey + 1

(* Mutated form of KeyMove: the cursor is not kept at 0. *)
KeyMove_NoFloor(k) ==
  /\ Type(k)
  /\ \/ k = "up" /\ cursor' = cursor - 1
     \/ k = "down" /\ cursor' = IF cursor + 1 > NBpindexActive - 1 THEN NBpindexActive - 1
                                ELSE cursor + 1
  /\ pindexSelected' = IF cursor' \notin Slot THEN 0
                       ELSE IF TimeSorted THEN sorted_pindex_time[cursor'] ELSE pindexActive[cursor']
  /\ spc' = "draw"
  /\ UNCHANGED <<listVars, screenRest, loopOK, pindexSelectedOK, selected, TimeSorted, freeze, history>>

(* The cursor moves in the list as it is displayed.  It is kept in the     *)
(* list when it goes down only, and an empty list has it at -1.            *)
KeyMove(k) ==
  /\ Type(k)
  /\ \/ k = "up" /\ cursor' = IF cursor > 0 THEN cursor - 1 ELSE 0
     \/ k = "down" /\ cursor' = IF cursor + 1 > NBpindexActive - 1 THEN NBpindexActive - 1
                                ELSE cursor + 1
  /\ pindexSelected' = IF cursor' \notin Slot THEN 0
                       ELSE IF TimeSorted THEN sorted_pindex_time[cursor'] ELSE pindexActive[cursor']
  /\ spc' = "draw"
  /\ UNCHANGED <<listVars, screenRest, loopOK, pindexSelectedOK, selected, TimeSorted, freeze, history>>

Listing == {pindexActive[k] : k \in {j \in Slot : j < NBpindexActive}}

KeyMark(k) ==
  /\ Type(k)
  /\ \/ /\ k = "mark"
        /\ selected' = IF pindexSelected \in selected THEN selected \ {pindexSelected}
                       ELSE selected \cup {pindexSelected}
     \/ k = "unmark" /\ selected' = selected \ Listing
  /\ spc' = "draw"
  /\ UNCHANGED <<listVars, screenRest, loopOK, cursor, pindexSelected, pindexSelectedOK, TimeSorted,
                 freeze, history>>

(* What a key acts on: the marked processes of the list, or the one that   *)
(* is highlighted.                                                         *)
Targets ==
  LET marked == Listing \cap selected
  IN  IF marked # {} THEN marked ELSE IF pindexSelectedOK THEN {pindexSelected} ELSE {}

(* The screen is gone, with its thread. *)
Gone(how) == spc' = how /\ tpc' = "end"

(* K, and T and I for processes that end when told so.  A signal to PID 0  *)
(* is one to procCTRL and its group.                                       *)
KeyKill ==
  /\ Type("kill")
  /\ LET target == {PIDarray[i] : i \in Targets}
     IN  /\ ppc' = [p \in Proc |-> IF p \in target THEN "dead" ELSE ppc[p]]
         /\ IF NoProc \in target THEN Gone("killed") ELSE spc' = "draw" /\ UNCHANGED tpc
  /\ UNCHANGED <<listVars, slot, ctime, handVars, ti, sname, missing, update, pinfo, sortVars, loopOK,
                 cursor, pindexSelected, pindexSelectedOK, selected, TimeSorted, freeze, history>>

(* Mutated form of Removable: without the test. *)
Removable_Any(slots) == slots

(* Slots whose processes the keys r and R take for gone. *)
Removable(slots) == {i \in slots : active[i] # 1}

(* Their files are removed.  The name of the log file is in the structure  *)
(* that is mapped, and r needs it for the highlighted process only.        *)
Remove(slots, logs) ==
  /\ IF \E i \in Removable(logs) : pinfo[i] = NoProc
       THEN Gone("fault") /\ UNCHANGED <<file, raced>>
       ELSE LET gone == {PIDarray[i] : i \in Removable(slots)}
            IN  /\ file' = file \ gone
                /\ raced' = raced \cup {p \in gone \cap Proc : ppc[p] \in {"named", "made"}}
                /\ spc' = "draw" /\ UNCHANGED tpc

KeyRemove(k) ==
  /\ Type(k)
  /\ \/ k = "remove" /\ Remove(Targets, IF Listing \cap selected # {} THEN {} ELSE Targets)
     \/ k = "removeall" /\ Remove(Listing, Listing)
  /\ UNCHANGED <<created, active, PIDarray, procVars, handVars, ti, sname, missing, update, pinfo,
                 sortVars, loopOK, cursor, pindexSelected, pindexSelectedOK, selected, TimeSorted,
                 freeze, late, scanlate>>

(* p, c, s, e and z use the structures of the targets, L, M and t that of  *)
(* the slot under the cursor.                                              *)
KeyControl(k) ==
  /\ Type(k) /\ k \in {"control", "limit"}
  /\ LET used == IF k = "control" THEN Targets ELSE {pindexSelected}
     IN  IF \E i \in used : pinfo[i] = NoProc THEN Gone("fault") ELSE spc' = "draw" /\ UNCHANGED tpc
  /\ UNCHANGED <<listVars, procVars, handVars, ti, sname, missing, update, pinfo, sortVars, loopOK,
                 cursor, pindexSelected, pindexSelectedOK, selected, TimeSorted, freeze, history>>

KeyMode(k) ==
  /\ Type(k)
  /\ \/ k = "sort" /\ TimeSorted' = ~TimeSorted /\ UNCHANGED <<freeze, loopOK>>
     \/ k = "freeze" /\ freeze' = ~freeze /\ UNCHANGED <<TimeSorted, loopOK>>
     \/ k = "exit" /\ loopOK' = FALSE /\ UNCHANGED <<TimeSorted, freeze>>
  /\ spc' = "draw"
  /\ UNCHANGED <<listVars, screenRest, cursor, pindexSelected, pindexSelectedOK, selected, history>>

(* The rows: the slots of the sorted list, or every slot.                  *)
Row ==
  IF TimeSorted THEN Displayed \cap {sorted_pindex_time[k] : k \in {j \in Slot : j < NBpindexActive}}
  ELSE Displayed

(* The structure of every process that is drawn is used.                   *)
Draw ==
  /\ spc = "draw"
  /\ \/ freeze /\ spc' = (IF loopOK THEN "top" ELSE "exit")
             /\ UNCHANGED <<tpc, pindexSelectedOK>>
     \/ /\ ~freeze /\ \E i \in Row : active[i] # 0 /\ pinfo[i] = NoProc
        /\ Gone("fault") /\ UNCHANGED pindexSelectedOK
     \/ /\ ~freeze /\ \A i \in Row : active[i] # 0 => pinfo[i] # NoProc
        /\ pindexSelectedOK' = (pindexSelected \in Row)
        /\ spc' = (IF loopOK THEN "top" ELSE "exit") /\ UNCHANGED tpc
  /\ UNCHANGED <<listVars, procVars, handVars, ti, sname, missing, update, pinfo, sortVars, loopOK,
                 cursor, pindexSelected, selected, TimeSorted, freeze, nkey, raced, late, scanlate>>

Leave ==
  /\ spc = "exit"
  /\ loop' = FALSE
  /\ spc' = "join"
  /\ UNCHANGED <<listVars, procVars, SCANBLOCK_requested, SCANBLOCK_OK, loopcnt, scanVars, pinfo,
                 sortVars, loopOK, keyVars, history>>

(* Mutated form of Join: the screen does not wait for the thread. *)
Join_NoWait ==
  /\ spc = "join"
  /\ spc' = "close"
  /\ UNCHANGED <<listVars, screenRest, loopOK, keyVars, history>>

Join ==
  /\ spc = "join" /\ tpc = "end"
  /\ spc' = "close"
  /\ UNCHANGED <<listVars, screenRest, loopOK, keyVars, history>>

Close ==
  /\ spc = "close"
  /\ pinfo' = [i \in Slot |-> IF i \in Displayed THEN NoProc ELSE pinfo[i]]
  /\ spc' = "done"
  /\ UNCHANGED <<listVars, procVars, handVars, scanVars, sortVars, loopOK, keyVars, history>>

KeyStep ==
  \/ KeyKill
  \/ \E k \in Key : KeyMove(k) \/ KeyMark(k) \/ KeyRemove(k) \/ KeyControl(k) \/ KeyMode(k)

Screen ==
  \/ Start \/ StartEmpty \/ Permit \/ FirstScan \/ TestRequest \/ Grant \/ Blocked
  \/ NoKey \/ KeyStep \/ Draw \/ Leave \/ Join \/ Close

Next == Scan \/ Screen \/ \E p \in Proc : Process(p)

Spec == Init /\ [][Next]_vars

(* Both threads run; processes come and go as they like. *)
Fairness == WF_vars(Scan) /\ WF_vars(Screen)

FairSpec == Spec /\ Fairness

-----------------------------------------------------------------------------
(* Properties.                                                             *)

ListType ==
  /\ created \in BOOLEAN /\ file \subseteq Proc
  /\ active \in [Slot -> {0, 1, 2}] /\ PIDarray \in [Slot -> Proc \cup {NoProc}]

ProcType ==
  /\ ppc \in [Proc -> {"new", "creating", "found", "named", "made", "live", "dead"}]
  /\ slot \in [Proc -> Slot] /\ ctime \in [Proc -> Nat]

HandType ==
  /\ SCANBLOCK_requested \in BOOLEAN /\ SCANBLOCK_OK \in BOOLEAN /\ loop \in BOOLEAN
  /\ loopcnt \in {0, 1}

ScanType ==
  /\ tpc \in {"none", "request", "wait", "granted", "load", "test", "link", "done", "count",
              "sleep", "end"}
  /\ ti \in 0 .. ND /\ sname \in Proc \cup {NoProc} /\ missing \in BOOLEAN /\ update \in BOOLEAN

SortType ==
  /\ pinfo \in [Slot -> Proc \cup {NoProc}] /\ NBpindexActive \in 0 .. NS
  /\ pindexActive \in [Slot -> Slot] /\ sorted_pindex_time \in [Slot -> Slot]

ScreenType ==
  /\ spc \in {"start", "create", "permit", "first", "top", "grant", "blocked", "key", "draw",
              "exit", "join", "close", "done", "killed", "fault"}
  /\ loopOK \in BOOLEAN

KeyType ==
  /\ cursor \in -1 .. NS - 1 /\ pindexSelected \in Slot
  /\ pindexSelectedOK \in BOOLEAN /\ selected \subseteq Slot
  /\ TimeSorted \in BOOLEAN /\ freeze \in BOOLEAN /\ nkey \in 0 .. MaxKey

HistoryType == raced \subseteq Proc /\ late \subseteq Proc /\ scanlate \in BOOLEAN

(* The variables have their types, and the slots that processes and the    *)
(* screen use are in the list.                                             *)
TypeOK ==
  ListType /\ ProcType /\ HandType /\ ScanType /\ SortType /\ ScreenType /\ KeyType /\ HistoryType

Displaying == spc \in {"key", "draw"}

Scanning == tpc \in {"granted", "load", "test", "link", "done"}

(* The scan maps and sorts exclusively of the display (processtools.c:     *)
(* 2116): while the screen handles a key or draws, the thread does not     *)
(* scan.                                                                   *)
Exclusion == ~(Displaying /\ Scanning)

(* The list has every process that runs: one that entered is in its slot   *)
(* as active until it ends, whatever the scan and the keys do to the list, *)
(* unless its registration met that of another process or a scan of its    *)
(* slot (processtools.h:128-132).                                          *)
Listed ==
  \A p \in Proc : ppc[p] = "live" /\ p \notin raced =>
    active[slot[p]] = 1 /\ PIDarray[slot[p]] = p

(* The structure that the screen uses for a slot is that of the process in *)
(* the slot, also when the slot was freed and taken again, but for a       *)
(* process that entered after the scan looked at the slot.                 *)
MapFresh ==
  Displaying =>
    \A i \in Displayed :
      active[i] # 0 /\ PIDarray[i] \notin late /\ raced = {} => pinfo[i] = PIDarray[i]

(* The sorted list has each process once, the latest first, if none        *)
(* entered between the scan of its slot and the sort.                      *)
SortedTrue ==
  Displaying /\ ~scanlate /\ raced = {} =>
    /\ {sorted_pindex_time[k] : k \in 0 .. NBpindexActive - 1}
         = {i \in Displayed : active[i] # 0 /\ PIDarray[i] \notin late}
    /\ \A j, k \in 0 .. NBpindexActive - 1 :
         j < k => ctime[PIDarray[sorted_pindex_time[j]]] > ctime[PIDarray[sorted_pindex_time[k]]]

(* When procCTRL returns, its thread has ended and nothing is left mapped. *)
Closed == spc = "done" => tpc \in {"none", "end"} /\ \A i \in Slot : pinfo[i] = NoProc

(* A process that is gone does not stay active in the list, as long as     *)
(* procCTRL runs (processtools.c:2173-2176).                               *)
GoneActive(i) == active[i] = 1 /\ PIDarray[i] \in Proc /\ ppc[PIDarray[i]] = "dead"

DeadMarked ==
  \A i \in Displayed :
    GoneActive(i) /\ tpc # "none" ~> ~GoneActive(i) \/ ~loopOK \/ tpc = "end"

(* x ends procCTRL, whatever the scan thread is doing or waiting for.      *)
ExitEnds == ~loopOK ~> spc \in {"done", "fault"}

(* A signal goes to processes of the list: the highlighted one, or those   *)
(* that are marked (processtools.c:2831).                                  *)
KillsListed == [][KeyKill => \A i \in Targets : active[i] # 0]_vars

=============================================================================
