--------------------------- MODULE ProcScan_proofs ---------------------------
(***************************************************************************)
(* Proofs about ProcScan, for any processes, slots and keys: the variables *)
(* have their types; the scan and the display exclude each other; procCTRL *)
(* leaves no thread and no mapped structure behind; the list has every     *)
(* process that runs; what the screen uses are the structures of the       *)
(* processes in the list; and the list that it sorts has each of them once.*)
(***************************************************************************)
EXTENDS ProcScan, FiniteSetTheorems, TLAPS

Idle == {"count", "sleep", "request", "wait", "end"}

(* Why they exclude each other: while the screen does not wait, it has not *)
(* permitted a scan, and the thread is between two scans.  It waits until  *)
(* the permission is withdrawn, which the thread does at the end of a scan.*)
Handshake ==
  /\ spc \in {"start", "create", "permit"} => ~SCANBLOCK_OK /\ loop /\ loopcnt = 0
  /\ spc \in {"start", "create"} => tpc = "none"
  /\ spc = "permit" => tpc \in {"request", "wait"}
  /\ spc = "first" => (tpc = "count" => ~SCANBLOCK_OK)
  /\ spc = "first" /\ loopcnt # 0 => ~SCANBLOCK_OK /\ tpc \in Idle
  /\ spc \in {"top", "grant", "key", "draw"} => ~SCANBLOCK_OK /\ tpc \in Idle
  /\ spc = "blocked" /\ ~SCANBLOCK_OK => tpc \in Idle
  /\ spc \in {"close", "done"} => tpc \in {"none", "end"}
  /\ loopcnt \in {0, 1}

(* The processes do not touch what the two threads agree by. *)
LEMMA ProcessUnchanged ==
  ASSUME NEW p \in Proc, Process(p)
  PROVE  UNCHANGED <<handVars, tpc, ti, pinfo, spc>>
BY DEF Process, FindSlot, CreateList, WriteSlot, MakeFile, Activate, Die, scanVars

(* The keys touch of it only where the two threads are; a key ends both or *)
(* neither.                                                                *)
LEMMA KeyUnchanged ==
  ASSUME KeyStep
  PROVE  /\ spc = "key" /\ UNCHANGED <<handVars, ti, pinfo>>
         /\ \/ spc' = "draw" /\ UNCHANGED tpc
            \/ spc' \in {"killed", "fault"} /\ tpc' = "end"
<1>1. CASE KeyKill
  BY <1>1 DEF KeyKill, Type, Gone
<1>2. ASSUME NEW k \in Key, KeyMove(k) \/ KeyMark(k) \/ KeyMode(k)
      PROVE  spc = "key" /\ spc' = "draw" /\ UNCHANGED <<handVars, tpc, ti, pinfo>>
  BY <1>2 DEF KeyMove, KeyMark, KeyMode, Type, screenRest, scanVars
<1>3. ASSUME NEW k \in Key, KeyRemove(k)
      PROVE  /\ spc = "key" /\ UNCHANGED <<handVars, ti, pinfo>>
             /\ \/ spc' = "draw" /\ UNCHANGED tpc
                \/ spc' = "fault" /\ tpc' = "end"
  BY <1>3 DEF KeyRemove, Remove, Type, Gone
<1>4. ASSUME NEW k \in Key, KeyControl(k)
      PROVE  /\ spc = "key" /\ UNCHANGED <<handVars, ti, pinfo>>
             /\ \/ spc' = "draw" /\ UNCHANGED tpc
                \/ spc' = "fault" /\ tpc' = "end"
  BY <1>4 DEF KeyControl, Type, Gone
<1> QED
  BY <1>1, <1>2, <1>3, <1>4 DEF KeyStep

(* Every step keeps Handshake. *)
LEMMA HandshakeNext == Handshake /\ [Next]_vars => Handshake'
<1> SUFFICES ASSUME Handshake, [Next]_vars
             PROVE  Handshake'
  OBVIOUS
<1> USE DEF Handshake, Idle, handVars, scanVars
<1>1. CASE Request \/ AwaitOK \/ Acknowledge
  <2>1. CASE Request
    BY <2>1 DEF Request
  <2>2. CASE AwaitOK
    <3>1. /\ tpc = "wait" /\ tpc' \in {"granted", "end"}
          /\ (tpc' = "granted" => SCANBLOCK_OK) /\ (tpc' = "end" => ~loop)
      BY <2>2 DEF AwaitOK
    <3>2. spc' = spc /\ loopcnt' = loopcnt /\ (SCANBLOCK_OK' <=> SCANBLOCK_OK) /\ (loop' <=> loop)
      BY <2>2 DEF AwaitOK
    <3> QED
      BY <3>1, <3>2
  <2>3. CASE Acknowledge
    BY <2>3 DEF Acknowledge
  <2> QED
    BY <1>1, <2>1, <2>2, <2>3
<1>2. CASE LoadSlot
  <2>1. tpc = "load" /\ tpc' \in {"test", "end"} /\ UNCHANGED <<spc, handVars>>
    BY <1>2 DEF LoadSlot
  <2> QED
    BY <2>1
<1>3. CASE TestSlot \/ LinkSlot
  BY <1>3 DEF TestSlot, LinkSlot, NextSlot
<1>4. CASE Sort
  BY <1>4 DEF Sort
<1>5. CASE ScanDone \/ CountScan \/ Wake
  BY <1>5 DEF ScanDone, CountScan, Wake
<1>6. CASE Start \/ StartEmpty
  BY <1>6 DEF Start, StartEmpty, screenRest
<1>7. CASE Permit \/ FirstScan \/ TestRequest \/ Grant
  BY <1>7 DEF Permit, FirstScan, TestRequest, Grant, screenRest
<1>8. CASE Blocked \/ NoKey \/ Leave \/ Join \/ Close
  BY <1>8 DEF Blocked, NoKey, Leave, Join, Close, screenRest
<1>9. CASE Draw
  BY <1>9 DEF Draw, Gone
<1>10. CASE KeyStep
  BY <1>10, KeyUnchanged
<1>11. ASSUME NEW p \in Proc, Process(p)
       PROVE  Handshake'
  BY <1>11, ProcessUnchanged
<1>12. CASE UNCHANGED vars
  BY <1>12 DEF vars
<1> QED
  BY <1>1, <1>2, <1>3, <1>4, <1>5, <1>6, <1>7, <1>8, <1>9, <1>10, <1>11, <1>12
  DEF Next, Scan, Screen

(* At every time, whatever there are of processes, slots and keys. *)
THEOREM HandshakeInvariant == Spec => []Handshake
<1>1. Init => Handshake
  BY DEF Init, Handshake
<1> QED
  BY <1>1, HandshakeNext, PTL DEF Spec

(* The thread maps and sorts exclusively of the display (Exclusion), for   *)
(* every number of processes, slots and keys.                              *)
THEOREM ScanExclusive == Spec => []Exclusion
<1>1. Handshake => Exclusion
  BY DEF Handshake, Idle, Exclusion, Displaying, Scanning
<1> QED
  BY <1>1, HandshakeInvariant, PTL

-----------------------------------------------------------------------------
(* Why nothing is left mapped: only displayed slots are mapped, and        *)
(* nothing is mapped before the thread starts or after the screen has      *)
(* closed the structures of these slots.                                   *)
MapInv ==
  /\ DOMAIN pinfo = Slot /\ \A i \in Slot \ Displayed : pinfo[i] = NoProc
  /\ tpc \in {"test", "link"} => ti \in Displayed
  /\ spc \in {"start", "create", "done"} => \A i \in Slot : pinfo[i] = NoProc

(* Every step keeps MapInv. *)
LEMMA MapNext == Handshake /\ MapInv /\ [Next]_vars => MapInv'
<1> SUFFICES ASSUME Handshake, MapInv, [Next]_vars
             PROVE  MapInv'
  OBVIOUS
<1> USE DEF MapInv, handVars, scanVars
<1>1. CASE Request \/ AwaitOK \/ Acknowledge \/ ScanDone \/ CountScan \/ Wake
  BY <1>1 DEF Request, AwaitOK, Acknowledge, ScanDone, CountScan, Wake
<1>2. CASE LoadSlot
  BY <1>2 DEF LoadSlot
<1>3. CASE TestSlot \/ LinkSlot
  <2>1. spc \notin {"start", "create", "done"} /\ spc' = spc
    BY <1>3 DEF TestSlot, LinkSlot, Handshake
  <2>2. ti \in Displayed
    BY <1>3 DEF TestSlot, LinkSlot
  <2>3. DOMAIN pinfo' = DOMAIN pinfo /\ \A i \in Slot : i # ti => pinfo'[i] = pinfo[i]
    BY <1>3, <2>2 DEF TestSlot, LinkSlot
  <2>4. tpc' \in {"test", "link"} => ti' = ti
    BY <1>3 DEF TestSlot, LinkSlot, NextSlot
  <2> QED
    BY <2>1, <2>2, <2>3, <2>4
<1>4. CASE Sort
  BY <1>4 DEF Sort
<1>5. CASE Start \/ StartEmpty
  BY <1>5 DEF Start, StartEmpty, screenRest
<1>6. CASE Permit \/ FirstScan \/ TestRequest \/ Grant \/ Blocked \/ NoKey \/ Leave \/ Join
  BY <1>6 DEF Permit, FirstScan, TestRequest, Grant, Blocked, NoKey, Leave, Join, screenRest
<1>7. CASE Close
  BY <1>7 DEF Close
<1>8. CASE Draw
  BY <1>8 DEF Draw, Gone
<1>9. CASE KeyStep
  BY <1>9, KeyUnchanged
<1>10. ASSUME NEW p \in Proc, Process(p)
       PROVE  MapInv'
  BY <1>10, ProcessUnchanged
<1>11. CASE UNCHANGED vars
  BY <1>11 DEF vars
<1> QED
  BY <1>1, <1>2, <1>3, <1>4, <1>5, <1>6, <1>7, <1>8, <1>9, <1>10, <1>11
  DEF Next, Scan, Screen

(* Nothing is mapped outside of the displayed slots, at every time. *)
THEOREM MapInvariant == Spec => []MapInv
<1>1. Init => MapInv
  BY DEF Init, MapInv
<1> QED
  BY <1>1, HandshakeInvariant, MapNext, PTL DEF Spec

(* When procCTRL returns its thread has ended and nothing is left mapped   *)
(* (Closed).                                                               *)
THEOREM AllClosed == Spec => []Closed
<1>1. Handshake /\ MapInv => Closed
  BY DEF Handshake, MapInv, Closed
<1> QED
  BY <1>1, HandshakeInvariant, MapInvariant, PTL

-----------------------------------------------------------------------------
(* Type correctness.                                                       *)

(* The processes that have made their file. *)
Timed == {p \in Proc : ctime[p] # 0}

(* The types, and that creation times are counted of finitely many. *)
TypeInv == TypeOK /\ IsFiniteSet(Timed)

(* The list is finite. *)
LEMMA SlotFacts ==
  /\ NS \in Nat /\ NS > 0 /\ ND \in Nat /\ 1 <= ND /\ ND <= NS
  /\ IsFiniteSet(Slot) /\ Cardinality(Slot) = NS
  /\ 0 \in Slot /\ Displayed \subseteq Slot /\ Slot \subseteq Nat
<1>1. NS \in Nat /\ NS > 0 /\ ND \in Nat /\ 1 <= ND /\ ND <= NS
  BY ScanAssumption
<1>2. IsFiniteSet(Slot) /\ Cardinality(Slot) = NS
  BY <1>1, FS_Interval DEF Slot
<1> QED
  BY <1>1, <1>2 DEF Slot, Displayed

(* There are at most as many structures mapped as there are slots. *)
LEMMA MappedFinite ==
  /\ IsFiniteSet(Mapped) /\ Cardinality(Mapped) \in 0 .. NS
  /\ Mapped \subseteq Slot
<1>1. Mapped \in SUBSET Slot
  BY DEF Mapped, ActiveSlots
<1>2. Cardinality(Mapped) \in Nat /\ Cardinality(Mapped) <= NS /\ IsFiniteSet(Mapped)
  BY <1>1, SlotFacts, FS_Subset, FS_CardinalityType
<1> QED
  BY <1>1, <1>2, SlotFacts

(* What is left alone keeps its type. *)
LEMMA Frames ==
  /\ ListType /\ UNCHANGED listVars => ListType'
  /\ ProcType /\ UNCHANGED procVars => ProcType'
  /\ HandType /\ UNCHANGED handVars => HandType'
  /\ ScanType /\ UNCHANGED scanVars => ScanType'
  /\ SortType /\ UNCHANGED <<pinfo, sortVars>> => SortType'
  /\ ScreenType /\ UNCHANGED <<spc, loopOK>> => ScreenType'
  /\ KeyType /\ UNCHANGED keyVars => KeyType'
  /\ HistoryType /\ UNCHANGED history => HistoryType'
<1>1. ListType /\ UNCHANGED listVars => ListType'
  BY DEF ListType, listVars
<1>2. ProcType /\ UNCHANGED procVars => ProcType'
  BY DEF ProcType, procVars
<1>3. HandType /\ UNCHANGED handVars => HandType'
  BY DEF HandType, handVars
<1>4. ScanType /\ UNCHANGED scanVars => ScanType'
  BY DEF ScanType, scanVars
<1>5. SortType /\ UNCHANGED <<pinfo, sortVars>> => SortType'
  BY DEF SortType, sortVars
<1>6. ScreenType /\ UNCHANGED <<spc, loopOK>> => ScreenType'
  BY DEF ScreenType
<1>7. KeyType /\ UNCHANGED keyVars => KeyType'
  BY DEF KeyType, keyVars
<1>8. HistoryType /\ UNCHANGED history => HistoryType'
  BY DEF HistoryType, history
<1> QED
  BY <1>1, <1>2, <1>3, <1>4, <1>5, <1>6, <1>7, <1>8

(* The steps of a process keep the types. *)
LEMMA ProcessTypes ==
  ASSUME TypeOK, IsFiniteSet(Timed), NEW p \in Proc, Process(p)
  PROVE  TypeOK' /\ IsFiniteSet(Timed')
<1> USE Frames DEF TypeOK
<1>1. CASE FindSlot(p)
  <2>1. ProcType'
    BY <1>1 DEF FindSlot, ProcType
  <2>2. HistoryType'
    BY <1>1 DEF FindSlot, Registering, HistoryType
  <2>3. TypeOK'
    BY <1>1, <2>1, <2>2 DEF FindSlot
  <2> QED
    BY <1>1, <2>3 DEF FindSlot, Timed
<1>2. CASE CreateList(p)
  <2>1. ListType'
    BY <1>2 DEF CreateList, EmptyList, ListType
  <2>2. ProcType'
    BY <1>2, SlotFacts DEF CreateList, ProcType
  <2>3. HistoryType'
    BY <1>2 DEF CreateList, HistoryType
  <2>4. TypeOK'
    BY <1>2, <2>1, <2>2, <2>3 DEF CreateList
  <2> QED
    BY <1>2, <2>4 DEF CreateList, Timed
<1>3. CASE WriteSlot(p)
  <2>1. ListType' /\ ProcType'
    BY <1>3 DEF WriteSlot, ListType, ProcType
  <2>2. TypeOK'
    BY <1>3, <2>1 DEF WriteSlot
  <2> QED
    BY <1>3, <2>2 DEF WriteSlot, Timed
<1>4. CASE MakeFile(p)
  <2>1. Cardinality(Timed) \in Nat
    BY FS_CardinalityType
  <2>2. ctime' = [ctime EXCEPT ![p] = 1 + Cardinality(Timed)]
    BY <1>4 DEF MakeFile, Timed
  <2>3. ListType' /\ ProcType'
    BY <1>4, <2>1, <2>2 DEF MakeFile, ListType, ProcType
  <2>4. TypeOK'
    BY <1>4, <2>3 DEF MakeFile
  <2>5. Timed' = Timed \cup {p}
    <3>1. ctime \in [Proc -> Nat]
      BY DEF ProcType
    <3>2. \A q \in Proc : ctime'[q] # 0 <=> ctime[q] # 0 \/ q = p
      BY <2>1, <2>2, <3>1
    <3> QED
      BY <3>2 DEF Timed
  <2>6. IsFiniteSet(Timed')
    BY <2>5, FS_AddElement
  <2> QED
    BY <2>4, <2>6
<1>5. CASE Activate(p)
  <2>1. ListType' /\ ProcType' /\ HistoryType'
    BY <1>5 DEF Activate, ListType, ProcType, HistoryType
  <2>2. TypeOK'
    BY <1>5, <2>1 DEF Activate
  <2> QED
    BY <1>5, <2>2 DEF Activate, Timed
<1>6. CASE Die(p)
  <2>1. ProcType'
    BY <1>6 DEF Die, ProcType
  <2>2. TypeOK'
    BY <1>6, <2>1 DEF Die
  <2> QED
    BY <1>6, <2>2 DEF Die, Timed
<1> QED
  BY <1>1, <1>2, <1>3, <1>4, <1>5, <1>6 DEF Process

(* The steps of the scan thread keep the types. *)
LEMMA ScanTypes ==
  ASSUME TypeOK, MapInv, Scan
  PROVE  TypeOK' /\ ctime' = ctime
<1> USE Frames DEF TypeOK
<1>1. CASE Request \/ AwaitOK \/ Acknowledge
  <2>1. HandType'
    BY <1>1 DEF Request, AwaitOK, Acknowledge, HandType, handVars
  <2>2. ScanType'
    BY <1>1, SlotFacts DEF Request, AwaitOK, Acknowledge, ScanType
  <2> QED
    BY <1>1, <2>1, <2>2 DEF Request, AwaitOK, Acknowledge, procVars
<1>2. CASE LoadSlot
  <2>1. ScanType'
    BY <1>2, SlotFacts DEF LoadSlot, ListType, ScanType
  <2>2. HistoryType'
    BY <1>2 DEF LoadSlot, Registering, HistoryType
  <2> QED
    BY <1>2, <2>1, <2>2 DEF LoadSlot, procVars
<1>3. CASE TestSlot
  <2>1. ti \in Displayed /\ ti + 1 \in 0 .. ND
    BY <1>3, SlotFacts DEF TestSlot, MapInv, Displayed
  <2>2. ListType'
    BY <1>3 DEF TestSlot, ListType
  <2>3. SortType'
    BY <1>3 DEF TestSlot, SortType, sortVars
  <2>4. ScanType'
    BY <1>3, <2>1 DEF TestSlot, NextSlot, ScanType
  <2> QED
    BY <1>3, <2>2, <2>3, <2>4 DEF TestSlot, procVars
<1>4. CASE LinkSlot
  <2>1. ti \in Displayed /\ ti + 1 \in 0 .. ND
    BY <1>4, SlotFacts DEF LinkSlot, MapInv, Displayed
  <2>2. SortType'
    BY <1>4 DEF LinkSlot, SortType, ScanType, sortVars
  <2>3. ScanType'
    BY <1>4, <2>1 DEF LinkSlot, NextSlot, ScanType
  <2> QED
    BY <1>4, <2>2, <2>3 DEF LinkSlot, procVars
<1>5. CASE Sort
  <2>. DEFINE n == Cardinality(Mapped)
  <2>1. n \in 0 .. NS
    BY MappedFinite
  <2>2. pindexActive' \in [Slot -> Slot]
    <3>1. pindexActive' = [k \in Slot |->
                        IF \E i \in ActiveSlots : Rank(i) = k
                          THEN CHOOSE i \in ActiveSlots : Rank(i) = k ELSE pindexActive[k]]
      BY <1>5 DEF Sort
    <3>2. \A k \in Slot : (\E i \in ActiveSlots : Rank(i) = k)
                          => (CHOOSE i \in ActiveSlots : Rank(i) = k) \in Slot
      BY DEF ActiveSlots
    <3> QED
      BY <3>1, <3>2 DEF SortType
  <2>3. sorted_pindex_time' \in [Slot -> Slot]
    <3>1. PICK a \in [0 .. n - 1 -> Slot], b \in Reordering(n) :
             sorted_pindex_time' = [k \in Slot |-> IF k < n THEN a[b[k]] ELSE sorted_pindex_time[k]]
      BY <1>5 DEF Sort
    <3>2. ASSUME NEW k \in Slot, k < n
          PROVE  a[b[k]] \in Slot
      <4>1. k \in 0 .. n - 1
        BY <2>1, <3>2, SlotFacts
      <4>2. b[k] \in 0 .. n - 1
        BY <4>1 DEF Reordering
      <4> QED
        BY <4>2
    <3> QED
      BY <3>1, <3>2 DEF SortType
  <2>4. NBpindexActive' = n /\ pinfo' = pinfo
    BY <1>5 DEF Sort
  <2>5. SortType'
    BY <2>1, <2>2, <2>3, <2>4 DEF SortType
  <2>6. ScanType'
    BY <1>5 DEF Sort, ScanType
  <2>7. HistoryType'
    BY <1>5 DEF Sort, HistoryType
  <2> QED
    BY <1>5, <2>5, <2>6, <2>7 DEF Sort, procVars
<1>6. CASE ScanDone \/ CountScan \/ Wake
  <2>1. HandType'
    BY <1>6 DEF ScanDone, CountScan, Wake, HandType, handVars
  <2>2. ScanType'
    BY <1>6 DEF ScanDone, CountScan, Wake, ScanType
  <2> QED
    BY <1>6, <2>1, <2>2 DEF ScanDone, CountScan, Wake, procVars
<1> QED
  BY <1>1, <1>2, <1>3, <1>4, <1>5, <1>6 DEF Scan

(* The keys keep the types. *)
LEMMA KeyTypes ==
  ASSUME TypeOK, KeyStep
  PROVE  TypeOK' /\ ctime' = ctime
<1> USE Frames DEF TypeOK
<1>0. nkey \in 0 .. MaxKey /\ (nkey < MaxKey => nkey + 1 \in 0 .. MaxKey)
  BY ScanAssumption DEF KeyType
<1>1. CASE KeyKill
  <2>1. ProcType' /\ ctime' = ctime
    BY <1>1 DEF KeyKill, ProcType
  <2>2. KeyType'
    BY <1>0, <1>1 DEF KeyKill, KeyType, Type
  <2>3. ScanType' /\ ScreenType'
    BY <1>1 DEF KeyKill, ScanType, ScreenType, Gone
  <2> QED
    BY <1>1, <2>1, <2>2, <2>3 DEF KeyKill
<1>2. ASSUME NEW k \in Key, KeyMove(k)
      PROVE  TypeOK' /\ ctime' = ctime
  <2>1. cursor' \in -1 .. NS - 1
    BY <1>2, SlotFacts DEF KeyMove, KeyType, SortType
  <2>2. pindexSelected' \in Slot
    BY <1>2, SlotFacts DEF KeyMove, SortType
  <2>3. KeyType' /\ ScreenType'
    BY <1>0, <1>2, <2>1, <2>2 DEF KeyMove, KeyType, ScreenType, Type
  <2> QED
    BY <1>2, <2>3 DEF KeyMove, screenRest, procVars
<1>3. ASSUME NEW k \in Key, KeyMark(k)
      PROVE  TypeOK' /\ ctime' = ctime
  <2>1. selected' \subseteq Slot
    BY <1>3 DEF KeyMark, KeyType
  <2>2. KeyType' /\ ScreenType'
    BY <1>0, <1>3, <2>1 DEF KeyMark, KeyType, ScreenType, Type
  <2> QED
    BY <1>3, <2>2 DEF KeyMark, screenRest, procVars
<1>4. ASSUME NEW k \in Key, KeyRemove(k)
      PROVE  TypeOK' /\ ctime' = ctime
  <2>1. /\ file' \subseteq Proc /\ raced' \subseteq Proc
        /\ spc' \in {"fault", "draw"} /\ tpc' \in {tpc, "end"}
    BY <1>4 DEF KeyRemove, Remove, Gone, ListType, HistoryType
  <2>2. ListType' /\ HistoryType'
    BY <1>4, <2>1 DEF KeyRemove, ListType, HistoryType
  <2>3. ScanType' /\ ScreenType'
    BY <1>4, <2>1 DEF KeyRemove, ScanType, ScreenType
  <2>4. KeyType'
    BY <1>0, <1>4 DEF KeyRemove, KeyType, Type
  <2> QED
    BY <1>4, <2>2, <2>3, <2>4 DEF KeyRemove, procVars
<1>5. ASSUME NEW k \in Key, KeyControl(k)
      PROVE  TypeOK' /\ ctime' = ctime
  <2>1. ScanType' /\ ScreenType'
    BY <1>5 DEF KeyControl, ScanType, ScreenType, Gone
  <2>2. KeyType'
    BY <1>0, <1>5 DEF KeyControl, KeyType, Type
  <2> QED
    BY <1>5, <2>1, <2>2 DEF KeyControl, procVars
<1>6. ASSUME NEW k \in Key, KeyMode(k)
      PROVE  TypeOK' /\ ctime' = ctime
  <2>1. KeyType'
    BY <1>0, <1>6 DEF KeyMode, KeyType, Type
  <2>2. ScreenType'
    BY <1>6 DEF KeyMode, ScreenType
  <2> QED
    BY <1>6, <2>1, <2>2 DEF KeyMode, screenRest, procVars
<1> QED
  BY <1>1, <1>2, <1>3, <1>4, <1>5, <1>6 DEF KeyStep

(* The other steps of the screen keep the types. *)
LEMMA ScreenTypes ==
  ASSUME TypeOK, Screen
  PROVE  TypeOK' /\ ctime' = ctime
<1> USE Frames DEF TypeOK
<1>1. CASE Start
  <2>1. ScanType' /\ ScreenType'
    BY <1>1 DEF Start, ScanType, ScreenType
  <2> QED
    BY <1>1, <2>1 DEF Start, procVars
<1>2. CASE StartEmpty
  <2>1. ListType' /\ ScreenType' /\ HistoryType'
    BY <1>2 DEF StartEmpty, EmptyList, ListType, ScreenType, HistoryType
  <2> QED
    BY <1>2, <2>1 DEF StartEmpty, screenRest, procVars
<1>3. CASE Permit \/ Grant \/ Leave
  <2>1. HandType' /\ ScreenType'
    BY <1>3 DEF Permit, Grant, Leave, HandType, ScreenType
  <2> QED
    BY <1>3, <2>1 DEF Permit, Grant, Leave, procVars
<1>4. CASE FirstScan \/ TestRequest \/ Blocked \/ NoKey \/ Join
  <2>1. ScreenType'
    BY <1>4 DEF FirstScan, TestRequest, Blocked, NoKey, Join, ScreenType
  <2> QED
    BY <1>4, <2>1 DEF FirstScan, TestRequest, Blocked, NoKey, Join, screenRest, procVars
<1>5. CASE Close
  <2>1. SortType' /\ ScreenType'
    BY <1>5 DEF Close, SortType, ScreenType, sortVars
  <2> QED
    BY <1>5, <2>1 DEF Close, procVars
<1>6. CASE Draw
  <2>1. spc' \in {"top", "exit", "fault"} /\ tpc' \in {tpc, "end"}
    BY <1>6 DEF Draw, Gone
  <2>2. pindexSelectedOK \in BOOLEAN /\ (pindexSelected \in Row) \in BOOLEAN
    BY DEF KeyType
  <2>3. pindexSelectedOK' \in BOOLEAN
    <3>1. CASE pindexSelectedOK' = pindexSelectedOK
      BY <2>2, <3>1
    <3>2. CASE pindexSelectedOK' = (pindexSelected \in Row)
      BY <2>2, <3>2
    <3> QED
      BY <1>6, <3>1, <3>2, Zenon DEF Draw
  <2>4. ScanType' /\ ScreenType'
    BY <1>6, <2>1 DEF Draw, ScanType, ScreenType
  <2>5. KeyType' /\ HistoryType'
    BY <1>6, <2>3 DEF Draw, KeyType, HistoryType
  <2> QED
    BY <1>6, <2>4, <2>5 DEF Draw, procVars
<1>7. CASE KeyStep
  BY <1>7, KeyTypes
<1> QED
  BY <1>1, <1>2, <1>3, <1>4, <1>5, <1>6, <1>7 DEF Screen

(* Every step keeps the types. *)
LEMMA TypeNext == TypeInv /\ MapInv /\ [Next]_vars => TypeInv'
<1> SUFFICES ASSUME TypeOK, IsFiniteSet(Timed), MapInv, [Next]_vars
             PROVE  TypeOK' /\ IsFiniteSet(Timed')
  BY DEF TypeInv
<1>1. CASE Scan
  BY <1>1, ScanTypes DEF Timed
<1>2. CASE Screen
  BY <1>2, ScreenTypes DEF Timed
<1>3. CASE \E p \in Proc : Process(p)
  BY <1>3, ProcessTypes
<1>4. CASE UNCHANGED vars
  <2>1. TypeOK'
    BY <1>4, Frames DEF vars, TypeOK
  <2>2. Timed' = Timed
    BY <1>4 DEF vars, procVars, Timed
  <2> QED
    BY <2>1, <2>2
<1> QED
  BY <1>1, <1>2, <1>3, <1>4 DEF Next

(* The types hold at every time, with only finitely many creation times.   *)
THEOREM TypeInvariant == Spec => []TypeInv
<1>1. Init => TypeInv
  <2> SUFFICES ASSUME Init
               PROVE  TypeOK /\ IsFiniteSet(Timed)
    BY DEF TypeInv
  <2>1. Timed = {}
    BY DEF Init, Timed
  <2>2. IsFiniteSet(Timed)
    BY <2>1, FS_EmptySet
  <2>3. 0 \in 0 .. NS /\ 0 \in 0 .. ND /\ 0 \in -1 .. NS - 1 /\ 0 \in 0 .. MaxKey
    BY SlotFacts, ScanAssumption
  <2>4. /\ ppc \in [Proc -> {"new", "creating", "found", "named", "made", "live", "dead"}]
        /\ slot \in [Proc -> Slot] /\ ctime \in [Proc -> Nat]
    BY SlotFacts DEF Init
  <2>5. /\ active \in [Slot -> {0, 1, 2}] /\ PIDarray \in [Slot -> Proc \cup {NoProc}]
        /\ pinfo \in [Slot -> Proc \cup {NoProc}]
        /\ pindexActive \in [Slot -> Slot] /\ sorted_pindex_time \in [Slot -> Slot]
    BY SlotFacts DEF Init
  <2>6. TypeOK
    BY <2>3, <2>4, <2>5, SlotFacts DEF Init, TypeOK, ListType, ProcType, HandType, ScanType, SortType,
       ScreenType, KeyType, HistoryType
  <2> QED
    BY <2>2, <2>6
<1> QED
  BY <1>1, TypeNext, MapInvariant, PTL DEF Spec

(* The variables always have their types (TypeOK): the slots that          *)
(* processes, scan and screen use are in the list, and creation times are  *)
(* numbers.                                                                *)
THEOREM TypeCorrect == Spec => []TypeOK
<1>1. TypeInv => TypeOK
  BY DEF TypeInv
<1> QED
  BY <1>1, TypeInvariant, PTL

-----------------------------------------------------------------------------
(* The list.                                                               *)

Entering == {"found", "named", "made"}

(* What a process knows of its slot as long as its registration met no     *)
(* other: nobody else enters it, it is free until the process activates it *)
(* and the process's own afterwards, and the scan has not found it without *)
(* a file.                                                                 *)
SlotInv(p) ==
  /\ ppc[p] \in Entering => active[slot[p]] = 0
  /\ ppc[p] \in {"named", "made", "live"} => PIDarray[slot[p]] = p
  /\ ppc[p] \in {"made", "live"} => p \in file
  /\ ppc[p] = "live" => active[slot[p]] = 1
  /\ ppc[p] \in Entering \cup {"live"} =>
       /\ \A q \in Proc \ {p} : ppc[q] \in Entering => slot[q] # slot[p]
       /\ tpc = "test" /\ ti = slot[p] => ppc[p] = "live" /\ ~missing

(* Nobody enters or scans the list before it is there, and a slot names a  *)
(* process that found it.                                                  *)
ListInv ==
  /\ ~created => /\ \A p \in Proc : ppc[p] \in {"new", "creating", "dead"}
                 /\ tpc \in {"none", "end"}
  /\ \A i \in Slot : PIDarray[i] \in Proc =>
       slot[PIDarray[i]] = i /\ ppc[PIDarray[i]] \notin {"new", "creating", "found"}
  /\ \A p \in Proc \ raced : SlotInv(p)

(* A step that leaves the list and the processes alone and begins no test  *)
(* of a slot keeps ListInv.                                                *)
LEMMA ListFrame ==
  ASSUME ListInv, UNCHANGED <<listVars, ppc, slot, raced>>,
         tpc' = "test" => tpc = "test" /\ UNCHANGED <<ti, missing>>,
         ~created => tpc' \in {"none", "end"}
  PROVE  ListInv'
<1> USE DEF ListInv, listVars
<1>1. ASSUME NEW p \in Proc, SlotInv(p)
      PROVE  SlotInv(p)'
  BY <1>1 DEF SlotInv
<1> QED
  BY <1>1

(* The steps of a process keep ListInv. *)
LEMMA ProcessList ==
  ASSUME TypeOK, ListInv, NEW p \in Proc, Process(p)
  PROVE  ListInv'
<1> USE DEF ListInv, Entering, scanVars
<1>0. /\ ppc \in [Proc -> {"new", "creating", "found", "named", "made", "live", "dead"}]
      /\ slot \in [Proc -> Slot] /\ NoProc \notin Proc
      /\ active \in [Slot -> {0, 1, 2}] /\ PIDarray \in [Slot -> Proc \cup {NoProc}]
      /\ created \in BOOLEAN /\ raced \subseteq Proc
  BY ScanAssumption DEF TypeOK, ListType, ProcType, HistoryType
<1>1. CASE FindSlot(p)
  <2>1. CASE UNCHANGED <<slot, raced>> /\ ppc' \in {[ppc EXCEPT ![p] = "creating"],
                                                 [ppc EXCEPT ![p] = "dead"]}
    <3>1. ppc[p] = "new" /\ UNCHANGED <<listVars, tpc, ti, missing>>
      BY <1>1 DEF FindSlot
    <3>2. ppc'[p] \in {"creating", "dead"} /\ \A q \in Proc \ {p} : ppc'[q] = ppc[q]
      BY <2>1, <1>0
    <3>3. ppc'[p] = "creating" => ~created
      BY <1>0, <1>1, <2>1 DEF FindSlot
    <3>4. ASSUME NEW q \in Proc \ raced'
          PROVE  SlotInv(q)'
      <4>1. SlotInv(q)
        BY <2>1, <3>4
      <4> QED
        BY <1>0, <2>1, <3>1, <3>2, <4>1 DEF SlotInv, listVars
    <3>5. ASSUME NEW i \in Slot, PIDarray'[i] \in Proc
          PROVE  slot'[PIDarray'[i]] = i /\ ppc'[PIDarray'[i]] \notin {"new", "creating", "found"}
      BY <2>1, <3>1, <3>2, <3>5 DEF listVars
    <3>6. created' = created /\ tpc' = tpc
      BY <3>1 DEF listVars
    <3>7. ~created' => \A q \in Proc : ppc'[q] \in {"new", "creating", "dead"}
      BY <3>2, <3>6
    <3> QED
      BY <3>4, <3>5, <3>6, <3>7
  <2>2. ASSUME NEW i \in Slot, created, FirstFree(i),
               ppc' = [ppc EXCEPT ![p] = "found"], slot' = [slot EXCEPT ![p] = i],
               raced' = raced \cup (IF Registering(i) # {} \/ (tpc = "test" /\ ti = i)
                                      THEN Registering(i) \cup {p} ELSE {})
        PROVE  ListInv'
    <3>1. ppc[p] = "new" /\ UNCHANGED <<listVars, tpc, ti, missing>> /\ active[i] = 0
      BY <1>1, <2>2 DEF FindSlot, FirstFree
    <3>2. ppc'[p] = "found" /\ slot'[p] = i
          /\ \A q \in Proc \ {p} : ppc'[q] = ppc[q] /\ slot'[q] = slot[q]
      BY <2>2, <1>0
    <3>3. ASSUME NEW q \in Proc \ raced', q # p
          PROVE  SlotInv(q)'
      <4>1. SlotInv(q)
        BY <2>2, <3>3
      <4>2. ppc[q] \in Entering \cup {"live"} => slot[q] # i
        BY <2>2, <3>1, <3>3, <4>1 DEF SlotInv, Registering
      <4> QED
        BY <1>0, <3>1, <3>2, <3>3, <4>1, <4>2 DEF SlotInv, listVars
    <3>4. ASSUME p \notin raced'
          PROVE  SlotInv(p)'
      <4>1. Registering(i) = {} /\ ~(tpc = "test" /\ ti = i)
        BY <2>2, <3>4
      <4>2. \A q \in Proc \ {p} : ppc'[q] \in Entering => slot'[q] # i
        BY <3>2, <4>1 DEF Registering
      <4> QED
        BY <3>1, <3>2, <4>1, <4>2 DEF SlotInv, listVars
    <3>5. ASSUME NEW j \in Slot, PIDarray'[j] \in Proc
          PROVE  slot'[PIDarray'[j]] = j /\ ppc'[PIDarray'[j]] \notin {"new", "creating", "found"}
      BY <3>1, <3>2, <3>5 DEF listVars
    <3>6. created'
      BY <2>2, <3>1 DEF listVars
    <3> QED
      BY <3>3, <3>4, <3>5, <3>6
  <2> QED
    BY <1>1, <2>1, <2>2 DEF FindSlot
<1>2. CASE CreateList(p)
  <2>1. created' /\ \A i \in Slot : active'[i] = 0 /\ PIDarray'[i] = NoProc
    BY <1>2 DEF CreateList, EmptyList
  <2>2. ASSUME NEW q \in Proc \ raced'
        PROVE  SlotInv(q)'
    <3>1. ~created /\ raced' = raced /\ UNCHANGED <<tpc, ti, missing>>
      BY <1>2, <2>2 DEF CreateList
    <3>2. ppc'[p] = "found" /\ slot'[p] = 0 /\ \A r \in Proc \ {p} : ppc'[r] = ppc[r]
      BY <1>0, <1>2 DEF CreateList
    <3>3. tpc' # "test" /\ \A r \in Proc \ {p} : ppc'[r] \in {"new", "creating", "dead"}
      BY <3>1, <3>2
    <3>4. active'[0] = 0
      BY <2>1, SlotFacts
    <3> QED
      BY <3>2, <3>3, <3>4 DEF SlotInv
  <2> QED
    BY <1>0, <2>1, <2>2
<1>3. CASE WriteSlot(p)
  <2>1. ppc[p] = "found" /\ UNCHANGED <<created, active, file, slot, raced, tpc, ti, missing>>
    BY <1>3 DEF WriteSlot, history
  <2>2. ppc'[p] = "named" /\ \A q \in Proc \ {p} : ppc'[q] = ppc[q]
    BY <1>0, <1>3 DEF WriteSlot
  <2>3. PIDarray'[slot[p]] = p /\ \A i \in Slot \ {slot[p]} : PIDarray'[i] = PIDarray[i]
    BY <1>0, <1>3 DEF WriteSlot
  <2>4. ASSUME NEW q \in Proc \ raced'
        PROVE  SlotInv(q)'
    <3>1. SlotInv(q) /\ slot[q] \in Slot
      BY <1>0, <2>1, <2>4
    <3>2. CASE q = p
      BY <2>1, <2>2, <2>3, <3>1, <3>2 DEF SlotInv
    <3>3. CASE q # p
      BY <2>1, <2>2, <2>3, <3>1, <3>3 DEF SlotInv
    <3> QED
      BY <3>2, <3>3
  <2>5. ASSUME NEW i \in Slot, PIDarray'[i] \in Proc
        PROVE  slot'[PIDarray'[i]] = i /\ ppc'[PIDarray'[i]] \notin {"new", "creating", "found"}
    BY <2>1, <2>2, <2>3, <2>5
  <2>6. created'
    BY <1>0, <2>1
  <2> QED
    BY <2>4, <2>5, <2>6
<1>4. CASE MakeFile(p)
  <2>1. /\ ppc[p] = "named" /\ file' = file \cup {p}
        /\ UNCHANGED <<created, active, PIDarray, slot, raced, tpc, ti, missing>>
    BY <1>4 DEF MakeFile, history
  <2>2. ppc'[p] = "made" /\ \A q \in Proc \ {p} : ppc'[q] = ppc[q]
    BY <1>0, <1>4 DEF MakeFile
  <2>3. ASSUME NEW q \in Proc \ raced'
        PROVE  SlotInv(q)'
    <3>1. SlotInv(q)
      BY <2>1, <2>3
    <3> QED
      BY <2>1, <2>2, <3>1 DEF SlotInv
  <2>4. created'
    BY <1>0, <2>1
  <2> QED
    BY <2>1, <2>2, <2>3, <2>4
<1>5. CASE Activate(p)
  <2>1. ppc[p] = "made" /\ UNCHANGED <<created, PIDarray, file, slot, raced, tpc, ti, missing>>
    BY <1>5 DEF Activate
  <2>2. ppc'[p] = "live" /\ \A q \in Proc \ {p} : ppc'[q] = ppc[q]
    BY <1>0, <1>5 DEF Activate
  <2>3. active'[slot[p]] = 1 /\ \A i \in Slot \ {slot[p]} : active'[i] = active[i]
    BY <1>0, <1>5 DEF Activate
  <2>4. ASSUME NEW q \in Proc \ raced'
        PROVE  SlotInv(q)'
    <3>1. SlotInv(q) /\ slot[q] \in Slot
      BY <1>0, <2>1, <2>4
    <3> QED
      BY <2>1, <2>2, <2>3, <3>1 DEF SlotInv
  <2>5. created'
    BY <1>0, <2>1
  <2> QED
    BY <2>1, <2>2, <2>4, <2>5
<1>6. CASE Die(p)
  <2>1. UNCHANGED <<listVars, slot, raced, tpc, ti, missing>>
    BY <1>6 DEF Die, history
  <2>2. ppc'[p] = "dead" /\ \A q \in Proc \ {p} : ppc'[q] = ppc[q]
    BY <1>0, <1>6 DEF Die
  <2>3. ASSUME NEW q \in Proc \ raced'
        PROVE  SlotInv(q)'
    <3>1. SlotInv(q)
      BY <2>1, <2>3
    <3> QED
      BY <2>1, <2>2, <3>1 DEF SlotInv, listVars
  <2> QED
    BY <2>1, <2>2, <2>3 DEF listVars
<1> QED
  BY <1>1, <1>2, <1>3, <1>4, <1>5, <1>6 DEF Process

(* The steps of the scan thread keep ListInv: the scan frees no slot of a  *)
(* process that runs.                                                      *)
LEMMA ScanList ==
  ASSUME TypeOK, MapInv, ListInv, Scan
  PROVE  ListInv'
<1>0. /\ NoProc \notin Proc /\ Displayed \subseteq Slot /\ slot \in [Proc -> Slot]
      /\ active \in [Slot -> {0, 1, 2}] /\ PIDarray \in [Slot -> Proc \cup {NoProc}]
  BY ScanAssumption, SlotFacts DEF TypeOK, ListType, ProcType
<1>1. CASE Request \/ AwaitOK \/ Acknowledge \/ LinkSlot \/ Sort \/ ScanDone \/ CountScan \/ Wake
  <2>1. UNCHANGED <<listVars, ppc, slot, raced>> /\ tpc' # "test" /\ tpc \notin {"none", "end"}
    BY <1>1 DEF Request, AwaitOK, Acknowledge, LinkSlot, NextSlot, Sort, ScanDone, CountScan, Wake,
       procVars, history
  <2> QED
    BY <2>1, ListFrame DEF ListInv
<1>2. CASE LoadSlot
  <2>1. tpc = "load" /\ ti \in Slot /\ UNCHANGED <<listVars, ppc, slot, ti>>
    BY <1>0, <1>2 DEF LoadSlot, procVars
  <2>2. created
    BY <2>1 DEF ListInv
  <2>3. CASE tpc' = "end"
    <3>1. raced' = raced
      BY <1>2, <2>3 DEF LoadSlot
    <3> QED
      BY <2>1, <2>2, <2>3, <3>1, ListFrame
  <2>4. CASE tpc' = "test"
    <3>1. raced' = raced \cup Registering(ti) /\ missing' = (PIDarray[ti] \notin file)
      BY <1>2, <2>4 DEF LoadSlot
    <3>2. ASSUME NEW p \in Proc \ raced'
          PROVE  SlotInv(p)'
      <4>1. SlotInv(p) /\ p \notin Registering(ti)
        BY <3>1, <3>2 DEF ListInv
      <4>2. ppc[p] \in Entering => slot[p] # ti
        BY <4>1 DEF Registering, Entering
      <4>3. ppc[p] = "live" /\ slot[p] = ti => ~missing'
        BY <3>1, <4>1 DEF SlotInv
      <4> QED
        BY <2>1, <2>4, <4>1, <4>2, <4>3 DEF SlotInv, listVars
    <3> QED
      BY <2>1, <2>2, <3>2 DEF ListInv, listVars
  <2> QED
    BY <1>2, <2>3, <2>4 DEF LoadSlot
<1>3. CASE TestSlot
  <2>1. /\ tpc = "test" /\ ti \in Slot /\ tpc' \in {"link", "load"}
        /\ UNCHANGED <<created, PIDarray, file, ppc, slot, raced>>
    BY <1>0, <1>3 DEF TestSlot, NextSlot, MapInv, procVars, history
  <2>2. active'[ti] = IF missing THEN 0
                      ELSE IF active[ti] = 1 /\ (PIDarray[ti] = NoProc \/ ppc[PIDarray[ti]] = "dead")
                        THEN 2 ELSE active[ti]
    BY <1>0, <1>3, <2>1 DEF TestSlot
  <2>3. \A i \in Slot \ {ti} : active'[i] = active[i]
    BY <1>0, <1>3 DEF TestSlot
  <2>4. ASSUME NEW p \in Proc \ raced'
        PROVE  SlotInv(p)'
    <3>1. SlotInv(p) /\ slot[p] \in Slot
      BY <1>0, <2>1, <2>4 DEF ListInv
    <3>2. ppc[p] \in Entering => slot[p] # ti
      BY <2>1, <3>1 DEF SlotInv, Entering
    <3>3. ppc[p] = "live" => active'[slot[p]] = 1
      <4>1. CASE ppc[p] = "live" /\ slot[p] = ti
        <5>1. ~missing /\ PIDarray[ti] = p /\ active[ti] = 1
          BY <2>1, <3>1, <4>1 DEF SlotInv
        <5> QED
          BY <1>0, <2>2, <4>1, <5>1
      <4> QED
        BY <2>3, <3>1, <4>1 DEF SlotInv
    <3>4. ppc[p] \in Entering => active'[slot[p]] = 0
      BY <2>3, <3>1, <3>2 DEF SlotInv
    <3> QED
      BY <2>1, <3>1, <3>3, <3>4 DEF SlotInv
  <2> QED
    BY <2>1, <2>4 DEF ListInv
<1> QED
  BY <1>1, <1>2, <1>3 DEF Scan

(* The slots that the keys act on are in the list. *)
LEMMA TargetSlots ==
  ASSUME TypeOK
  PROVE  Listing \subseteq Slot /\ Targets \subseteq Slot
BY DEF TypeOK, SortType, KeyType, Listing, Targets

(* The steps of the screen keep ListInv: a key removes no file of a        *)
(* process that runs and whose registration met no other.                  *)
LEMMA ScreenList ==
  ASSUME TypeOK, Handshake, ListInv, Screen
  PROVE  ListInv'
<1>0. /\ NoProc \notin Proc /\ created \in BOOLEAN /\ raced \subseteq Proc
      /\ ppc \in [Proc -> {"new", "creating", "found", "named", "made", "live", "dead"}]
  BY ScanAssumption DEF TypeOK, ListType, ProcType, HistoryType
<1>1. CASE Start
  <2>1. UNCHANGED <<listVars, ppc, slot, raced, ti, missing>> /\ (~created => tpc' = tpc) /\ tpc' \in {tpc, "request"}
    BY <1>1 DEF Start, procVars, history
  <2> QED
    BY <2>1, ListFrame DEF ListInv
<1>2. CASE StartEmpty
  <2>1. created' /\ \A i \in Slot : active'[i] = 0 /\ PIDarray'[i] = NoProc
    BY <1>2 DEF StartEmpty, EmptyList
  <2>2. ASSUME NEW q \in Proc \ raced'
        PROVE  SlotInv(q)'
    <3>1. ~created /\ UNCHANGED <<ppc, tpc>>
      BY <1>2, <2>2 DEF StartEmpty, screenRest, scanVars, procVars
    <3>2. tpc' # "test" /\ \A r \in Proc : ppc'[r] \in {"new", "creating", "dead"}
      BY <3>1 DEF ListInv
    <3> QED
      BY <3>2 DEF SlotInv, Entering
  <2> QED
    BY <1>0, <2>1, <2>2 DEF ListInv
<1>3. CASE Permit \/ FirstScan \/ TestRequest \/ Grant \/ Blocked \/ NoKey \/ Draw \/ Leave \/ Join \/ Close
  <2>1. UNCHANGED <<listVars, ppc, slot, raced, ti, missing>> /\ tpc' \in {tpc, "end"}
    BY <1>3 DEF Permit, FirstScan, TestRequest, Grant, Blocked, NoKey, Draw, Gone, Leave, Join, Close,
       screenRest, scanVars, procVars, history
  <2> QED
    BY <2>1, ListFrame DEF ListInv
<1>4. CASE KeyKill
  <2>1. UNCHANGED <<listVars, slot, raced, ti, missing>> /\ tpc' \in {tpc, "end"}
    BY <1>4 DEF KeyKill, Gone, history
  <2>2. \A p \in Proc : ppc'[p] \in {ppc[p], "dead"}
    BY <1>4 DEF KeyKill
  <2>3. ASSUME NEW p \in Proc \ raced'
        PROVE  SlotInv(p)'
    <3>1. SlotInv(p)
      BY <2>1, <2>3 DEF ListInv
    <3> QED
      BY <2>1, <2>2, <3>1 DEF SlotInv, Entering, listVars
  <2> QED
    BY <2>1, <2>2, <2>3 DEF ListInv, listVars
<1>5. ASSUME NEW k \in Key, KeyMove(k) \/ KeyMark(k) \/ KeyControl(k) \/ KeyMode(k)
      PROVE  ListInv'
  <2>1. UNCHANGED <<listVars, ppc, slot, raced, ti, missing>> /\ tpc' \in {tpc, "end"}
    BY <1>5 DEF KeyMove, KeyMark, KeyControl, KeyMode, Gone, screenRest, scanVars, procVars, history
  <2> QED
    BY <2>1, ListFrame DEF ListInv
<1>6. ASSUME NEW k \in Key, KeyRemove(k)
      PROVE  ListInv'
  <2>1. UNCHANGED <<created, active, PIDarray, ppc, slot, ti, missing>> /\ tpc' \in {tpc, "end"}
    BY <1>6 DEF KeyRemove, Remove, Gone, procVars
  <2>2. ASSUME NEW slots, NEW logs, slots \subseteq Slot, Remove(slots, logs)
        PROVE  /\ raced \subseteq raced'
               /\ \A p \in Proc \ raced' : ppc[p] \in {"made", "live"} /\ p \in file => p \in file'
    <3>1. CASE UNCHANGED <<file, raced>>
      BY <3>1
    <3>2. CASE /\ file' = file \ {PIDarray[i] : i \in Removable(slots)}
               /\ raced' = raced \cup {p \in {PIDarray[i] : i \in Removable(slots)} \cap Proc :
                                        ppc[p] \in {"named", "made"}}
      <4>1. ASSUME NEW p \in Proc \ raced', ppc[p] \in {"made", "live"},
                   NEW i \in Removable(slots), PIDarray[i] = p
            PROVE  FALSE
        <5>1. ppc[p] = "live" /\ SlotInv(p)
          BY <3>2, <4>1 DEF ListInv
        <5>2. slot[p] = i /\ active[i] # 1
          BY <2>2, <4>1 DEF ListInv, Removable
        <5> QED
          BY <5>1, <5>2 DEF SlotInv
      <4> QED
        BY <3>2, <4>1
    <3> QED
      BY <2>2, <3>1, <3>2 DEF Remove
  <2>3. /\ raced \subseteq raced'
        /\ \A p \in Proc \ raced' : ppc[p] \in {"made", "live"} /\ p \in file => p \in file'
    BY <1>6, <2>2, TargetSlots DEF KeyRemove
  <2>4. ASSUME NEW p \in Proc \ raced'
        PROVE  SlotInv(p)'
    <3>1. SlotInv(p)
      BY <2>3, <2>4 DEF ListInv
    <3> QED
      BY <2>1, <2>3, <2>4, <3>1 DEF SlotInv, Entering
  <2> QED
    BY <2>1, <2>4 DEF ListInv
<1> QED
  BY <1>1, <1>2, <1>3, <1>4, <1>5, <1>6 DEF Screen, KeyStep

(* Every step keeps ListInv. *)
LEMMA ListNext == TypeOK /\ Handshake /\ MapInv /\ ListInv /\ [Next]_vars => ListInv'
<1> SUFFICES ASSUME TypeOK, Handshake, MapInv, ListInv, [Next]_vars
             PROVE  ListInv'
  OBVIOUS
<1>1. CASE UNCHANGED vars
  <2>1. UNCHANGED <<listVars, ppc, slot, raced, tpc, ti, missing>>
    BY <1>1 DEF vars, procVars, scanVars, history
  <2> QED
    BY <2>1, ListFrame DEF ListInv
<1> QED
  BY <1>1, ProcessList, ScanList, ScreenList DEF Next

(* At every time, for every number of processes and slots. *)
THEOREM ListInvariant == Spec => []ListInv
<1>1. Init => ListInv
  BY ScanAssumption DEF Init, ListInv, SlotInv, Entering
<1> QED
  BY <1>1, ListNext, TypeCorrect, HandshakeInvariant, MapInvariant, PTL DEF Spec

(* The list has every process that runs (Listed): whatever scans and keys  *)
(* do to the list, a process that entered stays active in its slot, unless *)
(* its registration met that of another or a scan of the slot.             *)
THEOREM RunningListed == Spec => []Listed
<1>1. ListInv => Listed
  BY DEF ListInv, SlotInv, Listed
<1> QED
  BY <1>1, ListInvariant, PTL

-----------------------------------------------------------------------------
(* The structures.                                                         *)

(* The structure of a slot is that of its process. *)
Fresh(i) == active[i] # 0 /\ PIDarray[i] \notin late => pinfo[i] = PIDarray[i]

(* As long as no registration met another or a scan, every slot is fresh,  *)
(* except the one that the scan is at, of which it knows the process.      *)
FreshInv ==
  raced = {} =>
    /\ \A i \in Slot : active[i] # 0 => PIDarray[i] \in Proc
    /\ tpc \in {"test", "link"} =>
         sname = PIDarray[ti] /\ (tpc = "test" => (update <=> active[ti] # 0))
    /\ tpc = "link" => active[ti] # 0
    /\ spc \notin {"done", "killed", "fault"} =>
         \A i \in Displayed : (tpc \in {"test", "link"} => i # ti) => Fresh(i)

(* No process has two slots. *)
LEMMA OneSlot ==
  ASSUME ListInv, NEW i \in Slot, NEW j \in Slot, PIDarray[i] = PIDarray[j], PIDarray[i] \in Proc
  PROVE  i = j
BY DEF ListInv

(* A registration that met another stays one. *)
LEMMA RacedGrows ==
  ASSUME TypeOK, [Next]_vars
  PROVE  raced \subseteq raced'
<1>0. raced \subseteq Proc
  BY DEF TypeOK, HistoryType
<1>1. ASSUME NEW p \in Proc, Process(p)
      PROVE  raced \subseteq raced'
  BY <1>0, <1>1 DEF Process, FindSlot, CreateList, WriteSlot, MakeFile, Activate, Die, history
<1>2. CASE Scan
  BY <1>2 DEF Scan, Request, AwaitOK, Acknowledge, LoadSlot, TestSlot, LinkSlot, Sort, ScanDone,
     CountScan, Wake, history
<1>3. CASE Start \/ StartEmpty \/ Permit \/ FirstScan \/ TestRequest \/ Grant \/ Blocked \/ NoKey
  BY <1>0, <1>3 DEF Start, StartEmpty, Permit, FirstScan, TestRequest, Grant, Blocked, NoKey, history
<1>4. CASE Draw \/ Leave \/ Join \/ Close
  BY <1>4 DEF Draw, Leave, Join, Close, history
<1>5. CASE KeyKill
  BY <1>5 DEF KeyKill, history
<1>6. ASSUME NEW k \in Key, KeyMove(k) \/ KeyMark(k) \/ KeyControl(k) \/ KeyMode(k)
      PROVE  raced \subseteq raced'
  BY <1>6 DEF KeyMove, KeyMark, KeyControl, KeyMode, history
<1>7. ASSUME NEW k \in Key, KeyRemove(k)
      PROVE  raced \subseteq raced'
  BY <1>7 DEF KeyRemove, Remove
<1>8. CASE UNCHANGED vars
  BY <1>8 DEF vars, history
<1> QED
  BY <1>1, <1>2, <1>3, <1>4, <1>5, <1>6, <1>7, <1>8 DEF Next, Screen, KeyStep

(* A step that leaves the slots and their structures alone keeps FreshInv. *)
LEMMA FreshFrame ==
  ASSUME FreshInv, UNCHANGED <<active, PIDarray, pinfo, late>>, raced \subseteq raced',
         tpc' \in {"test", "link"} => UNCHANGED <<tpc, ti, sname, update>>,
         spc' \notin {"done", "killed", "fault"} =>
           /\ spc \notin {"done", "killed", "fault"}
           /\ tpc \in {"test", "link"} => UNCHANGED <<tpc, ti>>
  PROVE  FreshInv'
<1> SUFFICES ASSUME raced' = {}
             PROVE  FreshInv'
  BY DEF FreshInv
<1>1. raced = {}
  OBVIOUS
<1>2. \A i \in Slot : active'[i] # 0 => PIDarray'[i] \in Proc
  BY <1>1 DEF FreshInv
<1>3. tpc' \in {"test", "link"} =>
        sname' = PIDarray'[ti'] /\ (tpc' = "test" => (update' <=> active'[ti'] # 0))
  BY <1>1 DEF FreshInv
<1>4. tpc' = "link" => active'[ti'] # 0
  BY <1>1 DEF FreshInv
<1>5. ASSUME spc' \notin {"done", "killed", "fault"}, NEW i \in Displayed,
             tpc' \in {"test", "link"} => i # ti'
      PROVE  Fresh(i)'
  <2>1. Fresh(i)
    BY <1>1, <1>5 DEF FreshInv
  <2> QED
    BY <2>1 DEF Fresh
<1> QED
  BY <1>2, <1>3, <1>4, <1>5 DEF FreshInv

(* The steps of a process keep FreshInv: one that enters a slot is late    *)
(* until the scan loads the slot.                                          *)
LEMMA ProcessFresh ==
  ASSUME TypeOK, ListInv, FreshInv, raced \subseteq raced', NEW p \in Proc, Process(p)
  PROVE  FreshInv'
<1>0. /\ NoProc \notin Proc /\ Displayed \subseteq Slot /\ slot \in [Proc -> Slot]
      /\ active \in [Slot -> {0, 1, 2}] /\ PIDarray \in [Slot -> Proc \cup {NoProc}]
  BY ScanAssumption, SlotFacts DEF TypeOK, ListType, ProcType
<1>a. UNCHANGED <<pinfo, spc, scanVars>>
  BY DEF Process, FindSlot, CreateList, WriteSlot, MakeFile, Activate, Die
<1>1. CASE FindSlot(p) \/ MakeFile(p) \/ Die(p)
  <2>1. UNCHANGED <<active, PIDarray, late>>
    BY <1>1 DEF FindSlot, MakeFile, Die, listVars, history
  <2> QED
    BY <1>a, <2>1, FreshFrame DEF scanVars
<1>2. CASE CreateList(p)
  <2>1. \A i \in Slot : active'[i] = 0
    BY <1>2 DEF CreateList, EmptyList
  <2>2. created => raced' = Proc
    BY <1>2 DEF CreateList
  <2>3. raced' = {} => tpc' \notin {"test", "link"}
    BY <1>a, <2>2 DEF ListInv, scanVars
  <2> QED
    BY <1>0, <2>1, <2>3 DEF FreshInv, Fresh
<1> SUFFICES ASSUME raced' = {}, WriteSlot(p) \/ Activate(p)
             PROVE  FreshInv'
  BY <1>1, <1>2 DEF Process, FreshInv
<1>3. SlotInv(p) /\ ppc[p] \in Entering /\ active[slot[p]] = 0 /\ slot[p] \in Slot
  BY <1>0 DEF ListInv, SlotInv, Entering, WriteSlot, Activate
<1>4. tpc \in {"test", "link"} => ti # slot[p]
  BY <1>3 DEF SlotInv, Entering, FreshInv
<1>5. UNCHANGED <<tpc, ti, sname, update>>
  BY <1>a DEF scanVars
<1>6. CASE WriteSlot(p)
  <2>1. /\ UNCHANGED <<active, late>>
        /\ PIDarray'[slot[p]] = p /\ \A i \in Slot \ {slot[p]} : PIDarray'[i] = PIDarray[i]
    BY <1>0, <1>6 DEF WriteSlot, history
  <2>2. \A i \in Displayed : Fresh(i) => Fresh(i)'
    BY <1>0, <1>3, <1>a, <2>1 DEF Fresh
  <2>3. tpc \in {"test", "link"} => PIDarray'[ti] = PIDarray[ti]
    BY <1>0, <1>4, <1>6 DEF WriteSlot
  <2> QED
    BY <1>0, <1>3, <1>5, <1>a, <2>1, <2>2, <2>3 DEF FreshInv
<1>7. CASE Activate(p)
  <2>1. /\ PIDarray' = PIDarray /\ late \subseteq late' /\ PIDarray[slot[p]] = p
        /\ slot[p] \in Displayed => p \in late'
        /\ active'[slot[p]] = 1 /\ \A i \in Slot \ {slot[p]} : active'[i] = active[i]
    BY <1>0, <1>3, <1>7 DEF Activate, SlotInv
  <2>2. \A i \in Displayed : Fresh(i) => Fresh(i)'
    BY <1>0, <1>a, <2>1 DEF Fresh
  <2>3. tpc \in {"test", "link"} => active'[ti] = active[ti]
    BY <1>0, <1>4, <1>7 DEF Activate
  <2> QED
    BY <1>0, <1>5, <1>a, <2>1, <2>2, <2>3 DEF FreshInv
<1> QED
  BY <1>6, <1>7

(* The steps of the scan thread keep FreshInv: it maps a slot anew before  *)
(* it goes on to the next.                                                 *)
LEMMA ScanFresh ==
  ASSUME TypeOK, MapInv, ListInv, FreshInv, raced \subseteq raced', Scan
  PROVE  FreshInv'
<1>0. /\ NoProc \notin Proc /\ Displayed \subseteq Slot
      /\ active \in [Slot -> {0, 1, 2}] /\ PIDarray \in [Slot -> Proc \cup {NoProc}]
      /\ pinfo \in [Slot -> Proc \cup {NoProc}]
  BY ScanAssumption, SlotFacts DEF TypeOK, ListType, SortType
<1>1. CASE Request \/ AwaitOK \/ Acknowledge \/ Sort \/ ScanDone \/ CountScan \/ Wake
  <2>1. /\ UNCHANGED <<active, PIDarray, pinfo, late, spc>>
        /\ tpc \notin {"test", "link"} /\ tpc' \notin {"test", "link"}
    BY <1>1 DEF Request, AwaitOK, Acknowledge, Sort, ScanDone, CountScan, Wake, listVars, history
  <2> QED
    BY <2>1, FreshFrame
<1> SUFFICES ASSUME raced' = {}, LoadSlot \/ TestSlot \/ LinkSlot
             PROVE  FreshInv'
  BY <1>1 DEF Scan, FreshInv
<1>2. raced = {} /\ ti \in Displayed /\ UNCHANGED <<PIDarray, spc>>
  BY DEF LoadSlot, TestSlot, LinkSlot, MapInv, listVars
<1>3. CASE LoadSlot
  <2>1. tpc = "load" /\ UNCHANGED <<active, pinfo, ti>>
    BY <1>3 DEF LoadSlot, listVars
  <2>2. CASE tpc' = "end"
    <3>1. late' = late
      BY <1>3, <2>2 DEF LoadSlot
    <3> QED
      BY <1>2, <2>1, <2>2, <3>1, FreshFrame
  <2>3. CASE tpc' = "test"
    <3>1. /\ sname' = PIDarray[ti] /\ (update' <=> active[ti] # 0)
          /\ late' = IF active[ti] # 0 THEN late \ {PIDarray[ti]} ELSE late
      BY <1>3, <2>3 DEF LoadSlot
    <3>2. ASSUME NEW i \in Displayed, i # ti, Fresh(i)
          PROVE  Fresh(i)'
      <4>1. active[i] # 0 => PIDarray[i] # PIDarray[ti]
        BY <1>0, <1>2, <3>2, OneSlot DEF FreshInv
      <4> QED
        BY <1>2, <2>1, <3>1, <3>2, <4>1 DEF Fresh
    <3> QED
      BY <1>2, <2>1, <2>3, <3>1, <3>2 DEF FreshInv
  <2> QED
    BY <1>3, <2>2, <2>3 DEF LoadSlot
<1>4. CASE TestSlot
  <2>1. tpc = "test" /\ late' = late
    BY <1>4 DEF TestSlot, history
  <2>2. active'[ti] = IF missing THEN 0
                      ELSE IF active[ti] = 1 /\ (PIDarray[ti] = NoProc \/ ppc[PIDarray[ti]] = "dead")
                        THEN 2 ELSE active[ti]
    BY <1>0, <1>2, <1>4 DEF TestSlot
  <2>3. \A i \in Slot \ {ti} : active'[i] = active[i] /\ pinfo'[i] = pinfo[i]
    BY <1>0, <1>4 DEF TestSlot
  <2>4. \A i \in Displayed \ {ti} : Fresh(i) => Fresh(i)'
    BY <1>0, <1>2, <2>1, <2>3 DEF Fresh
  <2>5. \A i \in Slot : active'[i] # 0 => PIDarray'[i] \in Proc
    BY <1>0, <1>2, <2>2, <2>3 DEF FreshInv
  <2>6. CASE tpc' = "link"
    <3>1. update /\ ~missing /\ UNCHANGED <<ti, sname>>
      BY <1>4, <2>6 DEF TestSlot, NextSlot
    <3>2. active'[ti] # 0 /\ sname = PIDarray[ti]
      BY <1>2, <2>1, <2>2, <3>1 DEF FreshInv
    <3> QED
      BY <1>2, <2>1, <2>4, <2>5, <2>6, <3>1, <3>2 DEF FreshInv
  <2>7. CASE tpc' = "load"
    <3>1. ~update \/ missing
      BY <1>4, <2>7 DEF TestSlot, NextSlot
    <3>2. active'[ti] = 0
      BY <1>2, <2>1, <2>2, <3>1 DEF FreshInv
    <3>3. \A i \in Displayed : i = ti => Fresh(i)'
      BY <3>2 DEF Fresh
    <3> QED
      BY <1>2, <2>1, <2>4, <2>5, <2>7, <3>3 DEF FreshInv
  <2> QED
    BY <1>4, <2>6, <2>7 DEF TestSlot, NextSlot
<1>5. CASE LinkSlot
  <2>1. tpc = "link" /\ tpc' = "load" /\ UNCHANGED <<active, late>>
    BY <1>5 DEF LinkSlot, NextSlot, listVars, history
  <2>2. pinfo'[ti] = sname /\ \A i \in Slot \ {ti} : pinfo'[i] = pinfo[i]
    BY <1>0, <1>2, <1>5 DEF LinkSlot
  <2>3. sname = PIDarray[ti]
    BY <1>2, <2>1 DEF FreshInv
  <2>4. \A i \in Displayed : i = ti \/ Fresh(i) => Fresh(i)'
    BY <1>0, <1>2, <2>1, <2>2, <2>3 DEF Fresh
  <2> QED
    BY <1>2, <2>1, <2>4 DEF FreshInv
<1> QED
  BY <1>3, <1>4, <1>5

(* The steps of the screen keep FreshInv. *)
LEMMA ScreenFresh ==
  ASSUME TypeOK, Handshake, ListInv, FreshInv, raced \subseteq raced', Screen
  PROVE  FreshInv'
<1>1. CASE StartEmpty
  <2>1. spc' = "done" /\ tpc' = "none" /\ \A i \in Slot : active'[i] = 0
    BY <1>1 DEF StartEmpty, EmptyList, Handshake, screenRest, scanVars
  <2> QED
    BY <2>1 DEF FreshInv
<1>2. CASE Close
  <2>1. spc' = "done" /\ tpc' \notin {"test", "link"} /\ UNCHANGED <<active, PIDarray>>
    BY <1>2 DEF Close, Handshake, scanVars, listVars
  <2> QED
    BY <2>1 DEF FreshInv
<1>3. CASE KeyStep
  <2>1. UNCHANGED <<active, PIDarray, late>>
    <3>1. CASE KeyKill
      BY <3>1 DEF KeyKill, listVars, history
    <3>2. ASSUME NEW k \in Key, KeyMove(k) \/ KeyMark(k) \/ KeyRemove(k) \/ KeyControl(k) \/ KeyMode(k)
          PROVE  UNCHANGED <<active, PIDarray, late>>
      BY <3>2 DEF KeyMove, KeyMark, KeyRemove, KeyControl, KeyMode, listVars, history
    <3> QED
      BY <1>3, <3>1, <3>2 DEF KeyStep
  <2>2. spc = "key" /\ tpc \in Idle /\ tpc' \in {tpc, "end"} /\ pinfo' = pinfo
    BY <1>3, KeyUnchanged DEF Handshake
  <2> QED
    BY <2>1, <2>2, FreshFrame DEF Idle
<1>4. CASE Start \/ Permit \/ FirstScan \/ TestRequest \/ Grant \/ Blocked \/ NoKey \/ Leave \/ Join
  <2>1. UNCHANGED <<active, PIDarray, pinfo, late, ti, sname, update>>
    BY <1>4 DEF Start, Permit, FirstScan, TestRequest, Grant, Blocked, NoKey, Leave, Join, screenRest,
       scanVars, listVars, history
  <2>2. spc \notin {"done", "killed", "fault"}
    BY <1>4 DEF Start, Permit, FirstScan, TestRequest, Grant, Blocked, NoKey, Leave, Join
  <2>3. tpc' = tpc \/ (tpc = "none" /\ tpc' = "request")
    BY <1>4 DEF Start, Permit, FirstScan, TestRequest, Grant, Blocked, NoKey, Leave, Join, screenRest,
       scanVars, Handshake
  <2> QED
    BY <2>1, <2>2, <2>3, FreshFrame
<1>5. CASE Draw
  <2>1. UNCHANGED <<active, PIDarray, pinfo, late>> /\ spc = "draw" /\ tpc' \in {tpc, "end"} /\ tpc \in Idle
    BY <1>5 DEF Draw, Gone, listVars, Handshake
  <2> QED
    BY <2>1, FreshFrame DEF Idle
<1> QED
  BY <1>1, <1>2, <1>3, <1>4, <1>5 DEF Screen

(* Every step keeps FreshInv. *)
LEMMA FreshNext ==
  TypeOK /\ Handshake /\ MapInv /\ ListInv /\ FreshInv /\ [Next]_vars => FreshInv'
<1> SUFFICES ASSUME TypeOK, Handshake, MapInv, ListInv, FreshInv, [Next]_vars
             PROVE  FreshInv'
  OBVIOUS
<1>1. raced \subseteq raced'
  BY RacedGrows
<1>2. CASE UNCHANGED vars
  <2>1. UNCHANGED <<active, PIDarray, pinfo, late, tpc, ti, sname, update, spc>>
    BY <1>2 DEF vars, listVars, scanVars, history
  <2> QED
    BY <1>1, <2>1, FreshFrame
<1> QED
  BY <1>1, <1>2, ProcessFresh, ScanFresh, ScreenFresh DEF Next

(* At every time, for every number of processes and slots. *)
THEOREM FreshInvariant == Spec => []FreshInv
<1>1. Init => FreshInv
  BY SlotFacts DEF Init, FreshInv, Fresh
<1> QED
  BY <1>1, FreshNext, TypeCorrect, HandshakeInvariant, MapInvariant, ListInvariant, PTL DEF Spec

(* The structure that the screen uses for a slot is that of the process in *)
(* it (MapFresh), also when the slot was freed and taken again.            *)
THEOREM StructureFresh == Spec => []MapFresh
<1>1. Handshake /\ FreshInv => MapFresh
  BY DEF Handshake, Idle, FreshInv, Fresh, MapFresh, Displaying
<1> QED
  BY <1>1, HandshakeInvariant, FreshInvariant, PTL

-----------------------------------------------------------------------------
(* The sorted list.                                                        *)

(* Creation times are those of different processes, counted from 1, and    *)
(* the processes that are active in the list have one.                     *)
TimeInv ==
  /\ \A p \in Timed : ctime[p] <= Cardinality(Timed)
  /\ \A p, q \in Timed : p # q => ctime[p] # ctime[q]
  /\ \A p \in Proc : ppc[p] \in {"made", "live"} => p \in Timed
  /\ \A p \in Proc : ppc[p] \in {"new", "creating", "found", "named"} => p \notin Timed
  /\ raced = {} => \A i \in Slot : active[i] # 0 => PIDarray[i] \in Timed

(* A step that gives no creation time and activates no slot keeps TimeInv. *)
LEMMA TimeFrame ==
  ASSUME TimeInv, ctime' = ctime, raced \subseteq raced',
         \A p \in Proc : ppc'[p] \in {ppc[p], "dead"},
         raced' = {} => \A i \in Slot : active'[i] # 0 => active[i] # 0 /\ PIDarray'[i] = PIDarray[i]
  PROVE  TimeInv'
<1>1. Timed' = Timed
  BY DEF Timed
<1> QED
  BY <1>1 DEF TimeInv

(* The steps of a process keep TimeInv: each takes its creation time once. *)
LEMMA ProcessTime ==
  ASSUME TypeOK, IsFiniteSet(Timed), ListInv, TimeInv, raced \subseteq raced', NEW p \in Proc, Process(p)
  PROVE  TimeInv'
<1>0. /\ slot \in [Proc -> Slot] /\ ctime \in [Proc -> Nat]
      /\ ppc \in [Proc -> {"new", "creating", "found", "named", "made", "live", "dead"}]
      /\ active \in [Slot -> {0, 1, 2}] /\ PIDarray \in [Slot -> Proc \cup {NoProc}]
  BY DEF TypeOK, ListType, ProcType
<1>1. CASE FindSlot(p)
  <2>1. UNCHANGED <<active, PIDarray, ctime>> /\ ppc[p] = "new"
    BY <1>1 DEF FindSlot, listVars
  <2>2. ppc'[p] \in {"creating", "found", "dead"} /\ \A q \in Proc \ {p} : ppc'[q] = ppc[q]
    BY <1>0, <1>1 DEF FindSlot
  <2>3. Timed' = Timed
    BY <2>1 DEF Timed
  <2> QED
    BY <2>1, <2>2, <2>3 DEF TimeInv
<1>2. CASE CreateList(p)
  <2>1. ctime' = ctime /\ ppc[p] = "creating" /\ \A i \in Slot : active'[i] = 0
    BY <1>2 DEF CreateList, EmptyList
  <2>2. ppc'[p] = "found" /\ \A q \in Proc \ {p} : ppc'[q] = ppc[q]
    BY <1>0, <1>2 DEF CreateList
  <2>3. Timed' = Timed
    BY <2>1 DEF Timed
  <2> QED
    BY <2>1, <2>2, <2>3 DEF TimeInv
<1>3. CASE WriteSlot(p)
  <2>1. UNCHANGED <<active, ctime, raced>> /\ ppc[p] = "found"
    BY <1>3 DEF WriteSlot, history
  <2>2. ppc'[p] = "named" /\ \A q \in Proc \ {p} : ppc'[q] = ppc[q]
    BY <1>0, <1>3 DEF WriteSlot
  <2>3. \A i \in Slot \ {slot[p]} : PIDarray'[i] = PIDarray[i]
    BY <1>0, <1>3 DEF WriteSlot
  <2>4. raced = {} => active[slot[p]] = 0
    BY <2>1 DEF ListInv, SlotInv, Entering
  <2>5. Timed' = Timed
    BY <2>1 DEF Timed
  <2> QED
    BY <2>1, <2>2, <2>3, <2>4, <2>5 DEF TimeInv
<1>4. CASE MakeFile(p)
  <2>. DEFINE n == Cardinality(Timed)
  <2>1. n \in Nat
    BY FS_CardinalityType
  <2>2. ppc[p] = "named" /\ UNCHANGED <<active, PIDarray, raced>>
    BY <1>4 DEF MakeFile, history
  <2>3. ctime' = [ctime EXCEPT ![p] = 1 + n]
    BY <1>4 DEF MakeFile, Timed
  <2>4. ctime'[p] = n + 1 /\ \A q \in Proc \ {p} : ctime'[q] = ctime[q]
    BY <1>0, <2>1, <2>3
  <2>5. Timed' = Timed \cup {p} /\ p \notin Timed
    <3>1. p \notin Timed
      BY <2>2 DEF TimeInv
    <3>2. \A q \in Proc : ctime'[q] # 0 <=> ctime[q] # 0 \/ q = p
      BY <2>1, <2>4
    <3> QED
      BY <3>1, <3>2 DEF Timed
  <2>6. Cardinality(Timed') = n + 1
    BY <2>5, FS_AddElement
  <2>7. ppc'[p] = "made" /\ \A q \in Proc \ {p} : ppc'[q] = ppc[q]
    BY <1>0, <1>4 DEF MakeFile
  <2>8. \A q \in Timed : q \in Proc /\ q # p /\ ctime'[q] = ctime[q] /\ ctime[q] \in Nat /\ ctime[q] <= n
    BY <1>0, <2>4, <2>5 DEF TimeInv, Timed
  <2> HIDE DEF n
  <2>9. \A q \in Timed' : ctime'[q] <= Cardinality(Timed')
    BY <2>1, <2>4, <2>5, <2>6, <2>8
  <2>10. \A q, r \in Timed' : q # r => ctime'[q] # ctime'[r]
    <3>1. \A q, r \in Timed : q # r => ctime[q] # ctime[r]
      BY DEF TimeInv
    <3> QED
      BY <2>1, <2>4, <2>5, <2>8, <3>1
  <2> QED
    BY <2>2, <2>5, <2>7, <2>9, <2>10 DEF TimeInv
<1>5. CASE Activate(p)
  <2>1. UNCHANGED <<PIDarray, ctime, raced>> /\ ppc[p] = "made"
    BY <1>5 DEF Activate
  <2>2. ppc'[p] = "live" /\ \A q \in Proc \ {p} : ppc'[q] = ppc[q]
    BY <1>0, <1>5 DEF Activate
  <2>3. \A i \in Slot \ {slot[p]} : active'[i] = active[i]
    BY <1>0, <1>5 DEF Activate
  <2>4. raced = {} => PIDarray[slot[p]] = p
    BY <2>1 DEF ListInv, SlotInv
  <2>5. Timed' = Timed
    BY <2>1 DEF Timed
  <2> QED
    BY <2>1, <2>2, <2>3, <2>4, <2>5 DEF TimeInv
<1>6. CASE Die(p)
  <2>1. UNCHANGED <<active, PIDarray, ctime, raced>> /\ \A q \in Proc : ppc'[q] \in {ppc[q], "dead"}
    BY <1>0, <1>6 DEF Die, listVars, history
  <2> QED
    BY <2>1, TimeFrame
<1> QED
  BY <1>1, <1>2, <1>3, <1>4, <1>5, <1>6 DEF Process

(* What the keys leave alone of the list and of the times. *)
LEMMA KeyFrame ==
  ASSUME KeyStep
  PROVE  /\ UNCHANGED <<active, PIDarray, late, ctime, sortVars, scanlate>>
         /\ \A p \in Proc : ppc'[p] \in {ppc[p], "dead"}
<1>1. CASE KeyKill
  BY <1>1 DEF KeyKill, listVars, history
<1>2. ASSUME NEW k \in Key, KeyMove(k) \/ KeyMark(k) \/ KeyMode(k)
      PROVE  UNCHANGED <<active, PIDarray, late, ctime, ppc, sortVars, scanlate>>
  BY <1>2 DEF KeyMove, KeyMark, KeyMode, screenRest, procVars, listVars, history
<1>3. ASSUME NEW k \in Key, KeyRemove(k) \/ KeyControl(k)
      PROVE  UNCHANGED <<active, PIDarray, late, ctime, ppc, sortVars, scanlate>>
  BY <1>3 DEF KeyRemove, KeyControl, procVars, listVars, history
<1> QED
  BY <1>1, <1>2, <1>3 DEF KeyStep

(* What the other steps of the screen leave alone. *)
LEMMA ScreenFrame ==
  ASSUME Screen, ~StartEmpty
  PROVE  /\ UNCHANGED <<active, PIDarray, late, ctime, sortVars, scanlate>>
         /\ \A p \in Proc : ppc'[p] \in {ppc[p], "dead"}
<1>1. CASE KeyStep
  BY <1>1, KeyFrame
<1>2. CASE Start \/ Permit \/ FirstScan \/ TestRequest \/ Grant \/ Blocked \/ NoKey
  BY <1>2 DEF Start, Permit, FirstScan, TestRequest, Grant, Blocked, NoKey, screenRest, procVars,
     listVars, history
<1>3. CASE Draw \/ Leave \/ Join \/ Close
  BY <1>3 DEF Draw, Leave, Join, Close, screenRest, procVars, listVars, history
<1> QED
  BY <1>1, <1>2, <1>3 DEF Screen

(* Every step keeps TimeInv. *)
LEMMA TimeNext == TypeInv /\ ListInv /\ TimeInv /\ [Next]_vars => TimeInv'
<1> SUFFICES ASSUME TypeOK, IsFiniteSet(Timed), ListInv, TimeInv, [Next]_vars
             PROVE  TimeInv'
  BY DEF TypeInv
<1>1. raced \subseteq raced'
  BY RacedGrows
<1>2. CASE Scan
  <2>1. UNCHANGED <<PIDarray, ppc, ctime>>
    BY <1>2 DEF Scan, Request, AwaitOK, Acknowledge, LoadSlot, TestSlot, LinkSlot, Sort, ScanDone,
       CountScan, Wake, listVars, procVars
  <2>2. \A i \in Slot : active'[i] # 0 => active[i] # 0
    <3>1. CASE TestSlot
      BY <3>1 DEF TestSlot, TypeOK, ListType
    <3>2. CASE ~TestSlot
      BY <1>2, <3>2 DEF Scan, Request, AwaitOK, Acknowledge, LoadSlot, LinkSlot, Sort, ScanDone,
         CountScan, Wake, listVars
    <3> QED
      BY <3>1, <3>2
  <2> QED
    BY <1>1, <2>1, <2>2, TimeFrame
<1>3. CASE Screen /\ ~StartEmpty
  BY <1>1, <1>3, ScreenFrame, TimeFrame
<1>4. CASE StartEmpty
  <2>1. UNCHANGED <<ppc, ctime>> /\ \A i \in Slot : active'[i] = 0
    BY <1>4 DEF StartEmpty, EmptyList, screenRest, procVars
  <2> QED
    BY <1>1, <2>1, TimeFrame
<1>5. CASE UNCHANGED vars
  <2>1. UNCHANGED <<active, PIDarray, ppc, ctime>>
    BY <1>5 DEF vars, listVars, procVars
  <2> QED
    BY <1>1, <2>1, TimeFrame
<1> QED
  BY <1>1, <1>2, <1>3, <1>4, <1>5, ProcessTime DEF Next

(* At every time. *)
THEOREM TimeInvariant == Spec => []TimeInv
<1>1. Init => TimeInv
  BY DEF Init, TimeInv, Timed
<1> QED
  BY <1>1, TimeNext, TypeInvariant, ListInvariant, PTL DEF Spec

(* The thread ends when the screen has left its loop, or with the screen. *)
EndInv ==
  /\ ~loop => spc \in {"join", "close", "done"}
  /\ tpc = "end" => ~loop \/ spc \in {"killed", "fault"}
  /\ spc \in {"killed", "fault"} => tpc = "end"

(* Every step keeps EndInv. *)
LEMMA EndNext == Handshake /\ EndInv /\ [Next]_vars => EndInv'
<1> SUFFICES ASSUME Handshake, EndInv, [Next]_vars
             PROVE  EndInv'
  OBVIOUS
<1> USE DEF EndInv, handVars, scanVars
<1>1. CASE Request \/ Acknowledge \/ TestSlot \/ LinkSlot \/ Sort \/ ScanDone \/ CountScan
  BY <1>1 DEF Request, Acknowledge, TestSlot, LinkSlot, NextSlot, Sort, ScanDone, CountScan
<1>2. CASE AwaitOK \/ LoadSlot \/ Wake
  <2>1. tpc # "end" /\ spc' = spc /\ (loop' <=> loop) /\ (tpc' = "end" => ~loop)
    BY <1>2 DEF AwaitOK, LoadSlot, Wake
  <2> QED
    BY <2>1
<1>3. CASE Start \/ StartEmpty \/ Permit \/ FirstScan \/ TestRequest
  BY <1>3 DEF Start, StartEmpty, Permit, FirstScan, TestRequest, screenRest, Handshake
<1>4. CASE Grant \/ Blocked \/ NoKey \/ Leave \/ Join \/ Close
  BY <1>4 DEF Grant, Blocked, NoKey, Leave, Join, Close, screenRest
<1>5. CASE Draw
  BY <1>5 DEF Draw, Gone
<1>6. CASE KeyStep
  BY <1>6, KeyUnchanged
<1>7. ASSUME NEW p \in Proc, Process(p)
      PROVE  EndInv'
  BY <1>7, ProcessUnchanged
<1>8. CASE UNCHANGED vars
  BY <1>8 DEF vars
<1> QED
  BY <1>1, <1>2, <1>3, <1>4, <1>5, <1>6, <1>7, <1>8 DEF Next, Scan, Screen

(* At every time. *)
THEOREM EndInvariant == Spec => []EndInv
<1>1. Init => EndInv
  BY DEF Init, EndInv
<1> QED
  BY <1>1, EndNext, HandshakeInvariant, PTL DEF Spec

-----------------------------------------------------------------------------
(* The place of a number among those of a set. *)
Below(S, i) == Cardinality({j \in S : j < i})

(* The elements of a finite set of numbers have different places, and as   *)
(* many as there are elements: every place is that of an element.          *)
LEMMA Places ==
  ASSUME NEW S, S \subseteq Nat, IsFiniteSet(S)
  PROVE  /\ Cardinality(S) \in Nat
         /\ \A i \in S : Below(S, i) \in 0 .. Cardinality(S) - 1
         /\ \A i, k \in S : Below(S, i) = Below(S, k) => i = k
         /\ \A r \in 0 .. Cardinality(S) - 1 : \E i \in S : Below(S, i) = r
<1>1. Cardinality(S) \in Nat
  BY FS_CardinalityType
<1>2. ASSUME NEW i \in S
      PROVE  /\ IsFiniteSet({j \in S : j < i}) /\ Below(S, i) \in Nat
             /\ Below(S, i) < Cardinality(S)
  <2>. DEFINE L == {j \in S : j < i}
  <2>1. L \in SUBSET S /\ i \notin L
    OBVIOUS
  <2>2. L # S
    BY <2>1
  <2> HIDE DEF L
  <2>3. IsFiniteSet(L) /\ Cardinality(L) <= Cardinality(S) /\ Cardinality(L) # Cardinality(S)
    BY <2>1, <2>2, FS_Subset
  <2>4. Cardinality(L) \in Nat
    BY <2>3, FS_CardinalityType
  <2>5. Below(S, i) = Cardinality(L)
    BY DEF Below, L
  <2>6. IsFiniteSet({j \in S : j < i})
    BY <2>3 DEF L
  <2> QED
    BY <1>1, <2>3, <2>4, <2>5, <2>6
<1>3. ASSUME NEW i \in S, NEW k \in S, i < k
      PROVE  Below(S, i) < Below(S, k)
  <2>. DEFINE L == {j \in S : j < i}
              M == {j \in S : j < k}
  <2>1. L \in SUBSET M
    <3>1. \A j \in S : j < i => j < k
      BY <1>3
    <3> QED
      BY <3>1
  <2>2. L # M
    <3>1. i \in M /\ i \notin L
      BY <1>3
    <3> QED
      BY <3>1
  <2>3. IsFiniteSet(M) /\ Below(S, i) = Cardinality(L) /\ Below(S, k) = Cardinality(M)
    BY <1>2 DEF Below
  <2> HIDE DEF L, M
  <2>4. Cardinality(L) <= Cardinality(M) /\ Cardinality(L) # Cardinality(M)
    BY <2>1, <2>2, <2>3, FS_Subset
  <2>5. Below(S, i) \in Nat /\ Below(S, k) \in Nat
    BY <1>2
  <2> QED
    BY <2>3, <2>4, <2>5
<1>4. \A i, k \in S : Below(S, i) = Below(S, k) => i = k
  <2> SUFFICES ASSUME NEW i \in S, NEW k \in S, i # k
               PROVE  Below(S, i) # Below(S, k)
    OBVIOUS
  <2>1. i < k \/ k < i
    OBVIOUS
  <2>2. Below(S, i) \in Nat /\ Below(S, k) \in Nat
    BY <1>2
  <2> QED
    BY <1>3, <2>1, <2>2
<1>5. \A i \in S : Below(S, i) \in 0 .. Cardinality(S) - 1
  <2> SUFFICES ASSUME NEW i \in S
               PROVE  Below(S, i) \in 0 .. Cardinality(S) - 1
    OBVIOUS
  <2>1. Below(S, i) \in Nat /\ Below(S, i) < Cardinality(S)
    BY <1>2
  <2> QED
    BY <1>1, <2>1
<1>6. \A r \in 0 .. Cardinality(S) - 1 : \E i \in S : Below(S, i) = r
  <2>. DEFINE f == [i \in S |-> Below(S, i)]
              T == 0 .. Cardinality(S) - 1
  <2>1. f \in Injection(S, T)
    <3>1. f \in [S -> T]
      BY <1>5
    <3>2. \A i, k \in S : f[i] = f[k] => i = k
      BY <1>4
    <3> QED
      BY <3>1, <3>2 DEF Injection, IsInjective
  <2>2. IsFiniteSet(T) /\ Cardinality(T) = Cardinality(S)
    <3>1. 0 \in Int /\ Cardinality(S) - 1 \in Int
      BY <1>1
    <3>2. /\ IsFiniteSet(T)
          /\ Cardinality(T) = IF 0 > Cardinality(S) - 1 THEN 0 ELSE Cardinality(S) - 1 - 0 + 1
      BY <3>1, FS_Interval
    <3> HIDE DEF T
    <3> QED
      BY <1>1, <3>2
  <2>3. f \in Surjection(S, T)
    <3> HIDE DEF f, T
    <3> QED
      BY <2>1, <2>2, FS_Injection
  <2> QED
    BY <2>3 DEF Surjection
<1> QED
  BY <1>1, <1>4, <1>5, <1>6

(* A reordering of places takes every place. *)
LEMMA ReorderingOnto ==
  ASSUME NEW n \in Nat, NEW b \in Reordering(n)
  PROVE  \A r \in 0 .. n - 1 : \E k \in 0 .. n - 1 : b[k] = r
<1>1. b \in Injection(0 .. n - 1, 0 .. n - 1)
  BY DEF Reordering, Injection, IsInjective
<1>2. IsFiniteSet(0 .. n - 1)
  BY FS_Interval
<1>3. b \in Surjection(0 .. n - 1, 0 .. n - 1)
  BY <1>1, <1>2, FS_Injection
<1> QED
  BY <1>3 DEF Surjection

(* The slots that the last scan found. *)
Known == {i \in Displayed : active[i] # 0 /\ PIDarray[i] \notin late}

(* When the scan sorts and no process entered meanwhile, the mapped slots  *)
(* are the active ones that are displayed, each mapped to its process.     *)
LEMMA MappedTrue ==
  ASSUME TypeOK, Handshake, MapInv, ListInv, FreshInv, TimeInv, EndInv, tpc = "load", raced = {}, late = {}
  PROVE  /\ Mapped = Known
         /\ \A i \in Mapped : pinfo[i] = PIDarray[i] /\ PIDarray[i] \in Timed
         /\ \A i, j \in Mapped : PIDarray[i] = PIDarray[j] => i = j
         /\ \A i \in Mapped : Rank(i) = Below(Mapped, i)
<1>0. NoProc \notin Proc /\ Displayed \subseteq Slot /\ Timed \subseteq Proc
  BY ScanAssumption, SlotFacts DEF Timed
<1>1. spc \notin {"done", "killed", "fault"}
  BY DEF Handshake, EndInv
<1>2. \A i \in Displayed : active[i] # 0 => pinfo[i] = PIDarray[i] /\ PIDarray[i] \in Proc
  BY <1>0, <1>1 DEF FreshInv, Fresh
<1>3. \A i \in Slot \ Displayed : pinfo[i] = NoProc
  BY DEF MapInv
<1>4. Mapped = Known
  BY <1>0, <1>2, <1>3 DEF Mapped, Known, ActiveSlots
<1>5. \A i \in Mapped : i \in Displayed /\ active[i] # 0
  BY <1>4 DEF Known
<1>6. \A i \in Mapped : pinfo[i] = PIDarray[i] /\ PIDarray[i] \in Timed
  BY <1>0, <1>2, <1>5 DEF TimeInv
<1>7. \A i, j \in Mapped : PIDarray[i] = PIDarray[j] => i = j
  BY <1>0, <1>5, <1>6, OneSlot
<1>8. ASSUME NEW i \in Mapped
      PROVE  Rank(i) = Below(Mapped, i)
  <2>1. ASSUME NEW j \in ActiveSlots, j < i
        PROVE  j \in Mapped
    <3>1. j \in Displayed
      BY <1>5, <2>1, SlotFacts DEF ActiveSlots, Slot, Displayed
    <3> QED
      BY <1>4, <3>1 DEF ActiveSlots, Known
  <2>2. {j \in ActiveSlots : j < i} = {j \in Mapped : j < i}
    BY <2>1 DEF Mapped
  <2> QED
    BY <2>2 DEF Rank, Below
<1> QED
  BY <1>4, <1>6, <1>7, <1>8

(* The sorted list has the slots that the last scan found, the latest      *)
(* process first, until the next scan begins.                              *)
SortInv ==
  /\ tpc = "none" => NBpindexActive = 0
  /\ tpc \notin {"load", "test", "link", "end"} /\ ~scanlate /\ raced = {} =>
       /\ {sorted_pindex_time[k] : k \in 0 .. NBpindexActive - 1} = Known
       /\ \A j, k \in 0 .. NBpindexActive - 1 :
            j < k => ctime[PIDarray[sorted_pindex_time[j]]] > ctime[PIDarray[sorted_pindex_time[k]]]

(* The sort makes the list true. *)
LEMMA SortMakes ==
  ASSUME TypeOK, Handshake, MapInv, ListInv, FreshInv, TimeInv, EndInv, Sort
  PROVE  SortInv'
<1>. DEFINE n == Cardinality(Mapped)
<1>1. /\ tpc = "load" /\ tpc' = "done" /\ NBpindexActive' = n /\ (scanlate' <=> late # {})
      /\ UNCHANGED <<active, PIDarray, ctime, raced, late, ppc>>
  BY DEF Sort, listVars, procVars
<1> SUFFICES ASSUME raced = {}, late = {}
             PROVE  /\ {sorted_pindex_time'[k] : k \in 0 .. n - 1} = Known
                    /\ \A j, k \in 0 .. n - 1 :
                         j < k => ctime[PIDarray[sorted_pindex_time'[j]]]
                                    > ctime[PIDarray[sorted_pindex_time'[k]]]
  <2>1. Known' = Known
    BY <1>1 DEF Known
  <2> HIDE DEF n
  <2> QED
    BY <1>1, <2>1 DEF SortInv
<1>2. /\ Mapped = Known
      /\ \A i \in Mapped : pinfo[i] = PIDarray[i] /\ PIDarray[i] \in Timed
      /\ \A i, j \in Mapped : PIDarray[i] = PIDarray[j] => i = j
      /\ \A i \in Mapped : Rank(i) = Below(Mapped, i)
  BY <1>1, MappedTrue
<1>3. n \in 0 .. NS /\ NS \in Nat /\ Mapped \subseteq Slot /\ IsFiniteSet(Mapped) /\ Slot \subseteq Nat
  BY MappedFinite, SlotFacts
<1>4. /\ \A i \in Mapped : Rank(i) \in 0 .. n - 1
      /\ \A r \in 0 .. n - 1 : \E i \in Mapped : Rank(i) = r
  <2>1. Mapped \subseteq Nat
    BY <1>3
  <2>2. /\ \A i \in Mapped : Below(Mapped, i) \in 0 .. n - 1
        /\ \A r \in 0 .. n - 1 : \E i \in Mapped : Below(Mapped, i) = r
    BY <1>3, <2>1, Places
  <2> HIDE DEF n
  <2> QED
    BY <1>2, <2>2
<1>5. PICK a \in [0 .. n - 1 -> Slot], b \in Reordering(n) :
        /\ IndexArray(a, n) /\ ByTime(a, n, b)
        /\ sorted_pindex_time' = [k \in Slot |-> IF k < n THEN a[b[k]] ELSE sorted_pindex_time[k]]
  BY DEF Sort
<1> HIDE DEF n
<1>6. \A k \in 0 .. n - 1 : sorted_pindex_time'[k] = a[b[k]] /\ b[k] \in 0 .. n - 1
  <2>1. 0 .. n - 1 \subseteq Slot
    BY <1>3 DEF Slot
  <2> QED
    BY <1>3, <1>5, <2>1 DEF Reordering
<1>7. \A i \in Mapped : a[Rank(i)] = i
  BY <1>3, <1>4, <1>5 DEF IndexArray
<1>8. \A k \in 0 .. n - 1 : a[b[k]] \in Mapped /\ Rank(a[b[k]]) = b[k]
  BY <1>4, <1>6, <1>7
<1>9. {sorted_pindex_time'[k] : k \in 0 .. n - 1} = Known
  <2>1. \A i \in Mapped : \E k \in 0 .. n - 1 : a[b[k]] = i
    <3>1. n \in Nat
      BY <1>3
    <3>2. \A r \in 0 .. n - 1 : \E k \in 0 .. n - 1 : b[k] = r
      BY <1>5, <3>1, ReorderingOnto
    <3> QED
      BY <1>4, <1>7, <3>2
  <2> QED
    BY <1>2, <1>6, <1>8, <2>1
<1>10. ASSUME NEW j \in 0 .. n - 1, NEW k \in 0 .. n - 1, j < k
       PROVE  ctime[PIDarray[sorted_pindex_time'[j]]] > ctime[PIDarray[sorted_pindex_time'[k]]]
  <2>. DEFINE x == a[b[j]]
              y == a[b[k]]
  <2>1. x \in Mapped /\ y \in Mapped /\ Rank(x) = b[j] /\ Rank(y) = b[k]
    BY <1>8
  <2>2. x # y
    <3>1. b[j] # b[k]
      BY <1>3, <1>5, <1>10 DEF Reordering
    <3> QED
      BY <2>1, <3>1
  <2>3. {b[j], b[k]} \subseteq {Rank(i) : i \in Mapped}
    BY <2>1
  <2>4. ctime[pinfo[x]] >= ctime[pinfo[y]]
    BY <1>5, <1>10, <2>3 DEF ByTime
  <2>5. /\ pinfo[x] = PIDarray[x] /\ pinfo[y] = PIDarray[y] /\ PIDarray[x] # PIDarray[y]
        /\ PIDarray[x] \in Timed /\ PIDarray[y] \in Timed
    BY <1>2, <2>1, <2>2
  <2>6. ctime[PIDarray[x]] # ctime[PIDarray[y]]
    BY <2>5 DEF TimeInv
  <2>7. ctime[PIDarray[x]] \in Nat /\ ctime[PIDarray[y]] \in Nat
    BY <2>5 DEF Timed, TypeOK, ProcType
  <2>8. sorted_pindex_time'[j] = x /\ sorted_pindex_time'[k] = y
    BY <1>6
  <2> HIDE DEF x, y
  <2> QED
    BY <2>4, <2>5, <2>6, <2>7, <2>8
<1> QED
  BY <1>9, <1>10

(* A step that leaves the list of the last scan alone keeps SortInv. *)
LEMMA SortFrame ==
  ASSUME SortInv, UNCHANGED <<NBpindexActive, sorted_pindex_time, scanlate>>, raced \subseteq raced',
         tpc' = "none" => tpc = "none",
         tpc \in {"load", "test", "link", "end"} => tpc' \in {"load", "test", "link", "end"},
         raced' = {} /\ ~scanlate /\ tpc \notin {"load", "test", "link", "end"} =>
           /\ Known' = Known
           /\ \A i \in Known : PIDarray'[i] = PIDarray[i] /\ ctime'[PIDarray[i]] = ctime[PIDarray[i]]
  PROVE  SortInv'
<1>1. tpc' = "none" => NBpindexActive' = 0
  BY DEF SortInv
<1> SUFFICES ASSUME tpc' \notin {"load", "test", "link", "end"}, ~scanlate', raced' = {}
             PROVE  /\ {sorted_pindex_time'[k] : k \in 0 .. NBpindexActive' - 1} = Known'
                    /\ \A j, k \in 0 .. NBpindexActive' - 1 :
                         j < k => ctime'[PIDarray'[sorted_pindex_time'[j]]]
                                    > ctime'[PIDarray'[sorted_pindex_time'[k]]]
  BY <1>1 DEF SortInv
<1>2. tpc \notin {"load", "test", "link", "end"} /\ ~scanlate /\ raced = {}
  OBVIOUS
<1>3. /\ {sorted_pindex_time[k] : k \in 0 .. NBpindexActive - 1} = Known
      /\ \A j, k \in 0 .. NBpindexActive - 1 :
           j < k => ctime[PIDarray[sorted_pindex_time[j]]] > ctime[PIDarray[sorted_pindex_time[k]]]
  BY <1>2 DEF SortInv
<1>4. \A k \in 0 .. NBpindexActive - 1 :
        ctime'[PIDarray'[sorted_pindex_time[k]]] = ctime[PIDarray[sorted_pindex_time[k]]]
  BY <1>2, <1>3
<1>5. Known' = Known
  BY <1>2
<1> QED
  BY <1>3, <1>4, <1>5

(* The steps of a process keep SortInv: one that enters is late, and none  *)
(* in the sorted list takes a creation time.                               *)
LEMMA ProcessSort ==
  ASSUME TypeOK, ListInv, SortInv, raced \subseteq raced', NEW p \in Proc, Process(p)
  PROVE  SortInv'
<1>0. /\ NoProc \notin Proc /\ Displayed \subseteq Slot /\ slot \in [Proc -> Slot]
      /\ active \in [Slot -> {0, 1, 2}] /\ PIDarray \in [Slot -> Proc \cup {NoProc}]
      /\ ctime \in [Proc -> Nat]
  BY ScanAssumption, SlotFacts DEF TypeOK, ListType, ProcType
<1>a. UNCHANGED <<NBpindexActive, sorted_pindex_time, scanlate, tpc>>
  BY DEF Process, FindSlot, CreateList, WriteSlot, MakeFile, Activate, Die, scanVars, sortVars, history
<1>1. CASE FindSlot(p) \/ Die(p)
  <2>1. UNCHANGED <<active, PIDarray, late, ctime>>
    BY <1>1 DEF FindSlot, Die, listVars, history
  <2>2. Known' = Known
    BY <2>1 DEF Known
  <2> QED
    BY <1>a, <2>1, <2>2, SortFrame
<1>2. CASE CreateList(p)
  <2>1. created => raced' = Proc
    BY <1>2 DEF CreateList
  <2>2. ASSUME raced' = {}, ~scanlate, tpc \notin {"load", "test", "link", "end"}
        PROVE  Known = {} /\ Known' = {}
    <3>1. tpc = "none" /\ NBpindexActive = 0 /\ raced = {}
      BY <2>1, <2>2 DEF ListInv, SortInv
    <3>2. {sorted_pindex_time[k] : k \in 0 .. NBpindexActive - 1} = Known
      BY <2>2, <3>1 DEF SortInv
    <3>3. \A i \in Slot : active'[i] = 0
      BY <1>2 DEF CreateList, EmptyList
    <3> QED
      BY <1>0, <3>1, <3>2, <3>3 DEF Known
  <2> QED
    BY <1>a, <2>2, SortFrame
<1> SUFFICES ASSUME raced' = {}, WriteSlot(p) \/ MakeFile(p) \/ Activate(p)
             PROVE  /\ Known' = Known
                    /\ \A i \in Known : /\ PIDarray'[i] = PIDarray[i]
                                        /\ ctime'[PIDarray[i]] = ctime[PIDarray[i]]
  BY <1>1, <1>2, <1>a, SortFrame DEF Process
<1>3. SlotInv(p) /\ active[slot[p]] = 0 /\ slot[p] \in Slot
  BY <1>0 DEF ListInv, SlotInv, Entering, WriteSlot, MakeFile, Activate
<1>4. CASE WriteSlot(p)
  <2>1. UNCHANGED <<active, late, ctime>> /\ \A i \in Slot \ {slot[p]} : PIDarray'[i] = PIDarray[i]
    BY <1>0, <1>4 DEF WriteSlot, history
  <2> QED
    BY <1>0, <1>3, <2>1 DEF Known
<1>5. CASE MakeFile(p)
  <2>1. UNCHANGED <<active, late, PIDarray>> /\ \A q \in Proc \ {p} : ctime'[q] = ctime[q]
    BY <1>0, <1>5 DEF MakeFile, history
  <2>2. \A i \in Known : PIDarray[i] # p
    BY <1>0, <1>3 DEF ListInv, Known
  <2>3. \A i \in Known : ctime'[PIDarray[i]] = ctime[PIDarray[i]]
    <3>1. \A q \in Proc \cup {NoProc} : q # p => ctime'[q] = ctime[q]
      BY <1>0, <1>5 DEF MakeFile
    <3> QED
      BY <1>0, <2>2, <3>1 DEF Known
  <2> QED
    BY <2>1, <2>3 DEF Known
<1>6. CASE Activate(p)
  <2>1. /\ UNCHANGED <<PIDarray, ctime>> /\ late \subseteq late' /\ late' \subseteq late \cup {p}
        /\ slot[p] \in Displayed => p \in late'
        /\ active'[slot[p]] = 1 /\ \A i \in Slot \ {slot[p]} : active'[i] = active[i]
    BY <1>0, <1>3, <1>6 DEF Activate
  <2>2. PIDarray[slot[p]] = p /\ \A i \in Slot : PIDarray[i] = p => i = slot[p]
    BY <1>3, <1>6 DEF Activate, SlotInv, ListInv
  <2>3. \A i \in Displayed :
          (active'[i] # 0 /\ PIDarray[i] \notin late') <=> (active[i] # 0 /\ PIDarray[i] \notin late)
    BY <1>0, <1>3, <2>1, <2>2
  <2>4. Known' = Known
    BY <2>1, <2>3 DEF Known
  <2> QED
    BY <2>1, <2>4
<1> QED
  BY <1>4, <1>5, <1>6

(* The steps of the scan thread keep SortInv. *)
LEMMA ScanSort ==
  ASSUME TypeOK, Handshake, MapInv, ListInv, FreshInv, TimeInv, EndInv, SortInv, raced \subseteq raced', Scan
  PROVE  SortInv'
<1>1. CASE Sort
  BY <1>1, SortMakes
<1>2. CASE LoadSlot \/ TestSlot \/ LinkSlot
  <2>1. tpc' \in {"load", "test", "link", "end"}
    BY <1>2 DEF LoadSlot, TestSlot, LinkSlot, NextSlot
  <2> QED
    BY <2>1 DEF SortInv
<1>3. CASE Request \/ AwaitOK \/ Acknowledge \/ ScanDone \/ CountScan \/ Wake
  <2>1. /\ UNCHANGED <<active, PIDarray, late, ctime, NBpindexActive, sorted_pindex_time, scanlate>>
        /\ tpc \notin {"load", "test", "link", "end"} /\ tpc' # "none"
    BY <1>3 DEF Request, AwaitOK, Acknowledge, ScanDone, CountScan, Wake, listVars, procVars, sortVars,
       history
  <2>2. Known' = Known
    BY <2>1 DEF Known
  <2> QED
    BY <2>1, <2>2, SortFrame
<1> QED
  BY <1>1, <1>2, <1>3 DEF Scan

(* The steps of the screen keep SortInv. *)
LEMMA ScreenSort ==
  ASSUME TypeOK, Handshake, ListInv, SortInv, raced \subseteq raced', Screen
  PROVE  SortInv'
<1>1. CASE ~StartEmpty
  <2>1. UNCHANGED <<active, PIDarray, late, ctime, NBpindexActive, sorted_pindex_time, scanlate>>
    BY <1>1, ScreenFrame DEF sortVars
  <2>2. Known' = Known
    BY <2>1 DEF Known
  <2>3. tpc' \in {tpc, "end"} \/ (tpc = "none" /\ tpc' = "request")
    <3>1. CASE KeyStep
      BY <3>1, KeyUnchanged
    <3>2. CASE Start \/ Permit \/ FirstScan \/ TestRequest \/ Grant \/ Blocked \/ NoKey
      BY <3>2 DEF Start, Permit, FirstScan, TestRequest, Grant, Blocked, NoKey, screenRest, scanVars,
         Handshake
    <3>3. CASE Draw \/ Leave \/ Join \/ Close
      BY <3>3 DEF Draw, Gone, Leave, Join, Close, screenRest, scanVars
    <3> QED
      BY <1>1, <3>1, <3>2, <3>3 DEF Screen
  <2> QED
    BY <2>1, <2>2, <2>3, SortFrame
<1>2. CASE StartEmpty
  <2>1. /\ UNCHANGED <<late, ctime, NBpindexActive, sorted_pindex_time, scanlate, tpc>>
        /\ \A i \in Slot : active'[i] = 0
    BY <1>2 DEF StartEmpty, EmptyList, screenRest, procVars, scanVars, sortVars
  <2>2. ASSUME ~scanlate, raced' = {}
        PROVE  Known = {} /\ Known' = {}
    <3>1. tpc = "none" /\ NBpindexActive = 0 /\ raced = {}
      BY <1>2, <2>2 DEF StartEmpty, Handshake, SortInv
    <3>2. {sorted_pindex_time[k] : k \in 0 .. NBpindexActive - 1} = Known
      BY <2>2, <3>1 DEF SortInv
    <3>3. Known = {}
      BY <3>1, <3>2
    <3>4. Known' = {}
      BY <2>1, SlotFacts DEF Known
    <3> QED
      BY <3>3, <3>4
  <2> QED
    BY <2>1, <2>2, SortFrame
<1> QED
  BY <1>1, <1>2

(* Every step keeps SortInv. *)
LEMMA SortNext ==
  TypeOK /\ Handshake /\ MapInv /\ ListInv /\ FreshInv /\ TimeInv /\ EndInv /\ SortInv /\ [Next]_vars
    => SortInv'
<1> SUFFICES ASSUME TypeOK, Handshake, MapInv, ListInv, FreshInv, TimeInv, EndInv, SortInv, [Next]_vars
             PROVE  SortInv'
  OBVIOUS
<1>1. raced \subseteq raced'
  BY RacedGrows
<1>2. CASE UNCHANGED vars
  <2>1. UNCHANGED <<active, PIDarray, late, ctime, NBpindexActive, sorted_pindex_time, scanlate, tpc>>
    BY <1>2 DEF vars, listVars, procVars, scanVars, sortVars, history
  <2>2. Known' = Known
    BY <2>1 DEF Known
  <2> QED
    BY <1>1, <2>1, <2>2, SortFrame
<1> QED
  BY <1>1, <1>2, ProcessSort, ScanSort, ScreenSort DEF Next

(* At every time, for every number of processes and slots. *)
THEOREM SortInvariant == Spec => []SortInv
<1>1. Init => SortInv
  <2> SUFFICES ASSUME Init
               PROVE  SortInv
    OBVIOUS
  <2>1. NBpindexActive = 0 /\ \A i \in Slot : active[i] = 0
    BY DEF Init
  <2>2. Known = {}
    BY <2>1, SlotFacts DEF Known
  <2> QED
    BY <2>1, <2>2 DEF SortInv
<1> QED
  BY <1>1, SortNext, TypeCorrect, HandshakeInvariant, MapInvariant, ListInvariant, FreshInvariant,
     TimeInvariant, EndInvariant, PTL DEF Spec

(* The sorted list that the screen uses has each process of the last scan  *)
(* once, the latest first (SortedTrue), although its sort starts from an   *)
(* array that is only partly initialised.                                  *)
THEOREM SortedLatestFirst == Spec => []SortedTrue
<1>1. Handshake /\ EndInv /\ SortInv => SortedTrue
  <2> SUFFICES ASSUME Handshake, EndInv, SortInv, Displaying, ~scanlate, raced = {}
               PROVE  SortedTrue
    BY DEF SortedTrue
  <2>1. tpc \in Idle /\ tpc # "end"
    BY DEF Handshake, EndInv, Displaying
  <2> QED
    BY <2>1 DEF SortInv, SortedTrue, Known, Idle
<1> QED
  BY <1>1, HandshakeInvariant, EndInvariant, SortInvariant, PTL

=============================================================================
