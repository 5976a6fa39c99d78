--------------------------- MODULE FPSparam_proofs ---------------------------
(***************************************************************************)
(* Proofs about FPSparam: every index stays within its structure; as long  *)
(* as no two initialisations met, a keyword has one slot, a process that   *)
(* goes on to its loop has every entry, and of a value that was set and    *)
(* saved what its file can hold survives.                                  *)
(***************************************************************************)
EXTENDS FPSparam, TLAPS

(* The constants: what they are to each other. *)
LEMMA Constants ==
  /\ Len(Entry) \in Nat /\ 1 \in 1 .. Len(Entry)
  /\ \A i \in 1 .. Len(Entry) : Entry[i] \in Param
  /\ Given \subseteq Param
  /\ None \notin Param /\ None \notin Data /\ None # Empty /\ None \notin Gen
  /\ NBparamMAX \in Nat /\ 0 \in Slot
  /\ "gui" \notin Proc /\ "run" \notin Proc
  /\ MaxGen \in Nat /\ MaxRun \in Nat /\ MaxSet \in Nat
<1>1. Len(Entry) \in Nat /\ \A i \in 1 .. Len(Entry) : Entry[i] \in Param
  BY ParamAssumption
<1>2. None \notin Gen
  BY ParamAssumption DEF Gen
<1> QED
  BY <1>1, <1>2, ParamAssumption DEF Slot

(* Values, what files hold of them, and what is read are of one kind; a    *)
(* value that was read once is read the same again.                        *)
LEMMA DataClosed ==
  /\ \A v \in Value : v \in Data
  /\ Default \in Data /\ Argument \in Data
  /\ \A v \in Data : Printed[v] \in Data /\ Scanned[v] \in Data
  /\ \A v \in Data : Back(v) \in Data /\ Back(Back(v)) = Back(v)
<1>1. \A v \in Data : Printed[v] \in Data /\ Scanned[v] \in Data
  BY ParamAssumption
<1>2. \A v \in Data : Back(v) \in Data
  BY <1>1 DEF Back
<1> QED
  BY <1>1, <1>2, ParamAssumption

-----------------------------------------------------------------------------
(* Types.                                                                  *)

(* Values that are put are values. *)
LEMMA InitialData ==
  ASSUME NEW p PROVE InitialValue(p) \in Data
BY DataClosed DEF InitialValue

(* The first of some slots, and the slot of an entry, are slots. *)
LEMMA ChosenSlots ==
  ASSUME NEW g, NEW p
  PROVE  /\ EntrySlot(g, p) \subseteq Slot
         /\ GetParamIndex(g, p) \subseteq Slot
         /\ First(Having(g, p)) \subseteq Slot
BY DEF EntrySlot, GetParamIndex, First, Last, Having, Free

(* Ending keeps the types of what an actor has. *)
ActorType ==
  /\ pc \in [Actor -> Busy \cup {"off", "on"}]
  /\ map \in [Actor -> Gen \cup {None}] /\ slot \in [Actor -> Slot]
  /\ ent \in [Proc -> 1 .. Len(Entry)]

LEMMA GotoType ==
  ASSUME ActorType, NEW a \in Actor, NEW l \in Busy \cup {"off", "on"}, Goto(a, l)
  PROVE  pc' \in [Actor -> Busy \cup {"off", "on"}]
BY DEF Goto, ActorType

LEMMA ExitType ==
  ASSUME ActorType, NEW a \in Actor, Exit(a)
  PROVE  ActorType'
<1>1. pc' \in [Actor -> Busy \cup {"off", "on"}]
  BY GotoType DEF Exit
<1>2. /\ map' \in [Actor -> Gen \cup {None}] /\ slot' \in [Actor -> Slot]
      /\ ent' \in [Proc -> 1 .. Len(Entry)]
  BY Constants DEF Exit, ActorType
<1> QED
  BY <1>1, <1>2 DEF ActorType

(* So does going on after an entry. *)
LEMMA AfterEntryType ==
  ASSUME ActorType, NEW c \in Proc, AfterEntry(c)
  PROVE  /\ pc' \in [Actor -> Busy \cup {"off", "on"}]
         /\ ent' \in [Proc -> 1 .. Len(Entry)]
<1>1. c \in Actor
  BY DEF Actor
<1>2. pc' \in [Actor -> Busy \cup {"off", "on"}]
  BY <1>1, GotoType DEF AfterEntry, Busy
<1>3. ent[c] \in Int /\ (ent[c] < Len(Entry) => ent[c] + 1 \in 1 .. Len(Entry))
  BY Constants DEF ActorType
<1> QED
  BY <1>2, <1>3, Constants DEF AfterEntry, ActorType

(* An actor that works on a structure works on one of those made. *)
LEMMA MappedGen ==
  ASSUME ActorType, NEW a \in Actor, Mapped(a)
  PROVE  map[a] \in Gen
BY DEF ActorType, Mapped

(* The types of the rest. *)
StoreType ==
  /\ path \in Gen \cup {None} /\ size \in [Gen -> {"none", "empty", "full"}]
  /\ key \in [Gen -> [Slot -> Param \cup {None}]]
  /\ val \in [Gen -> [Slot -> Data]]
  /\ file \in [Param -> Data \cup {None, Empty}]
  /\ node \in [Param -> SUBSET Slot]

CountType ==
  /\ nrun \in 0 .. MaxRun /\ nset \in 0 .. MaxSet
  /\ want \in [Param -> Data] /\ exposed \subseteq Param
  /\ raced \in BOOLEAN

LEMMA TypeParts == TypeOK <=> ActorType /\ StoreType /\ CountType
BY DEF TypeOK, ActorType, StoreType, CountType

(* An initialisation keeps the types. *)
LEMMA InitStepType ==
  ASSUME TypeOK, NEW c \in Proc, InitStep(c)
  PROVE  TypeOK'
<1>1. ActorType /\ StoreType /\ CountType /\ c \in Actor
  BY TypeParts DEF Actor
<1>2. CASE Remove(c)
  <2>1. ActorType'
    BY <1>1, <1>2, GotoType DEF Remove, ActorType, Busy
  <2>2. StoreType' /\ CountType'
    BY <1>1, <1>2 DEF Remove, StoreType, CountType, history
  <2> QED
    BY <2>1, <2>2 DEF TypeOK, ActorType, StoreType, CountType
<1>3. CASE Open(c)
  <2>1. PICK g \in Gen : /\ path' = g /\ size' = [size EXCEPT ![g] = "empty"]
                         /\ map' = [map EXCEPT ![c] = g]
                         /\ key' = [key EXCEPT ![g] = [s \in Slot |-> None]]
                         /\ val' = [val EXCEPT ![g] = [s \in Slot |-> Default]]
    BY <1>3 DEF Open
  <2>2. ActorType'
    BY <1>1, <1>3, <2>1, GotoType DEF Open, ActorType, Busy
  <2>3. StoreType'
    BY <1>1, <1>3, <2>1, DataClosed DEF Open, StoreType
  <2>4. CountType'
    BY <1>1, <1>3 DEF Open, CountType, history
  <2> QED
    BY <2>2, <2>3, <2>4 DEF TypeOK, ActorType, StoreType, CountType
<1>4. CASE Fill(c)
  <2>1. ActorType'
    BY <1>1, <1>4, GotoType DEF Fill, ActorType, Busy
  <2>2. StoreType' /\ CountType'
    BY <1>1, <1>4 DEF Fill, StoreType, CountType, history
  <2> QED
    BY <2>1, <2>2 DEF TypeOK, ActorType, StoreType, CountType
<1>5. CASE Connect(c)
  <2>1. ActorType'
    <3>1. CASE path = None /\ Goto(c, "open") /\ UNCHANGED <<map, slot, ent>>
      BY <1>1, <3>1, GotoType DEF ActorType, Busy
    <3>2. CASE /\ path # None
               /\ map' = [map EXCEPT ![c] = path] /\ Goto(c, "find") /\ UNCHANGED <<slot, ent>>
      BY <1>1, <3>2, GotoType DEF ActorType, StoreType, Busy
    <3>3. CASE Exit(c)
      BY <1>1, <3>3, ExitType
    <3> QED
      BY <1>5, <3>1, <3>2, <3>3 DEF Connect
  <2>2. StoreType' /\ CountType'
    BY <1>1, <1>5 DEF Connect, StoreType, CountType, history, shmVars
  <2> QED
    BY <2>1, <2>2 DEF TypeOK, ActorType, StoreType, CountType
<1>6. CASE FindEntry(c)
  <2>1. ActorType'
    <3>1. CASE \E s \in EntrySlot(map[c], Entry[ent[c]]) :
                 Goto(c, "set") /\ slot' = [slot EXCEPT ![c] = s] /\ UNCHANGED <<map, ent>>
      BY <1>1, <3>1, GotoType, ChosenSlots DEF ActorType, Busy
    <3>2. CASE Exit(c)
      BY <1>1, <3>2, ExitType
    <3> QED
      BY <1>6, <3>1, <3>2 DEF FindEntry
  <2>2. StoreType' /\ CountType'
    BY <1>1, <1>6 DEF FindEntry, StoreType, CountType, history, shmVars
  <2> QED
    BY <2>1, <2>2 DEF TypeOK, ActorType, StoreType, CountType
<1>7. CASE SetEntry(c)
  <2>1. ActorType'
    BY <1>1, <1>7, GotoType DEF SetEntry, ActorType, Busy
  <2>2. Entry[ent[c]] \in Param /\ map[c] \in Gen
    BY <1>1, <1>7, Constants, MappedGen DEF ActorType, SetEntry
  <2>3. StoreType'
    BY <1>1, <1>7, <2>2, InitialData DEF SetEntry, StoreType
  <2>4. CountType'
    BY <1>1, <1>7, <2>2 DEF SetEntry, CountType
  <2> QED
    BY <2>1, <2>3, <2>4 DEF TypeOK, ActorType, StoreType, CountType
<1>8. CASE ReadFile(c)
  <2>1. Entry[ent[c]] \in Param /\ map[c] \in Gen
    BY <1>1, <1>8, Constants, MappedGen DEF ActorType, ReadFile
  <2>2. ActorType'
    <3>1. CASE AfterEntry(c)
      BY <1>1, <1>8, <3>1, AfterEntryType DEF ActorType, ReadFile
    <3>2. CASE Goto(c, "trunc") /\ UNCHANGED ent
      BY <1>1, <1>8, <3>2, GotoType DEF ActorType, ReadFile, Busy
    <3> QED
      BY <1>8, <3>1, <3>2 DEF ReadFile
  <2>3. StoreType'
    <3>1. Contents(Entry[ent[c]]) \notin {None, Empty} => file[Entry[ent[c]]] \in Data
      BY <1>1, <2>1 DEF Contents, StoreType
    <3>2. val' = [val EXCEPT ![map[c]][slot[c]] = Scanned[file[Entry[ent[c]]]]] \/ val' = val
      BY <1>8 DEF ReadFile
    <3>3. Contents(Entry[ent[c]]) \in {None, Empty} => val' = val
      BY <1>8 DEF ReadFile
    <3>4. val' \in [Gen -> [Slot -> Data]]
      <4>1. CASE val' = val
        BY <1>1, <4>1 DEF StoreType
      <4>2. CASE /\ file[Entry[ent[c]]] \in Data
                 /\ val' = [val EXCEPT ![map[c]][slot[c]] = Scanned[file[Entry[ent[c]]]]]
        <5> DEFINE v == Scanned[file[Entry[ent[c]]]]
        <5>1. val' = [val EXCEPT ![map[c]][slot[c]] = v] /\ v \in Data
          BY <4>2, DataClosed
        <5> HIDE DEF v
        <5> QED
          BY <1>1, <2>1, <5>1 DEF StoreType
      <4> QED
        BY <3>1, <3>2, <3>3, <4>1, <4>2
    <3> QED
      BY <1>1, <1>8, <3>4 DEF ReadFile, StoreType
  <2>4. CountType'
    BY <1>1, <1>8, <2>1 DEF ReadFile, CountType
  <2> QED
    BY <2>2, <2>3, <2>4 DEF TypeOK, ActorType, StoreType, CountType
<1> QED
  BY <1>2, <1>3, <1>4, <1>5, <1>6, <1>7, <1>8 DEF InitStep

(* So do fpsCTRL and the RUN process. *)
LEMMA ToldType ==
  ASSUME ActorType, StoreType, CountType, NEW a \in Actor, Mapped(a), NEW p \in Param,
         NEW s \in Slot, NEW v \in Data, Told(a, p, s, v)
  PROVE  /\ val' \in [Gen -> [Slot -> Data]]
         /\ nset' \in 0 .. MaxSet /\ want' \in [Param -> Data]
BY MappedGen, Constants DEF Told, StoreType, CountType

LEMMA ExposeType ==
  ASSUME CountType, NEW a, NEW p \in Param, NEW clean, Expose(a, p, clean)
  PROVE  exposed' \subseteq Param
BY DEF Expose, CountType

LEMMA GuiType ==
  ASSUME TypeOK,
         \/ \E p \in Param, v \in Value : GuiSetval(p, v) \/ GuiEdit(p, v)
         \/ GuiScan \/ GuiErase
  PROVE  TypeOK'
<1>1. ActorType /\ StoreType /\ CountType /\ "gui" \in Actor /\ \A v \in Value : v \in Data
  BY TypeParts, DataClosed DEF Actor
<1>2. ASSUME NEW p \in Param, NEW v \in Value, GuiSetval(p, v)
      PROVE  TypeOK'
  <2>1. PICK s \in GetParamIndex(map["gui"], p) : Told("gui", p, s, v)
    BY <1>2 DEF GuiSetval
  <2>2. PICK n \in node[p] : slot' = [slot EXCEPT !["gui"] = n]
    BY <1>2 DEF GuiSetval
  <2>3. s \in Slot /\ n \in Slot
    BY <1>1, ChosenSlots DEF StoreType
  <2>4. /\ val' \in [Gen -> [Slot -> Data]]
        /\ nset' \in 0 .. MaxSet /\ want' \in [Param -> Data]
    BY <1>1, <1>2, <2>1, <2>3, ToldType DEF GuiSetval
  <2>5. exposed' \subseteq Param
    BY <1>1, <1>2, ExposeType DEF GuiSetval
  <2>6. ActorType'
    BY <1>1, <1>2, <2>2, <2>3, GotoType DEF GuiSetval, ActorType, Busy
  <2>7. StoreType'
    BY <1>1, <1>2, <2>4 DEF GuiSetval, StoreType
  <2>8. CountType'
    BY <1>1, <1>2, <2>4, <2>5 DEF GuiSetval, CountType
  <2> QED
    BY <2>6, <2>7, <2>8 DEF TypeOK, ActorType, StoreType, CountType
<1>3. ASSUME NEW p \in Param, NEW v \in Value, GuiEdit(p, v)
      PROVE  TypeOK'
  <2>1. PICK s \in node[p] : Told("gui", p, s, v) /\ slot' = [slot EXCEPT !["gui"] = s]
    BY <1>3 DEF GuiEdit
  <2>2. s \in Slot
    BY <1>1 DEF StoreType
  <2>3. /\ val' \in [Gen -> [Slot -> Data]]
        /\ nset' \in 0 .. MaxSet /\ want' \in [Param -> Data]
    BY <1>1, <1>3, <2>1, <2>2, ToldType DEF GuiEdit
  <2>4. exposed' \subseteq Param
    BY <1>1, <1>3, ExposeType DEF GuiEdit
  <2>5. pc' \in [Actor -> Busy \cup {"off", "on"}]
    BY <1>1, <1>3, GotoType DEF GuiEdit, ActorType, Busy
  <2>6. ActorType'
    BY <1>1, <1>3, <2>1, <2>2, <2>5 DEF GuiEdit, ActorType
  <2>7. StoreType'
    BY <1>1, <1>3, <2>3 DEF GuiEdit, StoreType
  <2>8. CountType'
    BY <1>1, <1>3, <2>3, <2>4 DEF GuiEdit, CountType
  <2> QED
    BY <2>6, <2>7, <2>8 DEF TypeOK, ActorType, StoreType, CountType
<1>4. CASE GuiScan
  <2>1. ActorType'
    <3>1. CASE Exit("gui")
      BY <1>1, <3>1, ExitType
    <3>2. CASE /\ \/ map' = [map EXCEPT !["gui"] = None]
                  \/ path # None /\ map' = [map EXCEPT !["gui"] = path]
               /\ Goto("gui", "on") /\ UNCHANGED <<slot, ent>>
      <4>1. map' \in [Actor -> Gen \cup {None}]
        BY <1>1, <3>2 DEF ActorType, StoreType
      <4> QED
        BY <1>1, <3>2, <4>1, GotoType DEF ActorType
    <3> QED
      BY <1>4, <3>1, <3>2 DEF GuiScan
  <2>2. node' \in [Param -> SUBSET Slot]
    BY <1>4, ChosenSlots DEF GuiScan
  <2>3. StoreType' /\ CountType'
    BY <1>1, <1>4, <2>2 DEF GuiScan, StoreType, CountType, history, shmVars
  <2> QED
    BY <2>1, <2>3 DEF TypeOK, ActorType, StoreType, CountType
<1>5. CASE GuiErase
  <2>1. ActorType'
    BY <1>1, <1>5 DEF GuiErase, ActorType
  <2>2. StoreType' /\ CountType'
    BY <1>1, <1>5 DEF GuiErase, StoreType, CountType, history
  <2> QED
    BY <2>1, <2>2 DEF TypeOK, ActorType, StoreType, CountType
<1> QED
  BY <1>2, <1>3, <1>4, <1>5

LEMMA RunType ==
  ASSUME TypeOK,
         \/ RunConnect
         \/ \E p \in Param : RunSave(p) \/ \E v \in Value : RunSet(p, v)
  PROVE  TypeOK'
<1>1. ActorType /\ StoreType /\ CountType /\ "run" \in Actor /\ \A v \in Value : v \in Data
  BY TypeParts, DataClosed DEF Actor
<1>2. CASE RunConnect
  <2>1. map' \in [Actor -> Gen \cup {None}]
    BY <1>1, <1>2 DEF RunConnect, ActorType, StoreType
  <2>2. ActorType'
    BY <1>1, <1>2, <2>1, GotoType DEF RunConnect, ActorType
  <2>3. StoreType' /\ CountType'
    BY <1>1, <1>2 DEF RunConnect, StoreType, CountType, history, shmVars
  <2> QED
    BY <2>2, <2>3 DEF TypeOK, ActorType, StoreType, CountType
<1>3. ASSUME NEW p \in Param, NEW v \in Value, RunSet(p, v)
      PROVE  TypeOK'
  <2>1. CASE Exit("run") /\ UNCHANGED <<nset, val, want, exposed>>
    <3>1. ActorType'
      BY <1>1, <2>1, ExitType
    <3>2. StoreType' /\ CountType'
      BY <1>1, <1>3, <2>1 DEF RunSet, StoreType, CountType
    <3> QED
      BY <3>1, <3>2 DEF TypeOK, ActorType, StoreType, CountType
  <2>2. CASE /\ \E s \in GetParamIndex(map["run"], p) : Told("run", p, s, v)
             /\ Expose("run", p, FALSE) /\ UNCHANGED <<pc, map, slot, ent>>
    <3>1. PICK s \in GetParamIndex(map["run"], p) : Told("run", p, s, v)
      BY <2>2
    <3>2. /\ val' \in [Gen -> [Slot -> Data]]
          /\ nset' \in 0 .. MaxSet /\ want' \in [Param -> Data]
      BY <1>1, <1>3, <3>1, ChosenSlots, ToldType DEF RunSet
    <3>3. exposed' \subseteq Param
      BY <1>1, <2>2, ExposeType
    <3>4. ActorType'
      BY <1>1, <2>2 DEF ActorType
    <3>5. StoreType' /\ CountType'
      BY <1>1, <1>3, <3>2, <3>3 DEF RunSet, StoreType, CountType
    <3> QED
      BY <3>4, <3>5 DEF TypeOK, ActorType, StoreType, CountType
  <2> QED
    BY <1>3, <2>1, <2>2 DEF RunSet
<1>4. ASSUME NEW p \in Param, RunSave(p)
      PROVE  TypeOK'
  <2>1. CASE Exit("run") /\ UNCHANGED exposed
    <3>1. ActorType'
      BY <1>1, <2>1, ExitType
    <3>2. StoreType' /\ CountType'
      BY <1>1, <1>4, <2>1 DEF RunSave, StoreType, CountType, shmVars
    <3> QED
      BY <3>1, <3>2 DEF TypeOK, ActorType, StoreType, CountType
  <2>2. ASSUME NEW s \in GetParamIndex(map["run"], p),
               Goto("run", "trunc"), slot' = [slot EXCEPT !["run"] = s],
               UNCHANGED <<map, ent>>, Expose("run", p, val[map["run"]][s] \in Left(p))
        PROVE  TypeOK'
    <3>1. s \in Slot
      BY ChosenSlots
    <3>2. exposed' \subseteq Param
      BY <1>1, <2>2, ExposeType
    <3>3. ActorType'
      BY <1>1, <2>2, <3>1, GotoType DEF ActorType, Busy
    <3>4. StoreType' /\ CountType'
      BY <1>1, <1>4, <3>2 DEF RunSave, StoreType, CountType, shmVars
    <3> QED
      BY <3>3, <3>4 DEF TypeOK, ActorType, StoreType, CountType
  <2> QED
    BY <1>4, <2>1, <2>2 DEF RunSave
<1> QED
  BY <1>2, <1>3, <1>4

(* So do the start, the saving and the end of an actor. *)
LEMMA ActorStepType ==
  ASSUME TypeOK,
         \/ \E c \in Proc, l \in {"remove", "connect"} : Setup(c, l)
         \/ \E a \in Actor : Truncate(a) \/ Write(a) \/ Die(a)
  PROVE  TypeOK'
<1>1. ActorType /\ StoreType /\ CountType
  BY TypeParts
<1>2. ASSUME NEW c \in Proc, NEW l \in {"remove", "connect"}, Setup(c, l)
      PROVE  TypeOK'
  <2>1. ActorType'
    BY <1>1, <1>2, GotoType DEF Setup, ActorType, Busy, Actor
  <2>2. nrun' \in 0 .. MaxRun
    BY <1>1, <1>2, Constants DEF Setup, CountType
  <2>3. raced' \in BOOLEAN
    BY <1>2 DEF Setup
  <2>4. StoreType' /\ CountType'
    BY <1>1, <1>2, <2>2, <2>3 DEF Setup, StoreType, CountType, shmVars
  <2> QED
    BY <2>1, <2>4 DEF TypeOK, ActorType, StoreType, CountType
<1>3. ASSUME NEW a \in Actor, Truncate(a)
      PROVE  TypeOK'
  <2>1. ActorType'
    BY <1>1, <1>3, GotoType DEF Truncate, ActorType, Busy
  <2>2. StoreType' /\ CountType'
    BY <1>1, <1>3 DEF Truncate, StoreType, CountType, shmVars, history
  <2> QED
    BY <2>1, <2>2 DEF TypeOK, ActorType, StoreType, CountType
<1>4. ASSUME NEW a \in Actor, Write(a)
      PROVE  TypeOK'
  <2>3. ActorType'
    <3>1. \/ a \in Proc /\ AfterEntry(a)
          \/ Goto(a, "on") /\ UNCHANGED ent
      BY <1>4 DEF Write
    <3>2. UNCHANGED <<map, slot>>
      BY <1>4 DEF Write
    <3>3. CASE a \in Proc /\ AfterEntry(a)
      BY <1>1, <3>2, <3>3, AfterEntryType DEF ActorType
    <3>4. CASE Goto(a, "on") /\ UNCHANGED ent
      BY <1>1, <3>2, <3>4, GotoType DEF ActorType
    <3> QED
      BY <3>1, <3>3, <3>4
  <2>4. val[map[a]][slot[a]] \in Data /\ Printed[val[map[a]][slot[a]]] \in Data
    BY <1>1, <1>4, MappedGen, DataClosed DEF Write, StoreType, ActorType
  <2>5. StoreType' /\ CountType'
    BY <1>1, <1>4, <2>4 DEF Write, StoreType, CountType, shmVars, history
  <2> QED
    BY <2>3, <2>5 DEF TypeOK, ActorType, StoreType, CountType
<1>5. ASSUME NEW a \in Actor, Die(a)
      PROVE  TypeOK'
  <2>1. ActorType'
    BY <1>1, <1>5, ExitType DEF Die
  <2>2. exposed' \subseteq Param
    BY <1>1, <1>5 DEF Die, CountType
  <2>3. StoreType' /\ CountType'
    BY <1>1, <1>5, <2>2 DEF Die, StoreType, CountType, shmVars
  <2> QED
    BY <2>1, <2>3 DEF TypeOK, ActorType, StoreType, CountType
<1> QED
  BY <1>2, <1>3, <1>4, <1>5

(* The variables keep their types: every slot that an actor works on is    *)
(* one of the structure, and every value a value, whoever initialises,     *)
(* sets, saves, removes or dies when (function_parameters.c:1490-1511).    *)
THEOREM TypeCorrect == Spec => []TypeOK
<1>1. Init => TypeOK
  <2> SUFFICES ASSUME Init PROVE TypeOK
    OBVIOUS
  <2>1. ActorType /\ StoreType
    BY Constants, DataClosed DEF Init, ActorType, StoreType
  <2>2. want \in [Param -> Data] /\ exposed \subseteq Param /\ raced \in BOOLEAN
    BY DataClosed DEF Init
  <2>3. CountType
    BY <2>2, Constants DEF Init, CountType
  <2> QED
    BY <2>1, <2>3, TypeParts
<1>2. TypeOK /\ [Next]_vars => TypeOK'
  <2> SUFFICES ASSUME TypeOK, [Next]_vars PROVE TypeOK'
    OBVIOUS
  <2>1. CASE Next
    BY <2>1, InitStepType, GuiType, RunType, ActorStepType DEF Next
  <2>2. CASE UNCHANGED vars
    BY <2>2 DEF vars, shmVars, actVars, history, TypeOK
  <2> QED
    BY <2>1, <2>2
<1> QED
  BY <1>1, <1>2, PTL DEF Spec

-----------------------------------------------------------------------------
(* Slots and entries, as long as no two initialisations met.               *)

(* At most one process initialises. *)
Alone == \A c, d \in Proc : pc[c] \in Busy /\ pc[d] \in Busy => c = d

(* What is reached by name, or mapped, was made; a name is free when its   *)
(* file is opened.                                                         *)
Made ==
  /\ path # None => size[path] # "none"
  /\ \A a \in Actor : map[a] # None => size[map[a]] # "none"
  /\ \A c \in Proc : pc[c] = "open" => path = None

(* A keyword has one slot. *)
Distinct == \A g \in Gen : \A s, t \in Slot : key[g][s] = key[g][t] /\ key[g][s] # None => s = t

(* Some slot of g has keyword p. *)
Taken(g, p) == \E s \in Slot : key[g][s] = p

(* How far the initialisation of c has come: the entries before the one it *)
(* is at are there, and the slot it works on is still the one to take.     *)
Progress(c) ==
  /\ pc[c] \in {"off", "remove", "open", "fill", "connect"} => ent[c] = 1
  /\ pc[c] \in {"find", "set", "read", "trunc", "write", "on"} => map[c] # None
  /\ pc[c] = "set" =>
       \/ key[map[c]][slot[c]] = Entry[ent[c]]
       \/ key[map[c]][slot[c]] = None /\ ~Taken(map[c], Entry[ent[c]])
  /\ pc[c] \in {"find", "set", "read", "trunc", "write"} =>
       \A i \in 1 .. Len(Entry) : i < ent[c] => Taken(map[c], Entry[i])
  /\ pc[c] \in {"read", "trunc", "write"} => Taken(map[c], Entry[ent[c]])
  /\ pc[c] = "on" => \A i \in 1 .. Len(Entry) : Taken(map[c], Entry[i])

RaceFree == Alone /\ Made /\ Distinct /\ \A c \in Proc : Progress(c)

(* a goes on with what it had, or has ended. *)
Same(a) ==
  /\ pc'[a] = pc[a] /\ map'[a] = map[a] /\ slot'[a] = slot[a]
  /\ a \in Proc => ent'[a] = ent[a]

Ended(a) == pc'[a] = "off" /\ map'[a] = None /\ (a \in Proc => ent'[a] = 1)

LEMMA ExitEnds ==
  ASSUME TypeOK, NEW a \in Actor, Exit(a)
  PROVE  Ended(a) /\ \A b \in Actor : b # a => Same(b)
BY DEF TypeOK, Exit, Goto, Ended, Same

(* Steps that leave the slots alone and the initialisations where they are,*)
(* or end them.                                                            *)
LEMMA Frame ==
  ASSUME TypeOK, RaceFree,
         UNCHANGED <<size, key>>, path' \in {path, None},
         \A c \in Proc : Same(c) \/ Ended(c),
         \A a \in {"gui", "run"} : map'[a] \in {map[a], None, path}
  PROVE  RaceFree'
<1>1. Alone'
  BY DEF RaceFree, Alone, Same, Ended, Busy
<1>2. Made'
  <2>1. \A a \in Actor : map'[a] \in {map[a], None, path}
    BY DEF Actor, Same, Ended
  <2> QED
    BY <2>1 DEF RaceFree, Made, Same, Ended
<1>3. Distinct'
  BY DEF RaceFree, Distinct
<1>4. ASSUME NEW c \in Proc
      PROVE  Progress(c)'
  <2>1. CASE Same(c)
    BY <2>1 DEF RaceFree, Progress, Same, Taken
  <2>2. CASE Ended(c)
    BY <2>2 DEF Progress, Ended
  <2> QED
    BY <2>1, <2>2
<1> QED
  BY <1>1, <1>2, <1>3, <1>4 DEF RaceFree

(* Steps of one initialisation that leave the slots alone. *)
LEMMA OneStep ==
  ASSUME TypeOK, RaceFree, NEW c \in Proc, pc[c] \in Busy,
         UNCHANGED key,
         path' \in {path, None}, pc'[c] = "open" => path' = None,
         \A g \in Gen : size[g] # "none" => size'[g] # "none",
         map'[c] \in {map[c], None, path},
         \A b \in Actor : b # c => Same(b),
         Progress(c)'
  PROVE  RaceFree'
<1>1. Proc \subseteq Actor
  BY DEF Actor
<1>2. Alone'
  BY <1>1 DEF RaceFree, Alone, Same
<1>3. Made'
  <2>1. path' # None => size'[path'] # "none"
    BY DEF RaceFree, Made, TypeOK
  <2>2. \A a \in Actor : map'[a] # None => size'[map'[a]] # "none"
    BY <1>1 DEF RaceFree, Made, Same, TypeOK
  <2>3. \A d \in Proc : pc'[d] = "open" => path' = None
    BY <1>1 DEF RaceFree, Made, Same
  <2> QED
    BY <2>1, <2>2, <2>3 DEF Made
<1>4. Distinct'
  BY DEF RaceFree, Distinct
<1>5. ASSUME NEW d \in Proc, d # c
      PROVE  Progress(d)'
  BY <1>1, <1>5 DEF RaceFree, Progress, Same, Taken
<1> QED
  BY <1>2, <1>3, <1>4, <1>5 DEF RaceFree

(* An initialisation begins: no other is under way. *)
LEMMA SetupRaceFree ==
  ASSUME TypeOK, RaceFree, NEW c \in Proc, NEW l \in {"remove", "connect"}, Setup(c, l), ~raced'
  PROVE  RaceFree'
<1>1. \A d \in Proc : pc[d] \notin Busy
  BY DEF Setup
<1>2. /\ pc[c] = "off" /\ pc'[c] = l /\ \A a \in Actor : a # c => pc'[a] = pc[a]
      /\ UNCHANGED <<path, size, key, map, slot, ent>>
  BY DEF Setup, Goto, TypeOK, Actor, shmVars
<1>3. Proc \subseteq Actor
  BY DEF Actor
<1>4. Alone'
  BY <1>1, <1>2, <1>3 DEF Alone
<1>5. Made' /\ Distinct'
  BY <1>2, <1>3 DEF RaceFree, Made, Distinct
<1>6. ASSUME NEW d \in Proc
      PROVE  Progress(d)'
  <2>1. CASE d = c
    BY <1>2, <2>1 DEF RaceFree, Progress
  <2>2. CASE d # c
    BY <1>2, <1>3, <2>2 DEF RaceFree, Progress, Taken
  <2> QED
    BY <2>1, <2>2
<1> QED
  BY <1>4, <1>5, <1>6 DEF RaceFree

(* A structure is made: nobody has mapped it yet. *)
LEMMA OpenRaceFree ==
  ASSUME TypeOK, RaceFree, NEW c \in Proc, Open(c)
  PROVE  RaceFree'
<1>1. Proc \subseteq Actor /\ pc[c] = "open" /\ path = None
  BY DEF Open, Actor, RaceFree, Made
<1>2. PICK g \in Gen : /\ size[g] = "none"
                       /\ path' = g /\ size' = [size EXCEPT ![g] = "empty"]
                       /\ map' = [map EXCEPT ![c] = g]
                       /\ key' = [key EXCEPT ![g] = [s \in Slot |-> None]]
  BY <1>1 DEF Open
<1>3. pc'[c] = "fill" /\ map'[c] = g /\ \A a \in Actor : a # c => Same(a)
  BY <1>1, <1>2 DEF Open, Goto, TypeOK, Same
<1>4. ent'[c] = ent[c]
  BY DEF Open
<1>5. Alone'
  BY <1>1, <1>3 DEF RaceFree, Alone, Same, Busy
<1>6. Made'
  <2>1. path' # None => size'[path'] # "none"
    BY <1>2 DEF TypeOK
  <2>2. \A a \in Actor : map'[a] # None => size'[map'[a]] # "none"
    BY <1>1, <1>2, <1>3 DEF RaceFree, Made, Same, TypeOK
  <2>3. \A d \in Proc : pc'[d] # "open"
    <3>1. \A d \in Proc : pc[d] = "open" => d = c
      BY <1>1 DEF RaceFree, Alone, Busy
    <3> QED
      BY <1>1, <1>3, <3>1 DEF Same
  <2> QED
    BY <2>1, <2>2, <2>3 DEF Made
<1>7. Distinct'
  BY <1>2 DEF RaceFree, Distinct, TypeOK
<1>8. ASSUME NEW d \in Proc, d # c
      PROVE  Progress(d)'
  <2>1. map[d] # g /\ (map[d] # None => map[d] \in Gen /\ key'[map[d]] = key[map[d]])
    BY <1>1, <1>2, Constants DEF RaceFree, Made, TypeOK
  <2> QED
    BY <1>1, <1>3, <1>8, <2>1 DEF RaceFree, Progress, Same, Taken
<1>9. Progress(c)'
  BY <1>1, <1>3, <1>4 DEF RaceFree, Progress
<1> QED
  BY <1>5, <1>6, <1>7, <1>8, <1>9 DEF RaceFree

(* An entry is set: its keyword was in the slot, or nowhere. *)
LEMMA SetRaceFree ==
  ASSUME TypeOK, RaceFree, NEW c \in Proc, SetEntry(c)
  PROVE  RaceFree'
<1> DEFINE g == map[c]
<1> DEFINE s == slot[c]
<1> DEFINE p == Entry[ent[c]]
<1>1. Proc \subseteq Actor /\ g \in Gen /\ s \in Slot /\ p \in Param /\ pc[c] = "set"
  BY Constants DEF SetEntry, Mapped, TypeOK, Actor
<1>2. key' = [key EXCEPT ![g][s] = p]
  BY DEF SetEntry
<1>3. /\ pc'[c] = "read" /\ UNCHANGED <<path, size, map, slot, ent>>
      /\ \A a \in Actor : a # c => Same(a)
  BY <1>1 DEF SetEntry, Goto, TypeOK, Same
<1>4. \/ key[g][s] = p
      \/ key[g][s] = None /\ ~Taken(g, p)
  BY <1>1 DEF RaceFree, Progress
<1>5. /\ key'[g][s] = p
      /\ \A h \in Gen, u \in Slot : h # g \/ u # s => key'[h][u] = key[h][u]
  BY <1>1, <1>2 DEF TypeOK
<1> HIDE DEF g, s, p
<1>6. Alone'
  BY <1>1, <1>3 DEF RaceFree, Alone, Same, Busy
<1>7. Made'
  BY <1>1, <1>3 DEF RaceFree, Made, Same
<1>8. Distinct'
  <2> SUFFICES ASSUME NEW h \in Gen, NEW u \in Slot, NEW v \in Slot,
                      key'[h][u] = key'[h][v], key'[h][u] # None, u # v
               PROVE  FALSE
    BY DEF Distinct
  <2>1. h = g /\ (u = s \/ v = s)
    BY <1>5 DEF RaceFree, Distinct
  <2>2. PICK w \in Slot : w # s /\ key[g][w] = p
    BY <1>5, <2>1
  <2>3. key[g][s] = p
    BY <1>4, <2>2 DEF Taken
  <2> QED
    BY <1>1, <2>2, <2>3, Constants DEF RaceFree, Distinct
<1>9. ASSUME NEW h \in Gen, NEW q \in Param, Taken(h, q)
      PROVE  \E u \in Slot : key'[h][u] = q
  <2>1. PICK u \in Slot : key[h][u] = q
    BY <1>9 DEF Taken
  <2>2. CASE h = g /\ u = s
    BY <1>1, <1>4, <1>5, <2>1, <2>2, Constants
  <2> QED
    BY <1>5, <2>1, <2>2
<1>10. ASSUME NEW d \in Proc, d # c
       PROVE  Progress(d)'
  <2>1. pc[d] \notin {"find", "set", "read", "trunc", "write"}
    BY <1>1, <1>10 DEF RaceFree, Alone, Busy
  <2>2. pc'[d] = pc[d] /\ map'[d] = map[d] /\ ent'[d] = ent[d]
    BY <1>1, <1>3, <1>10 DEF Same
  <2>3. pc[d] = "on" => /\ map[d] \in Gen
                        /\ \A i \in 1 .. Len(Entry) : \E u \in Slot : key'[map[d]][u] = Entry[i]
    <3> SUFFICES ASSUME pc[d] = "on"
                 PROVE  /\ map[d] \in Gen
                        /\ \A i \in 1 .. Len(Entry) : \E u \in Slot : key'[map[d]][u] = Entry[i]
      OBVIOUS
    <3>1. map[d] # None /\ \A i \in 1 .. Len(Entry) : Taken(map[d], Entry[i])
      BY DEF RaceFree, Progress
    <3>2. map[d] \in Gen
      BY <1>1, <3>1 DEF TypeOK
    <3> QED
      BY <1>9, <3>1, <3>2, Constants
  <2> QED
    BY <2>1, <2>2, <2>3 DEF RaceFree, Progress, Taken
<1>11. Progress(c)'
  <2>1. \E u \in Slot : key'[g][u] = p
    BY <1>1, <1>5
  <2>2. \A i \in 1 .. Len(Entry) : i < ent[c] => \E u \in Slot : key'[g][u] = Entry[i]
    <3>1. \A i \in 1 .. Len(Entry) : i < ent[c] => Taken(g, Entry[i]) /\ Entry[i] \in Param
      BY <1>1, Constants DEF RaceFree, Progress, g
    <3> QED
      BY <1>1, <1>9, <3>1
  <2>3. map[c] # None /\ map'[c] = map[c] /\ ent'[c] = ent[c]
    BY <1>1, <1>3, Constants DEF g
  <2> QED
    BY <1>3, <2>1, <2>2, <2>3 DEF Progress, Taken, g, p
<1> QED
  BY <1>6, <1>7, <1>8, <1>10, <1>11 DEF RaceFree

(* Going on after an entry, which is there, or to the rest of its steps. *)
LEMMA NextEntry ==
  ASSUME TypeOK, RaceFree, NEW c \in Proc, pc[c] \in {"read", "trunc", "write"},
         UNCHANGED <<path, size, key, map, slot>>,
         \/ AfterEntry(c)
         \/ UNCHANGED ent /\ \E l \in {"trunc", "write"} : Goto(c, l)
  PROVE  RaceFree'
<1>1. c \in Actor /\ ent[c] \in 1 .. Len(Entry) /\ Len(Entry) \in Nat
  BY Constants DEF TypeOK, Actor
<1>2. /\ map[c] # None /\ Taken(map[c], Entry[ent[c]])
      /\ \A i \in 1 .. Len(Entry) : i < ent[c] => Taken(map[c], Entry[i])
  BY DEF RaceFree, Progress
<1>3. \A i \in 1 .. Len(Entry) : i < ent[c] + 1 => Taken(map[c], Entry[i])
  BY <1>1, <1>2
<1>4. \A a \in Actor : a # c => Same(a)
  BY <1>1 DEF AfterEntry, Goto, TypeOK, Same
<1>5. CASE ent[c] < Len(Entry) /\ AfterEntry(c)
  <2>1. pc'[c] = "find" /\ ent'[c] = ent[c] + 1
    BY <1>1, <1>5 DEF AfterEntry, Goto, TypeOK
  <2>2. Progress(c)'
    BY <1>2, <1>3, <2>1 DEF Progress, Taken
  <2> QED
    BY <1>1, <1>4, <2>1, <2>2, OneStep DEF Busy
<1>6. CASE ~(ent[c] < Len(Entry)) /\ AfterEntry(c)
  <2>1. pc'[c] = "on" /\ ent'[c] = 1
    BY <1>1, <1>6 DEF AfterEntry, Goto, TypeOK
  <2>2. \A i \in 1 .. Len(Entry) : Taken(map[c], Entry[i])
    BY <1>1, <1>3, <1>6
  <2>3. Progress(c)'
    BY <1>2, <2>1, <2>2 DEF Progress, Taken
  <2> QED
    BY <1>1, <1>4, <2>1, <2>3, OneStep DEF Busy
<1>7. CASE UNCHANGED ent /\ \E l \in {"trunc", "write"} : Goto(c, l)
  <2>1. pc'[c] \in {"trunc", "write"} /\ ent'[c] = ent[c]
    BY <1>1, <1>7 DEF Goto, TypeOK
  <2>2. Progress(c)'
    BY <1>2, <2>1 DEF Progress, Taken
  <2> QED
    BY <1>1, <1>4, <2>1, <2>2, OneStep DEF Busy
<1> QED
  BY <1>5, <1>6, <1>7

(* The steps of an initialisation. *)
LEMMA InitStepRaceFree ==
  ASSUME TypeOK, RaceFree, NEW c \in Proc, InitStep(c)
  PROVE  RaceFree'
<1>1. c \in Actor /\ Progress(c) /\ "gui" \notin Proc /\ "run" \notin Proc
  BY Constants DEF Actor, RaceFree
<1> DEFINE Others == \A a \in Actor : a # c => Same(a)
<1>2. ASSUME Exit(c), UNCHANGED <<path, size, key>>
      PROVE  RaceFree'
  <2>1. Ended(c) /\ Others
    BY <1>1, <1>2, ExitEnds
  <2>2. \A d \in Proc : Same(d) \/ Ended(d)
    BY <2>1 DEF Actor
  <2>3. \A a \in {"gui", "run"} : map'[a] = map[a]
    BY <1>1, <2>1 DEF Same, Actor
  <2> QED
    BY <1>2, <2>2, <2>3, Frame
<1>3. CASE Remove(c)
  <2>1. /\ pc[c] = "remove" /\ pc'[c] = "open" /\ path' = None
        /\ UNCHANGED <<size, key, map, slot, ent>> /\ Others
    BY <1>1, <1>3 DEF Remove, Goto, TypeOK, Same
  <2>2. Progress(c)'
    BY <1>1, <2>1 DEF Progress
  <2> QED
    BY <2>1, <2>2, OneStep DEF Busy
<1>4. CASE Open(c)
  BY <1>4, OpenRaceFree
<1>5. CASE Fill(c)
  <2>1. /\ pc[c] = "fill" /\ pc'[c] = "connect"
        /\ UNCHANGED <<path, key, map, slot, ent>> /\ Others
    BY <1>1, <1>5 DEF Fill, Goto, TypeOK, Same
  <2>2. size' = [size EXCEPT ![map[c]] = "full"]
    BY <1>5 DEF Fill
  <2>3. \A g \in Gen : size[g] # "none" => size'[g] # "none"
    BY <2>2 DEF TypeOK
  <2>4. Progress(c)'
    BY <1>1, <2>1 DEF Progress
  <2> QED
    BY <2>1, <2>3, <2>4, OneStep DEF Busy
<1>6. CASE Connect(c)
  <2>1. pc[c] = "connect" /\ UNCHANGED <<path, size, key>>
    BY <1>6 DEF Connect, shmVars
  <2>2. CASE path = None /\ Goto(c, "open") /\ UNCHANGED <<map, slot, ent>>
    <3>1. pc'[c] = "open" /\ Others
      BY <1>1, <2>2 DEF Goto, TypeOK, Same
    <3>2. Progress(c)'
      BY <1>1, <2>1, <2>2, <3>1 DEF Progress
    <3> QED
      BY <2>1, <2>2, <3>1, <3>2, OneStep DEF Busy
  <2>3. CASE /\ path # None
             /\ map' = [map EXCEPT ![c] = path] /\ Goto(c, "find") /\ UNCHANGED <<slot, ent>>
    <3>1. pc'[c] = "find" /\ map'[c] = path /\ ent'[c] = 1 /\ Others
      BY <1>1, <2>1, <2>3 DEF Goto, TypeOK, Same, Progress
    <3>2. \A i \in 1 .. Len(Entry) : ~(i < 1)
      OBVIOUS
    <3>3. Progress(c)'
      BY <2>3, <3>1, <3>2 DEF Progress
    <3> QED
      BY <2>1, <3>1, <3>3, OneStep DEF Busy
  <2>4. CASE Exit(c)
    BY <1>2, <2>1, <2>4
  <2> QED
    BY <1>6, <2>2, <2>3, <2>4 DEF Connect
<1>7. CASE FindEntry(c)
  <2>1. pc[c] = "find" /\ map[c] \in Gen /\ UNCHANGED <<path, size, key>>
    BY <1>1, <1>7 DEF FindEntry, Mapped, shmVars, TypeOK
  <2>2. ASSUME NEW s \in EntrySlot(map[c], Entry[ent[c]]),
               Goto(c, "set"), slot' = [slot EXCEPT ![c] = s], UNCHANGED <<map, ent>>
        PROVE  RaceFree'
    <3>1. /\ pc'[c] = "set" /\ slot'[c] = s /\ map'[c] = map[c] /\ ent'[c] = ent[c]
          /\ Others
      BY <1>1, <2>2 DEF Goto, TypeOK, Same
    <3>2. \/ key[map[c]][s] = Entry[ent[c]]
          \/ key[map[c]][s] = None /\ ~Taken(map[c], Entry[ent[c]])
      BY DEF EntrySlot, Having, Free, First, Last, Taken
    <3>3. Progress(c)'
      BY <1>1, <2>1, <3>1, <3>2 DEF Progress, Taken
    <3> QED
      BY <2>1, <3>1, <3>3, OneStep DEF Busy
  <2> QED
    BY <1>2, <1>7, <2>1, <2>2 DEF FindEntry
<1>8. CASE SetEntry(c)
  BY <1>8, SetRaceFree
<1>9. CASE ReadFile(c)
  <2>1. /\ pc[c] = "read" /\ UNCHANGED <<path, size, key, map, slot>>
        /\ AfterEntry(c) \/ (Goto(c, "trunc") /\ UNCHANGED ent)
    BY <1>9 DEF ReadFile
  <2> QED
    BY <2>1, NextEntry
<1> QED
  BY <1>3, <1>4, <1>5, <1>6, <1>7, <1>8, <1>9 DEF InitStep

(* All other steps. *)
LEMMA OtherStepRaceFree ==
  ASSUME TypeOK, RaceFree,
         \/ \E a \in Actor : Truncate(a) \/ Write(a) \/ Die(a)
         \/ \E p \in Param, v \in Value : GuiSetval(p, v) \/ GuiEdit(p, v) \/ RunSet(p, v)
         \/ GuiScan \/ GuiErase \/ RunConnect
         \/ \E p \in Param : RunSave(p)
  PROVE  RaceFree'
<1>1. /\ "gui" \notin Proc /\ "run" \notin Proc /\ Actor = Proc \cup {"gui", "run"}
      /\ pc \in [Actor -> Busy \cup {"off", "on"}] /\ map \in [Actor -> Gen \cup {None}]
      /\ slot \in [Actor -> Slot] /\ ent \in [Proc -> 1 .. Len(Entry)]
  BY Constants DEF Actor, TypeOK
<1>2. ASSUME NEW a \in Actor, Exit(a), UNCHANGED <<path, size, key>>
      PROVE  RaceFree'
  <2>1. Ended(a) /\ \A b \in Actor : b # a => Same(b)
    BY <1>2, ExitEnds
  <2>2. /\ \A c \in Proc : Same(c) \/ Ended(c)
        /\ \A b \in {"gui", "run"} : map'[b] \in {map[b], None}
    BY <1>1, <2>1 DEF Same, Ended
  <2> QED
    BY <1>2, <2>2, Frame
<1>3. ASSUME NEW a \in {"gui", "run"}, UNCHANGED <<size, key, ent>>, path' \in {path, None},
             pc' = pc \/ (\E l \in {"on", "trunc", "write"} : Goto(a, l)),
             \/ map' = map
             \/ map' = [map EXCEPT ![a] = None]
             \/ map' = [map EXCEPT ![a] = path],
             slot' = slot \/ \E s \in Slot : slot' = [slot EXCEPT ![a] = s]
      PROVE  RaceFree'
  <2>1. \A c \in Proc : c # a /\ c \in Actor
    BY <1>1
  <2>2. \A c \in Proc : Same(c)
    BY <1>1, <1>3, <2>1 DEF Same, Goto
  <2>3. \A b \in {"gui", "run"} : map'[b] \in {map[b], None, path}
    BY <1>1, <1>3
  <2> QED
    BY <1>3, <2>2, <2>3, Frame
<1>4. ASSUME NEW a \in Actor, Truncate(a)
      PROVE  RaceFree'
  <2>1. /\ pc[a] = "trunc" /\ Goto(a, "write")
        /\ UNCHANGED <<path, size, key, map, slot, ent>>
    BY <1>4 DEF Truncate, shmVars
  <2>2. CASE a \in Proc
    BY <2>1, <2>2, NextEntry
  <2>3. CASE a \in {"gui", "run"}
    BY <1>3, <2>1, <2>3
  <2> QED
    BY <1>1, <2>2, <2>3
<1>5. ASSUME NEW a \in Actor, Write(a)
      PROVE  RaceFree'
  <2>1. pc[a] = "write" /\ UNCHANGED <<path, size, key, map, slot>>
    BY <1>5 DEF Write, shmVars
  <2>2. CASE a \in Proc
    <3>1. AfterEntry(a)
      BY <1>5, <2>2 DEF Write
    <3> QED
      BY <2>1, <2>2, <3>1, NextEntry
  <2>3. CASE a \in {"gui", "run"}
    <3>1. Goto(a, "on") /\ UNCHANGED ent
      BY <1>1, <1>5, <2>3 DEF Write
    <3> QED
      BY <1>3, <2>1, <2>3, <3>1
  <2> QED
    BY <1>1, <2>2, <2>3
<1>6. ASSUME NEW a \in Actor, Die(a)
      PROVE  RaceFree'
  BY <1>2, <1>6 DEF Die, shmVars
<1>7. ASSUME NEW p \in Param, NEW v \in Value, GuiSetval(p, v)
      PROVE  RaceFree'
  <2>1. \E s \in Slot : slot' = [slot EXCEPT !["gui"] = s]
    BY <1>7 DEF GuiSetval, TypeOK
  <2>2. UNCHANGED <<path, size, key, map, ent>> /\ Goto("gui", "trunc")
    BY <1>7 DEF GuiSetval
  <2> QED
    BY <1>3, <2>1, <2>2
<1>8. ASSUME NEW p \in Param, NEW v \in Value, GuiEdit(p, v)
      PROVE  RaceFree'
  <2>1. \E s \in Slot : slot' = [slot EXCEPT !["gui"] = s]
    BY <1>8 DEF GuiEdit, TypeOK
  <2>2. UNCHANGED <<path, size, key, map, ent>> /\ (pc' = pc \/ Goto("gui", "trunc"))
    BY <1>8 DEF GuiEdit
  <2> QED
    BY <1>3, <2>1, <2>2
<1>9. CASE GuiScan
  <2>1. UNCHANGED <<path, size, key>>
    BY <1>9 DEF GuiScan, shmVars
  <2>2. CASE Exit("gui")
    BY <1>1, <1>2, <2>1, <2>2
  <2>3. CASE /\ \/ map' = [map EXCEPT !["gui"] = None]
                \/ map' = [map EXCEPT !["gui"] = path]
             /\ Goto("gui", "on") /\ UNCHANGED <<slot, ent>>
    BY <1>3, <2>1, <2>3
  <2> QED
    BY <1>9, <2>2, <2>3 DEF GuiScan
<1>10. CASE GuiErase
  BY <1>3, <1>10 DEF GuiErase
<1>11. CASE RunConnect
  BY <1>3, <1>11 DEF RunConnect, shmVars
<1>12. ASSUME NEW p \in Param, NEW v \in Value, RunSet(p, v)
       PROVE  RaceFree'
  <2>1. UNCHANGED <<path, size, key>>
    BY <1>12 DEF RunSet
  <2>2. Exit("run") \/ UNCHANGED <<pc, map, slot, ent>>
    BY <1>12 DEF RunSet
  <2> QED
    BY <1>1, <1>2, <1>3, <2>1, <2>2
<1>13. ASSUME NEW p \in Param, RunSave(p)
       PROVE  RaceFree'
  <2>1. UNCHANGED <<path, size, key>>
    BY <1>13 DEF RunSave, shmVars
  <2>2. CASE Exit("run")
    BY <1>1, <1>2, <2>1, <2>2
  <2>3. CASE \E s \in GetParamIndex(map["run"], p) :
               /\ Goto("run", "trunc") /\ slot' = [slot EXCEPT !["run"] = s]
               /\ UNCHANGED <<map, ent>>
    <3>1. \E s \in Slot : slot' = [slot EXCEPT !["run"] = s]
      BY <2>3, ChosenSlots
    <3> QED
      BY <1>3, <2>1, <2>3, <3>1
  <2> QED
    BY <1>13, <2>2, <2>3 DEF RunSave
<1> QED
  BY <1>4, <1>5, <1>6, <1>7, <1>8, <1>9, <1>10, <1>11, <1>12, <1>13

(* RaceFree holds until two initialisations have met. *)
LEMMA RaceFreeInvariant == Spec => [](~raced => RaceFree)
<1>1. Init => RaceFree
  BY Constants DEF Init, RaceFree, Alone, Made, Distinct, Progress, Busy, Actor
<1>2. TypeOK /\ (~raced => RaceFree) /\ [Next]_vars => (~raced => RaceFree)'
  <2> SUFFICES ASSUME TypeOK, ~raced => RaceFree, [Next]_vars, ~raced'
               PROVE  RaceFree'
    OBVIOUS
  <2>1. CASE UNCHANGED vars
    <3>1. UNCHANGED <<path, size, key, pc, map, slot, ent, raced>>
      BY <2>1 DEF vars, shmVars, actVars, history
    <3>2. RaceFree /\ \A a \in Actor : Same(a)
      BY <3>1 DEF Same
    <3> QED
      BY <3>1, <3>2, Frame DEF Actor
  <2>2. ASSUME NEW c \in Proc, NEW l \in {"remove", "connect"}, Setup(c, l)
        PROVE  RaceFree'
    <3>1. ~raced
      BY <2>2 DEF Setup
    <3> QED
      BY <2>2, <3>1, SetupRaceFree
  <2>3. ASSUME NEW c \in Proc, InitStep(c)
        PROVE  RaceFree'
    <3>1. raced' = raced
      BY <2>3 DEF InitStep, Remove, Open, Fill, Connect, FindEntry, SetEntry, ReadFile, history
    <3> QED
      BY <2>3, <3>1, InitStepRaceFree
  <2>4. ASSUME \/ \E a \in Actor : Truncate(a) \/ Write(a) \/ Die(a)
               \/ \E p \in Param, v \in Value : GuiSetval(p, v) \/ GuiEdit(p, v) \/ RunSet(p, v)
               \/ GuiScan \/ GuiErase \/ RunConnect
               \/ \E p \in Param : RunSave(p)
        PROVE  RaceFree'
    <3>1. raced' = raced
      BY <2>4 DEF Truncate, Write, Die, GuiSetval, GuiEdit, RunSet, GuiScan, GuiErase, RunConnect,
                  RunSave, history
    <3> QED
      BY <2>4, <3>1, OtherStepRaceFree
  <2> QED
    BY <2>1, <2>2, <2>3, <2>4 DEF Next
<1> QED
  BY <1>1, <1>2, TypeCorrect, PTL DEF Spec

(* A keyword has one slot in a structure, for any number of keywords,      *)
(* slots and processes, as long as no two initialisations met              *)
(* (function_parameters.c:1478-1508).                                      *)
THEOREM OneSlotPerKeyword == Spec => []OneSlot
<1>1. (~raced => RaceFree) => OneSlot
  BY DEF RaceFree, Distinct, OneSlot
<1> QED
  BY <1>1, RaceFreeInvariant, PTL

(* A process that goes on to its loop has every entry, whatever fpsCTRL    *)
(* and RUN set, save and remove meanwhile (function_parameters.h:588-656). *)
THEOREM EveryEntry == Spec => []Complete
<1>1. (~raced => RaceFree) => Complete
  BY DEF RaceFree, Progress, Taken, Having, Complete
<1> QED
  BY <1>1, RaceFreeInvariant, PTL

-----------------------------------------------------------------------------
(* Values.                                                                 *)

(* Keywords are in the first slots. *)
Prefix == \A g \in Gen : \A s, t \in Slot : s < t /\ key[g][t] # None => key[g][s] # None

(* Before the slot of p are those of the keywords that are a part of p, and *)
(* before those of the keywords that contain p is that of p: who looks for *)
(* another keyword does not find p, and who looks for p finds it.          *)
Sorted(p) ==
  \A g \in Gen : \A s \in Slot :
    /\ key[g][s] = p =>
         \A q \in Param : q # p /\ <<q, p>> \in Within => \E t \in Slot : t < s /\ key[g][t] = q
    /\ key[g][s] \notin {p, None} /\ <<p, key[g][s]>> \in Within =>
         \E t \in Slot : t < s /\ key[g][t] = p

(* An initialisation is in the structure that has the name, and at the     *)
(* slot of its entry.                                                      *)
AtEntry(c) ==
  /\ pc[c] \in {"find", "set", "read", "trunc", "write"} /\ path # None => map[c] = path
  /\ pc[c] = "set" /\ key[map[c]][slot[c]] = None =>
       \A t \in Slot : t < slot[c] => key[map[c]][t] # None
  /\ pc[c] \in {"read", "trunc", "write"} => key[map[c]][slot[c]] = Entry[ent[c]]

(* fpsCTRL and RUN are at slots that have a keyword, those that the nodes  *)
(* of fpsCTRL are about.                                                   *)
AtSlot ==
  /\ \A a \in {"gui", "run"} :
       /\ pc[a] \in {"off", "on", "trunc", "write"}
       /\ pc[a] \in {"trunc", "write"} => map[a] # None /\ key[map[a]][slot[a]] # None
  /\ pc["gui"] # "off" /\ map["gui"] # None =>
       \A q \in Param : \A s \in node[q] : key[map["gui"]][s] = q

Layout ==
  /\ Prefix /\ AtSlot
  /\ \A p \in Param : ~Ambiguous(p) => Sorted(p)
  /\ \A c \in Proc : AtEntry(c)

(* While the value of p goes its way between the slot and the file, one of *)
(* them has what p was told, and the initialisation and those that save    *)
(* have it, or what a file leaves of it, where they take it from.          *)
Printings(p) == {Printed[v] : v \in Left(p)}

Kept(p) ==
  /\ /\ \A a \in {"gui", "run"} : ~Saving(a, p)
     /\ \A c \in Proc : Adding(c, p) => pc[c] \in {"set", "read"}
     => file[p] \in Printings(p) \/ (file[p] = None /\ want[p] = InitialValue(p))
  /\ path # None /\ (\A c \in Proc : Adding(c, p) => pc[c] # "read")
     => \A s \in Slot : key[path][s] = p => val[path][s] \in Left(p)
  /\ \A c \in Proc : Adding(c, p) =>
       /\ pc[c] = "read" => val[map[c]][slot[c]] = InitialValue(p)
       /\ pc[c] \in {"trunc", "write"} => val[map[c]][slot[c]] \in Left(p)
  /\ \A a \in {"gui", "run"} : Saving(a, p) => val[map[a]][slot[a]] \in Left(p)

ValueInv == \A p \in Param : ~Ambiguous(p) /\ p \notin exposed => Kept(p)

(* Steps that leave keywords alone, and the initialisations where they are *)
(* or end them.                                                            *)
LEMMA LayoutFrame ==
  ASSUME TypeOK, Layout, UNCHANGED key, path' \in {path, None},
         \A c \in Proc : Same(c) \/ Ended(c) \/ AtEntry(c)', AtSlot'
  PROVE  Layout'
<1>1. Prefix'
  BY DEF Layout, Prefix
<1>2. ASSUME NEW p \in Param, ~Ambiguous(p)
      PROVE  Sorted(p)'
  BY <1>2 DEF Layout, Sorted
<1>3. ASSUME NEW c \in Proc
      PROVE  AtEntry(c)'
  <2>1. CASE Same(c)
    BY <2>1 DEF Layout, AtEntry, Same
  <2>2. CASE Ended(c)
    BY <2>2 DEF AtEntry, Ended
  <2> QED
    BY <2>1, <2>2
<1>4. \A p \in Param : ~Ambiguous(p)' => ~Ambiguous(p)
  BY DEF Ambiguous
<1> QED
  BY <1>1, <1>2, <1>3, <1>4 DEF Layout

(* fpsCTRL and RUN are where they were. *)
LEMMA AtSlotFrame ==
  ASSUME TypeOK, AtSlot, UNCHANGED <<key, node>>, \A a \in {"gui", "run"} : Same(a) \/ Ended(a)
  PROVE  AtSlot'
BY DEF AtSlot, Same, Ended

(* An entry is set: it comes after the entries before it. *)
LEMMA SetLayout ==
  ASSUME TypeOK, RaceFree, Layout, NEW c \in Proc, SetEntry(c)
  PROVE  Layout'
<1> DEFINE g == map[c]
           s == slot[c]
           e == ent[c]
           P == Entry[e]
<1>1. /\ g \in Gen /\ s \in Slot /\ e \in 1 .. Len(Entry) /\ P \in Param /\ pc[c] = "set" /\ c \in Actor
      /\ P # None /\ Len(Entry) \in Nat
  BY Constants DEF SetEntry, Mapped, TypeOK, Actor
<1>2. /\ key' = [key EXCEPT ![g][s] = P] /\ pc'[c] = "read"
      /\ UNCHANGED <<path, map, slot, ent, node>> /\ \A a \in Actor : a # c => Same(a)
  BY <1>1 DEF SetEntry, Goto, TypeOK, Same
<1>3. /\ key'[g][s] = P
      /\ \A h \in Gen, u \in Slot : h # g \/ u # s => key'[h][u] = key[h][u]
  BY <1>1, <1>2 DEF TypeOK
<1>4. /\ key[g][s] = P \/ (key[g][s] = None /\ \A t \in Slot : t < s => key[g][t] # None)
      /\ \A i \in 1 .. Len(Entry) : i < e => \E t \in Slot : key[g][t] = Entry[i]
      /\ path # None => g = path
  BY <1>1 DEF RaceFree, Progress, Taken, Layout, AtEntry
<1>5. \A h \in Gen, u \in Slot : key[h][u] # None => key'[h][u] = key[h][u]
  BY <1>3, <1>4
<1>6. Slot \subseteq Nat
  BY DEF Slot
<1>7. ASSUME NEW i \in 1 .. Len(Entry), i < e, key[g][s] = None
      PROVE  \E t \in Slot : t < s /\ key'[g][t] = Entry[i]
  <2>1. PICK t \in Slot : key[g][t] = Entry[i]
    BY <1>4, <1>7
  <2>2. key[g][t] # None /\ t # s
    BY <1>7, <2>1, Constants
  <2>3. ~(s < t)
    BY <1>1, <1>7, <2>2 DEF Layout, Prefix
  <2> QED
    BY <1>1, <1>5, <1>6, <2>1, <2>2, <2>3
<1> HIDE DEF g, s, e, P
<1>8. Prefix'
  BY <1>3, <1>4, <1>5 DEF Layout, Prefix
<1>9. ASSUME NEW p \in Param, ~Ambiguous(p)
      PROVE  Sorted(p)'
  <2>1. Sorted(p)
    BY <1>9 DEF Layout
  <2>2. CASE key[g][s] = P
    <3>1. \A h \in Gen, u \in Slot : key'[h][u] = key[h][u]
      BY <1>3, <2>2
    <3> QED
      BY <2>1, <3>1 DEF Sorted
  <2>3. CASE key[g][s] = None
    <3>1. ASSUME NEW q \in Param, q # p, <<q, p>> \in Within, P = p
          PROVE  \E t \in Slot : t < s /\ key'[g][t] = q
      <4>1. PICK i \in 1 .. Len(Entry) : Entry[i] = q
        BY <1>9, <3>1 DEF Ambiguous
      <4>2. ~(e < i)
        BY <1>1, <1>9, <3>1, <4>1 DEF Ambiguous, P
      <4>3. i # e
        BY <3>1, <4>1 DEF P
      <4>4. i < e
        BY <1>1, <4>2, <4>3
      <4> QED
        BY <1>7, <2>3, <4>1, <4>4
    <3>2. ASSUME P # p, <<p, P>> \in Within
          PROVE  \E t \in Slot : t < s /\ key'[g][t] = p
      <4>1. PICK i \in 1 .. Len(Entry) : Entry[i] = p
        BY <1>9, ParamAssumption DEF Ambiguous
      <4>2. ~(e < i)
        BY <1>1, <1>9, <3>2, <4>1 DEF Ambiguous, P
      <4>3. i # e
        BY <3>2, <4>1 DEF P
      <4>4. i < e
        BY <1>1, <4>2, <4>3
      <4> QED
        BY <1>7, <2>3, <4>1, <4>4
    <3>3. ASSUME NEW h \in Gen, NEW u \in Slot, h # g \/ u # s
          PROVE  /\ key'[h][u] = p =>
                      \A q \in Param : q # p /\ <<q, p>> \in Within => \E t \in Slot : t < u /\ key'[h][t] = q
                 /\ key'[h][u] \notin {p, None} /\ <<p, key'[h][u]>> \in Within =>
                      \E t \in Slot : t < u /\ key'[h][t] = p
      <4>1. key'[h][u] = key[h][u]
        BY <1>3, <3>3
      <4>2. \A q \in Param : \A t \in Slot : key[h][t] = q => key'[h][t] = q
        BY <1>5, Constants
      <4> QED
        BY <2>1, <4>1, <4>2 DEF Sorted
    <3> QED
      BY <1>1, <1>3, <3>1, <3>2, <3>3 DEF Sorted
  <2> QED
    BY <1>4, <2>2, <2>3
<1>10. ASSUME NEW d \in Proc
       PROVE  AtEntry(d)'
  <2>1. CASE d = c
    BY <1>1, <1>2, <1>3, <1>4, <2>1 DEF AtEntry, g, s, e, P
  <2>2. CASE d # c
    <3>1. pc'[d] = pc[d] /\ pc[d] \notin {"find", "set", "read", "trunc", "write"}
      BY <1>1, <1>2, <2>2 DEF RaceFree, Alone, Busy, Same, Actor
    <3> QED
      BY <3>1 DEF AtEntry
  <2> QED
    BY <2>1, <2>2
<1>11. AtSlot'
  <2>1. \A a \in {"gui", "run"} : pc'[a] = pc[a] /\ map'[a] = map[a] /\ slot'[a] = slot[a]
    BY <1>2, Constants DEF Same, Actor
  <2>2. \A a \in {"gui", "run"} : map[a] # None => map[a] \in Gen /\ slot[a] \in Slot
    BY DEF TypeOK, Actor
  <2>3. \A a \in {"gui", "run"} :
           /\ pc'[a] \in {"off", "on", "trunc", "write"}
           /\ pc'[a] \in {"trunc", "write"} => map'[a] # None /\ key'[map'[a]][slot'[a]] # None
    BY <1>5, <2>1, <2>2 DEF Layout, AtSlot
  <2>4. pc'["gui"] # "off" /\ map'["gui"] # None =>
          \A q \in Param : \A u \in node'[q] : key'[map'["gui"]][u] = q
    <3>1. \A q \in Param : node[q] \subseteq Slot
      BY DEF TypeOK
    <3> QED
      BY <1>2, <1>5, <2>1, <2>2, <3>1, Constants DEF Layout, AtSlot
  <2> QED
    BY <2>3, <2>4 DEF AtSlot
<1>12. \A p \in Param : ~Ambiguous(p)' => ~Ambiguous(p)
  BY DEF Ambiguous
<1> QED
  BY <1>8, <1>9, <1>10, <1>11, <1>12 DEF Layout

(* A structure is made: it has no keywords, and nobody has mapped it.      *)
LEMMA OpenLayout ==
  ASSUME TypeOK, RaceFree, Layout, NEW c \in Proc, Open(c)
  PROVE  Layout'
<1>1. c \in Actor /\ pc[c] = "open" /\ path = None
  BY DEF Open, Actor, RaceFree, Made
<1>2. PICK g \in Gen : size[g] = "none" /\ key' = [key EXCEPT ![g] = [s \in Slot |-> None]]
  BY <1>1 DEF Open
<1>3. pc'[c] = "fill" /\ \A a \in Actor : a # c => Same(a)
  BY <1>1 DEF Open, Goto, TypeOK, Same
<1>4. /\ \A u \in Slot : key'[g][u] = None
      /\ \A h \in Gen : h # g => key'[h] = key[h]
  BY <1>2 DEF TypeOK
<1>5. Prefix'
  BY <1>4 DEF Layout, Prefix
<1>6. ASSUME NEW p \in Param, ~Ambiguous(p)
      PROVE  Sorted(p)'
  <2>1. Sorted(p) /\ p # None
    BY <1>6, Constants DEF Layout
  <2> QED
    BY <1>4, <2>1 DEF Sorted
<1>7. ASSUME NEW d \in Proc
      PROVE  AtEntry(d)'
  <2>1. pc'[d] \notin {"find", "set", "read", "trunc", "write"}
    BY <1>1, <1>3 DEF RaceFree, Alone, Busy, Same, Actor
  <2> QED
    BY <2>1 DEF AtEntry
<1>8. AtSlot'
  <2>1. \A a \in {"gui", "run"} : Same(a)
    BY <1>3, Constants DEF Actor
  <2>2. \A a \in {"gui", "run"} : map[a] # None => key'[map[a]] = key[map[a]]
    <3>1. \A a \in {"gui", "run"} : map[a] # None => map[a] \in Gen /\ map[a] # g
      BY <1>2 DEF RaceFree, Made, TypeOK, Actor
    <3> QED
      BY <1>4, <3>1
  <2>3. node' = node
    BY DEF Open
  <2> QED
    BY <2>1, <2>2, <2>3 DEF Layout, AtSlot, Same
<1>9. \A p \in Param : ~Ambiguous(p)' => ~Ambiguous(p)
  BY DEF Ambiguous
<1> QED
  BY <1>5, <1>6, <1>7, <1>8, <1>9 DEF Layout

(* The steps of an initialisation keep Layout. *)
LEMMA InitStepLayout ==
  ASSUME TypeOK, RaceFree, Layout, NEW c \in Proc,
         InitStep(c) \/ \E l \in {"remove", "connect"} : Setup(c, l)
  PROVE  Layout'
<1>1. /\ c \in Actor /\ "gui" \notin Proc /\ "run" \notin Proc /\ AtSlot /\ AtEntry(c) /\ Progress(c)
      /\ Proc \subseteq Actor /\ {"gui", "run"} \subseteq Actor
  BY Constants DEF Actor, Layout, RaceFree
<1> DEFINE Others == \A a \in Actor : a # c => Same(a)
<1>2. ASSUME Others, UNCHANGED <<key, node>>, path' \in {path, None}, AtEntry(c)'
      PROVE  Layout'
  <2>1. AtSlot'
    BY <1>1, <1>2, AtSlotFrame
  <2> QED
    BY <1>1, <1>2, <2>1, LayoutFrame
<1>3. ASSUME Exit(c), UNCHANGED <<key, node, path>>
      PROVE  Layout'
  <2>1. Ended(c) /\ Others
    BY <1>1, <1>3, ExitEnds
  <2>2. AtEntry(c)'
    BY <2>1 DEF Ended, AtEntry
  <2> QED
    BY <1>2, <1>3, <2>1, <2>2
<1>4. ASSUME NEW l \in {"remove", "open", "fill", "connect", "on"}, Goto(c, l), UNCHANGED <<key, node, slot>>,
             path' \in {path, None}, \A a \in Actor : a # c => map'[a] = map[a],
             \A d \in Proc : d # c => ent'[d] = ent[d]
      PROVE  Layout'
  <2>1. pc'[c] = l /\ Others
    BY <1>1, <1>4 DEF Goto, TypeOK, Same
  <2>2. AtEntry(c)'
    BY <2>1 DEF AtEntry
  <2> QED
    BY <1>2, <1>4, <2>1, <2>2
<1>5. ASSUME NEW l \in {"remove", "connect"}, Setup(c, l)
      PROVE  Layout'
  BY <1>4, <1>5 DEF Setup, shmVars
<1>6. CASE Remove(c) \/ Fill(c)
  BY <1>4, <1>6 DEF Remove, Fill
<1>7. CASE Open(c)
  BY <1>7, OpenLayout
<1>8. CASE Connect(c)
  <2>1. UNCHANGED <<path, key, node>>
    BY <1>8 DEF Connect, shmVars
  <2>2. CASE Goto(c, "open") /\ UNCHANGED <<map, slot, ent>>
    BY <1>4, <2>1, <2>2
  <2>3. CASE map' = [map EXCEPT ![c] = path] /\ Goto(c, "find") /\ UNCHANGED <<slot, ent>>
    <3>1. pc'[c] = "find" /\ map'[c] = path /\ Others
      BY <1>1, <2>3 DEF Goto, TypeOK, Same
    <3>2. AtEntry(c)'
      BY <2>1, <3>1 DEF AtEntry
    <3> QED
      BY <1>2, <2>1, <3>1, <3>2
  <2> QED
    BY <1>3, <1>8, <2>1, <2>2, <2>3 DEF Connect
<1>9. CASE FindEntry(c)
  <2>1. UNCHANGED <<path, key, node>> /\ pc[c] = "find" /\ map[c] \in Gen
    BY <1>1, <1>9 DEF FindEntry, Mapped, shmVars, TypeOK
  <2>2. ASSUME NEW s \in EntrySlot(map[c], Entry[ent[c]]),
               Goto(c, "set"), slot' = [slot EXCEPT ![c] = s], UNCHANGED <<map, ent>>
        PROVE  Layout'
    <3>1. pc'[c] = "set" /\ slot'[c] = s /\ map'[c] = map[c] /\ Others
      BY <1>1, <2>2 DEF Goto, TypeOK, Same
    <3>2. Entry[ent[c]] # None
      BY Constants DEF TypeOK
    <3>3. key[map[c]][s] = None => \A t \in Slot : t < s => key[map[c]][t] # None
      <4> DEFINE g == map[c]
                 p == Entry[ent[c]]
      <4> SUFFICES ASSUME key[g][s] = None PROVE \A t \in Slot : t < s => key[g][t] # None
        OBVIOUS
      <4>1. s \notin Having(g, p)
        BY <3>2 DEF Having
      <4>2. s \in First(Free(g))
        BY <2>2, <4>1 DEF EntrySlot, Last
      <4>3. \A t \in Slot : s \in Int /\ t \in Int
        BY <4>2, Constants DEF First, Free, Slot
      <4> QED
        BY <4>2, <4>3 DEF First, Free
    <3>4. AtEntry(c)'
      BY <1>1, <2>1, <3>1, <3>3 DEF AtEntry
    <3> QED
      BY <1>2, <2>1, <3>1, <3>4
  <2> QED
    BY <1>3, <1>9, <2>1, <2>2 DEF FindEntry
<1>10. CASE SetEntry(c)
  BY <1>10, SetLayout
<1>11. CASE ReadFile(c)
  <2>1. UNCHANGED <<path, key, node, map, slot>> /\ pc[c] = "read"
    BY <1>11 DEF ReadFile
  <2>2. CASE AfterEntry(c)
    <3>1. pc'[c] \in {"find", "on"} /\ Others
      BY <1>1, <2>1, <2>2 DEF AfterEntry, Goto, TypeOK, Same
    <3>2. AtEntry(c)'
      BY <1>1, <2>1, <3>1 DEF AtEntry
    <3> QED
      BY <1>2, <2>1, <3>1, <3>2
  <2>3. CASE Goto(c, "trunc") /\ UNCHANGED ent
    <3>1. pc'[c] = "trunc" /\ Others
      BY <1>1, <2>1, <2>3 DEF Goto, TypeOK, Same
    <3>2. AtEntry(c)'
      BY <1>1, <2>1, <2>3, <3>1 DEF AtEntry
    <3> QED
      BY <1>2, <2>1, <3>1, <3>2
  <2> QED
    BY <1>11, <2>2, <2>3 DEF ReadFile
<1> QED
  BY <1>5, <1>6, <1>7, <1>8, <1>9, <1>10, <1>11 DEF InitStep

(* Slots that are found by name have a keyword. *)
LEMMA FoundHasKey ==
  ASSUME NEW g, NEW p, NEW s \in GetParamIndex(g, p)
  PROVE  s \in Slot /\ key[g][s] # None
BY DEF GetParamIndex, First

(* All other steps keep Layout. *)
LEMMA OtherStepLayout ==
  ASSUME TypeOK, RaceFree, Layout,
         \/ \E a \in Actor : Truncate(a) \/ Write(a) \/ Die(a)
         \/ \E p \in Param, v \in Value : GuiSetval(p, v) \/ GuiEdit(p, v) \/ RunSet(p, v)
         \/ GuiScan \/ GuiErase \/ RunConnect
         \/ \E p \in Param : RunSave(p)
  PROVE  Layout'
<1>1. /\ "gui" \notin Proc /\ "run" \notin Proc /\ Actor = Proc \cup {"gui", "run"}
      /\ "gui" \in Actor /\ "run" \in Actor /\ AtSlot
      /\ pc \in [Actor -> Busy \cup {"off", "on"}] /\ map \in [Actor -> Gen \cup {None}]
      /\ slot \in [Actor -> Slot] /\ ent \in [Proc -> 1 .. Len(Entry)]
  BY Constants DEF Actor, TypeOK, Layout
<1>2. ASSUME NEW a \in Actor, Exit(a), UNCHANGED <<path, key>>,
             node' = node \/ (a = "gui" /\ node' = [p \in Param |-> {}])
      PROVE  Layout'
  <2>1. Ended(a) /\ \A b \in Actor : b # a => Same(b)
    BY <1>2, ExitEnds
  <2>2. AtSlot'
    BY <1>1, <1>2, <2>1 DEF AtSlot, Same, Ended
  <2>3. \A c \in Proc : Same(c) \/ Ended(c)
    BY <1>1, <2>1
  <2> QED
    BY <1>2, <2>2, <2>3, LayoutFrame
<1>3. ASSUME NEW c \in Proc, NEW l \in {"write", "find", "on"}, Goto(c, l), pc[c] \in {"trunc", "write"},
             UNCHANGED <<path, key, map, slot, node>>, \A d \in Proc : d # c => ent'[d] = ent[d],
             l = "write" => UNCHANGED ent
      PROVE  Layout'
  <2>1. pc'[c] = l /\ \A b \in Actor : b # c => Same(b)
    BY <1>1, <1>3 DEF Goto, Same
  <2>2. AtEntry(c)
    BY DEF Layout
  <2>3. AtEntry(c)'
    BY <1>3, <2>1, <2>2 DEF AtEntry
  <2>4. AtSlot'
    BY <1>1, <1>3, <2>1, AtSlotFrame
  <2> QED
    BY <1>1, <1>3, <2>1, <2>3, <2>4, LayoutFrame
<1>4. ASSUME NEW a \in {"gui", "run"}, UNCHANGED <<key, ent>>, path' \in {path, None},
             \A b \in Actor : b # a => pc'[b] = pc[b] /\ map'[b] = map[b] /\ slot'[b] = slot[b],
             pc'[a] \in {"off", "on", "trunc", "write"},
             pc'[a] \in {"trunc", "write"} => map'[a] # None /\ key[map'[a]][slot'[a]] # None,
             IF a = "gui"
               THEN pc'[a] # "off" /\ map'[a] # None =>
                      \A q \in Param : \A t \in node'[q] : key[map'[a]][t] = q
               ELSE node' = node
      PROVE  Layout'
  <2>1. \A b \in Actor : b # a => Same(b)
    BY <1>4 DEF Same
  <2>2. AtSlot'
    BY <1>1, <1>4 DEF AtSlot
  <2>3. \A c \in Proc : Same(c)
    BY <1>1, <2>1
  <2> QED
    BY <1>4, <2>2, <2>3, LayoutFrame
<1>5. ASSUME NEW a \in Actor
      PROVE  /\ \A l : Goto(a, l) => pc'[a] = l /\ \A b \in Actor : b # a => pc'[b] = pc[b]
             /\ \A g : map' = [map EXCEPT ![a] = g] => map'[a] = g /\ \A b \in Actor : b # a => map'[b] = map[b]
             /\ \A s : slot' = [slot EXCEPT ![a] = s] => slot'[a] = s /\ \A b \in Actor : b # a => slot'[b] = slot[b]
  BY <1>1 DEF Goto
<1>6. ASSUME NEW a \in Actor, Truncate(a)
      PROVE  Layout'
  <2>1. /\ pc[a] = "trunc" /\ Goto(a, "write")
        /\ UNCHANGED <<path, key, map, slot, ent, node>>
    BY <1>6 DEF Truncate, shmVars
  <2>2. CASE a \in Proc
    BY <1>3, <2>1, <2>2
  <2>3. CASE a \in {"gui", "run"}
    <3>1. map[a] # None /\ key[map[a]][slot[a]] # None
      BY <1>1, <2>1, <2>3 DEF AtSlot
    <3>2. a = "gui" => (map[a] # None => \A q \in Param : \A t \in node'[q] : key[map[a]][t] = q)
      BY <1>1, <2>1 DEF AtSlot
    <3> QED
      BY <1>4, <1>5, <2>1, <2>3, <3>1, <3>2
  <2> QED
    BY <1>1, <2>2, <2>3
<1>7. ASSUME NEW a \in Actor, Write(a)
      PROVE  Layout'
  <2>1. pc[a] = "write" /\ UNCHANGED <<path, key, map, slot, node>>
    BY <1>7 DEF Write, shmVars
  <2>2. CASE a \in Proc
    <3>1. AfterEntry(a)
      BY <1>7, <2>2 DEF Write
    <3>2. \E l \in {"find", "on"} : Goto(a, l) /\ \A d \in Proc : d # a => ent'[d] = ent[d]
      BY <1>1, <3>1 DEF AfterEntry
    <3> QED
      BY <1>3, <2>1, <2>2, <3>2
  <2>3. CASE a \in {"gui", "run"}
    <3>1. Goto(a, "on") /\ UNCHANGED ent
      BY <1>1, <1>7, <2>3 DEF Write
    <3>2. a = "gui" => (map[a] # None => \A q \in Param : \A t \in node'[q] : key[map[a]][t] = q)
      BY <1>1, <2>1 DEF AtSlot
    <3>3. /\ pc'[a] = "on" /\ map'[a] = map[a]
          /\ \A b \in Actor : b # a => pc'[b] = pc[b] /\ map'[b] = map[b] /\ slot'[b] = slot[b]
      BY <1>5, <2>1, <3>1
    <3> QED
      BY <1>4, <2>1, <2>3, <3>1, <3>2, <3>3
  <2> QED
    BY <1>1, <2>2, <2>3
<1>8. ASSUME NEW a \in Actor, Die(a)
      PROVE  Layout'
  BY <1>2, <1>8 DEF Die, shmVars
<1>9. pc["gui"] = "on" /\ Mapped("gui") =>
        map["gui"] # None /\ \A q \in Param : \A t \in node[q] : key[map["gui"]][t] = q
  BY <1>1 DEF AtSlot, Mapped
<1>10. ASSUME NEW p \in Param, NEW v \in Value, GuiSetval(p, v) \/ GuiEdit(p, v)
       PROVE  Layout'
  <2>1. PICK s \in node[p] : slot' = [slot EXCEPT !["gui"] = s]
    BY <1>10 DEF GuiSetval, GuiEdit
  <2>2. /\ UNCHANGED <<path, key, map, ent, node>> /\ pc["gui"] = "on" /\ Mapped("gui")
        /\ Goto("gui", "trunc") \/ pc' = pc
    BY <1>10 DEF GuiSetval, GuiEdit
  <2>3. s \in Slot /\ key[map["gui"]][s] # None
    BY <1>9, <2>1, <2>2, Constants DEF TypeOK
  <2>4. CASE Goto("gui", "trunc")
    BY <1>1, <1>4, <1>5, <1>9, <2>1, <2>2, <2>3, <2>4
  <2>5. CASE pc' = pc
    BY <1>1, <1>4, <1>5, <1>9, <2>1, <2>2, <2>3, <2>5
  <2> QED
    BY <2>2, <2>4, <2>5
<1>11. CASE GuiScan
  <2>1. UNCHANGED <<path, key>>
    BY <1>11 DEF GuiScan, shmVars
  <2>2. CASE Exit("gui") /\ node' = [p \in Param |-> {}]
    BY <1>1, <1>2, <2>1, <2>2
  <2>3. CASE /\ map' = [map EXCEPT !["gui"] = None] /\ Goto("gui", "on")
             /\ UNCHANGED <<slot, ent>>
    BY <1>1, <1>4, <1>5, <2>1, <2>3
  <2>4. CASE /\ map' = [map EXCEPT !["gui"] = path] /\ Goto("gui", "on") /\ UNCHANGED <<slot, ent>>
             /\ node' = [p \in Param |-> First(Having(path, p))]
    <3>1. \A q \in Param : \A t \in node'[q] : key[path][t] = q
      BY <2>4 DEF First, Having
    <3> QED
      BY <1>1, <1>4, <1>5, <2>1, <2>4, <3>1
  <2> QED
    BY <1>11, <2>2, <2>3, <2>4 DEF GuiScan
<1>12. CASE GuiErase
  <2>1. /\ path' = None /\ map' = [map EXCEPT !["gui"] = None] /\ UNCHANGED <<key, pc, slot, ent>>
        /\ pc["gui"] = "on"
    BY <1>12 DEF GuiErase
  <2> QED
    BY <1>1, <1>4, <1>5, <2>1
<1>13. CASE RunConnect
  <2>1. /\ map' = [map EXCEPT !["run"] = path] /\ Goto("run", "on")
        /\ UNCHANGED <<path, key, slot, ent, node>>
    BY <1>13 DEF RunConnect, shmVars
  <2> QED
    BY <1>1, <1>4, <1>5, <2>1
<1>14. ASSUME NEW p \in Param, NEW v \in Value, RunSet(p, v)
       PROVE  Layout'
  <2>1. UNCHANGED <<path, key, node>> /\ pc["run"] = "on"
    BY <1>14 DEF RunSet
  <2>2. CASE Exit("run")
    BY <1>1, <1>2, <2>1, <2>2
  <2>3. CASE UNCHANGED <<pc, map, slot, ent>>
    BY <1>1, <1>4, <1>5, <2>1, <2>3
  <2> QED
    BY <1>14, <2>2, <2>3 DEF RunSet
<1>15. ASSUME NEW p \in Param, RunSave(p)
       PROVE  Layout'
  <2>1. UNCHANGED <<path, key, node>> /\ Mapped("run")
    BY <1>15 DEF RunSave, shmVars
  <2>2. CASE Exit("run")
    BY <1>1, <1>2, <2>1, <2>2
  <2>3. ASSUME NEW s \in GetParamIndex(map["run"], p),
               Goto("run", "trunc"), slot' = [slot EXCEPT !["run"] = s], UNCHANGED <<map, ent>>
        PROVE  Layout'
    <3>1. s \in Slot /\ key[map["run"]][s] # None /\ map["run"] # None
      BY <2>1, <2>3, FoundHasKey DEF Mapped
    <3> QED
      BY <1>1, <1>4, <1>5, <2>1, <2>3, <3>1
  <2> QED
    BY <1>15, <2>2, <2>3 DEF RunSave
<1> QED
  BY <1>6, <1>7, <1>8, <1>10, <1>11, <1>12, <1>13, <1>14, <1>15

(* Layout holds until two initialisations have met. *)
LEMMA LayoutInvariant == Spec => [](~raced => Layout)
<1>1. Init => Layout
  <2> SUFFICES ASSUME Init PROVE Layout
    OBVIOUS
  <2>1. /\ \A g \in Gen, s \in Slot : key[g][s] = None
        /\ \A a \in Actor : pc[a] = "off" /\ map[a] = None
    BY DEF Init
  <2>2. Prefix /\ \A p \in Param : Sorted(p)
    BY <2>1, Constants DEF Prefix, Sorted
  <2>3. AtSlot /\ \A c \in Proc : AtEntry(c)
    BY <2>1 DEF AtSlot, AtEntry, Actor
  <2> QED
    BY <2>2, <2>3 DEF Layout
<1>2. TypeOK /\ (~raced => RaceFree) /\ (~raced => Layout) /\ [Next]_vars => (~raced => Layout)'
  <2> SUFFICES ASSUME TypeOK, ~raced => RaceFree, ~raced => Layout, [Next]_vars, ~raced'
               PROVE  Layout'
    OBVIOUS
  <2>1. CASE UNCHANGED vars
    <3>1. UNCHANGED <<path, key, pc, map, slot, ent, node, raced>>
      BY <2>1 DEF vars, shmVars, actVars, history
    <3>2. Layout /\ \A a \in Actor : Same(a)
      BY <3>1 DEF Same
    <3>3. AtSlot'
      BY <3>1, <3>2, AtSlotFrame DEF Layout, Actor
    <3> QED
      BY <3>1, <3>2, <3>3, LayoutFrame DEF Actor
  <2>2. ASSUME NEW c \in Proc, InitStep(c) \/ \E l \in {"remove", "connect"} : Setup(c, l)
        PROVE  Layout'
    <3>1. ~raced
      BY <2>2 DEF Setup, InitStep, Remove, Open, Fill, Connect, FindEntry, SetEntry, ReadFile, history
    <3> QED
      BY <2>2, <3>1, InitStepLayout
  <2>3. ASSUME \/ \E a \in Actor : Truncate(a) \/ Write(a) \/ Die(a)
               \/ \E p \in Param, v \in Value : GuiSetval(p, v) \/ GuiEdit(p, v) \/ RunSet(p, v)
               \/ GuiScan \/ GuiErase \/ RunConnect
               \/ \E p \in Param : RunSave(p)
        PROVE  Layout'
    <3>1. raced' = raced
      BY <2>3 DEF Truncate, Write, Die, GuiSetval, GuiEdit, RunSet, GuiScan, GuiErase, RunConnect,
                  RunSave, history
    <3> QED
      BY <2>3, <3>1, OtherStepLayout
  <2> QED
    BY <2>1, <2>2, <2>3 DEF Next
<1> QED
  BY <1>1, <1>2, TypeCorrect, RaceFreeInvariant, PTL DEF Spec

(* Who looks for a keyword by name finds p if and only if it is p.         *)
LEMMA Lookup ==
  ASSUME NEW p \in Param, NEW q \in Param, Sorted(p), NEW g \in Gen, NEW s \in GetParamIndex(g, q)
  PROVE  key[g][s] = p <=> q = p
<1>1. /\ s \in Slot /\ key[g][s] # None /\ <<q, key[g][s]>> \in Within
      /\ \A t \in Slot : key[g][t] # None /\ <<q, key[g][t]>> \in Within => s <= t
  BY DEF GetParamIndex, First
<1>2. \A t \in Slot : key[g][t] = q => ~(t < s)
  <2>1. <<q, q>> \in Within /\ q # None
    BY Constants, ParamAssumption
  <2>2. \A t \in Slot : s <= t => ~(t < s)
    BY <1>1, Constants DEF Slot
  <2>3. \A t \in Slot : key[g][t] = q => s <= t
    BY <1>1, <2>1
  <2> QED
    BY <2>2, <2>3
<1>3. key[g][s] = p /\ q # p => FALSE
  BY <1>1, <1>2 DEF Sorted
<1>4. q = p /\ key[g][s] # p => FALSE
  BY <1>1, <1>2 DEF Sorted
<1> QED
  BY <1>3, <1>4

(* What p was told is left of it, a value left is printed as one of its    *)
(* printings, and what is read from such a printing is left.               *)
LEMMA LeftFacts ==
  ASSUME TypeOK, NEW p \in Param
  PROVE  /\ want[p] \in Left(p)
         /\ \A v \in Left(p) : Printed[v] \in Printings(p)
         /\ \A f \in Printings(p) : f \in Data /\ Scanned[f] \in Left(p)
<1>1. want[p] \in Left(p) /\ \A v \in Left(p) : Printed[v] \in Printings(p)
  BY DEF Left, Printings
<1>2. ASSUME NEW v \in Left(p)
      PROVE  Printed[v] \in Data /\ Scanned[Printed[v]] \in Left(p)
  <2>1. want[p] \in Data /\ Back(want[p]) \in Data
    BY DataClosed DEF TypeOK
  <2>2. v \in Data /\ Back(v) = Back(want[p])
    BY <2>1, DataClosed DEF Left
  <2> QED
    BY <2>2, DataClosed DEF Left, Back
<1> QED
  BY <1>1, <1>2 DEF Printings

(* They change with what p is told only. *)
LEMMA LeftSame ==
  ASSUME NEW p \in Param, want'[p] = want[p]
  PROVE  Left(p)' = Left(p) /\ Printings(p)' = Printings(p)
<1>1. Left(p)' = Left(p)
  BY DEF Left, Back
<1> QED
  BY <1>1 DEF Printings

(* Steps of a that do not touch p, but may bring an initialisation to it.  *)
LEMMA KeptFrame ==
  ASSUME TypeOK, RaceFree, Layout, NEW p \in Param, Kept(p),
         file'[p] = file[p], want'[p] = want[p], path' \in {path, None},
         \A g \in Gen : \A s \in Slot : /\ key'[g][s] = p <=> key[g][s] = p
                                        /\ key[g][s] = p => val'[g][s] = val[g][s],
         NEW a \in Actor, \A b \in Actor : b # a => Same(b),
         a \in Proc => ~Adding(a, p) /\ (Adding(a, p)' => pc'[a] = "set"),
         a \in {"gui", "run"} => ~Saving(a, p) /\ ~Saving(a, p)'
  PROVE  Kept(p)'
<1>1. /\ \A b \in Actor : map[b] \in Gen \cup {None} /\ slot[b] \in Slot
      /\ Actor = Proc \cup {"gui", "run"} /\ "gui" \notin Proc /\ "run" \notin Proc
  BY Constants DEF TypeOK, Actor
<1>2. ASSUME NEW b \in {"gui", "run"}
      PROVE  /\ Saving(b, p)' <=> Saving(b, p)
             /\ Saving(b, p) => val'[map'[b]][slot'[b]] = val[map[b]][slot[b]]
  <2>1. CASE b = a
    BY <2>1
  <2>2. CASE b # a
    <3>1. pc'[b] = pc[b] /\ map'[b] = map[b] /\ slot'[b] = slot[b]
      BY <1>1, <2>2 DEF Same
    <3>2. pc[b] \in {"trunc", "write"} => map[b] \in Gen /\ slot[b] \in Slot
      BY <1>1 DEF Layout, AtSlot
    <3> QED
      BY <3>1, <3>2 DEF Saving
  <2> QED
    BY <2>1, <2>2
<1>3. ASSUME NEW c \in Proc
      PROVE  /\ Adding(c, p)' => (Adding(c, p) /\ pc'[c] = pc[c]) \/ pc'[c] = "set"
             /\ Adding(c, p) => Adding(c, p)' /\ pc'[c] = pc[c]
             /\ Adding(c, p) /\ pc[c] \in {"read", "trunc", "write"} =>
                  val'[map'[c]][slot'[c]] = val[map[c]][slot[c]]
  <2>1. CASE c = a
    BY <2>1
  <2>2. CASE c # a
    <3>1. pc'[c] = pc[c] /\ map'[c] = map[c] /\ slot'[c] = slot[c] /\ ent'[c] = ent[c]
      BY <1>1, <2>2 DEF Same
    <3>2. pc[c] \in {"read", "trunc", "write"} =>
            map[c] \in Gen /\ slot[c] \in Slot /\ key[map[c]][slot[c]] = Entry[ent[c]]
      BY <1>1 DEF RaceFree, Progress, Layout, AtEntry
    <3>3. Adding(c, p)' <=> Adding(c, p)
      BY <3>1 DEF Adding
    <3>4. Adding(c, p) /\ pc[c] \in {"read", "trunc", "write"} => key[map[c]][slot[c]] = p
      BY <3>2 DEF Adding
    <3>5. Adding(c, p) /\ pc[c] \in {"read", "trunc", "write"} =>
            val'[map[c]][slot[c]] = val[map[c]][slot[c]]
      BY <3>2, <3>4
    <3> QED
      BY <3>1, <3>3, <3>5
  <2> QED
    BY <2>1, <2>2
<1>4. path # None => path \in Gen
  BY DEF TypeOK
<1>5. InitialValue(p)' = InitialValue(p) /\ Left(p)' = Left(p) /\ Printings(p)' = Printings(p)
  BY LeftSame DEF InitialValue
<1>6. (/\ \A b \in {"gui", "run"} : ~Saving(b, p)'
       /\ \A c \in Proc : Adding(c, p)' => pc'[c] \in {"set", "read"})
        => file'[p] \in Printings(p)' \/ (file'[p] = None /\ want'[p] = InitialValue(p)')
  BY <1>2, <1>3, <1>5 DEF Kept
<1>7. path' # None /\ (\A c \in Proc : Adding(c, p)' => pc'[c] # "read")
        => \A s \in Slot : key'[path'][s] = p => val'[path'][s] \in Left(p)'
  BY <1>3, <1>4, <1>5 DEF Kept
<1>8. ASSUME NEW c \in Proc, Adding(c, p)'
      PROVE  /\ pc'[c] = "read" => val'[map'[c]][slot'[c]] = InitialValue(p)'
             /\ pc'[c] \in {"trunc", "write"} => val'[map'[c]][slot'[c]] \in Left(p)'
  BY <1>3, <1>5, <1>8 DEF Kept
<1>9. \A b \in {"gui", "run"} : Saving(b, p)' => val'[map'[b]][slot'[b]] \in Left(p)'
  BY <1>2, <1>5 DEF Kept
<1> QED
  BY <1>6, <1>7, <1>8, <1>9 DEF Kept

(* An entry is reset: its file has the value it was told, if it has one.   *)
LEMMA SetEntryKept ==
  ASSUME TypeOK, RaceFree, Layout, NEW p \in Param, p \notin exposed => Kept(p), p \notin exposed',
         NEW c \in Proc, SetEntry(c)
  PROVE  Kept(p)'
<1> DEFINE g == map[c]
           s == slot[c]
           P == Entry[ent[c]]
<1>1. /\ pc[c] = "set" /\ g \in Gen /\ s \in Slot /\ P \in Param /\ P # None
      /\ c \in Actor /\ "gui" \notin Proc /\ "run" \notin Proc /\ Actor = Proc \cup {"gui", "run"}
  BY Constants DEF SetEntry, Mapped, TypeOK, Actor
<1>2. /\ key' = [key EXCEPT ![g][s] = P] /\ val' = [val EXCEPT ![g][s] = InitialValue(P)]
      /\ Goto(c, "read") /\ UNCHANGED <<path, file, map, slot, ent, want>>
      /\ exposed' = exposed \/ exposed' = exposed \cup {P}
      /\ (\E a \in {"gui", "run"} : Saving(a, P)) => P \in exposed'
  BY DEF SetEntry
<1>3. /\ pc'[c] = "read" /\ \A a \in Actor : a # c => Same(a) /\ pc'[a] = pc[a]
      /\ key'[g][s] = P /\ val'[g][s] = InitialValue(P)
      /\ \A h \in Gen, u \in Slot : h # g \/ u # s => key'[h][u] = key[h][u] /\ val'[h][u] = val[h][u]
  BY <1>1, <1>2 DEF Goto, TypeOK, Same
<1>4. key[g][s] \in {P, None}
  BY <1>1 DEF RaceFree, Progress
<1>5. Kept(p)
  BY <1>2
<1>6. ASSUME p # P
      PROVE  Kept(p)'
  <2>1. \A h \in Gen : \A u \in Slot : /\ key'[h][u] = p <=> key[h][u] = p
                                       /\ key[h][u] = p => val'[h][u] = val[h][u]
    BY <1>3, <1>4, <1>6, Constants
  <2>2. ~Adding(c, p) /\ ~Adding(c, p)'
    BY <1>2, <1>6 DEF Adding
  <2> HIDE DEF P, g, s
  <2> QED
    BY <1>1, <1>2, <1>3, <1>5, <2>1, <2>2, KeptFrame
<1>7. ASSUME p = P
      PROVE  Kept(p)'
  <2>1. \A a \in {"gui", "run"} : ~Saving(a, p)
    BY <1>2, <1>7
  <2>2. \A a \in {"gui", "run"} : ~Saving(a, p)'
    <3> SUFFICES ASSUME NEW a \in {"gui", "run"}, Saving(a, p)' PROVE FALSE
      OBVIOUS
    <3>1. a \in Actor /\ a # c /\ pc'[a] = pc[a] /\ map'[a] = map[a] /\ slot'[a] = slot[a]
      BY <1>1, <1>2, <1>3
    <3>2. pc[a] \in {"trunc", "write"} /\ key'[map[a]][slot[a]] = p
      BY <3>1 DEF Saving
    <3>3. map[a] \in Gen /\ slot[a] \in Slot /\ key[map[a]][slot[a]] # None
      BY <3>1, <3>2 DEF Layout, AtSlot, TypeOK
    <3>4. key[map[a]][slot[a]] = p
      BY <1>3, <1>4, <1>7, <3>2, <3>3
    <3> QED
      BY <2>1, <3>2, <3>4 DEF Saving
  <2>3. Adding(c, p) /\ Adding(c, p)'
    BY <1>1, <1>2, <1>3, <1>7 DEF Adding
  <2>4. \A d \in Proc : d # c => ~Adding(d, p) /\ ~Adding(d, p)'
    <3>1. \A d \in Proc : d # c => pc[d] \notin Busy /\ pc'[d] = pc[d]
      BY <1>1, <1>3 DEF RaceFree, Alone, Busy
    <3> QED
      BY <3>1 DEF Adding, Busy
  <2>5. file[p] \in Printings(p) \/ (file[p] = None /\ want[p] = InitialValue(p))
    BY <1>1, <1>5, <2>1, <2>4 DEF Kept
  <2>6. /\ InitialValue(p)' = InitialValue(p) /\ val'[map'[c]][slot'[c]] = InitialValue(p)
        /\ Printings(p)' = Printings(p)
    BY <1>2, <1>3, <1>7, LeftSame DEF InitialValue
  <2> HIDE DEF P, g, s
  <2> QED
    BY <1>2, <1>3, <2>2, <2>3, <2>4, <2>5, <2>6 DEF Kept
<1> QED
  BY <1>6, <1>7

(* The file is read: its value, or else the one of the call, is the value  *)
(* that the parameter was told.                                            *)
LEMMA ReadFileKept ==
  ASSUME TypeOK, RaceFree, Layout, NEW p \in Param, p \notin exposed => Kept(p), p \notin exposed',
         NEW c \in Proc, ReadFile(c)
  PROVE  Kept(p)'
<1> DEFINE g == map[c]
           s == slot[c]
           P == Entry[ent[c]]
<1>1. /\ pc[c] = "read" /\ g \in Gen /\ s \in Slot /\ P \in Param /\ P # None
      /\ c \in Actor /\ "gui" \notin Proc /\ "run" \notin Proc /\ Actor = Proc \cup {"gui", "run"}
  BY Constants DEF ReadFile, Mapped, TypeOK, Actor
<1>2. /\ UNCHANGED <<path, key, file, map, slot, want>>
      /\ exposed' = exposed \/ exposed' = exposed \cup {P}
      /\ (\E a \in {"gui", "run"} : Saving(a, P)) => P \in exposed'
      /\ IF file[P] \notin {None, Empty} THEN val' = [val EXCEPT ![g][s] = Scanned[file[P]]] ELSE UNCHANGED val
      /\ \/ file[P] \notin {None, Empty} /\ AfterEntry(c)
         \/ Goto(c, "trunc") /\ UNCHANGED ent
  BY DEF ReadFile, Contents
<1>3. /\ pc'[c] \in {"find", "on", "trunc"} /\ (pc'[c] \in {"find", "on"} => file[P] \notin {None, Empty})
      /\ pc'[c] = "trunc" => ent' = ent
      /\ \A a \in Actor : a # c => Same(a) /\ pc'[a] = pc[a]
  <2>1. CASE AfterEntry(c) /\ file[P] \notin {None, Empty}
    BY <1>1, <1>2, <2>1 DEF AfterEntry, Goto, TypeOK, Same
  <2>2. CASE Goto(c, "trunc") /\ UNCHANGED ent
    BY <1>1, <1>2, <2>2 DEF Goto, TypeOK, Same
  <2> QED
    BY <1>2, <2>1, <2>2
<1>4. key[g][s] = P /\ (path # None => g = path)
  BY <1>1 DEF Layout, AtEntry
<1>5. \A h \in Gen, u \in Slot : h # g \/ u # s => val'[h][u] = val[h][u]
  BY <1>1, <1>2 DEF TypeOK
<1>6. Kept(p)
  BY <1>2
<1>7. ASSUME p # P
      PROVE  Kept(p)'
  <2>1. \A h \in Gen : \A u \in Slot : key[h][u] = p => val'[h][u] = val[h][u]
    BY <1>4, <1>5, <1>7
  <2>2. ~Adding(c, p) /\ ~Adding(c, p)'
    BY <1>3, <1>7 DEF Adding
  <2> HIDE DEF P, g, s
  <2> QED
    BY <1>1, <1>2, <1>3, <1>6, <2>1, <2>2, KeptFrame
<1>8. ASSUME p = P
      PROVE  Kept(p)'
  <2>1. \A a \in {"gui", "run"} : ~Saving(a, p) /\ ~Saving(a, p)'
    <3>1. \A a \in {"gui", "run"} : ~Saving(a, p) /\ a \in Actor /\ a # c
      BY <1>1, <1>2, <1>8
    <3> QED
      BY <1>2, <1>3, <3>1 DEF Saving
  <2>2. Adding(c, p) /\ (Adding(c, p)' => pc'[c] = "trunc")
    BY <1>1, <1>3, <1>8 DEF Adding
  <2>3. \A d \in Proc : d # c => ~Adding(d, p) /\ ~Adding(d, p)'
    <3>1. \A d \in Proc : d # c => pc[d] \notin Busy /\ pc'[d] = pc[d]
      BY <1>1, <1>3 DEF RaceFree, Alone, Busy
    <3> QED
      BY <3>1 DEF Adding, Busy
  <2>4. file[p] \in Printings(p) \/ (file[p] = None /\ want[p] = InitialValue(p))
    BY <1>1, <1>6, <2>1, <2>3 DEF Kept
  <2>5. want[p] \in Data /\ Empty \notin Data /\ val[g][s] = InitialValue(p)
    BY <1>1, <1>6, <2>2, ParamAssumption DEF Kept, TypeOK
  <2>6. val'[g][s] \in Left(p) /\ (file[P] \notin {None, Empty} => file[p] \in Printings(p))
    <3>1. CASE file[P] \notin {None, Empty}
      <4>1. file[p] \in Printings(p) /\ val'[g][s] = Scanned[file[p]]
        BY <1>1, <1>2, <1>8, <2>4, <3>1 DEF TypeOK
      <4> QED
        BY <1>8, <4>1, LeftFacts
    <3>2. CASE file[P] \in {None, Empty}
      <4>1. file[p] \notin Printings(p)
        BY <1>8, <2>5, <3>2, LeftFacts, Constants
      <4> QED
        BY <1>2, <1>8, <2>4, <2>5, <3>2, <4>1, LeftFacts
    <3> QED
      BY <3>1, <3>2
  <2>7. path # None => \A u \in Slot : key[path][u] = p => u = s
    BY <1>1, <1>4, <1>8 DEF RaceFree, Distinct
  <2> HIDE DEF P, g, s
  <2>13. Left(p)' = Left(p) /\ Printings(p)' = Printings(p)
    BY <1>2, LeftSame
  <2>8. pc'[c] # "trunc" => file'[p] \in Printings(p)'
    BY <1>2, <1>3, <1>8, <2>6, <2>13
  <2>9. /\ map'[c] = g /\ slot'[c] = s
        /\ path' # None => \A u \in Slot : key'[path'][u] = p => val'[path'][u] \in Left(p)'
    BY <1>2, <1>4, <2>6, <2>7, <2>13 DEF g, s
  <2>10. pc'[c] = "trunc" => Adding(c, p)'
    BY <1>3, <1>8 DEF Adding, P
  <2>11. \A d \in Proc : Adding(d, p)' => d = c /\ pc'[d] = "trunc"
    BY <2>2, <2>3
  <2>12. val'[map'[c]][slot'[c]] \in Left(p)'
    BY <1>2, <2>6, <2>9, <2>13
  <2> QED
    BY <2>1, <2>8, <2>9, <2>10, <2>11, <2>12 DEF Kept
<1> QED
  BY <1>7, <1>8

(* A structure is made: it has no values yet, and nobody has mapped it.    *)
LEMMA OpenKept ==
  ASSUME TypeOK, RaceFree, Layout, NEW p \in Param, p \notin exposed => Kept(p), p \notin exposed',
         NEW c \in Proc, Open(c)
  PROVE  Kept(p)'
<1>1. /\ c \in Actor /\ pc[c] = "open" /\ path = None /\ Kept(p) /\ p # None
      /\ "gui" \notin Proc /\ "run" \notin Proc /\ Actor = Proc \cup {"gui", "run"}
  BY Constants DEF Open, Actor, RaceFree, Made, history
<1>2. PICK g \in Gen : /\ size[g] = "none" /\ path' = g
                       /\ key' = [key EXCEPT ![g] = [s \in Slot |-> None]]
                       /\ val' = [val EXCEPT ![g] = [s \in Slot |-> Default]]
  BY <1>1 DEF Open
<1>3. /\ UNCHANGED <<file, want>> /\ pc'[c] = "fill"
      /\ \A a \in Actor : a # c => pc'[a] = pc[a] /\ map'[a] = map[a] /\ slot'[a] = slot[a]
  BY <1>1 DEF Open, Goto, TypeOK, history
<1>4. \A a \in {"gui", "run"} : (Saving(a, p)' <=> Saving(a, p))
                                /\ (Saving(a, p) => val'[map'[a]][slot'[a]] = val[map[a]][slot[a]])
  <2> SUFFICES ASSUME NEW a \in {"gui", "run"}
               PROVE  (Saving(a, p)' <=> Saving(a, p))
                      /\ (Saving(a, p) => val'[map'[a]][slot'[a]] = val[map[a]][slot[a]])
    OBVIOUS
  <2>1. a \in Actor /\ a # c /\ pc'[a] = pc[a] /\ map'[a] = map[a] /\ slot'[a] = slot[a]
    BY <1>1, <1>3
  <2>2. pc[a] \in {"trunc", "write"} => map[a] \in Gen /\ map[a] # g
    BY <1>2, <2>1 DEF Layout, AtSlot, RaceFree, Made, TypeOK
  <2>3. pc[a] \in {"trunc", "write"} => key'[map[a]] = key[map[a]] /\ val'[map[a]] = val[map[a]]
    BY <1>2, <2>2 DEF TypeOK
  <2> QED
    BY <2>1, <2>3 DEF Saving
<1>5. \A d \in Proc : ~Adding(d, p) /\ ~Adding(d, p)'
  <2>1. \A d \in Proc : d # c => pc[d] \notin Busy /\ pc'[d] = pc[d]
    BY <1>1, <1>3 DEF RaceFree, Alone, Busy
  <2> QED
    BY <1>1, <1>3, <2>1 DEF Adding, Busy
<1>6. \A s \in Slot : key'[path'][s] # p
  BY <1>1, <1>2 DEF TypeOK
<1>7. InitialValue(p)' = InitialValue(p) /\ Left(p)' = Left(p) /\ Printings(p)' = Printings(p)
  BY <1>3, LeftSame DEF InitialValue
<1> QED
  BY <1>1, <1>3, <1>4, <1>5, <1>6, <1>7 DEF Kept

(* The value is saved: what is written is what the parameter was told.     *)
LEMMA SaveKept ==
  ASSUME TypeOK, RaceFree, Layout, NEW p \in Param, p \notin exposed => Kept(p), p \notin exposed',
         NEW a \in Actor, Truncate(a) \/ Write(a)
  PROVE  Kept(p)'
<1>1. /\ a \in Proc \/ a \in {"gui", "run"}
      /\ "gui" \notin Proc /\ "run" \notin Proc
      /\ Actor = Proc \cup {"gui", "run"} /\ map[a] \in Gen /\ slot[a] \in Slot
  BY Constants DEF Actor, Truncate, Write, Mapped, TypeOK
<1>2. /\ UNCHANGED <<path, key, val, map, slot, want>> /\ Kept(p)
      /\ pc[a] \in {"trunc", "write"}
  BY DEF Truncate, Write, shmVars, history
<1>3. /\ pc'[a] \in {"write", "find", "on"} /\ (Truncate(a) => pc'[a] = "write" /\ ent' = ent)
      /\ Write(a) => pc'[a] \in {"find", "on"}
      /\ \A b \in Actor : b # a => Same(b)
  <2>1. CASE Truncate(a)
    <3>1. pc[a] = "trunc" /\ Goto(a, "write") /\ UNCHANGED <<map, slot, ent>>
      BY <2>1 DEF Truncate
    <3>2. pc'[a] = "write" /\ ent' = ent /\ \A b \in Actor : b # a => Same(b)
      BY <3>1 DEF Goto, TypeOK, Same
    <3>3. ~Write(a)
      BY <3>1 DEF Write
    <3> QED
      BY <3>2, <3>3
  <2>2. CASE Write(a)
    <3>1. /\ pc[a] = "write" /\ UNCHANGED <<map, slot>>
          /\ IF a \in Proc THEN AfterEntry(a) ELSE Goto(a, "on") /\ UNCHANGED ent
      BY <2>2 DEF Write
    <3>2. pc'[a] \in {"find", "on"} /\ \A b \in Actor : b # a => Same(b)
      BY <3>1 DEF AfterEntry, Goto, TypeOK, Same
    <3>3. ~Truncate(a)
      BY <3>1 DEF Truncate
    <3> QED
      BY <3>2, <3>3
  <2> QED
    BY <2>1, <2>2
<1>4. a \in Proc => key[map[a]][slot[a]] = Entry[ent[a]]
  BY <1>2 DEF Layout, AtEntry
<1>5. /\ a \in Proc => (Adding(a, p) <=> key[map[a]][slot[a]] = p)
      /\ a \in Proc => (Adding(a, p)' <=> Truncate(a) /\ key[map[a]][slot[a]] = p)
  BY <1>2, <1>3, <1>4 DEF Adding
<1>6. /\ a \in {"gui", "run"} => (Saving(a, p) <=> key[map[a]][slot[a]] = p)
      /\ a \in {"gui", "run"} => (Saving(a, p)' <=> Truncate(a) /\ key[map[a]][slot[a]] = p)
  BY <1>2, <1>3 DEF Saving
<1>7. CASE key[map[a]][slot[a]] # p
  <2>1. file'[p] = file[p]
    BY <1>7 DEF Truncate, Write, Filed
  <2> QED
    BY <1>1, <1>2, <1>3, <1>5, <1>6, <1>7, <2>1, KeptFrame
<1>8. CASE key[map[a]][slot[a]] = p
  <2>1. val[map[a]][slot[a]] \in Left(p)
    BY <1>1, <1>2, <1>5, <1>6, <1>8 DEF Kept
  <2>2. /\ Write(a) => file'[p] \in Printings(p)
        /\ Truncate(a) => (a \in Proc /\ Adding(a, p)' /\ pc'[a] = "write")
                          \/ (a \in {"gui", "run"} /\ Saving(a, p)')
    BY <1>1, <1>3, <1>5, <1>6, <1>8, <2>1, LeftFacts DEF Write, Filed
  <2>3. \A b \in {"gui", "run"} : Saving(b, p)' => Saving(b, p)
    BY <1>1, <1>2, <1>3, <1>6 DEF Saving, Same
  <2>4. \A d \in Proc : /\ Adding(d, p)' => Adding(d, p) /\ (pc'[d] = "write" \/ pc'[d] = pc[d])
                        /\ pc'[d] \in {"trunc", "write"} => pc[d] \in {"trunc", "write"}
                        /\ Adding(d, p) /\ pc[d] = "read" => Adding(d, p)' /\ pc'[d] = "read"
    <3> SUFFICES ASSUME NEW d \in Proc
                 PROVE  /\ Adding(d, p)' => Adding(d, p) /\ (pc'[d] = "write" \/ pc'[d] = pc[d])
                        /\ pc'[d] \in {"trunc", "write"} => pc[d] \in {"trunc", "write"}
                        /\ Adding(d, p) /\ pc[d] = "read" => Adding(d, p)' /\ pc'[d] = "read"
      OBVIOUS
    <3>1. CASE d = a
      BY <1>2, <1>3, <1>5, <3>1
    <3>2. CASE d # a
      BY <1>1, <1>3, <3>2 DEF Adding, Same
    <3> QED
      BY <3>1, <3>2
  <2>5. InitialValue(p)' = InitialValue(p) /\ Left(p)' = Left(p) /\ Printings(p)' = Printings(p)
    BY <1>2, LeftSame DEF InitialValue
  <2>6. (/\ \A b \in {"gui", "run"} : ~Saving(b, p)'
         /\ \A d \in Proc : Adding(d, p)' => pc'[d] \in {"set", "read"}) => file'[p] \in Printings(p)'
    BY <1>2, <2>2, <2>5
  <2>7. path' # None /\ (\A d \in Proc : Adding(d, p)' => pc'[d] # "read")
          => \A s \in Slot : key'[path'][s] = p => val'[path'][s] \in Left(p)'
    BY <1>2, <2>4, <2>5 DEF Kept
  <2>8. ASSUME NEW d \in Proc, Adding(d, p)'
        PROVE  /\ pc'[d] = "read" => val'[map'[d]][slot'[d]] = InitialValue(p)'
               /\ pc'[d] \in {"trunc", "write"} => val'[map'[d]][slot'[d]] \in Left(p)'
    BY <1>2, <2>4, <2>5, <2>8 DEF Kept
  <2>9. \A b \in {"gui", "run"} : Saving(b, p)' => val'[map'[b]][slot'[b]] \in Left(p)'
    BY <1>2, <2>3, <2>5 DEF Kept
  <2> QED
    BY <2>6, <2>7, <2>8, <2>9 DEF Kept
<1> QED
  BY <1>7, <1>8

(* fpsCTRL or RUN puts a value for q, or finds the one that q was told, in *)
(* the slot s that has this keyword, and may go on to save it.             *)
LEMMA ToldStep ==
  ASSUME TypeOK, RaceFree, Layout, NEW p \in Param, p \notin exposed => Kept(p), p \notin exposed',
         NEW a \in {"gui", "run"}, pc[a] = "on", map[a] \in Gen,
         UNCHANGED <<path, key, file, map, ent>>, NEW q \in Param,
         NEW s \in Slot, key[map[a]][s] = p <=> q = p, NEW t \in Slot, key[map[a]][t] = p <=> q = p,
         \/ \E v : val' = [val EXCEPT ![map[a]][s] = v] /\ want' = [want EXCEPT ![q] = v]
         \/ UNCHANGED <<val, want>> /\ (q = p => val[map[a]][s] \in Left(q)),
         \/ Goto(a, "trunc") /\ slot' = [slot EXCEPT ![a] = t]
         \/ UNCHANGED pc /\ q # p /\ (UNCHANGED slot \/ slot' = [slot EXCEPT ![a] = t]),
         NEW clean, Expose(a, q, clean)
  PROVE  Kept(p)'
<1> DEFINE g == map[a]
<1>1. /\ a \in Actor /\ "gui" \notin Proc /\ "run" \notin Proc
      /\ Actor = Proc \cup {"gui", "run"} /\ p # None /\ ~Saving(a, p)
  BY Constants DEF Actor, Saving
<1>2. \A b \in Actor : b # a => Same(b)
  BY <1>1 DEF Same, Goto, TypeOK
<1> HIDE DEF g
<1>3. CASE q # p
  <2>1. /\ want'[p] = want[p] /\ p \notin exposed
        /\ \A h \in Gen, u \in Slot : key[h][u] = p => val'[h][u] = val[h][u]
    <3>1. p \notin exposed
      BY <1>3 DEF Expose
    <3>2. CASE UNCHANGED <<val, want>>
      BY <3>1, <3>2
    <3>3. ASSUME NEW v, val' = [val EXCEPT ![g][s] = v], want' = [want EXCEPT ![q] = v]
          PROVE  /\ want'[p] = want[p]
                 /\ \A h \in Gen, u \in Slot : key[h][u] = p => val'[h][u] = val[h][u]
      <4>1. want'[p] = want[p] /\ key[g][s] # p
        BY <1>3, <3>3 DEF TypeOK, g
      <4> QED
        BY <3>3, <4>1 DEF TypeOK
    <3> QED
      BY <3>1, <3>2, <3>3 DEF g
  <2>2. ~Saving(a, p)'
    <3>1. CASE pc' = pc
      BY <3>1 DEF Saving
    <3>2. CASE slot' = [slot EXCEPT ![a] = t]
      <4>1. slot'[a] = t /\ map'[a] = map[a] /\ key'[map[a]][t] # p
        BY <1>1, <1>3, <3>2 DEF TypeOK
      <4> QED
        BY <4>1 DEF Saving
    <3> QED
      BY <3>1, <3>2
  <2> QED
    BY <1>1, <1>2, <2>1, <2>2, KeptFrame
<1>4. CASE q = p
  <2>1. key[g][s] = p /\ s = t /\ g \in Gen
    BY <1>1, <1>4 DEF RaceFree, Distinct, g
  <2>2. g = path /\ ~Met(p) /\ Goto(a, "trunc") /\ slot' = [slot EXCEPT ![a] = s]
    BY <1>4, <2>1 DEF Expose, g
  <2>3. pc'[a] = "trunc" /\ map'[a] = g /\ slot'[a] = s
    BY <1>1, <2>2 DEF Goto, g, TypeOK
  <2>4. val'[g][s] \in Left(p)'
    <3>1. CASE UNCHANGED <<val, want>> /\ (q = p => val[g][s] \in Left(q))
      BY <1>4, <3>1, LeftSame
    <3>2. ASSUME NEW v, val' = [val EXCEPT ![g][s] = v], want' = [want EXCEPT ![q] = v]
          PROVE  val'[g][s] \in Left(p)'
      <4>1. val'[g][s] = want'[p]
        BY <1>4, <2>1, <3>2 DEF TypeOK
      <4> QED
        BY <4>1 DEF Left
    <3> QED
      BY <3>1, <3>2 DEF g
  <2>5. Saving(a, p)'
    BY <2>1, <2>3 DEF Saving
  <2>6. \A b \in {"gui", "run"} : b # a => ~Saving(b, p)'
    BY <1>1, <1>2, <2>2 DEF Met, Saving, Same
  <2>7. \A c \in Proc : ~Adding(c, p)'
    BY <1>1, <1>2, <2>2 DEF Met, Adding, Same
  <2>8. \A u \in Slot : key'[path'][u] = p => val'[path'][u] \in Left(p)'
    <3>1. \A u \in Slot : key[g][u] = p => u = s
      BY <1>1, <2>1 DEF RaceFree, Distinct
    <3> QED
      BY <2>2, <2>4, <3>1
  <2>9. \A b \in {"gui", "run"} : Saving(b, p)' => val'[map'[b]][slot'[b]] \in Left(p)'
    BY <2>3, <2>4, <2>6
  <2> QED
    BY <2>5, <2>7, <2>8, <2>9 DEF Kept
<1> QED
  BY <1>3, <1>4

(* fpsCTRL or RUN is told, or saves, the value of a parameter.             *)
LEMMA ToldKept ==
  ASSUME TypeOK, RaceFree, Layout, NEW p \in Param, ~Ambiguous(p),
         p \notin exposed => Kept(p), p \notin exposed',
         NEW q \in Param, NEW v,
         GuiSetval(q, v) \/ GuiEdit(q, v) \/ RunSet(q, v) \/ RunSave(q)
  PROVE  Kept(p)'
<1>1. /\ "gui" \notin Proc /\ "run" \notin Proc /\ Actor = Proc \cup {"gui", "run"}
      /\ "gui" \in Actor /\ "run" \in Actor /\ p # None /\ Sorted(p)
      /\ \A a \in {"gui", "run"} : map[a] # None => map[a] \in Gen
  BY Constants DEF Actor, Layout, TypeOK
<1>2. ASSUME NEW a \in {"gui", "run"}, map[a] \in Gen
      PROVE  \A s \in GetParamIndex(map[a], q) : s \in Slot /\ (key[map[a]][s] = p <=> q = p)
  BY <1>1, <1>2, Lookup, FoundHasKey
<1>3. pc["gui"] = "on" /\ map["gui"] \in Gen =>
        \A s \in node[q] : s \in Slot /\ (key[map["gui"]][s] = p <=> q = p)
  BY <1>1, Constants DEF Layout, AtSlot, TypeOK
<1>4. ASSUME Exit("run"), pc["run"] = "on", UNCHANGED <<path, key, val, file, want, exposed>>
      PROVE  Kept(p)'
  <2>1. Ended("run") /\ \A b \in Actor : b # "run" => Same(b)
    BY <1>1, <1>4, ExitEnds
  <2>2. ~Saving("run", p) /\ ~Saving("run", p)'
    BY <1>4, <2>1 DEF Ended, Saving
  <2> QED
    BY <1>1, <1>4, <2>1, <2>2, KeptFrame
<1>5. CASE GuiSetval(q, v)
  <2>1. /\ pc["gui"] = "on" /\ map["gui"] \in Gen /\ UNCHANGED <<path, key, file, map, ent>>
        /\ Goto("gui", "trunc") /\ Expose("gui", q, TRUE)
    BY <1>1, <1>5 DEF GuiSetval, Mapped
  <2>2. PICK s \in GetParamIndex(map["gui"], q) :
          val' = [val EXCEPT ![map["gui"]][s] = v] /\ want' = [want EXCEPT ![q] = v]
    BY <1>5 DEF GuiSetval, Told
  <2>3. PICK t \in node[q] : slot' = [slot EXCEPT !["gui"] = t]
    BY <1>5 DEF GuiSetval
  <2>4. /\ s \in Slot /\ (key[map["gui"]][s] = p <=> q = p)
        /\ t \in Slot /\ (key[map["gui"]][t] = p <=> q = p)
    BY <1>2, <1>3, <2>1
  <2> QED
    BY <2>1, <2>2, <2>3, <2>4, ToldStep
<1>6. CASE GuiEdit(q, v)
  <2>1. /\ pc["gui"] = "on" /\ map["gui"] \in Gen /\ UNCHANGED <<path, key, file, map, ent>>
        /\ IF q \in Saved THEN Goto("gui", "trunc") ELSE UNCHANGED pc
        /\ Expose("gui", q, q \in Saved)
    BY <1>1, <1>6 DEF GuiEdit, Mapped
  <2>2. PICK s \in node[q] : /\ val' = [val EXCEPT ![map["gui"]][s] = v] /\ want' = [want EXCEPT ![q] = v]
                             /\ slot' = [slot EXCEPT !["gui"] = s]
    BY <1>6 DEF GuiEdit, Told
  <2>3. s \in Slot /\ (key[map["gui"]][s] = p <=> q = p)
    BY <1>3, <2>1
  <2>4. q \notin Saved => q # p
    BY <2>1 DEF Expose
  <2> QED
    BY <2>1, <2>2, <2>3, <2>4, ToldStep
<1>7. CASE RunSet(q, v)
  <2>1. pc["run"] = "on" /\ map["run"] \in Gen /\ UNCHANGED <<path, key, file>>
    BY <1>1, <1>7 DEF RunSet, Mapped
  <2>2. CASE Exit("run") /\ UNCHANGED <<val, want, exposed>>
    BY <1>4, <2>1, <2>2
  <2>3. CASE /\ \E s \in GetParamIndex(map["run"], q) : Told("run", q, s, v)
             /\ Expose("run", q, FALSE) /\ UNCHANGED <<pc, map, slot, ent>>
    <3>1. PICK s \in GetParamIndex(map["run"], q) :
            val' = [val EXCEPT ![map["run"]][s] = v] /\ want' = [want EXCEPT ![q] = v]
      BY <2>3 DEF Told
    <3>2. q # p /\ s \in Slot /\ (key[map["run"]][s] = p <=> q = p)
      BY <1>2, <2>1, <2>3 DEF Expose
    <3> QED
      BY <2>1, <2>3, <3>1, <3>2, ToldStep
  <2> QED
    BY <1>7, <2>2, <2>3 DEF RunSet
<1>8. CASE RunSave(q)
  <2>1. pc["run"] = "on" /\ map["run"] \in Gen /\ UNCHANGED <<path, key, file, val, want>>
    BY <1>1, <1>8 DEF RunSave, Mapped, shmVars
  <2>2. CASE Exit("run") /\ UNCHANGED exposed
    BY <1>4, <2>1, <2>2
  <2>3. ASSUME NEW s \in GetParamIndex(map["run"], q),
               Goto("run", "trunc"), slot' = [slot EXCEPT !["run"] = s], UNCHANGED <<map, ent>>,
               Expose("run", q, val[map["run"]][s] \in Left(q))
        PROVE  Kept(p)'
    <3>1. s \in Slot /\ (key[map["run"]][s] = p <=> q = p)
      BY <1>2, <2>1, <2>3
    <3>2. q = p => val[map["run"]][s] \in Left(q)
      BY <2>3 DEF Expose
    <3> QED
      BY <2>1, <2>3, <3>1, <3>2, ToldStep
  <2> QED
    BY <1>8, <2>2, <2>3 DEF RunSave
<1> QED
  BY <1>5, <1>6, <1>7, <1>8

(* The steps that neither set nor save a value.                            *)
LEMMA OtherStepKept ==
  ASSUME TypeOK, RaceFree, Layout, NEW p \in Param, p \notin exposed => Kept(p), p \notin exposed',
         \/ \E c \in Proc : \/ Remove(c) \/ Fill(c) \/ Connect(c) \/ FindEntry(c)
                            \/ \E l \in {"remove", "connect"} : Setup(c, l)
         \/ \E a \in Actor : Die(a)
         \/ GuiScan \/ GuiErase \/ RunConnect
  PROVE  Kept(p)'
<1>1. /\ "gui" \notin Proc /\ "run" \notin Proc /\ Actor = Proc \cup {"gui", "run"}
      /\ "gui" \in Actor /\ "run" \in Actor /\ AtSlot
      /\ pc \in [Actor -> Busy \cup {"off", "on"}] /\ map \in [Actor -> Gen \cup {None}]
      /\ slot \in [Actor -> Slot] /\ ent \in [Proc -> 1 .. Len(Entry)]
  BY Constants DEF Actor, TypeOK, Layout
<1>2. ASSUME NEW a \in Actor, \A b \in Actor : b # a => Same(b),
             UNCHANGED <<key, val, file, want>>, path' \in {path, None}, p \notin exposed,
             a \in Proc => ~Adding(a, p) /\ pc'[a] \notin {"read", "trunc", "write"},
             a \in {"gui", "run"} => ~Saving(a, p) /\ pc'[a] \notin {"trunc", "write"}
      PROVE  Kept(p)'
  <2>1. /\ a \in Proc => (Adding(a, p)' => pc'[a] = "set")
        /\ a \in {"gui", "run"} => ~Saving(a, p)'
    BY <1>2 DEF Adding, Saving
  <2> QED
    BY <1>1, <1>2, <2>1, KeptFrame
<1>3. ASSUME NEW a \in Actor, Exit(a), UNCHANGED <<path, key, val, file, want>>, p \notin exposed,
             a \in Proc => ~Adding(a, p), a \in {"gui", "run"} => ~Saving(a, p)
      PROVE  Kept(p)'
  <2>1. Ended(a) /\ \A b \in Actor : b # a => Same(b)
    BY <1>3, ExitEnds
  <2> QED
    BY <1>2, <1>3, <2>1 DEF Ended
<1>4. ASSUME NEW c \in Proc, NEW l \in {"remove", "open", "connect", "find", "set"}, Goto(c, l),
             pc[c] \notin {"set", "read", "trunc", "write"},
             UNCHANGED <<key, val, file, want, ent>>, path' \in {path, None}, p \notin exposed,
             map' = map \/ (\E g : map' = [map EXCEPT ![c] = g]),
             slot' = slot \/ (\E s : slot' = [slot EXCEPT ![c] = s])
      PROVE  Kept(p)'
  <2>1. pc'[c] = l /\ (\A b \in Actor : b # c => Same(b)) /\ ~Adding(c, p) /\ c \in Actor /\ c \notin {"gui", "run"}
    BY <1>1, <1>4 DEF Goto, Same, Adding
  <2> QED
    BY <1>2, <1>4, <2>1
<1>5. ASSUME NEW c \in Proc, NEW l \in {"remove", "connect"}, Setup(c, l)
      PROVE  Kept(p)'
  BY <1>4, <1>5 DEF Setup, shmVars
<1>6. ASSUME NEW c \in Proc, Remove(c)
      PROVE  Kept(p)'
  BY <1>4, <1>6 DEF Remove, history
<1>7. ASSUME NEW c \in Proc, Fill(c)
      PROVE  Kept(p)'
  BY <1>4, <1>7 DEF Fill, history
<1>8. ASSUME NEW c \in Proc, Connect(c)
      PROVE  Kept(p)'
  <2>1. /\ UNCHANGED <<path, key, val, file, want, exposed>> /\ pc[c] = "connect"
        /\ c \in Actor /\ c \notin {"gui", "run"} /\ ~Adding(c, p)
    BY <1>1, <1>8 DEF Connect, shmVars, history, Adding
  <2>2. CASE Exit(c)
    BY <1>3, <2>1, <2>2
  <2>3. CASE Goto(c, "open") /\ UNCHANGED <<map, slot, ent>>
    BY <1>4, <2>1, <2>3
  <2>4. CASE map' = [map EXCEPT ![c] = path] /\ Goto(c, "find") /\ UNCHANGED <<slot, ent>>
    BY <1>4, <2>1, <2>4
  <2> QED
    BY <1>8, <2>2, <2>3, <2>4 DEF Connect
<1>9. ASSUME NEW c \in Proc, FindEntry(c)
      PROVE  Kept(p)'
  <2>1. /\ UNCHANGED <<path, key, val, file, want, exposed>> /\ pc[c] = "find"
        /\ c \in Actor /\ c \notin {"gui", "run"} /\ ~Adding(c, p)
    BY <1>1, <1>9 DEF FindEntry, shmVars, history, Adding
  <2>2. CASE Exit(c)
    BY <1>3, <2>1, <2>2
  <2>3. CASE \E s : Goto(c, "set") /\ slot' = [slot EXCEPT ![c] = s] /\ UNCHANGED <<map, ent>>
    BY <1>4, <2>1, <2>3
  <2> QED
    BY <1>9, <2>2, <2>3 DEF FindEntry
<1>10. ASSUME NEW a \in Actor, Die(a)
       PROVE  Kept(p)'
  <2>1. /\ Exit(a) /\ UNCHANGED <<path, key, val, file, want>>
        /\ exposed' = exposed \cup {q \in Param : Saving(a, q) \/ (a \in Proc /\ Adding(a, q))}
    BY <1>10 DEF Die, shmVars
  <2> QED
    BY <1>3, <2>1
<1>11. ASSUME NEW a \in {"gui", "run"}, pc[a] \in {"off", "on"}, Goto(a, "on") \/ (pc' = pc),
              UNCHANGED <<key, val, file, want, ent, slot>>, path' \in {path, None}, p \notin exposed,
              \E g : map' = [map EXCEPT ![a] = g]
       PROVE  Kept(p)'
  <2>1. /\ \A b \in Actor : b # a => Same(b)
        /\ a \in Actor /\ a \notin Proc /\ pc'[a] \in {"off", "on"} /\ ~Saving(a, p)
    BY <1>1, <1>11 DEF Goto, Same, Saving
  <2> QED
    BY <1>2, <1>11, <2>1
<1>12. CASE GuiScan
  <2>1. UNCHANGED <<path, key, val, file, want, exposed>> /\ pc["gui"] \in {"off", "on"}
    BY <1>12 DEF GuiScan, shmVars, history
  <2>2. CASE Exit("gui")
    BY <1>1, <1>3, <2>1, <2>2 DEF Saving
  <2>3. CASE (\E g : map' = [map EXCEPT !["gui"] = g]) /\ Goto("gui", "on") /\ UNCHANGED <<slot, ent>>
    BY <1>11, <2>1, <2>3
  <2> QED
    BY <1>12, <2>2, <2>3 DEF GuiScan
<1>13. CASE GuiErase
  BY <1>11, <1>13 DEF GuiErase, history
<1>14. CASE RunConnect
  BY <1>11, <1>14 DEF RunConnect, shmVars, history
<1> QED
  BY <1>5, <1>6, <1>7, <1>8, <1>9, <1>10, <1>12, <1>13, <1>14

(* ValueInv holds until two initialisations have met. *)
LEMMA ValueInvariant == Spec => [](~raced => ValueInv)
<1>1. Init => ValueInv
  <2> SUFFICES ASSUME Init, NEW p \in Param PROVE Kept(p)
    BY DEF ValueInv
  <2>1. /\ \A a \in Actor : pc[a] = "off"
        /\ path = None /\ file[p] = None /\ want[p] = InitialValue(p)
    BY DEF Init, InitialValue
  <2> QED
    BY <2>1 DEF Kept, Adding, Saving, Actor, Left
<1>2. /\ TypeOK /\ (~raced => RaceFree) /\ (~raced => Layout) /\ (~raced => ValueInv)
      /\ [Next]_vars
      => (~raced => ValueInv)'
  <2> SUFFICES ASSUME TypeOK, ~raced => RaceFree, ~raced => Layout, ~raced => ValueInv,
                      [Next]_vars, ~raced',
                      NEW p \in Param, ~Ambiguous(p), p \notin exposed'
               PROVE  Kept(p)'
    BY DEF ValueInv, Ambiguous
  <2>1. CASE UNCHANGED vars
    <3>1. /\ UNCHANGED <<path, key, val, file, pc, map, slot, ent, want, exposed, raced>>
      BY <2>1 DEF vars, shmVars, actVars, history
    <3>2. Kept(p)
      BY <3>1 DEF ValueInv
    <3> QED
      BY <3>1, <3>2 DEF Kept, Adding, Saving, InitialValue, Left, Printings
  <2>2. CASE Next
    <3>1. raced' = raced \/ (raced' = (raced \/ \E d \in Proc : pc[d] \in Busy))
      BY <2>2 DEF Next, InitStep, Remove, Open, Fill, Connect, FindEntry, SetEntry, ReadFile, Setup,
                  Truncate, Write, Die, GuiSetval, GuiEdit, RunSet, GuiScan, GuiErase, RunConnect,
                  RunSave, history
    <3>2. ~raced
      BY <3>1
    <3>3. RaceFree /\ Layout /\ (p \notin exposed => Kept(p))
      BY <3>2 DEF ValueInv
    <3>4. ASSUME NEW c \in Proc, Open(c) \/ SetEntry(c) \/ ReadFile(c)
          PROVE  Kept(p)'
      BY <3>3, <3>4, OpenKept, SetEntryKept, ReadFileKept
    <3>5. ASSUME NEW a \in Actor, Truncate(a) \/ Write(a)
          PROVE  Kept(p)'
      BY <3>3, <3>5, SaveKept
    <3>6. ASSUME NEW q \in Param, NEW v \in Value, GuiSetval(q, v) \/ GuiEdit(q, v) \/ RunSet(q, v)
          PROVE  Kept(p)'
      BY <3>3, <3>6, ToldKept
    <3>7. ASSUME NEW q \in Param, RunSave(q)
          PROVE  Kept(p)'
      BY <3>3, <3>7, ToldKept
    <3> QED
      BY <2>2, <3>3, <3>4, <3>5, <3>6, <3>7, OtherStepKept DEF Next, InitStep
  <2> QED
    BY <2>1, <2>2
<1> QED
  BY <1>1, <1>2, TypeCorrect, RaceFreeInvariant, LayoutInvariant, PTL DEF Spec

(* The value a parameter was last told, or what its file holds of it, is   *)
(* in its slot and its file, however often it was saved and read, through  *)
(* removal, creation and initialisation of the structure and restarts of   *)
(* every process (function_parameters.c:1549-1904, 2563-2725, 4021-4136),  *)
(* for any number of parameters, slots and processes.                      *)
THEOREM ValuesKept == Spec => []ValueKept
<1>1. TypeOK /\ (~raced => ValueInv) => ValueKept
  <2> SUFFICES ASSUME TypeOK, ~raced, ValueInv, NEW p \in Param, ~Met(p), ~Ambiguous(p), p \notin exposed
               PROVE  /\ file[p] \in Printings(p) \cup {None}
                      /\ path # None => \A s \in Having(path, p) : val[path][s] \in Left(p)
    BY DEF ValueKept, Printings
  <2> QED
    BY DEF ValueInv, Kept, Met, Having
<1> QED
  BY <1>1, TypeCorrect, ValueInvariant, PTL

=============================================================================
