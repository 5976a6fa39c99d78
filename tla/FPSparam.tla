------------------------------ MODULE FPSparam ------------------------------
(***************************************************************************)
(* The entries of one function parameter structure (function_parameters.c):*)
(* the shared memory file and who has it mapped, the keywords and values   *)
(* of its slots, and the setval file of each parameter, from which values  *)
(* come back when the structure is made anew.                              *)
(*                                                                         *)
(* Processes that initialise the FPS (FPSINITCREATE, FPSINIT, CONFSTART)   *)
(* add the entries one after another; fpsCTRL and a RUN process set and    *)
(* save values meanwhile.  Nothing keeps them apart.  A file that is       *)
(* removed lives on for those who have it mapped: a generation.            *)
(*                                                                         *)
(* The value of a parameter stands for the values of all types; keywords   *)
(* are told apart by which contains which.  A setval file does not hold    *)
(* every value: floats are printed with 6 decimals (2354, 2358), strings   *)
(* read up to the first blank, an empty one as the mark # that follows it  *)
(* (1884-1971).  want, exposed and raced are history: no guard reads them. *)
(***************************************************************************)
EXTENDS Integers, Sequences, FiniteSets

CONSTANTS
  Param,      \* the keywords
  Entry,      \* the order in which they are added
  Within,     \* <<p, q>>: keyword p is a part of keyword q
  Saved,      \* parameters with FPFLAG_SAVEONCHANGE
  OnOff,      \* parameters of type ONOFF
  RunParam,   \* parameters that the RUN process sets
  Data,       \* values, in slots and files
  Value,      \* values that are set
  Given,      \* parameters that are added with a value
  Argument,   \* that value
  Default,    \* the value of an entry that is added without
  Printed,    \* what is in the file when a value is written
  Scanned,    \* the value when that is read
  None,       \* no keyword, no value, no file, no generation
  Empty,      \* a file without contents
  NBparamMAX, \* slots of a structure
  Proc,       \* processes that initialise
  MaxGen, MaxRun, MaxSet \* bounds: creations, initialisations, values set

Actor == Proc \cup {"gui", "run"}

(* What is left of a value that was saved and read.                        *)
Back(v) == Scanned[Printed[v]]

ASSUME ParamAssumption ==
  /\ Entry \in Seq(Param) /\ Len(Entry) > 0
  /\ Within \subseteq Param \X Param /\ \A p \in Param : <<p, p>> \in Within
  /\ Saved \subseteq Param /\ OnOff \subseteq Param /\ RunParam \subseteq Param
  /\ Given \subseteq Param
  /\ Value \cup {Default, Argument} \subseteq Data
  /\ Printed \in [Data -> Data] /\ Scanned \in [Data -> Data]
  /\ \A v \in Data : Back(Back(v)) = Back(v)
  /\ None \notin Param \cup Data \cup {Empty} \cup Nat /\ Empty \notin Data
  /\ NBparamMAX \in Nat \ {0}
  /\ "gui" \notin Proc /\ "run" \notin Proc
  /\ MaxGen \in Nat /\ MaxRun \in Nat /\ MaxSet \in Nat

Slot == 0 .. NBparamMAX - 1
Gen == 1 .. MaxGen

VARIABLES
  path,          \* the generation that the file name leads to
  size,          \* of each generation: "none", "empty", "full"
  key, val,      \* keyword and value of each slot of each generation
  file,          \* the setval file of each parameter
  pc, map,       \* where each actor is, and what it has mapped
  slot,          \* the slot it works on
  ent,           \* the entry that an initialisation is at
  node,          \* the slot of each parameter, if fpsCTRL found one in its scan
  nrun, nset,    \* initialisations and values so far
  want,          \* the value each parameter was last told to have
  exposed,       \* parameters whose last value is not saved, or met a race or a crash
  raced          \* two initialisations met

shmVars == <<path, size, key, val>>
actVars == <<pc, map, slot, ent, node>>
history == <<want, exposed, raced>>
vars == <<shmVars, file, actVars, nrun, nset, history>>

Init ==
  /\ path = None /\ size = [g \in Gen |-> "none"]
  /\ key = [g \in Gen |-> [s \in Slot |-> None]] /\ val = [g \in Gen |-> [s \in Slot |-> Default]]
  /\ file = [p \in Param |-> None]
  /\ pc = [a \in Actor |-> "off"] /\ map = [a \in Actor |-> None] /\ slot = [a \in Actor |-> 0]
  /\ ent = [c \in Proc |-> 1]
  /\ node = [p \in Param |-> {}]
  /\ nrun = 0 /\ nset = 0
  /\ want = [p \in Param |-> IF p \in Given THEN Argument ELSE Default] /\ exposed = {} /\ raced = FALSE

-----------------------------------------------------------------------------
(* Who is at a parameter.                                                  *)

Busy == {"remove", "open", "fill", "connect", "find", "set", "read", "trunc", "write"}

(* An initialisation is between the reset of the value of p and its end.   *)
Adding(c, p) == pc[c] \in {"set", "read", "trunc", "write"} /\ Entry[ent[c]] = p

(* fpsCTRL or RUN has set p, and is to save it.                            *)
Saving(a, p) == pc[a] \in {"trunc", "write"} /\ key[map[a]][slot[a]] = p

Met(p) == (\E c \in Proc : Adding(c, p)) \/ (\E a \in {"gui", "run"} : Saving(a, p))

Goto(a, l) == pc' = [pc EXCEPT ![a] = l]

(* a ends; what it worked on is gone. *)
Exit(a) ==
  /\ Goto(a, "off") /\ map' = [map EXCEPT ![a] = None] /\ slot' = [slot EXCEPT ![a] = 0]
  /\ ent' = [c \in Proc |-> IF c = a THEN 1 ELSE ent[c]]

(* The memory that a has mapped is there: the file was not cut off.        *)
Mapped(a) == map[a] # None /\ size[map[a]] = "full"

-----------------------------------------------------------------------------
(* Creation and connection.                                                *)

(* function_parameter_FPCONFsetup: FPSINITCREATE makes the structure anew,  *)
(* FPSINIT and CONFSTART connect to what exists.                           *)
Setup(c, l) ==
  /\ pc[c] = "off" /\ nrun < MaxRun
  /\ nrun' = nrun + 1
  /\ Goto(c, l)
  /\ raced' = (raced \/ \E d \in Proc : pc[d] \in Busy)
  /\ UNCHANGED <<shmVars, file, map, slot, ent, node, nset, want, exposed>>

(* function_parameter_struct_create: the file is removed, a new one opened *)
(* and given its size.  If somebody else made one in between, it is cut.   *)
Remove(c) ==
  /\ pc[c] = "remove"
  /\ path' = None
  /\ Goto(c, "open")
  /\ UNCHANGED <<size, key, val, file, map, slot, ent, node, nrun, nset, history>>

Open(c) ==
  /\ pc[c] = "open"
  /\ \E g \in Gen :
       /\ IF path = None THEN size[g] = "none" /\ \A h \in Gen : h < g => size[h] # "none" ELSE g = path
       /\ path' = g
       /\ size' = [size EXCEPT ![g] = "empty"]
       /\ map' = [map EXCEPT ![c] = g]
       /\ key' = [key EXCEPT ![g] = [s \in Slot |-> None]]
       /\ val' = [val EXCEPT ![g] = [s \in Slot |-> Default]]
  /\ Goto(c, "fill")
  /\ UNCHANGED <<file, slot, ent, node, nrun, nset, history>>

Fill(c) ==
  /\ pc[c] = "fill"
  /\ size' = [size EXCEPT ![map[c]] = "full"]
  /\ Goto(c, "connect")
  /\ UNCHANGED <<path, key, val, file, map, slot, ent, node, nrun, nset, history>>

(* function_parameter_struct_connect of a process that initialises.  If    *)
(* there is no file it makes one; one that is not made yet may end it, or  *)
(* be made in time.  (A stream that is needed and missing also ends it:    *)
(* Die.)                                                                   *)
Connect(c) ==
  /\ pc[c] = "connect"
  /\ \/ path = None /\ Goto(c, "open") /\ UNCHANGED <<map, slot, ent>>
     \/ /\ path # None
        /\ map' = [map EXCEPT ![c] = path] /\ Goto(c, "find") /\ UNCHANGED <<slot, ent>>
     \/ /\ path # None /\ size[path] = "empty" /\ Exit(c)
  /\ UNCHANGED <<shmVars, file, node, nrun, nset, history>>

-----------------------------------------------------------------------------
(* function_parameter_add_entry.                                           *)

Having(g, p) == {s \in Slot : key[g][s] = p}

Free(g) == {s \in Slot : key[g][s] = None}

(* The first and the last slot of S, if it has one. *)
First(S) == {s \in S : \A t \in S : s <= t}
Last(S) == {s \in S : \A t \in S : t <= s}

(* Mutated form of EntrySlot: keywords are not looked for. *)
EntrySlot_Append(g, p) == First(Free(g))

(* The slot that has the keyword, or else the first that is free.          *)
EntrySlot(g, p) == IF Having(g, p) # {} THEN Last(Having(g, p)) ELSE First(Free(g))

(* The process exits if there is no slot left. *)
FindEntry(c) ==
  /\ pc[c] = "find" /\ Mapped(c)
  /\ \/ \E s \in EntrySlot(map[c], Entry[ent[c]]) :
          Goto(c, "set") /\ slot' = [slot EXCEPT ![c] = s] /\ UNCHANGED <<map, ent>>
     \/ EntrySlot(map[c], Entry[ent[c]]) = {} /\ Exit(c)
  /\ UNCHANGED <<shmVars, file, node, nrun, nset, history>>

(* The value that an entry has if there is no file.                        *)
InitialValue(p) == IF p \in Given THEN Argument ELSE Default

(* Flags and keyword are written, and the value becomes the default or the *)
(* one of the call, whatever it was.                                       *)
SetEntry(c) ==
  LET p == Entry[ent[c]]
  IN  /\ pc[c] = "set" /\ Mapped(c)
      /\ key' = [key EXCEPT ![map[c]][slot[c]] = p]
      /\ val' = [val EXCEPT ![map[c]][slot[c]] = InitialValue(p)]
      /\ Goto(c, "read")
      /\ IF \E a \in {"gui", "run"} : Saving(a, p)
           THEN exposed' = exposed \cup {p} ELSE UNCHANGED exposed
      /\ UNCHANGED <<path, size, file, map, slot, ent, node, nrun, nset, want, raced>>

(* Mutated form of Contents: the value of the call goes before the file. *)
Contents_GivenFirst(p) == IF p \in Given THEN None ELSE file[p]

(* What can be read from the file of p. *)
Contents(p) == file[p]

(* Mutated forms of AfterEntry: one entry too many, or too few. *)
AfterEntry_Beyond(c) ==
  IF ent[c] <= Len(Entry)
    THEN Goto(c, "find") /\ ent' = [ent EXCEPT ![c] = ent[c] + 1]
    ELSE Goto(c, "on") /\ ent' = [ent EXCEPT ![c] = 1]

AfterEntry_Short(c) ==
  IF ent[c] < Len(Entry) - 1
    THEN Goto(c, "find") /\ ent' = [ent EXCEPT ![c] = ent[c] + 1]
    ELSE Goto(c, "on") /\ ent' = [ent EXCEPT ![c] = 1]

(* Where an initialisation goes on after an entry: the next one, and at    *)
(* last the CONF loop or its end.                                          *)
AfterEntry(c) ==
  IF ent[c] < Len(Entry)
    THEN Goto(c, "find") /\ ent' = [ent EXCEPT ![c] = ent[c] + 1]
    ELSE Goto(c, "on") /\ ent' = [ent EXCEPT ![c] = 1]

(* The setval file, if it has a value, overrides.  The entry is saved if   *)
(* the value did not come from the file, and an ON/OFF state in any case.  *)
ReadFile(c) ==
  LET p == Entry[ent[c]]
      found == Contents(p) \notin {None, Empty}
  IN  /\ pc[c] = "read" /\ Mapped(c)
      /\ IF found THEN val' = [val EXCEPT ![map[c]][slot[c]] = Scanned[file[p]]]
         ELSE UNCHANGED val
      /\ IF found /\ p \notin OnOff THEN AfterEntry(c)
         ELSE Goto(c, "trunc") /\ UNCHANGED ent
      /\ IF \E a \in {"gui", "run"} : Saving(a, p)
           THEN exposed' = exposed \cup {p} ELSE UNCHANGED exposed
      /\ UNCHANGED <<path, size, key, file, map, slot, node, nrun, nset, want, raced>>

-----------------------------------------------------------------------------
(* functionparameter_WriteParameterToDisk: the file of the parameter that  *)
(* is in the slot is emptied, then the value that is there now written.    *)

Filed(a) == key[map[a]][slot[a]]

Truncate(a) ==
  /\ pc[a] = "trunc" /\ Mapped(a)
  /\ file' = [p \in Param |-> IF p = Filed(a) THEN Empty ELSE file[p]]
  /\ Goto(a, "write")
  /\ UNCHANGED <<shmVars, map, slot, ent, node, nrun, nset, history>>

Write(a) ==
  /\ pc[a] = "write" /\ Mapped(a)
  /\ file' = [p \in Param |-> IF p = Filed(a) THEN Printed[val[map[a]][slot[a]]] ELSE file[p]]
  /\ IF a \in Proc THEN AfterEntry(a) ELSE Goto(a, "on") /\ UNCHANGED ent
  /\ UNCHANGED <<shmVars, map, slot, node, nrun, nset, history>>

-----------------------------------------------------------------------------
(* fpsCTRL and RUN.                                                        *)

(* functionparameter_GetParamIndex: the first slot whose keyword contains  *)
(* the one that is looked for.                                             *)
GetParamIndex(g, p) == First({s \in Slot : key[g][s] # None /\ <<p, key[g][s]>> \in Within})

(* a puts v, for parameter p, in slot s. *)
Told(a, p, s, v) ==
  /\ nset < MaxSet /\ nset' = nset + 1
  /\ val' = [val EXCEPT ![map[a]][s] = v]
  /\ want' = [want EXCEPT ![p] = v]

(* What p was told, or what a file leaves of it. *)
Left(p) == {want[p], Back(want[p])}

(* Whether what a is about to save is clean: nobody else is at it, and it  *)
(* is in the structure that is there.                                      *)
Expose(a, p, clean) ==
  exposed' = IF clean /\ map[a] = path /\ ~Met(p) THEN exposed \ {p} ELSE exposed \cup {p}

(* Command setval: the parameter of the node is looked up once more, by    *)
(* name, and set there; what is saved is the slot of the node.             *)
GuiSetval(p, v) ==
  /\ pc["gui"] = "on" /\ Mapped("gui")
  /\ \E s \in GetParamIndex(map["gui"], p) : Told("gui", p, s, v)
  /\ Expose("gui", p, TRUE)
  /\ Goto("gui", "trunc") /\ \E s \in node[p] : slot' = [slot EXCEPT !["gui"] = s]
  /\ UNCHANGED <<path, size, key, file, map, ent, node, nrun, raced>>

(* A value typed in, or an ON/OFF parameter toggled, at the node.          *)
GuiEdit(p, v) ==
  /\ pc["gui"] = "on" /\ Mapped("gui")
  /\ \E s \in node[p] : Told("gui", p, s, v) /\ slot' = [slot EXCEPT !["gui"] = s]
  /\ Expose("gui", p, p \in Saved)
  /\ IF p \in Saved THEN Goto("gui", "trunc") ELSE UNCHANGED pc
  /\ UNCHANGED <<path, size, key, file, map, ent, node, nrun, raced>>

(* Scan: what fpsCTRL had mapped is given up, and what is there mapped.    *)
(* A file without size ends it; one whose size is there, but not yet its   *)
(* number of slots, has no parameters.                                     *)
GuiScan ==
  /\ pc["gui"] \in {"off", "on"}
  /\ \/ path = None /\ map' = [map EXCEPT !["gui"] = None] /\ Goto("gui", "on")
        /\ node' = [p \in Param |-> {}] /\ UNCHANGED <<slot, ent>>
     \/ /\ path # None
        /\ map' = [map EXCEPT !["gui"] = path] /\ Goto("gui", "on") /\ UNCHANGED <<slot, ent>>
        /\ node' = [p \in Param |-> First(Having(path, p))]
     \/ /\ path # None /\ size[path] = "empty"
        /\ Exit("gui") /\ node' = [p \in Param |-> {}]
  /\ UNCHANGED <<shmVars, file, nrun, nset, history>>

(* Key e: the file that has the name of the structure is removed, and what *)
(* is there is scanned.                                                    *)
GuiErase ==
  /\ pc["gui"] = "on" /\ Mapped("gui")
  /\ path' = None
  /\ map' = [map EXCEPT !["gui"] = None] /\ node' = [p \in Param |-> {}]
  /\ UNCHANGED <<size, key, val, file, pc, slot, ent, nrun, nset, history>>

(* The RUN process connects to what is there (or ends: no step), sets its  *)
(* parameters by name, and may save them (functionparameter_SaveParam2disk)*)
RunConnect ==
  /\ pc["run"] = "off" /\ path # None
  /\ map' = [map EXCEPT !["run"] = path] /\ Goto("run", "on")
  /\ UNCHANGED <<shmVars, file, slot, ent, node, nrun, nset, history>>

RunSet(p, v) ==
  /\ pc["run"] = "on" /\ Mapped("run") /\ p \in RunParam
  /\ \/ /\ \E s \in GetParamIndex(map["run"], p) : Told("run", p, s, v)
        /\ Expose("run", p, FALSE) /\ UNCHANGED <<pc, map, slot, ent>>
     \/ GetParamIndex(map["run"], p) = {} /\ Exit("run") /\ UNCHANGED <<nset, val, want, exposed>>
  /\ UNCHANGED <<path, size, key, file, node, nrun, raced>>

RunSave(p) ==
  /\ pc["run"] = "on" /\ Mapped("run") /\ p \in RunParam
  /\ \/ \E s \in GetParamIndex(map["run"], p) :
          /\ Goto("run", "trunc") /\ slot' = [slot EXCEPT !["run"] = s]
          /\ UNCHANGED <<map, ent>>
          /\ Expose("run", p, val[map["run"]][s] \in Left(p))
     \/ GetParamIndex(map["run"], p) = {} /\ Exit("run") /\ UNCHANGED exposed
  /\ UNCHANGED <<shmVars, file, node, nrun, nset, want, raced>>

-----------------------------------------------------------------------------
(* An actor ends or is killed, or touches memory whose file was cut off.   *)
(* It can be started again.                                                *)
Die(a) ==
  /\ pc[a] # "off"
  /\ Exit(a)
  /\ exposed' = exposed \cup {p \in Param : Saving(a, p) \/ (a \in Proc /\ Adding(a, p))}
  /\ UNCHANGED <<shmVars, file, node, nrun, nset, want, raced>>

InitStep(c) ==
  \/ Remove(c) \/ Open(c) \/ Fill(c) \/ Connect(c)
  \/ FindEntry(c) \/ SetEntry(c) \/ ReadFile(c)

Next ==
  \/ \E c \in Proc : InitStep(c) \/ \E l \in {"remove", "connect"} : Setup(c, l)
  \/ \E a \in Actor : Truncate(a) \/ Write(a) \/ Die(a)
  \/ \E p \in Param, v \in Value : GuiSetval(p, v) \/ GuiEdit(p, v) \/ RunSet(p, v)
  \/ GuiScan \/ GuiErase \/ RunConnect
  \/ \E p \in Param : RunSave(p)

Spec == Init /\ [][Next]_vars

-----------------------------------------------------------------------------
(* Properties.                                                             *)

(* The variables have their types; in particular the slot that an actor    *)
(* works on is one of the structure.                                       *)
TypeOK ==
  /\ path \in Gen \cup {None} /\ size \in [Gen -> {"none", "empty", "full"}]
  /\ key \in [Gen -> [Slot -> Param \cup {None}]]
  /\ val \in [Gen -> [Slot -> Data]]
  /\ file \in [Param -> Data \cup {None, Empty}]
  /\ pc \in [Actor -> Busy \cup {"off", "on"}]
  /\ map \in [Actor -> Gen \cup {None}] /\ slot \in [Actor -> Slot]
  /\ ent \in [Proc -> 1 .. Len(Entry)]
  /\ node \in [Param -> SUBSET Slot]
  /\ nrun \in 0 .. MaxRun /\ nset \in 0 .. MaxSet
  /\ want \in [Param -> Data] /\ exposed \subseteq Param
  /\ raced \in BOOLEAN

(* A keyword has one slot in a structure, also when a structure that       *)
(* exists is initialised again (function_parameters.c:1478), unless two    *)
(* initialisations met.                                                    *)
OneSlot ==
  ~raced => \A g \in Gen : \A s, t \in Slot : key[g][s] = key[g][t] /\ key[g][s] # None => s = t

(* A process that goes on to its loop has every entry in its structure.    *)
Complete ==
  \A c \in Proc : pc[c] = "on" /\ Mapped(c) /\ ~raced =>
    \A i \in 1 .. Len(Entry) : Having(map[c], Entry[i]) # {}

(* The keyword of p is a part of one that is added earlier, or contains    *)
(* one that is added later or is never added.                              *)
Ambiguous(p) ==
  \/ \E i, j \in 1 .. Len(Entry) :
       i < j /\ p \in {Entry[i], Entry[j]} /\ <<Entry[j], Entry[i]>> \in Within
  \/ \E q \in Param : <<q, p>> \in Within /\ \A i \in 1 .. Len(Entry) : Entry[i] # q

(* A parameter has the value it was last told to have, or what its file    *)
(* holds of that value, however often it was saved and read since: through *)
(* removal, creation and initialisation of the structure and restarts of   *)
(* every process, as long as nobody is about to change it; but for         *)
(* parameters that were set when they were being initialised, or in a      *)
(* structure that was replaced, or not saved, or whose writer died, and    *)
(* those that are taken for one another by name.                           *)
ValueKept ==
  ~raced => \A p \in Param : ~Met(p) /\ ~Ambiguous(p) /\ p \notin exposed =>
    /\ file[p] \in {Printed[v] : v \in Left(p)} \cup {None}
    /\ path # None => \A s \in Having(path, p) : val[path][s] \in Left(p)
=============================================================================
