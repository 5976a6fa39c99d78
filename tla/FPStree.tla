------------------------------ MODULE FPStree ------------------------------
(***************************************************************************)
(* fpsCTRL's list of FPSs and its keyword tree (function_parameters.c):    *)
(* functionparameter_scan_fps connects to every FPS of the directory and   *)
(* makes a tree of their keywords; keys move a selection through the tree  *)
(* and act on what is selected; the screen shows it.  FPSs come and go     *)
(* meanwhile, tasks keep the index of the FPS they were given to.          *)
(*                                                                         *)
(* Entries are added as ".keyword", which puts the name of the FPS first.  *)
(* The first entry of every FPS is visible.  Memory that is not written    *)
(* yet is zero (fresh pages).  The directory is read and written only      *)
(* while keys and commands are handled: what others do to it counts as     *)
(* before the key.  shown, gone, same and task.name are history.           *)
(***************************************************************************)
EXTENDS Integers, Sequences, FiniteSets, SequencesExt

CONSTANTS
  FpsName,   \* names of FPSs
  Keyword,   \* the keywords of each FPS: a sequence of sequences of words
  Line,      \* how far keys move the selection (1 line, or a page of 10)
  Mode,      \* screens: 1 help, 2 FPS list, 3 scheduler
  NBnode,    \* nodes of the tree
  MaxChild,  \* children of a node
  MaxLevel,  \* levels of the tree below its root
  None,      \* nothing
  MaxChange  \* bound: FPSs that others make or remove

ASSUME TreeAssumption ==
  /\ IsFiniteSet(FpsName) /\ FpsName # {}
  /\ Keyword \in [FpsName -> Seq(Seq(STRING))]
  /\ \A f \in FpsName : Len(Keyword[f]) > 0 /\ \A p \in 1 .. Len(Keyword[f]) : Len(Keyword[f][p]) > 0
  /\ Line \subseteq Nat \ {0} /\ Mode \subseteq 1 .. 3
  /\ NBnode \in Nat \ {0} /\ MaxChild \in 1 .. NBnode /\ MaxLevel \in Nat
  /\ None \notin FpsName
  /\ MaxChange \in Nat

NBmax == Cardinality(FpsName)
FpsIndex == 0 .. NBmax - 1
Node == 0 .. NBnode - 1
Level == 0 .. MaxLevel

VARIABLES
  dir,                    \* names of the FPS files, as readdir gives them
  fps,                    \* of each index: name, SMfd > -1 (open), md is mapped
  keywnode, NBkwn,        \* nodes, and how many of them the last scan made
  NBfps, NBindex,
  nodeSelected, directorynodeSelected, currentlevel,
  GUIlineSelected,        \* line selected on each level
  fpsindexSelected, pindexSelected,
  fpsCTRL_DisplayMode, run_display, loopOK,
  task,                   \* a task under way: its fpsindex, and what it was given to
  pc,                     \* "start", "key", "fifo", "screen", "exit", "crash"
  shown,                  \* path of the line that this iteration showed as selected
  gone,                   \* an FPS was removed
  same,                   \* the directory is as it was when the task was given
  nchange                 \* FPSs that others have made or removed

scanVars == <<fps, keywnode, NBkwn, NBfps, NBindex>>
selVars == <<nodeSelected, directorynodeSelected, currentlevel, GUIlineSelected>>
editVars == <<fpsindexSelected, pindexSelected>>
loopVars == <<fpsCTRL_DisplayMode, run_display, loopOK>>
envVars == <<dir, gone, same, nchange>>
vars == <<scanVars, selVars, editVars, loopVars, task, pc, shown, envVars>>

NoNode == [path |-> <<>>, leaf |-> 0, fpsindex |-> 0, pindex |-> 0, parent |-> 0,
           NBchild |-> 0, child |-> [c \in 0 .. MaxChild - 1 |-> 0]]

Init ==
  /\ dir \in SeqOf(FpsName, NBmax) /\ IsInjective(dir)
  /\ fps = [i \in FpsIndex |-> [name |-> None, open |-> FALSE, mapped |-> FALSE]]
  /\ keywnode = [k \in Node |-> NoNode] /\ NBkwn = 0 /\ NBfps = 0 /\ NBindex = 0
  /\ nodeSelected = 1 /\ directorynodeSelected = 0 /\ currentlevel = 0
  /\ GUIlineSelected = [l \in Level |-> 0]
  /\ fpsindexSelected = 0 /\ pindexSelected = 0
  /\ fpsCTRL_DisplayMode = 2 /\ run_display = TRUE /\ loopOK = TRUE
  /\ task = None /\ pc = "start" /\ shown = None /\ gone = FALSE /\ same = FALSE /\ nchange = 0

-----------------------------------------------------------------------------
(* functionparameter_scan_fps                                              *)

Path(f, p) == <<f>> \o Keyword[f][p]

(* What the keywords of all FPSs begin with: the paths of a tree.          *)
TreePaths ==
  UNION {UNION {{SubSeq(Path(f, p), 1, l) : l \in 1 .. Len(Path(f, p))} : p \in DOMAIN Keyword[f]} :
           f \in FpsName}

(* The arrays have room for all FPSs: function_parameters.c:73 and 187 do  *)
(* not check it.                                                           *)
ASSUME RoomAssumption ==
  /\ IsFiniteSet(TreePaths) /\ Cardinality(TreePaths) < NBnode
  /\ \A q \in TreePaths \cup {<<>>} :
       Len(q) \in Level /\ Cardinality({r \in TreePaths : Front(r) = q}) < MaxChild

(* Mutated form of EntrySteps: only leaves know their FPS. *)
EntrySteps_LeafIndex(d, i, p) ==
  [l \in 1 .. Len(Path(d[i], p)) |->
     LET leaf == l = Len(Path(d[i], p)) IN
     [path |-> SubSeq(Path(d[i], p), 1, l), fpsindex |-> IF leaf THEN i - 1 ELSE 0,
      leaf |-> IF leaf THEN 1 ELSE 0, pindex |-> IF leaf THEN p - 1 ELSE 0]]

(* The nodes that an entry needs, one for each level of its keyword.       *)
EntrySteps(d, i, p) ==
  [l \in 1 .. Len(Path(d[i], p)) |->
     [path |-> SubSeq(Path(d[i], p), 1, l), fpsindex |-> i - 1,
      leaf |-> IF l = Len(Path(d[i], p)) THEN 1 ELSE 0,
      pindex |-> IF l = Len(Path(d[i], p)) THEN p - 1 ELSE 0]]

(* Mutated form of ParentNode: keywords are not compared. *)
ParentNode_Any(t, s) ==
  CHOOSE k \in 0 .. t.NBkwn - 1 :
    /\ Len(t.node[k].path) = Len(s.path) - 1
    /\ \A j \in 0 .. k - 1 : Len(t.node[j].path) < Len(s.path) - 1

ParentNode(t, s) == CHOOSE k \in 0 .. t.NBkwn - 1 : t.node[k].path = Front(s.path)

(* Find or allocate the node: it becomes the last child of its parent.     *)
PlaceNode(t, s) ==
  LET found == \E k \in 0 .. t.NBkwn - 1 : t.node[k].path = s.path
      up == ParentNode(t, s)
      new == [t.node[t.NBkwn] EXCEPT !.path = s.path, !.leaf = s.leaf, !.parent = up,
                                     !.fpsindex = s.fpsindex, !.pindex = s.pindex]
  IN IF found THEN t
     ELSE [node |-> [t.node EXCEPT ![t.NBkwn] = new,
                                   ![up].child[t.node[up].NBchild] = t.NBkwn,
                                   ![up].NBchild = @ + 1],
           NBkwn |-> t.NBkwn + 1]

(* Mutated form of Cleared: only the root loses its children. *)
Cleared_Root(n) == [n EXCEPT ![0].NBchild = 0, ![0].leaf = 0, ![0].path = <<>>]

(* The tree is made anew in the old nodes: those it does not reach keep    *)
(* what they were, without children.                                       *)
Cleared(n) ==
  [k \in Node |-> IF k = 0 THEN [n[k] EXCEPT !.NBchild = 0, !.leaf = 0, !.path = <<>>]
                           ELSE [n[k] EXCEPT !.NBchild = 0]]

(* The nodes of an entry, of the entries of an FPS, of the FPSs of the     *)
(* directory, one after another.                                           *)
PlaceEntry(t, d, i, p) ==
  LET tree[l \in 0 .. Len(Path(d[i], p))] ==
        IF l = 0 THEN t ELSE PlaceNode(tree[l - 1], EntrySteps(d, i, p)[l])
  IN tree[Len(Path(d[i], p))]

PlaceFps(t, d, i) ==
  LET tree[p \in 0 .. Len(Keyword[d[i]])] ==
        IF p = 0 THEN t ELSE PlaceEntry(tree[p - 1], d, i, p)
  IN tree[Len(Keyword[d[i]])]

Build(d) ==
  LET tree[i \in 0 .. Len(d)] ==
        IF i = 0 THEN [node |-> Cleared(keywnode), NBkwn |-> 1] ELSE PlaceFps(tree[i - 1], d, i)
  IN tree[Len(d)]

(* Every FPS that was connected is unmapped and closed ...                 *)
Disconnected(f) == IF f.open THEN [f EXCEPT !.open = FALSE, !.mapped = FALSE] ELSE f

(* Mutated form of Connected: the last FPS is left out. *)
Connected_Short(d, fs) ==
  [i \in FpsIndex |-> IF i + 1 < Len(d) THEN [name |-> d[i + 1], open |-> TRUE, mapped |-> TRUE]
                                        ELSE Disconnected(fs[i])]

(* ... and those of the directory are connected, from index 0.            *)
Connected(d, fs) ==
  [i \in FpsIndex |-> IF i < Len(d) THEN [name |-> d[i + 1], open |-> TRUE, mapped |-> TRUE]
                                    ELSE Disconnected(fs[i])]

Scan(d, fs) ==
  LET t == Build(d) IN
  /\ fps' = Connected(d, fs) /\ keywnode' = t.node /\ NBkwn' = t.NBkwn /\ NBfps' = Len(d)

Parameters(d) ==
  LET count[i \in 0 .. Len(d)] == IF i = 0 THEN 0 ELSE count[i - 1] + Len(Keyword[d[i]])
  IN count[Len(d)]

Start ==
  /\ pc = "start"
  /\ Scan(dir, fps)
  /\ pc' = IF dir = <<>> THEN "exit" ELSE "key"
  /\ UNCHANGED <<NBindex, selVars, editVars, loopVars, task, shown, envVars>>

-----------------------------------------------------------------------------
(* fpsCTRLscreen_process_user_key                                          *)

(* After every key: without an FPS there is nothing to display. *)
Go(n) == pc' = IF n = 0 THEN "exit" ELSE "fifo"

(* What a read of fps[i].md can meet.  If it is unmapped: nothing, which   *)
(* ends the program, or what has been mapped to its place since.           *)
Md(i) == IF fps[i].mapped THEN {i} ELSE {j \in FpsIndex : fps[j].mapped}

(* A step A that reads fps[i].md, and more than that if A does; or the end. *)
Reading(i, A) ==
  \/ Md(i) # {} /\ A
  \/ ~fps[i].mapped /\ pc' = "crash"
     /\ UNCHANGED <<scanVars, selVars, editVars, loopVars, task, shown, envVars>>

KeyNone == pc = "key" /\ Go(NBfps) /\ UNCHANGED <<scanVars, selVars, editVars, loopVars, task, shown, envVars>>

(* x: the rest of the iteration still happens. *)
KeyExit ==
  /\ pc = "key" /\ loopOK' = FALSE /\ Go(NBfps)
  /\ UNCHANGED <<scanVars, selVars, editVars, fpsCTRL_DisplayMode, run_display, task, shown, envVars>>

(* h, F2, F3 *)
KeyMode(m) ==
  /\ pc = "key" /\ fpsCTRL_DisplayMode' = m /\ Go(NBfps)
  /\ UNCHANGED <<scanVars, selVars, editVars, run_display, loopOK, task, shown, envVars>>

(* s *)
KeyScan ==
  /\ pc = "key" /\ Scan(dir, fps) /\ NBindex' = Parameters(dir) /\ Go(Len(dir))
  /\ UNCHANGED <<selVars, editVars, loopVars, task, shown, envVars>>

(* functionparameter_FPSremove: the file of the name that the memory of    *)
(* fps[i] holds is removed, and SMfd forgotten: the mapping stays.         *)
Without(f) ==
  IF \E n \in DOMAIN dir : dir[n] = f THEN RemoveAt(dir, CHOOSE n \in DOMAIN dir : dir[n] = f)
                                    ELSE dir

Forgotten(i) == [fps EXCEPT ![i].open = FALSE]

(* e: erase the FPS of the selected node and scan, skip the next display.  *)
(* E: the same with a display.                                             *)
KeyErase(skip) ==
  LET i == keywnode[nodeSelected].fpsindex IN
  /\ pc = "key"
  /\ Reading(i, \E j \in Md(i) :
       /\ dir' = Without(fps[j].name) /\ gone' = TRUE /\ same' = FALSE
       /\ Scan(dir', Forgotten(i)) /\ NBindex' = Parameters(dir')
       /\ run_display' = (run_display /\ ~skip)
       /\ fpsindexSelected' = 0
       /\ Go(Len(dir'))
       /\ UNCHANGED <<selVars, pindexSelected, fpsCTRL_DisplayMode, loopOK, task, shown, nchange>>)

SetLine(n) ==
  /\ GUIlineSelected' = [GUIlineSelected EXCEPT ![currentlevel] = n] /\ Go(NBfps)
  /\ UNCHANGED <<scanVars, nodeSelected, directorynodeSelected, currentlevel, editVars, loopVars,
                 task, shown, envVars>>

line == GUIlineSelected[currentlevel]

KeyUp(n) == pc = "key" /\ SetLine(Max({line - n, 0}))

KeyDown(n) ==
  pc = "key" /\ SetLine(Min({line + n, NBindex - 1, keywnode[directorynodeSelected].NBchild - 1}))

Select(d) ==
  /\ directorynodeSelected' = d /\ nodeSelected' = d /\ Go(NBfps)
  /\ UNCHANGED <<scanVars, currentlevel, GUIlineSelected, editVars, loopVars, task, shown, envVars>>

KeyLeft ==
  /\ pc = "key" /\ directorynodeSelected # 0
  /\ Select(keywnode[directorynodeSelected].parent)

(* The child on the selected line.  NBchild lies in memory before child[0]. *)
ChildAt(d, l) == IF l = -1 THEN keywnode[d].NBchild ELSE keywnode[d].child[l]

KeyRight ==
  LET c == ChildAt(directorynodeSelected, line) IN
  /\ pc = "key"
  /\ keywnode[nodeSelected].leaf = 0 /\ keywnode[c].leaf = 0
  /\ Select(c)

(* Enter: the value of the parameter is edited.  parray is NULL if the FPS *)
(* was disconnected.                                                       *)
KeyEnter ==
  /\ pc = "key" /\ keywnode[nodeSelected].leaf = 1
  /\ IF fps[fpsindexSelected].mapped THEN Go(NBfps) ELSE pc' = "crash"
  /\ UNCHANGED <<scanVars, selVars, editVars, loopVars, task, shown, envVars>>

(* u, R, r, C, c: the CONF or RUN process of the FPS of the selected node. *)
KeyAct ==
  /\ pc = "key"
  /\ Reading(keywnode[nodeSelected].fpsindex,
       Go(NBfps) /\ UNCHANGED <<scanVars, selVars, editVars, loopVars, task, shown, envVars>>)

-----------------------------------------------------------------------------
(* The fifo and the tasks, once per iteration unless 'e' has skipped it.   *)

(* functionparameter_FPSprocess_cmdline finds the entry by its full name.  *)
Entry(f) == {keywnode[k].fpsindex : k \in {n \in 0 .. NBkwn - 1 : keywnode[n].path = <<f>>}}

(* The FPSs of the last scan. *)
ScannedDir == [i \in 1 .. NBfps |-> fps[i - 1].name]

(* A command to f that waits: the task keeps the index. *)
Launch(f) ==
  /\ task = None
  /\ \E i \in Entry(f) : task' = [fpsindex |-> i, name |-> f]
  /\ same' = (ScannedDir = dir)
  /\ UNCHANGED <<fps, dir, gone, nchange>>

(* fpsrm f: without a scan. *)
Fpsrm(f) ==
  /\ \E i \in Entry(f) : dir' = Without(fps[i].name) /\ fps' = Forgotten(i)
  /\ gone' = TRUE /\ same' = FALSE /\ UNCHANGED <<task, nchange>>

NoCommand ==
  /\ \/ UNCHANGED <<task, same>>
     \/ task # None /\ task' = None /\ same' = FALSE
  /\ UNCHANGED <<fps, dir, gone, nchange>>

Command == NoCommand \/ \E f \in FpsName : Launch(f) \/ Fpsrm(f)

Processed == UNCHANGED <<keywnode, NBkwn, NBfps, NBindex, selVars, editVars, loopVars, shown>>

Fifo ==
  /\ pc = "fifo" /\ run_display
  /\ IF task = None THEN Command /\ pc' = "screen" /\ Processed
     ELSE Reading(task.fpsindex, Command /\ pc' = "screen" /\ Processed)

(* P: the lines of confscript are such commands. *)
KeyScript == pc = "key" /\ Command /\ Processed /\ Go(NBfps)

EndOfLoop == pc' = IF loopOK THEN "key" ELSE "exiting"

SkipDisplay ==
  /\ pc = "fifo" /\ ~run_display
  /\ run_display' = TRUE /\ shown' = None /\ EndOfLoop
  /\ UNCHANGED <<scanVars, selVars, editVars, fpsCTRL_DisplayMode, loopOK, task, envVars>>

-----------------------------------------------------------------------------
(* The screen.                                                             *)

(* The help and the scheduler screen leave the selection alone. *)
OtherScreen ==
  /\ pc = "screen" /\ fpsCTRL_DisplayMode # 2
  /\ shown' = None /\ EndOfLoop
  /\ UNCHANGED <<scanVars, selVars, editVars, loopVars, task, envVars>>

(* Lines that may be drawn for directory d: as many as the longest list    *)
(* from the root to d has.  Below the children of d they repeat the child  *)
(* after the last, and count, if that slot holds a node of the tree.  What *)
(* nodechain has between root and d was traced back from the level of the  *)
(* last frame, so that it may be another node.                             *)
Lines(d) ==
  LET n == keywnode[d].NBchild
      lev == Len(keywnode[d].path)
      between == IF lev > 1 THEN Node ELSE {0}
  IN IF lev > 0 /\ keywnode[d].child[n] < NBkwn
     THEN {Max({n, keywnode[0].NBchild, keywnode[k].NBchild}) : k \in between}
     ELSE {n}

Children(d) == {keywnode[d].child[c] : c \in 0 .. keywnode[d].NBchild - 1}

(* Left of the list of a deeper directory is that of the root.             *)
RootColumn(lev) == IF lev > 0 THEN Children(0) ELSE {}

Repeated(d, lev) ==
  LET k == keywnode[d].child[keywnode[d].NBchild] IN IF lev > 0 /\ k < NBkwn THEN {k} ELSE {}

(* Directories read their FPS at the root only, where they are FPSs;       *)
(* parameters read their value, also the one that is repeated.             *)
DirectoryLines(d, lev) == {k \in Children(d) : keywnode[k].leaf = 0 /\ lev = 0}

ParameterLines(d, lev) == {k \in Children(d) \cup Repeated(d, lev) : keywnode[k].leaf = 1}

(* The node that is taken for selected when the drawing begins.            *)
Checked == IF keywnode[nodeSelected].path = <<>> THEN 1 ELSE nodeSelected

(* The FPSs that are read: above the lines the information on that node,   *)
(* the processes of each FPS in the column of the root, and the lines.     *)
NodeInfo == {keywnode[Checked].fpsindex}

Summary(lev) == {keywnode[k].fpsindex : k \in RootColumn(lev)}

Drawable ==
  LET d == directorynodeSelected
      lev == Len(keywnode[d].path)
      lines == DirectoryLines(d, lev) \cup ParameterLines(d, lev)
  IN \A i \in NodeInfo \cup Summary(lev) \cup {keywnode[k].fpsindex : k \in lines} : fps[i].mapped

(* Mutated form of SelectedLine: the line may be beyond the list. *)
SelectedLine_NoClamp(d) == GUIlineSelected[Len(keywnode[d].path)]

(* The line that is selected: the last one at most. *)
SelectedLine(d) == Min({GUIlineSelected[Len(keywnode[d].path)], keywnode[d].NBchild - 1})

(* The selection follows the line in the list of the directory. *)
FpsScreen ==
  LET sel == Checked
      d == directorynodeSelected
      lev == Len(keywnode[d].path)
      l == SelectedLine(d)
      onLine == l >= 0
      c == IF onLine THEN keywnode[d].child[l] ELSE sel
  IN
  /\ pc = "screen" /\ fpsCTRL_DisplayMode = 2
  /\ Drawable
  /\ nodeSelected' = c /\ fpsindexSelected' = keywnode[c].fpsindex
  /\ pindexSelected' = IF keywnode[c].leaf = 1 THEN keywnode[c].pindex ELSE keywnode[sel].pindex
  /\ currentlevel' = lev
  /\ GUIlineSelected' = [GUIlineSelected EXCEPT ![lev] = l]
  /\ NBindex' \in Lines(d)
  /\ shown' = IF onLine THEN keywnode[c].path ELSE None
  /\ EndOfLoop
  /\ UNCHANGED <<fps, keywnode, NBkwn, NBfps, directorynodeSelected, loopVars, task, envVars>>

(* What is drawn belongs to an FPS that was disconnected. *)
FpsScreenCrash ==
  /\ pc = "screen" /\ fpsCTRL_DisplayMode = 2
  /\ ~Drawable
  /\ pc' = "crash"
  /\ UNCHANGED <<scanVars, selVars, editVars, loopVars, task, shown, envVars>>

(* The loop ends by its key, or by a signal, which is looked for at the   *)
(* end of each iteration.                                                 *)
Leave ==
  /\ pc \in {"key", "exiting"} /\ pc' = "exit"
  /\ fps' = [i \in FpsIndex |-> IF i < NBfps THEN [fps[i] EXCEPT !.open = FALSE, !.mapped = FALSE]
                                             ELSE fps[i]]
  /\ UNCHANGED <<keywnode, NBkwn, NBfps, NBindex, selVars, editVars, loopVars, task, shown, envVars>>

-----------------------------------------------------------------------------
(* Others make and remove FPSs. *)

Appear(f) ==
  /\ pc = "key" /\ nchange < MaxChange /\ nchange' = nchange + 1 /\ same' = FALSE
  /\ \A i \in DOMAIN dir : dir[i] # f
  /\ \E i \in 1 .. Len(dir) + 1 : dir' = InsertAt(dir, i, f)
  /\ UNCHANGED <<scanVars, selVars, editVars, loopVars, task, pc, shown, gone>>

Vanish(f) ==
  /\ pc = "key" /\ nchange < MaxChange /\ nchange' = nchange + 1 /\ same' = FALSE
  /\ \E i \in DOMAIN dir : dir[i] = f
  /\ dir' = Without(f) /\ gone' = TRUE
  /\ UNCHANGED <<scanVars, selVars, editVars, loopVars, task, pc, shown>>

Key ==
  \/ KeyNone \/ KeyExit \/ KeyScan \/ KeyLeft \/ KeyRight \/ KeyEnter \/ KeyAct \/ KeyScript
  \/ \E m \in Mode : KeyMode(m)
  \/ \E skip \in BOOLEAN : KeyErase(skip)
  \/ \E n \in Line : KeyUp(n) \/ KeyDown(n)

Next ==
  \/ Start \/ Key \/ Fifo \/ SkipDisplay \/ OtherScreen \/ FpsScreen \/ FpsScreenCrash \/ Leave
  \/ \E f \in FpsName : Appear(f) \/ Vanish(f)

Spec == Init /\ [][Next]_vars

-----------------------------------------------------------------------------
(* Properties.                                                             *)

(* The tree, the list of FPSs and the selection stay within their arrays.  *)
TypeOK ==
  /\ dir \in SeqOf(FpsName, NBmax) /\ IsInjective(dir)
  /\ \A i \in FpsIndex : fps[i].name \in FpsName \cup {None}
                       /\ fps[i].open \in BOOLEAN /\ fps[i].mapped \in BOOLEAN
  /\ \A k \in Node :
       /\ keywnode[k].leaf \in {0, 1} /\ keywnode[k].fpsindex \in FpsIndex
       /\ keywnode[k].parent \in Node /\ keywnode[k].NBchild \in 0 .. MaxChild - 1
       /\ \A c \in 0 .. MaxChild - 1 : keywnode[k].child[c] \in Node
  /\ NBkwn \in 0 .. NBnode /\ NBfps \in 0 .. NBmax
  /\ nodeSelected \in Node /\ directorynodeSelected \in Node /\ fpsindexSelected \in FpsIndex
  /\ currentlevel \in Level /\ \A l \in Level : GUIlineSelected[l] \in -1 .. MaxChild - 1
  /\ pc \in {"start", "key", "fifo", "screen", "exiting", "exit", "crash"}

(* After every scan (functionparameter_scan_fps), whatever tree was there  *)
(* before: each entry of each connected FPS has exactly one leaf, which    *)
(* names its FPS and its slot, unless an earlier entry has made a directory*)
(* of its keyword; and each node is listed once, by its parent.            *)
TreeTrue ==
  LET T == 1 .. NBkwn - 1 IN
  /\ \A i \in 0 .. NBfps - 1 : \A p \in 1 .. Len(Keyword[fps[i].name]) :
       LET path == Path(fps[i].name, p)
           before == {q \in 1 .. p - 1 : IsPrefix(path, Path(fps[i].name, q))}
           nodes == {k \in T : keywnode[k].path = path}
       IN /\ Cardinality(nodes) = 1
          /\ before = {} => \A k \in nodes : /\ keywnode[k].leaf = 1 /\ keywnode[k].fpsindex = i
                                           /\ keywnode[k].pindex = p - 1
  /\ \A k \in T :
       LET up == keywnode[k].parent IN
       /\ up < k /\ keywnode[k].path # <<>> /\ keywnode[up].path = Front(keywnode[k].path)
       /\ Cardinality({c \in 0 .. keywnode[up].NBchild - 1 : keywnode[up].child[c] = k}) = 1

(* What a key is about to act on is what the screen has shown as selected: *)
(* its node is of the tree, its FPS is connected and bears the name shown, *)
(* and for a parameter the slot to edit is that of its keyword.            *)
ActsOnShown ==
  pc = "key" /\ shown # None =>
    LET n == keywnode[nodeSelected] IN
    /\ nodeSelected < NBkwn /\ n.path = shown
    /\ fps[n.fpsindex].mapped /\ fps[n.fpsindex].name = Head(shown)
    /\ n.leaf = 1 => /\ fpsindexSelected = n.fpsindex
                     /\ Path(fps[fpsindexSelected].name, pindexSelected + 1) = shown

(* fpsCTRL reads the memory of a disconnected FPS (fps[..].md, parray)     *)
(* only after an FPS was removed while it ran: new FPSs, scans and any     *)
(* keys on any screen do not lead there.                                   *)
CrashOnlyAfterRemoval == pc = "crash" => gone

(* A task under way waits on the FPS it was given to as long as the        *)
(* directory is what it was: scans give each FPS its index again.          *)
TaskTrue == task # None /\ same => fps[task.fpsindex].name = task.name
=============================================================================
