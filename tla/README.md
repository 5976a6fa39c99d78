# TLA+ models of CommandLineInterface

This directory holds TLA+ modules that model the milk/cacao command line
interface of this repository, the TLC configurations that check them on small
instances, and theorems about them that TLAPS proves for every value of the
constants. `PROJECT.json` lists components, runs, mutants, findings, hazards and
theorems, and maps every definition that models code to the lines it models.

    tlasany FPSsched.tla
    tlc -workers 2 -config FPSsched_order.cfg MCFPSsched.tla
    tlapm FPSsched_proofs.tla

## 1. The system

The program is an interactive shell (`CLIcore.c`) into which modules register C
functions, and three ncurses tools that share state with other processes
through memory-mapped files: **fpsCTRL** (function parameters), **procCTRL**
(processes) and **streamCTRL** (image streams). Nothing in the shared files is
protected by a lock or by an atomic instruction. That, and the commands that
fpsCTRL types into tmux sessions whose shells run them later, is what makes the
system hard to test.

| component | state | operations | interacts with |
|---|---|---|---|
| FPS task scheduler (`function_parameters.c` 5214-5548, 7396-8616) | task list, queue list, fifo settings, input counter | read a fifo line, one pass over the queues, launch, complete, display and purge | executes FPS commands; reads the status word that RUN processes write |
| FPS configuration and run control (2045-2227, 2552-3025, 4216-5204, 5549-5790) | per FPS: words `status` and `signal`, flags of the parameters, values, `conferrcnt`, pids | set a value, request an update or a check, wait for one, start and stop CONF and RUN; the CONF loop; the RUN process | fpsCTRL, CONF and RUN share the structure; tmux types the start commands |
| FPS parameter store (1103-1355, 1433-2032) | array of parameters with keywords, values and used flags | add an entry, find one by keyword, get and set values | called by CONF and RUN processes on the shared structure |
| FPS persistence (2309-2541, 3904) | one file per parameter and attribute | write, load at start-up | parameter store, outside scripts |
| FPS creation and connection (549-851, 1364-1418, 2045-2114) | mapped structure, descriptors, stream links | create, connect, disconnect, load streams, CONFSTOP mode | every FPS process |
| fpsCTRL screen (6061-6504, 6790-8685) | keyword tree, selection, display mode | scan, navigate, run keys | all of the above |
| processinfo registration, scan and procCTRL (`processtools.c` 438-680, 2046-4588) | shared list of processes, one mapped file per process, handshake flags between scan thread and screen | register, scan, select, signal, remove | loop processes, signals |
| processinfo loop control (234-400, 718-1054) | `CTRLval`, `loopstat`, `loopcnt` | start, step, pause, single step, stop, error, exit | procCTRL writes `CTRLval`; signal handlers set flags |
| processinfo timing (1060-1184) | circular buffers of times, limits | record, median, act on a limit | writes `CTRLval` |
| command line core (`CLIcore.c`) | tables of modules, commands, variables, images; input sources | register, parse, dispatch, load shared objects, FIFO and start-up file | calculator grammar, modules |
| signal handler (`CLIcore.c` 468-531) | one flag per signal | record, or exit at once | loop control |
| calculator (`calc_bison.y`, `calc_flex.l`) | expression stack | evaluate | command line |
| streamCTRL (`streamCTRL.c`) | table of streams, scan thread, selection | scan, select, draw | shared memory streams |
| helpers, scripts, Python binding, template, build | none that outlives a call | | |

### What makes each component correct

* *Task scheduler*: tasks of a queue run one at a time and in the order of
  submission; queues are examined by priority; a queue that waits stays blocked
  until what it waits for has happened, and no longer; every task is served.
* *Configuration and run control*: when nothing is requested, `CHECKOK` and the
  write status of every parameter tell the truth about the values and the
  status; a requested check is made and acknowledged, by a check that saw the
  values it was requested for; a loop told to stop stops.
* *Parameter store*: a keyword designates one slot; a loop starts with every
  entry it added.
* *Persistence*: of a value that was set and saved, what its file can hold
  survives removal and creation of the structure and restarts of every process.
* *fpsCTRL screen*: the tree lists every entry of every FPS once; a key acts on
  what the last frame showed as selected; memory that was unmapped is not read.
* *procCTRL*: the screen never uses memory that the scan thread is unmapping;
  the list shows the processes that run; a key acts on the process it shows.
* *Loop control*: a process told to exit exits, a paused one does not compute,
  limits count what they say they count.
* *Timing*: indices stay in the buffers; the median is one of recorded times.
* *Command line core*: a command reaches the function registered under its name.
* *streamCTRL*: as for procCTRL.

### What is hard to test

`PROJECT.json` lists the hazards, each at its line and with the properties that
would catch it. In short: read-modify-writes of shared words by three
processes; requests that are answered by work that began before them; bits that
a dead process leaves behind; commands typed ahead in a terminal; values tested
before a prompt and used after it; 16-bit counters that wrap or are set back;
indices kept across a rescan; lists that are full.

## 2. Plan

In the order of importance. The modules marked * exist.

1. * `FPSsched` with the abstract `SeqQueue`: the scheduler and the RUN
   processes it starts. `FPSsched_proofs`: types, the invariant of the order,
   sequential queues. `FPSsched_refines`: that it implements `SeqQueue`, and
   what WAITONRUN waits for. `FPSsched_pass`: priorities, passes, the display.
2. * `FPSconf`: one FPS shared by fpsCTRL, CONF and RUN. `FPSconf_proofs`: types,
   what `CHECKOK`, the write status and an acknowledged check say.
3. * `ProcLoop`: loop control, limits, signals, `CTRLval` written by three
   parties. `ProcLoop_proofs`: types, prompt pause and exit, loop counts.
4. * `ProcScan`: registration of processes, scan thread, procCTRL screen.
   `ProcScan_proofs`: types, the exclusion of remapping and drawing, that
   nothing stays mapped, and that list, structures and sorted list are those of
   the processes that run.
5. * `FPSparam`: creation, connection, slots, keywords, values, files on disk.
   `FPSparam_proofs`: types, one slot for a keyword, every entry made, values
   kept.
6. * `FPStree`: scan of FPSs into the keyword tree, navigation, renumbering under
   running tasks, removal. `FPStree_proofs`: types, the tree, the selection, the
   tasks, and when unmapped memory is read.
7. `ProcTiming`: circular buffers and limits, against a reference definition.
8. `CLIcore`: registration and dispatch, argument checks.
9. `StreamScan`: scan thread and screen of streamCTRL.
10. `FPSlink`: parameters that connect to other FPSs (`ConnectExternalFPS`).

The modules share no variables. What one does to the state of another is a
choice of that other: `FPSsched` chooses whether `runstart` finds `CHECKOK` set,
which `FPSconf` computes; `FPSconf` chooses values that are good or not, which
`FPSparam` stores; `FPStree` has the tasks of `FPSsched` as far as they hold an
index; `ProcLoop` takes from `ProcScan` that a control key writes `CTRLval`.

## 3. FPSsched: the task scheduler

The state is that of the main loop of `functionparameter_CTRLscreen`: `task` is
`fpsctrltasklist`, `prio` the priorities of `fpsctrlqueuelist`, `queue`,
`waitonrun`, `waitonconf` and `cmdinputcnt` the variables of
`functionparameter_read_fpsCMD_fifo`. `pc` says where the loop is: `"loop"`
(reading the fifo), `"pass"` (in `function_parameter_process_fpsCMDarray`, at
priority `plist[qi]` and queue `qx`), `"launch"` (between the two halves of a
command), `"display"`, `"key"` (between the two halves of what a key does),
`"exit"`. Per FPS there are the `CMDRUN` status bit, the
`CHECKED` signal bit, the commands typed ahead in the tmux session and whether
a RUN process is alive.

* One action per kind of fifo line (`InsertTask`, `TaskCntZero`,
  `SetQueueIndex`, `SetQueuePrio`, `SetWaitOnRun`, `SetWaitOnConf`,
  `FifoFull`).
* A pass is `BeginPass` (sort), then one step per priority and queue: `Skip`,
  `Launch` and `LaunchEnd`, `Complete`, `Hold`, `WildFault`. A launch has two
  steps because `runstart` types the command into the terminal first and sets
  `CMDRUN` after: RUN processes move in between.
* `Display` drops `SHOW` of the tasks that no longer fit (mode 3 only).
* `KeyBegin` and `KeyEnd` are the keys of the same loop that do to an FPS what a
  command does (`fpsCTRLscreen_process_user_key`): `R` and `r` start and stop its
  run, `e` and `E` remove it, `P` executes any commands. They use `CmdBegin` and
  `CmdEnd`, as launches do. The scan that follows `e` and `E` renumbers the FPS
  entries: that part is in `FPStree`.
* `RunSpawn`, `RunExit`, `RunCrash`, `ConfChecked` are steps of other
  processes. `KeysLost` is the end of a tmux session, whose commands typed ahead
  are lost.
* `LoadStatus` and `StoreStatus` are CONF's rewrites of the status word, of which
  `CMDRUN` is a bit: load, change of another bit, store. `held` are the values of
  `CMDRUN` that rewrites under way have read; a store writes one of them back
  over whatever was written meanwhile.

The fields `sub` and `quiet` of a task, and `nsub`, `seen` and `moved`, are
history: no guard reads them. `SeqQueue` is the abstract specification: per
queue a set of waiting tasks and at most one being served, always the oldest.

Of the commands, those that touch what the scheduler reads are modelled one by
one (`runstart`, `runstop`, `fpsrm`, which stops the run before it removes the
FPS, `confupdate`, `queueprio`, a line that names no FPS); the others (`confstart`,
`confstop`, `setval`, `getval`, `fwrval`, `runwait`, `logsymlink`) are the class
`"other"`, which leaves tasks, queues and runs alone. Whether `runstart` finds `CHECKOK`
set is a choice. Messages and drawing are left out.

| run | question | bounds |
|---|---|---|
| `order` | Are tasks of a queue run one at a time, oldest first, and does a task that waits on a run wait until that run is over? | 2 queues, 2 entries, 3 tasks on one FPS, settings of queue and WAITONRUN, runs started by tasks and keys, killed and over at once, FPSs removed by tasks and keys, rewrites of the status word; 1.8 million states |
| `prio` | Are queues examined by priority, and does the display keep finished tasks from filling the list? | 3 queues (the fewest for which the loop over priorities comes round twice), 2 entries, 2 tasks, priorities -1, 1, 2 changed by settings and tasks |
| `live` | Is every task served? | 2 queues, 3 entries, 2 tasks on one FPS, with WAITONRUN, WAITONCONF and `taskcntzero` |
| `waitonconf` | Does WAITONCONF wait? (It does not.) | 1 task |

Three tasks in two queues are enough for two tasks of a queue and one of
another, and for an entry that is reused after a purge; a run stopped from the
other queue needs two tasks on one FPS. The bounds are `MaxSub` (tasks
submitted), `MaxKeys` (commands typed ahead), `CntMod` (2^16 in the code),
`NBtask` (1024), `NBqueue` (10) and `NBkeep` (height of the window).

Keys are left out of `prio` and `live`: a key that gives `queueprio` does to
the pass what the task does that gives it, and the proofs of section 9 are for
every `Key`; a step of a key returns to where it came from, so that in a
behaviour with keys at every moment the model, unlike the code, which takes one
key in each iteration, would make no pass.

*Fairness* (`live`): the main loop runs at 100 Hz and does not wait for
anything else, so the scheduler is weakly fair; the shells start what was typed;
a CONF process answers; run functions end. The fifo is not fair: nobody has to
submit anything. `MaxSub` bounds the lines that are commands, settings do not
stop, and still the pass gets its turn, because weak fairness of `Scheduler`
stands for the empty read that ends the reading of lines.

## 4. FPSconf: one FPS and its processes

`status`, `signal` and `fpflag` are the shared words as sets of bits. A
parameter's value is `good` or not: whether `functionparameter_CheckParameter`
finds an error in it. Three processes have a program counter: fpsCTRL (`gpc`),
which does one command or key after another; CONF (`cpc`), whose loop is cut at
each access to a shared word; RUN (`rpc`), which sets values (`RunSet`,
`RunOnOff`) while it runs and requests no update for them. `fpsrm` is `runstop`
followed by `confstop`.

`read`, `vouched` and `silent` are history: the parameters whose present value the
check under way has read, those with the value from which `CHECKOK` was
computed, and those that RUN set and no check has read since. `stopping` is
history too: the CONF process was told to stop, and has not itself put
`CONFRUN` back since. `unread` and `quiet` belong to the request of
`confwupdate`.

With `Racy` a read-modify-write of a word is two steps: the process loads and
computes (`SetStatus`, `SetSignal`, `SetFlag` leave the new word in `pend`), and
`Store` writes it later, over whatever was written meanwhile. Without `Racy` it
is one step. The properties about values need the latter; that requests are
answered is checked with the former.

| run | question | bounds |
|---|---|---|
| `conf_check` | Does `CHECKOK` tell the truth of the values it was computed from, and are these, when nothing is requested, all but those RUN set; does the write status tell the truth when nothing is requested; does `confwupdate` wait for a check of its values; are parameters protected once RUN runs? | 2 parameters of different permissions, one of them ON/OFF and set by RUN at any time, 3 commands of 10 kinds, CONF and RUN may die; 780,000 states |
| `conf_racy` | Is a requested check answered although updates get lost, and does a CONF process that was told to stop end? | 1 parameter, 3 commands of 5 kinds, overlapping read-modify-writes of fpsCTRL, CONF and RUN; 1.7 million states |
| `conf_proceed` | Does `confwupdate` proceed only without errors? (It does not.) | 2 parameters, 3 commands |

In `conf_racy` RUN sets no values: they are no part of the words that the two
properties are about. Two parameters make a check that has read one value and not the other; three
commands give a start of CONF, a change during a check, and another request.
Without overlap the truth invariants hold for every number of everything, by
proof.

*Fairness*: `WF(CtrlStep)` (fpsCTRL ends a command; `confwupdate` gives up
after one second, an edit ends with a value or escape), `WF(ConfStep)` (the
loop only sleeps for given times), and that a RUN process starts when its shell
is idle and goes away after `RUNexit`. New commands and crashes are not fair,
and a run may go on for ever and set values or not: `RunProtects` speaks of such a
run.

## 5. ProcLoop: a process in its loop, and the procCTRL screen

The variables are fields of the shared `PROCESSINFO` structure, the flags that
the signal handler sets (`sig`), and where process and screen are (`pc`, `spc`).
The order of calls is that of the code template in
`doc/ProcessInfoStructure.md`; the functions it calls are cut at each access to
`CTRLval`, because the screen may write it there: `Resume`, `TestStep`,
`Unstep`, `TestStop` are `processinfo_loopstep`, `ExecStart`, `Compute`,
`ExecEnd` the rest of an iteration. A process runs several loops with the same
structure, and `processinfo_setup` resets only part of it. The keys `p` and `c`
load `CTRLval` and store later (`spc`); `s`, `e`, `L`, `M` act at once. A time
over its limit is a choice. `since` and `late` are history: the iterations
begun since `CTRLval` has its value, and since a signal came.

| run | question | bounds |
|---|---|---|
| `loop_control` | Do loops pause, exit and count as told? | 2 loops of one process with no limit or a limit of 0 or 1, 3 keys of 6, all signals |

The second loop finds what the first left; three keys set a limit to "pause" and
add a request, or make a pause, a step and an exit. Iterations are counted up
to `MaxCnt`, which is above any limit; a loop without limit goes on there.

*Fairness*: the process is weakly fair in its loop: it sleeps for given times,
and what the template waits for is a semaphore that its input stream posts. The
screen ends the handling of a key (`ScreenStep`). Keys, signals, new loops are
not fair.

## 6. ProcScan: the list of processes, the scan thread and procCTRL

`created`, `active` and `PIDarray` are the list in shared memory
(`PROCESSINFOLIST`), `file` the files of the processes, `pinfo` the array
`pinfoarray` of the screen: the process whose file is mapped for a slot, or
none. A process of the model stands for a PID, a name and the file that is
named after both.

* A process registers in the steps of `processinfo_shm_create`: `FindSlot`
  (and `CreateList` if there is no list), `WriteSlot`, `MakeFile`, `Activate`.
  The slot is taken by the last of them only, so that two processes can find
  the same one. `Die` may come at any time and removes nothing.
* The scan thread is `processinfo_scan`: `Request`, `AwaitOK` and `Acknowledge`
  are the handshake, `LoadSlot`, `TestSlot` and `LinkSlot` the loop over the
  slots, `Sort` what follows it, `ScanDone`, `CountScan` and `Wake` the end of a
  round. The test of a slot uses what was
  loaded for it, and what it stores goes over what a process wrote meanwhile.
* The screen is `processinfo_CTRLscreen`: `Start`, `Permit` and `FirstScan`
  before its loop; `TestRequest`, `Grant` and `Blocked` the handshake of a loop;
  one action per group of keys; `Draw`; `Leave`, `Join` and `Close` after the
  loop. `Gone` is what ends the program at once: a signal to PID 0, or the use
  of a structure that is not mapped.

The places of the array that is sorted are not all initialised: a slot that is
active but not mapped leaves a hole. Such a place holds any slot (`IndexArray`).
`pindexActive[-1]` (the cursor in an empty list) is read as slot 0. Sorting and
drawing are one step each: by `Exclusion` nothing but registering processes
moves meanwhile. Processes end at once when `K`, `T` or `I` tells them to. What
the control keys write to `CTRLval` is the matter of `ProcLoop`. `raced`, `late`
and `scanlate` are history.

| run | question | bounds |
|---|---|---|
| `scan` | Do scan and screen keep out of each other's way, does the list keep the processes that run, does the screen show and use the structure of the process in the slot, is a dead process marked, does `x` end it all? | 2 processes that may die at any time, 2 slots, 2 keys of 12 |
| `scan_kill` | Do signals go to processes of the list? (They do not.) | the same |

Two processes are the fewest of which one can take the slot of another, dead and
removed, while the screen knows the old one; two keys mark and act, or change
the sort order and act, or remove and leave. Two slots for two processes: a
process cannot find the list full, the screen can.

*Fairness*: `WF(Scan)` and `WF(Screen)`: both threads sleep for given times and
wait for nothing but each other. Processes are not fair, they may stop anywhere
in their registration. `NoKey` is a step of the screen, so nobody has to type.

## 7. FPSparam: the entries of a structure and their files

The shared memory file of one FPS is removed and made anew while others have it
mapped, so the model has *generations* of it: `path` is the one the name leads
to, `size` tells whether it exists, has been opened (and cut to nothing), or has
its size; `key` and `val` are the slots of each. `file` is the setval file of
each parameter. Every actor (the processes `Proc` that initialise, `"gui"` for
fpsCTRL, `"run"` for a RUN process) has a place `pc`, the generation it has
mapped, and the slot it works on.

* Creation is `function_parameter_struct_create` in three steps, `Remove`,
  `Open`, `Fill`; `Connect` is `function_parameter_struct_connect`, which may
  meet a file without size and end the process. `Setup` is
  `function_parameter_FPCONFsetup` with or without creation.
* `function_parameter_add_entry` is `FindEntry` (the slot with the keyword or a
  free one), `SetEntry` (flags, keyword, and the default or the argument as the
  value), `ReadFile` (the setval file overrides), and, when the value did not
  come from the file, the save. `AfterEntry` goes on to the next entry.
* Every save is `functionparameter_WriteParameterToDisk`: `Truncate`, then
  `Write` of the value that is in the slot by then.
* `GuiSetval`, `GuiEdit`, `GuiScan`, `GuiErase`; `RunConnect`, `RunSet`,
  `RunSave`; `Die` at any time.

A setval file does not hold every value. `Printed` gives what is in the file
when a value is written, `Scanned` the value when that is read: a float is
printed with `%18f` and loses digits, or is 0 if it is small (2354, 2358); a
string is read with `%s` up to the first blank (1884-1971), and an empty one as
the mark `#` that follows it. All that is assumed is that a value that was
written and read once is the same when it is written and read again (`Back`).
In the run one value loses its digits in the file, and another its end when it is
read.

One value stands for the values of every type, and a keyword is known by which
other keywords contain it (`Within`): that is what `strstr` in
`GetParamIndex` sees. Minimum, maximum, counters and the fields a reader keeps
in the slot are left out. `want`, `exposed` and `raced` are history: the value a
parameter was last told to have; whether that value met a race, a crash, a
replaced structure or was never saved; whether two initialisations met.

| run | question | bounds |
|---|---|---|
| `values` | Has a keyword one slot, does a loop start with every entry, and does what a file can hold of a value that was set and saved survive creation and restarts? | 2 keywords of which one contains the other, 2 slots, 2 processes that initialise, 2 generations, 2 initialisations, 1 set value; 5.0 million states |

Two initialisations are one that meets another, or one after another; two
generations are one that is replaced under those who have it mapped; as many
slots as keywords make the structure full, so that a slot taken twice leaves
none for the last. Of the keywords, one is saved on change, the other an ON/OFF
state that RUN sets (its values are the same as the other's, and may lose digits
too). The invariants need no fairness.

## 8. FPStree: the list of FPSs, the keyword tree and the keys

`dir` is the directory as `readdir` gives it; `fps` the array of connections;
`keywnode`, `NBkwn`, `NBfps` the tree of the last scan; the selection is the
variables of the same name of `FPSCTRL_PROCESS_VARS`. One iteration of the
main loop is a key (`pc = "key"`), the commands and the task list (`"fifo"`) and
a frame (`"screen"`).

* `Scan` is `functionparameter_scan_fps`: disconnect, connect in the order of
  the directory, and make the tree in the nodes of the old one. `Build`,
  `PlaceFps` and `PlaceEntry` are its three loops, over FPSs, entries and levels,
  as recursive functions; `PlaceNode` is one round of the innermost.
* One action per key or group of keys that does the same to the selection;
  `KeyErase` and the command `Fpsrm` are `functionparameter_FPSremove`.
* `Launch` gives a task the index of an FPS; every `Fifo` step reads the memory
  of the FPS of the task under way.
* `FpsScreen` draws, chooses the line, node, and slot that keys will act on, and
  records the path it showed; `FpsScreenCrash` is a frame that reads memory
  that is not mapped. `Reading` and `Md` say what such a read can meet: nothing,
  or what was mapped to the place since.
* `Appear` and `Vanish`: other processes make and remove FPSs.

Entries are visible (the first of each FPS at least); nodes of the tree that
were never written are zero; other processes change the directory before a key
only, as nothing else reads it. A signal is looked for at the end of an
iteration (`Leave`). Layout, colours and the match of names against
`fpslist.txt` are left out. Between the root and the directory that is drawn
the code keeps a chain of nodes that may be of an earlier frame (section 10): the
number of lines (`Lines`) then is that of the list of any node.
`RoomAssumption` says that the arrays have room for the keywords of all FPSs,
which the code does not check.

| run | question | bounds |
|---|---|---|
| `tree` | Does the tree name FPS and slot of every entry, do keys act on what is shown, is unmapped memory read only after a removal, does a task wait on the FPS it was given to? | 2 FPSs; one has a directory that is also the keyword of a later entry; 6 nodes, 3 children, one FPS that others make or remove |

Two FPSs give two orders of the directory, a second index to which a task or
node can wrongly lead, and a scan that finds fewer than before. Levels of root,
FPS, directory and parameter all occur (`MaxLevel` is 19 in the code). Six nodes are the fewest that hold both
FPSs. The run has 5.7 million states.

## 9. Theorems

Every invariant and every action property that a passing run checks is also a
theorem, for every value of the constants. All are proved by TLAPS from the named
assumptions on the constants (`SchedAssumption`, `ConfAssumption`,
`LoopAssumption`, `ScanAssumption`, `ParamAssumption`, `TreeAssumption`,
`RoomAssumption`). All but the last say no more than the ranges of the
constants; some theorems assume more, which is said below.

* `FPSsched_proofs!TypeCorrect`: every index the scheduler uses is within its
  array, for any number of queues, entries, FPSs and tasks.
* `FPSsched_proofs!OrderInvariant` and `Sequential`. `SequentialQueue` is not
  inductive: that no second task of a queue is launched follows from the choice
  of the smallest input index, if the started task always has it.
  `StartedIsFirst` says so; it is kept when a task is added only because input
  indices grow, which is `IndexIsSub`. Both together are the inductive
  `OrderInv`. The assumptions are that `taskcntzero` is not used and that fewer
  tasks than `CntMod` are submitted: without them the property is false (section
  10).
* `FPSsched_refines!Refinement` (`Spec => QueuesInOrder`), from the same
  assumptions. By `OrderInv` the task that is started is the oldest that its
  queue has, so that each step is one of `SeqQueue` or leaves the queues alone: one
  lemma per action.
* `FPSsched_refines!WaitsForItsRun` and `BlocksItsQueue`. The inductive `RunInv`
  says of a task that waits on a run nothing else has disturbed (`quiet`): there
  is one run at most of its FPS, and when `CMDRUN` is clear that run is over. A
  launch takes two steps, and the invariant says which of them is done. `quiet`
  ends when a task or key starts, stops or removes a run of the FPS, and
  when a rewrite of the status word takes `CMDRUN` back; everything else that
  moves meanwhile (keys for other FPSs, rewrites that find the bit as it is, the
  death of the run or of its tmux session) leaves the invariant true, for every
  set `Key` and with all of `Env`.
  `BlocksItsQueue` has the assumptions of `Refinement` too.
* `FPSsched_pass!HighPriorityFirst` and `PassExamines`. `PassInv` says that the
  sorted list of priorities has an entry of its own for every queue whose
  priority has not changed (`Matched`), and which queues the pass is done with at
  its present place (`Done`). A queue lower than all others would be examined
  at the entry where the loop does not come.
* `FPSsched_pass!ListNotFilled`, for runs with the scheduler screen on
  (`Mode \subseteq {3}`): the window drops what does not fit.
* `FPSconf_proofs!TypeCorrect`, also with overlapping read-modify-writes.
* `FPSconf_proofs!CheckOK` (without overlap). `CheckOKTrue` has two parts.
  `CHECKOK` vouches at any time for the values it was computed from, as far as
  nobody changed them since: it is the code's promise to `RUNstart`, which reads
  the bit at any time. And when the CONF loop comes round with no update
  requested, these are all values except those that RUN set after their check,
  and the bit is off for a reason. `CheckInv` says what part of a check is
  already true of the present values at each point of the loop; a value that
  fpsCTRL changes requests an update as the last thing of the command (`gpc =
  "update"`), and the loop clears the request before it starts a check, so a
  request that arrives later is still there when the loop comes round.
* `FPSconf_proofs!WriteStatusCorrect` (without overlap). `WriteInv` relates
  `prev_status` to the status from which the write status was computed: a bit
  that changes during the computation is found by the comparison of the next
  loop step.
* `FPSconf_proofs!QuietAckReadsAll` (without overlap). `FreshInv` says which
  values the check has read since the request, at each point of the CONF loop.
* `ProcLoop_proofs!TypeCorrect`, `ControlIsPrompt` and `SignalIsPrompt`. `ControlInv` and
  `SignalInv` say where the one iteration is that began after the request: in
  its computation, as the last one if the request was an exit, or over and the
  loop in its pause.
* `ProcLoop_proofs!CountIsOK`. `Below` keeps the count under the limit as long
  as the loop is to go on; `Reached` says that a loop nothing else has ended
  has reached it.
* `ProcScan_proofs!ScanExclusive`. Two flags are tested and set by two threads;
  `Handshake` (inductive, `HandshakeInvariant`) says where each thread can be for
  every value of them: while the screen tests, handles a key or draws,
  `SCANBLOCK_OK` is clear and the thread sleeps or waits for it; while the screen
  waits, it goes on only when the thread has taken the grant back.
* `ProcScan_proofs!AllClosed`. `MapInv` says that nothing is mapped in a slot
  that is not displayed, nor before the thread was started. By `Handshake` the
  thread has ended when the screen unmaps what is displayed.
* `ProcScan_proofs!TypeCorrect`. Besides the ranges (`TypeInv`), only finitely
  many processes have a creation time.
* `ProcScan_proofs!RunningListed`. `SlotInv` says what a process whose
  registration met no other knows of its slot at each step of it: nobody else is
  entering it, it is free until the process takes it, and a scan that has
  found no file is not about to free it.
* `ProcScan_proofs!StructureFresh`. By `FreshInv` every slot but the one the scan
  is at has the structure of its process, if it did not enter after the scan was
  there; of the slot it is at the scan knows the process.
* `ProcScan_proofs!SortedLatestFirst`. The array that is sorted has places that
  are not initialised; the proof counts: the places below a slot's rank are
  as many as the slots before it (`Places`), so that each mapped slot has a place
  of its own and none is left over. `TimeInv` makes creation times different,
  `SortInv` carries the result to the next scan.
* `FPSparam_proofs!TypeCorrect`: every slot an actor works on is one of the
  structure, for every number of actors, slots and generations.
* `FPSparam_proofs!OneSlotPerKeyword` and `EveryEntry`, for every number of
  keywords, slots, processes and generations. Both hold as long as no two
  initialisations met (`raced`), and neither is inductive. `RaceFree` is:
  `Alone`, at most one process is between its setup and its loop; `Made`, what
  is mapped or reached by name was made, and a name is free when its file is
  opened, so that the generation opened is fresh and mapped by nobody;
  `Distinct`, the property itself; `Progress`, the keyword that an
  initialisation has found a slot for is in that slot or in none, and the
  entries before the present one are in the structure it has mapped: only
  initialisations write keywords, so nobody else can disturb that.

* `FPSparam_proofs!ValuesKept`. `Layout` says that a structure has the entries
  in the order in which they are added, so that the first slot whose keyword
  contains the name of a parameter that is not `Ambiguous` is its own. `Kept` says
  where the value is while it is on its way between slot and file, for each
  place of an initialisation and of a save: what is in the slot is the value told
  or what a file leaves of it, and what is in the file is a printing of one of
  the two (`LeftFacts`: reading such a printing gives one of the two again).
* `FPStree_proofs!TypeCorrect` and `TreeCorrect`, for all FPSs and keywords.
  `Upto` says what a tree has that is made up to some level of some entry:
  `Shape`, each node is listed once, by the node of its path's beginning; `Origin`,
  each is there for an entry that came before and names its FPS and, if it is
  a leaf, its slot; `Placed`, the entries that came before have their node. One
  node is placed (`PlaceShape`, `StepTrue`), then the three loops are gone
  through (`EntryTrue`, `FpsTrue`, `BuildTrue`). That the number of nodes and of
  children stays in the arrays follows from `Shape` by counting: paths of nodes
  are different members of `TreePaths`.
* `FPStree_proofs!TaskCorrect`. `Tasks` says that the last scan found the
  directory as it is, and that the index of the task is its FPS's there.
* `FPStree_proofs!CrashCorrect`. `Present` says that as long as nothing was
  removed the list gets no shorter, so that every index that was in it, also
  one of an old node, of the selection or of a task, still is, and is mapped.
  For that `Upto` has a bound on the indices of all nodes.
* `FPStree_proofs!ActsCorrect`. The line that a frame selects is a child in the
  tree (`LineShown`), which names its FPS (`NodeOf`); that this FPS is mapped
  follows from what the frame has read (`LineMapped`), as every node has an
  ancestor on the list of the root that is of the same FPS (`Ancestor`).

The provers cannot use the library's induction theorems, which have an operator
as a parameter. Where a proof goes along the numbers (the loops of a scan, the
way up the tree, the parameters counted) it cites the lemma `Climb` of
`FPStree_proofs`: a set of numbers that has 0 and with each number the next has
all. Its proof takes the smallest number that is missing, which exists by
`WFMin` and `NatLessThanWellFounded`.

Only model-checked: liveness under fairness (`TaskServed`, `ChecksAnswered`,
`RunProtects`, `LoopStops`, `ExitAnswered`, `SignalAnswered`, `DeadMarked`,
`ExitEnds`), which is out of the prover's reach, and the properties of the runs
that expect a violation, which are false.

## 10. Divergences

Found while modelling; those with a run are the findings of `PROJECT.json`, the
others were found with variants of the models and are excluded by constants.

* WAITONCONF tests the bit in the wrong word (run `waitonconf`).
* `confwupdate` may read an error count that is being counted (`conf_proceed`).
* `taskcntzero` while tasks are queued, and the wrap of the 16-bit input counter,
  make a younger task the first of its queue (`function_parameters.c` 5318,
  5410); both are excluded from `order` by `Line` and `CntMod`.
* A queue whose priority is lower than all others is never examined (5464);
  `PassComplete` and `TaskServed` state the exception.
* `CMDRUN` is cleared before the run has ended, and a task that waits on the run
  released: by a `runstop` or `fpsrm` of another queue (5668, 5803), by the
  keys `r`, `e`, `E` and `P`, and by a rewrite of the status word by CONF that
  read it before the bit was set (2159-2169, 2959-2966). `WaitOnRunAlone` states
  the exceptions. Such a rewrite can also set the bit again after `RUNexit` cleared
  it; that and a RUN process that is killed,
  or over before `CMDRUN` is set (5626), leave the bit set, and a queue that
  waits on it is blocked for good; `live` excludes the three by `Env`.
* A check that was under way when `confwupdate` made its request acknowledges it
  (3021); `QuietAckFresh` states the exception.
* `RUNstart` reads the `CHECKOK` of the last check (5569): a value that was set
  since, and waits to be checked, may be bad. A value that RUN itself sets
  (`functionparameter_SetParamValue_*`, 1158-1343) requests no update: `CHECKOK`
  stays as it is, with nothing requested, until somebody else requests a check.
  `CheckOKTrue` speaks of the values that `CHECKOK` was computed from. `setval` tests no
  write status (4806), and an edit tests it before the prompt (3948).
* The CONF status bit is never cleared (2209); a `confstop` between the start of
  a CONF process and its first loop step is undone by that step (2138).
* With overlapping read-modify-writes a stop can be lost after that, too: CONF
  writes an old word with `CONFRUN` back when it requests an update (2134, 2174),
  clears one (2183) or acknowledges a check (3021) while `CONFstop` clears the
  bit (5772). `LoopStops` says that a CONF process which does none of this ends.
* With overlapping read-modify-writes an update request or a toggle of an
  ON/OFF parameter can be lost (3021, 3017), and `CHECKOK` then stays wrong; this
  is why `CheckOK` is proved for `~Racy`.
* A single step (`processtools.c` 372) and a limit set to "pause" (1111, 1159)
  store 1 over an exit requested meanwhile; `ExitAnswered` states the exception.
  A loop in its pause looks at no signal (368), which `SignalAnswered` states.
* The count of a loop ends at `loopcntMax + 1` (387): `processtools.h` 77 says
  that the loop exits when it is `loopcntMax`. `CountOK` states what the code does.
* `processinfo_setup` resets neither `CTRLval` nor the signals (281): after an
  exit or a signal the next loop of the process makes one iteration and ends.
* After SIGPIPE `loopstat` is STOPPED while the loop goes on (1045); values 2, 5 and 6 of `loopstat` (`processtools.h` 88, 91,
  92) are never set.
* A limit of 1 only reports; `processtools.h` 119 and 124 say that it pauses.
  The time tested against `dtexec_limit` lacks its seconds (1135).
* The keys K, T and I signal the PID of a slot that is free since the list was
  sorted, and PID 0 is the process group of procCTRL itself (run `scan_kill`,
  `processtools.c` 2831).
* A process that registered since the last scan is active, but not mapped:
  unsorted, the screen draws it and control keys use it (`processtools.c` 2969,
  3183, 3894, 3946), which are uses of NULL. `Gone("fault")` stands for them.
* A slot is taken only when registration ends (594): two processes can find the
  same one, a scan frees it when it looks before the file exists (2161), and the
  key r can remove the file of a process that registers. A list that two
  processes create at once is emptied by the second (464). `Listed`, `MapFresh`
  and `SortedTrue` state the exception `raced`.
* procCTRL takes a list whose slot 0 is free, or that is full, for an empty one
  and returns (2603).
* An active slot that is not mapped leaves a hole in the array that is sorted
  (2272); `SortedTrue` states the exception `scanlate`.
* Adding an entry that exists resets its flags and its value
  (`function_parameters.c` 1514-1786) and takes the value back from its file;
  the comment at 1429-1431 says that an existing entry is not modified. Between
  the two, readers see the default, and a value set but not saved is lost.
* `GetParamIndex` takes the first entry whose keyword contains the name (1110,
  `strstr`), and `setval` saves the entry of the tree node (4978): with one
  keyword contained in another the value goes to one entry and the save to the
  other. `ValueKept` states the exception `Ambiguous`.
* A value does not survive in its setval file if it needs more than `%18f` prints
  (2354, 2358), contains a blank or is empty (1884-1971); an empty string comes
  back as `#`. `ValueKept` speaks of the value told and of what its file leaves of
  it.
* Two processes that add entries at once can give one slot two keywords or one
  keyword two slots (1478-1508); `OneSlot` and `Complete` state the exception
  `raced`. A setval file is emptied, then written (2345): a crash in between
  loses it (`exposed`).
* A structure that is created again is another file (572); who has the old one
  mapped goes on with that. A connection that meets a file without size ends
  the process (`GuiScan`, `Connect`), and so does in fpsCTRL a file that vanishes
  between `readdir` and `lstat` (6260).
* `FPS_ADDPARAM_FLT64_IN` has the flags of an output parameter
  (`function_parameters.h` 629). The conditions at 1996-2017 store a flag with
  `|=` where one is to be tested. To set an ON/OFF value writes an integer
  over the union of values (1340).
* `fpsname` is extended by the second token for every optional argument
  (465-489, comment 462); `_RUNSTOP_` calls the CONF function with loop status 1,
  that is, starts a CONF loop (529), where `doc/FunctionParameterStructure.md`
  135 stops RUN. With CONFSTOP `FPCONFsetup` disconnects (2091) and the macro
  around it goes on to write into the structure (`function_parameters.h` 592).
* `FPSremove` sets `SMfd` to -1 before the descriptor is closed (5850): file and
  memory of an erased FPS stay open and mapped in fpsCTRL.
* The selected node is kept over a scan; if FPSs were removed it may name one that
  is disconnected, which the display and the keys read (7480-7499, 8424; the
  comment at 6860 is aware of the selection). `CrashOnlyAfterRemoval` states
  the exception; a task that waits on a removed FPS is another case (5203).
* After the key e the next frame is skipped (6858): a key typed meanwhile acts on
  what no frame has shown. `ActsOnShown` speaks of frames that were drawn.
  In the help and scheduler screens keys act on a selection that is not shown.
* The first arrow key before the first frame gives line -1 (6891); in an
  invisible first entry the selected line runs away (7574-7593); the clamp at
  7702-7704 draws the last child again. A keyword that begins another is
  given no leaf if the longer one came first (6337-6465), which `TreeTrue`
  states.
* `nodechain` is traced back from the level of the last frame (7504-7522), before
  the level is that of the directory (7524): the first frame of a directory two or
  more levels down draws a wrong column and counts its lines.
* The index of a command whose entry is not found is not initialised (4224,
  5203). The scan does not test `NB_FPS_MAX` and `NB_KEYWNODE_MAX`.

## 11. Not modelled

`PROJECT.json` gives the reason for each component with status `not_modelled`.
In the order of the plan remain the timing of processinfo, the command line
core, streamCTRL, and parameters that connect to other FPSs. Parts of modelled
components that are left out: what no FPS depends on (`getval`, `fwrval`,
logging), the CONFSTOP mode (section 10), the stall of the screen in `runwait`,
the limits and counters of parameters, the sequence of tmux sessions that
`FPSremove` closes.

Not planned: drawing and logging (pure output), the parsing of `/proc` and CPU
loads (no state of their own), the generated scanner and parser, scripts, the
Python binding, the template module, helpers without state, and the build.
