# UDEKS: a verification project

UDEKS is an operating system for the Commodore 128: a resident 8502 kernel
with up to six cooperative programs, a root shell, a storage service, windows
on a bitmap display, and the machine's second processor, a Z80, as a
worker.  The modules here are translated from its source (`src/src/...`, C for
cc65 and SDCC, and 6502 assembly, and the Python programs in `src/tools/` that
build a release), the configurations check them with TLC on
small instances, and the `*Proofs` modules prove what matters most for every
value of the constants with TLAPS.

All source paths below are relative to `src/src/` unless they begin with
`src/`.

## 1. Inventory

What each part keeps, does and must get right.  "Hard" is what makes a test
unlikely to find the fault.

| Part | State | Operations | Correct when | Hard |
|---|---|---|---|---|
| Tasking core (`scheduler/*.s`, `8502/task_switch*`) | slot table, current and last selected task, private snapshots of blocked requests, tick counter | service pass: wake, select, run, publish; YIELD EXIT WAITPID SLEEP CANCEL SPAWN POLL | one task runs; no wake-up is lost; nobody is woken early; a response reaches the task that asked; every runnable task gets its turn | all tasks share one request record; a death and the wait for it come in either order; the tick counter wraps; slots are reused |
| Task state table (`kernel/task_state.c`) | eight slots: state, parent, wait reason, flags, status | create, events with guards and an error order | at most one RUNNING; a wait survives STOP and CONTINUE; a zombie keeps its status; a reused slot starts clean | events in any order in any state |
| Round robin (`kernel/task_scheduler.c`) | none (last selected is the core's) | select | bounded overtaking | starts while nobody is running |
| Message IPC (`kernel/ipc.s`) | two endpoints: owner, handle, name, one message; a serial | CREATE LOOKUP SEND RECEIVE CLOSE, retirement of a task | handles are never reissued; owners and senders are alive; nothing is overwritten | a task dies with an endpoint, with a message sent, or both; the serial runs out |
| Request gate (`8502/syscall_gate.s`, `8502/app_gateway.s`) | the request record | validation, dispatch | each request answered once with its own identity | requests that switch tasks in the middle |
| Root terminal (`services/terminal/`) | editor, submitted line, prompt | prompt, edit, submit, read | an unread line is not overwritten; only the owner reads | keyboard, prompt and readers each move one of two flags |
| Application loader (`services/app/`, `services/window/banked_graphics.c`) | four allocations, their owners and headers, a loan of task 4's memory to task 3, the list of running programs | launch, trying one allocation after the other; activate, reap, release | programs keep their memory; a loan ends with its program; a launch is refused only when nothing would do; what has ended is released | two reapers; joined memory; attempts fail for different reasons |
| Resident shell (`services/shell/`) | foreground program | parse, launch, wait, signal | the terminal comes back to it | programs end in other steps of the pass |
| Service registry (`services/`, `kernel` main loop) | table of services | start and poll in order | a failing service stops the kernel visibly | half a pass done |
| Storage lease and NMI (`services/filesystem/iec_lease.s`, `8502/nmi.s`) | memory map, two pending flags | take, serve, leave; drain | no NMI edge is lost | an NMI between any two instructions |
| Storage service (`services/filesystem/`) | two mounts and what they may be written, current directory, one descriptor and its owner, generations of the context tags, the bus | mount, unmount, change directory, open, read, write, create, list, rename, copy, unlink, close; retirement of a tag | the descriptor belongs to a program that runs; only granted units are written; what is in use stays mounted; whatever is open on the bus is the descriptor's | one scratch for every path resolved; errors of a slow device in the middle; tags are reused |
| Namespace (`namespace_6502.s`, `fs_namespace.c`) | mount names | resolve, list, rename, remove | two implementations agree | relative and root cases |
| Time slot (`services/module/`) | slot state, vectors | load, commit, poll, stop, set, abandon | what is entered has been validated; a client never sees an unready service | sums that wrap; programs that end in the middle |
| Time service (`services/time/`) | clock | read, set | fields valid | rollover between reads |
| Z80 engine (`services/engine/`, `z80/`, `8502/z80_handoff.s`) | mailbox, service state, counters | start, self-test, submit; validate, compute, yield | answers are those of the request; each processor in its own bank | two processors, one bus, one mailbox that programs can write |
| Keyboard (`services/input/keyboard.c`, `8502/keyboard_scan.s`) | debounced matrix, event ring | poll, get event | no bounce or click becomes a key; events tell the matrix | an interrupt shares the pins |
| Mouse and joystick (`services/input/`) | position, counters | decode | movement without jumps | counters wrap |
| Windows (`services/window/window_manager*.c`) | stacking, focus, drag, a pending click, the shadow bitmap and the outline over it | create, destroy, draw, repaint, press, drag, release, take a click | the screen shows the windows; a click reaches the window it was meant for | damage between two rows of a paste; closing in a drag; handles are reused |
| Window move cache (`services/window/cache/`, `move_cache_*.c`) | the lease and the retained image of one window | capture, paste, invalidate | never pastes what has changed | rows are copied a few per poll, and a step may fail |
| Retained bitmaps and expansion memory (`services/window/retained_*`, `services/memory/`) | pool and extents | allocate, free, copy | no overlap | exhaustion, fragmentation |
| Displays and consoles | device registers | draw | layout | none in control |
| Disk image tools (`src/tools/build_d71.py`, `build_d81.py`) | image with its map, directory and chains | install, extend the directory, derive two images | every file reads back; the map is true; a release is complete or refused | exhaustion of a side, of the directory; growth and repacking |
| Probe, boot chain, panic, built-in applications | once, or outside the kernel | | | sequential |

How they interact.  The main loop (`8502/kernel.c`) polls the services in the
order of a table: terminal, applications, scheduler, shell.  The scheduler's
poll wakes the sleepers, selects a task and runs it until it suspends; a
program calls the kernel through the one request record in common RAM, is
served with interrupts masked, and either goes on or is suspended.  The raster
interrupt advances the tick, samples the mouse and drains NMIs.  The loader
and the shell read and change the slot table between two tasks' turns.
Storage and the Z80 run inside a request, under other memory maps.

## 2. Modules

| Module | Models | Actions |
|---|---|---|
| `Lifecycle` | `kernel/task_state.c` | `Create`, `Apply` (every event, STOP and CONTINUE included), accepted or rejected |
| `RoundRobin` | `kernel/task_scheduler.c`, `select_runnable` | `Dispatch`, and `Change`: any change of the runnable set between dispatches |
| `Tasks` | the tasking core, its callers in the pass and the requests | one per request (`Yield` ... `Invalid`), one per poll (`TerminalPoll AppsPoll SleepPoll Select ShellPoll`), `Tick` |
| `ProcessTree` | nothing: the abstract promise about deaths and parents | `Birth Death Collect WriteOff` |
| `Ipc` | `kernel/ipc.s` | the five operations, `Retire`, `Admit` |
| `StorageLease` | `iec_lease.s`, both NMI stubs, the drain | one per instruction that touches the map, a flag or the device |
| `TimeSlot` | `services/module/time_slot.s` | `Exec End Begin Write Commit Poll Stop Set` |
| `Keyboard` | the keyboard poll, scan, permission check, the two interrupt phases | `Begin Abandon Scan Compare Qualify EventGet`, `Raster`, and the world: `Touch Click` |
| `Engine` | the Z80 service, both gateways, the worker's loop | `Start Refuse FindInvalid Submit Handoff Finish Tested`; `Resume Reject Accept Compute Yield`; `Damage` |
| `Windows` | `window_manager_cached.c`, the cache's lease and row copies, the drawing requests of `banked_graphics.c` | `Create Destroy Draw ImageComplete Present Delta TakeClick`, and `Poll` with every pointer and button |
| `Storage` | `iec_service.c`, `iec_context.s` and what they use of `cbm_*.c` and `fs_namespace.c` | one per request, grouped as `Boot Administer Look Open Use`, and `Retire` |
| `DiskImage` | `build_d71.py`, `build_d81.py` | `AddFile`, accepted or refused, `WriteImages`, `RepackFile`, `WriteRepacked` |

`MC*` modules give the constants their values for TLC.  `Tasks` composes:
it instantiates `RoundRobin` for its selection and is shown to implement both
`RoundRobin` (`SchedulerSpec`) and `ProcessTree` (`TreeSpec`, under a
refinement mapping that counts the deaths a parent is still owed).

How state corresponds to code:

* `Tasks.slot` is the lifecycle table of `task_context.s`/`task_state.c`,
  `snapshot` the private copies of `task_wait_state.s`, `record` the identity
  and state of the shared request record at `$F359`, `selected` and `current`
  the bytes of those names, `owned` and `foreground` `banked_owned` and the
  shell's foreground slot, `accepting`/`lineReady` the terminal's two flags.
  `asked`, `remaining` and `answer` are history: no guard of the code's reads
  them, but for the assumption stated in `Tick` (section 5).
* A request is one step: the kernel serves it with interrupts masked.  A tick
  may fall between any two steps.
* Identifiers, statuses and handles are numbers or model values; a payload is
  absent unless a property speaks of it.
* Counters wrap: `TickModulus`, `SequenceModulus`, `WordSize`.

Left out on purpose inside modelled parts:

* STOP and CONTINUE have no resident caller; `Lifecycle` has them, `Tasks`
  does not.
* `Load` is a launch that succeeds, whichever of its attempts does; a refused
  one changes nothing.  `joined` is the loan of task 4's memory to task 3:
  which image needs it is a choice, for sizes and placement are left out.  A
  load, with the file it reads, is one step of the shell's or a caller's poll.
* The terminal's line is a flag; its rendering cannot fail here.  The shell
  that executes a typed line is the `ush` program, so the resident shell does
  not consume lines.
* `TimeSlot` leaves out requests that are refused or only report the state.  A
  foreground program runs synchronously inside the shell's poll, so no poll of
  the service falls between its requests.
* `StorageLease` is the lease of an initialised service; the copying of the
  record is left out because no interrupt looks at it; the non-raster path of
  the interrupt handler is not modelled.
* `Keyboard` leaves out characters and modifiers (functions of the debounced
  matrix) and the status record.  A switch of a control port that closes
  stays closed until a permission check has met it: a click lasts many
  milliseconds, a check and a scan less than one.  Without this assumption a
  glitch between two checks would be seen as keys.
* `Engine` gives a request as a whole and identifies results by the request
  they were computed for.  Two refusals of `udeks_z80_submit`, a changed
  sequence number and a state neither COMPLETE nor ERROR, are unreachable:
  `ResponsesAreWellFormed` says so.  `Damage` is a program that writes over
  the mailbox's header in common RAM.
* `Windows` counts in cells: a title, a border and a row of pixels are one cell
  each, and a pixel is the window and the place in it that it depicts.
  The outline of a drag is an exclusive-or in the VIC's own bitmap and not in
  the shadow, so it is a set of its own (`inverted`).  All windows may be moved,
  closed and resized.  A poll copies `Budget` rows or fewer; the code's limits
  (four rows, fewer at the end of a band of eight scanlines) are among these.
  Pixels whose contents changed become `Stale`, which is how an old picture is
  told from a current one.  The flag that spares a callback, IMAGE_COMPLETE,
  is left out: a callback that draws is assumed to draw its whole window.
* `Storage` has requests of the newest minor version; they are serialised by
  the lease, so a request is one action, and a request that is refused and
  changes nothing is no step.  What a drive answers is a choice in every
  transfer.  A file is a name; `/` stands for `/bin` as well.  The `active`
  flags of reading, writing and mutating are one variable, `bus`, as no two are
  ever set together.  The virtual entries of a directory and its index, the
  CPU's speed, and what a drive goes on doing with an abandoned command are
  left out.  After the boot no program mounts or unmounts the root:
  `stage1-gateway.s` 1714-1787 leaves BOOT_SOURCE set.  Fields of a closed
  descriptor are not kept, as nothing reads them.
* `DiskImage` names blocks instead of holding their bytes; the two geometries
  are constants, held to what `DiskAssumption` says of them.  `AddFile` covers
  the files of the build and those of `--data-file`, and installs into both
  images the build holds in memory.  `build_d81.py` runs on the written image
  and installs one entry of its directory after the other: `RepackFile` is an
  iteration of that loop, refusals included, `WriteRepacked` its end.  The
  loops that go over sectors by track and number, and over slots along the
  directory, are `InOrder` of the set they go over; checks of the arguments
  (lengths of names, types of files, the size of an image) are left out.

## 3. Runs

Every passing run but `disk_image`, where a build ends, checks deadlock too.

| Run | Instance | Distinct states | Question |
|---|---|---|---|
| `lifecycle` | 3 slots, 2 reasons, 2 statuses, valid and invalid flags | 29,008 | every event in every order: waits remembered, zombies final |
| `ipc` | 2 tasks, 2 names, 2 endpoints (fixed in the code), serials to 3 | 61,552 | owners, senders, fresh handles, kept messages until the serials run out |
| `tasks_process` | 4 slots, two of them native, 2 statuses | 210,953 | parents, children, cancellation, spawning, loading and reaping, memory lent and returned; refinement of `ProcessTree` and of `RoundRobin` |
| `tasks_timers` | 3 slots, counter modulo 6, timeouts to 2 | 107,772 | deadlines across the wrap, terminal input, responses of a blocked and of a cancelled task; liveness: a timed wait ends, a runnable task runs |
| `tasks_yield` | 3 slots | violation | finding 1 |
| `storage_lease` | complete (no constants) | 105 | NMI at every instruction, and that edges get acknowledged |
| `time_slot` | addresses modulo 8, slot 2..5, every size, BSS and vector | 12,379 | every header, loads that fail or are abandoned |
| `keyboard` | 2 keys in 2 lines, a ring of 2 | 943,488 | bounce, click and interrupt between any two steps; overruns |
| `engine` | 4 requests, one of them refused; sequence modulo 3 | 789 | answers, banks, errors, samples |
| `windows` | 2 windows of 2x2 on 3x3 cells, one row a poll | 104,520 | drawing, dragging, capturing and pasting interleaved, failing steps, reused handles |
| `storage` | 3 units, 2 files, the loader and 2 programs, 3 generations | 16,716 (under symmetry) | ownership, grants, mounts in use, failures of any transfer |
| `disk_image` | 8 tracks of 2 or 3 sectors, 4 of 6 sectors for the 1581, 2 entries a sector, 5 files | 2,440 | exhaustion of side, disk and directory; both derivatives |

Why the bounds are enough.  A parent, a child and a bystander are three
slots; the fourth lets two natives exchange a slot number while task 2 lives.
One wrap of a counter is as good as any: the comparisons depend on differences
only.  For IPC two endpoints are the code's own number, two tasks give an
owner and a stranger, and three serials let one endpoint be created anew and
the counter run out.  In `TimeSlot` eight addresses make both sums of
the bounds check (`CodeCarry`, `BssCarry`) wrap.  In `Keyboard` keys interact
only through the ring, so a ring of two and two keys give overrun and wrap; two
columns let one be stable while the other bounces.  In `Engine` the request
before, the request refused and the request after are all a property can tell
apart.  In `Windows` an overlap, a window beneath, a cell beside both and a
paste of more than one row need no more than nine cells and two windows; three
windows exceed two million states.  `MaxSmeared` bounds the trails described
in section 4, which are not what the run is about.  In `Storage` two
programs give an owner and a stranger, three generations a reuse and the one
after it, three units the two mounts and a third to mount anew; all three sets
are used symmetrically but for the loader.  In `DiskImage` a side has
four tracks, the directory one sector that can be added, and a file up to three
blocks: each of the refusals happens, before and after the directory has grown.

What the deeper properties say:

* `WaitersHaveLiveChildren`: whoever is blocked in WAITPID has a living child
  that will wake it and no dead one it was not told of: no wake-up is lost
  whichever of EXIT and WAITPID came first, CANCEL included.
* `ResponseReachesAsker`: a task that was blocked comes back to the response
  of its own request, though everybody wrote the one record meanwhile, and a
  task that awaits nothing is given no response: not a newborn either whose
  slot's last owner was cancelled with its answer ready.  The code sees to
  that twice, in CANCEL and in SPAWN or the loader; either would do.  The run
  is `tasks_timers`, where there are answers a scan has stored and nobody read.
* `MemoryIsNotShared`: memory outlives its slot (WAITPID frees the slot, only
  the loader's poll the memory), so a loan is refused while the donor's is
  still held though its slot is free, and an outstanding loan keeps the donor
  from being loaded until the joiner has been released.
* `OrphansAreNotAdopted`: a native slot that is loaded anew does not inherit
  the child of the program that had it before.
* `TreeSpec`: a death is reported to the dead task's parent at most once, and
  not forgotten while the parent can collect it.
* `NoEarlyWake`, `TimedWaitsEnd`: the 16-bit signed comparison of a deadline
  is right across the wrap, under the assumption of section 5.  A poller whose
  time ends in the scan that finds the line is told of the line, and nobody
  else is; a wait without limit never times out.
* `HandlesAreFresh`, `QueuedSenderIsLive`: no stale handle resolves, no message
  names a sender whose number may be somebody else's.
* `NoEdgeIsLost`: an unacknowledged NMI edge is always in a flag that a later
  drain, or the end of the lease, looks at.
* `EventsTellTheMatrix`: whoever follows the key events knows which keys are
  down, except for keys whose last transition found the ring full.
* `TransitionsAreReal`: only a key that was in that state in both scans makes
  an event, wherever a click or a bounce falls.
* `EachInItsBank`, `AnswersAreOwn`, `FailuresAreContained`: the handover
  between the processors leaves each in its own memory, an answer is that of
  the request, and what fails touches nothing.
* `StatesAreTrue`: a load under way has its program, and clients read READY
  exactly while a service is published.
* `ScreenShowsTheWindows`: every cell that the manager does not know to be under
  repair shows the topmost window's current contents, whatever request falls
  between two rows of a paste.
* `ImageIsCurrent`: the retained image is what its owner would draw now.
* `ClicksFitTheirWindow`: a pending click lies in the contents of the window it
  will be given to, handles reused or resized included.
* `HandleIsCurrent`: the descriptor belongs to the present generation of its
  tag: no program inherits its predecessor's.
* `BusIsAccountedFor`: whatever the transport has open belongs to the open
  descriptor, after every failure.
* `InUseStays`, `WritesAreGranted`: nothing is unmounted under its users, an
  open descriptor keeps its unit and its directory entry, and
  no request writes to a unit that was not granted for writing, neither by an
  alias of its mount nor through the scratch another request left.
* `FilesReadBack`, `MapIsTrue`, `DerivativesAreComplete`: no installation,
  growth or repacking disturbs what is on the image; the map frees what nothing
  uses; once the first image is written the others cannot be refused.

The type invariants, `OneRunner` and `ReuseLeaksNothing` of `Lifecycle` and
`HandlesAreUnique` of `Ipc` are not in a run's list because section 6 proves
them; `TypeOK` of `TimeSlot` and of `Keyboard` document the variables.

Every property of a passing run has a mutant in `PROJECT.json`: a definition
changed as a plausible bug would change it, under which TLC refutes the
property.

## 4. Findings

1. `tasks_yield` (`ResponseReachesYielder`).  `src/abi/task-request.md:700`
   says that a request that blocks *or switches* is snapshotted and its
   response written when its task resumes.  `task_yield_handler.s:471` writes
   YIELD's response before the switch and keeps no snapshot: a task that runs
   before the yielder does leaves another response in the record.

Observations.  They are not among the runs: the first two can be reproduced by
adding the named definition to the run's configuration.

* `NoScanWhileConverting` of `Keyboard` (a PROPERTY).
  `src/abi/pointer-input.md:46-49` says that keyboard scans are suppressed
  during the mouse conversion, and that masking interrupts in the scan closes
  the race with the check.  Interrupts are masked in the check and in the scan
  (`8502/keyboard_scan.s:47`), but not between: the interrupt that starts the
  conversion can fall there, and the scan then moves the multiplexer inside the
  window.  The next check discards the scanned matrix; the mouse sample may be
  affected, depending on how early in the window the scan falls.
* `AcceptedContentsAreShown` of `Windows` (an INVARIANT).  PRESENT and PATHS
  (`services/window/banked_graphics.c:191-195`) are accepted while a drag, a
  capture or a paste is under way, and `udeks_window_repaint` then returns
  without drawing (`window_manager_cached.c:815-818`): the old picture stays
  until something else repaints the window.  The comment at
  `banked_graphics.c:180-181` describes this loss and COMMIT and DELTA answer
  EAGAIN because of it.  `ScreenShowsTheWindows` excuses exactly these windows
  (`lost`).
* A window created or destroyed while another is dragged is composed over the
  outline's exclusive-or (`window_manager_cached.c:574-575` relies on the two
  staying in step): the next move of the outline leaves a trail there.
  `ScreenShowsTheWindows` excuses exactly these cells (`smeared`).
* `src/abi/window.md:37-38` says that a drag exposes the windows beneath; the
  cached manager only erases there, as `src/tests/test_window_drag_start.py:58-63`
  wants it.
* A self-test that the worker rejects is counted as failed by
  `udeks_z80_submit` and again by `udeks_z80_worker_start`, though
  `src/abi/z80-worker.md:57-58` describes counters of transactions; nothing
  reads them and `Engine` leaves them out.
* No document promises that this cannot happen: a native that spawns task 2
  and dies leaves a zombie nobody can collect, after which SPAWN answers ENOMEM
  and the loader EBUSY for good.

## 5. Fairness and assumptions

* `WF_vars(Pass)`: the main loop polls for ever.
* `WF_vars(\E t : Request(t) /\ phase' = "shell")`: programs are cooperative;
  the system cannot preempt them, so each is assumed to make a request
  that suspends it, sooner or later.
* `WF_vars(Tick)`: the raster interrupt recurs.
* `Tick`'s guard: a pass is not delayed by half the counter's period (nine
  minutes at 60 Hz) past a deadline.  The code's signed comparison needs it.
* `StorageLease`: the processor goes on executing and the raster recurs.

No fairness is assumed of keyboards, users, devices, or the window manager's
poll: that a paste ends would need the pointer to be quiet.  For the keyboard no
liveness is stated: with checks that have no duration every check could meet
the conversion window.

The constants' assumptions (`TasksAssumption`, `StorageAssumption`,
`WindowsAssumption`, ...) are as weak as the code allows and TLC evaluates them in
every run.  `DiskAssumption` is what the two formats have: the directory begins
behind what else is on its track, the boot sectors are apart from it, and a
1581 disk has at least as many sectors for the directory (37 to 18) and for
files as a 1571 disk.  That there are fewer than 255 windows keeps the handle
apart from the value with which `compose_damage` is told to draw none.
`RoundRobin` is only instantiated, in `Tasks`, whose assumption covers its
number of slots.

## 6. Proofs

| Module | Results | Argument |
|---|---|---|
| `LifecycleProofs` | `LifecycleIsInvariant`, `OneTaskRuns`, `WaitsSurviveStops`, `ZombiesKeepTheirStatus` | the properties are inductive together, not apart: the recorded current task is what makes a second DISPATCH fail |
| `IpcProofs` | `IpcIsInvariant`, `OwnershipHolds`, `QueuedSendersStayLive`, `HandlesNeverReused`, `MessagesStayQueued` | `IpcInv` adds to the checked invariants that every handle in use was issued before the serial (`HandlesAreIssued`): fresh handles differ from live ones only because of it |
| `TasksProofs`, agreement | `TasksAreTyped`, `CoreIsInvariant`, `OneTaskRuns`, `WaitsStayRegistered` | `CoreInv`: types, the one runner, where the bootstrapped shell first enters, and the registration of waits; each needs the others at a dispatch |
| `TasksProofs`, scheduling | `ScanStaysInTable`, `OvertakingIsBounded`, `CoreIsRoundRobin`, `CoreOvertakingIsBounded` | `SelectsNearest`: the selected task has the least distance from the last one; hence a dispatch that passes a task over brings the scan strictly closer to it.  Only `Select` moves the scan, and with `CoreInv` its step is a `Dispatch` of the policy; every other step is a `Change` |
| `TasksProofs`, waits | `NoWakeUpIsLost`, `NoOrphanIsAdopted`, `NoLineIsLost` | on top of `CoreInv`: `WaitersHaveLiveChildren` action by action; `Family` bounds whose child a task can be, which is why a reused slot finds no orphan it could adopt |
| `TasksProofs`, memory | `MemoryStaysApart` | inductive with `CoreInv`: a request changes no memory and gives no native a slot, so a load and the loader's poll are all there is to look at |
| `TasksProofs`, responses | `RequestsStayRemembered`, `AskersGetTheirResponse` | `MemoryInv` adds that the snapshot of a task that waits, or has a response to come, holds the operation and the sequence of its own latest request, and that the shell's first entry is no response.  Resuming a task copies exactly that to the record, so what others asked meanwhile cannot show; and the snapshot of one that awaits nothing holds no answer |
| `TasksProofs`, timers | `TimersStayInAgreement`, `NobodyWakesEarly` | `TimerInv`: deadline, counter and remaining time add up but for one wrap, and the remaining time stays within half the modulus on either side: the signed comparison (`input_timeout`) says then what an unbounded clock would.  Without the bound below it a deadline long past would look far ahead again.  What a waiter is told is read off the same scan |
| `TasksProofs`, refinement | `CoreIsProcessTree` | the initial state and each of the steps of `Tasks` against `ProcessTree`: births and deaths by `SPAWN`, load, `EXIT` and `CANCEL`, a report by the resumption of a waiting parent, and a stutter otherwise.  Needs `MemoryInv` (the response reported is the one stored), `Family` (nobody is his own parent's parent) and `ReportsNameTasks` |
| `StorageProofs` | `StorageIsSound`, `HandlesAreCurrent`, `BusIsAlwaysAccountedFor`, `WhatIsInUseStays`, `StorageWritesAreGranted` | `Inv` adds to the checked invariants that two mounts of one unit are both read-only (`AliasesAreReadOnly`) and that the descriptor's volume is mounted, and writable while it is written (`HandleIsSound`): a remount that takes a permission away is harmless only because it is refused while anything is open, and a write is granted only because of both |
| `StorageProofs`, the lease | `LeaseIsInvariant`, `EveryEdgeIsKept` | of `StorageLease`, whose `LeaseSpec` has variables of its own.  `LeaseInv`: at each instruction, which map is shown, when the hidden flag may be set, and where an unacknowledged edge is recorded |
| `ServiceProofs`, the Z80 engine | `EngineIsInvariant`, `ResumedInOwnBank`, `ResponsesAreAnswers`, `OkIsOwnAnswer`, `FailureTouchesNothing` | `EngineInv`: whose turn it is and which bank is mapped then (`Turns`), and what the mailbox holds at every pair of positions of the two processors (`Exchange`).  The sequence number is what lets the 8502 tell its answer from an older one, whatever its width |
| `ServiceProofs`, the time slot | `SlotIsInvariant`, `StateBytesAreTrue`, `OnlyCodeIsEntered`, `OnlyBssIsCleared` | `ValidImageFits`: because both carries are looked at, the sums of an accepted header are the true ones; and the vectors of a published service stay code because no image is written while it is published (`VectorsAreCode`).  Of `TimeSlot`, whose `SlotSpec` has variables of its own |
| `KeyboardProofs` | `ScansStayHonest`, `OnlyRealTransitions`, `QueueIsInvariant`, `ReaderKnowsTheKeys` | `ScanInv`: while a poll runs no check has met a closed switch, so a scan whose check passes read the keys as they were.  `QueueInv`: of every key not missed the *last* event in the ring tells the debounced state, or there is none and the reader knows it; which event is last survives an append because the events of one poll are of different keys, in the order of their codes |
| `WindowsProofs`, geometry and stack | lemmas only | what hulls and intersections cover (`HullCovers`, `IntersectionIsBoth`), that a paste reaches all of the damage it was asked for (`PasteCoversThePart`), and that creating, raising, removing and moving a window leave the ranks 1 to n, one each, and everybody else's pixels where no rectangle changed (`CreatedStack`, `RaisedStack`, `RemovedStack`, `MovedStack`, `OthersAreShown`) |
| `DiskImageProofs`, operators | lemmas only | what the loops' order is (`InOrderIsSound`, `InOrderIs`), that a chain is the walk along its links (`ChainIs`), and that an installation keeps what an image holds and puts the file behind it (`ExtendedHolds`, `Writing`, `Entering`, `Installing`) |
| `DiskImageProofs`, images | `ImagesAreInvariant`, `FilesReadBackAlways`, `MapIsTrueAlways`, `DerivativesAreCompleteAlways` | `ImagesInv`: see below |
| `WindowsProofs`, views and actions | `WindowsStaySound`, `ScreenIsTrue`, `ImageIsTrue`, `ClicksFit` | `WindowsInv`: see below |

`WindowsInv` is a predicate `Sound(view, count, windows, drag, lost)` of values,
not of the state, and a bound on the pending click.  What a painting operation
repairs is then a lemma about views (`ComposedRepairs`, `ComposedAround`,
`ImageRepairs`, `PaintedIsSound`, `RepaintedIsSound`), whatever stack and drag it is
called with, and an action is proved as the code is written: a composition of
some of them.  To the checked properties it adds what makes them inductive:
the ranks; that a drag of a window that moves keeps its size; that a window
whose image is kept is on top, draws by itself, and is the one dragged, if
any is; that a paste's row, end and width lie in the window; that only
windows with a callback are ever skipped; and that whatever the VIC's bitmap
lacks or has besides the outline is a trail.  The step that is easy to get
wrong is `ComposedRepairs`: with a paste half done a repair is complete only
because the damage grows to the whole window (`compose_damage`), which the
mutant `ComposedTorn` leaves out.

`ImagesInv` says of each image which files it holds, in which order: `Held` asks
for witnesses, the sectors of the directory, the slots its entries are in, and
for each file the chain of sectors its blocks are on.  All of these are apart,
the allocation map frees the rest of the disk, slots before the last taken
one are taken, and every file of the image for one side is on it.  Nothing
less is inductive: that a file still reads back after a growth of the directory
is a fact about sectors, not about what is read.  `FilesReadBack` and
`MapIsTrue` are computed from the witnesses.  That repacking is never refused
(`RepackingFits`) is a count: the blocks of the files (`BlocksOf`) are as many as
the sectors they take, on whatever disk; and a directory that is full has an
entry in each slot of each sector its track has (`DirectoryIsFull`), so the
1581's is not full before it lists as many files as a 1571 directory can.

All hold for every number of slots, tasks, units, files, tags, generations,
timeouts, moduli, requests, images, matrices, capacities, bitmaps, windows and
disk geometries the assumptions admit; nothing but the named assumptions is
taken for granted.  Every inductive invariant was first checked as an invariant
of a run of its component (`ImagesInv` with the witnesses that `Directory`,
`Taken` and `Chain` compute).

Only model-checked:

* the liveness properties `RunnablesRun`, `TimedWaitsEnd` and
  `EdgesAreAcknowledged`: liveness under fairness, and ENABLED, are beyond the
  prover.

Every other property of a passing run is a theorem.

The modules that proofs are about declare no RECURSIVE operator, and
`Keyboard` describes the order of its events by a relation (`InScanOrder`)
instead of a sort, which would be induction over data.  `DiskImage` orders
sectors by how many are before them (`Rank`), so that `InOrder` is the sequence
with these ranks and no fold, and a chain is a function on the places in it:
both are proved unique by induction over a number, which is the choice of a
least one.  `Windows` keeps a rank in each window, as the code does (`z`),
instead of a sequence of handles, so that raising and removing are facts about
numbers.

## 7. Not modelled, and the plan

Not to be modelled: displays, consoles and fonts (what they compute is layout),
the probe, the boot chain (sequential copying; `Init` is the state it leaves),
the panic, the built-in applications (programs may make any request), the
timing of the serial bus.

Also left out: the Python programs in `src/tools/` but for the image builders
(emulator probes, decoders of memory dumps, layouts of one build: nothing
outlives a call), and `src/bench/`, which holds copies of tools and sources at
earlier dates.  This is most of the repository's Python by lines.

What could follow:

1. The uncached window manager and the shell's foreground coming back when a
   window closes: `Windows` composed with `Tasks`.
2. The move cache as a refinement of "what is pasted is what was captured and
   nothing drew over it".
3. Allocation: the banked loader's placement and the order of its attempts, the
   retained pool, the expansion memory's extents.
4. Pure functions against a reference: path resolution (the C and the assembly
   version), the line editor, the PAL tick fraction, the decoding of the
   pointer's counters, the clock's fields, `task_policy.c`.
5. The registry with a failing service; `task_worker.c` in front of `Engine`.
6. Compositions: `Tasks` with `Ipc` and `Storage` (the end of a task retires its
   endpoints and its tag), `Tasks` refining `Lifecycle`.
