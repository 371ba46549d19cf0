------------------------------- MODULE Tasks -------------------------------
(***************************************************************************)
(* The resident tasking core: the service pass that wakes sleepers, picks  *)
(* a task and runs it until it suspends (src/services/init/descriptor.s,   *)
(* src/8502/task_switch_tail.s, src/scheduler/task_context.s), and the     *)
(* lifecycle requests the running task makes through the one shared        *)
(* request record (src/scheduler/task_yield_handler.s and                  *)
(* task_wait_state.s).  Interrupts are masked inside the kernel, so a      *)
(* request is one step; the timer tick is the only thing that interleaves. *)
(*                                                                         *)
(* Task 1 is the root shell, task 2 the one task SPAWN can create, the     *)
(* Natives are loaded and reaped by the resident shell's polls.  STOP and  *)
(* CONTINUE have no caller in the kernel; module Lifecycle has them.       *)
(***************************************************************************)
EXTENDS Integers

CONSTANTS
    MaxTasks,      \* slots in the table, 8 in the code
    Natives,       \* the slots of natively loaded programs, 3..6 in the code
    Statuses,      \* exit statuses
    Operations,    \* the requests tasks make in this instance
    TickModulus,   \* the tick counter wraps here, 2^16 in the code
    MaxTimeout     \* the longest timeout the requests accept, 600 in the code

Root == 1
Spawned == 2
NoTask == 0
AnyChild == 0
TaskIds == 1 .. MaxTasks
NoStatus == 0
Joiner == 3      \* this program's memory may be enlarged
Donor == 4       \* by that of this one
HalfModulus == TickModulus \div 2
Infinite == MaxTimeout + 1      \* the timeout $FFFF of POLL
BlockingOperations == {"WAITPID", "SLEEP", "POLL"}
SuspendingOperations == {"YIELD"} \cup BlockingOperations

ASSUME TasksAssumption ==
    /\ MaxTasks \in Nat /\ MaxTasks >= 2
    /\ Natives \subseteq 3 .. MaxTasks
    /\ NoStatus \in Statuses
    /\ Operations \subseteq SuspendingOperations \cup
          {"EXIT", "CANCEL", "SPAWN", "READ", "PROMPT", "INVALID"}
    /\ TickModulus \in Nat
    /\ TickModulus = 1 \/ (TickModulus > 0 /\ TickModulus % 2 = 0)
    /\ MaxTimeout \in Nat /\ MaxTimeout <= HalfModulus

VARIABLES
    phase,       \* where the service pass is
    slot,        \* slot[t]: parent, state, wait reason and exit status
    current,     \* the task in the RUNNING slot, NoTask in the kernel
    selected,    \* the task selected last: where the scan continues
    entered,     \* FALSE until the bootstrapped shell first runs ($81)
    snapshot,    \* snapshot[t]: the private copy of t's blocked request
    record,      \* the shared request record: whose request, which state
    answer,      \* the child death the last step reported to a parent
    ticks,       \* the monotonic tick counter
    accepting,   \* the terminal's editor takes keys
    lineReady,   \* a submitted terminal line waits to be read
    owned,       \* the natives whose memory is loaded (banked_owned = 1)
    joined,      \* the donor's memory is lent (its banked_owned = 3)
    foreground,  \* the native that owns the terminal, NoTask for the shell
    asked,       \* history: the request each suspended task awaits
    remaining    \* history: true time left to each deadline, in ticks

table == <<slot, current, snapshot, asked>>
memory == <<owned, joined>>
terminal == <<accepting, lineReady, memory, foreground>>
clock == <<ticks, remaining>>
vars == <<phase, selected, entered, record, answer, table, terminal, clock>>

States == {"FREE", "RUNNABLE", "RUNNING", "WAITING", "ZOMBIE"}
Live(t) == slot[t].state \notin {"FREE", "ZOMBIE"}
IsChild(c, p) == slot[c].parent = p /\ slot[c].state # "FREE"
Orphan(t) == slot[t].state # "FREE" /\ slot[t].parent # NoTask
                /\ slot[slot[t].parent].state = "FREE"

FreeSlot == [parent |-> NoTask, state |-> "FREE", wait |-> "NONE", exit |-> NoStatus]
NewSlot(parent) == [FreeSlot EXCEPT !.parent = parent, !.state = "RUNNABLE"]

(* The fields of a snapshot that its state makes meaningful; a consumed    *)
(* snapshot keeps stale bytes in the code, which nothing reads.            *)
Idle == [state |-> "NONE", operation |-> "NONE", sequence |-> NoTask,
         selector |-> AnyChild, deadline |-> 0, infinite |-> FALSE,
         child |-> NoTask, status |-> NoStatus, ready |-> FALSE]

NoAnswer == [parent |-> NoTask, child |-> NoTask, status |-> NoStatus]
Answer(p, c, s) == [parent |-> p, child |-> c, status |-> s]

-----------------------------------------------------------------------------
(* udeks_lifecycle_bootstrap and udeks_task_context_reset: the shell is    *)
(* dispatched before the first pass.                                       *)
Init ==
    /\ phase = "terminal"
    /\ slot = [t \in TaskIds |-> IF t = Root THEN [FreeSlot EXCEPT !.state = "RUNNING"]
                                 ELSE FreeSlot]
    /\ current = Root
    /\ selected = Root
    /\ entered = FALSE
    /\ snapshot = [t \in TaskIds |-> Idle]
    /\ record = [sequence |-> NoTask, operation |-> "NONE", state |-> "IDLE"]
    /\ answer = NoAnswer
    /\ ticks = 0
    /\ accepting = TRUE
    /\ lineReady = FALSE
    /\ owned = {}
    /\ joined = FALSE
    /\ foreground = NoTask
    /\ asked = [t \in TaskIds |-> "NONE"]
    /\ remaining = [t \in TaskIds |-> 0]

-----------------------------------------------------------------------------
(* _udeks_terminal_input_access: the shell without a foreground program,   *)
(* or the foreground program.                                              *)
MayRead(t) == IF t = Root THEN foreground = NoTask
              ELSE t \in Natives /\ foreground = t

(* Mutant: input is begun over a line that nobody has read yet.            *)
OpensInputAlways(t, operation) ==
    \/ operation = "PROMPT"
    \/ operation \in {"READ", "POLL"} /\ MayRead(t) /\ t # Root

(* udeks_root_terminal_prompt and _input: a prompt starts the editor, and  *)
(* so does a program that asks for input when no line is there.            *)
OpensInput(t, operation) ==
    \/ operation = "PROMPT"
    \/ /\ operation \in {"READ", "POLL"}
       /\ MayRead(t) /\ t # Root
       /\ ~lineReady

(* The running task t has submitted a request in the shared record.  Every *)
(* response leaves the identity of the request in the record.              *)
Requests(t, operation) ==
    /\ operation \in Operations
    /\ phase = "task"
    /\ current = t
    /\ accepting' = (accepting \/ OpensInput(t, operation))
    /\ UNCHANGED <<selected, entered, ticks, memory, foreground>>

Record(t, operation, state) ==
    record' = [sequence |-> t, operation |-> operation, state |-> state]

(* udeks_bootfs_finish_ok and _error: the caller goes on running.          *)
Respond(t, operation, state) ==
    /\ Record(t, operation, state)
    /\ UNCHANGED <<phase, current, asked, remaining>>

Reject(t, operation) ==
    /\ Respond(t, operation, "ERROR")
    /\ answer' = NoAnswer
    /\ UNCHANGED <<slot, snapshot, lineReady>>

(* Mutant: the kernel still charges requests to the suspended task.        *)
SuspendKept == phase' = "shell" /\ UNCHANGED current

(* tail_suspend: back to the resident poll frame.                          *)
Suspend == phase' = "shell" /\ current' = NoTask

(* Mutant: the sum is kept wider than the counter.                         *)
DeadlineUnwrapped(timeout) == ticks + timeout
Deadline(timeout) == (ticks + timeout) % TickModulus

(* wait_snapshot and block_caller: the request moves to the private        *)
(* snapshot, the shared record is released.                                *)
Block(t, operation, reason, selector, timeout) ==
    LET timed == timeout \in 1 .. MaxTimeout
    IN  /\ snapshot' = [snapshot EXCEPT ![t] =
               [Idle EXCEPT !.state = "BLOCKED", !.operation = operation,
                            !.sequence = t, !.selector = selector,
                            !.deadline = IF timed THEN Deadline(timeout) ELSE 0,
                            !.infinite = timeout = Infinite]]
        /\ slot' = [slot EXCEPT ![t].state = "WAITING", ![t].wait = reason]
        /\ Suspend
        /\ Record(t, operation, "IDLE")
        /\ answer' = NoAnswer
        /\ asked' = [asked EXCEPT ![t] = operation]
        /\ remaining' = [remaining EXCEPT ![t] = IF timed THEN timeout ELSE 0]
        /\ UNCHANGED lineReady

(* request_yield: no snapshot, the response is written before the switch.  *)
Yield(t) ==
    /\ Requests(t, "YIELD")
    /\ slot' = [slot EXCEPT ![t].state = "RUNNABLE"]
    /\ Suspend
    /\ Record(t, "YIELD", "COMPLETE")
    /\ answer' = NoAnswer
    /\ asked' = [asked EXCEPT ![t] = "YIELD"]
    /\ UNCHANGED <<snapshot, lineReady, remaining>>

Sleep(t, timeout) ==
    /\ Requests(t, "SLEEP")
    /\ Block(t, "SLEEP", "TIMER", AnyChild, timeout)

-----------------------------------------------------------------------------
(* Mutant: any zombie is enough for the caller, its own child or not.      *)
ChildrenOfAnyone(t, selector) ==
    {c \in TaskIds : slot[c].state # "FREE" /\ selector \in {AnyChild, c}
                      /\ (IsChild(c, t) \/ slot[c].state = "ZOMBIE")}
Children(t, selector) ==
    {c \in TaskIds : IsChild(c, t) /\ selector \in {AnyChild, c}}

Zombies(t, selector) == {c \in Children(t, selector) : slot[c].state = "ZOMBIE"}

(* request_waitpid: reap the first matching zombie, or wait for a live     *)
(* child unless NOHANG.                                                    *)
WaitPid(t, selector, nohang) ==
    /\ Requests(t, "WAITPID")
    /\ \/ /\ Children(t, selector) = {}
          /\ Reject(t, "WAITPID")
       \/ \E c \in Zombies(t, selector) :
             /\ \A other \in Zombies(t, selector) : c <= other
             /\ slot' = [slot EXCEPT ![c] = FreeSlot]
             /\ answer' = Answer(t, c, slot[c].exit)
             /\ Respond(t, "WAITPID", "COMPLETE")
             /\ UNCHANGED <<snapshot, lineReady>>
       \/ /\ Children(t, selector) # {}
          /\ Zombies(t, selector) = {}
          /\ nohang
          /\ Respond(t, "WAITPID", "COMPLETE")
          /\ answer' = NoAnswer
          /\ UNCHANGED <<slot, snapshot, lineReady>>
       \/ /\ Children(t, selector) # {}
          /\ Zombies(t, selector) = {}
          /\ ~nohang
          /\ Block(t, "WAITPID", "CHILD", selector, 0)

(* Mutant: only a parent that named the child is woken.                    *)
WaitsForNamed(p, t) ==
    /\ p # NoTask
    /\ snapshot[p].state = "BLOCKED"
    /\ snapshot[p].selector = t
    /\ slot[p].state = "WAITING"
    /\ slot[p].wait = "CHILD"

(* The parent p is blocked in a WAITPID that the exit of t answers.        *)
WaitsFor(p, t) ==
    /\ p # NoTask
    /\ snapshot[p].state = "BLOCKED"
    /\ snapshot[p].selector \in {AnyChild, t}
    /\ slot[p].state = "WAITING"
    /\ slot[p].wait = "CHILD"

(* request_exit: the caller becomes a zombie; a parent waiting for it gets *)
(* the status into its snapshot, and the slot is reaped at once.           *)
Exit(t, status) ==
    LET p == slot[t].parent
    IN  /\ Requests(t, "EXIT")
        /\ \/ /\ WaitsFor(p, t)
              /\ snapshot' = [snapshot EXCEPT ![p].state = "READY",
                                              ![p].child = t,
                                              ![p].status = status]
              /\ slot' = [slot EXCEPT ![t] = FreeSlot,
                                      ![p].state = "RUNNABLE",
                                      ![p].wait = "NONE"]
           \/ /\ ~WaitsFor(p, t)
              /\ slot' = [slot EXCEPT ![t].state = "ZOMBIE", ![t].exit = status]
              /\ UNCHANGED snapshot
        /\ Suspend
        /\ Record(t, "EXIT", "IDLE")
        /\ answer' = NoAnswer
        /\ UNCHANGED <<lineReady, asked, remaining>>

(* Mutant: the snapshot of the cancelled task stays registered.            *)
CancelledKept(target) == snapshot[target]
Cancelled(target) == Idle

MayCancel(t, target) ==
    target \in TaskIds \ {t} /\ IsChild(target, t) /\ Live(target)

(* udeks_task_cancel_request: a live child of the caller becomes a zombie  *)
(* with the given status, its blocked request is forgotten.                *)
Cancel(t, target, status) ==
    /\ Requests(t, "CANCEL")
    /\ \/ /\ MayCancel(t, target)
          /\ slot' = [slot EXCEPT ![target].state = "ZOMBIE",
                                  ![target].wait = "NONE",
                                  ![target].exit = status]
          /\ snapshot' = [snapshot EXCEPT ![target] = Cancelled(target)]
          /\ Record(t, "CANCEL", "COMPLETE")
          /\ answer' = NoAnswer
          /\ asked' = [asked EXCEPT ![target] = "NONE"]
          /\ remaining' = [remaining EXCEPT ![target] = 0]
          /\ UNCHANGED <<phase, current, lineReady>>
       \/ /\ ~MayCancel(t, target)
          /\ Reject(t, "CANCEL")

(* request_spawn: task 2 is the only slot it allocates; the loader may     *)
(* fail.                                                                   *)
Spawn(t) ==
    /\ Requests(t, "SPAWN")
    /\ \/ Reject(t, "SPAWN")
       \/ /\ slot[Spawned].state = "FREE"
          /\ slot' = [slot EXCEPT ![Spawned] = NewSlot(t)]
          /\ snapshot' = [snapshot EXCEPT ![Spawned] = Idle]
          /\ answer' = NoAnswer
          /\ Respond(t, "SPAWN", "COMPLETE")
          /\ UNCHANGED lineReady

-----------------------------------------------------------------------------
(* READ of stdin: a short count leaves the rest of the line for later.     *)
Read(t) ==
    /\ Requests(t, "READ")
    /\ \/ /\ MayRead(t) /\ lineReady
          /\ lineReady' \in BOOLEAN
          /\ Respond(t, "READ", "COMPLETE")
          /\ answer' = NoAnswer
          /\ UNCHANGED <<slot, snapshot>>
       \/ /\ ~(MayRead(t) /\ lineReady)
          /\ Reject(t, "READ")

(* udeks_task_poll_request: readiness of stdin, now, within a timeout or   *)
(* without one.                                                            *)
Poll(t, timeout) ==
    /\ Requests(t, "POLL")
    /\ \/ /\ ~MayRead(t)
          /\ Reject(t, "POLL")
       \/ /\ MayRead(t)
          /\ lineReady \/ timeout = 0
          /\ Respond(t, "POLL", "COMPLETE")
          /\ answer' = NoAnswer
          /\ UNCHANGED <<slot, snapshot, lineReady>>
       \/ /\ MayRead(t) /\ ~lineReady /\ timeout # 0
          /\ Block(t, "POLL", "INPUT", AnyChild, timeout)

(* task_prompt: a new prompt discards a line nobody has read.              *)
Prompt(t) ==
    /\ Requests(t, "PROMPT")
    /\ lineReady' = FALSE
    /\ Respond(t, "PROMPT", "COMPLETE")
    /\ answer' = NoAnswer
    /\ UNCHANGED <<slot, snapshot>>

(* Unknown operations and malformed descriptors, flags or counts.          *)
Invalid(t) ==
    /\ Requests(t, "INVALID")
    /\ Reject(t, "INVALID")

(* lifecycle_request and the synchronous terminal requests before it.      *)
Request(t) ==
    \/ Yield(t)
    \/ \E timeout \in 1 .. MaxTimeout : Sleep(t, timeout)
    \/ \E selector \in 0 .. MaxTasks + 1, nohang \in BOOLEAN :
          WaitPid(t, selector, nohang)
    \/ \E status \in Statuses : Exit(t, status)
    \/ \E target \in 0 .. MaxTasks + 1, status \in Statuses :
          Cancel(t, target, status)
    \/ Spawn(t)
    \/ Read(t)
    \/ \E timeout \in 0 .. Infinite : Poll(t, timeout)
    \/ Prompt(t)
    \/ Invalid(t)

-----------------------------------------------------------------------------
(* The steps of the service pass, in the order of the service table.       *)

(* The root terminal's poll: the keyboard may have completed a line.       *)
TerminalPoll ==
    /\ phase = "terminal" /\ phase' = "apps"
    /\ \/ UNCHANGED <<accepting, lineReady>>
       \/ accepting /\ accepting' = FALSE /\ lineReady' = TRUE
    /\ answer' = NoAnswer
    /\ UNCHANGED <<selected, entered, record, table, memory, foreground, clock>>

(* Mutant: the loader does not look at the launcher child.                 *)
LauncherIsFreeAlways == TRUE

(* The loader refuses every load and reap while task 2 exists.             *)
LauncherIsFree == slot[Spawned].state = "FREE"

(* udeks_banked_graphics_poll: reap the loaded programs that have ended,   *)
(* those a WAITPID has already reaped included, and return what they were  *)
(* lent.                                                                   *)
AppsPoll ==
    LET ended == {n \in owned : LauncherIsFree /\
                    (slot[n].state = "FREE"
                     \/ (slot[n].state = "ZOMBIE" /\ slot[n].parent = Root))}
    IN  /\ phase = "apps" /\ phase' = "wake"
        /\ owned' = owned \ ended
        /\ joined' = (joined /\ Joiner \notin ended)
        /\ slot' = [t \in TaskIds |-> IF t \in ended THEN FreeSlot ELSE slot[t]]
        /\ snapshot' = [t \in TaskIds |-> IF t \in ended THEN Idle ELSE snapshot[t]]
        /\ answer' = NoAnswer
        /\ UNCHANGED <<selected, entered, record, current, asked, accepting,
                       lineReady, foreground, clock>>

(* Mutant: the deadline is compared without the wrap of the counter.       *)
ExpiredUnwrapped(deadline) == ticks >= deadline

(* Mutant: only the exact tick of the deadline is recognised.              *)
ExpiredExactly(deadline) == ticks = deadline

Expired(deadline) == (ticks - deadline) % TickModulus < HalfModulus

(* The blocked timer and input waits that a scan finds satisfied.          *)
IsDue(t) ==
    /\ snapshot[t].state = "BLOCKED"
    /\ slot[t].state = "WAITING"
    /\ \/ /\ snapshot[t].operation = "SLEEP"
          /\ slot[t].wait = "TIMER"
          /\ Expired(snapshot[t].deadline)
       \/ /\ snapshot[t].operation = "POLL"
          /\ slot[t].wait = "INPUT"
          /\ lineReady \/ (~snapshot[t].infinite /\ Expired(snapshot[t].deadline))

Woken(s) == [s EXCEPT !.state = "READY",
                      !.ready = s.operation = "POLL" /\ lineReady]

(* udeks_task_sleep_poll.                                                  *)
SleepPoll ==
    /\ phase = "wake" /\ phase' = "select"
    /\ slot' = [t \in TaskIds |->
                  IF IsDue(t)
                  THEN [slot[t] EXCEPT !.state = "RUNNABLE", !.wait = "NONE"]
                  ELSE slot[t]]
    /\ snapshot' = [t \in TaskIds |-> IF IsDue(t) THEN Woken(snapshot[t]) ELSE snapshot[t]]
    /\ remaining' = [t \in TaskIds |-> IF IsDue(t) THEN 0 ELSE remaining[t]]
    /\ answer' = NoAnswer
    /\ UNCHANGED <<selected, entered, record, current, asked, terminal, ticks>>

(* Mutant: the last slot is not looked at.                                 *)
RunnableButLast == {t \in 1 .. MaxTasks - 1 : slot[t].state = "RUNNABLE"}
Runnable == {t \in TaskIds : slot[t].state = "RUNNABLE"}

Scheduler == INSTANCE RoundRobin
    WITH runnable <- Runnable

(* Mutant: the scan starts after the running task, and none is running.    *)
ScanFromCurrent == current
ScanFrom == selected

(* Mutant: the response keeps the sequence the record happens to hold.     *)
PublishedStale(s) == [record EXCEPT !.operation = s.operation, !.state = "COMPLETE"]
Published(s) == [sequence |-> s.sequence, operation |-> s.operation,
                 state |-> "COMPLETE"]

(* udeks_task_wait_publish_current: the response of a blocked request is   *)
(* written back when its task is about to run again.                       *)
Publish(t) ==
    /\ snapshot' = [snapshot EXCEPT ![t] = IF @.state = "READY" THEN Idle ELSE @]
    /\ record' = IF snapshot[t].state = "READY" THEN Published(snapshot[t]) ELSE record
    /\ answer' = IF snapshot[t].state = "READY" /\ snapshot[t].operation = "WAITPID"
                 THEN Answer(t, snapshot[t].child, snapshot[t].status)
                 ELSE NoAnswer
    /\ asked' = [asked EXCEPT ![t] = "NONE"]

(* udeks_task_context_select and tail_poll.                                *)
Select ==
    /\ phase = "select"
    /\ \/ /\ ~entered
          /\ entered' = TRUE
          /\ phase' = "task"
          /\ Publish(selected)
          /\ UNCHANGED <<slot, current, selected>>
       \/ /\ entered
          /\ \E t \in TaskIds :
                /\ t = Scheduler!SelectNext(ScanFrom, Runnable)
                /\ slot' = [slot EXCEPT ![t].state = "RUNNING"]
                /\ current' = t
                /\ selected' = t
                /\ phase' = "task"
                /\ Publish(t)
          /\ UNCHANGED entered
       \/ /\ entered
          /\ Runnable = {}
          /\ phase' = "shell"
          /\ answer' = NoAnswer
          /\ UNCHANGED <<slot, current, selected, entered, snapshot, record, asked>>
    /\ UNCHANGED <<terminal, clock>>

(* Mutant: the memory of a program whose end was collected counts as free. *)
JoinableByState == Donor \in Natives /\ slot[Donor].state = "FREE"

(* try_join: the donor is neither loaded nor alive.                        *)
Joinable == Donor \in Natives \ owned /\ slot[Donor].state = "FREE"

(* udeks_banked_graphics_launch through banked_loader.s: load and activate *)
(* a native as a child of the root shell, in the foreground or not.  The   *)
(* joiner gives the donor's memory back when its image is small.           *)
Load(n) ==
    /\ LauncherIsFree
    /\ n \notin owned
    /\ ~(n = Donor /\ joined)
    /\ joined' \in IF n = Joiner /\ Joinable THEN BOOLEAN ELSE {joined}
    /\ slot[n].state = "FREE"
    /\ Live(Root)
    /\ slot' = [slot EXCEPT ![n] = NewSlot(Root)]
    /\ snapshot' = [snapshot EXCEPT ![n] = Idle]
    /\ owned' = owned \cup {n}
    /\ foreground' \in {NoTask, n}

(* udeks_shell_poll: forget a foreground program that is gone or closing,  *)
(* else perhaps execute a command line.                                    *)
ShellPoll ==
    /\ phase = "shell" /\ phase' = "terminal"
    /\ answer' = NoAnswer
    /\ \/ /\ foreground = NoTask
          /\ UNCHANGED <<slot, snapshot, memory, foreground>>
       \/ /\ foreground = NoTask
          /\ \E n \in Natives : Load(n)
       \/ /\ foreground \in owned
          /\ UNCHANGED <<slot, snapshot, memory, foreground>>
       \/ /\ foreground # NoTask
          /\ foreground' = NoTask
          /\ UNCHANGED <<slot, snapshot, memory>>
    /\ UNCHANGED <<selected, entered, record, current, asked, accepting,
                   lineReady, clock>>

(* udeks_task_tick_advance, in the raster interrupt.  A deadline that the  *)
(* pass has overslept by almost half the counter's period would look early *)
(* again: the pass is assumed to come round sooner (9 minutes at 60 Hz).   *)
IsTimed(t) ==
    /\ snapshot[t].state = "BLOCKED"
    /\ \/ snapshot[t].operation = "SLEEP"
       \/ snapshot[t].operation = "POLL" /\ ~snapshot[t].infinite

Tick ==
    /\ \A t \in TaskIds : IsTimed(t) => remaining[t] > 1 - HalfModulus
    /\ ticks' = (ticks + 1) % TickModulus
    /\ remaining' = [t \in TaskIds |-> IF IsTimed(t) THEN remaining[t] - 1 ELSE remaining[t]]
    /\ answer' = NoAnswer
    /\ UNCHANGED <<phase, selected, entered, record, table, terminal>>

Pass == TerminalPoll \/ AppsPoll \/ SleepPoll \/ Select \/ ShellPoll

Next == Pass \/ (\E t \in TaskIds : Request(t)) \/ Tick

Spec == Init /\ [][Next]_vars

(* The main loop never stops polling and the raster interrupt never stops  *)
(* ticking; programs are cooperative, so each is assumed to make, sooner   *)
(* or later, a request that suspends it.                                   *)
FairSpec ==
    /\ Spec
    /\ WF_vars(Pass)
    /\ WF_vars(\E t \in TaskIds : Request(t) /\ phase' = "shell")
    /\ WF_vars(Tick)

-----------------------------------------------------------------------------
Phases == {"terminal", "apps", "wake", "select", "task", "shell"}
SlotRecords == [parent : TaskIds \cup {NoTask}, state : States,
                wait : {"NONE", "CHILD", "TIMER", "INPUT"}, exit : Statuses]
Snapshots == [state : {"NONE", "BLOCKED", "READY"},
              operation : {"NONE"} \cup (BlockingOperations \cap Operations),
              sequence : TaskIds \cup {NoTask},
              selector : 0 .. MaxTasks + 1, deadline : 0 .. TickModulus - 1,
              infinite : BOOLEAN, child : TaskIds \cup {NoTask},
              status : Statuses, ready : BOOLEAN]

TypeOK ==
    /\ phase \in Phases
    /\ slot \in [TaskIds -> SlotRecords]
    /\ current \in TaskIds \cup {NoTask}
    /\ selected \in TaskIds
    /\ entered \in BOOLEAN
    /\ snapshot \in [TaskIds -> Snapshots]
    /\ record \in [sequence : TaskIds \cup {NoTask},
                   operation : {"NONE"} \cup Operations,
                   state : {"IDLE", "COMPLETE", "ERROR"}]
    /\ answer \in [parent : TaskIds \cup {NoTask},
                   child : TaskIds \cup {NoTask}, status : Statuses]
    /\ ticks \in 0 .. TickModulus - 1
    /\ accepting \in BOOLEAN
    /\ lineReady \in BOOLEAN
    /\ owned \subseteq Natives
    /\ joined \in BOOLEAN
    /\ foreground \in Natives \cup {NoTask}
    /\ asked \in [TaskIds -> {"NONE"} \cup SuspendingOperations]
    /\ remaining \in [TaskIds -> {0} \cup (1 - HalfModulus .. MaxTimeout)]

(* At most one task runs, and it is the one the kernel charges requests    *)
(* to; outside the task step of a pass none does.                          *)
OneRunner ==
    /\ \A t \in TaskIds : slot[t].state = "RUNNING" <=> current = t
    /\ entered => (phase = "task" <=> current # NoTask)

(* The editor never takes keys while a submitted line is unread, though    *)
(* the readers, the prompt and the keyboard each move one of the two       *)
(* flags: submitting a line would overwrite the unread one.                *)
NoLineIsOverwritten == ~(accepting /\ lineReady)

(* The slot table and the snapshots, written by different code in an       *)
(* order of its own, agree: a task waits exactly while its snapshot is     *)
(* blocked, for the reason of its operation, and nobody but a runnable     *)
(* task holds a response.                                                  *)
Reason(operation) == CASE operation = "WAITPID" -> "CHILD"
                       [] operation = "SLEEP"   -> "TIMER"
                       [] operation = "POLL"    -> "INPUT"
                       [] OTHER                 -> "NONE"
WaitsAreRegistered ==
    \A t \in TaskIds :
        /\ slot[t].state = "WAITING" <=> snapshot[t].state = "BLOCKED"
        /\ snapshot[t].state = "READY" => slot[t].state = "RUNNABLE"
        /\ slot[t].wait = IF slot[t].state = "WAITING" THEN Reason(snapshot[t].operation)
                          ELSE "NONE"

(* No wake-up is lost: a task blocked in WAITPID has a live child it waits *)
(* for and no dead one it has not been told of.                            *)
WaitersHaveLiveChildren ==
    \A p \in TaskIds :
        slot[p].wait = "CHILD" =>
            /\ \E c \in Children(p, snapshot[p].selector) : Live(c)
            /\ Zombies(p, snapshot[p].selector) = {}

(* A slot number is not an identity: a task whose parent's slot was freed  *)
(* never becomes the child of the next program loaded into that slot.      *)
OrphansAreNotAdopted ==
    [][\A t \in TaskIds :
          Orphan(t) /\ slot'[t].state # "FREE" =>
              slot'[slot[t].parent].state = "FREE"]_vars

(* Programs do not overlap in memory: whoever has a slot, dead or alive,   *)
(* holds its memory, whether the shell's WAITPID or the loader's poll      *)
(* comes first; and while the donor's memory holds a part of the joiner,   *)
(* the donor has neither memory nor slot, and the loan has a holder.       *)
MemoryIsNotShared ==
    /\ \A n \in Natives : slot[n].state # "FREE" => n \in owned
    /\ joined => /\ Joiner \in owned
                 /\ Donor \in Natives \ owned
                 /\ slot[Donor].state = "FREE"

(* Though all tasks share one record, a task that was blocked comes back   *)
(* to the response of the very request it made.  One that awaits nothing,  *)
(* a newborn above all in a slot whose last owner was cancelled with its   *)
(* answer ready, is given no response: the record stays as it is.          *)
ResponseReachesAsker ==
    [][\A t \in TaskIds :
          (current # t /\ current' = t) =>
              record' = IF asked[t] \in BlockingOperations
                        THEN [sequence |-> t, operation |-> asked[t],
                              state |-> "COMPLETE"]
                        ELSE record]_vars

(* What the request ABI says of every operation that suspends, YIELD       *)
(* included.                                                               *)
ResponseReachesYielder ==
    [][\A t \in TaskIds :
          (current # t /\ current' = t /\ asked[t] = "YIELD") =>
              record' = [sequence |-> t, operation |-> "YIELD",
                         state |-> "COMPLETE"]]_vars

(* A sleeper or poller is woken and told that there is input exactly when  *)
(* it polls and a line is there, though its timeout may expire in the same *)
(* scan; without one, only after the time asked for has passed, however    *)
(* the counter wraps, and never if it asked to wait without limit.         *)
NoEarlyWake ==
    [][\A t \in TaskIds :
          (slot[t].wait \in {"TIMER", "INPUT"} /\ slot'[t].state = "RUNNABLE") =>
              IF snapshot[t].operation = "POLL" /\ lineReady
              THEN snapshot'[t].ready
              ELSE ~snapshot'[t].ready /\ IsTimed(t) /\ remaining[t] <= 0]_vars

(* The reports still owed: zombies, and responses not yet published, whose *)
(* parent is alive.                                                        *)
OwedReports == [r \in [parent : TaskIds, child : TaskIds, status : Statuses] |->
    LET zombie == slot[r.child].state = "ZOMBIE" /\ slot[r.child].parent = r.parent
                     /\ slot[r.child].exit = r.status
        unpublished == snapshot[r.parent].state = "READY"
                     /\ snapshot[r.parent].operation = "WAITPID"
                     /\ snapshot[r.parent].child = r.child
                     /\ snapshot[r.parent].status = r.status
    IN  IF ~Live(r.parent) THEN 0
        ELSE (IF zombie THEN 1 ELSE 0) + (IF unpublished THEN 1 ELSE 0)]

LiveParents == [t \in {u \in TaskIds : Live(u)} |->
    IF slot[t].parent \in TaskIds /\ Live(slot[t].parent) THEN slot[t].parent
    ELSE NoTask]

(* Every death is reported to the dead task's own parent at most once, and *)
(* never forgotten while it may still be collected.                        *)
Tree == INSTANCE ProcessTree
    WITH Processes <- TaskIds, Nobody <- NoTask,
         parentOf <- LiveParents, owed <- OwedReports
TreeSpec == Tree!Spec

(* Every dispatch is the round robin's.                                    *)
SchedulerSpec == Scheduler!Spec

(* Bounded overtaking, with everything that happens to the other tasks     *)
(* between two dispatches: each one that passes over a runnable task       *)
(* brings the scan strictly closer to it.                                  *)
ApproachesEveryWaiter == Scheduler!ApproachesEveryWaiter

(* A runnable task gets its turn, a timed wait comes to its end.           *)
RunnablesRun ==
    \A t \in TaskIds : slot[t].state = "RUNNABLE" ~> slot[t].state # "RUNNABLE"
TimedWaitsEnd == \A t \in TaskIds : IsTimed(t) ~> ~IsTimed(t)
=============================================================================
