---------------------------- MODULE TasksProofs ----------------------------
(***************************************************************************)
(* What the tasking core keeps and promises, for every number of slots and *)
(* every set of requests.                                                  *)
(*                                                                         *)
(* The table, the snapshots and the scheduler stay in agreement: first the *)
(* types, then, together, the one running task, the entry of the           *)
(* bootstrapped shell and the registration of waits.  On top of that core  *)
(* invariant: the scheduler implements the round robin, no WAITPID sleeps  *)
(* over a death it was to be told of, no orphan is adopted by the next     *)
(* owner of its parent's slot number, no line of the terminal is           *)
(* overwritten, every blocked request gets its own response, no timed wait *)
(* ends early, and every death is reported as the abstract process tree    *)
(* says.                                                                   *)
(***************************************************************************)
EXTENDS Tasks, WellFoundedInduction, TLAPS

USE TasksAssumption DEF memory

(* A deadline is a value of the counter.                                   *)
LEMMA DeadlinesAreTicks ==
    ASSUME NEW n \in Int
    PROVE  n % TickModulus \in 0 .. TickModulus - 1
OBVIOUS

(* The kinds of values in the records of the table.                        *)
LEMMA ConstantsAreTyped ==
    /\ Root \in TaskIds /\ Spawned \in TaskIds
    /\ FreeSlot \in SlotRecords
    /\ Idle \in Snapshots
    /\ \A t \in TaskIds : NewSlot(t) \in SlotRecords
<1>1. Root \in TaskIds /\ Spawned \in TaskIds
  BY DEF Root, Spawned, TaskIds
<1>2. FreeSlot \in SlotRecords
  BY DEF FreeSlot, SlotRecords, States, NoTask, NoStatus
<1>3. 0 \in 0 .. TickModulus - 1 /\ 0 \in 0 .. MaxTasks + 1
  OBVIOUS
<1>4. Idle \in Snapshots
  BY <1>3 DEF Idle, Snapshots, AnyChild, NoTask, NoStatus
<1>5. ASSUME NEW t \in TaskIds PROVE NewSlot(t) \in SlotRecords
  BY DEF NewSlot, FreeSlot, SlotRecords, States, NoTask, NoStatus
<1> QED BY <1>1, <1>2, <1>4, <1>5

(* Changing the state and the wait reason of a slot, one after the other,  *)
(* is replacing its record.                                                *)
LEMMA StateChangeIsTyped ==
    ASSUME NEW slots \in [TaskIds -> SlotRecords], NEW t \in TaskIds,
           NEW state \in States, NEW wait \in {"NONE", "CHILD", "TIMER", "INPUT"}
    PROVE  [slots EXCEPT ![t].state = state, ![t].wait = wait]
              \in [TaskIds -> SlotRecords]
<1> DEFINE new == [slots[t] EXCEPT !.state = state, !.wait = wait]
<1>1. new \in SlotRecords
  BY DEF SlotRecords
<1>2. [slots EXCEPT ![t].state = state, ![t].wait = wait] = [slots EXCEPT ![t] = new]
  OBVIOUS
<1> QED BY <1>1, <1>2

(* Records with some fields replaced by values of the right kind.          *)
LEMMA DeadSlotIsTyped ==
    ASSUME NEW r \in SlotRecords, NEW status \in Statuses
    PROVE  /\ [r EXCEPT !.state = "ZOMBIE", !.exit = status] \in SlotRecords
           /\ [r EXCEPT !.state = "ZOMBIE", !.wait = "NONE", !.exit = status]
                 \in SlotRecords
BY DEF SlotRecords, States

LEMMA ReadySnapshotIsTyped ==
    ASSUME NEW s \in Snapshots, NEW c \in TaskIds, NEW status \in Statuses,
           NEW ready \in BOOLEAN
    PROVE  /\ [s EXCEPT !.state = "READY", !.child = c, !.status = status]
                 \in Snapshots
           /\ [s EXCEPT !.state = "READY", !.ready = ready] \in Snapshots
BY DEF Snapshots

(* Blocking keeps the types.                                               *)
LEMMA BlockIsTyped ==
    ASSUME TypeOK, NEW t \in TaskIds, NEW operation \in BlockingOperations,
           NEW selector \in 0 .. MaxTasks + 1, NEW timeout \in 0 .. Infinite,
           NEW reason \in {"CHILD", "TIMER", "INPUT"},
           Requests(t, operation), Block(t, operation, reason, selector, timeout)
    PROVE  TypeOK'
<1> DEFINE timed == timeout \in 1 .. MaxTimeout
           blocked == [Idle EXCEPT !.state = "BLOCKED", !.operation = operation,
                            !.sequence = t, !.selector = selector,
                            !.deadline = IF timed THEN Deadline(timeout) ELSE 0,
                            !.infinite = timeout = Infinite]
<1>1. Deadline(timeout) \in 0 .. TickModulus - 1
  BY DeadlinesAreTicks DEF Deadline, TypeOK, Infinite
<1>2. blocked \in Snapshots
  BY <1>1, ConstantsAreTyped DEF Snapshots, Idle, Requests, BlockingOperations
<1>3. snapshot' = [snapshot EXCEPT ![t] = blocked]
  BY DEF Block
<1> HIDE DEF blocked
<1>4. snapshot' \in [TaskIds -> Snapshots]
  BY <1>2, <1>3 DEF TypeOK
<1>5. slot' \in [TaskIds -> SlotRecords]
  BY StateChangeIsTyped DEF TypeOK, Block, States
<1>6. remaining' \in [TaskIds -> {0} \cup (1 - HalfModulus .. MaxTimeout)]
  BY DEF TypeOK, Block, HalfModulus
<1>7. asked' \in [TaskIds -> {"NONE"} \cup SuspendingOperations]
  BY DEF TypeOK, Block, SuspendingOperations
<1>8. record' \in [sequence : TaskIds \cup {NoTask},
                   operation : {"NONE"} \cup Operations,
                   state : {"IDLE", "COMPLETE", "ERROR"}]
  BY DEF Block, Record, Requests
<1>9. answer' \in [parent : TaskIds \cup {NoTask},
                   child : TaskIds \cup {NoTask}, status : Statuses]
  BY DEF Block, NoAnswer, NoStatus
<1> QED
  BY <1>4, <1>5, <1>6, <1>7, <1>8, <1>9
     DEF TypeOK, Block, Requests, Suspend, Phases

(* Answers, and the states of the record, are typed whoever makes them.    *)
Answers == [parent : TaskIds \cup {NoTask}, child : TaskIds \cup {NoTask},
            status : Statuses]
RecordStates == [sequence : TaskIds \cup {NoTask}, operation : {"NONE"} \cup Operations,
                 state : {"IDLE", "COMPLETE", "ERROR"}]

LEMMA AnswersAreTyped ==
    /\ NoAnswer \in Answers
    /\ \A p, c \in TaskIds \cup {NoTask}, s \in Statuses : Answer(p, c, s) \in Answers
BY DEF NoAnswer, Answer, Answers, NoStatus

LEMMA RecordsAreTyped ==
    ASSUME NEW t \in TaskIds, NEW operation, NEW state \in {"IDLE", "COMPLETE", "ERROR"},
           Requests(t, operation), Record(t, operation, state)
    PROVE  record' \in RecordStates
BY DEF Requests, Record, RecordStates

(* A rejected request changes nothing but the record.                      *)
LEMMA RejectIsTyped ==
    ASSUME TypeOK, NEW t \in TaskIds, NEW operation,
           Requests(t, operation), Reject(t, operation)
    PROVE  TypeOK'
<1>1. record' \in RecordStates
  BY RecordsAreTyped DEF Reject, Respond
<1>2. answer' \in Answers
  BY AnswersAreTyped DEF Reject
<1> QED
  BY <1>1, <1>2 DEF TypeOK, Requests, Reject, Respond, Answers, RecordStates

(* So is one that is answered at once, whatever it does to the slots.      *)
LEMMA ResponseIsTyped ==
    ASSUME TypeOK, NEW t \in TaskIds, NEW operation, NEW state \in {"COMPLETE", "ERROR"},
           Requests(t, operation), Respond(t, operation, state),
           slot' \in [TaskIds -> SlotRecords], snapshot' \in [TaskIds -> Snapshots],
           answer' \in Answers, lineReady' \in BOOLEAN
    PROVE  TypeOK'
<1>1. record' \in RecordStates
  BY RecordsAreTyped DEF Respond
<1> QED
  BY <1>1 DEF TypeOK, Requests, Respond, Answers, RecordStates

LEMMA WaitPidIsTyped ==
    ASSUME TypeOK, NEW t \in TaskIds, NEW selector \in 0 .. MaxTasks + 1,
           NEW nohang \in BOOLEAN, WaitPid(t, selector, nohang)
    PROVE  TypeOK'
<1>1. Requests(t, "WAITPID")
  BY DEF WaitPid
<1>2. CASE Children(t, selector) = {} /\ Reject(t, "WAITPID")
  BY <1>1, <1>2, RejectIsTyped
<1>3. ASSUME NEW c \in Zombies(t, selector),
             slot' = [slot EXCEPT ![c] = FreeSlot],
             answer' = Answer(t, c, slot[c].exit),
             Respond(t, "WAITPID", "COMPLETE"), UNCHANGED <<snapshot, lineReady>>
      PROVE  TypeOK'
  <2>1. c \in TaskIds
    BY <1>3 DEF Zombies, Children
  <2>2. slot[c].exit \in Statuses
    BY <2>1 DEF TypeOK, SlotRecords
  <2>3. answer' \in Answers
    BY <1>3, <2>1, <2>2, AnswersAreTyped
  <2>4. slot' \in [TaskIds -> SlotRecords]
    BY <1>3, <2>1, ConstantsAreTyped DEF TypeOK
  <2> QED BY <1>1, <1>3, <2>3, <2>4, ResponseIsTyped DEF TypeOK
<1>4. CASE Respond(t, "WAITPID", "COMPLETE") /\ answer' = NoAnswer
             /\ UNCHANGED <<slot, snapshot, lineReady>>
  BY <1>1, <1>4, ResponseIsTyped, AnswersAreTyped DEF TypeOK
<1>5. CASE Block(t, "WAITPID", "CHILD", selector, 0)
  BY <1>1, <1>5, BlockIsTyped DEF BlockingOperations, Infinite
<1> QED BY <1>2, <1>3, <1>4, <1>5 DEF WaitPid

LEMMA ExitIsTyped ==
    ASSUME TypeOK, NEW t \in TaskIds, NEW status \in Statuses, Exit(t, status)
    PROVE  TypeOK'
<1> DEFINE p == slot[t].parent
<1>1. Requests(t, "EXIT") /\ Record(t, "EXIT", "IDLE") /\ Suspend
      /\ answer' = NoAnswer /\ UNCHANGED <<lineReady, asked, remaining>>
  BY DEF Exit
<1>2. slot' \in [TaskIds -> SlotRecords] /\ snapshot' \in [TaskIds -> Snapshots]
  <2>1. CASE /\ WaitsFor(p, t)
             /\ snapshot' = [snapshot EXCEPT ![p].state = "READY", ![p].child = t,
                                             ![p].status = status]
             /\ slot' = [slot EXCEPT ![t] = FreeSlot, ![p].state = "RUNNABLE",
                                     ![p].wait = "NONE"]
    <3>1. p \in TaskIds
      BY <2>1 DEF WaitsFor, TypeOK, SlotRecords
    <3> DEFINE ready == [snapshot[p] EXCEPT !.state = "READY", !.child = t,
                                            !.status = status]
               freed == [slot EXCEPT ![t] = FreeSlot]
    <3>2. snapshot' = [snapshot EXCEPT ![p] = ready]
      BY <2>1, <3>1 DEF TypeOK
    <3>3. ready \in Snapshots
      BY <3>1, ReadySnapshotIsTyped DEF TypeOK
    <3>4. freed \in [TaskIds -> SlotRecords]
      BY ConstantsAreTyped DEF TypeOK
    <3>5. slot' = [freed EXCEPT ![p].state = "RUNNABLE", ![p].wait = "NONE"]
      BY <2>1
    <3> HIDE DEF ready, freed
    <3>6. snapshot' \in [TaskIds -> Snapshots]
      BY <3>2, <3>3 DEF TypeOK
    <3>7. slot' \in [TaskIds -> SlotRecords]
      BY <3>1, <3>4, <3>5, StateChangeIsTyped DEF States
    <3> QED BY <3>6, <3>7
  <2>2. CASE /\ slot' = [slot EXCEPT ![t].state = "ZOMBIE", ![t].exit = status]
             /\ UNCHANGED snapshot
    <3> DEFINE dead == [slot[t] EXCEPT !.state = "ZOMBIE", !.exit = status]
    <3>1. slot' = [slot EXCEPT ![t] = dead]
      BY <2>2 DEF TypeOK
    <3>2. dead \in SlotRecords
      BY DeadSlotIsTyped DEF TypeOK
    <3> HIDE DEF dead
    <3>3. slot' \in [TaskIds -> SlotRecords]
      BY <3>1, <3>2 DEF TypeOK
    <3> QED BY <2>2, <3>3 DEF TypeOK
  <2> QED BY <2>1, <2>2 DEF Exit
<1>3. record' \in RecordStates /\ answer' \in Answers
  BY <1>1, RecordsAreTyped, AnswersAreTyped
<1> QED
  BY <1>1, <1>2, <1>3
     DEF TypeOK, Requests, Suspend, Phases, Answers, RecordStates

LEMMA CancelIsTyped ==
    ASSUME TypeOK, NEW t \in TaskIds, NEW target, NEW status \in Statuses,
           Cancel(t, target, status)
    PROVE  TypeOK'
<1>1. CASE Reject(t, "CANCEL")
  BY <1>1, RejectIsTyped DEF Cancel
<1>2. CASE ~Reject(t, "CANCEL")
  <2>1. /\ Requests(t, "CANCEL") /\ Record(t, "CANCEL", "COMPLETE")
        /\ target \in TaskIds
        /\ slot' = [slot EXCEPT ![target].state = "ZOMBIE", ![target].wait = "NONE",
                                ![target].exit = status]
        /\ snapshot' = [snapshot EXCEPT ![target] = Idle]
        /\ answer' = NoAnswer
        /\ asked' = [asked EXCEPT ![target] = "NONE"]
        /\ remaining' = [remaining EXCEPT ![target] = 0]
        /\ UNCHANGED <<phase, current, lineReady>>
    BY <1>2 DEF Cancel, MayCancel, Cancelled
  <2> DEFINE dead == [slot[target] EXCEPT !.state = "ZOMBIE", !.wait = "NONE",
                                          !.exit = status]
  <2>2. dead \in SlotRecords
    BY <2>1, DeadSlotIsTyped DEF TypeOK
  <2>3. slot' = [slot EXCEPT ![target] = dead]
    BY <2>1 DEF TypeOK
  <2> HIDE DEF dead
  <2>4. slot' \in [TaskIds -> SlotRecords]
    BY <2>1, <2>2, <2>3 DEF TypeOK
  <2>7. snapshot' \in [TaskIds -> Snapshots]
    BY <2>1, ConstantsAreTyped DEF TypeOK
  <2>5. /\ asked' \in [TaskIds -> {"NONE"} \cup SuspendingOperations]
        /\ remaining' \in [TaskIds -> {0} \cup (1 - HalfModulus .. MaxTimeout)]
    BY <2>1 DEF TypeOK
  <2>6. record' \in RecordStates /\ answer' \in Answers
    BY <2>1, RecordsAreTyped, AnswersAreTyped
  <2> QED
    BY <2>1, <2>4, <2>5, <2>6, <2>7 DEF TypeOK, Requests, Answers, RecordStates
<1> QED BY <1>1, <1>2

LEMMA YieldIsTyped ==
    ASSUME TypeOK, NEW t \in TaskIds, Yield(t)
    PROVE  TypeOK'
<1>1. record' \in RecordStates /\ answer' \in Answers
  BY RecordsAreTyped, AnswersAreTyped DEF Yield
<1>2. slot' \in [TaskIds -> SlotRecords]
  BY DEF Yield, TypeOK, SlotRecords, States
<1>3. asked' \in [TaskIds -> {"NONE"} \cup SuspendingOperations]
  BY DEF Yield, TypeOK, SuspendingOperations
<1> QED
  BY <1>1, <1>2, <1>3
     DEF Yield, TypeOK, Requests, Suspend, Phases, Answers, RecordStates

LEMMA SpawnIsTyped ==
    ASSUME TypeOK, NEW t \in TaskIds, Spawn(t)
    PROVE  TypeOK'
<1>1. CASE Reject(t, "SPAWN")
  BY <1>1, RejectIsTyped DEF Spawn
<1>2. CASE ~Reject(t, "SPAWN")
  <2>1. /\ slot' \in [TaskIds -> SlotRecords] /\ snapshot' \in [TaskIds -> Snapshots]
        /\ answer' \in Answers
    BY <1>2, ConstantsAreTyped, AnswersAreTyped DEF Spawn, TypeOK
  <2> QED BY <1>2, <2>1, ResponseIsTyped DEF Spawn, TypeOK
<1> QED BY <1>1, <1>2

LEMMA InputRequestsAreTyped ==
    ASSUME TypeOK, NEW t \in TaskIds,
           \/ Read(t) \/ Prompt(t) \/ Invalid(t)
           \/ \E timeout \in 0 .. Infinite : Poll(t, timeout)
    PROVE  TypeOK'
<1>1. CASE Read(t)
  <2>1. CASE Reject(t, "READ")
    BY <1>1, <2>1, RejectIsTyped DEF Read
  <2>2. CASE ~Reject(t, "READ")
    BY <1>1, <2>2, ResponseIsTyped, AnswersAreTyped DEF Read, TypeOK
  <2> QED BY <2>1, <2>2
<1>2. CASE Prompt(t)
  BY <1>2, ResponseIsTyped, AnswersAreTyped DEF Prompt, TypeOK
<1>3. CASE Invalid(t)
  BY <1>3, RejectIsTyped DEF Invalid
<1>4. ASSUME NEW timeout \in 0 .. Infinite, Poll(t, timeout) PROVE TypeOK'
  <2>1. Requests(t, "POLL")
    BY <1>4 DEF Poll
  <2>2. CASE Reject(t, "POLL")
    BY <2>1, <2>2, RejectIsTyped
  <2>3. CASE Respond(t, "POLL", "COMPLETE") /\ answer' = NoAnswer
               /\ UNCHANGED <<slot, snapshot, lineReady>>
    BY <2>1, <2>3, ResponseIsTyped, AnswersAreTyped DEF TypeOK
  <2>4. CASE Block(t, "POLL", "INPUT", AnyChild, timeout)
    BY <2>1, <2>4, BlockIsTyped DEF BlockingOperations, AnyChild
  <2> QED BY <1>4, <2>2, <2>3, <2>4 DEF Poll
<1> QED BY <1>1, <1>2, <1>3, <1>4

(* Every request keeps the types.                                          *)
LEMMA RequestIsTyped ==
    ASSUME TypeOK, NEW t \in TaskIds, Request(t)
    PROVE  TypeOK'
<1>1. ASSUME NEW timeout \in 1 .. MaxTimeout, Sleep(t, timeout) PROVE TypeOK'
  BY <1>1, BlockIsTyped DEF Sleep, BlockingOperations, AnyChild, Infinite
<1> QED
  BY <1>1, YieldIsTyped, WaitPidIsTyped, ExitIsTyped, CancelIsTyped, SpawnIsTyped,
     InputRequestsAreTyped DEF Request

(* The service pass and the interrupt keep the types.                      *)
LEMMA PassIsTyped ==
    ASSUME TypeOK, Pass
    PROVE  TypeOK'
<1>1. CASE TerminalPoll
  <2>1. /\ phase' \in Phases /\ answer' \in Answers
        /\ accepting' \in BOOLEAN /\ lineReady' \in BOOLEAN
        /\ UNCHANGED <<selected, entered, record, table, memory, foreground, clock>>
    BY <1>1, AnswersAreTyped DEF TerminalPoll, TypeOK, Phases
  <2> QED BY <2>1 DEF TypeOK, table, clock, Answers
<1>2. CASE AppsPoll
  <2>1. /\ owned' \subseteq Natives /\ joined' \in BOOLEAN
        /\ phase' \in Phases /\ answer' \in Answers
    BY <1>2, AnswersAreTyped DEF AppsPoll, TypeOK, Phases
  <2>2. slot' \in [TaskIds -> SlotRecords] /\ snapshot' \in [TaskIds -> Snapshots]
    BY <1>2, ConstantsAreTyped DEF AppsPoll, TypeOK
  <2> QED BY <1>2, <2>1, <2>2 DEF AppsPoll, TypeOK, clock, Answers
<1>3. CASE SleepPoll
  <2>1. slot' \in [TaskIds -> SlotRecords]
    <3>1. \A u \in TaskIds : [slot[u] EXCEPT !.state = "RUNNABLE", !.wait = "NONE"]
                                \in SlotRecords
      BY DEF TypeOK, SlotRecords, States
    <3> QED BY <1>3, <3>1 DEF SleepPoll, TypeOK
  <2>2. snapshot' \in [TaskIds -> Snapshots]
    <3>1. \A u \in TaskIds : Woken(snapshot[u]) \in Snapshots
      BY ReadySnapshotIsTyped DEF TypeOK, Woken
    <3> QED BY <1>3, <3>1 DEF SleepPoll, TypeOK
  <2>3. remaining' \in [TaskIds -> {0} \cup (1 - HalfModulus .. MaxTimeout)]
    BY <1>3 DEF SleepPoll, TypeOK
  <2>4. phase' \in Phases /\ answer' \in Answers
    BY <1>3, AnswersAreTyped DEF SleepPoll, Phases
  <2> QED BY <1>3, <2>1, <2>2, <2>3, <2>4 DEF SleepPoll, TypeOK, terminal, Answers
<1>4. CASE Select
  <2>1. ASSUME NEW t \in TaskIds, Publish(t)
        PROVE  /\ snapshot' \in [TaskIds -> Snapshots]
               /\ record' \in RecordStates /\ answer' \in Answers
               /\ asked' \in [TaskIds -> {"NONE"} \cup SuspendingOperations]
    <3>1. snapshot[t] \in Snapshots
      BY DEF TypeOK
    <3>2. snapshot' \in [TaskIds -> Snapshots]
      BY <2>1, ConstantsAreTyped DEF TypeOK, Publish
    <3>3. record' \in RecordStates
      BY <2>1, <3>1 DEF TypeOK, Publish, Published, Snapshots, RecordStates
    <3>4. answer' \in Answers
      BY <2>1, <3>1, AnswersAreTyped DEF Publish, Snapshots
    <3>5. asked' \in [TaskIds -> {"NONE"} \cup SuspendingOperations]
      BY <2>1 DEF Publish, TypeOK
    <3> QED BY <3>2, <3>3, <3>4, <3>5
  <2>2. CASE ~entered /\ entered' = TRUE /\ phase' = "task" /\ Publish(selected)
               /\ UNCHANGED <<slot, current, selected>>
    BY <1>4, <2>1, <2>2
       DEF Select, TypeOK, Phases, terminal, clock, Answers, RecordStates
  <2>3. ASSUME NEW t \in TaskIds, entered,
               slot' = [slot EXCEPT ![t].state = "RUNNING"],
               current' = t, selected' = t, phase' = "task", Publish(t),
               UNCHANGED entered
        PROVE  TypeOK'
    <3>1. slot' \in [TaskIds -> SlotRecords]
      BY <2>3 DEF TypeOK, SlotRecords, States
    <3> QED BY <1>4, <2>1, <2>3, <3>1
        DEF Select, TypeOK, Phases, terminal, clock, Answers, RecordStates
  <2>4. CASE phase' = "shell" /\ answer' = NoAnswer
              /\ UNCHANGED <<slot, current, selected, entered, snapshot, record, asked>>
    BY <1>4, <2>4, AnswersAreTyped DEF Select, TypeOK, Phases, terminal, clock, Answers
  <2> QED BY <1>4, <2>2, <2>3, <2>4 DEF Select
<1>5. CASE ShellPoll
  <2>1. /\ slot' \in [TaskIds -> SlotRecords] /\ snapshot' \in [TaskIds -> Snapshots]
        /\ owned' \subseteq Natives /\ foreground' \in Natives \cup {NoTask}
        /\ joined' \in BOOLEAN
    <3>1. ASSUME NEW n \in Natives, Load(n)
          PROVE  /\ slot' \in [TaskIds -> SlotRecords]
                 /\ snapshot' \in [TaskIds -> Snapshots]
                 /\ owned' \subseteq Natives /\ foreground' \in Natives \cup {NoTask}
                 /\ joined' \in BOOLEAN
      BY <3>1, ConstantsAreTyped DEF Load, TypeOK
    <3> QED BY <1>5, <3>1 DEF ShellPoll, TypeOK
  <2>2. phase' \in Phases /\ answer' \in Answers
    BY <1>5, AnswersAreTyped DEF ShellPoll, Phases
  <2> QED BY <1>5, <2>1, <2>2 DEF ShellPoll, TypeOK, clock, Answers
<1> QED BY <1>1, <1>2, <1>3, <1>4, <1>5 DEF Pass

LEMMA TickIsTyped ==
    ASSUME TypeOK, Tick
    PROVE  TypeOK'
<1>1. ticks' \in 0 .. TickModulus - 1
  BY DeadlinesAreTicks DEF Tick, TypeOK
<1>2. HalfModulus \in Int
  BY DEF HalfModulus
<1>3. remaining' \in [TaskIds -> {0} \cup (1 - HalfModulus .. MaxTimeout)]
  <2>1. ASSUME NEW t \in TaskIds, IsTimed(t)
        PROVE  remaining[t] - 1 \in 1 - HalfModulus .. MaxTimeout
    BY <1>2, <2>1 DEF Tick, TypeOK
  <2> QED BY <2>1 DEF Tick, TypeOK
<1> QED
  BY <1>1, <1>3, AnswersAreTyped DEF Tick, TypeOK, table, terminal, Answers

LEMMA InitIsTyped == Init => TypeOK
<1> SUFFICES ASSUME Init PROVE TypeOK
  OBVIOUS
<1>1. [FreeSlot EXCEPT !.state = "RUNNING"] \in SlotRecords
  BY ConstantsAreTyped DEF SlotRecords, States
<1>2. slot \in [TaskIds -> SlotRecords] /\ snapshot \in [TaskIds -> Snapshots]
  BY <1>1, ConstantsAreTyped DEF Init
<1>3. /\ asked \in [TaskIds -> {"NONE"} \cup SuspendingOperations]
      /\ remaining \in [TaskIds -> {0} \cup (1 - HalfModulus .. MaxTimeout)]
  BY DEF Init
<1>4. record \in RecordStates /\ answer \in Answers
  BY AnswersAreTyped DEF Init, RecordStates, NoTask
<1>5. ticks \in 0 .. TickModulus - 1
  BY DEF Init
<1> QED
  BY <1>2, <1>3, <1>4, <1>5, ConstantsAreTyped
     DEF Init, TypeOK, Phases, Answers, RecordStates

LEMMA StepIsTyped == TypeOK /\ [Next]_vars => TypeOK'
<1> SUFFICES ASSUME TypeOK, [Next]_vars PROVE TypeOK'
  OBVIOUS
<1>1. CASE UNCHANGED vars
  BY <1>1 DEF vars, table, terminal, clock, TypeOK
<1> QED BY <1>1, PassIsTyped, RequestIsTyped, TickIsTyped DEF Next

(* Every slot, snapshot, record and counter holds a value of its kind:     *)
(* in particular a deadline always is a value of the 16-bit counter and a  *)
(* published response always names a request that was made.                *)
THEOREM TasksAreTyped == Spec => []TypeOK
BY InitIsTyped, StepIsTyped, PTL DEF Spec

-----------------------------------------------------------------------------
(* Until the bootstrapped shell is entered, it is current while the first  *)
(* pass runs up to its selection.                                          *)
Entry ==
    ~entered => current = Root /\ phase \in {"terminal", "apps", "wake", "select"}

CoreInv == TypeOK /\ OneRunner /\ Entry /\ WaitsAreRegistered

(* What the invariant says of the task that makes a request.               *)
LEMMA RequesterRuns ==
    ASSUME CoreInv, NEW t \in TaskIds, NEW operation, Requests(t, operation)
    PROVE  /\ entered /\ entered' /\ phase = "task" /\ current = t
           /\ \A u \in TaskIds : slot[u].state = "RUNNING" <=> u = t
           /\ snapshot[t].state = "NONE" /\ slot[t].wait = "NONE"
           /\ t # NoTask
<1>1. t # NoTask
  BY DEF TaskIds, NoTask
<1>2. snapshot[t].state \in {"NONE", "BLOCKED", "READY"}
  BY DEF CoreInv, TypeOK, Snapshots
<1> QED BY <1>1, <1>2 DEF CoreInv, OneRunner, Entry, WaitsAreRegistered, Requests

(* A request answered at once leaves the table alone but for these.        *)
LEMMA AnsweredRequestKeepsCore ==
    ASSUME CoreInv, TypeOK', NEW t \in TaskIds, NEW operation, NEW state,
           Requests(t, operation), Respond(t, operation, state),
           UNCHANGED <<slot, snapshot>>
    PROVE  CoreInv'
BY RequesterRuns
   DEF CoreInv, OneRunner, Entry, WaitsAreRegistered, Requests, Respond

LEMMA BlockKeepsCore ==
    ASSUME CoreInv, TypeOK', NEW t \in TaskIds, NEW operation, NEW selector, NEW timeout,
           NEW reason, reason = Reason(operation), Requests(t, operation),
           Block(t, operation, reason, selector, timeout)
    PROVE  CoreInv'
<1>1. \A u \in TaskIds :
         /\ slot'[u].state = IF u = t THEN "WAITING" ELSE slot[u].state
         /\ slot'[u].wait = IF u = t THEN reason ELSE slot[u].wait
  BY DEF Block, CoreInv, TypeOK, SlotRecords
<1>2. \A u \in TaskIds :
         /\ u # t => snapshot'[u] = snapshot[u]
         /\ u = t => snapshot'[u].state = "BLOCKED" /\ snapshot'[u].operation = operation
  BY DEF Block, CoreInv, TypeOK, Idle
<1>3. current' = NoTask /\ phase' = "shell"
  BY DEF Block, Suspend
<1>4. OneRunner' /\ Entry'
  BY <1>1, <1>3, RequesterRuns DEF OneRunner, Entry, TaskIds, NoTask
<1>5. WaitsAreRegistered'
  BY <1>1, <1>2 DEF CoreInv, WaitsAreRegistered
<1> QED BY <1>4, <1>5 DEF CoreInv

LEMMA YieldKeepsCore ==
    ASSUME CoreInv, TypeOK', NEW t \in TaskIds, Yield(t)
    PROVE  CoreInv'
<1>1. \A u \in TaskIds :
         /\ slot'[u].state = IF u = t THEN "RUNNABLE" ELSE slot[u].state
         /\ slot'[u].wait = slot[u].wait
  BY DEF Yield, CoreInv, TypeOK, SlotRecords
<1>2. current' = NoTask /\ phase' = "shell" /\ snapshot' = snapshot
      /\ Requests(t, "YIELD")
  BY DEF Yield, Suspend
<1>3. OneRunner' /\ Entry'
  BY <1>1, <1>2, RequesterRuns DEF OneRunner, Entry, TaskIds, NoTask
<1>4. WaitsAreRegistered'
  BY <1>1, <1>2, RequesterRuns DEF CoreInv, WaitsAreRegistered
<1> QED BY <1>3, <1>4 DEF CoreInv

(* A slot in which nothing runs and nothing waits may be freed, or filled  *)
(* with a runnable newcomer.                                               *)
LEMMA FreshSlotKeepsCore ==
    ASSUME CoreInv, TypeOK', NEW c \in TaskIds, NEW new \in SlotRecords,
           slot[c].state # "RUNNING", new.state \in {"FREE", "RUNNABLE"},
           new.wait = "NONE",
           slot' = [slot EXCEPT ![c] = new],
           \/ snapshot' = [snapshot EXCEPT ![c] = Idle]
           \/ snapshot' = snapshot /\ slot[c].state = "ZOMBIE",
           UNCHANGED <<entered, current>>,
           phase' = phase \/ (entered /\ phase # "task" /\ phase' # "task")
    PROVE  CoreInv'
<1>1. \A u \in TaskIds : slot'[u] = IF u = c THEN new ELSE slot[u]
  BY DEF CoreInv, TypeOK
<1>2. \A u \in TaskIds :
         /\ u # c => snapshot'[u] = snapshot[u]
         /\ u = c => snapshot'[u].state = "NONE"
  BY DEF CoreInv, TypeOK, Idle, WaitsAreRegistered, Snapshots
<1>3. OneRunner' /\ Entry'
  BY <1>1 DEF CoreInv, OneRunner, Entry
<1>4. WaitsAreRegistered'
  BY <1>1, <1>2 DEF CoreInv, WaitsAreRegistered
<1> QED BY <1>3, <1>4 DEF CoreInv

LEMMA WaitPidKeepsCore ==
    ASSUME CoreInv, TypeOK', NEW t \in TaskIds, NEW selector, NEW nohang,
           WaitPid(t, selector, nohang)
    PROVE  CoreInv'
<1>1. Requests(t, "WAITPID")
  BY DEF WaitPid
<1>2. CASE Reject(t, "WAITPID")
  BY <1>1, <1>2, AnsweredRequestKeepsCore DEF Reject
<1>3. ASSUME NEW c \in Zombies(t, selector),
             slot' = [slot EXCEPT ![c] = FreeSlot],
             Respond(t, "WAITPID", "COMPLETE"), UNCHANGED <<snapshot, lineReady>>
      PROVE  CoreInv'
  <2>1. c \in TaskIds /\ slot[c].state = "ZOMBIE"
    BY <1>3 DEF Zombies, Children
  <2>2. FreeSlot.state = "FREE" /\ FreeSlot.wait = "NONE"
    BY DEF FreeSlot
  <2> QED
    BY <1>1, <1>3, <2>1, <2>2, ConstantsAreTyped, FreshSlotKeepsCore
       DEF Requests, Respond
<1>4. CASE Respond(t, "WAITPID", "COMPLETE") /\ UNCHANGED <<slot, snapshot>>
  BY <1>1, <1>4, AnsweredRequestKeepsCore
<1>5. CASE Block(t, "WAITPID", "CHILD", selector, 0)
  BY <1>1, <1>5, BlockKeepsCore DEF Reason
<1> QED BY <1>2, <1>3, <1>4, <1>5 DEF WaitPid

LEMMA ExitKeepsCore ==
    ASSUME CoreInv, TypeOK', NEW t \in TaskIds, NEW status, Exit(t, status)
    PROVE  CoreInv'
<1> DEFINE p == slot[t].parent
<1>1. Requests(t, "EXIT") /\ current' = NoTask /\ phase' = "shell"
  BY DEF Exit, Suspend
<1>2. CASE /\ WaitsFor(p, t)
           /\ snapshot' = [snapshot EXCEPT ![p].state = "READY", ![p].child = t,
                                           ![p].status = status]
           /\ slot' = [slot EXCEPT ![t] = FreeSlot, ![p].state = "RUNNABLE",
                                   ![p].wait = "NONE"]
  <2>1. p \in TaskIds /\ slot[p].state = "WAITING"
    BY <1>2 DEF WaitsFor, CoreInv, TypeOK, SlotRecords
  <2>2. p # t
    BY <1>1, <2>1, RequesterRuns
  <2>3. \A u \in TaskIds :
           /\ slot'[u].state = IF u = t THEN "FREE" ELSE IF u = p THEN "RUNNABLE"
                               ELSE slot[u].state
           /\ slot'[u].wait = IF u \in {t, p} THEN "NONE" ELSE slot[u].wait
    BY <1>2, <2>1, <2>2 DEF CoreInv, TypeOK, SlotRecords, FreeSlot
  <2>4. \A u \in TaskIds :
           /\ u # p => snapshot'[u] = snapshot[u]
           /\ u = p => snapshot'[u].state = "READY"
    BY <1>2, <2>1 DEF CoreInv, TypeOK, Snapshots
  <2>5. OneRunner' /\ Entry'
    BY <1>1, <2>3, RequesterRuns DEF OneRunner, Entry, TaskIds, NoTask
  <2>6. WaitsAreRegistered'
    BY <1>1, <2>2, <2>3, <2>4, RequesterRuns DEF CoreInv, WaitsAreRegistered
  <2> QED BY <2>5, <2>6 DEF CoreInv
<1>3. CASE /\ slot' = [slot EXCEPT ![t].state = "ZOMBIE", ![t].exit = status]
           /\ UNCHANGED snapshot
  <2>1. \A u \in TaskIds :
           /\ slot'[u].state = IF u = t THEN "ZOMBIE" ELSE slot[u].state
           /\ slot'[u].wait = slot[u].wait
    BY <1>3 DEF CoreInv, TypeOK, SlotRecords
  <2>2. OneRunner' /\ Entry'
    BY <1>1, <2>1, RequesterRuns DEF OneRunner, Entry, TaskIds, NoTask
  <2>3. WaitsAreRegistered'
    <3>1. snapshot' = snapshot /\ snapshot[t].state = "NONE" /\ slot[t].wait = "NONE"
      BY <1>1, <1>3, RequesterRuns
    <3> QED BY <2>1, <3>1 DEF CoreInv, WaitsAreRegistered
  <2> QED BY <2>2, <2>3 DEF CoreInv
<1> QED BY <1>2, <1>3 DEF Exit

LEMMA CancelKeepsCore ==
    ASSUME CoreInv, TypeOK', NEW t \in TaskIds, NEW target, NEW status,
           Cancel(t, target, status)
    PROVE  CoreInv'
<1>1. Requests(t, "CANCEL")
  BY DEF Cancel
<1>2. CASE Reject(t, "CANCEL")
  BY <1>1, <1>2, AnsweredRequestKeepsCore DEF Reject
<1>3. CASE ~Reject(t, "CANCEL")
  <2>1. /\ target \in TaskIds /\ target # t
        /\ slot' = [slot EXCEPT ![target].state = "ZOMBIE", ![target].wait = "NONE",
                                ![target].exit = status]
        /\ snapshot' = [snapshot EXCEPT ![target] = Idle]
        /\ UNCHANGED <<phase, current>>
    BY <1>3 DEF Cancel, MayCancel, Cancelled
  <2>2. \A u \in TaskIds :
           /\ slot'[u].state = IF u = target THEN "ZOMBIE" ELSE slot[u].state
           /\ slot'[u].wait = IF u = target THEN "NONE" ELSE slot[u].wait
    BY <2>1 DEF CoreInv, TypeOK, SlotRecords
  <2>3. \A u \in TaskIds :
           /\ u # target => snapshot'[u] = snapshot[u]
           /\ u = target => snapshot'[u].state = "NONE"
    BY <2>1 DEF CoreInv, TypeOK, Idle
  <2>4. OneRunner' /\ Entry'
    <3>1. /\ slot[target].state # "RUNNING" /\ entered' = entered /\ entered
          /\ phase' = phase /\ current' = current
      BY <1>1, <2>1, RequesterRuns DEF Requests
    <3>2. \A u \in TaskIds : slot'[u].state = "RUNNING" <=> slot[u].state = "RUNNING"
      BY <2>2, <3>1
    <3> QED BY <3>1, <3>2 DEF CoreInv, OneRunner, Entry
  <2>5. WaitsAreRegistered'
    BY <2>2, <2>3 DEF CoreInv, WaitsAreRegistered
  <2> QED BY <2>4, <2>5 DEF CoreInv
<1> QED BY <1>2, <1>3

LEMMA SpawnKeepsCore ==
    ASSUME CoreInv, TypeOK', NEW t \in TaskIds, Spawn(t)
    PROVE  CoreInv'
<1>1. CASE Reject(t, "SPAWN")
  BY <1>1, AnsweredRequestKeepsCore DEF Reject, Spawn
<1>2. CASE ~Reject(t, "SPAWN")
  <2>1. NewSlot(t).state = "RUNNABLE" /\ NewSlot(t).wait = "NONE"
    BY DEF NewSlot, FreeSlot
  <2> QED
    BY <1>2, <2>1, ConstantsAreTyped, FreshSlotKeepsCore DEF Spawn, Requests, Respond
<1> QED BY <1>1, <1>2

LEMMA RequestKeepsCore ==
    ASSUME CoreInv, TypeOK', NEW t \in TaskIds, Request(t)
    PROVE  CoreInv'
<1>1. ASSUME NEW timeout, Sleep(t, timeout) PROVE CoreInv'
  BY <1>1, BlockKeepsCore DEF Sleep, Reason
<1>2. ASSUME NEW timeout, Poll(t, timeout) PROVE CoreInv'
  <2>1. Requests(t, "POLL")
    BY <1>2 DEF Poll
  <2>2. CASE Reject(t, "POLL")
    BY <2>1, <2>2, AnsweredRequestKeepsCore DEF Reject
  <2>3. CASE Respond(t, "POLL", "COMPLETE") /\ UNCHANGED <<slot, snapshot>>
    BY <2>1, <2>3, AnsweredRequestKeepsCore
  <2>4. CASE Block(t, "POLL", "INPUT", AnyChild, timeout)
    BY <2>1, <2>4, BlockKeepsCore DEF Reason
  <2> QED BY <1>2, <2>2, <2>3, <2>4 DEF Poll
<1>3. CASE Read(t)
  BY <1>3, AnsweredRequestKeepsCore DEF Read, Reject
<1>4. CASE Prompt(t) \/ Invalid(t)
  BY <1>4, AnsweredRequestKeepsCore DEF Prompt, Invalid, Reject
<1> QED
  BY <1>1, <1>2, <1>3, <1>4, YieldKeepsCore, WaitPidKeepsCore, ExitKeepsCore,
     CancelKeepsCore, SpawnKeepsCore DEF Request

-----------------------------------------------------------------------------
(* The policy, by the arithmetic of its scan, for a table of any size.     *)

(* Every nonempty set of naturals has a least element.                     *)
LEMMA LeastExists ==
    ASSUME NEW S \in SUBSET Nat, S # {}
    PROVE  \E m \in S : \A n \in S : m <= n
<1> DEFINE R == OpToRel(<, Nat)
<1>1. IsWellFoundedOn(R, Nat)
  BY NatLessThanWellFounded
<1>2. R = {ss \in Nat \X Nat : ss[1] < ss[2]}
  BY DEF OpToRel
<1> HIDE DEF R
<1>3. PICK m \in S : \A n \in S : <<n, m>> \notin R
  BY <1>1, WFMin
<1>4. \A n \in S : ~(n < m)
  BY <1>2, <1>3
<1> QED BY <1>3, <1>4

(* Visited and Distance are inverse to each other.                         *)
LEMMA VisitedAtDistance ==
    ASSUME NEW after \in 0 .. MaxTasks
    PROVE  /\ \A i \in TaskIds : /\ Scheduler!Visited(after, i) \in TaskIds
                                 /\ Scheduler!Distance(after, Scheduler!Visited(after, i)) = i
           /\ \A t \in TaskIds : /\ Scheduler!Distance(after, t) \in TaskIds
                                 /\ Scheduler!Visited(after, Scheduler!Distance(after, t)) = t
BY DEF Scheduler!Visited, Scheduler!Distance, TaskIds

(* What the scan of udeks_scheduler_select_next returns: the candidate     *)
(* that is nearest after the last selected task.                           *)
LEMMA SelectsNearest ==
    ASSUME NEW after \in 0 .. MaxTasks,
           NEW candidates \in SUBSET TaskIds, candidates # {}
    PROVE  /\ Scheduler!SelectNext(after, candidates) \in candidates
           /\ \A u \in candidates :
                 Scheduler!Distance(after, Scheduler!SelectNext(after, candidates))
                    <= Scheduler!Distance(after, u)
<1> DEFINE hits == {i \in TaskIds : Scheduler!Visited(after, i) \in candidates}
<1>1. \A u \in candidates : Scheduler!Distance(after, u) \in hits
  BY VisitedAtDistance
<1>2. hits # {} /\ hits \in SUBSET Nat
  <2>1. hits # {}
    BY <1>1
  <2>2. hits \in SUBSET Nat
    BY DEF TaskIds
  <2> QED BY <2>1, <2>2
<1> DEFINE first == CHOOSE i \in hits : \A j \in hits : i <= j
<1>3. first \in hits /\ \A j \in hits : first <= j
  <2> HIDE DEF hits
  <2> QED BY <1>2, LeastExists
<1>4. Scheduler!SelectNext(after, candidates) = Scheduler!Visited(after, first)
  BY <1>2 DEF Scheduler!SelectNext, Scheduler!TaskIds, TaskIds
<1>5. Scheduler!Distance(after, Scheduler!Visited(after, first)) = first
  BY <1>3, VisitedAtDistance
<1>6. Scheduler!Visited(after, first) \in candidates
  BY <1>3
<1> QED BY <1>1, <1>3, <1>4, <1>5, <1>6

(* Moving the scan to a task that lies before t brings it nearer to t.     *)
LEMMA MovingForwardApproaches ==
    ASSUME NEW s \in 0 .. MaxTasks, NEW r \in 1 .. MaxTasks,
           NEW t \in 1 .. MaxTasks, r # t,
           Scheduler!Distance(s, r) <= Scheduler!Distance(s, t)
    PROVE  Scheduler!Distance(r, t) < Scheduler!Distance(s, t)
<1>1. CASE r > s /\ t > s
  BY <1>1 DEF Scheduler!Distance
<1>2. CASE r > s /\ ~(t > s)
  BY <1>2 DEF Scheduler!Distance
<1>3. CASE ~(r > s) /\ t > s
  BY <1>3 DEF Scheduler!Distance
<1>4. CASE ~(r > s) /\ ~(t > s)
  BY <1>4 DEF Scheduler!Distance
<1> QED BY <1>1, <1>2, <1>3, <1>4

-----------------------------------------------------------------------------
(* The policy selects a runnable task when there is one.                   *)
LEMMA SelectedIsRunnable ==
    ASSUME TypeOK, NEW t \in TaskIds, t = Scheduler!SelectNext(selected, Runnable)
    PROVE  t \in Runnable
<1>1. Runnable # {}
  BY DEF Scheduler!SelectNext, Scheduler!Visited, Scheduler!TaskIds, Scheduler!NoTask,
         TaskIds, NoTask
<1>2. Runnable \in SUBSET TaskIds /\ selected \in 0 .. MaxTasks
  BY DEF Runnable, TaskIds, TypeOK
<1> QED
  BY <1>1, <1>2, SelectsNearest

(* The scan of SLEEP and POLL waits turns WAITING and BLOCKED into         *)
(* RUNNABLE and READY together.                                            *)
LEMMA SleepPollKeepsCore ==
    ASSUME CoreInv, TypeOK', SleepPoll
    PROVE  CoreInv'
<1>1. \A u \in TaskIds :
         /\ slot'[u].state = IF IsDue(u) THEN "RUNNABLE" ELSE slot[u].state
         /\ slot'[u].wait = IF IsDue(u) THEN "NONE" ELSE slot[u].wait
  <2> SUFFICES ASSUME NEW u \in TaskIds
               PROVE  /\ slot'[u].state = IF IsDue(u) THEN "RUNNABLE" ELSE slot[u].state
                      /\ slot'[u].wait = IF IsDue(u) THEN "NONE" ELSE slot[u].wait
    OBVIOUS
  <2>1. slot'[u] = IF IsDue(u) THEN [slot[u] EXCEPT !.state = "RUNNABLE", !.wait = "NONE"]
                   ELSE slot[u]
    BY DEF SleepPoll
  <2>2. slot[u] \in SlotRecords
    BY DEF CoreInv, TypeOK
  <2> QED BY <2>1, <2>2 DEF SlotRecords
<1>2. \A u \in TaskIds :
         /\ ~IsDue(u) => snapshot'[u] = snapshot[u]
         /\ IsDue(u) => snapshot'[u].state = "READY"
  <2> SUFFICES ASSUME NEW u \in TaskIds
               PROVE  /\ ~IsDue(u) => snapshot'[u] = snapshot[u]
                      /\ IsDue(u) => snapshot'[u].state = "READY"
    OBVIOUS
  <2>1. snapshot'[u] = IF IsDue(u) THEN Woken(snapshot[u]) ELSE snapshot[u]
    BY DEF SleepPoll
  <2>2. snapshot[u] \in Snapshots
    BY DEF CoreInv, TypeOK
  <2> QED BY <2>1, <2>2 DEF Snapshots, Woken
<1>3. \A u \in TaskIds : IsDue(u) => slot[u].state = "WAITING"
  BY DEF IsDue
<1>4. OneRunner' /\ Entry'
  <2>1. phase = "wake" /\ phase' = "select" /\ UNCHANGED <<entered, current>>
    BY DEF SleepPoll
  <2> QED BY <1>1, <1>3, <2>1 DEF CoreInv, OneRunner, Entry
<1>5. WaitsAreRegistered'
  BY <1>1, <1>2, <1>3 DEF CoreInv, WaitsAreRegistered
<1> QED BY <1>4, <1>5 DEF CoreInv

LEMMA AppsPollKeepsCore ==
    ASSUME CoreInv, TypeOK', AppsPoll
    PROVE  CoreInv'
<1> DEFINE ended == {n \in owned : LauncherIsFree /\
                       (slot[n].state = "FREE"
                        \/ (slot[n].state = "ZOMBIE" /\ slot[n].parent = Root))}
<1>1. \A u \in TaskIds : slot'[u] = IF u \in ended THEN FreeSlot ELSE slot[u]
  BY DEF AppsPoll
<1>2. \A u \in TaskIds : snapshot'[u] = IF u \in ended THEN Idle ELSE snapshot[u]
  BY DEF AppsPoll
<1>3. \A u \in ended : slot[u].state \in {"FREE", "ZOMBIE"}
  OBVIOUS
<1>4. FreeSlot.state = "FREE" /\ FreeSlot.wait = "NONE" /\ Idle.state = "NONE"
  BY DEF FreeSlot, Idle
<1>5. phase = "apps" /\ phase' = "wake" /\ UNCHANGED <<entered, current>>
  BY DEF AppsPoll
<1> HIDE DEF ended
<1>6. OneRunner' /\ Entry'
  BY <1>1, <1>3, <1>4, <1>5 DEF CoreInv, OneRunner, Entry
<1>7. WaitsAreRegistered'
  BY <1>1, <1>2, <1>3, <1>4 DEF CoreInv, WaitsAreRegistered
<1> QED BY <1>6, <1>7 DEF CoreInv

(* The selected task takes its response with it.                           *)
LEMMA SelectKeepsCore ==
    ASSUME CoreInv, TypeOK', Select
    PROVE  CoreInv'
<1>1. CASE ~entered /\ entered' = TRUE /\ phase' = "task" /\ Publish(selected)
             /\ UNCHANGED <<slot, current, selected>>
  <2>1. selected \in TaskIds
    BY DEF CoreInv, TypeOK
  <2>2. \A u \in TaskIds :
           /\ snapshot[u].state # "READY" => snapshot'[u] = snapshot[u]
           /\ snapshot[u].state = "READY" => snapshot'[u].state \in {"READY", "NONE"}
    BY <1>1, <2>1 DEF Publish, Idle, CoreInv, TypeOK
  <2>3. OneRunner' /\ Entry'
    BY <1>1 DEF CoreInv, OneRunner, Entry, Root, NoTask
  <2>4. WaitsAreRegistered'
    BY <1>1, <2>2 DEF CoreInv, WaitsAreRegistered
  <2> QED BY <2>3, <2>4 DEF CoreInv
<1>2. ASSUME NEW t \in TaskIds, entered,
             t = Scheduler!SelectNext(ScanFrom, Runnable),
             slot' = [slot EXCEPT ![t].state = "RUNNING"],
             current' = t, phase' = "task", Publish(t), UNCHANGED entered
      PROVE  CoreInv'
  <2>1. t \in Runnable
    BY <1>2, SelectedIsRunnable DEF ScanFrom, CoreInv
  <2>2. t \in TaskIds /\ slot[t].state = "RUNNABLE"
    BY <2>1 DEF Runnable
  <2>3. \A u \in TaskIds :
           /\ slot'[u].state = IF u = t THEN "RUNNING" ELSE slot[u].state
           /\ slot'[u].wait = slot[u].wait
    BY <1>2 DEF CoreInv, TypeOK, SlotRecords
  <2>4. \A u \in TaskIds :
           /\ u # t => snapshot'[u] = snapshot[u]
           /\ u = t => IF snapshot[u].state = "READY" THEN snapshot'[u].state = "NONE"
                       ELSE snapshot'[u] = snapshot[u]
    BY <1>2 DEF Publish, Idle, CoreInv, TypeOK
  <2>5. snapshot[t].state \in {"NONE", "READY"}
    BY <2>2 DEF CoreInv, TypeOK, Snapshots, WaitsAreRegistered
  <2>6. OneRunner' /\ Entry'
    BY <1>2, <2>2, <2>3 DEF Select, CoreInv, OneRunner, Entry, TaskIds, NoTask
  <2>7. WaitsAreRegistered'
    BY <2>2, <2>3, <2>4, <2>5 DEF CoreInv, WaitsAreRegistered
  <2> QED BY <2>6, <2>7 DEF CoreInv
<1>3. CASE entered /\ phase' = "shell"
             /\ UNCHANGED <<slot, current, selected, entered, snapshot, record, asked>>
  BY <1>3 DEF Select, CoreInv, OneRunner, Entry, WaitsAreRegistered
<1> QED BY <1>1, <1>2, <1>3 DEF Select

LEMMA ShellPollKeepsCore ==
    ASSUME CoreInv, TypeOK', ShellPoll
    PROVE  CoreInv'
<1>1. entered /\ phase # "task" /\ phase' # "task" /\ UNCHANGED <<entered, current>>
  BY DEF ShellPoll, CoreInv, Entry
<1>2. ASSUME NEW n \in Natives, Load(n) PROVE CoreInv'
  <2>1. n \in TaskIds
    BY DEF TaskIds
  <2>2. NewSlot(Root).state = "RUNNABLE" /\ NewSlot(Root).wait = "NONE"
    BY DEF NewSlot, FreeSlot
  <2> QED
    BY <1>1, <1>2, <2>1, <2>2, ConstantsAreTyped, FreshSlotKeepsCore DEF Load
<1>3. CASE UNCHANGED <<slot, snapshot>>
  BY <1>1, <1>3 DEF CoreInv, OneRunner, Entry, WaitsAreRegistered
<1> QED BY <1>2, <1>3 DEF ShellPoll

(* Types, one runner and registered waits, from step to step.              *)
LEMMA StepKeepsCore == CoreInv /\ [Next]_vars => CoreInv'
<1> SUFFICES ASSUME CoreInv, [Next]_vars PROVE CoreInv'
  OBVIOUS
<1>1. TypeOK'
  BY StepIsTyped DEF CoreInv
<1>2. CASE UNCHANGED vars
  BY <1>1, <1>2
     DEF vars, table, terminal, clock, CoreInv, OneRunner, Entry, WaitsAreRegistered
<1>3. CASE TerminalPoll
  BY <1>1, <1>3
     DEF TerminalPoll, table, clock, CoreInv, OneRunner, Entry, WaitsAreRegistered
<1>4. CASE Tick
  BY <1>1, <1>4
     DEF Tick, table, terminal, CoreInv, OneRunner, Entry, WaitsAreRegistered
<1> QED
  BY <1>1, <1>2, <1>3, <1>4, AppsPollKeepsCore, SleepPollKeepsCore, SelectKeepsCore,
     ShellPollKeepsCore, RequestKeepsCore DEF Next, Pass

LEMMA InitKeepsCore == Init => CoreInv
<1> SUFFICES ASSUME Init PROVE CoreInv
  OBVIOUS
<1>1. /\ \A t \in TaskIds : /\ slot[t].state = IF t = Root THEN "RUNNING" ELSE "FREE"
                            /\ slot[t].wait = "NONE"
                            /\ snapshot[t].state = "NONE"
      /\ current = Root
  BY DEF Init, FreeSlot, Idle
<1> QED
  BY <1>1, InitIsTyped DEF Init, CoreInv, OneRunner, Entry, WaitsAreRegistered

THEOREM CoreIsInvariant == Spec => []CoreInv
BY InitKeepsCore, StepKeepsCore, PTL DEF Spec

(* At most one task runs, and it is the one requests are charged to.       *)
THEOREM OneTaskRuns == Spec => []OneRunner
<1>1. CoreInv => OneRunner
  BY DEF CoreInv
<1> QED BY <1>1, CoreIsInvariant, PTL

(* Slots and snapshots agree on who waits for what and who is answered.    *)
THEOREM WaitsStayRegistered == Spec => []WaitsAreRegistered
<1>1. CoreInv => WaitsAreRegistered
  BY DEF CoreInv
<1> QED BY <1>1, CoreIsInvariant, PTL

-----------------------------------------------------------------------------
(* The policy by itself: its cursor stays inside the table ...             *)
THEOREM ScanStaysInTable == SchedulerSpec => []Scheduler!TypeOK
<1>1. Scheduler!Init => Scheduler!TypeOK
  BY DEF Scheduler!Init, Scheduler!TypeOK
<1>2. Scheduler!TypeOK /\ [Scheduler!Next]_Scheduler!vars => Scheduler!TypeOK'
  <2> SUFFICES ASSUME Scheduler!TypeOK, [Scheduler!Next]_Scheduler!vars
               PROVE  Scheduler!TypeOK'
    OBVIOUS
  <2>1. CASE Scheduler!Dispatch
    <3>1. selected \in 0 .. MaxTasks /\ Runnable \in SUBSET TaskIds
      BY DEF Scheduler!TypeOK, Scheduler!TaskIds, Scheduler!NoTask, TaskIds
    <3>2. selected' \in Runnable
      BY <2>1, <3>1, SelectsNearest DEF Scheduler!Dispatch
    <3> QED BY <2>1, <3>2 DEF Scheduler!Dispatch, Scheduler!TypeOK
  <2>2. CASE Scheduler!Change
    BY <2>2 DEF Scheduler!Change, Scheduler!TypeOK
  <2>3. CASE UNCHANGED Scheduler!vars
    BY <2>3 DEF Scheduler!vars, Scheduler!TypeOK
  <2> QED BY <2>1, <2>2, <2>3 DEF Scheduler!Next
<1> QED BY <1>1, <1>2, PTL DEF SchedulerSpec, Scheduler!Spec

(* ... and each dispatch that passes over a runnable task shortens the     *)
(* scan's way to it.                                                       *)
THEOREM OvertakingIsBounded == SchedulerSpec => ApproachesEveryWaiter
<1> DEFINE Nearer ==
      \A t \in Scheduler!TaskIds :
          (Scheduler!Dispatch /\ t \in Runnable /\ selected' # t) =>
              /\ selected' \in Runnable
              /\ Scheduler!Distance(selected', t) < Scheduler!Distance(selected, t)
<1>1. Scheduler!TypeOK /\ [Scheduler!Next]_Scheduler!vars => [Nearer]_Scheduler!vars
  <2> SUFFICES ASSUME Scheduler!TypeOK, Scheduler!Dispatch, NEW t \in Scheduler!TaskIds,
                      t \in Runnable, selected' # t
               PROVE  /\ selected' \in Runnable
                      /\ Scheduler!Distance(selected', t) < Scheduler!Distance(selected, t)
    OBVIOUS
  <2>1. /\ selected \in 0 .. MaxTasks /\ t \in 1 .. MaxTasks
        /\ Runnable \in SUBSET TaskIds
    BY DEF Scheduler!TypeOK, Scheduler!TaskIds, Scheduler!NoTask, TaskIds
  <2>2. /\ selected' \in Runnable
        /\ Scheduler!Distance(selected, selected') <= Scheduler!Distance(selected, t)
    BY <2>1, SelectsNearest DEF Scheduler!Dispatch
  <2>3. selected' \in 1 .. MaxTasks
    BY <2>1, <2>2 DEF TaskIds
  <2>4. Scheduler!Distance(selected', t) < Scheduler!Distance(selected, t)
    BY <2>1, <2>2, <2>3, MovingForwardApproaches
  <2> QED BY <2>2, <2>4
<1> QED
  BY <1>1, ScanStaysInTable, PTL
     DEF SchedulerSpec, ApproachesEveryWaiter, Scheduler!Spec,
         Scheduler!ApproachesEveryWaiter

(* The tasking core implements the policy, for every number of slots:      *)
(* whatever a task, a poll or an interrupt does, the next task to run is   *)
(* the policy's.                                                           *)

(* Only the dispatcher moves the scan: no request and no other poll does.  *)
LEMMA RequestsKeepScan ==
    ASSUME NEW t \in TaskIds, Request(t)
    PROVE  UNCHANGED selected
<1>1. ASSUME NEW operation, Requests(t, operation) PROVE UNCHANGED selected
  BY <1>1 DEF Requests
<1> QED
  BY <1>1 DEF Request, Yield, Sleep, WaitPid, Exit, Cancel, Spawn, Read, Poll, Prompt,
              Invalid

LEMMA PollsKeepScan ==
    ASSUME TerminalPoll \/ AppsPoll \/ SleepPoll \/ ShellPoll \/ Tick
    PROVE  UNCHANGED selected
BY DEF TerminalPoll, AppsPoll, SleepPoll, ShellPoll, Tick

(* A selection is a dispatch of the policy, or leaves the scan alone.      *)
LEMMA SelectIsDispatch ==
    ASSUME CoreInv, Select
    PROVE  Scheduler!Dispatch \/ UNCHANGED selected
<1>1. ASSUME NEW t \in TaskIds, t = Scheduler!SelectNext(ScanFrom, Runnable),
             slot' = [slot EXCEPT ![t].state = "RUNNING"], selected' = t
      PROVE  Scheduler!Dispatch
  <2>1. t \in Runnable
    BY <1>1, SelectedIsRunnable DEF ScanFrom, CoreInv
  <2>2. \A u \in TaskIds : slot'[u].state = IF u = t THEN "RUNNING" ELSE slot[u].state
    BY <1>1 DEF CoreInv, TypeOK, SlotRecords
  <2>3. Runnable' = Runnable \ {t}
    BY <2>2 DEF Runnable
  <2> QED BY <1>1, <2>1, <2>3 DEF Scheduler!Dispatch, ScanFrom
<1> QED BY <1>1 DEF Select

(* Every step of the core is one of the policy, or changes nothing of it.  *)
LEMMA StepIsScheduled ==
    ASSUME CoreInv, [Next]_vars
    PROVE  [Scheduler!Next]_Scheduler!vars
<1>1. UNCHANGED selected => Scheduler!Change
  BY DEF Scheduler!Change, Scheduler!TaskIds, Runnable, TaskIds
<1>2. UNCHANGED vars => UNCHANGED selected
  BY DEF vars
<1>3. Scheduler!Dispatch \/ UNCHANGED selected
  BY <1>2, RequestsKeepScan, PollsKeepScan, SelectIsDispatch DEF Next, Pass
<1> QED BY <1>1, <1>3 DEF Scheduler!Next

(* The tasking core implements the round robin: its dispatches are those   *)
(* of the policy, over the tasks that are runnable at the time             *)
(* (udeks_task_context_select).                                            *)
THEOREM CoreIsRoundRobin == Spec => SchedulerSpec
<1>1. Init => Scheduler!Init
  BY DEF Init, Scheduler!Init, Scheduler!TaskIds, TaskIds, Runnable, Root
<1>2. CoreInv /\ [Next]_vars => [Scheduler!Next]_Scheduler!vars
  BY StepIsScheduled
<1> QED BY <1>1, <1>2, CoreIsInvariant, PTL DEF Spec, SchedulerSpec, Scheduler!Spec

(* For every number of slots, a dispatch of the core that passes over a    *)
(* runnable task brings the scan strictly closer to it.                    *)
THEOREM CoreOvertakingIsBounded == Spec => ApproachesEveryWaiter
BY CoreIsRoundRobin, OvertakingIsBounded

-----------------------------------------------------------------------------
(* A step that wakes or frees, and creates no waiter, keeps the waiters'   *)
(* children if those alive stay so and no other child of theirs dies.      *)
LEMMA OldWaitersKeepChildren ==
    ASSUME WaitersHaveLiveChildren,
           \A p \in TaskIds : slot'[p].wait = "CHILD" =>
              /\ slot[p].wait = "CHILD"
              /\ snapshot'[p].selector = snapshot[p].selector
              /\ \A c \in TaskIds : snapshot[p].selector \in {AnyChild, c} =>
                   /\ slot[c].parent = p /\ Live(c) => slot'[c].parent = p /\ Live(c)'
                   /\ slot'[c].parent = p /\ slot'[c].state = "ZOMBIE" =>
                        slot[c].parent = p /\ slot[c].state = "ZOMBIE"
    PROVE  WaitersHaveLiveChildren'
<1> SUFFICES ASSUME NEW p \in TaskIds, slot'[p].wait = "CHILD"
             PROVE  /\ \E c \in Children(p, snapshot[p].selector)' : Live(c)'
                    /\ Zombies(p, snapshot[p].selector)' = {}
  BY DEF WaitersHaveLiveChildren
<1>1. PICK c \in Children(p, snapshot[p].selector) : Live(c)
  BY DEF WaitersHaveLiveChildren
<1>2. c \in Children(p, snapshot[p].selector)' /\ Live(c)'
  BY <1>1 DEF Children, IsChild, Live
<1>3. Zombies(p, snapshot[p].selector)' = {}
  <2> SUFFICES ASSUME NEW z \in Zombies(p, snapshot[p].selector)' PROVE FALSE
    OBVIOUS
  <2>1. z \in Zombies(p, snapshot[p].selector)
    BY DEF Zombies, Children, IsChild
  <2> QED BY <2>1 DEF WaitersHaveLiveChildren
<1> QED BY <1>2, <1>3

(* The commonest case: neither parents nor deaths change.                  *)
LEMMA QuietStepKeepsWaiters ==
    ASSUME WaitersHaveLiveChildren,
           \A u \in TaskIds :
              /\ slot'[u].parent = slot[u].parent
              /\ Live(u)' <=> Live(u)
              /\ slot'[u].state = "ZOMBIE" <=> slot[u].state = "ZOMBIE"
              /\ slot'[u].wait = "CHILD" =>
                   slot[u].wait = "CHILD" /\ snapshot'[u].selector = snapshot[u].selector
    PROVE  WaitersHaveLiveChildren'
BY OldWaitersKeepChildren

LEMMA BlockKeepsWaiters ==
    ASSUME CoreInv, WaitersHaveLiveChildren, NEW t \in TaskIds, NEW operation,
           NEW selector, NEW timeout, NEW reason,
           Requests(t, operation), Block(t, operation, reason, selector, timeout),
           reason = "CHILD" => /\ Children(t, selector) # {}
                               /\ Zombies(t, selector) = {}
    PROVE  WaitersHaveLiveChildren'
<1>1. \A u \in TaskIds :
         /\ slot'[u].state = IF u = t THEN "WAITING" ELSE slot[u].state
         /\ slot'[u].wait = IF u = t THEN reason ELSE slot[u].wait
         /\ slot'[u].parent = slot[u].parent
  BY DEF Block, CoreInv, TypeOK, SlotRecords
<1>2. \A u \in TaskIds :
         snapshot'[u].selector = IF u = t THEN selector ELSE snapshot[u].selector
  BY DEF Block, CoreInv, TypeOK, Idle
<1>3. slot[t].state = "RUNNING"
  BY RequesterRuns
<1>4. \A u \in TaskIds :
         /\ Live(u)' <=> Live(u)
         /\ slot'[u].state = "ZOMBIE" <=> slot[u].state = "ZOMBIE"
         /\ slot'[u].state = "FREE" <=> slot[u].state = "FREE"
  BY <1>1, <1>3 DEF Live
<1>5. \A p \in TaskIds : \A s :
         /\ Children(p, s)' = Children(p, s)
         /\ Zombies(p, s)' = Zombies(p, s)
  BY <1>1, <1>4 DEF Children, Zombies, IsChild
<1>6. ASSUME NEW p \in TaskIds, slot'[p].wait = "CHILD"
      PROVE  /\ \E c \in Children(p, snapshot'[p].selector) : Live(c)'
             /\ Zombies(p, snapshot'[p].selector) = {}
  <2>1. CASE p = t
    <3>1. snapshot'[p].selector = selector /\ reason = "CHILD"
      BY <1>1, <1>2, <1>6, <2>1
    <3>2. PICK c \in Children(t, selector) : TRUE
      BY <3>1
    <3>3. Live(c)'
      BY <3>1, <3>2, <1>4 DEF Zombies, Children, IsChild, Live
    <3> QED BY <2>1, <3>1, <3>2, <3>3
  <2>2. CASE p # t
    BY <1>1, <1>2, <1>4, <1>6, <2>2 DEF WaitersHaveLiveChildren, Children
  <2> QED BY <2>1, <2>2
<1> QED BY <1>5, <1>6 DEF WaitersHaveLiveChildren

(* A reaped child was of the caller, who is not waiting.                   *)
LEMMA WaitPidKeepsWaiters ==
    ASSUME CoreInv, WaitersHaveLiveChildren, NEW t \in TaskIds, NEW selector,
           NEW nohang, WaitPid(t, selector, nohang)
    PROVE  WaitersHaveLiveChildren'
<1>1. Requests(t, "WAITPID")
  BY DEF WaitPid
<1>2. CASE UNCHANGED <<slot, snapshot>>
  BY <1>2, QuietStepKeepsWaiters DEF Live
<1>3. ASSUME NEW c \in Zombies(t, selector),
             slot' = [slot EXCEPT ![c] = FreeSlot], snapshot' = snapshot
      PROVE  WaitersHaveLiveChildren'
  <2>1. c \in TaskIds /\ slot[c].state = "ZOMBIE" /\ slot[c].parent = t
    BY <1>3 DEF Zombies, Children, IsChild
  <2>2. \A u \in TaskIds : slot'[u] = IF u = c THEN FreeSlot ELSE slot[u]
    BY <1>3 DEF CoreInv, TypeOK
  <2> QED
    BY <1>3, <2>1, <2>2, OldWaitersKeepChildren DEF Live, FreeSlot
<1>4. CASE Block(t, "WAITPID", "CHILD", selector, 0) /\ Children(t, selector) # {}
             /\ Zombies(t, selector) = {}
  BY <1>1, <1>4, BlockKeepsWaiters
<1> QED BY <1>2, <1>3, <1>4 DEF WaitPid, Reject

(* A task that ends either wakes its parent or has none waiting for it.    *)
LEMMA ExitKeepsWaiters ==
    ASSUME CoreInv, WaitersHaveLiveChildren, NEW t \in TaskIds, NEW status,
           Exit(t, status)
    PROVE  WaitersHaveLiveChildren'
<1> DEFINE p == slot[t].parent
<1>1. slot[t].state = "RUNNING" /\ slot[t].wait = "NONE"
  BY RequesterRuns DEF Exit
<1>2. CASE /\ WaitsFor(p, t)
           /\ snapshot' = [snapshot EXCEPT ![p].state = "READY", ![p].child = t,
                                           ![p].status = status]
           /\ slot' = [slot EXCEPT ![t] = FreeSlot, ![p].state = "RUNNABLE",
                                   ![p].wait = "NONE"]
  <2>1. p \in TaskIds /\ slot[p].state = "WAITING" /\ p # t
    BY <1>1, <1>2 DEF WaitsFor, CoreInv, TypeOK, SlotRecords
  <2>2. \A u \in TaskIds :
           /\ slot'[u].state = IF u = t THEN "FREE" ELSE IF u = p THEN "RUNNABLE"
                               ELSE slot[u].state
           /\ slot'[u].wait = IF u \in {t, p} THEN "NONE" ELSE slot[u].wait
           /\ slot'[u].parent = IF u = t THEN NoTask ELSE slot[u].parent
    BY <1>2, <2>1 DEF CoreInv, TypeOK, SlotRecords, FreeSlot
  <2>3. \A u \in TaskIds : u # p => snapshot'[u] = snapshot[u]
    BY <1>2, <2>1 DEF CoreInv, TypeOK
  <2> QED
    BY <2>1, <2>2, <2>3, OldWaitersKeepChildren DEF Live
<1>3. CASE /\ ~WaitsFor(p, t)
           /\ slot' = [slot EXCEPT ![t].state = "ZOMBIE", ![t].exit = status]
           /\ UNCHANGED snapshot
  <2>1. \A u \in TaskIds :
           /\ slot'[u].state = IF u = t THEN "ZOMBIE" ELSE slot[u].state
           /\ slot'[u].wait = slot[u].wait
           /\ slot'[u].parent = slot[u].parent
    BY <1>3 DEF CoreInv, TypeOK, SlotRecords
  <2>2. ASSUME NEW q \in TaskIds, slot[q].wait = "CHILD",
               snapshot[q].selector \in {AnyChild, t}
        PROVE  p # q
    <3>1. slot[q].state = "WAITING" /\ snapshot[q].state = "BLOCKED"
      BY <2>2 DEF CoreInv, WaitsAreRegistered
    <3>2. q # NoTask
      BY DEF TaskIds, NoTask
    <3> QED BY <1>3, <2>2, <3>1, <3>2 DEF WaitsFor
  <2>4. ASSUME NEW q \in TaskIds, slot'[q].wait = "CHILD", NEW c \in TaskIds,
               snapshot[q].selector \in {AnyChild, c}
        PROVE  /\ slot[q].wait = "CHILD" /\ snapshot'[q].selector = snapshot[q].selector
               /\ slot[c].parent = q /\ Live(c) => slot'[c].parent = q /\ Live(c)'
               /\ slot'[c].parent = q /\ slot'[c].state = "ZOMBIE" =>
                    slot[c].parent = q /\ slot[c].state = "ZOMBIE"
    <3>1. slot[q].wait = "CHILD" /\ snapshot'[q].selector = snapshot[q].selector
      BY <1>3, <2>1, <2>4
    <3>2. slot[c].parent = q => c # t
      BY <2>2, <2>4, <3>1
    <3> QED BY <2>1, <3>1, <3>2 DEF Live
  <2>5. ASSUME NEW q \in TaskIds, slot'[q].wait = "CHILD"
        PROVE  slot[q].wait = "CHILD" /\ snapshot'[q].selector = snapshot[q].selector
    BY <1>3, <2>1, <2>5
  <2> QED BY <2>4, <2>5, OldWaitersKeepChildren
<1> QED BY <1>2, <1>3 DEF Exit

(* A cancelled task was a child of the caller, who is not waiting.         *)
LEMMA CancelKeepsWaiters ==
    ASSUME CoreInv, WaitersHaveLiveChildren, NEW t \in TaskIds, NEW target,
           NEW status, Cancel(t, target, status)
    PROVE  WaitersHaveLiveChildren'
<1>1. slot[t].wait = "NONE"
  BY RequesterRuns DEF Cancel
<1>2. CASE Reject(t, "CANCEL")
  BY <1>2, QuietStepKeepsWaiters DEF Reject, Live
<1>3. CASE ~Reject(t, "CANCEL")
  <2>1. /\ target \in TaskIds /\ target # t /\ slot[target].parent = t
        /\ slot' = [slot EXCEPT ![target].state = "ZOMBIE", ![target].wait = "NONE",
                                ![target].exit = status]
        /\ snapshot' = [snapshot EXCEPT ![target] = Idle]
    BY <1>3 DEF Cancel, MayCancel, Cancelled, IsChild
  <2>2. \A u \in TaskIds :
           /\ slot'[u].state = IF u = target THEN "ZOMBIE" ELSE slot[u].state
           /\ slot'[u].wait = IF u = target THEN "NONE" ELSE slot[u].wait
           /\ slot'[u].parent = slot[u].parent
    BY <2>1 DEF CoreInv, TypeOK, SlotRecords
  <2>3. \A u \in TaskIds : u # target => snapshot'[u] = snapshot[u]
    BY <2>1 DEF CoreInv, TypeOK
  <2>4. ASSUME NEW q \in TaskIds, slot'[q].wait = "CHILD", NEW c \in TaskIds,
               snapshot[q].selector \in {AnyChild, c}
        PROVE  /\ slot[q].wait = "CHILD" /\ snapshot'[q].selector = snapshot[q].selector
               /\ slot[c].parent = q /\ Live(c) => slot'[c].parent = q /\ Live(c)'
               /\ slot'[c].parent = q /\ slot'[c].state = "ZOMBIE" =>
                    slot[c].parent = q /\ slot[c].state = "ZOMBIE"
    <3>1. slot[q].wait = "CHILD" /\ q # target
      BY <2>2, <2>4
    <3>2. slot[c].parent = q => c # target
      BY <1>1, <2>1, <3>1
    <3> QED BY <2>2, <2>3, <3>1, <3>2 DEF Live
  <2>5. ASSUME NEW q \in TaskIds, slot'[q].wait = "CHILD"
        PROVE  slot[q].wait = "CHILD" /\ snapshot'[q].selector = snapshot[q].selector
    BY <2>2, <2>3, <2>5
  <2> QED BY <2>4, <2>5, OldWaitersKeepChildren
<1> QED BY <1>2, <1>3

(* A newcomer in a free slot is nobody's dead child.                       *)
LEMMA NewcomerKeepsWaiters ==
    ASSUME CoreInv, WaitersHaveLiveChildren, NEW c \in TaskIds, NEW parent \in TaskIds,
           slot[c].state = "FREE",
           slot' = [slot EXCEPT ![c] = NewSlot(parent)],
           snapshot' = [snapshot EXCEPT ![c] = Idle]
    PROVE  WaitersHaveLiveChildren'
<1>1. \A u \in TaskIds :
         /\ slot'[u] = IF u = c THEN NewSlot(parent) ELSE slot[u]
         /\ u # c => snapshot'[u] = snapshot[u]
  BY DEF CoreInv, TypeOK
<1>2. NewSlot(parent).state = "RUNNABLE" /\ NewSlot(parent).wait = "NONE"
  BY DEF NewSlot, FreeSlot
<1> QED
  BY <1>1, <1>2, OldWaitersKeepChildren DEF Live

LEMMA RequestKeepsWaiters ==
    ASSUME CoreInv, WaitersHaveLiveChildren, NEW t \in TaskIds, Request(t)
    PROVE  WaitersHaveLiveChildren'
<1>1. CASE Yield(t)
  <2>1. \A u \in TaskIds :
           /\ slot'[u].state = IF u = t THEN "RUNNABLE" ELSE slot[u].state
           /\ slot'[u].wait = slot[u].wait
           /\ slot'[u].parent = slot[u].parent
    BY <1>1 DEF Yield, CoreInv, TypeOK, SlotRecords
  <2>2. slot[t].state = "RUNNING" /\ snapshot' = snapshot
    BY <1>1, RequesterRuns DEF Yield
  <2> QED BY <2>1, <2>2, QuietStepKeepsWaiters DEF Live
<1>2. ASSUME NEW timeout, Sleep(t, timeout) PROVE WaitersHaveLiveChildren'
  BY <1>2, BlockKeepsWaiters DEF Sleep
<1>3. CASE Spawn(t)
  <2>1. CASE Reject(t, "SPAWN")
    BY <2>1, QuietStepKeepsWaiters DEF Reject, Live
  <2>2. CASE ~Reject(t, "SPAWN")
    BY <1>3, <2>2, ConstantsAreTyped, NewcomerKeepsWaiters DEF Spawn
  <2> QED BY <2>1, <2>2
<1>4. CASE UNCHANGED <<slot, snapshot>>
  BY <1>4, QuietStepKeepsWaiters DEF Live
<1>5. ASSUME NEW timeout, Poll(t, timeout) PROVE WaitersHaveLiveChildren'
  <2>1. CASE Block(t, "POLL", "INPUT", AnyChild, timeout)
    BY <1>5, <2>1, BlockKeepsWaiters DEF Poll
  <2> QED BY <1>4, <1>5, <2>1 DEF Poll, Reject
<1>6. CASE Read(t) \/ Prompt(t) \/ Invalid(t)
  BY <1>4, <1>6 DEF Read, Prompt, Invalid, Reject
<1> QED
  BY <1>1, <1>2, <1>3, <1>5, <1>6, WaitPidKeepsWaiters, ExitKeepsWaiters,
     CancelKeepsWaiters DEF Request

LEMMA PassKeepsWaiters ==
    ASSUME CoreInv, WaitersHaveLiveChildren, Pass
    PROVE  WaitersHaveLiveChildren'
<1>1. CASE UNCHANGED <<slot, snapshot>>
  BY <1>1, QuietStepKeepsWaiters DEF Live
<1>2. CASE AppsPoll
  <2> DEFINE ended == {n \in owned : LauncherIsFree /\
                         (slot[n].state = "FREE"
                          \/ (slot[n].state = "ZOMBIE" /\ slot[n].parent = Root))}
  <2>1. \A u \in TaskIds :
           /\ slot'[u] = IF u \in ended THEN FreeSlot ELSE slot[u]
           /\ u \notin ended => snapshot'[u] = snapshot[u]
    BY <1>2 DEF AppsPoll
  <2>2. \A u \in ended : slot[u].state \in {"FREE", "ZOMBIE"}
    OBVIOUS
  <2>3. FreeSlot.state = "FREE" /\ FreeSlot.wait = "NONE"
    BY DEF FreeSlot
  <2> HIDE DEF ended
  <2> QED BY <2>1, <2>2, <2>3, OldWaitersKeepChildren DEF Live
<1>3. CASE SleepPoll
  <2>1. \A u \in TaskIds :
           /\ slot'[u].state = IF IsDue(u) THEN "RUNNABLE" ELSE slot[u].state
           /\ slot'[u].wait = IF IsDue(u) THEN "NONE" ELSE slot[u].wait
           /\ slot'[u].parent = slot[u].parent
    BY <1>3 DEF SleepPoll, CoreInv, TypeOK, SlotRecords
  <2>2. \A u \in TaskIds : ~IsDue(u) => snapshot'[u] = snapshot[u]
    BY <1>3 DEF SleepPoll
  <2>3. \A u \in TaskIds : IsDue(u) => slot[u].state = "WAITING"
    BY DEF IsDue
  <2> QED BY <2>1, <2>2, <2>3, QuietStepKeepsWaiters DEF Live
<1>4. CASE Select
  <2>1. ASSUME NEW t \in TaskIds, Publish(t), snapshot[t].state \in {"NONE", "READY"}
        PROVE  \A u \in TaskIds : slot[u].wait = "CHILD" => snapshot'[u] = snapshot[u]
    BY <2>1 DEF Publish, CoreInv, TypeOK, WaitsAreRegistered
  <2>2. CASE ~entered /\ Publish(selected) /\ slot' = slot
    <3>1. selected \in TaskIds
      BY DEF CoreInv, TypeOK
    <3>2. \A u \in TaskIds : slot[u].wait = "CHILD" => snapshot'[u] = snapshot[u]
      BY <2>2, <3>1 DEF Publish, CoreInv, TypeOK, WaitsAreRegistered
    <3> QED BY <2>2, <3>2, QuietStepKeepsWaiters DEF Live
  <2>3. ASSUME NEW t \in TaskIds, t = Scheduler!SelectNext(ScanFrom, Runnable),
               slot' = [slot EXCEPT ![t].state = "RUNNING"], Publish(t)
        PROVE  WaitersHaveLiveChildren'
    <3>1. slot[t].state = "RUNNABLE"
      BY <2>3, SelectedIsRunnable DEF ScanFrom, CoreInv, Runnable
    <3>2. \A u \in TaskIds :
             /\ slot'[u].state = IF u = t THEN "RUNNING" ELSE slot[u].state
             /\ slot'[u].wait = slot[u].wait
             /\ slot'[u].parent = slot[u].parent
      BY <2>3 DEF CoreInv, TypeOK, SlotRecords
    <3>3. \A u \in TaskIds : u # t => snapshot'[u] = snapshot[u]
      BY <2>3 DEF Publish, CoreInv, TypeOK
    <3>4. slot[t].wait = "NONE"
      BY <3>1 DEF CoreInv, WaitsAreRegistered
    <3> QED BY <3>1, <3>2, <3>3, <3>4, QuietStepKeepsWaiters DEF Live
  <2> QED BY <1>1, <1>4, <2>2, <2>3 DEF Select
<1>5. ASSUME NEW n \in Natives, Load(n) PROVE WaitersHaveLiveChildren'
  <2>1. n \in TaskIds
    BY DEF TaskIds
  <2> QED BY <1>5, <2>1, ConstantsAreTyped, NewcomerKeepsWaiters DEF Load
<1> QED
  BY <1>1, <1>2, <1>3, <1>4, <1>5 DEF Pass, TerminalPoll, ShellPoll, table

(* No wake-up is lost: a task blocked in WAITPID always has a living child *)
(* it waits for, and none that died without its being told                 *)
(* (request_exit looks for the waiting parent, request_waitpid for a       *)
(* zombie before it blocks).                                               *)
THEOREM NoWakeUpIsLost == Spec => []WaitersHaveLiveChildren
<1>1. Init => WaitersHaveLiveChildren
  BY DEF Init, FreeSlot, WaitersHaveLiveChildren
<1>2. CoreInv /\ WaitersHaveLiveChildren /\ [Next]_vars => WaitersHaveLiveChildren'
  <2> SUFFICES ASSUME CoreInv, WaitersHaveLiveChildren, [Next]_vars
               PROVE  WaitersHaveLiveChildren'
    OBVIOUS
  <2>1. CASE UNCHANGED <<slot, snapshot>>
    BY <2>1, QuietStepKeepsWaiters DEF Live
  <2> QED
    BY <2>1, RequestKeepsWaiters, PassKeepsWaiters DEF Next, Tick, vars, table
<1> QED BY <1>1, <1>2, CoreIsInvariant, PTL DEF Spec

-----------------------------------------------------------------------------
(* The family: only task 2 has a parent other than the root shell, and     *)
(* never itself.                                                           *)
Family ==
    /\ \A t \in TaskIds \ {Spawned} : slot[t].parent \in {NoTask, Root}
    /\ slot[Spawned].parent # Spawned

(* The parent of a slot changes only when the slot is freed, when SPAWN    *)
(* fills slot 2 or when the loader fills a native's slot; and these two    *)
(* are the only steps that fill a free slot.                               *)
ParentsStay ==
    \A u \in TaskIds :
        /\ slot'[u].parent \in {slot[u].parent, NoTask}
        /\ slot[u].state = "FREE" => slot'[u].state = "FREE"

Fills(n, parent) ==
    /\ slot[n].state = "FREE" /\ slot[Spawned].state = "FREE"
    /\ slot' = [slot EXCEPT ![n] = NewSlot(parent)]
    /\ \/ n = Spawned /\ parent # Spawned
       \/ n \in Natives /\ parent = Root

LEMMA RequestsKeepParents ==
    ASSUME CoreInv, NEW t \in TaskIds, Request(t)
    PROVE  ParentsStay \/ Fills(Spawned, t)
<1>1. ASSUME NEW operation, NEW reason, NEW selector, NEW timeout,
             Requests(t, operation), Block(t, operation, reason, selector, timeout)
      PROVE  ParentsStay
  <2>1. \A u \in TaskIds :
           /\ slot'[u].state = IF u = t THEN "WAITING" ELSE slot[u].state
           /\ slot'[u].parent = slot[u].parent
    BY <1>1 DEF Block, CoreInv, TypeOK, SlotRecords
  <2>2. slot[t].state = "RUNNING"
    BY <1>1, RequesterRuns
  <2> QED BY <2>1, <2>2 DEF ParentsStay
<1>2. ASSUME UNCHANGED slot PROVE ParentsStay
  BY <1>2 DEF ParentsStay
<1>3. CASE Yield(t)
  <2>1. \A u \in TaskIds :
           /\ slot'[u].state = IF u = t THEN "RUNNABLE" ELSE slot[u].state
           /\ slot'[u].parent = slot[u].parent
    BY <1>3 DEF Yield, CoreInv, TypeOK, SlotRecords
  <2>2. slot[t].state = "RUNNING"
    BY <1>3, RequesterRuns DEF Yield
  <2> QED BY <2>1, <2>2 DEF ParentsStay
<1>4. ASSUME NEW selector, NEW nohang, WaitPid(t, selector, nohang) PROVE ParentsStay
  <2>1. ASSUME NEW c, slot' = [slot EXCEPT ![c] = FreeSlot] PROVE ParentsStay
    <3>1. \A u \in TaskIds : slot'[u] = slot[u] \/ slot'[u] = FreeSlot
      BY <2>1 DEF CoreInv, TypeOK
    <3> QED BY <3>1 DEF ParentsStay, FreeSlot
  <2>2. CASE Block(t, "WAITPID", "CHILD", selector, 0)
    BY <1>1, <1>4, <2>2 DEF WaitPid
  <2>3. UNCHANGED slot \/ Block(t, "WAITPID", "CHILD", selector, 0)
          \/ \E c \in Zombies(t, selector) : slot' = [slot EXCEPT ![c] = FreeSlot]
    BY <1>4 DEF WaitPid, Reject
  <2> QED BY <1>2, <2>1, <2>2, <2>3
<1>5. ASSUME NEW status, Exit(t, status) PROVE ParentsStay
  <2> DEFINE p == slot[t].parent
  <2>1. slot[t].state = "RUNNING"
    BY <1>5, RequesterRuns DEF Exit
  <2>2. CASE /\ WaitsFor(p, t)
             /\ slot' = [slot EXCEPT ![t] = FreeSlot, ![p].state = "RUNNABLE",
                                     ![p].wait = "NONE"]
    <3>1. p \in TaskIds /\ slot[p].state = "WAITING" /\ p # t
      BY <2>1, <2>2 DEF WaitsFor, CoreInv, TypeOK, SlotRecords
    <3>2. \A u \in TaskIds :
             /\ slot'[u].state = IF u = t THEN "FREE" ELSE IF u = p THEN "RUNNABLE"
                                 ELSE slot[u].state
             /\ slot'[u].parent = IF u = t THEN NoTask ELSE slot[u].parent
      BY <2>2, <3>1 DEF CoreInv, TypeOK, SlotRecords, FreeSlot
    <3> QED BY <3>1, <3>2 DEF ParentsStay
  <2>3. CASE slot' = [slot EXCEPT ![t].state = "ZOMBIE", ![t].exit = status]
    <3>1. \A u \in TaskIds :
             /\ slot'[u].state = IF u = t THEN "ZOMBIE" ELSE slot[u].state
             /\ slot'[u].parent = slot[u].parent
      BY <2>3 DEF CoreInv, TypeOK, SlotRecords
    <3> QED BY <2>1, <3>1 DEF ParentsStay
  <2> QED BY <1>5, <2>2, <2>3 DEF Exit
<1>6. ASSUME NEW target, NEW status, Cancel(t, target, status) PROVE ParentsStay
  <2>1. CASE MayCancel(t, target)
             /\ slot' = [slot EXCEPT ![target].state = "ZOMBIE", ![target].wait = "NONE",
                                     ![target].exit = status]
    <3>1. /\ \A u \in TaskIds :
                /\ slot'[u].state = IF u = target THEN "ZOMBIE" ELSE slot[u].state
                /\ slot'[u].parent = slot[u].parent
          /\ slot[target].state # "FREE"
      BY <2>1 DEF MayCancel, Live, CoreInv, TypeOK, SlotRecords
    <3> QED BY <3>1 DEF ParentsStay
  <2>2. CASE Reject(t, "CANCEL")
    BY <1>2, <2>2 DEF Reject
  <2> QED BY <1>6, <2>1, <2>2 DEF Cancel
<1>7. CASE Spawn(t)
  <2>1. slot[t].state = "RUNNING"
    BY <1>7, RequesterRuns DEF Spawn
  <2> QED BY <1>2, <1>7, <2>1 DEF Spawn, Reject, Fills
<1> QED
  BY <1>1, <1>2, <1>3, <1>4, <1>5, <1>6, <1>7
     DEF Request, Sleep, Poll, Read, Prompt, Invalid, Reject

LEMMA PassKeepsParents ==
    ASSUME CoreInv, Pass
    PROVE  ParentsStay \/ \E n \in Natives : Load(n)
<1>1. CASE UNCHANGED slot
  BY <1>1 DEF ParentsStay
<1>2. CASE AppsPoll
  <2>1. \A u \in TaskIds : slot'[u] = slot[u] \/ slot'[u] = FreeSlot
    BY <1>2 DEF AppsPoll
  <2> QED BY <2>1 DEF ParentsStay, FreeSlot
<1>3. CASE SleepPoll
  <2>1. \A u \in TaskIds :
           /\ slot'[u].state = IF IsDue(u) THEN "RUNNABLE" ELSE slot[u].state
           /\ slot'[u].parent = slot[u].parent
    BY <1>3 DEF SleepPoll, CoreInv, TypeOK, SlotRecords
  <2>2. \A u \in TaskIds : IsDue(u) => slot[u].state = "WAITING"
    BY DEF IsDue
  <2> QED BY <2>1, <2>2 DEF ParentsStay
<1>4. ASSUME NEW t \in TaskIds, t = Scheduler!SelectNext(ScanFrom, Runnable),
             slot' = [slot EXCEPT ![t].state = "RUNNING"]
      PROVE  ParentsStay
  <2>1. slot[t].state = "RUNNABLE"
    BY <1>4, SelectedIsRunnable DEF ScanFrom, CoreInv, Runnable
  <2>2. \A u \in TaskIds :
           /\ slot'[u].state = IF u = t THEN "RUNNING" ELSE slot[u].state
           /\ slot'[u].parent = slot[u].parent
    BY <1>4 DEF CoreInv, TypeOK, SlotRecords
  <2> QED BY <2>1, <2>2 DEF ParentsStay
<1> QED
  BY <1>1, <1>2, <1>3, <1>4 DEF Pass, TerminalPoll, Select, ShellPoll, table

LEMMA StepKeepsParents ==
    CoreInv /\ [Next]_vars =>
        ParentsStay \/ \E n, parent \in TaskIds : Fills(n, parent)
<1>1. Natives \subseteq TaskIds
  BY DEF TaskIds
<1>2. UNCHANGED slot => ParentsStay
  BY DEF ParentsStay
<1>3. ASSUME NEW n \in Natives, Load(n) PROVE Fills(n, Root)
  BY <1>3 DEF Load, LauncherIsFree, Fills
<1> QED
  BY <1>1, <1>2, <1>3, RequestsKeepParents, PassKeepsParents, ConstantsAreTyped
     DEF Next, Tick, vars, table

LEMMA StepKeepsFamily == CoreInv /\ Family /\ [Next]_vars => Family'
<1> SUFFICES ASSUME CoreInv, Family, [Next]_vars PROVE Family'
  OBVIOUS
<1>1. CASE ParentsStay
  BY <1>1, ConstantsAreTyped DEF ParentsStay, Family, Spawned, NoTask
<1>2. ASSUME NEW n \in TaskIds, NEW parent \in TaskIds, Fills(n, parent)
      PROVE  Family'
  <2>1. \A u \in TaskIds : slot'[u] = IF u = n THEN NewSlot(parent) ELSE slot[u]
    BY <1>2 DEF Fills, CoreInv, TypeOK
  <2>2. NewSlot(parent).parent = parent
    BY DEF NewSlot, FreeSlot
  <2>3. n \in Natives => n # Spawned
    BY DEF Spawned
  <2> QED
    BY <1>2, <2>1, <2>2, <2>3, ConstantsAreTyped DEF Fills, Family
<1> QED BY <1>1, <1>2, StepKeepsParents

(* An orphan's former parent was task 1, which no step fills, or is task   *)
(* 2's, and then no slot is filled while task 2 is there.                  *)
LEMMA StepAdoptsNobody ==
    ASSUME CoreInv, Family, [Next]_vars, NEW t \in TaskIds, Orphan(t),
           slot'[t].state # "FREE"
    PROVE  slot'[slot[t].parent].state = "FREE"
<1>1. /\ slot[t].state # "FREE" /\ slot[t].parent \in TaskIds
      /\ slot[slot[t].parent].state = "FREE"
  BY DEF Orphan, CoreInv, TypeOK, SlotRecords
<1>2. CASE ParentsStay
  BY <1>1, <1>2 DEF ParentsStay
<1>3. ASSUME NEW n \in TaskIds, NEW parent \in TaskIds, Fills(n, parent)
      PROVE  slot'[slot[t].parent].state = "FREE"
  <2>1. t # Spawned /\ slot[t].parent = Root
    BY <1>1, <1>3 DEF Fills, Family, TaskIds, NoTask
  <2>2. n # Root
    BY <1>3 DEF Fills, Spawned, Root
  <2> QED BY <1>1, <1>3, <2>1, <2>2 DEF Fills, CoreInv, TypeOK
<1> QED BY <1>2, <1>3, StepKeepsParents

(* A slot number is not an identity, yet no orphan becomes the child of    *)
(* the next owner of its parent's number: the loader's refusal to load     *)
(* while task 2 exists (launcher_child_busy) is what prevents it.          *)
THEOREM NoOrphanIsAdopted == Spec => OrphansAreNotAdopted
<1>1. Init => Family
  BY ConstantsAreTyped DEF Init, FreeSlot, Family, Spawned, Root, NoTask
<1>2. CoreInv /\ Family /\ [Next]_vars =>
        [\A t \in TaskIds : Orphan(t) /\ slot'[t].state # "FREE" =>
            slot'[slot[t].parent].state = "FREE"]_vars
  BY StepAdoptsNobody
<1> QED
  BY <1>1, <1>2, StepKeepsFamily, CoreIsInvariant, PTL DEF Spec, OrphansAreNotAdopted

-----------------------------------------------------------------------------
(* Memory is taken with a slot and given back with it, so the only steps   *)
(* to look at are a load and the loader's own poll.                        *)
LEMMA StepKeepsMemory ==
    CoreInv /\ MemoryIsNotShared /\ [Next]_vars => MemoryIsNotShared'
<1> SUFFICES ASSUME CoreInv, MemoryIsNotShared, [Next]_vars PROVE MemoryIsNotShared'
  OBVIOUS
<1>1. Natives \subseteq TaskIds /\ Spawned \notin Natives /\ Joiner # Donor
  BY DEF TaskIds, Spawned, Joiner, Donor
<1>2. ASSUME ParentsStay, UNCHANGED memory PROVE MemoryIsNotShared'
  BY <1>1, <1>2 DEF ParentsStay, MemoryIsNotShared
<1>3. ASSUME NEW t \in TaskIds, Request(t) PROVE MemoryIsNotShared'
  <2>1. UNCHANGED memory
    <3>1. ASSUME NEW operation, Requests(t, operation) PROVE UNCHANGED memory
      BY <3>1 DEF Requests
    <3> QED
      BY <1>3, <3>1 DEF Request, Yield, Sleep, WaitPid, Exit, Cancel, Spawn, Read, Poll,
                        Prompt, Invalid
  <2>2. CASE Fills(Spawned, t)
    <3>1. \A u \in Natives : slot'[u] = slot[u]
      BY <1>1, <2>2 DEF Fills, CoreInv, TypeOK
    <3> QED BY <2>1, <3>1 DEF MemoryIsNotShared
  <2> QED BY <1>2, <1>3, <2>1, <2>2, RequestsKeepParents
<1>4. CASE AppsPoll
  <2> DEFINE ended == {n \in owned : LauncherIsFree /\
                         (slot[n].state = "FREE"
                          \/ (slot[n].state = "ZOMBIE" /\ slot[n].parent = Root))}
  <2>1. /\ \A u \in TaskIds : slot'[u] = IF u \in ended THEN FreeSlot ELSE slot[u]
        /\ owned' = owned \ ended /\ joined' = (joined /\ Joiner \notin ended)
    BY <1>4 DEF AppsPoll
  <2>2. ended \subseteq owned
    OBVIOUS
  <2> HIDE DEF ended
  <2>3. \A n \in Natives : slot'[n].state = "FREE"
                              \/ (n \notin ended /\ slot'[n].state = slot[n].state)
    <3> SUFFICES ASSUME NEW n \in Natives
                 PROVE  slot'[n].state = "FREE"
                          \/ (n \notin ended /\ slot'[n].state = slot[n].state)
      OBVIOUS
    <3>1. slot'[n] = IF n \in ended THEN FreeSlot ELSE slot[n]
      BY <1>1, <2>1
    <3>2. FreeSlot.state = "FREE"
      BY DEF FreeSlot
    <3> QED BY <3>1, <3>2
  <2>4. \A n \in Natives : slot'[n].state # "FREE" => n \in owned'
    BY <2>1, <2>3 DEF MemoryIsNotShared
  <2>5. joined' => Joiner \in owned' /\ Donor \in Natives \ owned' /\ slot'[Donor].state = "FREE"
    BY <2>1, <2>3 DEF MemoryIsNotShared
  <2> QED BY <2>4, <2>5 DEF MemoryIsNotShared
<1>5. ASSUME NEW n \in Natives, Load(n) PROVE MemoryIsNotShared'
  <2>1. \A u \in TaskIds : slot'[u] = IF u = n THEN NewSlot(Root) ELSE slot[u]
    BY <1>5 DEF Load, CoreInv, TypeOK
  <2>2. /\ owned' = owned \cup {n} /\ ~(n = Donor /\ joined)
        /\ joined' => joined \/ (n = Joiner /\ Joinable)
    BY <1>5 DEF Load, CoreInv, TypeOK
  <2> QED BY <1>1, <2>1, <2>2 DEF MemoryIsNotShared, Joinable
<1>6. CASE Pass /\ ~AppsPoll
  <2>1. UNCHANGED memory \/ \E n \in Natives : Load(n)
    BY <1>6 DEF Pass, TerminalPoll, SleepPoll, Select, ShellPoll, terminal
  <2> QED BY <1>2, <1>5, <1>6, <2>1, PassKeepsParents
<1>7. CASE UNCHANGED <<slot, memory>>
  BY <1>7 DEF MemoryIsNotShared
<1> QED
  BY <1>3, <1>4, <1>6, <1>7 DEF Next, Tick, vars, table, terminal

(* No two programs are ever in the same memory: the loader takes the       *)
(* donor's only when nobody is loaded there, and neither loads nor         *)
(* releases the donor while it is lent.                                    *)
THEOREM MemoryStaysApart == Spec => []MemoryIsNotShared
<1>1. Init => MemoryIsNotShared
  <2>1. \A n \in Natives : n \in TaskIds /\ n # Root
    BY DEF TaskIds, Root
  <2>2. ASSUME Init, NEW n \in Natives PROVE slot[n].state = "FREE"
    BY <2>1, <2>2 DEF Init, FreeSlot
  <2>3. Init => joined = FALSE
    BY DEF Init
  <2> QED BY <2>2, <2>3 DEF MemoryIsNotShared
<1> QED
  BY <1>1, StepKeepsMemory, CoreIsInvariant, PTL DEF Spec

-----------------------------------------------------------------------------
(* Keyboard, prompt and readers move the two flags of the terminal, never  *)
(* so that keys are taken while a submitted line waits.                    *)
THEOREM NoLineIsLost == Spec => []NoLineIsOverwritten
<1>1. Init => NoLineIsOverwritten
  BY DEF Init, NoLineIsOverwritten
<1>2. TypeOK /\ NoLineIsOverwritten /\ [Next]_vars => NoLineIsOverwritten'
  <2> SUFFICES ASSUME TypeOK, NoLineIsOverwritten, [Next]_vars
               PROVE  NoLineIsOverwritten'
    OBVIOUS
  <2>1. CASE UNCHANGED <<accepting, lineReady>>
    BY <2>1 DEF NoLineIsOverwritten
  <2>2. ASSUME NEW t \in TaskIds, NEW operation, Requests(t, operation),
               UNCHANGED lineReady, operation # "PROMPT"
        PROVE  NoLineIsOverwritten'
    BY <2>2 DEF Requests, OpensInput, NoLineIsOverwritten
  <2>3. CASE TerminalPoll
    BY <2>3 DEF TerminalPoll, NoLineIsOverwritten
  <2>4. ASSUME NEW t \in TaskIds, Request(t) PROVE NoLineIsOverwritten'
    <3>1. CASE Prompt(t)
      BY <3>1 DEF Prompt, NoLineIsOverwritten
    <3>2. CASE Read(t)
      BY <3>2 DEF Read, Reject, Requests, OpensInput, NoLineIsOverwritten
    <3>3. ASSUME NEW timeout, Poll(t, timeout) PROVE NoLineIsOverwritten'
      BY <2>2, <3>3 DEF Poll, Reject, Block
    <3>4. ASSUME NEW timeout, Sleep(t, timeout) PROVE NoLineIsOverwritten'
      BY <2>2, <3>4 DEF Sleep, Block
    <3>5. ASSUME NEW selector, NEW nohang, WaitPid(t, selector, nohang)
          PROVE  NoLineIsOverwritten'
      BY <2>2, <3>5 DEF WaitPid, Reject, Block
    <3>6. ASSUME NEW target, NEW status, Cancel(t, target, status)
          PROVE  NoLineIsOverwritten'
      BY <2>2, <3>6 DEF Cancel, Reject
    <3>7. CASE Yield(t) \/ Spawn(t) \/ Invalid(t)
      BY <2>2, <3>7 DEF Yield, Spawn, Invalid, Reject
    <3>8. ASSUME NEW status, Exit(t, status) PROVE NoLineIsOverwritten'
      BY <2>2, <3>8 DEF Exit
    <3> QED BY <2>4, <3>1, <3>2, <3>3, <3>4, <3>5, <3>6, <3>7, <3>8 DEF Request
  <2> QED
    BY <2>1, <2>3, <2>4
       DEF Next, Pass, AppsPoll, SleepPoll, Select, ShellPoll, Tick, vars, terminal
<1> QED BY <1>1, <1>2, TasksAreTyped, PTL DEF Spec

-----------------------------------------------------------------------------
(* What each step does to the tasks, one by one.                           *)
Untouched(u) ==
    /\ slot'[u] = slot[u] /\ snapshot'[u] = snapshot[u]
    /\ asked'[u] = asked[u] /\ remaining'[u] = remaining[u]

LEMMA BlockEffect ==
    ASSUME CoreInv, NEW t \in TaskIds, NEW operation, NEW reason, NEW selector,
           NEW timeout, Requests(t, operation),
           Block(t, operation, reason, selector, timeout)
    PROVE  /\ \A u \in TaskIds \ {t} : Untouched(u)
           /\ slot[t].state = "RUNNING" /\ slot'[t].state = "WAITING"
           /\ slot'[t].wait = reason
           /\ slot'[t].parent = slot[t].parent /\ slot'[t].exit = slot[t].exit
           /\ snapshot[t].state = "NONE" /\ snapshot'[t].state = "BLOCKED"
           /\ snapshot'[t].operation = operation /\ snapshot'[t].sequence = t
           /\ snapshot'[t].deadline = IF timeout \in 1 .. MaxTimeout
                                      THEN Deadline(timeout) ELSE 0
           /\ snapshot'[t].infinite = (timeout = Infinite)
           /\ asked'[t] = operation
           /\ remaining'[t] = IF timeout \in 1 .. MaxTimeout THEN timeout ELSE 0
<1>1. slot[t].state = "RUNNING" /\ snapshot[t].state = "NONE"
  BY RequesterRuns
<1>2. /\ \A u \in TaskIds \ {t} : slot'[u] = slot[u]
      /\ slot'[t].state = "WAITING" /\ slot'[t].wait = reason
      /\ slot'[t].parent = slot[t].parent /\ slot'[t].exit = slot[t].exit
  BY DEF Block, CoreInv, TypeOK, SlotRecords
<1>3. /\ \A u \in TaskIds \ {t} : snapshot'[u] = snapshot[u]
      /\ snapshot'[t].state = "BLOCKED"
      /\ snapshot'[t].operation = operation /\ snapshot'[t].sequence = t
      /\ snapshot'[t].deadline = IF timeout \in 1 .. MaxTimeout
                                 THEN Deadline(timeout) ELSE 0
      /\ snapshot'[t].infinite = (timeout = Infinite)
  BY DEF Block, CoreInv, TypeOK, Idle
<1>4. /\ \A u \in TaskIds \ {t} : asked'[u] = asked[u] /\ remaining'[u] = remaining[u]
      /\ asked'[t] = operation
      /\ remaining'[t] = IF timeout \in 1 .. MaxTimeout THEN timeout ELSE 0
  BY DEF Block, CoreInv, TypeOK
<1> QED BY <1>1, <1>2, <1>3, <1>4 DEF Untouched

LEMMA YieldEffect ==
    ASSUME CoreInv, NEW t \in TaskIds, Yield(t)
    PROVE  /\ \A u \in TaskIds \ {t} : Untouched(u)
           /\ slot[t].state = "RUNNING" /\ slot'[t].state = "RUNNABLE"
           /\ slot[t].wait = "NONE" /\ slot'[t].wait = "NONE"
           /\ slot'[t].parent = slot[t].parent /\ slot'[t].exit = slot[t].exit
           /\ snapshot[t].state = "NONE" /\ snapshot'[t] = snapshot[t]
           /\ asked'[t] = "YIELD" /\ remaining'[t] = remaining[t]
<1>1. slot[t].state = "RUNNING" /\ slot[t].wait = "NONE" /\ snapshot[t].state = "NONE"
  BY RequesterRuns DEF Yield
<1>2. /\ \A u \in TaskIds \ {t} : slot'[u] = slot[u]
      /\ slot'[t].state = "RUNNABLE" /\ slot'[t].wait = slot[t].wait
      /\ slot'[t].parent = slot[t].parent /\ slot'[t].exit = slot[t].exit
  BY DEF Yield, CoreInv, TypeOK, SlotRecords
<1> QED BY <1>1, <1>2 DEF Yield, CoreInv, TypeOK, Untouched

(* The end of a task, and with it of the wait of the parent it wakes.      *)
LEMMA ExitEffect ==
    ASSUME CoreInv, NEW t \in TaskIds, NEW status, Exit(t, status), NEW p,
           p = slot[t].parent
    PROVE  /\ slot[t].state = "RUNNING" /\ snapshot[t].state = "NONE"
           /\ snapshot'[t] = snapshot[t] /\ asked' = asked /\ remaining' = remaining
           /\ \/ /\ p \in TaskIds /\ p # t
                 /\ WaitsFor(p, t)
                 /\ slot[p].state = "WAITING" /\ snapshot[p].state = "BLOCKED"
                 /\ snapshot[p].operation = "WAITPID"
                 /\ \A u \in TaskIds \ {t, p} : Untouched(u)
                 /\ slot'[t] = FreeSlot
                 /\ slot'[p].state = "RUNNABLE" /\ slot'[p].wait = "NONE"
                 /\ slot'[p].parent = slot[p].parent /\ slot'[p].exit = slot[p].exit
                 /\ snapshot'[p].state = "READY"
                 /\ snapshot'[p].operation = snapshot[p].operation
                 /\ snapshot'[p].sequence = snapshot[p].sequence
                 /\ snapshot'[p].child = t /\ snapshot'[p].status = status
              \/ /\ ~WaitsFor(p, t)
                 /\ \A u \in TaskIds \ {t} : Untouched(u)
                 /\ slot'[t].state = "ZOMBIE" /\ slot'[t].wait = slot[t].wait
                 /\ slot'[t].parent = p /\ slot'[t].exit = status
<1>1. /\ slot[t].state = "RUNNING" /\ snapshot[t].state = "NONE"
      /\ asked' = asked /\ remaining' = remaining
  BY RequesterRuns DEF Exit
<1>2. CASE /\ WaitsFor(p, t)
           /\ snapshot' = [snapshot EXCEPT ![p].state = "READY", ![p].child = t,
                                           ![p].status = status]
           /\ slot' = [slot EXCEPT ![t] = FreeSlot, ![p].state = "RUNNABLE",
                                   ![p].wait = "NONE"]
  <2>1. /\ p \in TaskIds /\ p # t
        /\ slot[p].state = "WAITING" /\ snapshot[p].state = "BLOCKED"
        /\ slot[p].wait = "CHILD"
    BY <1>1, <1>2 DEF WaitsFor, CoreInv, TypeOK, SlotRecords
  <2>2. snapshot[p].operation = "WAITPID"
    <3>1. Reason(snapshot[p].operation) = "CHILD"
      BY <2>1 DEF CoreInv, WaitsAreRegistered
    <3>2. snapshot[p].operation \in {"NONE", "WAITPID", "SLEEP", "POLL"}
      BY <2>1 DEF CoreInv, TypeOK, Snapshots, BlockingOperations
    <3> QED BY <3>1, <3>2 DEF Reason
  <2>3. /\ \A u \in TaskIds \ {t, p} : slot'[u] = slot[u]
        /\ slot'[t] = FreeSlot
        /\ slot'[p].state = "RUNNABLE" /\ slot'[p].wait = "NONE"
        /\ slot'[p].parent = slot[p].parent /\ slot'[p].exit = slot[p].exit
    BY <1>2, <2>1 DEF CoreInv, TypeOK, SlotRecords
  <2>4. /\ \A u \in TaskIds \ {p} : snapshot'[u] = snapshot[u]
        /\ snapshot'[p].state = "READY"
        /\ snapshot'[p].operation = snapshot[p].operation
        /\ snapshot'[p].sequence = snapshot[p].sequence
        /\ snapshot'[p].child = t /\ snapshot'[p].status = status
    BY <1>2, <2>1 DEF CoreInv, TypeOK, Snapshots
  <2> QED BY <1>1, <1>2, <2>1, <2>2, <2>3, <2>4 DEF Untouched
<1>3. CASE /\ ~WaitsFor(p, t)
           /\ slot' = [slot EXCEPT ![t].state = "ZOMBIE", ![t].exit = status]
           /\ UNCHANGED snapshot
  <2>1. /\ \A u \in TaskIds \ {t} : slot'[u] = slot[u]
        /\ slot'[t].state = "ZOMBIE" /\ slot'[t].wait = slot[t].wait
        /\ slot'[t].parent = p /\ slot'[t].exit = status
    BY <1>3 DEF CoreInv, TypeOK, SlotRecords
  <2> QED BY <1>1, <1>3, <2>1 DEF Untouched
<1> QED BY <1>2, <1>3 DEF Exit

LEMMA CancelEffect ==
    ASSUME CoreInv, NEW t \in TaskIds, NEW target, NEW status,
           Cancel(t, target, status), ~Reject(t, "CANCEL")
    PROVE  /\ target \in TaskIds /\ target # t /\ slot[target].parent = t /\ Live(target)
           /\ slot[t].state = "RUNNING"
           /\ \A u \in TaskIds \ {target} : Untouched(u)
           /\ slot'[target].state = "ZOMBIE" /\ slot'[target].wait = "NONE"
           /\ slot'[target].parent = t /\ slot'[target].exit = status
           /\ snapshot'[target] = Idle /\ asked'[target] = "NONE"
           /\ remaining'[target] = 0 /\ answer' = NoAnswer
<1>1. /\ target \in TaskIds /\ target # t /\ slot[target].parent = t /\ Live(target)
      /\ slot' = [slot EXCEPT ![target].state = "ZOMBIE", ![target].wait = "NONE",
                              ![target].exit = status]
      /\ snapshot' = [snapshot EXCEPT ![target] = Idle]
      /\ asked' = [asked EXCEPT ![target] = "NONE"]
      /\ remaining' = [remaining EXCEPT ![target] = 0]
      /\ answer' = NoAnswer
  BY DEF Cancel, MayCancel, IsChild, Cancelled
<1>2. slot[t].state = "RUNNING"
  BY RequesterRuns DEF Cancel
<1>3. /\ \A u \in TaskIds \ {target} : slot'[u] = slot[u]
      /\ slot'[target].state = "ZOMBIE" /\ slot'[target].wait = "NONE"
      /\ slot'[target].parent = t /\ slot'[target].exit = status
  BY <1>1 DEF CoreInv, TypeOK, SlotRecords
<1> QED BY <1>1, <1>2, <1>3 DEF CoreInv, TypeOK, Untouched

(* Reaping a zombie, and filling a free slot.                              *)
LEMMA ReapEffect ==
    ASSUME CoreInv, NEW t \in TaskIds, NEW operation, NEW c \in TaskIds,
           slot' = [slot EXCEPT ![c] = FreeSlot], UNCHANGED snapshot,
           Respond(t, operation, "COMPLETE")
    PROVE  /\ \A u \in TaskIds \ {c} : Untouched(u)
           /\ slot'[c] = FreeSlot /\ snapshot'[c] = snapshot[c]
           /\ asked'[c] = asked[c] /\ remaining'[c] = remaining[c]
BY DEF CoreInv, TypeOK, Untouched, Respond

LEMMA BirthEffect ==
    ASSUME CoreInv, NEW c \in TaskIds, NEW parent,
           slot' = [slot EXCEPT ![c] = NewSlot(parent)],
           snapshot' = [snapshot EXCEPT ![c] = Idle], UNCHANGED <<asked, remaining>>
    PROVE  /\ \A u \in TaskIds \ {c} : Untouched(u)
           /\ slot'[c] = NewSlot(parent) /\ snapshot'[c] = Idle
           /\ asked'[c] = asked[c] /\ remaining'[c] = remaining[c]
           /\ NewSlot(parent).state = "RUNNABLE" /\ NewSlot(parent).wait = "NONE"
           /\ NewSlot(parent).parent = parent
BY DEF CoreInv, TypeOK, Untouched, NewSlot, FreeSlot

LEMMA AppsPollEffect ==
    ASSUME CoreInv, AppsPoll
    PROVE  \A u \in TaskIds :
              \/ Untouched(u)
              \/ /\ slot[u].state = "FREE"
                    \/ (slot[u].state = "ZOMBIE" /\ slot[u].parent = Root)
                 /\ slot'[u] = FreeSlot /\ snapshot'[u] = Idle
                 /\ asked'[u] = asked[u] /\ remaining'[u] = remaining[u]
<1> DEFINE ended == {n \in owned : LauncherIsFree /\
                       (slot[n].state = "FREE"
                        \/ (slot[n].state = "ZOMBIE" /\ slot[n].parent = Root))}
<1>1. /\ \A u \in TaskIds : /\ slot'[u] = IF u \in ended THEN FreeSlot ELSE slot[u]
                            /\ snapshot'[u] = IF u \in ended THEN Idle ELSE snapshot[u]
      /\ asked' = asked /\ remaining' = remaining
  BY DEF AppsPoll, clock
<1>2. \A u \in ended : slot[u].state = "FREE"
                          \/ (slot[u].state = "ZOMBIE" /\ slot[u].parent = Root)
  OBVIOUS
<1> HIDE DEF ended
<1> QED BY <1>1, <1>2 DEF Untouched

LEMMA SleepPollEffect ==
    ASSUME CoreInv, SleepPoll
    PROVE  /\ asked' = asked /\ ticks' = ticks
           /\ \A u \in TaskIds :
                IF IsDue(u)
                THEN /\ slot[u].state = "WAITING" /\ snapshot[u].state = "BLOCKED"
                     /\ slot'[u].state = "RUNNABLE" /\ slot'[u].wait = "NONE"
                     /\ slot'[u].parent = slot[u].parent /\ slot'[u].exit = slot[u].exit
                     /\ snapshot'[u].state = "READY"
                     /\ snapshot[u].operation \in {"SLEEP", "POLL"}
                     /\ snapshot'[u].operation = snapshot[u].operation
                     /\ snapshot'[u].sequence = snapshot[u].sequence
                     /\ snapshot'[u].ready = (snapshot[u].operation = "POLL" /\ lineReady)
                ELSE Untouched(u)
<1>1. asked' = asked /\ ticks' = ticks
  BY DEF SleepPoll
<1>2. ASSUME NEW u \in TaskIds, ~IsDue(u)
      PROVE  Untouched(u)
  BY <1>2 DEF SleepPoll, Untouched
<1>3. ASSUME NEW u \in TaskIds, IsDue(u)
      PROVE  /\ slot[u].state = "WAITING" /\ snapshot[u].state = "BLOCKED"
             /\ snapshot[u].operation \in {"SLEEP", "POLL"}
             /\ slot'[u].state = "RUNNABLE" /\ slot'[u].wait = "NONE"
             /\ slot'[u].parent = slot[u].parent /\ slot'[u].exit = slot[u].exit
             /\ snapshot'[u].state = "READY"
             /\ snapshot'[u].operation = snapshot[u].operation
             /\ snapshot'[u].sequence = snapshot[u].sequence
             /\ snapshot'[u].ready = (snapshot[u].operation = "POLL" /\ lineReady)
  <2>1. slot[u] \in SlotRecords /\ snapshot[u] \in Snapshots
    BY DEF CoreInv, TypeOK
  <2>2. /\ slot'[u] = [slot[u] EXCEPT !.state = "RUNNABLE", !.wait = "NONE"]
        /\ snapshot'[u] = Woken(snapshot[u])
    BY <1>3 DEF SleepPoll
  <2>3. /\ slot[u].state = "WAITING" /\ snapshot[u].state = "BLOCKED"
        /\ snapshot[u].operation \in {"SLEEP", "POLL"}
    BY <1>3 DEF IsDue
  <2> QED BY <2>1, <2>2, <2>3 DEF SlotRecords, Snapshots, Woken
<1> QED BY <1>1, <1>2, <1>3

(* A dispatched task takes its response with it; nobody else is touched.   *)
Dispatches(t) ==
    /\ \A u \in TaskIds \ {t} : Untouched(u)
    /\ slot[t].state = "RUNNABLE" /\ slot'[t].state = "RUNNING"
    /\ slot[t].wait = "NONE" /\ slot'[t].wait = "NONE"
    /\ slot'[t].parent = slot[t].parent /\ slot'[t].exit = slot[t].exit
    /\ asked'[t] = "NONE" /\ remaining'[t] = remaining[t]
    /\ current' = t
    /\ \/ /\ snapshot[t].state = "READY" /\ snapshot'[t] = Idle
          /\ record' = Published(snapshot[t])
          /\ answer' = IF snapshot[t].operation = "WAITPID"
                       THEN Answer(t, snapshot[t].child, snapshot[t].status)
                       ELSE NoAnswer
       \/ /\ snapshot[t].state = "NONE" /\ snapshot'[t] = snapshot[t]
          /\ record' = record /\ answer' = NoAnswer

LEMMA DispatchEffect ==
    ASSUME CoreInv, NEW t \in TaskIds, t = Scheduler!SelectNext(ScanFrom, Runnable),
           slot' = [slot EXCEPT ![t].state = "RUNNING"], current' = t, Publish(t),
           UNCHANGED clock
    PROVE  Dispatches(t)
<1>1. slot[t].state = "RUNNABLE"
  BY SelectedIsRunnable DEF ScanFrom, CoreInv, Runnable
<1>2. slot[t].wait = "NONE" /\ snapshot[t].state \in {"NONE", "READY"}
  BY <1>1 DEF CoreInv, TypeOK, Snapshots, WaitsAreRegistered
<1>3. /\ \A u \in TaskIds \ {t} : slot'[u] = slot[u]
      /\ slot'[t].state = "RUNNING" /\ slot'[t].wait = slot[t].wait
      /\ slot'[t].parent = slot[t].parent /\ slot'[t].exit = slot[t].exit
  BY DEF CoreInv, TypeOK, SlotRecords
<1>4. /\ \A u \in TaskIds \ {t} : snapshot'[u] = snapshot[u] /\ asked'[u] = asked[u]
      /\ asked'[t] = "NONE" /\ remaining' = remaining
  BY DEF CoreInv, TypeOK, Publish, clock
<1>5. CASE snapshot[t].state = "READY"
  BY <1>1, <1>2, <1>3, <1>4, <1>5 DEF CoreInv, TypeOK, Publish, Dispatches, Untouched
<1>6. CASE snapshot[t].state = "NONE"
  BY <1>1, <1>2, <1>3, <1>4, <1>6 DEF CoreInv, TypeOK, Publish, Dispatches, Untouched
<1> QED BY <1>2, <1>5, <1>6

-----------------------------------------------------------------------------
(* What a suspended task awaits is in its snapshot, under its own number,  *)
(* and a task that awaits nothing has none; a task that is not suspended   *)
(* awaits nothing.  The entry of the bootstrapped shell publishes nothing, *)
(* for the shell is what the scan starts from.                             *)
Remembered(t) ==
    /\ slot[t].state \notin {"WAITING", "RUNNABLE"} => asked[t] = "NONE"
    /\ asked[t] \in BlockingOperations =>
          /\ snapshot[t].state # "NONE"
          /\ snapshot[t].operation = asked[t] /\ snapshot[t].sequence = t
    /\ asked[t] \notin BlockingOperations => snapshot[t].state = "NONE"

RequestsAreRemembered == \A t \in TaskIds : Remembered(t)
ShellIsFirst == ~entered => selected = Root

LEMMA UntouchedStaysRemembered ==
    ASSUME NEW u, Remembered(u), Untouched(u)
    PROVE  Remembered(u)'
BY DEF Remembered, Untouched

(* A slot is freed, or reused, only when its task awaits nothing.          *)
LEMMA IdleIsRemembered ==
    ASSUME NEW u \in TaskIds, Remembered(u), asked'[u] \in {"NONE", asked[u]},
           slot[u].state \notin {"WAITING", "RUNNABLE"} \/ asked'[u] = "NONE",
           snapshot'[u] \in {snapshot[u], Idle}, snapshot'[u].state = "NONE"
    PROVE  Remembered(u)'
BY DEF Remembered, Idle, BlockingOperations

LEMMA RequestKeepsRemembered ==
    ASSUME CoreInv, RequestsAreRemembered, NEW t \in TaskIds, Request(t)
    PROVE  RequestsAreRemembered'
<1>1. ASSUME \A u \in TaskIds : Untouched(u)
      PROVE  RequestsAreRemembered'
  BY <1>1, UntouchedStaysRemembered DEF RequestsAreRemembered
<1>2. ASSUME NEW operation, NEW state, Respond(t, operation, state),
             UNCHANGED <<slot, snapshot>>
      PROVE  RequestsAreRemembered'
  BY <1>1, <1>2 DEF Respond, Untouched
<1>3. ASSUME NEW operation, Reject(t, operation)
      PROVE  RequestsAreRemembered'
  BY <1>2, <1>3 DEF Reject
<1>4. ASSUME NEW u \in TaskIds, \A v \in TaskIds \ {u} : Untouched(v), Remembered(u)'
      PROVE  RequestsAreRemembered'
  BY <1>4, UntouchedStaysRemembered DEF RequestsAreRemembered
<1>5. ASSUME NEW operation \in BlockingOperations, NEW reason, NEW selector, NEW timeout,
             Requests(t, operation), Block(t, operation, reason, selector, timeout)
      PROVE  RequestsAreRemembered'
  <2>1. Remembered(t)'
    BY <1>5, BlockEffect DEF Remembered
  <2> QED BY <1>4, <1>5, <2>1, BlockEffect
<1>6. CASE Yield(t)
  <2>1. Remembered(t)'
    BY <1>6, YieldEffect DEF Remembered, BlockingOperations
  <2> QED BY <1>4, <1>6, <2>1, YieldEffect
<1>7. ASSUME NEW selector, NEW nohang, WaitPid(t, selector, nohang)
      PROVE  RequestsAreRemembered'
  <2>1. ASSUME NEW c \in Zombies(t, selector), slot' = [slot EXCEPT ![c] = FreeSlot],
               UNCHANGED snapshot, Respond(t, "WAITPID", "COMPLETE")
        PROVE  RequestsAreRemembered'
    <3>1. c \in TaskIds /\ slot[c].state = "ZOMBIE"
      BY <2>1 DEF Zombies, Children
    <3>2. slot'[c] = FreeSlot /\ snapshot'[c] = snapshot[c] /\ asked'[c] = asked[c]
      BY <2>1, <3>1, ReapEffect
    <3>3. Remembered(c)'
      BY <3>1, <3>2 DEF RequestsAreRemembered, Remembered
    <3> QED BY <1>4, <2>1, <3>1, <3>3, ReapEffect
  <2>2. CASE Block(t, "WAITPID", "CHILD", selector, 0)
    BY <1>5, <1>7, <2>2 DEF WaitPid, BlockingOperations
  <2> QED BY <1>2, <1>3, <1>7, <2>1, <2>2 DEF WaitPid
<1>8. ASSUME NEW status, Exit(t, status)
      PROVE  RequestsAreRemembered'
  <2> SUFFICES ASSUME NEW p, p = slot[t].parent PROVE RequestsAreRemembered'
    OBVIOUS
  <2>1. Remembered(t)'
    <3>1. /\ slot[t].state = "RUNNING" /\ snapshot'[t] = snapshot[t]
          /\ asked' = asked /\ slot'[t].state \in {"FREE", "ZOMBIE"}
      BY <1>8, ExitEffect DEF FreeSlot
    <3> QED BY <3>1 DEF RequestsAreRemembered, Remembered
  <2>2. CASE \A u \in TaskIds \ {t} : Untouched(u)
    BY <1>4, <2>1, <2>2
  <2>3. CASE /\ p \in TaskIds /\ p # t
             /\ \A u \in TaskIds \ {t, p} : Untouched(u)
             /\ slot[p].state = "WAITING" /\ slot'[p].state = "RUNNABLE"
             /\ snapshot[p].state = "BLOCKED" /\ snapshot'[p].state = "READY"
             /\ snapshot'[p].operation = snapshot[p].operation
             /\ snapshot'[p].sequence = snapshot[p].sequence
             /\ asked' = asked
    <3>1. Remembered(p)'
      BY <2>3 DEF RequestsAreRemembered, Remembered
    <3> QED
      BY <2>1, <2>3, <3>1, UntouchedStaysRemembered DEF RequestsAreRemembered
  <2> QED BY <1>8, <2>2, <2>3, ExitEffect
<1>9. ASSUME NEW target, NEW status, Cancel(t, target, status)
      PROVE  RequestsAreRemembered'
  <2>1. CASE ~Reject(t, "CANCEL")
    <3>1. Remembered(target)'
      BY <1>9, <2>1, CancelEffect DEF Remembered, Idle, BlockingOperations
    <3> QED BY <1>4, <1>9, <2>1, <3>1, CancelEffect
  <2> QED BY <1>3, <2>1
<1>10. CASE Spawn(t)
  <2>1. CASE ~Reject(t, "SPAWN")
    <3>1. /\ slot[Spawned].state = "FREE"
          /\ slot' = [slot EXCEPT ![Spawned] = NewSlot(t)]
          /\ snapshot' = [snapshot EXCEPT ![Spawned] = Idle]
          /\ UNCHANGED <<asked, remaining>>
      BY <1>10, <2>1 DEF Spawn, Respond
    <3>2. Remembered(Spawned)'
      <4>1. Spawned \in TaskIds
        BY ConstantsAreTyped
      <4>2. asked'[Spawned] = asked[Spawned] /\ snapshot'[Spawned] = Idle
        BY <3>1, <4>1, BirthEffect
      <4> QED
        BY <3>1, <4>1, <4>2, IdleIsRemembered DEF RequestsAreRemembered, Idle
    <3> QED BY <1>4, <3>1, <3>2, ConstantsAreTyped, BirthEffect
  <2> QED BY <1>3, <2>1
<1>11. CASE \E timeout \in 1 .. MaxTimeout : Sleep(t, timeout)
  BY <1>5, <1>11 DEF Sleep, BlockingOperations
<1>12. ASSUME NEW timeout, Poll(t, timeout)
       PROVE  RequestsAreRemembered'
  BY <1>2, <1>3, <1>5, <1>12 DEF Poll, BlockingOperations
<1>13. CASE Read(t) \/ Prompt(t) \/ Invalid(t)
  BY <1>2, <1>3, <1>13 DEF Read, Prompt, Invalid
<1> QED
  BY <1>6, <1>7, <1>8, <1>9, <1>10, <1>11, <1>12, <1>13 DEF Request

LEMMA PassKeepsRemembered ==
    ASSUME CoreInv, ShellIsFirst, RequestsAreRemembered, Pass
    PROVE  RequestsAreRemembered'
<1>1. ASSUME UNCHANGED <<slot, snapshot, asked>>
      PROVE  RequestsAreRemembered'
  BY <1>1 DEF RequestsAreRemembered, Remembered
<1>2. CASE AppsPoll
  <2> SUFFICES ASSUME NEW u \in TaskIds PROVE Remembered(u)'
    BY DEF RequestsAreRemembered
  <2>1. Remembered(u)
    BY DEF RequestsAreRemembered
  <2>2. CASE Untouched(u)
    BY <2>1, <2>2, UntouchedStaysRemembered
  <2>3. CASE /\ slot[u].state \in {"FREE", "ZOMBIE"}
             /\ snapshot'[u] = Idle /\ asked'[u] = asked[u]
    BY <2>1, <2>3, IdleIsRemembered DEF Idle
  <2> QED BY <1>2, <2>2, <2>3, AppsPollEffect
<1>3. CASE SleepPoll
  <2> SUFFICES ASSUME NEW u \in TaskIds PROVE Remembered(u)'
    BY DEF RequestsAreRemembered
  <2>1. Remembered(u)
    BY DEF RequestsAreRemembered
  <2>2. CASE ~IsDue(u)
    BY <1>3, <2>1, <2>2, UntouchedStaysRemembered, SleepPollEffect
  <2>3. CASE IsDue(u)
    <3>1. /\ slot'[u].state = "RUNNABLE" /\ asked'[u] = asked[u]
          /\ snapshot[u].state = "BLOCKED" /\ snapshot'[u].state = "READY"
          /\ snapshot'[u].operation = snapshot[u].operation
          /\ snapshot'[u].sequence = snapshot[u].sequence
      BY <1>3, <2>3, SleepPollEffect
    <3> QED BY <2>1, <3>1 DEF Remembered
  <2> QED BY <2>2, <2>3
<1>4. CASE ~entered /\ Publish(selected) /\ slot' = slot
  <2>1. selected = Root /\ Root \in TaskIds /\ slot[Root].state = "RUNNING"
    BY <1>4, ConstantsAreTyped DEF ShellIsFirst, CoreInv, Entry, OneRunner
  <2>2. asked[Root] = "NONE" /\ snapshot[Root].state = "NONE"
    BY <2>1 DEF RequestsAreRemembered, Remembered, BlockingOperations
  <2>3. snapshot' = snapshot /\ asked' = asked
    BY <1>4, <2>1, <2>2 DEF Publish, CoreInv, TypeOK
  <2> QED BY <1>1, <1>4, <2>3
<1>5. ASSUME NEW t \in TaskIds, Dispatches(t)
      PROVE  RequestsAreRemembered'
  <2>1. Remembered(t)'
    BY <1>5 DEF Dispatches, Remembered, Idle, BlockingOperations
  <2> QED BY <1>5, <2>1, UntouchedStaysRemembered DEF RequestsAreRemembered, Dispatches
<1>6. ASSUME NEW n \in Natives, Load(n), UNCHANGED <<asked, clock>>
      PROVE  RequestsAreRemembered'
  <2>1. n \in TaskIds /\ slot[n].state = "FREE"
    BY <1>6 DEF TaskIds, Load
  <2>2. /\ \A u \in TaskIds \ {n} : Untouched(u)
        /\ asked'[n] = asked[n] /\ snapshot'[n] = Idle
    BY <1>6, <2>1, BirthEffect DEF Load, clock
  <2>3. Remembered(n)'
    BY <2>1, <2>2, IdleIsRemembered DEF RequestsAreRemembered, Idle
  <2> QED BY <2>2, <2>3, UntouchedStaysRemembered DEF RequestsAreRemembered
<1>7. CASE Select
  BY <1>1, <1>4, <1>5, <1>7, DispatchEffect DEF Select
<1>8. CASE ShellPoll
  BY <1>1, <1>6, <1>8 DEF ShellPoll
<1>9. CASE TerminalPoll
  BY <1>1, <1>9 DEF TerminalPoll, table
<1> QED BY <1>2, <1>3, <1>7, <1>8, <1>9 DEF Pass

LEMMA StepKeepsShellFirst == CoreInv /\ ShellIsFirst /\ [Next]_vars => ShellIsFirst'
<1> SUFFICES ASSUME CoreInv, ShellIsFirst, [Next]_vars PROVE ShellIsFirst'
  OBVIOUS
<1>1. CASE UNCHANGED <<entered, selected>>
  BY <1>1 DEF ShellIsFirst
<1>2. ASSUME NEW t \in TaskIds, Request(t) PROVE UNCHANGED <<entered, selected>>
  <2>1. ASSUME NEW operation, Requests(t, operation) PROVE UNCHANGED <<entered, selected>>
    BY <2>1 DEF Requests
  <2> QED
    BY <1>2, <2>1 DEF Request, Yield, Sleep, WaitPid, Exit, Cancel, Spawn, Read, Poll,
                      Prompt, Invalid
<1>3. CASE Select
  BY <1>3 DEF Select, ShellIsFirst
<1> QED
  BY <1>1, <1>2, <1>3
     DEF Next, Pass, TerminalPoll, AppsPoll, SleepPoll, ShellPoll, Tick, vars

MemoryInv == CoreInv /\ ShellIsFirst /\ RequestsAreRemembered

THEOREM RequestsStayRemembered == Spec => []MemoryInv
<1>1. Init => MemoryInv
  <2> SUFFICES ASSUME Init PROVE ShellIsFirst /\ RequestsAreRemembered
    BY InitKeepsCore DEF MemoryInv
  <2>1. \A t \in TaskIds : asked[t] = "NONE" /\ snapshot[t].state = "NONE"
    BY DEF Init, Idle
  <2> QED
    BY <2>1 DEF Init, ShellIsFirst, RequestsAreRemembered, Remembered, BlockingOperations
<1>2. MemoryInv /\ [Next]_vars => MemoryInv'
  <2> SUFFICES ASSUME MemoryInv, [Next]_vars PROVE RequestsAreRemembered'
    BY StepKeepsCore, StepKeepsShellFirst DEF MemoryInv
  <2>1. CASE UNCHANGED <<slot, snapshot, asked>>
    BY <2>1 DEF MemoryInv, RequestsAreRemembered, Remembered
  <2> QED
    BY <2>1, RequestKeepsRemembered, PassKeepsRemembered
       DEF MemoryInv, Next, Tick, vars, table
<1> QED BY <1>1, <1>2, PTL DEF Spec

(* Though all tasks share one record, a task that was blocked finds in it, *)
(* when it next runs, the response to the very request it made, whatever   *)
(* was asked and answered in the meantime (udeks_task_wait_publish_current *)
(* is the only writer between its selection and its first instruction);    *)
(* a task that awaits nothing, newborn in a used slot or back from a       *)
(* YIELD, is given no response at all.                                     *)
THEOREM AskersGetTheirResponse == Spec => ResponseReachesAsker
<1> DEFINE Own(t) == [sequence |-> t, operation |-> asked[t], state |-> "COMPLETE"]
           Reaches ==
             \A t \in TaskIds :
                 (current # t /\ current' = t) =>
                     record' = IF asked[t] \in BlockingOperations THEN Own(t) ELSE record
<1>1. MemoryInv /\ [Next]_vars => [Reaches]_vars
  <2> SUFFICES ASSUME MemoryInv, Next, NEW t \in TaskIds, current # t, current' = t
               PROVE  record' = IF asked[t] \in BlockingOperations THEN Own(t)
                                ELSE record
    OBVIOUS
  <2>1. ASSUME NEW u \in TaskIds, Request(u) PROVE FALSE
    <3>1. u # NoTask /\ t # NoTask
      BY DEF TaskIds, NoTask
    <3>2. current' \in {current, NoTask}
      BY <2>1
         DEF Request, Yield, Sleep, WaitPid, Exit, Cancel, Spawn, Read, Poll, Prompt,
             Invalid, Reject, Respond, Block, Suspend
    <3> QED BY <3>1, <3>2
  <2>2. CASE Select
    <3>1. current' = current \/ Dispatches(t)
      BY <2>2, DispatchEffect DEF Select, MemoryInv
    <3>2. Dispatches(t)
      BY <3>1
    <3>3. Remembered(t)
      BY DEF MemoryInv, RequestsAreRemembered
    <3>4. CASE asked[t] \in BlockingOperations
      <4>1. /\ snapshot[t].state # "NONE"
            /\ snapshot[t].operation = asked[t] /\ snapshot[t].sequence = t
        BY <3>3, <3>4 DEF Remembered
      <4> QED BY <3>2, <3>4, <4>1 DEF Dispatches, Published
    <3>5. CASE asked[t] \notin BlockingOperations
      <4>1. snapshot[t].state = "NONE"
        BY <3>3, <3>5 DEF Remembered
      <4> QED BY <3>2, <3>5, <4>1 DEF Dispatches
    <3> QED BY <3>4, <3>5
  <2>3. TerminalPoll \/ AppsPoll \/ SleepPoll \/ ShellPoll \/ Tick => current' = current
    BY DEF TerminalPoll, AppsPoll, SleepPoll, ShellPoll, Tick, table
  <2> QED BY <2>1, <2>2, <2>3 DEF Next, Pass
<1> QED BY <1>1, RequestsStayRemembered, PTL DEF Spec, ResponseReachesAsker

-----------------------------------------------------------------------------
(* The counter wraps once at most in the sums of this code.                *)
LEMMA WrapOnce ==
    ASSUME NEW m \in Nat, m > 0, NEW n \in Int, -m <= n, n < 2 * m
    PROVE  n % m = IF n < 0 THEN n + m ELSE IF n < m THEN n ELSE n - m
<1>1. CASE n < 0
  BY <1>1
<1>2. CASE n >= 0 /\ n < m
  BY <1>2
<1>3. CASE n >= m
  BY <1>3
<1> QED BY <1>1, <1>2, <1>3

LEMMA HalfOfModulus ==
    /\ HalfModulus \in Nat
    /\ TickModulus = 1 => HalfModulus = 0
    /\ TickModulus # 1 => TickModulus = 2 * HalfModulus
BY DEF HalfModulus

(* A deadline is the time left to it ahead of the counter, or behind it,   *)
(* but for one wrap.                                                       *)
TimerAgrees(t) ==
    IsTimed(t) =>
        /\ remaining[t] \in 1 - HalfModulus .. MaxTimeout
        /\ snapshot[t].deadline - ticks - remaining[t] \in {-TickModulus, 0, TickModulus}

TimersAgree == \A t \in TaskIds : TimerAgrees(t)

LEMMA UntouchedTimerAgrees ==
    ASSUME NEW u, TimerAgrees(u), Untouched(u), ticks' = ticks
    PROVE  TimerAgrees(u)'
BY DEF TimerAgrees, IsTimed, Untouched

LEMMA RequestKeepsTimers ==
    ASSUME CoreInv, TimersAgree, NEW t \in TaskIds, Request(t)
    PROVE  TimersAgree'
<1>1. ticks' = ticks
  <2>1. ASSUME NEW operation, Requests(t, operation) PROVE ticks' = ticks
    BY <2>1 DEF Requests
  <2> QED
    BY <2>1 DEF Request, Yield, Sleep, WaitPid, Exit, Cancel, Spawn, Read, Poll, Prompt,
                Invalid
<1>2. ASSUME NEW operation, NEW state, Respond(t, operation, state),
             UNCHANGED <<slot, snapshot>>
      PROVE  TimersAgree'
  BY <1>1, <1>2 DEF Respond, TimersAgree, TimerAgrees, IsTimed
<1>3. ASSUME NEW operation, Reject(t, operation)
      PROVE  TimersAgree'
  BY <1>2, <1>3 DEF Reject
<1>4. ASSUME NEW u \in TaskIds, \A v \in TaskIds \ {u} : Untouched(v), TimerAgrees(u)'
      PROVE  TimersAgree'
  BY <1>1, <1>4, UntouchedTimerAgrees DEF TimersAgree
<1>5. ASSUME NEW operation, NEW reason, NEW selector, NEW timeout,
             \/ timeout \in 1 .. MaxTimeout
             \/ timeout = Infinite /\ operation = "POLL"
             \/ operation = "WAITPID",
             Requests(t, operation), Block(t, operation, reason, selector, timeout)
      PROVE  TimersAgree'
  <2>1. CASE timeout \in 1 .. MaxTimeout
    <3>1. /\ snapshot'[t].deadline = (ticks + timeout) % TickModulus
          /\ remaining'[t] = timeout
      BY <1>5, <2>1, BlockEffect DEF Deadline
    <3>2. ticks \in 0 .. TickModulus - 1 /\ timeout <= HalfModulus
      BY <2>1 DEF CoreInv, TypeOK, HalfModulus
    <3>3. (ticks + timeout) % TickModulus
             = IF ticks + timeout < TickModulus THEN ticks + timeout
               ELSE ticks + timeout - TickModulus
      BY <2>1, <3>2, HalfOfModulus, WrapOnce
    <3>4. timeout \in 1 - HalfModulus .. MaxTimeout
      BY <2>1, <3>2, HalfOfModulus
    <3>5. snapshot'[t].deadline - ticks' - remaining'[t] \in {-TickModulus, 0}
      BY <1>1, <2>1, <3>1, <3>2, <3>3
    <3>6. TimerAgrees(t)'
      BY <3>1, <3>4, <3>5 DEF TimerAgrees
    <3> QED BY <1>4, <1>5, <3>6, BlockEffect
  <2>2. CASE (timeout = Infinite /\ operation = "POLL") \/ operation = "WAITPID"
    <3>1. /\ snapshot'[t].operation = operation
          /\ snapshot'[t].infinite = (timeout = Infinite)
      BY <1>5, BlockEffect
    <3>2. TimerAgrees(t)'
      BY <2>2, <3>1 DEF TimerAgrees, IsTimed
    <3> QED BY <1>4, <1>5, <3>2, BlockEffect
  <2> QED BY <1>5, <2>1, <2>2
<1>6. CASE Yield(t)
  <2>1. TimerAgrees(t)'
    BY <1>6, YieldEffect DEF TimerAgrees, IsTimed
  <2> QED BY <1>4, <1>6, <2>1, YieldEffect
<1>7. ASSUME NEW selector, NEW nohang, WaitPid(t, selector, nohang)
      PROVE  TimersAgree'
  <2>1. ASSUME NEW c \in Zombies(t, selector), slot' = [slot EXCEPT ![c] = FreeSlot],
               UNCHANGED snapshot, Respond(t, "WAITPID", "COMPLETE")
        PROVE  TimersAgree'
    BY <1>1, <2>1 DEF Respond, TimersAgree, TimerAgrees, IsTimed
  <2>2. CASE Block(t, "WAITPID", "CHILD", selector, 0)
    BY <1>5, <1>7, <2>2 DEF WaitPid
  <2> QED BY <1>2, <1>3, <1>7, <2>1, <2>2 DEF WaitPid
<1>8. ASSUME NEW status, Exit(t, status)
      PROVE  TimersAgree'
  <2> SUFFICES ASSUME NEW p, p = slot[t].parent, NEW u \in TaskIds PROVE TimerAgrees(u)'
    BY DEF TimersAgree
  <2>1. CASE Untouched(u)
    BY <1>1, <2>1, UntouchedTimerAgrees DEF TimersAgree
  <2>2. CASE ~Untouched(u)
    <3>1. u = t \/ u = p
      BY <1>8, <2>2, ExitEffect
    <3>2. snapshot'[u].state # "BLOCKED"
      BY <1>8, <2>2, <3>1, ExitEffect
    <3> QED BY <3>2 DEF TimerAgrees, IsTimed
  <2> QED BY <2>1, <2>2
<1>9. ASSUME NEW target, NEW status, Cancel(t, target, status)
      PROVE  TimersAgree'
  <2>1. CASE ~Reject(t, "CANCEL")
    <3>1. TimerAgrees(target)'
      BY <1>9, <2>1, CancelEffect DEF TimerAgrees, IsTimed, Idle
    <3> QED BY <1>4, <1>9, <2>1, <3>1, CancelEffect
  <2> QED BY <1>3, <2>1
<1>10. CASE Spawn(t)
  <2>1. CASE ~Reject(t, "SPAWN")
    <3>1. /\ slot' = [slot EXCEPT ![Spawned] = NewSlot(t)]
          /\ snapshot' = [snapshot EXCEPT ![Spawned] = Idle]
          /\ UNCHANGED <<asked, remaining>>
      BY <1>10, <2>1 DEF Spawn, Respond
    <3>2. Spawned \in TaskIds
      BY ConstantsAreTyped
    <3>3. snapshot'[Spawned] = Idle /\ \A u \in TaskIds \ {Spawned} : Untouched(u)
      BY <3>1, <3>2, BirthEffect
    <3>4. TimerAgrees(Spawned)'
      BY <3>3 DEF TimerAgrees, IsTimed, Idle
    <3> QED BY <1>4, <3>2, <3>3, <3>4
  <2> QED BY <1>3, <2>1
<1>11. ASSUME NEW timeout \in 1 .. MaxTimeout, Sleep(t, timeout)
       PROVE  TimersAgree'
  BY <1>5, <1>11 DEF Sleep
<1>12. ASSUME NEW timeout \in 0 .. Infinite, Poll(t, timeout)
       PROVE  TimersAgree'
  <2>1. timeout # 0 => timeout \in 1 .. MaxTimeout \/ timeout = Infinite
    BY DEF Infinite
  <2> QED BY <1>2, <1>3, <1>5, <1>12, <2>1 DEF Poll
<1>13. CASE Read(t) \/ Prompt(t) \/ Invalid(t)
  BY <1>2, <1>3, <1>13 DEF Read, Prompt, Invalid
<1> QED
  BY <1>6, <1>7, <1>8, <1>9, <1>10, <1>11, <1>12, <1>13 DEF Request

LEMMA PassKeepsTimers ==
    ASSUME CoreInv, TimersAgree, Pass
    PROVE  TimersAgree'
<1> SUFFICES ASSUME NEW u \in TaskIds PROVE TimerAgrees(u)'
  BY DEF TimersAgree
<1>1. TimerAgrees(u) /\ ticks' = ticks
  BY DEF TimersAgree, Pass, TerminalPoll, AppsPoll, SleepPoll, Select, ShellPoll, clock
<1>2. CASE snapshot'[u].state # "BLOCKED"
  BY <1>2 DEF TimerAgrees, IsTimed
<1>3. CASE Untouched(u)
  BY <1>1, <1>3, UntouchedTimerAgrees
<1>4. CASE UNCHANGED <<slot, snapshot, asked, clock>>
  BY <1>3, <1>4 DEF Untouched, clock
<1>5. CASE AppsPoll
  BY <1>2, <1>3, <1>5, AppsPollEffect DEF Idle
<1>6. CASE SleepPoll
  <2>1. snapshot'[u].state = "READY" \/ Untouched(u)
    BY <1>6, SleepPollEffect
  <2> QED BY <1>2, <1>3, <2>1
<1>7. CASE Select
  <2>1. ASSUME NEW t \in TaskIds, Dispatches(t) PROVE TimerAgrees(u)'
    BY <1>2, <1>3, <2>1 DEF Dispatches, Idle
  <2>2. CASE ~entered /\ Publish(selected) /\ UNCHANGED slot
    <3>1. snapshot'[u] = snapshot[u] \/ snapshot'[u] = Idle
      BY <2>2 DEF Publish, CoreInv, TypeOK
    <3>2. remaining' = remaining
      BY <1>7 DEF Select, clock
    <3> QED BY <1>1, <3>1, <3>2 DEF TimerAgrees, IsTimed, Idle
  <2> QED BY <1>4, <1>7, <2>1, <2>2, DispatchEffect DEF Select
<1>8. CASE ShellPoll
  <2>1. ASSUME NEW n \in Natives, Load(n) PROVE TimerAgrees(u)'
    <3>1. n \in TaskIds /\ UNCHANGED <<asked, remaining>>
      BY <1>8 DEF TaskIds, ShellPoll, clock
    <3>2. snapshot'[n] = Idle /\ \A v \in TaskIds \ {n} : Untouched(v)
      BY <2>1, <3>1, BirthEffect DEF Load
    <3> QED BY <1>2, <1>3, <3>2 DEF Idle
  <2> QED BY <1>4, <1>8, <2>1 DEF ShellPoll
<1>9. CASE TerminalPoll
  BY <1>4, <1>9 DEF TerminalPoll, table
<1> QED BY <1>5, <1>6, <1>7, <1>8, <1>9 DEF Pass

(* A tick moves the counter and every deadline's distance from it alike.   *)
LEMMA TickKeepsTimers ==
    ASSUME CoreInv, TimersAgree, Tick
    PROVE  TimersAgree'
<1> SUFFICES ASSUME NEW u \in TaskIds, IsTimed(u) PROVE TimerAgrees(u)'
  BY DEF Tick, table, TimersAgree, TimerAgrees, IsTimed
<1>1. /\ snapshot' = snapshot
      /\ remaining'[u] = remaining[u] - 1 /\ remaining[u] > 1 - HalfModulus
      /\ ticks' = (ticks + 1) % TickModulus
  BY DEF Tick, table
<1>2. /\ remaining[u] \in 1 - HalfModulus .. MaxTimeout
      /\ snapshot[u].deadline - ticks - remaining[u] \in {-TickModulus, 0, TickModulus}
  BY DEF TimersAgree, TimerAgrees
<1>3. ticks \in 0 .. TickModulus - 1 /\ snapshot[u].deadline \in 0 .. TickModulus - 1
  BY DEF CoreInv, TypeOK, Snapshots
<1>4. ticks' = IF ticks + 1 < TickModulus THEN ticks + 1 ELSE ticks + 1 - TickModulus
  BY <1>1, <1>3, WrapOnce
<1>5. remaining'[u] \in 1 - HalfModulus .. MaxTimeout
  BY <1>1, <1>2, HalfOfModulus
<1>6. snapshot'[u].deadline - ticks' - remaining'[u] \in {-TickModulus, 0, TickModulus}
  BY <1>1, <1>2, <1>3, <1>4, HalfOfModulus
<1> QED BY <1>5, <1>6 DEF TimerAgrees

TimerInv == CoreInv /\ TimersAgree

THEOREM TimersStayInAgreement == Spec => []TimerInv
<1>1. Init => TimerInv
  BY InitKeepsCore DEF Init, TimerInv, TimersAgree, TimerAgrees, IsTimed, Idle
<1>2. TimerInv /\ [Next]_vars => TimerInv'
  <2> SUFFICES ASSUME TimerInv, [Next]_vars PROVE TimersAgree'
    BY StepKeepsCore DEF TimerInv
  <2>1. CASE UNCHANGED vars
    BY <2>1 DEF vars, table, clock, TimerInv, TimersAgree, TimerAgrees, IsTimed
  <2> QED
    BY <2>1, RequestKeepsTimers, PassKeepsTimers, TickKeepsTimers DEF TimerInv, Next
<1> QED BY <1>1, <1>2, PTL DEF Spec

(* The comparison of udeks_task_sleep_poll, a difference modulo the        *)
(* counter's period held against half of it, is right while the pass does  *)
(* not oversleep a deadline by that half.                                  *)
LEMMA ExpiredIsPast ==
    ASSUME CoreInv, TimersAgree, NEW t \in TaskIds, IsTimed(t),
           Expired(snapshot[t].deadline)
    PROVE  remaining[t] <= 0
<1> DEFINE d == snapshot[t].deadline
           r == remaining[t]
<1> SUFFICES ASSUME r > 0 PROVE FALSE
  BY DEF TimersAgree, TimerAgrees, HalfModulus
<1>1. r \in 1 .. MaxTimeout /\ r <= HalfModulus /\ TickModulus = 2 * HalfModulus
  BY HalfOfModulus DEF TimersAgree, TimerAgrees
<1>2. ticks \in 0 .. TickModulus - 1 /\ d \in 0 .. TickModulus - 1
  BY DEF CoreInv, TypeOK, Snapshots
<1>3. d - ticks - r \in {-TickModulus, 0, TickModulus}
  BY DEF TimersAgree, TimerAgrees
<1> HIDE DEF d, r
<1>4. (ticks - d) % TickModulus = IF ticks - d < 0 THEN ticks - d + TickModulus
                                  ELSE ticks - d
  BY <1>2, WrapOnce
<1>5. (ticks - d) % TickModulus = TickModulus - r
  BY <1>1, <1>2, <1>3, <1>4, HalfOfModulus
<1>6. (ticks - d) % TickModulus < HalfModulus
  BY DEF Expired, d
<1> QED BY <1>1, <1>5, <1>6, HalfOfModulus

(* A sleeper or poller is told of input exactly when it polls and a line   *)
(* waits, be its time over or not; else it is woken only after the time    *)
(* asked for has passed, however the 16-bit counter wraps.                 *)
THEOREM NobodyWakesEarly == Spec => NoEarlyWake
<1> DEFINE Rightly(t) ==
             IF snapshot[t].operation = "POLL" /\ lineReady
             THEN snapshot'[t].ready
             ELSE ~snapshot'[t].ready /\ IsTimed(t) /\ remaining[t] <= 0
           InTime ==
             \A t \in TaskIds :
                 (slot[t].wait \in {"TIMER", "INPUT"} /\ slot'[t].state = "RUNNABLE") =>
                     Rightly(t)
<1>1. TimerInv /\ [Next]_vars => [InTime]_vars
  <2> SUFFICES ASSUME TimerInv, Next, NEW u \in TaskIds,
                      slot[u].wait \in {"TIMER", "INPUT"}, slot'[u].state = "RUNNABLE"
               PROVE  Rightly(u)
    OBVIOUS
  <2> USE DEF TimerInv
  <2>9. slot[u].state = "WAITING" /\ snapshot[u].operation # "WAITPID"
    BY DEF CoreInv, WaitsAreRegistered, Reason
  <2>1. slot'[u] # slot[u]
    BY <2>9
  <2>2. CASE SleepPoll
    <3>1. IsDue(u)
      BY <2>1, <2>2, SleepPollEffect DEF Untouched
    <3>2. snapshot'[u].ready = (snapshot[u].operation = "POLL" /\ lineReady)
      BY <2>2, <3>1, SleepPollEffect
    <3>3. (snapshot[u].operation = "POLL" /\ lineReady)
            \/ (IsTimed(u) /\ Expired(snapshot[u].deadline))
      BY <3>1 DEF IsDue, IsTimed
    <3> QED BY <3>2, <3>3, ExpiredIsPast
  <2>3. ASSUME NEW t \in TaskIds, NEW status, Exit(t, status)
        PROVE  FALSE
    <3> SUFFICES ASSUME NEW p, p = slot[t].parent PROVE FALSE
      OBVIOUS
    <3>1. slot'[t].state # "RUNNABLE" /\ (u = p => snapshot[u].operation = "WAITPID")
      BY <2>1, <2>3, ExitEffect DEF FreeSlot, Untouched
    <3>2. u = t \/ u = p
      BY <2>1, <2>3, ExitEffect DEF Untouched
    <3> QED BY <2>9, <3>1, <3>2
  <2>4. ASSUME NEW t \in TaskIds, Request(t)
        PROVE  \E status : Exit(t, status)
    <3>1. ASSUME NEW operation, NEW reason, NEW selector, NEW timeout,
                 Requests(t, operation), Block(t, operation, reason, selector, timeout)
          PROVE  FALSE
      BY <2>1, <3>1, BlockEffect DEF Untouched
    <3>2. ~UNCHANGED slot
      BY <2>1
    <3>3. ASSUME NEW c \in TaskIds, slot' = [slot EXCEPT ![c] = FreeSlot] PROVE FALSE
      BY <2>9, <3>3 DEF CoreInv, TypeOK, FreeSlot
    <3>4. ASSUME Yield(t) PROVE FALSE
      BY <2>1, <3>4, YieldEffect DEF Untouched
    <3>5. ASSUME NEW target, NEW status, Cancel(t, target, status) PROVE FALSE
      BY <2>1, <3>2, <3>5, CancelEffect DEF Reject, Untouched
    <3>6. ASSUME Spawn(t) PROVE FALSE
      BY <2>9, <3>2, <3>6 DEF Spawn, Reject, CoreInv, TypeOK
    <3>7. ASSUME NEW selector, NEW nohang, WaitPid(t, selector, nohang) PROVE FALSE
      BY <3>1, <3>2, <3>3, <3>7 DEF WaitPid, Reject, Zombies, Children
    <3> QED
      BY <2>4, <3>1, <3>2, <3>4, <3>5, <3>6, <3>7
         DEF Request, Sleep, Poll, Read, Prompt, Invalid, Reject
  <2>5. ~UNCHANGED slot /\ ~Untouched(u)
    BY <2>1 DEF Untouched
  <2>6. ~AppsPoll
    BY <2>5, AppsPollEffect DEF FreeSlot
  <2>7. ~Select
    <3>1. ASSUME NEW t \in TaskIds, Dispatches(t) PROVE FALSE
      BY <2>5, <3>1 DEF Dispatches
    <3> QED BY <2>5, <3>1, DispatchEffect DEF Select
  <2>8. ASSUME NEW n \in Natives, Load(n) PROVE FALSE
    BY <2>8, <2>9 DEF Load, CoreInv, TypeOK
  <2> QED
    BY <2>2, <2>3, <2>4, <2>5, <2>6, <2>7, <2>8
       DEF Next, Pass, TerminalPoll, ShellPoll, Tick, table
<1> QED BY <1>1, TimersStayInAgreement, PTL DEF Spec, NoEarlyWake

-----------------------------------------------------------------------------
(* The two functions that map the core to the abstract process tree, taken *)
(* apart: who died unreported, whose report is on its way, whose child a   *)
(* living task is.                                                         *)
Dead(c, p, s) ==
    slot[c].state = "ZOMBIE" /\ slot[c].parent = p /\ slot[c].exit = s

Answered(p, c, s) ==
    /\ snapshot[p].state = "READY" /\ snapshot[p].operation = "WAITPID"
    /\ snapshot[p].child = c /\ snapshot[p].status = s

Owed(r) ==
    IF ~Live(r.parent) THEN 0
    ELSE (IF Dead(r.child, r.parent, r.status) THEN 1 ELSE 0)
          + (IF Answered(r.parent, r.child, r.status) THEN 1 ELSE 0)

ParentOf(t) ==
    IF slot[t].parent \in TaskIds /\ Live(slot[t].parent) THEN slot[t].parent ELSE NoTask

Reports == [parent : TaskIds, child : TaskIds, status : Statuses]
Alive == {u \in TaskIds : Live(u)}

LEMMA MappingTakenApart ==
    /\ OwedReports = [r \in Reports |-> Owed(r)]
    /\ OwedReports' = [r \in Reports |-> Owed(r)']
    /\ LiveParents = [t \in Alive |-> ParentOf(t)]
    /\ LiveParents' = [t \in Alive' |-> ParentOf(t)']
    /\ Tree!Reports = Reports
BY DEF OwedReports, Owed, Dead, Answered, Reports, LiveParents, ParentOf, Alive,
       Tree!Reports

LEMMA NoAnswerIsNoReport == NoAnswer \notin Reports
BY DEF NoAnswer, Reports, TaskIds, NoTask

(* Nothing that the tree tells apart happens to a task.                    *)
KinKept(u) ==
    /\ Live(u)' <=> Live(u)
    /\ Live(u) => slot'[u].parent = slot[u].parent
    /\ \A p, s : Dead(u, p, s)' <=> Dead(u, p, s)
    /\ \A c, s : Answered(u, c, s)' <=> Answered(u, c, s)

LEMMA UntouchedKeepsKin ==
    ASSUME NEW u, Untouched(u)
    PROVE  KinKept(u)
BY DEF Untouched, KinKept, Live, Dead, Answered

FamilyStays ==
    \A u \in TaskIds : /\ Live(u)' <=> Live(u)
                       /\ Live(u) => slot'[u].parent = slot[u].parent

LEMMA FamilyStaysInTree ==
    ASSUME FamilyStays
    PROVE  LiveParents' = LiveParents
<1>1. Alive' = Alive
  BY DEF Alive, FamilyStays
<1>2. \A t \in Alive : ParentOf(t)' = ParentOf(t)
  BY DEF Alive, ParentOf, FamilyStays
<1> QED BY <1>1, <1>2, MappingTakenApart

(* What the steps of the tree ask of the core.                             *)
LEMMA IdleStep ==
    ASSUME \A u \in TaskIds : KinKept(u), answer' = NoAnswer
    PROVE  Tree!Idle
<1>1. FamilyStays
  BY DEF FamilyStays, KinKept
<1>2. \A r \in Reports : Owed(r)' = Owed(r)
  BY DEF Reports, Owed, KinKept
<1>3. OwedReports' = OwedReports
  BY <1>2, MappingTakenApart
<1> QED
  BY <1>1, <1>3, FamilyStaysInTree, NoAnswerIsNoReport, MappingTakenApart
     DEF Tree!Idle, Tree!NoReport

LEMMA CollectStep ==
    ASSUME NEW r \in Reports, FamilyStays, answer' = r,
           Owed(r) \in Nat, Owed(r) > 0, Owed(r)' = Owed(r) - 1,
           \A q \in Reports \ {r} : Owed(q)' = Owed(q)
    PROVE  \E q \in Tree!Reports : Tree!Collect(q)
<1>1. OwedReports' = [OwedReports EXCEPT ![r] = @ - 1]
  BY MappingTakenApart
<1>2. OwedReports[r] > 0
  BY MappingTakenApart
<1> QED
  BY <1>1, <1>2, FamilyStaysInTree, MappingTakenApart DEF Tree!Collect

LEMMA WriteOffStep ==
    ASSUME FamilyStays, answer' = NoAnswer,
           \A r \in Reports :
              \/ Owed(r)' = Owed(r)
              \/ r.parent = Root /\ Owed(r) > 0 /\ Owed(r)' = Owed(r) - 1
    PROVE  Tree!WriteOff
BY FamilyStaysInTree, MappingTakenApart, NoAnswerIsNoReport
   DEF Tree!WriteOff, Tree!NoReport

LEMMA BirthStep ==
    ASSUME NEW child \in TaskIds, NEW parent \in TaskIds,
           ~Live(child), Live(child)', Live(parent), slot'[child].parent = parent,
           \A u \in TaskIds \ {child} :
              /\ Live(u)' <=> Live(u)
              /\ Live(u) => slot'[u].parent = slot[u].parent /\ slot[u].parent # child,
           \A r \in Reports : Owed(r)' = Owed(r), answer' = NoAnswer
    PROVE  Tree!Birth(child, parent)
<1>1. OwedReports' = OwedReports
  BY MappingTakenApart
<1>2. Alive' = Alive \cup {child} /\ child \notin Alive /\ parent \in Alive
  BY DEF Alive
<1>3. \A t \in Alive : ParentOf(t)' = ParentOf(t)
  BY DEF Alive, ParentOf
<1>4. ParentOf(child)' = parent
  <2>1. child # parent
    OBVIOUS
  <2> QED BY <2>1 DEF ParentOf
<1>5. DOMAIN LiveParents = Alive
  BY MappingTakenApart
<1>6. LiveParents' = [p \in Alive \cup {child} |->
                        IF p = child THEN parent ELSE LiveParents[p]]
  BY <1>2, <1>3, <1>4, MappingTakenApart
<1> QED
  BY <1>1, <1>2, <1>5, <1>6, NoAnswerIsNoReport, MappingTakenApart
     DEF Tree!Birth, Tree!Alive, Tree!NoReport

OthersStay(c) ==
    \A u \in TaskIds \ {c} : /\ Live(u)' <=> Live(u)
                             /\ Live(u) => slot'[u].parent = slot[u].parent

OwesTheDeath(c, s) ==
    \A r \in Reports : r.parent # c =>
        Owed(r)' = IF r = [parent |-> ParentOf(c), child |-> c, status |-> s]
                   THEN Owed(r) + 1 ELSE Owed(r)

LEMMA DeathStep ==
    ASSUME CoreInv, NEW child \in TaskIds, NEW status \in Statuses,
           Live(child), ~Live(child)', OthersStay(child),
           OwesTheDeath(child, status), answer' = NoAnswer
    PROVE  Tree!Death(child, status)
<1>1. Alive' = Alive \ {child} /\ child \in Alive
  BY DEF Alive, OthersStay
<1>2. \A t \in Alive \ {child} :
         ParentOf(t)' = IF ParentOf(t) = child THEN NoTask ELSE ParentOf(t)
  BY DEF Alive, ParentOf, TaskIds, NoTask, OthersStay
<1>3. DOMAIN LiveParents = Alive /\ LiveParents[child] = ParentOf(child)
  BY <1>1, MappingTakenApart
<1>4. LiveParents' = [p \in Alive \ {child} |->
                        IF LiveParents[p] = child THEN NoTask ELSE LiveParents[p]]
  BY <1>1, <1>2, MappingTakenApart
<1>5. \A r \in Reports : r.parent = child => Owed(r)' = 0
  BY DEF Owed
<1>6. OwedReports' =
        [r \in Reports |->
           IF r.parent = child THEN 0
           ELSE IF r = [parent |-> LiveParents[child], child |-> child, status |-> status]
                THEN OwedReports[r] + 1 ELSE OwedReports[r]]
  BY <1>3, <1>5, MappingTakenApart DEF OwesTheDeath
<1> QED
  BY <1>1, <1>3, <1>4, <1>6, NoAnswerIsNoReport, MappingTakenApart
     DEF Tree!Death, Tree!Alive, Tree!NoReport

-----------------------------------------------------------------------------
(* The response a waiting parent holds names a task that died.             *)
ReportsNameTasks ==
    \A p \in TaskIds :
        snapshot[p].state = "READY" /\ snapshot[p].operation = "WAITPID" =>
            snapshot[p].child \in TaskIds

(* A snapshot that stays, that answers nothing, or that now holds a task.  *)
NamesATask(u) ==
    \/ snapshot'[u] = snapshot[u]
    \/ snapshot'[u].state # "READY" \/ snapshot'[u].operation # "WAITPID"
    \/ snapshot'[u].child \in TaskIds

LEMMA NamedTasksStayNamed ==
    ASSUME ReportsNameTasks, \A u \in TaskIds : NamesATask(u)
    PROVE  ReportsNameTasks'
BY DEF ReportsNameTasks, NamesATask

(* The zombie that a step makes of a living task is its death in the tree, *)
LEMMA ZombieIsDeath ==
    ASSUME CoreInv, NEW c \in TaskIds, NEW status \in Statuses, Live(c),
           \A u \in TaskIds \ {c} : Untouched(u),
           slot'[c].state = "ZOMBIE", slot'[c].parent = slot[c].parent,
           slot'[c].exit = status, answer' = NoAnswer
    PROVE  Tree!Death(c, status)
<1>1. \A u \in TaskIds \ {c} : KinKept(u)
  BY UntouchedKeepsKin
<1>2. ASSUME NEW r \in Reports, r.parent # c
      PROVE  Owed(r)' = IF r = [parent |-> ParentOf(c), child |-> c, status |-> status]
                        THEN Owed(r) + 1 ELSE Owed(r)
  <2>1. r.parent \in TaskIds /\ r.child \in TaskIds /\ r.status \in Statuses
        /\ r = [parent |-> r.parent, child |-> r.child, status |-> r.status]
    BY DEF Reports
  <2>2. (Live(r.parent)' <=> Live(r.parent))
        /\ (Answered(r.parent, r.child, r.status)' <=>
              Answered(r.parent, r.child, r.status))
    BY <1>1, <1>2, <2>1 DEF KinKept
  <2>3. CASE r.child # c
    <3>1. Dead(r.child, r.parent, r.status)' <=> Dead(r.child, r.parent, r.status)
      BY <1>1, <2>1, <2>3 DEF KinKept
    <3> QED BY <2>2, <2>3, <3>1 DEF Owed
  <2>4. CASE r.child = c
    <3>1. ~Dead(c, r.parent, r.status)
      BY DEF Dead, Live
    <3>2. Dead(c, r.parent, r.status)' <=> slot[c].parent = r.parent /\ r.status = status
      BY DEF Dead
    <3>3. Live(r.parent) => (ParentOf(c) = r.parent <=> slot[c].parent = r.parent)
      BY <2>1 DEF ParentOf, TaskIds, NoTask
    <3>4. r = [parent |-> ParentOf(c), child |-> c, status |-> status]
            <=> r.parent = ParentOf(c) /\ r.status = status
      BY <2>1, <2>4
    <3>5. ~Live(r.parent) => ParentOf(c) # r.parent
      BY <2>1 DEF ParentOf, TaskIds, NoTask
    <3> QED BY <2>2, <2>4, <3>1, <3>2, <3>3, <3>4, <3>5 DEF Owed
  <2> QED BY <2>3, <2>4
<1>3. ~Live(c)'
  BY DEF Live
<1>4. OthersStay(c)
  BY <1>1 DEF KinKept, OthersStay
<1>5. OwesTheDeath(c, status)
  BY <1>2 DEF OwesTheDeath
<1> QED BY <1>3, <1>4, <1>5, DeathStep

(* and so is the death whose report goes to the waiting parent at once.    *)
LEMMA WakingIsDeath ==
    ASSUME CoreInv, NEW t \in TaskIds, NEW status \in Statuses, Live(t),
           NEW p \in TaskIds, p = slot[t].parent, p # t,
           slot[p].state = "WAITING", snapshot[p].state = "BLOCKED",
           snapshot[p].operation = "WAITPID",
           \A u \in TaskIds \ {t, p} : Untouched(u),
           slot'[t] = FreeSlot, slot'[p].state = "RUNNABLE",
           slot'[p].parent = slot[p].parent, snapshot'[p].state = "READY",
           snapshot'[p].operation = snapshot[p].operation,
           snapshot'[p].child = t, snapshot'[p].status = status, answer' = NoAnswer
    PROVE  Tree!Death(t, status)
<1>1. \A u \in TaskIds \ {t, p} : KinKept(u)
  BY UntouchedKeepsKin
<1>2. Live(p) /\ Live(p)' /\ ~Live(t)' /\ ParentOf(t) = p
  BY DEF Live, FreeSlot, ParentOf
<1>3. \A u \in TaskIds : \A q, s : Dead(u, q, s)' <=> Dead(u, q, s)
  BY <1>1 DEF Dead, Live, FreeSlot, KinKept
<1>4. \A c, s : /\ ~Answered(p, c, s)
                /\ Answered(p, c, s)' <=> c = t /\ s = status
  BY DEF Answered
<1>5. OthersStay(t)
  BY <1>1, <1>2 DEF KinKept, OthersStay
<1>6. ASSUME NEW r \in Reports, r.parent # t
      PROVE  Owed(r)' = IF r = [parent |-> ParentOf(t), child |-> t, status |-> status]
                        THEN Owed(r) + 1 ELSE Owed(r)
  <2>1. r.parent \in TaskIds /\ r.child \in TaskIds /\ r.status \in Statuses
        /\ r = [parent |-> r.parent, child |-> r.child, status |-> r.status]
    BY DEF Reports
  <2>2. Live(r.parent)' <=> Live(r.parent)
    BY <1>5, <1>6, <2>1 DEF OthersStay
  <2>5. Dead(r.child, r.parent, r.status)' <=> Dead(r.child, r.parent, r.status)
    BY <1>3, <2>1
  <2>3. CASE r.parent # p
    <3>1. Answered(r.parent, r.child, r.status)' <=>
            Answered(r.parent, r.child, r.status)
      BY <1>1, <1>6, <2>1, <2>3 DEF KinKept
    <3>2. r # [parent |-> ParentOf(t), child |-> t, status |-> status]
      BY <1>2, <2>3
    <3> QED BY <2>2, <2>5, <3>1, <3>2 DEF Owed
  <2>4. CASE r.parent = p
    <3>1. r = [parent |-> ParentOf(t), child |-> t, status |-> status]
            <=> r.child = t /\ r.status = status
      BY <1>2, <2>1, <2>4
    <3> QED BY <1>2, <1>4, <2>2, <2>4, <2>5, <3>1 DEF Owed
  <2> QED BY <2>3, <2>4
<1>7. OwesTheDeath(t, status)
  BY <1>6 DEF OwesTheDeath
<1> QED BY <1>2, <1>5, <1>7, DeathStep

(* A newcomer whose slot number is nobody's parent is born without debts.  *)
LEMMA NewcomerIsBorn ==
    ASSUME CoreInv, NEW c \in TaskIds, NEW parent \in TaskIds, Live(parent),
           slot[c].state = "FREE",
           \A u \in TaskIds : slot[u].state # "FREE" => slot[u].parent # c,
           slot' = [slot EXCEPT ![c] = NewSlot(parent)],
           snapshot' = [snapshot EXCEPT ![c] = Idle],
           UNCHANGED <<asked, remaining>>, answer' = NoAnswer
    PROVE  Tree!Birth(c, parent)
<1>1. /\ \A u \in TaskIds \ {c} : Untouched(u)
      /\ slot'[c].state = "RUNNABLE" /\ slot'[c].parent = parent
      /\ snapshot'[c] = Idle
  <2>1. /\ \A u \in TaskIds \ {c} : Untouched(u)
        /\ slot'[c] = NewSlot(parent) /\ snapshot'[c] = Idle
    BY DEF CoreInv, TypeOK, Untouched
  <2>2. NewSlot(parent).state = "RUNNABLE" /\ NewSlot(parent).parent = parent
    BY DEF NewSlot, FreeSlot
  <2> QED BY <2>1, <2>2
<1>2. \A u \in TaskIds \ {c} : KinKept(u)
  BY <1>1, UntouchedKeepsKin
<1>3. ~Live(c) /\ Live(c)'
  BY <1>1 DEF Live
<1>4. \A u \in TaskIds \ {c} :
         /\ Live(u)' <=> Live(u)
         /\ Live(u) => slot'[u].parent = slot[u].parent /\ slot[u].parent # c
  BY <1>2 DEF KinKept, Live
<1>5. \A u \in TaskIds : \A q, s : Dead(u, q, s)' <=> Dead(u, q, s)
  BY <1>1, <1>2 DEF Dead, KinKept
<1>6. \A u \in TaskIds : \A s : ~Dead(u, c, s) /\ ~Answered(c, u, s)'
  BY <1>1 DEF Dead, Answered, Idle
<1>7. ASSUME NEW r \in Reports PROVE Owed(r)' = Owed(r)
  <2>1. r.parent \in TaskIds /\ r.child \in TaskIds
    BY DEF Reports
  <2>2. CASE r.parent = c
    BY <1>3, <1>5, <1>6, <2>1, <2>2 DEF Owed
  <2>3. CASE r.parent # c
    <3>1. /\ Live(r.parent)' <=> Live(r.parent)
          /\ Answered(r.parent, r.child, r.status)' <=>
               Answered(r.parent, r.child, r.status)
      BY <1>2, <2>1, <2>3 DEF KinKept
    <3> QED BY <1>5, <2>1, <3>1 DEF Owed
  <2> QED BY <2>2, <2>3
<1> QED BY <1>1, <1>3, <1>4, <1>7, BirthStep

(* A reaped zombie and a published response are reports collected.         *)
LEMMA ReapIsCollect ==
    ASSUME CoreInv, NEW t \in TaskIds, Live(t), NEW c \in TaskIds,
           slot[c].state = "ZOMBIE", slot[c].parent = t,
           \A u \in TaskIds \ {c} : Untouched(u), slot'[c] = FreeSlot,
           answer' = Answer(t, c, slot[c].exit)
    PROVE  \E q \in Tree!Reports : Tree!Collect(q)
<1> SUFFICES ASSUME NEW r, r = Answer(t, c, slot[c].exit)
             PROVE  \E q \in Tree!Reports : Tree!Collect(q)
  OBVIOUS
<1>1. r \in Reports /\ r.parent = t /\ r.child = c /\ r.status = slot[c].exit
  BY DEF Reports, Answer, CoreInv, TypeOK, SlotRecords
<1>2. c # t /\ ~Live(c) /\ ~Live(c)' /\ slot'[c].state # "ZOMBIE"
  BY DEF Live, FreeSlot
<1>3. \A u \in TaskIds \ {c} : KinKept(u)
  BY UntouchedKeepsKin
<1>4. FamilyStays
  BY <1>2, <1>3 DEF FamilyStays, KinKept
<1>5. /\ Live(t)'
      /\ \A u, s : Answered(t, u, s)' <=> Answered(t, u, s)
  BY <1>2, <1>3 DEF KinKept
<1>6. Dead(c, t, r.status) /\ ~Dead(c, t, r.status)'
  BY <1>1, <1>2 DEF Dead
<1>7. Owed(r) \in Nat /\ Owed(r) > 0 /\ Owed(r)' = Owed(r) - 1
  <2>1. Owed(r) = 1 + (IF Answered(t, c, r.status) THEN 1 ELSE 0)
    BY <1>1, <1>6 DEF Owed
  <2>2. Owed(r)' = 0 + (IF Answered(t, c, r.status) THEN 1 ELSE 0)
    BY <1>1, <1>5, <1>6 DEF Owed
  <2> QED BY <2>1, <2>2
<1>8. ASSUME NEW q \in Reports \ {r} PROVE Owed(q)' = Owed(q)
  <2>1. q.parent \in TaskIds /\ q.child \in TaskIds
        /\ q = [parent |-> q.parent, child |-> q.child, status |-> q.status]
    BY DEF Reports
  <2>2. CASE q.parent = c
    BY <1>2, <2>2 DEF Owed
  <2>3. CASE q.parent # c
    <3>1. /\ Live(q.parent)' <=> Live(q.parent)
          /\ Answered(q.parent, q.child, q.status)' <=>
               Answered(q.parent, q.child, q.status)
      BY <1>3, <2>1, <2>3 DEF KinKept
    <3>2. Dead(q.child, q.parent, q.status)' <=> Dead(q.child, q.parent, q.status)
      <4>1. CASE q.child # c
        BY <1>3, <2>1, <4>1 DEF KinKept
      <4>2. CASE q.child = c
        <5>1. ~Dead(c, q.parent, q.status)
          BY <1>1, <1>8, <2>1, <4>2 DEF Dead, Answer
        <5>2. ~Dead(c, q.parent, q.status)'
          BY <1>2 DEF Dead
        <5> QED BY <4>2, <5>1, <5>2
      <4> QED BY <4>1, <4>2
    <3> QED BY <3>1, <3>2 DEF Owed
  <2> QED BY <2>2, <2>3
<1> QED BY <1>1, <1>4, <1>7, <1>8, CollectStep

LEMMA PublishIsCollect ==
    ASSUME CoreInv, ReportsNameTasks, NEW t \in TaskIds, Dispatches(t),
           snapshot[t].state = "READY", snapshot[t].operation = "WAITPID"
    PROVE  \E q \in Tree!Reports : Tree!Collect(q)
<1> SUFFICES ASSUME NEW r, r = Answer(t, snapshot[t].child, snapshot[t].status)
             PROVE  \E q \in Tree!Reports : Tree!Collect(q)
  OBVIOUS
<1>1. r \in Reports /\ r.parent = t /\ r.child = snapshot[t].child
      /\ r.status = snapshot[t].status
  BY DEF Reports, Answer, CoreInv, TypeOK, Snapshots, ReportsNameTasks
<1>2. /\ \A u \in TaskIds \ {t} : KinKept(u)
      /\ Live(t) /\ Live(t)' /\ slot'[t].parent = slot[t].parent
      /\ snapshot'[t].state = "NONE" /\ answer' = r
  BY UntouchedKeepsKin DEF Dispatches, Live, Idle
<1>3. FamilyStays
  BY <1>2 DEF FamilyStays, KinKept
<1>4. \A u \in TaskIds : \A p, s : Dead(u, p, s)' <=> Dead(u, p, s)
  BY <1>2 DEF Dead, KinKept, Dispatches
<1>5. \A c, s : /\ ~Answered(t, c, s)'
                /\ Answered(t, c, s) <=> c = r.child /\ s = r.status
  BY <1>1, <1>2 DEF Answered
<1>6. Owed(r) \in Nat /\ Owed(r) > 0 /\ Owed(r)' = Owed(r) - 1
  <2>1. r.child \in TaskIds
    BY <1>1 DEF Reports
  <2>2. Owed(r) = (IF Dead(r.child, t, r.status) THEN 1 ELSE 0) + 1
    BY <1>1, <1>2, <1>5 DEF Owed
  <2>3. Owed(r)' = (IF Dead(r.child, t, r.status) THEN 1 ELSE 0) + 0
    BY <1>1, <1>2, <1>4, <1>5, <2>1 DEF Owed
  <2> QED BY <2>2, <2>3
<1>7. ASSUME NEW q \in Reports \ {r} PROVE Owed(q)' = Owed(q)
  <2>1. q.parent \in TaskIds /\ q.child \in TaskIds
        /\ q = [parent |-> q.parent, child |-> q.child, status |-> q.status]
        /\ r = [parent |-> r.parent, child |-> r.child, status |-> r.status]
    BY <1>1 DEF Reports
  <2>2. Live(q.parent)' <=> Live(q.parent)
    BY <1>2, <2>1 DEF KinKept
  <2>3. Answered(q.parent, q.child, q.status)' <=>
          Answered(q.parent, q.child, q.status)
    <3>1. CASE q.parent # t
      BY <1>2, <2>1, <3>1 DEF KinKept
    <3>2. CASE q.parent = t
      BY <1>1, <1>5, <1>7, <2>1, <3>2
    <3> QED BY <3>1, <3>2
  <2> QED BY <1>4, <2>1, <2>2, <2>3 DEF Owed
<1> QED BY <1>1, <1>2, <1>3, <1>6, <1>7, CollectStep

LEMMA StepKeepsNames ==
    CoreInv /\ ShellIsFirst /\ ReportsNameTasks /\ [Next]_vars => ReportsNameTasks'
<1> SUFFICES ASSUME CoreInv, ReportsNameTasks, [Next]_vars, NEW u \in TaskIds
             PROVE  NamesATask(u)
  BY NamedTasksStayNamed
<1>1. CASE UNCHANGED snapshot
  BY <1>1 DEF NamesATask
<1>2. ASSUME NEW t \in TaskIds, Request(t) PROVE NamesATask(u)
  <2>1. ASSUME NEW operation, NEW reason, NEW selector, NEW timeout,
               Requests(t, operation), Block(t, operation, reason, selector, timeout)
        PROVE  NamesATask(u)
    BY <2>1, BlockEffect DEF NamesATask, Untouched
  <2>2. ASSUME NEW status, Exit(t, status) PROVE NamesATask(u)
    <3> SUFFICES ASSUME NEW p, p = slot[t].parent PROVE NamesATask(u)
      OBVIOUS
    <3>1. snapshot'[t] = snapshot[t]
             /\ (\/ \A v \in TaskIds \ {t} : Untouched(v)
                 \/ /\ \A v \in TaskIds \ {t, p} : Untouched(v)
                    /\ snapshot'[p].child = t)
      BY <2>2, ExitEffect
    <3> QED BY <3>1 DEF NamesATask, Untouched
  <2>3. ASSUME NEW c \in TaskIds, snapshot' = [snapshot EXCEPT ![c] = Idle]
        PROVE  NamesATask(u)
    BY <2>3 DEF NamesATask, CoreInv, TypeOK, Idle
  <2>4. ASSUME NEW target, NEW status, Cancel(t, target, status)
        PROVE  NamesATask(u)
    BY <1>1, <2>3, <2>4 DEF Cancel, Cancelled, MayCancel, Reject
  <2>5. CASE Spawn(t)
    BY <1>1, <2>3, <2>5, ConstantsAreTyped DEF Spawn, Reject
  <2>6. ASSUME NEW selector, NEW nohang, WaitPid(t, selector, nohang)
        PROVE  NamesATask(u)
    BY <1>1, <2>1, <2>6 DEF WaitPid, Reject
  <2>7. ASSUME NEW timeout, Poll(t, timeout) \/ Sleep(t, timeout)
        PROVE  NamesATask(u)
    BY <1>1, <2>1, <2>7 DEF Poll, Sleep, Reject
  <2>8. CASE Yield(t) \/ Read(t) \/ Prompt(t) \/ Invalid(t)
    BY <1>1, <2>8 DEF Yield, Read, Prompt, Invalid, Reject
  <2> QED BY <1>2, <2>2, <2>4, <2>5, <2>6, <2>7, <2>8 DEF Request
<1>3. CASE AppsPoll
  BY <1>3 DEF AppsPoll, NamesATask, Idle
<1>4. CASE SleepPoll
  BY <1>4, SleepPollEffect DEF NamesATask, Untouched
<1>5. ASSUME NEW t \in TaskIds, Publish(t) PROVE NamesATask(u)
  BY <1>5 DEF Publish, NamesATask, CoreInv, TypeOK, Idle
<1>6. CASE Select
  <2>1. selected \in TaskIds
    BY DEF CoreInv, TypeOK
  <2> QED BY <1>1, <1>5, <1>6, <2>1 DEF Select
<1>7. CASE ShellPoll
  <2>1. ASSUME NEW n \in Natives, Load(n) PROVE NamesATask(u)
    BY <2>1 DEF Load, NamesATask, CoreInv, TypeOK, Idle, TaskIds
  <2> QED BY <1>1, <1>7, <2>1 DEF ShellPoll
<1>8. CASE TerminalPoll \/ Tick
  BY <1>1, <1>8 DEF TerminalPoll, Tick, table
<1> QED
  BY <1>1, <1>2, <1>3, <1>4, <1>6, <1>7, <1>8 DEF Next, Pass, vars, table

-----------------------------------------------------------------------------
LEMMA UntouchedIsIdle ==
    ASSUME \A u \in TaskIds : Untouched(u) \/ KinKept(u), answer' = NoAnswer
    PROVE  Tree!Next
BY UntouchedKeepsKin, IdleStep DEF Tree!Next

LEMMA RequestIsTreeStep ==
    ASSUME CoreInv, Family, NEW t \in TaskIds, Request(t)
    PROVE  Tree!Next
<1>1. CASE UNCHANGED <<slot, snapshot>> /\ answer' = NoAnswer
  <2>1. \A u \in TaskIds : KinKept(u)
    BY <1>1 DEF KinKept, Live, Dead, Answered
  <2> QED BY <1>1, <2>1, UntouchedIsIdle
<1>2. ASSUME NEW operation, NEW reason, NEW selector, NEW timeout,
             Requests(t, operation), Block(t, operation, reason, selector, timeout)
      PROVE  Tree!Next
  <2>1. /\ slot[t].state = "RUNNING" /\ slot'[t].state = "WAITING"
        /\ slot'[t].parent = slot[t].parent
        /\ snapshot[t].state = "NONE" /\ snapshot'[t].state = "BLOCKED"
    BY <1>2, BlockEffect
  <2>2. KinKept(t)
    BY <2>1 DEF KinKept, Live, Dead, Answered
  <2>3. \A u \in TaskIds : Untouched(u) \/ KinKept(u)
    BY <1>2, <2>2, BlockEffect
  <2> QED BY <1>2, <2>3, UntouchedIsIdle DEF Block
<1>3. CASE Yield(t)
  <2>1. /\ slot[t].state = "RUNNING" /\ slot'[t].state = "RUNNABLE"
        /\ slot'[t].parent = slot[t].parent /\ snapshot'[t] = snapshot[t]
    BY <1>3, YieldEffect
  <2>2. KinKept(t)
    BY <2>1 DEF KinKept, Live, Dead, Answered
  <2>3. \A u \in TaskIds : Untouched(u) \/ KinKept(u)
    BY <1>3, <2>2, YieldEffect
  <2> QED BY <1>3, <2>3, UntouchedIsIdle DEF Yield
<1>4. ASSUME NEW selector, NEW nohang, WaitPid(t, selector, nohang)
      PROVE  Tree!Next
  <2>1. Requests(t, "WAITPID")
    BY <1>4 DEF WaitPid
  <2>2. ASSUME NEW c \in Zombies(t, selector), slot' = [slot EXCEPT ![c] = FreeSlot],
               answer' = Answer(t, c, slot[c].exit), UNCHANGED snapshot,
               Respond(t, "WAITPID", "COMPLETE")
        PROVE  Tree!Next
    <3>1. c \in TaskIds /\ slot[c].state = "ZOMBIE" /\ slot[c].parent = t
      BY <2>2 DEF Zombies, Children, IsChild
    <3>2. Live(t)
      BY <2>1, RequesterRuns DEF Live
    <3>3. (\A u \in TaskIds \ {c} : Untouched(u)) /\ slot'[c] = FreeSlot
      BY <2>2, <3>1 DEF CoreInv, TypeOK, Respond, Untouched
    <3> QED BY <2>2, <3>1, <3>2, <3>3, ReapIsCollect DEF Tree!Next
  <2>3. CASE Block(t, "WAITPID", "CHILD", selector, 0)
    BY <1>2, <2>1, <2>3
  <2> QED BY <1>1, <1>4, <2>2, <2>3 DEF WaitPid, Reject
<1>5. ASSUME NEW status \in Statuses, Exit(t, status) PROVE Tree!Next
  <2> SUFFICES ASSUME NEW p, p = slot[t].parent PROVE Tree!Next
    OBVIOUS
  <2>1. Live(t) /\ answer' = NoAnswer
    BY <1>5, ExitEffect DEF Exit, Live
  <2>2. CASE /\ p \in TaskIds /\ p # t
             /\ slot[p].state = "WAITING" /\ snapshot[p].state = "BLOCKED"
             /\ snapshot[p].operation = "WAITPID"
             /\ \A u \in TaskIds \ {t, p} : Untouched(u)
             /\ slot'[t] = FreeSlot /\ slot'[p].state = "RUNNABLE"
             /\ slot'[p].parent = slot[p].parent /\ snapshot'[p].state = "READY"
             /\ snapshot'[p].operation = snapshot[p].operation
             /\ snapshot'[p].child = t /\ snapshot'[p].status = status
    BY <2>1, <2>2, WakingIsDeath DEF Tree!Next
  <2>3. CASE /\ \A u \in TaskIds \ {t} : Untouched(u)
             /\ slot'[t].state = "ZOMBIE"
             /\ slot'[t].parent = p /\ slot'[t].exit = status
    BY <2>1, <2>3, ZombieIsDeath DEF Tree!Next
  <2> QED BY <1>5, <2>2, <2>3, ExitEffect
<1>6. ASSUME NEW target, NEW status \in Statuses, Cancel(t, target, status)
      PROVE  Tree!Next
  <2>1. CASE ~Reject(t, "CANCEL")
    <3>1. /\ target \in TaskIds /\ slot[target].parent = t /\ Live(target)
          /\ \A u \in TaskIds \ {target} : Untouched(u)
          /\ slot'[target].state = "ZOMBIE"
          /\ slot'[target].parent = t /\ slot'[target].exit = status
          /\ answer' = NoAnswer
      BY <1>6, <2>1, CancelEffect
    <3> QED BY <3>1, ZombieIsDeath DEF Tree!Next
  <2> QED BY <1>1, <2>1 DEF Reject
<1>7. CASE Spawn(t)
  <2>1. CASE ~Reject(t, "SPAWN")
    <3>1. /\ slot[Spawned].state = "FREE" /\ answer' = NoAnswer
          /\ slot' = [slot EXCEPT ![Spawned] = NewSlot(t)]
          /\ snapshot' = [snapshot EXCEPT ![Spawned] = Idle]
          /\ UNCHANGED <<asked, remaining>>
      BY <1>7, <2>1 DEF Spawn, Respond
    <3>2. Live(t) /\ Spawned \in TaskIds
      BY <1>7, RequesterRuns, ConstantsAreTyped DEF Spawn, Live
    <3>3. \A u \in TaskIds : slot[u].state # "FREE" => slot[u].parent # Spawned
      BY <3>1 DEF Family, Spawned, Root, NoTask
    <3> QED BY <3>1, <3>2, <3>3, NewcomerIsBorn DEF Tree!Next
  <2> QED BY <1>1, <2>1 DEF Reject
<1>8. ASSUME NEW timeout, Poll(t, timeout) \/ Sleep(t, timeout)
      PROVE  Tree!Next
  BY <1>1, <1>2, <1>8 DEF Poll, Sleep, Reject
<1>9. CASE Read(t) \/ Prompt(t) \/ Invalid(t)
  BY <1>1, <1>9 DEF Read, Prompt, Invalid, Reject
<1> QED
  BY <1>3, <1>4, <1>5, <1>6, <1>7, <1>8, <1>9 DEF Request

(* A dead program's memory is released and its report written off at once. *)
LEMMA AppsPollIsWriteOff ==
    ASSUME CoreInv, AppsPoll
    PROVE  Tree!WriteOff
<1>1. ASSUME NEW u \in TaskIds
      PROVE  \/ KinKept(u)
             \/ /\ ~Live(u) /\ ~Live(u)'
                /\ \A p, s : Dead(u, p, s) => p = Root
                /\ slot'[u].state # "ZOMBIE"
  <2>1. CASE Untouched(u)
    BY <2>1, UntouchedKeepsKin
  <2>2. CASE /\ slot[u].state = "FREE"
                   \/ (slot[u].state = "ZOMBIE" /\ slot[u].parent = Root)
             /\ slot'[u] = FreeSlot
    BY <2>2 DEF Live, Dead, FreeSlot
  <2> QED BY <2>1, <2>2, AppsPollEffect
<1>2. FamilyStays
  BY <1>1 DEF FamilyStays, KinKept
<1>3. ASSUME NEW r \in Reports
      PROVE  \/ Owed(r)' = Owed(r)
             \/ r.parent = Root /\ Owed(r) > 0 /\ Owed(r)' = Owed(r) - 1
  <2>1. r.parent \in TaskIds /\ r.child \in TaskIds
    BY DEF Reports
  <2>2. CASE ~Live(r.parent)
    <3>1. ~Live(r.parent)'
      BY <1>2, <2>1, <2>2 DEF FamilyStays
    <3> QED BY <2>2, <3>1 DEF Owed
  <2>3. CASE Live(r.parent)
    <3>1. /\ Live(r.parent)'
          /\ Answered(r.parent, r.child, r.status)' <=>
               Answered(r.parent, r.child, r.status)
      BY <1>1, <2>1, <2>3 DEF KinKept
    <3>2. CASE Dead(r.child, r.parent, r.status)' <=>
                 Dead(r.child, r.parent, r.status)
      BY <2>3, <3>1, <3>2 DEF Owed
    <3>3. CASE /\ Dead(r.child, r.parent, r.status) /\ r.parent = Root
               /\ ~Dead(r.child, r.parent, r.status)'
      <4>1. Owed(r) = 1 + (IF Answered(r.parent, r.child, r.status) THEN 1 ELSE 0)
        BY <2>3, <3>3 DEF Owed
      <4>2. Owed(r)' = 0 + (IF Answered(r.parent, r.child, r.status) THEN 1 ELSE 0)
        BY <3>1, <3>3 DEF Owed
      <4> QED BY <3>3, <4>1, <4>2
    <3>4. KinKept(r.child) \/
            /\ Dead(r.child, r.parent, r.status) => r.parent = Root
            /\ ~Dead(r.child, r.parent, r.status)'
      BY <1>1, <2>1 DEF Dead
    <3> QED BY <3>2, <3>3, <3>4 DEF KinKept
  <2> QED BY <2>2, <2>3
<1> QED BY <1>2, <1>3, WriteOffStep DEF AppsPoll

LEMMA PassIsTreeStep ==
    ASSUME MemoryInv, Family, ReportsNameTasks, Pass
    PROVE  Tree!Next
<1>1. CASE UNCHANGED <<slot, snapshot>> /\ answer' = NoAnswer
  <2>1. \A u \in TaskIds : KinKept(u)
    BY <1>1 DEF KinKept, Live, Dead, Answered
  <2> QED BY <1>1, <2>1, UntouchedIsIdle
<1>2. CASE SleepPoll
  <2>1. ASSUME NEW u \in TaskIds PROVE Untouched(u) \/ KinKept(u)
    <3>1. CASE IsDue(u)
      <4>1. /\ slot[u].state = "WAITING" /\ slot'[u].state = "RUNNABLE"
            /\ slot'[u].parent = slot[u].parent
            /\ snapshot[u].operation \in {"SLEEP", "POLL"}
            /\ snapshot'[u].operation = snapshot[u].operation
        BY <1>2, <3>1, SleepPollEffect DEF MemoryInv
      <4> QED BY <4>1 DEF KinKept, Live, Dead, Answered
    <3> QED BY <1>2, <3>1, SleepPollEffect DEF MemoryInv
  <2> QED BY <1>2, <2>1, UntouchedIsIdle DEF SleepPoll
<1>3. ASSUME NEW t \in TaskIds, Dispatches(t) PROVE Tree!Next
  <2>1. CASE snapshot[t].state = "READY" /\ snapshot[t].operation = "WAITPID"
    BY <1>3, <2>1, PublishIsCollect DEF MemoryInv, Tree!Next
  <2>2. CASE ~(snapshot[t].state = "READY" /\ snapshot[t].operation = "WAITPID")
    <3>1. /\ slot[t].state = "RUNNABLE" /\ slot'[t].state = "RUNNING"
          /\ slot'[t].parent = slot[t].parent
          /\ snapshot'[t].state # "READY" /\ answer' = NoAnswer
      BY <1>3, <2>2 DEF Dispatches, Idle
    <3>2. KinKept(t)
      BY <2>2, <3>1 DEF KinKept, Live, Dead, Answered
    <3> QED BY <1>3, <3>1, <3>2, UntouchedIsIdle DEF Dispatches
  <2> QED BY <2>1, <2>2
<1>4. CASE ~entered /\ Publish(selected) /\ slot' = slot
  <2>1. selected = Root /\ Root \in TaskIds /\ slot[Root].state = "RUNNING"
    BY <1>4, ConstantsAreTyped DEF MemoryInv, ShellIsFirst, CoreInv, Entry, OneRunner
  <2>2. snapshot[Root].state = "NONE"
    BY <2>1
       DEF MemoryInv, RequestsAreRemembered, Remembered, BlockingOperations
  <2>3. snapshot' = snapshot /\ answer' = NoAnswer
    BY <1>4, <2>1, <2>2 DEF Publish, MemoryInv, CoreInv, TypeOK
  <2> QED BY <1>1, <1>4, <2>3
<1>5. CASE Select
  BY <1>1, <1>3, <1>4, <1>5, DispatchEffect DEF Select, MemoryInv
<1>6. CASE ShellPoll
  <2>1. ASSUME NEW n \in Natives, Load(n) PROVE Tree!Next
    <3>1. /\ n \in TaskIds /\ slot[n].state = "FREE" /\ Live(Root)
          /\ slot' = [slot EXCEPT ![n] = NewSlot(Root)]
          /\ snapshot' = [snapshot EXCEPT ![n] = Idle]
      BY <2>1 DEF TaskIds, Load
    <3>5. UNCHANGED <<asked, remaining>> /\ answer' = NoAnswer
      BY <1>6 DEF ShellPoll, clock
    <3>2. \A u \in TaskIds : slot[u].state # "FREE" => slot[u].parent # n
      <4>1. slot[Spawned].state = "FREE" /\ n # NoTask /\ n # Root
        BY <2>1 DEF Load, LauncherIsFree, NoTask, Root
      <4> QED BY <4>1 DEF Family
    <3>3. CoreInv /\ Root \in TaskIds
      BY ConstantsAreTyped DEF MemoryInv
    <3>4. Tree!Birth(n, Root)
      BY <3>1, <3>2, <3>3, <3>5, NewcomerIsBorn
    <3> QED BY <3>1, <3>3, <3>4 DEF Tree!Next
  <2> QED BY <1>1, <1>6, <2>1 DEF ShellPoll
<1>7. CASE TerminalPoll
  BY <1>1, <1>7 DEF TerminalPoll, table
<1>8. CASE AppsPoll
  BY <1>8, AppsPollIsWriteOff DEF MemoryInv, Tree!Next
<1> QED BY <1>2, <1>5, <1>6, <1>7, <1>8 DEF Pass

(* The core is the process tree: every death is reported to the dead       *)
(* task's own parent at most once, by WAITPID or by the response that the  *)
(* exit leaves for it, and is never forgotten while it may still be        *)
(* collected, except for the programs the resident shell reaps for task 1. *)
THEOREM CoreIsProcessTree == Spec => TreeSpec
<1>1. Init => Tree!Init
  <2> SUFFICES ASSUME Init PROVE Tree!Init
    OBVIOUS
  <2>1. /\ \A t \in TaskIds : slot[t].state = IF t = Root THEN "RUNNING" ELSE "FREE"
        /\ slot[Root].parent = NoTask /\ answer = NoAnswer
        /\ \A t \in TaskIds : snapshot[t].state = "NONE"
    BY ConstantsAreTyped DEF Init, FreeSlot, Idle
  <2>2. Alive = {Root}
    BY <2>1, ConstantsAreTyped DEF Alive, Live
  <2>3. ParentOf(Root) = NoTask
    BY <2>1 DEF ParentOf, TaskIds, NoTask
  <2>4. LiveParents = [p \in {Root} |-> NoTask]
    BY <2>2, <2>3, MappingTakenApart
  <2>5. \A r \in Reports : Owed(r) = 0
    BY <2>1 DEF Owed, Reports, Dead, Answered
  <2>6. OwedReports = [r \in Reports |-> 0]
    BY <2>5, MappingTakenApart
  <2> QED
    BY <2>1, <2>4, <2>6, NoAnswerIsNoReport, MappingTakenApart
       DEF Tree!Init, Tree!NoReport
<1>2. Init => Family /\ ReportsNameTasks
  BY ConstantsAreTyped
     DEF Init, FreeSlot, Idle, Family, ReportsNameTasks, Spawned, Root, NoTask
<1>3. MemoryInv /\ ReportsNameTasks /\ [Next]_vars => ReportsNameTasks'
  BY StepKeepsNames DEF MemoryInv
<1>4. MemoryInv /\ Family /\ [Next]_vars => Family'
  BY StepKeepsFamily DEF MemoryInv
<1>5. MemoryInv /\ Family /\ ReportsNameTasks /\ [Next]_vars => [Tree!Next]_Tree!vars
  <2> SUFFICES ASSUME MemoryInv, Family, ReportsNameTasks, [Next]_vars
               PROVE  [Tree!Next]_Tree!vars
    OBVIOUS
  <2>1. CASE UNCHANGED vars
    BY <2>1 DEF vars, table, Tree!vars, LiveParents, OwedReports, Live
  <2>2. CASE Tick
    <3>1. \A u \in TaskIds : KinKept(u)
      BY <2>2 DEF Tick, table, KinKept, Live, Dead, Answered
    <3> QED BY <2>2, <3>1, UntouchedIsIdle DEF Tick
  <2>3. CASE Pass
    BY <2>3, PassIsTreeStep
  <2>4. ASSUME NEW t \in TaskIds, Request(t) PROVE Tree!Next
    BY <2>4, RequestIsTreeStep DEF MemoryInv
  <2> QED BY <2>1, <2>2, <2>3, <2>4 DEF Next
<1> QED
  BY <1>1, <1>2, <1>3, <1>4, <1>5, RequestsStayRemembered, PTL
     DEF Spec, TreeSpec, Tree!Spec
=============================================================================
