----------------------------- MODULE Lifecycle -----------------------------
(***************************************************************************)
(* The task table of src/kernel/task_state.c: eight slots, the task that   *)
(* owns the processor, and the event table that is the only way a slot may *)
(* change state.  Every event may be asked of every slot at any time; an   *)
(* event the table does not accept is rejected and leaves the table alone. *)
(*                                                                         *)
(* The diagnostic counters (rejected, dispatch, switch and canary counts,  *)
(* last event) are left out: no decision of the code reads them.  A result *)
(* code other than "OK" is a rejection, whichever code it is.              *)
(***************************************************************************)
EXTENDS Integers

CONSTANTS
    MaxTasks,     \* slots in the table, 8 in the code
    Reasons,      \* wait reasons CHILD..TERMINAL
    Statuses,     \* exit and termination statuses
    FlagSets      \* the flag bytes a creator may pass, reserved bits included

NoTask == 0
NoReason == "NONE"
NoStatus == 0
UserFlags == {"USER", "PERSISTENT"}   \* TASK_FLAG_MASK

ASSUME LifecycleAssumption ==
    /\ MaxTasks \in Nat \ {0}
    /\ NoReason \notin Reasons
    /\ NoStatus \in Statuses

TaskIds == 1 .. MaxTasks
States == {"FREE", "NEW", "RUNNABLE", "RUNNING", "WAITING", "STOPPED", "ZOMBIE"}
LiveStates == States \ {"FREE", "ZOMBIE"}
Events == {"ADMIT", "DISPATCH", "YIELD", "BLOCK", "UNBLOCK", "STOP",
           "CONTINUE", "EXIT", "REAP", "CANCEL"}

Slots == [parent : TaskIds \cup {NoTask}, state : States,
          wait : Reasons \cup {NoReason}, flags : SUBSET UserFlags,
          exit : Statuses, resume : {"FREE", "RUNNABLE", "WAITING"}]

VARIABLES
    slot,      \* slot[t]: the private record of task t
    current    \* the dispatched task, NoTask when there is none

vars == <<slot, current>>

ClearSlot == [parent |-> NoTask, state |-> "FREE", wait |-> NoReason,
              flags |-> {}, exit |-> NoStatus, resume |-> "FREE"]

(* udeks_lifecycle_reset                                                   *)
Init ==
    /\ slot = [t \in TaskIds |-> ClearSlot]
    /\ current = NoTask

-----------------------------------------------------------------------------
CreateResult(id, parent, flags) ==
    IF id \notin TaskIds THEN "BAD_ID"
    ELSE IF ~(flags \subseteq UserFlags) THEN "BAD_FLAGS"
    ELSE IF slot[id].state # "FREE" THEN "EXISTS"
    ELSE IF parent # NoTask /\ (\/ parent = id
                                \/ parent \notin TaskIds
                                \/ slot[parent].state \notin LiveStates)
         THEN "BAD_ID"
    ELSE "OK"

Create(id, parent, flags) ==
    \/ /\ CreateResult(id, parent, flags) # "OK"
       /\ UNCHANGED vars
    \/ /\ CreateResult(id, parent, flags) = "OK"
       /\ slot' = [slot EXCEPT ![id] = [ClearSlot EXCEPT !.parent = parent,
                                                         !.flags = flags,
                                                         !.state = "NEW"]]
       /\ UNCHANGED current

-----------------------------------------------------------------------------
(* Mutant: a zombie may be cancelled.                                      *)
CancelSourcesDead == States \ {"FREE"}
CancelSources == LiveStates

(* task_event_sources: the states an event is accepted from.               *)
Sources ==
    [ADMIT    |-> {"NEW"},
     DISPATCH |-> {"RUNNABLE"},
     YIELD    |-> {"RUNNING"},
     BLOCK    |-> {"RUNNING"},
     UNBLOCK  |-> {"WAITING", "STOPPED"},
     STOP     |-> {"RUNNABLE", "RUNNING", "WAITING"},
     CONTINUE |-> {"STOPPED"},
     EXIT     |-> {"NEW", "RUNNING"},
     REAP     |-> {"ZOMBIE"},
     CANCEL   |-> CancelSources]

(* Redispatching the running task succeeds and does nothing.               *)
IsRedispatch(id, event) ==
    event = "DISPATCH" /\ current = id /\ slot[id].state = "RUNNING"

ApplyResult(id, event, argument) ==
    IF id \notin TaskIds THEN "BAD_ID"
    ELSE IF event \notin Events THEN "BAD_EVENT"
    ELSE IF event = "DISPATCH" /\ current \notin {NoTask, id} THEN "BUSY"
    ELSE IF IsRedispatch(id, event) THEN "OK"
    ELSE IF slot[id].state \notin Sources[event] THEN "BAD_STATE"
    ELSE IF event = "UNBLOCK" /\ slot[id].state = "STOPPED"
            /\ (slot[id].resume # "WAITING" \/ slot[id].wait = NoReason)
         THEN "BAD_STATE"
    ELSE IF event = "BLOCK" /\ argument \notin Reasons THEN "BAD_REASON"
    ELSE "OK"

Moved(s, state) == [s EXCEPT !.state = state, !.wait = NoReason, !.resume = "FREE"]

(* Mutant: the wake-up of a stopped task does not change how it resumes.   *)
WokenForgetful(s) ==
    IF s.state = "STOPPED" THEN [s EXCEPT !.wait = NoReason]
    ELSE Moved(s, "RUNNABLE")

(* A stopped task that is woken stays STOPPED and remembers that it may    *)
(* run.                                                                    *)
Woken(s) ==
    IF s.state = "STOPPED" THEN [s EXCEPT !.wait = NoReason, !.resume = "RUNNABLE"]
    ELSE Moved(s, "RUNNABLE")

Reaped(s) == ClearSlot

(* The next slot record for an accepted event.                             *)
NextSlot(s, event, argument) ==
    CASE event = "ADMIT"    -> Moved(s, "RUNNABLE")
      [] event = "DISPATCH" -> Moved(s, "RUNNING")
      [] event = "YIELD"    -> Moved(s, "RUNNABLE")
      [] event = "BLOCK"    -> [s EXCEPT !.state = "WAITING", !.wait = argument]
      [] event = "UNBLOCK"  -> Woken(s)
      [] event = "STOP"     ->
            [s EXCEPT !.state = "STOPPED",
                      !.resume = IF s.state = "WAITING" THEN "WAITING" ELSE "RUNNABLE"]
      [] event = "CONTINUE" ->
            [s EXCEPT !.state = IF s.resume = "WAITING" THEN "WAITING" ELSE "RUNNABLE",
                      !.resume = "FREE"]
      [] event \in {"EXIT", "CANCEL"} -> [Moved(s, "ZOMBIE") EXCEPT !.exit = argument]
      [] event = "REAP"     -> Reaped(s)

NextCurrent(id, event) ==
    IF event = "DISPATCH" THEN id
    ELSE IF current = id THEN NoTask
    ELSE current

(* udeks_lifecycle_apply                                                   *)
Apply(id, event, argument) ==
    \/ /\ ApplyResult(id, event, argument) # "OK"
       /\ UNCHANGED vars
    \/ /\ ApplyResult(id, event, argument) = "OK"
       /\ IsRedispatch(id, event)
       /\ UNCHANGED vars
    \/ /\ ApplyResult(id, event, argument) = "OK"
       /\ ~IsRedispatch(id, event)
       /\ slot' = [slot EXCEPT ![id] = NextSlot(@, event, argument)]
       /\ current' = NextCurrent(id, event)

(* The argument of BLOCK is a reason, of EXIT and CANCEL a status; other   *)
(* events ignore it.                                                       *)
Arguments(event) ==
    IF event = "BLOCK" THEN Reasons \cup {NoReason} ELSE Statuses

Next ==
    \/ \E id, parent \in 0 .. MaxTasks + 1, flags \in FlagSets :
          Create(id, parent, flags)
    \/ \E id \in 0 .. MaxTasks + 1, event \in Events \cup {"CREATE"} :
          \E argument \in Arguments(event) : Apply(id, event, argument)

Spec == Init /\ [][Next]_vars

-----------------------------------------------------------------------------
TypeOK ==
    /\ slot \in [TaskIds -> Slots]
    /\ current \in TaskIds \cup {NoTask}

(* Exactly the task recorded as current is RUNNING: no sequence of events  *)
(* leaves two tasks on the processor, or none while one is recorded.       *)
OneRunner == \A t \in TaskIds : slot[t].state = "RUNNING" <=> current = t

(* A task waits for something: it keeps its reason while it is blocked,    *)
(* stopping it does not lose the reason, and a stopped task that was woken *)
(* will resume as RUNNABLE, so CONTINUE strands nobody on a past event.    *)
WaitsAreRemembered ==
    \A t \in TaskIds :
        LET s == slot[t]
        IN  /\ s.wait # NoReason <=>
                  s.state = "WAITING" \/ (s.state = "STOPPED" /\ s.resume = "WAITING")
            /\ s.state = "STOPPED" <=> s.resume # "FREE"

(* Nothing of an earlier task is left in a slot that can be allocated, and *)
(* only a zombie carries a status.                                         *)
ReuseLeaksNothing ==
    \A t \in TaskIds :
        /\ slot[t].state = "FREE" => slot[t] = ClearSlot
        /\ slot[t].state # "ZOMBIE" => slot[t].exit = NoStatus
        /\ slot[t].parent # t

(* The inductive invariant.                                                *)
LifecycleInv == TypeOK /\ OneRunner /\ WaitsAreRemembered /\ ReuseLeaksNothing

(* A zombie keeps its parent and status until it is reaped whole: a late   *)
(* CANCEL, STOP or wake-up cannot overwrite the status a parent will read. *)
ZombiesAreFinal ==
    [][\A t \in TaskIds :
          slot[t].state = "ZOMBIE" => slot'[t] \in {slot[t], ClearSlot}]_vars
=============================================================================
