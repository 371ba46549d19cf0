-------------------------- MODULE LifecycleProofs --------------------------
(***************************************************************************)
(* The task table keeps its invariant for every number of slots, every set *)
(* of wait reasons and every set of statuses: the invariant is inductive,  *)
(* one lemma per operation.                                                *)
(***************************************************************************)
EXTENDS Lifecycle, TLAPS

(* An accepted CREATE keeps the invariant: the slot it fills was FREE, so  *)
(* it was neither current nor somebody's zombie.                           *)
LEMMA CreateKeepsInvariant ==
    ASSUME LifecycleInv, NEW id, NEW parent, NEW flags, Create(id, parent, flags)
    PROVE  LifecycleInv'
<1> USE LifecycleAssumption
<1>1. CASE UNCHANGED vars
  BY <1>1 DEF LifecycleInv, TypeOK, OneRunner, WaitsAreRemembered,
              ReuseLeaksNothing, vars
<1>2. CASE CreateResult(id, parent, flags) = "OK" /\ ~UNCHANGED vars
  <2> DEFINE new == [ClearSlot EXCEPT !.parent = parent, !.flags = flags,
                                      !.state = "NEW"]
  <2>1. /\ id \in TaskIds
        /\ flags \subseteq UserFlags
        /\ slot[id].state = "FREE"
        /\ parent \in TaskIds \cup {NoTask}
        /\ parent # id
    BY <1>2 DEF CreateResult, TaskIds, NoTask
  <2>2. /\ slot' = [slot EXCEPT ![id] = new]
        /\ current' = current
    BY <1>2 DEF Create
  <2>3. new \in Slots
    BY <2>1 DEF Slots, ClearSlot, States
  <2>4. /\ new.state = "NEW" /\ new.wait = NoReason /\ new.resume = "FREE"
        /\ new.exit = NoStatus /\ new.parent = parent
    BY DEF ClearSlot
  <2> HIDE DEF new
  <2>5. TypeOK'
    BY <2>1, <2>2, <2>3 DEF LifecycleInv, TypeOK
  <2>6. \A t \in TaskIds : slot'[t] = IF t = id THEN new ELSE slot[t]
    BY <2>1, <2>2 DEF LifecycleInv, TypeOK
  <2>7. OneRunner'
    BY <2>1, <2>2, <2>4, <2>6 DEF LifecycleInv, OneRunner
  <2>8. WaitsAreRemembered'
    BY <2>1, <2>4, <2>6 DEF LifecycleInv, WaitsAreRemembered
  <2>9. ReuseLeaksNothing'
    BY <2>1, <2>4, <2>6 DEF LifecycleInv, ReuseLeaksNothing
  <2> QED BY <2>5, <2>7, <2>8, <2>9 DEF LifecycleInv
<1> QED BY <1>1, <1>2 DEF Create

(* Every accepted event yields a well-formed record: its wait reason and   *)
(* its resume state fit its new state, and only a zombie has a status.     *)
LEMMA NextSlotFits ==
    ASSUME LifecycleInv, NEW id \in TaskIds, NEW event \in Events,
           NEW argument \in Arguments(event),
           ApplyResult(id, event, argument) = "OK", ~IsRedispatch(id, event)
    PROVE  LET n == NextSlot(slot[id], event, argument)
           IN  /\ n \in Slots
               /\ n.wait # NoReason <=>
                     n.state = "WAITING" \/ (n.state = "STOPPED" /\ n.resume = "WAITING")
               /\ n.state = "STOPPED" <=> n.resume # "FREE"
               /\ n.state = "FREE" => n = ClearSlot
               /\ n.state # "ZOMBIE" => n.exit = NoStatus
               /\ n.parent # id
               /\ n.state = "RUNNING" <=> event = "DISPATCH"
<1> USE LifecycleAssumption
<1> DEFINE s == slot[id]
<1> DEFINE n == NextSlot(s, event, argument)
<1>1. s \in Slots
  BY DEF LifecycleInv, TypeOK
<1>2. /\ s.wait # NoReason <=>
            s.state = "WAITING" \/ (s.state = "STOPPED" /\ s.resume = "WAITING")
      /\ s.state = "STOPPED" <=> s.resume # "FREE"
      /\ s.state # "ZOMBIE" => s.exit = NoStatus
      /\ s.parent # id
  BY DEF LifecycleInv, WaitsAreRemembered, ReuseLeaksNothing
<1>3. s.state \in Sources[event]
  BY DEF ApplyResult
<1>4. ClearSlot \in Slots /\ ClearSlot.parent # id
  BY DEF ClearSlot, Slots, States, TaskIds, NoTask
<1>5. \A state \in States : Moved(s, state) \in Slots
  BY <1>1 DEF Moved, Slots
<1>6. \A state \in States : LET r == Moved(s, state)
        IN /\ r.state = state /\ r.wait = NoReason /\ r.resume = "FREE"
           /\ r.exit = s.exit /\ r.parent = s.parent
  BY <1>1 DEF Moved, Slots
<1>7. CASE event \in {"ADMIT", "YIELD"}
  <2>1. n = Moved(s, "RUNNABLE") /\ s.state # "ZOMBIE"
    BY <1>3, <1>7 DEF NextSlot, Sources
  <2> QED BY <2>1, <1>2, <1>5, <1>6, <1>7 DEF States
<1>8. CASE event = "DISPATCH"
  <2>1. n = Moved(s, "RUNNING") /\ s.state # "ZOMBIE"
    BY <1>3, <1>8 DEF NextSlot, Sources
  <2> QED BY <2>1, <1>2, <1>5, <1>6, <1>8 DEF States
<1>9. CASE event = "BLOCK"
  <2>1. n = [s EXCEPT !.state = "WAITING", !.wait = argument]
    BY <1>9 DEF NextSlot
  <2>2. s.state = "RUNNING" /\ argument \in Reasons
    BY <1>3, <1>9 DEF Sources, ApplyResult, IsRedispatch
  <2> QED BY <2>1, <2>2, <1>1, <1>2, <1>9 DEF Slots, States
<1>10. CASE event = "UNBLOCK"
  <2>1. n = Woken(s) /\ s.state \in {"WAITING", "STOPPED"}
    BY <1>3, <1>10 DEF NextSlot, Sources
  <2>2. CASE s.state = "STOPPED"
    <3>1. n = [s EXCEPT !.wait = NoReason, !.resume = "RUNNABLE"]
      BY <2>1, <2>2 DEF Woken
    <3> QED BY <3>1, <2>2, <1>1, <1>2, <1>10 DEF Slots, States
  <2>3. CASE s.state = "WAITING"
    <3>1. n = Moved(s, "RUNNABLE")
      BY <2>1, <2>3 DEF Woken
    <3> QED BY <3>1, <2>3, <1>2, <1>5, <1>6, <1>10 DEF States
  <2> QED BY <2>1, <2>2, <2>3
<1>11. CASE event = "STOP"
  <2>1. n = [s EXCEPT !.state = "STOPPED",
                      !.resume = IF s.state = "WAITING" THEN "WAITING" ELSE "RUNNABLE"]
    BY <1>11 DEF NextSlot
  <2>2. s.state \in {"RUNNABLE", "RUNNING", "WAITING"}
    BY <1>3, <1>11 DEF Sources
  <2> QED BY <2>1, <2>2, <1>1, <1>2, <1>11 DEF Slots, States
<1>12. CASE event = "CONTINUE"
  <2>1. n = [s EXCEPT !.state = IF s.resume = "WAITING" THEN "WAITING" ELSE "RUNNABLE",
                      !.resume = "FREE"]
    BY <1>12 DEF NextSlot
  <2>2. s.state = "STOPPED"
    BY <1>3, <1>12 DEF Sources
  <2> QED BY <2>1, <2>2, <1>1, <1>2, <1>12 DEF Slots, States
<1>13. CASE event \in {"EXIT", "CANCEL"}
  <2>1. n = [Moved(s, "ZOMBIE") EXCEPT !.exit = argument]
    BY <1>13 DEF NextSlot
  <2>2. argument \in Statuses
    BY <1>13 DEF Arguments
  <2>3. Moved(s, "ZOMBIE") \in Slots
    BY <1>5 DEF States
  <2> QED BY <2>1, <2>2, <2>3, <1>2, <1>6, <1>13 DEF Slots, States
<1>14. CASE event = "REAP"
  <2>1. n = ClearSlot
    BY <1>14 DEF NextSlot, Reaped
  <2> QED BY <2>1, <1>4, <1>14 DEF ClearSlot
<1> QED BY <1>7, <1>8, <1>9, <1>10, <1>11, <1>12, <1>13, <1>14 DEF Events

(* An event of either kind, accepted or not, keeps the invariant.          *)
LEMMA ApplyKeepsInvariant ==
    ASSUME LifecycleInv, NEW id, NEW event \in Events \cup {"CREATE"},
           NEW argument \in Arguments(event), Apply(id, event, argument)
    PROVE  LifecycleInv'
<1> USE LifecycleAssumption
<1>1. CASE UNCHANGED vars
  BY <1>1 DEF LifecycleInv, TypeOK, OneRunner, WaitsAreRemembered,
              ReuseLeaksNothing, vars
<1>2. CASE ~UNCHANGED vars
  <2> DEFINE n == NextSlot(slot[id], event, argument)
  <2>1. /\ ApplyResult(id, event, argument) = "OK"
        /\ ~IsRedispatch(id, event)
        /\ slot' = [slot EXCEPT ![id] = n]
        /\ current' = NextCurrent(id, event)
    BY <1>2 DEF Apply
  <2>2. /\ id \in TaskIds
        /\ event \in Events
        /\ event = "DISPATCH" => current \in {NoTask, id}
    BY <2>1 DEF ApplyResult
  <2>3. /\ n \in Slots
        /\ n.wait # NoReason <=>
              n.state = "WAITING" \/ (n.state = "STOPPED" /\ n.resume = "WAITING")
        /\ n.state = "STOPPED" <=> n.resume # "FREE"
        /\ n.state = "FREE" => n = ClearSlot
        /\ n.state # "ZOMBIE" => n.exit = NoStatus
        /\ n.parent # id
        /\ n.state = "RUNNING" <=> event = "DISPATCH"
    BY <2>1, <2>2, NextSlotFits
  <2> HIDE DEF n
  <2>4. \A t \in TaskIds : slot'[t] = IF t = id THEN n ELSE slot[t]
    BY <2>1, <2>2 DEF LifecycleInv, TypeOK
  <2>5. TypeOK'
    BY <2>1, <2>2, <2>3 DEF LifecycleInv, TypeOK, NextCurrent
  <2>6. OneRunner'
    <3>1. NoTask \notin TaskIds
      BY DEF NoTask, TaskIds
    <3> QED BY <3>1, <2>1, <2>2, <2>3, <2>4 DEF LifecycleInv, OneRunner, NextCurrent
  <2>7. WaitsAreRemembered'
    BY <2>3, <2>4 DEF LifecycleInv, WaitsAreRemembered
  <2>8. ReuseLeaksNothing'
    BY <2>3, <2>4 DEF LifecycleInv, ReuseLeaksNothing
  <2> QED BY <2>5, <2>6, <2>7, <2>8 DEF LifecycleInv
<1> QED BY <1>1, <1>2

LEMMA StepKeepsInvariant == LifecycleInv /\ [Next]_vars => LifecycleInv'
<1> SUFFICES ASSUME LifecycleInv, [Next]_vars PROVE LifecycleInv'
  OBVIOUS
<1>1. CASE UNCHANGED vars
  BY <1>1 DEF LifecycleInv, TypeOK, OneRunner, WaitsAreRemembered,
              ReuseLeaksNothing, vars
<1>2. CASE \E id, parent \in 0 .. MaxTasks + 1, flags \in FlagSets :
              Create(id, parent, flags)
  BY <1>2, CreateKeepsInvariant
<1>3. CASE \E id \in 0 .. MaxTasks + 1, event \in Events \cup {"CREATE"} :
              \E argument \in Arguments(event) : Apply(id, event, argument)
  BY <1>3, ApplyKeepsInvariant
<1> QED BY <1>1, <1>2, <1>3 DEF Next

(* The invariant of the task table, for a table of any size: at most one   *)
(* task runs and it is the recorded one, waits keep their reason through   *)
(* STOP and CONTINUE, and a FREE slot is a cleared slot.                   *)
THEOREM LifecycleIsInvariant == Spec => []LifecycleInv
<1>1. Init => LifecycleInv
  BY LifecycleAssumption
     DEF Init, LifecycleInv, TypeOK, OneRunner, WaitsAreRemembered,
         ReuseLeaksNothing, ClearSlot, Slots, States, TaskIds, NoTask
<1> QED BY <1>1, StepKeepsInvariant, PTL DEF Spec

(* The part of the invariant about the processor.                          *)
THEOREM OneTaskRuns == Spec => []OneRunner
<1>1. LifecycleInv => OneRunner
  BY DEF LifecycleInv
<1> QED BY <1>1, LifecycleIsInvariant, PTL

(* The part about blocked and stopped tasks.                               *)
THEOREM WaitsSurviveStops == Spec => []WaitsAreRemembered
<1>1. LifecycleInv => WaitsAreRemembered
  BY DEF LifecycleInv
<1> QED BY <1>1, LifecycleIsInvariant, PTL

(* No event but REAP changes a zombie, and REAP clears all of it.          *)
THEOREM ZombiesKeepTheirStatus == Spec => ZombiesAreFinal
<1> DEFINE Final == \A t \in TaskIds :
                      slot[t].state = "ZOMBIE" => slot'[t] \in {slot[t], ClearSlot}
<1>1. LifecycleInv /\ [Next]_vars => [Final]_vars
  <2> SUFFICES ASSUME LifecycleInv, Next, ~UNCHANGED vars,
                      NEW t \in TaskIds, slot[t].state = "ZOMBIE"
               PROVE  slot'[t] \in {slot[t], ClearSlot}
    BY DEF LifecycleInv
  <2>1. slot \in [TaskIds -> Slots]
    BY DEF LifecycleInv, TypeOK
  <2>2. ASSUME NEW id, NEW parent, NEW flags, Create(id, parent, flags)
        PROVE  slot'[t] = slot[t]
    <3>1. slot[id].state = "FREE" /\ id \in TaskIds
      BY <2>2 DEF CreateResult, Create
    <3> QED BY <3>1, <2>1, <2>2 DEF Create
  <2>3. ASSUME NEW id, NEW event \in Events \cup {"CREATE"}, NEW argument,
               Apply(id, event, argument)
        PROVE  slot'[t] \in {slot[t], ClearSlot}
    <3>1. /\ id \in TaskIds
          /\ event \in Events
          /\ slot[id].state \in Sources[event]
          /\ slot' = [slot EXCEPT ![id] = NextSlot(slot[id], event, argument)]
      BY <2>3 DEF Apply, ApplyResult
    <3>2. CASE id # t
      BY <3>1, <3>2, <2>1
    <3>3. CASE id = t
      <4>1. event = "REAP"
        BY <3>1, <3>3 DEF Sources, Events, CancelSources, LiveStates
      <4> QED BY <4>1, <3>1, <3>3, <2>1 DEF NextSlot, Reaped
    <3> QED BY <3>2, <3>3
  <2> QED BY <2>2, <2>3 DEF Next
<1>2. LifecycleInv /\ [Next]_vars => LifecycleInv'
  BY StepKeepsInvariant
<1> QED BY <1>1, <1>2, LifecycleIsInvariant, PTL DEF Spec, ZombiesAreFinal
=============================================================================
