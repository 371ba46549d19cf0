----------------------------- MODULE RoundRobin -----------------------------
(***************************************************************************)
(* The selection policy of src/kernel/task_scheduler.c: the first runnable *)
(* task after the last selected one, in cyclic order of the identifiers.   *)
(* The behaviour around it is the most permissive one: between dispatches  *)
(* any task may become runnable or stop being so.                          *)
(***************************************************************************)
EXTENDS Integers

CONSTANT MaxTasks   \* slots in the table, 8 in the code

TaskIds == 1 .. MaxTasks
NoTask == 0

VARIABLES
    runnable,   \* the tasks whose slot is RUNNABLE
    selected    \* the task selected last, NoTask before the first

vars == <<runnable, selected>>

-----------------------------------------------------------------------------
(* The identifier the scan looks at in its i-th round.                     *)
Visited(after, i) == IF after + i > MaxTasks THEN after + i - MaxTasks ELSE after + i

(* How far the scan starting after one task is from another.               *)
Distance(after, t) == IF t > after THEN t - after ELSE t - after + MaxTasks

(* Mutant: the scan restarts at task 1 every time.                         *)
SelectNextFromOne(after, candidates) ==
    IF candidates = {} THEN NoTask
    ELSE CHOOSE t \in candidates : \A u \in candidates : t <= u

(* Mutant: the scan looks at the task it starts from first.                *)
SelectNextSticky(after, candidates) ==
    IF candidates = {} THEN NoTask
    ELSE IF after \in candidates THEN after
    ELSE CHOOSE t \in candidates :
            \A u \in candidates : Distance(after, t) <= Distance(after, u)

(* udeks_scheduler_select_next: MaxTasks rounds, the first hit wins.       *)
SelectNext(after, candidates) ==
    LET hits == {i \in TaskIds : Visited(after, i) \in candidates}
    IN  IF hits = {} THEN NoTask
        ELSE Visited(after, CHOOSE i \in hits : \A j \in hits : i <= j)

-----------------------------------------------------------------------------
Init == runnable \in SUBSET TaskIds /\ selected \in TaskIds \cup {NoTask}

Dispatch ==
    /\ runnable # {}
    /\ selected' = SelectNext(selected, runnable)
    /\ runnable' = runnable \ {selected'}

Change ==
    /\ runnable' \in SUBSET TaskIds
    /\ UNCHANGED selected

Next == Dispatch \/ Change

Spec == Init /\ [][Next]_vars

-----------------------------------------------------------------------------
TypeOK == runnable \subseteq TaskIds /\ selected \in TaskIds \cup {NoTask}

(* Bounded overtaking: a dispatch that passes over a runnable task brings  *)
(* the scan strictly closer to it, so whatever the others do in between, a *)
(* task that stays runnable is passed over fewer than MaxTasks times.      *)
ApproachesEveryWaiter ==
    [][\A t \in TaskIds :
          (Dispatch /\ t \in runnable /\ selected' # t) =>
              /\ selected' \in runnable
              /\ Distance(selected', t) < Distance(selected, t)]_vars
=============================================================================
