---------------------------- MODULE ProcessTree ----------------------------
(***************************************************************************)
(* What the tasking core promises about parents and children, without a    *)
(* table, a request record or a scheduler.  A process that dies owes its   *)
(* parent one report, if the parent is alive; the report is collected by   *)
(* that parent exactly once, or written off by the resident shell on       *)
(* behalf of the root process, or lost with the parent.                    *)
(***************************************************************************)
EXTENDS Integers

CONSTANTS Processes, Statuses, Root, Nobody

Reports == [parent : Processes, child : Processes, status : Statuses]

VARIABLES
    parentOf,   \* the live processes, each with its live parent or Nobody
    owed,       \* how many reports of each kind are still to be collected
    answer      \* the report this step gave to a parent, or none

vars == <<parentOf, owed, answer>>
Alive == DOMAIN parentOf
NoReport(r) == r \notin Reports

Init ==
    /\ parentOf = [p \in {Root} |-> Nobody]
    /\ owed = [r \in Reports |-> 0]
    /\ NoReport(answer)

Birth(child, parent) ==
    /\ child \notin Alive /\ parent \in Alive
    /\ parentOf' = [p \in Alive \cup {child} |->
                      IF p = child THEN parent ELSE parentOf[p]]
    /\ NoReport(answer')
    /\ UNCHANGED owed

(* The children of the dead become nobody's and their reports are lost.    *)
Death(child, status) ==
    /\ child \in Alive
    /\ parentOf' = [p \in Alive \ {child} |->
                      IF parentOf[p] = child THEN Nobody ELSE parentOf[p]]
    /\ owed' = [r \in Reports |->
                  IF r.parent = child THEN 0
                  ELSE IF r = [parent |-> parentOf[child], child |-> child,
                               status |-> status]
                       THEN owed[r] + 1
                       ELSE owed[r]]
    /\ NoReport(answer')

Collect(r) ==
    /\ owed[r] > 0
    /\ owed' = [owed EXCEPT ![r] = @ - 1]
    /\ answer' = r
    /\ UNCHANGED parentOf

(* Several at once: one pass of the resident shell.                        *)
WriteOff ==
    /\ owed' = [r \in Reports |-> owed'[r]]
    /\ \A r \in Reports :
          \/ owed'[r] = owed[r]
          \/ r.parent = Root /\ owed[r] > 0 /\ owed'[r] = owed[r] - 1
    /\ NoReport(answer')
    /\ UNCHANGED parentOf

Idle ==
    /\ NoReport(answer')
    /\ UNCHANGED <<parentOf, owed>>

Next ==
    \/ Idle
    \/ \E r \in Reports : Collect(r)
    \/ \E child, parent \in Processes : Birth(child, parent)
    \/ \E child \in Processes, status \in Statuses : Death(child, status)
    \/ WriteOff

Spec == Init /\ [][Next]_vars
=============================================================================
