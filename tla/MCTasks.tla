------------------------------ MODULE MCTasks ------------------------------
(* The shell, the task SPAWN creates and one or two loaded programs, with  *)
(* the requests that matter to one question at a time.                     *)
EXTENDS Tasks

OneNative == {3}
TwoNatives == {3, 4}
OneStatus == {0}
TwoStatuses == {0, 1}
ProcessOperations == {"YIELD", "EXIT", "WAITPID", "CANCEL", "SPAWN"}
TimerOperations ==
    {"YIELD", "SLEEP", "POLL", "READ", "PROMPT", "CANCEL", "INVALID"}
TurnOperations == {"YIELD", "EXIT", "SPAWN"}
ClockOperations == {"YIELD", "SLEEP", "POLL"}
=============================================================================
