------------------------------- MODULE MCIpc -------------------------------
(* Two tasks that live and die, two names and enough serials to reuse both *)
(* endpoints and run the counter out.                                      *)
EXTENDS Ipc

MCTasks == {1, 2}
=============================================================================
