------------------------------ MODULE MCEngine ------------------------------
(* The self-test, two computations and a request the worker refuses.       *)
EXTENDS Engine

FourRequests == {"nop", "wave", "rows", "copy"}
SoundRequests == {"nop", "wave", "rows"}
=============================================================================
