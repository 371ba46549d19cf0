----------------------------- MODULE MCTimeSlot -----------------------------
EXTENDS TimeSlot

(* Every size and every BSS size, so that both sums wrap; a service needs  *)
(* one vector to be entered in the wrong place.                            *)
HeaderImages ==
    {[sound |-> s, size |-> n, bss |-> b, vectors |-> {v}] :
        s \in BOOLEAN, n \in Words, b \in Words, v \in Words}
=============================================================================
