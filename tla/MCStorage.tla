----------------------------- MODULE MCStorage -----------------------------
(* Three units, two names, the loader and two programs whose tags wrap. *)
EXTENDS Storage, TLC

(* Units, names and tags are only compared with each other.                *)
Symmetry ==
    Permutations(Units) \cup Permutations(Files) \cup Permutations(Tags \ {Loader})
=============================================================================
