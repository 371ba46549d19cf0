---------------------------- MODULE MCDiskImage ----------------------------
(* The images on disks of a few small tracks.                              *)
EXTENDS DiskImage

(* Four tracks a side, the second side's map on the track across from the  *)
(* directory's, as tracks 18 and 53 are.                                   *)
Small71 ==
    [count |-> <<3, 3, 3, 2, 3, 3, 3, 2>>, dir |-> 3, first |-> 1,
     reserved |-> {<<3, 0>>, <<3, 1>>} \union {7} \X (0 .. 2)]

Small81 ==
    [count |-> <<6, 6, 6, 6>>, dir |-> 3, first |-> 3, reserved |-> {3} \X (0 .. 3)]

SmallFiles ==
    {[name |-> "A", blocks |-> 1, last |-> 0], [name |-> "B", blocks |-> 1, last |-> 9],
     [name |-> "C", blocks |-> 2, last |-> 254], [name |-> "D", blocks |-> 1, last |-> 1],
     [name |-> "E", blocks |-> 3, last |-> 7]}

LastOnes == {"D", "E"}
=============================================================================
