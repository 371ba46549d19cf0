---------------------------- MODULE MCLifecycle ----------------------------
(* Three slots, two of the five wait reasons, two statuses, an accepted    *)
(* flag byte and one with a reserved bit.                                  *)
EXTENDS Lifecycle

MCReasons == {"CHILD", "TIMER"}
MCStatuses == {0, 1}
MCFlagSets == {{"USER"}, {"USER", "RESERVED"}}
=============================================================================
