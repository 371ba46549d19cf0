----------------------------- MODULE MCKeyboard -----------------------------
(* Two keys in two columns and a ring of two, so that one poll can overrun *)
(* it and indices wrap.                                                    *)
EXTENDS Keyboard

TwoLines == {0, 1}
OneBit == {0}
=============================================================================
