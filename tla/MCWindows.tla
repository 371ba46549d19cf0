----------------------------- MODULE MCWindows -----------------------------
(* The window manager on a bitmap of a few cells.                          *)
EXTENDS Windows

Squares == {<<2, 2>>}
=============================================================================
