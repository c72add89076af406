------------------------------ MODULE MCInPath ------------------------------
(* Two interfaces of one key. *)
EXTENDS InPath
CONSTANTS k1, k2
MCItf == {k1, k2}
===========================================================================
