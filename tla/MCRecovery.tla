----------------------------- MODULE MCRecovery -----------------------------
(***************************************************************************)
(* Instances of Recovery.  The times keep the order of the code's: a tap   *)
(* and a press are shorter than a cold entry's power-off, that is shorter  *)
(* than the silence before an attempt, and that is shorter than the grace. *)
(***************************************************************************)
EXTENDS Recovery

ColdTimes == [off |-> 2, boot |-> 1, hold |-> 1]
===========================================================================
