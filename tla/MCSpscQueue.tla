---------------------------- MODULE MCSpscQueue ----------------------------
(* A ring of four slots and two distinguishable reports. *)
EXTENDS SpscQueue
CONSTANTS m1, m2
MCMsg == {m1, m2}
===========================================================================
