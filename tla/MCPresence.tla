----------------------------- MODULE MCPresence -----------------------------
(***************************************************************************)
(* Three slots, and three kinds of key: the application fills the table    *)
(* with one slot to spare, the bootloader has one interface, and the last  *)
(* has an interface more than there are slots.                             *)
(***************************************************************************)
EXTENDS Presence, TLC
CONSTANTS app, boot, wide
MCKey == {app, boot, wide}
MCWidth == app :> 2 @@ boot :> 1 @@ wide :> 4
===========================================================================
