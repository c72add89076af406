----------------------------- MODULE MCOutPath -----------------------------
(***************************************************************************)
(* Instances of OutPath.  A unit of time is 500 ms, so PROXY_OUT_BLOCK_MS  *)
(* is 8, PROXY_HALFKAY_ERASE_MS is 6, and the 20 ms of grace round up to 1.*)
(***************************************************************************)
EXTENDS OutPath, TLC

\* The bootloader on interface 0 and a second interface that shares its
\* control pipe.
FlashSends == (0 :> {"erase", "block"}) @@ (1 :> {"small"})

\* An unknown interface without an endpoint, and one with an interrupt OUT
\* endpoint that takes FEATURE reports on the control pipe too.
MixedSends == (0 :> {"erase", "block"}) @@ (1 :> {"small", "feature"})
===========================================================================
