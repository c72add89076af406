----------------------------- MODULE MCLogRing -----------------------------
(* A ring of four cells, two characters, and core 1 and the USB interrupt to  *)
(* write them.                                                                *)
EXTENDS LogRing
CONSTANTS c1, c2, core1, irq
MCChar == {c1, c2}
MCProducer == {core1, irq}
===========================================================================
