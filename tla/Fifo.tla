------------------------------- MODULE Fifo -------------------------------
(***************************************************************************)
(* What spsc_queue (src/main.cpp) promises to the two cores that share     *)
(* one: a bounded first-in first-out queue.  A report that was committed   *)
(* is handed to the consumer whole, once, and in order, unless a flush     *)
(* discards it; and a flush discards exactly the reports that were queued  *)
(* when it began, never one that was committed while it ran.               *)
(***************************************************************************)
EXTENDS Naturals, Sequences

CONSTANTS
    Msg,        \* the reports
    Capacity    \* how many reports fit

VARIABLES
    queue,      \* the reports committed and not yet taken
    got,        \* the report the consumer was handed last (a set of <= 1)
    marked      \* how many reports the flush in progress will discard

fifoVars == <<queue, got, marked>>

FifoInit ==
    /\ queue = <<>>
    /\ got = {}
    /\ marked = 0

Put(m) ==
    /\ Len(queue) < Capacity
    /\ queue' = Append(queue, m)
    /\ UNCHANGED <<got, marked>>

\* The consumer looks at the oldest report; it stays queued until Drop.
See ==
    /\ queue # <<>>
    /\ got' = {Head(queue)}
    /\ UNCHANGED <<queue, marked>>

Drop ==
    /\ queue # <<>>
    /\ got # {}
    /\ got' = {}
    /\ queue' = Tail(queue)
    /\ UNCHANGED marked

\* The consumer gives the report back to try again later (peek, no pop).
Leave ==
    /\ got' = {}
    /\ UNCHANGED <<queue, marked>>

FlushMark ==
    /\ marked' = Len(queue)
    /\ UNCHANGED <<queue, got>>

FlushDrop ==
    /\ queue' = SubSeq(queue, marked + 1, Len(queue))
    /\ marked' = 0
    /\ UNCHANGED got

FifoNext ==
    \/ \E m \in Msg : Put(m)
    \/ See \/ Drop \/ Leave
    \/ FlushMark \/ FlushDrop

FifoSpec == FifoInit /\ [][FifoNext]_fifoVars
===========================================================================
