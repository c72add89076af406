----------------------------- MODULE SpscQueue -----------------------------
(***************************************************************************)
(* spsc_queue<T, N> of src/main.cpp: the lock-free ring between the cores. *)
(* Every report crosses one: g_inq[i] is filled by core 1 (the report      *)
(* callback) and emptied by core 0 (forward_in, presence_service);         *)
(* g_outq[i] is filled by core 0's USB interrupt (set_report_thunk) and    *)
(* emptied by core 1 (forward_out, pc_present_set).                        *)
(*                                                                         *)
(* A step reads or writes ONE location the other core can see.  The        *)
(* caller's copy into the slot is two steps, with the slot Torn between    *)
(* them, so that an overlapping read is a state TLC can reach.             *)
(***************************************************************************)
EXTENDS Naturals, Sequences

CONSTANTS
    N,      \* slots in the ring: PROXY_IN_QUEUE_LEN or PROXY_OUT_QUEUE_LEN
    Msg,    \* the reports, a small set
    Torn    \* what a slot holds while it is being written

ASSUME NAssumption == N \in Nat /\ N >= 2
ASSUME TornAssumption == Torn \notin Msg

VARIABLES
    slot,   \* T slot[N]
    head,   \* volatile uint16_t head, written by the producer only
    tail,   \* volatile uint16_t tail, written by the consumer only
    ppc,    \* producer: "idle", "reserved", "writing", "written"
    pmsg,   \* the report the producer is copying in (a set of <= 1)
    cpc,    \* consumer: "idle", "peeked", "holding", "flushing"
    cgot,   \* what the consumer read from the slot (a set of <= 1)
    chead   \* flush's copy of head, between its read and its store

vars == <<slot, head, tail, ppc, pmsg, cpc, cgot, chead>>

Index == 0 .. N - 1

\* Mutant of Succ: the index is not wrapped.
SuccUnwrapped(i) == i + 1

\* (uint16_t)((i + 1) % N); i + 1 is an int in C++, so nothing wraps first.
Succ(i) == (i + 1) % N

Init ==
    /\ slot = [i \in Index |-> Torn]
    /\ head = 0
    /\ tail = 0
    /\ ppc = "idle"
    /\ pmsg = {}
    /\ cpc = "idle"
    /\ cgot = {}
    /\ chead = 0

---------------------------------------------------------------------------
(* Producer *)

\* Mutant of Reserve: the test for a full ring is missing.
ReserveUnchecked(m) ==
    /\ ppc = "idle"
    /\ ppc' = "reserved"
    /\ pmsg' = {m}
    /\ UNCHANGED <<slot, head, tail, cpc, cgot, chead>>

\* reserve() that finds room.  A full ring returns nullptr and changes
\* nothing, so the caller that gives up or spins is a stutter here.
Reserve(m) ==
    /\ ppc = "idle"
    /\ Succ(head) # tail
    /\ ppc' = "reserved"
    /\ pmsg' = {m}
    /\ UNCHANGED <<slot, head, tail, cpc, cgot, chead>>

BeginWrite ==
    /\ ppc = "reserved"
    /\ ppc' = "writing"
    /\ slot' = [slot EXCEPT ![head] = Torn]
    /\ UNCHANGED <<head, tail, pmsg, cpc, cgot, chead>>

EndWrite ==
    /\ ppc = "writing"
    /\ ppc' = "written"
    /\ \E m \in pmsg : slot' = [slot EXCEPT ![head] = m]
    /\ UNCHANGED <<head, tail, pmsg, cpc, cgot, chead>>

\* commit(): the barrier keeps the copy before this store.
Commit ==
    /\ ppc = "written"
    /\ ppc' = "idle"
    /\ pmsg' = {}
    /\ head' = Succ(head)
    /\ UNCHANGED <<slot, tail, cpc, cgot, chead>>

---------------------------------------------------------------------------
(* Consumer *)

\* Mutant of Peek: the test for an empty ring is missing.
PeekUnchecked ==
    /\ cpc = "idle"
    /\ cpc' = "peeked"
    /\ UNCHANGED <<slot, head, tail, ppc, pmsg, cgot, chead>>

\* peek() that finds a report; an empty ring returns nullptr.
Peek ==
    /\ cpc = "idle"
    /\ tail # head
    /\ cpc' = "peeked"
    /\ UNCHANGED <<slot, head, tail, ppc, pmsg, cgot, chead>>

ReadSlot ==
    /\ cpc = "peeked"
    /\ cpc' = "holding"
    /\ cgot' = {slot[tail]}
    /\ UNCHANGED <<slot, head, tail, ppc, pmsg, chead>>

Pop ==
    /\ cpc = "holding"
    /\ cpc' = "idle"
    /\ cgot' = {}
    /\ tail' = Succ(tail)
    /\ UNCHANGED <<slot, head, ppc, pmsg, chead>>

\* The stack refused the report: forward_in and forward_out leave it queued.
Retry ==
    /\ cpc = "holding"
    /\ cpc' = "idle"
    /\ cgot' = {}
    /\ UNCHANGED <<slot, head, tail, ppc, pmsg, chead>>

\* Mutant of FlushStore: it stores the head of now, read a second time.
FlushStoreAnew ==
    /\ cpc = "flushing"
    /\ cpc' = "idle"
    /\ tail' = head
    /\ UNCHANGED <<slot, head, ppc, pmsg, cgot, chead>>

\* flush() is tail = head: one read of head, then one store to tail.
FlushRead ==
    /\ cpc = "idle"
    /\ cpc' = "flushing"
    /\ chead' = head
    /\ UNCHANGED <<slot, head, tail, ppc, pmsg, cgot>>

FlushStore ==
    /\ cpc = "flushing"
    /\ cpc' = "idle"
    /\ tail' = chead
    /\ UNCHANGED <<slot, head, ppc, pmsg, cgot, chead>>

---------------------------------------------------------------------------

Producer == (\E m \in Msg : Reserve(m)) \/ BeginWrite \/ EndWrite \/ Commit
Consumer == Peek \/ ReadSlot \/ Pop \/ Retry \/ FlushRead \/ FlushStore

Next == Producer \/ Consumer

Spec == Init /\ [][Next]_vars

---------------------------------------------------------------------------
(* Properties *)

\* How many reports lie from index a up to index b.
Dist(a, b) == IF a <= b THEN b - a ELSE b - a + N

\* The k-th slot from tail.
At(k) == IF tail + k < N THEN tail + k ELSE tail + k - N

\* Types of all the ring's state, the caller's locals included.
TypeOK ==
    /\ slot \in [Index -> Msg \cup {Torn}]
    /\ head \in Index
    /\ tail \in Index
    /\ ppc \in {"idle", "reserved", "writing", "written"}
    /\ pmsg \in SUBSET Msg
    /\ cpc \in {"idle", "peeked", "holding", "flushing"}
    /\ cgot \in SUBSET (Msg \cup {Torn})
    /\ chead \in Index

\* No data race on a slot: while the producer is copying into a slot the
\* consumer is not using that slot, neither through peek() nor (once the
\* index moves) through a flush in progress.
NoSlotRace ==
    ppc \in {"reserved", "writing", "written"} /\ cpc \in {"peeked", "holding"}
        => head # tail

\* The consumer never sees a half-written report: what peek() led it to is a
\* report the producer finished copying.
NeverTorn == Torn \notin cgot

\* The ring is the queue of Fifo: the reports from tail up to head, the one
\* in the consumer's hand, and the ones a flush has set its mark on.
Fifo == INSTANCE Fifo WITH
    Capacity <- N - 1,
    queue  <- [k \in 1 .. Dist(tail, head) |-> slot[At(k - 1)]],
    got    <- cgot,
    marked <- IF cpc = "flushing" THEN Dist(tail, chead) ELSE 0

\* Every step of the two cores on the ring is a step of the abstract queue:
\* nothing is lost, duplicated, reordered or torn, and a flush that overlaps
\* a commit does not discard the new report.
RefinesFifo == Fifo!FifoSpec
===========================================================================
