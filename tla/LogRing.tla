------------------------------- MODULE LogRing -------------------------------
(***************************************************************************)
(* LogRing of include/log_ring.h: the ring of characters that everything   *)
(* logs into and drain_log (core 0) empties.  write() has no lock, so a    *)
(* step here is one access to a location another producer can see.  As     *)
(* long as no two writes overlap the ring is the queue of Fifo; the header *)
(* promises it to "any core, including IRQ context".                       *)
(***************************************************************************)
EXTENDS Naturals, Sequences

CONSTANTS
    N,          \* kSize
    Char,       \* the characters, a small set
    Blank,      \* what a cell holds before its first use
    Producer,   \* who writes: core 1, core 0, the USB interrupt
    Budget      \* bound: how many characters are written

VARIABLES
    buf,        \* buf_
    head,       \* head_
    tail,       \* tail_
    dropped,    \* dropped_, as far as it is 0 or not
    ppc,        \* per producer: "idle", "room" or "stored"
    char,       \* per producer: *s (a set of <= 1)
    next,       \* per producer: its local next
    cpc,        \* core 0 in read(): "idle" or "got"
    got,        \* the character it read (a set of <= 1)
    put,        \* history: how many characters write() said it had written
    taken       \* history: how many core 0 has read

prodVars == <<ppc, char, next, put>>
consVars == <<cpc, got, taken>>
vars == <<buf, head, tail, dropped, prodVars, consVars>>

Index == 0 .. N - 1

\* (uint16_t)((i + 1) % kSize)
Succ(i) == (i + 1) % N

Init ==
    /\ buf = [i \in Index |-> Blank]
    /\ head = 0 /\ tail = 0 /\ dropped = FALSE
    /\ ppc = [p \in Producer |-> "idle"]
    /\ char = [p \in Producer |-> {}]
    /\ next = [p \in Producer |-> 0]
    /\ cpc = "idle" /\ got = {}
    /\ put = 0 /\ taken = 0

---------------------------------------------------------------------------
(* write(), once round its loop *)

\* next is computed, and there is room.
Room(p, c) ==
    /\ ppc[p] = "idle"
    /\ put < Budget
    /\ Succ(head) # tail
    /\ ppc' = [ppc EXCEPT ![p] = "room"]
    /\ char' = [char EXCEPT ![p] = {c}]
    /\ next' = [next EXCEPT ![p] = Succ(head)]
    /\ UNCHANGED <<buf, head, tail, dropped, put, consVars>>

\* There is none: the rest of the string goes nowhere.
Full(p) ==
    /\ ppc[p] = "idle"
    /\ Succ(head) = tail
    /\ dropped' = TRUE
    /\ UNCHANGED <<buf, head, tail, prodVars, consVars>>

\* buf_[head_] = *s, with head_ read again.
Store(p) ==
    /\ ppc[p] = "room"
    /\ ppc' = [ppc EXCEPT ![p] = "stored"]
    /\ \E c \in char[p] : buf' = [buf EXCEPT ![head] = c]
    /\ UNCHANGED <<head, tail, dropped, char, next, put, consVars>>

\* head_ = next
Advance(p) ==
    /\ ppc[p] = "stored"
    /\ ppc' = [ppc EXCEPT ![p] = "idle"]
    /\ char' = [char EXCEPT ![p] = {}]
    /\ head' = next[p]
    /\ put' = put + 1
    /\ UNCHANGED <<buf, tail, dropped, next, consVars>>

---------------------------------------------------------------------------
(* read(); empty() leaves no trace *)

ReadChar ==
    /\ cpc = "idle"
    /\ tail # head
    /\ cpc' = "got"
    /\ got' = {buf[tail]}
    /\ UNCHANGED <<buf, head, tail, dropped, prodVars, taken>>

Consume ==
    /\ cpc = "got"
    /\ cpc' = "idle"
    /\ got' = {}
    /\ tail' = Succ(tail)
    /\ taken' = taken + 1
    /\ UNCHANGED <<buf, head, dropped, prodVars>>

Next ==
    \/ \E p \in Producer : (\E c \in Char : Room(p, c)) \/ Full(p) \/ Store(p) \/ Advance(p)
    \/ ReadChar \/ Consume

Spec == Init /\ [][Next]_vars

---------------------------------------------------------------------------
(* Properties *)

\* How many characters lie from index a up to index b.
Dist(a, b) == IF a <= b THEN b - a ELSE b - a + N

\* The k-th cell from tail.
At(k) == IF tail + k < N THEN tail + k ELSE tail + k - N

\* Types of the ring and of the locals of write() and read().
TypeOK ==
    /\ buf \in [Index -> Char \cup {Blank}]
    /\ head \in Index /\ tail \in Index /\ dropped \in BOOLEAN
    /\ ppc \in [Producer -> {"idle", "room", "stored"}]
    /\ char \in [Producer -> SUBSET Char]
    /\ next \in [Producer -> Index]
    /\ cpc \in {"idle", "got"} /\ got \in SUBSET (Char \cup {Blank})
    /\ put \in 0 .. Budget /\ taken \in Nat

\* The characters in the ring, the one core 0 is reading among them.
Fifo == INSTANCE Fifo WITH
    Msg <- Char,
    Capacity <- N - 1,
    queue <- [k \in 1 .. Dist(tail, head) |-> buf[At(k - 1)]],
    got <- got,
    marked <- 0

\* The log comes out as it went in: what write() accepted is read once, whole
\* and in order, although the reader may be anywhere in read().
RefinesFifo == Fifo!FifoSpec

\* "Producer: any core, including IRQ context" (log_ring.h:35), and it is the
\* "overflow" that "drops characters" (17-18): whoever writes, a character that
\* write() accepted is in the ring until core 0 has read it.
NothingVanishes == put = taken + Dist(tail, head)
===========================================================================
