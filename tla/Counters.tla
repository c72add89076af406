------------------------------ MODULE Counters ------------------------------
(***************************************************************************)
(* The counters of the health line in src/main.cpp: g_out_dropped with its *)
(* sticky flag g_out_drop_flag, and g_out_sent.  They are incremented by   *)
(* set_report_thunk (core 0's USB interrupt), by the injected faults (core *)
(* 0's loop) and by forward_out (core 1), and reset_counters ('z', core    *)
(* 0's loop) zeroes them.  An increment of a volatile is a load and a      *)
(* store, so a step is one load or one store.  The interrupt preempts core *)
(* 0's loop and is not preempted by it.                                    *)
(***************************************************************************)
EXTENDS Naturals

CONSTANTS
    Events,     \* bound: how many reports are counted
    Resets      \* bound: how often the operator types 'z'

ASSUME BoundsAssumption == Events \in Nat /\ Resets \in Nat

VARIABLES
    dropped,    \* g_out_dropped
    flag,       \* g_out_drop_flag
    sent,       \* g_out_sent
    pc,         \* per actor, what it does next
    reg,        \* per actor, the value it loaded
    seen,       \* history: drops since g_out_dropped was zeroed
    events, resets  \* what is left of the bounds

vars == <<dropped, flag, sent, pc, reg, seen, events, resets>>

Actor == {"irq", "loop", "core1"}

Init ==
    /\ dropped = 0 /\ flag = FALSE /\ sent = 0
    /\ pc = [a \in Actor |-> "idle"] /\ reg = [a \in Actor |-> 0]
    /\ seen = 0
    /\ events = Events /\ resets = Resets

\* Actor a's next step is the one called step.
At(a, step) == pc[a] = step /\ (a = "loop" => pc["irq"] = "idle")
Goto(a, step) == pc' = [pc EXCEPT ![a] = step]

---------------------------------------------------------------------------
(* A report is thrown away: set_report_thunk in the interrupt, an injected *)
(* fault in the loop, forward_out's discard on core 1.                     *)

LoadDropped(a) ==
    /\ At(a, "idle")
    /\ events > 0
    /\ events' = events - 1
    /\ reg' = [reg EXCEPT ![a] = dropped]
    /\ Goto(a, "store")
    /\ UNCHANGED <<dropped, flag, sent, seen, resets>>

\* Mutant of StoreDropped: the interrupt's drop is flagged and not counted.
StoreDroppedNot(a) ==
    /\ At(a, "store")
    /\ dropped' = IF a = "irq" THEN dropped ELSE reg[a] + 1
    /\ seen' = seen + 1
    /\ Goto(a, IF a = "core1" THEN "idle" ELSE "flag")
    /\ UNCHANGED <<flag, sent, reg, events, resets>>

\* Core 1's discard is counted and not flagged.
StoreDropped(a) ==
    /\ At(a, "store")
    /\ dropped' = reg[a] + 1
    /\ seen' = seen + 1
    /\ Goto(a, IF a = "core1" THEN "idle" ELSE "flag")
    /\ UNCHANGED <<flag, sent, reg, events, resets>>

SetFlag(a) ==
    /\ At(a, "flag")
    /\ flag' = TRUE
    /\ Goto(a, "idle")
    /\ UNCHANGED <<dropped, sent, reg, seen, events, resets>>

---------------------------------------------------------------------------
(* forward_out sends a report *)

LoadSent ==
    /\ At("core1", "idle")
    /\ events > 0
    /\ events' = events - 1
    /\ reg' = [reg EXCEPT !["core1"] = sent]
    /\ Goto("core1", "storeSent")
    /\ UNCHANGED <<dropped, flag, sent, seen, resets>>

StoreSent ==
    /\ At("core1", "storeSent")
    /\ sent' = reg["core1"] + 1
    /\ Goto("core1", "idle")
    /\ UNCHANGED <<dropped, flag, reg, seen, events, resets>>

---------------------------------------------------------------------------
(* reset_counters: g_out_sent, then g_out_dropped, then the flag *)

ZeroSent ==
    /\ At("loop", "idle")
    /\ resets > 0
    /\ resets' = resets - 1
    /\ sent' = 0
    /\ Goto("loop", "zeroDropped")
    /\ UNCHANGED <<dropped, flag, reg, seen, events>>

ZeroDropped ==
    /\ At("loop", "zeroDropped")
    /\ dropped' = 0 /\ seen' = 0
    /\ Goto("loop", "zeroFlag")
    /\ UNCHANGED <<flag, sent, reg, events, resets>>

\* Mutant of ZeroFlag: the flag is forgotten.
ZeroFlagNot ==
    /\ At("loop", "zeroFlag")
    /\ Goto("loop", "idle")
    /\ UNCHANGED <<dropped, flag, sent, reg, seen, events, resets>>

ZeroFlag ==
    /\ At("loop", "zeroFlag")
    /\ flag' = FALSE
    /\ Goto("loop", "idle")
    /\ UNCHANGED <<dropped, sent, reg, seen, events, resets>>

Next ==
    \/ \E a \in Actor : LoadDropped(a) \/ StoreDropped(a) \/ SetFlag(a)
    \/ LoadSent \/ StoreSent
    \/ ZeroSent \/ ZeroDropped \/ ZeroFlag

Spec == Init /\ [][Next]_vars

---------------------------------------------------------------------------
(* Properties *)

\* Types; no counter ever exceeds what there was to count.
TypeOK ==
    /\ {dropped, sent, seen} \subseteq 0 .. Events - events
    /\ flag \in BOOLEAN
    /\ pc \in [Actor -> {"idle", "store", "flag", "storeSent", "zeroDropped", "zeroFlag"}]
    /\ reg \in [Actor -> 0 .. Events]
    /\ events \in 0 .. Events /\ resets \in 0 .. Resets

\* The health line never hides a loss: however the increments and the zeroing
\* overlap, a report dropped since the count was zeroed leaves it above zero.
DropStaysVisible == seen > 0 => dropped > 0

\* The flag and the count agree: with neither under way on core 0, a flag that
\* is up goes with a count above zero, although the interrupt and core 1 may
\* have come between any two steps of reset_counters.
FlagIsCounted ==
    flag /\ pc["irq"] = "idle" /\ pc["loop"] = "idle" => dropped > 0
===========================================================================
