------------------------------ MODULE Watchdog ------------------------------
(***************************************************************************)
(* core1_watchdog_service of src/main.cpp (core 0) against the work core 1 *)
(* does in loop1(): the host task, a cold bootloader entry, a descriptor   *)
(* dump.  Core 0 may look only at the tick counter and at two flags, and   *)
(* has to tell a core 1 that is wedged from one that is merely busy.       *)
(*                                                                         *)
(* External: the TinyUSB host stack (a synchronous transfer returns when   *)
(* the key answers and has no timeout of its own), the console operator.   *)
(*                                                                         *)
(* Time is counted in units of about a second.  A core 1 that is neither   *)
(* wedged nor blocked completes a pass of loop1() in every unit, and core  *)
(* 0 a pass of loop().                                                     *)
(***************************************************************************)
EXTENDS Naturals

CONSTANTS
    Limit,      \* PROXY_CORE1_WATCHDOG_MS
    Setup,      \* how long setup1() takes
    ColdOff,    \* PROXY_BOOTSEL_COLD_OFF_MS
    ColdBoot,   \* PROXY_BOOTSEL_COLD_BOOT_MS
    ColdHold,   \* PROXY_BOOTSEL_COLD_HOLD_MS
    DumpMax,    \* the longest a dump of a key that answers takes
    Cmds,       \* bound: cold entries and dumps that are asked for
    Boots,      \* bound: how often the board may reset
    MayDump,    \* the operator may ask for a descriptor dump ('d')
    MayWedge    \* core 1 may stop inside USBHost.task()

ASSUME TimesAssumption ==
    /\ {Limit, Setup, ColdOff, ColdBoot, ColdHold, DumpMax, Cmds, Boots} \subseteq Nat
    /\ 0 < Setup /\ Setup < Limit

VARIABLES
    moved,      \* g_core1_ticks # last_ticks
    judged,     \* last_progress # 0
    since,      \* now - last_progress, as far as Limit
    looked,     \* core 0 completed a pass in this unit of time
    dumpReq,    \* g_dump_req
    coldReq,    \* g_power_cmd = PWR_CMD_BOOTSEL_CYCLE
    longOp,     \* g_core1_long_op
    faultWedge, \* g_fault_wedge
    fatal,      \* g_core1_fatal
    pc1,        \* what core 1 is doing
    left,       \* how long it will go on doing that
    passed,     \* core 1 began a pass in this unit of time
    stopped,    \* history: how long core 1 has been wedged
    resets,     \* history: what core 1 was doing when it was reset
    cmds, boots \* what is left of the bounds

flags == <<dumpReq, coldReq, longOp, faultWedge, fatal>>
wdog == <<moved, judged, since, looked>>
core1 == <<pc1, left, passed, stopped>>
vars == <<wdog, flags, core1, resets, cmds, boots>>

\* Both cores after power-up or a reset; every variable is in RAM.
Fresh ==
    [moved |-> FALSE, judged |-> FALSE, since |-> 0, looked |-> FALSE,
     pc1 |-> "setup", left |-> Setup]

Init ==
    /\ moved = Fresh.moved /\ judged = Fresh.judged
    /\ since = Fresh.since /\ looked = Fresh.looked
    /\ dumpReq = FALSE /\ coldReq = FALSE /\ longOp = FALSE
    /\ faultWedge = FALSE /\ fatal = FALSE
    /\ pc1 = Fresh.pc1 /\ left = Fresh.left /\ passed = FALSE /\ stopped = 0
    /\ resets = {} /\ cmds = Cmds /\ boots = Boots

---------------------------------------------------------------------------
(* Core 1 *)

\* A blocking step begins, for t units of time.
Busy(step, t) == pc1' = step /\ left' = t /\ UNCHANGED stopped

\* Core 1 spins and will not come back.
Stop == pc1' = "wedged" /\ left' = 0 /\ stopped' = 0

\* setup1(): the host stack is up, or cannot be (the clock, USBHost.begin).
SetupDone ==
    /\ pc1 = "setup" /\ left = 0
    /\ \/ Busy("top", 0) /\ UNCHANGED fatal
       \/ Busy("fatal", 0) /\ fatal' = TRUE
    /\ UNCHANGED <<wdog, dumpReq, coldReq, longOp, faultWedge, passed, resets,
                   cmds, boots>>

\* The top of loop1(): the injected wedge, or the tick and USBHost.task().
BeginPass ==
    /\ pc1 = "top"
    /\ ~faultWedge
    /\ moved' = TRUE /\ passed' = TRUE
    /\ Busy("task", 0)
    /\ UNCHANGED <<judged, since, looked, flags, resets, cmds, boots>>

InjectedWedge ==
    /\ pc1 = "top"
    /\ faultWedge
    /\ Stop
    /\ UNCHANGED <<wdog, flags, passed, resets, cmds, boots>>

HostTask ==
    /\ pc1 = "task"
    /\ \/ Busy("power", 0)
       \/ MayWedge /\ Stop
    /\ UNCHANGED <<wdog, flags, passed, resets, cmds, boots>>

\* Mutant of PowerService: the cold entry is not announced to the watchdog.
PowerServiceSilent ==
    /\ pc1 = "power"
    /\ coldReq' = FALSE
    /\ IF coldReq THEN Busy("off", ColdOff) ELSE Busy("dump", 0)
    /\ UNCHANGED <<wdog, dumpReq, longOp, faultWedge, fatal, passed, resets,
                   cmds, boots>>

\* power_service.  Of its commands only the cold entry blocks.
PowerService ==
    /\ pc1 = "power"
    /\ coldReq' = FALSE
    /\ IF coldReq
       THEN longOp' = TRUE /\ Busy("off", ColdOff)
       ELSE UNCHANGED longOp /\ Busy("dump", 0)
    /\ UNCHANGED <<wdog, dumpReq, faultWedge, fatal, passed, resets, cmds, boots>>

\* Mutant of ColdNext: the announcement is not taken back.
ColdNextAnnounced ==
    /\ left = 0
    /\ \/ pc1 = "off" /\ Busy("boot", ColdBoot)
       \/ pc1 = "boot" /\ Busy("hold", ColdHold)
       \/ pc1 = "hold" /\ Busy("dump", 0)
    /\ UNCHANGED <<wdog, flags, passed, resets, cmds, boots>>

\* bootsel_cold_entry: VBUS off, then on while the key boots, then the press.
ColdNext ==
    /\ left = 0
    /\ \/ /\ pc1 = "off" /\ Busy("boot", ColdBoot)
          /\ UNCHANGED longOp
       \/ /\ pc1 = "boot" /\ Busy("hold", ColdHold)
          /\ UNCHANGED longOp
       \/ /\ pc1 = "hold" /\ Busy("dump", 0)
          /\ longOp' = FALSE
    /\ UNCHANGED <<wdog, dumpReq, coldReq, faultWedge, fatal, passed, resets,
                   cmds, boots>>

\* The dump of loop1(), and the rest of the pass.  The request is cleared
\* first; dump_device then waits for the key three times.
Dump ==
    /\ pc1 = "dump"
    /\ dumpReq' = FALSE
    /\ \/ Busy("top", 0)
       \/ /\ dumpReq
          /\ \E t \in 1 .. DumpMax : Busy("dumping", t)
    /\ UNCHANGED <<wdog, coldReq, longOp, faultWedge, fatal, passed, resets,
                   cmds, boots>>

DumpDone ==
    /\ pc1 = "dumping" /\ left = 0
    /\ Busy("top", 0)
    /\ UNCHANGED <<wdog, flags, passed, resets, cmds, boots>>

Core1 ==
    \/ SetupDone \/ BeginPass \/ InjectedWedge \/ HostTask
    \/ PowerService \/ ColdNext \/ Dump \/ DumpDone

---------------------------------------------------------------------------
(* Core 0 *)

\* console_service 'd'; 'B' or the automatic recovery; '!' and '1'.
Ask ==
    /\ cmds > 0
    /\ cmds' = cmds - 1
    /\ \/ MayDump /\ dumpReq' = TRUE /\ UNCHANGED <<coldReq, faultWedge>>
       \/ coldReq' = TRUE /\ UNCHANGED <<dumpReq, faultWedge>>
       \/ MayWedge /\ faultWedge' = TRUE /\ UNCHANGED <<dumpReq, coldReq>>
    /\ UNCHANGED <<wdog, longOp, fatal, core1, resets, boots>>

\* The watchdog starts its clock anew.
Restart ==
    /\ judged' = TRUE /\ since' = 0 /\ looked' = TRUE
    /\ UNCHANGED <<flags, core1, resets, cmds, boots>>

\* The tick counter moved since the last look.
WatchProgress ==
    /\ ~fatal /\ moved
    /\ moved' = FALSE
    /\ Restart

\* The first call, and a core 1 that said it would be long.
Excused == ~judged \/ dumpReq \/ longOp

\* Mutant of WatchExcuse: the first call does not start the clock, only the
\* first tick does.
WatchExcuseUnjudged ==
    /\ ~fatal /\ ~moved
    /\ Excused
    /\ since' = 0 /\ looked' = TRUE
    /\ UNCHANGED <<moved, judged, flags, core1, resets, cmds, boots>>

WatchExcuse ==
    /\ ~fatal /\ ~moved
    /\ Excused
    /\ UNCHANGED moved
    /\ Restart

\* Not yet, or core 1 reported itself fatal.
WatchOn ==
    /\ fatal \/ (~moved /\ ~Excused /\ since < Limit)
    /\ looked' = TRUE
    /\ UNCHANGED <<moved, judged, since, flags, core1, resets, cmds, boots>>

\* watchdog_reboot
WatchReset ==
    /\ ~fatal /\ ~moved /\ ~Excused /\ since >= Limit
    /\ boots > 0
    /\ boots' = boots - 1
    /\ resets' = resets \cup {pc1}
    /\ moved' = Fresh.moved /\ judged' = Fresh.judged
    /\ since' = Fresh.since /\ looked' = Fresh.looked
    /\ dumpReq' = FALSE /\ coldReq' = FALSE /\ longOp' = FALSE
    /\ faultWedge' = FALSE /\ fatal' = FALSE
    /\ pc1' = Fresh.pc1 /\ left' = Fresh.left /\ passed' = FALSE /\ stopped' = 0
    /\ UNCHANGED cmds

WatchdogService == WatchProgress \/ WatchExcuse \/ WatchOn \/ WatchReset

---------------------------------------------------------------------------
(* Time *)

\* Core 1 is in the middle of nothing that takes no time.
Core1Settled ==
    \/ pc1 \in {"wedged", "fatal"}
    \/ left > 0
    \/ pc1 = "top" /\ passed /\ ~faultWedge

UpTo(n, max) == IF n < max THEN n ELSE max

Tick ==
    /\ looked /\ Core1Settled
    /\ looked' = FALSE /\ passed' = FALSE
    /\ since' = UpTo(since + 1, Limit)
    /\ left' = IF left > 0 THEN left - 1 ELSE 0
    /\ stopped' = IF pc1 = "wedged" THEN UpTo(stopped + 1, Limit + 3) ELSE 0
    /\ UNCHANGED <<moved, judged, flags, pc1, resets, cmds, boots>>

Next == Core1 \/ Ask \/ WatchdogService \/ Tick

Spec == Init /\ [][Next]_vars

\* Both cores run (core 1 unless it is wedged) and time passes.
FairSpec ==
    Spec /\ WF_vars(Core1) /\ WF_vars(WatchdogService) /\ SF_vars(Tick)

---------------------------------------------------------------------------
(* Properties *)

\* Types of the watchdog's state and of core 1's; the announcement of a long
\* operation stands exactly while a cold entry is under way.
TypeOK ==
    /\ {moved, judged, looked, passed, dumpReq, coldReq, longOp, faultWedge, fatal}
           \subseteq BOOLEAN
    /\ since \in 0 .. Limit
    /\ pc1 \in {"setup", "top", "task", "power", "off", "boot", "hold", "dump",
                "dumping", "wedged", "fatal"}
    /\ longOp = (pc1 \in {"off", "boot", "hold"})
    /\ left \in Nat /\ stopped \in 0 .. Limit + 3
    /\ cmds \in 0 .. Cmds /\ boots \in 0 .. Boots

\* "a descriptor dump uses synchronous transfers, and a cold bootloader entry
\* deliberately sits through a power cycle.  Neither is a wedge." (main.cpp:
\* 1718-1720): the board is never reset from under a core 1 that is working.
OnlyWedgesReset == resets \subseteq {"wedged"}

\* A wedged core 1 is found within the watchdog's limit, whatever cold entry or
\* fault it was in the middle of; only a dump that was asked for and not begun
\* puts it off.
WedgeFoundInTime == boots > 0 /\ ~dumpReq => stopped <= Limit + 1

\* A core 1 that has stopped is reset in the end, unless a dump was asked for.
WedgeIsReset == pc1 = "wedged" ~> pc1 # "wedged" \/ boots = 0 \/ dumpReq

\* "Deliberately fires even with nothing attached: a wedge with an empty port
\* is still a wedge" (main.cpp:1697-1698), with no exception for a dump.
EveryWedgeIsReset == pc1 = "wedged" ~> pc1 # "wedged" \/ boots = 0
===========================================================================
