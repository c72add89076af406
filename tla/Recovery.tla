------------------------------ MODULE Recovery ------------------------------
(***************************************************************************)
(* VBUS and the bootloader contact in src/main.cpp.  Three things on core  *)
(* 0 ask for power (console_service, button_service, bootsel_service) by   *)
(* writing the one variable g_power_cmd; power_service on core 1 reads it, *)
(* clears it and acts.  The contact is worked from both cores.  The        *)
(* automatic recovery of a silent port escalates from cold entries to      *)
(* resets of the board, which it counts in a register a reset leaves alone.*)
(*                                                                         *)
(* External: the key (it may come up while VBUS is on, leave, or stay      *)
(* silent until it is recovered), and the operator.                        *)
(*                                                                         *)
(* Time is counted in units; in each both cores complete a pass.           *)
(***************************************************************************)
EXTENDS Integers

CONSTANTS
    AutoAfter,  \* PROXY_BOOTSEL_AUTO_MS
    Grace,      \* PROXY_BOOTSEL_REBOOT_GRACE_MS
    BackoffMax, \* PROXY_BOOTSEL_BACKOFF_MAX_MS
    ResetAfter, \* PROXY_BOOTSEL_RESET_AFTER
    MaxResets,  \* PROXY_BOOTSEL_MAX_RESETS
    OffTime,    \* PROXY_POWER_OFF_MS
    TapTime,    \* PROXY_BOOTSEL_HOLD_MS
    ColdTime,   \* [off, boot, hold |-> PROXY_BOOTSEL_COLD_*_MS]
    Keys,       \* what the operator may type, and "button"
    Presses,    \* bound: how often the operator does something
    Moves       \* bound: how often the key comes up or leaves

ASSUME TimesAssumption ==
    /\ {AutoAfter, Grace, BackoffMax, ResetAfter, MaxResets, OffTime, TapTime,
        Presses, Moves} \subseteq Nat
    /\ ColdTime \in [{"off", "boot", "hold"} -> Nat \ {0}]
    /\ AutoAfter <= Grace /\ Grace <= BackoffMax
ASSUME KeysAssumption == Keys \subseteq {"p", "0", "1", "b", "B", "G", "g", "A", "R", "button"}

VARIABLES
    cmd,        \* g_power_cmd
    on,         \* g_power_is_on
    linked,     \* g_link[i].mounted, for some i
    stayed,     \* the key has been linked for a unit of time
    seen,       \* g_seen_device
    contact,    \* the bootloader contact is grounded
    held,       \* g_bootsel_held
    tap,        \* what is left of g_bootsel_until, None when it is 0
    auto,       \* g_bootsel_auto
    quiet,      \* millis() - idle_since
    attempts,   \* attempts
    scratch,    \* watchdog_hw->scratch[4]
    served,     \* bootsel_service ran in this unit of time
    pc1,        \* core 1: "task", "power", "taken", "timer", or a cold entry's
    took,       \* the command power_service read
    left,       \* what is left of the delay of a cold entry
    cycle,      \* what is left of g_power_off_until, None when it is 0
    last,       \* history: the command executed last
    away,       \* history: how long since the key left by itself, or None
    tries,      \* history: resets by the recovery since a key was linked
    presses, moves  \* what is left of the bounds

None == -1

core0Vars == <<held, tap, auto, quiet, attempts, scratch, served>>
core1Vars == <<pc1, took, left, cycle, last>>
powerVars == <<on, linked, stayed, seen>>
vars == <<cmd, powerVars, contact, core0Vars, core1Vars, away, tries,
          presses, moves>>

\* Everything in RAM and every pin, after power-up or a reset.
Boot ==
    /\ cmd = "none" /\ on = TRUE /\ linked = FALSE /\ stayed = FALSE /\ seen = FALSE
    /\ contact = FALSE /\ held = FALSE /\ tap = None
    /\ auto = TRUE /\ quiet = 0 /\ attempts = 0 /\ served = FALSE
    /\ pc1 = "task" /\ took = "none" /\ left = 0 /\ cycle = None
    /\ last = "on" /\ away = None

Init == Boot /\ scratch = 0 /\ tries = 0 /\ presses = Presses /\ moves = Moves

\* watchdog_reboot: VBUS drops and comes back, the pins go to their reset
\* state, and only the scratch register keeps its value.
Reset ==
    /\ cmd' = "none" /\ on' = TRUE /\ linked' = FALSE /\ stayed' = FALSE /\ seen' = FALSE
    /\ contact' = FALSE /\ held' = FALSE /\ tap' = None
    /\ auto' = TRUE /\ quiet' = 0 /\ attempts' = 0 /\ served' = FALSE
    /\ pc1' = "task" /\ took' = "none" /\ left' = 0 /\ cycle' = None
    /\ last' = "on" /\ away' = None

---------------------------------------------------------------------------
(* Core 0: bootsel_service *)

\* A tap that is over is released, whatever else the service does.
ReleaseTap ==
    IF tap = 0
    THEN tap' = None /\ contact' = FALSE
    ELSE UNCHANGED <<tap, contact>>

BootselRest == <<cmd, powerVars, core1Vars, away, tries, presses, moves>>

\* Mutant of ServiceOff: the early return comes before the release of a tap.
ServiceOffAtOnce ==
    /\ served' = TRUE
    /\ held \/ ~auto
    /\ UNCHANGED <<contact, tap, held, auto, quiet, attempts, scratch, BootselRest>>

\* A manual hold, or the recovery is switched off.
ServiceOff ==
    /\ served' = TRUE
    /\ \/ held /\ UNCHANGED <<tap, contact>>
       \/ ~held /\ ~auto /\ ReleaseTap
    /\ UNCHANGED <<held, auto, quiet, attempts, scratch, BootselRest>>

Recovering == ~held /\ auto

ServiceLinked ==
    /\ Recovering /\ linked
    /\ served' = TRUE
    /\ ReleaseTap
    /\ quiet' = 0 /\ attempts' = 0 /\ scratch' = 0 /\ seen' = TRUE
    /\ UNCHANGED <<held, auto, cmd, on, linked, stayed, core1Vars, away, tries,
                   presses, moves>>

ServiceUnpowered ==
    /\ Recovering /\ ~linked /\ ~on
    /\ served' = TRUE
    /\ ReleaseTap
    /\ quiet' = 0
    /\ UNCHANGED <<held, auto, attempts, scratch, BootselRest>>

\* Mutant of QuietFor: a key that has been seen gets no longer grace.
QuietForUnseen ==
    LET scaled == AutoAfter * (attempts - 1) IN
    IF attempts <= 2 THEN AutoAfter ELSE IF scaled > BackoffMax THEN BackoffMax ELSE scaled

\* How long the port must have been silent.
QuietFor ==
    LET base == IF seen THEN Grace ELSE AutoAfter
        scaled == base * (attempts - 1)
    IN IF attempts <= 2 THEN base
       ELSE IF scaled > BackoffMax THEN BackoffMax ELSE scaled

Silent == Recovering /\ ~linked /\ on

\* Mutant of ServiceWait: every pass starts the silence anew.
ServiceWaitAnew ==
    /\ Silent
    /\ quiet < QuietFor \/ tap > 0
    /\ served' = TRUE
    /\ ReleaseTap
    /\ quiet' = 0
    /\ UNCHANGED <<held, auto, attempts, scratch, BootselRest>>

ServiceWait ==
    /\ Silent
    /\ quiet < QuietFor \/ tap > 0
    /\ served' = TRUE
    /\ ReleaseTap
    /\ UNCHANGED <<held, auto, quiet, attempts, scratch, BootselRest>>

Due == Silent /\ quiet >= QuietFor /\ tap <= 0

\* Another cold entry, which core 1 performs.
ServiceColdEntry ==
    /\ Due
    /\ attempts + 1 <= ResetAfter
    /\ served' = TRUE
    /\ ReleaseTap
    /\ attempts' = attempts + 1 /\ quiet' = 0
    /\ cmd' = "bootsel"
    /\ UNCHANGED <<held, auto, scratch, powerVars, core1Vars, away,
                   tries, presses, moves>>

\* Mutant of ServiceReset: the count is kept where a reset clears it.
ServiceResetInRam ==
    /\ Due
    /\ attempts + 1 > ResetAfter
    /\ scratch < MaxResets
    /\ scratch' = 0
    /\ tries' = tries + 1
    /\ Reset
    /\ UNCHANGED <<presses, moves>>

\* Enough cold entries: reset the board.
ServiceReset ==
    /\ Due
    /\ attempts + 1 > ResetAfter
    /\ scratch < MaxResets
    /\ scratch' = scratch + 1
    /\ tries' = tries + 1
    /\ Reset
    /\ UNCHANGED <<presses, moves>>

\* Enough resets: stop.
ServiceStop ==
    /\ Due
    /\ attempts + 1 > ResetAfter
    /\ scratch >= MaxResets
    /\ served' = TRUE
    /\ ReleaseTap
    /\ attempts' = attempts + 1 /\ quiet' = 0
    /\ auto' = FALSE
    /\ UNCHANGED <<held, scratch, BootselRest>>

BootselService ==
    \/ ServiceOff \/ ServiceLinked \/ ServiceUnpowered \/ ServiceWait
    \/ ServiceColdEntry \/ ServiceReset \/ ServiceStop

---------------------------------------------------------------------------
(* Core 0: console_service and button_service *)

Press(k) ==
    /\ k \in Keys
    /\ presses > 0
    /\ presses' = presses - 1

\* 'p', '0', '1' and 'B'.
Typed(k) == CASE k = "p" -> "cycle" [] k = "0" -> "off" [] k = "1" -> "on"
              [] k = "B" -> "bootsel"

ConsolePower(k) ==
    /\ k \in {"p", "0", "1", "B"}
    /\ Press(k)
    /\ cmd' = Typed(k)
    /\ UNCHANGED <<powerVars, contact, core0Vars, core1Vars, away, tries, moves>>

\* The BOOT button toggles VBUS, by what core 1 published.
Button ==
    /\ Press("button")
    /\ cmd' = IF on THEN "off" ELSE "on"
    /\ UNCHANGED <<powerVars, contact, core0Vars, core1Vars, away, tries, moves>>

\* 'b', 'G' and 'g'.
ConsoleContact(k) ==
    /\ Press(k)
    /\ \/ k = "b" /\ contact' = TRUE /\ tap' = TapTime /\ UNCHANGED held
       \/ k = "G" /\ contact' = TRUE /\ tap' = None /\ held' = TRUE
       \/ k = "g" /\ contact' = FALSE /\ held' = FALSE /\ UNCHANGED tap
    /\ UNCHANGED <<cmd, powerVars, auto, quiet, attempts, scratch, served,
                   core1Vars, away, tries, moves>>

ConsoleAuto ==
    /\ Press("A")
    /\ auto' = ~auto
    /\ UNCHANGED <<cmd, powerVars, contact, held, tap, quiet, attempts, scratch,
                   served, core1Vars, away, tries, moves>>

ConsoleReboot ==
    /\ Press("R")
    /\ Reset
    /\ UNCHANGED <<scratch, tries, moves>>

Operator ==
    \/ \E k \in Keys : ConsolePower(k) \/ ConsoleContact(k)
    \/ Button \/ ConsoleAuto \/ ConsoleReboot

---------------------------------------------------------------------------
(* Core 1: USBHost.task(), and then power_service *)

Core1Rest == <<contact, core0Vars, presses>>

TaskNothing ==
    /\ pc1 = "task" /\ pc1' = "power"
    /\ UNCHANGED <<cmd, powerVars, took, left, cycle, last, away, tries,
                   moves, Core1Rest>>

\* A key that comes up stays up for at least a pass of core 0's loop().
KeyMounts ==
    /\ pc1 = "task" /\ pc1' = "power"
    /\ moves > 0 /\ on /\ ~linked
    /\ moves' = moves - 1
    /\ linked' = TRUE /\ stayed' = FALSE /\ served' = FALSE
    /\ tries' = 0 /\ away' = None
    /\ UNCHANGED <<cmd, on, seen, took, left, cycle, last, contact, held,
                   tap, auto, quiet, attempts, scratch, presses>>

KeyLeaves ==
    /\ pc1 = "task" /\ pc1' = "power"
    /\ linked /\ stayed
    /\ linked' = FALSE /\ stayed' = FALSE /\ away' = 0
    /\ UNCHANGED <<cmd, on, seen, took, left, cycle, last, tries, moves,
                   Core1Rest>>

\* power_apply
PowerUp == on' = TRUE /\ UNCHANGED <<linked, stayed, seen, away>>
PowerDown ==
    on' = FALSE /\ linked' = FALSE /\ stayed' = FALSE /\ seen' = FALSE /\ away' = None

NoCommand ==
    /\ pc1 = "power" /\ pc1' = "timer"
    /\ cmd = "none"
    /\ UNCHANGED <<cmd, powerVars, took, left, cycle, last, away, tries,
                   moves, Core1Rest>>

\* The command is read here and cleared in RunCommand.
ReadCommand ==
    /\ pc1 = "power"
    /\ cmd # "none"
    /\ took' = cmd /\ pc1' = "taken"
    /\ UNCHANGED <<cmd, powerVars, left, cycle, last, away, tries, moves,
                   Core1Rest>>

RunCycle ==
    /\ took = "cycle" /\ PowerDown
    /\ cycle' = OffTime /\ pc1' = "timer" /\ UNCHANGED left

\* Mutant of RunOff: the timer of an earlier power cycle goes on.
RunOffTimed ==
    /\ took = "off" /\ PowerDown
    /\ pc1' = "timer" /\ UNCHANGED <<left, cycle>>

RunOff ==
    /\ took = "off" /\ PowerDown
    /\ cycle' = None /\ pc1' = "timer" /\ UNCHANGED left

RunOn ==
    /\ took = "on" /\ PowerUp
    /\ cycle' = None /\ pc1' = "timer" /\ UNCHANGED left

\* bootsel_cold_entry begins.
RunBootsel ==
    /\ took = "bootsel" /\ PowerDown
    /\ pc1' = "off" /\ left' = ColdTime.off /\ UNCHANGED cycle

RunCommand ==
    /\ pc1 = "taken"
    /\ cmd' = "none"
    /\ last' = took /\ took' = "none"
    /\ RunCycle \/ RunOff \/ RunOn \/ RunBootsel
    /\ UNCHANGED <<tries, moves, Core1Rest>>

\* bootsel_cold_entry after its power-off.
ColdPowerOn ==
    /\ pc1 = "off" /\ left = 0
    /\ PowerUp
    /\ pc1' = "boot" /\ left' = ColdTime.boot
    /\ UNCHANGED <<cmd, took, cycle, last, tries, moves, Core1Rest>>

ColdPress ==
    /\ pc1 = "boot" /\ left = 0
    /\ contact' = TRUE
    /\ pc1' = "hold" /\ left' = ColdTime.hold
    /\ UNCHANGED <<cmd, powerVars, took, cycle, last, away, tries, moves,
                   core0Vars, presses>>

ColdRelease ==
    /\ pc1 = "hold" /\ left = 0
    /\ contact' = FALSE
    /\ pc1' = "timer"
    /\ UNCHANGED <<cmd, powerVars, took, left, cycle, last, away, tries,
                   moves, core0Vars, presses>>

\* Mutant of CycleEnds: the timer is cleared and VBUS is left off.
CycleEndsDark ==
    /\ pc1 = "timer"
    /\ pc1' = "task"
    /\ cycle' = IF cycle = 0 THEN None ELSE cycle
    /\ UNCHANGED <<cmd, powerVars, away, took, left, last, tries, moves,
                   Core1Rest>>

\* The end of power_service: VBUS comes back when a power cycle is over.
CycleEnds ==
    /\ pc1 = "timer"
    /\ pc1' = "task"
    /\ IF cycle = 0
       THEN cycle' = None /\ PowerUp
       ELSE UNCHANGED <<cycle, powerVars, away>>
    /\ UNCHANGED <<cmd, took, left, last, tries, moves, Core1Rest>>

Core1 ==
    \/ TaskNothing \/ KeyMounts \/ KeyLeaves
    \/ NoCommand \/ ReadCommand \/ RunCommand \/ CycleEnds
    \/ ColdPowerOn \/ ColdPress \/ ColdRelease

---------------------------------------------------------------------------
(* Time *)

Less(t) == IF t > 0 THEN t - 1 ELSE t
UpTo(n, max) == IF n < max THEN n ELSE max

Tick ==
    /\ served /\ served' = FALSE
    /\ stayed' = linked
    /\ \/ pc1 = "task" /\ cmd = "none" /\ cycle # 0
       \/ pc1 \in {"off", "boot", "hold"} /\ left > 0
    /\ tap' = Less(tap) /\ cycle' = Less(cycle) /\ left' = Less(left)
    /\ quiet' = UpTo(quiet + 1, BackoffMax)
    /\ away' = IF away = None THEN None ELSE UpTo(away + 1, Grace)
    /\ UNCHANGED <<cmd, on, linked, seen, contact, held, auto, attempts, scratch,
                   pc1, took, last, tries, presses, moves>>

Next == BootselService \/ Operator \/ Core1 \/ Tick

Spec == Init /\ [][Next]_vars

\* Both loops go round and time passes; the key and the operator do as they
\* like.
FairSpec ==
    Spec /\ WF_vars(BootselService) /\ WF_vars(Core1) /\ SF_vars(Tick)

---------------------------------------------------------------------------
(* Properties *)

Cmd == {"none", "cycle", "off", "on", "bootsel"}

\* Types of the state of both cores.
TypeOK ==
    /\ {cmd, took, last} \subseteq Cmd
    /\ {on, linked, stayed, seen, contact, held, auto, served} \subseteq BOOLEAN
    /\ tap \in None .. TapTime /\ cycle \in None .. OffTime
    /\ quiet \in 0 .. BackoffMax
    /\ attempts \in 0 .. ResetAfter + 1 + Presses
    /\ scratch \in 0 .. MaxResets
    /\ pc1 \in {"task", "power", "taken", "off", "boot", "hold", "timer"}
    /\ left \in 0 .. ColdTime.off + ColdTime.boot + ColdTime.hold
    /\ away \in None .. Grace /\ tries \in Nat

\* The recovery resets the board at most MaxResets times in a row, although a
\* reset clears everything it remembers but the scratch register.
ResetsBounded == tries <= MaxResets

\* "poking the contact then knocks it straight back into the bootloader": as
\* long as nobody has been at the console or the button, no cold entry begins
\* before a key that left by itself has had Grace to come back (but for the unit
\* of time in which it left).  A key that has just come is not spared: the cold
\* entry may have been decided on before.
GraceGiven ==
    [][presses = Presses /\ pc1 = "taken" /\ pc1' = "off"
           => away = None \/ away >= Grace - 1]_vars

\* "stays off until something turns it back on": what raises VBUS after an OFF
\* is a later command, never the timer of an earlier power cycle.
OffStaysOff == [][~on /\ on' => last' # "off"]_vars

\* The contact is never left grounded, which would stop a key from booting:
\* unless the operator holds it, it is released in the end.
ContactReleased == contact ~> ~contact \/ held

\* VBUS comes back unless it was switched off.
PowerReturns == ~on ~> on \/ last = "off"

\* A silent port is acted on: the recovery cuts VBUS, or was stopped.
SilenceActedOn == ~linked ~> linked \/ ~on \/ ~auto \/ held
===========================================================================
