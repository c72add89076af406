--------------------------- MODULE RecoveryProofs ---------------------------
(***************************************************************************)
(* Proofs about VBUS and the automatic recovery, for every choice of the   *)
(* times and limits that keeps the order TimesAssumption asks for, any     *)
(* number of moves of the key and of presses by the operator.              *)
(***************************************************************************)
EXTENDS Recovery, TLAPS

---------------------------------------------------------------------------
(* The types *)

\* How far the attempts get: past the stop only when somebody turns the
\* recovery on again.
Attempts ==
    /\ attempts \in Nat /\ presses \in 0 .. Presses
    /\ attempts <= ResetAfter + 1 + (Presses - presses)
    /\ auto => attempts <= ResetAfter + (Presses - presses)

Flags ==
    /\ on \in BOOLEAN /\ linked \in BOOLEAN /\ stayed \in BOOLEAN /\ seen \in BOOLEAN
    /\ contact \in BOOLEAN /\ held \in BOOLEAN /\ auto \in BOOLEAN /\ served \in BOOLEAN

Commands ==
    /\ cmd \in Cmd /\ took \in Cmd /\ last \in Cmd
    /\ pc1 \in {"task", "power", "taken", "off", "boot", "hold", "timer"}

Clocks ==
    /\ tap \in None .. TapTime /\ cycle \in None .. OffTime
    /\ quiet \in 0 .. BackoffMax /\ away \in None .. Grace
    /\ left \in 0 .. ColdTime.off + ColdTime.boot + ColdTime.hold

Resets == scratch \in 0 .. MaxResets /\ tries \in Nat

Shape == Attempts /\ Flags /\ Commands /\ Clocks /\ Resets

LEMMA TimesAreNat ==
    /\ AutoAfter \in Nat /\ Grace \in Nat /\ BackoffMax \in Nat /\ ResetAfter \in Nat
    /\ MaxResets \in Nat /\ OffTime \in Nat /\ TapTime \in Nat /\ Presses \in Nat
    /\ Grace <= BackoffMax
    /\ ColdTime.off \in Nat /\ ColdTime.boot \in Nat /\ ColdTime.hold \in Nat
<1>1. \A k \in {"off", "boot", "hold"} : ColdTime[k] \in Nat
    BY TimesAssumption
<1>2. /\ AutoAfter \in Nat /\ Grace \in Nat /\ BackoffMax \in Nat /\ ResetAfter \in Nat
      /\ MaxResets \in Nat /\ OffTime \in Nat /\ TapTime \in Nat /\ Presses \in Nat
      /\ Grace <= BackoffMax
    BY TimesAssumption
<1>3. QED
    BY <1>1, <1>2

\* None is a clock that does not run.
LEMMA NoClock ==
    /\ None \in None .. TapTime /\ None \in None .. OffTime /\ None \in None .. Grace
    /\ 0 \in 0 .. BackoffMax /\ 0 \in 0 .. ColdTime.off + ColdTime.boot + ColdTime.hold
    BY TimesAreNat DEF None

LEMMA TypedInit == Init => Shape
<1> SUFFICES ASSUME Init PROVE Shape
    OBVIOUS
<1>1. Attempts /\ Resets
    BY TimesAreNat DEF Init, Boot, Attempts, Resets
<1>2. Flags /\ Commands
    BY DEF Init, Boot, Flags, Commands, Cmd
<1>3. Clocks
    BY NoClock DEF Init, Boot, Clocks
<1>4. QED
    BY <1>1, <1>2, <1>3 DEF Shape

LEMMA ResetTyped ==
    ASSUME Shape, Reset, scratch' \in 0 .. MaxResets, tries' \in Nat,
           presses' \in 0 .. Presses
    PROVE  Shape'
<1>1. Attempts' /\ Resets'
  <2>1. attempts' = 0 /\ presses' \in 0 .. Presses /\ scratch' \in 0 .. MaxResets
        /\ tries' \in Nat
    BY DEF Reset
  <2>2. ResetAfter \in Nat /\ Presses \in Nat
    BY TimesAreNat
  <2>3. PICK p \in 0 .. Presses : p = presses'
    BY <2>1
  <2>4. 0 <= ResetAfter + (Presses - p) /\ 0 <= ResetAfter + 1 + (Presses - p)
    BY <2>2
  <2>5. QED
    BY <2>1, <2>2, <2>3, <2>4 DEF Attempts, Resets
<1>2. Flags' /\ Commands'
    BY DEF Reset, Flags, Commands, Cmd
<1>3. Clocks'
    BY NoClock DEF Reset, Clocks
<1>4. QED
    BY <1>1, <1>2, <1>3 DEF Shape

\* What bootsel_service does before it decides.
LEMMA ReleaseTyped ==
    ASSUME Shape, ReleaseTap \/ UNCHANGED <<tap, contact>>
    PROVE  tap' \in None .. TapTime /\ contact' \in BOOLEAN
<1>1. tap \in None .. TapTime /\ contact \in BOOLEAN
    BY DEF Shape, Flags, Clocks
<1>2. CASE tap = 0 /\ ReleaseTap
    BY <1>2, NoClock DEF ReleaseTap
<1>3. CASE UNCHANGED <<tap, contact>>
    BY <1>1, <1>3
<1>4. QED
    BY <1>2, <1>3 DEF ReleaseTap

LEMMA ServiceTyped == Shape /\ BootselService => Shape'
<1> SUFFICES ASSUME Shape, BootselService PROVE Shape'
    OBVIOUS
<1> USE TimesAreNat DEF Shape
<1>1. CASE ServiceReset
  <2>1. scratch' \in 0 .. MaxResets /\ tries' \in Nat /\ presses' \in 0 .. Presses
    BY <1>1 DEF ServiceReset, Resets, Attempts
  <2>2. QED
    BY <1>1, <2>1, ResetTyped DEF ServiceReset
<1>2. CASE ~ServiceReset
  <2>1. /\ ReleaseTap \/ UNCHANGED <<tap, contact>>
        /\ UNCHANGED <<held, powerVars, core1Vars, away, tries, presses, moves>>
             \/ (seen' = TRUE /\ UNCHANGED <<held, on, linked, stayed, core1Vars, away, tries,
                                            presses, moves>>)
        /\ served' = TRUE
    BY <1>2 DEF BootselService, ServiceOff, ServiceLinked, ServiceUnpowered, ServiceWait,
                ServiceColdEntry, ServiceStop, BootselRest
  <2>2. tap' \in None .. TapTime /\ contact' \in BOOLEAN
    BY <2>1, ReleaseTyped
  <2>3. /\ quiet' \in {quiet, 0} /\ cmd' \in {cmd, "bootsel"} /\ scratch' \in {scratch, 0}
        /\ auto' \in BOOLEAN
    BY <1>2 DEF BootselService, ServiceOff, ServiceLinked, ServiceUnpowered, ServiceWait,
                ServiceColdEntry, ServiceStop, BootselRest, Flags
  <2>4. Attempts'
    <3>1. CASE ServiceStop
      BY <3>1 DEF ServiceStop, BootselRest, Due, Silent, Recovering, Attempts
    <3>2. CASE ServiceColdEntry
      BY <3>2 DEF ServiceColdEntry, Attempts
    <3>3. CASE attempts' \in {attempts, 0} /\ auto' = auto /\ presses' = presses
      BY <3>3 DEF Attempts
    <3>4. QED
      BY <1>2, <3>1, <3>2, <3>3
         DEF BootselService, ServiceOff, ServiceLinked, ServiceUnpowered, ServiceWait,
             BootselRest
  <2>5. Flags'
    BY <2>1, <2>2, <2>3 DEF Flags, powerVars
  <2>6. Commands'
    BY <2>1, <2>3 DEF Commands, core1Vars, Cmd
  <2>7. Clocks'
    BY <2>1, <2>2, <2>3 DEF Clocks, core1Vars
  <2>8. Resets'
    BY <2>1, <2>3 DEF Resets
  <2>9. QED
    BY <2>4, <2>5, <2>6, <2>7, <2>8
<1>3. QED
    BY <1>1, <1>2

LEMMA OperatorTyped == Shape /\ Operator => Shape'
<1> SUFFICES ASSUME Shape, Operator PROVE Shape'
    OBVIOUS
<1> USE TimesAreNat DEF Shape
<1>p. ASSUME NEW k, Press(k)
      PROVE  presses' = presses - 1 /\ presses' \in 0 .. Presses /\ k \in Keys
    BY <1>p DEF Press, Attempts
<1>1. ASSUME NEW k \in Keys, ConsolePower(k) PROVE Shape'
  <2>1. cmd' \in Cmd /\ presses' = presses - 1 /\ presses' \in 0 .. Presses
    BY <1>1, <1>p DEF ConsolePower, Typed, Cmd
  <2>2. QED
    BY <1>1, <2>1 DEF ConsolePower, Attempts, Flags, Commands, Clocks, Resets, powerVars,
                      core0Vars, core1Vars
<1>2. ASSUME NEW k \in Keys, ConsoleContact(k) PROVE Shape'
  <2>1. presses' = presses - 1 /\ presses' \in 0 .. Presses
    BY <1>2, <1>p DEF ConsoleContact
  <2>2. contact' \in BOOLEAN /\ held' \in BOOLEAN /\ tap' \in None .. TapTime
    <3>1. TapTime \in None .. TapTime
      BY DEF None
    <3>2. QED
      BY <1>2, <3>1, NoClock DEF ConsoleContact, Flags, Clocks
  <2>3. QED
    BY <1>2, <2>1, <2>2 DEF ConsoleContact, Attempts, Flags, Commands, Clocks, Resets,
                            powerVars, core1Vars
<1>3. CASE Button
  <2>1. cmd' \in Cmd /\ presses' = presses - 1 /\ presses' \in 0 .. Presses
    BY <1>3, <1>p DEF Button, Cmd
  <2>2. QED
    BY <1>3, <2>1 DEF Button, Attempts, Flags, Commands, Clocks, Resets, powerVars,
                      core0Vars, core1Vars
<1>4. CASE ConsoleAuto
  <2>1. presses' = presses - 1 /\ presses' \in 0 .. Presses
    BY <1>4, <1>p DEF ConsoleAuto
  <2>2. QED
    BY <1>4, <2>1 DEF ConsoleAuto, Attempts, Flags, Commands, Clocks, Resets, powerVars,
                      core1Vars
<1>5. CASE ConsoleReboot
  <2>1. presses' \in 0 .. Presses
    BY <1>5, <1>p DEF ConsoleReboot
  <2>2. QED
    BY <1>5, <2>1, ResetTyped DEF ConsoleReboot, Resets
<1>6. QED
    BY <1>1, <1>2, <1>3, <1>4, <1>5 DEF Operator

LEMMA Core1Typed == Shape /\ Core1 => Shape'
<1> SUFFICES ASSUME Shape, Core1 PROVE Shape'
    OBVIOUS
<1> USE TimesAreNat DEF Shape
<1>1. UNCHANGED <<held, tap, auto, quiet, attempts, scratch, presses>>
      /\ (served' = served \/ served' = FALSE) /\ contact' \in {contact, TRUE, FALSE}
    BY DEF Core1, TaskNothing, KeyMounts, KeyLeaves, NoCommand, ReadCommand, RunCommand,
           CycleEnds, ColdPowerOn, ColdPress, ColdRelease, Core1Rest, core0Vars
<1>2. tries' \in {tries, 0} /\ cycle' \in {cycle, None, OffTime} /\ away' \in {away, None, 0}
      /\ left' \in {left, ColdTime.off, ColdTime.boot, ColdTime.hold}
      /\ pc1' \in {"task", "power", "taken", "off", "boot", "hold", "timer"}
    BY DEF Core1, TaskNothing, KeyMounts, KeyLeaves, NoCommand, ReadCommand, RunCommand,
           RunCycle, RunOff, RunOn, RunBootsel, PowerUp, PowerDown,
           CycleEnds, ColdPowerOn, ColdPress, ColdRelease, Core1Rest, core0Vars, powerVars
<1>3. cmd' \in {cmd, "none"} /\ took' \in {took, cmd, "none"} /\ last' \in {last, took}
    BY DEF Core1, TaskNothing, KeyMounts, KeyLeaves, NoCommand, ReadCommand, RunCommand,
           CycleEnds, ColdPowerOn, ColdPress, ColdRelease
<1>4. on' \in {on, TRUE, FALSE} /\ linked' \in {linked, TRUE, FALSE}
      /\ stayed' \in {stayed, FALSE} /\ seen' \in {seen, FALSE}
    BY DEF Core1, TaskNothing, KeyMounts, KeyLeaves, NoCommand, ReadCommand, RunCommand,
           RunCycle, RunOff, RunOn, RunBootsel, PowerUp, PowerDown,
           CycleEnds, ColdPowerOn, ColdPress, ColdRelease, powerVars
<1>5. Attempts' /\ Resets'
    BY <1>1, <1>2 DEF Attempts, Resets
<1>6. Flags'
    BY <1>1, <1>4 DEF Flags
<1>7. Commands'
    BY <1>2, <1>3 DEF Commands, Cmd
<1>8. Clocks'
    BY <1>1, <1>2 DEF Clocks, None
<1>9. QED
    BY <1>5, <1>6, <1>7, <1>8

LEMMA TypedNext == Shape /\ [Next]_vars => Shape'
<1> SUFFICES ASSUME Shape, [Next]_vars PROVE Shape'
    OBVIOUS
<1>1. CASE Tick
  <2>1. /\ tap' \in None .. TapTime /\ cycle' \in None .. OffTime /\ away' \in None .. Grace
        /\ left' \in 0 .. ColdTime.off + ColdTime.boot + ColdTime.hold
        /\ quiet' \in 0 .. BackoffMax
    BY <1>1, TimesAreNat DEF Tick, Less, UpTo, Shape, Clocks, None
  <2>2. QED
    BY <1>1, <2>1 DEF Tick, Shape, Attempts, Flags, Commands, Clocks, Resets
<1>2. CASE UNCHANGED vars
    BY <1>2 DEF vars, powerVars, core0Vars, core1Vars, Shape, Attempts, Flags, Commands,
                Clocks, Resets
<1>3. QED
    BY <1>1, <1>2, ServiceTyped, OperatorTyped, Core1Typed DEF Next

\* Types of the state of both cores: no timer runs past what it was set to, and
\* the recovery makes an attempt beyond its limit only when told to.
THEOREM RecoveryTyped == Spec => []TypeOK
<1>1. Shape => TypeOK
  <2> SUFFICES ASSUME Shape PROVE TypeOK
    OBVIOUS
  <2>1. {cmd, took, last} \subseteq Cmd
    BY Zenon DEF Shape, Commands
  <2>2. {on, linked, stayed, seen, contact, held, auto, served} \subseteq BOOLEAN
    BY Zenon DEF Shape, Flags
  <2>3. attempts \in 0 .. ResetAfter + 1 + Presses
    BY TimesAreNat DEF Shape, Attempts
  <2>4. QED
    BY <2>1, <2>2, <2>3 DEF Shape, Commands, Clocks, Resets, TypeOK
<1>2. QED
    BY <1>1, TypedInit, TypedNext, PTL DEF Spec

---------------------------------------------------------------------------
(* The resets of the recovery *)

\* Every reset since a key was linked is in the register that survives it.
Counted == tries <= scratch /\ (linked => tries = 0)

LEMMA CountedNext == Shape /\ Counted /\ [Next]_vars => Counted'
<1> SUFFICES ASSUME Shape, Counted, [Next]_vars PROVE Counted'
    OBVIOUS
<1>a. tries \in Nat /\ scratch \in Nat
    BY TimesAreNat DEF Shape, Resets
<1> USE DEF Counted
<1>1. CASE ServiceReset
    BY <1>1, <1>a DEF ServiceReset, Reset
<1>2. CASE ServiceLinked
    BY <1>2 DEF ServiceLinked
<1>3. CASE BootselService /\ ~ServiceReset /\ ~ServiceLinked
  <2>1. UNCHANGED <<tries, scratch, linked>>
    BY <1>3 DEF BootselService, ServiceOff, ServiceUnpowered, ServiceWait, ServiceColdEntry,
                ServiceStop, BootselRest, powerVars
  <2>2. QED
    BY <2>1
<1>4. CASE Operator
  <2>1. UNCHANGED <<tries, scratch>> /\ (linked' => linked)
    BY <1>4 DEF Operator, ConsolePower, ConsoleContact, Button, ConsoleAuto, ConsoleReboot,
                Reset, powerVars, core0Vars
  <2>2. QED
    BY <2>1
<1>5. CASE KeyMounts
    BY <1>5, <1>a DEF KeyMounts
<1>6. CASE Core1 /\ ~KeyMounts
  <2>1. UNCHANGED <<tries, scratch>> /\ (linked' => linked)
    BY <1>6 DEF Core1, TaskNothing, KeyLeaves, NoCommand, ReadCommand, RunCommand, RunCycle,
                RunOff, RunOn, RunBootsel, PowerUp, PowerDown, CycleEnds, ColdPowerOn,
                ColdPress, ColdRelease, Core1Rest, core0Vars, powerVars
  <2>2. QED
    BY <2>1
<1>7. CASE Tick \/ UNCHANGED vars
    BY <1>7 DEF Tick, vars, powerVars, core0Vars
<1>8. QED
    BY <1>1, <1>2, <1>3, <1>4, <1>5, <1>6, <1>7 DEF Next

\* The recovery resets the board at most MaxResets times in a row, although a
\* reset clears all it remembers but one register.
THEOREM ResetsEnd == Spec => []ResetsBounded
<1>1. Shape /\ Counted => ResetsBounded
    BY TimesAreNat DEF Shape, Resets, Counted, ResetsBounded
<1>2. Init => Counted
    BY DEF Init, Boot, Counted
<1>3. QED
    BY <1>1, <1>2, TypedInit, TypedNext, CountedNext, PTL DEF Spec

---------------------------------------------------------------------------
(* Off stays off *)

\* Whatever could raise VBUS by itself was started by a command after the OFF.
OffIsLast ==
    /\ cycle # None => last # "off"
    /\ pc1 \in {"off", "boot", "hold"} => last = "bootsel"

LEMMA OffIsLastNext == OffIsLast /\ [Next]_vars => OffIsLast'
<1> SUFFICES ASSUME OffIsLast, [Next]_vars PROVE OffIsLast'
    OBVIOUS
<1> USE DEF OffIsLast
<1>1. CASE Reset
    BY <1>1 DEF Reset
<1>2. CASE (BootselService \/ Operator) /\ ~Reset
  <2>1. UNCHANGED core1Vars
    BY <1>2 DEF BootselService, ServiceOff, ServiceLinked, ServiceUnpowered, ServiceWait,
                ServiceColdEntry, ServiceReset, ServiceStop, BootselRest, Operator,
                ConsolePower, ConsoleContact, Button, ConsoleAuto, ConsoleReboot
  <2>2. QED
    BY <2>1 DEF core1Vars
<1>3. CASE RunCommand
    BY <1>3 DEF RunCommand, RunCycle, RunOff, RunOn, RunBootsel
<1>4. CASE Core1 /\ ~RunCommand
  <2>1. last' = last /\ cycle' \in {cycle, None}
        /\ (pc1' \in {"off", "boot", "hold"} => pc1 \in {"off", "boot", "hold"})
    BY <1>4 DEF Core1, TaskNothing, KeyMounts, KeyLeaves, NoCommand, ReadCommand, CycleEnds,
                ColdPowerOn, ColdPress, ColdRelease
  <2>2. QED
    BY <2>1
<1>5. CASE Tick
    BY <1>5 DEF Tick, Less, None
<1>6. CASE UNCHANGED vars
    BY <1>6 DEF vars, core1Vars
<1>7. QED
    BY <1>1, <1>2, <1>3, <1>4, <1>5, <1>6 DEF Next

\* What raises VBUS after an OFF is a later command, never the timer of an
\* earlier power cycle.
THEOREM OffIsKept == Spec => OffStaysOff
<1>1. Init => OffIsLast
    BY DEF Init, Boot, OffIsLast
<1>2. OffIsLast /\ [Next]_vars => [~on /\ on' => last' # "off"]_vars
  <2> SUFFICES ASSUME OffIsLast, [Next]_vars, ~on, on' PROVE last' # "off"
    OBVIOUS
  <2>1. Reset \/ RunCommand \/ ColdPowerOn \/ CycleEnds
    BY DEF Next, BootselService, ServiceOff, ServiceLinked, ServiceUnpowered, ServiceWait,
           ServiceColdEntry, ServiceReset, ServiceStop, BootselRest, Operator,
           ConsolePower, ConsoleContact, Button, ConsoleAuto, ConsoleReboot, Core1,
           TaskNothing, KeyMounts, KeyLeaves, NoCommand, ReadCommand, ColdPress, ColdRelease,
           Tick, vars, powerVars
  <2>2. CASE Reset
    BY <2>2 DEF Reset
  <2>3. CASE RunCommand
    BY <2>3 DEF RunCommand, RunCycle, RunOff, RunOn, RunBootsel, PowerDown
  <2>4. CASE ColdPowerOn \/ CycleEnds
    <3>1. 0 # None
      BY DEF None
    <3>2. QED
      BY <2>4, <3>1 DEF ColdPowerOn, CycleEnds, OffIsLast, powerVars
  <2>5. QED
    BY <2>1, <2>2, <2>3, <2>4
<1>3. QED
    BY <1>1, <1>2, OffIsLastNext, PTL DEF Spec, OffStaysOff

---------------------------------------------------------------------------
(* The grace of a key that left by itself *)

\* Nobody has touched the console or the button.
Alone == presses = Presses

\* Then the only command is the recovery's, and nothing is held.
Nobody ==
    Alone =>
        /\ ~held
        /\ cmd \in {"none", "bootsel"} /\ took \in {"none", "bootsel"}

\* A key that has stayed for a while was seen by bootsel_service, which set
\* its clock back, and meets no command that is still to be run.
Staying ==
    /\ stayed => linked
    /\ linked => away = None
    /\ pc1 \in {"off", "boot", "hold"} => ~linked /\ away = None
    /\ took # "none" <=> pc1 = "taken"
    /\ Alone /\ linked /\ stayed => took = "none" /\ cmd = "none"
    /\ Alone /\ linked /\ auto /\ served => seen /\ quiet = 0
    /\ Alone /\ linked /\ auto /\ stayed => seen /\ quiet <= 1

\* Once it has left, the recovery's clock is a unit of time ahead at most, and
\* a cold entry that is under way was decided on after the grace.
Apart ==
    Alone /\ away # None =>
        /\ auto => seen /\ (quiet <= away + 1 \/ away = Grace)
        /\ cmd = "bootsel" \/ took = "bootsel" => away >= Grace - 1

GraceInv == Shape /\ Nobody /\ Staying /\ Apart

\* However often it has tried, the recovery waits for the grace of a key that
\* has been seen.
LEMMA GraceWaited ==
    ASSUME Shape, seen, Due
    PROVE  quiet >= Grace
<1>1. attempts \in Nat /\ quiet \in Nat /\ quiet >= QuietFor
    BY TimesAreNat DEF Shape, Attempts, Clocks, Due
<1>2. CASE attempts <= 2
    BY <1>1, <1>2 DEF QuietFor
<1>3. CASE attempts > 2
  <2>1. PICK n \in Nat : attempts - 1 = n + 1
    BY <1>1, <1>3
  <2>2. Grace * (n + 1) = Grace * n + Grace /\ Grace * n \in Nat
    BY TimesAreNat
  <2>3. Grace * (attempts - 1) >= Grace /\ Grace * (attempts - 1) \in Nat
    BY <2>1, <2>2, TimesAreNat
  <2>4. DEFINE scaled == Grace * (attempts - 1)
  <2>5. QuietFor = IF scaled > BackoffMax THEN BackoffMax ELSE scaled
    BY <1>1, <1>3 DEF QuietFor
  <2> HIDE DEF scaled
  <2>6. scaled >= Grace /\ scaled \in Nat
    BY <2>3 DEF scaled
  <2>7. QuietFor >= Grace
    BY <2>5, <2>6, TimesAreNat
  <2>8. QuietFor \in Nat
    BY <2>5, <2>6, TimesAreNat
  <2>9. QED
    BY <1>1, <2>7, <2>8, TimesAreNat
<1>4. QED
    BY <1>1, <1>2, <1>3

\* As long as nobody has pressed anything, nobody presses anything.
LEMMA AloneBefore ==
    ASSUME Shape, [Next]_vars, Alone'
    PROVE  Alone /\ ~Operator
<1>1. presses \in 0 .. Presses /\ Presses \in Nat
    BY TimesAreNat DEF Shape, Attempts
<1>2. ~Operator
  <2>1. Operator => presses' = presses - 1
    BY DEF Operator, ConsolePower, ConsoleContact, Button, ConsoleAuto, ConsoleReboot, Press
  <2>2. QED
    BY <1>1, <2>1 DEF Alone
<1>3. presses' = presses
    BY <1>2 DEF Next, BootselService, ServiceOff, ServiceLinked, ServiceUnpowered,
           ServiceWait, ServiceColdEntry, ServiceReset, ServiceStop, BootselRest, Core1,
           TaskNothing, KeyMounts, KeyLeaves, NoCommand, ReadCommand, RunCommand, CycleEnds,
           ColdPowerOn, ColdPress, ColdRelease, Core1Rest, Tick, vars
<1>4. QED
    BY <1>2, <1>3 DEF Alone

LEMMA GraceService ==
    ASSUME GraceInv, BootselService, Alone => Alone', Alone' => Alone
    PROVE  Nobody' /\ Staying' /\ Apart'
<1>t. quiet \in Nat /\ away \in None .. Grace /\ Grace \in Nat
    BY TimesAreNat DEF GraceInv, Shape, Clocks
<1>n. None = -1
    BY DEF None
<1> USE DEF GraceInv, Nobody, Staying, Apart, BootselRest, powerVars, core1Vars
<1>1. CASE ServiceOff
    BY <1>1 DEF ServiceOff
<1>2. CASE ServiceLinked
    BY <1>2 DEF ServiceLinked
<1>3. CASE ServiceUnpowered
    BY <1>3, <1>t, <1>n DEF ServiceUnpowered
<1>4. CASE ServiceWait
    BY <1>4 DEF ServiceWait, Silent
<1>5. CASE ServiceColdEntry
  <2>1. Due /\ ~linked /\ auto /\ quiet' = 0 /\ cmd' = "bootsel"
        /\ UNCHANGED <<held, auto, powerVars, core1Vars, away>>
    BY <1>5 DEF ServiceColdEntry, Due, Silent, Recovering
  <2>2. Nobody' /\ Staying'
    BY <2>1
  <2>3. Alone /\ away # None => away >= Grace - 1
    <3> SUFFICES ASSUME Alone, away # None PROVE away >= Grace - 1
      OBVIOUS
    <3>1. seen /\ (quiet <= away + 1 \/ away = Grace)
      BY <2>1
    <3>2. quiet >= Grace
      BY <2>1, <3>1, GraceWaited
    <3>3. away \in Int
      BY <1>t, <1>n
    <3>4. QED
      BY <1>t, <3>1, <3>2, <3>3
  <2>4. Apart'
    BY <2>1, <2>3, <1>t, <1>n
  <2>5. QED
    BY <2>2, <2>4
<1>6. CASE ServiceReset
    BY <1>6 DEF ServiceReset, Reset
<1>7. CASE ServiceStop
    BY <1>7 DEF ServiceStop, Due, Silent
<1>8. QED
    BY <1>1, <1>2, <1>3, <1>4, <1>5, <1>6, <1>7 DEF BootselService

LEMMA GraceCore1 ==
    ASSUME GraceInv, Core1, Alone => Alone', Alone' => Alone
    PROVE  Nobody' /\ Staying' /\ Apart'
<1>t. /\ quiet \in Nat /\ away \in None .. Grace /\ Grace \in Nat
      /\ linked \in BOOLEAN /\ stayed \in BOOLEAN
    BY TimesAreNat DEF GraceInv, Shape, Clocks, Flags
<1>n. None = -1
    BY DEF None
<1> USE DEF GraceInv, Nobody, Staying, Apart, Core1Rest, powerVars, core0Vars
<1>1. CASE TaskNothing
    BY <1>1 DEF TaskNothing
<1>2. CASE KeyMounts
    BY <1>2 DEF KeyMounts
<1>3. CASE KeyLeaves
    BY <1>3, <1>t, <1>n DEF KeyLeaves
<1>4. CASE NoCommand
    BY <1>4 DEF NoCommand
<1>5. CASE ReadCommand
    BY <1>5 DEF ReadCommand
<1>6. CASE RunCommand
  <2>1. CASE RunOn
    BY <1>6, <2>1 DEF RunCommand, RunOn, PowerUp
  <2>2. CASE ~RunOn
    <3>1. ~linked' /\ ~stayed' /\ away' = None /\ took' = "none" /\ cmd' = "none"
          /\ held' = held /\ pc1' \in {"timer", "off"}
      BY <1>6, <2>2 DEF RunCommand, RunCycle, RunOff, RunBootsel, PowerDown
    <3>2. QED
      BY <3>1
  <2>3. QED
    BY <2>1, <2>2
<1>7. CASE CycleEnds
    BY <1>7 DEF CycleEnds, PowerUp
<1>8. CASE ColdPowerOn
    BY <1>8 DEF ColdPowerOn, PowerUp
<1>9. CASE ColdPress \/ ColdRelease
    BY <1>9 DEF ColdPress, ColdRelease
<1>10. QED
    BY <1>1, <1>2, <1>3, <1>4, <1>5, <1>6, <1>7, <1>8, <1>9 DEF Core1

LEMMA GraceTick ==
    ASSUME GraceInv, Tick
    PROVE  Nobody' /\ Staying' /\ Apart'
<1>t. /\ quiet \in Nat /\ away \in None .. Grace /\ Grace \in Nat /\ BackoffMax \in Nat
      /\ linked \in BOOLEAN
    BY TimesAreNat DEF GraceInv, Shape, Clocks, Flags
<1>n. None = -1
    BY DEF None
<1>1. /\ served /\ stayed' = linked /\ served' = FALSE
      /\ UNCHANGED <<cmd, linked, seen, held, auto, pc1, took, presses>>
      /\ (pc1 = "task" /\ cmd = "none") \/ pc1 \in {"off", "boot", "hold"}
    BY DEF Tick
<1>2. quiet' \in Nat /\ quiet' <= quiet + 1
    BY <1>t DEF Tick, UpTo
<1>3. /\ away = None <=> away' = None
      /\ away # None => away' \in Nat /\ away' <= Grace
                      /\ (away' = away + 1 \/ away' = Grace) /\ away' >= away
    BY <1>t, <1>n DEF Tick, UpTo
<1>4. Nobody'
    BY <1>1 DEF GraceInv, Nobody, Alone
<1>5. Staying'
    BY <1>1, <1>2, <1>3, <1>t DEF GraceInv, Staying, Alone
<1>6. Apart'
  <2> SUFFICES ASSUME Alone', away' # None
               PROVE  /\ auto' => seen' /\ (quiet' <= away' + 1 \/ away' = Grace)
                      /\ cmd' = "bootsel" \/ took' = "bootsel" => away' >= Grace - 1
    BY DEF Apart
  <2>1. Alone /\ away # None /\ away \in Nat
    BY <1>1, <1>3, <1>t, <1>n DEF Alone
  <2>2. /\ auto => seen /\ (quiet <= away + 1 \/ away = Grace)
        /\ cmd = "bootsel" \/ took = "bootsel" => away >= Grace - 1
    BY <2>1 DEF GraceInv, Apart
  <2>3. auto => seen /\ (quiet' <= away' + 1 \/ away' = Grace)
    BY <1>2, <1>3, <1>t, <2>1, <2>2
  <2>4. QED
    BY <1>1, <1>3, <1>t, <2>1, <2>2, <2>3
<1>7. QED
    BY <1>4, <1>5, <1>6

LEMMA GraceInit == Init => GraceInv
<1> SUFFICES ASSUME Init PROVE GraceInv
    OBVIOUS
<1>1. Shape
    BY TypedInit
<1>2. Nobody /\ Staying /\ Apart
    BY DEF Init, Boot, Nobody, Staying, Apart
<1>3. QED
    BY <1>1, <1>2 DEF GraceInv

LEMMA GraceNext == GraceInv /\ [Next]_vars => GraceInv'
<1> SUFFICES ASSUME GraceInv, [Next]_vars PROVE GraceInv'
    OBVIOUS
<1>1. Shape /\ Shape'
    BY TypedNext DEF GraceInv
<1>2. Alone' => Alone /\ ~Operator
    BY <1>1, AloneBefore
<1>3. CASE Operator
  <2>1. ~Alone'
    BY <1>2, <1>3
  <2>2. Nobody' /\ Apart'
    BY <2>1 DEF Nobody, Apart
  <2>3. CASE ConsoleReboot
    <3>1. ~linked' /\ ~stayed' /\ away' = None /\ pc1' = "task" /\ took' = "none"
      BY <2>3 DEF ConsoleReboot, Reset
    <3>2. Staying'
      BY <2>1, <3>1 DEF Staying
    <3>3. QED
      BY <1>1, <2>2, <3>2 DEF GraceInv
  <2>4. CASE ~ConsoleReboot
    <3>1. UNCHANGED <<linked, stayed, away, pc1, took>>
      BY <1>3, <2>4 DEF Operator, ConsolePower, ConsoleContact, Button, ConsoleAuto,
                        powerVars, core1Vars
    <3>2. Staying'
      BY <2>1, <3>1 DEF GraceInv, Staying
    <3>3. QED
      BY <1>1, <2>2, <3>2 DEF GraceInv
  <2>5. QED
    BY <1>1, <2>2, <2>3, <2>4 DEF GraceInv
<1>4. ASSUME Alone => Alone', BootselService \/ Core1 PROVE GraceInv'
    BY <1>1, <1>2, <1>4, GraceService, GraceCore1 DEF GraceInv
<1>5. BootselService \/ Core1 => (Alone => Alone')
  <2>1. BootselService \/ Core1 => presses' = presses
    BY DEF BootselService, ServiceOff, ServiceLinked, ServiceUnpowered,
           ServiceWait, ServiceColdEntry, ServiceReset, ServiceStop, BootselRest, Core1,
           TaskNothing, KeyMounts, KeyLeaves, NoCommand, ReadCommand, RunCommand, CycleEnds,
           ColdPowerOn, ColdPress, ColdRelease, Core1Rest
  <2>2. QED
    BY <2>1 DEF Alone
<1>6. CASE Tick
    BY <1>1, <1>6, GraceTick DEF GraceInv
<1>7. CASE UNCHANGED vars
  <2>1. Nobody' /\ Staying' /\ Apart'
    BY <1>7 DEF GraceInv, Nobody, Staying, Apart, Alone, vars, powerVars, core0Vars, core1Vars
  <2>2. QED
    BY <1>1, <2>1 DEF GraceInv
<1>8. QED
    BY <1>3, <1>4, <1>5, <1>6, <1>7 DEF Next

\* As long as nobody has been at the console or the button, no cold entry begins
\* before a key that left by itself has had the grace to come back, however many
\* attempts there were.  Of a key that has just come it says nothing.
THEOREM GraceIsGiven == Spec => GraceGiven
<1>1. GraceInv /\ [Next]_vars =>
          [presses = Presses /\ pc1 = "taken" /\ pc1' = "off"
              => away = None \/ away >= Grace - 1]_vars
  <2> SUFFICES ASSUME GraceInv, presses = Presses, pc1 = "taken", away # None
               PROVE  away >= Grace - 1
    BY DEF vars, powerVars
  <2>1. took = "bootsel"
    BY DEF GraceInv, Nobody, Staying, Alone
  <2>2. QED
    BY <2>1 DEF GraceInv, Apart, Alone
<1>2. QED
    BY <1>1, GraceInit, GraceNext, PTL DEF Spec, GraceGiven
=============================================================================
