--------------------------- MODULE WatchdogProofs ---------------------------
(***************************************************************************)
(* Proofs about the watchdog of core 1, for every limit and for every      *)
(* duration of a setup, a cold entry and a dump, as long as the limit      *)
(* leaves room for a dump.                                                 *)
(***************************************************************************)
EXTENDS Watchdog, TLAPS

\* The watchdog's limit covers the longest dump of a key that answers and the
\* second that may have gone by before it began.
DumpFits == DumpMax \in Nat /\ DumpMax + 1 < Limit

---------------------------------------------------------------------------
(* What core 0 can have seen of a core 1 that works *)

\* Core 1 has reported itself fatal exactly when it is.
FatalShown == fatal <=> pc1 = "fatal"

\* The first look comes while core 1 still sets up, or it finds it fatal.
JudgedEarly ==
    /\ pc1 \notin {"setup", "fatal"} => judged
    /\ looked /\ pc1 # "fatal" => judged
    /\ pc1 = "setup" /\ left < Setup => judged

\* Only these steps take time, and a setup and a dump no more than they may.
WorkEnds ==
    /\ left > 0 => pc1 \in {"setup", "off", "boot", "hold", "dumping"}
    /\ pc1 = "setup" => left <= Setup
    /\ pc1 = "dumping" => left <= DumpMax

\* A pass moves the tick counter, and then the clock starts anew.
PassMoves ==
    /\ pc1 \in {"task", "power"} => passed
    /\ passed => moved \/ since = 0

\* How far the clock can have come while core 1 works: what the work in hand
\* still takes is never more than the limit has left, except for a cold entry,
\* which keeps the clock down by what it announces.
ClockBehind ==
    ~moved =>
        /\ pc1 = "setup" => since + left <= Setup
        /\ pc1 = "top" => since <= Setup \/ since <= DumpMax + 1
        /\ longOp => since <= 1 /\ (looked => since = 0)
        /\ pc1 = "dump" => since <= 1
        /\ pc1 = "dumping" => since + left <= DumpMax + 1

\* The clock of a wedged core 1 lags one second behind it, or has not started
\* because the last tick before the wedge is still to be seen.
ClockFollows ==
    /\ pc1 # "wedged" => stopped = 0
    /\ pc1 = "wedged" /\ ~dumpReq /\ boots > 0 =>
           IF moved
           THEN stopped <= 1 /\ (looked => stopped = 0)
           ELSE stopped <= since + 1 /\ (looked => since < Limit)

---------------------------------------------------------------------------
(* Types *)

\* TypeOK, with one conjunct for each variable.
Flags ==
    /\ moved \in BOOLEAN /\ judged \in BOOLEAN /\ looked \in BOOLEAN
    /\ passed \in BOOLEAN /\ dumpReq \in BOOLEAN /\ coldReq \in BOOLEAN
    /\ longOp \in BOOLEAN /\ faultWedge \in BOOLEAN /\ fatal \in BOOLEAN

Steps ==
    {"setup", "top", "task", "power", "off", "boot", "hold", "dump", "dumping",
     "wedged", "fatal"}

Announced == longOp <=> pc1 \in {"off", "boot", "hold"}

Numbers ==
    /\ since \in 0 .. Limit /\ pc1 \in Steps
    /\ left \in Nat /\ stopped \in 0 .. Limit + 3
    /\ cmds \in 0 .. Cmds /\ boots \in 0 .. Boots

Types == Flags /\ Announced /\ Numbers

\* The rest of the inductive invariant.
WatchInv ==
    /\ FatalShown /\ JudgedEarly /\ WorkEnds /\ PassMoves
    /\ ClockBehind /\ ClockFollows /\ OnlyWedgesReset

LEMMA TypeParts == Types => TypeOK
<1> SUFFICES ASSUME Flags, Announced, Numbers PROVE TypeOK
    BY DEF Types
<1>1. longOp = (pc1 \in {"off", "boot", "hold"})
    BY Zenon DEF Flags, Announced
<1>2. {moved, judged, looked, passed, dumpReq, coldReq, longOp, faultWedge, fatal}
          \subseteq BOOLEAN
    BY Zenon DEF Flags
<1>3. QED
    BY <1>1, <1>2, Zenon DEF TypeOK, Numbers, Steps

LEMMA FlagsNext == Flags /\ [Next]_vars => Flags'
<1> SUFFICES ASSUME Flags, [Next]_vars PROVE Flags'
    OBVIOUS
<1> USE DEF Flags, wdog, flags, core1
<1>1. CASE SetupDone
    BY <1>1 DEF SetupDone, Busy
<1>2. CASE BeginPass
    BY <1>2 DEF BeginPass, Busy
<1>3. CASE InjectedWedge
    BY <1>3 DEF InjectedWedge, Stop
<1>4. CASE HostTask
    BY <1>4 DEF HostTask, Busy, Stop
<1>5. CASE PowerService
    BY <1>5 DEF PowerService, Busy
<1>6. CASE ColdNext
    BY <1>6 DEF ColdNext, Busy
<1>7. CASE Dump
    BY <1>7 DEF Dump, Busy
<1>8. CASE DumpDone
    BY <1>8 DEF DumpDone, Busy
<1>9. CASE Ask
    BY <1>9 DEF Ask
<1>10. CASE WatchProgress
    BY <1>10 DEF WatchProgress, Restart
<1>11. CASE WatchExcuse
    BY <1>11 DEF WatchExcuse, Restart, Excused
<1>12. CASE WatchOn
    BY <1>12 DEF WatchOn, Excused
<1>13. CASE WatchReset
    BY <1>13 DEF WatchReset, Excused, Fresh
<1>14. CASE Tick
    BY <1>14 DEF Tick, Core1Settled, UpTo
<1>15. CASE UNCHANGED vars
    BY <1>15 DEF vars
<1>16. QED
    BY <1>1, <1>2, <1>3, <1>4, <1>5, <1>6, <1>7, <1>8, <1>9, <1>10,
       <1>11, <1>12, <1>13, <1>14, <1>15 DEF Next, Core1, WatchdogService

LEMMA RangesNext == Announced /\ Numbers /\ [Next]_vars => Announced' /\ Numbers'
<1> SUFFICES ASSUME Announced, Numbers, [Next]_vars PROVE Announced' /\ Numbers'
    OBVIOUS
<1>0. {Setup, ColdOff, ColdBoot, ColdHold, DumpMax, Limit, Cmds, Boots} \subseteq Nat
    BY TimesAssumption
<1> USE <1>0 DEF Announced, Numbers, Steps, wdog, flags, core1
<1>1. CASE SetupDone
    BY <1>1 DEF SetupDone, Busy
<1>2. CASE BeginPass
    BY <1>2 DEF BeginPass, Busy
<1>3. CASE InjectedWedge
    BY <1>3 DEF InjectedWedge, Stop
<1>4. CASE HostTask
    BY <1>4 DEF HostTask, Busy, Stop
<1>5. CASE PowerService
    BY <1>5 DEF PowerService, Busy
<1>6. CASE ColdNext
    BY <1>6 DEF ColdNext, Busy
<1>7. CASE Dump
    BY <1>7 DEF Dump, Busy
<1>8. CASE DumpDone
    BY <1>8 DEF DumpDone, Busy
<1>9. CASE Ask
    BY <1>9 DEF Ask
<1>10. CASE WatchProgress
    BY <1>10 DEF WatchProgress, Restart
<1>11. CASE WatchExcuse
    BY <1>11 DEF WatchExcuse, Restart, Excused
<1>12. CASE WatchOn
    BY <1>12 DEF WatchOn, Excused
<1>13. CASE WatchReset
    BY <1>13 DEF WatchReset, Excused, Fresh
<1>14. CASE Tick
    BY <1>14 DEF Tick, Core1Settled, UpTo
<1>15. CASE UNCHANGED vars
    BY <1>15 DEF vars
<1>16. QED
    BY <1>1, <1>2, <1>3, <1>4, <1>5, <1>6, <1>7, <1>8, <1>9, <1>10,
       <1>11, <1>12, <1>13, <1>14, <1>15 DEF Next, Core1, WatchdogService

LEMMA TypesNext == Types /\ [Next]_vars => Types'
    BY FlagsNext, RangesNext DEF Types

LEMMA WatchTick ==
    ASSUME DumpFits, Types, WatchInv, Tick
    PROVE  WatchInv'
<1> USE DEF DumpFits, Types, WatchInv
<1>0. Limit \in Nat /\ Setup \in Nat /\ Setup < Limit
    BY TimesAssumption
<1>1. left' = IF left > 0 THEN left - 1 ELSE 0
    BY DEF Tick
<1>2. since' = IF since + 1 < Limit THEN since + 1 ELSE Limit
    BY DEF Tick, UpTo
<1>3. stopped' = IF pc1 = "wedged" THEN UpTo(stopped + 1, Limit + 3) ELSE 0
    BY DEF Tick
<1>4. looked /\ ~looked' /\ ~passed' /\ Core1Settled
    BY DEF Tick
<1>5. UNCHANGED <<moved, judged, dumpReq, longOp, fatal, pc1, resets, cmds, boots>>
    BY DEF Tick, flags
<1>6. left \in Nat /\ since \in 0 .. Limit
    BY DEF Numbers
<1>8. (FatalShown /\ OnlyWedgesReset)'
    BY <1>5 DEF FatalShown, OnlyWedgesReset
<1>9. JudgedEarly' /\ WorkEnds' /\ PassMoves'
    BY <1>1, <1>4, <1>5, <1>6, <1>0 DEF JudgedEarly, WorkEnds, PassMoves, Core1Settled
<1>10. ClockBehind'
  <2>1. SUFFICES ASSUME ~moved PROVE ClockBehind'
    BY <1>5 DEF ClockBehind
  <2>2. CASE pc1 = "setup"
    BY <2>1, <2>2, <1>1, <1>2, <1>4, <1>5, <1>6, <1>0 DEF ClockBehind, Announced, Core1Settled
  <2>3. CASE pc1 = "top"
    BY <2>1, <2>3, <1>2, <1>4, <1>5, <1>6, <1>0
       DEF ClockBehind, Announced, PassMoves, WorkEnds, Core1Settled
  <2>4. CASE pc1 = "dumping"
    BY <2>1, <2>4, <1>1, <1>2, <1>4, <1>5, <1>6, <1>0 DEF ClockBehind, Announced, Core1Settled
  <2>5. CASE longOp
    BY <2>1, <2>5, <1>2, <1>4, <1>5, <1>6, <1>0 DEF ClockBehind, Announced
  <2>6. pc1 # "dump"
    BY <1>4, <1>6 DEF Core1Settled, WorkEnds
  <2>7. QED
    BY <2>2, <2>3, <2>4, <2>5, <2>6, <1>5 DEF ClockBehind
<1>11. ClockFollows'
  <2>1. stopped \in Nat
    BY DEF Numbers
  <2>2. CASE pc1 = "wedged"
    BY <2>1, <2>2, <1>2, <1>3, <1>4, <1>5, <1>6, <1>0 DEF ClockFollows, UpTo
  <2>3. CASE pc1 # "wedged"
    BY <2>3, <1>3, <1>5 DEF ClockFollows
  <2>4. QED
    BY <2>2, <2>3
<1>12. QED
    BY <1>8, <1>9, <1>10, <1>11

LEMMA WatchNext == DumpFits /\ Types /\ WatchInv /\ [Next]_vars => WatchInv'
<1> SUFFICES ASSUME DumpFits, Types, WatchInv, [Next]_vars PROVE WatchInv'
    OBVIOUS
<1> USE TimesAssumption DEF DumpFits, Types, Flags, Announced, Numbers, Steps, FatalShown,
        JudgedEarly, WorkEnds, PassMoves, ClockBehind, ClockFollows, OnlyWedgesReset,
        WatchInv, wdog, flags, core1
<1>1. CASE SetupDone
    BY <1>1 DEF SetupDone, Busy
<1>2. CASE BeginPass
    BY <1>2 DEF BeginPass, Busy
<1>3. CASE InjectedWedge
    BY <1>3 DEF InjectedWedge, Stop
<1>4. CASE HostTask
    BY <1>4 DEF HostTask, Busy, Stop
<1>5. CASE PowerService
    BY <1>5 DEF PowerService, Busy
<1>6. CASE ColdNext
    BY <1>6 DEF ColdNext, Busy
<1>7. CASE Dump
    BY <1>7 DEF Dump, Busy
<1>8. CASE DumpDone
    BY <1>8 DEF DumpDone, Busy
<1>9. CASE Ask
    BY <1>9 DEF Ask
<1>10. CASE WatchProgress
    BY <1>10 DEF WatchProgress, Restart
<1>11. CASE WatchExcuse
    BY <1>11 DEF WatchExcuse, Restart, Excused
<1>12. CASE WatchOn
    BY <1>12 DEF WatchOn, Excused
<1>13. CASE WatchReset
    BY <1>13 DEF WatchReset, Excused, Fresh
<1>14. CASE Tick
    BY <1>14, WatchTick
<1>15. CASE UNCHANGED vars
    BY <1>15 DEF vars
<1>16. QED
    BY <1>1, <1>2, <1>3, <1>4, <1>5, <1>6, <1>7, <1>8, <1>9, <1>10,
       <1>11, <1>12, <1>13, <1>14, <1>15 DEF Next, Core1, WatchdogService

LEMMA WatchInit == Init => Types /\ WatchInv
<1> SUFFICES ASSUME Init PROVE Types /\ WatchInv
    OBVIOUS
<1> USE TimesAssumption DEF Init, Fresh
<1>1. Flags /\ Announced
    BY DEF Flags, Announced
<1>2. Numbers
    BY DEF Numbers, Steps
<1>3. FatalShown /\ JudgedEarly /\ WorkEnds /\ PassMoves
    BY DEF FatalShown, JudgedEarly, WorkEnds, PassMoves
<1>4. ClockBehind /\ ClockFollows /\ OnlyWedgesReset
    BY DEF ClockBehind, ClockFollows, OnlyWedgesReset
<1>5. QED
    BY <1>1, <1>2, <1>3, <1>4 DEF Types, WatchInv

---------------------------------------------------------------------------
(* Theorems *)

\* The variables of the watchdog and of core 1 have their types, and the
\* announcement of a long operation stands exactly during a cold entry.
THEOREM WatchdogTyped == Spec => []TypeOK
<1>1. Init => Types
    BY WatchInit
<1>2. QED
    BY <1>1, TypesNext, TypeParts, PTL DEF Spec

LEMMA WatchStays ==
    ASSUME DumpFits
    PROVE  Spec => [](Types /\ WatchInv)
<1>1. Types /\ WatchInv /\ [Next]_vars => (Types /\ WatchInv)'
    BY TypesNext, WatchNext
<1>2. QED
    BY <1>1, WatchInit, PTL DEF Spec

\* core1_watchdog_service resets the board from under no core 1 but a wedged
\* one: setups, cold entries and dumps of any length within the limit, asked
\* for at any time, are told from a wedge by the ticks and the two flags.
THEOREM WatchdogSpares ==
    ASSUME DumpFits
    PROVE  Spec => []OnlyWedgesReset
<1>1. WatchInv => OnlyWedgesReset
    BY DEF WatchInv
<1>2. QED
    BY <1>1, WatchStays, PTL

\* A wedge is found within a second of the limit, whatever came before it, as
\* long as no dump is asked for.
THEOREM WatchdogFinds ==
    ASSUME DumpFits
    PROVE  Spec => []WedgeFoundInTime
<1>1. Types /\ WatchInv => WedgeFoundInTime
    BY TimesAssumption DEF Types, Numbers, WatchInv, ClockFollows, WedgeFoundInTime
<1>2. QED
    BY <1>1, WatchStays, PTL
=============================================================================
