# OnlyKey USB/HID pass-through: TLA+ models, checks and proofs

An RP2040 board sits between a PC and a USB security key. Core 1 is USB host to
the key (PIO USB, TinyUSB host stack), core 0 is USB device to the PC (TinyUSB
device stack) and has a serial console. The firmware, `src/src/main.cpp` with
`src/include/log_ring.h`, clones the key's HID interfaces, carries reports both
ways and switches the key's power and its bootloader contact.

The cores share memory and nothing else: rings with one producer and one
consumer, and `volatile` flags. Nothing takes a lock. Most of what can go wrong
is a step of one core between two steps of the other, or a time chosen on one
core that has to outlast a time chosen on the other. That is what is modelled
here; one module per part, parts joined where a claim needs them together.

Line numbers are those of `src/src/main.cpp` unless a file is named.

## 1. Inventory

| Part | State | Operations | Talks to |
|---|---|---|---|
| Report rings, `spsc_queue<T,N>` (385-412) | `slot[]`, `head`, `tail` | reserve, commit, peek, pop, flush | every report crosses one |
| PC -> key: `set_report_thunk` (764), `forward_out` (2157) | `g_outq[]`, `g_out_hold_until[]`, the control pipe | accept or wait or drop; submit, hold off, discard | host stack; the link table; `pc_present_set` (543) flushes it |
| Key -> PC: `arm_service` (2077), `tuh_hid_report_received_cb` (2556), `forward_in` (2005) | `g_inq[]`, the outstanding IN request of an interface | ask, receive, hand on | both stacks; `presence_service` flushes it |
| Link table and presence (1907-2001, 2122-2136, 2442-2554) | `g_link[]`, `g_dev_vid/pid`, `g_clone_failures`, `g_link_settle_at`, `g_pc_present_req`, `g_usb_has_hid` | mount, unmount, settle, detach, rebuild, attach | core 1 writes it, core 0 reads it; the PC keeps pointers into it |
| VBUS, bootloader contact, recovery (543-725, 1040-1480) | `g_power_cmd`, `g_power_is_on`, the contact and its timers, attempts, scratch register 4 | commands, cold entry, tap, hold, escalation | three requesters on core 0, one executor on core 1 |
| Watchdog of core 1 (1699) | last tick and its date; `g_dump_req`, `g_core1_long_op`, `g_core1_fatal` | look, excuse, reset | everything core 1 does |
| Health counters (438-445, 922-950) | `g_out_sent`, `g_out_dropped`, `g_out_drop_flag`, ... | increment on both cores and in the interrupt, print, zero | forward paths, console |
| Log ring (`include/log_ring.h`) | `buf_`, `head_`, `tail_`, `dropped_` | write (anyone), read (core 0) | everything logs |
| Console (1317), fault injection (989-1040) | one character; `g_fault_*` | one command each | sets the flags and commands above |
| Host-side flasher (`tools/halfkay_flash.py`) | position in the image, baseline of PIO timeouts, whether the console is still there | write a block, read the health line, zero the counters, give up | the board, over USB |
| USB host: `usbh.c`, `hid_host.c`, `hcd_pio_usb.c`, `pio_usb_host.c` | root port, endpoint pool, event queue, control pipe, devices, enumeration, HID interfaces | a frame; a completion, arrival or departure; a delay; claim, submit, abort | calls back into `main.cpp` from `USBHost.task()` |
| USB device stack: `usbd.c`, `hid_device.c` | vendored | | external to every model |
| LED, pixel, button debounce; printing; descriptor dump | display state | render | read-only |
| Rig and test scripts | | drive the board, print | the board, over USB |

What makes each part correct, and what is hard about it, is in the table of
section 3 and, line by line, in the hazards of `PROJECT.json`.

## 2. Modules

| Module | Models | Its actions are |
|---|---|---|
| `Fifo` | what a ring promises: a bounded queue; a flush discards what was queued when it began | `Put See Drop Leave FlushMark FlushDrop` |
| `SpscQueue` | `spsc_queue<T,N>` | one access to a shared location each; the caller's copy is two steps with the slot `Torn` in between |
| `OutPath` | the PC -> key direction | the turns of the thunk's spin; one event of `USBHost.task()`; `power_service`/`link_service`; one turn of `forward_out`'s loop; a tick of time |
| `InPath` | the key -> PC direction | callbacks, `arm_service` for one interface, `link_service`; `presence_service` in three steps around its delays, of which the middle one fixes the interfaces of the configuration; `forward_in`; the PC's poll |
| `Presence` | link table and presence | callbacks up to each shared store; `usb_build_config` one read of shared state at a time |
| `Recovery` | power, contact, recovery, button, console commands | `power_service` split between the read of the command and its clear; the stages of a cold entry; one action per return of `bootsel_service` |
| `Watchdog` | the watchdog and what keeps core 1 busy | one per branch of `core1_watchdog_service`; the blocking steps of `loop1()` and `setup1()` |
| `Counters` | the drop and sent counters, the flag, `reset_counters` | one load or store each, by the interrupt, core 0's loop and core 1 |
| `LogRing` | `LogRing` with any number of producers | one access each |
| `HostApi` | what `main.cpp` takes for granted of the USB host | `Mount Unmount Ask Answer` |
| `HostStack` | the USB host of core 1, for one key on the root port | a frame of Pico-PIO-USB; one event or expired delay of `tuh_task`; `arm_service`'s and `forward_out`'s calls; the key and VBUS |
| `FlashGate` | the flasher, on top of `Counters` and an abstract PC -> key path | each write, reading and exit of `main()`; what befalls a report, the key, core 1 and the board |
| `MC...` | instances | |
| `RingProofs` (both rings), `InPathProofs`, `OutPathProofs`, `PresenceProofs`, `RecoveryProofs`, `WatchdogProofs`, `HostStackProofs`, `FlashGateProofs` (with `Counters`) | proofs | |

`OutPath` and `InPath` take a ring for the sequence that `RingProofs`
proves it to be. `OutPath` keeps every report's position because a control
transfer goes on reading the slot it was submitted from after the slot has been
popped: positions equal modulo `N` share a slot. `LogRing` and `SpscQueue` are
two implementations of the one abstract `Fifo`.

Composition is by shared interface rather than by one large module. The link
table appears in `InPath` and `OutPath` as `mounted`, `settle` and the two
events that change it (`Unplug` with the host stack's knowledge, `PowerOff`
without), in the order `Presence` and `Recovery` produce them.

The host stack is an abstraction in those modules: an interface is mounted
before it is used, at most one report is asked of it at a time and answered at
most once, one control transfer at a time, callbacks inside `USBHost.task()`.
`HostApi` states the part of this that concerns interfaces, and `HostStack`, in
which TinyUSB's host stack and Pico-PIO-USB's frame interrupt are modelled, is
checked and proved to implement it (`RefinesApi`). One stage of a control transfer at a
time is `ControlMoves`.

`FlashGate` EXTENDS `Counters` and puts its loads and stores where the flasher's
proxy makes them. A block goes from the ring (`queue`) into core 1's hands
(`wire`) and from there into the key (`image`), or is lost in one of the ways
`OutPath` and `Watchdog` know: refused, discarded, flushed, failed, timed out,
reset. Times are left out, so a full ring may stay full for as long as the
thunk waits.

External, and written from how the code uses it: the key, which may leave at any
point and keeps a report until it is asked for one; the PC, which polls when it
likes and whose writes fail when the device has gone; in `InPath`, `OutPath` and
`Presence` the device stack.

`TypeOK` of each module documents its state. The runs `spsc` and `in_path` check
it; of every module with proofs of its own it is a theorem.

Variables that a module calls *history* exist for the properties alone. An
operator called "Mutant of X" is a wrong version of X that some property must
tell from the right one; nothing else refers to it.

## 3. Runs

All but `spsc` set `CHECK_DEADLOCK FALSE`: a model with a finite budget of
reports, commands, resets or plug events really stops when it is used up.
`spsc` has no budget and is checked for deadlock.

### Passing

**spsc** - N = 4, two distinguishable reports, no bound on operations.
The two cores interleave anywhere inside the five operations. `NoSlotRace`: no
slot is written while it is read. `NeverTorn`. `RefinesFifo`: each step is a
step of `Fifo`, so a flush that overlaps a commit does not take the new report.
Four slots are the least in which a queue can be partly full and wrapped at
once; the proofs cover every N.

**out_flash** - the code's own times in units of 500 ms (`PROXY_OUT_BLOCK_MS` 8,
`PROXY_HALFKAY_ERASE_MS` 6), a key that erases for 5 and transfers that take
up to 1, rings of three slots, five reports, a bootloader beside a second
interface. The key stays attached and core 1 runs. `NoBlockLost`: the interrupt
waits long enough for the slowest queue in front of it. `QuietDuringErase`: while
an interface is erasing, no transfer to that interface is under way. It is about
interfaces because the hold-off is (2158-2171): a SET_REPORT to another interface of the
same key may go out during an erase. `InFlightIntact`: the slot a transfer
reads is not rewritten. `InFlightIsNew`: nothing is sent twice or out of order.
A ring of three with five reports fills, blocks, wraps and reuses slots.

**out_live** - small times, a second interface with an OUT endpoint of its own,
a failing transfer, an unplug or power cut, and a core 1 that may stop.
`HoldDiesWithKey`, `Drains` (every committed report leaves the
ring unless core 1 stops), `ThunkReturns` (the interrupt returns even then).

**in_path** - two interfaces, rings of three slots, three reports each (so a
ring fills), one unplug or power cut, requests that may fail (the host stack
passes a failed one on like an answer). `NoInDrop`: the room that was
seen when a report was requested is there when it arrives. `InOrder`: what is
given to the PC is newer than what it took, and whatever it skips was discarded
on purpose. `KeepsAsking` and `Forwarded`: an interface that is up is asked for a
report again and again, and what it sent reaches the PC or is discarded on purpose.
Both except an interface that is not in the configuration the PC has: `g_hid[i].ready()`
(2007) stays false for one that mounts after `usb_build_config` (1938), which
happens here because `link_service` does not wait for all mounts.

**wdog** - limit 4, a cold entry of 4 + 2 + 1 (its first stage alone is as long
as the limit, as in the code: 3000 + 1500 + 300 ms against 3000), dumps up to 2, three requests, two
resets. `OnlyWedgesReset`, `WedgeFoundInTime` (limit + 1), `WedgeIsReset`.

**recovery** - all commands, two of them, one key that comes up and leaves;
times in the code's order. `ResetsBounded` (a reset clears everything but
scratch register 4), `GraceGiven`, `SilenceActedOn`, `OffStaysOff`,
`ContactReleased`, `PowerReturns`. `GraceGiven` is about a key that left by itself while
nobody had been at the console or the button; a key that has just come may be hit by a cold
entry that was decided on before. Two commands are enough for each to come
in the middle of what another began; three resets are reachable because the
recovery needs no command.

**presence** - three slots and three kinds of key (two interfaces, one, and one more than
there are slots), three arrivals. Departures, arrivals, mounts and the end of the settling
time come in any order: the next key may come while the last one is announced, shown or being
taken down, and an interface may mount after the key was announced. `MirrorsAtRest`:
at rest the PC is shown the key that is there, whole but for such late interfaces, each interface
that was in time at the place of its slot, and nothing when there is no key. `OneDevice`: IDs and
interfaces are of one key although read one by one while interfaces mount and keys change.
`NeverChangeUnderneath`: the descriptors the PC has pointers to stay as they are.
`PartialIsCounted`: the clone failures are the interfaces that found no slot, and what else is
missing is late. `BecomesVisible`. All but the counting except a key that came while the last one
was still announced or shown (`swift`): there the code does not do what its comments say, see
"Other places". Three arrivals let a swift key be followed by one that is not; the
application's two interfaces leave a slot for late mounts, the last key fills the table.

**host** - a key of two interfaces, three addresses, one retry of a control
transfer, two unplugs (each of which may be a bounce within one frame), one power
cut, two failed transfers, at any point. 293 000 states. `BusyIsPending`:
an endpoint marked busy has its transfer under way or its end in the queue, one
of the two and once, so `arm_service` gets to ask again. `ControlMoves`: the same
of the control pipe, whichever of enumeration, SET_REPORT, retry or abort used it,
and no other control transfer is in the way. `NothingStale`: no end of a
transfer outlives its device in the queue; a key about to be addressed meets no
transfer, endpoint or interface of the one before. `RefinesApi`. `Enumerates`: a
key that stays is enumerated in full, whatever came before, unless a transfer
failed or the key or VBUS went while a connection settled. Two unplugs are the
fewest with which a key, its removal and the enumeration of the next overlap in
the queue; two interfaces are needed for a departure between two mounts.

**flash_gate** - three blocks, a check after two, a ring of one, two faults
(injected drop, silent failure, PIO timeout, unplug, stopped core 1), one reset of
the counters, counts left by an earlier run. 1.2 million states. `KnownLanded`:
as long as every reading got its line, a block that a reading vouches for is in
the key, unless its transfer failed without a trace. `LossEndsIt`: a loss before
the last check ends the flash with an error. `NoFalseAlarm`: nothing went
wrong, nothing is refused, whatever counts an earlier run left.
`DropStaysVisible`: a drop leaves the count above zero, lost updates and resets
notwithstanding. Three blocks and a check interval of two give a check in the
middle, one block after it, and a check at the end.

### Violations: where the code and what is said of it part

**wdog_disarmed** - `EveryWedgeIsReset`. The operator types `d` while core 1 is in
`setup1()`; core 1 goes on to `loop1()` and wedges in `USBHost.task()`, before it comes to the
dump. `g_dump_req` is cleared by core 1 alone, so from then on every look of the watchdog finds it
set and restarts the clock (1721). A `d` typed after the wedge has the same effect.
Lines 1697-1698 say "Deliberately fires even with nothing attached: a wedge with
an empty port is still a wedge".

**log_two** - `NothingVanishes`: what `write()` accepted is in the ring until core 0 has
read it. N = 4; core 1 and the USB interrupt write six characters. Core 1 has stored its
character and not yet advanced `head_` when the interrupt computes the same `next`; core 1
advances; the interrupt stores one cell further on (`log_ring.h:44` reads `head_` again) and sets
`head_` to where it is already. Both calls count their character as written, one is in the ring,
and `dropped_` has seen neither. `log_ring.h:35` says "Producer: any core, including IRQ
context. Drops rather than blocking."; both do log (234-236). That two overlapping writes are
all it takes, and that nothing else can go wrong, is the theorem `LogImplementsFifo`.

**host_dead_port** - `ReEnumerates`: a key that stays is enumerated. A key is seen
(`FrameConnect`), its arrival is handled (`Attach`), VBUS goes off, and the
debouncing delay ends with nobody there: `usbh.c:1561` ends the enumeration and
leaves the root port connected and suspended. From then on `pio_usb_host_frame`
looks neither for a departure (`pio_usb_host.c:282` skips suspended ports) nor for
an arrival (`pio_usb_host.c:351` skips connected ones). VBUS comes back, and
nothing happens; every later power cycle passes unnoticed, and only a reset of
the board helps. Lines 614-615 say "the host stack must keep running through the
off window so it notices the disconnect and re-enumerates on the way back up".
It takes a key that goes within 150 ms of being seen.

### Other places where code and comment part

Each was met while modelling. No run shows it, because the models follow the
code and the properties above leave it out; the way to see it is given.

- `forward_out`'s discard (2185) and `pc_present_set`'s flush (548) do not raise
  `g_out_drop_flag`; 441 says it is set when a report is discarded.
  (`OutPath`: `lost # {} => flag`.)
- `g_out_sent` counts what the stack accepted (2222); 918 and 2209 call it what
  was delivered. (`MayFail`: a transfer that fails was popped and counted.)
- The thunk gives up on a core 1 that has not ticked *since entry* (795-801);
  788-789 say "the moment it stops moving". (`OutPath`: with `ticked`, a wedged
  core 1 is waited for until `Block`.)
- On an interface with an OUT endpoint OUTPUT reports go on while a FEATURE
  report's control transfer still reads its slot (2198); 2139-2141 say the two
  calls' refusals are "the gate against overlapping transfers". (`InFlightIntact`
  with `OutEp = {1}`, `Budget` 4, `N` 3.) It needs a FEATURE report followed by as
  many OUTPUT reports as the ring holds within one control transfer.
- An OUTPUT report longer than the endpoint's buffer is refused every time, and
  2203 takes a refusal for "busy": the queue behind it stands. (`Drains` with
  "block" sent to an interface of `OutEp`.)
- `indrops` stays zero while `presence_service` (1983) flushes reports and while
  the callback finds no link; `README.md:658` calls it the check for lost
  reports. (`InPath`: `cut` non-empty, `inDropped` false.)
- `loop1` clears `g_dump_req` before the dump (2408), so a dump longer than the
  limit is reset, against 202 and 1718-1720. (`OnlyWedgesReset`, `DumpMax` 6.)
- A cold entry under way releases a contact that `G` holds (681, against
  1055-1057); it powers up with the contact open and presses later (670, against
  471-472).
- After three resets the recovery switches itself off (1243); 1098 says
  "Recovery never gives up".
- `power_service` reads `g_power_cmd` and then clears it (690): a press of the
  button in between is lost, against 702. (`Recovery`: between `ReadCommand`
  and `RunCommand`.)
- While `A` has the recovery off it does not see a key come and go (1159), so the
  grace of 477-478 is not given when it is switched on. (`GraceGiven` without
  `presses = Presses`.)
- A key that leaves and another that arrives before `link_service` runs leave the
  presence bit as it was, and the PC keeps the old key's interfaces (1978, against
  1921-1922 "Adopt whatever is attached, so bootloader mode is presented to the PC
  as the bootloader"). The table the PC has pointers into is then overwritten while
  it is attached (2522, against 1907-1908), and if core 0 is still building the configuration
  the IDs and interfaces of the two keys are mixed. (`Presence`: `MirrorsAtRest`,
  `NeverChangeUnderneath` and `OneDevice` without `swift`.)
- An IN transfer that failed reaches `tuh_hid_report_received_cb` as a report of
  length 0 (`hid_host.c:467` passes no result on) and is queued for the PC (2556).
- `halfkay_flash.py:29-32` promises an abort the instant anything is dropped, "rather
  than finishing and reporting a success it cannot substantiate". It exits 0 with
  blocks it has no word of: those still in the ring or on the wire at the last
  reading; those whose transfer failed silently; with `--no-reboot`, those lost after
  the last check; all of them when no health line comes (176, 315). (`FlashGate`:
  `code = 0 => Written \subseteq image`.)
- A key that bounces within one frame while SET_ADDRESS is under way leaves its
  address taken (`usbh.c:1737`), because the device removed is device 0. Four such
  bounces in a row leave no address; the assertion of `usbh.c:1733` then ends the
  enumeration without ending it, until a real departure. (`Enumerates` with
  `Addrs = 2`.)
- A key whose report descriptor cannot be read stays half cloned until it is
  unplugged, and its enumeration never ends (`hid_host.c:600`). (`Enumerates` without
  `faults = Faults`.)
- An interface that mounts after the key was announced is not shown, and not counted
  (1978, against 1938). Core 1 asks it for reports all the same, until its ring is full, and then
  never again (2106, 2007). (`Presence`: `Len(shown.itf) = Fitting(Width[plugged])`;
  `InPath`: `KeepsAsking` without `i \notin config`.)
- An interface that mounts while `usb_build_config` goes through the table may be shown although
  one before it is not. The device stack numbers its instances by place in the configuration
  (`hid_device.c:235`), `main.cpp` by slot (1883), so reports then go to the wrong interface.
  (`Presence`: `Shows` with `shown.itf[j].slot = j` for every j.)
- `g_dev_vid/pid` are never cleared (1924), so the console-only device keeps the last
  key's IDs, against 368; and if the next key mounts during that rebuild, it has the vendor
  ID of one key and the product ID of another.
- `g_out_dropped` is incremented on both cores (811, 998, 2185), against 438.
  (`FlashGate`: `dropped < seen`.)
- A drop between two stores of `reset_counters` (944) is counted and its flag
  cleared, against 442. (`FlashGate`: `dropped > 0` and not `flag`, at rest.)

## 4. Time and fairness

Time is a `Tick` action that moves every deadline at once. It is enabled only
when each core that is alive has finished its pass and every wait that is over
has been acted on: the loops take microseconds to milliseconds, the units are
hundreds of milliseconds. So a core makes at least one whole pass per unit, and
no more can be concluded from a timeout than the code's could.

- `out_live`: weak fairness of the interrupt's spin (it runs to its end) and of
  core 1 (the loop goes round; `~alive` disables it); strong fairness of `Tick`,
  which is enabled between passes only; strong fairness of a transfer on an
  OUT endpoint, because an attached key polls its endpoint and the host stack
  retries it for ever. A control transfer ends by itself within `XferMax`.
- `in_path`: weak fairness of both loops and of the PC's poll (the endpoint is
  enabled while the PC is shown it), strong fairness of `ForwardIn`, whose
  endpoint is free again and again. None of `Unplug`, `Mount` or the key's
  reports is assumed.
- `wdog`, `recovery`: both loops and `Tick`. Nothing about key or operator.
- `host`, `host_dead_port`: weak fairness of the frame interrupt (a timer), of a
  control transfer (its key answers or three tries fail), of the enumeration's delays
  and of the task. Nothing obliges the key to send, the program to ask, or
  anybody to plug the key in: the properties begin with a key that stays.
- `flash_gate`: weak fairness of the flasher, and of a count that has begun. Nothing
  about the key, and nothing about core 1 but that it ends what it began while it
  runs.
- `presence`: both loops, and that the host stack works through the interfaces
  of a key it has found.

## 5. Proofs

`tlapm` checks them for every value of the constants that meets the named
assumptions of the modules:

| Module | Assumed |
|---|---|
| `SpscQueue` | `NAssumption` (a ring has at least two slots), `TornAssumption` (a half-written slot is no report); `Msg` is any set |
| `InPath` | `NAssumption`, `BoundsAssumption` (budgets are numbers, `None` is not one); `Itf` is any set |
| `OutPath` | `ItfAssumption` (interfaces are numbered from 0 without a gap), `RingAssumption`, `SendsAssumption`, `TimeAssumption` (the code's `static_assert`, 226; an erase and the transfer that starts it fit in the hold-off), `BoundsAssumption` |
| `Presence` | `SlotsAssumption`, `SwapsAssumption`, `KeyAssumption` (a key has at least one interface) |
| `Recovery`, `Watchdog` | `TimesAssumption`: numbers, and the order of the code's times |
| `Counters`, `FlashGate` | `BoundsAssumption`, `GateAssumption`: numbers |
| `HostStack` | `SizesAssumption` (at least one interface and one address), `BoundsAssumption`, `NoneAssumption` (`None` is no delay and no address) |

Some theorems hold only on a condition that the code does not enforce. It is a
named hypothesis of the theorem, and section 3, "Other places", says what happens
without it:

- `DumpFits` (`WatchdogSpares`, `WatchdogFinds`): a dump ends within the watchdog's limit.
- `OnePipeEach` (`InFlightKept`): no interface gets FEATURE reports beside an OUT
  endpoint, and VBUS is not cut from under the host stack.
- `TurnsSpec` (`LogImplementsFifo`): no two writes to the log overlap; there may be any number of
  writers, and the reader may be anywhere. Without it `log_two` shows what happens.
- `Flashing` (`BlocksSurvive`): firmware goes to the first interface and by SET_REPORT,
  as a bootloader has it; the key stays and core 1 runs; the wait is longer than a
  hold-off and a transfer together, as 4000 ms are longer than 3000 and one transfer.

The theorems of `PresenceProofs` have no hypothesis; like the run, what they state excepts a
key that came while the last one was still announced or shown, in the property itself.

Each invariant below was model-checked on the configurations of section 3 before
it was proved.

**RingProofs.** On `spsc_queue`: `TypeCorrect`, `SlotRaceFree`, `ReportsWhole`,
`ImplementsFifo`; on the log ring: `LogImplementsFifo`. `NoSlotRace` is not inductive:
nothing in it says why the slot
at `head` is not the slot at `tail`. The invariant adds `Reserved` (a producer
past `reserve` has room, which a consumer can only increase), `Published` (the
slots from `tail` to `head` hold finished reports), and that a flush's mark lies
between `tail` and `head`. The code's modulus is first reduced to a wrap
(`SuccWraps`) and distances round the ring to three arithmetic lemmas. From them follows,
for any cells and two indices, what the sequence between the indices becomes when either
moves (`ContentGrows`, `ContentCut`, `ContentDrops`) or a cell outside is written (`ContentKept`);
both refinements are made of these. The log's invariant is the ring's without a flush, and the count
of what was written and read (`Counted`). When two writes overlap `RoomStays` fails, since the
other writer moves the head that the first one's `next` was computed from.

**InPathProofs.** `TypeCorrect`, `FlowControl`, `OrderKept`, for any number of
interfaces, slots, reports. Flow control rests on `RoomKept`: a request that is
outstanding on a live link implies room, since only its own answer fills the
ring. Order rests on `Sorted` (ring above endpoint above what the PC took) and
`Accounted` (every number in between is in one of them or in `cut`).

**OutPathProofs.** `OutPathTyped`, `KeyTakesOnce` (nothing is sent twice or out of
order), `EraseIsQuiet`, `HoldEnds`, `InFlightKept`, `BlocksSurvive`.
`EraseIsQuiet` is about the interface that erases, from the moment the key has taken the block
that makes it erase. `QuietDuringErase` compares the key's clock with no clock of the board; `Covered`
relates them: what is left of the hold-off is at least what is left of the erase,
and while the transfer that will start the erase is still out, hold-off and age of
the transfer together are the whole hold-off. `HoldDiesWithKey` looks at the end of
core 1's pass; `Dropped` says how far within the pass it has become true.
`InFlightIntact` follows from `HeadInFlight`: nothing is popped from a ring that
a control transfer reads from, and a slot is rewritten only a whole ring later.
`BlocksSurvive` needs `WaitBounded`, which bounds the wait by what the block
waits for: waited + hold-off is within the hold-off's length; after the hold-off the
wait is within that and the age of the transfer that another interface may have begun;
and with neither, core 1 comes by the first interface before the unit of
time can end (`FirstIsNext`). `TickSeen` rules out that the thunk gives up because it
has not yet seen core 1 move.

**PresenceProofs.** `PresenceTyped`, `NeverTwoKeys`, `PointersStayGood`,
`MirrorsTheKey`, `MissingIsCounted`, for any number of slots, keys and interfaces of a key,
whenever they come and go. `TableInv` is about the table alone: the entries in use are those of
one key, each in its own slot, and the two IDs differ only within a mount. The rest is about a
key that is `Fresh` (it came with nothing announced or shown). Nothing of it is shown before it
is announced, and by then both IDs are its own (`Announced`); so while `usb_build_config` reads
one field at a time, each one it has read is still what the table says (`Building`), and
what the PC was given is still in the table (`Given`): a late mount takes another slot and writes
the same IDs, and the next key is either not fresh or finds nothing shown. `InPlace`: of the interfaces
that were there at the announcement, those the loop has gone by have been added, each at the
place of its slot. `Pending`: presence follows the table once the links have settled.

**RecoveryProofs.** `RecoveryTyped`, `ResetsEnd`, `OffIsKept`, `GraceIsGiven`.
`GraceIsGiven` is about a key that left by itself while nobody had been at the console or
the button; of a key that came it says nothing. `Counted`: resets since a key was linked are in scratch register 4, the one thing
that survives them. `OffIsLast`: whatever may raise VBUS by itself, a cycle or
a cold entry, was begun by a command after the OFF. `GraceInv`: while nobody gives commands,
the recovery has seen a key that stayed (`Staying`); once that key has left, the recovery's clock is
at most a unit ahead of the absence, and a cold entry on its way was decided on after the
grace (`Apart`), because the back-off only ever makes the wait longer (`GraceWaited`).

**WatchdogProofs.** `WatchdogTyped`, `WatchdogSpares`, `WatchdogFinds`, for any limit and
any length of a cold entry. `ClockBehind` says how far core 0's record of the last
movement may be behind core 1 while that works: by less than the limit, because a step of
core 1 that is longer is announced (`longOp`) before it begins and excused until the next look.
`ClockFollows` is the other direction: since core 1 has stopped, the record is at most one
look younger than the stop, so a wedge is found a unit after the limit.

**FlashGateProofs.** On the counters alone: `LossVisible`, `FlagHonest`, for any number
of reports and resets. The invariant's point is `CountFirst`: a drop that is stored and
not yet flagged is in the count, because nothing on core 0 can zero it in between.
On the flasher: `GateLossVisible`, `GateHolds`, `NoFalseRefusal`, for any image, ring, check
interval and number of faults. `KnownLanded` is not inductive: it takes its truth
from what the gate compared. The invariant `GateInv` adds what makes a passed
reading mean something: `ZeroedFirst` (no block is written before the counters
have been zeroed), `Baseline` (a flasher that is not mute has the count of PIO
timeouts from before its first block, and on a board that has stayed up the count
has only grown), and `Evidence` (on a board that has stayed up a lost block shows
in a drop count, in a PIO timeout or in the store the interrupt is about to make).
`CountInv` carries over from the counters, since every step of the composition
is one of `Counters`, a stutter, or a restart of the board. A reading that passes
finds no evidence, hence nothing is lost and everything settled is in the key or
failed silently. `NoFalseAlarm` is the converse. `CalmInv` says what each step of the
flasher finds as long as nothing has gone wrong: before the zeroing any counts, then
none, then only the baseline it took itself.

**HostStackProofs.** `HostTyped`, `NoLostRequest`, `PipeMoves`, `NewKeyNewStart`,
`ImplementsApi`, for any number of interfaces, addresses, retries, and of plug events,
power cuts and failed transfers. All rest on one invariant, because none of the three
properties is inductive and each needs the others. `InQueue`: the queue
holds at most one end of a transfer per endpoint; ends come before news of the port, and an
arrival is last. `Connection`: while news of the port is queued the port is dead or
suspended, so no frame can put an end behind it; an arrival holds the port until it has been
handled. `Enumeration`, `Clean`: while a delay of the enumeration runs, nothing is under
way or queued, and of the key before nothing is open. `Pipe`, `Purpose`: a request says how
far its enumeration is, and the control pipe waits for its own stage, which is
under way or queued. `Reports`: endpoints belong to known devices and one device
alone has any for reports. Five lemmas about the queue (`PopDone`, `PopNews`, `PushDone`,
`PushLost`, `PushArrival`) carry the steps; two folds over the endpoint pool
appear in the proofs as what they leave armed and what they queue.

Only model-checked: the flasher's and the host's
properties of progress (`LossEndsIt`, `Enumerates`), and every other liveness
property; fairness and ENABLED are outside the prover. Of the safety invariants and
refinements that the runs check none is left without a theorem.

## 6. Not modelled

- LED, pixel, debouncing, printing: nothing depends on what they show.
- Rig and test scripts: sequential, they print what they find. Of the flasher,
  `--boot-only` (the reboot step alone), the image format and the command line.
- Of the USB host: hubs (one key on the root port; with them goes the queue of
  deferred arrivals), the other class drivers, the packets inside a transfer and
  their toggles, OUT endpoints (`OutPath` has them), synchronous control calls,
  malformed descriptors, a full event queue (of its 16 places at most one per
  endpoint and two for the port are taken).
- The device stack, `usbd.c` and `hid_device.c`, which the PC drives.
- Most of `src/lib` is not part of this firmware: TinyUSB's drivers for other
  microcontrollers (`portable/` but for the RP2040 and PIO USB) compile to nothing;
  its other device and host classes are not used by `main.cpp` and serve no interface
  of a HID key. This is most of the repository's C by lines, and no model of this
  system can be about it.
- A deadline that falls on the value 0 (which means "none") when `millis()` wraps
  after 49.7 days.
- Descriptor parsing (`known`, `has_out_ep`, `has_report_id`): its results are
  constants of `OutPath` (`Boot`, `OutEp`).
- A dump of a key that never answers: `dump_device`'s transfers have no timeout;
  `Watchdog` bounds a dump by `DumpMax` and treats one that hangs as a wedge.

## 7. Plan

Done, in the order of importance: the rings and their proof; both directions;
the watchdog; power and recovery; presence; counters; the log; the USB host under
them; the flasher on top; a proof of every safety invariant, of the action properties
of order, grace and power, and of all three refinements.

Next:

1. The properties of progress as far as they are safety: a ranking for `Drains` and for
   `Enumerates` whose steps the prover can check, the fairness staying with TLC.
2. The device stack as far as the proxy leans on it: one IN report per endpoint, and
   what a detach does to it.
3. An abstract specification of the whole proxy (two lossless channels while
   one key stays attached), implemented by `OutPath` and `InPath`.
