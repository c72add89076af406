----------------------------- MODULE FlashGate -----------------------------
(***************************************************************************)
(* tools/halfkay_flash.py writes an image through the proxy.  The PC is    *)
(* told that every block arrived, so the flasher goes by the health line   *)
(* of src/main.cpp: it reads it before the first block, every so many      *)
(* blocks and at the end, and gives the flash up if a report was dropped,  *)
(* the PIO bus timed out, core 1 stands still or the console vanished.     *)
(* Counters says how the counts it reads come about.                       *)
(*                                                                         *)
(* External: the key, Linux (a write fails when the device has gone) and   *)
(* the TinyUSB host stack.  Times are left out, those of OutPath and of    *)
(* Watchdog too: a write that finds the ring full may find it full for as  *)
(* long as set_report_thunk waits.  A key that goes away does not come     *)
(* back before the PC has been shown that it went.                         *)
(***************************************************************************)
EXTENDS Counters, Sequences

CONSTANTS
    Blocks,     \* blocks of the image
    Every,      \* --check-every
    Slots,      \* reports g_outq[] holds: PROXY_OUT_QUEUE_LEN - 1
    Faults,     \* bound: what may go wrong on the board and on the bus
    None        \* no reading, no exit code yet

ASSUME GateAssumption == {Blocks, Every, Slots, Faults} \subseteq Nat /\ None \notin Nat

VARIABLES
    step,       \* where main() of the flasher is
    code,       \* its exit code
    ser,        \* the console: "none", "open", or "lost" when it is closed again
    base,       \* health.baseline_timeouts
    written,    \* blocks written
    up,         \* the board has stayed on the PC's bus
    here,       \* the key is attached
    core1,      \* "ok", "stopped", or "stalled": not core1_alive any more
    pio,        \* pio_usb_tx_timeouts
    queue,      \* g_outq[]: numbers of blocks, 0 for the reboot report
    wire,       \* the report core 1 has popped last, as long as it is under way
    image,      \* history: blocks the key has taken
    silent,     \* history: accepted for transfer, then failed without a trace
    known,      \* history: blocks whose fate was settled at the last reading
    mute,       \* history: a health line was wanted and did not come
    trouble,    \* history: something went wrong since the flasher started
    faults      \* what is left of the bound

flasher == <<step, code, ser, base, written, known, mute>>
board == <<up, here, core1, pio, queue, wire>>
fate == <<image, silent, trouble, faults>>
gateVars == <<vars, flasher, board, fate>>

Written == 1 .. written
Waiting == {queue[k] : k \in 1 .. Len(queue)}

\* Counts of an earlier run may be left on the board.
GateInit ==
    /\ dropped \in 0 .. 1 /\ seen = dropped /\ sent = 0
    /\ flag \in BOOLEAN /\ (flag => dropped > 0)
    /\ pc = [a \in Actor |-> "idle"] /\ reg = [a \in Actor |-> 0]
    /\ events = Events /\ resets = Resets
    /\ step = "start" /\ code = None /\ ser \in {"none", "open"} /\ base = None
    /\ written = 0 /\ known = {} /\ mute = FALSE
    /\ up = TRUE /\ here = TRUE /\ core1 = "ok" /\ pio \in 0 .. 1
    /\ queue = <<>> /\ wire = {}
    /\ image = {} /\ silent = {} /\ trouble = FALSE /\ faults = Faults

---------------------------------------------------------------------------
(* The flasher *)

\* print_health runs in core 0's loop, between its other work.
HealthRead == ser = "open" /\ up /\ pc["loop"] = "idle" /\ pc["irq"] = "idle"

\* Blocks that are neither in the ring nor in core 1's hands.
Settled == Written \ (Waiting \cup wire)

\* health.lost: whoever talks to a console that vanished closes it.
Noticed == IF ser = "open" /\ ~up THEN "lost" ELSE ser

Exit(c) == step' = "ended" /\ code' = c

\* The preliminary reading: a line, or none.
StartRead ==
    /\ step = "start" /\ HealthRead
    /\ IF core1 = "stalled"
       THEN Exit(2) /\ UNCHANGED base
       ELSE step' = "zero" /\ base' = pio /\ UNCHANGED code
    /\ UNCHANGED <<vars, ser, written, known, mute, board, fate>>

\* No line, or no console: the flash goes on unmonitored.
StartUnread ==
    /\ step = "start"
    /\ step' = "block" /\ mute' = TRUE
    /\ ser' = Noticed
    /\ UNCHANGED <<vars, code, base, written, known, board, fate>>

\* 'z': reset_counters begins, in core 0's loop.
Zero ==
    /\ step = "zero" /\ up
    /\ ZeroSent
    /\ step' = "zeroing"
    /\ UNCHANGED <<code, ser, base, written, known, mute, board, fate>>

\* The flasher waits for half a second, or finds the console gone.
Zeroed ==
    /\ \/ step = "zeroing" /\ pc["loop"] = "idle"
       \/ step \in {"zero", "zeroing"} /\ ~up
    /\ step' = "block"
    /\ ser' = Noticed
    /\ UNCHANGED <<vars, code, base, written, known, mute, board, fate>>

\* set_report_thunk: the report is queued; or the ring stayed full and it is
\* dropped.  The PC is told that it arrived, either way.
Arrive(b) ==
    /\ up /\ pc["irq"] = "idle"
    /\ \/ /\ Len(queue) < Slots
          /\ queue' = Append(queue, b)
          /\ UNCHANGED <<vars, trouble>>
       \/ /\ Len(queue) = Slots
          /\ LoadDropped("irq")
          /\ trouble' = TRUE
          /\ UNCHANGED queue
    /\ UNCHANGED <<up, here, core1, pio, wire, image, silent, faults>>

\* A check is due after this many blocks.
CheckDue == Every > 0 /\ written' % Every = 0

WriteBlock ==
    /\ step = "block" /\ written < Blocks
    /\ Arrive(written + 1)
    /\ written' = written + 1
    /\ step' = IF CheckDue THEN "check" ELSE "block"
    /\ UNCHANGED <<code, ser, base, known, mute>>

\* The device has gone from the PC's bus, and a write fails.
WriteFails ==
    /\ step = "reboot" \/ (step = "block" /\ written < Blocks)
    /\ ~up
    /\ Exit(1)
    /\ UNCHANGED <<vars, ser, base, written, known, mute, board, fate>>

\* Mutant of Bad: a bus that timed out is let pass.
BadDrops == dropped > 0 \/ flag \/ core1 = "stalled"

\* What check() raises ProxyFault for.
Bad ==
    \/ dropped > 0 \/ flag
    \/ core1 = "stalled"
    \/ base # None /\ pio # base

\* The end of the image is a check of its own.
Checking == step = "check" \/ (step = "block" /\ written = Blocks)

Onward == IF step = "check" THEN step' = "block" ELSE step' = "reboot"

CheckRead ==
    /\ Checking /\ HealthRead
    /\ IF Bad
       THEN Exit(2) /\ UNCHANGED <<base, known>>
       ELSE /\ Onward
            /\ base' = IF base = None THEN pio ELSE base
            /\ known' = Settled
            /\ UNCHANGED code
    /\ UNCHANGED <<vars, ser, written, mute, board, fate>>

\* No line came in three tries, or there is no console; that passes.
CheckUnread ==
    /\ Checking /\ (ser = "none" \/ (ser = "open" /\ up))
    /\ Onward
    /\ mute' = TRUE
    /\ UNCHANGED <<vars, code, ser, base, written, known, board, fate>>

\* Mutant of CheckLost: a console that went away is no fault.
CheckLostPasses ==
    /\ Checking /\ Noticed = "lost"
    /\ Onward
    /\ ser' = Noticed
    /\ UNCHANGED <<vars, code, base, written, known, mute, board, fate>>

\* The console went away, now or before.
CheckLost ==
    /\ Checking /\ Noticed = "lost"
    /\ Exit(2)
    /\ ser' = Noticed
    /\ UNCHANGED <<vars, base, written, known, mute, board, fate>>

\* --no-reboot
Finish ==
    /\ step = "reboot"
    /\ Exit(0)
    /\ UNCHANGED <<vars, ser, base, written, known, mute, board, fate>>

\* From here on the console is expected to go.
Reboot ==
    /\ step = "reboot"
    /\ Arrive(0)
    /\ step' = "after"
    /\ UNCHANGED <<code, ser, base, written, known, mute>>

LastRead ==
    /\ step = "after" /\ HealthRead
    /\ IF Bad THEN Exit(2) /\ UNCHANGED known
              ELSE Exit(0) /\ known' = Settled
    /\ UNCHANGED <<vars, ser, base, written, mute, board, fate>>

LastUnread ==
    /\ step = "after"
    /\ Exit(0)
    /\ UNCHANGED <<vars, ser, base, written, known, mute, board, fate>>

Flasher ==
    \/ StartRead \/ StartUnread \/ Zero \/ Zeroed
    \/ WriteBlock \/ WriteFails
    \/ CheckRead \/ CheckUnread \/ CheckLost
    \/ Finish \/ Reboot \/ LastRead \/ LastUnread

---------------------------------------------------------------------------
(* The proxy *)

Fault == faults > 0 /\ faults' = faults - 1 /\ trouble' = TRUE

\* forward_out, on a core 1 that runs: a report is popped and handed to the
\* key's control pipe, which has one transfer at a time.
Forward ==
    /\ core1 = "ok" /\ here
    /\ queue # <<>> /\ wire = {}
    /\ LoadSent
    /\ wire' = {Head(queue)} /\ queue' = Tail(queue)
    /\ UNCHANGED <<up, here, core1, pio, flasher, fate>>

\* Without a key it is discarded.
Discard ==
    /\ core1 = "ok" /\ ~here
    /\ queue # <<>> /\ wire = {}
    /\ LoadDropped("core1")
    /\ wire' = {Head(queue)} /\ queue' = Tail(queue)
    /\ trouble' = TRUE
    /\ UNCHANGED <<up, here, core1, pio, flasher, image, silent, faults>>

\* The rest of a count.  The report discarded is accounted for by then.
Count(a) ==
    /\ a = "core1" => core1 = "ok"
    /\ \/ StoreDropped(a) /\ wire' = IF a = "core1" THEN {} ELSE wire
       \/ /\ SetFlag(a) \/ (a = "core1" /\ StoreSent)
                        \/ (a = "loop" /\ (ZeroDropped \/ ZeroFlag))
          /\ UNCHANGED wire
    /\ UNCHANGED <<up, here, core1, pio, queue, flasher, fate>>

\* A report discarded by an injected fault ('!5').
Injected ==
    /\ Fault
    /\ LoadDropped("loop")
    /\ UNCHANGED <<flasher, board, image, silent>>

\* A transfer ends well.  The reboot report takes the key away.
Lands ==
    /\ here /\ wire # {}
    /\ image' = image \cup (wire \ {0})
    /\ here' = (0 \notin wire)
    /\ wire' = {}
    /\ UNCHANGED <<vars, up, core1, pio, queue, flasher, silent, trouble, faults>>

\* A transfer fails, and nobody is told (forward_out has popped it).
Fails ==
    /\ Fault
    /\ here /\ wire # {}
    /\ silent' = silent \cup wire
    /\ wire' = {}
    /\ UNCHANGED <<vars, up, here, core1, pio, queue, flasher, image>>

\* A wait for the PIO gives up: the transaction is tried again, or it was the
\* last try and the transfer fails.
TimesOut ==
    /\ Fault
    /\ here
    /\ pio' = pio + 1
    /\ wire' \in {wire, {}}
    /\ UNCHANGED <<vars, up, here, core1, queue, flasher, image, silent>>

\* The key is unplugged, and a transfer fails with it.
Unplug ==
    /\ Fault
    /\ here /\ here' = FALSE
    /\ silent' = silent \cup wire
    /\ wire' = {}
    /\ UNCHANGED <<vars, up, core1, pio, queue, flasher, image>>

\* link_service and presence_service, once that has settled: the ring is
\* flushed, uncounted, and the PC loses the device and the console with it.
Leaves ==
    /\ ~here /\ core1 = "ok" /\ up /\ wire = {}
    /\ up' = FALSE
    /\ queue' = <<>>
    /\ UNCHANGED <<vars, here, core1, pio, wire, flasher, fate>>

\* Core 1 stands still, and after a while core1_alive says so.
Wedges ==
    /\ Fault
    /\ core1 = "ok" /\ core1' = "stopped"
    /\ UNCHANGED <<vars, up, here, pio, queue, wire, flasher, image, silent>>

Shows ==
    /\ core1 = "stopped" /\ core1' = "stalled"
    /\ UNCHANGED <<vars, up, here, pio, queue, wire, flasher, fate>>

\* core1_watchdog_service resets the board: all of its RAM starts afresh.
Restarts ==
    /\ core1 = "stalled"
    /\ core1' = "ok" /\ up' = FALSE
    /\ queue' = <<>> /\ wire' = {} /\ pio' = 0
    /\ dropped' = 0 /\ flag' = FALSE /\ sent' = 0 /\ seen' = 0
    /\ pc' = [a \in Actor |-> "idle"] /\ reg' = [a \in Actor |-> 0]
    /\ UNCHANGED <<events, resets, here, flasher, fate>>

Board ==
    \/ Forward \/ Discard \/ Injected \/ Lands \/ Fails \/ TimesOut
    \/ \E a \in Actor : Count(a)
    \/ Unplug \/ Leaves \/ Wedges \/ Shows \/ Restarts

GateNext == Flasher \/ Board

GateSpec == GateInit /\ [][GateNext]_gateVars

\* The flasher goes on, and so do both loops of a board that runs.
GateFairness ==
    /\ WF_gateVars(Flasher)
    /\ \A a \in Actor : WF_gateVars(Count(a))

FairGateSpec == GateSpec /\ GateFairness

---------------------------------------------------------------------------
(* Properties *)

GateTypeOK ==
    /\ step \in {"start", "zero", "zeroing", "block", "check", "reboot", "after", "ended"}
    /\ code \in {None, 0, 1, 2} /\ ser \in {"none", "open", "lost"}
    /\ base \in Nat \cup {None} /\ pio \in Nat
    /\ written \in 0 .. Blocks /\ known \subseteq Written
    /\ {up, here, mute, trouble} \subseteq BOOLEAN
    /\ core1 \in {"ok", "stopped", "stalled"}
    /\ Len(queue) <= Slots /\ Waiting \subseteq 0 .. Blocks /\ wire \subseteq 0 .. Blocks
    /\ image \subseteq Written /\ silent \subseteq 0 .. Blocks

\* The gate holds: a flasher that goes on after a reading, or that ends with
\* success on one, has none of the blocks settled by then missing in the key,
\* but for those whose transfer failed without leaving a trace.  Counts that
\* are torn by an interrupt, zeroed by a reset of the board, or forgotten with
\* a flushed ring must all have been noticed otherwise.
KnownLanded == ~mute => known \subseteq image \cup silent

\* Blocks the proxy has lost and left evidence of.
Lost == Settled \ (image \cup silent)

\* A loss before the last check is acted on: the flash does not end with
\* success as long as every reading got its line.
LossEndsIt ==
    Lost # {} /\ step \in {"block", "check"} ~> mute \/ code \in {1, 2}

\* A flash in which nothing went wrong is not refused, whatever an earlier run
\* has left in the counts.
NoFalseAlarm == code \in {1, 2} /\ ~mute => trouble
===========================================================================
