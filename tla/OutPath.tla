------------------------------ MODULE OutPath ------------------------------
(***************************************************************************)
(* The PC -> key direction of src/main.cpp: set_report_thunk accepts a     *)
(* report in core 0's USB interrupt, the ring g_outq[i] carries it, and    *)
(* forward_out submits it to the host stack on core 1, one pass of loop1() *)
(* at a time.  The ring is the queue that SpscQueue is proved to be; what  *)
(* is kept of its slots is their number, because a control transfer keeps  *)
(* a pointer into the slot it was submitted from (CtlSlot below).          *)
(*                                                                         *)
(* External: the TinyUSB host stack (one control transfer at a time for    *)
(* the whole stack, one OUT transfer per endpoint, a refused call returns  *)
(* false) and the key (it may take up to XferMax over a transfer, may be   *)
(* pulled out, and erases its flash after a HalfKay block 0).              *)
(*                                                                         *)
(* What is left out: g_out_sent and g_out_dropped, which nothing here      *)
(* depends on and whose loads and stores are those of Counters.            *)
(*                                                                         *)
(* Time is counted in units of about 500 ms.  A core 1 that is alive makes *)
(* at least one whole pass in every unit.                                  *)
(***************************************************************************)
EXTENDS Integers, Sequences, FiniteSets

CONSTANTS
    Itf,        \* interfaces, 0 .. n - 1 (PROXY_MAX_HID of them in the code)
    N,          \* slots of a ring: PROXY_OUT_QUEUE_LEN
    OutEp,      \* interfaces with an interrupt OUT endpoint (has_out_ep)
    Boot,       \* interfaces whose descriptor is unknown (known < 0)
    Sends,      \* what the PC sends each interface: [Itf -> SUBSET Kind]
    Block,      \* PROXY_OUT_BLOCK_MS
    Erase,      \* PROXY_HALFKAY_ERASE_MS
    Grace,      \* the 20 ms after which a still core 1 is given up on
    EraseDev,   \* the longest the key takes to erase its flash
    XferMax,    \* the longest a transfer takes while the key is attached
    Budget,     \* bound: how many reports the PC sends
    Plugs,      \* bound: how many times the key is pulled out or powered down
    MayCut,     \* core 1 may be told to cut VBUS
    MayFail,    \* a transfer may end in an error (a stall, a desync)
    MayWedge    \* core 1 may stop inside USBHost.task()

\* The kinds of report the code tells apart: a HalfKay block at address 0, any
\* other firmware block, an ordinary OUTPUT report, and a FEATURE report.
Kind == {"erase", "block", "small", "feature"}

\* bufsize > PROXY_SMALL_REPORT_MAX
Big(k) == k \in {"erase", "block"}

ASSUME ItfAssumption ==
    /\ Itf \in SUBSET Nat /\ (\E n \in Itf : Itf = 0 .. n)
    /\ OutEp \subseteq Itf /\ Boot \subseteq Itf
ASSUME RingAssumption == N \in Nat /\ N >= 2
ASSUME SendsAssumption == Sends \in [Itf -> SUBSET Kind]
\* The code's static_assert, and what the two numbers are chosen for: a key's
\* erase, plus the transfer that started it, fits in the hold-off.
ASSUME TimeAssumption ==
    /\ {Block, Erase, Grace, EraseDev, XferMax} \subseteq Nat
    /\ Block > Erase
    /\ EraseDev + XferMax <= Erase
ASSUME BoundsAssumption == Budget \in Nat /\ Plugs \in Nat

VARIABLES
    log,        \* per interface, every report ever committed to its ring
    tail,       \* per interface, how many of them were popped or flushed
    pc0,        \* the interrupt: "idle", "wait" (spinning) or "write"
    cur,        \* the report it is handling: <<interface, kind>> in a set
    waited,     \* how long it has been spinning
    ticked,     \* g_core1_ticks # ticks_at_entry
    pc1,        \* core 1: Task, Services or the interface being forwarded
    passed,     \* core 1 finished a pass in this unit of time
    alive,      \* core 1 is not wedged
    mounted,    \* g_link[i].mounted
    bound,      \* the host stack has the interface's HID instance open
    settle,     \* g_link_settle_at is set
    hold,       \* what is left of g_out_hold_until[i]; 0 when none
    ctl,        \* the control transfer under way: <<interface, position>>
    ctlAge,     \* how long it has taken
    ep,         \* per interface, positions on the interrupt OUT endpoint
    erasing,    \* per interface, how long the key will go on erasing
    flag,       \* g_out_drop_flag
    lost,       \* history: the kinds of report thrown away
    taken,      \* history: per pipe and interface, the last position the key took
    budget,     \* reports the PC may still send
    plugs       \* times the key may still go away

thunkVars == <<pc0, cur, waited, ticked>>
linkVars == <<mounted, bound, settle>>
xferVars == <<ctl, ctlAge, ep, erasing>>
lossVars == <<flag, lost, taken>>
vars == <<log, tail, thunkVars, pc1, passed, alive, linkVars, hold, xferVars,
          lossVars, budget, plugs>>

\* Mutant of Room: the ring uses its last slot too.
RoomOffByOne(i) == Len(log[i]) - tail[i] < N

\* reserve() finds a slot; peek() finds a report.
Room(i) == Len(log[i]) - tail[i] < N - 1
Queued(i) == tail[i] < Len(log[i])

Pipe == {"control", "interrupt"}

\* Reports go out by SET_REPORT unless the interface has an OUT endpoint.
ByControl(i, k) == ~(i \in OutEp /\ k # "feature")

\* Where core 1 is in its pass when it is not forwarding an interface.
Task == -2
Services == -1

First == CHOOSE i \in Itf : \A j \in Itf : i <= j
Last == CHOOSE i \in Itf : \A j \in Itf : i >= j

Init ==
    /\ log = [i \in Itf |-> <<>>] /\ tail = [i \in Itf |-> 0]
    /\ pc0 = "idle" /\ cur = {} /\ waited = 0 /\ ticked = FALSE
    /\ pc1 = Task /\ passed = FALSE /\ alive = TRUE
    /\ mounted = [i \in Itf |-> TRUE] /\ bound = mounted /\ settle = FALSE
    /\ hold = [i \in Itf |-> 0]
    /\ ctl = {} /\ ctlAge = 0 /\ ep = [i \in Itf |-> {}]
    /\ erasing = [i \in Itf |-> 0]
    /\ flag = FALSE /\ lost = {} /\ taken = [q \in Pipe |-> [i \in Itf |-> 0]]
    /\ budget = Budget /\ plugs = Plugs

---------------------------------------------------------------------------
(* Core 0: set_report_thunk<ITF>, in the USB interrupt *)

core1Vars == <<tail, pc1, passed, alive, linkVars, hold, xferVars, taken, plugs>>

\* A report that cannot be queued is gone, and the PC was told it arrived.
DropReport(i, k) ==
    /\ flag' = TRUE
    /\ lost' = lost \cup {k}

\* The callback starts: reserve() finds a slot, or the report is firmware and
\* waits, or it is dropped.
Receive(i, k) ==
    /\ pc0 = "idle"
    /\ budget > 0
    /\ k \in Sends[i]
    /\ budget' = budget - 1
    /\ waited' = 0
    /\ ticked' = FALSE
    /\ \/ /\ Room(i)
          /\ pc0' = "write" /\ cur' = {<<i, k>>}
          /\ UNCHANGED <<flag, lost>>
       \/ /\ ~Room(i) /\ Big(k)
          /\ pc0' = "wait" /\ cur' = {<<i, k>>}
          /\ UNCHANGED <<flag, lost>>
       \/ /\ ~Room(i) /\ ~Big(k)
          /\ pc0' = "idle" /\ cur' = {}
          /\ DropReport(i, k)
    /\ UNCHANGED <<log, core1Vars>>

\* Mutant of WaitOver: the back-pressure is as short as the erase itself.
WaitOverEarly == waited >= EraseDev

\* The spin's two reasons to stop: PROXY_OUT_BLOCK_MS, and a core 1 that has
\* completed no loop since the callback began.
WaitOver == waited >= Block
CoreStopped == waited > Grace /\ ~ticked

\* Another turn of the spin that finds a slot.
WaitRoom(i, k) ==
    /\ pc0 = "wait"
    /\ <<i, k>> \in cur
    /\ ~WaitOver /\ ~CoreStopped
    /\ Room(i)
    /\ pc0' = "write"
    /\ UNCHANGED <<log, cur, waited, ticked, flag, lost, core1Vars, budget>>

\* Mutant of WaitGiveUp: only a core 1 that never moved ends the spin.
WaitGiveUpStopped(i, k) ==
    /\ pc0 = "wait"
    /\ <<i, k>> \in cur
    /\ CoreStopped
    /\ pc0' = "idle" /\ cur' = {} /\ waited' = 0 /\ ticked' = FALSE
    /\ DropReport(i, k)
    /\ UNCHANGED <<log, core1Vars, budget>>

\* The spin ends without one: the time is up, or core 1 has not completed a
\* loop since the callback began.
WaitGiveUp(i, k) ==
    /\ pc0 = "wait"
    /\ <<i, k>> \in cur
    /\ WaitOver \/ CoreStopped
    /\ pc0' = "idle" /\ cur' = {} /\ waited' = 0 /\ ticked' = FALSE
    /\ DropReport(i, k)
    /\ UNCHANGED <<log, core1Vars, budget>>

\* The copy into the slot, and commit().
Commit(i, k) ==
    /\ pc0 = "write"
    /\ <<i, k>> \in cur
    /\ log' = [log EXCEPT ![i] = Append(@, k)]
    /\ pc0' = "idle" /\ cur' = {} /\ waited' = 0 /\ ticked' = FALSE
    /\ UNCHANGED <<flag, lost, core1Vars, budget>>

Thunk(i, k) ==
    Receive(i, k) \/ WaitRoom(i, k) \/ WaitGiveUp(i, k) \/ Commit(i, k)

---------------------------------------------------------------------------
(* Core 1: one pass of loop1() *)

core0Vars == <<log, pc0, cur, waited, budget>>

\* The tick counter moves and USBHost.task() runs.  It reports one event at
\* most in this model, and then the pass goes on to the services.
StartPass ==
    /\ alive /\ pc1 = Task
    /\ pc1' = Services
    /\ ticked' = (pc0 = "wait")

\* No event.  A transfer that is out of time has one.
TaskNothing ==
    /\ StartPass
    /\ ctlAge < XferMax
    /\ UNCHANGED <<core0Vars, tail, passed, alive, linkVars, hold, xferVars,
                   lossVars, plugs>>

\* The control transfer completes.  main.cpp installs no completion callback
\* for SET_REPORT, so an error leaves no trace there.
ControlDone(i, p) ==
    /\ StartPass
    /\ <<i, p>> \in ctl
    /\ ctl' = {} /\ ctlAge' = 0
    /\ \/ /\ taken' = [taken EXCEPT !.control[i] = p]
          /\ erasing' = [erasing EXCEPT ![i] =
                IF i \in Boot /\ log[i][p] = "erase" THEN EraseDev ELSE @]
       \/ /\ MayFail
          /\ UNCHANGED <<taken, erasing>>
    /\ UNCHANGED <<core0Vars, tail, passed, alive, linkVars, hold, ep, flag,
                   lost, plugs>>

InterruptDone(i, p) ==
    /\ StartPass
    /\ p \in ep[i]
    /\ ep' = [ep EXCEPT ![i] = {}]
    /\ taken' = [taken EXCEPT !.interrupt[i] = p]
    /\ UNCHANGED <<core0Vars, tail, passed, alive, linkVars, hold, ctl, ctlAge,
                   erasing, flag, lost, plugs>>

\* The key goes away: the host stack closes all its interfaces in one event
\* (tuh_hid_umount_cb for each) and abandons its transfers.
Unplug ==
    /\ StartPass
    /\ plugs > 0
    /\ \E i \in Itf : bound[i]
    /\ plugs' = plugs - 1
    /\ bound' = [i \in Itf |-> FALSE]
    /\ mounted' = [i \in Itf |-> FALSE]
    /\ settle' = (settle \/ \E i \in Itf : mounted[i])
    /\ ctl' = {} /\ ctlAge' = 0 /\ ep' = [i \in Itf |-> {}]
    /\ erasing' = [i \in Itf |-> 0]
    /\ UNCHANGED <<core0Vars, tail, passed, alive, hold, lossVars>>

\* tuh_hid_mount_cb: an interface of a key that has finished enumerating.
Mount(i) ==
    /\ StartPass
    /\ ~bound[i] /\ ~mounted[i]
    /\ bound' = [bound EXCEPT ![i] = TRUE]
    /\ mounted' = [mounted EXCEPT ![i] = TRUE]
    /\ settle' = TRUE
    /\ UNCHANGED <<core0Vars, tail, passed, alive, hold, xferVars, lossVars,
                   plugs>>

\* pc_present_set(FALSE): what is queued is thrown away.
FlushAll ==
    /\ tail' = [i \in Itf |-> Len(log[i])]
    /\ lost' = lost \cup UNION {{log[i][p] : p \in tail[i] + 1 .. Len(log[i])} : i \in Itf}

ServicesDone ==
    /\ alive /\ pc1 = Services
    /\ pc1' = First

ServicesNothing ==
    /\ ServicesDone
    /\ UNCHANGED <<core0Vars, ticked, tail, passed, alive, linkVars, hold,
                   xferVars, lossVars, plugs>>

\* power_service on PWR_CMD_CYCLE or PWR_CMD_OFF: power_apply(false).  The
\* host stack is not told; it learns of it when the key stops answering.
PowerOff ==
    /\ ServicesDone
    /\ MayCut /\ plugs > 0
    /\ plugs' = plugs - 1
    /\ mounted' = [i \in Itf |-> FALSE]
    /\ settle' = FALSE
    /\ FlushAll
    /\ UNCHANGED <<core0Vars, ticked, passed, alive, bound, hold, xferVars,
                   flag, taken>>

\* link_service, once the arrivals and departures have settled.
LinkService ==
    /\ ServicesDone
    /\ settle
    /\ settle' = FALSE
    /\ IF \E i \in Itf : mounted[i]
       THEN UNCHANGED <<tail, lost>>
       ELSE FlushAll
    /\ UNCHANGED <<core0Vars, ticked, passed, alive, mounted, bound, hold,
                   xferVars, flag, taken, plugs>>

---------------------------------------------------------------------------
(* forward_out *)

Forwarding(i) == alive /\ pc1 = i

\* The pass goes on to the next interface, or ends.
NextItf(i) ==
    IF i = Last
    THEN pc1' = Task /\ passed' = TRUE
    ELSE pc1' = i + 1 /\ UNCHANGED passed

\* The stack takes the report at the head of the queue now.  It refuses while
\* a transfer is under way, and on an endpoint whatever exceeds its buffer.
Accepted(i) ==
    LET k == log[i][tail[i] + 1] IN
    IF ByControl(i, k) THEN ctl = {} ELSE ep[i] = {} /\ ~Big(k)

CanSend(i) == mounted[i] /\ hold[i] = 0 /\ Queued(i) /\ Accepted(i)

\* Mutant of MustDiscard: an interface that is down is skipped.
MustDiscardNever(i) == FALSE

MustDiscard(i) == ~mounted[i] /\ Queued(i)

\* Mutant of ForwardNext: a link that is down keeps its hold-off.
ForwardNextHolding(i) ==
    /\ Forwarding(i)
    /\ ~CanSend(i) /\ ~MustDiscard(i)
    /\ NextItf(i)
    /\ UNCHANGED <<core0Vars, ticked, tail, alive, linkVars, hold, xferVars,
                   lossVars, plugs>>

\* Nothing (more) to do for this interface in this pass: its hold-off is
\* running, its queue is empty, or the stack refused the report.
ForwardNext(i) ==
    /\ Forwarding(i)
    /\ ~CanSend(i) /\ ~MustDiscard(i)
    /\ hold' = [hold EXCEPT ![i] = IF mounted[i] THEN @ ELSE 0]
    /\ NextItf(i)
    /\ UNCHANGED <<core0Vars, ticked, tail, alive, linkVars, xferVars,
                   lossVars, plugs>>

\* Nothing to forward to: the report is discarded.
ForwardDiscard(i) ==
    /\ Forwarding(i)
    /\ MustDiscard(i)
    /\ tail' = [tail EXCEPT ![i] = @ + 1]
    /\ hold' = [hold EXCEPT ![i] = 0]
    /\ lost' = lost \cup {log[i][tail[i] + 1]}
    /\ UNCHANGED <<core0Vars, ticked, pc1, passed, alive, linkVars, xferVars,
                   flag, taken, plugs>>

\* Mutant of IsErase: the test of the interface is the wrong way round.
IsEraseElsewhere(i, k) == i \notin Boot /\ k = "erase"

\* is_halfkay_erase_block
IsErase(i, k) == i \in Boot /\ k = "erase"

\* Mutant of ForwardSend: the loop is left for the hold-off before the pop.
ForwardSendUnpopped(i) ==
    /\ Forwarding(i)
    /\ CanSend(i)
    /\ LET p == tail[i] + 1
           k == log[i][p]
       IN
       /\ tail' = [tail EXCEPT ![i] = IF IsErase(i, k) THEN @ ELSE p]
       /\ IF ByControl(i, k)
          THEN ctl' = {<<i, p>>} /\ UNCHANGED ep
          ELSE ep' = [ep EXCEPT ![i] = {p}] /\ UNCHANGED ctl
       /\ IF IsErase(i, k)
          THEN hold' = [hold EXCEPT ![i] = Erase] /\ NextItf(i)
          ELSE UNCHANGED <<hold, pc1, passed>>
    /\ UNCHANGED <<core0Vars, ticked, alive, linkVars, ctlAge, erasing, flag,
                   lost, taken, plugs>>

\* The stack takes the report, and it is popped.  After the block that erases
\* the key nothing more goes out on this interface until the hold-off ends.
ForwardSend(i) ==
    /\ Forwarding(i)
    /\ CanSend(i)
    /\ LET p == tail[i] + 1
           k == log[i][p]
       IN
       /\ tail' = [tail EXCEPT ![i] = p]
       /\ IF ByControl(i, k)
          THEN ctl' = {<<i, p>>} /\ UNCHANGED ep
          ELSE ep' = [ep EXCEPT ![i] = {p}] /\ UNCHANGED ctl
       /\ IF IsErase(i, k)
          THEN hold' = [hold EXCEPT ![i] = Erase] /\ NextItf(i)
          ELSE UNCHANGED <<hold, pc1, passed>>
    /\ UNCHANGED <<core0Vars, ticked, alive, linkVars, ctlAge, erasing, flag,
                   lost, taken, plugs>>

\* Core 1 stops for good (the board's own watchdog needs core 0's loop()).
Wedge ==
    /\ MayWedge /\ alive /\ pc1 = Services
    /\ alive' = FALSE
    /\ UNCHANGED <<core0Vars, ticked, tail, pc1, passed, linkVars, hold,
                   xferVars, lossVars, plugs>>

Core1(i) ==
    \/ TaskNothing \/ Unplug \/ Mount(i)
    \/ \E p \in 1 .. Budget : ControlDone(i, p) \/ InterruptDone(i, p)
    \/ ServicesNothing \/ PowerOff \/ LinkService
    \/ ForwardNext(i) \/ ForwardDiscard(i) \/ ForwardSend(i)
    \/ Wedge

---------------------------------------------------------------------------
(* Time *)

Less(t) == IF t > 0 THEN t - 1 ELSE 0

\* The spin reads the ring and the clock every few microseconds, and a copy
\* takes no longer, so neither is left standing while a unit of time goes by.
ThunkSettled ==
    /\ pc0 # "write"
    /\ \A c \in cur : pc0 = "wait" => ~Room(c[1]) /\ ~WaitOver /\ ~CoreStopped

Core1Settled == alive => pc1 = Task /\ passed /\ (ctl # {} => ctlAge < XferMax)

Tick ==
    /\ ThunkSettled
    /\ Core1Settled
    /\ passed' = FALSE
    /\ waited' = IF pc0 = "wait" THEN waited + 1 ELSE 0
    /\ hold' = [i \in Itf |-> Less(hold[i])]
    /\ erasing' = [i \in Itf |-> Less(erasing[i])]
    /\ ctlAge' = IF ctl # {} /\ alive THEN ctlAge + 1 ELSE ctlAge
    /\ UNCHANGED <<log, tail, pc0, cur, ticked, pc1, alive, linkVars, ctl, ep,
                   lossVars, budget, plugs>>

Next ==
    \/ \E i \in Itf, k \in Kind : Thunk(i, k)
    \/ \E i \in Itf : Core1(i)
    \/ Tick

Spec == Init /\ [][Next]_vars

\* The interrupt and core 1 keep running, time passes, and a key that is
\* attached takes what is sent to its endpoints in the end; nothing is assumed
\* about the PC or the console.
Fairness ==
    /\ WF_vars(\E i \in Itf, k \in Kind :
                  WaitRoom(i, k) \/ WaitGiveUp(i, k) \/ Commit(i, k))
    /\ WF_vars(\E i \in Itf : Core1(i))
    /\ SF_vars(\E i \in Itf, p \in 1 .. Budget : InterruptDone(i, p))
    /\ SF_vars(Tick)

FairSpec == Spec /\ Fairness

---------------------------------------------------------------------------
(* Properties *)

\* Types, and a ring that never holds more than it has slots for.
TypeOK ==
    /\ log \in [Itf -> Seq(Kind)]
    /\ \A i \in Itf : tail[i] \in 0 .. Len(log[i]) /\ Len(log[i]) - tail[i] < N
    /\ pc0 \in {"idle", "wait", "write"}
    /\ cur \subseteq Itf \X Kind /\ Cardinality(cur) = IF pc0 = "idle" THEN 0 ELSE 1
    /\ waited \in 0 .. Block
    /\ pc1 \in {Task, Services} \cup Itf
    /\ {ticked, passed, alive, settle, flag} \subseteq BOOLEAN
    /\ mounted \in [Itf -> BOOLEAN] /\ bound \in [Itf -> BOOLEAN]
    /\ hold \in [Itf -> 0 .. Erase]
    /\ ctl \subseteq Itf \X (1 .. Budget) /\ Cardinality(ctl) <= 1
    /\ ctlAge \in 0 .. XferMax
    /\ ep \in [Itf -> SUBSET (1 .. Budget)]
    /\ erasing \in [Itf -> 0 .. EraseDev]
    /\ taken \in [Pipe -> [Itf -> 0 .. Budget]]

\* While the key stays attached and core 1 runs, no firmware block is dropped:
\* the wait in set_report_thunk outlasts the erase hold-off of forward_out and
\* any transfer another interface has on the shared control pipe.
NoBlockLost == \A k \in lost : ~Big(k)

\* Nothing is on its way to an interface through which the key was told to
\* erase, as long as the erase takes: the hold-off of that interface begins
\* when block 0 is submitted, the erase when the key has taken it, and the
\* first still covers the second.  Only that interface is held off: a report
\* for another one may be on the control pipe they share.
QuietDuringErase ==
    \A i \in Itf : erasing[i] > 0 => /\ ep[i] = {}
                                     /\ \A c \in ctl : c[1] # i

\* The position that shares its slot with position p of a ring.
CtlSlot(p) == p % N

\* The last position of i's ring that was written to, or is being written to.
LastWritten(i) ==
    Len(log[i]) + IF pc0 = "write" /\ \E c \in cur : c[1] = i THEN 1 ELSE 0

\* A control transfer reads the report out of the ring after forward_out has
\* popped it (tuh_hid_set_report keeps the pointer).  The interrupt never
\* writes to that slot before the transfer is over.
InFlightIntact ==
    \A c \in ctl : \A q \in c[2] + 1 .. LastWritten(c[1]) :
        CtlSlot(q) # CtlSlot(c[2])

\* The key gets the reports of a pipe in the order they were committed and each
\* at most once, although a refused one is tried again on every pass: what is
\* on its way to it is later in its ring than anything it has taken.
InFlightIsNew ==
    /\ \A c \in ctl : taken.control[c[1]] < c[2]
    /\ \A i \in Itf : \A p \in ep[i] : taken.interrupt[i] < p

\* An erase hold-off ends with the key it was for: a key that mounts is not
\* held back by what was written to the one before it.
HoldDiesWithKey ==
    \A i \in Itf : pc1 = Task /\ ~mounted[i] /\ ~bound[i] => hold[i] = 0

\* Every report that was committed leaves the ring, whatever the key does, as
\* long as core 1 runs.
Drains ==
    \A i \in Itf, p \in 1 .. Budget : Len(log[i]) >= p ~> tail[i] >= p \/ ~alive

\* The USB interrupt always returns, even when core 1 stops while it spins.
ThunkReturns == pc0 = "wait" ~> pc0 # "wait"
===========================================================================
