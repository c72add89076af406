----------------------------- MODULE HostStack -----------------------------
(***************************************************************************)
(* The USB host of core 1, for one key on the root port: Pico-PIO-USB's    *)
(* frame interrupt (connection, transfers), TinyUSB's host stack (event    *)
(* queue, control pipe, enumeration, HID driver) and the calls src/main.cpp *)
(* makes of them.  The interrupt and the task share core 1, so a frame is  *)
(* one step and so is the handling of one event or of one expired delay.   *)
(*                                                                         *)
(* A transfer goes over the wire in transactions; what is kept of it is    *)
(* how it ends.  The descriptors are kept as the order they are asked for. *)
(* External: the key.  It answers at the address it was given, loses it    *)
(* with its power, may let three tries of a transfer go unanswered, may    *)
(* stall SET_IDLE and SET_REPORT only, and stays away for a frame at least *)
(* when it is unplugged, unless it bounces back between the two looks a    *)
(* frame takes at the line.                                                *)
(***************************************************************************)
EXTENDS Naturals, Sequences, FiniteSets

CONSTANTS
    Itfs,       \* the key has the interfaces 1 .. Itfs
    Addrs,      \* CFG_TUH_DEVICE_MAX: device addresses are 1 .. Addrs
    Retries,    \* USBH_CONTROL_RETRY_MAX
    Moves,      \* bound: how often the key is unplugged
    Cuts,       \* bound: how often VBUS is cut
    Faults,     \* bound: how many transfers a present key fails
    None        \* no address, no delay

ASSUME SizesAssumption == Itfs \in Nat \ {0} /\ Addrs \in Nat \ {0} /\ Retries \in Nat
ASSUME BoundsAssumption == {Moves, Cuts, Faults} \subseteq Nat

\* The delays of an enumeration.
Delays == {"debounce", "reset", "post", "recovery", "address"}

ASSUME NoneAssumption == None \notin Nat \cup Delays

VARIABLES
    power,      \* VBUS is on: g_power_is_on
    plugged,    \* the key is in the socket
    at,         \* the address the key answers at
    connected, suspended,   \* of root_port_t
    open,       \* endpoints in use in pio_usb_ep_pool: their size is not 0
    armed,      \* endpoints with has_transfer
    q,          \* _usbh_q
    debouncing, \* attach_debouncing_bm
    enumerating,\* enumerating_daddr
    after,      \* call_after: which delay of the enumeration is running
    ctrl,       \* ctrl_xfer_info: stage, address, request, argument, failed_count
    devs,       \* addresses of the devices with connected set
    busy,       \* interface endpoints with TU_EDPT_STATE_BUSY
    mounted,    \* interfaces of the HID driver with mounted set
    link,       \* interfaces with g_link[].mounted
    moves, cuts, faults     \* what is left of the bounds

wire == <<power, plugged, at, moves, cuts>>
port == <<connected, suspended>>
stack == <<debouncing, enumerating, after, devs, mounted, link>>
vars == <<wire, port, open, armed, q, stack, ctrl, busy, faults>>

Itf == 1 .. Itfs

\* An endpoint is <<device address, number>>; number 0 is the control pipe.
Ends == (0 .. Addrs) \X (0 .. Itfs)
Of(a) == {p \in Ends : p[1] = a}

Idle == [stage |-> "idle", addr |-> 0, req |-> "none", arg |-> 0, tries |-> 0]

\* Requests with a data stage.
HasData(req) == req \in {"device8", "device", "report", "app"}

\* hcd_port_connect_status: the line is not SE0.
Present == power /\ plugged

Init ==
    /\ power = TRUE /\ plugged \in BOOLEAN /\ at = None
    /\ connected = FALSE /\ suspended = FALSE
    /\ open = {} /\ armed = {} /\ q = <<>>
    /\ debouncing = FALSE /\ enumerating = None /\ after = None
    /\ ctrl = Idle /\ devs = {} /\ busy = {} /\ mounted = {} /\ link = {}
    /\ moves = Moves /\ cuts = Cuts /\ faults = Faults

---------------------------------------------------------------------------
(* The wire *)

hostVars == <<open, armed, q, debouncing, enumerating, after, ctrl, devs, busy, mounted>>

Unplug ==
    /\ plugged /\ moves > 0
    /\ plugged' = FALSE /\ at' = None
    /\ moves' = moves - 1
    /\ UNCHANGED <<power, cuts, port, hostVars, link, faults>>

\* The frame interrupt has seen the line without the key, if it looks at all.
Plug ==
    /\ ~plugged /\ (~connected \/ suspended)
    /\ plugged' = TRUE
    /\ UNCHANGED <<power, at, moves, cuts, port, hostVars, link, faults>>

\* power_apply(false): the links are down at once, the stack is not told.
PowerOff ==
    /\ power /\ cuts > 0
    /\ power' = FALSE /\ at' = None
    /\ link' = {}
    /\ cuts' = cuts - 1
    /\ UNCHANGED <<plugged, moves, port, hostVars, faults>>

\* power_apply(true), PROXY_POWER_OFF_MS later at least: time for frames, for
\* the task, and for every delay of an enumeration.
PowerOn ==
    /\ ~power
    /\ (~connected \/ suspended) /\ q = <<>> /\ after = None
    /\ power' = TRUE
    /\ UNCHANGED <<plugged, at, moves, cuts, port, hostVars, link, faults>>

---------------------------------------------------------------------------
(* The frame interrupt: pio_usb_host_frame and pio_usb_host_irq_handler *)

Done(p, r) == [kind |-> "done", end |-> p, result |-> r]
PortEvent(k) == [kind |-> k, end |-> <<0, 0>>, result |-> "none"]

\* Mutant of Post: no debouncing, a bounce is queued as both.
PostBoth(found, lost) ==
    (IF found THEN <<PortEvent("attach")>> ELSE <<>>) \o
    (IF lost THEN <<PortEvent("remove")>> ELSE <<>>)

\* hcd_event_handler: an arrival is queued before a departure of the same
\* frame, and while a connection settles neither is.
Post(found, lost) ==
    IF debouncing THEN <<>>
    ELSE IF found THEN <<PortEvent("attach")>>
    ELSE IF lost THEN <<PortEvent("remove")>> ELSE <<>>

\* The endpoints with a transfer as the walks over pio_usb_ep_pool meet them.
InPool ==
    {s \in [1 .. Cardinality(armed) -> armed] :
        /\ {s[k] : k \in DOMAIN s} = armed
        /\ \A j, k \in DOMAIN s : j < k => s[j] # s[k] /\ s[j][2] <= s[k][2]}

\* Every transfer of the port has failed.
AllFailed(pool) == [k \in 1 .. Len(pool) |-> Done(pool[k], "failed")]

\* Mutant of Interrupt: what befell the port is told before the transfers.
InterruptPortFirst(pool, found) == Post(found, TRUE) \o AllFailed(pool)

\* pio_usb_host_irq_handler after a lost connection.
Interrupt(pool, found) == AllFailed(pool) \o Post(found, TRUE)

\* connection_check finds the line low, and the last look of the frame finds
\* it low still, or the key back again.
FrameLost ==
    /\ connected /\ ~suspended /\ ~Present
    /\ suspended' = TRUE
    /\ armed' = {}
    /\ \E back \in BOOLEAN, pool \in InPool :
          /\ back => power
          /\ plugged' = (plugged \/ back)
          /\ connected' = back
          /\ q' = q \o Interrupt(pool, back)
          /\ debouncing' = (debouncing \/ back)
    /\ UNCHANGED <<power, at, moves, cuts, open, enumerating, after, devs,
                   mounted, link, ctrl, busy, faults>>

\* The last look of a frame finds a key on a port that had none.
FrameConnect ==
    /\ ~connected /\ Present
    /\ connected' = TRUE /\ suspended' = TRUE
    /\ q' = q \o Post(TRUE, FALSE)
    /\ debouncing' = TRUE
    /\ UNCHANGED <<wire, open, armed, enumerating, after, devs, mounted, link,
                   ctrl, busy, faults>>

\* The transactions of one endpoint end its transfer.  Only a key at the
\* endpoint's address answers; three silent tries are a failure.  The key takes
\* its new address at the end of SET_ADDRESS, known to the host or not.
Transaction(p, r) ==
    /\ connected /\ ~suspended /\ Present
    /\ p \in armed
    /\ LET here == at = p[1]
           moving == here /\ p[2] = 0 /\ ctrl.req = "address" /\ ctrl.stage = "ack"
       IN  /\ r # "failed" => here
           /\ r = "stalled" => p[2] = 0 /\ ctrl.req \in {"idle", "app"} /\ ctrl.stage # "setup"
           /\ r = "failed" /\ here => faults > 0
           /\ faults' = IF r = "failed" /\ here THEN faults - 1 ELSE faults
           /\ \/ moving /\ at' = ctrl.arg
              \/ ~(moving /\ r = "ok") /\ at' = at
    /\ armed' = armed \ {p}
    /\ q' = Append(q, Done(p, r))
    /\ UNCHANGED <<power, plugged, moves, cuts, port, open, stack, ctrl, busy>>

---------------------------------------------------------------------------
(* tuh_task: a device arrives or goes *)

Event(k) == q # <<>> /\ Head(q).kind = k /\ q' = Tail(q)

\* process_remove_event closes the device without an address if that is the
\* one being enumerated, else every device there is (remove_device_tree).
Gone == IF enumerating = 0 THEN {0} ELSE devs

Close(S) == S \ UNION {Of(a) : a \in Gone}

\* Mutants: what a closed device leaves behind.
StillBusyAll == busy
AbortControlNot == ctrl

\* pio_usb_host_close_device retires the transfers of what it closes.
StillArmed == Close(armed)

\* clear_device forgets what its endpoints were doing.
StillBusy == Close(busy)

\* usbh_device_close aborts the device's control transfer.
AbortControl == IF ctrl.addr \in Gone THEN [ctrl EXCEPT !.stage = "idle"] ELSE ctrl

\* usbh_device_close and clear_device for each of them, after hidh_close and
\* with it tuh_hid_umount_cb for all its interfaces.
CloseGone ==
    /\ open' = Close(open) /\ armed' = StillArmed /\ busy' = StillBusy
    /\ ctrl' = AbortControl
    /\ devs' = devs \ Gone
    /\ IF enumerating = 0
       THEN UNCHANGED <<mounted, link>>
       ELSE mounted' = {} /\ link' = {}

Remove ==
    /\ Event("remove")
    /\ CloseGone
    /\ IF enumerating \in Gone
       THEN enumerating' = None /\ after' = None
       ELSE UNCHANGED <<enumerating, after>>
    /\ UNCHANGED <<wire, port, debouncing, faults>>

\* A device that attaches replaces whatever is still there.  On a single port
\* that leaves none in enumeration, and the queue of deferred attachments idle.
Attach ==
    /\ Event("attach")
    /\ CloseGone
    /\ enumerating \in Gone \cup {None}
    /\ enumerating' = 0
    /\ after' = "debounce"
    /\ UNCHANGED <<wire, port, debouncing, faults>>

---------------------------------------------------------------------------
(* The control pipe *)

\* tuh_control_xfer and a retry of it: SETUP is armed, or the pipe stays idle
\* (usbh_setup_send) when the endpoint is closed or has a transfer.
Submit(a, req, arg, tries, others) ==
    LET ok == <<a, 0>> \in open' \ others
    IN  /\ armed' = IF ok THEN others \cup {<<a, 0>>} ELSE others
        /\ ctrl' = [stage |-> IF ok THEN "setup" ELSE "idle", addr |-> a,
                    req |-> req, arg |-> arg, tries |-> tries]

EndControl == ctrl' = [ctrl EXCEPT !.stage = "idle"]

\* enum_full_complete
FullComplete == enumerating' = None /\ after' = None

\* The completion of a control transfer's stage is handled.  tuh_task would
\* ignore one of a device that has gone, and usbh_control_xfer_cb one that
\* nobody waits for; NoStaleEnds and ControlMoves say neither ever comes.
Control(a, r) ==
    /\ q # <<>> /\ Head(q) = Done(<<a, 0>>, r) /\ q' = Tail(q)
    /\ a \in devs \cup {0}

\* tuh_connected
Connected(a) == IF a = 0 THEN enumerating = 0 ELSE a \in devs

NextStage(a) ==
    /\ Control(a, "ok")
    /\ ctrl.stage \in {"setup", "data"}
    /\ ctrl' = [ctrl EXCEPT !.stage =
                    IF @ = "setup" /\ HasData(ctrl.req) THEN "data" ELSE "ack"]
    /\ armed' = armed \cup ({<<a, 0>>} \cap open)
    /\ UNCHANGED <<wire, port, open, stack, busy, faults>>

Retry(a) ==
    /\ Control(a, "failed")
    /\ Connected(a) /\ ctrl.tries < Retries
    /\ open' = open
    /\ Submit(a, ctrl.req, ctrl.arg, ctrl.tries + 1, armed)
    /\ UNCHANGED <<wire, port, stack, busy, faults>>

\* usbh_control_xfer_cb comes to _control_xfer_complete.
Completes(a, r) ==
    /\ Control(a, r)
    /\ \/ r = "stalled"
       \/ r = "failed" /\ ~(Connected(a) /\ ctrl.tries < Retries)
       \/ r = "ok" /\ ctrl.stage = "ack"

---------------------------------------------------------------------------
(* Enumeration: enum_delay_async, process_enumeration, process_set_config *)

\* The debouncing delay is over.  A key that has gone meanwhile ends the
\* enumeration; the port is left as it is, connected and suspended.
Debounced ==
    /\ after = "debounce"
    /\ debouncing' = FALSE
    /\ IF Present THEN after' = "reset" /\ suspended' = TRUE /\ UNCHANGED enumerating
                  ELSE FullComplete /\ UNCHANGED suspended
    /\ UNCHANGED <<wire, connected, open, armed, q, devs, mounted, link, ctrl,
                   busy, faults>>

\* hcd_port_reset_end: the bus works again, and the key is at address 0.
ResetOver ==
    /\ after = "reset"
    /\ suspended' = FALSE
    /\ at' = IF Present THEN 0 ELSE None
    /\ after' = "post"
    /\ UNCHANGED <<power, plugged, moves, cuts, connected, open, armed, q,
                   debouncing, enumerating, devs, mounted, link, ctrl, busy, faults>>

PostReset ==
    /\ after = "post"
    /\ IF Present THEN after' = "recovery" /\ UNCHANGED enumerating
                  ELSE FullComplete
    /\ UNCHANGED <<wire, port, open, armed, q, debouncing, devs, mounted, link,
                   ctrl, busy, faults>>

\* Device 0's control endpoint is opened and the first 8 bytes are asked for.
Recovered ==
    /\ after = "recovery"
    /\ after' = None
    /\ open' = open \cup {<<0, 0>>}
    /\ Submit(0, "device8", 0, 0, armed)
    /\ UNCHANGED <<wire, port, q, debouncing, enumerating, devs, mounted, link,
                   busy, faults>>

\* ENUM_SET_ADDR: the lowest address that no connected device has.  With none
\* left an assertion ends it, without an end of the enumeration.
GotDevice8 ==
    /\ Completes(0, "ok") /\ ctrl.req = "device8"
    /\ LET free == (1 .. Addrs) \ devs
           new == CHOOSE a \in free : \A b \in free : a <= b
       IN  IF free = {}
           THEN EndControl /\ UNCHANGED <<open, armed, devs>>
           ELSE /\ devs' = devs \cup {new}
                /\ open' = open
                /\ Submit(0, "address", new, 0, armed)
    /\ UNCHANGED <<wire, port, debouncing, enumerating, after, mounted, link,
                   busy, faults>>

\* ENUM_GET_DEVICE_DESC: device 0 is closed, the delay for the address starts.
GotAddress ==
    /\ Completes(0, "ok") /\ ctrl.req = "address"
    /\ EndControl
    /\ enumerating' = ctrl.arg
    /\ open' = open \ Of(0) /\ armed' = armed \ Of(0)
    /\ after' = "address"
    /\ UNCHANGED <<wire, port, debouncing, devs, mounted, link, busy, faults>>

\* The new device's control endpoint is opened.  Its descriptors are asked for
\* one after the other; what they have in common is kept once.
AddressSettled ==
    /\ after = "address"
    /\ after' = None
    /\ open' = open \cup {<<enumerating, 0>>}
    /\ Submit(enumerating, "device", 0, 0, armed)
    /\ UNCHANGED <<wire, port, q, debouncing, enumerating, devs, mounted, link,
                   busy, faults>>

GotDevice(a) ==
    /\ Completes(a, "ok") /\ ctrl.req = "device"
    /\ open' = open
    /\ Submit(a, "config", 0, 0, armed)
    /\ UNCHANGED <<wire, port, stack, busy, faults>>

\* SET_CONFIGURATION is done: what was pending on the device is aborted, the
\* interfaces are opened (enum_parse_configuration_desc, hidh_open) and the
\* first is configured (usbh_driver_set_config_complete, hidh_set_config).
Configured(a) ==
    /\ Completes(a, "ok") /\ ctrl.req = "config"
    /\ busy' = busy \ Of(a)
    /\ open' = open \cup {<<a, i>> : i \in Itf}
    /\ Submit(a, "idle", 1, 0, armed \ (busy \cap Of(a)))
    /\ UNCHANGED <<wire, port, stack, faults>>

\* The answer to SET_IDLE does not matter.
IdleSet(a, r) ==
    /\ Completes(a, r) /\ ctrl.req = "idle"
    /\ open' = open
    /\ Submit(a, "report", ctrl.arg, 0, armed)
    /\ UNCHANGED <<wire, port, stack, busy, faults>>

\* config_driver_mount_complete: the interface is mounted and g_link[] shows
\* it; the next one follows, or the enumeration is complete.
GotReport(a) ==
    /\ Completes(a, "ok") /\ ctrl.req = "report"
    /\ mounted' = mounted \cup {ctrl.arg}
    /\ link' = link \cup {ctrl.arg}
    /\ IF ctrl.arg < Itfs
       THEN /\ open' = open
            /\ Submit(a, "idle", ctrl.arg + 1, 0, armed)
            /\ UNCHANGED <<enumerating, after>>
       ELSE EndControl /\ FullComplete /\ UNCHANGED <<open, armed>>
    /\ UNCHANGED <<wire, port, debouncing, devs, busy, faults>>

\* A failed step gives the enumeration up; the device stays as it is.
EnumFails(a) ==
    /\ Completes(a, "failed") /\ ctrl.req \in {"device8", "address", "device", "config"}
    /\ EndControl
    /\ FullComplete
    /\ UNCHANGED <<wire, port, open, armed, debouncing, devs, mounted, link,
                   busy, faults>>

\* A report descriptor that cannot be read trips an assertion, and nothing
\* goes on from there; nothing does after the program's own SET_REPORT either.
ControlEnds(a, r) ==
    /\ Completes(a, r)
    /\ ctrl.req = "app" \/ (ctrl.req = "report" /\ r # "ok")
    /\ EndControl
    /\ UNCHANGED <<wire, port, open, armed, stack, busy, faults>>

---------------------------------------------------------------------------
(* Reports *)

\* arm_service: tuh_hid_receive_ready, then tuh_hid_receive_report.
Ask(a, i) ==
    /\ i \in link /\ a \in devs
    /\ <<a, i>> \in open \ (armed \cup busy)
    /\ busy' = busy \cup {<<a, i>>}
    /\ armed' = armed \cup {<<a, i>>}
    /\ UNCHANGED <<wire, port, open, q, stack, ctrl, faults>>

\* Mutant of Answered: a failed transfer leaves the endpoint busy.
AnsweredOk ==
    /\ Event("done")
    /\ Head(q).end[1] \in devs /\ Head(q).end[2] # 0
    /\ busy' = IF Head(q).result = "ok" THEN busy \ {Head(q).end} ELSE busy
    /\ UNCHANGED <<wire, port, open, armed, stack, ctrl, faults>>

\* The end of an IN transfer is handled, whatever its result: the endpoint is
\* free again and tuh_hid_report_received_cb is called.
Answered ==
    /\ Event("done")
    /\ Head(q).end[1] \in devs /\ Head(q).end[2] # 0
    /\ busy' = busy \ {Head(q).end}
    /\ UNCHANGED <<wire, port, open, armed, stack, ctrl, faults>>

\* forward_out: tuh_hid_set_report, accepted when the control pipe is free.
SetReport(a, i) ==
    /\ i \in link /\ <<a, i>> \in open
    /\ ctrl.stage = "idle" /\ Connected(a)
    /\ open' = open
    /\ Submit(a, "app", i, 0, armed)
    /\ UNCHANGED <<wire, port, q, stack, busy, faults>>

---------------------------------------------------------------------------

Results == {"ok", "stalled", "failed"}

Delay == Debounced \/ ResetOver \/ PostReset \/ Recovered \/ AddressSettled

Task ==
    \/ Remove \/ Attach \/ Answered \/ GotDevice8 \/ GotAddress
    \/ \E a \in 0 .. Addrs :
          \/ NextStage(a) \/ Retry(a) \/ EnumFails(a)
          \/ GotDevice(a) \/ Configured(a) \/ GotReport(a)
          \/ \E r \in Results : IdleSet(a, r) \/ ControlEnds(a, r)

Next ==
    \/ Unplug \/ Plug \/ PowerOff \/ PowerOn
    \/ FrameLost \/ FrameConnect
    \/ \E p \in Ends, r \in Results : Transaction(p, r)
    \/ Delay \/ Task
    \/ \E a \in 1 .. Addrs, i \in Itf : Ask(a, i) \/ SetReport(a, i)

Spec == Init /\ [][Next]_vars

\* The frame timer and loop1() keep running, delays end, and a control
\* transfer is answered or fails.  Nothing obliges the key to send reports,
\* the program to ask for any, or anybody to plug the key in.
Fairness ==
    /\ WF_vars(FrameLost) /\ WF_vars(FrameConnect)
    /\ WF_vars(\E a \in 0 .. Addrs, r \in Results : Transaction(<<a, 0>>, r))
    /\ WF_vars(Delay) /\ WF_vars(Task)

FairSpec == Spec /\ Fairness

---------------------------------------------------------------------------
(* Properties *)

\* How often an endpoint's completion is queued.
Queued(p) == Cardinality({k \in 1 .. Len(q) : q[k].kind = "done" /\ q[k].end = p})

Once(p) == IF p \in armed THEN Queued(p) = 0 ELSE Queued(p) = 1

Events == [kind : {"attach", "remove", "done"}, end : Ends,
           result : Results \cup {"none"}]

Controls ==
    [stage : {"idle", "setup", "data", "ack"}, addr : 0 .. Addrs,
     req : {"none", "device8", "address", "device", "config", "idle", "report", "app"},
     arg : Nat, tries : Nat]

TypeOK ==
    /\ {power, plugged, connected, suspended, debouncing} \subseteq BOOLEAN
    /\ at \in (0 .. Addrs) \cup {None}
    /\ open \subseteq Ends /\ armed \subseteq open
    /\ q \in Seq(Events)
    /\ enumerating \in (0 .. Addrs) \cup {None}
    /\ after \in Delays \cup {None}
    /\ ctrl \in Controls
    /\ devs \subseteq 1 .. Addrs /\ busy \subseteq Ends
    /\ mounted \subseteq Itf /\ link \subseteq mounted

\* An interface is never left waiting: whatever was asked of it is under way
\* or its end is in the queue, exactly one of the two, whenever the device
\* still exists.  arm_service asks again only when the busy mark goes.
BusyIsPending ==
    /\ \A p \in busy : p[1] \in devs /\ Once(p)
    /\ \A p \in armed : p[2] # 0 => p \in busy

\* The control pipe is never left waiting either, and never takes one
\* transfer's end for another's: a transfer that is not over has its stage
\* under way or that stage's end queued, once, and no other control transfer
\* is under way or queued.
ControlMoves ==
    /\ ctrl.stage # "idle" => Once(<<ctrl.addr, 0>>)
    /\ \A a \in 0 .. Addrs :
          ctrl.stage = "idle" \/ a # ctrl.addr =>
             <<a, 0>> \notin armed /\ Queued(<<a, 0>>) = 0

\* No transfer's end outlives its device in the queue: whatever is queued of
\* the transfers comes before the news that their device has gone or changed,
\* and belongs to one the stack knows.
NoStaleEnds ==
    \A k \in 1 .. Len(q) : q[k].kind = "done" =>
        /\ q[k].end[1] \in devs \cup {0}
        /\ \A j \in 1 .. k - 1 : q[j].kind = "done"

\* A key waiting to be given its address meets nothing of the one before it:
\* no transfer under way, no end of one that would be taken for its own, no
\* open endpoint but device 0's, no mounted interface.
CleanSlate ==
    enumerating = 0 /\ after # None =>
        /\ armed = {} /\ ctrl.stage = "idle" /\ Queued(<<0, 0>>) = 0
        /\ open \subseteq {<<0, 0>>} /\ busy = {} /\ mounted = {}

\* A key never meets what was left of another.
NothingStale == NoStaleEnds /\ CleanSlate

\* What src/main.cpp relies on.
api == INSTANCE HostApi WITH
          up <- mounted,
          asked <- {i \in Itf : \E a \in 1 .. Addrs : <<a, i>> \in busy}
RefinesApi == api!ApiSpec

\* A key that stays is enumerated, every interface of it, after whatever came
\* before, as long as no transfer of a key that is there fails and the key and
\* its power do not go while a connection settles (see ReEnumerates).
Enumerates ==
    <>[]Present /\ [](faults = Faults) /\ [](debouncing => Present) => <>[](link = Itf)

\* A key that stays comes back: across a power cycle the host stack "notices
\* the disconnect and re-enumerates on the way back up".
ReEnumerates == <>[]Present => <>[](link = Itf)
===========================================================================
