------------------------------- MODULE InPath -------------------------------
(***************************************************************************)
(* The key -> PC direction of src/main.cpp.  arm_service (core 1) asks an  *)
(* interface for a report only when its ring g_inq[i] has a free slot;     *)
(* tuh_hid_report_received_cb (core 1) puts the report there; forward_in   *)
(* (core 0) hands it to the device stack; presence_service (core 0)        *)
(* empties the ring and re-enumerates when the key comes or goes.  The     *)
(* ring is the queue that SpscQueue is proved to be.                       *)
(*                                                                         *)
(* The TinyUSB host stack is taken to keep the promises of HostApi, which  *)
(* HostStack is shown to keep: at most one IN request per interface,       *)
(* abandoned when the key goes away.                                       *)
(* External: the key (it keeps a report until it is asked for one), the    *)
(* TinyUSB device stack (one report at a time on an IN endpoint) and the PC *)
(* (it polls the endpoint when it likes).                                  *)
(***************************************************************************)
EXTENDS Naturals, Sequences

CONSTANTS
    Itf,        \* interfaces
    N,          \* slots of a ring: PROXY_IN_QUEUE_LEN
    Reports,    \* bound: how many reports an interface of the key produces
    Plugs,      \* bound: how many times the key goes away or is powered down
    None        \* no report

ASSUME NAssumption == N \in Nat /\ N >= 2
ASSUME BoundsAssumption == Reports \in Nat /\ Plugs \in Nat /\ None \notin Nat

VARIABLES
    made,       \* how many reports each interface was answered with
    bound,      \* the host stack has the interface's HID instance open
    mounted,    \* g_link[i].mounted
    rested,     \* PROXY_ARM_DELAY_MS have passed since g_link[i].mounted_at
    pending,    \* an IN request is outstanding: not tuh_hid_receive_ready
    inq,        \* g_inq[i]: the numbers of the reports in it
    inDropped,  \* g_in_dropped
    settle,     \* g_link_settle_at is set
    present,    \* g_pc_present_req
    has,        \* g_usb_has_hid
    swap,       \* usb_present under way: what it will show, a set of <= 1
    built,      \* usb_present is past usb_build_config
    config,     \* the interfaces in the configuration: those g_hid[] has
                \* endpoints for once the PC has set it
    ep,         \* the report on the PC's IN endpoint
    last,       \* history: the report the PC took last
    cut,        \* history: the reports discarded without being counted
    plugs       \* times the key may still go away

hostVars == <<made, bound, mounted, rested, pending>>
pcVars == <<has, swap, built, config, ep>>
vars == <<hostVars, inq, inDropped, settle, present, pcVars, last, cut, plugs>>

\* Mutant of Room: the ring uses its last slot too.
RoomOffByOne(i) == Len(inq[i]) < N

\* reserve() would find a slot.
Room(i) == Len(inq[i]) < N - 1

\* The reports in the ring.
Queued(i) == {inq[i][k] : k \in 1 .. Len(inq[i])}

Init ==
    /\ made = [i \in Itf |-> 0]
    /\ bound = [i \in Itf |-> FALSE] /\ mounted = [i \in Itf |-> FALSE]
    /\ rested = [i \in Itf |-> FALSE] /\ pending = [i \in Itf |-> FALSE]
    /\ inq = [i \in Itf |-> <<>>] /\ inDropped = FALSE
    /\ settle = FALSE /\ present = FALSE
    /\ has = FALSE /\ swap = {} /\ built = TRUE /\ config = {}
    /\ ep = [i \in Itf |-> None]
    /\ last = [i \in Itf |-> 0] /\ cut = [i \in Itf |-> {}]
    /\ plugs = Plugs

---------------------------------------------------------------------------
(* Core 1 *)

core0Vars == <<pcVars, last>>

\* tuh_hid_mount_cb
Mount(i) ==
    /\ ~bound[i] /\ ~mounted[i]
    /\ bound' = [bound EXCEPT ![i] = TRUE]
    /\ mounted' = [mounted EXCEPT ![i] = TRUE]
    /\ rested' = [rested EXCEPT ![i] = FALSE]
    /\ settle' = TRUE
    /\ UNCHANGED <<made, pending, inq, inDropped, present, core0Vars, cut, plugs>>

\* The arm delay of an interface passes.
Rest(i) ==
    /\ mounted[i] /\ ~rested[i]
    /\ rested' = [rested EXCEPT ![i] = TRUE]
    /\ UNCHANGED <<made, bound, mounted, pending, inq, inDropped, settle,
                   present, core0Vars, cut, plugs>>

\* The key goes away: tuh_hid_umount_cb for every interface of it.  Reports it
\* still held, and a request under way, go with it.  One that was powered down
\* goes without being counted again.
Unplug ==
    /\ \E i \in Itf : bound[i]
    /\ \/ plugs > 0 /\ plugs' = plugs - 1
       \/ plugs' = plugs /\ \A i \in Itf : ~mounted[i]
    /\ bound' = [i \in Itf |-> FALSE]
    /\ mounted' = [i \in Itf |-> FALSE]
    /\ pending' = [i \in Itf |-> FALSE]
    /\ settle' = (settle \/ \E i \in Itf : mounted[i])
    /\ UNCHANGED <<made, rested, inq, inDropped, present, core0Vars, cut>>

\* power_apply(false): the links are marked down at once, without the host
\* stack's knowledge, and the PC side is told to go.
PowerOff ==
    /\ plugs > 0
    /\ plugs' = plugs - 1
    /\ mounted' = [i \in Itf |-> FALSE]
    /\ settle' = FALSE
    /\ present' = FALSE
    /\ UNCHANGED <<made, bound, rested, pending, inq, inDropped, core0Vars, cut>>

\* Mutant of Arm: it asks without looking for a slot.
ArmAnyway(i) ==
    /\ mounted[i] /\ rested[i]
    /\ ~pending[i]
    /\ pending' = [pending EXCEPT ![i] = TRUE]
    /\ UNCHANGED <<made, bound, mounted, rested, inq, inDropped, settle,
                   present, core0Vars, cut, plugs>>

\* Mutant of Arm: it asks for the first report only, as if the callback went
\* on asking.
ArmFirst(i) ==
    /\ mounted[i] /\ rested[i]
    /\ ~pending[i] /\ made[i] = 0
    /\ pending' = [pending EXCEPT ![i] = TRUE]
    /\ UNCHANGED <<made, bound, mounted, rested, inq, inDropped, settle,
                   present, core0Vars, cut, plugs>>

\* arm_service, for one interface: one request at a time, and none for a
\* report there is no slot for.
Arm(i) ==
    /\ mounted[i] /\ rested[i]
    /\ ~pending[i]
    /\ Room(i)
    /\ pending' = [pending EXCEPT ![i] = TRUE]
    /\ UNCHANGED <<made, bound, mounted, rested, inq, inDropped, settle,
                   present, core0Vars, cut, plugs>>

\* tuh_hid_report_received_cb.  A transfer that failed comes here too: the HID
\* driver does not pass its result on, so it counts as a report of length 0.
\* A report for an interface whose link is down
\* (power_apply got there first) matches no slot and goes nowhere.
ReportReceived(i) ==
    /\ bound[i] /\ pending[i]
    /\ made[i] < Reports
    /\ pending' = [pending EXCEPT ![i] = FALSE]
    /\ made' = [made EXCEPT ![i] = @ + 1]
    /\ \/ /\ mounted[i] /\ Room(i)
          /\ inq' = [inq EXCEPT ![i] = Append(@, made[i] + 1)]
          /\ UNCHANGED <<inDropped, cut>>
       \/ /\ mounted[i] /\ ~Room(i)
          /\ inDropped' = TRUE
          /\ UNCHANGED <<inq, cut>>
       \/ /\ ~mounted[i]
          /\ cut' = [cut EXCEPT ![i] = @ \cup {made[i] + 1}]
          /\ UNCHANGED <<inq, inDropped>>
    /\ UNCHANGED <<bound, mounted, rested, settle, present, core0Vars, plugs>>

\* link_service, once arrivals and departures have settled.
LinkService ==
    /\ settle
    /\ settle' = FALSE
    /\ present' = \E i \in Itf : mounted[i]
    /\ UNCHANGED <<hostVars, inq, inDropped, core0Vars, cut, plugs>>

---------------------------------------------------------------------------
(* Core 0 *)

core1Vars == <<hostVars, inDropped, settle, present, plugs>>

\* presence_service finds a change: it flushes every ring and detaches, and
\* then sits in usb_present's delays while core 1 goes on.
PresenceBegin ==
    /\ swap = {}
    /\ present # has
    /\ swap' = {present} /\ built' = FALSE
    /\ inq' = [i \in Itf |-> <<>>]
    /\ cut' = [i \in Itf |-> cut[i] \cup Queued(i) \cup ({ep[i]} \ {None})]
    /\ ep' = [i \in Itf |-> None] /\ config' = {}
    /\ UNCHANGED <<core1Vars, has, last>>

\* usb_build_config, between the delays: the configuration gets the interfaces
\* that are up at that moment.  (Presence reads the table slot by slot.)
PresenceBuild ==
    /\ swap # {} /\ ~built
    /\ built' = TRUE
    /\ config' = IF swap = {TRUE} THEN {i \in Itf : mounted[i]} ELSE {}
    /\ UNCHANGED <<core1Vars, inq, has, swap, ep, last, cut>>

\* usb_present attaches again with what it was asked for when it began.
PresenceEnd ==
    /\ swap # {} /\ built
    /\ has' = (swap = {TRUE})
    /\ swap' = {}
    /\ UNCHANGED <<core1Vars, inq, built, config, ep, last, cut>>

\* g_hid[i].ready(): false while the endpoint holds a report, and for an
\* interface that is not in the configuration, one that mounted too late for
\* usb_build_config included: it has no endpoint.
Ready(i) == i \in config /\ ep[i] = None

\* Mutant of ForwardIn: the report stays in the ring after it was sent.
ForwardInUnpopped(i) ==
    /\ swap = {} /\ Ready(i)
    /\ inq[i] # <<>>
    /\ ep' = [ep EXCEPT ![i] = Head(inq[i])]
    /\ UNCHANGED <<core1Vars, inq, has, swap, built, config, last, cut>>

\* Mutant of ForwardIn: it takes the ring for empty one report too early.
ForwardInButOne(i) ==
    /\ swap = {} /\ Ready(i)
    /\ Len(inq[i]) > 1
    /\ ep' = [ep EXCEPT ![i] = Head(inq[i])]
    /\ inq' = [inq EXCEPT ![i] = Tail(@)]
    /\ UNCHANGED <<core1Vars, has, swap, built, config, last, cut>>

\* forward_in: peek, sendReport (which copies), pop.
ForwardIn(i) ==
    /\ swap = {} /\ Ready(i)
    /\ inq[i] # <<>>
    /\ ep' = [ep EXCEPT ![i] = Head(inq[i])]
    /\ inq' = [inq EXCEPT ![i] = Tail(@)]
    /\ UNCHANGED <<core1Vars, has, swap, built, config, last, cut>>

\* The PC polls the endpoint and takes the report.
PcPoll(i) ==
    /\ ep[i] # None
    /\ last' = [last EXCEPT ![i] = ep[i]]
    /\ ep' = [ep EXCEPT ![i] = None]
    /\ UNCHANGED <<core1Vars, inq, has, swap, built, config, cut>>

Core1(i) ==
    \/ Mount(i) \/ Rest(i) \/ Arm(i) \/ ReportReceived(i)
    \/ Unplug \/ PowerOff \/ LinkService

Core0(i) ==
    \/ PresenceBegin \/ PresenceBuild \/ PresenceEnd
    \/ ForwardIn(i) \/ PcPoll(i)

Next == \E i \in Itf : Core1(i) \/ Core0(i)

Spec == Init /\ [][Next]_vars

\* Both loops keep running, delays pass, and the PC keeps polling while it is
\* shown the interfaces.  The key need not send anything.
Fairness ==
    /\ WF_vars(PresenceBegin) /\ WF_vars(PresenceBuild) /\ WF_vars(PresenceEnd)
    /\ WF_vars(LinkService)
    /\ \A i \in Itf : /\ WF_vars(Rest(i)) /\ WF_vars(Arm(i))
                      /\ SF_vars(ForwardIn(i)) /\ WF_vars(PcPoll(i))

FairSpec == Spec /\ Fairness

---------------------------------------------------------------------------
(* Properties *)

\* No ring holds more reports than it has slots for.
RingsFit == \A i \in Itf : Len(inq[i]) < N

\* Types of the state on both cores, and rings that fit.
TypeOK ==
    /\ made \in [Itf -> 0 .. Reports]
    /\ bound \in [Itf -> BOOLEAN] /\ mounted \in [Itf -> BOOLEAN]
    /\ rested \in [Itf -> BOOLEAN] /\ pending \in [Itf -> BOOLEAN]
    /\ inq \in [Itf -> Seq(1 .. Reports)] /\ RingsFit
    /\ inDropped \in BOOLEAN /\ settle \in BOOLEAN
    /\ present \in BOOLEAN /\ has \in BOOLEAN /\ swap \in SUBSET BOOLEAN
    /\ built \in BOOLEAN /\ config \in SUBSET Itf
    /\ ep \in [Itf -> (1 .. Reports) \cup {None}]
    /\ last \in [Itf -> 0 .. Reports]
    /\ cut \in [Itf -> SUBSET (1 .. Reports)] /\ plugs \in 0 .. Plugs

\* "Never request data we have nowhere to put": a report that arrives for an
\* interface that is up always finds a slot, because the room that was seen
\* when the request was made is still there when it is answered.
NoInDrop == ~inDropped

\* The PC is given the key's reports in order, each once, and misses only
\* those a flush, a re-enumeration or a power cut discarded on purpose.
InOrder ==
    [][\A i \in Itf : ep'[i] \notin {None, ep[i]} =>
          /\ ep'[i] > last[i]
          /\ last[i] + 1 .. ep'[i] - 1 \subseteq cut[i]]_vars

\* The interface never goes silent: an interface that is up and not asked for
\* a report is asked again, or goes away, or its ring stays full because the
\* configuration the PC has does not have it.
KeepsAsking ==
    \A i \in Itf :
        mounted[i] /\ ~pending[i] ~> pending[i] \/ ~mounted[i] \/ i \notin config

\* A report the interface received reaches the PC or is discarded on purpose,
\* unless the configuration the PC has does not have the interface.
Forwarded ==
    \A i \in Itf, r \in 1 .. Reports :
        made[i] >= r ~> last[i] >= r \/ r \in cut[i] \/ i \notin config
===========================================================================
