------------------------------ MODULE Presence ------------------------------
(***************************************************************************)
(* How src/main.cpp makes the PC see the key.  Core 1 fills the link table *)
(* g_link[] as the key's interfaces mount and, when the arrivals have      *)
(* settled, publishes one bit; core 0 compares that bit with what the PC   *)
(* is being shown and rebuilds the USB configuration from the link table   *)
(* while the PC is detached.  The table and the device IDs are read with   *)
(* no lock, and a report descriptor is handed to the device stack by       *)
(* pointer, so the PC reads it out of the table later.                     *)
(*                                                                         *)
(* External: the key on the bus (an identity and a number of interfaces,   *)
(* which the host stack mounts one at a time) and the PC.                  *)
(***************************************************************************)
EXTENDS Naturals, FiniteSets, Sequences

CONSTANTS
    Slots,      \* PROXY_MAX_HID: slots 1 .. Slots of the link table
    Key,        \* what may be plugged in: the application, the bootloader
    Width,      \* how many HID interfaces it has: [Key -> Nat \ {0}]
    None,       \* no key; also the compiled-in identity PROXY_VID/PROXY_PID
    Swaps       \* bound: how often something is plugged in

ASSUME SlotsAssumption == Slots \in Nat \ {0}
ASSUME SwapsAssumption == Swaps \in Nat
ASSUME KeyAssumption == None \notin Key /\ Width \in [Key -> Nat \ {0}]

VARIABLES
    plugged,    \* the key on the bus
    mounts,     \* how many of its interfaces the host stack has mounted
    up,         \* g_link[s].mounted
    desc,       \* g_link[s].desc: whose descriptor, <<key, interface>>
    vid, pid,   \* g_dev_vid, g_dev_pid
    pc1,        \* core 1: "idle"; "ids" and "pid" in tuh_hid_mount_cb;
                \* "gone" and "unmount" while it removes a device
    settle,     \* g_link_settle_at is set
    cloneErr,   \* g_clone_failures
    present,    \* g_pc_present_req
    pc0,        \* core 0: "idle", "vid", "pid", "add" or "attach"
    adding,     \* the slot usb_build_config is at
    want,       \* usb_present(with_hid)
    newVid,     \* the ID build under way
    newPid,
    has,        \* g_usb_has_hid
    shown,      \* what the PC has been given: [vid, pid, itf] or detached
    swift,      \* history: when its first interface mounted, the key before
                \* was still announced, or shown to the PC, or about to be
    early,      \* history: how many of its interfaces had mounted when the
                \* links settled and the key was announced
    swaps       \* what is left of Swaps

linkVars == <<up, desc, vid, pid, pc1, settle, cloneErr>>
pcVars == <<pc0, adding, want, newVid, newPid, has, shown>>
histVars == <<swift, early>>
vars == <<plugged, mounts, linkVars, present, pcVars, histVars, swaps>>

Slot == 1 .. Slots

\* Off the bus.
Detached == [vid |-> None, pid |-> None, itf |-> <<>>, on |-> FALSE]

\* The PC starts with the console alone (setup()).
Init ==
    /\ plugged = None /\ mounts = 0
    /\ up = [s \in Slot |-> FALSE] /\ desc = [s \in Slot |-> <<None, 0>>]
    /\ vid = None /\ pid = None /\ pc1 = "idle"
    /\ settle = FALSE /\ cloneErr = 0 /\ present = FALSE
    /\ pc0 = "idle" /\ adding = 1 /\ want = FALSE /\ newVid = None /\ newPid = None
    /\ has = FALSE /\ shown = [Detached EXCEPT !.on = TRUE]
    /\ swift = FALSE /\ early = 0 /\ swaps = Swaps

---------------------------------------------------------------------------
(* Core 1 *)

core0Vars == pcVars

\* The next key comes as soon as the host stack is done with the last one,
\* whatever core 0 and the settling time make of that.
PlugIn(k) ==
    /\ plugged = None /\ pc1 = "idle"
    /\ swaps > 0
    /\ swaps' = swaps - 1
    /\ plugged' = k /\ mounts' = 0
    /\ UNCHANGED <<linkVars, present, core0Vars, histVars>>

\* The PC is being shown a key's interfaces, or will be.
Showing == IF pc0 = "idle" THEN has ELSE want

\* Mutant of FreeSlot: whether a slot is in use is not looked at.
FreeSlotAny(s) == s = 1

\* The lowest slot that is not in use.
FreeSlot(s) == ~up[s] /\ \A t \in 1 .. s - 1 : up[t]

\* tuh_hid_mount_cb for the key's next interface, up to link->mounted = true;
\* a failure to find a slot is counted.
HidMount ==
    /\ plugged # None
    /\ pc1 = "idle"
    /\ mounts < Width[plugged]
    /\ mounts' = mounts + 1
    /\ \/ \E s \in Slot :
             /\ FreeSlot(s)
             /\ desc' = [desc EXCEPT ![s] = <<plugged, mounts + 1>>]
             /\ up' = [up EXCEPT ![s] = TRUE]
             /\ pc1' = "ids"
             /\ UNCHANGED cloneErr
       \/ /\ \A s \in Slot : ~FreeSlot(s)
          /\ cloneErr' = cloneErr + 1 /\ UNCHANGED <<desc, up, pc1>>
    /\ IF mounts = 0
       THEN swift' = (present \/ Showing) /\ early' = 0
       ELSE UNCHANGED histVars
    /\ UNCHANGED <<plugged, vid, pid, settle, present, core0Vars, swaps>>

\* The rest of the callback: the two IDs, one after the other.
MountVid ==
    /\ pc1 = "ids"
    /\ vid' = plugged /\ pc1' = "pid"
    /\ UNCHANGED <<plugged, mounts, up, desc, pid, settle, cloneErr, present,
                   core0Vars, histVars, swaps>>

\* Mutant of MountPid: only the vendor ID is recorded.
MountPidUnset ==
    /\ pc1 = "pid"
    /\ settle' = TRUE /\ pc1' = "idle"
    /\ UNCHANGED <<plugged, mounts, up, desc, vid, pid, cloneErr, present,
                   core0Vars, histVars, swaps>>

\* Mutant of MountPid: the arrival does not start the settling time.
MountPidUnsettled ==
    /\ pc1 = "pid"
    /\ pid' = plugged /\ pc1' = "idle"
    /\ UNCHANGED <<plugged, mounts, up, desc, vid, settle, cloneErr, present,
                   core0Vars, histVars, swaps>>

MountPid ==
    /\ pc1 = "pid"
    /\ pid' = plugged /\ settle' = TRUE /\ pc1' = "idle"
    /\ UNCHANGED <<plugged, mounts, up, desc, vid, cloneErr, present, core0Vars,
                   histVars, swaps>>

\* The key leaves, and the host stack begins to remove it.
Unplug ==
    /\ plugged # None
    /\ pc1 = "idle"
    /\ plugged' = None /\ mounts' = 0
    /\ pc1' = "gone"
    /\ UNCHANGED <<up, desc, vid, pid, settle, cloneErr, present, core0Vars,
                   histVars, swaps>>

\* power_apply(false): the links and the PC side are taken down at once; the
\* host stack finds the key gone later, with no link left to unmount.
PowerOff ==
    /\ plugged # None
    /\ pc1 = "idle"
    /\ plugged' = None /\ mounts' = 0
    /\ up' = [s \in Slot |-> FALSE]
    /\ settle' = FALSE /\ present' = FALSE
    /\ pc1' = "gone"
    /\ UNCHANGED <<desc, vid, pid, cloneErr, core0Vars, histVars, swaps>>

\* Mutant of DeviceUnmount: the count of failed clones lives on.
DeviceUnmountCounting ==
    /\ pc1 = "gone"
    /\ pc1' = IF \E s \in Slot : up[s] THEN "unmount" ELSE "idle"
    /\ UNCHANGED <<plugged, mounts, up, desc, vid, pid, settle, cloneErr,
                   present, core0Vars, histVars, swaps>>

\* tuh_umount_cb, which the stack calls before it closes the HID driver.
DeviceUnmount ==
    /\ pc1 = "gone"
    /\ cloneErr' = 0
    /\ pc1' = IF \E s \in Slot : up[s] THEN "unmount" ELSE "idle"
    /\ UNCHANGED <<plugged, mounts, up, desc, vid, pid, settle, present,
                   core0Vars, histVars, swaps>>

\* tuh_hid_umount_cb, for one of the interfaces.
HidUnmount(s) ==
    /\ pc1 = "unmount"
    /\ up[s]
    /\ up' = [up EXCEPT ![s] = FALSE]
    /\ settle' = TRUE
    /\ pc1' = IF \E t \in Slot \ {s} : up[t] THEN "unmount" ELSE "idle"
    /\ UNCHANGED <<plugged, mounts, desc, vid, pid, cloneErr, present, core0Vars,
                   histVars, swaps>>

\* Mutant of LinkService: it announces arrivals only.
LinkServiceArrivals ==
    /\ pc1 = "idle"
    /\ settle
    /\ settle' = FALSE
    /\ present' = (present \/ \E s \in Slot : up[s])
    /\ early' = IF present' /\ ~present THEN mounts ELSE early
    /\ UNCHANGED <<plugged, mounts, up, desc, vid, pid, pc1, cloneErr, core0Vars,
                   swift, swaps>>

\* link_service, once no mount or unmount has come for PROXY_SETTLE_MS.  The
\* key may have an interface to come yet.
LinkService ==
    /\ pc1 = "idle"
    /\ settle
    /\ settle' = FALSE
    /\ present' = \E s \in Slot : up[s]
    /\ early' = IF present' /\ ~present THEN mounts ELSE early
    /\ UNCHANGED <<plugged, mounts, up, desc, vid, pid, pc1, cloneErr, core0Vars,
                   swift, swaps>>

Core1 ==
    \/ \E k \in Key : PlugIn(k)
    \/ HidMount \/ MountVid \/ MountPid \/ LinkService
    \/ Unplug \/ PowerOff \/ DeviceUnmount \/ \E s \in Slot : HidUnmount(s)

---------------------------------------------------------------------------
(* Core 0: presence_service, usb_present and usb_build_config *)

core1Vars == <<plugged, mounts, linkVars, present, histVars, swaps>>

\* A change: leave the bus.
PresenceService ==
    /\ pc0 = "idle"
    /\ present # has
    /\ want' = present
    /\ shown' = Detached
    /\ pc0' = "vid" /\ adding' = 1
    /\ UNCHANGED <<core1Vars, newVid, newPid, has>>

BuildVid ==
    /\ pc0 = "vid" /\ pc0' = "pid"
    /\ newVid' = vid
    /\ UNCHANGED <<core1Vars, adding, want, newPid, has, shown>>

\* After the IDs come the interfaces, when there are any to show.
BuildPid ==
    /\ pc0 = "pid" /\ pc0' = IF want THEN "add" ELSE "attach"
    /\ newPid' = pid
    /\ UNCHANGED <<core1Vars, adding, want, newVid, has, shown>>

\* One slot of the table is added, with the descriptor in place: itf keeps
\* the slot and what was in it.
BuildSlot(s) ==
    /\ pc0 = "add" /\ adding = s
    /\ IF s = Slots
       THEN pc0' = "attach" /\ UNCHANGED adding
       ELSE adding' = s + 1 /\ UNCHANGED pc0
    /\ shown' = IF up[s]
                THEN [shown EXCEPT !.itf = Append(@, [slot |-> s, was |-> desc[s]])]
                ELSE shown
    /\ UNCHANGED <<core1Vars, want, newVid, newPid, has>>

Attach ==
    /\ pc0 = "attach" /\ pc0' = "idle"
    /\ shown' = [shown EXCEPT !.vid = newVid, !.pid = newPid, !.on = TRUE]
    /\ has' = want
    /\ UNCHANGED <<core1Vars, adding, want, newVid, newPid>>

Core0 ==
    \/ PresenceService \/ BuildVid \/ BuildPid \/ Attach
    \/ \E s \in Slot : BuildSlot(s)

Next == Core1 \/ Core0

Spec == Init /\ [][Next]_vars

\* Both loops go round, and the host stack works through what it has found.
FairSpec ==
    /\ Spec /\ WF_vars(Core0) /\ WF_vars(LinkService)
    /\ WF_vars(HidMount \/ MountVid \/ MountPid)
    /\ WF_vars(DeviceUnmount \/ \E s \in Slot : HidUnmount(s))

---------------------------------------------------------------------------
(* Properties *)

\* Types of the state on both cores.
TypeOK ==
    /\ plugged \in Key \cup {None} /\ mounts \in Nat /\ swaps \in 0 .. Swaps
    /\ up \in [Slot -> BOOLEAN]
    /\ desc \in [Slot -> (Key \cup {None}) \X Nat]
    /\ {vid, pid, newVid, newPid, shown.vid, shown.pid} \subseteq Key \cup {None}
    /\ pc1 \in {"idle", "ids", "pid", "gone", "unmount"} /\ cloneErr \in Nat
    /\ pc0 \in {"idle", "vid", "pid", "add", "attach"} /\ adding \in Slot
    /\ {settle, present, want, has, swift} \subseteq BOOLEAN /\ early \in Nat
    /\ Len(shown.itf) <= Slots

\* Nothing is under way: all that has arrived or left is settled, and core 0
\* has shown it to the PC.
AtRest == ~settle /\ pc0 = "idle" /\ present = has /\ pc1 = "idle"

\* The host stack has been through all the key's interfaces.
AllMounted == \A k \in Key : plugged = k => mounts = Width[k]

\* How many of n interfaces the link table has room for.
Fitting(n) == IF n < Slots THEN n ELSE Slots

\* The PC is shown key k: its IDs and its interfaces in the key's order, none
\* of those left out that were there when the key was announced.  The place of
\* an interface in the configuration is its slot: the device stack numbers its
\* instances by place (hid_device.c:235), main.cpp by slot (1883).
Shows(k) ==
    /\ shown.on /\ shown.vid = k /\ shown.pid = k
    /\ shown.itf # <<>>
    /\ Fitting(early) <= Len(shown.itf) /\ Len(shown.itf) <= Fitting(Width[k])
    /\ \A j \in 1 .. Fitting(early) : shown.itf[j] = [slot |-> j, was |-> <<k, j>>]
    /\ \A j \in 1 .. Len(shown.itf) :
          /\ shown.itf[j].was = <<k, shown.itf[j].slot>>
          /\ \A i \in 1 .. j - 1 : shown.itf[i].slot < shown.itf[j].slot

\* "Adopt whatever is attached" (main.cpp:1921-1923): at rest the PC is shown
\* the key that is plugged in, but for interfaces that mounted after the links
\* had settled; and no HID interface when there is none, whatever came before.
\* A key that came while the last one was still shown need not be shown.
MirrorsAtRest ==
    AtRest /\ AllMounted =>
        IF plugged = None THEN shown.itf = <<>> ELSE swift \/ Shows(plugged)

\* Whatever is shown, it is one device: the vid, the pid and every interface
\* belong to the same key, although they are read one by one without a lock
\* while interfaces of a key may still be mounting, or one is leaving and the
\* next arrives.  A key that came while the last one was still shown excepted.
OneDevice ==
    shown.on /\ ~swift => \A j \in 1 .. Len(shown.itf) :
        shown.itf[j].was[1] = shown.vid /\ shown.vid = shown.pid

\* "the host must never see the descriptors change underneath it" (main.cpp:
\* 1907-1908): while the PC is attached, the table still holds the descriptors
\* it was given pointers to, whatever mounts late or leaves.  The code breaks
\* this when a key comes while the last one is still shown (2522).
NeverChangeUnderneath ==
    shown.on /\ ~swift => \A j \in 1 .. Len(shown.itf) :
        desc[shown.itf[j].slot] = shown.itf[j].was

\* The count of clone failures "always describes the current attachment": at
\* rest it is the number of interfaces that found no slot, and what the PC
\* lacks beyond them are interfaces that mounted after the links had settled.
PartialIsCounted ==
    AtRest /\ AllMounted /\ plugged # None =>
        /\ cloneErr = Width[plugged] - Fitting(Width[plugged])
        /\ ~swift => LET missing == Width[plugged] - Len(shown.itf) IN
                     /\ cloneErr <= missing
                     /\ missing <= cloneErr + Fitting(Width[plugged]) - Fitting(early)

\* A key that stays is shown to the PC in the end, unless it came while the
\* last one was still shown.
BecomesVisible ==
    \A k \in Key : plugged = k ~> \/ mounts > 0 /\ (swift \/ Shows(k))
                                  \/ plugged # k
===========================================================================
