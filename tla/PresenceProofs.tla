--------------------------- MODULE PresenceProofs ---------------------------
(***************************************************************************)
(* Proofs about what the PC is shown, for link tables of any size, keys    *)
(* with any number of interfaces and any number of them plugged in, at any *)
(* moment: core 0 reads the table and the device IDs without a lock, and   *)
(* still never mixes two keys or has a descriptor changed under the PC,    *)
(* unless a key comes while the last one is still announced or shown.      *)
(***************************************************************************)
EXTENDS Presence, TLAPS

Identity == Key \cup {None}
Entry == [slot : Slot, was : Identity \X Nat]
Picture == [vid : Identity, pid : Identity, itf : Seq(Entry), on : BOOLEAN]

Types ==
    /\ plugged \in Identity /\ mounts \in Nat /\ cloneErr \in Nat /\ swaps \in 0 .. Swaps
    /\ up \in [Slot -> BOOLEAN] /\ desc \in [Slot -> Identity \X Nat]
    /\ vid \in Identity /\ pid \in Identity /\ newVid \in Identity /\ newPid \in Identity
    /\ pc1 \in {"idle", "ids", "pid", "gone", "unmount"}
    /\ settle \in BOOLEAN /\ present \in BOOLEAN /\ want \in BOOLEAN /\ has \in BOOLEAN
    /\ pc0 \in {"idle", "vid", "pid", "add", "attach"} /\ adding \in Slot
    /\ shown \in Picture /\ swift \in BOOLEAN /\ early \in Nat

\* usb_build_config goes through the table once.
Fits ==
    /\ Len(shown.itf) <= Slots
    /\ pc0 \in {"vid", "pid"} => shown.itf = <<>> /\ adding = 1
    /\ pc0 = "add" => Len(shown.itf) < adding
    /\ shown.on <=> pc0 = "idle"

Typed == Types /\ Fits

---------------------------------------------------------------------------
(* The types *)

\* What goes into the configuration for one slot.
LEMMA AddEntry ==
    ASSUME Types, NEW s \in Slot
    PROVE  LET e == [slot |-> s, was |-> desc[s]]
               p == [shown EXCEPT !.itf = Append(@, e)] IN
           /\ e \in Entry /\ p \in Picture
           /\ p.vid = shown.vid /\ p.pid = shown.pid /\ p.on = shown.on
           /\ Len(p.itf) = Len(shown.itf) + 1 /\ Len(shown.itf) \in Nat
           /\ p.itf[Len(shown.itf) + 1] = e
           /\ \A j \in 1 .. Len(shown.itf) : p.itf[j] = shown.itf[j]
<1> DEFINE e == [slot |-> s, was |-> desc[s]]
           p == [shown EXCEPT !.itf = Append(@, e)]
<1>1. e \in Entry
    BY DEF Types, Entry
<1>2. shown.itf \in Seq(Entry) /\ shown \in Picture
    BY DEF Types, Picture
<1> HIDE DEF e
<1>3. Append(shown.itf, e) \in Seq(Entry)
    BY <1>1, <1>2
<1>4. /\ Len(Append(shown.itf, e)) = Len(shown.itf) + 1 /\ Len(shown.itf) \in Nat
      /\ Append(shown.itf, e)[Len(shown.itf) + 1] = e
      /\ \A j \in 1 .. Len(shown.itf) : Append(shown.itf, e)[j] = shown.itf[j]
    BY <1>1, <1>2
<1>5. p.itf = Append(shown.itf, e) /\ p.vid = shown.vid /\ p.pid = shown.pid
      /\ p.on = shown.on /\ p \in Picture
    BY <1>2, <1>3 DEF Picture
<1> HIDE DEF p
<1>6. QED
    BY <1>1, <1>4, <1>5 DEF p, e

LEMMA TypedInit == Init => Typed
<1> SUFFICES ASSUME Init PROVE Typed
    OBVIOUS
<1>1. Slots \in Nat /\ 1 \in Slot
    BY SlotsAssumption DEF Slot
<1>2. <<>> \in Seq(Entry) /\ Len(<<>>) = 0
    OBVIOUS
<1>3. shown \in Picture /\ shown.itf = <<>> /\ shown.on
    BY <1>2 DEF Init, Detached, Picture, Identity
<1>4. desc \in [Slot -> Identity \X Nat] /\ up \in [Slot -> BOOLEAN]
    BY DEF Init, Identity
<1>5. swaps \in 0 .. Swaps
    BY SwapsAssumption DEF Init
<1>6. Types
    BY <1>1, <1>3, <1>4, <1>5 DEF Init, Types, Identity
<1>7. Fits
    BY <1>1, <1>2, <1>3 DEF Init, Fits
<1>8. QED
    BY <1>6, <1>7 DEF Typed

\* A mount enters the key's next interface in a slot, or counts that it could
\* not.
LEMMA MountTypes ==
    ASSUME Typed, HidMount
    PROVE  /\ up' \in [Slot -> BOOLEAN] /\ desc' \in [Slot -> Identity \X Nat]
           /\ cloneErr' \in Nat /\ mounts' \in Nat /\ pc1' \in {"idle", "ids"}
           /\ swift' \in BOOLEAN /\ early' \in Nat
<1>1. plugged \in Identity /\ mounts + 1 \in Nat /\ cloneErr + 1 \in Nat
    BY DEF Typed, Types
<1>2. <<plugged, mounts + 1>> \in Identity \X Nat
    BY <1>1
<1>3. mounts' \in Nat /\ swift' \in BOOLEAN /\ early' \in Nat
    BY <1>1 DEF HidMount, Typed, Types, Showing, histVars
<1>4. ASSUME NEW s \in Slot,
             desc' = [desc EXCEPT ![s] = <<plugged, mounts + 1>>],
             up' = [up EXCEPT ![s] = TRUE]
      PROVE  up' \in [Slot -> BOOLEAN] /\ desc' \in [Slot -> Identity \X Nat]
    BY <1>2, <1>4 DEF Typed, Types
<1>5. up' \in [Slot -> BOOLEAN] /\ desc' \in [Slot -> Identity \X Nat]
    BY <1>4 DEF HidMount, Typed, Types
<1>6. cloneErr' \in Nat /\ pc1' \in {"idle", "ids"}
    BY <1>1 DEF HidMount, Typed, Types
<1>7. QED
    BY <1>3, <1>5, <1>6

LEMMA TypedNext == Typed /\ [Next]_vars => Typed'
<1> SUFFICES ASSUME Typed, [Next]_vars PROVE Typed'
    OBVIOUS
<1>a. Slots \in Nat /\ 1 \in Slot /\ \A s \in Slot : s \in Nat
    BY SlotsAssumption DEF Slot
<1>b. <<>> \in Seq(Entry) /\ Len(<<>>) = 0
    OBVIOUS
<1>c. Swaps \in Nat
    BY SwapsAssumption
<1> USE DEF Typed, Types, linkVars, pcVars, core0Vars, core1Vars, histVars
<1>1. ASSUME NEW k \in Key, PlugIn(k) PROVE Typed'
  <2>1. swaps' \in 0 .. Swaps /\ k \in Identity
    BY <1>1, <1>c DEF PlugIn, Identity
  <2>2. QED
    BY <1>1, <2>1 DEF PlugIn, Fits
<1>2. CASE HidMount
    BY <1>2, MountTypes DEF HidMount, Fits
<1>3. CASE MountVid \/ MountPid
    BY <1>3 DEF MountVid, MountPid, Fits
<1>4. CASE LinkService
    BY <1>4 DEF LinkService, Fits
<1>5. CASE Unplug
    BY <1>5 DEF Unplug, Fits, Identity
<1>6. CASE PowerOff
    BY <1>6 DEF PowerOff, Fits, Identity
<1>7. CASE DeviceUnmount
    BY <1>7 DEF DeviceUnmount, Fits
<1>8. ASSUME NEW s \in Slot, HidUnmount(s) PROVE Typed'
    BY <1>8 DEF HidUnmount, Fits
<1>9. CASE PresenceService
  <2>1. shown' \in Picture /\ shown'.itf = <<>> /\ ~shown'.on
    BY <1>9, <1>b DEF PresenceService, Detached, Picture, Identity
  <2>2. QED
    BY <1>9, <1>a, <1>b, <2>1 DEF PresenceService, Fits
<1>10. CASE BuildVid \/ BuildPid
    BY <1>10, <1>a, <1>b DEF BuildVid, BuildPid, Fits
<1>11. ASSUME NEW s \in Slot, BuildSlot(s) PROVE Typed'
  <2>1. /\ shown' \in Picture /\ shown'.on = shown.on
        /\ Len(shown'.itf) \in {Len(shown.itf), Len(shown.itf) + 1} /\ Len(shown.itf) \in Nat
    BY <1>11, AddEntry DEF BuildSlot
  <2>2. s \in 1 .. Slots /\ adding = s /\ Len(shown.itf) < s
    BY <1>11 DEF BuildSlot, Fits, Slot
  <2>3. CASE s = Slots
    BY <1>11, <1>a, <2>1, <2>2, <2>3 DEF BuildSlot, Fits
  <2>4. CASE s # Slots
    <3>1. s + 1 \in Slot
      BY <1>a, <2>2, <2>4 DEF Slot
    <3>2. QED
      BY <1>11, <1>a, <2>1, <2>2, <2>4, <3>1 DEF BuildSlot, Fits
  <2>5. QED
    BY <2>3, <2>4
<1>12. CASE Attach
  <2>1. shown' \in Picture /\ shown'.itf = shown.itf /\ shown'.on
    BY <1>12 DEF Attach, Picture
  <2>2. QED
    BY <1>12, <2>1 DEF Attach, Fits
<1>13. CASE UNCHANGED vars
    BY <1>13 DEF vars, Fits
<1>14. QED
    BY <1>1, <1>2, <1>3, <1>4, <1>5, <1>6, <1>7, <1>8, <1>9, <1>10, <1>11, <1>12, <1>13
       DEF Next, Core1, Core0

\* Types of the state on both cores; no configuration ever has more interfaces
\* than the link table has slots.
THEOREM PresenceTyped == Spec => []TypeOK
<1>1. Typed => TypeOK
  <2> SUFFICES ASSUME Typed PROVE TypeOK
    OBVIOUS
  <2>1. shown.vid \in Identity /\ shown.pid \in Identity
    BY DEF Typed, Types, Picture
  <2>2. {vid, pid, newVid, newPid, shown.vid, shown.pid} \subseteq Identity
    BY <2>1 DEF Typed, Types
  <2>3. {settle, present, want, has, swift} \subseteq BOOLEAN
    BY Zenon DEF Typed, Types
  <2>4. QED
    BY <2>2, <2>3 DEF Typed, Types, Fits, TypeOK, Identity
<1>2. QED
    BY <1>1, TypedInit, TypedNext, PTL DEF Spec

---------------------------------------------------------------------------
(* The link table, whatever the timing *)

\* Where core 1 is in a mount or an unmount.
Phases ==
    /\ pc1 \in {"ids", "pid"} => plugged # None /\ mounts > 0
    /\ pc1 \in {"gone", "unmount"} => plugged = None
    /\ plugged = None => mounts = 0
    /\ plugged = None /\ pc1 = "idle" => \A s \in Slot : ~up[s]

\* Both IDs have been recorded since the key's first interface mounted.
Known == mounts > 1 \/ (mounts = 1 /\ pc1 = "idle")

\* The key in the table: a vid that is None stands for no key as well.
Owner == IF plugged = None THEN vid ELSE plugged

\* The slots in use hold the interfaces of one key, each in its own slot.
Filled ==
    /\ \A s \in Slot : up[s] => desc[s] = <<Owner, s>>
    /\ plugged # None => \A s \in Slot : up[s] <=> s <= mounts

\* Only within a mount do the two IDs differ.
Ids ==
    /\ pc1 \notin {"ids", "pid"} => vid = pid
    /\ pc1 = "pid" => vid = plugged
    /\ plugged # None /\ Known => vid = plugged /\ pid = plugged

\* Interfaces that found no slot are counted, for this key only.
Missing ==
    /\ plugged # None /\ mounts <= Slots => cloneErr = 0
    /\ plugged # None /\ mounts > Slots => cloneErr = mounts - Slots
    /\ plugged = None /\ pc1 # "gone" => cloneErr = 0
    /\ plugged # None => mounts <= Width[plugged]

TableInv == Typed /\ Phases /\ Filled /\ Ids /\ Missing

\* The slot a mount takes is the one after the last.
LEMMA MountTakesNext ==
    ASSUME Typed, Filled, HidMount
    PROVE  /\ mounts < Slots =>
                /\ mounts + 1 \in Slot /\ cloneErr' = cloneErr /\ pc1' = "ids"
                /\ up' = [up EXCEPT ![mounts + 1] = TRUE]
                /\ desc' = [desc EXCEPT ![mounts + 1] = <<plugged, mounts + 1>>]
           /\ mounts >= Slots =>
                UNCHANGED <<up, desc, pc1>> /\ cloneErr' = cloneErr + 1
<1>a. Slots \in Nat /\ mounts \in Nat /\ Slot = 1 .. Slots
    BY SlotsAssumption DEF Typed, Types, Slot
<1>b. \A s \in Slot : up[s] <=> s <= mounts
    BY DEF Filled, HidMount
<1>1. CASE mounts < Slots
  <2>1. mounts + 1 \in Slot /\ FreeSlot(mounts + 1)
    BY <1>a, <1>b, <1>1 DEF FreeSlot
  <2>2. ASSUME NEW s \in Slot, FreeSlot(s) PROVE s = mounts + 1
    <3>1. ~(s <= mounts)
      BY <2>2, <1>b DEF FreeSlot
    <3>2. ~(mounts + 1 < s)
      <4> SUFFICES ASSUME mounts + 1 < s PROVE FALSE
        OBVIOUS
      <4>1. mounts + 1 \in 1 .. s - 1
        BY <1>a
      <4>2. up[mounts + 1]
        BY <2>2, <4>1 DEF FreeSlot
      <4>3. QED
        BY <2>1, <4>2 DEF FreeSlot
    <3>3. QED
      BY <1>a, <3>1, <3>2
  <2>3. PICK s \in Slot :
            /\ FreeSlot(s)
            /\ desc' = [desc EXCEPT ![s] = <<plugged, mounts + 1>>]
            /\ up' = [up EXCEPT ![s] = TRUE]
            /\ pc1' = "ids" /\ UNCHANGED cloneErr
    BY <2>1 DEF HidMount
  <2>4. s = mounts + 1 /\ ~(mounts >= Slots)
    BY <1>a, <1>1, <2>2, <2>3
  <2>5. QED
    BY <2>1, <2>3, <2>4
<1>2. CASE mounts >= Slots
  <2>1. \A s \in Slot : ~FreeSlot(s)
    BY <1>a, <1>b, <1>2 DEF FreeSlot
  <2>2. QED
    BY <1>a, <1>2, <2>1 DEF HidMount
<1>3. QED
    BY <1>1, <1>2, <1>a

LEMMA TableInit == Init => TableInv
<1> SUFFICES ASSUME Init PROVE TableInv
    OBVIOUS
<1>1. Typed
    BY TypedInit
<1>2. Phases /\ Filled /\ Ids /\ Missing
    BY SlotsAssumption DEF Init, Phases, Filled, Ids, Known, Missing
<1>3. QED
    BY <1>1, <1>2 DEF TableInv

LEMMA TableNext == TableInv /\ [Next]_vars => TableInv'
<1> SUFFICES ASSUME TableInv, [Next]_vars PROVE TableInv'
    OBVIOUS
<1>t. Typed /\ Typed'
    BY TypedNext DEF TableInv
<1>a. Slots \in Nat /\ Slots > 0 /\ mounts \in Nat /\ cloneErr \in Nat
      /\ up \in [Slot -> BOOLEAN] /\ desc \in [Slot -> Identity \X Nat]
    BY <1>t, SlotsAssumption DEF Typed, Types
<1>s. \A s \in Slot : s \in Nat /\ s > 0
    BY <1>a DEF Slot
<1>w. None \notin Key /\ \A k \in Key : Width[k] \in Nat
    BY KeyAssumption
<1>k. plugged # None => plugged \in Key
    BY <1>t DEF Typed, Types, Identity
<1> SUFFICES Phases' /\ Filled' /\ Ids' /\ Missing'
    BY <1>t DEF TableInv
<1> USE DEF TableInv, linkVars
<1>1. ASSUME NEW k \in Key, PlugIn(k) PROVE Phases' /\ Filled' /\ Ids' /\ Missing'
  <2>1. k # None /\ plugged' = k /\ mounts' = 0 /\ plugged = None /\ pc1 = "idle"
        /\ UNCHANGED <<up, desc, vid, pid, pc1, settle, cloneErr>> /\ \A s \in Slot : ~up[s]
    BY <1>1, <1>w DEF PlugIn, Phases
  <2>2. Phases' /\ Ids'
    BY <2>1 DEF Phases, Ids, Known
  <2>3. Filled'
    BY <2>1, <1>s DEF Filled
  <2>4. Missing'
    BY <2>1, <1>a, <1>w DEF Missing
  <2>5. QED
    BY <2>2, <2>3, <2>4
<1>2. CASE HidMount
  <2>1. plugged \in Key /\ plugged # None /\ mounts' = mounts + 1 /\ mounts < Width[plugged]
        /\ UNCHANGED <<plugged, vid, pid, settle>> /\ pc1 = "idle" /\ Width[plugged] \in Nat
    BY <1>2, <1>k, <1>w DEF HidMount
  <2>2. \A s \in Slot : (up[s] <=> s <= mounts) /\ (up[s] => desc[s] = <<plugged, s>>)
    BY <2>1 DEF Filled, Owner
  <2>3. CASE mounts < Slots
    <3>1. mounts + 1 \in Slot /\ cloneErr' = cloneErr /\ pc1' = "ids"
          /\ up' = [up EXCEPT ![mounts + 1] = TRUE]
          /\ desc' = [desc EXCEPT ![mounts + 1] = <<plugged, mounts + 1>>]
      BY <1>2, <1>t, <2>3, MountTakesNext
    <3>2. Phases' /\ Ids'
      BY <2>1, <3>1, <1>a DEF Phases, Ids, Known
    <3>3. ASSUME NEW s \in Slot
          PROVE  (up'[s] <=> s <= mounts + 1) /\ (up'[s] => desc'[s] = <<plugged, s>>)
      BY <2>2, <3>1, <1>a, <1>s
    <3>4. Filled'
      BY <2>1, <3>3 DEF Filled, Owner
    <3>5. Missing'
      BY <2>1, <2>3, <3>1, <1>a DEF Missing
    <3>6. QED
      BY <3>2, <3>4, <3>5
  <2>4. CASE mounts >= Slots
    <3>1. UNCHANGED <<up, desc, pc1>> /\ cloneErr' = cloneErr + 1
      BY <1>2, <1>t, <2>4, MountTakesNext
    <3>2. Phases' /\ Ids'
      BY <2>1, <2>4, <3>1, <1>a DEF Phases, Ids, Known
    <3>3. ASSUME NEW s \in Slot PROVE up[s] <=> s <= mounts + 1
      BY <2>2, <2>4, <1>a DEF Slot
    <3>4. Filled'
      BY <2>1, <2>2, <3>1, <3>3 DEF Filled, Owner
    <3>5. Missing'
      BY <2>1, <2>4, <3>1, <1>a DEF Missing
    <3>6. QED
      BY <3>2, <3>4, <3>5
  <2>5. QED
    BY <2>3, <2>4, <1>a
<1>3. CASE MountVid
  <2>1. plugged # None /\ vid' = plugged /\ pc1' = "pid" /\ pc1 = "ids"
        /\ UNCHANGED <<plugged, mounts, up, desc, pid, cloneErr>>
    BY <1>3 DEF MountVid, Phases
  <2>2. Phases' /\ Filled' /\ Missing'
    BY <2>1 DEF Phases, Filled, Owner, Missing
  <2>3. Ids'
    BY <2>1, <1>a DEF Ids, Known
  <2>4. QED
    BY <2>2, <2>3
<1>4. CASE MountPid
    BY <1>4, <1>a DEF MountPid, Phases, Filled, Owner, Missing, Ids, Known
<1>5. CASE LinkService
    BY <1>5 DEF LinkService, Phases, Filled, Owner, Missing, Ids, Known
<1>6. CASE Unplug
  <2>1. plugged # None /\ plugged' = None /\ mounts' = 0 /\ pc1 = "idle"
        /\ pc1' = "gone" /\ UNCHANGED <<up, desc, vid, pid, cloneErr>>
    BY <1>6 DEF Unplug
  <2>2. \A s \in Slot : (up[s] <=> s <= mounts) /\ (up[s] => desc[s] = <<plugged, s>>)
    BY <2>1 DEF Filled, Owner
  <2>3. ~(mounts > 0) => mounts = 0 /\ \A s \in Slot : ~up[s]
    BY <2>2, <1>a, <1>s
  <2>4. Phases'
    BY <2>1, <2>3 DEF Phases
  <2>5. mounts > 0 => vid = plugged
    BY <2>1, <1>a DEF Ids, Known
  <2>6. Filled'
    BY <2>1, <2>2, <2>3, <2>5 DEF Filled, Owner
  <2>7. Ids' /\ Missing'
    BY <2>1, <2>3, <1>a DEF Ids, Missing
  <2>8. QED
    BY <2>4, <2>6, <2>7
<1>7. CASE PowerOff
  <2>1. plugged' = None /\ mounts' = 0 /\ pc1' = "gone" /\ pc1 = "idle"
        /\ UNCHANGED <<desc, vid, pid, cloneErr>> /\ \A s \in Slot : ~up'[s]
    BY <1>7 DEF PowerOff
  <2>2. QED
    BY <2>1 DEF Phases, Filled, Ids, Missing
<1>8. ASSUME NEW s \in Slot, HidUnmount(s) PROVE Phases' /\ Filled' /\ Ids' /\ Missing'
  <2>1. plugged = None /\ pc1 = "unmount" /\ up' = [up EXCEPT ![s] = FALSE]
        /\ pc1' \in {"unmount", "idle"}
        /\ (pc1' = "idle" => \A t \in Slot \ {s} : ~up[t])
        /\ UNCHANGED <<plugged, mounts, desc, vid, pid, cloneErr>>
    BY <1>8 DEF HidUnmount, Phases
  <2>2. \A t \in Slot : up'[t] => up[t] /\ t # s
    BY <2>1, <1>a
  <2>3. Filled'
    BY <2>1, <2>2 DEF Filled, Owner
  <2>4. QED
    BY <2>1, <2>2, <2>3 DEF Phases, Ids, Known, Missing
<1>9. CASE DeviceUnmount
    BY <1>9 DEF DeviceUnmount, Phases, Filled, Owner, Missing, Ids, Known
<1>10. CASE Core0 \/ UNCHANGED vars
  <2>1. UNCHANGED <<plugged, mounts, up, desc, vid, pid, pc1, cloneErr>>
    BY <1>10 DEF Core0, PresenceService, BuildVid, BuildPid, BuildSlot, Attach, core1Vars,
                 vars
  <2>2. QED
    BY <2>1 DEF Phases, Filled, Owner, Missing, Ids, Known
<1>11. QED
    BY <1>1, <1>2, <1>3, <1>4, <1>5, <1>6, <1>7, <1>8, <1>9, <1>10 DEF Next, Core1

---------------------------------------------------------------------------
(* Core 0 against the table *)

\* A key that came when nothing of the last one was announced or shown, and
\* has begun to mount.
Fresh == plugged # None /\ mounts > 0 /\ ~swift

\* What is announced follows the table, once the links have settled.
Pending ==
    /\ present /\ ~settle => \E s \in Slot : up[s]
    /\ plugged # None /\ mounts > 0 /\ pc1 = "idle" => settle \/ present

\* Core 0 shows nothing of a fresh key before it is announced, and by then its
\* IDs are recorded.
Announced ==
    /\ Fresh /\ ~present => ~Showing
    /\ Fresh /\ present => Known /\ early > 0 /\ early <= mounts

\* The configuration under way.
Building ==
    /\ pc0 = "add" => want
    /\ ~Showing => shown.itf = <<>>
    /\ ~swift /\ want /\ pc0 \in {"pid", "add", "attach"} => newVid = vid
    /\ ~swift /\ want /\ pc0 \in {"add", "attach"} => newPid = pid
    /\ ~swift /\ pc0 = "idle" /\ shown.itf # <<>> => shown.vid = vid /\ shown.pid = pid

\* What the PC is given of one interface is in the table still, and is the
\* recorded device's.
Stands(e) ==
    /\ desc[e.slot] = e.was /\ e.was[1] = vid /\ vid = pid
    /\ plugged # None /\ mounts > 0 => up[e.slot]

Given == ~swift => \A j \in 1 .. Len(shown.itf) : Stands(shown.itf[j])

\* Interfaces are shown in the order of their slots.
InOrder ==
    /\ \A j \in 1 .. Len(shown.itf) :
          /\ j <= shown.itf[j].slot
          /\ pc0 = "add" => shown.itf[j].slot < adding
          /\ \A i \in 1 .. j - 1 : shown.itf[i].slot < shown.itf[j].slot

\* The slots usb_build_config has been through.
Done == CASE pc0 = "add" -> adding - 1
          [] pc0 \in {"vid", "pid"} -> 0
          [] pc0 \in {"attach", "idle"} -> Slots

\* The interfaces that were there when the key was announced are each shown at
\* the place of their slot.
InPlace ==
    Fresh /\ Showing => \A j \in Slot :
        j <= early /\ j <= Done => j <= Len(shown.itf) /\ shown.itf[j].slot = j

Inv == TableInv /\ Pending /\ Announced /\ Building /\ Given /\ InOrder /\ InPlace

LEMMA RestInit == Init => Inv
<1> SUFFICES ASSUME Init PROVE Inv
    OBVIOUS
<1>1. shown.itf = <<>> /\ Len(shown.itf) = 0 /\ 1 .. 0 = {}
    BY DEF Init, Detached
<1>2. Pending /\ Announced /\ Building /\ InPlace
    BY <1>1 DEF Init, Pending, Announced, Fresh, Building, Showing, InPlace
<1>3. Given /\ InOrder
    BY <1>1 DEF Given, InOrder
<1>4. QED
    BY TableInit, <1>2, <1>3 DEF Inv

LEMMA PendingNext == TableInv /\ Pending /\ [Next]_vars => Pending'
<1> SUFFICES ASSUME TableInv, Pending, [Next]_vars PROVE Pending'
    OBVIOUS
<1>a. Slots \in Nat /\ Slots > 0 /\ mounts \in Nat /\ up \in [Slot -> BOOLEAN]
      /\ 1 \in Slot /\ settle \in BOOLEAN
    BY SlotsAssumption DEF TableInv, Typed, Types, Slot
<1> USE DEF linkVars
<1>1. ASSUME NEW k \in Key, PlugIn(k) PROVE Pending'
    BY <1>1 DEF PlugIn, Pending
<1>2. CASE HidMount
  <2>1. plugged # None /\ pc1 = "idle" /\ mounts' = mounts + 1
        /\ UNCHANGED <<plugged, settle, present>>
    BY <1>2 DEF HidMount
  <2>2. CASE mounts < Slots
    <3>1. mounts + 1 \in Slot /\ pc1' = "ids" /\ up' = [up EXCEPT ![mounts + 1] = TRUE]
      BY <1>2, <2>2, MountTakesNext DEF TableInv
    <3>2. up'[mounts + 1]
      BY <3>1, <1>a
    <3>3. QED
      BY <2>1, <3>1, <3>2 DEF Pending
  <2>3. CASE mounts >= Slots
    <3>1. UNCHANGED <<up, pc1>>
      BY <1>2, <2>3, MountTakesNext DEF TableInv
    <3>2. QED
      BY <2>1, <2>3, <3>1, <1>a DEF Pending
  <2>4. QED
    BY <2>2, <2>3, <1>a
<1>3. CASE MountVid
    BY <1>3 DEF MountVid, Pending
<1>4. CASE MountPid
    BY <1>4 DEF MountPid, Pending
<1>5. CASE LinkService
  <2>1. present' = (\E s \in Slot : up[s]) /\ pc1' = pc1
        /\ UNCHANGED <<plugged, mounts, up>>
    BY <1>5 DEF LinkService
  <2>2. plugged # None /\ mounts > 0 => up[1]
    BY <1>a DEF TableInv, Filled
  <2>3. QED
    BY <2>1, <2>2, <1>a DEF Pending
<1>6. CASE Unplug \/ PowerOff \/ DeviceUnmount
    BY <1>6 DEF Unplug, PowerOff, DeviceUnmount, Pending, TableInv, Phases
<1>7. ASSUME NEW s \in Slot, HidUnmount(s) PROVE Pending'
    BY <1>7 DEF HidUnmount, Pending, TableInv, Phases
<1>8. CASE Core0 \/ UNCHANGED vars
  <2>1. UNCHANGED <<plugged, mounts, up, settle, present, pc1>>
    BY <1>8 DEF Core0, PresenceService, BuildVid, BuildPid, BuildSlot, Attach, core1Vars,
                vars
  <2>2. QED
    BY <2>1 DEF Pending
<1>9. QED
    BY <1>1, <1>2, <1>3, <1>4, <1>5, <1>6, <1>7, <1>8 DEF Next, Core1

\* What is announced never goes while a fresh key stays.
LEMMA AnnouncedNext == TableInv /\ Announced /\ [Next]_vars => Announced'
<1> SUFFICES ASSUME TableInv, Announced, [Next]_vars PROVE Announced'
    OBVIOUS
<1>a. Slots \in Nat /\ Slots > 0 /\ mounts \in Nat /\ early \in Nat /\ 1 \in Slot
      /\ present \in BOOLEAN /\ has \in BOOLEAN /\ want \in BOOLEAN /\ swift \in BOOLEAN
    BY SlotsAssumption DEF TableInv, Typed, Types, Slot
<1> USE DEF linkVars, pcVars, core0Vars, histVars
<1>1. ASSUME NEW k \in Key, PlugIn(k) PROVE Announced'
    BY <1>1 DEF PlugIn, Announced, Fresh
<1>2. CASE HidMount
  <2>1. plugged # None /\ pc1 = "idle" /\ mounts' = mounts + 1 /\ pc1' \in {"ids", "idle"}
        /\ UNCHANGED <<plugged, present, pc0, has, want>> /\ (Showing' <=> Showing)
    BY <1>2, MountTypes DEF HidMount, Showing, TableInv
  <2>2. CASE mounts = 0
    <3>1. swift' = (present \/ Showing)
      BY <1>2, <2>2 DEF HidMount
    <3>2. QED
      BY <2>1, <3>1 DEF Announced, Fresh
  <2>3. CASE mounts > 0
    <3>1. UNCHANGED <<swift, early>>
      BY <1>2, <2>3 DEF HidMount
    <3>2. Fresh' => Fresh
      BY <2>1, <2>3, <3>1 DEF Fresh
    <3>3. QED
      BY <2>1, <2>3, <3>1, <3>2, <1>a DEF Announced, Known
  <2>4. QED
    BY <2>2, <2>3, <1>a
<1>3. CASE MountVid
    BY <1>3, <1>a DEF MountVid, Announced, Fresh, Showing, Known
<1>4. CASE MountPid
    BY <1>4, <1>a DEF MountPid, Announced, Fresh, Showing, Known
<1>5. CASE LinkService
  <2>1. present' = (\E s \in Slot : up[s]) /\ pc1 = "idle"
        /\ early' = (IF present' /\ ~present THEN mounts ELSE early)
        /\ UNCHANGED <<plugged, mounts, swift, pc1>> /\ (Showing' <=> Showing)
    BY <1>5 DEF LinkService, Showing
  <2>2. Fresh' => Fresh /\ present'
    BY <2>1, <1>a DEF Fresh, TableInv, Filled
  <2>3. QED
    BY <2>1, <2>2, <1>a DEF Announced, Known, Fresh
<1>6. CASE Unplug \/ PowerOff
    BY <1>6 DEF Unplug, PowerOff, Announced, Fresh
<1>7. ASSUME NEW s \in Slot, DeviceUnmount \/ HidUnmount(s) PROVE Announced'
    BY <1>7 DEF DeviceUnmount, HidUnmount, Announced, Fresh, TableInv, Phases
<1>8. CASE Core0 \/ UNCHANGED vars
  <2>1. UNCHANGED <<plugged, mounts, present, swift, early, pc1>>
    BY <1>8 DEF Core0, PresenceService, BuildVid, BuildPid, BuildSlot, Attach, core1Vars,
                vars
  <2>2. ~present /\ ~Showing => ~Showing'
    <3>1. CASE PresenceService
      BY <3>1, <1>a DEF PresenceService, Showing
    <3>2. ASSUME NEW s \in Slot, BuildVid \/ BuildPid \/ BuildSlot(s) PROVE Showing' <=> Showing
      BY <3>2 DEF BuildVid, BuildPid, BuildSlot, Showing
    <3>3. CASE Attach \/ UNCHANGED vars
      BY <3>3 DEF Attach, vars, Showing
    <3>4. QED
      BY <1>8, <1>a, <3>1, <3>2, <3>3 DEF Core0
  <2>3. QED
    BY <2>1, <2>2 DEF Announced, Fresh, Known
<1>9. QED
    BY <1>1, <1>2, <1>3, <1>4, <1>5, <1>6, <1>7, <1>8, <1>a DEF Next, Core1

\* Core 1 leaves what core 0 is at alone.
LEMMA Core1Leaves ==
    Core1 => /\ UNCHANGED <<pc0, adding, want, newVid, newPid, has, shown>>
             /\ Showing' <=> Showing
<1> SUFFICES ASSUME Core1 PROVE UNCHANGED <<pc0, adding, want, newVid, newPid, has, shown>>
    BY DEF Showing
<1>1. QED
    BY DEF Core1, PlugIn, HidMount, MountVid, MountPid, LinkService, Unplug, PowerOff,
       DeviceUnmount, HidUnmount, core0Vars, pcVars

\* Core 0 leaves core 1's state alone.
LEMMA Core0Leaves ==
    Core0 => UNCHANGED <<plugged, mounts, up, desc, vid, pid, pc1, settle, present, swift,
                         early>>
<1>1. QED
    BY DEF Core0, PresenceService, BuildVid, BuildPid, BuildSlot, Attach, core1Vars, linkVars,
       histVars

\* While a key is shown its IDs stay as they are.  With a key that is not fresh
\* there is nothing to say, and a fresh one starts with nothing shown.
LEMMA IdsStay ==
    ASSUME TableInv, Announced, Building, Core1, ~swift', Showing
    PROVE  ~swift /\ UNCHANGED <<vid, pid>>
<1>a. mounts \in Nat
    BY DEF TableInv, Typed, Types
<1>1. ~swift
    BY DEF Core1, PlugIn, HidMount, MountVid, MountPid, LinkService, Unplug, PowerOff,
       DeviceUnmount, HidUnmount, histVars
<1>2. plugged # None /\ mounts > 0 => Known
    BY <1>1 DEF Announced, Fresh
<1>3. pc1 \in {"ids", "pid"} => vid = plugged /\ pid = plugged
    BY <1>2 DEF TableInv, Phases, Ids
<1>4. CASE MountVid \/ MountPid
    BY <1>1, <1>3, <1>4 DEF MountVid, MountPid
<1>5. CASE ~(MountVid \/ MountPid)
    BY <1>1, <1>5 DEF Core1, PlugIn, HidMount, LinkService, Unplug, PowerOff, DeviceUnmount,
       HidUnmount, linkVars
<1>6. QED
    BY <1>4, <1>5

LEMMA BuildingNext ==
    TableInv /\ Announced /\ Building /\ [Next]_vars => Building'
<1> SUFFICES ASSUME TableInv, Announced, Building, [Next]_vars PROVE Building'
    OBVIOUS
<1>a. present \in BOOLEAN /\ has \in BOOLEAN /\ want \in BOOLEAN /\ swift \in BOOLEAN
      /\ shown \in Picture
    BY DEF TableInv, Typed, Types
<1>1. CASE Core1
  <2>1. UNCHANGED <<pc0, want, newVid, newPid, shown>> /\ (Showing' <=> Showing)
    BY <1>1, Core1Leaves
  <2>2. CASE Showing /\ ~swift'
    BY <1>1, <2>1, <2>2, IdsStay DEF Building
  <2>3. CASE ~(Showing /\ ~swift')
    BY <2>1, <2>3 DEF Building, Showing
  <2>4. QED
    BY <2>2, <2>3
<1>2. CASE PresenceService
    BY <1>2 DEF PresenceService, Building, Detached
<1>3. CASE BuildVid
    BY <1>3, Core0Leaves DEF Core0, BuildVid, Building, Showing
<1>4. CASE BuildPid
    BY <1>4, Core0Leaves DEF Core0, BuildPid, Building, Showing
<1>5. ASSUME NEW s \in Slot, BuildSlot(s) PROVE Building'
  <2>1. pc0 = "add" /\ want /\ pc0' \in {"add", "attach"}
        /\ UNCHANGED <<want, newVid, newPid, vid, pid, swift>>
    BY <1>5, Core0Leaves DEF Core0, BuildSlot, Building
  <2>2. QED
    BY <2>1 DEF Building, Showing
<1>6. CASE Attach
  <2>1. shown'.vid = newVid /\ shown'.pid = newPid /\ shown'.itf = shown.itf
        /\ pc0 = "attach" /\ pc0' = "idle" /\ has' = want /\ UNCHANGED <<vid, pid, swift>>
    BY <1>6, <1>a, Core0Leaves DEF Core0, Attach, Picture
  <2>2. QED
    BY <2>1 DEF Building, Showing
<1>7. CASE UNCHANGED vars
    BY <1>7 DEF vars, pcVars, linkVars, histVars, Building, Showing
<1>8. QED
    BY <1>1, <1>2, <1>3, <1>4, <1>5, <1>6, <1>7 DEF Next, Core0

LEMMA GivenNext ==
    TableInv /\ Announced /\ Building /\ Given /\ [Next]_vars => Given'
<1> SUFFICES ASSUME TableInv, Announced, Building, Given, [Next]_vars PROVE Given'
    OBVIOUS
<1>a. Slots \in Nat /\ Slots > 0 /\ mounts \in Nat /\ Slot = 1 .. Slots /\ shown \in Picture
      /\ desc \in [Slot -> Identity \X Nat] /\ up \in [Slot -> BOOLEAN]
    BY SlotsAssumption DEF TableInv, Typed, Types, Slot
<1>b. \A j \in 1 .. Len(shown.itf) : shown.itf[j].slot \in Slot
  <2>1. shown.itf \in Seq(Entry)
    BY <1>a DEF Picture
  <2>2. \A j \in 1 .. Len(shown.itf) : shown.itf[j] \in Entry
    BY <2>1
  <2>3. QED
    BY <2>2 DEF Entry
<1>1. CASE Core1
  <2>1. shown' = shown /\ (~Showing => shown.itf = <<>>)
    BY <1>1, Core1Leaves DEF Building
  <2>2. SUFFICES ASSUME ~swift', Showing, NEW e, e.slot \in Slot, Stands(e) PROVE Stands(e)'
    <3>1. ~Showing => Len(shown.itf) = 0
      BY <2>1
    <3>2. ~swift' /\ Showing => ~swift
      BY <1>1, IdsStay
    <3>3. QED
      BY <2>1, <2>2, <3>1, <3>2, <1>b DEF Given
  <2>3. UNCHANGED <<vid, pid>> /\ ~swift
    BY <1>1, <2>2, IdsStay
  <2>4. CASE HidMount
    <3>1. mounts > 0 /\ mounts' > 0 /\ plugged # None /\ plugged' = plugged
      <4>1. mounts # 0
        BY <2>2, <2>4 DEF HidMount
      <4>2. plugged # None /\ plugged' = plugged /\ mounts' = mounts + 1
        BY <2>4 DEF HidMount
      <4>3. QED
        BY <1>a, <4>1, <4>2
    <3>2. up[e.slot] /\ e.slot <= mounts
      BY <2>2, <3>1 DEF Stands, TableInv, Filled
    <3>3. up'[e.slot] /\ desc'[e.slot] = desc[e.slot]
      <4>1. CASE mounts < Slots
        <5>1. up' = [up EXCEPT ![mounts + 1] = TRUE]
              /\ desc' = [desc EXCEPT ![mounts + 1] = <<plugged, mounts + 1>>]
          BY <2>4, <4>1, MountTakesNext DEF TableInv
        <5>2. e.slot # mounts + 1
          BY <3>2, <2>2, <1>a
        <5>3. QED
          BY <2>2, <3>2, <5>1, <5>2, <1>a
      <4>2. CASE mounts >= Slots
        BY <2>4, <3>2, <4>2, MountTakesNext DEF TableInv
      <4>3. QED
        BY <4>1, <4>2, <1>a
    <3>4. QED
      BY <2>2, <2>3, <3>1, <3>3 DEF Stands
  <2>5. ASSUME NEW k \in Key, PlugIn(k) PROVE Stands(e)'
    BY <2>2, <2>3, <2>5 DEF PlugIn, Stands, linkVars
  <2>6. CASE MountVid \/ MountPid \/ LinkService
    BY <2>2, <2>3, <2>6 DEF MountVid, MountPid, LinkService, Stands
  <2>7. CASE Unplug \/ PowerOff \/ DeviceUnmount
    BY <2>2, <2>3, <2>7 DEF Unplug, PowerOff, DeviceUnmount, Stands, TableInv, Phases
  <2>8. ASSUME NEW s \in Slot, HidUnmount(s) PROVE Stands(e)'
    BY <2>2, <2>3, <2>8 DEF HidUnmount, Stands, TableInv, Phases
  <2>9. QED
    BY <1>1, <2>4, <2>5, <2>6, <2>7, <2>8 DEF Core1
<1>2. CASE PresenceService
  <2>1. Len(shown'.itf) = 0
    BY <1>2 DEF PresenceService, Detached
  <2>2. QED
    BY <2>1 DEF Given
<1>3. ASSUME NEW s \in Slot, BuildSlot(s) PROVE Given'
  <2>1. UNCHANGED <<plugged, mounts, up, desc, vid, pid, swift>> /\ Showing /\ adding = s
        /\ pc0 = "add"
    BY <1>3, Core0Leaves DEF Core0, BuildSlot, Building, Showing
  <2>2. SUFFICES ASSUME ~swift, NEW j \in 1 .. Len(shown'.itf) PROVE Stands(shown'.itf[j])
    BY <2>1 DEF Given, Stands
  <2>3. CASE ~up[s]
    BY <1>3, <2>2, <2>3 DEF BuildSlot, Given
  <2>4. CASE up[s]
    <3>1. shown' = [shown EXCEPT !.itf = Append(@, [slot |-> s, was |-> desc[s]])]
      BY <1>3, <2>4 DEF BuildSlot
    <3>2. Len(shown'.itf) = Len(shown.itf) + 1 /\ Len(shown.itf) \in Nat
          /\ shown'.itf[Len(shown.itf) + 1] = [slot |-> s, was |-> desc[s]]
          /\ \A i \in 1 .. Len(shown.itf) : shown'.itf[i] = shown.itf[i]
      BY <3>1, AddEntry DEF TableInv, Typed
    <3>3. CASE j <= Len(shown.itf)
      BY <2>2, <3>2, <3>3 DEF Given
    <3>4. CASE j = Len(shown.itf) + 1
      <4>1. desc[s] = <<Owner, s>>
        BY <2>4 DEF TableInv, Filled
      <4>2. CASE plugged = None
        BY <3>2, <3>4, <4>1, <4>2 DEF Stands, Owner, TableInv, Phases, Ids
      <4>3. CASE plugged # None
        <5>1. mounts > 0
          BY <2>4, <4>3, <1>a DEF TableInv, Filled
        <5>2. vid = plugged /\ pid = plugged
          BY <2>1, <2>2, <4>3, <5>1 DEF Announced, Fresh, TableInv, Ids
        <5>3. QED
          BY <2>4, <3>2, <3>4, <4>1, <4>3, <5>1, <5>2 DEF Stands, Owner
      <4>4. QED
        BY <4>2, <4>3
    <3>5. QED
      BY <3>2, <3>3, <3>4
  <2>5. QED
    BY <2>3, <2>4
<1>4. CASE BuildVid \/ BuildPid \/ UNCHANGED vars
  <2>1. UNCHANGED <<plugged, mounts, up, desc, vid, pid, swift, shown>>
    BY <1>4 DEF BuildVid, BuildPid, vars, core1Vars, linkVars, pcVars, histVars
  <2>2. QED
    BY <2>1 DEF Given, Stands
<1>5. CASE Attach
  <2>1. UNCHANGED <<plugged, mounts, up, desc, vid, pid, swift>> /\ shown'.itf = shown.itf
    BY <1>5, <1>a, Core0Leaves DEF Core0, Attach, Picture
  <2>2. QED
    BY <2>1 DEF Given, Stands
<1>6. QED
    BY <1>1, <1>2, <1>3, <1>4, <1>5 DEF Next, Core0

LEMMA InOrderNext == TableInv /\ InOrder /\ [Next]_vars => InOrder'
<1> SUFFICES ASSUME TableInv, InOrder, [Next]_vars PROVE InOrder'
    OBVIOUS
<1>a. Slots \in Nat /\ shown \in Picture /\ Slot = 1 .. Slots /\ Len(shown.itf) \in Nat
    BY SlotsAssumption DEF TableInv, Typed, Types, Slot, Picture
<1>b. \A j \in 1 .. Len(shown.itf) : shown.itf[j].slot \in Nat
  <2>1. shown.itf \in Seq(Entry)
    BY <1>a DEF Picture
  <2>2. \A j \in 1 .. Len(shown.itf) : shown.itf[j] \in Entry
    BY <2>1
  <2>3. QED
    BY <2>2, <1>a DEF Entry
<1>1. CASE PresenceService
  <2>1. Len(shown'.itf) = 0
    BY <1>1 DEF PresenceService, Detached
  <2>2. QED
    BY <2>1 DEF InOrder
<1>2. ASSUME NEW s \in Slot, BuildSlot(s) PROVE InOrder'
  <2>1. pc0 = "add" /\ adding = s /\ (pc0' = "add" => adding' = s + 1) /\ s \in Nat
        /\ Len(shown.itf) < s
    BY <1>2, <1>a DEF BuildSlot, TableInv, Typed, Fits
  <2>2. \A j \in 1 .. Len(shown.itf) :
            /\ j <= shown.itf[j].slot /\ shown.itf[j].slot < s
            /\ \A i \in 1 .. j - 1 : shown.itf[i].slot < shown.itf[j].slot
    BY <2>1 DEF InOrder
  <2>3. CASE ~up[s]
    <3>1. shown' = shown
      BY <1>2, <2>3 DEF BuildSlot
    <3>2. \A j \in 1 .. Len(shown.itf) : shown.itf[j].slot < s + 1
      BY <2>1, <2>2, <1>b
    <3>3. QED
      BY <2>1, <2>2, <3>1, <3>2 DEF InOrder
  <2>4. CASE up[s]
    <3> DEFINE n == Len(shown.itf)
    <3>1. shown' = [shown EXCEPT !.itf = Append(@, [slot |-> s, was |-> desc[s]])]
      BY <1>2, <2>4 DEF BuildSlot
    <3>2. Len(shown'.itf) = n + 1 /\ n \in Nat /\ shown'.itf[n + 1].slot = s
          /\ \A j \in 1 .. n : shown'.itf[j] = shown.itf[j]
      BY <3>1, AddEntry DEF TableInv, Typed
    <3> HIDE DEF n
    <3>3. \A j \in 1 .. n :
             /\ j <= shown'.itf[j].slot /\ shown'.itf[j].slot < s
             /\ \A i \in 1 .. j - 1 : shown'.itf[i].slot < shown'.itf[j].slot
      BY <2>2, <3>2 DEF n
    <3>4. n + 1 <= s
      BY <2>1, <3>2 DEF n
    <3>5. ASSUME NEW j \in 1 .. n + 1
          PROVE  /\ j <= shown'.itf[j].slot /\ shown'.itf[j].slot < s + 1
                 /\ \A i \in 1 .. j - 1 : shown'.itf[i].slot < shown'.itf[j].slot
      <4>1. CASE j <= n
        <5>1. shown'.itf[j].slot \in Nat
          BY <3>2, <4>1, <1>b DEF n
        <5>2. QED
          BY <2>1, <3>2, <3>3, <4>1, <5>1
      <4>2. CASE j = n + 1
        BY <2>1, <3>2, <3>3, <3>4, <4>2
      <4>3. QED
        BY <3>2, <4>1, <4>2
    <3>6. QED
      BY <2>1, <3>2, <3>5 DEF InOrder
  <2>5. QED
    BY <2>3, <2>4
<1>3. CASE BuildVid \/ BuildPid
  <2>1. shown' = shown /\ Len(shown.itf) = 0
    BY <1>3 DEF BuildVid, BuildPid, TableInv, Typed, Fits
  <2>2. QED
    BY <2>1 DEF InOrder
<1>4. CASE Attach \/ Core1 \/ UNCHANGED vars
  <2>1. shown'.itf = shown.itf
    BY <1>4, <1>a, Core1Leaves DEF Attach, vars, pcVars, Picture
  <2>2. pc0' = "add" => pc0 = "add" /\ adding' = adding
    BY <1>4, Core1Leaves DEF Attach, vars, pcVars
  <2>3. QED
    BY <2>1, <2>2 DEF InOrder
<1>5. QED
    BY <1>1, <1>2, <1>3, <1>4 DEF Next, Core0

LEMMA InPlaceNext ==
    TableInv /\ Announced /\ Building /\ InPlace /\ [Next]_vars => InPlace'
<1> SUFFICES ASSUME TableInv, Announced, Building, InPlace, [Next]_vars PROVE InPlace'
    OBVIOUS
<1>a. Slots \in Nat /\ mounts \in Nat /\ early \in Nat /\ shown \in Picture
      /\ Slot = 1 .. Slots /\ Len(shown.itf) \in Nat
    BY SlotsAssumption DEF TableInv, Typed, Types, Slot, Picture
<1>1. CASE Core1
  <2>1. UNCHANGED <<pc0, adding, want, has, shown>> /\ (Showing' <=> Showing) /\ Done' = Done
    BY <1>1, Core1Leaves DEF Done
  <2>2. Fresh' /\ Showing' => Fresh /\ early' = early
    <3> SUFFICES ASSUME Fresh', Showing PROVE Fresh /\ early' = early
      BY <2>1
    <3>1. ~swift /\ plugged' # None /\ mounts' > 0 /\ ~swift'
      BY <1>1, IdsStay DEF Fresh
    <3>2. CASE HidMount
      <4>1. mounts # 0 /\ plugged # None
        BY <3>1, <3>2 DEF HidMount
      <4>2. mounts > 0
        BY <1>a, <4>1
      <4>3. QED
        BY <3>1, <3>2, <4>1, <4>2 DEF HidMount, Fresh, histVars
    <3>3. CASE LinkService
      <4>1. Fresh
        BY <3>1, <3>3 DEF LinkService, Fresh
      <4>2. QED
        BY <3>3, <4>1 DEF LinkService, Announced
    <3>4. CASE ~HidMount /\ ~LinkService
      <4>1. ASSUME NEW k \in Key, PlugIn(k) PROVE FALSE
        BY <3>1, <4>1, <1>a DEF PlugIn
      <4>2. UNCHANGED <<plugged, mounts, swift, early>>
        BY <1>1, <3>1, <3>4, <4>1 DEF Core1, MountVid, MountPid, Unplug, PowerOff,
           DeviceUnmount, HidUnmount, histVars
      <4>3. QED
        BY <3>1, <4>2 DEF Fresh
    <3>5. QED
      BY <3>2, <3>3, <3>4
  <2>3. QED
    BY <2>1, <2>2 DEF InPlace
<1>2. CASE PresenceService \/ BuildVid
  <2>1. pc0' \in {"vid", "pid"}
    BY <1>2 DEF PresenceService, BuildVid
  <2>2. Done' = 0
    BY <2>1 DEF Done
  <2>3. QED
    BY <2>2, <1>a DEF InPlace
<1>3. CASE BuildPid
  <2>1. CASE want
    <3>1. pc0' = "add" /\ adding' = 1
      BY <1>3, <2>1 DEF BuildPid, TableInv, Typed, Fits
    <3>2. Done' = 0
      BY <3>1 DEF Done
    <3>3. QED
      BY <3>2, <1>a DEF InPlace
  <2>2. CASE ~want
    BY <1>3, <2>2 DEF BuildPid, InPlace, Showing
  <2>3. QED
    BY <2>1, <2>2
<1>4. ASSUME NEW s \in Slot, BuildSlot(s) PROVE InPlace'
  <2>1. UNCHANGED <<plugged, mounts, swift, early, want>> /\ adding = s /\ want
        /\ pc0 = "add" /\ Len(shown.itf) < s
    BY <1>4, Core0Leaves DEF Core0, BuildSlot, TableInv, Typed, Fits, Building
  <2>2. SUFFICES ASSUME Fresh, NEW j \in Slot, j <= early, j <= Done'
                 PROVE  j <= Len(shown'.itf) /\ shown'.itf[j].slot = j
    BY <2>1 DEF InPlace, Fresh
  <2>3. j <= s
    <3>1. CASE s = Slots
      BY <3>1, <1>a
    <3>2. CASE s # Slots
      <4>1. pc0' = "add" /\ adding' = s + 1
        BY <1>4, <3>2, <2>1 DEF BuildSlot
      <4>2. Done' = (s + 1) - 1
        BY <4>1 DEF Done
      <4>3. QED
        BY <2>2, <4>2, <1>a
    <3>3. QED
      BY <3>1, <3>2
  <2>4. \A i \in Slot : i <= early /\ i < s => i <= Len(shown.itf) /\ shown.itf[i].slot = i
    <3>1. Done = s - 1 /\ Showing
      BY <2>1 DEF Done, Showing
    <3>2. \A i \in Slot : i <= early /\ i <= s - 1
             => i <= Len(shown.itf) /\ shown.itf[i].slot = i
      BY <2>2, <3>1 DEF InPlace
    <3>3. QED
      BY <3>2, <1>a
  <2>5. CASE ~up[s]
    <3>1. shown' = shown /\ j # s
      <4>1. j <= mounts
        BY <2>1, <2>2, <1>a DEF Announced, Showing
      <4>2. up[j]
        BY <2>2, <4>1 DEF Fresh, TableInv, Filled
      <4>3. QED
        BY <1>4, <2>5, <4>2 DEF BuildSlot
    <3>2. QED
      BY <2>2, <2>3, <2>4, <3>1, <1>a
  <2>6. CASE up[s]
    <3>1. shown' = [shown EXCEPT !.itf = Append(@, [slot |-> s, was |-> desc[s]])]
      BY <1>4, <2>6 DEF BuildSlot
    <3>2. Len(shown'.itf) = Len(shown.itf) + 1
          /\ shown'.itf[Len(shown.itf) + 1].slot = s
          /\ \A i \in 1 .. Len(shown.itf) : shown'.itf[i] = shown.itf[i]
      BY <3>1, AddEntry DEF TableInv, Typed
    <3>3. CASE j < s
      <4>1. j <= Len(shown.itf) /\ shown.itf[j].slot = j /\ j \in 1 .. Len(shown.itf)
        BY <2>2, <2>4, <3>3, <1>a
      <4>2. QED
        BY <3>2, <4>1, <1>a
    <3>4. CASE j = s
      <4>1. Len(shown.itf) = s - 1
        <5>1. CASE s = 1
          BY <2>1, <5>1, <1>a
        <5>2. CASE s > 1
          <6>1. s - 1 \in Slot /\ s - 1 <= early /\ s - 1 < s
            BY <2>2, <3>4, <5>2, <1>a
          <6>2. s - 1 <= Len(shown.itf)
            BY <2>4, <6>1
          <6>3. QED
            BY <2>1, <6>2, <1>a
        <5>3. QED
          BY <5>1, <5>2, <1>a
      <4>2. QED
        BY <3>2, <3>4, <4>1, <1>a
    <3>5. QED
      BY <2>3, <3>3, <3>4, <1>a
  <2>7. QED
    BY <2>5, <2>6
<1>5. CASE Attach
  <2>1. shown'.itf = shown.itf /\ pc0 = "attach" /\ pc0' = "idle" /\ has' = want
        /\ UNCHANGED <<plugged, mounts, swift, early>>
    BY <1>5, <1>a, Core0Leaves DEF Core0, Attach, Picture
  <2>2. Done' = Done /\ (Showing' <=> Showing) /\ (Fresh' <=> Fresh)
    BY <2>1 DEF Done, Showing, Fresh
  <2>3. QED
    BY <2>1, <2>2 DEF InPlace
<1>6. CASE UNCHANGED vars
  <2>1. UNCHANGED <<plugged, mounts, swift, early, pc0, adding, want, has, shown>>
    BY <1>6 DEF vars, pcVars, histVars
  <2>2. QED
    BY <2>1 DEF InPlace, Fresh, Showing, Done
<1>7. QED
    BY <1>1, <1>2, <1>3, <1>4, <1>5, <1>6 DEF Next, Core0

LEMMA InvNext == Inv /\ [Next]_vars => Inv'
<1>1. QED
    BY TableNext, PendingNext, AnnouncedNext, BuildingNext, GivenNext, InOrderNext, InPlaceNext
       DEF Inv

LEMMA PresenceInv == Spec => []Inv
<1>1. QED
    BY RestInit, InvNext, PTL DEF Spec

---------------------------------------------------------------------------
(* What the PC is shown *)

\* Whatever is attached is one device: vid, pid and interfaces are the same
\* key's, for any two of the keys that follow each other, in whatever order the
\* two cores run, and with an interface that mounts late; a key that came while
\* the last one was still shown is excepted.
THEOREM NeverTwoKeys == Spec => []OneDevice
<1>1. Inv => OneDevice
  <2> SUFFICES ASSUME Inv, shown.on, ~swift, NEW j \in 1 .. Len(shown.itf)
               PROVE  shown.itf[j].was[1] = shown.vid /\ shown.vid = shown.pid
    BY DEF OneDevice
  <2>1. pc0 = "idle" /\ shown.itf # <<>>
    <3>1. Len(shown.itf) # 0 /\ Len(<<>>) = 0
      BY SlotsAssumption
    <3>2. QED
      BY <3>1 DEF Inv, TableInv, Typed, Fits
  <2>2. shown.vid = vid /\ shown.pid = pid
    BY <2>1 DEF Inv, Building
  <2>3. shown.itf[j].was[1] = vid /\ vid = pid
    BY DEF Inv, Given, Stands
  <2>4. QED
    BY <2>2, <2>3
<1>2. QED
    BY <1>1, PresenceInv, PTL

\* The descriptors the PC was given pointers to stay as they were while it is
\* attached, though the key's other interfaces mount, late ones too, or the key
\* leaves and the next mounts; a key that came while the last one was still
\* shown is excepted.
THEOREM PointersStayGood == Spec => []NeverChangeUnderneath
<1>1. Inv => NeverChangeUnderneath
    BY DEF Inv, Given, Stands, NeverChangeUnderneath
<1>2. QED
    BY <1>1, PresenceInv, PTL

\* At rest a fresh key is shown: all that was there when it was announced, each
\* interface at the place of its slot, and perhaps more.
LEMMA RestShows ==
    ASSUME Inv, AtRest, AllMounted, plugged # None, ~swift
    PROVE  Shows(plugged)
<1>a. Slots \in Nat /\ Slots > 0 /\ Slot = 1 .. Slots /\ mounts \in Nat /\ early \in Nat
      /\ shown \in Picture /\ Len(shown.itf) \in Nat
    BY SlotsAssumption DEF Inv, TableInv, Typed, Types, Slot, Picture
<1>b. plugged \in Key /\ Width[plugged] \in Nat \ {0} /\ mounts = Width[plugged]
  <2>1. plugged \in Key
    BY DEF Inv, TableInv, Typed, Types, Identity
  <2>2. QED
    BY <2>1, KeyAssumption DEF AllMounted
<1>c. \A j \in 1 .. Len(shown.itf) : shown.itf[j].slot \in Slot /\ shown.itf[j] \in Entry
  <2>1. shown.itf \in Seq(Entry)
    BY <1>a DEF Picture
  <2>2. \A j \in 1 .. Len(shown.itf) : shown.itf[j] \in Entry
    BY <2>1
  <2>3. QED
    BY <2>2 DEF Entry
<1>1. Fresh /\ present /\ Showing /\ Done = Slots
  <2>1. Fresh
    BY <1>b DEF Fresh
  <2>2. present /\ has /\ pc0 = "idle"
    BY <2>1 DEF AtRest, Inv, Pending, Fresh
  <2>3. QED
    BY <2>1, <2>2 DEF Showing, Done
<1>2. early > 0 /\ early <= mounts
    BY <1>1 DEF Inv, Announced
<1>3. \A j \in 1 .. Fitting(early) : j <= Len(shown.itf) /\ shown.itf[j].slot = j
  <2>1. \A j \in 1 .. Fitting(early) : j \in Slot /\ j <= early /\ j <= Slots
    BY <1>a DEF Fitting
  <2>2. \A j \in Slot : j <= early /\ j <= Slots
            => j <= Len(shown.itf) /\ shown.itf[j].slot = j
    BY <1>1 DEF Inv, InPlace
  <2>3. QED
    BY <2>1, <2>2
<1>4. Fitting(early) \in Nat /\ Fitting(early) > 0 /\ Fitting(early) <= Len(shown.itf)
  <2>1. Fitting(early) \in Nat /\ Fitting(early) > 0
    BY <1>a, <1>2 DEF Fitting
  <2>2. QED
    BY <2>1, <1>3
<1>5. \A j \in 1 .. Len(shown.itf) :
         /\ shown.itf[j].was = <<plugged, shown.itf[j].slot>>
         /\ shown.itf[j].slot <= mounts
  <2> TAKE j \in 1 .. Len(shown.itf)
  <2>1. desc[shown.itf[j].slot] = shown.itf[j].was /\ up[shown.itf[j].slot]
    BY <1>1 DEF Inv, Given, Stands, Fresh
  <2>2. QED
    BY <2>1, <1>c DEF Inv, TableInv, Filled, Owner
<1>6. Len(shown.itf) <= Fitting(Width[plugged])
  <2>1. Len(shown.itf) \in 1 .. Len(shown.itf)
    BY <1>a, <1>4
  <2>2. Len(shown.itf) <= shown.itf[Len(shown.itf)].slot
    BY <2>1 DEF Inv, InOrder
  <2>3. Len(shown.itf) <= mounts /\ Len(shown.itf) <= Slots
    BY <2>1, <2>2, <1>5, <1>c, <1>a
  <2>4. QED
    BY <2>3, <1>b DEF Fitting
<1>7. shown.on /\ shown.vid = plugged /\ shown.pid = plugged /\ shown.itf # <<>>
  <2>1. shown.itf # <<>>
    BY <1>4, <1>a
  <2>2. shown.on /\ pc0 = "idle"
    BY DEF AtRest, Inv, TableInv, Typed, Fits
  <2>3. vid = plugged /\ pid = plugged
    BY <1>1 DEF Inv, Announced, TableInv, Ids, Fresh
  <2>4. QED
    BY <2>1, <2>2, <2>3 DEF Inv, Building
<1>8. \A j \in 1 .. Fitting(early) : shown.itf[j] = [slot |-> j, was |-> <<plugged, j>>]
  <2> TAKE j \in 1 .. Fitting(early)
  <2>1. j \in 1 .. Len(shown.itf) /\ shown.itf[j].slot = j
    BY <1>3, <1>4, <1>a
  <2>2. shown.itf[j].was = <<plugged, j>> /\ shown.itf[j] \in Entry
    BY <2>1, <1>5, <1>c
  <2>3. QED
    BY <2>1, <2>2 DEF Entry
<1>9. \A j \in 1 .. Len(shown.itf) : \A i \in 1 .. j - 1 :
         shown.itf[i].slot < shown.itf[j].slot
    BY DEF Inv, InOrder
<1>10. QED
    BY <1>4, <1>5, <1>6, <1>7, <1>8, <1>9 DEF Shows

\* "Adopt whatever is attached": once all is settled and core 0 has followed,
\* the PC is shown the key that is there, with every interface that had mounted
\* when it was announced, and no HID interface when there is none.  A key that
\* came while the last one was still shown is excepted.
THEOREM MirrorsTheKey == Spec => []MirrorsAtRest
<1>1. Inv => MirrorsAtRest
  <2> SUFFICES ASSUME Inv, AtRest, AllMounted
               PROVE  IF plugged = None THEN shown.itf = <<>> ELSE swift \/ Shows(plugged)
    BY DEF MirrorsAtRest
  <2>1. CASE plugged = None
    <3>1. ~present
      BY <2>1 DEF AtRest, Inv, Pending, TableInv, Phases
    <3>2. ~Showing
      BY <3>1 DEF AtRest, Showing, Inv, TableInv, Typed, Types
    <3>3. QED
      BY <2>1, <3>2 DEF Inv, Building
  <2>2. CASE plugged # None
    BY <2>2, RestShows
  <2>3. QED
    BY <2>1, <2>2
<1>2. QED
    BY <1>1, PresenceInv, PTL

\* At rest the count of clone failures is the number of the key's interfaces
\* that found no slot; what the PC lacks beyond them are interfaces that mounted
\* after the key had been announced, which nothing counts.  The second half
\* excepts a key that came while the last one was still shown.
THEOREM MissingIsCounted == Spec => []PartialIsCounted
<1>1. Inv => PartialIsCounted
  <2> SUFFICES ASSUME Inv, AtRest, AllMounted, plugged # None
               PROVE  /\ cloneErr = Width[plugged] - Fitting(Width[plugged])
                      /\ ~swift => LET missing == Width[plugged] - Len(shown.itf) IN
                            /\ cloneErr <= missing
                            /\ missing <= cloneErr + Fitting(Width[plugged]) - Fitting(early)
    BY DEF PartialIsCounted
  <2>a. Slots \in Nat /\ early \in Nat /\ shown \in Picture /\ Len(shown.itf) \in Nat
    BY SlotsAssumption DEF Inv, TableInv, Typed, Types, Picture
  <2>b. plugged \in Key /\ Width[plugged] \in Nat /\ mounts = Width[plugged]
    <3>1. plugged \in Key
      BY DEF Inv, TableInv, Typed, Types, Identity
    <3>2. QED
      BY <3>1, KeyAssumption DEF AllMounted
  <2>1. cloneErr = Width[plugged] - Fitting(Width[plugged])
    BY <2>a, <2>b DEF Inv, TableInv, Missing, Fitting
  <2>2. ASSUME ~swift
        PROVE  Len(shown.itf) <= Fitting(Width[plugged]) /\ Fitting(early) <= Len(shown.itf)
    BY <2>2, RestShows DEF Shows
  <2>3. Fitting(early) \in Nat /\ Fitting(Width[plugged]) \in Nat
    BY <2>a, <2>b DEF Fitting
  <2>4. QED
    BY <2>1, <2>2, <2>3, <2>a, <2>b
<1>2. QED
    BY <1>1, PresenceInv, PTL

=============================================================================
