--------------------------- MODULE OutPathProofs ---------------------------
(***************************************************************************)
(* Proofs about the PC -> key direction, for any number of interfaces,     *)
(* rings of any length and every choice of the times, in so far as         *)
(* OutPath's assumptions and the hypotheses below allow it.                *)
(***************************************************************************)
EXTENDS OutPath, FiniteSetTheorems, TLAPS

---------------------------------------------------------------------------
(* Types *)

Rings ==
    /\ log \in [Itf -> Seq(Kind)] /\ tail \in [Itf -> Nat]
    /\ \A i \in Itf : tail[i] <= Len(log[i]) /\ Len(log[i]) - tail[i] < N

\* A report being written has its slot.
Spin ==
    /\ \/ pc0 = "idle" /\ cur = {}
       \/ pc0 \in {"wait", "write"} /\ \E i \in Itf : \E k \in Sends[i] : cur = {<<i, k>>}
    /\ pc0 = "write" => \A c \in cur : Room(c[1])
    /\ waited \in 0 .. Block

\* No ring ever gets more than the PC has sent.
Sent ==
    /\ budget \in Nat
    /\ \A i \in Itf :
           /\ Len(log[i]) + budget <= Budget
           /\ pc0 # "idle" => Len(log[i]) + budget < Budget

Places == pc1 \in {Task, Services} \cup Itf

Flags ==
    /\ ticked \in BOOLEAN /\ passed \in BOOLEAN /\ alive \in BOOLEAN
    /\ settle \in BOOLEAN /\ flag \in BOOLEAN

Links == mounted \in [Itf -> BOOLEAN] /\ bound \in [Itf -> BOOLEAN]

\* Whatever is on its way to the key was popped before, and by the right pipe.
Transfers ==
    /\ \/ ctl = {} /\ ctlAge = 0
       \/ /\ \E i \in Itf : \E p \in 1 .. tail[i] :
                 ctl = {<<i, p>>} /\ ByControl(i, log[i][p])
          /\ ctlAge \in 0 .. XferMax
    /\ ep \in [Itf -> SUBSET Nat]
    /\ \A i \in Itf : \A p \in ep[i] : i \in OutEp /\ p \in 1 .. tail[i]

Times == hold \in [Itf -> 0 .. Erase] /\ erasing \in [Itf -> 0 .. EraseDev]

\* The key has taken nothing that was not popped, and what is on its way to it
\* is later than all of that.
Taken ==
    /\ taken \in [Pipe -> [Itf -> Nat]]
    /\ \A i \in Itf : \A q \in Pipe : taken[q][i] <= tail[i]
    /\ InFlightIsNew

---------------------------------------------------------------------------
(* The hold-off *)

\* An interface the host stack has closed has nothing under way.
Closed ==
    \A i \in Itf :
        /\ mounted[i] => bound[i]
        /\ ~bound[i] => erasing[i] = 0 /\ ep[i] = {} /\ \A c \in ctl : c[1] # i

\* What is left of the hold-off covers what is left of the erase, and before
\* that the erase and the transfer that starts it.
Covered ==
    /\ \A i \in Itf : erasing[i] > 0 =>
           /\ i \notin OutEp
           /\ mounted[i] => hold[i] >= erasing[i]
           /\ \A c \in ctl : c[1] # i
    /\ \A c \in ctl : alive /\ mounted[c[1]] /\ IsErase(c[1], log[c[1]][c[2]]) =>
           hold[c[1]] + ctlAge >= Erase

\* forward_out has dropped the hold-off of every interface that is down and
\* that it has come by since.
Dropped ==
    \A i \in Itf :
        ~mounted[i] /\ (pc1 = Task \/ (pc1 \in Itf /\ i < pc1)) => hold[i] = 0

---------------------------------------------------------------------------
(* The slot under the control transfer *)

\* VBUS is never cut from under the host stack, and no interface has FEATURE
\* reports beside an OUT endpoint.
OnePipeEach == ~MayCut /\ \A i \in OutEp : "feature" \notin Sends[i]

\* Nothing is popped from a ring a control transfer still reads from.
HeadInFlight ==
    /\ mounted = bound
    /\ \A c \in ctl : tail[c[1]] = c[2]
    /\ \A i \in Itf : \A p \in 1 .. Len(log[i]) : log[i][p] \in Sends[i]

---------------------------------------------------------------------------
(* The wait of a firmware block *)

\* Firmware goes to the first interface of a bootloader, which takes it by
\* SET_REPORT; the key stays attached and core 1 runs; and the wait covers a
\* hold-off and the transfer another interface may have begun before its end.
Flashing ==
    /\ \A i \in Itf : \A k \in Sends[i] : Big(k) => i = First /\ First \notin OutEp
    /\ Plugs = 0 /\ ~MayWedge
    /\ Grace >= 1
    /\ Block > Erase + XferMax /\ Block > 1

Attached == alive /\ plugs = 0 /\ ~settle /\ \A i \in Itf : mounted[i] /\ bound[i]

\* Core 1's tick is seen in the first pass after a unit of time.
TickSeen ==
    pc0 = "wait" =>
        /\ waited >= 2 => ticked
        /\ waited >= 1 /\ (passed \/ pc1 # Task) => ticked

\* Core 1 comes by the first interface before the unit of time can end.
FirstIsNext == pc1 \in {Services, First} \/ (pc1 = Task /\ ~passed)

\* Only firmware waits.
OnlyBigWaits == pc0 = "wait" => \A c \in cur : Big(c[2])

\* How long a block can have waited: no longer than a hold-off has run, then
\* than the transfer that was under way when it ended.
WaitBounded ==
    pc0 = "wait" =>
        /\ waited <= 1 \/ waited <= Erase + XferMax
        /\ ~Room(First) =>
               /\ hold[First] > 0 => waited + hold[First] <= Erase
               /\ hold[First] = 0 /\ ctl # {} => waited = 0 \/ waited <= Erase + ctlAge
               /\ waited > 0 /\ hold[First] = 0 /\ ctl = {} => FirstIsNext

---------------------------------------------------------------------------
(* Interfaces, and who changes what *)

\* The interfaces are numbered from First = 0 to Last without a gap.
LEMMA Ends ==
    /\ First \in Itf /\ Last \in Itf /\ Itf \subseteq Nat
    /\ \A i \in Itf : First <= i /\ i <= Last /\ (i # Last => i + 1 \in Itf)
    /\ Task \notin Itf /\ Services \notin Itf /\ Task # Services
<1>1. PICK n \in Nat : Itf = 0 .. n
    BY ItfAssumption
<1>2. 0 \in Itf /\ n \in Itf /\ \A i \in Itf : 0 <= i /\ i <= n
    BY <1>1
<1>3. First \in Itf /\ \A j \in Itf : First <= j
    BY <1>2 DEF First
<1>4. Last \in Itf /\ \A j \in Itf : Last >= j
    BY <1>1, <1>2 DEF Last
<1>5. Last = n
    BY <1>1, <1>2, <1>4
<1>6. QED
    BY <1>1, <1>3, <1>4, <1>5 DEF Task, Services

\* A step is one of the interrupt, one of core 1, or the passing of time.
LEMMA ThunkKeeps ==
    ASSUME NEW i \in Itf, NEW k \in Kind, Thunk(i, k)
    PROVE  UNCHANGED core1Vars
BY DEF Thunk, Receive, WaitRoom, WaitGiveUp, Commit

LEMMA Core1Keeps ==
    ASSUME NEW i \in Itf, Core1(i)
    PROVE  UNCHANGED core0Vars
<1>1. CASE TaskNothing \/ Unplug \/ Mount(i)
    BY <1>1 DEF TaskNothing, Unplug, Mount
<1>2. CASE \E p \in 1 .. Budget : ControlDone(i, p) \/ InterruptDone(i, p)
    BY <1>2 DEF ControlDone, InterruptDone
<1>3. CASE ServicesNothing \/ PowerOff \/ LinkService \/ Wedge
    BY <1>3 DEF ServicesNothing, PowerOff, LinkService, Wedge
<1>4. CASE ForwardNext(i) \/ ForwardDiscard(i) \/ ForwardSend(i)
    BY <1>4 DEF ForwardNext, ForwardDiscard, ForwardSend
<1>5. QED
    BY <1>1, <1>2, <1>3, <1>4 DEF Core1

\* What core 1 pops: nothing, one report, or all there is.
Popped(i) == Queued(i) /\ tail' = [tail EXCEPT ![i] = @ + 1]
Flushed == tail' = [i \in Itf |-> Len(log[i])]

LEMMA Core1Pops ==
    ASSUME NEW i \in Itf, Core1(i)
    PROVE  \/ UNCHANGED tail
           \/ Popped(i) /\ (ForwardDiscard(i) \/ ForwardSend(i))
           \/ Flushed /\ (PowerOff \/ LinkService)
<1>1. CASE TaskNothing \/ Unplug \/ Mount(i)
    BY <1>1 DEF TaskNothing, Unplug, Mount
<1>2. CASE \E p \in 1 .. Budget : ControlDone(i, p) \/ InterruptDone(i, p)
    BY <1>2 DEF ControlDone, InterruptDone
<1>3. CASE ServicesNothing \/ PowerOff \/ LinkService \/ Wedge
    BY <1>3 DEF ServicesNothing, PowerOff, LinkService, Wedge, FlushAll, Flushed
<1>4. CASE ForwardNext(i)
    BY <1>4 DEF ForwardNext
<1>5. CASE ForwardDiscard(i)
    BY <1>5 DEF ForwardDiscard, MustDiscard, Popped
<1>6. CASE ForwardSend(i)
    BY <1>6 DEF ForwardSend, CanSend, Popped
<1>7. QED
    BY <1>1, <1>2, <1>3, <1>4, <1>5, <1>6 DEF Core1

\* A commit appends to one ring and leaves what was there alone.
LEMMA Grown ==
    ASSUME Rings, NEW i \in Itf, NEW k \in Kind, Commit(i, k)
    PROVE  /\ log' \in [Itf -> Seq(Kind)]
           /\ Len(log'[i]) = Len(log[i]) + 1 /\ log'[i][Len(log[i]) + 1] = k
           /\ \A j \in Itf : j # i => log'[j] = log[j]
           /\ \A p \in 1 .. Len(log[i]) : log'[i][p] = log[i][p]
<1>1. log \in [Itf -> Seq(Kind)] /\ log' = [log EXCEPT ![i] = Append(log[i], k)]
    BY DEF Rings, Commit
<1>2. log'[i] = Append(log[i], k) /\ \A j \in Itf : j # i => log'[j] = log[j]
    BY <1>1
<1>3. log[i] \in Seq(Kind) /\ Append(log[i], k) \in Seq(Kind)
    BY <1>1
<1>4. QED
    BY <1>1, <1>2, <1>3

---------------------------------------------------------------------------
(* Type correctness *)

\* Popping shortens every ring, and never by more than it holds.
LEMMA PopShortens ==
    ASSUME Rings, NEW i \in Itf, Core1(i)
    PROVE  /\ tail' \in [Itf -> Nat] /\ log' = log
           /\ \A j \in Itf : tail[j] <= tail'[j] /\ tail'[j] <= Len(log[j])
<1>1. log' = log
    BY Core1Keeps DEF core0Vars
<1>2. \A j \in Itf : Len(log[j]) \in Nat /\ tail[j] \in Nat /\ tail[j] <= Len(log[j])
    BY DEF Rings
<1>3. CASE UNCHANGED tail
    BY <1>1, <1>2, <1>3 DEF Rings
<1>4. CASE Popped(i)
    BY <1>1, <1>2, <1>4 DEF Rings, Popped, Queued
<1>5. CASE Flushed
    BY <1>1, <1>2, <1>5 DEF Flushed
<1>6. QED
    BY <1>3, <1>4, <1>5, Core1Pops

LEMMA RingsNext == Rings /\ Spin /\ Next => Rings'
<1> SUFFICES ASSUME Rings, Spin, Next PROVE Rings'
    OBVIOUS
<1>0. N \in Nat /\ \A j \in Itf : Len(log[j]) \in Nat /\ tail[j] \in Nat
    BY RingAssumption DEF Rings
<1>1. ASSUME NEW i \in Itf, NEW k \in Kind, Commit(i, k) PROVE Rings'
  <2>1. tail' = tail /\ <<i, k>> \in cur /\ Room(i)
    BY <1>1 DEF Commit, core1Vars, Spin
  <2>2. Len(log'[i]) = Len(log[i]) + 1 /\ \A j \in Itf : j # i => log'[j] = log[j]
    BY <1>1, Grown
  <2>3. tail[i] <= Len(log'[i]) /\ Len(log'[i]) - tail[i] < N
    BY <1>0, <2>1, <2>2 DEF Rings, Room
  <2>4. \A j \in Itf : tail[j] <= Len(log'[j]) /\ Len(log'[j]) - tail[j] < N
    BY <2>2, <2>3 DEF Rings
  <2>5. QED
    BY <1>1, <2>1, <2>4, Grown DEF Rings
<1>2. ASSUME NEW i \in Itf, NEW k \in Kind, Thunk(i, k), ~Commit(i, k) PROVE Rings'
  <2>1. log' = log /\ tail' = tail
    BY <1>2, ThunkKeeps DEF Thunk, Receive, WaitRoom, WaitGiveUp, core1Vars
  <2>2. QED
    BY <2>1 DEF Rings
<1>3. ASSUME NEW i \in Itf, Core1(i) PROVE Rings'
    BY <1>0, <1>3, PopShortens DEF Rings
<1>4. CASE Tick
    BY <1>4 DEF Tick, Rings
<1>5. QED
    BY <1>1, <1>2, <1>3, <1>4 DEF Next

LEMMA SpinNext == Rings /\ Spin /\ Next => Spin'
<1> SUFFICES ASSUME Rings, Spin, Next PROVE Spin'
    OBVIOUS
<1>0. N \in Nat /\ Block \in Nat /\ \A j \in Itf : Len(log[j]) \in Nat /\ tail[j] \in Nat
    BY RingAssumption, TimeAssumption DEF Rings
<1>1. ASSUME NEW i \in Itf, NEW k \in Kind, Receive(i, k) PROVE Spin'
    BY <1>0, <1>1 DEF Receive, Spin, Room, core1Vars
<1>2. ASSUME NEW i \in Itf, NEW k \in Kind, WaitRoom(i, k) PROVE Spin'
    BY <1>2 DEF WaitRoom, Spin, Room, core1Vars
<1>3. ASSUME NEW i \in Itf, NEW k \in Kind, WaitGiveUp(i, k) \/ Commit(i, k) PROVE Spin'
    BY <1>0, <1>3 DEF WaitGiveUp, Commit, Spin
<1>4. ASSUME NEW i \in Itf, Core1(i) PROVE Spin'
  <2>1. UNCHANGED <<pc0, cur, waited, log>>
    BY <1>4, Core1Keeps DEF core0Vars
  <2>2. \A j \in Itf : Room(j) => Room(j)'
    BY <1>0, <1>4, PopShortens DEF Room
  <2>3. \A c \in cur : c[1] \in Itf
    BY DEF Spin
  <2>4. QED
    BY <2>1, <2>2, <2>3 DEF Spin
<1>5. CASE Tick
  <2>1. UNCHANGED <<pc0, cur, log, tail>> /\ pc0 # "write"
    BY <1>5 DEF Tick, ThunkSettled
  <2>2. pc0 = "wait" => waited < Block
    <3> SUFFICES ASSUME pc0 = "wait" PROVE waited < Block
      OBVIOUS
    <3>1. cur # {}
      BY DEF Spin
    <3>2. ~WaitOver
      BY <1>5, <3>1 DEF Tick, ThunkSettled
    <3>3. QED
      BY <1>0, <3>2 DEF WaitOver, Spin
  <2>3. waited' \in 0 .. Block
    BY <1>0, <1>5, <2>2 DEF Tick, Spin
  <2>4. QED
    BY <2>1, <2>3 DEF Spin
<1>6. QED
    BY <1>1, <1>2, <1>3, <1>4, <1>5 DEF Next, Thunk

LEMMA SentNext == Rings /\ Spin /\ Sent /\ Next => Sent'
<1> SUFFICES ASSUME Rings, Spin, Sent, Next PROVE Sent'
    OBVIOUS
<1>0. /\ Budget \in Nat /\ budget \in Nat
      /\ \A j \in Itf : Len(log[j]) \in Nat
    BY BoundsAssumption DEF Rings, Sent
<1>1. ASSUME NEW i \in Itf, NEW k \in Kind, Receive(i, k) PROVE Sent'
  <2>1. log' = log /\ budget' = budget - 1 /\ budget > 0 /\ pc0 = "idle"
    BY <1>1 DEF Receive
  <2>2. QED
    BY <1>0, <2>1 DEF Sent
<1>2. ASSUME NEW i \in Itf, NEW k \in Kind, WaitRoom(i, k) \/ WaitGiveUp(i, k)
      PROVE  Sent'
  <2>1. log' = log /\ budget' = budget /\ pc0 = "wait"
    BY <1>2 DEF WaitRoom, WaitGiveUp
  <2>2. QED
    BY <1>0, <2>1 DEF Sent
<1>3. ASSUME NEW i \in Itf, NEW k \in Kind, Commit(i, k) PROVE Sent'
    BY <1>0, <1>3, Grown DEF Commit, Sent
<1>4. ASSUME NEW i \in Itf, Core1(i) PROVE Sent'
    BY <1>4, Core1Keeps DEF core0Vars, Sent
<1>5. CASE Tick
    BY <1>5 DEF Tick, Sent
<1>6. QED
    BY <1>1, <1>2, <1>3, <1>4, <1>5 DEF Next, Thunk

\* Where a pass goes from each of its steps.
LEMMA PassGoes ==
    ASSUME NEW i \in Itf, Core1(i)
    PROVE  \/ StartPass /\ pc1' = Services /\ UNCHANGED passed
           \/ ServicesDone /\ pc1' = First /\ UNCHANGED passed
           \/ Forwarding(i) /\ UNCHANGED <<pc1, passed>>
           \/ Forwarding(i) /\ NextItf(i)
           \/ Wedge /\ UNCHANGED <<pc1, passed>>
<1>1. CASE TaskNothing \/ Unplug \/ Mount(i)
    BY <1>1 DEF TaskNothing, Unplug, Mount, StartPass
<1>2. CASE \E p \in 1 .. Budget : ControlDone(i, p) \/ InterruptDone(i, p)
    BY <1>2 DEF ControlDone, InterruptDone, StartPass
<1>3. CASE ServicesNothing \/ PowerOff \/ LinkService \/ Wedge
    BY <1>3 DEF ServicesNothing, PowerOff, LinkService, Wedge, ServicesDone
<1>4. CASE ForwardNext(i) \/ ForwardDiscard(i)
    BY <1>4 DEF ForwardNext, ForwardDiscard
<1>5. CASE ForwardSend(i)
    BY <1>5 DEF ForwardSend
<1>6. QED
    BY <1>1, <1>2, <1>3, <1>4, <1>5 DEF Core1

LEMMA PlacesNext == Places /\ Next => Places'
<1> SUFFICES ASSUME Places, Next PROVE Places'
    OBVIOUS
<1>1. ASSUME NEW i \in Itf, NEW k \in Kind, Thunk(i, k) PROVE Places'
    BY <1>1, ThunkKeeps DEF core1Vars, Places
<1>2. ASSUME NEW i \in Itf, Core1(i) PROVE Places'
    BY <1>2, PassGoes, Ends DEF Places, NextItf
<1>3. CASE Tick
    BY <1>3 DEF Tick, Places
<1>4. QED
    BY <1>1, <1>2, <1>3 DEF Next

LEMMA FlagsNext == Flags /\ Next => Flags'
<1> SUFFICES ASSUME Flags, Next PROVE Flags'
    OBVIOUS
<1>1. ASSUME NEW i \in Itf, NEW k \in Kind, Thunk(i, k) PROVE Flags'
    BY <1>1 DEF Thunk, Receive, WaitRoom, WaitGiveUp, Commit, DropReport, core1Vars,
       linkVars, Flags
<1>2. ASSUME NEW i \in Itf, Core1(i) PROVE Flags'
  <2>1. CASE TaskNothing \/ Unplug \/ Mount(i)
    BY <2>1 DEF TaskNothing, Unplug, Mount, StartPass, linkVars, lossVars, Flags
  <2>2. CASE \E p \in 1 .. Budget : ControlDone(i, p) \/ InterruptDone(i, p)
    BY <2>2 DEF ControlDone, InterruptDone, StartPass, linkVars, lossVars, Flags
  <2>3. CASE ServicesNothing \/ PowerOff \/ LinkService \/ Wedge
    BY <2>3 DEF ServicesNothing, PowerOff, LinkService, Wedge, linkVars, lossVars, Flags
  <2>4. CASE ForwardNext(i) \/ ForwardDiscard(i) \/ ForwardSend(i)
    <3>1. passed' = passed \/ passed' = TRUE
      BY <2>4 DEF ForwardNext, ForwardDiscard, ForwardSend, NextItf
    <3>2. UNCHANGED <<ticked, alive, settle, flag>>
      BY <2>4 DEF ForwardNext, ForwardDiscard, ForwardSend, linkVars, lossVars
    <3>3. QED
      BY <3>1, <3>2 DEF Flags
  <2>5. QED
    BY <1>2, <2>1, <2>2, <2>3, <2>4 DEF Core1
<1>3. CASE Tick
    BY <1>3 DEF Tick, linkVars, lossVars, Flags
<1>4. QED
    BY <1>1, <1>2, <1>3 DEF Next

\* What becomes of the links: a key that goes, one that comes, a cut of VBUS.
LEMMA LinkGoes ==
    ASSUME NEW i \in Itf, Core1(i)
    PROVE  \/ UNCHANGED <<mounted, bound>> \/ Unplug \/ Mount(i) \/ PowerOff
<1>1. CASE \E p \in 1 .. Budget : ControlDone(i, p) \/ InterruptDone(i, p)
    BY <1>1 DEF ControlDone, InterruptDone, linkVars
<1>2. CASE TaskNothing \/ ServicesNothing \/ LinkService \/ Wedge
    BY <1>2 DEF TaskNothing, ServicesNothing, LinkService, Wedge, linkVars
<1>3. CASE ForwardNext(i) \/ ForwardDiscard(i) \/ ForwardSend(i)
    BY <1>3 DEF ForwardNext, ForwardDiscard, ForwardSend, linkVars
<1>4. QED
    BY <1>1, <1>2, <1>3 DEF Core1

LEMMA LinksNext == Links /\ Next => Links'
<1> SUFFICES ASSUME Links, Next PROVE Links'
    OBVIOUS
<1>1. ASSUME NEW i \in Itf, NEW k \in Kind, Thunk(i, k) PROVE Links'
    BY <1>1, ThunkKeeps DEF core1Vars, linkVars, Links
<1>2. ASSUME NEW i \in Itf, Core1(i) PROVE Links'
    BY <1>2, LinkGoes DEF Unplug, Mount, PowerOff, Links
<1>3. CASE Tick
    BY <1>3 DEF Tick, linkVars, Links
<1>4. QED
    BY <1>1, <1>2, <1>3 DEF Next

\* What becomes of the transfers.
LEMMA TransferGoes ==
    ASSUME NEW i \in Itf, Core1(i)
    PROVE  \/ UNCHANGED <<ctl, ctlAge, ep, erasing, taken>>
           \/ \E p \in 1 .. Budget : ControlDone(i, p) \/ InterruptDone(i, p)
           \/ Unplug \/ ForwardSend(i)
<1>1. CASE TaskNothing \/ Mount(i)
    BY <1>1 DEF TaskNothing, Mount, xferVars, lossVars
<1>2. CASE ServicesNothing \/ PowerOff \/ LinkService \/ Wedge
    BY <1>2 DEF ServicesNothing, PowerOff, LinkService, Wedge, xferVars, lossVars
<1>3. CASE ForwardNext(i) \/ ForwardDiscard(i)
    BY <1>3 DEF ForwardNext, ForwardDiscard, xferVars, lossVars
<1>4. QED
    BY <1>1, <1>2, <1>3 DEF Core1

\* A report that is sent leaves the ring for the pipe that is free for it.
LEMMA SendGoes ==
    ASSUME Rings, NEW i \in Itf, ForwardSend(i)
    PROVE  LET p == tail[i] + 1
               k == log[i][p]
           IN  /\ p \in 1 .. Len(log[i]) /\ k \in Kind
               /\ mounted[i] /\ hold[i] = 0 /\ pc1 = i
               /\ tail' = [tail EXCEPT ![i] = p] /\ log' = log
               /\ UNCHANGED <<linkVars, ctlAge, erasing, taken, alive>>
               /\ \/ /\ ByControl(i, k) /\ ctl = {} /\ ctl' = {<<i, p>>} /\ ep' = ep
                  \/ /\ i \in OutEp /\ ~Big(k) /\ ~ByControl(i, k) /\ ctl' = ctl
                     /\ ep[i] = {} /\ ep' = [ep EXCEPT ![i] = {p}]
               /\ hold' = IF IsErase(i, k) THEN [hold EXCEPT ![i] = Erase] ELSE hold
<1> DEFINE p == tail[i] + 1
           k == log[i][p]
<1>1. log[i] \in Seq(Kind) /\ Len(log[i]) \in Nat /\ tail[i] \in Nat
    BY DEF Rings
<1>2. p \in 1 .. Len(log[i])
    BY <1>1 DEF ForwardSend, CanSend, Queued
<1>3. k \in Kind
    BY <1>1, <1>2
<1>4. mounted[i] /\ hold[i] = 0 /\ pc1 = i
    BY DEF ForwardSend, CanSend, Forwarding
<1>5. IF ByControl(i, k) THEN ctl = {} ELSE ep[i] = {} /\ ~Big(k)
    BY DEF ForwardSend, CanSend, Accepted
<1>6. ~ByControl(i, k) => i \in OutEp
    BY DEF ByControl
<1>7. /\ tail' = [tail EXCEPT ![i] = p]
      /\ IF ByControl(i, k) THEN ctl' = {<<i, p>>} /\ ep' = ep
                            ELSE ep' = [ep EXCEPT ![i] = {p}] /\ ctl' = ctl
      /\ IF IsErase(i, k) THEN hold' = [hold EXCEPT ![i] = Erase] ELSE hold' = hold
    BY DEF ForwardSend
<1>8. log' = log /\ UNCHANGED <<linkVars, ctlAge, erasing, taken, alive>>
    BY DEF ForwardSend, core0Vars
<1> HIDE DEF p, k
<1>9. QED
    BY <1>2, <1>3, <1>4, <1>5, <1>6, <1>7, <1>8 DEF p, k

\* The rings before a step are the first part of the rings after it.
LEMMA RingsGrow ==
    ASSUME Rings, Spin, Next
    PROVE  \A j \in Itf :
               /\ tail[j] \in Nat /\ tail[j] <= Len(log[j]) /\ Len(log[j]) \in Nat
               /\ tail'[j] \in Nat /\ tail[j] <= tail'[j]
               /\ \A p \in 1 .. Len(log[j]) : log'[j][p] = log[j][p]
<1>0. \A j \in Itf : tail[j] \in Nat /\ tail[j] <= Len(log[j]) /\ Len(log[j]) \in Nat
    BY DEF Rings
<1>1. ASSUME NEW i \in Itf, NEW k \in Kind, Thunk(i, k)
      PROVE  /\ tail' = tail
             /\ \A j \in Itf : \A p \in 1 .. Len(log[j]) : log'[j][p] = log[j][p]
  <2>1. tail' = tail
    BY <1>1, ThunkKeeps DEF core1Vars
  <2>2. Commit(i, k) \/ log' = log
    BY <1>1 DEF Thunk, Receive, WaitRoom, WaitGiveUp
  <2>3. QED
    BY <2>1, <2>2, Grown
<1>2. ASSUME NEW i \in Itf, Core1(i)
      PROVE  /\ log' = log
             /\ \A j \in Itf : tail'[j] \in Nat /\ tail[j] <= tail'[j]
    BY <1>2, PopShortens
<1>3. CASE Tick
    BY <1>0, <1>3 DEF Tick
<1>4. QED
    BY <1>0, <1>1, <1>2, <1>3 DEF Next

\* A control transfer is of a report that was popped and goes by that pipe.
CtlOf(i, p) == ctl = {<<i, p>>} /\ ByControl(i, log[i][p])

LEMMA TransfersNext == Rings /\ Spin /\ Transfers /\ Next => Transfers'
<1> SUFFICES ASSUME Rings, Spin, Transfers, Next PROVE Transfers'
    OBVIOUS
<1>0. XferMax \in Nat /\ 0 \in 0 .. XferMax
    BY TimeAssumption
<1>1. \A j \in Itf : \A p \in 1 .. tail[j] :
          p \in 1 .. tail'[j] /\ log'[j][p] = log[j][p]
    BY RingsGrow
<1>2. CASE UNCHANGED <<ctl, ep>> /\ (ctlAge' = ctlAge \/ (ctl # {} /\ ctlAge' \in 0 .. XferMax))
    BY <1>1, <1>2 DEF Transfers, ByControl
<1>3. ASSUME NEW i \in Itf, NEW k \in Kind, Thunk(i, k)
      PROVE  UNCHANGED <<ctl, ep, ctlAge>>
    BY <1>3, ThunkKeeps DEF core1Vars, xferVars
<1>4. ASSUME NEW i \in Itf, NEW p \in 1 .. Budget, ControlDone(i, p) PROVE Transfers'
    BY <1>1, <1>4 DEF ControlDone, Transfers
<1>5. ASSUME NEW i \in Itf, NEW p \in 1 .. Budget, InterruptDone(i, p) PROVE Transfers'
  <2>1. UNCHANGED <<ctl, ctlAge>> /\ ep' = [ep EXCEPT ![i] = {}]
    BY <1>5 DEF InterruptDone
  <2>2. ep' \in [Itf -> SUBSET Nat] /\ \A j \in Itf : ep'[j] \subseteq ep[j]
    BY <2>1 DEF Transfers
  <2>3. QED
    BY <1>1, <2>1, <2>2 DEF Transfers, ByControl
<1>6. CASE Unplug
  <2>1. ctl' = {} /\ ctlAge' = 0 /\ ep' = [i \in Itf |-> {}]
    BY <1>6 DEF Unplug
  <2>2. QED
    BY <2>1 DEF Transfers
<1>7. ASSUME NEW i \in Itf, ForwardSend(i) PROVE Transfers'
  <2> DEFINE p == tail[i] + 1
             k == log[i][p]
  <2>1. /\ p \in 1 .. Len(log[i]) /\ tail' = [tail EXCEPT ![i] = p] /\ log' = log
        /\ ctlAge' = ctlAge
        /\ \/ ByControl(i, k) /\ ctl = {} /\ ctl' = {<<i, p>>} /\ ep' = ep
           \/ i \in OutEp /\ ctl' = ctl /\ ep' = [ep EXCEPT ![i] = {p}]
    BY <1>7, SendGoes
  <2>2. p \in 1 .. tail'[i] /\ p \in Nat
    BY <2>1 DEF Rings
  <2>3. CASE ByControl(i, k) /\ ctl = {} /\ ctl' = {<<i, p>>} /\ ep' = ep
    BY <1>0, <1>1, <2>1, <2>2, <2>3 DEF Transfers
  <2>4. CASE i \in OutEp /\ ctl' = ctl /\ ep' = [ep EXCEPT ![i] = {p}]
    BY <1>1, <2>1, <2>2, <2>4 DEF Transfers, ByControl
  <2>5. QED
    BY <2>1, <2>3, <2>4
<1>8. CASE Tick
  <2>1. UNCHANGED <<ctl, ep>>
    BY <1>8 DEF Tick
  <2>2. ctlAge' = ctlAge \/ (ctl # {} /\ alive /\ ctlAge' = ctlAge + 1)
    BY <1>8 DEF Tick
  <2>3. alive /\ ctl # {} => ctlAge < XferMax
    BY <1>8 DEF Tick, Core1Settled
  <2>4. ctl # {} => ctlAge \in 0 .. XferMax
    BY DEF Transfers
  <2>5. QED
    BY <1>0, <1>2, <2>1, <2>2, <2>3, <2>4
<1>9. QED
    BY <1>2, <1>3, <1>4, <1>5, <1>6, <1>7, <1>8, TransferGoes DEF Next

LEMMA TimesNext == Rings /\ Times /\ Next => Times'
<1> SUFFICES ASSUME Rings, Times, Next PROVE Times'
    OBVIOUS
<1>0. Erase \in Nat /\ EraseDev \in Nat /\ 0 \in 0 .. Erase /\ 0 \in 0 .. EraseDev
    BY TimeAssumption
<1>1. ASSUME NEW i \in Itf, NEW k \in Kind, Thunk(i, k) PROVE Times'
    BY <1>1, ThunkKeeps DEF core1Vars, xferVars, Times
<1>2. ASSUME NEW i \in Itf, Core1(i)
      PROVE  \/ hold' = hold \/ hold' = [hold EXCEPT ![i] = 0]
             \/ hold' = [hold EXCEPT ![i] = Erase]
  <2>1. CASE TaskNothing \/ Unplug \/ Mount(i)
    BY <2>1 DEF TaskNothing, Unplug, Mount
  <2>2. CASE \E p \in 1 .. Budget : ControlDone(i, p) \/ InterruptDone(i, p)
    BY <2>2 DEF ControlDone, InterruptDone
  <2>3. CASE ServicesNothing \/ PowerOff \/ LinkService \/ Wedge
    BY <2>3 DEF ServicesNothing, PowerOff, LinkService, Wedge
  <2>4. CASE ForwardNext(i)
    BY <2>4 DEF ForwardNext, Times
  <2>5. CASE ForwardDiscard(i)
    BY <2>5 DEF ForwardDiscard
  <2>6. CASE ForwardSend(i)
    BY <2>6 DEF ForwardSend
  <2>7. QED
    BY <1>2, <2>1, <2>2, <2>3, <2>4, <2>5, <2>6 DEF Core1
<1>3. ASSUME NEW i \in Itf, Core1(i) PROVE erasing' \in [Itf -> 0 .. EraseDev]
  <2>1. CASE UNCHANGED erasing
    BY <2>1 DEF Times
  <2>2. ASSUME NEW p \in 1 .. Budget, ControlDone(i, p) PROVE erasing' \in [Itf -> 0 .. EraseDev]
    BY <1>0, <2>2 DEF ControlDone, Times
  <2>3. CASE Unplug
    BY <1>0, <2>3 DEF Unplug
  <2>4. QED
    BY <1>3, <2>1, <2>2, <2>3, TransferGoes, SendGoes DEF InterruptDone
<1>4. CASE Tick
  <2>1. \A e \in Nat : \A t \in 0 .. e : Less(t) \in 0 .. e
    BY DEF Less
  <2>2. QED
    BY <1>0, <1>4, <2>1 DEF Tick, Times
<1>5. QED
    BY <1>0, <1>1, <1>2, <1>3, <1>4 DEF Next, Times

LEMMA TakenNext == Rings /\ Spin /\ Transfers /\ Taken /\ Next => Taken'
<1> SUFFICES ASSUME Rings, Spin, Transfers, Taken, Next PROVE Taken'
    OBVIOUS
<1> DEFINE Upto(tk, tl) == \A j \in Itf : \A q \in Pipe : tk[q][j] <= tl[j]
<1>0. /\ \A j \in Itf : tail[j] \in Nat /\ tail'[j] \in Nat /\ tail[j] <= tail'[j]
      /\ taken \in [Pipe -> [Itf -> Nat]] /\ Upto(taken, tail)
    BY RingsGrow DEF Taken
<1>1. CASE taken' = taken /\ UNCHANGED <<ctl, ep>>
  <2>1. Upto(taken', tail')
    BY <1>0, <1>1
  <2>2. QED
    BY <1>0, <1>1, <2>1 DEF Taken, InFlightIsNew
<1>2. ASSUME NEW i \in Itf, NEW p \in 1 .. Budget, ControlDone(i, p) PROVE Taken'
  <2>1. p \in 1 .. tail[i] /\ ctl' = {} /\ UNCHANGED <<ep, tail>>
    BY <1>2 DEF ControlDone, Transfers
  <2>2. taken' = taken \/ taken' = [taken EXCEPT !["control"] = [@ EXCEPT ![i] = p]]
    BY <1>2 DEF ControlDone
  <2>3. taken' \in [Pipe -> [Itf -> Nat]] /\ taken'["interrupt"] = taken["interrupt"]
    BY <1>0, <2>1, <2>2 DEF Pipe
  <2>4. Upto(taken', tail')
    BY <1>0, <2>1, <2>2 DEF Pipe
  <2>5. QED
    BY <2>1, <2>3, <2>4 DEF Taken, InFlightIsNew
<1>3. ASSUME NEW i \in Itf, NEW p \in 1 .. Budget, InterruptDone(i, p) PROVE Taken'
  <2>1. /\ p \in 1 .. tail[i] /\ UNCHANGED <<ctl, tail>>
        /\ ep' = [ep EXCEPT ![i] = {}] /\ ep \in [Itf -> SUBSET Nat]
    BY <1>3 DEF InterruptDone, Transfers
  <2>2. taken' = [taken EXCEPT !["interrupt"] = [@ EXCEPT ![i] = p]]
    BY <1>3 DEF InterruptDone
  <2>3. /\ taken' \in [Pipe -> [Itf -> Nat]] /\ taken'["control"] = taken["control"]
        /\ \A j \in Itf : j # i => taken'["interrupt"][j] = taken["interrupt"][j]
    BY <1>0, <2>1, <2>2 DEF Pipe
  <2>4. Upto(taken', tail')
    BY <1>0, <2>1, <2>2 DEF Pipe
  <2>5. ep'[i] = {} /\ \A j \in Itf : j # i => ep'[j] = ep[j]
    BY <2>1
  <2>6. QED
    BY <2>1, <2>3, <2>4, <2>5 DEF Taken, InFlightIsNew
<1>4. CASE Unplug
  <2>1. taken' = taken /\ ctl' = {} /\ ep' = [j \in Itf |-> {}] /\ tail' = tail
    BY <1>4 DEF Unplug, lossVars
  <2>2. QED
    BY <1>0, <2>1 DEF Taken, InFlightIsNew
<1>5. ASSUME NEW i \in Itf, ForwardSend(i) PROVE Taken'
  <2> DEFINE p == tail[i] + 1
  <2>1. /\ taken' = taken /\ p \in Nat
        /\ \/ ctl' = {<<i, p>>} /\ ep' = ep
           \/ ctl' = ctl /\ ep' = [ep EXCEPT ![i] = {p}]
    BY <1>0, <1>5, SendGoes
  <2>2. taken["control"][i] < p /\ taken["interrupt"][i] < p
    BY <1>0 DEF Pipe
  <2>3. Upto(taken', tail')
    BY <1>0, <2>1
  <2>4. ep \in [Itf -> SUBSET Nat]
    BY DEF Transfers
  <2> HIDE DEF p
  <2>5. InFlightIsNew'
    BY <2>1, <2>2, <2>4 DEF Taken, InFlightIsNew
  <2>6. QED
    BY <1>0, <2>1, <2>3, <2>5 DEF Taken
<1>6. ASSUME NEW i \in Itf, NEW k \in Kind, Thunk(i, k) PROVE taken' = taken /\ UNCHANGED <<ctl, ep>>
    BY <1>6, ThunkKeeps DEF core1Vars, xferVars
<1>7. Tick => taken' = taken /\ UNCHANGED <<ctl, ep>>
    BY DEF Tick, lossVars
<1>8. QED
    BY <1>1, <1>2, <1>3, <1>4, <1>5, <1>6, <1>7, TransferGoes DEF Next

\* The inductive invariant of the types.
Types ==
    Rings /\ Spin /\ Sent /\ Places /\ Flags /\ Links /\ Transfers /\ Times /\ Taken

LEMMA TypesInit == Init => Types
<1> SUFFICES ASSUME Init PROVE Types
    OBVIOUS
<1>0. /\ N \in Nat /\ N >= 2 /\ Budget \in Nat /\ {Block, Erase, EraseDev, XferMax} \subseteq Nat
    BY RingAssumption, BoundsAssumption, TimeAssumption
<1>1. /\ log = [i \in Itf |-> <<>>] /\ tail = [i \in Itf |-> 0] /\ pc0 = "idle" /\ cur = {}
      /\ waited = 0 /\ budget = Budget
    BY DEF Init
<1>2. \A i \in Itf : log[i] = <<>> /\ tail[i] = 0
    BY <1>1
<1>3. <<>> \in Seq(Kind) /\ Len(<<>>) = 0
    OBVIOUS
<1>4. Rings
    BY <1>0, <1>1, <1>2, <1>3 DEF Rings
<1>5. Spin
    BY <1>0, <1>1 DEF Spin
<1>6. Sent
    BY <1>0, <1>1, <1>2, <1>3 DEF Sent
<1>7. Places /\ Flags /\ Links
    BY DEF Init, Places, Flags, Links
<1>8. Transfers
    BY DEF Init, Transfers
<1>9. Times
    BY <1>0 DEF Init, Times
<1>10. Taken
    BY <1>2 DEF Init, Taken, InFlightIsNew, Pipe
<1>11. QED
    BY <1>4, <1>5, <1>6, <1>7, <1>8, <1>9, <1>10 DEF Types

LEMMA TypesNext == Types /\ [Next]_vars => Types'
<1> SUFFICES ASSUME Types, [Next]_vars PROVE Types'
    OBVIOUS
<1>1. CASE Next
    BY <1>1, RingsNext, SpinNext, SentNext, PlacesNext, FlagsNext, LinksNext,
       TransfersNext, TimesNext, TakenNext DEF Types
<1>2. CASE UNCHANGED vars
  <2>1. /\ UNCHANGED <<log, tail, pc0, cur, waited, ticked, pc1, passed, alive>>
        /\ UNCHANGED <<mounted, bound, settle, hold, ctl, ctlAge, ep, erasing>>
        /\ UNCHANGED <<flag, taken, budget>>
    BY <1>2 DEF vars, thunkVars, linkVars, xferVars, lossVars
  <2>2. (Rings /\ Spin /\ Sent /\ Places /\ Flags /\ Links)'
    BY <2>1 DEF Types, Rings, Spin, Room, Sent, Places, Flags, Links
  <2>3. (Transfers /\ Times /\ Taken)'
    BY <2>1 DEF Types, Transfers, ByControl, Times, Taken, InFlightIsNew
  <2>4. QED
    BY <2>2, <2>3 DEF Types
<1>3. QED
    BY <1>1, <1>2

LEMMA TypesStay == Spec => []Types
    BY TypesInit, TypesNext, PTL DEF Spec

LEMMA TypesEnough == Types => TypeOK
<1> SUFFICES ASSUME Types PROVE TypeOK
    OBVIOUS
<1> USE DEF Types
<1>0. /\ Budget \in Nat /\ budget \in Nat
      /\ \A i \in Itf :
             /\ tail[i] \in Nat /\ Len(log[i]) \in Nat /\ tail[i] <= Len(log[i])
             /\ Len(log[i]) + budget <= Budget
    BY BoundsAssumption DEF Sent, Rings
<1>1. \A i \in Itf : \A p \in 1 .. tail[i] : p \in 1 .. Budget
    BY <1>0
<1>2. log \in [Itf -> Seq(Kind)] /\ \A i \in Itf : tail[i] \in 0 .. Len(log[i]) /\ Len(log[i]) - tail[i] < N
    BY <1>0 DEF Rings
<1>3. pc0 \in {"idle", "wait", "write"} /\ cur \subseteq Itf \X Kind
    BY SendsAssumption DEF Spin
<1>4. Cardinality(cur) = IF pc0 = "idle" THEN 0 ELSE 1
  <2>1. CASE pc0 = "idle"
    BY <2>1, FS_EmptySet DEF Spin
  <2>2. CASE pc0 # "idle"
    BY <2>2, FS_Singleton DEF Spin
  <2>3. QED
    BY <2>1, <2>2
<1>5. ctl \subseteq Itf \X (1 .. Budget) /\ ctlAge \in 0 .. XferMax
    BY <1>1, TimeAssumption DEF Transfers
<1>6. Cardinality(ctl) <= 1
    BY FS_EmptySet, FS_Singleton DEF Transfers
<1>7. ep \in [Itf -> SUBSET (1 .. Budget)]
    BY <1>1 DEF Transfers
<1>8. taken \in [Pipe -> [Itf -> 0 .. Budget]]
  <2>1. \A q \in Pipe : \A i \in Itf : taken[q][i] \in Nat /\ taken[q][i] <= tail[i]
    BY DEF Taken
  <2>2. \A q \in Pipe : \A i \in Itf : taken[q][i] \in 0 .. Budget
    BY <1>0, <2>1
  <2>3. QED
    BY <2>2 DEF Taken
<1>9. {ticked, passed, alive, settle, flag} \subseteq BOOLEAN
    BY Zenon DEF Flags
<1>10. QED
    BY <1>2, <1>3, <1>4, <1>5, <1>6, <1>7, <1>8, <1>9, Zenon DEF TypeOK, Spin, Places, Links, Times

\* The state of the rings, of the callback, of core 1 and of the host stack's
\* transfers is always well formed: a ring never holds more than its slots.
THEOREM OutPathTyped == Spec => []TypeOK
    BY TypesStay, TypesEnough, PTL

\* The key gets the reports of each pipe in the order they were committed and
\* none of them twice, through every refusal, unplug, cut of VBUS and flush.
THEOREM KeyTakesOnce == Spec => []InFlightIsNew
<1>1. Types => InFlightIsNew
    BY DEF Types, Taken
<1>2. QED
    BY <1>1, TypesStay, PTL

---------------------------------------------------------------------------
(* The hold-off covers the erase *)

LEMMA ClosedNext == Types /\ Closed /\ Next => Closed'
<1> SUFFICES ASSUME Types, Closed, Next PROVE Closed'
    OBVIOUS
<1>0. /\ mounted \in [Itf -> BOOLEAN] /\ bound \in [Itf -> BOOLEAN]
      /\ ep \in [Itf -> SUBSET Nat] /\ erasing \in [Itf -> 0 .. EraseDev]
    BY DEF Types, Links, Transfers, Times
<1>1. ASSUME NEW i \in Itf, NEW k \in Kind, Thunk(i, k) PROVE Closed'
    BY <1>1, ThunkKeeps DEF core1Vars, linkVars, xferVars, Closed
<1>2. CASE UNCHANGED <<mounted, bound, ctl, ep, erasing>>
    BY <1>2 DEF Closed
<1>3. ASSUME NEW i \in Itf, NEW p \in 1 .. Budget, ControlDone(i, p) PROVE Closed'
  <2>1. UNCHANGED <<mounted, bound, ep>> /\ ctl' = {} /\ <<i, p>> \in ctl
    BY <1>3 DEF ControlDone, linkVars
  <2>2. \A j \in Itf : j # i => erasing'[j] = erasing[j]
    BY <1>0, <1>3 DEF ControlDone
  <2>3. bound[i]
    BY <2>1 DEF Closed
  <2>4. QED
    BY <2>1, <2>2, <2>3 DEF Closed
<1>4. ASSUME NEW i \in Itf, NEW p \in 1 .. Budget, InterruptDone(i, p) PROVE Closed'
  <2>1. UNCHANGED <<mounted, bound, ctl, erasing>> /\ ep' = [ep EXCEPT ![i] = {}]
    BY <1>4 DEF InterruptDone, linkVars
  <2>2. QED
    BY <1>0, <2>1 DEF Closed
<1>5. CASE Unplug
    BY <1>5 DEF Unplug, Closed
<1>6. ASSUME NEW i \in Itf, Mount(i) PROVE Closed'
  <2>1. /\ bound' = [bound EXCEPT ![i] = TRUE] /\ mounted' = [mounted EXCEPT ![i] = TRUE]
        /\ UNCHANGED <<ctl, ep, erasing>>
    BY <1>6 DEF Mount, xferVars
  <2>2. QED
    BY <1>0, <2>1 DEF Closed
<1>7. CASE PowerOff
    BY <1>7 DEF PowerOff, xferVars, Closed
<1>8. ASSUME NEW i \in Itf, ForwardSend(i) PROVE Closed'
  <2> DEFINE p == tail[i] + 1
  <2>1. /\ UNCHANGED <<mounted, bound, erasing>> /\ mounted[i]
        /\ \/ ctl' = {<<i, p>>} /\ ep' = ep
           \/ ctl' = ctl /\ ep' = [ep EXCEPT ![i] = {p}]
    BY <1>8, SendGoes DEF Types, linkVars
  <2>2. bound[i]
    BY <2>1 DEF Closed
  <2> HIDE DEF p
  <2>3. QED
    BY <1>0, <2>1, <2>2 DEF Closed
<1>9. CASE Tick
  <2>1. UNCHANGED <<mounted, bound, ctl, ep>> /\ erasing' = [j \in Itf |-> Less(erasing[j])]
    BY <1>9 DEF Tick, linkVars
  <2>2. QED
    BY <2>1 DEF Closed, Less
<1>10. QED
    BY <1>1, <1>2, <1>3, <1>4, <1>5, <1>6, <1>7, <1>8, <1>9, TransferGoes, LinkGoes DEF Next

\* What becomes of the hold-offs in core 1's steps.
LEMMA HoldGoes ==
    ASSUME Types, NEW i \in Itf, Core1(i)
    PROVE  \/ hold' = hold
           \/ ~mounted[i] /\ hold' = [hold EXCEPT ![i] = 0] /\ (ForwardNext(i) \/ ForwardDiscard(i))
           \/ ForwardSend(i)
<1>1. CASE TaskNothing \/ Unplug \/ Mount(i)
    BY <1>1 DEF TaskNothing, Unplug, Mount
<1>2. CASE \E p \in 1 .. Budget : ControlDone(i, p) \/ InterruptDone(i, p)
    BY <1>2 DEF ControlDone, InterruptDone
<1>3. CASE ServicesNothing \/ PowerOff \/ LinkService \/ Wedge
    BY <1>3 DEF ServicesNothing, PowerOff, LinkService, Wedge
<1>4. CASE ForwardNext(i)
  <2>1. hold \in [Itf -> 0 .. Erase]
    BY DEF Types, Times
  <2>2. hold' = [hold EXCEPT ![i] = IF mounted[i] THEN @ ELSE 0]
    BY <1>4 DEF ForwardNext
  <2>3. QED
    BY <1>4, <2>1, <2>2
<1>5. CASE ForwardDiscard(i)
    BY <1>5 DEF ForwardDiscard, MustDiscard
<1>6. QED
    BY <1>1, <1>2, <1>3, <1>4, <1>5 DEF Core1

LEMMA CoveredNext == Types /\ Closed /\ Covered /\ Next => Covered'
<1> SUFFICES ASSUME Types, Closed, Covered, Next PROVE Covered'
    OBVIOUS
<1>0. /\ hold \in [Itf -> 0 .. Erase] /\ erasing \in [Itf -> 0 .. EraseDev]
      /\ mounted \in [Itf -> BOOLEAN] /\ ctlAge \in Nat /\ alive \in BOOLEAN
    BY DEF Types, Links, Times, Transfers, Flags
<1>1. /\ {Erase, EraseDev, XferMax} \subseteq Nat /\ EraseDev + XferMax <= Erase
    BY TimeAssumption
\* The reports in flight are what they were.
<1>2. \A c \in ctl :
          /\ c[1] \in Itf /\ log'[c[1]][c[2]] = log[c[1]][c[2]]
          /\ IsErase(c[1], log[c[1]][c[2]]) => c[1] \notin OutEp
  <2>1. \A j \in Itf : \A p \in 1 .. tail[j] : log'[j][p] = log[j][p]
    BY RingsGrow DEF Types
  <2>2. QED
    BY <2>1 DEF Types, Transfers, ByControl, IsErase
<1>3. CASE UNCHANGED <<mounted, hold, ctl, ctlAge, erasing, alive>>
    BY <1>2, <1>3 DEF Covered, IsErase
<1>4. ASSUME NEW i \in Itf, NEW k \in Kind, Thunk(i, k)
      PROVE  UNCHANGED <<mounted, hold, ctl, ctlAge, erasing, alive>>
    BY <1>4, ThunkKeeps DEF core1Vars, linkVars, xferVars
<1>5. ASSUME NEW i \in Itf, NEW p \in 1 .. Budget, ControlDone(i, p) PROVE Covered'
  <2>1. /\ UNCHANGED <<mounted, hold, log>> /\ ctl' = {} /\ <<i, p>> \in ctl /\ alive
        /\ ctlAge \in 0 .. XferMax
    BY <1>5 DEF ControlDone, StartPass, linkVars, core0Vars, Types, Transfers
  <2>2. CASE erasing' = erasing
    BY <2>1, <2>2 DEF Covered
  <2>3. CASE /\ erasing' = [erasing EXCEPT ![i] = EraseDev]
             /\ i \in Boot /\ log[i][p] = "erase"
    <3>1. IsErase(i, log[i][p]) /\ i \notin OutEp
      BY <1>2, <2>1, <2>3 DEF IsErase
    <3>2. mounted[i] => hold[i] + ctlAge >= Erase
      BY <2>1, <3>1 DEF Covered
    <3>3. hold[i] \in Nat
      BY <1>0
    <3>4. mounted[i] => hold[i] >= EraseDev
      BY <1>1, <2>1, <3>2, <3>3
    <3>5. erasing'[i] = EraseDev /\ \A j \in Itf : j # i => erasing'[j] = erasing[j]
      BY <1>0, <2>3
    <3>6. QED
      BY <2>1, <3>1, <3>4, <3>5 DEF Covered
  <2>4. QED
    BY <1>0, <1>5, <2>2, <2>3 DEF ControlDone
<1>6. CASE Unplug
    BY <1>6 DEF Unplug, Covered
<1>7. ASSUME NEW i \in Itf, Mount(i) PROVE Covered'
  <2>1. /\ mounted' = [mounted EXCEPT ![i] = TRUE] /\ ~bound[i]
        /\ UNCHANGED <<hold, ctl, ctlAge, erasing, alive, log>>
    BY <1>7 DEF Mount, xferVars, core0Vars
  <2>2. erasing[i] = 0 /\ \A c \in ctl : c[1] # i
    BY <2>1 DEF Closed
  <2>3. QED
    BY <1>0, <1>2, <2>1, <2>2 DEF Covered
<1>8. CASE PowerOff
  <2>1. mounted' = [j \in Itf |-> FALSE] /\ UNCHANGED <<hold, ctl, ctlAge, erasing, alive, log>>
    BY <1>8 DEF PowerOff, xferVars, core0Vars
  <2>2. QED
    BY <1>2, <2>1 DEF Covered, IsErase
<1>9. ASSUME NEW i \in Itf, NEW p \in 1 .. Budget, InterruptDone(i, p)
      PROVE  UNCHANGED <<mounted, hold, ctl, ctlAge, erasing, alive>>
    BY <1>9 DEF InterruptDone, linkVars
<1>10. ASSUME NEW i \in Itf, ~mounted[i], hold' = [hold EXCEPT ![i] = 0],
              UNCHANGED <<mounted, ctl, ctlAge, erasing, alive>>
       PROVE  Covered'
  <2>1. hold'[i] = 0 /\ \A j \in Itf : j # i => hold'[j] = hold[j]
    BY <1>0, <1>10
  <2>2. QED
    BY <1>2, <1>10, <2>1 DEF Covered, IsErase
<1>11. ASSUME NEW i \in Itf, ForwardNext(i) \/ ForwardDiscard(i)
       PROVE  UNCHANGED <<mounted, ctl, ctlAge, erasing, alive>>
    BY <1>11 DEF ForwardNext, ForwardDiscard, linkVars, xferVars
<1>12. ASSUME NEW i \in Itf, ForwardSend(i) PROVE Covered'
  <2> DEFINE p == tail[i] + 1
             k == log[i][p]
  <2>1. /\ mounted[i] /\ hold[i] = 0
        /\ UNCHANGED <<mounted, erasing, alive, log, ctlAge>>
        /\ \/ ctl = {} /\ ctl' = {<<i, p>>}
           \/ i \in OutEp /\ ~Big(k) /\ ctl' = ctl
        /\ hold' = IF IsErase(i, k) THEN [hold EXCEPT ![i] = Erase] ELSE hold
    BY <1>12, SendGoes DEF Types, linkVars
  <2>2. erasing[i] = 0
    BY <1>0, <2>1 DEF Covered
  <2>3. hold'[i] \in Nat /\ (IsErase(i, k) => hold'[i] = Erase)
        /\ \A j \in Itf : j # i => hold'[j] = hold[j]
    BY <1>0, <1>1, <2>1
  <2>4. CASE ctl = {} /\ ctl' = {<<i, p>>}
    <3> HIDE DEF p
    <3>1. QED
      BY <1>0, <1>1, <2>1, <2>2, <2>3, <2>4 DEF Covered
  <2>5. CASE i \in OutEp /\ ~Big(k) /\ ctl' = ctl
    <3>1. ~IsErase(i, k)
      BY <2>5 DEF IsErase, Big
    <3>2. hold' = hold
      BY <2>1, <3>1
    <3>3. QED
      BY <1>2, <2>1, <2>5, <3>2 DEF Covered
  <2>6. QED
    BY <2>1, <2>4, <2>5
<1>13. CASE Tick
  <2>1. /\ UNCHANGED <<mounted, ctl, alive, log>>
        /\ hold' = [j \in Itf |-> Less(hold[j])] /\ erasing' = [j \in Itf |-> Less(erasing[j])]
        /\ ctlAge' = IF ctl # {} /\ alive THEN ctlAge + 1 ELSE ctlAge
    BY <1>13 DEF Tick, linkVars
  <2>2. ASSUME NEW j \in Itf
        PROVE  /\ hold'[j] \in Nat /\ hold'[j] >= hold[j] - 1
               /\ erasing'[j] > 0 => erasing[j] > 0
               /\ hold[j] >= erasing[j] => hold'[j] >= erasing'[j]
    <3>1. hold[j] \in Nat /\ erasing[j] \in Nat
      BY <1>0, <1>1
    <3>2. hold'[j] = Less(hold[j]) /\ erasing'[j] = Less(erasing[j])
      BY <2>1
    <3>3. QED
      BY <3>1, <3>2 DEF Less
  <2>3. \A j \in Itf : erasing'[j] > 0 =>
           j \notin OutEp /\ (mounted'[j] => hold'[j] >= erasing'[j]) /\ \A c \in ctl' : c[1] # j
    BY <2>1, <2>2 DEF Covered
  <2>4. ASSUME NEW c \in ctl', alive', mounted'[c[1]], IsErase(c[1], log'[c[1]][c[2]])
        PROVE  hold'[c[1]] + ctlAge' >= Erase
    <3>1. c \in ctl /\ alive /\ mounted[c[1]] /\ ctl # {}
      BY <2>1, <2>4
    <3>2. c[1] \in Itf /\ IsErase(c[1], log[c[1]][c[2]])
      BY <1>2, <2>4, <3>1 DEF IsErase
    <3>6. hold[c[1]] + ctlAge >= Erase /\ hold[c[1]] \in Nat
      BY <1>0, <3>1, <3>2 DEF Covered, IsErase
    <3>3. ctlAge' = ctlAge + 1
      BY <2>1, <3>1
    <3>4. hold'[c[1]] >= hold[c[1]] - 1 /\ hold'[c[1]] \in Nat
      BY <2>2, <3>2
    <3>5. QED
      BY <1>0, <1>1, <3>6, <3>3, <3>4
  <2>5. QED
    BY <2>3, <2>4 DEF Covered
<1>14. ASSUME NEW i \in Itf, Core1(i) PROVE Covered'
  <2>1. alive' = alive \/ Wedge
    BY <1>14 DEF Core1, TaskNothing, Unplug, Mount, ControlDone, InterruptDone, ServicesNothing,
       PowerOff, LinkService, ForwardNext, ForwardDiscard, ForwardSend
  <2>2. CASE Wedge
    BY <1>2, <2>2 DEF Wedge, Covered, linkVars, xferVars, core0Vars
  <2>3. CASE ~Wedge
    BY <1>14, <2>1, <2>3, <1>3, <1>5, <1>6, <1>7, <1>8, <1>9, <1>10, <1>11, <1>12,
       TransferGoes, LinkGoes, HoldGoes
  <2>4. QED
    BY <2>2, <2>3
<1>15. QED
    BY <1>3, <1>4, <1>13, <1>14 DEF Next

\* Where the sender and the key keep time apart: from the moment the key has
\* taken a block 0 (whose own transfer has ended then) until its erase is over,
\* no transfer to the interface that block came by is under way, because a
\* hold-off that began with the submission of block 0 is at least as long as
\* what is left of the transfer and of the erase.  It says nothing of another
\* interface of the same key, which forward_out does not hold off.
THEOREM EraseIsQuiet == Spec => []QuietDuringErase
<1> DEFINE Inv == Types /\ Closed /\ Covered
<1>1. Init => Inv
  <2> SUFFICES ASSUME Init PROVE Inv
    OBVIOUS
  <2>1. Types
    BY TypesInit
  <2>2. Closed /\ Covered
    BY DEF Init, Closed, Covered
  <2>3. QED
    BY <2>1, <2>2
<1>2. Inv /\ [Next]_vars => Inv'
  <2> SUFFICES ASSUME Inv, [Next]_vars PROVE Inv'
    OBVIOUS
  <2>1. CASE Next
    BY <2>1, TypesNext, ClosedNext, CoveredNext
  <2>2. CASE UNCHANGED vars
    <3>1. UNCHANGED <<mounted, bound, ctl, ctlAge, ep, erasing, hold, alive, log>>
      BY <2>2 DEF vars, linkVars, xferVars
    <3>2. Closed' /\ Covered'
      BY <3>1 DEF Closed, Covered, IsErase
    <3>3. QED
      BY <2>2, <3>2, TypesNext
  <2>3. QED
    BY <2>1, <2>2
<1>3. Inv => QuietDuringErase
  <2> SUFFICES ASSUME Inv, NEW i \in Itf, erasing[i] > 0
               PROVE  ep[i] = {} /\ \A c \in ctl : c[1] # i
    BY DEF QuietDuringErase
  <2>1. i \notin OutEp /\ \A c \in ctl : c[1] # i
    BY DEF Covered
  <2>2. ep[i] = {}
    BY <2>1 DEF Types, Transfers
  <2>3. QED
    BY <2>1, <2>2
<1>4. QED
  <2> HIDE DEF Inv
  <2>1. QED
    BY <1>1, <1>2, <1>3, PTL DEF Spec

---------------------------------------------------------------------------
(* The hold-off ends with its key *)

LEMMA DroppedNext == Types /\ Dropped /\ Next => Dropped'
<1> SUFFICES ASSUME Types, Dropped, Next PROVE Dropped'
    OBVIOUS
<1>0. /\ hold \in [Itf -> 0 .. Erase] /\ mounted \in [Itf -> BOOLEAN] /\ 0 \in 0 .. Erase
    BY TimeAssumption DEF Types, Times, Links
<1>1. ASSUME NEW i \in Itf, NEW k \in Kind, Thunk(i, k) PROVE Dropped'
    BY <1>1, ThunkKeeps DEF core1Vars, linkVars, Dropped
<1>2. CASE Tick
  <2>1. UNCHANGED <<mounted, pc1>> /\ \A j \in Itf : hold'[j] = Less(hold[j])
    BY <1>2 DEF Tick, linkVars
  <2>2. QED
    BY <2>1 DEF Dropped, Less
<1>3. ASSUME NEW i \in Itf, Core1(i) PROVE Dropped'
  <2>1. CASE StartPass /\ pc1' = Services
    BY <2>1, Ends DEF Dropped
  <2>2. CASE pc1' = First
    BY <2>2, Ends DEF Dropped
  <2>3. CASE Wedge
    BY <2>3 DEF Wedge, linkVars, Dropped
  <2>4. CASE Forwarding(i) /\ ~Wedge
    <3>1. pc1 = i /\ UNCHANGED mounted
      BY <1>3, <2>4, LinkGoes, Ends
         DEF Forwarding, Unplug, Mount, PowerOff, StartPass, ServicesDone
    <3>2. \A j \in Itf : ~mounted[j] => hold'[j] = 0 \/ hold'[j] = hold[j]
      BY <1>0, <1>3, HoldGoes, SendGoes DEF Types
    <3>3. CASE UNCHANGED pc1
      BY <3>1, <3>2, <3>3 DEF Dropped
    <3>4. CASE NextItf(i)
      <4>1. ~mounted[i] => hold'[i] = 0
        <5>1. pc1' # i
          BY <3>4, Ends DEF NextItf
        <5>2. ~ForwardDiscard(i)
          BY <3>1, <5>1 DEF ForwardDiscard
        <5>3. ~(TaskNothing \/ Unplug \/ Mount(i) \/ ServicesNothing \/ PowerOff \/ LinkService)
          BY <3>1, Ends DEF TaskNothing, Unplug, Mount, StartPass,
             ServicesNothing, PowerOff, LinkService, ServicesDone
        <5>4. ~\E p \in 1 .. Budget : ControlDone(i, p) \/ InterruptDone(i, p)
          BY <3>1, Ends DEF ControlDone, InterruptDone, StartPass
        <5>5. ForwardNext(i) \/ ForwardSend(i)
          BY <1>3, <2>4, <5>2, <5>3, <5>4 DEF Core1
        <5>6. QED
          BY <1>0, <5>5, SendGoes DEF ForwardNext, Types
      <4>2. \A j \in Itf : (pc1' = Task \/ (pc1' \in Itf /\ j < pc1')) => j = i \/ j < pc1
        BY <3>1, <3>4, Ends DEF NextItf
      <4>3. QED
        BY <3>1, <3>2, <4>1, <4>2 DEF Dropped
    <3>5. QED
      BY <1>3, <2>4, <3>1, <3>3, <3>4, PassGoes, Ends DEF StartPass, ServicesDone
  <2>5. QED
    BY <1>3, <2>1, <2>2, <2>3, <2>4, PassGoes
<1>4. QED
    BY <1>1, <1>2, <1>3 DEF Next

\* A key that mounts is never held back by the erase of the one before it.
THEOREM HoldEnds == Spec => []HoldDiesWithKey
<1> DEFINE Inv == Types /\ Dropped
<1>1. Init => Inv
    BY TypesInit DEF Init, Dropped
<1>2. Inv /\ [Next]_vars => Inv'
  <2> SUFFICES ASSUME Inv, [Next]_vars PROVE Inv'
    OBVIOUS
  <2>1. CASE UNCHANGED vars
    <3>1. UNCHANGED <<mounted, pc1, hold>>
      BY <2>1 DEF vars, linkVars
    <3>2. QED
      BY <2>1, <3>1, TypesNext DEF Dropped
  <2>2. QED
    BY <2>1, TypesNext, DroppedNext
<1>3. Inv => HoldDiesWithKey
    BY DEF Dropped, HoldDiesWithKey
<1>4. QED
  <2> HIDE DEF Inv
  <2>1. QED
    BY <1>1, <1>2, <1>3, PTL DEF Spec

---------------------------------------------------------------------------
(* The slot under a control transfer *)

LEMMA HeadNext ==
    ASSUME OnePipeEach, Types, Closed, HeadInFlight, Next
    PROVE  HeadInFlight'
<1>0. /\ bound \in [Itf -> BOOLEAN] /\ mounted = bound
      /\ \A c \in ctl : c[1] \in Itf /\ c[2] \in 1 .. Len(log[c[1]])
                       /\ ByControl(c[1], log[c[1]][c[2]]) /\ bound[c[1]]
  <2>1. \A j \in Itf : tail[j] \in Nat /\ Len(log[j]) \in Nat /\ tail[j] <= Len(log[j])
    BY DEF Types, Rings
  <2>2. \A j \in Itf : \A p \in 1 .. tail[j] : p \in 1 .. Len(log[j])
    BY <2>1
  <2>3. \A c \in ctl : c[1] \in Itf /\ c[2] \in 1 .. tail[c[1]] /\ ByControl(c[1], log[c[1]][c[2]])
    BY DEF Types, Transfers
  <2>4. QED
    BY <2>2, <2>3 DEF Types, Links, HeadInFlight, Closed
<1>1. ASSUME NEW i \in Itf, NEW k \in Kind, Thunk(i, k) PROVE HeadInFlight'
  <2>1. UNCHANGED <<mounted, bound, ctl, tail>>
    BY <1>1, ThunkKeeps DEF core1Vars, linkVars, xferVars
  <2>2. CASE log' = log
    BY <2>1, <2>2 DEF HeadInFlight
  <2>3. CASE Commit(i, k)
    <3>1. k \in Sends[i]
      BY <2>3 DEF Commit, Types, Spin
    <3>2. Len(log[i]) \in Nat
      BY DEF Types, Rings
    <3>3. /\ Len(log'[i]) = Len(log[i]) + 1 /\ log'[i][Len(log[i]) + 1] = k
          /\ \A j \in Itf : j # i => log'[j] = log[j]
          /\ \A p \in 1 .. Len(log[i]) : log'[i][p] = log[i][p]
      BY <2>3, Grown DEF Types
    <3>4. \A p \in 1 .. Len(log'[i]) : log'[i][p] \in Sends[i]
      BY <3>1, <3>2, <3>3 DEF HeadInFlight
    <3>5. \A j \in Itf : \A p \in 1 .. Len(log'[j]) : log'[j][p] \in Sends[j]
      BY <3>3, <3>4 DEF HeadInFlight
    <3>6. QED
      BY <2>1, <3>5 DEF HeadInFlight
  <2>4. QED
    BY <1>1, <2>2, <2>3 DEF Thunk, Receive, WaitRoom, WaitGiveUp
<1>2. CASE Tick
    BY <1>2 DEF Tick, linkVars, HeadInFlight
<1>3. ASSUME NEW i \in Itf, Core1(i) PROVE HeadInFlight'
  <2>1. log' = log
    BY <1>3, Core1Keeps DEF core0Vars
  <2>2. mounted' = bound'
    <3>1. CASE Mount(i)
      BY <1>0, <3>1 DEF Mount
    <3>2. ~PowerOff /\ (Unplug => mounted' = bound')
      BY DEF PowerOff, OnePipeEach, Unplug
    <3>3. QED
      BY <1>0, <1>3, <3>1, <3>2, LinkGoes
  <2>3. CASE ctl' = {}
    BY <2>1, <2>2, <2>3 DEF HeadInFlight
  <2>4. CASE ctl' = ctl /\ UNCHANGED tail
    BY <2>1, <2>2, <2>4 DEF HeadInFlight
  <2>5. ASSUME ctl' = ctl, tail' = [tail EXCEPT ![i] = @ + 1], \A c \in ctl : c[1] # i
        PROVE  HeadInFlight'
    <3>1. \A j \in Itf : j # i => tail'[j] = tail[j]
      BY <2>5 DEF Types, Rings
    <3>2. QED
      BY <1>0, <2>1, <2>2, <2>5, <3>1 DEF HeadInFlight
  <2>6. CASE ForwardDiscard(i)
    BY <1>0, <2>5, <2>6 DEF ForwardDiscard, MustDiscard, xferVars
  <2>7. CASE ForwardSend(i)
    <3> DEFINE p == tail[i] + 1
    <3>1. /\ tail' = [tail EXCEPT ![i] = p] /\ p \in Nat
          /\ ctl' = {<<i, p>>} \/ (i \in OutEp /\ ctl' = ctl)
      BY <2>7, SendGoes DEF Types, Rings
    <3>2. CASE i \in OutEp /\ ctl' = ctl
      <4>1. \A c \in ctl : c[1] # i
        BY <1>0, <3>2 DEF ByControl, OnePipeEach, HeadInFlight
      <4>2. QED
        BY <2>5, <3>1, <3>2, <4>1
    <3>3. CASE ctl' = {<<i, p>>}
      <4>1. tail'[i] = p
        BY <3>1 DEF Types, Rings
      <4>2. QED
        BY <2>1, <2>2, <3>3, <4>1 DEF HeadInFlight
    <3>4. QED
      BY <3>1, <3>2, <3>3
  <2>8. CASE Flushed /\ LinkService
    <3>1. CASE tail' = tail
      BY <2>4, <2>8, <3>1 DEF LinkService, xferVars
    <3>2. CASE ~\E j \in Itf : mounted[j]
      <4>1. ctl = {}
        BY <1>0, <3>2
      <4>2. QED
        BY <2>3, <2>8, <4>1 DEF LinkService, xferVars
    <3>3. QED
      BY <2>8, <3>1, <3>2 DEF LinkService
  <2>9. ~PowerOff
    BY DEF PowerOff, OnePipeEach
  <2>10. ctl' = ctl \/ ctl' = {} \/ ForwardSend(i)
    BY <1>3, TransferGoes DEF ControlDone, InterruptDone, Unplug
  <2>11. QED
    BY <1>3, <2>3, <2>4, <2>6, <2>7, <2>8, <2>9, <2>10, Core1Pops
<1>4. QED
    BY <1>1, <1>2, <1>3 DEF Next

\* Positions less than a ring apart have slots of their own.
LEMMA SlotsDiffer ==
    ASSUME NEW p \in Nat, NEW q \in Nat, p < q, q < p + N
    PROVE  CtlSlot(q) # CtlSlot(p)
<1> SUFFICES ASSUME q % N = p % N PROVE FALSE
    BY DEF CtlSlot
<1>0. N \in Nat /\ N > 0
    BY RingAssumption
<1>1. PICK a \in Int, b \in Int : p = N * a + (p % N) /\ q = N * b + (q % N)
  <2>1. ASSUME NEW m \in Nat PROVE m = N * (m \div N) + (m % N) /\ m \div N \in Int
    BY <1>0
  <2>2. QED
    BY <2>1
<1>2. q - p = N * (b - a) /\ q - p > 0 /\ q - p < N
    BY <1>0, <1>1
<1>3. CASE b - a >= 1
    BY <1>0, <1>2, <1>3
<1>4. CASE b - a <= 0
    BY <1>0, <1>2, <1>4
<1>5. QED
    BY <1>1, <1>3, <1>4

\* tuh_hid_set_report keeps a pointer into a slot that forward_out gives back
\* at once; as long as an interface's reports all take one pipe and VBUS stays,
\* the interrupt does not come round to that slot before the transfer is over.
THEOREM InFlightKept ==
    ASSUME OnePipeEach
    PROVE  Spec => []InFlightIntact
<1> DEFINE Inv == Types /\ Closed /\ HeadInFlight
<1>1. Init => Inv
  <2> SUFFICES ASSUME Init PROVE Inv
    OBVIOUS
  <2>1. \A i \in Itf : log[i] = <<>>
    BY DEF Init
  <2>2. QED
    BY <2>1, TypesInit DEF Init, Closed, HeadInFlight
<1>2. Inv /\ [Next]_vars => Inv'
  <2> SUFFICES ASSUME Inv, [Next]_vars PROVE Inv'
    OBVIOUS
  <2>1. CASE Next
    BY <2>1, TypesNext, ClosedNext, HeadNext
  <2>2. CASE UNCHANGED vars
    <3>1. UNCHANGED <<mounted, bound, ctl, ep, erasing, tail, log>>
      BY <2>2 DEF vars, linkVars, xferVars
    <3>2. QED
      BY <2>2, <3>1, TypesNext DEF Closed, HeadInFlight
  <2>3. QED
    BY <2>1, <2>2
<1>3. Inv => InFlightIntact
  <2> SUFFICES ASSUME Inv, NEW c \in ctl, NEW q \in c[2] + 1 .. LastWritten(c[1])
               PROVE  CtlSlot(q) # CtlSlot(c[2])
    BY DEF InFlightIntact
  <2> DEFINE i == c[1]
             p == c[2]
  <2>1. i \in Itf /\ p = tail[i] /\ p \in Nat /\ N \in Nat
    BY RingAssumption DEF Types, Transfers, Rings, HeadInFlight
  <2>2. Len(log[i]) \in Nat /\ Len(log[i]) - tail[i] < N
    BY <2>1 DEF Types, Rings
  <2>3. pc0 = "write" /\ (\E d \in cur : d[1] = i) => Len(log[i]) - tail[i] < N - 1
    BY DEF Types, Spin, Room
  <2>4. LastWritten(i) \in Nat /\ LastWritten(i) < p + N
    <3>1. CASE pc0 = "write" /\ \E d \in cur : d[1] = i
      <4>1. LastWritten(i) = Len(log[i]) + 1
        BY <3>1 DEF LastWritten
      <4>2. QED
        BY <2>1, <2>2, <2>3, <3>1, <4>1
    <3>2. CASE ~(pc0 = "write" /\ \E d \in cur : d[1] = i)
      <4>1. LastWritten(i) = Len(log[i]) + 0
        BY <3>2 DEF LastWritten
      <4>2. QED
        BY <2>1, <2>2, <4>1
    <3>3. QED
      BY <3>1, <3>2
  <2>5. q \in Nat /\ p < q /\ q < p + N
    BY <2>1, <2>4
  <2>6. QED
    BY <2>1, <2>5, SlotsDiffer
<1>4. QED
  <2> HIDE DEF Inv
  <2>1. QED
    BY <1>1, <1>2, <1>3, PTL DEF Spec

---------------------------------------------------------------------------
(* No firmware block is lost *)

\* With the key attached and core 1 running there is nothing to discard.
LEMMA AttachedSteps ==
    ASSUME Flashing, Types, Attached, NEW i \in Itf, Core1(i)
    PROVE  /\ ~Unplug /\ ~Mount(i) /\ ~PowerOff /\ ~LinkService /\ ~Wedge /\ ~ForwardDiscard(i)
           /\ UNCHANGED <<alive, plugs, settle, mounted, bound>>
<1>1. ~Unplug /\ ~Mount(i) /\ ~PowerOff /\ ~LinkService /\ ~Wedge
  <2>1. plugs = 0 /\ ~settle /\ mounted[i] /\ ~MayWedge
    BY DEF Attached, Flashing
  <2>2. QED
    BY <2>1 DEF Unplug, Mount, PowerOff, LinkService, Wedge
<1>2. ~ForwardDiscard(i)
    BY DEF Attached, ForwardDiscard, MustDiscard
<1>3. UNCHANGED <<alive, plugs, settle, mounted, bound>>
  <2>1. CASE \E p \in 1 .. Budget : ControlDone(i, p) \/ InterruptDone(i, p)
    BY <2>1 DEF ControlDone, InterruptDone, linkVars
  <2>2. CASE TaskNothing \/ ServicesNothing
    BY <2>2 DEF TaskNothing, ServicesNothing, linkVars
  <2>3. CASE ForwardNext(i) \/ ForwardSend(i)
    BY <2>3 DEF ForwardNext, ForwardSend, linkVars
  <2>4. QED
    BY <1>1, <1>2, <2>1, <2>2, <2>3 DEF Core1
<1>4. QED
    BY <1>1, <1>2, <1>3

LEMMA AttachedNext ==
    ASSUME Flashing, Types, Attached, Next
    PROVE  Attached'
<1>1. ASSUME NEW i \in Itf, NEW k \in Kind, Thunk(i, k) PROVE Attached'
    BY <1>1, ThunkKeeps DEF core1Vars, linkVars, Attached
<1>2. ASSUME NEW i \in Itf, Core1(i) PROVE Attached'
    BY <1>2, AttachedSteps DEF Attached
<1>3. CASE Tick
    BY <1>3 DEF Tick, linkVars, Attached
<1>4. QED
    BY <1>1, <1>2, <1>3 DEF Next

LEMMA OnlyBigNext ==
    ASSUME OnlyBigWaits, Next
    PROVE  OnlyBigWaits'
<1>1. ASSUME NEW i \in Itf, NEW k \in Kind, Thunk(i, k) PROVE OnlyBigWaits'
    BY <1>1 DEF Thunk, Receive, WaitRoom, WaitGiveUp, Commit, OnlyBigWaits
<1>2. ASSUME NEW i \in Itf, Core1(i) PROVE OnlyBigWaits'
    BY <1>2, Core1Keeps DEF core0Vars, OnlyBigWaits
<1>3. CASE Tick
    BY <1>3 DEF Tick, OnlyBigWaits
<1>4. QED
    BY <1>1, <1>2, <1>3 DEF Next

LEMMA TickSeenNext ==
    ASSUME Flashing, Types, Attached, TickSeen, Next
    PROVE  TickSeen'
<1>0. waited \in Nat /\ passed \in BOOLEAN /\ ticked \in BOOLEAN
    BY TimeAssumption DEF Types, Spin, Flags
<1>1. ASSUME NEW i \in Itf, NEW k \in Kind, Thunk(i, k) PROVE TickSeen'
    BY <1>1 DEF Thunk, Receive, WaitRoom, WaitGiveUp, Commit, TickSeen
<1>2. ASSUME NEW i \in Itf, Core1(i) PROVE TickSeen'
  <2>1. UNCHANGED <<pc0, waited>>
    BY <1>2, Core1Keeps DEF core0Vars
  <2>2. CASE StartPass
    BY <2>1, <2>2 DEF StartPass, TickSeen
  <2>3. CASE ~StartPass
    <3>1. ServicesNothing \/ ForwardNext(i) \/ ForwardSend(i)
      BY <1>2, <2>3, AttachedSteps DEF Core1, TaskNothing, ControlDone, InterruptDone
    <3>2. ticked' = ticked /\ pc1 # Task
      BY <3>1, Ends DEF ServicesNothing, ServicesDone, ForwardNext, ForwardSend, Forwarding
    <3>3. QED
      BY <2>1, <3>2 DEF TickSeen
  <2>4. QED
    BY <2>2, <2>3
<1>3. CASE Tick
  <2>1. passed /\ ~passed' /\ pc1' = Task /\ UNCHANGED <<pc0, ticked>>
    BY <1>3 DEF Tick, Core1Settled, Attached
  <2>2. pc0 = "wait" => waited' = waited + 1
    BY <1>3 DEF Tick
  <2>3. QED
    BY <1>0, <2>1, <2>2 DEF TickSeen
<1>4. QED
    BY <1>1, <1>2, <1>3 DEF Next

\* The block that waits is one for the first interface.
LEMMA FirstWaits ==
    ASSUME Flashing, Types, OnlyBigWaits, pc0 = "wait"
    PROVE  First \notin OutEp /\ \E k \in Kind : cur = {<<First, k>>}
<1>1. PICK i \in Itf, k \in Kind : cur = {<<i, k>>} /\ k \in Sends[i]
    BY SendsAssumption DEF Types, Spin
<1>2. Big(k)
    BY <1>1 DEF OnlyBigWaits
<1>3. QED
    BY <1>1, <1>2 DEF Flashing

\* A ring that is still full after a step was full before it, and the step did
\* not pop it.
LEMMA StillFull ==
    ASSUME Types, NEW i \in Itf, Core1(i), ~Room(First)'
    PROVE  ~Room(First) /\ ~(tail'[First] = tail[First] + 1) /\ Queued(First)
<1>0. /\ N \in Nat /\ N >= 2 /\ First \in Itf
      /\ tail[First] \in Nat /\ Len(log[First]) \in Nat /\ Len(log[First]) - tail[First] < N
    BY RingAssumption, Ends DEF Types, Rings
<1>1. log' = log /\ tail'[First] \in Nat /\ tail[First] <= tail'[First]
    BY <1>0, PopShortens DEF Types
<1>2. ~(Len(log[First]) - tail'[First] < N - 1)
    BY <1>1 DEF Room
<1>3. QED
    BY <1>0, <1>1, <1>2 DEF Room, Queued

\* The first interface gets its turn when the control pipe is free and its
\* hold-off is over.
LEMMA FirstIsServed ==
    ASSUME Types, Attached, First \notin OutEp, Core1(First),
           pc1 = First, ~Room(First)', hold[First] = 0, ctl = {}
    PROVE  FALSE
<1>1. First \in Itf
    BY Ends
<1>2. CanSend(First)
  <2>1. ByControl(First, log[First][tail[First] + 1])
    BY DEF ByControl
  <2>2. QED
    BY <1>1, <2>1, StillFull DEF CanSend, Accepted, Attached
<1>3. ForwardSend(First)
  <2>1. ~(TaskNothing \/ Unplug \/ Mount(First) \/ ServicesNothing \/ PowerOff \/ LinkService \/ Wedge)
    BY Ends DEF TaskNothing, Unplug, Mount, StartPass, ServicesNothing, PowerOff,
       LinkService, ServicesDone, Wedge
  <2>2. ~\E p \in 1 .. Budget : ControlDone(First, p) \/ InterruptDone(First, p)
    BY Ends DEF ControlDone, InterruptDone, StartPass
  <2>3. ~ForwardNext(First) /\ ~ForwardDiscard(First)
    BY <1>1, <1>2 DEF ForwardNext, ForwardDiscard, MustDiscard, Attached
  <2>4. QED
    BY <2>1, <2>2, <2>3 DEF Core1
<1>4. tail'[First] = tail[First] + 1
    BY <1>1, <1>3 DEF ForwardSend, Types, Rings
<1>5. QED
    BY <1>1, <1>4, StillFull

LEMMA WaitNext ==
    ASSUME Flashing, Types, Attached, OnlyBigWaits, WaitBounded, Next
    PROVE  WaitBounded'
<1>0. /\ Erase \in Nat /\ XferMax \in Nat /\ waited \in Nat /\ ctlAge \in Nat
      /\ First \in Itf /\ hold \in [Itf -> 0 .. Erase] /\ hold[First] \in 0 .. Erase
      /\ passed \in BOOLEAN
    BY TimeAssumption, Ends DEF Types, Spin, Transfers, Times, Flags
<1>1. ASSUME NEW i \in Itf, NEW k \in Kind, Thunk(i, k) PROVE WaitBounded'
  <2>1. CASE Receive(i, k)
    <3>1. waited' = 0 /\ hold' = hold
      BY <2>1 DEF Receive, core1Vars
    <3>2. QED
      BY <1>0, <3>1 DEF WaitBounded
  <2>2. CASE ~Receive(i, k)
    <3>1. pc0' # "wait"
      BY <1>1, <2>2 DEF Thunk, WaitRoom, WaitGiveUp, Commit
    <3>2. QED
      BY <3>1 DEF WaitBounded
  <2>3. QED
    BY <2>1, <2>2
<1>2. ASSUME NEW i \in Itf, Core1(i), pc0 = "wait", ~Room(First)' ,
             \/ hold'[First] # hold[First]
             \/ waited > 0 /\ hold[First] = 0 /\ ctl = {} /\ (ctl' # {} \/ ~FirstIsNext')
             \/ waited > 0 /\ hold[First] = 0 /\ ctl' # {} /\ ctlAge' # ctlAge
             \/ waited > 0 /\ hold[First] = 0 /\ ctl' = {} /\ ctl # {} /\ ~FirstIsNext'
      PROVE  FALSE
  <2>1. First \notin OutEp /\ ~Room(First)
    BY <1>2, FirstWaits, StillFull
  <2>2. hold'[First] = hold[First]
    <3>1. CASE hold' = [hold EXCEPT ![i] = 0] /\ ~mounted[i]
      BY <3>1 DEF Attached
    <3>2. CASE ForwardSend(i)
      <4>1. i # First
        BY <1>0, <1>2, <3>2, StillFull, SendGoes DEF Types, Rings
      <4>2. QED
        BY <1>0, <3>2, <4>1, SendGoes DEF Types
    <3>3. QED
      BY <1>2, <3>1, <3>2, HoldGoes
  <2>3. waited > 0 /\ hold[First] = 0
    BY <1>2, <2>2
  <2>4. ctl = {} => FirstIsNext
    BY <1>2, <2>1, <2>3 DEF WaitBounded
  <2>5. CASE StartPass
    <3>1. FirstIsNext' /\ pc1 = Task
      BY <2>5 DEF StartPass, FirstIsNext
    <3>2. ~ForwardSend(i)
      BY <3>1, Ends DEF ForwardSend, Forwarding
    <3>3. ctl' = {} \/ (ctl' = ctl /\ ctlAge' = ctlAge)
      BY <1>2, <3>2, TransferGoes DEF ControlDone, InterruptDone, Unplug
    <3>4. QED
      BY <1>2, <2>2, <3>1, <3>3
  <2>6. CASE ServicesNothing
    <3>1. FirstIsNext' /\ UNCHANGED <<ctl, ctlAge>>
      BY <2>6 DEF ServicesNothing, ServicesDone, xferVars, FirstIsNext
    <3>2. QED
      BY <1>2, <2>2, <3>1
  <2>7. CASE ForwardNext(i) \/ ForwardSend(i)
    <3>1. pc1 = i
      BY <2>7 DEF ForwardNext, ForwardSend, Forwarding
    <3>2. ctl # {} \/ i # First
      BY <1>2, <2>1, <2>3, <3>1, FirstIsServed
    <3>3. ctl # {}
      BY <2>4, <3>1, <3>2, Ends DEF FirstIsNext
    <3>4. UNCHANGED <<ctl, ctlAge>>
      BY <2>7, <3>3, SendGoes DEF ForwardNext, xferVars, Types
    <3>5. QED
      BY <1>2, <2>2, <3>3, <3>4
  <2>8. QED
    BY <1>2, <2>5, <2>6, <2>7, AttachedSteps DEF Core1, TaskNothing, ControlDone, InterruptDone
<1>3. ASSUME NEW i \in Itf, Core1(i) PROVE WaitBounded'
  <2> SUFFICES ASSUME pc0 = "wait", ~Room(First)'
               PROVE  WaitBounded'
    BY <1>3, Core1Keeps DEF core0Vars, WaitBounded
  <2>1. UNCHANGED <<pc0, waited>> /\ ~Room(First)
    BY <1>3, Core1Keeps, StillFull DEF core0Vars
  <2>2. hold'[First] = hold[First]
    BY <1>2, <1>3
  <2>3. /\ waited > 0 /\ hold[First] = 0 /\ ctl = {} => ctl' = {} /\ FirstIsNext'
        /\ waited > 0 /\ hold[First] = 0 /\ ctl' # {} => ctlAge' = ctlAge
        /\ waited > 0 /\ hold[First] = 0 /\ ctl' = {} /\ ctl # {} => FirstIsNext'
    BY <1>2, <1>3
  <2>4. QED
    BY <1>0, <2>1, <2>2, <2>3 DEF WaitBounded
<1>4. CASE Tick
  <2> SUFFICES ASSUME pc0 = "wait" PROVE WaitBounded'
    BY <1>4 DEF Tick, WaitBounded
  <2>1. PICK k \in Kind : cur = {<<First, k>>}
    BY FirstWaits
  <2>2. ~Room(First)
    BY <1>4, <2>1 DEF Tick, ThunkSettled
  <2>3. /\ waited' = waited + 1 /\ hold'[First] = Less(hold[First]) /\ ctl' = ctl
        /\ ctlAge' = IF ctl # {} THEN ctlAge + 1 ELSE ctlAge
        /\ pc1 = Task /\ pc1' = Task /\ passed /\ ~passed' /\ (ctl # {} => ctlAge < XferMax)
    BY <1>0, <1>4 DEF Tick, Core1Settled, Attached
  <2>4. FirstIsNext' /\ ~FirstIsNext
    BY <2>3, Ends DEF FirstIsNext
  <2>5. hold[First] > 0 => waited + hold[First] <= Erase
    BY <2>2 DEF WaitBounded
  <2>6. hold[First] = 0 /\ ctl # {} => waited = 0 \/ waited <= Erase + ctlAge
    BY <2>2 DEF WaitBounded
  <2>7. waited = 0 \/ hold[First] > 0 \/ ctl # {}
    BY <1>0, <2>2, <2>4 DEF WaitBounded
  <2>8. CASE hold[First] > 0
    <3>1. hold'[First] = hold[First] - 1 /\ hold[First] \in Nat
      BY <1>0, <2>3, <2>8 DEF Less
    <3>2. waited' + hold'[First] <= Erase /\ waited' <= Erase
      BY <1>0, <2>3, <2>5, <2>8, <3>1
    <3>3. ctlAge' \in Nat
      BY <1>0, <2>3
    <3>4. QED
      BY <1>0, <2>3, <2>4, <3>1, <3>2, <3>3 DEF WaitBounded
  <2>9. CASE hold[First] = 0
    <3>1. hold'[First] = 0
      BY <2>3, <2>9 DEF Less
    <3>2. CASE ctl # {}
      <4>1. ctlAge' = ctlAge + 1 /\ ctlAge' <= XferMax
        BY <1>0, <2>3, <3>2
      <4>3. waited' <= Erase + ctlAge'
        BY <1>0, <2>3, <2>6, <2>9, <3>2, <4>1
      <4>4. waited' <= Erase + XferMax
        BY <1>0, <2>3, <4>1, <4>3
      <4>5. QED
        BY <2>3, <3>1, <3>2, <4>3, <4>4 DEF WaitBounded
    <3>3. CASE ctl = {}
      <4>1. waited' = 1
        BY <2>3, <2>7, <2>9, <3>3
      <4>2. QED
        BY <2>3, <2>4, <3>1, <3>3, <4>1 DEF WaitBounded
    <3>4. QED
      BY <3>2, <3>3
  <2>10. QED
    BY <1>0, <2>8, <2>9
<1>5. QED
  BY <1>1, <1>3, <1>4 DEF Next

\* Neither of the two reasons to give a block up arises.
LEMMA NoGiveUp ==
    ASSUME Flashing, Types, TickSeen, WaitBounded, pc0 = "wait"
    PROVE  ~WaitOver /\ ~CoreStopped
<1>1. {Block, Erase, XferMax, Grace} \subseteq Nat /\ waited \in Nat
    BY TimeAssumption DEF Types, Spin
<1>2. Block > Erase + XferMax /\ Block > 1 /\ Grace >= 1
    BY DEF Flashing
<1>3. ~WaitOver
    BY <1>1, <1>2 DEF WaitBounded, WaitOver
<1>4. ~CoreStopped
    BY <1>1, <1>2 DEF TickSeen, CoreStopped
<1>5. QED
    BY <1>3, <1>4

LEMMA NothingLost ==
    ASSUME Flashing, Types, Attached, TickSeen, WaitBounded, NoBlockLost, Next
    PROVE  NoBlockLost'
<1>1. ASSUME NEW i \in Itf, NEW k \in Kind, Receive(i, k) PROVE NoBlockLost'
    BY <1>1 DEF Receive, DropReport, NoBlockLost
<1>2. ASSUME NEW i \in Itf, NEW k \in Kind, WaitRoom(i, k) \/ Commit(i, k)
      PROVE  NoBlockLost'
    BY <1>2 DEF WaitRoom, Commit, NoBlockLost
<1>3. ASSUME NEW i \in Itf, NEW k \in Kind, WaitGiveUp(i, k) PROVE NoBlockLost'
    BY <1>3, NoGiveUp DEF WaitGiveUp
<1>4. ASSUME NEW i \in Itf, Core1(i) PROVE NoBlockLost'
  <2>1. CASE \E p \in 1 .. Budget : ControlDone(i, p) \/ InterruptDone(i, p)
    BY <2>1 DEF ControlDone, InterruptDone, NoBlockLost
  <2>2. CASE TaskNothing \/ ServicesNothing
    BY <2>2 DEF TaskNothing, ServicesNothing, lossVars, NoBlockLost
  <2>3. CASE ForwardNext(i) \/ ForwardSend(i)
    BY <2>3 DEF ForwardNext, ForwardSend, lossVars, NoBlockLost
  <2>4. QED
    BY <1>4, <2>1, <2>2, <2>3, AttachedSteps DEF Core1
<1>5. CASE Tick
    BY <1>5 DEF Tick, lossVars, NoBlockLost
<1>6. QED
    BY <1>1, <1>2, <1>3, <1>4, <1>5 DEF Next, Thunk

\* set_report_thunk gives up no firmware block as long as the key stays
\* attached and core 1 runs: its wait outlasts forward_out's erase hold-off and
\* a transfer that another interface has on the control pipe when it ends,
\* because the bootloader's interface has its turn first in every pass.
THEOREM BlocksSurvive ==
    ASSUME Flashing
    PROVE  Spec => []NoBlockLost
<1> DEFINE Inv == Types /\ Attached /\ OnlyBigWaits /\ TickSeen /\ WaitBounded /\ NoBlockLost
<1>1. Init => Inv
  <2> SUFFICES ASSUME Init PROVE Inv
    OBVIOUS
  <2>1. Attached
    BY DEF Init, Flashing, Attached
  <2>2. OnlyBigWaits /\ TickSeen /\ WaitBounded /\ NoBlockLost
    BY DEF Init, OnlyBigWaits, TickSeen, WaitBounded, NoBlockLost
  <2>3. QED
    BY <2>1, <2>2, TypesInit
<1>2. Inv /\ [Next]_vars => Inv'
  <2> SUFFICES ASSUME Inv, [Next]_vars PROVE Inv'
    OBVIOUS
  <2>1. CASE Next
    BY <2>1, TypesNext, AttachedNext, OnlyBigNext, TickSeenNext, WaitNext, NothingLost
  <2>2. CASE UNCHANGED vars
    <3>1. /\ UNCHANGED <<alive, plugs, settle, mounted, bound, pc0, cur, waited, ticked>>
          /\ UNCHANGED <<passed, pc1, log, tail, hold, ctl, ctlAge, lost>>
      BY <2>2 DEF vars, thunkVars, linkVars, xferVars, lossVars
    <3>2. Attached' /\ OnlyBigWaits' /\ TickSeen' /\ NoBlockLost'
      BY <3>1 DEF Attached, OnlyBigWaits, TickSeen, NoBlockLost
    <3>3. WaitBounded'
      BY <3>1 DEF WaitBounded, Room, FirstIsNext
    <3>4. QED
      BY <2>2, <3>2, <3>3, TypesNext
  <2>3. QED
    BY <2>1, <2>2
<1>3. QED
  <2> HIDE DEF Inv
  <2>1. Inv => NoBlockLost
    BY DEF Inv
  <2>2. QED
    BY <1>1, <1>2, <2>1, PTL DEF Spec
=============================================================================
