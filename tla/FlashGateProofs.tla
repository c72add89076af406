--------------------------- MODULE FlashGateProofs ---------------------------
(***************************************************************************)
(* Proofs about the health line's counters and about the flasher that goes *)
(* by them, for images of any size, rings of any length and any number of  *)
(* reports, resets and faults: the counts never hide a loss, a reading     *)
(* that passes the gate vouches for every block settled by then, and one   *)
(* with nothing wrong passes.                                              *)
(***************************************************************************)
EXTENDS FlashGate, TLAPS

---------------------------------------------------------------------------
(* The counters alone: a loss is never hidden, flag and count agree *)

\* What a loaded and a stored value are.
Values ==
    /\ dropped \in Nat /\ seen \in Nat /\ sent \in Nat
    /\ pc \in [Actor -> {"idle", "store", "flag", "storeSent", "zeroDropped", "zeroFlag"}]
    /\ reg \in [Actor -> Nat]

\* Between its store and its flag a drop is already in the count: only the
\* loop zeroes it, and not while it or the interrupt is at that point.  The
\* flag is ahead of the count only between the last two steps of a reset.
CountFirst ==
    /\ pc["core1"] # "flag"
    /\ \A a \in Actor : pc[a] = "flag" => dropped > 0
    /\ flag => dropped > 0 \/ pc["loop"] = "zeroFlag"

CountInv == Values /\ DropStaysVisible /\ CountFirst

LEMMA InitCount == Init => CountInv
    BY DEF Init, CountInv, Values, DropStaysVisible, CountFirst, Actor

LEMMA NextCount == CountInv /\ [Next]_vars => CountInv'
<1> SUFFICES ASSUME CountInv, [Next]_vars PROVE CountInv'
    OBVIOUS
<1> USE DEF CountInv, Values, DropStaysVisible, CountFirst, Actor, At, Goto
<1>1. ASSUME NEW a \in Actor, LoadDropped(a) PROVE CountInv'
    BY <1>1 DEF LoadDropped
<1>2. ASSUME NEW a \in Actor, StoreDropped(a) PROVE CountInv'
  <2>1. dropped' \in Nat /\ dropped' > 0 /\ seen' \in Nat
    BY <1>2 DEF StoreDropped
  <2>2. Values'
    BY <1>2, <2>1 DEF StoreDropped
  <2>3. DropStaysVisible'
    BY <2>1
  <2>4. pc'["core1"] # "flag" /\ (pc["loop"] = "zeroFlag" => a # "loop")
    BY <1>2 DEF StoreDropped
  <2>5. CountFirst'
    BY <2>1, <2>4
  <2>6. QED
    BY <2>2, <2>3, <2>5
<1>3. ASSUME NEW a \in Actor, SetFlag(a) PROVE CountInv'
  <2>1. dropped' = dropped /\ dropped > 0
    BY <1>3 DEF SetFlag
  <2>2. Values' /\ DropStaysVisible'
    BY <1>3 DEF SetFlag
  <2>5. pc'["core1"] # "flag"
    BY <1>3 DEF SetFlag
  <2>3. CountFirst'
    BY <2>1, <2>5
  <2>4. QED
    BY <2>2, <2>3
<1>4. CASE LoadSent
  <2>1. dropped' = dropped /\ seen' = seen /\ flag' = flag /\ sent' = sent
    BY <1>4 DEF LoadSent
  <2>2. pc' = [pc EXCEPT !["core1"] = "storeSent"]
    BY <1>4 DEF LoadSent
  <2>3. reg' \in [Actor -> Nat]
    BY <1>4 DEF LoadSent, Values
  <2>4. Values'
    BY <2>1, <2>2, <2>3
  <2>5. DropStaysVisible'
    BY <2>1
  <2>6. CountFirst'
    BY <2>1, <2>2
  <2>7. QED
    BY <2>4, <2>5, <2>6
<1>5. CASE StoreSent
    BY <1>5 DEF StoreSent
<1>6. CASE ZeroSent
    BY <1>6 DEF ZeroSent
<1>7. CASE ZeroDropped
  <2>1. pc["loop"] = "zeroDropped" /\ pc["irq"] = "idle"
    BY <1>7 DEF ZeroDropped
  <2>2. pc' = [pc EXCEPT !["loop"] = "zeroFlag"]
    BY <1>7 DEF ZeroDropped
  <2>3. Values' /\ DropStaysVisible'
    BY <1>7 DEF ZeroDropped
  <2>4. CountFirst'
    BY <2>1, <2>2
  <2>5. QED
    BY <2>3, <2>4
<1>8. CASE ZeroFlag
    BY <1>8 DEF ZeroFlag
<1>9. CASE UNCHANGED vars
    BY <1>9 DEF vars
<1>10. QED
    BY <1>1, <1>2, <1>3, <1>4, <1>5, <1>6, <1>7, <1>8, <1>9 DEF Next

\* A report that was thrown away since the last reset shows in the count, in
\* whatever order the two cores and the interrupt load, store and zero it.
THEOREM LossVisible == Spec => []DropStaysVisible
<1>1. CountInv => DropStaysVisible
    BY DEF CountInv
<1>2. QED
    BY <1>1, InitCount, NextCount, PTL DEF Spec

\* A flag that is up goes with a count above zero once core 0 is done with it.
THEOREM FlagHonest == Spec => []FlagIsCounted
<1>1. CountInv => FlagIsCounted
    BY DEF CountInv, CountFirst, FlagIsCounted
<1>2. QED
    BY <1>1, InitCount, NextCount, PTL DEF Spec

---------------------------------------------------------------------------
(* Counters as part of the whole *)

\* The board is Counters, left alone by the flasher, until it restarts.
LEMMA GateCounts ==
    ASSUME GateNext
    PROVE  Next \/ UNCHANGED vars \/ Restarts
<1> USE DEF Next, Actor
<1>1. CASE Flasher
  <2>1. CASE WriteBlock
    BY <2>1 DEF WriteBlock, Arrive
  <2>2. CASE Reboot
    BY <2>2 DEF Reboot, Arrive
  <2>3. CASE Zero
    BY <2>3 DEF Zero
  <2>4. CASE ~WriteBlock /\ ~Reboot /\ ~Zero
    BY <1>1, <2>4 DEF Flasher, StartRead, StartUnread, Zeroed, WriteFails, CheckRead,
       CheckUnread, CheckLost, Finish, LastRead, LastUnread
  <2>5. QED
    BY <2>1, <2>2, <2>3, <2>4
<1>2. CASE Board
  <2>1. ASSUME NEW a \in Actor, Count(a) PROVE Next
    BY <2>1 DEF Count
  <2>2. CASE Forward \/ Discard \/ Injected
    BY <2>2 DEF Forward, Discard, Injected
  <2>3. CASE Lands \/ Fails \/ TimesOut \/ Unplug \/ Leaves \/ Wedges \/ Shows
    BY <2>3 DEF Lands, Fails, TimesOut, Unplug, Leaves, Wedges, Shows
  <2>4. QED
    BY <1>2, <2>1, <2>2, <2>3 DEF Board
<1>3. QED
    BY <1>1, <1>2 DEF GateNext

LEMMA GateCountInit == GateInit => CountInv
    BY DEF GateInit, CountInv, Values, DropStaysVisible, CountFirst, Actor

LEMMA GateCountNext == CountInv /\ [GateNext]_gateVars => CountInv'
<1> SUFFICES ASSUME CountInv, [GateNext]_gateVars PROVE CountInv'
    OBVIOUS
<1>1. CASE Restarts
    BY <1>1 DEF Restarts, CountInv, Values, DropStaysVisible, CountFirst, Actor
<1>2. CASE [Next]_vars
    BY <1>2, NextCount
<1>3. UNCHANGED gateVars => UNCHANGED vars
    BY DEF gateVars
<1>4. QED
    BY <1>1, <1>2, <1>3, GateCounts

\* A report dropped since the counts were zeroed shows, however the flasher's
\* reset, the interrupt, core 1 and a restart of the board come together.
THEOREM GateLossVisible == GateSpec => []DropStaysVisible
<1>1. CountInv => DropStaysVisible
    BY DEF CountInv
<1>2. QED
    BY <1>1, GateCountInit, GateCountNext, PTL DEF GateSpec

---------------------------------------------------------------------------
(* The gate *)

Running == {"zero", "zeroing", "block", "check", "reboot", "after"}

Shape ==
    /\ written \in Nat /\ pio \in Nat /\ queue \in Seq(Nat)
    /\ mute \in BOOLEAN /\ up \in BOOLEAN

\* Nothing is written before the counts are zeroed, and they are zeroed then
\* only.
ZeroedFirst ==
    /\ step \in {"start", "zero", "zeroing"} => written = 0
    /\ up /\ pc["loop"] \in {"zeroDropped", "zeroFlag"} => step = "zeroing"

\* The bus has timed out since the first reading, or not at all.
Baseline ==
    ~mute /\ step \in Running => base \in Nat /\ (up => base <= pio)

\* A block that was lost shows in what the next reading will see.
Evidence ==
    ~mute /\ up /\ step \in Running /\ Lost # {} =>
        seen > 0 \/ pio > base \/ pc["irq"] = "store"

GateInv == CountInv /\ Shape /\ ZeroedFirst /\ Baseline /\ Evidence /\ KnownLanded

\* Appending adds the last element to those of a sequence.
LEMMA ElementsAppend ==
    ASSUME NEW s \in Seq(Nat), NEW e \in Nat
    PROVE  LET t == Append(s, e) IN
           {t[k] : k \in 1 .. Len(t)} = {s[k] : k \in 1 .. Len(s)} \cup {e}
<1> DEFINE t == Append(s, e)
<1>1. Len(t) = Len(s) + 1 /\ Len(s) \in Nat
    OBVIOUS
<1>2. t[Len(s) + 1] = e /\ \A k \in 1 .. Len(s) : t[k] = s[k]
    OBVIOUS
<1>3. 1 .. Len(t) = (1 .. Len(s)) \cup {Len(s) + 1}
    BY <1>1
<1> HIDE DEF t
<1>4. {t[k] : k \in 1 .. Len(t)} = {t[k] : k \in 1 .. Len(s)} \cup {t[Len(s) + 1]}
    BY <1>3
<1>5. {t[k] : k \in 1 .. Len(s)} = {s[k] : k \in 1 .. Len(s)}
    BY <1>2
<1>6. QED
    BY <1>2, <1>4, <1>5 DEF t

\* The tail of a sequence misses none of its elements but the first.
LEMMA ElementsTail ==
    ASSUME NEW s \in Seq(Nat), s # <<>>
    PROVE  LET t == Tail(s) IN
           /\ t \in Seq(Nat) /\ Head(s) \in Nat
           /\ {s[k] : k \in 1 .. Len(s)} \subseteq {t[k] : k \in 1 .. Len(t)} \cup {Head(s)}
<1> DEFINE t == Tail(s)
<1>1. t \in Seq(Nat) /\ Len(t) = Len(s) - 1 /\ Len(s) \in Nat /\ Len(s) > 0
    OBVIOUS
<1>2. Head(s) = s[1] /\ Head(s) \in Nat
    OBVIOUS
<1>3. ASSUME NEW k \in 1 .. Len(s), k # 1 PROVE k - 1 \in 1 .. Len(t) /\ t[k - 1] = s[k]
    BY <1>1, <1>3
<1> HIDE DEF t
<1>4. ASSUME NEW k \in 1 .. Len(s)
      PROVE  s[k] \in {t[j] : j \in 1 .. Len(t)} \cup {Head(s)}
    BY <1>2, <1>3
<1>5. QED
    BY <1>1, <1>2, <1>4 DEF t

\* What every step of the board does for the parts of the invariant that look
\* at the flasher only through what it leaves alone: it is enough that blocks
\* are settled with evidence, and that the bus counter does not go back.
LEMMA BoardKeeps ==
    ASSUME GateInv, CountInv', UNCHANGED flasher,
           queue' \in Seq(Nat), pio' \in Nat, up' \in BOOLEAN,
           up' => up /\ pio <= pio',
           up' /\ pc'["loop"] \in {"zeroDropped", "zeroFlag"} =>
               pc["loop"] \in {"zeroDropped", "zeroFlag"},
           image \subseteq image', silent \subseteq silent',
           \/ ~up'
           \/ Lost' = {}
           \/ Lost' \subseteq Lost /\ seen' >= seen /\
              (pc["irq"] = "store" => pc'["irq"] = "store")
           \/ seen' > 0
           \/ pio' > pio /\ up
    PROVE  GateInv'
<1> USE DEF GateInv, flasher
<1>1. Shape'
    BY DEF Shape
<1>2. ZeroedFirst'
    BY DEF ZeroedFirst
<1>3. Baseline'
    BY DEF Baseline, Shape
<1>4. KnownLanded'
    BY DEF KnownLanded
<1>5. Evidence'
  <2> SUFFICES ASSUME ~mute', up', step' \in Running, Lost' # {}
               PROVE  seen' > 0 \/ pio' > base' \/ pc'["irq"] = "store"
    BY DEF Evidence
  <2>1. base \in Nat /\ base <= pio /\ base' = base
    BY DEF Baseline
  <2>2. seen \in Nat /\ seen' \in Nat /\ pio \in Nat /\ pio' \in Nat
    BY DEF CountInv, Values, Shape
  <2>3. CASE Lost' \subseteq Lost /\ seen' >= seen /\
             (pc["irq"] = "store" => pc'["irq"] = "store")
    BY <2>1, <2>2, <2>3 DEF Evidence
  <2>4. CASE seen' > 0 \/ pio' > pio
    BY <2>1, <2>2, <2>4
  <2>5. QED
    BY <2>3, <2>4
<1>6. QED
    BY <1>1, <1>2, <1>3, <1>4, <1>5

\* The board's steps, one by one.
LEMMA BoardInv == GateInv /\ CountInv' /\ Board => GateInv'
<1> SUFFICES ASSUME GateInv, CountInv', Board PROVE GateInv'
    OBVIOUS
<1>a. seen \in Nat /\ seen' \in Nat /\ pio \in Nat /\ queue \in Seq(Nat) /\ up \in BOOLEAN
    BY DEF GateInv, CountInv, Values, Shape
<1>b. pc \in [Actor -> {"idle", "store", "flag", "storeSent", "zeroDropped", "zeroFlag"}]
    BY DEF GateInv, CountInv, Values
<1>1. CASE Forward
  <2>1. Waiting \subseteq Waiting' \cup wire' /\ queue' \in Seq(Nat)
    BY <1>1, <1>a, ElementsTail DEF Forward, Waiting
  <2>2. Lost' \subseteq Lost
    BY <1>1, <2>1 DEF Forward, Lost, Settled, Written, flasher, fate
  <2>3. pc'["irq"] = pc["irq"] /\ pc'["loop"] = pc["loop"] /\ seen' = seen
    BY <1>1, <1>b DEF Forward, LoadSent, Goto, Actor
  <2>4. QED
    BY <1>1, <1>a, <2>1, <2>2, <2>3, BoardKeeps DEF Forward, fate
<1>2. CASE Discard
  <2>1. Waiting \subseteq Waiting' \cup wire' /\ queue' \in Seq(Nat)
    BY <1>2, <1>a, ElementsTail DEF Discard, Waiting
  <2>2. Lost' \subseteq Lost
    BY <1>2, <2>1 DEF Discard, Lost, Settled, Written, flasher
  <2>3. pc'["irq"] = pc["irq"] /\ pc'["loop"] = pc["loop"] /\ seen' = seen
    BY <1>2, <1>b DEF Discard, LoadDropped, Goto, Actor
  <2>4. QED
    BY <1>2, <1>a, <2>1, <2>2, <2>3, BoardKeeps DEF Discard
<1>3. CASE Injected
  <2>1. Lost' = Lost
    BY <1>3 DEF Injected, Lost, Settled, Written, Waiting, flasher, board
  <2>2. pc'["irq"] = pc["irq"] /\ pc'["loop"] = "store" /\ seen' = seen
    BY <1>3, <1>b DEF Injected, LoadDropped, Goto, Actor
  <2>3. QED
    BY <1>3, <1>a, <2>1, <2>2, BoardKeeps DEF Injected, board
<1>4. CASE Lands
  <2>1. Lost' \subseteq Lost
    BY <1>4 DEF Lands, Lost, Settled, Written, Waiting, flasher
  <2>2. QED
    BY <1>4, <1>a, <2>1, BoardKeeps DEF Lands, vars
<1>5. CASE Fails
  <2>1. Lost' \subseteq Lost
    BY <1>5 DEF Fails, Lost, Settled, Written, Waiting, flasher
  <2>2. QED
    BY <1>5, <1>a, <2>1, BoardKeeps DEF Fails, vars
<1>6. CASE TimesOut
  <2>1. UNCHANGED flasher /\ UNCHANGED <<vars, up, queue, image, silent>>
    BY <1>6 DEF TimesOut
  <2>2. pio' = pio + 1 /\ pio' > pio /\ pio <= pio' /\ pio' \in Nat
    BY <1>6, <1>a DEF TimesOut
  <2>3. pc' = pc /\ up' = up /\ queue' = queue /\ image' = image /\ silent' = silent
    BY <2>1 DEF vars
  <2>4. QED
    BY <2>1, <2>2, <2>3, <1>a, BoardKeeps
<1>7. CASE Unplug
  <2>1. Lost' \subseteq Lost
    BY <1>7 DEF Unplug, Lost, Settled, Written, Waiting, flasher
  <2>2. QED
    BY <1>7, <1>a, <2>1, BoardKeeps DEF Unplug, vars
<1>8. CASE Leaves
  <2>1. UNCHANGED flasher /\ ~up' /\ up' \in BOOLEAN /\ queue' = <<>> /\ pio' = pio
    BY <1>8 DEF Leaves
  <2>2. image' = image /\ silent' = silent
    BY <1>8 DEF Leaves, fate
  <2>3. queue' \in Seq(Nat)
    BY <2>1
  <2>4. QED
    BY <2>1, <2>2, <2>3, <1>a, BoardKeeps
<1>9. CASE Wedges \/ Shows
  <2>1. Lost' = Lost
    BY <1>9 DEF Wedges, Shows, Lost, Settled, Written, Waiting, flasher, fate
  <2>2. QED
    BY <1>9, <1>a, <2>1, BoardKeeps DEF Wedges, Shows, vars, fate
<1>10. CASE Restarts
  <2>1. UNCHANGED flasher /\ ~up' /\ up' \in BOOLEAN /\ queue' = <<>> /\ pio' = 0
    BY <1>10 DEF Restarts
  <2>2. image' = image /\ silent' = silent
    BY <1>10 DEF Restarts, fate
  <2>3. queue' \in Seq(Nat)
    BY <2>1
  <2>4. QED
    BY <2>1, <2>2, <2>3, <1>a, BoardKeeps
<1>11. ASSUME NEW a \in Actor, Count(a) PROVE GateInv'
  <2> USE DEF Count, Goto, At
  <2>1. CASE StoreDropped(a)
    <3>1. seen' > 0
      BY <2>1, <1>a DEF StoreDropped
    <3>2. pc'["loop"] = pc["loop"] \/ pc'["loop"] \in {"idle", "flag"}
      BY <2>1, <1>b DEF StoreDropped, Actor
    <3>3. QED
      BY <1>11, <1>a, <3>1, <3>2, BoardKeeps DEF fate
  <2>2. CASE ~StoreDropped(a)
    <3>1. /\ SetFlag(a) \/ StoreSent \/ ZeroDropped \/ ZeroFlag
          /\ UNCHANGED wire /\ UNCHANGED <<up, pio, queue, flasher, fate>>
      BY <1>11, <2>2
    <3>2. Lost' = Lost
      BY <3>1 DEF Lost, Settled, Written, Waiting, flasher, fate
    <3>3. CASE SetFlag(a)
      <4>1. pc["irq"] = "store" => pc'["irq"] = "store"
        BY <3>3, <1>b DEF SetFlag, Actor
      <4>2. pc'["loop"] = pc["loop"] \/ pc'["loop"] = "idle"
        BY <3>3, <1>b DEF SetFlag, Actor
      <4>3. QED
        BY <3>1, <3>2, <3>3, <4>1, <4>2, <1>a, BoardKeeps DEF SetFlag, fate
    <3>4. CASE StoreSent
      <4>1. pc'["irq"] = pc["irq"] /\ pc'["loop"] = pc["loop"] /\ seen' = seen
        BY <3>4, <1>b DEF StoreSent, Actor
      <4>2. QED
        BY <3>1, <3>2, <4>1, <1>a, BoardKeeps DEF fate
    <3>5. CASE ZeroDropped
      <4>1. pc["loop"] = "zeroDropped"
        BY <3>5 DEF ZeroDropped
      <4>2. CASE ~up
        BY <3>1, <4>1, <4>2, <1>a, BoardKeeps DEF fate
      <4>3. CASE up
        <5>1. written = 0
          BY <4>1, <4>3 DEF GateInv, ZeroedFirst
        <5>2. Lost' = {}
          BY <5>1, <3>2 DEF Lost, Settled, Written
        <5>3. QED
          BY <3>1, <4>1, <5>2, <1>a, BoardKeeps DEF fate
      <4>4. QED
        BY <4>2, <4>3, <1>a
    <3>6. CASE ZeroFlag
      <4>1. pc'["irq"] = pc["irq"] /\ pc'["loop"] = "idle" /\ seen' = seen
        BY <3>6, <1>b DEF ZeroFlag, Actor
      <4>2. QED
        BY <3>1, <3>2, <4>1, <1>a, BoardKeeps DEF fate
    <3>7. QED
      BY <3>1, <3>3, <3>4, <3>5, <3>6
  <2>3. QED
    BY <2>1, <2>2
<1>12. QED
    BY <1>1, <1>2, <1>3, <1>4, <1>5, <1>6, <1>7, <1>8, <1>9, <1>10, <1>11 DEF Board

\* A reading that passes the gate finds no block lost: with no report dropped
\* since the counts were zeroed, no time-out since the first reading and no
\* interrupt under way, there is no evidence of any.
LEMMA CleanReading ==
    ASSUME GateInv, ~mute, step \in Running, HealthRead, ~Bad
    PROVE  Settled \subseteq image \cup silent
<1>1. seen \in Nat /\ dropped \in Nat /\ (seen > 0 => dropped > 0)
    BY DEF GateInv, CountInv, Values, DropStaysVisible
<1>2. ~(seen > 0) /\ pc["irq"] = "idle" /\ up
    BY <1>1 DEF HealthRead, Bad
<1>3. base \in Nat /\ pio = base
    BY GateAssumption DEF GateInv, Baseline, Bad
<1>4. Lost = {}
    BY <1>2, <1>3 DEF GateInv, Evidence
<1>5. QED
    BY <1>4 DEF Lost

\* The flasher's steps that leave the proxy and what is known alone.
LEMMA QuietKeeps ==
    ASSUME GateInv, CountInv', UNCHANGED <<board, fate, written, known, base>>,
           seen' = seen, pc' = pc,
           mute' \in BOOLEAN, mute => mute',
           mute' \/ step' = "ended" \/ (step \in Running /\ step' \in Running),
           step' \in {"start", "zero", "zeroing"} => step \in {"start", "zero", "zeroing"},
           up /\ step = "zeroing" /\ pc["loop"] # "idle" => step' = "zeroing"
    PROVE  GateInv'
<1> USE DEF GateInv, board, fate
<1>1. Shape'
    BY DEF Shape
<1>2. ZeroedFirst'
    BY DEF ZeroedFirst
<1>3. Baseline' /\ KnownLanded'
    BY DEF Baseline, KnownLanded, Running
<1>4. Lost' = Lost
    BY DEF Lost, Settled, Written, Waiting
<1>5. Evidence'
    BY <1>4 DEF Evidence, Running
<1>6. QED
    BY <1>1, <1>2, <1>3, <1>5

\* The steps that write a report: a block that is dropped is one the interrupt
\* is about to count.
LEMMA WriteInv == GateInv /\ CountInv' /\ (WriteBlock \/ Reboot) => GateInv'
<1> SUFFICES ASSUME GateInv, CountInv', WriteBlock \/ Reboot PROVE GateInv'
    OBVIOUS
<1>a. seen \in Nat /\ pio \in Nat /\ queue \in Seq(Nat) /\ written \in Nat
    BY DEF GateInv, CountInv, Values, Shape
<1>b. pc \in [Actor -> {"idle", "store", "flag", "storeSent", "zeroDropped", "zeroFlag"}]
    BY DEF GateInv, CountInv, Values
<1>1. PICK b \in Nat : Arrive(b) /\ written' \in {written, b} /\ b <= written + 1
                       /\ (written' = written \/ written' = written + 1)
    BY <1>a DEF WriteBlock, Reboot
<1>2. /\ step \in {"block", "reboot"} /\ step' \in {"block", "check", "after"}
      /\ UNCHANGED <<code, ser, base, known, mute>>
      /\ UNCHANGED <<up, here, core1, pio, wire, image, silent, faults>> /\ up
    BY <1>1 DEF WriteBlock, Reboot, Arrive
<1>3. Written' \subseteq Written \cup {b}
    BY <1>1, <1>a DEF Written
<1>4. CASE queue' = Append(queue, b) /\ UNCHANGED vars
  <2>1. Waiting' = Waiting \cup {b} /\ queue' \in Seq(Nat)
    BY <1>4, <1>a, <1>1, ElementsAppend DEF Waiting
  <2>2. Lost' \subseteq Lost
    BY <1>2, <1>3, <2>1 DEF Lost, Settled
  <2>3. pc' = pc /\ seen' = seen
    BY <1>4 DEF vars
  <2>4. Shape' /\ ZeroedFirst' /\ Baseline' /\ KnownLanded'
    BY <1>1, <1>2, <1>a, <2>1, <2>3
       DEF GateInv, Shape, ZeroedFirst, Baseline, KnownLanded, Running
  <2>5. Evidence'
    BY <1>2, <2>2, <2>3 DEF GateInv, Evidence, Running
  <2>6. QED
    BY <2>4, <2>5 DEF GateInv
<1>5. CASE LoadDropped("irq") /\ UNCHANGED queue
  <2>1. pc' = [pc EXCEPT !["irq"] = "store"]
    BY <1>5 DEF LoadDropped, Goto
  <2>2. pc'["irq"] = "store" /\ pc'["loop"] = pc["loop"]
    BY <2>1, <1>b DEF Actor
  <2>3. Shape' /\ ZeroedFirst' /\ Baseline' /\ KnownLanded'
    BY <1>1, <1>2, <1>5, <1>a, <2>2
       DEF GateInv, Shape, ZeroedFirst, Baseline, KnownLanded, Running
  <2>4. Evidence'
    BY <2>2 DEF Evidence
  <2>5. QED
    BY <2>3, <2>4 DEF GateInv
<1>6. QED
    BY <1>1, <1>4, <1>5 DEF Arrive

\* The flasher's steps, one by one.
LEMMA FlasherInv == GateInv /\ CountInv' /\ Flasher => GateInv'
<1> SUFFICES ASSUME GateInv, CountInv', Flasher PROVE GateInv'
    OBVIOUS
<1>a. pio \in Nat /\ written \in Nat /\ mute \in BOOLEAN
    BY DEF GateInv, Shape
<1>b. pc \in [Actor -> {"idle", "store", "flag", "storeSent", "zeroDropped", "zeroFlag"}]
    BY DEF GateInv, CountInv, Values
<1>1. CASE StartRead
  <2>1. written = 0 /\ UNCHANGED <<vars, board, fate, written, known, mute>>
        /\ step' \in {"zero", "ended"} /\ (step' = "zero" => base' = pio)
    BY <1>1 DEF StartRead, Exit, GateInv, ZeroedFirst
  <2>2. Lost' = {}
    BY <2>1 DEF Lost, Settled, Written
  <2>3. Shape' /\ ZeroedFirst' /\ Baseline' /\ KnownLanded'
    BY <1>1, <2>1, <1>a
       DEF StartRead, HealthRead, GateInv, Shape, ZeroedFirst, Baseline, KnownLanded,
           Running, vars, board, fate
  <2>4. Evidence'
    BY <2>2 DEF Evidence
  <2>5. QED
    BY <2>3, <2>4 DEF GateInv
<1>2. CASE StartUnread
    BY <1>2, QuietKeeps DEF StartUnread, vars
<1>3. CASE Zero
  <2>1. written = 0 /\ UNCHANGED <<base, written, known, mute, board, fate>>
        /\ step' = "zeroing" /\ step = "zero"
    BY <1>3 DEF Zero, GateInv, ZeroedFirst
  <2>2. Lost' = {}
    BY <2>1 DEF Lost, Settled, Written
  <2>3. Shape' /\ ZeroedFirst' /\ Baseline' /\ KnownLanded'
    BY <2>1 DEF GateInv, Shape, ZeroedFirst, Baseline, KnownLanded, Running, board, fate
  <2>4. Evidence'
    BY <2>2 DEF Evidence
  <2>5. QED
    BY <2>3, <2>4 DEF GateInv
<1>4. CASE Zeroed
    BY <1>4, <1>a, QuietKeeps DEF Zeroed, vars, Running
<1>5. CASE WriteBlock \/ Reboot
    BY <1>5, WriteInv
<1>6. CASE WriteFails \/ Finish \/ LastUnread
    BY <1>6, <1>a, QuietKeeps DEF WriteFails, Finish, LastUnread, Exit, vars
<1>7. CASE CheckUnread
    BY <1>7, QuietKeeps DEF CheckUnread, Onward, Checking, vars
<1>8. CASE CheckLost
    BY <1>8, <1>a, QuietKeeps DEF CheckLost, Checking, Exit, vars
<1>9. CASE CheckRead /\ Bad
    BY <1>9, <1>a, QuietKeeps DEF CheckRead, Checking, Exit, vars
<1>10. CASE LastRead /\ Bad
    BY <1>10, <1>a, QuietKeeps DEF LastRead, Exit, vars
<1>11. CASE (CheckRead \/ LastRead) /\ ~Bad
  <2>1. /\ step \in {"check", "block", "after"} /\ HealthRead
        /\ step' \in {"block", "reboot", "ended"} /\ known' = Settled
        /\ UNCHANGED <<vars, written, mute, board, fate>>
        /\ (base # None => base' = base)
    BY <1>11 DEF CheckRead, LastRead, Checking, Onward, Exit
  <2>2. ~mute => known' \subseteq image \cup silent
    BY <1>11, <2>1, CleanReading DEF Running
  <2>3. Shape' /\ ZeroedFirst'
    BY <2>1 DEF GateInv, Shape, ZeroedFirst, HealthRead, vars, board, fate
  <2>4. KnownLanded'
    BY <2>1, <2>2 DEF KnownLanded, fate
  <2>5. ~mute => base' = base
    BY <2>1, GateAssumption DEF GateInv, Baseline, Running
  <2>6. Baseline'
    BY <2>1, <2>5 DEF GateInv, Baseline, Running, board
  <2>7. Lost' = Lost
    BY <2>1 DEF Lost, Settled, Written, Waiting, board, fate
  <2>8. Evidence'
    BY <2>1, <2>5, <2>7 DEF GateInv, Evidence, Running, vars, board
  <2>9. QED
    BY <2>3, <2>4, <2>6, <2>8 DEF GateInv
<1>12. QED
    BY <1>1, <1>2, <1>3, <1>4, <1>5, <1>6, <1>7, <1>8, <1>9, <1>10, <1>11 DEF Flasher

LEMMA GateInvInit == GateInit => GateInv
<1> SUFFICES ASSUME GateInit PROVE GateInv
    OBVIOUS
<1>1. CountInv
    BY GateCountInit
<1>2. Shape
  <2>1. queue \in Seq(Nat) /\ pio \in Nat
    BY DEF GateInit
  <2>2. QED
    BY <2>1 DEF GateInit, Shape
<1>3. Baseline /\ KnownLanded
    BY DEF GateInit, Baseline, KnownLanded, Running
<1>4. ZeroedFirst
  <2>1. pc["loop"] = "idle" /\ written = 0
    BY DEF GateInit, Actor
  <2>2. QED
    BY <2>1 DEF ZeroedFirst
<1>5. Evidence
    BY DEF GateInit, Evidence, Running
<1>6. QED
    BY <1>1, <1>2, <1>3, <1>4, <1>5 DEF GateInv

LEMMA GateInvNext == GateInv /\ [GateNext]_gateVars => GateInv'
<1> SUFFICES ASSUME GateInv, [GateNext]_gateVars PROVE GateInv'
    OBVIOUS
<1>1. CountInv'
    BY GateCountNext DEF GateInv
<1>2. CASE Flasher
    BY <1>1, <1>2, FlasherInv
<1>3. CASE Board
    BY <1>1, <1>3, BoardInv
<1>4. CASE UNCHANGED gateVars
  <2>1. UNCHANGED <<vars, flasher, board, fate>>
    BY <1>4 DEF gateVars
  <2>2. Shape' /\ ZeroedFirst' /\ Baseline' /\ KnownLanded'
    BY <2>1 DEF GateInv, Shape, ZeroedFirst, Baseline, KnownLanded, vars, flasher, board, fate
  <2>3. Lost' = Lost
    BY <2>1 DEF Lost, Settled, Written, Waiting, flasher, board, fate
  <2>4. Evidence'
    BY <2>1, <2>3 DEF GateInv, Evidence, vars, flasher, board
  <2>5. QED
    BY <1>1, <2>2, <2>4 DEF GateInv
<1>5. QED
    BY <1>2, <1>3, <1>4 DEF GateNext

\* The gate holds: whatever was settled when a reading passed has reached the
\* key, but for transfers that failed without a trace.
THEOREM GateHolds == GateSpec => []KnownLanded
<1>1. GateInv => KnownLanded
    BY DEF GateInv
<1>2. QED
    BY <1>1, GateInvInit, GateInvNext, PTL DEF GateSpec

---------------------------------------------------------------------------
(* No false alarm *)

\* The reboot report is the last the flasher writes.
Over == {"after", "ended"}

\* As long as nothing has gone wrong, core 1 runs, nobody counts a report as
\* dropped, and the key and the PC's device stay until the reboot.
Calm ==
    ~trouble =>
        /\ core1 = "ok"
        /\ pc["irq"] = "idle" /\ pc["core1"] \in {"idle", "storeSent"}
        /\ pc["loop"] \in {"idle", "zeroDropped", "zeroFlag"}
        /\ pc["loop"] # "idle" => step = "zeroing"
        /\ 0 \in Waiting \cup wire => step \in Over
        /\ ~here => step \in Over
        /\ ~up => ~here
        /\ ser = "lost" => ~up

\* And a flasher that got its first line looks at counts that are zeroed.
Zeroes ==
    ~trouble /\ ~mute =>
        /\ step \in Running => base = pio
        /\ step \in {"block", "check", "reboot", "after"} => dropped = 0 /\ ~flag
        /\ step = "zeroing" /\ pc["loop"] = "idle" => dropped = 0 /\ ~flag
        /\ step = "zeroing" /\ pc["loop"] = "zeroFlag" => dropped = 0

CalmInv == GateInv /\ Calm /\ Zeroes /\ NoFalseAlarm

\* What the proxy pops was in the ring, and so is what stays there.
LEMMA TailIsOld ==
    ASSUME NEW s \in Seq(Nat), s # <<>>
    PROVE  LET t == Tail(s) IN
           {t[k] : k \in 1 .. Len(t)} \cup {Head(s)} \subseteq {s[k] : k \in 1 .. Len(s)}
<1> DEFINE t == Tail(s)
<1>1. Len(t) = Len(s) - 1 /\ Len(s) \in Nat /\ Len(s) > 0 /\ Head(s) = s[1]
    OBVIOUS
<1>2. ASSUME NEW k \in 1 .. Len(t) PROVE k + 1 \in 1 .. Len(s) /\ t[k] = s[k + 1]
    BY <1>1, <1>2
<1>3. 1 \in 1 .. Len(s)
    BY <1>1
<1> HIDE DEF t
<1>4. QED
    BY <1>1, <1>2, <1>3 DEF t

\* The board's steps in a flash in which nothing has gone wrong.
LEMMA CalmBoard == CalmInv /\ Board => Calm' /\ Zeroes' /\ NoFalseAlarm'
<1> SUFFICES ASSUME CalmInv, Board, ~trouble'
             PROVE  Calm' /\ Zeroes' /\ NoFalseAlarm'
    BY DEF Calm, Zeroes, CalmInv, NoFalseAlarm, Board, Forward, Discard, Injected, Lands,
           Fails, TimesOut, Count, Unplug, Leaves, Wedges, Shows, Restarts, Fault, fate,
           flasher
<1>a. pc \in [Actor -> {"idle", "store", "flag", "storeSent", "zeroDropped", "zeroFlag"}]
    BY DEF CalmInv, GateInv, CountInv, Values
<1>b. queue \in Seq(Nat)
    BY DEF CalmInv, GateInv, Shape
<1>c. UNCHANGED flasher
    BY DEF Board, Forward, Discard, Injected, Lands, Fails, TimesOut, Count, Unplug,
           Leaves, Wedges, Shows, Restarts
<1>d. trouble' = trouble /\ ~trouble
    BY <1>c DEF Board, Forward, Discard, Injected, Lands, Fails, TimesOut, Count, Unplug,
           Leaves, Wedges, Shows, Restarts, Fault, fate, CalmInv, Calm
<1>e. NoFalseAlarm'
    BY <1>c, <1>d DEF flasher, CalmInv, NoFalseAlarm
<1>f. /\ core1 = "ok"
      /\ pc["irq"] = "idle" /\ pc["core1"] \in {"idle", "storeSent"}
      /\ pc["loop"] \in {"idle", "zeroDropped", "zeroFlag"}
    BY <1>d DEF CalmInv, Calm
<1> USE DEF flasher, CalmInv, Calm, Zeroes
<1>1. CASE Forward
  <2>1. Waiting' \cup wire' \subseteq Waiting
    BY <1>1, <1>b, TailIsOld DEF Forward, Waiting
  <2>2. pc' = [pc EXCEPT !["core1"] = "storeSent"] /\ UNCHANGED <<dropped, flag, up, here, core1, pio>>
    BY <1>1 DEF Forward, LoadSent, Goto
  <2>3. pc'["irq"] = pc["irq"] /\ pc'["loop"] = pc["loop"] /\ pc'["core1"] = "storeSent"
    BY <2>2, <1>a DEF Actor
  <2>4. QED
    BY <1>c, <1>d, <1>e, <2>1, <2>2, <2>3
<1>2. CASE Lands
  <2>1. Waiting' \cup wire' \subseteq Waiting
    BY <1>2 DEF Lands, Waiting
  <2>2. UNCHANGED <<pc, dropped, flag, up, core1, pio>>
    BY <1>2 DEF Lands, vars
  <2>3. ~here' => step \in Over
    BY <1>2, <1>d DEF Lands
  <2>4. ~up => ~here'
    BY <1>2, <1>d DEF Lands
  <2>5. QED
    BY <1>c, <1>d, <1>e, <2>1, <2>2, <2>3, <2>4
<1>3. CASE Leaves
  <2>1. Waiting' \cup wire' = {}
    BY <1>3 DEF Leaves, Waiting
  <2>2. UNCHANGED <<pc, dropped, flag, here, core1, pio>> /\ ~here /\ ~up'
    BY <1>3 DEF Leaves, vars
  <2>3. QED
    BY <1>c, <1>d, <1>e, <2>1, <2>2
<1>4. ASSUME NEW a \in Actor, Count(a)
      PROVE  Calm' /\ Zeroes' /\ NoFalseAlarm'
  <2>1. StoreSent \/ ZeroDropped \/ ZeroFlag
    BY <1>4, <1>f DEF Count, StoreDropped, SetFlag, At, Actor
  <2>2. ~StoreDropped(a)
    BY <1>4, <1>f DEF StoreDropped, At, Actor
  <2>3. UNCHANGED <<wire, up, here, core1, pio, queue>> /\ Waiting' = Waiting
    BY <1>4, <2>2 DEF Count, Waiting
  <2>4. CASE StoreSent
    <3>1. pc' = [pc EXCEPT !["core1"] = "idle"] /\ UNCHANGED <<dropped, flag>>
      BY <2>4 DEF StoreSent, Goto
    <3>2. pc'["irq"] = pc["irq"] /\ pc'["loop"] = pc["loop"] /\ pc'["core1"] = "idle"
      BY <3>1, <1>a DEF Actor
    <3>3. QED
      BY <1>c, <1>d, <1>e, <1>f, <2>3, <3>1, <3>2
  <2>5. CASE ZeroDropped
    <3>1. pc' = [pc EXCEPT !["loop"] = "zeroFlag"] /\ dropped' = 0 /\ flag' = flag
          /\ pc["loop"] = "zeroDropped"
      BY <2>5 DEF ZeroDropped, Goto, At
    <3>2. pc'["irq"] = pc["irq"] /\ pc'["core1"] = pc["core1"] /\ pc'["loop"] = "zeroFlag"
      BY <3>1, <1>a DEF Actor
    <3>3. QED
      BY <1>c, <1>d, <1>e, <1>f, <2>3, <3>1, <3>2
  <2>6. CASE ZeroFlag
    <3>1. pc' = [pc EXCEPT !["loop"] = "idle"] /\ dropped' = dropped /\ flag' = FALSE
          /\ pc["loop"] = "zeroFlag"
      BY <2>6 DEF ZeroFlag, Goto, At
    <3>2. pc'["irq"] = pc["irq"] /\ pc'["core1"] = pc["core1"] /\ pc'["loop"] = "idle"
      BY <3>1, <1>a DEF Actor
    <3>3. QED
      BY <1>c, <1>d, <1>e, <1>f, <2>3, <3>1, <3>2
  <2>7. QED
    BY <2>1, <2>4, <2>5, <2>6
<1>5. ~(Discard \/ Injected \/ Fails \/ TimesOut \/ Unplug \/ Wedges \/ Shows \/ Restarts)
    BY <1>d, <1>f DEF Discard, Injected, Fails, TimesOut, Unplug, Wedges, Shows, Restarts,
                      Fault
<1>6. QED
    BY <1>1, <1>2, <1>3, <1>4, <1>5 DEF Board

\* The flasher's steps in such a flash.
LEMMA CalmFlasher == CalmInv /\ Flasher => Calm' /\ Zeroes' /\ NoFalseAlarm'
<1> SUFFICES ASSUME CalmInv, Flasher, ~trouble'
             PROVE  Calm' /\ Zeroes' /\ NoFalseAlarm'
    BY DEF Calm, Zeroes, NoFalseAlarm
<1>a. pc \in [Actor -> {"idle", "store", "flag", "storeSent", "zeroDropped", "zeroFlag"}]
    BY DEF CalmInv, GateInv, CountInv, Values
<1>b. queue \in Seq(Nat) /\ written \in Nat /\ mute \in BOOLEAN
    BY DEF CalmInv, GateInv, Shape
<1>d. ~trouble
    BY DEF Flasher, StartRead, StartUnread, Zero, Zeroed, WriteBlock, WriteFails, CheckRead,
           CheckUnread, CheckLost, Finish, Reboot, LastRead, LastUnread, Arrive, fate
<1>f. /\ core1 = "ok"
      /\ pc["irq"] = "idle" /\ pc["core1"] \in {"idle", "storeSent"}
      /\ pc["loop"] \in {"idle", "zeroDropped", "zeroFlag"}
      /\ pc["loop"] # "idle" => step = "zeroing"
    BY <1>d DEF CalmInv, Calm
<1>g. ~up => step \in Over
    BY <1>d DEF CalmInv, Calm
<1>h. mute \/ code \notin {1, 2}
    BY <1>d DEF CalmInv, NoFalseAlarm
<1>i. ASSUME UNCHANGED <<vars, board, fate>>, ser' \in {ser, Noticed},
             step \in {"zeroing"} => pc["loop"] = "idle" \/ step' = "zeroing" \/ ~up,
             step \in Over => step' \in Over
      PROVE  Calm'
  <2>1. UNCHANGED <<pc, core1, here, up, wire, trouble>> /\ Waiting' = Waiting
    BY <1>i DEF vars, board, fate, Waiting
  <2>2. ser' = "lost" => ~up
    BY <1>d, <1>i DEF CalmInv, Calm, Noticed
  <2>3. pc["loop"] # "idle" => step' = "zeroing"
    BY <1>f, <1>g, <1>i DEF Over
  <2>4. QED
    BY <1>d, <2>1, <2>2, <2>3, <1>i DEF CalmInv, Calm
<1>j. ~mute /\ step \in Running => ~Bad \/ step \in {"zero", "zeroing"}
    BY <1>d, <1>f DEF CalmInv, Zeroes, Bad, Running
<1>1. CASE StartRead
  <2>1. step' = "zero" /\ base' = pio /\ code' = code /\ step = "start"
        /\ UNCHANGED <<vars, ser, mute, board, fate>>
    BY <1>1, <1>f DEF StartRead
  <2>2. Calm'
    BY <2>1, <1>i DEF Over
  <2>3. Zeroes' /\ NoFalseAlarm'
    BY <2>1, <1>h DEF Zeroes, NoFalseAlarm, board, fate
  <2>4. QED
    BY <2>2, <2>3
<1>2. CASE StartUnread
  <2>1. Calm'
    BY <1>2, <1>i DEF StartUnread, Over
  <2>2. QED
    BY <1>2, <2>1 DEF StartUnread, Zeroes, NoFalseAlarm
<1>3. CASE Zero
  <2>1. pc' = [pc EXCEPT !["loop"] = "zeroDropped"] /\ step' = "zeroing" /\ step = "zero"
        /\ UNCHANGED <<code, ser, base, mute, up, here, core1, pio, queue, wire, trouble>>
    BY <1>3 DEF Zero, ZeroSent, Goto, board, fate
  <2>2. pc'["irq"] = pc["irq"] /\ pc'["core1"] = pc["core1"] /\ pc'["loop"] = "zeroDropped"
    BY <2>1, <1>a DEF Actor
  <2>3. Waiting' = Waiting
    BY <2>1 DEF Waiting
  <2>4. Calm'
    BY <1>d, <1>f, <2>1, <2>2, <2>3 DEF CalmInv, Calm, Over
  <2>5. Zeroes' /\ NoFalseAlarm'
    BY <1>d, <1>h, <2>1, <2>2 DEF CalmInv, Zeroes, NoFalseAlarm, Running
  <2>6. QED
    BY <2>4, <2>5
<1>4. CASE Zeroed
  <2>1. step \in {"zero", "zeroing"} /\ up
    BY <1>4, <1>g DEF Zeroed, Over
  <2>2. step = "zeroing" /\ pc["loop"] = "idle" /\ step' = "block" /\ ser' = Noticed
        /\ UNCHANGED <<vars, code, base, mute, board, fate>>
    BY <1>4, <2>1 DEF Zeroed
  <2>3. Calm'
    BY <2>2, <1>i DEF Over
  <2>4. Zeroes' /\ NoFalseAlarm'
    BY <1>d, <1>h, <2>2 DEF CalmInv, Zeroes, NoFalseAlarm, Running, vars, board, fate
  <2>5. QED
    BY <2>3, <2>4
<1>5. CASE WriteBlock \/ Reboot
  <2>1. PICK b \in Nat : Arrive(b) /\ (b = 0 => step' = "after")
    BY <1>5, <1>b DEF WriteBlock, Reboot
  <2>2. queue' = Append(queue, b) /\ UNCHANGED vars /\ trouble' = trouble
    BY <2>1 DEF Arrive
  <2>3. Waiting' = Waiting \cup {b}
    BY <2>2, <1>b, ElementsAppend DEF Waiting
  <2>4. /\ step \in {"block", "reboot"} /\ step' \in {"block", "check", "after"}
        /\ UNCHANGED <<code, ser, base, mute, up, here, core1, pio, wire>>
    BY <1>5, <2>1 DEF WriteBlock, Reboot, Arrive
  <2>5. Calm'
    BY <1>d, <1>f, <2>1, <2>2, <2>3, <2>4 DEF CalmInv, Calm, Over, vars
  <2>6. Zeroes' /\ NoFalseAlarm'
    BY <1>d, <1>h, <2>2, <2>4 DEF CalmInv, Zeroes, NoFalseAlarm, Running, vars
  <2>7. QED
    BY <2>5, <2>6
<1>6. CASE Finish \/ LastUnread \/ ((CheckRead \/ LastRead) /\ ~Bad)
  <2>1. /\ step \in {"block", "check", "reboot", "after"}
        /\ step' \in {"block", "reboot", "ended"} /\ (step \in Over => step' \in Over)
        /\ code' \in {code, 0} /\ (base' = base \/ base' = pio)
        /\ UNCHANGED <<vars, ser, mute, board, fate>>
    BY <1>6 DEF Finish, LastUnread, CheckRead, LastRead, Checking, Onward, Exit, Over
  <2>2. Calm'
    BY <2>1, <1>i
  <2>3. Zeroes' /\ NoFalseAlarm'
    BY <1>d, <1>h, <2>1 DEF CalmInv, Zeroes, NoFalseAlarm, Running, vars, board, fate
  <2>4. QED
    BY <2>2, <2>3
<1>7. CASE CheckUnread
  <2>1. Calm'
    BY <1>7, <1>i DEF CheckUnread, Checking, Onward, Over
  <2>2. QED
    BY <1>7, <2>1 DEF CheckUnread, Zeroes, NoFalseAlarm
<1>8. CASE (CheckRead \/ LastRead) /\ Bad
  <2>1. mute /\ step \in {"block", "check", "after"}
    BY <1>8, <1>b, <1>j DEF CheckRead, LastRead, Checking, Running
  <2>2. mute' = mute /\ step' = "ended" /\ UNCHANGED <<vars, ser, board, fate>>
    BY <1>8 DEF CheckRead, LastRead, Exit
  <2>3. Calm'
    BY <2>1, <2>2, <1>i DEF Over
  <2>4. QED
    BY <2>1, <2>2, <2>3 DEF Zeroes, NoFalseAlarm
<1>9. ~WriteFails /\ ~CheckLost
  <2>1. ser = "lost" => ~up
    BY <1>d DEF CalmInv, Calm
  <2>2. QED
    BY <1>g, <2>1 DEF WriteFails, CheckLost, Checking, Noticed, Over
<1>10. QED
    BY <1>1, <1>2, <1>3, <1>4, <1>5, <1>6, <1>7, <1>8, <1>9 DEF Flasher

LEMMA CalmInit == GateInit => CalmInv
<1> SUFFICES ASSUME GateInit PROVE CalmInv
    OBVIOUS
<1>1. GateInv
    BY GateInvInit
<1>2. \A a \in Actor : pc[a] = "idle"
    BY DEF GateInit
<1>3. Waiting \cup wire = {}
    BY DEF GateInit, Waiting
<1>4. code \notin {1, 2}
    BY GateAssumption DEF GateInit
<1>5. Calm /\ Zeroes /\ NoFalseAlarm
    BY <1>2, <1>3, <1>4 DEF GateInit, Calm, Zeroes, NoFalseAlarm, Actor, Running
<1>6. QED
    BY <1>1, <1>5 DEF CalmInv

LEMMA CalmNext == CalmInv /\ [GateNext]_gateVars => CalmInv'
<1> SUFFICES ASSUME CalmInv, [GateNext]_gateVars PROVE CalmInv'
    OBVIOUS
<1>1. GateInv'
    BY GateInvNext DEF CalmInv
<1>2. CASE GateNext
    BY <1>1, <1>2, CalmBoard, CalmFlasher DEF GateNext, CalmInv
<1>3. CASE UNCHANGED gateVars
  <2>1. UNCHANGED <<vars, flasher, board, fate>> /\ Waiting' = Waiting
    BY <1>3 DEF gateVars, Waiting, board
  <2>2. Calm'
    BY <2>1 DEF CalmInv, Calm, vars, flasher, board, fate
  <2>3. Zeroes' /\ NoFalseAlarm'
    BY <2>1 DEF CalmInv, Zeroes, NoFalseAlarm, vars, flasher, board, fate
  <2>4. QED
    BY <1>1, <2>2, <2>3 DEF CalmInv
<1>4. QED
    BY <1>2, <1>3

\* A flash in which nothing went wrong is not refused: the flasher never takes
\* what an earlier run left in the counts, a reset half done, or the console
\* that goes with the reboot for a fault.
THEOREM NoFalseRefusal == GateSpec => []NoFalseAlarm
<1>1. CalmInv => NoFalseAlarm
    BY DEF CalmInv
<1>2. QED
    BY <1>1, CalmInit, CalmNext, PTL DEF GateSpec
=============================================================================
