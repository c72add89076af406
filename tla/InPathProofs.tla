---------------------------- MODULE InPathProofs ----------------------------
(***************************************************************************)
(* Proofs about the key -> PC direction for any number of interfaces, any  *)
(* ring size N >= 2 and any number of reports: the types, the flow control *)
(* of arm_service (a report that was asked for always finds a slot), and   *)
(* that the PC takes the reports in order and misses only what a flush, a  *)
(* re-enumeration or a power cut discards.                                 *)
(***************************************************************************)
EXTENDS InPath, SequenceTheorems, TLAPS

---------------------------------------------------------------------------
(* Flow control *)

\* A request is outstanding only on an interface the stack has open, and on
\* one that is up only while its ring has room for the answer.
RoomKept ==
    \A i \in Itf : /\ pending[i] => bound[i]
                   /\ mounted[i] => bound[i]
                   /\ pending[i] /\ mounted[i] => Room(i)

FlowInv == TypeOK /\ RoomKept /\ NoInDrop

---------------------------------------------------------------------------
(* Order *)

\* An interface's ring is sorted, above what the PC has or is being given,
\* and below what the key has handed over.
Sorted(i) ==
    /\ last[i] <= made[i]
    /\ \A j, k \in 1 .. Len(inq[i]) : j < k => inq[i][j] < inq[i][k]
    /\ \A k \in 1 .. Len(inq[i]) : last[i] < inq[i][k] /\ inq[i][k] <= made[i]
    /\ ep[i] # None => /\ last[i] < ep[i] /\ ep[i] <= made[i]
                       /\ \A k \in 1 .. Len(inq[i]) : ep[i] < inq[i][k]

\* Every report after the last one the PC took is on the endpoint, in the
\* ring, or was discarded on purpose.
Accounted(i) ==
    \A n \in 1 .. Reports : last[i] < n /\ n <= made[i] =>
        n = ep[i] \/ n \in cut[i] \/ \E k \in 1 .. Len(inq[i]) : inq[i][k] = n

OrderInv == FlowInv /\ \A i \in Itf : Sorted(i) /\ Accounted(i)

---------------------------------------------------------------------------

LEMMA EmptyRing == Len(<<>>) = 0
    OBVIOUS

LEMMA InitTypeOK == Init => TypeOK
<1> SUFFICES ASSUME Init PROVE TypeOK
    OBVIOUS
<1> USE BoundsAssumption DEF Init
<1>1. inq \in [Itf -> Seq(1 .. Reports)]
    OBVIOUS
<1>2. cut \in [Itf -> SUBSET (1 .. Reports)]
    OBVIOUS
<1>3. ep \in [Itf -> (1 .. Reports) \cup {None}]
    OBVIOUS
<1>4. bound \in [Itf -> BOOLEAN] /\ mounted \in [Itf -> BOOLEAN]
    OBVIOUS
<1>5. rested \in [Itf -> BOOLEAN] /\ pending \in [Itf -> BOOLEAN]
    OBVIOUS
<1>6. made \in [Itf -> 0 .. Reports] /\ last \in [Itf -> 0 .. Reports]
    OBVIOUS
<1>7. inDropped = FALSE /\ settle = FALSE /\ present = FALSE /\ has = FALSE
    OBVIOUS
<1>8. swap = {} /\ plugs \in 0 .. Plugs /\ built \in BOOLEAN /\ config \in SUBSET Itf
    OBVIOUS
<1>9. \A i \in Itf : inq[i] = <<>>
    OBVIOUS
<1> HIDE DEF Init
<1>10. RingsFit
  <2>1. ASSUME NEW i \in Itf PROVE Len(inq[i]) < N
    <3>1. Len(inq[i]) = 0
      BY <1>9, EmptyRing, Zenon
    <3>2. QED
      BY <3>1, NAssumption
  <2>2. QED
    BY <2>1 DEF RingsFit
<1>11. QED
    BY <1>1, <1>2, <1>3, <1>4, <1>5, <1>6, <1>7, <1>8, <1>10 DEF TypeOK

\* A step appends to a ring that has room, or takes from it, or empties it.
LEMMA NextFits == TypeOK /\ [Next]_vars => RingsFit'
<1> SUFFICES ASSUME TypeOK, [Next]_vars, NEW j \in Itf PROVE Len(inq'[j]) < N
    BY DEF RingsFit
<1>1. inq \in [Itf -> Seq(1 .. Reports)] /\ Len(inq[j]) < N /\ inq[j] \in Seq(1 .. Reports)
    BY DEF TypeOK, RingsFit
<1>2. CASE inq' = inq
    BY <1>1, <1>2
<1>3. ASSUME NEW i \in Itf, ReportReceived(i), inq' # inq PROVE Len(inq'[j]) < N
  <2>1. inq' = [inq EXCEPT ![i] = Append(@, made[i] + 1)] /\ Room(i) /\ made[i] < Reports
    BY <1>3 DEF ReportReceived
  <2>2. CASE j = i
    <3>1. made[i] + 1 \in 1 .. Reports
      BY <2>1, BoundsAssumption DEF TypeOK
    <3>2. Len(Append(inq[j], made[j] + 1)) = Len(inq[j]) + 1
      BY <1>1, <2>2, <3>1, AppendProperties
    <3>3. inq'[j] = Append(inq[j], made[j] + 1) /\ Len(inq[j]) \in Nat
      BY <1>1, <2>1, <2>2
    <3>4. QED
      BY <2>1, <2>2, <3>2, <3>3, NAssumption DEF Room
  <2>3. CASE j # i
    BY <1>1, <2>1, <2>3
  <2>4. QED
    BY <2>2, <2>3
<1>4. ASSUME NEW i \in Itf, ForwardIn(i) PROVE Len(inq'[j]) < N
  <2>1. inq' = [inq EXCEPT ![i] = Tail(@)] /\ inq[i] # <<>>
    BY <1>4 DEF ForwardIn
  <2>2. CASE j = i
    <3>1. inq'[j] = Tail(inq[j])
      BY <1>1, <2>1, <2>2
    <3>2. Len(Tail(inq[j])) = Len(inq[j]) - 1 /\ Len(inq[j]) \in Nat
      BY <1>1, <2>1, <2>2, HeadTailProperties
    <3>3. QED
      BY <1>1, <3>1, <3>2, NAssumption
  <2>3. CASE j # i
    BY <1>1, <2>1, <2>3
  <2>4. QED
    BY <2>2, <2>3
<1>5. CASE PresenceBegin
  <2>1. inq'[j] = <<>>
    BY <1>5 DEF PresenceBegin
  <2>2. QED
    BY <2>1, NAssumption, EmptyRing
<1>6. QED
    BY <1>2, <1>3, <1>4, <1>5
       DEF Next, Core0, Core1, Mount, Rest, Arm, Unplug, PowerOff,
           LinkService, PresenceBuild, PresenceEnd, PcPoll, vars, hostVars, pcVars, core0Vars,
           core1Vars

LEMMA NextTypeOK == TypeOK /\ [Next]_vars => TypeOK'
<1> SUFFICES ASSUME TypeOK, [Next]_vars PROVE TypeOK'
    OBVIOUS
<1>0. RingsFit'
    BY NextFits
<1> USE <1>0, NAssumption, BoundsAssumption
        DEF TypeOK, vars, hostVars, pcVars, core0Vars, core1Vars
<1>1. ASSUME NEW i \in Itf, Mount(i) PROVE TypeOK'
    BY <1>1 DEF Mount
<1>2. ASSUME NEW i \in Itf, Rest(i) PROVE TypeOK'
    BY <1>2 DEF Rest
<1>3. ASSUME NEW i \in Itf, Arm(i) PROVE TypeOK'
    BY <1>3 DEF Arm
<1>4. ASSUME NEW i \in Itf, ReportReceived(i) PROVE TypeOK'
  <2>1. made[i] + 1 \in 1 .. Reports
    BY <1>4 DEF ReportReceived
  <2>2. made' \in [Itf -> 0 .. Reports] /\ pending' \in [Itf -> BOOLEAN]
    BY <1>4, <2>1 DEF ReportReceived
  <2>3. inq' \in [Itf -> Seq(1 .. Reports)]
    <3>1. Append(inq[i], made[i] + 1) \in Seq(1 .. Reports)
      BY <2>1
    <3>2. inq' = inq \/ inq' = [inq EXCEPT ![i] = Append(@, made[i] + 1)]
      BY <1>4 DEF ReportReceived
    <3>3. QED
      BY <3>1, <3>2
  <2>4. cut' \in [Itf -> SUBSET (1 .. Reports)] /\ inDropped' \in BOOLEAN
    <3>1. cut' = cut \/ cut' = [cut EXCEPT ![i] = @ \cup {made[i] + 1}]
      BY <1>4 DEF ReportReceived
    <3>2. inDropped' = inDropped \/ inDropped' = TRUE
      BY <1>4 DEF ReportReceived
    <3>3. cut' \in [Itf -> SUBSET (1 .. Reports)]
      <4>1. CASE cut' = cut
        BY <4>1
      <4>2. CASE cut' = [cut EXCEPT ![i] = @ \cup {made[i] + 1}]
        <5>1. cut[i] \cup {made[i] + 1} \in SUBSET (1 .. Reports)
          BY <2>1
        <5>2. QED
          BY <4>2, <5>1
      <4>3. QED
        BY <3>1, <4>1, <4>2
    <3>4. QED
      BY <3>2, <3>3
  <2>5. QED
    BY <1>4, <2>2, <2>3, <2>4 DEF ReportReceived
<1>5. CASE Unplug
    BY <1>5 DEF Unplug
<1>6. CASE PowerOff
  <2>1. mounted' \in [Itf -> BOOLEAN] /\ plugs' \in 0 .. Plugs
    BY <1>6 DEF PowerOff
  <2>2. settle' = FALSE /\ present' = FALSE
    BY <1>6 DEF PowerOff
  <2>3. QED
    BY <1>6, <2>1, <2>2 DEF PowerOff
<1>7. CASE LinkService
    BY <1>7 DEF LinkService
<1>8. CASE PresenceBegin
  <2>1. \A i \in Itf : Queued(i) \subseteq 1 .. Reports
    BY DEF Queued
  <2>2. \A i \in Itf : {ep[i]} \ {None} \subseteq 1 .. Reports
    OBVIOUS
  <2>3. cut' \in [Itf -> SUBSET (1 .. Reports)]
    BY <1>8, <2>1, <2>2 DEF PresenceBegin
  <2>4. inq' \in [Itf -> Seq(1 .. Reports)] /\ ep' \in [Itf -> (1 .. Reports) \cup {None}]
    BY <1>8 DEF PresenceBegin
  <2>5. swap' \in SUBSET BOOLEAN /\ built' = FALSE /\ config' = {}
    BY <1>8 DEF PresenceBegin
  <2>6. UNCHANGED <<core1Vars, has, last>>
    BY <1>8 DEF PresenceBegin
  <2>7. QED
    BY <2>3, <2>4, <2>5, <2>6
<1>9. CASE PresenceBuild \/ PresenceEnd
    BY <1>9 DEF PresenceBuild, PresenceEnd
<1>10. ASSUME NEW i \in Itf, ForwardIn(i) PROVE TypeOK'
  <2>1. Head(inq[i]) \in 1 .. Reports /\ Tail(inq[i]) \in Seq(1 .. Reports)
    BY <1>10 DEF ForwardIn
  <2>2. QED
    BY <1>10, <2>1 DEF ForwardIn
<1>11. ASSUME NEW i \in Itf, PcPoll(i) PROVE TypeOK'
    BY <1>11 DEF PcPoll
<1>12. CASE UNCHANGED vars
    BY <1>12
<1>13. QED
    BY <1>1, <1>2, <1>3, <1>4, <1>5, <1>6, <1>7, <1>8, <1>9, <1>10,
       <1>11, <1>12 DEF Next, Core0, Core1

---------------------------------------------------------------------------
(* A report that was asked for always finds a slot *)

LEMMA InitFlow == Init => FlowInv
    BY InitTypeOK DEF Init, FlowInv, RoomKept, NoInDrop

LEMMA NextFlow == FlowInv /\ [Next]_vars => FlowInv'
<1> SUFFICES ASSUME FlowInv, [Next]_vars PROVE FlowInv'
    OBVIOUS
<1>0. TypeOK /\ TypeOK'
    BY NextTypeOK DEF FlowInv
<1> DEFINE Keeps == RoomKept' /\ NoInDrop'
<1> USE <1>0 DEF TypeOK, FlowInv, RoomKept, NoInDrop, Room, vars, hostVars,
                 pcVars, core0Vars, core1Vars
<1>1. ASSUME NEW i \in Itf, Mount(i) PROVE Keeps
    BY <1>1 DEF Mount
<1>2. ASSUME NEW i \in Itf, Rest(i) PROVE Keeps
    BY <1>2 DEF Rest
<1>3. ASSUME NEW i \in Itf, Arm(i) PROVE Keeps
    BY <1>3 DEF Arm
<1>4. ASSUME NEW i \in Itf, ReportReceived(i) PROVE Keeps
    BY <1>4 DEF ReportReceived
<1>5. CASE Unplug
    BY <1>5 DEF Unplug
<1>6. CASE PowerOff
    BY <1>6 DEF PowerOff
<1>7. CASE LinkService
    BY <1>7 DEF LinkService
<1>8. CASE PresenceBegin
  <2>1. \A j \in Itf : Len(inq'[j]) = 0
    BY <1>8 DEF PresenceBegin
  <2>2. QED
    BY <1>8, <2>1, NAssumption DEF PresenceBegin
<1>9. CASE PresenceBuild \/ PresenceEnd
    BY <1>9 DEF PresenceBuild, PresenceEnd
<1>10. ASSUME NEW i \in Itf, ForwardIn(i) PROVE Keeps
  <2>1. \A j \in Itf : Len(inq'[j]) <= Len(inq[j])
    BY <1>10 DEF ForwardIn
  <2>2. QED
    BY <1>10, <2>1, NAssumption DEF ForwardIn
<1>11. ASSUME NEW i \in Itf, PcPoll(i) PROVE Keeps
    BY <1>11 DEF PcPoll
<1>12. CASE UNCHANGED vars
    BY <1>12
<1>13. Keeps
    BY <1>1, <1>2, <1>3, <1>4, <1>5, <1>6, <1>7, <1>8, <1>9, <1>10,
       <1>11, <1>12 DEF Next, Core0, Core1
<1>14. QED
    BY <1>13

\* Types, and rings that never hold more reports than they have slots for.
THEOREM TypeCorrect == Spec => []TypeOK
<1>1. Init => TypeOK
    BY InitTypeOK
<1>2. TypeOK /\ [Next]_vars => TypeOK'
    BY NextTypeOK
<1>3. QED
    BY <1>1, <1>2, PTL DEF Spec

\* arm_service's flow control: no received report is ever refused a slot, for
\* any ring size and however the two cores, the key and the PC interleave.
THEOREM FlowControl == Spec => []NoInDrop
<1>1. Init => FlowInv
    BY InitFlow
<1>2. FlowInv /\ [Next]_vars => FlowInv'
    BY NextFlow
<1>3. FlowInv => NoInDrop
    BY DEF FlowInv
<1>4. QED
    BY <1>1, <1>2, <1>3, PTL DEF Spec

---------------------------------------------------------------------------
(* The PC takes the reports in order *)

LEMMA InitOrder == Init => OrderInv
    BY InitFlow DEF Init, OrderInv, Sorted, Accounted

\* Steps that touch neither the reports nor their order.
LEMMA SameOrder ==
    ASSUME OrderInv, UNCHANGED <<made, inq, ep, last>>,
           \A i \in Itf : cut[i] \subseteq cut'[i]
    PROVE  \A i \in Itf : Sorted(i)' /\ Accounted(i)'
    BY DEF OrderInv, Sorted, Accounted

\* Appending a number above all of a sequence's keeps it sorted.
LEMMA AppendNewest ==
    ASSUME NEW S \in SUBSET Nat, NEW s \in Seq(S), NEW m \in Nat, m + 1 \in S,
           \A k \in 1 .. Len(s) : s[k] <= m,
           \A j, k \in 1 .. Len(s) : j < k => s[j] < s[k]
    PROVE  /\ Len(s) \in Nat
           /\ Len(Append(s, m + 1)) = Len(s) + 1
           /\ \A k \in 1 .. Len(s) : Append(s, m + 1)[k] = s[k]
           /\ Append(s, m + 1)[Len(s) + 1] = m + 1
           /\ \A j, k \in 1 .. Len(s) + 1 :
                  j < k => Append(s, m + 1)[j] < Append(s, m + 1)[k]
<1> DEFINE t == Append(s, m + 1)
<1>1. /\ t \in Seq(S) /\ Len(t) = Len(s) + 1 /\ Len(s) \in Nat
      /\ \A k \in 1 .. Len(s) : t[k] = s[k]
      /\ t[Len(s) + 1] = m + 1
    BY AppendProperties
<1> HIDE DEF t
<1>2. ASSUME NEW j \in 1 .. Len(s) + 1, NEW k \in 1 .. Len(s) + 1, j < k
      PROVE  t[j] < t[k]
  <2>1. j \in 1 .. Len(s) /\ t[j] = s[j] /\ s[j] \in Nat
    <3>1. j \in 1 .. Len(s)
      BY <1>1, <1>2
    <3>2. s[j] \in S
      BY <3>1
    <3>3. QED
      BY <1>1, <3>1, <3>2
  <2>2. CASE k = Len(s) + 1
    BY <1>1, <2>1, <2>2
  <2>3. CASE k # Len(s) + 1
    <3>1. k \in 1 .. Len(s) /\ t[k] = s[k]
      BY <1>1, <2>3
    <3>2. QED
      BY <1>2, <2>1, <3>1
  <2>4. QED
    BY <2>2, <2>3
<1>3. QED
    BY <1>1, <1>2 DEF t

\* A received report is the newest, so it goes to the end of a sorted ring.
LEMMA ReceiveOrder ==
    ASSUME OrderInv, TypeOK, NEW i \in Itf, ReportReceived(i)
    PROVE  \A j \in Itf : Sorted(j)' /\ Accounted(j)'
<1> USE DEF core0Vars, pcVars
<1>1. ASSUME NEW j \in Itf, j # i PROVE Sorted(j)' /\ Accounted(j)'
  <2>1. /\ made'[j] = made[j] /\ inq'[j] = inq[j] /\ cut'[j] = cut[j]
        /\ ep'[j] = ep[j] /\ last'[j] = last[j]
    BY <1>1 DEF ReportReceived, TypeOK
  <2>2. QED
    BY <2>1 DEF OrderInv, Sorted, Accounted
<1>2. /\ made'[i] = made[i] + 1 /\ ep' = ep /\ last' = last
      /\ made[i] \in Nat /\ Reports \in Nat
    BY BoundsAssumption DEF ReportReceived, TypeOK
<1>3. NoInDrop /\ ~(mounted[i] /\ ~Room(i))
    BY DEF OrderInv, FlowInv, RoomKept, ReportReceived
<1>4. /\ Sorted(i) /\ Accounted(i)
      /\ last[i] \in Nat
      /\ ep[i] # None => ep[i] \in Nat
      /\ inq[i] \in Seq(1 .. Reports)
    BY DEF OrderInv, TypeOK
<1>5. \A k \in 1 .. Len(inq[i]) : inq[i][k] \in Nat
    BY <1>2, <1>4
<1>6. CASE inq' = [inq EXCEPT ![i] = Append(@, made[i] + 1)] /\ cut' = cut
  <2>1. inq'[i] = Append(inq[i], made[i] + 1)
    BY <1>6 DEF TypeOK
  <2>2. /\ Len(inq'[i]) = Len(inq[i]) + 1 /\ Len(inq[i]) \in Nat
        /\ \A k \in 1 .. Len(inq[i]) : inq'[i][k] = inq[i][k]
        /\ inq'[i][Len(inq[i]) + 1] = made[i] + 1
        /\ \A j, k \in 1 .. Len(inq[i]) + 1 : j < k => inq'[i][j] < inq'[i][k]
    <3>1. made[i] + 1 \in 1 .. Reports /\ 1 .. Reports \subseteq Nat
      BY <1>2 DEF ReportReceived, TypeOK
    <3>2. /\ \A k \in 1 .. Len(inq[i]) : inq[i][k] <= made[i]
          /\ \A j, k \in 1 .. Len(inq[i]) : j < k => inq[i][j] < inq[i][k]
      BY <1>4 DEF Sorted
    <3> DEFINE s == inq[i]
               m == made[i]
               S == 1 .. Reports
    <3>3. /\ S \in SUBSET Nat /\ s \in Seq(S) /\ m \in Nat /\ m + 1 \in S
          /\ \A k \in 1 .. Len(s) : s[k] <= m
          /\ \A j, k \in 1 .. Len(s) : j < k => s[j] < s[k]
      BY <1>2, <1>4, <3>1, <3>2
    <3>4. inq'[i] = Append(s, m + 1)
      BY <2>1
    <3> HIDE DEF s, m, S
    <3>5. /\ Len(s) \in Nat
          /\ Len(Append(s, m + 1)) = Len(s) + 1
          /\ \A k \in 1 .. Len(s) : Append(s, m + 1)[k] = s[k]
          /\ Append(s, m + 1)[Len(s) + 1] = m + 1
          /\ \A j, k \in 1 .. Len(s) + 1 :
                 j < k => Append(s, m + 1)[j] < Append(s, m + 1)[k]
      BY <3>3, AppendNewest
    <3>6. QED
      BY <3>4, <3>5 DEF s, m
  <2>3. \A k \in 1 .. Len(inq'[i]) :
            inq'[i][k] = IF k = Len(inq[i]) + 1 THEN made[i] + 1 ELSE inq[i][k]
    BY <2>2
  <2>4. \A j, k \in 1 .. Len(inq'[i]) : j < k => inq'[i][j] < inq'[i][k]
    BY <2>2
  <2>5. ASSUME NEW k \in 1 .. Len(inq'[i])
        PROVE  last[i] < inq'[i][k] /\ inq'[i][k] <= made'[i]
    <3>1. CASE k = Len(inq[i]) + 1
      BY <1>2, <1>4, <2>3, <3>1 DEF Sorted
    <3>2. CASE k # Len(inq[i]) + 1
      <4>1. k \in 1 .. Len(inq[i]) /\ inq'[i][k] = inq[i][k]
        BY <2>2, <3>2
      <4>2. last[i] < inq[i][k] /\ inq[i][k] <= made[i] /\ inq[i][k] \in Nat
        BY <1>4, <1>5, <4>1 DEF Sorted
      <4>3. QED
        BY <1>2, <4>1, <4>2
    <3>3. QED
      BY <3>1, <3>2
  <2>6. ASSUME ep[i] # None
        PROVE  /\ last[i] < ep[i] /\ ep[i] <= made'[i]
               /\ \A k \in 1 .. Len(inq'[i]) : ep[i] < inq'[i][k]
    <3>1. /\ ep[i] \in Nat /\ last[i] < ep[i] /\ ep[i] <= made[i]
          /\ \A k \in 1 .. Len(inq[i]) : ep[i] < inq[i][k]
      BY <1>4, <2>6 DEF Sorted
    <3>2. ep[i] < made[i] + 1 /\ ep[i] <= made'[i]
      BY <1>2, <3>1
    <3>3. QED
      BY <2>2, <2>3, <3>1, <3>2
  <2>7. Sorted(i)'
    <3>1. last[i] <= made'[i]
      BY <1>2, <1>4 DEF Sorted
    <3>2. \A k \in 1 .. Len(inq'[i]) : last[i] < inq'[i][k] /\ inq'[i][k] <= made'[i]
      BY <2>5
    <3>3. ep[i] # None => /\ last[i] < ep[i] /\ ep[i] <= made'[i]
                          /\ \A k \in 1 .. Len(inq'[i]) : ep[i] < inq'[i][k]
      BY <2>6
    <3>4. ep'[i] = ep[i] /\ last'[i] = last[i]
      BY <1>2
    <3>5. QED
      BY <2>4, <3>1, <3>2, <3>3, <3>4 DEF Sorted
  <2>8. Accounted(i)'
    <3>1. ASSUME NEW n \in 1 .. Reports, last[i] < n, n <= made'[i],
                 n # ep[i], n \notin cut[i]
          PROVE  \E k \in 1 .. Len(inq'[i]) : inq'[i][k] = n
      <4>1. CASE n = made[i] + 1
        BY <4>1, <2>2
      <4>2. CASE n # made[i] + 1
        <5>1. n <= made[i]
          BY <1>2, <3>1, <4>2
        <5>2. PICK k \in 1 .. Len(inq[i]) : inq[i][k] = n
          BY <1>4, <3>1, <5>1 DEF Accounted
        <5>3. QED
          BY <2>2, <5>2
      <4>3. QED
        BY <4>1, <4>2
    <3>2. QED
      BY <1>2, <1>6, <3>1 DEF Accounted
  <2>9. QED
    BY <1>1, <2>7, <2>8
<1>7. CASE inq' = inq /\ cut' = [cut EXCEPT ![i] = @ \cup {made[i] + 1}]
  <2>1. cut'[i] = cut[i] \cup {made[i] + 1}
    BY <1>7 DEF TypeOK
  <2>2. Sorted(i)'
    BY <1>2, <1>4, <1>5, <1>7 DEF Sorted
  <2>3. Accounted(i)'
    <3>1. ASSUME NEW n \in 1 .. Reports, last[i] < n, n <= made'[i],
                 n # ep[i], n \notin cut'[i]
          PROVE  \E k \in 1 .. Len(inq[i]) : inq[i][k] = n
      <4>1. n <= made[i] /\ n \notin cut[i]
        BY <1>2, <2>1, <3>1
      <4>2. QED
        BY <1>4, <3>1, <4>1 DEF Accounted
    <3>2. QED
      BY <1>2, <1>7, <3>1 DEF Accounted
  <2>4. QED
    BY <1>1, <2>2, <2>3
<1>8. QED
    BY <1>3, <1>6, <1>7 DEF ReportReceived

LEMMA FlushOrder ==
    ASSUME OrderInv, TypeOK, PresenceBegin
    PROVE  \A i \in Itf : Sorted(i)' /\ Accounted(i)'
<1> SUFFICES ASSUME NEW i \in Itf PROVE Sorted(i)' /\ Accounted(i)'
    OBVIOUS
<1>1. /\ inq'[i] = <<>> /\ ep'[i] = None /\ Len(inq'[i]) = 0
      /\ cut'[i] = cut[i] \cup Queued(i) \cup ({ep[i]} \ {None})
      /\ made' = made /\ last' = last
    BY DEF PresenceBegin, core1Vars, hostVars
<1>2. Sorted(i) /\ Accounted(i)
    BY DEF OrderInv
<1>3. Sorted(i)'
    BY <1>1, <1>2 DEF Sorted
<1>4. ASSUME NEW n \in 1 .. Reports, last[i] < n, n <= made[i]
      PROVE  n \in cut'[i]
  <2>1. n # None
    BY BoundsAssumption
  <2>2. n = ep[i] \/ n \in cut[i] \/ \E k \in 1 .. Len(inq[i]) : inq[i][k] = n
    BY <1>2, <1>4 DEF Accounted
  <2>3. QED
    BY <1>1, <2>1, <2>2 DEF Queued
<1>5. Accounted(i)'
    BY <1>1, <1>4 DEF Accounted
<1>6. QED
    BY <1>3, <1>5

\* forward_in moves the oldest report of the ring to the endpoint.
LEMMA ForwardOrder ==
    ASSUME OrderInv, TypeOK, NEW i \in Itf, ForwardIn(i)
    PROVE  /\ \A j \in Itf : Sorted(j)' /\ Accounted(j)'
           /\ \A j \in Itf : j # i => ep'[j] = ep[j]
           /\ ep'[i] > last[i]
           /\ last[i] + 1 .. ep'[i] - 1 \subseteq cut[i]
<1>1. made' = made /\ last' = last /\ cut' = cut
    BY DEF ForwardIn, core1Vars, hostVars
<1>2. ASSUME NEW j \in Itf, j # i
      PROVE  Sorted(j)' /\ Accounted(j)' /\ ep'[j] = ep[j]
  <2>1. inq'[j] = inq[j] /\ ep'[j] = ep[j]
    BY <1>2 DEF ForwardIn, TypeOK
  <2>2. QED
    BY <1>1, <2>1 DEF OrderInv, Sorted, Accounted
<1>3. /\ inq'[i] = Tail(inq[i]) /\ ep'[i] = Head(inq[i]) /\ ep[i] = None
      /\ inq[i] # <<>> /\ inq[i] \in Seq(1 .. Reports)
    BY DEF ForwardIn, Ready, TypeOK
<1>4. /\ Len(inq[i]) \in Nat \ {0} /\ Len(inq'[i]) = Len(inq[i]) - 1
      /\ \A k \in 1 .. Len(inq'[i]) : inq'[i][k] = inq[i][k + 1]
      /\ ep'[i] = inq[i][1]
  <2>1. Len(inq[i]) \in Nat \ {0}
    BY <1>3, EmptySeq
  <2>2. QED
    BY <1>3, <2>1, HeadTailProperties
<1>5. Sorted(i) /\ Accounted(i)
    BY DEF OrderInv
<1>6. Sorted(i)'
  <2>1. last[i] <= made[i] /\ last[i] < ep'[i] /\ ep'[i] <= made[i]
    BY <1>4, <1>5 DEF Sorted
  <2>2. \A k \in 1 .. Len(inq'[i]) : k + 1 \in 1 .. Len(inq[i])
    BY <1>4
  <2>3. \A k \in 1 .. Len(inq'[i]) :
            last[i] < inq'[i][k] /\ inq'[i][k] <= made[i] /\ ep'[i] < inq'[i][k]
    BY <1>4, <1>5, <2>2 DEF Sorted
  <2>4. \A j, k \in 1 .. Len(inq'[i]) : j < k => inq'[i][j] < inq'[i][k]
    BY <1>4, <1>5, <2>2 DEF Sorted
  <2>5. QED
    BY <1>1, <2>1, <2>3, <2>4 DEF Sorted
<1>7. ASSUME NEW n \in 1 .. Reports, last[i] < n, n <= made[i], n # ep'[i],
             n \notin cut[i]
      PROVE  \E k \in 1 .. Len(inq'[i]) : inq'[i][k] = n
  <2>1. n # ep[i]
    BY <1>3, BoundsAssumption
  <2>2. PICK k \in 1 .. Len(inq[i]) : inq[i][k] = n
    BY <1>5, <1>7, <2>1 DEF Accounted
  <2>3. k # 1 /\ k - 1 \in 1 .. Len(inq'[i]) /\ (k - 1) + 1 = k
    BY <1>4, <1>7, <2>2
  <2>4. inq'[i][k - 1] = n
    BY <1>4, <2>2, <2>3
  <2>5. QED
    BY <2>3, <2>4
<1>8. Accounted(i)'
    BY <1>1, <1>7 DEF Accounted
<1>9. /\ last[i] \in Nat /\ made[i] \in 0 .. Reports
      /\ ep'[i] \in 1 .. Reports /\ last[i] < ep'[i] /\ ep'[i] <= made[i]
  <2>1. last[i] \in Nat /\ made[i] \in 0 .. Reports
    BY BoundsAssumption DEF TypeOK
  <2>2. ep'[i] \in 1 .. Reports
    <3>1. 1 \in 1 .. Len(inq[i])
      BY <1>4
    <3>2. inq[i][1] \in 1 .. Reports
      BY <1>3, <3>1, ElementOfSeq
    <3>3. QED
      BY <1>4, <3>2
  <2>3. last[i] < inq[i][1] /\ inq[i][1] <= made[i]
    BY <1>4, <1>5 DEF Sorted
  <2>4. QED
    BY <1>4, <2>1, <2>2, <2>3
<1>10. ASSUME NEW n \in last[i] + 1 .. ep'[i] - 1
       PROVE  n \in cut[i]
  <2>1. n \in 1 .. Reports /\ last[i] < n /\ n < ep'[i] /\ n <= made[i]
    BY <1>9, <1>10, BoundsAssumption
  <2>2. n # ep[i]
    BY <1>3, <2>1, BoundsAssumption
  <2>3. ~ \E k \in 1 .. Len(inq[i]) : inq[i][k] = n
    <3>1. ASSUME NEW k \in 1 .. Len(inq[i]), inq[i][k] = n PROVE FALSE
      <4>1. k = 1 \/ (1 < k /\ 1 \in 1 .. Len(inq[i]))
        BY <1>4
      <4>2. inq[i][1] <= inq[i][k]
        BY <1>4, <1>5, <1>9, <3>1, <4>1, <2>1 DEF Sorted
      <4>3. QED
        BY <1>4, <1>9, <2>1, <3>1, <4>2
    <3>2. QED
      BY <3>1
  <2>4. QED
    BY <1>5, <2>1, <2>2, <2>3 DEF Accounted
<1>11. QED
    BY <1>2, <1>6, <1>8, <1>9, <1>10

\* The PC takes what is on the endpoint, and nothing older is left anywhere.
LEMMA PollOrder ==
    ASSUME OrderInv, TypeOK, NEW i \in Itf, PcPoll(i)
    PROVE  /\ \A j \in Itf : Sorted(j)' /\ Accounted(j)'
           /\ \A j \in Itf : ep'[j] \in {None, ep[j]}
<1>1. made' = made /\ inq' = inq /\ cut' = cut
    BY DEF PcPoll, core1Vars, hostVars
<1>2. ASSUME NEW j \in Itf, j # i
      PROVE  Sorted(j)' /\ Accounted(j)' /\ ep'[j] = ep[j]
  <2>1. last'[j] = last[j] /\ ep'[j] = ep[j]
    BY <1>2 DEF PcPoll, TypeOK
  <2>2. QED
    BY <1>1, <2>1 DEF OrderInv, Sorted, Accounted
<1>3. /\ last'[i] = ep[i] /\ ep'[i] = None /\ ep[i] # None
      /\ ep[i] \in 1 .. Reports /\ last[i] \in Nat /\ made[i] \in Nat
    BY BoundsAssumption DEF PcPoll, TypeOK
<1>4. Sorted(i) /\ Accounted(i)
    BY DEF OrderInv
<1>5. /\ last[i] < ep[i] /\ ep[i] <= made[i]
      /\ \A k \in 1 .. Len(inq[i]) : ep[i] < inq[i][k]
    BY <1>3, <1>4 DEF Sorted
<1>6. Sorted(i)'
    BY <1>1, <1>3, <1>4, <1>5 DEF Sorted
<1>7. Accounted(i)'
  <2>1. ASSUME NEW n \in 1 .. Reports, last'[i] < n, n <= made[i], n \notin cut[i]
        PROVE  \E k \in 1 .. Len(inq[i]) : inq[i][k] = n
    <3>1. last[i] < n /\ n # ep[i]
      BY <1>3, <1>5, <2>1, BoundsAssumption
    <3>2. QED
      BY <1>4, <2>1, <3>1 DEF Accounted
  <2>2. QED
    BY <1>1, <2>1 DEF Accounted
<1>8. QED
    BY <1>2, <1>3, <1>6, <1>7

LEMMA NextOrder ==
    ASSUME OrderInv, [Next]_vars
    PROVE  /\ OrderInv'
           /\ \A i \in Itf : ep'[i] \notin {None, ep[i]} =>
                 /\ ep'[i] > last[i]
                 /\ last[i] + 1 .. ep'[i] - 1 \subseteq cut[i]
<1> DEFINE Kept == \A i \in Itf : Sorted(i)' /\ Accounted(i)'
           Unchanged == \A i \in Itf : ep'[i] \in {None, ep[i]}
<1>0. FlowInv' /\ TypeOK
    BY NextFlow DEF OrderInv, FlowInv
<1> USE DEF core0Vars, core1Vars, hostVars, pcVars
<1>1. ASSUME NEW i \in Itf, Mount(i) \/ Rest(i) \/ Arm(i)
      PROVE  Kept /\ Unchanged
    BY <1>1, SameOrder DEF Mount, Rest, Arm
<1>2. ASSUME Unplug \/ PowerOff \/ LinkService \/ PresenceBuild \/ PresenceEnd
      PROVE  Kept /\ Unchanged
    BY <1>2, SameOrder DEF Unplug, PowerOff, LinkService, PresenceBuild, PresenceEnd
<1>3. ASSUME NEW i \in Itf, ReportReceived(i) PROVE Kept /\ Unchanged
    BY <1>0, <1>3, ReceiveOrder DEF ReportReceived
<1>4. ASSUME PresenceBegin PROVE Kept /\ Unchanged
    BY <1>0, <1>4, FlushOrder DEF PresenceBegin
<1>5. ASSUME NEW i \in Itf, ForwardIn(i)
      PROVE  /\ Kept
             /\ \A j \in Itf : ep'[j] \notin {None, ep[j]} =>
                   /\ ep'[j] > last[j]
                   /\ last[j] + 1 .. ep'[j] - 1 \subseteq cut[j]
    BY <1>0, <1>5, ForwardOrder
<1>6. ASSUME NEW i \in Itf, PcPoll(i) PROVE Kept /\ Unchanged
    BY <1>0, <1>6, PollOrder
<1>7. ASSUME UNCHANGED vars PROVE Kept /\ Unchanged
    BY <1>7, SameOrder DEF vars
<1> HIDE DEF Kept
<1>8. /\ Kept
      /\ \A j \in Itf : ep'[j] \notin {None, ep[j]} =>
            /\ ep'[j] > last[j]
            /\ last[j] + 1 .. ep'[j] - 1 \subseteq cut[j]
    BY <1>1, <1>2, <1>3, <1>4, <1>5, <1>6, <1>7 DEF Next, Core0, Core1
<1>9. QED
    BY <1>0, <1>8 DEF OrderInv, Kept

\* Reports reach the PC in the order the key produced them, each at most
\* once, and every one that is skipped was discarded by a flush, a
\* re-enumeration or a power cut.
THEOREM OrderKept == Spec => InOrder
<1>1. Init => OrderInv
    BY InitOrder
<1>2. OrderInv /\ [Next]_vars => OrderInv'
    BY NextOrder
<1>3. OrderInv /\ [Next]_vars =>
        [\A i \in Itf : ep'[i] \notin {None, ep[i]} =>
            /\ ep'[i] > last[i]
            /\ last[i] + 1 .. ep'[i] - 1 \subseteq cut[i]]_vars
    BY NextOrder
<1>4. QED
    BY <1>1, <1>2, <1>3, PTL DEF Spec, InOrder
===========================================================================
