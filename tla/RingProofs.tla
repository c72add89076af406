----------------------------- MODULE RingProofs -----------------------------
(***************************************************************************)
(* Proofs about the firmware's two rings, for every size N >= 2 and every  *)
(* set of entries.  spsc_queue<T, N>: its types, the absence of a race on  *)
(* a slot, that the consumer never sees a half-written report, and that it *)
(* implements the bounded queue of Fifo.  LogRing, as long as no two of    *)
(* its writes overlap: the same.  What both rest on, distances round       *)
(* a ring and the sequence its cells stand for, is stated once.            *)
(***************************************************************************)
EXTENDS SpscQueue, SequenceTheorems, TLAPS

---------------------------------------------------------------------------
(* Ring arithmetic *)

\* The code's modulus is a wrap: inside the ring the successor is one more,
\* and past the last slot it is zero.
LEMMA SuccWraps ==
    ASSUME NEW i \in Index
    PROVE  /\ Succ(i) = IF i + 1 = N THEN 0 ELSE i + 1
           /\ Succ(i) \in Index
    BY NAssumption DEF Succ, Index

\* A ring distance is a number smaller than the ring.
LEMMA DistBound ==
    ASSUME NEW a \in Index, NEW b \in Index
    PROVE  /\ Dist(a, b) \in 0 .. N - 1
           /\ Dist(a, b) = 0 <=> a = b
    BY NAssumption DEF Dist, Index

\* Moving the far end of an interval forward lengthens it by one, unless it
\* catches up with the near end.
LEMMA DistGrow ==
    ASSUME NEW a \in Index, NEW b \in Index, Succ(b) # a
    PROVE  Dist(a, Succ(b)) = Dist(a, b) + 1
    BY NAssumption, SuccWraps DEF Dist, Index

\* Moving the near end of an interval forward shortens it by one.
LEMMA DistDrop ==
    ASSUME NEW a \in Index, NEW b \in Index, a # b
    PROVE  Dist(Succ(a), b) = Dist(a, b) - 1 /\ Dist(a, b) \in Nat
    BY NAssumption, SuccWraps DEF Dist, Index

\* Cutting an interval in two.
LEMMA DistSplit ==
    ASSUME NEW a \in Index, NEW b \in Index, NEW c \in Index,
           Dist(a, b) <= Dist(a, c)
    PROVE  Dist(b, c) = Dist(a, c) - Dist(a, b)
    BY NAssumption DEF Dist, Index

---------------------------------------------------------------------------
(* The sequence a ring stands for *)

\* The k-th cell from t, and what the cells from t up to h hold.
Nth(t, k) == IF t + k < N THEN t + k ELSE t + k - N
Content(b, t, h) == [k \in 1 .. Dist(t, h) |-> b[Nth(t, k - 1)]]

\* The cells from t up to h hold members of S.
Filled(S, b, t, h) == \A i \in Index : Dist(t, i) < Dist(t, h) => b[i] \in S

\* The k-th cell from t is a cell, at distance k.
LEMMA NthInRing ==
    ASSUME NEW t \in Index, NEW k \in 0 .. N - 1
    PROVE  Nth(t, k) \in Index /\ Dist(t, Nth(t, k)) = k
    BY NAssumption DEF Nth, Dist, Index

LEMMA ContentCells ==
    ASSUME NEW b, NEW t \in Index, NEW h \in Index, NEW k \in 1 .. Dist(t, h)
    PROVE  /\ Nth(t, k - 1) \in Index /\ Dist(t, Nth(t, k - 1)) < Dist(t, h)
           /\ Content(b, t, h)[k] = b[Nth(t, k - 1)]
<1>1. k - 1 \in 0 .. N - 1 /\ k - 1 < Dist(t, h)
    BY DistBound, NAssumption
<1>2. QED
    BY <1>1, NthInRing DEF Content

LEMMA ContentIsSeq ==
    ASSUME NEW S, NEW b, NEW t \in Index, NEW h \in Index, Filled(S, b, t, h)
    PROVE  Content(b, t, h) \in Seq(S) /\ Len(Content(b, t, h)) = Dist(t, h)
<1>1. Dist(t, h) \in Nat
    BY DistBound, NAssumption
<1>2. \A k \in 1 .. Dist(t, h) : b[Nth(t, k - 1)] \in S
    BY ContentCells DEF Filled
<1>3. QED
    BY <1>1, <1>2 DEF Content

\* A write outside the cells from t up to h leaves the sequence alone.
LEMMA ContentKept ==
    ASSUME NEW b, NEW c, NEW t \in Index, NEW h \in Index,
           \A i \in Index : Dist(t, i) < Dist(t, h) => c[i] = b[i]
    PROVE  Content(c, t, h) = Content(b, t, h)
<1>1. \A k \in 1 .. Dist(t, h) : c[Nth(t, k - 1)] = b[Nth(t, k - 1)]
    BY ContentCells
<1>2. QED
    BY <1>1 DEF Content

\* The oldest entry is the one at t.
LEMMA ContentFirst ==
    ASSUME NEW S, NEW b, NEW t \in Index, NEW h \in Index, Filled(S, b, t, h), t # h
    PROVE  Content(b, t, h) # <<>> /\ Head(Content(b, t, h)) = b[t]
<1>1. Dist(t, h) \in 1 .. N - 1
    BY DistBound
<1>2. Content(b, t, h) \in Seq(S) /\ Len(Content(b, t, h)) = Dist(t, h)
    BY ContentIsSeq
<1>3. Content(b, t, h)[1] = b[Nth(t, 0)] /\ Nth(t, 0) = t
    BY <1>1, NAssumption DEF Content, Nth, Index
<1>4. QED
    BY <1>1, <1>2, <1>3

\* Moving the far end over a finished cell appends what it holds.
LEMMA ContentGrows ==
    ASSUME NEW S, NEW b, NEW t \in Index, NEW h \in Index, Filled(S, b, t, h),
           Succ(h) # t, b[h] \in S
    PROVE  /\ Content(b, t, Succ(h)) = Append(Content(b, t, h), b[h])
           /\ Filled(S, b, t, Succ(h))
           /\ Len(Content(b, t, h)) < N - 1
<1> DEFINE n == Dist(t, h)
           u == Content(b, t, h)
           v == Content(b, t, Succ(h))
<1>1. Dist(t, Succ(h)) = n + 1 /\ n + 1 \in 0 .. N - 1 /\ n \in 0 .. N - 1
    BY DistGrow, DistBound, SuccWraps
<1>2. u \in Seq(S) /\ Len(u) = n
    BY ContentIsSeq
<1>3. Nth(t, n) = h
    BY NAssumption DEF Nth, Dist, Index
<1>4. ASSUME NEW i \in Index, Dist(t, i) < n + 1, i # h PROVE Dist(t, i) < n
    BY <1>4, NAssumption DEF Dist, Index
<1>5. Filled(S, b, t, Succ(h))
    BY <1>1, <1>4 DEF Filled
<1>6. Len(v) = n + 1 /\ v \in Seq(S)
    BY <1>1, <1>5, ContentIsSeq, SuccWraps
<1>7. \A k \in 1 .. n : v[k] = u[k]
    BY <1>1 DEF Content
<1>8. v[n + 1] = b[h]
  <2>1. n + 1 \in 1 .. Dist(t, Succ(h)) /\ (n + 1) - 1 = n
    BY <1>1
  <2>2. v[n + 1] = b[Nth(t, (n + 1) - 1)]
    BY <2>1 DEF Content
  <2>3. QED
    BY <1>3, <2>1, <2>2
<1> HIDE DEF n, u, v
<1>9. /\ Append(u, b[h]) \in Seq(S) /\ Len(Append(u, b[h])) = n + 1
      /\ \A k \in 1 .. n : Append(u, b[h])[k] = u[k]
      /\ Append(u, b[h])[n + 1] = b[h]
    BY <1>2, AppendProperties
<1>10. \A k \in 1 .. Len(v) : v[k] = Append(u, b[h])[k]
    BY <1>1, <1>6, <1>7, <1>8, <1>9
<1>11. v = Append(u, b[h])
    BY <1>6, <1>9, <1>10, SeqEqual
<1>12. Len(u) < N - 1
    BY <1>1, <1>2, NAssumption
<1>13. QED
    BY <1>5, <1>11, <1>12 DEF u, v

\* Moving the near end up to m, not past the far end, takes away that many
\* entries from the front.
LEMMA ContentCut ==
    ASSUME NEW S, NEW b, NEW t \in Index, NEW h \in Index, NEW m \in Index,
           Filled(S, b, t, h), Dist(t, m) <= Dist(t, h)
    PROVE  /\ Content(b, m, h) =
                SubSeq(Content(b, t, h), Dist(t, m) + 1, Len(Content(b, t, h)))
           /\ Filled(S, b, m, h)
<1> DEFINE d == Dist(t, m)
           n == Dist(t, h)
           u == Content(b, t, h)
<1>1. d \in 0 .. N - 1 /\ n \in 0 .. N - 1 /\ d <= n /\ Dist(m, h) = n - d
    BY DistBound, DistSplit
<1>2. u \in Seq(S) /\ Len(u) = n
    BY ContentIsSeq
<1>3. \A k \in 1 .. n - d : Nth(m, k - 1) = Nth(t, d + k - 1)
    BY <1>1, NAssumption DEF Nth, Index, Dist
<1>4. Content(b, m, h) = [k \in 1 .. n - d |-> b[Nth(t, d + k - 1)]]
    BY <1>1, <1>3 DEF Content
<1>5. \A k \in 1 .. n - d : u[d + k] = b[Nth(t, d + k - 1)]
    BY <1>1 DEF Content
<1>6. ASSUME NEW i \in Index, Dist(m, i) < Dist(m, h) PROVE Dist(t, i) < n
    BY <1>1, <1>6, NAssumption DEF Dist, Index
<1>7. Filled(S, b, m, h)
    BY <1>6 DEF Filled
<1> HIDE DEF d, n, u
<1>8. SubSeq(u, d + 1, Len(u)) = [k \in 1 .. n - d |-> u[d + k]]
    BY <1>1, <1>2
<1>9. QED
    BY <1>4, <1>5, <1>7, <1>8 DEF d, u

\* Taking the oldest entry.
LEMMA ContentDrops ==
    ASSUME NEW S, NEW b, NEW t \in Index, NEW h \in Index, Filled(S, b, t, h), t # h
    PROVE  /\ Content(b, Succ(t), h) = Tail(Content(b, t, h))
           /\ Filled(S, b, Succ(t), h)
<1> DEFINE u == Content(b, t, h)
<1>1. Dist(t, Succ(t)) = 1 /\ Succ(t) \in Index /\ Dist(t, Succ(t)) <= Dist(t, h)
    BY SuccWraps, DistBound, NAssumption DEF Dist, Index
<1>2. /\ Content(b, Succ(t), h) = SubSeq(u, Dist(t, Succ(t)) + 1, Len(u))
      /\ Filled(S, b, Succ(t), h)
    BY <1>1, ContentCut
<1>3. u \in Seq(S) /\ u # <<>>
    BY ContentIsSeq, ContentFirst
<1> HIDE DEF u
<1>4. SubSeq(u, 2, Len(u)) = Tail(u)
    BY <1>3
<1>5. QED
    BY <1>1, <1>2, <1>4 DEF u

---------------------------------------------------------------------------
(* spsc_queue: the inductive invariant *)

\* A producer that has reserved a slot has room for it, and holds one report.
Reserved ==
    ppc # "idle" => /\ Succ(head) # tail
                    /\ \E m \in Msg : pmsg = {m}

\* A slot that was copied into holds the producer's report.
Written == ppc = "written" => pmsg = {slot[head]}

\* Every slot from tail up to head holds a finished report.
Published == Filled(Msg, slot, tail, head)

\* A consumer that peeked holds the oldest report, which is still there.
Held ==
    /\ cpc \in {"peeked", "holding"} => tail # head
    /\ cgot = IF cpc = "holding" THEN {slot[tail]} ELSE {}

\* A flush in progress set its mark between tail and head.
Marked == cpc = "flushing" => Dist(tail, chead) <= Dist(tail, head)

IInv == TypeOK /\ Reserved /\ Written /\ Published /\ Held /\ Marked

---------------------------------------------------------------------------
(* spsc_queue: type correctness *)

LEMMA InitTypeOK == Init => TypeOK
    BY NAssumption DEF Init, TypeOK, Index

LEMMA NextTypeOK == TypeOK /\ [Next]_vars => TypeOK'
<1> SUFFICES ASSUME TypeOK, [Next]_vars PROVE TypeOK'
    OBVIOUS
<1> USE NAssumption DEF TypeOK
<1>1. ASSUME NEW m \in Msg, Reserve(m) PROVE TypeOK'
    BY <1>1 DEF Reserve
<1>2. CASE BeginWrite
    BY <1>2 DEF BeginWrite
<1>3. CASE EndWrite
    BY <1>3 DEF EndWrite
<1>4. CASE Commit
    BY <1>4, SuccWraps DEF Commit
<1>5. CASE Peek
    BY <1>5 DEF Peek
<1>6. CASE ReadSlot
    BY <1>6 DEF ReadSlot
<1>7. CASE Pop
    BY <1>7, SuccWraps DEF Pop
<1>8. CASE Retry
    BY <1>8 DEF Retry
<1>9. CASE FlushRead
    BY <1>9 DEF FlushRead
<1>10. CASE FlushStore
    BY <1>10 DEF FlushStore
<1>11. CASE UNCHANGED vars
    BY <1>11 DEF vars
<1>12. QED
    BY <1>1, <1>2, <1>3, <1>4, <1>5, <1>6, <1>7, <1>8, <1>9, <1>10, <1>11
       DEF Next, Producer, Consumer

\* The ring's indices stay inside the ring, and its slots and the callers'
\* locals keep their types, whatever the two cores interleave.
THEOREM TypeCorrect == Spec => []TypeOK
<1>1. Init => TypeOK
    BY InitTypeOK
<1>2. TypeOK /\ [Next]_vars => TypeOK'
    BY NextTypeOK
<1>3. QED
    BY <1>1, <1>2, PTL DEF Spec

---------------------------------------------------------------------------
(* spsc_queue: the invariant is inductive *)

LEMMA InitIInv == Init => IInv
<1> SUFFICES ASSUME Init PROVE IInv
    OBVIOUS
<1>1. TypeOK
    BY InitTypeOK
<1>2. Reserved /\ Written /\ Held /\ Marked
    BY DEF Init, Reserved, Written, Held, Marked
<1>3. Published
    BY NAssumption DEF Init, Published, Filled, Dist, Index
<1>4. QED
    BY <1>1, <1>2, <1>3 DEF IInv

\* The copy into the slot the producer reserved leaves the published slots
\* alone, because that slot is not one of them.
LEMMA WriteOutside ==
    ASSUME IInv, NEW x \in Msg \cup {Torn}, ppc # "idle",
           slot' = [slot EXCEPT ![head] = x], tail' = tail, head' = head
    PROVE  /\ Published'
           /\ cpc = "holding" => slot'[tail] = slot[tail]
           /\ \A i \in Index : Dist(tail, i) < Dist(tail, head)
                                => slot'[i] = slot[i]
<1>1. \A i \in Index : Dist(tail, i) < Dist(tail, head) => i # head
    BY NAssumption DEF Dist, Index, IInv, TypeOK
<1>2. \A i \in Index : i # head => slot'[i] = slot[i]
    BY DEF IInv, TypeOK
<1>3. Published'
    BY <1>1, <1>2 DEF IInv, Published, Filled, Dist
<1>4. cpc = "holding" => slot'[tail] = slot[tail]
    BY <1>2 DEF IInv, Held, TypeOK
<1>5. QED
    BY <1>1, <1>2, <1>3, <1>4

\* Steps that leave the ring itself alone.
LEMMA StillPublished ==
    ASSUME IInv, UNCHANGED <<slot, head, tail>>
    PROVE  Published'
    BY DEF IInv, Published, Filled, Dist

LEMMA CommitIInv == IInv /\ Commit => Published' /\ Marked'
<1> SUFFICES ASSUME IInv, Commit PROVE Published' /\ Marked'
    OBVIOUS
<1> USE DEF IInv, TypeOK, Commit
<1>1. Succ(head) # tail /\ slot[head] \in Msg
    BY DEF Reserved, Written
<1>2. Filled(Msg, slot, tail, Succ(head))
    BY <1>1, ContentGrows DEF Published
<1>3. Published'
    BY <1>2 DEF Published, Filled, Dist
<1>4. Dist(tail, head') = Dist(tail, head) + 1
    BY <1>1, DistGrow
<1>5. Marked'
    BY <1>4, DistBound DEF Marked, Dist, Index
<1>6. QED
    BY <1>3, <1>5

\* Taking the oldest report away leaves the later ones published.
LEMMA PopIInv == IInv /\ Pop => Published' /\ Reserved'
<1> SUFFICES ASSUME IInv, Pop PROVE Published' /\ Reserved'
    OBVIOUS
<1> USE DEF IInv, TypeOK, Pop
<1>1. tail # head
    BY DEF Held
<1>2. Filled(Msg, slot, Succ(tail), head)
    BY <1>1, ContentDrops DEF Published
<1>3. Published'
    BY <1>2 DEF Published, Filled, Dist
<1>4. Reserved'
    BY <1>1, SuccWraps, NAssumption DEF Reserved, Index
<1>5. QED
    BY <1>3, <1>4

\* A flush takes away a prefix of what is queued, no more.
LEMMA FlushIInv == IInv /\ FlushStore => Published' /\ Reserved'
<1> SUFFICES ASSUME IInv, FlushStore PROVE Published' /\ Reserved'
    OBVIOUS
<1> USE DEF IInv, TypeOK, FlushStore
<1>1. Dist(tail, chead) <= Dist(tail, head)
    BY DEF Marked
<1>2. Filled(Msg, slot, chead, head)
    BY <1>1, ContentCut DEF Published
<1>3. Published'
    BY <1>2 DEF Published, Filled, Dist
<1>4. ASSUME Succ(head) # tail
      PROVE  Succ(head) # chead
    BY <1>1, <1>4, SuccWraps, NAssumption DEF Dist, Index
<1>5. Reserved'
    BY <1>4, SuccWraps DEF Reserved
<1>6. QED
    BY <1>3, <1>5

LEMMA NextIInv == IInv /\ [Next]_vars => IInv'
<1> SUFFICES ASSUME IInv, [Next]_vars PROVE IInv'
    OBVIOUS
<1>0. TypeOK'
    BY NextTypeOK DEF IInv
<1>1. ASSUME NEW m \in Msg, Reserve(m) PROVE IInv'
  <2>1. Published'
    BY <1>1, StillPublished DEF Reserve
  <2>2. Reserved' /\ Written' /\ Held' /\ Marked'
    BY <1>1, SuccWraps
       DEF Reserve, IInv, Reserved, Written, Held, Marked, Dist, TypeOK
  <2>3. QED
    BY <1>0, <2>1, <2>2 DEF IInv
<1>2. CASE BeginWrite
  <2>1. Published' /\ (cpc = "holding" => slot'[tail] = slot[tail])
    BY <1>2, WriteOutside DEF BeginWrite
  <2>2. Reserved' /\ Written' /\ Held' /\ Marked'
    BY <1>2, <2>1
       DEF BeginWrite, IInv, Reserved, Written, Held, Marked, Dist, Succ
  <2>3. QED
    BY <1>0, <2>1, <2>2 DEF IInv
<1>3. CASE EndWrite
  <2>1. PICK m \in Msg : pmsg = {m}
    BY <1>3 DEF EndWrite, IInv, Reserved
  <2>2. slot' = [slot EXCEPT ![head] = m]
    BY <1>3, <2>1 DEF EndWrite
  <2>3. Published' /\ (cpc = "holding" => slot'[tail] = slot[tail])
    BY <1>3, <2>2, WriteOutside DEF EndWrite
  <2>4. Written'
    BY <1>3, <2>1, <2>2 DEF EndWrite, Written, IInv, TypeOK
  <2>5. Reserved' /\ Held' /\ Marked'
    BY <1>3, <2>3
       DEF EndWrite, IInv, Reserved, Held, Marked, Dist, Succ
  <2>6. QED
    BY <1>0, <2>3, <2>4, <2>5 DEF IInv
<1>4. CASE Commit
  <2>1. Published' /\ Marked'
    BY <1>4, CommitIInv
  <2>2. Reserved' /\ Written'
    BY <1>4 DEF Commit, Reserved, Written
  <2>3. Held'
    BY <1>4 DEF Commit, IInv, Held, Reserved
  <2>4. QED
    BY <1>0, <2>1, <2>2, <2>3 DEF IInv
<1>5. CASE Peek
  <2>1. Published'
    BY <1>5, StillPublished DEF Peek
  <2>2. Reserved' /\ Written' /\ Held' /\ Marked'
    BY <1>5 DEF Peek, IInv, Reserved, Written, Held, Marked, Dist, Succ
  <2>3. QED
    BY <1>0, <2>1, <2>2 DEF IInv
<1>6. CASE ReadSlot
  <2>1. Published'
    BY <1>6, StillPublished DEF ReadSlot
  <2>2. Reserved' /\ Written' /\ Held' /\ Marked'
    BY <1>6 DEF ReadSlot, IInv, Reserved, Written, Held, Marked, Dist, Succ
  <2>3. QED
    BY <1>0, <2>1, <2>2 DEF IInv
<1>7. CASE Pop
  <2>1. Published' /\ Reserved'
    BY <1>7, PopIInv
  <2>2. Written' /\ Held' /\ Marked'
    BY <1>7 DEF Pop, IInv, Written, Held, Marked
  <2>3. QED
    BY <1>0, <2>1, <2>2 DEF IInv
<1>8. CASE Retry
  <2>1. Published'
    BY <1>8, StillPublished DEF Retry
  <2>2. Reserved' /\ Written' /\ Held' /\ Marked'
    BY <1>8 DEF Retry, IInv, Reserved, Written, Held, Marked, Dist, Succ
  <2>3. QED
    BY <1>0, <2>1, <2>2 DEF IInv
<1>9. CASE FlushRead
  <2>1. Published'
    BY <1>9, StillPublished DEF FlushRead
  <2>2. Marked'
    BY <1>9, DistBound DEF FlushRead, IInv, Marked, Dist, Index, TypeOK
  <2>3. Reserved' /\ Written' /\ Held'
    BY <1>9 DEF FlushRead, IInv, Reserved, Written, Held, Succ
  <2>4. QED
    BY <1>0, <2>1, <2>2, <2>3 DEF IInv
<1>10. CASE FlushStore
  <2>1. Published' /\ Reserved'
    BY <1>10, FlushIInv
  <2>2. Written' /\ Held' /\ Marked'
    BY <1>10 DEF FlushStore, IInv, Written, Held, Marked
  <2>3. QED
    BY <1>0, <2>1, <2>2 DEF IInv
<1>11. CASE UNCHANGED vars
  <2>1. Published'
    BY <1>11, StillPublished DEF vars
  <2>2. Reserved' /\ Written' /\ Held' /\ Marked'
    BY <1>11 DEF vars, IInv, Reserved, Written, Held, Marked, Dist, Succ
  <2>3. QED
    BY <1>0, <2>1, <2>2 DEF IInv
<1>12. QED
    BY <1>1, <1>2, <1>3, <1>4, <1>5, <1>6, <1>7, <1>8, <1>9, <1>10, <1>11
       DEF Next, Producer, Consumer

LEMMA AlwaysIInv == Spec => []IInv
<1>1. Init => IInv
    BY InitIInv
<1>2. IInv /\ [Next]_vars => IInv'
    BY NextIInv
<1>3. QED
    BY <1>1, <1>2, PTL DEF Spec

\* The two cores never use one slot at a time: the producer's slot is never
\* the one the consumer peeked at.
THEOREM SlotRaceFree == Spec => []NoSlotRace
<1>1. IInv => NoSlotRace
    BY DEF IInv, NoSlotRace, Held
<1>2. QED
    BY <1>1, AlwaysIInv, PTL

\* The consumer is only ever handed a report the producer finished copying.
THEOREM ReportsWhole == Spec => []NeverTorn
<1>1. IInv => NeverTorn
  <2> SUFFICES ASSUME IInv PROVE NeverTorn
    OBVIOUS
  <2>1. CASE cpc = "holding"
    <3>1. slot[tail] \in Msg
      BY <2>1, DistBound DEF IInv, TypeOK, Published, Filled, Held, Index
    <3>2. QED
      BY <2>1, <3>1, TornAssumption DEF IInv, Held, NeverTorn
  <2>2. CASE cpc # "holding"
    BY <2>2 DEF IInv, Held, NeverTorn
  <2>3. QED
    BY <2>1, <2>2
<1>2. QED
    BY <1>1, AlwaysIInv, PTL

---------------------------------------------------------------------------
(* spsc_queue implements the bounded queue *)

Queue == Content(slot, tail, head)
Mark == IF cpc = "flushing" THEN Dist(tail, chead) ELSE 0

LEMMA QueueMapped ==
    /\ Queue = [k \in 1 .. Dist(tail, head) |-> slot[At(k - 1)]]
    /\ Queue' = [k \in 1 .. Dist(tail, head) |-> slot[At(k - 1)]]'
    BY DEF Queue, Content, At, Nth, Dist

\* A step that leaves both indices and every published slot alone leaves the
\* queue alone.
LEMMA QueueSame ==
    ASSUME IInv, UNCHANGED <<head, tail>>,
           \A i \in Index : Dist(tail, i) < Dist(tail, head) => slot'[i] = slot[i]
    PROVE  Queue' = Queue
<1>1. Content(slot', tail, head) = Content(slot, tail, head)
    BY ContentKept DEF IInv, TypeOK
<1>2. QED
    BY <1>1 DEF Queue, Content, Dist, Nth

LEMMA CommitPuts ==
    ASSUME IInv, Commit
    PROVE  \E m \in Msg : Fifo!Put(m)
<1>1. slot[head] \in Msg /\ Succ(head) # tail
    BY DEF IInv, Commit, Reserved, Written
<1>2. tail \in Index /\ head \in Index /\ Filled(Msg, slot, tail, head)
    BY DEF IInv, TypeOK, Published
<1>3. /\ Content(slot, tail, Succ(head)) = Append(Queue, slot[head])
      /\ Len(Queue) < N - 1
    BY <1>1, <1>2, ContentGrows DEF Queue
<1>4. Queue' = Append(Queue, slot[head])
    BY <1>3 DEF Queue, Commit, Content, Dist, Nth
<1>5. Mark' = Mark /\ cgot' = cgot
    BY DEF Commit, Mark, Dist
<1>6. QED
    BY <1>1, <1>3, <1>4, <1>5, QueueMapped DEF Fifo!Put, Mark

LEMMA PopDrops ==
    ASSUME IInv, Pop
    PROVE  Fifo!Drop
<1>1. tail # head /\ cgot # {} /\ cpc = "holding"
    BY DEF IInv, Held, Pop
<1>2. Queue # <<>> /\ Content(slot, Succ(tail), head) = Tail(Queue)
    BY <1>1, ContentFirst, ContentDrops DEF IInv, TypeOK, Published, Queue
<1>3. Queue' = Tail(Queue)
    BY <1>2 DEF Queue, Pop, Content, Dist, Nth
<1>4. Mark' = Mark /\ cgot' = {}
    BY <1>1 DEF Pop, Mark
<1>5. QED
    BY <1>1, <1>2, <1>3, <1>4, QueueMapped DEF Fifo!Drop, Mark

LEMMA FlushDropsMarked ==
    ASSUME IInv, FlushStore
    PROVE  Fifo!FlushDrop
<1>1. Mark = Dist(tail, chead) /\ Dist(tail, chead) <= Dist(tail, head)
    BY DEF IInv, FlushStore, Marked, Mark
<1>2. tail \in Index /\ head \in Index /\ chead \in Index /\ Filled(Msg, slot, tail, head)
    BY DEF IInv, TypeOK, Published
<1>3. Content(slot, chead, head) = SubSeq(Queue, Mark + 1, Len(Queue))
  <2>1. \A m \in Index : Dist(tail, m) <= Dist(tail, head) =>
            Content(slot, m, head) = SubSeq(Queue, Dist(tail, m) + 1, Len(Queue))
      BY <1>2, ContentCut DEF Queue
  <2>2. QED
      BY <1>1, <1>2, <2>1, Zenon
<1>4. Queue' = SubSeq(Queue, Mark + 1, Len(Queue))
    BY <1>3 DEF Queue, FlushStore, Content, Dist, Nth
<1>5. Mark' = 0 /\ cgot' = cgot
    BY DEF FlushStore, Mark
<1>6. QED
    BY <1>4, <1>5, QueueMapped DEF Fifo!FlushDrop, Mark

\* The ring refines Fifo: it starts as an empty queue, and every step of
\* either core puts, shows, takes or flushes exactly what the queue would.
THEOREM ImplementsFifo == Spec => RefinesFifo
<1>1. Init => Fifo!FifoInit
  <2> SUFFICES ASSUME Init PROVE Fifo!FifoInit
    OBVIOUS
  <2>1. Dist(tail, head) = 0
    BY DEF Init, Dist
  <2>2. Queue = <<>>
    BY <2>1 DEF Queue, Content
  <2>3. QED
    BY <2>2, QueueMapped DEF Init, Fifo!FifoInit
<1>2. IInv /\ [Next]_vars => [Fifo!FifoNext]_Fifo!fifoVars
  <2> SUFFICES ASSUME IInv, [Next]_vars
               PROVE  [Fifo!FifoNext]_Fifo!fifoVars
    OBVIOUS
  <2> DEFINE Same == Queue' = Queue /\ Mark' = Mark /\ cgot' = cgot
  <2>0. Same => UNCHANGED Fifo!fifoVars
    BY QueueMapped DEF Fifo!fifoVars, Mark
  <2>1. ASSUME NEW m \in Msg, Reserve(m) PROVE Same
    BY <2>1, QueueSame DEF Reserve, Mark, Dist
  <2>2. CASE BeginWrite
    <3>1. \A i \in Index : Dist(tail, i) < Dist(tail, head) => slot'[i] = slot[i]
      BY <2>2, WriteOutside DEF BeginWrite
    <3>2. Same
      BY <2>2, <3>1, QueueSame DEF BeginWrite, Mark, Dist
    <3>3. QED
      BY <3>2, <2>0
  <2>3. CASE EndWrite
    <3>1. \A i \in Index : Dist(tail, i) < Dist(tail, head) => slot'[i] = slot[i]
      <4>1. PICK m \in Msg : slot' = [slot EXCEPT ![head] = m]
        BY <2>3 DEF EndWrite, IInv, TypeOK
      <4>2. QED
        BY <2>3, <4>1, WriteOutside DEF EndWrite
    <3>2. Same
      BY <2>3, <3>1, QueueSame DEF EndWrite, Mark, Dist
    <3>3. QED
      BY <3>2, <2>0
  <2>4. CASE Commit
    BY <2>4, CommitPuts DEF Fifo!FifoNext
  <2>5. CASE Peek
    BY <2>5, <2>0, QueueSame DEF Peek, Mark, Dist
  <2>6. CASE ReadSlot
    <3>1. Queue' = Queue /\ Mark' = Mark
      BY <2>6, QueueSame DEF ReadSlot, Mark, Dist
    <3>2. Queue # <<>> /\ Head(Queue) = slot[tail]
      BY <2>6, ContentFirst DEF ReadSlot, IInv, TypeOK, Held, Published, Queue
    <3>3. cgot' = {Head(Queue)}
      BY <2>6, <3>2 DEF ReadSlot
    <3>4. Fifo!See
      BY <3>1, <3>2, <3>3, QueueMapped DEF Fifo!See, Mark
    <3>5. QED
      BY <3>4 DEF Fifo!FifoNext
  <2>7. CASE Pop
    BY <2>7, PopDrops DEF Fifo!FifoNext
  <2>8. CASE Retry
    <3>1. Queue' = Queue /\ Mark' = Mark /\ cgot' = {}
      BY <2>8, QueueSame DEF Retry, Mark, Dist
    <3>2. Fifo!Leave
      BY <3>1, QueueMapped DEF Fifo!Leave, Mark
    <3>3. QED
      BY <3>2 DEF Fifo!FifoNext
  <2>9. CASE FlushRead
    <3>1. Queue' = Queue /\ cgot' = cgot
      BY <2>9, QueueSame DEF FlushRead
    <3>2. Len(Queue) = Dist(tail, head)
      BY ContentIsSeq DEF IInv, TypeOK, Published, Queue
    <3>3. Mark' = Len(Queue)
      BY <2>9, <3>2 DEF FlushRead, Mark, Dist
    <3>4. Fifo!FlushMark
      BY <3>1, <3>3, QueueMapped DEF Fifo!FlushMark, Mark
    <3>5. QED
      BY <3>4 DEF Fifo!FifoNext
  <2>10. CASE FlushStore
    BY <2>10, FlushDropsMarked DEF Fifo!FifoNext
  <2>11. CASE UNCHANGED vars
    BY <2>11, <2>0, QueueSame DEF vars, Mark, Dist
  <2>12. QED
    BY <2>0, <2>1, <2>2, <2>3, <2>4, <2>5, <2>6, <2>7, <2>8, <2>9, <2>10, <2>11
       DEF Next, Producer, Consumer
<1>3. QED
    BY <1>1, <1>2, AlwaysIInv, PTL DEF Spec, RefinesFifo, Fifo!FifoSpec

---------------------------------------------------------------------------
(* LogRing, written to by one at a time, implements the same queue *)

CONSTANTS
    Char,       \* the characters
    Blank,      \* what a cell of the log holds before its first use
    Writer,     \* who writes to the log
    Budget      \* bound: how many characters are written

VARIABLES
    buf, logHead, logTail,      \* the log's ring
    dropped,                    \* whether a character found no room
    wpc, char, next, put,       \* write()
    rpc, read, taken            \* read()

Log == INSTANCE LogRing WITH
    head <- logHead, tail <- logTail,
    Producer <- Writer, ppc <- wpc, cpc <- rpc, got <- read

\* At most one write is past its test for room.  Nothing in the code sees to
\* that, and NothingVanishes fails without it.
Alone == \A v, w \in Writer : wpc[v] # "idle" /\ wpc[w] # "idle" => v = w

\* Any number of writers, on either core or in the interrupt, that never
\* overlap; the reader may be anywhere.
TurnsSpec == Log!Init /\ [][Log!Next /\ Alone']_Log!vars

LogTypes ==
    /\ logHead \in Index /\ logTail \in Index
    /\ buf \in [Index -> Char \cup {Blank}]
    /\ wpc \in [Writer -> {"idle", "room", "stored"}]
    /\ next \in [Writer -> Index] /\ char \in [Writer -> SUBSET Char]
    /\ rpc \in {"idle", "got"}

\* A writer past its test for room still has it, because a reader only makes
\* more; it holds one character, and knows where head_ goes next.
RoomStays ==
    \A w \in Writer : wpc[w] # "idle" =>
        /\ Succ(logHead) # logTail /\ next[w] = Succ(logHead)
        /\ \E c \in Char : char[w] = {c}
        /\ wpc[w] = "stored" => char[w] = {buf[logHead]}

\* Every cell from tail_ up to head_ holds a character that was written.
AllWritten == Filled(Char, buf, logTail, logHead)

\* A reader past its test for an empty ring holds the oldest character.
ReadOldest ==
    /\ rpc = "got" => logTail # logHead
    /\ read = IF rpc = "got" THEN {buf[logTail]} ELSE {}

\* What was written is in the ring or has been read.
Counted ==
    /\ put \in Nat /\ taken \in Nat
    /\ put = taken + Dist(logTail, logHead)

LogInv == LogTypes /\ Alone /\ RoomStays /\ AllWritten /\ ReadOldest /\ Counted

LogQueue == Content(buf, logTail, logHead)

\* Both rings count alike.
LEMMA LogArithmetic ==
    /\ \A i : Log!Succ(i) = Succ(i)
    /\ Log!Index = Index
    /\ LogQueue = [k \in 1 .. Log!Dist(logTail, logHead) |-> buf[Log!At(k - 1)]]
    /\ LogQueue' = [k \in 1 .. Log!Dist(logTail, logHead) |-> buf[Log!At(k - 1)]]'
    BY DEF Log!Succ, Succ, Log!Index, Index, LogQueue, Content, Nth, Dist, Log!Dist, Log!At

\* What a step makes of the queue, and that the invariant survives it.
LEMMA LogStep ==
    ASSUME LogInv, [Log!Next /\ Alone']_Log!vars
    PROVE  LogInv' /\ [Log!Fifo!FifoNext]_Log!Fifo!fifoVars
<1> USE DEF LogInv, LogTypes
<1> DEFINE Same == LogQueue' = LogQueue /\ read' = read
<1>0. Same => UNCHANGED Log!Fifo!fifoVars
    BY LogArithmetic DEF Log!Fifo!fifoVars
<1>1. ASSUME NEW w \in Writer, wpc[w] # "idle", NEW v \in Writer, v # w
      PROVE  wpc[v] = "idle"
    BY <1>1 DEF Alone
<1>2. ASSUME Alone', NEW w \in Writer, NEW c \in Char, Log!Room(w, c)
      PROVE  LogInv' /\ Same
  <2>1. /\ Succ(logHead) # logTail /\ Succ(logHead) \in Index
        /\ wpc' = [wpc EXCEPT ![w] = "room"] /\ char' = [char EXCEPT ![w] = {c}]
        /\ next' = [next EXCEPT ![w] = Succ(logHead)]
        /\ UNCHANGED <<buf, logHead, logTail, rpc, read, put, taken>>
      BY <1>2, LogArithmetic, SuccWraps DEF Log!Room, Log!consVars
  <2>2. LogTypes'
      BY <2>1
  <2>3. \A v \in Writer \ {w} : wpc'[v] = "idle"
    <3>1. wpc'[w] # "idle"
      BY <2>1
    <3>2. QED
      BY <1>2, <3>1 DEF Alone
  <2>4. RoomStays'
      BY <2>1, <2>3 DEF RoomStays, Succ
  <2>5. AllWritten' /\ ReadOldest' /\ Same /\ Counted'
      BY <2>1 DEF AllWritten, Filled, Dist, ReadOldest, LogQueue, Content, Nth, Counted
  <2>6. QED
      BY <1>2, <2>2, <2>4, <2>5
<1>3. ASSUME Alone', NEW w \in Writer, Log!Full(w)
      PROVE  LogInv' /\ Same
  <2>1. UNCHANGED <<buf, logHead, logTail, wpc, char, next, rpc, read, put, taken>>
      BY <1>3 DEF Log!Full, Log!prodVars, Log!consVars
  <2>2. QED
      BY <1>3, <2>1 DEF RoomStays, Succ, AllWritten, Filled, Dist, ReadOldest, LogQueue,
         Content, Nth, Counted
<1>4. ASSUME Alone', NEW w \in Writer, Log!Store(w)
      PROVE  LogInv' /\ Same
  <2>1. PICK c \in Char : char[w] = {c}
      BY <1>4 DEF Log!Store, RoomStays
  <2>2. /\ wpc[w] = "room" /\ wpc' = [wpc EXCEPT ![w] = "stored"]
        /\ buf' = [buf EXCEPT ![logHead] = c]
        /\ UNCHANGED <<logHead, logTail, char, next, rpc, read, put, taken>>
      BY <1>4, <2>1 DEF Log!Store, Log!consVars
  <2>3. ASSUME NEW i \in Index, Dist(logTail, i) < Dist(logTail, logHead)
        PROVE  i # logHead /\ buf'[i] = buf[i]
      BY <2>2, <2>3, NAssumption DEF Dist, Index
  <2>4. LogTypes'
      BY <2>1, <2>2
  <2>5. \A v \in Writer \ {w} : wpc[v] = "idle"
      BY <1>1, <2>2
  <2>6. RoomStays'
      BY <2>1, <2>2, <2>5 DEF RoomStays, Succ
  <2>7. AllWritten'
      BY <2>2, <2>3 DEF AllWritten, Filled, Dist
  <2>8. ReadOldest' /\ Counted'
      BY <2>2 DEF ReadOldest, Counted, Dist
  <2>9. Content(buf', logTail, logHead) = LogQueue
      BY <2>3, ContentKept DEF LogQueue
  <2>10. Same
      BY <2>2, <2>9 DEF LogQueue, Content, Dist, Nth
  <2>11. QED
      BY <1>4, <2>4, <2>6, <2>7, <2>8, <2>10
<1>5. ASSUME Alone', NEW w \in Writer, Log!Advance(w)
      PROVE  LogInv' /\ Log!Fifo!FifoNext
  <2>1. /\ Succ(logHead) # logTail /\ Succ(logHead) \in Index /\ wpc[w] # "idle"
        /\ buf[logHead] \in Char /\ char[w] = {buf[logHead]}
        /\ logHead' = Succ(logHead)
        /\ wpc' = [wpc EXCEPT ![w] = "idle"] /\ char' = [char EXCEPT ![w] = {}]
        /\ put' = put + 1
        /\ UNCHANGED <<buf, logTail, next, rpc, read, taken>>
      BY <1>5, SuccWraps DEF Log!Advance, Log!consVars, RoomStays
  <2>2. Filled(Char, buf, logTail, logHead)
      BY DEF AllWritten
  <2>3. /\ Content(buf, logTail, Succ(logHead)) = Append(LogQueue, buf[logHead])
        /\ Filled(Char, buf, logTail, Succ(logHead))
        /\ Len(LogQueue) < N - 1
      BY <2>1, <2>2, ContentGrows DEF LogQueue
  <2>4. \A v \in Writer : wpc'[v] = "idle"
      BY <1>1, <2>1
  <2>5. LogTypes' /\ RoomStays'
      BY <2>1, <2>4 DEF RoomStays
  <2>6. AllWritten'
      BY <2>1, <2>3 DEF AllWritten, Filled, Dist
  <2>7. ReadOldest'
      BY <2>1 DEF ReadOldest
  <2>8. Counted'
    <3>1. Dist(logTail, Succ(logHead)) = Dist(logTail, logHead) + 1
          /\ Dist(logTail, logHead) \in Nat
      BY <2>1, DistGrow, DistBound, NAssumption
    <3>2. Dist(logTail, logHead)' = Dist(logTail, Succ(logHead))
      BY <2>1 DEF Dist
    <3>3. QED
      BY <2>1, <3>1, <3>2 DEF Counted
  <2>9. LogQueue' = Append(LogQueue, buf[logHead])
      BY <2>1, <2>3 DEF LogQueue, Content, Dist, Nth
  <2>10. Log!Fifo!Put(buf[logHead])
      BY <2>1, <2>3, <2>9, LogArithmetic DEF Log!Fifo!Put
  <2>11. QED
      BY <1>5, <2>1, <2>5, <2>6, <2>7, <2>8, <2>10 DEF Log!Fifo!FifoNext
<1>6. ASSUME Alone', Log!ReadChar
      PROVE  LogInv' /\ Log!Fifo!FifoNext
  <2>1. /\ logTail # logHead /\ rpc' = "got" /\ read' = {buf[logTail]}
        /\ UNCHANGED <<buf, logHead, logTail, wpc, char, next, put, taken>>
      BY <1>6 DEF Log!ReadChar, Log!prodVars
  <2>2. LogInv' /\ LogQueue' = LogQueue
      BY <1>6, <2>1 DEF RoomStays, Succ, AllWritten, Filled, Dist, ReadOldest, LogQueue,
         Content, Nth, Counted
  <2>3. LogQueue # <<>> /\ Head(LogQueue) = buf[logTail]
      BY <2>1, ContentFirst DEF AllWritten, LogQueue
  <2>4. Log!Fifo!See
      BY <2>1, <2>2, <2>3, LogArithmetic DEF Log!Fifo!See
  <2>5. QED
      BY <2>2, <2>4 DEF Log!Fifo!FifoNext
<1>7. ASSUME Alone', Log!Consume
      PROVE  LogInv' /\ Log!Fifo!FifoNext
  <2>1. /\ rpc = "got" /\ logTail # logHead /\ read # {}
        /\ rpc' = "idle" /\ read' = {} /\ logTail' = Succ(logTail) /\ Succ(logTail) \in Index
        /\ taken' = taken + 1
        /\ UNCHANGED <<buf, logHead, wpc, char, next, put>>
      BY <1>7, LogArithmetic, SuccWraps DEF Log!Consume, Log!prodVars, ReadOldest
  <2>2. /\ LogQueue # <<>> /\ Content(buf, Succ(logTail), logHead) = Tail(LogQueue)
        /\ Filled(Char, buf, Succ(logTail), logHead)
      BY <2>1, ContentFirst, ContentDrops DEF AllWritten, LogQueue
  <2>3. LogTypes'
      BY <2>1
  <2>4. RoomStays'
      BY <2>1, SuccWraps, NAssumption DEF RoomStays, Index
  <2>5. AllWritten'
      BY <2>1, <2>2 DEF AllWritten, Filled, Dist
  <2>6. ReadOldest'
      BY <2>1 DEF ReadOldest
  <2>7. Counted'
    <3>1. Dist(Succ(logTail), logHead) = Dist(logTail, logHead) - 1
          /\ Dist(logTail, logHead) \in Nat
      BY <2>1, DistDrop
    <3>2. Dist(logTail, logHead)' = Dist(Succ(logTail), logHead)
      BY <2>1 DEF Dist
    <3>3. QED
      BY <2>1, <3>1, <3>2 DEF Counted
  <2>8. LogQueue' = Tail(LogQueue)
      BY <2>1, <2>2 DEF LogQueue, Content, Dist, Nth
  <2>9. Log!Fifo!Drop
      BY <2>1, <2>2, <2>8, LogArithmetic DEF Log!Fifo!Drop
  <2>10. QED
      BY <1>7, <2>3, <2>4, <2>5, <2>6, <2>7, <2>9 DEF Log!Fifo!FifoNext
<1>8. CASE UNCHANGED Log!vars
  <2>1. UNCHANGED <<buf, logHead, logTail, wpc, char, next, rpc, read, put, taken>>
      BY <1>8 DEF Log!vars, Log!prodVars, Log!consVars
  <2>2. LogInv' /\ Same
      BY <2>1 DEF Alone, RoomStays, Succ, AllWritten, Filled, Dist, ReadOldest, LogQueue,
         Content, Nth, Counted
  <2>3. QED
      BY <2>2, <1>0
<1>9. QED
    BY <1>0, <1>2, <1>3, <1>4, <1>5, <1>6, <1>7, <1>8 DEF Log!Next

\* As long as no two writes overlap, and whatever the reader is at, the log comes
\* out as it went in: what write() accepted is read once, whole and in order,
\* and none of it vanishes.
THEOREM LogImplementsFifo == TurnsSpec => Log!RefinesFifo /\ []Log!NothingVanishes
<1>1. Log!Init => LogInv /\ Log!Fifo!FifoInit
  <2> SUFFICES ASSUME Log!Init PROVE LogInv /\ Log!Fifo!FifoInit
      OBVIOUS
  <2>1. logHead = 0 /\ logTail = 0 /\ 0 \in Index /\ rpc = "idle" /\ read = {}
      BY NAssumption DEF Log!Init, Index
  <2>2. LogTypes
      BY <2>1, LogArithmetic DEF Log!Init, LogTypes
  <2>3. Alone /\ RoomStays /\ ReadOldest
      BY <2>1 DEF Log!Init, Alone, RoomStays, ReadOldest
  <2>4. Dist(logTail, logHead) = 0
      BY <2>1 DEF Dist
  <2>5. AllWritten
      BY <2>1, <2>4, DistBound DEF AllWritten, Filled
  <2>6. LogQueue = <<>> /\ Counted
      BY <2>4 DEF LogQueue, Content, Counted, Log!Init
  <2>7. QED
      BY <2>1, <2>2, <2>3, <2>5, <2>6, LogArithmetic DEF LogInv, Log!Fifo!FifoInit
<1>2. LogInv /\ [Log!Next /\ Alone']_Log!vars
        => LogInv' /\ [Log!Fifo!FifoNext]_Log!Fifo!fifoVars
    BY LogStep
<1>3. LogInv => Log!NothingVanishes
    BY DEF LogInv, Counted, Log!NothingVanishes, Log!Dist, Dist
<1>4. QED
    BY <1>1, <1>2, <1>3, PTL DEF TurnsSpec, Log!RefinesFifo, Log!Fifo!FifoSpec
===========================================================================
