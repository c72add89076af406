-------------------------- MODULE HostStackProofs --------------------------
(***************************************************************************)
(* Proofs about the USB host of core 1, for a key with any number of       *)
(* interfaces and for any number of addresses, retries, unplugs, bounces,  *)
(* power cuts and failed transfers: no interface and no control transfer   *)
(* is ever left waiting, nothing of a key outlives it, and src/main.cpp    *)
(* gets what HostApi promises.                                             *)
(***************************************************************************)
EXTENDS HostStack, TLAPS, FiniteSetTheorems, WellFoundedInduction

---------------------------------------------------------------------------
(* The event queue *)

\* Endpoints with the end of a transfer in the queue.
Ending == {p \in Ends : \E k \in 1 .. Len(q) : q[k].kind = "done" /\ q[k].end = p}

\* News of the port is in the queue; an arrival is.
News == \E k \in 1 .. Len(q) : q[k].kind # "done"
Arrival == \E k \in 1 .. Len(q) : q[k].kind = "attach"

\* An endpoint ends one transfer at a time; what is queued of transfers is
\* older than what is queued of the port; an arrival is the last there is.
InQueue ==
    /\ q \in Seq(Events)
    /\ \A j, k \in 1 .. Len(q) :
          q[j].kind = "done" /\ q[k].kind = "done" /\ q[j].end = q[k].end => j = k
    /\ \A j, k \in 1 .. Len(q) : j < k /\ q[k].kind = "done" => q[j].kind = "done"
    /\ \A k \in 1 .. Len(q) : q[k].kind = "attach" => k = Len(q)

LEMMA OneMore ==
    ASSUME NEW S, NEW s \in Seq(S), NEW e \in S
    PROVE  s \o <<e>> = Append(s, e)
OBVIOUS

LEMMA Appended ==
    ASSUME NEW S, NEW s \in Seq(S), NEW e \in S, NEW t, t = Append(s, e)
    PROVE  /\ Len(s) \in Nat /\ t \in Seq(S) /\ Len(t) = Len(s) + 1
           /\ t[Len(s) + 1] = e
           /\ \A k \in 1 .. Len(t) : k = Len(s) + 1 \/ (k \in 1 .. Len(s) /\ t[k] = s[k])
           /\ \A k \in 1 .. Len(s) : k \in 1 .. Len(t) /\ t[k] = s[k]
OBVIOUS

LEMMA PopAny ==
    ASSUME InQueue, q # <<>>, q' = Tail(q)
    PROVE  /\ Len(q) \in Nat \ {0} /\ Len(q') = Len(q) - 1
           /\ \A k \in 1 .. Len(q') : k + 1 \in 1 .. Len(q) /\ q'[k] = q[k + 1]
           /\ Head(q) = q[1] /\ q[1] \in Events
           /\ InQueue'
<1>1. /\ q' \in Seq(Events) /\ Len(q') \in Nat
      /\ Len(q) \in Nat \ {0} /\ Len(q') = Len(q) - 1
      /\ \A k \in 1 .. Len(q') : k + 1 \in 1 .. Len(q) /\ q'[k] = q[k + 1]
      /\ Head(q) = q[1] /\ q[1] \in Events
    BY DEF InQueue
<1>2. ASSUME NEW k \in 1 .. Len(q'), q'[k].kind = "attach" PROVE k = Len(q')
  <2>1. k + 1 \in 1 .. Len(q) /\ q[k + 1].kind = "attach"
      BY <1>1, <1>2
  <2>2. k + 1 = Len(q)
      BY <2>1 DEF InQueue
  <2>3. PICK m \in Nat : m = Len(q')
      BY <1>1
  <2>4. m = Len(q) - 1 /\ k \in Nat /\ Len(q) \in Nat
      BY <1>1, <2>3
  <2>5. k = m
      BY <2>2, <2>3, <2>4
  <2>6. QED
      BY <2>3, <2>5
<1>3. ASSUME NEW j \in 1 .. Len(q'), NEW k \in 1 .. Len(q'),
             q'[j].kind = "done", q'[k].kind = "done", q'[j].end = q'[k].end
      PROVE  j = k
  <2>1. /\ j + 1 \in 1 .. Len(q) /\ k + 1 \in 1 .. Len(q)
        /\ q[j + 1].kind = "done" /\ q[k + 1].kind = "done" /\ q[j + 1].end = q[k + 1].end
      BY <1>1, <1>3
  <2>2. j + 1 = k + 1
      BY <2>1 DEF InQueue
  <2>3. QED
      BY <1>1, <2>2
<1>4. ASSUME NEW j \in 1 .. Len(q'), NEW k \in 1 .. Len(q'), j < k, q'[k].kind = "done"
      PROVE  q'[j].kind = "done"
  <2>1. /\ j + 1 \in 1 .. Len(q) /\ k + 1 \in 1 .. Len(q) /\ j + 1 < k + 1
        /\ q[k + 1].kind = "done"
      BY <1>1, <1>4
  <2>2. q[j + 1].kind = "done"
      BY <2>1 DEF InQueue
  <2>3. QED
      BY <1>1, <2>2
<1>5. Events' = Events
    BY DEF Events, Ends, Results
<1>6. InQueue'
    BY <1>1, <1>2, <1>3, <1>4, <1>5 DEF InQueue
<1>7. QED
    BY <1>1, <1>6

\* The end of a transfer is taken from the queue.
LEMMA PopDone ==
    ASSUME InQueue, q # <<>>, q' = Tail(q), Head(q).kind = "done"
    PROVE  /\ InQueue'
           /\ Head(q).end \in Ending /\ Ending' = Ending \ {Head(q).end}
           /\ News' => News
           /\ Arrival' => Arrival
<1>1. /\ Len(q) \in Nat \ {0} /\ Len(q') = Len(q) - 1
      /\ \A k \in 1 .. Len(q') : k + 1 \in 1 .. Len(q) /\ q'[k] = q[k + 1]
      /\ Head(q) = q[1] /\ q[1] \in Events
      /\ InQueue'
    BY PopAny
<1>2. Head(q).end \in Ending
    BY <1>1 DEF Ending, Events
<1>3. (News' => News) /\ (Arrival' => Arrival)
    BY <1>1 DEF News, Arrival
<1>4. ASSUME NEW p \in Ending' PROVE p \in Ending \ {Head(q).end}
  <2>1. PICK k \in 1 .. Len(q') : q'[k].kind = "done" /\ q'[k].end = p
      BY <1>4 DEF Ending
  <2>2. k + 1 \in 1 .. Len(q) /\ q[k + 1].kind = "done" /\ q[k + 1].end = p
      BY <1>1, <2>1
  <2>3. p # Head(q).end
    <3>1. 1 \in 1 .. Len(q) /\ k + 1 # 1
        BY <1>1, <2>1
    <3>2. QED
        BY <1>1, <2>2, <3>1 DEF InQueue
  <2>4. p \in Ends
      BY <1>4 DEF Ending, Ends
  <2>5. QED
      BY <2>2, <2>3, <2>4 DEF Ending
<1>5. ASSUME NEW p \in Ending, p # Head(q).end PROVE p \in Ending'
  <2>1. PICK k \in 1 .. Len(q) : q[k].kind = "done" /\ q[k].end = p
      BY DEF Ending
  <2>2. k # 1 /\ k - 1 \in 1 .. Len(q')
      BY <1>1, <1>5, <2>1
  <2>3. q'[k - 1] = q[k]
      BY <1>1, <2>1, <2>2
  <2>4. p \in Ends'
      BY DEF Ending, Ends
  <2>5. QED
      BY <2>1, <2>2, <2>3, <2>4 DEF Ending
<1>6. QED
    BY <1>1, <1>2, <1>3, <1>4, <1>5

\* News of the port is taken from the queue: no end of a transfer is left.
LEMMA PopNews ==
    ASSUME InQueue, q # <<>>, q' = Tail(q), Head(q).kind # "done"
    PROVE  /\ InQueue'
           /\ News /\ Ending = {} /\ Ending' = {}
           /\ Arrival' => Arrival
           /\ Head(q).kind = "attach" => Arrival /\ ~News'
<1>1. /\ Len(q) \in Nat \ {0} /\ Len(q') = Len(q) - 1
      /\ \A k \in 1 .. Len(q') : k + 1 \in 1 .. Len(q) /\ q'[k] = q[k + 1]
      /\ Head(q) = q[1] /\ q[1] \in Events
      /\ InQueue'
    BY PopAny
<1>2. ASSUME NEW k \in 1 .. Len(q), q[k].kind = "done" PROVE FALSE
  <2>1. 1 \in 1 .. Len(q) /\ q[1].kind # "done" /\ 1 < k
      BY <1>1, <1>2
  <2>2. QED
      BY <1>2, <2>1 DEF InQueue
<1>3. News /\ Ending = {}
    BY <1>1, <1>2 DEF News, Ending
<1>4. Ending' = {} /\ (Arrival' => Arrival)
    BY <1>1, <1>2 DEF Arrival, Ending
<1>5. Head(q).kind = "attach" => Len(q) = 1
  <2>1. 1 \in 1 .. Len(q)
      BY <1>1
  <2>2. QED
      BY <1>1, <2>1 DEF InQueue
<1>6. Head(q).kind = "attach" => Arrival /\ ~News'
    BY <1>1, <1>5 DEF Arrival, News
<1>7. QED
    BY <1>1, <1>3, <1>4, <1>6

\* A transfer of p ends.
LEMMA PushDone ==
    ASSUME InQueue, ~News, NEW p \in Ends \ Ending, NEW r \in Results, q' = Append(q, Done(p, r))
    PROVE  InQueue' /\ ~News' /\ ~Arrival' /\ Ending' = Ending \cup {p}
<1> DEFINE e == Done(p, r)
<1>1. e \in Events /\ e.kind = "done" /\ e.end = p
    BY DEF Done, Events
<1> HIDE DEF e
<1>2. q \in Seq(Events) /\ q' = Append(q, e)
    BY DEF InQueue, e
<1>3. /\ Len(q) \in Nat /\ q' \in Seq(Events) /\ Len(q') = Len(q) + 1
      /\ q'[Len(q) + 1] = e
      /\ \A k \in 1 .. Len(q') : k = Len(q) + 1 \/ (k \in 1 .. Len(q) /\ q'[k] = q[k])
      /\ \A k \in 1 .. Len(q) : k \in 1 .. Len(q') /\ q'[k] = q[k]
    BY <1>1, <1>2, Appended
<1>4. \A k \in 1 .. Len(q) : q[k].kind = "done" /\ q[k].end # p
    BY <1>3 DEF News, Ending
<1>5. \A k \in 1 .. Len(q') : q'[k].kind = "done"
    BY <1>1, <1>3, <1>4
<1>6. ~News' /\ ~Arrival'
    BY <1>5 DEF News, Arrival
<1>7. Ending' = Ending \cup {p}
  <2>1. Ends' = Ends
      BY DEF Ends
  <2>2. QED
      BY <1>1, <1>3, <1>4, <1>5, <2>1 DEF Ending
<1>8. ASSUME NEW j \in 1 .. Len(q'), NEW k \in 1 .. Len(q'), q'[j].end = q'[k].end
      PROVE  j = k
  <2>1. CASE j \in 1 .. Len(q) /\ k \in 1 .. Len(q)
      BY <1>3, <1>4, <1>8, <2>1 DEF InQueue
  <2>2. CASE j = Len(q) + 1 \/ k = Len(q) + 1
      BY <1>1, <1>3, <1>4, <1>8, <2>2
  <2>3. QED
      BY <1>3, <2>1, <2>2
<1>9. InQueue'
  <2>1. Events' = Events
      BY DEF Events, Ends, Results
  <2>2. QED
      BY <1>3, <1>5, <1>8, <2>1 DEF InQueue
<1>10. QED
    BY <1>6, <1>7, <1>9

\* The line is found low: every transfer there is fails, and then comes the
\* news, which says that the key is back or that it has gone.
LEMMA PushLost ==
    ASSUME InQueue, ~News, ~debouncing, armed \subseteq Ends, armed \cap Ending = {},
           NEW back \in BOOLEAN, NEW pool \in InPool, q' = q \o Interrupt(pool, back)
    PROVE  InQueue' /\ (Arrival' => back) /\ Ending' = Ending \cup armed
<1> DEFINE n == Len(pool)
           x == IF back THEN PortEvent("attach") ELSE PortEvent("remove")
<1>1. n \in Nat /\ pool \in [1 .. n -> armed]
  <2>1. IsFiniteSet(0 .. Addrs) /\ IsFiniteSet(0 .. Itfs)
      BY FS_Interval, SizesAssumption
  <2>2. IsFiniteSet(Ends)
      BY <2>1, FS_Product DEF Ends
  <2>3. Cardinality(armed) \in Nat
      BY <2>2, FS_Subset, FS_CardinalityType
  <2>4. pool \in [1 .. Cardinality(armed) -> armed]
      BY DEF InPool
  <2>5. pool \in Seq(armed) /\ n = Cardinality(armed)
      BY <2>3, <2>4
  <2>6. QED
      BY <2>3, <2>4, <2>5
<1>2. /\ \A p \in armed : \E k \in 1 .. n : pool[k] = p
      /\ \A j, k \in 1 .. n : pool[j] = pool[k] => j = k
  <2>1. DOMAIN pool = 1 .. n
      BY <1>1
  <2>2. \A p \in armed : p \in {pool[k] : k \in DOMAIN pool}
      BY DEF InPool
  <2>3. \A j, k \in 1 .. n : j < k => pool[j] # pool[k]
      BY <2>1 DEF InPool
  <2>4. ASSUME NEW j \in 1 .. n, NEW k \in 1 .. n, pool[j] = pool[k] PROVE j = k
    <3>1. j < k \/ k < j \/ j = k
        BY <1>1
    <3>2. QED
        BY <2>3, <2>4, <3>1
  <2>5. QED
      BY <2>1, <2>2, <2>4
<1>3. x \in Events /\ x.kind # "done" /\ (x.kind = "attach" <=> back)
  <2>1. <<0, 0>> \in Ends
      BY SizesAssumption DEF Ends
  <2>2. QED
      BY <2>1 DEF PortEvent, Events
<1>4. ASSUME NEW k \in 1 .. n
      PROVE  /\ AllFailed(pool)[k] \in Events
             /\ AllFailed(pool)[k].kind = "done" /\ AllFailed(pool)[k].end = pool[k]
  <2>1. pool[k] \in Ends
      BY <1>1
  <2>2. AllFailed(pool)[k] = Done(pool[k], "failed")
      BY DEF AllFailed
  <2>3. QED
      BY <2>1, <2>2 DEF Done, Events, Results
<1>5. AllFailed(pool) \in Seq(Events) /\ Len(AllFailed(pool)) = n
    BY <1>1, <1>4 DEF AllFailed
<1>6. Interrupt(pool, back) = AllFailed(pool) \o <<x>>
    BY DEF Interrupt, Post
<1> DEFINE f == AllFailed(pool)
<1> HIDE DEF n, x, f
<1>7. q \in Seq(Events) /\ f \in Seq(Events) /\ Len(f) = n /\ q' = q \o (f \o <<x>>)
    BY <1>5, <1>6 DEF InQueue, f
<1> DEFINE m == Len(q)
<1>8. /\ m \in Nat /\ q' \in Seq(Events) /\ Len(q') = m + n + 1
      /\ \A k \in 1 .. m : q'[k] = q[k]
      /\ \A k \in 1 .. n : q'[m + k] = f[k]
      /\ q'[m + n + 1] = x
    BY <1>1, <1>3, <1>7
<1>9. \A k \in 1 .. m : q[k].kind = "done" /\ q[k].end \notin armed
  <2>1. ASSUME NEW k \in 1 .. m PROVE q[k].kind = "done" /\ q[k].end \notin armed
    <3>1. q[k].kind = "done" /\ q[k] \in Events
        BY <1>7 DEF News
    <3>2. q[k].end \in Ending
        BY <3>1 DEF Ending, Events
    <3>3. QED
        BY <3>1, <3>2
  <2>2. QED
      BY <2>1
<1>10. \A k \in 1 .. n : f[k].kind = "done" /\ f[k].end = pool[k]
    BY <1>4 DEF f
<1> HIDE DEF m
<1>11. ASSUME NEW k \in 1 .. Len(q')
       PROVE  \/ k \in 1 .. m /\ q'[k] = q[k]
              \/ k - m \in 1 .. n /\ q'[k] = f[k - m]
              \/ k = Len(q') /\ q'[k] = x
  <2>1. PICK w \in Nat : w = m + n + 1
      BY <1>1, <1>8
  <2>2. k \in 1 .. w
      BY <1>8, <2>1
  <2>3. k \in 1 .. m \/ k - m \in 1 .. n \/ k = w
      BY <1>1, <1>8, <2>1, <2>2
  <2>4. k - m \in 1 .. n => q'[m + (k - m)] = f[k - m] /\ m + (k - m) = k
      BY <1>8, <2>2
  <2>5. QED
      BY <1>8, <2>1, <2>3, <2>4
<1>12. \A k \in 1 .. Len(q') : q'[k].kind = "done" <=> k # Len(q')
  <2>1. m \in Nat /\ n \in Nat /\ Len(q') = m + n + 1
      BY <1>1, <1>8
  <2>2. \A k \in Int : (k \in 1 .. m \/ k - m \in 1 .. n) => k # m + n + 1
      BY <2>1
  <2>3. ASSUME NEW k \in 1 .. Len(q') PROVE q'[k].kind = "done" <=> k # Len(q')
    <3>1. CASE k \in 1 .. m /\ q'[k] = q[k]
        BY <1>9, <2>1, <2>2, <3>1
    <3>2. CASE k - m \in 1 .. n /\ q'[k] = f[k - m]
        BY <1>10, <2>1, <2>2, <3>2
    <3>3. CASE k = Len(q') /\ q'[k] = x
        BY <1>3, <3>3
    <3>4. QED
        BY <1>11, <3>1, <3>2, <3>3
  <2>4. QED
      BY <2>3
<1>13. Len(q') \in 1 .. Len(q') /\ q'[Len(q')] = x
    BY <1>1, <1>8
<1>14. Arrival' => back
    BY <1>3, <1>12, <1>13 DEF Arrival
<1>15. Ending' = Ending \cup armed
  <2>1. ASSUME NEW p \in Ending' PROVE p \in Ending \cup armed
    <3>1. PICK k \in 1 .. Len(q') : q'[k].kind = "done" /\ q'[k].end = p
        BY <2>1 DEF Ending
    <3>2. p \in Ends
        BY <2>1 DEF Ending, Ends
    <3>3. CASE k \in 1 .. m /\ q'[k] = q[k]
        BY <3>1, <3>2, <3>3 DEF Ending, m
    <3>4. CASE k - m \in 1 .. n /\ q'[k] = f[k - m]
        BY <1>1, <1>10, <3>1, <3>4
    <3>5. QED
        BY <1>3, <1>11, <3>1, <3>3, <3>4
  <2>2. ASSUME NEW p \in Ending PROVE p \in Ending'
    <3>1. PICK k \in 1 .. m : q[k].kind = "done" /\ q[k].end = p
        BY DEF Ending, m
    <3>2. k \in 1 .. Len(q') /\ q'[k] = q[k]
        BY <1>1, <1>8
    <3>3. p \in Ends'
        BY DEF Ending, Ends
    <3>4. QED
        BY <3>1, <3>2, <3>3 DEF Ending
  <2>3. ASSUME NEW p \in armed PROVE p \in Ending'
    <3>1. PICK k \in 1 .. n : pool[k] = p
        BY <1>2
    <3>2. m + k \in 1 .. Len(q') /\ q'[m + k] = f[k]
        BY <1>1, <1>8
    <3>3. p \in Ends'
        BY DEF Ends
    <3>4. QED
        BY <1>10, <3>1, <3>2, <3>3 DEF Ending
  <2>4. QED
      BY <2>1, <2>2, <2>3
<1>16. ASSUME NEW j \in 1 .. Len(q'), NEW k \in 1 .. Len(q'),
              q'[j].kind = "done", q'[k].kind = "done", q'[j].end = q'[k].end
       PROVE  j = k
  <2>1. j # Len(q') /\ k # Len(q')
      BY <1>12, <1>16
  <2>2. CASE j \in 1 .. m /\ k \in 1 .. m
      BY <1>8, <1>16, <2>2 DEF InQueue, m
  <2>3. CASE j - m \in 1 .. n /\ q'[j] = f[j - m] /\ k - m \in 1 .. n /\ q'[k] = f[k - m]
    <3>1. j - m = k - m
        BY <1>2, <1>10, <1>16, <2>3
    <3>2. QED
        BY <1>8, <3>1
  <2>4. CASE j \in 1 .. m /\ q'[j] = q[j] /\ k - m \in 1 .. n /\ q'[k] = f[k - m]
      BY <1>1, <1>9, <1>10, <1>16, <2>4
  <2>5. CASE k \in 1 .. m /\ q'[k] = q[k] /\ j - m \in 1 .. n /\ q'[j] = f[j - m]
      BY <1>1, <1>9, <1>10, <1>16, <2>5
  <2>6. QED
      BY <1>11, <2>1, <2>2, <2>3, <2>4, <2>5
<1>17. InQueue'
  <2>1. Events' = Events
      BY DEF Events, Ends, Results
  <2>2. \A j, k \in 1 .. Len(q') : j < k => j # Len(q')
      BY <1>1, <1>8
  <2>3. QED
      BY <1>8, <1>12, <1>16, <2>1, <2>2 DEF InQueue
<1>18. QED
    BY <1>14, <1>15, <1>17

\* A key is seen on a port that had none.
LEMMA PushArrival ==
    ASSUME InQueue, ~Arrival, NEW x \in Events, x.kind = "attach", q' = Append(q, x)
    PROVE  InQueue' /\ Ending' = Ending
<1>1. x \in Events /\ x.kind = "attach"
    OBVIOUS
<1>2. q \in Seq(Events)
    BY DEF InQueue
<1>3. /\ Len(q) \in Nat /\ q' \in Seq(Events) /\ Len(q') = Len(q) + 1
      /\ q'[Len(q) + 1] = x
      /\ \A k \in 1 .. Len(q') : k = Len(q) + 1 \/ (k \in 1 .. Len(q) /\ q'[k] = q[k])
      /\ \A k \in 1 .. Len(q) : k \in 1 .. Len(q') /\ q'[k] = q[k]
    BY <1>2, Appended
<1>4. Ending' = Ending
  <2>1. Ends' = Ends
      BY DEF Ends
  <2>2. QED
      BY <1>1, <1>3, <2>1 DEF Ending
<1>5. \A k \in 1 .. Len(q') : q'[k].kind = "attach" => k = Len(q')
    BY <1>3 DEF Arrival
<1>6. ASSUME NEW j \in 1 .. Len(q'), NEW k \in 1 .. Len(q'), q'[k].kind = "done"
      PROVE  /\ q'[j].kind = "done" /\ q'[j].end = q'[k].end => j = k
             /\ j < k => q'[j].kind = "done"
  <2>1. k \in 1 .. Len(q) /\ q'[k] = q[k]
      BY <1>1, <1>3, <1>6
  <2>2. CASE j \in 1 .. Len(q) /\ q'[j] = q[j]
      BY <1>6, <2>1, <2>2 DEF InQueue
  <2>3. CASE j = Len(q) + 1
    <3>1. q'[j].kind # "done"
        BY <1>1, <1>3, <2>3
    <3>2. ~(j < k)
        BY <1>3, <2>1, <2>3
    <3>3. QED
        BY <3>1, <3>2
  <2>4. QED
      BY <1>3, <2>2, <2>3
<1>7. Events' = Events
    BY DEF Events, Ends, Results
<1>8. QED
    BY <1>3, <1>4, <1>5, <1>6, <1>7 DEF InQueue

\* Nothing is put in or taken out.
LEMMA SameQueue ==
    ASSUME q' = q
    PROVE  /\ InQueue' <=> InQueue
           /\ Ending' = Ending /\ News' = News /\ Arrival' = Arrival
BY DEF InQueue, Events, Ends, Results, Ending, News, Arrival
---------------------------------------------------------------------------
(* The invariant *)

\* While a connection settles the port is held; news of the port is not in
\* the queue while the port works, nor while its key is being reset.
Connection ==
    /\ debouncing => connected /\ suspended
    /\ after \in {"debounce", "reset"} => connected /\ suspended /\ ~News
    /\ after = "reset" => ~debouncing
    /\ News => ~connected \/ suspended
    /\ Arrival => connected /\ suspended /\ debouncing

\* The delay that is running says how far the enumeration has come, and what
\* is being enumerated is a device the stack knows.
Enumeration ==
    /\ enumerating \in {None, 0} \cup devs
    /\ after \in {"debounce", "reset", "post", "recovery"} => enumerating = 0
    /\ after = "address" => enumerating \in devs

\* Nothing is left of an earlier key while a new one has no address yet, or
\* has just been given it.
Clean ==
    /\ after # None => armed = {} /\ Ending = {} /\ ctrl.stage = "idle"
    /\ after # None \/ enumerating = 0 =>
          open \subseteq {<<0, 0>>} /\ busy = {} /\ mounted = {}
    /\ enumerating = 0 => ctrl.stage = "idle" \/ ctrl.addr = 0

\* The control pipe waits for the end of its own stage, and for no other.
Pipe ==
    /\ ctrl.stage # "idle" =>
          /\ ctrl.addr \in devs \cup {0} /\ <<ctrl.addr, 0>> \in open
          /\ <<ctrl.addr, 0>> \in armed \cup Ending
    /\ \A a \in 0 .. Addrs :
          ctrl.stage = "idle" \/ a # ctrl.addr => <<a, 0>> \notin armed \cup Ending

\* What the request under way says about the enumeration.
Purpose ==
    ctrl.stage # "idle" =>
        /\ ctrl.addr = 0 => enumerating = 0
        /\ ctrl.addr = 0 <=> ctrl.req \in {"device8", "address"}
        /\ ctrl.req = "address" => ctrl.arg \in devs
        /\ ctrl.req \in {"device8", "address", "device", "config"} =>
              busy = {} /\ mounted = {} /\ \A p \in open : p[2] = 0
        /\ ctrl.req \in {"idle", "report"} => ctrl.arg \in Itf /\ mounted = 1 .. ctrl.arg - 1
        /\ ctrl.req # "none"

\* Endpoints belong to devices the stack knows, those for reports to one of
\* them; one that is busy has its transfer under way or its end queued, not both.
Reports ==
    /\ \A p \in open : p[1] \in devs \cup {0} /\ (p[2] # 0 => p[1] # 0)
    /\ \A p, r \in open : p[2] # 0 /\ r[2] # 0 => p[1] = r[1]
    /\ armed \cap Ending = {}
    /\ \A p \in busy : p[2] # 0 /\ p \in open /\ p[2] \in mounted /\ p \in armed \cup Ending
    /\ \A p \in armed \cup Ending : p[2] # 0 => p \in busy

HostInv ==
    TypeOK /\ InQueue /\ Connection /\ Enumeration /\ Clean /\ Pipe /\ Purpose /\ Reports

LEMMA HostInit == Init => HostInv
<1> SUFFICES ASSUME Init PROVE HostInv
    OBVIOUS
<1> USE DEF Init
<1>1. q = <<>> /\ Len(q) = 0 /\ q \in Seq(Events)
    OBVIOUS
<1>2. Ending = {} /\ ~News /\ ~Arrival
    BY <1>1 DEF Ending, News, Arrival
<1>3. InQueue
    BY <1>1 DEF InQueue
<1>4. TypeOK
  <2>1. Idle \in Controls
      BY SizesAssumption DEF Idle, Controls
  <2>2. {power, plugged, connected, suspended, debouncing} \subseteq BOOLEAN
      BY Zenon
  <2>3. QED
      BY <1>1, <2>1, <2>2 DEF TypeOK, Events
<1>5. Connection /\ Enumeration
    BY <1>2, NoneAssumption DEF Connection, Enumeration, Delays
<1>6. Clean /\ Pipe /\ Purpose /\ Reports
    BY <1>2, NoneAssumption DEF Clean, Pipe, Purpose, Reports, Idle
<1>7. QED
    BY <1>3, <1>4, <1>5, <1>6 DEF HostInv

LEMMA SameConnection ==
    ASSUME Connection, UNCHANGED <<connected, suspended, debouncing>>,
           after' \in {after, None, "post", "recovery", "address"},
           News' => News, Arrival' => Arrival
    PROVE  Connection'
BY NoneAssumption DEF Connection, Delays

LEMMA SameEnumeration ==
    ASSUME Enumeration, enumerating' = enumerating, after' \in {after, None},
           devs \subseteq devs'
    PROVE  Enumeration'
BY NoneAssumption DEF Enumeration, Delays

---------------------------------------------------------------------------
(* The wire and the frame *)

LEMMA OutsideStep ==
    ASSUME HostInv, Unplug \/ Plug \/ PowerOff \/ PowerOn
    PROVE  HostInv'
<1>1. /\ UNCHANGED <<port, hostVars, faults>>
      /\ link' = link \/ link' = {}
    BY DEF Unplug, Plug, PowerOff, PowerOn
<1>2. TypeOK'
    BY <1>1 DEF HostInv, TypeOK, Unplug, Plug, PowerOff, PowerOn, port, hostVars, Ends, Delays,
       Results, Itf
<1>3. InQueue' /\ Ending' = Ending /\ News' = News /\ Arrival' = Arrival
    BY <1>1, SameQueue DEF HostInv, hostVars
<1>4. QED
    BY <1>1, <1>2, <1>3 DEF HostInv, port, hostVars, Connection, Enumeration, Clean, Pipe,
       Purpose, Reports

LEMMA LostStep ==
    ASSUME HostInv, FrameLost
    PROVE  HostInv'
<1>1. PICK back \in BOOLEAN, pool \in InPool :
          /\ back => power
          /\ plugged' = (plugged \/ back)
          /\ connected' = back
          /\ q' = q \o Interrupt(pool, back)
          /\ debouncing' = (debouncing \/ back)
    BY DEF FrameLost
<1>2. /\ connected /\ ~suspended /\ suspended' = TRUE /\ armed' = {}
      /\ UNCHANGED <<power, at, moves, cuts, open, enumerating, after, devs, mounted, link,
                     ctrl, busy, faults>>
    BY DEF FrameLost
<1>3. ~debouncing /\ ~News /\ after \notin {"debounce", "reset"}
    BY <1>2 DEF HostInv, Connection
<1>4. armed \subseteq Ends /\ armed \cap Ending = {} /\ InQueue
    BY DEF HostInv, TypeOK, Reports
<1>5. InQueue' /\ (Arrival' => back) /\ Ending' = Ending \cup armed
    BY <1>1, <1>3, <1>4, PushLost
<1>6. TypeOK'
  <2>1. q' \in Seq(Events)
      BY <1>5 DEF InQueue, Events, Ends, Results
  <2>2. QED
      BY <1>1, <1>2, <2>1 DEF HostInv, TypeOK, Events, Ends, Results, Delays, Itf
<1>7. Connection'
    BY <1>1, <1>2, <1>3, <1>5 DEF Connection
<1>8. Enumeration' /\ Purpose'
    BY <1>2 DEF HostInv, Enumeration, Purpose
<1>9. Clean' /\ Pipe' /\ Reports'
    BY <1>2, <1>5 DEF HostInv, Clean, Pipe, Reports
<1>10. QED
    BY <1>5, <1>6, <1>7, <1>8, <1>9 DEF HostInv

LEMMA ConnectStep ==
    ASSUME HostInv, FrameConnect
    PROVE  HostInv'
<1>1. /\ ~connected /\ connected' = TRUE /\ suspended' = TRUE
      /\ q' = q \o Post(TRUE, FALSE) /\ debouncing' = TRUE
      /\ UNCHANGED <<wire, open, armed, enumerating, after, devs, mounted, link, ctrl, busy,
                     faults>>
    BY DEF FrameConnect
<1>2. ~debouncing /\ ~Arrival /\ after \notin {"debounce", "reset"}
    BY <1>1 DEF HostInv, Connection
<1>3. PICK x \in Events : x.kind = "attach" /\ q' = Append(q, x)
  <2>1. <<0, 0>> \in Ends
      BY SizesAssumption DEF Ends
  <2>2. PICK x \in Events : x = PortEvent("attach")
      BY <2>1 DEF PortEvent, Events
  <2>3. Post(TRUE, FALSE) = <<x>>
      BY <1>2, <2>2 DEF Post
  <2>4. x.kind = "attach"
      BY <2>2 DEF PortEvent
  <2>5. q \in Seq(Events) /\ q' = q \o <<x>>
      BY <1>1, <2>3 DEF HostInv, InQueue
  <2>6. QED
      BY <2>4, <2>5, OneMore
<1>4. InQueue' /\ Ending' = Ending
    BY <1>2, <1>3, PushArrival DEF HostInv
<1>5. TypeOK'
  <2>1. q' \in Seq(Events)
      BY <1>4 DEF InQueue, Events, Ends, Results
  <2>2. QED
      BY <1>1, <2>1 DEF HostInv, TypeOK, Events, Ends, Results, Delays, Itf, wire
<1>6. Connection'
    BY <1>1, <1>2 DEF Connection
<1>7. Enumeration' /\ Purpose' /\ Clean' /\ Pipe' /\ Reports'
    BY <1>1, <1>4 DEF HostInv, Enumeration, Purpose, Clean, Pipe, Reports
<1>8. QED
    BY <1>4, <1>5, <1>6, <1>7 DEF HostInv

LEMMA TransactionStep ==
    ASSUME HostInv, NEW p \in Ends, NEW r \in Results, Transaction(p, r)
    PROVE  HostInv'
<1>1. /\ connected /\ ~suspended /\ p \in armed
      /\ armed' = armed \ {p} /\ q' = Append(q, Done(p, r))
      /\ UNCHANGED <<power, plugged, moves, cuts, port, open, stack, ctrl, busy>>
      /\ faults' \in {faults, faults - 1}
      /\ at' = at \/ (p[2] = 0 /\ ctrl.stage = "ack" /\ ctrl.req = "address" /\ at' = ctrl.arg)
    BY DEF Transaction
<1>2. ~News /\ p \notin Ending
    BY <1>1 DEF HostInv, Connection, Reports
<1>3. InQueue' /\ ~News' /\ ~Arrival' /\ Ending' = Ending \cup {p}
    BY <1>1, <1>2, PushDone DEF HostInv
<1>4. TypeOK'
  <2>1. q' \in Seq(Events)
      BY <1>3 DEF InQueue, Events, Ends, Results
  <2>2. at' \in (0 .. Addrs) \cup {None}
      BY <1>1 DEF HostInv, TypeOK, Purpose, Controls
  <2>3. QED
      BY <1>1, <2>1, <2>2 DEF HostInv, TypeOK, Events, Ends, Results, Delays, Itf, port, stack
<1>5. Connection'
    BY <1>1, <1>3 DEF HostInv, Connection, port, stack
<1>6. Enumeration' /\ Purpose' /\ Clean' /\ Pipe' /\ Reports'
    BY <1>1, <1>3 DEF HostInv, Enumeration, Purpose, Clean, Pipe, Reports, stack
<1>7. QED
    BY <1>3, <1>4, <1>5, <1>6 DEF HostInv
---------------------------------------------------------------------------
(* A device arrives or goes *)

\* What there is belongs to the devices that are closed.
LEMMA AllGone ==
    ASSUME HostInv, Ending = {}, CloseGone
    PROVE  /\ armed' = {} /\ busy' = {} /\ mounted' = {} /\ ctrl'.stage = "idle"
           /\ open' \subseteq open /\ (enumerating = 0 => open' = {})
           /\ enumerating # 0 => devs' = {} /\ open' \subseteq {<<0, 0>>}
           /\ enumerating = 0 => devs' = devs
           /\ ctrl' \in Controls
           /\ link' \subseteq mounted'
<1> USE DEF HostInv
<1>1. \A p \in open : p \in Ends /\ p[1] \in 0 .. Addrs /\ p = <<p[1], p[2]>>
    BY DEF TypeOK, Ends
<1>2. \A S : Close(S) = {p \in S : p \notin Ends \/ p[1] \notin Gone}
  <2>1. \A p : p \in UNION {Of(a) : a \in Gone} <=> p \in Ends /\ p[1] \in Gone
      BY DEF Of
  <2>2. QED
      BY <2>1 DEF Close
<1>3. \A p \in open : p[1] \notin Gone => p = <<0, 0>> /\ enumerating # 0
    BY <1>1 DEF Gone, Clean, Reports
<1>4. ctrl.stage # "idle" => ctrl.addr \in Gone
    BY DEF Gone, Pipe, Purpose, Clean, Enumeration
<1>5. ctrl'.stage = "idle" /\ ctrl'.addr = ctrl.addr
    BY <1>4 DEF CloseGone, AbortControl, TypeOK
<1>6. armed' = {}
  <2>1. enumerating # 0 => <<0, 0>> \notin armed
      BY SizesAssumption DEF Pipe, Purpose
  <2>2. armed \subseteq open
      BY DEF TypeOK
  <2>3. ASSUME NEW p \in armed, p \in Close(armed) PROVE FALSE
      BY <1>1, <1>2, <1>3, <2>1, <2>2, <2>3
  <2>4. Close(armed) \subseteq armed
      BY <1>2
  <2>5. QED
      BY <2>3, <2>4 DEF CloseGone, StillArmed
<1>7. busy' = {}
    BY <1>1, <1>2, <1>3 DEF CloseGone, StillBusy, Reports
<1>8. mounted' = {} /\ link' \subseteq mounted'
    BY DEF CloseGone, Clean, TypeOK
<1>9. open' \subseteq open /\ (enumerating # 0 => open' \subseteq {<<0, 0>>})
    BY <1>1, <1>2, <1>3 DEF CloseGone
<1>10. enumerating = 0 => open' = {}
  <2>1. enumerating = 0 => Gone = {0} /\ \A p \in open : p[1] = 0
      BY DEF Gone, Clean
  <2>2. QED
      BY <1>1, <1>2, <2>1 DEF CloseGone
<1>11. (enumerating # 0 => devs' = {}) /\ (enumerating = 0 => devs' = devs)
    BY DEF CloseGone, Gone, TypeOK
<1>12. ctrl' = ctrl \/ ctrl' = [ctrl EXCEPT !.stage = "idle"]
    BY DEF CloseGone, AbortControl
<1>13. ctrl' \in Controls
    BY <1>12 DEF TypeOK, Controls
<1>14. QED
    BY <1>5, <1>6, <1>7, <1>8, <1>9, <1>10, <1>11, <1>13

\* After that nothing is left that could be wrong.
LEMMA NothingLeft ==
    ASSUME HostInv, Ending = {}, Ending' = {}, CloseGone, enumerating' \in {None, 0}
    PROVE  Clean' /\ Pipe' /\ Purpose' /\ Reports'
<1>1. /\ armed' = {} /\ busy' = {} /\ mounted' = {} /\ ctrl'.stage = "idle"
      /\ open' \subseteq {<<0, 0>>}
    BY AllGone
<1>2. QED
    BY <1>1 DEF Clean, Pipe, Purpose, Reports

LEMMA RemoveStep ==
    ASSUME HostInv, Remove
    PROVE  HostInv'
<1>1. /\ CloseGone /\ UNCHANGED <<wire, port, debouncing, faults>>
      /\ q # <<>> /\ q' = Tail(q) /\ Head(q).kind # "done"
    BY DEF Remove, Event
<1>2. InQueue' /\ News /\ Ending = {} /\ Ending' = {} /\ (Arrival' => Arrival)
    BY <1>1, PopNews DEF HostInv
<1>3. enumerating' = None /\ after' = None
  <2>1. CASE enumerating \in Gone
      BY <2>1 DEF Remove
  <2>2. CASE enumerating \notin Gone
    <3>1. enumerating = None
        BY <2>2 DEF HostInv, Enumeration, Gone
    <3>2. after = None
        BY <3>1, NoneAssumption DEF HostInv, Enumeration, TypeOK, Delays
    <3>3. QED
        BY <2>2, <3>1, <3>2 DEF Remove
  <2>3. QED
      BY <2>1, <2>2
<1>4. TypeOK'
  <2>1. q' \in Seq(Events)
      BY <1>2 DEF InQueue, Events, Ends, Results
  <2>2. devs' \subseteq 1 .. Addrs /\ open' \subseteq open /\ armed' = {} /\ busy' = {}
        /\ mounted' = {} /\ link' \subseteq mounted'
      BY <1>1, <1>2, AllGone DEF HostInv, TypeOK
  <2>3. ctrl' \in Controls
      BY <1>1, <1>2, AllGone
  <2>4. QED
      BY <1>1, <1>3, <2>1, <2>2, <2>3 DEF HostInv, TypeOK, Events, Ends, Results, Delays, Itf,
         wire, port
<1>5. Connection'
    BY <1>1, <1>2, <1>3, NoneAssumption DEF HostInv, Connection, Delays, port
<1>6. Enumeration'
    BY <1>3, NoneAssumption DEF Enumeration, Delays
<1>7. Clean' /\ Pipe' /\ Purpose' /\ Reports'
    BY <1>1, <1>2, <1>3, NothingLeft
<1>8. QED
    BY <1>2, <1>4, <1>5, <1>6, <1>7 DEF HostInv

LEMMA AttachStep ==
    ASSUME HostInv, Attach
    PROVE  HostInv'
<1>1. /\ CloseGone /\ UNCHANGED <<wire, port, debouncing, faults>>
      /\ q # <<>> /\ q' = Tail(q) /\ Head(q).kind = "attach"
      /\ enumerating' = 0 /\ after' = "debounce"
    BY DEF Attach, Event
<1>2. InQueue' /\ Arrival /\ ~News' /\ Ending = {} /\ Ending' = {} /\ (Arrival' => Arrival)
    BY <1>1, PopNews DEF HostInv
<1>4. TypeOK'
  <2>1. q' \in Seq(Events)
      BY <1>2 DEF InQueue, Events, Ends, Results
  <2>2. devs' \subseteq 1 .. Addrs /\ open' \subseteq open /\ armed' = {} /\ busy' = {}
        /\ mounted' = {} /\ link' \subseteq mounted'
      BY <1>1, <1>2, AllGone DEF HostInv, TypeOK
  <2>3. ctrl' \in Controls
      BY <1>1, <1>2, AllGone
  <2>4. QED
      BY <1>1, <2>1, <2>2, <2>3, SizesAssumption DEF HostInv, TypeOK, Events, Ends, Results,
         Delays, Itf, wire, port
<1>5. Connection'
    BY <1>1, <1>2 DEF HostInv, Connection, port
<1>6. Enumeration'
    BY <1>1 DEF Enumeration
<1>7. Clean' /\ Pipe' /\ Purpose' /\ Reports'
    BY <1>1, <1>2, NothingLeft
<1>8. QED
    BY <1>2, <1>4, <1>5, <1>6, <1>7 DEF HostInv
---------------------------------------------------------------------------
(* The control pipe *)

LEMMA Submitted ==
    ASSUME NEW a \in 0 .. Addrs, NEW arg \in Nat, NEW tries \in Nat, NEW others,
           NEW req \in {"device8", "address", "device", "config", "idle", "report", "app"},
           Submit(a, req, arg, tries, others)
    PROVE  /\ ctrl' \in Controls
           /\ ctrl'.addr = a /\ ctrl'.req = req /\ ctrl'.arg = arg
           /\ \/ ctrl'.stage = "idle" /\ armed' = others
              \/ /\ ctrl'.stage = "setup" /\ armed' = others \cup {<<a, 0>>}
                 /\ <<a, 0>> \in open' \ others
BY DEF Submit, Controls

LEMMA Ended ==
    ASSUME TypeOK, EndControl
    PROVE  ctrl' \in Controls /\ ctrl'.stage = "idle"
BY DEF TypeOK, EndControl, Controls

\* An end that is handled is the one the pipe waits for; with it taken from
\* the queue, no control transfer is under way.
LEMMA ControlHere ==
    ASSUME HostInv, NEW a, NEW r \in Results, Control(a, r)
    PROVE  /\ a \in 0 .. Addrs /\ a \in devs \cup {0}
           /\ ctrl.stage # "idle" /\ ctrl.addr = a /\ <<a, 0>> \in open
           /\ after = None
           /\ InQueue' /\ Ending' = Ending \ {<<a, 0>>}
           /\ (News' => News) /\ (Arrival' => Arrival)
           /\ \A b \in 0 .. Addrs : <<b, 0>> \notin armed \cup Ending'
<1> USE DEF HostInv
<1>1. q # <<>> /\ q' = Tail(q) /\ Head(q).kind = "done" /\ Head(q).end = <<a, 0>>
    BY DEF Control, Done
<1>2. InQueue' /\ <<a, 0>> \in Ending /\ Ending' = Ending \ {<<a, 0>>}
      /\ (News' => News) /\ (Arrival' => Arrival)
    BY <1>1, PopDone
<1>3. a \in 0 .. Addrs /\ a \in devs \cup {0}
    BY SizesAssumption DEF Control, TypeOK
<1>4. ctrl.stage # "idle" /\ ctrl.addr = a
    BY <1>2, <1>3 DEF Pipe
<1>5. after = None
    BY <1>2 DEF Clean
<1>6. \A b \in 0 .. Addrs : <<b, 0>> \notin armed \cup Ending'
    BY <1>2, <1>3, <1>4 DEF Pipe, Reports
<1>7. QED
    BY <1>2, <1>3, <1>4, <1>5, <1>6 DEF Pipe

\* The pipe after a step that ended its transfer or submitted another.
LEMMA PipeAfter ==
    ASSUME \A b \in 0 .. Addrs : <<b, 0>> \notin armed \cup Ending',
           NEW a \in devs' \cup {0}, ctrl'.addr = a \/ ctrl'.stage = "idle",
           \/ ctrl'.stage = "idle" /\ armed' \subseteq armed
           \/ ctrl'.stage = "setup" /\ armed' = armed \cup {<<a, 0>>} /\ <<a, 0>> \in open'
    PROVE  Pipe'
<1>1. ASSUME NEW b \in 0 .. Addrs, ctrl'.stage = "idle" \/ b # ctrl'.addr
      PROVE  <<b, 0>> \notin armed' \cup Ending'
    BY <1>1
<1>2. ctrl'.stage # "idle" => /\ ctrl'.addr \in devs' \cup {0} /\ <<ctrl'.addr, 0>> \in open'
                              /\ <<ctrl'.addr, 0>> \in armed' \cup Ending'
    OBVIOUS
<1>3. QED
    BY <1>1, <1>2 DEF Pipe

\* The endpoints after such a step, if it opens and closes none.
LEMMA ReportsAfter ==
    ASSUME Reports, \A b \in 0 .. Addrs : <<b, 0>> \notin armed \cup Ending', InQueue',
           NEW a \in 0 .. Addrs, Ending' = Ending \ {<<a, 0>>}, devs \subseteq devs',
           armed' \in {armed, armed \cup {<<a, 0>>}}, open' = open, busy' = busy,
           mounted \subseteq mounted'
    PROVE  Reports'
<1>1. <<a, 0>>[2] = 0 /\ <<a, 0>> \notin armed \cup Ending'
    OBVIOUS
<1>2. armed' \cap Ending' = {}
    BY <1>1 DEF Reports
<1>3. \A p \in busy : p # <<a, 0>>
    BY <1>1 DEF Reports
<1>4. \A p \in busy' : p[2] # 0 /\ p \in open' /\ p[2] \in mounted' /\ p \in armed' \cup Ending'
    BY <1>3 DEF Reports
<1>5. \A p \in armed' \cup Ending' : p[2] # 0 => p \in busy'
    BY <1>1 DEF Reports
<1>6. QED
    BY <1>2, <1>4, <1>5 DEF Reports

LEMMA NextStageStep ==
    ASSUME HostInv, NEW a, NextStage(a)
    PROVE  HostInv'
<1>1. /\ Control(a, "ok") /\ "ok" \in Results
      /\ armed' = armed \cup ({<<a, 0>>} \cap open)
      /\ ctrl.stage \in {"setup", "data"}
      /\ UNCHANGED <<wire, port, open, stack, busy, faults>>
      /\ \E w \in {"data", "ack"} : ctrl' = [ctrl EXCEPT !.stage = w]
    BY DEF NextStage, Results
<1>2. /\ a \in 0 .. Addrs /\ a \in devs \cup {0}
      /\ ctrl.stage # "idle" /\ ctrl.addr = a /\ <<a, 0>> \in open /\ after = None
      /\ InQueue' /\ Ending' = Ending \ {<<a, 0>>}
      /\ (News' => News) /\ (Arrival' => Arrival)
      /\ \A b \in 0 .. Addrs : <<b, 0>> \notin armed \cup Ending'
    BY <1>1, ControlHere
<1>3. armed' = armed \cup {<<a, 0>>}
    BY <1>1, <1>2
<1>4. /\ ctrl' \in Controls /\ ctrl'.stage # "idle"
      /\ ctrl'.addr = a /\ ctrl'.req = ctrl.req /\ ctrl'.arg = ctrl.arg
    BY <1>1, <1>2 DEF HostInv, TypeOK, Controls
<1>5. TypeOK'
  <2>1. q' \in Seq(Events)
      BY <1>2 DEF InQueue, Events, Ends, Results
  <2>2. QED
      BY <1>1, <1>2, <1>3, <1>4, <2>1 DEF HostInv, TypeOK, Events, Ends, Results, Delays, Itf,
         wire, port, stack, Controls
<1>6. Connection' /\ Enumeration'
    BY <1>1, <1>2, SameConnection, SameEnumeration DEF HostInv, port, stack
<1>7. Clean' /\ Purpose'
    BY <1>1, <1>2, <1>4 DEF HostInv, Clean, Purpose, stack
<1>8. Reports'
    BY <1>1, <1>2, <1>3, ReportsAfter DEF HostInv, stack
<1>9. Pipe'
    BY <1>1, <1>2, <1>3, <1>4 DEF Pipe, stack
<1>10. QED
    BY <1>2, <1>5, <1>6, <1>7, <1>8, <1>9 DEF HostInv

\* A retry, and the requests that follow one another on an open device.
LEMMA FollowStep ==
    ASSUME HostInv, NEW a, NEW r \in Results, Control(a, r), NEW arg \in Nat, NEW tries \in Nat,
           NEW req \in {"device8", "address", "device", "config", "idle", "report", "app"},
           Submit(a, req, arg, tries, armed),
           UNCHANGED <<wire, port, open, stack, busy, faults>>,
           \/ req = ctrl.req /\ arg = ctrl.arg
           \/ ctrl.req = "device" /\ req = "config"
           \/ ctrl.req = "idle" /\ req = "report" /\ arg = ctrl.arg
    PROVE  HostInv'
<1>1. /\ a \in 0 .. Addrs /\ a \in devs \cup {0}
      /\ ctrl.stage # "idle" /\ ctrl.addr = a /\ <<a, 0>> \in open /\ after = None
      /\ InQueue' /\ Ending' = Ending \ {<<a, 0>>}
      /\ (News' => News) /\ (Arrival' => Arrival)
      /\ \A b \in 0 .. Addrs : <<b, 0>> \notin armed \cup Ending'
    BY ControlHere
<1>2. /\ ctrl' \in Controls
      /\ ctrl'.addr = a /\ ctrl'.req = req /\ ctrl'.arg = arg
      /\ \/ ctrl'.stage = "idle" /\ armed' = armed
         \/ /\ ctrl'.stage = "setup" /\ armed' = armed \cup {<<a, 0>>}
            /\ <<a, 0>> \in open' \ armed
    BY <1>1, Submitted
<1>3. TypeOK'
  <2>1. q' \in Seq(Events)
      BY <1>1 DEF InQueue, Events, Ends, Results
  <2>2. QED
      BY <1>1, <1>2, <2>1 DEF HostInv, TypeOK, Events, Ends, Results, Delays, Itf, wire, port,
         stack, Controls
<1>4. Connection' /\ Enumeration'
    BY <1>1, SameConnection, SameEnumeration DEF HostInv, port, stack
<1>5. Clean' /\ Purpose'
    BY <1>1, <1>2 DEF HostInv, Clean, Purpose, stack
<1>6. Reports'
    BY <1>1, <1>2, ReportsAfter DEF HostInv, stack
<1>7. Pipe'
    BY <1>1, <1>2, PipeAfter DEF stack
<1>8. QED
    BY <1>1, <1>3, <1>4, <1>5, <1>6, <1>7 DEF HostInv
LEMMA FollowSteps ==
    ASSUME HostInv, NEW a, NEW r \in Results, Retry(a) \/ GotDevice(a) \/ IdleSet(a, r)
    PROVE  HostInv'
<1>1. ctrl.arg \in Nat /\ ctrl.tries \in Nat /\ ctrl.tries + 1 \in Nat /\ 0 \in Nat
    BY DEF HostInv, TypeOK, Controls
<1>2. CASE Retry(a)
  <2>1. /\ Control(a, "failed") /\ "failed" \in Results
        /\ Submit(a, ctrl.req, ctrl.arg, ctrl.tries + 1, armed)
        /\ UNCHANGED <<wire, port, open, stack, busy, faults>>
      BY <1>2 DEF Retry, Results
  <2>2. ctrl.req \in {"device8", "address", "device", "config", "idle", "report", "app"}
    <3>1. ctrl.stage # "idle"
        BY <2>1, ControlHere
    <3>2. QED
        BY <3>1 DEF HostInv, TypeOK, Controls, Purpose
  <2>3. QED
      BY <1>1, <2>1, <2>2, FollowStep
<1>3. CASE GotDevice(a)
  <2>1. /\ Control(a, "ok") /\ "ok" \in Results
        /\ ctrl.req = "device" /\ Submit(a, "config", 0, 0, armed)
        /\ UNCHANGED <<wire, port, open, stack, busy, faults>>
      BY <1>3 DEF GotDevice, Completes, Results
  <2>2. QED
      BY <1>1, <2>1, FollowStep
<1>4. CASE IdleSet(a, r)
  <2>1. /\ Control(a, r)
        /\ ctrl.req = "idle" /\ Submit(a, "report", ctrl.arg, 0, armed)
        /\ UNCHANGED <<wire, port, open, stack, busy, faults>>
      BY <1>4 DEF IdleSet, Completes
  <2>2. QED
      BY <1>1, <2>1, FollowStep
<1>5. QED
    BY <1>2, <1>3, <1>4

\* The transfer is over and nothing follows it.
LEMMA OverStep ==
    ASSUME HostInv, NEW a, NEW r \in Results, EnumFails(a) \/ ControlEnds(a, r)
    PROVE  HostInv'
<1>1. /\ Control(a, r) \/ Control(a, "failed")
      /\ EndControl
      /\ enumerating' \in {None, enumerating} /\ after' \in {None, after}
      /\ UNCHANGED <<wire, port, open, armed, debouncing, devs, mounted, link, busy, faults>>
    BY DEF EnumFails, ControlEnds, Completes, FullComplete, stack
<1>2. /\ a \in 0 .. Addrs /\ a \in devs \cup {0}
      /\ ctrl.stage # "idle" /\ ctrl.addr = a /\ <<a, 0>> \in open /\ after = None
      /\ InQueue' /\ Ending' = Ending \ {<<a, 0>>}
      /\ (News' => News) /\ (Arrival' => Arrival)
      /\ \A b \in 0 .. Addrs : <<b, 0>> \notin armed \cup Ending'
    BY <1>1, ControlHere DEF Results
<1>3. ctrl' \in Controls /\ ctrl'.stage = "idle"
    BY <1>1, Ended DEF HostInv
<1>4. TypeOK'
  <2>1. q' \in Seq(Events)
      BY <1>2 DEF InQueue, Events, Ends, Results
  <2>2. QED
      BY <1>1, <1>2, <1>3, <2>1 DEF HostInv, TypeOK, Events, Ends, Results, Delays, Itf, wire,
         port, Controls
<1>5. Connection'
    BY <1>1, <1>2, SameConnection DEF HostInv, port
<1>6. Enumeration' /\ Clean' /\ Purpose'
    BY <1>1, <1>2, <1>3, NoneAssumption DEF HostInv, Enumeration, Clean, Purpose, Delays
<1>7. Reports'
    BY <1>1, <1>2, ReportsAfter DEF HostInv
<1>8. Pipe'
    BY <1>1, <1>2, <1>3, PipeAfter
<1>9. QED
    BY <1>2, <1>4, <1>5, <1>6, <1>7, <1>8 DEF HostInv

\* A non-empty set of numbers has a least one.
LEMMA Least ==
    ASSUME NEW S \in SUBSET Nat, S # {}
    PROVE  \E a \in S : \A b \in S : a <= b
<1>1. PICK a \in S : \A b \in S : <<b, a>> \notin OpToRel(<, Nat)
    BY NatLessThanWellFounded, WFMin
<1>2. \A b \in S : ~(b < a)
    BY <1>1 DEF OpToRel
<1>3. QED
    BY <1>2

LEMMA Device8Step ==
    ASSUME HostInv, GotDevice8
    PROVE  HostInv'
<1> DEFINE free == (1 .. Addrs) \ devs
           new == CHOOSE a \in free : \A b \in free : a <= b
<1>1. /\ Control(0, "ok") /\ "ok" \in Results /\ ctrl.req = "device8" /\ ctrl.stage = "ack"
      /\ UNCHANGED <<wire, port, debouncing, enumerating, after, mounted, link, busy, faults>>
      /\ IF free = {}
         THEN EndControl /\ UNCHANGED <<open, armed, devs>>
         ELSE devs' = devs \cup {new} /\ open' = open /\ Submit(0, "address", new, 0, armed)
    BY DEF GotDevice8, Completes, Results
<1>2. /\ 0 \in 0 .. Addrs
      /\ ctrl.stage # "idle" /\ ctrl.addr = 0 /\ <<0, 0>> \in open /\ after = None
      /\ InQueue' /\ Ending' = Ending \ {<<0, 0>>}
      /\ (News' => News) /\ (Arrival' => Arrival)
      /\ \A b \in 0 .. Addrs : <<b, 0>> \notin armed \cup Ending'
    BY <1>1, ControlHere
<1>3. enumerating = 0 /\ busy = {} /\ mounted = {} /\ \A p \in open : p[2] = 0
    BY <1>1, <1>2 DEF HostInv, Purpose
<1>4. free # {} => new \in free
  <2>1. free \in SUBSET Nat
      BY SizesAssumption
  <2>2. free # {} => \E a \in free : \A b \in free : a <= b
      BY <2>1, Least
  <2>3. QED
      BY <2>2
<1>5. free # {} => new \in 1 .. Addrs /\ new \in Nat
    BY <1>4, SizesAssumption
<1> HIDE DEF new
<1>6. /\ ctrl' \in Controls
      /\ \/ ctrl'.stage = "idle" /\ armed' = armed /\ devs \subseteq devs'
         \/ /\ ctrl'.stage = "setup" /\ armed' = armed \cup {<<0, 0>>} /\ <<0, 0>> \in open'
            /\ ctrl'.addr = 0 /\ ctrl'.req = "address" /\ ctrl'.arg \in devs'
      /\ open' = open /\ devs \subseteq devs' /\ devs' \subseteq 1 .. Addrs
  <2>1. CASE free = {}
      BY <1>1, <2>1, Ended DEF HostInv, TypeOK
  <2>2. CASE free # {}
    <3>1. /\ ctrl' \in Controls
          /\ ctrl'.addr = 0 /\ ctrl'.req = "address" /\ ctrl'.arg = new
          /\ \/ ctrl'.stage = "idle" /\ armed' = armed
             \/ /\ ctrl'.stage = "setup" /\ armed' = armed \cup {<<0, 0>>}
                /\ <<0, 0>> \in open' \ armed
        BY <1>1, <1>2, <1>5, <2>2, Submitted
    <3>2. devs' = devs \cup {new} /\ open' = open /\ devs \subseteq 1 .. Addrs
        BY <1>1, <2>2 DEF HostInv, TypeOK
    <3>3. QED
        BY <1>5, <2>2, <3>1, <3>2
  <2>3. QED
      BY <2>1, <2>2
<1>7. TypeOK'
  <2>1. q' \in Seq(Events)
      BY <1>2 DEF InQueue, Events, Ends, Results
  <2>2. QED
      BY <1>1, <1>2, <1>6, <2>1 DEF HostInv, TypeOK, Events, Ends, Results, Delays, Itf, wire,
         port, Controls
<1>8. Connection' /\ Enumeration'
    BY <1>1, <1>2, <1>6, SameConnection, SameEnumeration DEF HostInv, port
<1>9. Clean' /\ Purpose'
    BY <1>1, <1>2, <1>3, <1>6 DEF HostInv, Clean, Purpose
<1>10. Reports'
    BY <1>1, <1>2, <1>6, ReportsAfter DEF HostInv
<1>11. Pipe'
    BY <1>2, <1>6, PipeAfter
<1>12. QED
    BY <1>2, <1>7, <1>8, <1>9, <1>10, <1>11 DEF HostInv

LEMMA AddressStep ==
    ASSUME HostInv, GotAddress
    PROVE  HostInv'
<1>1. /\ Control(0, "ok") /\ "ok" \in Results /\ ctrl.req = "address" /\ ctrl.stage = "ack"
      /\ EndControl /\ enumerating' = ctrl.arg /\ after' = "address"
      /\ open' = open \ Of(0) /\ armed' = armed \ Of(0)
      /\ UNCHANGED <<wire, port, debouncing, devs, mounted, link, busy, faults>>
    BY DEF GotAddress, Completes, Results
<1>2. /\ 0 \in 0 .. Addrs
      /\ ctrl.stage # "idle" /\ ctrl.addr = 0 /\ <<0, 0>> \in open /\ after = None
      /\ InQueue' /\ Ending' = Ending \ {<<0, 0>>}
      /\ (News' => News) /\ (Arrival' => Arrival)
      /\ \A b \in 0 .. Addrs : <<b, 0>> \notin armed \cup Ending'
    BY <1>1, ControlHere
<1>3. enumerating = 0 /\ busy = {} /\ mounted = {} /\ ctrl.arg \in devs
      /\ open \subseteq {<<0, 0>>}
    BY <1>1, <1>2 DEF HostInv, Purpose, Clean
<1>4. open' = {} /\ armed' = {} /\ Ending' = {}
  <2>1. <<0, 0>> \in Of(0)
      BY SizesAssumption DEF Of, Ends
  <2>2. armed \subseteq open
      BY DEF HostInv, TypeOK
  <2>3. \A p \in Ending : p = <<0, 0>>
    <3>1. \A p \in Ending : p[2] = 0
        BY <1>3 DEF HostInv, Reports
    <3>2. \A p \in Ending : p \in Ends
        BY DEF Ending
    <3>3. \A p \in Ending : p[1] \in 0 .. Addrs /\ p = <<p[1], 0>>
        BY <3>1, <3>2 DEF Ends
    <3>4. QED
        BY <1>2, <3>3 DEF HostInv, Pipe
  <2>4. QED
      BY <1>1, <1>2, <1>3, <2>1, <2>2, <2>3
<1>5. ctrl' \in Controls /\ ctrl'.stage = "idle"
    BY <1>1, Ended DEF HostInv
<1>6. TypeOK'
  <2>1. q' \in Seq(Events)
      BY <1>2 DEF InQueue, Events, Ends, Results
  <2>2. enumerating' \in 0 .. Addrs
    <3>1. devs \subseteq 1 .. Addrs /\ 1 .. Addrs \subseteq 0 .. Addrs
        BY SizesAssumption DEF HostInv, TypeOK
    <3>2. QED
        BY <1>1, <1>3, <3>1
  <2>3. QED
      BY <1>1, <1>2, <1>4, <1>5, <2>1, <2>2 DEF HostInv, TypeOK, Events, Ends, Results, Delays,
         Itf, wire, port, Controls
<1>7. Connection'
    BY <1>1, <1>2, SameConnection DEF HostInv, port
<1>8. Enumeration'
    BY <1>1, <1>3 DEF Enumeration
<1>9. Clean' /\ Purpose' /\ Reports' /\ Pipe'
    BY <1>1, <1>3, <1>4, <1>5 DEF Clean, Purpose, Reports, Pipe
<1>10. QED
    BY <1>2, <1>6, <1>7, <1>8, <1>9 DEF HostInv
LEMMA ConfiguredStep ==
    ASSUME HostInv, NEW a, Configured(a)
    PROVE  HostInv'
<1>1. /\ Control(a, "ok") /\ "ok" \in Results /\ ctrl.req = "config"
      /\ busy' = busy \ Of(a) /\ open' = open \cup {<<a, i>> : i \in Itf}
      /\ Submit(a, "idle", 1, 0, armed \ (busy \cap Of(a)))
      /\ UNCHANGED <<wire, port, stack, faults>>
    BY DEF Configured, Completes, Results
<1>2. /\ a \in 0 .. Addrs /\ a \in devs \cup {0}
      /\ ctrl.stage # "idle" /\ ctrl.addr = a /\ <<a, 0>> \in open /\ after = None
      /\ InQueue' /\ Ending' = Ending \ {<<a, 0>>}
      /\ (News' => News) /\ (Arrival' => Arrival)
      /\ \A b \in 0 .. Addrs : <<b, 0>> \notin armed \cup Ending'
    BY <1>1, ControlHere
<1>3. a # 0 /\ busy = {} /\ mounted = {} /\ \A p \in open : p[2] = 0
    BY <1>1, <1>2 DEF HostInv, Purpose
<1>4. \A i \in Itf : <<a, i>> \in Ends /\ i # 0
    BY <1>2, SizesAssumption DEF Itf, Ends
<1>5. armed \ (busy \cap Of(a)) = armed /\ busy' = {}
    BY <1>1, <1>3
<1>6. /\ ctrl' \in Controls
      /\ ctrl'.addr = a /\ ctrl'.req = "idle" /\ ctrl'.arg = 1
      /\ \/ ctrl'.stage = "idle" /\ armed' = armed
         \/ /\ ctrl'.stage = "setup" /\ armed' = armed \cup {<<a, 0>>}
            /\ <<a, 0>> \in open' \ armed
  <2>1. Submit(a, "idle", 1, 0, armed)
      BY <1>1, <1>5
  <2>2. QED
      BY <1>2, <2>1, Submitted
<1>7. TypeOK'
  <2>1. q' \in Seq(Events)
      BY <1>2 DEF InQueue, Events, Ends, Results
  <2>2. open' \subseteq Ends /\ armed' \subseteq open'
      BY <1>1, <1>2, <1>4, <1>6 DEF HostInv, TypeOK
  <2>3. QED
      BY <1>1, <1>2, <1>5, <1>6, <2>1, <2>2 DEF HostInv, TypeOK, Events, Ends, Results, Delays,
         Itf, wire, port, stack, Controls
<1>8. Connection' /\ Enumeration'
    BY <1>1, <1>2, SameConnection, SameEnumeration DEF HostInv, port, stack
<1>9. enumerating # 0
    BY <1>2, <1>3 DEF HostInv, Clean
<1>10. Clean' /\ Purpose'
  <2>1. 1 \in Itf /\ 1 .. 1 - 1 = {}
      BY SizesAssumption DEF Itf
  <2>2. QED
      BY <1>1, <1>2, <1>3, <1>6, <1>9, <2>1 DEF Clean, Purpose, stack
<1>11. Reports'
  <2>1. \A p \in armed \cup Ending' : p[2] = 0
      BY <1>2, <1>3 DEF HostInv, Reports
  <2>2. armed' \cap Ending' = {} /\ \A p \in armed' \cup Ending' : p[2] = 0
      BY <1>2, <1>6, <2>1 DEF HostInv, Reports
  <2>3. \A p \in open' : p[1] \in devs' \cup {0} /\ (p[2] # 0 => p[1] = a)
      BY <1>1, <1>2, <1>3 DEF HostInv, Reports, stack
  <2>4. QED
      BY <1>3, <1>5, <2>2, <2>3 DEF Reports
<1>12. Pipe'
    BY <1>1, <1>2, <1>6, PipeAfter DEF stack
<1>13. QED
    BY <1>2, <1>7, <1>8, <1>10, <1>11, <1>12 DEF HostInv

LEMMA ReportStep ==
    ASSUME HostInv, NEW a, GotReport(a)
    PROVE  HostInv'
<1>1. /\ Control(a, "ok") /\ "ok" \in Results /\ ctrl.req = "report"
      /\ mounted' = mounted \cup {ctrl.arg} /\ link' = link \cup {ctrl.arg}
      /\ UNCHANGED <<wire, port, debouncing, devs, busy, faults>>
    BY DEF GotReport, Completes, Results
<1>2. /\ a \in 0 .. Addrs /\ a \in devs \cup {0}
      /\ ctrl.stage # "idle" /\ ctrl.addr = a /\ <<a, 0>> \in open /\ after = None
      /\ InQueue' /\ Ending' = Ending \ {<<a, 0>>}
      /\ (News' => News) /\ (Arrival' => Arrival)
      /\ \A b \in 0 .. Addrs : <<b, 0>> \notin armed \cup Ending'
    BY <1>1, ControlHere
<1>3. a # 0 /\ ctrl.arg \in Itf /\ mounted = 1 .. ctrl.arg - 1
    BY <1>1, <1>2 DEF HostInv, Purpose
<1>4. enumerating # 0
    BY <1>2, <1>3 DEF HostInv, Clean
<1>5. /\ open' = open /\ enumerating' \in {None, enumerating} /\ after' = None
      /\ ctrl' \in Controls
      /\ \/ ctrl'.stage = "idle" /\ armed' = armed
         \/ /\ ctrl'.stage = "setup" /\ armed' = armed \cup {<<a, 0>>} /\ <<a, 0>> \in open'
            /\ ctrl'.addr = a /\ ctrl'.req = "idle"
            /\ ctrl'.arg = ctrl.arg + 1 /\ ctrl'.arg \in Itf
  <2>1. CASE ctrl.arg < Itfs
    <3>1. /\ Submit(a, "idle", ctrl.arg + 1, 0, armed) /\ open' = open
          /\ UNCHANGED <<enumerating, after>>
        BY <2>1 DEF GotReport
    <3>2. ctrl.arg + 1 \in Nat /\ ctrl.arg + 1 \in Itf
        BY <1>3, <2>1, SizesAssumption DEF Itf
    <3>3. /\ ctrl' \in Controls
          /\ ctrl'.addr = a /\ ctrl'.req = "idle" /\ ctrl'.arg = ctrl.arg + 1
          /\ \/ ctrl'.stage = "idle" /\ armed' = armed
             \/ /\ ctrl'.stage = "setup" /\ armed' = armed \cup {<<a, 0>>}
                /\ <<a, 0>> \in open' \ armed
        BY <1>2, <3>1, <3>2, Submitted
    <3>4. QED
        BY <1>2, <3>1, <3>2, <3>3
  <2>2. CASE ~(ctrl.arg < Itfs)
    <3>1. EndControl /\ FullComplete /\ UNCHANGED <<open, armed>>
        BY <2>2 DEF GotReport
    <3>2. QED
        BY <3>1, Ended DEF HostInv, FullComplete
  <2>3. QED
      BY <2>1, <2>2
<1>6. TypeOK'
  <2>1. q' \in Seq(Events)
      BY <1>2 DEF InQueue, Events, Ends, Results
  <2>2. QED
      BY <1>1, <1>2, <1>3, <1>5, <2>1 DEF HostInv, TypeOK, Events, Ends, Results, Delays, Itf,
         wire, port
<1>7. Connection'
    BY <1>1, <1>2, <1>5, SameConnection DEF HostInv, port
<1>8. Enumeration' /\ Clean'
    BY <1>1, <1>2, <1>4, <1>5, NoneAssumption DEF HostInv, Enumeration, Clean, Delays
<1>9. Purpose'
  <2>1. ctrl.arg \in Nat \ {0}
      BY <1>3, SizesAssumption DEF Itf
  <2>2. mounted' = 1 .. (ctrl.arg + 1) - 1
      BY <1>1, <1>3, <2>1
  <2>3. QED
      BY <1>3, <1>5, <2>2 DEF Purpose
<1>10. Reports'
  <2>1. armed' \in {armed, armed \cup {<<a, 0>>}}
      BY <1>5
  <2>2. QED
      BY <1>1, <1>2, <1>5, <2>1, ReportsAfter DEF HostInv
<1>11. Pipe'
    BY <1>1, <1>2, <1>5, PipeAfter
<1>12. QED
    BY <1>2, <1>6, <1>7, <1>8, <1>9, <1>10, <1>11 DEF HostInv

---------------------------------------------------------------------------
(* Delays and reports *)

\* The three delays that end before the key is asked anything.
LEMMA DelayStep ==
    ASSUME HostInv, Debounced \/ ResetOver \/ PostReset
    PROVE  HostInv'
<1>1. /\ after \in {"debounce", "reset", "post"}
      /\ UNCHANGED <<connected, open, armed, q, devs, mounted, link, ctrl, busy>>
      /\ {power', plugged', suspended', debouncing'} \subseteq
            {power, plugged, suspended, debouncing, TRUE, FALSE}
      /\ at' \in {at, 0, None}
      /\ enumerating' \in {enumerating, None}
      /\ after' \in {None, "reset", "post", "recovery"}
      /\ after' # None => enumerating' = enumerating
    BY DEF Debounced, ResetOver, PostReset, FullComplete, port, wire
<1>2. after # None /\ enumerating = 0
    BY <1>1, NoneAssumption DEF HostInv, Enumeration, Delays
<1>3. InQueue' /\ Ending' = Ending /\ News' = News /\ Arrival' = Arrival
    BY <1>1, SameQueue DEF HostInv
<1>4. TypeOK'
  <2>1. q' \in Seq(Events)
      BY <1>3 DEF InQueue, Events, Ends, Results
  <2>2. {power', plugged', connected', suspended', debouncing'} \subseteq BOOLEAN
      BY <1>1 DEF HostInv, TypeOK
  <2>3. at' \in (0 .. Addrs) \cup {None} /\ enumerating' \in (0 .. Addrs) \cup {None}
      BY <1>1, SizesAssumption DEF HostInv, TypeOK
  <2>4. QED
      BY <1>1, <2>1, <2>2, <2>3 DEF HostInv, TypeOK, Delays, Ends, Itf, Controls
<1>5. Connection'
  <2>1. Arrival => News
      BY DEF Arrival, News
  <2>2. CASE Debounced
    <3>1. connected /\ suspended /\ ~News
        BY <2>2 DEF HostInv, Connection, Debounced
    <3>2. suspended' = TRUE /\ debouncing' = FALSE
        BY <2>2, <3>1 DEF Debounced, HostInv, TypeOK
    <3>3. QED
        BY <1>1, <1>3, <2>1, <3>1, <3>2 DEF Connection
  <2>3. CASE ResetOver
      BY <1>3, <2>1, <2>3 DEF HostInv, Connection, ResetOver
  <2>4. CASE PostReset
      BY <1>3, <2>4, SameConnection, NoneAssumption DEF HostInv, PostReset, FullComplete, port,
         Delays
  <2>5. QED
      BY <2>2, <2>3, <2>4
<1>6. Enumeration'
    BY <1>1, <1>2, NoneAssumption DEF Enumeration, Delays
<1>7. Clean' /\ Pipe' /\ Purpose' /\ Reports'
    BY <1>1, <1>2, <1>3 DEF HostInv, Clean, Pipe, Purpose, Reports
<1>8. QED
    BY <1>3, <1>4, <1>5, <1>6, <1>7 DEF HostInv

\* The two after which it is: device 0's and the new device's first request.
LEMMA FirstRequestStep ==
    ASSUME HostInv, Recovered \/ AddressSettled
    PROVE  HostInv'
<1>1. PICK a \in {0} \cup devs, req \in {"device8", "device"} :
          /\ Submit(a, req, 0, 0, armed)
          /\ open' = open \cup {<<a, 0>>}
          /\ enumerating = a /\ (a = 0 <=> req = "device8")
  <2>1. CASE Recovered
    <3>1. enumerating = 0 /\ 0 \in {0} \cup devs
        BY <2>1 DEF HostInv, Enumeration, Recovered
    <3>2. QED
        BY <2>1, <3>1 DEF Recovered
  <2>2. CASE AddressSettled
    <3>1. enumerating \in devs /\ enumerating # 0
        BY <2>2, SizesAssumption DEF HostInv, Enumeration, AddressSettled, TypeOK
    <3>2. QED
        BY <2>2, <3>1 DEF AddressSettled, Submit
  <2>3. QED
      BY <2>1, <2>2
<1>2. /\ after \in {"recovery", "address"} /\ after' = None
      /\ UNCHANGED <<wire, port, q, debouncing, enumerating, devs, mounted, link, busy, faults>>
    BY DEF Recovered, AddressSettled
<1>3. a \in 0 .. Addrs
    BY SizesAssumption DEF HostInv, TypeOK
<1>4. /\ armed = {} /\ Ending = {} /\ open \subseteq {<<0, 0>>} /\ busy = {} /\ mounted = {}
    BY <1>2, NoneAssumption DEF HostInv, Clean, Delays
<1>5. InQueue' /\ Ending' = Ending /\ News' = News /\ Arrival' = Arrival
    BY <1>2, SameQueue DEF HostInv
<1>6. /\ ctrl' \in Controls
      /\ ctrl'.addr = a /\ ctrl'.req = req
      /\ \/ ctrl'.stage = "idle" /\ armed' = armed
         \/ /\ ctrl'.stage = "setup" /\ armed' = armed \cup {<<a, 0>>}
            /\ <<a, 0>> \in open' \ armed
    BY <1>1, <1>3, Submitted
<1>7. TypeOK'
  <2>1. q' \in Seq(Events)
      BY <1>5 DEF InQueue, Events, Ends, Results
  <2>2. <<a, 0>> \in Ends
      BY <1>3, SizesAssumption DEF Ends
  <2>3. QED
      BY <1>1, <1>2, <1>4, <1>6, <2>1, <2>2 DEF HostInv, TypeOK, Events, Ends, Results, Delays,
         Itf, wire, port, Controls
<1>8. Connection' /\ Enumeration'
    BY <1>2, <1>5, SameConnection, SameEnumeration DEF HostInv, port
<1>9. open' \subseteq {<<0, 0>>, <<a, 0>>} /\ \A p \in open' : p[2] = 0 /\ p[1] \in {0, a}
    BY <1>1, <1>4
<1>10. Clean'
    BY <1>1, <1>2, <1>4, <1>6, <1>9 DEF Clean
<1>11. Purpose'
    BY <1>1, <1>2, <1>4, <1>6, <1>9 DEF Purpose
<1>12. Reports' /\ Pipe'
  <2>1. armed' \subseteq {<<a, 0>>} /\ Ending' = {} /\ busy' = {} /\ devs' = devs
      BY <1>2, <1>4, <1>5, <1>6
  <2>2. Reports'
      BY <1>9, <2>1 DEF Reports
  <2>3. Pipe'
      BY <1>4, <1>6, <2>1, PipeAfter
  <2>4. QED
      BY <2>2, <2>3
<1>13. QED
    BY <1>5, <1>7, <1>8, <1>10, <1>11, <1>12 DEF HostInv
LEMMA AskStep ==
    ASSUME HostInv, NEW a \in 1 .. Addrs, NEW i \in Itf, Ask(a, i)
    PROVE  HostInv'
<1> DEFINE p == <<a, i>>
<1>1. /\ i \in link /\ a \in devs /\ p \in open \ (armed \cup busy)
      /\ busy' = busy \cup {p} /\ armed' = armed \cup {p}
      /\ UNCHANGED <<wire, port, open, q, stack, ctrl, faults>>
    BY DEF Ask
<1>2. p \in Ends /\ p[1] = a /\ p[2] = i /\ i # 0 /\ a # 0 /\ \A b : <<b, 0>> # p
    BY SizesAssumption DEF Ends, Itf
<1>3. i \in mounted
    BY <1>1 DEF HostInv, TypeOK
<1> HIDE DEF p
<1>4. after = None /\ enumerating # 0 /\ p \notin Ending
    BY <1>1, <1>2, <1>3 DEF HostInv, Clean, Reports
<1>5. InQueue' /\ Ending' = Ending /\ News' = News /\ Arrival' = Arrival
    BY <1>1, SameQueue DEF HostInv
<1>6. TypeOK'
  <2>1. q' \in Seq(Events)
      BY <1>5 DEF InQueue, Events, Ends, Results
  <2>2. QED
      BY <1>1, <1>2, <2>1 DEF HostInv, TypeOK, Events, Ends, Results, Delays, Itf, wire, port,
         stack, Controls
<1>7. Connection' /\ Enumeration'
    BY <1>1, <1>5, SameConnection, SameEnumeration DEF HostInv, port, stack
<1>8. Clean' /\ Purpose'
    BY <1>1, <1>2, <1>3, <1>4 DEF HostInv, Clean, Purpose, stack
<1>9. Reports'
    BY <1>1, <1>2, <1>3, <1>4, <1>5 DEF HostInv, Reports, stack
<1>10. Pipe'
    BY <1>1, <1>2, <1>5 DEF HostInv, Pipe, stack
<1>11. QED
    BY <1>5, <1>6, <1>7, <1>8, <1>9, <1>10 DEF HostInv

LEMMA AnsweredStep ==
    ASSUME HostInv, Answered
    PROVE  HostInv'
<1>1. /\ q # <<>> /\ q' = Tail(q) /\ Head(q).kind = "done"
      /\ busy' = busy \ {Head(q).end}
      /\ UNCHANGED <<wire, port, open, armed, stack, ctrl, faults>>
    BY DEF Answered, Event
<1>2. PICK p : p = Head(q).end
    OBVIOUS
<1>3. p[1] \in devs /\ p[2] # 0 /\ \A b : <<b, 0>> # p
    BY <1>2 DEF Answered
<1>4. InQueue' /\ p \in Ending /\ Ending' = Ending \ {p} /\ (News' => News) /\ (Arrival' => Arrival)
    BY <1>1, <1>2, PopDone DEF HostInv
<1>5. TypeOK'
  <2>1. q' \in Seq(Events)
      BY <1>4 DEF InQueue, Events, Ends, Results
  <2>2. QED
      BY <1>1, <2>1 DEF HostInv, TypeOK, Events, Ends, Results, Delays, Itf, wire, port, stack,
         Controls
<1>6. Connection' /\ Enumeration'
    BY <1>1, <1>4, SameConnection, SameEnumeration DEF HostInv, port, stack
<1>7. Clean' /\ Purpose'
    BY <1>1, <1>4 DEF HostInv, Clean, Purpose, stack
<1>8. Reports'
    BY <1>1, <1>2, <1>4 DEF HostInv, Reports, stack
<1>9. Pipe'
    BY <1>1, <1>3, <1>4 DEF HostInv, Pipe, stack
<1>10. QED
    BY <1>4, <1>5, <1>6, <1>7, <1>8, <1>9 DEF HostInv

LEMMA SetReportStep ==
    ASSUME HostInv, NEW a \in 1 .. Addrs, NEW i \in Itf, SetReport(a, i)
    PROVE  HostInv'
<1>1. /\ i \in link /\ <<a, i>> \in open /\ ctrl.stage = "idle"
      /\ open' = open /\ Submit(a, "app", i, 0, armed)
      /\ UNCHANGED <<wire, port, q, stack, busy, faults>>
    BY DEF SetReport
<1>2. a \in 0 .. Addrs /\ a # 0 /\ i \in Nat /\ a \in devs
    BY SizesAssumption DEF SetReport, Connected, Itf
<1>3. i \in mounted
    BY <1>1 DEF HostInv, TypeOK
<1>4. after = None /\ enumerating # 0
    BY <1>3 DEF HostInv, Clean
<1>5. InQueue' /\ Ending' = Ending /\ News' = News /\ Arrival' = Arrival
    BY <1>1, SameQueue DEF HostInv
<1>6. \A b \in 0 .. Addrs : <<b, 0>> \notin armed \cup Ending'
    BY <1>1, <1>5 DEF HostInv, Pipe
<1>7. /\ ctrl' \in Controls
      /\ ctrl'.addr = a /\ ctrl'.req = "app" /\ ctrl'.arg = i
      /\ \/ ctrl'.stage = "idle" /\ armed' = armed
         \/ /\ ctrl'.stage = "setup" /\ armed' = armed \cup {<<a, 0>>}
            /\ <<a, 0>> \in open' \ armed
    BY <1>1, <1>2, Submitted
<1>8. TypeOK'
  <2>1. q' \in Seq(Events)
      BY <1>5 DEF InQueue, Events, Ends, Results
  <2>2. QED
      BY <1>1, <1>7, <2>1 DEF HostInv, TypeOK, Events, Ends, Results, Delays, Itf, wire, port,
         stack, Controls
<1>9. Connection' /\ Enumeration'
    BY <1>1, <1>5, SameConnection, SameEnumeration DEF HostInv, port, stack
<1>10. Clean' /\ Purpose'
    BY <1>1, <1>2, <1>4, <1>7 DEF HostInv, Clean, Purpose, stack
<1>11. Reports'
  <2>1. armed' \in {armed, armed \cup {<<a, 0>>}} /\ Ending' = Ending \ {<<a, 0>>}
      BY <1>2, <1>5, <1>6, <1>7
  <2>2. QED
      BY <1>1, <1>2, <1>5, <1>6, <2>1, ReportsAfter DEF HostInv, stack
<1>12. Pipe'
    BY <1>1, <1>2, <1>6, <1>7, PipeAfter DEF stack
<1>13. QED
    BY <1>5, <1>8, <1>9, <1>10, <1>11, <1>12 DEF HostInv

LEMMA HostNext == HostInv /\ [Next]_vars => HostInv'
<1> SUFFICES ASSUME HostInv, [Next]_vars PROVE HostInv'
    OBVIOUS
<1>1. CASE Unplug \/ Plug \/ PowerOff \/ PowerOn
    BY <1>1, OutsideStep
<1>2. CASE FrameLost \/ FrameConnect
    BY <1>2, LostStep, ConnectStep
<1>3. ASSUME NEW p \in Ends, NEW r \in Results, Transaction(p, r) PROVE HostInv'
    BY <1>3, TransactionStep
<1>4. CASE Delay
    BY <1>4, DelayStep, FirstRequestStep DEF Delay
<1>5. CASE Task
  <2>1. CASE Remove \/ Attach
      BY <2>1, RemoveStep, AttachStep
  <2>2. CASE Answered \/ GotDevice8 \/ GotAddress
      BY <2>2, AnsweredStep, Device8Step, AddressStep
  <2>3. ASSUME NEW a \in 0 .. Addrs,
               \/ NextStage(a) \/ Configured(a) \/ GotReport(a)
               \/ Retry(a) \/ GotDevice(a) \/ EnumFails(a)
        PROVE  HostInv'
      BY <2>3, NextStageStep, ConfiguredStep, ReportStep, FollowSteps, OverStep DEF Results
  <2>4. ASSUME NEW a \in 0 .. Addrs, NEW r \in Results, IdleSet(a, r) \/ ControlEnds(a, r)
        PROVE  HostInv'
      BY <2>4, FollowSteps, OverStep
  <2>5. QED
      BY <1>5, <2>1, <2>2, <2>3, <2>4 DEF Task
<1>6. ASSUME NEW a \in 1 .. Addrs, NEW i \in Itf, Ask(a, i) \/ SetReport(a, i) PROVE HostInv'
    BY <1>6, AskStep, SetReportStep
<1>7. CASE UNCHANGED vars
  <2>1. InQueue' /\ Ending' = Ending /\ News' = News /\ Arrival' = Arrival
      BY <1>7, SameQueue DEF HostInv, vars
  <2>2. TypeOK'
      BY <1>7 DEF HostInv, TypeOK, vars, wire, port, stack, Events, Ends, Results, Delays, Itf,
         Controls
  <2>3. QED
      BY <1>7, <2>1, <2>2 DEF HostInv, vars, wire, port, stack, Connection, Enumeration, Clean,
         Pipe, Purpose, Reports
<1>8. QED
    BY <1>1, <1>2, <1>3, <1>4, <1>5, <1>6, <1>7 DEF Next

LEMMA Invariant == Spec => []HostInv
    BY HostInit, HostNext, PTL DEF Spec

---------------------------------------------------------------------------
(* What follows *)

\* How often an end is queued, from where it is.
LEMMA QueuedIs ==
    ASSUME InQueue, NEW p \in Ends
    PROVE  /\ p \notin Ending => Queued(p) = 0
           /\ p \in Ending => Queued(p) = 1
<1> DEFINE at_(e) == {k \in 1 .. Len(q) : q[k].kind = "done" /\ q[k].end = e}
<1>1. Queued(p) = Cardinality(at_(p))
    BY DEF Queued
<1>2. CASE p \notin Ending
  <2>1. at_(p) = {}
      BY <1>2 DEF Ending
  <2>2. QED
      BY <1>1, <1>2, <2>1, FS_EmptySet
<1>3. CASE p \in Ending
  <2>1. PICK k \in 1 .. Len(q) : q[k].kind = "done" /\ q[k].end = p
      BY <1>3 DEF Ending
  <2>2. at_(p) = {k}
      BY <2>1 DEF InQueue
  <2>3. QED
      BY <1>1, <1>3, <2>2, FS_Singleton
<1>4. QED
    BY <1>2, <1>3

\* The state of core 1's USB host is what it should be, for every key.
THEOREM HostTyped == Spec => []TypeOK
<1>1. HostInv => TypeOK
    BY DEF HostInv
<1>2. QED
    BY <1>1, Invariant, PTL

\* Whatever was asked of an interface is under way or its end is in the queue,
\* so arm_service gets to ask again: through retries, unplugs, bounces and
\* power cuts, for any number of interfaces.
THEOREM NoLostRequest == Spec => []BusyIsPending
<1>1. HostInv => BusyIsPending
  <2> SUFFICES ASSUME HostInv PROVE BusyIsPending
      OBVIOUS
  <2>1. ASSUME NEW p \in busy PROVE p[1] \in devs /\ Once(p)
    <3>1. p \in Ends /\ p[1] \in devs
        BY DEF HostInv, TypeOK, Reports
    <3>2. p \in armed <=> p \notin Ending
        BY DEF HostInv, Reports
    <3>3. QED
        BY <3>1, <3>2, QueuedIs DEF HostInv, Once
  <2>2. \A p \in armed : p[2] # 0 => p \in busy
      BY DEF HostInv, Reports
  <2>3. QED
      BY <2>1, <2>2 DEF BusyIsPending
<1>2. QED
    BY <1>1, Invariant, PTL

\* The control pipe is never left waiting for an end that does not come, and
\* never takes one transfer's end for another's.
THEOREM PipeMoves == Spec => []ControlMoves
<1>1. HostInv => ControlMoves
  <2> SUFFICES ASSUME HostInv PROVE ControlMoves
      OBVIOUS
  <2>1. \A a \in 0 .. Addrs : <<a, 0>> \in Ends
      BY SizesAssumption DEF Ends
  <2>2. ctrl.addr \in 0 .. Addrs
      BY DEF HostInv, TypeOK, Controls
  <2>3. ctrl.stage # "idle" => Once(<<ctrl.addr, 0>>)
      BY <2>1, <2>2, QueuedIs DEF HostInv, Pipe, Reports, Once
  <2>4. ASSUME NEW a \in 0 .. Addrs, ctrl.stage = "idle" \/ a # ctrl.addr
        PROVE  <<a, 0>> \notin armed /\ Queued(<<a, 0>>) = 0
      BY <2>1, <2>4, QueuedIs DEF HostInv, Pipe
  <2>5. QED
      BY <2>3, <2>4 DEF ControlMoves
<1>2. QED
    BY <1>1, Invariant, PTL

\* Nothing of a key outlives it: no end of a transfer is handled after its
\* device has gone, and a new key meets a stack that is empty.
THEOREM NewKeyNewStart == Spec => []NothingStale
<1>1. HostInv => NothingStale
  <2> SUFFICES ASSUME HostInv PROVE NothingStale
      OBVIOUS
  <2>1. ASSUME NEW k \in 1 .. Len(q), q[k].kind = "done"
        PROVE  /\ q[k].end[1] \in devs \cup {0}
               /\ \A j \in 1 .. k - 1 : q[j].kind = "done"
    <3>1. q \in Seq(Events) /\ q[k] \in Events
        BY DEF HostInv, InQueue
    <3>2. q[k].end \in Ends /\ q[k].end \in Ending
        BY <2>1, <3>1 DEF Ending, Events
    <3>3. q[k].end[1] \in devs \cup {0}
      <4>1. CASE q[k].end[2] # 0
          BY <3>2, <4>1 DEF HostInv, Reports
      <4>2. CASE q[k].end[2] = 0
        <5>1. q[k].end = <<q[k].end[1], 0>> /\ q[k].end[1] \in 0 .. Addrs
            BY <3>2, <4>2 DEF Ends
        <5>2. QED
            BY <3>2, <5>1 DEF HostInv, Pipe
      <4>3. QED
          BY <4>1, <4>2
    <3>4. ASSUME NEW j \in 1 .. k - 1 PROVE q[j].kind = "done"
      <4>1. j \in 1 .. Len(q) /\ j < k
          BY <3>1
      <4>2. QED
          BY <2>1, <4>1 DEF HostInv, InQueue
    <3>5. QED
        BY <3>3, <3>4
  <2>2. CleanSlate
    <3>1. <<0, 0>> \in Ends
        BY SizesAssumption DEF Ends
    <3>2. QED
        BY <3>1, QueuedIs DEF HostInv, Clean, CleanSlate
  <2>3. QED
      BY <2>1, <2>2 DEF NothingStale, NoStaleEnds
<1>2. QED
    BY <1>1, Invariant, PTL

---------------------------------------------------------------------------
(* The host stack implements what src/main.cpp takes for granted *)

\* Interfaces with a report asked of them.
Asked == {i \in Itf : \E a \in 1 .. Addrs : <<a, i>> \in busy}

\* An endpoint of an interface is one endpoint: only one device has any.
LEMMA OneEndEach ==
    ASSUME HostInv
    PROVE  /\ \A p \in busy : p = <<p[1], p[2]>> /\ p[1] \in 1 .. Addrs /\ p[2] \in Asked
           /\ \A p \in open, r \in busy : p[2] = r[2] => p = r
<1>1. \A p \in open : p \in Ends /\ p = <<p[1], p[2]>>
    BY DEF HostInv, TypeOK, Ends
<1>2. \A p \in busy : p \in open /\ p[1] \in 1 .. Addrs /\ p[2] \in Itf
    BY <1>1 DEF HostInv, TypeOK, Reports
<1>3. \A p \in busy : p = <<p[1], p[2]>> /\ p[1] \in 1 .. Addrs /\ p[2] \in Asked
    BY <1>1, <1>2 DEF Asked
<1>4. \A p \in open, r \in busy : p[2] = r[2] => p = r
    BY <1>1, <1>2 DEF HostInv, Reports
<1>5. QED
    BY <1>3, <1>4

LEMMA ApiStarts == Init => api!ApiInit
BY DEF Init, api!ApiInit

\* Devices are closed: every interface goes, with what was asked of it.
LEMMA ApiGone ==
    ASSUME HostInv, Ending = {}, CloseGone
    PROVE  api!Unmount
<1>1. busy' = {} /\ mounted' = {}
    BY AllGone
<1>2. QED
    BY <1>1 DEF api!Unmount

LEMMA ApiStep ==
    ASSUME HostInv, [Next]_vars
    PROVE  api!ApiNext \/ (mounted' = mounted /\ busy' = busy)
<1>1. CASE Remove \/ Attach
  <2>1. /\ CloseGone /\ q # <<>> /\ q' = Tail(q) /\ Head(q).kind # "done"
      BY <1>1 DEF Remove, Attach, Event
  <2>2. Ending = {}
      BY <2>1, PopNews DEF HostInv
  <2>3. api!Unmount
      BY <2>1, <2>2, ApiGone
  <2>4. QED
      BY <2>3 DEF api!ApiNext
<1>2. CASE Answered
  <2>1. PICK p : p = Head(q).end
      OBVIOUS
  <2>2. /\ q # <<>> /\ q' = Tail(q) /\ Head(q).kind = "done"
        /\ p[2] # 0 /\ busy' = busy \ {p} /\ mounted' = mounted
      BY <1>2, <2>1 DEF Answered, Event, stack
  <2>3. p \in Ending
      BY <2>1, <2>2, PopDone DEF HostInv
  <2>4. p \in busy /\ p[2] \in mounted
      BY <2>2, <2>3 DEF HostInv, Reports
  <2>5. p[2] \in Asked /\ p[2] \in Itf
      BY <2>4, OneEndEach DEF Asked
  <2>6. Asked' = Asked \ {p[2]}
    <3>1. \A r \in busy : r[2] = p[2] <=> r = p
        BY <2>4, OneEndEach DEF HostInv, Reports
    <3>2. \A a \in 1 .. Addrs, i \in Itf : <<a, i>> \in busy' <=> <<a, i>> \in busy /\ i # p[2]
        BY <2>2, <3>1
    <3>3. QED
        BY <3>2 DEF Asked, Itf
  <2>7. api!Answer(p[2])
      BY <2>2, <2>4, <2>5, <2>6 DEF api!Answer, Asked
  <2>8. QED
      BY <2>5, <2>7 DEF api!ApiNext
<1>3. ASSUME NEW a \in 1 .. Addrs, NEW i \in Itf, Ask(a, i)
      PROVE  api!ApiNext
  <2>1. /\ i \in mounted /\ <<a, i>> \in open /\ <<a, i>> \notin busy
        /\ busy' = busy \cup {<<a, i>>} /\ mounted' = mounted
      BY <1>3 DEF Ask, HostInv, TypeOK, stack
  <2>2. i \notin Asked
      BY <2>1, OneEndEach DEF Asked
  <2>3. Asked' = Asked \cup {i}
      BY <2>1 DEF Asked, Itf
  <2>4. api!Ask(i)
      BY <2>1, <2>2, <2>3 DEF api!Ask, Asked
  <2>5. QED
      BY <2>4 DEF api!ApiNext
<1>4. ASSUME NEW a \in 0 .. Addrs, Configured(a)
      PROVE  mounted' = mounted /\ busy' = busy
  <2>1. Control(a, "ok") /\ "ok" \in Results /\ ctrl.req = "config"
      BY <1>4 DEF Configured, Completes, Results
  <2>2. busy = {}
      BY <2>1, ControlHere DEF HostInv, Purpose
  <2>3. QED
      BY <1>4, <2>2 DEF Configured, stack
<1>5. ASSUME NEW a \in 0 .. Addrs, GotReport(a)
      PROVE  api!ApiNext
  <2>1. /\ Control(a, "ok") /\ "ok" \in Results /\ ctrl.req = "report"
        /\ mounted' = mounted \cup {ctrl.arg} /\ busy' = busy
      BY <1>5 DEF GotReport, Completes, Results
  <2>2. ctrl.arg \in Itf /\ mounted = 1 .. ctrl.arg - 1
      BY <2>1, ControlHere DEF HostInv, Purpose
  <2>3. ctrl.arg \notin mounted
      BY <2>2, SizesAssumption DEF Itf
  <2>4. Asked' = Asked
      BY <2>1 DEF Asked, Itf
  <2>5. api!Mount(ctrl.arg)
      BY <2>1, <2>3, <2>4 DEF api!Mount, Asked
  <2>6. QED
      BY <2>2, <2>5 DEF api!ApiNext
<1>6. CASE UNCHANGED vars
    BY <1>6 DEF vars, stack
<1>7. CASE Unplug \/ Plug \/ PowerOff \/ PowerOn \/ FrameLost \/ FrameConnect \/ Delay
    BY <1>7 DEF Unplug, Plug, PowerOff, PowerOn, FrameLost, FrameConnect, Delay, Debounced,
       ResetOver, PostReset, Recovered, AddressSettled, hostVars
<1>8. ASSUME NEW p \in Ends, NEW r \in Results, Transaction(p, r)
      PROVE  mounted' = mounted /\ busy' = busy
    BY <1>8 DEF Transaction, stack
<1>9. ASSUME NEW a \in 1 .. Addrs, NEW i \in Itf, SetReport(a, i)
      PROVE  mounted' = mounted /\ busy' = busy
    BY <1>9 DEF SetReport, stack
<1>10. ASSUME NEW a \in 0 .. Addrs,
              \/ NextStage(a) \/ Retry(a) \/ EnumFails(a) \/ GotDevice(a)
              \/ \E r \in Results : IdleSet(a, r) \/ ControlEnds(a, r)
       PROVE  mounted' = mounted /\ busy' = busy
    BY <1>10 DEF NextStage, Retry, EnumFails, GotDevice, IdleSet, ControlEnds, stack
<1>11. CASE GotDevice8 \/ GotAddress
    BY <1>11 DEF GotDevice8, GotAddress
<1>12. QED
    BY <1>1, <1>2, <1>3, <1>4, <1>5, <1>6, <1>7, <1>8, <1>9, <1>10, <1>11 DEF Next, Task

\* src/main.cpp gets what it takes for granted: an interface is mounted before
\* it is used and goes with all the others, and what is asked of one is answered
\* at most once and not after it has gone.
THEOREM ImplementsApi == Spec => RefinesApi
<1>1. HostInv /\ [Next]_vars => [api!ApiNext]_(api!apiVars)
  <2> SUFFICES ASSUME HostInv, [Next]_vars PROVE [api!ApiNext]_(api!apiVars)
      OBVIOUS
  <2>1. CASE mounted' = mounted /\ busy' = busy
      BY <2>1 DEF api!apiVars, Itf
  <2>2. QED
      BY <2>1, ApiStep
<1>2. QED
    BY <1>1, ApiStarts, Invariant, PTL DEF Spec, RefinesApi, api!ApiSpec
===========================================================================
