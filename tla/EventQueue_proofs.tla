-------------------------- MODULE EventQueue_proofs --------------------------
(***************************************************************************)
(* Machine-checked proofs about the event queue, for every set of threads, *)
(* every capacity and every number of sends.                               *)
(***************************************************************************)
EXTENDS EventQueue, FiniteSetTheorems, SequenceTheorems, TLAPS

\* Where the ring ends is determined by where it starts and how long it is.
TailFollows == tail = IF head + cnt < EVQ_CAP THEN head + cnt ELSE head + cnt - EVQ_CAP

\* The inductive invariant.
IInv == TypeOK /\ ClaimsBacked /\ TailFollows

LEMMA Capacity == EVQ_CAP \in Nat \ {0} /\ MaxSends \in Nat
  BY QueueAssumption

\* The % of an index that leaves the ring at most once
\* (runtime_glue.cpp:1595, 1665).
LEMMA RingWraps ==
  ASSUME NEW j \in 0 .. 2 * EVQ_CAP - 1
  PROVE  j % EVQ_CAP = IF j < EVQ_CAP THEN j ELSE j - EVQ_CAP
<1>1. CASE j < EVQ_CAP
  BY <1>1, Capacity
<1>2. CASE j >= EVQ_CAP
  <2>1. j = EVQ_CAP * 1 + (j - EVQ_CAP) /\ j - EVQ_CAP \in 0 .. EVQ_CAP - 1
    BY <1>2, Capacity
  <2> QED BY <1>2, <2>1, Capacity
<1> QED BY <1>1, <1>2, Capacity

LEMMA AdvanceValue ==
  ASSUME NEW i \in Slots
  PROVE  /\ Advance(i) \in Slots
         /\ Advance(i) = IF i + 1 < EVQ_CAP THEN i + 1 ELSE i + 1 - EVQ_CAP
<1> DEFINE j == i + 1
<1>1. j \in 0 .. 2 * EVQ_CAP - 1
  BY Capacity DEF Slots
<1>2. j % EVQ_CAP = IF j < EVQ_CAP THEN j ELSE j - EVQ_CAP
  <2> HIDE DEF j
  <2> QED BY <1>1, RingWraps
<1> QED BY <1>2, Capacity DEF Advance, Slots

LEMMA ClaimsFinite ==
  IsFiniteSet(Claims) /\ Cardinality(Claims) \in Nat
BY QueueAssumption, FS_Subset, FS_CardinalityType DEF Claims

\* A receiver past its wait finds the ring occupied.
LEMMA TakerFindsEvent ==
  ASSUME IInv, NEW t \in Threads, pc[t] = "take"
  PROVE  cnt > 0
<1>1. Cardinality(Claims) # 0
  BY ClaimsFinite, FS_EmptySet DEF Claims
<1> QED BY <1>1, ClaimsFinite DEF IInv, TypeOK, ClaimsBacked

\* How the claims change with the program counter of one thread.
LEMMA ClaimsChange ==
  ASSUME TypeOK, NEW t \in Threads, NEW p \in {"idle", "wait", "take"},
         pc' = [pc EXCEPT ![t] = p]
  PROVE  Claims' = IF p = "take" THEN Claims \cup {t} ELSE Claims \ {t}
BY DEF Claims, TypeOK

LEMMA InitIInv == Init => IInv
<1> SUFFICES ASSUME Init PROVE IInv
  OBVIOUS
<1>1. Claims = {}
  BY DEF Init, Claims
<1>2. Cardinality(Claims) = 0
  BY <1>1, FS_EmptySet
<1> QED BY <1>2, Capacity DEF Init, IInv, TypeOK, ClaimsBacked, TailFollows, Slots
-----------------------------------------------------------------------------
LEMMA EnqueueIInv ==
  ASSUME IInv, NEW t \in Threads, sys_event_port_send(t)
  PROVE  IInv'
<1> USE Capacity
<1>1. /\ head \in Slots /\ tail \in Slots
      /\ cnt \in 0 .. EVQ_CAP /\ avail \in Nat /\ sends \in 0 .. MaxSends
  BY DEF IInv, TypeOK
<1>2. Claims' = Claims
  BY DEF sys_event_port_send, threads, Claims
<1>3. sends' \in 0 .. MaxSends /\ sends' = sends + 1
  BY <1>1 DEF sys_event_port_send
<1>4. CASE Enqueue(sends + 1)
  <2>1. cnt < EVQ_CAP /\ cnt' = cnt + 1 /\ head' = head /\ tail' = Advance(tail)
    BY <1>4 DEF Enqueue, HasRoom
  <2>2. avail < EVQ_CAP
    BY <1>1, <2>1, ClaimsFinite DEF IInv, ClaimsBacked
  <2>3. avail' = avail + 1
    BY <1>1, <1>4, <2>2 DEF Enqueue, Released, AvailMax
  <2>4. buf' \in [Slots -> 0 .. MaxSends]
    BY <1>1, <1>3, <1>4 DEF IInv, TypeOK, Enqueue
  <2>5. TypeOK'
    BY <1>1, <1>3, <2>1, <2>3, <2>4, AdvanceValue
       DEF IInv, TypeOK, sys_event_port_send, threads
  <2>6. ClaimsBacked'
    <3>1. avail + Cardinality(Claims) = cnt
      BY DEF IInv, ClaimsBacked
    <3>2. avail' + Cardinality(Claims) = cnt'
      <4> DEFINE c == Cardinality(Claims)
      <4>1. c \in Nat /\ avail \in Nat /\ avail' = avail + 1 /\ cnt' = cnt + 1
        BY <1>1, <2>1, <2>3, ClaimsFinite
      <4> HIDE DEF c
      <4>2. avail + c = cnt => avail' + c = cnt'
        BY <4>1
      <4> QED BY <3>1, <4>2 DEF c
    <3> QED BY <1>2, <3>2 DEF ClaimsBacked
  <2>7. TailFollows'
    BY <1>1, <2>1, AdvanceValue DEF IInv, TailFollows, Slots
  <2> QED BY <2>5, <2>6, <2>7 DEF IInv
<1>5. CASE Drop
  BY <1>2, <1>3, <1>5 DEF IInv, TypeOK, ClaimsBacked, TailFollows, Drop, ring,
                          sys_event_port_send, threads
<1> QED BY <1>4, <1>5 DEF sys_event_port_send

\* The semaphore gives a thread its claim.
LEMMA ClaimIInv ==
  ASSUME IInv, NEW t \in Threads, pc[t] # "take",
         avail > 0, avail' = avail - 1, pc' = [pc EXCEPT ![t] = "take"],
         UNCHANGED <<ring, infinite, out, sends>>
  PROVE  IInv'
<1>1. Claims' = Claims \cup {t} /\ t \notin Claims
  BY ClaimsChange DEF IInv, Claims
<1>2. Cardinality(Claims') = Cardinality(Claims) + 1
  BY <1>1, ClaimsFinite, FS_AddElement
<1>3. TypeOK'
  BY DEF IInv, TypeOK, ring
<1>4. ClaimsBacked'
  BY <1>2, ClaimsFinite DEF IInv, TypeOK, ClaimsBacked, ring
<1>5. TailFollows'
  BY DEF IInv, TailFollows, ring
<1> QED BY <1>3, <1>4, <1>5 DEF IInv

\* Steps that touch neither the ring nor the semaphore nor a claim.
LEMMA NoClaimIInv ==
  ASSUME IInv, NEW t \in Threads, pc[t] # "take", NEW p \in {"idle", "wait"},
         pc' = [pc EXCEPT ![t] = p],
         infinite' \in [Threads -> BOOLEAN], out' \in [Threads -> 0 .. MaxSends],
         UNCHANGED <<ring, avail, sends>>
  PROVE  IInv'
<1>1. Claims' = Claims
  BY ClaimsChange DEF IInv, Claims
<1> QED BY <1>1 DEF IInv, TypeOK, ClaimsBacked, TailFollows, ring

LEMMA DequeueIInv ==
  ASSUME IInv, NEW t \in Threads, Dequeue(t)
  PROVE  IInv'
<1> USE Capacity
<1>1. /\ head \in Slots /\ tail \in Slots
      /\ cnt \in 0 .. EVQ_CAP /\ avail \in Nat
  BY DEF IInv, TypeOK
<1>2. cnt > 0
  BY TakerFindsEvent DEF Dequeue
<1>3. Claims' = Claims \ {t} /\ t \in Claims
  BY ClaimsChange DEF IInv, Dequeue, Claims
<1>4. Cardinality(Claims') = Cardinality(Claims) - 1
  BY <1>3, ClaimsFinite, FS_RemoveElement
<1>5. head' = Advance(head) /\ cnt' = cnt - 1 /\ tail' = tail /\ avail' = avail
  BY DEF Dequeue
<1>6. TypeOK'
  BY <1>1, <1>2, <1>5, AdvanceValue DEF IInv, TypeOK, Dequeue
<1>7. ClaimsBacked'
  BY <1>1, <1>4, <1>5, ClaimsFinite DEF IInv, ClaimsBacked
<1>8. TailFollows'
  BY <1>1, <1>2, <1>5, AdvanceValue DEF IInv, TailFollows, Slots
<1> QED BY <1>6, <1>7, <1>8 DEF IInv

LEMMA NextIInv == IInv /\ [Next]_vars => IInv'
<1> SUFFICES ASSUME IInv, [Next]_vars PROVE IInv'
  OBVIOUS
<1>1. ASSUME NEW t \in Threads, sys_event_port_send(t) PROVE IInv'
  BY <1>1, EnqueueIInv
<1>2. ASSUME NEW t \in Threads, NEW inf \in BOOLEAN, sys_event_queue_receive(t, inf)
      PROVE  IInv'
  <2>1. infinite' \in [Threads -> BOOLEAN] /\ out' \in [Threads -> 0 .. MaxSends]
    BY <1>2 DEF sys_event_queue_receive, IInv, TypeOK
  <2> QED BY <1>2, <2>1, NoClaimIInv DEF sys_event_queue_receive
<1>3. ASSUME NEW t \in Threads, WaitReturns(t) PROVE IInv'
  BY <1>3, ClaimIInv DEF WaitReturns, Acquire
<1>4. ASSUME NEW t \in Threads, WaitTimesOut(t) PROVE IInv'
  <2>1. infinite' \in [Threads -> BOOLEAN] /\ out' \in [Threads -> 0 .. MaxSends]
    BY <1>4, Capacity DEF WaitTimesOut, IInv, TypeOK
  <2> QED BY <1>4, <2>1, NoClaimIInv DEF WaitTimesOut, TimedOut
<1>5. ASSUME NEW t \in Threads, sys_event_queue_tryreceive(t) PROVE IInv'
  <2>1. CASE avail > 0
    BY <1>5, <2>1, ClaimIInv DEF sys_event_queue_tryreceive, IInv, TypeOK
  <2>2. CASE ~(avail > 0)
    <3>1. /\ pc' = pc /\ avail' = avail
          /\ out' \in [Threads -> 0 .. MaxSends]
      BY <1>5, <2>2, Capacity DEF sys_event_queue_tryreceive, IInv, TypeOK
    <3> QED BY <1>5, <3>1 DEF sys_event_queue_tryreceive, IInv, TypeOK, ClaimsBacked,
                              TailFollows, Claims, ring
  <2> QED BY <2>1, <2>2
<1>6. ASSUME NEW t \in Threads, Dequeue(t) PROVE IInv'
  BY <1>6, DequeueIInv
<1>7. CASE UNCHANGED vars
  BY <1>7 DEF vars, ring, threads, IInv, TypeOK, ClaimsBacked, TailFollows, Claims
<1> QED BY <1>1, <1>2, <1>3, <1>4, <1>5, <1>6, <1>7 DEF Next

LEMMA Invariance == Spec => []IInv
<1> QED BY InitIInv, NextIInv, PTL DEF Spec

\* The ring's indices and count stay in the buffer, for every capacity
\* (runtime_glue.cpp:1594-1596, 1663-1666).
THEOREM TypeCorrect == Spec => []TypeOK
<1>1. IInv => TypeOK
  BY DEF IInv
<1> QED BY <1>1, Invariance, PTL

\* The semaphore and the receivers past it never promise an event that is not in
\* the ring (runtime_glue.cpp:1590-1597, 1662-1668).
THEOREM EveryClaimBacked == Spec => []ClaimsBacked
<1>1. IInv => ClaimsBacked
  BY DEF IInv
<1> QED BY <1>1, Invariance, PTL
-----------------------------------------------------------------------------
(***************************************************************************)
(* The refinement.  Queued is a function over 1..cnt into the ring; the    *)
(* lemmas below show that an enqueue appends to it and a dequeue removes   *)
(* its head.                                                               *)
(***************************************************************************)

\* Where the i-th event after index h sits.
Place(h, i) == IF h + i - 1 < EVQ_CAP THEN h + i - 1 ELSE h + i - 1 - EVQ_CAP

LEMMA PlaceValue ==
  ASSUME NEW h \in Slots, NEW i \in 1 .. EVQ_CAP
  PROVE  Place(h, i) \in Slots /\ (h + i - 1) % EVQ_CAP = Place(h, i)
<1> DEFINE j == h + i - 1
<1>1. j \in 0 .. 2 * EVQ_CAP - 1
  BY Capacity DEF Slots
<1>2. j % EVQ_CAP = IF j < EVQ_CAP THEN j ELSE j - EVQ_CAP
  <2> HIDE DEF j
  <2> QED BY <1>1, RingWraps
<1> QED BY <1>2, Capacity DEF Place, Slots

LEMMA SeqOfFunction ==
  ASSUME NEW S, NEW n \in Nat, NEW f \in [1 .. n -> S]
  PROVE  f \in Seq(S) /\ Len(f) = n
<1>1. Seq(S) = UNION {[1 .. m -> S] : m \in Nat}
  BY SeqDef
<1>2. f \in Seq(S)
  BY <1>1
<1>3. 1 .. Len(f) = 1 .. n /\ Len(f) \in Nat
  BY <1>2, LenProperties
<1> QED BY <1>2, <1>3

\* RingSeq(b, h, n) is a sequence of length n over S, element i at Place(h, i).
RingFacts(S, b, h, n) == /\ RingSeq(b, h, n) \in Seq(S)
                         /\ Len(RingSeq(b, h, n)) = n
                         /\ \A i \in 1 .. n : RingSeq(b, h, n)[i] = b[Place(h, i)]

LEMMA RingIsSeq ==
  ASSUME NEW S, NEW b \in [Slots -> S], NEW h \in Slots, NEW n \in 0 .. EVQ_CAP
  PROVE  RingFacts(S, b, h, n)
<1>1. n \in Nat /\ 1 .. n \subseteq 1 .. EVQ_CAP
  BY Capacity
<1>2. \A i \in 1 .. n : /\ b[(h + i - 1) % EVQ_CAP] = b[Place(h, i)]
                        /\ b[(h + i - 1) % EVQ_CAP] \in S
  BY <1>1, PlaceValue
<1>3. RingSeq(b, h, n) \in [1 .. n -> S]
  BY <1>2 DEF RingSeq
<1>4. \A i \in 1 .. n : RingSeq(b, h, n)[i] = b[Place(h, i)]
  BY <1>2 DEF RingSeq
<1> QED BY <1>1, <1>3, <1>4, SeqOfFunction DEF RingFacts

\* Storing at the first free index appends.
StoredAtEnd(b, h, n, e) == RingSeq([b EXCEPT ![Place(h, n + 1)] = e], h, n + 1)
                             = Append(RingSeq(b, h, n), e)

LEMMA StoreAppends ==
  ASSUME NEW S, NEW b \in [Slots -> S], NEW h \in Slots, NEW n \in 0 .. EVQ_CAP - 1,
         NEW e \in S
  PROVE  StoredAtEnd(b, h, n, e)
<1> USE Capacity
<1> DEFINE c == [b EXCEPT ![Place(h, n + 1)] = e]
           s == RingSeq(b, h, n)
           r == RingSeq(c, h, n + 1)
<1>1. n \in 0 .. EVQ_CAP /\ n + 1 \in 1 .. EVQ_CAP /\ n + 1 \in 0 .. EVQ_CAP
  OBVIOUS
<1>2. Place(h, n + 1) \in Slots /\ c \in [Slots -> S]
  BY <1>1, PlaceValue
<1>3. s \in Seq(S) /\ Len(s) = n /\ \A i \in 1 .. n : s[i] = b[Place(h, i)]
  <2>1. RingFacts(S, b, h, n)
    BY <1>1, RingIsSeq
  <2> QED BY <2>1 DEF RingFacts
<1>4. r \in Seq(S) /\ Len(r) = n + 1 /\ \A i \in 1 .. n + 1 : r[i] = c[Place(h, i)]
  <2>1. RingFacts(S, c, h, n + 1)
    BY <1>1, <1>2, RingIsSeq
  <2> QED BY <2>1 DEF RingFacts
<1>5. \A i \in 1 .. n : Place(h, i) \in Slots /\ Place(h, i) # Place(h, n + 1)
  BY <1>1, PlaceValue DEF Place, Slots
<1>6. \A i \in 1 .. n : r[i] = s[i]
  <2> SUFFICES ASSUME NEW i \in 1 .. n PROVE r[i] = s[i]
    OBVIOUS
  <2>1. i \in 1 .. n + 1
    OBVIOUS
  <2>2. c[Place(h, i)] = b[Place(h, i)]
    BY <1>5
  <2> HIDE DEF c, s, r
  <2> QED BY <1>3, <1>4, <2>1, <2>2
<1>7. r[n + 1] = e
  <2>1. c[Place(h, n + 1)] = e
    BY <1>2
  <2>2. n + 1 \in 1 .. n + 1
    OBVIOUS
  <2> HIDE DEF c, s, r
  <2> QED BY <1>4, <2>1, <2>2
<1>8. /\ Append(s, e) \in Seq(S) /\ Len(Append(s, e)) = n + 1
      /\ \A i \in 1 .. n : Append(s, e)[i] = s[i]
      /\ Append(s, e)[n + 1] = e
  BY <1>3, AppendProperties
<1> HIDE DEF c, s, r
<1>9. \A i \in 1 .. Len(r) : r[i] = Append(s, e)[i]
  BY <1>1, <1>4, <1>6, <1>7, <1>8
<1>10. r = Append(s, e)
  BY <1>4, <1>8, <1>9, SeqEqual
<1> QED BY <1>10 DEF c, s, r, StoredAtEnd

\* Advancing the head drops the oldest event.
LEMMA AdvanceDropsHead ==
  ASSUME NEW S, NEW b \in [Slots -> S], NEW h \in Slots, NEW n \in 1 .. EVQ_CAP
  PROVE  /\ RingSeq(b, h, n) # <<>>
         /\ Head(RingSeq(b, h, n)) = b[h]
         /\ RingSeq(b, Advance(h), n - 1) = Tail(RingSeq(b, h, n))
<1> USE Capacity
<1> DEFINE s == RingSeq(b, h, n)
           r == RingSeq(b, Advance(h), n - 1)
<1>1. n \in 0 .. EVQ_CAP /\ n - 1 \in 0 .. EVQ_CAP /\ n - 1 \in Nat
  OBVIOUS
<1>2. s \in Seq(S) /\ Len(s) = n /\ \A i \in 1 .. n : s[i] = b[Place(h, i)]
  <2>1. RingFacts(S, b, h, n)
    BY <1>1, RingIsSeq
  <2> QED BY <2>1 DEF RingFacts
<1>3. Advance(h) \in Slots
  BY AdvanceValue
<1>4. /\ r \in Seq(S) /\ Len(r) = n - 1
      /\ \A i \in 1 .. n - 1 : r[i] = b[Place(Advance(h), i)]
  <2>1. RingFacts(S, b, Advance(h), n - 1)
    BY <1>1, <1>3, RingIsSeq
  <2> QED BY <2>1 DEF RingFacts
<1>5. \A i \in 1 .. n - 1 : Place(Advance(h), i) = Place(h, i + 1)
  <2> DEFINE g == Advance(h)
  <2>1. g = IF h + 1 < EVQ_CAP THEN h + 1 ELSE h + 1 - EVQ_CAP
    BY AdvanceValue
  <2> HIDE DEF g
  <2>2. \A i \in 1 .. n - 1 : Place(g, i) = Place(h, i + 1)
    BY <2>1 DEF Place, Slots
  <2> QED BY <2>2 DEF g
<1>6. \A i \in 1 .. n - 1 : r[i] = s[i + 1]
  <2> SUFFICES ASSUME NEW i \in 1 .. n - 1 PROVE r[i] = s[i + 1]
    OBVIOUS
  <2>1. i + 1 \in 1 .. n
    OBVIOUS
  <2> HIDE DEF s, r
  <2> QED BY <1>2, <1>4, <1>5, <2>1
<1>7. Place(h, 1) = h
  BY DEF Place, Slots
<1>8. s # <<>>
  BY <1>2
<1>9. Head(s) = b[h]
  BY <1>1, <1>2, <1>7, <1>8
<1>10. /\ Tail(s) \in Seq(S) /\ Len(Tail(s)) = n - 1
       /\ \A i \in 1 .. n - 1 : Tail(s)[i] = s[i + 1]
  BY <1>2, <1>8, HeadTailProperties
<1> HIDE DEF s, r
<1>11. r = Tail(s)
  BY <1>4, <1>6, <1>10, SeqEqual
<1> QED BY <1>8, <1>9, <1>11 DEF s, r
-----------------------------------------------------------------------------
LEMMA SameCardinality == \A S : Fifo!Cardinality(S) = Cardinality(S)
BY DEF Fifo!Cardinality, Cardinality

LEMMA QueuedLength ==
  ASSUME IInv
  PROVE  Len(Queued) = cnt
<1>1. RingFacts(0 .. MaxSends, buf, head, cnt)
  BY RingIsSeq DEF IInv, TypeOK
<1> QED BY <1>1 DEF RingFacts, Queued

LEMMA SendSends ==
  ASSUME IInv, NEW t \in Threads, sys_event_port_send(t)
  PROVE  Fifo!Send
<1> USE Capacity
<1>1. /\ buf \in [Slots -> 0 .. MaxSends] /\ head \in Slots
      /\ cnt \in 0 .. EVQ_CAP /\ sends + 1 \in 0 .. MaxSends
  BY DEF IInv, TypeOK, sys_event_port_send
<1>2. Claims' = Claims /\ out' = out /\ sends' = sends + 1
  BY DEF sys_event_port_send, threads, Claims
<1>3. CASE Enqueue(sends + 1)
  <2>1. cnt \in 0 .. EVQ_CAP - 1
    BY <1>1, <1>3 DEF Enqueue, HasRoom
  <2>2. tail = Place(head, cnt + 1)
    BY <1>1 DEF IInv, TailFollows, Place, Slots
  <2>3. Queued' = RingSeq([buf EXCEPT ![Place(head, cnt + 1)] = sends + 1], head, cnt + 1)
    BY <1>3, <2>2 DEF Queued, Enqueue, RingSeq
  <2>4. Queued' = Append(Queued, sends + 1)
    <3> DEFINE e == sends + 1
    <3>1. e \in 0 .. MaxSends
      BY <1>1
    <3>2. Queued' = RingSeq([buf EXCEPT ![Place(head, cnt + 1)] = e], head, cnt + 1)
      BY <2>3
    <3>3. buf \in [Slots -> 0 .. MaxSends] /\ head \in Slots
      BY <1>1
    <3> HIDE DEF e
    <3>4. StoredAtEnd(buf, head, cnt, e)
      BY <2>1, <3>1, <3>3, StoreAppends
    <3> QED BY <3>2, <3>4 DEF e, Queued, StoredAtEnd
  <2> QED BY <1>2, <2>1, <2>4, QueuedLength DEF Fifo!Send
<1>4. CASE Drop
  <2>1. Queued' = Queued
    BY <1>4 DEF Drop, ring, Queued, RingSeq
  <2> QED BY <1>1, <1>2, <1>4, <2>1, QueuedLength DEF Fifo!Send, Drop, HasRoom
<1> QED BY <1>3, <1>4 DEF sys_event_port_send

LEMMA ClaimClaims ==
  ASSUME IInv, NEW t \in Threads, pc[t] # "take", avail > 0,
         pc' = [pc EXCEPT ![t] = "take"], UNCHANGED <<ring, out, sends>>
  PROVE  Fifo!Claim(t)
<1>1. Claims' = Claims \cup {t} /\ t \notin Claims
  BY ClaimsChange DEF IInv, Claims
<1>2. Cardinality(Claims) < Len(Queued)
  BY ClaimsFinite, QueuedLength DEF IInv, TypeOK, ClaimsBacked
<1>3. Queued' = Queued
  BY DEF ring, Queued, RingSeq
<1> QED BY <1>1, <1>2, <1>3, SameCardinality DEF Fifo!Claim

LEMMA EmptyGivesUp ==
  ASSUME IInv, NEW t \in Threads, pc[t] # "take", avail = 0, Claims' = Claims,
         out' = [out EXCEPT ![t] = 0], UNCHANGED <<ring, sends>>
  PROVE  Fifo!GiveUp(t)
<1>1. Cardinality(Claims) = Len(Queued)
  BY ClaimsFinite, QueuedLength DEF IInv, TypeOK, ClaimsBacked
<1>2. Queued' = Queued
  BY DEF ring, Queued, RingSeq
<1> QED BY <1>1, <1>2, SameCardinality DEF Fifo!GiveUp, Claims

LEMMA DequeueTakes ==
  ASSUME IInv, NEW t \in Threads, Dequeue(t)
  PROVE  Fifo!Take(t)
<1>1. /\ buf \in [Slots -> 0 .. MaxSends] /\ head \in Slots
      /\ cnt \in 1 .. EVQ_CAP
  BY TakerFindsEvent, Capacity DEF IInv, TypeOK, Dequeue
<1>2. t \in Claims /\ Claims' = Claims \ {t}
  BY ClaimsChange DEF IInv, Dequeue, Claims
<1>3. Queued # <<>> /\ Head(Queued) = buf[head]
  BY <1>1, AdvanceDropsHead DEF Queued
<1>4. Queued' = RingSeq(buf, Advance(head), cnt - 1)
  BY DEF Queued, Dequeue, RingSeq
<1>5. Queued' = Tail(Queued)
  BY <1>1, <1>4, AdvanceDropsHead DEF Queued
<1> QED BY <1>2, <1>3, <1>5 DEF Fifo!Take, Dequeue

\* Every behaviour of the queue is one of a bounded FIFO that loses events only
\* when full and hands each out once (runtime_glue.cpp:1581-1627, 1654-1674).
THEOREM QueueImplementsFifo == Spec => Refinement
<1>1. Init => Fifo!Init
  <2> SUFFICES ASSUME Init PROVE Fifo!Init
    OBVIOUS
  <2>1. Queued = <<>>
    BY DEF Init, Queued, RingSeq
  <2> QED BY <2>1 DEF Init, Fifo!Init, Claims
<1>2. IInv /\ [Next]_vars => [Fifo!Next]_(Fifo!vars)
  <2> SUFFICES ASSUME IInv, [Next]_vars PROVE [Fifo!Next]_(Fifo!vars)
    OBVIOUS
  <2>1. ASSUME NEW t \in Threads, sys_event_port_send(t) PROVE Fifo!Next
    BY <2>1, SendSends DEF Fifo!Next
  <2>2. ASSUME NEW t \in Threads, NEW inf \in BOOLEAN, sys_event_queue_receive(t, inf)
        PROVE  UNCHANGED Fifo!vars
    BY <2>2 DEF sys_event_queue_receive, Fifo!vars, ring, Queued, RingSeq, Claims,
                IInv, TypeOK
  <2>3. ASSUME NEW t \in Threads, WaitReturns(t) PROVE Fifo!Next
    BY <2>3, ClaimClaims DEF WaitReturns, Acquire, Fifo!Next
  <2>4. ASSUME NEW t \in Threads, WaitTimesOut(t) PROVE Fifo!Next
    <3>1. Claims' = Claims
      BY <2>4, ClaimsChange DEF WaitTimesOut, TimedOut, IInv, Claims
    <3> QED BY <2>4, <3>1, EmptyGivesUp DEF WaitTimesOut, TimedOut, Fifo!Next
  <2>5. ASSUME NEW t \in Threads, sys_event_queue_tryreceive(t) PROVE Fifo!Next
    <3>1. CASE avail > 0
      BY <2>5, <3>1, ClaimClaims DEF sys_event_queue_tryreceive, Fifo!Next
    <3>2. CASE ~(avail > 0)
      <4>1. Claims' = Claims
        BY <2>5, <3>2 DEF sys_event_queue_tryreceive, Claims
      <4> QED BY <2>5, <3>2, <4>1, EmptyGivesUp DEF sys_event_queue_tryreceive, Fifo!Next
    <3> QED BY <3>1, <3>2
  <2>6. ASSUME NEW t \in Threads, Dequeue(t) PROVE Fifo!Next
    BY <2>6, DequeueTakes DEF Fifo!Next
  <2>7. CASE UNCHANGED vars
    BY <2>7 DEF vars, ring, threads, Fifo!vars, Queued, RingSeq, Claims
  <2> QED BY <2>1, <2>2, <2>3, <2>4, <2>5, <2>6, <2>7 DEF Next
<1> QED BY <1>1, <1>2, Invariance, PTL DEF Spec, Refinement, Fifo!Spec
=============================================================================
