--------------------------- MODULE Lv2Calls_proofs ---------------------------
(***************************************************************************)
(* Machine-checked proofs about the LV2 object pool, the objects and the   *)
(* calls on them, for every table size, every set of kinds and of threads, *)
(* and every capacity.                                                     *)
(*                                                                         *)
(* The inductive invariant says of an id that was never misused what its   *)
(* owner may rely on: whoever holds a pointer to its slot finds the kind   *)
(* of object it looked for, and is alone with it while it is created or    *)
(* destroyed.  What is undefined can then only happen to misused ids.      *)
(***************************************************************************)
EXTENDS Lv2Calls, Timeouts, FiniteSetTheorems, TLAPS

(***************************************************************************)
(* The pool alone.                                                         *)
(***************************************************************************)
\* Wrapping an index at most once around a table of M slots takes M away when it
\* is past the end (the % of runtime_glue.cpp:260, 264).
LEMMA WrapOnce ==
  ASSUME NEW M \in Nat \ {0}, NEW x \in 0 .. 2 * M - 1
  PROVE  x % M = IF x < M THEN x ELSE x - M
<1>1. CASE x < M
  BY <1>1
<1>2. CASE x >= M
  <2>1. x - M \in 0 .. M - 1
    BY <1>2
  <2>2. x = M * 1 + (x - M)
    OBVIOUS
  <2> QED BY <1>2, <2>1, <2>2
<1> QED BY <1>1, <1>2

LEMMA NIsPositive == N \in Nat \ {0} /\ Ids = 1 .. N
  BY PoolAssumption DEF N, Ids

\* What the search index is, without the modulo.
LEMMA ProbeValue ==
  ASSUME g_pool_cursor \in Ids, NEW i \in Iterations
  PROVE  Probe(i) = IF g_pool_cursor + i <= N THEN g_pool_cursor + i
                    ELSE g_pool_cursor + i - N
<1> DEFINE s == g_pool_cursor - 1 + i
<1>1. s \in 0 .. 2 * N - 1
  BY NIsPositive DEF Iterations
<1>2. ASSUME NEW x \in 0 .. 2 * N - 1 PROVE x % N = IF x < N THEN x ELSE x - N
  BY NIsPositive, WrapOnce
<1>3. s % N = IF s < N THEN s ELSE s - N
  <2> HIDE DEF s
  <2> QED BY <1>1, <1>2
<1> QED BY <1>3, NIsPositive DEF Probe, Iterations

LEMMA NextCursorValue ==
  ASSUME NEW id \in Ids
  PROVE  NextCursor(id) = IF id = N THEN 1 ELSE id + 1
<1>1. id \in 0 .. 2 * N - 1
  BY NIsPositive
<1>2. id % N = IF id < N THEN id ELSE id - N
  BY <1>1, NIsPositive, WrapOnce
<1> QED BY <1>1, <1>2, NIsPositive DEF NextCursor

\* The search looks at every slot, at iteration Distance(id).
LEMMA ProbeOnto ==
  ASSUME g_pool_cursor \in Ids, NEW id \in Ids
  PROVE  Distance(id) \in Iterations /\ Probe(Distance(id)) = id
<1>1. Distance(id) \in Iterations
  BY NIsPositive DEF Distance, Iterations
<1> QED BY <1>1, ProbeValue, NIsPositive DEF Distance

LEMMA ProbeDistance ==
  ASSUME g_pool_cursor \in Ids, NEW i \in Iterations
  PROVE  Probe(i) \in Ids /\ Distance(Probe(i)) = i
BY ProbeValue, NIsPositive DEF Distance, Iterations

\* The search stops at the free slot nearest to the cursor.
LEMMA TakesNearest ==
  ASSUME g_pool_cursor \in Ids, NEW i \in Iterations, FirstFree(i),
         NEW y \in Ids, IsFree(y), y # Probe(i)
  PROVE  i < Distance(y)
<1>1. Distance(y) \in Iterations /\ Probe(Distance(y)) = y
  BY ProbeOnto
<1>2. ~(Distance(y) \in 0 .. i - 1)
  BY <1>1 DEF FirstFree
<1>3. Distance(y) # i
  BY <1>1
<1> QED BY <1>1, <1>2, <1>3, NIsPositive DEF Iterations
-----------------------------------------------------------------------------
\* A slot in use has been overtaken by nobody: its history starts when it is freed.
LiveNotOvertaken == \A y \in Ids : ~IsFree(y) => passed[y] = {}

\* The inductive invariant.
IInv == TypeOK /\ LiveNotOvertaken /\ WaitingFirst

LEMMA InitIInv == Init => IInv
<1> SUFFICES ASSUME Init PROVE IInv
  OBVIOUS
<1>1. TypeOK
  BY NIsPositive DEF Init, TypeOK
<1>2. LiveNotOvertaken /\ WaitingFirst
  BY DEF Init, LiveNotOvertaken, WaitingFirst, IsFree
<1> QED BY <1>1, <1>2 DEF IInv

\* pool_alloc found a slot.
AllocAt(k, i) == /\ FirstFree(i)
                 /\ kind' = [kind EXCEPT ![Probe(i)] = k]
                 /\ g_pool_cursor' = NextCursor(Probe(i))
                 /\ ret' = Probe(i)
                 /\ passed' = Overtaken(Probe(i))
                 /\ UNCHANGED found

AllocFull == /\ \A i \in Iterations : ~IsFree(Probe(i))
             /\ ret' = 0
             /\ UNCHANGED <<kind, g_pool_cursor, found, passed>>

LEMMA AllocCases ==
  ASSUME NEW k \in Kinds, pool_alloc(k)
  PROVE  AllocFull \/ \E i \in Iterations : AllocAt(k, i)
BY DEF pool_alloc, TakeSlot, PoolFull, AllocFull, AllocAt

\* Arithmetic of the next lemma: the cursor c moves just behind the slot p that the
\* i-th iteration took; the slots up to p move to the far end.
LEMMA CursorMoves ==
  ASSUME NEW n \in Nat \ {0}, NEW c \in 1 .. n, NEW i \in 0 .. n - 1, NEW z \in 1 .. n,
         NEW p, p = (IF c + i <= n THEN c + i ELSE c + i - n),
         NEW e, e = (IF p = n THEN 1 ELSE p + 1),
         NEW d, d = (IF z >= c THEN z - c ELSE z - c + n)
  PROVE  (IF z >= e THEN z - e ELSE z - e + n)
           = IF i < d THEN d - i - 1 ELSE d - i - 1 + n
<1>1. CASE c + i < n
  <2>1. e = c + i + 1
    BY <1>1
  <2> QED BY <1>1, <2>1
<1>2. CASE c + i = n
  <2>1. e = 1
    BY <1>2
  <2> QED BY <1>2, <2>1
<1>3. CASE c + i > n
  <2>1. e = c + i - n + 1
    BY <1>3
  <2> QED BY <1>3, <2>1
<1> QED BY <1>1, <1>2, <1>3

LEMMA AllocAtIInv ==
  ASSUME IInv, NEW k \in Kinds, NEW i \in Iterations, AllocAt(k, i)
  PROVE  IInv'
<1> DEFINE id == Probe(i)
<1>0. /\ g_pool_cursor \in Ids
      /\ id \in Ids
      /\ Distance(id) = i
  BY ProbeDistance DEF IInv, TypeOK
<1>1. g_pool_cursor' = IF id = N THEN 1 ELSE id + 1
  BY <1>0, NextCursorValue DEF AllocAt
<1>2. \A z \in Ids : IsFree(z)' <=> IsFree(z) /\ z # id
  BY <1>0, PoolAssumption DEF AllocAt, IsFree, IInv, TypeOK, FirstFree
<1>3. TypeOK'
  <2>1. kind' \in [Ids -> Kinds \cup {LV2_FREE}]
    BY DEF AllocAt, IInv, TypeOK
  <2>2. g_pool_cursor' \in Ids /\ ret' \in Ids \cup {0} /\ found' \in Ids \cup {0}
    BY <1>0, <1>1, NIsPositive DEF AllocAt, IInv, TypeOK
  <2>3. passed' \in [Ids -> SUBSET Ids]
    BY <1>0 DEF AllocAt, Overtaken, IInv, TypeOK
  <2> QED BY <2>1, <2>2, <2>3 DEF TypeOK
<1>4. LiveNotOvertaken'
  BY <1>2 DEF LiveNotOvertaken, AllocAt, Overtaken
<1>5. WaitingFirst'
  <2> SUFFICES ASSUME NEW y \in Ids, IsFree(y)', NEW x \in passed'[y]
               PROVE  Distance(y)' < Distance(x)'
    BY DEF WaitingFirst
  <2>1. IsFree(y) /\ y # id
    BY <1>2
  <2>2. i < Distance(y)
    BY <2>1, <1>0, TakesNearest DEF AllocAt
  <2>3. x \in passed[y] \cup {id}
    BY <2>1 DEF AllocAt, Overtaken
  <2>4. x \in Ids
    BY <2>3, <1>0 DEF IInv, TypeOK
  <2>5. x = id \/ Distance(y) < Distance(x)
    BY <2>1, <2>3 DEF IInv, WaitingFirst
  <2>6. \A z \in Ids : Distance(z)' = IF i < Distance(z) THEN Distance(z) - i - 1
                                      ELSE Distance(z) - i - 1 + N
    <3> SUFFICES ASSUME NEW z \in Ids
                 PROVE  Distance(z)' = IF i < Distance(z) THEN Distance(z) - i - 1
                                       ELSE Distance(z) - i - 1 + N
      OBVIOUS
    <3>1. Distance(z)' = IF z >= g_pool_cursor' THEN z - g_pool_cursor'
                         ELSE z - g_pool_cursor' + N
      BY DEF Distance, N
    <3>2. id = IF g_pool_cursor + i <= N THEN g_pool_cursor + i ELSE g_pool_cursor + i - N
      BY <1>0, ProbeValue
    <3> HIDE DEF id
    <3>3. /\ N \in Nat \ {0} /\ g_pool_cursor \in 1 .. N
          /\ i \in 0 .. N - 1 /\ z \in 1 .. N
      BY <1>0, NIsPositive DEF Iterations
    <3> QED BY <1>1, <3>1, <3>2, <3>3, CursorMoves DEF Distance
  <2>7. Distance(y) \in 0 .. N - 1 /\ Distance(x) \in 0 .. N - 1
    BY <1>0, <2>4, ProbeOnto DEF Iterations
  <2> QED BY <1>0, <2>2, <2>4, <2>5, <2>6, <2>7, NIsPositive DEF Iterations
<1> QED BY <1>3, <1>4, <1>5 DEF IInv

LEMMA FreeIInv ==
  ASSUME IInv, NEW id \in GuestIds, pool_free(id)
  PROVE  IInv'
<1>1. TypeOK'
  BY DEF pool_free, IInv, TypeOK
<1>2. \A z \in Ids : IsFree(z)' <=> IsFree(z) \/ z = id
  BY DEF pool_free, IsFree, IInv, TypeOK
<1>3. LiveNotOvertaken'
  BY <1>2 DEF LiveNotOvertaken, pool_free, IInv
<1>4. WaitingFirst'
  <2> SUFFICES ASSUME NEW y \in Ids, IsFree(y)', NEW x \in passed[y]
               PROVE  Distance(y) < Distance(x)
    BY DEF WaitingFirst, pool_free, Distance
  <2>1. IsFree(y)
    BY <1>2 DEF IInv, LiveNotOvertaken
  <2> QED BY <2>1 DEF IInv, WaitingFirst
<1> QED BY <1>1, <1>3, <1>4 DEF IInv

LEMMA SameTableIInv ==
  ASSUME IInv, ret' \in Ids \cup {0}, found' \in Ids \cup {0},
         UNCHANGED <<kind, g_pool_cursor, passed>>
  PROVE  IInv'
BY DEF IInv, TypeOK, LiveNotOvertaken, WaitingFirst, IsFree, Distance

LEMMA NextIInv == IInv /\ [Next]_vars => IInv'
<1> SUFFICES ASSUME IInv, [Next]_vars PROVE IInv'
  OBVIOUS
<1>1. ASSUME NEW k \in Kinds, pool_alloc(k) PROVE IInv'
  <2>1. CASE AllocFull
    BY <2>1, SameTableIInv DEF AllocFull, IInv, TypeOK
  <2>2. CASE \E i \in Iterations : AllocAt(k, i)
    BY <2>2, AllocAtIInv
  <2> QED BY <1>1, <2>1, <2>2, AllocCases
<1>2. ASSUME NEW id \in GuestIds, pool_free(id) PROVE IInv'
  BY <1>2, FreeIInv
<1>3. ASSUME NEW id \in GuestIds, NEW k \in Kinds, pool_get(id, k) PROVE IInv'
  <2>1. ret' \in Ids \cup {0} /\ found' \in Ids \cup {0}
    BY <1>3 DEF pool_get, IInv, TypeOK
  <2> QED BY <1>3, <2>1, SameTableIInv DEF pool_get
<1>4. CASE UNCHANGED vars
  BY <1>4, SameTableIInv DEF vars, IInv, TypeOK
<1> QED BY <1>1, <1>2, <1>3, <1>4 DEF Next

LEMMA Invariance == Spec => []IInv
<1> QED BY InitIInv, NextIInv, PTL DEF Spec

\* The cursor stays in the table and every returned id is 0 or a slot, for every
\* table size (pool_alloc, pool_free, pool_get: runtime_glue.cpp:257-285).
THEOREM PoolTypeCorrect == Spec => []TypeOK
<1>1. IInv => TypeOK
  BY DEF IInv
<1> QED BY <1>1, Invariance, PTL

\* A waiting slot is always nearer to the cursor than the slots handed out while
\* it waited (the probe order of runtime_glue.cpp:259-264).
THEOREM WaitingComesFirst == Spec => []WaitingFirst
<1>1. IInv => WaitingFirst
  BY DEF IInv
<1> QED BY <1>1, Invariance, PTL

\* No id is handed out twice while another id stays free (runtime_glue.cpp:257-272).
THEOREM ReuseIsRoundRobin == Spec => RoundRobin
<1> DEFINE Fair == \A x, y \in Ids : HandedOut(x) /\ x # y /\ IsFree(y) => x \notin passed[y]
<1>1. IInv /\ [Next]_vars => [Fair]_vars
  <2> SUFFICES ASSUME IInv, [Next]_vars,
                      NEW x \in Ids, NEW y \in Ids, HandedOut(x), x # y, IsFree(y)
               PROVE  x \notin passed[y]
    OBVIOUS
  <2>1. ASSUME NEW k \in Kinds, NEW i \in Iterations, AllocAt(k, i)
        PROVE  x \notin passed[y]
    <3>1. g_pool_cursor \in Ids
      BY DEF IInv, TypeOK
    <3>2. x = Probe(i) /\ Distance(x) = i
      BY <2>1, <3>1, ProbeDistance DEF AllocAt, HandedOut, IsFree, IInv, TypeOK
    <3>3. i < Distance(y)
      BY <2>1, <3>1, <3>2, TakesNearest DEF AllocAt
    <3>4. Distance(y) \in 0 .. N - 1
      BY <3>1, ProbeOnto DEF Iterations
    <3>5. x \in passed[y] => Distance(y) < Distance(x)
      BY DEF IInv, WaitingFirst
    <3> QED BY <3>2, <3>3, <3>4, <3>5, NIsPositive DEF Iterations
  <2>2. ASSUME UNCHANGED kind PROVE FALSE
    BY <2>2 DEF HandedOut, IsFree
  <2>3. ASSUME NEW id \in GuestIds, pool_free(id) PROVE FALSE
    BY <2>3 DEF pool_free, HandedOut, IsFree, IInv, TypeOK
  <2>4. ASSUME NEW k \in Kinds, pool_alloc(k) PROVE x \notin passed[y]
    BY <2>1, <2>2, <2>4, AllocCases DEF AllocFull
  <2> QED BY <2>2, <2>3, <2>4 DEF Next, pool_get, vars
<1>2. RoundRobin <=> [][Fair]_vars
  BY PTL DEF RoundRobin
<1> QED BY <1>1, <1>2, Invariance, PTL DEF Spec

\* The pool is an allocator of distinct live ids that reports "full" only when
\* every slot is in use (runtime_glue.cpp:257-285).
THEOREM PoolImplementsAllocator == Spec => Refinement
<1>1. Init => Alloc!Init
  BY DEF Init, Alloc!Init, Live, IsFree
<1>2. IInv /\ [Next]_vars => [Alloc!Next]_(Alloc!vars)
  <2> SUFFICES ASSUME IInv, [Next]_vars PROVE [Alloc!Next]_(Alloc!vars)
    OBVIOUS
  <2>0. g_pool_cursor \in Ids
    BY DEF IInv, TypeOK
  <2>1. ASSUME NEW k \in Kinds, NEW i \in Iterations, AllocAt(k, i)
        PROVE  Alloc!Acquire
    <3>1. Probe(i) \in Ids \ Live
      BY <2>0, <2>1, ProbeDistance DEF AllocAt, FirstFree, Live
    <3>2. Live' = Live \cup {Probe(i)}
      BY <2>1, <3>1, PoolAssumption DEF AllocAt, Live, IsFree, IInv, TypeOK
    <3> QED BY <2>1, <3>1, <3>2 DEF Alloc!Acquire, AllocAt
  <2>2. ASSUME AllocFull PROVE Alloc!Exhausted
    <3>1. Live = Ids
      BY <2>0, <2>2, ProbeOnto DEF AllocFull, Live
    <3> QED BY <2>2, <3>1 DEF Alloc!Exhausted, AllocFull, Live, IsFree
  <2>3. ASSUME NEW id \in GuestIds, pool_free(id) PROVE Alloc!Release
    <3>1. Live' = Live \ {id}
      BY <2>3 DEF pool_free, Live, IsFree, IInv, TypeOK
    <3> QED BY <2>3, <3>1 DEF Alloc!Release, pool_free
  <2>4. ASSUME NEW id \in GuestIds, NEW k \in Kinds, pool_get(id, k) PROVE Alloc!Lookup
    BY <2>4, PoolAssumption DEF pool_get, Alloc!Lookup, Live, IsFree
  <2>5. CASE UNCHANGED vars
    BY <2>5 DEF vars, Alloc!vars, Live, IsFree
  <2> QED BY <2>1, <2>2, <2>3, <2>4, <2>5, AllocCases DEF Next, Alloc!Next
<1> QED BY <1>1, <1>2, Invariance, PTL DEF Spec, Refinement, Alloc!Spec

(***************************************************************************)
(* The objects and the calls on them.                                      *)
(***************************************************************************)

Transit     == {"fill", "close", "free"}
AtSemaphore == {"wait", "blocked", "poll", "post"}
AtMutex     == {"enter", "try", "leave"}
WithMutex   == {"sleep", "asleep", "reenter"}
AtCond      == WithMutex \cup {"wake", "wake all"}
AtQueue     == {"receive", "awaiting", "tryreceive", "take"}
AtPort      == {"connect", "route", "deliver"}
Places      == {"idle"} \cup Transit \cup AtSemaphore \cup AtMutex \cup AtCond
                 \cup AtQueue \cup AtPort

\* Kinds whose slot holds something of Windows.
Opened == {"LV2_SEM", "LV2_MUTEX", "LV2_EVQ"}

\* The kinds of object a call in progress looked for.
Meant(t) == IF pc[t] \in Transit THEN what[t]
            ELSE IF pc[t] \in AtSemaphore THEN "LV2_SEM"
            ELSE IF pc[t] \in AtMutex THEN "LV2_MUTEX"
            ELSE IF pc[t] \in AtCond THEN "LV2_COND"
            ELSE IF pc[t] \in AtQueue THEN "LV2_EVQ"
            ELSE "LV2_EVPORT"
MeantToo(t) == IF pc[t] = "deliver" THEN "LV2_EVQ" ELSE "LV2_MUTEX"

\* Types of the objects' and the calls' state.
FramesTypeOK ==
  /\ pc \in [Threads -> Places] /\ what \in [Threads -> AllKinds \cup {LV2_FREE}]
  /\ me \in [Threads -> Ids \cup {0}] /\ mo \in [Threads -> Ids \cup {0}]
  /\ gone \in [Threads -> BOOLEAN]
ObjTypeOK ==
  /\ kind \in [Ids -> AllKinds \cup {LV2_FREE}]
  /\ content \in [Ids -> {"zero", "open", "closed"}]
  /\ count \in [Ids -> Nat] /\ cnt \in [Ids -> Int]
  /\ owner \in [Ids -> Threads \cup {NULL}] /\ depth \in [Ids -> Int]
  /\ ref \in [Ids -> Ids \cup {0}]
  /\ FramesTypeOK
  /\ holds \in [Threads -> [Ids -> Int]]
  /\ balance \in [Ids -> Int]
  /\ misused \in SUBSET Ids /\ broken \in BOOLEAN

\* A call has the pointers its place needs, and has lost what is below them only if
\* a slot was misused; a thread leaves only a mutex it believes it holds.
CallSane(t) ==
  /\ Idle(t) => me[t] = 0 /\ ~gone[t]
  /\ ~Idle(t) => me[t] \in Ids
  /\ pc[t] = "fill" => what[t] \in AllKinds
  /\ pc[t] \in {"close", "free"} => what[t] \in Opened
  /\ IF pc[t] \in WithMutex \cup {"deliver"} THEN mo[t] \in Ids ELSE mo[t] = 0
  /\ gone[t] => me[t] \in misused \/ mo[t] \in misused
  /\ pc[t] = "leave" => holds[t][me[t]] > 0
  /\ pc[t] = "sleep" => holds[t][mo[t]] > 0
CallsSane == \A t \in Threads : CallSane(t)

\* A pointer leads to an object of the kind meant, and while the object is created or
\* destroyed to nobody else.
PointerSane(t, id) ==
  /\ me[t] = id => kind[id] = Meant(t)
  /\ mo[t] = id => kind[id] = MeantToo(t)
  /\ pc[t] \in Transit /\ me[t] = id => \A u \in Threads \ {t} : ~Touches(u, id)
PointersSane == \A id \in Ids \ misused : \A t \in Threads : PointerSane(t, id)

\* A section is owned by the thread that believes so, as deeply as it believes, and
\* nobody owns what is not a mutex in use.
SectionSane(id) ==
  /\ \A t \in Threads : holds[t][id] = IF owner[id] = t THEN depth[id] ELSE 0
  /\ owner[id] = NULL => depth[id] = 0
  /\ owner[id] # NULL => /\ depth[id] > 0 /\ kind[id] = "LV2_MUTEX"
                         /\ \A t \in Threads : pc[t] \in Transit => me[t] # id
SectionsSane == \A id \in Ids \ misused : SectionSane(id)

\* An object is open once it is created and until it is destroyed.
ContentSane(id) ==
  kind[id] \in Opened =>
    content[id] = "open" \/ \E t \in Threads : pc[t] \in {"fill", "free"} /\ me[t] = id
ContentsSane == \A id \in Ids \ misused : ContentSane(id)

\* What a semaphore holds is what its books say; what a queue's semaphore and the
\* receivers past it claim is in the ring, which starts empty.
BooksSane(id) ==
  /\ kind[id] = "LV2_SEM" /\ content[id] = "open" => balance[id] = count[id]
  /\ kind[id] = "LV2_EVQ" /\ content[id] = "open" =>
       cnt[id] = count[id] + Cardinality(Claiming(id))
  /\ \A t \in Threads : pc[t] = "fill" /\ me[t] = id => count[id] = 0 /\ cnt[id] = 0
AllBooksSane == \A id \in Ids \ misused : BooksSane(id)

\* The inductive invariant.
ObjInv == /\ ObjTypeOK /\ BrokenOnlyByMisuse
          /\ CallsSane /\ PointersSane /\ SectionsSane /\ ContentsSane /\ AllBooksSane
-----------------------------------------------------------------------------
LEMMA ObjectKinds == Kinds = AllKinds /\ LV2_FREE \notin AllKinds /\ NULL \notin Threads
  BY ObjectsAssumption

\* A call that is not creating or destroying finds its object, and finds it open.
LEMMA MeFound ==
  ASSUME ObjInv, NEW t \in Threads, ~Idle(t), me[t] \notin misused
  PROVE  /\ me[t] \in Ids /\ kind[me[t]] = Meant(t)
         /\ pc[t] \notin Transit /\ Meant(t) \in Opened => content[me[t]] = "open"
<1>1. me[t] \in Ids /\ kind[me[t]] = Meant(t)
  BY DEF ObjInv, CallsSane, CallSane, PointersSane, PointerSane
<1>2. ASSUME pc[t] \notin Transit, NEW u \in Threads, pc[u] \in {"fill", "free"},
             me[u] = me[t]
      PROVE  FALSE
  BY <1>1, <1>2 DEF ObjInv, PointersSane, PointerSane, Touches, Transit, Idle
<1> QED BY <1>1, <1>2 DEF ObjInv, ContentsSane, ContentSane

LEMMA MoFound ==
  ASSUME ObjInv, NEW t \in Threads, mo[t] # 0, mo[t] \notin misused
  PROVE  /\ mo[t] \in Ids /\ kind[mo[t]] = MeantToo(t)
         /\ content[mo[t]] = "open"
<1>0. mo[t] \in Ids /\ ~Idle(t) /\ pc[t] \notin Transit
  BY DEF ObjInv, CallsSane, CallSane, Idle, WithMutex, ObjTypeOK, FramesTypeOK, Transit
<1>1. mo[t] \in Ids /\ kind[mo[t]] = MeantToo(t)
  BY <1>0 DEF ObjInv, PointersSane, PointerSane
<1>2. ASSUME NEW u \in Threads, pc[u] \in {"fill", "free"},
             me[u] = mo[t]
      PROVE  FALSE
  BY <1>0, <1>1, <1>2 DEF ObjInv, PointersSane, PointerSane, Touches, Transit, Idle
<1> QED BY <1>1, <1>2 DEF ObjInv, ContentsSane, ContentSane, MeantToo, Opened
-----------------------------------------------------------------------------
(***************************************************************************)
(* Frames.  In most steps one thread moves and the pointers of the others  *)
(* stay; the lemmas here say once what such a step cannot disturb.         *)
(***************************************************************************)
Stays(u) == /\ pc'[u] = pc[u] /\ what'[u] = what[u] /\ gone'[u] = gone[u]
            /\ me'[u] = me[u] /\ mo'[u] = mo[u]
Over(u)  == /\ pc'[u] = "idle" /\ what'[u] = LV2_FREE /\ gone'[u] = FALSE
            /\ me'[u] = 0 /\ mo'[u] = 0
Moves(u, where) == /\ pc'[u] = where /\ what'[u] = what[u] /\ gone'[u] = gone[u]
                   /\ me'[u] = me[u] /\ mo'[u] = mo[u]

LEMMA ReturnFrames ==
  ASSUME ObjTypeOK, NEW t \in Threads, Return(t)
  PROVE  Over(t) /\ (\A u \in Threads \ {t} : Stays(u)) /\ FramesTypeOK'
BY DEF ObjTypeOK, FramesTypeOK, Return, Goto, Over, Stays, Places

LEMMA GotoFrames ==
  ASSUME ObjTypeOK, NEW t \in Threads, NEW where \in Places, Goto(t, where),
         UNCHANGED <<what, me, mo, gone>>
  PROVE  Moves(t, where) /\ (\A u \in Threads \ {t} : Stays(u)) /\ FramesTypeOK'
BY DEF ObjTypeOK, FramesTypeOK, Goto, Moves, Stays, Places

\* A pointer kept for the same purpose.
Keeps(u) == /\ me'[u] = me[u] /\ mo'[u] = mo[u] /\ ~Idle(u) /\ ~Idle(u)'
            /\ Meant(u)' = Meant(u) /\ MeantToo(u)' = MeantToo(u)
            /\ pc'[u] \in Transit <=> pc[u] \in Transit
Drops(u) == Idle(u)' /\ me'[u] = 0 /\ mo'[u] = 0

LEMMA StayingKeeps ==
  ASSUME ObjInv, NEW u \in Threads, Stays(u)
  PROVE  Drops(u) \/ Keeps(u)
BY DEF ObjInv, CallsSane, CallSane, Stays, Drops, Keeps, Idle, Meant, MeantToo, WithMutex

LEMMA PointersKept ==
  ASSUME ObjInv, kind' = kind, misused \subseteq misused',
         \A u \in Threads : Drops(u) \/ Keeps(u)
  PROVE  PointersSane'
<1> SUFFICES ASSUME NEW id \in Ids \ misused', NEW t \in Threads
             PROVE  PointerSane(t, id)'
  BY DEF PointersSane
<1>1. PointerSane(t, id) /\ id # 0
  BY NIsPositive DEF ObjInv, PointersSane
<1>2. CASE Drops(t)
  BY <1>1, <1>2 DEF PointerSane, Drops
<1>3. CASE Keeps(t)
  <2>1. (me[t] = id => kind[id] = Meant(t))' /\ (mo[t] = id => kind[id] = MeantToo(t))'
    BY <1>1, <1>3 DEF PointerSane, Keeps
  <2>2. ASSUME pc'[t] \in Transit, me'[t] = id, NEW u \in Threads \ {t}
        PROVE  ~Touches(u, id)'
    <3>1. ~Touches(u, id)
      BY <1>1, <1>3, <2>2 DEF PointerSane, Keeps
    <3> QED BY <1>1, <3>1 DEF Touches, Drops, Keeps
  <2> QED BY <2>1, <2>2 DEF PointerSane
<1> QED BY <1>2, <1>3

\* Nobody comes to create or destroy.
SameTransit(u) == /\ pc'[u] \in Transit => pc[u] \in Transit
                  /\ pc[u] \in Transit => pc'[u] = pc[u]
                  /\ pc[u] \in Transit => me'[u] = me[u]

LEMMA SectionsKept ==
  ASSUME ObjInv, UNCHANGED <<kind, owner, depth, holds>>, misused \subseteq misused',
         \A u \in Threads : SameTransit(u)
  PROVE  SectionsSane'
BY DEF ObjInv, SectionsSane, SectionSane, SameTransit

LEMMA ContentsKept ==
  ASSUME ObjInv, UNCHANGED <<kind, content>>, misused \subseteq misused',
         \A u \in Threads : SameTransit(u)
  PROVE  ContentsSane'
BY DEF ObjInv, ContentsSane, ContentSane, SameTransit, Transit

LEMMA BooksKept ==
  ASSUME ObjInv, UNCHANGED <<kind, content, count, cnt, balance>>,
         misused \subseteq misused',
         \A u \in Threads : /\ SameTransit(u)
                            /\ me[u] = me'[u] \/ pc[u] # "take"
                            /\ pc[u] = "take" <=> pc'[u] = "take"
  PROVE  AllBooksSane'
<1>1. ASSUME NEW id \in Ids PROVE Claiming(id)' = Claiming(id)
  BY DEF Claiming
<1>2. SUFFICES ASSUME NEW id \in Ids \ misused' PROVE BooksSane(id)'
  BY DEF AllBooksSane
<1> QED BY <1>1 DEF ObjInv, AllBooksSane, BooksSane, SameTransit, Transit

LEMMA StayingTransit ==
  ASSUME NEW u \in Threads, Stays(u)
  PROVE  SameTransit(u) /\ (pc[u] = "take" <=> pc'[u] = "take")
BY DEF Stays, SameTransit
-----------------------------------------------------------------------------
\* The two ways a call ends or goes on.
LEMMA ReturnKeeps ==
  ASSUME ObjInv, NEW t \in Threads, Return(t), ~Idle(t)
  PROVE  /\ FramesTypeOK' /\ Over(t) /\ \A u \in Threads \ {t} : Stays(u)
         /\ \A u \in Threads : Drops(u) \/ Keeps(u)
         /\ pc[t] \notin Transit => \A u \in Threads : SameTransit(u)
         /\ pc[t] # "take" => \A u \in Threads : /\ me[u] = me'[u] \/ pc[u] # "take"
                                                 /\ pc[u] = "take" <=> pc'[u] = "take"
<1>1. FramesTypeOK' /\ Over(t) /\ \A u \in Threads \ {t} : Stays(u)
  BY ReturnFrames DEF ObjInv
<1>2. Drops(t)
  BY <1>1 DEF Drops, Over, Idle
<1>3. \A u \in Threads \ {t} : (Drops(u) \/ Keeps(u)) /\ SameTransit(u)
  BY <1>1, StayingKeeps, StayingTransit
<1>4. pc[t] \notin Transit => SameTransit(t)
  BY <1>1 DEF Over, SameTransit, Transit
<1>5. pc[t] # "take" => \A u \in Threads : /\ me[u] = me'[u] \/ pc[u] # "take"
                                           /\ pc[u] = "take" <=> pc'[u] = "take"
  BY <1>1 DEF Over, Stays
<1> QED BY <1>1, <1>2, <1>3, <1>4, <1>5

LEMMA GotoKeeps ==
  ASSUME ObjInv, NEW t \in Threads, NEW where \in Places, Goto(t, where),
         UNCHANGED <<what, me, mo, gone>>, ~Idle(t)
  PROVE  /\ FramesTypeOK' /\ Moves(t, where) /\ \A u \in Threads \ {t} : Stays(u)
         /\ \A u \in Threads \ {t} : (Drops(u) \/ Keeps(u)) /\ SameTransit(u)
<1>1. FramesTypeOK' /\ Moves(t, where) /\ \A u \in Threads \ {t} : Stays(u)
  BY GotoFrames DEF ObjInv
<1> QED BY <1>1, StayingKeeps, StayingTransit

\* What the parts of the invariant need to know of the threads that stay.
LEMMA OthersSane ==
  ASSUME ObjInv, NEW u \in Threads, Stays(u), misused \subseteq misused',
         \A id \in Ids : holds'[u][id] = holds[u][id]
  PROVE  CallSane(u)'
BY DEF ObjInv, CallsSane, CallSane, Stays, Idle, Opened, WithMutex

LEMMA OverSane ==
  ASSUME NEW t \in Threads, Over(t)
  PROVE  CallSane(t)'
BY DEF CallSane, Over, Idle, WithMutex, Opened
-----------------------------------------------------------------------------
\* Entering and leaving a section.
SectionsTypeOK == /\ owner \in [Ids -> Threads \cup {NULL}] /\ depth \in [Ids -> Int]
                  /\ holds \in [Threads -> [Ids -> Int]]

LEMMA EnterSectionEffect ==
  ASSUME ObjInv, NEW t \in Threads, NEW id \in Ids, EnterSection(t, id)
  PROVE  /\ SectionsTypeOK' /\ owner[id] \in {NULL, t}
         /\ owner'[id] = t /\ depth'[id] = depth[id] + 1
         /\ holds'[t][id] = holds[t][id] + 1
         /\ \A i \in Ids \ {id} : /\ owner'[i] = owner[i] /\ depth'[i] = depth[i]
                                  /\ holds'[t][i] = holds[t][i]
         /\ \A u \in Threads \ {t} : \A i \in Ids : holds'[u][i] = holds[u][i]
<1> DEFINE mine == [holds[t] EXCEPT ![id] = @ + 1]
<1>1. holds' = [holds EXCEPT ![t] = mine] /\ mine \in [Ids -> Int]
  BY DEF EnterSection, Believe, ObjInv, ObjTypeOK
<1> QED BY <1>1 DEF EnterSection, ObjInv, ObjTypeOK, SectionsTypeOK

LEMMA LeaveSectionEffect ==
  ASSUME ObjInv, NEW t \in Threads, NEW id \in Ids, LeaveSection(t, id)
  PROVE  /\ SectionsTypeOK' /\ owner[id] = t
         /\ owner'[id] = (IF depth[id] = 1 THEN NULL ELSE t) /\ depth'[id] = depth[id] - 1
         /\ holds'[t][id] = holds[t][id] - 1
         /\ \A i \in Ids \ {id} : /\ owner'[i] = owner[i] /\ depth'[i] = depth[i]
                                  /\ holds'[t][i] = holds[t][i]
         /\ \A u \in Threads \ {t} : \A i \in Ids : holds'[u][i] = holds[u][i]
<1> DEFINE mine == [holds[t] EXCEPT ![id] = @ + -1]
<1>1. holds' = [holds EXCEPT ![t] = mine] /\ mine \in [Ids -> Int]
  BY DEF LeaveSection, Believe, ObjInv, ObjTypeOK
<1> QED BY <1>1 DEF LeaveSection, ObjInv, ObjTypeOK, SectionsTypeOK

LEMMA EnterSectionSane ==
  ASSUME ObjInv, NEW t \in Threads, NEW id \in Ids, EnterSection(t, id),
         kind' = kind, misused' = misused,
         id \notin misused => kind[id] = "LV2_MUTEX",
         id \notin misused => \A u \in Threads : pc[u] \in Transit => me[u] # id,
         \A u \in Threads : SameTransit(u)
  PROVE  SectionsSane'
<1> SUFFICES ASSUME NEW i \in Ids \ misused PROVE SectionSane(i)'
  BY DEF SectionsSane
<1>1. SectionSane(i) /\ depth[i] \in Int
  BY DEF ObjInv, SectionsSane, ObjTypeOK
<1>2. CASE i # id
  BY <1>1, <1>2, EnterSectionEffect DEF SectionSane, SameTransit
<1>3. CASE i = id
  BY <1>1, <1>3, EnterSectionEffect, ObjectKinds DEF SectionSane, SameTransit
<1> QED BY <1>2, <1>3

LEMMA LeaveSectionSane ==
  ASSUME ObjInv, NEW t \in Threads, NEW id \in Ids, LeaveSection(t, id),
         kind' = kind, misused' = misused,
         \A u \in Threads : SameTransit(u)
  PROVE  SectionsSane'
<1> SUFFICES ASSUME NEW i \in Ids \ misused PROVE SectionSane(i)'
  BY DEF SectionsSane
<1>1. SectionSane(i) /\ depth[i] \in Int
  BY DEF ObjInv, SectionsSane, ObjTypeOK
<1>2. CASE i # id
  BY <1>1, <1>2, LeaveSectionEffect DEF SectionSane, SameTransit
<1>3. CASE i = id
  BY <1>1, <1>3, LeaveSectionEffect, ObjectKinds DEF SectionSane, SameTransit
<1> QED BY <1>2, <1>3

\* A call that returns, and is not about creation or destruction.
LEMMA ReturnSane ==
  ASSUME ObjInv, NEW t \in Threads, Return(t), ~Idle(t), pc[t] \notin Transit,
         kind' = kind, misused' = misused,
         \A u \in Threads \ {t} : \A id \in Ids : holds'[u][id] = holds[u][id]
  PROVE  /\ FramesTypeOK' /\ CallsSane' /\ PointersSane'
         /\ \A u \in Threads : SameTransit(u)
         /\ pc[t] # "take" => \A u \in Threads : /\ me[u] = me'[u] \/ pc[u] # "take"
                                                 /\ pc[u] = "take" <=> pc'[u] = "take"
<1>1. FramesTypeOK' /\ PointersSane' /\ \A u \in Threads : SameTransit(u)
  BY ReturnKeeps, PointersKept
<1>2. CallsSane'
  BY ReturnKeeps, OthersSane, OverSane DEF CallsSane
<1> QED BY <1>1, <1>2, ReturnKeeps
-----------------------------------------------------------------------------
(***************************************************************************)
(* One lemma for each kind of step of a call.                              *)
(***************************************************************************)
\* Nobody creates or destroys what a call in progress has looked up.
LEMMA Undisturbed ==
  ASSUME ObjInv, NEW t \in Threads, ~Idle(t), pc[t] \notin Transit,
         NEW id \in Ids \ misused, id \in {me[t], mo[t]}, NEW u \in Threads, pc[u] \in Transit
  PROVE  me[u] # id
BY DEF ObjInv, PointersSane, PointerSane, Touches

\* A call on a mutex: enter, try, leave, reenter.
LEMMA SectionCall ==
  ASSUME ObjInv, NEW t \in Threads, Return(t), ~Idle(t), pc[t] \notin Transit \cup {"take"},
         UNCHANGED <<vars, content, count, cnt, ref, history>>,
         NEW id \in {me[t], mo[t]}, id \in Ids,
         id \notin misused => kind[id] = "LV2_MUTEX",
         \/ EnterSection(t, id) \/ LeaveSection(t, id) \/ SameSection,
         broken' = broken \/ (broken' = TRUE /\ misused # {})
  PROVE  ObjInv'
<1>0. UNCHANGED <<kind, content, count, cnt, ref, balance, misused>>
  BY DEF vars, history
<1>1. SectionsTypeOK' /\ \A u \in Threads \ {t} : \A i \in Ids : holds'[u][i] = holds[u][i]
  BY EnterSectionEffect, LeaveSectionEffect DEF SameSection, SectionsTypeOK, ObjInv, ObjTypeOK
<1>2. /\ FramesTypeOK' /\ CallsSane' /\ PointersSane'
      /\ \A u \in Threads : SameTransit(u)
      /\ \A u \in Threads : /\ me[u] = me'[u] \/ pc[u] # "take"
                            /\ pc[u] = "take" <=> pc'[u] = "take"
  BY <1>0, <1>1, ReturnSane
<1>3. ObjTypeOK' /\ BrokenOnlyByMisuse'
  <2>1. broken \in BOOLEAN /\ BrokenOnlyByMisuse
    BY DEF ObjInv, ObjTypeOK
  <2>2. misused' = misused
    BY <1>0
  <2>3. broken' \in BOOLEAN
    BY <2>1
  <2>4. BrokenOnlyByMisuse'
    BY <2>1, <2>2 DEF BrokenOnlyByMisuse
  <2> QED BY <1>0, <1>1, <1>2, <2>3, <2>4 DEF ObjInv, ObjTypeOK, SectionsTypeOK
<1>4. SectionsSane'
  <2>1. id \notin misused => \A u \in Threads : pc[u] \in Transit => me[u] # id
    BY Undisturbed
  <2> QED BY <1>0, <1>2, <2>1, EnterSectionSane, LeaveSectionSane, SectionsKept DEF SameSection
<1>5. ContentsSane' /\ AllBooksSane'
  BY <1>0, <1>2, ContentsKept, BooksKept
<1> QED BY <1>2, <1>3, <1>4, <1>5 DEF ObjInv

LEMMA MutexSteps ==
  ASSUME ObjInv, NEW t \in Threads, Enter(t) \/ TryEnter(t) \/ Leave(t) \/ Reenter(t)
  PROVE  ObjInv'
<1>1. CASE Enter(t) \/ TryEnter(t) \/ Leave(t)
  <2>1. /\ pc[t] \in AtMutex /\ Return(t) /\ ~Idle(t) /\ me[t] \in Ids
        /\ UNCHANGED <<vars, content, count, cnt, ref, history>>
        /\ pc[t] \notin Transit \cup {"take"}
    BY <1>1 DEF Enter, TryEnter, Leave, ObjInv, CallsSane, CallSane, Idle, AtMutex, Transit
  <2>2. me[t] \notin misused => kind[me[t]] = "LV2_MUTEX" /\ ~BadSection(me[t])
    BY <2>1, MeFound DEF Meant, Transit, AtSemaphore, AtMutex, Opened, BadSection, Recycled
  <2>3. Leave(t) /\ me[t] \notin misused => owner[me[t]] = t
    BY <2>1 DEF Leave, ObjInv, CallsSane, CallSane, SectionsSane, SectionSane
  <2>4. /\ EnterSection(t, me[t]) \/ LeaveSection(t, me[t]) \/ SameSection
        /\ broken' = broken \/ (broken' = TRUE /\ misused # {})
    BY <1>1, <2>2, <2>3 DEF Enter, TryEnter, Leave
  <2> QED BY <2>1, <2>2, <2>4, SectionCall
<1>2. CASE Reenter(t)
  <2>1. /\ pc[t] = "reenter" /\ Return(t) /\ ~Idle(t) /\ mo[t] \in Ids /\ mo[t] # 0
        /\ UNCHANGED <<vars, content, count, cnt, ref, history>>
        /\ pc[t] \notin Transit \cup {"take"}
    BY <1>2, NIsPositive DEF Reenter, ObjInv, CallsSane, CallSane, Idle, WithMutex, Transit
  <2>2. mo[t] \notin misused => kind[mo[t]] = "LV2_MUTEX" /\ ~BadSection(mo[t])
    BY <2>1, MoFound DEF MeantToo, BadSection, Recycled
  <2>3. /\ EnterSection(t, mo[t]) \/ LeaveSection(t, mo[t]) \/ SameSection
        /\ broken' = broken \/ (broken' = TRUE /\ misused # {})
    BY <1>2, <2>2 DEF Reenter
  <2> QED BY <2>1, <2>2, <2>3, SectionCall
<1> QED BY <1>1, <1>2
\* A call that goes on with what it has looked up.
LEMMA GotoSane ==
  ASSUME ObjInv, NEW t \in Threads, NEW where \in Places, Goto(t, where),
         UNCHANGED <<what, me, mo, gone>>,
         NEW S \in {AtSemaphore, AtCond, AtQueue}, pc[t] \in S, where \in S,
         pc[t] \in WithMutex <=> where \in WithMutex, where # "sleep",
         kind' = kind, misused' = misused,
         \A u \in Threads \ {t} : \A id \in Ids : holds'[u][id] = holds[u][id]
  PROVE  /\ FramesTypeOK' /\ CallsSane' /\ PointersSane'
         /\ \A u \in Threads : SameTransit(u)
<1>1. /\ ~Idle(t) /\ pc[t] \notin Transit \cup {"deliver"}
      /\ where \notin Transit \cup {"idle", "leave", "deliver"}
  BY DEF AtSemaphore, AtCond, AtQueue, WithMutex, Transit, Idle
<1>2. /\ FramesTypeOK' /\ Moves(t, where) /\ \A u \in Threads \ {t} : Stays(u)
      /\ \A u \in Threads \ {t} : (Drops(u) \/ Keeps(u)) /\ SameTransit(u)
  BY <1>1, GotoKeeps
<1>3. SameTransit(t)
  BY <1>1, <1>2 DEF Moves, SameTransit, Transit
<1>4. Keeps(t)
  BY <1>1, <1>2 DEF Moves, Keeps, Idle, Meant, MeantToo, AtSemaphore, AtCond, AtQueue, WithMutex,
                    Transit, AtMutex
<1>5. PointersSane'
  BY <1>2, <1>4, PointersKept
<1>6. CallsSane'
  <2>1. CallSane(t)'
    BY <1>1, <1>2 DEF ObjInv, CallsSane, CallSane, Moves, Idle, Transit, WithMutex
  <2> QED BY <1>2, <2>1, OthersSane DEF CallsSane
<1> QED BY <1>2, <1>3, <1>5, <1>6

LEMMA AccountEffect ==
  ASSUME ObjInv, NEW id \in Ids, NEW n \in Int, Account(id, n)
  PROVE  /\ balance' \in [Ids -> Int] /\ \A i \in Ids \ {id} : balance'[i] = balance[i]
         /\ id \notin misused => balance'[id] = balance[id] + n
BY DEF ObjInv, ObjTypeOK, Account

\* What a step does to the object of thread t's call is in the books.
Booked(t) ==
  /\ count' \in [Ids -> Nat] /\ balance' \in [Ids -> Int]
  /\ \A i \in Ids \ {me[t]} : count'[i] = count[i] /\ balance'[i] = balance[i]
  /\ me[t] \notin misused =>
       /\ kind[me[t]] = "LV2_SEM" =>
            count'[me[t]] - count[me[t]] = balance'[me[t]] - balance[me[t]]
       /\ kind[me[t]] = "LV2_EVQ" => count'[me[t]] = count[me[t]]

Adds(id, n) == /\ count' \in [Ids -> Nat] /\ count'[id] = count[id] + n
               /\ \A i \in Ids \ {id} : count'[i] = count[i]

\* A call on a semaphore that returns: what it takes or posts is in the books.
LEMMA SemaphoreCall ==
  ASSUME ObjInv, NEW t \in Threads, Return(t), ~Idle(t), pc[t] \notin Transit \cup {"take"},
         UNCHANGED <<vars, content, cnt, owner, depth, ref, holds, misused>>,
         Booked(t), broken' \in BOOLEAN, broken' => misused # {}
  PROVE  ObjInv'
<1>0. UNCHANGED <<kind, content, cnt, owner, depth, ref, holds, misused>>
  BY DEF vars
<1>1. /\ FramesTypeOK' /\ CallsSane' /\ PointersSane'
      /\ \A u \in Threads : SameTransit(u)
      /\ \A u \in Threads : /\ me[u] = me'[u] \/ pc[u] # "take"
                            /\ pc[u] = "take" <=> pc'[u] = "take"
  BY <1>0, ReturnSane
<1>2. BrokenOnlyByMisuse'
  BY <1>0 DEF BrokenOnlyByMisuse
<1>3. ObjTypeOK'
  BY <1>0, <1>1 DEF ObjInv, ObjTypeOK, Booked
<1>4. SectionsSane' /\ ContentsSane'
  BY <1>0, <1>1, SectionsKept, ContentsKept
<1>5. AllBooksSane'
  <2> SUFFICES ASSUME NEW id \in Ids \ misused PROVE BooksSane(id)'
    BY <1>0 DEF AllBooksSane
  <2>1. Claiming(id)' = Claiming(id)
    BY <1>1 DEF Claiming
  <2>2. BooksSane(id)
    BY DEF ObjInv, AllBooksSane
  <2>3. CASE id # me[t]
    BY <1>0, <1>1, <2>1, <2>2, <2>3 DEF BooksSane, SameTransit, Transit, Booked
  <2>4. CASE id = me[t]
    <3>1. \A u \in Threads : pc'[u] = "fill" => me'[u] # id
      BY <1>1, <2>4, Undisturbed DEF SameTransit, Transit
    <3>2. count[id] \in Nat /\ balance[id] \in Int /\ count'[id] \in Nat /\ balance'[id] \in Int
      BY DEF ObjInv, ObjTypeOK, Booked
    <3> QED BY <1>0, <2>1, <2>2, <2>4, <3>1, <3>2 DEF BooksSane, Booked
  <2> QED BY <2>3, <2>4
<1> QED BY <1>1, <1>2, <1>3, <1>4, <1>5 DEF ObjInv

LEMMA StartWaitKeeps ==
  ASSUME ObjInv, NEW t \in Threads, StartWait(t)
  PROVE  ObjInv'
<1>0. /\ pc[t] = "wait" /\ ~Idle(t) /\ me[t] \in Ids
      /\ UNCHANGED <<vars, content, count, cnt, owner, depth, ref, holds, misused>>
  BY DEF StartWait, ObjInv, CallsSane, CallSane, Idle, slots
<1>1. me[t] \notin misused =>
        kind[me[t]] = "LV2_SEM" /\ content[me[t]] = "open" /\ ~BadHandle(me[t])
  BY <1>0, MeFound DEF Meant, Transit, AtSemaphore, Opened, BadHandle, Recycled
<1>2. CASE Goto(t, "blocked") /\ UNCHANGED <<what, me, mo, gone, balance, broken>>
  <2>1. /\ FramesTypeOK' /\ CallsSane' /\ PointersSane'
        /\ \A u \in Threads : SameTransit(u)
    BY <1>0, <1>2, GotoSane DEF AtSemaphore, Places, WithMutex, vars
  <2>2. \A u \in Threads : /\ me[u] = me'[u] \/ pc[u] # "take"
                           /\ pc[u] = "take" <=> pc'[u] = "take"
    BY <1>0, <1>2 DEF Goto, ObjInv, ObjTypeOK, FramesTypeOK
  <2>3. SectionsSane' /\ ContentsSane' /\ AllBooksSane'
    BY <1>0, <1>2, <2>1, <2>2, SectionsKept, ContentsKept, BooksKept DEF vars
  <2>4. ObjTypeOK' /\ BrokenOnlyByMisuse'
    BY <1>0, <1>2, <2>1 DEF ObjInv, ObjTypeOK, vars, BrokenOnlyByMisuse
  <2> QED BY <2>1, <2>3, <2>4 DEF ObjInv
<1>3. CASE /\ content[me[t]] # "open" \/ Recycled(me[t], "LV2_SEM")
           /\ broken' \in {FALSE, BadHandle(me[t])}
           /\ Account(me[t], -1) /\ Return(t)
  <2>1. me[t] \in misused
    BY <1>1, <1>3 DEF BadHandle
  <2>2. broken' \in BOOLEAN
    BY <1>3 DEF BadHandle, Recycled
  <2>3. Booked(t)
    BY <1>0, <1>3, <2>1, AccountEffect DEF ObjInv, ObjTypeOK, Booked
  <2> QED BY <1>0, <1>3, <2>1, <2>2, <2>3, SemaphoreCall DEF Transit
<1> QED BY <1>2, <1>3 DEF StartWait

LEMMA SemaphoreSteps ==
  ASSUME ObjInv, NEW t \in Threads,
         WaitEnds(t) \/ WaitTimesOut(t) \/ Poll(t) \/ Post(t)
  PROVE  ObjInv'
<1>0. /\ pc[t] \in {"blocked", "awaiting", "poll", "post"} /\ ~Idle(t) /\ me[t] \in Ids
      /\ pc[t] \notin Transit \cup {"take"}
      /\ Return(t) /\ UNCHANGED <<vars, content, cnt, owner, depth, ref, holds, misused>>
  BY DEF WaitEnds, WaitTimesOut, Waits, Poll, Post, ObjInv, CallsSane, CallSane, Idle, slots,
         Transit
<1>1. pc[t] # "awaiting" /\ me[t] \notin misused =>
        kind[me[t]] = "LV2_SEM" /\ ~BadHandle(me[t])
  BY <1>0, MeFound DEF Meant, Transit, AtSemaphore, Opened, BadHandle, Recycled
<1>t. count \in [Ids -> Nat] /\ balance \in [Ids -> Int] /\ broken \in BOOLEAN
      /\ (broken => misused # {}) /\ SemMax \in Nat
  BY ObjectsAssumption DEF ObjInv, ObjTypeOK, BrokenOnlyByMisuse
<1>2. ASSUME pc[t] \in AtSemaphore, NEW n \in Int, Account(me[t], n),
             Adds(me[t], n)
      PROVE  Booked(t)
  <2>1. /\ balance' \in [Ids -> Int] /\ \A i \in Ids \ {me[t]} : balance'[i] = balance[i]
        /\ me[t] \notin misused => balance'[me[t]] = balance[me[t]] + n
    BY <1>0, <1>2, AccountEffect
  <2>2. balance[me[t]] \in Int /\ count[me[t]] \in Nat
    BY <1>0, <1>t
  <2>3. me[t] \notin misused => kind[me[t]] # "LV2_EVQ"
    BY <1>1, <1>2 DEF AtSemaphore
  <2> QED BY <1>2, <2>1, <2>2, <2>3 DEF Booked, Adds
<1>3. CASE count' = count /\ balance' = balance
  <2>0. Booked(t)
    BY <1>0, <1>t, <1>3 DEF Booked
  <2>1. CASE WaitEnds(t) \/ WaitTimesOut(t)
    BY <1>0, <1>t, <2>0, <2>1, SemaphoreCall DEF WaitEnds, WaitTimesOut
  <2>2. CASE Poll(t) \/ Post(t)
    <3>1. pc[t] # "awaiting" /\ broken' \in {FALSE, BadHandle(me[t])}
      BY <2>2 DEF Poll, Post
    <3>2. broken' \in BOOLEAN /\ (broken' => misused # {})
      BY <1>0, <1>1, <3>1 DEF BadHandle, Recycled
    <3> QED BY <1>0, <2>0, <3>2, SemaphoreCall
  <2> QED BY <1>0, <2>1, <2>2
<1>4. CASE WaitEnds(t)
  <2>1. broken' \in BOOLEAN /\ (broken' => misused # {})
    BY <1>t, <1>4 DEF WaitEnds
  <2>2. /\ pc[t] \in AtSemaphore /\ Account(me[t], -1) /\ count[me[t]] > 0
        /\ count' = [count EXCEPT ![me[t]] = @ - 1]
    BY <1>4 DEF WaitEnds, Signalled, Taken, AtSemaphore
  <2>3. Adds(me[t], -1)
    BY <1>0, <1>t, <2>2 DEF Adds
  <2>4. Booked(t)
    BY <1>2, <2>2, <2>3
  <2> QED BY <1>0, <2>1, <2>4, SemaphoreCall
<1>5. CASE Poll(t) /\ count[me[t]] > 0 /\ Taken(t)
  <2>1. broken' \in BOOLEAN /\ (broken' => misused # {})
    BY <1>0, <1>1, <1>5 DEF Poll, BadHandle, Recycled
  <2>2. /\ pc[t] \in AtSemaphore /\ Account(me[t], -1) /\ count[me[t]] > 0
        /\ count' = [count EXCEPT ![me[t]] = @ - 1]
    BY <1>5 DEF Poll, Taken, AtSemaphore
  <2>3. Adds(me[t], -1)
    BY <1>0, <1>t, <2>2 DEF Adds
  <2>4. Booked(t)
    BY <1>2, <2>2, <2>3
  <2> QED BY <1>0, <2>1, <2>4, SemaphoreCall
<1>6. CASE Post(t) /\ ~(count' = count /\ balance' = balance)
  <2>1. broken' \in BOOLEAN /\ (broken' => misused # {})
    BY <1>0, <1>1, <1>6 DEF Post, BadHandle, Recycled
  <2>2. PICK n \in 1 .. SemMax : /\ count' = [count EXCEPT ![me[t]] = @ + n]
                                 /\ Account(me[t], n)
    BY <1>6 DEF Post
  <2>3. pc[t] \in AtSemaphore /\ Adds(me[t], n)
    BY <1>0, <1>t, <1>6, <2>2 DEF Post, AtSemaphore, Adds
  <2>4. Booked(t)
    BY <1>2, <2>2, <2>3
  <2> QED BY <1>0, <2>1, <2>4, SemaphoreCall
<1>7. WaitTimesOut(t) => count' = count /\ balance' = balance
  BY DEF WaitTimesOut, slots, NothingGranted
<1>8. Poll(t) => (count[me[t]] > 0 /\ Taken(t)) \/ (count' = count /\ balance' = balance)
  BY DEF Poll
<1> QED BY <1>3, <1>4, <1>5, <1>6, <1>7, <1>8
-----------------------------------------------------------------------------
\* Receivers past the wait.
LEMMA ClaimingFinite ==
  ASSUME NEW id
  PROVE  IsFiniteSet(Claiming(id)) /\ Cardinality(Claiming(id)) \in Nat
<1>1. Claiming(id) \subseteq Threads /\ IsFiniteSet(Threads)
  BY ObjectsAssumption DEF Claiming
<1> QED BY <1>1, FS_Subset, FS_CardinalityType

LEMMA QueueFound ==
  ASSUME ObjInv, NEW t \in Threads, pc[t] \in AtQueue
  PROVE  /\ me[t] \in Ids /\ ~Idle(t) /\ pc[t] \notin Transit
         /\ me[t] \notin misused => kind[me[t]] = "LV2_EVQ" /\ content[me[t]] = "open"
         /\ BadQueue(me[t]) \in BOOLEAN /\ (BadQueue(me[t]) => misused # {})
<1>1. ~Idle(t) /\ pc[t] \notin Transit /\ me[t] \in Ids
  BY DEF AtQueue, Idle, Transit, ObjInv, CallsSane, CallSane
<1>2. me[t] \notin misused => kind[me[t]] = "LV2_EVQ" /\ content[me[t]] = "open"
  BY <1>1, MeFound DEF Meant, Transit, AtSemaphore, AtMutex, AtCond, WithMutex, AtQueue, Opened
<1> QED BY <1>1, <1>2 DEF BadQueue, HasQueue, Recycled

LEMMA StartReceiveKeeps ==
  ASSUME ObjInv, NEW t \in Threads, StartReceive(t)
  PROVE  ObjInv'
<1>0. /\ pc[t] = "receive" /\ Goto(t, "awaiting")
      /\ UNCHANGED <<kind, content, count, cnt, owner, depth, ref, what, me, mo, gone, holds>>
      /\ UNCHANGED <<balance, misused>>
  BY DEF StartReceive, slots, vars, history
<1>1. /\ FramesTypeOK' /\ CallsSane' /\ PointersSane'
      /\ \A u \in Threads : SameTransit(u)
  BY <1>0, GotoSane DEF AtQueue, Places, WithMutex
<1>2. \A u \in Threads : /\ me[u] = me'[u] \/ pc[u] # "take"
                         /\ pc[u] = "take" <=> pc'[u] = "take"
  BY <1>0 DEF Goto, ObjInv, ObjTypeOK, FramesTypeOK
<1>3. SectionsSane' /\ ContentsSane' /\ AllBooksSane'
  BY <1>0, <1>1, <1>2, SectionsKept, ContentsKept, BooksKept
<1>4. broken' \in BOOLEAN /\ (broken' => misused # {})
  BY <1>0, QueueFound DEF AtQueue, StartReceive
<1>5. ObjTypeOK' /\ BrokenOnlyByMisuse'
  BY <1>0, <1>1, <1>4 DEF ObjInv, ObjTypeOK, BrokenOnlyByMisuse
<1> QED BY <1>1, <1>3, <1>5 DEF ObjInv

\* A receiver that passes the wait claims an event.
LEMMA ClaimKeeps ==
  ASSUME ObjInv, NEW t \in Threads, pc[t] \in {"awaiting", "tryreceive"},
         count[me[t]] > 0, count' = [count EXCEPT ![me[t]] = @ - 1], Goto(t, "take"),
         UNCHANGED <<vars, content, cnt, owner, depth, ref, what, me, mo, gone, holds, history>>,
         broken' \in BOOLEAN, broken' => misused # {}
  PROVE  ObjInv'
<1>0. /\ pc[t] \in AtQueue /\ me[t] \in Ids
      /\ UNCHANGED <<kind, content, cnt, owner, depth, ref, what, me, mo, gone, holds>>
      /\ UNCHANGED <<balance, misused>>
  BY QueueFound DEF vars, history, AtQueue
<1>1. /\ FramesTypeOK' /\ CallsSane' /\ PointersSane'
      /\ \A u \in Threads : SameTransit(u)
  BY <1>0, GotoSane DEF AtQueue, Places, WithMutex
<1>2. SectionsSane' /\ ContentsSane'
  BY <1>0, <1>1, SectionsKept, ContentsKept
<1>3. /\ count' \in [Ids -> Nat] /\ count'[me[t]] = count[me[t]] - 1
      /\ \A i \in Ids \ {me[t]} : count'[i] = count[i]
  BY <1>0 DEF ObjInv, ObjTypeOK
<1>4. AllBooksSane'
  <2> SUFFICES ASSUME NEW id \in Ids \ misused PROVE BooksSane(id)'
    BY <1>0 DEF AllBooksSane
  <2>1. BooksSane(id)
    BY DEF ObjInv, AllBooksSane
  <2>2. pc' = [pc EXCEPT ![t] = "take"] /\ pc \in [Threads -> Places]
    BY DEF Goto, ObjInv, ObjTypeOK, FramesTypeOK
  <2>3. CASE id # me[t]
    <3>1. Claiming(id)' = Claiming(id)
      BY <1>0, <2>2, <2>3 DEF Claiming
    <3> QED BY <1>0, <1>1, <1>3, <2>1, <2>3, <3>1 DEF BooksSane, SameTransit, Transit
  <2>4. CASE id = me[t]
    <3>1. Claiming(id)' = Claiming(id) \cup {t} /\ t \notin Claiming(id)
      BY <1>0, <2>2, <2>4 DEF Claiming
    <3>2. Cardinality(Claiming(id)') = Cardinality(Claiming(id)) + 1
      BY <3>1, ClaimingFinite, FS_AddElement
    <3>3. \A u \in Threads : pc'[u] = "fill" => me'[u] # id
      BY <1>0, <1>1, <2>4, Undisturbed, QueueFound DEF SameTransit, Transit
    <3>4. kind[id] = "LV2_EVQ" /\ count[id] \in Nat /\ cnt[id] \in Int
      BY <1>0, <2>4, QueueFound DEF ObjInv, ObjTypeOK
    <3> QED BY <1>0, <1>3, <2>1, <2>4, <3>2, <3>3, <3>4, ClaimingFinite DEF BooksSane
  <2> QED BY <2>3, <2>4
<1>5. ObjTypeOK' /\ BrokenOnlyByMisuse'
  BY <1>0, <1>1, <1>3 DEF ObjInv, ObjTypeOK, BrokenOnlyByMisuse
<1> QED BY <1>1, <1>2, <1>4, <1>5 DEF ObjInv

\* A receiver that takes the event it claimed.
LEMMA TakeKeeps ==
  ASSUME ObjInv, NEW t \in Threads, Take(t)
  PROVE  ObjInv'
<1>0. /\ pc[t] = "take" /\ Return(t) /\ cnt' = [cnt EXCEPT ![me[t]] = @ - 1]
      /\ UNCHANGED <<kind, content, count, owner, depth, ref, holds, balance, misused>>
  BY DEF Take, vars, history
<1>a. pc[t] \in AtQueue /\ me[t] \in Ids /\ ~Idle(t) /\ pc[t] \notin Transit
  BY <1>0, QueueFound DEF AtQueue
<1>1. /\ FramesTypeOK' /\ CallsSane' /\ PointersSane'
      /\ \A u \in Threads : SameTransit(u)
  BY <1>0, <1>a, ReturnSane
<1>2. SectionsSane' /\ ContentsSane'
  BY <1>0, <1>1, SectionsKept, ContentsKept
<1>3. /\ cnt' \in [Ids -> Int] /\ cnt'[me[t]] = cnt[me[t]] - 1
      /\ \A i \in Ids \ {me[t]} : cnt'[i] = cnt[i]
  BY <1>0, <1>a DEF ObjInv, ObjTypeOK
<1>4. AllBooksSane'
  <2> SUFFICES ASSUME NEW id \in Ids \ misused PROVE BooksSane(id)'
    BY <1>0 DEF AllBooksSane
  <2>1. BooksSane(id)
    BY DEF ObjInv, AllBooksSane
  <2>2. Over(t) /\ \A u \in Threads \ {t} : Stays(u)
    BY <1>0, <1>a, ReturnKeeps
  <2>3. CASE id # me[t]
    <3>1. Claiming(id)' = Claiming(id)
      BY <1>0, <2>2, <2>3 DEF Claiming, Over, Stays
    <3> QED BY <1>0, <1>1, <1>3, <2>1, <2>3, <3>1 DEF BooksSane, SameTransit, Transit
  <2>4. CASE id = me[t]
    <3>1. Claiming(id)' = Claiming(id) \ {t} /\ t \in Claiming(id)
      BY <1>0, <2>2, <2>4 DEF Claiming, Over, Stays
    <3>2. Cardinality(Claiming(id)') = Cardinality(Claiming(id)) - 1
      BY <3>1, ClaimingFinite, FS_RemoveElement
    <3>3. \A u \in Threads : pc'[u] = "fill" => me'[u] # id
      BY <1>a, <1>1, <2>4, Undisturbed DEF SameTransit, Transit
    <3>4. kind[id] = "LV2_EVQ" /\ count[id] \in Nat /\ cnt[id] \in Int
      BY <1>a, <2>4, QueueFound DEF ObjInv, ObjTypeOK
    <3> QED BY <1>0, <1>3, <2>1, <2>4, <3>2, <3>3, <3>4, ClaimingFinite DEF BooksSane
  <2> QED BY <2>3, <2>4
<1>5. broken' \in BOOLEAN /\ (broken' => misused # {})
  BY <1>a, QueueFound DEF Take
<1>6. ObjTypeOK' /\ BrokenOnlyByMisuse'
  BY <1>0, <1>1, <1>3, <1>5 DEF ObjInv, ObjTypeOK, BrokenOnlyByMisuse
<1> QED BY <1>1, <1>2, <1>4, <1>6 DEF ObjInv

LEMMA ReceiveSteps ==
  ASSUME ObjInv, NEW t \in Threads, AwaitEnds(t) \/ PollQueue(t)
  PROVE  ObjInv'
<1>0. pc[t] \in {"awaiting", "tryreceive"} /\ pc[t] \in AtQueue
  BY DEF AwaitEnds, PollQueue, AtQueue
<1>1. AwaitEnds(t) => broken' \in BOOLEAN /\ (broken' => misused # {})
  BY DEF AwaitEnds, ObjInv, ObjTypeOK, BrokenOnlyByMisuse
<1>2. PollQueue(t) => broken' \in BOOLEAN /\ (broken' => misused # {})
  BY <1>0, QueueFound DEF PollQueue
<1>3. CASE /\ count[me[t]] > 0 /\ count' = [count EXCEPT ![me[t]] = @ - 1]
           /\ Goto(t, "take") /\ UNCHANGED <<what, me, mo, gone>>
  <2>1. UNCHANGED <<vars, content, cnt, owner, depth, ref, holds, history>>
    BY DEF AwaitEnds, PollQueue
  <2> QED BY <1>0, <1>1, <1>2, <1>3, <2>1, ClaimKeeps
<1>4. CASE PollQueue(t) /\ Return(t) /\ UNCHANGED count
  <2>1. /\ UNCHANGED <<vars, content, cnt, owner, depth, ref, holds, misused, balance>>
        /\ ~Idle(t) /\ pc[t] \notin Transit \cup {"take"}
    BY <1>0, <1>4 DEF PollQueue, history, Idle, Transit
  <2>2. Booked(t)
    BY <1>4, <2>1, QueueFound, <1>0 DEF Booked, ObjInv, ObjTypeOK
  <2> QED BY <1>2, <1>4, <2>1, <2>2, SemaphoreCall
<1> QED BY <1>3, <1>4 DEF AwaitEnds, PollQueue, Signalled
-----------------------------------------------------------------------------
\* A send fills the ring of the queue it found and releases its semaphore, or drops
\* the event and does neither.
LEMMA DeliverKeeps ==
  ASSUME ObjInv, NEW t \in Threads, Deliver(t)
  PROVE  ObjInv'
<1>0. /\ pc[t] = "deliver" /\ Return(t) /\ ~Idle(t)
      /\ pc[t] \notin Transit \cup {"take"} /\ me[t] \in Ids /\ mo[t] \in Ids /\ mo[t] # 0
      /\ UNCHANGED <<kind, content, owner, depth, ref, holds, balance, misused>>
  BY NIsPositive DEF Deliver, vars, history, Idle, Transit, ObjInv, CallsSane, CallSane
<1>1. /\ FramesTypeOK' /\ CallsSane' /\ PointersSane'
      /\ \A u \in Threads : SameTransit(u)
      /\ \A u \in Threads : /\ me[u] = me'[u] \/ pc[u] # "take"
                            /\ pc[u] = "take" <=> pc'[u] = "take"
  BY <1>0, ReturnSane
<1>2. SectionsSane' /\ ContentsSane'
  BY <1>0, <1>1, SectionsKept, ContentsKept
<1>3. mo[t] \notin misused => kind[mo[t]] = "LV2_EVQ" /\ content[mo[t]] = "open"
  BY <1>0, MoFound DEF MeantToo
<1>4. /\ count' \in [Ids -> Nat] /\ cnt' \in [Ids -> Int]
      /\ \A i \in Ids \ {mo[t]} : count'[i] = count[i] /\ cnt'[i] = cnt[i]
      /\ \/ count'[mo[t]] = count[mo[t]] + 1 /\ cnt'[mo[t]] = cnt[mo[t]] + 1
         \/ count'[mo[t]] = count[mo[t]] /\ cnt'[mo[t]] = cnt[mo[t]]
  BY <1>0 DEF Deliver, Drop, ObjInv, ObjTypeOK
<1>5. AllBooksSane'
  <2> SUFFICES ASSUME NEW id \in Ids \ misused PROVE BooksSane(id)'
    BY <1>0 DEF AllBooksSane
  <2>1. BooksSane(id) /\ Claiming(id)' = Claiming(id)
    BY <1>1 DEF ObjInv, AllBooksSane, Claiming
  <2>2. CASE id # mo[t]
    BY <1>0, <1>1, <1>4, <2>1, <2>2 DEF BooksSane, SameTransit, Transit
  <2>3. CASE id = mo[t]
    <3>1. \A u \in Threads : pc'[u] = "fill" => me'[u] # id
      BY <1>0, <1>1, <2>3, Undisturbed DEF SameTransit, Transit
    <3>2. count[id] \in Nat /\ cnt[id] \in Int
      BY DEF ObjInv, ObjTypeOK
    <3> QED BY <1>0, <1>3, <1>4, <2>1, <2>3, <3>1, <3>2, ClaimingFinite DEF BooksSane
  <2> QED BY <2>2, <2>3
<1>6. broken' \in BOOLEAN /\ (broken' => misused # {})
  <2>1. gone[t] \in BOOLEAN /\ (gone[t] => misused # {})
    BY DEF ObjInv, ObjTypeOK, FramesTypeOK, CallsSane, CallSane
  <2>2. BadQueue(mo[t]) \in BOOLEAN /\ (BadQueue(mo[t]) => misused # {})
    BY <1>3 DEF BadQueue, HasQueue, Recycled
  <2>3. Recycled(me[t], "LV2_EVPORT") => me[t] \in misused
    BY <1>0, MeFound DEF Meant, Transit, AtSemaphore, AtMutex, AtCond, WithMutex, AtQueue,
                         Recycled
  <2>4. broken' = (gone[t] \/ BadQueue(mo[t]) \/ Recycled(me[t], "LV2_EVPORT"))
    BY DEF Deliver
  <2> QED BY <2>1, <2>2, <2>3, <2>4
<1>7. ObjTypeOK' /\ BrokenOnlyByMisuse'
  BY <1>0, <1>1, <1>4, <1>6 DEF ObjInv, ObjTypeOK, BrokenOnlyByMisuse
<1> QED BY <1>1, <1>2, <1>5, <1>7 DEF ObjInv

LEMMA PortFound ==
  ASSUME ObjInv, NEW t \in Threads, pc[t] \in {"connect", "route"}
  PROVE  /\ me[t] \in Ids /\ mo[t] = 0 /\ ~Idle(t) /\ pc[t] \notin Transit \cup {"take"}
         /\ me[t] \notin misused => kind[me[t]] = "LV2_EVPORT"
         /\ Recycled(me[t], "LV2_EVPORT") \in BOOLEAN
         /\ Recycled(me[t], "LV2_EVPORT") => misused # {}
<1>1. /\ me[t] \in Ids /\ mo[t] = 0 /\ ~Idle(t) /\ pc[t] \notin Transit \cup {"take"}
  BY DEF Idle, Transit, ObjInv, CallsSane, CallSane, WithMutex
<1>2. me[t] \notin misused => kind[me[t]] = "LV2_EVPORT"
  BY <1>1, MeFound DEF Meant, Transit, AtSemaphore, AtMutex, AtCond, WithMutex, AtQueue
<1> QED BY <1>1, <1>2 DEF Recycled

LEMMA ConnectKeeps ==
  ASSUME ObjInv, NEW t \in Threads, Connect(t)
  PROVE  ObjInv'
<1>0. /\ pc[t] \in {"connect", "route"} /\ Return(t)
      /\ UNCHANGED <<kind, content, count, cnt, owner, depth, holds, balance, misused>>
      /\ ref' \in [Ids -> Ids \cup {0}]
  BY ZenonT(40) DEF Connect, vars, history, ObjInv, ObjTypeOK
<1>1. /\ FramesTypeOK' /\ CallsSane' /\ PointersSane'
      /\ \A u \in Threads : SameTransit(u)
      /\ \A u \in Threads : /\ me[u] = me'[u] \/ pc[u] # "take"
                            /\ pc[u] = "take" <=> pc'[u] = "take"
  BY <1>0, PortFound, ReturnSane
<1>2. SectionsSane' /\ ContentsSane' /\ AllBooksSane'
  BY <1>0, <1>1, SectionsKept, ContentsKept, BooksKept
<1>3. broken' \in BOOLEAN /\ (broken' => misused # {})
  BY <1>0, PortFound DEF Connect
<1>4. ObjTypeOK' /\ BrokenOnlyByMisuse'
  BY <1>0, <1>1, <1>3 DEF ObjInv, ObjTypeOK, BrokenOnlyByMisuse
<1> QED BY <1>1, <1>2, <1>4 DEF ObjInv

\* Steps that sleep or wake move threads, none of which is in a create or destroy.
LEMMA SleepStepsKeep ==
  ASSUME ObjInv, NEW t \in Threads, Sleep(t) \/ SleepTimesOut(t)
  PROVE  ObjInv'
<1> DEFINE where == IF pc[t] = "sleep" THEN "asleep" ELSE "reenter"
<1>0. /\ pc[t] \in {"sleep", "asleep"} /\ Goto(t, where)
      /\ UNCHANGED <<kind, content, count, cnt, ref, what, me, mo, gone, balance, misused>>
  BY DEF Sleep, SleepTimesOut, slots, vars, history
<1>a. /\ pc[t] \in AtCond /\ where \in AtCond /\ where \in Places /\ where # "sleep"
      /\ pc[t] \in WithMutex /\ where \in WithMutex
      /\ ~Idle(t) /\ me[t] \in Ids /\ mo[t] \in Ids /\ mo[t] # 0
  <2>1. /\ pc[t] \in WithMutex /\ where \in WithMutex /\ where # "sleep" /\ ~Idle(t)
    BY <1>0 DEF WithMutex, Idle
  <2>2. me[t] \in Ids /\ mo[t] \in Ids /\ mo[t] # 0
    BY <2>1, NIsPositive DEF ObjInv, CallsSane, CallSane
  <2> QED BY <2>1, <2>2 DEF AtCond, Places
<1>b. \/ Sleep(t) /\ LeaveSection(t, mo[t])
      \/ SameSection
  BY DEF Sleep, SleepTimesOut, SameSection, slots
<1> HIDE DEF where
<1>1. SectionsTypeOK' /\ \A u \in Threads \ {t} : \A i \in Ids : holds'[u][i] = holds[u][i]
  BY <1>a, <1>b, LeaveSectionEffect DEF SameSection, SectionsTypeOK, ObjInv, ObjTypeOK
<1>2. /\ FramesTypeOK' /\ CallsSane' /\ PointersSane'
      /\ \A u \in Threads : SameTransit(u)
  BY <1>0, <1>1, <1>a, GotoSane
<1>3. \A u \in Threads : /\ me[u] = me'[u] \/ pc[u] # "take"
                         /\ pc[u] = "take" <=> pc'[u] = "take"
  BY <1>0, <1>a DEF Goto, ObjInv, ObjTypeOK, FramesTypeOK, AtCond, WithMutex
<1>4. SectionsSane'
  BY <1>0, <1>2, <1>a, <1>b, LeaveSectionSane, SectionsKept DEF SameSection
<1>5. ContentsSane' /\ AllBooksSane'
  BY <1>0, <1>2, <1>3, ContentsKept, BooksKept
<1>6. broken' \in BOOLEAN /\ (broken' => misused # {})
  <2>1. CASE broken' = broken
    BY <2>1 DEF ObjInv, ObjTypeOK, BrokenOnlyByMisuse
  <2>2. mo[t] \notin misused =>
          \/ kind[mo[t]] = "LV2_MUTEX" /\ ~BadSection(mo[t]) /\ owner[mo[t]] = t
          \/ pc[t] # "sleep"
    <3>1. mo[t] \notin misused => kind[mo[t]] = "LV2_MUTEX" /\ content[mo[t]] = "open"
      BY <1>0, <1>a, MoFound DEF MeantToo
    <3>2. mo[t] \notin misused /\ pc[t] = "sleep" => owner[mo[t]] = t
      BY <1>a DEF ObjInv, CallsSane, CallSane, SectionsSane, SectionSane
    <3> QED BY <3>1, <3>2 DEF BadSection, Recycled
  <2>3. me[t] \notin misused => ~Recycled(me[t], "LV2_COND")
    BY <1>a, MeFound DEF Meant, Transit, AtSemaphore, AtMutex, AtCond, WithMutex, Recycled
  <2>4. CASE /\ pc[t] = "sleep" /\ broken' = TRUE
             /\ BadSection(mo[t]) \/ owner[mo[t]] # t \/ Recycled(me[t], "LV2_COND")
    BY <2>2, <2>3, <2>4
  <2> QED BY <2>1, <2>4 DEF Sleep, SleepTimesOut
<1>7. ObjTypeOK' /\ BrokenOnlyByMisuse'
  BY <1>0, <1>1, <1>2, <1>6 DEF ObjInv, ObjTypeOK, SectionsTypeOK, BrokenOnlyByMisuse
<1> QED BY <1>2, <1>4, <1>5, <1>7 DEF ObjInv

LEMMA WakeKeeps ==
  ASSUME ObjInv, NEW t \in Threads, Wake(t)
  PROVE  ObjInv'
<1>0. /\ pc[t] \in {"wake", "wake all"} /\ me' = [me EXCEPT ![t] = 0]
      /\ gone' = [gone EXCEPT ![t] = FALSE]
      /\ UNCHANGED <<kind, content, count, cnt, owner, depth, ref, what, mo, holds>>
      /\ UNCHANGED <<balance, misused>>
  BY DEF Wake, slots, vars, history
<1>1. PICK us \in Woken(t) :
        pc' = [u \in Threads |-> IF u = t THEN "idle"
                                 ELSE IF u \in us THEN "reenter" ELSE pc[u]]
  BY DEF Wake
<1>2. us \subseteq Sleepers(me[t])
  BY DEF Woken
<1>3. \A u \in Threads : u \in us => pc[u] = "asleep"
  BY <1>2 DEF Sleepers
<1>4. FramesTypeOK'
  BY <1>0, <1>1 DEF ObjInv, ObjTypeOK, FramesTypeOK, Places, AtCond, WithMutex
<1>5. pc'[t] = "idle" /\ me'[t] = 0 /\ mo'[t] = 0 /\ ~gone'[t]
  BY <1>0, <1>1 DEF ObjInv, ObjTypeOK, FramesTypeOK, CallsSane, CallSane, WithMutex
<1>6. ASSUME NEW u \in Threads \ {t}
      PROVE  /\ me'[u] = me[u] /\ mo'[u] = mo[u] /\ gone'[u] = gone[u] /\ what'[u] = what[u]
             /\ pc'[u] = pc[u] \/ (pc[u] = "asleep" /\ pc'[u] = "reenter")
  BY <1>0, <1>1, <1>3 DEF ObjInv, ObjTypeOK, FramesTypeOK
<1>7. ASSUME NEW u \in Threads
      PROVE  /\ SameTransit(u) /\ CallSane(u)'
             /\ Drops(u) \/ Keeps(u)
             /\ me[u] = me'[u] \/ pc[u] # "take"
             /\ pc[u] = "take" <=> pc'[u] = "take"
  <2>1. CASE u = t
    BY <1>0, <1>5, <2>1 DEF SameTransit, Transit, Drops, Idle, CallSane, WithMutex
  <2>2. CASE u # t /\ pc'[u] = pc[u]
    <3>1. Stays(u)
      BY <1>6, <2>2 DEF Stays
    <3> QED BY <1>0, <3>1, StayingKeeps, StayingTransit, OthersSane DEF Stays
  <2>3. CASE u # t /\ pc[u] = "asleep" /\ pc'[u] = "reenter"
    <3>1. SameTransit(u) /\ Keeps(u)
      BY <1>6, <2>3 DEF SameTransit, Keeps, Transit, Idle, Meant, MeantToo, AtSemaphore, AtMutex,
                        AtCond, WithMutex
    <3>2. CallSane(u) /\ misused' = misused
      BY <1>0 DEF ObjInv, CallsSane
    <3>3. /\ me[u] \in Ids /\ mo[u] \in Ids
          /\ gone[u] => me[u] \in misused \/ mo[u] \in misused
      BY <2>3, <3>2 DEF CallSane, Idle, WithMutex
    <3>4. CallSane(u)'
      BY <1>6, <2>3, <3>2, <3>3 DEF CallSane, Idle, WithMutex
    <3> QED BY <2>3, <3>1, <3>4
  <2> QED BY <1>6, <2>1, <2>2, <2>3
<1>8. CallsSane' /\ PointersSane'
  BY <1>0, <1>7, PointersKept DEF CallsSane
<1>9. SectionsSane' /\ ContentsSane' /\ AllBooksSane'
  BY <1>0, <1>7, SectionsKept, ContentsKept, BooksKept
<1>10. broken' \in BOOLEAN /\ (broken' => misused # {})
  <2>1. me[t] \notin misused => ~Recycled(me[t], "LV2_COND")
    BY <1>0, MeFound DEF Meant, Transit, AtSemaphore, AtMutex, AtCond, Recycled, Idle
  <2> QED BY <2>1 DEF Wake, Recycled
<1>11. ObjTypeOK' /\ BrokenOnlyByMisuse'
  BY <1>0, <1>4, <1>10 DEF ObjInv, ObjTypeOK, BrokenOnlyByMisuse
<1> QED BY <1>4, <1>8, <1>9, <1>11 DEF ObjInv
-----------------------------------------------------------------------------
\* A call that looks its objects up.  If one of them is being created or destroyed by
\* somebody else, it is misused from now on.
LEMMA LookUpKeeps ==
  ASSUME ObjInv, NEW t \in Threads, NEW id \in Ids, NEW other \in Ids \cup {0},
         NEW where \in Places \ (Transit \cup {"idle", "take"}), LookUp(t, id, other, where),
         UNCHANGED <<kind, what, gone, slots, holds, balance>>,
         Idle(t) \/ (pc[t] = "route" /\ me[t] = id),
         id \notin misused => kind[id] = Meant(t)',
         other # 0 => kind[other] = MeantToo(t)',
         where \in WithMutex \cup {"deliver"} <=> other # 0,
         where = "leave" => holds[t][id] > 0,
         where = "sleep" => holds[t][other] > 0,
         broken' \in BOOLEAN, broken' => misused' # {}
  PROVE  ObjInv'
<1>0. UNCHANGED <<kind, what, gone, content, count, cnt, owner, depth, ref, holds, balance>>
  BY DEF slots
<1>1. /\ pc'[t] = where /\ me'[t] = id /\ mo'[t] = other /\ FramesTypeOK'
      /\ \A u \in Threads \ {t} : Stays(u)
  BY <1>0 DEF LookUp, Goto, Stays, ObjInv, ObjTypeOK, FramesTypeOK
<1>2. misused \subseteq misused' /\ misused' \in SUBSET Ids
  BY DEF LookUp, Misuse, ObjInv, ObjTypeOK
<1>3. \A i \in Ids \ misused' : i \in {id, other} => ~InTransit(t, i)
  BY NIsPositive DEF LookUp, Misuse
<1>4. \A u \in Threads : /\ SameTransit(u)
                         /\ me[u] = me'[u] \/ pc[u] # "take"
                         /\ pc[u] = "take" <=> pc'[u] = "take"
  <2>1. /\ SameTransit(t)
        /\ me[t] = me'[t] \/ pc[t] # "take"
        /\ pc[t] = "take" <=> pc'[t] = "take"
    BY <1>1 DEF SameTransit, Transit, Idle
  <2> QED BY <1>1, <2>1, StayingTransit DEF Stays
<1>5. SectionsSane' /\ ContentsSane' /\ AllBooksSane'
  BY <1>0, <1>2, <1>4, SectionsKept, ContentsKept, BooksKept
<1>6. CallsSane'
  <2>1. CallSane(t)'
    <3>1. gone[t] => id \in misused
      <4>1. CallSane(t) /\ (pc[t] = "route" => mo[t] = 0)
        BY PortFound DEF ObjInv, CallsSane
      <4>2. 0 \notin misused
        BY NIsPositive DEF ObjInv, ObjTypeOK
      <4> QED BY <4>1, <4>2 DEF CallSane
    <3> QED BY <1>0, <1>1, <1>2, <3>1 DEF CallSane, Idle, Transit
  <2> QED BY <1>0, <1>1, <1>2, <2>1, OthersSane DEF CallsSane
<1>7. PointersSane'
  <2> SUFFICES ASSUME NEW i \in Ids \ misused', NEW u \in Threads
               PROVE  PointerSane(u, i)'
    BY DEF PointersSane
  <2>1. CASE u = t
    BY <1>0, <1>1, <1>2, <2>1, NIsPositive DEF PointerSane
  <2>2. CASE u # t
    <3>1. PointerSane(u, i) /\ Stays(u)
      BY <1>1, <1>2, <2>2 DEF ObjInv, PointersSane
    <3>2. (me[u] = i => kind[i] = Meant(u))' /\ (mo[u] = i => kind[i] = MeantToo(u))'
      BY <1>0, <3>1 DEF PointerSane, Stays, Meant, MeantToo
    <3>3. ASSUME pc'[u] \in Transit, me'[u] = i, NEW v \in Threads \ {u}, Touches(v, i)'
          PROVE  FALSE
      <4>1. pc[u] \in Transit /\ me[u] = i /\ Touches(u, i)
        BY <3>1, <3>3 DEF Stays, Touches, Idle, Transit
      <4>2. CASE v = t
        BY <1>1, <1>3, <2>2, <3>3, <4>1, <4>2 DEF Touches, InTransit, Transit
      <4>3. CASE v # t
        <5>1. Stays(v)
          BY <1>1, <4>3
        <5> QED BY <3>1, <3>3, <4>1, <5>1 DEF PointerSane, Touches, Idle, Stays
      <4> QED BY <4>2, <4>3
    <3> QED BY <3>2, <3>3 DEF PointerSane
  <2> QED BY <2>1, <2>2
<1>8. ObjTypeOK' /\ BrokenOnlyByMisuse'
  BY <1>0, <1>1, <1>2 DEF ObjInv, ObjTypeOK, BrokenOnlyByMisuse
<1> QED BY <1>1, <1>5, <1>6, <1>7, <1>8 DEF ObjInv

LEMMA CallKeeps ==
  ASSUME ObjInv, NEW t \in Threads, NEW id, NEW k, NEW where, CallOn(t, id, k, where),
         \/ k = "LV2_SEM" /\ where \in {"wait", "poll", "post"}
         \/ k = "LV2_MUTEX" /\ where \in AtMutex
         \/ k = "LV2_COND" /\ where \in {"wake", "wake all"}
         \/ k = "LV2_EVQ" /\ where \in {"receive", "tryreceive"}
         \/ k = "LV2_EVPORT" /\ where \in {"connect", "route"},
         where = "leave" => holds[t][id] > 0
  PROVE  ObjInv'
<1>0. /\ Idle(t) /\ id \in Ids /\ kind[id] = k /\ LookUp(t, id, 0, where) /\ broken' = broken
      /\ UNCHANGED <<kind, what, gone, slots, holds, balance>>
  BY DEF CallOn, Hit, vars
<1>1. where \in Places \ (Transit \cup {"idle", "take"} \cup WithMutex \cup {"deliver"})
  BY DEF AtMutex, Transit, WithMutex, Places, AtSemaphore, AtCond, AtQueue, AtPort
<1>2. pc'[t] = where
  BY <1>0 DEF LookUp, Goto, ObjInv, ObjTypeOK, FramesTypeOK
<1>3. k = Meant(t)'
  BY <1>2 DEF Meant, AtMutex, Transit, WithMutex, AtSemaphore, AtCond, AtQueue
<1>4. broken' \in BOOLEAN /\ (broken' => misused' # {})
  <2>1. broken \in BOOLEAN /\ (broken => misused # {}) /\ misused \subseteq misused'
    BY <1>0 DEF ObjInv, ObjTypeOK, BrokenOnlyByMisuse, LookUp, Misuse
  <2>2. misused # {} => misused' # {}
    BY <2>1
  <2> QED BY <1>0, <2>1, <2>2
<1>5. 0 \in Ids \cup {0} /\ where # "sleep"
  BY <1>1 DEF WithMutex
<1> QED BY <1>0, <1>1, <1>3, <1>4, <1>5, LookUpKeeps

LEMMA CondWaitKeeps ==
  ASSUME ObjInv, NEW t \in Threads, NEW id, sys_cond_wait(t, id)
  PROVE  ObjInv'
<1>0. /\ Idle(t) /\ id \in Ids /\ kind[id] = "LV2_COND" /\ broken' = broken
      /\ ref[id] \in Ids /\ kind[ref[id]] = "LV2_MUTEX" /\ holds[t][ref[id]] > 0
      /\ LookUp(t, id, ref[id], "sleep")
      /\ UNCHANGED <<kind, what, gone, slots, holds, balance>>
  BY DEF sys_cond_wait, Hit, vars
<1>1. "sleep" \in Places \ (Transit \cup {"idle", "take"}) /\ "sleep" \in WithMutex
  BY DEF Transit, WithMutex, Places, AtCond
<1>2. pc'[t] = "sleep"
  BY <1>0 DEF LookUp, Goto, ObjInv, ObjTypeOK, FramesTypeOK
<1>3. Meant(t)' = "LV2_COND" /\ MeantToo(t)' = "LV2_MUTEX"
  BY <1>2 DEF Meant, MeantToo, AtMutex, Transit, WithMutex, AtSemaphore, AtCond
<1>4. broken' \in BOOLEAN /\ (broken' => misused' # {})
  <2>1. broken \in BOOLEAN /\ (broken => misused # {}) /\ misused \subseteq misused'
    BY <1>0 DEF ObjInv, ObjTypeOK, BrokenOnlyByMisuse, LookUp, Misuse
  <2>2. misused # {} => misused' # {}
    BY <2>1
  <2> QED BY <1>0, <2>1, <2>2
<1>5. ref[id] \in Ids \cup {0} /\ ref[id] # 0
  BY <1>0, NIsPositive
<1> QED BY <1>0, <1>1, <1>3, <1>4, <1>5, LookUpKeeps

LEMMA RouteKeeps ==
  ASSUME ObjInv, NEW t \in Threads, Route(t)
  PROVE  ObjInv'
<1> DEFINE q == ref[me[t]]
<1>0. /\ pc[t] = "route" /\ me[t] \in Ids /\ mo[t] = 0 /\ ~Idle(t)
      /\ pc[t] \notin Transit \cup {"take"}
      /\ UNCHANGED <<kind, content, count, cnt, owner, depth, ref, holds, balance>>
      /\ UNCHANGED <<vars, slots, holds, balance>>
  BY PortFound DEF Route, slots, vars
<1>1. broken' \in BOOLEAN /\ (broken' => misused # {})
  BY <1>0, PortFound DEF Route
<1>2. CASE Return(t) /\ UNCHANGED misused
  <2>1. Booked(t)
    BY <1>0 DEF Booked, ObjInv, ObjTypeOK
  <2> QED BY <1>0, <1>1, <1>2, <2>1, SemaphoreCall
<1>3. CASE /\ Hit(q, "LV2_EVQ") /\ LookUp(t, me[t], q, "deliver")
           /\ UNCHANGED <<what, gone>>
  <2>1. q \in Ids /\ q \in Ids \cup {0} /\ q # 0 /\ kind[q] = "LV2_EVQ"
    BY <1>3, NIsPositive DEF Hit
  <2>2. "deliver" \in Places \ (Transit \cup {"idle", "take"})
    BY DEF Transit, Places, AtPort
  <2>3. pc'[t] = "deliver" /\ misused \subseteq misused'
    BY <1>3 DEF LookUp, Misuse, Goto, ObjInv, ObjTypeOK, FramesTypeOK
  <2>4. Meant(t)' = "LV2_EVPORT" /\ MeantToo(t)' = "LV2_EVQ"
    BY <2>3 DEF Meant, MeantToo, AtMutex, Transit, WithMutex, AtSemaphore, AtCond, AtQueue
  <2>5. me[t] \notin misused => kind[me[t]] = "LV2_EVPORT"
    BY <1>0, PortFound
  <2>6. broken' => misused' # {}
    BY <1>1, <2>3
  <2>7. /\ UNCHANGED <<kind, what, gone, slots, holds, balance>> /\ "deliver" # "leave"
        /\ "deliver" # "sleep"
    BY <1>0, <1>3
  <2> HIDE DEF q
  <2> QED BY <1>0, <1>1, <1>3, <2>1, <2>2, <2>4, <2>5, <2>6, <2>7, LookUpKeeps
<1> QED BY <1>2, <1>3 DEF Route

LEMMA BeginKeeps ==
  ASSUME ObjInv, NEW t \in Threads, NEW id \in Ids, Begin(t, id)
  PROVE  ObjInv'
<1>1. CASE sys_semaphore_wait(t, id) \/ sys_semaphore_trywait(t, id) \/ sys_semaphore_post(t, id)
  BY <1>1, CallKeeps DEF sys_semaphore_wait, sys_semaphore_trywait, sys_semaphore_post
<1>2. CASE sys_mutex_lock(t, id) \/ sys_mutex_trylock(t, id) \/ sys_mutex_unlock(t, id)
  BY <1>2, CallKeeps DEF sys_mutex_lock, sys_mutex_trylock, sys_mutex_unlock, AtMutex
<1>3. CASE sys_cond_wait(t, id)
  BY <1>3, CondWaitKeeps
<1>4. ASSUME NEW all \in BOOLEAN, sys_cond_signal(t, id, all) PROVE ObjInv'
  BY <1>4, CallKeeps DEF sys_cond_signal
<1>5. CASE sys_event_queue_receive(t, id) \/ sys_event_queue_tryreceive(t, id)
  BY <1>5, CallKeeps DEF sys_event_queue_receive, sys_event_queue_tryreceive
<1>6. CASE sys_event_port_connect_local(t, id) \/ sys_event_port_send(t, id)
  BY <1>6, CallKeeps DEF sys_event_port_connect_local, sys_event_port_send
<1> QED BY <1>1, <1>2, <1>3, <1>4, <1>5, <1>6 DEF Begin
-----------------------------------------------------------------------------
(***************************************************************************)
(* Creation and destruction.                                               *)
(***************************************************************************)
\* Nobody holds a pointer to a free slot, and only one thread to a slot in transit.
LEMMA FreeUntouched ==
  ASSUME ObjInv, NEW id \in Ids \ misused, kind[id] = LV2_FREE, NEW u \in Threads
  PROVE  ~Touches(u, id) /\ owner[id] = NULL /\ me[u] # id /\ mo[u] # id
<1>1. ~Idle(u) => Meant(u) \in AllKinds
  BY DEF ObjInv, CallsSane, CallSane, Idle, Meant, Transit, AllKinds, Opened
<1>2. PointerSane(u, id) /\ SectionSane(id) /\ CallSane(u) /\ id # 0
  BY NIsPositive DEF ObjInv, PointersSane, SectionsSane, CallsSane
<1>3. owner[id] = NULL
  BY <1>2, ObjectKinds DEF SectionSane, AllKinds
<1>4. Idle(u) => me[u] = 0 /\ mo[u] = 0
  BY <1>2 DEF CallSane, Idle, WithMutex
<1>5. me[u] # id /\ mo[u] # id
  BY <1>1, <1>2, <1>4, ObjectKinds DEF PointerSane, MeantToo, AllKinds
<1> QED BY <1>3, <1>5 DEF Touches

LEMMA TransitAlone ==
  ASSUME ObjInv, NEW t \in Threads, pc[t] \in Transit, me[t] \notin misused,
         NEW u \in Threads \ {t}
  PROVE  ~Touches(u, me[t]) /\ me[u] # me[t] /\ mo[u] # me[t]
<1>1. me[t] \in Ids /\ me[t] # 0 /\ ~Idle(t)
  BY NIsPositive DEF ObjInv, CallsSane, CallSane, Idle, Transit
<1>2. ~Touches(u, me[t])
  BY <1>1 DEF ObjInv, PointersSane, PointerSane
<1>3. Idle(u) => me[u] = 0 /\ mo[u] = 0
  BY DEF ObjInv, CallsSane, CallSane, Idle, WithMutex
<1> QED BY <1>1, <1>2, <1>3 DEF Touches

LEMMA CreateKeeps ==
  ASSUME ObjInv, NEW t \in Threads, NEW k \in AllKinds, Create(t, k)
  PROVE  ObjInv'
<1>0. PICK id \in Ids :
       /\ TakeSlot(k, id)
       /\ content' = [content EXCEPT ![id] = "zero"]
       /\ count' = [count EXCEPT ![id] = 0] /\ cnt' = [cnt EXCEPT ![id] = 0]
       /\ owner' = [owner EXCEPT ![id] = NULL] /\ depth' = [depth EXCEPT ![id] = 0]
       /\ ref' = [ref EXCEPT ![id] = 0]
       /\ balance' = [balance EXCEPT ![id] = 0]
       /\ me' = [me EXCEPT ![t] = id]
       /\ gone' = [u \in Threads |-> gone[u] \/ (Touches(u, id) /\ pc[u] \in Waits)]
  BY DEF Create
<1>1. /\ kind[id] = LV2_FREE /\ kind' = [kind EXCEPT ![id] = k]
      /\ Idle(t) /\ Goto(t, "fill") /\ what' = [what EXCEPT ![t] = k]
      /\ UNCHANGED <<mo, holds, misused, broken>>
  BY <1>0 DEF Create, TakeSlot, FirstFree, IsFree
<1>2. /\ ObjTypeOK /\ FramesTypeOK
  BY DEF ObjInv, ObjTypeOK
<1>3. /\ pc'[t] = "fill" /\ me'[t] = id /\ mo'[t] = mo[t] /\ what'[t] = k
      /\ \A u \in Threads \ {t} : /\ pc'[u] = pc[u] /\ me'[u] = me[u] /\ mo'[u] = mo[u]
                                  /\ what'[u] = what[u]
  BY <1>0, <1>1, <1>2 DEF Goto, FramesTypeOK
<1>4. \A u \in Threads : gone'[u] = (gone[u] \/ (Touches(u, id) /\ pc[u] \in Waits))
  BY <1>0
<1>5. CallSane(t) /\ mo[t] = 0 /\ me[t] = 0 /\ ~gone[t]
  BY <1>1 DEF ObjInv, CallsSane, CallSane, Idle, WithMutex
<1>6. ObjTypeOK'
  <2>1. \A u \in Threads : gone'[u] \in BOOLEAN
    BY <1>4
  <2>2. gone' \in [Threads -> BOOLEAN]
    BY <1>0, <2>1
  <2>3. FramesTypeOK'
    BY <1>0, <1>1, <1>2, <2>2 DEF FramesTypeOK, Goto, Places, Transit
  <2> QED BY <1>0, <1>1, <1>2, <2>3 DEF ObjTypeOK
<1>7. BrokenOnlyByMisuse'
  BY <1>1 DEF ObjInv, BrokenOnlyByMisuse
<1>8. CallsSane'
  <2> SUFFICES ASSUME NEW u \in Threads PROVE CallSane(u)'
    BY DEF CallsSane
  <2>1. CASE u = t
    <3>1. ~gone'[t]
      BY <1>1, <1>4, <1>5 DEF Touches
    <3> QED BY <1>1, <1>3, <1>5, <2>1, <3>1 DEF CallSane, Idle, WithMutex
  <2>2. CASE u # t
    <3>1. CallSane(u)
      BY DEF ObjInv, CallsSane
    <3>2. gone'[u] => me[u] \in misused \/ mo[u] \in misused
      <4>1. Touches(u, id) => id \in misused /\ id \in {me[u], mo[u]}
        BY <1>1, FreeUntouched DEF Touches
      <4> QED BY <1>4, <3>1, <4>1 DEF CallSane
    <3>3. Idle(u) => ~gone'[u]
      BY <1>4, <3>1 DEF CallSane, Touches
    <3> QED BY <1>1, <1>3, <2>2, <3>1, <3>2, <3>3 DEF CallSane, Idle
  <2> QED BY <2>1, <2>2
<1>9. PointersSane'
  <2> SUFFICES ASSUME NEW i \in Ids \ misused, NEW u \in Threads PROVE PointerSane(u, i)'
    BY <1>1 DEF PointersSane
  <2>1. i # 0
    BY NIsPositive
  <2>2. CASE i = id
    <3>1. \A v \in Threads : me[v] # id /\ mo[v] # id
      BY <1>1, <2>2, FreeUntouched
    <3>2. CASE u = t
      BY <1>1, <1>2, <1>3, <1>5, <2>1, <2>2, <3>1, <3>2
         DEF PointerSane, Meant, Transit, Touches, ObjTypeOK
    <3>3. CASE u # t
      BY <1>3, <2>2, <3>1, <3>3 DEF PointerSane
    <3> QED BY <3>2, <3>3
  <2>3. CASE i # id /\ u = t
    BY <1>3, <1>5, <2>1, <2>3 DEF PointerSane
  <2>4. CASE i # id /\ u # t
    <3>1. PointerSane(u, i) /\ kind'[i] = kind[i]
      BY <1>1, <1>2, <2>4 DEF ObjInv, PointersSane, ObjTypeOK
    <3>2. \A v \in Threads : Touches(v, i)' => Touches(v, i)
      BY <1>3, <1>5, <2>1, <2>4 DEF Touches, Idle
    <3> QED BY <1>3, <2>4, <3>1, <3>2 DEF PointerSane, Meant, MeantToo
  <2> QED BY <2>2, <2>3, <2>4
<1>10. SectionsSane'
  <2> SUFFICES ASSUME NEW i \in Ids \ misused PROVE SectionSane(i)'
    BY <1>1 DEF SectionsSane
  <2>1. SectionSane(i)
    BY DEF ObjInv, SectionsSane
  <2>2. CASE i = id
    <3>1. owner[id] = NULL
      BY <1>1, <2>2, FreeUntouched
    <3> QED BY <1>0, <1>1, <1>2, <2>1, <2>2, <3>1, ObjectKinds DEF SectionSane, ObjTypeOK
  <2>3. CASE i # id
    BY <1>0, <1>1, <1>2, <1>3, <2>1, <2>3 DEF SectionSane, ObjTypeOK
  <2> QED BY <2>2, <2>3
<1>11. ContentsSane'
  <2> SUFFICES ASSUME NEW i \in Ids \ misused PROVE ContentSane(i)'
    BY <1>1 DEF ContentsSane
  <2>1. CASE i = id
    BY <1>3, <2>1 DEF ContentSane
  <2>2. CASE i # id
    <3>1. ContentSane(i) /\ kind'[i] = kind[i] /\ content'[i] = content[i]
      BY <1>0, <1>1, <1>2, <2>2 DEF ObjInv, ContentsSane, ObjTypeOK
    <3>2. \A u \in Threads : pc[u] \in {"fill", "free"} => u # t
      BY <1>1 DEF Idle
    <3> QED BY <1>3, <3>1, <3>2 DEF ContentSane
  <2> QED BY <2>1, <2>2
<1>12. AllBooksSane'
  <2> SUFFICES ASSUME NEW i \in Ids \ misused PROVE BooksSane(i)'
    BY <1>1 DEF AllBooksSane
  <2>1. CASE i = id
    BY <1>0, <1>2, <2>1 DEF BooksSane, ObjTypeOK
  <2>2. CASE i # id
    <3>1. /\ BooksSane(i) /\ kind'[i] = kind[i] /\ content'[i] = content[i]
          /\ count'[i] = count[i] /\ cnt'[i] = cnt[i] /\ balance'[i] = balance[i]
      BY <1>0, <1>1, <1>2, <2>2 DEF ObjInv, AllBooksSane, ObjTypeOK
    <3>2. Claiming(i)' = Claiming(i)
      BY <1>1, <1>3 DEF Claiming, Idle
    <3> QED BY <1>3, <2>2, <3>1, <3>2 DEF BooksSane
  <2> QED BY <2>1, <2>2
<1> QED BY <1>6, <1>7, <1>8, <1>9, <1>10, <1>11, <1>12 DEF ObjInv

\* A destroy begins.  If somebody uses the object or is inside of it, or there is none,
\* it is misused.
LEMMA DestroyBegins ==
  ASSUME ObjInv, NEW t \in Threads, NEW id \in Ids, NEW k \in Opened,
         NEW where \in {"close", "free"}, Idle(t), Goto(t, where),
         me' = [me EXCEPT ![t] = id], what' = [what EXCEPT ![t] = k],
         UNCHANGED <<kind, content, count, cnt, owner, depth, ref, mo, gone, holds, balance>>,
         UNCHANGED broken, misused \subseteq misused', misused' \in SUBSET Ids,
         id \notin misused' =>
           /\ kind[id] = k /\ where = "close" /\ ~Busy(t, id) /\ owner[id] = NULL
  PROVE  ObjInv'
<1>0. /\ Idle(t) /\ Goto(t, where)
      /\ me' = [me EXCEPT ![t] = id] /\ what' = [what EXCEPT ![t] = k]
      /\ UNCHANGED <<kind, content, count, cnt, owner, depth, ref, mo, gone, holds, balance>>
      /\ UNCHANGED broken
  OBVIOUS
<1>1. /\ misused \subseteq misused' /\ misused' \in SUBSET Ids
      /\ id \notin misused' =>
           /\ kind[id] = k /\ where = "close" /\ ~Busy(t, id) /\ owner[id] = NULL
  OBVIOUS
<1>2. /\ pc'[t] = where /\ me'[t] = id /\ mo'[t] = mo[t] /\ what'[t] = k /\ gone'[t] = gone[t]
      /\ \A u \in Threads \ {t} : Stays(u)
  BY <1>0 DEF Goto, Stays, ObjInv, ObjTypeOK, FramesTypeOK
<1>3. CallSane(t) /\ mo[t] = 0 /\ me[t] = 0 /\ ~gone[t]
  BY <1>0 DEF ObjInv, CallsSane, CallSane, Idle, WithMutex
<1>4. ObjTypeOK' /\ BrokenOnlyByMisuse'
  <2>1. FramesTypeOK'
    BY <1>0 DEF ObjInv, ObjTypeOK, FramesTypeOK, Goto, Places, Transit, Opened, AllKinds
  <2> QED BY <1>0, <1>1, <2>1 DEF ObjInv, ObjTypeOK, BrokenOnlyByMisuse
<1>5. CallsSane'
  <2>1. CallSane(t)'
    BY <1>2, <1>3 DEF CallSane, Idle, WithMutex
  <2> QED BY <1>0, <1>1, <1>2, <2>1, OthersSane DEF CallsSane
<1>6. PointersSane'
  <2> SUFFICES ASSUME NEW i \in Ids \ misused', NEW u \in Threads PROVE PointerSane(u, i)'
    BY DEF PointersSane
  <2>0. i # 0
    BY NIsPositive
  <2>1. CASE u = t
    <3>1. i = id => \A v \in Threads \ {t} : ~Touches(v, i)'
      BY <1>1, <1>2 DEF Busy, Touches, Stays, Idle
    <3> QED BY <1>0, <1>2, <1>3, <2>0, <2>1, <3>1 DEF PointerSane, Meant, Transit
  <2>2. CASE u # t
    <3>1. PointerSane(u, i) /\ Stays(u)
      BY <1>1, <1>2, <2>2 DEF ObjInv, PointersSane
    <3>2. (me[u] = i => kind[i] = Meant(u))' /\ (mo[u] = i => kind[i] = MeantToo(u))'
      BY <1>0, <3>1 DEF PointerSane, Stays, Meant, MeantToo
    <3>3. ASSUME pc'[u] \in Transit, me'[u] = i, NEW v \in Threads \ {u}, Touches(v, i)'
          PROVE  FALSE
      <4>1. pc[u] \in Transit /\ me[u] = i /\ Touches(u, i)
        BY <3>1, <3>3 DEF Stays, Touches, Idle, Transit
      <4>2. CASE v = t
        BY <1>1, <1>2, <1>3, <2>0, <2>2, <3>3, <4>1, <4>2 DEF Touches, Busy
      <4>3. CASE v # t
        <5>1. Stays(v)
          BY <1>2, <4>3
        <5> QED BY <3>1, <3>3, <4>1, <5>1 DEF PointerSane, Touches, Idle, Stays
      <4> QED BY <4>2, <4>3
    <3> QED BY <3>2, <3>3 DEF PointerSane
  <2> QED BY <2>1, <2>2
<1>7. SectionsSane'
  BY <1>0, <1>1, <1>2 DEF ObjInv, SectionsSane, SectionSane, Stays
<1>8. ContentsSane'
  <2>1. \A u \in Threads : pc[u] \in {"fill", "free"} => pc'[u] = pc[u] /\ me'[u] = me[u]
    BY <1>0, <1>2 DEF Stays, Idle
  <2> QED BY <1>0, <1>1, <2>1 DEF ObjInv, ContentsSane, ContentSane
<1>9. AllBooksSane'
  <2> SUFFICES ASSUME NEW i \in Ids \ misused' PROVE BooksSane(i)'
    BY DEF AllBooksSane
  <2>1. Claiming(i)' = Claiming(i)
    BY <1>0, <1>2 DEF Claiming, Stays, Idle
  <2>2. \A u \in Threads : pc'[u] = "fill" => pc[u] = "fill" /\ me'[u] = me[u]
    BY <1>2 DEF Stays
  <2> QED BY <1>0, <1>1, <2>1, <2>2 DEF ObjInv, AllBooksSane, BooksSane
<1> QED BY <1>4, <1>5, <1>6, <1>7, <1>8, <1>9 DEF ObjInv

LEMMA DestroyKeeps ==
  ASSUME ObjInv, NEW t \in Threads, NEW id \in Ids, NEW k \in Opened, Destroy(t, id, k)
  PROVE  ObjInv'
<1>1. /\ misused \subseteq misused' /\ misused' \in SUBSET Ids
      /\ id \notin misused' => ~Busy(t, id) /\ owner[id] = NULL
  BY DEF Destroy, Misuse, ObjInv, ObjTypeOK
<1> QED BY <1>1, DestroyBegins DEF Destroy, Hit, vars, slots

LEMMA DestroyNothingKeeps ==
  ASSUME ObjInv, NEW t \in Threads, NEW id \in Ids, DestroyNothing(t, id)
  PROVE  ObjInv'
<1>1. misused \subseteq misused' /\ misused' \in SUBSET Ids /\ id \in misused'
  BY DEF DestroyNothing, Misuse, ObjInv, ObjTypeOK
<1> QED BY <1>1, DestroyBegins DEF DestroyNothing, Opened, vars, slots

\* Closing what nobody else touches breaks nothing and takes nothing away.
LEMMA CloseKeeps ==
  ASSUME ObjInv, NEW t \in Threads, Close(t)
  PROVE  ObjInv'
<1> DEFINE id == me[t]
<1>0. /\ pc[t] = "close" /\ Goto(t, "free")
      /\ content' = [content EXCEPT ![id] = Closed(id)]
      /\ count' = [count EXCEPT ![id] = 0] /\ cnt' = [cnt EXCEPT ![id] = 0]
      /\ gone' = [u \in Threads |-> gone[u] \/ (u # t /\ Touches(u, id))]
      /\ broken' = (Recycled(id, what[t]) \/ ~Closable(id, what[t]))
      /\ UNCHANGED <<kind, owner, depth, ref, what, me, mo, holds, balance, misused>>
  BY DEF Close, vars, history
<1>1. /\ pc[t] \in Transit /\ ~Idle(t) /\ id \in Ids /\ what[t] \in Opened
      /\ Meant(t) = what[t] /\ CallSane(t)
  BY <1>0 DEF Transit, Idle, ObjInv, CallsSane, CallSane, Meant
<1>2. /\ pc'[t] = "free"
      /\ \A u \in Threads \ {t} : pc'[u] = pc[u]
      /\ \A u \in Threads : what'[u] = what[u] /\ me'[u] = me[u] /\ mo'[u] = mo[u]
  BY <1>0 DEF Goto, ObjInv, ObjTypeOK, FramesTypeOK
<1>3. \A u \in Threads : gone'[u] = (gone[u] \/ (u # t /\ Touches(u, id)))
  BY <1>0
<1>4. id \notin misused => \A u \in Threads \ {t} : /\ ~Touches(u, id)
                                                    /\ me[u] # id /\ mo[u] # id
  BY <1>1, TransitAlone
<1>5. id \notin misused => kind[id] = what[t] /\ content[id] = "open"
  <2>1. id \notin misused => kind[id] = what[t] /\ ContentSane(id)
    BY <1>1, MeFound DEF ObjInv, ContentsSane
  <2> QED BY <1>0, <1>1, <1>4, <2>1 DEF ContentSane
<1>6. broken' \in BOOLEAN /\ (broken' => misused # {})
  BY <1>0, <1>1, <1>5 DEF Recycled, Closable
<1>7. ObjTypeOK' /\ BrokenOnlyByMisuse'
  <2>1. \A u \in Threads : gone'[u] \in BOOLEAN
    BY <1>3
  <2>2. gone' \in [Threads -> BOOLEAN]
    BY <1>0, <2>1
  <2>3. FramesTypeOK'
    BY <1>0, <2>2 DEF ObjInv, ObjTypeOK, FramesTypeOK, Goto, Places, Transit
  <2>4. content' \in [Ids -> {"zero", "open", "closed"}]
    BY <1>0 DEF Closed, ObjInv, ObjTypeOK
  <2> QED BY <1>0, <1>6, <2>3, <2>4 DEF ObjInv, ObjTypeOK, BrokenOnlyByMisuse
<1>8. CallsSane'
  <2> SUFFICES ASSUME NEW u \in Threads PROVE CallSane(u)'
    BY DEF CallsSane
  <2>1. CallSane(u)
    BY DEF ObjInv, CallsSane
  <2>2. CASE u = t
    <3>1. gone'[t] = gone[t]
      BY <1>3 DEF ObjInv, ObjTypeOK, FramesTypeOK
    <3> QED BY <1>0, <1>1, <1>2, <2>2, <3>1 DEF CallSane, Idle, WithMutex
  <2>3. CASE u # t
    <3>1. gone'[u] => me[u] \in misused \/ mo[u] \in misused
      BY <1>3, <1>4, <2>1, <2>3 DEF CallSane, Touches
    <3>2. Idle(u) => ~gone'[u]
      BY <1>3, <2>1 DEF CallSane, Touches
    <3> QED BY <1>0, <1>2, <2>1, <2>3, <3>1, <3>2 DEF CallSane, Idle
  <2> QED BY <2>2, <2>3
<1>9. \A u \in Threads : Keeps(u) \/ Drops(u)
  <2> SUFFICES ASSUME NEW u \in Threads PROVE Keeps(u) \/ Drops(u)
    OBVIOUS
  <2>1. CASE u = t
    BY <1>0, <1>1, <1>2, <2>1 DEF Keeps, Idle, Meant, MeantToo, Transit
  <2>2. CASE u # t
    <3>1. CallSane(u)
      BY DEF ObjInv, CallsSane
    <3> QED BY <1>2, <2>2, <3>1 DEF Keeps, Drops, CallSane, Idle, Meant, MeantToo, WithMutex
  <2> QED BY <2>1, <2>2
<1>10. PointersSane'
  BY <1>0, <1>9, PointersKept
<1>11. SectionsSane'
  <2>1. \A u \in Threads : pc'[u] \in Transit => pc[u] \in Transit
    BY <1>1, <1>2
  <2> QED BY <1>0, <1>2, <2>1 DEF ObjInv, SectionsSane, SectionSane
<1>12. ContentsSane'
  <2> SUFFICES ASSUME NEW i \in Ids \ misused PROVE ContentSane(i)'
    BY <1>0 DEF ContentsSane
  <2>1. CASE i = id
    BY <1>2, <2>1 DEF ContentSane
  <2>2. CASE i # id
    <3>1. ContentSane(i) /\ kind'[i] = kind[i] /\ content'[i] = content[i]
      BY <1>0, <2>2 DEF ObjInv, ContentsSane, ObjTypeOK
    <3>2. \A u \in Threads : pc[u] \in {"fill", "free"} => u # t
      BY <1>0
    <3> QED BY <1>2, <3>1, <3>2 DEF ContentSane
  <2> QED BY <2>1, <2>2
<1>13. AllBooksSane'
  <2> SUFFICES ASSUME NEW i \in Ids \ misused PROVE BooksSane(i)'
    BY <1>0 DEF AllBooksSane
  <2>0. BooksSane(i)
    BY DEF ObjInv, AllBooksSane
  <2>1. Claiming(i)' = Claiming(i)
    BY <1>0, <1>2 DEF Claiming
  <2>2. CASE i = id
    <3>1. content'[i] # "open"
      BY <1>0, <1>1, <2>2 DEF Closed, ObjInv, ObjTypeOK
    <3>2. \A u \in Threads : ~(pc'[u] = "fill" /\ me'[u] = i)
      BY <1>2, <1>4, <2>2
    <3> QED BY <3>1, <3>2 DEF BooksSane
  <2>3. CASE i # id
    <3>1. /\ kind'[i] = kind[i] /\ content'[i] = content[i] /\ balance'[i] = balance[i]
          /\ count'[i] = count[i] /\ cnt'[i] = cnt[i]
      BY <1>0, <2>3 DEF ObjInv, ObjTypeOK
    <3>2. \A u \in Threads : pc'[u] = "fill" => pc[u] = "fill" /\ me'[u] = me[u]
      BY <1>2
    <3> QED BY <2>0, <2>1, <3>1, <3>2 DEF BooksSane
  <2> QED BY <2>2, <2>3
<1> QED BY <1>7, <1>8, <1>10, <1>11, <1>12, <1>13 DEF ObjInv

\* Freeing a slot nobody points to any more.
LEMMA FreedKeeps ==
  ASSUME ObjInv, NEW id \in Ids, pool_free(id), UNCHANGED <<slots, holds, balance, broken>>,
         misused \subseteq misused', misused' \in SUBSET Ids, FramesTypeOK', CallsSane',
         \A u \in Threads : Stays(u) \/ (Over(u) /\ me[u] = id),
         id \notin misused' =>
           owner[id] = NULL /\ \A u \in Threads : me'[u] # id /\ mo'[u] # id
  PROVE  ObjInv'
<1>0. /\ kind' = [kind EXCEPT ![id] = LV2_FREE]
      /\ UNCHANGED <<content, count, cnt, owner, depth, ref, holds, balance, broken>>
  BY DEF pool_free, slots
<1>1. ObjTypeOK' /\ BrokenOnlyByMisuse'
  BY <1>0 DEF ObjInv, ObjTypeOK, BrokenOnlyByMisuse
<1>2. /\ kind'[id] = LV2_FREE
      /\ \A i \in Ids \ {id} : kind'[i] = kind[i]
  BY <1>0 DEF ObjInv, ObjTypeOK
<1>3. PointersSane'
  <2> SUFFICES ASSUME NEW i \in Ids \ misused', NEW u \in Threads PROVE PointerSane(u, i)'
    BY DEF PointersSane
  <2>0. i # 0
    BY NIsPositive
  <2>1. CASE i = id
    BY <2>1 DEF PointerSane
  <2>2. CASE i # id /\ Over(u)
    BY <2>0, <2>2 DEF PointerSane, Over
  <2>3. CASE i # id /\ Stays(u)
    <3>1. PointerSane(u, i) /\ kind'[i] = kind[i]
      BY <1>2, <2>3 DEF ObjInv, PointersSane
    <3>2. \A v \in Threads : Touches(v, i)' => Touches(v, i)
      BY <2>3 DEF Touches, Stays, Over, Idle
    <3> QED BY <2>3, <3>1, <3>2 DEF PointerSane, Stays, Meant, MeantToo
  <2> QED BY <2>1, <2>2, <2>3
<1>4. SectionsSane'
  <2> SUFFICES ASSUME NEW i \in Ids \ misused' PROVE SectionSane(i)'
    BY DEF SectionsSane
  <2>1. SectionSane(i)
    BY DEF ObjInv, SectionsSane
  <2>2. CASE i = id
    BY <1>0, <2>1, <2>2 DEF SectionSane
  <2>3. CASE i # id
    <3>1. \A u \in Threads : pc'[u] \in Transit => pc[u] \in Transit /\ me'[u] = me[u]
      BY DEF Stays, Over, Transit
    <3> QED BY <1>0, <1>2, <2>1, <2>3, <3>1 DEF SectionSane
  <2> QED BY <2>2, <2>3
<1>5. ContentsSane'
  <2> SUFFICES ASSUME NEW i \in Ids \ misused' PROVE ContentSane(i)'
    BY DEF ContentsSane
  <2>1. CASE i = id
    BY <1>2, <2>1, ObjectKinds DEF ContentSane, Opened, AllKinds
  <2>2. CASE i # id
    <3>1. ContentSane(i) /\ kind'[i] = kind[i] /\ content'[i] = content[i]
      BY <1>0, <1>2, <2>2 DEF ObjInv, ContentsSane
    <3>2. \A u \in Threads : me[u] = i => pc'[u] = pc[u] /\ me'[u] = i
      BY <2>2 DEF Stays
    <3> QED BY <3>1, <3>2 DEF ContentSane
  <2> QED BY <2>1, <2>2
<1>6. AllBooksSane'
  <2> SUFFICES ASSUME NEW i \in Ids \ misused' PROVE BooksSane(i)'
    BY DEF AllBooksSane
  <2>1. BooksSane(i)
    BY DEF ObjInv, AllBooksSane
  <2>2. CASE i = id
    BY <1>2, <2>2, ObjectKinds DEF BooksSane, AllKinds
  <2>3. CASE i # id
    <3>1. Claiming(i)' = Claiming(i)
      <4>1. \A u \in Threads : (pc[u] = "take" /\ me[u] = i) <=> (pc'[u] = "take" /\ me'[u] = i)
        BY <2>3 DEF Stays, Over
      <4> QED BY <4>1 DEF Claiming
    <3>2. \A u \in Threads : pc'[u] = "fill" => pc[u] = "fill" /\ me'[u] = me[u]
      BY DEF Stays, Over
    <3> QED BY <1>0, <1>2, <2>1, <2>3, <3>1, <3>2 DEF BooksSane
  <2> QED BY <2>2, <2>3
<1> QED BY <1>1, <1>3, <1>4, <1>5, <1>6 DEF ObjInv

LEMMA FreeSlotKeeps ==
  ASSUME ObjInv, NEW t \in Threads, FreeSlot(t)
  PROVE  ObjInv'
<1> DEFINE id == me[t]
<1>0. /\ pc[t] = "free" /\ pool_free(id) /\ Return(t) /\ ~Idle(t) /\ pc[t] \in Transit
      /\ UNCHANGED <<slots, holds, balance, misused, broken>>
  BY DEF FreeSlot, GivesBack, history, Idle, Transit
<1>1. id \in Ids
  BY <1>0 DEF pool_free
<1>2. FramesTypeOK' /\ Over(t) /\ \A u \in Threads \ {t} : Stays(u)
  BY <1>0, ReturnKeeps
<1>3. CallsSane'
  BY <1>0, <1>2, OverSane, OthersSane DEF CallsSane
<1>4. ASSUME id \notin misused
      PROVE  owner[id] = NULL /\ \A u \in Threads : me'[u] # id /\ mo'[u] # id
  <2>1. owner[id] = NULL
    BY <1>0, <1>1, <1>4 DEF ObjInv, SectionsSane, SectionSane
  <2>2. \A u \in Threads \ {t} : me'[u] # id /\ mo'[u] # id
    BY <1>0, <1>2, <1>4, TransitAlone DEF Stays
  <2>3. me'[t] # id /\ mo'[t] # id
    BY <1>1, <1>2, NIsPositive DEF Over
  <2> QED BY <2>1, <2>2, <2>3
<1>5. misused' \in SUBSET Ids /\ misused' = misused
  BY <1>0 DEF ObjInv, ObjTypeOK
<1>6. \A u \in Threads : Stays(u) \/ (Over(u) /\ me[u] = id)
  BY <1>2
<1> HIDE DEF id
<1> QED BY <1>0, <1>1, <1>2, <1>3, <1>4, <1>5, <1>6, FreedKeeps

\* A destroy by the call for kinds that need no closing.
LEMMA FreeAnythingKeeps ==
  ASSUME ObjInv, NEW t \in Threads, NEW id \in Ids, NEW k \in {"LV2_COND", "LV2_EVPORT"},
         FreeAnything(t, id, k)
  PROVE  ObjInv'
<1>0. /\ Idle(t) /\ pool_free(id)
      /\ UNCHANGED <<slots, holds, balance, broken>>
      /\ UNCHANGED <<pc, what, me, mo, gone>>
  BY DEF FreeAnything, frames
<1>1. /\ misused \subseteq misused' /\ misused' \in SUBSET Ids
      /\ id \notin misused' => ~Recycled(id, k) /\ ~Busy(t, id)
  BY DEF FreeAnything, Misuse, ObjInv, ObjTypeOK
<1>2. FramesTypeOK' /\ \A u \in Threads : Stays(u)
  BY <1>0 DEF Stays, ObjInv, ObjTypeOK, FramesTypeOK
<1>3. CallsSane'
  BY <1>0, <1>1, <1>2, OthersSane DEF CallsSane
<1>4. ASSUME id \notin misused'
      PROVE  owner[id] = NULL /\ \A u \in Threads : me'[u] # id /\ mo'[u] # id
  <2>1. owner[id] = NULL
    <3>1. kind[id] # "LV2_MUTEX" /\ id \notin misused
      BY <1>1, <1>4, ObjectKinds DEF Recycled, AllKinds
    <3> QED BY <3>1 DEF ObjInv, SectionsSane, SectionSane
  <2>2. ASSUME NEW u \in Threads
        PROVE  me'[u] # id /\ mo'[u] # id
    <3>1. ~Touches(u, id)
      BY <1>0, <1>1, <1>4 DEF Busy, Touches
    <3>2. Idle(u) => me[u] = 0 /\ mo[u] = 0
      BY DEF ObjInv, CallsSane, CallSane, Idle, WithMutex
    <3> QED BY <1>0, <3>1, <3>2, NIsPositive DEF Touches
  <2> QED BY <2>1, <2>2
<1>5. \A u \in Threads : Stays(u) \/ (Over(u) /\ me[u] = id)
  BY <1>2
<1> QED BY <1>0, <1>1, <1>2, <1>3, <1>4, <1>5, FreedKeeps

\* What the second half of a create leaves in the slot.
Filled(t) ==
  /\ content' \in [Ids -> {"zero", "open", "closed"}] /\ count' \in [Ids -> Nat]
  /\ balance' \in [Ids -> Int] /\ ref' \in [Ids -> Ids \cup {0}]
  /\ \A i \in Ids \ {me[t]} : /\ content'[i] = content[i] /\ count'[i] = count[i]
                              /\ balance'[i] = balance[i]
  /\ what[t] \in Opened => content'[me[t]] = "open"
  /\ what[t] = "LV2_SEM" => balance'[me[t]] = count'[me[t]]
  /\ what[t] # "LV2_SEM" => count'[me[t]] = count[me[t]]

LEMMA FillEffect ==
  ASSUME ObjInv, NEW t \in Threads, Fill(t)
  PROVE  Filled(t)
<1>0. /\ me[t] \in Ids
      /\ content \in [Ids -> {"zero", "open", "closed"}] /\ count \in [Ids -> Nat]
      /\ balance \in [Ids -> Int] /\ ref \in [Ids -> Ids \cup {0}]
  BY DEF Fill, ObjInv, CallsSane, CallSane, ObjTypeOK, Idle
<1>1. CASE what[t] = "LV2_SEM" /\ CreateSemaphore(me[t])
  <2>1. PICK initial \in 0 .. SemMax : /\ count' = [count EXCEPT ![me[t]] = initial]
                                       /\ balance' = [balance EXCEPT ![me[t]] = initial]
    BY <1>1 DEF CreateSemaphore
  <2>2. initial \in Nat /\ initial \in Int
    BY ObjectsAssumption
  <2> QED BY <1>0, <1>1, <2>1, <2>2 DEF CreateSemaphore, Open, Filled
<1>2. CASE what[t] = "LV2_MUTEX" /\ InitializeMutex(me[t])
  BY <1>0, <1>2 DEF InitializeMutex, Open, Filled
<1>3. CASE what[t] = "LV2_COND" /\ InitializeCond(me[t])
  <2>1. PICK mutex_id \in Ids : ref' = [ref EXCEPT ![me[t]] = mutex_id]
    BY <1>3 DEF InitializeCond
  <2> QED BY <1>0, <1>3, <2>1 DEF InitializeCond, Filled, Opened
<1>4. CASE what[t] = "LV2_EVQ" /\ NewQueue(me[t])
  BY <1>0, <1>4 DEF NewQueue, Open, Filled
<1>5. CASE what[t] = "LV2_EVPORT" /\ NewPort
  BY <1>0, <1>5 DEF NewPort, Filled, Opened
<1> QED BY <1>1, <1>2, <1>3, <1>4, <1>5 DEF Fill

LEMMA FillKeeps ==
  ASSUME ObjInv, NEW t \in Threads, Fill(t)
  PROVE  ObjInv'
<1> DEFINE id == me[t]
<1>0. /\ pc[t] = "fill" /\ ~Idle(t) /\ pc[t] \in Transit /\ Return(t) /\ Filled(t)
      /\ broken' = Recycled(id, what[t])
      /\ UNCHANGED <<kind, cnt, owner, depth, holds, misused>>
  BY FillEffect DEF Fill, Idle, Transit, vars
<1>1. id \in Ids /\ id # 0 /\ what[t] \in AllKinds /\ Meant(t) = what[t]
  BY <1>0, NIsPositive DEF ObjInv, CallsSane, CallSane, Meant
<1>2. /\ FramesTypeOK' /\ Over(t) /\ \A u \in Threads \ {t} : Stays(u)
      /\ \A u \in Threads : Drops(u) \/ Keeps(u)
  BY <1>0, ReturnKeeps
<1>3. id \notin misused => /\ kind[id] = what[t]
                           /\ \A u \in Threads \ {t} : ~Touches(u, id) /\ me[u] # id
  BY <1>0, <1>1, MeFound, TransitAlone
<1>4. broken' \in BOOLEAN /\ (broken' => misused # {})
  BY <1>0, <1>3 DEF Recycled
<1>5. ObjTypeOK' /\ BrokenOnlyByMisuse'
  BY <1>0, <1>2, <1>4 DEF ObjInv, ObjTypeOK, BrokenOnlyByMisuse, Filled
<1>6. CallsSane'
  BY <1>0, <1>2, OverSane, OthersSane DEF CallsSane
<1>7. PointersSane'
  BY <1>0, <1>2, PointersKept
<1>8. SectionsSane'
  <2>1. \A u \in Threads : pc'[u] \in Transit => pc[u] \in Transit /\ me'[u] = me[u]
    BY <1>2 DEF Stays, Over, Transit
  <2> QED BY <1>0, <2>1 DEF ObjInv, SectionsSane, SectionSane
<1>9. ContentsSane'
  <2> SUFFICES ASSUME NEW i \in Ids \ misused PROVE ContentSane(i)'
    BY <1>0 DEF ContentsSane
  <2>1. CASE i = id
    BY <1>0, <1>3, <2>1 DEF ContentSane, Filled
  <2>2. CASE i # id
    <3>1. ContentSane(i) /\ kind'[i] = kind[i] /\ content'[i] = content[i]
      BY <1>0, <2>2 DEF ObjInv, ContentsSane, Filled
    <3>2. \A u \in Threads : me[u] = i => pc'[u] = pc[u] /\ me'[u] = i
      BY <1>2, <2>2 DEF Stays
    <3> QED BY <3>1, <3>2 DEF ContentSane
  <2> QED BY <2>1, <2>2
<1>10. AllBooksSane'
  <2> SUFFICES ASSUME NEW i \in Ids \ misused PROVE BooksSane(i)'
    BY <1>0 DEF AllBooksSane
  <2>0. BooksSane(i)
    BY DEF ObjInv, AllBooksSane
  <2>1. CASE i = id
    <3>1. ASSUME NEW u \in Threads PROVE me'[u] # id
      BY <1>1, <1>2, <1>3, <2>1 DEF Over, Stays
    <3>2. Claiming(i)' = {}
      BY <2>1, <3>1 DEF Claiming
    <3>3. Cardinality(Claiming(i)') = 0
      BY <3>2, FS_EmptySet
    <3>4. what[t] # "LV2_SEM" => count'[i] = 0 /\ cnt'[i] = 0
      BY <1>0, <2>0, <2>1 DEF BooksSane, Filled
    <3> QED BY <1>0, <1>3, <2>1, <3>1, <3>3, <3>4 DEF BooksSane, Filled
  <2>2. CASE i # id
    <3>1. /\ kind'[i] = kind[i] /\ content'[i] = content[i] /\ balance'[i] = balance[i]
          /\ count'[i] = count[i] /\ cnt'[i] = cnt[i]
      BY <1>0, <2>2 DEF Filled
    <3>2. Claiming(i)' = Claiming(i)
      <4>1. \A u \in Threads : (pc[u] = "take" /\ me[u] = i) <=> (pc'[u] = "take" /\ me'[u] = i)
        BY <1>2, <2>2 DEF Stays, Over
      <4> QED BY <4>1 DEF Claiming
    <3>3. \A u \in Threads : pc'[u] = "fill" => pc[u] = "fill" /\ me'[u] = me[u]
      BY <1>2 DEF Stays, Over
    <3> QED BY <2>0, <3>1, <3>2, <3>3 DEF BooksSane
  <2> QED BY <2>1, <2>2
<1> QED BY <1>5, <1>6, <1>7, <1>8, <1>9, <1>10 DEF ObjInv
-----------------------------------------------------------------------------
LEMMA InitHolds == ObjInit => ObjInv
<1> SUFFICES ASSUME ObjInit PROVE ObjInv
  OBVIOUS
<1>0. /\ kind = [id \in Ids |-> LV2_FREE]
      /\ content = [id \in Ids |-> "zero"]
      /\ count = [id \in Ids |-> 0] /\ cnt = [id \in Ids |-> 0]
      /\ owner = [id \in Ids |-> NULL] /\ depth = [id \in Ids |-> 0]
      /\ ref = [id \in Ids |-> 0] /\ balance = [id \in Ids |-> 0]
      /\ holds = [t \in Threads |-> [id \in Ids |-> 0]]
      /\ misused = {} /\ broken = FALSE
  BY DEF ObjInit, Init
<1>1. ASSUME NEW t \in Threads
      PROVE  /\ pc[t] = "idle" /\ what[t] = LV2_FREE
             /\ me[t] = 0 /\ mo[t] = 0 /\ gone[t] = FALSE
  BY DEF ObjInit
<1>2. ObjTypeOK
  <2>1. FramesTypeOK
    BY DEF ObjInit, FramesTypeOK, Places
  <2>2. holds \in [Threads -> [Ids -> Int]]
    BY <1>0
  <2>3. /\ kind \in [Ids -> AllKinds \cup {LV2_FREE}]
        /\ owner \in [Ids -> Threads \cup {NULL}]
    BY <1>0
  <2>4. content \in [Ids -> {"zero", "open", "closed"}] /\ count \in [Ids -> Nat]
    BY <1>0
  <2>5. /\ cnt \in [Ids -> Int] /\ depth \in [Ids -> Int] /\ ref \in [Ids -> Ids \cup {0}]
        /\ balance \in [Ids -> Int]
    BY <1>0
  <2>6. misused \in SUBSET Ids /\ broken \in BOOLEAN
    BY <1>0
  <2> QED BY <2>1, <2>2, <2>3, <2>4, <2>5, <2>6 DEF ObjTypeOK
<1>3. BrokenOnlyByMisuse
  BY <1>0 DEF BrokenOnlyByMisuse
<1>4. CallsSane
  BY <1>1 DEF CallsSane, CallSane, Idle, Opened, WithMutex
<1>5. PointersSane
  <2>1. \A id \in Ids : id # 0
    BY NIsPositive
  <2> QED BY <1>1, <2>1 DEF PointersSane, PointerSane
<1>6. SectionsSane
  BY <1>0 DEF SectionsSane, SectionSane
<1>7. ContentsSane
  BY <1>0, ObjectKinds DEF ContentsSane, ContentSane, Opened, AllKinds
<1>8. AllBooksSane
  BY <1>0, ObjectKinds DEF AllBooksSane, BooksSane, AllKinds
<1> QED BY <1>2, <1>3, <1>4, <1>5, <1>6, <1>7, <1>8 DEF ObjInv

LEMMA CreatesKeep ==
  ASSUME ObjInv, NEW t \in Threads, Creates(t)
  PROVE  ObjInv'
BY CreateKeeps DEF Creates, AllKinds, sys_semaphore_create, sys_mutex_create,
   sys_cond_create, sys_event_queue_create, sys_event_port_create

LEMMA DestroysKeep ==
  ASSUME ObjInv, NEW t \in Threads, NEW id \in Ids, Destroys(t, id)
  PROVE  ObjInv'
<1>1. CASE sys_semaphore_destroy(t, id) \/ sys_mutex_destroy(t, id)
  BY <1>1, DestroyKeeps DEF sys_semaphore_destroy, sys_mutex_destroy, Opened
<1>2. CASE sys_cond_destroy(t, id) \/ sys_event_port_destroy(t, id)
  BY <1>2, FreeAnythingKeeps DEF sys_cond_destroy, sys_event_port_destroy
<1>3. CASE sys_event_queue_destroy(t, id)
  BY <1>3, DestroyKeeps, DestroyNothingKeeps DEF sys_event_queue_destroy, Opened
<1> QED BY <1>1, <1>2, <1>3 DEF Destroys

LEMMA ProceedKeeps ==
  ASSUME ObjInv, NEW t \in Threads, Proceed(t)
  PROVE  ObjInv'
<1>1. CASE Fill(t) \/ Close(t) \/ FreeSlot(t)
  BY <1>1, FillKeeps, CloseKeeps, FreeSlotKeeps
<1>2. CASE StartWait(t) \/ WaitEnds(t) \/ WaitTimesOut(t) \/ Poll(t) \/ Post(t)
  BY <1>2, StartWaitKeeps, SemaphoreSteps
<1>3. CASE Enter(t) \/ TryEnter(t) \/ Leave(t) \/ Reenter(t)
  BY <1>3, MutexSteps
<1>4. CASE Sleep(t) \/ SleepTimesOut(t) \/ Wake(t)
  BY <1>4, SleepStepsKeep, WakeKeeps
<1>5. CASE StartReceive(t) \/ AwaitEnds(t) \/ PollQueue(t) \/ Take(t)
  BY <1>5, StartReceiveKeeps, ReceiveSteps, TakeKeeps
<1>6. CASE Connect(t) \/ Route(t) \/ Deliver(t)
  BY <1>6, ConnectKeeps, RouteKeeps, DeliverKeeps
<1> QED BY <1>1, <1>2, <1>3, <1>4, <1>5, <1>6 DEF Proceed

LEMMA StutterKeeps == ObjInv /\ UNCHANGED objVars => ObjInv'
<1> SUFFICES ASSUME ObjInv, UNCHANGED objVars PROVE ObjInv'
  OBVIOUS
<1>0. /\ UNCHANGED <<kind, content, count, cnt, owner, depth, ref, holds, balance>>
      /\ UNCHANGED <<pc, what, me, mo, gone, misused, broken>>
  BY DEF objVars, vars, slots, frames, history
<1>1. \A u \in Threads : Stays(u)
  BY <1>0 DEF Stays
<1>2. ObjTypeOK' /\ BrokenOnlyByMisuse'
  BY <1>0 DEF ObjInv, ObjTypeOK, FramesTypeOK, BrokenOnlyByMisuse
<1>3. CallsSane'
  BY <1>0, <1>1, OthersSane DEF CallsSane
<1>4. PointersSane'
  BY <1>0, <1>1, StayingKeeps, PointersKept
<1>5. SectionsSane' /\ ContentsSane' /\ AllBooksSane'
  BY <1>0, <1>1, StayingTransit, SectionsKept, ContentsKept, BooksKept
<1> QED BY <1>2, <1>3, <1>4, <1>5 DEF ObjInv

LEMMA NextKeeps == ObjInv /\ [ObjNext]_objVars => ObjInv'
<1> SUFFICES ASSUME ObjInv, [ObjNext]_objVars PROVE ObjInv'
  OBVIOUS
<1>1. CASE ObjNext
  <2>1. PICK t \in Threads : \/ Creates(t)
                             \/ \E id \in Ids : Destroys(t, id) \/ Begin(t, id)
                             \/ Proceed(t)
    BY <1>1 DEF ObjNext
  <2> QED BY <2>1, CreatesKeep, DestroysKeep, BeginKeeps, ProceedKeeps
<1>2. CASE UNCHANGED objVars
  BY <1>2, StutterKeeps
<1> QED BY <1>1, <1>2

LEMMA ObjInvariance == ObjSpec => []ObjInv
<1> QED BY InitHolds, NextKeeps, PTL DEF ObjSpec

\* The objects' and the calls' state is of its types: no count is negative, and no
\* call is left with a pointer that is no slot (runtime_glue.cpp:1222-1674).
THEOREM ObjectTypesCorrect == ObjSpec => []ObjTypeOK
<1>1. ObjInv => ObjTypeOK
  BY DEF ObjInv
<1> QED BY <1>1, ObjInvariance, PTL

\* What is undefined happens only to a guest that used an object in overlapping calls
\* while it was created or destroyed, or destroyed it by the call for another kind,
\* with any number of threads and slots (runtime_glue.cpp:257-285).
THEOREM UndefinedNeedsMisuse == ObjSpec => []BrokenOnlyByMisuse
<1>1. ObjInv => BrokenOnlyByMisuse
  BY DEF ObjInv
<1> QED BY <1>1, ObjInvariance, PTL

\* The books of every semaphore that was not misused agree with what it holds, so no
\* wait on one is granted for nothing (runtime_glue.cpp:1274-1323).
THEOREM SemaphoresGrant == ObjSpec => []SemaphoreGrants
<1>1. ObjInv => SemaphoreGrants
  BY DEF ObjInv, AllBooksSane, BooksSane, SemaphoreGrants
<1> QED BY <1>1, ObjInvariance, PTL

\* A mutex that was not misused excludes, through recursive locking and through
\* condition waits that time out or are signalled (runtime_glue.cpp:1326-1413).
THEOREM MutexesExclude == ObjSpec => []MutexExcludes
<1>1. ObjInv => MutexExcludes
  <2> SUFFICES ASSUME ObjInv, NEW id \in Ids \ misused, NEW s \in Threads, NEW t \in Threads,
                      holds[s][id] > 0, holds[t][id] > 0
               PROVE  s = t
    BY DEF MutexExcludes
  <2>1. SectionSane(id)
    BY DEF ObjInv, SectionsSane
  <2>2. owner[id] = s /\ owner[id] = t
    BY <2>1 DEF SectionSane
  <2> QED BY <2>2
<1> QED BY <1>1, ObjInvariance, PTL

\* In every queue that was not misused the ring holds an event for each count of its
\* semaphore and for each receiver past it, so that no receiver takes from an empty
\* ring (runtime_glue.cpp:1553-1674).
THEOREM EventsBackReceivers == ObjSpec => []QueuesBacked
<1>1. ObjInv => QueuesBacked
  BY DEF ObjInv, AllBooksSane, BooksSane, QueuesBacked
<1> QED BY <1>1, ObjInvariance, PTL
-----------------------------------------------------------------------------
(***************************************************************************)
(* Timeouts, the same in every call that waits: microseconds are rounded   *)
(* up to milliseconds and cut to W = 2^32, after an addition modulo        *)
(* Q = 2^64.                                                               *)
(***************************************************************************)
LEMMA RoundsUp ==
  ASSUME NEW Q \in Nat \ {0}, NEW tus \in Nat \ {0}, tus + 999 < Q
  PROVE  LET up == ((tus + 999) % Q) \div 1000
         IN  up \in Nat /\ tus <= 1000 * up /\ 1000 * up < tus + 1000
<1>1. (tus + 999) % Q = tus + 999
  BY SMTT(30), WrapOnce
<1>2. LET up == (tus + 999) \div 1000
      IN  up \in Nat /\ tus <= 1000 * up /\ 1000 * up < tus + 1000
  OBVIOUS
<1> QED BY <1>1, <1>2

\* A wait with a timeout of at most 2^32 - 2 milliseconds (49 days) is finite: it
\* ends not before its time, and less than a millisecond after it
\* (runtime_glue.cpp:1300, 1398, 1513, 1587).
THEOREM TimeoutsAreKept ==
  ASSUME NEW W \in Nat, NEW Q \in Nat, W > 2, Q > 1000 * W,
         NEW tus \in 1 .. 1000 * (W - 2)
  PROVE  /\ Millis(W, Q, tus) \in 1 .. INFINITE(W) - 1
         /\ tus <= 1000 * Millis(W, Q, tus) /\ 1000 * Millis(W, Q, tus) < tus + 1000
<1> DEFINE up == ((tus + 999) % Q) \div 1000
<1>1. up \in Nat /\ tus <= 1000 * up /\ 1000 * up < tus + 1000
  BY RoundsUp
<1> HIDE DEF up
<1>2. up \in 1 .. W - 2
  BY <1>1
<1>3. up % W = up
  BY <1>2, WrapOnce
<1>4. Millis(W, Q, tus) = up
  BY <1>3 DEF Millis, up
<1> QED BY <1>1, <1>2, <1>4 DEF INFINITE

\* Past that the cut shows: a timeout one millisecond longer never ends, and one two
\* milliseconds longer does not wait at all
\* (runtime_glue.cpp:1300, 1398, 1513, 1587).
THEOREM LongTimeoutsWrap ==
  ASSUME NEW W \in Nat, NEW Q \in Nat, W > 2, Q > 1000 * W + 1000, NEW k \in 1 .. 1000
  PROVE  /\ Millis(W, Q, 1000 * (W - 2) + k) = INFINITE(W)
         /\ Millis(W, Q, 1000 * (W - 1) + k) = 0
<1>1. ASSUME NEW n \in 1 .. W, NEW tus \in Nat, tus = 1000 * (n - 1) + k
      PROVE  ((tus + 999) % Q) \div 1000 = n
  <2> DEFINE up == ((tus + 999) % Q) \div 1000
  <2>1. up \in Nat /\ tus <= 1000 * up /\ 1000 * up < tus + 1000
    BY <1>1, RoundsUp
  <2> HIDE DEF up
  <2>2. up = n
    BY <1>1, <2>1
  <2> QED BY <2>2 DEF up
<1>2. Millis(W, Q, 1000 * (W - 2) + k) = (W - 1) % W
  BY <1>1 DEF Millis
<1>3. Millis(W, Q, 1000 * (W - 1) + k) = W % W
  BY <1>1 DEF Millis
<1>4. (W - 1) % W = W - 1 /\ W % W = 0
  BY WrapOnce
<1> QED BY <1>2, <1>3, <1>4 DEF INFINITE
=============================================================================
