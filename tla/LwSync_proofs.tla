--------------------------- MODULE LwSync_proofs ---------------------------
(***************************************************************************)
(* Proofs about LwSync.  Mutual exclusion rests on an agreement between    *)
(* what the threads believe and what the critical sections record: while   *)
(* nothing undefined has happened and nobody locked mutex m before it was  *)
(* created, the critical section behind m is owned by the one thread that  *)
(* believes it holds m, as many times as that thread believes.  The        *)
(* agreement survives the gap between a lookup and the use of what it      *)
(* found because the pointers stay those of the maps (Fresh).              *)
(***************************************************************************)
EXTENDS LwSync, TLAPS

\* The places in which a thread holds a pointer to a critical section.
WithSection == {"enter", "try", "leave", "sleep", "asleep", "reenter"}

SectionsSane == \A s \in Sections : owner[s] = NULL <=> depth[s] = 0

CallsSane ==
  \A t \in Threads :
    /\ cs[t] # NULL <=> pc[t] \in WithSection
    /\ cs[t] # NULL => lw[t] \in Mutexes
    /\ pc[t] \in {"leave", "sleep"} => holds[t][lw[t]] > 0

Injective == \A m, n \in Mutexes :
               g_lwmutex_map[m] # NULL /\ g_lwmutex_map[m] = g_lwmutex_map[n] => m = n

Fresh == \A t \in Threads : cs[t] # NULL => g_lwmutex_map[lw[t]] = cs[t]

Agrees(m) ==
  \A t \in Threads :
    holds[t][m] = IF g_lwmutex_map[m] # NULL /\ owner[g_lwmutex_map[m]] = t
                  THEN depth[g_lwmutex_map[m]] ELSE 0

Agreement == \A m \in Mutexes \ unguarded : Agrees(m)

Sound == ~broken => Injective /\ Fresh /\ Agreement

IInv == TypeOK /\ SectionsSane /\ CallsSane /\ Sound

USE DEF Places, WithSection

LEMMA InitIInv == Init => IInv
<1> SUFFICES ASSUME Init PROVE IInv
  OBVIOUS
<1> USE LwAssumption DEF Init
<1>1. TypeOK
  BY DEF TypeOK
<1>2. SectionsSane /\ CallsSane
  BY DEF SectionsSane, CallsSane
<1>3. Sound
  BY DEF Sound, Injective, Fresh, Agreement, Agrees
<1> QED BY <1>1, <1>2, <1>3 DEF IInv


(***************************************************************************)
(* What entering and leaving a critical section do to the agreement.       *)
(***************************************************************************)
\* Entering the section its lookup found makes a thread its owner once more.
LEMMA AcquireAgrees ==
  ASSUME IInv, ~broken, NEW t \in Threads, cs[t] # NULL, CanEnter(t), Acquire(t),
         UNCHANGED <<maps, unguarded>>
  PROVE  /\ owner' \in [Sections -> Threads \cup {NULL}] /\ depth' \in [Sections -> Nat]
         /\ holds' \in [Threads -> [Mutexes -> Nat]]
         /\ SectionsSane' /\ Agreement' /\ Injective'
<1> USE LwAssumption
<1>0. /\ owner \in [Sections -> Threads \cup {NULL}] /\ depth \in [Sections -> Nat]
      /\ holds \in [Threads -> [Mutexes -> Nat]]
      /\ g_lwmutex_map \in [Mutexes -> Sections \cup {NULL}]
      /\ SectionsSane /\ Injective /\ Agreement
  BY DEF IInv, TypeOK, Sound
<1>1. cs[t] \in Sections /\ lw[t] \in Mutexes /\ g_lwmutex_map[lw[t]] = cs[t]
  BY DEF IInv, TypeOK, CallsSane, Sound, Fresh
<1>2. /\ owner' = [owner EXCEPT ![cs[t]] = t]
      /\ depth' = [depth EXCEPT ![cs[t]] = depth[cs[t]] + 1]
      /\ holds' = [holds EXCEPT ![t] = [holds[t] EXCEPT ![lw[t]] = holds[t][lw[t]] + 1]]
  BY <1>0, <1>1 DEF Acquire, Believe
<1>3. /\ owner' \in [Sections -> Threads \cup {NULL}] /\ depth' \in [Sections -> Nat]
      /\ holds' \in [Threads -> [Mutexes -> Nat]]
  BY <1>0, <1>1, <1>2
<1>4. SectionsSane'
  BY <1>0, <1>1, <1>2 DEF SectionsSane
<1>5. Injective'
  BY <1>0 DEF Injective, maps
<1>6. Agreement'
  <2> SUFFICES ASSUME NEW m \in Mutexes \ unguarded, NEW u \in Threads
               PROVE  holds'[u][m] = IF g_lwmutex_map[m] # NULL /\ owner'[g_lwmutex_map[m]] = u
                                     THEN depth'[g_lwmutex_map[m]] ELSE 0
    BY DEF Agreement, Agrees, maps
  <2>1. holds[u][m] = IF g_lwmutex_map[m] # NULL /\ owner[g_lwmutex_map[m]] = u
                      THEN depth[g_lwmutex_map[m]] ELSE 0
    BY <1>0 DEF Agreement, Agrees
  <2>2. CASE m # lw[t]
    <3>1. g_lwmutex_map[m] # cs[t]
      BY <1>0, <1>1, <2>2 DEF Injective
    <3> QED BY <1>0, <1>1, <1>2, <2>1, <2>2, <3>1
  <2>3. CASE m = lw[t]
    <3>1. owner[cs[t]] = NULL => depth[cs[t]] = 0
      BY <1>0, <1>1 DEF SectionsSane
    <3>2. holds[t][m] = depth[cs[t]] /\ (u # t => holds[u][m] = 0)
      <4>1. owner[cs[t]] \in {NULL, t}
        BY DEF CanEnter
      <4>2. holds[t][m] = IF owner[cs[t]] = t THEN depth[cs[t]] ELSE 0
        BY <1>0, <1>1, <2>3 DEF Agreement, Agrees
      <4> QED BY <1>0, <1>1, <2>1, <2>3, <3>1, <4>1, <4>2
    <3> QED BY <1>0, <1>1, <1>2, <2>3, <3>1, <3>2
  <2> QED BY <2>2, <2>3
<1> QED BY <1>3, <1>4, <1>5, <1>6

\* Leaving a section that is the thread's own takes one level off.
LEMMA ReleaseAgrees ==
  ASSUME IInv, ~broken, NEW t \in Threads, cs[t] # NULL, owner[cs[t]] = t,
         holds[t][lw[t]] > 0, Release(t), UNCHANGED <<maps, unguarded>>
  PROVE  /\ owner' \in [Sections -> Threads \cup {NULL}] /\ depth' \in [Sections -> Nat]
         /\ holds' \in [Threads -> [Mutexes -> Nat]]
         /\ SectionsSane' /\ Agreement' /\ Injective'
<1> USE LwAssumption
<1>0. /\ owner \in [Sections -> Threads \cup {NULL}] /\ depth \in [Sections -> Nat]
      /\ holds \in [Threads -> [Mutexes -> Nat]]
      /\ g_lwmutex_map \in [Mutexes -> Sections \cup {NULL}]
      /\ SectionsSane /\ Injective /\ Agreement
  BY DEF IInv, TypeOK, Sound
<1>1. cs[t] \in Sections /\ lw[t] \in Mutexes /\ g_lwmutex_map[lw[t]] = cs[t]
  BY DEF IInv, TypeOK, CallsSane, Sound, Fresh
<1>2. /\ owner' = [owner EXCEPT ![cs[t]] = IF depth[cs[t]] - 1 = 0 THEN NULL ELSE t]
      /\ depth' = [depth EXCEPT ![cs[t]] = depth[cs[t]] - 1]
      /\ holds' = [holds EXCEPT ![t] = [holds[t] EXCEPT ![lw[t]] = holds[t][lw[t]] - 1]]
  BY <1>0, <1>1 DEF Release, LevelsLeft, Believe
<1>3. depth[cs[t]] > 0
  BY <1>0, <1>1 DEF SectionsSane
<1>4. /\ owner' \in [Sections -> Threads \cup {NULL}] /\ depth' \in [Sections -> Nat]
      /\ holds' \in [Threads -> [Mutexes -> Nat]]
  BY <1>0, <1>1, <1>2, <1>3
<1>5. SectionsSane'
  BY <1>0, <1>1, <1>2, <1>3 DEF SectionsSane
<1>6. Injective'
  BY <1>0 DEF Injective, maps
<1>7. Agreement'
  <2> SUFFICES ASSUME NEW m \in Mutexes \ unguarded, NEW u \in Threads
               PROVE  holds'[u][m] = IF g_lwmutex_map[m] # NULL /\ owner'[g_lwmutex_map[m]] = u
                                     THEN depth'[g_lwmutex_map[m]] ELSE 0
    BY DEF Agreement, Agrees, maps
  <2>1. holds[u][m] = IF g_lwmutex_map[m] # NULL /\ owner[g_lwmutex_map[m]] = u
                      THEN depth[g_lwmutex_map[m]] ELSE 0
    BY <1>0 DEF Agreement, Agrees
  <2>2. CASE m # lw[t]
    <3>1. g_lwmutex_map[m] # cs[t]
      BY <1>0, <1>1, <2>2 DEF Injective
    <3> QED BY <1>0, <1>1, <1>2, <2>1, <2>2, <3>1
  <2>3. CASE m = lw[t]
    BY <1>0, <1>1, <1>2, <1>3, <2>1, <2>3
  <2> QED BY <2>2, <2>3
<1> QED BY <1>4, <1>5, <1>6, <1>7

(***************************************************************************)
(* The steps.                                                              *)
(***************************************************************************)
\* A call that finds its mutex changes only its own frame.
LEMMA FoundStep ==
  ASSUME IInv, ~broken, NEW t \in Threads, NEW m \in Mutexes,
         NEW where \in {"enter", "try", "leave"},
         where = "leave" => holds[t][m] > 0,
         Found(t, m, where)
  PROVE  IInv'
<1> USE LwAssumption DEF IInv, Found, Goto, maps, state
<1>1. TypeOK'
  BY DEF TypeOK
<1>2. SectionsSane' /\ CallsSane'
  BY DEF SectionsSane, CallsSane, TypeOK
<1>3. Injective' /\ Agreement'
  BY DEF Sound, Injective, Agreement, Agrees
<1>4. Fresh'
  BY DEF Sound, Fresh, TypeOK
<1> QED BY <1>1, <1>2, <1>3, <1>4 DEF Sound

\* A lock or unlock that finds no mutex changes only what the thread believes, of a
\* mutex that is, or becomes, unguarded.
LEMMA NotFoundStep ==
  ASSUME IInv, ~broken, NEW t \in Threads, NEW m \in Mutexes, NEW n \in {1, -1},
         NotFound(t, m), Believe(t, m, n),
         n = 1 => unguarded' = unguarded \cup {m},
         n = -1 => holds[t][m] > 0 /\ UNCHANGED unguarded
  PROVE  IInv'
<1> USE LwAssumption DEF IInv, NotFound, Believe, maps, state, frames
<1>1. holds' = [holds EXCEPT ![t] = [holds[t] EXCEPT ![m] = holds[t][m] + n]]
  BY DEF TypeOK
<1>2. TypeOK'
  <2>1. holds' \in [Threads -> [Mutexes -> Nat]] /\ unguarded' \subseteq Mutexes
    <3>1. holds \in [Threads -> [Mutexes -> Nat]] /\ unguarded \subseteq Mutexes
      BY DEF TypeOK
    <3>2. holds[t][m] \in Nat
      BY <3>1
    <3>3. holds[t][m] + n \in Nat
      <4>1. CASE n = 1
        BY <3>2, <4>1
      <4>2. CASE n = -1
        BY <3>2, <4>2
      <4> QED BY <4>1, <4>2
    <3>4. [holds[t] EXCEPT ![m] = holds[t][m] + n] \in [Mutexes -> Nat]
      BY <3>1, <3>3
    <3>5. unguarded' \subseteq Mutexes
      BY <3>1
    <3> HIDE DEF IInv, NotFound
    <3> QED BY <1>1, <3>1, <3>4, <3>5
  <2> QED BY <2>1 DEF TypeOK
<1>3. SectionsSane' /\ CallsSane'
  <2>1. \A u \in Threads : pc[u] \in {"leave", "sleep"} => u # t
    OBVIOUS
  <2> QED BY ZenonT(40), <1>1, <2>1 DEF SectionsSane, CallsSane, TypeOK
<1>4. Injective' /\ Fresh'
  BY DEF Sound, Injective, Fresh
<1>5. m \in unguarded'
  BY DEF Sound, Agreement, Agrees
<1>6. Agreement'
  <2> SUFFICES ASSUME NEW k \in Mutexes \ unguarded'
               PROVE  Agrees(k)'
    BY DEF Agreement
  <2>1. k \in Mutexes \ unguarded /\ k # m
    BY <1>5
  <2>2. \A u \in Threads : holds'[u][k] = holds[u][k]
    <3>1. holds \in [Threads -> [Mutexes -> Nat]]
      BY DEF TypeOK
    <3> HIDE DEF IInv, NotFound
    <3> QED BY <1>1, <2>1, <3>1
  <2>3. Agrees(k)
    BY <2>1 DEF Sound, Agreement
  <2> QED BY <2>2, <2>3 DEF Agrees
<1> QED BY <1>2, <1>3, <1>4, <1>6 DEF Sound

\* A call that ends with the thread's frame cleared.
LEMMA ReturnStep ==
  ASSUME IInv, ~broken, NEW t \in Threads, Return(t),
         broken' \in BOOLEAN,
         owner' \in [Sections -> Threads \cup {NULL}], depth' \in [Sections -> Nat],
         holds' \in [Threads -> [Mutexes -> Nat]],
         \A u \in Threads : u # t => holds'[u] = holds[u],
         SectionsSane', ~broken' => Agreement'
  PROVE  IInv'
<1> USE LwAssumption DEF IInv, Return, Goto, maps
<1>1. TypeOK'
  BY DEF TypeOK
<1>2. CallsSane'
  BY DEF CallsSane, TypeOK
<1>3. Injective' /\ Fresh'
  BY DEF Sound, Injective, Fresh, TypeOK
<1> QED BY <1>1, <1>2, <1>3 DEF Sound

LEMMA UnchangedAgrees ==
  ASSUME IInv, ~broken, UNCHANGED <<maps, state, holds, unguarded>>
  PROVE  /\ owner' \in [Sections -> Threads \cup {NULL}] /\ depth' \in [Sections -> Nat]
         /\ holds' \in [Threads -> [Mutexes -> Nat]]
         /\ SectionsSane' /\ Agreement' /\ Injective'
<1>1. /\ owner' = owner /\ depth' = depth /\ holds' = holds
      /\ g_lwmutex_map' = g_lwmutex_map /\ unguarded' = unguarded
  BY DEF maps, state
<1>2. /\ owner' \in [Sections -> Threads \cup {NULL}] /\ depth' \in [Sections -> Nat]
      /\ holds' \in [Threads -> [Mutexes -> Nat]]
  BY <1>1 DEF IInv, TypeOK
<1>3. SectionsSane'
  BY <1>1 DEF IInv, SectionsSane
<1>4. Agreement'
  BY <1>1 DEF IInv, Sound, Agreement, Agrees
<1>5. Injective'
  BY <1>1 DEF IInv, Sound, Injective
<1> QED BY <1>2, <1>3, <1>4, <1>5

LEMMA EnterStep ==
  ASSUME IInv, ~broken, NEW t \in Threads, Enter(t) \/ TryEnter(t)
  PROVE  IInv'
<1>1. cs[t] # NULL /\ Return(t) /\ UNCHANGED broken /\ UNCHANGED <<maps, unguarded>>
  BY DEF IInv, CallsSane, Enter, TryEnter, Return
<1>2. CASE CanEnter(t) /\ Acquire(t)
  <2>1. \A u \in Threads : u # t => holds'[u] = holds[u]
    BY <1>2 DEF Acquire, Believe, IInv, TypeOK
  <2>2. broken' \in BOOLEAN
    BY <1>1 DEF IInv, TypeOK
  <2> QED BY <1>1, <1>2, <2>1, <2>2, AcquireAgrees, ReturnStep
<1>3. CASE UNCHANGED <<state, holds>>
  <2>1. broken' \in BOOLEAN /\ \A u \in Threads : u # t => holds'[u] = holds[u]
    BY <1>1, <1>3 DEF IInv, TypeOK
  <2> QED BY <1>1, <1>3, <2>1, UnchangedAgrees, ReturnStep
<1> QED BY <1>2, <1>3 DEF Enter, TryEnter

LEMMA LeaveStep ==
  ASSUME IInv, ~broken, NEW t \in Threads, Leave(t)
  PROVE  IInv'
<1>1. /\ cs[t] # NULL /\ holds[t][lw[t]] > 0
      /\ Return(t) /\ UNCHANGED <<maps, unguarded>>
  BY DEF IInv, CallsSane, Leave, Return
<1>2. CASE owner[cs[t]] = t /\ Release(t) /\ UNCHANGED broken
  <2>1. \A u \in Threads : u # t => holds'[u] = holds[u]
    BY <1>2 DEF Release, Believe, IInv, TypeOK
  <2>2. broken' \in BOOLEAN
    BY <1>2 DEF IInv, TypeOK
  <2> QED BY <1>1, <1>2, <2>1, <2>2, ReleaseAgrees, ReturnStep
<1>3. CASE broken' = TRUE /\ UNCHANGED <<state, holds>>
  <2>1. broken' \in BOOLEAN /\ \A u \in Threads : u # t => holds'[u] = holds[u]
    BY <1>3
  <2> QED BY <1>1, <1>3, <2>1, UnchangedAgrees, ReturnStep
<1> QED BY <1>2, <1>3 DEF Leave

LEMMA SleepStep ==
  ASSUME IInv, ~broken, NEW t \in Threads, Sleep(t)
  PROVE  IInv'
<1> USE LwAssumption DEF Goto, frames
<1>1. /\ cs[t] # NULL /\ holds[t][lw[t]] > 0 /\ pc[t] = "sleep"
      /\ pc' = [pc EXCEPT ![t] = "asleep"] /\ UNCHANGED <<maps, unguarded>>
      /\ UNCHANGED frames
  BY DEF IInv, CallsSane, Sleep
<1>2. /\ broken' \in BOOLEAN
      /\ owner' \in [Sections -> Threads \cup {NULL}] /\ depth' \in [Sections -> Nat]
      /\ holds' \in [Threads -> [Mutexes -> Nat]]
      /\ SectionsSane' /\ Agreement' /\ Injective'
      /\ \A u \in Threads : u # t => holds'[u] = holds[u]
  <2>1. CASE owner[cs[t]] = t /\ Release(t) /\ UNCHANGED broken
    <3>1. \A u \in Threads : u # t => holds'[u] = holds[u]
      BY <2>1 DEF Release, Believe, IInv, TypeOK
    <3>2. broken' \in BOOLEAN
      BY <2>1 DEF IInv, TypeOK
    <3> QED BY <1>1, <2>1, <3>1, <3>2, ReleaseAgrees
  <2>2. CASE broken' = TRUE /\ UNCHANGED <<state, holds>>
    BY <1>1, <2>2, UnchangedAgrees
  <2> QED BY <2>1, <2>2 DEF Sleep
<1>3. TypeOK'
  BY <1>1, <1>2 DEF IInv, TypeOK, maps
<1>4. CallsSane'
  BY <1>1, <1>2 DEF IInv, TypeOK, CallsSane
<1>5. Fresh'
  BY <1>1 DEF IInv, Sound, Fresh, maps
<1> QED BY <1>2, <1>3, <1>4, <1>5 DEF IInv, Sound

\* Steps that change only where threads are and their frames.
LEMMA FrameStep ==
  ASSUME IInv, ~broken, TypeOK', CallsSane', Fresh',
         UNCHANGED <<maps, state, holds, unguarded, broken>>
  PROVE  IInv'
BY UnchangedAgrees DEF IInv, Sound

LEMMA WaitStep ==
  ASSUME IInv, ~broken, NEW t \in Threads, NEW c \in Conds, NEW m \in Mutexes,
         NEW finite \in BOOLEAN, sys_lwcond_wait(t, c, m, finite)
  PROVE  IInv'
<1> USE LwAssumption DEF sys_lwcond_wait, Goto, IInv
<1>1. TypeOK'
  BY DEF TypeOK, maps, state
<1>2. CallsSane'
  BY DEF CallsSane, TypeOK
<1>3. Fresh'
  BY DEF Sound, Fresh, TypeOK, maps
<1> QED BY <1>1, <1>2, <1>3, FrameStep

LEMMA SignalStep ==
  ASSUME IInv, ~broken, NEW t \in Threads, NEW c \in Conds, NEW all \in BOOLEAN,
         sys_lwcond_signal(t, c, all)
  PROVE  IInv'
<1> USE LwAssumption DEF sys_lwcond_signal, Goto, IInv, Wakes
<1>1. TypeOK'
  BY DEF TypeOK, maps, state
<1>2. CallsSane'
  BY DEF CallsSane, TypeOK
<1>3. Fresh'
  BY DEF Sound, Fresh, maps
<1> QED BY <1>1, <1>2, <1>3, FrameStep

LEMMA TimeOutStep ==
  ASSUME IInv, ~broken, NEW t \in Threads, TimeOut(t)
  PROVE  IInv'
<1> USE LwAssumption DEF TimeOut, Goto, IInv, frames
<1>1. TypeOK'
  BY DEF TypeOK, maps, state
<1>2. CallsSane'
  BY DEF CallsSane, TypeOK
<1>3. Fresh'
  BY DEF Sound, Fresh, maps
<1> QED BY <1>1, <1>2, <1>3, FrameStep

\* A signaller's call ends; the sleepers it wakes keep their frames.
LEMMA AwakeStep ==
  ASSUME IInv, ~broken, NEW t \in Threads, pc[t] \in {"wake", "wake all"},
         NEW v, NEW woken \in SUBSET Sleepers(v), Awake(t, woken)
  PROVE  IInv'
<1> USE LwAssumption DEF IInv, Awake
<1>1. \A u \in woken : pc[u] = "asleep"
  BY DEF Sleepers
<1>2. TypeOK'
  BY DEF TypeOK, maps, state
<1>3. CallsSane'
  BY <1>1 DEF CallsSane, TypeOK
<1>4. Fresh'
  BY DEF Sound, Fresh, maps
<1> QED BY <1>2, <1>3, <1>4, FrameStep

LEMMA WakeStep ==
  ASSUME IInv, ~broken, NEW t \in Threads, Wake(t)
  PROVE  IInv'
<1>1. CASE pc[t] = "wake all" /\ Awake(t, Sleepers(cv[t]))
  BY <1>1, AwakeStep
<1>2. CASE pc[t] = "wake" /\ \E u \in Sleepers(cv[t]) : Awake(t, {u})
  BY <1>2, AwakeStep
<1>3. CASE pc[t] = "wake" /\ Sleepers(cv[t]) = {} /\ Awake(t, {})
  BY <1>3, AwakeStep
<1> QED BY <1>1, <1>2, <1>3 DEF Wake

\* A new critical section is nobody's, and behind no other mutex.
LEMMA CreateStep ==
  ASSUME IInv, ~broken, NEW t \in Threads, NEW m \in Mutexes, sys_lwmutex_create(t, m)
  PROVE  IInv'
<1> USE LwAssumption DEF IInv
<1>1. CASE /\ Absent(m)
           /\ \E s \in Free(Sections, g_lwmutex_map) :
                /\ g_lwmutex_map' = [g_lwmutex_map EXCEPT ![m] = s]
                /\ owner' = [owner EXCEPT ![s] = NULL]
                /\ depth' = [depth EXCEPT ![s] = 0]
  <2>1. PICK s \in Sections :
               /\ \A n \in Mutexes : g_lwmutex_map[n] # s
               /\ g_lwmutex_map' = [g_lwmutex_map EXCEPT ![m] = s]
               /\ owner' = [owner EXCEPT ![s] = NULL]
               /\ depth' = [depth EXCEPT ![s] = 0]
    <3>1. DOMAIN g_lwmutex_map = Mutexes
      BY DEF TypeOK
    <3>2. \A s \in Free(Sections, g_lwmutex_map) :
            s \in Sections /\ \A n \in Mutexes : g_lwmutex_map[n] # s
      BY <3>1 DEF Free
    <3> QED BY <1>1, <3>2
  <2>2. g_lwmutex_map[m] = NULL
    BY <1>1 DEF Absent
  <2>3. /\ UNCHANGED <<pc, lw, cs, cv, timed, holds, unguarded, broken>>
        /\ UNCHANGED g_lwcond_map
    BY DEF sys_lwmutex_create, frames
  <2>4. TypeOK'
    BY <2>1, <2>3 DEF TypeOK
  <2>5. SectionsSane' /\ CallsSane'
    BY <2>1, <2>3 DEF SectionsSane, CallsSane, TypeOK
  <2>6. Injective'
    BY <2>1 DEF Sound, Injective, TypeOK
  <2>7. Fresh'
    BY <2>1, <2>2, <2>3 DEF Sound, Fresh, CallsSane, TypeOK
  <2>8. Agreement'
    <3> SUFFICES ASSUME NEW k \in Mutexes \ unguarded, NEW u \in Threads
                 PROVE  holds[u][k] =
                          IF g_lwmutex_map'[k] # NULL /\ owner'[g_lwmutex_map'[k]] = u
                          THEN depth'[g_lwmutex_map'[k]] ELSE 0
      BY <2>3 DEF Agreement, Agrees
    <3>1. holds[u][k] = IF g_lwmutex_map[k] # NULL /\ owner[g_lwmutex_map[k]] = u
                        THEN depth[g_lwmutex_map[k]] ELSE 0
      BY DEF Sound, Agreement, Agrees
    <3>2. CASE k = m
      BY <2>1, <2>2, <3>1, <3>2 DEF TypeOK
    <3>3. CASE k # m
      <4>1. g_lwmutex_map'[k] = g_lwmutex_map[k] /\ g_lwmutex_map[k] # s
        BY <2>1, <3>3 DEF TypeOK
      <4>2. g_lwmutex_map[k] # NULL =>
              /\ owner'[g_lwmutex_map[k]] = owner[g_lwmutex_map[k]]
              /\ depth'[g_lwmutex_map[k]] = depth[g_lwmutex_map[k]]
        BY <2>1, <4>1 DEF TypeOK
      <4> QED BY <3>1, <4>1, <4>2
    <3> QED BY <3>2, <3>3
  <2> QED BY <2>4, <2>5, <2>6, <2>7, <2>8 DEF Sound
<1>2. CASE UNCHANGED <<g_lwmutex_map, state>>
  <2>1. /\ UNCHANGED <<maps, state, holds, unguarded, broken>>
        /\ UNCHANGED <<pc, frames>>
    BY <1>2 DEF sys_lwmutex_create, maps
  <2>2. TypeOK' /\ CallsSane' /\ Fresh'
    BY <2>1 DEF TypeOK, CallsSane, Sound, Fresh, maps, state, frames
  <2> QED BY <2>1, <2>2, FrameStep
<1> QED BY <1>1, <1>2 DEF sys_lwmutex_create

\* A mutex that nobody owns and nobody has looked up leaves nothing behind.
LEMMA DestroyStep ==
  ASSUME IInv, ~broken, NEW t \in Threads, NEW m \in Mutexes, sys_lwmutex_destroy(t, m)
  PROVE  IInv'
<1> USE LwAssumption DEF IInv, sys_lwmutex_destroy, state, frames
<1>1. TypeOK'
  BY DEF TypeOK, InUse
<1>2. SectionsSane' /\ CallsSane'
  BY DEF SectionsSane, CallsSane
<1>3. ASSUME ~broken' PROVE Injective' /\ Fresh' /\ Agreement'
  <2>1. /\ owner[g_lwmutex_map[m]] = NULL
        /\ \A u \in Threads : pc[u] # "idle" => cs[u] # g_lwmutex_map[m]
    BY <1>3 DEF InUse
  <2>2. Injective'
    BY DEF Sound, Injective, TypeOK
  <2>3. Fresh'
    BY <2>1 DEF Sound, Fresh, CallsSane, TypeOK
  <2>4. Agreement'
    <3> SUFFICES ASSUME NEW k \in Mutexes \ unguarded, NEW u \in Threads
                 PROVE  holds[u][k] =
                          IF g_lwmutex_map'[k] # NULL /\ owner[g_lwmutex_map'[k]] = u
                          THEN depth[g_lwmutex_map'[k]] ELSE 0
      BY DEF Agreement, Agrees
    <3>1. holds[u][k] = IF g_lwmutex_map[k] # NULL /\ owner[g_lwmutex_map[k]] = u
                        THEN depth[g_lwmutex_map[k]] ELSE 0
      BY DEF Sound, Agreement, Agrees
    <3> QED BY <2>1, <3>1 DEF TypeOK
  <2> QED BY <2>2, <2>3, <2>4
<1> QED BY <1>1, <1>2, <1>3 DEF Sound

LEMMA CondStep ==
  ASSUME IInv, ~broken, NEW t \in Threads, NEW c \in Conds,
         sys_lwcond_create(t, c) \/ sys_lwcond_destroy(t, c)
  PROVE  IInv'
<1> USE LwAssumption DEF IInv, state, frames, sys_lwcond_create, sys_lwcond_destroy
<1>1. g_lwcond_map' \in [Conds -> Variables \cup {NULL}] /\ broken' \in BOOLEAN
  <2>1. g_lwcond_map \in [Conds -> Variables \cup {NULL}] /\ broken \in BOOLEAN
    BY DEF TypeOK
  <2>2. CASE sys_lwcond_create(t, c)
    <3>1. PICK v \in Free(Variables, g_lwcond_map) :
                 g_lwcond_map' = [g_lwcond_map EXCEPT ![c] = v]
      BY <2>2
    <3>2. v \in Variables
      BY <3>1 DEF Free
    <3> QED BY <2>1, <2>2, <3>1, <3>2
  <2>3. CASE sys_lwcond_destroy(t, c)
    BY <2>1, <2>3 DEF CvInUse
  <2> QED BY <2>2, <2>3
<1>2. UNCHANGED <<g_lwmutex_map, owner, depth, pc, lw, cs, cv, timed, holds, unguarded>>
  OBVIOUS
<1> HIDE DEF sys_lwcond_create, sys_lwcond_destroy
<1>3. TypeOK'
  BY <1>1, <1>2 DEF TypeOK
<1>4. SectionsSane' /\ CallsSane'
  BY <1>2 DEF SectionsSane, CallsSane
<1>5. Injective' /\ Fresh' /\ Agreement'
  BY <1>2 DEF Sound, Injective, Fresh, Agreement, Agrees
<1> QED BY <1>3, <1>4, <1>5 DEF Sound

LEMMA NextIInv == IInv /\ [Next]_vars => IInv'
<1> SUFFICES ASSUME IInv, [Next]_vars PROVE IInv'
  OBVIOUS
<1>1. CASE UNCHANGED vars
  <2>1. /\ UNCHANGED <<maps, state, holds, unguarded, broken>>
        /\ UNCHANGED <<pc, lw, cs, cv, timed, g_lwmutex_map, g_lwcond_map, owner, depth>>
    BY <1>1 DEF vars, maps, state, frames
  <2>2. TypeOK'
    BY <2>1 DEF IInv, TypeOK
  <2>3. SectionsSane' /\ CallsSane'
    BY <2>1 DEF IInv, SectionsSane, CallsSane
  <2>4. Sound'
    BY <2>1 DEF IInv, Sound, Injective, Fresh, Agreement, Agrees
  <2> QED BY <2>2, <2>3, <2>4 DEF IInv
<1>2. CASE Next
  <2>1. PICK t \in Threads : Call(t)
    BY <1>2 DEF Next
  <2>2. ~broken
    BY <1>2 DEF Next
  <2>3. ASSUME NEW m \in Mutexes, sys_lwmutex_lock(t, m) PROVE IInv'
    BY <2>2, <2>3, FoundStep, NotFoundStep DEF sys_lwmutex_lock
  <2>4. ASSUME NEW m \in Mutexes, sys_lwmutex_trylock(t, m) PROVE IInv'
    BY <2>2, <2>4, FoundStep DEF sys_lwmutex_trylock
  <2>5. ASSUME NEW m \in Mutexes, sys_lwmutex_unlock(t, m) PROVE IInv'
    BY <2>2, <2>5, FoundStep, NotFoundStep DEF sys_lwmutex_unlock
  <2>6. CASE Inside(t)
    BY <2>2, <2>6, EnterStep, LeaveStep, SleepStep, TimeOutStep, WakeStep DEF Inside
  <2> QED BY <2>1, <2>2, <2>3, <2>4, <2>5, <2>6, CreateStep, DestroyStep, WaitStep,
             CondStep, SignalStep DEF Call
<1> QED BY <1>1, <1>2

LEMMA Invariance == Spec => []IInv
BY InitIInv, NextIInv, PTL DEF Spec

\* The types of the maps, the critical sections and the calls hold for any threads,
\* addresses and blocks; no thread believes it holds a mutex a negative number of times.
THEOREM TypeCorrect == Spec => []TypeOK
<1>1. IInv => TypeOK
  BY DEF IInv
<1> QED BY <1>1, Invariance, PTL

\* Mutual exclusion of every lwmutex that no thread locked before it was created, as
\* long as nothing undefined has happened.
THEOREM LwmutexExcludes == Spec => []MutualExclusion
<1>1. IInv => MutualExclusion
  <2> SUFFICES ASSUME IInv, ~broken, NEW m \in Mutexes \ unguarded,
                      NEW s \in Threads, NEW t \in Threads,
                      holds[s][m] > 0, holds[t][m] > 0
               PROVE  s = t
    BY DEF MutualExclusion
  <2>1. /\ holds[s][m] > 0 => owner[g_lwmutex_map[m]] = s
        /\ holds[t][m] > 0 => owner[g_lwmutex_map[m]] = t
    BY DEF IInv, Sound, Agreement, Agrees
  <2> QED BY <2>1
<1> QED BY <1>1, Invariance, PTL
=============================================================================
