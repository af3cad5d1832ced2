------------------------------- MODULE LwSync -------------------------------
(***************************************************************************)
(* Lightweight mutexes and condition variables of runtime_glue.cpp         *)
(* (syscalls 612-616 and 620-625).  Each is named by the guest address of  *)
(* a struct; two maps under g_lw_map_cs give the Windows object behind an  *)
(* address.  A call looks its objects up under the lock of the maps, lets  *)
(* go of that lock, and only then uses the pointers it found.              *)
(*                                                                         *)
(* Blocks stand for what malloc returns: a freed one may be handed out     *)
(* again.  The guest unlocks, and waits under, only mutexes it believes it *)
(* holds; it may destroy anything at any time.  What Windows leaves        *)
(* undefined (a critical section or condition variable deleted in use, or  *)
(* left by a thread that does not own it) ends the behaviour in "broken".  *)
(***************************************************************************)
EXTENDS Integers

CONSTANTS Threads,    \* the game threads
          Mutexes,    \* guest addresses used as lwmutexes
          Conds,      \* guest addresses used as lwconds
          Sections,   \* blocks for CRITICAL_SECTIONs
          Variables,  \* blocks for CONDITION_VARIABLEs
          MaxDepth,   \* bound on recursive locking
          NULL        \* no block, no thread

ASSUME LwAssumption == /\ NULL \notin Threads \cup Mutexes \cup Sections \cup Variables
                       /\ MaxDepth \in Nat

VARIABLES g_lwmutex_map, g_lwcond_map,
          owner, depth,          \* the critical section in each block
          pc, lw, cs, cv, timed, \* each thread's call, its address and the pointers found
          holds,                 \* times each thread believes it holds each mutex
          unguarded,             \* history: mutexes a lock call found in no map
          broken                 \* undefined behaviour was reached

maps   == <<g_lwmutex_map, g_lwcond_map>>
state  == <<owner, depth>>
frames == <<lw, cs, cv, timed>>
vars   == <<maps, state, pc, frames, holds, unguarded, broken>>

Init == /\ g_lwmutex_map = [m \in Mutexes |-> NULL]
        /\ g_lwcond_map = [c \in Conds |-> NULL]
        /\ owner = [s \in Sections |-> NULL] /\ depth = [s \in Sections |-> 0]
        /\ pc = [t \in Threads |-> "idle"]
        /\ lw = [t \in Threads |-> NULL]
        /\ cs = [t \in Threads |-> NULL] /\ cv = [t \in Threads |-> NULL]
        /\ timed = [t \in Threads |-> FALSE]
        /\ holds = [t \in Threads |-> [m \in Mutexes |-> 0]]
        /\ unguarded = {}
        /\ broken = FALSE
-----------------------------------------------------------------------------
Goto(t, where) == pc' = [pc EXCEPT ![t] = where]
Free(blocks, map) == blocks \ {map[a] : a \in DOMAIN map}

\* A thread past its lookup uses the pointers until its call returns.
InUse(s) == owner[s] # NULL \/ \E t \in Threads : pc[t] # "idle" /\ cs[t] = s
CvInUse(v) == \E t \in Threads : pc[t] # "idle" /\ cv[t] = v

Believe(t, m, n) == holds' = [holds EXCEPT ![t][m] = @ + n]

(***************************************************************************)
(* Creation and destruction, under g_lw_map_cs.                            *)
(***************************************************************************)
\* A second create of the same address keeps the first mutex.
CreateAnyway(m) == TRUE                     \* mutant: the second create replaces it
Absent(m) == g_lwmutex_map[m] = NULL

sys_lwmutex_create(t, m) ==
  /\ pc[t] = "idle"
  /\ IF Absent(m)
       THEN \E s \in Free(Sections, g_lwmutex_map) :
              /\ g_lwmutex_map' = [g_lwmutex_map EXCEPT ![m] = s]
              /\ owner' = [owner EXCEPT ![s] = NULL]
              /\ depth' = [depth EXCEPT ![s] = 0]
       ELSE UNCHANGED <<g_lwmutex_map, state>>
  /\ UNCHANGED <<g_lwcond_map, pc, frames, holds, unguarded, broken>>

sys_lwmutex_destroy(t, m) ==
  /\ pc[t] = "idle"
  /\ g_lwmutex_map[m] # NULL
  /\ broken' = InUse(g_lwmutex_map[m])
  /\ g_lwmutex_map' = [g_lwmutex_map EXCEPT ![m] = NULL]
  /\ UNCHANGED <<g_lwcond_map, state, pc, frames, holds, unguarded>>

sys_lwcond_create(t, c) ==
  /\ pc[t] = "idle"
  /\ g_lwcond_map[c] = NULL
  /\ \E v \in Free(Variables, g_lwcond_map) :
       g_lwcond_map' = [g_lwcond_map EXCEPT ![c] = v]
  /\ UNCHANGED <<g_lwmutex_map, state, pc, frames, holds, unguarded, broken>>

sys_lwcond_destroy(t, c) ==
  /\ pc[t] = "idle"
  /\ g_lwcond_map[c] # NULL
  /\ broken' = CvInUse(g_lwcond_map[c])
  /\ g_lwcond_map' = [g_lwcond_map EXCEPT ![c] = NULL]
  /\ UNCHANGED <<g_lwmutex_map, state, pc, frames, holds, unguarded>>

(***************************************************************************)
(* Lookups: the first half of a call on mutex m.                           *)
(***************************************************************************)
Found(t, m, where) ==
  /\ pc[t] = "idle"
  /\ g_lwmutex_map[m] # NULL
  /\ lw' = [lw EXCEPT ![t] = m]
  /\ cs' = [cs EXCEPT ![t] = g_lwmutex_map[m]]
  /\ Goto(t, where)
  /\ UNCHANGED <<maps, state, cv, timed, holds, unguarded, broken>>

NotFound(t, m) ==
  /\ pc[t] = "idle"
  /\ g_lwmutex_map[m] = NULL
  /\ UNCHANGED <<maps, state, pc, frames, broken>>

\* Locking an address that is in no map returns CELL_OK all the same.
sys_lwmutex_lock(t, m) ==
  /\ holds[t][m] < MaxDepth
  /\ \/ Found(t, m, "enter")
     \/ /\ NotFound(t, m)
        /\ Believe(t, m, 1)
        /\ unguarded' = unguarded \cup {m}

\* Trying it returns EBUSY.
sys_lwmutex_trylock(t, m) == holds[t][m] < MaxDepth /\ Found(t, m, "try")

sys_lwmutex_unlock(t, m) ==
  /\ holds[t][m] > 0
  /\ \/ Found(t, m, "leave")
     \/ NotFound(t, m) /\ Believe(t, m, -1) /\ UNCHANGED unguarded

(***************************************************************************)
(* The Windows calls: the second half.                                     *)
(***************************************************************************)
Return(t) == /\ Goto(t, "idle")
             /\ lw' = [lw EXCEPT ![t] = NULL] /\ cs' = [cs EXCEPT ![t] = NULL]
             /\ cv' = [cv EXCEPT ![t] = NULL] /\ timed' = [timed EXCEPT ![t] = FALSE]
             /\ UNCHANGED <<maps, unguarded>>

CanEnter(t) == owner[cs[t]] \in {NULL, t}

Acquire(t) == /\ owner' = [owner EXCEPT ![cs[t]] = t]
              /\ depth' = [depth EXCEPT ![cs[t]] = @ + 1]
              /\ Believe(t, lw[t], 1)

LeftTwice(t) == depth[cs[t]] - 2            \* mutant: one unlock undoes two locks
LevelsLeft(t) == depth[cs[t]] - 1

Release(t) == /\ depth' = [depth EXCEPT ![cs[t]] = LevelsLeft(t)]
              /\ owner' = [owner EXCEPT ![cs[t]] = IF LevelsLeft(t) = 0 THEN NULL ELSE t]
              /\ Believe(t, lw[t], -1)

\* EnterCriticalSection; also how a condition wait ends.
Enter(t) == /\ pc[t] \in {"enter", "reenter"}
            /\ CanEnter(t) /\ Acquire(t)
            /\ Return(t) /\ UNCHANGED broken

TryEnter(t) == /\ pc[t] = "try"
               /\ \/ CanEnter(t) /\ Acquire(t)
                  \/ ~CanEnter(t) /\ UNCHANGED <<state, holds>>
               /\ Return(t) /\ UNCHANGED broken

\* LeaveCriticalSection
Leave(t) ==
  /\ pc[t] = "leave"
  /\ \/ owner[cs[t]] = t /\ Release(t) /\ UNCHANGED broken
     \/ owner[cs[t]] # t /\ broken' = TRUE /\ UNCHANGED <<state, holds>>
  /\ Return(t)

(***************************************************************************)
(* Condition variables.                                                    *)
(***************************************************************************)
\* Either address in no map: the wait returns CELL_OK at once and changes nothing.
sys_lwcond_wait(t, c, m, finite) ==
  /\ pc[t] = "idle"
  /\ holds[t][m] > 0
  /\ g_lwcond_map[c] # NULL /\ g_lwmutex_map[m] # NULL
  /\ lw' = [lw EXCEPT ![t] = m]
  /\ cs' = [cs EXCEPT ![t] = g_lwmutex_map[m]]
  /\ cv' = [cv EXCEPT ![t] = g_lwcond_map[c]]
  /\ timed' = [timed EXCEPT ![t] = finite]
  /\ Goto(t, "sleep")
  /\ UNCHANGED <<maps, state, holds, unguarded, broken>>

\* SleepConditionVariableCS releases the critical section once and sleeps, in one step.
Sleep(t) ==
  /\ pc[t] = "sleep"
  /\ \/ owner[cs[t]] = t /\ Release(t) /\ UNCHANGED broken
     \/ owner[cs[t]] # t /\ broken' = TRUE /\ UNCHANGED <<state, holds>>
  /\ Goto(t, "asleep")
  /\ UNCHANGED <<maps, frames, unguarded>>

TimeOut(t) ==
  /\ pc[t] = "asleep" /\ timed[t]
  /\ Goto(t, "reenter")
  /\ UNCHANGED <<maps, state, frames, holds, unguarded, broken>>

\* signal wakes one sleeper; signal_all and signal_to wake all.
WakesOne(all) == "wake"                     \* mutant: signal_all wakes one
Wakes(all) == IF all THEN "wake all" ELSE "wake"

sys_lwcond_signal(t, c, all) ==
  /\ pc[t] = "idle"
  /\ g_lwcond_map[c] # NULL
  /\ cv' = [cv EXCEPT ![t] = g_lwcond_map[c]]
  /\ Goto(t, Wakes(all))
  /\ UNCHANGED <<maps, state, lw, cs, timed, holds, unguarded, broken>>

Sleepers(v) == {t \in Threads : pc[t] = "asleep" /\ cv[t] = v}

Awake(t, woken) ==
  /\ pc' = [u \in Threads |-> IF u = t THEN "idle" ELSE IF u \in woken THEN "reenter"
                              ELSE pc[u]]
  /\ cv' = [cv EXCEPT ![t] = NULL]
  /\ UNCHANGED <<maps, state, lw, cs, timed, holds, unguarded, broken>>

Wake(t) ==
  \/ pc[t] = "wake all" /\ Awake(t, Sleepers(cv[t]))
  \/ pc[t] = "wake" /\ \E u \in Sleepers(cv[t]) : Awake(t, {u})
  \/ pc[t] = "wake" /\ Sleepers(cv[t]) = {} /\ Awake(t, {})

Inside(t) == Enter(t) \/ TryEnter(t) \/ Leave(t) \/ Sleep(t) \/ TimeOut(t) \/ Wake(t)

\* Any step a thread may take.
Call(t) ==
  \/ \E m \in Mutexes :
       \/ sys_lwmutex_create(t, m) \/ sys_lwmutex_destroy(t, m)
       \/ sys_lwmutex_lock(t, m) \/ sys_lwmutex_trylock(t, m)
       \/ sys_lwmutex_unlock(t, m)
       \/ \E c \in Conds, finite \in BOOLEAN : sys_lwcond_wait(t, c, m, finite)
  \/ \E c \in Conds :
       \/ sys_lwcond_create(t, c) \/ sys_lwcond_destroy(t, c)
       \/ \E all \in BOOLEAN : sys_lwcond_signal(t, c, all)
  \/ Inside(t)

Next == ~broken /\ \E t \in Threads : Call(t)

Spec == Init /\ [][Next]_vars
-----------------------------------------------------------------------------
Places == {"idle", "enter", "try", "leave", "sleep", "asleep", "reenter", "wake", "wake all"}

\* Types of the maps, the critical sections and the calls.
TypeOK == /\ g_lwmutex_map \in [Mutexes -> Sections \cup {NULL}]
          /\ g_lwcond_map \in [Conds -> Variables \cup {NULL}]
          /\ owner \in [Sections -> Threads \cup {NULL}]
          /\ depth \in [Sections -> Nat]
          /\ pc \in [Threads -> Places]
          /\ lw \in [Threads -> Mutexes \cup {NULL}]
          /\ cs \in [Threads -> Sections \cup {NULL}]
          /\ cv \in [Threads -> Variables \cup {NULL}]
          /\ timed \in [Threads -> BOOLEAN]
          /\ holds \in [Threads -> [Mutexes -> Nat]]
          /\ unguarded \subseteq Mutexes
          /\ broken \in BOOLEAN

\* Two threads never both hold a mutex, whatever they create, destroy, lock
\* recursively, wait for and signal, as long as no thread locked it before it was
\* created and nothing undefined has happened (runtime_glue.cpp:1418-1548).
MutualExclusion ==
  ~broken => \A m \in Mutexes \ unguarded : \A s, t \in Threads :
               holds[s][m] > 0 /\ holds[t][m] > 0 => s = t
=============================================================================
