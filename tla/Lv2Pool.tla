------------------------------ MODULE Lv2Pool ------------------------------
(***************************************************************************)
(* The LV2 kernel-object pool of runtime_glue.cpp: a fixed table of slots  *)
(* whose indices are the ids the guest holds for semaphores, mutexes,      *)
(* condition variables, event queues and event ports.  pool_alloc and      *)
(* pool_free run under g_pool_cs, so each is one step; pool_get takes no   *)
(* lock but reads one aligned word.                                        *)
(***************************************************************************)
EXTENDS Integers

CONSTANTS MAX_LV2_OBJ,   \* table size; slot 0 is never used (512 in the code)
          Kinds,         \* the object kinds of enum Lv2Kind other than LV2_FREE
          LV2_FREE       \* the kind of an unused slot

ASSUME PoolAssumption == /\ MAX_LV2_OBJ \in Nat \ {0, 1}
                         /\ LV2_FREE \notin Kinds

VARIABLES kind,           \* g_pool[id].kind
          g_pool_cursor,  \* where the next search starts
          ret,            \* id returned by the last pool_alloc, 0 for none
          found,          \* object returned by the last pool_get, 0 for none
          passed          \* history: passed[y] are the ids handed out since y is free

vars == <<kind, g_pool_cursor, ret, found, passed>>

N   == MAX_LV2_OBJ - 1
Ids == 1 .. N

Init == /\ kind = [id \in Ids |-> LV2_FREE]
        /\ g_pool_cursor = 1
        /\ ret = 0 /\ found = 0
        /\ passed = [id \in Ids |-> {}]
-----------------------------------------------------------------------------
IsFree(id) == kind[id] = LV2_FREE

\* The slot the search looks at in its i-th iteration.
Probe(i) == ((g_pool_cursor - 1 + i) % N) + 1

\* The iterations of the search, and the cursor it leaves behind the slot it took.
IterationsOneShort == 0 .. N - 2      \* mutant: the last slot is never tried
Iterations == 0 .. N - 1

CursorStays(id) == id                 \* mutant: the next search starts at the same slot
CursorUnwrapped(id) == id + 1         \* mutant: the cursor runs off the table
NextCursor(id) == (id % N) + 1

\* i is the first iteration of the search that meets a free slot.
FirstFree(i) == /\ IsFree(Probe(i))
                /\ \A j \in 0 .. i - 1 : ~IsFree(Probe(j))

\* history bookkeeping: id was handed out while every other free id waited
Overtaken(id) == [y \in Ids |-> IF y = id THEN {}
                                ELSE IF IsFree(y) THEN passed[y] \cup {id}
                                ELSE {}]

\* The search found slot id, which now belongs to an object of kind k.
TakeSlot(k, id) == /\ \E i \in Iterations : FirstFree(i) /\ id = Probe(i)
                   /\ kind' = [kind EXCEPT ![id] = k]
                   /\ g_pool_cursor' = NextCursor(id)

\* "POOL FULL"
PoolFull == \A i \in Iterations : ~IsFree(Probe(i))

pool_alloc(k) ==
  /\ UNCHANGED found
  /\ \/ \E id \in Ids : TakeSlot(k, id) /\ ret' = id /\ passed' = Overtaken(id)
     \/ PoolFull /\ ret' = 0 /\ UNCHANGED <<kind, g_pool_cursor, passed>>

\* Frees whatever the slot holds; an id outside the table is ignored.
pool_free(id) ==
  /\ id \in Ids
  /\ kind' = [kind EXCEPT ![id] = LV2_FREE]
  /\ UNCHANGED <<g_pool_cursor, ret, found, passed>>

pool_get(id, k) ==
  /\ found' = IF id \in Ids /\ kind[id] = k THEN id ELSE 0
  /\ UNCHANGED <<kind, g_pool_cursor, ret, passed>>

\* The guest may pass any id: 0, one past the table, or one of the wrong kind.
GuestIds == 0 .. MAX_LV2_OBJ

Next == \/ \E k \in Kinds : pool_alloc(k)
        \/ \E id \in GuestIds : pool_free(id)
        \/ \E id \in GuestIds, k \in Kinds : pool_get(id, k)

Spec == Init /\ [][Next]_vars
-----------------------------------------------------------------------------
\* Types of the pool's state; the cursor never leaves the table and an id
\* returned to the guest is 0 or a real slot.
TypeOK == /\ kind \in [Ids -> Kinds \cup {LV2_FREE}]
          /\ g_pool_cursor \in Ids
          /\ ret \in Ids \cup {0} /\ found \in Ids \cup {0}
          /\ passed \in [Ids -> SUBSET Ids]

HandedOut(id) == IsFree(id) /\ ~IsFree(id)'

\* Round-robin reuse: an id is never handed out a second time while some
\* other id stayed free in between.  An id that was just freed may be the next
\* one, if the cursor stands there; but then each other free id has its turn
\* before it comes again (runtime_glue.cpp:260, 264).
RoundRobin ==
  [][\A x, y \in Ids : HandedOut(x) /\ x # y /\ IsFree(y) => x \notin passed[y]]_vars

\* From the cursor, how many iterations away the search meets id.
Distance(id) == IF id >= g_pool_cursor THEN id - g_pool_cursor
                ELSE id - g_pool_cursor + N

\* The inductive form of RoundRobin: from where the search starts, every
\* waiting id comes before the ids that overtook it (runtime_glue.cpp:257-272).
WaitingFirst ==
  \A y \in Ids : IsFree(y) => \A x \in passed[y] : Distance(y) < Distance(x)

\* The pool implements the identifier allocator: live ids are the slots that
\* are not LV2_FREE, a live id is never handed out again, and pool_alloc
\* reports a full pool only when it is full (runtime_glue.cpp:257-285).
Live == {id \in Ids : ~IsFree(id)}
Alloc == INSTANCE IdAllocator WITH live <- Live
Refinement == Alloc!Spec
=============================================================================
