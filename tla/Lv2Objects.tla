----------------------------- MODULE Lv2Objects -----------------------------
(***************************************************************************)
(* Creation and destruction of the LV2 objects that live in the slots of   *)
(* Lv2Pool (runtime_glue.cpp, syscalls 84, 85, 90, 91, 95, 96, 125, 126,   *)
(* 130, 131), and the frame of every call that uses one; Lv2Calls adds     *)
(* the calls.  Only pool_alloc and pool_free hold g_pool_cs: a create      *)
(* publishes the kind first and fills the slot in afterwards, a destroy    *)
(* closes the object first and frees the slot afterwards, and every other  *)
(* call looks the slot up and then uses what it found, so that other       *)
(* threads run in between.                                                 *)
(*                                                                         *)
(* The members of a slot's union are one field each.  "content" says what  *)
(* the Windows object in it is: zeroed memory, open, or closed (a handle   *)
(* that was closed, a critical section that was deleted, a null evq).      *)
(*                                                                         *)
(* The guest may pass any id to any call.  "misused" is history: the ids   *)
(* it created, used and destroyed in overlapping calls, or destroyed by    *)
(* the call meant for another kind, or as a queue that was not there.  "broken" says that something          *)
(* undefined happened; the behaviour ends there.                           *)
(***************************************************************************)
EXTENDS Lv2Pool, FiniteSets

CONSTANTS Threads,    \* the game threads
          NULL,       \* no thread
          SemMax,     \* the maximum of every semaphore
          EVQ_CAP,    \* entries of a queue's ring (128 in the code)
          MaxDepth,   \* bound on recursive locking
          MaxMisused  \* bound on the objects misused in one behaviour

AllKinds == {"LV2_SEM", "LV2_MUTEX", "LV2_COND", "LV2_EVQ", "LV2_EVPORT"}

ASSUME ObjectsAssumption == /\ Kinds = AllKinds
                            /\ LV2_FREE \notin AllKinds
                            /\ IsFiniteSet(Threads) /\ NULL \notin Threads
                            /\ SemMax \in Nat \ {0} /\ EVQ_CAP \in Nat \ {0}
                            /\ MaxDepth \in Nat /\ MaxMisused \in Nat

VARIABLES content,      \* the Windows object of each slot: "zero", "open", "closed"
          count,        \* count of its semaphore (LV2_SEM, and avail of LV2_EVQ)
          cnt,          \* events in its ring (LV2_EVQ)
          owner, depth, \* its critical section (LV2_MUTEX)
          ref,          \* its cond.mutex_id or port.queue_id
          pc, what,     \* where each thread is, and the kind its create or destroy is for
          me, mo,       \* the slots its call holds pointers to, 0 for none
          gone,         \* what it holds below the slot (a kernel object, a queue) was closed
          holds,        \* times it believes it holds each mutex
          balance,      \* history: initial count + posts - waits answered CELL_OK,
                        \* until the semaphore is misused
          misused, broken

slots   == <<content, count, cnt, owner, depth, ref>>
frames  == <<pc, what, me, mo, gone>>
history == <<balance, misused>>
objVars == <<vars, slots, frames, holds, history, broken>>

ObjInit ==
  /\ Init
  /\ content = [id \in Ids |-> "zero"]
  /\ count = [id \in Ids |-> 0] /\ cnt = [id \in Ids |-> 0]
  /\ owner = [id \in Ids |-> NULL] /\ depth = [id \in Ids |-> 0]
  /\ ref = [id \in Ids |-> 0]
  /\ pc = [t \in Threads |-> "idle"] /\ what = [t \in Threads |-> LV2_FREE]
  /\ me = [t \in Threads |-> 0] /\ mo = [t \in Threads |-> 0]
  /\ gone = [t \in Threads |-> FALSE]
  /\ holds = [t \in Threads |-> [id \in Ids |-> 0]]
  /\ balance = [id \in Ids |-> 0]
  /\ misused = {} /\ broken = FALSE
-----------------------------------------------------------------------------
Idle(t) == pc[t] = "idle"
Goto(t, where) == pc' = [pc EXCEPT ![t] = where]

\* pool_get: the slot has the kind asked for.
Hit(id, k) == id \in Ids /\ kind[id] = k

Touches(u, id) == ~Idle(u) /\ id \in {me[u], mo[u]}
Busy(t, id) == \E u \in Threads \ {t} : Touches(u, id)
InTransit(t, id) ==
  \E u \in Threads \ {t} : Touches(u, id) /\ pc[u] \in {"fill", "close", "free"}

\* A call that looks slots up holds pointers to them from then on.
Misuse(ids) == misused' = misused \cup ids
LookUp(t, id, other, where) ==
  /\ me' = [me EXCEPT ![t] = id]
  /\ mo' = [mo EXCEPT ![t] = other]
  /\ Misuse({i \in {id, other} \ {0} : InTransit(t, i)})
  /\ Goto(t, where)

\* The call is over and forgets its pointers.
Return(t) ==
  /\ Goto(t, "idle")
  /\ me' = [me EXCEPT ![t] = 0] /\ mo' = [mo EXCEPT ![t] = 0]
  /\ gone' = [gone EXCEPT ![t] = FALSE]
  /\ what' = [what EXCEPT ![t] = LV2_FREE]

\* The books on a semaphore are kept as long as it is used properly.
Account(id, n) ==
  balance' = IF id \in misused THEN balance ELSE [balance EXCEPT ![id] = @ + n]

\* The slot was given to an object of another kind: its bytes mean something else.
Recycled(id, k) == kind[id] \notin {k, LV2_FREE}
-----------------------------------------------------------------------------
\* pool_alloc clears the slot and publishes its kind; a full pool is no step.  A
\* thread still waiting for what was there before waits for a forgotten handle.
Waits == {"blocked", "awaiting"}
Create(t, k) ==
  /\ Idle(t)
  /\ \E id \in Ids :
       /\ TakeSlot(k, id)
       /\ content' = [content EXCEPT ![id] = "zero"]
       /\ count' = [count EXCEPT ![id] = 0] /\ cnt' = [cnt EXCEPT ![id] = 0]
       /\ owner' = [owner EXCEPT ![id] = NULL] /\ depth' = [depth EXCEPT ![id] = 0]
       /\ ref' = [ref EXCEPT ![id] = 0]
       /\ balance' = [balance EXCEPT ![id] = 0]
       /\ me' = [me EXCEPT ![t] = id]
       /\ gone' = [u \in Threads |-> gone[u] \/ (Touches(u, id) /\ pc[u] \in Waits)]
  /\ Goto(t, "fill") /\ what' = [what EXCEPT ![t] = k]
  /\ UNCHANGED <<ret, found, passed, mo, holds, misused, broken>>

\* The initial count of a semaphore is within its maximum.
Open(id) == content' = [content EXCEPT ![id] = "open"]
CreateSemaphore(id) == /\ Open(id)
                       /\ \E initial \in 0 .. SemMax :
                            /\ count' = [count EXCEPT ![id] = initial]
                            /\ balance' = [balance EXCEPT ![id] = initial]
                       /\ UNCHANGED ref
InitializeMutex(id) == Open(id) /\ UNCHANGED <<count, balance, ref>>
InitializeCond(id) == /\ \E mutex_id \in Ids : ref' = [ref EXCEPT ![id] = mutex_id]
                      /\ UNCHANGED <<content, count, balance>>
NewQueue(id) == Open(id) /\ UNCHANGED <<count, balance, ref>>
NewPort == UNCHANGED <<content, count, balance, ref>>

\* What the create does after pool_alloc; then the id is given out.
Fill(t) ==
  /\ pc[t] = "fill"
  /\ \/ what[t] = "LV2_SEM" /\ CreateSemaphore(me[t])
     \/ what[t] = "LV2_MUTEX" /\ InitializeMutex(me[t])
     \/ what[t] = "LV2_COND" /\ InitializeCond(me[t])
     \/ what[t] = "LV2_EVQ" /\ NewQueue(me[t])
     \/ what[t] = "LV2_EVPORT" /\ NewPort
  /\ broken' = Recycled(me[t], what[t])
  /\ Return(t)
  /\ UNCHANGED <<vars, cnt, owner, depth, holds, misused>>

\* Destroying a mutex somebody is inside of is misuse as well.
Destroy(t, id, k) ==
  /\ Idle(t) /\ Hit(id, k)
  /\ me' = [me EXCEPT ![t] = id]
  /\ what' = [what EXCEPT ![t] = k]
  /\ Misuse(IF Busy(t, id) \/ owner[id] # NULL THEN {id} ELSE {})
  /\ Goto(t, "close")
  /\ UNCHANGED <<vars, slots, mo, gone, holds, balance, broken>>

\* CloseHandle refuses a null handle; anything else that is not open is undefined.
Closable(id, k) == content[id] = "open" \/ (content[id] = "zero" /\ k = "LV2_SEM")

Closed(id) == IF content[id] = "open" THEN "closed" ELSE content[id]

\* CloseHandle, DeleteCriticalSection, free and evq = nullptr are one step: a call
\* between them is on an object that is misused, and is undefined either way.  Threads
\* inside keep what is gone.
Close(t) ==
  /\ pc[t] = "close"
  /\ LET id == me[t] IN
       /\ content' = [content EXCEPT ![id] = Closed(id)]
       /\ count' = [count EXCEPT ![id] = 0] /\ cnt' = [cnt EXCEPT ![id] = 0]
       /\ gone' = [u \in Threads |-> gone[u] \/ (u # t /\ Touches(u, id))]
       /\ broken' = (Recycled(id, what[t]) \/ ~Closable(id, what[t]))
  /\ Goto(t, "free")
  /\ UNCHANGED <<vars, owner, depth, ref, what, me, mo, holds, history>>

KeepsItsId(id) == UNCHANGED vars              \* mutant: the id stays taken
GivesBack(id) == pool_free(id)

FreeSlot(t) ==
  /\ pc[t] = "free"
  /\ GivesBack(me[t])
  /\ Return(t)
  /\ UNCHANGED <<slots, holds, history, broken>>

\* A queue_destroy that finds no queue closes nothing, and frees the slot all the same:
\* whatever has been created there by then.
DestroyNothing(t, id) ==
  /\ Idle(t) /\ id \in Ids
  /\ me' = [me EXCEPT ![t] = id]
  /\ what' = [what EXCEPT ![t] = "LV2_EVQ"]
  /\ Misuse({id})
  /\ Goto(t, "free")
  /\ UNCHANGED <<vars, slots, mo, gone, holds, balance, broken>>

\* cond_destroy and port_destroy free whatever has the number without closing it.
FreeAnything(t, id, k) ==
  /\ Idle(t)
  /\ pool_free(id)
  /\ Misuse(IF Recycled(id, k) \/ Busy(t, id) THEN {id} ELSE {})
  /\ UNCHANGED <<slots, frames, holds, balance, broken>>
=============================================================================
