------------------------------ MODULE Lv2Calls ------------------------------
(***************************************************************************)
(* The calls on LV2 objects by id: semaphores (86-88), mutexes (92-94),    *)
(* condition variables (97-99), event queues and ports (127, 128, 132,     *)
(* 134).  A call that finds no object of its kind returns at once and is   *)
(* no step.  An event is a count here; its contents are EventQueue's.      *)
(*                                                                         *)
(* Windows: a wait on a handle that is null or closed fails at once; a     *)
(* closed handle may also name a new object already, which counts as       *)
(* undefined, as does a critical section that is not initialised, or is    *)
(* left by a thread that is not inside.  A thread that waits keeps the     *)
(* kernel object alive after its handle is closed, but nobody signals it.  *)
(***************************************************************************)
EXTENDS Lv2Objects

\* The first half of a call on one object.
CallOn(t, id, k, where) ==
  /\ Idle(t) /\ Hit(id, k)
  /\ LookUp(t, id, 0, where)
  /\ UNCHANGED <<vars, slots, what, gone, holds, balance, broken>>

(***************************************************************************)
(* Semaphores                                                              *)
(***************************************************************************)
sys_semaphore_create(t) == Create(t, "LV2_SEM")
sys_semaphore_destroy(t, id) == Destroy(t, id, "LV2_SEM")
sys_semaphore_wait(t, id) == CallOn(t, id, "LV2_SEM", "wait")
sys_semaphore_trywait(t, id) == CallOn(t, id, "LV2_SEM", "poll")
sys_semaphore_post(t, id) == CallOn(t, id, "LV2_SEM", "post")

\* A closed handle may have been handed out again, a slot of another kind holds
\* no handle.
BadHandle(id) == Recycled(id, "LV2_SEM") \/ content[id] = "closed"

\* A count taken, and CELL_OK for it.
Taken(t) == /\ count' = [count EXCEPT ![me[t]] = @ - 1]
            /\ Account(me[t], -1)

\* The handle is read; WAIT_FAILED is not WAIT_TIMEOUT, so the call returns CELL_OK.
StartWait(t) ==
  /\ pc[t] = "wait"
  /\ \/ /\ content[me[t]] = "open" /\ ~Recycled(me[t], "LV2_SEM")
        /\ Goto(t, "blocked")
        /\ UNCHANGED <<what, me, mo, gone, balance, broken>>
     \/ /\ content[me[t]] # "open" \/ Recycled(me[t], "LV2_SEM")
        /\ broken' \in {FALSE, BadHandle(me[t])}
        /\ Account(me[t], -1)
        /\ Return(t)
  /\ UNCHANGED <<vars, slots, holds, misused>>

\* WAIT_OBJECT_0
Signalled(t) == ~gone[t] /\ count[me[t]] > 0

WaitEnds(t) ==
  /\ pc[t] = "blocked"
  /\ Signalled(t) /\ Taken(t)
  /\ Return(t)
  /\ UNCHANGED <<vars, content, cnt, owner, depth, ref, holds, misused, broken>>

\* WAIT_TIMEOUT: of a semaphore nothing was taken.
TimedOutIsOk(t) == Account(me[t], -1)  \* mutant: answered CELL_OK
NothingGranted(t) == UNCHANGED balance

WaitTimesOut(t) ==
  /\ pc[t] \in Waits
  /\ ~Signalled(t)
  /\ IF pc[t] = "blocked" THEN NothingGranted(t) ELSE UNCHANGED balance
  /\ Return(t)
  /\ UNCHANGED <<vars, slots, holds, misused, broken>>

Poll(t) ==
  /\ pc[t] = "poll"
  /\ \/ content[me[t]] = "open" /\ count[me[t]] > 0 /\ Taken(t)
     \/ /\ content[me[t]] # "open" \/ count[me[t]] = 0
        /\ UNCHANGED <<count, balance>>
  /\ broken' \in {FALSE, BadHandle(me[t])}
  /\ Return(t)
  /\ UNCHANGED <<vars, content, cnt, owner, depth, ref, holds, misused>>

\* ReleaseSemaphore releases all or nothing.
Fits(id, n) == count[id] + n <= SemMax

Post(t) ==
  /\ pc[t] = "post"
  /\ \E n \in 1 .. SemMax :
       \/ /\ content[me[t]] = "open" /\ Fits(me[t], n)
          /\ count' = [count EXCEPT ![me[t]] = @ + n]
          /\ Account(me[t], n)
       \/ /\ content[me[t]] # "open" \/ ~Fits(me[t], n)
          /\ UNCHANGED <<count, balance>>
  /\ broken' \in {FALSE, BadHandle(me[t])}
  /\ Return(t)
  /\ UNCHANGED <<vars, content, cnt, owner, depth, ref, holds, misused>>

(***************************************************************************)
(* Mutexes                                                                 *)
(***************************************************************************)
sys_mutex_create(t) == Create(t, "LV2_MUTEX")
sys_mutex_destroy(t, id) == Destroy(t, id, "LV2_MUTEX")

\* The guest unlocks only what it believes it holds.
sys_mutex_lock(t, id) ==
  holds[t][id] < MaxDepth /\ CallOn(t, id, "LV2_MUTEX", "enter")
sys_mutex_trylock(t, id) ==
  holds[t][id] < MaxDepth /\ CallOn(t, id, "LV2_MUTEX", "try")
sys_mutex_unlock(t, id) ==
  holds[t][id] > 0 /\ CallOn(t, id, "LV2_MUTEX", "leave")

BadSection(id) == content[id] # "open" \/ Recycled(id, "LV2_MUTEX")
Believe(t, id, n) == holds' = [holds EXCEPT ![t][id] = @ + n]

EnterAnyway(t, id) ==                          \* mutant: nobody checks the owner
  owner' = [owner EXCEPT ![id] = t] /\ Believe(t, id, 1) /\ UNCHANGED depth
EnterSection(t, id) == /\ owner[id] \in {NULL, t}
                       /\ owner' = [owner EXCEPT ![id] = t]
                       /\ depth' = [depth EXCEPT ![id] = @ + 1]
                       /\ Believe(t, id, 1)

LeaveSection(t, id) ==
  /\ owner[id] = t
  /\ depth' = [depth EXCEPT ![id] = @ - 1]
  /\ owner' = [owner EXCEPT ![id] = IF depth[id] = 1 THEN NULL ELSE t]
  /\ Believe(t, id, -1)

SameSection == UNCHANGED <<owner, depth, holds>>
Enter(t) ==
  /\ pc[t] = "enter"
  /\ \/ ~BadSection(me[t]) /\ EnterSection(t, me[t]) /\ UNCHANGED broken
     \/ BadSection(me[t]) /\ broken' = TRUE /\ SameSection
  /\ Return(t)
  /\ UNCHANGED <<vars, content, count, cnt, ref, history>>

TryEnter(t) ==
  /\ pc[t] = "try"
  /\ \/ ~BadSection(me[t]) /\ EnterSection(t, me[t]) /\ UNCHANGED broken
     \/ /\ ~BadSection(me[t]) /\ owner[me[t]] \notin {NULL, t}
        /\ SameSection /\ UNCHANGED broken
     \/ BadSection(me[t]) /\ broken' = TRUE /\ SameSection
  /\ Return(t)
  /\ UNCHANGED <<vars, content, count, cnt, ref, history>>

Leave(t) ==
  /\ pc[t] = "leave"
  /\ \/ ~BadSection(me[t]) /\ LeaveSection(t, me[t]) /\ UNCHANGED broken
     \/ /\ BadSection(me[t]) \/ owner[me[t]] # t
        /\ broken' = TRUE /\ SameSection
  /\ Return(t)
  /\ UNCHANGED <<vars, content, count, cnt, ref, history>>

(***************************************************************************)
(* Condition variables.  The mutex is looked up by the number the          *)
(* condition was created with; the guest waits while it holds that mutex.  *)
(***************************************************************************)
sys_cond_create(t) == Create(t, "LV2_COND")
sys_cond_destroy(t, id) == FreeAnything(t, id, "LV2_COND")

sys_cond_wait(t, id) ==
  /\ Idle(t) /\ Hit(id, "LV2_COND") /\ Hit(ref[id], "LV2_MUTEX")
  /\ holds[t][ref[id]] > 0
  /\ LookUp(t, id, ref[id], "sleep")
  /\ UNCHANGED <<vars, slots, what, gone, holds, balance, broken>>

Sleep(t) ==
  /\ pc[t] = "sleep"
  /\ \/ /\ ~BadSection(mo[t]) /\ ~Recycled(me[t], "LV2_COND")
        /\ LeaveSection(t, mo[t]) /\ UNCHANGED broken
     \/ /\ BadSection(mo[t]) \/ owner[mo[t]] # t \/ Recycled(me[t], "LV2_COND")
        /\ broken' = TRUE /\ SameSection
  /\ Goto(t, "asleep")
  /\ UNCHANGED <<vars, content, count, cnt, ref, what, me, mo, gone, history>>

SleepTimesOut(t) ==
  /\ pc[t] = "asleep"
  /\ Goto(t, "reenter")
  /\ UNCHANGED <<vars, slots, what, me, mo, gone, holds, history, broken>>

\* The wait returns with the mutex it was called with.
Reenter(t) ==
  /\ pc[t] = "reenter"
  /\ \/ ~BadSection(mo[t]) /\ EnterSection(t, mo[t]) /\ UNCHANGED broken
     \/ BadSection(mo[t]) /\ broken' = TRUE /\ SameSection
  /\ Return(t)
  /\ UNCHANGED <<vars, content, count, cnt, ref, history>>

sys_cond_signal(t, id, all) ==
  CallOn(t, id, "LV2_COND", IF all THEN "wake all" ELSE "wake")

Sleepers(id) == {t \in Threads : pc[t] = "asleep" /\ me[t] = id}
Woken(t) == IF pc[t] = "wake all" THEN {Sleepers(me[t])}
            ELSE {{u} : u \in Sleepers(me[t])} \cup
                 (IF Sleepers(me[t]) = {} THEN {{}} ELSE {})

Wake(t) ==
  /\ pc[t] \in {"wake", "wake all"}
  /\ \E us \in Woken(t) :
       pc' = [u \in Threads |-> IF u = t THEN "idle"
                                ELSE IF u \in us THEN "reenter" ELSE pc[u]]
  /\ me' = [me EXCEPT ![t] = 0] /\ gone' = [gone EXCEPT ![t] = FALSE]
  /\ broken' = Recycled(me[t], "LV2_COND")
  /\ UNCHANGED <<vars, slots, what, mo, holds, history>>

(***************************************************************************)
(* Event queues and ports.                                                 *)
(***************************************************************************)
sys_event_queue_create(t) == Create(t, "LV2_EVQ")
HasQueue(id) == content[id] = "open"
BadQueue(id) == ~HasQueue(id) \/ Recycled(id, "LV2_EVQ")

sys_event_queue_destroy(t, id) ==
  IF Hit(id, "LV2_EVQ") /\ HasQueue(id) THEN Destroy(t, id, "LV2_EVQ")
                                         ELSE DestroyNothing(t, id)

sys_event_queue_receive(t, id) ==
  /\ HasQueue(id) /\ CallOn(t, id, "LV2_EVQ", "receive")
sys_event_queue_tryreceive(t, id) ==
  /\ HasQueue(id) /\ CallOn(t, id, "LV2_EVQ", "tryreceive")

\* o->evq is read again for its semaphore, and a third time after the wait.
StartReceive(t) ==
  /\ pc[t] = "receive"
  /\ broken' = BadQueue(me[t])
  /\ Goto(t, "awaiting")
  /\ UNCHANGED <<vars, slots, what, me, mo, gone, holds, history>>

AwaitEnds(t) ==
  /\ pc[t] = "awaiting" /\ Signalled(t)
  /\ count' = [count EXCEPT ![me[t]] = @ - 1]
  /\ Goto(t, "take")
  /\ UNCHANGED <<vars, content, cnt, owner, depth, ref, what, me, mo, gone,
                 holds, history, broken>>

PollQueue(t) ==
  /\ pc[t] = "tryreceive"
  /\ \/ /\ count[me[t]] > 0
        /\ count' = [count EXCEPT ![me[t]] = @ - 1]
        /\ Goto(t, "take") /\ UNCHANGED <<what, me, mo, gone>>
     \/ count[me[t]] = 0 /\ Return(t) /\ UNCHANGED count
  /\ broken' = BadQueue(me[t])
  /\ UNCHANGED <<vars, content, cnt, owner, depth, ref, holds, history>>

Take(t) ==
  /\ pc[t] = "take"
  /\ broken' = BadQueue(me[t])
  /\ cnt' = [cnt EXCEPT ![me[t]] = @ - 1]
  /\ Return(t)
  /\ UNCHANGED <<vars, content, count, owner, depth, ref, holds, history>>

sys_event_port_create(t) == Create(t, "LV2_EVPORT")
sys_event_port_destroy(t, id) == FreeAnything(t, id, "LV2_EVPORT")

sys_event_port_connect_local(t, id) == CallOn(t, id, "LV2_EVPORT", "connect")

Connect(t) ==
  /\ pc[t] = "connect"
  /\ \E queue_id \in Ids : ref' = [ref EXCEPT ![me[t]] = queue_id]
  /\ broken' = Recycled(me[t], "LV2_EVPORT")
  /\ Return(t)
  /\ UNCHANGED <<vars, content, count, cnt, owner, depth, holds, history>>

sys_event_port_send(t, id) == CallOn(t, id, "LV2_EVPORT", "route")

\* The queue whose number the port holds, if there is one.
Route(t) ==
  LET q == ref[me[t]]
      found_queue == Hit(q, "LV2_EVQ") /\ HasQueue(q) IN
  /\ pc[t] = "route"
  /\ \/ found_queue /\ LookUp(t, me[t], q, "deliver") /\ UNCHANGED <<what, gone>>
     \/ ~found_queue /\ Return(t) /\ UNCHANGED misused
  /\ broken' = Recycled(me[t], "LV2_EVPORT")
  /\ UNCHANGED <<vars, slots, holds, balance>>

\* Under the critical section of the queue found; a full ring drops the event.
WithRoom(id) == cnt[id] < EVQ_CAP
DropAndSignal(id) ==                           \* mutant: a drop releases the semaphore
  count' = [count EXCEPT ![id] = @ + 1] /\ UNCHANGED cnt
Drop(id) == UNCHANGED <<cnt, count>>

Deliver(t) ==
  /\ pc[t] = "deliver"
  /\ \/ /\ WithRoom(mo[t])
        /\ cnt' = [cnt EXCEPT ![mo[t]] = @ + 1]
        /\ count' = [count EXCEPT ![mo[t]] = @ + 1]
     \/ ~WithRoom(mo[t]) /\ Drop(mo[t])
  /\ broken' = (gone[t] \/ BadQueue(mo[t]) \/ Recycled(me[t], "LV2_EVPORT"))
  /\ Return(t)
  /\ UNCHANGED <<vars, content, owner, depth, ref, holds, history>>
-----------------------------------------------------------------------------
Creates(t) == \/ sys_semaphore_create(t) \/ sys_mutex_create(t) \/ sys_cond_create(t)
              \/ sys_event_queue_create(t) \/ sys_event_port_create(t)

Destroys(t, id) == \/ sys_semaphore_destroy(t, id) \/ sys_mutex_destroy(t, id)
                   \/ sys_cond_destroy(t, id) \/ sys_event_queue_destroy(t, id)
                   \/ sys_event_port_destroy(t, id)

Begin(t, id) == \/ sys_semaphore_wait(t, id)
                \/ sys_semaphore_trywait(t, id) \/ sys_semaphore_post(t, id)
                \/ sys_mutex_lock(t, id) \/ sys_mutex_trylock(t, id)
                \/ sys_mutex_unlock(t, id)
                \/ sys_cond_wait(t, id)
                \/ \E all \in BOOLEAN : sys_cond_signal(t, id, all)
                \/ sys_event_queue_receive(t, id)
                \/ sys_event_queue_tryreceive(t, id)
                \/ sys_event_port_connect_local(t, id) \/ sys_event_port_send(t, id)

Proceed(t) == \/ Fill(t) \/ Close(t) \/ FreeSlot(t)
              \/ StartWait(t) \/ WaitEnds(t) \/ WaitTimesOut(t) \/ Poll(t) \/ Post(t)
              \/ Enter(t) \/ TryEnter(t) \/ Leave(t)
              \/ Sleep(t) \/ SleepTimesOut(t) \/ Reenter(t) \/ Wake(t)
              \/ StartReceive(t) \/ AwaitEnds(t) \/ PollQueue(t) \/ Take(t)
              \/ Connect(t) \/ Route(t) \/ Deliver(t)

ObjNext == /\ ~broken /\ Cardinality(misused) <= MaxMisused
           /\ \E t \in Threads : \/ Creates(t)
                                 \/ \E id \in Ids : Destroys(t, id) \/ Begin(t, id)
                                 \/ Proceed(t)

ObjSpec == ObjInit /\ [][ObjNext]_objVars
-----------------------------------------------------------------------------
\* Nothing undefined happens to a guest that starts no call on an object before
\* its create has returned or while it is destroyed, and destroys only what is
\* there and nobody is using, by the call for its kind: no call then meets a slot that is
\* published but empty, closed but not free, or another object's
\* (runtime_glue.cpp:257-285 and the calls that use them).
BrokenOnlyByMisuse == broken => misused # {}

\* Each wait answered CELL_OK took a count: initial count plus posts less grants
\* is what the semaphore holds, unless it was destroyed under a call; then a wait
\* is answered CELL_OK for nothing (runtime_glue.cpp:1274-1323).
SemaphoreGrants ==
  ~broken => \A id \in Ids \ misused :
    kind[id] = "LV2_SEM" /\ content[id] = "open" => balance[id] = count[id]

\* Two threads never both hold a mutex, through condition waits and reuse of its id
\* (runtime_glue.cpp:1326-1413).
MutexExcludes ==
  ~broken => \A id \in Ids \ misused : kind[id] = "LV2_MUTEX" =>
    \A s, t \in Threads : holds[s][id] > 0 /\ holds[t][id] > 0 => s = t

\* Receivers past the wait of a queue, which they have not looked up again yet.
Claiming(id) == {t \in Threads : pc[t] = "take" /\ me[t] = id}

\* In a queue that nobody destroyed under a call, every count and every receiver
\* past its wait has an event, also when the queue's number was another object's
\* before (runtime_glue.cpp:1553-1674).
QueuesBacked ==
  ~broken => \A id \in Ids \ misused : kind[id] = "LV2_EVQ" /\ content[id] = "open" =>
    cnt[id] = count[id] + Cardinality(Claiming(id))
=============================================================================
