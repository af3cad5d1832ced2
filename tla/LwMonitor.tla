----------------------------- MODULE LwMonitor -----------------------------
(***************************************************************************)
(* Game threads that use one lwmutex and one lwcond as a monitor, the way  *)
(* condition variables are meant to be used: a waiter locks, waits until   *)
(* the condition holds, and unlocks; a notifier locks, makes it hold,      *)
(* unlocks and then signals.  Both objects were created before and outlive *)
(* the threads.  The calls are those of LwSync.                            *)
(*                                                                         *)
(* Or a game whose threads make any calls in any order: which of the two   *)
(* it is, is settled at the start.                                         *)
(***************************************************************************)
EXTENDS LwSync

CONSTANTS Waiters, Notifiers,  \* the threads that wait and those that notify
          mutex, cond,         \* the guest addresses they use
          Others               \* the threads of a game that is not a monitor

ASSUME MonitorAssumption == /\ Threads = Waiters \cup Notifiers /\ Others \subseteq Threads
                            /\ mutex \in Mutexes /\ cond \in Conds

VARIABLES step,    \* the statement each thread is at
          ready,   \* the condition
          monitor  \* the game is a monitor

mvars == <<vars, step, ready, monitor>>

Created(block) == block # NULL

MonitorInit ==
  /\ Init
  /\ step = [t \in Threads |-> "lock"]
  /\ ready = FALSE
  /\ monitor \in BOOLEAN

\* One thread creates both objects before the others start.
SetUp == \E t \in Threads :
           \/ ~Created(g_lwmutex_map[mutex]) /\ sys_lwmutex_create(t, mutex)
           \/ ~Created(g_lwcond_map[cond]) /\ sys_lwcond_create(t, cond)

SetUpDone == Created(g_lwmutex_map[mutex]) /\ Created(g_lwcond_map[cond])

At(t, where) == SetUpDone /\ pc[t] = "idle" /\ step[t] = where
Then(t, where) == step' = [step EXCEPT ![t] = where]

Lock(t) == /\ At(t, "lock") /\ sys_lwmutex_lock(t, mutex)
           /\ Then(t, "test") /\ UNCHANGED ready

Wait(t) == /\ t \in Waiters /\ At(t, "test") /\ ~ready
           /\ sys_lwcond_wait(t, cond, mutex, FALSE)
           /\ UNCHANGED <<step, ready>>

Proceed(t) == /\ t \in Waiters /\ At(t, "test") /\ ready
              /\ Then(t, "unlock") /\ UNCHANGED <<vars, ready>>

MakeReady(t) == /\ t \in Notifiers /\ At(t, "test")
                /\ ready' = TRUE
                /\ Then(t, "unlock") /\ UNCHANGED vars

Unlock(t) == /\ At(t, "unlock") /\ sys_lwmutex_unlock(t, mutex)
             /\ Then(t, IF t \in Notifiers THEN "signal" ELSE "done")
             /\ UNCHANGED ready

Signal(t) == /\ At(t, "signal") /\ sys_lwcond_signal(t, cond, TRUE)
             /\ Then(t, "done") /\ UNCHANGED ready

Statement(t) ==
  \/ Lock(t) \/ Wait(t) \/ Proceed(t) \/ MakeReady(t) \/ Unlock(t) \/ Signal(t)
  \/ Inside(t) /\ UNCHANGED <<step, ready>>

MonitorNext == \/ SetUp /\ UNCHANGED <<step, ready>>
               \/ \E t \in Threads : Statement(t)

OtherNext == ~broken /\ (\E t \in Others : Call(t)) /\ UNCHANGED <<step, ready>>

OfMonitor(action) == monitor /\ action /\ UNCHANGED monitor
OfOthers(action)  == ~monitor /\ action /\ UNCHANGED monitor

\* Every thread of a monitor that can go on does: the system schedules all of them.
GameSpec == /\ MonitorInit
            /\ [][OfMonitor(MonitorNext) \/ OfOthers(OtherNext)]_mvars
            /\ WF_mvars(OfMonitor(SetUp /\ UNCHANGED <<step, ready>>))
            /\ \A t \in Threads : WF_mvars(OfMonitor(Statement(t)))
-----------------------------------------------------------------------------
\* No wakeup is lost: once a thread has made the condition hold, every waiter leaves
\* its loop and releases the mutex, wherever in its call to wait it was
\* (runtime_glue.cpp:1506-1548).
WaitersProceed == monitor => <>[](\A t \in Threads : step[t] = "done" /\ pc[t] = "idle")
=============================================================================
