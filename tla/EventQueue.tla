----------------------------- MODULE EventQueue -----------------------------
(***************************************************************************)
(* One LV2 event queue of runtime_glue.cpp between its creation and its    *)
(* destruction: sys_event_port_send, sys_event_queue_receive and           *)
(* sys_event_queue_tryreceive, called by any number of game threads.       *)
(*                                                                         *)
(* The queue is a ring buffer under a critical section plus a Windows      *)
(* semaphore the receivers wait on.  A receiver takes the semaphore first  *)
(* and the critical section afterwards: between the two it holds a claim   *)
(* on some event, and other threads run.  What is done under the critical  *)
(* section is one step.  The 32-byte event is abstracted to the number of  *)
(* the send that made it; zeroed memory is event 0.                        *)
(***************************************************************************)
EXTENDS Integers, FiniteSets

CONSTANTS Threads,    \* the game threads using the queue
          EVQ_CAP,    \* entries of the ring buffer (128 in the code)
          MaxSends    \* bound on the number of sends explored

ASSUME QueueAssumption == /\ EVQ_CAP \in Nat \ {0}
                          /\ MaxSends \in Nat
                          /\ IsFiniteSet(Threads)

VARIABLES buf, head, tail, cnt,   \* the ring buffer of Lv2Evq
          avail,                  \* count of its semaphore
          pc,                     \* where each thread is in a receive call
          infinite,               \* its receive has no timeout
          out,                    \* event its last receive call returned, 0 for none
          sends                   \* number of sends so far

ring    == <<buf, head, tail, cnt>>
threads == <<pc, infinite, out>>
vars    == <<ring, avail, threads, sends>>

Slots == 0 .. EVQ_CAP - 1

\* sys_event_queue_create: zeroed memory, semaphore at 0.
Init == /\ buf = [i \in Slots |-> 0]
        /\ head = 0 /\ tail = 0 /\ cnt = 0
        /\ avail = 0
        /\ pc = [t \in Threads |-> "idle"]
        /\ infinite = [t \in Threads |-> FALSE]
        /\ out = [t \in Threads |-> 0]
        /\ sends = 0
-----------------------------------------------------------------------------
\* ReleaseSemaphore fails, and its result is ignored, at the maximum given to
\* CreateSemaphoreA.
AvailMaxTooSmall == EVQ_CAP - 1          \* mutant: the semaphore saturates
AvailMax == EVQ_CAP * 4
NeverReleased(n) == n                    \* mutant: the event is queued without a wakeup
Released(n) == IF n < AvailMax THEN n + 1 ELSE n

AdvanceUnwrapped(i) == i + 1             \* mutant: the index runs off the buffer
Advance(i) == (i + 1) % EVQ_CAP

\* send: room in the ring, so the event is stored and announced
HasRoomAlways == TRUE                    \* mutant: a full ring is overwritten
HasRoom == cnt < EVQ_CAP

Enqueue(e) ==
  /\ HasRoom
  /\ buf' = [buf EXCEPT ![tail] = e]
  /\ tail' = Advance(tail)
  /\ cnt' = cnt + 1
  /\ avail' = Released(avail)
  /\ UNCHANGED head

\* send: the ring is full, the event is dropped and the call still returns 0
Drop == ~HasRoom /\ UNCHANGED <<ring, avail>>

sys_event_port_send(t) ==
  /\ pc[t] = "idle"
  /\ sends < MaxSends
  /\ sends' = sends + 1
  /\ Enqueue(sends + 1) \/ Drop
  /\ UNCHANGED threads

\* receive: before the wait; inf says the timeout argument is 0
sys_event_queue_receive(t, inf) ==
  /\ pc[t] = "idle"
  /\ pc' = [pc EXCEPT ![t] = "wait"]
  /\ infinite' = [infinite EXCEPT ![t] = inf]
  /\ UNCHANGED <<ring, avail, out, sends>>

\* WaitForSingleObject takes one count of the semaphore.
Acquire(t) == pc[t] = "wait" /\ avail > 0 /\ avail' = avail - 1

WaitReturns(t) ==
  /\ Acquire(t)
  /\ pc' = [pc EXCEPT ![t] = "take"]
  /\ UNCHANGED <<ring, infinite, out, sends>>

\* The wait ends with WAIT_TIMEOUT, which it does only while the count is 0.
TimedOut(t) == pc[t] = "wait" /\ ~infinite[t] /\ avail = 0

WaitTimesOut(t) ==
  /\ TimedOut(t)
  /\ pc' = [pc EXCEPT ![t] = "idle"]
  /\ out' = [out EXCEPT ![t] = 0]
  /\ UNCHANGED <<ring, avail, infinite, sends>>

\* tryreceive polls the semaphore with a zero timeout.
sys_event_queue_tryreceive(t) ==
  /\ pc[t] = "idle"
  /\ \/ /\ avail > 0
        /\ avail' = avail - 1
        /\ pc' = [pc EXCEPT ![t] = "take"]
        /\ UNCHANGED out
     \/ /\ avail = 0
        /\ out' = [out EXCEPT ![t] = 0]
        /\ UNCHANGED <<avail, pc>>
  /\ UNCHANGED <<ring, infinite, sends>>

\* receive and tryreceive: the dequeue, and the event copied to the caller
Dequeue(t) ==
  /\ pc[t] = "take"
  /\ out' = [out EXCEPT ![t] = buf[head]]
  /\ head' = Advance(head)
  /\ cnt' = cnt - 1
  /\ pc' = [pc EXCEPT ![t] = "idle"]
  /\ UNCHANGED <<buf, tail, avail, infinite, sends>>

Next == \E t \in Threads :
          \/ sys_event_port_send(t)
          \/ \E inf \in BOOLEAN : sys_event_queue_receive(t, inf)
          \/ WaitReturns(t)
          \/ WaitTimesOut(t)
          \/ sys_event_queue_tryreceive(t)
          \/ Dequeue(t)

Spec == Init /\ [][Next]_vars

\* Windows schedules every runnable thread and signals a waiter when the count
\* is positive: a thread that can leave its wait, or is past it, goes on.
Fairness == \A t \in Threads : WF_vars(WaitReturns(t)) /\ WF_vars(Dequeue(t))
FairSpec == Spec /\ Fairness
-----------------------------------------------------------------------------
\* Types of the queue's state; the indices never leave the buffer.
TypeOK == /\ buf \in [Slots -> 0 .. MaxSends]
          /\ head \in Slots /\ tail \in Slots
          /\ cnt \in 0 .. EVQ_CAP
          /\ avail \in Nat
          /\ pc \in [Threads -> {"idle", "wait", "take"}]
          /\ infinite \in [Threads -> BOOLEAN]
          /\ out \in [Threads -> 0 .. MaxSends]
          /\ sends \in 0 .. MaxSends

\* Threads that hold a count of the semaphore but have not dequeued yet.
Claims == {t \in Threads : pc[t] = "take"}

\* Every count of the semaphore and every receiver past its wait is backed by a
\* queued event: no receiver dequeues from an empty ring, no queued event is
\* unannounced, and the semaphore never saturates (runtime_glue.cpp:1590-1597,
\* 1662-1668).
ClaimsBacked == avail + Cardinality(Claims) = cnt

\* A receiver blocked without a timeout does not sleep for ever on an event
\* nobody has claimed (runtime_glue.cpp:1590, 1667).
NoLostWakeup ==
  []<>~(cnt > Cardinality(Claims) /\ \E t \in Threads : pc[t] = "wait" /\ infinite[t])

\* The n events of ring b from index h on, oldest first.
RingSeq(b, h, n) == [i \in 1 .. n |-> b[(h + i - 1) % EVQ_CAP]]
Queued == RingSeq(buf, head, cnt)

\* The queue is a first-in first-out queue that loses an event only when it is
\* full and delivers no event twice (runtime_glue.cpp:1581-1627, 1654-1674).
Fifo == INSTANCE EventFifo
          WITH Capacity <- EVQ_CAP, queue <- Queued, claims <- Claims, got <- out
Refinement == Fifo!Spec
=============================================================================
