----------------------------- MODULE EventFifo -----------------------------
(***************************************************************************)
(* What an LV2 event queue promises: a bounded first-in first-out queue.   *)
(* An event is dropped only when the queue is full; every other event is   *)
(* taken exactly once, in the order of the sends.  A thread first claims   *)
(* an event, whichever comes first when it gets to take it; a call comes   *)
(* back empty-handed only when every queued event is claimed by another.   *)
(***************************************************************************)
EXTENDS Naturals, Sequences, FiniteSets

CONSTANTS Threads,    \* the game threads using the queue
          Capacity    \* how many events it holds

VARIABLES queue,      \* events not yet taken; an event is the number of its send
          claims,     \* threads let through to take one event each
          got,        \* what each thread's last call returned, 0 for nothing
          sends       \* number of sends so far

vars == <<queue, claims, got, sends>>

Init == /\ queue = <<>>
        /\ claims = {}
        /\ got = [t \in Threads |-> 0]
        /\ sends = 0

Send == /\ sends' = sends + 1
        /\ \/ Len(queue) < Capacity /\ queue' = Append(queue, sends + 1)
           \/ Len(queue) = Capacity /\ UNCHANGED queue
        /\ UNCHANGED <<claims, got>>

Claim(t) == /\ t \notin claims
            /\ Cardinality(claims) < Len(queue)
            /\ claims' = claims \cup {t}
            /\ UNCHANGED <<queue, got, sends>>

Take(t) == /\ t \in claims
           /\ queue # <<>>
           /\ got' = [got EXCEPT ![t] = Head(queue)]
           /\ queue' = Tail(queue)
           /\ claims' = claims \ {t}
           /\ UNCHANGED sends

GiveUp(t) == /\ t \notin claims
             /\ Cardinality(claims) = Len(queue)
             /\ got' = [got EXCEPT ![t] = 0]
             /\ UNCHANGED <<queue, claims, sends>>

Next == Send \/ \E t \in Threads : Claim(t) \/ Take(t) \/ GiveUp(t)

Spec == Init /\ [][Next]_vars
=============================================================================
