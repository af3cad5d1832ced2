---------------------------- MODULE IdAllocator ----------------------------
(***************************************************************************)
(* What callers of the LV2 object pool rely on, with no table, no cursor   *)
(* and no probe order: a set of live identifiers.  An allocation returns   *)
(* an identifier that is not live and makes it live; it returns 0 only     *)
(* when every identifier is live.  A lookup hits live identifiers only.    *)
(* Lv2Pool (runtime_glue.cpp:257-285) is shown to implement this module.   *)
(***************************************************************************)
EXTENDS Integers

CONSTANT Ids      \* the identifiers that can be handed out; 0 is none of them

VARIABLES live,   \* the identifiers handed out and not yet given back
          ret,    \* what the last allocation returned
          found   \* what the last lookup returned

vars == <<live, ret, found>>

Init == live = {} /\ ret = 0 /\ found = 0

Acquire == \E id \in Ids \ live :
             live' = live \cup {id} /\ ret' = id /\ UNCHANGED found

Exhausted == live = Ids /\ ret' = 0 /\ UNCHANGED <<live, found>>

Release == \E id \in Ids : live' = live \ {id} /\ UNCHANGED <<ret, found>>

\* Looking an identifier up changes nothing; a miss returns 0.
Lookup == found' \in live \cup {0} /\ UNCHANGED <<live, ret>>

Next == Acquire \/ Exhausted \/ Release \/ Lookup

Spec == Init /\ [][Next]_vars
=============================================================================
