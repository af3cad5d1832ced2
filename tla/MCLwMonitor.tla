---------------------------- MODULE MCLwMonitor ----------------------------
(***************************************************************************)
(* Three waiters and two notifiers: more waiters than signals, so that a   *)
(* signal_all that wakes only one leaves one asleep.  Or three threads     *)
(* that call what they like on one mutex, whose block may be freed and     *)
(* taken again while they wait for it, entered at most twice.              *)
(***************************************************************************)
EXTENDS LwMonitor
=============================================================================
