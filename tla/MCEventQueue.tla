---------------------------- MODULE MCEventQueue ----------------------------
(***************************************************************************)
(* Three threads over a ring of two entries and five sends: the ring wraps *)
(* twice, fills up, drops, and two receivers can be between their wait and *)
(* their dequeue while a third thread sends.                               *)
(***************************************************************************)
EXTENDS EventQueue
=============================================================================
