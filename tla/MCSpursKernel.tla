--------------------------- MODULE MCSpursKernel ---------------------------
(***************************************************************************)
(* Two slots, one pc for every range the code tells apart, three restarts  *)
(* of the burst and two turns of a workload.                               *)
(***************************************************************************)
EXTENDS SpursKernel
=============================================================================
