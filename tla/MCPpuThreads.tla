---------------------------- MODULE MCPpuThreads ----------------------------
(***************************************************************************)
(* Three thread ids and a table of two entries, so that one create finds   *)
(* it full; one thread runs an idle loop of extra_funcs.cpp.               *)
(***************************************************************************)
EXTENDS PpuThreads
=============================================================================
