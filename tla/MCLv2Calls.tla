----------------------------- MODULE MCLv2Calls -----------------------------
(* Two threads and every kind of object in a table of two ids. *)
EXTENDS Lv2Calls, TLC

Symmetry == Permutations(Threads)
=============================================================================
