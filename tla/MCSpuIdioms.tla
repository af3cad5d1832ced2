---------------------------- MODULE MCSpuIdioms ----------------------------
(***************************************************************************)
(* Words of two bytes, two to a register: the sample holds both signs,     *)
(* carries out of each byte, and halves that differ in sign; the counts    *)
(* are all shift counts and all addresses of the local store.              *)
(***************************************************************************)
EXTENDS SpuIdioms

MCCounts == 0 .. 63
=============================================================================
