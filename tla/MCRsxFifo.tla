----------------------------- MODULE MCRsxFifo -----------------------------
(***************************************************************************)
(* A buffer of six words: commands of up to two arguments, NOPs and        *)
(* jumps fill it in every order, with a flush between any two of them.     *)
(***************************************************************************)
EXTENDS RsxFifo
=============================================================================
