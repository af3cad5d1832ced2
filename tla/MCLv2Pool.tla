----------------------------- MODULE MCLv2Pool -----------------------------
(***************************************************************************)
(* The pool with four usable slots and two kinds: enough for the cursor to *)
(* wrap, for the table to fill, and for three ids to overtake a fourth.    *)
(***************************************************************************)
EXTENDS Lv2Pool
=============================================================================
