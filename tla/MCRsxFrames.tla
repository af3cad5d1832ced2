---------------------------- MODULE MCRsxFrames -----------------------------
(***************************************************************************)
(* One pixel, three threads, batches of one or two ranges, one array named *)
(* by its offset or its address, and fragments at two depths.              *)
(***************************************************************************)
EXTENDS RsxFrames

SomeRanges == {[first |-> 0, cnt |-> 1], [first |-> 1, cnt |-> 2]}
=============================================================================
