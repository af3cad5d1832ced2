------------------------------ MODULE Timeouts ------------------------------
(***************************************************************************)
(* The timeouts that the waits of LV2 calls hand to the host.              *)
(***************************************************************************)
EXTENDS Integers

\* A DWORD is below W (2^32), a uint64_t below Q (2^64).
INFINITE(W) == W - 1

\* The milliseconds of a wait for tus microseconds: rounded up in 64 bits, cut to a
\* DWORD.
Millis(W, Q, tus) == IF tus = 0 THEN INFINITE(W) ELSE (((tus + 999) % Q) \div 1000) % W
=============================================================================
