------------------------------- MODULE MCMmio -------------------------------
(***************************************************************************)
(* Model-checking instance of Mmio: two foreground threads, a 4-byte       *)
(* mapping covered by one table of 2-byte or 4-byte granules.              *)
(***************************************************************************)
EXTENDS Mmio, TLC

CONSTANTS t1, t2

MCThreads == {t1, t2}
MCOneThread == {t1}

\* The foreground threads are interchangeable (safety runs only).
ThreadSymmetry == Permutations(MCThreads)
=============================================================================
