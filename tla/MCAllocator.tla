----------------------------- MODULE MCAllocator -----------------------------
(* One pool of three batches of two objects, two threads.                  *)
EXTENDS Allocator, TLC

CONSTANTS t1, t2

MCThreads == {t1, t2}
ThreadSymmetry == Permutations(MCThreads)
=============================================================================
