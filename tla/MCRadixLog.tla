----------------------------- MODULE MCRadixLog -----------------------------
(***************************************************************************)
(* Model-checking instance of RadixLog: two threads on an 8-byte file of  *)
(* 2-byte tables, one bit of index per level, so the file needs an LUD    *)
(* (skip), two LMDs and four TABLEs.                                      *)
(***************************************************************************)
EXTENDS RadixLog, TLC

CONSTANTS t1, t2

MCThreads == {t1, t2}
ThreadSymmetry == Permutations(MCThreads)
=============================================================================
