---------------------------- MODULE MCFileTable ----------------------------
(* Two threads, one inode, a pool of two batches of two mmios.          *)
EXTENDS FileTable, TLC

CONSTANTS t1, t2, i1

MCThreads == {t1, t2}
MCInos == {i1}

\* The pool's objects are ordered by their list links, so only the threads
\* are symmetric.
Symmetry == Permutations(MCThreads)
=============================================================================
