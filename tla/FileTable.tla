----------------------------- MODULE FileTable -----------------------------
(***************************************************************************)
(* The life of an mmio_t as files are opened, written and closed        *)
(* (file.c, file_hash.c, allocator.c).  libnvmmio_open fstats the file   *)
(* for its inode and size, looks the inode up in the                      *)
(* file hash (get_mmio_hash, ref++ when found); when it is missing it     *)
(* takes a fresh mmio from the pool (get_new_mmio) and publishes it with  *)
(* put_mmio_hash.  close drops the file's reference (delete_mmio_hash)   *)
(* and the last one checkpoints the mmio, unhashes it and returns it to   *)
(* the pool (release_mmio).  Each hash operation runs under its bucket    *)
(* mutex and is one step; the four steps of an open are separate steps,  *)
(* so another thread can run between them.                                *)
(*                                                                         *)
(* Each thread uses one descriptor: fino/fmmio are its file_t's ino and   *)
(* mmio (during an open, fmmio holds the mmio get_new_mmio returned).     *)
(* The buckets are folded into one set of hash nodes: every operation     *)
(* looks an inode up in its own bucket under that bucket's mutex, so the  *)
(* bucket an inode falls in changes no outcome.                           *)
(*                                                                         *)
(* The mmio pool is the Allocator module itself, instantiated on the same *)
(* threads: get_new_mmio is its POP_PROVIDER on the opening thread's      *)
(* provider, release_mmio its PUSH_COLLECTOR on the closing thread's      *)
(* collector, and the mmio_t objects are the pool's objects.  Each mmio   *)
(* in use also has the checkpoint thread get_new_mmio creates for it      *)
(* (mmio.c, checkpoint_thread_func): it sleeps SYNC_PERIOD, runs one     *)
(* checkpoint_mmio pass, and sleeps again, whatever the files do.  Since *)
(* its timing depends on nothing this module tracks, the model does not   *)
(* step it: whether it is asleep or inside a pass when release_mmio       *)
(* cancels it is a free choice made at that moment.                       *)
(***************************************************************************)
EXTENDS Integers, FiniteSets, FiniteSetsExt

CONSTANTS
    Threads,        \* application threads, one open descriptor each
    Inos,           \* inode numbers of the files they open
    NrObjs,         \* mmio_t objects of global_mmio_list (NR_MMIOS rounded)
    SkipUnit,       \* NR_MMIO_FILL
    MaxSkipNodes,   \* MAX_SKIP_NODES
    Pool,           \* model value naming global_mmio_list
    MmapSize,       \* DEFAULT_MMAP_SIZE, the mapping of an empty file
    NoIno,          \* mmio->ino after init_mmio (0)
    NULL

VARIABLES
    pc,         \* where each thread is: idle, lookup, new, put, open
    fino,       \* file->ino, the inode the thread opens or has open
    fmmio,      \* file->mmio (or the fresh mmio between get_new and put)
    hash,       \* the mmios linked in file_hash
    ino,        \* mmio->ino
    ref,        \* mmio->ref
    stale,      \* mmios on which a cancelled checkpoint thread is mid-pass
    st,         \* statbuf.st_size the thread's libnvmmio_open read
    dsize,      \* the inode's size on disk (st_size)
    fsize,      \* mmio->fsize, the size the library reports
    len,        \* the mapping's length, mmio->end - mmio->start
    lsize,      \* (history) the bytes the file holds: what writes made it
    hd, nxt, snx, cnt, inUse,   \* the pool (Allocator)
    halted      \* the process has exited through HANDLE_ERROR

A == INSTANCE Allocator

Mmios == A!Objs
pool  == Mmios \ inUse     \* free mmios, on the global or a local list

ASSUME NoIno \notin Inos /\ NULL \notin Mmios

Sizes == 0 .. MmapSize
Max2(a, b) == IF a > b THEN a ELSE b

fvars == <<pc, fino, fmmio, hash, ino, ref, stale, st, dsize, fsize, len, lsize>>
avars == <<hd, nxt, snx, cnt, inUse>>
vars  == <<fvars, avars, halted>>

\* The hashed mmio of inode i, if any (LIST_FOR_EACH_ENTRY ... ino == mmio->ino).
Hashed(i) == {m \in hash : ino[m] = i}

\* list_add and list_del of a hash node (list.h) on the nodes as a set.
list_add(m) == hash' = hash \cup {m}
list_del(D) == hash' = hash \ D

\* init_file_hash and init_allocator: empty buckets, every mmio on the
\* global list with init_mmio's fields and the zero ref of fresh anonymous
\* memory.
Init ==
    /\ A!Init
    /\ pc = [t \in Threads |-> "idle"]
    /\ fino \in [Threads -> Inos]
    /\ fmmio = [t \in Threads |-> NULL]
    /\ hash = {}
    /\ ino = [m \in Mmios |-> NoIno]
    /\ ref = [m \in Mmios |-> 0]
    /\ stale = {}
    /\ st = [t \in Threads |-> 0]
    /\ dsize = [i \in Inos |-> 0]
    /\ fsize = [m \in Mmios |-> 0]
    /\ len = [m \in Mmios |-> 0]
    /\ lsize = dsize

\* The end of libnvmmio_open: a file_t with pos 0 and its own mutex,
\* pointing to mmio m, is stored in fd_table[fd].  The local fsize (st)
\* is dead from here on.
OpenFile(t, m) ==
    /\ fmmio' = [fmmio EXCEPT ![t] = m]
    /\ pc' = [pc EXCEPT ![t] = "open"]
    /\ st' = [st EXCEPT ![t] = 0]

(***************************************************************************)
(* libnvmmio_open: fstat gives the inode and its size, outside any lock.  *)
(***************************************************************************)
fstat(t, i) ==
    /\ ~halted
    /\ pc[t] = "idle"
    /\ fino' = [fino EXCEPT ![t] = i]
    /\ st' = [st EXCEPT ![t] = dsize[i]]
    /\ pc' = [pc EXCEPT ![t] = "lookup"]
    /\ UNCHANGED <<fmmio, hash, ino, ref, stale, dsize, fsize, len, lsize, avars, halted>>

(***************************************************************************)
(* get_mmio_hash: under the bucket mutex a hashed mmio of the inode gets  *)
(* ref++ and becomes the file's mmio, and the file_t is stored in        *)
(* fd_table.  Without one, the open goes on to get_new_mmio.              *)
(***************************************************************************)
get_mmio_hash(t) ==
    /\ ~halted
    /\ pc[t] = "lookup"
    /\ IF Hashed(fino[t]) # {}
         THEN \E m \in Hashed(fino[t]) :
                /\ ref' = [ref EXCEPT ![m] = @ + 1]
                /\ OpenFile(t, m)
         ELSE /\ pc' = [pc EXCEPT ![t] = "new"]
              /\ UNCHANGED <<ref, fmmio, st>>
    /\ UNCHANGED <<fino, hash, ino, stale, dsize, fsize, len, lsize, avars, halted>>

(***************************************************************************)
(* get_new_mmio: POP_PROVIDER takes a free mmio from the thread's         *)
(* provider (the process exits when the pool is empty, AllocExhausted);  *)
(* an empty file (fsize from fstat is 0) is posix_fallocate'd to          *)
(* DEFAULT_MMAP_SIZE and mapped at that length, any other at fsize; then *)
(* mmio->fsize = fsize, mmio->ino = ino and the checkpoint thread starts. *)
(* ref is left as the object had it.                                      *)
(***************************************************************************)
get_new_mmio(t) ==
    /\ pc[t] = "new"
    /\ A!Acquire(t)
    /\ \E m \in inUse' \ inUse :
         /\ ino' = [ino EXCEPT ![m] = fino[t]]
         /\ fmmio' = [fmmio EXCEPT ![t] = m]
         /\ fsize' = [fsize EXCEPT ![m] = st[t]]
         /\ len' = [len EXCEPT ![m] = IF st[t] = 0 THEN MmapSize ELSE st[t]]
    /\ dsize' = IF st[t] = 0 THEN [dsize EXCEPT ![fino[t]] = Max2(@, MmapSize)] ELSE dsize
    /\ pc' = [pc EXCEPT ![t] = "put"]
    /\ UNCHANGED <<fino, hash, ref, stale, st, lsize>>

AllocExhausted(t) ==
    /\ pc[t] = "new"
    /\ A!AcquireExhausted(t)
    /\ UNCHANGED fvars

(***************************************************************************)
(* put_mmio_hash, and the rest of libnvmmio_open: under the bucket mutex, *)
(* if the inode is already hashed that mmio is returned and becomes the   *)
(* file's mmio, with no ref++; otherwise the fresh mmio gets ref++ and a  *)
(* hash node.                                                             *)
(***************************************************************************)
\* Mutant: put_mmio_hash without the lookup of an existing node.
put_mmio_hash_unchecked(t) ==
    /\ ~halted
    /\ pc[t] = "put"
    /\ ref' = [ref EXCEPT ![fmmio[t]] = @ + 1]
    /\ list_add(fmmio[t])
    /\ pc' = [pc EXCEPT ![t] = "open"]
    /\ UNCHANGED <<fino, fmmio, ino, stale, st, dsize, fsize, len, lsize, avars, halted>>

put_mmio_hash(t) ==
    /\ ~halted
    /\ pc[t] = "put"
    /\ IF Hashed(fino[t]) # {}
         THEN \E m \in Hashed(fino[t]) :
                /\ OpenFile(t, m)
                /\ UNCHANGED <<hash, ref>>
         ELSE /\ ref' = [ref EXCEPT ![fmmio[t]] = @ + 1]
              /\ list_add(fmmio[t])
              /\ OpenFile(t, fmmio[t])
    /\ UNCHANGED <<fino, ino, stale, dsize, fsize, len, lsize, avars, halted>>

(***************************************************************************)
(* release_mmio, for each mmio R holds: pthread_cancel the checkpoint     *)
(* thread without joining it, munmap, ftruncate the closing descriptor's *)
(* file to mmio->fsize (every descriptor is opened for writing), destroy  *)
(* the rwlock,                                                             *)
(* init_mmio (ino = 0; ref is not reset) and PUSH_COLLECTOR on the        *)
(* closing thread's collector.  Cancellation is deferred and the thread's *)
(* only cancellation point is usleep: a sleeping thread ends at once, a   *)
(* thread inside checkpoint_mmio (any subset of R) finishes the pass      *)
(* first.                                                                  *)
(***************************************************************************)
release_mmio(t, R) ==
    /\ A!SetMem(FoldSet(LAMBDA o, mem : A!put_local_collector(mem, o, t), A!Mem, R))
    /\ inUse' = inUse \ R
    /\ ino' = [m \in Mmios |-> IF m \in R THEN NoIno ELSE ino[m]]
    /\ \E InPass \in SUBSET R : stale' = stale \cup InPass
    /\ dsize' = IF R = {} THEN dsize
                ELSE [dsize EXCEPT ![fino[t]] = fsize[CHOOSE m \in R : TRUE]]  \* R has one mmio
                                                                          \* while HashUniquePerIno holds
    /\ fsize' = [m \in Mmios |-> IF m \in R THEN 0 ELSE fsize[m]]
    /\ len' = [m \in Mmios |-> IF m \in R THEN 0 ELSE len[m]]

(***************************************************************************)
(* close, with delete_mmio_hash under the file mutex: every hash node of  *)
(* the file's inode gets ref--, and one that reaches zero is              *)
(* checkpointed, unlinked and released.  The file_t is freed and its      *)
(* fd_table slot cleared.  The mmio found is the one hashed for the       *)
(* inode, whichever the file itself points to.                            *)
(***************************************************************************)
\* Mutant: no ref-- before the test.
delete_mmio_hash_no_dec(t) ==
    LET H    == Hashed(fino[t])
        Dead == {m \in H : ref[m] <= 0}
    IN  /\ UNCHANGED ref
        /\ list_del(Dead)
        /\ release_mmio(t, Dead)

\* Mutant: the last reference released only below zero.
delete_mmio_hash_lt(t) ==
    LET H    == Hashed(fino[t])
        ref1 == [m \in Mmios |-> IF m \in H THEN ref[m] - 1 ELSE ref[m]]
        Dead == {m \in H : ref1[m] < 0}
    IN  /\ ref' = ref1
        /\ list_del(Dead)
        /\ release_mmio(t, Dead)

\* Mutant: a node is released while one reference is still counted.
delete_mmio_hash_le1(t) ==
    LET H    == Hashed(fino[t])
        ref1 == [m \in Mmios |-> IF m \in H THEN ref[m] - 1 ELSE ref[m]]
        Dead == {m \in H : ref1[m] <= 1}
    IN  /\ ref' = ref1
        /\ list_del(Dead)
        /\ release_mmio(t, Dead)

delete_mmio_hash(t) ==
    LET H    == Hashed(fino[t])
        ref1 == [m \in Mmios |-> IF m \in H THEN ref[m] - 1 ELSE ref[m]]
        Dead == {m \in H : ref1[m] <= 0}
    IN  /\ ref' = ref1
        /\ list_del(Dead)
        /\ release_mmio(t, Dead)

close(t) ==
    /\ ~halted
    /\ pc[t] = "open"
    /\ delete_mmio_hash(t)
    /\ pc' = [pc EXCEPT ![t] = "idle"]
    /\ fmmio' = [fmmio EXCEPT ![t] = NULL]
    /\ UNCHANGED <<fino, st, lsize, halted>>

(***************************************************************************)
(* write on an open descriptor (file.c write, mmio_write) that extends    *)
(* the file by a byte: mmio_write stores the data into the mapping and    *)
(* raises mmio->fsize to the end of the write.  A write that stays inside *)
(* fsize changes no size and is left out; one past the mapping would take *)
(* expand_mmio, which is not modelled, so the write stays within len.    *)
(* lsize records what the inode now holds.  A write through a released   *)
(* mmio dereferences start = NULL; that path is OpenFilesUseLiveMmio's    *)
(* and is not followed here.                                              *)
(***************************************************************************)
write(t) ==
    /\ ~halted
    /\ pc[t] = "open"
    /\ LET m == fmmio[t]
       IN /\ m \notin pool
          /\ fsize[m] < len[m]
          /\ fsize' = [fsize EXCEPT ![m] = @ + 1]
          /\ lsize' = [lsize EXCEPT ![ino[m]] = fsize[m] + 1]
    /\ UNCHANGED <<pc, fino, fmmio, hash, ino, ref, stale, st, dsize, len, avars, halted>>

(***************************************************************************)
(* checkpoint_thread_func: while (true) { usleep(SYNC_PERIOD);            *)
(* checkpoint_mmio(mmio); }.  A cancelled thread that was inside a pass   *)
(* finishes it, reaches usleep, acts on the pending cancel and exits.     *)
(* What the pass does to the logs is the Mmio module.                     *)
(***************************************************************************)
CkCancelled(m) ==
    /\ ~halted
    /\ m \in stale
    /\ stale' = stale \ {m}
    /\ UNCHANGED <<pc, fino, fmmio, hash, ino, ref, st, dsize, fsize, len, lsize, avars, halted>>

Next ==
    \/ \E t \in Threads :
         \/ \E i \in Inos : fstat(t, i)
         \/ get_mmio_hash(t)
         \/ get_new_mmio(t)
         \/ AllocExhausted(t)
         \/ put_mmio_hash(t)
         \/ write(t)
         \/ close(t)
    \/ \E m \in Mmios : CkCancelled(m)

Spec == Init /\ [][Next]_vars

-----------------------------------------------------------------------------
\* The threads whose open file points to mmio m.
Users(m) == {t \in Threads : pc[t] = "open" /\ fmmio[t] = m}

TypeOK ==
    /\ pc \in [Threads -> {"idle", "lookup", "new", "put", "open"}]
    /\ fino \in [Threads -> Inos]
    /\ fmmio \in [Threads -> Mmios \cup {NULL}]
    /\ hash \subseteq Mmios
    /\ ino \in [Mmios -> Inos \cup {NoIno}]
    /\ ref \in [Mmios -> 0 .. Cardinality(Threads)]
    /\ stale \subseteq Mmios
    /\ st \in [Threads -> Sizes]
    /\ dsize \in [Inos -> Sizes]
    /\ fsize \in [Mmios -> Sizes]
    /\ len \in [Mmios -> Sizes]
    /\ lsize \in [Inos -> Sizes]
    /\ A!TypeOK

\* Two threads that open the same inode at once both find it missing and
\* both reach put_mmio_hash: the hash still never holds two mmios of one
\* inode, because put_mmio_hash looks again under the bucket mutex.
HashUniquePerIno ==
    \A m, n \in hash : ino[m] = ino[n] => m = n

\* A hashed mmio's ref never counts more open files than point to it, so
\* delete_mmio_hash cannot leave a hashed mmio nobody can close.
RefNeverExceedsUsers ==
    \A m \in hash : ref[m] <= Cardinality(Users(m))

\* init_mmio does not reset mmio->ref, and put_mmio_hash counts up from
\* whatever the reused object holds: every mmio in the pool must still
\* have ref 0, whatever sequence of opens and closes released it.
PooledRefZero ==
    \A m \in pool : ref[m] = 0

\* The pool's own invariants (Allocator) under the allocation pattern of
\* files: every mmio is owned exactly once by a list or by an open; the
\* skip marks of the global list and of each collector mark its batches;
\* a collector keeps at most MAX_SKIP_NODES batches of released mmios.
\* Here an mmio is freed by whichever thread closes the last descriptor,
\* not by the thread that popped it.
OwnedOnce          == A!OwnedOnce
SkipMarksBatches   == A!SkipMarksBatches
CollectorRetention == A!CollectorRetention

\* A checkpoint pass never runs on an mmio that release_mmio has already
\* unmapped, re-initialised and pushed back to the pool (spec: a cancelled
\* checkpoint is interrupted, even mid-flush).  release_mmio does not join
\* the thread it cancels, and checkpoint_mmio contains no cancellation
\* point, so a pass under way goes on over the released object.
CheckpointStopsAtRelease ==
    stale = {}

\* The mmio hashed for an inode reports the size the inode's data has, so
\* a read sees every byte written and the ftruncate of its last close
\* keeps them.  libnvmmio_open takes the size from fstat before it looks
\* the inode up: when the inode's previous mmio is released between the
\* two, the new mmio starts from a size the file no longer has.
MmioSizeCurrent ==
    \A m \in hash : fsize[m] = lsize[ino[m]]

\* Every open file's mmio is a live mmio of the file's inode: it was not
\* released to the pool by a close of another descriptor, nor reused by
\* get_new_mmio for another inode.
OpenFilesUseLiveMmio ==
    \A t \in Threads :
        pc[t] = "open" => fmmio[t] \notin pool /\ ino[fmmio[t]] = fino[t]
=============================================================================
